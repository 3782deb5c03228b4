---------------------------- MODULE ContractTerms ----------------------------
(***************************************************************************)
(* One kind of contract term: submitted from evidence, reviewed by         *)
(* somebody else, given a cost impact that is approved and finalized, and  *)
(* invalidated with the document set.  Every revision supersedes the one   *)
(* before it.  A command that the trigger of a guarded database refuses    *)
(* rolls back; an unguarded (SQLite) database has no triggers.             *)
(***************************************************************************)
EXTENDS Naturals, Sequences

CONSTANTS
    Person, Rules,
    MaxTerms,  \* bound: revisions of the term
    MaxSets,   \* bound: document sets
    Nobody

VARIABLES
    terms,     \* the revisions, the last one current
    tasks,     \* [revision -> the review task it submits, the cost task it proposes]
    approvals, \* approval_records
    rules, docset, confirmed, conflict,
    guarded,   \* whether the database has the triggers
    refused    \* commands a trigger refused

termVars == <<terms, tasks, approvals, rules, docset, confirmed, conflict, guarded, refused>>

Index == 1 .. MaxTerms

\* ContractTermRow; root is the submission whose review the revision carries,
\* marked the document set whose replacement invalidated it (0: none).
TermRow == [by : Person, rules : Rules, docset : 1 .. MaxSets, root : Index,
            verified : BOOLEAN, resolved : BOOLEAN, decision : {"none", "APPROVED", "REJECTED"},
            reviewer : Person \cup {Nobody}, proposer : Person \cup {Nobody},
            approver : Person \cup {Nobody}, marked : 0 .. MaxSets]

NoTasks == [i \in Index |-> "none"]

TermInit == /\ terms = <<>>
            /\ tasks = [review |-> NoTasks, cost |-> NoTasks]
            /\ approvals = {} /\ rules \in Rules
            /\ docset = 1 /\ confirmed = TRUE /\ conflict = FALSE
            /\ guarded \in BOOLEAN /\ refused = {}

-----------------------------------------------------------------------------
Current == terms[Len(terms)]

\* tenderguard_protect_contract_term for an update of a current revision that
\* stays current: the payload may only grow, a decision is taken once, and
\* an update needs a later time stamp (touched).
Grows(old, new) == /\ old.marked \in {0, new.marked}
                   /\ old.decision \in {"none", new.decision}
                   /\ old.approver \in {Nobody, new.approver}

UpdateAccepted(old, new, touched) ==
    /\ touched /\ Grows(old, new)
    /\ \/ ~ old.verified /\ new.resolved = old.resolved /\ new.decision # "none"
       \/ /\ old.verified /\ new.verified
          /\ ~ old.resolved /\ new.resolved
       \/ ~ new.verified /\ ~ new.resolved /\ new.marked # 0

Accepted(old, new, touched) == guarded => UpdateAccepted(old, new, touched)

SupersedeTask(task) == IF task = "none" THEN task ELSE "SUPERSEDED"

\* Mutant: the review of the revision before stays open.
ReviewKept(i) == tasks.review

ReviewSuperseded(i) == [tasks.review EXCEPT ![i] = SupersedeTask(@)]

CostSuperseded(i) == [tasks.cost EXCEPT ![i] = SupersedeTask(@)]

\* submit_term: a new revision; the tasks of the previous one are superseded.
SubmitTerm(p) ==
    LET n == Len(terms) + 1
        review == IF terms = <<>> THEN tasks.review ELSE ReviewSuperseded(Current.root)
        cost == IF terms = <<>> THEN tasks.cost ELSE CostSuperseded(Len(terms))
    IN
    /\ n \in Index /\ confirmed /\ ~ conflict
    /\ terms' = Append(terms, [by |-> p, rules |-> rules, docset |-> docset, root |-> n,
            verified |-> FALSE, resolved |-> FALSE, decision |-> "none", reviewer |-> Nobody,
            proposer |-> Nobody, approver |-> Nobody, marked |-> 0])
    /\ tasks' = [review |-> [review EXCEPT ![n] = "PENDING"], cost |-> cost]
    /\ UNCHANGED <<approvals, rules, docset, confirmed, conflict, guarded, refused>>

\* _review_blockers of the current revision.
Reviewable(p) ==
    /\ terms # <<>> /\ confirmed /\ ~ conflict
    /\ Current.decision = "none" /\ ~ Current.verified
    /\ Current.by # p
    /\ Current.rules = rules /\ Current.docset = docset
    /\ tasks.review[Current.root] = "PENDING"

Approval(kind, i, p, d) == [kind |-> kind, of |-> i, by |-> p, decision |-> d]

DecideTerm(p, decision) ==
    /\ Reviewable(p)
    /\ LET new == [Current EXCEPT !.verified = (decision = "APPROVED"),
                                  !.decision = decision, !.reviewer = p] IN
       IF Accepted(Current, new, TRUE)
           THEN /\ terms' = [terms EXCEPT ![Len(terms)] = new]
                /\ tasks' = [tasks EXCEPT !.review[Current.root] = decision]
                /\ approvals' = approvals \cup {Approval("review", Current.root, p, decision)}
                /\ UNCHANGED refused
           ELSE refused' = refused \cup {"decide"} /\ UNCHANGED <<terms, tasks, approvals>>
    /\ UNCHANGED <<rules, docset, confirmed, conflict, guarded>>

\* _require_verified_term_integrity.
TermVerifies(row) ==
    /\ row.verified /\ row.decision = "APPROVED"
    /\ row.reviewer \notin {Nobody, row.by}
    /\ row.rules = rules /\ row.docset = docset
    /\ tasks.review[row.root] = "APPROVED"
    /\ Approval("review", row.root, row.reviewer, "APPROVED") \in approvals

\* propose_cost_impact inserts a revision, plans its approval task, and then
\* updates the payload of the row it inserted without a later time stamp.
ProposeCostImpact(p) ==
    LET n == Len(terms) + 1 IN
    /\ terms # <<>> /\ n \in Index /\ confirmed
    /\ TermVerifies(Current)
    /\ LET new == [Current EXCEPT !.resolved = FALSE, !.proposer = p] IN
       IF Accepted(new, new, FALSE)
           THEN /\ terms' = Append(terms, new)
                /\ tasks' = [tasks EXCEPT !.cost = [CostSuperseded(Len(terms)) EXCEPT ![n] = "PENDING"]]
                /\ UNCHANGED refused
           ELSE refused' = refused \cup {"propose"} /\ UNCHANGED <<terms, tasks>>
    /\ UNCHANGED <<approvals, rules, docset, confirmed, conflict, guarded>>

\* The generic approval of a cost task: not by the proposer.
ApproveCostImpact(p, decision) ==
    LET n == Len(terms) IN
    /\ terms # <<>> /\ tasks.cost[n] = "PENDING" /\ p # Current.proposer
    /\ tasks' = [tasks EXCEPT !.cost[n] = decision]
    /\ approvals' = approvals \cup {Approval("cost", n, p, decision)}
    /\ UNCHANGED <<terms, rules, docset, confirmed, conflict, guarded, refused>>

FinalizeCostImpact ==
    LET n == Len(terms) IN
    /\ terms # <<>> /\ confirmed /\ ~ Current.resolved /\ TermVerifies(Current)
    /\ tasks.cost[n] = "APPROVED"
    /\ \E a \in {r \in approvals : r.kind = "cost" /\ r.of = n /\ r.decision = "APPROVED"} :
       /\ a.by # Current.proposer
       /\ LET new == [Current EXCEPT !.resolved = TRUE, !.approver = a.by] IN
          IF Accepted(Current, new, TRUE)
              THEN terms' = [terms EXCEPT ![n] = new] /\ UNCHANGED refused
              ELSE refused' = refused \cup {"finalize"} /\ UNCHANGED terms
    /\ UNCHANGED <<tasks, approvals, rules, docset, confirmed, conflict, guarded>>

-----------------------------------------------------------------------------
\* _invalidate_derived_records, in the transaction that registers a document
\* revision: the current term and every task that is not superseded.
Invalidated(row) == [row EXCEPT !.verified = FALSE, !.resolved = FALSE, !.marked = docset + 1]

ReplaceDocument ==
    /\ docset < MaxSets
    /\ IF terms = <<>> \/ Accepted(Current, Invalidated(Current), TRUE)
           THEN /\ terms' = [i \in 1 .. Len(terms) |->
                        IF i = Len(terms) THEN Invalidated(terms[i]) ELSE terms[i]]
                /\ tasks' = [k \in DOMAIN tasks |-> [i \in Index |-> SupersedeTask(tasks[k][i])]]
                /\ docset' = docset + 1 /\ confirmed' = FALSE
                /\ UNCHANGED refused
           ELSE refused' = refused \cup {"replace"} /\ UNCHANGED <<terms, tasks, docset, confirmed>>
    /\ UNCHANGED <<approvals, rules, conflict, guarded>>

ConfirmSet == /\ ~ confirmed /\ confirmed' = TRUE
              /\ UNCHANGED <<terms, tasks, approvals, rules, docset, conflict, guarded, refused>>

BindRules(v) == /\ v # rules /\ rules' = v
                /\ UNCHANGED <<terms, tasks, approvals, docset, confirmed, conflict, guarded, refused>>

Conflict == /\ conflict' = ~ conflict
            /\ UNCHANGED <<terms, tasks, approvals, rules, docset, confirmed, guarded, refused>>

TermNext ==
    \/ \E p \in Person : \/ SubmitTerm(p) \/ ProposeCostImpact(p)
                         \/ \E d \in {"APPROVED", "REJECTED"} : DecideTerm(p, d) \/ ApproveCostImpact(p, d)
    \/ FinalizeCostImpact \/ ReplaceDocument \/ ConfirmSet \/ Conflict
    \/ \E v \in Rules : BindRules(v)

TermSpec == TermInit /\ [][TermNext]_termVars

-----------------------------------------------------------------------------
TermTypeOK ==
    /\ terms \in Seq(TermRow)
    /\ \A kind \in DOMAIN tasks : \A i \in Index : tasks[kind][i] # "none" => i \in DOMAIN terms

\* The contract stage gate lets a term through.
PassesGate == /\ terms # <<>> /\ confirmed /\ ~ conflict
              /\ Current.resolved /\ TermVerifies(Current)
              /\ tasks.cost[Len(terms)] = "APPROVED"
              /\ Approval("cost", Len(terms), Current.approver, "APPROVED") \in approvals

\* A term that counts was read and priced by four eyes over this document set
\* and these rules, and nothing of an earlier revision is still to be decided.
TermStands ==
    /\ PassesGate => /\ Current.by # Current.reviewer
                     /\ Current.proposer \notin {Nobody, Current.approver}
                     /\ Current.docset = docset /\ Current.marked = 0
    /\ \A i \in 1 .. Len(terms) - 1 :
          /\ tasks.cost[i] \in {"none", "SUPERSEDED"}
          /\ terms[i].root # Current.root => tasks.review[i] \in {"none", "SUPERSEDED"}

\* docs/contract-risk-workflow.md: "Every proposal creates a policy-owned
\* `CONTRACT_COST_IMPACT` approval task".
ProposalAccepted == "propose" \notin refused
=============================================================================
