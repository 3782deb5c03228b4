-------------------------- MODULE ProjectLifecycle --------------------------
(***************************************************************************)
(* One project from its first document to its release: the uploads and the  *)
(* document sets of application/projects.py and quarantine.py, the stage    *)
(* gates of application/stage_gates.py, the BoQ, the attestations, the      *)
(* fixed calculation and the release decision.                              *)
(*                                                                         *)
(* Every handler locks the project row before it reads anything else, so    *)
(* one action is one request.  The processing of an upload between its      *)
(* reception and its verdict is DocumentPipeline; here it is one step.      *)
(***************************************************************************)
EXTENDS Workflow, Naturals, Sequences, FiniteSets

CONSTANTS
    Document,    \* logical keys
    Person,      \* actors that submit and confirm
    Draft,       \* contents of a BoQ line
    MaxUploads,  \* bound: uploads of the project
    None         \* NULL

ASSUME LifecycleAssumption == MaxUploads \in Nat

\* A revision is identified with the upload that it was promoted from.
Upload == 1 .. MaxUploads

\* A document set is its manifest: the revisions that it lists.
Manifest == SUBSET Upload

Part == {"passport", "scope", "price", "contract", "risk"}

VARIABLES
    state,     \* ProjectRow.state
    docset,    \* ProjectRow.current_document_set_revision_id
    uploads,   \* the quarantined uploads, in order of reception
    current,   \* revisions with is_current
    sets,      \* sets[m]: the document_set_revisions row of manifest m
    line,      \* the current BoQ line together with its quantity
    created,   \* the ids of all BoQ lines ever created
    attested,  \* attested[p]: what the verified records of part p are bound to
    snapshot   \* the latest fixed calculation, and whether a request in
               \* expert_rework_requests names it

vars ==
    <<state, docset, uploads, current, sets, line, created, attested, snapshot>>

LineId == [draft : Draft, set : Manifest]

TypeOK ==
    /\ state \in ApprovalState
    /\ docset \in Manifest \cup {None}
    /\ uploads \in Seq([document : Document, by : Person, makeCurrent : BOOLEAN,
                        captured : Manifest \cup {None}, clean : BOOLEAN,
                        status : {"quarantined", "processed", "rejected"}])
    /\ Len(uploads) <= MaxUploads
    /\ current \subseteq {i \in DOMAIN uploads : uploads[i].status = "processed"}
    /\ sets \in [Manifest ->
                    [status : {"absent", "DRAFT", "CONFIRMED", "SUPERSEDED"},
                     by : Person \cup {None}, confirmer : Person \cup {None}]]
    /\ line \in [id : LineId, verified : BOOLEAN] \cup {None}
    /\ created \subseteq LineId
    /\ attested \in [Part -> [set : Manifest \cup {None}, line : LineId \cup {None}] \cup {None}]
    /\ snapshot \in
          [set : Manifest, line : LineId, passed : BOOLEAN, reworked : BOOLEAN]
             \cup {None}

Init ==
    /\ state = "DRAFT"
    /\ docset = None
    /\ uploads = <<>>
    /\ current = {}
    /\ sets = [m \in Manifest |-> [status |-> "absent", by |-> None, confirmer |-> None]]
    /\ line = None
    /\ created = {}
    /\ attested = [p \in Part |-> None]
    /\ snapshot = None

----------------------------------------------------------------------------
(* Documents. *)

\* Mutant: only the newest upload of the project is looked at.
UnresolvedNewest(d) ==
    {i \in DOMAIN uploads :
        i = Len(uploads) /\ uploads[i].document = d /\ uploads[i].status = "quarantined"}

Unresolved(d) ==
    {i \in DOMAIN uploads :
        uploads[i].document = d /\ uploads[i].status = "quarantined"}

Rejected(d) ==
    {i \in DOMAIN uploads :
        uploads[i].document = d /\ uploads[i].status = "rejected"}

Latest(S) == CHOOSE i \in S : \A j \in S : j <= i

Inherited(d) ==
    IF Rejected(d) = {} THEN None ELSE uploads[Latest(Rejected(d))].captured

\* The document set that a new upload will invalidate once it is processed.
Captured(d, mc) ==
    IF ~mc THEN None
    ELSE IF docset # None THEN docset ELSE Inherited(d)

\* Mutant: released projects still accept uploads.
ReceivableAlways(d) == Unresolved(d) = {}

Receivable(d) == state \notin Immutable /\ Unresolved(d) = {}

Receive(d, p, mc) ==
    /\ Len(uploads) < MaxUploads
    /\ Receivable(d)
    /\ uploads' = Append(uploads,
                         [document |-> d, by |-> p, makeCurrent |-> mc,
                          captured |-> Captured(d, mc), clean |-> TRUE,
                          status |-> "quarantined"])
    /\ docset' = IF mc THEN None ELSE docset
    /\ state' = IF ~mc \/ state \in {"DOCUMENTS_INCOMPLETE", "BLOCKED"} THEN state
                ELSE IF state = "DRAFT" THEN "DOCUMENTS_INCOMPLETE" ELSE "BLOCKED"
    /\ UNCHANGED <<current, sets, line, created, attested, snapshot>>

\* The verdict of the malware scanner: it neither locks nor reads the project.
Reject(i) ==
    /\ i \in DOMAIN uploads
    /\ uploads[i].status = "quarantined"
    /\ uploads' = [uploads EXCEPT ![i].status = "rejected"]
    /\ UNCHANGED <<state, docset, current, sets, line, created, attested, snapshot>>

SameDocument(i) == {j \in DOMAIN uploads : uploads[j].document = uploads[i].document}

CurrentAfter(i) ==
    IF uploads[i].makeCurrent THEN (current \ SameDocument(i)) \cup {i} ELSE current

\* A manifest that already has a row keeps it, whatever its status.
WithCandidate(m, p) ==
    IF sets[m].status = "absent"
    THEN [sets EXCEPT ![m] = [status |-> "DRAFT", by |-> p, confirmer |-> None]]
    ELSE sets

Invalidates(i) == uploads[i].makeCurrent /\ uploads[i].captured # None

Unverified(l) == IF l = None THEN None ELSE [l EXCEPT !.verified = FALSE]

\* _invalidate_derived_records
InvalidateDerivedRecords(i) ==
    /\ line' = IF Invalidates(i) THEN Unverified(line) ELSE line
    /\ attested' = IF Invalidates(i) THEN [p \in Part |-> None] ELSE attested

\* Mutant: the set that was confirmed meanwhile stays the current one.
DocsetKept(i) == docset

DocsetAfter(i) == IF uploads[i].makeCurrent THEN None ELSE docset

\* all_files_processed of the intake manifest is clean.
Process(i, clean) ==
    /\ i \in DOMAIN uploads
    /\ uploads[i].status = "quarantined"
    /\ state \notin Immutable
    /\ uploads' = [uploads EXCEPT ![i].status = "processed", ![i].clean = clean]
    /\ current' = CurrentAfter(i)
    /\ InvalidateDerivedRecords(i)
    /\ sets' = WithCandidate(CurrentAfter(i), uploads[i].by)
    /\ docset' = DocsetAfter(i)
    /\ state' = IF Invalidates(i) THEN "BLOCKED"
                ELSE IF ~clean /\ state \in {"DRAFT", "EXTRACTION_IN_PROGRESS"}
                     THEN "DOCUMENTS_INCOMPLETE" ELSE state
    /\ UNCHANGED <<created, snapshot>>

Confirmable(p) == sets[current].status = "DRAFT" /\ sets[current].by # p

\* confirm_document_set does not look at the state of the project.
Confirm(p) ==
    /\ Confirmable(p)
    /\ sets' = [m \in Manifest |->
                   IF m = current
                   THEN [sets[m] EXCEPT !.status = "CONFIRMED", !.confirmer = p]
                   ELSE IF sets[m].status = "CONFIRMED"
                        THEN [sets[m] EXCEPT !.status = "SUPERSEDED"]
                        ELSE sets[m]]
    /\ docset' = current
    /\ UNCHANGED <<state, uploads, current, line, created, attested, snapshot>>

----------------------------------------------------------------------------
(* The bill of quantities and the attestations. *)

\* require_confirmed_document_set_integrity
SetUsable == docset # None /\ docset # {} /\ sets[docset].status = "CONFIRMED"

LineVerified == line # None /\ line.verified

CurrentLine == IF line = None THEN None ELSE line.id

SubmitLine(d) ==
    /\ state = "BOQ_IN_PROGRESS"
    /\ SetUsable
    /\ [draft |-> d, set |-> docset] \notin created
    /\ line' = [id |-> [draft |-> d, set |-> docset], verified |-> FALSE]
    /\ created' = created \cup {[draft |-> d, set |-> docset]}
    /\ UNCHANGED <<state, docset, uploads, current, sets, attested, snapshot>>

VerifyLine ==
    /\ state \in {"BOQ_IN_PROGRESS", "BOQ_REVIEW"}
    /\ line # None
    /\ ~line.verified
    /\ line.id.set = docset
    /\ SetUsable
    /\ line' = [line EXCEPT !.verified = TRUE]
    /\ UNCHANGED <<state, docset, uploads, current, sets, created, attested, snapshot>>

PassportStates ==
    {"EXTRACTION_IN_PROGRESS", "EXTRACTION_REVIEW", "BOQ_IN_PROGRESS", "BOQ_REVIEW"}

ContractStates == PassportStates \cup {"PRICING_IN_PROGRESS", "RFQ_REQUIRED"}

RiskStates ==
    {"BOQ_IN_PROGRESS", "BOQ_REVIEW", "PRICING_IN_PROGRESS", "RFQ_REQUIRED"}

\* The records of part p are verified against the document set and the BoQ.
Verify(p) ==
    /\ attested' = [attested EXCEPT ![p] = [set |-> docset, line |-> CurrentLine]]
    /\ UNCHANGED <<state, docset, uploads, current, sets, line, created, snapshot>>

\* A new candidate replaces the verified records and waits for its review.
Replace(p) ==
    /\ attested[p] # None
    /\ attested' = [attested EXCEPT ![p] = None]
    /\ UNCHANGED <<state, docset, uploads, current, sets, line, created, snapshot>>

SubmitFact == state \in PassportStates /\ SetUsable /\ Replace("passport")

DecideFact ==
    /\ state \in PassportStates
    /\ SetUsable
    /\ attested["passport"] = None
    /\ Verify("passport")

SubmitTerm == state \in ContractStates /\ SetUsable /\ Replace("contract")

DecideTerm ==
    /\ state \in ContractStates
    /\ SetUsable
    /\ attested["contract"] = None
    /\ Verify("contract")

SubmitRisk == state \in RiskStates /\ SetUsable /\ Replace("risk")

\* The reserve is calculated over items that are verified for the current set,
\* and its cost component belongs to a verified BoQ line.
CalculateReserve ==
    /\ state \in RiskStates
    /\ SetUsable
    /\ LineVerified
    /\ attested["risk"] # None => attested["risk"].set = docset
    /\ Verify("risk")

\* The scope evaluation is bound to nothing but the BoQ.
RunScopeCompleteness ==
    /\ state = "BOQ_REVIEW"
    /\ LineVerified
    /\ Verify("scope")

PriceVerdict == {"VERIFIED", "RFQ_REQUIRED", "EXPERT_REVIEW_REQUIRED"}

\* _sync_project_pricing_state: one item, so that a verified price leaves no
\* pricing blocker behind.
PricingState(verdict) ==
    IF verdict = "VERIFIED" THEN "PRICING_IN_PROGRESS"
    ELSE IF verdict = "EXPERT_REVIEW_REQUIRED" THEN "EXPERT_REVIEW"
    ELSE IF state = "PRICING_IN_PROGRESS" THEN "RFQ_REQUIRED" ELSE state

EvaluatePrice(verdict) ==
    /\ state \in {"PRICING_IN_PROGRESS", "RFQ_REQUIRED", "EXPERT_REVIEW"}
    /\ SetUsable
    /\ LineVerified
    /\ attested' = [attested EXCEPT !["price"] =
                       IF verdict = "VERIFIED"
                       THEN [set |-> docset, line |-> CurrentLine] ELSE None]
    /\ state' = PricingState(verdict)
    /\ UNCHANGED <<docset, uploads, current, sets, line, created, snapshot>>

----------------------------------------------------------------------------
(* Stage gates. *)

BoundToSet(p) == attested[p] # None /\ attested[p].set = docset

BoundToLine(p) ==
    LineVerified /\ attested[p] # None /\ attested[p].line = line.id

PassportGate == SetUsable /\ BoundToSet("passport")

BoqGate == LineVerified

ScopeGate == BoqGate /\ BoundToLine("scope")

PriceGate == LineVerified /\ attested["price"] # None

ContractGate == SetUsable /\ BoundToSet("contract")

RiskGate == SetUsable /\ BoundToSet("risk") /\ BoundToLine("risk")

\* _validate_stage_gate: the moves that it does not name are open.
StageGate(from, to) ==
    /\ <<from, to>> = <<"EXTRACTION_REVIEW", "BOQ_IN_PROGRESS">> => PassportGate
    /\ <<from, to>> = <<"BOQ_IN_PROGRESS", "BOQ_REVIEW">> => BoqGate
    /\ from = "BOQ_REVIEW" /\ to \in {"PRICING_IN_PROGRESS", "RFQ_REQUIRED"}
          => ScopeGate
    /\ <<from, to>> = <<"PRICING_IN_PROGRESS", "CALCULATION_IN_PROGRESS">>
          => PriceGate /\ ContractGate /\ RiskGate

Transition(to) ==
    /\ to \notin Released
    /\ CanTransition(state, to)
    /\ StageGate(state, to)
    /\ state' = to
    /\ UNCHANGED
          <<docset, uploads, current, sets, line, created, attested, snapshot>>

----------------------------------------------------------------------------
(* Calculation and release. *)

\* Mutant: the price decisions are trusted as they are.
PricesTrusted == attested["price"] # None

\* The price decisions are re-verified against the current document set.
PricesCurrent == BoundToSet("price")

\* The candidate takes every verified current line, whatever its document set.
CandidateReady == docset # None /\ LineVerified /\ PricesCurrent

Calculate(passed) ==
    /\ state = "CALCULATION_IN_PROGRESS"
    /\ CandidateReady
    /\ snapshot' = [set |-> docset, line |-> line.id, passed |-> passed,
                     reworked |-> FALSE]
    /\ state' = "INDEPENDENT_VALIDATION"
    /\ UNCHANGED <<docset, uploads, current, sets, line, created, attested>>

\* A processed upload resolves the findings of the rejected ones before it.
ResolvedBySuccessor(i) ==
    \E j \in SameDocument(i) : j > i /\ uploads[j].status = "processed"

\* Unresolved findings of severity BLOCKER in the contour INPUT_INTEGRITY.
BlockingFindings ==
    {i \in DOMAIN uploads :
        \/ uploads[i].status = "quarantined" /\ uploads[i].makeCurrent
        \/ uploads[i].status = "rejected" /\ ~ResolvedBySuccessor(i)
        \/ uploads[i].status = "processed" /\ ~uploads[i].clean}

\* Documents whose only revisions are not current.
MissingDocuments ==
    {d \in Document :
        /\ \E i \in DOMAIN uploads :
              uploads[i].document = d /\ uploads[i].status = "processed"
        /\ \A i \in current : uploads[i].document # d}

\* Mutant: the snapshot may belong to an earlier document set.
SnapshotPassed == snapshot # None /\ snapshot.passed

SnapshotCurrent == snapshot # None /\ snapshot.set = docset /\ snapshot.passed

\* evaluate_bid_release, as far as the state of this module decides it
ReleaseAllowed ==
    /\ docset # None
    /\ MissingDocuments = {}
    /\ BlockingFindings = {}
    /\ attested["price"] # None
    /\ PassportGate /\ ScopeGate /\ ContractGate /\ RiskGate
    /\ SnapshotCurrent

\* Approvals, governed versions and qualifications may block as well.
Release(target, othersAllow) ==
    /\ target \in Released
    /\ CanTransition(state, target)
    /\ state' = IF ReleaseAllowed /\ othersAllow THEN target ELSE "BLOCKED"
    /\ UNCHANGED
          <<docset, uploads, current, sets, line, created, attested, snapshot>>

ReworkStages ==
    {"EXTRACTION_IN_PROGRESS", "BOQ_IN_PROGRESS", "PRICING_IN_PROGRESS",
     "CALCULATION_IN_PROGRESS", "BLOCKED"}

\* The final expert returns the project to the earliest stage of the issues.
RequestRework(target) ==
    /\ state = "EXPERT_REVIEW"
    /\ snapshot # None
    /\ snapshot.set = docset
    /\ snapshot' = [snapshot EXCEPT !.reworked = TRUE]
    /\ state' = target
    /\ UNCHANGED <<docset, uploads, current, sets, line, created, attested>>

----------------------------------------------------------------------------
Next ==
    \/ \E d \in Document, p \in Person, mc \in BOOLEAN : Receive(d, p, mc)
    \/ \E i \in Upload : Reject(i)
    \/ \E i \in Upload, clean \in BOOLEAN : Process(i, clean)
    \/ \E p \in Person : Confirm(p)
    \/ \E d \in Draft : SubmitLine(d)
    \/ VerifyLine
    \/ SubmitFact \/ DecideFact
    \/ SubmitTerm \/ DecideTerm
    \/ SubmitRisk \/ CalculateReserve
    \/ RunScopeCompleteness
    \/ \E verdict \in PriceVerdict : EvaluatePrice(verdict)
    \/ \E to \in ApprovalState : Transition(to)
    \/ \E passed \in BOOLEAN : Calculate(passed)
    \/ \E target \in Released, othersAllow \in BOOLEAN : Release(target, othersAllow)
    \/ \E target \in ReworkStages : RequestRework(target)

Spec == Init /\ [][Next]_vars

----------------------------------------------------------------------------
(* Properties. *)

\* The document set that a project refers to is the one confirmed set of the
\* project and lists exactly its current revisions, although confirmations
\* interleave with the processing of uploads that were received before them
\* (confirm_document_set against register_scanned_document_revision).
ConfirmedSetIsCurrent ==
    /\ docset # None => docset = current /\ sets[docset].status = "CONFIRMED"
    /\ \A m, n \in DOMAIN sets :
          sets[m].status = "CONFIRMED" /\ sets[n].status = "CONFIRMED" => m = n

\* Uploads of one document are processed in the order of their reception: the
\* current revision is never older than another processed candidate (the
\* unresolved-upload check of receive, which spans requests).
LatestRevisionIsCurrent ==
    \A i \in current : \A j \in SameDocument(i) :
        uploads[j].status = "processed" /\ uploads[j].makeCurrent => j <= i

\* In a released state the calculation, the passport, the contract and the
\* risks belong to the confirmed current document set, the BoQ is verified,
\* and no newer candidate is waiting or was rejected without a successor.
ReleaseIsCurrent ==
    state \in Released =>
        /\ docset # None /\ docset = current
        /\ snapshot # None /\ snapshot.set = docset /\ snapshot.passed
        /\ \A p \in {"passport", "contract", "risk"} : BoundToSet(p)
        /\ LineVerified
        /\ \A i \in BlockingFindings : ~uploads[i].makeCurrent

Decided == <<docset, current, sets, line, attested, snapshot>>

\* Nothing that a bid release was decided on changes afterwards, whatever was
\* still being uploaded, processed or confirmed (the immutability checks).
ReleaseIsFrozen ==
    [][(state \in {"APPROVED_FOR_BID", "SUPERSEDED"}) =>
          Decided' = Decided]_vars

\* The price decisions beside a calculation of the confirmed set were taken
\* for that set.  An upload that captured no set leaves old decisions in place,
\* so this rests on the calculation re-verifying them (_build_current_candidate).
PricesFollowTheSet ==
    snapshot # None /\ docset # None /\ snapshot.set = docset
        => attested["price"] = None \/ BoundToSet("price")

\* docs/architecture.md: a newer current document revision "requires new
\* BoQ/evidence revisions before calculation can proceed".
SnapshotMatchesItsBoq ==
    snapshot # None => snapshot.line.set = snapshot.set

\* docs/final-expert-review.md: a rework request "makes the old snapshot
\* ineligible for release".
ReworkedSnapshotIsNotReleased ==
    state \in Released => ~snapshot.reworked
=============================================================================
