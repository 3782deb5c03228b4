--------------------------- MODULE BoqQuantities ---------------------------
(***************************************************************************)
(* One imported row of a bill of quantities.  Its identity and its         *)
(* quantity are proposed and reviewed apart; the approved identity makes a *)
(* line, the approved quantity its first quantity, and every later         *)
(* quantity is a registered change of exactly the one before it.  Uploads  *)
(* are received and processed apart, and only one that was received while  *)
(* a document set was confirmed invalidates what was decided over it.      *)
(***************************************************************************)
EXTENDS Naturals, Sequences, FiniteSetsExt

CONSTANTS
    Person,
    Draft,         \* contents of the line
    Value, Row,    \* quantities; the one in the imported row
    Upload,        \* uploads of documents other than the workbook
    MaxProposals, MaxLines, MaxQuantities, MaxChanges, MaxSets  \* bounds

VARIABLES
    proposals,  \* [kind -> proposals of the row, the last one newest]
    lines,      \* revisions of the line, the last one current
    quantities, \* of all lines; the last one of a line is its current one
    unresolved, \* quantities with an unresolved finding
    changes,    \* registered manual changes
    critical,   \* whether the policy holds changes to be critical
    docset,     \* the newest document set, current if confirmed
    confirmed,
    candidate,  \* it waits for its confirmation
    uploads     \* [Upload -> what became of it]

documentVars == <<docset, confirmed, candidate, uploads>>
boqVars == <<proposals, lines, quantities, unresolved, changes, critical, documentVars>>

Kind == {"mapping", "quantity"}

\* ObservationRow and its task; the record of a decision stays.
Proposal == [by : Person, task : {"PENDING", "APPROVED", "REJECTED", "SUPERSEDED"},
             decided : {"none", "APPROVED", "REJECTED"}]
\* BoqLineRow; of is the mapping proposal it rests on.
LineRow == [draft : Draft, docset : 1 .. MaxSets, by : Person, of : Nat, verified : BOOLEAN]
\* QuantityRow; change 0 is a first quantity.
QuantityRow == [line : Nat, value : Value, status : {"VERIFIED", "CONFLICT", "IN_REVIEW"},
                change : Nat]
\* ManualChangeRow, its task and its application; seen is a history variable:
\* the replacements before it was proposed.
ChangeRow == [by : Person, previous : Nat, after : Value, docset : 1 .. MaxSets,
              task : {"none", "PENDING", "APPROVED", "REJECTED", "SUPERSEDED"},
              applied : BOOLEAN, seen : SUBSET Upload]

\* QuarantinedUploadRow: received while a set was confirmed or not, then
\* processed, which invalidated what was derived from that set or nothing.
UploadState == {"none", "captured", "uncaptured", "replaced", "added"}

Replacements == {u \in Upload : uploads[u] = "replaced"}

BoqInit ==
    /\ proposals = [k \in Kind |-> <<>>] /\ lines = <<>> /\ quantities = <<>>
    /\ unresolved = {} /\ changes = <<>> /\ critical \in BOOLEAN
    /\ docset = 1 /\ confirmed = TRUE /\ candidate = FALSE
    /\ uploads = [u \in Upload |-> "none"]

-----------------------------------------------------------------------------
Active(k) == {i \in DOMAIN proposals[k] : proposals[k][i].task \in {"PENDING", "APPROVED"}}

\* _reviewed_candidate_proposal: the decision of the newest proposal, or of
\* the active one, reproduces.
Reproduces(k) ==
    \A i \in DOMAIN proposals[k] :
        /\ \/ i \in Active(k)
           \/ Active(k) = {} /\ i = Len(proposals[k])
        /\ proposals[k][i].task # "PENDING"
        => proposals[k][i].decided = proposals[k][i].task

Proposable(k) == /\ confirmed /\ Reproduces(k) /\ Active(k) = {}
                 /\ Len(proposals["mapping"]) + Len(proposals["quantity"]) < MaxProposals

WithProposal(k, p) ==
    [proposals EXCEPT ![k] = Append(@, [by |-> p, task |-> "PENDING", decided |-> "none"])]

\* propose_spreadsheet_mapping.
ProposeMapping(p) ==
    /\ Proposable("mapping") /\ proposals' = WithProposal("mapping", p)
    /\ UNCHANGED <<lines, quantities, unresolved, changes, critical, documentVars>>

\* propose_spreadsheet_quantity: the one of the row.
ProposeQuantity(p) ==
    /\ Proposable("quantity") /\ proposals' = WithProposal("quantity", p)
    /\ UNCHANGED <<lines, quantities, unresolved, changes, critical, documentVars>>

\* The decision of a manual evidence review (EvidenceService).
DecideProposal(k, p, d) ==
    /\ proposals[k] # <<>> /\ confirmed
    /\ LET n == Len(proposals[k]) IN
        /\ proposals[k][n].task = "PENDING" /\ proposals[k][n].by # p
        /\ proposals' = [proposals EXCEPT ![k][n] = [@ EXCEPT !.task = d, !.decided = d]]
    /\ UNCHANGED <<lines, quantities, unresolved, changes, critical, documentVars>>

\* _validated_observation replays the review of the evidence.
Evidence(k, i) == i \in DOMAIN proposals[k] /\ proposals[k][i].task = "APPROVED"

Line == lines[Len(lines)]

\* create_line: a draft makes one row per document set.
CreateLine(p, d) ==
    /\ confirmed /\ Len(lines) < MaxLines
    /\ \A i \in DOMAIN lines : lines[i].draft = d => lines[i].docset # docset
    /\ \E i \in Active("mapping") :
        /\ Evidence("mapping", i)
        /\ lines' = Append(lines, [draft |-> d, docset |-> docset, by |-> p, of |-> i,
                                   verified |-> FALSE])
    /\ UNCHANGED <<proposals, quantities, unresolved, changes, critical, documentVars>>

VerifyLine(p) ==
    /\ lines # <<>> /\ confirmed
    /\ ~ Line.verified /\ Line.docset = docset /\ Line.by # p
    /\ Evidence("mapping", Line.of)
    /\ lines' = [lines EXCEPT ![Len(lines)].verified = TRUE]
    /\ UNCHANGED <<proposals, quantities, unresolved, changes, critical, documentVars>>

OfLine(n) == {i \in DOMAIN quantities : quantities[i].line = n}

\* The current quantity of the current line, 0 if there is none.
CurrentQuantity ==
    IF OfLine(Len(lines)) = {} THEN 0
    ELSE CHOOSE i \in OfLine(Len(lines)) : \A j \in OfLine(Len(lines)) : j <= i

\* _current_quantity_line.
QuantityLine == lines # <<>> /\ Line.verified

NewQuantity(v, status, c) ==
    Append(quantities, [line |-> Len(lines), value |-> v, status |-> status, change |-> c])

\* record_quantity of a first quantity; validation passes or leaves a finding.
RecordInitial(v, passed) ==
    /\ QuantityLine /\ CurrentQuantity = 0 /\ Len(quantities) < MaxQuantities
    /\ quantities' = NewQuantity(v, IF passed THEN "VERIFIED" ELSE "CONFLICT", 0)
    /\ unresolved' = IF passed THEN unresolved ELSE unresolved \cup {Len(quantities) + 1}
    /\ UNCHANGED <<proposals, lines, changes, critical, documentVars>>

\* attach_imported_quantity: the reviewed quantity of the row, and no other.
AttachImported ==
    /\ QuantityLine /\ confirmed /\ Line.docset = docset
    /\ \E i \in DOMAIN proposals["quantity"] : Evidence("quantity", i)
    /\ RecordInitial(Row, TRUE)

-----------------------------------------------------------------------------
\* A change is identified by who makes which of which quantity over which set.
Identity(c) == <<c.by, c.previous, c.after, c.docset>>

\* propose_quantity_manual_change.
ProposeChange(p, v) ==
    /\ QuantityLine /\ CurrentQuantity # 0 /\ confirmed
    /\ quantities[CurrentQuantity].value # v /\ Len(changes) < MaxChanges
    /\ LET c == [by |-> p, previous |-> CurrentQuantity, after |-> v, docset |-> docset,
                 task |-> IF critical THEN "PENDING" ELSE "none", applied |-> FALSE,
                 seen |-> Replacements] IN
       /\ \A i \in DOMAIN changes : Identity(changes[i]) # Identity(c)
       /\ changes' = Append(changes, c)
    /\ UNCHANGED <<proposals, lines, quantities, unresolved, critical, documentVars>>

\* ApprovalService.decide of a critical change: not by its author.
DecideChange(c, p, d) ==
    /\ changes[c].task = "PENDING" /\ changes[c].by # p
    /\ changes' = [changes EXCEPT ![c].task = d]
    /\ UNCHANGED <<proposals, lines, quantities, unresolved, critical, documentVars>>

ChangeApproved(c) == critical => changes[c].task = "APPROVED"

\* Mutant: the state before is compared, the quantity is not.
ApplicableByValue(c) ==
    /\ confirmed /\ changes[c].docset = docset
    /\ ~ changes[c].applied /\ ChangeApproved(c)
    /\ quantities[CurrentQuantity].value = quantities[changes[c].previous].value

\* _validated_quantity_manual_change.
Applicable(c) ==
    /\ confirmed /\ changes[c].docset = docset
    /\ ~ changes[c].applied /\ ChangeApproved(c)
    /\ CurrentQuantity = changes[c].previous

\* apply_quantity_manual_change by the author: record_quantity of a revision.
ApplyChange(c) ==
    /\ QuantityLine /\ CurrentQuantity # 0 /\ Len(quantities) < MaxQuantities
    /\ Applicable(c)
    /\ quantities' = NewQuantity(changes[c].after, "VERIFIED", c)
    /\ unresolved' = unresolved \ {CurrentQuantity}
    /\ changes' = [changes EXCEPT ![c].applied = TRUE]
    /\ UNCHANGED <<proposals, lines, critical, documentVars>>

-----------------------------------------------------------------------------
SupersededChange(c) == IF c.task = "none" THEN c ELSE [c EXCEPT !.task = "SUPERSEDED"]

\* register_quarantined_upload: the upload captures the set it will invalidate,
\* if there is one, and the project has none any more.
ReceiveUpload(u) ==
    /\ uploads[u] = "none"
    /\ uploads' = [uploads EXCEPT ![u] = IF confirmed THEN "captured" ELSE "uncaptured"]
    /\ confirmed' = FALSE
    /\ UNCHANGED <<proposals, lines, quantities, unresolved, changes, critical, docset, candidate>>

\* The next document set, a candidate until it is confirmed.
NewCandidate == /\ docset < MaxSets /\ docset' = docset + 1
                /\ candidate' = TRUE /\ confirmed' = FALSE

\* Its processing: the documents enter the next set, and what was derived from
\* the captured one is invalidated (_invalidate_derived_records) ...
ReplaceDocument(u) ==
    /\ uploads[u] = "captured" /\ uploads' = [uploads EXCEPT ![u] = "replaced"]
    /\ NewCandidate
    /\ lines' = [i \in DOMAIN lines |->
            IF i = Len(lines) THEN [lines[i] EXCEPT !.verified = FALSE] ELSE lines[i]]
    /\ quantities' = [i \in DOMAIN quantities |->
            IF i = CurrentQuantity THEN [quantities[i] EXCEPT !.status = "IN_REVIEW"] ELSE quantities[i]]
    /\ changes' = [c \in DOMAIN changes |-> SupersededChange(changes[c])]
    /\ proposals' = [k \in Kind |-> [i \in DOMAIN proposals[k] |->
            [proposals[k][i] EXCEPT !.task = "SUPERSEDED"]]]
    /\ UNCHANGED <<unresolved, critical>>

\* ... or nothing is, since nothing was captured.
AddDocument(u) ==
    /\ uploads[u] = "uncaptured" /\ uploads' = [uploads EXCEPT ![u] = "added"]
    /\ NewCandidate
    /\ UNCHANGED <<proposals, lines, quantities, unresolved, changes, critical>>

ConfirmSet ==
    /\ candidate /\ candidate' = FALSE /\ confirmed' = TRUE
    /\ UNCHANGED <<proposals, lines, quantities, unresolved, changes, critical, docset, uploads>>

BoqNext ==
    \/ \E p \in Person :
          \/ ProposeMapping(p) \/ ProposeQuantity(p)
          \/ \E k \in Kind, d \in {"APPROVED", "REJECTED"} : DecideProposal(k, p, d)
    \/ \E p \in Person : VerifyLine(p) \/ (\E d \in Draft : CreateLine(p, d))
                                       \/ (\E v \in Value : ProposeChange(p, v))
    \/ AttachImported \/ \E v \in Value, passed \in BOOLEAN : RecordInitial(v, passed)
    \/ \E c \in DOMAIN changes : \/ ApplyChange(c)
                                 \/ \E p \in Person, d \in {"APPROVED", "REJECTED"} : DecideChange(c, p, d)
    \/ \E u \in Upload : ReceiveUpload(u) \/ ReplaceDocument(u) \/ AddDocument(u)
    \/ ConfirmSet

BoqSpec == BoqInit /\ [][BoqNext]_boqVars

-----------------------------------------------------------------------------
\* _build_release_context: four eyes over a critical change that was applied.
FourEyes(c) ==
    /\ changes[c].task = "APPROVED"
    /\ \E i \in DOMAIN quantities :
          quantities[i].change = c /\ Max({j \in OfLine(quantities[i].line) : j < i})
                                          = changes[c].previous

QuantityTypeOK ==
    /\ proposals \in [Kind -> Seq(Proposal)] /\ lines \in Seq(LineRow)
    /\ quantities \in Seq(QuantityRow) /\ unresolved \subseteq DOMAIN quantities
    /\ changes \in Seq(ChangeRow) /\ uploads \in [Upload -> UploadState]

\* The quantities of a line are a chain: the first was recorded, and each of
\* the others is one change, applied once, of exactly the quantity before it
\* and not of another one of the same value, decided if it is critical; a
\* verified quantity has no finding left.
ChainStands ==
    \A i \in DOMAIN quantities :
        LET earlier == {j \in OfLine(quantities[i].line) : j < i}
            c == quantities[i].change
        IN
        /\ (c = 0) = (earlier = {})
        /\ c # 0 => /\ changes[c].previous = Max(earlier)
                    /\ changes[c].applied /\ changes[c].after = quantities[i].value
                    /\ critical => changes[c].task \in {"APPROVED", "SUPERSEDED"}
                    /\ \A j \in DOMAIN quantities : quantities[j].change = c => j = i
        /\ quantities[i].status = "VERIFIED" => i \notin unresolved

\* The release finds four eyes over exactly the critical changes that were
\* applied since the last replacement of a confirmed set
\* (_build_release_context): earlier ones block it for good, since their
\* superseded tasks are decided no more, and one of an older set still counts
\* if the uploads of the newer sets captured none.
QuantityStands ==
    /\ ChainStands
    /\ critical => \A c \in DOMAIN changes :
            changes[c].applied => (FourEyes(c) <=> changes[c].seen = Replacements)
=============================================================================
