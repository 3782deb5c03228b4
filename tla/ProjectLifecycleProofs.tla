------------------------ MODULE ProjectLifecycleProofs ------------------------
(***************************************************************************)
(* Proofs about ProjectLifecycle, for any documents, people, drafts and     *)
(* number of uploads, and for any NULL.                                     *)
(***************************************************************************)
EXTENDS ProjectLifecycle, WellFoundedInduction, TLAPS

\* An upload that waits for its verdict is the newest of its document.
WaitingIsNewest ==
    \A i \in DOMAIN uploads :
        uploads[i].status = "quarantined" => \A j \in SameDocument(i) : j <= i

\* A calculation is made for a confirmed set, and no set is confirmed twice.
SnapshotWasConfirmed ==
    snapshot # None => sets[snapshot.set].status \in {"CONFIRMED", "SUPERSEDED"}

\* A superseded project keeps the set that it was released with.
SupersededKeepsItsSet == state = "SUPERSEDED" => docset # None

\* The inductive invariant.
IInv ==
    /\ TypeOK
    /\ ConfirmedSetIsCurrent
    /\ WaitingIsNewest
    /\ LatestRevisionIsCurrent
    /\ SnapshotWasConfirmed
    /\ PricesFollowTheSet
    /\ ReleaseIsCurrent
    /\ SupersededKeepsItsSet

-----------------------------------------------------------------------------
(* Uploads.                                                                 *)

\* An upload as it is recorded.
Row ==
    [document : Document, by : Person, makeCurrent : BOOLEAN,
     captured : Manifest \cup {None}, clean : BOOLEAN,
     status : {"quarantined", "processed", "rejected"}]

\* The newest of several uploads is one of them (SELECT ... ORDER BY ...
\* DESC LIMIT 1 in receive).
LEMMA LatestIsLatest ==
    ASSUME NEW n \in Nat, NEW S, S \subseteq 1 .. n, S # {}
    PROVE  Latest(S) \in S /\ \A j \in S : j <= Latest(S)
<1> DEFINE T == {k \in Nat : k <= n /\ n - k \in S}
<1>1. T \subseteq Nat
  OBVIOUS
<1>2. T # {}
  <2>1. PICK j \in S : TRUE
    OBVIOUS
  <2>2. n - j \in Nat /\ n - j <= n /\ n - (n - j) = j
    BY <2>1
  <2> QED
    BY <2>1, <2>2
<1>3. PICK x \in T : \A y \in T : ~ (<<y, x>> \in OpToRel(<, Nat))
  BY <1>1, <1>2, NatLessThanWellFounded, WFMin
<1>4. \A y \in T : ~ (y < x)
  BY <1>3 DEF OpToRel
<1>5. \A j \in S : j <= n - x
  <2> SUFFICES ASSUME NEW j \in S PROVE j <= n - x
    OBVIOUS
  <2>1. n - j \in T
    <3>1. n - j \in Nat /\ n - j <= n /\ n - (n - j) = j
      OBVIOUS
    <3> QED
      BY <3>1
  <2>2. ~ (n - j < x)
    BY <2>1, <1>4
  <2> QED
    BY <2>2
<1>6. n - x \in S
  OBVIOUS
<1> QED
  BY <1>5, <1>6 DEF Latest

LEMMA RowsTyped ==
    ASSUME TypeOK
    PROVE  /\ uploads \in Seq(Row)
           /\ Len(uploads) \in Nat
           /\ Len(uploads) <= MaxUploads
           /\ DOMAIN uploads = 1 .. Len(uploads)
           /\ DOMAIN uploads \subseteq Upload
           /\ \A i \in DOMAIN uploads : uploads[i] \in Row
<1>1. uploads \in Seq(Row) /\ Len(uploads) <= MaxUploads
  BY DEF TypeOK, Row
<1> QED
  BY <1>1, LifecycleAssumption DEF Upload

\* What a new upload inherits is a document set or nothing.
LEMMA CapturedTyped ==
    ASSUME TypeOK, NEW d \in Document, NEW mc \in BOOLEAN
    PROVE  Captured(d, mc) \in Manifest \cup {None}
<1>1. docset \in Manifest \cup {None} /\ uploads \in Seq(Row)
  BY DEF TypeOK, Row
<1>2. ASSUME Rejected(d) # {}
      PROVE  uploads[Latest(Rejected(d))].captured \in Manifest \cup {None}
  <2>1. Len(uploads) \in Nat /\ Rejected(d) \subseteq 1 .. Len(uploads)
    BY <1>1 DEF Rejected
  <2>2. Latest(Rejected(d)) \in 1 .. Len(uploads)
    BY <2>1, <1>2, LatestIsLatest
  <2>3. uploads[Latest(Rejected(d))] \in Row
    BY <1>1, <2>2
  <2> QED
    BY <2>3 DEF Row
<1> QED
  BY <1>1, <1>2 DEF Captured, Inherited

\* The rows of the uploads after one was received.
LEMMA Received ==
    ASSUME TypeOK, NEW d \in Document, NEW p \in Person, NEW mc \in BOOLEAN,
           Receive(d, p, mc)
    PROVE  /\ uploads' \in Seq(Row)
           /\ Len(uploads') = Len(uploads) + 1
           /\ DOMAIN uploads' = 1 .. Len(uploads) + 1
           /\ DOMAIN uploads = 1 .. Len(uploads)
           /\ \A i \in DOMAIN uploads : uploads'[i] = uploads[i]
           /\ uploads'[Len(uploads) + 1].document = d
           /\ uploads'[Len(uploads) + 1].makeCurrent = mc
           /\ uploads'[Len(uploads) + 1].status = "quarantined"
<1> DEFINE row == [document |-> d, by |-> p, makeCurrent |-> mc,
                   captured |-> Captured(d, mc), clean |-> TRUE,
                   status |-> "quarantined"]
<1>1. uploads \in Seq(Row)
  BY DEF TypeOK, Row
<1>2. row \in Row
  BY CapturedTyped DEF Row
<1>3. /\ row.document = d
      /\ row.makeCurrent = mc
      /\ row.status = "quarantined"
  OBVIOUS
<1>4. uploads' = Append(uploads, row)
  BY DEF Receive
<1> HIDE DEF row
<1> QED
  BY <1>1, <1>2, <1>3, <1>4

\* The rows of the uploads after the verdict on one of them.
LEMMA Settled ==
    ASSUME NEW s \in Seq(Row), NEW i \in DOMAIN s, NEW r \in Row
    PROVE  /\ [s EXCEPT ![i] = r] \in Seq(Row)
           /\ Len([s EXCEPT ![i] = r]) = Len(s)
           /\ DOMAIN [s EXCEPT ![i] = r] = DOMAIN s
           /\ [s EXCEPT ![i] = r][i] = r
           /\ \A j \in DOMAIN s : j # i => [s EXCEPT ![i] = r][j] = s[j]
  OBVIOUS

LEMMA Refused ==
    ASSUME TypeOK, NEW i \in Upload, Reject(i)
    PROVE  /\ uploads' \in Seq(Row)
           /\ Len(uploads') = Len(uploads)
           /\ DOMAIN uploads' = DOMAIN uploads
           /\ \A j \in DOMAIN uploads : j # i => uploads'[j] = uploads[j]
           /\ uploads'[i].document = uploads[i].document
           /\ uploads'[i].makeCurrent = uploads[i].makeCurrent
           /\ uploads'[i].status = "rejected"
<1> DEFINE r == [uploads[i] EXCEPT !.status = "rejected"]
<1>1. uploads \in Seq(Row) /\ i \in DOMAIN uploads /\ uploads[i] \in Row
  BY RowsTyped DEF Reject
<1>2. /\ r \in Row
      /\ r.document = uploads[i].document
      /\ r.makeCurrent = uploads[i].makeCurrent
      /\ r.status = "rejected"
  BY <1>1 DEF Row
<1>3. uploads' = [uploads EXCEPT ![i] = r]
  BY DEF Reject
<1> HIDE DEF r
<1> QED
  BY <1>1, <1>2, <1>3, Settled

LEMMA Processed ==
    ASSUME TypeOK, NEW i \in Upload, NEW clean \in BOOLEAN, Process(i, clean)
    PROVE  /\ uploads' \in Seq(Row)
           /\ Len(uploads') = Len(uploads)
           /\ DOMAIN uploads' = DOMAIN uploads
           /\ \A j \in DOMAIN uploads : j # i => uploads'[j] = uploads[j]
           /\ uploads'[i].document = uploads[i].document
           /\ uploads'[i].makeCurrent = uploads[i].makeCurrent
           /\ uploads'[i].status = "processed"
<1> DEFINE r == [uploads[i] EXCEPT !.status = "processed"]
           q == [r EXCEPT !.clean = clean]
           s == [uploads EXCEPT ![i] = r]
<1>1. uploads \in Seq(Row) /\ i \in DOMAIN uploads /\ uploads[i] \in Row
  BY RowsTyped DEF Process
<1>2. /\ r \in Row
      /\ r.document = uploads[i].document
      /\ r.makeCurrent = uploads[i].makeCurrent
      /\ r.status = "processed"
  BY <1>1 DEF Row
<1>3. /\ q \in Row
      /\ q.document = r.document
      /\ q.makeCurrent = r.makeCurrent
      /\ q.status = r.status
  <2> HIDE DEF r
  <2> QED
    BY <1>2 DEF Row
<1>4. s \in Seq(Row) /\ Len(s) = Len(uploads) /\ DOMAIN s = DOMAIN uploads
      /\ s[i] = r /\ \A j \in DOMAIN uploads : j # i => s[j] = uploads[j]
  <2> HIDE DEF r
  <2> QED
    BY <1>1, <1>2, Settled
<1>5. uploads' = [s EXCEPT ![i] = q]
  <2>1. uploads' = [s EXCEPT ![i].clean = clean]
    BY DEF Process
  <2> HIDE DEF r, s
  <2> QED
    BY <2>1, <1>4
<1> HIDE DEF r, q, s
<1> QED
  BY <1>1, <1>2, <1>3, <1>4, <1>5, Settled

-----------------------------------------------------------------------------
(* Typing.                                                                  *)

\* The part of the type invariant that is about the documents.
DocumentsTyped ==
    /\ docset \in Manifest \cup {None}
    /\ uploads \in Seq(Row)
    /\ Len(uploads) <= MaxUploads
    /\ current \subseteq {i \in DOMAIN uploads : uploads[i].status = "processed"}
    /\ sets \in [Manifest ->
                    [status : {"absent", "DRAFT", "CONFIRMED", "SUPERSEDED"},
                     by : Person \cup {None}, confirmer : Person \cup {None}]]

\* The part that is about what is derived from them.
Binding == [set : Manifest \cup {None}, line : LineId \cup {None}]

DerivedTyped ==
    /\ state \in ApprovalState
    /\ line \in [id : LineId, verified : BOOLEAN] \cup {None}
    /\ created \subseteq LineId
    /\ attested \in [Part -> Binding \cup {None}]
    /\ snapshot \in
          [set : Manifest, line : LineId, passed : BOOLEAN, reworked : BOOLEAN]
             \cup {None}

LEMMA TypeParts == TypeOK <=> DocumentsTyped /\ DerivedTyped
  BY DEF TypeOK, DocumentsTyped, DerivedTyped, Row, Binding

LEMMA TypePartsNext == TypeOK' <=> DocumentsTyped' /\ DerivedTyped'
  BY TypeParts, PTL

LEMMA TypeInit == Init => TypeOK
<1> SUFFICES ASSUME Init PROVE DocumentsTyped /\ DerivedTyped
  BY TypeParts
<1>1. DocumentsTyped
  BY LifecycleAssumption DEF Init, DocumentsTyped, Manifest
<1>2. DerivedTyped
  BY DEF Init, DerivedTyped, ApprovalState, NormalTransitions
<1> QED
  BY <1>1, <1>2

\* The states that the handlers name.
LEMMA StatesAreStates ==
    /\ {"DRAFT", "DOCUMENTS_INCOMPLETE", "EXTRACTION_IN_PROGRESS",
        "BOQ_IN_PROGRESS", "PRICING_IN_PROGRESS", "RFQ_REQUIRED",
        "CALCULATION_IN_PROGRESS", "INDEPENDENT_VALIDATION", "EXPERT_REVIEW",
        "BLOCKED"} \subseteq ApprovalState
    /\ Released \subseteq ApprovalState
  BY DEF ApprovalState, NormalTransitions, Released

LEMMA CurrentIsManifest ==
    ASSUME TypeOK
    PROVE  /\ current \in Manifest
           /\ current \subseteq DOMAIN uploads
           /\ \A i \in current : uploads[i].status = "processed"
  BY RowsTyped, TypeParts DEF DocumentsTyped, Manifest

\* The set row of a manifest, and its candidate.
SetRow ==
    [status : {"absent", "DRAFT", "CONFIRMED", "SUPERSEDED"},
     by : Person \cup {None}, confirmer : Person \cup {None}]

LEMMA SetsTyped == ASSUME TypeOK PROVE sets \in [Manifest -> SetRow]
  BY TypeParts DEF DocumentsTyped, SetRow

\* The candidate of a processed upload is added, and no row is changed.
LEMMA CandidateAdded ==
    ASSUME TypeOK, NEW m \in Manifest, NEW p \in Person
    PROVE  /\ WithCandidate(m, p) \in [Manifest -> SetRow]
           /\ \A n \in Manifest :
                 sets[n].status # "absent" => WithCandidate(m, p)[n] = sets[n]
           /\ \A n \in Manifest :
                 sets[n].status = "absent" =>
                    WithCandidate(m, p)[n].status \in {"absent", "DRAFT"}
<1> DEFINE r == [status |-> "DRAFT", by |-> p, confirmer |-> None]
<1>1. sets \in [Manifest -> SetRow]
  BY SetsTyped
<1>2. r \in SetRow /\ r.status = "DRAFT"
  BY DEF SetRow
<1>3. WithCandidate(m, p) =
         IF sets[m].status = "absent" THEN [sets EXCEPT ![m] = r] ELSE sets
  BY DEF WithCandidate
<1> HIDE DEF r
<1> QED
  BY <1>1, <1>2, <1>3

\* The confirmed set replaces the one before it.
LEMMA ConfirmedAlone ==
    ASSUME TypeOK, NEW p \in Person, Confirm(p)
    PROVE  /\ sets' \in [Manifest -> SetRow]
           /\ \A m \in Manifest :
                 /\ sets'[m].status = "CONFIRMED" <=> m = current
                 /\ sets[m].status \in {"CONFIRMED", "SUPERSEDED"} =>
                       sets'[m].status \in {"CONFIRMED", "SUPERSEDED"}
<1>1. sets \in [Manifest -> SetRow] /\ current \in Manifest
  BY SetsTyped, CurrentIsManifest
<1>2. \A m \in Manifest :
         sets'[m] = IF m = current
                    THEN [sets[m] EXCEPT !.status = "CONFIRMED", !.confirmer = p]
                    ELSE IF sets[m].status = "CONFIRMED"
                         THEN [sets[m] EXCEPT !.status = "SUPERSEDED"]
                         ELSE sets[m]
  BY DEF Confirm
<1>3. \A r \in SetRow :
         /\ [r EXCEPT !.status = "CONFIRMED", !.confirmer = p] \in SetRow
         /\ [r EXCEPT !.status = "CONFIRMED", !.confirmer = p].status = "CONFIRMED"
         /\ [r EXCEPT !.status = "SUPERSEDED"] \in SetRow
         /\ [r EXCEPT !.status = "SUPERSEDED"].status = "SUPERSEDED"
  BY DEF SetRow
<1>4. \A m \in Manifest : sets[m] \in SetRow
  BY <1>1
<1>5. \A m \in Manifest :
         /\ sets'[m] \in SetRow
         /\ m = current => sets'[m].status = "CONFIRMED"
         /\ m # current =>
               sets'[m].status = IF sets[m].status = "CONFIRMED"
                                 THEN "SUPERSEDED" ELSE sets[m].status
  <2> TAKE m \in Manifest
  <2>1. sets[m] \in SetRow
    BY <1>4
  <2>2. CASE m = current
    BY <2>1, <2>2, <1>2, <1>3
  <2>3. CASE m # current /\ sets[m].status = "CONFIRMED"
    BY <2>1, <2>3, <1>2, <1>3
  <2>4. CASE m # current /\ sets[m].status # "CONFIRMED"
    BY <2>1, <2>4, <1>2
  <2> QED
    BY <2>2, <2>3, <2>4
<1>6. \E f : sets' = [m \in Manifest |-> f[m]]
  BY DEF Confirm
<1>7. sets' \in [Manifest -> SetRow]
  BY <1>5, <1>6
<1> QED
  BY <1>5, <1>7

\* A verified record is bound to the current document set and BoQ line.
LEMMA BindingTyped ==
    ASSUME TypeOK
    PROVE  [set |-> docset, line |-> CurrentLine] \in Binding
<1>1. CurrentLine \in LineId \cup {None}
  BY TypeParts DEF DerivedTyped, CurrentLine
<1> QED
  BY <1>1, TypeParts DEF DocumentsTyped, Binding

LEMMA AttestedTyped ==
    ASSUME TypeOK, NEW p \in Part, NEW b \in Binding \cup {None},
           attested' = [attested EXCEPT ![p] = b]
    PROVE  attested' \in [Part -> Binding \cup {None}]
  BY TypeParts DEF DerivedTyped

\* The actions that verify or replace the records of one part.
Attests(p) == Verify(p) \/ Replace(p)

LEMMA AttestsOnly ==
    ASSUME TypeOK, NEW p \in Part, Attests(p)
    PROVE  /\ attested' \in [Part -> Binding \cup {None}]
           /\ \A q \in Part \ {p} : attested'[q] = attested[q]
           /\ UNCHANGED <<state, docset, uploads, current, sets, line, created,
                          snapshot>>
<1>1. PICK b \in Binding \cup {None} : attested' = [attested EXCEPT ![p] = b]
  BY BindingTyped DEF Attests, Verify, Replace
<1>2. UNCHANGED <<state, docset, uploads, current, sets, line, created, snapshot>>
  BY DEF Attests, Verify, Replace
<1>3. attested \in [Part -> Binding \cup {None}]
  BY TypeParts DEF DerivedTyped
<1> QED
  BY <1>1, <1>2, <1>3

LEMMA AttestationActions ==
    ASSUME \/ SubmitFact \/ DecideFact
           \/ SubmitTerm \/ DecideTerm
           \/ SubmitRisk \/ CalculateReserve
           \/ RunScopeCompleteness
    PROVE  /\ \E p \in Part \ {"price"} : Attests(p)
           /\ state \in PassportStates \cup ContractStates \cup RiskStates
  BY DEF SubmitFact, DecideFact, SubmitTerm, DecideTerm, SubmitRisk,
         CalculateReserve, RunScopeCompleteness, Attests, Part, PassportStates,
         ContractStates, RiskStates

LEMMA LineIdTyped ==
    ASSUME TypeOK, docset # None, NEW d \in Draft
    PROVE  [draft |-> d, set |-> docset] \in LineId
  BY TypeParts DEF DocumentsTyped, LineId

\* The actions that leave the uploads and the document sets alone.
LeavesDocuments == UNCHANGED <<docset, uploads, current, sets>>

LEMMA ReceiveTyped ==
    ASSUME TypeOK, NEW d \in Document, NEW p \in Person, NEW mc \in BOOLEAN,
           Receive(d, p, mc)
    PROVE  TypeOK'
<1>1. DocumentsTyped'
  <2>1. /\ uploads' \in Seq(Row)
        /\ Len(uploads') <= MaxUploads
    <3>1. Len(uploads) < MaxUploads
      BY DEF Receive
    <3> QED
      BY <3>1, Received, RowsTyped, LifecycleAssumption
  <2>2. current' \subseteq {i \in DOMAIN uploads' : uploads'[i].status = "processed"}
    <3>1. current' = current
      BY DEF Receive
    <3>2. \A i \in DOMAIN uploads : i \in DOMAIN uploads' /\ uploads'[i] = uploads[i]
      BY Received, RowsTyped
    <3> QED
      BY <3>1, <3>2, CurrentIsManifest
  <2>3. docset' \in Manifest \cup {None}
    BY TypeParts DEF Receive, DocumentsTyped
  <2>4. sets' = sets
    BY DEF Receive
  <2> QED
    BY <2>1, <2>2, <2>3, <2>4, TypeParts DEF DocumentsTyped
<1>2. DerivedTyped'
  <2>1. state' \in ApprovalState
    BY TypeParts, StatesAreStates DEF Receive, DerivedTyped
  <2>2. UNCHANGED <<line, created, attested, snapshot>>
    BY DEF Receive
  <2> QED
    BY <2>1, <2>2, TypeParts DEF DerivedTyped
<1> QED
  BY <1>1, <1>2, TypePartsNext

LEMMA RejectTyped ==
    ASSUME TypeOK, NEW i \in Upload, Reject(i)
    PROVE  TypeOK'
<1>1. UNCHANGED <<state, docset, current, sets, line, created, attested, snapshot>>
  BY DEF Reject
<1>2. current' \subseteq {j \in DOMAIN uploads' : uploads'[j].status = "processed"}
  <2>1. \A j \in current : j # i
    BY CurrentIsManifest DEF Reject
  <2> QED
    BY <1>1, <2>1, Refused, CurrentIsManifest
<1>3. DocumentsTyped'
  BY <1>1, <1>2, Refused, RowsTyped, TypeParts DEF DocumentsTyped
<1>4. DerivedTyped'
  BY <1>1, TypeParts DEF DerivedTyped
<1> QED
  BY <1>3, <1>4, TypePartsNext

LEMMA ProcessTyped ==
    ASSUME TypeOK, NEW i \in Upload, NEW clean \in BOOLEAN, Process(i, clean)
    PROVE  TypeOK'
<1>1. /\ i \in DOMAIN uploads
      /\ uploads[i] \in Row
      /\ current' = CurrentAfter(i)
      /\ sets' = WithCandidate(CurrentAfter(i), uploads[i].by)
      /\ docset' = DocsetAfter(i)
      /\ UNCHANGED <<created, snapshot>>
      /\ InvalidateDerivedRecords(i)
  BY RowsTyped DEF Process
<1>2. current' \subseteq {j \in DOMAIN uploads' : uploads'[j].status = "processed"}
  <2>1. current' \subseteq current \cup {i}
    BY <1>1 DEF CurrentAfter
  <2> QED
    BY <1>1, <2>1, Processed, CurrentIsManifest
<1>3. CurrentAfter(i) \in Manifest
  <2>1. current' \subseteq Upload
    BY <1>2, Processed, RowsTyped
  <2> QED
    BY <2>1, <1>1 DEF Manifest
<1>4. DocumentsTyped'
  <2>1. docset' \in Manifest \cup {None}
    BY <1>1, TypeParts DEF DocumentsTyped, DocsetAfter
  <2>2. sets' \in [Manifest -> SetRow]
    <3>1. uploads[i].by \in Person
      BY <1>1 DEF Row
    <3> QED
      BY <1>1, <1>3, <3>1, CandidateAdded
  <2>3. uploads' \in Seq(Row) /\ Len(uploads') <= MaxUploads
    BY Processed, RowsTyped
  <2> QED
    BY <1>2, <2>1, <2>2, <2>3 DEF DocumentsTyped, SetRow
<1>5. DerivedTyped'
  <2>1. state' \in ApprovalState
    BY TypeParts, StatesAreStates DEF Process, DerivedTyped
  <2>2. line' \in [id : LineId, verified : BOOLEAN] \cup {None}
    BY <1>1, TypeParts DEF DerivedTyped, InvalidateDerivedRecords, Unverified
  <2>3. attested' \in [Part -> Binding \cup {None}]
    BY <1>1, TypeParts DEF DerivedTyped, InvalidateDerivedRecords
  <2> QED
    BY <1>1, <2>1, <2>2, <2>3, TypeParts DEF DerivedTyped
<1> QED
  BY <1>4, <1>5, TypePartsNext

\* The actions that change nothing but the state of the project.
LEMMA MovesTyped ==
    ASSUME TypeOK, LeavesDocuments, state' \in ApprovalState,
           UNCHANGED <<line, created, attested, snapshot>>
    PROVE  TypeOK'
  BY TypeParts, TypePartsNext DEF DocumentsTyped, DerivedTyped, LeavesDocuments

LEMMA TypeStep == ASSUME TypeOK, Next PROVE TypeOK'
<1>1. ASSUME LeavesDocuments PROVE DocumentsTyped'
  BY <1>1, TypeParts DEF DocumentsTyped, LeavesDocuments
<1>2. CASE \E d \in Document, p \in Person, mc \in BOOLEAN : Receive(d, p, mc)
  BY <1>2, ReceiveTyped
<1>3. CASE \E i \in Upload : Reject(i)
  BY <1>3, RejectTyped
<1>4. CASE \E i \in Upload, clean \in BOOLEAN : Process(i, clean)
  BY <1>4, ProcessTyped
<1>5. CASE \E p \in Person : Confirm(p)
  <2>1. PICK p \in Person : Confirm(p)
    BY <1>5
  <2>2. /\ docset' = current
        /\ UNCHANGED <<state, uploads, current, line, created, attested, snapshot>>
    BY <2>1 DEF Confirm
  <2>3. sets' \in [Manifest -> SetRow]
    BY <2>1, ConfirmedAlone
  <2>4. DocumentsTyped'
    BY <2>2, <2>3, TypeParts, CurrentIsManifest DEF DocumentsTyped, SetRow
  <2>5. DerivedTyped'
    BY <2>2, TypeParts DEF DerivedTyped
  <2> QED
    BY <2>4, <2>5, TypePartsNext
<1>6. CASE \E d \in Draft : SubmitLine(d)
  <2>1. PICK d \in Draft : SubmitLine(d)
    BY <1>6
  <2>2. [draft |-> d, set |-> docset] \in LineId
    BY <2>1, LineIdTyped DEF SubmitLine, SetUsable
  <2>3. DerivedTyped'
    BY <2>1, <2>2, TypeParts DEF SubmitLine, DerivedTyped
  <2> QED
    BY <1>1, <2>1, <2>3, TypePartsNext DEF SubmitLine, LeavesDocuments
<1>7. CASE VerifyLine
  <2>1. line' \in [id : LineId, verified : BOOLEAN] \cup {None}
    BY <1>7, TypeParts DEF VerifyLine, DerivedTyped
  <2>2. DerivedTyped'
    BY <1>7, <2>1, TypeParts DEF VerifyLine, DerivedTyped
  <2> QED
    BY <1>1, <1>7, <2>2, TypePartsNext DEF VerifyLine, LeavesDocuments
<1>8. CASE \/ SubmitFact \/ DecideFact
           \/ SubmitTerm \/ DecideTerm
           \/ SubmitRisk \/ CalculateReserve
           \/ RunScopeCompleteness
  <2>1. PICK p \in Part : Attests(p)
    BY <1>8, AttestationActions
  <2>2. DerivedTyped'
    BY <2>1, AttestsOnly, TypeParts DEF DerivedTyped
  <2> QED
    BY <1>1, <2>1, <2>2, AttestsOnly, TypePartsNext DEF LeavesDocuments
<1>9. CASE \E verdict \in PriceVerdict : EvaluatePrice(verdict)
  <2>1. PICK verdict \in PriceVerdict : EvaluatePrice(verdict)
    BY <1>9
  <2>2. attested' \in [Part -> Binding \cup {None}]
    <3>1. PICK b \in Binding \cup {None} :
             attested' = [attested EXCEPT !["price"] = b]
      BY <2>1, BindingTyped DEF EvaluatePrice
    <3> QED
      BY <3>1, AttestedTyped DEF Part
  <2>3. state' \in ApprovalState
    BY <2>1, TypeParts, StatesAreStates DEF EvaluatePrice, PricingState, DerivedTyped
  <2>4. DerivedTyped'
    BY <2>1, <2>2, <2>3, TypeParts DEF EvaluatePrice, DerivedTyped
  <2> QED
    BY <1>1, <2>1, <2>4, TypePartsNext DEF EvaluatePrice, LeavesDocuments
<1>10. CASE \E to \in ApprovalState : Transition(to)
  BY <1>10, MovesTyped DEF Transition, LeavesDocuments
<1>11. CASE \E passed \in BOOLEAN : Calculate(passed)
  <2>1. PICK passed \in BOOLEAN : Calculate(passed)
    BY <1>11
  <2>2. line.id \in LineId /\ docset \in Manifest
    BY <2>1, TypeParts
    DEF Calculate, CandidateReady, LineVerified, DerivedTyped, DocumentsTyped
  <2>3. DerivedTyped'
    BY <2>1, <2>2, TypeParts, StatesAreStates DEF Calculate, DerivedTyped
  <2> QED
    BY <1>1, <2>1, <2>3, TypePartsNext DEF Calculate, LeavesDocuments
<1>12. CASE \E target \in Released, othersAllow \in BOOLEAN :
               Release(target, othersAllow)
  BY <1>12, MovesTyped, StatesAreStates DEF Release, LeavesDocuments
<1>13. CASE \E target \in ReworkStages : RequestRework(target)
  <2>1. PICK target \in ReworkStages : RequestRework(target)
    BY <1>13
  <2>2. target \in ApprovalState
    BY StatesAreStates DEF ReworkStages
  <2>3. snapshot' \in [set : Manifest, line : LineId, passed : BOOLEAN,
                       reworked : BOOLEAN]
    BY <2>1, TypeParts DEF RequestRework, DerivedTyped
  <2>4. DerivedTyped'
    BY <2>1, <2>2, <2>3, TypeParts DEF RequestRework, DerivedTyped
  <2> QED
    BY <1>1, <2>1, <2>4, TypePartsNext DEF RequestRework, LeavesDocuments
<1> QED
  BY <1>2, <1>3, <1>4, <1>5, <1>6, <1>7, <1>8, <1>9, <1>10, <1>11, <1>12, <1>13
  DEF Next

-----------------------------------------------------------------------------
(* The documents: one confirmed set, uploads in the order of reception.     *)

LEMMA DocumentsKept ==
    ASSUME TypeOK, Next
    PROVE  \/ \E d \in Document, p \in Person, mc \in BOOLEAN : Receive(d, p, mc)
           \/ \E i \in Upload : Reject(i)
           \/ \E i \in Upload, clean \in BOOLEAN : Process(i, clean)
           \/ \E p \in Person : Confirm(p)
           \/ LeavesDocuments
<1>1. ASSUME \E p \in Part : Attests(p) PROVE LeavesDocuments
  BY <1>1, AttestsOnly DEF LeavesDocuments
<1>2. ASSUME \/ SubmitFact \/ DecideFact
             \/ SubmitTerm \/ DecideTerm
             \/ SubmitRisk \/ CalculateReserve
             \/ RunScopeCompleteness
      PROVE  LeavesDocuments
  BY <1>1, <1>2, AttestationActions
<1> QED
  BY <1>2
  DEF Next, SubmitLine, VerifyLine, EvaluatePrice, Transition, Calculate,
      Release, RequestRework, LeavesDocuments

\* Only a processed upload and a confirmation touch the document sets.
LEMMA SetsStep == ASSUME TypeOK, ConfirmedSetIsCurrent, Next PROVE ConfirmedSetIsCurrent'
<1>0. /\ sets \in [Manifest -> SetRow]
      /\ current \in Manifest
      /\ DOMAIN sets = Manifest
      /\ docset \in Manifest \cup {None}
  BY SetsTyped, CurrentIsManifest, TypeParts DEF DocumentsTyped
<1>1. CASE \E d \in Document, p \in Person, mc \in BOOLEAN : Receive(d, p, mc)
  <2>1. (docset' = docset \/ docset' = None) /\ UNCHANGED <<current, sets>>
    BY <1>1 DEF Receive
  <2> QED
    BY <2>1 DEF ConfirmedSetIsCurrent
<1>2. CASE \E i \in Upload : Reject(i)
  BY <1>2 DEF Reject, ConfirmedSetIsCurrent
<1>3. CASE \E i \in Upload, clean \in BOOLEAN : Process(i, clean)
  <2>1. PICK i \in Upload, clean \in BOOLEAN : Process(i, clean)
    BY <1>3
  <2>2. PICK m \in Manifest, p \in Person :
           m = CurrentAfter(i) /\ p = uploads[i].by
    <3>1. CurrentAfter(i) \in Manifest
      BY <2>1, CurrentIsManifest DEF CurrentAfter, Manifest
    <3>2. uploads[i].by \in Person
      BY <2>1, RowsTyped DEF Process, Row
    <3> QED
      BY <3>1, <3>2
  <2>3. sets' = WithCandidate(m, p) /\ current' = m /\ docset' = DocsetAfter(i)
    BY <2>1, <2>2 DEF Process
  <2>4. /\ DOMAIN sets' = Manifest
        /\ \A n \in Manifest : sets'[n].status = "CONFIRMED" <=> sets[n].status = "CONFIRMED"
    BY <1>0, <2>3, CandidateAdded
  <2>5. CASE uploads[i].makeCurrent
    BY <2>3, <2>4, <2>5, <1>0 DEF ConfirmedSetIsCurrent, DocsetAfter
  <2>6. CASE ~uploads[i].makeCurrent
    <3>1. m = current /\ docset' = docset
      BY <2>2, <2>3, <2>6 DEF CurrentAfter, DocsetAfter
    <3> QED
      BY <3>1, <2>3, <2>4, <1>0 DEF ConfirmedSetIsCurrent
  <2> QED
    BY <2>5, <2>6
<1>4. CASE \E p \in Person : Confirm(p)
  <2>1. PICK p \in Person : Confirm(p)
    BY <1>4
  <2>2. docset' = current /\ current' = current /\ DOMAIN sets' = Manifest
    BY <2>1 DEF Confirm
  <2>3. \A m \in Manifest : sets'[m].status = "CONFIRMED" <=> m = current
    BY <2>1, ConfirmedAlone
  <2> QED
    BY <2>2, <2>3, <1>0 DEF ConfirmedSetIsCurrent
<1>5. CASE LeavesDocuments
  BY <1>5 DEF LeavesDocuments, ConfirmedSetIsCurrent
<1> QED
  BY <1>1, <1>2, <1>3, <1>4, <1>5, DocumentsKept

\* Receive refuses a document with an unresolved upload.
LEMMA WaitingStep == ASSUME TypeOK, WaitingIsNewest, Next PROVE WaitingIsNewest'
<1>0. \A i, j \in DOMAIN uploads :
         uploads[i].status = "quarantined" /\ uploads[j].document = uploads[i].document
            => j <= i
  BY DEF WaitingIsNewest, SameDocument
<1> SUFFICES ASSUME NEW i \in DOMAIN uploads', NEW j \in DOMAIN uploads',
                    uploads'[i].status = "quarantined",
                    uploads'[j].document = uploads'[i].document
             PROVE  j <= i
  BY DEF WaitingIsNewest, SameDocument
<1>1. CASE \E d \in Document, p \in Person, mc \in BOOLEAN : Receive(d, p, mc)
  <2>1. PICK d \in Document, p \in Person, mc \in BOOLEAN : Receive(d, p, mc)
    BY <1>1
  <2>2. Len(uploads) \in Nat
    BY RowsTyped
  <2>3. CASE i = Len(uploads) + 1
    BY <2>1, <2>2, <2>3, Received
  <2>4. CASE i # Len(uploads) + 1 /\ j # Len(uploads) + 1
    BY <1>0, <2>1, <2>2, <2>4, Received
  <2>5. CASE i # Len(uploads) + 1 /\ j = Len(uploads) + 1
    <3>1. i \in DOMAIN uploads /\ uploads'[i] = uploads[i] /\ uploads'[j].document = d
      BY <2>1, <2>2, <2>5, Received
    <3>2. i \in Unresolved(d)
      BY <3>1 DEF Unresolved
    <3> QED
      BY <3>2, <2>1 DEF Receive, Receivable
  <2> QED
    BY <2>3, <2>4, <2>5
<1>2. CASE \E k \in Upload : Reject(k)
  BY <1>0, <1>2, Refused
<1>3. CASE \E k \in Upload, clean \in BOOLEAN : Process(k, clean)
  BY <1>0, <1>3, Processed
<1>4. CASE UNCHANGED uploads
  BY <1>0, <1>4
<1> QED
  BY <1>1, <1>2, <1>3, <1>4, DocumentsKept DEF Confirm, LeavesDocuments

\* The upload that becomes current is the newest of its document.
LEMMA LatestStep ==
    ASSUME TypeOK, WaitingIsNewest, LatestRevisionIsCurrent, Next
    PROVE  LatestRevisionIsCurrent'
<1>0. \A i \in current, j \in DOMAIN uploads :
         uploads[j].document = uploads[i].document =>
            (uploads[j].status = "processed" /\ uploads[j].makeCurrent => j <= i)
  BY DEF LatestRevisionIsCurrent, SameDocument
<1> SUFFICES ASSUME NEW i \in current', NEW j \in DOMAIN uploads',
                    uploads'[j].document = uploads'[i].document,
                    uploads'[j].status = "processed",
                    uploads'[j].makeCurrent
             PROVE  j <= i
  BY DEF LatestRevisionIsCurrent, SameDocument
<1>1. CASE \E d \in Document, p \in Person, mc \in BOOLEAN : Receive(d, p, mc)
  <2>1. PICK d \in Document, p \in Person, mc \in BOOLEAN : Receive(d, p, mc)
    BY <1>1
  <2>2. i \in current /\ i \in DOMAIN uploads
    BY <2>1, CurrentIsManifest DEF Receive
  <2>3. j \in DOMAIN uploads
    BY <2>1, Received, RowsTyped
  <2> QED
    BY <1>0, <2>1, <2>2, <2>3, Received
<1>2. CASE \E k \in Upload : Reject(k)
  <2>1. PICK k \in Upload : Reject(k)
    BY <1>2
  <2>2. i \in current /\ i \in DOMAIN uploads /\ j # k
    BY <2>1, Refused, CurrentIsManifest DEF Reject
  <2> QED
    BY <1>0, <2>1, <2>2, Refused
<1>3. CASE \E k \in Upload, clean \in BOOLEAN : Process(k, clean)
  <2>1. PICK k \in Upload, clean \in BOOLEAN : Process(k, clean)
    BY <1>3
  <2>2. k \in DOMAIN uploads /\ uploads[k].status = "quarantined"
        /\ current' = CurrentAfter(k)
    BY <2>1 DEF Process
  <2>3. \A l \in DOMAIN uploads : uploads'[l].document = uploads[l].document
    BY <2>1, Processed
  <2>4. CASE i = k
    <3>1. j \in SameDocument(k)
      BY <2>1, <2>3, <2>4, Processed DEF SameDocument
    <3> QED
      BY <2>2, <2>4, <3>1 DEF WaitingIsNewest
  <2>5. CASE i # k
    <3>1. i \in current /\ i \in DOMAIN uploads
      BY <2>2, <2>5, CurrentIsManifest DEF CurrentAfter
    <3>2. CASE j # k
      BY <1>0, <2>1, <3>1, <3>2, <2>5, Processed
    <3>3. CASE j = k
      <4>1. uploads[k].makeCurrent
        BY <2>1, <3>3, Processed
      <4>2. i \notin SameDocument(k)
        BY <2>2, <2>5, <4>1 DEF CurrentAfter
      <4> QED
        BY <3>1, <4>2, <2>3, <2>2, <3>3 DEF SameDocument
    <3> QED
      BY <3>2, <3>3
  <2> QED
    BY <2>4, <2>5
<1>4. CASE UNCHANGED <<uploads, current>>
  BY <1>0, <1>4
<1> QED
  BY <1>1, <1>2, <1>3, <1>4, DocumentsKept DEF Confirm, LeavesDocuments

-----------------------------------------------------------------------------
(* The calculation and the prices beside it.                                *)

\* A set that was confirmed is confirmed or superseded for ever.
LEMMA ConfirmedIsFinal ==
    ASSUME TypeOK, Next, NEW m \in Manifest,
           sets[m].status \in {"CONFIRMED", "SUPERSEDED"}
    PROVE  sets'[m].status \in {"CONFIRMED", "SUPERSEDED"}
<1>1. CASE \E i \in Upload, clean \in BOOLEAN : Process(i, clean)
  <2>1. PICK i \in Upload, clean \in BOOLEAN : Process(i, clean)
    BY <1>1
  <2>2. CurrentAfter(i) \in Manifest
    BY <2>1, CurrentIsManifest DEF CurrentAfter, Manifest
  <2>3. uploads[i].by \in Person
    BY <2>1, RowsTyped DEF Process, Row
  <2> QED
    BY <2>1, <2>2, <2>3, CandidateAdded DEF Process
<1>2. CASE \E p \in Person : Confirm(p)
  BY <1>2, ConfirmedAlone
<1>3. CASE UNCHANGED sets
  BY <1>3
<1> QED
  BY <1>1, <1>2, <1>3, DocumentsKept DEF Receive, Reject, LeavesDocuments

\* A new calculation, a requested rework, or neither.
LEMMA SnapshotKept ==
    ASSUME TypeOK, Next
    PROVE  \/ \E passed \in BOOLEAN : Calculate(passed)
           \/ /\ snapshot # None
              /\ snapshot' = [snapshot EXCEPT !.reworked = TRUE]
              /\ UNCHANGED <<docset, sets, attested>>
           \/ UNCHANGED snapshot
<1>1. ASSUME \E p \in Part : Attests(p) PROVE UNCHANGED snapshot
  BY <1>1, AttestsOnly
<1>2. ASSUME \/ SubmitFact \/ DecideFact
             \/ SubmitTerm \/ DecideTerm
             \/ SubmitRisk \/ CalculateReserve
             \/ RunScopeCompleteness
      PROVE  UNCHANGED snapshot
  BY <1>1, <1>2, AttestationActions
<1> QED
  BY <1>2
  DEF Next, Receive, Reject, Process, Confirm, SubmitLine, VerifyLine,
      EvaluatePrice, Transition, Release, RequestRework

LEMMA SnapshotTyped ==
    ASSUME TypeOK, snapshot # None
    PROVE  /\ snapshot.set \in Manifest
           /\ [snapshot EXCEPT !.reworked = TRUE].set = snapshot.set
  BY TypeParts DEF DerivedTyped

LEMMA SnapshotStep ==
    ASSUME TypeOK, ConfirmedSetIsCurrent, SnapshotWasConfirmed, Next
    PROVE  SnapshotWasConfirmed'
<1>1. CASE \E passed \in BOOLEAN : Calculate(passed)
  <2>1. docset # None /\ snapshot'.set = docset /\ UNCHANGED sets
    BY <1>1 DEF Calculate, CandidateReady
  <2> QED
    BY <2>1 DEF ConfirmedSetIsCurrent, SnapshotWasConfirmed
<1>2. CASE /\ snapshot # None
           /\ snapshot' = [snapshot EXCEPT !.reworked = TRUE]
           /\ UNCHANGED <<docset, sets, attested>>
  BY <1>2, SnapshotTyped DEF SnapshotWasConfirmed
<1>3. CASE UNCHANGED snapshot
  BY <1>3, SnapshotTyped, ConfirmedIsFinal DEF SnapshotWasConfirmed
<1> QED
  BY <1>1, <1>2, <1>3, SnapshotKept

\* The price decisions and the document set that they are compared with.
LEMMA PricesKept ==
    ASSUME TypeOK, Next
    PROVE  \/ UNCHANGED <<docset, snapshot>> /\ attested'["price"] = attested["price"]
           \/ docset' = None
           \/ \E p \in Person : Confirm(p)
           \/ \E verdict \in PriceVerdict : EvaluatePrice(verdict)
           \/ \E passed \in BOOLEAN : Calculate(passed)
           \/ /\ snapshot # None
              /\ snapshot' = [snapshot EXCEPT !.reworked = TRUE]
              /\ UNCHANGED <<docset, sets, attested>>
<1> DEFINE Same == UNCHANGED <<docset, snapshot>> /\ attested'["price"] = attested["price"]
<1>1. ASSUME \/ SubmitFact \/ DecideFact
             \/ SubmitTerm \/ DecideTerm
             \/ SubmitRisk \/ CalculateReserve
             \/ RunScopeCompleteness
      PROVE  Same
  <2>1. PICK p \in Part \ {"price"} : Attests(p)
    BY <1>1, AttestationActions
  <2>2. "price" \in Part \ {p}
    BY DEF Part
  <2> QED
    BY <2>1, <2>2, AttestsOnly
<1>2. ASSUME NEW d \in Document, NEW p \in Person, NEW mc \in BOOLEAN, Receive(d, p, mc)
      PROVE  Same \/ docset' = None
  BY <1>2 DEF Receive
<1>3. ASSUME NEW i \in Upload, NEW clean \in BOOLEAN, Process(i, clean)
      PROVE  Same \/ docset' = None
  BY <1>3
  DEF Process, DocsetAfter, InvalidateDerivedRecords, Invalidates
<1>4. ASSUME NEW target \in ReworkStages, RequestRework(target)
      PROVE  /\ snapshot # None
             /\ snapshot' = [snapshot EXCEPT !.reworked = TRUE]
             /\ UNCHANGED <<docset, sets, attested>>
  BY <1>4 DEF RequestRework
<1>5. ASSUME \/ \E i \in Upload : Reject(i)
             \/ \E d \in Draft : SubmitLine(d)
             \/ VerifyLine
             \/ \E to \in ApprovalState : Transition(to)
             \/ \E target \in Released, othersAllow \in BOOLEAN :
                   Release(target, othersAllow)
      PROVE  Same
  BY <1>5 DEF Reject, SubmitLine, VerifyLine, Transition, Release
<1> HIDE DEF Same
<1>6. \/ Same
      \/ docset' = None
      \/ \E p \in Person : Confirm(p)
      \/ \E verdict \in PriceVerdict : EvaluatePrice(verdict)
      \/ \E passed \in BOOLEAN : Calculate(passed)
      \/ \E target \in ReworkStages : RequestRework(target)
  BY <1>1, <1>2, <1>3, <1>5 DEF Next
<1> QED
  BY <1>4, <1>6 DEF Same

LEMMA PricesStep ==
    ASSUME TypeOK, ConfirmedSetIsCurrent, SnapshotWasConfirmed,
           PricesFollowTheSet, Next
    PROVE  PricesFollowTheSet'
<1> SUFFICES ASSUME snapshot' # None, docset' # None, snapshot'.set = docset'
             PROVE  attested'["price"] = None \/ attested'["price"].set = docset'
  BY DEF PricesFollowTheSet, BoundToSet
<1>1. CASE UNCHANGED <<docset, snapshot>> /\ attested'["price"] = attested["price"]
  BY <1>1 DEF PricesFollowTheSet, BoundToSet
<1>2. CASE \E p \in Person : Confirm(p)
  <2>1. /\ docset' = current /\ sets[current].status = "DRAFT"
        /\ UNCHANGED snapshot
    BY <1>2 DEF Confirm, Confirmable
  <2> QED
    BY <2>1 DEF SnapshotWasConfirmed
<1>3. CASE \E verdict \in PriceVerdict : EvaluatePrice(verdict)
  <2>1. PICK b : /\ attested' = [attested EXCEPT !["price"] = b]
                 /\ b = None \/ b.set = docset
                 /\ docset' = docset
    BY <1>3 DEF EvaluatePrice
  <2>2. attested'["price"] = b
    BY <2>1, TypeParts DEF DerivedTyped, Part
  <2> QED
    BY <2>1, <2>2
<1>4. CASE \E passed \in BOOLEAN : Calculate(passed)
  BY <1>4 DEF Calculate, CandidateReady, PricesCurrent, BoundToSet
<1>5. CASE /\ snapshot # None
           /\ snapshot' = [snapshot EXCEPT !.reworked = TRUE]
           /\ UNCHANGED <<docset, sets, attested>>
  BY <1>5, SnapshotTyped DEF PricesFollowTheSet, BoundToSet
<1> QED
  BY <1>1, <1>2, <1>3, <1>4, <1>5, PricesKept

-----------------------------------------------------------------------------
(* Release.                                                                 *)

\* No candidate for the current revision waits, and none was rejected or
\* failed to parse without a successor.
CandidatesAreSettled == \A i \in BlockingFindings : ~uploads[i].makeCurrent

LEMMA CandidateIsSettled ==
    CandidatesAreSettled <=>
        \A i \in DOMAIN uploads :
            uploads[i].makeCurrent =>
                /\ uploads[i].status # "quarantined"
                /\ uploads[i].status = "rejected" =>
                      \E j \in DOMAIN uploads :
                         /\ uploads[j].document = uploads[i].document
                         /\ j > i
                         /\ uploads[j].status = "processed"
                /\ uploads[i].status = "processed" => uploads[i].clean
  BY DEF CandidatesAreSettled, BlockingFindings, ResolvedBySuccessor, SameDocument

\* What a released state rests on beside the settled candidates.
Decisions ==
    /\ docset # None /\ docset = current
    /\ snapshot # None /\ snapshot.set = docset /\ snapshot.passed
    /\ \A p \in {"passport", "contract", "risk"} : BoundToSet(p)
    /\ LineVerified

LEMMA ReleaseParts ==
    ReleaseIsCurrent <=> (state \in Released => Decisions /\ CandidatesAreSettled)
  BY DEF ReleaseIsCurrent, Decisions, CandidatesAreSettled

LEMMA DecisionsKept ==
    ASSUME Decisions, UNCHANGED <<docset, current, snapshot, attested, line>>
    PROVE  Decisions'
  BY DEF Decisions, BoundToSet, LineVerified

\* The confirmed set of a project that refers to it is not confirmed again.
LEMMA NotConfirmedAgain ==
    ASSUME ConfirmedSetIsCurrent, docset # None, NEW p \in Person
    PROVE  ~Confirm(p)
  BY DEF ConfirmedSetIsCurrent, Confirm, Confirmable

\* An upload that is no candidate for the current revision unsettles none.
LEMMA SettledByReceive ==
    ASSUME TypeOK, CandidatesAreSettled, NEW d \in Document, NEW p \in Person,
           NEW mc \in BOOLEAN, mc = FALSE, Receive(d, p, mc)
    PROVE  CandidatesAreSettled'
<1>1. \A i \in DOMAIN uploads : i \in DOMAIN uploads' /\ uploads'[i] = uploads[i]
  BY Received, RowsTyped
<1>2. \A i \in DOMAIN uploads' : uploads'[i].makeCurrent => i \in DOMAIN uploads
  BY Received, RowsTyped
<1>3. CandidatesAreSettled' <=>
        \A i \in DOMAIN uploads' :
            uploads'[i].makeCurrent =>
                /\ uploads'[i].status # "quarantined"
                /\ uploads'[i].status = "rejected" =>
                      \E j \in DOMAIN uploads' :
                         /\ uploads'[j].document = uploads'[i].document
                         /\ j > i
                         /\ uploads'[j].status = "processed"
                /\ uploads'[i].status = "processed" => uploads'[i].clean
  BY DEF CandidatesAreSettled, BlockingFindings, ResolvedBySuccessor, SameDocument
<1> QED
  BY <1>1, <1>2, <1>3, CandidateIsSettled

LEMMA SettledByVerdict ==
    ASSUME TypeOK, CandidatesAreSettled, NEW i \in Upload,
           Reject(i) \/ \E clean \in BOOLEAN : Process(i, clean)
    PROVE  ~uploads[i].makeCurrent /\ CandidatesAreSettled'
<1>1. /\ i \in DOMAIN uploads
      /\ uploads[i].status = "quarantined"
      /\ ~uploads[i].makeCurrent
  BY CandidateIsSettled DEF Reject, Process
<1>2. /\ DOMAIN uploads' = DOMAIN uploads
      /\ \A j \in DOMAIN uploads : j # i => uploads'[j] = uploads[j]
      /\ ~uploads'[i].makeCurrent
  BY <1>1, Refused, Processed
<1>3. CandidatesAreSettled' <=>
        \A j \in DOMAIN uploads' :
            uploads'[j].makeCurrent =>
                /\ uploads'[j].status # "quarantined"
                /\ uploads'[j].status = "rejected" =>
                      \E k \in DOMAIN uploads' :
                         /\ uploads'[k].document = uploads'[j].document
                         /\ k > j
                         /\ uploads'[k].status = "processed"
                /\ uploads'[j].status = "processed" => uploads'[j].clean
  BY DEF CandidatesAreSettled, BlockingFindings, ResolvedBySuccessor, SameDocument
<1>4. \A j \in DOMAIN uploads : uploads[j].status = "processed" => j # i
  BY <1>1
<1> QED
  BY <1>1, <1>2, <1>3, <1>4, CandidateIsSettled

\* What a step may do when it ends in a released state: only a decision enters
\* one, and nothing that the decision rests on changes while it lasts.
LEMMA ReleasedSteps ==
    ASSUME TypeOK, Next, state' \in Released
    PROVE  \/ /\ ReleaseAllowed
              /\ UNCHANGED <<docset, uploads, current, line, attested, snapshot>>
           \/ /\ state' = state
              /\ \/ \E d \in Document, p \in Person, mc \in BOOLEAN : Receive(d, p, mc)
                 \/ \E i \in Upload : Reject(i)
                 \/ \E i \in Upload, clean \in BOOLEAN : Process(i, clean)
                 \/ \E p \in Person : Confirm(p)
<1>1. ASSUME NEW d \in Document, NEW p \in Person, NEW mc \in BOOLEAN,
             Receive(d, p, mc)
      PROVE  state' = state
  BY <1>1 DEF Receive, Released
<1>2. ASSUME NEW i \in Upload, NEW clean \in BOOLEAN, Process(i, clean)
      PROVE  state' = state
  BY <1>2 DEF Process, Released
<1>3. ASSUME \/ SubmitFact \/ DecideFact
             \/ SubmitTerm \/ DecideTerm
             \/ SubmitRisk \/ CalculateReserve
             \/ RunScopeCompleteness
      PROVE  FALSE
  <2>1. state \in PassportStates \cup ContractStates \cup RiskStates
    BY <1>3, AttestationActions
  <2>2. UNCHANGED state
    BY <1>3, AttestationActions, AttestsOnly
  <2> QED
    BY <2>1, <2>2 DEF PassportStates, ContractStates, RiskStates, Released
<1>4. ASSUME \/ \E d \in Draft : SubmitLine(d)
             \/ VerifyLine
             \/ \E verdict \in PriceVerdict : EvaluatePrice(verdict)
             \/ \E passed \in BOOLEAN : Calculate(passed)
             \/ \E target \in ReworkStages : RequestRework(target)
      PROVE  FALSE
  BY <1>4
  DEF SubmitLine, VerifyLine, EvaluatePrice, PricingState, Calculate,
      RequestRework, ReworkStages, Released
<1>5. ASSUME NEW to \in ApprovalState, Transition(to) PROVE FALSE
  BY <1>5 DEF Transition
<1>6. ASSUME NEW target \in Released, NEW othersAllow \in BOOLEAN,
             Release(target, othersAllow)
      PROVE  /\ ReleaseAllowed
             /\ UNCHANGED <<docset, uploads, current, line, attested, snapshot>>
  BY <1>6 DEF Release, Released
<1>7. ASSUME \E i \in Upload : Reject(i) PROVE state' = state
  BY <1>7 DEF Reject
<1>8. ASSUME \E p \in Person : Confirm(p) PROVE state' = state
  BY <1>8 DEF Confirm
<1> QED
  BY <1>1, <1>2, <1>3, <1>4, <1>5, <1>6, <1>7, <1>8 DEF Next

LEMMA ReleaseStep ==
    ASSUME TypeOK, ConfirmedSetIsCurrent, ReleaseIsCurrent, Next
    PROVE  ReleaseIsCurrent'
<1>0. ReleaseIsCurrent' <=> (state' \in Released => Decisions' /\ CandidatesAreSettled')
  BY DEF ReleaseIsCurrent, Decisions, CandidatesAreSettled
<1> SUFFICES ASSUME state' \in Released PROVE Decisions' /\ CandidatesAreSettled'
  BY <1>0
<1>1. CASE /\ ReleaseAllowed
           /\ UNCHANGED <<docset, uploads, current, line, attested, snapshot>>
  <2>1. Decisions
    BY <1>1
    DEF Decisions, ReleaseAllowed, PassportGate, ScopeGate, BoqGate,
        ContractGate, RiskGate, SnapshotCurrent, ConfirmedSetIsCurrent
  <2>2. CandidatesAreSettled
    BY <1>1 DEF CandidatesAreSettled, ReleaseAllowed
  <2>3. CandidatesAreSettled'
    BY <1>1, <2>2
    DEF CandidatesAreSettled, BlockingFindings, ResolvedBySuccessor, SameDocument
  <2> QED
    BY <1>1, <2>1, <2>3, DecisionsKept
<1>2. CASE /\ state' = state
           /\ \/ \E d \in Document, p \in Person, mc \in BOOLEAN : Receive(d, p, mc)
              \/ \E i \in Upload : Reject(i)
              \/ \E i \in Upload, clean \in BOOLEAN : Process(i, clean)
              \/ \E p \in Person : Confirm(p)
  <2>1. Decisions /\ CandidatesAreSettled /\ state \in Released
    BY <1>2, ReleaseParts
  <2>2. docset # None
    BY <2>1 DEF Decisions
  <2>3. ASSUME NEW d \in Document, NEW p \in Person, NEW mc \in BOOLEAN,
               Receive(d, p, mc)
        PROVE  Decisions' /\ CandidatesAreSettled'
    <3>1. mc = FALSE
      BY <1>2, <2>1, <2>3 DEF Receive, Released
    <3>2. UNCHANGED <<docset, current, snapshot, attested, line>>
      BY <2>3, <3>1 DEF Receive
    <3> QED
      BY <2>1, <2>3, <3>1, <3>2, DecisionsKept, SettledByReceive
  <2>4. ASSUME NEW i \in Upload, Reject(i)
        PROVE  Decisions' /\ CandidatesAreSettled'
    BY <2>1, <2>4, DecisionsKept, SettledByVerdict DEF Reject
  <2>5. ASSUME NEW i \in Upload, NEW clean \in BOOLEAN, Process(i, clean)
        PROVE  Decisions' /\ CandidatesAreSettled'
    <3>1. ~uploads[i].makeCurrent /\ CandidatesAreSettled'
      BY <2>1, <2>5, SettledByVerdict
    <3>2. UNCHANGED <<docset, current, snapshot, attested, line>>
      BY <2>5, <3>1
      DEF Process, CurrentAfter, DocsetAfter, InvalidateDerivedRecords, Invalidates
    <3> QED
      BY <2>1, <3>1, <3>2, DecisionsKept
  <2> QED
    BY <1>2, <2>2, <2>3, <2>4, <2>5, NotConfirmedAgain
<1> QED
  BY <1>1, <1>2, ReleasedSteps

\* Only a released project is superseded.
LEMMA SupersededBefore ==
    \A from \in ApprovalState :
        CanTransition(from, "SUPERSEDED") => from \in Released
  BY DEF ApprovalState, CanTransition, NormalTransitions, BlockedResumeStates, Released

\* A step within or into the state SUPERSEDED leaves the document set alone.
LEMMA SupersededSteps ==
    ASSUME TypeOK, Next, state' = "SUPERSEDED"
    PROVE  \/ state \in Released \cup {"SUPERSEDED"} /\ UNCHANGED docset
           \/ state = "SUPERSEDED" /\ \E p \in Person : Confirm(p)
<1>1. ASSUME \/ SubmitFact \/ DecideFact
             \/ SubmitTerm \/ DecideTerm
             \/ SubmitRisk \/ CalculateReserve
             \/ RunScopeCompleteness
      PROVE  UNCHANGED <<state, docset>>
  BY <1>1, AttestationActions, AttestsOnly
<1>2. ASSUME NEW to \in ApprovalState, Transition(to)
      PROVE  state \in Released /\ UNCHANGED docset
  BY <1>2, SupersededBefore, TypeParts DEF Transition, DerivedTyped
<1>3. ASSUME NEW target \in Released, NEW othersAllow \in BOOLEAN,
             Release(target, othersAllow)
      PROVE  FALSE
  BY <1>3 DEF Release, Released
<1>4. ASSUME \/ \E d \in Document, p \in Person, mc \in BOOLEAN : Receive(d, p, mc)
             \/ \E i \in Upload, clean \in BOOLEAN : Process(i, clean)
             \/ \E verdict \in PriceVerdict : EvaluatePrice(verdict)
             \/ \E passed \in BOOLEAN : Calculate(passed)
             \/ \E target \in ReworkStages : RequestRework(target)
      PROVE  FALSE
  BY <1>4
  DEF Receive, Receivable, Process, Immutable, EvaluatePrice, PricingState,
      Calculate, RequestRework, ReworkStages
<1>5. ASSUME \/ \E i \in Upload : Reject(i)
             \/ \E d \in Draft : SubmitLine(d)
             \/ VerifyLine
      PROVE  UNCHANGED <<state, docset>>
  BY <1>5 DEF Reject, SubmitLine, VerifyLine
<1>6. ASSUME \E p \in Person : Confirm(p) PROVE UNCHANGED state
  BY <1>6 DEF Confirm
<1> QED
  BY <1>1, <1>2, <1>3, <1>4, <1>5, <1>6 DEF Next

LEMMA SupersededStep ==
    ASSUME TypeOK, ConfirmedSetIsCurrent, ReleaseIsCurrent,
           SupersededKeepsItsSet, Next
    PROVE  SupersededKeepsItsSet'
<1> SUFFICES ASSUME state' = "SUPERSEDED" PROVE docset' # None
  BY DEF SupersededKeepsItsSet
<1>1. state \in Released \cup {"SUPERSEDED"} => docset # None
  BY DEF ReleaseIsCurrent, SupersededKeepsItsSet
<1> QED
  BY <1>1, SupersededSteps, NotConfirmedAgain

-----------------------------------------------------------------------------
(* The theorems.                                                            *)

LEMMA IInvInit == Init => IInv
<1> SUFFICES ASSUME Init PROVE IInv
  OBVIOUS
<1>1. TypeOK
  BY TypeInit
<1>2. /\ state = "DRAFT" /\ docset = None /\ DOMAIN uploads = {}
      /\ current = {} /\ snapshot = None
      /\ \A m \in DOMAIN sets : sets[m].status = "absent"
  BY DEF Init
<1>3. ConfirmedSetIsCurrent /\ SnapshotWasConfirmed /\ PricesFollowTheSet
  BY <1>2 DEF ConfirmedSetIsCurrent, SnapshotWasConfirmed, PricesFollowTheSet
<1>4. WaitingIsNewest /\ LatestRevisionIsCurrent
  BY <1>2 DEF WaitingIsNewest, LatestRevisionIsCurrent
<1>5. ReleaseIsCurrent /\ SupersededKeepsItsSet
  BY <1>2 DEF ReleaseIsCurrent, SupersededKeepsItsSet, Released
<1> QED
  BY <1>1, <1>3, <1>4, <1>5 DEF IInv

LEMMA IInvStep == IInv /\ [Next]_vars => IInv'
<1> SUFFICES ASSUME IInv, [Next]_vars PROVE IInv'
  OBVIOUS
<1>1. CASE Next
  BY <1>1, TypeStep, SetsStep, WaitingStep, LatestStep, SnapshotStep, PricesStep,
     ReleaseStep, SupersededStep DEF IInv
<1>2. CASE UNCHANGED vars
  <2>1. UNCHANGED <<state, docset, uploads, current, sets, line, created,
                    attested, snapshot>>
    BY <1>2 DEF vars
  <2>2. TypeOK'
    BY <2>1 DEF IInv, TypeOK
  <2>3. ConfirmedSetIsCurrent' /\ SnapshotWasConfirmed' /\ PricesFollowTheSet'
    BY <2>1
    DEF IInv, ConfirmedSetIsCurrent, SnapshotWasConfirmed, PricesFollowTheSet,
        BoundToSet
  <2>4. WaitingIsNewest' /\ LatestRevisionIsCurrent'
    BY <2>1 DEF IInv, WaitingIsNewest, LatestRevisionIsCurrent, SameDocument
  <2>5. ReleaseIsCurrent' /\ SupersededKeepsItsSet'
    BY <2>1
    DEF IInv, ReleaseIsCurrent, SupersededKeepsItsSet, BoundToSet, LineVerified,
        BlockingFindings, ResolvedBySuccessor, SameDocument
  <2> QED
    BY <2>2, <2>3, <2>4, <2>5 DEF IInv
<1> QED
  BY <1>1, <1>2

LEMMA IInvAlways == Spec => []IInv
  BY IInvInit, IInvStep, PTL DEF Spec

\* The state of a project has its type in every reachable state.
THEOREM LifecycleTyped == Spec => []TypeOK
<1>1. IInv => TypeOK
  BY DEF IInv
<1> QED
  BY <1>1, IInvAlways, PTL

\* A project refers to no document set but the confirmed one, which lists its
\* current revisions (confirm_document_set, register_scanned_document_revision).
THEOREM SetsAreCurrent == Spec => []ConfirmedSetIsCurrent
<1>1. IInv => ConfirmedSetIsCurrent
  BY DEF IInv
<1> QED
  BY <1>1, IInvAlways, PTL

\* No processed candidate is newer than the current revision of its document
\* (the unresolved-upload check of receive).
THEOREM RevisionsAreLatest == Spec => []LatestRevisionIsCurrent
<1>1. IInv => LatestRevisionIsCurrent
  BY DEF IInv
<1> QED
  BY <1>1, IInvAlways, PTL

\* The prices beside a calculation of the confirmed set were decided for it
\* (_build_current_candidate).
THEOREM PricesAreCurrent == Spec => []PricesFollowTheSet
<1>1. IInv => PricesFollowTheSet
  BY DEF IInv
<1> QED
  BY <1>1, IInvAlways, PTL

\* A released state rests on the calculation and the records of the confirmed
\* current set, with no newer candidate (evaluate_bid_release, receive).
THEOREM ReleasesAreCurrent == Spec => []ReleaseIsCurrent
<1>1. IInv => ReleaseIsCurrent
  BY DEF IInv
<1> QED
  BY <1>1, IInvAlways, PTL

\* No step changes what a bid release was decided on (the immutability checks
\* of receive and of the processing of uploads, and the confirmation, which has
\* none).
THEOREM ReleasesAreFrozen == Spec => ReleaseIsFrozen
<1>1. ASSUME IInv, Next, state \in {"APPROVED_FOR_BID", "SUPERSEDED"}
      PROVE  Decided' = Decided
  <2>1. docset # None
    BY <1>1 DEF IInv, ReleaseIsCurrent, SupersededKeepsItsSet, Released
  <2>2. ASSUME \/ SubmitFact \/ DecideFact
               \/ SubmitTerm \/ DecideTerm
               \/ SubmitRisk \/ CalculateReserve
               \/ RunScopeCompleteness
        PROVE  FALSE
    BY <1>1, <2>2, AttestationActions DEF PassportStates, ContractStates, RiskStates
  <2>3. ASSUME \/ \E d \in Document, p \in Person, mc \in BOOLEAN : Receive(d, p, mc)
               \/ \E i \in Upload, clean \in BOOLEAN : Process(i, clean)
               \/ \E d \in Draft : SubmitLine(d)
               \/ VerifyLine
               \/ \E verdict \in PriceVerdict : EvaluatePrice(verdict)
               \/ \E passed \in BOOLEAN : Calculate(passed)
               \/ \E target \in ReworkStages : RequestRework(target)
        PROVE  FALSE
    BY <1>1, <2>3
    DEF Receive, Receivable, Process, Immutable, SubmitLine, VerifyLine,
        EvaluatePrice, Calculate, RequestRework
  <2>4. \A p \in Person : ~Confirm(p)
    BY <1>1, <2>1, NotConfirmedAgain DEF IInv
  <2>5. ASSUME \/ \E i \in Upload : Reject(i)
               \/ \E to \in ApprovalState : Transition(to)
               \/ \E target \in Released, othersAllow \in BOOLEAN :
                     Release(target, othersAllow)
        PROVE  Decided' = Decided
    BY <2>5 DEF Reject, Transition, Release, Decided
  <2> QED
    BY <1>1, <2>2, <2>3, <2>4, <2>5 DEF Next
<1>2. IInv /\ [Next]_vars
         => [(state \in {"APPROVED_FOR_BID", "SUPERSEDED"}) => Decided' = Decided]_vars
  BY <1>1
<1> QED
  BY <1>2, IInvAlways, PTL DEF Spec, ReleaseIsFrozen
=============================================================================
