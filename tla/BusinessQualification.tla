------------------------ MODULE BusinessQualification ------------------------
(***************************************************************************)
(* A business qualification campaign: locked predictions of the running    *)
(* build are compared with references that other people prepared, the      *)
(* differences are reviewed and the campaign is approved.                  *)
(*                                                                         *)
(* Every step runs under the row lock of the campaign.  The release        *)
(* validates the result once more with rules of its own.                   *)
(***************************************************************************)
EXTENDS Naturals, FiniteSets

CONSTANTS
    Person,
    Case,         \* cases of the campaign's dataset
    Historical,   \* cases compared with a verified actual
    Build,        \* application builds
    Nobody, NoRow, Open

VARIABLES
    campaign,     \* business_qualification_campaigns row or NoRow
    prepared,     \* unverified reference observations: records [case, by]
    references,   \* [Case -> row or NoRow]
    reviews,      \* [Case -> discrepancy review, Open or NoRow (not material)]
    build         \* the running build

campaignVars == <<campaign, prepared, references, reviews, build>>

\* BusinessQualificationCampaignRow.
CampaignRow == [status : {"INPUTS_LOCKED", "EXPERT_REVIEW", "FAILED", "PASSED"},
                createdBy : Person, snapshotBy : [Case -> Person],
                evaluatedBy : Person \cup {Nobody}, finalizedBy : Person \cup {Nobody},
                build : Build]

CampaignInit ==
    /\ campaign = NoRow /\ prepared = {}
    /\ references = [c \in Case |-> NoRow] /\ reviews = [c \in Case |-> NoRow]
    /\ build \in Build

-----------------------------------------------------------------------------
\* create_campaign: the inputs are locked, each case with a snapshot of its own
\* author; historical cases get the reference their verified actual gives,
\* registered by the creator.
CreateCampaign(a, authors) ==
    /\ campaign = NoRow
    /\ campaign' = [status |-> "INPUTS_LOCKED", createdBy |-> a, snapshotBy |-> authors,
                    evaluatedBy |-> Nobody, finalizedBy |-> Nobody, build |-> build]
    /\ references' = [c \in Case |->
            IF c \in Historical THEN [by |-> a, preparedBy |-> Nobody] ELSE NoRow]
    /\ UNCHANGED <<prepared, reviews, build>>

InState(states) == campaign # NoRow /\ campaign.status \in states

\* _bound_inputs: the campaign still belongs to the running build.
BoundInputs == campaign.build = build

\* The creator of the campaign and the author of the snapshot of the case
\* (_snapshot_creator).
Stakeholders(c) == {campaign.createdBy, campaign.snapshotBy[c]}

\* prepare_reference_evidence.
PrepareReference(a, c) ==
    /\ InState({"INPUTS_LOCKED"}) /\ BoundInputs
    /\ c \notin Historical
    /\ a \notin Stakeholders(c)
    /\ prepared' = prepared \cup {[case |-> c, by |-> a]}
    /\ UNCHANGED <<campaign, references, reviews, build>>

Registrable(a, c, e) == /\ references[c] = NoRow
                        /\ e.case = c
                        /\ a \notin Stakeholders(c) \cup {e.by}

\* verify_and_register_reference.
RegisterReference(a, c, e) ==
    /\ InState({"INPUTS_LOCKED"}) /\ BoundInputs
    /\ c \notin Historical
    /\ Registrable(a, c, e)
    /\ references' = [references EXCEPT ![c] = [by |-> a, preparedBy |-> e.by]]
    /\ UNCHANGED <<campaign, prepared, reviews, build>>

ReferenceActors == {references[c].by : c \in Case} \cup {references[c].preparedBy : c \in Case}

\* Mutant: only the creator is excluded from the evaluation.
EvaluableByReferenceActor(a) == /\ \A c \in Case : references[c] # NoRow
                                /\ a # campaign.createdBy

Evaluable(a) == /\ \A c \in Case : references[c] # NoRow
                /\ a # campaign.createdBy
                /\ a \notin ReferenceActors

\* evaluate: the metrics pass or fail, and some cases differ materially.
Evaluate(a, passed, material) ==
    /\ InState({"INPUTS_LOCKED"}) /\ BoundInputs
    /\ Evaluable(a)
    /\ campaign' = [campaign EXCEPT !.status = IF passed THEN "EXPERT_REVIEW" ELSE "FAILED",
                                    !.evaluatedBy = a]
    /\ reviews' = [c \in Case |-> IF c \in material THEN Open ELSE NoRow]
    /\ UNCHANGED <<prepared, references, build>>

ExcludedReviewers(c) == Stakeholders(c) \cup
        {campaign.evaluatedBy, references[c].by, references[c].preparedBy}

\* review_discrepancy: one immutable review.
ReviewDiscrepancy(a, c, decision) ==
    /\ InState({"EXPERT_REVIEW", "FAILED"}) /\ BoundInputs
    /\ reviews[c] = Open
    /\ a \notin ExcludedReviewers(c)
    /\ reviews' = [reviews EXCEPT ![c] = [by |-> a, decision |-> decision]]
    /\ UNCHANGED <<campaign, prepared, references, build>>

Reviewed == {c \in Case : reviews[c] \notin {NoRow, Open}}

\* Mutant: whoever made the references may approve.
ApprovableByReferenceActor(a) ==
    /\ a \notin {campaign.createdBy, campaign.evaluatedBy}
    /\ \A c \in Case : reviews[c] # Open
    /\ \A c \in Reviewed : reviews[c].decision = "ACCEPTED" /\ reviews[c].by # a

Approvable(a) ==
    /\ a \notin {campaign.createdBy, campaign.evaluatedBy}
    /\ \A c \in Case : reviews[c] # Open
    /\ \A c \in Reviewed : reviews[c].decision = "ACCEPTED" /\ reviews[c].by # a
    /\ a \notin ReferenceActors

\* approve_campaign.
ApproveCampaign(a) ==
    /\ InState({"EXPERT_REVIEW"}) /\ BoundInputs
    /\ Approvable(a)
    /\ campaign' = [campaign EXCEPT !.status = "PASSED", !.finalizedBy = a]
    /\ UNCHANGED <<prepared, references, reviews, build>>

\* The update trigger of business_qualification_campaigns.
CampaignChangeAllowed(old, new) ==
    /\ new = [old EXCEPT !.status = new.status, !.evaluatedBy = new.evaluatedBy,
                         !.finalizedBy = new.finalizedBy]
    /\ old.finalizedBy = Nobody
    /\ \/ /\ old.status = "INPUTS_LOCKED" /\ new.status \in {"EXPERT_REVIEW", "FAILED"}
          /\ old.evaluatedBy = Nobody /\ new.evaluatedBy # Nobody
          /\ new.finalizedBy = Nobody
       \/ /\ old.status = "EXPERT_REVIEW" /\ new.status = "PASSED"
          /\ new.evaluatedBy = old.evaluatedBy /\ new.finalizedBy # Nobody

\* _production_qualification_evidence_valid: what it demands of the references,
\* each by the mode of its case, ...
ReferencesReproduce ==
    /\ \A c \in Case : references[c] # NoRow
    /\ \A c \in Case : (c \in Historical) = (references[c].preparedBy = Nobody)

\* ... of the reviews ...
ReviewsAccepted ==
    /\ \A c \in Case : reviews[c] # Open
    /\ \A c \in Reviewed : reviews[c].decision = "ACCEPTED" /\ reviews[c].by # campaign.finalizedBy

\* ... and of the campaign.
CampaignValid ==
    /\ InState({"PASSED"})
    /\ campaign.build = build
    /\ Cardinality({campaign.createdBy, campaign.evaluatedBy, campaign.finalizedBy}) = 3
    /\ ReferencesReproduce /\ ReviewsAccepted
    /\ {campaign.evaluatedBy, campaign.finalizedBy} \cap ReferenceActors = {}

Deploy(b) == /\ b # build /\ build' = b
             /\ UNCHANGED <<campaign, prepared, references, reviews>>

CampaignNext ==
    \/ \E a \in Person :
          \/ \E authors \in [Case -> Person] : CreateCampaign(a, authors)
          \/ \E c \in Case : PrepareReference(a, c)
          \/ \E c \in Case, e \in prepared : RegisterReference(a, c, e)
          \/ \E passed \in BOOLEAN, m \in SUBSET Case : Evaluate(a, passed, m)
          \/ \E c \in Case, d \in {"ACCEPTED", "REJECTED"} : ReviewDiscrepancy(a, c, d)
          \/ ApproveCampaign(a)
    \/ \E b \in Build : Deploy(b)

CampaignSpec == CampaignInit /\ [][CampaignNext]_campaignVars

-----------------------------------------------------------------------------
CampaignTypeOK == campaign # NoRow => campaign \in CampaignRow

\* Nobody judges a number of their own: in a campaign that passed, the people
\* who made, evaluated and approved it, who prepared and registered the
\* references and who reviewed the discrepancies are kept apart, whichever
\* order they worked in.
PassedIsIndependent ==
    InState({"PASSED"}) =>
        /\ campaign.evaluatedBy \notin ReferenceActors \cup {campaign.createdBy}
        /\ campaign.finalizedBy \notin ReferenceActors \cup
              {campaign.createdBy, campaign.evaluatedBy} \cup {reviews[c].by : c \in Reviewed}
        /\ \A c \in Case \ Historical :
              /\ references[c].by # references[c].preparedBy
              /\ {references[c].by, references[c].preparedBy} \cap Stakeholders(c) = {}
        /\ \A c \in Reviewed : /\ reviews[c].decision = "ACCEPTED"
                               /\ reviews[c].by \notin ExcludedReviewers(c)

\* The release accepts every campaign the campaign service let pass, as long
\* as its build runs: the two validators agree.
PassedCampaignVerifies == InState({"PASSED"}) /\ campaign.build = build => CampaignValid
=============================================================================
