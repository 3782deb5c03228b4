------------------------------ MODULE Workflow ------------------------------
(***************************************************************************)
(* The approval states of a project and the moves between them              *)
(* (domain/enums.py and domain/workflow.py).                                *)
(***************************************************************************)

NormalTransitions ==
    [DRAFT |->
        {"DOCUMENTS_INCOMPLETE", "EXTRACTION_IN_PROGRESS", "BLOCKED", "ARCHIVED"},
     DOCUMENTS_INCOMPLETE |->
        {"EXTRACTION_IN_PROGRESS", "BLOCKED", "ARCHIVED"},
     EXTRACTION_IN_PROGRESS |->
        {"EXTRACTION_REVIEW", "DOCUMENTS_INCOMPLETE", "BLOCKED"},
     EXTRACTION_REVIEW |->
        {"EXTRACTION_IN_PROGRESS", "BOQ_IN_PROGRESS", "BLOCKED"},
     BOQ_IN_PROGRESS |->
        {"BOQ_REVIEW", "BLOCKED"},
     BOQ_REVIEW |->
        {"BOQ_IN_PROGRESS", "PRICING_IN_PROGRESS", "RFQ_REQUIRED", "BLOCKED"},
     PRICING_IN_PROGRESS |->
        {"RFQ_REQUIRED", "EXPERT_REVIEW", "CALCULATION_IN_PROGRESS", "BLOCKED"},
     RFQ_REQUIRED |->
        {"PRICING_IN_PROGRESS", "EXPERT_REVIEW", "BLOCKED"},
     CALCULATION_IN_PROGRESS |->
        {"INDEPENDENT_VALIDATION", "BLOCKED"},
     INDEPENDENT_VALIDATION |->
        {"CALCULATION_IN_PROGRESS", "EXPERT_REVIEW", "BLOCKED"},
     EXPERT_REVIEW |->
        {"EXTRACTION_IN_PROGRESS", "EXTRACTION_REVIEW", "BOQ_IN_PROGRESS",
         "BOQ_REVIEW", "PRICING_IN_PROGRESS", "CALCULATION_IN_PROGRESS",
         "APPROVED_FOR_INTERNAL_USE", "APPROVED_FOR_BID", "BLOCKED"},
     APPROVED_FOR_INTERNAL_USE |->
        {"EXPERT_REVIEW", "APPROVED_FOR_BID", "BLOCKED", "SUPERSEDED", "ARCHIVED"},
     APPROVED_FOR_BID |->
        {"SUPERSEDED", "ARCHIVED"},
     SUPERSEDED |->
        {"ARCHIVED"},
     ARCHIVED |->
        {}]

BlockedResumeStates ==
    {"DOCUMENTS_INCOMPLETE", "EXTRACTION_IN_PROGRESS", "EXTRACTION_REVIEW",
     "BOQ_IN_PROGRESS", "BOQ_REVIEW", "PRICING_IN_PROGRESS", "RFQ_REQUIRED",
     "CALCULATION_IN_PROGRESS", "INDEPENDENT_VALIDATION", "EXPERT_REVIEW",
     "ARCHIVED"}

ApprovalState == DOMAIN NormalTransitions \cup {"BLOCKED"}

CanTransition(from, to) ==
    IF from = "BLOCKED"
    THEN to \in BlockedResumeStates
    ELSE to \in NormalTransitions[from]

\* The states that only a release decision reaches.
Released == {"APPROVED_FOR_INTERNAL_USE", "APPROVED_FOR_BID"}

\* The states in which document commands are refused.
Immutable == {"APPROVED_FOR_BID", "SUPERSEDED", "ARCHIVED"}
=============================================================================
