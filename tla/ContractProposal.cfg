\* One term, its cost impact and a replacement of the documents; the last revision
\* may be reached and everybody may stop
SPECIFICATION TermSpec
CONSTANTS
    Person = {p1, p2, p3}
    Rules = {r1, r2}
    MaxTerms = 3
    MaxSets = 2
    Nobody = Nobody
INVARIANT ProposalAccepted
CHECK_DEADLOCK FALSE
