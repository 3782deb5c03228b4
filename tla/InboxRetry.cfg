SPECIFICATION Spec
CONSTANTS
    Key = {k1}
    Id = {i1}
    Content = {c1}
    Receiver = {r1}
    Worker = {w1, w2}
    Token = {t1, t2, t3, t4, t5}
    NoLease = NoLease
    NoCall = NoCall
    NoClaim = NoClaim
    NoQualification = NoQualification
    MaxQualifications = 1
    LeaseSeconds = 2
    TimeoutSeconds = 1
    MaxAttempts = 2
    RetryBaseSeconds = 1
    RetryMaxSeconds = 1
    AttemptCap = 4
    MaxGenerations = 1
    MaxFaults = 3
INVARIANT
    RetryIsBounded
