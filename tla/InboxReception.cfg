SPECIFICATION FairSpec
CONSTANTS
    Key = {k1, k2}
    Id = {i1, i2}
    Content = {c1, c2}
    Receiver = {r1, r2}
    Worker = {w1}
    Token = {t1, t2, t3, t4, t5}
    NoLease = NoLease
    NoCall = NoCall
    NoClaim = NoClaim
    NoQualification = NoQualification
    MaxQualifications = 2
    LeaseSeconds = 2
    TimeoutSeconds = 1
    MaxAttempts = 2
    RetryBaseSeconds = 1
    RetryMaxSeconds = 1
    AttemptCap = 3
    MaxGenerations = 1
    MaxFaults = 1
INVARIANTS
    ReceiptStands
PROPERTY
    GenerationsSettle
