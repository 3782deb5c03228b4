SPECIFICATION FairSpec
CONSTANTS
    Key = {k1}
    Worker = {w1, w2}
    Token = {t1, t2, t3, t4, t5}
    NoLease = NoLease
    NoJob = NoJob
    LeaseSeconds = 1
    MaxAttempts = 2
    RetryBaseSeconds = 1
    RetryMaxSeconds = 1
    AttemptCap = 5
    MaxReplays = 1
    MaxFaults = 2
INVARIANTS
    DeliveryStands
PROPERTY
    ImplementsDurableDelivery
