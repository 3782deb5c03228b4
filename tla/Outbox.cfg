SPECIFICATION FairSpec
CONSTANTS
    Event = {e1}
    Worker = {w1, w2}
    Token = {t1, t2, t3, t4}
    NoLease = NoLease
    NoClaim = NoClaim
    LeaseSeconds = 2
    MaxAttempts = 3
    RetryBaseSeconds = 1
    RetryMaxSeconds = 1
    AttemptCap = 4
    MaxFaults = 3
INVARIANTS
    TypeOK
    PublishedWasHandled
    DeadLetterJustified
PROPERTIES
    LiveLeaseIsExclusive
    OnlyOwnerSettles
    ImplementsDurableDelivery
