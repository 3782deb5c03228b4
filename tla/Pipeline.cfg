SPECIFICATION FairSpec
CONSTANTS
    Upload = {u1}
    Worker = {w1, w2}
    Token = {t1, t2, t3, t4, t5}
    NoLease = NoLease
    NoJob = NoJob
    NoToken = NoToken
    LeaseSeconds = 2
    TimeoutSeconds = 1
    MaxAttempts = 2
    RetryBaseSeconds = 1
    RetryMaxSeconds = 1
    AttemptCap = 3
    MaxGenerations = 2
    MaxScans = 2
    MaxFaults = 2
INVARIANTS
    RegisteredOnce
    UploadStands
PROPERTIES
    CompletedUnderLease
    LiveUploadKept
    ImplementsUploadLifecycle
