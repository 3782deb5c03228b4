SPECIFICATION FairSpec
CONSTANTS
    Request = {r1, r2, r3}
    Key = {k1}
    Aggregate <- MCAggregate
    ApiCommand <- MCApiCommand
    WorkerCommand <- MCWorkerCommand
    MaxEvents = 2
    None = None
INVARIANTS
    EffectIffRecorded
    ChainsStand
    AnswersAreDurable
PROPERTIES
    AttemptsEnd
    ImplementsSerialLedger
