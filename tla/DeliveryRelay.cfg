SPECIFICATION FairSpec
CONSTANTS
    MaxAttempts = 2
    BatchSize = 1
    Procs = {p1, p2}
    MaxDeliveries = 2
    SweepBatch = 1
INVARIANTS
    OneSmsPerClaim
    ProcessedWasSent
    FailureAuditedOnce
PROPERTIES
    SettledIsFinal
    EventuallySettled
