SPECIFICATION FairSpec
CONSTANTS
    MaxAttempts = 3
    BatchSize = 2
    Procs = {p1, p2}
    Phones = {a, b}
    MaxEvents = 1
    SweepBatch = 2
INVARIANTS
    DeliveriesOnlyOfProcessed
    FailureAuditedOnce
    AttemptIdentifiesHolder
PROPERTIES
    ProcessedIsFinal
    ImplementsLedger
    EventuallyResolved
