SPECIFICATION Spec
CONSTANTS
    MaxAttempts = 2
    BatchSize = 1
    Procs = {p1, p2}
    Phones = {a, b}
    MaxEvents = 1
    SweepBatch = 1
INVARIANT
    FanOutOnce
