SPECIFICATION Spec
CONSTANTS
    Users = {u1}
    Calls = {k1, k2}
    MaxChallenges = 2
    MaxSessions = 3
    MaxAttempts = 2
SYMMETRY Symmetry
INVARIANTS
    OnlyBulkDeadlocks
    AttemptsBounded
    SupersededUnlessOverlapping
PROPERTIES
    DeactivationDries
    ImplementsChains
