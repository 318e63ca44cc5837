SPECIFICATION Spec
CONSTANTS
    Contracts = {c, d}
    NoContract = NoContract
    Invoices = {}
    Currencies = {TRY}
    Clients = {k1, k2}
    WarnJobs = {p1, p2}
    DueJobs = {}
    LeadDays = 1
    DueDays = {0}
    MaxDay = 3
    ChunkLimit = 1
SYMMETRY Symmetry
INVARIANTS
    InForceDisjoint
    MarkedIsWarned
