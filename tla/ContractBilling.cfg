SPECIFICATION FairSpec
CONSTANTS
    Contracts = {c}
    NoContract = NoContract
    Invoices = {i, j}
    Currencies = {TRY, EUR}
    Clients = {k1}
    WarnJobs = {}
    DueJobs = {p1, p2}
    LeadDays = 1
    DueDays = {0}
    MaxDay = 2
    ChunkLimit = 1
INVARIANTS
    ChargedWithinContract
    ChargedOnce
    OneCurrency
    RemindedOnce
PROPERTIES
    ImplementsAccount
    PastDueIsFound
