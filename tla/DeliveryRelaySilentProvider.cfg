SPECIFICATION SilentProviderSpec
CONSTANTS
    MaxAttempts = 2
    BatchSize = 1
    Procs = {p1}
    MaxDeliveries = 1
    SweepBatch = 1
PROPERTIES
    LeaseExpiryFreesRow
