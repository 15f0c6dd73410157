SPECIFICATION FairAppSpec
CONSTANTS
    p1 = p1
    Requests = {r1, r2}
    Processors = {i1}
    Partitions = {p1}
    PartitionOf <- OnePartition
    ForceError = {}
    Orphans = {}
    MAX_RETRIES = 1
    SessionExpiry = FALSE
    FreshGroup = FALSE
    NoRequest = NoRequest
    NoOwner = NoOwner
    MaxCopies = 1
    MaxCrashes = 1
    MaxErrors = 1
    MaxRebalances = 0
    MaxStops = 1
CHECK_DEADLOCK FALSE
INVARIANTS
    AppTypeOK
    LossesAreCounted
    CallsAreCounted
    OutcomesAreCounted
    DeadLettersAreCounted
PROPERTIES
    EveryStopEnds
    EveryEventSettlesOrShows
