SPECIFICATION FairSpec
CONSTANTS
    p1 = p1
    Requests = {r1}
    Processors = {i1, i2}
    Partitions = {p1}
    PartitionOf <- OnePartition
    ForceError = {r1}
    Orphans = {}
    MAX_RETRIES = 1
    SessionExpiry = FALSE
    FreshGroup = FALSE
    NoRequest = NoRequest
    NoOwner = NoOwner
    MaxCopies = 1
    MaxCrashes = 1
    MaxErrors = 1
    MaxRebalances = 0
CHECK_DEADLOCK FALSE
PROPERTY FailedIsDeadLettered
