SPECIFICATION Spec
CONSTANTS
    p1 = p1
    Requests = {r1}
    Processors = {i1, i2}
    Partitions = {p1}
    PartitionOf <- OnePartition
    ForceError = {}
    Orphans = {}
    MAX_RETRIES = 1
    SessionExpiry = TRUE
    FreshGroup = FALSE
    NoRequest = NoRequest
    NoOwner = NoOwner
    MaxCopies = 1
    MaxCrashes = 0
    MaxErrors = 0
    MaxRebalances = 1
CHECK_DEADLOCK FALSE
INVARIANT AtMostOneApproval
