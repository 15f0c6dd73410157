SPECIFICATION Spec
CONSTANTS
    p1 = p1
    Requests = {r1}
    Processors = {i1, i2}
    Partitions = {p1}
    PartitionOf <- OnePartition
    ForceError = {}
    Orphans = {}
    MAX_RETRIES = 2
    SessionExpiry = TRUE
    FreshGroup = FALSE
    NoRequest = NoRequest
    NoOwner = NoOwner
    MaxCopies = 2
    MaxCrashes = 2
    MaxErrors = 1
    MaxRebalances = 3
CHECK_DEADLOCK FALSE
INVARIANTS
    CardsAreBacked
    ApprovalsBoundedByProcessors
    HandledNeverPending
