SPECIFICATION FairSpec
CONSTANTS
    p1 = p1
    Requests = {r1, r2}
    Processors = {i1, i2}
    Partitions = {p1}
    PartitionOf <- OnePartition
    ForceError = {}
    Orphans = {}
    MAX_RETRIES = 1
    SessionExpiry = FALSE
    FreshGroup = FALSE
    NoRequest = NoRequest
    NoOwner = NoOwner
    MaxCopies = 2
    MaxCrashes = 1
    MaxErrors = 1
    MaxRebalances = 1
CHECK_DEADLOCK FALSE
INVARIANTS
    TypeOK
    Inv
    AtMostOneApproval
    OneOutcome
    EachFaultStrandsOneAtMost
PROPERTIES
    LifecycleSpec
    EveryEventSettles
