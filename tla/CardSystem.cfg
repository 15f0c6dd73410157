SPECIFICATION FairSpec
CONSTANTS
    k1 = k1
    n1 = n1
    Posts = {p1, p2}
    Documents = {d1, d2}
    Instances = {n1}
    ServedBy <- OneServer
    CreatedAt <- SameMoment
    Polls = {s1}
    BatchSize = 2
    Processors = {i1}
    Partitions = {k1}
    PartitionOf <- OnePartition
    ForceError = {}
    MAX_RETRIES = 0
    SessionExpiry = FALSE
    FreshGroup = FALSE
    NoPost = NoPost
    NoDocument = NoDocument
    NoOwner = NoOwner
    MaxErrors = 1
    MaxCrashes = 1
    MaxProcessorErrors = 1
    MaxProcessorCrashes = 1
    MaxFailures = 2
    MaxRebalances = 0
CHECK_DEADLOCK FALSE
INVARIANTS
    OneCardPerDocument
    PendingIsUnderWay
PROPERTIES
    ProcessorSpec
    EveryStoredRequestSettles
