SPECIFICATION QuerySpec
CONSTANTS
    p1 = p1
    p2 = p2
    r2 = r2
    Requests = {r1, r2}
    Processors = {i1, i2}
    Partitions = {p1, p2}
    PartitionOf <- TwoPartitions
    ForceError = {}
    Orphans = {r2}
    MAX_RETRIES = 1
    SessionExpiry = FALSE
    FreshGroup = FALSE
    NoRequest = NoRequest
    NoOwner = NoOwner
    MaxCopies = 1
    MaxCrashes = 1
    MaxErrors = 1
    MaxRebalances = 1
    Clients = {c1}
INVARIANT AnswersAgree
PROPERTY AnswersMoveForward
