SPECIFICATION TimedSpec
CONSTANTS
    p1 = p1
    Requests = {r1}
    Processors = {i1, i2}
    Partitions = {p1}
    PartitionOf <- OnePartition
    ForceError = {}
    Orphans = {}
    MAX_RETRIES = 3
    SessionExpiry = TRUE
    FreshGroup = FALSE
    NoRequest = NoRequest
    NoOwner = NoOwner
    MaxCopies = 2
    MaxCrashes = 1
    MaxErrors = 1
    MaxRebalances = 1
    RetryDelay <- RETRY_DELAYS
    RemoteTimes = {1, 7}
    RejectTimes = {1, 93}
    CallTimes = {2, 5}
    FetchTimes = {0, 50}
    MaxRemote = 7
    MaxReject = 93
    MaxCall = 5
    MaxFetch = 50
    HeartbeatInterval = 30
    SessionTimeout = 300
    Spent <- LongestSpent
CHECK_DEADLOCK FALSE
INVARIANTS
    SessionHeld
    AgeInv
PROPERTY UndisturbedSpec
