SPECIFICATION FairSpec
CONSTANTS
    e1 = e1
    Events = {e1, e2, e3}
    CreatedAt <- OldestFirst
    Unpublishable = {e1}
    Instances = {i1, i2}
    Polls = {s1, s2}
    BatchSize = 2
    MaxAttempts = 0
    MaxEnds = 1
    MaxErrors = 2
INVARIANTS
    OutboxTypeOK
    PublishedIsOnTopic
    CopiesAccountedFor
    GuardHasPoll
PROPERTY EveryEventPublished
