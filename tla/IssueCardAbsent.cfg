SPECIFICATION Spec
CONSTANTS
    Posts = {p1}
    Documents = {d1}
    NoPost = NoPost
    NoDocument = NoDocument
    MaxErrors = 0
    MaxCrashes = 0
CHECK_DEADLOCK FALSE
INVARIANT InvalidBodyGets400
