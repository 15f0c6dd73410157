SPECIFICATION Spec
CONSTANTS
    Posts = {p1, p2, p3, p4}
    Documents = {d1, d2}
    NoPost = NoPost
    NoDocument = NoDocument
    MaxErrors = 2
    MaxCrashes = 1
CHECK_DEADLOCK FALSE
INVARIANTS
    IntakeTypeOK
    OutboxMatchesRows
    AnswersAreTrue
    OneWinner
