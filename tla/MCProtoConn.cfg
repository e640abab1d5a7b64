SPECIFICATION MCSpec
CONSTANTS
    Conn = {c1, c2}
    MaxAddr = 3
    Request = {r1, r2, r3}
    NULL = NULL
    Users = {"timer", "once", "eager"}
INVARIANTS
    ConnectionIsClean
    SetupGuarded
    AttemptIsClean
    SharingIsSafe
    AnswersAreRight
    CreateIsSafe
PROPERTIES
    ImplementsConnection
    SetupEnds
    AnswerIsRight
    Answered
    ThreadsGoOn
CHECK_DEADLOCK FALSE
