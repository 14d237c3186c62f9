SPECIFICATION FairSpec
CONSTANTS
    Lines = {x1, b1}
    Typed = {x1}
    Exits = {x1}
    Quits = {q1}
    PagesAttend = TRUE
    MaxUnattended = 2
    Rungs = 2
    MaxGeneration = 2
    x1 = x1
    b1 = b1
    q1 = q1
INVARIANT MeantForThisConnection
INVARIANT ClosedIsTheEnd
INVARIANT StormsClimb
INVARIANT GivesUp
INVARIANT KeepsThePlayer
INVARIANT LeavesForGood
PROPERTY ExitWasAskedOfIt
PROPERTY CancelStops
PROPERTY InboxIsRead
CHECK_DEADLOCK FALSE
