SPECIFICATION FairSpec
CONSTANTS
    Commands = {c1, h1}
    Instants = {x1}
    Quits = {}
    Held = {h1, x1}
    Asking = {c1, h1}
    Exits = {x1}
    InboxBound = 8
    MostOwed = 4
    Unasked = TRUE
    Terse = FALSE
    WaitLapses = TRUE
    OwedLapses = TRUE
    c1 = c1
    x1 = x1
    h1 = h1
    Nobody = Nobody
    Game = Game
INVARIANT OwnReply
PROPERTY WindowEnds
PROPERTY QueueDrains
CHECK_DEADLOCK FALSE
