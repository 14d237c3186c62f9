SPECIFICATION Spec
CONSTANTS
    Commands = {c1, c2}
    Instants = {}
    Quits = {}
    Held = {}
    Asking = {c1}
    Exits = {}
    InboxBound = 8
    MostOwed = 4
    Unasked = FALSE
    Terse = FALSE
    WaitLapses = TRUE
    OwedLapses = FALSE
    c1 = c1
    c2 = c2
    Nobody = Nobody
    Game = Game
INVARIANT OwnReply
CHECK_DEADLOCK FALSE
