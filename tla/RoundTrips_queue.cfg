SPECIFICATION Spec
CONSTANTS
    Commands = {c1, c2, h1}
    Instants = {i1}
    Quits = {q1}
    Held = {h1}
    Asking = {}
    Exits = {}
    InboxBound = 3
    MostOwed = 4
    Unasked = FALSE
    Terse = TRUE
    WaitLapses = FALSE
    OwedLapses = FALSE
    c1 = c1
    c2 = c2
    h1 = h1
    i1 = i1
    q1 = q1
    Nobody = Nobody
    Game = Game
SYMMETRY AlikeTyped
INVARIANT OwnReply
INVARIANT LedgerIsTheWire
INVARIANT WaitsInOnePlace
PROPERTY WithdrawnIsNotSent
PROPERTY PlayerFirst
PROPERTY NothingAfterQuit
PROPERTY MeetsFates
CHECK_DEADLOCK FALSE
