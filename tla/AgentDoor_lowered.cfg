SPECIFICATION Spec
CONSTANTS
    Lines = {l1}
    Runs = {}
    Takeovers = {}
    Stops = {}
    Calls = {k1}
    Player = Player
    Levels = {1, 4}
    MaxWaiting = 1
    Kept = 2
    MaxAsks = 0
    MaxOperations = 2
    MaxGeneration = 1
    l1 = l1
    t1 = t1
    t2 = t2
    r1 = r1
    s1 = s1
    k1 = k1
    k2 = k2
PROPERTY NotWrittenBelowTheLevel
CHECK_DEADLOCK FALSE
