SPECIFICATION FairSpec
CONSTANTS
    Lines = {l1}
    Runs = {}
    Takeovers = {}
    Stops = {s1}
    Calls = {k1, k2}
    Player = Player
    Levels = {1, 4}
    MaxWaiting = 1
    Kept = 2
    MaxAsks = 1
    MaxOperations = 2
    MaxGeneration = 2
    l1 = l1
    t1 = t1
    t2 = t2
    r1 = r1
    s1 = s1
    k1 = k1
    k2 = k2
INVARIANT DoneOnce
INVARIANT RefusedIsNotDone
INVARIANT UnsentIsUnsent
PROPERTY LinesEnd
CHECK_DEADLOCK FALSE
