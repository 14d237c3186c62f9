SPECIFICATION Spec
CONSTANTS
    Leader = Leader
    Followers = {f1}
    QuietFollowers = TRUE
    Commands = 1
    Tiring = {Leader}
    Needs = {"Tired"}
    MaxRests = 2
    MaxMishapsApart = 0
    MaxMishaps = 2
    f1 = f1
PROPERTY WhoWalkedAloneIsAwaited
CHECK_DEADLOCK FALSE
