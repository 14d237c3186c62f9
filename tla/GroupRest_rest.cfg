SPECIFICATION FairSpec
CONSTANTS
    Leader = Leader
    Followers = {f1}
    QuietFollowers = TRUE
    Commands = 2
    Tiring = {f1}
    Needs = {"Hurt"}
    MaxRests = 2
    MaxMishapsApart = 0
    MaxMishaps = 2
    f1 = f1
PROPERTY WalksBackTogether
PROPERTY HuntsAgain
CHECK_DEADLOCK FALSE
