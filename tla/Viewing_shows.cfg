SPECIFICATION FairSpec
CONSTANTS
    Hearing = TRUE
    Viewers = {v1}
    MaxHappenings = 2
    Ring = 2
    InboxRoom = 1
    Nothing = Nothing
    v1 = v1
INVARIANT HeardOnceInOrder
INVARIANT QuietWithTheWindow
PROPERTY ShownInOrder
PROPERTY HeldIsLetGo
PROPERTY EndIsSeen
CHECK_DEADLOCK FALSE
