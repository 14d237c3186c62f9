SPECIFICATION FairSpec
CONSTANTS
    Groups = {psms, standing}
    Parts = {cman, feat, society, resource}
    GroupOf <- GroupOfParts
    Compared = {standing}
    WritesFail = TRUE
    LoadsFail = TRUE
    Moving = {society}
    MaxTruth = 2
    MaxReadings = 3
    MaxSessions = 2
    MaxConnections = 2
    psms = psms
    standing = standing
    cman = cman
    feat = feat
    society = society
    resource = resource
INVARIANT StampIsTrue
INVARIANT EndedIsSaved
PROPERTY LearnedIsSaved
PROPERTY KeepsFacts
CHECK_DEADLOCK FALSE
