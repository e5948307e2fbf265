SPECIFICATION FairSpec
CONSTANTS
    Media <- OneMedia
    Sessions <- TwoSessions
    Asks <- TwoAsks
    DataFrames = 2
    MaxPlug = 2
    MaxData = 2
    MaxExtra = 2
INVARIANTS TypeOK Whole AckedIsHandled KeyOfPhone KeyOfHandler
PROPERTIES StartsUp
CHECK_DEADLOCK FALSE
