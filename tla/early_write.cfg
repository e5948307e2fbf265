SPECIFICATION Spec
CONSTANTS
    Media <- OneMedia
    Sessions <- TwoSessions
    Asks <- TwoAsks
    DataFrames = 1
    MaxPlug = 1
    MaxData = 1
    MaxExtra = 1
INVARIANTS NoGarbage
CHECK_DEADLOCK FALSE
