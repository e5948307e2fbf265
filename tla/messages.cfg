SPECIFICATION Spec
CONSTANTS
    Setups <- TwoSetups
    Lists <- TwoLists
    Asked <- AllAsked
    MaxBus = 3
    MaxAsk = 2
    MaxPlug = 2
INVARIANTS TypeOK AllWritten ReadsAsMeant SensorsTold KeysAnnounced ScreenFits
