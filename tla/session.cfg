SPECIFICATION FairSpec
CONSTANTS
    DongleTypes = {3, 5}
    BusKinds <- AllBus
    PhoneKinds <- SomePhone
    MaxBus = 4
    MaxPhone = 3
    MaxPlug = 1
INVARIANTS TypeOK TypeTold WindowMatches MuteTold OneOwner OffWhenLeft
PROPERTY GetsScreen
CHECK_DEADLOCK FALSE
