SPECIFICATION Spec
CONSTANTS
    DongleTypes = {3}
    BusKinds <- AllBus
    PhoneKinds <- CarPlayOnly
    MaxBus = 4
    MaxPhone = 4
    MaxPlug = 0
INVARIANT MutedByAPhone
CHECK_DEADLOCK FALSE
