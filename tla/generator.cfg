SPECIFICATION Spec
CONSTANTS
    Addr <- Addresses
    LimitSize = 8
    LinkLocal <- LinkLocalNet
    FroniusAddress = 28
    InterfaceLists <- Interfaces
    PriorityLists <- Lists
INVARIANT HasNextExact
INVARIANT ProgressComplete
PROPERTY Sweeps
