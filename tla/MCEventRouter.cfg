CONSTANTS
    Markets <- MCMarkets
    Messages <- MCMessages
    Capacity = 2
    MaxMessages = 5
SPECIFICATION Spec
INVARIANTS
    OldestLost
    RoutedHome
CHECK_DEADLOCK FALSE
