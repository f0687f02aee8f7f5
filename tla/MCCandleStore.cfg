CONSTANTS
    Units = {1, 2}
    LegacyUnit = 2
    Closes = {1, 2}
    FirstTime = 2
    MaxTime = 4
    MaxCrashes = 3
    NoCandle = NoCandle
SPECIFICATION FairSpec
INVARIANTS
    RowIsFinal
    FedIsStored
PROPERTIES
    RowsKept
    StartCompletes
