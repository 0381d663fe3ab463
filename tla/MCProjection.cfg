SPECIFICATION Spec
CONSTANTS
    Sources <- MCSources
    Trust <- MCTrust
    Values <- MCValues
    Canon <- MCCanon
    NoValue = NoValue
    Times = {1, 2}
    Ids = {3, 4, 5}
    LaterIds = {1, 2, 6}
    MaxRows = 3
INVARIANTS
    ReadOrderIrrelevant
    RefetchIsQuiet
CHECK_DEADLOCK FALSE
