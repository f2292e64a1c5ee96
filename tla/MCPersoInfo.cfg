SPECIFICATION Spec
CONSTANTS
    MaxCode = 3
    Tables <- MCTables
    ZoneCodes = {1}
    Lengths = {1, 2}
    MaxFrame = 2
INVARIANTS TypeOK RouteFollowsTable AccessIsProtected
