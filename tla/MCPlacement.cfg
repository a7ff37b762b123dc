SPECIFICATION FairSpec
CONSTANTS
    Modes = {"WORK", "SIMUL"}
    Lists <- MCLists
    MaxCycle = 3
INVARIANTS
    TypeOK
    SingleOwner
    OnlyFirstPlacementReaches
    FirstPlacementIsSafe
    PlacedInOrder
    LaterReturnsAreIdle
    SimulNeedsFailure
PROPERTIES
    PlacementEnds
CHECK_DEADLOCK FALSE
