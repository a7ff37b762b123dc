SPECIFICATION Spec
CONSTANTS
    Modes = {"WORK"}
    Lists <- MCLists
    MaxCycle = 3
INVARIANTS
    PlacementPlaces
CHECK_DEADLOCK FALSE
