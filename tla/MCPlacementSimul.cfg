SPECIFICATION Spec
CONSTANTS
    Modes = {"SIMUL"}
    Lists <- MCLists
    MaxCycle = 3
INVARIANTS
    PlacementPlaces
CHECK_DEADLOCK FALSE
