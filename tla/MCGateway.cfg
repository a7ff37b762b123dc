SPECIFICATION FairSpec
CONSTANTS
    MaxRetries = 1
    TicksPerTimeout = 1
    MaxTick = 3
    MaxPlc = 2
    MaxAnswers = 1
    Modes = {"WORK", "SIMUL"}
    Lists <- MCLists
    MaxCycle = 3
INVARIANTS
    ChannelHasNoReading
PROPERTIES
    ImplementsPlacement
    ReadEndsOrProcessDies
CHECK_DEADLOCK FALSE
