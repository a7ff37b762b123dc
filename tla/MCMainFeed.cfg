SPECIFICATION FairSpec
CONSTANTS
    AnalogLoop = 3
    FloatVector = 2
    MixedLoop = 3
    BinaryLoop = 2
    Samples = {1, 2}
    MaxRound = 2
INVARIANTS
    BinaryIsParity
    NoIntegerWithoutOverrun
PROPERTIES
    RoundEnds
CHECK_DEADLOCK FALSE
