SPECIFICATION Spec
CONSTANTS
    Configurations <- ManyDiscretes
    Images <- MCImages
    MaxReplies = 2
INVARIANTS
    DiscreteIsRegister
CHECK_DEADLOCK FALSE
