SPECIFICATION Spec
CONSTANTS
    Configurations <- OnlyDeployed
    Images <- MCImages
    MaxReplies = 2
INVARIANTS
    AnalogIsRegister
CHECK_DEADLOCK FALSE
