SPECIFICATION Spec
CONSTANTS
    Lines <- MCLines
    MaxLines = 4
    UIntSize = 67108864
INVARIANTS
    TypeOK
    SettingIsItsLastLine
    SectionsHold
    EverySignalHasOnePlace
    CrashNeedsShortLine
CHECK_DEADLOCK FALSE
