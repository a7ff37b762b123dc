SPECIFICATION Spec
CONSTANTS
    MaxRetries = 1
    TicksPerTimeout = 1
    MaxTick = 3
    MaxPlc = 1
    MaxAnswers = 1
INVARIANTS
    ErrorsAreLogged
