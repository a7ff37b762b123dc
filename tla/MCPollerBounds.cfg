SPECIFICATION FreshSpec
CONSTANTS
    MaxRetries = 1
    TicksPerTimeout = 1
    MaxTick = 5
    MaxPlc = 2
    MaxAnswers = 1
INVARIANTS
    OutstandingBounded
    StaleHasAnError
    DecodedIsRecent
