SPECIFICATION FairFreshSpec
CONSTANTS
    MaxRetries = 1
    TicksPerTimeout = 1
    MaxTick = 3
    MaxPlc = 2
    MaxAnswers = 2
INVARIANTS
    TypeOK
PROPERTIES
    OutcomeIsFinal
    LinkLossIsFinal
    ImplementsSignalCache
    EveryRequestEnds
    ReadComesToSomething
