SPECIFICATION Spec
CONSTANTS
    Configurations <- MCConfigurations
    Images <- MCImages
    MaxReplies = 3
INVARIANTS
    AnalogsKeepFirstReply
    IntegersAreLatest
    OnlyLastWordIsRead
    QualityIsLatestOrGood
CHECK_DEADLOCK FALSE
