SPECIFICATION RunEvalSpec
CONSTANTS
    Ids = {i1, i2}
    MaxRounds = 2
INVARIANT MetricsOfOwnTranslation
CHECK_DEADLOCK FALSE
