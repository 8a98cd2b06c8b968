SPECIFICATION RunEvalSpec
CONSTANTS
    Ids = {i1, i2}
    MaxRounds = 3
SYMMETRY MCSymmetry
INVARIANT RunEvalTypeOK StaleOnlyIfNothingMade ScoredPassedGates
CHECK_DEADLOCK FALSE
