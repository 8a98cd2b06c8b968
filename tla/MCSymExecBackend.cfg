SPECIFICATION BackendFairSpec
CONSTANTS
    Fns = {f1, f2}
    MaxJobs = 2
INVARIANT BackendTypeOK OwnOffsets KleesBounded EqualRowsAreCompiled RowsMatchGraphs ResultMeansComplete
PROPERTY BackendEnds
CHECK_DEADLOCK FALSE
