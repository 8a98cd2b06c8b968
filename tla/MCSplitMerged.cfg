SPECIFICATION SplitSpec
CONSTANTS
    Funcs = {f1, f2, f3}
    Externals = {}
    Graphs <- MCGraphs
    InteractiveFix = TRUE
SYMMETRY MCSymmetry
INVARIANT TypeOK IncomingIsExact NothingLeftOver AcceptedKeepsItsCallees ClosureIsReachability AcceptedFileHasItsFunction OnlyGroupsBreakContract UnfinishedIsRefused
PROPERTY ImplementsUnitOrder
CHECK_DEADLOCK FALSE
