SPECIFICATION Spec
CONSTANTS
    Funcs = {f1, f2}
    Externals = {}
    Graphs <- MCGraphs
    InteractiveFix = TRUE
INVARIANT HandFixReachesMerged
CHECK_DEADLOCK FALSE
