SPECIFICATION SplitSpec
CONSTANTS
    Funcs = {f1, f2}
    Externals = {}
    Graphs <- MCGraphs
    InteractiveFix = FALSE
INVARIANT FailureSceneIsThere
CHECK_DEADLOCK FALSE
