SPECIFICATION SplitSpec
CONSTANTS
    Funcs = {f1, f2, f3}
    Externals = {}
    Graphs <- MCShapes
    InteractiveFix = FALSE
PROPERTY EventuallyJudged
CHECK_DEADLOCK FALSE
