SPECIFICATION Spec
CONSTANTS
    Funcs = {1, 2, 3, 4}
    Externals = {x1}
    Graphs <- MCGraphs
INVARIANT TypeOK StackReachesOpenFrame
PROPERTY ImplementsSccOrder
CHECK_DEADLOCK FALSE
