SPECIFICATION Spec
CONSTANTS
    Types = {t1, t2, t3}
    Kinds = {"typedef", "struct", "static"}
    TypeDeps <- MCTypeDeps
INVARIANT TypesOK CascadeCutsNothing
PROPERTY ImplementsTypeOrder
CHECK_DEADLOCK FALSE
