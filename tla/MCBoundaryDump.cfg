CONSTANTS A = A  B = B  C = C
CONSTANTS Types = {A, B, C}  Programs <- LinkInPlace  NullDepth = 4
SPECIFICATION Spec
INVARIANT DiesOfTargetOnly
CHECK_DEADLOCK FALSE
