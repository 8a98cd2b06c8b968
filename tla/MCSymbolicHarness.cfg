CONSTANTS A = A  B = B  C = C
CONSTANTS Types = {A, B, C}  Programs <- MCPrograms  NullDepth = 2
SPECIFICATION Spec
INVARIANTS TypeOK ChainsAreCut WalksAreBalanced NoLoosePointer WalksAgree LeavesHaveBuffers
PROPERTIES KeepsLeafContract HarnessEnds
CHECK_DEADLOCK FALSE
