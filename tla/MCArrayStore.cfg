CONSTANTS
 Values = {1}
 Literals <- MCLiterals
 Calls <- MCCalls
 Questions <- MCQuestions
 Walks = {"map", "filter", "values", "findLast"}
 SparseFrom = 2
 SparseRatio = 1
 DenseFrom = 2
 DenseRatio = 2
 ReallocFrom = 1
 ReallocRatio = 4
 MaxCalls = 3
 Everything = FALSE
SPECIFICATION Spec
INVARIANTS ShortcutsSound
PROPERTY ImplementsArray
CHECK_DEADLOCK FALSE
