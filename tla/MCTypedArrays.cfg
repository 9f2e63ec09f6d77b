CONSTANTS
 Pairs <- MCPairs
 Starts <- MCStarts
 BufferLen = 8
 MaxUses = 2
 Everything = FALSE
SPECIFICATION Spec
INVARIANTS AccessesInBounds Delivers
CHECK_DEADLOCK FALSE
