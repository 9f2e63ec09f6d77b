SPECIFICATION MCSpec
CONSTANTS
  Objects = {1, 2, 3}
  Calls <- MCCalls
  Tables <- MCTables
  Loops = 2
  MaxCalls = 4
  Everything = FALSE
  PropNames = {1}
  Vals = {1, 2}
  Protos = {0, 1}
  Shapes <- MCShapes
  AnyResult = FALSE
  Defs <- MCDefs
  Bases <- MCBases
  MaxOps = 2
  MaxChanges = 2
INVARIANTS
  TableConsistent
  NeverContradicted
PROPERTY ImplementsObjects
CHECK_DEADLOCK FALSE
