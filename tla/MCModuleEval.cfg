SPECIFICATION FairSpec
CONSTANTS
  Modules = {1, 2, 3}
  Graphs <- MCGraphs
  MaxEvaluations = 3
  MaxThrows = 2
INVARIANT Consistent
INVARIANT PendingExact
INVARIANT ExecutesOnce
INVARIANT DependenciesFirst
INVARIANT FulfilledMeansDone
PROPERTY EvaluateSettles
CHECK_DEADLOCK FALSE
