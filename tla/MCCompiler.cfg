CONSTANTS
    Programs <- MCPrograms
    Meaning <- MeaningOf
    MaxEvents = 10
SPECIFICATION Spec
INVARIANTS StacksRestored Evaluates
