SPECIFICATION Spec
CONSTANTS
    Exceptions = {1}
    MaxDepth = 5
    InitCap = 0
    MaxInterrupts = 0
INVARIANTS PendingKept
