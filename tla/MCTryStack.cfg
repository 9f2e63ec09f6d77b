SPECIFICATION Spec
CONSTANTS
    Exceptions = {1}
    MaxDepth = 5
    InitCap = 16
    MaxInterrupts = 0
INVARIANTS Consistent PendingKept
PROPERTIES NoHandlerSkipped UnwindingClosesAll
