SPECIFICATION FairSpec
CONSTANTS
    Exceptions = {1}
    MaxDepth = 4
    InitCap = 16
    MaxInterrupts = 1
PROPERTIES InterruptStops
