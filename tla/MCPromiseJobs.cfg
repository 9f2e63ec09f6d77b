SPECIFICATION FairSpec
CONSTANTS
    MaxPromises = 3
    MaxThenables = 1
    MaxReactions = 1
    MaxFrames = 4
    MaxInterrupts = 1
    HandlerPairs <- MCHandlers
INVARIANTS
    Consistent
    ReactionRunsOnce
    TrackerAgrees
    NoJobLeftBehind
    ProgramDrainsAlone
PROPERTIES
    SettledForever
    JobsRun
    CallsReturn
