SPECIFICATION FairSpec
CONSTANTS
    v1 = v1  v2 = v2
    VMs = {v1, v2}
    MaxTrackers = 3
    MaxSessions = 2
INVARIANTS Consistent FramesNotTorn SamplesInOwnProfile
PROPERTIES RunnerEnds StopEnds
