SPECIFICATION Spec
CONSTANTS
    Sessions <- MCSessions
    MaxFrames = 2
    Threads = 2
    FilterRows = 2
    Lengths = {}
    Sizes = {}
INVARIANTS
    EveryRowOnce
    FrameAsReference
    LooksKept
    ControlsFollowGroups
    TypeOK
CHECK_DEADLOCK FALSE
