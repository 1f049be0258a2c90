CONSTANTS
    SyNone = SyNone
    SyOutputs = {"o1", "o2"}
    SyManagers = {"m1"}
    SyFrames = {"f1", "f2"}
SPECIFICATION SySpec
INVARIANTS
    ReadyHasItsPicture
CHECK_DEADLOCK FALSE
