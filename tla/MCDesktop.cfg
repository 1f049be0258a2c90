CONSTANTS
    w1 = w1
    w2 = w2
    w3 = w3
    MrWin = {w1, w2, w3}
    NoWin = NoWin
    MrApp <- MCApp
    MrProfiles <- MCMr
    KbProfiles <- MCKb
    KbUiMax = 1
    KbHeldMax = 2
    FcProfiles <- MCFc
    FcNone = "none"
    AcColsMax = 2
    AcWarp = {TRUE}
    AcNone = AcNone
    SsProfiles <- MCSs
    SsNone = SsNone
    GsProfiles <- MCGs
    GsNone = GsNone
    PtProfiles <- MCPt
    PtNone = PtNone
    PtTick = 3
    PtSumMax = 8
    TlProfiles <- MCTl
    TlNone = TlNone
    TlOutputs = {"a", "b"}
    TlWindows = {"p", "d"}
SPECIFICATION Spec
VIEW DeskView
INVARIANTS
    SelectionShown
    ReleaseFollowsPress
    
    NoOrphanGesture
    ContentsSettle
    OpensAsAsked
PROPERTIES
    RefreshSettles
    CursorFollowsFocus
CHECK_DEADLOCK FALSE
