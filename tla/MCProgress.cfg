CONSTANTS
    Outputs = {o1, o2}
    Lockers = {l1}
    None = None
    RenderResults = {"Submitted", "Skipped"}
    FrameTicks = 3
    RqClients = {c1, c2}
    NoClient = NoClient
    FrSurfaces = {s1}
    FrSeqMax = 2
    FrProfiles <- MCFr
SPECIFICATION PgSpec
PROPERTIES
    LockRequestAnswered
    RedrawPassEnds
    ChangesFlushed
    RequestAnswered
    ActionBeforeReply
    CallbackEventually
CHECK_DEADLOCK FALSE
