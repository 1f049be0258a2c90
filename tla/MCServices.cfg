CONSTANTS
    EsClients = {c1, c2}
    EsCap = 7
    EsStates <- MCEsStates
    EsProfiles = {"workspaces", "windows", "one", "two"}
    EsSteps <- MCEsSteps
    EsStreams <- MCEsStreams
    TyNone = "none"
    TyProfiles <- MCTy
    CaNone = CaNone
    CaSizes = {1, 2}
    CaBufs = {"b1", "b2"}
    CaMin = 1
    CaSeqMax = 2
    CaOfferMax = 2
    CaAskMax = 2
    CaProfiles <- MCCa
    CnNothing = "nothing"
    CnOutputs = {"output"}
    CnWindows = {"window"}
    CnDynamic = "dynamic"
    CnStreamMax = 2
    CnStartMax = 2
    CnDynMax = 1
    OmNone = OmNone
    OmOutputs = {"a", "b"}
    OmConfs = {"c"}
    OmSerialMax = 3
    OmProfiles <- MCOm
    EwNone = EwNone
    EwOutputs = {"a", "b"}
    EwWs = {1, 2, 3}
    EwProfiles <- MCEw
    FrSurfaces = {"s"}
    FrSeqMax = 3
    FrProfiles <- MCFr
    SyNone = SyNone
    SyOutputs = {"o1", "o2"}
    SyManagers = {"m1", "m2"}
    SyFrames = {"f1", "f2"}
SPECIFICATION SvSpec
INVARIANTS
    LitOrQueued
    
    EventsApply
    CastTargetsExist
    
    ViewMirrorsLayout
    
PROPERTIES
    ImplementsMirror
    FramesInOrder
    ActivatedIsActive
CHECK_DEADLOCK FALSE
