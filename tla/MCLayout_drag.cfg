CONSTANTS
    None = None
    o1 = o1
    o2 = o2
    w1 = w1
    w2 = w2
    n1 = n1
    n2 = n2
    Outputs = {o1, o2}
    Windows = {w1, w2}
    Names = {}
    AboveValues = {FALSE, TRUE}
    NamingRefs = {"active"}
    MaxWorkspaces = 5
    Setups = {"everything", "across"}
SPECIFICATION SetupSpec
SYMMETRY Symmetry
VIEW CanonView
INVARIANTS
    MonitorWellFormed
    WindowsConserved
    DndScrollOnlyWhileDragging
PROPERTIES
    FocusStable
