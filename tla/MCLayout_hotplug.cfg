CONSTANTS
    None = None
    o1 = o1
    o2 = o2
    w1 = w1
    w2 = w2
    n1 = n1
    n2 = n2
    Outputs = {o1, o2}
    Windows = {w1}
    Names = {n1, n2}
    AboveValues = {FALSE, TRUE}
    NamingRefs = {"active"}
    MaxWorkspaces = 4
    Setups = {"hotplug", "above"}
SPECIFICATION SetupSpec
SYMMETRY Symmetry
VIEW CanonView
INVARIANTS
    MonitorWellFormed
    WorkspacesAtHome
    ReconnectRestores
PROPERTIES
    FocusStable
