CONSTANTS
    Win = {w1, w2, w3}
    NoWin = NoWin
    Profiles = {"tiling", "heights", "covering", "gestures", "stacking", "resizing", "mixed"}
    MaxWins <- MCMaxWins
    FeaturesOf <- MCFeatures
SPECIFICATION WsSpec
SYMMETRY WinSymmetry
INVARIANTS
    FocusWellDefined
    ColumnsWellFormed
    DialogsAboveParents
PROPERTIES
    FocusKept
