CONSTANTS
    Outputs = {o1, o2}
    Lockers = {l1, l2}
    None = None
    RenderResults = {"Submitted", "NoDamage", "Skipped"}
    Windows = {w1, w2}
    Txns = {t1, t2}
    NoTxn = NoTxn
    MaxPending = 2
    MaxQueue = 1
SPECIFICATION SfSpec
SYMMETRY SfSymmetry
INVARIANTS
    LockedOnlyWhenBlanked
    BlockedHasDeadline
PROPERTIES
    OnlyHolderUnlocks
    ResizedTogether
