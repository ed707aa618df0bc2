SPECIFICATION Spec
CONSTANTS
    h1 = h1
    h2 = h2
    t1 = t1
    t2 = t2
    HoldIds = {h1, h2}
    MaxDay = 1
    Docs = {1, 2}
    HoldDoc <- FirstDoc
    Txns = {t1, t2}
    NoTxn = NoTxn
SYMMETRY Symmetry
INVARIANTS
    RepairHolds
    NoDeadlock
PROPERTIES
    CallsAreAtomic
