SPECIFICATION FreshSpec
CONSTANTS
    h1 = h1
    h2 = h2
    m1 = m1
    HoldIds = {h1, h2}
    Matters = {m1}
    MatterOf <- OneMatter
    NoHold = NoHold
    Workers = {w1, w2}
    MaxDay = 2
    MaxFailures = 0
INVARIANTS
    OneHoldPerMatter
