SPECIFICATION FairSpec
CONSTANTS
    Writers = {w1, w2}
    Limit = 2
    MaxEvents = 4
    MaxReads = 10
    MaxReplays = 2
CHECK_DEADLOCK FALSE
INVARIANTS
    EndIsTheEnd
    ReplayComplete
PROPERTIES
    PagerEnds
