SPECIFICATION FairSpec
CONSTANTS
    DocIds = {d1, d2, d3, d4}
    RequestIds = {q1}
    References = {}
    Contents = {c1}
    Malformed = {}
    Sums <- OwnSums
    Sum <- OwnSum
    Requests <- SomeRequests
    Workers = {w1, w2}
    None = None
    Faults = {"put", "save", "commit_ack", "delete", "crash"}
    MaxFaults = 2
PROPERTIES
    RequestsConverge
