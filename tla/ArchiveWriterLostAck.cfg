SPECIFICATION Spec
CONSTANTS
    DocIds = {d1, d2, d3}
    RequestIds = {q1}
    References = {}
    Contents = {c1}
    Malformed = {}
    Sums <- OwnSums
    Sum <- OwnSum
    Requests <- SomeRequests
    Workers = {w1, w2}
    None = None
    Faults = {"commit_ack"}
    MaxFaults = 1
SYMMETRY Symmetry
INVARIANTS
    BytesBehindRows
