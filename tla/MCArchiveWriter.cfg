SPECIFICATION Spec
CONSTANTS
    DocIds = {d1, d2, d3}
    RequestIds = {q1, q2}
    References = {f1, f2}
    Contents = {c1, c2, c3}
    Malformed = {c3}
    Sums <- OwnSums
    Sum <- OwnSum
    Requests <- SomeRequests
    Workers = {w1, w2}
    None = None
    Faults = {"put", "save", "delete", "crash"}
    MaxFaults = 1
SYMMETRY Symmetry
INVARIANTS
    BytesBehindRows
    OneDocumentPerRequest
    AnswersAreHeld
    OrphansAreAccounted
