SPECIFICATION Spec
CONSTANTS
    IdemKeys = {k1}
    Inputs = {f1, f2, f3}
    Foreign = {f3}
    Workers = {w1, w2}
    Hosts = {h1, h2}
    None = None
    MaxKey = 2
    MaxTime = 1
    TTL = 1
SYMMETRY Symmetry
INVARIANTS
    AnswersFromLedger
    DisposalIsReal
    DecisionsVerify
PROPERTIES
    RevokedKeySignsNothing
