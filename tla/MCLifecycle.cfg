SPECIFICATION Spec
CONSTANTS
    Docs = {d1, d2, d3}
    Types = {supersede, correct}
    Workers = {w1, w2}
    NoDoc = NoDoc
SYMMETRY Symmetry
INVARIANTS
    Acyclic
    HistoryAgrees
    AnswersHold
    WalkFollowsHistory
    EventsExplainCurrent
PROPERTIES
    PurgedNeverLinked
