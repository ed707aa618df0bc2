SPECIFICATION Spec
CONSTANTS
    DocIds = {d1, d2, d3}
    Scopes = {s1, s2}
    NoScope = NoScope
    None = None
    MaxBatch = 2
    Adapters = {"postgresql", "mapping"}
SYMMETRY Symmetry
INVARIANTS
    RecordedBeforeAnswer
    ExistenceHidden
    EventsAreTrue
    PurgedStaysRefused
