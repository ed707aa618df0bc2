SPECIFICATION FairDamagedSpec
CONSTANTS
    Docs = {d1, d2}
    Types = {supersede}
    Workers = {w1, w2}
    NoDoc = NoDoc
PROPERTIES
    RecordedOnce
    WalksEnd
