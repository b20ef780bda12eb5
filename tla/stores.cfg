SPECIFICATION McSpec
CONSTANTS
    p1 = p1
    p2 = p2
    w1 = w1
    w2 = w2
    w3 = w3
    r1 = r1
    r2 = r2
    None = None
    Torn = Torn
    Procs = {p1}
    Writers = {w1, w2, w3}
    Readers = {r1}
    Home <- JsonHome
    Servers = {p1, p2}
    StartsAfter <- ApiFirst
    PgWriters = {w1, w3}
    PgReaders = {r2}
    Drills = {r2}
    PgHome <- TwoHomes
    NTables = 2
    Default = Default
    Nobody = Nobody
    Script = Script
    NMigrations = 3
    MaxStarts = 2
INVARIANTS
    ReadsForward
    ServesWholeSchema
PROPERTIES
    JsonImplementsStore
    CallsSettle
    PgImplementsStore
CHECK_DEADLOCK FALSE
