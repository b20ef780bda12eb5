SPECIFICATION McSpec
CONSTANTS
    None = None
    Updates = {c1, c2}
    MayReopen = TRUE
    MaxIncidents = 2
    MaxChanges = 3
    MaxMoves = 1
    Local = {a1, a2}
    Remote = {b1}
    MaxConnects = 2
    MaxChecks = 2
    Handlers = {h1, h2}
    Entries = {f1, f2}
    MaxVersion = 1
    MaxSyncs = 2
    Requests = {q1, q2}
    Users = {u1, u2}
    Names = {"ann"}
    MaxCalls = 5
    Procs = {p1, p2}
    Versions = {"v1", "v2"}
    Thresholds <- TwoVersions
    Measured = {"routing", "clarification"}
    MaxEvals = 2
    s1 = s1
    s2 = s2
    s3 = s3
    Specialists = {s1, s2, s3}
    Label <- TwoNames
    Careful = {s1, s2}
    MaxRuns = 2
INVARIANTS
    IncidentTellsRun
    ParentHearsEnds
    StreamComplete
    ReadyIsWhole
    CatalogHonest
    WorkspaceSound
    GateHonest
    PlanKept
SYMMETRY Alike
CHECK_DEADLOCK FALSE
