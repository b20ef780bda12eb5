SPECIFICATION McSpec
CONSTANTS
    a1 = a1
    a2 = a2
    w1 = w1
    e1 = e1
    t1 = t1
    t2 = t2
    c1 = c1
    c2 = c2
    MaxTurns = 2
    Tools = {"search_artifacts", "propose_spec_correction", "write_file"}
    MaxCalls = 2
    MaxCrashes = 1
    Lists <- DriftedLists
    None = None
    Corrections = {a1, a2}
    Sound = {a1}
    MayCrash = TRUE
    Requests = {t1, t2}
    Writes = {w1}
    Edits = {e1}
    MaxEdits = 1
    MaxExecutions = 2
    Chats = {c1, c2}
    AutoApprove = FALSE
    MaxSteps = 2
    MaxIterations = 2
    MaxAsked = 1
INVARIANTS
    AnswersItsTurn
    OnlyReadsDone
    CorrectionsWhole
    CopyIsOwn
    ActsAllowed
PROPERTIES
    LoopEnds
CHECK_DEADLOCK FALSE
