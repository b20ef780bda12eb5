SPECIFICATION McSpec
CONSTANTS
    m1 = m1
    m2 = m2
    m3 = m3
    Msgs = {m1, m2, m3}
    Overlap = FALSE
    MayCrash = TRUE
    MaxThreads = 2
    MaxPlans = 1
    MaxRuns = 2
SYMMETRY Symmetry
VIEW View
INVARIANTS
    OneRunPerRequest
    QuestionHoldsRequest
    SessionWaitsForCause
    RerunKeepsAnswers
CHECK_DEADLOCK FALSE
