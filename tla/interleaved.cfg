SPECIFICATION Spec
CONSTANTS
  NTasks = 3
  NeedsApproval = {2}
  Procs = {"api", "runner"}
  Runners = {"runner"}
  Threads = {"client", "r1", "r2"}
  Home <- MCHome
  RunnerId <- MCRunnerId
  Env = {"decide", "pause", "cancel", "task_error", "provider_invalid"}
  Overlap = TRUE
  Fragile = {"runner"}
  MaxApprovals = 2
  MaxQuestions = 1
  MaxCrashes = 0
INVARIANTS
  CompletedIsWhole
PROPERTIES
  DoneOnce
CHECK_DEADLOCK FALSE
