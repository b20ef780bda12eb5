SPECIFICATION Spec
CONSTANTS
  NTasks = 2
  NeedsApproval = {2}
  Procs = {"api", "runner"}
  Runners = {"runner"}
  Threads = {"client", "r1", "r2"}
  Home <- MCHome
  RunnerId <- MCRunnerId
  Env = {"crash", "shutdown", "decide", "pause", "cancel", "task_error", "provider_invalid"}
  Overlap = TRUE
  Fragile = {"runner"}
  MaxApprovals = 2
  MaxQuestions = 1
  MaxCrashes = 1
INVARIANTS
  SingleExecution
CHECK_DEADLOCK FALSE
