SPECIFICATION Spec
CONSTANTS
  NTasks = 3
  NeedsApproval = {2}
  Procs = {"api", "runner"}
  Runners = {"runner"}
  Threads = {"client", "r1", "r2"}
  Home <- MCHome
  RunnerId <- MCRunnerId
  Env = {"pause", "cancel", "decide", "report_failure", "task_error", "provider_invalid", "crash"}
  Overlap = FALSE
  Fragile = {"runner"}
  MaxApprovals = 2
  MaxQuestions = 1
  MaxCrashes = 2
INVARIANTS
  StillDriven
CHECK_DEADLOCK FALSE
