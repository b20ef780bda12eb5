SPECIFICATION FairSpec
CONSTANTS
  NTasks = 4
  NeedsApproval = {2, 4}
  Procs = {"api", "runner"}
  Runners = {"runner"}
  Threads = {"client", "r1", "r2"}
  Home <- MCHome
  RunnerId <- MCRunnerId
  Env = {"pause", "decide", "task_error", "provider_invalid"}
  Overlap = FALSE
  Fragile = {"runner"}
  MaxApprovals = 2
  MaxQuestions = 1
  MaxCrashes = 0
INVARIANTS
  TypeOK
  NothingStranded
PROPERTIES
  StatusKept
  Settles
  ApprovedProceeds
CHECK_DEADLOCK FALSE
