SPECIFICATION FairSpec
CONSTANTS
  NTasks = 2
  NeedsApproval = {2}
  Procs = {"api", "runner"}
  Runners = {"runner"}
  Threads = {"client", "r1"}
  Home <- MCHome
  RunnerId <- MCRunnerId
  Env = {"decide"}
  Overlap = TRUE
  Fragile = {"runner"}
  MaxApprovals = 2
  MaxQuestions = 1
  MaxCrashes = 0
PROPERTIES
  ApprovedProceeds
CHECK_DEADLOCK FALSE
