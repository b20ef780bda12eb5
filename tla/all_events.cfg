SPECIFICATION Spec
CONSTANTS
  NTasks = 1
  NeedsApproval = {1}
  Procs = {"api", "runner"}
  Runners = {"runner"}
  Threads = {"client", "r1"}
  Home <- MCHome
  RunnerId <- MCRunnerId
  Env = {"pause", "resume", "cancel", "decide", "redecide", "report_failure", "ask_user", "resolve", "reply", "propose", "expire", "provider_invalid", "provider_throw", "task_error", "crash", "shutdown"}
  Overlap = FALSE
  Fragile = {"runner"}
  MaxApprovals = 2
  MaxQuestions = 1
  MaxCrashes = 1
INVARIANTS
  ApprovalGate
PROPERTIES
  JobFollowsTable
CHECK_DEADLOCK FALSE
