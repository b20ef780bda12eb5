SPECIFICATION McSpec
SYMMETRY Alike
VIEW View
CONSTANTS
  Roots <- MCRoots
  Tools = {"delegate_to_child", "propose_spec_correction"}
  OrgTiers = {"advisor", "autopilot"}
  Keys = {1}
  Procs = {"api"}
  c1 = c1
  c2 = c2
  Threads = {c1, c2}
  Home <- MCHome
  Store = "json"
  Cap = 1
  Env = {"set_tier", "decide", "request", "lapse", "tool_error", "late_error", "crash"}
  MaxProposals = 2
  MaxApprovals = 2
  MaxRuns = 2
  MaxCrashes = 1
INVARIANTS
  ActsAuthorised
  OneActPerApproval
  OneExecution
  ExecutingIsDriven
  OneWaitsPerKey
PROPERTIES
  CompletedNotBegun
CHECK_DEADLOCK FALSE
