SPECIFICATION Spec
SYMMETRY Alike
CONSTANTS
  Roots <- MCRoots
  Tools = {"delegate_to_child"}
  OrgTiers = {"advisor", "autopilot"}
  Keys = {1, 2}
  Procs = {"api"}
  c1 = c1
  c2 = c2
  Threads = {c1, c2}
  Home <- MCHome
  Store = "json"
  Cap = 1
  Env = {"set_tier"}
  MaxProposals = 3
  MaxApprovals = 4
  MaxRuns = 4
  MaxCrashes = 0
INVARIANTS
  CapHeld
CHECK_DEADLOCK FALSE
