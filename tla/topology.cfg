SPECIFICATION SceneSpec
CONSTANTS
  l1 = l1
  b1 = b1
  t1 = t1
  Scenes = {"line", "trafo", "slack"}
  Calls = {"ac_pf", "dc_pf", "check_solution", "update_topo", "consider_only_main_component",
           "update_slack_weights",
           "deactivate_branch", "reactivate_branch"}
  Families = {"AC", "DC"}
  Buses = {0, 1, 2, 3}
  Loads = {l1}
  Gens = {0, 1}
  Branches = {b1, t1}
  Shunts = {}
  Trafos = {t1}
  Regulating = {0}
  Levels = {0, 1}
  SlackWeights = {1}
  Ratios = {1}
  Shifts = {0, 1}
  SynchSides = {t1}
  IgnoreGlobal = {}
  Bases = {1}
  NbSub = 2
  NbBusbars = 2
  Substation <- MCSubstation
  Requests <- MCRequests
INVARIANTS
  TopologyTypeOK
  FlagsSufficeOrCut
  BranchesAreWhole
  SlackSharesCurrent
PROPERTIES
  OneIsland
