SPECIFICATION SlackSpec
CONSTANTS
  Calls = {"ac_pf", "check_solution", "deactivate_load", "change_p_load", "deactivate_bus",
           "reactivate_bus", "allow_cache_reuse", "unset_changes",
           "assign_slack_to_most_connected", "assign_slack_without_producer"}
  Families = {"AC"}
  Buses = {0, 1}
  Loads = {l1}
  Gens = {0}
  Branches = {}
  Shunts = {}
  Trafos = {}
  Regulating = {0}
  Levels = {0, 1}
  SlackWeights = {1}
  Ratios = {1}
  Shifts = {0}
  SynchSides = {}
  IgnoreGlobal = {}
  Bases = {1}
INVARIANTS
  SizesAgree
