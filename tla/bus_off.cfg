SPECIFICATION SlackSpec
CONSTANTS
  Calls = {"ac_pf", "deactivate_bus"}
  Families = {"AC"}
  Buses = {0, 1}
  Loads = {l1}
  Gens = {0}
  Branches = {}
  Shunts = {}
  Trafos = {}
  Regulating = {0}
  Levels = {0, 1}
  SlackWeights = {1}
  Ratios = {1}
  Shifts = {0}
  SynchSides = {}
  IgnoreGlobal = {}
  Bases = {1}
INVARIANTS
  DeactivatedBusIsRefused
