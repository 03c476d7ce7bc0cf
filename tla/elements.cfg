SPECIFICATION FocusSpec
CONSTANTS
  Calls = {"ac_pf", "dc_pf", "deactivate_load", "reactivate_load", "change_bus_load",
           "change_p_load", "change_bus_gen", "change_p_gen", "turnedoff_pv",
           "deactivate_branch", "reactivate_branch", "deactivate_side",
           "reactivate_side", "change_bus_branch", "change_ratio_trafo",
           "change_shift_trafo", "deactivate_shunt", "reactivate_shunt",
           "change_bus_shunt", "change_p_shunt", "change_q_shunt"}
  Families = {"AC", "DC"}
  Buses = {0, 1}
  Loads = {l1}
  Gens = {0}
  Branches = {b1, t1}
  Shunts = {s1}
  Trafos = {t1}
  Regulating = {0}
  Levels = {0, 1}
  SlackWeights = {1}
  Ratios = {1, 2}
  Shifts = {0, 1}
  SynchSides = {t1}
  IgnoreGlobal = {}
  Bases = {1}
INVARIANTS
  TypeOK
  FlagsSuffice
  ReuseIsInvisible
  StatusConsistent
