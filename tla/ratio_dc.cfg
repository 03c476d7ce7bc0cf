SPECIFICATION SlackSpec
CONSTANTS
  Calls = {"dc_pf", "change_ratio_trafo", "change_shift_trafo"}
  Families = {"DC"}
  Buses = {0, 1}
  Loads = {}
  Gens = {0}
  Branches = {t1}
  Shunts = {}
  Trafos = {t1}
  Regulating = {0}
  Levels = {0, 1}
  SlackWeights = {1}
  Ratios = {1, 2}
  Shifts = {0, 1}
  SynchSides = {}
  IgnoreGlobal = {}
  Bases = {1}
INVARIANTS
  AnswerIsCurrent
