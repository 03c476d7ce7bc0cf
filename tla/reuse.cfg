SPECIFICATION SceneSpec
CONSTANTS
  Scenes = {"slack", "regulation", "families", "check"}
  Calls = {"ac_pf", "dc_pf", "check_solution", "deactivate_load", "reactivate_load",
           "change_bus_load", "deactivate_gen", "reactivate_gen", "change_bus_gen",
           "change_p_gen", "set_gen_regulated_bus", "add_gen_slackbus",
           "remove_gen_slackbus", "set_reference_slack_bus",
           "assign_slack_to_most_connected", "change_algorithm", "copy", "set_sn_mva",
           "allow_cache_reuse", "prevent_cache_reuse", "tell_changed"}
  Families = {"AC", "DC"}
  Buses = {0, 1}
  Loads = {l1}
  Gens = {0, 1}
  Branches = {}
  Shunts = {}
  Trafos = {}
  Regulating = {0, 1}
  Levels = {0, 1}
  SlackWeights = {1}
  Ratios = {1}
  Shifts = {0}
  SynchSides = {}
  IgnoreGlobal = {}
  Bases = {1, 2}
INVARIANTS
  FlagsSuffice
  AnswerIsCurrent
PROPERTIES
  KeepsPromise
  FlagsOutliveFailures
  ResetIsTold
