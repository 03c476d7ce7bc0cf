SPECIFICATION SoundSpec
CONSTANTS
  Calls = {"modify_gen_p", "modify_gen_v", "set_contingency_lines", "add_nk", "remove_nk",
           "is_grid_connected_after_contingency", "pick_reference_slack", "clear", "change_algorithm", "set_nb_thread", "set_handle_disconnected_grid",
           "set_compute_limit_violations", "set_violation_threshold", "compute", "compute_flows"}
  NbBuses = 3
  Branches <- Lines
  Ends <- LineEnds
  Live <- Standing
  Injections = {0, 1}
  NoInjection = None
  Targets = {0, 1}
  Kinds = {"TimeSeries", "InjectionSweep", "ContingencyAnalysis", "ScenarioSweep"}
  Families = {"NR", "FD", "DC"}
  MaxThreads = 2
  InjectionRows <- SomeInjections
  TargetRows <- SomeTargets
  MaskRows <- SomeMasks
  ListOrder <- SomeList
  Thresholds = {1, 2}
  GridInjection = 0
  GridTarget = 0
  Slacks <- OneSlack
  SlackWeight <- EqualWeights
INVARIANTS
  ReportsTypeOK
  CountsAgree
  FlowsMatchInputs
  ReportsTellRows
  EveryRowIsTold
PROPERTIES
  KeepsSweepPromise
  ComputeReturns
