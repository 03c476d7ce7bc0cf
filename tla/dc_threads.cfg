SPECIFICATION ReportsSpec
CONSTANTS
  Calls = {"add_nk", "set_nb_thread", "compute"}
  NbBuses = 3
  Branches <- Lines
  Ends <- LineEnds
  Live <- Standing
  Injections = {0, 1}
  NoInjection = None
  Targets = {0, 1}
  Kinds = {"ContingencyAnalysis"}
  Families = {"DC"}
  MaxThreads = 2
  InjectionRows <- SomeInjections
  TargetRows <- SomeTargets
  MaskRows <- SomeMasks
  ListOrder <- SomeList
  Thresholds = {1}
  GridInjection = 0
  GridTarget = 0
  Slacks <- OneSlack
  SlackWeight <- EqualWeights
INVARIANTS
  NeverCrashes
