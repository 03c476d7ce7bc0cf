SPECIFICATION SceneSpec
CONSTANTS
  h1 = h1
  s1 = s1
  Scenes = {"gens", "twins", "slack", "svc", "hvdc", "station", "island", "algos"}
  MaxChanges = 2
  Buses = {1, 2, 3}
  Gens = {1, 2, 3}
  SlackGens = {1, 3}
  Svcs = {s1}
  Hvdc = {h1}
  Vsc <- MCVsc
  Wires <- MCWires
  LineEnds <- MCLineEnds
  Voltages = {1, 2}
  Powers = {0, 1}
  Regimes = {0, 1}
INVARIANTS
  AcTypeOK
  IteratesOnCurrent
  WellPosed
  SingularIffChoked
  JudgesCurrent
  RefusalIsDeserved
  ResultsBalance
  SolvesWithCurrent
  NeverDroopHalfOpen
