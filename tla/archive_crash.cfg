SPECIFICATION Spec
CONSTANTS
    grid = grid
    plugin = plugin
    lines = lines
    bare = bare
    Missing = Missing
    Unsure = Unsure
    Loaders = {bare}
    Objects = {grid, plugin, lines}
    Tag <- TagOf
    NbParts <- PartsOf
    Sound <- SoundOnes
    Algorithm <- Solver
    Format = 2
    Supported <- Reads
    Registered <- Knows
    Found <- GoodFile
    Atomic = {TRUE}
INVARIANTS GoodFileSurvives
