SPECIFICATION FairSpec
CONSTANTS
    grid = grid
    plugin = plugin
    lines = lines
    bare = bare
    Missing = Missing
    Unsure = Unsure
    Loaders = {bare}
    Objects = {grid, plugin, lines}
    Tag <- TagOf
    NbParts <- PartsOf
    Sound <- SoundOnes
    Algorithm <- Solver
    Format = 2
    Supported <- Reads
    Registered <- Knows
    Found <- FoundFiles
    Atomic = {TRUE, FALSE}
INVARIANTS TypeOK
PROPERTIES KeepsArchivePromise CallsEnd
CHECK_DEADLOCK FALSE
