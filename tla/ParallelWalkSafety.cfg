CONSTANTS
    Worker = {w1, w2, w3}
    NoEntry = NoEntry
    Capacity = 1
    Path <- LoopPath
    Roots <- LoopRoots
    Tree <- LoopTree
    Gitignore <- LoopGitignore
    MaxDepth <- NoLimit
    MaxDirEntries <- NoLimit
SPECIFICATION Spec
SYMMETRY Workers
INVARIANTS
    TypeOK
    ActiveCountsHolders
    NoLostWakeup
    QuitOnlyWhenDone
    EachFileOnce
    OneWorkerPerDirectory
