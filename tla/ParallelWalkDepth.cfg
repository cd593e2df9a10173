CONSTANTS
    Worker = {w1, w2}
    NoEntry = NoEntry
    Capacity = 1
    Path <- NestedPath
    Roots <- NestedRoots
    Tree <- NestedTree
    Gitignore <- NestedGitignore
    MaxDepth = 0
    MaxDirEntries <- NoLimit
SPECIFICATION Spec
INVARIANT
    NothingLostWithinDepth
