CONSTANTS
    Worker = {w1, w2}
    NoEntry = NoEntry
    Capacity = 1
    Path <- MixedPath
    Roots <- MixedRoots
    Tree <- MixedTree
    Gitignore <- MixedGitignore
    MaxDepth <- NoLimit
    MaxDirEntries = 5
SPECIFICATION FairSpec
PROPERTIES
    ImplementsContract
    Terminates
