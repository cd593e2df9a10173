CONSTANTS
    Capacity = 1
    Path <- RunPath
    Roots <- RunRoots
    Tree <- RunTree
    Gitignore <- RunGitignore
    MaxDepth = 1
    MaxDirEntries = 6
    Byte = {"a", "NUL"}
    NUL = "NUL"
    Content <- ModelContent
    Inode = {1, 2}
    MaxLen = 5
    MaxChanges = 2
    SampleSize = 2
    PrefixScan = 3
    Watched = "m/s/d/f"
    Rank <- SortRank
    Bytes <- SortBytes
SPECIFICATION FairWalkerSpec
INVARIANTS
    TypeOK
    BreadthFirst
    ProbedWhatWasMeasured
    VerdictFitsContent
    FilesGivenOnce
    SortedAsAsked
PROPERTIES
    WalkKeepsPromise
    Terminates
