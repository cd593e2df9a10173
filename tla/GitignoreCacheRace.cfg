CONSTANTS
    Worker = {w1, w2}
    Dir <- Dirs
    Subdirs <- Below
    RootFile <- Files
    Roots <- Repeated
    Repo <- Repos
    Exclude <- Excludes
    Rules <- Readable
SPECIFICATION Spec
SYMMETRY Symmetric
INVARIANTS
    CacheTransparent
