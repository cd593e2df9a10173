CONSTANTS
    Worker = {w1, w2, w3}
    Dir <- Dirs
    Subdirs <- Below
    RootFile <- Files
    Roots <- Overlapping
    Repo <- Repos
    Exclude <- Excludes
    Rules <- Readable
SPECIFICATION Spec
SYMMETRY Symmetric
INVARIANTS
    TypeOK
    CacheTransparent
    FileLookupsHit
