CONSTANTS
    Thread = {t1, t2}
    Entry <- Entries
    Parent <- Parents
    Allowed <- FilterAnswers
    Visited <- Outcomes
    Capacity = 1
    Name <- Names
    Place <- Places
    Kind <- Kinds
    Target <- Links
    RootPath <- RootOfWalk
    FollowSymlinks = TRUE
    MaxSymlinkDepth = 2
    MaxHops = 4
SPECIFICATION Spec
INVARIANTS
    EveryErrorReported
