CONSTANTS
    Entry <- Entries
    Parent <- Parents
    Allowed <- FilterAnswers
    Visited <- Outcomes
    Name <- Names
    Place <- Places
    Kind <- Kinds
    Target <- Links
    RootPath <- RootOfWalk
    FollowSymlinks = TRUE
    MaxSymlinkDepth = 2
    MaxHops = 4
    Byte = {"P", "NUL"}
    Content <- FileContents
    Inode = {1, 2}
    MaxLen = 4
    MaxChanges = 2
    Watched = 8
    PathOf <- Paths
    MaxFileSize = 3
    SkipBinary = TRUE
    HeadSize = 3
    Magic <- Signatures
    NonText = {"NUL"}
    ContentCap = 2
    ChunkSize = 2
SPECIFICATION FairFileSpec
INVARIANTS
    TypeOK
    NoSilentUndercount
    NoEntryLost
    EntryDescribesOneFile
    ContentIsWhole
    ContentWithinCap
    StaysInRoot
PROPERTIES
    InWalkOrder
    ChunksEndOnce
    Terminates
