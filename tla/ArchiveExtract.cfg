CONSTANTS
    Blob <- RunBlob
    Size <- RunSize
    Bytes <- RunBytes
    Blocks <- RunBlocks
    BlockSize = 2
    MaxEntries = 7
    MaxEntryBytes = 50
    Letter <- Letters
    Slash = 902
    RefusedName <- Refused
    CentralSize = 2
    LocalSize = 2
    EndSize = 2
    MaxComment = 3
    Zip64 = 99
    Zip64Count = 9
    Root <- RunRoot
    Format <- RunFormat
    Inner <- RunInner
    MaxDepth = 2
    Ratio = 4
    TotalBudget = 160
    MaxOutputBytes = 110
    MaxOutput = 6
SPECIFICATION Spec
INVARIANTS
    TypeOK
    WithinLimits
    ExtractsContents
    EverythingIsCharged
PROPERTIES
    TarIsFused
