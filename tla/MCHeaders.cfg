SPECIFICATION Spec
CONSTANTS
    Producer = {"header"}
    Caller = {"c"}
    MaxHeight = 5
    MaxReorg = 2
    ReOrgSafeDepth = 2
    EntriesPerFile <- TwoEach
    Forks <- ForksAt1
    Block <- MCBlock
    NoBlock = NoBlock
    Height <- MCHeight
    Anc <- MCAnc
INVARIANTS
    TypeOK
    HeaderFilesOnBestChain
    NothingMissing
    MemoryIsTail
    CacheBelowBestHeight
PROPERTIES
    HeaderFilesAreSealedLog
