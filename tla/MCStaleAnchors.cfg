SPECIFICATION Spec
CONSTANTS
    Producer = {"header", "filter"}
    Caller = {}
    MaxHeight = 3
    MaxReorg = 2
    ReOrgSafeDepth = 2
    EntriesPerFile <- TwoEach
    Forks <- ForksAt1
    Block <- MCBlock
    NoBlock = NoBlock
    Height <- MCHeight
    Anc <- MCAnc
INVARIANTS
    SealedFilesOnBestChain
