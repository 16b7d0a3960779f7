SPECIFICATION Spec
CONSTANTS
    Producer = {"header", "filter"}
    Caller = {}
    MaxHeight = 4
    MaxReorg = 2
    ReOrgSafeDepth = 1
    EntriesPerFile <- TwoEach
    Forks <- ForksAt2
    Block <- MCBlock
    NoBlock = NoBlock
    Height <- MCHeight
    Anc <- MCAnc
INVARIANTS
    FilterFilesOnOneChain
PROPERTIES
    SealedFilesImmutable
