SPECIFICATION FairSpec
CONSTANTS
    Producer = {"header", "sptweak"}
    Caller = {}
    MaxHeight = 3
    MaxReorg = 1
    ReOrgSafeDepth = 2
    EntriesPerFile <- TwoEach
    Forks <- ForksAt2And3
    Block <- MCBlock
    NoBlock = NoBlock
    Height <- MCHeight
    Anc <- MCAnc
INVARIANTS
    DeepReorgOnlyIfStale
PROPERTIES
    ProducersCatchUp
    ErrorEndsProcess
