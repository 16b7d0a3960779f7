SPECIFICATION FairSpec
CONSTANTS
    Hash = {"a", "b"}
    NoHash = NoHash
    NoTweaks = NoTweaks
    Barren = {"b"}
    TaprootStart = 1
    Depth = 2
    EntriesPerFile = 2
    ReOrgSafeDepth = 2
    MaxHeight = 6
INVARIANTS
    TypeOK
    TweaksOfRecordedBlock
    NoFetchForgotten
PROPERTIES
    IngestReturns
