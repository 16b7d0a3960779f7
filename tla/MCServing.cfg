SPECIFICATION Spec
CONSTANTS
    Entry = {"a", "b"}
    Long = {"b"}
    NoEntry = NoEntry
    NoLength = NoLength
    EntriesPerFile = 2
    ReOrgSafeDepth = 1
    Half = 8
    MaxHeight = 6
INVARIANTS
    TypeOK
    BodyConsecutive
    DiskTierExact
    TruncationShows
