SPECIFICATION Spec
CONSTANTS
    Block <- MCBlock
    NoBlock = NoBlock
    Anc <- MCAnc
    Best <- MCBest
    Other <- MCOther
    Stale = {1, 2, 3, 5}
    HeadersPerFile = 4
    FiltersPerFile = 2
    ReOrgSafeDepth = 1
    FirstTop = 5
    MaxHeight = 8
    MaxCut = 1
INVARIANTS
    TypeOK
    OkMeansAuthentic
PROPERTIES
    DiagnosedBeforeRewritten
