SPECIFICATION LifeFairSpec
CONSTANTS
    Worker = {"header", "filter"}
    Holder = {"status"}
    NoAgent = NoAgent
    Asks <- TipAndNext
    Forgets = {0}
    Preloaded = {0}
    Modes <- LightOrTwo
    QueueSize = 2
INVARIANTS
    LifeTypeOK
    MapAccessExclusive
    LocksBalanced
    NoErrorLost
    QuiescentAtExit
PROPERTIES
    LookupsReturn
    ServerEnds
\* The handlers can bring everything to a halt: see MCStatusHit.
CHECK_DEADLOCK FALSE
