SPECIFICATION FairSpec
CONSTANTS
    Worker = {"header"}
    Holder = {"status"}
    NoAgent = NoAgent
    Asks <- TipAndNext
    Forgets = {}
    Preloaded = {0}
PROPERTIES
    CallsReturn
CHECK_DEADLOCK FALSE
