SPECIFICATION Spec
CONSTANTS
    Block = {"a", "b"}
    NoBlock = NoBlock
    Choices <- ForkedChoices
    Forked = {1, 2, 3, 5, 6}
    NumConfigs = 2
    EntriesPerFile = 2
    HeadersPerFile = 4
    ReOrgSafeDepth = 1
    MaxHeight = 9
INVARIANTS
    TypeOK
    HeaderFilesCommit
    NothingLacking
