SPECIFICATION Spec
CONSTANTS
    NumKinds = 3
    Resume = 3
    MaxFiles = 3
INVARIANTS
    TypeOK
    RestOfBatchWhole
PROPERTIES
    PromotedBatchWhole
    WholeBatchKept
