SPECIFICATION Spec
CONSTANTS
    NumKinds = 1
    Resume = 1
    MaxFiles = 3
INVARIANTS
    DiskTierServesWholeFiles
