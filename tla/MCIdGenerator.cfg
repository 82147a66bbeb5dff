SPECIFICATION Spec
CONSTANTS
    MaxValue = 4
    BlockSize = 2
    MaxTime = 2
INVARIANTS
    TypeOK
    AvailableCounts
PROPERTIES
    PoolImplemented
    RestsLongest
