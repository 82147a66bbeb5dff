SPECIFICATION FairSpec
CONSTANTS
    o1 = o1
    o2 = o2
    o3 = o3
    None = None
    Objs <- MCObjs
    Kinds <- MCKinds
    Period = 1
    MaxWait = 1
    MaxPending = 2
INVARIANTS
    TypeOK
    RegistryKept
PROPERTIES
    RegistryImplemented
    NobodyStarves
