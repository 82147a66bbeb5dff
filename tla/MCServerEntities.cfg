SPECIFICATION Spec
CONSTANTS
    npc = npc
    stash = stash
    stray = stray
    launcher = launcher
    rocket = rocket
    bolt = bolt
    NoParent = NoParent
    Ids <- MCIds
    MayHold <- MCMayHold
    Savable <- MCSavable
    Boxes <- MCBoxes
INVARIANTS
    TypeOK
    EntitiesVerified
    IdsAccounted
    OnlineServed
