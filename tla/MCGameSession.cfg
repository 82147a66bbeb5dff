SPECIFICATION FairSessionSpec
CONSTANTS
    npc = npc
    stash = stash
    item = item
    NoParent = NoParent
    Ids <- MCIds
    MayHold <- MCMayHold
    Savable <- MCIds
    Boxes <- MCBoxes
    Stalkers <- MCStalkers
    Reuse = {TRUE, FALSE}
    MaxQueue <- MCMaxQueue
INVARIANTS
    SessionTypeOK
    TakenWhenFree
    RegisteredOnce
    HolderExists
    ClientAgrees
PROPERTY ClientCatchesUp
CHECK_DEADLOCK FALSE
