SPECIFICATION SessionSpec
CONSTANTS
    npc = npc
    stash = stash
    item = item
    NoParent = NoParent
    Ids <- MCIds
    MayHold <- MCMayHold
    Savable <- MCIds
    Boxes <- MCBoxes
    Stalkers <- MCStalkers
    Reuse = {FALSE}
    MaxQueue <- MCMaxQueue
CHECK_DEADLOCK FALSE
INVARIANT DroppedByHolder
