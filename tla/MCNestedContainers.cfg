SPECIFICATION Spec
CONSTANTS
    stash = stash
    backpack = backpack
    medkit = medkit
    NoParent = NoParent
    Ids <- MCIds
    MayHold <- MCMayHold
    Savable <- MCIds
    Boxes <- MCBoxes
INVARIANT NewIdUnknown
