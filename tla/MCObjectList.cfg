SPECIFICATION Spec
CONSTANTS
    npc = npc
    rifle = rifle
    Nobody = Nobody
    Freed = Freed
    Objects <- MCObjects
    Holders <- MCHolders
    Handlers <- MCHolders
INVARIANTS
    TypeOK
    NoStaleCrow
    AnsweredInTwo
    DestroyedBottomUp
CHECK_DEADLOCK FALSE
