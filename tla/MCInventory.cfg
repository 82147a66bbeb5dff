SPECIFICATION Spec
CONSTANTS
    rifle = rifle
    device = device
    artefact = artefact
    NoSlot = NoSlot
    NoItem = NoItem
    Items = {rifle, device}
    SlotIds = {1, 2}
    SlotsOf <- MCSlotsOf
    OnBelt = {device}
    BeltSlotsCount = 1
    InvisibleSlots = {}
    CounterSize = 256
    MaxProcessing = 3
    MaxEvents = 2
INVARIANTS
    TypeOK
    HeldOnce
    EquippedProcessed
PROPERTIES
    LetsGo
    ThrownAwayLeaves
