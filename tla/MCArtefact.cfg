SPECIFICATION Spec
CONSTANTS
    rifle = rifle
    device = device
    artefact = artefact
    NoSlot = NoSlot
    NoItem = NoItem
    Items = {artefact}
    SlotIds = {1, 2}
    SlotsOf <- MCSlotsOf
    OnBelt = {artefact}
    BeltSlotsCount = 1
    InvisibleSlots = {}
    CounterSize = 256
    MaxProcessing = 256
    MaxEvents = 1
PROPERTIES
    NoOverflow
