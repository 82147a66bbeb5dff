SPECIFICATION Spec
CONSTANTS
    MagazineSize = 3
    Features <- MCFeatures
    MaxBlocks = 1
    MaxSurplus = 1
    MaxShots = 2
    MaxMessages = 2
INVARIANT TypeOK
PROPERTY ShotInHands
PROPERTY SwitchEnds
PROPERTY PendingEnds
