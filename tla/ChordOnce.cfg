SPECIFICATION Spec
CONSTANTS
    Coords <- AllCoords
    ChordConfig <- Configs
    KeyMax = 850
    SmolLen = 16
    ChordQueueLen = 32
    MaxActive = 10
    MaxPresses = 3
    Burst = 1
    AgeCap = 6
INVARIANTS ChordOnce
