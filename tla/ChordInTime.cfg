SPECIFICATION Spec
CONSTANTS
    Coords <- AllCoords
    ChordConfig <- LongerLater
    KeyMax = 850
    SmolLen = 16
    ChordQueueLen = 32
    MaxActive = 10
    MaxPresses = 3
    Burst = 2
    AgeCap = 6
PROPERTIES OpensInTime
