SPECIFICATION FairSpec
CONSTANTS
    Coords <- AllCoords
    ChordConfig <- Configs
    KeyMax = 850
    SmolLen = 16
    ChordQueueLen = 32
    MaxActive = 10
    MaxPresses = 3
    Burst = 2
    AgeCap = 6
INVARIANTS BoundedDelay ActionsPaired
PROPERTIES ImplementsFilter ChordsComeToRest
