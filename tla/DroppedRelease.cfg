SPECIFICATION PlatformSpec
CONSTANTS
    Parts = {"mac"}
    mapped = mapped
    other = other
    lctl = lctl
    ralt = ralt
    NsInMs = 4
    MaxCatchUp = 2
    Gaps <- AnyGaps
    Lags = {0, 2}
    MaxNow = 36
    WinKeys = {lctl, ralt}
    LCtl = lctl
    RAlt = ralt
    WinMapped = {lctl, ralt}
    AltGrBehaviours = {"DoNothing", "CancelLctlPress", "AddLctlRelease"}
    SyncBehaviours = {"ClearKanata", "ClearBoth"}
    MaxTyped = 3
    MaxBlind = 2
    MacKeys = {mapped}
    MacMapped = {mapped}
    MacChanCap = 1
    MaxStrokes = 2
    MaxFlaps = 1
    MaxLocks = 0
    RegrabFails = FALSE
    Paths = {"own", "ev1", "ev2"}
    Kind <- DefaultName
    OwnOutput = "own"
    DevConfigs <- Configs
    MaxPlugs = 2
    Desktops <- Displays
    MouseMoves <- SingleMoves
    MoveBuffers <- MovesTogether
    Targets <- Positions
    MaxMoves = 3
PROPERTIES DroppedReleaseRecovers
CHECK_DEADLOCK FALSE
