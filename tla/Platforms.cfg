SPECIFICATION PlatformSpec
CONSTANTS
    Parts <- AllParts
    mapped = mapped
    other = other
    lctl = lctl
    ralt = ralt
    NsInMs = 4
    MaxCatchUp = 2
    Gaps <- AnyGaps
    Lags = {0, 2}
    MaxNow = 36
    WinKeys = {lctl, ralt}
    LCtl = lctl
    RAlt = ralt
    WinMapped = {lctl, ralt}
    AltGrBehaviours = {"DoNothing", "CancelLctlPress", "AddLctlRelease"}
    SyncBehaviours = {"DoNothing", "ClearKanata", "ClearBoth"}
    MaxTyped = 5
    MaxBlind = 2
    MacKeys = {mapped, other}
    MacMapped = {mapped}
    MacChanCap = 1
    MaxStrokes = 3
    MaxFlaps = 2
    MaxLocks = 1
    RegrabFails = TRUE
    Paths = {"own", "ev1", "ev2"}
    Kind <- DefaultName
    OwnOutput = "own"
    DevConfigs <- Configs
    MaxPlugs = 2
    Desktops <- Displays
    MouseMoves <- SingleMoves
    MoveBuffers <- MovesTogether
    Targets <- Positions
    MaxMoves = 3
INVARIANTS NoTimeLost TicksKeepTime KeysAgree NoUnknownToken MovesAddUp OwnOutputNotRead
PROPERTIES RemappingResumes KeyboardsAreRead
CONSTRAINT LongInputsOfOneKey
CHECK_DEADLOCK FALSE
