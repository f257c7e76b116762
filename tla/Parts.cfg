SPECIFICATION PartsSpec
CONSTANTS
    MacroConfig <- Instances
    Ids = {1, 2}
    MacroKeys = {"a", "b"}
    U16Max = 20
    Pace = 2
    MaxDelay = 5
    Chars <- Letters
    ZippyConfig <- ZippyConfigs
    ZippyChords <- ChordsAndFollowing
    MaxPresses = 4
    Switches <- AllSwitches
    Worlds <- AllWorlds
    MaxBoolExprDepth = 4
    shift = shift  vk = vk  c1 = c1  conf1 = conf1  conf2 = conf2
    Keys = {shift, vk}
    Modifiers = {shift}
    LrldKeys = {}
    WheelKeys = {}
    VKeys = {vk}
    Cfgs = {conf1, conf2}
    MappedBy <- AllMapped
    FirstCfg = conf1
    Clients = {c1}
    ChanCap = 2
    SortRun = 4
    InitTicks = 1
    IdleLimit = 2
    ElapsedMs = {0, 1, 3}
    ReloadOutcomes = {"ok", "parse", "late"}
    HeldAtStart = {}
    DropsReleases = TRUE
    ClientsDrop = TRUE
    MaxInputs = 2
    MaxCommands = 2
    MaxActivity = 6
INVARIANTS NoOvershoot RecordKeepsTime MacrosRelease DownMatchesHeld ReenablesInTime SwitchMeansExpression NoLostWakeup
PROPERTIES ReplayKeepsTime ImplementsStack OutputReplacesTyped ReloadLeavesNoKeyDown
CHECK_DEADLOCK FALSE
