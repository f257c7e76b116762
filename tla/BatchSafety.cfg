SPECIFICATION FairSpec
CONSTANTS
    ka = ka  shift = shift  lrld = lrld  wheel = wheel  raw = raw  vk = vk
    c1 = c1  c2 = c2  conf1 = conf1  conf2 = conf2
    Keys = {ka, shift, lrld, wheel, raw}
    Modifiers = {shift}
    LrldKeys = {lrld}
    WheelKeys = {wheel}
    VKeys = {}
    Cfgs = {conf1, conf2}
    MappedBy <- MCMappedButRaw
    FirstCfg = conf1
    Clients = {c1}
    ChanCap = 3
    SortRun = 20
    InitTicks = 1
    IdleLimit = 2
    ElapsedMs = {0, 1}
    ReloadOutcomes = {"ok", "parse", "late"}
    HeldAtStart = {}
    DropsReleases = FALSE
    ClientsDrop = FALSE
    MaxInputs = 3
    MaxCommands = 1
    MaxActivity = 3
INVARIANTS NoStuckKey BatchKeepsKeyOrder
CHECK_DEADLOCK FALSE

PROPERTIES ReloadHappens ReleasesReachOS
