SPECIFICATION FairSpec
CONSTANTS
    ka = ka  shift = shift  lrld = lrld  wheel = wheel  raw = raw  vk = vk
    c1 = c1  c2 = c2  conf1 = conf1  conf2 = conf2
    Keys = {ka}
    Modifiers = {}
    LrldKeys = {}
    WheelKeys = {}
    VKeys = {}
    Cfgs = {conf1, conf2}
    MappedBy <- MCMappedAll
    FirstCfg = conf1
    Clients = {c1}
    ChanCap = 2
    SortRun = 20
    InitTicks = 0
    IdleLimit = 2
    ElapsedMs = {0, 1}
    ReloadOutcomes = {"ok", "parse", "late"}
    HeldAtStart = {}
    DropsReleases = TRUE
    ClientsDrop = FALSE
    MaxInputs = 1
    MaxCommands = 1
    MaxActivity = 3
PROPERTIES StuckKeyReloads
CHECK_DEADLOCK FALSE
