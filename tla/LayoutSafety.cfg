SPECIFICATION Spec
CONSTANTS
    Config <- AllConfigs
    ExtraLen = 8
    MaxSeqs = 4
    Modifiers = {"lsft", "lctl"}
    U16Max = 12
    MaxPresses = 3
INVARIANTS NoStuckState CustomsPaired TapHoldByHeldTime OneShotSingleUse EveryPressCounts
PROPERTIES IdleMeansQuiet
