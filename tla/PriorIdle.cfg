SPECIFICATION Spec
CONSTANTS
    Config <- AfterLayerKey
    Types <- TextTypes
    MaxPresses = 3
    U16Max = 6
    ExtraLen = 8
    MaxSeqs = 4
    Modifiers = {"lsft", "rsft", "lctl", "rctl", "lalt", "ralt", "lmet", "rmet"}
    Chars = {"a", "b", "c", "v", "x", "y"}
INVARIANT PriorIdleByRealTime
CHECK_DEADLOCK FALSE
