SPECIFICATION FairSpec
CONSTANTS
    Config <- Configs
    Types <- TextTypes
    MaxPresses = 3
    U16Max = 6
    ExtraLen = 8
    MaxSeqs = 4
    Modifiers = {"lsft", "rsft", "lctl", "rctl", "lalt", "ralt", "lmet", "rmet"}
    Chars = {"a", "b", "c", "v", "x", "y"}
INVARIANTS NothingLeftDown SleepMissesNothing TypesAsConfigured SequenceWasTyped SequenceErasesItself
PROPERTIES ComesToRest WaitingEnds
CHECK_DEADLOCK FALSE
