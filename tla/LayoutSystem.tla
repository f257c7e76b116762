---------------------------- MODULE LayoutSystem ----------------------------
(***************************************************************************)
(* The layout on its own: the user presses and releases keys between its   *)
(* ticks.                                                                  *)
(***************************************************************************)
EXTENDS Layout

CONSTANTS
    Config,      \* Config[c]: a parsed configuration, see Layout
    MaxPresses   \* bound: number of key presses

(* A configuration also has                                                *)
(*   coords     the coordinates the user can press                         *)
(*   customs    the custom actions                                         *)
(*   perKey     bound: number of presses of one key                        *)
(*   holdCap    bound: ticks of holding a key that are told apart          *)
(*   chordOf    chordOf[v]: the keys of the chord whose custom action is v *)
ASSUME ConfigAssumption ==
    \A c \in DOMAIN Config :
        Config[c].coords \subseteq DOMAIN Config[c].src /\ Config[c].rapid \in Nat
        /\ Config[c].queueSize \in Nat \ {0} /\ {Config[c].perKey, Config[c].holdCap} \subseteq Nat
ASSUME LayoutBounds ==
    /\ U16Max \in Nat /\ ExtraLen \in Nat \ {0} /\ MaxSeqs \in Nat \ {0} /\ MaxPresses \in Nat

VARIABLES
    layout,    \* the record L
    phys,      \* the coordinates held down
    presses,   \* presses[c]: how often c was pressed
    \* observed, not part of the program
    heldFor,   \* heldFor[c]: ticks for which c was or has been held
    active,    \* active[v]: custom presses less custom releases of v
    fired,     \* fired[v]: how often the chord of v was performed
    shifted    \* keys output since the last one-shot press while it is active

vars == <<conf, layout, phys, presses, heldFor, active, fired, shifted>>

Init ==
    /\ \E c \in DOMAIN Config : conf = Config[c]
    /\ layout = LayoutNew
    /\ phys = {}
    /\ presses = [c \in conf.coords |-> 0]
    /\ heldFor = [c \in conf.coords |-> 0]
    /\ active = [v \in conf.customs |-> 0]
    /\ fired = [v \in DOMAIN conf.chordOf |-> 0]
    /\ shifted = {}

-----------------------------------------------------------------------------
(* The user presses and releases keys between ticks: handle_input_event.   *)
PressKey(c) ==
    /\ c \notin phys
    /\ presses[c] < conf.perKey
    /\ FoldFunction(+, 0, presses) < MaxPresses
    /\ layout' = Event(layout, TRUE, c)
    /\ phys' = phys \cup {c}
    /\ presses' = [presses EXCEPT ![c] = @ + 1]
    /\ UNCHANGED <<conf, heldFor, active, fired, shifted>>

ReleaseKey(c) ==
    /\ c \in phys
    /\ layout' = Event(layout, FALSE, c)
    /\ phys' = phys \ {c}
    /\ UNCHANGED <<conf, presses, heldFor, active, fired, shifted>>

\* the coordinates that gained an output key from L1 to L2 under a one-shot
KeyCoords(L) == {L.states[i].coord : i \in {j \in DOMAIN L.states : L.states[j].k = "key"}}
NewKeys(L1, L2) ==
    IF L2.osh.keys = {} THEN {} ELSE (KeyCoords(L2) \ KeyCoords(L1)) \ L2.osh.keys

Tick ==
    /\ layout' = TickLayout(layout)
    /\ heldFor' = [c \in DOMAIN heldFor |-> IF c \in phys /\ heldFor[c] < conf.holdCap
                                            THEN heldFor[c] + 1 ELSE heldFor[c]]
    /\ LET e == layout'.ret IN
         active' = IF e = NoCustom THEN active
                   ELSE [active EXCEPT ![e.v] = IF e.t = "press" THEN @ + 1 ELSE @ - 1]
    /\ fired' = [v \in DOMAIN fired |-> IF layout'.ret = [t |-> "press", v |-> v]
                                        THEN fired[v] + 1 ELSE fired[v]]
    /\ shifted' = IF layout'.osh.keys # layout.osh.keys \/ layout'.osh.timeout > layout.osh.timeout
                  THEN {} ELSE shifted \cup NewKeys(layout, layout')
    /\ UNCHANGED <<conf, phys, presses>>

Next == Tick \/ \E c \in conf.coords : PressKey(c) \/ ReleaseKey(c)

Spec == Init /\ [][Next]_vars

-----------------------------------------------------------------------------
(* When every key is up and the layout has worked off what it had, no      *)
(* state is left: no action was performed after its key's release, and no  *)
(* one-shot, tap-dance, macro or layer outlives its key.                   *)
NoStuckState ==
    phys = {} /\ Settled(layout)
    => \A i \in DOMAIN layout.states : layout.states[i].k = "tombstone"

(* Custom actions reach Kanata as matching pairs: never a release without  *)
(* a press, and every press is released once the keys are up, whatever     *)
(* the order in which several of them share a tick.                        *)
CustomsPaired ==
    /\ \A v \in DOMAIN active : active[v] >= 0
    /\ phys = {} /\ Settled(layout) => \A v \in DOMAIN active : active[v] = 0

(* While the processing loop may block, a tick would change nothing that   *)
(* can be seen: no output key and no custom action is late because         *)
(* is_idle overlooked a timer.                                             *)
IdleMeansQuiet ==
    [][CanBlock(layout) /\ UNCHANGED phys
       => Keycodes(layout') = Keycodes(layout) /\ layout'.ret = NoCustom]_vars

(* A one-shot that ends on the next press applies to one key only, even if *)
(* further keys are already queued when the first is processed: input      *)
(* processing pauses until the one-shot is released.                       *)
OneShotSingleUse ==
    layout.osh.keys # {} /\ layout.osh.endCfg \in {"press", "pressPcancel"}
    => Cardinality(shifted) <= 1

(* A plain tap-hold decides by the time for which its key was physically   *)
(* held, however long its press and its release waited in the queue        *)
(* behind another undecided key: its tap appears only if the key was held  *)
(* for at most its timeout, its hold only if it was held for longer (with  *)
(* concurrent-tap-hold, for the timeout).                                  *)
TapHoldByHeldTime ==
    \A c \in conf.coords :
        LET a == conf.layers["base"][c] IN
        conf.holdCap > 0 /\ a.k = "holdtap" /\ a.cfg = "default"
        => /\ a.tap.v \in Keycodes(layout) => heldFor[c] <= a.timeout
           /\ a.toact.v \in Keycodes(layout)
              => heldFor[c] > a.timeout \/ (conf.quick /\ heldFor[c] = a.timeout)

(* No press of a chord key is lost or counted twice when an undefined      *)
(* combination is cut into chords: if every key is a chord by itself, each *)
(* press takes part in exactly one chord performed.                        *)
EveryPressCounts ==
    phys = {} /\ Settled(layout) /\ DOMAIN fired # {}
    => \A c \in conf.coords :
         presses[c] = FoldFunctionOnSet(+, 0, fired, {v \in DOMAIN fired : c \in conf.chordOf[v]})
=============================================================================
