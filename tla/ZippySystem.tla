----------------------------- MODULE ZippySystem -----------------------------
(***************************************************************************)
(* Zippychord between a layout that hands every key on as it is and the OS *)
(* keyboard: the user presses and releases keys, and time passes.          *)
(***************************************************************************)
EXTENDS Zippychord

CONSTANTS
    ZippyConfig,   \* ZippyConfig[c]: a configuration, see Zippychord, and its keys
    ZippyChords,   \* the chords of the configurations and those that follow them up
    MaxPresses     \* bound: number of presses

OutputKey == [key : STRING, up : BOOLEAN, altgr : BOOLEAN, width : {-1, 0, 1}]

ASSUME ZippyChordsAssumption ==
    \A ch \in ZippyChords :
        ch.keys # {} /\ ch.out \in Seq(OutputKey) /\ ch.then \subseteq ZippyChords
ASSUME ZippyConfigAssumption ==
    \A c \in DOMAIN ZippyConfig :
        /\ ZippyConfig[c].deadline \in Nat /\ ZippyConfig[c].wait \in Nat
        /\ ZippyConfig[c].forced \in Nat
        /\ ZippyConfig[c].chords \subseteq ZippyChords
ASSUME ZippyBounds == MaxPresses \in Nat

VARIABLES
    zc,       \* the configuration
    z, os,    \* the state of zippychord and of the OS keyboard
    physKeys, \* keys held by the user
    presses,  \* number of presses so far
    \* observed, not part of the program
    hold,     \* the text when the first of the keys held was pressed, less what
              \* a follow-up chord has erased of it
    waited,   \* ticks since that press or since the last chord
    base,     \* the text before the output of the last chord
    kept,     \* an output of this hold has kept the beginning of an earlier one
    quiet     \* ticks since the user let go of everything, up to wait + 1

zippyVars == <<zc, z, os, physKeys, presses, hold, base, waited, kept, quiet>>

ZippyInit ==
    /\ \E c \in DOMAIN ZippyConfig : zc = ZippyConfig[c]
    /\ z = ZchNew /\ os = OsNew
    /\ physKeys = {} /\ presses = 0
    /\ hold = <<>> /\ base = <<>> /\ waited = 0 /\ kept = FALSE /\ quiet = 0

\* the chord that a press of k brings about, if any, and whether it follows up
ChordsOf(k, chords) == IF k \in Ignored \/ z.state # "Enabled" THEN {}
                       ELSE Values(chords, z.keys \cup {k})
FollowUp(k) == ChordsOf(k, z.prio) # {}
Completed(k) == IF FollowUp(k) THEN ChordsOf(k, z.prio) ELSE ChordsOf(k, zc.chords)

HoldFrom(k) ==
    IF z.keys = {} /\ k \notin Ignored
    THEN EraseSpace(zc, [z |-> z, os |-> os], k).os.text ELSE hold

Pressed(k, s) == z' = s.z /\ os' = s.os
PressKey(k) ==
    /\ k \notin physKeys /\ presses < MaxPresses
    /\ Pressed(k, ZchPressKey(zc, [z |-> z, os |-> os], k))
    /\ physKeys' = physKeys \cup {k} /\ presses' = presses + 1
    /\ hold' = IF FollowUp(k) /\ \E chord \in Completed(k) : chord.out # <<>> THEN base
               ELSE HoldFrom(k)
    /\ base' = IF Completed(k) # {} /\ ~FollowUp(k) THEN hold' ELSE base
    /\ waited' = IF Completed(k) # {} \/ z.untilDisable = 0 THEN 0 ELSE waited
    /\ kept' = \/ kept /\ z.keys # {}
               \/ \E chord \in Completed(k) : Common(z, chord, FollowUp(k)) > 0
    /\ quiet' = 0
    /\ UNCHANGED zc

\* what is observed of a hold or a chain of follow-ups ends with it
Forget(waiting) ==
    /\ hold' = IF z'.keys = {} THEN <<>> ELSE hold
    /\ base' = IF z'.prio = {} THEN <<>> ELSE base
    /\ waited' = IF z'.untilDisable = 0 THEN 0 ELSE waiting
    /\ kept' = (kept /\ z'.keys # {})

ReleaseKey(k) ==
    /\ k \in physKeys
    /\ Pressed(k, ZchReleaseKey(zc, [z |-> z, os |-> os], k))
    /\ physKeys' = physKeys \ {k}
    /\ Forget(waited)
    /\ UNCHANGED <<zc, presses, quiet>>

ZippyTick ==
    /\ z' = ZchTick(zc, z, FALSE)
    /\ Forget(waited + 1)
    /\ quiet' = IF physKeys = {} /\ quiet <= zc.wait THEN quiet + 1 ELSE quiet
    /\ UNCHANGED <<zc, os, physKeys, presses>>

ZippyNext == ZippyTick \/ \E k \in zc.keys : PressKey(k) \/ ReleaseKey(k)
ZippySpec == ZippyInit /\ [][ZippyNext]_zippyVars

-----------------------------------------------------------------------------
(* When the keys of a chord are down, its output takes the place of what   *)
(* was typed for it: nothing of the keys, nor of the outputs of smaller    *)
(* chords on the way or of the chord it follows, is left, and not a        *)
(* character more is erased.  And a chord comes about only within the      *)
(* deadline that its first key, or the last chord of the hold, has set; a  *)
(* deadline of 0 is none.                                                  *)
ShiftHeld == HeldShifts(z) # {}
OutText(text, out) ==
    FoldLeft(LAMBDA t, i : IF out[i].key = "bspc" THEN Front(t)
                           ELSE IF out[i].key \in Chars
                           THEN Append(t, <<out[i].key, out[i].up \/ (i = 1 /\ ShiftHeld), out[i].altgr>>)
                           ELSE t,
             text, [i \in DOMAIN out |-> i])
Spaced(out, text) ==
    IF zc.smart # "none" /\ Last(out).key \notin {"spc", "bspc"}
    THEN Append(text, <<"spc", FALSE, FALSE>>) ELSE text
\* a key of the output that the user holds for another reason cannot be typed,
\* and a reset after a long time forgets the shift keys held
Typable(out) == \A i \in DOMAIN out : out[i].key \notin os.down \ z.keys
Remembers == HeldShifts(z) = physKeys \cap Shifts /\ z.altgr = ("ralt" \in physKeys)
\* what is kept of an earlier output keeps its capitals
Shown(text) == [i \in DOMAIN text |-> IF kept' THEN text[i][1] ELSE text[i]]

Replaces(k, chord) ==
    chord.out # <<>> /\ Typable(chord.out) /\ Remembers =>
        Shown(os'.text) = Shown(Spaced(chord.out, OutText(IF FollowUp(k) THEN base ELSE hold', chord.out)))
OutputReplacesTyped ==
    [][\A k \in physKeys' \ physKeys : \A chord \in Completed(k) :
        (waited < zc.deadline \/ zc.deadline = 0) /\ (~kept => Replaces(k, chord))]_zippyVars

(* Shift and AltGr are let go and pressed again around an output, and keys *)
(* of the output are tapped: at the OS no key is down that the user does   *)
(* not hold, and shift and AltGr are down as long as zippychord knows of   *)
(* them.                                                                   *)
HeldAltgr == IF z.altgr THEN {"ralt"} ELSE {}
DownMatchesHeld ==
    os.down \subseteq physKeys /\ HeldShifts(z) \cup HeldAltgr \subseteq os.down

(* When the user has let go zippychord becomes enabled and idle again after *)
(* the configured time, so that chords work and the loop may block.        *)
ReenablesInTime == physKeys = {} /\ quiet > zc.wait => ZchIsIdle(z)
=============================================================================
