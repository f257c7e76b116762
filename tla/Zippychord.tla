----------------------------- MODULE Zippychord -----------------------------
(***************************************************************************)
(* ZchState of kanata/output_logic/zippychord.rs: the filter between the   *)
(* keys that kanata presses and the OS keyboard.  It types every key at    *)
(* once; when the keys held make up a chord, what was typed is erased and  *)
(* the output of the chord takes its place.                                *)
(*   zc  configuration: chords, deadline, wait, forced, smart, punctuation *)
(*   z   the record ZchDynamicState                                        *)
(*   s   [z, os], what a press or a release works on                       *)
(* A chord is [keys, out, then]: then holds its follow-up chords.  An      *)
(* output key is [key, up, altgr, width]; width is what it adds to the     *)
(* text: 1, 0 for a no-erase key, -1 for a backspace.                      *)
(***************************************************************************)
EXTENDS OsKeyboard, FiniteSets

NoPrior == <<>>
Ignored == ModifierKeys \cup {"esc", "bspc", "del"}
Monus1(n) == IF n > 0 THEN n - 1 ELSE 0

ZchNew == [keys |-> {}, state |-> "Enabled", prio |-> {}, priorCount |-> 0, toDelete |-> 0,
           prior |-> NoPrior, since |-> 0, untilEnabled |-> 0, untilDisable |-> 0,
           holdCount |-> 0, caps |-> FALSE, lsft |-> FALSE, rsft |-> FALSE, altgr |-> FALSE,
           isChord |-> TRUE, spaceSent |-> FALSE]

ZchIsIdle(z) == z.state = "Enabled" /\ z.keys = {}

ClearHistory(z) ==
    [z EXCEPT !.toDelete = 0, !.prio = {}, !.prior = NoPrior, !.priorCount = 0]
SoftReset(z) ==
    [ClearHistory(z) EXCEPT !.isChord = FALSE, !.state = "Disabled", !.keys = {}, !.since = 0,
                            !.untilDisable = 0, !.untilEnabled = 0, !.spaceSent = FALSE]
Reset(z) ==
    [SoftReset(z) EXCEPT !.caps = FALSE, !.lsft = FALSE, !.rsft = FALSE, !.altgr = FALSE,
                         !.isChord = TRUE, !.state = "Enabled"]
StateChange(zc, z) == [z EXCEPT !.since = 0, !.untilEnabled = zc.wait]

TickWaitEnable(z) ==
    IF z.untilEnabled <= 1
    THEN [z EXCEPT !.untilEnabled = 0, !.state = "Enabled", !.untilDisable = 0]
    ELSE [z EXCEPT !.untilEnabled = @ - 1]
TickEnabled(z) ==
    IF z.untilDisable = 1 THEN SoftReset(z) ELSE [z EXCEPT !.untilDisable = Monus1(@)]
ForceReset(zc, z) == IF z.since > zc.forced THEN Reset(z) ELSE z
ZchTick(zc, z, caps) ==
    LET z1 == [z EXCEPT !.since = @ + 1, !.caps = caps]
    IN  ForceReset(zc, CASE z.state = "WaitEnable" -> TickWaitEnable(z1)
                         [] z.state = "Enabled"    -> TickEnabled(z1)
                         [] OTHER                  -> z1)

-----------------------------------------------------------------------------
(* Presses.                                                                *)

\* SubsetMap::ssm_get_or_is_subset_ksorted
Values(chords, keys) == {c \in chords : c.keys = keys}
IsSubset(chords, keys) == \E c \in chords : keys \subseteq c.keys

\* the keys two outputs begin with in common; a backspace ends it
Alike(x, y) == x = y /\ x.key # "bspc"
CommonPrefix(past, current) ==
    LET n == IF Len(past) < Len(current) THEN Len(past) ELSE Len(current)
        differ == {i \in 1..n : ~Alike(past[i], current[i])}
    IN  IF differ = {} THEN n ELSE (CHOOSE i \in differ : \A j \in differ : i <= j) - 1

Width(out) == FoldLeft(LAMBDA n, o : n + o.width, 0, out)
Backspaces(os, n) == FoldLeft(LAMBDA o, i : OsTap(o, "bspc"), os, [i \in 1..n |-> i])

\* type_osc: a key that is part of the chord is down already
TypeOsc(os, z, k) == IF k \in z.keys THEN OsPress(OsRelease(os, k), k) ELSE OsTap(os, k)
\* maybe_press_sft_during_activation: the shift held by the user does for the
\* first key, unless there is none
NeedsShift(z, released) == ~z.caps /\ (released \/ (~z.lsft /\ ~z.rsft))
WithShift(os, z, k, need) ==
    IF need THEN OsRelease(TypeOsc(OsPress(os, "lsft"), z, k), "lsft") ELSE TypeOsc(os, z, k)
TypeUp(os, z, o, released) == WithShift(os, z, o.key, o.up /\ NeedsShift(z, released))
TypeOut(os, z, o, released) ==
    IF o.altgr THEN OsRelease(TypeUp(OsPress(os, "ralt"), z, o, released), "ralt")
    ELSE TypeUp(os, z, o, released)

\* the shift keys that the user holds are released after the first key
HeldShifts(z) == (IF z.lsft THEN {"lsft"} ELSE {}) \cup (IF z.rsft THEN {"rsft"} ELSE {})
LetGoOfShift(os, z, released) ==
    IF released \/ z.caps THEN os ELSE [os EXCEPT !.down = @ \ HeldShifts(z)]
SendOut(st, o) ==
    [st EXCEPT !.os = LetGoOfShift(TypeOut(@, st.z, o, st.released), st.z, st.released),
               !.released = ~st.z.caps \/ @,
               !.z.toDelete = @ + o.width]

SmartSpace(zc, st, out) ==
    IF zc.smart = "none" \/ out = <<>> \/ Last(out).key \in {"spc", "bspc"} THEN st
    ELSE [st EXCEPT !.z.spaceSent = zc.smart = "full" \/ @,
                    !.z.priorCount = @ + 1, !.z.toDelete = @ + 1,
                    !.os = OsTap(@, "spc")]

\* Seeded fault: AltGr is not pressed again.
HoldAgainShift(st, out) ==
    LET shifts == IF st.z.caps THEN {} ELSE HeldShifts(st.z)
    IN  [st EXCEPT !.os.down = @ \cup shifts, !.z.isChord = TRUE]

\* ... and pressed again at the end
HoldAgain(st, out) ==
    LET shifts == IF st.z.caps THEN {} ELSE HeldShifts(st.z)
        altgr == IF st.z.altgr /\ out # <<>> THEN {"ralt"} ELSE {}
    IN  [st EXCEPT !.os.down = @ \cup shifts \cup altgr, !.z.isChord = TRUE]

SendKeys(zc, st, out, from) ==
    HoldAgain(SmartSpace(zc, FoldLeft(SendOut, st, SubSeq(out, from + 1, Len(out))), out), out)

LetGoOfAltgr(os, z, out) == IF z.altgr /\ out # <<>> THEN OsRelease(os, "ralt") ELSE os
Activated(zc, z, chord) ==
    [z EXCEPT !.prior = chord.out, !.holdCount = @ + 1, !.untilDisable = zc.deadline,
              !.prio = chord.then]
\* Seeded fault: the characters of an earlier output that stay are erased too.
EraseTypedWhole(zc, z, os, chord, k, followup, common) ==
    IF chord.out = <<>>
    THEN [z |-> [z EXCEPT !.toDelete = @ + 1, !.priorCount = @ + Cardinality(z.keys)],
          os |-> OsPress(os, k), released |-> FALSE]
    ELSE [z |-> [z EXCEPT !.toDelete = 0, !.priorCount = Width(chord.out)],
          os |-> LetGoOfAltgr(Backspaces(os, z.toDelete + (IF followup THEN z.priorCount ELSE 0)),
                              z, chord.out),
          released |-> FALSE]

\* what was typed is erased, save what the new output begins with
EraseTyped(zc, z, os, chord, k, followup, common) ==
    IF chord.out = <<>>
    THEN [z |-> [z EXCEPT !.toDelete = @ + 1, !.priorCount = @ + Cardinality(z.keys)],
          os |-> OsPress(os, k), released |-> FALSE]
    ELSE [z |-> [z EXCEPT !.toDelete = 0, !.priorCount = Width(chord.out)],
          os |-> LetGoOfAltgr(Backspaces(os, z.toDelete + (IF followup THEN z.priorCount ELSE 0)
                                             - common), z, chord.out),
          released |-> FALSE]
Common(z, chord, followup) ==
    IF ~followup /\ z.holdCount = 0 THEN 0 ELSE CommonPrefix(z.prior, chord.out)
Activate(zc, z, os, chord, k, followup) ==
    LET common == Common(z, chord, followup)
        st == SendKeys(zc, EraseTyped(zc, Activated(zc, z, chord), os, chord, k, followup, common),
                       chord.out, common)
    IN  [z |-> st.z, os |-> st.os]

\* the follow-up chords come first; a partial follow-up chord counts only if
\* it is also part of a chord of the first level
PressEnabled(zc, z, os, k) ==
    LET followups == Values(z.prio, z.keys)
        chords == Values(zc.chords, z.keys)
    IN  IF followups # {} THEN Activate(zc, z, os, CHOOSE c \in followups : TRUE, k, TRUE)
        ELSE IF chords # {} THEN Activate(zc, z, os, CHOOSE c \in chords : TRUE, k, FALSE)
        ELSE IF IsSubset(zc.chords, z.keys)
        THEN [z |-> [z EXCEPT !.isChord = FALSE, !.toDelete = @ + 1], os |-> OsPress(os, k)]
        ELSE [z |-> SoftReset(z), os |-> OsPress(os, k)]

Expecting(zc, z, k) ==
    [StateChange(zc, z) EXCEPT !.untilDisable = IF @ = 0 THEN zc.deadline ELSE @,
                               !.keys = @ \cup {k}]

IsPunctuation(zc, z, k) == <<k, z.lsft \/ z.rsft, z.altgr>> \in zc.punctuation
EraseSpace(zc, s, k) ==
    IF s.z.spaceSent /\ IsPunctuation(zc, s.z, k)
    THEN [z |-> [s.z EXCEPT !.toDelete = @ - 1, !.spaceSent = FALSE], os |-> OsTap(s.os, "bspc")]
    ELSE [s EXCEPT !.z.spaceSent = FALSE]

PressChar(zc, s, k) ==
    IF s.z.state # "Enabled" THEN [s EXCEPT !.os = OsPress(@, k)]
    ELSE PressEnabled(zc, Expecting(zc, s.z, k), s.os, k)
NoteModifier(z, k, on) ==
    CASE k = "lsft" -> [z EXCEPT !.lsft = on]
      [] k = "rsft" -> [z EXCEPT !.rsft = on]
      [] k = "ralt" -> [z EXCEPT !.altgr = on]
      [] OTHER -> z
ZchPressKey(zc, s, k) ==
    IF zc.chords = {} THEN [s EXCEPT !.os = OsPress(@, k)]
    ELSE IF k \in Ignored THEN [z |-> NoteModifier(s.z, k, TRUE), os |-> OsPress(s.os, k)]
    ELSE PressChar(zc, EraseSpace(zc, s, k), k)

-----------------------------------------------------------------------------
(* Releases.                                                               *)

AllReleased(z) ==
    [(IF z.prio = {} THEN ClearHistory(z) ELSE z) EXCEPT
        !.toDelete = 0, !.untilDisable = 0, !.state = "Enabled", !.holdCount = 0]
\* Seeded fault: after a chord that did not come about zippychord waits for
\* the next release.
ReleasedStaysDisabled(z) ==
    IF z.isChord
    THEN IF z.keys = {} THEN AllReleased(z) ELSE [z EXCEPT !.untilDisable = 0]
    ELSE SoftReset(z)

Released(z) ==
    IF z.isChord
    THEN IF z.keys = {} THEN AllReleased(z) ELSE [z EXCEPT !.untilDisable = 0]
    ELSE IF z.keys = {} THEN [ClearHistory(z) EXCEPT !.state = "WaitEnable"] ELSE SoftReset(z)

ZchReleaseKey(zc, s, k) ==
    IF zc.chords = {} THEN [s EXCEPT !.os = OsRelease(@, k)]
    ELSE [z |-> IF k \in Ignored THEN NoteModifier(s.z, k, FALSE)
                ELSE Released([StateChange(zc, s.z) EXCEPT !.keys = @ \ {k}]),
          os |-> OsRelease(s.os, k)]
=============================================================================
