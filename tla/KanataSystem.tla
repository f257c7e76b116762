---------------------------- MODULE KanataSystem ----------------------------
(***************************************************************************)
(* Kanata between its user and the OS: key events come between ticks, and  *)
(* the processing loop ticks once per millisecond unless it may block.     *)
(***************************************************************************)
EXTENDS Kanata

CONSTANTS
    Config,      \* Config[c]: a parsed configuration, see Kanata
    Types,       \* Types[c][k][S]: the characters that a press of k types while the
                 \* keys S are held, for the configurations c whose text is compared
    MaxPresses   \* bound: number of key presses

(* A configuration also has                                                *)
(*   phys     the coordinates the user can press                           *)
(*   perKey   bound: number of presses of one key                          *)
(*   name     its name, c                                                  *)
(*   quietCap  bound: milliseconds of silence that are told apart          *)
ASSUME KanataBounds ==
    /\ U16Max \in Nat /\ ExtraLen \in Nat \ {0} /\ MaxSeqs \in Nat \ {0} /\ MaxPresses \in Nat
\* parse_sequences: no sequence is the beginning of another
ASSUME SequencesAssumption ==
    \A c \in DOMAIN Config : \A s, t \in Config[c].seqs : IsPrefix(s.items, t.items) => s = t

VARIABLES
    kanata,    \* the record K
    phys,      \* the coordinates held down
    presses,   \* presses[c]: how often c was pressed
    \* observed, not part of the program
    typed,     \* the text that the presses so far should type
    before,    \* the text when the sequence mode was last entered
    quiet,     \* milliseconds since the last key event
    idleAt,    \* idleAt[c]: quiet when c was last pressed
    clock      \* changes with every tick

vars == <<conf, kanata, phys, presses, typed, before, quiet, idleAt, clock>>

Init ==
    /\ \E c \in DOMAIN Config : conf = Config[c]
    /\ kanata = KanataNew
    /\ phys = {}
    /\ presses = [c \in conf.phys |-> 0]
    /\ typed = <<>>
    /\ before = <<>>
    /\ quiet = conf.quietCap
    /\ idleAt = [c \in conf.phys |-> 0]
    /\ clock = 0

ChecksText == conf.name \in DOMAIN Types

PressKey(c) ==
    /\ c \notin phys
    /\ presses[c] < conf.perKey
    /\ FoldFunction(+, 0, presses) < MaxPresses
    /\ kanata' = HandleInputEvent(kanata, TRUE, c)
    /\ phys' = phys \cup {c}
    /\ presses' = [presses EXCEPT ![c] = @ + 1]
    /\ typed' = IF ChecksText THEN typed \o Types[conf.name][c][phys] ELSE typed
    /\ idleAt' = [idleAt EXCEPT ![c] = quiet]
    /\ quiet' = 0
    /\ UNCHANGED <<conf, before, clock>>

ReleaseKey(c) ==
    /\ c \in phys
    /\ kanata' = HandleInputEvent(kanata, FALSE, c)
    /\ phys' = phys \ {c}
    /\ quiet' = 0
    /\ UNCHANGED <<conf, presses, typed, before, idleAt, clock>>

Longer(ms) == IF ms < conf.quietCap THEN ms + 1 ELSE ms

\* a pass of one millisecond of the processing loop
Tick ==
    /\ ~MayBlock(kanata)
    /\ kanata' = CountIdle(TickStates(kanata))
    /\ before' = IF kanata.seq.on \/ ~kanata'.seq.on THEN before
                 ELSE IF conf.alwaysOn THEN kanata.os.text ELSE kanata'.os.text
    /\ clock' = 1 - clock
    /\ quiet' = Longer(quiet)
    /\ UNCHANGED <<conf, phys, presses, typed, idleAt>>

\* a millisecond for which the loop blocks on the channel; the ticks that it
\* missed are not made up for
Sleep ==
    /\ MayBlock(kanata)
    /\ quiet < conf.quietCap
    /\ quiet' = Longer(quiet)
    /\ UNCHANGED <<conf, kanata, phys, presses, typed, before, idleAt, clock>>

Next == Tick \/ Sleep \/ \E c \in conf.phys : PressKey(c) \/ ReleaseKey(c)

Spec == Init /\ [][Next]_vars

(* The loop polls until it may block.  Only Tick changes clock, and it is  *)
(* enabled unless the loop may block: this is weak fairness of Tick.       *)
FairSpec == Spec /\ WF_clock(~MayBlock(kanata) /\ clock' = 1 - clock)

-----------------------------------------------------------------------------
(* When the user holds no key and the loop blocks, no key is down at the   *)
(* OS but those of a virtual key that was left pressed.                    *)
NothingLeftDown ==
    LET held == {s \in ToSet(kanata.L.states) : s.k = "key" /\ s.coord[1] # REAL_KEY_ROW}
    IN  phys = {} /\ MayBlock(kanata) => kanata.os.down \subseteq {s.v : s \in held}

(* The loop blocks only when nothing is due: another tick would change     *)
(* nothing, neither at the OS nor in any queue, timer or mode, but for the *)
(* pause after a one-shot or an output chord, which has nothing to delay,  *)
(* and the ages in the histories, of which PriorIdleByRealTime speaks.     *)
SleepMissesNothing ==
    MayBlock(kanata)
    => TickStates(kanata) = [kanata EXCEPT !.ev = NoCustom, !.mouse = FALSE, !.done = <<>>,
                                           !.L.ret = NoCustom, !.L.cac = 0,
                                           !.L.suppress = {}, !.L.osh.pause = Dec(@),
                                           !.L.hk = Older(@), !.L.hi = Older(@), !.L.ht = Older(@)]

(* Overrides, unmod, unshift and the clearing of output chords: the text   *)
(* is what each key means under the modifiers held when it was pressed,    *)
(* whatever is pressed or released before it is processed or afterwards.   *)
TypesAsConfigured ==
    ChecksText => /\ IsPrefix(kanata.os.text, typed)
                  /\ MayBlock(kanata) => kanata.os.text = typed

(* A completed sequence is made of the last keys pressed since the leader, *)
(* in their order, however its spelling was relaxed on the way.            *)
SequenceWasTyped ==
    LET keys == SelectSeq(kanata.done, LAMBDA it : it # Marker)
        raw == kanata.seq.raw
    IN  kanata.done # <<>>
        => IsSuffix([i \in DOMAIN keys |-> keys[i].key], [i \in DOMAIN raw |-> LeftKey(raw[i])])

(* With visible-backspaced a completed sequence erases itself and nothing  *)
(* else: the text from before the leader and the keys typed before the     *)
(* sequence began stay.                                                    *)
SequenceErasesItself ==
    LET raw == SelectSeq(kanata.seq.raw, LAMBDA k : k \notin Modifiers)
    IN  kanata.done # <<>> /\ kanata.seq.mode = "visible"
        => /\ IsPrefix(before, kanata.os.text)
           /\ Len(kanata.os.text) = Len(before) + Len(raw) - Len(Typed(kanata.done))
           /\ kanata.os.erased = 0

(* Once the user has stopped, the processing loop comes to block for good: *)
(* every timer and every mode ends by itself.                              *)
ComesToRest == <>[](phys = {}) => <>[]MayBlock(kanata)

(* A waiting tap-hold, tap-dance or chord is decided even if its key and   *)
(* every other one stay held: the timeout elapses.                         *)
WaitingEnds == kanata.L.waiting # <<>> ~> kanata.L.waiting = <<>>

(* require-prior-idle: a plain tap-hold that is still held has become its  *)
(* tap only if no more than that time had passed, on the user's clock,     *)
(* since the last key event before its press.                              *)
PriorIdleByRealTime ==
    \A c \in phys :
        LET a == conf.layers["base"][c] IN
        conf.quietCap > 0 /\ a.k = "holdtap" /\ a.cfg = "default" /\ a.tap.v \in Keycodes(kanata.L)
        => idleAt[c] <= a.idle
=============================================================================
