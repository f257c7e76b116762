------------------------------- MODULE Layout -------------------------------
(***************************************************************************)
(* The layout state machine of keyberon/src/layout.rs: events of the key   *)
(* matrix enter a queue, and once per tick the layout advances its timers, *)
(* settles a waiting tap-hold or tap-dance, or takes one event from the    *)
(* queue and performs the action it finds for it.                          *)
(*                                                                         *)
(* The fields of struct Layout are the fields of one record L, and every   *)
(* method is an operator from L to L; L.ret is the CustomEvent the method  *)
(* returned, L.cac the custom_activation_count of the call under way.      *)
(*                                                                         *)
(* A history is kept only if the configuration has an action that reads   *)
(* it, and its ages only up to the largest time that is asked for.         *)
(***************************************************************************)
EXTENDS Integers, Sequences, FiniteSets, SequencesExt, OneShotState, ChordsV1, TapHoldClosures

Sw == INSTANCE Switch WITH MaxBoolExprDepth <- 8

CONSTANTS
    ExtraLen,    \* EXTRA_WAITING_LEN (8)
    MaxSeqs,     \* capacity of active_sequences (4)
    Modifiers,   \* the key codes that KeyCode::is_mod accepts
    U16Max       \* u16::MAX, where the counters of ticks saturate

(* A configuration is a record of                                          *)
(*   coords  the coordinates the user can press; the first component is 0  *)
(*           for a real key, 1 for a virtual one                           *)
(*   layers  layers[l][coord]: the action of coord on layer l              *)
(*   src     src[coord]: the key code of the defsrc key                    *)
(*   macros  macros[m]: the events of macro m                              *)
(*   rapid   rapid-event-delay                                             *)
(*   quick   concurrent-tap-hold                                           *)
(*   transV2, delegate  the settings of transparent key resolution         *)
(*   queueSize  QUEUE_SIZE (32)                                            *)
(*   reads   the histories that are read, of "keys", "inputs", "streak"    *)
(*   keyTiming  max_key_timing_check                                       *)
VARIABLE conf   \* the configuration in use

REAL_KEY_ROW == 0
NoCoord == <<2, 0>>
NoAction == [k |-> "none"]
Inc(n) == IF n = U16Max THEN n ELSE n + 1    \* saturating_add(1)

-----------------------------------------------------------------------------
(* CustomEvent, and its update in the order NoEvent < Press < Release.     *)
NoCustom == [t |-> "none", v |-> "none"]
Rank(e) == CASE e.t = "none" -> 0 [] e.t = "press" -> 1 [] e.t = "release" -> 2
Update(c, e) == IF Rank(e) > Rank(c) THEN e ELSE c

\* clear and clearRel: the flags CLEAR_ON_NEXT_ACTION and CLEAR_ON_NEXT_RELEASE
State(k, v, coord) == [k |-> k, v |-> v, coord |-> coord, clear |-> FALSE, clearRel |-> FALSE]
Push(L, s) == [L EXCEPT !.states = Append(@, s)]

\* layout.keycodes(), in their order and as a set
KeySeq(L) ==
    LET ks == SelectSeq(L.states, LAMBDA s : s.k \in {"key", "fake"} /\ s.v \notin L.suppress)
    IN  [i \in DOMAIN ks |-> ks[i].v]
Keycodes(L) == {L.states[i].v : i \in {j \in DOMAIN L.states : L.states[j].k \in {"key", "fake"}}}
               \ L.suppress

LayoutNew ==
    [queue |-> <<>>, waiting |-> <<>>, extra |-> <<>>, states |-> <<>>,
     osh |-> NoOneShot, lpt |-> [coord |-> <<0, 0>>, timeout |-> 0],
     tde |-> <<>>, actq |-> <<>>, crq |-> <<>>, dflt |-> "base",
     suppress |-> {}, rpt |-> NoAction, seqs |-> <<>>,
     hist |-> conf.keyTiming, hk |-> <<>>, hi |-> <<>>, ht |-> <<>>, ret |-> NoCustom, cac |-> 0]

-----------------------------------------------------------------------------
(* Layers and transparency.                                                *)
HeldLayers(L) ==
    LET ls == SelectSeq(L.states, LAMBDA s : s.k = "layer")
    IN  [i \in DOMAIN ls |-> ls[Len(ls) + 1 - i].v]
CurrentLayer(L) == IF HeldLayers(L) = <<>> THEN L.dflt ELSE Head(HeldLayers(L))

TransResolutionLayerOrder(L) ==
    LET first(b) == IF conf.delegate /\ CurrentLayer(L) # "base" /\ b THEN <<"base">> ELSE <<>>
    IN  IF conf.transV2 THEN HeldLayers(L) \o <<L.dflt>> \o first(L.dflt # "base")
                     ELSE <<CurrentLayer(L)>> \o first(TRUE)

\* the first action that is not transparent, and the layers below it
ResolveCoord(coord, stack) ==
    LET opaque == {i \in DOMAIN stack : conf.layers[stack[i]][coord].k # "trans"}
        i == CHOOSE j \in opaque : \A j2 \in opaque : j <= j2
    IN  IF opaque # {}
        THEN [a |-> conf.layers[stack[i]][coord], stack |-> SubSeq(stack, i + 1, Len(stack))]
        ELSE [a |-> IF coord[1] = REAL_KEY_ROW THEN conf.src[coord] ELSE [k |-> "noop"],
              stack |-> <<>>]

UpdateCoord(L, coord) ==
    IF coord[1] = REAL_KEY_ROW THEN [L EXCEPT !.lpt.coord = coord] ELSE L
OtherPressed(L, coord, isOneShot) ==
    IF isOneShot THEN L ELSE [L EXCEPT !.osh = PressOther(@, coord, conf.rapid)]
NewSequence(m) == [rem |-> conf.macros[m], delay |-> 0, tapped |-> "none"]
\* a full active_sequences drops its oldest entry
StartSequence(L, m) ==
    [L EXCEPT !.seqs = Append(IF Len(@) = MaxSeqs THEN Tail(@) ELSE @, NewSequence(m))]

\* historical_keys, historical_inputs and the one sans_holds_or_timeouts are
\* hk, hi and ht, the newest first; hist is the age of the newest key
HistoryLen == 8
Shorten(h) == IF Len(h) > HistoryLen THEN Front(h) ELSE h
Record(h, which, event) ==
    IF which \in conf.reads THEN Shorten(<<[event |-> event, ticks |-> 0]>> \o h) ELSE h
Older(h) == [i \in DOMAIN h |-> [h[i] EXCEPT !.ticks = IF @ > conf.keyTiming THEN @ ELSE @ + 1]]
HistoricalKey(L, kc) == [L EXCEPT !.hist = 0, !.hk = Record(@, "keys", kc)]
RecordPress(L, coord) ==
    [L EXCEPT !.hi = Record(@, "inputs", coord), !.ht = Record(@, "streak", coord)]
TickHistories(L) ==
    [L EXCEPT !.hist = IF @ < conf.keyTiming THEN @ + 1 ELSE @,
              !.hk = Older(@), !.hi = Older(@), !.ht = Older(@)]

FirstOf(S) == CHOOSE i \in S : \A j \in S : i <= j
\* exclude_hold_or_timeout_from_history
ExcludeFromStreak(L, coord) ==
    LET is == {i \in DOMAIN L.ht : L.ht[i].event = coord}
    IN  IF is = {} THEN L ELSE [L EXCEPT !.ht = RemoveAt(@, FirstOf(is))]

-----------------------------------------------------------------------------
(* do_action and one operator per kind of action.                          *)
RECURSIVE DoAction(_, _, _, _, _, _)

DoNoOp(L, a, coord, isOneShot) ==
    Push([OtherPressed(L, coord, isOneShot) EXCEPT !.rpt = a], State("noop", "none", coord))

\* the CustomEvent of the inner action is dropped
DoSrc(L, coord, delay, isOneShot) ==
    [DoAction(L, conf.src[coord], coord, delay, isOneShot, <<>>) EXCEPT !.ret = NoCustom]
DoRepeat(L, coord, delay, isOneShot) ==
    IF L.rpt = NoAction THEN L
    ELSE [DoAction(L, L.rpt, coord, delay, isOneShot, <<>>) EXCEPT !.ret = NoCustom]

NewWaiting(a, coord, timeout, delay, ticks, stack) ==
    [a |-> a, coord |-> coord, timeout |-> timeout, delay |-> delay, ticks |-> ticks,
     taps |-> 1, stack |-> stack, prevLen |-> -1, chord |-> NoAction, pressed |-> <<>>]

\* require-prior-idle: another key was pressed shortly before, and is not
\* one that still waits in the queue
TypingStreak(L, a, coord) ==
    LET close(m, n) == m <= n + 2 /\ n <= m + 2
        queued(h) == \E i \in DOMAIN L.queue : L.queue[i].press /\ L.queue[i].coord = h.event
                                              /\ close(L.queue[i].since, h.ticks)
        prior == {i \in DOMAIN L.ht : /\ L.ht[i].event[1] = REAL_KEY_ROW
                                      /\ L.ht[i].event # coord /\ ~queued(L.ht[i])}
    IN  a.idle > 0 /\ prior # {} /\ L.ht[FirstOf(prior)].ticks <= a.idle

HoldTapWaits(L, a, w) ==
    [L EXCEPT !.waiting = IF @ = <<>> THEN <<w>> ELSE @,
              !.extra = IF L.waiting = <<>> THEN @
                        ELSE Append(IF Len(@) = ExtraLen THEN Tail(@) ELSE @, w),
              !.lpt.timeout = a.interval]

DoHoldTap(L, a, coord, delay, isOneShot, stack) ==
    LET ticks == IF ~conf.quick THEN 0
                 ELSE IF delay < Dec(a.timeout) THEN delay ELSE Dec(a.timeout)
        w == NewWaiting(a, coord, a.timeout - ticks,
                        IF delay > ticks THEN delay - ticks ELSE 0, ticks, stack)
        streak == TypingStreak(L, a, coord)
        repress == a.interval > 0 /\ coord = L.lpt.coord /\ L.lpt.timeout > 0
        L1 == IF streak \/ repress
              THEN DoAction(IF streak THEN L ELSE [L EXCEPT !.lpt.timeout = 0],
                            a.tap, coord, delay, isOneShot, stack)
              ELSE HoldTapWaits(L, a, w)
    IN  UpdateCoord(L1, coord)

DoOneShot(L, a, coord, delay) ==
    LET L1 == DoAction(UpdateCoord(L, coord), a.action, coord, delay, TRUE, <<>>)
    IN  [L1 EXCEPT !.rpt = a,
                   !.osh = [PressOneShotKey(@, coord) EXCEPT
                              !.timeout = a.timeout, !.endCfg = a.endCfg,
                              !.keys = @ \cup {coord}]]

DoOneShotIgnore(L, a, coord) ==
    [UpdateCoord(L, coord) EXCEPT !.rpt = a, !.osh.ignore = a.ticks]

DoTapDance(L, a, coord, delay, stack) ==
    LET L1 == UpdateCoord(L, coord)
        fresh == [coord |-> coord, actions |-> a.actions, timeout |-> a.timeout,
                  orig |-> a.timeout, taps |-> 1]
    IN  IF ~a.eager
        THEN [L1 EXCEPT !.waiting = <<NewWaiting(a, coord, a.timeout, delay, 0, stack)>>]
        ELSE DoAction([L1 EXCEPT !.tde = IF @ # <<>> /\ @[1].coord = coord THEN @ ELSE <<fresh>>],
                      a.actions[1], coord, delay, FALSE, stack)

\* a key of a chord group takes the place of whatever was waiting
DoChords(L, a, coord, delay, stack) ==
    [UpdateCoord(L, coord) EXCEPT !.waiting = <<NewWaiting(a, coord, a.timeout, delay, 0, stack)>>]

\* what rpt-any repeats: the keys of an active one-shot together with kcs
Repeatable(L, a, kcs, oneShotCoords) ==
    IF oneShotCoords = {} THEN a
    ELSE LET ks == SelectSeq(L.states, LAMBDA s : s.k = "key" /\ s.coord \in oneShotCoords)
         IN  [k |-> "keys", v |-> [i \in DOMAIN ks |-> ks[i].v] \o kcs]
RetainAll(o, coord, vs) == FoldLeft(LAMBDA acc, v : AddStateToRetain(acc, coord, v), o, vs)
AfterKeys(L, a, kcs, coord, isOneShot) ==
    [L EXCEPT !.osh = IF isOneShot THEN RetainAll(@, coord, kcs) ELSE PressOther(@, coord, conf.rapid),
              !.rpt = Repeatable(L, a, kcs, IF isOneShot THEN {} ELSE OneShotCoords(L.osh))]

DoKeyCode(L, a, coord, isOneShot) ==
    AfterKeys(Push(HistoricalKey(UpdateCoord(L, coord), a.v), State("key", a.v, coord)),
              a, <<a.v>>, coord, isOneShot)

\* an output chord: its keys go away with the next action
DoMultipleKeyCodes(L, a, coord, isOneShot) ==
    LET press(acc, kc) ==
          Push([HistoricalKey(acc, kc) EXCEPT
                  !.suppress = IF kc \notin Modifiers /\ kc \in Keycodes(acc) THEN @ \cup {kc} ELSE @],
               [State("key", kc, coord) EXCEPT !.clear = ~isOneShot])
    IN  AfterKeys(FoldLeft(press, UpdateCoord(L, coord), a.v), a, a.v, coord, isOneShot)

DoMultipleActions(L, a, coord, delay, isOneShot, stack) ==
    LET each(acc, b) ==
          LET L1 == DoAction(acc, b, coord, delay, isOneShot, stack)
          IN  [L1 EXCEPT !.ret = Update(acc.ret, L1.ret)]
    IN  [FoldLeft(each, UpdateCoord(L, coord), a.actions) EXCEPT !.rpt = a]

DoSequence(L, a, coord, isOneShot) ==
    [OtherPressed(StartSequence(L, a.macro), coord, isOneShot) EXCEPT !.rpt = a]
DoRepeatableSequence(L, a, coord, isOneShot) ==
    [OtherPressed(Push(StartSequence(L, a.macro), State("repseq", a.macro, coord)),
                  coord, isOneShot) EXCEPT !.rpt = a]
DoCancelSequences(L, a, coord, isOneShot) ==
    [OtherPressed(L, coord, isOneShot) EXCEPT
       !.seqs = <<>>, !.states = SelectSeq(@, LAMBDA s : s.k # "fake"), !.rpt = a]

\* the layer actions do not become the action to repeat
DoLayer(L, a, coord, isOneShot) ==
    LET L1 == Push(UpdateCoord(L, coord), State("layer", a.v, coord))
    IN  IF isOneShot THEN [L1 EXCEPT !.osh = AddStateToRetain(@, coord, a.v)]
                     ELSE OtherPressed(L1, coord, FALSE)
DoDefaultLayer(L, a, coord, isOneShot) ==
    OtherPressed([UpdateCoord(L, coord) EXCEPT !.dflt = a.v], coord, isOneShot)

\* only the first custom action of a call is performed now
DoCustom(L, a, coord, delay, isOneShot, stack) ==
    LET L1 == [OtherPressed(UpdateCoord(L, coord), coord, isOneShot) EXCEPT
                 !.cac = @ + 1, !.rpt = a]
    IN  IF L1.cac = 1
        THEN [Push(L1, State("custom", a.v, coord)) EXCEPT !.ret = [t |-> "press", v |-> a.v]]
        ELSE [L1 EXCEPT !.actq = Append(@, [coord |-> coord, delay |-> delay, a |-> a,
                                            stack |-> stack])]

DoReleaseState(L, a, coord, isOneShot) ==
    [OtherPressed([L EXCEPT !.states = SelectSeq(@, LAMBDA s :
        ~(s.k \in (IF a.what = "key" THEN {"key", "fake"} ELSE {"layer"}) /\ s.v = a.v))],
        coord, isOneShot) EXCEPT !.rpt = a]

DoFork(L, a, coord, delay, stack) ==
    LET right == \E i \in DOMAIN L.states : L.states[i].k \in {"key", "fake"}
                                            /\ L.states[i].v \in a.triggers
    IN  [DoAction(L, IF right THEN a.right ELSE a.left, coord, delay, FALSE, stack)
           EXCEPT !.rpt = a]

\* what the tests of a switch ask about
SwitchWorld(L) ==
    [keys |-> {L.states[i].v : i \in {j \in DOMAIN L.states : L.states[j].k \in {"key", "fake"}}},
     inputs |-> {L.states[i].coord : i \in {j \in DOMAIN L.states :
                   L.states[j].k \in {"key", "layer", "custom", "noop", "repseq"}}},
     keyHistory |-> L.hk, inputHistory |-> L.hi,
     layers |-> TransResolutionLayerOrder(L), baseLayer |-> L.dflt, devices |-> <<>>]
\* all actions are chosen before the first is performed
DoSwitch(L, a, coord, delay, isOneShot, stack) ==
    LET each(acc, i) ==
          LET L1 == DoAction(acc, a.cases[i].action, coord, delay, isOneShot, stack)
          IN  [L1 EXCEPT !.ret = Update(acc.ret, L1.ret)]
    IN  [FoldLeft(each, L, Sw!Actions(a.cases, SwitchWorld(L))) EXCEPT !.rpt = a]

\* the part of do_action before the match: resolve transparency, end a
\* quick re-press of another key, clear the keys of an output chord
BeforeAction(L, coord) ==
    LET chord == SelectSeq(L.states, LAMBDA s : s.clear)
    IN  [L EXCEPT
           !.lpt.timeout = IF L.lpt.coord # coord /\ coord[1] = REAL_KEY_ROW THEN 0 ELSE @,
           !.states = SelectSeq(@, LAMBDA s : ~s.clear),
           !.osh.pause = @ + 2 * Len(chord),
           !.suppress = @ \cup ({chord[i].v : i \in DOMAIN chord} \ Modifiers),
           !.ret = NoCustom]

DoAction(L0, a0, coord, delay, isOneShot, stack0) ==
    LET r == IF a0.k = "trans" THEN ResolveCoord(coord, stack0) ELSE [a |-> a0, stack |-> stack0]
        a == r.a
        stack == r.stack
        L == BeforeAction(L0, coord)
    IN  CASE a.k = "noop"     -> DoNoOp(L, a, coord, isOneShot)
          [] a.k = "src"      -> DoSrc(L, coord, delay, isOneShot)
          [] a.k = "repeat"   -> DoRepeat(L, coord, delay, isOneShot)
          [] a.k = "holdtap"  -> DoHoldTap(L, a, coord, delay, isOneShot, stack)
          [] a.k = "oneshot"  -> DoOneShot(L, a, coord, delay)
          [] a.k = "ignore"   -> DoOneShotIgnore(L, a, coord)
          [] a.k = "tapdance" -> DoTapDance(L, a, coord, delay, stack)
          [] a.k = "chords"   -> DoChords(L, a, coord, delay, stack)
          [] a.k = "key"      -> DoKeyCode(L, a, coord, isOneShot)
          [] a.k = "keys"     -> DoMultipleKeyCodes(L, a, coord, isOneShot)
          [] a.k = "multi"    -> DoMultipleActions(L, a, coord, delay, isOneShot, stack)
          [] a.k = "macro"    -> DoSequence(L, a, coord, isOneShot)
          [] a.k = "macroRpt" -> DoRepeatableSequence(L, a, coord, isOneShot)
          [] a.k = "cancel"   -> DoCancelSequences(L, a, coord, isOneShot)
          [] a.k = "layer"    -> DoLayer(L, a, coord, isOneShot)
          [] a.k = "dflt"     -> DoDefaultLayer(L, a, coord, isOneShot)
          [] a.k = "custom"   -> DoCustom(L, a, coord, delay, isOneShot, stack)
          [] a.k = "release"  -> DoReleaseState(L, a, coord, isOneShot)
          [] a.k = "fork"     -> DoFork(L, a, coord, delay, stack)
          [] a.k = "switch"   -> DoSwitch(L, a, coord, delay, isOneShot, stack)

\* a call from outside do_action starts with custom_activation_count 0
Perform(L, a, coord, delay, stack) ==
    DoAction([L EXCEPT !.cac = 0], a, coord, delay, FALSE, stack)

-----------------------------------------------------------------------------
(* WaitingState: an undecided tap-hold, tap-dance or chord.                *)
IsReleaseOf(e, coord) == ~e.press /\ e.coord = coord
IsPressOf(e, coord) == e.press /\ e.coord = coord
Sub(m, n) == IF m > n THEN m - n ELSE 0

\* another key was pressed, at least buffer ticks after this one, and released
PressedAndReleased(w, queue, buffer) ==
    \E i, j \in DOMAIN queue :
        /\ i < j /\ queue[i].press /\ IsReleaseOf(queue[j], queue[i].coord)
        /\ Sub(w.ticks, queue[i].since) >= buffer

\* handle_hold_tap: tap or timeout once the key's release is in the queue
\* Seeded fault: the time for which the press waited in the queue is ignored.
DecideByReleaseNoDelay(w, queue) ==
    IF \E i \in DOMAIN queue : IsReleaseOf(queue[i], w.coord) THEN "tap"
    ELSE IF w.timeout = 0 THEN "timeout" ELSE "none"

DecideByRelease(w, queue) ==
    LET rel == {i \in DOMAIN queue : IsReleaseOf(queue[i], w.coord)}
    IN  IF rel # {}
        THEN IF w.timeout >= Sub(w.delay, queue[FirstOf(rel)].since) THEN "tap" ELSE "timeout"
        ELSE IF w.timeout = 0 THEN "timeout" ELSE "none"

\* Seeded fault: the fast path for an unchanged queue also skips the timeout.
HandleHoldTapFastPath(w, queue) ==
    IF Len(queue) = w.prevLen THEN [w |-> w, queue |-> queue, act |-> "none"]
    ELSE [w |-> [w EXCEPT !.prevLen = Len(queue)], queue |-> queue,
          act |-> DecideByRelease(w, queue)]

EarlyHold(w, queue) ==
    CASE w.a.cfg = "default"    -> FALSE
      [] w.a.cfg = "otherPress" -> \E i \in DOMAIN queue : queue[i].press
      [] w.a.cfg = "permissive" -> PressedAndReleased(w, queue, 0)
      [] w.a.cfg = "order"      -> PressedAndReleased(w, queue, w.a.buffer)

\* what the queue says before the key itself is released or times out
EarlyVerdict(w, queue) ==
    IF w.a.cfg = "custom" THEN Closure(w.a.closure, w.coord, queue)
    ELSE IF EarlyHold(w, queue) THEN "hold" ELSE "none"
WithoutTimeout(w, queue) == w.a.cfg = "custom" /\ SkipsTimeout(w.a.closure, queue)
LateVerdict(w, queue, verdict) ==
    IF verdict = "timeout" /\ WithoutTimeout(w, queue)
       /\ \A i \in DOMAIN queue : ~IsReleaseOf(queue[i], w.coord)
    THEN "none" ELSE verdict
Verdict(w, queue, early) ==
    IF early # "none" THEN early ELSE LateVerdict(w, queue, DecideByRelease(w, queue))

HoldTapResult(w, queue) ==
    [w |-> w, queue |-> queue, act |-> Verdict(w, queue, EarlyVerdict(w, queue))]
HandleHoldTap(w, queue) ==
    LET reset == w.a.reset > 0 /\ queue # <<>> /\ queue[Len(queue)].press
    IN  IF Len(queue) = w.prevLen /\ w.timeout > 0
        THEN [w |-> w, queue |-> queue, act |-> "none"]
        ELSE HoldTapResult([w EXCEPT !.timeout = IF reset THEN w.a.reset ELSE @,
                                     !.prevLen = Len(queue)], queue)

\* Seeded fault: one release too many is taken out of the queue.
EvictTapsAndRelease(w, queue, taps) ==
    LET nth(i) == Cardinality({j \in 1..i : IsReleaseOf(queue[j], w.coord)})
        kept == {i \in DOMAIN queue :
                   /\ ~IsPressOf(queue[i], w.coord)
                   /\ IsReleaseOf(queue[i], w.coord) => nth(i) > taps}
    IN  SelectSeq([i \in DOMAIN queue |-> [e |-> queue[i], keep |-> i \in kept]],
                  LAMBDA r : r.keep)

\* the taps of a tap-dance become one press and one release
EvictTaps(w, queue, taps) ==
    LET nth(i) == Cardinality({j \in 1..i : IsReleaseOf(queue[j], w.coord)})
        kept == {i \in DOMAIN queue :
                   /\ ~IsPressOf(queue[i], w.coord)
                   /\ IsReleaseOf(queue[i], w.coord) => nth(i) > taps - 1}
    IN  SelectSeq([i \in DOMAIN queue |-> [e |-> queue[i], keep |-> i \in kept]],
                  LAMBDA r : r.keep)

HandleTapDance(w, queue) ==
    LET others == {i \in DOMAIN queue : queue[i].press /\ queue[i].coord # w.coord}
        upTo == IF others = {} THEN Len(queue) ELSE FirstOf(others)
        taps == IF w.timeout = 0 THEN w.taps
                ELSE 1 + Cardinality({i \in 1..upTo : IsPressOf(queue[i], w.coord)})
        over == w.timeout = 0 \/ others # {} \/ taps >= Len(w.a.actions)
        rest == EvictTaps(w, queue, taps)
        queue1 == IF over THEN [i \in DOMAIN rest |-> rest[i].e] ELSE queue
    IN  IF Len(queue) = w.prevLen /\ w.timeout > 0
        THEN [w |-> w, queue |-> queue, act |-> "none"]
        ELSE [w |-> [w EXCEPT !.prevLen = Len(queue1), !.taps = taps,
                              !.timeout = IF taps > w.taps THEN w.a.timeout ELSE @],
              queue |-> queue1, act |-> IF over THEN "tap" ELSE "none"]

TickWt(w, queue) ==
    LET w1 == [w EXCEPT !.timeout = Dec(@), !.ticks = Inc(@)]
    IN  CASE w.a.k = "tapdance" -> HandleTapDance(w1, queue)
          [] w.a.k = "holdtap"  -> HandleHoldTap(w1, queue)
          [] w.a.k = "chords"   -> HandleChord(w1, queue)

\* the waiting state with index i, 0 for the main one
WaitingAt(L, i) ==
    IF i = 0 THEN L.waiting ELSE IF i \in DOMAIN L.extra THEN <<L.extra[i]>> ELSE <<>>
RemoveWaiting(L, i) ==
    IF i = 0 THEN [L EXCEPT !.waiting = <<>>] ELSE [L EXCEPT !.extra = RemoveAt(@, i)]
WaitedFor(w) == IF w.a.k = "tapdance" THEN 0 ELSE w.delay + w.ticks
TapOf(w) ==
    CASE w.a.k = "holdtap" -> w.a.tap
      [] w.a.k = "chords" -> w.chord
      [] w.a.k = "tapdance" -> w.a.actions[IF w.taps < Len(w.a.actions) THEN w.taps ELSE Len(w.a.actions)]
EndQuickTap(L, coord) == IF coord = L.lpt.coord THEN [L EXCEPT !.lpt.timeout = 0] ELSE L

WaitingIntoHold(L, i) ==
    LET w == WaitingAt(L, i)[1]
        L1 == [EndQuickTap(RemoveWaiting(ExcludeFromStreak(L, w.coord), i), w.coord) EXCEPT
                 !.osh.pause = conf.rapid]
        hold == IF w.a.k = "holdtap" THEN w.a.hold ELSE [k |-> "noop"]
    IN  IF WaitingAt(L, i) = <<>> THEN [L EXCEPT !.ret = NoCustom]
        ELSE Perform(L1, hold, w.coord, WaitedFor(w), w.stack)

\* the simple actions of a chord stay active while any of its keys is held:
\* they are performed again for each, and only the first call reports back
\* and counts in the history of keys
RepeatedCalls(w) ==
    LET as == IF w.chord.k = "multi" THEN w.chord.actions ELSE <<w.chord>>
        simple == SelectSeq(as, LAMBDA b : b.k \in {"key", "keys", "oneshot", "layer"})
    IN  FlattenSeq([n \in DOMAIN simple |->
                      [m \in DOMAIN w.pressed |-> [a |-> simple[n], coord |-> w.pressed[m]]]])

WaitingIntoTap(L, i) ==
    LET w == WaitingAt(L, i)[1]
        calls == <<[a |-> TapOf(w), coord |-> w.coord]>> \o RepeatedCalls(w)
        call(acc, n) ==
          LET L1 == DoAction(IF n <= 2 THEN [acc EXCEPT !.cac = 0] ELSE acc,
                             calls[n].a, calls[n].coord, WaitedFor(w), FALSE, w.stack)
          IN  IF n = 1 THEN L1 ELSE [L1 EXCEPT !.ret = acc.ret, !.hk = acc.hk]
    IN  [FoldLeftDomain(call, RemoveWaiting(L, i), calls) EXCEPT !.osh.pause = conf.rapid]

WaitingIntoTimeout(L, i) ==
    LET w == WaitingAt(L, i)[1]
    IN  Perform(EndQuickTap(RemoveWaiting(ExcludeFromStreak(L, w.coord), i), w.coord),
                w.a.toact, w.coord, WaitedFor(w), w.stack)

Settle(L, i, act) ==
    CASE act = "hold"    -> WaitingIntoHold(L, i)
      [] act = "tap"     -> WaitingIntoTap(L, i)
      [] act = "timeout" -> WaitingIntoTimeout(L, i)
      [] act = "drop"    -> [L EXCEPT !.waiting = <<>>, !.ret = NoCustom]
      [] act = "none"    -> L

\* at most one extra waiting state settles in a tick, and only if nothing
\* else produced a custom event
ProcessExtraWaitings(L) ==
    LET result(acc, i, r) ==
          [L |-> [acc.L EXCEPT !.queue = r.queue, !.extra[i] = r.w], act |-> r.act, i |-> i]
        step(acc, i) ==
          IF acc.act # "none" THEN acc ELSE result(acc, i, TickWt(acc.L.extra[i], acc.L.queue))
        res == FoldLeftDomain(step, [L |-> L, act |-> "none", i |-> 0], L.extra)
    IN  IF L.ret # NoCustom THEN L ELSE Settle(res.L, res.i, res.act)

-----------------------------------------------------------------------------
(* Sequences, the engine of macros.                                        *)
DropFake(L, kc) ==
    [L EXCEPT !.states = SelectSeq(@, LAMBDA s : ~(s.k = "fake" /\ s.v = kc))]
FakePress(L, kc) ==
    OtherPressed(Push(HistoricalKey(L, kc), State("fake", kc, NoCoord)), <<0, 0>>, FALSE)

SequenceEvent(L, e) ==
    CASE e.t \in {"press", "tap"} -> FakePress(L, e.v)
      [] e.t = "release" -> DropFake([L EXCEPT !.osh = HandleRelease(@, <<0, 0>>)], e.v)
      [] e.t = "custom"  -> Push(L, State("seqPending", e.v, NoCoord))
      [] OTHER -> L

SequenceStep(L, s) ==
    LET e == Head(s.rem)
        s1 == [rem    |-> IF e.t = "complete" THEN <<>> ELSE Tail(s.rem),
               delay  |-> IF e.t = "delay" THEN Dec(e.ms) ELSE 0,
               tapped |-> IF e.t = "tap" THEN e.v ELSE "none"]
        putBack(L1, q) == IF q.rem = <<>> THEN L1 ELSE [L1 EXCEPT !.seqs = Append(@, q)]
    IN  IF s.delay > 0 THEN putBack(L, [s EXCEPT !.delay = @ - 1])
        ELSE IF s.tapped # "none" THEN putBack(DropFake(L, s.tapped), [s EXCEPT !.tapped = "none"])
        ELSE putBack(SequenceEvent(L, e), s1)

ProcessSequences(L) ==
    LET L1 == FoldLeft(SequenceStep, [L EXCEPT !.seqs = <<>>], L.seqs)
        rpts == SelectSeq(L1.states, LAMBDA s : s.k = "repseq")
    IN  IF L1.seqs = <<>> /\ rpts # <<>> THEN StartSequence(L1, rpts[Len(rpts)].v) ELSE L1

\* press, then in a later tick release, the first custom action of a sequence
ProcessSequenceCustom(L) ==
    LET states == SelectSeq(L.states, LAMBDA s : s.k # "tombstone")
        cs == {i \in DOMAIN states : states[i].k \in {"seqPending", "seqActive"}}
        i == FirstOf(cs)
        next == IF states[i].k = "seqPending" THEN "seqActive" ELSE "tombstone"
    IN  IF L.states = <<>> \/ L.ret # NoCustom THEN L
        ELSE IF cs = {} THEN [L EXCEPT !.states = states]
        ELSE [L EXCEPT !.states = [states EXCEPT ![i].k = next],
                       !.ret = [t |-> IF next = "seqActive" THEN "press" ELSE "release",
                                v |-> states[i].v]]

-----------------------------------------------------------------------------
(* Events.  A release drops the states of its coordinate, except those of  *)
(* an active one-shot; the first custom action dropped is this call's      *)
(* CustomEvent, the others are queued for the following ticks.             *)
ReleaseKeeps(osh, s, coord) ==
    IF DelaysRelease(osh, coord)
    THEN s.coord # coord \/ (s.k \in {"key", "layer"} /\ <<coord, s.v>> \in osh.retain)
    ELSE s.coord # coord /\ ~s.clearRel

\* Seeded fault: only the first custom action dropped by a release is
\* reported, the others are forgotten.
DequeueReleaseFirstCustom(L, coord) ==
    LET keeps(s) == ReleaseKeeps(L.osh, s, coord)
        cs == SelectSeq(L.states, LAMBDA s : s.k = "custom" /\ s.coord = coord)
    IN  [L EXCEPT !.osh = HandleRelease(@, coord),
                  !.states = SelectSeq(@, keeps),
                  !.ret = IF cs = <<>> THEN NoCustom ELSE [t |-> "release", v |-> cs[1].v]]

DequeueRelease(L, coord) ==
    LET keeps(s) == ReleaseKeeps(L.osh, s, coord)
        cs == SelectSeq(L.states, LAMBDA s : s.k = "custom" /\ s.coord = coord)
    IN  [L EXCEPT !.osh = HandleRelease(@, coord),
                  !.states = SelectSeq(@, keeps),
                  !.ret = IF cs = <<>> THEN NoCustom ELSE [t |-> "release", v |-> cs[1].v],
                  !.crq = IF cs = <<>> THEN @ ELSE @ \o [i \in 1..(Len(cs) - 1) |-> cs[i + 1].v]]

Expired(tde) == tde.timeout = 0 \/ tde.taps >= Len(tde.actions)

DequeuePress(L, coord, since) ==
    LET stack == TransResolutionLayerOrder(L)
        tde == L.tde[1]
        again == L.tde # <<>> /\ coord = L.lpt.coord /\ ~Expired(tde)
        interrupted == L.tde # <<>> /\ coord[1] = REAL_KEY_ROW
        L1 == CASE again -> [L EXCEPT !.tde[1].taps = @ + 1, !.tde[1].timeout = tde.orig]
                [] ~again /\ interrupted -> [L EXCEPT !.tde[1].timeout = 0]
                [] OTHER -> L
    IN  Perform(L1, IF again THEN tde.actions[tde.taps + 1] ELSE [k |-> "trans"], coord, since,
                IF again THEN Tail(stack) ELSE stack)

Dequeue(L, e) == IF e.press THEN DequeuePress(L, e.coord, e.since) ELSE DequeueRelease(L, e.coord)

Queued(press, coord) == [press |-> press, coord |-> coord, since |-> 0]
HoldAll(L) == FoldLeft(WaitingIntoHold, L, [n \in 1..(ExtraLen + 1) |-> n - 1])

\* a full queue: every waiting state is meant to become a hold, the oldest
\* event is processed at once, and what both return is lost
Enqueue(L, e) ==
    IF Len(L.queue) < conf.queueSize THEN [L EXCEPT !.queue = Append(@, e)]
    ELSE [Dequeue(HoldAll([L EXCEPT !.queue = Append(Tail(@), e)]), Head(L.queue)) EXCEPT !.ret = NoCustom]

\* the same at the other end of the queue
EnqueueToFront(L, e) ==
    IF Len(L.queue) < conf.queueSize THEN [L EXCEPT !.queue = <<e>> \o @]
    ELSE [Dequeue(HoldAll([L EXCEPT !.queue = <<e>> \o Front(@)]), Last(L.queue)) EXCEPT !.ret = NoCustom]

Recorded(L, press, coord) == IF press THEN RecordPress(L, coord) ELSE L
Event(L, press, coord) == Enqueue(Recorded(L, press, coord), Queued(press, coord))
EventToFront(L, press, coord) == EnqueueToFront(Recorded(L, press, coord), Queued(press, coord))

-----------------------------------------------------------------------------
(* tick_layout.                                                            *)
Age(L) ==
    LET tde == IF L.tde = <<>> THEN <<>> ELSE <<[L.tde[1] EXCEPT !.timeout = Dec(@)]>>
    IN  [L EXCEPT !.queue = [i \in DOMAIN @ |-> [@[i] EXCEPT !.since = Inc(@)]],
                  !.lpt.timeout = Dec(@),
                  !.tde = IF tde # <<>> /\ Expired(tde[1]) THEN <<>> ELSE tde]

ReleaseOneShots(L) ==
    FoldLeft(LAMBDA acc, c : LET L1 == DequeueRelease(acc, c)
                             IN  [L1 EXCEPT !.ret = Update(acc.ret, L1.ret)],
             [L EXCEPT !.osh = TickOsh(@)], DueReleases(L.osh))

\* settle the waiting state or, if there is none, process one event
SettleMain(L, r) ==
    Settle([L EXCEPT !.queue = r.queue, !.waiting = <<r.w>>,
                     !.actq = IF r.act = "drop" THEN @ \o r.queued ELSE @], 0, r.act)
WaitOrDequeue(L) ==
    IF L.waiting # <<>> THEN SettleMain(L, TickWt(L.waiting[1], L.queue))
    ELSE IF L.extra # <<>> THEN L
    ELSE IF L.osh.pause > 0 THEN [L EXCEPT !.osh.pause = @ - 1]
    ELSE IF L.queue = <<>> THEN L
    ELSE Dequeue([L EXCEPT !.queue = Tail(@)], Head(L.queue))

TickLayout(L0) ==
    LET L1 == [L0 EXCEPT !.ret = NoCustom, !.cac = 0]
        L2 == [L1 EXCEPT !.suppress = {}]
        q == Head(L2.actq)
        L3 == ProcessSequences(Age(L2))
        L4 == ReleaseOneShots(TickHistories(L3))
        L5 == WaitOrDequeue([L4 EXCEPT !.ret = NoCustom])
        L6 == ProcessExtraWaitings([L5 EXCEPT !.ret = Update(L4.ret, @)])
    IN  IF L1.crq # <<>>
        THEN [L1 EXCEPT !.crq = Tail(@), !.ret = [t |-> "release", v |-> Head(L1.crq)]]
        ELSE IF L2.actq # <<>>
        THEN Perform([L2 EXCEPT !.actq = Tail(@)], q.a, q.coord, q.delay, q.stack)
        ELSE ProcessSequenceCustom(L6)

-----------------------------------------------------------------------------
(* What Kanata::is_idle and can_block_update_idle_waiting look at.         *)
\* Seeded fault: an active one-shot does not count as activity.
LayoutIdleIgnoringOneShot(L) ==
    /\ L.queue = <<>> /\ L.waiting = <<>> /\ L.lpt.timeout = 0
    /\ L.seqs = <<>> /\ L.tde = <<>> /\ L.actq = <<>> /\ L.crq = <<>>
    /\ \A i \in DOMAIN L.states : L.states[i].k \notin {"seqPending", "seqActive"}

LayoutIdle(L) ==
    /\ L.queue = <<>> /\ L.waiting = <<>> /\ L.lpt.timeout = 0
    /\ L.osh.timeout = 0 \/ L.osh.keys = {}
    /\ L.seqs = <<>> /\ L.tde = <<>> /\ L.actq = <<>> /\ L.crq = <<>>
    /\ \A i \in DOMAIN L.states : L.states[i].k \notin {"seqPending", "seqActive"}

\* with no reload or on-idle action pending
CanBlock(L) == LayoutIdle(L) /\ L.hist >= conf.keyTiming

\* nothing is left that a further tick would work off
Settled(L) ==
    /\ L.queue = <<>> /\ L.waiting = <<>> /\ L.extra = <<>> /\ L.osh.keys = {}
    /\ L.seqs = <<>> /\ L.actq = <<>> /\ L.crq = <<>>
    /\ \A i \in DOMAIN L.states : L.states[i].k \notin {"seqPending", "seqActive"}
=============================================================================
