------------------------------- MODULE Kanata -------------------------------
(***************************************************************************)
(* One tick of struct Kanata (kanata/mod.rs, tick_states): the layout's    *)
(* tick, the way of its keys to the OS, and the custom actions.            *)
(*                                                                         *)
(* The state is a record K; a tick is a composition of stages from K to K. *)
(*   L, os      the layout and the keyboard output                         *)
(*   ev         the CustomEvent of this tick                               *)
(*   cur, prev, last  cur_keys, prev_keys, last_pressed_key                *)
(*   unmod, cw, seq   unmod and unshift, caps-word, the sequence mode      *)
(*   scroll, move     scrolling and mouse movement, one state per axis     *)
(*   idle       waiting_for_idle and ticks_since_idle                      *)
(*   held       vkeys_pending_release: the ticks left, 0 for none          *)
(*   cancelDur  macro_on_press_cancel_duration                             *)
(*   done, mouse  observed only: the sequence completed and whether the    *)
(*              mouse moved or scrolled in this tick                       *)
(*                                                                         *)
(* Left out: dynamic macros and zippychord, which have models of their     *)
(* own; reload, commands, clipboard, delays and unicode; inertial          *)
(* scrolling and the acceleration, speed and diagonals of mouse movement;  *)
(* on-physical-idle; the order of releases within a tick.                  *)
(***************************************************************************)
EXTENDS KeyFilters, SequenceMode

(* A configuration also has                                                *)
(*   acts   acts[v]: the custom action that the layout knows as v          *)

Axes == {"v", "h"}
Still == [on |-> FALSE]

KanataNew ==
    [L |-> LayoutNew, os |-> OS!OsNew, ev |-> NoCustom,
     cur |-> <<>>, prev |-> <<>>, last |-> "none",
     unmod |-> NoUnmod, cw |-> NoCapsWord, seq |-> NoSequence,
     scroll |-> [x \in Axes |-> Still], move |-> [x \in Axes |-> Still],
     idle |-> [waiting |-> {}, since |-> 0],
     held |-> [c \in conf.coords |-> 0], cancelDur |-> 0,
     done |-> <<>>, mouse |-> FALSE]

NoAct == [k |-> "none"]
Pressed(K) == IF K.ev.t = "press" THEN conf.acts[K.ev.v] ELSE NoAct
Released(K) == IF K.ev.t = "release" THEN conf.acts[K.ev.v] ELSE NoAct

-----------------------------------------------------------------------------
(* handle_keystate_changes, from the layout to the keys in effect.         *)
TickLayoutStage(K) ==
    [K EXCEPT !.L = TickLayout(@), !.done = <<>>, !.mouse = FALSE]
ReadKeys(K) == [K EXCEPT !.ev = K.L.ret, !.cur = KeySeq(K.L)]

\* the custom actions that come before the keys
EarlyActions(K) ==
    [K EXCEPT !.unmod = ReleaseUnmod(PressUnmod(@, Pressed(K)), Released(K)),
              !.seq.noerase = IF Pressed(K).k = "noerase" /\ K.seq.on
                              THEN @ + Pressed(K).count ELSE @]

TakeModifiersAway(K) == [K EXCEPT !.cur = Unshifted(Unmodded(@, K.unmod), K.unmod)]

Overridden(K, scanned) ==
    [K EXCEPT !.cur = OverrideKeys(@, scanned),
              !.L = ReleaseOverridden(MarkOverridden(@, scanned.remove), scanned.remove)]
OverrideStage(K) ==
    IF conf.overrides = <<>> THEN K ELSE Overridden(K, ScanKeys(K.cur, CurrentLayer(K.L)))

CapsWordStage(K) ==
    [K EXCEPT !.cur = CapsWordKeys(K.cw, @), !.cw = TickCapsWord(@, K.cur)]

-----------------------------------------------------------------------------
(* The keys that are gone are released, the new ones are pressed, or go to *)
(* the sequence mode.                                                      *)
ReleaseStage(K) ==
    [K EXCEPT !.os = FoldLeft(OS!OsRelease, @, Without(K.prev, ToSet(K.cur)))]

PressNewKey(K, k) ==
    LET K1 == [K EXCEPT !.prev = Append(@, k), !.last = k,
                        !.seq = IF conf.alwaysOn /\ ~@.on
                                THEN Activate(conf.seqMode, conf.seqTimeout) ELSE @]
    IN  IF K1.seq.on THEN SequencePress(K1, k, ModMask(K.cur))
        ELSE [K1 EXCEPT !.os = OS!OsPress(@, k)]
PressStage(K) ==
    FoldLeft(LAMBDA acc, k : IF Contains(acc.prev, k) THEN acc ELSE PressNewKey(acc, k), K, K.cur)

-----------------------------------------------------------------------------
(* Custom actions.                                                         *)
HasCoord(L, c) ==
    \E i \in DOMAIN L.states : L.states[i].k \in {"key", "layer", "custom", "noop", "repseq"}
                               /\ L.states[i].coord = c
\* the events of handle_fakekey_action
VKeyEvents(L, action, c) ==
    LET presses == CASE action = "press" -> <<TRUE>> [] action = "release" -> <<FALSE>>
                     [] action = "tap" -> <<TRUE, FALSE>> [] action = "toggle" -> <<~HasCoord(L, c)>>
    IN  [i \in DOMAIN presses |-> <<presses[i], c>>]
SendEvents(L, es) == FoldLeft(LAMBDA acc, e : Event(acc, e[1], e[2]), L, es)

\* Seeded fault: the keys that a cancelled macro holds stay down.
CancelMacrosKeepKeys(K) == [K EXCEPT !.L.seqs = <<>>, !.cancelDur = 0]

CancelMacros(K) ==
    [K EXCEPT !.L.seqs = <<>>, !.cancelDur = 0,
              !.L.states = SelectSeq(@, LAMBDA s : s.k \notin {"fake", "repseq"})]

StartLeader(K, a) ==
    IF K.seq.on /\ a.mode # "suppressed" THEN K
    ELSE [K EXCEPT !.seq = Activate(a.mode, a.timeout)]

\* Repeat types the last key again; under caps-word it goes into cur_keys too
RepeatLast(K) ==
    LET capsWord == K.cw.on /\ ~Contains(K.cur, "lsft")
        cur == Append(K.cur, K.last)
        shifted == capsWord /\ CapsWordKeys(K.cw, cur) # cur
        os1 == IF shifted THEN OS!OsPress(K.os, "lsft") ELSE K.os
        os2 == OS!OsTap(OS!OsRelease(os1, K.last), K.last)
    IN  [K EXCEPT !.os = IF shifted THEN OS!OsRelease(os2, "lsft") ELSE os2,
                  !.cur = IF capsWord THEN CapsWordKeys(K.cw, cur) ELSE @,
                  !.cw = IF capsWord /\ ~CapsWordEnds(@, cur) THEN TickCapsWord(@, cur) ELSE @]

Moving(a) == [on |-> TRUE, dir |-> a.dir, left |-> 0, interval |-> a.interval, stops |-> FALSE]

\* the events that a custom action sends to the layout
CustomEvents(K, p, r) ==
    CASE p.k = "vkey"          -> VKeyEvents(K.L, p.action, p.coord)
      [] r.k = "vkeyOnRelease" -> VKeyEvents(K.L, r.action, r.coord)
      [] p.k = "holdFor" /\ K.held[p.coord] = 0 -> VKeyEvents(K.L, "press", p.coord)
      [] OTHER -> <<>>

CustomPress(K, a) ==
    CASE a.k = "leader"   -> StartLeader(K, a)
      [] a.k = "seqCancel" -> IF K.seq.on THEN CancelSequence(K) ELSE K
      [] a.k = "repeatKey" -> RepeatLast(K)
      [] a.k = "cancelOnPress" -> [K EXCEPT !.cancelDur = a.duration]
      [] a.k = "capsWord" -> [K EXCEPT !.cw = IF a.toggle /\ @.on THEN NoCapsWord
                                             ELSE NewCapsWord(a)]
      [] a.k = "onIdle"   -> [K EXCEPT !.idle.since = 0, !.idle.waiting = @ \cup {a}]
      [] a.k = "holdFor"  -> [K EXCEPT !.held[a.coord] = a.duration]
      [] a.k = "wheel"    -> [K EXCEPT !.scroll[a.axis] = Moving(a)]
      [] a.k = "move"     -> [K EXCEPT !.move[a.axis] = Moving(a)]
      [] OTHER -> K

CustomRelease(K, a) ==
    CASE a.k = "cancelOnRelease" -> CancelMacros(K)
      [] a.k = "wheel" -> IF K.scroll[a.axis].on /\ K.scroll[a.axis].dir = a.dir
                          THEN [K EXCEPT !.scroll[a.axis].stops = TRUE] ELSE K
      [] a.k = "move"  -> IF K.move[a.axis].on /\ K.move[a.axis].dir = a.dir
                          THEN [K EXCEPT !.move[a.axis] = Still] ELSE K
      [] OTHER -> K

CustomActions(K, p, r) ==
    CustomRelease(CustomPress([K EXCEPT !.L = SendEvents(@, CustomEvents(K, p, r))], p), r)
CustomStage(K) == CustomActions(K, Pressed(K), Released(K))

-----------------------------------------------------------------------------
(* The rest of tick_states.  A scroll state that was stopped ends when its *)
(* next scroll is due.                                                     *)
TickScroll(s) ==
    IF ~s.on THEN s
    ELSE IF s.left > 0 THEN [s EXCEPT !.left = @ - 1]
    ELSE IF s.stops THEN Still ELSE [s EXCEPT !.left = s.interval - 1]
TickMove(s) ==
    IF ~s.on THEN s ELSE [s EXCEPT !.left = IF @ = 0 THEN s.interval - 1 ELSE @ - 1]
Moves(s) == s.on /\ s.left = 0 /\ ~s.stops

MouseStage(K) ==
    [K EXCEPT !.scroll = [x \in Axes |-> TickScroll(@[x])],
              !.move = [x \in Axes |-> TickMove(@[x])],
              !.mouse = \E x \in Axes : Moves(K.scroll[x]) \/ Moves(K.move[x])]

IdleTimeout(K) ==
    LET due == {w \in K.idle.waiting : K.idle.since >= w.duration}
    IN  [K EXCEPT !.idle.waiting = @ \ due,
                  !.L = FoldLeft(LAMBDA acc, w : SendEvents(acc, VKeyEvents(acc, w.action, w.coord)),
                                 @, SetToSeq(due))]

EndKeys(K) == [K EXCEPT !.prev = K.cur, !.cur = <<>>, !.cancelDur = Dec(@)]

HeldVKeys(K) ==
    LET due == {c \in DOMAIN K.held : K.held[c] = 1}
    IN  [K EXCEPT !.held = [c \in DOMAIN @ |-> Dec(@[c])],
                  !.L = SendEvents(@, SetToSeq({<<FALSE, c>> : c \in due}))]

KeysStage(K) == CapsWordStage(OverrideStage(TakeModifiersAway(EarlyActions(ReadKeys(TickLayoutStage(K))))))
OutputStage(K) == CustomStage(PressStage(OverlapEnds(ReleaseStage(K))))
TickStates(K) ==
    HeldVKeys(EndKeys(IdleTimeout(TickSequence(MouseStage(OutputStage(KeysStage(K)))))))

-----------------------------------------------------------------------------
(* handle_input_event.                                                     *)
HandleInputEvent(K, press, c) ==
    LET K1 == IF press /\ K.cancelDur > 0 THEN CancelMacros(K) ELSE K
    IN  [K1 EXCEPT !.idle.since = 0, !.L = Event(@, press, c)]

-----------------------------------------------------------------------------
(* is_idle, and can_block_update_idle_waiting after a pass of one tick.    *)
\* Seeded fault: a virtual key that is held for a duration does not count.
IsIdleHoldingKeys(K) ==
    /\ LayoutIdle(K.L) /\ ~K.seq.on
    /\ K.cancelDur = 0 /\ ~K.cw.on
    /\ \A x \in Axes : ~K.scroll[x].on /\ ~K.move[x].on
    /\ K.idle.waiting # {} => \A i \in DOMAIN K.L.states : K.L.states[i].k # "key"

IsIdle(K) ==
    /\ LayoutIdle(K.L) /\ ~K.seq.on
    /\ K.cancelDur = 0 /\ ~K.cw.on /\ \A c \in DOMAIN K.held : K.held[c] = 0
    /\ \A x \in Axes : ~K.scroll[x].on /\ ~K.move[x].on
    /\ K.idle.waiting # {} => \A i \in DOMAIN K.L.states : K.L.states[i].k # "key"

MayBlock(K) == IsIdle(K) /\ K.idle.waiting = {} /\ CanBlock(K.L)

CountIdle(K) ==
    [K EXCEPT !.idle.since = IF ~IsIdle(K) THEN 0 ELSE IF K.idle.waiting # {} THEN @ + 1 ELSE @]
=============================================================================
