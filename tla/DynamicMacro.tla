---------------------------- MODULE DynamicMacro ----------------------------
(***************************************************************************)
(* Recording and replaying dynamic macros: kanata/dynamic_macro.rs.        *)
(*                                                                         *)
(* A recording keeps the physical key events with the number of ticks that *)
(* passed after each.  A replay is one queue of items; a macro played from *)
(* within a replay is put in front of the queue together with a mark of    *)
(* its end.                                                                *)
(***************************************************************************)
EXTENDS Integers, Sequences, FiniteSets, SequencesExt

CONSTANTS
    U16Max,    \* u16::MAX, where the counters of ticks saturate
    Pace       \* ticks between the items of a replay without recorded delays (5)

(* An item: a key event with the delay after it, or the end of macro key.  *)
Item(t, key, delay) == [t |-> t, key |-> key, delay |-> delay]
EndMacro(id) == Item("end", id, 0)
IsEvent(i) == i.t # "end"
NoItem == Item("none", 0, 0)

Plus(m, n) == IF m + n > U16Max THEN U16Max ELSE m + n    \* saturating_add
Minus1(n) == IF n > 0 THEN n - 1 ELSE 0                   \* saturating_sub(1)

-----------------------------------------------------------------------------
(* DynamicMacroRecordState.  waiting holds the last event until the next   *)
(* one tells its delay.                                                    *)
NoRecord == [on |-> FALSE, id |-> 0, waiting |-> <<>>, items |-> <<>>, delay |-> 0]
NewRecord(id) == [NoRecord EXCEPT !.on = TRUE, !.id = id]

\* Seeded fault: the delay of a press goes on into the delay of its release.
FlushKeepingDelay(r) ==
    [r EXCEPT !.items = @ \o [i \in DOMAIN r.waiting |-> [r.waiting[i] EXCEPT !.delay = r.delay]],
              !.waiting = <<>>]
Flush(r) ==
    [r EXCEPT !.items = @ \o [i \in DOMAIN r.waiting |-> [r.waiting[i] EXCEPT !.delay = r.delay]],
              !.waiting = <<>>, !.delay = 0]

AddEvent(r, t, key) == [Flush(r) EXCEPT !.waiting = <<Item(t, key, 0)>>]
TickRecord(r) == IF r.on THEN [r EXCEPT !.delay = Plus(@, 1)] ELSE r

\* the keys that are pressed at the end of items
\* Seeded fault: a key that was released once counts as released.
UnreleasedEver(items) ==
    LET events(t) == {items[i].key : i \in {j \in DOMAIN items : items[j].t = t}}
    IN  events("press") \ events("release")
Unreleased(items) ==
    {items[i].key : i \in {j \in DOMAIN items :
        /\ items[j].t = "press"
        /\ \A k \in DOMAIN items :
              k > j => items[k].t # "release" \/ items[k].key # items[j].key}}

\* the releases follow in the order of a HashSet, that is in any order
Orders(S) == {f \in [1..Cardinality(S) -> S] : \A x \in S : \E i \in DOMAIN f : f[i] = x}
WithReleases(items) ==
    {items \o [i \in DOMAIN ks |-> Item("release", ks[i], 0)] : ks \in Orders(Unreleased(items))}

\* saved: the items of a recording less its last one, the press that ended
\* it, and less the n before that
ItemsToSave(r, n) ==
    LET items == Front(Flush(r).items)
    IN  SubSeq(items, 1, IF Len(items) > n THEN Len(items) - n ELSE 0)
NothingRecorded(r) == r.items = <<>> /\ r.waiting = <<>>

\* record_press beyond the limit saves what was recorded, without the event
\* that waits
LimitReached(r, maxPresses) == r.on /\ Len(r.items) > 2 * maxPresses
RecordEvent(r, t, key) == IF r.on THEN AddEvent(r, t, key) ELSE r

-----------------------------------------------------------------------------
(* DynamicMacroReplayState.                                                *)
NoReplay == [on |-> FALSE, active |-> {}, left |-> 0, items |-> <<>>]

\* Seeded fault: a macro may be played within itself.
PlayMacroAgain(p, id, macros) ==
    IF id \notin DOMAIN macros THEN p
    ELSE IF ~p.on THEN [on |-> TRUE, active |-> {id}, left |-> 0, items |-> macros[id]]
    ELSE [p EXCEPT !.active = @ \cup {id}, !.items = macros[id] \o <<EndMacro(id)>> \o @]

PlayMacro(p, id, macros) ==
    IF id \notin DOMAIN macros \/ id \in p.active THEN p
    ELSE IF ~p.on THEN [on |-> TRUE, active |-> {id}, left |-> 0, items |-> macros[id]]
    ELSE [p EXCEPT !.active = @ \cup {id}, !.items = macros[id] \o <<EndMacro(id)>> \o @]

\* tick_replay_state: the state after it
Due(p) == p.on /\ p.left <= 1

\* Seeded fault: the delay starts to run one tick too early.
TickReplayEarly(p, recorded) ==
    LET i == Head(p.items)
        rest == [p EXCEPT !.items = Tail(@), !.left = Pace]
    IN  IF ~Due(p) THEN [p EXCEPT !.left = Minus1(@)]
        ELSE IF p.items = <<>> THEN NoReplay
        ELSE IF ~IsEvent(i) THEN [rest EXCEPT !.active = @ \ {i.key}]
        ELSE IF recorded THEN [rest EXCEPT !.left = Minus1(i.delay)] ELSE rest

TickReplay(p, recorded) ==
    LET i == Head(p.items)
        rest == [p EXCEPT !.items = Tail(@), !.left = Pace]
    IN  IF ~Due(p) THEN [p EXCEPT !.left = Minus1(@)]
        ELSE IF p.items = <<>> THEN NoReplay
        ELSE IF ~IsEvent(i) THEN [rest EXCEPT !.active = @ \ {i.key}]
        ELSE IF recorded THEN [rest EXCEPT !.left = i.delay] ELSE rest

\* the event it returns, and the delay that tick_ms makes up for
ReplayEvent(p) == IF Due(p) /\ p.items # <<>> /\ IsEvent(Head(p.items)) THEN Head(p.items) ELSE NoItem
Delay(i, recorded) == IF recorded THEN i.delay ELSE 0
=============================================================================
