------------------------------ MODULE ChordsV2 ------------------------------
(***************************************************************************)
(* ChordsV2 of keyberon/src/chord.rs as operators on a record C:           *)
(*   queue    events that may still become part of a chord                 *)
(*   active   the active chords, oldest first: chord, coord, left          *)
(*            (remaining_keys_to_release), status                          *)
(*   ignore   ticks_to_ignore_chord                                        *)
(*   until    ticks_until_next_state_change                                *)
(*   prevLayer, prevLen, next   prev_active_layer, prev_queue_len,         *)
(*            next_coord (the index of the next virtual coordinate)        *)
(* A configuration cv has the set of chords (keys, pending, disabled,      *)
(* release), minIdle, and NumCoords, the number of virtual coordinates.    *)
(* An event has a coordinate <<row, key>>; row 0 holds the real keys.      *)
(* Left out: delay of an active chord, which only the layout reads.  The   *)
(* list of candidates is a set, recomputed for every press: the code       *)
(* shrinks it instead, with the same result.                               *)
(***************************************************************************)
EXTENDS Queues, FiniteSets

CONSTANTS SmolLen,       \* SMOL_Q_LEN (16)
          ChordQueueLen, \* QUEUE_SIZE (32), the capacity of queue
          KeyMax         \* KEY_MAX (850); the coordinates of chords come after it

ASSUME ChordBounds ==
    SmolLen \in Nat \ {0} /\ ChordQueueLen \in Nat /\ SmolLen <= ChordQueueLen /\ KeyMax \in Nat

U16Max == 65535
NoLayer == "u16::MAX"
TriggerTapHold == <<0, 0>>
MaxNat(S) == CHOOSE n \in S : \A m \in S : m <= n
MinNat(S) == CHOOSE n \in S : \A m \in S : n <= m
Monus(m, n) == IF m > n THEN m - n ELSE 0
KeysOf(ps) == {ps[i].coord[2] : i \in DOMAIN ps}

ChordsNew == [queue |-> <<>>, active |-> <<>>, ignore |-> 0, until |-> 0,
              prevLayer |-> NoLayer, prevLen |-> -1, next |-> 0]

IsIdleChv2(C) == C.queue = <<>> /\ C.active = <<>>
AcceptsChords(C) == C.ignore = 0

\* a wrapping deque; several of its users in chord.rs assert that it has room
PushSmol(q, e) == Append(IF Len(q) = SmolLen THEN Tail(q) ELSE q, e)
PushAll(q, es) == FoldLeft(PushSmol, q, es)

NextCoord(cv, n) == IF n + 1 < cv.NumCoords THEN n + 1 ELSE 0

Ended(status) == IF status \in {"Unread", "UnreadReleased"} THEN "UnreadReleased" ELSE "Released"

\* Seeded fault: a chord ends as soon as one of its keys is released.
ReleaseInChordsFirst(active, j) ==
    [i \in DOMAIN active |->
       LET a == active[i]
       IN  IF j \notin a.chord.keys THEN a
           ELSE [a EXCEPT !.left = @ \ {j}, !.status = Ended(@)]]

\* the release of key j ends a chord, or is one of those that an
\* all-released chord waits for; only the key is compared, not the row
ReleaseInChords(active, j) ==
    [i \in DOMAIN active |->
       LET a == active[i]
           left == a.left \ {j}
       IN  IF j \notin a.chord.keys THEN a
           ELSE [a EXCEPT !.left = left,
                          !.status = IF left # {} THEN a.status ELSE Ended(a.status)]]

EndByReleases(active, es) ==
    FoldLeft(LAMBDA a, e : IF e.press THEN a ELSE ReleaseInChords(a, e.coord[2]), active, es)

\* Seeded fault: while no chord may open, releases pass the open ones by.
DrainWithoutLooking(C) ==
    [c |-> [C EXCEPT !.queue = <<>>], q |-> PushAll(<<>>, C.queue)]

DrainWithoutNewActivations(C) ==
    [c |-> [C EXCEPT !.queue = <<>>, !.active = EndByReleases(@, C.queue)],
     q |-> PushAll(<<>>, C.queue)]

RealInputs(q) == {e \in ToSet(q) : e.coord[1] = 0}
DrainVirtualKeys(C) ==
    [c |-> [C EXCEPT !.queue = Retain(@, RealInputs(@))],
     q |-> PushAll(<<>>, Retain(C.queue, ToSet(C.queue) \ RealInputs(C.queue)))]

\* the releases in front of the first press leave
LeadingReleases(queue) ==
    LET presses == {i \in DOMAIN queue : queue[i].press}
    IN  SubSeq(queue, 1, IF presses = {} THEN Len(queue) ELSE MinNat(presses) - 1)
DrainSome(d, gone) ==
    [c |-> [d.c EXCEPT !.queue = SubSeq(@, Len(gone) + 1, Len(@)),
                       !.active = EndByReleases(@, gone)],
     q |-> PushAll(d.q, gone)]
DrainReleases(d) == DrainSome(d, LeadingReleases(d.c.queue))

\* Seeded fault: a chord whose key is already up counts as handed out.
GetActiveChordRead(chord, coord, ups) ==
    [chord |-> chord, coord |-> coord,
     left |-> IF chord.release = "all" THEN chord.keys ELSE {},
     status |-> IF ups # {} /\ chord.release = "first" THEN "Released" ELSE "Unread"]

GetActiveChord(chord, coord, ups) ==
    [chord |-> chord, coord |-> coord,
     left |-> IF chord.release = "all" THEN chord.keys ELSE {},
     status |-> IF ups # {} /\ chord.release = "first" THEN "UnreadReleased" ELSE "Unread"]

\* ups: the releases of presses that still wait; one of them ends the wait.
\* The presses are looked at one by one.  st: acc those so far, cands the
\* chords they still fit into, and until, opened, ignore, next as they will be.
OpenChord(cv, st, exact, ups) ==
    [st EXCEPT !.opened = Append(@, GetActiveChord(CHOOSE ch \in exact : TRUE, st.next, ups)),
               !.next = NextCoord(cv, @)]
Exactly(chords, acc) == {ch \in chords : ch.keys = KeysOf(acc)}

\* ... now no chord fits: open the one that fitted exactly before this press
NoneFits(cv, st, exact, ups) ==
    IF exact = {} THEN [st EXCEPT !.ignore = cv.minIdle] ELSE OpenChord(cv, st, exact, ups)

\* Seeded fault: the time a press has waited is counted again.
UntilTimeoutAnew(st) ==
    LET timeouts == {c.pending : c \in {ch \in st.cands : ch.pending > st.acc[1].since /\ ch.pending # U16Max}}
    IN  IF timeouts = {} THEN 0 ELSE MinNat(timeouts)

\* the ticks until the next of the candidates times out, 0 if none will;
\* a time of u16::MAX counts as none
UntilTimeout(st) ==
    LET timeouts == {c.pending : c \in {ch \in st.cands : ch.pending > st.acc[1].since /\ ch.pending # U16Max}}
    IN  IF timeouts = {} THEN 0 ELSE MinNat(timeouts) - st.acc[1].since

SomeFit(cv, st, exact, ups) ==
    IF Cardinality(st.cands) > 1 THEN [st EXCEPT !.until = UntilTimeout(st)]
    ELSE IF exact # {} THEN [OpenChord(cv, st, exact, ups) EXCEPT !.done = TRUE]
    ELSE [st EXCEPT !.until = UntilTimeout(st), !.next = NextCoord(cv, @)]

Candidates(possible, acc) ==
    {ch \in possible : /\ KeysOf(acc) \subseteq ch.keys
                       /\ acc[1].since - acc[Len(acc)].since <= ch.pending}
WithPress(possible, st, p) ==
    [st EXCEPT !.acc = Append(@, p), !.cands = Candidates(possible, Append(st.acc, p))]
ConsiderPress(cv, possible, ups, st, st1) ==
    IF st.done THEN st
    ELSE IF st1.cands # {} THEN SomeFit(cv, st1, Exactly(st1.cands, st1.acc), ups)
    ELSE NoneFits(cv, [st EXCEPT !.done = TRUE, !.cands = {}], Exactly(possible, st.acc), ups)

NoneSeen(C) == [acc |-> <<>>, cands |-> {}, until |-> C.until, opened |-> <<>>,
                ignore |-> C.ignore, next |-> C.next, done |-> FALSE]
ConsiderPresses(cv, C, possible, presses, ups) ==
    FoldLeft(LAMBDA st, p : ConsiderPress(cv, possible, ups, st, WithPress(possible, st, p)),
             NoneSeen(C), presses)

\* ... and at the end: time is up, or a key of these has been released
TimeIsUp(cv, st, ups) ==
    IF st.until > 0 /\ ups = {} THEN st ELSE NoneFits(cv, st, Exactly(st.cands, st.acc), ups)

\* the presses of an opened chord's keys are consumed
Conclude(C, st) ==
    [C EXCEPT !.active = @ \o st.opened, !.ignore = st.ignore, !.until = st.until, !.next = st.next,
              !.queue = IF st.opened = <<>> THEN @
                        ELSE Retain(@, {e \in ToSet(@) : ~(e.press /\ e.coord[2] \in KeysOf(st.acc))})]

\* the first release in the queue of a key that was pressed in the queue
RelevantReleases(q) ==
    {i \in DOMAIN q : ~q[i].press /\ \E j \in 1..(i - 1) : q[j].press /\ q[j].coord = q[i].coord}
PressesIn(q) == Retain(q, {e \in ToSet(q) : e.press})
PressesBefore(q, releases) ==
    PressesIn(IF releases = {} THEN q ELSE SubSeq(q, 1, MinNat(releases)))

ChordsOfKey(cv, k) == {ch \in cv.chords : k \in ch.keys}
ProcessQueued(cv, C, layer, presses, ups) ==
    IF presses = <<>> THEN C
    ELSE IF ChordsOfKey(cv, presses[1].coord[2]) = {} THEN [C EXCEPT !.ignore = cv.minIdle]
    ELSE LET possible == {ch \in ChordsOfKey(cv, presses[1].coord[2]) : layer \notin ch.disabled}
         IN  Conclude(C, TimeIsUp(cv, ConsiderPresses(cv, C, possible, presses, ups), ups))

ProcessPresses(cv, C, layer) ==
    ProcessQueued(cv, C, layer, PressesBefore(C.queue, RelevantReleases(C.queue)),
                  RelevantReleases(C.queue))

Skips(C, layer) == C.until > 0 /\ C.prevLayer = layer /\ C.prevLen = Len(C.queue)

LookAt(cv, d, layer) == [d EXCEPT !.c = ProcessPresses(cv, @, layer)]
DrainInputs(cv, C, layer) ==
    IF C.ignore > 0 THEN DrainWithoutNewActivations(C)
    ELSE IF Skips(C, layer) THEN [c |-> [C EXCEPT !.until = @ - 1], q |-> <<>>]
    ELSE LookAt(cv, DrainReleases(DrainVirtualKeys(
            [C EXCEPT !.until = 0, !.prevLayer = layer, !.prevLen = Len(C.queue)])), layer)

\* no-op events that tell a waiting tap-hold of a chord opened or ended
Trigger(press) == [press |-> press, coord |-> TriggerTapHold, since |-> 0]
Triggers(d, before) ==
    LET q == IF Len(d.c.active) = before THEN d.q ELSE PushSmol(d.q, Trigger(TRUE))
    IN  [d EXCEPT !.q = IF \E i \in DOMAIN d.c.active :
                              d.c.active[i].status \in {"UnreadReleased", "Released"}
                        THEN PushSmol(q, Trigger(FALSE)) ELSE q]

ReleaseOf(a) == [press |-> FALSE, coord |-> <<0, KeyMax + 1 + a.coord>>, since |-> 0]
Over(active) == {a \in ToSet(active) : a.status = "Released"}
ReleasesOf(as) == [i \in DOMAIN as |-> ReleaseOf(as[i])]
ClearReleasedChords(d) ==
    [c |-> [d.c EXCEPT !.active = Retain(@, ToSet(@) \ Over(@))],
     q |-> PushAll(d.q, ReleasesOf(Retain(d.c.active, Over(d.c.active))))]

\* c: the state after a tick, q: the events for the layout's queue
CountDown(d) == [d EXCEPT !.c.ignore = Monus(@, 1)]
TickChv2(cv, C, layer, cap) ==
    CountDown(ClearReleasedChords(Triggers(
        DrainInputs(cv, [C EXCEPT !.queue = AgeQueue(@, cap)], layer), Len(C.active))))

\* get_action_chv2: the oldest chord whose action has not been handed out
UnreadChords(C) == {i \in DOMAIN C.active : C.active[i].status \in {"Unread", "UnreadReleased"}}
GetActionChv2(C) ==
    IF UnreadChords(C) = {} THEN C
    ELSE [C EXCEPT !.active[MinNat(UnreadChords(C))].status =
                       IF @ = "Unread" THEN "Releasable" ELSE "Released"]

\* push_back_chv2: a full queue gives up its oldest event
PushBackChv2(C, e) ==
    [C EXCEPT !.queue = Append(IF Len(@) = ChordQueueLen THEN Tail(@) ELSE @, e)]
=============================================================================
