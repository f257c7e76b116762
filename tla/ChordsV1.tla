------------------------------ MODULE ChordsV1 ------------------------------
(***************************************************************************)
(* Chords of version 1 (handle_chord in keyberon/src/layout.rs): the press *)
(* of a key of a chord group waits until the keys pressed with it are a    *)
(* chord that no further key can extend, or until it must decide.          *)
(*                                                                         *)
(* A group is a record of                                                  *)
(*   timeout  the time for which the group waits                           *)
(*   keys     keys[coord]: the chord keys of the coordinates in the group  *)
(*   chords   the chords [keys, action]                                    *)
(* A waiting state w has the coordinate and the age (delay) of its press,  *)
(* the time left and the ticks for which it has waited.                    *)
(***************************************************************************)
EXTENDS Integers, Sequences, FiniteSets, SequencesExt

LOCAL Less(m, n) == IF m > n THEN m - n ELSE 0
LOCAL Least(S) == CHOOSE i \in S : \A j \in S : i <= j

InGroup(g, coord) == coord \in DOMAIN g.keys
KeysOf(g, coord) == IF InGroup(g, coord) THEN g.keys[coord] ELSE {}
ChordsFor(g, keys) == {ch \in g.chords : ch.keys = keys}
\* get_chord_if_unambiguous: no larger chord contains the keys
Unambiguous(g, keys) ==
    ChordsFor(g, keys) # {} /\ \A ch \in g.chords : keys \subseteq ch.keys => ch.keys = keys

-----------------------------------------------------------------------------
(* What the queue says about a waiting state.                              *)
\* an event from after the time of the group
Late(w, e) == Less(w.delay, e.since) > w.timeout
TimedOut(w) == Less(w.timeout, w.delay) = 0

\* a release of a key of the group, or the press of another key
Ending(w, queue) ==
    {i \in DOMAIN queue : ~Late(w, queue[i]) /\ (queue[i].press # InGroup(w.a, queue[i].coord))}
\* the presses that belong to the chord
Joined(w, queue) ==
    {i \in DOMAIN queue : /\ queue[i].press /\ InGroup(w.a, queue[i].coord) /\ ~Late(w, queue[i])
                          /\ \A j \in Ending(w, queue) : i < j}
ChordEnded(w, queue) == Ending(w, queue) # {} \/ TimedOut(w)

\* a key that was let go is where the action is released
AssociatedCoord(w, queue) ==
    LET e == queue[Least(Ending(w, queue))]
    IN  IF Ending(w, queue) # {} /\ ~e.press THEN e.coord ELSE w.coord

JoinedCoords(w, queue) ==
    LET joined == Joined(w, queue)
        is == SelectSeq([i \in DOMAIN queue |-> i], LAMBDA i : i \in joined)
    IN  [n \in DOMAIN is |-> queue[is[n]].coord]
ChordQueue(w, queue) ==
    LET joined == Joined(w, queue)
        is == SelectSeq([i \in DOMAIN queue |-> i], LAMBDA i : i \notin joined)
    IN  [n \in DOMAIN is |-> queue[is[n]]]
ActiveKeys(w, queue) ==
    KeysOf(w.a, w.coord) \cup UNION {KeysOf(w.a, queue[i].coord) : i \in Joined(w, queue)}

-----------------------------------------------------------------------------
(* decompose_chord_into_action_queue: the keys in the order of their       *)
(* presses are cut into chords, each as long as possible; a key that       *)
(* begins no chord is dropped.                                             *)
KeyOrder(w, queue) ==
    FoldLeft(LAMBDA acc, c : IF KeysOf(w.a, c) \subseteq UNION ToSet(acc) THEN acc
                             ELSE Append(acc, KeysOf(w.a, c)),
             <<KeysOf(w.a, w.coord)>>, JoinedCoords(w, queue))

CoordForChord(w, queue, keys) ==
    LET belongs(c) == KeysOf(w.a, c) \cap keys # {}
        queued == {i \in DOMAIN queue : belongs(queue[i].coord)}
        associated == AssociatedCoord(w, queue)
    IN  CASE belongs(associated) -> associated
          [] ~belongs(associated) /\ belongs(w.coord) -> w.coord
          [] OTHER -> IF queued = {} THEN associated ELSE queue[Least(queued)].coord

ChordEnds(g, order, i) ==
    {j \in i..Len(order) : ChordsFor(g, UNION {order[n] : n \in i..j}) # {}}
QueuedChord(w, queue, keys) ==
    [coord |-> CoordForChord(w, queue, keys), delay |-> w.delay + w.ticks,
     a |-> (CHOOSE ch \in ChordsFor(w.a, keys) : TRUE).action, stack |-> <<>>]

\* Seeded fault: the search for the next chord begins one key too late.
CutSkipping(w, queue, order, ends, acc, i) ==
    IF i < acc.next \/ ends = {} THEN acc
    ELSE [next   |-> Max(ends) + 2,
          queued |-> Append(acc.queued,
                            QueuedChord(w, queue, UNION {order[n] : n \in i..Max(ends)}))]

\* cut off the chord that begins with key i, unless i is part of the last one
Cut(w, queue, order, ends, acc, i) ==
    IF i < acc.next \/ ends = {} THEN acc
    ELSE [next   |-> Max(ends) + 1,
          queued |-> Append(acc.queued,
                            QueuedChord(w, queue, UNION {order[n] : n \in i..Max(ends)}))]

CutIntoChords(w, queue, order) ==
    FoldLeftDomain(LAMBDA acc, i : Cut(w, queue, order, ChordEnds(w.a, order, i), acc, i),
                   [next |-> 1, queued |-> <<>>], order).queued
Decompose(w, queue) == CutIntoChords(w, queue, KeyOrder(w, queue))

-----------------------------------------------------------------------------
(* handle_chord: what becomes of the waiting state, the queue, the actions *)
(* that decomposition queues, and the verdict.  The coordinates of the     *)
(* presses stay with the state: the action is repeated for each of them.   *)
ChordVerdict(w, ended, keys) ==
    CASE ~ended -> IF Unambiguous(w.a, keys) THEN "tap" ELSE "none"
      [] ended  -> IF ChordsFor(w.a, keys) # {} THEN "tap" ELSE "drop"

ChordFired(w, queue, keys) ==
    [w EXCEPT !.coord = AssociatedCoord(w, queue), !.pressed = <<w.coord>> \o JoinedCoords(w, queue),
              !.chord = (CHOOSE ch \in ChordsFor(w.a, keys) : TRUE).action]

ChordResult(w, queue, keys, verdict) ==
    CASE verdict = "none" -> [w |-> w, queue |-> queue, act |-> "none"]
      [] verdict = "tap"  -> [w |-> ChordFired(w, queue, keys), queue |-> ChordQueue(w, queue), act |-> "tap"]
      [] verdict = "drop" -> [w |-> w, queue |-> ChordQueue(w, queue), act |-> "drop",
                              queued |-> Decompose(w, queue)]

HandleChordKeys(w, queue, keys) ==
    ChordResult(w, queue, keys, ChordVerdict(w, ChordEnded(w, queue), keys))
HandleChord(w, queue) ==
    IF Len(queue) = w.prevLen /\ ~TimedOut(w) THEN [w |-> w, queue |-> queue, act |-> "none"]
    ELSE HandleChordKeys([w EXCEPT !.prevLen = Len(queue)], queue, ActiveKeys(w, queue))
=============================================================================
