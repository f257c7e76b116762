------------------------------- MODULE Queues -------------------------------
(***************************************************************************)
(* What the queues and lists of the code do to all their elements: retain  *)
(* keeps some of them, and a tick makes every queued event older.          *)
(***************************************************************************)
EXTENDS Integers, Sequences, SequencesExt

Retain(q, kept) == FoldLeft(LAMBDA acc, e : IF e \in kept THEN Append(acc, e) ELSE acc, <<>>, q)

\* tick_qd of every event; the age stops at cap
AgeQueue(queue, cap) ==
    [i \in DOMAIN queue |-> [queue[i] EXCEPT !.since = IF @ < cap THEN @ + 1 ELSE @]]
=============================================================================
