---------------------------- MODULE ChordFilter ----------------------------
(***************************************************************************)
(* What chords v2 promise to the layout behind them, without a word about  *)
(* how they decide.  Each key has a line of events that wait.  In a step,  *)
(* some of them leave their line, in order.  The leaving presses of the    *)
(* keys of a chord that opens in this step are swallowed; every other      *)
(* event that leaves reaches the layout.  A chord opens only for presses   *)
(* that came within its time, on a layer where it is enabled, and ends by  *)
(* releases of its own keys; a release that already waits may end one as   *)
(* it opens.                                                               *)
(***************************************************************************)
EXTENDS Queues, FiniteSets

CONSTANTS Coords,   \* the coordinates of real and virtual keys
          AgeCap    \* bound: age of a waiting event

VARIABLES
    layer,   \* the active layer
    wait,    \* wait[c]: the events of c that wait
    open,    \* the open chords: chord, coord, the keys left to release, ended
    down     \* coordinates whose press, and not yet release, was forwarded

vars == <<layer, wait, open, down>>

IdsOf(opens) == {o.coord : o \in opens}
Real(k) == <<0, k>>
Presses(k) == {i \in DOMAIN wait[Real(k)] : wait[Real(k)][i].press}

Opened == {o \in open' : o.coord \notin IdsOf(open)}
Swallowed(c) == c[1] = 0 /\ \E o \in Opened : c[2] \in o.chord.keys
\* what is not swallowed, and the part of it that is forwarded
Rest(c) == IF Swallowed(c) THEN Retain(wait[c], {e \in ToSet(wait[c]) : ~e.press}) ELSE wait[c]
Forwarded(c) == SubSeq(Rest(c), 1, Len(Rest(c)) - Len(wait'[c]))
Released(o) == {k \in o.chord.keys : \E i \in DOMAIN Forwarded(Real(k)) :
                                        ~Forwarded(Real(k))[i].press}

Init == wait = [c \in Coords |-> <<>>] /\ open = {} /\ down = {}

\* an event joins the line of its key
Arrive(c) ==
    /\ \E press \in BOOLEAN :
         wait' = [wait EXCEPT ![c] = Append(@, [press |-> press, coord |-> c, since |-> 0])]
    /\ UNCHANGED <<layer, open, down>>

ChangeLayer == layer' # layer /\ UNCHANGED <<wait, open, down>>

\* a chord opens for presses of all its keys, no further apart than its time
Together(o, time) ==
    \A k1, k2 \in o.chord.keys : \E i \in Presses(k1), j \in Presses(k2) :
        wait[Real(k1)][i].since - wait[Real(k2)][j].since <= time
MayOpen(o) ==
    /\ layer \notin o.chord.disabled
    /\ Together(o, o.chord.pending)
    /\ o.left = IF o.chord.release = "all" THEN o.chord.keys ELSE {}
    /\ o.ended => /\ o.chord.release = "first"
                  /\ \E c \in Coords : \E i \in DOMAIN wait'[c] : ~wait'[c][i].press

\* an open chord gives up the keys whose release passes by; the first
\* release or the last one ends it, and only then may it go
Ends(o) == Released(o) # {} /\ (o.chord.release = "first" \/ o.left \subseteq Released(o))
MovesOn(o) ==
    \/ \E o1 \in open' : /\ o1.chord = o.chord /\ o1.coord = o.coord
                         /\ o1.left = o.left \ Released(o) /\ (o1.ended <=> o.ended \/ Ends(o))
    \/ (o.ended \/ Ends(o)) /\ o.coord \notin IdsOf(open')

Step ==
    /\ \A c \in Coords :
         /\ Len(wait'[c]) <= Len(Rest(c))
         /\ wait'[c] = AgeQueue(SubSeq(Rest(c), Len(Forwarded(c)) + 1, Len(Rest(c))), AgeCap)
    /\ \A o \in Opened : MayOpen(o)
    /\ \A o \in open : MovesOn(o)
    /\ down' = {c \in Coords : IF Forwarded(c) = <<>> THEN c \in down
                               ELSE Last(Forwarded(c)).press}
    /\ UNCHANGED layer

Next == Step \/ ChangeLayer \/ \E c \in Coords : Arrive(c)
Spec == Init /\ [][Next]_vars
=============================================================================
