---------------------------- MODULE ChordSystem ----------------------------
(***************************************************************************)
(* Chords v2 between the user and the layout: events enter its queue as    *)
(* they happen, and once per tick the layout takes the events that are no  *)
(* longer of use for a chord and the action of a chord that has opened.    *)
(***************************************************************************)
EXTENDS ChordsV2

CONSTANTS
    Coords,       \* the coordinates of real keys <<0, key>> and virtual keys <<1, index>>
    ChordConfig,  \* ChordConfig[c]: a configuration, see ChordsV2
    MaxActive,    \* the capacity of active (10)
    MaxPresses,   \* bound: number of presses
    Burst,        \* bound: number of events between two ticks
    AgeCap        \* bound: age of a queued event (u16::MAX)

\* what the parser lets through; NumCoords is 50, SmolLen 16
IsChord(ch) ==
    /\ DOMAIN ch = {"keys", "pending", "release", "disabled"}
    /\ ch.keys # {} /\ \A k \in ch.keys : <<0, k>> \in Coords
    /\ ch.pending \in 1..U16Max /\ ch.release \in {"all", "first"}
IsConfig(conf) ==
    /\ conf.coords \subseteq Coords
    /\ IsFiniteSet(conf.chords) /\ \A ch \in conf.chords : IsChord(ch)
    /\ conf.minIdle \in Nat /\ conf.minIdle >= 5
    /\ conf.NumCoords \in Nat /\ conf.NumCoords > SmolLen

ASSUME ChordCoords == Coords \subseteq ({0, 1} \X (0..KeyMax)) \ {TriggerTapHold}
ASSUME ChordConfigAssumption == \A c \in DOMAIN ChordConfig : IsConfig(ChordConfig[c])
ASSUME ChordSystemBounds == MaxActive \in Nat /\ MaxPresses \in Nat /\ Burst \in Nat /\ AgeCap \in Nat

VARIABLES
    cv,          \* the configuration
    chv2,        \* the record C of ChordsV2
    layer,       \* the active layer
    phys,        \* coordinates held by the user, or virtual keys held
    presses,     \* number of presses so far
    burst,       \* events since the last tick
    \* observed, not part of the program
    down,        \* coordinates whose press, and not yet release, was forwarded
    performing,  \* performing[n]: chord actions begun less ended, coordinate n
    row,         \* ticks in a row in which a chord opened
    clock        \* the parity of the number of ticks

vars == <<cv, chv2, layer, phys, presses, burst, down, performing, row, clock>>

Init ==
    /\ \E c \in DOMAIN ChordConfig : cv = ChordConfig[c]
    /\ chv2 = ChordsNew
    /\ layer \in cv.layers
    /\ phys = {} /\ presses = 0 /\ burst = 0 /\ down = {} /\ row = 0 /\ clock = 0
    /\ performing = [n \in 0..(cv.NumCoords - 1) |-> 0]

Enqueue(press, c) ==
    /\ burst < Burst
    /\ burst' = burst + 1
    /\ chv2' = PushBackChv2(chv2, [press |-> press, coord |-> c, since |-> 0])

PressKey(c) ==
    /\ c \notin phys /\ presses < MaxPresses
    /\ Enqueue(TRUE, c)
    /\ phys' = phys \cup {c} /\ presses' = presses + 1
    /\ UNCHANGED <<cv, layer, down, performing, row, clock>>

ReleaseKey(c) ==
    /\ c \in phys
    /\ Enqueue(FALSE, c)
    /\ phys' = phys \ {c}
    /\ UNCHANGED <<cv, presses, layer, down, performing, row, clock>>

ChangeLayer ==
    /\ \E l \in cv.layers \ {layer} : layer' = l
    /\ UNCHANGED <<cv, chv2, phys, presses, burst, down, performing, row, clock>>

Forward(held, e) ==
    IF e.coord \notin Coords THEN held
    ELSE IF e.press THEN held \cup {e.coord} ELSE held \ {e.coord}
HandedOut(C) == IF UnreadChords(C) = {} THEN {} ELSE {C.active[MinNat(UnreadChords(C))].coord}
EndedIn(q) == {q[i].coord[2] - KeyMax - 1 : i \in {j \in DOMAIN q : q[j].coord[2] > KeyMax}}

Fetched(r) ==
    /\ chv2' = GetActionChv2(r.c)
    /\ down' = FoldLeft(Forward, down, r.q)
    /\ performing' = [n \in DOMAIN performing |->
                        performing[n] + (IF n \in HandedOut(r.c) THEN 1 ELSE 0)
                                      - (IF n \in EndedIn(r.q) THEN 1 ELSE 0)]

\* the drain within this tick
Drained == DrainInputs(cv, [chv2 EXCEPT !.queue = AgeQueue(@, AgeCap)], layer)

\* tick_chv2 and get_action_chv2, as tick_layout calls them.  The tick that
\* would open a chord beyond the capacity of active panics: no such step.
Tick ==
    /\ Len(Drained.c.active) <= MaxActive
    /\ Fetched(TickChv2(cv, chv2, layer, AgeCap))
    /\ row' = IF chv2'.ignore > 0 THEN row
              ELSE IF Len(Drained.c.active) > Len(chv2.active) THEN row + 1 ELSE 0
    /\ burst' = 0 /\ clock' = 1 - clock
    /\ UNCHANGED <<cv, layer, phys, presses>>

Next == Tick \/ ChangeLayer \/ \E c \in cv.coords : PressKey(c) \/ ReleaseKey(c)
Spec == Init /\ [][Next]_vars
\* ticks go on; only Tick changes clock
FairSpec == Spec /\ WF_clock(clock' = 1 - clock)

-----------------------------------------------------------------------------
\* what one tick can use up is there: room in the wrapping queue that drains
\* (SMOL_Q_LEN), and coordinates that no chord has
Ahead(n) == IF n >= chv2.next THEN n - chv2.next ELSE n + cv.NumCoords - chv2.next
WithinLimits ==
    /\ Len(chv2.queue) + Len(chv2.active) + 2 <= SmolLen
    /\ \A i \in DOMAIN chv2.active : Ahead(chv2.active[i].coord) > Len(chv2.queue) + 1
\* the ages of the events tell when they came, and no virtual key has the
\* index of a key of a chord: a drain looks at the index only
Distinguished ==
    /\ \A i \in DOMAIN chv2.queue : chv2.queue[i].since < AgeCap
    /\ \A c \in cv.coords, ch \in cv.chords : c[2] \in ch.keys => c[1] = 0

\* a chord that takes in another has no longer time than the other
LongerInTime ==
    \A ch1, ch2 \in cv.chords : ch1.keys \subseteq ch2.keys => ch2.pending <= ch1.pending

(* The events of each key stay in order and come out once; a chord opens   *)
(* only for presses within its time, on a layer where it is enabled, takes *)
(* those presses and no others, and ends by the releases of its own keys:  *)
(* chords v2 implement ChordFilter.  A chord with a longer one that allows *)
(* more time breaks the second part, see OpensInTime.                      *)
Line(c) == Retain(chv2.queue, {e \in ToSet(chv2.queue) : e.coord = c})
Waiting == [c \in Coords |-> Line(c)]
OpenChords ==
    {[chord |-> chv2.active[i].chord, coord |-> chv2.active[i].coord,
      left |-> chv2.active[i].left,
      ended |-> chv2.active[i].status \in {"UnreadReleased", "Released"}] :
        i \in DOMAIN chv2.active}
Filter == INSTANCE ChordFilter WITH wait <- Waiting, open <- OpenChords
ImplementsFilter == Filter!Spec

(* No input is held back for longer than a chord could still be completed: *)
(* the shortcut that skips the processing of an unchanged queue must not   *)
(* sleep through the end of that time.  Only chords that open in front of  *)
(* it, one per tick, may hold it up further.                               *)
LongestPending == MaxNat({0} \cup {ch.pending : ch \in cv.chords})
BoundedDelay ==
    \A i \in DOMAIN chv2.queue : chv2.queue[i].since <= LongestPending + 1 + row

(* The layout gets the release of a chord's coordinate after its action,   *)
(* once, even if the keys come up before the action is fetched; when       *)
(* nothing is left in the queue and no chord is active, none is owed.      *)
ActionsPaired ==
    \A n \in DOMAIN performing :
        performing[n] \in {0, 1} /\ (IsIdleChv2(chv2) => performing[n] = 0)

(* After the user has let go, every event comes out and every chord ends;  *)
(* events leave the queue even while keys stay down.                       *)
ChordsComeToRest ==
    /\ <>[](phys = {}) => <>[]IsIdleChv2(chv2)
    /\ chv2.queue # <<>> ~> chv2.queue = <<>>

-----------------------------------------------------------------------------
(* One press of a chord's keys opens it once: a chord that is active and   *)
(* not ended has no twin.                                                  *)
ChordOnce ==
    \A i, j \in DOMAIN chv2.active :
        /\ i # j
        /\ {chv2.active[i].status, chv2.active[j].status} \subseteq {"Unread", "Releasable"}
        => chv2.active[i].chord # chv2.active[j].chord

(* A chord opens only for presses no further apart than its own time:      *)
(* after it "this chord can no longer be completed" (chord.rs).            *)
OpensInTime == [][\A o \in Filter!Opened : Filter!Together(o, o.chord.pending)]_vars
=============================================================================
