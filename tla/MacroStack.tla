----------------------------- MODULE MacroStack -----------------------------
(***************************************************************************)
(* What replaying dynamic macros promises: macros play like procedures.  A *)
(* macro played within another runs to its end before the other goes on,   *)
(* no macro runs within itself, and every event of a macro is sent once,   *)
(* in the order of its recording.                                          *)
(***************************************************************************)
EXTENDS Naturals, Sequences

VARIABLES
    macros,   \* the recorded macros
    frames,   \* the running macros, the innermost first: what is left of each
    sent      \* the event sent by the last step, or NoItem

CONSTANT NoItem

Running(id) == \E i \in DOMAIN frames : frames[i].id = id

Init == frames = <<>> /\ sent = NoItem

Call ==
    \E id \in DOMAIN macros :
        /\ ~Running(id)
        /\ frames' = <<[id |-> id, rest |-> macros[id]]>> \o frames
        /\ sent' = NoItem
        /\ UNCHANGED macros

Send ==
    /\ frames # <<>> /\ Head(frames).rest # <<>>
    /\ sent' = Head(Head(frames).rest)
    /\ frames' = [frames EXCEPT ![1].rest = Tail(@)]
    /\ UNCHANGED macros

Return ==
    /\ frames # <<>> /\ Head(frames).rest = <<>>
    /\ frames' = Tail(frames)
    /\ sent' = NoItem
    /\ UNCHANGED macros

\* a recording is saved, or nothing happens
Other == sent' = NoItem /\ UNCHANGED frames

Next == Call \/ Send \/ Return \/ Other

Spec == Init /\ [][Next]_<<macros, frames, sent>>
=============================================================================
