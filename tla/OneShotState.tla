---------------------------- MODULE OneShotState ----------------------------
(***************************************************************************)
(* OneShotState of keyberon/src/layout.rs as operators on a record:        *)
(*   keys      coordinates of the active one-shot keys                     *)
(*   released  those of them already released, in order                    *)
(*   retain    the states a release of such a key must leave               *)
(*   others    other keys pressed meanwhile, for the release variants      *)
(*   timeout, endCfg, relNext, pause, ignore                               *)
(*             timeout, end_config, release_on_next_tick,                  *)
(*             pause_input_processing_ticks, ticks_to_ignore_events        *)
(* The four lists hold at most ONE_SHOT_MAX_ACTIVE (16) entries in the     *)
(* code; the models stay below that, so overflow is not represented.       *)
(***************************************************************************)
EXTENDS Integers, Sequences

NoOneShot ==
    [keys |-> {}, released |-> <<>>, retain |-> {}, others |-> {}, timeout |-> 0,
     endCfg |-> "press", relNext |-> FALSE, pause |-> 0, ignore |-> 0]

Dec(n) == IF n = 0 THEN 0 ELSE n - 1

\* the coordinates whose delayed release is due in this tick
DueReleases(o) ==
    IF o.keys # {} /\ (o.relNext \/ Dec(o.timeout) = 0) THEN o.released ELSE <<>>

TickOsh(o) ==
    IF o.keys = {} THEN o
    ELSE IF o.relNext \/ Dec(o.timeout) = 0
    THEN [NoOneShot EXCEPT !.endCfg = o.endCfg]
    ELSE [o EXCEPT !.ignore = Dec(@), !.timeout = Dec(@)]

Listening(o) == o.keys # {} /\ o.ignore = 0

\* handle_press(OneShotKey(coord))
PressOneShotKey(o, coord) ==
    IF ~Listening(o) THEN o
    ELSE [o EXCEPT
            !.relNext = @ \/ (o.endCfg \in {"releasePcancel", "pressPcancel"} /\ coord \in o.keys),
            !.released = SelectSeq(@, LAMBDA c : c # coord)]

\* Seeded fault: input processing goes on while the one-shot is released.
PressOtherNoPause(o, coord, delay) ==
    IF ~Listening(o) THEN o
    ELSE IF o.endCfg \in {"press", "pressPcancel"}
    THEN [o EXCEPT !.timeout = IF delay < @ THEN delay ELSE @]
    ELSE [o EXCEPT !.others = @ \cup {coord}]

\* handle_press(Other(coord)); delay is pause_input_processing_delay
PressOther(o, coord, delay) ==
    IF ~Listening(o) THEN o
    ELSE IF o.endCfg \in {"press", "pressPcancel"}
    THEN [o EXCEPT !.timeout = IF delay < @ THEN delay ELSE @, !.pause = delay]
    ELSE [o EXCEPT !.others = @ \cup {coord}]

\* the one-shot coordinates that handle_press(Other(_)) returns for rpt-any
OneShotCoords(o) == IF Listening(o) THEN o.keys ELSE {}

\* handle_release: the release of a one-shot key is delayed
DelaysRelease(o, coord) == coord \in o.keys
HandleRelease(o, coord) ==
    IF DelaysRelease(o, coord) THEN [o EXCEPT !.released = Append(@, coord)]
    ELSE IF /\ o.keys # {} /\ coord \in o.others
            /\ o.endCfg \in {"release", "releasePcancel"}
    THEN [o EXCEPT !.relNext = TRUE]
    ELSE o

AddStateToRetain(o, coord, value) == [o EXCEPT !.retain = @ \cup {<<coord, value>>}]
=============================================================================
