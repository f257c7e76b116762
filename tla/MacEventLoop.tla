---------------------------- MODULE MacEventLoop ----------------------------
(***************************************************************************)
(* The event loop of macOS and its recovery: when the connection to the    *)
(* virtual keyboard is lost, or the screen is locked, the physical         *)
(* keyboards are given back to the system and taken again later.  It       *)
(* models event_loop of src/kanata/macos.rs and, of src/oskbd/macos.rs,    *)
(* KbdIn, the writing of KbdOut and the poller of the screen lock.  The    *)
(* layout maps every key to itself, hardware repeat is off, and so is      *)
(* macos-continue-if-no-devices: a failure to take the keyboards again     *)
(* ends the loop.                                                          *)
(***************************************************************************)
EXTENDS Integers, Sequences

CONSTANTS
    MacKeys,      \* the keys of the keyboard
    MacMapped,    \* MAPPED_KEYS
    MacChanCap,   \* the capacity of the channel to the processing loop
    MaxStrokes,   \* bound: presses and releases
    MaxFlaps,     \* bound: how often the sink is lost
    MaxLocks,     \* bound: how often the screen is locked
    RegrabFails   \* whether keyboards may fail to be taken again

ASSUME MacAssumption ==
    /\ MacMapped \subseteq MacKeys /\ MacChanCap \in Nat \ {0}
    /\ MaxStrokes \in Nat /\ MaxFlaps \in Nat /\ MaxLocks \in Nat
    /\ RegrabFails \in BOOLEAN

VARIABLES
    sink,           \* external: is_sink_ready, the virtual keyboard is connected
    vhid,           \* external: the keys that are down on the virtual keyboard
    locked,         \* external: the screen is locked or another user has the console
    seized,         \* external: the driver keeps the keyboards from the system
    pipe,           \* external: the events wait_key has not returned yet
    macDown,        \* external: the keys held by the user
    screen_paused,  \* SCREEN_GRAB_PAUSED
    grabbed,        \* KbdIn::grabbed
    loc,            \* where the event loop is
    event,          \* the event it has read
    macPressed,     \* PRESSED_KEYS
    macChan,
    output_pressed_since,   \* its keys
    cur_held, prev_held,    \* the keys the layout holds and those it has output
    owed,           \* observed: keys whose release the lost sink has swallowed
    strokes, flaps, locks   \* what the bounds count

macEnv == <<sink, locked, macDown, strokes, flaps, locks>>
macOut == <<vhid, output_pressed_since, owed>>
macIn == <<seized, pipe, grabbed>>
macLoop == <<loc, event, macPressed>>
macProc == <<cur_held, prev_held>>
macVars == <<macEnv, macOut, macIn, macLoop, macProc, screen_paused, macChan>>

NoEvent == [key |-> "none", value |-> "none", foreign |-> FALSE]

MacInit ==
    /\ sink = TRUE /\ vhid = {} /\ locked = FALSE /\ seized = TRUE /\ pipe = <<>>
    /\ macDown = {} /\ screen_paused = FALSE /\ grabbed = TRUE
    /\ loc = "check" /\ event = NoEvent /\ macPressed = {} /\ macChan = <<>>
    /\ output_pressed_since = {} /\ cur_held = {} /\ prev_held = {} /\ owed = {}
    /\ strokes = 0 /\ flaps = 0 /\ locks = 0

-----------------------------------------------------------------------------
(* The user and the system                                                 *)

Stroke(k) ==
    /\ strokes < MaxStrokes /\ strokes' = strokes + 1
    /\ macDown' = IF k \in macDown THEN macDown \ {k} ELSE macDown \cup {k}
    /\ pipe' = IF seized
               THEN Append(pipe, [key |-> k, foreign |-> locked,
                                  value |-> IF k \in macDown THEN "Release" ELSE "Press"])
               ELSE pipe
    /\ UNCHANGED <<sink, locked, flaps, locks, macOut, seized, grabbed, macLoop, macProc,
                   screen_paused, macChan>>

\* the driver retains the report of the keyboard over a loss of the connection
SinkLost ==
    /\ sink /\ flaps < MaxFlaps /\ sink' = FALSE /\ flaps' = flaps + 1
    /\ UNCHANGED <<locked, macDown, strokes, locks, macOut, macIn, macLoop, macProc,
                   screen_paused, macChan>>

SinkBack ==
    /\ ~sink /\ sink' = TRUE
    /\ UNCHANGED <<locked, macDown, strokes, flaps, locks, macOut, macIn, macLoop, macProc,
                   screen_paused, macChan>>

ScreenLocks ==
    /\ ~locked /\ locks < MaxLocks /\ locked' = TRUE /\ locks' = locks + 1
    /\ UNCHANGED <<sink, macDown, strokes, flaps, macOut, macIn, macLoop, macProc,
                   screen_paused, macChan>>

ScreenUnlocks ==
    /\ locked /\ locked' = FALSE
    /\ UNCHANGED <<sink, macDown, strokes, flaps, locks, macOut, macIn, macLoop, macProc,
                   screen_paused, macChan>>

\* the poller looks at the session every 200 ms
LockPoller ==
    /\ screen_paused # locked /\ screen_paused' = locked
    /\ UNCHANGED <<macEnv, macOut, macIn, macLoop, macProc, macChan>>

-----------------------------------------------------------------------------
(* The event loop                                                          *)

\* the health of the output and the session, before the blocking read
CheckHealth ==
    /\ loc = "check"
    /\ loc' = IF ~sink \/ screen_paused THEN "release" ELSE "read"
    /\ UNCHANGED <<macEnv, macOut, macIn, event, macPressed, macProc, screen_paused, macChan>>

ReadKey ==
    /\ loc = "read" /\ pipe # <<>>
    /\ event' = Head(pipe) /\ pipe' = Tail(pipe) /\ loc' = "handle"
    /\ UNCHANGED <<macEnv, macOut, seized, grabbed, macPressed, macProc, screen_paused, macChan>>

\* the event is dropped: the lock may have landed during the read
DropsEvent == screen_paused

\* a key that is not mapped is written at once, without being tracked
WriteThrough ==
    /\ loc = "handle" /\ ~DropsEvent /\ event.key \notin MacMapped
    /\ IF sink
       THEN /\ vhid' = IF event.value = "Press" THEN vhid \cup {event.key}
                                                ELSE vhid \ {event.key}
            /\ loc' = "check"
       ELSE loc' = "release" /\ UNCHANGED vhid
    /\ event' = NoEvent
    /\ UNCHANGED <<macEnv, output_pressed_since, owed, macIn, macPressed, macProc,
                   screen_paused, macChan>>

DropEvent ==
    /\ loc = "handle" /\ DropsEvent /\ loc' = "release" /\ event' = NoEvent
    /\ UNCHANGED <<macEnv, macOut, macIn, macPressed, macProc, screen_paused, macChan>>

\* a second press of a key is a repeat; the send waits when the channel is full
SendEvent ==
    /\ loc = "handle" /\ ~DropsEvent /\ event.key \in MacMapped
    /\ macPressed' = IF event.value = "Press" THEN macPressed \cup {event.key}
                                              ELSE macPressed \ {event.key}
    /\ LET e == IF event.value = "Press" /\ event.key \in macPressed
                THEN [event EXCEPT !.value = "Repeat"] ELSE event
       IN  IF Len(macChan) < MacChanCap
           THEN macChan' = Append(macChan, e) /\ event' = NoEvent /\ loc' = "check"
           ELSE event' = e /\ loc' = "send" /\ UNCHANGED macChan
    /\ UNCHANGED <<macEnv, macOut, macIn, macProc, screen_paused>>

SendWhenRoom ==
    /\ loc = "send" /\ Len(macChan) < MacChanCap
    /\ macChan' = Append(macChan, event) /\ event' = NoEvent /\ loc' = "check"
    /\ UNCHANGED <<macEnv, macOut, macIn, macPressed, macProc, screen_paused>>

\* Seeded fault: the keyboards are given back and still count as grabbed.
StillGrabbed == grabbed
\* KbdIn::grabbed after release_input
AfterRelease == FALSE

\* release_input: the pipe is closed with what is in it
ReleaseInput ==
    /\ loc = "release" /\ loc' = "wait"
    /\ seized' = FALSE /\ pipe' = <<>> /\ grabbed' = AfterRelease
    /\ UNCHANGED <<macEnv, macOut, event, macPressed, macProc, screen_paused, macChan>>

\* both are ready; another second passes before the keyboards are taken
WaitForRecovery ==
    /\ loc = "wait" /\ sink /\ ~screen_paused /\ loc' = "cleanup"
    /\ UNCHANGED <<macEnv, macOut, macIn, event, macPressed, macProc, screen_paused, macChan>>

\* release_tracked_output_keys: a write that fails is dropped, the key is
\* forgotten all the same
ReleaseTracked ==
    /\ loc = "cleanup" /\ loc' = "clear"
    /\ vhid' = IF sink THEN vhid \ output_pressed_since ELSE vhid
    /\ owed' = IF sink THEN owed \ output_pressed_since
               ELSE owed \cup (vhid \cap output_pressed_since)
    /\ output_pressed_since' = {}
    /\ UNCHANGED <<macEnv, macIn, event, macPressed, macProc, screen_paused, macChan>>

ClearPressed ==
    /\ loc = "clear" /\ loc' = "regrab" /\ macPressed' = {}
    /\ UNCHANGED <<macEnv, macOut, macIn, event, macProc, screen_paused, macChan>>

RegrabInput ==
    /\ loc = "regrab"
    /\ \/ /\ grabbed' = TRUE /\ loc' = "check" /\ UNCHANGED pipe
          /\ seized' = IF grabbed THEN seized ELSE TRUE
       \/ ~grabbed /\ RegrabFails /\ loc' = "ended" /\ UNCHANGED macIn
    /\ UNCHANGED <<macEnv, macOut, event, macPressed, macProc, screen_paused, macChan>>

EventLoopStep ==
    \/ CheckHealth \/ ReadKey \/ WriteThrough \/ DropEvent \/ SendEvent \/ SendWhenRoom
    \/ ReleaseInput \/ WaitForRecovery \/ ReleaseTracked \/ ClearPressed \/ RegrabInput

-----------------------------------------------------------------------------
(* The processing loop                                                     *)

TakeEvent ==
    /\ macChan # <<>> /\ macChan' = Tail(macChan)
    /\ LET e == Head(macChan)
       IN  cur_held' = CASE e.value = "Press" -> cur_held \cup {e.key}
                         [] e.value = "Release" -> cur_held \ {e.key}
                         [] OTHER -> cur_held
    /\ UNCHANGED <<macEnv, macOut, macIn, macLoop, prev_held, screen_paused>>

\* write_key drops what a lost sink does not take
OutputKeys ==
    /\ cur_held # prev_held /\ prev_held' = cur_held
    /\ LET ups == prev_held \ cur_held
           downs == cur_held \ prev_held
       IN  IF sink
           THEN /\ vhid' = (vhid \ ups) \cup downs
                /\ output_pressed_since' = (output_pressed_since \ ups) \cup downs
                /\ owed' = (owed \ ups) \ downs
           ELSE /\ owed' = owed \cup (ups \cap vhid)
                /\ UNCHANGED <<vhid, output_pressed_since>>
    /\ UNCHANGED <<macEnv, macIn, macLoop, cur_held, screen_paused, macChan>>

-----------------------------------------------------------------------------
MacNext ==
    \/ \E k \in MacKeys : Stroke(k)
    \/ SinkLost \/ SinkBack \/ ScreenLocks \/ ScreenUnlocks \/ LockPoller
    \/ EventLoopStep \/ TakeEvent \/ OutputKeys

-----------------------------------------------------------------------------
(* What somebody else types while the screen is locked never reaches the   *)
(* layout, not even the key the loop was already waiting for: "one lost    *)
(* keystroke, never a remapped one" (oskbd/macos.rs).  The code does not   *)
(* keep this: the flag of the poller follows the lock by up to 200 ms.     *)
LockedKeysNotRemapped ==
    [][macChan' # macChan /\ Len(macChan') >= Len(macChan)
        => ~macChan'[Len(macChan')].foreign]_macVars

(* Remapping resumes: when the virtual keyboard stays connected and the    *)
(* screen unlocked, the keyboards are eventually taken, and stay taken.    *)
RemappingResumes ==
    <>[](sink /\ ~locked /\ loc # "ended") => <>[](seized /\ grabbed)

(* A release that a lost connection has swallowed is made up for: "output  *)
(* backend unavailable (will recover)".                                    *)
DroppedReleaseRecovers ==
    \A k \in MacMapped : (k \in owed) ~> (k \notin owed \/ ~sink)
=============================================================================
