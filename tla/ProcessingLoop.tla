--------------------------- MODULE ProcessingLoop ---------------------------
(***************************************************************************)
(* The threads of a running kanata and what they share.                    *)
(*                                                                         *)
(*   - the event loop (Kanata::event_loop, src/kanata/linux.rs) reads the  *)
(*     input devices, passes unmapped keys straight to the OS and sends    *)
(*     mapped ones on a bounded channel;                                   *)
(*   - the processing loop (Kanata::start_processing_loop,                 *)
(*     src/kanata/mod.rs) either blocks on that channel or polls it and    *)
(*     advances the layout by the elapsed milliseconds;                    *)
(*   - one thread per TCP client (src/tcp_server.rs) changes the shared    *)
(*     Kanata value under its mutex and then wakes the processing loop     *)
(*     through the same channel.                                           *)
(*                                                                         *)
(* The Kanata mutex is held by the processing loop exactly while           *)
(* pc = "handle"; every other critical section is a single action.         *)
(*                                                                         *)
(* The layout is abstracted to what the loop looks at: its queue of        *)
(* events, of which one is processed per tick, and the NormalKey states    *)
(* that the pressed keys give.  A key listed in LrldKeys carries the       *)
(* live-reload action instead of a key code.                               *)
(***************************************************************************)
EXTENDS Integers, Sequences, FiniteSets

CONSTANTS
    Keys,            \* the key codes of the model
    Modifiers,       \* the keys that OsCode::is_modifier accepts
    LrldKeys,        \* keys whose action is lrld
    WheelKeys,       \* scroll wheel codes, which only produce Tap events
    VKeys,           \* virtual keys, which only TCP clients act on
    Cfgs,            \* the configuration files of cfg_paths
    MappedBy,        \* MappedBy[c]: the keys that configuration c maps
    FirstCfg,        \* the configuration loaded at startup
    Clients,         \* the connected TCP clients
    ChanCap,         \* capacity of the key event channel (100 in main.rs)
    SortRun,         \* the longest batch that sort_by sorts by insertion (20)
    InitTicks,       \* iterations of the release-only start phase (500)
    IdleLimit,       \* ticks after which reload no longer waits (1000)
    ElapsedMs,       \* the values of ms_elapsed, the length of an iteration
    ReloadOutcomes,  \* the ways do_live_reload may end
    HeldAtStart,     \* keys the user holds while kanata starts
    DropsReleases,   \* a device may vanish while its keys are held
    ClientsDrop,     \* a client connection may break
    MaxInputs,       \* bound: number of physical presses and wheel steps
    MaxCommands,     \* bound: number of TCP commands
    MaxActivity      \* bound: number of inputs and commands together

ASSUME KeysAssumption ==
    /\ Modifiers \subseteq Keys /\ LrldKeys \subseteq Keys
    /\ WheelKeys \subseteq Keys /\ VKeys \subseteq Keys /\ HeldAtStart \subseteq Keys
ASSUME CfgAssumption ==
    /\ FirstCfg \in Cfgs
    /\ MappedBy \in [Cfgs -> SUBSET Keys]
    /\ ReloadOutcomes \subseteq {"ok", "parse", "late"}
ASSUME BoundAssumption ==
    /\ ChanCap \in Nat \ {0} /\ SortRun \in Nat /\ InitTicks \in Nat /\ IdleLimit \in Nat
    /\ ElapsedMs \subseteq Nat
    /\ MaxInputs \in Nat /\ MaxCommands \in Nat /\ MaxActivity \in Nat
    /\ DropsReleases \in BOOLEAN /\ ClientsDrop \in BOOLEAN

VARIABLES
    \* the user and the OS
    phys,       \* keys physically held
    osDown,     \* keys the OS believes are held
    inputs,     \* number of inputs made, bounded by MaxInputs
    \* the event loop
    inEvent,    \* the event being dispatched and where it has got to
    alive,      \* FALSE once event_loop has bailed out
    \* the channel
    chan,
    \* the processing loop
    pc,
    initLeft,   \* iterations left of the start phase
    batch,      \* the events collected from the channel
    \* the Kanata value
    queue,      \* layout.queue
    states,     \* the keys of layout.states' NormalKey entries
    prevKeys,   \* prev_keys, the output keys of the last tick
    reloadReq,  \* live_reload_requested
    curCfg,     \* cur_cfg_idx
    loaded,     \* the configuration in use
    lastOk,     \* last_reload_ok
    ticksIdle,  \* ticks_since_idle
    \* the TCP clients
    cpc,        \* where each client's thread is
    cmds        \* number of commands received, bounded by MaxCommands

world   == <<phys, osDown, inputs>>
reader  == <<inEvent, alive>>
engine  == <<queue, states, prevKeys, reloadReq, curCfg, loaded, lastOk, ticksIdle>>
clients == <<cpc, cmds>>
vars == <<world, reader, chan, pc, initLeft, batch, engine, clients>>

Event == [code : Keys, value : {"press", "release", "tap"}]
WakeUp == [code |-> "reserved", value |-> "wakeup"]
NoEvent == [code |-> "none", value |-> "none"]
QueuedEvent == [code : Keys, value : {"press", "release"}]

WorldType == phys \in SUBSET Keys /\ osDown \in SUBSET Keys /\ inputs \in 0..MaxInputs
ReaderType ==
    /\ inEvent \in [ev : Event \cup {NoEvent}, stage : {"none", "read", "raw", "send"}]
    /\ inEvent.stage # "none" => inEvent.ev \in Event
    /\ alive \in BOOLEAN
LoopType ==
    /\ chan \in Seq(Event \cup {WakeUp})
    /\ pc \in {"init", "check", "block", "poll", "collect", "handle", "tick"}
    /\ initLeft \in 0..InitTicks
    /\ batch \in Seq(Event \cup {WakeUp})
EngineType ==
    /\ queue \in Seq(QueuedEvent)
    /\ states \in SUBSET Keys /\ prevKeys \in SUBSET Keys
    /\ reloadReq \in BOOLEAN /\ lastOk \in BOOLEAN
    /\ curCfg \in Cfgs /\ loaded \in Cfgs
    /\ ticksIdle \in 0..(IdleLimit + 1)
ClientType ==
    /\ cpc \in [Clients -> {"ready", "waiting", "done", "timedout", "wake", "closed"}]
    /\ cmds \in 0..MaxCommands

(* Every variable holds a value the program's types allow; in particular   *)
(* nothing but presses and releases of keys ever enters the layout queue.  *)
TypeOK == WorldType /\ ReaderType /\ LoopType /\ EngineType /\ ClientType

Init ==
    /\ phys = HeldAtStart /\ osDown = HeldAtStart /\ inputs = 0
    /\ inEvent = [ev |-> NoEvent, stage |-> "none"] /\ alive = TRUE
    /\ chan = <<>>
    /\ pc = "init" /\ initLeft = InitTicks /\ batch = <<>>
    /\ queue = <<>> /\ states = {} /\ prevKeys = {}
    /\ reloadReq = FALSE /\ curCfg = FirstCfg /\ loaded = FirstCfg
    /\ lastOk = TRUE /\ ticksIdle = 0
    /\ cpc = [c \in Clients |-> "ready"] /\ cmds = 0

(* An input counts once towards MaxActivity and a command twice.          *)
Spent == inputs + 2 * cmds

-----------------------------------------------------------------------------
(* The mutex around the Kanata value: held across several steps only by    *)
(* the processing loop, from the reload check to the end of the ticks.     *)
Unlocked == pc # "handle"

(* The event loop: KbdIn::read hands over one event; PRESSED_KEYS, which   *)
(* only the on-physical-idle actions read, is left out.                    *)
ReadPress(k) ==
    /\ alive /\ inEvent.stage = "none" /\ inputs < MaxInputs /\ Spent < MaxActivity
    /\ k \notin phys /\ k \notin WheelKeys \cup VKeys
    /\ phys' = phys \cup {k}
    /\ inputs' = inputs + 1
    /\ inEvent' = [ev |-> [code |-> k, value |-> "press"], stage |-> "read"]
    /\ UNCHANGED <<osDown, alive, chan, pc, initLeft, batch, engine, clients>>

ReadRelease(k) ==
    /\ alive /\ inEvent.stage = "none"
    /\ k \in phys
    /\ phys' = phys \ {k}
    /\ inEvent' = [ev |-> [code |-> k, value |-> "release"], stage |-> "read"]
    /\ UNCHANGED <<osDown, inputs, alive, chan, pc, initLeft, batch, engine, clients>>

ReadWheel(k) ==
    /\ alive /\ inEvent.stage = "none" /\ inputs < MaxInputs /\ Spent < MaxActivity
    /\ k \in WheelKeys
    /\ inputs' = inputs + 1
    /\ inEvent' = [ev |-> [code |-> k, value |-> "tap"], stage |-> "read"]
    /\ UNCHANGED <<phys, osDown, alive, chan, pc, initLeft, batch, engine, clients>>

(* A device disappears while k is held on it: no release event arrives.    *)
LoseRelease(k) ==
    /\ DropsReleases
    /\ k \in phys
    /\ phys' = phys \ {k}
    /\ UNCHANGED <<osDown, inputs, reader, chan, pc, initLeft, batch, engine, clients>>

(* The user lets go of k.                                                  *)
LetGo(k) == k \in phys /\ (ReadRelease(k) \/ LoseRelease(k))

(* MAPPED_KEYS is a global of its own, read before the Kanata lock.        *)
LookUpMapped ==
    /\ alive /\ inEvent.stage = "read"
    /\ inEvent' = [inEvent EXCEPT !.stage =
                     IF inEvent.ev.code \in MappedBy[loaded] THEN "send" ELSE "raw"]
    /\ UNCHANGED <<world, alive, chan, pc, initLeft, batch, engine, clients>>

(* KbdOut::write_raw of an unmapped key, under the lock.  A wheel step     *)
(* leaves no key down.                                                     *)
WriteRaw ==
    /\ alive /\ inEvent.stage = "raw" /\ Unlocked
    /\ osDown' = CASE inEvent.ev.value = "press"   -> osDown \cup {inEvent.ev.code}
                   [] inEvent.ev.value = "release" -> osDown \ {inEvent.ev.code}
                   [] OTHER -> osDown
    /\ inEvent' = [ev |-> NoEvent, stage |-> "none"]
    /\ UNCHANGED <<phys, inputs, alive, chan, pc, initLeft, batch, engine, clients>>

(* tx.try_send: on a full channel event_loop bails and kanata ends.        *)
TrySend ==
    /\ alive /\ inEvent.stage = "send"
    /\ inEvent' = [ev |-> NoEvent, stage |-> "none"]
    /\ IF Len(chan) < ChanCap
         THEN chan' = Append(chan, inEvent.ev) /\ alive' = alive
         ELSE chan' = chan /\ alive' = FALSE
    /\ UNCHANGED <<world, pc, initLeft, batch, engine, clients>>

-----------------------------------------------------------------------------
(* Seeded fault: the start phase forwards presses as well as releases.     *)
InitStepForwardsAll ==
    /\ alive /\ pc = "init" /\ initLeft > 0
    /\ initLeft' = initLeft - 1
    /\ chan' = IF chan = <<>> THEN chan ELSE Tail(chan)
    /\ osDown' = CASE chan = <<>> -> osDown
                   [] chan # <<>> /\ Head(chan).value = "release" -> osDown \ {Head(chan).code}
                   [] chan # <<>> /\ Head(chan).value = "press" -> osDown \cup {Head(chan).code}
                   [] OTHER -> osDown
    /\ UNCHANGED <<phys, inputs, reader, pc, batch, engine, clients>>

(* The start phase: for InitTicks iterations at most one event each is     *)
(* taken; a release goes to the OS, anything else is thrown away.          *)
InitStep ==
    /\ alive /\ pc = "init" /\ initLeft > 0
    /\ initLeft' = initLeft - 1
    /\ chan' = IF chan = <<>> THEN chan ELSE Tail(chan)
    /\ osDown' = IF chan # <<>> /\ Head(chan).value = "release"
                   THEN osDown \ {Head(chan).code} ELSE osDown
    /\ UNCHANGED <<phys, inputs, reader, pc, batch, engine, clients>>

InitDone ==
    /\ alive /\ pc = "init" /\ initLeft = 0
    /\ pc' = "check"
    /\ UNCHANGED <<world, reader, chan, initLeft, batch, engine, clients>>

(* Seeded fault: events waiting in the layout queue are forgotten.         *)
IsIdleIgnoringQueue == reloadReq => states = {}

(* Kanata::is_idle.  While a reload is pending a held key is not idle.     *)
IsIdle ==
    /\ queue = <<>>
    /\ reloadReq => states = {}

(* Kanata::can_block_update_idle_waiting: ticks_since_idle grows by the    *)
(* milliseconds of the previous iteration, and only while it is needed.    *)
Check ==
    /\ alive /\ pc = "check"
    /\ \E ms \in ElapsedMs :
         ticksIdle' = CASE ~IsIdle -> 0
                        [] IsIdle /\ reloadReq -> IF ticksIdle + ms > IdleLimit
                                                    THEN IdleLimit + 1 ELSE ticksIdle + ms
                        [] OTHER -> ticksIdle
    /\ pc' = IF IsIdle /\ ~reloadReq THEN "block" ELSE "poll"
    /\ UNCHANGED <<world, reader, chan, initLeft, batch, queue, states, prevKeys,
                   reloadReq, curCfg, loaded, lastOk, clients>>

(* rx.recv() and rx.try_recv() returning the first event of a batch.       *)
RecvFirst ==
    /\ alive /\ pc \in {"block", "poll"} /\ chan # <<>>
    /\ batch' = <<Head(chan)>>
    /\ chan' = Tail(chan)
    /\ pc' = "collect"
    /\ UNCHANGED <<world, reader, initLeft, engine, clients>>

(* rx.try_recv() returning Empty: tick, then sleep 1 ms.                   *)
PollEmpty ==
    /\ alive /\ pc = "poll" /\ chan = <<>>
    /\ pc' = "tick"
    /\ UNCHANGED <<world, reader, chan, initLeft, batch, engine, clients>>

IsPress(e) == e.value = "press"

(* Seeded fault: all presses are moved before releases.                    *)
SortsPressesFirst(e, d) == IsPress(e) /\ ~IsPress(d)

(* The comparator of collect_and_sort_events: e is placed before d.        *)
SortsBefore(e, d) ==
    /\ (e.code \in Modifiers) # (d.code \in Modifiers)
    /\ IsPress(e) = IsPress(d)
    /\ IF IsPress(e) THEN e.code \in Modifiers ELSE d.code \in Modifiers

(* The stable insertion of the standard library's sort for short slices:   *)
(* e moves left past every event it sorts before.  Passed(s, e, i) holds   *)
(* when e moves past the events from position i on.                        *)
Passed(s, e, i) == \A j \in i..Len(s) : SortsBefore(e, s[j])
Insert(s, e) ==
    [i \in 1..(Len(s) + 1) |->
        IF ~Passed(s, e, i) THEN s[i]
        ELSE IF i > 1 /\ Passed(s, e, i - 1) THEN s[i - 1] ELSE e]

(* A longer batch is sorted the same way where the comparator is an        *)
(* order: where events that it leaves in place are alike.                  *)
Tied(d, e) == ~SortsBefore(d, e) /\ ~SortsBefore(e, d)
Sortable(s) ==
    Len(s) <= SortRun \/ \A i, j, k \in DOMAIN s : Tied(s[i], s[j]) /\ Tied(s[j], s[k]) => Tied(s[i], s[k])

CollectInOrder ==
    /\ alive /\ pc = "collect" /\ chan # <<>>
    /\ Sortable(Append(batch, Head(chan)))
    /\ batch' = Insert(batch, Head(chan))
    /\ chan' = Tail(chan)
    /\ UNCHANGED <<world, reader, pc, initLeft, engine, clients>>

(* ... otherwise the standard library leaves the events in any order, or   *)
(* panics, which ends kanata (panic = "abort").                            *)
Times(e, s) == Cardinality({i \in DOMAIN s : s[i] = e})
Shuffles(s) ==
    {t \in [DOMAIN s -> {s[i] : i \in DOMAIN s}] :
        \A i \in DOMAIN s : Times(s[i], t) = Times(s[i], s)}
CollectUnordered ==
    /\ alive /\ pc = "collect" /\ chan # <<>>
    /\ ~Sortable(Append(batch, Head(chan)))
    /\ batch' \in Shuffles(Append(batch, Head(chan)))
    /\ alive' \in BOOLEAN
    /\ chan' = Tail(chan)
    /\ UNCHANGED <<world, inEvent, pc, initLeft, engine, clients>>

CollectMore == chan # <<>> /\ (CollectInOrder \/ CollectUnordered)

-----------------------------------------------------------------------------
(* do_live_reload.  "parse": the file does not parse and nothing changes;  *)
(* "late": set_repeat_rate fails after the configuration was replaced;     *)
(* "ok": everything succeeds.  The new layout starts empty, prev_keys is   *)
(* kept.                                                                   *)
DoLiveReload(outcome) ==
    /\ reloadReq' = FALSE
    /\ IF outcome = "parse"
         THEN lastOk' = FALSE /\ UNCHANGED <<queue, states, loaded>>
         ELSE /\ lastOk' = (IF outcome = "ok" THEN TRUE ELSE lastOk)
              /\ queue' = <<>> /\ states' = {} /\ loaded' = curCfg
    /\ UNCHANGED <<prevKeys, curCfg, ticksIdle, phys, osDown, inputs>>

(* Seeded fault: reload as soon as it is asked for.                        *)
MayReloadAtOnce == reloadReq

(* The condition under which a requested reload may be carried out.        *)
MayReload == reloadReq /\ (prevKeys = {} \/ ticksIdle > IdleLimit)

(* collect_and_sort_events is over: take the lock and first do a pending   *)
(* live reload, before any event of the batch is handled.                  *)
BeginHandle ==
    /\ alive /\ pc = "collect" /\ chan = <<>>
    /\ pc' = "handle"
    /\ IF MayReload
         THEN \E o \in ReloadOutcomes : DoLiveReload(o)
         ELSE UNCHANGED <<engine, world>>
    /\ UNCHANGED <<reader, chan, initLeft, batch, clients>>

(* handle_input_event for the next event of the batch.                     *)
HandleInputEvent ==
    /\ alive /\ pc = "handle" /\ batch # <<>>
    /\ LET ev == Head(batch) IN
         queue' = CASE ev.value \in {"press", "release"} -> Append(queue, ev)
                    [] ev.value = "tap" ->
                         queue \o << [code |-> ev.code, value |-> "press"],
                                     [code |-> ev.code, value |-> "release"] >>
                    [] OTHER -> queue
    /\ ticksIdle' = 0
    /\ batch' = Tail(batch)
    /\ UNCHANGED <<world, reader, chan, pc, initLeft, states, prevKeys, reloadReq,
                   curCfg, loaded, lastOk, clients>>

-----------------------------------------------------------------------------
(* One tick_states: the layout processes at most one queued event, the     *)
(* keys that went away are released and the new ones pressed.  A key that  *)
(* the loaded configuration does not map has the action NoOp.              *)
LayoutTick ==
    LET e == Head(queue)
        acts == e.value = "press" /\ e.code \in MappedBy[loaded] \cup VKeys
    IN
    IF queue = <<>> THEN UNCHANGED <<queue, states, reloadReq>>
    ELSE /\ queue' = Tail(queue)
         /\ states' = CASE e.value = "release" -> states \ {e.code}
                        [] acts /\ e.code \notin LrldKeys -> states \cup {e.code}
                        [] OTHER -> states
         /\ reloadReq' = (reloadReq \/ (acts /\ e.code \in LrldKeys))

TickStates ==
    /\ LayoutTick
    /\ osDown' = (osDown \ (prevKeys \ states')) \cup (states' \ prevKeys)
    /\ prevKeys' = states'
    /\ UNCHANGED <<phys, inputs, curCfg, loaded, lastOk, ticksIdle>>

(* handle_time_ticks, under the lock: tick_ms runs tick_states once per    *)
(* elapsed millisecond, none when less than one has passed, and then a     *)
(* pending reload is carried out if no output key is held.                 *)
LockForTicks ==
    /\ alive /\ pc = "tick"
    /\ pc' = "handle"
    /\ UNCHANGED <<world, reader, chan, initLeft, batch, engine, clients>>

Tick ==
    /\ alive /\ pc = "handle" /\ batch = <<>>
    /\ TickStates
    /\ UNCHANGED <<reader, chan, pc, initLeft, batch, clients>>

EndTicks ==
    /\ alive /\ pc = "handle" /\ batch = <<>>
    /\ pc' = "check"
    /\ IF MayReload
         THEN \E o \in ReloadOutcomes : DoLiveReload(o)
         ELSE UNCHANGED <<engine, world>>
    /\ UNCHANGED <<reader, chan, initLeft, batch, clients>>

-----------------------------------------------------------------------------
(* A client's reload command: handle_client_command under the lock.        *)
(* Reload, ReloadNext, ReloadPrev, ReloadNum and ReloadFile differ only in *)
(* the configuration they make current.  With "wait" the client's thread   *)
(* goes on to poll for completion; when the response cannot be written     *)
(* the thread ends at once, without waking the processing loop.            *)
RequestReload(c, cfg, wait) ==
    /\ alive /\ Unlocked /\ cpc[c] = "ready" /\ cmds < MaxCommands /\ Spent + 1 < MaxActivity
    /\ cmds' = cmds + 1
    /\ reloadReq' = TRUE /\ curCfg' = cfg
    /\ \E broken \in IF ClientsDrop THEN BOOLEAN ELSE {FALSE} :
         cpc' = [cpc EXCEPT ![c] = IF broken THEN "closed"
                                    ELSE IF wait THEN "waiting" ELSE "wake"]
    /\ UNCHANGED <<world, reader, chan, pc, initLeft, batch, queue, states, prevKeys,
                   loaded, lastOk, ticksIdle>>

(* handle_fakekey_action: toggle looks at the states the layout has now,   *)
(* not at what is still in its queue.                                      *)
FakeKeyEvents(k, action) ==
    LET press   == [code |-> k, value |-> "press"]
        release == [code |-> k, value |-> "release"]
    IN  CASE action = "press"   -> <<press>>
          [] action = "release" -> <<release>>
          [] action = "tap"     -> <<press, release>>
          [] action = "toggle"  -> IF k \in states THEN <<release>> ELSE <<press>>

(* ActOnFakeKey: the virtual key's events enter the layout queue.          *)
ActOnFakeKey(c, k, action) ==
    /\ alive /\ Unlocked /\ cpc[c] = "ready" /\ cmds < MaxCommands /\ Spent + 1 < MaxActivity
    /\ cmds' = cmds + 1
    /\ queue' = queue \o FakeKeyEvents(k, action)
    /\ cpc' = [cpc EXCEPT ![c] = "wake"]
    /\ UNCHANGED <<world, reader, chan, pc, initLeft, batch, states, prevKeys, reloadReq,
                   curCfg, loaded, lastOk, ticksIdle>>

(* handle_reload_with_wait: is_reload_complete and last_reload_succeeded   *)
(* are two separate critical sections.                                     *)
SeeComplete(c) ==
    /\ alive /\ Unlocked /\ cpc[c] = "waiting" /\ ~reloadReq
    /\ cpc' = [cpc EXCEPT ![c] = "done"]
    /\ UNCHANGED <<world, reader, chan, pc, initLeft, batch, engine, cmds>>

WaitTimesOut(c) ==
    /\ alive /\ cpc[c] = "waiting"
    /\ cpc' = [cpc EXCEPT ![c] = "timedout"]
    /\ UNCHANGED <<world, reader, chan, pc, initLeft, batch, engine, cmds>>

SendReloadResult(c) ==
    /\ alive /\ Unlocked /\ cpc[c] \in {"done", "timedout"}
    /\ \E broken \in IF ClientsDrop THEN BOOLEAN ELSE {FALSE} :
         cpc' = [cpc EXCEPT ![c] = IF broken THEN "closed" ELSE "wake"]
    /\ UNCHANGED <<world, reader, chan, pc, initLeft, batch, engine, cmds>>

(* Seeded fault: the client thread goes on without the wakeup.             *)
SendWakeUpLossy(c) ==
    /\ alive /\ cpc[c] = "wake"
    /\ chan' = chan
    /\ cpc' = [cpc EXCEPT ![c] = "ready"]
    /\ UNCHANGED <<world, reader, pc, initLeft, batch, engine, cmds>>

(* wakeup_channel.send, which waits for room in the channel.               *)
SendWakeUp(c) ==
    /\ alive /\ cpc[c] = "wake" /\ Len(chan) < ChanCap
    /\ chan' = Append(chan, WakeUp)
    /\ cpc' = [cpc EXCEPT ![c] = "ready"]
    /\ UNCHANGED <<world, reader, pc, initLeft, batch, engine, cmds>>

-----------------------------------------------------------------------------
User == \E k \in Keys : ReadPress(k) \/ LetGo(k) \/ ReadWheel(k)
EventLoop == LookUpMapped \/ WriteRaw \/ TrySend
ProcessingThread ==
    \/ InitStep \/ InitDone \/ Check \/ RecvFirst \/ PollEmpty \/ CollectMore
    \/ BeginHandle \/ HandleInputEvent \/ LockForTicks \/ Tick \/ EndTicks
Client(c) ==
    \/ \E cfg \in Cfgs, wait \in BOOLEAN : RequestReload(c, cfg, wait)
    \/ \E k \in VKeys, v \in {"press", "release", "tap", "toggle"} : ActOnFakeKey(c, k, v)
    \/ SeeComplete(c) \/ WaitTimesOut(c) \/ SendReloadResult(c) \/ SendWakeUp(c)

Next == User \/ EventLoop \/ ProcessingThread \/ \E c \in Clients : Client(c)

Spec == Init /\ [][Next]_vars

(* The threads are scheduled fairly.  Tick is strongly fair because every  *)
(* iteration that finds the channel empty sleeps a millisecond; the steps  *)
(* of a client that need the lock or room in the channel are strongly fair *)
(* because parking_lot's mutex is eventually fair and blocked senders of   *)
(* an mpsc channel are served in order.  Nothing makes the user act.       *)
Fairness ==
    /\ SF_vars(EventLoop) /\ WF_vars(ProcessingThread) /\ SF_vars(Tick)
    /\ \A c \in Clients : SF_vars(WaitTimesOut(c) \/ SendReloadResult(c) \/ SendWakeUp(c))

FairSpec == Spec /\ Fairness

-----------------------------------------------------------------------------
(* A client's thread that will still send a wakeup.                        *)
WillWake(c) == cpc[c] \in {"waiting", "done", "timedout", "wake"}

(* A client's thread that ended after its command, without a wakeup.       *)
BrokenOff(c) == cpc[c] = "closed"

(* start_processing_loop never blocks on the channel with a reload         *)
(* requested or events in the layout unless something that ends the wait   *)
(* is in the channel or on its way there: the check in                     *)
(* can_block_update_idle_waiting and the blocking recv are separate steps, *)
(* and a TCP client may act between them.  The exception is a client whose *)
(* connection broke in the middle of a command.                            *)
NoLostWakeup ==
    pc = "block" /\ (reloadReq \/ queue # <<>>)
    => chan # <<>> \/ \E c \in Clients : WillWake(c) \/ BrokenOff(c)

(* No more events have piled up than sort_by sorts by insertion.           *)
ShortBatch == Len(batch) <= SortRun

(* Once the user has let go of everything and every thread has come to     *)
(* rest, the OS holds no key down: no press was delivered whose release    *)
(* was swallowed by the start phase, a reload or the reordering.           *)
NoStuckKey ==
    (/\ alive /\ pc = "block" /\ phys = {} /\ inEvent.stage = "none" /\ chan = <<>>
     /\ queue = <<>>)
    => osDown \subseteq VKeys

(* collect_and_sort_events reorders only events of different keys: in the  *)
(* batch the events of one key still alternate between press and release.  *)
BatchKeepsKeyOrder ==
    \A i, j \in DOMAIN batch :
        (/\ i < j /\ batch[i].code = batch[j].code /\ batch[i].value = batch[j].value
         /\ batch[i].value \in {"press", "release"})
        => \E m \in (i + 1)..(j - 1) : batch[m].code = batch[i].code

(* The layout is replaced by do_live_reload only while none of the user's  *)
(* keys is held down at the OS, so none loses the state that would release *)
(* it; and the loop does not fall asleep while the OS still holds a key    *)
(* that the layout no longer presses, or the reverse.  Virtual keys are    *)
(* exempt: ticks_since_idle survives a reload and is reset only by an      *)
(* event, so that a client may press one between the check that takes it   *)
(* past a second and the reload.                                           *)
ReloadLeavesNoKeyDown ==
    [][/\ loaded' # loaded => (states \cup prevKeys) \subseteq VKeys
       /\ pc' = "block" => states' \ VKeys = prevKeys' \ VKeys]_vars

(* A requested reload is carried out once the user keeps the keys          *)
(* released and no virtual key stays pressed.                              *)
ReloadHappens ==
    <>[](phys = {} /\ states = {} /\ alive) => []<>(~reloadReq)

(* Whatever the user has let go of is eventually let go of at the OS.      *)
ReleasesReachOS ==
    <>[](phys = {} /\ alive) => <>[](osDown \subseteq VKeys)

(* The one second fallback: a requested reload is carried out even if a    *)
(* key stays stuck.                                                        *)
StuckKeyReloads == reloadReq /\ alive ~> ~reloadReq \/ ~alive

=============================================================================
