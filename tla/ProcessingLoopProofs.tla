------------------------ MODULE ProcessingLoopProofs ------------------------
(***************************************************************************)
(* Theorems about ProcessingLoop, for every set of keys, configurations    *)
(* and clients and every value of the bounds.                              *)
(***************************************************************************)
EXTENDS ProcessingLoop, WellFoundedInduction, TLAPS

(* collect_and_sort_events: placing one more event into the batch gives a  *)
(* batch of events again.                                                  *)
LEMMA InsertType ==
    ASSUME NEW S, NEW s \in Seq(S), NEW e \in S
    PROVE  Insert(s, e) \in Seq(S)
<1>1. Len(s) \in Nat
  OBVIOUS
<1>2. \A i \in 1..(Len(s) + 1) : Insert(s, e)[i] \in S
  <2> SUFFICES ASSUME NEW i \in 1..(Len(s) + 1) PROVE Insert(s, e)[i] \in S
    OBVIOUS
  <2>1. CASE ~Passed(s, e, i)
    <3>1. i \in 1..Len(s)
      BY <1>1, <2>1 DEF Passed
    <3> QED BY <2>1, <3>1 DEF Insert
  <2>2. CASE Passed(s, e, i)
    BY <1>1, <2>2 DEF Insert
  <2> QED BY <2>1, <2>2
<1>3. Insert(s, e) = [i \in 1..(Len(s) + 1) |-> Insert(s, e)[i]]
  BY DEF Insert
<1>4. Len(s) + 1 \in Nat
  BY <1>1
<1>5. Insert(s, e) \in [1..(Len(s) + 1) -> S]
  BY <1>2, <1>3
<1> QED BY <1>4, <1>5

(* Neither an event is lost nor one made up when the order is not defined. *)
LEMMA ShuffleType ==
    ASSUME NEW S, NEW s \in Seq(S), NEW t \in Shuffles(s)
    PROVE  t \in Seq(S) /\ Len(t) = Len(s)
<1>1. DOMAIN s = 1..Len(s) /\ Len(s) \in Nat /\ \A i \in 1..Len(s) : s[i] \in S
  OBVIOUS
<1>2. t \in [1..Len(s) -> {s[i] : i \in 1..Len(s)}]
  BY <1>1 DEF Shuffles
<1>3. t \in [1..Len(s) -> S]
  BY <1>1, <1>2
<1> QED BY <1>1, <1>3

(* The initial values are well typed.                                      *)
LEMMA InitTypeOK == Init => TypeOK
<1> SUFFICES ASSUME Init PROVE TypeOK
  OBVIOUS
<1>1. WorldType /\ ClientType /\ LoopType
  BY KeysAssumption, BoundAssumption DEF Init, WorldType, ClientType, LoopType
<1>2. ReaderType
  BY DEF Init, ReaderType, NoEvent
<1>3. EngineType
  <2>1. queue \in Seq(QueuedEvent)
    BY DEF Init
  <2>2. ticksIdle \in 0..(IdleLimit + 1)
    BY BoundAssumption DEF Init
  <2> QED BY <2>1, <2>2, CfgAssumption DEF Init, EngineType
<1> QED BY <1>1, <1>2, <1>3 DEF TypeOK

(* The steps of the user and of the event loop keep the types.             *)
LEMMA EventLoopTypeOK == TypeOK /\ (User \/ EventLoop) => TypeOK'
<1> SUFFICES ASSUME TypeOK, User \/ EventLoop PROVE TypeOK'
  OBVIOUS
<1> USE DEF TypeOK
<1>1. ASSUME NEW k \in Keys, ReadPress(k) PROVE TypeOK'
  <2>1. WorldType' /\ ReaderType'
    BY <1>1, BoundAssumption DEF ReadPress, WorldType, ReaderType, Event
  <2>2. LoopType' /\ EngineType' /\ ClientType'
    BY <1>1 DEF ReadPress, LoopType, EngineType, ClientType, engine, clients
  <2> QED BY <2>1, <2>2
<1>2. ASSUME NEW k \in Keys, ReadRelease(k) PROVE TypeOK'
  <2>1. WorldType' /\ ReaderType'
    BY <1>2 DEF ReadRelease, WorldType, ReaderType, Event
  <2>2. LoopType' /\ EngineType' /\ ClientType'
    BY <1>2 DEF ReadRelease, LoopType, EngineType, ClientType, engine, clients
  <2> QED BY <2>1, <2>2
<1>3. ASSUME NEW k \in Keys, ReadWheel(k) PROVE TypeOK'
  <2>1. WorldType' /\ ReaderType'
    BY <1>3, BoundAssumption DEF ReadWheel, WorldType, ReaderType, Event
  <2>2. LoopType' /\ EngineType' /\ ClientType'
    BY <1>3 DEF ReadWheel, LoopType, EngineType, ClientType, engine, clients
  <2> QED BY <2>1, <2>2
<1>4. ASSUME NEW k \in Keys, LoseRelease(k) PROVE TypeOK'
  BY <1>4 DEF LoseRelease, WorldType, ReaderType, LoopType, EngineType, ClientType,
              reader, engine, clients
<1>5. CASE LookUpMapped
  <2>1. ReaderType'
    BY <1>5 DEF LookUpMapped, ReaderType
  <2>2. WorldType' /\ LoopType' /\ EngineType' /\ ClientType'
    BY <1>5 DEF LookUpMapped, WorldType, LoopType, EngineType, ClientType,
                world, engine, clients
  <2> QED BY <2>1, <2>2
<1>6. CASE WriteRaw
  <2>1. WorldType' /\ ReaderType'
    BY <1>6 DEF WriteRaw, WorldType, ReaderType, Event, NoEvent
  <2>2. LoopType' /\ EngineType' /\ ClientType'
    BY <1>6 DEF WriteRaw, LoopType, EngineType, ClientType, engine, clients
  <2> QED BY <2>1, <2>2
<1>7. CASE TrySend
  <2>1. ReaderType'
    BY <1>7 DEF TrySend, ReaderType, NoEvent
  <2>3. LoopType'
    <3>1. inEvent.ev \in Event \cup {WakeUp}
      BY <1>7 DEF TrySend, ReaderType
    <3>2. chan \in Seq(Event \cup {WakeUp})
      BY DEF LoopType
    <3>3. chan' = chan \/ chan' = Append(chan, inEvent.ev)
      BY <1>7 DEF TrySend
    <3>4. chan' \in Seq(Event \cup {WakeUp})
      BY <3>1, <3>2, <3>3
    <3> QED BY <1>7, <3>4 DEF TrySend, LoopType
  <2>2. WorldType' /\ EngineType' /\ ClientType'
    BY <1>7 DEF TrySend, WorldType, EngineType, ClientType, world, engine, clients
  <2> QED BY <2>1, <2>2, <2>3
<1> QED BY <1>1, <1>2, <1>3, <1>4, <1>5, <1>6, <1>7 DEF User, LetGo, EventLoop

(* do_live_reload keeps the types, whatever its outcome.                   *)
LEMMA ReloadTypeOK ==
    ASSUME TypeOK, NEW o \in ReloadOutcomes, DoLiveReload(o)
    PROVE  WorldType' /\ EngineType'
<1>1. WorldType'
  BY DEF TypeOK, DoLiveReload, WorldType
<1>2. EngineType'
  <2>1. queue' \in Seq(QueuedEvent)
    <3>1. queue' = queue \/ queue' = <<>>
      BY DEF DoLiveReload
    <3>2. queue \in Seq(QueuedEvent) /\ <<>> \in Seq(QueuedEvent)
      BY DEF TypeOK, EngineType
    <3> QED BY <3>1, <3>2
  <2>2. lastOk' \in BOOLEAN /\ reloadReq' \in BOOLEAN
    BY Zenon DEF TypeOK, DoLiveReload, EngineType
  <2>3. loaded' \in Cfgs /\ states' \in SUBSET Keys
    BY DEF TypeOK, DoLiveReload, EngineType
  <2> QED BY <2>1, <2>2, <2>3 DEF TypeOK, DoLiveReload, EngineType
<1> QED BY <1>1, <1>2

(* Taking the first event off the channel, the batch or the queue.         *)
LEMMA TailType ==
    ASSUME NEW S, NEW s \in Seq(S), s # <<>>
    PROVE  Head(s) \in S /\ Tail(s) \in Seq(S)
  OBVIOUS

(* The processing loop keeps the types.                                    *)
LEMMA ProcessingTypeOK == TypeOK /\ ProcessingThread => TypeOK'
<1> SUFFICES ASSUME TypeOK, ProcessingThread PROVE TypeOK'
  OBVIOUS
<1> USE DEF TypeOK
<1>1. CASE InitStep
  <2>1. WorldType' /\ LoopType'
    BY <1>1, TailType, BoundAssumption DEF InitStep, WorldType, LoopType
  <2>2. ReaderType' /\ EngineType' /\ ClientType'
    BY <1>1 DEF InitStep, ReaderType, EngineType, ClientType, reader, engine, clients
  <2> QED BY <2>1, <2>2
<1>2. CASE InitDone \/ PollEmpty \/ LockForTicks
  BY <1>2 DEF InitDone, PollEmpty, LockForTicks, WorldType, LoopType, ReaderType, EngineType,
              ClientType, world, reader, engine, clients
<1>3. CASE Check
  <2>1. LoopType'
    BY <1>3 DEF Check, LoopType
  <2>2. EngineType'
    <3>1. PICK ms \in ElapsedMs :
            ticksIdle' = CASE ~IsIdle -> 0
                           [] IsIdle /\ reloadReq -> IF ticksIdle + ms > IdleLimit
                                                       THEN IdleLimit + 1 ELSE ticksIdle + ms
                           [] OTHER -> ticksIdle
      BY <1>3 DEF Check
    <3>2. ticksIdle' \in 0..(IdleLimit + 1)
      BY <3>1, BoundAssumption DEF EngineType
    <3> QED BY <1>3, <3>2 DEF Check, EngineType
  <2>3. WorldType' /\ ReaderType' /\ ClientType'
    BY <1>3 DEF Check, WorldType, ReaderType, ClientType, world, reader, clients
  <2> QED BY <2>1, <2>2, <2>3
<1>4. CASE RecvFirst
  <2>1. LoopType'
    BY <1>4, TailType DEF RecvFirst, LoopType
  <2>2. WorldType' /\ ReaderType' /\ EngineType' /\ ClientType'
    BY <1>4 DEF RecvFirst, WorldType, ReaderType, EngineType, ClientType,
                world, reader, engine, clients
  <2> QED BY <2>1, <2>2
<1>5. CASE CollectInOrder
  <2>1. LoopType'
    <3>1. batch' \in Seq(Event \cup {WakeUp})
      BY <1>5, TailType, InsertType DEF CollectInOrder, LoopType
    <3> QED BY <1>5, <3>1, TailType DEF CollectInOrder, LoopType
  <2>2. WorldType' /\ ReaderType' /\ EngineType' /\ ClientType'
    BY <1>5 DEF CollectInOrder, WorldType, ReaderType, EngineType, ClientType,
                world, reader, engine, clients
  <2> QED BY <2>1, <2>2
<1>9. CASE CollectUnordered
  <2>1. Head(chan) \in Event \cup {WakeUp} /\ Tail(chan) \in Seq(Event \cup {WakeUp})
    BY <1>9, TailType DEF CollectUnordered, LoopType
  <2>2. Append(batch, Head(chan)) \in Seq(Event \cup {WakeUp})
    BY <2>1 DEF LoopType
  <2>3. LoopType'
    <3>1. batch' \in Seq(Event \cup {WakeUp})
      BY <1>9, <2>2, ShuffleType DEF CollectUnordered
    <3> QED BY <1>9, <2>1, <3>1 DEF CollectUnordered, LoopType
  <2>4. ReaderType'
    BY <1>9 DEF CollectUnordered, ReaderType
  <2>5. WorldType' /\ EngineType' /\ ClientType'
    BY <1>9 DEF CollectUnordered, WorldType, EngineType, ClientType, world, engine, clients
  <2> QED BY <2>3, <2>4, <2>5
<1>6. CASE BeginHandle \/ EndTicks
  <2>1. ReaderType' /\ LoopType' /\ ClientType'
    BY <1>6 DEF BeginHandle, EndTicks, ReaderType, LoopType, ClientType, reader, clients
  <2>2. WorldType' /\ EngineType'
    <3>1. CASE MayReload
      BY <1>6, <3>1, ReloadTypeOK DEF BeginHandle, EndTicks
    <3>2. CASE ~MayReload
      BY <1>6, <3>2 DEF BeginHandle, EndTicks, WorldType, EngineType, engine, world
    <3> QED BY <3>1, <3>2
  <2> QED BY <2>1, <2>2
<1>7. CASE HandleInputEvent
  <2> DEFINE ev == Head(batch)
  <2>1. ev \in Event \cup {WakeUp} /\ Tail(batch) \in Seq(Event \cup {WakeUp})
    BY <1>7, TailType DEF HandleInputEvent, LoopType
  <2>2. LoopType'
    BY <1>7, <2>1 DEF HandleInputEvent, LoopType
  <2>3. queue' \in Seq(QueuedEvent)
    <3>1. CASE ev.value \in {"press", "release"}
      <4>1. ev \in QueuedEvent
        BY <2>1, <3>1 DEF Event, WakeUp, QueuedEvent
      <4> QED BY <1>7, <3>1, <4>1 DEF HandleInputEvent, EngineType
    <3>2. CASE ev.value = "tap"
      <4>1. ev.code \in Keys
        BY <2>1, <3>2 DEF Event, WakeUp
      <4> DEFINE two == << [code |-> ev.code, value |-> "press"],
                           [code |-> ev.code, value |-> "release"] >>
      <4>2. two \in Seq(QueuedEvent)
        BY <4>1 DEF QueuedEvent
      <4>3. queue' = queue \o two
        BY <1>7, <3>2 DEF HandleInputEvent
      <4> HIDE DEF two
      <4> QED BY <4>2, <4>3 DEF EngineType
    <3>3. CASE ev.value \notin {"press", "release", "tap"}
      BY <1>7, <3>3 DEF HandleInputEvent, EngineType
    <3> QED BY <3>1, <3>2, <3>3
  <2>4. EngineType'
    BY <1>7, <2>3, BoundAssumption DEF HandleInputEvent, EngineType
  <2>5. WorldType' /\ ReaderType' /\ ClientType'
    BY <1>7 DEF HandleInputEvent, WorldType, ReaderType, ClientType,
                world, reader, clients
  <2> QED BY <2>2, <2>4, <2>5
<1>8. CASE Tick
  <2>1. queue' \in Seq(QueuedEvent) /\ states' \in SUBSET Keys /\ reloadReq' \in BOOLEAN
    <3>1. CASE queue = <<>>
      BY <1>8, <3>1 DEF Tick, TickStates, LayoutTick, EngineType
    <3>2. CASE queue # <<>>
      <4>1. Head(queue) \in QueuedEvent /\ Tail(queue) \in Seq(QueuedEvent)
        BY <3>2, TailType DEF EngineType
      <4>2. Head(queue).code \in Keys
        BY <4>1 DEF QueuedEvent
      <4> QED BY <1>8, <3>2, <4>1, <4>2 DEF Tick, TickStates, LayoutTick, EngineType
    <3> QED BY <3>1, <3>2
  <2>2. WorldType' /\ EngineType'
    BY <1>8, <2>1 DEF Tick, TickStates, WorldType, EngineType
  <2>3. ReaderType' /\ LoopType' /\ ClientType'
    BY <1>8 DEF Tick, TickStates, ReaderType, LoopType, ClientType, reader, clients
  <2> QED BY <2>2, <2>3
<1> QED BY <1>1, <1>2, <1>3, <1>4, <1>5, <1>6, <1>7, <1>8, <1>9 DEF ProcessingThread, CollectMore

(* The TCP clients keep the types.                                         *)
LEMMA ClientTypeOK ==
    ASSUME TypeOK, NEW c \in Clients, Client(c)
    PROVE  TypeOK'
<1> USE DEF TypeOK
<1>1. ASSUME NEW cfg \in Cfgs, NEW wait \in BOOLEAN, RequestReload(c, cfg, wait)
      PROVE  TypeOK'
  <2>1. ClientType'
    <3>1. cmds' \in 0..MaxCommands
      BY <1>1, BoundAssumption DEF RequestReload, ClientType
    <3>2. PICK next \in {"waiting", "wake", "closed"} : cpc' = [cpc EXCEPT ![c] = next]
      BY <1>1, Zenon DEF RequestReload
    <3>3. cpc' \in [Clients -> {"ready", "waiting", "done", "timedout", "wake", "closed"}]
      BY <3>2 DEF ClientType
    <3> QED BY <3>1, <3>3 DEF ClientType
  <2>2. EngineType'
    BY <1>1 DEF RequestReload, EngineType
  <2>3. WorldType' /\ ReaderType' /\ LoopType'
    BY <1>1 DEF RequestReload, WorldType, ReaderType, LoopType, world, reader
  <2> QED BY <2>1, <2>2, <2>3
<1>2. ASSUME NEW k \in VKeys, NEW a \in {"press", "release", "tap", "toggle"}, ActOnFakeKey(c, k, a)
      PROVE  TypeOK'
  <2>1. FakeKeyEvents(k, a) \in Seq(QueuedEvent)
    <3> DEFINE press == [code |-> k, value |-> "press"]
               release == [code |-> k, value |-> "release"]
    <3>1. press \in QueuedEvent /\ release \in QueuedEvent
      BY KeysAssumption DEF QueuedEvent
    <3>2. FakeKeyEvents(k, a) \in {<<press>>, <<release>>, <<press, release>>}
      BY DEF FakeKeyEvents
    <3> HIDE DEF press, release
    <3>3. <<press>> \in Seq(QueuedEvent) /\ <<release>> \in Seq(QueuedEvent)
            /\ <<press, release>> \in Seq(QueuedEvent)
      BY <3>1
    <3> QED BY <3>2, <3>3
  <2>2. queue' \in Seq(QueuedEvent)
    BY <1>2, <2>1 DEF ActOnFakeKey, EngineType
  <2>3. EngineType'
    BY <1>2, <2>2 DEF ActOnFakeKey, EngineType
  <2>4. ClientType'
    BY <1>2, BoundAssumption DEF ActOnFakeKey, ClientType
  <2>5. WorldType' /\ ReaderType' /\ LoopType'
    BY <1>2 DEF ActOnFakeKey, WorldType, ReaderType, LoopType, world, reader
  <2> QED BY <2>3, <2>4, <2>5
<1>3. CASE SeeComplete(c) \/ WaitTimesOut(c)
  <2>1. ClientType'
    BY <1>3 DEF SeeComplete, WaitTimesOut, ClientType
  <2>2. WorldType' /\ ReaderType' /\ LoopType' /\ EngineType'
    BY <1>3 DEF SeeComplete, WaitTimesOut, WorldType, ReaderType, LoopType, EngineType,
                world, reader, engine
  <2> QED BY <2>1, <2>2
<1>4. CASE SendReloadResult(c)
  <2>1. ClientType'
    BY <1>4 DEF SendReloadResult, ClientType
  <2>2. WorldType' /\ ReaderType' /\ LoopType' /\ EngineType'
    BY <1>4 DEF SendReloadResult, WorldType, ReaderType, LoopType, EngineType, world, reader, engine
  <2> QED BY <2>1, <2>2
<1>5. CASE SendWakeUp(c)
  <2>1. ClientType' /\ LoopType'
    BY <1>5 DEF SendWakeUp, ClientType, LoopType
  <2>2. WorldType' /\ ReaderType' /\ EngineType'
    BY <1>5 DEF SendWakeUp, WorldType, ReaderType, EngineType, world, reader, engine
  <2> QED BY <2>1, <2>2
<1> QED BY <1>1, <1>2, <1>3, <1>4, <1>5 DEF Client

(* Every step of every thread keeps the types.                             *)
LEMMA NextTypeOK == TypeOK /\ [Next]_vars => TypeOK'
<1> SUFFICES ASSUME TypeOK, [Next]_vars PROVE TypeOK'
  OBVIOUS
<1>1. CASE User \/ EventLoop
  BY <1>1, EventLoopTypeOK
<1>2. CASE ProcessingThread
  BY <1>2, ProcessingTypeOK
<1>3. CASE \E c \in Clients : Client(c)
  BY <1>3, ClientTypeOK
<1>4. CASE UNCHANGED vars
  BY <1>4 DEF vars, world, reader, engine, clients, TypeOK, WorldType, ReaderType,
              LoopType, EngineType, ClientType
<1> QED BY <1>1, <1>2, <1>3, <1>4 DEF Next

(* Every reachable state of the three kinds of threads is well typed: in   *)
(* particular handle_input_event never lets a wakeup into the layout.      *)
THEOREM TypeCorrect == Spec => []TypeOK
<1>1. Init => TypeOK
  BY InitTypeOK
<1>2. TypeOK /\ [Next]_vars => TypeOK'
  BY NextTypeOK
<1> QED BY <1>1, <1>2, PTL DEF Spec

-----------------------------------------------------------------------------
(* NoLostWakeup, as the disjunction a blocked loop relies on.              *)
WakeComing == chan # <<>> \/ \E c \in Clients : WillWake(c) \/ BrokenOff(c)

(* Appending to the channel leaves something in it.                        *)
LEMMA AppendNotEmpty ==
    ASSUME NEW S, NEW s \in Seq(S), NEW e \in S
    PROVE  Append(s, e) # <<>>
<1>1. Len(Append(s, e)) = Len(s) + 1 /\ Len(s) \in Nat
  OBVIOUS
<1>2. Len(<<>>) = 0
  OBVIOUS
<1> QED BY <1>1, <1>2

(* No connection breaks: a client that has changed the Kanata value goes   *)
(* on to send its wakeup, whatever the other threads do.                   *)
LEMMA WakeComingStable ==
    ASSUME TypeOK, WakeComing, [Next]_vars, pc' = "block"
    PROVE  WakeComing'
<1>1. CASE User
  BY <1>1 DEF User, LetGo, ReadPress, ReadRelease, ReadWheel, LoseRelease, WakeComing, WillWake,
              BrokenOff, clients
<1>2. CASE LookUpMapped \/ WriteRaw
  BY <1>2 DEF LookUpMapped, WriteRaw, WakeComing, WillWake, BrokenOff, clients
<1>3. CASE TrySend
  <2>1. inEvent.ev \in Event \cup {WakeUp}
    BY <1>3 DEF TrySend, TypeOK, ReaderType
  <2>2. Append(chan, inEvent.ev) # <<>>
    BY <2>1, AppendNotEmpty DEF TypeOK, LoopType
  <2> QED BY <1>3, <2>2 DEF TrySend, WakeComing, WillWake, BrokenOff, clients
<1>4. CASE ProcessingThread
  <2>1. Check \/ (chan' = chan /\ cpc' = cpc)
    BY <1>4 DEF ProcessingThread, CollectMore, InitStep, InitDone, Check, RecvFirst, PollEmpty, CollectInOrder, CollectUnordered,
                BeginHandle, HandleInputEvent, LockForTicks, Tick, EndTicks, clients
  <2>2. chan' = chan /\ cpc' = cpc
    BY <2>1 DEF Check, clients
  <2> QED BY <2>2 DEF WakeComing, WillWake, BrokenOff
<1>5. ASSUME NEW c \in Clients, Client(c) PROVE WakeComing'
  <2>1. CASE SendWakeUp(c)
    BY <2>1, AppendNotEmpty DEF SendWakeUp, WakeComing, TypeOK, LoopType
  <2>2. CASE ~SendWakeUp(c)
    <3>1. WillWake(c)' \/ BrokenOff(c)'
      BY <1>5, <2>2 DEF Client, RequestReload, ActOnFakeKey, SeeComplete, WaitTimesOut,
                        SendReloadResult, WillWake, BrokenOff, TypeOK, ClientType
    <3> QED BY <3>1 DEF WakeComing
  <2> QED BY <2>1, <2>2
<1>6. CASE UNCHANGED vars
  BY <1>6 DEF vars, clients, WakeComing, WillWake, BrokenOff
<1> QED BY <1>1, <1>2, <1>3, <1>4, <1>5, <1>6 DEF Next, EventLoop

(* A step that gives a blocked loop work comes from a client, whose        *)
(* wakeup is then still to be sent.                                        *)
LEMMA NextNoLostWakeup ==
    ASSUME TypeOK, NoLostWakeup, [Next]_vars
    PROVE  NoLostWakeup'
<1> SUFFICES ASSUME pc' = "block", reloadReq' \/ queue' # <<>> PROVE WakeComing'
  BY DEF NoLostWakeup, WakeComing, WillWake, BrokenOff
<1>1. CASE WakeComing
  BY <1>1, WakeComingStable
<1>2. CASE ~WakeComing
  <2>1. ~(pc = "block" /\ (reloadReq \/ queue # <<>>))
    BY <1>2 DEF NoLostWakeup, WakeComing
  <2>2. CASE Check
    BY <2>2 DEF Check, IsIdle
  <2>3. CASE ~Check /\ pc = "block" /\ ~reloadReq /\ queue = <<>>
    <3>1. PICK c \in Clients : Client(c)
      BY <2>3 DEF Next, User, LetGo, ReadPress, ReadRelease, ReadWheel, LoseRelease, EventLoop, LookUpMapped,
                  WriteRaw, TrySend, ProcessingThread, CollectMore, InitStep, InitDone, RecvFirst, PollEmpty,
                  CollectInOrder, CollectUnordered, BeginHandle, HandleInputEvent, LockForTicks, Tick, EndTicks, vars, engine
    <3>2. WillWake(c)' \/ BrokenOff(c)'
      BY <2>3, <3>1 DEF Client, RequestReload, ActOnFakeKey, SeeComplete, WaitTimesOut,
                        SendReloadResult, SendWakeUp, WillWake, BrokenOff, TypeOK, ClientType, engine
    <3> QED BY <3>2 DEF WakeComing
  <2>4. CASE ~Check /\ pc # "block"
    BY <2>4 DEF Next, User, LetGo, ReadPress, ReadRelease, ReadWheel, LoseRelease, EventLoop, LookUpMapped,
                WriteRaw, TrySend, ProcessingThread, CollectMore, InitStep, InitDone, RecvFirst, PollEmpty,
                CollectInOrder, CollectUnordered, BeginHandle, HandleInputEvent, LockForTicks, Tick, EndTicks, Client,
                RequestReload, ActOnFakeKey, SeeComplete, WaitTimesOut, SendReloadResult, SendWakeUp,
                vars
  <2> QED BY <2>1, <2>2, <2>3, <2>4
<1> QED BY <1>1, <1>2

(* The processing loop never sleeps through a requested reload or a queued *)
(* event, for any number of clients and keys, unless the connection of a   *)
(* client broke between its command and its wakeup.                        *)
THEOREM NoWakeupIsLost == Spec => []NoLostWakeup
<1>1. Init => NoLostWakeup
  BY DEF Init, NoLostWakeup
<1>2. TypeOK /\ NoLostWakeup /\ [Next]_vars => NoLostWakeup'
  BY NextNoLostWakeup
<1> QED BY <1>1, <1>2, TypeCorrect, PTL DEF Spec

-----------------------------------------------------------------------------
(* What becomes of the events of a key on their way through the channel,   *)
(* the sorted batch, the layout's queue and its states: that no press      *)
(* loses its release, and that no event overtakes one of the same key.     *)
PressOf(k) == [code |-> k, value |-> "press"]
ReleaseOf(k) == [code |-> k, value |-> "release"]

-----------------------------------------------------------------------------
(* Every non-empty set of naturals has a least element.                    *)
LEMMA LeastNatural ==
    ASSUME NEW T, T \subseteq Nat, T # {}
    PROVE  \E x \in T : \A y \in T : x <= y
<1>1. \E x \in T : \A y \in T : ~ (<<y, x>> \in OpToRel(<, Nat))
  BY NatLessThanWellFounded, WFMin, Zenon
<1>2. \E x \in T : \A y \in T : ~ (y < x)
  BY <1>1 DEF OpToRel
<1> QED BY <1>2

(* r is s with e at the place p, where e has overtaken no event of its     *)
(* key.                                                                    *)
Placed(r, s, e, p) ==
    /\ Len(r) = Len(s) + 1 /\ p \in 1..(Len(s) + 1)
    /\ r[p] = e
    /\ \A i \in 1..(p - 1) : r[i] = s[i]
    /\ \A i \in p..Len(s) : r[i + 1] = s[i] /\ s[i].code # e.code

(* The batch grows by one event.                                           *)
LEMMA InsertLength ==
    ASSUME NEW S, NEW s \in Seq(S), NEW e \in S
    PROVE  Len(Insert(s, e)) = Len(s) + 1
<1>1. Len(s) + 1 \in Nat /\ DOMAIN Insert(s, e) = 1..(Len(s) + 1)
  BY DEF Insert
<1>2. Insert(s, e) \in Seq(S)
  BY InsertType
<1> QED BY <1>1, <1>2

(* collect_and_sort_events puts the new event at one place, moves what is  *)
(* behind it by one, and overtakes no event of the same key.               *)
LEMMA InsertPlace ==
    ASSUME NEW S, NEW s \in Seq(S), NEW e \in S
    PROVE  \E p \in 1..(Len(s) + 1) : Placed(Insert(s, e), s, e, p)
<1> DEFINE T == {i \in 1..(Len(s) + 1) : Passed(s, e, i)}
<1>1. Len(s) \in Nat /\ Len(Insert(s, e)) = Len(s) + 1
  BY InsertLength
<1>2. Len(s) + 1 \in T
  BY <1>1 DEF Passed
<1>3. PICK p \in T : \A i \in T : p <= i
  <2>1. T \subseteq Nat /\ T # {}
    BY <1>1, <1>2
  <2> HIDE DEF T
  <2> QED BY <2>1, LeastNatural
<1>4. \A i \in 1..(Len(s) + 1) : Passed(s, e, i) <=> p <= i
  BY <1>1, <1>3 DEF Passed
<1>5. Insert(s, e)[p] = e
  BY <1>1, <1>3, <1>4 DEF Insert
<1>6. \A i \in 1..(p - 1) : Insert(s, e)[i] = s[i]
  BY <1>1, <1>3, <1>4 DEF Insert
<1>7. \A i \in p..Len(s) : Insert(s, e)[i + 1] = s[i]
  BY <1>1, <1>3, <1>4 DEF Insert
<1>8. \A i \in p..Len(s) : s[i].code # e.code
  BY <1>3 DEF Passed, SortsBefore
<1>9. Placed(Insert(s, e), s, e, p)
  BY <1>1, <1>3, <1>5, <1>6, <1>7, <1>8 DEF Placed
<1> QED BY <1>3, <1>9

-----------------------------------------------------------------------------
(* A release of k is in s; every press of k in s has a release behind it.  *)
HasRelease(s, k) == \E i \in 1..Len(s) : s[i] = ReleaseOf(k)
Settled(s, k) ==
    \A i \in 1..Len(s) : s[i] = PressOf(k) => \E m \in (i + 1)..Len(s) : s[m] = ReleaseOf(k)

(* Taking the first event: what is behind it stays settled, and a press    *)
(* that was settled leaves its release behind.                             *)
LEMMA TailKeeps ==
    ASSUME NEW S, NEW s \in Seq(S), s # <<>>, NEW k
    PROVE  /\ Settled(s, k) => Settled(Tail(s), k)
           /\ Settled(s, k) /\ Head(s) = PressOf(k) => HasRelease(Tail(s), k)
           /\ HasRelease(s, k) /\ Head(s) # ReleaseOf(k) => HasRelease(Tail(s), k)
<1>1. /\ Len(s) \in Nat \ {0} /\ Len(Tail(s)) = Len(s) - 1 /\ Head(s) = s[1]
      /\ \A i \in 1..(Len(s) - 1) : Tail(s)[i] = s[i + 1]
  OBVIOUS
<1>2. \A m \in 2..Len(s) : m - 1 \in 1..(Len(s) - 1) /\ Tail(s)[m - 1] = s[m]
  BY <1>1
<1>3. ASSUME Settled(s, k) PROVE Settled(Tail(s), k)
  <2> SUFFICES ASSUME NEW i \in 1..Len(Tail(s)), Tail(s)[i] = PressOf(k)
               PROVE  \E m \in (i + 1)..Len(Tail(s)) : Tail(s)[m] = ReleaseOf(k)
    BY DEF Settled
  <2>1. PICK m \in (i + 2)..Len(s) : s[m] = ReleaseOf(k)
    BY <1>1, <1>3 DEF Settled
  <2> QED BY <1>1, <1>2, <2>1
<1>4. ASSUME Settled(s, k), Head(s) = PressOf(k) PROVE HasRelease(Tail(s), k)
  <2>1. PICK m \in 2..Len(s) : s[m] = ReleaseOf(k)
    BY <1>1, <1>4 DEF Settled
  <2> QED BY <1>1, <1>2, <2>1 DEF HasRelease
<1>5. ASSUME HasRelease(s, k), Head(s) # ReleaseOf(k) PROVE HasRelease(Tail(s), k)
  <2>1. PICK m \in 2..Len(s) : s[m] = ReleaseOf(k)
    BY <1>1, <1>5 DEF HasRelease
  <2> QED BY <1>1, <1>2, <2>1 DEF HasRelease
<1> QED BY <1>3, <1>4, <1>5

(* Putting an event at the end.                                            *)
LEMMA AppendKeeps ==
    ASSUME NEW S, NEW s \in Seq(S), NEW e \in S, NEW k
    PROVE  /\ e = ReleaseOf(k) => Settled(Append(s, e), k) /\ HasRelease(Append(s, e), k)
           /\ Settled(s, k) /\ e # PressOf(k) => Settled(Append(s, e), k)
           /\ HasRelease(s, k) => HasRelease(Append(s, e), k)
<1> DEFINE t == Append(s, e)
<1>1. /\ Len(s) \in Nat /\ Len(t) = Len(s) + 1 /\ t[Len(s) + 1] = e
      /\ \A i \in 1..Len(s) : t[i] = s[i]
  OBVIOUS
<1>2. PressOf(k) # ReleaseOf(k)
  BY DEF PressOf, ReleaseOf
<1> HIDE DEF t
<1>3. e = ReleaseOf(k) => Settled(t, k) /\ HasRelease(t, k)
  BY <1>1, <1>2 DEF Settled, HasRelease
<1>4. Settled(s, k) /\ e # PressOf(k) => Settled(t, k)
  BY <1>1 DEF Settled
<1>5. HasRelease(s, k) => HasRelease(t, k)
  BY <1>1 DEF HasRelease
<1> QED BY <1>3, <1>4, <1>5 DEF t

(* Putting several events at the end.                                      *)
LEMMA ConcatKeeps ==
    ASSUME NEW S, NEW s \in Seq(S), NEW t \in Seq(S), NEW k
    PROVE  /\ Settled(s, k) /\ Settled(t, k) => Settled(s \o t, k)
           /\ HasRelease(s, k) => HasRelease(s \o t, k)
<1> DEFINE r == s \o t
<1>1. /\ Len(s) \in Nat /\ Len(t) \in Nat /\ Len(r) = Len(s) + Len(t)
      /\ \A i \in 1..Len(s) : r[i] = s[i]
      /\ \A i \in 1..Len(t) : r[Len(s) + i] = t[i]
  OBVIOUS
<1> HIDE DEF r
<1>2. HasRelease(s, k) => HasRelease(r, k)
  BY <1>1 DEF HasRelease
<1>3. ASSUME Settled(s, k), Settled(t, k) PROVE Settled(r, k)
  <2> SUFFICES ASSUME NEW i \in 1..Len(r), r[i] = PressOf(k)
               PROVE  \E m \in (i + 1)..Len(r) : r[m] = ReleaseOf(k)
    BY DEF Settled
  <2>1. CASE i <= Len(s)
    <3>1. PICK m \in (i + 1)..Len(s) : s[m] = ReleaseOf(k)
      BY <1>1, <1>3, <2>1 DEF Settled
    <3> QED BY <1>1, <2>1, <3>1
  <2>2. CASE i > Len(s)
    <3>1. PICK j \in 1..Len(t) : i = Len(s) + j
      <4>1. i - Len(s) \in 1..Len(t) /\ i = Len(s) + (i - Len(s))
        BY <1>1, <2>2
      <4> QED BY <4>1
    <3>2. t[j] = PressOf(k)
      BY <1>1, <3>1
    <3>3. PICK m \in (j + 1)..Len(t) : t[m] = ReleaseOf(k)
      BY <1>3, <3>2 DEF Settled
    <3>4. Len(s) + m \in (i + 1)..Len(r) /\ r[Len(s) + m] = ReleaseOf(k)
      BY <1>1, <3>1, <3>3
    <3> QED BY <3>4
  <2> QED BY <1>1, <2>1, <2>2
<1> QED BY <1>2, <1>3 DEF r

(* Sorting an event into the batch.                                        *)
LEMMA InsertKeeps ==
    ASSUME NEW S, NEW s \in Seq(S), NEW e \in S, NEW k
    PROVE  /\ Settled(s, k) /\ e # PressOf(k) => Settled(Insert(s, e), k)
           /\ e = ReleaseOf(k) => Settled(Insert(s, e), k) /\ HasRelease(Insert(s, e), k)
           /\ HasRelease(s, k) => HasRelease(Insert(s, e), k)
<1> DEFINE r == Insert(s, e)
<1>1. Len(s) \in Nat /\ Len(r) = Len(s) + 1
  BY InsertLength
<1>2. PICK p \in 1..(Len(s) + 1) : Placed(r, s, e, p)
  BY InsertPlace
<1> HIDE DEF r
<1>3. /\ r[p] = e
      /\ \A i \in 1..(p - 1) : r[i] = s[i]
      /\ \A i \in p..Len(s) : r[i + 1] = s[i] /\ s[i].code # e.code
  BY <1>2 DEF Placed
<1>4. PressOf(k).code = k /\ ReleaseOf(k).code = k /\ PressOf(k) # ReleaseOf(k)
  BY DEF PressOf, ReleaseOf
<1>5. HasRelease(s, k) => HasRelease(r, k)
  <2> SUFFICES ASSUME NEW i \in 1..Len(s), s[i] = ReleaseOf(k)
               PROVE  \E m \in 1..Len(r) : r[m] = ReleaseOf(k)
    BY DEF HasRelease
  <2>1. CASE i < p
    BY <1>1, <1>3, <2>1
  <2>2. CASE i >= p
    <3>1. r[i + 1] = ReleaseOf(k) /\ i + 1 \in 1..Len(r)
      BY <1>1, <1>3, <2>2
    <3> QED BY <3>1
  <2> QED BY <1>1, <2>1, <2>2
<1>6. ASSUME Settled(s, k), e # PressOf(k) PROVE Settled(r, k)
  <2> SUFFICES ASSUME NEW i \in 1..Len(r), r[i] = PressOf(k)
               PROVE  \E m \in (i + 1)..Len(r) : r[m] = ReleaseOf(k)
    BY DEF Settled
  <2>1. CASE i < p
    <3>1. PICK m \in (i + 1)..Len(s) : s[m] = ReleaseOf(k)
      BY <1>1, <1>3, <1>6, <2>1 DEF Settled
    <3> QED BY <1>1, <1>3, <2>1, <3>1
  <2>2. CASE i > p
    <3>1. PICK j \in p..Len(s) : i = j + 1
      BY <1>1, <2>2
    <3>2. s[j] = PressOf(k) /\ j \in 1..Len(s)
      <4>1. r[j + 1] = s[j]
        BY <1>3
      <4>2. j \in 1..Len(s)
        BY <1>1
      <4> QED BY <3>1, <4>1, <4>2
    <3>3. PICK m \in (j + 1)..Len(s) : s[m] = ReleaseOf(k)
      BY <1>6, <3>2 DEF Settled
    <3>4. m + 1 \in (i + 1)..Len(r) /\ r[m + 1] = ReleaseOf(k)
      BY <1>1, <1>3, <3>1, <3>3
    <3> QED BY <3>4
  <2> QED BY <1>1, <1>3, <1>6, <2>1, <2>2
<1>7. ASSUME e = ReleaseOf(k) PROVE Settled(r, k) /\ HasRelease(r, k)
  <2>1. HasRelease(r, k)
    BY <1>1, <1>3, <1>7 DEF HasRelease
  <2>2. ASSUME NEW i \in 1..Len(r), r[i] = PressOf(k)
        PROVE  i < p
    <3>1. i # p
      BY <1>3, <1>4, <1>7, <2>2
    <3>2. CASE i > p
      <4>1. PICK j \in p..Len(s) : i = j + 1
        BY <1>1, <3>2
      <4> QED BY <1>1, <1>3, <1>4, <1>7, <2>2, <4>1
    <3> QED BY <1>1, <1>3, <3>1, <3>2
  <2> QED BY <1>1, <1>3, <1>7, <2>1, <2>2 DEF Settled
<1> QED BY <1>5, <1>6, <1>7 DEF r

-----------------------------------------------------------------------------
(* Between two events the loop knows which keys the OS holds for the user; *)
(* and while ticks_since_idle counts, no key of the user is held by the    *)
(* layout or waits in its queue: an event of the user resets it.           *)
OnlyVirtual(s) == \A i \in 1..Len(s) : s[i].code \in VKeys
StatesMatch == states \ VKeys = prevKeys \ VKeys
IdleIsQuiet == ticksIdle > 0 => states \subseteq VKeys /\ OnlyVirtual(queue)
QuietInv == StatesMatch /\ IdleIsQuiet

(* What handle_fakekey_action puts into the queue are events of one        *)
(* virtual key.                                                            *)
LEMMA FakeKeyCodes ==
    ASSUME NEW k \in VKeys, NEW a \in {"press", "release", "tap", "toggle"}
    PROVE  /\ FakeKeyEvents(k, a) \in Seq(QueuedEvent)
           /\ OnlyVirtual(FakeKeyEvents(k, a))
<1> DEFINE press == [code |-> k, value |-> "press"]
           release == [code |-> k, value |-> "release"]
<1>1. press \in QueuedEvent /\ release \in QueuedEvent /\ press.code = k /\ release.code = k
  BY KeysAssumption DEF QueuedEvent
<1>2. FakeKeyEvents(k, a) \in {<<press>>, <<release>>, <<press, release>>}
  BY DEF FakeKeyEvents
<1> HIDE DEF press, release
<1>3. <<press>> \in Seq(QueuedEvent) /\ <<release>> \in Seq(QueuedEvent)
        /\ <<press, release>> \in Seq(QueuedEvent)
  BY <1>1
<1>4. OnlyVirtual(<<press>>) /\ OnlyVirtual(<<release>>) /\ OnlyVirtual(<<press, release>>)
  BY <1>1 DEF OnlyVirtual
<1> QED BY <1>2, <1>3, <1>4

(* A queue that holds events of virtual keys only keeps to them.           *)
LEMMA OnlyVirtualKept ==
    ASSUME NEW s \in Seq(QueuedEvent), OnlyVirtual(s)
    PROVE  /\ s # <<>> => OnlyVirtual(Tail(s)) /\ Head(s).code \in VKeys
           /\ \A t \in Seq(QueuedEvent) : OnlyVirtual(t) => OnlyVirtual(s \o t)
<1>1. ASSUME s # <<>> PROVE OnlyVirtual(Tail(s)) /\ Head(s).code \in VKeys
  BY <1>1 DEF OnlyVirtual
<1>2. ASSUME NEW t \in Seq(QueuedEvent), OnlyVirtual(t) PROVE OnlyVirtual(s \o t)
  BY <1>2 DEF OnlyVirtual
<1> QED BY <1>1, <1>2

(* The loop keeps QuietInv.                                                *)
LEMMA NextQuiet == TypeOK /\ QuietInv /\ [Next]_vars => QuietInv'
<1> SUFFICES ASSUME TypeOK, QuietInv, [Next]_vars PROVE QuietInv'
  OBVIOUS
<1> USE DEF QuietInv
<1>1. CASE UNCHANGED engine
  BY <1>1 DEF engine, StatesMatch, IdleIsQuiet
<1>2. CASE Check
  <2>1. PICK ms \in ElapsedMs :
          ticksIdle' = CASE ~IsIdle -> 0
                         [] IsIdle /\ reloadReq -> IF ticksIdle + ms > IdleLimit
                                                     THEN IdleLimit + 1 ELSE ticksIdle + ms
                         [] OTHER -> ticksIdle
    BY <1>2 DEF Check
  <2>2. ticksIdle' = 0 \/ (queue = <<>> /\ states = {}) \/ ticksIdle' = ticksIdle
    BY <2>1 DEF IsIdle
  <2>3. OnlyVirtual(<<>>)
    BY DEF OnlyVirtual
  <2> QED BY <1>2, <2>2, <2>3 DEF Check, StatesMatch, IdleIsQuiet
<1>3. CASE BeginHandle \/ EndTicks
  <2>1. CASE MayReload
    <3>1. PICK o \in ReloadOutcomes : DoLiveReload(o)
      BY <1>3, <2>1 DEF BeginHandle, EndTicks
    <3>2. states \subseteq VKeys
      BY <2>1, BoundAssumption DEF MayReload, StatesMatch, IdleIsQuiet, TypeOK, EngineType
    <3>3. (queue' = queue /\ states' = states) \/ (queue' = <<>> /\ states' = {})
      BY <3>1 DEF DoLiveReload
    <3>4. OnlyVirtual(<<>>)
      BY DEF OnlyVirtual
    <3> QED BY <3>1, <3>2, <3>3, <3>4 DEF DoLiveReload, StatesMatch, IdleIsQuiet
  <2>2. CASE ~MayReload
    BY <1>1, <1>3, <2>2 DEF BeginHandle, EndTicks
  <2> QED BY <2>1, <2>2
<1>4. CASE HandleInputEvent
  BY <1>4 DEF HandleInputEvent, StatesMatch, IdleIsQuiet
<1>5. CASE Tick
  <2>1. StatesMatch'
    BY <1>5 DEF Tick, TickStates, StatesMatch
  <2>2. ASSUME ticksIdle' > 0 PROVE states' \subseteq VKeys /\ OnlyVirtual(queue')
    <3>1. states \subseteq VKeys /\ OnlyVirtual(queue)
      BY <1>5, <2>2 DEF Tick, TickStates, IdleIsQuiet
    <3>2. CASE queue = <<>>
      BY <1>5, <3>1, <3>2 DEF Tick, TickStates, LayoutTick
    <3>3. CASE queue # <<>>
      <4>1. OnlyVirtual(Tail(queue)) /\ Head(queue).code \in VKeys
        BY <3>1, <3>3, OnlyVirtualKept DEF TypeOK, EngineType
      <4> QED BY <1>5, <3>1, <3>3, <4>1 DEF Tick, TickStates, LayoutTick
    <3> QED BY <3>2, <3>3
  <2> QED BY <2>1, <2>2 DEF IdleIsQuiet
<1>6. ASSUME NEW c \in Clients, NEW cfg \in Cfgs, NEW wait \in BOOLEAN, RequestReload(c, cfg, wait)
      PROVE  QuietInv'
  BY <1>6 DEF RequestReload, StatesMatch, IdleIsQuiet
<1>7. ASSUME NEW c \in Clients, NEW k \in VKeys, NEW a \in {"press", "release", "tap", "toggle"},
             ActOnFakeKey(c, k, a)
      PROVE  QuietInv'
  <2>1. OnlyVirtual(queue) => OnlyVirtual(queue \o FakeKeyEvents(k, a))
    BY FakeKeyCodes, OnlyVirtualKept DEF TypeOK, EngineType
  <2> QED BY <1>7, <2>1 DEF ActOnFakeKey, StatesMatch, IdleIsQuiet
<1>8. \/ UNCHANGED engine \/ Check \/ BeginHandle \/ EndTicks \/ HandleInputEvent \/ Tick
      \/ \E c \in Clients, cfg \in Cfgs, wait \in BOOLEAN : RequestReload(c, cfg, wait)
      \/ \E c \in Clients, k \in VKeys, a \in {"press", "release", "tap", "toggle"} :
           ActOnFakeKey(c, k, a)
  BY DEF Next, User, LetGo, ReadPress, ReadRelease, ReadWheel, LoseRelease, EventLoop, LookUpMapped,
         WriteRaw, TrySend, ProcessingThread, CollectMore, InitStep, InitDone, RecvFirst, PollEmpty,
         CollectInOrder, CollectUnordered, LockForTicks, Client, SeeComplete, WaitTimesOut, SendReloadResult,
         SendWakeUp, vars
<1> QED BY <1>1, <1>2, <1>3, <1>4, <1>5, <1>6, <1>7, <1>8

(* The loop, the layout and the OS agree at every moment.                  *)
LEMMA QuietAlways == Spec => []QuietInv
<1>1. Init => QuietInv
  BY DEF Init, QuietInv, StatesMatch, IdleIsQuiet, OnlyVirtual
<1>2. TypeOK /\ QuietInv /\ [Next]_vars => QuietInv'
  BY NextQuiet
<1> QED BY <1>1, <1>2, TypeCorrect, PTL DEF Spec

(* do_live_reload replaces the layout only while none of the user's keys   *)
(* is held at the OS, and the loop blocks only when layout and OS agree on *)
(* them: for every length of an iteration and every number of commands.    *)
THEOREM ReloadsLeaveNoKeyDown == Spec => ReloadLeavesNoKeyDown
<1>1. TypeOK /\ QuietInv /\ QuietInv' /\ [Next]_vars =>
        [/\ loaded' # loaded => (states \cup prevKeys) \subseteq VKeys
         /\ pc' = "block" => states' \ VKeys = prevKeys' \ VKeys]_vars
  <2> SUFFICES ASSUME TypeOK, QuietInv, QuietInv', [Next]_vars
               PROVE  /\ loaded' # loaded => (states \cup prevKeys) \subseteq VKeys
                      /\ pc' = "block" => states' \ VKeys = prevKeys' \ VKeys
    OBVIOUS
  <2>1. pc' = "block" => states' \ VKeys = prevKeys' \ VKeys
    BY DEF QuietInv, StatesMatch
  <2>2. ASSUME loaded' # loaded PROVE (states \cup prevKeys) \subseteq VKeys
    <3>1. (BeginHandle \/ EndTicks) /\ MayReload
      BY <2>2 DEF Next, User, LetGo, ReadPress, ReadRelease, ReadWheel, LoseRelease, EventLoop, LookUpMapped,
             WriteRaw, TrySend, ProcessingThread, CollectMore, InitStep, InitDone, Check, RecvFirst, PollEmpty,
             CollectInOrder, CollectUnordered, BeginHandle, HandleInputEvent, LockForTicks, Tick, TickStates, EndTicks,
             Client, RequestReload, ActOnFakeKey, SeeComplete, WaitTimesOut, SendReloadResult,
             SendWakeUp, vars, engine
    <3> QED BY <3>1, BoundAssumption DEF MayReload, QuietInv, StatesMatch, IdleIsQuiet, TypeOK,
             EngineType
  <2> QED BY <2>1, <2>2
<1> QED BY <1>1, TypeCorrect, QuietAlways, PTL DEF Spec, ReloadLeavesNoKeyDown

-----------------------------------------------------------------------------
(* While no more events pile up than sort_by sorts by insertion, the order *)
(* of every batch is defined.                                              *)
LEMMA ShortIsOrdered == TypeOK /\ ShortBatch' => ~CollectUnordered
<1> SUFFICES ASSUME TypeOK, CollectUnordered PROVE ~ShortBatch'
  OBVIOUS
<1>1. Append(batch, Head(chan)) \in Seq(Event \cup {WakeUp})
  BY TailType DEF CollectUnordered, TypeOK, LoopType
<1>2. Len(batch') = Len(Append(batch, Head(chan)))
  BY <1>1, ShuffleType DEF CollectUnordered
<1> QED BY <1>2 DEF CollectUnordered, Sortable, ShortBatch

(* The conditions under which no release is lost on its way: no device     *)
(* vanishes with a key held, the user starts with all keys released, as    *)
(* src/main.rs asks, and all configurations map the same keys.             *)
Mapped == MappedBy[FirstCfg]
SameKeysMapped == \A c \in Cfgs : MappedBy[c] = Mapped
Undisturbed == ~DropsReleases /\ HeldAtStart = {} /\ SameKeysMapped
PlainKeys == Mapped \ VKeys

(* Where the loop is: the batch is empty between two iterations, the start *)
(* phase leaves the layout to the clients, and the layout presses only     *)
(* what the configuration maps.                                            *)
PassInv ==
    /\ pc \notin {"collect", "handle"} => batch = <<>>
    /\ pc = "init" => states = {} /\ OnlyVirtual(queue)
    /\ states \subseteq Mapped \cup VKeys

(* The event that event_loop has in hand agrees with the user's fingers    *)
(* and with the mapping that has been looked up.                           *)
InHand(e) == inEvent.stage # "none" /\ inEvent.ev = e
ReaderInv ==
    /\ \A k \in Keys : InHand(PressOf(k)) => k \in phys
    /\ \A k \in Keys : InHand(ReleaseOf(k)) => k \notin phys
    /\ inEvent.stage = "raw" => inEvent.ev.code \notin Mapped
    /\ inEvent.stage = "send" => inEvent.ev.code \in Mapped

(* The release of k is still to be made, in hand, or further on its way.   *)
Handed(k) == k \in phys \/ InHand(ReleaseOf(k))
InChan(k) == HasRelease(chan, k) \/ Handed(k)
InBatch(k) == HasRelease(batch, k) \/ InChan(k)
InQueue(k) == HasRelease(queue, k) \/ InBatch(k)

(* Behind every press of k, wherever it has got to, comes a release of k.  *)
ReleaseFollows(k) ==
    /\ Settled(chan, k) \/ Handed(k)
    /\ Settled(batch, k) \/ InChan(k)
    /\ Settled(queue, k) \/ InBatch(k)
    /\ k \in states => InQueue(k)
ReleaseInv == alive => \A k \in PlainKeys : ReleaseFollows(k)

(* A key is down at the OS because the layout presses it or, when it is    *)
(* not mapped, because the user does.                                      *)
DownInv ==
    /\ osDown \cap PlainKeys \subseteq prevKeys
    /\ \A k \in osDown \ (Mapped \cup VKeys) : Handed(k)

(* What the steps of the loop leave alone.                                 *)
LEMMA NextPass ==
    ASSUME SameKeysMapped, TypeOK, PassInv, [Next]_vars
    PROVE  PassInv'
<1>1. loaded \in Cfgs /\ MappedBy[loaded] = Mapped
  BY DEF TypeOK, EngineType, SameKeysMapped
<1>2. CASE UNCHANGED <<pc, batch, states, queue>>
  BY <1>2 DEF PassInv
<1>3. CASE InitDone \/ Check \/ RecvFirst \/ PollEmpty \/ CollectInOrder \/ CollectUnordered \/ LockForTicks
  BY <1>3 DEF PassInv, InitDone, Check, RecvFirst, PollEmpty, CollectInOrder, CollectUnordered, LockForTicks, engine
<1>4. CASE HandleInputEvent
  BY <1>4 DEF PassInv, HandleInputEvent
<1>5. CASE BeginHandle \/ EndTicks
  <2>1. states' \subseteq states
    BY <1>5 DEF BeginHandle, EndTicks, DoLiveReload, engine
  <2> QED BY <1>5, <2>1 DEF PassInv, BeginHandle, EndTicks
<1>6. CASE Tick
  <2>1. states' \subseteq Mapped \cup VKeys
    BY <1>1, <1>6 DEF PassInv, Tick, TickStates, LayoutTick
  <2> QED BY <1>6, <2>1 DEF PassInv, Tick
<1>7. ASSUME NEW c \in Clients, NEW k \in VKeys, NEW a \in {"press", "release", "tap", "toggle"},
             ActOnFakeKey(c, k, a)
      PROVE  PassInv'
  <2>1. OnlyVirtual(queue) => OnlyVirtual(queue \o FakeKeyEvents(k, a))
    BY FakeKeyCodes, OnlyVirtualKept DEF TypeOK, EngineType
  <2> QED BY <1>7, <2>1 DEF ActOnFakeKey, PassInv
<1>8. \/ UNCHANGED <<pc, batch, states, queue>>
      \/ InitDone \/ Check \/ RecvFirst \/ PollEmpty \/ CollectInOrder \/ CollectUnordered \/ LockForTicks
      \/ HandleInputEvent \/ BeginHandle \/ EndTicks \/ Tick
      \/ \E c \in Clients, k \in VKeys, a \in {"press", "release", "tap", "toggle"} :
           ActOnFakeKey(c, k, a)
  BY DEF Next, User, LetGo, ReadPress, ReadRelease, ReadWheel, LoseRelease, EventLoop, LookUpMapped,
         WriteRaw, TrySend, ProcessingThread, CollectMore, InitStep, Client, RequestReload, SeeComplete,
         WaitTimesOut, SendReloadResult, SendWakeUp, vars, engine
<1> QED BY <1>2, <1>3, <1>4, <1>5, <1>6, <1>7, <1>8

(* What the other threads do leaves the reader's event alone.              *)
LEMMA NextReader ==
    ASSUME ~DropsReleases, SameKeysMapped, TypeOK, ReaderInv, [Next]_vars
    PROVE  ReaderInv'
<1>1. loaded \in Cfgs /\ MappedBy[loaded] = Mapped
  BY DEF TypeOK, EngineType, SameKeysMapped
<1>2. CASE UNCHANGED <<phys, inEvent>>
  BY <1>2 DEF ReaderInv, InHand
<1>3. ASSUME NEW k \in Keys, ReadPress(k) \/ ReadRelease(k) \/ ReadWheel(k) PROVE ReaderInv'
  BY <1>3 DEF ReadPress, ReadRelease, ReadWheel, ReaderInv, InHand, PressOf, ReleaseOf
<1>4. CASE LookUpMapped
  BY <1>1, <1>4 DEF LookUpMapped, ReaderInv, InHand, TypeOK, ReaderType, world
<1>5. CASE WriteRaw \/ TrySend
  BY <1>5 DEF WriteRaw, TrySend, ReaderInv, InHand, world
<1>6. \/ UNCHANGED <<phys, inEvent>> \/ LookUpMapped \/ WriteRaw \/ TrySend
      \/ \E k \in Keys : ReadPress(k) \/ ReadRelease(k) \/ ReadWheel(k)
  BY DEF Next, User, LetGo, LoseRelease, EventLoop, ProcessingThread, CollectMore, InitStep, InitDone, Check, RecvFirst,
         PollEmpty, CollectInOrder, CollectUnordered, BeginHandle, DoLiveReload, HandleInputEvent, LockForTicks, Tick,
         TickStates, EndTicks, Client, RequestReload, ActOnFakeKey, SeeComplete, WaitTimesOut,
         SendReloadResult, SendWakeUp, vars, world, reader
<1> QED BY <1>2, <1>3, <1>4, <1>5, <1>6

(* A key that is down at the OS has its release coming.                    *)
LEMMA NextDown ==
    ASSUME ~DropsReleases, SameKeysMapped, TypeOK, PassInv', ReaderInv, DownInv, [Next]_vars
    PROVE  DownInv'
<1>1. CASE UNCHANGED <<phys, inEvent, osDown, prevKeys>>
  BY <1>1 DEF DownInv, Handed, InHand
<1>2. ASSUME NEW k \in Keys, ReadPress(k) \/ ReadRelease(k) \/ ReadWheel(k) PROVE DownInv'
  <2>1. \A l : Handed(l) => Handed(l)'
    BY <1>2 DEF ReadPress, ReadRelease, ReadWheel, Handed, InHand, ReleaseOf
  <2> QED BY <1>2, <2>1 DEF ReadPress, ReadRelease, ReadWheel, DownInv, engine
<1>3. CASE LookUpMapped
  <2>1. \A l : Handed(l) => Handed(l)'
    BY <1>3 DEF LookUpMapped, Handed, InHand, TypeOK, ReaderType, world
  <2> QED BY <1>3, <2>1 DEF LookUpMapped, DownInv, world, engine
<1>4. CASE WriteRaw
  <2> DEFINE ev == inEvent.ev
  <2>1. ev \in Event /\ ev.code \notin Mapped /\ inEvent'.stage = "none"
    BY <1>4 DEF WriteRaw, ReaderInv, TypeOK, ReaderType
  <2>2. osDown' \cap PlainKeys \subseteq prevKeys'
    BY <1>4, <2>1 DEF WriteRaw, DownInv, PlainKeys, engine
  <2>3. ASSUME NEW l \in osDown' \ (Mapped \cup VKeys) PROVE Handed(l)'
    <3>1. CASE ev = PressOf(l)
      BY <1>4, <2>1, <3>1 DEF ReaderInv, InHand, WriteRaw, Handed, Event, PressOf
    <3>2. CASE ev # PressOf(l)
      <4>1. l \in osDown /\ ev # ReleaseOf(l)
        BY <1>4, <2>1, <2>3, <3>2 DEF WriteRaw, Event, PressOf, ReleaseOf
      <4> QED BY <1>4, <2>3, <4>1 DEF WriteRaw, DownInv, Handed, InHand
    <3> QED BY <3>1, <3>2
  <2> QED BY <2>2, <2>3 DEF DownInv
<1>5. CASE TrySend
  <2>1. ASSUME NEW l \in osDown' \ (Mapped \cup VKeys) PROVE Handed(l)'
    <3>1. inEvent.ev # ReleaseOf(l)
      BY <1>5, <2>1 DEF TrySend, ReaderInv, ReleaseOf
    <3> QED BY <1>5, <2>1, <3>1 DEF TrySend, DownInv, Handed, InHand, world
  <2> QED BY <1>5, <2>1 DEF TrySend, DownInv, world, engine
<1>6. CASE InitStep
  BY <1>6 DEF InitStep, DownInv, Handed, InHand, reader, engine
<1>7. CASE BeginHandle \/ EndTicks
  BY <1>7 DEF BeginHandle, EndTicks, DoLiveReload, DownInv, Handed, InHand, reader, engine, world
<1>8. CASE Tick
  BY <1>8 DEF Tick, TickStates, DownInv, PassInv, PlainKeys, Handed, InHand, reader
<1>9. \/ UNCHANGED <<phys, inEvent, osDown, prevKeys>> \/ LookUpMapped \/ WriteRaw \/ TrySend
      \/ InitStep \/ BeginHandle \/ EndTicks \/ Tick
      \/ \E k \in Keys : ReadPress(k) \/ ReadRelease(k) \/ ReadWheel(k)
  BY DEF Next, User, LetGo, LoseRelease, EventLoop, ProcessingThread, CollectMore, InitDone, Check, RecvFirst,
         PollEmpty, CollectInOrder, CollectUnordered, HandleInputEvent, LockForTicks, Client, RequestReload,
         ActOnFakeKey, SeeComplete, WaitTimesOut, SendReloadResult, SendWakeUp, vars, world, reader,
         engine
<1> QED BY <1>1, <1>2, <1>3, <1>4, <1>5, <1>6, <1>7, <1>8, <1>9

(* A queue without events of k is settled.                                 *)
LEMMA SettledWithout ==
    ASSUME NEW s, NEW k \in PlainKeys, OnlyVirtual(s)
    PROVE  Settled(s, k)
BY DEF OnlyVirtual, Settled, PressOf, PlainKeys

(* The reader's steps keep the release of k coming.                        *)
LEMMA ReaderKeepsRelease ==
    ASSUME ~DropsReleases, TypeOK, ReaderInv, NEW k \in PlainKeys, k \in Keys, ReleaseFollows(k),
           alive', User \/ EventLoop
    PROVE  ReleaseFollows(k)'
<1> USE DEF ReleaseFollows, InQueue, InBatch, InChan
<1>1. ASSUME NEW l \in Keys, ReadPress(l) \/ ReadRelease(l) \/ ReadWheel(l)
      PROVE  ReleaseFollows(k)'
  <2>1. Handed(k) => Handed(k)'
    <3>1. CASE l = k /\ ReadRelease(l)
      BY <3>1 DEF ReadRelease, Handed, InHand, ReleaseOf
    <3>2. CASE ~(l = k /\ ReadRelease(l))
      BY <1>1, <3>2 DEF ReadPress, ReadRelease, ReadWheel, Handed, InHand
    <3> QED BY <3>1, <3>2
  <2>2. UNCHANGED <<chan, batch, queue, states>>
    BY <1>1 DEF ReadPress, ReadRelease, ReadWheel, engine
  <2> QED BY <2>1, <2>2
<1>2. CASE LookUpMapped
  <2>1. Handed(k) => Handed(k)'
    <3>1. inEvent'.ev = inEvent.ev /\ inEvent'.stage # "none" /\ phys' = phys
      BY <1>2 DEF LookUpMapped, TypeOK, ReaderType, world
    <3> QED BY <3>1 DEF Handed, InHand
  <2>2. UNCHANGED <<chan, batch, queue, states>>
    BY <1>2 DEF LookUpMapped, engine
  <2> QED BY <2>1, <2>2
<1>3. CASE WriteRaw
  <2>1. inEvent.ev # ReleaseOf(k)
    BY <1>3 DEF WriteRaw, ReaderInv, ReleaseOf, PlainKeys
  <2>2. Handed(k) => Handed(k)'
    BY <1>3, <2>1 DEF WriteRaw, Handed, InHand
  <2>3. UNCHANGED <<chan, batch, queue, states>>
    BY <1>3 DEF WriteRaw, engine
  <2> QED BY <2>2, <2>3
<1>4. CASE TrySend
  <2> DEFINE ev == inEvent.ev
  <2>1. ev \in Event \cup {WakeUp} /\ chan \in Seq(Event \cup {WakeUp})
    BY <1>4 DEF TrySend, TypeOK, ReaderType, LoopType
  <2>2. chan' = Append(chan, ev) /\ UNCHANGED <<phys, batch, queue, states>>
    BY <1>4 DEF TrySend, world, engine
  <2>3. /\ ev = ReleaseOf(k) => Settled(chan', k) /\ HasRelease(chan', k)
        /\ Settled(chan, k) /\ ev # PressOf(k) => Settled(chan', k)
        /\ HasRelease(chan, k) => HasRelease(chan', k)
    <3> HIDE DEF ev
    <3> QED BY <2>1, <2>2, AppendKeeps
  <2>4. CASE ev = ReleaseOf(k)
    BY <2>2, <2>3, <2>4
  <2>5. CASE ev = PressOf(k)
    BY <1>4, <2>2, <2>5 DEF TrySend, ReaderInv, Handed, InHand
  <2>6. CASE ev # ReleaseOf(k) /\ ev # PressOf(k)
    <3>1. Handed(k) => Handed(k)'
      BY <2>2, <2>6 DEF Handed, InHand
    <3> QED BY <2>2, <2>3, <2>6, <3>1
  <2> QED BY <2>4, <2>5, <2>6
<1> QED BY <1>1, <1>2, <1>3, <1>4 DEF User, LetGo, LoseRelease, EventLoop

(* Moving an event on its way keeps the release coming, if the place it    *)
(* leaves and the place it goes to treat it as a queue does.               *)
LEMMA ProcessingKeepsRelease ==
    ASSUME TypeOK, PassInv, NEW k \in PlainKeys, k \in Keys, ReleaseFollows(k), ProcessingThread,
           ShortBatch'
    PROVE  ReleaseFollows(k)'
<1> USE DEF ReleaseFollows, InQueue, InBatch, InChan
<1> DEFINE Es == Event \cup {WakeUp}
<1>1. CASE InitStep
  <2>1. batch = <<>> /\ states = {} /\ Settled(queue, k)
    BY <1>1, SettledWithout DEF InitStep, PassInv
  <2>2. UNCHANGED <<batch, states, queue>> /\ (Handed(k) => Handed(k)')
    BY <1>1 DEF InitStep, engine, reader, Handed, InHand
  <2>3. Settled(batch, k)
    BY <2>1 DEF Settled
  <2>4. Settled(chan, k) => Settled(chan', k)
    BY <1>1, TailKeeps DEF InitStep, TypeOK, LoopType
  <2> QED BY <2>1, <2>2, <2>3, <2>4
<1>2. CASE UNCHANGED <<phys, inEvent, chan, batch, queue, states>>
  BY <1>2 DEF Handed, InHand
<1>3. CASE RecvFirst \/ CollectInOrder
  <2> DEFINE e == Head(chan)
  <2>1. chan # <<>> /\ chan' = Tail(chan) /\ UNCHANGED <<queue, states, phys, inEvent>>
    BY <1>3 DEF RecvFirst, CollectInOrder, engine, world, reader
  <2>2. e \in Es /\ chan \in Seq(Es) /\ batch \in Seq(Es)
    BY <2>1, TailType DEF TypeOK, LoopType
  <2>3. /\ e = ReleaseOf(k) => Settled(batch', k) /\ HasRelease(batch', k)
        /\ Settled(batch, k) /\ e # PressOf(k) => Settled(batch', k)
        /\ HasRelease(batch, k) => HasRelease(batch', k)
    <3>1. CASE RecvFirst
      <4>1. batch = <<>> /\ batch' = Append(batch, e)
        BY <3>1 DEF RecvFirst, PassInv
      <4> HIDE DEF e
      <4> QED BY <2>2, <4>1, AppendKeeps
    <3>2. CASE CollectInOrder
      <4>1. batch' = Insert(batch, e)
        BY <3>2 DEF CollectInOrder
      <4> HIDE DEF e
      <4> QED BY <2>2, <4>1, InsertKeeps
    <3> QED BY <1>3, <3>1, <3>2
  <2>4. /\ Settled(chan, k) => Settled(chan', k)
        /\ Settled(chan, k) /\ e = PressOf(k) => HasRelease(chan', k)
        /\ HasRelease(chan, k) /\ e # ReleaseOf(k) => HasRelease(chan', k)
    BY <2>1, <2>2, TailKeeps
  <2>5. Handed(k) => Handed(k)'
    BY <2>1 DEF Handed, InHand
  <2> HIDE DEF e
  <2> QED BY <2>1, <2>3, <2>4, <2>5
<1>4. CASE BeginHandle \/ EndTicks
  <2>1. UNCHANGED <<chan, batch>> /\ (Handed(k) => Handed(k)')
    BY <1>4 DEF BeginHandle, EndTicks, DoLiveReload, reader, world, engine, Handed, InHand
  <2>2. UNCHANGED <<queue, states>> \/ (queue' = <<>> /\ states' = {})
    BY <1>4 DEF BeginHandle, EndTicks, DoLiveReload, engine
  <2>3. Settled(<<>>, k)
    BY DEF Settled
  <2> QED BY <2>1, <2>2, <2>3
<1>5. CASE HandleInputEvent
  <2> DEFINE e == Head(batch)
  <2>1. batch # <<>> /\ batch' = Tail(batch) /\ UNCHANGED <<chan, states, phys, inEvent>>
    BY <1>5 DEF HandleInputEvent, reader, world
  <2>2. e \in Es /\ batch \in Seq(Es) /\ queue \in Seq(QueuedEvent)
    BY <2>1, TailType DEF TypeOK, LoopType, EngineType
  <2>3. /\ e = ReleaseOf(k) => Settled(queue', k) /\ HasRelease(queue', k)
        /\ Settled(queue, k) /\ e # PressOf(k) => Settled(queue', k)
        /\ HasRelease(queue, k) => HasRelease(queue', k)
    <3>1. CASE e.value \in {"press", "release"}
      <4>1. queue' = Append(queue, e) /\ e \in QueuedEvent
        BY <1>5, <2>2, <3>1 DEF HandleInputEvent, Event, WakeUp, QueuedEvent
      <4> HIDE DEF e
      <4> QED BY <2>2, <4>1, AppendKeeps
    <3>2. CASE e.value = "tap"
      <4> DEFINE two == << [code |-> e.code, value |-> "press"],
                           [code |-> e.code, value |-> "release"] >>
      <4>1. queue' = queue \o two
        BY <1>5, <3>2 DEF HandleInputEvent
      <4>2. e.code \in Keys /\ e # ReleaseOf(k)
        BY <2>2, <3>2 DEF Event, WakeUp, ReleaseOf
      <4>3. two \in Seq(QueuedEvent)
        BY <4>2 DEF QueuedEvent
      <4>4. Settled(two, k)
        BY DEF Settled, PressOf, ReleaseOf
      <4> HIDE DEF e, two
      <4> QED BY <2>2, <4>1, <4>2, <4>3, <4>4, ConcatKeeps
    <3>3. CASE e.value \notin {"press", "release", "tap"}
      BY <1>5, <3>3 DEF HandleInputEvent, ReleaseOf
    <3> QED BY <3>1, <3>2, <3>3
  <2>4. /\ Settled(batch, k) => Settled(batch', k)
        /\ Settled(batch, k) /\ e = PressOf(k) => HasRelease(batch', k)
        /\ HasRelease(batch, k) /\ e # ReleaseOf(k) => HasRelease(batch', k)
    BY <2>1, <2>2, TailKeeps
  <2>5. Handed(k) => Handed(k)'
    BY <2>1 DEF Handed, InHand
  <2> HIDE DEF e
  <2> QED BY <2>1, <2>3, <2>4, <2>5
<1>6. CASE Tick
  <2>1. UNCHANGED <<chan, batch>> /\ (Handed(k) => Handed(k)')
    BY <1>6 DEF Tick, TickStates, reader, Handed, InHand
  <2>2. CASE queue = <<>>
    BY <1>6, <2>1, <2>2 DEF Tick, TickStates, LayoutTick
  <2>3. CASE queue # <<>>
    <3> DEFINE e == Head(queue)
    <3>1. e \in QueuedEvent /\ queue' = Tail(queue) /\ queue \in Seq(QueuedEvent)
      BY <1>6, <2>3, TailType DEF Tick, TickStates, LayoutTick, TypeOK, EngineType
    <3>2. k \in states' => e = PressOf(k) \/ (k \in states /\ e # ReleaseOf(k))
      BY <1>6, <2>3, <3>1 DEF Tick, TickStates, LayoutTick, QueuedEvent, PressOf, ReleaseOf
    <3>3. /\ Settled(queue, k) => Settled(queue', k)
          /\ Settled(queue, k) /\ e = PressOf(k) => HasRelease(queue', k)
          /\ HasRelease(queue, k) /\ e # ReleaseOf(k) => HasRelease(queue', k)
      BY <2>3, <3>1, TailKeeps
    <3> HIDE DEF e
    <3> QED BY <2>1, <3>2, <3>3
  <2> QED BY <2>2, <2>3
<1> QED BY <1>1, <1>2, <1>3, <1>4, <1>5, <1>6, ShortIsOrdered DEF ProcessingThread, CollectMore, InitDone, Check,
        PollEmpty, LockForTicks, world, reader, engine

(* A client's commands and wakeups concern no key of the user.             *)
LEMMA ClientKeepsRelease ==
    ASSUME TypeOK, NEW k \in PlainKeys, ReleaseFollows(k), NEW c \in Clients, Client(c)
    PROVE  ReleaseFollows(k)'
<1> USE DEF ReleaseFollows, InQueue, InBatch, InChan
<1>1. CASE UNCHANGED <<phys, inEvent, chan, batch, queue, states>>
  BY <1>1 DEF Handed, InHand
<1>2. ASSUME NEW l \in VKeys, NEW a \in {"press", "release", "tap", "toggle"}, ActOnFakeKey(c, l, a)
      PROVE  ReleaseFollows(k)'
  <2>1. queue' = queue \o FakeKeyEvents(l, a) /\ UNCHANGED <<chan, batch, states>>
    BY <1>2 DEF ActOnFakeKey
  <2>2. Handed(k) => Handed(k)'
    BY <1>2 DEF ActOnFakeKey, Handed, InHand, world, reader
  <2>3. Settled(FakeKeyEvents(l, a), k) /\ FakeKeyEvents(l, a) \in Seq(QueuedEvent)
    BY FakeKeyCodes, SettledWithout
  <2>4. /\ Settled(queue, k) => Settled(queue', k)
        /\ HasRelease(queue, k) => HasRelease(queue', k)
    BY <2>1, <2>3, ConcatKeeps DEF TypeOK, EngineType
  <2> QED BY <2>1, <2>2, <2>4
<1>3. CASE SendWakeUp(c)
  <2>1. chan' = Append(chan, WakeUp) /\ UNCHANGED <<batch, queue, states>>
    BY <1>3 DEF SendWakeUp, engine
  <2>2. Handed(k) => Handed(k)'
    BY <1>3 DEF SendWakeUp, Handed, InHand, world, reader
  <2>3. WakeUp # PressOf(k) /\ WakeUp \in Event \cup {WakeUp}
    BY DEF WakeUp, PressOf
  <2>4. /\ Settled(chan, k) => Settled(chan', k)
        /\ HasRelease(chan, k) => HasRelease(chan', k)
    BY <2>1, <2>3, AppendKeeps DEF TypeOK, LoopType
  <2> QED BY <2>1, <2>2, <2>4
<1> QED BY <1>1, <1>2, <1>3 DEF Client, RequestReload, SeeComplete, WaitTimesOut, SendReloadResult,
        world, reader, engine

(* All that has to hold for no key to get stuck.                           *)
KeyInv == PassInv /\ ReaderInv /\ DownInv /\ ReleaseInv

(* Every step keeps every press together with its release.                 *)
LEMMA NextKeyInv ==
    ASSUME Undisturbed, TypeOK, KeyInv, ShortBatch', [Next]_vars
    PROVE  KeyInv'
<1>1. PassInv' /\ ReaderInv'
  BY NextPass, NextReader DEF KeyInv, Undisturbed
<1>2. DownInv'
  BY <1>1, NextDown DEF KeyInv, Undisturbed
<1>3. ReleaseInv'
  <2> SUFFICES ASSUME alive', NEW k \in PlainKeys PROVE ReleaseFollows(k)'
    BY DEF ReleaseInv
  <2>1. alive
    BY DEF Next, User, LetGo, ReadPress, ReadRelease, ReadWheel, LoseRelease, EventLoop, LookUpMapped,
           WriteRaw, TrySend, ProcessingThread, CollectMore, InitStep, InitDone, Check, RecvFirst, PollEmpty,
           CollectInOrder, CollectUnordered, BeginHandle, HandleInputEvent, LockForTicks, Tick, EndTicks, Client,
           RequestReload, ActOnFakeKey, SeeComplete, WaitTimesOut, SendReloadResult, SendWakeUp,
           vars, reader
  <2>2. ReleaseFollows(k) /\ k \in Keys
    BY <2>1, CfgAssumption DEF KeyInv, ReleaseInv, PlainKeys, Mapped
  <2>3. CASE UNCHANGED vars
    BY <2>2, <2>3 DEF vars, world, reader, engine, ReleaseFollows, InQueue, InBatch, InChan, Handed,
                      InHand
  <2> QED BY <2>2, <2>3, ReaderKeepsRelease, ProcessingKeepsRelease, ClientKeepsRelease
          DEF KeyInv, Undisturbed, Next
<1> QED BY <1>1, <1>2, <1>3 DEF KeyInv

(* When the user has let go of everything and every thread has come to     *)
(* rest, the OS holds no key of the user: no press is delivered whose      *)
(* release is swallowed, whatever the interleaving of the threads, the     *)
(* reordering of the batches, the reloads and the commands of clients, as  *)
(* long as no more than SortRun events pile up: beyond that the comparator *)
(* of collect_and_sort_events, which is no total order, leaves the order   *)
(* to the standard library.                                                *)
THEOREM NoKeyIsStuck ==
    ASSUME Undisturbed
    PROVE  Spec /\ []ShortBatch => []NoStuckKey
<1>1. Init => KeyInv
  BY DEF Undisturbed, Init, KeyInv, PassInv, OnlyVirtual, ReaderInv, InHand, DownInv, ReleaseInv,
         ReleaseFollows, Settled
<1>2. TypeOK /\ KeyInv /\ ShortBatch' /\ [Next]_vars => KeyInv'
  BY NextKeyInv
<1>3. TypeOK /\ QuietInv /\ KeyInv => NoStuckKey
  <2> SUFFICES ASSUME TypeOK, QuietInv, KeyInv, alive, pc = "block", phys = {},
                      inEvent.stage = "none", chan = <<>>, queue = <<>>, NEW k \in osDown \ VKeys
               PROVE  FALSE
    BY DEF NoStuckKey
  <2>1. batch = <<>> /\ ~Handed(k)
    BY DEF KeyInv, PassInv, Handed, InHand
  <2>2. k \in PlainKeys /\ k \in states
    BY <2>1 DEF KeyInv, DownInv, PlainKeys, QuietInv, StatesMatch
  <2>3. InQueue(k)
    BY <2>2 DEF KeyInv, ReleaseInv, ReleaseFollows
  <2> QED BY <2>1, <2>3 DEF InQueue, InBatch, InChan, HasRelease
<1> QED BY <1>1, <1>2, <1>3, TypeCorrect, QuietAlways, PTL DEF Spec

-----------------------------------------------------------------------------
(* The order of the events of one key in the channel and the sorted batch. *)
Values == {"press", "release"}
Is(e, k, v) == e.code = k /\ e.value = v

(* s names the key k somewhere from position a to position b.              *)
Between(s, k, a, b) == \E m \in a..b : s[m].code = k
Touches(s, k) == Between(s, k, 1, Len(s))

(* Two events of k with the value v have another event of k between them;  *)
(* the first event of k does not have the value v; the last one does not.  *)
Alternates(s, k, v) ==
    \A i, j \in 1..Len(s) :
        i < j /\ Is(s[i], k, v) /\ Is(s[j], k, v) => Between(s, k, i + 1, j - 1)
Starts(s, k, v) == \A j \in 1..Len(s) : Is(s[j], k, v) => Between(s, k, 1, j - 1)
Continues(s, k, v) == \A i \in 1..Len(s) : Is(s[i], k, v) => Between(s, k, i + 1, Len(s))

(* The reader's next event of k, as far as it is a press or a release.     *)
Upcoming(k) ==
    IF InHand(PressOf(k)) THEN "press"
    ELSE IF InHand(ReleaseOf(k)) THEN "release"
    ELSE IF k \in phys THEN "release" ELSE "press"

(* The batch, the channel and the user's next event, taken together, have  *)
(* presses and releases of k in turn.                                      *)
InTurn(k, v) ==
    /\ Alternates(batch, k, v)
    /\ Alternates(chan, k, v)
    /\ Continues(batch, k, v) \/ Starts(chan, k, v)
    /\ alive /\ v = Upcoming(k) =>
         Continues(chan, k, v) /\ (Continues(batch, k, v) \/ Touches(chan, k))

(* Only mapped keys are sent on the channel.                               *)
Sent == {e \in Event \cup {WakeUp} : e.value \in Values => e.code \in Mapped}
SentInv == chan \in Seq(Sent) /\ batch \in Seq(Sent)

OrderInv == SentInv /\ \A k \in Mapped, v \in Values : InTurn(k, v)

-----------------------------------------------------------------------------
(* Taking the first event.                                                 *)
LEMMA TailInTurn ==
    ASSUME NEW S, NEW s \in Seq(S), s # <<>>, NEW k, NEW v
    PROVE  /\ Alternates(s, k, v) => Alternates(Tail(s), k, v)
           /\ Alternates(s, k, v) /\ Is(Head(s), k, v) => Starts(Tail(s), k, v)
           /\ Starts(s, k, v) => ~Is(Head(s), k, v)
           /\ Starts(s, k, v) /\ Head(s).code # k => Starts(Tail(s), k, v)
           /\ Continues(s, k, v) => Continues(Tail(s), k, v)
           /\ Continues(s, k, v) /\ Is(Head(s), k, v) => Touches(Tail(s), k)
           /\ Touches(s, k) /\ Head(s).code # k => Touches(Tail(s), k)
<1> DEFINE t == Tail(s)
<1>1. /\ Len(s) \in Nat \ {0} /\ Len(t) = Len(s) - 1 /\ Head(s) = s[1]
      /\ \A i \in 1..Len(t) : t[i] = s[i + 1]
  OBVIOUS
<1> HIDE DEF t
<1>2. ASSUME NEW a \in Nat, NEW b \in Nat, 1 <= a, b < Len(s), Between(s, k, a + 1, b + 1)
      PROVE  Between(t, k, a, b)
  <2>1. PICK m \in (a + 1)..(b + 1) : s[m].code = k
    BY <1>2 DEF Between
  <2>2. m - 1 \in a..b /\ t[m - 1] = s[m]
    BY <1>1, <1>2, <2>1
  <2> QED BY <2>1, <2>2 DEF Between
<1>3. ASSUME Alternates(s, k, v) PROVE Alternates(t, k, v)
  <2> SUFFICES ASSUME NEW i \in 1..Len(t), NEW j \in 1..Len(t), i < j, Is(t[i], k, v), Is(t[j], k, v)
               PROVE  Between(t, k, i + 1, j - 1)
    BY DEF Alternates
  <2>1. i + 1 \in 1..Len(s) /\ j + 1 \in 1..Len(s) /\ Is(s[i + 1], k, v) /\ Is(s[j + 1], k, v)
    BY <1>1
  <2>2. Between(s, k, (i + 1) + 1, (j + 1) - 1)
    BY <1>3, <2>1 DEF Alternates
  <2>3. (j + 1) - 1 = (j - 1) + 1 /\ i + 1 \in Nat /\ j - 1 \in Nat /\ j - 1 < Len(s)
    BY <1>1
  <2> QED BY <1>2, <2>2, <2>3
<1>4. ASSUME Alternates(s, k, v), Is(Head(s), k, v) PROVE Starts(t, k, v)
  <2> SUFFICES ASSUME NEW j \in 1..Len(t), Is(t[j], k, v) PROVE Between(t, k, 1, j - 1)
    BY DEF Starts
  <2>1. 1 \in 1..Len(s) /\ j + 1 \in 1..Len(s) /\ Is(s[1], k, v) /\ Is(s[j + 1], k, v)
    BY <1>1, <1>4
  <2>2. Between(s, k, 1 + 1, (j + 1) - 1)
    BY <1>4, <2>1 DEF Alternates
  <2>3. (j + 1) - 1 = (j - 1) + 1 /\ j - 1 \in Nat /\ j - 1 < Len(s)
    BY <1>1
  <2> QED BY <1>2, <2>2, <2>3
<1>5. Starts(s, k, v) => ~Is(Head(s), k, v)
  BY <1>1 DEF Starts, Between
<1>6. ASSUME Starts(s, k, v), Head(s).code # k PROVE Starts(t, k, v)
  <2> SUFFICES ASSUME NEW j \in 1..Len(t), Is(t[j], k, v) PROVE Between(t, k, 1, j - 1)
    BY DEF Starts
  <2>1. j + 1 \in 1..Len(s) /\ Is(s[j + 1], k, v)
    BY <1>1
  <2>2. Between(s, k, 1, (j + 1) - 1)
    BY <1>6, <2>1 DEF Starts
  <2>3. Between(s, k, 1 + 1, (j - 1) + 1)
    BY <1>1, <1>6, <2>2 DEF Between
  <2>4. j - 1 \in Nat /\ j - 1 < Len(s)
    BY <1>1
  <2> QED BY <1>2, <2>3, <2>4
<1>7. ASSUME Continues(s, k, v) PROVE Continues(t, k, v)
  <2> SUFFICES ASSUME NEW i \in 1..Len(t), Is(t[i], k, v) PROVE Between(t, k, i + 1, Len(t))
    BY DEF Continues
  <2>1. i + 1 \in 1..Len(s) /\ Is(s[i + 1], k, v)
    BY <1>1
  <2>2. Between(s, k, (i + 1) + 1, Len(t) + 1)
    BY <1>1, <1>7, <2>1 DEF Continues
  <2> QED BY <1>1, <1>2, <2>2
<1>8. ASSUME Continues(s, k, v), Is(Head(s), k, v) PROVE Touches(t, k)
  <2>1. Between(s, k, 1 + 1, Len(t) + 1)
    BY <1>1, <1>8 DEF Continues
  <2> QED BY <1>1, <1>2, <2>1 DEF Touches
<1>9. ASSUME Touches(s, k), Head(s).code # k PROVE Touches(t, k)
  <2>1. Between(s, k, 1 + 1, Len(t) + 1)
    BY <1>1, <1>9 DEF Touches, Between
  <2> QED BY <1>1, <1>2, <2>1 DEF Touches
<1> QED BY <1>3, <1>4, <1>5, <1>6, <1>7, <1>8, <1>9 DEF t

(* Placing an event so keeps the presses and releases of k in turn if the  *)
(* event is the turn of k.                                                 *)
LEMMA PlacedInTurn ==
    ASSUME NEW S, NEW s \in Seq(S), NEW e, NEW r, NEW p, Placed(r, s, e, p), NEW k, NEW v
    PROVE  /\ Alternates(s, k, v) /\ (Is(e, k, v) => Continues(s, k, v)) => Alternates(r, k, v)
           /\ Continues(s, k, v) /\ e.code # k => Continues(r, k, v)
           /\ e.code = k /\ e.value # v => Continues(r, k, v)
<1> DEFINE At(i) == IF i < p THEN i ELSE i + 1
<1>1. /\ Len(s) \in Nat /\ Len(r) = Len(s) + 1 /\ p \in 1..(Len(s) + 1) /\ r[p] = e
      /\ \A i \in 1..Len(s) : At(i) \in 1..Len(r) /\ r[At(i)] = s[i]
      /\ \A i, j \in 1..Len(s) : i < j => At(i) < At(j)
  BY DEF Placed
<1>2. \A i \in 1..Len(r) : i = p \/ \E j \in 1..Len(s) : i = At(j)
  <2> SUFFICES ASSUME NEW i \in 1..Len(r), i # p PROVE \E j \in 1..Len(s) : i = At(j)
    OBVIOUS
  <2>1. CASE i < p
    BY <1>1, <2>1
  <2>2. CASE i > p
    <3>1. i - 1 \in 1..Len(s) /\ i = At(i - 1)
      BY <1>1, <2>2
    <3> QED BY <3>1
  <2> QED BY <1>1, <2>1, <2>2
<1>3. \A i \in 1..Len(s) : s[i].code = e.code => At(i) < p
  BY <1>1 DEF Placed
<1> HIDE DEF At
<1>4. ASSUME Alternates(s, k, v), Is(e, k, v) => Continues(s, k, v) PROVE Alternates(r, k, v)
  <2> SUFFICES ASSUME NEW i \in 1..Len(r), NEW j \in 1..Len(r), i < j, Is(r[i], k, v), Is(r[j], k, v)
               PROVE  \E m \in (i + 1)..(j - 1) : r[m].code = k
    BY DEF Alternates, Between
  <2>1. CASE i # p /\ j # p
    <3>1. PICK x \in 1..Len(s), y \in 1..Len(s) : i = At(x) /\ j = At(y)
      BY <1>2, <2>1
    <3>2. x < y /\ Is(s[x], k, v) /\ Is(s[y], k, v)
      BY <1>1, <3>1
    <3>3. PICK m \in (x + 1)..(y - 1) : s[m].code = k
      BY <1>4, <3>2 DEF Alternates, Between
    <3>4. At(m) \in (i + 1)..(j - 1) /\ r[At(m)].code = k
      BY <1>1, <3>1, <3>3
    <3> QED BY <3>4
  <2>2. CASE j = p
    <3>1. Is(e, k, v)
      BY <1>1, <2>2
    <3>2. PICK x \in 1..Len(s) : i = At(x) /\ Is(s[x], k, v)
      BY <1>1, <1>2, <2>2
    <3>3. PICK m \in (x + 1)..Len(s) : s[m].code = k
      BY <1>4, <3>1, <3>2 DEF Continues, Between
    <3>4. At(m) < p /\ At(m) \in (i + 1)..(j - 1) /\ r[At(m)].code = k
      BY <1>1, <1>3, <2>2, <3>1, <3>2, <3>3 DEF Is
    <3> QED BY <3>4
  <2>3. CASE i = p
    <3>1. Is(e, k, v)
      BY <1>1, <2>3
    <3>2. PICK y \in 1..Len(s) : j = At(y) /\ Is(s[y], k, v)
      BY <1>1, <1>2, <2>3
    <3>3. j < p
      BY <1>3, <3>1, <3>2 DEF Is
    <3>4. ~(p < j)
      BY <1>1, <3>3
    <3> QED BY <2>3, <3>4
  <2> QED BY <2>1, <2>2, <2>3
<1>5. ASSUME Continues(s, k, v), e.code # k PROVE Continues(r, k, v)
  <2> SUFFICES ASSUME NEW i \in 1..Len(r), Is(r[i], k, v)
               PROVE  \E m \in (i + 1)..Len(r) : r[m].code = k
    BY DEF Continues, Between
  <2>1. PICK x \in 1..Len(s) : i = At(x) /\ Is(s[x], k, v)
    BY <1>1, <1>2, <1>5 DEF Is
  <2>2. PICK m \in (x + 1)..Len(s) : s[m].code = k
    BY <1>5, <2>1 DEF Continues, Between
  <2> QED BY <1>1, <2>1, <2>2
<1>6. ASSUME e.code = k, e.value # v PROVE Continues(r, k, v)
  <2> SUFFICES ASSUME NEW i \in 1..Len(r), Is(r[i], k, v)
               PROVE  \E m \in (i + 1)..Len(r) : r[m].code = k
    BY DEF Continues, Between
  <2>1. PICK x \in 1..Len(s) : i = At(x) /\ Is(s[x], k, v)
    BY <1>1, <1>2, <1>6 DEF Is
  <2>2. i < p
    BY <1>3, <1>6, <2>1 DEF Is
  <2> QED BY <1>1, <1>6, <2>2
<1> QED BY <1>4, <1>5, <1>6

(* Both ways into a sequence place an event so.                            *)
LEMMA InsertPlaces ==
    ASSUME NEW S, NEW s \in Seq(S), NEW e \in S
    PROVE  /\ \E p \in 1..(Len(s) + 1) : Placed(Insert(s, e), s, e, p)
           /\ Placed(Append(s, e), s, e, Len(s) + 1)
<1>1. \E p \in 1..(Len(s) + 1) : Placed(Insert(s, e), s, e, p)
  BY InsertPlace
<1>2. Placed(Append(s, e), s, e, Len(s) + 1)
  BY DEF Placed
<1> QED BY <1>1, <1>2

(* Putting an event at the end of the channel.                             *)
LEMMA AppendInTurn ==
    ASSUME NEW S, NEW s \in Seq(S), NEW e \in S, NEW k, NEW v
    PROVE  /\ Starts(s, k, v) /\ (Is(e, k, v) => Touches(s, k)) => Starts(Append(s, e), k, v)
           /\ Touches(s, k) \/ e.code = k => Touches(Append(s, e), k)
<1> DEFINE t == Append(s, e)
<1>1. /\ Len(s) \in Nat /\ Len(t) = Len(s) + 1 /\ t[Len(s) + 1] = e
      /\ \A i \in 1..Len(s) : t[i] = s[i]
  OBVIOUS
<1> HIDE DEF t
<1>2. ASSUME Starts(s, k, v), Is(e, k, v) => Touches(s, k) PROVE Starts(t, k, v)
  <2> SUFFICES ASSUME NEW j \in 1..Len(t), Is(t[j], k, v)
               PROVE  \E m \in 1..(j - 1) : t[m].code = k
    BY DEF Starts, Between
  <2>1. \E m \in 1..(j - 1) : m \in 1..Len(s) /\ s[m].code = k
    <3>1. CASE j <= Len(s)
      BY <1>1, <1>2, <3>1 DEF Starts, Between
    <3>2. CASE j = Len(s) + 1
      BY <1>1, <1>2, <3>2 DEF Touches, Between
    <3> QED BY <1>1, <3>1, <3>2
  <2> QED BY <1>1, <2>1
<1>3. Touches(s, k) \/ e.code = k => Touches(t, k)
  BY <1>1 DEF Touches, Between
<1> QED BY <1>2, <1>3 DEF t

-----------------------------------------------------------------------------
(* Only mapped keys reach the channel and the batch.                       *)
LEMMA NextSent ==
    ASSUME TypeOK, ReaderInv, SentInv, ShortBatch', [Next]_vars
    PROVE  SentInv'
<1> USE DEF SentInv
<1>1. CASE UNCHANGED <<chan, batch>>
  BY <1>1
<1>2. CASE TrySend
  <2>1. inEvent.ev \in Sent
    BY <1>2 DEF TrySend, TypeOK, ReaderType, ReaderInv, Sent
  <2>2. batch' = batch /\ (chan' = chan \/ chan' = Append(chan, inEvent.ev))
    BY <1>2 DEF TrySend
  <2> QED BY <2>1, <2>2
<1>3. ASSUME NEW c \in Clients, SendWakeUp(c) PROVE SentInv'
  <2>1. WakeUp \in Sent
    BY DEF Sent, WakeUp, Values
  <2> QED BY <1>3, <2>1 DEF SendWakeUp
<1>4. CASE InitStep
  BY <1>4, TailType DEF InitStep
<1>5. CASE RecvFirst
  <2>1. Head(chan) \in Sent /\ Tail(chan) \in Seq(Sent)
    BY <1>5, TailType DEF RecvFirst
  <2>2. batch' = <<Head(chan)>> /\ chan' = Tail(chan)
    BY <1>5 DEF RecvFirst
  <2> QED BY <2>1, <2>2
<1>6. CASE CollectInOrder
  <2>1. Head(chan) \in Sent /\ Tail(chan) \in Seq(Sent)
    BY <1>6, TailType DEF CollectInOrder
  <2>2. batch' = Insert(batch, Head(chan)) /\ chan' = Tail(chan)
    BY <1>6 DEF CollectInOrder
  <2> QED BY <2>1, <2>2, InsertType
<1>7. CASE HandleInputEvent
  BY <1>7, TailType DEF HandleInputEvent
<1> QED BY <1>1, <1>2, <1>3, <1>4, <1>5, <1>6, <1>7, ShortIsOrdered
    DEF Next, User, LetGo, ReadPress, ReadRelease, ReadWheel,
        LoseRelease, EventLoop, LookUpMapped, WriteRaw, ProcessingThread, CollectMore, InitDone, Check, PollEmpty,
        BeginHandle, LockForTicks, Tick, EndTicks, Client, RequestReload, ActOnFakeKey, SeeComplete,
        WaitTimesOut, SendReloadResult, vars

(* The reader takes the user's events in turn and sends them in turn.      *)
LEMMA ReaderInTurn ==
    ASSUME ~DropsReleases, TypeOK, ReaderInv, SentInv, NEW k \in Mapped, NEW v \in Values,
           InTurn(k, v), User \/ EventLoop
    PROVE  InTurn(k, v)'
<1>1. ASSUME UNCHANGED <<chan, batch>>, alive' => alive, alive' => Upcoming(k)' = Upcoming(k)
      PROVE  InTurn(k, v)'
  BY <1>1 DEF InTurn, Touches
<1>2. ASSUME NEW l \in Keys, ReadPress(l) PROVE InTurn(k, v)'
  <2>1. Upcoming(k)' = Upcoming(k)
    BY <1>2 DEF ReadPress, Upcoming, InHand, PressOf, ReleaseOf
  <2> QED BY <1>1, <1>2, <2>1 DEF ReadPress
<1>3. ASSUME NEW l \in Keys, ReadRelease(l) PROVE InTurn(k, v)'
  <2>1. Upcoming(k)' = Upcoming(k)
    BY <1>3 DEF ReadRelease, Upcoming, InHand, PressOf, ReleaseOf
  <2> QED BY <1>1, <1>3, <2>1 DEF ReadRelease
<1>4. ASSUME NEW l \in Keys, ReadWheel(l) PROVE InTurn(k, v)'
  <2>1. Upcoming(k)' = Upcoming(k)
    BY <1>4 DEF ReadWheel, Upcoming, InHand, PressOf, ReleaseOf
  <2> QED BY <1>1, <1>4, <2>1 DEF ReadWheel
<1>5. CASE LookUpMapped
  <2>1. inEvent'.ev = inEvent.ev /\ inEvent.stage # "none" /\ inEvent'.stage # "none" /\ phys' = phys
    BY <1>5 DEF LookUpMapped, TypeOK, ReaderType, world
  <2>2. Upcoming(k)' = Upcoming(k)
    BY <2>1 DEF Upcoming, InHand
  <2> QED BY <1>1, <1>5, <2>2 DEF LookUpMapped
<1>6. CASE WriteRaw
  <2>1. ~InHand(PressOf(k)) /\ ~InHand(ReleaseOf(k)) /\ inEvent'.stage = "none" /\ phys' = phys
    BY <1>6 DEF WriteRaw, ReaderInv, InHand, PressOf, ReleaseOf
  <2>2. Upcoming(k)' = Upcoming(k)
    BY <2>1 DEF Upcoming, InHand
  <2> QED BY <1>1, <1>6, <2>2 DEF WriteRaw
<1>7. CASE TrySend
  <2> DEFINE e == inEvent.ev
  <2>1. CASE ~alive'
    BY <1>7, <2>1 DEF TrySend, InTurn, Touches
  <2>2. CASE alive'
    <3>1. /\ chan' = Append(chan, e) /\ e \in Event /\ batch' = batch /\ phys' = phys /\ alive
          /\ inEvent.stage = "send" /\ inEvent'.stage = "none"
      BY <1>7, <2>2 DEF TrySend, TypeOK, ReaderType, LoopType, world
    <3>2. e \in Event \cup {WakeUp} /\ chan \in Seq(Event \cup {WakeUp})
      BY <3>1 DEF TypeOK, LoopType
    <3>3. Is(e, k, v) => v = Upcoming(k)
      BY <3>1 DEF Is, Upcoming, InHand, PressOf, ReleaseOf, Event, Values
    <3>4. Upcoming(k)' = IF k \in phys THEN "release" ELSE "press"
      BY <3>1 DEF Upcoming, InHand
    <3>5. v = Upcoming(k)' /\ e.code = k => e.value # v
      BY <3>1, <3>4 DEF ReaderInv, InHand, PressOf, ReleaseOf, Event, Values
    <3>6. v = Upcoming(k)' /\ e.code # k => v = Upcoming(k)
      BY <3>1, <3>4 DEF Upcoming, InHand, PressOf, ReleaseOf
    <3>7. /\ Alternates(chan, k, v) /\ (Is(e, k, v) => Continues(chan, k, v)) => Alternates(chan', k, v)
          /\ Continues(chan, k, v) /\ e.code # k => Continues(chan', k, v)
          /\ e.code = k /\ e.value # v => Continues(chan', k, v)
          /\ Starts(chan, k, v) /\ (Is(e, k, v) => Touches(chan, k)) => Starts(chan', k, v)
          /\ Touches(chan, k) \/ e.code = k => Touches(chan', k)
      <4> HIDE DEF e
      <4>1. Placed(chan', chan, e, Len(chan) + 1)
        BY <3>1, <3>2, InsertPlaces
      <4> QED BY <3>1, <3>2, <4>1, PlacedInTurn, AppendInTurn
    <3>8. Continues(batch, k, v)' <=> Continues(batch, k, v)
      BY <3>1 DEF Continues
    <3>9. Alternates(batch, k, v)' <=> Alternates(batch, k, v)
      BY <3>1 DEF Alternates
    <3> HIDE DEF e
    <3>10. Alternates(chan', k, v)
      BY <3>1, <3>3, <3>7 DEF InTurn
    <3>11. Continues(batch, k, v) \/ Starts(chan', k, v)
      BY <3>1, <3>3, <3>7 DEF InTurn
    <3>12. ASSUME v = Upcoming(k)' PROVE Continues(chan', k, v)
      BY <3>1, <3>5, <3>6, <3>7, <3>12 DEF InTurn
    <3>13. ASSUME v = Upcoming(k)' PROVE Continues(batch, k, v) \/ Touches(chan', k)
      BY <3>1, <3>6, <3>7, <3>13 DEF InTurn
    <3> QED BY <3>1, <3>8, <3>9, <3>10, <3>11, <3>12, <3>13 DEF InTurn
  <2> QED BY <2>1, <2>2
<1> QED BY <1>2, <1>3, <1>4, <1>5, <1>6, <1>7 DEF User, LetGo, LoseRelease, EventLoop

(* The loop takes the events from the channel in turn and sorts them into  *)
(* the batch in turn.                                                      *)
LEMMA ProcessingInTurn ==
    ASSUME TypeOK, PassInv, SentInv, NEW k \in Mapped, NEW v \in Values, InTurn(k, v),
           ProcessingThread, ~CollectUnordered
    PROVE  InTurn(k, v)'
<1>1. UNCHANGED <<inEvent, phys, alive>> /\ Upcoming(k)' = Upcoming(k)
  <2>1. UNCHANGED <<inEvent, phys, alive>>
    BY DEF ProcessingThread, CollectMore, InitStep, InitDone, Check, RecvFirst, PollEmpty, CollectInOrder, BeginHandle,
           DoLiveReload, HandleInputEvent, LockForTicks, Tick, TickStates, EndTicks, reader, world
  <2> QED BY <2>1 DEF Upcoming, InHand
<1>2. CASE UNCHANGED <<chan, batch>>
  BY <1>1, <1>2 DEF InTurn, Touches
<1>3. CASE InitStep
  <2>1. batch = <<>> /\ batch' = batch /\ chan' = (IF chan = <<>> THEN chan ELSE Tail(chan))
    BY <1>3 DEF InitStep, PassInv
  <2>2. Alternates(<<>>, k, v) /\ Continues(<<>>, k, v)
    BY DEF Alternates, Continues
  <2>3. CASE chan = <<>>
    BY <1>2, <2>1, <2>3
  <2>4. CASE chan # <<>>
    <3>1. /\ Alternates(chan, k, v) => Alternates(chan', k, v)
          /\ Continues(chan, k, v) => Continues(chan', k, v)
      BY <2>1, <2>4, TailInTurn DEF SentInv
    <3> QED BY <1>1, <2>1, <2>2, <3>1 DEF InTurn
  <2> QED BY <2>3, <2>4
<1>4. CASE RecvFirst \/ CollectInOrder
  <2> DEFINE e == Head(chan)
  <2>1. chan # <<>> /\ chan' = Tail(chan) /\ e \in Sent /\ chan \in Seq(Sent) /\ batch \in Seq(Sent)
    BY <1>4, TailType DEF RecvFirst, CollectInOrder, SentInv
  <2> HIDE DEF e
  <2>2. \E p \in 1..(Len(batch) + 1) : Placed(batch', batch, e, p)
    <3>1. CASE RecvFirst
      <4>1. batch = <<>> /\ batch' = Append(batch, e)
        BY <3>1 DEF RecvFirst, PassInv, e
      <4>2. Len(batch) + 1 \in 1..(Len(batch) + 1)
        BY <2>1
      <4> QED BY <2>1, <4>1, <4>2, InsertPlaces
    <3>2. CASE CollectInOrder
      <4>1. batch' = Insert(batch, e)
        BY <3>2 DEF CollectInOrder, e
      <4> QED BY <2>1, <4>1, InsertPlaces
    <3> QED BY <1>4, <3>1, <3>2
  <2>3. /\ Alternates(batch, k, v) /\ (Is(e, k, v) => Continues(batch, k, v)) => Alternates(batch', k, v)
        /\ Continues(batch, k, v) /\ e.code # k => Continues(batch', k, v)
        /\ e.code = k /\ e.value # v => Continues(batch', k, v)
    BY <2>1, <2>2, PlacedInTurn
  <2>4. /\ Alternates(chan, k, v) => Alternates(chan', k, v)
        /\ Alternates(chan, k, v) /\ Is(e, k, v) => Starts(chan', k, v)
        /\ Starts(chan, k, v) => ~Is(e, k, v)
        /\ Starts(chan, k, v) /\ e.code # k => Starts(chan', k, v)
        /\ Continues(chan, k, v) => Continues(chan', k, v)
        /\ Continues(chan, k, v) /\ Is(e, k, v) => Touches(chan', k)
        /\ Touches(chan, k) /\ e.code # k => Touches(chan', k)
    BY <2>1, TailInTurn DEF e
  <2>5. e.code # k \/ Is(e, k, v) \/ (e.code = k /\ e.value # v)
    BY DEF Is
  <2>6. Alternates(batch', k, v) /\ Alternates(chan', k, v)
    BY <2>3, <2>4 DEF InTurn
  <2>7. Continues(batch', k, v) \/ Starts(chan', k, v)
    BY <2>3, <2>4, <2>5 DEF InTurn
  <2>8. ASSUME alive', v = Upcoming(k)'
        PROVE  Continues(chan', k, v) /\ (Continues(batch', k, v) \/ Touches(chan', k))
    BY <1>1, <2>3, <2>4, <2>5, <2>8 DEF InTurn
  <2> QED BY <2>6, <2>7, <2>8 DEF InTurn
<1>5. CASE HandleInputEvent
  <2>1. batch # <<>> /\ batch' = Tail(batch) /\ chan' = chan
    BY <1>5 DEF HandleInputEvent
  <2>2. /\ Alternates(batch, k, v) => Alternates(batch', k, v)
        /\ Continues(batch, k, v) => Continues(batch', k, v)
    BY <2>1, TailInTurn DEF SentInv
  <2> QED BY <1>1, <2>1, <2>2 DEF InTurn
<1> QED BY <1>2, <1>3, <1>4, <1>5 DEF ProcessingThread, CollectMore, InitDone, Check, PollEmpty, BeginHandle,
        LockForTicks, Tick, EndTicks

(* The wakeups of the clients have no turn.                                *)
LEMMA ClientInTurn ==
    ASSUME TypeOK, SentInv, NEW k \in Mapped, NEW v \in Values, InTurn(k, v),
           NEW c \in Clients, Client(c)
    PROVE  InTurn(k, v)'
<1>1. UNCHANGED <<inEvent, phys, alive, batch>> /\ Upcoming(k)' = Upcoming(k)
  <2>1. UNCHANGED <<inEvent, phys, alive, batch>>
    BY DEF Client, RequestReload, ActOnFakeKey, SeeComplete, WaitTimesOut, SendReloadResult,
           SendWakeUp, reader, world
  <2> QED BY <2>1 DEF Upcoming, InHand
<1>2. CASE chan' = chan
  BY <1>1, <1>2 DEF InTurn, Touches
<1>3. CASE SendWakeUp(c)
  <2>1. chan' = Append(chan, WakeUp) /\ WakeUp \in Sent /\ WakeUp.value # v
    BY <1>3 DEF SendWakeUp, Sent, WakeUp, Values
  <2>2. Placed(chan', chan, WakeUp, Len(chan) + 1)
    BY <2>1, InsertPlaces DEF SentInv
  <2>3. /\ Alternates(chan, k, v) => Alternates(chan', k, v)
        /\ Continues(chan, k, v) => Continues(chan', k, v)
        /\ Starts(chan, k, v) => Starts(chan', k, v)
        /\ Touches(chan, k) => Touches(chan', k)
    BY <2>1, <2>2, PlacedInTurn, AppendInTurn DEF SentInv, Is
  <2> QED BY <1>1, <2>3 DEF InTurn
<1> QED BY <1>2, <1>3 DEF Client, RequestReload, ActOnFakeKey, SeeComplete, WaitTimesOut,
        SendReloadResult

(* Every thread keeps the turns.                                           *)
LEMMA NextOrder ==
    ASSUME ~DropsReleases, TypeOK, PassInv, ReaderInv, OrderInv, ShortBatch', [Next]_vars
    PROVE  OrderInv'
<1>1. SentInv'
  BY NextSent DEF OrderInv
<1>2. ASSUME NEW k \in Mapped, NEW v \in Values PROVE InTurn(k, v)'
  <2>1. InTurn(k, v) /\ SentInv
    BY DEF OrderInv
  <2>2. CASE UNCHANGED vars
    BY <2>1, <2>2 DEF vars, world, reader, InTurn, Touches, Upcoming, InHand
  <2> QED BY <2>1, <2>2, ShortIsOrdered, ReaderInTurn, ProcessingInTurn, ClientInTurn DEF Next
<1> QED BY <1>1, <1>2 DEF OrderInv

(* collect_and_sort_events never swaps two events of one key: in every     *)
(* batch the presses and releases of a key alternate, whatever keys are    *)
(* modifiers, as long as no more than SortRun events pile up.              *)
THEOREM BatchesKeepKeyOrder ==
    ASSUME ~DropsReleases, SameKeysMapped
    PROVE  Spec /\ []ShortBatch => []BatchKeepsKeyOrder
<1> DEFINE Inv == PassInv /\ ReaderInv /\ OrderInv
<1>1. Init => Inv
  <2> SUFFICES ASSUME Init PROVE Inv
    OBVIOUS
  <2>1. PassInv /\ ReaderInv
    BY DEF Init, PassInv, OnlyVirtual, ReaderInv, InHand
  <2>2. SentInv
    BY DEF Init, SentInv
  <2>3. \A k \in Mapped, v \in Values : InTurn(k, v)
    BY DEF Init, InTurn, Alternates, Continues
  <2> QED BY <2>1, <2>2, <2>3 DEF OrderInv
<1>2. TypeOK /\ Inv /\ ShortBatch' /\ [Next]_vars => Inv'
  BY NextPass, NextReader, NextOrder
<1>3. Inv => BatchKeepsKeyOrder
  <2> SUFFICES ASSUME OrderInv, NEW i \in DOMAIN batch, NEW j \in DOMAIN batch, i < j,
                      batch[i].code = batch[j].code, batch[i].value = batch[j].value,
                      batch[i].value \in {"press", "release"}
               PROVE  \E m \in (i + 1)..(j - 1) : batch[m].code = batch[i].code
    BY DEF BatchKeepsKeyOrder
  <2>1. batch \in Seq(Sent) /\ i \in 1..Len(batch) /\ j \in 1..Len(batch)
    BY DEF OrderInv, SentInv
  <2>2. batch[i] \in Sent
    BY <2>1
  <2>3. batch[i].code \in Mapped /\ batch[i].value \in Values
    BY <2>2 DEF Sent, Values
  <2>4. Alternates(batch, batch[i].code, batch[i].value)
    BY <2>3 DEF OrderInv, InTurn
  <2> QED BY <2>1, <2>4 DEF Alternates, Is, Between
<1> QED BY <1>1, <1>2, <1>3, TypeCorrect, PTL DEF Spec

=============================================================================
