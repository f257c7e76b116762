---------------------------- MODULE MacroProofs ----------------------------
(***************************************************************************)
(* Proofs about dynamic macros, for all numbers of macros and keys, any    *)
(* recordings, passes of any length and whatever the layout performs: the  *)
(* invariants of MacroSystem, and that a replay implements MacroStack.     *)
(***************************************************************************)
EXTENDS MacroSystem, Functions, FiniteSetTheorems, SequenceTheorems, TLAPS

Records ==
    {r \in [on : BOOLEAN, id : Ids \cup {0}, waiting : Seq(KeyItem), items : Seq(KeyItem),
           delay : 0..U16Max] : r.on => r.id \in Ids}
Replays == [on : BOOLEAN, active : SUBSET Ids, left : 0..U16Max, items : Seq(KeyItem \cup EndItem)]
MacrosOK(m) == DOMAIN m \subseteq Ids /\ \A id \in DOMAIN m : m[id] \in Seq(KeyItem)

LEMMA FunctionIsSeq ==
    ASSUME NEW S, NEW n \in Nat, NEW f \in [1..n -> S]
    PROVE  f \in Seq(S) /\ Len(f) = n
  <1>1. f \in Seq(S)
    BY SeqDef
  <1>2. QED
    BY <1>1, LenProperties

-----------------------------------------------------------------------------
(* What a recording becomes: its operations keep it a recording of key     *)
(* events with delays within 16 bits.                                      *)
LEMMA FlushType ==
    ASSUME MacroConstants, NEW r \in Records
    PROVE  Flush(r) \in Records
  <1> DEFINE w == [i \in DOMAIN r.waiting |-> [r.waiting[i] EXCEPT !.delay = r.delay]]
  <1>1. r.waiting \in Seq(KeyItem) /\ r.items \in Seq(KeyItem) /\ r.delay \in 0..U16Max
    BY DEF Records
  <1>2. \A i \in DOMAIN r.waiting : [r.waiting[i] EXCEPT !.delay = r.delay] \in KeyItem
    <2>1. \A i \in DOMAIN r.waiting : r.waiting[i] \in KeyItem
      BY <1>1, LenProperties
    <2>2. QED
      BY <1>1, <2>1 DEF KeyItem
  <1>3. w \in Seq(KeyItem)
    <2>1. w \in [1..Len(r.waiting) -> KeyItem] /\ Len(r.waiting) \in Nat
      BY <1>1, <1>2, LenProperties
    <2>2. QED
      BY <2>1, FunctionIsSeq
  <1>4. r.items \o w \in Seq(KeyItem) /\ <<>> \in Seq(KeyItem)
    BY <1>1, <1>3, ConcatProperties, EmptySeq
  <1>5. Flush(r) = [r EXCEPT !.items = r.items \o w, !.waiting = <<>>, !.delay = 0]
    BY DEF Flush
  <1>6. 0 \in 0..U16Max
    BY DEF MacroConstants
  <1> HIDE DEF w
  <1>7. QED
    BY <1>4, <1>5, <1>6 DEF Records

LEMMA RecordType ==
    ASSUME MacroConstants, NEW r \in Records
    PROVE  /\ TickRecord(r) \in Records
           /\ NoRecord \in Records
           /\ \A id \in Ids : NewRecord(id) \in Records
           /\ \A t \in {"press", "release"}, key \in MacroKeys : RecordEvent(r, t, key) \in Records
  <1>1. TickRecord(r) \in Records
    BY DEF TickRecord, Records, Plus, MacroConstants
  <1>2. NoRecord \in Records /\ \A id \in Ids : NewRecord(id) \in Records
    <2>1. <<>> \in Seq(KeyItem) /\ 0 \in 0..U16Max
      BY EmptySeq DEF MacroConstants
    <2>2. NoRecord \in Records
      BY <2>1 DEF NoRecord, Records
    <2>3. QED
      BY <2>2 DEF NewRecord, Records
  <1>3. ASSUME NEW t \in {"press", "release"}, NEW key \in MacroKeys
        PROVE  RecordEvent(r, t, key) \in Records
    <2>1. Item(t, key, 0) \in KeyItem
      BY DEF Item, KeyItem, MacroConstants
    <2>2. Flush(r) \in Records
      BY FlushType
    <2>3. <<Item(t, key, 0)>> \in Seq(KeyItem)
      BY <2>1
    <2>4. QED
      BY <2>2, <2>3 DEF RecordEvent, AddEvent, Records
  <1>4. QED
    BY <1>1, <1>2, <1>3

(* The items that a recording saves, before the releases are added, are    *)
(* key events of that recording.                                           *)
LEMMA ItemsToSaveType ==
    ASSUME MacroConstants, NEW r \in Records, NEW n \in Nat, ~NothingRecorded(r)
    PROVE  ItemsToSave(r, n) \in Seq(KeyItem)
  <1> DEFINE all == Flush(r).items
             items == SubSeq(all, 1, Len(all) - 1)
  <1>1. all \in Seq(KeyItem)
    BY FlushType DEF Records
  <1>2. Len(all) # 0
    BY DEF NothingRecorded, Flush, Records
  <1>3. items \in Seq(KeyItem)
    BY <1>1, <1>2
  <1>4. \A m \in 0..Len(items) : SubSeq(items, 1, m) \in Seq(KeyItem)
    BY <1>3
  <1>5. (IF Len(items) > n THEN Len(items) - n ELSE 0) \in 0..Len(items)
    BY <1>3
  <1>6. ItemsToSave(r, n) = SubSeq(items, 1, IF Len(items) > n THEN Len(items) - n ELSE 0)
    BY DEF ItemsToSave, Front
  <1>7. QED
    BY <1>4, <1>5, <1>6

(* Adding the releases: the result is a recording of key events in which   *)
(* every key that is pressed is released at or after that press.           *)
LEMMA WithReleasesType ==
    ASSUME MacroConstants, NEW items \in Seq(KeyItem), NEW saved \in WithReleases(items)
    PROVE  saved \in Seq(KeyItem) /\ Releases(saved)
  <1> DEFINE U == Unreleased(items)
  <1>1. U \subseteq MacroKeys
    <2>1. \A i \in DOMAIN items : items[i] \in KeyItem
      BY LenProperties
    <2>2. QED
      BY <2>1 DEF Unreleased, KeyItem
  <1>2. Cardinality(U) \in Nat
    BY <1>1, FS_Subset, FS_CardinalityType DEF MacroConstants
  <1>3. PICK ks \in Orders(U) :
             saved = items \o [i \in DOMAIN ks |-> Item("release", ks[i], 0)]
    BY DEF WithReleases
  <1> DEFINE rs == [i \in DOMAIN ks |-> Item("release", ks[i], 0)]
  <1>4. /\ ks \in [1..Cardinality(U) -> U]
        /\ \A x \in U : \E i \in DOMAIN ks : ks[i] = x
    BY <1>3 DEF Orders
  <1>5. \A i \in DOMAIN ks : rs[i] \in KeyItem /\ rs[i].t = "release" /\ rs[i].key = ks[i]
    BY <1>1, <1>4 DEF Item, KeyItem, MacroConstants
  <1>6. rs \in Seq(KeyItem) /\ Len(rs) = Cardinality(U) /\ DOMAIN rs = DOMAIN ks
    <2>1. rs \in [1..Cardinality(U) -> KeyItem]
      BY <1>4, <1>5
    <2>2. QED
      BY <1>2, <1>4, <2>1, FunctionIsSeq
  <1> HIDE DEF rs, U
  <1>7. /\ saved \in Seq(KeyItem) /\ Len(saved) = Len(items) + Len(rs)
        /\ \A i \in 1..Len(items) : saved[i] = items[i]
        /\ \A i \in 1..Len(rs) : saved[Len(items) + i] = rs[i]
    BY <1>3, <1>6 DEF rs
  <1>8. ASSUME NEW i \in DOMAIN saved, saved[i].t = "press"
        PROVE  \E j \in i..Len(saved) : saved[j].t = "release" /\ saved[j].key = saved[i].key
    <2>1. i \in 1..Len(items)
      <3>1. CASE i > Len(items)
        <4>1. i - Len(items) \in 1..Len(rs) /\ saved[i] = rs[i - Len(items)]
          BY <1>6, <1>7, <3>1
        <4>2. QED
          BY <1>5, <1>6, <1>8, <4>1
      <3>2. QED
        BY <1>7, <3>1
    <2>2. CASE items[i].key \in U
      <3>1. PICK k \in DOMAIN ks : ks[k] = items[i].key
        BY <1>4, <2>2
      <3>2. k \in 1..Len(rs) /\ Len(items) + k \in i..Len(saved)
        BY <1>2, <1>4, <1>6, <1>7, <2>1, <3>1
      <3>3. saved[Len(items) + k].t = "release" /\ saved[Len(items) + k].key = saved[i].key
        BY <1>5, <1>6, <1>7, <2>1, <3>1, <3>2
      <3>4. QED
        BY <3>2, <3>3
    <2>3. CASE items[i].key \notin U
      <3>1. PICK k \in DOMAIN items : k > i /\ items[k].t = "release" /\ items[k].key = items[i].key
        BY <1>7, <1>8, <2>1, <2>3 DEF U, Unreleased
      <3>2. QED
        BY <1>7, <2>1, <3>1
    <2>4. QED
      BY <2>2, <2>3
  <1>9. QED
    BY <1>7, <1>8 DEF Releases

-----------------------------------------------------------------------------
(* What a replay becomes.                                                  *)
LEMMA PlayType ==
    ASSUME NEW p \in Replays, NEW m, MacrosOK(m), NEW id \in Ids, MacroConstants
    PROVE  PlayMacro(p, id, m) \in Replays
  <1>1. CASE id \notin DOMAIN m \/ id \in p.active
    BY <1>1 DEF PlayMacro
  <1>2. CASE id \in DOMAIN m /\ id \notin p.active
    <2>1. m[id] \in Seq(KeyItem \cup EndItem)
      BY <1>2, SeqMonotonic DEF MacrosOK
    <2>2. p.items \in Seq(KeyItem \cup EndItem)
      BY DEF Replays
    <2>3. <<EndMacro(id)>> \in Seq(KeyItem \cup EndItem)
      <3>1. EndMacro(id) \in EndItem
        BY DEF EndMacro, Item, EndItem
      <3>2. QED
        BY <3>1
    <2>4. m[id] \o <<EndMacro(id)>> \o p.items \in Seq(KeyItem \cup EndItem)
      BY <2>1, <2>2, <2>3, ConcatProperties
    <2>5. 0 \in 0..U16Max
      BY DEF MacroConstants
    <2>6. QED
      BY <1>2, <2>1, <2>4, <2>5 DEF PlayMacro, Replays
  <1>3. QED
    BY <1>1, <1>2

(* The head of a queue is what a replay takes from it.                     *)
LEMMA ReplayType ==
    ASSUME NEW p \in Replays, NEW recorded \in BOOLEAN, MacroConstants
    PROVE  /\ TickReplay(p, recorded) \in Replays
           /\ ReplayEvent(p) # NoItem
              => /\ Due(p) /\ p.on /\ TickReplay(p, recorded).on
                 /\ Delay(ReplayEvent(p), recorded) \in 0..U16Max
                 /\ recorded => TickReplay(p, recorded).left = Delay(ReplayEvent(p), recorded)
  <1>1. CASE ~Due(p)
    <2>1. TickReplay(p, recorded) = [p EXCEPT !.left = Minus1(@)]
      BY <1>1 DEF TickReplay
    <2>2. Minus1(p.left) \in 0..U16Max
      BY DEF Replays, Minus1, MacroConstants
    <2>3. QED
      BY <1>1, <2>1, <2>2 DEF Replays, ReplayEvent
  <1>2. CASE Due(p) /\ p.items = <<>>
    <2>1. NoReplay \in Replays
      BY EmptySeq DEF NoReplay, Replays, MacroConstants
    <2>2. QED
      BY <1>2, <2>1 DEF TickReplay, ReplayEvent
  <1>3. CASE Due(p) /\ p.items # <<>>
    <2> DEFINE i == Head(p.items)
               rest == [p EXCEPT !.items = Tail(@), !.left = Pace]
    <2>1. i \in KeyItem \cup EndItem /\ Tail(p.items) \in Seq(KeyItem \cup EndItem)
      BY <1>3, HeadTailProperties DEF Replays
    <2>2. rest \in Replays /\ rest.on = p.on
      <3>1. Pace \in 0..U16Max
        BY DEF MacroConstants
      <3>2. QED
        BY <2>1, <3>1 DEF Replays
    <2>3. CASE ~IsEvent(i)
      <3>1. TickReplay(p, recorded) = [rest EXCEPT !.active = @ \ {i.key}]
        BY <1>3, <2>3 DEF TickReplay
      <3>2. QED
        BY <1>3, <2>2, <2>3, <3>1 DEF Replays, ReplayEvent
    <2>4. CASE IsEvent(i)
      <3>1. i \in KeyItem /\ i.delay \in 0..U16Max
        BY <2>1, <2>4 DEF IsEvent, EndItem, KeyItem
      <3>2. TickReplay(p, recorded) = IF recorded THEN [rest EXCEPT !.left = i.delay] ELSE rest
        BY <1>3, <2>4 DEF TickReplay
      <3>3. TickReplay(p, recorded) \in Replays /\ TickReplay(p, recorded).on = p.on
        BY <2>2, <3>1, <3>2 DEF Replays
      <3>4. recorded => TickReplay(p, recorded).left = i.delay
        BY <2>2, <3>2 DEF Replays
      <3>5. ReplayEvent(p) = i
        BY <1>3, <2>4 DEF ReplayEvent
      <3>6. Delay(i, recorded) = IF recorded THEN i.delay ELSE 0
        BY DEF Delay
      <3>7. QED
        BY <1>3, <3>1, <3>3, <3>4, <3>5, <3>6 DEF Due, MacroConstants
    <2>5. QED
      BY <2>3, <2>4
  <1>4. QED
    BY <1>1, <1>2, <1>3

-----------------------------------------------------------------------------
LEMMA ConfigType ==
    ASSUME MacroTypeOK
    PROVE  /\ mc.recorded \in BOOLEAN /\ mc.calls \subseteq 0..U16Max
           /\ \A a \in mc.acts : a.id \in Ids /\ a.n \in Nat
  BY MacroConstants DEF MacroTypeOK

(* Saving a recording.                                                     *)
LEMMA SaveType ==
    ASSUME MacroTypeOK, MacrosRelease, NEW id \in Ids, NEW items \in Seq(KeyItem),
           NEW saved \in WithReleases(items), Save(id, saved)
    PROVE  MacrosOK(macros') /\ MacrosRelease'
  <1>1. saved \in Seq(KeyItem) /\ Releases(saved)
    BY MacroConstants, WithReleasesType
  <1>2. macros' = [i \in DOMAIN macros \cup {id} |-> IF i = id THEN saved ELSE macros[i]]
    BY DEF Save
  <1>3. DOMAIN macros \subseteq Ids /\ \A i \in DOMAIN macros : macros[i] \in Seq(KeyItem)
    BY DEF MacroTypeOK
  <1>4. DOMAIN macros' = DOMAIN macros \cup {id}
    BY <1>2
  <1>5. \A i \in DOMAIN macros' : macros'[i] = IF i = id THEN saved ELSE macros[i]
    BY <1>2
  <1>6. MacrosOK(macros')
    BY <1>1, <1>3, <1>4, <1>5 DEF MacrosOK
  <1>7. MacrosRelease'
    BY <1>1, <1>4, <1>5 DEF MacrosRelease
  <1>8. QED
    BY <1>6, <1>7

(* The type invariant of the variables that only the actions of recording  *)
(* and replay change, and what their operations keep.                      *)
Kept == rec' \in Records /\ rep' \in Replays /\ MacrosOK(macros') /\ MacrosRelease'

LEMMA UnchangedKept ==
    ASSUME MacroTypeOK, MacrosRelease, UNCHANGED macros
    PROVE  MacrosOK(macros') /\ MacrosRelease'
  BY DEF MacroTypeOK, MacrosRelease, MacrosOK

LEMMA KeyEventKept ==
    ASSUME MacroTypeOK, MacrosRelease,
           NEW t \in {"press", "release"}, NEW key \in MacroKeys, KeyEvent(t, key)
    PROVE  Kept
  <1>1. rec \in Records /\ rep' \in Replays
    BY DEF MacroTypeOK, KeyEvent, Records, Replays
  <1>2. CASE t = "press" /\ LimitReached(rec, mc.maxPresses)
    <2>1. rec.on /\ rec' = NoRecord /\ \E items \in WithReleases(rec.items) : Save(rec.id, items)
      BY <1>2 DEF KeyEvent, LimitReached
    <2>2. rec.items \in Seq(KeyItem) /\ rec.id \in Ids
      BY <1>1, <2>1 DEF Records
    <2>3. QED
      BY <1>1, <2>1, <2>2, MacroConstants, SaveType, RecordType DEF Kept
  <1>3. CASE ~(t = "press" /\ LimitReached(rec, mc.maxPresses))
    <2>1. rec' = RecordEvent(rec, t, key) /\ UNCHANGED macros
      BY <1>3 DEF KeyEvent
    <2>2. QED
      BY <1>1, <2>1, MacroConstants, UnchangedKept, RecordType DEF Kept
  <1>4. QED
    BY <1>2, <1>3

LEMMA SaveRecordingKept ==
    ASSUME MacroTypeOK, MacrosRelease, NEW n \in Nat, rec.on, ~Panics, SaveRecording(n)
    PROVE  MacrosOK(macros') /\ MacrosRelease'
  <1>1. rec \in Records /\ rec.id \in Ids /\ ~NothingRecorded(rec)
    BY DEF MacroTypeOK, Records, Panics
  <1>2. ItemsToSave(rec, n) \in Seq(KeyItem)
    BY <1>1, MacroConstants, ItemsToSaveType
  <1>3. QED
    BY <1>1, <1>2, SaveType DEF SaveRecording

LEMMA RecordKept ==
    ASSUME MacroTypeOK, MacrosRelease, NEW id \in Ids, Record(id)
    PROVE  Kept /\ rep' = rep
  <1>1. rec \in Records /\ rep \in Replays
    BY DEF MacroTypeOK, Records, Replays
  <1>2. MacrosOK(macros') /\ MacrosRelease'
    BY SaveRecordingKept, UnchangedKept DEF Record
  <1>3. NoRecord \in Records /\ NewRecord(id) \in Records
    BY <1>1, MacroConstants, RecordType
  <1>4. rec' \in Records
    BY <1>3, MacroConstants, RecordType DEF Record
  <1>5. rep' = rep
    BY DEF Record
  <1>6. QED
    BY <1>1, <1>2, <1>4, <1>5 DEF Kept

LEMMA StopKept ==
    ASSUME MacroTypeOK, MacrosRelease, NEW n \in Nat, Stop(n)
    PROVE  Kept /\ rep' = rep
  <1>1. rec \in Records /\ rep \in Replays
    BY DEF MacroTypeOK, Records, Replays
  <1>2. MacrosOK(macros') /\ MacrosRelease'
    BY SaveRecordingKept, UnchangedKept DEF Stop
  <1>3. rec' \in Records /\ rep' = rep
    BY <1>1, MacroConstants, RecordType DEF Stop
  <1>4. QED
    BY <1>1, <1>2, <1>3 DEF Kept

(* Playing a macro while one is being replayed leaves its timer alone.     *)
LEMMA PlayKept ==
    ASSUME MacroTypeOK, MacrosRelease, NEW id \in Ids, Play(id)
    PROVE  Kept /\ (rep.on => rep'.on /\ rep'.left = rep.left)
                /\ (~rep.on /\ rep'.on => rep'.left = 0)
  <1>1. rec \in Records /\ rep \in Replays /\ MacrosOK(macros)
    BY DEF MacroTypeOK, Records, Replays, MacrosOK
  <1>2. rep' = PlayMacro(rep, id, macros) /\ rec' = TickRecord(rec) /\ UNCHANGED macros
    BY DEF Play
  <1>3. rep' \in Replays /\ rec' \in Records
    BY <1>1, <1>2, MacroConstants, PlayType, RecordType
  <1>4. (rep.on => rep'.on /\ rep'.left = rep.left) /\ (~rep.on /\ rep'.on => rep'.left = 0)
    BY <1>1, <1>2 DEF PlayMacro, Replays
  <1>5. QED
    BY <1>2, <1>3, <1>4, UnchangedKept DEF Kept

LEMMA TickStatesKept ==
    ASSUME MacroTypeOK, MacrosRelease, MacroTickStates
    PROVE  Kept /\ (rep.on => rep'.on /\ rep'.left = rep.left)
                /\ (~rep.on /\ rep'.on => rep'.left = 0)
  <1>1. CASE Nothing
    <2>1. rec \in Records /\ rep \in Replays
      BY DEF MacroTypeOK, Records, Replays
    <2>2. rec' \in Records /\ rep' = rep /\ UNCHANGED macros
      BY <1>1, <2>1, MacroConstants, RecordType DEF Nothing
    <2>3. QED
      BY <2>1, <2>2, UnchangedKept DEF Kept
  <1>2. CASE \E a \in mc.acts : Perform(a)
    <2>1. PICK a \in mc.acts : Perform(a)
      BY <1>2
    <2>2. a.id \in Ids /\ a.n \in Nat
      BY ConfigType
    <2>3. CASE a.t = "record"
      BY <2>1, <2>2, <2>3, RecordKept DEF Perform
    <2>4. CASE a.t = "stop"
      BY <2>1, <2>2, <2>4, StopKept DEF Perform
    <2>5. CASE a.t = "play"
      BY <2>1, <2>2, <2>5, PlayKept DEF Perform
    <2>6. QED
      BY <2>1, <2>3, <2>4, <2>5 DEF Perform
  <1>3. QED
    BY <1>1, <1>2 DEF MacroTickStates

-----------------------------------------------------------------------------
(* The loops of tick_ms.  Until the first loop has run, the delays that it *)
(* has met are covered by the ticks since the first of them and by what is *)
(* left of the last one.  So the second loop is shorter than what is left. *)
Remaining == IF rep.on THEN rep.left ELSE 0
Covered == extra = 0 \/ extra <= (ms - todo) - 1 + Remaining
LoopsOK ==
    /\ stage = "events" => ~making
    /\ stage = "replay" => todo > 0
    /\ ~making => todo <= ms /\ Covered
    /\ making /\ todo > 0 => rep.on /\ todo < rep.left

IInv == MacroTypeOK /\ MacrosRelease /\ LoopsOK /\ NoOvershoot

LEMMA TypeOKFromKept ==
    ASSUME Kept, mc' \in {MacroConfig[c] : c \in DOMAIN MacroConfig},
           todo' \in 0..U16Max, ms' \in 0..U16Max, extra' \in 0..U16Max,
           making' \in BOOLEAN, overshot' \in BOOLEAN, stage' \in {"events", "tick", "replay"}
    PROVE  MacroTypeOK'
  BY DEF Kept, MacroTypeOK, Records, Replays, MacrosOK

LEMMA InitInv == ASSUME MacroInit PROVE IInv
  <1>1. PICK c \in DOMAIN MacroConfig : mc = MacroConfig[c]
    BY DEF MacroInit
  <1>2. NoRecord \in [on : BOOLEAN, id : Ids \cup {0}, waiting : Seq(KeyItem),
                     items : Seq(KeyItem), delay : 0..U16Max] /\ ~NoRecord.on
    BY EmptySeq, MacroConstants DEF NoRecord
  <1>3. NoReplay \in [on : BOOLEAN, active : SUBSET Ids, left : 0..U16Max,
                     items : Seq(KeyItem \cup EndItem)] /\ ~NoReplay.on
    BY EmptySeq, MacroConstants DEF NoReplay
  <1>4. DOMAIN mc.macros \subseteq Ids
        /\ \A id \in DOMAIN mc.macros : mc.macros[id] \in Seq(KeyItem) /\ Releases(mc.macros[id])
    BY <1>1, MacroConstants DEF KeyItem
  <1>5. MacroTypeOK
    <2>1. 0 \in 0..U16Max
      BY MacroConstants
    <2>2. mc \in {MacroConfig[d] : d \in DOMAIN MacroConfig}
      BY <1>1
    <2>3. DOMAIN macros \subseteq Ids /\ \A id \in DOMAIN macros : macros[id] \in Seq(KeyItem)
      BY <1>4 DEF MacroInit
    <2>4. QED
      BY <1>2, <1>3, <2>1, <2>2, <2>3 DEF MacroInit, MacroTypeOK
  <1>6. MacrosRelease /\ LoopsOK /\ NoOvershoot
    BY <1>4 DEF MacroInit, MacrosRelease, LoopsOK, Covered, NoOvershoot
  <1>7. QED
    BY <1>5, <1>6 DEF IInv

LEMMA KeyEventInv ==
    ASSUME IInv, NEW t \in {"press", "release"}, NEW key \in MacroKeys, KeyEvent(t, key)
    PROVE  IInv'
  <1>1. Kept
    BY KeyEventKept DEF IInv
  <1>2. MacroTypeOK'
    BY <1>1, TypeOKFromKept DEF IInv, MacroTypeOK, KeyEvent
  <1>3. LoopsOK' /\ NoOvershoot'
    BY DEF IInv, LoopsOK, Covered, Remaining, NoOvershoot, KeyEvent
  <1>4. QED
    BY <1>1, <1>2, <1>3 DEF Kept, IInv

\* the actions that leave recordings, replay and macros alone
LEMMA LoopStepInv ==
    ASSUME IInv, (\E n \in mc.calls : Call(n)) \/ MakeUp \/ Return
    PROVE  IInv'
  <1>1. Kept
    BY UnchangedKept DEF IInv, Kept, MacroTypeOK, Records, Replays, Call, MakeUp, Return
  <1>2. extra \in Nat /\ ms \in Nat /\ todo \in Nat /\ rep.left \in Nat /\ U16Max \in Nat
        /\ extra <= U16Max
    BY MacroConstants DEF IInv, MacroTypeOK
  <1>3. CASE \E n \in mc.calls : Call(n)
    <2>1. PICK n \in mc.calls : Call(n)
      BY <1>3
    <2>2. n \in 0..U16Max
      BY ConfigType DEF IInv
    <2>3. MacroTypeOK'
      <3>1. /\ mc' = mc /\ todo' = n /\ ms' = n /\ extra' = 0 /\ making' = FALSE
            /\ overshot' = overshot /\ stage' = "tick" /\ 0 \in 0..U16Max
        BY <1>2, <2>1 DEF Call
      <3>2. mc \in {MacroConfig[c] : c \in DOMAIN MacroConfig} /\ overshot \in BOOLEAN
        BY DEF IInv, MacroTypeOK
      <3>3. QED
        BY <1>1, <2>2, <3>1, <3>2, TypeOKFromKept
    <2>4. LoopsOK' /\ NoOvershoot'
      BY <2>1, <2>2 DEF IInv, LoopsOK, Covered, NoOvershoot, Call
    <2>5. QED
      BY <1>1, <2>3, <2>4 DEF Kept, IInv
  <1>4. CASE MakeUp
    <2>1. ExtraTicks \in 0..U16Max
      BY <1>2 DEF ExtraTicks
    <2>2. MacroTypeOK'
      BY <1>1, <1>4, <2>1, TypeOKFromKept DEF IInv, MacroTypeOK, MakeUp
    <2>3. ExtraTicks > 0 => rep.on /\ ExtraTicks < rep.left
      BY <1>2, <1>4 DEF IInv, LoopsOK, Covered, Remaining, MakeUp, ExtraTicks
    <2>4. LoopsOK' /\ NoOvershoot'
      BY <1>4, <2>3 DEF IInv, LoopsOK, NoOvershoot, MakeUp
    <2>5. QED
      BY <1>1, <2>2, <2>4 DEF Kept, IInv
  <1>5. CASE Return
    <2>1. MacroTypeOK'
      BY <1>1, <1>5, MacroConstants, TypeOKFromKept DEF IInv, MacroTypeOK, Return
    <2>2. LoopsOK' /\ NoOvershoot'
      BY <1>5 DEF IInv, LoopsOK, Covered, NoOvershoot, Return
    <2>3. QED
      BY <1>1, <2>1, <2>2 DEF Kept, IInv
  <1>6. QED
    BY <1>3, <1>4, <1>5

LEMMA TickStatesInv ==
    ASSUME IInv, MacroTickStates
    PROVE  IInv'
  <1>1. /\ Kept
        /\ rep.on => rep'.on /\ rep'.left = rep.left
        /\ ~rep.on /\ rep'.on => rep'.left = 0
    BY TickStatesKept DEF IInv
  <1>2. MacroTypeOK'
    BY <1>1, TypeOKFromKept DEF IInv, MacroTypeOK, MacroTickStates
  <1>3. Remaining' = Remaining
    BY <1>1 DEF Remaining
  <1>4. LoopsOK' /\ NoOvershoot'
    BY <1>1, <1>3 DEF IInv, LoopsOK, Covered, NoOvershoot, MacroTickStates
  <1>5. QED
    BY <1>1, <1>2, <1>4 DEF Kept, IInv

\* in a tick of the first loop without a new delay
LEMMA StillCovered ==
    ASSUME NEW x \in Int, NEW m \in Int, NEW t \in Int, NEW r \in Int, NEW s \in Int,
           x = 0 \/ x <= (m - t) - 1 + r, s >= r - 1
    PROVE  x = 0 \/ x <= (m - (t - 1)) - 1 + s
  OBVIOUS

LEMMA ReplayTickInv ==
    ASSUME IInv, ReplayTick
    PROVE  IInv'
  <1> DEFINE e == ReplayEvent(rep)
             found == e # NoItem
  <1>1. rep \in Replays /\ mc.recorded \in BOOLEAN /\ rep' = TickReplay(rep, mc.recorded)
    BY ConfigType DEF IInv, MacroTypeOK, Replays, ReplayTick
  <1>2. /\ rep' \in Replays
        /\ found => /\ Due(rep) /\ rep'.on /\ Delay(e, mc.recorded) \in 0..U16Max
                    /\ mc.recorded => rep'.left = Delay(e, mc.recorded)
    BY <1>1, MacroConstants, ReplayType
  <1>3. /\ found /\ ~making => extra' = Plus(extra, Delay(e, mc.recorded))
        /\ ~(found /\ ~making) => extra' = extra
        /\ found /\ making => todo' = 0
        /\ ~(found /\ making) => todo' = todo - 1 /\ ~overshot'
        /\ overshot' \in BOOLEAN
    BY DEF ReplayTick
  <1>4. /\ stage = "replay" /\ stage' = "tick" /\ todo > 0
        /\ mc' = mc /\ rec' = rec /\ macros' = macros /\ ms' = ms /\ making' = making
    BY DEF ReplayTick, IInv, LoopsOK
  <1>5. extra \in 0..U16Max /\ ms \in 0..U16Max /\ todo \in 0..U16Max /\ U16Max \in Nat
    BY MacroConstants DEF IInv, MacroTypeOK
  <1>6. rep.left \in 0..U16Max /\ rep'.left \in 0..U16Max
    BY <1>1, <1>2 DEF Replays
  <1>7. ~Due(rep) => rep'.on = rep.on /\ rep'.left = Minus1(rep.left)
    BY <1>1 DEF TickReplay, Replays
  <1> HIDE DEF e, found
  <1>8. making => ~found /\ ~Due(rep) /\ rep.on /\ todo < rep.left
    <2>1. making => rep.on /\ todo < rep.left
      BY <1>4 DEF IInv, LoopsOK
    <2>2. making => ~(rep.left <= 1)
      BY <1>4, <1>5, <1>6, <2>1
    <2>3. making => ~Due(rep)
      BY <2>2 DEF Due
    <2>4. QED
      BY <1>2, <2>1, <2>3
  <1>9. Kept
    <2>1. rec' \in Records /\ MacrosOK(macros) /\ MacrosRelease
      BY <1>4 DEF IInv, MacroTypeOK, Records, MacrosOK
    <2>2. QED
      BY <1>2, <1>4, <2>1 DEF Kept, MacrosRelease
  <1>10. extra' \in 0..U16Max /\ todo' \in 0..U16Max /\ ~overshot'
    <2>1. ~(found /\ making)
      BY <1>8
    <2>2. todo' = todo - 1 /\ ~overshot'
      BY <1>3, <2>1
    <2>3. found => Delay(e, mc.recorded) \in 0..U16Max
      BY <1>2
    <2>4. extra' \in 0..U16Max
      <3>1. CASE found /\ ~making
        BY <1>3, <1>5, <2>3, <3>1 DEF Plus
      <3>2. CASE ~(found /\ ~making)
        BY <1>3, <1>5, <3>2
      <3>3. QED
        BY <3>1, <3>2
    <2>5. QED
      BY <1>4, <1>5, <2>2, <2>4
  <1>11. MacroTypeOK'
    BY <1>3, <1>4, <1>9, <1>10, TypeOKFromKept DEF IInv, MacroTypeOK
  <1>12. CASE making
    <2>1. rep'.on = rep.on /\ rep'.left = Minus1(rep.left) /\ todo' = todo - 1
      BY <1>3, <1>7, <1>8, <1>12
    <2>2. rep'.on /\ todo' < rep'.left
      BY <1>4, <1>5, <1>6, <1>8, <1>12, <2>1 DEF Minus1
    <2>3. LoopsOK' /\ NoOvershoot'
      BY <1>4, <1>10, <1>12, <2>2 DEF LoopsOK, NoOvershoot
    <2>4. QED
      BY <1>9, <1>11, <2>3 DEF Kept, IInv
  <1>13. CASE ~making
    <2>1. todo <= ms /\ (extra = 0 \/ extra <= (ms - todo) - 1 + Remaining)
      BY <1>13 DEF IInv, LoopsOK, Covered
    <2>2. todo' = todo - 1
      BY <1>3, <1>13
    <2>3. Remaining \in Int /\ Remaining' \in Int /\ Remaining' >= 0
      BY <1>6 DEF Remaining
    <2>4. Due(rep) => Remaining <= 1
      BY <1>6 DEF Remaining, Due
    <2>5. Remaining' >= Remaining - 1 => extra = 0 \/ extra <= (ms - todo') - 1 + Remaining'
      <3>1. extra \in Int /\ ms \in Int /\ todo \in Int
        BY <1>5
      <3>2. Remaining' >= Remaining - 1 => extra = 0 \/ extra <= (ms - (todo - 1)) - 1 + Remaining'
        BY <2>1, <2>3, <3>1, StillCovered
      <3>3. QED
        BY <2>2, <3>2
    <2>6. extra' = 0 \/ extra' <= (ms - todo') - 1 + Remaining'
      <3>1. CASE ~Due(rep)
        <4>1. ~found /\ extra' = extra
          BY <1>2, <1>3, <3>1
        <4>2. Remaining' >= Remaining - 1
          BY <1>6, <1>7, <3>1 DEF Remaining, Minus1
        <4>3. QED
          BY <4>1, <4>2, <2>5
      <3>2. CASE Due(rep) /\ ~found
        <4>1. extra' = extra
          BY <1>3, <3>2
        <4>2. QED
          BY <2>3, <2>4, <3>2, <4>1, <2>5
      <3>3. CASE found /\ mc.recorded
        <4> DEFINE d == Delay(e, mc.recorded)
        <4>1. extra' = Plus(extra, d) /\ d \in 0..U16Max /\ Due(rep)
          BY <1>2, <1>3, <1>13, <3>3
        <4>2. Remaining' = d
          BY <1>2, <3>3 DEF Remaining
        <4> HIDE DEF d
        <4>3. extra' <= extra + d
          BY <1>5, <4>1 DEF Plus
        <4>4. QED
          BY <1>5, <1>10, <2>1, <2>2, <2>3, <2>4, <4>1, <4>2, <4>3
      <3>4. CASE found /\ ~mc.recorded
        <4>1. Delay(e, mc.recorded) = 0 /\ Due(rep)
          BY <1>2, <3>4 DEF Delay
        <4>2. extra' = extra
          BY <1>3, <1>5, <1>13, <3>4, <4>1 DEF Plus
        <4>3. QED
          BY <2>3, <2>4, <4>1, <4>2, <2>5
      <3>5. QED
        BY <1>2, <3>1, <3>2, <3>3, <3>4
    <2>7. Covered' /\ todo' <= ms' /\ ~making'
      BY <1>4, <1>5, <1>13, <2>1, <2>2, <2>6 DEF Covered
    <2>8. LoopsOK' /\ NoOvershoot'
      BY <1>4, <1>10, <2>7 DEF LoopsOK, NoOvershoot
    <2>9. QED
      BY <1>9, <1>11, <2>8 DEF Kept, IInv
  <1>14. QED
    BY <1>12, <1>13

LEMMA NextInv == ASSUME IInv, [MacroNext]_macroVars PROVE IInv'
  <1>1. CASE \E key \in MacroKeys : KeyEvent("press", key) \/ KeyEvent("release", key)
    BY <1>1, KeyEventInv
  <1>2. CASE (\E n \in mc.calls : Call(n)) \/ MakeUp \/ Return
    BY <1>2, LoopStepInv
  <1>3. CASE MacroTickStates
    BY <1>3, TickStatesInv
  <1>4. CASE ReplayTick
    BY <1>4, ReplayTickInv
  <1>5. CASE UNCHANGED macroVars
    BY <1>5 DEF macroVars, counts, observed, IInv, MacroTypeOK, MacrosRelease, LoopsOK, Covered, Remaining,
                NoOvershoot
  <1>6. QED
    BY <1>1, <1>2, <1>3, <1>4, <1>5 DEF MacroNext

LEMMA Invariance == MacroSpec => []IInv
  <1>1. MacroInit => IInv
    BY InitInv
  <1>2. IInv /\ [MacroNext]_macroVars => IInv'
    BY NextInv
  <1>3. QED
    BY <1>1, <1>2, PTL DEF MacroSpec

-----------------------------------------------------------------------------
(* The time between two events of a replay.  The ticks since the last one  *)
(* and what is left of its delay add up to that delay; the layout's tick   *)
(* is one ahead of the replay's.  A delay runs out exactly when the next   *)
(* event is due, but for a delay of 0, which takes one tick.               *)
Wait == IF mc.recorded THEN prev.delay ELSE Pace
TimeInv ==
    prev # NoItem =>
        /\ rep.on /\ prev \in KeyItem /\ gap \in Nat
        /\ gap + rep.left = Wait + (IF stage = "replay" THEN 1 ELSE 0)
        /\ stage = "replay" => gap >= 1
        /\ rep.left >= 1 \/ Wait = 0

(* The timer of a replay after an event, and between events.               *)
LEMMA ReplayTimer ==
    ASSUME NEW p \in Replays, NEW recorded \in BOOLEAN, MacroConstants
    PROVE  /\ ReplayEvent(p) # NoItem
              => /\ ReplayEvent(p) \in KeyItem /\ Due(p) /\ TickReplay(p, recorded).on
                 /\ TickReplay(p, recorded).left
                      = IF recorded THEN ReplayEvent(p).delay ELSE Pace
           /\ ~Due(p) => /\ TickReplay(p, recorded).on = p.on
                         /\ TickReplay(p, recorded).left = Minus1(p.left)
  <1> DEFINE i == Head(p.items)
             rest == [p EXCEPT !.items = Tail(@), !.left = Pace]
  <1>1. ASSUME ReplayEvent(p) # NoItem
        PROVE  /\ i \in KeyItem /\ Due(p) /\ TickReplay(p, recorded).on /\ ReplayEvent(p) = i
               /\ TickReplay(p, recorded).left = IF recorded THEN i.delay ELSE Pace
    <2>1. Due(p) /\ p.items # <<>> /\ IsEvent(i) /\ ReplayEvent(p) = i
      BY <1>1 DEF ReplayEvent
    <2>2. i \in KeyItem
      <3>1. i \in KeyItem \cup EndItem
        BY <2>1, HeadTailProperties DEF Replays
      <3>2. QED
        BY <2>1, <3>1 DEF IsEvent, EndItem
    <2>3. TickReplay(p, recorded) = IF recorded THEN [rest EXCEPT !.left = i.delay] ELSE rest
      BY <2>1 DEF TickReplay
    <2>4. rest.on /\ rest.left = Pace /\ [rest EXCEPT !.left = i.delay].on
          /\ [rest EXCEPT !.left = i.delay].left = i.delay
      BY <2>1 DEF Replays, Due
    <2>5. QED
      BY <2>1, <2>2, <2>3, <2>4
  <1>2. ~Due(p) => /\ TickReplay(p, recorded).on = p.on
                   /\ TickReplay(p, recorded).left = Minus1(p.left)
    BY DEF TickReplay, Replays
  <1>3. QED
    BY <1>1, <1>2

\* in a tick of the layout
LEMMA TickStatesTime ==
    ASSUME IInv, TimeInv, MacroTickStates
    PROVE  TimeInv'
  <1>1. rep.on => rep'.on /\ rep'.left = rep.left
    BY TickStatesKept DEF IInv
  <1>2. /\ mc' = mc /\ prev' = prev /\ stage = "tick" /\ stage' = "replay"
        /\ prev # NoItem => gap' = gap + 1
    BY DEF MacroTickStates
  <1>3. rep.left \in Nat
    BY MacroConstants DEF IInv, MacroTypeOK
  <1>4. Wait' = Wait
    BY <1>2 DEF Wait
  <1>5. ASSUME prev # NoItem
        PROVE  Wait \in Nat
    BY <1>5, MacroConstants DEF TimeInv, Wait, KeyItem
  <1>6. QED
    BY <1>1, <1>2, <1>3, <1>4, <1>5 DEF TimeInv

(* In a tick of the replay; an event that it sends comes at its time.      *)
LEMMA ReplayTickTime ==
    ASSUME IInv, TimeInv, ReplayTick
    PROVE  /\ TimeInv'
           /\ sent' # NoItem /\ prev # NoItem
              => gap = IF ~mc.recorded THEN Pace ELSE IF prev.delay > 0 THEN prev.delay ELSE 1
  <1> DEFINE e == ReplayEvent(rep)
             found == e # NoItem
  <1>1. rep \in Replays /\ mc.recorded \in BOOLEAN /\ rep' = TickReplay(rep, mc.recorded)
    BY ConfigType DEF IInv, MacroTypeOK, Replays, ReplayTick
  <1>2. /\ found => /\ e \in KeyItem /\ Due(rep) /\ rep'.on
                    /\ rep'.left = IF mc.recorded THEN e.delay ELSE Pace
        /\ ~Due(rep) => rep'.on = rep.on /\ rep'.left = Minus1(rep.left)
    BY <1>1, MacroConstants, ReplayTimer
  <1>3. /\ sent' = IF making THEN NoItem ELSE e
        /\ prev' = IF found THEN e ELSE IF Due(rep) THEN NoItem ELSE prev
        /\ gap' = IF found THEN 0 ELSE gap
        /\ stage = "replay" /\ stage' = "tick" /\ mc' = mc
    BY DEF ReplayTick
  <1>4. rep.left \in Nat /\ Pace \in Nat /\ Pace >= 1
    BY MacroConstants DEF IInv, MacroTypeOK
  <1> HIDE DEF e, found
  <1>5. prev # NoItem => Wait \in Nat
    BY <1>4 DEF TimeInv, Wait, KeyItem
  <1>6. ASSUME sent' # NoItem, prev # NoItem
        PROVE  gap = IF ~mc.recorded THEN Pace ELSE IF prev.delay > 0 THEN prev.delay ELSE 1
    <2>1. rep.left <= 1
      BY <1>2, <1>3, <1>6 DEF Due, found
    <2>2. gap \in Nat /\ gap >= 1 /\ gap + rep.left = Wait + 1 /\ (rep.left >= 1 \/ Wait = 0)
      BY <1>3, <1>6 DEF TimeInv
    <2>3. gap = IF Wait > 0 THEN Wait ELSE 1
      BY <1>4, <1>5, <1>6, <2>1, <2>2
    <2>4. QED
      BY <1>4, <2>3 DEF Wait
  <1>7. TimeInv'
    <2>1. CASE found
      <3>1. prev' = e /\ gap' = 0 /\ e \in KeyItem /\ rep'.on
        BY <1>2, <1>3, <2>1
      <3>2. Wait' = rep'.left
        BY <1>2, <1>3, <2>1 DEF Wait
      <3>3. Wait' \in Nat
        BY <1>3, <1>4, <3>1, MacroConstants DEF Wait, KeyItem
      <3>4. rep'.left >= 1 \/ Wait' = 0
        BY <3>2, <3>3
      <3>5. QED
        BY <1>3, <3>1, <3>2, <3>3, <3>4 DEF TimeInv
    <2>2. CASE ~found /\ Due(rep)
      BY <1>3, <2>2 DEF TimeInv
    <2>3. CASE ~found /\ ~Due(rep)
      <3>1. prev' = prev /\ gap' = gap /\ rep'.on = rep.on /\ rep'.left = Minus1(rep.left)
        BY <1>2, <1>3, <2>3
      <3>2. Wait' = Wait
        BY <1>3, <3>1 DEF Wait
      <3>3. ASSUME prev # NoItem
            PROVE  /\ rep'.left = rep.left - 1 /\ rep'.left >= 1
                   /\ rep.on /\ prev \in KeyItem /\ gap \in Nat /\ gap + rep.left = Wait + 1
        <4>1. rep.on /\ prev \in KeyItem /\ gap \in Nat /\ gap + rep.left = Wait + 1
          BY <1>3, <3>3 DEF TimeInv
        <4>2. ~(rep.left <= 1)
          BY <2>3, <4>1 DEF Due
        <4>3. QED
          BY <1>4, <3>1, <4>1, <4>2 DEF Minus1
      <3>4. ASSUME prev # NoItem
            PROVE  gap' + rep'.left = Wait' /\ rep'.left >= 1
        BY <1>4, <1>5, <3>1, <3>2, <3>3, <3>4
      <3>5. QED
        BY <1>3, <1>5, <3>1, <3>2, <3>3, <3>4 DEF TimeInv
    <2>4. QED
      BY <2>1, <2>2, <2>3
  <1>8. QED
    BY <1>6, <1>7

\* the other actions send nothing and leave the replay alone
LEMMA ElsewhereTime ==
    ASSUME IInv, TimeInv,
           \/ \E key \in MacroKeys : KeyEvent("press", key) \/ KeyEvent("release", key)
           \/ \E n \in mc.calls : Call(n)
           \/ MakeUp \/ Return \/ UNCHANGED macroVars
    PROVE  TimeInv' /\ (sent' = NoItem \/ UNCHANGED macroVars)
  <1>1. rep' = rep /\ prev' = prev /\ gap' = gap /\ mc' = mc
    BY DEF KeyEvent, Call, MakeUp, Return, observed, macroVars
  <1>2. (stage' = "replay") = (stage = "replay")
    BY DEF KeyEvent, Call, MakeUp, Return, macroVars
  <1>3. sent' = NoItem \/ UNCHANGED macroVars
    BY DEF KeyEvent, Call, MakeUp, Return
  <1>4. QED
    BY <1>1, <1>2, <1>3 DEF TimeInv, Wait

-----------------------------------------------------------------------------
(* The times of a recording.  Only the last event waits for its delay.     *)
RecordInv ==
    rec.on =>
        /\ since \in Nat /\ times \in Seq(Nat)
        /\ Len(rec.waiting) = IF times = <<>> THEN 0 ELSE 1
        /\ times # <<>> => times[Len(times)] <= since

(* What the operations of a recording do to its parts.                     *)
Timed(r) == [i \in DOMAIN r.waiting |-> [r.waiting[i] EXCEPT !.delay = r.delay]]
LEMMA RecordParts ==
    ASSUME NEW r \in Records, NEW t, NEW key
    PROVE  /\ AddEvent(r, t, key).on = r.on
           /\ AddEvent(r, t, key).items = r.items \o Timed(r)
           /\ AddEvent(r, t, key).waiting = <<Item(t, key, 0)>>
           /\ AddEvent(r, t, key).delay = 0
           /\ TickRecord(r).on = r.on
           /\ TickRecord(r).items = r.items /\ TickRecord(r).waiting = r.waiting
           /\ r.on => TickRecord(r).delay = Plus(r.delay, 1)
  <1>1. Flush(r) = [r EXCEPT !.items = @ \o Timed(r), !.waiting = <<>>, !.delay = 0]
    BY DEF Flush, Timed
  <1>2. QED
    BY <1>1 DEF AddEvent, TickRecord, Records

\* what RecordInv and RecordKeepsTime say of a recording under way
LEMMA RecordFacts ==
    ASSUME IInv, RecordInv, RecordKeepsTime, rec.on
    PROVE  /\ rec \in Records /\ rec.items \in Seq(KeyItem) /\ rec.waiting \in Seq(KeyItem)
           /\ rec.delay \in 0..U16Max /\ since \in Nat /\ times \in Seq(Nat)
           /\ times = <<>> => rec.items = <<>> /\ rec.waiting = <<>>
           /\ times # <<>> =>
                /\ Len(rec.waiting) = 1 /\ Len(times) = Len(rec.items) + 1
                /\ times[Len(times)] \in Nat /\ times[Len(times)] <= since
                /\ rec.delay = Saturated(since - times[Len(times)])
                /\ \A i \in 1..Len(rec.items) :
                     rec.items[i].delay = Saturated(times[i + 1] - times[i])
  <1>1. /\ rec \in Records /\ rec.items \in Seq(KeyItem) /\ rec.waiting \in Seq(KeyItem)
        /\ rec.delay \in 0..U16Max
    BY DEF IInv, MacroTypeOK, Records
  <1>2. /\ since \in Nat /\ times \in Seq(Nat)
        /\ Len(rec.waiting) = IF times = <<>> THEN 0 ELSE 1
        /\ times # <<>> => times[Len(times)] <= since
    BY DEF RecordInv
  <1>3. /\ Len(rec.items) + Len(rec.waiting) = Len(times)
        /\ \A i \in DOMAIN rec.items : rec.items[i].delay = Saturated(times[i + 1] - times[i])
        /\ times # <<>> => rec.delay = Saturated(since - times[Len(times)])
    BY DEF RecordKeepsTime
  <1>4. times # <<>> => times[Len(times)] \in Nat
    BY <1>2
  <1>5. Len(rec.items) \in Nat /\ DOMAIN rec.items = 1..Len(rec.items)
    BY <1>1, LenProperties
  <1>6. times = <<>> => rec.items = <<>> /\ rec.waiting = <<>>
    <2>1. times = <<>> => Len(rec.items) = 0 /\ Len(rec.waiting) = 0
      BY <1>2, <1>3, <1>5
    <2>2. QED
      BY <1>1, <2>1
  <1>7. times # <<>> => Len(rec.waiting) = 1 /\ Len(times) = Len(rec.items) + 1
    BY <1>2, <1>3, <1>5
  <1>8. QED
    BY <1>1, <1>2, <1>3, <1>4, <1>5, <1>6, <1>7

\* a recording without events
LEMMA FreshRecord ==
    ASSUME rec'.on => rec'.waiting = <<>> /\ rec'.items = <<>>, since' = 0, times' = <<>>
    PROVE  RecordInv' /\ RecordKeepsTime'
  <1>1. <<>> \in Seq(Nat) /\ Len(<<>>) = 0 /\ DOMAIN <<>> = {}
    BY EmptySeq
  <1>2. RecordInv'
    BY <1>1 DEF RecordInv
  <1>3. ASSUME rec'.on
        PROVE  /\ Len(rec'.items) + Len(rec'.waiting) = Len(times')
               /\ DOMAIN rec'.items = {} /\ times' = <<>>
    <2>1. rec'.waiting = <<>> /\ rec'.items = <<>>
      BY <1>3, Zenon
    <2>2. QED
      BY <1>1, <2>1
  <1>4. RecordKeepsTime'
    BY <1>3, Zenon DEF RecordKeepsTime
  <1>5. QED
    BY <1>2, <1>4

\* an event is recorded: it tells the delay of the one before it
LEMMA KeyEventTimes ==
    ASSUME IInv, RecordInv, RecordKeepsTime,
           NEW t \in {"press", "release"}, NEW key \in MacroKeys, KeyEvent(t, key)
    PROVE  RecordInv' /\ RecordKeepsTime'
  <1>1. /\ rec'.on => rec.on /\ rec' = AddEvent(rec, t, key)
        /\ times' = IF rec'.on THEN Append(times, since') ELSE <<>>
        /\ since' = IF NothingRecorded(rec) THEN 0 ELSE since
    BY DEF KeyEvent, NoRecord, RecordEvent
  <1>2. /\ rec \in Records /\ rec.items \in Seq(KeyItem) /\ rec.waiting \in Seq(KeyItem)
        /\ rec.delay \in 0..U16Max
    BY DEF IInv, MacroTypeOK, Records
  <1>3. rec'.on => /\ rec'.items = rec.items \o Timed(rec)
                   /\ rec'.delay = 0 /\ rec'.waiting = <<Item(t, key, 0)>>
    BY <1>1, <1>2, RecordParts
  <1>4. CASE ~rec'.on
    BY <1>4 DEF RecordInv, RecordKeepsTime
  <1>5. CASE rec'.on /\ times = <<>>
    <2>1. rec.waiting = <<>> /\ rec.items = <<>>
      BY <1>1, <1>5, RecordFacts
    <2>2. since' = 0 /\ times' = <<0>>
      BY <1>1, <1>5, <2>1 DEF NothingRecorded
    <2>3. rec.items \o Timed(rec) = <<>>
      <3>1. Timed(rec) = <<>>
        BY <2>1 DEF Timed
      <3>2. QED
        BY <2>1, <3>1
    <2>4. rec'.items = <<>> /\ rec'.delay = 0 /\ rec'.waiting = <<Item(t, key, 0)>>
      BY <1>5, <1>3, <2>3
    <2>5. QED
      BY <2>2, <2>4, MacroConstants DEF RecordInv, RecordKeepsTime, Saturated, Plus
  <1>6. CASE rec'.on /\ times # <<>>
    <2> DEFINE n == Len(rec.items)
               late == [rec.waiting[1] EXCEPT !.delay = rec.delay]
    <2>1. /\ since \in Nat /\ times \in Seq(Nat) /\ Len(rec.waiting) = 1
          /\ Len(times) = n + 1 /\ n \in Nat /\ times[n + 1] <= since /\ times[n + 1] \in Nat
          /\ rec.delay = Saturated(since - times[n + 1])
          /\ \A i \in 1..n : rec.items[i].delay = Saturated(times[i + 1] - times[i])
      <3>1. rec.on /\ n \in Nat
        BY <1>1, <1>2, <1>6, LenProperties
      <3>2. QED
        BY <1>6, <3>1, RecordFacts
    <2>2. since' = since /\ times' = Append(times, since)
      <3>1. ~NothingRecorded(rec)
        BY <1>2, <2>1 DEF NothingRecorded
      <3>2. QED
        BY <1>1, <1>6, <3>1
    <2>3. Timed(rec) = <<late>>
      <3>1. DOMAIN rec.waiting = 1..1
        BY <1>2, <2>1, LenProperties
      <3>2. QED
        BY <3>1 DEF Timed
    <2>4. late.delay = rec.delay
      <3>1. rec.waiting[1] \in KeyItem
        BY <1>2, <2>1, LenProperties
      <3>2. QED
        BY <3>1 DEF KeyItem
    <2> HIDE DEF late
    <2>5. rec'.items = rec.items \o <<late>> /\ rec'.delay = 0 /\ rec'.waiting = <<Item(t, key, 0)>>
      BY <1>6, <1>3, <2>3
    <2>6. /\ Len(rec'.items) = n + 1 /\ Len(rec'.waiting) = 1 /\ DOMAIN rec'.items = 1..(n + 1)
          /\ \A i \in 1..n : rec'.items[i] = rec.items[i]
          /\ rec'.items[n + 1] = late
      <3>1. /\ rec.items \o <<late>> = Append(rec.items, late)
        BY <1>2
      <3>2. QED
        BY <1>2, <2>5, <3>1
    <2>7. /\ times' \in Seq(Nat) /\ Len(times') = n + 2 /\ times' # <<>>
          /\ \A i \in 1..(n + 1) : times'[i] = times[i]
          /\ times'[n + 2] = since
      <3>1. n + 2 = Len(times) + 1
        BY <2>1
      <3>2. QED
        BY <2>1, <2>2, <3>1
    <2>8. \A i \in 1..(n + 1) : rec'.items[i].delay = Saturated(times'[i + 1] - times'[i])
      <3>1. ASSUME NEW i \in 1..n
            PROVE  rec'.items[i].delay = Saturated(times'[i + 1] - times'[i])
        <4>1. i + 1 \in 1..(n + 1) /\ i \in 1..(n + 1)
          BY <2>1
        <4>2. times'[i + 1] = times[i + 1] /\ times'[i] = times[i]
          BY <2>7, <4>1
        <4>3. QED
          BY <2>1, <2>6, <4>2
      <3>2. rec'.items[n + 1].delay = Saturated(times'[n + 2] - times'[n + 1])
        <4>1. n + 1 \in 1..(n + 1)
          BY <2>1
        <4>2. times'[n + 1] = times[n + 1]
          BY <2>7, <4>1
        <4>3. QED
          BY <2>1, <2>4, <2>6, <2>7, <4>2
      <3>3. (n + 1) + 1 = n + 2
        BY <2>1
      <3>4. \A i \in 1..(n + 1) : i \in 1..n \/ i = n + 1
        BY <2>1
      <3>5. QED
        BY <3>1, <3>2, <3>3, <3>4
    <2>9. rec'.delay = Saturated(since' - times'[Len(times')]) /\ times'[Len(times')] <= since'
      BY <2>1, <2>2, <2>5, <2>7, MacroConstants DEF Saturated, Plus
    <2>10. RecordInv'
      BY <2>1, <2>2, <2>6, <2>7, <2>9 DEF RecordInv
    <2>11. Len(rec'.items) + Len(rec'.waiting) = Len(times')
      BY <2>1, <2>6, <2>7
    <2>12. RecordKeepsTime'
      BY <2>6, <2>8, <2>9, <2>11, Zenon DEF RecordKeepsTime
    <2>13. QED
      BY <2>10, <2>12
  <1>7. QED
    BY <1>4, <1>5, <1>6

\* a tick does not add to a saturated counter
LEMMA SaturatedPlus ==
    ASSUME NEW m \in Int, m >= 0
    PROVE  Plus(Saturated(m), 1) = Saturated(m + 1)
  BY MacroConstants DEF Plus, Saturated

\* a tick in which the recording goes on
LEMMA RecordingTicks ==
    ASSUME IInv, RecordInv, RecordKeepsTime, rec' = TickRecord(rec),
           since' = IF Recording THEN since + 1 ELSE 0,
           times' = IF Recording THEN times ELSE <<>>
    PROVE  RecordInv' /\ RecordKeepsTime'
  <1>1. /\ rec'.on = rec.on /\ rec'.items = rec.items /\ rec'.waiting = rec.waiting
        /\ rec.on => rec'.delay = Plus(rec.delay, 1)
    <2>1. rec \in Records
      BY DEF IInv, MacroTypeOK, Records
    <2>2. QED
      BY <2>1, RecordParts
  <1>3. CASE ~rec.on
    BY <1>1, <1>3 DEF RecordInv, RecordKeepsTime
  <1>4. CASE rec.on /\ times = <<>>
    <2>1. rec.waiting = <<>> /\ rec.items = <<>>
      BY <1>4, RecordFacts
    <2>2. ~Recording
      BY <1>1, <2>1 DEF Recording, NothingRecorded
    <2>3. QED
      BY <1>1, <2>1, <2>2, FreshRecord
  <1>5. CASE rec.on /\ times # <<>>
    <2>1. /\ since \in Nat /\ times \in Seq(Nat) /\ Len(rec.waiting) = 1 /\ rec.delay \in 0..U16Max
          /\ times[Len(times)] <= since /\ rec.delay = Saturated(since - times[Len(times)])
      BY <1>5, RecordFacts
    <2>2. Recording
      <3>1. rec.waiting # <<>>
        <4>1. Len(<<>>) = 0
          BY EmptySeq
        <4>2. Len(rec.waiting) = 1
          BY <2>1
        <4>3. QED
          BY <4>1, <4>2
      <3>2. QED
        BY <1>1, <1>5, <3>1 DEF Recording, NothingRecorded
    <2>3. times[Len(times)] \in Nat
      BY <1>5, RecordFacts
    <2>4. rec'.delay = Saturated(since' - times[Len(times)])
      <3>1. rec'.delay = Plus(rec.delay, 1) /\ since' = since + 1
        BY <1>1, <1>5, <2>2
      <3>2. since - times[Len(times)] \in Int /\ since - times[Len(times)] >= 0
        BY <2>1, <2>3
      <3>3. Plus(Saturated(since - times[Len(times)]), 1) = Saturated(since - times[Len(times)] + 1)
        BY <3>2, SaturatedPlus, Zenon
      <3>4. since' - times[Len(times)] = since - times[Len(times)] + 1
        BY <2>1, <2>3, <3>1
      <3>5. QED
        BY <2>1, <3>1, <3>3, <3>4, Zenon
    <2>5. times' = times /\ since' = since + 1
      BY <2>2
    <2>6. since' \in Nat /\ times[Len(times)] <= since'
      BY <2>1, <2>3, <2>5
    <2>7. RecordInv'
      BY <1>1, <1>5, <2>1, <2>5, <2>6, Zenon DEF RecordInv
    <2>8. RecordKeepsTime'
      BY <1>1, <1>5, <2>4, <2>5, Zenon DEF RecordKeepsTime
    <2>9. QED
      BY <2>7, <2>8
  <1>6. QED
    BY <1>3, <1>4, <1>5

LEMMA TickStatesTimes ==
    ASSUME IInv, RecordInv, RecordKeepsTime, MacroTickStates
    PROVE  RecordInv' /\ RecordKeepsTime'
  <1>1. since' = (IF Recording THEN since + 1 ELSE 0) /\ times' = IF Recording THEN times ELSE <<>>
    BY DEF MacroTickStates
  <1>2. rec' = TickRecord(rec) \/ \E id : rec' \in {NoRecord, TickRecord(NoRecord), TickRecord(NewRecord(id))}
    BY Zenon DEF MacroTickStates, Nothing, Perform, Record, Stop, Play
  <1>3. ASSUME NEW id, rec' \in {NoRecord, TickRecord(NoRecord), TickRecord(NewRecord(id))}
        PROVE  RecordInv' /\ RecordKeepsTime'
    <2>1. /\ NoRecord.waiting = <<>> /\ NoRecord.items = <<>>
          /\ NewRecord(id).waiting = <<>> /\ NewRecord(id).items = <<>>
      BY DEF NoRecord, NewRecord
    <2>2. /\ TickRecord(NoRecord) = NoRecord
          /\ TickRecord(NewRecord(id)).waiting = <<>> /\ TickRecord(NewRecord(id)).items = <<>>
      BY DEF NoRecord, NewRecord, TickRecord
    <2>3. rec'.waiting = <<>> /\ rec'.items = <<>>
      BY <1>3, <2>1, <2>2
    <2>4. ~Recording
      BY <2>3 DEF Recording, NothingRecorded
    <2>5. QED
      BY <1>1, <2>3, <2>4, FreshRecord
  <1>4. QED
    BY <1>1, <1>2, <1>3, RecordingTicks

LEMMA RecordTimesStep ==
    ASSUME IInv, RecordInv, RecordKeepsTime, [MacroNext]_macroVars
    PROVE  RecordInv' /\ RecordKeepsTime'
  <1>1. CASE \E key \in MacroKeys : KeyEvent("press", key) \/ KeyEvent("release", key)
    BY <1>1, KeyEventTimes
  <1>2. CASE MacroTickStates
    BY <1>2, TickStatesTimes
  <1>3. CASE (\E n \in mc.calls : Call(n)) \/ ReplayTick \/ MakeUp \/ Return \/ UNCHANGED macroVars
    <2>1. rec' = rec /\ since' = since /\ times' = times
      BY <1>3 DEF Call, ReplayTick, MakeUp, Return, observed, macroVars
    <2>2. QED
      BY <2>1 DEF RecordInv, RecordKeepsTime
  <1>4. QED
    BY <1>1, <1>2, <1>3 DEF MacroNext

(* Recordings hold key events only and the counters of tick_ms stay within *)
(* 16 bits (MacroTypeOK), for all macros, keys and passes of up to 65535 ms.    *)
THEOREM MacroTypeCorrect == MacroSpec => []MacroTypeOK
  <1>1. IInv => MacroTypeOK
    BY DEF IInv
  <1>2. QED
    BY <1>1, Invariance, PTL

(* tick_ms never meets an event of the replay while it makes up for the    *)
(* delays (NoOvershoot): the message "the code is broken" is never logged, *)
(* however long the passes are and whatever is played in their ticks.      *)
THEOREM NeverOvershoots == MacroSpec => []NoOvershoot
  <1>1. IInv => NoOvershoot
    BY DEF IInv
  <1>2. QED
    BY <1>1, Invariance, PTL

(* Whenever and however a recording ends, the macro releases every key     *)
(* that it presses (MacrosRelease).                                        *)
THEOREM MacrosReleaseTheirKeys == MacroSpec => []MacrosRelease
  <1>1. IInv => MacrosRelease
    BY DEF IInv
  <1>2. QED
    BY <1>1, Invariance, PTL
(* Events of one macro are replayed with as many ticks of the layout       *)
(* between them as passed when they were recorded, or at a steady pace     *)
(* (ReplayKeepsTime), for any recordings, passes of any length, and        *)
(* whatever is recorded or played within the replay meanwhile.             *)
THEOREM ReplaysKeepTime == MacroSpec => ReplayKeepsTime
  <1> DEFINE InTime ==
        sent' # NoItem /\ prev # NoItem
        => gap = IF ~mc.recorded THEN Pace ELSE IF prev.delay > 0 THEN prev.delay ELSE 1
  <1>1. MacroInit => TimeInv
    BY DEF MacroInit, TimeInv
  <1>2. IInv /\ TimeInv /\ [MacroNext]_macroVars => TimeInv' /\ [InTime]_macroVars
    <2> SUFFICES ASSUME IInv, TimeInv, [MacroNext]_macroVars
                 PROVE  TimeInv' /\ [InTime]_macroVars
      OBVIOUS
    <2>1. CASE MacroTickStates
      <3>1. sent' = NoItem
        BY <2>1 DEF MacroTickStates
      <3>2. QED
        BY <2>1, <3>1, TickStatesTime
    <2>2. CASE ReplayTick
      BY <2>2, ReplayTickTime
    <2>3. CASE ~MacroTickStates /\ ~ReplayTick
      <3>1. TimeInv' /\ (sent' = NoItem \/ UNCHANGED macroVars)
        BY <2>3, ElsewhereTime DEF MacroNext
      <3>2. QED
        BY <3>1
    <2>4. QED
      BY <2>1, <2>2, <2>3
  <1>3. QED
    BY <1>1, <1>2, Invariance, PTL DEF MacroSpec, ReplayKeepsTime
(* Every event of a recording is saved with the ticks until the next one,  *)
(* up to 16 bits of them, however the events are spread over passes        *)
(* (RecordKeepsTime), for any keys, recordings and custom actions.         *)
THEOREM RecordingsKeepTime == MacroSpec => []RecordKeepsTime
  <1>1. MacroInit => RecordInv /\ RecordKeepsTime
    BY DEF MacroInit, NoRecord, RecordInv, RecordKeepsTime
  <1>2. IInv /\ RecordInv /\ RecordKeepsTime /\ [MacroNext]_macroVars => RecordInv' /\ RecordKeepsTime'
    BY RecordTimesStep
  <1>3. QED
    BY <1>1, <1>2, Invariance, PTL DEF MacroSpec

-----------------------------------------------------------------------------
(* Replay implements MacroStack: macros that play one another run like     *)
(* procedures.                                                             *)

(* f enumerates the n marks of the queue q in their order; with o, the     *)
(* macro without a mark, it gives the frames.                              *)
Increasing(f, n) == f \in [1..n -> Nat] /\ \A i, j \in 1..n : i < j => f[i] < f[j]
Enumerates(f, n, q) == n \in Nat /\ Increasing(f, n) /\ Marks(q) = {f[i] : i \in 1..n}
Lower(f, i) == IF i = 1 THEN 1 ELSE f[i - 1] + 1
Upper(f, n, q, i) == IF i <= n THEN f[i] - 1 ELSE Len(q)
FrameOf(f, n, q, o, i) ==
    [id   |-> IF i <= n THEN q[f[i]].key ELSE o,
     rest |-> SubSeq(q, Lower(f, i), Upper(f, n, q, i))]
FramesOf(f, n, q, o) == [i \in 1..(n + 1) |-> FrameOf(f, n, q, o, i)]

LEMMA Counting ==
    ASSUME NEW n \in Nat, NEW f, Increasing(f, n), NEW k \in 0..n
    PROVE  Cardinality({f[i] : i \in 1..k}) = k
  <1> DEFINE T == {f[i] : i \in 1..k}
             g == [i \in 1..k |-> f[i]]
  <1>1. g \in Injection(1..k, T)
    <2>1. \A i, j \in 1..k : i # j => f[i] # f[j]
      <3>1. ASSUME NEW i \in 1..k, NEW j \in 1..k, i # j
            PROVE  f[i] # f[j]
        <4>1. i \in 1..n /\ j \in 1..n /\ f[i] \in Nat /\ f[j] \in Nat
          BY DEF Increasing
        <4>2. i < j \/ j < i
          BY <3>1
        <4>3. f[i] < f[j] \/ f[j] < f[i]
          BY <4>1, <4>2 DEF Increasing
        <4>4. QED
          BY <4>1, <4>3
      <3>2. QED
        BY <3>1
    <2>2. QED
      BY <2>1 DEF Injection, IsInjective
  <1>2. g \in Surjection(1..k, T)
    BY DEF Surjection
  <1>3. ExistsBijection(1..k, T)
    BY <1>1, <1>2 DEF ExistsBijection, Bijection
  <1>4. IsFiniteSet(1..k) /\ Cardinality(1..k) = k
    BY FS_Interval
  <1> HIDE DEF T
  <1>5. Cardinality(T) = k
    BY <1>3, <1>4, FS_Bijection
  <1>6. QED
    BY <1>5 DEF T

\* the marks are found again by their rank
Ranked(M, i) == CHOOSE e \in M : Cardinality({x \in M : x <= e}) = i
LEMMA Ranks ==
    ASSUME NEW n \in Nat, NEW f, Increasing(f, n), NEW M, M = {f[i] : i \in 1..n}
    PROVE  /\ Cardinality(M) = n
           /\ \A i \in 1..n : Ranked(M, i) = f[i]
  <1>1. Cardinality(M) = n
    BY Counting
  <1>2. ASSUME NEW j \in 1..n
        PROVE  Cardinality({x \in M : x <= f[j]}) = j
    <2>1. \A i \in 1..n : f[i] \in Nat /\ (f[i] <= f[j] <=> i <= j)
      BY DEF Increasing
    <2>2. {x \in M : x <= f[j]} = {f[i] : i \in 1..j}
      <3>1. ASSUME NEW x \in M, x <= f[j]
            PROVE  \E i \in 1..j : x = f[i]
        <4>1. PICK i \in 1..n : x = f[i]
          OBVIOUS
        <4>2. i <= j
          BY <2>1, <3>1, <4>1
        <4>3. QED
          BY <4>1, <4>2
      <3>2. \A i \in 1..j : f[i] \in M /\ f[i] <= f[j]
        BY <2>1
      <3>3. QED
        BY <3>1, <3>2
    <2>3. QED
      BY <2>2, Counting
  <1>3. ASSUME NEW i \in 1..n
        PROVE  Ranked(M, i) = f[i]
    <2>1. f[i] \in M /\ Cardinality({x \in M : x <= f[i]}) = i
      BY <1>2
    <2>2. ASSUME NEW e \in M, Cardinality({x \in M : x <= e}) = i
          PROVE  e = f[i]
      <3>1. PICK j \in 1..n : e = f[j]
        OBVIOUS
      <3>2. j = i
        BY <1>2, <2>2, <3>1
      <3>3. QED
        BY <3>1, <3>2
    <2>3. QED
      BY <2>1, <2>2 DEF Ranked
  <1>4. QED
    BY <1>1, <1>3

\* a part of a queue is the same part of the queue that it ends
LEMMA SameSubSeq ==
    ASSUME NEW S, NEW s \in Seq(S), NEW t \in Seq(S), NEW k \in Int,
           NEW a \in Int, NEW b \in Int, NEW c \in Int, NEW d \in Int,
           c = a + k, d = b + k,
           \A i \in a..b : t[i] \in S /\ s[i + k] = t[i]
    PROVE  SubSeq(s, c, d) = SubSeq(t, a, b)
  <1> DEFINE x == SubSeq(s, c, d)
             y == SubSeq(t, a, b)
  <1>1. /\ y \in Seq(S) /\ Len(y) = IF a <= b THEN b - a + 1 ELSE 0
        /\ \A i \in 1..b - a + 1 : y[i] = t[a + i - 1]
    BY SubSeqProperties
  <1>2. \A i \in c..d : s[i] \in S
    <2>1. ASSUME NEW i \in c..d
          PROVE  s[i] \in S
      <3>1. i - k \in a..b /\ (i - k) + k = i
        OBVIOUS
      <3>2. QED
        BY <3>1
    <2>2. QED
      BY <2>1
  <1>3. /\ x \in Seq(S) /\ Len(x) = IF c <= d THEN d - c + 1 ELSE 0
        /\ \A i \in 1..d - c + 1 : x[i] = s[c + i - 1]
    BY <1>2, SubSeqProperties
  <1> HIDE DEF x, y
  <1>4. Len(x) = Len(y) /\ (a <= b => Len(y) = b - a + 1) /\ (~(a <= b) => Len(y) = 0)
    BY <1>1, <1>3
  <1>5. ASSUME NEW i \in 1..Len(x)
        PROVE  x[i] = y[i]
    <2>1. a <= b /\ i \in 1..b - a + 1 /\ i \in 1..d - c + 1
      BY <1>4
    <2>2. a + i - 1 \in a..b /\ (a + i - 1) + k = c + i - 1
      BY <2>1
    <2>3. s[c + i - 1] = t[a + i - 1]
      <3>1. s[(a + i - 1) + k] = t[a + i - 1]
        BY <2>2
      <3>2. QED
        BY <2>2, <3>1
    <2>4. QED
      BY <1>1, <1>3, <2>1, <2>3
  <1>6. x = y
    BY <1>1, <1>3, <1>4, <1>5, SeqEqual
  <1>7. QED
    BY <1>6 DEF x, y

LEMMA FrameIs ==
    ASSUME NEW f, NEW n, NEW q, NEW o, NEW i \in 1..(n + 1)
    PROVE  FramesOf(f, n, q, o)[i] = FrameOf(f, n, q, o, i)
  BY DEF FramesOf

Span(f, n, q, i) == SubSeq(q, Lower(f, i), Upper(f, n, q, i))
LEMMA FrameRest ==
    ASSUME NEW f, NEW n, NEW q, NEW o, NEW i, NEW r, r = FrameOf(f, n, q, o, i)
    PROVE  r.rest = Span(f, n, q, i)
  BY DEF FrameOf, Span

\* marks lie within the queue, and a frame before its mark
LEMMA MarkPositions ==
    ASSUME NEW S, NEW q \in Seq(S), NEW n, NEW f, Enumerates(f, n, q)
    PROVE  /\ n \in Nat /\ f \in [1..n -> Nat] /\ \A i, j \in 1..n : i < j => f[i] < f[j]
           /\ \A i \in 1..n : f[i] \in 1..Len(q) /\ ~IsEvent(q[f[i]])
           /\ \A x \in 1..Len(q) : ~IsEvent(q[x]) => \E i \in 1..n : x = f[i]
           /\ \A i \in 1..(n + 1) : Lower(f, i) \in 1..(Len(q) + 1) /\ Upper(f, n, q, i) \in 0..Len(q)
  <1>1. n \in Nat /\ f \in [1..n -> Nat] /\ \A i, j \in 1..n : i < j => f[i] < f[j]
    BY DEF Enumerates, Increasing
  <1>2. DOMAIN q = 1..Len(q) /\ Len(q) \in Nat
    BY LenProperties
  <1>3. Marks(q) = {f[i] : i \in 1..n}
    BY DEF Enumerates
  <1>4. \A i \in 1..n : f[i] \in 1..Len(q) /\ ~IsEvent(q[f[i]])
    BY <1>2, <1>3 DEF Marks
  <1>5. \A x \in 1..Len(q) : ~IsEvent(q[x]) => \E i \in 1..n : x = f[i]
    BY <1>2, <1>3 DEF Marks
  <1>6. ASSUME NEW i \in 1..(n + 1)
        PROVE  Lower(f, i) \in 1..(Len(q) + 1) /\ Upper(f, n, q, i) \in 0..Len(q)
    <2>1. i # 1 => i - 1 \in 1..n
      BY <1>1
    <2>2. i <= n => i \in 1..n
      BY <1>1
    <2>3. (i # 1 => f[i - 1] \in 1..Len(q)) /\ (i <= n => f[i] \in 1..Len(q))
      BY <1>4, <2>1, <2>2
    <2>4. QED
      BY <1>2, <2>3 DEF Lower, Upper
  <1>7. QED
    BY <1>1, <1>4, <1>5, <1>6

\* enumerating the marks of a queue from where they are
LEMMA EnumeratesFrom ==
    ASSUME NEW S, NEW q \in Seq(S), NEW n \in Nat, NEW f \in [1..n -> 1..Len(q)],
           \A i, j \in 1..n : i < j => f[i] < f[j],
           \A i \in 1..n : ~IsEvent(q[f[i]]),
           \A x \in 1..Len(q) : ~IsEvent(q[x]) => \E i \in 1..n : x = f[i]
    PROVE  Enumerates(f, n, q)
  <1>1. DOMAIN q = 1..Len(q) /\ Len(q) \in Nat
    BY LenProperties
  <1>2. Increasing(f, n)
    <2>1. 1..Len(q) \subseteq Nat
      BY <1>1
    <2>2. f \in [1..n -> Nat]
      BY <2>1
    <2>3. QED
      BY <2>2 DEF Increasing
  <1>3. Marks(q) = {f[i] : i \in 1..n}
    BY <1>1 DEF Marks
  <1>4. QED
    BY <1>2, <1>3 DEF Enumerates

\* a queue p that is a frame without marks, its mark at K, and the queue q
FrontOf(S, p, q, K) ==
    /\ p \in Seq(S) /\ q \in Seq(S) /\ K \in 1..Len(p) /\ Len(p) = K + Len(q) /\ Len(q) \in Nat
    /\ \A i \in 1..(K - 1) : IsEvent(p[i])
    /\ ~IsEvent(p[K])
    /\ \A i \in 1..Len(q) : p[i + K] = q[i]
IsFront(g, f, n, K) == g = [i \in 1..(n + 1) |-> IF i = 1 THEN K ELSE f[i - 1] + K]
KeysOf(f, n, q) == {q[f[i]].key : i \in 1..n}
Distinct(f, n, q) == \A i, j \in 1..n : q[f[i]].key = q[f[j]].key => i = j
Running(id, rest) == [id |-> id, rest |-> rest]
Top(p, K) == Running(p[K].key, SubSeq(p, 1, K - 1))
Pushed(G, x, F) == G = <<x>> \o F

\* a frame in front of a queue moves the marks of the queue by K
LEMMA FrontMarks ==
    ASSUME NEW S, NEW q, NEW n, NEW f, NEW p, NEW K, NEW g,
           FrontOf(S, p, q, K), Enumerates(f, n, q), IsFront(g, f, n, K)
    PROVE  /\ Enumerates(g, n + 1, p)
           /\ g[1] = K /\ 1 \in 1..(n + 1) /\ n + 1 \in Nat
           /\ \A i \in 1..n : /\ i + 1 \in 1..(n + 1) /\ g[i + 1] = f[i] + K
                             /\ p[g[i + 1]] = q[f[i]]
           /\ \A i \in 1..(n + 1) : i # 1 =>
                \E j \in 1..n : i = j + 1 /\ g[i] = f[j] + K /\ p[g[i]] = q[f[j]]
  <1>1. /\ p \in Seq(S) /\ q \in Seq(S) /\ K \in 1..Len(p) /\ Len(p) = K + Len(q) /\ Len(q) \in Nat
        /\ K \in Nat /\ K >= 1
        /\ \A i \in 1..(K - 1) : IsEvent(p[i])
        /\ ~IsEvent(p[K])
        /\ \A i \in 1..Len(q) : p[i + K] = q[i]
    BY LenProperties DEF FrontOf
  <1>2. /\ n \in Nat /\ f \in [1..n -> Nat] /\ \A i, j \in 1..n : i < j => f[i] < f[j]
        /\ \A i \in 1..n : f[i] \in 1..Len(q) /\ ~IsEvent(q[f[i]])
        /\ \A x \in 1..Len(q) : ~IsEvent(q[x]) => \E i \in 1..n : x = f[i]
        /\ \A i \in 1..(n + 1) : Lower(f, i) \in 1..(Len(q) + 1) /\ Upper(f, n, q, i) \in 0..Len(q)
    BY <1>1, MarkPositions
  <1>3. /\ g[1] = K /\ 1 \in 1..(n + 1) /\ n + 1 \in Nat
        /\ \A i \in 1..(n + 1) : i # 1 => g[i] = f[i - 1] + K
        /\ DOMAIN g = 1..(n + 1) /\ g = [i \in 1..(n + 1) |-> g[i]]
    BY <1>2 DEF IsFront
  <1>4. ASSUME NEW i \in 1..n
        PROVE  i + 1 \in 1..(n + 1) /\ g[i + 1] = f[i] + K /\ p[g[i + 1]] = q[f[i]]
    <2>1. i + 1 \in 1..(n + 1) /\ i + 1 # 1 /\ (i + 1) - 1 = i
      BY <1>2
    <2>2. f[i] \in 1..Len(q)
      BY <1>2
    <2>3. g[i + 1] = f[(i + 1) - 1] + K
      BY <1>3, <2>1
    <2>4. p[f[i] + K] = q[f[i]]
      BY <1>1, <2>2
    <2>5. QED
      BY <2>1, <2>3, <2>4
  <1>5. ASSUME NEW i \in 1..(n + 1), i # 1
        PROVE  \E j \in 1..n : i = j + 1 /\ g[i] = f[j] + K /\ p[g[i]] = q[f[j]]
    <2>1. i - 1 \in 1..n /\ i = (i - 1) + 1
      BY <1>2, <1>5
    <2>2. g[(i - 1) + 1] = f[i - 1] + K /\ p[g[(i - 1) + 1]] = q[f[i - 1]]
      BY <1>4, <2>1
    <2>3. QED
      BY <2>1, <2>2
  <1>6. p[g[1]] = p[K]
    BY <1>3
  <1>7. Enumerates(g, n + 1, p)
    <2>1. ASSUME NEW i \in 1..(n + 1), NEW j \in 1..(n + 1), i < j
          PROVE  g[i] < g[j]
      <3>0. j # 1
        BY <1>2, <2>1
      <3>1. PICK l \in 1..n : j = l + 1 /\ g[j] = f[l] + K
        BY <1>5, <3>0
      <3>2. f[l] \in 1..Len(q)
        BY <1>2
      <3>3. CASE i = 1
        BY <1>1, <1>3, <3>1, <3>2, <3>3
      <3>4. CASE i # 1
        <4>1. PICK k \in 1..n : i = k + 1 /\ g[i] = f[k] + K
          BY <1>5, <3>4
        <4>2. k < l
          BY <1>2, <2>1, <3>1, <4>1
        <4>3. f[k] < f[l] /\ f[k] \in 1..Len(q)
          BY <1>2, <4>2
        <4>4. QED
          BY <1>1, <3>1, <3>2, <4>1, <4>3
      <3>5. QED
        BY <3>3, <3>4
    <2>2. ASSUME NEW i \in 1..(n + 1)
          PROVE  ~IsEvent(p[g[i]]) /\ g[i] \in 1..Len(p)
      <3>1. CASE i = 1
        <4>1. g[1] \in 1..Len(p)
          BY <1>1, <1>3
        <4>2. QED
          BY <1>1, <1>6, <3>1, <4>1, Zenon
      <3>2. CASE i # 1
        <4>1. PICK k \in 1..n : g[i] = f[k] + K /\ p[g[i]] = q[f[k]]
          BY <1>5, <3>2
        <4>2. f[k] \in 1..Len(q) /\ ~IsEvent(q[f[k]])
          BY <1>2
        <4>3. QED
          BY <1>1, <4>1, <4>2
      <3>3. QED
        BY <3>1, <3>2
    <2>3. ASSUME NEW x \in 1..Len(p), ~IsEvent(p[x])
          PROVE  \E i \in 1..(n + 1) : x = g[i]
      <3>1. CASE x <= K - 1
        BY <1>1, <2>3, <3>1
      <3>2. CASE x = K
        BY <1>3, <3>2
      <3>3. CASE x > K
        <4>1. x - K \in 1..Len(q) /\ (x - K) + K = x
          BY <1>1, <3>3
        <4>2. ~IsEvent(q[x - K])
          BY <1>1, <2>3, <4>1
        <4>3. PICK i \in 1..n : x - K = f[i]
          BY <1>2, <4>1, <4>2
        <4>4. i + 1 \in 1..(n + 1) /\ g[i + 1] = f[i] + K
          BY <1>4
        <4>5. x = g[i + 1]
          BY <4>1, <4>3, <4>4
        <4>6. QED
          BY <4>4, <4>5
      <3>4. QED
        BY <1>1, <3>1, <3>2, <3>3
    <2>4. g \in [1..(n + 1) -> 1..Len(p)]
      <3>1. QED
        BY <1>3, <2>2
    <2>5. QED
      BY <1>1, <1>3, <2>1, <2>2, <2>3, <2>4, EnumeratesFrom
  <1>8. QED
    BY <1>3, <1>4, <1>5, <1>7

\* ... and adds its own key
LEMMA FrontKeys ==
    ASSUME NEW S, NEW q, NEW n, NEW f, NEW p, NEW K, NEW g,
           FrontOf(S, p, q, K), Enumerates(f, n, q), IsFront(g, f, n, K)
    PROVE  /\ KeysOf(g, n + 1, p) = {p[K].key} \cup KeysOf(f, n, q)
           /\ Distinct(f, n, q) /\ p[K].key \notin KeysOf(f, n, q) => Distinct(g, n + 1, p)
  <1>3. g[1] = K /\ 1 \in 1..(n + 1) /\ n + 1 \in Nat
    BY FrontMarks
  <1>4. \A i \in 1..n : i + 1 \in 1..(n + 1) /\ g[i + 1] = f[i] + K /\ p[g[i + 1]] = q[f[i]]
    BY FrontMarks
  <1>5. ASSUME NEW i \in 1..(n + 1), i # 1
        PROVE  \E j \in 1..n : i = j + 1 /\ p[g[i]] = q[f[j]]
    BY <1>5, FrontMarks
  <1>6. p[g[1]] = p[K]
    BY <1>3
  <1>8. KeysOf(g, n + 1, p) = {p[K].key} \cup KeysOf(f, n, q)
    <2> DEFINE A == {p[g[i]].key : i \in 1..(n + 1)}
               B == {q[f[i]].key : i \in 1..n}
    <2>1. ASSUME NEW x \in A
          PROVE  x \in {p[K].key} \cup B
      <3>1. PICK i \in 1..(n + 1) : x = p[g[i]].key
        OBVIOUS
      <3>2. QED
        BY <1>5, <1>6, <3>1
    <2>2. B \subseteq A
      BY <1>4
    <2>3. p[K].key \in A
      BY <1>3, <1>6
    <2> HIDE DEF A, B
    <2>4. A = {p[K].key} \cup B
      BY <2>1, <2>2, <2>3
    <2>5. QED
      BY <2>4 DEF A, B, KeysOf
  <1>9. ASSUME \A i, j \in 1..n : q[f[i]].key = q[f[j]].key => i = j,
               p[K].key \notin KeysOf(f, n, q),
               NEW i \in 1..(n + 1), NEW j \in 1..(n + 1), p[g[i]].key = p[g[j]].key
        PROVE  i = j
    <2>1. CASE i = 1 \/ j = 1
      <3>1. ASSUME NEW k \in 1..(n + 1), k # 1
            PROVE  p[g[k]].key # p[K].key
        <4>1. PICK l \in 1..n : p[g[k]] = q[f[l]]
          BY <1>5, <3>1
        <4>2. QED
          BY <1>9, <4>1 DEF KeysOf
      <3>2. QED
        BY <1>3, <1>6, <1>9, <2>1, <3>1, Zenon
    <2>2. CASE i # 1 /\ j # 1
      <3>1. PICK k \in 1..n : i = k + 1 /\ p[g[i]] = q[f[k]]
        BY <1>5, <2>2
      <3>2. PICK l \in 1..n : j = l + 1 /\ p[g[j]] = q[f[l]]
        BY <1>5, <2>2
      <3>3. q[f[k]].key = q[f[l]].key
        BY <1>9, <3>1, <3>2
      <3>4. k = l
        BY <1>9, <3>3
      <3>5. QED
        BY <3>1, <3>2, <3>4
    <2>3. QED
      BY <2>1, <2>2
  <1>10. QED
    BY <1>8, <1>9 DEF Distinct

(* A macro is put in front of the queue, with its mark: a new frame.       *)
LEMMA FrontFrames ==
    ASSUME NEW S, NEW q, NEW n, NEW f, NEW o, NEW p, NEW K, NEW g,
           FrontOf(S, p, q, K), Enumerates(f, n, q), IsFront(g, f, n, K)
    PROVE  Pushed(FramesOf(g, n + 1, p, o), Top(p, K), FramesOf(f, n, q, o))
  <1>1. /\ p \in Seq(S) /\ q \in Seq(S) /\ K \in 1..Len(p) /\ Len(p) = K + Len(q) /\ Len(q) \in Nat
        /\ K \in Nat /\ K >= 1
        /\ \A i \in 1..(K - 1) : IsEvent(p[i])
        /\ ~IsEvent(p[K])
        /\ \A i \in 1..Len(q) : p[i + K] = q[i]
    BY LenProperties DEF FrontOf
  <1>2. /\ n \in Nat /\ f \in [1..n -> Nat] /\ \A i, j \in 1..n : i < j => f[i] < f[j]
        /\ \A i \in 1..n : f[i] \in 1..Len(q) /\ ~IsEvent(q[f[i]])
        /\ \A x \in 1..Len(q) : ~IsEvent(q[x]) => \E i \in 1..n : x = f[i]
        /\ \A i \in 1..(n + 1) : Lower(f, i) \in 1..(Len(q) + 1) /\ Upper(f, n, q, i) \in 0..Len(q)
    BY <1>1, MarkPositions
  <1>3. g[1] = K /\ 1 \in 1..(n + 1) /\ n + 1 \in Nat
    BY FrontMarks
  <1>4. \A i \in 1..n : i + 1 \in 1..(n + 1) /\ g[i + 1] = f[i] + K /\ p[g[i + 1]] = q[f[i]]
    BY FrontMarks
  <1>6. p[g[1]] = p[K]
    BY <1>3
  <1> DEFINE F == FramesOf(f, n, q, o)
             G == FramesOf(g, n + 1, p, o)
             x == Top(p, K)
             T == {x} \cup {F[i] : i \in 1..(n + 1)}
  <1>10. F \in Seq(T) /\ Len(F) = n + 1
    <2>1. F \in [1..(n + 1) -> T]
      BY DEF FramesOf
    <2> HIDE DEF F, T
    <2>2. QED
      BY <1>3, <2>1, FunctionIsSeq
  <1>11. G[1] = x
    <2>1. 1 \in 1..((n + 1) + 1) /\ 1 <= n + 1 /\ n + 1 \in Nat
      BY <1>2
    <2>2. G[1] = FrameOf(g, n + 1, p, o, 1)
      BY <2>1, FrameIs
    <2>3. Lower(g, 1) = 1 /\ Upper(g, n + 1, p, 1) = K - 1
      BY <1>1, <1>3, <2>1 DEF Lower, Upper
    <2>4. QED
      BY <1>6, <2>1, <2>2, <2>3 DEF FrameOf, Running, Top
  <1>12. ASSUME NEW i \in 1..(n + 1)
         PROVE  G[i + 1] = F[i]
    <2>1. /\ i + 1 \in 1..((n + 1) + 1) /\ (i + 1 <= n + 1 <=> i <= n) /\ n + 1 \in Nat
          /\ (i <= n => i \in 1..n)
      BY <1>2
    <2>2. G[i + 1] = FrameOf(g, n + 1, p, o, i + 1)
      BY <2>1, FrameIs
    <2>3. F[i] = FrameOf(f, n, q, o, i)
      BY FrameIs
    <2>4. Lower(g, i + 1) = Lower(f, i) + K
      <3>1. i + 1 # 1 /\ (i + 1) - 1 = i
        BY <1>2
      <3>2. Lower(g, i + 1) = g[i] + 1
        BY <3>1 DEF Lower
      <3>3. CASE i = 1
        BY <1>1, <1>3, <3>2, <3>3 DEF Lower
      <3>4. CASE i # 1
        <4>1. i - 1 \in 1..n /\ (i - 1) + 1 = i
          BY <1>2, <3>4
        <4>2. g[(i - 1) + 1] = f[i - 1] + K /\ f[i - 1] \in 1..Len(q)
          BY <1>2, <1>4, <4>1
        <4>3. QED
          BY <1>1, <3>2, <3>4, <4>1, <4>2 DEF Lower
      <3>5. QED
        BY <3>3, <3>4
    <2>5. Upper(g, n + 1, p, i + 1) = Upper(f, n, q, i) + K
      <3>1. CASE i <= n
        <4>1. g[i + 1] = f[i] + K /\ f[i] \in 1..Len(q)
          BY <1>2, <1>4, <2>1, <3>1
        <4>2. QED
          BY <1>1, <2>1, <3>1, <4>1 DEF Upper
      <3>2. CASE ~(i <= n)
        BY <1>1, <2>1, <3>2 DEF Upper
      <3>3. QED
        BY <3>1, <3>2
    <2>6. SubSeq(p, Lower(f, i) + K, Upper(f, n, q, i) + K)
            = SubSeq(q, Lower(f, i), Upper(f, n, q, i))
      <3> DEFINE a == Lower(f, i)
                 b == Upper(f, n, q, i)
      <3>1. a \in 1..(Len(q) + 1) /\ b \in 0..Len(q)
        BY <1>2
      <3> HIDE DEF a, b
      <3>2. \A j \in a..b : q[j] \in S /\ p[j + K] = q[j]
        <4>1. ASSUME NEW j \in a..b
              PROVE  q[j] \in S /\ p[j + K] = q[j]
          <5>1. j \in 1..Len(q)
            BY <1>1, <3>1
          <5>2. q[j] \in S
            BY <1>1, <5>1, ElementOfSeq
          <5>3. QED
            BY <1>1, <5>1, <5>2
        <4>2. QED
          BY <4>1
      <3>3. /\ a \in Int /\ b \in Int /\ a + K \in Int /\ b + K \in Int /\ K \in Int
            /\ p \in Seq(S) /\ q \in Seq(S)
        BY <1>1, <3>1
      <3>4. SubSeq(p, a + K, b + K) = SubSeq(q, a, b)
        BY <3>2, <3>3, SameSubSeq
      <3>5. QED
        BY <3>4 DEF a, b
    <2>7. i <= n => p[g[i + 1]] = q[f[i]]
      BY <1>4, <2>1
    <2>8. QED
      BY <2>1, <2>2, <2>3, <2>4, <2>5, <2>6, <2>7 DEF FrameOf
  <1>13. G = <<x>> \o F
    <2>1. <<x>> \in Seq(T) /\ Len(<<x>>) = 1 /\ <<x>>[1] = x
      OBVIOUS
    <2>2. /\ <<x>> \o F \in Seq(T) /\ Len(<<x>> \o F) = 1 + (n + 1)
          /\ \A i \in 1..1 + (n + 1) : (<<x>> \o F)[i] = IF i <= 1 THEN <<x>>[i] ELSE F[i - 1]
      BY <1>10, <2>1, ConcatProperties
    <2>3. DOMAIN G = 1..((n + 1) + 1) /\ G = [i \in 1..((n + 1) + 1) |-> G[i]]
      BY DEF FramesOf
    <2> HIDE DEF F, G, x, T
    <2>4. ASSUME NEW i \in 1..((n + 1) + 1)
          PROVE  G[i] \in T /\ G[i] = (<<x>> \o F)[i]
      <3>1. CASE i = 1
        BY <1>2, <1>11, <2>1, <2>2, <3>1 DEF T
      <3>2. CASE i # 1
        <4>1. i - 1 \in 1..(n + 1) /\ (i - 1) + 1 = i /\ i \in 1..1 + (n + 1) /\ ~(i <= 1)
          BY <1>2, <3>2
        <4>2. G[i] = F[i - 1]
          BY <1>12, <4>1
        <4>3. QED
          BY <2>2, <4>1, <4>2 DEF T
      <3>3. QED
        BY <3>1, <3>2
    <2>5. G \in Seq(T) /\ Len(G) = (n + 1) + 1
      <3>1. G \in [1..((n + 1) + 1) -> T] /\ (n + 1) + 1 \in Nat
        BY <1>2, <2>3, <2>4
      <3>2. QED
        BY <3>1, FunctionIsSeq
    <2>6. Len(<<x>> \o F) = (n + 1) + 1
      BY <1>2, <2>2
    <2>7. QED
      BY <2>2, <2>4, <2>5, <2>6, SeqEqual
  <1>14. QED
    BY <1>13 DEF Pushed

\* the rest of a queue, and where its marks are then
IsTail(t, q) == t = Tail(q)
IsBack(g, f, n) == g = [i \in 1..n |-> f[i] - 1]
IsPopped(g, f, n) == g = [i \in 1..(n - 1) |-> f[i + 1] - 1]

LEMMA TailIs ==
    ASSUME NEW S, NEW q \in Seq(S), q # <<>>, NEW t, IsTail(t, q)
    PROVE  /\ t \in Seq(S) /\ Len(t) \in Nat /\ Len(q) = Len(t) + 1 /\ q[1] \in S /\ Head(q) = q[1]
           /\ \A i \in 1..Len(t) : t[i] = q[i + 1] /\ t[i] \in S
  <1>1. /\ t \in Seq(S) /\ Len(t) = Len(q) - 1 /\ \A i \in 1..Len(t) : t[i] = q[i + 1]
    BY HeadTailProperties DEF IsTail
  <1>2. Len(q) \in Nat /\ Len(q) # 0
    BY EmptySeq, LenProperties
  <1>3. Len(t) \in Nat /\ Len(q) = Len(t) + 1 /\ 1 \in 1..Len(q)
    BY <1>1, <1>2
  <1>4. q[1] \in S /\ \A i \in 1..Len(t) : t[i] \in S
    BY <1>1, <1>3, ElementOfSeq
  <1>5. Head(q) = q[1]
    BY DEF Head
  <1>6. QED
    BY <1>1, <1>3, <1>4, <1>5

(* G is F after the first frame has sent e.                                *)
IsSent(F, G, e) ==
    F[1].rest # <<>> /\ Head(F[1].rest) = e /\ G = [F EXCEPT ![1].rest = Tail(@)]

(* An event is taken from the queue: the first frame has one less.         *)
LEMMA SentFrames ==
    ASSUME NEW S, NEW q \in Seq(S), q # <<>>, IsEvent(q[1]), NEW n, NEW f, Enumerates(f, n, q),
           NEW o, NEW t, IsTail(t, q), NEW g, IsBack(g, f, n)
    PROVE  /\ Enumerates(g, n, t) /\ \A i \in 1..n : t[g[i]] = q[f[i]]
           /\ IsSent(FramesOf(f, n, q, o), FramesOf(g, n, t, o), q[1])
  <1>1. /\ t \in Seq(S) /\ Len(t) \in Nat /\ Len(q) = Len(t) + 1 /\ q[1] \in S
        /\ \A i \in 1..Len(t) : t[i] = q[i + 1] /\ t[i] \in S
    BY TailIs
  <1>2. /\ n \in Nat /\ f \in [1..n -> Nat] /\ \A i, j \in 1..n : i < j => f[i] < f[j]
        /\ \A i \in 1..n : f[i] \in 1..Len(q) /\ ~IsEvent(q[f[i]])
        /\ \A x \in 1..Len(q) : ~IsEvent(q[x]) => \E i \in 1..n : x = f[i]
        /\ \A i \in 1..(n + 1) : Lower(f, i) \in 1..(Len(q) + 1) /\ Upper(f, n, q, i) \in 0..Len(q)
    BY MarkPositions
  <1>3. ASSUME NEW i \in 1..n
        PROVE  /\ f[i] \in 2..Len(q) /\ g[i] = f[i] - 1 /\ g[i] \in 1..Len(t)
               /\ t[g[i]] = q[f[i]]
    <2>1. f[i] \in 1..Len(q) /\ f[i] # 1
      BY <1>2
    <2>2. g[i] = f[i] - 1 /\ g[i] \in 1..Len(t) /\ g[i] + 1 = f[i]
      BY <1>1, <2>1 DEF IsBack
    <2>3. QED
      BY <1>1, <2>1, <2>2
  <1>4. Enumerates(g, n, t)
    <2>1. g \in [1..n -> 1..Len(t)]
      BY <1>3 DEF IsBack
    <2>2. ASSUME NEW i \in 1..n, NEW j \in 1..n, i < j
          PROVE  g[i] < g[j]
      <3>1. f[i] < f[j] /\ f[i] \in 2..Len(q) /\ f[j] \in 2..Len(q)
        BY <1>2, <1>3, <2>2
      <3>2. g[i] = f[i] - 1 /\ g[j] = f[j] - 1
        BY <1>3
      <3>3. QED
        BY <3>1, <3>2
    <2>3. \A i \in 1..n : ~IsEvent(t[g[i]])
      BY <1>2, <1>3
    <2>4. ASSUME NEW x \in 1..Len(t), ~IsEvent(t[x])
          PROVE  \E i \in 1..n : x = g[i]
      <3>1. x + 1 \in 1..Len(q) /\ ~IsEvent(q[x + 1])
        BY <1>1, <2>4
      <3>2. PICK i \in 1..n : x + 1 = f[i]
        BY <1>2, <3>1
      <3>3. x = g[i]
        BY <1>3, <3>2
      <3>4. QED
        BY <3>3
    <2>5. n \in Nat
      BY <1>2
    <2>6. QED
      BY <1>1, <2>1, <2>2, <2>3, <2>4, <2>5, EnumeratesFrom
  <1> DEFINE F == FramesOf(f, n, q, o)
             G == FramesOf(g, n, t, o)
  <1>5. 1 \in 1..(n + 1) /\ F[1] = FrameOf(f, n, q, o, 1) /\ G[1] = FrameOf(g, n, t, o, 1)
    BY <1>2, FrameIs
  <1> DEFINE u == Upper(f, n, q, 1)
  <1>6. Lower(f, 1) = 1 /\ Lower(g, 1) = 1 /\ u \in 1..Len(q) /\ Upper(g, n, t, 1) = u - 1
    <2>1. CASE 1 <= n
      <3>1. 1 \in 1..n
        BY <1>2, <2>1
      <3>2. f[1] \in 2..Len(q) /\ g[1] = f[1] - 1
        BY <1>3, <3>1
      <3>3. QED
        BY <1>1, <2>1, <3>2 DEF Lower, Upper
    <2>2. CASE ~(1 <= n)
      BY <1>1, <2>2 DEF Lower, Upper
    <2>3. QED
      BY <2>1, <2>2
  <1>7. F[1].rest = SubSeq(q, 1, u) /\ G[1].rest = SubSeq(t, 1, u - 1)
    <2>1. F[1].rest = Span(f, n, q, 1) /\ G[1].rest = Span(g, n, t, 1)
      <3> HIDE DEF F, G
      <3>1. QED
        BY <1>5, FrameRest
    <2>2. QED
      BY <1>6, <2>1, Zenon DEF Span
  <1> HIDE DEF u
  <1>8. SubSeq(q, 1, u) # <<>> /\ Head(SubSeq(q, 1, u)) = q[1]
        /\ Tail(SubSeq(q, 1, u)) = SubSeq(q, 2, u)
    <2>1. \A i \in 1..u : q[i] \in S
      BY <1>6, ElementOfSeq
    <2>2. u \in Int /\ 1 \in 1..Len(q) /\ 1 <= u /\ u - 1 + 1 # 0 /\ 1 \in Int
      BY <1>1, <1>6
    <2>3. Len(SubSeq(q, 1, u)) = u - 1 + 1
      BY <2>1, <2>2, SubSeqProperties
    <2>4. SubSeq(q, 1, u) # <<>>
      <3>1. Len(<<>>) = 0
        BY EmptySeq
      <3>2. QED
        BY <2>2, <2>3, <3>1
    <2>5. Head(SubSeq(q, 1, u)) = q[1] /\ Tail(SubSeq(q, 1, u)) = SubSeq(q, 1 + 1, u)
      BY <1>6, <2>2, HeadTailOfSubSeq, Zenon
    <2>6. 1 + 1 = 2
      OBVIOUS
    <2>7. QED
      BY <2>4, <2>5, <2>6, Zenon
  <1>9. ASSUME NEW a \in 1..(Len(t) + 1), NEW b \in 0..Len(t)
        PROVE  SubSeq(q, a + 1, b + 1) = SubSeq(t, a, b)
    <2>1. \A i \in a..b : t[i] \in S /\ q[i + 1] = t[i]
      BY <1>1
    <2>2. a \in Int /\ b \in Int /\ a + 1 \in Int /\ b + 1 \in Int /\ 1 \in Int /\ t \in Seq(S)
      BY <1>1
    <2>3. QED
      BY <2>1, <2>2, SameSubSeq
  <1>10. G[1].rest = Tail(F[1].rest)
    <2>1. SubSeq(q, 1 + 1, (u - 1) + 1) = SubSeq(t, 1, u - 1)
      <3>1. 1 \in 1..(Len(t) + 1) /\ u - 1 \in 0..Len(t)
        BY <1>1, <1>6
      <3>2. QED
        BY <1>9, <3>1
    <2>2. (u - 1) + 1 = u /\ 1 + 1 = 2
      BY <1>6
    <2>3. QED
      BY <1>7, <1>8, <2>1, <2>2
  <1>11. G[1].id = F[1].id
    <2>1. 1 <= n => t[g[1]] = q[f[1]]
      <3>1. 1 <= n => 1 \in 1..n
        BY <1>2
      <3>2. QED
        BY <1>3, <3>1
    <2>2. QED
      <3>1. CASE 1 <= n
        <4>1. FrameOf(g, n, t, o, 1).id = t[g[1]].key /\ FrameOf(f, n, q, o, 1).id = q[f[1]].key
          BY <3>1 DEF FrameOf
        <4>2. QED
          BY <1>5, <2>1, <3>1, <4>1, Zenon
      <3>2. CASE ~(1 <= n)
        <4>1. FrameOf(g, n, t, o, 1).id = o /\ FrameOf(f, n, q, o, 1).id = o
          BY <3>2 DEF FrameOf
        <4>2. QED
          BY <1>5, <4>1, Zenon
      <3>3. QED
        BY <3>1, <3>2
  <1>12. ASSUME NEW i \in 1..(n + 1), i # 1
         PROVE  G[i] = F[i]
    <2>1. G[i] = FrameOf(g, n, t, o, i) /\ F[i] = FrameOf(f, n, q, o, i)
      BY FrameIs
    <2>2. i <= n => t[g[i]] = q[f[i]]
      BY <1>2, <1>3
    <2> DEFINE a == Lower(g, i)
               b == Upper(g, n, t, i)
    <2>3. a \in 1..(Len(t) + 1) /\ b \in 0..Len(t)
      BY <1>1, <1>4, MarkPositions
    <2>4. Lower(f, i) = a + 1
      <3>1. i - 1 \in 1..n
        BY <1>2, <1>12
      <3>2. g[i - 1] = f[i - 1] - 1 /\ f[i - 1] \in 2..Len(q)
        BY <1>3, <3>1
      <3>3. QED
        BY <1>12, <3>2 DEF Lower
    <2>5. Upper(f, n, q, i) = b + 1
      <3>1. CASE i <= n
        <4>1. g[i] = f[i] - 1 /\ f[i] \in 2..Len(q)
          <5>1. i \in 1..n
            BY <1>2, <3>1
          <5>2. QED
            BY <1>3, <5>1
        <4>2. QED
          BY <3>1, <4>1 DEF Upper
      <3>2. CASE ~(i <= n)
        BY <1>1, <3>2 DEF Upper
      <3>3. QED
        BY <3>1, <3>2
    <2> HIDE DEF a, b
    <2>6. SubSeq(q, a + 1, b + 1) = SubSeq(t, a, b)
      BY <1>9, <2>3
    <2>7. SubSeq(q, Lower(f, i), Upper(f, n, q, i)) = SubSeq(t, Lower(g, i), Upper(g, n, t, i))
      BY <2>4, <2>5, <2>6 DEF a, b
    <2>8. QED
      BY <2>1, <2>2, <2>7 DEF FrameOf
  <1>13. G = [F EXCEPT ![1].rest = Tail(@)]
    <2>1. DOMAIN G = 1..(n + 1) /\ G = [i \in 1..(n + 1) |-> G[i]]
          /\ DOMAIN F = 1..(n + 1) /\ F = [i \in 1..(n + 1) |-> F[i]]
      BY DEF FramesOf
    <2>2. F[1] = [id |-> F[1].id, rest |-> F[1].rest] /\ G[1] = [id |-> G[1].id, rest |-> G[1].rest]
      BY <1>5 DEF FrameOf
    <2> HIDE DEF F, G
    <2>3. [F[1] EXCEPT !.rest = Tail(@)] = G[1]
      BY <1>10, <1>11, <2>2
    <2>4. \A i \in 1..(n + 1) : G[i] = [F EXCEPT ![1] = [F[1] EXCEPT !.rest = Tail(@)]][i]
      BY <1>12, <2>1, <2>3
    <2>5. QED
      BY <2>1, <2>4
  <1>14. QED
    BY <1>3, <1>4, <1>7, <1>8, <1>13 DEF IsSent

(* A mark is taken from the queue: the first frame, which is empty, goes.  *)
LEMMA ReturnedFrames ==
    ASSUME NEW S, NEW q \in Seq(S), q # <<>>, ~IsEvent(q[1]), NEW n, NEW f, Enumerates(f, n, q),
           NEW o, NEW t, IsTail(t, q), NEW g, IsPopped(g, f, n)
    PROVE  /\ n \in Nat \ {0} /\ f[1] = 1 /\ Enumerates(g, n - 1, t)
           /\ \A i \in 1..(n - 1) : i + 1 \in 1..n /\ t[g[i]] = q[f[i + 1]]
           /\ Pushed(FramesOf(f, n, q, o), Running(q[1].key, <<>>), FramesOf(g, n - 1, t, o))
  <1>1. /\ t \in Seq(S) /\ Len(t) \in Nat /\ Len(q) = Len(t) + 1 /\ q[1] \in S
        /\ \A i \in 1..Len(t) : t[i] = q[i + 1] /\ t[i] \in S
    BY TailIs
  <1>2. /\ n \in Nat /\ f \in [1..n -> Nat] /\ \A i, j \in 1..n : i < j => f[i] < f[j]
        /\ \A i \in 1..n : f[i] \in 1..Len(q) /\ ~IsEvent(q[f[i]])
        /\ \A x \in 1..Len(q) : ~IsEvent(q[x]) => \E i \in 1..n : x = f[i]
    BY MarkPositions
  <1>3. n \in Nat \ {0} /\ f[1] = 1
    <2>1. 1 \in 1..Len(q)
      BY <1>1
    <2>2. PICK i \in 1..n : f[i] = 1
      BY <1>2, <2>1
    <2>3. 1 \in 1..n /\ f[1] \in 1..Len(q)
      BY <1>2
    <2>4. i = 1
      <3>1. 1 < i => f[1] < f[i]
        BY <1>2, <2>3
      <3>2. QED
        BY <1>2, <2>2, <2>3, <3>1
    <2>5. QED
      BY <1>2, <2>2, <2>4
  <1>4. ASSUME NEW i \in 1..(n - 1)
        PROVE  /\ i + 1 \in 1..n /\ f[i + 1] \in 2..Len(q) /\ g[i] = f[i + 1] - 1
               /\ g[i] \in 1..Len(t) /\ t[g[i]] = q[f[i + 1]]
    <2>1. i + 1 \in 1..n /\ 1 \in 1..n /\ 1 < i + 1
      BY <1>3
    <2>2. f[i + 1] \in 1..Len(q) /\ f[1] < f[i + 1]
      BY <1>2, <2>1
    <2>3. f[i + 1] \in 2..Len(q)
      BY <1>1, <1>3, <2>2
    <2>4. g[i] = f[i + 1] - 1 /\ g[i] \in 1..Len(t) /\ g[i] + 1 = f[i + 1]
      BY <1>1, <2>3 DEF IsPopped
    <2>5. QED
      BY <1>1, <2>1, <2>3, <2>4
  <1>5. Enumerates(g, n - 1, t)
    <2>1. g \in [1..(n - 1) -> 1..Len(t)]
      BY <1>4 DEF IsPopped
    <2>2. ASSUME NEW i \in 1..(n - 1), NEW j \in 1..(n - 1), i < j
          PROVE  g[i] < g[j]
      <3>1. i + 1 \in 1..n /\ j + 1 \in 1..n /\ i + 1 < j + 1
        BY <1>3, <2>2
      <3>2. f[i + 1] < f[j + 1] /\ f[i + 1] \in 2..Len(q) /\ f[j + 1] \in 2..Len(q)
        BY <1>2, <1>4, <3>1
      <3>3. g[i] = f[i + 1] - 1 /\ g[j] = f[j + 1] - 1
        BY <1>4
      <3>4. QED
        BY <3>2, <3>3
    <2>3. \A i \in 1..(n - 1) : ~IsEvent(t[g[i]])
      BY <1>2, <1>4
    <2>4. ASSUME NEW x \in 1..Len(t), ~IsEvent(t[x])
          PROVE  \E i \in 1..(n - 1) : x = g[i]
      <3>1. x + 1 \in 1..Len(q) /\ ~IsEvent(q[x + 1])
        BY <1>1, <2>4
      <3>2. PICK i \in 1..n : x + 1 = f[i]
        BY <1>2, <3>1
      <3>3. i # 1
        BY <1>3, <3>2
      <3>4. i - 1 \in 1..(n - 1) /\ (i - 1) + 1 = i
        BY <1>3, <3>3
      <3>5. x = g[i - 1]
        BY <1>4, <3>2, <3>4
      <3>6. QED
        BY <3>4, <3>5
    <2>5. n - 1 \in Nat
      BY <1>3
    <2>6. QED
      BY <1>1, <2>1, <2>2, <2>3, <2>4, <2>5, EnumeratesFrom
  <1>6. PICK m : m = n - 1
    OBVIOUS
  <1>7. PICK k : k = 1
    OBVIOUS
  <1>8. IsFront(f, g, m, k) /\ m + 1 = n
    <2>1. m + 1 = n
      BY <1>3, <1>6
    <2>2. ASSUME NEW i \in 1..n
          PROVE  f[i] = IF i = 1 THEN k ELSE g[i - 1] + k
      <3>1. CASE i = 1
        BY <1>3, <1>7, <3>1
      <3>2. CASE i # 1
        <4>1. i - 1 \in 1..(n - 1) /\ (i - 1) + 1 = i
          BY <1>3, <3>2
        <4>2. g[i - 1] = f[i] - 1 /\ f[i] \in 2..Len(q)
          BY <1>4, <4>1
        <4>3. QED
          BY <1>7, <3>2, <4>2
      <3>3. QED
        BY <3>1, <3>2
    <2>3. QED
      BY <1>2, <2>1, <2>2 DEF IsFront
  <1>9. FrontOf(S, q, t, k)
    BY <1>1, <1>7 DEF FrontOf
  <1>10. Enumerates(g, m, t)
    BY <1>5, <1>6
  <1>11. Pushed(FramesOf(f, m + 1, q, o), Top(q, k), FramesOf(g, m, t, o))
    BY <1>8, <1>9, <1>10, FrontFrames
  <1>12. Top(q, k) = Running(q[1].key, <<>>)
    <2>1. SubSeq(q, 1, k - 1) = <<>> /\ q[k] = q[1]
      BY <1>7, SubSeqEmpty
    <2>2. QED
      BY <2>1 DEF Top
  <1>13. QED
    <2>1. Pushed(FramesOf(f, n, q, o), Running(q[1].key, <<>>), FramesOf(g, n - 1, t, o))
      BY <1>6, <1>8, <1>11, <1>12
    <2>2. QED
      BY <1>3, <1>4, <1>5, <2>1
-----------------------------------------------------------------------------
(* A replay p is a stack: its marks are of different macros, and the       *)
(* active macros are those with a mark and one more, o.                    *)
StackOf(f, n, o, p) ==
    /\ Enumerates(f, n, p.items) /\ Distinct(f, n, p.items)
    /\ p.active = {o} \cup KeysOf(f, n, p.items) /\ o \notin KeysOf(f, n, p.items)
IsStack(p) == p.on => \E f, n, o : StackOf(f, n, o, p)
QItem == KeyItem \cup EndItem

LEMMA FramesAre ==
    ASSUME NEW p \in Replays, p.on, NEW f, NEW n, NEW o, StackOf(f, n, o, p)
    PROVE  Frames(p) = FramesOf(f, n, p.items, o)
  <1> DEFINE q == p.items
  <1>1. n \in Nat /\ Increasing(f, n) /\ Marks(q) = {f[i] : i \in 1..n}
    BY DEF StackOf, Enumerates
  <1>2. Nesting(q) = n /\ \A i \in 1..n : End(q, i) = f[i]
    <2> DEFINE M == Marks(q)
    <2>1. Nesting(q) = Cardinality(M)
          /\ \A i \in 1..n : End(q, i) = Ranked(M, i)
      BY DEF Nesting, End, Ranked
    <2>2. M = {f[i] : i \in 1..n}
      BY <1>1
    <2> HIDE DEF M
    <2>3. Cardinality(M) = n /\ \A i \in 1..n : Ranked(M, i) = f[i]
      BY <1>1, <2>2, Ranks
    <2>4. QED
      BY <2>1, <2>3
  <1>3. Marked(q) = KeysOf(f, n, q)
    BY <1>1 DEF Marked, KeysOf
  <1>4. Outermost(p) = o
    <2>1. o \in p.active /\ o \notin Marked(q) /\ \A x \in p.active : x \notin Marked(q) => x = o
      BY <1>3 DEF StackOf
    <2>2. p.active # Marked(q)
      BY <2>1
    <2>3. (CHOOSE id \in p.active : id \notin Marked(q)) = o
      BY <2>1
    <2>4. QED
      BY <2>2, <2>3 DEF Outermost
  <1>5. ASSUME NEW i \in 1..(n + 1)
        PROVE  Frame(p, i) = FrameOf(f, n, q, o, i)
    <2>1. (i # 1 => i - 1 \in 1..n) /\ (i <= n => i \in 1..n)
      BY <1>1
    <2>2. (i # 1 => End(q, i - 1) = f[i - 1]) /\ (i <= n => End(q, i) = f[i])
      BY <1>2, <2>1
    <2> HIDE DEF q
    <2>3. Frame(p, i) =
            [id   |-> IF i <= Nesting(q) THEN q[End(q, i)].key ELSE Outermost(p),
             rest |-> SubSeq(q, IF i = 1 THEN 1 ELSE End(q, i - 1) + 1,
                                IF i <= Nesting(q) THEN End(q, i) - 1 ELSE Len(q))]
      BY DEF Frame, q
    <2>4. (IF i = 1 THEN 1 ELSE End(q, i - 1) + 1) = Lower(f, i)
      BY <2>2 DEF Lower
    <2>5. (IF i <= Nesting(q) THEN End(q, i) - 1 ELSE Len(q)) = Upper(f, n, q, i)
      BY <1>2, <2>2 DEF Upper
    <2>6. (IF i <= Nesting(q) THEN q[End(q, i)].key ELSE Outermost(p)) = IF i <= n THEN q[f[i]].key ELSE o
      BY <1>2, <1>4, <2>2
    <2>7. QED
      BY <2>3, <2>4, <2>5, <2>6 DEF FrameOf
  <1>6. Frames(p) = [i \in 1..(Nesting(q) + 1) |-> Frame(p, i)]
    BY DEF Frames
  <1>7. QED
    BY <1>2, <1>5, <1>6 DEF FramesOf

\* a macro is put before a queue, with its mark
IsPlayed(p, m, e, q, K) == p = (m \o <<e>>) \o q /\ K = Len(m) + 1
OnlyEvents(m) == \A i \in 1..Len(m) : IsEvent(m[i])

LEMMA PlayedQueue ==
    ASSUME NEW S, NEW m \in Seq(S), NEW e \in S, NEW q \in Seq(S), NEW p, NEW K,
           IsPlayed(p, m, e, q, K), OnlyEvents(m), ~IsEvent(e)
    PROVE  FrontOf(S, p, q, K) /\ p[K] = e /\ Top(p, K) = Running(e.key, m)
  <1> DEFINE L == Len(m)
  <1>0. p = (m \o <<e>>) \o q /\ K = L + 1 /\ \A i \in 1..L : IsEvent(m[i])
    BY DEF IsPlayed, OnlyEvents
  <1>1. /\ p \in Seq(S) /\ Len(p) = L + 1 + Len(q) /\ L \in Nat /\ Len(q) \in Nat
        /\ \A i \in 1..L : p[i] = m[i]
        /\ p[L + 1] = e
        /\ \A i \in 1..Len(q) : p[i + (L + 1)] = q[i]
    <2>1. <<e>> \in Seq(S) /\ Len(<<e>>) = 1 /\ <<e>>[1] = e
      OBVIOUS
    <2>2. /\ m \o <<e>> \in Seq(S) /\ Len(m \o <<e>>) = L + 1 /\ L \in Nat /\ Len(q) \in Nat
          /\ \A i \in 1..L + 1 : (m \o <<e>>)[i] = IF i <= L THEN m[i] ELSE <<e>>[i - L]
      BY <2>1, ConcatProperties
    <2> DEFINE me == m \o <<e>>
    <2>3. (\A i \in 1..L : me[i] = m[i]) /\ me[L + 1] = e
      <3>1. \A i \in 1..L : i \in 1..L + 1 /\ i <= L
        BY <2>2
      <3>2. L + 1 \in 1..L + 1 /\ ~(L + 1 <= L) /\ (L + 1) - L = 1
        BY <2>2
      <3>3. QED
        BY <2>1, <2>2, <3>1, <3>2
    <2> HIDE DEF me
    <2>4. p = me \o q /\ me \in Seq(S) /\ Len(me) = L + 1
      BY <1>0, <2>2 DEF me
    <2>5. /\ p \in Seq(S) /\ Len(p) = (L + 1) + Len(q)
          /\ \A i \in 1..(L + 1) + Len(q) : p[i] = IF i <= L + 1 THEN me[i] ELSE q[i - (L + 1)]
      <3>1. me \in Seq(S) /\ Len(me) = L + 1
        BY <2>4
      <3>2. /\ me \o q \in Seq(S) /\ Len(me \o q) = Len(me) + Len(q)
            /\ \A i \in 1..Len(me) + Len(q) :
                 (me \o q)[i] = IF i <= Len(me) THEN me[i] ELSE q[i - Len(me)]
        BY <3>1, ConcatProperties
      <3>3. QED
        BY <2>4, <3>1, <3>2
    <2> HIDE DEF L
    <2>6. \A i \in 1..L + 1 : p[i] = me[i]
      BY <2>2, <2>5
    <2>7. ASSUME NEW i \in 1..Len(q)
          PROVE  p[i + (L + 1)] = q[i]
      <3>1. i + (L + 1) \in 1..(L + 1) + Len(q) /\ ~(i + (L + 1) <= L + 1)
            /\ (i + (L + 1)) - (L + 1) = i
        BY <2>2
      <3>2. QED
        BY <2>5, <3>1
    <2>8. L \in Nat /\ Len(q) \in Nat
      BY <2>2
    <2>9. p \in Seq(S) /\ Len(p) = L + 1 + Len(q)
      BY <2>5
    <2>10. (\A i \in 1..L : p[i] = m[i]) /\ p[L + 1] = e
      <3>1. L + 1 \in 1..L + 1 /\ \A i \in 1..L : i \in 1..L + 1
        BY <2>8
      <3>2. QED
        BY <2>3, <2>6, <3>1
    <2>11. QED
      BY <2>7, <2>8, <2>9, <2>10
  <1>2. K = L + 1
    BY <1>0
  <1> HIDE DEF L
  <1>3. FrontOf(S, p, q, K) /\ p[K] = e
    <2>1. \A i \in 1..(K - 1) : IsEvent(p[i])
      BY <1>0, <1>1, <1>2
    <2>2. K \in 1..Len(p) /\ Len(p) = K + Len(q) /\ p[K] = e
      BY <1>1, <1>2
    <2>3. \A i \in 1..Len(q) : p[i + K] = q[i]
      BY <1>1, <1>2
    <2>4. QED
      BY <1>1, <2>1, <2>2, <2>3 DEF FrontOf
  <1>4. SubSeq(p, 1, K - 1) = SubSeq(m, 1, L)
    <2>1. \A i \in 1..L : m[i] \in S /\ p[i + 0] = m[i]
      <3>1. \A i \in 1..L : m[i] \in S
        BY ElementOfSeq DEF L
      <3>2. \A i \in 1..L : i + 0 = i
        BY <1>1
      <3>3. QED
        BY <1>1, <3>1, <3>2
    <2>2. K - 1 = L + 0 /\ 1 = 1 + 0 /\ 0 \in Int /\ 1 \in Int /\ L \in Int /\ K - 1 \in Int
      BY <1>1, <1>2
    <2>3. QED
      BY <1>1, <2>1, <2>2, SameSubSeq
  <1>5. SubSeq(m, 1, L) = m
    BY SubSeqFull DEF L
  <1>6. QED
    BY <1>3, <1>4, <1>5 DEF Top

\* the frames are those of active macros
LEMMA FrameIds ==
    ASSUME NEW p \in Replays, p.on, NEW f, NEW n, NEW o, StackOf(f, n, o, p)
    PROVE  \A i \in DOMAIN Frames(p) : Frames(p)[i].id \in p.active
  <1> DEFINE F == FramesOf(f, n, p.items, o)
  <1>1. Frames(p) = F
    BY FramesAre
  <1>2. DOMAIN F = 1..(n + 1) /\ n \in Nat
    BY DEF FramesOf, StackOf, Enumerates
  <1>3. ASSUME NEW i \in 1..(n + 1)
        PROVE  F[i].id \in p.active
    <2>1. F[i] = FrameOf(f, n, p.items, o, i)
      BY FrameIs
    <2>2. F[i].id = IF i <= n THEN p.items[f[i]].key ELSE o
      BY <2>1 DEF FrameOf
    <2>3. i <= n => i \in 1..n
      BY <1>2
    <2>4. i <= n => p.items[f[i]].key \in KeysOf(f, n, p.items)
      BY <2>3 DEF KeysOf
    <2>5. QED
      BY <2>2, <2>4 DEF StackOf
  <1>4. QED
    BY <1>1, <1>2, <1>3

LEMMA SameStack ==
    ASSUME NEW p \in Replays, NEW r \in Replays, IsStack(p),
           r.on = p.on, r.items = p.items, r.active = p.active
    PROVE  IsStack(r) /\ Frames(r) = Frames(p)
  <1>1. IsStack(r)
    BY DEF IsStack, StackOf
  <1>2. CASE ~p.on
    BY <1>1, <1>2 DEF Frames
  <1>3. CASE p.on
    <2>1. PICK f, n, o : StackOf(f, n, o, p)
      BY <1>3 DEF IsStack
    <2>2. StackOf(f, n, o, r)
      BY <2>1 DEF StackOf
    <2>3. Frames(p) = FramesOf(f, n, p.items, o)
      BY <1>3, <2>1, FramesAre
    <2>4. r.on
      BY <1>3
    <2>5. Frames(r) = FramesOf(f, n, r.items, o)
      <3>1. QED
        BY <2>2, <2>4, FramesAre
    <2>6. QED
      BY <1>1, <2>3, <2>5
  <1>4. QED
    BY <1>2, <1>3

\* no marks: one frame
LEMMA OneFrame ==
    ASSUME NEW S, NEW q \in Seq(S), \A i \in 1..Len(q) : IsEvent(q[i])
    PROVE  \E f : /\ Enumerates(f, 0, q) /\ Distinct(f, 0, q) /\ KeysOf(f, 0, q) = {}
                  /\ \A o : FramesOf(f, 0, q, o) = <<Running(o, q)>>
  <1> DEFINE f == [i \in 1..0 |-> 0]
  <1>1. Enumerates(f, 0, q)
    <2>1. DOMAIN q = 1..Len(q)
      BY LenProperties
    <2>2. Marks(q) = {}
      BY <2>1 DEF Marks
    <2>3. Increasing(f, 0)
      BY DEF Increasing
    <2>4. {f[i] : i \in 1..0} = {}
      OBVIOUS
    <2>5. QED
      BY <2>2, <2>3, <2>4 DEF Enumerates
  <1>2. Distinct(f, 0, q) /\ KeysOf(f, 0, q) = {}
    BY DEF Distinct, KeysOf
  <1>3. ASSUME NEW o
        PROVE  FramesOf(f, 0, q, o) = <<Running(o, q)>>
    <2>1. FrameOf(f, 0, q, o, 1) = Running(o, q)
      <3>1. Lower(f, 1) = 1 /\ Upper(f, 0, q, 1) = Len(q)
        BY DEF Lower, Upper
      <3>2. SubSeq(q, 1, Len(q)) = q
        BY SubSeqFull
      <3>3. QED
        BY <3>1, <3>2 DEF FrameOf, Running
    <2>2. FramesOf(f, 0, q, o) = [i \in 1..1 |-> FrameOf(f, 0, q, o, i)]
      BY DEF FramesOf
    <2>3. \A i \in 1..1 : FrameOf(f, 0, q, o, i) = Running(o, q)
      BY <2>1
    <2>4. FramesOf(f, 0, q, o) = [i \in 1..1 |-> Running(o, q)]
      BY <2>2, <2>3
    <2>5. QED
      BY <2>4
  <1> HIDE DEF f
  <1>4. QED
    BY <1>1, <1>2, <1>3

(* Playing a macro calls it: a new frame in front of the others, none of   *)
(* which is of the same macro.                                             *)
LEMMA PlayCalls ==
    ASSUME MacroConstants, NEW p \in Replays, IsStack(p), NEW m, MacrosOK(m),
           NEW id \in DOMAIN m, id \notin p.active, NEW r, r = PlayMacro(p, id, m)
    PROVE  /\ IsStack(r)
           /\ Frames(r) = <<Running(id, m[id])>> \o Frames(p)
           /\ \A i \in DOMAIN Frames(p) : Frames(p)[i].id # id
  <1>1. r \in Replays /\ id \in Ids
    BY PlayType DEF MacrosOK
  <1>2. m[id] \in Seq(KeyItem) /\ m[id] \in Seq(QItem) /\ p.items \in Seq(QItem)
    BY SeqMonotonic DEF MacrosOK, QItem, Replays
  <1>3. \A i \in 1..Len(m[id]) : IsEvent(m[id][i])
    <2>1. \A i \in 1..Len(m[id]) : m[id][i] \in KeyItem
      BY <1>2, ElementOfSeq
    <2>2. QED
      BY <2>1 DEF IsEvent, KeyItem
  <1>4. CASE ~p.on
    <2>1. r = [on |-> TRUE, active |-> {id}, left |-> 0, items |-> m[id]]
      BY <1>4 DEF PlayMacro
    <2>2. PICK f : /\ Enumerates(f, 0, m[id]) /\ Distinct(f, 0, m[id]) /\ KeysOf(f, 0, m[id]) = {}
                   /\ \A o : FramesOf(f, 0, m[id], o) = <<Running(o, m[id])>>
      BY <1>2, <1>3, OneFrame
    <2>3. r.on /\ r.items = m[id] /\ r.active = {id}
      BY <2>1
    <2>4. StackOf(f, 0, id, r)
      BY <2>2, <2>3 DEF StackOf
    <2>5. Frames(r) = <<Running(id, m[id])>>
      BY <1>1, <2>2, <2>3, <2>4, FramesAre
    <2>6. Frames(p) = <<>>
      BY <1>4 DEF Frames
    <2>7. <<Running(id, m[id])>> \o <<>> = <<Running(id, m[id])>>
      BY ConcatEmptySeq
    <2>8. DOMAIN <<>> = {}
      OBVIOUS
    <2>9. QED
      BY <2>4, <2>5, <2>6, <2>7, <2>8 DEF IsStack
  <1>5. CASE p.on
    <2> DEFINE e == EndMacro(id)
               K == Len(m[id]) + 1
    <2>1. PICK f, n, o : StackOf(f, n, o, p)
      BY <1>5 DEF IsStack
    <2>2. e \in QItem /\ ~IsEvent(e) /\ e.key = id
      BY <1>1 DEF EndMacro, Item, IsEvent, EndItem, QItem
    <2>3. r.on /\ r.items = (m[id] \o <<e>>) \o p.items /\ r.active = p.active \cup {id}
      BY <1>5 DEF PlayMacro, Replays
    <2> HIDE DEF e
    <2>31. IsPlayed(r.items, m[id], e, p.items, K) /\ OnlyEvents(m[id])
      BY <1>3, <2>3 DEF IsPlayed, OnlyEvents
    <2> HIDE DEF K
    <2>4. FrontOf(QItem, r.items, p.items, K) /\ r.items[K] = e /\ Top(r.items, K) = Running(e.key, m[id])
      BY <1>2, <2>2, <2>31, PlayedQueue
    <2>41. Top(r.items, K) = Running(id, m[id])
      BY <2>2, <2>4
    <2>5. PICK g : IsFront(g, f, n, K)
      BY DEF IsFront
    <2>6. Enumerates(f, n, p.items) /\ Distinct(f, n, p.items)
          /\ p.active = {o} \cup KeysOf(f, n, p.items) /\ o \notin KeysOf(f, n, p.items)
      BY <2>1 DEF StackOf
    <2>7. Enumerates(g, n + 1, r.items)
      BY <2>4, <2>5, <2>6, FrontMarks
    <2>8. /\ KeysOf(g, n + 1, r.items) = {r.items[K].key} \cup KeysOf(f, n, p.items)
          /\ Distinct(f, n, p.items) /\ r.items[K].key \notin KeysOf(f, n, p.items)
             => Distinct(g, n + 1, r.items)
      BY <2>4, <2>5, <2>6, FrontKeys
    <2>9. r.items[K].key = id /\ id \notin KeysOf(f, n, p.items) /\ id # o
      BY <2>2, <2>4, <2>6
    <2>10. StackOf(g, n + 1, o, r)
      BY <2>3, <2>6, <2>7, <2>8, <2>9 DEF StackOf
    <2>11. Pushed(FramesOf(g, n + 1, r.items, o), Top(r.items, K), FramesOf(f, n, p.items, o))
      BY <2>4, <2>5, <2>6, FrontFrames
    <2>12. Frames(r) = FramesOf(g, n + 1, r.items, o)
      BY <1>1, <2>3, <2>10, FramesAre
    <2>13. Frames(p) = FramesOf(f, n, p.items, o)
      BY <1>5, <2>1, FramesAre
    <2>14. Frames(r) = <<Running(id, m[id])>> \o Frames(p)
      BY <2>41, <2>11, <2>12, <2>13 DEF Pushed
    <2>15. \A i \in DOMAIN Frames(p) : Frames(p)[i].id # id
      <3>1. \A i \in DOMAIN Frames(p) : Frames(p)[i].id \in p.active
        BY <1>5, <2>1, FrameIds
      <3>2. QED
        BY <3>1
    <2>16. IsStack(r)
      BY <2>10 DEF IsStack
    <2>17. QED
      BY <2>14, <2>15, <2>16
  <1>6. QED
    BY <1>4, <1>5

-----------------------------------------------------------------------------
(* A tick of the replay sends the next event of the first frame, removes   *)
(* the first frame when it is empty, or does nothing.                      *)
LEMMA PushedTail ==
    ASSUME NEW T, NEW x \in T, NEW G \in Seq(T), NEW F, Pushed(F, x, G)
    PROVE  F # <<>> /\ Head(F) = x /\ Tail(F) = G
  <1>1. <<x>> \in Seq(T) /\ Len(<<x>>) = 1 /\ <<x>>[1] = x
    OBVIOUS
  <1>2. F = <<x>> \o G
    BY DEF Pushed
  <1>3. /\ F \in Seq(T) /\ Len(F) = 1 + Len(G) /\ Len(G) \in Nat
        /\ \A i \in 1..1 + Len(G) : F[i] = IF i <= 1 THEN <<x>>[i] ELSE G[i - 1]
    BY <1>1, <1>2, ConcatProperties
  <1>4. F # <<>>
    BY <1>3, EmptySeq
  <1>5. /\ Tail(F) \in Seq(T) /\ Len(Tail(F)) = Len(F) - 1
        /\ \A i \in 1..Len(Tail(F)) : Tail(F)[i] = F[i + 1]
    BY <1>3, <1>4, HeadTailProperties
  <1>6. Head(F) = x
    <2>1. 1 \in 1..1 + Len(G)
      BY <1>3
    <2>2. F[1] = x
      BY <1>1, <1>3, <2>1
    <2>3. QED
      BY <1>3, <1>4, <2>2 DEF Head
  <1>7. Len(Tail(F)) = Len(G)
    BY <1>3, <1>5
  <1>8. ASSUME NEW i \in 1..Len(G)
        PROVE  Tail(F)[i] = G[i]
    <2>1. i + 1 \in 1..1 + Len(G) /\ ~(i + 1 <= 1) /\ (i + 1) - 1 = i
      BY <1>3
    <2>2. Tail(F)[i] = F[i + 1]
      BY <1>5, <1>7
    <2>3. QED
      BY <1>3, <2>1, <2>2
  <1>9. Tail(F) = G
    BY <1>5, <1>7, <1>8, SeqEqual
  <1>10. QED
    BY <1>4, <1>6, <1>9

\* the frames are a sequence, not an empty one
LEMMA FramesSeq ==
    ASSUME NEW f, NEW n \in Nat, NEW q, NEW o, NEW F, F = FramesOf(f, n, q, o)
    PROVE  F \in Seq({F[i] : i \in 1..(n + 1)}) /\ F # <<>> /\ Head(F) = F[1]
  <1>1. DOMAIN F = 1..(n + 1) /\ F = [i \in 1..(n + 1) |-> F[i]]
    BY DEF FramesOf
  <1> DEFINE T == {F[i] : i \in 1..(n + 1)}
  <1>2. F \in [1..(n + 1) -> T] /\ n + 1 \in Nat
    BY <1>1
  <1> HIDE DEF T
  <1>3. F \in Seq(T) /\ Len(F) = n + 1
    BY <1>2, FunctionIsSeq
  <1>4. F # <<>>
    BY <1>3, EmptySeq
  <1>5. Head(F) = F[1]
    BY <1>3, <1>4 DEF Head
  <1>6. QED
    BY <1>3, <1>4, <1>5 DEF T

LEMMA ReplayEnds ==
    ASSUME MacroConstants, NEW p \in Replays, IsStack(p), p.on, p.items = <<>>
    PROVE  /\ Frames(p) # <<>> /\ Head(Frames(p)).rest = <<>>
           /\ Frames(NoReplay) = Tail(Frames(p)) /\ IsStack(NoReplay)
  <1>1. PICK f, n, o : StackOf(f, n, o, p)
    BY DEF IsStack
  <1>2. p.active = {o}
    <2>1. KeysOf(f, n, p.items) = {}
      <3>1. \A i \in 1..n : f[i] \in DOMAIN p.items
        BY <1>1 DEF StackOf, Enumerates, Marks
      <3>2. DOMAIN p.items = {}
        OBVIOUS
      <3>3. QED
        BY <3>1, <3>2 DEF KeysOf
    <2>2. QED
      BY <1>1, <2>1 DEF StackOf
  <1>3. p.items \in Seq(QItem) /\ \A i \in 1..Len(p.items) : IsEvent(p.items[i])
    BY DEF Replays, QItem
  <1>4. PICK g : /\ Enumerates(g, 0, p.items) /\ Distinct(g, 0, p.items) /\ KeysOf(g, 0, p.items) = {}
                 /\ \A x : FramesOf(g, 0, p.items, x) = <<Running(x, p.items)>>
    BY <1>3, OneFrame
  <1>5. StackOf(g, 0, o, p)
    BY <1>2, <1>4 DEF StackOf
  <1>6. Frames(p) = <<Running(o, <<>>)>>
    <2>1. Frames(p) = FramesOf(g, 0, p.items, o)
      BY <1>5, FramesAre
    <2>2. QED
      BY <1>4, <2>1
  <1>7. Running(o, <<>>).rest = <<>>
    BY DEF Running
  <1>8. ~NoReplay.on
    BY DEF NoReplay
  <1>9. Frames(NoReplay) = <<>> /\ IsStack(NoReplay)
    BY <1>8 DEF Frames, IsStack
  <1> DEFINE x == Running(o, <<>>)
  <1>10. x.rest = <<>> /\ Frames(p) = <<x>>
    BY <1>6, <1>7
  <1> HIDE DEF x
  <1>11. <<x>> # <<>> /\ Head(<<x>>) = x /\ Tail(<<x>>) = <<>>
    OBVIOUS
  <1>12. QED
    BY <1>9, <1>10, <1>11

LEMMA MarkReturns ==
    ASSUME NEW p \in Replays, IsStack(p), p.on, p.items # <<>>, ~IsEvent(Head(p.items)),
           NEW r \in Replays, r.on, IsTail(r.items, p.items),
           r.active = p.active \ {Head(p.items).key}
    PROVE  /\ Frames(p) # <<>> /\ Head(Frames(p)).rest = <<>>
           /\ Frames(r) = Tail(Frames(p)) /\ IsStack(r)
  <1>1. PICK f, n, o : StackOf(f, n, o, p)
    BY DEF IsStack
  <1>2. p.items \in Seq(QItem)
    BY DEF Replays, QItem
  <1>3. Head(p.items) = p.items[1]
    BY <1>2, TailIs
  <1>4. Enumerates(f, n, p.items)
    BY <1>1 DEF StackOf
  <1>5. PICK g : IsPopped(g, f, n)
    BY DEF IsPopped
  <1>6. /\ n \in Nat \ {0} /\ f[1] = 1 /\ Enumerates(g, n - 1, r.items)
        /\ \A i \in 1..(n - 1) : i + 1 \in 1..n /\ r.items[g[i]] = p.items[f[i + 1]]
        /\ Pushed(FramesOf(f, n, p.items, o), Running(p.items[1].key, <<>>),
                  FramesOf(g, n - 1, r.items, o))
    <2>1. ~IsEvent(p.items[1])
      BY <1>3
    <2>2. QED
      BY <1>2, <1>4, <1>5, <2>1, ReturnedFrames
  <1>7. KeysOf(g, n - 1, r.items) = KeysOf(f, n, p.items) \ {p.items[1].key}
    <2>1. ASSUME NEW k \in KeysOf(g, n - 1, r.items)
          PROVE  k \in KeysOf(f, n, p.items) \ {p.items[1].key}
      <3>1. PICK i \in 1..(n - 1) : k = r.items[g[i]].key
        BY <2>1 DEF KeysOf
      <3>2. i + 1 \in 1..n /\ i + 1 # 1 /\ 1 \in 1..n /\ k = p.items[f[i + 1]].key
        BY <1>6, <3>1
      <3>3. k # p.items[f[1]].key
        BY <1>1, <3>2 DEF StackOf, Distinct
      <3>4. QED
        BY <1>6, <3>2, <3>3 DEF KeysOf
    <2>2. ASSUME NEW k \in KeysOf(f, n, p.items), k # p.items[1].key
          PROVE  k \in KeysOf(g, n - 1, r.items)
      <3>1. PICK i \in 1..n : k = p.items[f[i]].key
        BY <2>2 DEF KeysOf
      <3>2. i # 1
        BY <1>6, <2>2, <3>1
      <3>3. i - 1 \in 1..(n - 1) /\ (i - 1) + 1 = i
        BY <1>6, <3>2
      <3>4. k = r.items[g[i - 1]].key
        BY <1>6, <3>1, <3>3
      <3>5. QED
        BY <3>3, <3>4 DEF KeysOf
    <2>3. QED
      BY <2>1, <2>2
  <1>8. Distinct(g, n - 1, r.items)
    <2>1. ASSUME NEW i \in 1..(n - 1), NEW j \in 1..(n - 1), r.items[g[i]].key = r.items[g[j]].key
          PROVE  i = j
      <3>1. i + 1 \in 1..n /\ j + 1 \in 1..n /\ p.items[f[i + 1]].key = p.items[f[j + 1]].key
        BY <1>6, <2>1
      <3>2. i + 1 = j + 1
        BY <1>1, <3>1 DEF StackOf, Distinct
      <3>3. QED
        BY <1>6, <3>2
    <2>2. QED
      BY <2>1 DEF Distinct
  <1>9. StackOf(g, n - 1, o, r)
    <2>1. o # p.items[1].key
      <3>1. 1 \in 1..n
        BY <1>6
      <3>2. p.items[1].key \in KeysOf(f, n, p.items)
        BY <1>6, <3>1 DEF KeysOf
      <3>3. QED
        BY <1>1, <3>2 DEF StackOf
    <2>2. r.active = {o} \cup KeysOf(g, n - 1, r.items) /\ o \notin KeysOf(g, n - 1, r.items)
      BY <1>1, <1>3, <1>7, <2>1 DEF StackOf
    <2>3. QED
      BY <1>6, <1>8, <2>2 DEF StackOf
  <1> DEFINE F == FramesOf(f, n, p.items, o)
             G == FramesOf(g, n - 1, r.items, o)
             x == Running(p.items[1].key, <<>>)
  <1>10. Frames(p) = F
    BY <1>1, FramesAre
  <1>11. Frames(r) = G
    BY <1>9, FramesAre
  <1>12. x.rest = <<>> /\ Pushed(F, x, G)
    BY <1>6 DEF Running
  <1>13. \E T : G \in Seq(T)
    <2>1. n - 1 \in Nat
      BY <1>6
    <2>2. QED
      BY <2>1, FramesSeq
  <1> HIDE DEF F, G, x
  <1>14. PICK T : G \in Seq(T) /\ x \in T
    <2>1. PICK T0 : G \in Seq(T0)
      BY <1>13
    <2>2. G \in Seq(T0 \cup {x})
      BY <2>1, SeqMonotonic
    <2>3. QED
      BY <2>2
  <1>15. F # <<>> /\ Head(F) = x /\ Tail(F) = G
    BY <1>12, <1>14, PushedTail
  <1>16. IsStack(r)
    BY <1>9 DEF IsStack
  <1>17. QED
    BY <1>10, <1>11, <1>12, <1>15, <1>16

LEMMA EventIsSent ==
    ASSUME NEW p \in Replays, IsStack(p), p.on, p.items # <<>>, IsEvent(Head(p.items)),
           NEW r \in Replays, r.on, IsTail(r.items, p.items), r.active = p.active
    PROVE  /\ Frames(p) # <<>> /\ Head(Frames(p)).rest # <<>>
           /\ Head(p.items) = Head(Head(Frames(p)).rest)
           /\ Frames(r) = [Frames(p) EXCEPT ![1].rest = Tail(@)] /\ IsStack(r)
  <1>1. PICK f, n, o : StackOf(f, n, o, p)
    BY DEF IsStack
  <1>2. p.items \in Seq(QItem)
    BY DEF Replays, QItem
  <1>3. Head(p.items) = p.items[1]
    BY <1>2, TailIs
  <1>4. Enumerates(f, n, p.items) /\ n \in Nat
    BY <1>1 DEF StackOf, Enumerates
  <1>5. PICK g : IsBack(g, f, n)
    BY DEF IsBack
  <1>6. /\ Enumerates(g, n, r.items) /\ \A i \in 1..n : r.items[g[i]] = p.items[f[i]]
        /\ IsSent(FramesOf(f, n, p.items, o), FramesOf(g, n, r.items, o), p.items[1])
    <2>1. IsEvent(p.items[1])
      BY <1>3
    <2>2. QED
      BY <1>2, <1>4, <1>5, <2>1, SentFrames
  <1>7. KeysOf(g, n, r.items) = KeysOf(f, n, p.items)
    BY <1>6 DEF KeysOf
  <1>8. Distinct(g, n, r.items)
    BY <1>1, <1>6 DEF Distinct, StackOf
  <1>9. StackOf(g, n, o, r)
    BY <1>1, <1>6, <1>7, <1>8 DEF StackOf
  <1>10. Frames(p) = FramesOf(f, n, p.items, o)
    BY <1>1, FramesAre
  <1>11. Frames(r) = FramesOf(g, n, r.items, o)
    BY <1>9, FramesAre
  <1>12. Frames(p) # <<>> /\ Head(Frames(p)) = Frames(p)[1]
    BY <1>4, <1>10, FramesSeq
  <1>13. IsStack(r)
    BY <1>9 DEF IsStack
  <1>14. QED
    BY <1>3, <1>6, <1>10, <1>11, <1>12, <1>13 DEF IsSent

(* Every step of the program is a call, a send, a return or nothing of the *)
(* stack, and leaves a stack.                                              *)
LEMMA PlayStep ==
    ASSUME IInv, IsStack(rep), NEW id \in Ids, Play(id), sent' = NoItem
    PROVE  IsStack(rep)' /\ Stack!Next
  <1>1. rep \in Replays /\ MacrosOK(macros) /\ rep' = PlayMacro(rep, id, macros) /\ macros' = macros
    BY DEF IInv, MacroTypeOK, Replays, MacrosOK, Play
  <1>2. CASE id \notin DOMAIN macros \/ id \in rep.active
    <2>1. rep' = rep
      BY <1>1, <1>2 DEF PlayMacro
    <2>2. QED
      BY <2>1 DEF Stack!Next, Stack!Other
  <1>3. CASE id \in DOMAIN macros /\ id \notin rep.active
    <2>1. /\ IsStack(rep')
          /\ Frames(rep') = <<Running(id, macros[id])>> \o Frames(rep)
          /\ \A i \in DOMAIN Frames(rep) : Frames(rep)[i].id # id
      BY <1>1, <1>3, MacroConstants, PlayCalls
    <2>2. ~Stack!Running(id)
      BY <2>1 DEF Stack!Running
    <2>3. Stack!Call
      BY <1>1, <1>3, <2>1, <2>2 DEF Stack!Call, Running
    <2>4. QED
      BY <2>1, <2>3 DEF Stack!Next
  <1>4. QED
    BY <1>2, <1>3

LEMMA ReplayStep ==
    ASSUME IInv, NoOvershoot', IsStack(rep), ReplayTick
    PROVE  IsStack(rep)' /\ Stack!Next
  <1>1. /\ rep \in Replays /\ mc.recorded \in BOOLEAN /\ rep' = TickReplay(rep, mc.recorded)
        /\ rep' \in Replays /\ macros' = macros
    BY ConfigType, MacroConstants, ReplayType DEF IInv, MacroTypeOK, Replays, ReplayTick
  <1>2. sent' = ReplayEvent(rep)
    <2>1. making => ReplayEvent(rep) = NoItem
      BY DEF ReplayTick, NoOvershoot
    <2>2. sent' = IF making THEN NoItem ELSE ReplayEvent(rep)
      BY DEF ReplayTick
    <2>3. QED
      BY <2>1, <2>2
  <1>3. CASE ~Due(rep)
    <2>1. rep' = [rep EXCEPT !.left = Minus1(@)] /\ sent' = NoItem
      BY <1>1, <1>2, <1>3 DEF TickReplay, ReplayEvent
    <2>2. rep'.on = rep.on /\ rep'.items = rep.items /\ rep'.active = rep.active
      BY <1>1, <2>1 DEF Replays
    <2>3. IsStack(rep') /\ Frames(rep') = Frames(rep)
      BY <1>1, <2>2, SameStack
    <2>4. QED
      BY <2>1, <2>3 DEF Stack!Next, Stack!Other
  <1>4. CASE Due(rep) /\ rep.items = <<>>
    <2>1. rep' = NoReplay /\ sent' = NoItem /\ rep.on
      BY <1>1, <1>2, <1>4 DEF TickReplay, ReplayEvent, Due
    <2>2. /\ Frames(rep) # <<>> /\ Head(Frames(rep)).rest = <<>>
          /\ Frames(rep') = Tail(Frames(rep)) /\ IsStack(rep')
      BY <1>1, <1>4, <2>1, MacroConstants, ReplayEnds
    <2>3. QED
      BY <1>1, <2>1, <2>2 DEF Stack!Next, Stack!Return
  <1>5. CASE Due(rep) /\ rep.items # <<>> /\ ~IsEvent(Head(rep.items))
    <2>1. /\ rep.on /\ sent' = NoItem
          /\ rep' = [[rep EXCEPT !.items = Tail(@), !.left = Pace] EXCEPT
                       !.active = @ \ {Head(rep.items).key}]
      BY <1>1, <1>2, <1>5 DEF TickReplay, ReplayEvent, Due
    <2>2. rep'.on /\ IsTail(rep'.items, rep.items) /\ rep'.active = rep.active \ {Head(rep.items).key}
      BY <1>1, <2>1 DEF Replays, IsTail
    <2>3. /\ Frames(rep) # <<>> /\ Head(Frames(rep)).rest = <<>>
          /\ Frames(rep') = Tail(Frames(rep)) /\ IsStack(rep')
      BY <1>1, <1>5, <2>1, <2>2, MarkReturns
    <2>4. QED
      BY <1>1, <2>1, <2>3 DEF Stack!Next, Stack!Return
  <1>6. CASE Due(rep) /\ rep.items # <<>> /\ IsEvent(Head(rep.items))
    <2> DEFINE rest == [rep EXCEPT !.items = Tail(@), !.left = Pace]
    <2>1. /\ rep.on /\ sent' = Head(rep.items)
          /\ rep' = IF mc.recorded THEN [rest EXCEPT !.left = Head(rep.items).delay] ELSE rest
      BY <1>1, <1>2, <1>6 DEF TickReplay, ReplayEvent, Due
    <2>2. rep'.on /\ IsTail(rep'.items, rep.items) /\ rep'.active = rep.active
      BY <1>1, <2>1 DEF Replays, IsTail
    <2>3. /\ Frames(rep) # <<>> /\ Head(Frames(rep)).rest # <<>>
          /\ Head(rep.items) = Head(Head(Frames(rep)).rest)
          /\ Frames(rep') = [Frames(rep) EXCEPT ![1].rest = Tail(@)] /\ IsStack(rep')
      BY <1>1, <1>6, <2>1, <2>2, EventIsSent
    <2>4. QED
      BY <1>1, <2>1, <2>3 DEF Stack!Next, Stack!Send
  <1>7. QED
    BY <1>3, <1>4, <1>5, <1>6

LEMMA StackStep ==
    ASSUME IInv, IInv', IsStack(rep), [MacroNext]_macroVars
    PROVE  IsStack(rep)' /\ [Stack!Next]_<<macros, Frames(rep), sent>>
  <1>1. CASE rep' = rep /\ sent' = NoItem
    BY <1>1 DEF Stack!Next, Stack!Other
  <1>2. CASE UNCHANGED macroVars
    BY <1>2 DEF macroVars
  <1>3. CASE MacroTickStates
    <2>1. sent' = NoItem
      BY <1>3 DEF MacroTickStates
    <2>2. rep' = rep \/ \E id \in Ids : Play(id)
      <3>1. \A a \in mc.acts : a.id \in Ids
        BY MacroConstants DEF IInv, MacroTypeOK, MacroConstants
      <3>2. Nothing \/ \E a \in mc.acts : Perform(a)
        BY <1>3 DEF MacroTickStates
      <3>3. QED
        BY <3>1, <3>2 DEF Nothing, Perform, Record, Stop
    <2>3. QED
      BY <1>1, <2>1, <2>2, PlayStep
  <1>4. CASE ReplayTick
    BY <1>4, ReplayStep DEF IInv
  <1>5. CASE ~MacroTickStates /\ ~ReplayTick /\ MacroNext
    <2>1. rep' = rep /\ sent' = NoItem
      BY <1>5 DEF MacroNext, KeyEvent, Call, MakeUp, Return
    <2>2. QED
      BY <1>1, <2>1
  <1>6. QED
    BY <1>2, <1>3, <1>4, <1>5

(* Replay, with its one queue, its marks and its set of active macros,     *)
(* implements MacroStack (ImplementsStack): macros played within macros    *)
(* run like procedures, none within itself, and each event is sent once    *)
(* and in order, for all macros, keys, recordings, passes and actions.     *)
THEOREM ReplayImplementsStack == MacroSpec => ImplementsStack
  <1>1. MacroInit => IsStack(rep) /\ Stack!Init
    BY DEF MacroInit, NoReplay, IsStack, Stack!Init, Frames
  <1>2. IInv /\ IInv' /\ IsStack(rep) /\ [MacroNext]_macroVars
        => IsStack(rep)' /\ [Stack!Next]_<<macros, Frames(rep), sent>>
    BY StackStep
  <1>3. QED
    BY <1>1, <1>2, Invariance, PTL DEF MacroSpec, ImplementsStack, Stack!Spec
=============================================================================
