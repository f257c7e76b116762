---------------------------- MODULE MacroSystem ----------------------------
(***************************************************************************)
(* Dynamic macros in the processing loop: physical key events are recorded *)
(* between the calls of tick_ms, and tick_ms makes the layout tick, replays*)
(* what is due and then ticks on to make up for the delays it replayed.    *)
(*                                                                         *)
(* Which custom action the layout performs in a tick is left open, so that *)
(* what is shown here does not depend on the configuration.                *)
(***************************************************************************)
EXTENDS DynamicMacro

CONSTANTS
    MacroConfig,        \* MacroConfig[c]: see below
    Ids, MacroKeys,     \* the numbers of macros, and the physical keys
    MaxDelay            \* bound: ticks between two recorded events

(* A configuration is a record of                                          *)
(*   macros      the macros recorded before                                *)
(*   recorded    dynamic-macro-replay-delay-behaviour is recorded          *)
(*   maxPresses  dynamic-macro-max-presses                                 *)
(*   calls       the numbers of milliseconds that a pass may take          *)
(*   acts        the custom actions that the layout may perform            *)
(*   maxEvents, maxTicks, maxActs  bounds: physical events, passes, actions*)
\* every key that is pressed is released later
Releases(items) ==
    \A i \in DOMAIN items :
        items[i].t = "press"
        => \E j \in i..Len(items) : items[j].t = "release" /\ items[j].key = items[i].key

ASSUME MacroConstants ==
    /\ U16Max \in Nat \ {0} /\ Pace \in 1..U16Max /\ MaxDelay \in Nat /\ IsFiniteSet(MacroKeys)
    /\ \A c \in DOMAIN MacroConfig :
         /\ DOMAIN MacroConfig[c].macros \subseteq Ids
         /\ \A id \in DOMAIN MacroConfig[c].macros :
              MacroConfig[c].macros[id] \in
                Seq([t : {"press", "release"}, key : MacroKeys, delay : 0..U16Max])
         /\ \A id \in DOMAIN MacroConfig[c].macros : Releases(MacroConfig[c].macros[id])
         /\ MacroConfig[c].recorded \in BOOLEAN /\ MacroConfig[c].maxPresses \in Nat
         \* a pass of more than 65 seconds would be cut to 16 bits
         /\ MacroConfig[c].calls \subseteq 0..U16Max
         /\ \A a \in MacroConfig[c].acts : a.id \in Ids /\ a.n \in Nat

VARIABLES
    mc,        \* the configuration
    rec, rep,  \* the states of recording and replay
    macros,    \* dynamic_macros
    macroPhys, \* the keys held by the user
    macroAlive, \* Vec::remove has not panicked
    stage,     \* where tick_ms is: "events" between its calls, then for each
               \* tick "tick" and "replay"
    todo,      \* ticks left of the loop under way
    ms,        \* ms_elapsed of this call
    extra,     \* extra_ticks
    making,    \* the second loop, which makes up for delays, is under way
    sent,      \* the event sent to the layout by the last step
    overshot,  \* the second loop has seen an event
    events, passes, acts,   \* bounded counts
    \* observed, not part of the program
    since,     \* ticks since the first recorded event
    times,     \* since, at each of the recorded events
    prev,      \* the last item replayed, if the next one directly follows it
    gap        \* ticks since then

macroVars == <<mc, rec, rep, macros, macroPhys, macroAlive, stage, todo, ms, extra, making, sent,
               overshot, events, passes, acts, since, times, prev, gap>>
counts == <<events, passes, acts>>
observed == <<since, times, prev, gap>>

MacroInit ==
    /\ \E c \in DOMAIN MacroConfig : mc = MacroConfig[c]
    /\ rec = NoRecord /\ rep = NoReplay /\ macros = mc.macros /\ macroPhys = {} /\ macroAlive = TRUE
    /\ stage = "events" /\ todo = 0 /\ ms = 0 /\ extra = 0 /\ making = FALSE
    /\ sent = NoItem /\ overshot = FALSE
    /\ events = 0 /\ passes = 0 /\ acts = 0
    /\ since = 0 /\ times = <<>> /\ prev = NoItem /\ gap = 0

Save(id, items) == macros' = [i \in DOMAIN macros \cup {id} |-> IF i = id THEN items ELSE macros[i]]

-----------------------------------------------------------------------------
(* handle_input_event: a physical key event.                               *)
KeyEvent(t, key) ==
    /\ macroAlive /\ stage = "events" /\ events < mc.maxEvents
    /\ (t = "press") = (key \notin macroPhys)
    /\ macroPhys' = IF t = "press" THEN macroPhys \cup {key} ELSE macroPhys \ {key}
    /\ IF t = "press" /\ LimitReached(rec, mc.maxPresses)
       THEN /\ \E items \in WithReleases(rec.items) : Save(rec.id, items)
            /\ rec' = NoRecord
       ELSE rec' = RecordEvent(rec, t, key) /\ UNCHANGED macros
    /\ since' = IF NothingRecorded(rec) THEN 0 ELSE since
    /\ times' = IF rec'.on THEN Append(times, since') ELSE <<>>
    /\ sent' = NoItem
    /\ events' = events + 1
    /\ UNCHANGED <<mc, rep, macroAlive, stage, todo, ms, extra, making, overshot, passes, acts, prev, gap>>

\* tick_ms is called
Call(n) ==
    /\ macroAlive /\ stage = "events" /\ passes < mc.maxTicks
    /\ ms' = n /\ todo' = n /\ extra' = 0 /\ making' = FALSE
    /\ stage' = "tick" /\ sent' = NoItem
    /\ passes' = passes + 1
    /\ UNCHANGED <<mc, rec, rep, macros, macroPhys, macroAlive, overshot, events, acts, observed>>

-----------------------------------------------------------------------------
(* tick_states: the custom action of this tick, if any.                    *)
SaveRecording(n) ==
    \E items \in WithReleases(ItemsToSave(rec, n)) : Save(rec.id, items)
Panics == rec.on /\ NothingRecorded(rec)

Record(id) ==
    /\ IF rec.on /\ ~Panics THEN SaveRecording(0) ELSE UNCHANGED macros
    /\ rec' = TickRecord(IF rec.on /\ rec.id = id THEN NoRecord ELSE NewRecord(id))
    /\ macroAlive' = ~Panics
    /\ UNCHANGED rep

Stop(n) ==
    /\ IF rec.on /\ ~Panics THEN SaveRecording(n) ELSE UNCHANGED macros
    /\ rec' = NoRecord
    /\ macroAlive' = ~Panics
    /\ UNCHANGED rep

Play(id) ==
    /\ rep' = PlayMacro(rep, id, macros)
    /\ rec' = TickRecord(rec)
    /\ UNCHANGED <<macros, macroAlive>>

Nothing == rec' = TickRecord(rec) /\ UNCHANGED <<rep, macros, macroAlive>>

Perform(a) ==
    \/ a.t = "record" /\ Record(a.id)
    \/ a.t = "stop" /\ Stop(a.n)
    \/ a.t = "play" /\ Play(a.id)

Recording == rec'.on /\ ~NothingRecorded(rec')

MacroTickStates ==
    /\ macroAlive /\ stage = "tick" /\ todo > 0
    /\ rec.on => rec.delay < MaxDelay
    /\ \/ Nothing /\ UNCHANGED acts
       \/ \E a \in mc.acts : acts < mc.maxActs /\ Perform(a) /\ acts' = acts + 1
    /\ stage' = "replay" /\ sent' = NoItem
    /\ since' = IF Recording THEN since + 1 ELSE 0
    /\ times' = IF Recording THEN times ELSE <<>>
    /\ gap' = IF prev # NoItem THEN gap + 1 ELSE 0
    /\ UNCHANGED <<mc, macroPhys, todo, ms, extra, making, overshot, events, passes, prev>>

\* Seeded fault: the second loop runs for all of the delays replayed,
\* the ticks of the first loop included.
ExtraTicksAll == extra
ExtraTicks == IF extra > ms THEN extra - ms ELSE 0

(* tick_replay_state, and what tick_ms does with the event.                *)
ReplayTick ==
    /\ macroAlive /\ stage = "replay"
    /\ rep' = TickReplay(rep, mc.recorded)
    /\ LET e == ReplayEvent(rep)
           found == e # NoItem
       IN  /\ sent' = IF making THEN NoItem ELSE e
           /\ extra' = IF found /\ ~making THEN Plus(extra, Delay(e, mc.recorded)) ELSE extra
           /\ overshot' = (found /\ making)
           /\ todo' = IF found /\ making THEN 0 ELSE todo - 1
           /\ prev' = IF found THEN e ELSE IF Due(rep) THEN NoItem ELSE prev
           /\ gap' = IF found THEN 0 ELSE gap
    /\ stage' = "tick"
    /\ UNCHANGED <<mc, rec, macros, macroPhys, macroAlive, ms, making, counts, since, times>>

\* the end of the first loop, and of the second
MakeUp ==
    /\ macroAlive /\ stage = "tick" /\ todo = 0 /\ ~making
    /\ making' = TRUE /\ todo' = ExtraTicks
    /\ sent' = NoItem
    /\ UNCHANGED <<mc, rec, rep, macros, macroPhys, macroAlive, stage, ms, extra, overshot, counts, observed>>

Return ==
    /\ macroAlive /\ stage = "tick" /\ todo = 0 /\ making
    /\ stage' = "events" /\ making' = FALSE /\ sent' = NoItem
    /\ extra' = 0 /\ ms' = 0
    /\ UNCHANGED <<mc, rec, rep, macros, macroPhys, macroAlive, todo, overshot, counts, observed>>

MacroNext ==
    \/ \E key \in MacroKeys : KeyEvent("press", key) \/ KeyEvent("release", key)
    \/ \E n \in mc.calls : Call(n)
    \/ MacroTickStates \/ ReplayTick \/ MakeUp \/ Return

MacroSpec == MacroInit /\ [][MacroNext]_macroVars

-----------------------------------------------------------------------------
KeyItem == [t : {"press", "release"}, key : MacroKeys, delay : 0..U16Max]
EndItem == [t : {"end"}, key : Ids, delay : {0}]

(* Recordings hold only key events, and only a replay holds marks; what    *)
(* tick_ms counts stays within 16 bits.                                    *)
MacroTypeOK ==
    /\ mc \in {MacroConfig[c] : c \in DOMAIN MacroConfig}
    /\ rec \in [on : BOOLEAN, id : Ids \cup {0}, waiting : Seq(KeyItem), items : Seq(KeyItem),
               delay : 0..U16Max]
    /\ rec.on => rec.id \in Ids
    /\ rep \in [on : BOOLEAN, active : SUBSET Ids, left : 0..U16Max, items : Seq(KeyItem \cup EndItem)]
    /\ DOMAIN macros \subseteq Ids /\ \A id \in DOMAIN macros : macros[id] \in Seq(KeyItem)
    /\ todo \in 0..U16Max /\ ms \in 0..U16Max /\ extra \in 0..U16Max
    /\ making \in BOOLEAN /\ overshot \in BOOLEAN /\ stage \in {"events", "tick", "replay"}

(* tick_ms never meets an event of the replay while it makes up for the    *)
(* delays of the events before it, which it would drop: the message        *)
(* "overshot to next event ..., the code is broken!" is never logged,      *)
(* whatever is played and recorded in the ticks of both loops.             *)
NoOvershoot == ~overshot

(* Events of one macro are replayed with as many ticks of the layout       *)
(* between them as passed when they were recorded, those that make up for  *)
(* the delay included, or at a steady pace; an event with delay 0 takes a  *)
(* tick too.                                                               *)
ReplayKeepsTime ==
    [][sent' # NoItem /\ prev # NoItem
       => gap = IF ~mc.recorded THEN Pace ELSE IF prev.delay > 0 THEN prev.delay ELSE 1]_macroVars

(* However the events of a recording are spread over passes, and whichever *)
(* of them waits, each is recorded with the ticks until the next one, and  *)
(* the time since the last one is being counted, up to 16 bits of it.      *)
Saturated(n) == Plus(n, 0)
RecordKeepsTime ==
    rec.on =>
        /\ Len(rec.items) + Len(rec.waiting) = Len(times)
        /\ \A i \in DOMAIN rec.items : rec.items[i].delay = Saturated(times[i + 1] - times[i])
        /\ times # <<>> => rec.delay = Saturated(since - times[Len(times)])

(* Every key that a saved macro presses it also releases, though saving    *)
(* takes away events at its end: a replay leaves no key down.              *)
MacrosRelease == \A id \in DOMAIN macros : Releases(macros[id])

-----------------------------------------------------------------------------
(* The queue q of a replay p with its marks is a stack of running macros;  *)
(* the outermost has no mark, but is among the active ones.                *)
Marks(q) == {i \in DOMAIN q : ~IsEvent(q[i])}
End(q, i) == CHOOSE e \in Marks(q) : Cardinality({x \in Marks(q) : x <= e}) = i
Nesting(q) == Cardinality(Marks(q))
Marked(q) == {q[i].key : i \in Marks(q)}
Outermost(p) ==
    IF p.active = Marked(p.items) THEN 0
    ELSE CHOOSE id \in p.active : id \notin Marked(p.items)
Frame(p, i) ==
    LET q == p.items
    IN  [id   |-> IF i <= Nesting(q) THEN q[End(q, i)].key ELSE Outermost(p),
         rest |-> SubSeq(q, IF i = 1 THEN 1 ELSE End(q, i - 1) + 1,
                            IF i <= Nesting(q) THEN End(q, i) - 1 ELSE Len(q))]
Frames(p) == IF p.on THEN [i \in 1..(Nesting(p.items) + 1) |-> Frame(p, i)] ELSE <<>>

(* Replay, with its queue, its marks and its set of active macros, runs    *)
(* macros like procedures; see MacroStack.                                 *)
Stack == INSTANCE MacroStack WITH frames <- Frames(rep)
ImplementsStack == Stack!Spec
=============================================================================
