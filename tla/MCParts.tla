------------------------------ MODULE MCParts ------------------------------
(***************************************************************************)
(* Small instances for TLC of four parts that do not interact: dynamic     *)
(* macros, zippychord, switch, and the processing loop with clients and    *)
(* reloads.  In a behaviour one of them runs and the variables of the      *)
(* others keep their first values.                                         *)
(***************************************************************************)
EXTENDS MacroSystem, ZippySystem, SwitchSystem, ProcessingLoop

CONSTANTS shift, vk, c1, conf1, conf2    \* keys, a client and configurations

VARIABLE part

-----------------------------------------------------------------------------
(* Dynamic macros                                                          *)

Act(t, id, n) == [t |-> t, id |-> id, n |-> n]
Play1 == Act("play", 1, 0)
Play2 == Act("play", 2, 0)

Tap(key, d1, d2) == <<Item("press", key, d1), Item("release", key, d2)>>

\* recording, ended by either action or by the limit
Recorder(limit) ==
    [macros |-> <<>>, recorded |-> TRUE, maxPresses |-> limit, calls |-> {1},
     acts |-> {Act("record", 1, 0), Act("record", 2, 0), Act("stop", 1, 0), Act("stop", 1, 1)},
     maxEvents |-> 5, maxTicks |-> 4, maxActs |-> 2]
\* two macros that may be played within each other, in passes of any length
Player(recorded, m1, m2, lengths) ==
    [macros |-> <<m1, m2>>, recorded |-> recorded, maxPresses |-> 9, calls |-> lengths,
     acts |-> {Play1, Play2}, maxEvents |-> 0, maxTicks |-> 8, maxActs |-> 3]

Instances ==
    [limit |-> Recorder(1), record |-> Recorder(9),
     timed |-> Player(TRUE, Tap("a", 3, 0), Tap("b", 1, 2), {0, 1, 2, 4}),
     paced |-> Player(FALSE, Tap("a", 3, 0), Tap("b", 1, 2), {1, 3}),
     \* recorded while the other macro played: its keys are recorded, not it
     both |-> [Player(TRUE, Tap("a", 2, 1), <<>>, {1, 3}) EXCEPT
                 !.acts = {Play1, Act("record", 1, 0), Act("record", 2, 0), Play2},
                 !.maxEvents = 2, !.maxTicks = 5]]

-----------------------------------------------------------------------------
(* Zippychord configurations                                               *)

Out(k) == [key |-> k, up |-> FALSE, altgr |-> FALSE, width |-> 1]
Up(k) == [Out(k) EXCEPT !.up = TRUE]
Alt(k) == [Out(k) EXCEPT !.altgr = TRUE]
Dead(k) == [Out(k) EXCEPT !.width = 0]
Bspc == [Out("bspc") EXCEPT !.width = -1]
Then(keys, out, then) == [keys |-> keys, out |-> out, then |-> then]
Chord(keys, out) == Then(keys, out, {})
Conf(keys, smart, chords) ==
    [keys |-> keys, smart |-> smart, chords |-> chords, deadline |-> 3, wait |-> 2, forced |-> 4,
     punctuation |-> {<<"comma", FALSE, FALSE>>}]

Letters == {"a", "b", "c", "d", "e", "x", "y", "w", "comma", "spc"}

\* a smaller chord inside a larger one, smart space and punctuation
NestedChord == Conf({"a", "b", "c", "comma"}, "full",
               {Chord({"a", "b"}, <<Out("x"), Out("a")>>),
                Chord({"a", "b", "c"}, <<Out("x"), Out("y"), Out("w")>>)})
\* a chain of follow-up chords, one of them without an output
Follow == Conf({"a", "b", "c", "d"}, "full",
               {Then({"a", "b"}, <<Out("x"), Out("y")>>,
                     {Then({"c"}, <<>>, {Chord({"d"}, <<Out("x"), Out("spc"), Bspc>>)})}),
                Chord({"c", "d"}, <<Out("w")>>)})
\* the modifiers that the user may hold; without a deadline and without a wait
Shifted == Conf({"a", "b", "lsft", "rsft"}, "add-space-only",
                {Chord({"a", "b"}, <<Up("x"), Out("a"), Up("b")>>)})
Graphic == [Conf({"a", "b", "ralt", "lsft"}, "none",
                 {Chord({"a", "b"}, <<Alt("x"), Dead("dead"), Up("y")>>)})
            EXCEPT !.deadline = 0, !.wait = 0]
ZippyConfigs == [nested |-> NestedChord, follow |-> Follow, shifted |-> Shifted, graphic |-> Graphic]
\* with the chords that follow, twice over
WithFollowing(chords) == chords \cup UNION {ch.then : ch \in chords}
ChordsAndFollowing ==
    WithFollowing(WithFollowing(UNION {ZippyConfigs[c].chords : c \in DOMAIN ZippyConfigs}))

-----------------------------------------------------------------------------
(* Switch: expressions of up to three operators                            *)

A == Test("key", <<30>>)
B == Test("input", <<1, 5>>)

Op(op, args) == [op |-> op, args |-> args]
Ops(argss) == {Op(op, args) : op \in {"or", "and", "not"}, args \in argss}
UpTo2(S) == {<<x>> : x \in S} \cup S \X S

Tests == {A, B}
Flat == Tests \cup Ops(UpTo2(Tests))
Nested == Ops(UpTo2(Flat))
\* a third operator around, with a test before and after
Deep == Ops({<<e>> : e \in Nested} \cup {<<A, e>> : e \in Nested} \cup {<<e, B>> : e \in Nested})
OneCase(e) == <<[expr |-> e, brk |-> TRUE]>>

Cases == {[expr |-> es, brk |-> b] : es \in {<<>>, <<A>>, <<B>>, <<Op("not", <<A>>)>>}, b \in BOOLEAN}
\* every kind of test, as it is and negated
Kinds == {Test("keyHistory", <<30, 1>>), Test("keyHistory", <<766, 6>>), Test("ticksLt", <<0, 9000>>),
          Test("ticksLt", <<7, 300>>), Test("ticksGt", <<7, 63000>>), Test("ticksGt", <<0, 8100>>),
          Test("inputHistory", <<0, 5, 1>>), Test("inputHistory", <<0, 1023, 7>>), Test("layer", <<0>>),
          Test("layer", <<12288>>), Test("baseLayer", <<7>>), Test("device", <<1, 1>>), Test("device", <<255, 7>>)}

AllSwitches ==
    {OneCase(<<e>>) : e \in Nested \cup Deep} \cup {OneCase(es) : es \in Flat \X Flat}
    \cup Cases \X Cases \X Cases
    \cup {OneCase(<<Op("and", <<k, Op("not", <<A>>)>>)>>) : k \in Kinds}

H(e, t) == [event |-> e, ticks |-> t]
World(keys, ins, hist, layer) ==
    [keys |-> keys, inputs |-> ins, keyHistory |-> [i \in 1..8 |-> H(hist[(i % 2) + 1], i * 8000)],
     inputHistory |-> [i \in 1..8 |-> H(<<(i % 2), IF i = 8 THEN 1023 ELSE 5>>, i)],
     layers |-> <<layer, 7>>, baseLayer |-> 7, devices |-> <<0, 1, 0, 0, 0, 0, 0, 255>>]
AllWorlds ==
    {World(ks, is, <<30, 766>>, 12288) : ks \in {{}, {30}}, is \in {{}, {<<1, 5>>}}}

-----------------------------------------------------------------------------
(* The processing loop: every configuration maps every physical key        *)

AllMapped == [c \in Cfgs |-> Keys \ VKeys]

-----------------------------------------------------------------------------
\* without a case to look at
NoSwitch ==
    /\ cases = <<>> /\ theWorld = CHOOSE w \in Worlds : TRUE
    /\ case = 1 /\ ops = <<>> /\ m = Started(<<>>) /\ chosen = <<>> /\ turns = 0

\* a part that does not run has one state to start from
PartsInit ==
    /\ part \in {"macros", "zippy", "switch", "loop"}
    /\ MacroInit /\ (part # "macros" => mc = Instances["limit"])
    /\ ZippyInit /\ (part # "zippy" => zc = ZippyConfigs["nested"])
    /\ IF part = "switch" THEN SwitchInit ELSE NoSwitch
    /\ Init

PartsNext ==
    /\ \/ part = "macros" /\ MacroNext /\ UNCHANGED <<zippyVars, switchVars, vars>>
       \/ part = "zippy" /\ ZippyNext /\ UNCHANGED <<macroVars, switchVars, vars>>
       \/ part = "switch" /\ SwitchNext /\ UNCHANGED <<macroVars, zippyVars, vars>>
       \/ part = "loop" /\ Next /\ UNCHANGED <<macroVars, zippyVars, switchVars>>
    /\ UNCHANGED part

PartsSpec ==
    PartsInit /\ [][PartsNext]_<<macroVars, zippyVars, switchVars, vars, part>>
=============================================================================
