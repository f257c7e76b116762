------------------------------ MODULE MCKanata ------------------------------
(***************************************************************************)
(* Small configurations of Kanata for TLC.                                 *)
(***************************************************************************)
EXTENDS KanataSystem, TLC

K1 == <<0, 1>>
K2 == <<0, 2>>
K3 == <<0, 3>>
V == <<1, 1>>    \* a virtual key

Key(kc) == [k |-> "key", v |-> kc]
Chord(kcs) == [k |-> "keys", v |-> kcs]
Cust(v) == [k |-> "custom", v |-> v]
Multi(as) == [k |-> "multi", actions |-> as]

\* three keys with the actions a1, a2 and a3, and a virtual key
Keys3(a1, a2, a3, vk) == K1 :> a1 @@ K2 :> a2 @@ K3 :> a3 @@ V :> vk
Conf(base, acts) ==
    [coords |-> DOMAIN base, phys |-> {K1, K2, K3}, layers |-> [base |-> base],
     src |-> base, macros |-> [m |-> << [t |-> "press", v |-> "lalt"], [t |-> "tap", v |-> "c"],
                                        [t |-> "delay", ms |-> 4], [t |-> "release", v |-> "lalt"],
                                        [t |-> "complete"] >>],
     rapid |-> 1, quick |-> FALSE, transV2 |-> TRUE, delegate |-> FALSE, queueSize |-> 32,
     overrides |-> <<>>, overrideReleases |-> FALSE,
     seqs |-> {}, modcancel |-> TRUE, alwaysOn |-> FALSE, seqMode |-> "visible", seqTimeout |-> 3,
     reads |-> {}, keyTiming |-> 1,
     acts |-> acts, name |-> "", perKey |-> 2, quietCap |-> 0]

NoActs == <<>>
Plain(k) == << <<k, FALSE, FALSE>> >>
Shifted(k) == << <<k, TRUE, FALSE>> >>
AltGr(k) == << <<k, FALSE, TRUE>> >>

\* what a press types, by the keys held
Types3(t1(_), t2(_), t3(_)) ==
    LET held == SUBSET {K1, K2, K3}
    IN  K1 :> [S \in held |-> t1(S)] @@ K2 :> [S \in held |-> t2(S)] @@ K3 :> [S \in held |-> t3(S)]
Nothing(S) == <<>>

-----------------------------------------------------------------------------
(* Text: overrides, with and without a layer that excludes them; unmod and *)
(* unshift; an output chord.                                               *)
Override(ms, k, out) == [key |-> k, mods |-> ms, out |-> out, notMods |-> {}, notLayers |-> {}]
ShiftOr(k, S) == IF K1 \in S THEN Shifted(k) ELSE Plain(k)
OverrideTypes ==
    Types3(Nothing, LAMBDA S : IF K1 \in S THEN Plain("x") ELSE Plain("a"),
                    LAMBDA S : IF K1 \in S THEN AltGr("y") ELSE Plain("b"))
Overrides ==
    [Conf(Keys3(Key("lsft"), Key("a"), Key("b"), Key("v")), NoActs) EXCEPT
       !.overrides = << Override({"lsft"}, "a", <<"x">>), Override({"lsft"}, "b", <<"ralt", "y">>) >>]
ReleasingOverrides == [Overrides EXCEPT !.overrideReleases = TRUE, !.phys = {K1, K2}]

UnmodTypes ==
    Types3(Nothing, LAMBDA S : Plain("x"), LAMBDA S : IF K2 \in S THEN Plain("b") ELSE ShiftOr("b", S))
Unmods ==
    Conf(Keys3(Key("lsft"), Cust("ux"), Key("b"), Key("v")),
         [ux |-> [k |-> "unmod", keys |-> <<"x">>, mods |-> Modifiers]])
UnshiftTypes ==
    Types3(Nothing, LAMBDA S : IF K1 \in S /\ K3 \notin S THEN AltGr("x") ELSE Plain("x"),
                    LAMBDA S : IF K1 \in S /\ K2 \notin S THEN Shifted("y") ELSE Plain("y"))
Unshifts ==
    Conf(Keys3(Multi(<<Key("lsft"), Key("ralt")>>), Cust("ux"), Cust("uy"), Key("v")),
         [ux |-> [k |-> "unshift", keys |-> <<"x">>],
          uy |-> [k |-> "unmod", keys |-> <<"y">>, mods |-> {"ralt"}]])
OutputChordTypes ==
    Types3(LAMBDA S : Shifted("a"), LAMBDA S : Plain("c"), LAMBDA S : Plain("b"))
OutputChords ==
    [Conf(Keys3(Chord(<<"lsft", "a">>), Key("c"), Key("b"), Key("v")), NoActs) EXCEPT !.phys = {K1, K2}]

-----------------------------------------------------------------------------
(* Sequences.                                                              *)
DefSeq(items) == [items |-> items, vk |-> V]
Simple(ks) == [i \in DOMAIN ks |-> Item(ks[i], {})]
\* parse_sequences inserts every order of O-(...)
Together(k1, k2) ==
    {DefSeq(<<Item(k1, {"O"}), Item(k2, {"O"}), Marker>>), DefSeq(<<Item(k2, {"O"}), Item(k1, {"O"}), Marker>>)}
Leader(mode) == [sldr |-> [k |-> "leader", mode |-> mode, timeout |-> 3]]
Sequences(mode, seqs, a2, a3) ==
    [Conf(Keys3(Cust("sldr"), a2, a3, Key("v")), Leader(mode)) EXCEPT !.seqs = seqs]

VisibleSeq == Sequences("visible", {DefSeq(Simple(<<"a", "b">>)), DefSeq(Simple(<<"b", "b">>))}, Key("a"), Key("b"))
DelayTypeSeq == Sequences("delayType", {DefSeq(Simple(<<"a", "b">>))} \cup Together("a", "b"), Key("a"), Key("b"))
OverlapSeq == Sequences("visible", Together("a", "b"), Key("a"), Key("b"))
ShiftSeq == Sequences("visible", {DefSeq(<<Item("lsft", {"S"}), Item("a", {"S"}), Item("a", {"S"})>>)},
                      Key("rsft"), Key("a"))
CancelSeq == [Sequences("suppressed", {DefSeq(Simple(<<"a">>))}, Key("b"), Multi(<<Key("a"), Cust("stop")>>))
                EXCEPT !.acts = [stop |-> [k |-> "seqCancel"]] @@ @, !.perKey = 1]
AlwaysSeq == [Sequences("visible", {DefSeq(Simple(<<"a", "a">>)), DefSeq(Simple(<<"b", "b">>))}, Key("a"), Key("b")) EXCEPT !.alwaysOn = TRUE,
                !.modcancel = FALSE]

-----------------------------------------------------------------------------
(* Modes and timers.                                                       *)
CapsWordAct(toggle) == [k |-> "capsWord", toggle |-> toggle, cap |-> {"a", "b"}, stays |-> {"y"}, timeout |-> 3]
CapsWords == Conf(Keys3(Cust("cw"), Key("a"), Key("y"), Key("v")), [cw |-> CapsWordAct(FALSE)])
Repeats == Conf(Keys3(Cust("rpt"), Key("a"), Cust("cw"), Key("v")),
                [rpt |-> [k |-> "repeatKey"], cw |-> CapsWordAct(FALSE)])
Mouse == [Conf(Keys3(Cust("up"), Cust("down"), Cust("left"), Key("v")),
               [up |-> [k |-> "wheel", axis |-> "v", dir |-> 1, interval |-> 2],
                down |-> [k |-> "wheel", axis |-> "v", dir |-> 2, interval |-> 3],
                left |-> [k |-> "move", axis |-> "h", dir |-> 1, interval |-> 2]]) EXCEPT !.perKey = 1]
VKey(kind, action) == [k |-> kind, action |-> action, coord |-> V]
VKeys == [Conf(Keys3(Multi(<<Cust("press"), Cust("release")>>), Cust("toggle"), Key("b"), Key("v")),
               [press |-> VKey("vkey", "press"), release |-> VKey("vkeyOnRelease", "release"),
                toggle |-> VKey("vkey", "toggle")]) EXCEPT !.phys = {K1, K2}]
Idle == [Conf(Keys3(Cust("idle"), Multi(<<Key("a"), Cust("hold")>>), Key("b"), Key("v")),
              [idle |-> [k |-> "onIdle", action |-> "tap", coord |-> V, duration |-> 2],
               hold |-> [k |-> "holdFor", coord |-> V, duration |-> 5]]) EXCEPT !.phys = {K1, K2}]
MacroCancel == [Conf(Keys3(Multi(<<[k |-> "macro", macro |-> "m"], Cust("cancel")>>), Key("a"), Key("b"), Key("v")),
                     [cancel |-> [k |-> "cancelOnPress", duration |-> 5]]) EXCEPT !.phys = {K1, K2}]

-----------------------------------------------------------------------------
(* What waits for a decision, with queues that overflow.                   *)
Layer(l) == [k |-> "layer", v |-> l]
TapHold(interval, tap, hold) ==
    [k |-> "holdtap", cfg |-> "default", interval |-> interval, timeout |-> 3, tap |-> tap,
     hold |-> hold, toact |-> hold, reset |-> 0, idle |-> 0]
Permissive(tap, hold) == [TapHold(2, tap, hold) EXCEPT !.cfg = "permissive"]
OneShot(a) == [k |-> "oneshot", timeout |-> 4, endCfg |-> "press", action |-> a]
TapDance(as, eager) == [k |-> "tapdance", timeout |-> 2, actions |-> as, eager |-> eager]
MacroRepeat == [k |-> "macroRpt", macro |-> "m"]
Overflowing(conf0) == [conf0 EXCEPT !.queueSize = 2, !.phys = {K1, K2}]

TapHolds == Conf(Keys3(TapHold(0, Key("a"), Key("lsft")), Permissive(Key("b"), Key("lctl")), Key("c"), Key("v")), NoActs)
Dances == Conf(Keys3(TapDance(<<Key("a"), OneShot(Key("lsft"))>>, FALSE),
                     TapDance(<<Key("b"), MacroRepeat>>, TRUE), Key("c"), Key("v")), NoActs)
Pair == [k |-> "chords", timeout |-> 2, keys |-> K1 :> {"p"} @@ K2 :> {"q"},
         chords |-> {[keys |-> {"p"}, action |-> Key("a")],
                     [keys |-> {"p", "q"}, action |-> OneShot(Key("lsft"))]}]
Pairs == Conf(Keys3(Pair, Pair, Key("c"), Key("v")), NoActs)

\* a tap-hold with require-prior-idle, after a key or after a layer key
AfterKey(a) ==
    [Conf(Keys3(a, [TapHold(0, Key("b"), Key("lctl")) EXCEPT !.idle = 2], Key("c"), Key("v")), NoActs)
       EXCEPT !.phys = {K1, K2}, !.perKey = 1, !.reads = {"streak"}, !.keyTiming = 2, !.quietCap = 4]

TextTypes ==
    [ overrides |-> OverrideTypes, releasingOverrides |-> OverrideTypes,
      unmods |-> UnmodTypes, unshifts |-> UnshiftTypes, outputChords |-> OutputChordTypes ]
Named(configs) == [c \in DOMAIN configs |-> [configs[c] EXCEPT !.name = c]]

Configs == Named(
    [ overrides |-> Overrides, releasingOverrides |-> ReleasingOverrides,
      unmods |-> Unmods, unshifts |-> Unshifts, outputChords |-> OutputChords,
      visibleSeq |-> VisibleSeq, delayTypeSeq |-> DelayTypeSeq, overlapSeq |-> OverlapSeq,
      shiftSeq |-> ShiftSeq, cancelSeq |-> CancelSeq, alwaysSeq |-> AlwaysSeq,
      capsWords |-> CapsWords, repeats |-> Repeats, mouse |-> Mouse, vkeys |-> VKeys,
      idle |-> Idle, macroCancel |-> MacroCancel,
      tapHolds |-> Overflowing(TapHolds), dances |-> Overflowing(Dances),
      pairs |-> Overflowing(Pairs), afterKey |-> AfterKey(Key("a")) ])

\* a macro that is cancelled by the release of its key
ReleaseCancel == Named(
    [releaseCancel |->
       Conf(Keys3(Multi(<<[k |-> "macro", macro |-> "m"], Cust("cancel")>>), Key("a"), Key("b"), Key("v")),
            [cancel |-> [k |-> "cancelOnRelease"]])])

\* a tap-hold with require-prior-idle after a key that outputs no key code
AfterLayerKey == Named([afterLayerKey |-> AfterKey(Layer("base"))])
=============================================================================
