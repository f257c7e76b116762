------------------------------ MODULE MCLayout ------------------------------
(***************************************************************************)
(* Small configurations of the layout for TLC.                             *)
(***************************************************************************)
EXTENDS LayoutSystem, TLC

K1 == <<0, 1>>
K2 == <<0, 2>>
K3 == <<0, 3>>

Key(kc) == [k |-> "key", v |-> kc]
Chord(kcs) == [k |-> "keys", v |-> kcs]
Trans == [k |-> "trans"]
NoOp == [k |-> "noop"]
Lyr(l) == [k |-> "layer", v |-> l]
Cust(v) == [k |-> "custom", v |-> v]
Multi(as) == [k |-> "multi", actions |-> as]
TapHold(cfg, interval, t, tap, hold, toact) ==
    [k |-> "holdtap", cfg |-> cfg, interval |-> interval, timeout |-> t, tap |-> tap,
     hold |-> hold, toact |-> toact, reset |-> 0, buffer |-> 1, idle |-> 0]
TapHoldKey(t, tap, hold) == TapHold("default", 0, t, Key(tap), Key(hold), Key(hold))
TapHoldBy(closure, t, tap, hold) ==
    [k |-> "holdtap", cfg |-> "custom", interval |-> 0, timeout |-> t, tap |-> Key(tap),
     hold |-> Key(hold), toact |-> Key(hold), reset |-> 0, closure |-> closure, idle |-> 0]
OneShot(t, end, a) == [k |-> "oneshot", timeout |-> t, endCfg |-> end, action |-> a]
TapDance(t, as, eager) == [k |-> "tapdance", timeout |-> t, actions |-> as, eager |-> eager]

\* one layer with the given actions, and a layer "nav"
Conf(base, nav, rapid) ==
    [coords |-> DOMAIN base, layers |-> [base |-> base, nav |-> nav],
     src |-> [c \in DOMAIN base |-> Key(CASE c = K1 -> "s1" [] c = K2 -> "s2" [] OTHER -> "s3")],
     macros |-> [m |-> << [t |-> "press", v |-> "x"], [t |-> "delay", ms |-> 2],
                          [t |-> "tap", v |-> "y"], [t |-> "custom", v |-> "c1"],
                          [t |-> "release", v |-> "x"], [t |-> "complete"] >>],
     rapid |-> rapid, quick |-> FALSE, transV2 |-> TRUE, delegate |-> FALSE,
     customs |-> {"c1", "c2"}, queueSize |-> 32, perKey |-> 3, holdCap |-> 0,
     chordOf |-> <<>>, reads |-> {}, keyTiming |-> rapid]
Keys2(a1, a2) == K1 :> a1 @@ K2 :> a2
AllTrans == Keys2(Trans, Trans)

TapHoldLayer == TapHold("default", 0, 3, Key("a"), Lyr("nav"), Lyr("nav"))
Permissive == TapHold("permissive", 2, 3, Key("b"), Key("lctl"), Key("lctl"))
OnOtherPress == TapHold("otherPress", 0, 2, Key("b"), Cust("c1"), NoOp)
\* tap-hold-order; its timeout of 65535 is scaled down
InOrder == TapHold("order", 0, 4, Key("b"), Key("lctl"), Key("b"))
Macro(m) == [k |-> "macro", macro |-> m]
MacroRepeat(m) == [k |-> "macroRpt", macro |-> m]
Fork(l, r, ts) == [k |-> "fork", left |-> l, right |-> r, triggers |-> ts]
Pause(t) == [k |-> "ignore", ticks |-> t]
RptAny == [k |-> "repeat"]
ByRelease(taps) == [fn |-> "release", tapOnPress |-> taps]
ByKeys(taps, releases, holds) ==
    [fn |-> "keys", tapOnPress |-> taps, tapOnPressRelease |-> releases, holdOnPress |-> holds]
ByHands(fn, same, unknown) ==
    [fn |-> fn, hands |-> (1 :> "left" @@ 2 :> "right"), neutral |-> {3},
     verdict |-> [same |-> same, opposite |-> "hold", unknown |-> unknown, neutral |-> "ignore"]]
ChordKey(t, keys, chords) == [k |-> "chords", timeout |-> t, keys |-> keys, chords |-> chords]
ChordAction(keys, a) == [keys |-> keys, action |-> a]
Test(kind, v) == [k |-> kind, v |-> v]
Case(expr, brk, a) == [expr |-> expr, brk |-> brk, action |-> a]
\* after a key within two ticks; pressed twice in a row; otherwise
Switching ==
    [k |-> "switch",
     cases |-> << Case(<<Test("ticksLt", <<0, 2>>)>>, FALSE, Cust("c1")),
                  Case(<<[op |-> "and", args |-> <<Test("inputHistory", <<0, 1, 1>>),
                                                   [op |-> "not", args |-> <<Test("key", <<"n">>)>>]>>]>>,
                       TRUE, Lyr("nav")),
                  Case(<<>>, FALSE, Key("a")) >>]
Tapping == [TapHoldKey(3, "b", "lctl") EXCEPT !.idle = 2]
\* two keys that make a layer together; the second alone is not defined
LayerChords ==
    ChordKey(2, Keys2({"p"}, {"q"}), {ChordAction({"p"}, Key("a")),
                                      ChordAction({"p", "q"}, Multi(<<Lyr("nav"), Cust("c1")>>))})

Configs ==
    [ tapHoldLayer |-> Conf(Keys2(TapHoldLayer, Permissive), Keys2(Trans, Key("n")), 1),
      tapHoldCustom |-> Conf(Keys2(OnOtherPress, InOrder), AllTrans, 1),
      twoTapHolds |-> Conf(Keys2(Multi(<<Fork(TapHoldKey(2, "a", "lsft"), NoOp, {"n"}),
                                         TapHoldKey(2, "b", "lctl")>>), Key("n")), AllTrans, 1),
      oneShotPress |-> Conf(Keys2(OneShot(4, "press", Key("lsft")), Key("b")), AllTrans, 2),
      oneShotRelease |-> Conf(Keys2(OneShot(3, "release", Lyr("nav")),
                                    OneShot(4, "pressPcancel", Chord(<<"lctl", "lsft">>))),
                              Keys2(Trans, Multi(<<Key("b"), Cust("c1")>>)), 2),
      tapDance |-> Conf(Keys2(TapDance(2, <<Key("a"), Cust("c1"), Lyr("nav")>>, FALSE), Key("b")),
                        AllTrans, 1),
      tapDanceEager |-> Conf(Keys2(TapDance(2, <<Key("a"), Cust("c1")>>, TRUE), Key("b")),
                             AllTrans, 1),
      multiCustom |-> Conf(Keys2(Multi(<<Cust("c1"), Cust("c2"), Key("a")>>), [k |-> "src"]),
                           AllTrans, 1),
      macros |-> Conf(Keys2(Macro("m"), MacroRepeat("m")), AllTrans, 1),
      cancels |-> Conf(Keys2(MacroRepeat("m"), [k |-> "cancel"]), AllTrans, 1),
      tapHoldKeys |-> Conf(Keys2(TapHoldBy(ByKeys({}, {2}, {}), 3, "a", "lsft"),
                                 TapHoldBy(ByKeys({}, {}, {1}), 3, "b", "lctl")), AllTrans, 1),
      tapKeys |-> Conf(Keys2(TapHoldBy(ByRelease({2}), 2, "a", "lsft"),
                             TapHoldBy([fn |-> "tapKeys", tapOnPress |-> {1}], 2, "b", "lctl")),
                       AllTrans, 1),
      hands |-> Conf(Keys2(TapHoldBy(ByHands("oppositeHand", "tap", "ignore"), 3, "a", "lsft"),
                           TapHoldBy(ByHands("oppositeHandRelease", "tap", "hold"), 3, "b", "lctl")),
                     AllTrans, 1),
      except |-> Conf(Keys2(TapHoldBy([fn |-> "except", tapOnPress |-> {2}], 2, "a", "lsft"),
                            TapHoldBy([fn |-> "except", tapOnPress |-> {}], 2, "b", "lctl")), AllTrans, 1),
      priorIdle |-> [Conf(Keys2([Tapping EXCEPT !.tap = Key("a")], Tapping), AllTrans, 1)
                       EXCEPT !.reads = {"streak"}, !.keyTiming = 2],
      switch |-> [Conf(Keys2(Switching, Key("b")), Keys2(Trans, Key("n")), 1)
                    EXCEPT !.reads = {"keys", "inputs"}, !.keyTiming = 2],
      layerChord |-> Conf(Keys2(LayerChords, LayerChords), Keys2(Trans, Key("n")), 1),
      chord |-> Conf(Keys2(Chord(<<"lsft", "b">>), Key("b")), AllTrans, 1),
      fork |-> Conf(Keys2(Fork(Key("a"), Lyr("nav"), {"b"}), Multi(<<Key("b"), Pause(2)>>)),
                    Keys2([k |-> "release", what |-> "key", v |-> "b"], RptAny), 1),
      layers |-> Conf(Keys2([k |-> "dflt", v |-> "nav"], Lyr("nav")),
                      Keys2([k |-> "dflt", v |-> "base"],
                            [k |-> "release", what |-> "layer", v |-> "nav"]), 1)]

\* two plain tap-holds and an ordinary key, for TapHoldByHeldTime
TimingBase == K1 :> TapHoldKey(2, "a", "lsft") @@ K2 :> TapHoldKey(2, "b", "lctl") @@ K3 :> Key("n")
Timing == [Conf(TimingBase, TimingBase, 1) EXCEPT !.perKey = 1, !.holdCap = 4]
TimingConfigs == [plain |-> Timing, concurrent |-> [Timing EXCEPT !.quick = TRUE]]

\* a one-shot and two ordinary keys, for OneShotSingleUse
OneShotBase(end) == K1 :> OneShot(4, end, Key("lsft")) @@ K2 :> Key("b") @@ K3 :> Key("n")
OneShotUse(end, rapid) == [Conf(OneShotBase(end), OneShotBase(end), rapid) EXCEPT !.perKey = 1]
OneShotConfigs == [osPress |-> OneShotUse("press", 2), osCancel |-> OneShotUse("pressPcancel", 1)]

\* three keys of which only the first two, or the last two, make a chord,
\* for EveryPressCounts
ThreeChords ==
    ChordKey(2, K1 :> {"p"} @@ K2 :> {"q"} @@ K3 :> {"r"},
             {ChordAction({"p"}, Cust("p")), ChordAction({"q"}, Cust("q")),
              ChordAction({"r"}, Cust("r")), ChordAction({"p", "q"}, Cust("pq")),
              ChordAction({"q", "r"}, Cust("qr"))})
ChordBase == K1 :> ThreeChords @@ K2 :> ThreeChords @@ K3 :> ThreeChords
ChordParts == [p |-> {K1}, q |-> {K2}, r |-> {K3}, pq |-> {K1, K2}, qr |-> {K2, K3}]
ChordUse == [Conf(ChordBase, ChordBase, 2) EXCEPT !.perKey = 1,
              !.customs = DOMAIN ChordParts, !.chordOf = ChordParts]
ChordConfigs == [chords |-> ChordUse]

AllConfigs == Configs @@ TimingConfigs @@ OneShotConfigs @@ ChordConfigs
=============================================================================
