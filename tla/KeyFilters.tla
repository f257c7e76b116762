----------------------------- MODULE KeyFilters -----------------------------
(***************************************************************************)
(* What lies between the keys of the layout and the keys sent to the OS:   *)
(* the global overrides of cfg/key_override.rs, unmod and unshift, and     *)
(* caps-word.  The keys in effect are a sequence, in their order.          *)
(***************************************************************************)
EXTENDS Layout

(* A configuration also has                                                *)
(*   overrides      their sequence, each with the key and the modifiers    *)
(*                  mods it replaces, the keys out it sends, and the       *)
(*                  modifiers notMods and layers notLayers that exclude it *)
(*   overrideReleases  override-release-on-activation                      *)

Without(ks, S) == SelectSeq(ks, LAMBDA k : k \notin S)
AddNew(ks, more) == FoldLeft(LAMBDA acc, k : IF Contains(acc, k) THEN acc ELSE Append(acc, k), ks, more)

-----------------------------------------------------------------------------
(* OverrideStates: add and remove, after a scan of the keys in which an    *)
(* override sees the modifiers in front of its key.                        *)
Applies(o, k, mods, layer) ==
    /\ o.key = k /\ o.mods \subseteq mods
    /\ o.notMods \cap mods = {} /\ layer \notin o.notLayers

\* Seeded fault: a modifier behind the key counts as well.
ScanKeysAllMods(ks, layer) ==
    LET mods == ToSet(ks) \cap Modifiers
        scan(acc, k) ==
          LET os == SelectSeq(conf.overrides, LAMBDA o : Applies(o, k, mods, layer))
          IN  IF k \in Modifiers \/ os = <<>> THEN acc
              ELSE [acc EXCEPT !.add = AddNew(@, Last(os).out),
                               !.remove = @ \cup Last(os).mods \cup {k}]
    IN  FoldLeft(scan, [mods |-> mods, add |-> <<>>, remove |-> {}], ks)

ScanKeys(ks, layer) ==
    LET scan(acc, k) ==
          LET os == SelectSeq(conf.overrides, LAMBDA o : Applies(o, k, acc.mods, layer))
          IN  IF k \in Modifiers THEN [acc EXCEPT !.mods = @ \cup {k}]
              ELSE IF os = <<>> THEN acc
              ELSE [acc EXCEPT !.add = AddNew(@, Last(os).out),
                               !.remove = @ \cup Last(os).mods \cup {k}]
    IN  FoldLeft(scan, [mods |-> {}, add |-> <<>>, remove |-> {}], ks)

OverrideKeys(ks, scanned) == Without(ks, scanned.remove) \o scanned.add

\* Seeded fault: a key that was overridden stays until it is released.
MarkOverriddenNever(L, ks) == L

\* the key that was overridden goes with the next action or release
MarkOverridden(L, ks) ==
    [L EXCEPT !.states = [i \in DOMAIN @ |->
        IF @[i].k = "key" /\ @[i].v \in ks \ Modifiers
        THEN [@[i] EXCEPT !.clear = TRUE, !.clearRel = TRUE] ELSE @[i]]]

\* override-release-on-activation
ReleaseOverridden(L, ks) ==
    IF ~conf.overrideReleases THEN L
    ELSE [L EXCEPT !.states = SelectSeq(@, LAMBDA s :
                                ~(s.k \in {"key", "fake"} /\ s.v \in ks \ Modifiers))]

-----------------------------------------------------------------------------
(* unmod and unshift: the keys sent without modifiers, the modifiers that  *)
(* the latest unmod takes away.                                            *)
NoUnmod == [keys |-> <<>>, mods |-> {}, shiftKeys |-> <<>>]

PressUnmod(u, a) ==
    CASE a.k = "unmod"   -> [u EXCEPT !.keys = @ \o a.keys, !.mods = a.mods]
      [] a.k = "unshift" -> [u EXCEPT !.shiftKeys = @ \o a.keys]
      [] OTHER -> u

ReleaseUnmod(u, a) ==
    CASE a.k = "unmod"   -> [u EXCEPT !.keys = Without(@, ToSet(a.keys))]
      [] a.k = "unshift" -> [u EXCEPT !.shiftKeys = Without(@, ToSet(a.keys))]
      [] OTHER -> u

Unmodded(ks, u) == IF u.keys = <<>> THEN ks ELSE Without(ks, u.mods) \o u.keys
Unshifted(ks, u) ==
    IF u.shiftKeys = <<>> THEN ks ELSE Without(ks, {"lsft", "rsft"}) \o u.shiftKeys

-----------------------------------------------------------------------------
(* CapsWordState: the action a that started it and the ticks left.         *)
NoCapsWord == [on |-> FALSE]
NewCapsWord(a) == [on |-> TRUE, cap |-> a.cap, stays |-> a.stays, timeout |-> a.timeout,
                   left |-> a.timeout]

Capitalizes(cw, ks) == ks # <<>> /\ Last(ks) \in cw.cap
CapsWordEnds(cw, ks) == cw.left = 0 \/ ~(ToSet(ks) \subseteq cw.cap \cup cw.stays)

\* tick_maybe_add_lsft
CapsWordKeys(cw, ks) ==
    IF cw.on /\ ~CapsWordEnds(cw, ks) /\ Capitalizes(cw, ks) THEN <<"lsft">> \o ks ELSE ks
\* Seeded fault: the timeout restarts with each key but does not run down.
TickCapsWordNever(cw, ks) ==
    IF ~cw.on THEN cw ELSE IF CapsWordEnds(cw, ks) THEN NoCapsWord ELSE cw

TickCapsWord(cw, ks) ==
    IF ~cw.on THEN cw
    ELSE IF CapsWordEnds(cw, ks) THEN NoCapsWord
    ELSE [cw EXCEPT !.left = (IF ks = <<>> THEN @ ELSE cw.timeout) - 1]
=============================================================================
