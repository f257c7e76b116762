-------------------------- MODULE TapHoldClosures --------------------------
(***************************************************************************)
(* The early decisions of the tap-hold variants that name keys or hands    *)
(* (parser/src/cfg/custom_tap_hold.rs): closures from the queue and the    *)
(* coordinate of the waiting key to a verdict.                             *)
(*                                                                         *)
(* A closure is a record with the name fn of its variant and, as far as    *)
(* the variant needs them, sets of columns                                 *)
(*   tapOnPress, tapOnPressRelease, holdOnPress                            *)
(* or for the variants of opposite hands                                   *)
(*   hands    hands[column], "left" or "right"                             *)
(*   neutral  the columns of neutral-keys                                  *)
(*   verdict  verdict[kind]: "tap", "hold" or "ignore"                     *)
(***************************************************************************)
EXTENDS Integers, Sequences

LOCAL RealRow == 0

\* the key of press i is released later in the queue
ReleasedLater(queue, i) ==
    \E j \in DOMAIN queue : j > i /\ ~queue[j].press /\ queue[j].coord = queue[i].coord

PermissiveVerdict(queue, i) == IF ReleasedLater(queue, i) THEN "hold" ELSE "ignore"

\* custom_tap_hold_release: only here a virtual key can make a hold
ReleaseVerdict(c, queue, i) ==
    IF queue[i].coord[1] = RealRow /\ queue[i].coord[2] \in c.tapOnPress THEN "tap"
    ELSE PermissiveVerdict(queue, i)

\* custom_tap_hold_keys, and custom_tap_hold_release_trigger_tap_release
\* with no keys that hold on press
KeysVerdict(c, queue, i) ==
    LET col == queue[i].coord[2] IN
    CASE queue[i].coord[1] # RealRow -> "ignore"
      [] col \in c.tapOnPress -> "tap"
      [] col \in c.holdOnPress \ c.tapOnPress -> "hold"
      [] OTHER -> IF col \in c.tapOnPressRelease /\ ReleasedLater(queue, i) THEN "tap"
                  ELSE PermissiveVerdict(queue, i)

\* custom_tap_hold_tap_keys
TapKeysVerdict(c, queue, i) == IF queue[i].coord[2] \in c.tapOnPress THEN "tap" ELSE "ignore"

HandOf(c, col) == IF col \in DOMAIN c.hands THEN c.hands[col] ELSE "neutral"
Kind(c, waiting, col) ==
    CASE col \in c.neutral -> "neutral"
      [] col \notin c.neutral /\ "neutral" \in {HandOf(c, waiting), HandOf(c, col)} -> "unknown"
      [] OTHER -> IF HandOf(c, waiting) = HandOf(c, col) THEN "same" ELSE "opposite"

\* custom_tap_hold_opposite_hand: the release variant waits for the release
\* of the key unless it is one of the same hand
HandVerdict(c, queue, i, kind) ==
    IF queue[i].coord[1] # RealRow
       \/ (c.fn = "oppositeHandRelease" /\ kind # "same" /\ ~ReleasedLater(queue, i))
    THEN "ignore" ELSE c.verdict[kind]

PressVerdict(c, coord, queue, i) ==
    CASE c.fn = "release" -> ReleaseVerdict(c, queue, i)
      [] c.fn = "keys"    -> KeysVerdict(c, queue, i)
      [] c.fn \in {"tapKeys", "except"} -> TapKeysVerdict(c, queue, i)
      [] c.fn \in {"oppositeHand", "oppositeHandRelease"} ->
           HandVerdict(c, queue, i, Kind(c, coord[2], queue[i].coord[2]))

\* the presses that get to decide: with tap-hold-except-keys only the first
Considered(c, queue) ==
    LET presses == {i \in DOMAIN queue : queue[i].press}
    IN  IF c.fn = "except" THEN {i \in presses : \A j \in presses : i <= j} ELSE presses

\* the first press with a verdict decides
Closure(c, coord, queue) ==
    LET deciding == {i \in Considered(c, queue) : PressVerdict(c, coord, queue, i) # "ignore"}
    IN  IF deciding = {} THEN "none"
        ELSE PressVerdict(c, coord, queue, CHOOSE i \in deciding : \A j \in deciding : i <= j)

\* custom_tap_hold_except: no timeout as long as no other key is pressed
SkipsTimeout(c, queue) == c.fn = "except" /\ Considered(c, queue) = {}
=============================================================================
