----------------------------- MODULE OsKeyboard -----------------------------
(***************************************************************************)
(* The OS behind the virtual keyboard that kanata writes to, as far as its *)
(* user can see it: the keys that are down and the text in front of the    *)
(* cursor.  A press of a key that is down changes nothing, as in the input *)
(* core of Linux.  erased counts the backspaces that found no text.        *)
(***************************************************************************)
EXTENDS Integers, Sequences, SequencesExt

CONSTANT Chars   \* the keys that type a character

Shifts == {"lsft", "rsft"}
ModifierKeys == Shifts \cup {"lctl", "rctl", "lalt", "ralt", "lmet", "rmet"}

OsNew == [down |-> {}, text |-> <<>>, erased |-> 0]

\* a character: the key, and the modifiers that choose its variant
CharOf(os, k) == <<k, (os.down \cap Shifts) # {}, "ralt" \in os.down>>
Shortcut(os) == os.down \cap {"lctl", "rctl", "lalt", "lmet", "rmet"} # {}

Erase(os) ==
    IF os.text = <<>> THEN [os EXCEPT !.erased = @ + 1] ELSE [os EXCEPT !.text = Front(@)]
Type(os, k) ==
    IF k = "bspc" THEN Erase(os)
    ELSE IF k \in Chars /\ ~Shortcut(os) THEN [os EXCEPT !.text = Append(@, CharOf(os, k))]
    ELSE os

OsPress(os, k) == IF k \in os.down THEN os ELSE [Type(os, k) EXCEPT !.down = @ \cup {k}]
OsRelease(os, k) == [os EXCEPT !.down = @ \ {k}]
OsTap(os, k) == OsRelease(OsPress(os, k), k)
=============================================================================
