---------------------------- MODULE SequenceMode ----------------------------
(***************************************************************************)
(* Sequences (kanata/sequences.rs): after a leader key the keys pressed    *)
(* are looked up among the configured sequences, and a completed sequence  *)
(* taps a virtual key.  Two spellings of the keys are tracked side by side:*)
(* seq, the standard one, in which an item is a key with the modifiers     *)
(* held, and over, in which keys held together carry the overlap mark "O"  *)
(* and the item Marker says that all of them were released.                *)
(*                                                                         *)
(* The operators below change S, the state of the sequence mode, os, the   *)
(* keyboard output, and L, the layout, which are fields of one record K.   *)
(***************************************************************************)
EXTENDS Layout

CONSTANT Chars   \* the keys that type a character
OS == INSTANCE OsKeyboard

(* A configuration also has                                                *)
(*   seqs       the sequences, records of their items and virtual key vk   *)
(*   modcancel  sequence-backtrack-modcancel                               *)
(*   alwaysOn, seqMode, seqTimeout  the settings for sequences without a   *)
(*              leader                                                     *)

NoSequence ==
    [on |-> FALSE, mode |-> "suppressed", timeout |-> 0, left |-> 0,
     raw |-> <<>>, seq |-> <<>>, over |-> <<>>, noerase |-> 0]
Activate(mode, timeout) ==
    [NoSequence EXCEPT !.on = TRUE, !.mode = mode, !.timeout = timeout, !.left = timeout]

Item(k, ms) == [key |-> k, mods |-> ms]
Marker == Item("", {"O"})

\* get_mod_mask_for_cur_keys
ModOf(k) ==
    CASE k \in {"lsft", "rsft"} -> {"S"} [] k \in {"lctl", "rctl"} -> {"C"}
      [] k = "lalt" -> {"A"} [] k = "ralt" -> {"AG"}
      [] k \in {"lmet", "rmet"} -> {"G"} [] OTHER -> {}
ModMask(ks) == UNION {ModOf(ks[i]) : i \in DOMAIN ks}
LeftKey(k) ==
    CASE k = "rsft" -> "lsft" [] k = "rmet" -> "lmet" [] k = "rctl" -> "lctl" [] OTHER -> k

\* Trie::get_or_descendant_exists; no sequence is the beginning of another
Lookup(items) ==
    LET below == {s \in conf.seqs : IsPrefix(items, s.items)}
        found == {s \in below : s.items = items}
    IN  IF below = {} THEN [r |-> "none"]
        ELSE IF found = {} THEN [r |-> "inTrie"]
        ELSE [r |-> "value", vk |-> (CHOOSE s \in found : TRUE).vk]
Known(items) == Lookup(items).r # "none"
Complete(items) == Lookup(items).r = "value"

-----------------------------------------------------------------------------
(* The standard spelling: if it is unknown, the modifiers or the overlap   *)
(* marks are taken away, from the back, until it is known.                 *)
Relaxed(seq, i) ==
    IF seq[i] = Marker THEN RemoveAt(seq, i)
    ELSE [seq EXCEPT ![i].mods = IF conf.modcancel THEN {} ELSE @ \ {"O"}]
Backtrack(seq) ==
    FoldLeft(LAMBDA s, i : IF Known(s) THEN s ELSE Relaxed(s, i),
             seq, Reverse([i \in DOMAIN seq |-> i]))

(* The overlapping spelling: the key is held together with the ones before *)
(* it, or they end here and it starts anew, with or without modifiers.     *)
Overlapped(over, item) ==
    LET both == Item(item.key, {"O"})
        tries == << over \o <<both>>, over \o <<Marker, both>>, over \o <<Marker, item>>,
                    over \o <<Marker, Item(item.key, {})>> >>
        fits == {i \in DOMAIN tries : Known(tries[i])}
    IN  tries[IF fits = {} THEN 4 ELSE FirstOf(fits)]

\* Seeded fault: the last key is dropped, not the first one.
FromFrontBack(seq) ==
    LET tails == {i \in DOMAIN seq : Known(SubSeq(seq, 1, Len(seq) - i)) /\ i < Len(seq)}
    IN  IF Known(seq) THEN seq
        ELSE IF tails = {} THEN <<>> ELSE SubSeq(seq, 1, Len(seq) - FirstOf(tails))

\* the longest known tail of an unknown spelling, if any
FromFront(seq) ==
    LET tails == {i \in DOMAIN seq : Known(SubSeq(seq, i, Len(seq)))}
    IN  IF tails = {} THEN <<>> ELSE SubSeq(seq, FirstOf(tails), Len(seq))

\* a spelling that is lost takes over the other one
Reconcile(S, seq, over) ==
    LET ended == over # <<>> /\ Last(over) # Marker /\ Last(over).mods # {}
    IN  IF Known(seq)
        THEN [S EXCEPT !.seq = seq, !.over = IF Known(over) THEN over ELSE seq]
        ELSE IF Known(over)
        THEN [S EXCEPT !.seq = over \o (IF ended THEN <<Marker>> ELSE <<>>), !.over = over]
        ELSE [S EXCEPT !.seq = FromFront(seq), !.over = over]

-----------------------------------------------------------------------------
(* The end of a sequence.                                                  *)
DropKeys(L, kcs) == [L EXCEPT !.states = SelectSeq(@, LAMBDA s : ~(s.k = "key" /\ s.v \in kcs))]

Typed(items) == SelectSeq(items, LAMBDA it : it # Marker /\ it.key \notin Modifiers)
TapAll(os, ks) == FoldLeft(OS!OsTap, os, ks)
\* Seeded fault: the end of keys held together counts as a character.
BackspacesForMarker(items, noerase) ==
    [i \in 1..Sub(Len(items), noerase) |-> "bspc"]

Backspaces(items, noerase) ==
    [i \in 1..Sub(Len(Typed(items)), noerase) |-> "bspc"]

\* with visible-backspaced, modifiers other than shift are released first
EraseTyped(K, items) ==
    LET held == {"lctl", "rctl", "lalt", "ralt", "lmet", "rmet"}
        down == SelectSeq(K.L.states, LAMBDA s : s.k = "key" /\ s.v \in held)
        os == FoldLeft(LAMBDA acc, s : OS!OsRelease(acc, s.v), K.os, down)
    IN  IF K.seq.mode # "visible" THEN K
        ELSE [K EXCEPT !.L = DropKeys(@, held),
                       !.os = TapAll(os, Backspaces(items, K.seq.noerase))]

\* the press goes to the front last, in front of the release
TapToFront(L, coord) ==
    FoldLeft(LAMBDA acc, press : EventToFront(acc, press, coord), L, <<FALSE, TRUE>>)

\* do_successful_sequence_termination; done is observed only
Terminate(K, items) ==
    LET ks == {items[i].key : i \in DOMAIN items} \ {""}
        ended(K1) == [K1 EXCEPT !.L = TapToFront(DropKeys(@, ks), Lookup(items).vk), !.done = items]
    IN  ended(EraseTyped([K EXCEPT !.seq.on = FALSE], items))

CancelSequence(K) ==
    [K EXCEPT !.seq.on = FALSE,
              !.os = IF K.seq.mode = "delayType" THEN TapAll(@, K.seq.raw) ELSE @]

-----------------------------------------------------------------------------
(* do_sequence_press_logic.  A simultaneous completion goes first.         *)
Finish(K) ==
    LET S == K.seq
        over == IF Complete(S.over) THEN S.over ELSE S.over \o <<Marker>>
        items == IF Complete(over) THEN over ELSE S.seq
    IN  IF Complete(S.over) \/ Complete(S.seq)
        THEN Terminate([K EXCEPT !.seq.over = over], items) ELSE K
AdvanceSequence(K) ==
    IF K.seq.seq = <<>> /\ ~Known(K.seq.over) THEN CancelSequence(K) ELSE Finish(K)

SequencePress(K, k, mask) ==
    LET item == Item(LeftKey(k), mask)
        S == [K.seq EXCEPT !.left = K.seq.timeout, !.raw = Append(@, k)]
    IN  AdvanceSequence(
          [K EXCEPT !.seq = Reconcile(S, Backtrack(Append(S.seq, item)), Overlapped(S.over, item)),
                    !.os = IF S.mode = "visible" THEN OS!OsPress(@, k) ELSE @])

(* All keys are up: the keys held together so far end here.                *)
OverlapEnds(K) ==
    LET over == K.seq.over \o <<Marker>>
    IN  IF K.cur # <<>> \/ K.prev = <<>> \/ ~K.seq.on THEN K
        ELSE IF Complete(over) THEN Terminate([K EXCEPT !.seq.over = over], over)
        ELSE [K EXCEPT !.seq.over = IF Known(over) THEN over ELSE K.seq.seq]

\* Seeded fault: the timeout does not end the sequence.
TickSequenceNever(K) ==
    IF ~K.seq.on THEN K ELSE [K EXCEPT !.seq.left = Dec(@)]

TickSequence(K) ==
    IF ~K.seq.on THEN K
    ELSE IF K.seq.left = 1 THEN CancelSequence([K EXCEPT !.seq.left = 0])
    ELSE [K EXCEPT !.seq.left = @ - 1]
=============================================================================
