---------------------------- MODULE OpCodeProofs ----------------------------
(***************************************************************************)
(* Proofs about the encoding of switch tests: every word is read back as   *)
(* what was written, and times are rounded down by less than the           *)
(* resolution that the comments promise.                                   *)
(***************************************************************************)
EXTENDS OpCode, TLAPS

(* lossy_compress_ticks fits into the ten bits it is given.                *)
LEMMA CompressedFits == ASSUME NEW t \in U16 PROVE LossyCompressTicks(t) \in 0..1023
<1>1. CASE t <= 255
  <2>1. t \in Int /\ 0 <= t
    BY DEF U16
  <2>2. LossyCompressTicks(t) = t
    BY <1>1 DEF LossyCompressTicks
  <2>3. t \in 0..1023
    BY <1>1, <2>1
  <2> QED BY <2>2, <2>3
<1>2. CASE 255 < t /\ t <= 2303
  <2>1. LossyCompressTicks(t) = (t - 255) \div 8 + 255
    BY <1>2 DEF LossyCompressTicks, U16
  <2> QED BY <1>2, <2>1 DEF U16
<1>3. CASE 2303 < t
  <2>1. LossyCompressTicks(t) = (t - 2303) \div 128 + 511
    BY <1>3 DEF LossyCompressTicks, U16
  <2> QED BY <1>3, <2>1 DEF U16
<1> QED BY <1>1, <1>2, <1>3 DEF U16

(* new_ticks_since_gt and _lt: exact below 256 ticks, within 8 below 2304, *)
(* within 128 above, and never rounded up.                                 *)
THEOREM TicksRoundDown ==
    ASSUME NEW t \in U16
    PROVE  LET r == LossyDecompressTicks(LossyCompressTicks(t))
           IN  /\ r <= t /\ t < r + 128
               /\ t < 2304 => t < r + 8
               /\ t < 256 => r = t
<1>1. CASE t <= 255
  BY <1>1 DEF U16, LossyCompressTicks, LossyDecompressTicks
<1>2. CASE 255 < t /\ t <= 2303
  BY <1>2 DEF U16, LossyCompressTicks, LossyDecompressTicks
<1>3. CASE 2303 < t
  BY <1>3 DEF U16, LossyCompressTicks, LossyDecompressTicks
<1> QED BY <1>1, <1>2, <1>3 DEF U16

-----------------------------------------------------------------------------
(* opcode_type reads the tests of one word back as what their constructors *)
(* were given, for all keys, recencies and times; times are rounded down.  *)
THEOREM OneWordReadBack ==
    ASSUME NEW kc \in 0..(KeyMax - 1), NEW n \in Recency, NEW t \in U16, NEW next
    PROVE  LET r == LossyDecompressTicks(LossyCompressTicks(t))
           IN  /\ TestOf(NewKey(kc)[1], next) = Test("key", <<kc>>)
               /\ TestOf(NewKeyHistory(kc, n)[1], next) = Test("keyHistory", <<kc, n>>)
               /\ TestOf(NewTicksSinceLt(n, t)[1], next) = Test("ticksLt", <<n, r>>)
               /\ TestOf(NewTicksSinceGt(n, t)[1], next) = Test("ticksGt", <<n, r>>)
<1> DEFINE c == LossyCompressTicks(t)
           history == 32768 + n * 4096 + kc
           lt == 24576 + n * 1024 + c
           gt == 16384 + n * 1024 + c
<1>1. c \in 0..1023
  BY CompressedFits
<1>2. TestOf(NewKey(kc)[1], next) = Test("key", <<kc>>)
  BY DEF TestOf, NewKey, KeyMax
<1>3. TestOf(NewKeyHistory(kc, n)[1], next) = Test("keyHistory", <<kc, n>>)
  <2>1. history % 4096 = kc /\ (history \div 4096) % 8 = n /\ history >= 32768
    BY DEF Recency, KeyMax
  <2>2. NewKeyHistory(kc, n)[1] = history
    BY DEF NewKeyHistory, HistoricalKeyVal
  <2> HIDE DEF history
  <2>3. history \in Nat
    BY DEF history, Recency, KeyMax
  <2>4. TestOf(history, next) = OneWord(history)
    BY <2>1, <2>3 DEF TestOf, HasTwoWords, KeyMax, MaxOpcodeLen
  <2>5. OneWord(history) = Test("keyHistory", <<history % 4096, (history \div 4096) % 8>>)
    BY <2>1, <2>3 DEF OneWord, HistoricalKeyVal, TicksLtVal, TicksGtVal
  <2> QED BY <2>1, <2>2, <2>4, <2>5
<1>4. TestOf(NewTicksSinceLt(n, t)[1], next) = Test("ticksLt", <<n, LossyDecompressTicks(c)>>)
  <2> HIDE DEF c
  <2>1. lt % 1024 = c /\ (lt \div 1024) % 8 = n /\ lt >= 24576 /\ lt < 32768 /\ lt \in Nat
    BY <1>1 DEF Recency
  <2>2. NewTicksSinceLt(n, t)[1] = lt
    BY DEF NewTicksSinceLt, TicksLtVal, c
  <2> HIDE DEF lt
  <2>3. TestOf(lt, next) = OneWord(lt)
    BY <2>1 DEF TestOf, HasTwoWords, KeyMax, MaxOpcodeLen
  <2>4. OneWord(lt) = Test("ticksLt", <<(lt \div 1024) % 8, LossyDecompressTicks(lt % 1024)>>)
    BY <2>1 DEF OneWord, HistoricalKeyVal, TicksLtVal
  <2> QED BY <2>1, <2>2, <2>3, <2>4
<1>5. TestOf(NewTicksSinceGt(n, t)[1], next) = Test("ticksGt", <<n, LossyDecompressTicks(c)>>)
  <2> HIDE DEF c
  <2>1. gt % 1024 = c /\ (gt \div 1024) % 8 = n /\ gt >= 16384 /\ gt < 24576 /\ gt \in Nat
    BY <1>1 DEF Recency
  <2>2. NewTicksSinceGt(n, t)[1] = gt
    BY DEF NewTicksSinceGt, TicksGtVal, c
  <2> HIDE DEF gt
  <2>3. TestOf(gt, next) = OneWord(gt)
    BY <2>1 DEF TestOf, HasTwoWords, KeyMax, MaxOpcodeLen
  <2>4. OneWord(gt) = Test("ticksGt", <<(gt \div 1024) % 8, LossyDecompressTicks(gt % 1024)>>)
    BY <2>1 DEF OneWord, HistoricalKeyVal, TicksLtVal, TicksGtVal
  <2> QED BY <2>1, <2>2, <2>3, <2>4
<1> QED BY <1>2, <1>3, <1>4, <1>5

(* It reads the tests of two words back, for all coordinates, recencies,   *)
(* layers and devices.                                                     *)
THEOREM TwoWordsReadBack ==
    ASSUME NEW row \in 0..3, NEW y \in 0..1023, NEW n \in Recency, NEW l \in U16, NEW id \in 1..255
    PROVE  /\ TestOf(NewActiveInput(row, y)[1], NewActiveInput(row, y)[2]) = Test("input", <<row, y>>)
           /\ TestOf(NewHistoricalInput(row, y, n)[1], NewHistoricalInput(row, y, n)[2])
                = Test("inputHistory", <<row, y, n>>)
           /\ TestOf(NewLayer(l)[1], NewLayer(l)[2]) = Test("layer", <<l>>)
           /\ TestOf(NewBaseLayer(l)[1], NewBaseLayer(l)[2]) = Test("baseLayer", <<l>>)
           /\ TestOf(NewDeviceHistory(id, n)[1], NewDeviceHistory(id, n)[2]) = Test("device", <<id, n>>)
<1> USE DEF TestOf, TwoWords, HasTwoWords, KeyMax, MaxOpcodeLen, InputVal, HistoricalInputVal,
            LayerVal, BaseLayerVal, HistoricalDeviceVal
<1>1. TestOf(NewActiveInput(row, y)[1], NewActiveInput(row, y)[2]) = Test("input", <<row, y>>)
  <2> DEFINE w == row * 16384 + y
  <2>1. w \div 16384 = row /\ w % 1024 = y
    OBVIOUS
  <2> HIDE DEF w
  <2> QED BY <2>1 DEF NewActiveInput, w
<1>2. TestOf(NewHistoricalInput(row, y, n)[1], NewHistoricalInput(row, y, n)[2])
        = Test("inputHistory", <<row, y, n>>)
  <2> DEFINE w == row * 16384 + n * 2048 + y
  <2>1. w \div 16384 = row /\ w % 1024 = y /\ (w \div 2048) % 8 = n
    BY DEF Recency
  <2>2. TestOf(HistoricalInputVal, w) = TwoWords(HistoricalInputVal, w)
    OBVIOUS
  <2> HIDE DEF w
  <2> QED BY <2>1, <2>2 DEF NewHistoricalInput, w
<1>3. TestOf(NewLayer(l)[1], NewLayer(l)[2]) = Test("layer", <<l>>)
  BY DEF NewLayer
<1>4. TestOf(NewBaseLayer(l)[1], NewBaseLayer(l)[2]) = Test("baseLayer", <<l>>)
  BY DEF NewBaseLayer
<1>5. TestOf(NewDeviceHistory(id, n)[1], NewDeviceHistory(id, n)[2]) = Test("device", <<id, n>>)
  <2> DEFINE w == n * 256 + id
  <2>1. w % 256 = id /\ (w \div 256) % 8 = n
    BY DEF Recency
  <2>2. TestOf(HistoricalDeviceVal, w) = Test("device", <<w % 256, (w \div 256) % 8>>)
    OBVIOUS
  <2> HIDE DEF w
  <2> QED BY <2>1, <2>2 DEF NewDeviceHistory, w
<1> HIDE DEF TestOf, TwoWords, HasTwoWords, KeyMax, MaxOpcodeLen, InputVal, HistoricalInputVal,
             LayerVal, BaseLayerVal, HistoricalDeviceVal
<1> QED BY <1>1, <1>2, <1>3, <1>4, <1>5

(* A Boolean operator and the index of its end share a word, and both are  *)
(* read back from it.                                                      *)
THEOREM OperatorReadBack ==
    ASSUME NEW op \in {"or", "and", "not"}, NEW end \in 0..MaxOpcodeLen
    PROVE  IsBool(NewBool(op, end)) /\ BoolOp(NewBool(op, end)) = [op |-> op, end |-> end]
<1>1. end \in Int /\ 0 <= end /\ end <= 4095
  BY DEF MaxOpcodeLen
<1>2. CASE op = "or"
  <2> DEFINE w == end + 4096
  <2>1. w \div 4096 = 1 /\ w % 4096 = end /\ 4096 <= w /\ w < 16384
    BY <1>1
  <2>2. NewBool(op, end) = w
    BY <1>2 DEF NewBool, OrVal, AndVal, NotVal
  <2> HIDE DEF w
  <2>3. BoolOp(w) = [op |-> "or", end |-> end]
    BY <2>1 DEF BoolOp
  <2> QED BY <1>2, <2>1, <2>2, <2>3 DEF IsBool, OrVal, TicksGtVal
<1>3. CASE op = "and"
  <2> DEFINE w == end + 8192
  <2>1. w \div 4096 = 2 /\ w % 4096 = end /\ 4096 <= w /\ w < 16384
    BY <1>1
  <2>2. NewBool(op, end) = w
    BY <1>3 DEF NewBool, OrVal, AndVal, NotVal
  <2> HIDE DEF w
  <2>3. BoolOp(w) = [op |-> "and", end |-> end]
    BY <2>1 DEF BoolOp
  <2> QED BY <1>3, <2>1, <2>2, <2>3 DEF IsBool, OrVal, TicksGtVal
<1>4. CASE op = "not"
  <2> DEFINE w == end + 12288
  <2>1. w \div 4096 = 3 /\ w % 4096 = end /\ 4096 <= w /\ w < 16384
    BY <1>1
  <2>2. NewBool(op, end) = w
    BY <1>4 DEF NewBool, OrVal, AndVal, NotVal
  <2> HIDE DEF w
  <2>3. BoolOp(w) = [op |-> "not", end |-> end]
    BY <2>1 DEF BoolOp
  <2> QED BY <1>4, <2>1, <2>2, <2>3 DEF IsBool, OrVal, TicksGtVal
<1> QED BY <1>2, <1>3, <1>4
=============================================================================
