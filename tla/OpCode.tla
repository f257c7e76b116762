------------------------------- MODULE OpCode -------------------------------
(***************************************************************************)
(* The opcodes of the switch action (keyberon/src/action/switch.rs): a     *)
(* test or a Boolean operator is packed into one word of 16 bits, or into  *)
(* two.  The fields of a word do not overlap, so its | is written + here,  *)
(* and masks and shifts as % and \div.                                     *)
(***************************************************************************)
EXTENDS Integers, Sequences

U16 == 0..65535
Recency == 0..7           \* MAX_KEY_RECENCY
MaxOpcodeLen == 4095

OrVal == 4096
AndVal == 8192
NotVal == 12288
TicksGtVal == 16384
TicksLtVal == 24576
HistoricalKeyVal == 32768

KeyMax == 850
InputVal == 851
HistoricalInputVal == 852
LayerVal == 853
BaseLayerVal == 854
HistoricalDeviceVal == 855

-----------------------------------------------------------------------------
LossyCompressTicks(t) ==
    IF t <= 255 THEN t
    ELSE IF t <= 2303 THEN (t - 255) \div 8 + 255
    ELSE (t - 2303) \div 128 + 511

LossyDecompressTicks(t) ==
    IF t <= 255 THEN t
    ELSE IF t <= 511 THEN (t - 255) * 8 + 255
    ELSE (t - 511) * 128 + 2303

NewKey(kc) == <<kc>>
NewKeyHistory(kc, n) == <<HistoricalKeyVal + n * 4096 + kc>>
NewTicksSinceGt(n, t) == <<TicksGtVal + n * 1024 + LossyCompressTicks(t)>>
NewTicksSinceLt(n, t) == <<TicksLtVal + n * 1024 + LossyCompressTicks(t)>>
NewBool(op, end) ==
    end + (CASE op = "or" -> OrVal [] op = "and" -> AndVal [] op = "not" -> NotVal)
NewActiveInput(row, y) == <<InputVal, row * 16384 + y>>
NewHistoricalInput(row, y, n) == <<HistoricalInputVal, row * 16384 + n * 2048 + y>>
NewLayer(l) == <<LayerVal, l>>
NewBaseLayer(l) == <<BaseLayerVal, l>>
NewDeviceHistory(id, n) == <<HistoricalDeviceVal, n * 256 + id>>

-----------------------------------------------------------------------------
(* opcode_type: what a word means, given the one that follows it.  A test  *)
(* is [k, v]; a Boolean operator is [op, end].                             *)
Test(kind, v) == [k |-> kind, v |-> v]

TwoWords(w, next) ==
    CASE w = InputVal -> Test("input", <<next \div 16384, next % 1024>>)
      [] w = HistoricalInputVal ->
           Test("inputHistory", <<next \div 16384, next % 1024, (next \div 2048) % 8>>)
      [] w = LayerVal -> Test("layer", <<next>>)
      [] w = BaseLayerVal -> Test("baseLayer", <<next>>)
      [] w = HistoricalDeviceVal -> Test("device", <<next % 256, (next \div 256) % 8>>)

IsBool(w) == OrVal <= w /\ w < TicksGtVal
BoolOp(w) ==
    [op  |-> CASE w \div 4096 = 1 -> "or" [] w \div 4096 = 2 -> "and" [] w \div 4096 = 3 -> "not",
     end |-> w % 4096]

OneWord(w) ==
    CASE w >= HistoricalKeyVal -> Test("keyHistory", <<w % 4096, (w \div 4096) % 8>>)
      [] w >= TicksLtVal /\ w < HistoricalKeyVal ->
           Test("ticksLt", <<(w \div 1024) % 8, LossyDecompressTicks(w % 1024)>>)
      [] w >= TicksGtVal /\ w < TicksLtVal ->
           Test("ticksGt", <<(w \div 1024) % 8, LossyDecompressTicks(w % 1024)>>)

HasTwoWords(w) == KeyMax <= w /\ w <= MaxOpcodeLen
TestOf(w, next) ==
    IF w < KeyMax THEN Test("key", <<w>>)
    ELSE IF HasTwoWords(w) THEN TwoWords(w, next) ELSE OneWord(w)
=============================================================================
