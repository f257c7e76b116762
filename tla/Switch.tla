------------------------------- MODULE Switch -------------------------------
(***************************************************************************)
(* The switch action: the parser (parser/src/cfg/switch.rs) turns the      *)
(* expression of a case into a flat list of opcodes, in which a Boolean    *)
(* operator carries the index at which its operands end, and               *)
(* evaluate_boolean runs over that list with a stack of the operators that *)
(* it is in.                                                               *)
(*                                                                         *)
(* An expression is a test [k, v] or an operator [op, args].  A world is   *)
(* what the tests ask about: the output keys and the coordinates that are  *)
(* active, histories with the most recent first, the layers.               *)
(***************************************************************************)
EXTENDS OpCode, SequencesExt

CONSTANT MaxBoolExprDepth

IsOp(e) == "op" \in DOMAIN e

-----------------------------------------------------------------------------
(* parse_switch_case_bool.                                                 *)
TestOps(e) ==
    CASE e.k = "key"          -> NewKey(e.v[1])
      [] e.k = "keyHistory"   -> NewKeyHistory(e.v[1], e.v[2])
      [] e.k = "ticksLt"      -> NewTicksSinceLt(e.v[1], e.v[2])
      [] e.k = "ticksGt"      -> NewTicksSinceGt(e.v[1], e.v[2])
      [] e.k = "input"        -> NewActiveInput(e.v[1], e.v[2])
      [] e.k = "inputHistory" -> NewHistoricalInput(e.v[1], e.v[2], e.v[3])
      [] e.k = "layer"        -> NewLayer(e.v[1])
      [] e.k = "baseLayer"    -> NewBaseLayer(e.v[1])
      [] e.k = "device"       -> NewDeviceHistory(e.v[1], e.v[2])

\* the operator's end is not known before its operands are parsed
RECURSIVE ParseCaseBool(_, _)
ParseCaseBool(ops, e) ==
    IF IsOp(e)
      THEN LET all == FoldLeft(ParseCaseBool, Append(ops, NewBool(e.op, Len(ops))), e.args)
           IN  [all EXCEPT ![Len(ops) + 1] = NewBool(e.op, Len(all))]
      ELSE ops \o TestOps(e)
ParseCase(es) == FoldLeft(ParseCaseBool, <<>>, es)

\* the parser rejects deeper expressions
RECURSIVE Depth(_)
Depth(e) == IF IsOp(e) THEN 1 + Max({Depth(e.args[i]) : i \in DOMAIN e.args}) ELSE 1

-----------------------------------------------------------------------------
(* The tests of evaluate_boolean.                                          *)
Nth(history, n, P(_)) == n < Len(history) /\ P(history[n + 1])
Holds(t, world) ==
    LET v == t.v IN
    CASE t.k = "key"        -> v[1] \in world.keys
      [] t.k = "keyHistory" -> Nth(world.keyHistory, v[2], LAMBDA h : h.event = v[1])
      [] t.k = "ticksLt"    -> Nth(world.keyHistory, v[1], LAMBDA h : h.ticks <= v[2])
      [] t.k = "ticksGt"    -> Nth(world.keyHistory, v[1], LAMBDA h : h.ticks > v[2])
      [] t.k = "input"      -> <<v[1], v[2]>> \in world.inputs
      [] t.k = "inputHistory" ->
           Nth(world.inputHistory, v[3], LAMBDA h : h.event = <<v[1], v[2]>>)
      [] t.k = "layer"      -> world.layers # <<>> /\ Head(world.layers) = v[1]
      [] t.k = "baseLayer"  -> world.baseLayer = v[1]
      [] t.k = "device"     -> Nth(world.devices, v[2], LAMBDA d : d = v[1])

-----------------------------------------------------------------------------
(* The loop of evaluate_boolean.  M holds its local variables: the current *)
(* and the end index, counted from 0, the operator, the stack, the result; *)
(* panic is set when the stack of operators overflows.  The outermost      *)
(* operator, an implicit or, ends with the list.                           *)
Started(ops) ==
    [i |-> 0, end |-> Len(ops), op |-> "or", stack |-> <<>>, ret |-> TRUE, panic |-> FALSE]

Running(M, ops) == M.i < Len(ops) /\ ~M.panic

LeaveOperator(M) ==
    [M EXCEPT !.op = Last(M.stack).op, !.end = Last(M.stack).end, !.stack = Front(@)]

EnterOperator(M, b) ==
    [M EXCEPT !.stack = Append(@, [op |-> M.op, end |-> M.end]),
              !.panic = Len(M.stack) = MaxBoolExprDepth,
              !.op = b.op, !.end = b.end, !.i = @ + 1]

\* Seeded fault: a not that is left with a true operand goes on.
DecidedWithoutNot(M) == M.op = (IF M.ret THEN "or" ELSE "and") \/ M.i >= M.end

\* the value of the operator around the one that was left needs no more operands
Decided(M) == M.op \in (IF M.ret THEN {"or", "not"} ELSE {"and"}) \/ M.i >= M.end

Apply(op, value) == IF op = "not" THEN ~value ELSE value

EvaluateTest(M, ops, world) ==
    LET word == ops[M.i + 1]
        size == IF HasTwoWords(word) THEN 2 ELSE 1
        value == Apply(M.op, Holds(TestOf(word, ops[M.i + size]), world))
        stop == IF M.op = "or" THEN value ELSE ~value
    IN  [M EXCEPT !.ret = value, !.i = IF stop THEN M.end ELSE @ + size]

Evaluate(M, ops, world) ==
    IF IsBool(ops[M.i + 1]) THEN EnterOperator(M, BoolOp(ops[M.i + 1]))
    ELSE EvaluateTest(M, ops, world)

Skip(M) == [M EXCEPT !.i = M.end, !.ret = Apply(M.op, @)]

\* one iteration
Iterate(M, ops, world) ==
    IF M.i < M.end THEN Evaluate(M, ops, world)
    ELSE LET left == LeaveOperator(M)
         IN  IF Decided(left) THEN Skip(left) ELSE Evaluate(left, ops, world)

\* the operators that are open when the loop ends
Result(M) == FoldRight(LAMBDA s, value : Apply(s.op, value), M.stack, M.ret)

-----------------------------------------------------------------------------
(* What an expression means: or, and, not any.  A case is true if any of   *)
(* its items is, or if it has none; the actions are those of the true      *)
(* cases up to the first with break.                                       *)
RECURSIVE Meaning(_, _)
Meaning(e, world) ==
    IF ~IsOp(e) THEN Holds(e, world)
    ELSE LET value(i) == Meaning(e.args[i], world)
         IN  CASE e.op = "or"  -> \E i \in DOMAIN e.args : value(i)
               [] e.op = "and" -> \A i \in DOMAIN e.args : value(i)
               [] e.op = "not" -> \A i \in DOMAIN e.args : ~value(i)
True(c, world) == c.expr = <<>> \/ \E i \in DOMAIN c.expr : Meaning(c.expr[i], world)

Actions(cases, world) ==
    SelectSeq([i \in DOMAIN cases |-> i],
              LAMBDA i : /\ True(cases[i], world)
                         /\ \A j \in 1..(i - 1) : ~(True(cases[j], world) /\ cases[j].brk))
=============================================================================
