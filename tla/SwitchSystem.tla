---------------------------- MODULE SwitchSystem ----------------------------
(***************************************************************************)
(* Switch::actions: the cases of a switch in turn, each by the loop of     *)
(* evaluate_boolean, one iteration per step.                               *)
(***************************************************************************)
EXTENDS Switch

CONSTANTS
    Switches,   \* sequences of cases [expr, brk]; a case's action is its index
    Worlds      \* what the tests may ask about

ASSUME SwitchAssumption ==
    \A s \in Switches : \A i \in DOMAIN s :
        \A j \in DOMAIN s[i].expr : Depth(s[i].expr[j]) <= MaxBoolExprDepth

VARIABLES
    cases, theWorld,
    case,      \* case_index, from 1
    ops, m,    \* the opcodes of the case and the local variables of its evaluation
    chosen,    \* the actions handed out
    turns      \* observed: the iterations spent on this case

switchVars == <<cases, theWorld, case, ops, m, chosen, turns>>

Over == case > Len(cases)
ToCase(i) ==
    /\ case' = i
    /\ ops' = IF i <= Len(cases) THEN ParseCase(cases[i].expr) ELSE <<>>
    /\ m' = Started(ops')
    /\ turns' = 0

SwitchInit ==
    /\ cases \in Switches /\ theWorld \in Worlds
    /\ case = 1 /\ chosen = <<>> /\ turns = 0
    /\ ops = ParseCase(cases[1].expr) /\ m = Started(ops)

Loop ==
    /\ ~Over /\ Running(m, ops)
    /\ m' = Iterate(m, ops, theWorld) /\ turns' = turns + 1
    /\ UNCHANGED <<cases, theWorld, case, ops, chosen>>

CaseOver == ~Over /\ ~Running(m, ops) /\ ~m.panic

CaseFalse ==
    /\ CaseOver /\ ~Result(m)
    /\ ToCase(case + 1)
    /\ UNCHANGED <<cases, theWorld, chosen>>

CaseTrue ==
    /\ CaseOver /\ Result(m)
    /\ chosen' = Append(chosen, case)
    /\ ToCase(IF cases[case].brk THEN Len(cases) + 1 ELSE case + 1)
    /\ UNCHANGED <<cases, theWorld>>

SwitchNext == Loop \/ CaseFalse \/ CaseTrue

-----------------------------------------------------------------------------
(* The jumps of evaluate_boolean and its two ways to leave an operator     *)
(* yield what the expression means, for every nesting that the parser      *)
(* accepts, without an overflow of the stack, and they come to an end: no  *)
(* operand is evaluated twice, nor an operator entered or left twice.  The *)
(* actions are those of the true cases up to the first with break.         *)
SwitchMeansExpression ==
    ~m.panic /\ turns <= 2 * Len(ops) /\ (Over => chosen = Actions(cases, theWorld))
=============================================================================
