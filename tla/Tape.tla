-------------------------------- MODULE Tape --------------------------------
(***************************************************************************)
(* Operation sequences: what CppAD's recorder writes and its player plays. *)
(* An instruction of a tape is an operator, the kind of each of its        *)
(* arguments (the vv, pv or vp in the name of its op code), the arguments  *)
(* and the address of its last result.  An argument is the address of a    *)
(* variable ("v") or the index of a parameter ("p").                       *)
(*                                                                         *)
(* Arithmetic is a parameter: Calc(op, s) is the value of the operator op  *)
(* on the numbers s.                                                       *)
(***************************************************************************)
EXTENDS Naturals, Sequences

CONSTANTS
  Num,          (* The values of Base.                                     *)
  Zero, One,
  Unary,        (* The standard math functions.                            *)
  TwoResults,   (* Those that put an auxiliary variable before their       *)
                (* result, as sin does cos.                                *)
  Calc(_, _),
  Aux(_, _),    (* Aux(op, s): the value of the auxiliary variable.        *)
  Less(_, _)    (* The order of Num.                                       *)

Binary == {"Add", "Sub", "Mul", "Div"}

(* The relational operators of the program, the comparisons recorded for   *)
(* them, and the conditional expressions by comparison.                    *)
Relational == {"Lt", "Le", "Gt", "Ge", "Eq", "Ne"}

Comparison == {"Lt", "Le", "Eq", "Ne"}

CondExp == {"CExpLt", "CExpLe", "CExpEq", "CExpGe", "CExpGt"}

OpCode ==
  {"Begin", "Inv", "Par", "End"} \union Binary \union Unary \union Comparison
    \union CondExp

(* What the optimizer adds: a sum of many variables, and a conditional     *)
(* skip.  Their number of arguments varies.                                *)
Optimized == {"CSum", "CSkip"}

NumRes(op) ==
  IF op \in TwoResults THEN 2
  ELSE IF op \in Comparison \union {"End", "CSkip"} THEN 0
  ELSE 1

(* Whether l and r compare as an operator of the program says. *)
Holds(cop, l, r) ==
  CASE cop \in {"Lt", "CExpLt"} -> Less(l, r)
    [] cop \in {"Le", "CExpLe"} -> ~Less(r, l)
    [] cop \in {"Gt", "CExpGt"} -> Less(r, l)
    [] cop \in {"Ge", "CExpGe"} -> ~Less(l, r)
    [] cop \in {"Eq", "CExpEq"} -> l = r
    [] cop = "Ne" -> l # r

(* The value an instruction gives its last result. *)
Value(op, s) ==
  CASE op \in Binary \union Unary -> Calc(op, s)
    [] op = "Par" -> s[1]
    [] op \in CondExp -> IF Holds(op, s[1], s[2]) THEN s[3] ELSE s[4]

ASSUME NumAssumption == Zero \in Num /\ One \in Num
ASSUME UnaryAssumption ==
  /\ TwoResults \subseteq Unary
  /\ Unary \cap ({"Begin", "Inv", "Par", "End"} \union Binary
                   \union Comparison \union CondExp \union Optimized \union {"CExp"}) = {}
ASSUME CalcAssumption ==
  /\ \A op \in Binary, m, n \in Num : Calc(op, <<m, n>>) \in Num
  /\ \A op \in Unary, m \in Num :
       Calc(op, <<m>>) \in Num /\ Aux(op, <<m>>) \in Num

-----------------------------------------------------------------------------

Instruction ==
  [op : OpCode, kind : Seq({"v", "p"}), arg : Seq(Nat), res : Nat]

(* The addresses the result of an instruction may take its operands from. *)
Before(ins) == 1 .. ins.res - NumRes(ins.op)

(* Arguments come before results: CPPAD_ASSERT_ARG_BEFORE_RESULT, and the  *)
(* num_par assertions of the sweeps.                                       *)
ArgsValid(ins, npar) ==
  /\ Len(ins.kind) = Len(ins.arg)
  /\ \A j \in DOMAIN ins.arg :
       IF ins.kind[j] = "v" THEN ins.arg[j] \in Before(ins)
                            ELSE ins.arg[j] < npar

(* The numbers an instruction computes with, when the variables have the   *)
(* values var and the parameters are par.                                  *)
Operands(ins, var, par) ==
  [j \in DOMAIN ins.arg |->
     IF ins.kind[j] = "v" THEN var[ins.arg[j]] ELSE par[ins.arg[j] + 1]]

(* The values var of the variables satisfy the instruction. *)
Solves(ins, var, par) ==
  /\ ins.op \notin {"Begin", "Inv"} /\ NumRes(ins.op) > 0
       => var[ins.res] = Value(ins.op, Operands(ins, var, par))
  /\ ins.op \in TwoResults
       => var[ins.res - 1] = Aux(ins.op, Operands(ins, var, par))
=============================================================================
