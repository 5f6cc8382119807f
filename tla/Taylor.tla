------------------------------- MODULE Taylor -------------------------------
(***************************************************************************)
(* The arithmetic of the sweeps, operator by operator: the coefficients of *)
(* order 0 and 1 of a result from those of its operands, and the partials  *)
(* with respect to the operands from those with respect to the results.    *)
(*                                                                         *)
(* s and d are the coefficients of order 0 and 1 of the operands (d is     *)
(* Zero for a parameter); z and a are the coefficients of order 0 of the   *)
(* result and of the auxiliary variable before it; pz and pa the partials  *)
(* with respect to those.  That an operator has no effect when pz is zero  *)
(* follows here from the arithmetic, which has neither NaN nor infinity.   *)
(***************************************************************************)
EXTENDS Tape, SequencesExt

(* The standard math functions there are formulas for. *)
ASSUME TaylorAssumption ==
  /\ Unary \subseteq {"Abs", "Exp", "Log", "Sin", "Cos"}
  /\ TwoResults = Unary \cap {"Sin", "Cos"}

m ++ n == Calc("Add", <<m, n>>)

m -- n == Calc("Sub", <<m, n>>)

m ** n == Calc("Mul", <<m, n>>)

m // n == Calc("Div", <<m, n>>)

Minus(m) == Zero -- m

(* What is used of the real numbers: those of a commutative ring, and that *)
(* dividing by a number is multiplying by its inverse, whatever that is    *)
(* for zero.                                                               *)
Ring ==
  /\ \A m, n \in Num : /\ m ++ n = n ++ m /\ m ** n = n ** m
                       /\ m -- n = m ++ Minus(n) /\ m // n = m ** (One // n)
  /\ \A m, n, k \in Num : /\ (m ++ n) ++ k = m ++ (n ++ k)
                          /\ (m ** n) ** k = m ** (n ** k)
                          /\ m ** (n ++ k) = (m ** n) ++ (m ** k)
  /\ \A m \in Num : m ++ Zero = m /\ m ** One = m /\ m ++ Minus(m) = Zero

Total(s) == FoldLeft(LAMBDA m, n : m ++ n, Zero, s)

Sign(m) ==
  IF Less(Zero, m) THEN One ELSE IF Less(m, Zero) THEN Minus(One) ELSE Zero

-----------------------------------------------------------------------------

(* A sum: its first operand is a parameter, the next add variables are     *)
(* added to it and the others subtracted.                                  *)
forward_csum_op(ins, s) ==
  FoldLeft(LAMBDA m, n : m -- n,
           FoldLeft(LAMBDA m, n : m ++ n, s[1], SubSeq(s, 2, ins.add + 1)),
           SubSeq(s, ins.add + 2, Len(s)))

reverse_csum_op(ins, pz) ==
  [j \in DOMAIN ins.arg |->
     IF j = 1 THEN Zero ELSE IF j <= ins.add + 1 THEN pz ELSE Minus(pz)]

forward_add_op(d) == d[1] ++ d[2]

reverse_add_op(pz) == <<pz, pz>>

forward_sub_op(d) == d[1] -- d[2]

reverse_sub_op(pz) == <<pz, Minus(pz)>>

forward_mul_op(s, d) == (d[1] ** s[2]) ++ (s[1] ** d[2])

reverse_mul_op(s, pz) == <<pz ** s[2], pz ** s[1]>>

forward_div_op(s, d, z) == (d[1] -- (z ** d[2])) // s[2]

reverse_div_op(s, z, pz) ==
  LET scaled == pz // s[2]
  IN  <<scaled, Minus(scaled ** z)>>

forward_abs_op(s, d) == Sign(s[1]) ** d[1]

reverse_abs_op(s, pz) == <<Sign(s[1]) ** pz>>

forward_exp_op(d, z) == d[1] ** z

reverse_exp_op(z, pz) == <<pz ** z>>

forward_log_op(s, d) == d[1] // s[1]

reverse_log_op(s, pz) == <<pz // s[1]>>

(* sin has the auxiliary variable cos, and cos has sin. *)
forward_sin_op(d, c) == d[1] ** c

forward_cos_op(d, a) == Minus(d[1] ** a)

reverse_sin_op(z, c, ps, pc) == <<(ps ** c) -- (pc ** z)>>

reverse_cos_op(z, a, pc, ps) == <<(ps ** z) -- (pc ** a)>>

forward_cond_op(op, s, d) == IF Holds(op, s[1], s[2]) THEN d[3] ELSE d[4]

reverse_cond_op(op, s, pz) ==
  IF Holds(op, s[1], s[2]) THEN <<Zero, Zero, pz, Zero>>
                           ELSE <<Zero, Zero, Zero, pz>>

-----------------------------------------------------------------------------

(* The coefficient of order 0 of the result of an instruction. *)
Order0(ins, s) ==
  IF ins.op = "CSum" THEN forward_csum_op(ins, s) ELSE Value(ins.op, s)

(* The coefficients of order 1 of its result and auxiliary variable. *)
Order1(ins, s, d, z, a) ==
  CASE ins.op = "Add" -> forward_add_op(d)
    [] ins.op = "Sub" -> forward_sub_op(d)
    [] ins.op = "Mul" -> forward_mul_op(s, d)
    [] ins.op = "Div" -> forward_div_op(s, d, z)
    [] ins.op = "Abs" -> forward_abs_op(s, d)
    [] ins.op = "Exp" -> forward_exp_op(d, z)
    [] ins.op = "Log" -> forward_log_op(s, d)
    [] ins.op = "Sin" -> forward_sin_op(d, a)
    [] ins.op = "Cos" -> forward_cos_op(d, a)
    [] ins.op = "Par" -> Zero
    [] ins.op = "CSum" -> forward_csum_op(ins, d)
    [] ins.op \in CondExp -> forward_cond_op(ins.op, s, d)

Aux1(ins, d, z) ==
  IF ins.op = "Sin" THEN forward_cos_op(d, z) ELSE forward_sin_op(d, z)

(* What an instruction adds to the partials of its operands. *)
Adjoint(ins, s, z, a, pz, pa) ==
  CASE ins.op = "Add" -> reverse_add_op(pz)
    [] ins.op = "Sub" -> reverse_sub_op(pz)
    [] ins.op = "Mul" -> reverse_mul_op(s, pz)
    [] ins.op = "Div" -> reverse_div_op(s, z, pz)
    [] ins.op = "Abs" -> reverse_abs_op(s, pz)
    [] ins.op = "Exp" -> reverse_exp_op(z, pz)
    [] ins.op = "Log" -> reverse_log_op(s, pz)
    [] ins.op = "Sin" -> reverse_sin_op(z, a, pz, pa)
    [] ins.op = "Cos" -> reverse_cos_op(z, a, pz, pa)
    [] ins.op = "Par" -> <<Zero>>
    [] ins.op = "CSum" -> reverse_csum_op(ins, pz)
    [] ins.op \in CondExp -> reverse_cond_op(ins.op, s, pz)
=============================================================================
