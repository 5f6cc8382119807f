--------------------------- MODULE MCTapeWrapper ----------------------------
(* TapeWrapper for TLC: doubles are three values that add and subtract as  *)
(* the integers modulo 3, sums and differences of variables are variables. *)
EXTENDS TapeWrapper, TLC

CONSTANTS zero, one, two

MCNum == {zero, one, two}

MCInt == zero :> 0 @@ one :> 1 @@ two :> 2

MCDouble == 0 :> zero @@ 1 :> one @@ 2 :> two

MCOp == {"+", "-"}

MCApply(op, m, n) ==
  LET i == MCInt[m.val]
      j == MCInt[n.val]
  IN  [val |-> MCDouble[IF op = "+" THEN (i + j) % 3 ELSE (i + 3 - j) % 3],
       var |-> m.var \/ n.var]

(* What a step may do does not depend on the last call, and each step is  *)
(* compared with the native double's before its state is looked up.       *)
MCView == <<live, value_, heap, recording>>

MCSymmetry == Permutations(Wrapper) \union Permutations(Addr)
=============================================================================
