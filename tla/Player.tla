------------------------------- MODULE Player -------------------------------
(***************************************************************************)
(* Playing an operation sequence back.  A recording is kept in three flat  *)
(* vectors, of op codes, of arguments and of parameters; nothing says      *)
(* where the arguments of an operator start.  The player goes through them *)
(* with a cursor: the index of an operator, the offset of its arguments    *)
(* and the address of its last result, each computed from those of the     *)
(* operator before or after it.  CSumOp and CSkipOp have a variable number *)
(* of arguments, which NumArg takes to be none, so the sweeps must correct *)
(* the cursor whenever they meet one.                                      *)
(***************************************************************************)
EXTENDS Tape, Integers

(* The kinds of operands that the names of op codes tell (vv, pv, vp); the *)
(* operand of ParOp is a parameter.                                        *)
OperandKinds(op) ==
  CASE op \in Binary \union Comparison -> [1 .. 2 -> {"v", "p"}]
    [] op \in Unary -> [1 .. 1 -> {"v", "p"}]
    [] op = "Par" -> {<<"p">>}
    [] OTHER -> {<<>>}

OpCodeRec ==
  {code \in [op : (OpCode \ CondExp) \union {"CExp"} \union Optimized,
             kind : Seq({"v", "p"})] : code.kind \in OperandKinds(code.op)}

(* The operators that compute a variable. *)
Computing ==
  Binary \union Unary \union CondExp \union {"CExp", "Par", "CSum"}

NumArg(code) ==
  CASE code.op = "Begin" -> 1
    [] code.op = "CExp" -> 6
    [] code.op \in Optimized -> 0
    [] OTHER -> Len(code.kind)

(* enum CompareOp, as the operators of conditional expressions. *)
CompareOp == <<"CExpLt", "CExpLe", "CExpEq", "CExpGe", "CExpGt">>

(***************************************************************************)
(* The operation sequences that are played.  Vectors are indexed from 0.   *)
(* first and last are no part of the player: they are where the recorder   *)
(* put the first argument of each operator, and the address it gave to its *)
(* last result.                                                            *)
(***************************************************************************)
CONSTANTS Tapes

(* The operators of a recording, and its variables.                        *)
Op(t) == 0 .. t.num_op_rec - 1

Address(t) == 0 .. t.num_var_rec - 1

-----------------------------------------------------------------------------
(* The cursor. *)

OpAt(t, c) == t.op_rec_[c.op_index_]

(* The k-th argument from the cursor. *)
Arg(t, c, k) == t.op_arg_rec_[c.op_arg_ + k]

forward_start == [op_index_ |-> 0, op_arg_ |-> 0, var_index_ |-> 0]

forward_next(t, c) ==
  [op_index_ |-> c.op_index_ + 1,
   op_arg_ |-> c.op_arg_ + NumArg(OpAt(t, c)),
   var_index_ |-> c.var_index_ + NumRes(t.op_rec_[c.op_index_ + 1].op)]

(* Mutant of forward_csum: one argument short. *)
ShortCSum(t, c) ==
  [c EXCEPT !.op_arg_ = @ + Arg(t, c, 0) + Arg(t, c, 1) + 3]

forward_csum(t, c) ==
  [c EXCEPT !.op_arg_ = @ + Arg(t, c, 0) + Arg(t, c, 1) + 4]

forward_cskip(t, c) ==
  [c EXCEPT !.op_arg_ = @ + 7 + Arg(t, c, 4) + Arg(t, c, 5)]

reverse_start(t) ==
  [op_index_ |-> t.num_op_rec - 1,
   op_arg_ |-> t.num_op_arg_rec,
   var_index_ |-> t.num_var_rec - 1]

reverse_next(t, c) ==
  [op_index_ |-> c.op_index_ - 1,
   op_arg_ |-> c.op_arg_ - NumArg(t.op_rec_[c.op_index_ - 1]),
   var_index_ |-> c.var_index_ - NumRes(OpAt(t, c).op)]

(* The last argument of both says how many of the others there are. *)
reverse_csum(t, c) ==
  [c EXCEPT !.op_arg_ = @ - (t.op_arg_rec_[@ - 1] + 4)]

reverse_cskip(t, c) ==
  [c EXCEPT !.op_arg_ = @ - (t.op_arg_rec_[@ - 1] + 7)]

-----------------------------------------------------------------------------
(* What a sweep reads at the cursor, as an instruction of module Tape. *)

(* The bit of the k-th operand in the flags of which are variables. *)
Flag == <<1, 2, 4, 8>>

Kinds(flags, n) ==
  [k \in 1 .. n |-> IF (flags \div Flag[k]) % 2 = 1 THEN "v" ELSE "p"]

CondExpAt(t, c) ==
  [op |-> CompareOp[Arg(t, c, 0) + 1], kind |-> Kinds(Arg(t, c, 1), 4),
   arg |-> [k \in 1 .. 4 |-> Arg(t, c, k + 1)], res |-> c.var_index_]

CSumAt(t, c) ==
  LET sum == Arg(t, c, 0) + Arg(t, c, 1)
  IN  [op |-> "CSum", add |-> Arg(t, c, 0),
       kind |-> [k \in 1 .. sum + 1 |-> IF k = 1 THEN "p" ELSE "v"],
       arg |-> [k \in 1 .. sum + 1 |-> Arg(t, c, k + 1)],
       res |-> c.var_index_]

(* The operators to skip if the comparison holds, and if it does not.      *)
CSkipAt(t, c) ==
  LET true == Arg(t, c, 4)
  IN  [op |-> "CSkip", test |-> CompareOp[Arg(t, c, 0) + 1],
       kind |-> Kinds(Arg(t, c, 1), 2),
       arg |-> <<Arg(t, c, 2), Arg(t, c, 3)>>, res |-> c.var_index_,
       if_true |-> {Arg(t, c, 6 + i) : i \in 0 .. true - 1},
       if_false |-> {Arg(t, c, 6 + true + i) : i \in 0 .. Arg(t, c, 5) - 1}]

Instr(t, c) ==
  CASE OpAt(t, c).op = "CExp" -> CondExpAt(t, c)
    [] OpAt(t, c).op = "CSum" -> CSumAt(t, c)
    [] OpAt(t, c).op = "CSkip" -> CSkipAt(t, c)
    [] OTHER -> [op |-> OpAt(t, c).op, kind |-> OpAt(t, c).kind,
                 arg |-> [k \in DOMAIN OpAt(t, c).kind |-> Arg(t, c, k - 1)],
                 res |-> c.var_index_]

-----------------------------------------------------------------------------
(* The recordings there are. *)

(* The cursor at operator i. *)
At(t, i) ==
  [op_index_ |-> i, op_arg_ |-> t.first[i], var_index_ |-> t.last[i]]

(* The arguments operator i was recorded with. *)
Size(t, i) ==
  LET c == At(t, i)
  IN  CASE t.op_rec_[i].op = "CSum" -> Arg(t, c, 0) + Arg(t, c, 1) + 4
        [] t.op_rec_[i].op = "CSkip" -> 7 + Arg(t, c, 4) + Arg(t, c, 5)
        [] OTHER -> NumArg(t.op_rec_[i])

(* Operators follow each other without a gap, in all vectors. *)
Adjacent(t) ==
  /\ t.first[0] = 0 /\ t.last[0] = 0
  /\ \A i \in 1 .. t.num_op_rec - 1 :
       /\ t.first[i] = t.first[i - 1] + Size(t, i - 1)
       /\ t.last[i] = t.last[i - 1] + NumRes(t.op_rec_[i].op)
  /\ t.first[t.num_op_rec - 1] = t.num_op_arg_rec
  /\ t.last[t.num_op_rec - 1] = t.num_var_rec - 1

(* Results come one after the other, and after their operands.  Operands   *)
(* and dependent variables are no auxiliary variables.                     *)
Ordered(t) ==
  /\ \A i \in DOMAIN t.dep_taddr_ :
       t.dep_taddr_[i] \in {t.last[k] : k \in 0 .. t.num_op_rec - 1}
  /\ \A i \in 0 .. t.num_op_rec - 1 :
       LET ins == Instr(t, At(t, i))
       IN  /\ \A k \in i + 1 .. t.num_op_rec - 1 :
                t.last[i] + NumRes(t.op_rec_[k].op) <= t.last[k]
           /\ t.op_rec_[i].op = "CExp" => ins.op \in CondExp
           /\ ArgsValid(ins, Len(t.par_rec_))
           /\ \A j \in DOMAIN ins.arg :
                ins.kind[j] = "v" =>
                  ins.arg[j] \in {t.last[k] : k \in 0 .. i - 1}

(* The last argument of CSumOp and CSkipOp.  What is skipped are operators *)
(* with results; the number of operators stands for none.                  *)
Counted(t) ==
  \A i \in 0 .. t.num_op_rec - 1 :
    LET c == At(t, i)
    IN  /\ t.op_rec_[i].op = "CSum" =>
             /\ t.first[i] + 3 < t.num_op_arg_rec
             /\ Arg(t, c, Size(t, i) - 1) = Arg(t, c, 0) + Arg(t, c, 1)
        /\ t.op_rec_[i].op = "CSkip" =>
             /\ t.first[i] + 6 < t.num_op_arg_rec
             /\ Arg(t, c, Size(t, i) - 1) = Arg(t, c, 4) + Arg(t, c, 5)
             /\ \A k \in CSkipAt(t, c).if_true \union CSkipAt(t, c).if_false :
                  /\ k \in 0 .. t.num_op_rec
                  /\ k < t.num_op_rec => t.op_rec_[k].op \in Computing

Vectors(t) ==
  /\ {t.n, t.num_op_rec, t.num_op_arg_rec, t.num_var_rec} \subseteq Nat
  /\ t.num_op_rec > t.n + 1
  /\ t.op_rec_ \in [0 .. t.num_op_rec - 1 -> OpCodeRec]
  /\ {t.first, t.last} \subseteq [0 .. t.num_op_rec - 1 -> Nat]
  /\ t.op_arg_rec_ \in [0 .. t.num_op_arg_rec - 1 -> Nat]
  /\ t.par_rec_ \in Seq(Num)
  /\ t.dep_taddr_ \in Seq(1 .. t.num_var_rec - 1)

WellFormed(t) ==
  /\ Vectors(t)
  /\ \A i \in DOMAIN t.op_rec_ :
       /\ t.op_rec_[i].op = "Begin" <=> i = 0
       /\ t.op_rec_[i].op = "Inv" <=> i \in 1 .. t.n
       /\ t.op_rec_[i].op = "End" <=> i = t.num_op_rec - 1
  /\ Adjacent(t) /\ Ordered(t) /\ Counted(t)

ASSUME TapesAssumption == \A t \in Tapes : WellFormed(t)
=============================================================================
