-------------------------- MODULE Optimizer_proofs --------------------------
(***************************************************************************)
(* Optimizer for every set of well-formed tapes, every arithmetic and      *)
(* every hash function: what is recorded has its operands, what is         *)
(* identified is equal, and, as long as no conditional skip is put, what   *)
(* is recorded can be played and computes the same function.               *)
(***************************************************************************)
EXTENDS Optimizer, Player_proofs

-----------------------------------------------------------------------------
LEMMA OpNames ==
  /\ \A op \in Unary : op \notin {"Begin", "Inv", "Par", "End", "CExp", "CSum", "CSkip"}
  /\ \A op \in Unary : op \notin Binary /\ op \notin Comparison /\ op \notin CondExp
  /\ \A op \in Binary : op \notin Comparison /\ op \notin CondExp /\ op \notin Unary
  /\ \A op \in Comparison : op \notin CondExp /\ op \notin Unary
  /\ \A op \in CondExp : op \notin Unary
  /\ \A op \in TwoResults : op \in Unary
  /\ \A op \in Summation : op \in Binary
  BY UnaryAssumption DEF Binary, Comparison, CondExp, Optimized, Summation

LEMMA ResultCounts ==
  /\ \A op : NumRes(op) \in 0 .. 2
  /\ \A op \in Unary \union Binary \union CondExp \union {"Begin", "Inv", "Par", "CSum", "CExp"} :
       NumRes(op) > 0
  /\ \A op \in Binary \union CondExp \union {"Begin", "Inv", "Par", "CSum", "CExp"} :
       NumRes(op) = 1
  /\ \A op \in Comparison \union {"End", "CSkip"} : NumRes(op) = 0
<1>1. \A op : NumRes(op) \in 0 .. 2
  BY DEF NumRes
<1>2. \A op \in Unary : op \notin Comparison \union {"End", "CSkip"}
  BY OpNames
<1>3. \A op \in Binary \union CondExp \union {"Begin", "Inv", "Par", "CSum", "CExp"} :
        op \notin Comparison \union {"End", "CSkip"} /\ op \notin TwoResults
  BY OpNames, UnaryAssumption DEF Binary, Comparison, CondExp, Optimized
<1>4. \A op \in Comparison \union {"End", "CSkip"} : op \notin TwoResults
  BY OpNames
<1>5. QED
  BY <1>1, <1>2, <1>3, <1>4 DEF NumRes

LEMMA CodeFacts ==
  ASSUME NEW t \in Tapes, NEW i \in Op(t)
  PROVE  /\ t.num_op_rec \in Nat /\ t.num_op_rec > 1 /\ t.num_var_rec \in Nat
         /\ t.first[i] \in Nat /\ t.last[i] \in Nat
         /\ t.op_rec_[i] \in OpCodeRec
         /\ t.op_rec_[i].op \notin Optimized
         /\ t.op_rec_[i].kind \in Seq({"v", "p"})
         /\ t.op_rec_[i].kind \in OperandKinds(t.op_rec_[i].op)
         /\ t.op_rec_[i].op = "Begin" <=> i = 0
         /\ t.op_rec_[i].op = "End" <=> i = t.num_op_rec - 1
<1>1. WellFormed(t)
  BY TapesAssumption
<1>2. /\ t.num_op_rec \in Nat /\ t.num_op_rec > 1 /\ t.num_var_rec \in Nat
      /\ t.first[i] \in Nat /\ t.last[i] \in Nat
      /\ t.op_rec_[i] \in OpCodeRec /\ i \in DOMAIN t.op_rec_
  <2>1. t.n \in Nat /\ t.num_op_rec \in Nat /\ t.num_var_rec \in Nat /\ t.num_op_rec > t.n + 1
    BY <1>1 DEF WellFormed, Vectors
  <2>2. /\ t.op_rec_ \in [Op(t) -> OpCodeRec]
        /\ t.first \in [Op(t) -> Nat] /\ t.last \in [Op(t) -> Nat]
    BY <1>1 DEF WellFormed, Vectors, Op
  <2>3. QED
    BY <2>1, <2>2
<1>3. t.op_rec_[i].op \notin Optimized
  BY <1>2, RecordedAssumption
<1>4. t.op_rec_[i].kind \in Seq({"v", "p"}) /\ t.op_rec_[i].kind \in OperandKinds(t.op_rec_[i].op)
  BY <1>2 DEF OpCodeRec
<1>5. QED
  BY <1>1, <1>2, <1>3, <1>4 DEF WellFormed

(* Operators follow each other. *)
LEMMA NextPlace ==
  ASSUME NEW t \in Tapes, NEW i \in Op(t), i + 1 \in Op(t)
  PROVE  /\ t.first[i + 1] = t.first[i] + NumArg(t.op_rec_[i])
         /\ t.last[i + 1] = t.last[i] + NumRes(t.op_rec_[i + 1].op)
         /\ NumArg(t.op_rec_[i]) \in Nat
<1>1. i + 1 \in 1 .. t.num_op_rec - 1 /\ (i + 1) - 1 = i
  BY CodeFacts DEF Op
<1>2. Size(t, i) = NumArg(t.op_rec_[i])
  BY CodeFacts DEF Size, Optimized
<1>3. /\ t.first[i + 1] = t.first[i] + Size(t, i)
      /\ t.last[i + 1] = t.last[i] + NumRes(t.op_rec_[i + 1].op)
  BY <1>1, TapesAssumption DEF WellFormed, Adjacent
<1>4. Len(t.op_rec_[i].kind) \in Nat
  BY CodeFacts
<1>5. NumArg(t.op_rec_[i]) \in Nat
  BY <1>4 DEF NumArg
<1>6. QED
  BY <1>2, <1>3, <1>5

LEMMA Ends ==
  ASSUME NEW t \in Tapes
  PROVE  /\ t.num_op_rec \in Nat /\ t.num_op_rec > 1 /\ t.num_var_rec \in Nat
         /\ t.num_op_arg_rec \in Nat
         /\ 0 \in Op(t) /\ t.num_op_rec - 1 \in Op(t)
         /\ t.first[0] = 0 /\ t.last[0] = 0
         /\ t.first[t.num_op_rec - 1] = t.num_op_arg_rec
         /\ t.last[t.num_op_rec - 1] = t.num_var_rec - 1
         /\ t.num_var_rec > 0
<1>1. WellFormed(t)
  BY TapesAssumption
<1>2. /\ t.num_op_rec \in Nat /\ t.num_op_rec > 1 /\ t.num_var_rec \in Nat
      /\ t.num_op_arg_rec \in Nat
  BY <1>1 DEF WellFormed, Vectors
<1>3. 0 \in Op(t) /\ t.num_op_rec - 1 \in Op(t)
  BY <1>2 DEF Op
<1>4. /\ t.first[0] = 0 /\ t.last[0] = 0
      /\ t.first[t.num_op_rec - 1] = t.num_op_arg_rec
      /\ t.last[t.num_op_rec - 1] = t.num_var_rec - 1
  BY <1>1 DEF WellFormed, Adjacent
<1>5. t.last[t.num_op_rec - 1] \in Nat
  BY <1>3, CodeFacts
<1>6. QED
  BY <1>2, <1>3, <1>4, <1>5

(* Later results have larger addresses. *)
LEMMA Later ==
  ASSUME NEW t \in Tapes, NEW i \in Op(t), NEW k \in Op(t), i <= k
  PROVE  /\ t.last[i] \in Address(t)
         /\ t.last[i] <= t.last[k]
         /\ i < k => t.last[i] + NumRes(t.op_rec_[k].op) <= t.last[k]
<1> DEFINE n == t.num_op_rec - 1
<1>1. \A h \in 0 .. n : \A m \in h + 1 .. n : t.last[h] + NumRes(t.op_rec_[m].op) <= t.last[m]
  BY TapesAssumption DEF WellFormed, Ordered
<1>2. i \in Nat /\ k \in Nat /\ i <= n /\ k <= n /\ n \in Nat
  BY CodeFacts DEF Op
<1>3. t.last[i] \in Nat /\ t.last[k] \in Nat /\ NumRes(t.op_rec_[k].op) \in Nat
  BY CodeFacts, ResultCounts
<1>4. i < k => t.last[i] + NumRes(t.op_rec_[k].op) <= t.last[k]
  BY <1>1, <1>2
<1>5. NumRes(t.op_rec_[n].op) \in Nat
  BY ResultCounts
<1>6. i < n => t.last[i] + NumRes(t.op_rec_[n].op) <= t.last[n]
  BY <1>1, <1>2
<1>7. t.last[n] = t.num_var_rec - 1 /\ t.num_var_rec \in Nat
  BY Ends
<1>8. t.last[i] <= t.num_var_rec - 1
  BY <1>2, <1>3, <1>5, <1>6, <1>7
<1>9. t.last[i] \in Address(t)
  BY <1>3, <1>7, <1>8 DEF Address
<1>10. QED
  BY <1>2, <1>3, <1>4, <1>9

LEMMA ResultAddress ==
  ASSUME NEW t \in Tapes, NEW i \in Op(t), NEW k \in Op(t), i < k,
         NumRes(t.op_rec_[k].op) > 0
  PROVE  t.last[i] < t.last[k]
<1>1. t.last[i] \in Nat /\ t.last[k] \in Nat /\ NumRes(t.op_rec_[k].op) \in Nat
  BY CodeFacts, ResultCounts
<1>2. i <= k
  BY CodeFacts DEF Op
<1>3. t.last[i] + NumRes(t.op_rec_[k].op) <= t.last[k]
  BY <1>2, Later
<1>4. QED
  BY <1>1, <1>3

(* The arguments of an operator are numbers. *)
LEMMA ArgNat ==
  ASSUME NEW t \in Tapes, NEW i \in Op(t), NEW k \in Nat, k < NumArg(t.op_rec_[i])
  PROVE  Arg(t, At(t, i), k) \in Nat
<1> DEFINE n == t.num_op_rec - 1
<1>1. n \in Nat /\ i \in 0 .. n /\ t.num_op_arg_rec \in Nat /\ t.first[n] = t.num_op_arg_rec
  BY Ends DEF Op
<1>2. \A h \in 0 .. n : t.first[h] \in Nat
  BY CodeFacts DEF Op
<1>3. \A h \in 0 .. n - 1 : /\ t.first[h + 1] = t.first[h] + NumArg(t.op_rec_[h])
                            /\ NumArg(t.op_rec_[h]) \in Nat
  <2>1. \A h \in 0 .. n - 1 : h \in Op(t) /\ h + 1 \in Op(t)
    BY <1>1 DEF Op
  <2>2. QED
    BY <2>1, NextPlace
<1>4. \A h \in 0 .. n - 1 : t.first[h] <= t.first[h + 1]
  <2>1. \A h \in 0 .. n - 1 : t.first[h] \in Nat
    BY <1>1, <1>2
  <2>2. QED
    BY <1>3, <2>1
<1> HIDE DEF n
<1>5. \A h \in 0 .. n : t.first[h] <= t.first[n]
  BY <1>1, <1>2, <1>4, Climbing
<1>6. i # n
  <2>1. CASE i = n
    <3>1. t.op_rec_[i].op = "End" /\ t.op_rec_[i].kind \in OperandKinds("End")
      BY <2>1, CodeFacts DEF n
    <3>2. t.op_rec_[i].kind = <<>>
      BY <3>1, OpNames DEF OperandKinds, Binary, Comparison
    <3>3. NumArg(t.op_rec_[i]) = 0
      BY <3>1, <3>2 DEF NumArg, Optimized
    <3>4. QED
      BY <3>3
  <2>2. QED
    BY <2>1
<1>7. i \in 0 .. n - 1 /\ i + 1 \in 0 .. n
  BY <1>1, <1>6
<1>8. t.first[i + 1] <= t.num_op_arg_rec /\ t.first[i + 1] = t.first[i] + NumArg(t.op_rec_[i])
  BY <1>1, <1>3, <1>5, <1>7
<1>9. t.first[i] \in Nat /\ NumArg(t.op_rec_[i]) \in Nat
  BY <1>2, <1>3, <1>7, <1>1
<1>10. t.first[i] + k \in 0 .. t.num_op_arg_rec - 1
  BY <1>1, <1>8, <1>9
<1>11. t.op_arg_rec_ \in [0 .. t.num_op_arg_rec - 1 -> Nat]
  BY TapesAssumption DEF WellFormed, Vectors
<1>12. QED
  BY <1>10, <1>11 DEF Arg, At

(* A conditional expression. *)
LEMMA CondExpOf ==
  ASSUME NEW t \in Tapes, NEW i \in Op(t), t.op_rec_[i].op = "CExp"
  PROVE  /\ InstrOf(t, i).op \in CondExp
         /\ InstrOf(t, i).res = t.last[i]
         /\ DOMAIN InstrOf(t, i).kind = 1 .. 4 /\ DOMAIN InstrOf(t, i).arg = 1 .. 4
         /\ \A j \in 1 .. 4 : /\ InstrOf(t, i).kind[j] \in {"v", "p"}
                              /\ InstrOf(t, i).arg[j] \in Nat
<1>1. InstrOf(t, i) = CondExpAt(t, At(t, i))
  BY DEF InstrOf, Instr, OpAt, At
<1>2. t.op_rec_[i].op = "CExp" => InstrOf(t, i).op \in CondExp
  BY TapesAssumption DEF WellFormed, Ordered, InstrOf, Op
<1>3. InstrOf(t, i).res = t.last[i]
  BY <1>1 DEF CondExpAt, At
<1>4. DOMAIN InstrOf(t, i).kind = 1 .. 4 /\ DOMAIN InstrOf(t, i).arg = 1 .. 4
  BY <1>1 DEF CondExpAt, Kinds
<1>5. \A j \in 1 .. 4 : InstrOf(t, i).kind[j] \in {"v", "p"}
  BY <1>1 DEF CondExpAt, Kinds
<1>6. NumArg(t.op_rec_[i]) = 6
  BY DEF NumArg, Optimized
<1>7. \A j \in 1 .. 4 : InstrOf(t, i).arg[j] \in Nat
  <2>1. \A j \in 1 .. 4 : InstrOf(t, i).arg[j] = Arg(t, At(t, i), j + 1)
    BY <1>1 DEF CondExpAt
  <2>2. \A j \in 1 .. 4 : j + 1 \in Nat /\ j + 1 < 6
    OBVIOUS
  <2>3. QED
    BY <1>6, <2>1, <2>2, ArgNat
<1>8. QED
  BY <1>2, <1>3, <1>4, <1>5, <1>7

(* Any other operator. *)
LEMMA OtherOf ==
  ASSUME NEW t \in Tapes, NEW i \in Op(t), t.op_rec_[i].op # "CExp"
  PROVE  /\ InstrOf(t, i).op = t.op_rec_[i].op /\ InstrOf(t, i).kind = t.op_rec_[i].kind
         /\ InstrOf(t, i).op \in {"Begin", "Inv", "Par", "End"} \union Unary \union Binary
                                   \union Comparison
         /\ InstrOf(t, i).res = t.last[i]
         /\ DOMAIN InstrOf(t, i).kind = DOMAIN InstrOf(t, i).arg
         /\ \A j \in DOMAIN InstrOf(t, i).arg :
              /\ InstrOf(t, i).kind[j] \in {"v", "p"}
              /\ InstrOf(t, i).arg[j] \in Nat
<1> DEFINE code == t.op_rec_[i]
           ins == InstrOf(t, i)
<1>1. /\ code.op \notin Optimized /\ code \in OpCodeRec /\ code.kind \in Seq({"v", "p"})
      /\ code.kind \in OperandKinds(code.op)
  BY CodeFacts
<1>2. ins = [op |-> code.op, kind |-> code.kind,
             arg |-> [k \in DOMAIN code.kind |-> Arg(t, At(t, i), k - 1)],
             res |-> t.last[i]]
  <2>1. code.op # "CSum" /\ code.op # "CSkip"
    BY <1>1 DEF Optimized
  <2>2. QED
    BY <2>1 DEF InstrOf, Instr, OpAt, At
<1>3. code.op \in {"Begin", "Inv", "Par", "End"} \union Unary \union Binary \union Comparison
  BY <1>1 DEF OpCodeRec, OpCode
<1>4. ins.op = code.op /\ ins.kind = code.kind /\ ins.res = t.last[i]
      /\ DOMAIN ins.kind = DOMAIN ins.arg
  BY <1>2
<1>5. \A j \in DOMAIN code.kind : code.kind[j] \in {"v", "p"} /\ j - 1 \in Nat /\ j - 1 < Len(code.kind)
  BY <1>1
<1>6. code.op = "Begin" => code.kind = <<>>
  BY <1>1, OpNames DEF OperandKinds, Binary, Comparison
<1>7. code.op # "Begin" => NumArg(code) = Len(code.kind)
  BY <1>1 DEF NumArg
<1>8. \A j \in DOMAIN ins.arg : ins.arg[j] \in Nat
  <2>1. CASE code.op = "Begin"
    BY <1>2, <1>6, <2>1
  <2>2. CASE code.op # "Begin"
    <3>1. \A j \in DOMAIN code.kind : Arg(t, At(t, i), j - 1) \in Nat
      BY <1>5, <1>7, <2>2, ArgNat
    <3>2. QED
      BY <1>2, <3>1
  <2>3. QED
    BY <2>1, <2>2
<1>9. QED
  BY <1>3, <1>4, <1>5, <1>8

LEMMA Location ==
  ASSUME NEW t \in Tapes, NEW i \in Op(t)
  PROVE  Located(t, i)
<1> DEFINE ins == InstrOf(t, i)
<1>1. t.num_op_rec \in Nat /\ t.num_op_rec > 1 /\ t.num_var_rec \in Nat
  BY CodeFacts
<1>2. t.last[i] \in Address(t)
  BY Later, CodeFacts DEF Op
<1>3. /\ t.op_rec_[i] \in OpCodeRec
      /\ t.op_rec_[i].op = "Begin" <=> i = 0
      /\ t.op_rec_[i].op = "End" <=> i = t.num_op_rec - 1
  BY CodeFacts
<1>4. CASE t.op_rec_[i].op = "CExp"
  <2>1. ins.op \in CondExp /\ ins.res = t.last[i]
    BY <1>4, CondExpOf
  <2>2. NumRes(ins.op) = NumRes(t.op_rec_[i].op)
    BY <1>4, <2>1, ResultCounts
  <2>3. ins.op # "Begin" /\ ins.op # "End"
    BY <2>1 DEF CondExp
  <2>4. QED
    BY <1>1, <1>2, <1>3, <1>4, <2>1, <2>2, <2>3 DEF Located
<1>5. CASE t.op_rec_[i].op # "CExp"
  <2>1. ins.op = t.op_rec_[i].op /\ ins.kind = t.op_rec_[i].kind /\ ins.res = t.last[i]
        /\ ins.op \in {"Begin", "Inv", "Par", "End"} \union Unary \union Binary \union Comparison
    BY <1>5, OtherOf
  <2>2. ins.op \notin CondExp
    BY <2>1, OpNames DEF CondExp
  <2>3. QED
    BY <1>1, <1>2, <1>3, <1>5, <2>1, <2>2 DEF Located
<1>6. QED
  BY <1>4, <1>5

(* Operands are results of earlier operators, or parameters. *)
LEMMA Sourced ==
  ASSUME NEW t \in Tapes, NEW i \in Op(t), NEW j \in DOMAIN InstrOf(t, i).arg
  PROVE  /\ InstrOf(t, i).kind[j] = "v" =>
              /\ InstrOf(t, i).arg[j] \in 1 .. InstrOf(t, i).res - NumRes(InstrOf(t, i).op)
              /\ \E k \in 0 .. i - 1 : InstrOf(t, i).arg[j] = t.last[k]
         /\ InstrOf(t, i).kind[j] = "p" =>
              /\ InstrOf(t, i).arg[j] \in Nat
              /\ InstrOf(t, i).arg[j] + 1 \in 1 .. Len(t.par_rec_)
              /\ t.par_rec_[InstrOf(t, i).arg[j] + 1] \in Num
<1>1. /\ ArgsValid(InstrOf(t, i), Len(t.par_rec_))
      /\ \A m \in DOMAIN InstrOf(t, i).arg :
           InstrOf(t, i).kind[m] = "v" => InstrOf(t, i).arg[m] \in {t.last[k] : k \in 0 .. i - 1}
  BY TapesAssumption DEF WellFormed, Ordered, InstrOf, Op
<1>2. t.par_rec_ \in Seq(Num)
  BY TapesAssumption DEF WellFormed, Vectors
<1>3. InstrOf(t, i).arg[j] \in Nat
  BY CondExpOf, OtherOf
<1>4. IF InstrOf(t, i).kind[j] = "v"
        THEN InstrOf(t, i).arg[j] \in 1 .. InstrOf(t, i).res - NumRes(InstrOf(t, i).op)
        ELSE InstrOf(t, i).arg[j] < Len(t.par_rec_)
  BY <1>1 DEF ArgsValid, Before
<1>5. CASE InstrOf(t, i).kind[j] = "v"
  BY <1>1, <1>4, <1>5
<1>6. CASE InstrOf(t, i).kind[j] = "p"
  <2>1. InstrOf(t, i).arg[j] + 1 \in 1 .. Len(t.par_rec_)
    BY <1>2, <1>3, <1>4, <1>6
  <2>2. t.par_rec_[InstrOf(t, i).arg[j] + 1] \in Num
    BY <1>2, <2>1
  <2>3. QED
    BY <1>3, <1>6, <2>1, <2>2
<1>7. QED
  BY <1>5, <1>6

LEMMA Operation ==
  ASSUME NEW t \in Tapes, NEW i \in Op(t)
  PROVE  Operated(t, i)
<1> DEFINE ins == InstrOf(t, i)
<1>1. /\ DOMAIN ins.kind = DOMAIN ins.arg
      /\ \A j \in DOMAIN ins.arg : ins.kind[j] \in {"v", "p"}
  BY CondExpOf, OtherOf
<1>2. /\ ins.op \in Unary => DOMAIN ins.arg = 1 .. 1
      /\ ins.op \in Binary \union Comparison => DOMAIN ins.arg = 1 .. 2
      /\ ins.op \in CondExp => DOMAIN ins.arg = 1 .. 4
      /\ ins.op = "Par" => DOMAIN ins.arg = 1 .. 1 /\ ins.kind[1] = "p"
      /\ ins.op \in {"Begin", "Inv", "End"} => DOMAIN ins.arg = {}
  <2>1. CASE t.op_rec_[i].op = "CExp"
    <3>1. ins.op \in CondExp /\ DOMAIN ins.arg = 1 .. 4
      BY <2>1, CondExpOf
    <3>2. /\ ins.op \notin Unary /\ ins.op \notin Binary \union Comparison
          /\ ins.op \notin {"Begin", "Inv", "End", "Par"}
      BY <3>1, OpNames DEF CondExp
    <3>3. QED
      BY <3>1, <3>2
  <2>2. CASE t.op_rec_[i].op # "CExp"
    <3>1. /\ ins.kind \in OperandKinds(ins.op) /\ DOMAIN ins.arg = DOMAIN ins.kind
          /\ ins.op \in {"Begin", "Inv", "Par", "End"} \union Unary \union Binary \union Comparison
      BY <2>2, OtherOf, CodeFacts
    <3>2. CASE ins.op \in Unary
      <4>1. OperandKinds(ins.op) = [1 .. 1 -> {"v", "p"}]
        BY <3>2, OpNames DEF OperandKinds
      <4>2. QED
        BY <3>1, <3>2, <4>1, OpNames
    <3>3. CASE ins.op \in Binary \union Comparison
      <4>1. OperandKinds(ins.op) = [1 .. 2 -> {"v", "p"}]
        BY <3>3, OpNames DEF OperandKinds, Binary, Comparison
      <4>2. ins.op \notin {"Begin", "Inv", "Par", "End"}
        BY <3>3 DEF Binary, Comparison
      <4>3. QED
        BY <3>1, <3>3, <4>1, <4>2, OpNames
    <3>4. CASE ins.op \in {"Begin", "Inv", "Par", "End"}
      <4>1. /\ ins.op \notin Unary /\ ins.op \notin Binary \union Comparison
            /\ ins.op \notin CondExp
        BY <3>4, OpNames DEF Binary, Comparison, CondExp
      <4>2. ins.op = "Par" => ins.kind = <<"p">>
        BY <3>1, <4>1 DEF OperandKinds
      <4>3. ins.op # "Par" => ins.kind = <<>>
        BY <3>1, <3>4, <4>1 DEF OperandKinds
      <4>4. DOMAIN <<"p">> = 1 .. 1 /\ <<"p">>[1] = "p"
        OBVIOUS
      <4>5. QED
        BY <3>1, <3>4, <4>1, <4>2, <4>3, <4>4
    <3>5. QED
      BY <3>1, <3>2, <3>3, <3>4
  <2>3. QED
    BY <2>1, <2>2
<1>3. QED
  BY <1>1, <1>2, Sourced DEF Operated

-----------------------------------------------------------------------------
(* The cursor is at an operator of the recording. *)
Here == cursor.op_index_

CursorInv ==
  /\ play \in Tapes
  /\ conditional_skip \in BOOLEAN
  /\ phase \in {"reverse", "forward", "csum", "done"}
  /\ Here \in Op(play)
  /\ cursor = At(play, Here)
  /\ phase = "forward" => Here < play.num_op_rec - 1
  /\ phase = "csum" => InstrOf(play, Here).op \in Summation

LEMMA ForwardCursor ==
  ASSUME NEW t \in Tapes, NEW i \in Op(t), i < t.num_op_rec - 1
  PROVE  i + 1 \in Op(t) /\ forward_next(t, At(t, i)) = At(t, i + 1)
<1>1. i + 1 \in Op(t)
  BY CodeFacts DEF Op
<1>2. /\ t.first[i + 1] = t.first[i] + NumArg(t.op_rec_[i])
      /\ t.last[i + 1] = t.last[i] + NumRes(t.op_rec_[i + 1].op)
  BY <1>1, NextPlace
<1>3. QED
  BY <1>1, <1>2 DEF forward_next, At, OpAt

LEMMA ReverseNext ==
  ASSUME NEW t \in Tapes, NEW i \in Op(t), t.op_rec_[i].op # "Begin"
  PROVE  i - 1 \in Op(t) /\ reverse_next(t, At(t, i)) = At(t, i - 1)
<1>1. i # 0 /\ i \in Int
  BY CodeFacts DEF Op
<1>2. i - 1 \in Op(t) /\ (i - 1) + 1 = i
  BY <1>1, CodeFacts DEF Op
<1>3. /\ t.first[i] = t.first[i - 1] + NumArg(t.op_rec_[i - 1])
      /\ t.last[i] = t.last[i - 1] + NumRes(t.op_rec_[i].op)
      /\ NumArg(t.op_rec_[i - 1]) \in Nat
  BY <1>2, NextPlace
<1>4. t.first[i - 1] \in Nat /\ t.last[i - 1] \in Nat /\ NumRes(t.op_rec_[i].op) \in Nat
  BY <1>2, CodeFacts, ResultCounts
<1>5. /\ t.first[i] - NumArg(t.op_rec_[i - 1]) = t.first[i - 1]
      /\ t.last[i] - NumRes(t.op_rec_[i].op) = t.last[i - 1]
  BY <1>3, <1>4
<1>6. QED
  BY <1>2, <1>5 DEF reverse_next, At, OpAt

(* The step of a reverse action is to operator i, ... *)
ReverseTo(i) ==
  /\ phase = "reverse"
  /\ i \in Op(play) /\ i + 1 = Here
  /\ Behind = At(play, i) /\ Instr(play, Behind) = InstrOf(play, i)

LEMMA BackTo ==
  ASSUME CursorInv, NEW ops, Back(ops)
  PROVE  \E i \in Op(play) : /\ ReverseTo(i) /\ cursor' = At(play, i)
                             /\ InstrOf(play, i).op \in ops
<1> DEFINE i == Here - 1
<1>1. play.op_rec_[Here].op # "Begin"
  BY DEF Back, OpAt, Here
<1>2. i \in Op(play) /\ reverse_next(play, At(play, Here)) = At(play, i)
  BY <1>1, ReverseNext DEF CursorInv
<1>3. Behind = At(play, i)
  BY <1>2 DEF Behind, CursorInv
<1>4. i + 1 = Here
  BY CodeFacts DEF CursorInv, Op
<1>5. QED
  BY <1>2, <1>3, <1>4 DEF Back, ReverseTo, InstrOf

(* ... that of a forward action over operator i. *)
ForwardTo(i) ==
  /\ phase = "forward"
  /\ i \in Op(play) /\ i = Here + 1 /\ Here \in Op(play)
  /\ Ahead = At(play, i) /\ Current = InstrOf(play, i)
  /\ OpAt(play, Ahead) = play.op_rec_[i]

LEMMA ForwardIs ==
  ASSUME CursorInv, phase = "forward"
  PROVE  \E i \in Op(play) : ForwardTo(i)
<1> DEFINE i == Here + 1
<1>1. i \in Op(play) /\ forward_next(play, At(play, Here)) = At(play, i)
  BY ForwardCursor DEF CursorInv
<1>2. Ahead = At(play, i)
  BY <1>1 DEF Ahead, CursorInv
<1>3. OpAt(play, Ahead) = play.op_rec_[i]
  BY <1>2 DEF OpAt, At
<1>4. QED
  BY <1>1, <1>2, <1>3 DEF ForwardTo, InstrOf, Current, CursorInv

LEMMA StepCursor ==
  ASSUME CursorInv, [Next]_vars
  PROVE  CursorInv'
<1>1. CASE \/ ReverseArithmetic \/ ReverseCondExp \/ ReverseCompare \/ ReverseInv \/ ReversePar
  <2>1. PICK ops : Back(ops)
    BY <1>1 DEF ReverseArithmetic, ReverseCondExp, ReverseCompare, ReverseInv, ReversePar
  <2>2. PICK i \in Op(play) : cursor' = At(play, i)
    BY <2>1, BackTo
  <2>3. play' = play /\ phase' = phase /\ conditional_skip' = conditional_skip /\ phase = "reverse"
    BY <2>1 DEF Back
  <2>4. cursor'.op_index_ = i
    BY <2>2 DEF At
  <2>5. QED
    BY <2>2, <2>3, <2>4 DEF CursorInv, Here
<1>2. CASE Prepare
  <2>1. /\ play' = play /\ phase' = "forward" /\ conditional_skip' = conditional_skip
        /\ cursor' = forward_start
    BY <1>2 DEF Prepare
  <2>2. forward_start = At(play, 0) /\ At(play, 0).op_index_ = 0 /\ 0 \in Op(play)
        /\ 0 < play.num_op_rec - 1
    BY Ends DEF CursorInv, forward_start, At
  <2>3. QED
    BY <2>1, <2>2 DEF CursorInv, Here
<1>3. ASSUME NEW ops, Forward(ops),
             \/ phase' = "forward" /\ "End" \notin ops
             \/ phase' = "csum" /\ ops = Summation
             \/ phase' = "done"
      PROVE  CursorInv'
  <2>1. /\ play' = play /\ conditional_skip' = conditional_skip /\ phase = "forward"
        /\ cursor' = Ahead /\ Current.op \in ops
    BY <1>3 DEF Forward
  <2>2. PICK i \in Op(play) : ForwardTo(i)
    BY <2>1, ForwardIs
  <2>3. cursor' = At(play, i) /\ cursor'.op_index_ = i /\ InstrOf(play, i).op \in ops
    BY <2>1, <2>2 DEF ForwardTo, At
  <2>4. i = play.num_op_rec - 1 => InstrOf(play, i).op = "End"
    BY Location DEF CursorInv, Located
  <2>5. "End" \notin ops => i < play.num_op_rec - 1
    BY <2>3, <2>4, CodeFacts DEF CursorInv, Op
  <2>6. QED
    BY <1>3, <2>1, <2>3, <2>5 DEF CursorInv, Here, Summation
<1>4. CASE Drop
  BY <1>3, <1>4, OpNames DEF Drop, Binary, CondExp, CursorInv, Forward
<1>5. CASE Merge
  BY <1>3, <1>5, OpNames DEF Merge, Arithmetic, Binary, CursorInv, Forward
<1>6. CASE RecordArithmetic
  BY <1>3, <1>6, OpNames DEF RecordArithmetic, Arithmetic, Binary, CursorInv, Forward
<1>7. CASE RecordVariable
  BY <1>3, <1>7 DEF RecordVariable, CursorInv, Forward
<1>8. CASE RecordCondExp
  BY <1>3, <1>8 DEF RecordCondExp, CondExp, CursorInv, Forward
<1>9. CASE RecordCompare
  BY <1>3, <1>9 DEF RecordCompare, Comparison, CursorInv, Forward
<1>10. CASE StartSum
  BY <1>3, <1>10 DEF StartSum
<1>11. CASE SumNext
  BY <1>11 DEF SumNext, CursorInv, Here
<1>12. CASE SumEnd
  <2>1. /\ play' = play /\ phase' = "forward" /\ conditional_skip' = conditional_skip
        /\ cursor' = cursor /\ phase = "csum"
    BY <1>12 DEF SumEnd
  <2>2. Here # play.num_op_rec - 1
    BY <2>1, Location DEF CursorInv, Located, Summation
  <2>3. Here < play.num_op_rec - 1
    BY <2>2, CodeFacts DEF CursorInv, Op
  <2>4. QED
    BY <2>1, <2>3 DEF CursorInv, Here
<1>13. CASE Finish
  BY <1>3, <1>13 DEF Finish
<1>14. CASE UNCHANGED vars
  BY <1>14 DEF vars, CursorInv, Here
<1>15. QED
  BY <1>1, <1>2, <1>4, <1>5, <1>6, <1>7, <1>8, <1>9, <1>10, <1>11, <1>12, <1>13, <1>14 DEF Next

-----------------------------------------------------------------------------
(* What is known of a variable, when n conditional expressions are         *)
(* connected.                                                              *)
Entry(t, n) ==
  [ins : {InstrOf(t, i) : i \in Op(t)}, connect_type : connect_types,
   cexp_set : SUBSET (BOOLEAN \X (1 .. n)), new_var : 0 .. t.num_var_rec,
   new_op : Nat, match : BOOLEAN]

Entries(t, n) == [Address(t) -> Entry(t, n)]

(* What an operator may do to an operand: connections are never lost, and  *)
(* only a sum makes a variable connected through one sum.                  *)
Relinked(v, w, ins) ==
  /\ w.ins = v.ins /\ w.new_var = v.new_var /\ w.new_op = v.new_op /\ w.match = v.match
  /\ v.connect_type # "not_connected" => w.connect_type # "not_connected"
  /\ v.connect_type = "yes_connected" => w.connect_type = "yes_connected"
  /\ w.connect_type = "csum_connected" => v.connect_type = "csum_connected"
  /\ w.connect_type = "sum_connected" =>
       \/ v.connect_type = "sum_connected"
       \/ ins.op \in Summation /\ v.connect_type = "not_connected"

Linked(tp, tq, ins) ==
  \A a \in DOMAIN tp : /\ Relinked(tp[a], tq[a], ins)
                       /\ a \notin VarOperands(ins) => tq[a] = tp[a]

(* A connection as operands get it. *)
SettledEntry(w, ins) ==
  /\ w.connect_type # "not_connected"
  /\ w.connect_type \in {"sum_connected", "csum_connected"} => ins.op \in Summation

Settled(tp, ins, j) ==
  j \in DOMAIN ins.arg /\ ins.kind[j] = "v" =>
    SettledEntry(tp[ins.arg[j]], ins)

LEMMA RelinkedTwice ==
  ASSUME NEW u, NEW v, NEW w, NEW ins, Relinked(u, v, ins), Relinked(v, w, ins)
  PROVE  Relinked(u, w, ins)
  BY DEF Relinked

LEMMA RelinkedSettled ==
  ASSUME NEW v, NEW w, NEW ins, Relinked(v, w, ins), SettledEntry(v, ins)
  PROVE  SettledEntry(w, ins)
  BY DEF Relinked, SettledEntry

LEMMA LinkedTwice ==
  ASSUME NEW tp, NEW tq, NEW tr, NEW ins, DOMAIN tq = DOMAIN tp,
         Linked(tp, tq, ins), Linked(tq, tr, ins)
  PROVE  Linked(tp, tr, ins)
  BY RelinkedTwice DEF Linked

LEMMA UsedEntry ==
  ASSUME NEW t, NEW n, NEW v \in Entry(t, n), NEW w \in Entry(t, n), NEW ins,
         NEW first, NEW u, u = Used(v, w, first),
         first \in {"sum_connected", "yes_connected"},
         first = "sum_connected" => ins.op \in Summation
  PROVE  /\ u \in Entry(t, n) /\ Relinked(v, u, ins)
         /\ w.connect_type # "not_connected" => SettledEntry(u, ins)
<1>1. first \in connect_types /\ "yes_connected" \in connect_types /\ "cexp_connected" \in connect_types
  BY DEF connect_types
<1>2. CASE w.connect_type = "not_connected"
  <2>1. u = v
    BY <1>2 DEF Used
  <2>2. QED
    BY <1>2, <2>1 DEF Relinked
<1>3. CASE w.connect_type \notin {"not_connected", "cexp_connected"}
  <2>1. u = [v EXCEPT !.connect_type = IF v.connect_type = "not_connected" THEN first
                                                                       ELSE "yes_connected"]
    BY <1>3 DEF Used
  <2>2. u \in Entry(t, n)
    BY <1>1, <2>1 DEF Entry
  <2>3. QED
    BY <2>1, <2>2 DEF Relinked, SettledEntry, Entry
<1>4. CASE w.connect_type = "cexp_connected" /\ v.connect_type = "not_connected"
  <2>1. u = [v EXCEPT !.connect_type = "cexp_connected", !.cexp_set = w.cexp_set]
    BY <1>4 DEF Used
  <2>2. u \in Entry(t, n)
    BY <1>1, <2>1 DEF Entry
  <2>3. QED
    BY <1>4, <2>1, <2>2 DEF Relinked, SettledEntry, Entry
<1>5. CASE w.connect_type = "cexp_connected" /\ v.connect_type = "cexp_connected"
  <2>1. u = [v EXCEPT !.cexp_set = v.cexp_set \intersect w.cexp_set,
                      !.connect_type = IF v.cexp_set \intersect w.cexp_set = {}
                                         THEN "yes_connected" ELSE v.connect_type]
    BY <1>5 DEF Used
  <2>2. u \in Entry(t, n)
    BY <1>1, <2>1 DEF Entry
  <2>3. QED
    BY <1>5, <2>1, <2>2 DEF Relinked, SettledEntry, Entry
<1>6. CASE w.connect_type = "cexp_connected" /\ v.connect_type \notin {"not_connected", "cexp_connected"}
  <2>1. u = [v EXCEPT !.connect_type = "yes_connected"]
    BY <1>6 DEF Used
  <2>2. u \in Entry(t, n)
    BY <1>1, <2>1 DEF Entry
  <2>3. QED
    BY <1>6, <2>1, <2>2 DEF Relinked, SettledEntry, Entry
<1>7. QED
  BY <1>2, <1>3, <1>4, <1>5, <1>6

LEMMA Relink ==
  ASSUME NEW t, NEW n, NEW tp \in Entries(t, n), NEW ins, NEW a \in Address(t),
         a \in VarOperands(ins), NEW w \in Entry(t, n), NEW tq,
         Relinked(tp[a], w, ins), Replaced(tp, tq, a, w)
  PROVE  tq \in Entries(t, n) /\ Linked(tp, tq, ins) /\ tq[a] = w
<1>1. /\ tq \in Entries(t, n)
      /\ DOMAIN tp = Address(t)
      /\ tq[a] = w
      /\ \A b \in Address(t) : b # a => tq[b] = tp[b]
  BY DEF Entries, Replaced
<1>2. \A b : Relinked(tp[b], tp[b], ins)
  BY DEF Relinked
<1>3. QED
  BY <1>1, <1>2 DEF Linked

LEMMA LinkedSame ==
  ASSUME NEW tp, NEW ins
  PROVE  Linked(tp, tp, ins)
  BY DEF Linked, Relinked

LEMMA LinkedSettled ==
  ASSUME NEW t, NEW n, NEW tp \in Entries(t, n), NEW tq, NEW i \in Op(t), t \in Tapes,
         NEW j, Linked(tp, tq, InstrOf(t, i)), Settled(tp, InstrOf(t, i), j)
  PROVE  Settled(tq, InstrOf(t, i), j)
<1> DEFINE ins == InstrOf(t, i)
<1>1. SUFFICES ASSUME j \in DOMAIN ins.arg, ins.kind[j] = "v"
               PROVE  SettledEntry(tq[ins.arg[j]], ins)
  BY DEF Settled
<1>2. PICK k \in 0 .. i - 1 : ins.arg[j] = t.last[k]
  BY <1>1, Operation DEF Operated
<1>3. k \in Op(t) /\ k <= k
  BY <1>2, CodeFacts DEF Op
<1>4. ins.arg[j] \in DOMAIN tp
  BY <1>2, <1>3, Later DEF Entries
<1>5. SettledEntry(tp[ins.arg[j]], ins)
  BY <1>1 DEF Settled
<1>6. Relinked(tp[ins.arg[j]], tq[ins.arg[j]], ins)
  BY <1>4 DEF Linked
<1>7. QED
  BY <1>5, <1>6, RelinkedSettled

(* The operands of an operator. *)
LEMMA OperandPlace ==
  ASSUME NEW t \in Tapes, NEW i \in Op(t), NEW j \in DOMAIN InstrOf(t, i).arg,
         InstrOf(t, i).kind[j] = "v"
  PROVE  /\ InstrOf(t, i).arg[j] \in Address(t)
         /\ InstrOf(t, i).arg[j] \in VarOperands(InstrOf(t, i))
         /\ InstrOf(t, i).arg[j] > 0
         /\ InstrOf(t, i).arg[j] <= InstrOf(t, i).res
         /\ NumRes(InstrOf(t, i).op) > 0 => InstrOf(t, i).arg[j] < InstrOf(t, i).res
         /\ \E k \in 0 .. i - 1 : k \in Op(t) /\ InstrOf(t, i).arg[j] = t.last[k]
<1> DEFINE ins == InstrOf(t, i)
<1>1. ins.arg[j] \in 1 .. ins.res - NumRes(ins.op)
  BY Operation DEF Operated
<1>2. PICK k \in 0 .. i - 1 : ins.arg[j] = t.last[k]
  BY Operation DEF Operated
<1>3. k \in Op(t) /\ k <= k
  BY <1>2, CodeFacts DEF Op
<1>4. ins.arg[j] \in Address(t)
  BY <1>2, <1>3, Later
<1>5. ins.arg[j] \in VarOperands(ins)
  BY DEF VarOperands
<1>6. NumRes(ins.op) \in Nat
  BY ResultCounts
<1>7. ins.res \in Address(t) /\ ins.res \in Nat
  BY Location DEF Located, Address
<1>8. QED
  BY <1>1, <1>2, <1>3, <1>4, <1>5, <1>6, <1>7

(* UseOperand, Needed and Branch, each for one operand.                    *)
Links(t, n, tp, tq, ins, j) ==
  tq \in Entries(t, n) /\ Linked(tp, tq, ins) /\ Settled(tq, ins, j)

LEMMA UseOperandLinks ==
  ASSUME NEW t \in Tapes, NEW i \in Op(t), NEW n, NEW tp \in Entries(t, n), NEW j
  PROVE  LET ins == InstrOf(t, i)
             tq == UseOperand(tp, ins, j)
         IN  /\ tq \in Entries(t, n) /\ Linked(tp, tq, ins)
             /\ tp[ins.res].connect_type # "not_connected" => Settled(tq, ins, j)
<1> DEFINE ins == InstrOf(t, i)
           tq == UseOperand(tp, ins, j)
           a == ins.arg[j]
           first == IF ins.op \in Summation THEN "sum_connected" ELSE "yes_connected"
           w == Used(tp[a], tp[ins.res], first)
<1>1. CASE ~ (j \in DOMAIN ins.arg /\ ins.kind[j] = "v")
  <2>1. tq = tp
    BY <1>1 DEF UseOperand
  <2>2. QED
    BY <1>1, <2>1, LinkedSame DEF Settled
<1>2. CASE j \in DOMAIN ins.arg /\ ins.kind[j] = "v"
  <2>1. a \in Address(t) /\ a \in VarOperands(ins)
    BY <1>2, OperandPlace
  <2>2. ins.res \in Address(t)
    BY Location DEF Located
  <2>3. tp[a] \in Entry(t, n) /\ tp[ins.res] \in Entry(t, n)
    BY <2>1, <2>2 DEF Entries
  <2>5. /\ w \in Entry(t, n) /\ Relinked(tp[a], w, ins)
        /\ tp[ins.res].connect_type # "not_connected" => SettledEntry(w, ins)
    <3> HIDE DEF w
    <3>1. w = Used(tp[a], tp[ins.res], first)
      BY DEF w
    <3>2. /\ first \in {"sum_connected", "yes_connected"}
          /\ first = "sum_connected" => ins.op \in Summation
      OBVIOUS
    <3> HIDE DEF first
    <3>3. QED
      BY <2>3, <3>1, <3>2, UsedEntry
  <2>6. Replaced(tp, tq, a, w)
    BY <1>2 DEF UseOperand, Replaced
  <2> HIDE DEF w, a, tq
  <2>7. tq \in Entries(t, n) /\ Linked(tp, tq, ins) /\ tq[a] = w
    BY <2>1, <2>5, <2>6, Relink
  <2>8. QED
    BY <2>5, <2>7 DEF Settled, a, tq
<1>3. QED
  BY <1>1, <1>2

LEMMA NeededLinks ==
  ASSUME NEW t \in Tapes, NEW i \in Op(t), NEW n, NEW tp \in Entries(t, n),
         NEW j \in DOMAIN InstrOf(t, i).arg
  PROVE  Links(t, n, tp, Needed(tp, InstrOf(t, i), j), InstrOf(t, i), j)
<1> DEFINE ins == InstrOf(t, i)
           tq == Needed(tp, ins, j)
           a == ins.arg[j]
           w == [tp[a] EXCEPT !.connect_type = "yes_connected"]
<1>1. CASE ins.kind[j] # "v"
  <2>1. tq = tp
    BY <1>1 DEF Needed
  <2>2. QED
    BY <1>1, <2>1, LinkedSame DEF Settled, Links
<1>2. CASE ins.kind[j] = "v"
  <2>1. a \in Address(t) /\ a \in VarOperands(ins)
    BY <1>2, OperandPlace
  <2>2. tp[a] \in Entry(t, n)
    BY <2>1 DEF Entries
  <2>3. w \in Entry(t, n) /\ Relinked(tp[a], w, ins)
        /\ SettledEntry(w, ins)
    BY <2>2 DEF Entry, Relinked, SettledEntry, connect_types
  <2>4. Replaced(tp, tq, a, w)
    BY <1>2, <2>1 DEF Needed, Entries, Replaced
  <2> HIDE DEF w, a, tq
  <2>5. tq \in Entries(t, n) /\ Linked(tp, tq, ins) /\ tq[a] = w
    BY <2>1, <2>3, <2>4, Relink
  <2>6. QED
    BY <2>3, <2>5 DEF Settled, Links, a, tq
<1>3. QED
  BY <1>1, <1>2

LEMMA BranchLinks ==
  ASSUME NEW t \in Tapes, NEW i \in Op(t), NEW n, NEW tp \in Entries(t, n),
         NEW j \in DOMAIN InstrOf(t, i).arg, NEW outcome \in BOOLEAN \X (1 .. n)
  PROVE  Links(t, n, tp, Branch(tp, InstrOf(t, i), j, outcome), InstrOf(t, i), j)
<1> DEFINE ins == InstrOf(t, i)
           tq == Branch(tp, ins, j, outcome)
           a == ins.arg[j]
           skip == conditional_skip /\ tp[a].connect_type = "not_connected"
           w == IF skip
                  THEN [tp[a] EXCEPT !.connect_type = "cexp_connected",
                                     !.cexp_set = tp[ins.res].cexp_set \union {outcome}]
                  ELSE [tp[a] EXCEPT !.connect_type = "yes_connected", !.cexp_set = {}]
<1>1. CASE ins.kind[j] = "p"
  <2>1. tq = tp
    BY <1>1 DEF Branch
  <2>2. QED
    BY <1>1, <2>1, LinkedSame DEF Settled, Links
<1>2. CASE ins.kind[j] = "v"
  <2>1. a \in Address(t) /\ a \in VarOperands(ins)
    BY <1>2, OperandPlace
  <2>2. ins.res \in Address(t)
    BY Location DEF Located
  <2>3. tp[a] \in Entry(t, n) /\ tp[ins.res] \in Entry(t, n)
    BY <2>1, <2>2 DEF Entries
  <2>4. tp[ins.res].cexp_set \union {outcome} \in SUBSET (BOOLEAN \X (1 .. n))
    BY <2>3 DEF Entry
  <2>5. w \in Entry(t, n) /\ Relinked(tp[a], w, ins)
        /\ SettledEntry(w, ins)
    <3>1. CASE skip
      BY <2>3, <2>4, <3>1 DEF Entry, Relinked, SettledEntry, connect_types
    <3>2. CASE ~ skip
      BY <2>3, <3>2 DEF Entry, Relinked, SettledEntry, connect_types
    <3>3. QED
      BY <3>1, <3>2
  <2>6. Replaced(tp, tq, a, w)
    <3>1. CASE skip
      BY <1>2, <2>1, <3>1 DEF Branch, Entries, Replaced
    <3>2. CASE ~ skip
      BY <1>2, <2>1, <3>2 DEF Branch, Entries, Replaced
    <3>3. QED
      BY <3>1, <3>2
  <2> HIDE DEF w, a, tq
  <2>7. tq \in Entries(t, n) /\ Linked(tp, tq, ins) /\ tq[a] = w
    BY <2>1, <2>5, <2>6, Relink
  <2>8. QED
    BY <2>5, <2>7 DEF Settled, Links, a, tq
<1>3. QED
  BY <1>1, <1>2, Operation DEF Operated

-----------------------------------------------------------------------------
(* What a step of the first pass may do to the variables. *)
Reconnected(v, w, ins, isResult) ==
  /\ w.new_var = v.new_var /\ w.new_op = v.new_op /\ w.match = v.match
  /\ w.ins = IF isResult /\ NumRes(ins.op) > 0 THEN ins ELSE v.ins
  /\ v.connect_type # "not_connected" => w.connect_type # "not_connected"
  /\ v.connect_type = "yes_connected" => w.connect_type = "yes_connected"
  /\ w.connect_type = "csum_connected" =>
       \/ v.connect_type = "csum_connected"
       \/ ins.op \in Summation /\ isResult /\ v.connect_type = "sum_connected"
  /\ w.connect_type = "sum_connected" =>
       \/ v.connect_type = "sum_connected"
       \/ ins.op \in Summation /\ v.connect_type = "not_connected"
  /\ isResult /\ NumRes(ins.op) > 0 /\ ins.op \notin {"Begin", "Inv"} =>
       (w.connect_type # "not_connected" => v.connect_type # "not_connected")

Connects(t, n, tp, tq, ins) ==
  /\ tq \in Entries(t, n)
  /\ \A a \in Address(t) :
       /\ Reconnected(tp[a], tq[a], ins, a = ins.res)
       /\ a # ins.res /\ a \notin VarOperands(ins) => tq[a] = tp[a]
  /\ (\/ ins.op \in Comparison
      \/ NumRes(ins.op) > 0 /\ tq[ins.res].connect_type # "not_connected")
       => \A j : Settled(tq, ins, j)

LEMMA NotedEntries ==
  ASSUME NEW t \in Tapes, NEW i \in Op(t), NEW n, NEW tp \in Entries(t, n)
  PROVE  LET ins == InstrOf(t, i)
         IN  /\ Noted(tp, ins) \in Entries(t, n)
             /\ \A a \in Address(t) :
                  Noted(tp, ins)[a] = IF NumRes(ins.op) > 0 /\ a = ins.res
                                        THEN [tp[a] EXCEPT !.ins = ins] ELSE tp[a]
<1> DEFINE ins == InstrOf(t, i)
<1>1. ins.res \in Address(t)
  BY Location DEF Located
<1>2. ins \in {InstrOf(t, k) : k \in Op(t)}
  OBVIOUS
<1> HIDE DEF ins
<1>3. DOMAIN tp = Address(t) /\ \A a \in Address(t) : tp[a] \in Entry(t, n)
  BY DEF Entries
<1>4. [tp[ins.res] EXCEPT !.ins = ins] \in Entry(t, n)
  BY <1>1, <1>2, <1>3 DEF Entry
<1>5. QED
  BY <1>1, <1>3, <1>4 DEF Noted, Entries, ins

(* Noting a result and then linking operands connects. *)
LEMMA NotedConnects ==
  ASSUME NEW t \in Tapes, NEW i \in Op(t), NEW n, NEW tp \in Entries(t, n),
         NEW tq \in Entries(t, n),
         Linked(Noted(tp, InstrOf(t, i)), tq, InstrOf(t, i)),
         (\/ InstrOf(t, i).op \in Comparison
          \/ /\ NumRes(InstrOf(t, i).op) > 0
             /\ tp[InstrOf(t, i).res].connect_type # "not_connected")
           => \A j : Settled(tq, InstrOf(t, i), j)
  PROVE  /\ Connects(t, n, tp, tq, InstrOf(t, i))
         /\ NumRes(InstrOf(t, i).op) > 0 =>
              tq[InstrOf(t, i).res] = [tp[InstrOf(t, i).res] EXCEPT !.ins = InstrOf(t, i)]
<1> DEFINE ins == InstrOf(t, i)
           tn == Noted(tp, ins)
<1>1. ins.res \in Address(t) /\ ins.res \in Nat
  BY Location DEF Located, Address
<1>2. /\ tn \in Entries(t, n)
      /\ \A a \in Address(t) : tn[a] = IF NumRes(ins.op) > 0 /\ a = ins.res
                                         THEN [tp[a] EXCEPT !.ins = ins] ELSE tp[a]
  BY NotedEntries
<1>3. NumRes(ins.op) > 0 => ins.res \notin VarOperands(ins)
  <2>1. ASSUME NumRes(ins.op) > 0, NEW j \in DOMAIN ins.arg, ins.kind[j] = "v"
        PROVE  ins.arg[j] # ins.res
    BY <2>1, <1>1, OperandPlace
  <2>2. QED
    BY <2>1 DEF VarOperands
<1>4. \A a \in Address(t) : /\ Relinked(tn[a], tq[a], ins)
                            /\ a \notin VarOperands(ins) => tq[a] = tn[a]
  BY <1>2 DEF Linked, Entries
<1>5. NumRes(ins.op) > 0 => tq[ins.res] = [tp[ins.res] EXCEPT !.ins = ins]
  BY <1>1, <1>2, <1>3, <1>4
<1>6. \A a \in Address(t) : tp[a] \in Entry(t, n)
  BY DEF Entries
<1>7. ASSUME NEW a \in Address(t)
      PROVE  /\ Reconnected(tp[a], tq[a], ins, a = ins.res)
             /\ a # ins.res /\ a \notin VarOperands(ins) => tq[a] = tp[a]
  <2>1. CASE NumRes(ins.op) > 0 /\ a = ins.res
    <3>1. tq[a] = [tp[a] EXCEPT !.ins = ins] /\ tp[a] \in Entry(t, n)
      BY <1>5, <1>6, <2>1
    <3>2. QED
      BY <2>1, <3>1 DEF Reconnected, Entry
  <2>2. CASE ~ (NumRes(ins.op) > 0 /\ a = ins.res)
    <3>1. tn[a] = tp[a]
      BY <1>2, <2>2
    <3>2. Relinked(tp[a], tq[a], ins)
          /\ (a \notin VarOperands(ins) => tq[a] = tp[a])
      BY <1>4, <3>1
    <3>3. QED
      BY <2>2, <3>2 DEF Reconnected, Relinked
  <2>3. QED
    BY <2>1, <2>2
<1>8. NumRes(ins.op) > 0 => tq[ins.res].connect_type = tp[ins.res].connect_type
  <2>1. tp[ins.res] \in Entry(t, n)
    BY <1>1, <1>6
  <2>2. QED
    BY <1>5, <2>1 DEF Entry
<1>9. (\/ ins.op \in Comparison
       \/ NumRes(ins.op) > 0 /\ tq[ins.res].connect_type # "not_connected")
        => \A j : Settled(tq, ins, j)
  BY <1>8
<1>10. QED
  BY <1>5, <1>7, <1>9 DEF Connects

(* The operands of an operator are at most four. *)
LEMMA SettledAll ==
  ASSUME NEW t \in Tapes, NEW i \in Op(t), NEW tq,
         \A j \in 1 .. 4 : j \in DOMAIN InstrOf(t, i).arg => Settled(tq, InstrOf(t, i), j)
  PROVE  \A j : Settled(tq, InstrOf(t, i), j)
<1> DEFINE ins == InstrOf(t, i)
<1>1. DOMAIN ins.arg \subseteq 1 .. 4
  BY Location, Operation DEF Located, Operated
<1>2. QED
  BY <1>1 DEF Settled

LEMMA GatheredConnects ==
  ASSUME NEW t \in Tapes, NEW i \in Op(t), NEW n, NEW tp \in Entries(t, n),
         NEW tq, Connects(t, n, tp, tq, InstrOf(t, i)),
         NumRes(InstrOf(t, i).op) > 0,
         tq[InstrOf(t, i).res].connect_type = tp[InstrOf(t, i).res].connect_type
  PROVE  Connects(t, n, tp, Gathered(tq, InstrOf(t, i)), InstrOf(t, i))
<1> DEFINE ins == InstrOf(t, i)
           tr == Gathered(tq, ins)
           res == ins.res
<1>1. CASE ~ (ins.op \in Summation /\ tq[res].connect_type = "sum_connected")
  BY <1>1 DEF Gathered
<1>2. CASE ins.op \in Summation /\ tq[res].connect_type = "sum_connected"
  <2>1. res \in Address(t)
    BY Location DEF Located
  <2>2. tq \in Entries(t, n)
    BY DEF Connects
  <2>3. tr = [tq EXCEPT ![res].connect_type = "csum_connected"]
    BY <1>2 DEF Gathered
  <2>4. tr \in Entries(t, n)
    <3>1. [tq[res] EXCEPT !.connect_type = "csum_connected"] \in Entry(t, n)
      BY <2>1, <2>2 DEF Entries, Entry, connect_types
    <3>2. QED
      BY <2>1, <2>2, <2>3, <3>1 DEF Entries
  <2>5. /\ tr[res] = [tq[res] EXCEPT !.connect_type = "csum_connected"]
        /\ \A a \in Address(t) : a # res => tr[a] = tq[a]
    BY <2>1, <2>2, <2>3 DEF Entries
  <2>6. tq[res] \in Entry(t, n)
    BY <2>1, <2>2 DEF Entries
  <2>7. Reconnected(tp[res], tq[res], ins, TRUE)
    BY <2>1 DEF Connects
  <2>8. Reconnected(tp[res], tr[res], ins, TRUE)
    BY <1>2, <2>5, <2>6, <2>7 DEF Reconnected, Entry
  <2>9. ASSUME NEW a \in Address(t)
        PROVE  /\ Reconnected(tp[a], tr[a], ins, a = res)
               /\ a # res /\ a \notin VarOperands(ins) => tr[a] = tp[a]
    <3>1. CASE a = res
      BY <2>8, <3>1
    <3>2. CASE a # res
      BY <2>5, <3>2 DEF Connects
    <3>3. QED
      BY <3>1, <3>2
  <2>10. \A j : Settled(tq, ins, j)
    BY <1>2 DEF Connects
  <2>11. ASSUME NEW j
         PROVE  Settled(tr, ins, j)
    <3>1. SUFFICES ASSUME j \in DOMAIN ins.arg, ins.kind[j] = "v"
                   PROVE  SettledEntry(tr[ins.arg[j]], ins)
      BY DEF Settled
    <3>2. ins.arg[j] \in Address(t) /\ ins.arg[j] # res
      BY <3>1, <2>1, OperandPlace DEF Address
    <3>3. SettledEntry(tq[ins.arg[j]], ins)
      BY <2>10, <3>1 DEF Settled
    <3>4. QED
      BY <2>5, <3>2, <3>3
  <2>12. QED
    BY <2>4, <2>9, <2>11 DEF Connects
<1>3. QED
  BY <1>1, <1>2

LEMMA ArithmeticConnects ==
  ASSUME NEW t \in Tapes, NEW i \in Op(t), NEW n, NEW tp \in Entries(t, n),
         InstrOf(t, i).op \in Unary \union Binary
  PROVE  Connects(t, n, tp,
           Gathered(UseOperand(UseOperand(Noted(tp, InstrOf(t, i)), InstrOf(t, i), 1),
                               InstrOf(t, i), 2),
                    InstrOf(t, i)),
           InstrOf(t, i))
<1> DEFINE ins == InstrOf(t, i)
<1>1. PICK t1 : t1 = Noted(tp, ins)
  OBVIOUS
<1>2. PICK t2 : t2 = UseOperand(t1, ins, 1)
  OBVIOUS
<1>3. PICK t3 : t3 = UseOperand(t2, ins, 2)
  OBVIOUS
<1>4. /\ t1 \in Entries(t, n)
      /\ \A a \in Address(t) : t1[a] = IF NumRes(ins.op) > 0 /\ a = ins.res
                                         THEN [tp[a] EXCEPT !.ins = ins] ELSE tp[a]
  BY <1>1, NotedEntries
<1>5. NumRes(ins.op) > 0
  BY ResultCounts
<1>6. ins.res \in Address(t) /\ ins.res \in Nat
  BY Location DEF Located, Address
<1>7. t1[ins.res].connect_type = tp[ins.res].connect_type
  BY <1>4, <1>5, <1>6 DEF Entries, Entry
<1>8. /\ t2 \in Entries(t, n) /\ Linked(t1, t2, ins)
      /\ t1[ins.res].connect_type # "not_connected" => Settled(t2, ins, 1)
  BY <1>2, <1>4, UseOperandLinks
<1>9. /\ t3 \in Entries(t, n) /\ Linked(t2, t3, ins)
      /\ t2[ins.res].connect_type # "not_connected" => Settled(t3, ins, 2)
  BY <1>3, <1>8, UseOperandLinks
<1>10. t2[ins.res].connect_type # "not_connected" <=> tp[ins.res].connect_type # "not_connected"
  <2>1. ins.res \notin VarOperands(ins)
    <3>1. ASSUME NEW j \in DOMAIN ins.arg, ins.kind[j] = "v"
          PROVE  ins.arg[j] # ins.res
      BY <3>1, <1>5, <1>6, OperandPlace DEF Address
    <3>2. QED
      BY <3>1 DEF VarOperands
  <2>2. t2[ins.res] = t1[ins.res]
    BY <2>1, <1>4, <1>6, <1>8 DEF Linked, Entries
  <2>3. QED
    BY <1>7, <2>2
<1>11. Linked(t1, t3, ins)
  BY <1>4, <1>8, <1>9, LinkedTwice DEF Entries
<1>12. tp[ins.res].connect_type # "not_connected" => \A j : Settled(t3, ins, j)
  <2>1. ASSUME tp[ins.res].connect_type # "not_connected"
        PROVE  \A j \in 1 .. 4 : j \in DOMAIN ins.arg => Settled(t3, ins, j)
    <3>1. Settled(t2, ins, 1) /\ Settled(t3, ins, 2)
      BY <1>7, <1>8, <1>9, <1>10, <2>1
    <3>2. Settled(t3, ins, 1)
      BY <1>8, <1>9, <3>1, LinkedSettled
    <3>3. DOMAIN ins.arg \subseteq 1 .. 2
      BY Operation DEF Operated
    <3>4. QED
      BY <3>1, <3>2, <3>3
  <2>2. QED
    BY <2>1, SettledAll
<1>13. /\ Connects(t, n, tp, t3, ins)
       /\ t3[ins.res] = [tp[ins.res] EXCEPT !.ins = ins]
  <2>1. ins.op \notin Comparison
    BY OpNames
  <2>2. QED
    BY <1>1, <1>5, <1>9, <1>11, <1>12, <2>1, NotedConnects
<1>14. t3[ins.res].connect_type = tp[ins.res].connect_type
  BY <1>6, <1>13 DEF Entries, Entry
<1>15. Connects(t, n, tp, Gathered(t3, ins), ins)
  BY <1>5, <1>13, <1>14, GatheredConnects
<1>16. QED
  BY <1>1, <1>2, <1>3, <1>15

(* An operator that needs its operands, whatever becomes of its result.    *)
LEMMA CompareConnects ==
  ASSUME NEW t \in Tapes, NEW i \in Op(t), NEW n, NEW tp \in Entries(t, n),
         InstrOf(t, i).op \in Comparison
  PROVE  Connects(t, n, tp, Needed(Needed(tp, InstrOf(t, i), 1), InstrOf(t, i), 2),
                  InstrOf(t, i))
<1> DEFINE ins == InstrOf(t, i)
<1>1. PICK t2 : t2 = Needed(tp, ins, 1)
  OBVIOUS
<1>2. PICK t3 : t3 = Needed(t2, ins, 2)
  OBVIOUS
<1>3. DOMAIN ins.arg = 1 .. 2
  BY Operation DEF Operated
<1>4. Links(t, n, tp, t2, ins, 1)
  BY <1>1, <1>3, NeededLinks
<1>5. Links(t, n, t2, t3, ins, 2)
  BY <1>2, <1>3, <1>4, NeededLinks DEF Links
<1>6. Linked(tp, t3, ins)
  BY <1>4, <1>5, LinkedTwice DEF Links, Entries
<1>7. Settled(t3, ins, 1) /\ Settled(t3, ins, 2)
  BY <1>4, <1>5, LinkedSettled DEF Links
<1>8. \A j : Settled(t3, ins, j)
  BY <1>3, <1>7, SettledAll
<1>9. Noted(tp, ins) = tp
  BY ResultCounts DEF Noted
<1>10. Connects(t, n, tp, t3, ins)
  BY <1>5, <1>6, <1>8, <1>9, NotedConnects DEF Links
<1>11. QED
  BY <1>1, <1>2, <1>10

LEMMA CondExpConnects ==
  ASSUME NEW t \in Tapes, NEW i \in Op(t), NEW n \in Nat, n > 0, NEW tp \in Entries(t, n),
         InstrOf(t, i).op \in CondExp
  PROVE  Connects(t, n, tp,
           Branch(Branch(Needed(Needed(Noted(tp, InstrOf(t, i)), InstrOf(t, i), 1),
                                InstrOf(t, i), 2),
                         InstrOf(t, i), 3, <<TRUE, n>>),
                  InstrOf(t, i), 4, <<FALSE, n>>),
           InstrOf(t, i))
<1> DEFINE ins == InstrOf(t, i)
<1>1. PICK t1 : t1 = Noted(tp, ins)
  OBVIOUS
<1>2. PICK t2 : t2 = Needed(t1, ins, 1)
  OBVIOUS
<1>3. PICK t3 : t3 = Needed(t2, ins, 2)
  OBVIOUS
<1>0. PICK yes, no : yes = <<TRUE, n>> /\ no = <<FALSE, n>>
  OBVIOUS
<1>4. PICK t4 : t4 = Branch(t3, ins, 3, yes)
  OBVIOUS
<1>5. PICK t5 : t5 = Branch(t4, ins, 4, no)
  OBVIOUS
<1>6. DOMAIN ins.arg = 1 .. 4
  BY Operation DEF Operated
<1>7. yes \in BOOLEAN \X (1 .. n) /\ no \in BOOLEAN \X (1 .. n)
  <2>1. n \in 1 .. n
    OBVIOUS
  <2>2. QED
    BY <1>0, <2>1, Zenon
<1>8. t1 \in Entries(t, n)
  BY <1>1, NotedEntries
<1>9. Links(t, n, t1, t2, ins, 1)
  BY <1>2, <1>6, <1>8, NeededLinks
<1>10. Links(t, n, t2, t3, ins, 2)
  BY <1>3, <1>6, <1>9, NeededLinks DEF Links
<1>11. Links(t, n, t3, t4, ins, 3)
  BY <1>4, <1>6, <1>7, <1>10, BranchLinks DEF Links
<1>12. Links(t, n, t4, t5, ins, 4)
  <2>1. t4 \in Entries(t, n) /\ 4 \in DOMAIN ins.arg
    BY <1>6, <1>11 DEF Links
  <2>2. QED
    BY <1>5, <1>7, <2>1, BranchLinks
<1>13. DOMAIN t1 = DOMAIN t2 /\ DOMAIN t2 = DOMAIN t3 /\ DOMAIN t3 = DOMAIN t4
  BY <1>8, <1>9, <1>10, <1>11 DEF Links, Entries
<1>14. Linked(t4, t5, ins) /\ Linked(t3, t5, ins) /\ Linked(t2, t5, ins) /\ Linked(t1, t5, ins)
  BY <1>9, <1>10, <1>11, <1>12, <1>13, LinkedTwice DEF Links
<1>15. Settled(t5, ins, 1) /\ Settled(t5, ins, 2) /\ Settled(t5, ins, 3) /\ Settled(t5, ins, 4)
  BY <1>9, <1>10, <1>11, <1>12, <1>14, LinkedSettled DEF Links
<1>16. \A j : Settled(t5, ins, j)
  BY <1>15, SettledAll
<1>17. Connects(t, n, tp, t5, ins)
  BY <1>1, <1>12, <1>14, <1>16, NotedConnects DEF Links
<1>18. QED
  BY <1>0, <1>1, <1>2, <1>3, <1>4, <1>5, <1>17

-----------------------------------------------------------------------------
(* The connections, of the operators that the first pass has passed.       *)
Seen(i) == phase # "reverse" \/ i >= Here

Result(i) == tape[InstrOf(play, i).res]

ConnInv ==
  /\ IsSeq(cskip_info)
  /\ tape \in Entries(play, Len(cskip_info))
  /\ \A i \in Op(play) : Seen(i) /\ NumRes(InstrOf(play, i).op) > 0 =>
       Result(i).ins = InstrOf(play, i)
  /\ \A i \in Op(play) :
       /\ Seen(i)
       /\ \/ InstrOf(play, i).op \in Comparison
          \/ /\ NumRes(InstrOf(play, i).op) > 0
             /\ Result(i).connect_type # "not_connected"
       => \A j : Settled(tape, InstrOf(play, i), j)
  /\ \A a \in Address(play) : tape[a].connect_type = "csum_connected" =>
       \E i \in Op(play) : /\ Seen(i) /\ InstrOf(play, i).res = a
                           /\ InstrOf(play, i).op \in Summation
  /\ \A a \in Address(play) : tape[a].connect_type # "not_connected" =>
       \E i \in Op(play) : InstrOf(play, i).res = a
  /\ \A k \in DOMAIN play.dep_taddr_ :
       /\ play.dep_taddr_[k] \in Address(play)
       /\ tape[play.dep_taddr_[k]].connect_type = "yes_connected"

(* What a step of the first pass makes of them.                            *)
Reverses(i) ==
  /\ ReverseTo(i) /\ cursor' = At(play, i) /\ play' = play /\ phase' = "reverse"
  /\ UNCHANGED <<conditional_skip, cskip_info_order, cskip_order_next, cskip_info_index,
                 hash_table_var, csum_work, rec, dep_taddr>>
  /\ IsSeq(cskip_info') /\ Len(cskip_info') >= Len(cskip_info)
  /\ tape \in Entries(play, Len(cskip_info'))
  /\ Connects(play, Len(cskip_info'), tape, tape', InstrOf(play, i))

LEMMA EntriesGrow ==
  ASSUME NEW t, NEW m \in Nat, NEW n \in Nat, m <= n
  PROVE  Entries(t, m) \subseteq Entries(t, n)
<1>1. SUBSET (BOOLEAN \X (1 .. m)) \subseteq SUBSET (BOOLEAN \X (1 .. n))
  <2>1. 1 .. m \subseteq 1 .. n
    OBVIOUS
  <2>2. QED
    BY <2>1, Zenon
<1>2. Entry(t, m) \subseteq Entry(t, n)
  <2>1. PICK S, T : S = SUBSET (BOOLEAN \X (1 .. m)) /\ T = SUBSET (BOOLEAN \X (1 .. n))
    OBVIOUS
  <2>2. S \subseteq T
    BY <1>1, <2>1
  <2>3. QED
    BY <2>1, <2>2 DEF Entry
<1>3. QED
  BY <1>2 DEF Entries

LEMMA ReverseSteps ==
  ASSUME CursorInv, ConnInv,
         ReverseArithmetic \/ ReverseCondExp \/ ReverseCompare \/ ReverseInv \/ ReversePar
  PROVE  \E i \in Op(play) : Reverses(i)
<1> USE DEF CursorInv
<1> DEFINE n == Len(cskip_info)
<1>1. n \in Nat /\ IsSeq(cskip_info) /\ tape \in Entries(play, n)
  BY SeqLength DEF ConnInv
<1>2. PICK ops : /\ Back(ops)
                 /\ \/ ReverseArithmetic /\ ops = Unary \union Binary
                    \/ ReverseCondExp /\ ops = CondExp
                    \/ ReverseCompare /\ ops = Comparison
                    \/ ReverseInv /\ ops = {"Begin", "Inv"}
                    \/ ReversePar /\ ops = {"Par"}
  BY DEF ReverseArithmetic, ReverseCondExp, ReverseCompare, ReverseInv, ReversePar
<1>3. PICK i \in Op(play) : /\ ReverseTo(i) /\ cursor' = At(play, i)
                            /\ InstrOf(play, i).op \in ops
  BY <1>2, BackTo
<1> DEFINE ins == InstrOf(play, i)
<1>4. /\ play' = play /\ phase' = "reverse"
      /\ UNCHANGED <<conditional_skip, cskip_info_order, cskip_order_next,
                     cskip_info_index, hash_table_var, csum_work, rec, dep_taddr>>
  BY <1>2 DEF Back
<1>5. Instr(play, Behind) = ins
  BY <1>3 DEF ReverseTo
<1>6. SUFFICES /\ IsSeq(cskip_info') /\ Len(cskip_info') >= n
               /\ tape \in Entries(play, Len(cskip_info'))
               /\ Connects(play, Len(cskip_info'), tape, tape', ins)
  BY <1>3, <1>4 DEF Reverses
<1>7. CASE ReverseArithmetic /\ ops = Unary \union Binary
  <2>1. /\ tape' = Gathered(UseOperand(UseOperand(Noted(tape, ins), ins, 1), ins, 2), ins)
        /\ cskip_info' = cskip_info
    BY <1>5, <1>7 DEF ReverseArithmetic
  <2>2. Connects(play, n, tape, tape', ins)
    BY <1>1, <1>3, <1>7, <2>1, ArithmeticConnects
  <2>3. QED
    BY <1>1, <2>1, <2>2
<1>8. CASE ReverseCondExp /\ ops = CondExp /\ tape[ins.res].connect_type = "not_connected"
  <2>1. tape' = Noted(tape, ins) /\ cskip_info' = cskip_info
    BY <1>5, <1>8 DEF ReverseCondExp
  <2>2. tape' \in Entries(play, n)
    BY <1>1, <2>1, NotedEntries
  <2>3. ins.op \notin Comparison
    BY <1>3, <1>8, OpNames
  <2>4. Linked(Noted(tape, ins), tape', ins)
    BY <2>1, LinkedSame
  <2>5. Connects(play, n, tape, tape', ins)
    BY <1>1, <1>8, <2>2, <2>3, <2>4, NotedConnects
  <2>6. QED
    BY <1>1, <2>1, <2>5
<1>9. CASE ReverseCondExp /\ ops = CondExp /\ tape[ins.res].connect_type # "not_connected"
  <2>1. PICK info :
        /\ tape' = Branch(Branch(Needed(Needed(Noted(tape, ins), ins, 1), ins, 2),
                                 ins, 3, <<TRUE, n + 1>>),
                          ins, 4, <<FALSE, n + 1>>)
        /\ cskip_info' = Append(cskip_info, info)
    BY <1>5, <1>9 DEF ReverseCondExp
  <2>2. IsSeq(cskip_info') /\ Len(cskip_info') = n + 1
    BY <1>1, <2>1, SeqAppend
  <2>3. n + 1 \in Nat /\ n + 1 > 0 /\ n <= n + 1 /\ n + 1 >= n
    BY <1>1
  <2>4. tape \in Entries(play, n + 1)
    BY <1>1, <2>3, EntriesGrow
  <2>5. Connects(play, n + 1, tape, tape', ins)
    <3>1. PICK m \in Nat : m = n + 1 /\ m > 0
      BY <2>3
    <3>2. tape \in Entries(play, m)
      BY <2>4, <3>1
    <3>3. tape' = Branch(Branch(Needed(Needed(Noted(tape, ins), ins, 1), ins, 2),
                                 ins, 3, <<TRUE, m>>),
                          ins, 4, <<FALSE, m>>)
      BY <2>1, <3>1
    <3>4. Connects(play, m, tape, tape', ins)
      BY <1>3, <1>9, <3>1, <3>2, <3>3, CondExpConnects
    <3>5. QED
      BY <3>1, <3>4
  <2>6. QED
    BY <2>2, <2>3, <2>4, <2>5
<1>10. CASE ReverseCompare /\ ops = Comparison
  <2>1. tape' = Needed(Needed(tape, ins, 1), ins, 2) /\ cskip_info' = cskip_info
    BY <1>5, <1>10 DEF ReverseCompare
  <2>2. Connects(play, n, tape, tape', ins)
    BY <1>1, <1>3, <1>10, <2>1, CompareConnects
  <2>3. QED
    BY <1>1, <2>1, <2>2
<1>11. CASE ReverseInv /\ ops = {"Begin", "Inv"}
  <2>1. /\ tape' = [Noted(tape, ins) EXCEPT ![ins.res].connect_type = "yes_connected"]
        /\ cskip_info' = cskip_info
    BY <1>5, <1>11 DEF ReverseInv
  <2>2. PICK tn : tn = Noted(tape, ins)
    OBVIOUS
  <2>3. /\ tn \in Entries(play, n)
        /\ \A a \in Address(play) : tn[a] = IF NumRes(ins.op) > 0 /\ a = ins.res
                                              THEN [tape[a] EXCEPT !.ins = ins] ELSE tape[a]
    BY <1>1, <2>2, NotedEntries
  <2>4. ins.res \in Address(play) /\ ins.op \notin Comparison /\ DOMAIN ins.arg = {}
        /\ ins.op \in {"Begin", "Inv"} /\ NumRes(ins.op) > 0 /\ ins.op \notin Summation
    BY <1>3, <1>11, Location, Operation, ResultCounts
       DEF Located, Operated, Comparison, Summation
  <2>5. \A a \in Address(play) : tape[a] \in Entry(play, n) /\ tn[a] \in Entry(play, n)
    BY <1>1, <2>3 DEF Entries
  <2> DEFINE w == [tn[ins.res] EXCEPT !.connect_type = "yes_connected"]
  <2>6. w \in Entry(play, n)
    BY <2>4, <2>5 DEF Entry, connect_types
  <2>7. tape' = [tn EXCEPT ![ins.res] = w]
    BY <2>1, <2>2, <2>3, <2>4 DEF Entries
  <2>8. w = [tape[ins.res] EXCEPT !.ins = ins, !.connect_type = "yes_connected"]
    BY <2>3, <2>4
  <2> HIDE DEF w
  <2>9. tape' \in Entries(play, n)
    BY <2>3, <2>4, <2>6, <2>7 DEF Entries
  <2>10. tape'[ins.res] = w /\ \A a \in Address(play) : a # ins.res => tape'[a] = tape[a]
    BY <2>3, <2>4, <2>7 DEF Entries
  <2>11. Reconnected(tape[ins.res], w, ins, TRUE)
    BY <2>4, <2>5, <2>8 DEF Reconnected, Entry
  <2>12. \A a \in Address(play) : Reconnected(tape[a], tape[a], ins, FALSE)
    BY DEF Reconnected
  <2>13. \A a \in Address(play) :
            /\ Reconnected(tape[a], tape'[a], ins, a = ins.res)
            /\ a # ins.res /\ a \notin VarOperands(ins) => tape'[a] = tape[a]
    <3>1. ASSUME NEW a \in Address(play)
          PROVE  Reconnected(tape[a], tape'[a], ins, a = ins.res)
      <4>1. CASE a = ins.res
        BY <2>10, <2>11, <4>1
      <4>2. CASE a # ins.res
        BY <2>10, <2>12, <4>2
      <4>3. QED
        BY <4>1, <4>2
    <3>2. QED
      BY <3>1, <2>10
  <2>14. \A j : Settled(tape', ins, j)
    BY <2>4 DEF Settled
  <2>15. Connects(play, n, tape, tape', ins)
    BY <2>9, <2>13, <2>14 DEF Connects
  <2>16. QED
    BY <1>1, <2>1, <2>15
<1>12. CASE ReversePar /\ ops = {"Par"}
  <2>1. tape' = Noted(tape, ins) /\ cskip_info' = cskip_info
    BY <1>5, <1>12 DEF ReversePar
  <2>2. tape' \in Entries(play, n)
    BY <1>1, <2>1, NotedEntries
  <2>3. Linked(Noted(tape, ins), tape', ins)
    BY <2>1, LinkedSame
  <2>4. ins.op = "Par" /\ DOMAIN ins.arg = 1 .. 1 /\ ins.kind[1] = "p"
    BY <1>3, <1>12, Operation DEF Operated
  <2>5. \A j : Settled(tape', ins, j)
    BY <2>4 DEF Settled
  <2>6. Connects(play, n, tape, tape', ins)
    BY <1>1, <2>2, <2>3, <2>5, NotedConnects
  <2>7. QED
    BY <1>1, <2>1, <2>6
<1>13. QED
  BY <1>2, <1>7, <1>8, <1>9, <1>10, <1>11, <1>12

LEMMA ReconnectedSettled ==
  ASSUME NEW v, NEW w, NEW ins, NEW other, NEW isResult,
         Reconnected(v, w, ins, isResult), SettledEntry(v, other)
  PROVE  SettledEntry(w, other)
  BY DEF Reconnected, SettledEntry

(* Results and operands of operators are results. *)
LEMMA ResultPlace ==
  ASSUME NEW t \in Tapes, NEW i \in Op(t), NEW k \in Op(t), i < k,
         NumRes(InstrOf(t, k).op) > 0
  PROVE  InstrOf(t, i).res < InstrOf(t, k).res
<1>1. NumRes(t.op_rec_[k].op) > 0
  BY Location DEF Located
<1>2. t.last[i] < t.last[k]
  BY <1>1, ResultAddress
<1>3. QED
  BY <1>2, Location DEF Located

LEMMA OperandIsResult ==
  ASSUME NEW t \in Tapes, NEW i \in Op(t), NEW a \in VarOperands(InstrOf(t, i))
  PROVE  /\ a \in Address(t) /\ a <= InstrOf(t, i).res
         /\ \E k \in Op(t) : k < i /\ InstrOf(t, k).res = a
<1>1. PICK j \in DOMAIN InstrOf(t, i).arg :
        InstrOf(t, i).kind[j] = "v" /\ a = InstrOf(t, i).arg[j]
  BY DEF VarOperands
<1>2. PICK k \in 0 .. i - 1 : k \in Op(t) /\ a = t.last[k]
  BY <1>1, OperandPlace
<1>3. a \in Address(t) /\ a <= InstrOf(t, i).res
  BY <1>1, OperandPlace
<1>4. k < i
  BY <1>2, CodeFacts DEF Op
<1>5. InstrOf(t, k).res = a
  BY <1>2, Location DEF Located
<1>6. QED
  BY <1>2, <1>3, <1>4, <1>5

LEMMA ReverseConn ==
  ASSUME CursorInv, ConnInv, NEW i \in Op(play), Reverses(i)
  PROVE  ConnInv'
<1> DEFINE n == Len(cskip_info')
           ins == InstrOf(play, i)
<1>1. play \in Tapes /\ play' = play /\ phase = "reverse" /\ phase' = "reverse"
      /\ Here = i + 1 /\ Here' = i /\ Here \in Op(play)
  BY DEF CursorInv, Reverses, ReverseTo, Here, At
<1>2. \A k \in Op(play) : Seen(k)' <=> k = i \/ Seen(k)
  <2>1. \A k \in Op(play) : k \in Int
    BY DEF Op
  <2>2. QED
    BY <1>1, <2>1 DEF Seen
<1>3. /\ IsSeq(cskip_info') /\ tape' \in Entries(play, n)
      /\ \A a \in Address(play) :
           /\ Reconnected(tape[a], tape'[a], ins, a = ins.res)
           /\ a # ins.res /\ a \notin VarOperands(ins) => tape'[a] = tape[a]
      /\ (\/ ins.op \in Comparison
          \/ NumRes(ins.op) > 0 /\ tape'[ins.res].connect_type # "not_connected")
           => \A j : Settled(tape', ins, j)
  BY DEF Reverses, Connects
<1>4. \A k \in Op(play) : InstrOf(play, k).res \in Address(play)
  BY <1>1, Location DEF Located
<1>5. ASSUME NEW k \in Op(play), k # i, Seen(k), NumRes(InstrOf(play, k).op) > 0
      PROVE  tape'[InstrOf(play, k).res] = tape[InstrOf(play, k).res]
             /\ InstrOf(play, k).res # ins.res
  <2>1. i < k
    BY <1>1, <1>5 DEF Seen, Op
  <2>2. ins.res < InstrOf(play, k).res
    BY <1>1, <1>5, <2>1, ResultPlace
  <2>3. ins.res \in Nat /\ InstrOf(play, k).res \in Nat
    BY <1>4 DEF Address
  <2>4. InstrOf(play, k).res \notin VarOperands(ins)
    <3>1. ASSUME InstrOf(play, k).res \in VarOperands(ins)
          PROVE  InstrOf(play, k).res <= ins.res
      BY <1>1, <3>1, OperandIsResult
    <3>2. QED
      BY <2>2, <2>3, <3>1
  <2>5. QED
    BY <1>3, <1>4, <2>2, <2>3, <2>4
<1>6. \A k \in Op(play) : (Seen(k) /\ NumRes(InstrOf(play, k).op) > 0 =>
        Result(k).ins = InstrOf(play, k))'
  <2>1. ASSUME NEW k \in Op(play), Seen(k)', NumRes(InstrOf(play, k).op) > 0
        PROVE  tape'[InstrOf(play, k).res].ins = InstrOf(play, k)
    <3>1. CASE k = i
      BY <1>3, <1>4, <2>1, <3>1 DEF Reconnected
    <3>2. CASE k # i
      <4>1. Seen(k)
        BY <1>2, <2>1, <3>2
      <4>2. tape[InstrOf(play, k).res].ins = InstrOf(play, k)
        BY <2>1, <4>1 DEF ConnInv, Result
      <4>3. QED
        BY <1>5, <2>1, <3>2, <4>1, <4>2
    <3>3. QED
      BY <3>1, <3>2
  <2>2. QED
    BY <1>1, <2>1 DEF Result
<1>7. ASSUME NEW k \in Op(play), Seen(k)',
             \/ InstrOf(play, k).op \in Comparison
             \/ /\ NumRes(InstrOf(play, k).op) > 0
                /\ tape'[InstrOf(play, k).res].connect_type # "not_connected",
             NEW j
      PROVE  Settled(tape', InstrOf(play, k), j)
  <2>1. CASE k = i
    BY <1>3, <1>7, <2>1
  <2>2. CASE k # i
    <3>1. Seen(k)
      BY <1>2, <1>7, <2>2
    <3>2. \/ InstrOf(play, k).op \in Comparison
          \/ /\ NumRes(InstrOf(play, k).op) > 0
             /\ tape[InstrOf(play, k).res].connect_type # "not_connected"
      BY <1>5, <1>7, <2>2, <3>1
    <3>3. Settled(tape, InstrOf(play, k), j)
      BY <3>1, <3>2 DEF ConnInv, Result
    <3>4. SUFFICES ASSUME j \in DOMAIN InstrOf(play, k).arg, InstrOf(play, k).kind[j] = "v"
                   PROVE  SettledEntry(tape'[InstrOf(play, k).arg[j]], InstrOf(play, k))
      BY DEF Settled
    <3>5. PICK a : a = InstrOf(play, k).arg[j]
      OBVIOUS
    <3>6. a \in Address(play) /\ SettledEntry(tape[a], InstrOf(play, k))
      BY <1>1, <3>3, <3>4, <3>5, OperandPlace DEF Settled
    <3>7. Reconnected(tape[a], tape'[a], ins, a = ins.res)
      BY <1>3, <3>6
    <3>8. SettledEntry(tape'[a], InstrOf(play, k))
      BY <3>6, <3>7 DEF Reconnected, SettledEntry
    <3>9. QED
      BY <3>5, <3>8
  <2>3. QED
    BY <2>1, <2>2
<1>8. ASSUME NEW a \in Address(play), tape'[a].connect_type = "csum_connected"
      PROVE  \E k \in Op(play) : /\ Seen(k)' /\ InstrOf(play, k).res = a
                                 /\ InstrOf(play, k).op \in Summation
  <2>1. \/ tape[a].connect_type = "csum_connected"
        \/ ins.op \in Summation /\ a = ins.res
    BY <1>3, <1>8 DEF Reconnected
  <2>2. CASE ins.op \in Summation /\ a = ins.res
    BY <1>2, <2>2
  <2>3. CASE tape[a].connect_type = "csum_connected"
    BY <1>2, <2>3 DEF ConnInv
  <2>4. QED
    BY <2>1, <2>2, <2>3
<1>9. ASSUME NEW a \in Address(play), tape'[a].connect_type # "not_connected"
      PROVE  \E k \in Op(play) : InstrOf(play, k).res = a
  <2>1. CASE tape[a].connect_type # "not_connected"
    BY <2>1 DEF ConnInv
  <2>2. CASE tape[a].connect_type = "not_connected"
    <3>1. a = ins.res \/ a \in VarOperands(ins)
      BY <1>3, <1>9, <2>2
    <3>2. QED
      BY <1>1, <3>1, OperandIsResult
  <2>3. QED
    BY <2>1, <2>2
<1>10. \A k \in DOMAIN play.dep_taddr_ :
         /\ play.dep_taddr_[k] \in Address(play)
         /\ tape'[play.dep_taddr_[k]].connect_type = "yes_connected"
  BY <1>3 DEF ConnInv, Reconnected
<1>11. QED
  BY <1>1, <1>3, <1>6, <1>7, <1>8, <1>9, <1>10 DEF ConnInv, Result

KeepsAll(n) ==
  /\ play' = play
  /\ IsSeq(cskip_info') /\ Len(cskip_info') = Len(cskip_info)
  /\ n = Len(cskip_info)
  /\ tape' \in Entries(play, n)
  /\ \A a \in Address(play) : Keeps(tape[a], tape'[a])

LEMMA KeepConn ==
  ASSUME CursorInv, ConnInv, NEW n, KeepsAll(n), NEW p, p = phase', p # "reverse",
         \/ phase # "reverse"
         \/ Here = 0
  PROVE  ConnInv'
<1>1. play \in Tapes /\ play' = play
  BY DEF CursorInv, KeepsAll
<1>2. \A k \in Op(play) : Seen(k) /\ Seen(k)'
  <2>1. \A k \in Op(play) : k \in Int /\ k >= 0
    BY DEF Op
  <2>2. QED
    BY <2>1 DEF Seen
<1>3. \A k \in Op(play) : InstrOf(play, k).res \in Address(play)
  BY <1>1, Location DEF Located
<1>4. \A a \in Address(play) : /\ tape'[a].ins = tape[a].ins
                               /\ tape'[a].connect_type = tape[a].connect_type
  BY DEF KeepsAll, Keeps
<1>5. ASSUME NEW k \in Op(play), NEW j, Settled(tape, InstrOf(play, k), j)
      PROVE  Settled(tape', InstrOf(play, k), j)
  <2>1. SUFFICES ASSUME j \in DOMAIN InstrOf(play, k).arg, InstrOf(play, k).kind[j] = "v"
                 PROVE  SettledEntry(tape'[InstrOf(play, k).arg[j]], InstrOf(play, k))
    BY DEF Settled
  <2>2. InstrOf(play, k).arg[j] \in Address(play)
    BY <1>1, <2>1, OperandPlace
  <2>3. SettledEntry(tape[InstrOf(play, k).arg[j]], InstrOf(play, k))
    BY <1>5, <2>1 DEF Settled
  <2>4. QED
    BY <1>4, <2>2, <2>3 DEF SettledEntry
<1>6. /\ IsSeq(cskip_info') /\ tape' \in Entries(play, Len(cskip_info'))
  BY DEF KeepsAll
<1>7. \A i \in Op(play) : NumRes(InstrOf(play, i).op) > 0 =>
        tape'[InstrOf(play, i).res].ins = InstrOf(play, i)
  BY <1>2, <1>3, <1>4 DEF ConnInv, Result
<1>8. ASSUME NEW i \in Op(play), 
             \/ InstrOf(play, i).op \in Comparison
             \/ /\ NumRes(InstrOf(play, i).op) > 0
                /\ tape'[InstrOf(play, i).res].connect_type # "not_connected",
             NEW j
      PROVE  Settled(tape', InstrOf(play, i), j)
  <2>1. Settled(tape, InstrOf(play, i), j)
    BY <1>2, <1>3, <1>4, <1>8 DEF ConnInv, Result
  <2>2. QED
    BY <1>5, <2>1
<1>9. \A a \in Address(play) : tape'[a].connect_type = "csum_connected" =>
        \E i \in Op(play) : InstrOf(play, i).res = a /\ InstrOf(play, i).op \in Summation
  BY <1>4 DEF ConnInv
<1>10. \A a \in Address(play) : tape'[a].connect_type # "not_connected" =>
         \E i \in Op(play) : InstrOf(play, i).res = a
  BY <1>4 DEF ConnInv
<1>11. \A k \in DOMAIN play.dep_taddr_ :
         /\ play.dep_taddr_[k] \in Address(play)
         /\ tape'[play.dep_taddr_[k]].connect_type = "yes_connected"
  BY <1>4 DEF ConnInv
<1>12. QED
  BY <1>1, <1>2, <1>6, <1>7, <1>8, <1>9, <1>10, <1>11 DEF ConnInv, Result

-----------------------------------------------------------------------------
(* The variables to skip. *)
LEMMA SkippedSeq ==
  ASSUME CursorInv, NEW outcome
  PROVE  /\ Skipped(outcome) \in Seq(Address(play))
         /\ \A k \in DOMAIN Skipped(outcome) :
              /\ tape[Skipped(outcome)[k]].connect_type = "cexp_connected"
              /\ outcome \in tape[Skipped(outcome)[k]].cexp_set
<1> DEFINE S == {a \in Address(play) : /\ tape[a].connect_type = "cexp_connected"
                                       /\ outcome \in tape[a].cexp_set}
           s == Skipped(outcome)
<1>1. play.num_var_rec \in Nat
  BY Ends DEF CursorInv
<1>2. IsFiniteSet(Address(play)) /\ Address(play) \subseteq Nat
  <2>1. IsFiniteSet(0 .. play.num_var_rec - 1)
    BY <1>1, FS_Interval
  <2>2. QED
    BY <2>1 DEF Address
<1>3. S \subseteq Nat /\ IsFiniteSet(S) /\ S \subseteq Address(play)
  <2>1. S \subseteq Address(play)
    OBVIOUS
  <2>2. QED
    BY <1>2, <2>1, FS_Subset
<1>4. Cardinality(S) \in Nat
  BY <1>3, FS_CardinalityType
<1>5. \E r \in [1 .. Cardinality(S) -> S] : InOrder(r)
  BY <1>3, OrderedSet
<1>6. s = CHOOSE r \in [1 .. Cardinality(S) -> S] : \A j, k \in DOMAIN r : j < k => r[j] < r[k]
  BY DEF Skipped
<1>7. s \in [1 .. Cardinality(S) -> S]
  BY <1>5, <1>6 DEF InOrder
<1>8. \A k \in DOMAIN s : s[k] \in S
  BY <1>7
<1>9. PICK n \in Nat : n = Cardinality(S)
  BY <1>4
<1>10. s \in [1 .. n -> Address(play)]
  BY <1>3, <1>7, <1>9
<1> HIDE DEF s
<1>11. s \in Seq(Address(play))
  BY <1>10
<1>12. QED
  BY <1>8, <1>11 DEF s

-----------------------------------------------------------------------------
Info(t) ==
  [cop : Nat, flag : Nat, left : Nat, right : Nat, max_left_right : Nat,
   skip_var_true : Seq(Address(t)), skip_var_false : Seq(Address(t)), i_arg : Nat]

LEMMA PutFacts ==
  ASSUME NEW R \in Recorder, NEW code \in OpCodeRec, NEW words \in Seq(Nat),
         R.num_var_rec_ + NumRes(code.op) > 0
  PROVE  /\ Put(R, code, words) \in Recorder
         /\ Put(R, code, words).num_var_rec_ = R.num_var_rec_ + NumRes(code.op)
         /\ Put(R, code, words).par_rec_ = R.par_rec_
         /\ Put(R, code, words).op_rec_ = Append(R.op_rec_, code)
         /\ Put(R, code, words).op_arg_rec_ = R.op_arg_rec_ \o words
         /\ Put(R, code, words).first = Append(R.first, Len(R.op_arg_rec_))
         /\ Put(R, code, words).last = Append(R.last, R.num_var_rec_ + NumRes(code.op) - 1)
         /\ Len(Put(R, code, words).op_rec_) = Len(R.op_rec_) + 1
<1>1. NumRes(code.op) \in Nat /\ R.num_var_rec_ \in Nat /\ Len(R.op_arg_rec_) \in Nat
  <2>1. NumRes(code.op) \in 0 .. 2
    BY ResultCounts
  <2>2. QED
    BY <2>1 DEF Recorder
<1>2. PICK n : n = R.num_var_rec_ + NumRes(code.op)
  OBVIOUS
<1>3. n \in Nat /\ n - 1 \in Nat /\ n - 1 = R.num_var_rec_ + NumRes(code.op) - 1
  BY <1>1, <1>2
<1>4. PICK ops, args, first, last :
        /\ ops = Append(R.op_rec_, code) /\ args = R.op_arg_rec_ \o words
        /\ first = Append(R.first, Len(R.op_arg_rec_)) /\ last = Append(R.last, n - 1)
  OBVIOUS
<1>5. ops \in Seq(OpCodeRec) /\ args \in Seq(Nat) /\ Len(ops) = Len(R.op_rec_) + 1
  BY <1>4 DEF Recorder
<1>6. first \in Seq(Nat) /\ last \in Seq(Nat)
  BY <1>1, <1>3, <1>4 DEF Recorder
<1>7. Put(R, code, words) =
        [R EXCEPT !.op_rec_ = ops, !.op_arg_rec_ = args, !.num_var_rec_ = n,
                  !.first = first, !.last = last]
  BY <1>2, <1>4, Zenon DEF Put
<1>8. PICK P : P = Put(R, code, words)
  OBVIOUS
<1>9. /\ P = [op_rec_ |-> ops, op_arg_rec_ |-> args, par_rec_ |-> R.par_rec_,
               num_var_rec_ |-> n, first |-> first, last |-> last]
      /\ R.par_rec_ \in Seq(Num)
  BY <1>7, <1>8 DEF Recorder
<1>10. P \in Recorder
  BY <1>3, <1>5, <1>6, <1>9 DEF Recorder
<1>11. /\ P.op_rec_ = ops /\ P.op_arg_rec_ = args /\ P.par_rec_ = R.par_rec_
       /\ P.num_var_rec_ = n /\ P.first = first /\ P.last = last
  BY <1>9
<1>12. QED
  BY <1>2, <1>3, <1>4, <1>5, <1>8, <1>10, <1>11

LEMMA PutParFacts ==
  ASSUME NEW R \in Recorder, NEW c \in Num
  PROVE  Extends(R, PutPar(R, c)) /\ HasPar(PutPar(R, c), c)
<1>1. R.par_rec_ \in Seq(Num) /\ Len(R.par_rec_) \in Nat
  BY DEF Recorder
<1>2. CASE c \in Range(R.par_rec_)
  <2>1. PutPar(R, c) = R
    BY <1>2 DEF PutPar
  <2>2. \E k \in 1 .. Len(R.par_rec_) : R.par_rec_[k] = c
    BY <1>1, <1>2 DEF Range
  <2>3. QED
    BY <1>1, <2>1, <2>2 DEF Extends, HasPar
<1>3. CASE c \notin Range(R.par_rec_)
  <2>1. PutPar(R, c) = [R EXCEPT !.par_rec_ = Append(R.par_rec_, c)]
    BY <1>3 DEF PutPar
  <2>2. PICK s : s = Append(R.par_rec_, c)
    OBVIOUS
  <2>3. /\ s \in Seq(Num) /\ Len(s) = Len(R.par_rec_) + 1
        /\ s[Len(R.par_rec_) + 1] = c
        /\ \A k \in 1 .. Len(R.par_rec_) : s[k] = R.par_rec_[k]
    BY <1>1, <2>2
  <2>4. PutPar(R, c) = [R EXCEPT !.par_rec_ = s]
    BY <2>1, <2>2
  <2>5. PutPar(R, c) \in Recorder /\ PutPar(R, c).par_rec_ = s
    BY <2>3, <2>4 DEF Recorder
  <2>6. Extends(R, PutPar(R, c))
    BY <1>1, <2>3, <2>4, <2>5 DEF Extends, Recorder
  <2>7. Len(R.par_rec_) + 1 \in 1 .. Len(s)
    BY <1>1, <2>3
  <2>8. QED
    BY <2>3, <2>5, <2>6, <2>7 DEF HasPar
<1>4. QED
  BY <1>2, <1>3

LEMMA IndexOfFacts ==
  ASSUME NEW R \in Recorder, NEW c, HasPar(R, c)
  PROVE  /\ IndexOf(R, c) \in 0 .. Len(R.par_rec_) - 1
         /\ R.par_rec_[IndexOf(R, c) + 1] = c
<1>1. R.par_rec_ \in Seq(Num) /\ DOMAIN R.par_rec_ = 1 .. Len(R.par_rec_)
      /\ Len(R.par_rec_) \in Nat
  BY DEF Recorder
<1>2. PICK i : i = CHOOSE k \in DOMAIN R.par_rec_ : R.par_rec_[k] = c
  OBVIOUS
<1>3. i \in 1 .. Len(R.par_rec_) /\ R.par_rec_[i] = c
  BY <1>1, <1>2 DEF HasPar
<1>4. IndexOf(R, c) = i - 1
  BY <1>2 DEF IndexOf
<1>5. i - 1 \in 0 .. Len(R.par_rec_) - 1 /\ (i - 1) + 1 = i
  BY <1>1, <1>3
<1>6. QED
  BY <1>3, <1>4, <1>5

(* The parameters of an instruction. *)
LEMMA PutOperandFacts ==
  ASSUME CursorInv, NEW R \in Recorder, NEW i \in Op(play), NEW j
  PROVE  LET ins == InstrOf(play, i)
         IN  /\ Extends(R, PutOperand(R, ins, j))
             /\ j \in DOMAIN ins.arg /\ ins.kind[j] = "p" =>
                  HasPar(PutOperand(R, ins, j), play.par_rec_[ins.arg[j] + 1])
<1> DEFINE ins == InstrOf(play, i)
<1>1. CASE j \in DOMAIN ins.arg /\ ins.kind[j] = "p"
  <2>1. play.par_rec_[ins.arg[j] + 1] \in Num
    BY <1>1, Operation DEF CursorInv, Operated
  <2>2. PutOperand(R, ins, j) = PutPar(R, play.par_rec_[ins.arg[j] + 1])
    BY <1>1 DEF PutOperand
  <2>3. QED
    BY <2>1, <2>2, PutParFacts
<1>2. CASE ~ (j \in DOMAIN ins.arg /\ ins.kind[j] = "p")
  <2>1. PutOperand(R, ins, j) = R
    BY <1>2 DEF PutOperand
  <2>2. Len(R.par_rec_) \in Nat
    BY DEF Recorder
  <2>3. Extends(R, R)
    BY <2>2 DEF Extends
  <2>4. QED
    BY <1>2, <2>1, <2>3
<1>3. QED
  BY <1>1, <1>2

LEMMA PutOperandsFacts ==
  ASSUME CursorInv, NEW R \in Recorder, NEW i \in Op(play)
  PROVE  /\ Extends(R, PutOperands(R, InstrOf(play, i)))
         /\ \A j \in DOMAIN InstrOf(play, i).arg : InstrOf(play, i).kind[j] = "p" =>
              HasPar(PutOperands(R, InstrOf(play, i)),
                     play.par_rec_[InstrOf(play, i).arg[j] + 1])
<1> DEFINE ins == InstrOf(play, i)
           Wants(j) == j \in DOMAIN ins.arg /\ ins.kind[j] = "p"
           par(j) == play.par_rec_[ins.arg[j] + 1]
<1>1. PICK R1 : R1 = PutOperand(R, ins, 1)
  OBVIOUS
<1>2. PICK R2 : R2 = PutOperand(R1, ins, 2)
  OBVIOUS
<1>3. PICK R3 : R3 = PutOperand(R2, ins, 3)
  OBVIOUS
<1>4. PICK R4 : R4 = PutOperand(R3, ins, 4)
  OBVIOUS
<1>5. Extends(R, R1) /\ (Wants(1) => HasPar(R1, par(1))) /\ R1 \in Recorder
  BY <1>1, PutOperandFacts DEF Extends
<1>6. Extends(R1, R2) /\ (Wants(2) => HasPar(R2, par(2))) /\ R2 \in Recorder
  BY <1>2, <1>5, PutOperandFacts DEF Extends
<1>7. Extends(R2, R3) /\ (Wants(3) => HasPar(R3, par(3))) /\ R3 \in Recorder
  BY <1>3, <1>6, PutOperandFacts DEF Extends
<1>8. Extends(R3, R4) /\ (Wants(4) => HasPar(R4, par(4))) /\ R4 \in Recorder
  BY <1>4, <1>7, PutOperandFacts DEF Extends
<1>9. Extends(R2, R4) /\ Extends(R1, R4) /\ Extends(R, R4)
  BY <1>5, <1>6, <1>7, <1>8, ExtendsTwice
<1>10. /\ Wants(1) => HasPar(R4, par(1))
       /\ Wants(2) => HasPar(R4, par(2))
       /\ Wants(3) => HasPar(R4, par(3))
       /\ Wants(4) => HasPar(R4, par(4))
  BY <1>5, <1>6, <1>7, <1>8, <1>9, HasParExtends
<1>11. DOMAIN ins.arg \subseteq 1 .. 4
  BY Location, Operation DEF CursorInv, Located, Operated
<1>12. \A j \in DOMAIN ins.arg : ins.kind[j] = "p" => HasPar(R4, par(j))
  <2>1. ASSUME NEW j \in DOMAIN ins.arg, ins.kind[j] = "p"
        PROVE  HasPar(R4, par(j))
    <3>1. j \in {1, 2, 3, 4}
      BY <1>11, <2>1
    <3>2. QED
      BY <1>10, <2>1, <3>1
  <2>2. QED
    BY <2>1
<1>13. PutOperands(R, ins) = R4
  BY <1>1, <1>2, <1>3, <1>4 DEF PutOperands
<1>14. QED
  BY <1>9, <1>12, <1>13

-----------------------------------------------------------------------------
(* The recorder, until the arguments of the conditional skips are filled   *)
(* in; and the conditional expressions.                                    *)
RecInv ==
  /\ phase = "reverse" => rec = EmptyRecorder
  /\ phase # "reverse" => rec.num_var_rec_ > 0
  /\ phase # "done" => rec \in Recorder
  /\ rec.num_var_rec_ \in Nat /\ Len(rec.op_rec_) \in Nat

InfoInv ==
  /\ cskip_info \in Seq(Info(play))
  /\ phase = "reverse" => cskip_info_order = <<>> /\ cskip_order_next = 1
  /\ phase # "reverse" =>
       /\ cskip_info_order \in [1 .. Len(cskip_info) -> 1 .. Len(cskip_info)]
       /\ cskip_order_next \in 1 .. Len(cskip_info) + 1

(* The second pass has passed operator i. *)
Passed(i) == phase = "done" \/ i < Here \/ (i = Here /\ phase = "forward")

(* A result that is recorded as that of an operator of its own, or that is *)
(* replaced by one that is.                                                *)
Recorded(i) ==
  /\ NumRes(InstrOf(play, i).op) > 0
  /\ Result(i).connect_type \notin {"not_connected", "csum_connected"}

(* The new addresses: those of the variables that have been recorded, and  *)
(* no more of them than there were old ones.                               *)
FreshInv ==
  /\ \A a \in Address(play) : tape[a].new_var = Invalid \/ HasNewVar(a)
  /\ \A a \in Address(play) : tape[a].new_op <= Len(rec.op_rec_)
  /\ \A a \in Address(play) :
       tape[a].connect_type = "csum_connected" => tape[a].new_var = Invalid
  /\ phase = "reverse" => \A a \in Address(play) : tape[a].new_var = Invalid
  /\ phase # "reverse" =>
       /\ \A i \in Op(play) : Passed(i) /\ Recorded(i) => HasNewVar(InstrOf(play, i).res)
       /\ phase = "csum" => rec.num_var_rec_ <= InstrOf(play, Here).res
       /\ rec.num_var_rec_ <= InstrOf(play, Here).res + 1

HashInv ==
  /\ hash_table_var \in [HashCode -> Address(play)]
  /\ \A h \in HashCode : hash_table_var[h] = 0 \/
       \E i \in Op(play) : /\ phase # "reverse" /\ i <= Here
                           /\ hash_table_var[h] = InstrOf(play, i).res
                           /\ InstrOf(play, i).op \in Unary \union Binary
                           /\ HasNewVar(hash_table_var[h])

DepInv ==
  /\ phase # "done" => dep_taddr = play.dep_taddr_
  /\ phase = "done" => dep_taddr \in Seq(Address(play))

(* What is on the work stacks. *)
SumEntries == [ins : {InstrOf(play, i) : i \in Op(play)}, add : BOOLEAN]

Gathering(var) ==
  \E i \in Op(play) : /\ i <= Here /\ var.ins = InstrOf(play, i)
                      /\ InstrOf(play, i).op \in Summation
                      /\ Result(i).connect_type # "not_connected"

Works ==
  [op_stack : Seq(SumEntries), add_stack : Seq(Address(play)),
   sub_stack : Seq(Address(play)), sum_par : Num]

Worked(work) ==
  /\ work \in Works
  /\ \A k \in DOMAIN work.add_stack : HasNewVar(work.add_stack[k]) /\ work.add_stack[k] # 0
  /\ \A k \in DOMAIN work.sub_stack : HasNewVar(work.sub_stack[k]) /\ work.sub_stack[k] # 0
  /\ \A k \in DOMAIN work.op_stack : Gathering(work.op_stack[k])

CsumInv ==
  /\ csum_work \in Works
  /\ phase # "csum" => csum_work = NoWork
  /\ phase = "csum" => Recorded(Here) /\ Worked(csum_work)

(* The conditional expressions that are connected: the last one first.     *)
Places(where) ==
  /\ where \in [1 .. Len(cskip_info) -> Op(play)]
  /\ \A j, k \in 1 .. Len(cskip_info) : j < k => where[k] < where[j]
  /\ \A i \in Op(play) :
       (Seen(i) /\ InstrOf(play, i).op \in CondExp /\ Result(i).connect_type # "not_connected")
         <=> \E k \in 1 .. Len(cskip_info) : where[k] = i
  /\ phase # "reverse" =>
       \A k \in 1 .. Len(cskip_info) : k <= cskip_info_index <=> ~Passed(where[k])

PlaceInv ==
  /\ cskip_info_index \in 0 .. Len(cskip_info)
  /\ phase = "reverse" => cskip_info_index = 0
  /\ \E where : Places(where)

IInv ==
  /\ CursorInv /\ ConnInv /\ RecInv /\ InfoInv /\ FreshInv /\ HashInv /\ DepInv
  /\ CsumInv /\ PlaceInv /\ MergedAgree

-----------------------------------------------------------------------------
(* The initial states. *)
LEMMA InitCursor ==
  ASSUME Init
  PROVE  CursorInv /\ Here = play.num_op_rec - 1 /\ phase = "reverse"
<1>1. play \in Tapes /\ phase = "reverse" /\ conditional_skip \in BOOLEAN
  BY DEF Init
<1>2. cursor = At(play, play.num_op_rec - 1) /\ play.num_op_rec - 1 \in Op(play)
  BY <1>1, Ends DEF Init, reverse_start, At
<1>3. Here = play.num_op_rec - 1
  BY <1>2 DEF Here, At
<1>4. QED
  BY <1>1, <1>2, <1>3 DEF CursorInv

(* Each address that an operator has is that of a result. *)
LEMMA ResultOf ==
  ASSUME NEW t \in Tapes, NEW k \in Op(t)
  PROVE  \E m \in Op(t) : /\ m <= k /\ t.last[m] = t.last[k]
                          /\ NumRes(t.op_rec_[m].op) > 0
<1> DEFINE S == {m \in Op(t) : t.last[m] = t.last[k]}
<1>1. k \in S /\ S \subseteq Nat
  BY CodeFacts DEF Op
<1>2. PICK m \in S : \A l \in S : m <= l
  BY <1>1, LeastNatural
<1>3. m \in Op(t) /\ m <= k /\ t.last[m] = t.last[k] /\ m \in Nat
  BY <1>1, <1>2
<1>4. NumRes(t.op_rec_[m].op) \in 0 .. 2
  BY ResultCounts
<1>5. CASE m = 0
  <2>1. t.op_rec_[m].op = "Begin"
    BY <1>3, <1>5, CodeFacts
  <2>2. QED
    BY <1>3, <2>1, ResultCounts
<1>6. CASE m # 0 /\ NumRes(t.op_rec_[m].op) = 0
  <2>1. PICK l : l = m - 1
    OBVIOUS
  <2>2. l \in Op(t) /\ l + 1 = m /\ l < m
    BY <1>3, <1>6, <2>1, CodeFacts DEF Op
  <2>3. t.last[l + 1] = t.last[l] + NumRes(t.op_rec_[l + 1].op) /\ t.last[l] \in Nat
    BY <1>3, <2>2, NextPlace, CodeFacts
  <2>4. t.last[l] = t.last[k]
    BY <1>3, <1>6, <2>2, <2>3
  <2>5. m <= l
    BY <1>2, <2>2, <2>4
  <2>6. QED
    BY <1>3, <2>2, <2>5 DEF Op
<1>7. QED
  BY <1>3, <1>4, <1>5, <1>6

LEMMA InitConn ==
  ASSUME Init
  PROVE  ConnInv
<1>1. CursorInv /\ Here = play.num_op_rec - 1 /\ phase = "reverse" /\ play \in Tapes
  BY InitCursor DEF CursorInv
<1>2. PICK first : first = Instr(play, forward_start)
  OBVIOUS
<1>3. first \in {InstrOf(play, i) : i \in Op(play)}
  BY <1>1, <1>2, Ends DEF InstrOf, At, forward_start
<1>4. tape = [a \in Address(play) |->
                [ins |-> first,
                 connect_type |-> IF a \in Range(play.dep_taddr_)
                                    THEN "yes_connected" ELSE "not_connected",
                 cexp_set |-> {}, new_var |-> Invalid, new_op |-> 0, match |-> FALSE]]
  BY <1>2 DEF Init
<1>5. cskip_info = <<>> /\ IsSeq(cskip_info) /\ Len(cskip_info) = 0
  BY DEF Init, IsSeq
<1>6. Invalid \in 0 .. play.num_var_rec
  BY <1>1, Ends DEF Invalid
<1>7. ASSUME NEW a \in Address(play)
      PROVE  /\ tape[a] \in Entry(play, 0)
             /\ tape[a].connect_type = IF a \in Range(play.dep_taddr_)
                                         THEN "yes_connected" ELSE "not_connected"
  BY <1>3, <1>4, <1>6 DEF Entry, connect_types
<1>8. tape \in Entries(play, 0)
  BY <1>4, <1>7 DEF Entries
<1>9. \A i \in Op(play) : Seen(i) => i = play.num_op_rec - 1
  BY <1>1, Ends DEF Seen, Op
<1>10. \A i \in Op(play) : Seen(i) => InstrOf(play, i).op = "End"
  BY <1>1, <1>9, Location DEF Located
<1>11. \A i \in Op(play) : Seen(i) =>
         NumRes(InstrOf(play, i).op) = 0 /\ InstrOf(play, i).op \notin Comparison
  BY <1>10, ResultCounts DEF Comparison
<1>12. ASSUME NEW k \in DOMAIN play.dep_taddr_
       PROVE  /\ play.dep_taddr_[k] \in Address(play)
              /\ tape[play.dep_taddr_[k]].connect_type = "yes_connected"
              /\ \E i \in Op(play) : InstrOf(play, i).res = play.dep_taddr_[k]
  <2>1. Ordered(play)
    BY <1>1, TapesAssumption DEF WellFormed
  <2>2. PICK i \in Op(play) : play.dep_taddr_[k] = play.last[i]
    BY <2>1 DEF Ordered, Op
  <2>3. InstrOf(play, i).res = play.last[i] /\ play.last[i] \in Address(play)
    BY <1>1, Location DEF Located
  <2>4. play.dep_taddr_[k] \in Range(play.dep_taddr_)
    BY DEF Range
  <2>5. QED
    BY <1>7, <2>2, <2>3, <2>4
<1>13. ASSUME NEW a \in Address(play), tape[a].connect_type # "not_connected"
       PROVE  \E i \in Op(play) : InstrOf(play, i).res = a
  <2>1. a \in Range(play.dep_taddr_)
    BY <1>7, <1>13
  <2>2. PICK k \in DOMAIN play.dep_taddr_ : a = play.dep_taddr_[k]
    BY <2>1 DEF Range
  <2>3. QED
    BY <1>12, <2>2
<1>14. \A a \in Address(play) : tape[a].connect_type # "csum_connected"
  BY <1>7
<1>15. QED
  BY <1>5, <1>8, <1>11, <1>12, <1>13, <1>14 DEF ConnInv

-----------------------------------------------------------------------------
(* NextSkip is one of the conditional expressions. *)
LEMMA NextSkipFacts ==
  ASSUME InfoInv, phase = "forward", Due
  PROVE  /\ NextSkip \in Info(play) /\ NumSkipped(NextSkip) \in Nat
         /\ cskip_info_order[cskip_order_next] \in DOMAIN cskip_info
         /\ cskip_order_next + 1 \in 1 .. Len(cskip_info) + 1
<1>1. PICK n : n = Len(cskip_info)
  OBVIOUS
<1>2. n \in Nat /\ DOMAIN cskip_info = 1 .. n /\ \A k \in 1 .. n : cskip_info[k] \in Info(play)
  BY <1>1 DEF InfoInv
<1>3. cskip_info_order \in [1 .. n -> 1 .. n] /\ cskip_order_next \in 1 .. n + 1
      /\ cskip_order_next <= n
  BY <1>1 DEF InfoInv, Due
<1>4. cskip_order_next \in 1 .. n /\ cskip_order_next + 1 \in 1 .. n + 1
  BY <1>2, <1>3
<1>5. cskip_info_order[cskip_order_next] \in 1 .. n
  BY <1>3, <1>4
<1>6. NextSkip \in Info(play)
  BY <1>2, <1>5 DEF NextSkip
<1>7. Len(NextSkip.skip_var_true) \in Nat /\ Len(NextSkip.skip_var_false) \in Nat
  BY <1>6 DEF Info
<1>8. NumSkipped(NextSkip) \in Nat
  <2>1. PICK m \in Nat, l \in Nat : /\ m = Len(NextSkip.skip_var_true)
                                    /\ l = Len(NextSkip.skip_var_false)
    BY <1>7
  <2>2. NumSkipped(NextSkip) = m + l
    BY <2>1, Zenon DEF NumSkipped
  <2>3. QED
    BY <2>2
<1>9. QED
  BY <1>1, <1>2, <1>4, <1>5, <1>6, <1>8

LEMMA WithSkipFacts ==
  ASSUME RecInv, InfoInv, phase = "forward"
  PROVE  /\ WithSkip \in Recorder
         /\ WithSkip.num_var_rec_ = rec.num_var_rec_ /\ WithSkip.num_var_rec_ > 0
         /\ WithSkip.par_rec_ = rec.par_rec_
         /\ Len(WithSkip.op_rec_) \in Nat /\ Len(WithSkip.op_rec_) >= Len(rec.op_rec_)
<1>1. rec \in Recorder /\ rec.num_var_rec_ > 0 /\ rec.num_var_rec_ \in Nat
      /\ Len(rec.op_rec_) \in Nat
  BY DEF RecInv
<1>2. CASE Inserts
  <2>1. NumSkipped(NextSkip) \in Nat
    BY <1>2, NextSkipFacts DEF Inserts
  <2>2. PICK n : n = 7 + NumSkipped(NextSkip)
    OBVIOUS
  <2>3. n \in Nat
    BY <2>1, <2>2
  <2>4. PICK words : words = [k \in 1 .. n |-> 0]
    OBVIOUS
  <2>5. words \in Seq(Nat)
    BY <2>3, <2>4
  <2>6. PICK code : code = [op |-> "CSkip", kind |-> <<>>]
    OBVIOUS
  <2>7. code \in OpCodeRec /\ code.op = "CSkip"
    BY <2>6, OwnCodes
  <2>8. NumRes(code.op) = 0
    BY <2>7, ResultCounts
  <2>9. WithSkip = Put(rec, code, words)
    BY <1>2, <2>2, <2>4, <2>6 DEF WithSkip
  <2>10. rec.num_var_rec_ + NumRes(code.op) > 0
         /\ rec.num_var_rec_ + NumRes(code.op) = rec.num_var_rec_
    BY <1>1, <2>8
  <2>11. /\ WithSkip \in Recorder /\ WithSkip.num_var_rec_ = rec.num_var_rec_
         /\ WithSkip.par_rec_ = rec.par_rec_
         /\ Len(WithSkip.op_rec_) = Len(rec.op_rec_) + 1
    BY <1>1, <2>5, <2>7, <2>9, <2>10, PutFacts
  <2>12. QED
    BY <1>1, <2>11
<1>3. CASE ~Inserts
  BY <1>1, <1>3 DEF WithSkip
<1>4. QED
  BY <1>2, <1>3

LEMMA ReservedFacts ==
  ASSUME RecInv, InfoInv, phase = "forward"
  PROVE  Reserved \in Seq(Info(play)) /\ Len(Reserved) = Len(cskip_info)
<1>1. cskip_info \in Seq(Info(play))
  BY DEF InfoInv
<1>2. CASE Inserts
  <2>1. NextSkip \in Info(play)
    BY <1>2, NextSkipFacts DEF Inserts
  <2>2. PICK n : n = Len(rec.op_arg_rec_)
    OBVIOUS
  <2>3. n \in Nat
    BY <2>2 DEF RecInv, Recorder
  <2>4. PICK k : k = cskip_info_order[cskip_order_next]
    OBVIOUS
  <2>5. PICK e : e = [cskip_info[k] EXCEPT !.i_arg = n]
    OBVIOUS
  <2>6. cskip_info[k] \in Info(play)
    BY <2>1, <2>4 DEF NextSkip
  <2>7. e \in Info(play)
    BY <2>3, <2>5, <2>6 DEF Info
  <2>8. [cskip_info EXCEPT ![k] = e] \in Seq(Info(play))
        /\ Len([cskip_info EXCEPT ![k] = e]) = Len(cskip_info)
    BY <1>1, <2>7, SeqExcept
  <2>9. Reserved = [cskip_info EXCEPT ![k].i_arg = n]
    BY <1>2, <2>2, <2>4 DEF Reserved
  <2>10. [cskip_info EXCEPT ![k].i_arg = n] = [cskip_info EXCEPT ![k] = e]
    BY <2>5
  <2>11. QED
    BY <2>8, <2>9, <2>10
<1>3. CASE ~Inserts
  BY <1>1, <1>3 DEF Reserved
<1>4. QED
  BY <1>2, <1>3

(* The operands of an operator as they are recorded. *)
LEMMA NewArgFacts ==
  ASSUME CursorInv, ConnInv, NEW i \in Op(play), NEW R \in Recorder, NEW Q \in Recorder,
         Extends(PutOperands(Q, InstrOf(play, i)), R)
  PROVE  /\ new_arg(R, InstrOf(play, i)) \in Seq(Nat)
         /\ DOMAIN new_arg(R, InstrOf(play, i)) = DOMAIN InstrOf(play, i).arg
<1> DEFINE ins == InstrOf(play, i)
<1>1. play \in Tapes
  BY DEF CursorInv
<1>2. PICK P : P = PutOperands(Q, ins)
  OBVIOUS
<1>3. P \in Recorder /\ \A j \in DOMAIN ins.arg : ins.kind[j] = "p" =>
        HasPar(P, play.par_rec_[ins.arg[j] + 1])
  BY <1>2, PutOperandsFacts DEF Extends
<1>4. Extends(P, R)
  BY <1>2
<1>5. PICK s : s = new_arg(R, ins)
  OBVIOUS
<1>6. ASSUME NEW j \in DOMAIN ins.arg
      PROVE  s[j] \in Nat
  <2>1. CASE ins.kind[j] = "v"
    <3>1. s[j] = tape[ins.arg[j]].new_var
      BY <1>5, <2>1 DEF new_arg
    <3>2. ins.arg[j] \in Address(play)
      BY <1>1, <2>1, OperandPlace
    <3>3. tape[ins.arg[j]].new_var \in 0 .. play.num_var_rec
      BY <3>2 DEF ConnInv, Entries, Entry
    <3>4. QED
      BY <3>1, <3>3
  <2>2. CASE ins.kind[j] # "v"
    <3>1. s[j] = IndexOf(R, play.par_rec_[ins.arg[j] + 1])
      BY <1>5, <2>2 DEF new_arg
    <3>2. ins.kind[j] = "p"
      BY <1>1, <2>2, Operation DEF Operated
    <3>3. HasPar(R, play.par_rec_[ins.arg[j] + 1])
      BY <1>3, <1>4, <3>2, HasParExtends
    <3>4. s[j] \in 0 .. Len(R.par_rec_) - 1
      BY <3>1, <3>3, IndexOfFacts
    <3>5. QED
      BY <3>4
  <2>3. QED
    BY <2>1, <2>2
<1>7. \E n \in Nat : DOMAIN ins.arg = 1 .. n
  <2>1. Operated(play, i) /\ Located(play, i)
    BY <1>1, Operation, Location
  <2>2. CASE ins.op \in Unary \/ ins.op = "Par"
    BY <2>1, <2>2 DEF Operated
  <2>3. CASE ins.op \in Binary \union Comparison
    BY <2>1, <2>3 DEF Operated
  <2>4. CASE ins.op \in CondExp
    BY <2>1, <2>4 DEF Operated
  <2>5. CASE ins.op \in {"Begin", "Inv", "End"}
    <3>1. DOMAIN ins.arg = {} /\ {} = 1 .. 0
      BY <2>1, <2>5 DEF Operated
    <3>2. QED
      BY <3>1
  <2>6. QED
    BY <2>1, <2>2, <2>3, <2>4, <2>5 DEF Located
<1>8. PICK n \in Nat : DOMAIN ins.arg = 1 .. n
  BY <1>7
<1>9. DOMAIN s = DOMAIN ins.arg /\ s = [k \in DOMAIN s |-> s[k]]
  BY <1>5 DEF new_arg
<1>10. s \in Seq(Nat)
  BY <1>6, <1>8, <1>9, ShortSeq
<1>11. QED
  BY <1>5, <1>9, <1>10

LEMMA RerecordedFacts ==
  ASSUME CursorInv, ConnInv, RecInv, InfoInv, NEW i \in Op(play), ForwardTo(i)
  PROVE  /\ Rerecorded \in Recorder
         /\ Rerecorded.num_var_rec_ = rec.num_var_rec_ + NumRes(InstrOf(play, i).op)
         /\ Len(Rerecorded.op_rec_) = Len(WithSkip.op_rec_) + 1
         /\ Extends(PutOperands(WithSkip, InstrOf(play, i)), PutOperands(WithSkip, InstrOf(play, i)))
         /\ Rerecorded.par_rec_ = PutOperands(WithSkip, InstrOf(play, i)).par_rec_
<1>1. phase = "forward" /\ play \in Tapes /\ Current = InstrOf(play, i)
      /\ OpAt(play, Ahead) = play.op_rec_[i] /\ Ahead = At(play, i)
  BY DEF ForwardTo, CursorInv
<1>2. PICK Q : Q = WithSkip
  OBVIOUS
<1>3. Q \in Recorder /\ Q.num_var_rec_ = rec.num_var_rec_ /\ Q.num_var_rec_ > 0
      /\ Q.num_var_rec_ \in Nat
  BY <1>1, <1>2, WithSkipFacts DEF Recorder
<1>4. PICK R : R = PutOperands(Q, InstrOf(play, i))
  OBVIOUS
<1>5. Extends(Q, R) /\ R \in Recorder
  BY <1>3, <1>4, PutOperandsFacts DEF Extends
<1>6. Len(R.par_rec_) \in Nat
  BY <1>5 DEF Recorder
<1>7. Extends(R, R)
  BY <1>5, <1>6 DEF Extends
<1>8. PICK s : s = new_arg(R, InstrOf(play, i))
  OBVIOUS
<1>9. s \in Seq(Nat)
  BY <1>3, <1>4, <1>5, <1>7, <1>8, NewArgFacts
<1>10. PICK p : p = Prefix
  OBVIOUS
<1>11. p \in Seq(Nat)
  <2>1. CASE Current.op \in CondExp
    <3>1. play.op_rec_[i].op = "CExp"
      BY <1>1, <2>1, Location DEF Located
    <3>2. NumArg(play.op_rec_[i]) = 6
      BY <3>1 DEF NumArg, Optimized
    <3>3. Arg(play, Ahead, 0) \in Nat /\ Arg(play, Ahead, 1) \in Nat
      BY <1>1, <3>2, ArgNat
    <3>4. p = <<Arg(play, Ahead, 0), Arg(play, Ahead, 1)>>
      BY <1>10, <2>1 DEF Prefix
    <3>5. QED
      BY <3>3, <3>4
  <2>2. CASE Current.op \notin CondExp
    BY <1>10, <2>2 DEF Prefix
  <2>3. QED
    BY <2>1, <2>2
<1>12. PICK words : words = p \o s
  OBVIOUS
<1>13. words \in Seq(Nat)
  BY <1>9, <1>11, <1>12
<1>14. Rerecorded = Put(R, play.op_rec_[i], words)
  BY <1>1, <1>2, <1>4, <1>8, <1>10, <1>12, Zenon DEF Rerecorded
<1>15. play.op_rec_[i] \in OpCodeRec
       /\ NumRes(play.op_rec_[i].op) = NumRes(InstrOf(play, i).op)
  BY <1>1, Location DEF Located
<1>16. NumRes(play.op_rec_[i].op) \in 0 .. 2
  BY ResultCounts
<1>17. R.num_var_rec_ = rec.num_var_rec_ /\ R.op_rec_ = Q.op_rec_
  BY <1>3, <1>5 DEF Extends
<1>18. R.num_var_rec_ + NumRes(play.op_rec_[i].op) > 0
  BY <1>3, <1>16, <1>17
<1>19. /\ Rerecorded \in Recorder
       /\ Rerecorded.num_var_rec_ = R.num_var_rec_ + NumRes(play.op_rec_[i].op)
       /\ Len(Rerecorded.op_rec_) = Len(R.op_rec_) + 1
       /\ Rerecorded.par_rec_ = R.par_rec_
  BY <1>5, <1>13, <1>14, <1>15, <1>18, PutFacts
<1>20. QED
  BY <1>2, <1>4, <1>7, <1>15, <1>17, <1>19

-----------------------------------------------------------------------------
(* Steps of the second pass. *)
Ready == CursorInv /\ ConnInv /\ RecInv /\ InfoInv /\ FreshInv

(* What all forward actions have in common. *)
Moves(i, ops) ==
  /\ ForwardTo(i) /\ InstrOf(play, i).op \in ops
  /\ play' = play /\ cursor' = At(play, i) /\ conditional_skip' = conditional_skip
  /\ cskip_info_order' = cskip_info_order /\ cskip_order_next' \in 1 .. Len(cskip_info) + 1

LEMMA ForwardMoves ==
  ASSUME Ready, NEW ops, Forward(ops)
  PROVE  \E i \in Op(play) : Moves(i, ops)
<1>1. phase = "forward" /\ CursorInv /\ InfoInv
  BY DEF Ready, Forward
<1>2. PICK i \in Op(play) : ForwardTo(i)
  BY <1>1, ForwardIs
<1>3. cursor' = At(play, i) /\ InstrOf(play, i).op \in ops
  BY <1>2 DEF Forward, ForwardTo
<1>4. cskip_order_next' \in 1 .. Len(cskip_info) + 1
  <2>1. CASE Due
    BY <1>1, <2>1, NextSkipFacts DEF Forward
  <2>2. CASE ~Due
    BY <1>1, <2>2 DEF Forward, InfoInv
  <2>3. QED
    BY <2>1, <2>2
<1>5. QED
  BY <1>2, <1>3, <1>4 DEF Moves, Forward

(* What is known of the variables after a step over operator i. *)
NewNumber(i) ==
  LET res == InstrOf(play, i).res
  IN  \/ /\ tape'[res].new_var = tape[res].new_var
         /\ Recorded(i) => phase' = "csum"
      \/ /\ NumRes(InstrOf(play, i).op) > 0 /\ tape[res].connect_type # "csum_connected"
         /\ phase' = "forward"
         /\ \/ rec.num_var_rec_ < rec'.num_var_rec_ /\ tape'[res].new_var = rec'.num_var_rec_ - 1
            \/ \E m \in Address(play) :
                 /\ tape[m].new_var # Invalid /\ tape'[res].new_var = tape[m].new_var
                 /\ \A y \in Valuations(play) : y[res] = y[m]

Advances(i) ==
  /\ i \in Op(play) /\ play' = play /\ cursor' = At(play, i)
  /\ conditional_skip' = conditional_skip
  /\ \/ phase = "forward" /\ i = Here + 1
     \/ phase = "csum" /\ i = Here /\ phase' = "forward"
  /\ phase' \in {"forward", "csum", "done"}
  /\ phase' = "csum" => InstrOf(play, i).op \in Summation /\ Recorded(i)
  /\ phase' = "done" => InstrOf(play, i).op = "End"
  /\ phase' # "done" => rec' \in Recorder
  /\ rec'.num_var_rec_ \in Nat /\ rec.num_var_rec_ <= rec'.num_var_rec_
  /\ rec'.num_var_rec_ <= rec.num_var_rec_ + NumRes(InstrOf(play, i).op)
  /\ phase' = "csum" => rec'.num_var_rec_ = rec.num_var_rec_
  /\ Len(rec'.op_rec_) \in Nat /\ Len(rec.op_rec_) <= Len(rec'.op_rec_)
  /\ cskip_info' \in Seq(Info(play)) /\ KeepsAll(Len(cskip_info))
  /\ cskip_info_order' = cskip_info_order /\ cskip_order_next' \in 1 .. Len(cskip_info) + 1
  /\ \A a \in Address(play) \ {InstrOf(play, i).res} : tape'[a].new_var = tape[a].new_var
  /\ \A a \in Address(play) : tape'[a].new_op <= Len(rec'.op_rec_)
  /\ NewNumber(i)

(* An entry changes, but not its connections. *)
LEMMA KeepOne ==
  ASSUME NEW t, NEW n, NEW tp \in Entries(t, n), NEW a \in Address(t),
         NEW w \in Entry(t, n), Keeps(tp[a], w), NEW tq, Replaced(tp, tq, a, w)
  PROVE  /\ tq \in Entries(t, n) /\ tq[a] = w
         /\ \A b \in Address(t) : Keeps(tp[b], tq[b]) /\ (b # a => tq[b] = tp[b])
<1>1. tq = [tp EXCEPT ![a] = w]
  BY DEF Replaced
<1>2. tq \in Entries(t, n) /\ tq[a] = w /\ \A b \in Address(t) : b # a => tq[b] = tp[b]
  BY <1>1 DEF Entries
<1>3. \A b \in Address(t) : Keeps(tp[b], tq[b])
  BY <1>2 DEF Keeps
<1>4. QED
  BY <1>2, <1>3

LEMMA InfoLength ==
  ASSUME NEW s \in Seq(Info(play))
  PROVE  IsSeq(s)
<1>1. PICK n \in Nat : n = Len(s) /\ s \in [1 .. n -> Info(play)]
  OBVIOUS
<1>2. QED
  BY <1>1, FunctionSeq

(* What a step may do to the variables: the one of its result gets new     *)
(* numbers, others at most a mark.                                         *)
Rewrites(i) ==
  /\ tape' \in Entries(play, Len(cskip_info))
  /\ \A a \in Address(play) : Keeps(tape[a], tape'[a])
  /\ \A a \in Address(play) \ {InstrOf(play, i).res} :
       tape'[a].new_var = tape[a].new_var /\ tape'[a].new_op = tape[a].new_op
  /\ tape'[InstrOf(play, i).res].new_op <= Len(rec'.op_rec_)

LEMMA RewritesOne ==
  ASSUME CursorInv, ConnInv, NEW i \in Op(play),
         NEW w \in Entry(play, Len(cskip_info)), Keeps(tape[InstrOf(play, i).res], w),
         w.new_op <= Len(rec'.op_rec_),
         Replaced(tape, tape', InstrOf(play, i).res, w)
  PROVE  Rewrites(i)
<1>1. play \in Tapes /\ tape \in Entries(play, Len(cskip_info))
  BY DEF CursorInv, ConnInv
<1>2. PICK res : res = InstrOf(play, i).res
  OBVIOUS
<1>3. res \in Address(play)
  BY <1>1, <1>2, Location DEF Located
<1>4. PICK tq : tq = tape'
  OBVIOUS
<1>5. tq \in Entries(play, Len(cskip_info)) /\ tq[res] = w
      /\ \A b \in Address(play) : Keeps(tape[b], tq[b]) /\ (b # res => tq[b] = tape[b])
  BY <1>1, <1>2, <1>3, <1>4, KeepOne
<1>6. \A b \in Address(play) \ {res} :
        tq[b].new_var = tape[b].new_var /\ tq[b].new_op = tape[b].new_op
  BY <1>5
<1>7. tq[res].new_op <= Len(rec'.op_rec_)
  BY <1>5
<1>8. QED
  BY <1>2, <1>4, <1>5, <1>6, <1>7 DEF Rewrites

(* What a step has to show: its phase, its recorder, and the variables.    *)
LEMMA Advance ==
  ASSUME Ready, NEW i \in Op(play), NEW ops, Moves(i, ops),
         phase' \in {"forward", "csum", "done"},
         phase' = "csum" => InstrOf(play, i).op \in Summation /\ Recorded(i),
         phase' = "done" => InstrOf(play, i).op = "End",
         phase' # "done" => rec' \in Recorder,
         rec'.num_var_rec_ \in Nat, rec.num_var_rec_ <= rec'.num_var_rec_,
         rec'.num_var_rec_ <= rec.num_var_rec_ + NumRes(InstrOf(play, i).op),
         phase' = "csum" => rec'.num_var_rec_ = rec.num_var_rec_,
         Len(rec'.op_rec_) \in Nat, Len(rec.op_rec_) <= Len(rec'.op_rec_),
         cskip_info' \in Seq(Info(play)), Len(cskip_info') = Len(cskip_info),
         Rewrites(i), NewNumber(i)
  PROVE  Advances(i)
<1>1. play \in Tapes /\ tape \in Entries(play, Len(cskip_info))
  BY DEF Ready, CursorInv, ConnInv
<1>2. KeepsAll(Len(cskip_info))
  <2>1. IsSeq(cskip_info')
    BY InfoLength
  <2>2. QED
    BY <2>1 DEF KeepsAll, Moves, Rewrites
<1>3. ASSUME NEW a \in Address(play)
      PROVE  tape'[a].new_op <= Len(rec'.op_rec_)
  <2>1. CASE a = InstrOf(play, i).res
    BY <2>1 DEF Rewrites
  <2>2. CASE a # InstrOf(play, i).res
    <3>1. tape'[a].new_op <= Len(rec.op_rec_) /\ tape'[a].new_op \in Nat
      BY <1>1, <2>2 DEF Ready, FreshInv, Entries, Entry, Rewrites
    <3>2. Len(rec.op_rec_) \in Nat
      BY DEF Ready, RecInv
    <3>3. QED
      BY <3>1, <3>2
  <2>3. QED
    BY <2>1, <2>2
<1>4. phase = "forward" /\ i = Here + 1 /\ play' = play /\ cursor' = At(play, i)
      /\ conditional_skip' = conditional_skip /\ cskip_info_order' = cskip_info_order
      /\ cskip_order_next' \in 1 .. Len(cskip_info) + 1
  BY DEF Moves, ForwardTo
<1>5. \A a \in Address(play) \ {InstrOf(play, i).res} : tape'[a].new_var = tape[a].new_var
  BY DEF Rewrites
<1>6. QED
  BY <1>2, <1>3, <1>4, <1>5 DEF Advances

(* Only sums are connected through one sum. *)
LEMMA NotSum ==
  ASSUME CursorInv, ConnInv, NEW i \in Op(play), NumRes(InstrOf(play, i).op) > 0,
         Result(i).connect_type = "csum_connected"
  PROVE  InstrOf(play, i).op \in Summation
<1>1. play \in Tapes
  BY DEF CursorInv
<1>2. InstrOf(play, i).res \in Address(play)
  BY <1>1, Location DEF Located
<1>3. PICK k \in Op(play) : InstrOf(play, k).res = InstrOf(play, i).res
                            /\ InstrOf(play, k).op \in Summation
  BY <1>2 DEF ConnInv, Result
<1>4. NumRes(InstrOf(play, k).op) > 0
  BY <1>3, ResultCounts DEF Summation, Binary
<1>5. i \in Nat /\ k \in Nat
  BY <1>1, CodeFacts DEF Op
<1>6. InstrOf(play, i).res \in Nat /\ InstrOf(play, k).res \in Nat
  BY <1>1, Location DEF Located, Address
<1>7. ~(i < k) /\ ~(k < i)
  BY <1>1, <1>3, <1>4, <1>6, ResultPlace
<1>8. i = k
  BY <1>5, <1>7
<1>9. QED
  BY <1>3, <1>8

(* There are no more new variables than old ones. *)
LEMMA NumberBound ==
  ASSUME Ready, NEW i \in Op(play), ForwardTo(i)
  PROVE  /\ InstrOf(play, i).res \in Address(play)
         /\ InstrOf(play, i).res = InstrOf(play, Here).res + NumRes(InstrOf(play, i).op)
         /\ rec.num_var_rec_ + NumRes(InstrOf(play, i).op) <= InstrOf(play, i).res + 1
         /\ rec.num_var_rec_ + NumRes(InstrOf(play, i).op) <= play.num_var_rec
<1>1. play \in Tapes /\ i = Here + 1 /\ Here \in Op(play) /\ phase = "forward"
  BY DEF Ready, CursorInv, ForwardTo
<1>2. InstrOf(play, i).res = play.last[i] /\ play.last[i] \in Address(play)
      /\ NumRes(InstrOf(play, i).op) = NumRes(play.op_rec_[i].op)
      /\ InstrOf(play, Here).res = play.last[Here] /\ play.last[Here] \in Address(play)
      /\ play.num_var_rec \in Nat
  BY <1>1, Location DEF Located
<1>3. play.last[Here + 1] = play.last[Here] + NumRes(play.op_rec_[Here + 1].op)
  BY <1>1, NextPlace
<1>4. rec.num_var_rec_ <= InstrOf(play, Here).res + 1 /\ rec.num_var_rec_ \in Nat
  BY <1>1 DEF Ready, FreshInv, RecInv
<1>5. NumRes(play.op_rec_[i].op) \in 0 .. 2
  BY ResultCounts
<1>6. PICK r \in Nat, n \in Nat, m \in Nat, l \in Nat :
        /\ r = play.last[Here] /\ n = NumRes(play.op_rec_[i].op) /\ m = rec.num_var_rec_
        /\ l = play.num_var_rec
  BY <1>2, <1>4, <1>5 DEF Address
<1>7. play.last[i] = r + n /\ m <= r + 1 /\ r + n \in 0 .. l - 1
  BY <1>1, <1>2, <1>3, <1>4, <1>6 DEF Address
<1>8. m + n <= (r + n) + 1 /\ m + n <= l
  BY <1>7
<1>9. QED
  BY <1>2, <1>6, <1>7, <1>8

-----------------------------------------------------------------------------
(* The mark of the variable at a forward step is cleared. *)
LEMMA UnmatchedRewrites ==
  ASSUME Ready, NEW i \in Op(play), ForwardTo(i), tape' = Unmatched,
         Len(rec'.op_rec_) \in Nat, Len(rec.op_rec_) <= Len(rec'.op_rec_)
  PROVE  Rewrites(i) /\ tape'[InstrOf(play, i).res].new_var = tape[InstrOf(play, i).res].new_var
<1>1. CursorInv /\ ConnInv /\ Current = InstrOf(play, i)
  BY DEF Ready, ForwardTo
<1>2. PICK res : res = InstrOf(play, i).res
  OBVIOUS
<1>3. res \in Address(play)
  BY <1>2, NumberBound
<1>4. PICK w : w = [tape[res] EXCEPT !.match = FALSE]
  OBVIOUS
<1>5. tape[res] \in Entry(play, Len(cskip_info)) /\ DOMAIN tape = Address(play)
  BY <1>1, <1>3 DEF ConnInv, Entries
<1>6. w \in Entry(play, Len(cskip_info)) /\ Keeps(tape[res], w)
      /\ w.new_var = tape[res].new_var /\ w.new_op = tape[res].new_op
  BY <1>4, <1>5 DEF Entry, Keeps
<1>7. tape' = [tape EXCEPT ![res] = w]
  BY <1>1, <1>2, <1>4 DEF Unmatched
<1>8. Replaced(tape, tape', res, w)
  BY <1>7 DEF Replaced
<1>9. w.new_op <= Len(rec'.op_rec_)
  <2>1. tape[res].new_op <= Len(rec.op_rec_) /\ tape[res].new_op \in Nat
    BY <1>3, <1>5 DEF Ready, FreshInv, Entry
  <2>2. Len(rec.op_rec_) \in Nat
    BY DEF Ready, RecInv
  <2>3. QED
    BY <1>6, <2>1, <2>2
<1>10. tape'[res] = w
  BY <1>3, <1>5, <1>7
<1>11. QED
  BY <1>1, <1>2, <1>6, <1>8, <1>9, <1>10, RewritesOne

(* Nothing but what is due is recorded. *)
LEMMA SkipRecorded ==
  ASSUME Ready, NEW i \in Op(play), ForwardTo(i), rec' = WithSkip
  PROVE  /\ rec' \in Recorder
         /\ rec'.num_var_rec_ \in Nat /\ rec'.num_var_rec_ = rec.num_var_rec_
         /\ rec.num_var_rec_ <= rec'.num_var_rec_
         /\ rec'.num_var_rec_ <= rec.num_var_rec_ + NumRes(InstrOf(play, i).op)
         /\ Len(rec'.op_rec_) \in Nat /\ Len(rec.op_rec_) <= Len(rec'.op_rec_)
<1>1. rec' \in Recorder /\ rec'.num_var_rec_ = rec.num_var_rec_
      /\ Len(rec'.op_rec_) \in Nat /\ Len(rec.op_rec_) <= Len(rec'.op_rec_)
  BY WithSkipFacts DEF Ready, ForwardTo, RecInv
<1>2. rec.num_var_rec_ \in Nat
  BY DEF Ready, RecInv
<1>3. NumRes(InstrOf(play, i).op) \in 0 .. 2
  BY ResultCounts
<1>4. QED
  BY <1>1, <1>2, <1>3

LEMMA ReservedLength ==
  ASSUME Ready, phase = "forward", cskip_info' = Reserved
  PROVE  cskip_info' \in Seq(Info(play)) /\ Len(cskip_info') = Len(cskip_info)
  BY ReservedFacts DEF Ready

LEMMA DropAdvances ==
  ASSUME Ready, Drop
  PROVE  \E i \in Op(play) : Advances(i)
<1>1. PICK i \in Op(play) : Moves(i, Unary \union Binary \union CondExp \union {"Par"})
  BY ForwardMoves DEF Drop
<1>2. ForwardTo(i) /\ phase = "forward" /\ phase' = "forward" /\ Current = InstrOf(play, i)
  BY <1>1 DEF Moves, ForwardTo, Drop
<1>3. ~Recorded(i)
  BY <1>2 DEF Drop, Kept, Recorded, Result
<1>4. rec' = WithSkip /\ tape' = Unmatched /\ cskip_info' = Reserved
  BY DEF Drop
<1>5. rec' \in Recorder
      /\ rec'.num_var_rec_ \in Nat /\ rec.num_var_rec_ <= rec'.num_var_rec_
      /\ rec'.num_var_rec_ <= rec.num_var_rec_ + NumRes(InstrOf(play, i).op)
      /\ Len(rec'.op_rec_) \in Nat /\ Len(rec.op_rec_) <= Len(rec'.op_rec_)
  BY <1>2, <1>4, SkipRecorded
<1>6. Rewrites(i) /\ NewNumber(i)
  BY <1>2, <1>3, <1>4, <1>5, UnmatchedRewrites DEF NewNumber
<1>7. cskip_info' \in Seq(Info(play)) /\ Len(cskip_info') = Len(cskip_info)
  BY <1>2, <1>4, ReservedLength
<1>8. QED
  BY <1>1, <1>2, <1>5, <1>6, <1>7, Advance

LEMMA StartSumAdvances ==
  ASSUME Ready, StartSum
  PROVE  \E i \in Op(play) : Advances(i) /\ ForwardTo(i)
<1>1. PICK i \in Op(play) : Moves(i, Summation)
  BY ForwardMoves DEF StartSum
<1>2. ForwardTo(i) /\ phase = "forward" /\ phase' = "csum" /\ Current = InstrOf(play, i)
      /\ InstrOf(play, i).op \in Summation
  BY <1>1 DEF Moves, ForwardTo, StartSum
<1>3. NumRes(InstrOf(play, i).op) > 0
  BY <1>2, ResultCounts DEF Summation, Binary
<1>4. Recorded(i)
  BY <1>2, <1>3 DEF StartSum, Kept, Recorded, Result
<1>5. rec' = WithSkip /\ tape' = Unmatched /\ cskip_info' = Reserved
  BY DEF StartSum
<1>6. rec' \in Recorder
      /\ rec'.num_var_rec_ \in Nat /\ rec.num_var_rec_ <= rec'.num_var_rec_
      /\ rec'.num_var_rec_ <= rec.num_var_rec_ + NumRes(InstrOf(play, i).op)
      /\ rec'.num_var_rec_ = rec.num_var_rec_
      /\ Len(rec'.op_rec_) \in Nat /\ Len(rec.op_rec_) <= Len(rec'.op_rec_)
  BY <1>2, <1>5, SkipRecorded
<1>7. Rewrites(i) /\ NewNumber(i)
  BY <1>2, <1>5, <1>6, UnmatchedRewrites DEF NewNumber
<1>8. cskip_info' \in Seq(Info(play)) /\ Len(cskip_info') = Len(cskip_info)
  BY <1>2, <1>5, ReservedLength
<1>9. QED
  BY <1>1, <1>2, <1>4, <1>6, <1>7, <1>8, Advance

(* An operator is recorded. *)
LEMMA ItselfRecorded ==
  ASSUME Ready, NEW i \in Op(play), ForwardTo(i), rec' = Rerecorded
  PROVE  /\ rec' \in Recorder
         /\ rec'.num_var_rec_ \in Nat
         /\ rec.num_var_rec_ <= rec'.num_var_rec_
         /\ rec'.num_var_rec_ = rec.num_var_rec_ + NumRes(InstrOf(play, i).op)
         /\ Len(rec'.op_rec_) \in Nat /\ Len(rec.op_rec_) <= Len(rec'.op_rec_)
         /\ Len(WithSkip.op_rec_) \in Nat /\ Len(WithSkip.op_rec_) <= Len(rec'.op_rec_)
<1>1. rec' \in Recorder
      /\ rec'.num_var_rec_ = rec.num_var_rec_ + NumRes(InstrOf(play, i).op)
      /\ Len(rec'.op_rec_) = Len(WithSkip.op_rec_) + 1
  BY RerecordedFacts DEF Ready
<1>2. Len(WithSkip.op_rec_) \in Nat /\ Len(rec.op_rec_) <= Len(WithSkip.op_rec_)
  BY WithSkipFacts DEF Ready, ForwardTo
<1>3. rec.num_var_rec_ \in Nat /\ Len(rec.op_rec_) \in Nat
  BY DEF Ready, RecInv
<1>4. NumRes(InstrOf(play, i).op) \in 0 .. 2
  BY ResultCounts
<1>5. QED
  BY <1>1, <1>2, <1>3, <1>4

LEMMA RecordCompareAdvances ==
  ASSUME Ready, RecordCompare
  PROVE  \E i \in Op(play) : Advances(i)
<1>1. PICK i \in Op(play) : Moves(i, Comparison)
  BY ForwardMoves DEF RecordCompare
<1>2. ForwardTo(i) /\ phase = "forward" /\ phase' = "forward" /\ Current = InstrOf(play, i)
      /\ InstrOf(play, i).op \in Comparison
  BY <1>1 DEF Moves, ForwardTo, RecordCompare
<1>3. ~Recorded(i)
  BY <1>2, ResultCounts DEF Recorded
<1>4. rec' = Rerecorded /\ tape' = Unmatched /\ cskip_info' = Reserved
  BY DEF RecordCompare
<1>5. rec' \in Recorder
      /\ rec'.num_var_rec_ \in Nat /\ rec.num_var_rec_ <= rec'.num_var_rec_
      /\ rec'.num_var_rec_ = rec.num_var_rec_ + NumRes(InstrOf(play, i).op)
      /\ Len(rec'.op_rec_) \in Nat /\ Len(rec.op_rec_) <= Len(rec'.op_rec_)
  BY <1>2, <1>4, ItselfRecorded
<1>6. rec'.num_var_rec_ <= rec.num_var_rec_ + NumRes(InstrOf(play, i).op)
  BY <1>5
<1>7. Rewrites(i) /\ NewNumber(i)
  BY <1>2, <1>3, <1>4, <1>5, UnmatchedRewrites DEF NewNumber
<1>8. cskip_info' \in Seq(Info(play)) /\ Len(cskip_info') = Len(cskip_info)
  BY <1>2, <1>4, ReservedLength
<1>9. QED
  BY <1>1, <1>2, <1>5, <1>6, <1>7, <1>8, Advance

(* A result gets its own number. *)
LEMMA RecordAdvances ==
  ASSUME Ready, NEW i \in Op(play), NEW ops, Moves(i, ops), RecordResult, phase' = "forward",
         NumRes(InstrOf(play, i).op) > 0,
         Result(i).connect_type # "csum_connected",
         cskip_info' \in Seq(Info(play)), Len(cskip_info') = Len(cskip_info)
  PROVE  Advances(i)
<1>1. ForwardTo(i) /\ phase = "forward" /\ Current = InstrOf(play, i)
      /\ CursorInv /\ ConnInv
  BY DEF Moves, ForwardTo, Ready
<1>2. rec' = Rerecorded
  BY DEF RecordResult
<1>3. rec' \in Recorder
      /\ rec'.num_var_rec_ \in Nat /\ rec.num_var_rec_ <= rec'.num_var_rec_
      /\ rec'.num_var_rec_ = rec.num_var_rec_ + NumRes(InstrOf(play, i).op)
      /\ Len(rec'.op_rec_) \in Nat /\ Len(rec.op_rec_) <= Len(rec'.op_rec_)
      /\ Len(WithSkip.op_rec_) \in Nat /\ Len(WithSkip.op_rec_) <= Len(rec'.op_rec_)
  BY <1>1, <1>2, ItselfRecorded
<1>4. PICK res : res = InstrOf(play, i).res
  OBVIOUS
<1>5. res \in Address(play)
      /\ rec.num_var_rec_ + NumRes(InstrOf(play, i).op) <= play.num_var_rec
  BY <1>1, <1>4, NumberBound
<1>6. PICK m, n : m = rec'.num_var_rec_ - 1 /\ n = Len(WithSkip.op_rec_)
  OBVIOUS
<1>7. NumRes(InstrOf(play, i).op) \in 0 .. 2 /\ rec.num_var_rec_ \in Nat
      /\ play.num_var_rec \in Nat
  BY <1>1, ResultCounts, Ends DEF Ready, RecInv, CursorInv
<1>8. m \in 0 .. play.num_var_rec /\ n \in Nat /\ rec.num_var_rec_ < rec'.num_var_rec_
      /\ rec'.num_var_rec_ <= rec.num_var_rec_ + NumRes(InstrOf(play, i).op)
  BY <1>3, <1>5, <1>6, <1>7
<1>9. PICK w : w = [tape[res] EXCEPT !.match = FALSE, !.new_op = n, !.new_var = m]
  OBVIOUS
<1>10. tape[res] \in Entry(play, Len(cskip_info)) /\ DOMAIN tape = Address(play)
  BY <1>1, <1>5 DEF ConnInv, Entries
<1>11. w \in Entry(play, Len(cskip_info)) /\ Keeps(tape[res], w)
       /\ w.new_var = m /\ w.new_op = n
  BY <1>8, <1>9, <1>10 DEF Entry, Keeps
<1>12. tape' = [Unmatched EXCEPT ![res].new_op = n, ![res].new_var = m]
  BY <1>1, <1>4, <1>6 DEF RecordResult
<1>13. Unmatched = [tape EXCEPT ![res].match = FALSE]
  BY <1>1, <1>4 DEF Unmatched
<1>14. tape' = [tape EXCEPT ![res] = w]
  BY <1>5, <1>9, <1>10, <1>12, <1>13
<1>15. Replaced(tape, tape', res, w)
  BY <1>14 DEF Replaced
<1>16. tape'[res] = w
  BY <1>5, <1>10, <1>14
<1>17. Rewrites(i)
  BY <1>1, <1>3, <1>4, <1>6, <1>11, <1>15, RewritesOne
<1>18. NewNumber(i)
  BY <1>4, <1>6, <1>8, <1>11, <1>16 DEF NewNumber, Result
<1>19. QED
  BY <1>3, <1>8, <1>17, <1>18, Advance

LEMMA RecordVariableAdvances ==
  ASSUME Ready, RecordVariable
  PROVE  \E i \in Op(play) : Advances(i)
<1>1. PICK i \in Op(play) : Moves(i, {"Inv", "Par"})
  BY ForwardMoves DEF RecordVariable
<1>2. ForwardTo(i) /\ phase = "forward" /\ phase' = "forward"
      /\ InstrOf(play, i).op \in {"Inv", "Par"}
  BY <1>1 DEF Moves, ForwardTo, RecordVariable
<1>3. NumRes(InstrOf(play, i).op) > 0
  BY <1>2, ResultCounts
<1>4. InstrOf(play, i).op \notin Summation
  BY <1>2 DEF Summation
<1>5. Result(i).connect_type # "csum_connected"
  BY <1>3, <1>4, NotSum DEF Ready
<1>6. cskip_info' \in Seq(Info(play)) /\ Len(cskip_info') = Len(cskip_info)
  BY <1>2, ReservedLength DEF RecordVariable
<1>7. RecordResult
  BY DEF RecordVariable
<1>8. QED
  BY <1>1, <1>2, <1>3, <1>5, <1>6, <1>7, RecordAdvances

LEMMA RecordArithmeticAdvances ==
  ASSUME Ready, RecordArithmetic
  PROVE  \E i \in Op(play) : Advances(i) /\ ForwardTo(i)
<1>1. PICK i \in Op(play) : Moves(i, Unary \union Binary)
  BY ForwardMoves DEF RecordArithmetic, Arithmetic
<1>2. ForwardTo(i) /\ phase = "forward" /\ phase' = "forward" /\ Current = InstrOf(play, i)
      /\ InstrOf(play, i).op \in Unary \union Binary
  BY <1>1 DEF Moves, ForwardTo, RecordArithmetic
<1>3. NumRes(InstrOf(play, i).op) > 0
  BY <1>2, ResultCounts
<1>4. Result(i).connect_type # "csum_connected"
  <2>1. Kept(InstrOf(play, i))
    BY <1>2 DEF RecordArithmetic, Arithmetic
  <2>2. CASE InstrOf(play, i).op \in Summation
    BY <2>1, <2>2 DEF Kept, Result
  <2>3. CASE InstrOf(play, i).op \notin Summation
    BY <1>3, <2>3, NotSum DEF Ready
  <2>4. QED
    BY <2>2, <2>3
<1>5. cskip_info' \in Seq(Info(play)) /\ Len(cskip_info') = Len(cskip_info)
  BY <1>2, ReservedLength DEF RecordArithmetic
<1>6. RecordResult
  BY DEF RecordArithmetic
<1>7. QED
  BY <1>1, <1>2, <1>3, <1>4, <1>5, <1>6, RecordAdvances

LEMMA RecordCondExpAdvances ==
  ASSUME Ready, RecordCondExp
  PROVE  \E i \in Op(play) : Advances(i) /\ ForwardTo(i)
<1>1. PICK i \in Op(play) : Moves(i, CondExp)
  BY ForwardMoves DEF RecordCondExp
<1>2. ForwardTo(i) /\ phase = "forward" /\ phase' = "forward" /\ Current = InstrOf(play, i)
      /\ InstrOf(play, i).op \in CondExp /\ CursorInv /\ ConnInv /\ RecInv /\ InfoInv
      /\ play \in Tapes
  BY <1>1 DEF Moves, ForwardTo, RecordCondExp, Ready, CursorInv
<1>3. NumRes(InstrOf(play, i).op) > 0
  BY <1>2, ResultCounts
<1>4. InstrOf(play, i).op \notin Summation
  BY <1>2 DEF CondExp, Summation
<1>5. Result(i).connect_type # "csum_connected"
  BY <1>2, <1>3, <1>4, NotSum
<1>6. PICK infos, k, arg : /\ infos = Reserved /\ k = cskip_info_index
                           /\ arg = new_arg(rec', Current)
  OBVIOUS
<1>7. rec' = Rerecorded
  BY DEF RecordCondExp, RecordResult
<1>8. arg \in Seq(Nat) /\ DOMAIN arg = 1 .. 4
  <2>1. PICK Q, R : Q = WithSkip /\ R = PutOperands(Q, InstrOf(play, i))
    OBVIOUS
  <2>2. Q \in Recorder
    BY <1>2, <2>1, WithSkipFacts
  <2>3. Extends(Q, R)
    BY <1>2, <2>1, <2>2, PutOperandsFacts
  <2>4. rec' \in Recorder /\ rec'.par_rec_ = R.par_rec_
    BY <1>2, <1>7, <2>1, RerecordedFacts
  <2>5. PICK P : P = rec'
    OBVIOUS
  <2>6. R \in Recorder /\ Len(R.par_rec_) \in Nat
    BY <2>3 DEF Extends, Recorder
  <2>7. new_arg(R, Current) = new_arg(P, Current)
    <3>1. P.par_rec_ = R.par_rec_
      BY <2>4, <2>5
    <3>2. \A c : IndexOf(P, c) = IndexOf(R, c)
      BY <3>1 DEF IndexOf
    <3>3. QED
      BY <3>2 DEF new_arg
  <2>8. Extends(R, R)
    BY <2>6 DEF Extends
  <2>9. new_arg(R, InstrOf(play, i)) \in Seq(Nat)
        /\ DOMAIN new_arg(R, InstrOf(play, i)) = DOMAIN InstrOf(play, i).arg
    BY <1>2, <2>1, <2>2, <2>6, <2>8, NewArgFacts
  <2>10. DOMAIN InstrOf(play, i).arg = 1 .. 4
    BY <1>2, Operation DEF Operated
  <2>11. QED
    BY <1>2, <1>6, <2>5, <2>7, <2>9, <2>10
<1>9. arg[1] \in Nat /\ arg[2] \in Nat
  BY <1>8
<1>10. infos \in Seq(Info(play)) /\ Len(infos) = Len(cskip_info)
  BY <1>2, <1>6, ReservedFacts
<1>11. PICK e : e = [infos[k] EXCEPT !.left = arg[1], !.right = arg[2]]
  OBVIOUS
<1>12. k \in DOMAIN infos => e \in Info(play)
  <2>1. k \in DOMAIN infos => infos[k] \in Info(play)
    BY <1>10
  <2>2. QED
    BY <1>9, <1>11, <2>1 DEF Info
<1>13. cskip_info' = [infos EXCEPT ![k].left = arg[1], ![k].right = arg[2]]
  BY <1>6 DEF RecordCondExp
<1>14. [infos EXCEPT ![k].left = arg[1], ![k].right = arg[2]] = [infos EXCEPT ![k] = e]
  <2>1. infos = [j \in DOMAIN infos |-> infos[j]]
    BY <1>10
  <2>2. QED
    BY <1>11, <2>1
<1>15. cskip_info' \in Seq(Info(play)) /\ Len(cskip_info') = Len(cskip_info)
  <2>1. PICK next : next = [infos EXCEPT ![k] = e]
    OBVIOUS
  <2>2. [infos EXCEPT ![k] = e] \in Seq(Info(play))
        /\ Len([infos EXCEPT ![k] = e]) = Len(infos)
    BY <1>10, <1>12, SeqExcept
  <2>3. next \in Seq(Info(play)) /\ Len(next) = Len(cskip_info)
    BY <1>10, <2>1, <2>2
  <2>4. cskip_info' = next
    BY <1>13, <1>14, <2>1, Zenon
  <2>5. QED
    BY <2>3, <2>4, Zenon
<1>16. RecordResult
  BY DEF RecordCondExp
<1>17. QED
  BY <1>1, <1>2, <1>3, <1>5, <1>15, <1>16, RecordAdvances

LEMMA FinishAdvances ==
  ASSUME Ready, Finish
  PROVE  \E i \in Op(play) : Advances(i) /\ ForwardTo(i)
<1>1. PICK i \in Op(play) : Moves(i, {"End"})
  BY ForwardMoves DEF Finish
<1>2. ForwardTo(i) /\ phase = "forward" /\ phase' = "done" /\ Current = InstrOf(play, i)
      /\ InstrOf(play, i).op = "End" /\ CursorInv /\ RecInv /\ InfoInv /\ play \in Tapes
      /\ OpAt(play, Ahead) = play.op_rec_[i]
  BY <1>1 DEF Moves, ForwardTo, Finish, Ready, CursorInv
<1>3. NumRes(InstrOf(play, i).op) = 0
  BY <1>2, ResultCounts
<1>4. PICK Q, code, R, infos, tp :
        /\ Q = WithSkip /\ code = play.op_rec_[i] /\ R = Put(Q, code, <<>>)
        /\ infos = Reserved /\ tp = Unmatched
  OBVIOUS
<1>5. Q \in Recorder /\ Q.num_var_rec_ = rec.num_var_rec_ /\ Q.num_var_rec_ > 0
      /\ Len(Q.op_rec_) \in Nat /\ Len(rec.op_rec_) <= Len(Q.op_rec_)
  BY <1>2, <1>4, WithSkipFacts
<1>6. code \in OpCodeRec /\ NumRes(code.op) = 0
  BY <1>2, <1>3, <1>4, Location DEF Located
<1>7. rec.num_var_rec_ \in Nat /\ Q.num_var_rec_ + NumRes(code.op) = rec.num_var_rec_
      /\ Q.num_var_rec_ + NumRes(code.op) > 0
  BY <1>2, <1>5, <1>6 DEF RecInv
<1>8. R \in Recorder /\ R.num_var_rec_ = rec.num_var_rec_
      /\ Len(R.op_rec_) = Len(Q.op_rec_) + 1
  <2>1. <<>> \in Seq(Nat)
    OBVIOUS
  <2>2. QED
    BY <1>4, <1>5, <1>6, <1>7, <2>1, PutFacts
<1>9. PICK words : words = FilledIn(R, tp, infos).op_arg_rec_
  OBVIOUS
<1>10. rec' = FilledIn(R, tp, infos)
  BY <1>2, <1>4 DEF Finish
<1>11. rec'.num_var_rec_ = R.num_var_rec_ /\ rec'.op_rec_ = R.op_rec_
  BY <1>8, <1>10 DEF FilledIn, Recorder
<1>12. /\ rec'.num_var_rec_ \in Nat /\ rec.num_var_rec_ <= rec'.num_var_rec_
       /\ rec'.num_var_rec_ <= rec.num_var_rec_ + NumRes(InstrOf(play, i).op)
       /\ Len(rec'.op_rec_) \in Nat /\ Len(rec.op_rec_) <= Len(rec'.op_rec_)
  <2>1. Len(rec'.op_rec_) = Len(Q.op_rec_) + 1 /\ Len(rec.op_rec_) \in Nat
    BY <1>2, <1>8, <1>11 DEF RecInv
  <2>2. rec'.num_var_rec_ = rec.num_var_rec_
    BY <1>8, <1>11
  <2>3. QED
    BY <1>3, <1>5, <1>7, <2>1, <2>2
<1>13. tape' = Unmatched /\ cskip_info' = Reserved
  BY DEF Finish
<1>14. Rewrites(i) /\ NewNumber(i)
  BY <1>2, <1>3, <1>12, <1>13, UnmatchedRewrites DEF NewNumber, Recorded
<1>15. cskip_info' \in Seq(Info(play)) /\ Len(cskip_info') = Len(cskip_info)
  BY <1>2, <1>13, ReservedLength
<1>16. QED
  BY <1>1, <1>2, <1>12, <1>14, <1>15, Advance

(* The sum and the parameters of a cumulative sum, as they are recorded.   *)
LEMMA PoppedFacts ==
  ASSUME CursorInv, ConnInv, NEW stack \in Seq(Address(play))
  PROVE  Popped(stack) \in Seq(Nat) /\ Len(Popped(stack)) = Len(stack)
<1>1. PICK n \in Nat : n = Len(stack) /\ stack \in [1 .. n -> Address(play)]
  OBVIOUS
<1>2. PICK s : s = Popped(stack)
  OBVIOUS
<1>3. DOMAIN s = 1 .. n /\ s = [k \in DOMAIN s |-> s[k]]
  BY <1>1, <1>2 DEF Popped
<1>4. ASSUME NEW k \in 1 .. n
      PROVE  s[k] \in Nat
  <2>1. n - k + 1 \in 1 .. n
    BY <1>4
  <2>2. Reverse(stack)[k] = stack[n - k + 1]
    BY <1>1 DEF Reverse
  <2>3. s[k] = tape[Reverse(stack)[k]].new_var
    BY <1>1, <1>2 DEF Popped
  <2>4. stack[n - k + 1] \in Address(play)
    BY <1>1, <2>1
  <2>5. tape[stack[n - k + 1]].new_var \in 0 .. play.num_var_rec
    BY <2>4 DEF ConnInv, Entries, Entry
  <2>6. s[k] \in 0 .. play.num_var_rec
    BY <2>2, <2>3, <2>5
  <2>7. QED
    BY <2>6
<1>5. s \in Seq(Nat) /\ Len(s) = n
  BY <1>3, <1>4, ShortSeq
<1>6. QED
  BY <1>1, <1>2, <1>5

LEMMA SumEndAdvances ==
  ASSUME Ready, CsumInv, SumEnd
  PROVE  Advances(Here)
<1>1. phase = "csum" /\ phase' = "forward" /\ cursor' = cursor /\ play' = play
      /\ conditional_skip' = conditional_skip /\ cskip_info' = cskip_info
      /\ cskip_info_order' = cskip_info_order /\ cskip_order_next' = cskip_order_next
  BY DEF SumEnd
<1>2. CursorInv /\ ConnInv /\ RecInv /\ InfoInv /\ FreshInv /\ play \in Tapes
      /\ Here \in Op(play) /\ cursor = At(play, Here)
  BY DEF Ready, CursorInv
<1>3. Recorded(Here) /\ InstrOf(play, Here).op \in Summation
  BY <1>1, <1>2 DEF CsumInv, CursorInv
<1>4. NumRes(InstrOf(play, Here).op) = 1
  BY <1>3, ResultCounts DEF Summation, Binary
<1>5. PICK res : res = InstrOf(play, Here).res
  OBVIOUS
<1>6. res \in Address(play) /\ cursor.var_index_ = res /\ play.num_var_rec \in Nat
  BY <1>2, <1>5, Location DEF Located, At
<1>7. rec \in Recorder /\ rec.num_var_rec_ > 0 /\ rec.num_var_rec_ \in Nat
      /\ Len(rec.op_rec_) \in Nat
  BY <1>1, <1>2 DEF RecInv
<1>8. PICK R : R = PutPar(rec, csum_work.sum_par)
  OBVIOUS
<1>9. Extends(rec, R) /\ R \in Recorder /\ HasPar(R, csum_work.sum_par)
  BY <1>7, <1>8, PutParFacts DEF CsumInv, Works, Extends
<1>10. R.num_var_rec_ = rec.num_var_rec_ /\ R.op_rec_ = rec.op_rec_
  BY <1>9 DEF Extends
<1>11. PICK n_add, n_sub, p, s, d :
         /\ n_add = Len(csum_work.add_stack) /\ n_sub = Len(csum_work.sub_stack)
         /\ p = IndexOf(R, csum_work.sum_par)
         /\ s = Popped(csum_work.add_stack) /\ d = Popped(csum_work.sub_stack)
  OBVIOUS
<1>12. n_add \in Nat /\ n_sub \in Nat
  BY <1>11 DEF CsumInv, Works
<1>13. p \in Nat
  <2>1. p \in 0 .. Len(R.par_rec_) - 1
    BY <1>9, <1>11, IndexOfFacts
  <2>2. QED
    BY <2>1
<1>14. s \in Seq(Nat) /\ d \in Seq(Nat)
  BY <1>2, <1>11, PoppedFacts DEF CsumInv, Works
<1>15. PICK words : words = <<n_add, n_sub, p>> \o s \o d \o <<n_add + n_sub>>
  OBVIOUS
<1>16. words \in Seq(Nat)
  BY <1>12, <1>13, <1>14, <1>15
<1>17. PICK code : code = [op |-> "CSum", kind |-> <<>>]
  OBVIOUS
<1>18. code \in OpCodeRec /\ code.op = "CSum"
  BY <1>17, OwnCodes
<1>19. NumRes(code.op) = 1
  BY <1>18, ResultCounts
<1>20. rec' = Put(R, code, words)
  BY <1>8, <1>11, <1>15, <1>17, Zenon DEF SumEnd
<1>21. R.num_var_rec_ + NumRes(code.op) = rec.num_var_rec_ + 1
       /\ R.num_var_rec_ + NumRes(code.op) > 0
  BY <1>7, <1>10, <1>19
<1>22. /\ rec' \in Recorder /\ rec'.num_var_rec_ = rec.num_var_rec_ + 1
       /\ Len(rec'.op_rec_) = Len(rec.op_rec_) + 1
  BY <1>9, <1>10, <1>16, <1>18, <1>20, <1>21, PutFacts
<1>23. /\ rec'.num_var_rec_ \in Nat /\ rec.num_var_rec_ <= rec'.num_var_rec_
       /\ rec'.num_var_rec_ <= rec.num_var_rec_ + NumRes(InstrOf(play, Here).op)
       /\ Len(rec'.op_rec_) \in Nat /\ Len(rec.op_rec_) <= Len(rec'.op_rec_)
       /\ rec.num_var_rec_ < rec'.num_var_rec_
  BY <1>4, <1>7, <1>22
<1>24. PICK m, n : m = rec'.num_var_rec_ - 1 /\ n = Len(rec.op_rec_)
  OBVIOUS
<1>25. m \in 0 .. play.num_var_rec /\ n \in Nat /\ n <= Len(rec'.op_rec_)
  <2>1. rec.num_var_rec_ <= res
    BY <1>1, <1>2, <1>5 DEF FreshInv
  <2>2. m = rec.num_var_rec_
    BY <1>7, <1>22, <1>24
  <2>3. QED
    BY <1>6, <1>7, <1>22, <1>24, <2>1, <2>2 DEF Address
<1>26. PICK w : w = [tape[res] EXCEPT !.new_op = n, !.new_var = m]
  OBVIOUS
<1>27. tape[res] \in Entry(play, Len(cskip_info)) /\ DOMAIN tape = Address(play)
       /\ tape \in Entries(play, Len(cskip_info))
  BY <1>2, <1>6 DEF ConnInv, Entries
<1>28. w \in Entry(play, Len(cskip_info)) /\ Keeps(tape[res], w)
       /\ w.new_var = m /\ w.new_op = n
  BY <1>25, <1>26, <1>27 DEF Entry, Keeps
<1>29. tape' = [tape EXCEPT ![res].new_op = n, ![res].new_var = m]
  BY <1>6, <1>24 DEF SumEnd
<1>30. tape' = [tape EXCEPT ![res] = w]
  BY <1>6, <1>26, <1>27, <1>29
<1>31. Replaced(tape, tape', res, w)
  BY <1>30 DEF Replaced
<1>32. tape'[res] = w
  BY <1>6, <1>27, <1>30
<1>33. Rewrites(Here)
  BY <1>2, <1>5, <1>25, <1>28, <1>31, RewritesOne
<1>34. NewNumber(Here)
  BY <1>1, <1>3, <1>4, <1>5, <1>23, <1>24, <1>28, <1>32 DEF NewNumber, Recorded, Result
<1>35. KeepsAll(Len(cskip_info))
  BY <1>1, <1>2, <1>33 DEF KeepsAll, Rewrites, ConnInv
<1>36. ASSUME NEW a \in Address(play)
       PROVE  tape'[a].new_op <= Len(rec'.op_rec_)
  <2>1. CASE a = res
    BY <1>25, <1>28, <1>32, <2>1
  <2>2. CASE a # res
    <3>1. tape'[a].new_op <= Len(rec.op_rec_) /\ tape'[a].new_op \in Nat
      BY <1>2, <1>5, <1>27, <1>33, <2>2 DEF FreshInv, Entries, Entry, Rewrites
    <3>2. QED
      BY <1>7, <1>23, <3>1
  <2>3. QED
    BY <2>1, <2>2
<1>37. \A a \in Address(play) \ {res} : tape'[a].new_var = tape[a].new_var
  BY <1>5, <1>33 DEF Rewrites
<1>38. cskip_info' \in Seq(Info(play)) /\ cskip_order_next' \in 1 .. Len(cskip_info) + 1
  BY <1>1, <1>2 DEF InfoInv
<1>39. QED
  BY <1>1, <1>2, <1>5, <1>22, <1>23, <1>34, <1>35, <1>36, <1>37, <1>38 DEF Advances

-----------------------------------------------------------------------------
(* Operands of what is needed. *)
LEMMA NewBound ==
  ASSUME Ready, phase # "reverse"
  PROVE  rec.num_var_rec_ <= play.num_var_rec
<1>1. play \in Tapes /\ Here \in Op(play) /\ rec.num_var_rec_ \in Nat
      /\ rec.num_var_rec_ <= InstrOf(play, Here).res + 1
  BY DEF Ready, CursorInv, FreshInv, RecInv
<1>2. InstrOf(play, Here).res \in Address(play) /\ play.num_var_rec \in Nat
  BY <1>1, Location DEF Located
<1>3. QED
  BY <1>1, <1>2 DEF Address

(* The operators whose operands are computed. *)
Reached(i) ==
  /\ \/ i <= Here
     \/ i = Here + 1 /\ phase = "forward"
  /\ \/ InstrOf(play, i).op \in Comparison
     \/ /\ NumRes(InstrOf(play, i).op) > 0
        /\ Result(i).connect_type # "not_connected"

LEMMA OperandReady ==
  ASSUME Ready, phase \in {"forward", "csum"}, NEW i \in Op(play), Reached(i),
         NEW j \in DOMAIN InstrOf(play, i).arg, InstrOf(play, i).kind[j] = "v"
  PROVE  LET a == InstrOf(play, i).arg[j]
         IN  /\ a \in Address(play)
             /\ tape[a].connect_type # "not_connected"
             /\ HasNewVar(a) <=> tape[a].connect_type # "csum_connected"
             /\ tape[a].connect_type = "csum_connected" =>
                  /\ InstrOf(play, i).op \in Summation
                  /\ \E k \in Op(play) : /\ k < i /\ InstrOf(play, k).res = a
                                         /\ InstrOf(play, k).op \in Summation
                                         /\ tape[a].ins = InstrOf(play, k)
<1>1. play \in Tapes /\ ConnInv /\ FreshInv /\ Here \in Op(play) /\ phase # "reverse"
  BY DEF Ready, CursorInv
<1>2. PICK a : a = InstrOf(play, i).arg[j]
  OBVIOUS
<1>3. PICK l \in Op(play) : l \in 0 .. i - 1 /\ a = play.last[l]
  BY <1>1, <1>2, OperandPlace
<1>4. PICK k \in Op(play) : /\ k <= l /\ play.last[k] = a
                            /\ NumRes(play.op_rec_[k].op) > 0
  BY <1>1, <1>3, ResultOf
<1>5. i \in Nat /\ k \in Nat /\ l \in Nat /\ Here \in Nat
  BY <1>1, CodeFacts DEF Op
<1>6. k < i
  BY <1>3, <1>4, <1>5
<1>7. a \in Address(play) /\ InstrOf(play, k).res = a /\ NumRes(InstrOf(play, k).op) > 0
  BY <1>1, <1>4, Location DEF Located
<1>8. Seen(k) /\ Seen(i)
  BY <1>1 DEF Seen
<1>9. SettledEntry(tape[a], InstrOf(play, i))
  <2>1. Settled(tape, InstrOf(play, i), j)
    BY <1>1, <1>8 DEF Reached, ConnInv
  <2>2. QED
    BY <1>2, <2>1 DEF Settled
<1>10. Passed(k)
  BY <1>5, <1>6 DEF Passed, Reached
<1>11. ASSUME tape[a].connect_type # "csum_connected"
       PROVE  HasNewVar(a)
  <2>1. Recorded(k)
    BY <1>7, <1>9, <1>11 DEF Recorded, Result, SettledEntry
  <2>2. QED
    BY <1>1, <1>7, <1>10, <2>1 DEF FreshInv
<1>12. ASSUME tape[a].connect_type = "csum_connected"
       PROVE  ~HasNewVar(a)
  <2>1. tape[a].new_var = play.num_var_rec
    BY <1>1, <1>7, <1>12 DEF FreshInv, Invalid
  <2>2. rec.num_var_rec_ <= play.num_var_rec /\ rec.num_var_rec_ \in Nat
        /\ play.num_var_rec \in Nat
    BY <1>1, NewBound, Ends DEF Ready, RecInv
  <2>3. QED
    BY <2>1, <2>2 DEF HasNewVar
<1>13. ASSUME tape[a].connect_type = "csum_connected"
       PROVE  /\ InstrOf(play, i).op \in Summation
              /\ InstrOf(play, k).op \in Summation
              /\ tape[a].ins = InstrOf(play, k)
  <2>1. InstrOf(play, i).op \in Summation
    BY <1>9, <1>13 DEF SettledEntry
  <2>2. InstrOf(play, k).op \in Summation
    BY <1>1, <1>7, <1>13, NotSum DEF Ready, Result
  <2>3. tape[a].ins = InstrOf(play, k)
    BY <1>1, <1>7, <1>8 DEF ConnInv, Result
  <2>4. QED
    BY <2>1, <2>2, <2>3
<1>14. tape[a].connect_type # "not_connected"
  BY <1>9 DEF SettledEntry
<1>15. HasNewVar(a) <=> tape[a].connect_type # "csum_connected"
  BY <1>11, <1>12
<1>16. tape[a].connect_type = "csum_connected" =>
         /\ InstrOf(play, i).op \in Summation
         /\ \E m \in Op(play) : /\ m < i /\ InstrOf(play, m).res = a
                                /\ InstrOf(play, m).op \in Summation
                                /\ tape[a].ins = InstrOf(play, m)
  BY <1>6, <1>7, <1>13
<1>17. QED
  BY <1>2, <1>7, <1>14, <1>15, <1>16

-----------------------------------------------------------------------------
(* Operators that are identified. *)
LEMMA HasNumber ==
  ASSUME Ready, phase # "reverse", NEW a \in Address(play), HasNewVar(a)
  PROVE  tape[a].new_var # Invalid
<1>1. tape[a].new_var < rec.num_var_rec_
  BY DEF HasNewVar
<1>2. rec.num_var_rec_ <= play.num_var_rec /\ rec.num_var_rec_ \in Nat
  BY NewBound DEF Ready, RecInv
<1>3. play.num_var_rec \in Nat
  BY Ends DEF Ready, CursorInv
<1>4. tape[a].new_var \in 0 .. play.num_var_rec
  BY DEF Ready, ConnInv, Entries, Entry
<1>5. QED
  BY <1>1, <1>2, <1>3, <1>4 DEF Invalid

(* An earlier operator that computes the same, from operands that may be   *)
(* in another order.                                                       *)
Twin(k, i, s) ==
  /\ k \in Op(play) /\ k <= Here
  /\ InstrOf(play, k).op = InstrOf(play, i).op
  /\ InstrOf(play, k).kind = InstrOf(play, i).kind
  /\ InstrOf(play, k).op \in Unary \union Binary
  /\ HasNewVar(InstrOf(play, k).res)
  /\ NewOperands(InstrOf(play, k)) = s

LEMMA CandidateTwin ==
  ASSUME Ready, HashInv, phase = "forward", NEW i \in Op(play),
         NEW s, hash_code(InstrOf(play, i).op, InstrOf(play, i).kind, s) \in HashCode,
         NEW m, m = Candidate(InstrOf(play, i), s), m # 0
  PROVE  \E k \in Op(play) : Twin(k, i, s) /\ m = InstrOf(play, k).res
<1>1. PICK h : h = hash_code(InstrOf(play, i).op, InstrOf(play, i).kind, s)
  OBVIOUS
<1>2. PICK c : c = tape[hash_table_var[h]].ins
  OBVIOUS
<1>3. m = IF /\ c.op = InstrOf(play, i).op /\ c.kind = InstrOf(play, i).kind
             /\ NewOperands(c) = s
            THEN hash_table_var[h] ELSE 0
  BY <1>1, <1>2, Zenon DEF Candidate
<1>4. /\ c.op = InstrOf(play, i).op /\ c.kind = InstrOf(play, i).kind
      /\ NewOperands(c) = s /\ m = hash_table_var[h]
  BY <1>3
<1>5. PICK k \in Op(play) : /\ k <= Here /\ m = InstrOf(play, k).res
                            /\ InstrOf(play, k).op \in Unary \union Binary
                            /\ HasNewVar(m)
  BY <1>1, <1>4 DEF HashInv
<1>6. NumRes(InstrOf(play, k).op) > 0
  BY <1>5, ResultCounts
<1>7. c = InstrOf(play, k)
  BY <1>2, <1>4, <1>5, <1>6 DEF Ready, ConnInv, Seen, Result
<1>8. QED
  BY <1>4, <1>5, <1>7 DEF Twin

(* The operands have the hash codes of the table. *)
LEMMA HashOf ==
  ASSUME Ready, NEW i \in Op(play), InstrOf(play, i).op \in Unary \union Binary
  PROVE  LET ins == InstrOf(play, i)
             s == NewOperands(ins)
         IN  /\ hash_code(ins.op, ins.kind, s) \in HashCode
             /\ Commutes(ins) => hash_code(ins.op, ins.kind, <<s[2], s[1]>>) \in HashCode
<1> DEFINE ins == InstrOf(play, i)
<1>1. play \in Tapes /\ play.num_var_rec \in {t.num_var_rec : t \in Tapes}
  BY DEF Ready, CursorInv
<1>2. PICK n : n = play.num_var_rec
  OBVIOUS
<1>3. PICK s : s = NewOperands(ins)
  OBVIOUS
<1>4. Operated(play, i)
  BY <1>1, Operation
<1>5. ASSUME NEW j \in DOMAIN ins.arg
      PROVE  s[j] \in Num \union 0 .. n
  <2>1. CASE ins.kind[j] = "v"
    <3>1. s[j] = tape[ins.arg[j]].new_var
      BY <1>3, <2>1 DEF NewOperands
    <3>2. ins.arg[j] \in Address(play)
      BY <1>1, <2>1, OperandPlace
    <3>3. QED
      BY <1>2, <3>1, <3>2 DEF Ready, ConnInv, Entries, Entry
  <2>2. CASE ins.kind[j] # "v"
    <3>1. s[j] = play.par_rec_[ins.arg[j] + 1]
      BY <1>3, <2>2 DEF NewOperands
    <3>2. ins.kind[j] = "p"
      BY <1>4, <2>2 DEF Operated
    <3>3. QED
      BY <1>4, <3>1, <3>2 DEF Operated
  <2>3. QED
    BY <2>1, <2>2
<1>6. PICK k \in 1 .. 2 : DOMAIN ins.arg = 1 .. k
  BY <1>4 DEF Operated
<1>7. s \in [1 .. k -> Num \union 0 .. n]
  <2>1. DOMAIN s = 1 .. k /\ s = [j \in DOMAIN s |-> s[j]]
    BY <1>3, <1>6 DEF NewOperands
  <2>2. QED
    BY <1>5, <1>6, <2>1
<1>8. ins.kind \in [1 .. k -> {"v", "p"}]
  <2>1. DOMAIN ins.kind = 1 .. k /\ \A j \in 1 .. k : ins.kind[j] \in {"v", "p"}
    BY <1>4, <1>6 DEF Operated
  <2>2. play.op_rec_[i].kind \in Seq({"v", "p"}) /\ ins.kind = play.op_rec_[i].kind
    BY <1>1, CodeFacts, Location, OpNames DEF Located
  <2>3. ins.kind = [j \in DOMAIN ins.kind |-> ins.kind[j]]
    BY <2>2
  <2>4. QED
    BY <2>1, <2>3
<1>9. ASSUME NEW l \in 1 .. 2, NEW r \in [1 .. l -> Num \union 0 .. n],
             NEW kind \in [1 .. l -> {"v", "p"}]
      PROVE  hash_code(ins.op, kind, r) \in HashCode
  BY <1>1, <1>2, <1>9, HashAssumption
<1>10. hash_code(ins.op, ins.kind, s) \in HashCode
  BY <1>7, <1>8, <1>9
<1>11. ASSUME Commutes(ins)
       PROVE  hash_code(ins.op, ins.kind, <<s[2], s[1]>>) \in HashCode
  <2>1. ins.op \in Binary
    BY <1>11 DEF Commutes, Binary
  <2>2. DOMAIN ins.arg = 1 .. 2
    BY <1>4, <2>1 DEF Operated
  <2>3. k = 2
    <3>1. 2 \in 1 .. k
      BY <1>6, <2>2
    <3>2. QED
      BY <3>1
  <2>4. s[1] \in Num \union 0 .. n /\ s[2] \in Num \union 0 .. n
    BY <1>7, <2>3
  <2>5. PICK r : r = <<s[2], s[1]>>
    OBVIOUS
  <2>6. r \in [1 .. 2 -> Num \union 0 .. n]
    BY <2>4, <2>5
  <2>7. ins.kind \in [1 .. 2 -> {"v", "p"}]
    BY <1>8, <2>3
  <2>8. hash_code(ins.op, ins.kind, r) \in HashCode
    BY <1>9, <2>6, <2>7
  <2>9. QED
    BY <2>5, <2>8
<1>12. QED
  BY <1>3, <1>10, <1>11

(* Operands with the same new address, or the same parameter, are equal.   *)
LEMMA SameOperand ==
  ASSUME Ready, MergedAgree, phase = "forward", NEW y \in Valuations(play),
         NEW i \in Op(play), NEW k \in Op(play),
         NEW l \in DOMAIN InstrOf(play, i).arg, NEW j \in DOMAIN InstrOf(play, k).arg,
         InstrOf(play, k).kind[j] = InstrOf(play, i).kind[l],
         NewOperands(InstrOf(play, k))[j] = NewOperands(InstrOf(play, i))[l],
         InstrOf(play, i).kind[l] = "v" => HasNewVar(InstrOf(play, i).arg[l])
  PROVE  Operands(InstrOf(play, k), y, play.par_rec_)[j]
           = Operands(InstrOf(play, i), y, play.par_rec_)[l]
<1> DEFINE a == InstrOf(play, i).arg[l]
           b == InstrOf(play, k).arg[j]
<1>1. play \in Tapes
  BY DEF Ready, CursorInv
<1>2. CASE InstrOf(play, i).kind[l] = "v"
  <2>1. a \in Address(play) /\ b \in Address(play)
    BY <1>1, <1>2, OperandPlace
  <2>2. tape[b].new_var = tape[a].new_var
    BY <1>2 DEF NewOperands
  <2>3. tape[a].new_var # Invalid
    BY <1>2, <2>1, HasNumber
  <2>4. y[b] = y[a]
    BY <2>1, <2>2, <2>3 DEF MergedAgree
  <2>5. QED
    BY <1>2, <2>4 DEF Operands
<1>3. CASE InstrOf(play, i).kind[l] # "v"
  BY <1>3 DEF NewOperands, Operands
<1>4. QED
  BY <1>2, <1>3

(* The value of an arithmetic operator. *)
LEMMA ValueOf ==
  ASSUME NEW t \in Tapes, NEW y \in Valuations(t), NEW i \in Op(t),
         InstrOf(t, i).op \in Unary \union Binary
  PROVE  y[InstrOf(t, i).res] = Calc(InstrOf(t, i).op, Operands(InstrOf(t, i), y, t.par_rec_))
<1>1. Solves(InstrOf(t, i), y, t.par_rec_)
  BY ValuationsAssumption DEF Op, InstrOf
<1>2. InstrOf(t, i).op \notin {"Begin", "Inv"} /\ NumRes(InstrOf(t, i).op) > 0
  BY OpNames, ResultCounts DEF Binary
<1>3. y[InstrOf(t, i).res] = Value(InstrOf(t, i).op, Operands(InstrOf(t, i), y, t.par_rec_))
  BY <1>1, <1>2 DEF Solves
<1>4. InstrOf(t, i).op # "Par" /\ InstrOf(t, i).op \notin CondExp
  BY OpNames DEF Binary
<1>5. QED
  BY <1>3, <1>4 DEF Value

(* Operands in the same order, and in the other. *)
SameOrder(i, s) == s = NewOperands(InstrOf(play, i))

OtherOrder(i, s) ==
  LET t == NewOperands(InstrOf(play, i))
  IN  Commutes(InstrOf(play, i)) /\ s = <<t[2], t[1]>>

LEMMA TwinAgrees ==
  ASSUME Ready, MergedAgree, phase = "forward", NEW y \in Valuations(play),
         NEW i \in Op(play), NEW k \in Op(play), NEW s, Twin(k, i, s),
         SameOrder(i, s) \/ OtherOrder(i, s),
         \A l \in DOMAIN InstrOf(play, i).arg :
           InstrOf(play, i).kind[l] = "v" => HasNewVar(InstrOf(play, i).arg[l])
  PROVE  y[InstrOf(play, i).res] = y[InstrOf(play, k).res]
<1> DEFINE insi == InstrOf(play, i)
           insk == InstrOf(play, k)
<1>1. play \in Tapes
  BY DEF Ready, CursorInv
<1>2. insk.op = insi.op /\ insk.kind = insi.kind /\ insi.op \in Unary \union Binary
      /\ NewOperands(insk) = s
  BY DEF Twin
<1>3. PICK zi, zk : /\ zi = Operands(insi, y, play.par_rec_)
                    /\ zk = Operands(insk, y, play.par_rec_)
  OBVIOUS
<1>4. y[insi.res] = Calc(insi.op, zi) /\ y[insk.res] = Calc(insi.op, zk)
  BY <1>1, <1>2, <1>3, ValueOf
<1>5. DOMAIN zi = DOMAIN insi.arg /\ DOMAIN zk = DOMAIN insk.arg
      /\ zi = [j \in DOMAIN zi |-> zi[j]] /\ zk = [j \in DOMAIN zk |-> zk[j]]
  BY <1>3 DEF Operands
<1>6. DOMAIN insi.arg = DOMAIN insi.kind /\ DOMAIN insk.arg = DOMAIN insk.kind
  BY <1>1, Operation DEF Operated
<1>7. CASE SameOrder(i, s)
  <2>1. NewOperands(insk) = NewOperands(insi)
    BY <1>2, <1>7 DEF SameOrder
  <2>2. DOMAIN insk.arg = DOMAIN insi.arg
    BY <1>2, <1>6
  <2>3. \A j \in DOMAIN insi.arg : zk[j] = zi[j]
    BY <1>2, <1>3, <2>1, <2>2, SameOperand
  <2>4. zk = zi
    BY <1>5, <2>2, <2>3
  <2>5. QED
    BY <1>4, <2>4
<1>8. CASE OtherOrder(i, s)
  <2>1. PICK t : t = NewOperands(insi)
    OBVIOUS
  <2>2. Commutes(insi) /\ s = <<t[2], t[1]>>
    BY <1>8, <2>1 DEF OtherOrder
  <2>3. insi.op \in {"Add", "Mul"} /\ insi.kind = <<"v", "v">>
    BY <2>2 DEF Commutes
  <2>4. insi.op \in Binary
    BY <2>3 DEF Binary
  <2>5. DOMAIN insi.arg = 1 .. 2 /\ DOMAIN insk.arg = 1 .. 2
    BY <1>1, <1>2, <2>4, Operation DEF Operated
  <2>6. insi.kind[1] = "v" /\ insi.kind[2] = "v"
    BY <2>3
  <2>7. NewOperands(insk)[1] = NewOperands(insi)[2] /\ NewOperands(insk)[2] = NewOperands(insi)[1]
    BY <1>2, <2>1, <2>2
  <2>8. 1 \in DOMAIN insi.arg /\ 2 \in DOMAIN insi.arg
        /\ 1 \in DOMAIN insk.arg /\ 2 \in DOMAIN insk.arg
    BY <2>5
  <2>9. zk[1] = zi[2] /\ zk[2] = zi[1]
    BY <1>2, <1>3, <2>6, <2>7, <2>8, SameOperand
  <2>10. zi = <<zi[1], zi[2]>> /\ zk = <<zk[1], zk[2]>>
    BY <1>5, <2>5
  <2>11. zi[1] \in Num /\ zi[2] \in Num
    <3>1. insi.arg[1] \in Address(play) /\ insi.arg[2] \in Address(play)
      BY <1>1, <2>6, <2>8, OperandPlace
    <3>2. y \in [Address(play) -> Num]
      BY <1>1, ValuationsAssumption
    <3>3. zi[1] = y[insi.arg[1]] /\ zi[2] = y[insi.arg[2]]
      BY <1>3, <2>6, <2>8 DEF Operands
    <3>4. QED
      BY <3>1, <3>2, <3>3
  <2>12. PICK m, n : m = zi[1] /\ n = zi[2]
    OBVIOUS
  <2>13. zi = <<m, n>> /\ zk = <<n, m>> /\ m \in Num /\ n \in Num
    BY <2>9, <2>10, <2>11, <2>12
  <2>14. Calc(insi.op, <<m, n>>) = Calc(insi.op, <<n, m>>)
    BY <2>3, <2>13, CommutesAssumption
  <2>15. QED
    BY <1>4, <2>13, <2>14
<1>9. QED
  BY <1>7, <1>8

(* What matches is the result of an operator that computes the same. *)
LEMMA MatchingTwin ==
  ASSUME Ready, HashInv, phase = "forward", NEW i \in Op(play), ForwardTo(i),
         InstrOf(play, i).op \in Unary \union Binary,
         Kept(InstrOf(play, i)), ~GathersSum(InstrOf(play, i)),
         NEW m, m = Matching(InstrOf(play, i)), m # 0
  PROVE  /\ \A l \in DOMAIN InstrOf(play, i).arg :
              InstrOf(play, i).kind[l] = "v" => HasNewVar(InstrOf(play, i).arg[l])
         /\ \E r : \E k \in Op(play) : /\ Twin(k, i, r) /\ m = InstrOf(play, k).res
                                       /\ (SameOrder(i, r) \/ OtherOrder(i, r))
<1> DEFINE ins == InstrOf(play, i)
<1>1. play \in Tapes /\ i = Here + 1 /\ Here \in Op(play)
  BY DEF Ready, CursorInv, ForwardTo
<1>2. NumRes(ins.op) > 0
  BY ResultCounts
<1>3. Reached(i)
  BY <1>2 DEF Reached, ForwardTo, Kept, Result
<1>4. ASSUME NEW l \in DOMAIN ins.arg, ins.kind[l] = "v"
      PROVE  HasNewVar(ins.arg[l])
  <2>1. /\ HasNewVar(ins.arg[l]) <=> tape[ins.arg[l]].connect_type # "csum_connected"
        /\ tape[ins.arg[l]].connect_type = "csum_connected" => ins.op \in Summation
    BY <1>3, <1>4, OperandReady
  <2>2. ins.op \in Summation => tape[ins.arg[l]].connect_type # "csum_connected"
    BY <1>4 DEF GathersSum
  <2>3. QED
    BY <2>1, <2>2
<1>5. PICK s : s = NewOperands(ins)
  OBVIOUS
<1>6. /\ hash_code(ins.op, ins.kind, s) \in HashCode
      /\ Commutes(ins) => hash_code(ins.op, ins.kind, <<s[2], s[1]>>) \in HashCode
  BY <1>5, HashOf
<1>7. \/ m = Candidate(ins, s)
      \/ Commutes(ins) /\ m = Candidate(ins, <<s[2], s[1]>>)
  BY <1>5 DEF Matching
<1>8. CASE m = Candidate(ins, s)
  <2>1. PICK k \in Op(play) : Twin(k, i, s) /\ m = InstrOf(play, k).res
    BY <1>6, <1>8, CandidateTwin
  <2>2. SameOrder(i, s)
    BY <1>5 DEF SameOrder
  <2>3. QED
    BY <1>4, <2>1, <2>2
<1>9. CASE Commutes(ins) /\ m = Candidate(ins, <<s[2], s[1]>>)
  <2>1. PICK r : r = <<s[2], s[1]>>
    OBVIOUS
  <2>2. m = Candidate(ins, r) /\ hash_code(ins.op, ins.kind, r) \in HashCode
    BY <1>6, <1>9, <2>1
  <2>3. PICK k \in Op(play) : Twin(k, i, r) /\ m = InstrOf(play, k).res
    BY <2>2, CandidateTwin
  <2>4. OtherOrder(i, r)
    BY <1>5, <1>9, <2>1 DEF OtherOrder
  <2>5. QED
    BY <1>4, <2>3, <2>4
<1>10. QED
  BY <1>7, <1>8, <1>9

(* It has a number, and is equal. *)
LEMMA MatchingFacts ==
  ASSUME Ready, HashInv, MergedAgree, phase = "forward", NEW i \in Op(play), ForwardTo(i),
         InstrOf(play, i).op \in Unary \union Binary,
         Kept(InstrOf(play, i)), ~GathersSum(InstrOf(play, i)),
         NEW m, m = Matching(InstrOf(play, i)), m # 0
  PROVE  /\ m \in Address(play) /\ m # InstrOf(play, i).res /\ HasNewVar(m)
         /\ \A y \in Valuations(play) : y[InstrOf(play, i).res] = y[m]
<1> DEFINE ins == InstrOf(play, i)
<1>1. play \in Tapes /\ i = Here + 1 /\ Here \in Op(play) /\ NumRes(ins.op) > 0
  BY ResultCounts DEF Ready, CursorInv, ForwardTo
<1>2. PICK r : \E k \in Op(play) : /\ Twin(k, i, r) /\ m = InstrOf(play, k).res
                                   /\ (SameOrder(i, r) \/ OtherOrder(i, r))
  BY MatchingTwin
<1>3. PICK k \in Op(play) : /\ Twin(k, i, r) /\ m = InstrOf(play, k).res
                            /\ (SameOrder(i, r) \/ OtherOrder(i, r))
  BY <1>2
<1>4. m \in Address(play) /\ HasNewVar(m)
  BY <1>1, <1>3, Location DEF Located, Twin
<1>5. m # ins.res
  <2>1. k < i
    BY <1>1, <1>3, CodeFacts DEF Twin, Op
  <2>2. m < ins.res /\ ins.res \in Nat
    BY <1>1, <1>3, <2>1, ResultPlace, Location DEF Located, Address
  <2>3. QED
    BY <1>4, <2>2 DEF Address
<1>6. \A y \in Valuations(play) : y[ins.res] = y[m]
  BY <1>3, MatchingTwin, TwinAgrees
<1>7. QED
  BY <1>4, <1>5, <1>6

LEMMA MergeAdvances ==
  ASSUME Ready, HashInv, MergedAgree, Merge
  PROVE  \E i \in Op(play) : Advances(i)
<1>1. PICK i \in Op(play) : Moves(i, Unary \union Binary)
  BY ForwardMoves DEF Merge, Arithmetic
<1>2. ForwardTo(i) /\ phase = "forward" /\ phase' = "forward" /\ Current = InstrOf(play, i)
      /\ InstrOf(play, i).op \in Unary \union Binary /\ CursorInv /\ ConnInv
  BY <1>1 DEF Moves, ForwardTo, Merge, Ready
<1>3. Kept(InstrOf(play, i)) /\ ~GathersSum(InstrOf(play, i))
  BY <1>2 DEF Merge, Arithmetic
<1>4. PICK m : m = Matching(InstrOf(play, i))
  OBVIOUS
<1>5. m > 0
  BY <1>2, <1>4 DEF Merge
<1>6. m # 0
  BY <1>5
<1>7. PICK res : res = InstrOf(play, i).res
  OBVIOUS
<1>8. m \in Address(play) /\ m # res /\ HasNewVar(m)
      /\ \A y \in Valuations(play) : y[res] = y[m]
  BY <1>2, <1>3, <1>4, <1>6, <1>7, MatchingFacts
<1>9. NumRes(InstrOf(play, i).op) > 0
  BY <1>2, ResultCounts
<1>10. tape[res].connect_type # "csum_connected"
  <2>1. CASE InstrOf(play, i).op \in Summation
    BY <1>3, <1>7, <2>1 DEF Kept
  <2>2. CASE InstrOf(play, i).op \notin Summation
    BY <1>2, <1>7, <1>9, <2>2, NotSum DEF Result
  <2>3. QED
    BY <2>1, <2>2
<1>11. rec' \in Recorder
       /\ rec'.num_var_rec_ \in Nat /\ rec.num_var_rec_ <= rec'.num_var_rec_
       /\ rec'.num_var_rec_ <= rec.num_var_rec_ + NumRes(InstrOf(play, i).op)
       /\ Len(rec'.op_rec_) \in Nat /\ Len(rec.op_rec_) <= Len(rec'.op_rec_)
  BY <1>2, SkipRecorded DEF Merge
<1>12. cskip_info' \in Seq(Info(play)) /\ Len(cskip_info') = Len(cskip_info)
  BY <1>2, ReservedLength DEF Merge
<1>13. PICK n : n = tape[m].new_var
  OBVIOUS
<1>14. PICK v, w : /\ v = [tape[res] EXCEPT !.match = TRUE, !.new_var = n]
                   /\ w = [tape[m] EXCEPT !.match = TRUE]
  OBVIOUS
<1>15. PICK tq : tq = [tape EXCEPT ![res] = v]
  OBVIOUS
<1>16. res \in Address(play) /\ tape \in Entries(play, Len(cskip_info))
       /\ DOMAIN tape = Address(play)
       /\ tape[res] \in Entry(play, Len(cskip_info)) /\ tape[m] \in Entry(play, Len(cskip_info))
  BY <1>2, <1>7, <1>8, NumberBound DEF ConnInv, Entries
<1>17. v \in Entry(play, Len(cskip_info)) /\ Keeps(tape[res], v) /\ v.new_var = n
       /\ v.new_op = tape[res].new_op
  BY <1>13, <1>14, <1>16 DEF Entry, Keeps
<1>18. w \in Entry(play, Len(cskip_info)) /\ Keeps(tape[m], w)
       /\ w.new_var = tape[m].new_var /\ w.new_op = tape[m].new_op
  BY <1>14, <1>16 DEF Entry, Keeps
<1>19. Replaced(tape, tq, res, v)
  BY <1>15 DEF Replaced
<1>20. tq \in Entries(play, Len(cskip_info)) /\ tq[res] = v
       /\ \A b \in Address(play) : Keeps(tape[b], tq[b]) /\ (b # res => tq[b] = tape[b])
  BY <1>16, <1>17, <1>19, KeepOne
<1>21. tape' = [tape EXCEPT ![res].match = TRUE, ![res].new_var = n, ![m].match = TRUE]
  BY <1>2, <1>4, <1>7, <1>13, Zenon DEF Merge
<1>22. tape' = [tq EXCEPT ![m] = w]
  BY <1>8, <1>14, <1>15, <1>16, <1>21
<1>23. PICK tr : tr = tape'
  OBVIOUS
<1>24. Replaced(tq, tr, m, w)
  BY <1>22, <1>23 DEF Replaced
<1>25. Keeps(tq[m], w)
  BY <1>8, <1>18, <1>20
<1>26. tr \in Entries(play, Len(cskip_info)) /\ tr[m] = w
       /\ \A b \in Address(play) : Keeps(tq[b], tr[b]) /\ (b # m => tr[b] = tq[b])
  BY <1>8, <1>18, <1>20, <1>24, <1>25, KeepOne
<1>27. \A b \in Address(play) : Keeps(tape[b], tr[b])
  BY <1>20, <1>26 DEF Keeps
<1>28. \A b \in Address(play) \ {res} :
         tr[b].new_var = tape[b].new_var /\ tr[b].new_op = tape[b].new_op
  BY <1>18, <1>20, <1>26
<1>29. tr[res] = v
  BY <1>8, <1>16, <1>20, <1>26
<1>30. v.new_op <= Len(rec'.op_rec_)
  <2>1. tape[res].new_op <= Len(rec.op_rec_) /\ tape[res].new_op \in Nat
    BY <1>16 DEF Ready, FreshInv, Entry
  <2>2. Len(rec.op_rec_) \in Nat
    BY DEF Ready, RecInv
  <2>3. QED
    BY <1>11, <1>17, <2>1, <2>2
<1>31. Rewrites(i)
  BY <1>7, <1>23, <1>26, <1>27, <1>28, <1>29, <1>30 DEF Rewrites
<1>32. tape[m].new_var # Invalid
  BY <1>2, <1>8, HasNumber
<1>33. NewNumber(i)
  BY <1>2, <1>7, <1>8, <1>9, <1>10, <1>13, <1>17, <1>23, <1>29, <1>32 DEF NewNumber
<1>34. QED
  BY <1>1, <1>2, <1>11, <1>12, <1>31, <1>33, Advance

-----------------------------------------------------------------------------
(* What the steps of the second pass preserve. *)
LEMMA AdvancePlace ==
  ASSUME Ready, NEW i, Advances(i)
  PROVE  /\ play \in Tapes /\ play' = play /\ i \in Op(play) /\ Here' = i
         /\ phase \in {"forward", "csum"} /\ phase' \in {"forward", "csum", "done"}
         /\ phase = "forward" => ForwardTo(i)
         /\ phase = "csum" => InstrOf(play, i).op \in Summation
<1>1. play \in Tapes /\ play' = play /\ i \in Op(play) /\ phase' \in {"forward", "csum", "done"}
      /\ phase \in {"forward", "csum"}
  BY DEF Ready, CursorInv, Advances
<1>2. Here' = i
  BY DEF Advances, Here, At
<1>3. ASSUME phase = "forward"
      PROVE  ForwardTo(i)
  <2>1. i = Here + 1
    BY <1>3 DEF Advances
  <2>2. PICK k \in Op(play) : ForwardTo(k)
    BY <1>3, ForwardIs DEF Ready
  <2>3. k = i
    BY <2>1, <2>2 DEF ForwardTo
  <2>4. QED
    BY <2>2, <2>3
<1>4. phase = "csum" => InstrOf(play, i).op \in Summation
  BY DEF Advances, Ready, CursorInv
<1>5. QED
  BY <1>1, <1>2, <1>3, <1>4

LEMMA AdvanceConn ==
  ASSUME Ready, NEW i, Advances(i)
  PROVE  ConnInv'
<1>1. CursorInv /\ ConnInv /\ KeepsAll(Len(cskip_info))
  BY DEF Ready, Advances
<1>2. phase # "reverse" /\ phase' # "reverse"
  BY AdvancePlace
<1>3. PICK p : p = phase'
  OBVIOUS
<1>4. QED
  BY <1>1, <1>2, <1>3, KeepConn

(* What has a number keeps having one. *)
LEMMA AdvanceNumbers ==
  ASSUME Ready, NEW i, Advances(i), NEW a \in Address(play)
  PROVE  /\ tape'[a].connect_type = tape[a].connect_type
         /\ tape[a].new_var < rec.num_var_rec_ => tape'[a].new_var < rec'.num_var_rec_
         /\ tape'[a].new_var = tape[a].new_var \/ tape'[a].new_var < rec'.num_var_rec_
<1>1. rec.num_var_rec_ \in Nat /\ rec'.num_var_rec_ \in Nat
      /\ rec.num_var_rec_ <= rec'.num_var_rec_
  BY DEF Advances, Ready, RecInv
<1>2. tape[a].new_var \in Nat
  BY DEF Ready, ConnInv, Entries, Entry
<1>3. tape'[a].connect_type = tape[a].connect_type
  BY DEF Advances, KeepsAll, Keeps
<1>4. CASE tape'[a].new_var = tape[a].new_var
  BY <1>1, <1>2, <1>3, <1>4
<1>5. CASE tape'[a].new_var # tape[a].new_var
  <2>1. a = InstrOf(play, i).res
    BY <1>5 DEF Advances
  <2>2. \/ rec.num_var_rec_ < rec'.num_var_rec_ /\ tape'[a].new_var = rec'.num_var_rec_ - 1
        \/ \E m \in Address(play) : tape[m].new_var # Invalid /\ tape'[a].new_var = tape[m].new_var
    BY <1>5, <2>1 DEF Advances, NewNumber
  <2>3. CASE rec.num_var_rec_ < rec'.num_var_rec_ /\ tape'[a].new_var = rec'.num_var_rec_ - 1
    BY <1>1, <1>3, <2>3
  <2>4. ASSUME NEW m \in Address(play), tape[m].new_var # Invalid,
               tape'[a].new_var = tape[m].new_var
        PROVE  tape'[a].new_var < rec'.num_var_rec_
    <3>1. tape[m].new_var < rec.num_var_rec_
      BY <2>4 DEF Ready, FreshInv, HasNewVar
    <3>2. tape[m].new_var \in Nat
      BY DEF Ready, ConnInv, Entries, Entry
    <3>3. QED
      BY <1>1, <2>4, <3>1, <3>2
  <2>5. QED
    BY <1>3, <2>2, <2>3, <2>4
<1>6. QED
  BY <1>4, <1>5

LEMMA AdvanceBound ==
  ASSUME Ready, NEW i, Advances(i)
  PROVE  /\ phase' = "csum" => rec'.num_var_rec_ <= InstrOf(play, i).res
         /\ rec'.num_var_rec_ <= InstrOf(play, i).res + 1
<1>1. PICK m \in Nat, n \in Nat, k \in 0 .. 2, r \in Nat :
        /\ m = rec.num_var_rec_ /\ n = rec'.num_var_rec_
        /\ k = NumRes(InstrOf(play, i).op) /\ r = InstrOf(play, i).res
  <2>1. rec.num_var_rec_ \in Nat /\ rec'.num_var_rec_ \in Nat
    BY DEF Ready, RecInv, Advances
  <2>2. NumRes(InstrOf(play, i).op) \in 0 .. 2
    BY ResultCounts
  <2>3. InstrOf(play, i).res \in Nat
    BY AdvancePlace, Location DEF Located, Address
  <2>4. QED
    BY <2>1, <2>2, <2>3
<1>2. n <= m + k /\ (phase' = "csum" => n = m)
  BY <1>1 DEF Advances
<1>3. CASE phase = "forward"
  <2>1. m + k <= r + 1
    BY <1>1, <1>3, AdvancePlace, NumberBound
  <2>2. phase' = "csum" => k = 1
    BY <1>1, ResultCounts DEF Advances, Summation, Binary
  <2>3. QED
    BY <1>1, <1>2, <2>1, <2>2
<1>4. CASE phase = "csum"
  <2>1. phase' = "forward" /\ i = Here
    BY <1>4 DEF Advances
  <2>2. m <= r
    BY <1>1, <1>4, <2>1 DEF Ready, FreshInv
  <2>3. k = 1
    BY <1>1, <1>4, AdvancePlace, ResultCounts DEF Summation, Binary
  <2>4. QED
    BY <1>1, <1>2, <2>1, <2>2, <2>3
<1>5. QED
  BY <1>3, <1>4, AdvancePlace

LEMMA AdvancePassed ==
  ASSUME Ready, NEW i, Advances(i), NEW k \in Op(play), Passed(k)', Recorded(k)
  PROVE  tape'[InstrOf(play, k).res].new_var < rec'.num_var_rec_
<1>1. play \in Tapes /\ play' = play /\ i \in Op(play) /\ Here' = i
      /\ Here \in Op(play) /\ FreshInv /\ phase # "reverse"
  BY AdvancePlace DEF Ready, CursorInv
<1>2. i \in Nat /\ k \in Nat /\ Here \in Nat
  BY <1>1, CodeFacts DEF Op
<1>3. InstrOf(play, k).res \in Address(play) /\ InstrOf(play, i).res \in Address(play)
  BY <1>1, Location DEF Located
<1>4. k <= i
  <2>1. CASE phase' = "done"
    <3>1. i = play.num_op_rec - 1
      BY <1>1, <2>1, Location DEF Advances, Located
    <3>2. QED
      BY <1>1, <3>1, CodeFacts DEF Op
  <2>2. CASE phase' # "done"
    BY <1>1, <1>2, <2>2 DEF Passed
  <2>3. QED
    BY <2>1, <2>2
<1>5. CASE k < i
  <2>1. Passed(k)
    BY <1>2, <1>5 DEF Advances, Passed
  <2>2. HasNewVar(InstrOf(play, k).res)
    BY <1>1, <2>1 DEF FreshInv
  <2>3. QED
    BY <1>3, <2>2, AdvanceNumbers DEF HasNewVar
<1>6. CASE k = i
  <2>1. NumRes(InstrOf(play, i).op) > 0
    BY <1>6 DEF Recorded
  <2>2. phase' # "done"
    <3>1. NumRes("End") = 0
      BY ResultCounts
    <3>2. QED
      BY <2>1, <3>1 DEF Advances
  <2>3. phase' = "forward"
    BY <1>1, <1>2, <1>6, <2>2 DEF Passed
  <2>4. PICK res : res = InstrOf(play, i).res
    OBVIOUS
  <2>5. \/ rec.num_var_rec_ < rec'.num_var_rec_ /\ tape'[res].new_var = rec'.num_var_rec_ - 1
        \/ \E m \in Address(play) : tape[m].new_var # Invalid /\ tape'[res].new_var = tape[m].new_var
    BY <1>6, <2>3, <2>4 DEF Advances, NewNumber
  <2>6. rec.num_var_rec_ \in Nat /\ rec'.num_var_rec_ \in Nat
        /\ rec.num_var_rec_ <= rec'.num_var_rec_
    BY DEF Advances, Ready, RecInv
  <2>7. ASSUME NEW m \in Address(play), tape[m].new_var # Invalid,
               tape'[res].new_var = tape[m].new_var
        PROVE  tape'[res].new_var < rec'.num_var_rec_
    <3>1. tape[m].new_var < rec.num_var_rec_
      BY <2>7 DEF Ready, FreshInv, HasNewVar
    <3>2. tape[m].new_var \in Nat
      BY DEF Ready, ConnInv, Entries, Entry
    <3>3. QED
      BY <2>6, <2>7, <3>1, <3>2
  <2>8. tape'[res].new_var < rec'.num_var_rec_
    BY <2>5, <2>6, <2>7
  <2>9. QED
    BY <1>6, <2>4, <2>8
<1>7. QED
  BY <1>2, <1>4, <1>5, <1>6

LEMMA AdvanceFresh ==
  ASSUME Ready, NEW i, Advances(i)
  PROVE  FreshInv'
<1>1. play \in Tapes /\ play' = play /\ i \in Op(play) /\ Here' = i
      /\ phase' \in {"forward", "csum", "done"} /\ FreshInv
  BY AdvancePlace DEF Ready
<1>2. Invalid' = Invalid
  BY <1>1 DEF Invalid
<1>3. ASSUME NEW a \in Address(play)
      PROVE  tape'[a].new_var = Invalid \/ tape'[a].new_var < rec'.num_var_rec_
  <2>1. tape[a].new_var = Invalid \/ tape[a].new_var < rec.num_var_rec_
    BY <1>1 DEF FreshInv, HasNewVar
  <2>2. QED
    BY <2>1, AdvanceNumbers
<1>4. \A a \in Address(play) : tape'[a].new_op <= Len(rec'.op_rec_)
  BY DEF Advances
<1>5. ASSUME NEW a \in Address(play), tape'[a].connect_type = "csum_connected"
      PROVE  tape'[a].new_var = Invalid
  <2>1. tape[a].connect_type = "csum_connected"
    BY <1>5, AdvanceNumbers
  <2>2. tape[a].new_var = Invalid
    BY <1>1, <2>1 DEF FreshInv
  <2>3. tape'[a].new_var = tape[a].new_var
    BY <2>1 DEF Advances, NewNumber
  <2>4. QED
    BY <2>2, <2>3
<1>6. ASSUME NEW k \in Op(play), Passed(k)', Recorded(k)'
      PROVE  tape'[InstrOf(play, k).res].new_var < rec'.num_var_rec_
  <2>1. InstrOf(play, k).res \in Address(play)
    BY <1>1, Location DEF Located
  <2>2. tape'[InstrOf(play, k).res].connect_type = tape[InstrOf(play, k).res].connect_type
    BY <2>1, AdvanceNumbers
  <2>3. Recorded(k)
    BY <1>1, <1>6, <2>2 DEF Recorded, Result
  <2>4. QED
    BY <1>6, <2>3, AdvancePassed
<1>7. /\ phase' = "csum" => rec'.num_var_rec_ <= InstrOf(play, i).res
      /\ rec'.num_var_rec_ <= InstrOf(play, i).res + 1
  BY AdvanceBound
<1>8. QED
  BY <1>1, <1>2, <1>3, <1>4, <1>5, <1>6, <1>7 DEF FreshInv, HasNewVar

LEMMA AdvanceRec ==
  ASSUME Ready, NEW i, Advances(i)
  PROVE  RecInv' /\ InfoInv'
<1>1. play' = play /\ phase \in {"forward", "csum"} /\ phase' \in {"forward", "csum", "done"}
  BY AdvancePlace
<1>2. rec.num_var_rec_ > 0 /\ rec.num_var_rec_ \in Nat
  BY <1>1 DEF Ready, RecInv
<1>3. rec'.num_var_rec_ > 0
  BY <1>2 DEF Advances
<1>4. RecInv'
  BY <1>1, <1>3 DEF RecInv, Advances
<1>5. Len(cskip_info') = Len(cskip_info) /\ cskip_info' \in Seq(Info(play))
      /\ cskip_info_order' = cskip_info_order /\ cskip_order_next' \in 1 .. Len(cskip_info) + 1
  BY DEF Advances, KeepsAll
<1>6. cskip_info_order \in [1 .. Len(cskip_info) -> 1 .. Len(cskip_info)]
  BY <1>1 DEF Ready, InfoInv
<1>7. InfoInv'
  BY <1>1, <1>5, <1>6 DEF InfoInv
<1>8. QED
  BY <1>4, <1>7

LEMMA AdvanceAgree ==
  ASSUME Ready, MergedAgree, NEW i, Advances(i)
  PROVE  MergedAgree'
<1>1. play' = play /\ Invalid' = Invalid
  BY AdvancePlace DEF Invalid
<1>2. PICK res : res = InstrOf(play, i).res
  OBVIOUS
<1>3. \A a \in Address(play) \ {res} : tape'[a].new_var = tape[a].new_var
  BY <1>2 DEF Advances
<1>4. res \in Address(play)
  BY <1>2, AdvancePlace, Location DEF Located
<1>5. ASSUME NEW y \in Valuations(play), NEW b \in Address(play), b # res,
             tape'[res].new_var = tape[b].new_var, tape[b].new_var # Invalid
      PROVE  y[res] = y[b]
  <2>1. CASE tape'[res].new_var = tape[res].new_var
    BY <1>4, <1>5, <2>1 DEF MergedAgree
  <2>2. CASE rec.num_var_rec_ < rec'.num_var_rec_ /\ tape'[res].new_var = rec'.num_var_rec_ - 1
    <3>1. tape[b].new_var < rec.num_var_rec_ /\ tape[b].new_var \in Nat
      BY <1>5 DEF Ready, FreshInv, HasNewVar, ConnInv, Entries, Entry
    <3>2. rec.num_var_rec_ \in Nat /\ rec'.num_var_rec_ \in Nat
      BY DEF Ready, RecInv, Advances
    <3>3. QED
      BY <1>5, <2>2, <3>1, <3>2
  <2>3. ASSUME NEW m \in Address(play), tape[m].new_var # Invalid,
               tape'[res].new_var = tape[m].new_var, \A z \in Valuations(play) : z[res] = z[m]
        PROVE  y[res] = y[b]
    <3>1. y[m] = y[b]
      BY <1>5, <2>3 DEF MergedAgree
    <3>2. QED
      BY <2>3, <3>1
  <2>4. QED
    BY <1>2, <2>1, <2>2, <2>3 DEF Advances, NewNumber
<1>6. ASSUME NEW y \in Valuations(play), NEW a \in Address(play), NEW b \in Address(play),
             tape'[a].new_var = tape'[b].new_var, tape'[a].new_var # Invalid
      PROVE  y[a] = y[b]
  <2>1. CASE a = b
    BY <2>1
  <2>2. CASE a = res /\ b # res
    BY <1>3, <1>5, <1>6, <2>2
  <2>3. CASE a # res /\ b = res
    BY <1>3, <1>5, <1>6, <2>3
  <2>4. CASE a # res /\ b # res
    BY <1>3, <1>6, <2>4 DEF MergedAgree
  <2>5. QED
    BY <2>1, <2>2, <2>3, <2>4
<1>7. QED
  BY <1>1, <1>6 DEF MergedAgree

(* The table and the dependent variables. *)
LEMMA KeepHash ==
  ASSUME Ready, HashInv, NEW i, Advances(i), hash_table_var' = hash_table_var
  PROVE  HashInv'
<1>1. play \in Tapes /\ play' = play /\ i \in Op(play) /\ Here' = i /\ phase # "reverse"
      /\ phase' # "reverse" /\ Here \in Op(play)
  BY AdvancePlace DEF Ready, CursorInv
<1>2. Here <= i
  BY <1>1, CodeFacts DEF Advances, Op
<1>3. ASSUME NEW h \in HashCode, hash_table_var[h] # 0
      PROVE  \E k \in Op(play) : /\ k <= i /\ hash_table_var[h] = InstrOf(play, k).res
                                 /\ InstrOf(play, k).op \in Unary \union Binary
                                 /\ tape'[hash_table_var[h]].new_var < rec'.num_var_rec_
  <2>1. PICK k \in Op(play) : /\ k <= Here /\ hash_table_var[h] = InstrOf(play, k).res
                              /\ InstrOf(play, k).op \in Unary \union Binary
                              /\ HasNewVar(hash_table_var[h])
    BY <1>3 DEF HashInv
  <2>2. k <= i
    BY <1>1, <1>2, <2>1 DEF Op
  <2>3. InstrOf(play, k).res \in Address(play)
    BY <1>1, Location DEF Located
  <2>4. tape'[hash_table_var[h]].new_var < rec'.num_var_rec_
    BY <2>1, <2>3, AdvanceNumbers DEF HasNewVar
  <2>5. QED
    BY <2>1, <2>2, <2>4
<1>4. hash_table_var' \in [HashCode -> Address(play')]
  BY <1>1 DEF HashInv
<1>5. \A h \in HashCode : hash_table_var'[h] = 0 \/
       \E k \in Op(play') : /\ phase' # "reverse" /\ k <= Here'
                            /\ hash_table_var'[h] = InstrOf(play', k).res
                            /\ InstrOf(play', k).op \in Unary \union Binary
                            /\ HasNewVar(hash_table_var[h])'
  BY <1>1, <1>3 DEF HasNewVar
<1>6. QED
  BY <1>4, <1>5 DEF HashInv, HasNewVar

LEMMA RecordHash ==
  ASSUME Ready, HashInv, RecordArithmetic
  PROVE  HashInv'
<1>1. PICK i \in Op(play) : Advances(i) /\ ForwardTo(i)
  BY RecordArithmeticAdvances
<1>2. play \in Tapes /\ play' = play /\ Here' = i /\ phase' = "forward"
      /\ Here \in Op(play) /\ i = Here + 1 /\ Current = InstrOf(play, i) /\ phase = "forward"
  BY <1>1, AdvancePlace DEF Ready, CursorInv, ForwardTo, RecordArithmetic
<1>3. Here <= i
  BY <1>2, CodeFacts DEF Op
<1>4. PICK res : res = InstrOf(play, i).res
  OBVIOUS
<1>5. InstrOf(play, i).op \in Unary \union Binary /\ Kept(InstrOf(play, i))
  BY <1>2 DEF RecordArithmetic, Arithmetic, Forward
<1>6. NumRes(InstrOf(play, i).op) > 0
  BY <1>5, ResultCounts
<1>7. res \in Address(play)
  BY <1>2, <1>4, Location DEF Located
<1>8. tape'[res].new_var < rec'.num_var_rec_
  <2>1. tape[res].connect_type # "csum_connected"
    <3>1. CASE InstrOf(play, i).op \in Summation
      BY <1>4, <1>5, <3>1 DEF Kept
    <3>2. CASE InstrOf(play, i).op \notin Summation
      BY <1>4, <1>6, <3>2, NotSum DEF Result, Ready
    <3>3. QED
      BY <3>1, <3>2
  <2>2. Recorded(i)
    BY <1>4, <1>5, <1>6, <2>1 DEF Recorded, Result, Kept
  <2>3. Passed(i)'
    BY <1>2 DEF Passed
  <2>4. QED
    BY <1>1, <1>4, <2>2, <2>3, AdvancePassed
<1>9. PICK code : code = hash_code(Current.op, Current.kind, NewOperands(Current))
  OBVIOUS
<1>10. hash_table_var' = [hash_table_var EXCEPT ![code] = res]
  BY <1>2, <1>4, <1>9 DEF RecordArithmetic
<1>11. hash_table_var \in [HashCode -> Address(play)]
  BY DEF HashInv
<1>12. ASSUME NEW h \in HashCode, hash_table_var'[h] # 0
       PROVE  \E k \in Op(play) : /\ k <= i /\ hash_table_var'[h] = InstrOf(play, k).res
                                  /\ InstrOf(play, k).op \in Unary \union Binary
                                  /\ tape'[hash_table_var'[h]].new_var < rec'.num_var_rec_
  <2>1. CASE hash_table_var'[h] = res
    BY <1>2, <1>4, <1>5, <1>8, <2>1, CodeFacts DEF Op
  <2>2. CASE hash_table_var'[h] # res
    <3>1. hash_table_var'[h] = hash_table_var[h]
      BY <1>10, <1>11, <2>2
    <3>2. PICK k \in Op(play) : /\ k <= Here /\ hash_table_var[h] = InstrOf(play, k).res
                                /\ InstrOf(play, k).op \in Unary \union Binary
                                /\ HasNewVar(hash_table_var[h])
      BY <1>12, <3>1 DEF HashInv
    <3>3. k <= i
      BY <1>2, <1>3, <3>2 DEF Op
    <3>4. InstrOf(play, k).res \in Address(play)
      BY <1>2, Location DEF Located
    <3>5. tape'[hash_table_var[h]].new_var < rec'.num_var_rec_
      BY <1>1, <3>2, <3>4, AdvanceNumbers DEF HasNewVar
    <3>6. QED
      BY <3>1, <3>2, <3>3, <3>5
  <2>3. QED
    BY <2>1, <2>2
<1>13. hash_table_var' \in [HashCode -> Address(play')]
  BY <1>2, <1>7, <1>10, <1>11
<1>14. QED
  BY <1>2, <1>12, <1>13 DEF HashInv, HasNewVar

LEMMA FinishDep ==
  ASSUME Ready, DepInv, Finish
  PROVE  DepInv'
<1>1. PICK i \in Op(play) : Advances(i) /\ ForwardTo(i)
  BY FinishAdvances
<1>2. play \in Tapes /\ play' = play /\ phase = "forward" /\ phase' = "done"
      /\ i = Here + 1 /\ Here \in Op(play) /\ ConnInv /\ FreshInv
  BY <1>1, AdvancePlace DEF Ready, CursorInv, ForwardTo, Finish
<1>3. i = play.num_op_rec - 1
  BY <1>1, <1>2, Location DEF Located, Advances
<1>4. dep_taddr = play.dep_taddr_ /\ play.dep_taddr_ \in Seq(1 .. play.num_var_rec - 1)
  BY <1>2, TapesAssumption DEF DepInv, WellFormed, Vectors
<1>5. PICK n \in Nat : n = Len(dep_taddr) /\ DOMAIN dep_taddr = 1 .. n
  BY <1>4
<1>6. PICK s : s = dep_taddr'
  OBVIOUS
<1>7. s = [k \in 1 .. n |-> tape[dep_taddr[k]].new_var]
  BY <1>5, <1>6 DEF Finish
<1>8. ASSUME NEW k \in 1 .. n
      PROVE  s[k] \in Address(play)
  <2>1. PICK a : a = dep_taddr[k]
    OBVIOUS
  <2>2. a \in Address(play) /\ tape[a].connect_type = "yes_connected"
    BY <1>2, <1>4, <1>5, <2>1 DEF ConnInv
  <2>3. PICK l \in Op(play) : InstrOf(play, l).res = a
    BY <1>2, <2>2 DEF ConnInv
  <2>4. play.last[l] = a
    BY <1>2, <2>3, Location DEF Located
  <2>5. PICK m \in Op(play) : play.last[m] = a /\ NumRes(play.op_rec_[m].op) > 0
    BY <1>2, <2>4, ResultOf
  <2>6. InstrOf(play, m).res = a /\ NumRes(InstrOf(play, m).op) > 0
    BY <1>2, <2>5, Location DEF Located
  <2>7. m # i
    <3>1. NumRes("End") = 0
      BY ResultCounts
    <3>2. QED
      BY <1>1, <1>2, <2>6, <3>1 DEF Advances
  <2>8. m <= Here
    BY <1>2, <1>3, <2>7, CodeFacts DEF Op
  <2>9. Passed(m)
    BY <1>2, <2>8, CodeFacts DEF Passed, Op
  <2>10. Recorded(m)
    BY <2>2, <2>6 DEF Recorded, Result
  <2>11. HasNewVar(a)
    BY <1>2, <2>6, <2>9, <2>10 DEF FreshInv
  <2>12. tape[a].new_var # Invalid
    BY <1>2, <2>2, <2>11, HasNumber
  <2>13. tape[a].new_var \in 0 .. play.num_var_rec
    BY <1>2, <2>2 DEF ConnInv, Entries, Entry
  <2>14. play.num_var_rec \in Nat
    BY <1>2, Ends
  <2>15. tape[a].new_var \in Address(play)
    BY <2>12, <2>13, <2>14 DEF Invalid, Address
  <2>16. QED
    BY <1>7, <2>1, <2>15
<1>9. s \in [1 .. n -> Address(play)]
  BY <1>7, <1>8
<1>10. s \in Seq(Address(play))
  BY <1>9
<1>11. QED
  BY <1>2, <1>6, <1>10 DEF DepInv

-----------------------------------------------------------------------------
(* The sums that are gathered. *)
LEMMA NoCsum ==
  ASSUME CsumInv, phase' # "csum", play' = play,
         \/ csum_work' = NoWork
         \/ phase # "csum" /\ csum_work' = csum_work
  PROVE  CsumInv'
<1>1. csum_work' = NoWork
  BY DEF CsumInv
<1>2. Works' = Works
  BY DEF Works, SumEntries
<1>3. NoWork \in Works
  BY NumAssumption DEF NoWork, Works
<1>4. QED
  BY <1>1, <1>2, <1>3 DEF CsumInv

LEMMA StartCsum ==
  ASSUME Ready, CsumInv, StartSum
  PROVE  CsumInv'
<1>1. PICK i \in Op(play) : Advances(i) /\ ForwardTo(i)
  BY StartSumAdvances
<1>2. play \in Tapes /\ play' = play /\ Here' = i /\ phase' = "csum" /\ phase = "forward"
      /\ Current = InstrOf(play, i)
  BY <1>1, AdvancePlace DEF ForwardTo, StartSum
<1>3. Recorded(i) /\ InstrOf(play, i).op \in Summation
  BY <1>1, <1>2 DEF Advances
<1>4. InstrOf(play, i).res \in Address(play)
  BY <1>2, Location DEF Located
<1>5. tape'[InstrOf(play, i).res].connect_type = tape[InstrOf(play, i).res].connect_type
  BY <1>1, <1>4, AdvanceNumbers
<1>6. Recorded(Here)'
  BY <1>2, <1>3, <1>5 DEF Recorded, Result
<1>7. csum_work = NoWork
  BY <1>2 DEF CsumInv
<1>8. PICK e, stack : e = [ins |-> InstrOf(play, i), add |-> TRUE] /\ stack = <<e>>
  OBVIOUS
<1>9. csum_work' = [NoWork EXCEPT !.op_stack = stack]
  BY <1>2, <1>7, <1>8 DEF StartSum
<1>10. csum_work' = [op_stack |-> stack, add_stack |-> <<>>, sub_stack |-> <<>>,
                     sum_par |-> Zero]
  BY <1>9 DEF NoWork
<1>11. e \in SumEntries /\ e.ins = InstrOf(play, i)
  BY <1>8 DEF SumEntries
<1>12. stack \in Seq(SumEntries) /\ DOMAIN stack = {1} /\ stack[1] = e
  BY <1>8, <1>11
<1>13. Gathering(e)'
  <2>1. tape'[InstrOf(play, i).res].connect_type # "not_connected"
    BY <1>3, <1>5 DEF Recorded, Result
  <2>2. i <= i
    BY <1>2, CodeFacts DEF Op
  <2>3. QED
    BY <1>2, <1>3, <1>11, <2>1, <2>2 DEF Gathering, Result
<1>14. \A k \in DOMAIN stack : Gathering(stack[k])'
  BY <1>12, <1>13
<1>15. Works' = Works
  BY <1>2 DEF Works, SumEntries
<1>16. csum_work' \in Works
  <2>1. <<>> \in Seq(Address(play))
    OBVIOUS
  <2>2. QED
    BY <1>10, <1>12, <2>1, NumAssumption DEF Works
<1>17. Worked(csum_work)'
  <2>1. /\ csum_work'.op_stack = stack /\ csum_work'.add_stack = <<>>
        /\ csum_work'.sub_stack = <<>> /\ DOMAIN <<>> = {}
    BY <1>10
  <2>2. \A k \in DOMAIN csum_work'.op_stack : Gathering(csum_work.op_stack[k])'
    BY <1>14, <2>1 DEF Gathering
  <2>3. QED
    BY <1>15, <1>16, <2>1, <2>2 DEF Worked
<1>18. QED
  BY <1>2, <1>6, <1>15, <1>16, <1>17 DEF CsumInv

LEMMA SumOperandWorked ==
  ASSUME Ready, phase = "csum", NEW work, Worked(work), NEW i \in Op(play), i <= Here,
         InstrOf(play, i).op \in Summation, Result(i).connect_type # "not_connected",
         NEW j \in 1 .. 2, NEW add \in BOOLEAN
  PROVE  Worked(SumOperand(work, InstrOf(play, i), j, add))
<1> DEFINE ins == InstrOf(play, i)
<1>1. play \in Tapes
  BY DEF Ready, CursorInv
<1>2. PICK a : a = ins.arg[j]
  OBVIOUS
<1>3. ins.op \in Binary /\ NumRes(ins.op) > 0
  BY ResultCounts DEF Summation, Binary
<1>4. j \in DOMAIN ins.arg /\ ins.kind[j] \in {"v", "p"}
  BY <1>1, <1>3, Operation DEF Operated
<1>5. work \in Works
  BY DEF Worked
<1>6. PICK next : next = SumOperand(work, ins, j, add)
  OBVIOUS
<1>7. CASE ins.kind[j] = "p"
  <2>1. play.par_rec_[a + 1] \in Num
    BY <1>1, <1>2, <1>4, <1>7, Operation DEF Operated
  <2>2. PICK m : m = IF add THEN work.sum_par ++ play.par_rec_[a + 1]
                            ELSE work.sum_par -- play.par_rec_[a + 1]
    OBVIOUS
  <2>3. m \in Num
    <3>1. work.sum_par \in Num
      BY <1>5 DEF Works
    <3>2. "Add" \in Binary /\ "Sub" \in Binary
      BY DEF Binary
    <3>3. work.sum_par ++ play.par_rec_[a + 1] \in Num
          /\ work.sum_par -- play.par_rec_[a + 1] \in Num
      BY <2>1, <3>1, <3>2, CalcAssumption DEF ++, --
    <3>4. QED
      BY <2>2, <3>3
  <2>4. next = [work EXCEPT !.sum_par = m]
    BY <1>2, <1>6, <1>7, <2>2 DEF SumOperand
  <2>5. /\ next \in Works /\ next.add_stack = work.add_stack
        /\ next.sub_stack = work.sub_stack /\ next.op_stack = work.op_stack
    BY <1>5, <2>3, <2>4 DEF Works
  <2>6. QED
    BY <1>6, <2>5 DEF Worked
<1>8. CASE ins.kind[j] = "v"
  <2>1. Reached(i)
    BY <1>3 DEF Reached
  <2>2. /\ a \in Address(play)
        /\ HasNewVar(a) <=> tape[a].connect_type # "csum_connected"
        /\ tape[a].connect_type = "csum_connected" =>
             \E k \in Op(play) : /\ k < i /\ InstrOf(play, k).res = a
                                 /\ InstrOf(play, k).op \in Summation
                                 /\ tape[a].ins = InstrOf(play, k)
    BY <1>2, <1>4, <1>8, <2>1, OperandReady
  <2>7. a # 0
    BY <1>1, <1>2, <1>4, <1>8, OperandPlace
  <2>3. CASE tape[a].connect_type = "csum_connected"
    <3>1. PICK k \in Op(play) : /\ k < i /\ InstrOf(play, k).res = a
                                /\ InstrOf(play, k).op \in Summation
                                /\ tape[a].ins = InstrOf(play, k)
      BY <2>2, <2>3
    <3>2. k <= Here
      BY <1>1, <3>1, CodeFacts DEF Op, Ready, CursorInv
    <3>3. PICK e : e = [ins |-> tape[a].ins, add |-> add]
      OBVIOUS
    <3>4. e \in SumEntries /\ e.ins = InstrOf(play, k)
      BY <3>1, <3>3 DEF SumEntries
    <3>5. Gathering(e)
      BY <2>3, <3>1, <3>2, <3>4 DEF Gathering, Result
    <3>6. PICK stack : stack = Append(work.op_stack, e)
      OBVIOUS
    <3>7. work.op_stack \in Seq(SumEntries)
      BY <1>5 DEF Works
    <3>8. stack \in Seq(SumEntries)
          /\ \A l \in DOMAIN stack : stack[l] = e
               \/ (l \in DOMAIN work.op_stack /\ stack[l] = work.op_stack[l])
      BY <3>4, <3>6, <3>7, AppendAll
    <3>9. next = [work EXCEPT !.op_stack = stack]
      BY <1>2, <1>6, <1>8, <2>3, <3>3, <3>6 DEF SumOperand
    <3>10. /\ next \in Works /\ next.add_stack = work.add_stack
           /\ next.sub_stack = work.sub_stack /\ next.op_stack = stack
      BY <1>5, <3>8, <3>9 DEF Works
    <3>11. \A l \in DOMAIN stack : Gathering(stack[l])
      BY <3>5, <3>8 DEF Worked
    <3>12. QED
      BY <1>6, <3>10, <3>11 DEF Worked
  <2>4. CASE tape[a].connect_type # "csum_connected" /\ add
    <3>1. PICK stack : stack = Append(work.add_stack, a)
      OBVIOUS
    <3>2. work.add_stack \in Seq(Address(play))
      BY <1>5 DEF Works
    <3>3. stack \in Seq(Address(play))
          /\ \A l \in DOMAIN stack : stack[l] = a
               \/ (l \in DOMAIN work.add_stack /\ stack[l] = work.add_stack[l])
      BY <2>2, <3>1, <3>2, AppendAll
    <3>4. next = [work EXCEPT !.add_stack = stack]
      BY <1>2, <1>6, <1>8, <2>4, <3>1 DEF SumOperand
    <3>5. /\ next \in Works /\ next.add_stack = stack
          /\ next.sub_stack = work.sub_stack /\ next.op_stack = work.op_stack
      BY <1>5, <3>3, <3>4 DEF Works
    <3>6. \A l \in DOMAIN stack : HasNewVar(stack[l]) /\ stack[l] # 0
      BY <2>2, <2>4, <2>7, <3>3 DEF Worked
    <3>7. QED
      BY <1>6, <3>5, <3>6 DEF Worked
  <2>5. CASE tape[a].connect_type # "csum_connected" /\ ~add
    <3>1. PICK stack : stack = Append(work.sub_stack, a)
      OBVIOUS
    <3>2. work.sub_stack \in Seq(Address(play))
      BY <1>5 DEF Works
    <3>3. stack \in Seq(Address(play))
          /\ \A l \in DOMAIN stack : stack[l] = a
               \/ (l \in DOMAIN work.sub_stack /\ stack[l] = work.sub_stack[l])
      BY <2>2, <3>1, <3>2, AppendAll
    <3>4. next = [work EXCEPT !.sub_stack = stack]
      BY <1>2, <1>6, <1>8, <2>5, <3>1 DEF SumOperand
    <3>5. /\ next \in Works /\ next.add_stack = work.add_stack
          /\ next.sub_stack = stack /\ next.op_stack = work.op_stack
      BY <1>5, <3>3, <3>4 DEF Works
    <3>6. \A l \in DOMAIN stack : HasNewVar(stack[l]) /\ stack[l] # 0
      BY <2>2, <2>5, <2>7, <3>3 DEF Worked
    <3>7. QED
      BY <1>6, <3>5, <3>6 DEF Worked
  <2>6. QED
    BY <2>3, <2>4, <2>5
<1>9. QED
  BY <1>4, <1>7, <1>8

(* Operator i leaves the stack, and its operands go where they belong.      *)
Gathers(i, add, sub, work, one, two) ==
  /\ i \in Op(play) /\ i <= Here /\ InstrOf(play, i).op \in Summation
  /\ Result(i).connect_type # "not_connected"
  /\ add \in BOOLEAN /\ sub \in BOOLEAN
  /\ sub = (add <=> InstrOf(play, i).op = "Add")
  /\ csum_work.op_stack = Append(work.op_stack, [ins |-> InstrOf(play, i), add |-> add])
  /\ work.add_stack = csum_work.add_stack /\ work.sub_stack = csum_work.sub_stack
  /\ work.sum_par = csum_work.sum_par
  /\ one = SumOperand(work, InstrOf(play, i), 1, add)
  /\ two = SumOperand(one, InstrOf(play, i), 2, sub)
  /\ Worked(work) /\ Worked(one) /\ Worked(two) /\ csum_work' = two

LEMMA SumNextGathers ==
  ASSUME Ready, CsumInv, SumNext
  PROVE  \E i, add, sub, work, one, two :
           Gathers(i, add, sub, work, one, two)
<1>1. phase = "csum" /\ csum_work.op_stack # <<>>
  BY DEF SumNext
<1>2. Worked(csum_work) /\ csum_work \in Works /\ Recorded(Here)
  BY <1>1 DEF CsumInv
<1>3. PICK stack : stack = csum_work.op_stack
  OBVIOUS
<1>4. stack \in Seq(SumEntries) /\ stack # <<>> /\ \A k \in DOMAIN stack : Gathering(stack[k])
  BY <1>1, <1>2, <1>3 DEF Worked, Works
<1>5. PICK n \in Nat : n = Len(stack) /\ n > 0 /\ DOMAIN stack = 1 .. n
  <2>1. PICK n : n = Len(stack)
    OBVIOUS
  <2>2. n \in Nat /\ DOMAIN stack = 1 .. n
    BY <1>4, <2>1
  <2>3. n # 0
    BY <1>4, <2>1
  <2>4. n > 0
    BY <2>2, <2>3
  <2>5. QED
    BY <2>1, <2>2, <2>4
<1>6. PICK var : var = stack[n]
  OBVIOUS
<1>7. var \in SumEntries /\ Gathering(var)
  BY <1>4, <1>5, <1>6
<1>8. PICK i \in Op(play) : /\ i <= Here /\ var.ins = InstrOf(play, i)
                            /\ InstrOf(play, i).op \in Summation
                            /\ Result(i).connect_type # "not_connected"
  BY <1>7 DEF Gathering
<1>9. PICK front : front = SubSeq(stack, 1, n - 1)
  OBVIOUS
<1>10. front \in Seq(SumEntries) /\ \A k \in DOMAIN front : k \in DOMAIN stack /\ front[k] = stack[k]
  BY <1>4, <1>5, <1>9
<1>11. PICK work : work = [csum_work EXCEPT !.op_stack = front]
  OBVIOUS
<1>12. /\ work \in Works /\ work.op_stack = front
       /\ work.add_stack = csum_work.add_stack /\ work.sub_stack = csum_work.sub_stack
       /\ work.sum_par = csum_work.sum_par
  BY <1>2, <1>10, <1>11 DEF Works
<1>13. Worked(work)
  BY <1>2, <1>4, <1>10, <1>12 DEF Worked
<1>14. PICK add, sub : add = var.add /\ sub = (add <=> var.ins.op = "Add")
  OBVIOUS
<1>15. add \in BOOLEAN /\ sub \in BOOLEAN
  BY <1>7, <1>14 DEF SumEntries
<1>16. PICK one, two : /\ one = SumOperand(work, var.ins, 1, add)
                       /\ two = SumOperand(one, var.ins, 2, sub)
  OBVIOUS
<1>17. Worked(one)
  BY <1>1, <1>8, <1>13, <1>15, <1>16, SumOperandWorked
<1>18. Worked(two)
  BY <1>1, <1>8, <1>15, <1>16, <1>17, SumOperandWorked
<1>19. csum_work' = two
  <2>1. Last(csum_work.op_stack) = var
    BY <1>3, <1>5, <1>6 DEF Last
  <2>2. [csum_work EXCEPT !.op_stack = Front(@)] = work
    BY <1>3, <1>5, <1>9, <1>11 DEF Front
  <2>3. csum_work' = SumOperands(work, var.ins, var.add)
    BY <2>1, <2>2 DEF SumNext
  <2>4. QED
    BY <1>14, <1>16, <2>3 DEF SumOperands
<1>20. csum_work.op_stack = Append(work.op_stack, [ins |-> InstrOf(play, i), add |-> add])
  <2>1. stack = Append(front, stack[n])
    BY <1>4, <1>5, <1>9
  <2>2. var = [ins |-> InstrOf(play, i), add |-> add]
    BY <1>7, <1>8, <1>14 DEF SumEntries
  <2>3. QED
    BY <1>3, <1>6, <1>12, <2>1, <2>2
<1>21. QED
  BY <1>8, <1>12, <1>13, <1>14, <1>15, <1>16, <1>17, <1>18, <1>19, <1>20 DEF Gathers

LEMMA SumNextCsum ==
  ASSUME Ready, CsumInv, SumNext
  PROVE  CsumInv'
<1>1. phase = "csum" /\ Recorded(Here)
  BY DEF SumNext, CsumInv
<1>2. PICK i, add, sub, work, one, two : Gathers(i, add, sub, work, one, two)
  BY SumNextGathers
<1>3. Worked(two) /\ csum_work' = two
  BY <1>2 DEF Gathers
<1>4. play' = play /\ tape' = tape /\ cursor' = cursor /\ rec' = rec /\ phase' = phase
  BY DEF SumNext
<1>5. Works' = Works
  BY <1>4 DEF Works, SumEntries
<1>6. Recorded(Here)'
  BY <1>1, <1>4 DEF Recorded, Here, Result
<1>7. Worked(csum_work)'
  BY <1>3, <1>4, <1>5 DEF Worked, Gathering, HasNewVar, Here, Result
<1>8. two \in Works
  BY <1>3 DEF Worked
<1>9. QED
  BY <1>1, <1>3, <1>4, <1>5, <1>6, <1>7, <1>8 DEF CsumInv

-----------------------------------------------------------------------------
(* All of them hold at first.                                              *)
LEMMA InitTape ==
  ASSUME Init
  PROVE  /\ \A a \in Address(play) : tape[a].new_var = Invalid /\ tape[a].new_op = 0
         /\ \A a \in Address(play) : tape[a].match = FALSE
         /\ Invalid \in Nat /\ 0 \in Address(play)
<1>1. play \in Tapes
  BY DEF Init
<1>2. play.num_var_rec \in Nat /\ 0 \in Address(play)
  <2>1. 0 \in Op(play) /\ InstrOf(play, 0).res = 0 /\ InstrOf(play, 0).res \in Address(play)
    BY <1>1, Location, Ends DEF Located, Op
  <2>2. QED
    BY <1>1, <2>1, Ends
<1>3. PICK first : first = Instr(play, forward_start)
  OBVIOUS
<1>4. tape = [a \in Address(play) |->
                [ins |-> first,
                 connect_type |-> IF a \in Range(play.dep_taddr_)
                                    THEN "yes_connected" ELSE "not_connected",
                 cexp_set |-> {}, new_var |-> Invalid, new_op |-> 0, match |-> FALSE]]
  BY <1>3 DEF Init
<1>5. QED
  BY <1>2, <1>4 DEF Invalid

LEMMA InitRec ==
  ASSUME Init
  PROVE  RecInv /\ InfoInv /\ DepInv
<1>1. /\ phase = "reverse" /\ rec = EmptyRecorder /\ cskip_info = <<>>
      /\ cskip_info_order = <<>> /\ cskip_order_next = 1 /\ dep_taddr = play.dep_taddr_
  BY DEF Init
<1>2. EmptyRecorder \in Recorder /\ EmptyRecorder.num_var_rec_ = 0
      /\ Len(EmptyRecorder.op_rec_) = 0
  BY DEF EmptyRecorder, Recorder
<1>3. RecInv
  BY <1>1, <1>2 DEF RecInv
<1>4. InfoInv
  BY <1>1 DEF InfoInv
<1>5. DepInv
  BY <1>1 DEF DepInv
<1>6. QED
  BY <1>3, <1>4, <1>5

LEMMA InitOthers ==
  ASSUME Init
  PROVE  FreshInv /\ HashInv /\ CsumInv /\ PlaceInv /\ MergedAgree
<1>1. /\ CursorInv /\ ConnInv /\ RecInv /\ play \in Tapes /\ phase = "reverse"
      /\ Here = play.num_op_rec - 1
  BY InitCursor, InitConn, InitRec DEF CursorInv
<1>2. /\ \A a \in Address(play) : tape[a].new_var = Invalid /\ tape[a].new_op = 0
      /\ Invalid \in Nat /\ 0 \in Address(play)
  BY InitTape
<1>3. FreshInv
  <2>1. \A a \in Address(play) : tape[a].new_op <= Len(rec.op_rec_)
    BY <1>1, <1>2 DEF RecInv
  <2>2. QED
    BY <1>1, <1>2, <2>1 DEF FreshInv
<1>4. HashInv
  BY <1>2 DEF Init, HashInv
<1>5. CsumInv
  <2>1. NoWork \in Works
    BY NumAssumption DEF NoWork, Works
  <2>2. csum_work = NoWork
    BY DEF Init
  <2>3. QED
    BY <1>1, <2>1, <2>2 DEF CsumInv
<1>6. PlaceInv
  <2>1. cskip_info = <<>> /\ cskip_info_index = 0 /\ Len(cskip_info) = 0
    BY DEF Init
  <2>2. PICK where : where = [k \in 1 .. 0 |-> 0]
    OBVIOUS
  <2>3. where \in [1 .. 0 -> Op(play)]
    BY <2>2
  <2>4. ASSUME NEW i \in Op(play), Seen(i) PROVE InstrOf(play, i).op \notin CondExp
    <3>1. i = play.num_op_rec - 1
      BY <1>1, <2>4, Ends DEF Seen, Op
    <3>2. InstrOf(play, i).op = "End"
      BY <1>1, <3>1, Location DEF Located
    <3>3. QED
      BY <3>2 DEF CondExp
  <2>5. Places(where)
    BY <1>1, <2>1, <2>3, <2>4 DEF Places
  <2>6. QED
    BY <1>1, <2>1, <2>5 DEF PlaceInv
<1>7. MergedAgree
  BY <1>2 DEF MergedAgree
<1>8. QED
  BY <1>3, <1>4, <1>5, <1>6, <1>7

LEMMA InitAll ==
  ASSUME Init
  PROVE  IInv
BY InitCursor, InitConn, InitRec, InitOthers DEF IInv

-----------------------------------------------------------------------------
(* The first pass and the conditional expressions.                         *)
LEMMA MaxLeftRight ==
  ASSUME NEW t \in Tapes, NEW i \in Op(t), InstrOf(t, i).op \in CondExp
  PROVE  max_left_right(InstrOf(t, i)) \in Nat
<1> DEFINE ins == InstrOf(t, i)
           S == {0} \union {ins.arg[j] : j \in {k \in 1 .. 2 : ins.kind[k] = "v"}}
<1>1. \A j \in 1 .. 4 : ins.kind[j] \in {"v", "p"} /\ ins.arg[j] \in Nat
  <2>1. t.op_rec_[i].op = "CExp"
    BY Location DEF Located
  <2>2. QED
    BY <2>1, CondExpOf
<1>2. PICK m : m = IF ins.kind[1] = "v" THEN ins.arg[1] ELSE 0
  OBVIOUS
<1>3. PICK n : n = IF ins.kind[2] = "v" THEN ins.arg[2] ELSE 0
  OBVIOUS
<1>4. m \in Nat /\ n \in Nat
  BY <1>1, <1>2, <1>3
<1>5. S = {0, m, n}
  <2>1. \A j \in 1 .. 2 : j = 1 \/ j = 2
    OBVIOUS
  <2>2. 1 \in 1 .. 2 /\ 2 \in 1 .. 2
    OBVIOUS
  <2>3. S \subseteq {0, m, n}
    BY <1>2, <1>3, <2>1
  <2>4. {0, m, n} \subseteq S
    BY <1>2, <1>3, <2>2
  <2>5. QED
    BY <2>3, <2>4
<1>6. \E x \in S : \A y \in S : x >= y
  <2>1. CASE m >= n
    BY <1>4, <1>5, <2>1
  <2>2. CASE ~(m >= n)
    BY <1>4, <1>5, <2>2
  <2>3. QED
    BY <2>1, <2>2
<1>7. max_left_right(ins) = CHOOSE x \in S : \A y \in S : x >= y
  BY DEF max_left_right, Max
<1>8. max_left_right(ins) \in S
  BY <1>6, <1>7
<1>9. S \subseteq Nat
  BY <1>4, <1>5
<1>10. QED
  BY <1>8, <1>9

(* A conditional expression that is connected is noted, and nothing else.  *)
Finds(i) ==
  \/ /\ cskip_info' = cskip_info
     /\ InstrOf(play, i).op \in CondExp => Result(i).connect_type = "not_connected"
  \/ /\ InstrOf(play, i).op \in CondExp /\ Result(i).connect_type # "not_connected"
     /\ \E info \in Info(play) : cskip_info' = Append(cskip_info, info)

LEMMA ReverseFinds ==
  ASSUME CursorInv, NEW i \in Op(play), Reverses(i),
         ReverseArithmetic \/ ReverseCondExp \/ ReverseCompare \/ ReverseInv \/ ReversePar
  PROVE  Finds(i)
<1> DEFINE ins == InstrOf(play, i)
<1>1. play \in Tapes /\ Behind = At(play, i) /\ Instr(play, Behind) = ins
  BY DEF CursorInv, Reverses, ReverseTo
<1>2. CASE ReverseCondExp /\ tape[ins.res].connect_type = "not_connected"
  BY <1>1, <1>2 DEF ReverseCondExp, Finds, Result
<1>3. CASE ReverseCondExp /\ tape[ins.res].connect_type # "not_connected"
  <2>1. PICK info :
          /\ info = [cop |-> Arg(play, Behind, 0), flag |-> Arg(play, Behind, 1),
                     left |-> ins.arg[1], right |-> ins.arg[2],
                     max_left_right |-> max_left_right(ins),
                     skip_var_true |-> <<>>, skip_var_false |-> <<>>, i_arg |-> 0]
          /\ cskip_info' = Append(cskip_info, info)
    BY <1>1, <1>3 DEF ReverseCondExp
  <2>2. ins.op \in CondExp
    BY <1>1, <1>3 DEF ReverseCondExp, Back
  <2>3. play.op_rec_[i].op = "CExp"
    BY <1>1, <2>2, Location DEF Located
  <2>4. ins.arg[1] \in Nat /\ ins.arg[2] \in Nat
    <3>1. 1 \in 1 .. 4 /\ 2 \in 1 .. 4
      OBVIOUS
    <3>2. QED
      BY <1>1, <2>3, <3>1, CondExpOf
  <2>5. Arg(play, Behind, 0) \in Nat /\ Arg(play, Behind, 1) \in Nat
    <3>1. NumArg(play.op_rec_[i]) = 6
      BY <2>3 DEF NumArg, Optimized
    <3>2. QED
      BY <1>1, <3>1, ArgNat
  <2>6. max_left_right(ins) \in Nat
    BY <1>1, <2>2, MaxLeftRight
  <2>7. info \in Info(play)
    BY <2>1, <2>4, <2>5, <2>6 DEF Info
  <2>8. QED
    BY <1>3, <2>1, <2>2, <2>7 DEF Finds, Result
<1>4. CASE ~ReverseCondExp
  <2>1. PICK ops : Back(ops) /\ \A op \in ops : op \notin CondExp
    <3>1. \A op \in Unary \union Binary \union Comparison \union {"Begin", "Inv", "Par"} :
            op \notin CondExp
      BY OpNames DEF CondExp
    <3>2. QED
      BY <1>4, <3>1 DEF ReverseArithmetic, ReverseCompare, ReverseInv, ReversePar
  <2>2. ins.op \notin CondExp
    BY <1>1, <2>1 DEF Back
  <2>3. cskip_info' = cskip_info
    BY <1>4 DEF ReverseArithmetic, ReverseCompare, ReverseInv, ReversePar
  <2>4. QED
    BY <2>2, <2>3 DEF Finds
<1>5. QED
  BY <1>2, <1>3, <1>4

LEMMA ReverseInfo ==
  ASSUME CursorInv, RecInv, InfoInv, DepInv, NEW i \in Op(play), Reverses(i), Finds(i)
  PROVE  RecInv' /\ InfoInv' /\ DepInv'
<1>1. /\ play' = play /\ phase' = "reverse" /\ phase = "reverse"
      /\ rec' = rec /\ dep_taddr' = dep_taddr /\ cskip_info_order' = cskip_info_order
      /\ cskip_order_next' = cskip_order_next
  BY DEF Reverses, ReverseTo
<1>2. RecInv' /\ DepInv'
  BY <1>1 DEF RecInv, DepInv
<1>3. cskip_info' \in Seq(Info(play))
  <2>1. cskip_info \in Seq(Info(play))
    BY DEF InfoInv
  <2>2. QED
    BY <2>1 DEF Finds
<1>4. cskip_info' \in Seq(Info(play'))
  BY <1>1, <1>3
<1>5. InfoInv'
  BY <1>1, <1>4 DEF InfoInv
<1>6. QED
  BY <1>2, <1>5

LEMMA ReverseNumbers ==
  ASSUME CursorInv, ConnInv, RecInv, FreshInv, HashInv, CsumInv,
         NEW i \in Op(play), Reverses(i)
  PROVE  FreshInv' /\ HashInv' /\ CsumInv' /\ MergedAgree'
<1>1. /\ play' = play /\ phase' = "reverse" /\ phase = "reverse" /\ play \in Tapes
      /\ rec' = rec /\ hash_table_var' = hash_table_var /\ csum_work' = csum_work
  BY DEF Reverses, ReverseTo, CursorInv
<1>2. \A a \in Address(play) : /\ tape'[a].new_var = tape[a].new_var
                               /\ tape'[a].new_op = tape[a].new_op
  BY DEF Reverses, Connects, Reconnected
<1>3. \A a \in Address(play) : tape[a].new_var = Invalid /\ tape[a].new_op <= Len(rec.op_rec_)
  BY <1>1 DEF FreshInv
<1>4. Invalid' = Invalid
  BY <1>1 DEF Invalid
<1>5. \A a \in Address(play) : tape'[a].new_var = Invalid' /\ tape'[a].new_op <= Len(rec'.op_rec_)
  BY <1>1, <1>2, <1>3, <1>4
<1>6. FreshInv'
  BY <1>1, <1>5 DEF FreshInv
<1>7. HashInv'
  BY <1>1 DEF HashInv
<1>8. CsumInv'
  BY <1>1 DEF CsumInv, Works, SumEntries
<1>9. MergedAgree'
  BY <1>1, <1>5 DEF MergedAgree
<1>10. QED
  BY <1>6, <1>7, <1>8, <1>9

(* An operator that the first pass has passed keeps its result.            *)
LEMMA ReverseKeeps ==
  ASSUME CursorInv, NEW i \in Op(play), Reverses(i)
  PROVE  /\ \A k \in Op(play) : Seen(k)' <=> k = i \/ Seen(k)
         /\ ~Seen(i) /\ \A k \in Op(play) : Seen(k) => i < k
         /\ \A k \in Op(play) : Seen(k) /\ NumRes(InstrOf(play, k).op) > 0 =>
              tape'[InstrOf(play, k).res] = tape[InstrOf(play, k).res]
<1> DEFINE ins == InstrOf(play, i)
<1>1. play \in Tapes /\ play' = play /\ phase = "reverse" /\ phase' = "reverse"
      /\ Here = i + 1 /\ Here' = i /\ Here \in Op(play)
  BY DEF CursorInv, Reverses, ReverseTo, Here, At
<1>2. \A k \in Op(play) : k \in Int
  BY DEF Op
<1>3. (\A k \in Op(play) : Seen(k)' <=> k = i \/ Seen(k)) /\ ~Seen(i)
  BY <1>1, <1>2 DEF Seen
<1>4. \A k \in Op(play) : Seen(k) => i < k
  BY <1>1, <1>2 DEF Seen
<1>5. ASSUME NEW k \in Op(play), Seen(k), NumRes(InstrOf(play, k).op) > 0
      PROVE  tape'[InstrOf(play, k).res] = tape[InstrOf(play, k).res]
  <2>1. ins.res < InstrOf(play, k).res
    BY <1>1, <1>4, <1>5, ResultPlace
  <2>2. ins.res \in Nat /\ InstrOf(play, k).res \in Nat /\ InstrOf(play, k).res \in Address(play)
    BY <1>1, Location DEF Located, Address
  <2>3. InstrOf(play, k).res \notin VarOperands(ins)
    <3>1. ASSUME InstrOf(play, k).res \in VarOperands(ins)
          PROVE  InstrOf(play, k).res <= ins.res
      BY <1>1, <3>1, OperandIsResult
    <3>2. QED
      BY <2>1, <2>2, <3>1
  <2>4. QED
    BY <2>1, <2>2, <2>3 DEF Reverses, Connects
<1>6. QED
  BY <1>3, <1>4, <1>5

LEMMA ReversePlace ==
  ASSUME CursorInv, InfoInv, PlaceInv, NEW i \in Op(play), Reverses(i), Finds(i)
  PROVE  PlaceInv'
<1> DEFINE ins == InstrOf(play, i)
           Connected(k) == InstrOf(play, k).op \in CondExp
                             /\ Result(k).connect_type # "not_connected"
<1>1. play \in Tapes /\ play' = play /\ phase = "reverse" /\ phase' = "reverse"
      /\ cskip_info_index = 0 /\ cskip_info_index' = 0
  BY DEF CursorInv, Reverses, ReverseTo, PlaceInv
<1>2. PICK where : Places(where)
  BY DEF PlaceInv
<1>3. PICK n \in Nat : n = Len(cskip_info)
  BY DEF InfoInv
<1>4. /\ where \in [1 .. n -> Op(play)]
      /\ \A j, k \in 1 .. n : j < k => where[k] < where[j]
      /\ \A k \in Op(play) : Seen(k) /\ Connected(k) <=> \E j \in 1 .. n : where[j] = k
  BY <1>2, <1>3 DEF Places
<1>5. /\ \A k \in Op(play) : Seen(k)' <=> k = i \/ Seen(k)
      /\ ~Seen(i) /\ \A k \in Op(play) : Seen(k) => i < k
  BY ReverseKeeps
<1>6. \A k \in Op(play) : Seen(k) /\ InstrOf(play, k).op \in CondExp =>
        tape'[InstrOf(play, k).res] = tape[InstrOf(play, k).res]
  BY ReverseKeeps, ResultCounts
<1>7. ins.op \in CondExp =>
        (tape'[ins.res].connect_type # "not_connected" <=> Result(i).connect_type # "not_connected")
  <2>1. ins.res \in Address(play)
    BY <1>1, Location DEF Located
  <2>2. Reconnected(tape[ins.res], tape'[ins.res], ins, TRUE)
    BY <2>1 DEF Reverses, Connects
  <2>3. ins.op \in CondExp => NumRes(ins.op) > 0 /\ ins.op \notin {"Begin", "Inv"}
    BY ResultCounts DEF CondExp
  <2>4. QED
    BY <2>2, <2>3 DEF Reconnected, Result
<1>8. \A k \in Op(play) : Connected(k)' <=>
        InstrOf(play, k).op \in CondExp /\ tape'[InstrOf(play, k).res].connect_type # "not_connected"
  BY <1>1 DEF Result
<1>9. \A k \in Op(play) : Seen(k)' /\ Connected(k)' <=>
        \/ Seen(k) /\ Connected(k)
        \/ k = i /\ Connected(k)
  <2>1. ASSUME NEW k \in Op(play), Seen(k) PROVE Connected(k)' <=> Connected(k)
    BY <1>6, <1>8, <2>1 DEF Result
  <2>2. Connected(i)' <=> Connected(i)
    BY <1>7, <1>8
  <2> HIDE DEF Connected
  <2>3. QED
    BY <1>5, <2>1, <2>2
<1>10. CASE cskip_info' = cskip_info /\ ~Connected(i)
  <2>1. \A k \in Op(play) : Seen(k)' /\ Connected(k)' <=> \E j \in 1 .. n : where[j] = k
    BY <1>4, <1>9, <1>10
  <2>2. Len(cskip_info') = n
    BY <1>3, <1>10
  <2>3. Places(where)'
    BY <1>1, <1>4, <2>1, <2>2 DEF Places
  <2>4. QED
    BY <1>1, <1>3, <2>2, <2>3 DEF PlaceInv
<1>11. CASE Connected(i) /\ \E info \in Info(play) : cskip_info' = Append(cskip_info, info)
  <2>1. Len(cskip_info') = n + 1
    <3>1. cskip_info \in Seq(Info(play))
      BY DEF InfoInv
    <3>2. QED
      BY <1>3, <1>11, <3>1
  <2>2. PICK m \in Nat : m = n + 1
    OBVIOUS
  <2>3. PICK next : next = [k \in 1 .. m |-> IF k = m THEN i ELSE where[k]]
    OBVIOUS
  <2>4. /\ next[m] = i /\ \A k \in 1 .. n : next[k] = where[k]
        /\ next \in [1 .. m -> Op(play)]
        /\ \A k \in 1 .. m : k = m \/ k \in 1 .. n
    BY <1>4, <2>2, <2>3
  <2>5. \A k \in 1 .. n : i < where[k]
    BY <1>4, <1>5
  <2>6. \A j, k \in 1 .. m : j < k => next[k] < next[j]
    <3>1. ASSUME NEW j \in 1 .. m, NEW k \in 1 .. m, j < k PROVE next[k] < next[j]
      <4>1. j \in 1 .. n
        BY <2>2, <3>1
      <4>2. CASE k = m
        BY <2>4, <2>5, <4>1, <4>2
      <4>3. CASE k # m
        BY <1>4, <2>4, <3>1, <4>1, <4>3
      <4>4. QED
        BY <4>2, <4>3
    <3>2. QED
      BY <3>1
  <2>7. \A k \in Op(play) : (\E j \in 1 .. m : next[j] = k) <=>
                              (\E j \in 1 .. n : where[j] = k) \/ k = i
    <3>1. 1 .. n \subseteq 1 .. m /\ m \in 1 .. m
      BY <2>2
    <3>2. QED
      BY <2>4, <3>1
  <2>8. \A k \in Op(play) : Seen(k)' /\ Connected(k)' <=> \E j \in 1 .. m : next[j] = k
    BY <1>4, <1>9, <1>11, <2>7
  <2>9. Len(cskip_info') = m
    BY <2>1, <2>2
  <2>10. Places(next)'
    BY <1>1, <2>4, <2>6, <2>8, <2>9 DEF Places
  <2>11. QED
    BY <1>1, <2>9, <2>10 DEF PlaceInv
<1>12. QED
  BY <1>10, <1>11 DEF Finds

LEMMA ReverseAll ==
  ASSUME IInv,
         ReverseArithmetic \/ ReverseCondExp \/ ReverseCompare \/ ReverseInv \/ ReversePar
  PROVE  IInv'
<1>1. /\ CursorInv /\ ConnInv /\ RecInv /\ InfoInv /\ FreshInv /\ HashInv /\ DepInv
      /\ CsumInv /\ PlaceInv
  BY DEF IInv
<1>2. PICK i \in Op(play) : Reverses(i)
  BY <1>1, ReverseSteps
<1>3. Finds(i)
  BY <1>1, <1>2, ReverseFinds
<1>4. CursorInv'
  BY <1>1, StepCursor DEF Next
<1>5. ConnInv'
  BY <1>1, <1>2, ReverseConn
<1>6. RecInv' /\ InfoInv' /\ DepInv'
  BY <1>1, <1>2, <1>3, ReverseInfo
<1>7. FreshInv' /\ HashInv' /\ CsumInv' /\ MergedAgree'
  BY <1>1, <1>2, ReverseNumbers
<1>8. PlaceInv'
  BY <1>1, <1>2, <1>3, ReversePlace
<1>9. QED
  BY <1>4, <1>5, <1>6, <1>7, <1>8 DEF IInv

-----------------------------------------------------------------------------
(* Between the passes. *)
Prepares ==
  /\ phase = "reverse" /\ phase' = "forward" /\ play' = play /\ Here = 0 /\ Here' = 0
  /\ 0 \in Op(play) /\ 0 \in Address(play) /\ InstrOf(play, 0).op = "Begin"
  /\ InstrOf(play, 0).res = 0
  /\ rec' = Put(rec, [op |-> "Begin", kind |-> <<>>], <<0>>)
  /\ cskip_order_next' = cskip_order_next /\ hash_table_var' = hash_table_var
  /\ csum_work' = csum_work /\ dep_taddr' = dep_taddr
  /\ cskip_info_index' = Len(cskip_info)
  /\ KeepsAll(Len(cskip_info))
  /\ tape'[0].new_var = 0 /\ tape'[0].new_op = 0
  /\ \A a \in Address(play) \ {0} :
       tape'[a].new_var = tape[a].new_var /\ tape'[a].new_op = tape[a].new_op

(* The lists of what each conditional expression skips. *)
Lists(i, info) ==
  info = [cskip_info[i] EXCEPT !.skip_var_true = Skipped(<<FALSE, i>>),
                               !.skip_var_false = Skipped(<<TRUE, i>>)]

LEMMA PrepareInfo ==
  ASSUME CursorInv, InfoInv, Prepare
  PROVE  /\ cskip_info' \in Seq(Info(play)) /\ Len(cskip_info') = Len(cskip_info)
         /\ cskip_info_order' \in [1 .. Len(cskip_info) -> 1 .. Len(cskip_info)]
<1>1. PICK n \in Nat : n = Len(cskip_info) /\ DOMAIN cskip_info = 1 .. n
                       /\ \A i \in 1 .. n : cskip_info[i] \in Info(play)
  BY DEF InfoInv
<1>2. PICK f : f = [i \in DOMAIN cskip_info |->
                      [cskip_info[i] EXCEPT !.skip_var_true = Skipped(<<FALSE, i>>),
                                            !.skip_var_false = Skipped(<<TRUE, i>>)]]
  OBVIOUS
<1>3. cskip_info' = f
  BY <1>2, Zenon DEF Prepare
<1>4. \A i \in 1 .. n : Lists(i, f[i])
  BY <1>1, <1>2, Zenon DEF Lists
<1>5. ASSUME NEW i \in 1 .. n PROVE f[i] \in Info(play)
  <2>1. PICK yes, no : yes = Skipped(<<FALSE, i>>) /\ no = Skipped(<<TRUE, i>>)
    OBVIOUS
  <2>2. yes \in Seq(Address(play)) /\ no \in Seq(Address(play))
    BY <2>1, SkippedSeq
  <2>3. f[i] = [cskip_info[i] EXCEPT !.skip_var_true = yes, !.skip_var_false = no]
    BY <1>4, <2>1 DEF Lists
  <2>4. cskip_info[i] \in Info(play)
    BY <1>1
  <2>5. QED
    BY <2>2, <2>3, <2>4 DEF Info
<1>6. f \in [1 .. n -> Info(play)]
  <2>1. DOMAIN f = 1 .. n /\ f = [i \in 1 .. n |-> f[i]]
    BY <1>1, <1>2, Zenon
  <2>2. QED
    BY <1>5, <2>1
<1>7. f \in Seq(Info(play)) /\ Len(f) = n
  BY <1>6
<1>8. cskip_info_order' \in [DOMAIN cskip_info -> DOMAIN cskip_info]
  BY DEF Prepare, SortOrders
<1>9. QED
  BY <1>1, <1>3, <1>7, <1>8

LEMMA PreparePrepares ==
  ASSUME CursorInv, ConnInv, InfoInv, Prepare
  PROVE  Prepares
<1>1. play \in Tapes /\ phase = "reverse" /\ phase' = "forward" /\ play' = play
  BY DEF CursorInv, Prepare
<1>2. Here = 0
  <2>1. play.op_rec_[Here].op = "Begin"
    BY DEF Prepare, OpAt, Here
  <2>2. QED
    BY <1>1, <2>1, CodeFacts DEF CursorInv
<1>3. 0 \in Op(play) /\ InstrOf(play, 0).res = 0
  BY <1>1, Location, Ends DEF Located, Op
<1>4. 0 \in Address(play) /\ InstrOf(play, 0).op = "Begin"
  BY <1>1, <1>3, Location DEF Located
<1>5. Here' = 0
  BY DEF Prepare, forward_start, Here
<1>6. PICK w : w = [tape[0] EXCEPT !.new_op = 0, !.new_var = 0]
  OBVIOUS
<1>7. tape \in Entries(play, Len(cskip_info)) /\ tape[0] \in Entry(play, Len(cskip_info))
  BY <1>4 DEF ConnInv, Entries
<1>8. play.num_var_rec \in Nat
  BY <1>1, Ends
<1>9. w \in Entry(play, Len(cskip_info)) /\ Keeps(tape[0], w) /\ w.new_var = 0 /\ w.new_op = 0
  <2>1. PICK v, n : v = tape[0] /\ n = Len(cskip_info)
    OBVIOUS
  <2>2. v \in Entry(play, n) /\ w = [v EXCEPT !.new_op = 0, !.new_var = 0]
    BY <1>6, <1>7, <2>1
  <2>3. 0 \in 0 .. play.num_var_rec /\ 0 \in Nat
    BY <1>8
  <2>4. w \in Entry(play, n)
    BY <2>2, <2>3 DEF Entry
  <2>5. Keeps(v, w) /\ w.new_var = 0 /\ w.new_op = 0
    BY <2>2 DEF Keeps, Entry
  <2>6. QED
    BY <2>1, <2>4, <2>5
<1>10. Replaced(tape, tape', 0, w)
  <2>1. tape' = [tape EXCEPT ![0] = w]
    BY <1>4, <1>6, <1>7 DEF Prepare, Entries
  <2>2. QED
    BY <2>1 DEF Replaced
<1>11. PICK tq : tq = tape'
  OBVIOUS
<1>12. /\ tq \in Entries(play, Len(cskip_info)) /\ tq[0] = w
       /\ \A b \in Address(play) : Keeps(tape[b], tq[b]) /\ (b # 0 => tq[b] = tape[b])
  BY <1>4, <1>7, <1>9, <1>10, <1>11, KeepOne
<1>13. KeepsAll(Len(cskip_info))
  <2>1. cskip_info' \in Seq(Info(play)) /\ Len(cskip_info') = Len(cskip_info)
    BY PrepareInfo
  <2>2. IsSeq(cskip_info')
    BY <2>1, InfoLength
  <2>3. QED
    BY <1>1, <1>11, <1>12, <2>1, <2>2 DEF KeepsAll
<1>14. /\ rec' = Put(rec, [op |-> "Begin", kind |-> <<>>], <<0>>)
       /\ cskip_order_next' = cskip_order_next /\ hash_table_var' = hash_table_var
       /\ csum_work' = csum_work /\ dep_taddr' = dep_taddr
       /\ cskip_info_index' = Len(cskip_info)
  BY DEF Prepare
<1>15. \A a \in Address(play) \ {0} :
         tape'[a].new_var = tape[a].new_var /\ tape'[a].new_op = tape[a].new_op
  BY <1>11, <1>12
<1>16. tape'[0].new_var = 0 /\ tape'[0].new_op = 0
  BY <1>9, <1>11, <1>12
<1>17. QED
  BY <1>1, <1>2, <1>3, <1>4, <1>5, <1>13, <1>14, <1>15, <1>16 DEF Prepares

LEMMA PrepareRec ==
  ASSUME CursorInv, ConnInv, RecInv, InfoInv, DepInv, CsumInv, Prepare, Prepares
  PROVE  RecInv' /\ InfoInv' /\ DepInv' /\ CsumInv' /\ rec'.num_var_rec_ = 1
<1>1. phase = "reverse" /\ phase' = "forward" /\ play' = play
      /\ dep_taddr' = dep_taddr /\ csum_work' = csum_work /\ cskip_order_next' = cskip_order_next
  BY DEF Prepares
<1>2. rec = EmptyRecorder
  BY <1>1 DEF RecInv
<1>3. PICK code, words : code = [op |-> "Begin", kind |-> <<>>] /\ words = <<0>>
  OBVIOUS
<1>4. code \in OpCodeRec /\ code.op = "Begin" /\ words \in Seq(Nat) /\ NumRes(code.op) = 1
  <2>1. code \in OpCodeRec
    BY <1>3, OwnCodes
  <2>2. code.op = "Begin" /\ words \in Seq(Nat)
    BY <1>3
  <2>3. QED
    BY <2>1, <2>2, ResultCounts
<1>5. rec \in Recorder /\ rec.num_var_rec_ = 0
  BY <1>2 DEF EmptyRecorder, Recorder
<1>6. PICK R : R = Put(rec, code, words)
  OBVIOUS
<1>7. R \in Recorder /\ R.num_var_rec_ = 1
  <2>1. rec.num_var_rec_ + NumRes(code.op) > 0
    BY <1>4, <1>5
  <2>2. R \in Recorder /\ R.num_var_rec_ = rec.num_var_rec_ + NumRes(code.op)
    BY <1>4, <1>5, <1>6, <2>1, PutFacts
  <2>3. QED
    BY <1>4, <1>5, <2>2
<1>8. rec' = R
  BY <1>3, <1>6 DEF Prepares
<1>9. Len(R.op_rec_) \in Nat
  BY <1>7 DEF Recorder
<1>10. RecInv'
  BY <1>1, <1>7, <1>8, <1>9 DEF RecInv
<1>11. /\ cskip_info' \in Seq(Info(play)) /\ Len(cskip_info') = Len(cskip_info)
       /\ cskip_info_order' \in [1 .. Len(cskip_info) -> 1 .. Len(cskip_info)]
  BY PrepareInfo
<1>12. cskip_order_next' \in 1 .. Len(cskip_info') + 1
  <2>1. Len(cskip_info) \in Nat /\ cskip_order_next = 1
    BY <1>1 DEF InfoInv
  <2>2. QED
    BY <1>1, <1>11, <2>1
<1>13. InfoInv'
  BY <1>1, <1>11, <1>12 DEF InfoInv
<1>14. DepInv'
  BY <1>1 DEF DepInv
<1>15. CsumInv'
  BY <1>1, NoCsum
<1>16. QED
  BY <1>7, <1>8, <1>10, <1>13, <1>14, <1>15

LEMMA PrepareNumbers ==
  ASSUME CursorInv, ConnInv, RecInv, FreshInv, HashInv, RecInv', Prepares, rec'.num_var_rec_ = 1
  PROVE  FreshInv' /\ HashInv' /\ MergedAgree'
<1>1. play \in Tapes /\ phase = "reverse" /\ phase' = "forward" /\ play' = play
      /\ Here = 0 /\ Here' = 0 /\ 0 \in Op(play) /\ 0 \in Address(play)
      /\ InstrOf(play, 0).op = "Begin" /\ InstrOf(play, 0).res = 0
      /\ hash_table_var' = hash_table_var
  BY DEF CursorInv, Prepares
<1>2. Invalid' = Invalid /\ Invalid \in Nat /\ Invalid > 0
  BY <1>1, Ends DEF Invalid, Address
<1>3. /\ tape'[0].new_var = 0 /\ tape'[0].new_op = 0
      /\ \A a \in Address(play) \ {0} : tape'[a].new_var = Invalid /\ tape'[a].new_op <= Len(rec.op_rec_)
  BY <1>1 DEF Prepares, FreshInv
<1>4. \A a \in Address(play) : tape'[a].connect_type = tape[a].connect_type
  BY DEF Prepares, KeepsAll, Keeps
<1>5. tape[0].connect_type # "csum_connected"
  <2>1. NumRes(InstrOf(play, 0).op) > 0 /\ InstrOf(play, 0).op \notin Summation
    BY <1>1, ResultCounts DEF Summation
  <2>2. QED
    BY <1>1, <2>1, NotSum DEF Result
<1>6. \A a \in Address(play) : tape'[a].new_op <= Len(rec'.op_rec_)
  <2>1. ASSUME NEW a \in Address(play) PROVE tape'[a].new_op = 0
    <3>1. CASE a = 0
      BY <1>3, <3>1
    <3>2. CASE a # 0
      <4>1. tape'[a].new_op = tape[a].new_op
        BY <3>2 DEF Prepares
      <4>2. tape[a].new_op <= Len(rec.op_rec_) /\ Len(rec.op_rec_) = 0
        BY <1>1 DEF FreshInv, RecInv, EmptyRecorder
      <4>3. tape[a].new_op \in Nat
        BY DEF ConnInv, Entries, Entry
      <4>4. QED
        BY <4>1, <4>2, <4>3
    <3>3. QED
      BY <3>1, <3>2
  <2>2. Len(rec'.op_rec_) \in Nat
    BY DEF RecInv
  <2>3. QED
    BY <2>1, <2>2
<1>7. \A i \in Op(play) : Passed(i)' => i = 0
  <2>1. \A i \in Op(play) : i \in Nat
    BY <1>1, CodeFacts DEF Op
  <2>2. QED
    BY <1>1, <2>1 DEF Passed
<1>8. FreshInv'
  <2>1. \A a \in Address(play) : tape'[a].new_var = Invalid \/ tape'[a].new_var < rec'.num_var_rec_
    BY <1>3
  <2>2. \A a \in Address(play) :
          tape'[a].connect_type = "csum_connected" => tape'[a].new_var = Invalid
    BY <1>3, <1>4, <1>5
  <2>3. \A i \in Op(play) : Passed(i)' => tape'[InstrOf(play, i).res].new_var < rec'.num_var_rec_
    BY <1>1, <1>3, <1>7
  <2>4. rec'.num_var_rec_ <= InstrOf(play', Here').res + 1
    BY <1>1
  <2>5. QED
    BY <1>1, <1>2, <1>6, <2>1, <2>2, <2>3, <2>4 DEF FreshInv, HasNewVar
<1>9. HashInv'
  BY <1>1 DEF HashInv
<1>10. MergedAgree'
  <2>1. \A a \in Address(play) : tape'[a].new_var # Invalid => a = 0
    BY <1>3
  <2>2. QED
    BY <1>1, <1>2, <2>1 DEF MergedAgree
<1>11. QED
  BY <1>8, <1>9, <1>10

LEMMA PreparePlace ==
  ASSUME CursorInv, InfoInv, PlaceInv, Prepares
  PROVE  PlaceInv'
<1>1. play \in Tapes /\ phase = "reverse" /\ phase' = "forward" /\ play' = play
      /\ Here = 0 /\ Here' = 0 /\ InstrOf(play, 0).op = "Begin"
      /\ Len(cskip_info') = Len(cskip_info) /\ cskip_info_index' = Len(cskip_info)
  BY DEF CursorInv, Prepares, KeepsAll
<1>2. PICK where : Places(where)
  BY DEF PlaceInv
<1>3. PICK n \in Nat : n = Len(cskip_info)
  BY DEF InfoInv
<1>4. \A i \in Op(play) : i \in Nat
  BY <1>1, CodeFacts DEF Op
<1>5. \A i \in Op(play) : Seen(i) /\ Seen(i)'
  BY <1>1, <1>4 DEF Seen
<1>6. ASSUME NEW i \in Op(play)
      PROVE  Result(i)'.connect_type = Result(i).connect_type
  <2>1. InstrOf(play, i).res \in Address(play)
    BY <1>1, Location DEF Located
  <2>2. tape'[InstrOf(play, i).res].connect_type = tape[InstrOf(play, i).res].connect_type
    BY <2>1 DEF Prepares, KeepsAll, Keeps
  <2>3. QED
    BY <1>1, <2>2 DEF Result
<1>7. /\ where \in [1 .. n -> Op(play)]
      /\ \A j, k \in 1 .. n : j < k => where[k] < where[j]
      /\ \A i \in Op(play) :
           (InstrOf(play, i).op \in CondExp /\ Result(i).connect_type # "not_connected")
             <=> \E k \in 1 .. n : where[k] = i
  BY <1>2, <1>3, <1>5 DEF Places
<1>8. \A k \in 1 .. n : ~Passed(where[k])'
  <2>1. ASSUME NEW k \in 1 .. n PROVE where[k] > 0
    <3>1. where[k] \in Op(play) /\ InstrOf(play, where[k]).op \in CondExp
      BY <1>7
    <3>2. where[k] # 0
      BY <1>1, <3>1 DEF CondExp
    <3>3. QED
      BY <1>4, <3>1, <3>2
  <2>2. \A k \in 1 .. n : where[k] \in Nat
    BY <1>4, <1>7
  <2>3. QED
    BY <1>1, <2>1, <2>2 DEF Passed
<1>9. Places(where)'
  <2>1. \A k \in 1 .. n : k <= cskip_info_index'
    BY <1>1, <1>3
  <2>2. Len(cskip_info') = n
    BY <1>1, <1>3
  <2>3. \A i \in Op(play) :
          (Seen(i)' /\ InstrOf(play, i).op \in CondExp /\ Result(i)'.connect_type # "not_connected")
             <=> \E k \in 1 .. n : where[k] = i
    BY <1>5, <1>6, <1>7
  <2>4. QED
    BY <1>1, <1>7, <1>8, <2>1, <2>2, <2>3 DEF Places
<1>10. QED
  BY <1>1, <1>3, <1>9 DEF PlaceInv

LEMMA PrepareAll ==
  ASSUME IInv, Prepare
  PROVE  IInv'
<1>1. /\ CursorInv /\ ConnInv /\ RecInv /\ InfoInv /\ FreshInv /\ HashInv /\ DepInv
      /\ CsumInv /\ PlaceInv
  BY DEF IInv
<1>2. Prepares
  BY <1>1, PreparePrepares
<1>3. CursorInv'
  BY <1>1, StepCursor DEF Next
<1>4. ConnInv'
  <2>1. PICK p : p = phase'
    OBVIOUS
  <2>2. p # "reverse" /\ Here = 0 /\ KeepsAll(Len(cskip_info))
    BY <1>2, <2>1 DEF Prepares
  <2>3. QED
    BY <1>1, <2>1, <2>2, KeepConn
<1>5. RecInv' /\ InfoInv' /\ DepInv' /\ CsumInv' /\ rec'.num_var_rec_ = 1
  BY <1>1, <1>2, PrepareRec
<1>6. FreshInv' /\ HashInv' /\ MergedAgree'
  BY <1>1, <1>2, <1>5, PrepareNumbers
<1>7. PlaceInv'
  BY <1>1, <1>2, PreparePlace
<1>8. QED
  BY <1>3, <1>4, <1>5, <1>6, <1>7 DEF IInv

-----------------------------------------------------------------------------
(* The second pass and the conditional expressions. *)
LEMMA PassedOthers ==
  ASSUME Ready, NEW i, Advances(i), NEW k \in Op(play), k # i
  PROVE  Passed(k)' <=> Passed(k)
<1>1. play \in Tapes /\ i \in Op(play) /\ Here' = i /\ Here \in Op(play)
      /\ phase \in {"forward", "csum"} /\ phase' \in {"forward", "csum", "done"}
  BY AdvancePlace DEF Ready, CursorInv
<1>2. i \in Nat /\ k \in Nat /\ Here \in Nat
  BY <1>1, CodeFacts DEF Op
<1>3. \/ phase = "forward" /\ i = Here + 1
      \/ phase = "csum" /\ i = Here /\ phase' = "forward"
  BY DEF Advances
<1>4. CASE phase' = "done"
  <2>1. i = play.num_op_rec - 1
    BY <1>1, <1>4, Location DEF Advances, Located
  <2>2. k < i
    BY <1>1, <2>1, CodeFacts DEF Op
  <2>3. QED
    BY <1>2, <1>3, <1>4, <2>2 DEF Passed
<1>5. CASE phase' # "done"
  BY <1>1, <1>2, <1>3, <1>5 DEF Passed
<1>6. QED
  BY <1>4, <1>5

(* What stays of Places. *)
LEMMA PlacesStay ==
  ASSUME Ready, NEW i, Advances(i), NEW where, Places(where), NEW n \in Nat,
         n = Len(cskip_info)
  PROVE  /\ where \in [1 .. n -> Op(play)]
         /\ \A j, k \in 1 .. n : j < k => where[k] < where[j]
         /\ \A k \in Op(play) :
              (InstrOf(play, k).op \in CondExp /\ Result(k).connect_type # "not_connected")
                <=> \E j \in 1 .. n : where[j] = k
         /\ \A k \in 1 .. n : k <= cskip_info_index <=> ~Passed(where[k])
         /\ (\A k \in 1 .. n : k <= cskip_info_index' <=> ~Passed(where[k])') => Places(where)'
<1>1. play \in Tapes /\ play' = play /\ phase # "reverse" /\ phase' # "reverse"
  BY AdvancePlace
<1>2. Len(cskip_info') = n
  BY DEF Advances, KeepsAll
<1>3. \A k \in Op(play) : Seen(k) /\ Seen(k)'
  BY <1>1 DEF Seen
<1>4. /\ where \in [1 .. n -> Op(play)]
      /\ \A j, k \in 1 .. n : j < k => where[k] < where[j]
      /\ \A k \in Op(play) :
           (InstrOf(play, k).op \in CondExp /\ Result(k).connect_type # "not_connected")
             <=> \E j \in 1 .. n : where[j] = k
      /\ \A k \in 1 .. n : k <= cskip_info_index <=> ~Passed(where[k])
  BY <1>1, <1>3 DEF Places
<1>5. ASSUME NEW k \in Op(play)
      PROVE  Result(k)'.connect_type = Result(k).connect_type
  <2>1. InstrOf(play, k).res \in Address(play)
    BY <1>1, Location DEF Located
  <2>2. tape'[InstrOf(play, k).res].connect_type = tape[InstrOf(play, k).res].connect_type
    BY <2>1, AdvanceNumbers
  <2>3. QED
    BY <1>1, <2>2 DEF Result
<1>6. ASSUME \A k \in 1 .. n : k <= cskip_info_index' <=> ~Passed(where[k])'
      PROVE  Places(where)'
  <2>1. \A k \in Op(play) :
          (Seen(k)' /\ InstrOf(play, k).op \in CondExp /\ Result(k)'.connect_type # "not_connected")
             <=> \E j \in 1 .. n : where[j] = k
    BY <1>3, <1>4, <1>5
  <2>2. QED
    BY <1>1, <1>2, <1>4, <1>6, <2>1 DEF Places
<1>7. QED
  BY <1>4, <1>6

LEMMA KeepPlaces ==
  ASSUME Ready, PlaceInv, NEW i, Advances(i), cskip_info_index' = cskip_info_index,
         ~ (InstrOf(play, i).op \in CondExp /\ Result(i).connect_type # "not_connected")
  PROVE  PlaceInv'
<1>1. PICK where : Places(where)
  BY DEF PlaceInv
<1>2. PICK n \in Nat : n = Len(cskip_info)
  BY DEF Ready, InfoInv
<1>3. /\ where \in [1 .. n -> Op(play)]
      /\ \A k \in Op(play) :
           (InstrOf(play, k).op \in CondExp /\ Result(k).connect_type # "not_connected")
             <=> \E j \in 1 .. n : where[j] = k
      /\ \A k \in 1 .. n : k <= cskip_info_index <=> ~Passed(where[k])
      /\ (\A k \in 1 .. n : k <= cskip_info_index' <=> ~Passed(where[k])') => Places(where)'
  BY <1>1, <1>2, PlacesStay
<1>4. \A k \in 1 .. n : where[k] # i
  BY <1>3 DEF Advances
<1>5. \A k \in 1 .. n : Passed(where[k])' <=> Passed(where[k])
  BY <1>3, <1>4, PassedOthers
<1>6. Places(where)'
  BY <1>3, <1>5
<1>7. phase' # "reverse" /\ Len(cskip_info') = Len(cskip_info)
  BY AdvancePlace DEF Advances, KeepsAll
<1>8. QED
  BY <1>6, <1>7 DEF PlaceInv

LEMMA CountPlace ==
  ASSUME Ready, PlaceInv, NEW i, Advances(i), phase = "forward", phase' = "forward",
         cskip_info_index' = cskip_info_index - 1,
         InstrOf(play, i).op \in CondExp, Result(i).connect_type # "not_connected"
  PROVE  PlaceInv'
<1>1. PICK where : Places(where)
  BY DEF PlaceInv
<1>2. PICK n \in Nat : n = Len(cskip_info)
  BY DEF Ready, InfoInv
<1>3. /\ where \in [1 .. n -> Op(play)]
      /\ \A j, k \in 1 .. n : j < k => where[k] < where[j]
      /\ \A k \in Op(play) :
           (InstrOf(play, k).op \in CondExp /\ Result(k).connect_type # "not_connected")
             <=> \E j \in 1 .. n : where[j] = k
      /\ \A k \in 1 .. n : k <= cskip_info_index <=> ~Passed(where[k])
      /\ (\A k \in 1 .. n : k <= cskip_info_index' <=> ~Passed(where[k])') => Places(where)'
  BY <1>1, <1>2, PlacesStay
<1>4. play \in Tapes /\ i \in Op(play) /\ i = Here + 1 /\ Here' = i /\ Here \in Op(play)
  BY AdvancePlace DEF Ready, CursorInv, Advances
<1>5. \A k \in Op(play) : k \in Nat
  BY <1>4, CodeFacts DEF Op
<1>6. \A k \in 1 .. n : where[k] \in Op(play) /\ where[k] \in Nat
  BY <1>3, <1>5
<1>7. \A k \in Op(play) : (Passed(k) <=> k <= Here) /\ (Passed(k)' <=> k <= i)
  BY <1>4, <1>5 DEF Passed
<1>8. PICK m \in 0 .. n : m = cskip_info_index
  BY <1>2 DEF PlaceInv
<1>9. PICK j \in 1 .. n : where[j] = i
  BY <1>3, <1>4
<1>10. i > Here /\ \A k \in Nat : k < i <=> k <= Here
  BY <1>4, <1>5
<1>11. j <= m
  BY <1>3, <1>4, <1>7, <1>8, <1>9, <1>10, <1>5
<1>12. j = m
  <2>1. ASSUME j < m PROVE FALSE
    <3>1. m \in 1 .. n
      BY <1>8, <1>9, <2>1
    <3>2. where[m] < i
      BY <1>3, <1>9, <2>1, <3>1
    <3>3. Passed(where[m])
      BY <1>6, <1>7, <1>10, <3>1, <3>2
    <3>4. QED
      BY <1>3, <1>8, <3>1, <3>3
  <2>2. QED
    BY <1>8, <1>9, <1>11, <2>1
<1>13. \A k \in 1 .. n : k <= m - 1 <=> ~Passed(where[k])'
  <2>1. ASSUME NEW k \in 1 .. n PROVE k <= m - 1 <=> ~ (where[k] <= i)
    <3>1. CASE k < m
      <4>1. i < where[k]
        BY <1>3, <1>9, <1>12, <3>1
      <4>2. QED
        BY <1>4, <1>5, <1>6, <1>8, <3>1, <4>1
    <3>2. CASE k = m
      BY <1>4, <1>5, <1>8, <1>9, <1>12, <3>2
    <3>3. CASE m < k
      <4>1. where[k] < i
        BY <1>3, <1>9, <1>12, <3>3
      <4>2. QED
        BY <1>4, <1>5, <1>6, <1>8, <3>3, <4>1
    <3>4. QED
      BY <1>8, <3>1, <3>2, <3>3
  <2>2. QED
    BY <1>6, <1>7, <2>1
<1>14. Places(where)'
  BY <1>3, <1>8, <1>13
<1>15. cskip_info_index' \in 0 .. n
  BY <1>8, <1>9, <1>12
<1>16. phase' # "reverse" /\ Len(cskip_info') = n
  BY <1>2 DEF Advances, KeepsAll
<1>17. QED
  BY <1>14, <1>15, <1>16 DEF PlaceInv

-----------------------------------------------------------------------------
(* All of them hold after a step of the second pass. *)
LEMMA AdvanceAll ==
  ASSUME IInv, Next, NEW i, Advances(i), HashInv', DepInv', CsumInv', PlaceInv'
  PROVE  IInv'
<1>1. Ready /\ MergedAgree /\ CursorInv
  BY DEF IInv, Ready
<1>2. CursorInv'
  BY <1>1, StepCursor
<1>3. ConnInv' /\ RecInv' /\ InfoInv' /\ FreshInv' /\ MergedAgree'
  BY <1>1, AdvanceConn, AdvanceRec, AdvanceFresh, AdvanceAgree
<1>4. QED
  BY <1>2, <1>3 DEF IInv

LEMMA KeepDep ==
  ASSUME DepInv, phase # "done", phase' # "done", play' = play, dep_taddr' = dep_taddr
  PROVE  DepInv'
  BY DEF DepInv

(* Most steps leave the table, the sums and the dependent variables alone, *)
(* and pass no conditional expression that is connected.                   *)
LEMMA PlainStep ==
  ASSUME IInv, Next, NEW i, Advances(i), phase = "forward", phase' = "forward",
         dep_taddr' = dep_taddr, csum_work' = csum_work, cskip_info_index' = cskip_info_index,
         HashInv',
         ~ (InstrOf(play, i).op \in CondExp /\ Result(i).connect_type # "not_connected")
  PROVE  IInv'
<1>1. Ready /\ DepInv /\ CsumInv /\ PlaceInv
  BY DEF IInv, Ready
<1>2. play' = play
  BY <1>1, AdvancePlace
<1>3. DepInv'
  BY <1>1, <1>2, KeepDep
<1>4. CsumInv'
  BY <1>1, <1>2, NoCsum
<1>5. PlaceInv'
  BY <1>1, KeepPlaces
<1>6. QED
  BY <1>3, <1>4, <1>5, AdvanceAll

LEMMA DropAll ==
  ASSUME IInv, Drop
  PROVE  IInv'
<1>1. Ready /\ HashInv /\ Next
  BY DEF IInv, Ready, Next
<1>2. PICK i \in Op(play) : Advances(i)
  BY <1>1, DropAdvances
<1>3. /\ phase = "forward" /\ phase' = "forward" /\ dep_taddr' = dep_taddr
      /\ csum_work' = csum_work /\ cskip_info_index' = cskip_info_index
      /\ hash_table_var' = hash_table_var /\ ~Kept(Current)
  BY DEF Drop, Forward
<1>4. HashInv'
  BY <1>1, <1>2, <1>3, KeepHash
<1>5. Current = InstrOf(play, i)
  BY <1>1, <1>2, <1>3, AdvancePlace DEF ForwardTo
<1>6. ~ (InstrOf(play, i).op \in CondExp /\ Result(i).connect_type # "not_connected")
  BY <1>3, <1>5, OpNames DEF Kept, Result
<1>7. QED
  BY <1>1, <1>2, <1>3, <1>4, <1>6, PlainStep

LEMMA MergeAll ==
  ASSUME IInv, Merge
  PROVE  IInv'
<1>1. Ready /\ HashInv /\ MergedAgree /\ Next
  BY DEF IInv, Ready, Next
<1>2. PICK i \in Op(play) : Advances(i)
  BY <1>1, MergeAdvances
<1>3. /\ phase = "forward" /\ phase' = "forward" /\ dep_taddr' = dep_taddr
      /\ csum_work' = csum_work /\ cskip_info_index' = cskip_info_index
      /\ hash_table_var' = hash_table_var /\ Current.op \in Unary \union Binary
  BY DEF Merge, Arithmetic, Forward
<1>4. HashInv'
  BY <1>1, <1>2, <1>3, KeepHash
<1>5. Current = InstrOf(play, i)
  BY <1>1, <1>2, <1>3, AdvancePlace DEF ForwardTo
<1>6. InstrOf(play, i).op \notin CondExp
  BY <1>3, <1>5, OpNames
<1>7. QED
  BY <1>1, <1>2, <1>3, <1>4, <1>6, PlainStep

LEMMA RecordArithmeticAll ==
  ASSUME IInv, RecordArithmetic
  PROVE  IInv'
<1>1. Ready /\ HashInv /\ Next
  BY DEF IInv, Ready, Next
<1>2. PICK i \in Op(play) : Advances(i)
  BY <1>1, RecordArithmeticAdvances
<1>3. /\ phase = "forward" /\ phase' = "forward" /\ dep_taddr' = dep_taddr
      /\ csum_work' = csum_work /\ cskip_info_index' = cskip_info_index
      /\ Current.op \in Unary \union Binary
  BY DEF RecordArithmetic, Arithmetic, Forward
<1>4. HashInv'
  BY <1>1, RecordHash
<1>5. Current = InstrOf(play, i)
  BY <1>1, <1>2, <1>3, AdvancePlace DEF ForwardTo
<1>6. InstrOf(play, i).op \notin CondExp
  BY <1>3, <1>5, OpNames
<1>7. QED
  BY <1>1, <1>2, <1>3, <1>4, <1>6, PlainStep

LEMMA RecordVariableAll ==
  ASSUME IInv, RecordVariable
  PROVE  IInv'
<1>1. Ready /\ HashInv /\ Next
  BY DEF IInv, Ready, Next
<1>2. PICK i \in Op(play) : Advances(i)
  BY <1>1, RecordVariableAdvances
<1>3. /\ phase = "forward" /\ phase' = "forward" /\ dep_taddr' = dep_taddr
      /\ csum_work' = csum_work /\ cskip_info_index' = cskip_info_index
      /\ hash_table_var' = hash_table_var /\ Current.op \in {"Inv", "Par"}
  BY DEF RecordVariable, Forward
<1>4. HashInv'
  BY <1>1, <1>2, <1>3, KeepHash
<1>5. Current = InstrOf(play, i)
  BY <1>1, <1>2, <1>3, AdvancePlace DEF ForwardTo
<1>6. InstrOf(play, i).op \notin CondExp
  BY <1>3, <1>5 DEF CondExp
<1>7. QED
  BY <1>1, <1>2, <1>3, <1>4, <1>6, PlainStep

LEMMA RecordCompareAll ==
  ASSUME IInv, RecordCompare
  PROVE  IInv'
<1>1. Ready /\ HashInv /\ Next
  BY DEF IInv, Ready, Next
<1>2. PICK i \in Op(play) : Advances(i)
  BY <1>1, RecordCompareAdvances
<1>3. /\ phase = "forward" /\ phase' = "forward" /\ dep_taddr' = dep_taddr
      /\ csum_work' = csum_work /\ cskip_info_index' = cskip_info_index
      /\ hash_table_var' = hash_table_var /\ Current.op \in Comparison
  BY DEF RecordCompare, Forward
<1>4. HashInv'
  BY <1>1, <1>2, <1>3, KeepHash
<1>5. Current = InstrOf(play, i)
  BY <1>1, <1>2, <1>3, AdvancePlace DEF ForwardTo
<1>6. InstrOf(play, i).op \notin CondExp
  BY <1>3, <1>5, OpNames
<1>7. QED
  BY <1>1, <1>2, <1>3, <1>4, <1>6, PlainStep

LEMMA RecordCondExpAll ==
  ASSUME IInv, RecordCondExp
  PROVE  IInv'
<1>1. Ready /\ HashInv /\ Next /\ DepInv /\ CsumInv /\ PlaceInv
  BY DEF IInv, Ready, Next
<1>2. PICK i \in Op(play) : Advances(i)
  BY <1>1, RecordCondExpAdvances
<1>3. /\ phase = "forward" /\ phase' = "forward" /\ dep_taddr' = dep_taddr
      /\ csum_work' = csum_work /\ cskip_info_index' = cskip_info_index - 1
      /\ hash_table_var' = hash_table_var /\ Current.op \in CondExp /\ Kept(Current)
  BY DEF RecordCondExp, Forward
<1>4. HashInv'
  BY <1>1, <1>2, <1>3, KeepHash
<1>5. Current = InstrOf(play, i) /\ play' = play
  BY <1>1, <1>2, <1>3, AdvancePlace DEF ForwardTo
<1>6. InstrOf(play, i).op \in CondExp /\ Result(i).connect_type # "not_connected"
  BY <1>3, <1>5 DEF Kept, Result
<1>7. PlaceInv'
  BY <1>1, <1>2, <1>3, <1>6, CountPlace
<1>8. DepInv' /\ CsumInv'
  BY <1>1, <1>3, <1>5, KeepDep, NoCsum
<1>9. QED
  BY <1>1, <1>2, <1>4, <1>7, <1>8, AdvanceAll

LEMMA StartSumAll ==
  ASSUME IInv, StartSum
  PROVE  IInv'
<1>1. Ready /\ HashInv /\ Next /\ DepInv /\ CsumInv /\ PlaceInv
  BY DEF IInv, Ready, Next
<1>2. PICK i \in Op(play) : Advances(i)
  BY <1>1, StartSumAdvances
<1>3. /\ phase = "forward" /\ phase' = "csum" /\ dep_taddr' = dep_taddr
      /\ cskip_info_index' = cskip_info_index /\ hash_table_var' = hash_table_var
      /\ Current.op \in Summation
  BY DEF StartSum, Forward
<1>4. HashInv'
  BY <1>1, <1>2, <1>3, KeepHash
<1>5. Current = InstrOf(play, i) /\ play' = play
  BY <1>1, <1>2, <1>3, AdvancePlace DEF ForwardTo
<1>6. InstrOf(play, i).op \notin CondExp
  BY <1>3, <1>5, OpNames
<1>7. PlaceInv'
  BY <1>1, <1>2, <1>3, <1>6, KeepPlaces
<1>8. DepInv' /\ CsumInv'
  BY <1>1, <1>3, <1>5, KeepDep, StartCsum
<1>9. QED
  BY <1>1, <1>2, <1>4, <1>7, <1>8, AdvanceAll

LEMMA SumEndAll ==
  ASSUME IInv, SumEnd
  PROVE  IInv'
<1>1. Ready /\ HashInv /\ Next /\ DepInv /\ CsumInv /\ PlaceInv
  BY DEF IInv, Ready, Next
<1>2. PICK i : i = Here
  OBVIOUS
<1>3. Advances(i)
  BY <1>1, <1>2, SumEndAdvances
<1>4. /\ phase = "csum" /\ phase' = "forward" /\ dep_taddr' = dep_taddr
      /\ cskip_info_index' = cskip_info_index /\ hash_table_var' = hash_table_var
      /\ csum_work' = NoWork
  BY DEF SumEnd
<1>5. HashInv'
  BY <1>1, <1>3, <1>4, KeepHash
<1>6. InstrOf(play, i).op \in Summation /\ play' = play
  BY <1>1, <1>3, <1>4, AdvancePlace
<1>7. InstrOf(play, i).op \notin CondExp
  BY <1>6, OpNames
<1>8. PlaceInv'
  BY <1>1, <1>3, <1>4, <1>7, KeepPlaces
<1>9. DepInv' /\ CsumInv'
  BY <1>1, <1>4, <1>6, KeepDep, NoCsum
<1>10. QED
  BY <1>1, <1>3, <1>5, <1>8, <1>9, AdvanceAll

LEMMA FinishAll ==
  ASSUME IInv, Finish
  PROVE  IInv'
<1>1. Ready /\ HashInv /\ Next /\ DepInv /\ CsumInv /\ PlaceInv
  BY DEF IInv, Ready, Next
<1>2. PICK i \in Op(play) : Advances(i)
  BY <1>1, FinishAdvances
<1>3. /\ phase = "forward" /\ phase' = "done" /\ csum_work' = csum_work
      /\ cskip_info_index' = cskip_info_index /\ hash_table_var' = hash_table_var
      /\ Current.op = "End"
  BY DEF Finish, Forward
<1>4. HashInv'
  BY <1>1, <1>2, <1>3, KeepHash
<1>5. Current = InstrOf(play, i) /\ play' = play
  BY <1>1, <1>2, <1>3, AdvancePlace DEF ForwardTo
<1>6. InstrOf(play, i).op \notin CondExp
  BY <1>3, <1>5 DEF CondExp
<1>7. PlaceInv'
  BY <1>1, <1>2, <1>3, <1>6, KeepPlaces
<1>8. DepInv' /\ CsumInv'
  BY <1>1, <1>3, <1>5, FinishDep, NoCsum
<1>9. QED
  BY <1>1, <1>2, <1>4, <1>7, <1>8, AdvanceAll

(* The variables of these invariants do not change. *)
LEMMA StillAll ==
  ASSUME IInv, CsumInv', [Next]_vars,
         UNCHANGED <<play, conditional_skip, phase, cursor, tape, cskip_info,
                     cskip_info_order, cskip_order_next, cskip_info_index,
                     hash_table_var, rec, dep_taddr>>
  PROVE  IInv'
<1>1. CursorInv'
  BY StepCursor DEF IInv
<1>2. ConnInv'
  BY DEF IInv, ConnInv, Seen, Here, Result
<1>3. RecInv' /\ InfoInv' /\ DepInv'
  BY DEF IInv, RecInv, InfoInv, DepInv
<1>4. FreshInv'
  BY DEF IInv, FreshInv, HasNewVar, Invalid, Passed, Recorded, Result, Here
<1>5. HashInv'
  BY DEF IInv, HashInv, HasNewVar, Here
<1>6. PlaceInv'
  BY DEF IInv, PlaceInv, Places, Seen, Passed, Result, Here
<1>7. MergedAgree'
  BY DEF IInv, MergedAgree, Invalid
<1>8. QED
  BY <1>1, <1>2, <1>3, <1>4, <1>5, <1>6, <1>7 DEF IInv

LEMMA SumNextAll ==
  ASSUME IInv, SumNext
  PROVE  IInv'
<1>1. CsumInv'
  BY SumNextCsum DEF IInv, Ready
<1>2. QED
  BY <1>1, StillAll DEF SumNext, Next

LEMMA StutterAll ==
  ASSUME IInv, UNCHANGED vars
  PROVE  IInv'
<1>1. CsumInv'
  BY DEF IInv, vars, CsumInv, Works, SumEntries, Worked, Gathering, HasNewVar, Recorded,
         Result, Here
<1>2. QED
  BY <1>1, StillAll DEF vars

-----------------------------------------------------------------------------
(* What follows from the invariants. *)
LEMMA InvTypes ==
  ASSUME IInv
  PROVE  TypeOK
<1>1. CursorInv /\ ConnInv /\ RecInv /\ InfoInv /\ FreshInv /\ HashInv /\ DepInv /\ PlaceInv
      /\ play \in Tapes /\ Ready
  BY DEF IInv, CursorInv, Ready
<1>2. /\ conditional_skip \in BOOLEAN /\ phase \in {"reverse", "forward", "csum", "done"}
      /\ cursor.op_index_ \in 0 .. play.num_op_rec - 1
      /\ cursor = At(play, cursor.op_index_)
  BY <1>1 DEF CursorInv, Here, Op
<1>3. PICK n \in Nat : n = Len(cskip_info) /\ DOMAIN cskip_info = 1 .. n
  BY <1>1 DEF InfoInv
<1>4. tape \in Entries(play, n)
  BY <1>1, <1>3 DEF ConnInv
<1>5. Len(rec.op_rec_) \in Nat
  BY <1>1 DEF RecInv
<1>6. ASSUME NEW a \in Address(play)
      PROVE  /\ tape[a].ins \in {Instr(play, At(play, i)) : i \in 0 .. play.num_op_rec - 1}
             /\ tape[a].connect_type \in connect_types
             /\ tape[a].cexp_set \subseteq BOOLEAN \X DOMAIN cskip_info
             /\ tape[a].new_var \in 0 .. Invalid
             /\ tape[a].new_op \in 0 .. Len(rec.op_rec_)
             /\ tape[a].match \in BOOLEAN
  <2>1. tape[a] \in Entry(play, n)
    BY <1>4 DEF Entries
  <2>2. tape[a].ins \in {Instr(play, At(play, i)) : i \in 0 .. play.num_op_rec - 1}
    BY <2>1 DEF Entry, InstrOf, Op
  <2>3. tape[a].connect_type \in connect_types /\ tape[a].match \in BOOLEAN
        /\ tape[a].cexp_set \subseteq BOOLEAN \X (1 .. n)
        /\ tape[a].new_var \in 0 .. play.num_var_rec /\ tape[a].new_op \in Nat
    BY <2>1 DEF Entry
  <2>4. tape[a].new_op <= Len(rec.op_rec_)
    BY <1>1 DEF FreshInv
  <2>5. QED
    BY <1>3, <1>5, <2>2, <2>3, <2>4 DEF Invalid
<1>7. /\ Len(cskip_info_order) \in {0, n} /\ Range(cskip_info_order) \subseteq 1 .. n
      /\ cskip_order_next \in 1 .. Len(cskip_info_order) + 1
  <2>1. CASE phase = "reverse"
    <3>1. cskip_info_order = <<>> /\ cskip_order_next = 1
      BY <1>1, <2>1 DEF InfoInv
    <3>2. Len(cskip_info_order) = 0 /\ DOMAIN cskip_info_order = {}
      BY <3>1
    <3>3. QED
      BY <3>1, <3>2 DEF Range
  <2>2. CASE phase # "reverse"
    <3>1. cskip_info_order \in [1 .. n -> 1 .. n] /\ cskip_order_next \in 1 .. n + 1
      BY <1>1, <1>3, <2>2 DEF InfoInv
    <3>2. Len(cskip_info_order) = n /\ DOMAIN cskip_info_order = 1 .. n
      BY <3>1, FunctionSeq
    <3>3. QED
      BY <3>1, <3>2 DEF Range
  <2>3. QED
    BY <2>1, <2>2
<1>8. cskip_info_index \in 0 .. n
  BY <1>1, <1>3 DEF PlaceInv
<1>9. hash_table_var \in [HashCode -> Address(play)]
  BY <1>1 DEF HashInv
<1>10. rec.num_var_rec_ \in 0 .. play.num_var_rec
  <2>1. rec.num_var_rec_ \in Nat /\ play.num_var_rec \in Nat
    BY <1>1, Ends DEF RecInv
  <2>2. rec.num_var_rec_ <= play.num_var_rec
    <3>1. CASE phase = "reverse"
      <4>1. rec.num_var_rec_ = 0
        BY <1>1, <3>1 DEF RecInv, EmptyRecorder
      <4>2. QED
        BY <2>1, <4>1
    <3>2. CASE phase # "reverse"
      BY <1>1, <3>2, NewBound
    <3>3. QED
      BY <3>1, <3>2
  <2>3. QED
    BY <2>1, <2>2
<1>11. dep_taddr \in Seq(Address(play))
  <2>1. CASE phase = "done"
    BY <1>1, <2>1 DEF DepInv
  <2>2. CASE phase # "done"
    <3>1. dep_taddr = play.dep_taddr_ /\ play.dep_taddr_ \in Seq(1 .. play.num_var_rec - 1)
      BY <1>1, <2>2, TapesAssumption DEF DepInv, WellFormed, Vectors
    <3>2. PICK s, m : s = dep_taddr /\ m = Len(s)
      OBVIOUS
    <3>3. m \in Nat /\ s \in Seq(1 .. play.num_var_rec - 1) /\ DOMAIN s = 1 .. m
      BY <3>1, <3>2
    <3>4. \A k \in 1 .. m : s[k] \in Address(play)
      BY <1>1, <3>1, <3>2, <3>3 DEF ConnInv
    <3>5. s \in [1 .. m -> Address(play)]
      BY <3>3, <3>4
    <3>6. s \in Seq(Address(play))
      BY <3>3, <3>5
    <3>7. QED
      BY <3>2, <3>6
  <2>3. QED
    BY <2>1, <2>2
<1>12. DOMAIN tape = Address(play)
  BY <1>4 DEF Entries
<1>13. QED
  BY <1>2, <1>3, <1>6, <1>7, <1>8, <1>9, <1>10, <1>11, <1>12 DEF TypeOK

LEMMA InvOperands ==
  ASSUME IInv
  PROVE  OperandsRecorded
<1>1. Ready /\ CsumInv /\ play \in Tapes
  BY DEF IInv, Ready, CursorInv
<1>2. ASSUME phase = "forward", Current.op \in Comparison \/ Kept(Current),
             ~GathersSum(Current), NEW j \in DOMAIN Current.arg, Current.kind[j] = "v"
      PROVE  HasNewVar(Current.arg[j])
  <2>1. PICK i \in Op(play) : ForwardTo(i)
    BY <1>1, <1>2, ForwardIs DEF Ready
  <2>2. Current = InstrOf(play, i) /\ i = Here + 1
    BY <2>1 DEF ForwardTo
  <2>3. NumRes(Current.op) > 0 \/ Current.op \in Comparison
    <3>1. Current.op # "End"
      BY <1>1, <1>2, <2>2, Operation DEF Operated
    <3>2. Current.op \in Unary \union Binary \union CondExp \union {"Begin", "Inv", "Par"}
          \/ Current.op \in Comparison
      BY <1>1, <2>2, <3>1, Location DEF Located
    <3>3. QED
      BY <3>2, ResultCounts
  <2>4. Reached(i)
    BY <1>2, <2>2, <2>3 DEF Reached, Kept, Result
  <2>5. PICK a : a = Current.arg[j]
    OBVIOUS
  <2>6. /\ HasNewVar(a) <=> tape[a].connect_type # "csum_connected"
        /\ tape[a].connect_type = "csum_connected" => Current.op \in Summation
    BY <1>1, <1>2, <2>2, <2>4, <2>5, OperandReady
  <2>7. Current.op \in Summation => tape[a].connect_type # "csum_connected"
    BY <1>2, <2>5 DEF GathersSum
  <2>8. QED
    BY <2>5, <2>6, <2>7
<1>3. ASSUME phase = "csum"
      PROVE  /\ \A a \in Range(csum_work.add_stack) \union Range(csum_work.sub_stack) :
                  HasNewVar(a)
             /\ \A var \in Range(csum_work.op_stack) : Gathering(var)
  BY <1>1, <1>3 DEF CsumInv, Worked, Range
<1>4. ASSUME phase = "csum", NEW var, Gathering(var), NEW j \in DOMAIN var.ins.arg,
             var.ins.kind[j] = "v"
      PROVE  HasNewVar(var.ins.arg[j]) # (tape[var.ins.arg[j]].connect_type = "csum_connected")
  <2>1. PICK i \in Op(play) : /\ i <= Here /\ var.ins = InstrOf(play, i)
                              /\ InstrOf(play, i).op \in Summation
                              /\ Result(i).connect_type # "not_connected"
    BY <1>4 DEF Gathering
  <2>2. NumRes(InstrOf(play, i).op) > 0
    BY <2>1, ResultCounts DEF Summation, Binary
  <2>3. Reached(i)
    BY <2>1, <2>2 DEF Reached
  <2>4. HasNewVar(var.ins.arg[j]) <=> tape[var.ins.arg[j]].connect_type # "csum_connected"
    BY <1>1, <1>4, <2>1, <2>3, OperandReady
  <2>5. PICK p, q : p = HasNewVar(var.ins.arg[j])
                    /\ q = (tape[var.ins.arg[j]].connect_type = "csum_connected")
    OBVIOUS
  <2>6. QED
    BY <2>4
<1>5. QED
  BY <1>2, <1>3, <1>4 DEF OperandsRecorded

-----------------------------------------------------------------------------
(* The invariant on which the others rest: what the first pass has found   *)
(* out of each variable, which of them have been recorded and by which     *)
(* addresses, what the table of hash codes and the work stacks of          *)
(* record_csum hold, and which conditional expression comes next.          *)
THEOREM InvariantKept == Spec => []IInv
<1>1. Init => IInv
  BY InitAll
<1>2. IInv /\ [Next]_vars => IInv'
  BY ReverseAll, PrepareAll, DropAll, MergeAll, RecordArithmeticAll, RecordVariableAll,
     RecordCondExpAll, RecordCompareAll, StartSumAll, SumNextAll, SumEndAll, FinishAll,
     StutterAll DEF Next
<1>3. QED
  BY <1>1, <1>2, PTL DEF Spec

(***************************************************************************)
(* The cursor, the tables of both passes and the recorder keep their       *)
(* types.  In particular hash_table_var never holds what is not the        *)
(* address of a variable, cskip_info_index never passes zero, and the new  *)
(* recording has no more variables than the old one.                       *)
(***************************************************************************)
THEOREM TypeCorrect == Spec => []TypeOK
<1>1. IInv => TypeOK
  BY InvTypes
<1>2. QED
  BY <1>1, InvariantKept, PTL

(***************************************************************************)
(* The assertions of record_pv, record_vp, record_vv, record_csum and of   *)
(* the second pass never fail: whatever was left out, replaced or made     *)
(* part of a sum, the operands of what is recorded have been recorded.     *)
(***************************************************************************)
THEOREM OperandsStayRecorded == Spec => []OperandsRecorded
<1>1. IInv => OperandsRecorded
  BY InvOperands
<1>2. QED
  BY <1>1, InvariantKept, PTL

(***************************************************************************)
(* optimize identifies only variables that are equal whatever the          *)
(* independent variables are: hash codes that collide, entries of the      *)
(* table that are out of date and exchanged operands do no harm.           *)
(***************************************************************************)
THEOREM MergedStayEqual == Spec => []MergedAgree
<1>1. IInv => MergedAgree
  BY DEF IInv
<1>2. QED
  BY <1>1, InvariantKept, PTL

-----------------------------------------------------------------------------
(* The new recording, as long as it has no conditional skips.              *)

LEMMA NewRecordingOf ==
  NewRecording = RecordingOf(rec, play.n, dep_taddr)
BY DEF NewRecording, RecordingOf

(* PutArg, PutOp, and PutPar before them, extend the recording. *)
LEMMA PutExtended ==
  ASSUME NEW Q \in Recorder, NEW n \in Nat, NEW dep, NEW dep2, Begun(RecordingOf(Q, n, dep)),
         NEW R, Extends(Q, R), NEW code \in OpCodeRec, NEW words \in Seq(Nat)
  PROVE  LET u == RecordingOf(Put(R, code, words), n, dep2)
         IN  Extended(RecordingOf(Q, n, dep), u, code, words)
<1> DEFINE t == RecordingOf(Q, n, dep)
           P == Put(R, code, words)
           u == RecordingOf(P, n, dep2)
<1>1. Listed(t) /\ t.num_op_rec > 0 /\ t.last[t.num_op_rec - 1] = t.num_var_rec - 1
  BY DEF Begun
<1>2. Level(Q)
  BY <1>1, ListedLevel
<1>3. /\ Q.op_rec_ \in Seq(OpCodeRec) /\ Q.op_arg_rec_ \in Seq(Nat) /\ Q.num_var_rec_ \in Nat
      /\ Q.first \in Seq(Nat) /\ Q.last \in Seq(Nat) /\ Q.par_rec_ \in Seq(Num)
  BY DEF Recorder
<1>4. /\ R \in Recorder
      /\ R.op_rec_ = Q.op_rec_ /\ R.op_arg_rec_ = Q.op_arg_rec_
      /\ R.num_var_rec_ = Q.num_var_rec_ /\ R.first = Q.first /\ R.last = Q.last
      /\ Len(Q.par_rec_) <= Len(R.par_rec_)
      /\ \A k \in 1 .. Len(Q.par_rec_) : R.par_rec_[k] = Q.par_rec_[k]
  BY DEF Extends
<1>5. /\ t.n = n /\ t.num_op_rec = Len(Q.op_rec_) /\ t.num_op_arg_rec = Len(Q.op_arg_rec_)
      /\ t.num_var_rec = Q.num_var_rec_ /\ t.par_rec_ = Q.par_rec_
      /\ t.op_rec_ = FromZero(Q.op_rec_) /\ t.op_arg_rec_ = FromZero(Q.op_arg_rec_)
      /\ t.first = FromZero(Q.first) /\ t.last = FromZero(Q.last)
  BY RecordingFields
<1>6. /\ u.n = n /\ u.num_op_rec = Len(P.op_rec_) /\ u.num_op_arg_rec = Len(P.op_arg_rec_)
      /\ u.num_var_rec = P.num_var_rec_ /\ u.par_rec_ = P.par_rec_
      /\ u.op_rec_ = FromZero(P.op_rec_) /\ u.op_arg_rec_ = FromZero(P.op_arg_rec_)
      /\ u.first = FromZero(P.first) /\ u.last = FromZero(P.last)
  BY RecordingFields
<1>7. Q.num_var_rec_ > 0
  <2>1. t.last \in [Op(t) -> Nat] /\ t.num_op_rec - 1 \in Op(t)
    BY <1>1 DEF Listed, Op
  <2>2. t.num_var_rec - 1 \in Nat
    BY <1>1, <2>1
  <2> HIDE DEF t
  <2>3. QED
    BY <1>3, <1>5, <2>2
<1>8. NumRes(code.op) \in Nat
  BY DEF NumRes
<1>9. /\ P \in Recorder
      /\ P.num_var_rec_ = Q.num_var_rec_ + NumRes(code.op)
      /\ P.par_rec_ = R.par_rec_
      /\ P.op_rec_ = Append(Q.op_rec_, code)
      /\ P.op_arg_rec_ = Q.op_arg_rec_ \o words
      /\ P.first = Append(Q.first, Len(Q.op_arg_rec_))
      /\ P.last = Append(Q.last, Q.num_var_rec_ + NumRes(code.op) - 1)
  <2>1. R.num_var_rec_ + NumRes(code.op) > 0
    BY <1>3, <1>4, <1>7, <1>8
  <2>2. /\ Put(R, code, words) \in Recorder
        /\ Put(R, code, words).num_var_rec_ = R.num_var_rec_ + NumRes(code.op)
        /\ Put(R, code, words).par_rec_ = R.par_rec_
        /\ Put(R, code, words).op_rec_ = Append(R.op_rec_, code)
        /\ Put(R, code, words).op_arg_rec_ = R.op_arg_rec_ \o words
        /\ Put(R, code, words).first = Append(R.first, Len(R.op_arg_rec_))
        /\ Put(R, code, words).last = Append(R.last, R.num_var_rec_ + NumRes(code.op) - 1)
    BY <1>4, <2>1, PutFacts
  <2> HIDE DEF t, u, P
  <2>3. QED
    BY <1>4, <2>2 DEF P
<1> HIDE DEF P, t, u
<1>10. /\ Len(P.op_rec_) = Len(Q.op_rec_) + 1 /\ Len(P.first) = Len(Q.op_rec_) + 1
       /\ Len(P.last) = Len(Q.op_rec_) + 1
       /\ \A k \in 1 .. Len(Q.op_rec_) : /\ P.op_rec_[k] = Q.op_rec_[k]
                                         /\ P.first[k] = Q.first[k] /\ P.last[k] = Q.last[k]
       /\ P.op_rec_[Len(Q.op_rec_) + 1] = code
       /\ P.first[Len(Q.op_rec_) + 1] = Len(Q.op_arg_rec_)
       /\ P.last[Len(Q.op_rec_) + 1] = Q.num_var_rec_ + NumRes(code.op) - 1
  <2>1. Len(Q.first) = Len(Q.op_rec_) /\ Len(Q.last) = Len(Q.op_rec_)
    BY <1>2 DEF Level
  <2>2. Len(P.op_rec_) = Len(Q.op_rec_) + 1 /\ P.op_rec_[Len(Q.op_rec_) + 1] = code
        /\ \A k \in 1 .. Len(Q.op_rec_) : P.op_rec_[k] = Q.op_rec_[k]
    BY <1>3, <1>9
  <2>3. Len(P.first) = Len(Q.first) + 1 /\ P.first[Len(Q.first) + 1] = Len(Q.op_arg_rec_)
        /\ \A k \in 1 .. Len(Q.first) : P.first[k] = Q.first[k]
    BY <1>3, <1>9
  <2>4. Len(P.last) = Len(Q.last) + 1
        /\ P.last[Len(Q.last) + 1] = Q.num_var_rec_ + NumRes(code.op) - 1
        /\ \A k \in 1 .. Len(Q.last) : P.last[k] = Q.last[k]
    BY <1>3, <1>9
  <2>5. QED
    BY <2>1, <2>2, <2>3, <2>4
<1>11. /\ Len(P.op_arg_rec_) = Len(Q.op_arg_rec_) + Len(words)
       /\ \A k \in 1 .. Len(Q.op_arg_rec_) : P.op_arg_rec_[k] = Q.op_arg_rec_[k]
       /\ \A k \in 1 .. Len(words) : P.op_arg_rec_[Len(Q.op_arg_rec_) + k] = words[k]
  BY <1>3, <1>9, JoinedWords
<1>12. Level(P)
  BY <1>10 DEF Level
<1>13. Listed(u)
  BY <1>9, <1>12, LevelListed DEF u
<1> DEFINE m == Len(Q.op_rec_)
           l == Len(Q.op_arg_rec_)
<1>14. m \in Nat /\ l \in Nat /\ Len(words) \in Nat
  BY <1>3
<1>15. \A k \in 0 .. m : k + 1 \in 1 .. m + 1
  BY <1>14
<1>16. /\ \A k \in 0 .. m : /\ u.op_rec_[k] = P.op_rec_[k + 1] /\ u.first[k] = P.first[k + 1]
                            /\ u.last[k] = P.last[k + 1]
       /\ \A k \in 0 .. m - 1 : /\ t.op_rec_[k] = Q.op_rec_[k + 1] /\ t.first[k] = Q.first[k + 1]
                                /\ t.last[k] = Q.last[k + 1]
  <2>1. Len(Q.first) = m /\ Len(Q.last) = m /\ Len(P.op_rec_) - 1 = m /\ Len(P.first) - 1 = m
        /\ Len(P.last) - 1 = m
    BY <1>2, <1>10, <1>14 DEF Level
  <2>2. \A k \in 0 .. m : /\ FromZero(P.op_rec_)[k] = P.op_rec_[k + 1]
                          /\ FromZero(P.first)[k] = P.first[k + 1]
                          /\ FromZero(P.last)[k] = P.last[k + 1]
    BY <2>1 DEF FromZero
  <2>3. \A k \in 0 .. m - 1 : /\ FromZero(Q.op_rec_)[k] = Q.op_rec_[k + 1]
                              /\ FromZero(Q.first)[k] = Q.first[k + 1]
                              /\ FromZero(Q.last)[k] = Q.last[k + 1]
    BY <2>1 DEF FromZero
  <2> HIDE DEF m, l
  <2>4. QED
    BY <1>5, <1>6, <2>2, <2>3
<1>17. /\ \A k \in 0 .. l + Len(words) - 1 : u.op_arg_rec_[k] = P.op_arg_rec_[k + 1]
       /\ \A k \in 0 .. l - 1 : t.op_arg_rec_[k] = Q.op_arg_rec_[k + 1]
  <2>1. Len(P.op_arg_rec_) - 1 = l + Len(words) - 1
    BY <1>11, <1>14
  <2>2. QED
    BY <1>5, <1>6, <2>1 DEF FromZero
<1>18. \A k \in 0 .. l - 1 : u.op_arg_rec_[k] = t.op_arg_rec_[k]
  <2>1. \A k \in 0 .. l - 1 : k \in 0 .. l + Len(words) - 1 /\ k + 1 \in 1 .. l
    BY <1>14
  <2>2. QED
    BY <1>11, <1>17, <2>1
<1>19. \A k \in 1 .. Len(words) : u.op_arg_rec_[l + k - 1] = words[k]
  <2>1. \A k \in 1 .. Len(words) : l + k - 1 \in 0 .. l + Len(words) - 1 /\ (l + k - 1) + 1 = l + k
    BY <1>14
  <2>2. \A k \in 1 .. Len(words) : u.op_arg_rec_[l + k - 1] = P.op_arg_rec_[(l + k - 1) + 1]
    BY <1>17, <2>1
  <2>3. QED
    BY <1>11, <2>1, <2>2
<1>20. \A k \in 0 .. m - 1 : /\ u.op_rec_[k] = t.op_rec_[k] /\ u.first[k] = t.first[k]
                             /\ u.last[k] = t.last[k]
  <2>1. \A k \in 0 .. m - 1 : k \in 0 .. m /\ k + 1 \in 1 .. m
    BY <1>14
  <2>2. QED
    BY <1>10, <1>16, <2>1
<1>21. u.op_rec_[m] = code /\ u.first[m] = l /\ u.last[m] = u.num_var_rec - 1
  <2>1. m \in 0 .. m
    BY <1>14
  <2>2. u.op_rec_[m] = P.op_rec_[m + 1] /\ u.first[m] = P.first[m + 1] /\ u.last[m] = P.last[m + 1]
    BY <1>16, <2>1
  <2>3. P.op_rec_[m + 1] = code /\ P.first[m + 1] = l
        /\ P.last[m + 1] = Q.num_var_rec_ + NumRes(code.op) - 1
    BY <1>10
  <2>4. u.num_var_rec = Q.num_var_rec_ + NumRes(code.op)
    BY <1>6, <1>9
  <2>5. u.last[m] = u.num_var_rec - 1
    <3> HIDE DEF m, l
    <3>1. u.last[m] = Q.num_var_rec_ + NumRes(code.op) - 1
      BY <2>2, <2>3
    <3>2. QED
      BY <1>3, <1>8, <2>4, <3>1
  <2>6. u.op_rec_[m] = code /\ u.first[m] = l
    BY <2>2, <2>3
  <2> HIDE DEF m, l
  <2>7. QED
    BY <2>5, <2>6

<1>22. Op(t) = 0 .. m - 1 /\ t.num_op_rec = m /\ t.num_op_arg_rec = l
  BY <1>5 DEF Op
<1>23. Extended(t, u, code, words)
  <2>1. /\ Listed(u) /\ u.n = t.n /\ u.num_op_rec = t.num_op_rec + 1
        /\ u.num_op_arg_rec = t.num_op_arg_rec + Len(words)
        /\ u.num_var_rec = t.num_var_rec + NumRes(code.op)
    BY <1>5, <1>6, <1>9, <1>10, <1>11, <1>13
  <2>2. /\ Len(t.par_rec_) <= Len(u.par_rec_)
        /\ \A k \in 1 .. Len(t.par_rec_) : u.par_rec_[k] = t.par_rec_[k]
    BY <1>4, <1>5, <1>6, <1>9
  <2> HIDE DEF m, l
  <2>3. /\ \A i \in Op(t) : /\ u.op_rec_[i] = t.op_rec_[i]
                            /\ u.first[i] = t.first[i] /\ u.last[i] = t.last[i]
        /\ u.op_rec_[t.num_op_rec] = code
        /\ u.first[t.num_op_rec] = t.num_op_arg_rec
        /\ u.last[t.num_op_rec] = u.num_var_rec - 1
    BY <1>20, <1>21, <1>22
  <2>4. /\ \A k \in 0 .. t.num_op_arg_rec - 1 : u.op_arg_rec_[k] = t.op_arg_rec_[k]
        /\ \A k \in 1 .. Len(words) : u.op_arg_rec_[t.num_op_arg_rec + k - 1] = words[k]
    BY <1>18, <1>19, <1>22
  <2>5. QED
    BY <2>1, <2>2, <2>3, <2>4 DEF Extended
<1>24. QED
  BY <1>23 DEF t, u, P

LEMMA KindSeq ==
  ASSUME NEW t \in Tapes, NEW i \in Op(t)
  PROVE  InstrOf(t, i).kind \in Seq({"v", "p"})
<1>1. CASE t.op_rec_[i].op = "CExp"
  <2>1. OpAt(t, At(t, i)).op = "CExp"
    BY <1>1 DEF OpAt, At
  <2>2. InstrOf(t, i).kind = Kinds(Arg(t, At(t, i), 1), 4)
    BY <2>1 DEF InstrOf, Instr, CondExpAt
  <2>3. Kinds(Arg(t, At(t, i), 1), 4) \in [1 .. 4 -> {"v", "p"}]
    BY DEF Kinds
  <2>4. QED
    BY <2>2, <2>3, ShortSeqOf
<1>2. CASE t.op_rec_[i].op # "CExp"
  BY <1>2, OtherOf, CodeFacts
<1>3. QED
  BY <1>1, <1>2

LEMMA CopiesInstr ==
  ASSUME NEW p \in Tapes, NEW i \in Op(p), i > 0, NEW t, Begun(t), NEW u, NEW args,
         Copies(p, i, t, u, args)
  PROVE  LET ins == InstrOf(u, t.num_op_rec)
         IN  /\ ins.op = InstrOf(p, i).op /\ ins.kind = InstrOf(p, i).kind
             /\ ins.arg = args /\ ins.res = u.num_var_rec - 1
             /\ Size(u, t.num_op_rec) = Len(CopiedWords(p, i, args))
<1>1. p.op_rec_[i] \in OpCodeRec /\ p.op_rec_[i].op \notin Optimized /\ p.op_rec_[i].op # "Begin"
  BY CodeFacts
<1>2. p.op_rec_[i].op = "CExp" => Arg(p, At(p, i), 0) \in Nat /\ Arg(p, At(p, i), 1) \in Nat
  <2>1. SUFFICES ASSUME p.op_rec_[i].op = "CExp"
                 PROVE  Arg(p, At(p, i), 0) \in Nat /\ Arg(p, At(p, i), 1) \in Nat
    OBVIOUS
  <2>2. NumArg(p.op_rec_[i]) = 6
    BY <2>1 DEF NumArg, Optimized
  <2>3. QED
    BY <2>2, ArgNat
<1>3. Listed(t)
  BY DEF Begun
<1>4. /\ args \in Seq(Nat) /\ DOMAIN args = DOMAIN InstrOf(p, i).arg
      /\ CopiedWords(p, i, args) \in Seq(Nat)
      /\ Extended(t, u, p.op_rec_[i], CopiedWords(p, i, args))
  BY DEF Copies
<1>5. CopiedAt(t, u, p, i, args)
  BY <1>1, <1>2, <1>3, <1>4 DEF CopiedAt
<1>6. QED
  BY <1>5, CopiedLine

LEMMA CopiesBegun ==
  ASSUME NEW p \in Tapes, NEW i \in Op(p), i > 0, NEW t, Begun(t), NEW u, NEW args,
         Copies(p, i, t, u, args)
  PROVE  Begun(u)
<1> DEFINE n == t.num_op_rec
           ins == InstrOf(u, n)
           words == CopiedWords(p, i, args)
<1>1. /\ ins.op = InstrOf(p, i).op /\ ins.kind = InstrOf(p, i).kind
      /\ ins.arg = args /\ ins.res = u.num_var_rec - 1 /\ Size(u, n) = Len(words)
  BY CopiesInstr
<1>2. /\ Listed(t) /\ Listed(u) /\ n \in Nat /\ n > 0 /\ u.op_rec_[n] = p.op_rec_[i]
      /\ u.n = p.n /\ words \in Seq(Nat) /\ args \in Seq(Nat)
      /\ u.first[n] = t.num_op_arg_rec /\ u.num_op_arg_rec = t.num_op_arg_rec + Len(words)
      /\ t.num_op_arg_rec \in Nat /\ t.num_var_rec \in Nat
      /\ u.num_var_rec = t.num_var_rec + NumRes(p.op_rec_[i].op)
  BY DEF Begun, Copies, Extended, Listed
<1>3. /\ p.op_rec_[i].op \notin Optimized /\ p.op_rec_[i].op # "Begin"
      /\ p.op_rec_[i].op = "Inv" <=> n \in 1 .. u.n
  BY <1>2, CodeFacts, InvPlaces DEF Copies
<1>4. u.op_rec_[n].op = "CExp" => ins.op \in CondExp
  BY <1>1, <1>2, CondExpOf
<1>5. Size(u, n) \in Nat /\ u.first[n] + Size(u, n) <= u.num_op_arg_rec
  <2>1. Len(words) \in Nat
    BY <1>2
  <2> HIDE DEF words, n, ins
  <2>2. QED
    BY <1>1, <1>2, <2>1
<1>6. DOMAIN ins.arg = DOMAIN ins.kind /\ Len(ins.kind) = Len(ins.arg)
  <2>1. DOMAIN ins.arg = DOMAIN ins.kind
    BY <1>1, Operation DEF Copies, Operated
  <2>2. ins.kind \in Seq({"v", "p"}) /\ ins.arg \in Seq(Nat)
    BY <1>1, <1>2, KindSeq
  <2> HIDE DEF ins
  <2>3. QED
    BY <2>1, <2>2, SameLength
<1>7. \A j \in DOMAIN ins.arg :
        IF ins.kind[j] = "v" THEN ins.arg[j] \in {t.last[k] : k \in Op(t)} /\ ins.arg[j] > 0
                             ELSE ins.arg[j] < Len(u.par_rec_)
  BY <1>1 DEF Copies
<1>8. \A k \in Op(t) : t.last[k] \in Nat /\ t.last[k] <= t.num_var_rec - 1
  BY BegunBound
<1>9. NumRes(ins.op) = NumRes(p.op_rec_[i].op) /\ NumRes(ins.op) \in Nat
  BY <1>1, Location, ResultCounts DEF Located
<1>10. ins.res - NumRes(ins.op) = t.num_var_rec - 1
  BY <1>1, <1>2, <1>9
<1>11. ArgsValid(ins, Len(u.par_rec_))
  <2>1. ASSUME NEW j \in DOMAIN ins.arg, ins.kind[j] = "v"
        PROVE  ins.arg[j] \in Before(ins)
    <3>1. PICK k \in Op(t) : ins.arg[j] = t.last[k]
      BY <1>7, <2>1
    <3>2. ins.arg[j] \in Nat /\ ins.arg[j] > 0 /\ ins.arg[j] <= t.num_var_rec - 1
      BY <1>7, <1>8, <2>1, <3>1
    <3> HIDE DEF ins
    <3>3. QED
      BY <1>2, <1>10, <3>2 DEF Before
  <2> HIDE DEF ins
  <2>2. QED
    BY <1>6, <1>7, <2>1 DEF ArgsValid
<1>12. \A j \in DOMAIN ins.arg :
         IF ins.kind[j] = "v" THEN ins.arg[j] \in {u.last[k] : k \in 0 .. n - 1}
                              ELSE ins.arg[j] \in Nat
  <2>1. \A k \in Op(t) : k \in 0 .. n - 1 /\ u.last[k] = t.last[k]
    BY DEF Copies, Extended, Op
  <2>2. \A j \in DOMAIN ins.arg : ins.arg[j] \in Nat
    BY <1>1, <1>2
  <2> HIDE DEF ins, n
  <2>3. QED
    BY <1>7, <2>1, <2>2
<1>13. Line(u, n)
  <2> HIDE DEF words, n
  <2>1. n # 0
    BY <1>2
  <2>2. QED
    BY <1>2, <1>3, <1>4, <1>5, <1>11, <1>12, <2>1 DEF Line, Optimized
<1>14. Extended(t, u, p.op_rec_[i], words)
  BY DEF Copies
<1> HIDE DEF words
<1>15. QED
  BY <1>1, <1>2, <1>13, <1>14, BegunExtended

-----------------------------------------------------------------------------
SkipFree == SkipFreeIn(rec)

(* What is filled in at the end: nothing, without conditional skips. *)
Unreserved == \A k \in DOMAIN cskip_info : cskip_info[k].i_arg = 0

(* New addresses are those of results. *)
Numbered ==
  \A a \in Address(play) : tape[a].new_var # Invalid =>
    /\ tape[a].new_var \in {NewRecording.last[k] : k \in Op(NewRecording)}
    /\ a # 0 => tape[a].new_var > 0

(* The independent variables are recorded first, and without a gap. *)
Counts ==
  /\ Here <= play.n => Len(rec.op_rec_) = Here + 1
  /\ Here >= play.n => Len(rec.op_rec_) > play.n

(* EndOp is the last operator, when all is done. *)
Ending ==
  \A k \in Op(NewRecording) :
    NewRecording.op_rec_[k].op = "End" <=> phase = "done" /\ k = Len(rec.op_rec_) - 1

NewInv == Begun(NewRecording) /\ Numbered /\ Counts /\ Ending

PlayInv == SkipFree => Unreserved /\ (phase # "reverse" => NewInv)

LEMMA PutSkipFree ==
  ASSUME NEW R \in Recorder, NEW code, NEW words, SkipFreeIn(Put(R, code, words))
  PROVE  SkipFreeIn(R) /\ code.op # "CSkip"
<1>1. R.op_rec_ \in Seq(OpCodeRec)
  BY DEF Recorder
<1>2. Put(R, code, words).op_rec_ = Append(R.op_rec_, code)
  BY DEF Put, Recorder
<1> DEFINE s == Append(R.op_rec_, code)
<1>3. \A k \in DOMAIN R.op_rec_ : k \in DOMAIN s /\ s[k] = R.op_rec_[k]
  BY <1>1
<1>4. Len(R.op_rec_) + 1 \in DOMAIN s /\ s[Len(R.op_rec_) + 1] = code
  BY <1>1
<1>5. \A k \in DOMAIN s : s[k].op # "CSkip"
  BY <1>2 DEF SkipFreeIn
<1> HIDE DEF s
<1>6. QED
  BY <1>3, <1>4, <1>5 DEF SkipFreeIn

(* If there is no conditional skip after a step, then the step put none. *)
LEMMA Unskipped ==
  ASSUME Ready, phase = "forward", SkipFreeIn(WithSkip)
  PROVE  SkipFree /\ WithSkip = rec /\ Reserved = cskip_info
<1>1. rec \in Recorder
  BY DEF Ready, RecInv
<1>2. ~Inserts
  <2>1. SUFFICES ASSUME Inserts PROVE FALSE
    OBVIOUS
  <2> DEFINE words == [k \in 1 .. 7 + NumSkipped(NextSkip) |-> 0]
  <2>2. WithSkip = Put(rec, [op |-> "CSkip", kind |-> <<>>], words)
    BY <2>1 DEF WithSkip
  <2> HIDE DEF words
  <2>3. [op |-> "CSkip", kind |-> <<>>].op # "CSkip"
    BY <1>1, <2>2, PutSkipFree
  <2>4. QED
    BY <2>3
<1>3. QED
  BY <1>2 DEF WithSkip, Reserved, SkipFree

(* The operator that is copied, and that the new recording has its operands. *)
CopyOf(i) ==
  \E args :
    /\ Copies(play, i, NewRecording, NewRecording', args)
    /\ \A j \in DOMAIN args :
         IF InstrOf(play, i).kind[j] = "v"
           THEN args[j] = tape[InstrOf(play, i).arg[j]].new_var
           ELSE NewRecording'.par_rec_[args[j] + 1]
                  = play.par_rec_[InstrOf(play, i).arg[j] + 1]

LEMMA CountsMove ==
  ASSUME Ready, NEW i \in Op(play), ForwardTo(i), Counts
  PROVE  /\ i \in Nat /\ i > 0 /\ Here + 1 = i /\ Here \in Nat /\ play.n \in Nat
         /\ Len(rec.op_rec_) \in Nat
         /\ Len(rec.op_rec_) \in 1 .. play.n <=> i \in 1 .. play.n
         /\ i <= play.n => Len(rec.op_rec_) = i
         /\ i > play.n => Len(rec.op_rec_) > play.n
<1>1. play \in Tapes /\ i = Here + 1 /\ Here \in Op(play) /\ Len(rec.op_rec_) \in Nat
  BY DEF ForwardTo, Ready, CursorInv, RecInv
<1>2. Here \in Nat /\ play.n \in Nat
  BY <1>1, InvPlaces DEF Op
<1>3. QED
  BY <1>1, <1>2 DEF Counts

LEMMA PrefixIs ==
  ASSUME Ready, NEW i \in Op(play), ForwardTo(i)
  PROVE  Prefix = PrefixOf(play, i)
<1>1. play \in Tapes /\ Current = InstrOf(play, i) /\ Ahead = At(play, i)
  BY DEF Ready, CursorInv, ForwardTo
<1>2. play.op_rec_[i].op = "CExp" <=> InstrOf(play, i).op \in CondExp
  BY <1>1, Location DEF Located
<1>3. QED
  BY <1>1, <1>2 DEF Prefix, PrefixOf

LEMMA PrefixWords ==
  ASSUME NEW p \in Tapes, NEW i \in Op(p), NEW args \in Seq(Nat)
  PROVE  CopiedWords(p, i, args) \in Seq(Nat)
<1>1. CASE p.op_rec_[i].op = "CExp"
  <2>1. NumArg(p.op_rec_[i]) = 6
    BY <1>1 DEF NumArg, Optimized
  <2>2. Arg(p, At(p, i), 0) \in Nat /\ Arg(p, At(p, i), 1) \in Nat
    BY <2>1, ArgNat
  <2>3. CopiedWords(p, i, args) = CondExpArgs(Arg(p, At(p, i), 0), Arg(p, At(p, i), 1), args)
    BY <1>1 DEF CopiedWords, PrefixOf, CondExpArgs
  <2>4. QED
    BY <2>2, <2>3, TwoFirst
<1>2. CASE p.op_rec_[i].op # "CExp"
  <2>1. CopiedWords(p, i, args) = <<>> \o args
    BY <1>2 DEF CopiedWords, PrefixOf
  <2>2. QED
    BY <2>1
<1>3. QED
  BY <1>1, <1>2

(* The operands of an operator are put with it. *)
PutCopy(i, R, args) ==
  /\ Extends(rec, R) /\ args \in Seq(Nat)
  /\ DOMAIN args = DOMAIN InstrOf(play, i).arg
  /\ \A j \in DOMAIN args :
       IF InstrOf(play, i).kind[j] = "v"
         THEN args[j] = tape[InstrOf(play, i).arg[j]].new_var
         ELSE args[j] < Len(R.par_rec_)
              /\ R.par_rec_[args[j] + 1] = play.par_rec_[InstrOf(play, i).arg[j] + 1]
  /\ rec' = Put(R, play.op_rec_[i], CopiedWords(play, i, args))

OperandsNew(i) ==
  \A j \in DOMAIN InstrOf(play, i).arg :
    InstrOf(play, i).kind[j] = "v" => HasNewVar(InstrOf(play, i).arg[j])

LEMMA CopyStep ==
  ASSUME Ready, NEW i \in Op(play), ForwardTo(i), play' = play, NewInv, OperandsNew(i),
         NEW R, NEW args, PutCopy(i, R, args)
  PROVE  CopyOf(i)
<1> USE DEF NewInv, PutCopy, OperandsNew
<1> DEFINE t == NewRecording
           u == NewRecording'
           ins == InstrOf(play, i)
           words == CopiedWords(play, i, args)
<1>1. play \in Tapes /\ rec \in Recorder /\ play.n \in Nat /\ play.op_rec_[i] \in OpCodeRec
  BY InvPlaces, CodeFacts DEF Ready, CursorInv, RecInv, ForwardTo
<1>2. words \in Seq(Nat)
  BY <1>1, PrefixWords
<1>3. t = RecordingOf(rec, play.n, dep_taddr) /\ u = RecordingOf(rec', play.n, dep_taddr')
  BY DEF NewRecording, RecordingOf
<1>4. Extended(t, u, play.op_rec_[i], words)
  <2>1. Begun(RecordingOf(rec, play.n, dep_taddr))
    BY <1>3
  <2>2. rec' = Put(R, play.op_rec_[i], words)
    OBVIOUS
  <2> HIDE DEF words, t, u
  <2>3. QED
    BY <1>1, <1>2, <1>3, <2>1, <2>2, PutExtended
<1>5. t.n = play.n /\ t.num_op_rec = Len(rec.op_rec_) /\ u.par_rec_ = R.par_rec_
  <2>1. t.n = play.n /\ t.num_op_rec = Len(rec.op_rec_) /\ u.par_rec_ = rec'.par_rec_
    BY DEF NewRecording
  <2>2. rec'.par_rec_ = R.par_rec_
    BY DEF Put, Extends, Recorder
  <2>3. QED
    BY <2>1, <2>2
<1>6. t.num_op_rec \in 1 .. play.n <=> i \in 1 .. play.n
  BY <1>5, CountsMove
<1>7. \A j \in DOMAIN args :
        IF ins.kind[j] = "v"
          THEN args[j] \in {t.last[k] : k \in Op(t)} /\ args[j] > 0
          ELSE args[j] < Len(u.par_rec_)
  <2>1. ASSUME NEW j \in DOMAIN args, ins.kind[j] = "v"
        PROVE  args[j] \in {t.last[k] : k \in Op(t)} /\ args[j] > 0
    <3>1. args[j] = tape[ins.arg[j]].new_var /\ HasNewVar(ins.arg[j])
      BY <2>1
    <3>2. ins.arg[j] \in Address(play) /\ ins.arg[j] > 0
      BY <1>1, <2>1, OperandPlace
    <3>3. tape[ins.arg[j]].new_var # Invalid
      BY <3>1, <3>2, HasNumber DEF ForwardTo
    <3>4. QED
      BY <3>1, <3>2, <3>3 DEF Numbered
  <2>2. QED
    BY <1>5, <2>1
<1>8. Copies(play, i, t, u, args)
  <2> HIDE DEF t, u, words
  <2>1. QED
    BY <1>2, <1>4, <1>5, <1>6, <1>7 DEF Copies, words
<1>9. \A j \in DOMAIN args :
        IF ins.kind[j] = "v" THEN args[j] = tape[ins.arg[j]].new_var
        ELSE u.par_rec_[args[j] + 1] = play.par_rec_[ins.arg[j] + 1]
  BY <1>5
<1>10. QED
  BY <1>8, <1>9 DEF CopyOf

LEMMA RerecordedCopy ==
  ASSUME Ready, NEW i \in Op(play), ForwardTo(i), play' = play,
         SkipFree => NewInv, OperandsNew(i), rec' = Rerecorded, SkipFreeIn(rec')
  PROVE  SkipFree /\ WithSkip = rec /\ Reserved = cskip_info /\ CopyOf(i)
<1> DEFINE ins == InstrOf(play, i)
           Q == WithSkip
           R == PutOperands(Q, ins)
           args == new_arg(R, ins)
<1>1. /\ phase = "forward" /\ Current = ins /\ OpAt(play, Ahead) = play.op_rec_[i]
      /\ CursorInv /\ ConnInv /\ RecInv /\ InfoInv /\ rec \in Recorder
  BY DEF Ready, ForwardTo, RecInv
<1>2. Q \in Recorder /\ Q.num_var_rec_ = rec.num_var_rec_
  BY <1>1, WithSkipFacts
<1>3. Extends(Q, R) /\ R \in Recorder
      /\ \A j \in DOMAIN ins.arg : ins.kind[j] = "p" =>
           HasPar(R, play.par_rec_[ins.arg[j] + 1])
  BY <1>1, <1>2, PutOperandsFacts DEF Extends
<1>4. rec' = Put(R, play.op_rec_[i], CopiedWords(play, i, args))
  BY <1>1, PrefixIs DEF Rerecorded, CopiedWords
<1>5. SkipFreeIn(R) /\ SkipFreeIn(Q)
  <2> HIDE DEF R, Q, args
  <2>1. SkipFreeIn(R)
    BY <1>3, <1>4, PutSkipFree
  <2>2. QED
    BY <1>3, <2>1, ExtendsSkipFree
<1>6. SkipFree /\ WithSkip = rec /\ Reserved = cskip_info
  BY <1>1, <1>5, Unskipped
<1>7. NewInv
  BY <1>6
<1>8. args \in Seq(Nat) /\ DOMAIN args = DOMAIN ins.arg
  <2>1. Len(R.par_rec_) \in Nat
    BY <1>3 DEF Recorder
  <2>2. Extends(R, R)
    BY <1>3, <2>1 DEF Extends
  <2>3. QED
    BY <1>1, <1>2, <1>3, <2>2, NewArgFacts
<1>9. \A j \in DOMAIN args :
        IF ins.kind[j] = "v"
          THEN args[j] = tape[ins.arg[j]].new_var
          ELSE args[j] < Len(R.par_rec_) /\ R.par_rec_[args[j] + 1] = play.par_rec_[ins.arg[j] + 1]
  <2>1. ASSUME NEW j \in DOMAIN args, ins.kind[j] = "v"
        PROVE  args[j] = tape[ins.arg[j]].new_var
    BY <1>8, <2>1 DEF new_arg
  <2>2. ASSUME NEW j \in DOMAIN args, ins.kind[j] # "v"
        PROVE  args[j] < Len(R.par_rec_) /\ R.par_rec_[args[j] + 1] = play.par_rec_[ins.arg[j] + 1]
    <3>1. ins.kind[j] = "p"
      BY <1>1, <1>8, <2>2, Operation DEF Operated, CursorInv
    <3>2. args[j] = IndexOf(R, play.par_rec_[ins.arg[j] + 1])
      BY <1>8, <2>2 DEF new_arg
    <3>3. HasPar(R, play.par_rec_[ins.arg[j] + 1])
      BY <1>3, <1>8, <3>1
    <3>4. Len(R.par_rec_) \in Nat
      BY <1>3 DEF Recorder
    <3>5. /\ IndexOf(R, play.par_rec_[ins.arg[j] + 1]) \in 0 .. Len(R.par_rec_) - 1
          /\ R.par_rec_[IndexOf(R, play.par_rec_[ins.arg[j] + 1]) + 1]
               = play.par_rec_[ins.arg[j] + 1]
      BY <1>3, <3>3, IndexOfFacts
    <3> HIDE DEF args, R
    <3>6. QED
      BY <3>2, <3>4, <3>5
  <2>3. QED
    BY <2>1, <2>2
<1>10. Extends(rec, R)
  BY <1>3, <1>6
<1> HIDE DEF R, Q, args
<1>13. PutCopy(i, R, args)
  BY <1>4, <1>8, <1>9, <1>10 DEF PutCopy
<1>11. CopyOf(i)
  BY <1>7, <1>13, CopyStep
<1>12. QED
  BY <1>6, <1>11

(* What a step may do to new addresses. *)
Renumbers ==
  \A a \in Address(play) :
    \/ tape'[a].new_var = tape[a].new_var
    \/ tape'[a].new_var = rec'.num_var_rec_ - 1 /\ rec'.num_var_rec_ > 1
    \/ \E m \in Address(play) :
         m # 0 /\ tape[m].new_var # Invalid /\ tape'[a].new_var = tape[m].new_var

LEMMA NumberedKept ==
  ASSUME Numbered, play' = play, Renumbers, Begun(NewRecording)', rec'.num_var_rec_ \in Nat,
         \A k \in Op(NewRecording) :
           k \in Op(NewRecording') /\ NewRecording'.last[k] = NewRecording.last[k]
  PROVE  Numbered'
<1> DEFINE t == NewRecording
           u == NewRecording'
<1>1. ASSUME NEW m \in Address(play), tape[m].new_var # Invalid
      PROVE  /\ tape[m].new_var \in {u.last[k] : k \in Op(u)}
             /\ m # 0 => tape[m].new_var > 0
  <2>1. PICK k \in Op(t) : tape[m].new_var = t.last[k]
    BY <1>1 DEF Numbered
  <2>2. k \in Op(u) /\ u.last[k] = t.last[k]
    BY <2>1
  <2>3. QED
    BY <1>1, <2>1, <2>2 DEF Numbered
<1>2. rec'.num_var_rec_ - 1 \in {u.last[k] : k \in Op(u)}
  <2>1. Listed(u) /\ u.num_op_rec > 0 /\ u.last[u.num_op_rec - 1] = u.num_var_rec - 1
    BY DEF Begun
  <2>2. u.num_op_rec \in Nat
    BY <2>1 DEF Listed
  <2>3. u.num_op_rec - 1 \in Op(u)
    BY <2>1, <2>2 DEF Op
  <2>4. u.num_var_rec = rec'.num_var_rec_
    BY DEF NewRecording
  <2> HIDE DEF u
  <2>5. QED
    BY <2>1, <2>3, <2>4
<1>3. ASSUME NEW a \in Address(play), tape'[a].new_var # Invalid
      PROVE  /\ tape'[a].new_var \in {u.last[k] : k \in Op(u)}
             /\ a # 0 => tape'[a].new_var > 0
  <2>1. CASE tape'[a].new_var = tape[a].new_var
    BY <1>1, <1>3, <2>1
  <2>2. CASE tape'[a].new_var = rec'.num_var_rec_ - 1 /\ rec'.num_var_rec_ > 1
    <3>1. rec'.num_var_rec_ - 1 > 0
      BY <2>2
    <3> HIDE DEF u
    <3>2. QED
      BY <1>2, <2>2, <3>1
  <2>3. CASE \E m \in Address(play) :
               m # 0 /\ tape[m].new_var # Invalid /\ tape'[a].new_var = tape[m].new_var
    BY <1>1, <2>3
  <2>4. QED
    BY <2>1, <2>2, <2>3 DEF Renumbers
<1>4. Invalid' = Invalid
  BY DEF Invalid
<1>5. QED
  BY <1>3, <1>4 DEF Numbered

(* A step that puts an operator. *)
LEMMA CopyKeeps ==
  ASSUME Ready, NEW i \in Op(play), ForwardTo(i), play' = play, cursor' = At(play, i),
         NewInv, CopyOf(i), Renumbers, rec'.num_var_rec_ \in Nat,
         phase' = "done" <=> i = play.num_op_rec - 1
  PROVE  NewInv'
<1> DEFINE t == NewRecording
           u == NewRecording'
<1>1. PICK args : Copies(play, i, t, u, args)
  BY DEF CopyOf
<1>2. play \in Tapes /\ Begun(t) /\ phase = "forward" /\ i > 0
  BY CountsMove DEF Ready, CursorInv, NewInv, ForwardTo
<1>3. Begun(u)
  BY <1>1, <1>2, CopiesBegun
<1>4. /\ u.num_op_rec = t.num_op_rec + 1 /\ t.num_op_rec \in Nat
      /\ \A k \in Op(t) : u.last[k] = t.last[k] /\ u.op_rec_[k] = t.op_rec_[k]
      /\ u.op_rec_[t.num_op_rec] = play.op_rec_[i]
  BY <1>1, <1>2 DEF Copies, Extended, Begun, Listed
<1>5. Op(t) = 0 .. t.num_op_rec - 1 /\ Op(u) = 0 .. t.num_op_rec
  BY <1>4 DEF Op
<1>6. \A k \in Op(t) : k \in Op(u) /\ u.last[k] = t.last[k]
  BY <1>4, <1>5
<1>7. Numbered'
  BY <1>3, <1>6, NumberedKept DEF NewInv
<1>8. Len(rec'.op_rec_) = Len(rec.op_rec_) + 1 /\ Len(rec.op_rec_) = t.num_op_rec
  BY <1>4 DEF NewRecording
<1>9. Counts'
  <2>1. Here' = i
    BY DEF Here, At
  <2>2. /\ i \in Nat /\ i > 0 /\ Here + 1 = i /\ Here \in Nat /\ play.n \in Nat
        /\ Len(rec.op_rec_) \in Nat
        /\ i <= play.n => Len(rec.op_rec_) = i
        /\ i > play.n => Len(rec.op_rec_) > play.n
    BY CountsMove DEF NewInv
  <2>3. i <= play.n => Len(rec'.op_rec_) = i + 1
    BY <1>8, <2>2
  <2>4. i >= play.n => Len(rec'.op_rec_) > play.n
    BY <1>8, <2>2
  <2>5. QED
    BY <2>1, <2>3, <2>4 DEF Counts
<1>10. Ending'
  <2>1. \A k \in Op(t) : t.op_rec_[k].op # "End"
    BY <1>2 DEF NewInv, Ending
  <2>2. play.op_rec_[i].op = "End" <=> phase' = "done"
    BY <1>2, CodeFacts
  <2>3. ASSUME NEW k \in Op(u)
        PROVE  u.op_rec_[k].op = "End" <=> phase' = "done" /\ k = Len(rec'.op_rec_) - 1
    <3>1. CASE k \in Op(t)
      <4>1. k # Len(rec'.op_rec_) - 1
        BY <1>4, <1>5, <1>8, <3>1
      <4>2. QED
        BY <1>4, <2>1, <3>1, <4>1
    <3>2. CASE k = t.num_op_rec
      BY <1>4, <1>8, <2>2, <3>2
    <3>3. QED
      BY <1>4, <1>5, <3>1, <3>2
  <2>4. QED
    BY <2>3 DEF Ending
<1>11. QED
  BY <1>3, <1>7, <1>9, <1>10 DEF NewInv

(* A step that does not. *)
LEMMA StayKeeps ==
  ASSUME Ready, play' = play, rec' = rec, dep_taddr' = dep_taddr, NewInv, Renumbers, Counts',
         phase # "done", phase' # "done"
  PROVE  NewInv'
<1>1. NewRecording' = NewRecording
  BY DEF NewRecording
<1>2. Begun(NewRecording)'
  BY <1>1 DEF NewInv
<1>3. rec'.num_var_rec_ \in Nat
  BY DEF Ready, RecInv
<1>4. Numbered'
  BY <1>1, <1>2, <1>3, NumberedKept DEF NewInv
<1>5. Ending'
  BY <1>1 DEF NewInv, Ending
<1>6. QED
  BY <1>2, <1>4, <1>5 DEF NewInv

(* Addresses when no number is given. *)
LEMMA UnmatchedNumbers ==
  ASSUME Ready, NEW i \in Op(play), ForwardTo(i), tape' = Unmatched
  PROVE  \A a \in Address(play) : tape'[a].new_var = tape[a].new_var
<1> DEFINE r == InstrOf(play, i).res
<1>1. tape' = [tape EXCEPT ![r].match = FALSE]
  BY DEF Unmatched, ForwardTo
<1>2. tape \in Entries(play, Len(cskip_info)) /\ DOMAIN tape = Address(play)
  BY DEF Ready, ConnInv, Entries
<1> HIDE DEF r
<1>3. QED
  BY <1>1, <1>2

(* Only the result of operator i gets an address, the last one. *)
RenumbersTo(i) ==
  \A a \in Address(play) :
    \/ tape'[a].new_var = tape[a].new_var
    \/ /\ a = InstrOf(play, i).res /\ InstrOf(play, i).op \in Computing \union {"Inv"}
       /\ tape'[a].new_var = rec'.num_var_rec_ - 1

(* Addresses when the result gets one. *)
LEMMA ResultNumbers ==
  ASSUME Ready, NEW i \in Op(play), ForwardTo(i), RecordResult,
         InstrOf(play, i).op \in Computing \union {"Inv"}
  PROVE  Renumbers /\ RenumbersTo(i)
<1> DEFINE r == InstrOf(play, i).res
           n == rec'.num_var_rec_ - 1
           o == Len(WithSkip.op_rec_)
<1>1. tape' = [Unmatched EXCEPT ![r].new_op = o, ![r].new_var = n]
  BY DEF RecordResult, ForwardTo
<1>2. Unmatched = [tape EXCEPT ![r].match = FALSE]
  BY DEF Unmatched, ForwardTo
<1>3. DOMAIN tape = Address(play) /\ r \in Address(play)
  BY NumberBound DEF Ready, ConnInv, Entries
<1>4. rec'.num_var_rec_ > 1
  <2>1. rec'.num_var_rec_ = rec.num_var_rec_ + NumRes(InstrOf(play, i).op)
    BY ItselfRecorded DEF RecordResult
  <2>2. rec.num_var_rec_ > 0 /\ rec.num_var_rec_ \in Nat
    BY DEF Ready, RecInv, ForwardTo
  <2>3. NumRes(InstrOf(play, i).op) \in 1 .. 2
    <3>1. InstrOf(play, i).op \notin Comparison \union {"End", "CSkip"}
      BY OpCodes, OpNames DEF Comparison
    <3>2. QED
      BY <3>1 DEF NumRes
  <2>4. QED
    BY <2>1, <2>2, <2>3
<1>5. \A a \in Address(play) \ {r} : tape'[a].new_var = tape[a].new_var
  <2> HIDE DEF r, n, o
  <2>1. QED
    BY <1>1, <1>2, <1>3
<1>6. tape'[r].new_var = n
  <2> HIDE DEF r, n, o
  <2>1. Unmatched[r] = [tape[r] EXCEPT !.match = FALSE] /\ DOMAIN Unmatched = Address(play)
    BY <1>2, <1>3
  <2>2. tape'[r] = [Unmatched[r] EXCEPT !.new_op = o, !.new_var = n]
    BY <1>1, <1>3, <2>1
  <2>3. tape[r] \in Entry(play, Len(cskip_info))
    BY <1>3 DEF Ready, ConnInv, Entries
  <2>4. QED
    BY <2>1, <2>2, <2>3 DEF Entry
<1>7. QED
  BY <1>4, <1>5, <1>6 DEF Renumbers, RenumbersTo

(* An operator that is recorded has new operands. *)
LEMMA NewOperandsOf ==
  ASSUME IInv, NEW i \in Op(play), ForwardTo(i),
         \/ InstrOf(play, i).op \in Comparison
         \/ Kept(InstrOf(play, i)) /\ ~GathersSum(InstrOf(play, i))
  PROVE  OperandsNew(i)
<1>1. OperandsRecorded /\ Current = InstrOf(play, i) /\ phase = "forward"
  BY InvOperands DEF ForwardTo
<1>2. InstrOf(play, i).op \in Comparison => ~GathersSum(InstrOf(play, i))
  BY OpNames DEF GathersSum
<1>3. QED
  BY <1>1, <1>2 DEF OperandsRecorded, OperandsNew

LEMMA Resting ==
  ASSUME IInv
  PROVE  Ready /\ HashInv /\ MergedAgree
  BY DEF IInv, Ready

(* Operator i is recorded again. *)
Rerecords(i) ==
  /\ ForwardTo(i) /\ play' = play /\ cursor' = At(play, i) /\ phase' = "forward"
  /\ InstrOf(play, i).op # "End"
  /\ rec' = Rerecorded /\ OperandsNew(i) /\ Renumbers /\ RenumbersTo(i)

Rerecording == RecordCompare \/ RecordArithmetic \/ RecordVariable \/ RecordCondExp

LEMMA RerecordingOne ==
  ASSUME IInv, Rerecording
  PROVE  \E i \in Op(play) : Rerecords(i)
<1>1. Ready /\ play \in Tapes
  BY Resting DEF Ready, CursorInv
<1> DEFINE Told(i) == /\ ForwardTo(i) /\ play' = play /\ cursor' = At(play, i)
                      /\ phase' = "forward" /\ Current = InstrOf(play, i)
<1>2. CASE RecordCompare
  <2>1. PICK i \in Op(play) : Moves(i, Comparison)
    BY <1>1, <1>2, ForwardMoves DEF RecordCompare
  <2>2. /\ Told(i) /\ InstrOf(play, i).op \in Comparison /\ rec' = Rerecorded
        /\ tape' = Unmatched
    BY <1>2, <2>1 DEF Moves, RecordCompare, ForwardTo
  <2>3. OperandsNew(i) /\ InstrOf(play, i).op # "End"
    BY <2>2, NewOperandsOf DEF Comparison
  <2>4. Renumbers /\ RenumbersTo(i)
    BY <1>1, <2>2, UnmatchedNumbers DEF Renumbers, RenumbersTo
  <2>5. QED
    BY <2>2, <2>3, <2>4 DEF Rerecords
<1>3. ASSUME NEW i \in Op(play), Told(i), RecordResult, OperandsNew(i),
             InstrOf(play, i).op \in Computing \union {"Inv"}
      PROVE  Rerecords(i)
  <2>1. Renumbers /\ RenumbersTo(i)
    BY <1>1, <1>3, ResultNumbers
  <2>2. InstrOf(play, i).op # "End"
    BY <1>3, OpCodes
  <2>3. QED
    BY <1>3, <2>1, <2>2 DEF Rerecords, RecordResult
<1>4. CASE RecordArithmetic
  <2>1. PICK i \in Op(play) : Moves(i, Unary \union Binary)
    BY <1>1, <1>4, ForwardMoves DEF RecordArithmetic, Arithmetic
  <2>2. /\ Told(i) /\ InstrOf(play, i).op \in Unary \union Binary /\ RecordResult
        /\ Kept(InstrOf(play, i)) /\ ~GathersSum(InstrOf(play, i))
    BY <1>4, <2>1 DEF Moves, RecordArithmetic, Arithmetic, ForwardTo
  <2>3. OperandsNew(i)
    BY <2>2, NewOperandsOf
  <2>4. QED
    BY <1>3, <2>2, <2>3 DEF Computing
<1>5. CASE RecordVariable
  <2>1. PICK i \in Op(play) : Moves(i, {"Inv", "Par"})
    BY <1>1, <1>5, ForwardMoves DEF RecordVariable
  <2>2. Told(i) /\ InstrOf(play, i).op \in {"Inv", "Par"} /\ RecordResult
    BY <1>5, <2>1 DEF Moves, RecordVariable, ForwardTo
  <2>3. OperandsNew(i)
    <3>1. \A j \in DOMAIN InstrOf(play, i).arg : InstrOf(play, i).kind[j] = "p"
      BY <1>1, <2>2, Operation DEF Operated
    <3>2. QED
      BY <3>1 DEF OperandsNew
  <2>4. QED
    BY <1>3, <2>2, <2>3 DEF Computing
<1>6. CASE RecordCondExp
  <2>1. PICK i \in Op(play) : Moves(i, CondExp)
    BY <1>1, <1>6, ForwardMoves DEF RecordCondExp
  <2>2. /\ Told(i) /\ InstrOf(play, i).op \in CondExp /\ RecordResult
        /\ Kept(InstrOf(play, i))
    BY <1>6, <2>1 DEF Moves, RecordCondExp, ForwardTo
  <2>3. OperandsNew(i)
    BY <2>2, NewOperandsOf, OpNames DEF GathersSum
  <2>4. QED
    BY <1>3, <2>2, <2>3 DEF Computing
<1>7. QED
  BY <1>2, <1>4, <1>5, <1>6 DEF Rerecording

(* A step that records an operator again copies it. *)
LEMMA RerecordsCopy ==
  ASSUME IInv, PlayInv, NEW i \in Op(play), Rerecords(i), SkipFree'
  PROVE  SkipFree /\ NewInv /\ Unreserved /\ Reserved = cskip_info /\ CopyOf(i)
<1>1. Ready /\ phase = "forward"
  BY Resting DEF Rerecords, ForwardTo
<1>2. SkipFree => NewInv /\ Unreserved
  BY <1>1 DEF PlayInv
<1>3. SkipFreeIn(rec')
  BY DEF SkipFree, SkipFreeIn
<1>4. SkipFree /\ Reserved = cskip_info /\ CopyOf(i)
  BY <1>1, <1>2, <1>3, RerecordedCopy DEF Rerecords
<1>5. QED
  BY <1>2, <1>4

LEMMA RecordPlays ==
  ASSUME IInv, PlayInv, Rerecording
  PROVE  PlayInv'
<1>1. PICK i \in Op(play) : Rerecords(i)
  BY RerecordingOne
<1>2. /\ Ready /\ play \in Tapes /\ ForwardTo(i) /\ play' = play /\ cursor' = At(play, i)
      /\ phase' = "forward" /\ Renumbers /\ rec' = Rerecorded /\ InstrOf(play, i).op # "End"
  BY <1>1, Resting DEF Rerecords, Ready, CursorInv
<1>3. SUFFICES ASSUME SkipFree' PROVE Unreserved' /\ NewInv'
  BY DEF PlayInv
<1>4. NewInv /\ Unreserved /\ Reserved = cskip_info /\ CopyOf(i)
  BY <1>1, <1>3, RerecordsCopy
<1>5. rec'.num_var_rec_ \in Nat
  BY <1>2, ItselfRecorded
<1>6. phase' = "done" <=> i = play.num_op_rec - 1
  BY <1>2, Location DEF Located
<1>7. NewInv'
  BY <1>2, <1>4, <1>5, <1>6, CopyKeeps
<1>8. CASE ~RecordCondExp
  BY <1>4, <1>7, <1>8 DEF Rerecording, RecordCompare, RecordArithmetic, RecordVariable, Unreserved
<1>9. CASE RecordCondExp
  <2>1. \E l, r : cskip_info' = [cskip_info EXCEPT ![cskip_info_index].left = l,
                                                   ![cskip_info_index].right = r]
    BY <1>4, <1>9 DEF RecordCondExp
  <2>2. PICK l, r : cskip_info' = [cskip_info EXCEPT ![cskip_info_index].left = l,
                                                     ![cskip_info_index].right = r]
    BY <2>1
  <2>3. cskip_info \in Seq(Info(play)) /\ DOMAIN cskip_info' = DOMAIN cskip_info
    BY <1>2, <2>2 DEF Ready, InfoInv
  <2>4. ASSUME NEW k \in DOMAIN cskip_info PROVE cskip_info'[k].i_arg = 0
    <3>1. cskip_info[k] \in Info(play) /\ cskip_info[k].i_arg = 0
      BY <1>4, <2>3 DEF Unreserved
    <3>2. CASE k = cskip_info_index
      <4>1. cskip_info'[k] = [cskip_info[k] EXCEPT !.left = l, !.right = r]
        BY <2>2, <3>2
      <4>2. QED
        BY <3>1, <4>1 DEF Info
    <3>3. CASE k # cskip_info_index
      BY <2>2, <3>1, <3>3
    <3>4. QED
      BY <3>2, <3>3
  <2>5. QED
    BY <1>7, <2>3, <2>4 DEF Unreserved
<1>10. QED
  BY <1>8, <1>9

(* A step that records nothing. *)
LEMMA StepPlays ==
  ASSUME IInv, PlayInv, NEW i \in Op(play), NEW ops, Moves(i, ops), SkipFree',
         phase' \in {"forward", "csum"}, InstrOf(play, i).op # "Inv",
         rec' = WithSkip, dep_taddr' = dep_taddr, Renumbers
  PROVE  Unreserved /\ Reserved = cskip_info /\ NewInv'
<1>1. Ready /\ ForwardTo(i) /\ play' = play /\ cursor' = At(play, i) /\ phase = "forward"
  BY Resting DEF Moves, ForwardTo
<1>2. SkipFreeIn(WithSkip)
  BY DEF SkipFree, SkipFreeIn
<1>3. SkipFree /\ rec' = rec /\ Reserved = cskip_info
  BY <1>1, <1>2, Unskipped
<1>4. NewInv /\ Unreserved
  BY <1>1, <1>3 DEF PlayInv
<1>5. Counts'
  <2>1. Here' = i
    BY <1>1 DEF Here, At
  <2>2. /\ i \in Nat /\ i > 0 /\ Here + 1 = i /\ Here \in Nat /\ play.n \in Nat
        /\ Len(rec.op_rec_) \in Nat
        /\ i <= play.n => Len(rec.op_rec_) = i
        /\ i > play.n => Len(rec.op_rec_) > play.n
    BY <1>1, <1>4, CountsMove DEF NewInv
  <2>3. i \notin 1 .. play.n
    <3>1. play \in Tapes
      BY <1>1 DEF Ready, CursorInv
    <3>2. play.op_rec_[i].op = "Inv" => InstrOf(play, i).op = "Inv"
      BY <3>1, OtherOf
    <3>3. QED
      BY <3>1, <3>2, InvPlaces
  <2>4. i > play.n
    BY <2>2, <2>3
  <2>5. QED
    BY <1>1, <1>3, <2>1, <2>2, <2>4 DEF Counts
<1>6. NewInv'
  BY <1>1, <1>3, <1>4, <1>5, StayKeeps
<1>7. QED
  BY <1>3, <1>4, <1>6

LEMMA DropPlays ==
  ASSUME IInv, PlayInv, Drop
  PROVE  PlayInv'
<1> DEFINE ops == Unary \union Binary \union CondExp \union {"Par"}
<1>1. Ready /\ Forward(ops)
  BY Resting DEF Drop
<1>2. PICK i \in Op(play) : Moves(i, ops)
  BY <1>1, ForwardMoves
<1>3. /\ ForwardTo(i) /\ InstrOf(play, i).op \in ops /\ rec' = WithSkip
      /\ tape' = Unmatched /\ cskip_info' = Reserved /\ phase' = "forward" /\ play' = play
      /\ dep_taddr' = dep_taddr
  BY <1>2 DEF Moves, Drop, ForwardTo
<1>4. InstrOf(play, i).op # "Inv"
  BY <1>3, OpNames DEF Binary, CondExp
<1>5. Renumbers
  BY <1>1, <1>3, UnmatchedNumbers DEF Renumbers
<1>6. SUFFICES ASSUME SkipFree' PROVE Unreserved' /\ NewInv'
  BY DEF PlayInv
<1>7. Unreserved /\ Reserved = cskip_info /\ NewInv'
  BY <1>2, <1>3, <1>4, <1>5, <1>6, StepPlays
<1>8. QED
  BY <1>3, <1>7 DEF Unreserved

LEMMA StartSumPlays ==
  ASSUME IInv, PlayInv, StartSum
  PROVE  PlayInv'
<1>1. Ready /\ Forward(Summation)
  BY Resting DEF StartSum
<1>2. PICK i \in Op(play) : Moves(i, Summation)
  BY <1>1, ForwardMoves
<1>3. /\ ForwardTo(i) /\ InstrOf(play, i).op \in Summation /\ rec' = WithSkip
      /\ tape' = Unmatched /\ cskip_info' = Reserved /\ phase' = "csum" /\ play' = play
      /\ dep_taddr' = dep_taddr
  BY <1>2 DEF Moves, StartSum, ForwardTo
<1>4. InstrOf(play, i).op # "Inv"
  BY <1>3 DEF Summation
<1>5. Renumbers
  BY <1>1, <1>3, UnmatchedNumbers DEF Renumbers
<1>6. SUFFICES ASSUME SkipFree' PROVE Unreserved' /\ NewInv'
  BY DEF PlayInv
<1>7. Unreserved /\ Reserved = cskip_info /\ NewInv'
  BY <1>2, <1>3, <1>4, <1>5, <1>6, StepPlays
<1>8. QED
  BY <1>3, <1>7 DEF Unreserved

LEMMA MergePlays ==
  ASSUME IInv, PlayInv, Merge
  PROVE  PlayInv'
<1> DEFINE ops == Unary \union Binary
           m == Matching(Current)
<1>1. Ready /\ HashInv /\ MergedAgree /\ Forward(ops) /\ Kept(Current) /\ ~GathersSum(Current)
      /\ m > 0
  BY Resting DEF Merge, Arithmetic
<1>2. PICK i \in Op(play) : Moves(i, ops)
  BY <1>1, ForwardMoves
<1>3. /\ ForwardTo(i) /\ InstrOf(play, i).op \in ops /\ rec' = WithSkip
      /\ cskip_info' = Reserved /\ phase' = "forward" /\ play' = play
      /\ dep_taddr' = dep_taddr /\ Current = InstrOf(play, i) /\ phase = "forward"
  BY <1>2 DEF Moves, Merge, ForwardTo
<1>4. InstrOf(play, i).op # "Inv"
  BY <1>3, OpNames DEF Binary
<1>5. Renumbers
  <2> DEFINE r == InstrOf(play, i).res
  <2>1. m \in Address(play) /\ m # r /\ HasNewVar(m)
    BY <1>1, <1>3, MatchingFacts
  <2>2. tape[m].new_var # Invalid
    BY <1>1, <1>3, <2>1, HasNumber
  <2>3. tape' = [tape EXCEPT ![r].match = TRUE, ![r].new_var = tape[m].new_var, ![m].match = TRUE]
    BY <1>3 DEF Merge
  <2>4. tape \in Entries(play, Len(cskip_info)) /\ DOMAIN tape = Address(play) /\ r \in Address(play)
    BY <1>1, <1>3, NumberBound DEF Ready, ConnInv, Entries
  <2>5. m # 0
    BY <1>1
  <2> HIDE DEF m, r
  <2>6. tape[r] \in Entry(play, Len(cskip_info)) /\ tape[m] \in Entry(play, Len(cskip_info))
    BY <2>1, <2>4 DEF Entries
  <2>7. tape'[r].new_var = tape[m].new_var
    <3>1. tape'[r] = [tape[r] EXCEPT !.match = TRUE, !.new_var = tape[m].new_var]
      BY <2>1, <2>3, <2>4
    <3>2. QED
      BY <2>6, <3>1 DEF Entry
  <2>8. tape'[m].new_var = tape[m].new_var
    BY <2>1, <2>3, <2>4
  <2>9. \A a \in Address(play) \ {r, m} : tape'[a].new_var = tape[a].new_var
    BY <2>3, <2>4
  <2>10. QED
    BY <2>1, <2>2, <2>5, <2>7, <2>8, <2>9 DEF Renumbers
<1>6. SUFFICES ASSUME SkipFree' PROVE Unreserved' /\ NewInv'
  BY DEF PlayInv
<1>7. Unreserved /\ Reserved = cskip_info /\ NewInv'
  BY <1>2, <1>3, <1>4, <1>5, <1>6, StepPlays
<1>8. QED
  BY <1>3, <1>7 DEF Unreserved

(* A step that changes nothing that the recordings are read from. *)
LEMMA StillPlays ==
  ASSUME PlayInv,
         UNCHANGED <<play, phase, cursor, tape, cskip_info, rec, dep_taddr>>
  PROVE  PlayInv'
<1>1. NewRecording' = NewRecording /\ SkipFree' = SkipFree /\ Unreserved' = Unreserved
      /\ Here' = Here /\ Invalid' = Invalid
  BY DEF NewRecording, SkipFree, SkipFreeIn, Unreserved, Here, Invalid
<1>2. Begun(NewRecording)' = Begun(NewRecording)
  BY <1>1
<1>3. Numbered' = Numbered
  BY <1>1 DEF Numbered
<1>4. Counts' = Counts
  BY <1>1 DEF Counts
<1>5. Ending' = Ending
  BY <1>1 DEF Ending
<1>6. NewInv' = NewInv
  BY <1>2, <1>3, <1>4, <1>5 DEF NewInv
<1>7. QED
  BY <1>1, <1>6 DEF PlayInv

LEMMA SumNextPlays ==
  ASSUME PlayInv, SumNext
  PROVE  PlayInv'
  BY StillPlays DEF SumNext

(* The first pass records nothing. *)
LEMMA ReversePlays ==
  ASSUME IInv, PlayInv,
         ReverseArithmetic \/ ReverseCondExp \/ ReverseCompare \/ ReverseInv \/ ReversePar
  PROVE  PlayInv'
<1>1. phase = "reverse" /\ phase' = "reverse" /\ rec' = rec
  BY DEF ReverseArithmetic, ReverseCondExp, ReverseCompare, ReverseInv, ReversePar, Back
<1>2. cskip_info' = cskip_info \/ \E info : info.i_arg = 0 /\ cskip_info' = Append(cskip_info, info)
  <2>1. CASE ReverseCondExp
    <3> DEFINE ins == Instr(play, Behind)
               info == [cop |-> Arg(play, Behind, 0), flag |-> Arg(play, Behind, 1),
                        left |-> ins.arg[1], right |-> ins.arg[2],
                        max_left_right |-> max_left_right(ins),
                        skip_var_true |-> <<>>, skip_var_false |-> <<>>, i_arg |-> 0]
    <3>1. cskip_info' = cskip_info \/ cskip_info' = Append(cskip_info, info)
      BY <2>1 DEF ReverseCondExp
    <3>2. info.i_arg = 0
      OBVIOUS
    <3> HIDE DEF info
    <3>3. QED
      BY <3>1, <3>2
  <2>2. CASE ~ReverseCondExp
    BY <2>2 DEF ReverseArithmetic, ReverseCompare, ReverseInv, ReversePar
  <2>3. QED
    BY <2>1, <2>2
<1>3. Unreserved => Unreserved'
  <2>1. SUFFICES ASSUME Unreserved, NEW k \in DOMAIN cskip_info' PROVE cskip_info'[k].i_arg = 0
    BY DEF Unreserved
  <2>2. CASE cskip_info' = cskip_info
    BY <2>1, <2>2 DEF Unreserved
  <2>3. CASE \E info : info.i_arg = 0 /\ cskip_info' = Append(cskip_info, info)
    <3>1. PICK info : info.i_arg = 0 /\ cskip_info' = Append(cskip_info, info)
      BY <2>3
    <3>2. IsSeq(cskip_info)
      BY Resting DEF Ready, ConnInv
    <3>3. /\ DOMAIN cskip_info' = 1 .. Len(cskip_info) + 1 /\ DOMAIN cskip_info = 1 .. Len(cskip_info)
          /\ \A j \in 1 .. Len(cskip_info) : cskip_info'[j] = cskip_info[j]
          /\ cskip_info'[Len(cskip_info) + 1] = info
      BY <3>1, <3>2, SeqAppend, SeqLength
    <3>4. Len(cskip_info) \in Nat
      BY <3>2, SeqLength
    <3>5. k \in 1 .. Len(cskip_info) \/ k = Len(cskip_info) + 1
      BY <2>1, <3>3, <3>4
    <3>6. QED
      BY <2>1, <3>1, <3>3, <3>5 DEF Unreserved
  <2>4. QED
    BY <1>2, <2>2, <2>3
<1>4. QED
  BY <1>1, <1>3 DEF PlayInv, SkipFree, SkipFreeIn

LEMMA PreparePlays ==
  ASSUME IInv, PlayInv, Prepare
  PROVE  PlayInv'
<1>1. Prepares /\ RecInv' /\ Ready
  BY Resting, PreparePrepares, PrepareAll DEF IInv
<1>2. /\ phase = "reverse" /\ phase' = "forward" /\ play' = play /\ Here' = 0
      /\ 0 \in Op(play) /\ 0 \in Address(play) /\ tape'[0].new_var = 0
      /\ \A a \in Address(play) \ {0} : tape'[a].new_var = tape[a].new_var
      /\ rec' = Put(rec, [op |-> "Begin", kind |-> <<>>], <<0>>)
      /\ play \in Tapes
  BY <1>1 DEF Prepares, Ready, CursorInv
<1>3. rec = EmptyRecorder /\ rec' \in Recorder
  BY <1>1, <1>2 DEF Ready, RecInv
<1> DEFINE code == [op |-> "Begin", kind |-> <<>>]
           u == NewRecording'
<1>4. NumRes(code.op) = 1
  BY ResultCounts
<1>5. /\ rec'.op_rec_ = <<code>> /\ rec'.op_arg_rec_ = <<0>> /\ rec'.num_var_rec_ = 1
      /\ rec'.first = <<0>> /\ rec'.last = <<0>>
  <2>1. rec.op_rec_ = <<>> /\ rec.op_arg_rec_ = <<>> /\ rec.first = <<>> /\ rec.last = <<>>
        /\ rec.num_var_rec_ = 0
    BY <1>3 DEF EmptyRecorder
  <2>2. rec \in Recorder /\ code \in OpCodeRec /\ <<0>> \in Seq(Nat)
    BY <1>1, <1>2, OwnCodes DEF Ready, RecInv
  <2>3. rec.num_var_rec_ + NumRes(code.op) > 0 /\ rec.num_var_rec_ + NumRes(code.op) - 1 = 0
    BY <1>4, <2>1
  <2> HIDE DEF code
  <2>4. /\ rec'.num_var_rec_ = rec.num_var_rec_ + NumRes(code.op)
        /\ rec'.op_rec_ = Append(rec.op_rec_, code)
        /\ rec'.op_arg_rec_ = rec.op_arg_rec_ \o <<0>>
        /\ rec'.first = Append(rec.first, Len(rec.op_arg_rec_))
        /\ rec'.last = Append(rec.last, rec.num_var_rec_ + NumRes(code.op) - 1)
    <3>1. rec' = Put(rec, code, <<0>>)
      BY <1>2 DEF code
    <3>2. QED
      BY <2>2, <2>3, <3>1, PutFacts
  <2>5. rec'.num_var_rec_ = 1
    BY <1>4, <2>1, <2>4
  <2>6. rec'.op_rec_ = <<code>> /\ rec'.op_arg_rec_ = <<0>>
    BY <2>1, <2>4
  <2>7. rec'.first = <<0>> /\ rec'.last = <<0>>
    BY <2>1, <2>3, <2>4
  <2>8. QED
    BY <2>5, <2>6, <2>7
<1>6. play.n \in Nat
  BY <1>2, InvPlaces
<1>7. u = RecordingOf(rec', play.n, dep_taddr')
  BY <1>2 DEF NewRecording, RecordingOf
<1>8. Level(rec')
  BY <1>5 DEF Level
<1>9. Listed(u)
  BY <1>3, <1>6, <1>7, <1>8, LevelListed
<1>10. /\ u.num_op_rec = 1 /\ u.num_op_arg_rec = 1 /\ u.num_var_rec = 1
       /\ u.op_rec_[0] = code /\ u.first[0] = 0 /\ u.last[0] = 0 /\ Len(rec'.op_rec_) = 1
  <2>1. Len(rec'.op_rec_) = 1 /\ Len(rec'.op_arg_rec_) = 1 /\ Len(rec'.first) = 1
        /\ Len(rec'.last) = 1 /\ rec'.op_rec_[1] = code /\ rec'.first[1] = 0
        /\ rec'.last[1] = 0 /\ rec'.num_var_rec_ = 1
    BY <1>5
  <2>2. u.num_op_rec = Len(rec'.op_rec_) /\ u.num_op_arg_rec = Len(rec'.op_arg_rec_)
        /\ u.num_var_rec = rec'.num_var_rec_ /\ u.op_rec_ = FromZero(rec'.op_rec_)
        /\ u.first = FromZero(rec'.first) /\ u.last = FromZero(rec'.last)
    BY <1>7, RecordingFields
  <2>3. FromZero(rec'.op_rec_)[0] = rec'.op_rec_[1] /\ FromZero(rec'.first)[0] = rec'.first[1]
        /\ FromZero(rec'.last)[0] = rec'.last[1]
    <3>1. 0 \in 0 .. 1 - 1 /\ 0 + 1 = 1
      OBVIOUS
    <3>2. QED
      BY <2>1, <3>1 DEF FromZero
  <2> HIDE DEF u, code
  <2>4. QED
    BY <2>1, <2>2, <2>3
<1>11. Begun(u)
  <2>1. u.op_rec_[0] = [op |-> "Begin", kind |-> <<>>]
    BY <1>10
  <2> HIDE DEF u
  <2>2. QED
    BY <1>9, <1>10, <2>1, BegunFirst
<1>12. Op(u) = {0}
  BY <1>10 DEF Op
<1>13. Numbered'
  <2>1. \A a \in Address(play) \ {0} : tape'[a].new_var = Invalid
    BY <1>1, <1>2 DEF Ready, FreshInv
  <2>2. 0 \in {u.last[k] : k \in Op(u)}
    BY <1>10, <1>12
  <2>3. Invalid' = Invalid
    BY <1>2 DEF Invalid
  <2> HIDE DEF u
  <2>4. \A a \in Address(play) : tape'[a].new_var # Invalid => a = 0
    BY <2>1
  <2>5. \A a \in Address(play) : tape'[a].new_var # Invalid =>
          /\ tape'[a].new_var \in {u.last[k] : k \in Op(u)}
          /\ a # 0 => tape'[a].new_var > 0
    BY <1>2, <2>2, <2>4
  <2>6. QED
    BY <1>2, <2>3, <2>5 DEF Numbered, u
<1>14. Counts'
  <2>1. (Here <= play.n => Len(rec.op_rec_) = Here + 1)'
    BY <1>2, <1>10
  <2>2. (Here >= play.n => Len(rec.op_rec_) > play.n)'
    <3>1. 0 >= play.n => 1 > play.n
      BY <1>6
    <3> HIDE DEF u
    <3>2. QED
      BY <1>2, <1>10, <3>1
  <2>3. QED
    BY <2>1, <2>2 DEF Counts
<1>15. Ending'
  BY <1>2, <1>10, <1>12 DEF Ending
<1>16. NewInv'
  BY <1>11, <1>13, <1>14, <1>15 DEF NewInv
<1>17. Unreserved => Unreserved'
  <2>1. SUFFICES ASSUME Unreserved, NEW k \in DOMAIN cskip_info' PROVE cskip_info'[k].i_arg = 0
    BY DEF Unreserved
  <2>2. DOMAIN cskip_info' = DOMAIN cskip_info
        /\ cskip_info'[k] = [cskip_info[k] EXCEPT !.skip_var_true = Skipped(<<FALSE, k>>),
                                                  !.skip_var_false = Skipped(<<TRUE, k>>)]
    BY <2>1 DEF Prepare
  <2>3. cskip_info[k] \in Info(play)
    BY <1>1, <2>1, <2>2 DEF Ready, InfoInv
  <2>4. cskip_info[k].i_arg = 0
    BY <2>1, <2>2 DEF Unreserved
  <2>5. QED
    BY <2>2, <2>3, <2>4 DEF Info
<1>18. SkipFree
  BY <1>3 DEF SkipFree, SkipFreeIn, EmptyRecorder
<1>19. QED
  BY <1>16, <1>17, <1>18 DEF PlayInv

(* Without conditional skips there is nothing to fill in. *)
LEMMA NothingFilled ==
  ASSUME NEW R \in Recorder, NEW tp, NEW infos, \A k \in DOMAIN infos : infos[k].i_arg = 0
  PROVE  FilledIn(R, tp, infos) = R
<1> DEFINE words(i) == SkipWords(tp, Len(R.op_rec_), infos[i])
           at(k) == {i \in DOMAIN infos : /\ infos[i].i_arg > 0
                                          /\ k - infos[i].i_arg \in DOMAIN words(i)}
           filled == [k \in DOMAIN R.op_arg_rec_ |->
                        IF at(k) = {} THEN R.op_arg_rec_[k]
                        ELSE LET i == CHOOSE i \in at(k) : TRUE IN words(i)[k - infos[i].i_arg]]
<1>1. \A k : at(k) = {}
  OBVIOUS
<1>2. R.op_arg_rec_ \in Seq(Nat)
  BY DEF Recorder
<1>3. filled = [k \in DOMAIN R.op_arg_rec_ |-> R.op_arg_rec_[k]]
  <2> HIDE DEF at, words
  <2>1. QED
    BY <1>1
<1>4. filled = R.op_arg_rec_
  <2> HIDE DEF filled
  <2>1. QED
    BY <1>2, <1>3
<1>5. FilledIn(R, tp, infos) = [R EXCEPT !.op_arg_rec_ = filled]
  BY DEF FilledIn
<1> HIDE DEF filled
<1>6. [R EXCEPT !.op_arg_rec_ = R.op_arg_rec_] = R
  BY DEF Recorder
<1>7. QED
  BY <1>4, <1>5, <1>6

(* What is filled in are no operators. *)
LEMMA FilledOps ==
  ASSUME NEW R \in Recorder, NEW tp, NEW infos
  PROVE  FilledIn(R, tp, infos).op_rec_ = R.op_rec_
  BY DEF FilledIn, Recorder

(* The last step puts EndOp, and fills in nothing. *)
LEMMA FinishCopy ==
  ASSUME IInv, PlayInv, Finish, SkipFree'
  PROVE  \E i \in Op(play) :
           /\ ForwardTo(i) /\ InstrOf(play, i).op = "End" /\ play' = play
           /\ cursor' = At(play, i) /\ phase' = "done" /\ i = play.num_op_rec - 1
           /\ SkipFree /\ cskip_info' = cskip_info /\ CopyOf(i) /\ Renumbers
           /\ rec'.num_var_rec_ \in Nat /\ OperandsNew(i) /\ RenumbersTo(i)
<1>1. Ready /\ Forward({"End"})
  BY Resting DEF Finish
<1>2. PICK i \in Op(play) : Moves(i, {"End"})
  BY <1>1, ForwardMoves
<1>3. /\ ForwardTo(i) /\ InstrOf(play, i).op = "End" /\ play' = play /\ cursor' = At(play, i)
      /\ tape' = Unmatched /\ cskip_info' = Reserved /\ phase' = "done" /\ phase = "forward"
      /\ OpAt(play, Ahead) = play.op_rec_[i]
  BY <1>2 DEF Moves, Finish, ForwardTo
<1>4. play \in Tapes /\ RecInv /\ InfoInv /\ rec \in Recorder
  BY <1>1, <1>3 DEF Ready, CursorInv, RecInv
<1>5. i = play.num_op_rec - 1 /\ play.op_rec_[i] \in OpCodeRec /\ DOMAIN InstrOf(play, i).arg = {}
      /\ play.op_rec_[i].op = "End"
  BY <1>3, <1>4, Location, Operation, CodeFacts DEF Located, Operated
<1> DEFINE code == play.op_rec_[i]
           P == Put(WithSkip, code, <<>>)
<1>6. P \in Recorder
  <2>1. WithSkip \in Recorder /\ WithSkip.num_var_rec_ > 0 /\ WithSkip.num_var_rec_ \in Nat
    BY <1>3, <1>4, WithSkipFacts DEF Recorder
  <2>2. NumRes(code.op) \in Nat /\ code \in OpCodeRec /\ <<>> \in Seq(Nat)
    BY <1>5, ResultCounts
  <2> HIDE DEF code
  <2>3. WithSkip.num_var_rec_ + NumRes(code.op) > 0
    BY <2>1, <2>2
  <2>4. QED
    BY <2>1, <2>2, <2>3, PutFacts
<1>7. rec' = FilledIn(P, Unmatched, Reserved)
  BY <1>3 DEF Finish
<1>8. SkipFreeIn(WithSkip)
  <2>1. rec'.op_rec_ = P.op_rec_
    BY <1>6, <1>7, FilledOps
  <2>2. SkipFreeIn(P)
    BY <2>1 DEF SkipFree, SkipFreeIn
  <2>3. WithSkip \in Recorder
    BY <1>3, <1>4, WithSkipFacts
  <2> HIDE DEF code
  <2>4. SkipFreeIn(Put(WithSkip, code, <<>>))
    BY <2>2
  <2>5. QED
    BY <2>3, <2>4, PutSkipFree
<1>9. SkipFree /\ WithSkip = rec /\ Reserved = cskip_info
  BY <1>1, <1>3, <1>8, Unskipped
<1>10. NewInv /\ Unreserved
  BY <1>3, <1>9 DEF PlayInv
<1>11. rec' = P
  BY <1>6, <1>7, <1>9, <1>10, NothingFilled DEF Unreserved
<1>12. OperandsNew(i)
  BY <1>5 DEF OperandsNew
<1>13. PutCopy(i, rec, <<>>)
  <2>1. Extends(rec, rec)
    <3>1. Len(rec.par_rec_) \in Nat
      BY <1>4 DEF Recorder
    <3>2. QED
      BY <1>4, <3>1 DEF Extends
  <2>2. <<>> \in Seq(Nat) /\ DOMAIN <<>> = {} /\ <<>> \o <<>> = <<>>
    OBVIOUS
  <2>3. PrefixOf(play, i) = <<>>
    BY <1>5 DEF PrefixOf
  <2>4. CopiedWords(play, i, <<>>) = <<>>
    BY <2>2, <2>3 DEF CopiedWords
  <2>5. rec' = Put(rec, play.op_rec_[i], CopiedWords(play, i, <<>>))
    BY <1>9, <1>11, <2>4
  <2>6. QED
    BY <1>5, <2>1, <2>2, <2>5 DEF PutCopy
<1>14. CopyOf(i)
  BY <1>1, <1>3, <1>10, <1>12, <1>13, CopyStep
<1>15. Renumbers /\ RenumbersTo(i)
  BY <1>1, <1>3, UnmatchedNumbers DEF Renumbers, RenumbersTo
<1>16. rec'.num_var_rec_ \in Nat
  BY <1>6, <1>11 DEF Recorder
<1>17. QED
  BY <1>3, <1>5, <1>9, <1>12, <1>14, <1>15, <1>16

LEMMA FinishPlays ==
  ASSUME IInv, PlayInv, Finish
  PROVE  PlayInv'
<1>1. SUFFICES ASSUME SkipFree' PROVE Unreserved' /\ NewInv'
  BY DEF PlayInv
<1>2. PICK i \in Op(play) :
        /\ ForwardTo(i) /\ play' = play /\ cursor' = At(play, i) /\ phase' = "done"
        /\ i = play.num_op_rec - 1 /\ SkipFree /\ cskip_info' = cskip_info /\ CopyOf(i)
        /\ Renumbers /\ rec'.num_var_rec_ \in Nat
  BY <1>1, FinishCopy
<1>3. Ready /\ NewInv /\ Unreserved
  BY <1>2, Resting DEF PlayInv, ForwardTo
<1>4. NewInv'
  BY <1>2, <1>3, CopyKeeps
<1>5. QED
  BY <1>2, <1>3, <1>4 DEF Unreserved

(* The dependent variables have new addresses. *)
LEMMA DependentsNew ==
  ASSUME IInv, NEW i \in Op(play), ForwardTo(i), i = play.num_op_rec - 1,
         NEW k \in DOMAIN play.dep_taddr_
  PROVE  /\ play.dep_taddr_[k] \in Address(play) /\ play.dep_taddr_[k] > 0
         /\ HasNewVar(play.dep_taddr_[k])
<1> DEFINE a == play.dep_taddr_[k]
<1>1. Ready /\ play \in Tapes /\ phase = "forward" /\ i = Here + 1 /\ Here \in Op(play)
  BY Resting DEF Ready, CursorInv, ForwardTo
<1>2. a \in Address(play) /\ tape[a].connect_type = "yes_connected"
  BY <1>1 DEF Ready, ConnInv
<1>3. a > 0 /\ a \in {play.last[m] : m \in 0 .. play.num_op_rec - 1}
  <2>1. play.dep_taddr_ \in Seq(1 .. play.num_var_rec - 1) /\ Ordered(play)
    BY <1>1, TapesAssumption DEF WellFormed, Vectors
  <2>2. a \in 1 .. play.num_var_rec - 1
    BY <2>1, SeqAt
  <2>3. a \in {play.last[m] : m \in 0 .. play.num_op_rec - 1}
    BY <2>1 DEF Ordered
  <2>4. a > 0
    <3> HIDE DEF a
    <3>1. play.num_var_rec \in Nat
      BY <1>1, Ends
    <3>2. QED
      BY <2>2, <3>1
  <2>5. QED
    BY <2>3, <2>4
<1>4. PICK l \in Op(play) : a = play.last[l]
  BY <1>3 DEF Op
<1>5. PICK m \in Op(play) : play.last[m] = a /\ NumRes(play.op_rec_[m].op) > 0
  BY <1>1, <1>4, ResultOf
<1>6. InstrOf(play, m).res = a /\ NumRes(InstrOf(play, m).op) > 0
      /\ (InstrOf(play, m).op = "End" <=> m = play.num_op_rec - 1)
  BY <1>1, <1>5, Location DEF Located
<1>7. m # i
  BY <1>6, ResultCounts
<1>8. Passed(m)
  <2>1. play.num_op_rec \in Nat
    BY <1>1, Ends
  <2>2. QED
    BY <1>1, <1>5, <1>7, <2>1 DEF Passed, Op
<1>9. Recorded(m)
  BY <1>2, <1>6 DEF Recorded, Result
<1>10. HasNewVar(a)
  BY <1>1, <1>6, <1>8, <1>9 DEF Ready, FreshInv
<1>11. QED
  BY <1>2, <1>3, <1>10

LEMMA FinishPlayable ==
  ASSUME IInv, PlayInv, Finish, SkipFree'
  PROVE  OutputPlayable'
<1> DEFINE t == NewRecording
           u == NewRecording'
<1>1. PICK i \in Op(play) :
        /\ ForwardTo(i) /\ InstrOf(play, i).op = "End" /\ play' = play /\ phase' = "done"
        /\ i = play.num_op_rec - 1 /\ SkipFree /\ CopyOf(i) /\ rec'.num_var_rec_ \in Nat
  BY FinishCopy
<1>2. Ready /\ NewInv /\ play \in Tapes /\ phase = "forward"
  BY <1>1, Resting DEF PlayInv, ForwardTo, Ready, CursorInv
<1>3. NewInv'
  BY <1>1, FinishPlays DEF PlayInv
<1>4. PICK args : Copies(play, i, t, u, args)
  BY <1>1 DEF CopyOf
<1>5. /\ u.num_op_rec = t.num_op_rec + 1 /\ t.num_op_rec \in Nat /\ u.n = play.n
      /\ u.num_var_rec = t.num_var_rec + NumRes(play.op_rec_[i].op)
      /\ \A k \in Op(t) : u.last[k] = t.last[k]
  BY <1>2, <1>4 DEF Copies, Extended, NewInv, Begun, Listed
<1>6. u.num_op_rec > u.n + 1
  <2>1. i > play.n => Len(rec.op_rec_) > play.n
    BY <1>1, <1>2, CountsMove DEF NewInv
  <2>2. play.n \in Nat /\ play.n + 1 < play.num_op_rec /\ play.num_op_rec \in Nat
    BY <1>2, InvPlaces, Ends
  <2>3. Len(rec.op_rec_) = t.num_op_rec
    BY DEF NewRecording
  <2> HIDE DEF t, u
  <2>4. QED
    BY <1>1, <1>5, <2>1, <2>2, <2>3
<1>7. \A k \in Op(u) : u.op_rec_[k].op = "End" <=> k = u.num_op_rec - 1
  <2>1. u.num_op_rec = Len(rec'.op_rec_)
    BY DEF NewRecording
  <2>2. QED
    BY <1>1, <1>3, <2>1 DEF NewInv, Ending
<1>8. u.num_var_rec = rec.num_var_rec_ /\ rec.num_var_rec_ \in Nat
  <2>1. play.op_rec_[i].op = "End"
    BY <1>1, <1>2, CodeFacts
  <2>2. NumRes(play.op_rec_[i].op) = 0
    BY <2>1, ResultCounts
  <2>3. t.num_var_rec = rec.num_var_rec_ /\ rec.num_var_rec_ \in Nat
    BY <1>2 DEF NewRecording, Ready, RecInv
  <2> HIDE DEF t, u
  <2>4. QED
    BY <1>5, <2>2, <2>3
<1>9. u.dep_taddr_ = [k \in DOMAIN play.dep_taddr_ |-> tape[play.dep_taddr_[k]].new_var]
  <2>1. dep_taddr = play.dep_taddr_
    BY <1>2 DEF IInv, DepInv
  <2>2. QED
    BY <2>1 DEF NewRecording, Finish
<1>10. ASSUME NEW k \in DOMAIN play.dep_taddr_
       PROVE  /\ tape[play.dep_taddr_[k]].new_var \in 1 .. u.num_var_rec - 1
              /\ tape[play.dep_taddr_[k]].new_var \in {u.last[m] : m \in Op(u)}
  <2> DEFINE a == play.dep_taddr_[k]
  <2>1. a \in Address(play) /\ a > 0 /\ HasNewVar(a)
    BY <1>1, DependentsNew
  <2>2. tape[a].new_var # Invalid
    BY <1>2, <2>1, HasNumber
  <2>3. tape[a].new_var \in {t.last[m] : m \in Op(t)} /\ tape[a].new_var > 0
    BY <1>2, <2>1, <2>2 DEF NewInv, Numbered
  <2>4. \A m \in Op(t) : m \in Op(u) /\ u.last[m] = t.last[m]
    <3> HIDE DEF t, u
    <3>1. QED
      BY <1>5 DEF Op
  <2>5. tape[a].new_var \in Nat
    BY <1>2, <2>1 DEF Ready, ConnInv, Entries, Entry
  <2>6. tape[a].new_var < u.num_var_rec
    BY <1>8, <2>1 DEF HasNewVar
  <2> HIDE DEF t, u, a
  <2>7. tape[a].new_var \in 1 .. u.num_var_rec - 1
    BY <1>8, <2>3, <2>5, <2>6
  <2>8. tape[a].new_var \in {u.last[m] : m \in Op(u)}
    BY <2>3, <2>4
  <2>9. QED
    BY <2>7, <2>8 DEF a
<1>11. u.dep_taddr_ \in Seq(1 .. u.num_var_rec - 1)
       /\ DOMAIN u.dep_taddr_ = DOMAIN play.dep_taddr_
  <2>1. play.dep_taddr_ \in Seq(1 .. play.num_var_rec - 1)
    BY <1>2, TapesAssumption DEF WellFormed, Vectors
  <2>2. PICK n \in Nat : DOMAIN play.dep_taddr_ = 1 .. n
    BY <2>1
  <2> DEFINE s == u.dep_taddr_
  <2>3. s = [k \in 1 .. n |-> tape[play.dep_taddr_[k]].new_var]
    BY <1>9, <2>2
  <2>4. \A k \in 1 .. n : tape[play.dep_taddr_[k]].new_var \in 1 .. u.num_var_rec - 1
    BY <1>10, <2>2
  <2> HIDE DEF u
  <2>5. s \in [1 .. n -> 1 .. u.num_var_rec - 1] /\ DOMAIN s = 1 .. n
    BY <2>3, <2>4
  <2>6. QED
    BY <2>2, <2>5, ShortSeqOf
<1>12. \A k \in DOMAIN u.dep_taddr_ : u.dep_taddr_[k] \in {u.last[m] : m \in Op(u)}
  BY <1>9, <1>10, <1>11
<1>13. Begun(u)
  BY <1>3 DEF NewInv
<1> HIDE DEF u
<1>14. WellFormed(u)
  BY <1>6, <1>7, <1>11, <1>12, <1>13, Finished
<1>15. QED
  BY <1>14 DEF OutputPlayable, u

(* The new addresses of what is on a stack. *)
LEMMA PoppedNew ==
  ASSUME Ready, NewInv, phase = "csum", NEW stack \in Seq(Address(play)),
         \A k \in DOMAIN stack : HasNewVar(stack[k]) /\ stack[k] # 0
  PROVE  \A k \in DOMAIN Popped(stack) :
           /\ Popped(stack)[k] \in {NewRecording.last[j] : j \in Op(NewRecording)}
           /\ Popped(stack)[k] > 0
           /\ Len(stack) - k + 1 \in DOMAIN stack
           /\ Popped(stack)[k] = tape[stack[Len(stack) - k + 1]].new_var
<1>1. PICK n \in Nat : n = Len(stack) /\ stack \in [1 .. n -> Address(play)]
  OBVIOUS
<1>2. DOMAIN Popped(stack) = 1 .. n
  BY <1>1 DEF Popped
<1>3. ASSUME NEW k \in 1 .. n
      PROVE  /\ Popped(stack)[k] \in {NewRecording.last[j] : j \in Op(NewRecording)}
             /\ Popped(stack)[k] > 0
             /\ n - k + 1 \in 1 .. n
             /\ Popped(stack)[k] = tape[stack[n - k + 1]].new_var
  <2>1. n - k + 1 \in 1 .. n
    BY <1>3
  <2>2. Reverse(stack)[k] = stack[n - k + 1]
    BY <1>1 DEF Reverse
  <2>3. Popped(stack)[k] = tape[Reverse(stack)[k]].new_var
    BY <1>1 DEF Popped
  <2>4. PICK a \in Address(play) : a = stack[n - k + 1] /\ HasNewVar(a) /\ a # 0
    BY <1>1, <2>1
  <2>5. tape[a].new_var # Invalid
    BY <2>4, HasNumber
  <2>6. tape[a].new_var \in {NewRecording.last[j] : j \in Op(NewRecording)}
        /\ tape[a].new_var > 0
    BY <2>4, <2>5 DEF NewInv, Numbered
  <2>7. QED
    BY <2>1, <2>2, <2>3, <2>4, <2>6
<1>4. QED
  BY <1>1, <1>2, <1>3

(* The sum that is put, of what is on the stacks. *)
SumOf(w, p, s, d) ==
  /\ CopiesSum(NewRecording, NewRecording', w, p, s, d)
  /\ NewRecording'.par_rec_[p + 1] = csum_work.sum_par
  /\ s = Popped(csum_work.add_stack) /\ d = Popped(csum_work.sub_stack)

LEMMA SumEndPut ==
  ASSUME Ready, CsumInv, NewInv, SumEnd
  PROVE  \E w, p, s, d : SumOf(w, p, s, d)
<1> DEFINE t == NewRecording
           u == NewRecording'
<1>1. phase = "csum" /\ phase' = "forward" /\ play' = play /\ dep_taddr' = dep_taddr
  BY DEF SumEnd
<1>2. CursorInv /\ ConnInv /\ rec \in Recorder /\ play \in Tapes /\ play.n \in Nat
  BY <1>1, InvPlaces DEF Ready, CursorInv, RecInv
<1>3. Worked(csum_work) /\ csum_work \in Works
  BY <1>1 DEF CsumInv
<1>4. PICK R : R = PutPar(rec, csum_work.sum_par)
  OBVIOUS
<1>5. Extends(rec, R) /\ R \in Recorder /\ HasPar(R, csum_work.sum_par)
  BY <1>2, <1>3, <1>4, PutParFacts DEF Works, Extends
<1>6. PICK p, s, d :
        /\ p = IndexOf(R, csum_work.sum_par)
        /\ s = Popped(csum_work.add_stack) /\ d = Popped(csum_work.sub_stack)
  OBVIOUS
<1>7. p \in Nat /\ p < Len(R.par_rec_) /\ R.par_rec_[p + 1] = csum_work.sum_par
  <2>1. p \in 0 .. Len(R.par_rec_) - 1 /\ R.par_rec_[p + 1] = csum_work.sum_par
    BY <1>5, <1>6, IndexOfFacts
  <2>2. Len(R.par_rec_) \in Nat
    BY <1>5 DEF Recorder
  <2>3. QED
    BY <2>1, <2>2
<1>8. /\ s \in Seq(Nat) /\ Len(s) = Len(csum_work.add_stack)
      /\ d \in Seq(Nat) /\ Len(d) = Len(csum_work.sub_stack)
  BY <1>2, <1>3, <1>6, PoppedFacts DEF Works
<1>9. PICK w : w = <<Len(s), Len(d), p>> \o s \o d \o <<Len(s) + Len(d)>>
  OBVIOUS
<1>10. IsSum(w, p, s, d)
  BY <1>7, <1>8, <1>9 DEF IsSum
<1>11. w \in Seq(Nat)
  <2>1. SumReads(w, p, s, d)
    BY <1>10, SumWordsFacts
  <2>2. QED
    BY <2>1 DEF SumReads
<1>12. PICK n_add, n_sub : n_add = Len(csum_work.add_stack) /\ n_sub = Len(csum_work.sub_stack)
  OBVIOUS
<1>13. rec' = Put(R, CSumCode, <<n_add, n_sub, p>> \o s \o d \o <<n_add + n_sub>>)
  BY <1>4, <1>6, <1>12, Zenon DEF SumEnd, CSumCode
<1>14. rec' = Put(R, CSumCode, w)
  <2>1. n_add = Len(s) /\ n_sub = Len(d)
    BY <1>8, <1>12
  <2>2. QED
    BY <1>9, <1>13, <2>1, Zenon
<1>15. CSumCode \in OpCodeRec
  BY OwnCodes DEF CSumCode
<1>16. Extended(t, u, CSumCode, w)
  <2>1. t = RecordingOf(rec, play.n, dep_taddr) /\ u = RecordingOf(rec', play.n, dep_taddr')
    BY <1>1 DEF NewRecording, RecordingOf
  <2>2. Begun(RecordingOf(rec, play.n, dep_taddr))
    BY <2>1 DEF NewInv
  <2> HIDE DEF t, u
  <2>3. QED
    BY <1>2, <1>5, <1>11, <1>14, <1>15, <2>1, <2>2, PutExtended
<1>17. u.par_rec_ = R.par_rec_
  <2>1. u.par_rec_ = rec'.par_rec_
    BY DEF NewRecording
  <2>2. rec'.par_rec_ = R.par_rec_
    BY <1>5, <1>14 DEF Put, Recorder
  <2>3. QED
    BY <2>1, <2>2
<1>18. /\ \A k \in DOMAIN s : s[k] \in {t.last[j] : j \in Op(t)} /\ s[k] > 0
       /\ \A k \in DOMAIN d : d[k] \in {t.last[j] : j \in Op(t)} /\ d[k] > 0
  <2>1. csum_work.add_stack \in Seq(Address(play)) /\ csum_work.sub_stack \in Seq(Address(play))
    BY <1>3 DEF Works
  <2>2. /\ \A k \in DOMAIN csum_work.add_stack :
             HasNewVar(csum_work.add_stack[k]) /\ csum_work.add_stack[k] # 0
        /\ \A k \in DOMAIN csum_work.sub_stack :
             HasNewVar(csum_work.sub_stack[k]) /\ csum_work.sub_stack[k] # 0
    BY <1>3 DEF Worked
  <2> HIDE DEF t
  <2>3. QED
    BY <1>1, <1>6, <2>1, <2>2, PoppedNew DEF t
<1> HIDE DEF t, u
<1>19. CopiesSum(t, u, w, p, s, d)
  BY <1>7, <1>10, <1>16, <1>17, <1>18 DEF CopiesSum
<1>20. QED
  BY <1>6, <1>7, <1>17, <1>19 DEF SumOf, t, u

(* What the end of a sum changes, if there are no conditional skips. *)
LEMMA SumEndFacts ==
  ASSUME IInv, PlayInv, SumEnd, SkipFree', NEW r, r = InstrOf(play, Here).res
  PROVE  /\ SkipFree /\ NewInv /\ Unreserved /\ r \in Address(play)
         /\ \E w, p, s, d : SumOf(w, p, s, d)
         /\ \A a \in Address(play) :
              tape'[a].new_var = IF a = r THEN rec'.num_var_rec_ - 1 ELSE tape[a].new_var
<1>1. phase = "csum" /\ phase' = "forward" /\ play' = play
  BY DEF SumEnd
<1>2. Ready /\ CsumInv /\ CursorInv /\ ConnInv /\ play \in Tapes /\ Here \in Op(play)
      /\ cursor = At(play, Here) /\ rec \in Recorder
  BY <1>1, Resting DEF IInv, CursorInv, RecInv
<1>3. Advances(Here)
  BY <1>2, SumEndAdvances
<1>4. SkipFree
  <2>1. \E R, code, words : Extends(rec, R) /\ rec' = Put(R, code, words)
    <3>1. Extends(rec, PutPar(rec, csum_work.sum_par))
      BY <1>1, <1>2, PutParFacts DEF CsumInv, Works
    <3>2. \E code, words : rec' = Put(PutPar(rec, csum_work.sum_par), code, words)
      BY Zenon DEF SumEnd
    <3>3. QED
      BY <3>1, <3>2
  <2>2. PICK R, code, words : Extends(rec, R) /\ rec' = Put(R, code, words)
    BY <2>1
  <2>3. SkipFreeIn(rec')
    BY DEF SkipFree, SkipFreeIn
  <2>4. SkipFreeIn(Put(R, code, words))
    BY <2>2, <2>3
  <2>5. R \in Recorder
    BY <2>2 DEF Extends
  <2>6. SkipFreeIn(R)
    BY <2>4, <2>5, PutSkipFree
  <2>7. QED
    BY <2>2, <2>6, ExtendsSkipFree DEF SkipFree
<1>5. NewInv /\ Unreserved
  BY <1>1, <1>4 DEF PlayInv
<1>6. \E w, p, s, d : SumOf(w, p, s, d)
  BY <1>2, <1>5, SumEndPut
<1>7. \A a \in Address(play) :
        tape'[a].new_var = IF a = r THEN rec'.num_var_rec_ - 1 ELSE tape[a].new_var
  <2>1. r \in Address(play) /\ cursor.var_index_ = r
    BY <1>2, Location DEF Located, At
  <2>2. tape' = [tape EXCEPT ![r].new_op = Len(rec.op_rec_), ![r].new_var = rec'.num_var_rec_ - 1]
    BY <2>1 DEF SumEnd
  <2>3. DOMAIN tape = Address(play) /\ tape[r] \in Entry(play, Len(cskip_info))
    BY <1>2, <2>1 DEF ConnInv, Entries
  <2>4. tape'[r].new_var = rec'.num_var_rec_ - 1
    <3> DEFINE o == Len(rec.op_rec_)
               n == rec'.num_var_rec_ - 1
    <3>1. tape' = [tape EXCEPT ![r].new_op = o, ![r].new_var = n]
      BY <2>2
    <3> HIDE DEF o, n
    <3>2. tape'[r] = [tape[r] EXCEPT !.new_op = o, !.new_var = n]
      BY <2>1, <2>3, <3>1
    <3>3. tape'[r].new_var = n
      BY <2>3, <3>2 DEF Entry
    <3>4. QED
      BY <3>3 DEF n
  <2>5. \A a \in Address(play) \ {r} : tape'[a].new_var = tape[a].new_var
    BY <1>3 DEF Advances
  <2>6. QED
    BY <2>4, <2>5
<1>8. r \in Address(play)
  BY <1>2, Location DEF Located
<1>9. QED
  BY <1>4, <1>5, <1>6, <1>7, <1>8

LEMMA SumEndPlays ==
  ASSUME IInv, PlayInv, SumEnd
  PROVE  PlayInv'
<1> DEFINE t == NewRecording
           u == NewRecording'
           r == InstrOf(play, Here).res
<1>1. phase = "csum" /\ phase' = "forward" /\ play' = play /\ cskip_info' = cskip_info
      /\ cursor' = cursor /\ dep_taddr' = dep_taddr
  BY DEF SumEnd
<1>2. Ready /\ CsumInv /\ CursorInv /\ ConnInv /\ play \in Tapes /\ Here \in Op(play)
      /\ cursor = At(play, Here) /\ rec \in Recorder /\ rec.num_var_rec_ > 0
  BY <1>1, Resting DEF IInv, CursorInv, RecInv
<1>3. Advances(Here)
  BY <1>2, SumEndAdvances
<1>4. SUFFICES ASSUME SkipFree' PROVE Unreserved' /\ NewInv'
  BY DEF PlayInv
<1>6. NewInv /\ Unreserved
  BY <1>4, SumEndFacts
<1>7. PICK w, p, s, d : SumOf(w, p, s, d)
  BY <1>4, SumEndFacts
<1>8. CopiesSum(t, u, w, p, s, d) /\ Begun(t)
  BY <1>6, <1>7 DEF SumOf, NewInv
<1>9. /\ u.num_op_rec = t.num_op_rec + 1 /\ t.num_op_rec \in Nat
      /\ \A k \in Op(t) : u.last[k] = t.last[k] /\ u.op_rec_[k] = t.op_rec_[k]
      /\ u.op_rec_[t.num_op_rec] = CSumCode
  BY <1>8 DEF CopiesSum, Extended, Begun, Listed
<1>10. Op(t) = 0 .. t.num_op_rec - 1 /\ Op(u) = 0 .. t.num_op_rec
  BY <1>9 DEF Op
<1>11. Len(rec'.op_rec_) = Len(rec.op_rec_) + 1 /\ Len(rec.op_rec_) = t.num_op_rec
       /\ t.n = play.n
  BY <1>9 DEF NewRecording
<1>12. Here > play.n /\ Here \in Nat /\ play.n \in Nat
  <2>1. InstrOf(play, Here).op \in Summation
    BY <1>1, <1>2 DEF CursorInv
  <2>2. play.op_rec_[Here].op # "Inv" /\ play.op_rec_[Here].op # "Begin"
    <3>1. play.op_rec_[Here].op \in {"Inv", "Begin"} =>
            InstrOf(play, Here).op = play.op_rec_[Here].op
      BY <1>2, OtherOf
    <3>2. QED
      BY <2>1, <3>1 DEF Summation
  <2>3. Here # 0 /\ Here \notin 1 .. play.n /\ play.n \in Nat
    BY <1>2, <2>2, CodeFacts, InvPlaces
  <2>4. Here \in Nat
    BY <1>2 DEF Op
  <2>5. QED
    BY <2>3, <2>4
<1>13. Len(rec.op_rec_) > play.n /\ Len(rec.op_rec_) \in Nat
  BY <1>6, <1>9, <1>11, <1>12 DEF NewInv, Counts
<1>14. Begun(u)
  <2>1. t.num_op_rec > t.n
    BY <1>11, <1>13
  <2> HIDE DEF t, u
  <2>2. QED
    BY <1>8, <2>1, SumBegun
<1>15. Renumbers
  <2>1. rec'.num_var_rec_ > 1
    <3>1. u.num_var_rec = t.num_var_rec + NumRes(CSumCode.op)
      BY <1>8 DEF CopiesSum, Extended
    <3>2. NumRes(CSumCode.op) = 1
      BY ResultCounts DEF CSumCode
    <3>3. u.num_var_rec = rec'.num_var_rec_ /\ t.num_var_rec = rec.num_var_rec_
      BY DEF NewRecording
    <3>4. rec.num_var_rec_ \in Nat
      BY <1>2 DEF Recorder
    <3> HIDE DEF t, u
    <3>5. QED
      BY <1>2, <3>1, <3>2, <3>3, <3>4
  <2>2. QED
    BY <1>4, <2>1, SumEndFacts DEF Renumbers
<1>16. Numbered'
  <2>1. \A k \in Op(t) : k \in Op(u) /\ u.last[k] = t.last[k]
    BY <1>9, <1>10
  <2>2. rec'.num_var_rec_ \in Nat
    BY <1>3 DEF Advances
  <2>3. QED
    BY <1>1, <1>6, <1>14, <1>15, <2>1, <2>2, NumberedKept DEF NewInv
<1>17. Counts'
  <2>1. Here' = Here
    BY <1>1 DEF Here
  <2>2. Len(rec'.op_rec_) > play.n
    BY <1>11, <1>12, <1>13
  <2>3. ~ (Here <= play.n)
    BY <1>12
  <2>4. QED
    BY <1>1, <2>1, <2>2, <2>3 DEF Counts
<1>18. Ending'
  <2>1. \A k \in Op(t) : t.op_rec_[k].op # "End"
    BY <1>1, <1>6 DEF NewInv, Ending
  <2>2. u.op_rec_[t.num_op_rec].op # "End"
    BY <1>9 DEF CSumCode
  <2>3. ASSUME NEW k \in Op(u) PROVE u.op_rec_[k].op # "End"
    <3>1. CASE k \in Op(t)
      BY <1>9, <2>1, <3>1
    <3>2. CASE k = t.num_op_rec
      BY <2>2, <3>2
    <3>3. QED
      BY <1>9, <1>10, <3>1, <3>2
  <2>4. QED
    BY <1>1, <2>3 DEF Ending
<1>19. NewInv'
  BY <1>14, <1>16, <1>17, <1>18 DEF NewInv
<1>20. QED
  BY <1>1, <1>6, <1>19 DEF Unreserved

(* What a recording without conditional skips satisfies at each step. *)
FreePlayable == SkipFree => OutputPlayable

LEMMA PlayInit ==
  ASSUME Init
  PROVE  PlayInv /\ FreePlayable
<1>1. phase = "reverse" /\ cskip_info = <<>>
  BY DEF Init
<1>2. Unreserved
  BY <1>1 DEF Unreserved
<1>3. QED
  BY <1>1, <1>2 DEF PlayInv, FreePlayable, OutputPlayable

(* Only Finish ends the optimization. *)
LEMMA NotDone ==
  ASSUME Next, ~Finish
  PROVE  phase' # "done"
<1>1. ReverseArithmetic \/ ReverseCondExp \/ ReverseCompare \/ ReverseInv \/ ReversePar
        => phase' # "done"
  BY DEF ReverseArithmetic, ReverseCondExp, ReverseCompare, ReverseInv, ReversePar, Back
<1>2. Prepare => phase' # "done"
  BY DEF Prepare
<1>3. Drop \/ Merge \/ RecordArithmetic \/ RecordVariable \/ RecordCondExp \/ RecordCompare
        => phase' # "done"
  BY DEF Drop, Merge, RecordArithmetic, RecordVariable, RecordCondExp, RecordCompare,
         Arithmetic, Forward
<1>4. StartSum \/ SumNext \/ SumEnd => phase' # "done"
  BY DEF StartSum, SumNext, SumEnd
<1>5. QED
  BY <1>1, <1>2, <1>3, <1>4 DEF Next

LEMMA PlayStep ==
  ASSUME IInv, PlayInv, FreePlayable, [Next]_vars
  PROVE  PlayInv' /\ FreePlayable'
<1>1. CASE UNCHANGED vars
  <2>1. UNCHANGED <<play, phase, cursor, tape, cskip_info, rec, dep_taddr>>
    BY <1>1 DEF vars
  <2>2. PlayInv'
    BY <2>1, StillPlays
  <2>3. NewRecording' = NewRecording /\ SkipFree' = SkipFree /\ phase' = phase
    BY <2>1 DEF NewRecording, SkipFree, SkipFreeIn
  <2>4. OutputPlayable' = OutputPlayable
    BY <2>3 DEF OutputPlayable
  <2>5. QED
    BY <2>2, <2>3, <2>4 DEF FreePlayable
<1>2. CASE Finish
  BY <1>2, FinishPlays, FinishPlayable DEF FreePlayable
<1>3. CASE Next /\ ~Finish
  <2>1. PlayInv'
    BY <1>3, ReversePlays, PreparePlays, DropPlays, MergePlays, RecordPlays, StartSumPlays,
       SumNextPlays, SumEndPlays DEF Next, Rerecording
  <2>2. phase' # "done"
    BY <1>3, NotDone
  <2>3. QED
    BY <2>1, <2>2 DEF FreePlayable, OutputPlayable
<1>4. QED
  BY <1>1, <1>2, <1>3

(***************************************************************************)
(* A player can play what optimize leaves in the recorder, as long as no   *)
(* conditional skip was put: op codes and arguments agree in number, the   *)
(* cursor finds each operator's arguments from either end, a cumulative    *)
(* sum has its count of operands as its last argument, operands are        *)
(* results of earlier operators, and the dependent variables are results.  *)
(***************************************************************************)
THEOREM OutputStaysPlayable == Spec => [](SkipFree => OutputPlayable)
<1>1. Init => IInv /\ PlayInv /\ FreePlayable
  BY InitAll, PlayInit
<1>2. IInv /\ IInv' /\ PlayInv /\ FreePlayable /\ [Next]_vars => PlayInv' /\ FreePlayable'
  BY PlayStep
<1>3. FreePlayable => (SkipFree => OutputPlayable)
  BY DEF FreePlayable
<1>4. QED
  BY <1>1, <1>2, <1>3, InvariantKept, PTL DEF Spec

-----------------------------------------------------------------------------
(* Optimizations that put no conditional skip: those that are told not to, *)
(* and those of recordings without conditional expressions.                *)
Skipless == ~conditional_skip \/ \A i \in Op(play) : play.op_rec_[i].op # "CExp"

Plain(tp) == DOMAIN tp = Address(play) /\ \A a \in Address(play) : PlainEntry(tp[a])

Skiplessly ==
  Skipless =>
    /\ SkipFree
    /\ phase = "reverse" => Plain(tape)
    /\ phase # "reverse" => \A k \in DOMAIN cskip_info : NumSkipped(cskip_info[k]) = 0

LEMMA PlainExcept ==
  ASSUME NEW tp, Plain(tp), NEW a, NEW w, a \in Address(play) => PlainEntry(w)
  PROVE  Plain([tp EXCEPT ![a] = w])
  BY DEF Plain

LEMMA UsedPlain ==
  ASSUME NEW v, NEW w, NEW first, PlainEntry(v), PlainEntry(w), first # "cexp_connected"
  PROVE  PlainEntry(Used(v, w, first))
<1>1. CASE w.connect_type = "not_connected"
  BY <1>1 DEF Used
<1>2. CASE w.connect_type # "not_connected"
  <2>1. Used(v, w, first)
          = [v EXCEPT !.connect_type = IF @ = "not_connected" THEN first ELSE "yes_connected"]
    BY <1>2 DEF Used, PlainEntry
  <2>2. QED
    BY <2>1 DEF PlainEntry
<1>3. QED
  BY <1>1, <1>2

LEMMA UseOperandPlain ==
  ASSUME NEW tp, Plain(tp), NEW ins, ins.res \in Address(play), NEW j
  PROVE  Plain(UseOperand(tp, ins, j))
<1>1. CASE j \in DOMAIN ins.arg /\ ins.kind[j] = "v"
  <2> DEFINE first == IF ins.op \in Summation THEN "sum_connected" ELSE "yes_connected"
             w == Used(tp[ins.arg[j]], tp[ins.res], first)
  <2>1. first # "cexp_connected"
    OBVIOUS
  <2>2. PlainEntry(tp[ins.res]) /\ (ins.arg[j] \in Address(play) => PlainEntry(tp[ins.arg[j]]))
    BY <1>1 DEF Plain
  <2>3. UseOperand(tp, ins, j) = [tp EXCEPT ![ins.arg[j]] = w]
    BY <1>1 DEF UseOperand
  <2> HIDE DEF first
  <2>4. ins.arg[j] \in Address(play) => PlainEntry(w)
    BY <2>1, <2>2, UsedPlain
  <2>5. PICK a, e : a = ins.arg[j] /\ e = w
    OBVIOUS
  <2>6. (a \in Address(play) => PlainEntry(e)) /\ UseOperand(tp, ins, j) = [tp EXCEPT ![a] = e]
    BY <2>3, <2>4, <2>5
  <2>7. PICK tq : tq = [tp EXCEPT ![a] = e]
    OBVIOUS
  <2>8. Plain(tq)
    <3>1. Plain([tp EXCEPT ![a] = e])
      BY <2>6, PlainExcept, Zenon
    <3>2. QED
      BY <2>7, <3>1
  <2>9. QED
    BY <2>6, <2>7, <2>8
<1>2. CASE ~(j \in DOMAIN ins.arg /\ ins.kind[j] = "v")
  <2>1. UseOperand(tp, ins, j) = tp
    BY <1>2 DEF UseOperand
  <2>2. QED
    BY <2>1
<1>3. QED
  BY <1>1, <1>2

LEMMA NotedPlain ==
  ASSUME NEW tp, Plain(tp), NEW ins
  PROVE  Plain(Noted(tp, ins))
  BY DEF Plain, PlainEntry, Noted

LEMMA GatheredPlain ==
  ASSUME NEW tp, Plain(tp), NEW ins
  PROVE  Plain(Gathered(tp, ins))
  BY DEF Plain, PlainEntry, Gathered

LEMMA NeededPlain ==
  ASSUME NEW tp, Plain(tp), NEW ins, NEW j
  PROVE  Plain(Needed(tp, ins, j))
  BY DEF Plain, PlainEntry, Needed

LEMMA BranchPlain ==
  ASSUME NEW tp, Plain(tp), NEW ins, NEW j, NEW outcome, ~conditional_skip
  PROVE  Plain(Branch(tp, ins, j, outcome))
<1> DEFINE a == ins.arg[j]
<1>1. CASE ins.kind[j] = "p"
  BY <1>1 DEF Branch
<1>2. CASE ins.kind[j] # "p"
  <2>1. Branch(tp, ins, j, outcome)
          = [tp EXCEPT ![a].connect_type = "yes_connected", ![a].cexp_set = {}]
    BY <1>2 DEF Branch
  <2>2. QED
    BY <2>1 DEF Plain, PlainEntry
<1>3. QED
  BY <1>1, <1>2

LEMMA SkiplessInit ==
  ASSUME Init
  PROVE  Skiplessly
<1>1. phase = "reverse" /\ rec.op_rec_ = <<>>
  BY DEF Init, EmptyRecorder
<1>2. SkipFree
  BY <1>1 DEF SkipFree, SkipFreeIn
<1>3. Plain(tape)
  BY DEF Init, Plain, PlainEntry
<1>4. QED
  BY <1>1, <1>2, <1>3 DEF Skiplessly

(* The first pass. *)
LEMMA ReverseSkipless ==
  ASSUME IInv, Skiplessly,
         ReverseArithmetic \/ ReverseCondExp \/ ReverseCompare \/ ReverseInv \/ ReversePar
  PROVE  Skiplessly'
<1>1. PICK ops : /\ Back(ops)
                 /\ \/ ReverseArithmetic /\ ops = Unary \union Binary
                    \/ ReverseCondExp /\ ops = CondExp
                    \/ ReverseCompare /\ ops = Comparison
                    \/ ReverseInv /\ ops = {"Begin", "Inv"}
                    \/ ReversePar /\ ops = {"Par"}
  BY DEF ReverseArithmetic, ReverseCondExp, ReverseCompare, ReverseInv, ReversePar
<1>2. CursorInv /\ play \in Tapes
  BY DEF IInv, CursorInv
<1>3. PICK i \in Op(play) : ReverseTo(i) /\ InstrOf(play, i).op \in ops
  BY <1>1, <1>2, BackTo
<1>4. PICK ins : ins = InstrOf(play, i)
  OBVIOUS
<1>5. Instr(play, Behind) = ins /\ ins.res \in Address(play) /\ ins.op \in ops
      /\ (ins.op \in CondExp => play.op_rec_[i].op = "CExp")
  BY <1>2, <1>3, <1>4, Location DEF ReverseTo, Located
<1>6. phase = "reverse" /\ phase' = "reverse" /\ rec' = rec /\ play' = play
      /\ conditional_skip' = conditional_skip
  BY <1>1 DEF Back
<1>7. Skipless' = Skipless /\ SkipFree' = SkipFree
  BY <1>6 DEF Skipless, SkipFree, SkipFreeIn
<1>8. ASSUME Skipless, Plain(tape) PROVE Plain(tape')
  <2>1. CASE ReverseArithmetic
    <3>1. tape' = Gathered(UseOperand(UseOperand(Noted(tape, ins), ins, 1), ins, 2), ins)
      BY <1>5, <2>1 DEF ReverseArithmetic
    <3>2. PICK t1 : t1 = Noted(tape, ins)
      OBVIOUS
    <3>3. PICK t2 : t2 = UseOperand(t1, ins, 1)
      OBVIOUS
    <3>4. Plain(t1)
      BY <1>8, <3>2, NotedPlain
    <3>5. Plain(t2)
      BY <1>5, <3>3, <3>4, UseOperandPlain
    <3>6. Plain(UseOperand(t2, ins, 2))
      BY <1>5, <3>5, UseOperandPlain
    <3>7. QED
      BY <3>1, <3>2, <3>3, <3>6, GatheredPlain
  <2>2. CASE ReverseCondExp /\ ops = CondExp
    <3>1. ~conditional_skip
      BY <1>5, <1>8, <2>2 DEF Skipless
    <3>2. PICK t1 : t1 = Noted(tape, ins)
      OBVIOUS
    <3>3. PICK t2 : t2 = Needed(t1, ins, 1)
      OBVIOUS
    <3>4. PICK t3 : t3 = Needed(t2, ins, 2)
      OBVIOUS
    <3>5. PICK yes, no : yes = <<TRUE, Len(cskip_info) + 1>> /\ no = <<FALSE, Len(cskip_info) + 1>>
      OBVIOUS
    <3>6. PICK t4 : t4 = Branch(t3, ins, 3, yes)
      OBVIOUS
    <3>7. tape' = t1 \/ tape' = Branch(t4, ins, 4, no)
      BY <1>5, <2>2, <3>2, <3>3, <3>4, <3>5, <3>6 DEF ReverseCondExp
    <3>8. Plain(t1)
      BY <1>8, <3>2, NotedPlain
    <3>9. Plain(t2)
      BY <3>3, <3>8, NeededPlain
    <3>10. Plain(t3)
      BY <3>4, <3>9, NeededPlain
    <3>11. Plain(t4)
      BY <3>1, <3>6, <3>10, BranchPlain
    <3>12. Plain(Branch(t4, ins, 4, no))
      BY <3>1, <3>11, BranchPlain
    <3>13. QED
      BY <3>7, <3>8, <3>12
  <2>3. CASE ReverseCompare
    <3>1. tape' = Needed(Needed(tape, ins, 1), ins, 2)
      BY <1>5, <2>3 DEF ReverseCompare
    <3>2. QED
      BY <1>8, <3>1, NeededPlain
  <2>4. CASE ReverseInv
    <3>1. tape' = [Noted(tape, ins) EXCEPT ![ins.res].connect_type = "yes_connected"]
      BY <1>5, <2>4 DEF ReverseInv
    <3>2. PICK t1 : t1 = Noted(tape, ins)
      OBVIOUS
    <3>3. Plain(t1)
      BY <1>8, <3>2, NotedPlain
    <3>4. QED
      BY <3>1, <3>2, <3>3 DEF Plain, PlainEntry
  <2>5. CASE ReversePar
    <3>1. tape' = Noted(tape, ins)
      BY <1>5, <2>5 DEF ReversePar
    <3>2. QED
      BY <1>8, <3>1, NotedPlain
  <2>6. QED
    BY <1>1, <2>1, <2>2, <2>3, <2>4, <2>5
<1>9. Plain(tape') => Plain(tape)'
  BY <1>6 DEF Plain, Address
<1>10. QED
  BY <1>6, <1>7, <1>8, <1>9 DEF Skiplessly

(* Between the passes: there is nothing to skip. *)
LEMMA PrepareSkipless ==
  ASSUME IInv, Skiplessly, Prepare
  PROVE  Skiplessly'
<1>1. phase = "reverse" /\ phase' = "forward" /\ play' = play
      /\ conditional_skip' = conditional_skip
      /\ rec' = Put(rec, [op |-> "Begin", kind |-> <<>>], <<0>>)
      /\ cskip_info' = [i \in DOMAIN cskip_info |->
           [cskip_info[i] EXCEPT !.skip_var_true = Skipped(<<FALSE, i>>),
                                 !.skip_var_false = Skipped(<<TRUE, i>>)]]
  BY DEF Prepare
<1>2. rec = EmptyRecorder /\ CursorInv /\ InfoInv
  BY <1>1 DEF IInv, RecInv
<1>3. Skipless' = Skipless
  BY <1>1 DEF Skipless
<1>4. SkipFree'
  <2>1. PICK code : code = [op |-> "Begin", kind |-> <<>>]
    OBVIOUS
  <2>2. rec.op_rec_ = <<>> /\ "op_rec_" \in DOMAIN rec
    BY <1>2 DEF EmptyRecorder
  <2>3. rec'.op_rec_ = Append(<<>>, code)
    <3>1. rec' = Put(rec, code, <<0>>)
      BY <1>1, <2>1
    <3>2. Put(rec, code, <<0>>).op_rec_ = Append(rec.op_rec_, code)
      BY <1>2 DEF Put, EmptyRecorder
    <3>3. QED
      BY <2>2, <3>1, <3>2
  <2>4. \A k \in DOMAIN Append(<<>>, code) : Append(<<>>, code)[k] = code
    OBVIOUS
  <2>5. QED
    BY <2>1, <2>3, <2>4 DEF SkipFree, SkipFreeIn
<1>5. ASSUME Plain(tape), NEW outcome PROVE Len(Skipped(outcome)) = 0
  <2>1. PICK s : s = Skipped(outcome)
    OBVIOUS
  <2>2. s \in Seq(Address(play)) /\ \A k \in DOMAIN s : tape[s[k]].connect_type = "cexp_connected"
    BY <1>2, <2>1, SkippedSeq
  <2>3. \A k \in 1 .. Len(s) : k \in DOMAIN s /\ s[k] \in Address(play)
    BY <2>2
  <2>4. \A k \in 1 .. Len(s) : FALSE
    BY <1>5, <2>2, <2>3 DEF Plain, PlainEntry
  <2>5. Len(s) \in Nat
    BY <2>2
  <2>6. QED
    BY <2>1, <2>4, <2>5
<1>6. ASSUME Plain(tape), NEW k \in DOMAIN cskip_info' PROVE NumSkipped(cskip_info'[k]) = 0
  <2>1. k \in DOMAIN cskip_info /\ cskip_info[k] \in Info(play)
    BY <1>1, <1>2, <1>6, SeqAt DEF InfoInv
  <2>2. PICK info : info = cskip_info'[k]
    OBVIOUS
  <2>3. info.skip_var_true = Skipped(<<FALSE, k>>) /\ info.skip_var_false = Skipped(<<TRUE, k>>)
    BY <1>1, <2>1, <2>2 DEF Info
  <2>4. Len(info.skip_var_true) = 0 /\ Len(info.skip_var_false) = 0
    BY <1>5, <1>6, <2>3
  <2>5. QED
    BY <2>2, <2>4 DEF NumSkipped
<1>7. QED
  BY <1>1, <1>3, <1>4, <1>6 DEF Skiplessly, NumSkipped

(* A forward step puts no conditional skip, but perhaps something else. *)
LEMMA PutKeepsFree ==
  ASSUME NEW R \in Recorder, SkipFreeIn(R), NEW code, code.op # "CSkip", NEW words
  PROVE  SkipFreeIn(Put(R, code, words))
<1>1. R.op_rec_ \in Seq(OpCodeRec)
  BY DEF Recorder
<1>2. Put(R, code, words).op_rec_ = Append(R.op_rec_, code)
  BY DEF Put, Recorder
<1> DEFINE s == Append(R.op_rec_, code)
<1>3. \A k \in DOMAIN s : s[k] = code \/ (k \in DOMAIN R.op_rec_ /\ s[k] = R.op_rec_[k])
  BY <1>1
<1>4. \A k \in DOMAIN s : s[k].op # "CSkip"
  BY <1>3 DEF SkipFreeIn
<1> HIDE DEF s
<1>5. QED
  BY <1>2, <1>4 DEF SkipFreeIn, s

LEMMA NothingInserted ==
  ASSUME IInv, Skiplessly, Skipless, phase = "forward"
  PROVE  SkipFree /\ WithSkip = rec /\ Reserved = cskip_info /\ rec \in Recorder
         /\ \A k \in DOMAIN cskip_info : NumSkipped(cskip_info[k]) = 0
<1>1. InfoInv /\ rec \in Recorder
  BY DEF IInv, RecInv
<1>2. SkipFree /\ \A k \in DOMAIN cskip_info : NumSkipped(cskip_info[k]) = 0
  BY DEF Skiplessly
<1>3. ~Inserts
  <2>1. SUFFICES ASSUME Inserts PROVE FALSE
    OBVIOUS
  <2>2. Due /\ NumSkipped(NextSkip) > 0
    BY <2>1 DEF Inserts
  <2>3. cskip_info_order[cskip_order_next] \in DOMAIN cskip_info
    BY <1>1, <2>2, NextSkipFacts
  <2>4. NumSkipped(NextSkip) = 0
    BY <1>2, <2>3 DEF NextSkip
  <2>5. QED
    BY <2>2, <2>4
<1>4. QED
  BY <1>1, <1>2, <1>3 DEF WithSkip, Reserved

LEMMA RerecordedFree ==
  ASSUME IInv, Skiplessly, Skipless, phase = "forward", NEW i \in Op(play), ForwardTo(i)
  PROVE  SkipFreeIn(Rerecorded)
<1>1. WithSkip = rec /\ rec \in Recorder /\ SkipFree
  BY NothingInserted
<1>2. Current = InstrOf(play, i) /\ OpAt(play, Ahead) = play.op_rec_[i] /\ CursorInv /\ play \in Tapes
  BY DEF ForwardTo, IInv, CursorInv
<1>3. PICK R : R = PutOperands(rec, InstrOf(play, i))
  OBVIOUS
<1>4. Extends(rec, R)
  BY <1>1, <1>2, <1>3, PutOperandsFacts
<1>5. R \in Recorder /\ SkipFreeIn(R)
  BY <1>1, <1>4 DEF Extends, SkipFree, SkipFreeIn
<1>6. play.op_rec_[i].op # "CSkip"
  BY <1>2, CodeFacts DEF Optimized
<1>7. PICK words : Rerecorded = Put(R, play.op_rec_[i], words)
  BY <1>1, <1>2, <1>3 DEF Rerecorded
<1>8. QED
  BY <1>5, <1>6, <1>7, PutKeepsFree

LEMMA ForwardSkipless ==
  ASSUME IInv, Skiplessly,
         Drop \/ Merge \/ RecordArithmetic \/ RecordVariable \/ RecordCondExp \/ RecordCompare
           \/ StartSum \/ Finish
  PROVE  Skiplessly'
<1>1. PICK ops : Forward(ops)
  BY Zenon DEF Drop, Merge, RecordArithmetic, RecordVariable, RecordCondExp, RecordCompare,
               StartSum, Finish, Arithmetic
<1>2. Ready
  BY Resting
<1>3. PICK i \in Op(play) : Moves(i, ops)
  BY <1>1, <1>2, ForwardMoves
<1>4. ForwardTo(i) /\ play' = play /\ conditional_skip' = conditional_skip /\ phase = "forward"
      /\ play \in Tapes /\ OpAt(play, Ahead) = play.op_rec_[i]
  BY <1>2, <1>3 DEF Moves, ForwardTo, Ready, CursorInv
<1>5. Skipless' = Skipless
  BY <1>4 DEF Skipless
<1>6. phase' # "reverse"
  BY <1>4 DEF Drop, Merge, RecordArithmetic, RecordVariable, RecordCondExp, RecordCompare,
              StartSum, Finish
<1>7. SUFFICES ASSUME Skipless
      PROVE  SkipFree' /\ \A k \in DOMAIN cskip_info' : NumSkipped(cskip_info'[k]) = 0
  BY <1>5, <1>6 DEF Skiplessly, NumSkipped
<1>8. SkipFree /\ WithSkip = rec /\ Reserved = cskip_info /\ rec \in Recorder
      /\ \A k \in DOMAIN cskip_info : NumSkipped(cskip_info[k]) = 0
  BY <1>4, <1>7, NothingInserted
<1>9. SkipFreeIn(Rerecorded)
  BY <1>4, <1>7, RerecordedFree
<1>10. SkipFreeIn(rec')
  <2>1. CASE Drop \/ Merge \/ StartSum
    BY <1>8, <2>1 DEF Drop, Merge, StartSum, SkipFree
  <2>2. CASE RecordArithmetic \/ RecordVariable \/ RecordCondExp \/ RecordCompare
    BY <1>9, <2>2 DEF RecordArithmetic, RecordVariable, RecordCondExp, RecordCompare, RecordResult
  <2>3. CASE Finish
    <3>1. PICK R : R = Put(rec, play.op_rec_[i], <<>>)
      OBVIOUS
    <3>2. play.op_rec_[i].op # "CSkip" /\ play.op_rec_[i] \in OpCodeRec
      BY <1>4, CodeFacts DEF Optimized
    <3>3. SkipFreeIn(R)
      BY <1>8, <3>1, <3>2, PutKeepsFree DEF SkipFree
    <3>4. R \in Recorder
      <4>1. rec.num_var_rec_ > 0 /\ rec.num_var_rec_ \in Nat
        BY <1>2, <1>4 DEF Ready, RecInv
      <4>2. NumRes(play.op_rec_[i].op) \in Nat /\ <<>> \in Seq(Nat)
        BY ResultCounts
      <4>3. rec.num_var_rec_ + NumRes(play.op_rec_[i].op) > 0
        BY <4>1, <4>2
      <4>4. QED
        BY <1>8, <3>1, <3>2, <4>2, <4>3, PutFacts
    <3>5. PICK tp, infos : rec' = FilledIn(R, tp, infos)
      BY <1>4, <1>8, <2>3, <3>1 DEF Finish
    <3>6. rec'.op_rec_ = R.op_rec_
      BY <3>4, <3>5, FilledOps
    <3>7. QED
      BY <3>3, <3>6 DEF SkipFreeIn
  <2>4. QED
    BY <2>1, <2>2, <2>3
<1>11. \A k \in DOMAIN cskip_info' : NumSkipped(cskip_info'[k]) = 0
  <2>1. CASE RecordCondExp
    <3>1. PICK j, l, r : cskip_info' = [cskip_info EXCEPT ![j].left = l, ![j].right = r]
      BY <1>8, <2>1, Zenon DEF RecordCondExp
    <3>2. \A k \in DOMAIN cskip_info : cskip_info[k] \in Info(play)
      BY <1>2, SeqAt DEF Ready, InfoInv
    <3>3. ASSUME NEW k \in DOMAIN cskip_info'
          PROVE  /\ k \in DOMAIN cskip_info
                 /\ cskip_info'[k].skip_var_true = cskip_info[k].skip_var_true
                 /\ cskip_info'[k].skip_var_false = cskip_info[k].skip_var_false
      BY <3>1, <3>2 DEF Info
    <3>4. QED
      BY <1>8, <3>3 DEF NumSkipped
  <2>2. CASE ~RecordCondExp
    <3>1. cskip_info' = cskip_info
      BY <1>8, <2>2 DEF Drop, Merge, RecordArithmetic, RecordVariable, RecordCompare, StartSum, Finish
    <3>2. QED
      BY <1>8, <3>1
  <2>3. QED
    BY <2>1, <2>2
<1>12. SkipFree'
  BY <1>10 DEF SkipFree, SkipFreeIn
<1>13. QED
  BY <1>11, <1>12

LEMMA SumsSkipless ==
  ASSUME IInv, Skiplessly, SumNext \/ SumEnd
  PROVE  Skiplessly'
<1>1. play' = play /\ conditional_skip' = conditional_skip /\ cskip_info' = cskip_info
      /\ phase = "csum" /\ phase' # "reverse"
  BY DEF SumNext, SumEnd
<1>2. Skipless' = Skipless
  BY <1>1 DEF Skipless
<1>3. SUFFICES ASSUME Skipless, SkipFree PROVE SkipFree'
  BY <1>1, <1>2 DEF Skiplessly, NumSkipped
<1>4. CASE SumNext
  BY <1>3, <1>4 DEF SumNext, SkipFree, SkipFreeIn
<1>5. CASE SumEnd
  <2>1. rec \in Recorder /\ CsumInv
    BY <1>1 DEF IInv, RecInv
  <2>2. PICK R : R = PutPar(rec, csum_work.sum_par)
    OBVIOUS
  <2>3. Extends(rec, R)
    BY <1>1, <2>1, <2>2, PutParFacts DEF CsumInv, Works
  <2>4. PICK code : code = [op |-> "CSum", kind |-> <<>>]
    OBVIOUS
  <2>5. \E words : rec' = Put(PutPar(rec, csum_work.sum_par), [op |-> "CSum", kind |-> <<>>], words)
    BY <1>5, Zenon DEF SumEnd
  <2>6. PICK words : rec' = Put(R, code, words)
    BY <2>2, <2>4, <2>5
  <2>7. R \in Recorder /\ SkipFreeIn(R)
    BY <1>3, <2>3 DEF Extends, SkipFree, SkipFreeIn
  <2>8. SkipFreeIn(rec')
    BY <2>4, <2>6, <2>7, PutKeepsFree
  <2>9. QED
    BY <2>8 DEF SkipFree, SkipFreeIn
<1>6. QED
  BY <1>4, <1>5

(***************************************************************************)
(* optimize puts no conditional skip if it is told not to, by the option   *)
(* no_conditional_skip, and none if the recording has no conditional       *)
(* expression: then what is true as long as there is none is true of the   *)
(* whole optimization.                                                     *)
(***************************************************************************)
THEOREM NoSkipsPut == Spec => [](Skipless => SkipFree)
<1>1. Init => Skiplessly
  BY SkiplessInit
<1>2. IInv /\ Skiplessly /\ [Next]_vars => Skiplessly'
  <2>1. ASSUME IInv, Skiplessly, UNCHANGED vars PROVE Skiplessly'
    <3>1. UNCHANGED <<play, conditional_skip, phase, tape, cskip_info, rec>>
      BY <2>1 DEF vars
    <3>2. Skipless' = Skipless /\ SkipFree' = SkipFree /\ Plain(tape)' = Plain(tape)
      BY <3>1 DEF Skipless, SkipFree, SkipFreeIn, Plain, Address
    <3>3. QED
      BY <2>1, <3>1, <3>2 DEF Skiplessly, NumSkipped
  <2>2. QED
    BY <2>1, ReverseSkipless, PrepareSkipless, ForwardSkipless, SumsSkipless DEF Next
<1>3. Skiplessly => (Skipless => SkipFree)
  BY DEF Skiplessly
<1>4. QED
  BY <1>1, <1>2, <1>3, InvariantKept, PTL DEF Spec

-----------------------------------------------------------------------------
LEMMA ComputeDoes ==
  ASSUME NEW t, WellFormed(t), ~Skipping(t), NEW i \in Op(t), NEW ins, ins = InstrOf(t, i),
         ins.op \in Computing, NEW y \in Plays(t)
  PROVE  Compute(t, y, ins) \in Plays(t) /\ Does(t, y, Compute(t, y, ins), i)
<1> DEFINE s == Operands(ins, y.order0, t.par_rec_)
           zeros == [j \in DOMAIN t.par_rec_ |-> Zero]
           d == Operands(ins, y.order1, zeros)
           z == Order0(ins, s)
           aux == Aux(ins.op, s)
           two == ins.op \in TwoResults
           a0 == IF two THEN aux ELSE y.order0[ins.res - 1]
           one == Order1(ins, s, d, z, a0)
           below == Aux1(ins, d, z)
           A == [a \in DOMAIN y.order0 |->
                   IF a = ins.res THEN z ELSE IF two /\ a = ins.res - 1 THEN aux ELSE y.order0[a]]
           B == [a \in DOMAIN y.order1 |->
                   IF a = ins.res THEN one
                   ELSE IF two /\ a = ins.res - 1 THEN below ELSE y.order1[a]]
           w == [y EXCEPT !.order0 = A, !.order1 = B]
<1>1. Shaped(t, ins) /\ Computes(t, ins) /\ ins.op \notin Comparison
  BY PlayedLine, OpCodes
<1>2. y.order0 \in [Address(t) -> Num] /\ y.order1 \in [Address(t) -> Num]
  BY DEF Plays
<1>3. t.par_rec_ \in Seq(Num) /\ DOMAIN t.par_rec_ = 1 .. Len(t.par_rec_)
  <2>1. t.par_rec_ \in Seq(Num)
    BY DEF WellFormed, Vectors
  <2>2. QED
    BY <2>1
<1>4. \A n \in 1 .. Len(t.par_rec_) : t.par_rec_[n] \in Num /\ zeros[n] \in Num /\ zeros[n] = Zero
  BY <1>3, NumAssumption
<1> HIDE DEF zeros
<1>5. s \in [DOMAIN ins.arg -> Num] /\ d \in [DOMAIN ins.arg -> Num]
  BY <1>1, <1>2, <1>4, OperandsTyped
<1>6. d = Slopes(ins, y.order1)
  <2>1. \A j \in DOMAIN ins.arg : ins.kind[j] # "v" => zeros[ins.arg[j] + 1] = Zero
    BY <1>1, <1>4 DEF Shaped
  <2>2. QED
    BY <2>1 DEF Operands, Slopes
<1> HIDE DEF s, d
<1>7. z \in Num /\ (two => aux \in Num)
  BY <1>1, <1>5, Order0Typed
<1> HIDE DEF z, aux
<1>8. two => a0 \in Num
  BY <1>7
<1>9. one \in Num /\ (two => below \in Num)
  BY <1>1, <1>5, <1>7, <1>8, Order1Typed
<1>10. one = Order1(ins, s, d, z, aux)
  BY <1>1, AuxUnread
<1> HIDE DEF a0, one, below
<1>11. A \in [Address(t) -> Num] /\ B \in [Address(t) -> Num]
  BY <1>2, <1>7, <1>9
<1>12. Compute(t, y, ins) = w
  BY DEF Compute, s, d, z, aux, a0, one, below, zeros
<1>13. w.order0 = A /\ w.order1 = B /\ w.compared = y.compared /\ w \in Plays(t)
  <2> HIDE DEF A, B
  <2>1. QED
    BY <1>11 DEF Plays
<1>14. A[ins.res] = z /\ B[ins.res] = one
  BY <1>1, <1>2 DEF Computes
<1>15. ASSUME NEW a \in Address(t), a <= ins.res - NumRes(ins.op)
       PROVE  A[a] = y.order0[a] /\ B[a] = y.order1[a]
  <2>1. /\ a \in Nat /\ ins.res \in Nat /\ NumRes(ins.op) \in {1, 2}
        /\ two <=> NumRes(ins.op) = 2
    BY <1>1 DEF Computes, Address
  <2>2. a # ins.res /\ (two => a # ins.res - 1)
    BY <1>15, <2>1
  <2>3. QED
    BY <1>2, <2>2
<1> HIDE DEF A, B, w
<1>16. Does(t, y, w, i)
  BY <1>1, <1>6, <1>10, <1>13, <1>14, <1>15 DEF Does, s, z, aux
<1>17. QED
  BY <1>12, <1>13, <1>16

LEMMA OperatorDoes ==
  ASSUME NEW t, WellFormed(t), ~Skipping(t), NEW i \in Op(t), NEW y \in Plays(t)
  PROVE  PlayOperator(t, y, i) \in Plays(t) /\ Does(t, y, PlayOperator(t, y, i), i)
<1> DEFINE ins == InstrOf(t, i)
           s == Operands(ins, y.order0, t.par_rec_)
           e == Holds(ins.op, s[1], s[2])
<1>1. y.skipped = {} /\ y.order0 \in [Address(t) -> Num] /\ y.compared \in Seq(Outcomes(t))
  BY DEF Plays
<1>2. ins.op \in Computing \union Comparison \union {"Begin", "Inv", "End"}
  BY PlayedLine
<1>3. CASE ins.op \in Computing
  <2>1. PlayOperator(t, y, i) = Compute(t, y, ins)
    BY <1>1, <1>3, OpCodes DEF PlayOperator, InstrOf
  <2>2. QED
    BY <1>3, <2>1, ComputeDoes
<1>4. CASE ins.op \in Comparison
  <2> DEFINE w == [y EXCEPT !.compared = Append(@, e)]
  <2>1. ins.op \notin {"Begin", "Inv", "End"} /\ ins.op \notin Computing
    BY <1>4, OpCodes DEF Comparison
  <2>2. PlayOperator(t, y, i) = w
    BY <1>1, <1>4, <2>1 DEF PlayOperator, InstrOf
  <2>3. e \in Outcomes(t)
    <3>1. OutcomeOf(t, i, y.order0) \in Outcomes(t)
      BY <1>1 DEF Outcomes
    <3>2. QED
      BY <3>1 DEF OutcomeOf
  <2> HIDE DEF e
  <2>4. Append(y.compared, e) \in Seq(Outcomes(t))
    BY <1>1, <2>3
  <2>5. w \in Plays(t) /\ w.order0 = y.order0 /\ w.order1 = y.order1
        /\ w.compared = Append(y.compared, e)
    BY <2>4 DEF Plays
  <2> HIDE DEF w
  <2>6. Does(t, y, w, i)
    BY <1>4, <2>1, <2>5 DEF Does, e
  <2>7. QED
    BY <2>2, <2>5, <2>6
<1>5. CASE ins.op \in {"Begin", "Inv", "End"}
  <2>1. ins.op \notin Comparison /\ ins.op \notin Computing
    BY <1>5, OpCodes DEF Comparison
  <2>2. PlayOperator(t, y, i) = y
    BY <1>5 DEF PlayOperator, InstrOf
  <2>3. QED
    BY <2>1, <2>2 DEF Does
<1>6. QED
  BY <1>2, <1>3, <1>4, <1>5

(* The states a play goes through. *)
PlayedBy(t, u, d, g, f) ==
  /\ f \in [0 .. t.num_op_rec -> Plays(t)]
  /\ f[0] = Started(t, u, d, g)
  /\ \A k \in 1 .. t.num_op_rec : f[k] = PlayOperator(t, f[k - 1], k - 1)

LEMMA PlayedFold ==
  ASSUME NEW t, WellFormed(t), ~Skipping(t), NEW u \in [1 .. t.n -> Num],
         NEW d \in [1 .. t.n -> Num], NEW g \in Num
  PROVE  \E f : PlayedBy(t, u, d, g, f) /\ Played(t, u, d, g) = f[t.num_op_rec]
<1> DEFINE n == t.num_op_rec
           b == Started(t, u, d, g)
           s == [i \in 1 .. n |-> i - 1]
           F == [p \in Plays(t) \X (1 .. n) |-> PlayOperator(t, p[1], p[2] - 1)]
           P(it) == it = [r \in SUBSET DOMAIN s |->
                            IF r = {} THEN b
                            ELSE LET x == Max(r) IN PlayOperator(t, it[r \ {x}], s[x])]
<1>1. n \in Nat /\ \A k \in 1 .. n : k - 1 \in Op(t)
  <2>1. n \in Nat
    BY DEF WellFormed, Vectors
  <2>2. QED
    BY <2>1 DEF Op
<1>2. b \in Plays(t)
  <2>1. b.order0 \in [Address(t) -> Num] /\ b.order1 \in [Address(t) -> Num]
    BY DEF Started
  <2>2. QED
    BY <2>1 DEF Started, Plays
<1>3. \A y \in Plays(t), k \in 1 .. n : PlayOperator(t, y, k - 1) \in Plays(t)
  BY <1>1, OperatorDoes
<1> HIDE DEF b
<1>4. F \in [Plays(t) \X (1 .. n) -> Plays(t)]
  BY <1>3
<1>5. \A y \in Plays(t), k \in 1 .. n : F[<<y, k>>] = PlayOperator(t, y, k - 1)
  OBVIOUS
<1> HIDE DEF F
<1>6. PICK at \in [SUBSET (1 .. n) -> Plays(t)] : Iterates(at, n, b, F)
  BY <1>1, <1>2, <1>4, Iterated
<1>7. DOMAIN s = 1 .. n /\ \A k \in 1 .. n : s[k] = k - 1
  OBVIOUS
<1> HIDE DEF s
<1>8. P(at)
  <2>1. ASSUME NEW r \in SUBSET (1 .. n), r # {}
        PROVE  at[r] = PlayOperator(t, at[r \ {Max(r)}], s[Max(r)])
    <3>1. Max(r) \in 1 .. n /\ r \ {Max(r)} \in SUBSET (1 .. n)
      BY <1>1, <2>1, Largest
    <3>2. at[r \ {Max(r)}] \in Plays(t)
      BY <3>1
    <3>3. at[r] = F[<<at[r \ {Max(r)}], Max(r)>>]
      BY <1>6, <2>1 DEF Iterates
    <3>4. QED
      BY <1>5, <1>7, <3>1, <3>2, <3>3
  <2>2. at[{}] = b
    BY <1>6 DEF Iterates
  <2>3. QED
    BY <1>7, <2>1, <2>2
<1>9. Played(t, u, d, g) = (CHOOSE it : P(it))[DOMAIN s]
  BY DEF Played, FoldLeft, MapThenFoldSet, s, b, Started
<1>10. PICK it : P(it) /\ Played(t, u, d, g) = it[1 .. n]
  <2> HIDE DEF P
  <2>1. QED
    BY <1>7, <1>8, <1>9
<1> DEFINE f == [k \in 0 .. n |-> it[1 .. k]]
<1>11. f[0] = b
  <2>1. 1 .. 0 = {} /\ {} \in SUBSET DOMAIN s /\ 0 \in 0 .. n
    BY <1>1
  <2>2. it[{}] = b
    BY <1>10, <2>1
  <2>3. QED
    BY <2>1, <2>2
<1>12. ASSUME NEW k \in 1 .. n PROVE f[k] = PlayOperator(t, f[k - 1], k - 1)
  <2>1. /\ Max(1 .. k) = k /\ (1 .. k) \ {k} = 1 .. k - 1 /\ 1 .. k \in SUBSET DOMAIN s
        /\ 1 .. k # {}
    <3>1. Max(1 .. k) = k /\ (1 .. k) \ {k} = 1 .. k - 1 /\ 1 .. k \in SUBSET (1 .. n)
      BY <1>1, LargestOfInterval
    <3>2. 1 .. k # {}
      OBVIOUS
    <3>3. QED
      BY <1>7, <3>1, <3>2
  <2>2. it[1 .. k] = PlayOperator(t, it[1 .. k - 1], s[k])
    BY <1>10, <2>1
  <2>3. QED
    BY <1>1, <1>7, <2>2
<1>13. f[n] = it[1 .. n]
  BY <1>1
<1> DEFINE T == {k \in 0 .. n : f[k] \in Plays(t)}
<1>14. 0 \in T
  BY <1>1, <1>2, <1>11
<1>15. ASSUME NEW k \in 1 .. n, k - 1 \in T PROVE k \in T
  <2>1. f[k - 1] \in Plays(t) /\ f[k] = PlayOperator(t, f[k - 1], k - 1)
    BY <1>12, <1>15
  <2> HIDE DEF f
  <2>2. f[k] \in Plays(t)
    BY <1>3, <2>1
  <2>3. QED
    BY <2>2
<1>16. f = [k \in 0 .. n |-> f[k]]
  OBVIOUS
<1> HIDE DEF T, f
<1>17. \A k \in 0 .. n : k \in T
  BY <1>1, <1>14, <1>15, UpTo, Zenon
<1>18. f \in [0 .. n -> Plays(t)]
  BY <1>16, <1>17 DEF T
<1>19. PlayedBy(t, u, d, g, f)
  BY <1>11, <1>12, <1>18 DEF PlayedBy, b
<1>20. QED
  BY <1>10, <1>13, <1>19

(* Once a result is computed, it stays. *)
LEMMA PlayedStays ==
  ASSUME NEW t, WellFormed(t), ~Skipping(t), NEW u, NEW d, NEW g, NEW f,
         PlayedBy(t, u, d, g, f), NEW i \in Op(t), NEW a \in Address(t), a <= t.last[i]
  PROVE  /\ f[i + 1].order0[a] = f[t.num_op_rec].order0[a]
         /\ f[i + 1].order1[a] = f[t.num_op_rec].order1[a]
<1> DEFINE n == t.num_op_rec - 1
           T == {k \in 0 .. n : \A c \in Address(t) : c <= t.last[k] =>
                   /\ f[k + 1].order0[c] = f[t.num_op_rec].order0[c]
                   /\ f[k + 1].order1[c] = f[t.num_op_rec].order1[c]}
<1>1. t.num_op_rec \in Nat /\ n \in Nat /\ Op(t) = 0 .. n
  BY Placed DEF Op
<1>2. n \in T
  BY <1>1
<1>3. ASSUME NEW k \in 1 .. n, k \in T PROVE k - 1 \in T
  <2>1. k \in Op(t) /\ k - 1 \in Op(t) /\ k - 1 < k /\ f[k] \in Plays(t)
        /\ f[k + 1] = PlayOperator(t, f[k], k)
    <3>1. /\ k \in 0 .. t.num_op_rec /\ k + 1 \in 1 .. t.num_op_rec /\ (k + 1) - 1 = k
          /\ k \in Op(t) /\ k - 1 \in Op(t) /\ k - 1 < k
      BY <1>1
    <3>2. f[k] \in Plays(t) /\ f[k + 1] = PlayOperator(t, f[(k + 1) - 1], (k + 1) - 1)
      BY <3>1 DEF PlayedBy
    <3>3. QED
      BY <3>1, <3>2
  <2>2. Does(t, f[k], f[k + 1], k)
    BY <2>1, OperatorDoes
  <2>3. /\ t.last[k - 1] \in Nat /\ t.last[k] \in Nat
        /\ t.last[k - 1] + NumRes(t.op_rec_[k].op) <= t.last[k]
        /\ NumRes(t.op_rec_[k].op) \in Nat
    BY <2>1, Placed, ResultsOrdered
  <2>4. /\ InstrOf(t, k).res = t.last[k]
        /\ InstrOf(t, k).op \in Computing =>
             NumRes(InstrOf(t, k).op) = NumRes(t.op_rec_[k].op)
    <3>1. InstrOf(t, k).op \in Computing => t.op_rec_[k].op \in Computing
      BY <2>1, PlayedLine
    <3>2. InstrOf(t, k) = Instr(t, At(t, k))
      BY DEF InstrOf
    <3>3. InstrOf(t, k).op \in Computing =>
             NumRes(InstrOf(t, k).op) = NumRes(t.op_rec_[k].op)
      BY <2>1, <3>1, <3>2, Computed
    <3>4. InstrOf(t, k).res = t.last[k]
      BY <2>1, PlayedLine
    <3>5. QED
      BY <3>3, <3>4
  <2>5. ASSUME NEW c \in Address(t), c <= t.last[k - 1]
        PROVE  /\ f[k].order0[c] = f[t.num_op_rec].order0[c]
               /\ f[k].order1[c] = f[t.num_op_rec].order1[c]
    <3>1. c \in Int
      BY DEF Address
    <3>2. /\ c <= t.last[k]
          /\ InstrOf(t, k).op \in Computing =>
               c <= InstrOf(t, k).res - NumRes(InstrOf(t, k).op)
      BY <2>3, <2>4, <2>5, <3>1
    <3>3. f[k + 1].order0[c] = f[k].order0[c] /\ f[k + 1].order1[c] = f[k].order1[c]
      BY <2>2, <3>2 DEF Does
    <3>4. QED
      BY <1>3, <3>2, <3>3
  <2>6. k - 1 \in 0 .. n /\ (k - 1) + 1 = k
    BY <1>1
  <2>7. QED
    BY <2>5, <2>6
<1> HIDE DEF T
<1>4. \A k \in 0 .. n : k \in T
  BY <1>1, <1>2, <1>3, DownFrom, Zenon
<1>5. i \in T
  BY <1>1, <1>4
<1>6. QED
  BY <1>5 DEF T

LEMMA PlayedRuns ==
  ASSUME NEW t, WellFormed(t), ~Skipping(t), NEW u, NEW d, NEW g, NEW f,
         PlayedBy(t, u, d, g, f)
  PROVE  Run(t, RunOf(t, f))
<1> DEFINE n == t.num_op_rec
           v == RunOf(t, f)
<1>1. n \in Nat /\ n \in 0 .. n /\ 0 \in 0 .. n /\ Op(t) = 0 .. n - 1
  BY DEF WellFormed, Vectors, Op
<1>2. /\ v.zero = f[n].order0 /\ v.one = f[n].order1
      /\ \A k \in 0 .. n : v.said[k] = f[k].compared
  BY DEF RunOf
<1>3. \A k \in 0 .. n : f[k] \in Plays(t)
  BY DEF PlayedBy
<1>4. \A a \in Address(t) : v.zero[a] \in Num /\ v.one[a] \in Num
  BY <1>1, <1>2, <1>3 DEF Plays
<1>5. v.said[0] = <<>>
  BY <1>1, <1>2 DEF PlayedBy, Started
<1> HIDE DEF v
<1>6. ASSUME NEW i \in Op(t) PROVE Ran(t, v, i)
  <2> DEFINE ins == InstrOf(t, i)
             s == Operands(ins, f[i].order0, t.par_rec_)
             z == Order0(ins, s)
             x == Operands(ins, v.zero, t.par_rec_)
  <2>1. i \in 0 .. n /\ i + 1 \in 0 .. n /\ i + 1 \in 1 .. n /\ (i + 1) - 1 = i /\ i \in Nat
    BY <1>1
  <2>2. f[i + 1] = PlayOperator(t, f[i], i)
    <3>1. f[i + 1] = PlayOperator(t, f[(i + 1) - 1], (i + 1) - 1)
      BY <2>1 DEF PlayedBy
    <3>2. QED
      BY <2>1, <3>1
  <2>3. Does(t, f[i], f[i + 1], i)
    BY <1>3, <2>1, <2>2, OperatorDoes
  <2>4. ASSUME NEW j \in DOMAIN ins.arg, ins.kind[j] = "v"
        PROVE  /\ v.zero[ins.arg[j]] = f[i].order0[ins.arg[j]]
               /\ v.one[ins.arg[j]] = f[i].order1[ins.arg[j]]
    <3>1. PICK k \in 0 .. i - 1 : k \in Op(t) /\ ins.arg[j] = t.last[k]
      BY <2>4, PlayedLine
    <3>2. i - 1 \in Op(t) /\ k <= i - 1 /\ k \in Nat /\ i - 1 + 1 = i
      BY <1>1, <2>1
    <3>3. /\ t.last[k] \in Address(t)
          /\ k < i - 1 => t.last[k] + NumRes(t.op_rec_[i - 1].op) <= t.last[i - 1]
      BY <3>1, <3>2, ResultsOrdered
    <3>4. t.last[k] \in Nat /\ t.last[i - 1] \in Nat
      <4>1. \A m \in Op(t) : t.last[m] \in Nat
        BY Placed
      <4>2. QED
        BY <3>1, <3>2, <4>1
    <3>5. t.last[k] <= t.last[i - 1]
      <4>1. NumRes(t.op_rec_[i - 1].op) \in Nat
        BY DEF NumRes
      <4>2. CASE k = i - 1
        BY <3>4, <4>2
      <4>3. CASE k < i - 1
        BY <3>3, <3>4, <4>1, <4>3
      <4>4. QED
        BY <2>1, <3>2, <4>2, <4>3
    <3>6. /\ f[i - 1 + 1].order0[t.last[k]] = f[n].order0[t.last[k]]
          /\ f[i - 1 + 1].order1[t.last[k]] = f[n].order1[t.last[k]]
      BY <3>2, <3>3, <3>5, PlayedStays
    <3>7. QED
      BY <1>2, <3>1, <3>2, <3>6
  <2>5. x = s /\ Slopes(ins, v.one) = Slopes(ins, f[i].order1)
    BY <2>4 DEF Operands, Slopes
  <2>6. ASSUME ins.op \in Computing
        PROVE  v.zero[ins.res] = z
               /\ v.one[ins.res] = Order1(ins, s, Slopes(ins, f[i].order1), z, Aux(ins.op, s))
    <3>1. /\ f[i + 1].order0[ins.res] = z
          /\ f[i + 1].order1[ins.res]
               = Order1(ins, s, Slopes(ins, f[i].order1), z, Aux(ins.op, s))
      BY <2>3, <2>6 DEF Does
    <3>2. ins.res = t.last[i] /\ t.last[i] \in Address(t) /\ t.last[i] \in Nat
      BY PlayedLine, ResultsOrdered, Placed
    <3>3. f[i + 1].order0[ins.res] = f[n].order0[ins.res]
          /\ f[i + 1].order1[ins.res] = f[n].order1[ins.res]
      BY <3>2, PlayedStays
    <3>4. QED
      BY <1>2, <3>1, <3>3
  <2>7. v.said[i] = f[i].compared /\ v.said[i + 1] = f[i + 1].compared
    BY <1>2, <2>1
  <2>8. f[i + 1].compared = IF ins.op \in Comparison
                               THEN Append(f[i].compared, Holds(ins.op, s[1], s[2]))
                               ELSE f[i].compared
    BY <2>3 DEF Does
  <2> HIDE DEF ins, s, x, z
  <2>9. Order0(ins, x) = z
    BY <2>5 DEF z
  <2>10. QED
    BY <2>5, <2>6, <2>7, <2>8, <2>9 DEF Ran, ins, x
<1>7. QED
  BY <1>4, <1>5, <1>6 DEF Run, v

LEMMA PlayedStarts ==
  ASSUME NEW t, WellFormed(t), ~Skipping(t), NEW u, NEW d, NEW g, NEW f,
         PlayedBy(t, u, d, g, f), NEW a \in 1 .. t.n
  PROVE  RunOf(t, f).zero[a] = u[a] /\ RunOf(t, f).one[a] = d[a]
<1> DEFINE T == {k \in 0 .. a + 1 : \A c \in Address(t) :
                   /\ f[k].order0[c] = f[0].order0[c]
                   /\ f[k].order1[c] = f[0].order1[c]}
<1>1. /\ t.n \in Nat /\ t.num_op_rec \in Nat /\ t.num_op_rec > t.n + 1
      /\ DOMAIN t.op_rec_ = Op(t) /\ a \in Nat
  BY DEF WellFormed, Vectors, Op
<1>2. a \in Op(t) /\ a + 1 \in 0 .. t.num_op_rec /\ a + 1 \in Nat
  BY <1>1 DEF Op
<1>3. 0 \in T
  BY <1>1
<1>4. ASSUME NEW k \in 1 .. a + 1, k - 1 \in T PROVE k \in T
  <2>1. k - 1 \in Op(t) /\ k - 1 \in 0 .. t.n /\ k \in 1 .. t.num_op_rec
        /\ k - 1 \in 0 .. t.num_op_rec
    BY <1>1 DEF Op
  <2>2. f[k] = PlayOperator(t, f[k - 1], k - 1) /\ f[k - 1] \in Plays(t)
    BY <2>1 DEF PlayedBy
  <2>3. Does(t, f[k - 1], f[k], k - 1)
    BY <2>1, <2>2, OperatorDoes
  <2>4. InstrOf(t, k - 1).op \in {"Begin", "Inv"}
    BY <2>1, PlayedLine
  <2>5. InstrOf(t, k - 1).op \notin Computing
    BY <2>4, OpCodes
  <2>6. \A c \in Address(t) : f[k].order0[c] = f[k - 1].order0[c]
                              /\ f[k].order1[c] = f[k - 1].order1[c]
    BY <2>3, <2>5 DEF Does
  <2>7. QED
    BY <1>4, <2>6
<1> HIDE DEF T
<1>5. \A k \in 0 .. a + 1 : k \in T
  BY <1>2, <1>3, <1>4, UpTo, Zenon
<1>6. \A c \in Address(t) : f[a + 1].order0[c] = f[0].order0[c]
                            /\ f[a + 1].order1[c] = f[0].order1[c]
  BY <1>2, <1>5 DEF T
<1>7. t.last[a] = a
  <2>1. /\ t.last[0] = 0
        /\ \A i \in 1 .. t.num_op_rec - 1 : t.last[i] = t.last[i - 1] + NumRes(t.op_rec_[i].op)
    BY DEF WellFormed, Adjacent
  <2>2. \A i \in Op(t) : i \in 1 .. t.n => t.op_rec_[i].op = "Inv"
    BY <1>1 DEF WellFormed
  <2>3. QED
    BY <1>1, <1>2, <2>1, <2>2, InvAddress
<1>8. a \in Address(t)
  BY <1>2, <1>7, ResultsOrdered
<1>9. f[a + 1].order0[a] = f[t.num_op_rec].order0[a]
      /\ f[a + 1].order1[a] = f[t.num_op_rec].order1[a]
  <2>1. a <= t.last[a]
    BY <1>1, <1>7
  <2>2. QED
    BY <1>2, <1>8, <2>1, PlayedStays
<1>10. f[0].order0[a] = u[a] /\ f[0].order1[a] = d[a]
  BY <1>8 DEF PlayedBy, Started
<1>11. QED
  BY <1>6, <1>8, <1>9, <1>10 DEF RunOf

-----------------------------------------------------------------------------
Follows(x, y) ==
  Run(play, y) /\ Run(NewRecording, x) /\ \A a \in 1 .. play.n : Equals(x, a, y, a)

(* Variables have their values where they are computed now, and the        *)
(* comparisons said the same so far.                                       *)
Agree(x, y) ==
  /\ \A a \in Address(play) :
       a # 0 /\ tape[a].new_var # Invalid => Equals(x, tape[a].new_var, y, a)
  /\ x.said[Len(rec.op_rec_)] = y.said[Here + 1]

Agrees == \A x, y : Follows(x, y) => Agree(x, y)

(* An operator that is recorded again computes what it computed. *)
LEMMA CopySame ==
  ASSUME Ready, NewInv, NEW i \in Op(play), ForwardTo(i), play' = play, CopyOf(i),
         OperandsNew(i), Agrees, NEW x, NEW y, Follows(x, y)'
  PROVE  /\ Agree(x, y)
         /\ InstrOf(play, i).op \in Computing \union {"Inv"} =>
              Equals(x, rec'.num_var_rec_ - 1, y, InstrOf(play, i).res)
         /\ x.said[Len(rec'.op_rec_)] = y.said[i + 1]
<1> DEFINE t == NewRecording
           u == NewRecording'
           n == t.num_op_rec
           e == InstrOf(play, i)
           f == InstrOf(u, n)
<1>1. /\ play \in Tapes /\ Begun(t) /\ phase = "forward" /\ i \in Nat /\ i > 0 /\ Here + 1 = i
      /\ Len(rec.op_rec_) = n /\ Len(rec'.op_rec_) = u.num_op_rec
      /\ rec'.num_var_rec_ = u.num_var_rec
      /\ i <= play.n => n = i
  <2>1. Len(rec.op_rec_) = n /\ Len(rec'.op_rec_) = u.num_op_rec
        /\ rec'.num_var_rec_ = u.num_var_rec
    BY DEF NewRecording
  <2>2. play \in Tapes /\ Begun(t) /\ phase = "forward"
    BY DEF Ready, CursorInv, NewInv, ForwardTo
  <2> HIDE DEF t, u, n
  <2>3. QED
    BY <2>1, <2>2, CountsMove DEF NewInv
<1>2. PICK args :
        /\ Copies(play, i, t, u, args)
        /\ \A j \in DOMAIN args :
             IF e.kind[j] = "v" THEN args[j] = tape[e.arg[j]].new_var
                                ELSE u.par_rec_[args[j] + 1] = play.par_rec_[e.arg[j] + 1]
  BY DEF CopyOf
<1>3. f.op = e.op /\ f.kind = e.kind /\ f.arg = args /\ f.res = u.num_var_rec - 1
  BY <1>1, <1>2, CopiesInstr
<1>4. /\ CopiedWords(play, i, args) \in Seq(Nat) /\ DOMAIN args = DOMAIN e.arg
      /\ Extended(t, u, play.op_rec_[i], CopiedWords(play, i, args))
  BY <1>2 DEF Copies
<1>5. n \in Nat /\ n \in Op(u) /\ u.num_op_rec = n + 1 /\ u.n = play.n /\ t.n = play.n
      /\ u.last[n] = u.num_var_rec - 1
  <2>1. n \in Nat /\ u.num_op_rec = n + 1 /\ t.n = play.n /\ u.n = t.n
        /\ u.last[n] = u.num_var_rec - 1
    BY <1>1, <1>2, <1>4 DEF Extended, Begun, Listed, Copies
  <2>2. QED
    BY <2>1 DEF Op
<1>6. Run(play, y) /\ Run(u, x) /\ \A a \in 1 .. play.n : Equals(x, a, y, a)
  BY DEF Follows
<1>7. Run(t, x)
  BY <1>1, <1>4, <1>6, RunBegun
<1>8. Agree(x, y)
  BY <1>6, <1>7 DEF Agrees, Follows
<1>9. ASSUME NEW j \in DOMAIN f.arg
      PROVE  IF f.kind[j] = "v" THEN Equals(x, f.arg[j], y, e.arg[j])
             ELSE u.par_rec_[f.arg[j] + 1] = play.par_rec_[e.arg[j] + 1]
  <2>1. CASE f.kind[j] = "v"
    <3>1. HasNewVar(e.arg[j]) /\ f.arg[j] = tape[e.arg[j]].new_var
      BY <1>2, <1>3, <1>4, <2>1 DEF OperandsNew
    <3>2. e.arg[j] \in Address(play) /\ e.arg[j] > 0
      BY <1>1, <1>3, <1>4, <2>1, OperandPlace
    <3>3. tape[e.arg[j]].new_var # Invalid
      BY <1>1, <3>1, <3>2, HasNumber
    <3> HIDE DEF t, u, n, f, e
    <3>4. QED
      BY <1>8, <2>1, <3>1, <3>2, <3>3 DEF Agree
  <2>2. CASE f.kind[j] # "v"
    BY <1>2, <1>3, <2>2
  <2>3. QED
    BY <2>1, <2>2
<1>10. f.op # "CSum"
  <2>1. Located(play, i) /\ play.op_rec_[i].op \notin Optimized
    BY <1>1, Location, CodeFacts
  <2>2. QED
    BY <1>3, <2>1, OpNames DEF Located, CondExp, Optimized
<1>11. Alike(u, x, n, play, y, i)
  <2> HIDE DEF t, u, n
  <2>1. QED
    BY <1>3, <1>4, <1>9, <1>10, AlikeOperands DEF Equals
<1>12. Ran(u, x, n) /\ Ran(play, y, i)
  BY <1>5, <1>6 DEF Run
<1>13. x.said[n] = y.said[i]
  BY <1>1, <1>8 DEF Agree
<1>14. /\ e.op \in Computing => Equals(x, u.num_var_rec - 1, y, e.res)
       /\ x.said[n + 1] = y.said[i + 1]
  <2> HIDE DEF t, u, n
  <2>1. QED
    BY <1>3, <1>11, <1>12, <1>13, AlikeResults DEF Equals
<1>15. ASSUME e.op = "Inv" PROVE Equals(x, u.num_var_rec - 1, y, e.res)
  <2>1. i \in 1 .. play.n /\ e.res = play.last[i]
    <3>1. Located(play, i)
      BY <1>1, Location
    <3>2. play.op_rec_[i].op = "Inv"
      BY <1>15, <3>1, OpNames DEF Located, CondExp
    <3>3. QED
      BY <1>1, <3>1, <3>2, InvPlaces DEF Located
  <2>2. play.last[i] = i
    <3>1. WellFormed(play) /\ play.n \in Nat /\ play.num_op_rec \in Nat
          /\ \A k \in Op(play) : k \in 1 .. play.n => play.op_rec_[k].op = "Inv"
      BY <1>1, InvPlaces, CodeFacts, TapesAssumption
    <3>2. /\ play.last[0] = 0
          /\ \A k \in 1 .. play.num_op_rec - 1 :
               play.last[k] = play.last[k - 1] + NumRes(play.op_rec_[k].op)
      BY <3>1 DEF WellFormed, Adjacent
    <3>3. QED
      BY <2>1, <3>1, <3>2, InvAddress
  <2>3. u.last[n] = n /\ n = i
    <3>1. Begun(u)
      BY <1>1, <1>2, CopiesBegun
    <3>2. /\ u.n \in Nat /\ u.num_op_rec \in Nat /\ u.last[0] = 0
          /\ \A k \in 1 .. u.num_op_rec - 1 : u.last[k] = u.last[k - 1] + NumRes(u.op_rec_[k].op)
          /\ \A k \in Op(u) : k \in 1 .. u.n => u.op_rec_[k].op = "Inv"
      BY <3>1 DEF Begun, Listed, Line
    <3>3. n = i /\ n <= u.n
      BY <1>1, <1>5, <2>1
    <3> HIDE DEF u, n
    <3>4. QED
      BY <1>5, <3>2, <3>3, InvAddress
  <2>4. QED
    BY <1>5, <1>6, <2>1, <2>2, <2>3
<1>16. QED
  BY <1>1, <1>5, <1>8, <1>14, <1>15

AgreeInv == SkipFree /\ phase # "reverse" => Agrees

LEMMA AgreeAfter ==
  ASSUME NEW x, NEW y, play' = play, Agree(x, y),
         \A a \in Address(play) : \/ tape'[a].new_var = tape[a].new_var
                                  \/ Equals(x, tape'[a].new_var, y, a),
         x.said[Len(rec'.op_rec_)] = y.said[Here' + 1]
  PROVE  Agree(x, y)'
<1>1. Invalid' = Invalid
  BY DEF Invalid
<1>2. QED
  BY <1>1 DEF Agree, Equals

LEMMA CopyAgrees ==
  ASSUME Ready, NewInv, NEW i \in Op(play), ForwardTo(i), play' = play, cursor' = At(play, i),
         CopyOf(i), OperandsNew(i), RenumbersTo(i), Agrees
  PROVE  Agrees'
<1>1. Here' = i
  BY DEF Here, At
<1>2. SUFFICES ASSUME NEW x, NEW y, Follows(x, y)' PROVE Agree(x, y)'
  BY DEF Agrees
<1>3. /\ Agree(x, y)
      /\ InstrOf(play, i).op \in Computing \union {"Inv"} =>
           Equals(x, rec'.num_var_rec_ - 1, y, InstrOf(play, i).res)
      /\ x.said[Len(rec'.op_rec_)] = y.said[i + 1]
  BY <1>2, CopySame
<1>4. \A a \in Address(play) : \/ tape'[a].new_var = tape[a].new_var
                               \/ Equals(x, tape'[a].new_var, y, a)
  BY <1>3 DEF RenumbersTo
<1>5. QED
  BY <1>1, <1>3, <1>4, AgreeAfter

LEMMA RecordAgrees ==
  ASSUME IInv, PlayInv, AgreeInv, Rerecording
  PROVE  AgreeInv'
<1>1. PICK i \in Op(play) : Rerecords(i)
  BY RerecordingOne
<1>2. SUFFICES ASSUME SkipFree' PROVE Agrees'
  BY DEF AgreeInv
<1>3. SkipFree /\ NewInv /\ CopyOf(i)
  BY <1>1, <1>2, RerecordsCopy
<1>4. Agrees
  BY <1>1, <1>3 DEF AgreeInv, Rerecords, ForwardTo
<1>5. QED
  BY <1>1, <1>3, <1>4, Resting, CopyAgrees DEF Rerecords

(* A step that records nothing. *)
LEMMA StepAgrees ==
  ASSUME IInv, PlayInv, AgreeInv, NEW i \in Op(play), NEW ops, Moves(i, ops), SkipFree',
         InstrOf(play, i).op \notin Comparison, rec' = WithSkip, dep_taddr' = dep_taddr,
         \A x, y : Run(play, y) /\ Agree(x, y) =>
           \A a \in Address(play) : \/ tape'[a].new_var = tape[a].new_var
                                    \/ Equals(x, tape'[a].new_var, y, a)
  PROVE  Agrees'
<1>1. Ready /\ ForwardTo(i) /\ play' = play /\ cursor' = At(play, i) /\ phase = "forward"
      /\ Here + 1 = i
  BY Resting DEF Moves, ForwardTo
<1>2. SkipFreeIn(WithSkip)
  BY DEF SkipFree, SkipFreeIn
<1>3. SkipFree /\ rec' = rec
  BY <1>1, <1>2, Unskipped
<1>4. Agrees /\ NewRecording' = NewRecording /\ Here' = i
  BY <1>1, <1>3 DEF AgreeInv, NewRecording, Here, At
<1>5. SUFFICES ASSUME NEW x, NEW y, Follows(x, y)' PROVE Agree(x, y)'
  BY DEF Agrees
<1>6. Follows(x, y)
  BY <1>1, <1>4, <1>5 DEF Follows
<1>7. Run(play, y) /\ Agree(x, y)
  BY <1>4, <1>6 DEF Agrees, Follows
<1>8. y.said[i + 1] = y.said[i]
  BY <1>7 DEF Run, Ran
<1>9. x.said[Len(rec'.op_rec_)] = y.said[Here' + 1]
  BY <1>1, <1>3, <1>4, <1>7, <1>8 DEF Agree
<1>10. QED
  BY <1>1, <1>7, <1>9, AgreeAfter

LEMMA DropAgrees ==
  ASSUME IInv, PlayInv, AgreeInv, Drop \/ StartSum
  PROVE  AgreeInv'
<1> DEFINE ops == Unary \union Binary \union CondExp \union {"Par"}
<1>1. Ready
  BY Resting
<1>2. \E i \in Op(play) : Moves(i, ops)
  <2>1. CASE Drop
    BY <1>1, <2>1, ForwardMoves DEF Drop
  <2>2. CASE StartSum
    <3>1. \E i \in Op(play) : Moves(i, Summation)
      BY <1>1, <2>2, ForwardMoves DEF StartSum
    <3>2. Summation \subseteq ops
      BY OpNames
    <3> HIDE DEF ops
    <3>3. QED
      BY <3>1, <3>2 DEF Moves
  <2>3. QED
    BY <2>1, <2>2
<1>3. PICK i \in Op(play) : Moves(i, ops)
  BY <1>2
<1>4. ForwardTo(i) /\ rec' = WithSkip /\ tape' = Unmatched /\ dep_taddr' = dep_taddr
  BY <1>3 DEF Moves, Drop, StartSum
<1>5. InstrOf(play, i).op \notin Comparison
  BY <1>3, OpNames DEF Moves, Comparison
<1>6. \A a \in Address(play) : tape'[a].new_var = tape[a].new_var
  BY <1>1, <1>4, UnmatchedNumbers
<1>7. QED
  BY <1>3, <1>4, <1>5, <1>6, StepAgrees DEF AgreeInv

(* What a twin has computed. *)
LEMMA TwinSame ==
  ASSUME Ready, phase = "forward", NEW x, NEW y, Run(play, y), Agree(x, y),
         NEW i \in Op(play), NEW k \in Op(play), NEW s, Twin(k, i, s),
         SameOrder(i, s) \/ OtherOrder(i, s), Ring,
         \A l \in DOMAIN InstrOf(play, i).arg :
           InstrOf(play, i).kind[l] = "v" => HasNewVar(InstrOf(play, i).arg[l])
  PROVE  Equals(y, InstrOf(play, i).res, y, InstrOf(play, k).res)
<1> DEFINE f == InstrOf(play, i)
           e == InstrOf(play, k)
<1>1. play \in Tapes /\ Ran(play, y, i) /\ Ran(play, y, k)
  BY DEF Ready, CursorInv, Run
<1>2. f.op = e.op /\ f.kind = e.kind /\ f.op \in Unary \union Binary /\ f.op \in Computing
      /\ f.op # "CSum" /\ NewOperands(e) = s
  BY OpNames DEF Twin, Computing, Binary
<1>3. DOMAIN f.arg = DOMAIN f.kind /\ DOMAIN e.arg = DOMAIN e.kind
  BY <1>1, Operation DEF Operated
<1>4. ASSUME NEW l \in DOMAIN f.arg, NEW j \in DOMAIN e.arg, e.kind[j] = f.kind[l],
             NewOperands(e)[j] = NewOperands(f)[l]
      PROVE  IF f.kind[l] = "v" THEN Equals(y, f.arg[l], y, e.arg[j])
             ELSE play.par_rec_[f.arg[l] + 1] = play.par_rec_[e.arg[j] + 1]
  <2>1. CASE f.kind[l] = "v"
    <3>1. /\ f.arg[l] \in Address(play) /\ f.arg[l] > 0
          /\ e.arg[j] \in Address(play) /\ e.arg[j] > 0
      BY <1>1, <1>4, <2>1, OperandPlace
    <3>2. tape[e.arg[j]].new_var = tape[f.arg[l]].new_var
      BY <1>4, <2>1 DEF NewOperands
    <3>3. tape[f.arg[l]].new_var # Invalid
      BY <2>1, <3>1, HasNumber
    <3> HIDE DEF f, e
    <3>4. QED
      BY <2>1, <3>1, <3>2, <3>3 DEF Agree, Equals
  <2>2. CASE f.kind[l] # "v"
    BY <1>4, <2>2 DEF NewOperands
  <2>3. QED
    BY <2>1, <2>2
<1>5. CASE SameOrder(i, s)
  <2>1. NewOperands(e) = NewOperands(f) /\ DOMAIN f.arg = DOMAIN e.arg
    BY <1>2, <1>3, <1>5 DEF SameOrder
  <2> HIDE DEF f, e
  <2>2. Alike(play, y, i, play, y, k)
    BY <1>2, <1>4, <2>1, AlikeOperands DEF f, e, Equals
  <2>3. QED
    BY <1>1, <1>2, <2>2, AlikeResults DEF f, e, Equals
<1>6. CASE OtherOrder(i, s)
  <2>1. PICK t : t = NewOperands(f)
    OBVIOUS
  <2>2. f.op \in {"Add", "Mul"} /\ f.kind = <<"v", "v">> /\ s = <<t[2], t[1]>>
    BY <1>6, <2>1 DEF OtherOrder, Commutes
  <2>3. DOMAIN f.arg = 1 .. 2 /\ DOMAIN e.arg = 1 .. 2
    <3>1. f.op \in Binary
      BY <2>2 DEF Binary
    <3>2. QED
      BY <1>1, <1>2, <3>1, Operation DEF Operated
  <2>4. /\ 1 \in DOMAIN f.arg /\ 2 \in DOMAIN f.arg /\ 1 \in DOMAIN e.arg /\ 2 \in DOMAIN e.arg
        /\ f.kind[1] = "v" /\ f.kind[2] = "v" /\ e.kind[1] = "v" /\ e.kind[2] = "v"
        /\ NewOperands(e)[1] = t[2] /\ NewOperands(e)[2] = t[1]
    BY <1>2, <2>2, <2>3
  <2>5. Equals(y, f.arg[2], y, e.arg[1]) /\ Equals(y, f.arg[1], y, e.arg[2])
    BY <1>4, <2>1, <2>4
  <2>6. PICK m, n, p, q : /\ m = y.zero[f.arg[1]] /\ n = y.zero[f.arg[2]]
                          /\ p = y.one[f.arg[1]] /\ q = y.one[f.arg[2]]
    OBVIOUS
  <2>7. m \in Num /\ n \in Num /\ p \in Num /\ q \in Num
    <3>1. f.arg[1] \in Address(play) /\ f.arg[2] \in Address(play)
      BY <1>1, <2>4, OperandPlace
    <3>2. QED
      BY <2>6, <3>1 DEF Run
  <2>8. /\ Operands(f, y.zero, play.par_rec_) = <<m, n>>
        /\ Operands(e, y.zero, play.par_rec_) = <<n, m>>
        /\ Slopes(f, y.one) = <<p, q>> /\ Slopes(e, y.one) = <<q, p>>
    <3> HIDE DEF f, e
    <3>1. \A g : DOMAIN g = 1 .. 2 /\ g = [j \in 1 .. 2 |-> g[j]] => g = <<g[1], g[2]>>
      OBVIOUS
    <3>2. QED
      BY <2>3, <2>4, <2>5, <2>6, <3>1 DEF Operands, Slopes, Equals
  <2>9. Order0(f, <<m, n>>) = Order0(e, <<n, m>>)
    <3>1. f.op \in Binary /\ f.op # "CSum"
      BY <2>2 DEF Binary
    <3>2. Calc(f.op, <<m, n>>) = Calc(f.op, <<n, m>>)
      BY <2>2, <2>7, CommutesAssumption
    <3> HIDE DEF f, e
    <3>3. QED
      BY <1>2, <2>2, <3>1, <3>2, OpNames DEF Order0, Value
  <2>10. \A z, a, b : Order1(f, <<m, n>>, <<p, q>>, z, a) = Order1(e, <<n, m>>, <<q, p>>, z, b)
    <3>1. p ++ q = q ++ p
      BY <2>7, RingMonoids
    <3>2. (p ** n) ++ (m ** q) = (q ** m) ++ (n ** p)
      <4>1. p ** n = n ** p /\ m ** q = q ** m /\ n ** p \in Num /\ q ** m \in Num
        BY <2>7, RingMonoids, Closed
      <4>2. QED
        BY <4>1, RingMonoids
    <3> HIDE DEF f, e
    <3>3. CASE f.op = "Add"
      <4>1. \A z, a, b : Order1(f, <<m, n>>, <<p, q>>, z, a) = p ++ q
                         /\ Order1(e, <<n, m>>, <<q, p>>, z, b) = q ++ p
        BY <1>2, <3>3 DEF Order1, forward_add_op, CondExp
      <4>2. QED
        BY <3>1, <4>1
    <3>4. CASE f.op = "Mul"
      <4>1. \A z, a, b : Order1(f, <<m, n>>, <<p, q>>, z, a) = (p ** n) ++ (m ** q)
                         /\ Order1(e, <<n, m>>, <<q, p>>, z, b) = (q ** m) ++ (n ** p)
        BY <1>2, <3>4 DEF Order1, forward_mul_op, CondExp
      <4>2. QED
        BY <3>2, <4>1
    <3>5. QED
      BY <2>2, <3>3, <3>4
  <2> HIDE DEF f, e
  <2>11. QED
    BY <1>1, <1>2, <2>8, <2>9, <2>10 DEF Ran, Equals, f, e
<1>7. QED
  BY <1>5, <1>6

LEMMA MergeAgrees ==
  ASSUME IInv, PlayInv, AgreeInv, Merge, Ring
  PROVE  AgreeInv'
<1>1. Ready /\ HashInv
  BY Resting
<1>2. PICK i \in Op(play) : Moves(i, Unary \union Binary)
  BY <1>1, ForwardMoves DEF Merge, Arithmetic
<1>3. PICK m, r : m = Matching(InstrOf(play, i)) /\ r = InstrOf(play, i).res
  OBVIOUS
<1>4. /\ ForwardTo(i) /\ phase = "forward" /\ InstrOf(play, i).op \in Unary \union Binary
      /\ rec' = WithSkip /\ dep_taddr' = dep_taddr /\ m > 0
      /\ Kept(InstrOf(play, i)) /\ ~GathersSum(InstrOf(play, i))
      /\ tape' = [tape EXCEPT ![r].match = TRUE, ![r].new_var = tape[m].new_var,
                              ![m].match = TRUE]
  BY <1>2, <1>3 DEF Moves, ForwardTo, Merge, Arithmetic
<1>5. m # 0
  BY <1>4
<1>6. m \in Address(play) /\ m # r /\ HasNewVar(m)
  BY <1>1, <1>3, <1>4, <1>5, Resting, MatchingFacts
<1>7. tape[m].new_var # Invalid
  BY <1>1, <1>4, <1>6, HasNumber
<1>8. PICK s : \E k \in Op(play) : /\ Twin(k, i, s) /\ m = InstrOf(play, k).res
                                   /\ (SameOrder(i, s) \/ OtherOrder(i, s))
  BY <1>1, <1>3, <1>4, <1>5, MatchingTwin
<1>9. PICK k \in Op(play) : /\ Twin(k, i, s) /\ m = InstrOf(play, k).res
                            /\ (SameOrder(i, s) \/ OtherOrder(i, s))
  BY <1>8
<1>10. ASSUME NEW x, NEW y, Run(play, y), Agree(x, y), NEW a \in Address(play)
       PROVE  tape'[a].new_var = tape[a].new_var \/ Equals(x, tape'[a].new_var, y, a)
  <2>1. tape \in Entries(play, Len(cskip_info)) /\ r \in Address(play)
    BY <1>1, <1>3, <1>4, NumberBound DEF Ready, ConnInv
  <2>2. tape[a] \in Entry(play, Len(cskip_info)) /\ DOMAIN tape = Address(play)
    BY <2>1 DEF Entries
  <2>3. CASE a # r
    BY <1>4, <1>6, <2>2, <2>3
  <2>4. CASE a = r
    <3>1. tape'[a] = [tape[a] EXCEPT !.match = TRUE, !.new_var = tape[m].new_var]
      BY <1>4, <1>6, <2>2, <2>4
    <3>2. tape'[a].new_var = tape[m].new_var
      BY <2>2, <3>1 DEF Entry
    <3>3. Equals(y, r, y, m)
      <4>1. \A l \in DOMAIN InstrOf(play, i).arg :
              InstrOf(play, i).kind[l] = "v" => HasNewVar(InstrOf(play, i).arg[l])
        BY <1>1, <1>3, <1>4, <1>5, MatchingTwin
      <4>2. Equals(y, InstrOf(play, i).res, y, InstrOf(play, k).res)
        BY <1>1, <1>4, <1>9, <1>10, <4>1, TwinSame
      <4>3. QED
        BY <1>3, <1>9, <4>2
    <3>4. Equals(x, tape[m].new_var, y, m)
      BY <1>5, <1>6, <1>7, <1>10 DEF Agree
    <3>5. QED
      BY <2>4, <3>2, <3>3, <3>4 DEF Equals
  <2>5. QED
    BY <2>3, <2>4
<1>11. InstrOf(play, i).op \notin Comparison
  BY <1>4, OpNames
<1>12. QED
  BY <1>2, <1>4, <1>10, <1>11, StepAgrees DEF AgreeInv

LEMMA ValuesPushed ==
  ASSUME NEW f, \A a \in Address(play) : f[a] \in Num,
         NEW s \in Seq(Address(play)), NEW e \in Address(play), NEW r, r = Append(s, e)
  PROVE  Total(Values(r, f)) = Total(Values(s, f)) ++ f[e]
<1>1. PICK n \in Nat : /\ n = Len(s) /\ DOMAIN s = 1 .. n /\ DOMAIN r = 1 .. n + 1
                       /\ r[n + 1] = e /\ (\A k \in 1 .. n : r[k] = s[k] /\ k \in 1 .. n + 1)
                       /\ r \in Seq(Address(play))
  BY Pushed
<1>2. \A k \in 1 .. n : s[k] \in Address(play)
  BY <1>1
<1>3. \A k \in 1 .. n + 1 : r[k] \in Address(play)
  BY <1>1
<1>4. Values(s, f) \in [1 .. n -> Num] /\ Values(r, f) \in [1 .. n + 1 -> Num]
  BY <1>1, <1>2, <1>3 DEF Values
<1>5. Values(r, f)[n + 1] = f[e] /\ \A k \in 1 .. n : Values(r, f)[k] = Values(s, f)[k]
  BY <1>1 DEF Values
<1>6. QED
  BY <1>1, <1>4, <1>5, TotalAppend

LEMMA LoadsNumbers ==
  ASSUME Ring, play \in Tapes, NEW f, \A a \in Address(play) : f[a] \in Num,
         NEW s \in Seq(SumEntries)
  PROVE  Loads(s, f) \in [DOMAIN s -> Num]
<1>1. ASSUME NEW e \in SumEntries PROVE Signed(e.add, f[e.ins.res]) \in Num
  <2>1. PICK i \in Op(play) : e.ins = InstrOf(play, i)
    BY DEF SumEntries
  <2>2. e.ins.res \in Address(play)
    BY <2>1, Location DEF Located
  <2>3. e.add \in BOOLEAN
    BY DEF SumEntries
  <2>4. QED
    BY <2>2, <2>3, SignedSums
<1>2. QED
  BY <1>1 DEF Loads

LEMMA LoadsPushed ==
  ASSUME Ring, play \in Tapes, NEW f, \A a \in Address(play) : f[a] \in Num,
         NEW s \in Seq(SumEntries), NEW e \in SumEntries, NEW r, r = Append(s, e)
  PROVE  Total(Loads(r, f)) = Total(Loads(s, f)) ++ Signed(e.add, f[e.ins.res])
<1>1. PICK n \in Nat : /\ n = Len(s) /\ DOMAIN s = 1 .. n /\ DOMAIN r = 1 .. n + 1
                       /\ r[n + 1] = e /\ (\A k \in 1 .. n : r[k] = s[k] /\ k \in 1 .. n + 1)
                       /\ r \in Seq(SumEntries)
  BY Pushed
<1>2. Loads(s, f) \in [1 .. n -> Num] /\ Loads(r, f) \in [1 .. n + 1 -> Num]
  BY <1>1, LoadsNumbers
<1>3. Loads(r, f)[n + 1] = Signed(e.add, f[e.ins.res])
      /\ \A k \in 1 .. n : Loads(r, f)[k] = Loads(s, f)[k]
  BY <1>1 DEF Loads
<1>4. QED
  BY <1>1, <1>2, <1>3, TotalAppend

LEMMA AmountTyped ==
  ASSUME Ring, play \in Tapes, NEW f, \A a \in Address(play) : f[a] \in Num, NEW work \in Works
  PROVE  /\ Total(Loads(work.op_stack, f)) \in Num
         /\ Total(Values(work.add_stack, f)) \in Num
         /\ Total(Values(work.sub_stack, f)) \in Num
<1>1. /\ work.op_stack \in Seq(SumEntries) /\ work.add_stack \in Seq(Address(play))
      /\ work.sub_stack \in Seq(Address(play))
  BY DEF Works
<1>2. ASSUME NEW s \in Seq(Address(play)) PROVE Total(Values(s, f)) \in Num
  <2>1. PICK n \in Nat : DOMAIN s = 1 .. n /\ \A k \in 1 .. n : s[k] \in Address(play)
    OBVIOUS
  <2>2. Values(s, f) \in [1 .. n -> Num]
    BY <2>1 DEF Values
  <2>3. QED
    BY <2>2, TotalTyped
<1>3. PICK n \in Nat : DOMAIN work.op_stack = 1 .. n
  BY <1>1
<1>4. Loads(work.op_stack, f) \in [1 .. n -> Num]
  BY <1>1, <1>3, LoadsNumbers
<1>5. QED
  BY <1>1, <1>2, <1>4, TotalTyped

(* What an operand adds to the amount: f of it, or c if it is a parameter. *)
LEMMA OperandAmount ==
  ASSUME Ring, Ready, phase = "csum", NEW work, Worked(work), NEW i \in Op(play), i <= Here,
         NEW ins, ins = InstrOf(play, i),
         ins.op \in Summation, Result(i).connect_type # "not_connected",
         NEW j \in 1 .. 2, NEW add \in BOOLEAN,
         NEW f, \A a \in Address(play) : f[a] \in Num, NEW b \in Num, NEW c \in Num,
         NEW v, v = IF ins.kind[j] = "v" THEN f[ins.arg[j]] ELSE c,
         NEW n, n = IF ins.kind[j] = "v" THEN b ELSE IF add THEN b ++ c ELSE b -- c
  PROVE  /\ v \in Num /\ n \in Num
         /\ Amount(SumOperand(work, ins, j, add), n, f) = Amount(work, b, f) ++ Signed(add, v)
<1>1. play \in Tapes /\ work \in Works
  BY DEF Ready, CursorInv, Worked
<1>2. PICK a : a = ins.arg[j]
  OBVIOUS
<1>3. j \in DOMAIN ins.arg /\ ins.kind[j] \in {"v", "p"} /\ NumRes(ins.op) > 0
  <2>1. ins.op \in Binary /\ NumRes(ins.op) > 0
    BY ResultCounts DEF Summation, Binary
  <2>2. QED
    BY <1>1, <2>1, Operation DEF Operated
<1>4. PICK p, s, d : /\ p = Total(Loads(work.op_stack, f))
                     /\ s = Total(Values(work.add_stack, f))
                     /\ d = Total(Values(work.sub_stack, f))
  OBVIOUS
<1>5. p \in Num /\ s \in Num /\ d \in Num /\ Amount(work, b, f) = Balance(b, p, s, d)
  BY <1>1, <1>4, AmountTyped DEF Amount
<1>6. PICK next : next = SumOperand(work, ins, j, add)
  OBVIOUS
<1>7. CASE ins.kind[j] # "v"
  <2>1. \E m : next = [work EXCEPT !.sum_par = m]
    BY <1>3, <1>6, <1>7 DEF SumOperand
  <2>2. /\ next.op_stack = work.op_stack /\ next.add_stack = work.add_stack
        /\ next.sub_stack = work.sub_stack
    BY <1>1, <2>1 DEF Works
  <2>3. v = c /\ v \in Num /\ n = IF add THEN b ++ v ELSE b -- v
    BY <1>7
  <2>4. n \in Num
    BY <2>3, Closed
  <2>5. Amount(next, n, f) = Balance(n, p, s, d)
    BY <1>4, <2>2 DEF Amount
  <2>6. Balance(n, p, s, d) = Balance(b, p, s, d) ++ Signed(add, v)
    BY <1>5, <2>3, BalanceMoves DEF Signed
  <2>7. QED
    BY <1>5, <1>6, <2>3, <2>4, <2>5, <2>6
<1>8. CASE ins.kind[j] = "v"
  <2>1. /\ a \in Address(play)
        /\ tape[a].connect_type = "csum_connected" =>
             \E k \in Op(play) : InstrOf(play, k).res = a /\ tape[a].ins = InstrOf(play, k)
    BY <1>2, <1>3, <1>8, OperandReady DEF Reached
  <2>2. v = f[a] /\ v \in Num /\ n = b
    BY <1>2, <1>8, <2>1
  <2>3. /\ work.op_stack \in Seq(SumEntries) /\ work.add_stack \in Seq(Address(play))
        /\ work.sub_stack \in Seq(Address(play))
    BY <1>1 DEF Works
  <2>4. CASE tape[a].connect_type = "csum_connected"
    <3>1. PICK e : e = [ins |-> tape[a].ins, add |-> add]
      OBVIOUS
    <3>2. e \in SumEntries /\ e.add = add /\ f[e.ins.res] = v
      BY <2>1, <2>2, <2>4, <3>1 DEF SumEntries
    <3>3. PICK stack : stack = Append(work.op_stack, e)
      OBVIOUS
    <3>4. next = [work EXCEPT !.op_stack = stack]
      BY <1>2, <1>6, <1>8, <2>4, <3>1, <3>3 DEF SumOperand
    <3>5. /\ next.op_stack = stack /\ next.add_stack = work.add_stack
          /\ next.sub_stack = work.sub_stack
      BY <1>1, <3>4 DEF Works
    <3>6. Total(Loads(stack, f)) = p ++ Signed(add, v)
      BY <1>1, <1>4, <2>3, <3>2, <3>3, LoadsPushed
    <3>7. Amount(next, n, f) = Balance(b, p ++ Signed(add, v), s, d)
      BY <1>4, <2>2, <3>5, <3>6 DEF Amount
    <3>8. Signed(add, v) \in Num
      BY <2>2, SignedSums
    <3>9. QED
      BY <1>5, <1>6, <2>2, <3>7, <3>8, BalanceMoves
  <2>5. CASE tape[a].connect_type # "csum_connected" /\ add
    <3>1. PICK stack : stack = Append(work.add_stack, a)
      OBVIOUS
    <3>2. next = [work EXCEPT !.add_stack = stack]
      BY <1>2, <1>6, <1>8, <2>5, <3>1 DEF SumOperand
    <3>3. /\ next.op_stack = work.op_stack /\ next.add_stack = stack
          /\ next.sub_stack = work.sub_stack
      BY <1>1, <3>2 DEF Works
    <3>7. Total(Values(stack, f)) = Total(Values(work.add_stack, f)) ++ f[a]
      BY ONLY <2>1, <2>3, <3>1, ValuesPushed, \A l \in Address(play) : f[l] \in Num
    <3>4. Total(Values(stack, f)) = s ++ v
      BY <1>4, <2>2, <3>7
    <3>5. Amount(next, n, f) = Balance(b, p, s ++ v, d)
      BY <1>4, <2>2, <3>3, <3>4 DEF Amount
    <3>8. Balance(b, p, s ++ v, d) = Balance(b, p, s, d) ++ v
      BY <1>5, <2>2, BalanceMoves
    <3>6. QED
      BY <1>5, <1>6, <2>2, <2>5, <3>5, <3>8 DEF Signed
  <2>6. CASE tape[a].connect_type # "csum_connected" /\ ~add
    <3>1. PICK stack : stack = Append(work.sub_stack, a)
      OBVIOUS
    <3>2. next = [work EXCEPT !.sub_stack = stack]
      BY <1>2, <1>6, <1>8, <2>6, <3>1 DEF SumOperand
    <3>3. /\ next.op_stack = work.op_stack /\ next.add_stack = work.add_stack
          /\ next.sub_stack = stack
      BY <1>1, <3>2 DEF Works
    <3>7. Total(Values(stack, f)) = Total(Values(work.sub_stack, f)) ++ f[a]
      BY ONLY <2>1, <2>3, <3>1, ValuesPushed, \A l \in Address(play) : f[l] \in Num
    <3>4. Total(Values(stack, f)) = d ++ v
      BY <1>4, <2>2, <3>7
    <3>5. Amount(next, n, f) = Balance(b, p, s, d ++ v)
      BY <1>4, <2>2, <3>3, <3>4 DEF Amount
    <3>6. QED
      BY <1>5, <1>6, <2>2, <2>6, <3>5, BalanceMoves DEF Signed
  <2>7. QED
    BY <2>4, <2>5, <2>6
<1>9. QED
  BY <1>7, <1>8

(* An operator of the sum: f of its result is m, the sum or difference of  *)
(* its operands, of which parameters count as c.                           *)
LEMMA OperatorAmount ==
  ASSUME Ring, Ready, phase = "csum", NEW i, NEW add, NEW sub, NEW work, NEW one, NEW two,
         Gathers(i, add, sub, work, one, two), NEW ins, ins = InstrOf(play, i),
         NEW f, \A a \in Address(play) : f[a] \in Num, NEW b \in Num,
         NEW v \in [1 .. 2 -> Num], NEW c \in [1 .. 2 -> Num],
         \A j \in 1 .. 2 : v[j] = IF ins.kind[j] = "v" THEN f[ins.arg[j]] ELSE c[j],
         f[ins.res] = IF ins.op = "Add" THEN v[1] ++ v[2] ELSE v[1] -- v[2],
         NEW m, m = IF ins.kind[1] = "v" THEN b ELSE IF add THEN b ++ c[1] ELSE b -- c[1],
         NEW n, n = IF ins.kind[2] = "v" THEN m ELSE IF sub THEN m ++ c[2] ELSE m -- c[2]
  PROVE  Amount(csum_work', n, f) = Amount(csum_work, b, f)
<1>1. /\ i \in Op(play) /\ i <= Here /\ ins.op \in Summation
      /\ Result(i).connect_type # "not_connected" /\ add \in BOOLEAN /\ sub \in BOOLEAN
      /\ Worked(work) /\ Worked(one)
      /\ one = SumOperand(work, ins, 1, add) /\ two = SumOperand(one, ins, 2, sub)
      /\ csum_work' = two /\ play \in Tapes /\ work \in Works
      /\ 1 \in 1 .. 2 /\ 2 \in 1 .. 2
  BY DEF Gathers, Worked, Ready, CursorInv
<1>2. m \in Num /\ Amount(one, m, f) = Amount(work, b, f) ++ Signed(add, v[1])
  <2>1. v[1] = IF ins.kind[1] = "v" THEN f[ins.arg[1]] ELSE c[1]
    BY <1>1
  <2>2. QED
    BY <1>1, <2>1, OperandAmount
<1>3. Amount(two, n, f) = Amount(one, m, f) ++ Signed(sub, v[2])
  <2>1. v[2] = IF ins.kind[2] = "v" THEN f[ins.arg[2]] ELSE c[2]
    BY <1>1
  <2>2. PICK x, y : /\ x \in Num /\ x = c[2] /\ y = v[2] /\ m \in Num
                    /\ y = IF ins.kind[2] = "v" THEN f[ins.arg[2]] ELSE x
                    /\ n = IF ins.kind[2] = "v" THEN m ELSE IF sub THEN m ++ x ELSE m -- x
    BY <1>1, <1>2, <2>1
  <2>3. Amount(SumOperand(one, ins, 2, sub), n, f) = Amount(one, m, f) ++ Signed(sub, y)
    BY ONLY <1>1, <2>2, OperandAmount, Ring, Ready, phase = "csum", ins = InstrOf(play, i),
            \A a \in Address(play) : f[a] \in Num
  <2>4. QED
    BY <1>1, <2>2, <2>3
<1>4. Signed(add, f[ins.res]) = Signed(add, v[1]) ++ Signed(sub, v[2])
  <2>1. v[1] \in Num /\ v[2] \in Num
    BY <1>1
  <2>2. sub = IF ins.op = "Add" THEN add ELSE ~add
    BY <1>1 DEF Gathers
  <2>3. QED
    BY <1>1, <2>1, <2>2, SignedSums
<1>5. PICK p, s, d : /\ p = Total(Loads(work.op_stack, f))
                     /\ s = Total(Values(work.add_stack, f))
                     /\ d = Total(Values(work.sub_stack, f))
  OBVIOUS
<1>6. p \in Num /\ s \in Num /\ d \in Num /\ Amount(work, b, f) = Balance(b, p, s, d)
  BY <1>1, <1>5, AmountTyped DEF Amount
<1>7. Amount(csum_work, b, f) = Balance(b, p ++ Signed(add, f[ins.res]), s, d)
  <2>1. PICK e : e = [ins |-> InstrOf(play, i), add |-> add]
    OBVIOUS
  <2>2. e \in SumEntries /\ e.add = add /\ e.ins = ins
    BY <1>1, <2>1 DEF SumEntries
  <2>3. /\ csum_work.op_stack = Append(work.op_stack, e)
        /\ csum_work.add_stack = work.add_stack /\ csum_work.sub_stack = work.sub_stack
        /\ work.op_stack \in Seq(SumEntries)
    BY <1>1, <2>1 DEF Gathers, Works
  <2>4. Total(Loads(csum_work.op_stack, f)) = p ++ Signed(add, f[ins.res])
    <3>1. Total(Loads(csum_work.op_stack, f))
            = Total(Loads(work.op_stack, f)) ++ Signed(e.add, f[e.ins.res])
      BY <1>1, <2>2, <2>3, LoadsPushed
    <3>2. QED
      BY <1>5, <2>2, <3>1
  <2>5. QED
    BY <1>5, <2>3, <2>4 DEF Amount
<1>8. PICK x, y : x = Signed(add, v[1]) /\ y = Signed(sub, v[2])
  OBVIOUS
<1>9. x \in Num /\ y \in Num /\ x ++ y \in Num
  BY <1>1, <1>8, SignedSums, Closed
<1>10. Amount(csum_work, b, f) = Balance(b, p, s, d) ++ (x ++ y)
  BY <1>4, <1>6, <1>7, <1>8, <1>9, BalanceMoves
<1>11. Balance(b, p, s, d) \in Num
  BY <1>6, BalanceMoves
<1>12. QED
  BY <1>1, <1>2, <1>3, <1>6, <1>8, <1>9, <1>10, <1>11, RingMonoids

(* The sum that is being recorded amounts to what its operator computes. *)
SumInv ==
  phase = "csum" => \A y : Run(play, y) =>
    /\ y.zero[InstrOf(play, Here).res] = Amount(csum_work, csum_work.sum_par, y.zero)
    /\ y.one[InstrOf(play, Here).res] = Amount(csum_work, Zero, y.one)

LEMMA OperandPar ==
  ASSUME NEW work \in Works, NEW ins, NEW j, NEW add, NEW c, c = play.par_rec_[ins.arg[j] + 1],
         ins.kind[j] \in {"v", "p"}
  PROVE  SumOperand(work, ins, j, add).sum_par
           = IF ins.kind[j] = "v" THEN work.sum_par
             ELSE IF add THEN work.sum_par ++ c ELSE work.sum_par -- c
<1>1. CASE ins.kind[j] = "p"
  <2>1. PICK m : m = IF add THEN work.sum_par ++ c ELSE work.sum_par -- c
    OBVIOUS
  <2>2. SumOperand(work, ins, j, add) = [work EXCEPT !.sum_par = m]
    BY <1>1, <2>1 DEF SumOperand
  <2>3. QED
    BY <1>1, <2>1, <2>2 DEF Works
<1>2. CASE ins.kind[j] = "v"
  BY <1>2 DEF SumOperand, Works
<1>3. QED
  BY <1>1, <1>2

LEMMA SumNextKept ==
  ASSUME Ring, IInv, SumInv, SumNext
  PROVE  SumInv'
<1>1. Ready /\ CsumInv /\ phase = "csum" /\ play \in Tapes
      /\ play' = play /\ cursor' = cursor /\ phase' = phase
  BY Resting DEF IInv, SumNext, CursorInv
<1>2. PICK i, add, sub, work, one, two : Gathers(i, add, sub, work, one, two)
  BY <1>1, SumNextGathers
<1>3. PICK ins : ins = InstrOf(play, i)
  OBVIOUS
<1>4. /\ i \in Op(play) /\ ins.op \in {"Add", "Sub"} /\ csum_work' = two
      /\ work \in Works /\ one \in Works /\ work.sum_par = csum_work.sum_par
      /\ one = SumOperand(work, ins, 1, add) /\ two = SumOperand(one, ins, 2, sub)
  BY <1>2, <1>3 DEF Gathers, Worked, Summation
<1>5. DOMAIN ins.arg = 1 .. 2 /\ 1 \in 1 .. 2 /\ 2 \in 1 .. 2
  BY <1>1, <1>3, <1>4, Operation DEF Operated, Binary
<1>6. SUFFICES ASSUME NEW y, Run(play, y)
               PROVE  /\ Amount(csum_work', csum_work'.sum_par, y.zero)
                           = Amount(csum_work, csum_work.sum_par, y.zero)
                      /\ Amount(csum_work', Zero, y.one) = Amount(csum_work, Zero, y.one)
  BY <1>1 DEF SumInv, Here
<1>7. PICK v, d : v = Operands(ins, y.zero, play.par_rec_) /\ d = Slopes(ins, y.one)
  OBVIOUS
<1>8. /\ y.zero[ins.res] = IF ins.op = "Add" THEN v[1] ++ v[2] ELSE v[1] -- v[2]
      /\ y.one[ins.res] = IF ins.op = "Add" THEN d[1] ++ d[2] ELSE d[1] -- d[2]
  <2>1. Ran(play, y, i)
    BY <1>4, <1>6 DEF Run
  <2>2. QED
    BY <1>3, <1>4, <1>5, <1>7, <2>1, SumRan
<1>9. (\A a \in Address(play) : y.zero[a] \in Num /\ y.one[a] \in Num) /\ Zero \in Num
  BY <1>6, NumAssumption DEF Run
<1>10. PICK c \in [1 .. 2 -> Num] :
         \A j \in 1 .. 2 : c[j] = IF ins.kind[j] = "v" THEN Zero
                                  ELSE play.par_rec_[ins.arg[j] + 1]
  <2> DEFINE c == [j \in 1 .. 2 |-> IF ins.kind[j] = "v" THEN Zero
                                   ELSE play.par_rec_[ins.arg[j] + 1]]
  <2>1. \A j \in 1 .. 2 : ins.kind[j] # "v" => play.par_rec_[ins.arg[j] + 1] \in Num
    BY <1>1, <1>3, <1>4, <1>5, Operation DEF Operated
  <2>2. c \in [1 .. 2 -> Num]
    BY <1>9, <2>1
  <2>3. QED
    BY <2>2
<1>11. PICK z \in [1 .. 2 -> Num] : \A j \in 1 .. 2 : z[j] = Zero
  <2>1. PICK z : z = [j \in 1 .. 2 |-> Zero]
    OBVIOUS
  <2>2. z \in [1 .. 2 -> Num] /\ \A j \in 1 .. 2 : z[j] = Zero
    BY <1>9, <2>1
  <2>3. QED
    BY <2>2
<1>12. v \in [1 .. 2 -> Num] /\ d \in [1 .. 2 -> Num]
       /\ \A j \in 1 .. 2 : /\ v[j] = IF ins.kind[j] = "v" THEN y.zero[ins.arg[j]] ELSE c[j]
                            /\ d[j] = IF ins.kind[j] = "v" THEN y.one[ins.arg[j]] ELSE z[j]
  <2>1. \A j \in 1 .. 2 : ins.kind[j] = "v" => ins.arg[j] \in Address(play)
    BY <1>1, <1>3, <1>4, <1>5, OperandPlace
  <2>2. QED
    BY <1>5, <1>7, <1>9, <1>10, <1>11, <2>1 DEF Operands, Slopes
<1>13. PICK m : m = one.sum_par
  OBVIOUS
<1>14. /\ m = IF ins.kind[1] = "v" THEN csum_work.sum_par
              ELSE IF add THEN csum_work.sum_par ++ c[1] ELSE csum_work.sum_par -- c[1]
       /\ two.sum_par = IF ins.kind[2] = "v" THEN m
                        ELSE IF sub THEN m ++ c[2] ELSE m -- c[2]
  <2>1. ins.kind[1] \in {"v", "p"} /\ ins.kind[2] \in {"v", "p"}
    BY <1>1, <1>3, <1>4, <1>5, Operation DEF Operated
  <2>2. QED
    BY <1>4, <1>5, <1>10, <1>13, <2>1, OperandPar
<1>15. csum_work.sum_par \in Num
  BY <1>1 DEF CsumInv, Works
<1>16. Amount(csum_work', two.sum_par, y.zero) = Amount(csum_work, csum_work.sum_par, y.zero)
  <2>1. PICK f, b : f = y.zero /\ b = csum_work.sum_par
    OBVIOUS
  <2>2. \A a \in Address(play) : f[a] \in Num
    BY <1>9, <2>1
  <2>3. f[ins.res] = IF ins.op = "Add" THEN v[1] ++ v[2] ELSE v[1] -- v[2]
    BY <1>8, <2>1
  <2>4. v \in [1 .. 2 -> Num]
        /\ \A j \in 1 .. 2 : v[j] = IF ins.kind[j] = "v" THEN f[ins.arg[j]] ELSE c[j]
    BY <1>12, <2>1
  <2>5. /\ b \in Num
        /\ m = IF ins.kind[1] = "v" THEN b ELSE IF add THEN b ++ c[1] ELSE b -- c[1]
    BY <1>14, <1>15, <2>1
  <2>6. Amount(csum_work', two.sum_par, f) = Amount(csum_work, b, f)
    BY ONLY Ring, <1>1, <1>2, <1>3, <1>10, <1>14, <2>2, <2>3, <2>4, <2>5, OperatorAmount
  <2>7. QED
    BY <2>1, <2>6
<1>17. Amount(csum_work', Zero, y.one) = Amount(csum_work, Zero, y.one)
  <2>1. Zero ++ Zero = Zero /\ Zero -- Zero = Zero
    BY <1>9, RingMonoids, RingMinus DEF Minus
  <2>2. \A k \in BOOLEAN, j \in 1 .. 2 :
          Zero = IF ins.kind[j] = "v" THEN Zero ELSE IF k THEN Zero ++ z[j] ELSE Zero -- z[j]
    BY <1>11, <2>1
  <2>3. QED
    BY <1>1, <1>2, <1>3, <1>5, <1>8, <1>9, <1>12, <1>11, <2>1, OperatorAmount
<1>18. QED
  BY <1>4, <1>16, <1>17

LEMMA NothingTotal == \A f : Total(Loads(<<>>, f)) = Zero /\ Total(Values(<<>>, f)) = Zero
<1>1. SUFFICES ASSUME NEW f PROVE Total(Loads(<<>>, f)) = Zero /\ Total(Values(<<>>, f)) = Zero
  OBVIOUS
<1>2. PICK s, r : s = Loads(<<>>, f) /\ r = Values(<<>>, f)
  OBVIOUS
<1>3. s = [k \in 1 .. 0 |-> s[k]] /\ r = [k \in 1 .. 0 |-> r[k]]
  BY <1>2 DEF Loads, Values
<1>4. s \in [1 .. 0 -> Num] /\ r \in [1 .. 0 -> Num]
  BY <1>3
<1>5. QED
  BY <1>2, <1>4, TotalNone

(* The sum starts with what is recorded as its result. *)
LEMMA StartSumKept ==
  ASSUME Ring, IInv, StartSum
  PROVE  SumInv'
<1>1. PICK i \in Op(play) : Moves(i, Summation)
  BY Resting, ForwardMoves DEF StartSum
<1>2. /\ Current = InstrOf(play, i) /\ play' = play /\ cursor' = At(play, i) /\ play \in Tapes
      /\ csum_work = NoWork
      /\ csum_work' = [csum_work EXCEPT !.op_stack = <<[ins |-> Current, add |-> TRUE]>>]
  BY <1>1 DEF Moves, ForwardTo, StartSum, IInv, CursorInv, CsumInv
<1>3. PICK e : e = [ins |-> InstrOf(play, i), add |-> TRUE]
  OBVIOUS
<1>4. e \in SumEntries /\ e.ins.res = InstrOf(play, i).res /\ e.ins.res \in Address(play) /\ e.add
  BY <1>2, <1>3, Location DEF SumEntries, Located
<1>5. PICK stack : stack = Append(<<>>, e)
  OBVIOUS
<1>6. /\ csum_work'.op_stack = stack /\ csum_work'.add_stack = <<>> /\ csum_work'.sub_stack = <<>>
      /\ csum_work'.sum_par = Zero
  <2>1. stack = <<e>>
    BY <1>5
  <2>2. csum_work' = [csum_work EXCEPT !.op_stack = stack]
    BY <1>2, <1>3, <2>1
  <2>3. QED
    BY <1>2, <2>2 DEF NoWork
<1>7. ASSUME NEW f, \A a \in Address(play) : f[a] \in Num
      PROVE  Amount(csum_work', Zero, f) = f[e.ins.res]
  <2>1. PICK v : v = f[e.ins.res]
    OBVIOUS
  <2>2. v \in Num /\ Zero \in Num
    BY <1>4, <1>7, <2>1, NumAssumption
  <2>3. Total(Loads(<<>>, f)) = Zero /\ Total(Values(<<>>, f)) = Zero
    BY NothingTotal
  <2>4. Total(Loads(stack, f)) = Zero ++ v
    <3>1. <<>> \in Seq(SumEntries)
      OBVIOUS
    <3>2. Total(Loads(stack, f)) = Total(Loads(<<>>, f)) ++ Signed(e.add, f[e.ins.res])
      BY <1>2, <1>4, <1>5, <1>7, <3>1, LoadsPushed
    <3>3. QED
      BY <1>4, <2>1, <2>3, <3>2 DEF Signed
  <2>5. Amount(csum_work', Zero, f) = Balance(Zero, Zero ++ v, Zero, Zero)
    BY <1>6, <2>3, <2>4 DEF Amount
  <2>6. Balance(Zero, Zero ++ v, Zero, Zero) = Balance(Zero, Zero, Zero, Zero) ++ v
    BY <2>2, BalanceMoves
  <2>7. Balance(Zero, Zero, Zero, Zero) = Zero
    <3>1. Zero ++ Zero = Zero /\ Zero ++ Minus(Zero) = Zero
      BY <2>2, RingMonoids, RingMinus
    <3>2. QED
      BY <3>1 DEF Balance
  <2>8. Zero ++ v = v
    BY <2>2, RingMonoids
  <2>9. QED
    BY <2>1, <2>5, <2>6, <2>7, <2>8
<1>8. Here' = i
  BY <1>2 DEF Here, At
<1>9. SUFFICES ASSUME NEW y, Run(play, y)
               PROVE  /\ y.zero[e.ins.res] = Amount(csum_work', Zero, y.zero)
                      /\ y.one[e.ins.res] = Amount(csum_work', Zero, y.one)
  BY <1>2, <1>4, <1>6, <1>8 DEF SumInv
<1>10. QED
  BY <1>7, <1>9 DEF Run

(* What is popped, of x, adds up to what is on the stack, of y. *)
LEMMA PoppedTotal ==
  ASSUME Ring, Ready, NewInv, phase = "csum", NEW stack \in Seq(Address(play)),
         \A k \in DOMAIN stack : HasNewVar(stack[k]) /\ stack[k] # 0,
         NEW g, NEW f, \A a \in Address(play) : f[a] \in Num,
         \A a \in Address(play) : a # 0 /\ tape[a].new_var # Invalid => g[tape[a].new_var] = f[a]
  PROVE  Total([k \in DOMAIN Popped(stack) |-> g[Popped(stack)[k]]]) = Total(Values(stack, f))
<1>1. PICK s : s = Popped(stack)
  OBVIOUS
<1>2. PICK n \in Nat : n = Len(stack) /\ stack \in [1 .. n -> Address(play)] /\ DOMAIN s = 1 .. n
  BY <1>1 DEF Popped
<1>3. PICK r : r = [k \in DOMAIN s |-> g[s[k]]]
  OBVIOUS
<1>4. ASSUME NEW k \in 1 .. n PROVE n - k + 1 \in 1 .. n /\ r[k] = f[stack[n - k + 1]]
  <2>1. n - k + 1 \in 1 .. n /\ s[k] = tape[stack[n - k + 1]].new_var
    BY <1>1, <1>2, PoppedNew
  <2>2. PICK a \in Address(play) : a = stack[n - k + 1] /\ HasNewVar(a) /\ a # 0
    BY <1>2, <2>1
  <2>3. tape[a].new_var # Invalid
    BY <2>2, HasNumber
  <2>4. QED
    BY <1>2, <1>3, <2>1, <2>2, <2>3
<1>5. Values(stack, f) \in [1 .. n -> Num] /\ \A k \in 1 .. n : Values(stack, f)[k] = f[stack[k]]
  BY <1>2 DEF Values
<1>6. DOMAIN r = 1 .. n /\ r = [k \in 1 .. n |-> r[k]]
  BY <1>2, <1>3
<1>7. \A k \in 1 .. n : r[k] = Values(stack, f)[n - k + 1] /\ r[k] \in Num
  BY <1>4, <1>5
<1>8. r \in [1 .. n -> Num]
  BY <1>6, <1>7
<1>9. Total(r) = Total(Values(stack, f))
  BY <1>5, <1>7, <1>8, TotalReversed
<1>10. QED
  BY <1>1, <1>3, <1>9

LEMMA SumEndAgrees ==
  ASSUME Ring, IInv, PlayInv, AgreeInv, SumInv, SumEnd
  PROVE  AgreeInv'
<1> DEFINE t == NewRecording
           u == NewRecording'
           r == InstrOf(play, Here).res
           q == u.num_var_rec - 1
<1>1. SUFFICES ASSUME SkipFree' PROVE Agrees'
  BY DEF AgreeInv
<1>2. phase = "csum" /\ play' = play /\ cursor' = cursor /\ csum_work.op_stack = <<>>
  BY DEF SumEnd
<1>3. /\ SkipFree /\ NewInv /\ r \in Address(play) /\ \E w, p, s, d : SumOf(w, p, s, d)
      /\ \A a \in Address(play) :
           tape'[a].new_var = IF a = r THEN rec'.num_var_rec_ - 1 ELSE tape[a].new_var
  BY <1>1, SumEndFacts
<1>4. PICK w, p, s, d : SumOf(w, p, s, d)
  BY <1>3
<1>5. /\ CopiesSum(t, u, w, p, s, d) /\ Begun(t) /\ u.par_rec_[p + 1] = csum_work.sum_par
      /\ s = Popped(csum_work.add_stack) /\ d = Popped(csum_work.sub_stack)
  BY <1>3, <1>4 DEF SumOf, NewInv
<1>6. Ready /\ play \in Tapes /\ Worked(csum_work) /\ csum_work \in Works
  BY <1>2, Resting DEF IInv, CursorInv, CsumInv
<1>7. SUFFICES ASSUME NEW x, NEW y, Follows(x, y)' PROVE Agree(x, y)'
  BY DEF Agrees
<1>8. Run(play, y) /\ Run(u, x) /\ \A a \in 1 .. play.n : Equals(x, a, y, a)
  BY <1>2, <1>7 DEF Follows, Equals
<1>9. Run(t, x)
  <2>1. Extended(t, u, CSumCode, w) /\ IsSum(w, p, s, d)
    BY <1>5 DEF CopiesSum
  <2>2. w \in Seq(Nat)
    BY <2>1, SumWordsFacts DEF SumReads
  <2> HIDE DEF t, u
  <2>3. QED
    BY <1>5, <1>8, <2>1, <2>2, RunBegun
<1>10. Agree(x, y)
  BY <1>2, <1>3, <1>8, <1>9 DEF AgreeInv, Agrees, Follows
<1>11. PICK f, g, h, l : f = y.zero /\ g = y.one /\ h = x.zero /\ l = x.one
  OBVIOUS
<1>12. \A a \in Address(play) :
         /\ f[a] \in Num /\ g[a] \in Num
         /\ a # 0 /\ tape[a].new_var # Invalid =>
              h[tape[a].new_var] = f[a] /\ l[tape[a].new_var] = g[a]
  BY <1>8, <1>10, <1>11 DEF Run, Agree, Equals
<1>13. /\ csum_work.add_stack \in Seq(Address(play)) /\ csum_work.sub_stack \in Seq(Address(play))
       /\ \A k \in DOMAIN csum_work.add_stack :
            HasNewVar(csum_work.add_stack[k]) /\ csum_work.add_stack[k] # 0
       /\ \A k \in DOMAIN csum_work.sub_stack :
            HasNewVar(csum_work.sub_stack[k]) /\ csum_work.sub_stack[k] # 0
  BY <1>6 DEF Worked, Works
<1>14. /\ Total([k \in DOMAIN s |-> h[s[k]]]) = Total(Values(csum_work.add_stack, f))
       /\ Total([k \in DOMAIN d |-> h[d[k]]]) = Total(Values(csum_work.sub_stack, f))
       /\ Total([k \in DOMAIN s |-> l[s[k]]]) = Total(Values(csum_work.add_stack, g))
       /\ Total([k \in DOMAIN d |-> l[d[k]]]) = Total(Values(csum_work.sub_stack, g))
  <2>1. /\ \A a \in Address(play) : f[a] \in Num /\ g[a] \in Num
        /\ \A a \in Address(play) : a # 0 /\ tape[a].new_var # Invalid => h[tape[a].new_var] = f[a]
        /\ \A a \in Address(play) : a # 0 /\ tape[a].new_var # Invalid => l[tape[a].new_var] = g[a]
    BY <1>12
  <2>2. PICK stack : stack = csum_work.add_stack
    OBVIOUS
  <2>3. PICK other : other = csum_work.sub_stack
    OBVIOUS
  <2>4. ASSUME NEW k \in {stack, other}
        PROVE  k \in Seq(Address(play)) /\ \A j \in DOMAIN k : HasNewVar(k[j]) /\ k[j] # 0
    BY <1>13, <2>2, <2>3
  <2>5. ASSUME NEW k \in {stack, other}
        PROVE  /\ Total([j \in DOMAIN Popped(k) |-> h[Popped(k)[j]]]) = Total(Values(k, f))
               /\ Total([j \in DOMAIN Popped(k) |-> l[Popped(k)[j]]]) = Total(Values(k, g))
    <3>1. Total([j \in DOMAIN Popped(k) |-> h[Popped(k)[j]]]) = Total(Values(k, f))
      BY ONLY Ring, <1>2, <1>3, <1>6, <2>1, <2>4, <2>5, PoppedTotal
    <3>2. Total([j \in DOMAIN Popped(k) |-> l[Popped(k)[j]]]) = Total(Values(k, g))
      BY ONLY Ring, <1>2, <1>3, <1>6, <2>1, <2>4, <2>5, PoppedTotal
    <3>3. QED
      BY <3>1, <3>2
  <2>6. QED
    BY <1>5, <2>2, <2>3, <2>5
<1>15. \A e : Total(Loads(csum_work.op_stack, e)) = Zero
  BY <1>2, NothingTotal
<1>16. /\ h[q] = Amount(csum_work, csum_work.sum_par, f) /\ l[q] = Amount(csum_work, Zero, g)
       /\ x.said[t.num_op_rec + 1] = x.said[t.num_op_rec]
  <2> HIDE DEF t, u
  <2>1. /\ h[q] = Balance(u.par_rec_[p + 1], Zero, Total([k \in DOMAIN s |-> h[s[k]]]),
                          Total([k \in DOMAIN d |-> h[d[k]]]))
        /\ l[q] = Balance(Zero, Zero, Total([k \in DOMAIN s |-> l[s[k]]]),
                          Total([k \in DOMAIN d |-> l[d[k]]]))
        /\ x.said[t.num_op_rec + 1] = x.said[t.num_op_rec]
    BY <1>5, <1>8, <1>11, SumComputes
  <2>2. QED
    BY <1>5, <1>14, <1>15, <2>1 DEF Amount
<1>17. Equals(x, q, y, r)
  BY <1>2, <1>8, <1>11, <1>16 DEF SumInv, Equals
<1>18. rec'.num_var_rec_ = u.num_var_rec /\ Len(rec.op_rec_) = t.num_op_rec
       /\ Len(rec'.op_rec_) = t.num_op_rec + 1 /\ Here' = Here
  <2>1. u.num_op_rec = t.num_op_rec + 1
    BY <1>5 DEF CopiesSum, Extended
  <2>2. QED
    BY <1>2, <2>1 DEF NewRecording, Here
<1>19. x.said[Len(rec'.op_rec_)] = y.said[Here' + 1]
  BY <1>10, <1>16, <1>18 DEF Agree
<1>20. \A a \in Address(play) : \/ tape'[a].new_var = tape[a].new_var
                                \/ Equals(x, tape'[a].new_var, y, a)
  BY <1>3, <1>17, <1>18
<1>21. QED
  BY <1>2, <1>10, <1>19, <1>20, AgreeAfter

LEMMA PrepareAgrees ==
  ASSUME IInv, PlayInv, Prepare
  PROVE  AgreeInv'
<1> DEFINE u == NewRecording'
<1>1. SUFFICES ASSUME SkipFree' PROVE Agrees'
  BY DEF AgreeInv
<1>2. Prepares /\ Ready
  BY Resting, PreparePrepares DEF IInv
<1>3. /\ phase = "reverse" /\ phase' = "forward" /\ play' = play /\ Here' = 0 /\ 0 \in Op(play)
      /\ \A a \in Address(play) \ {0} : tape'[a].new_var = tape[a].new_var
      /\ play \in Tapes
  BY <1>2 DEF Prepares, Ready, CursorInv
<1>4. NewInv'
  BY <1>1, <1>3, PreparePlays DEF PlayInv
<1>5. Begun(u) /\ u.num_op_rec = 1 /\ Len(rec'.op_rec_) = 1
  <2>1. Len(rec'.op_rec_) = 1
    BY <1>3, <1>4, InvPlaces DEF NewInv, Counts
  <2>2. QED
    BY <1>4, <2>1 DEF NewInv, NewRecording
<1>6. u.op_rec_[0].op = "Begin" /\ 0 \in Op(u)
  <2>1. 0 \in Op(u)
    BY <1>5 DEF Op
  <2> HIDE DEF u
  <2>2. QED
    BY <1>5, <2>1 DEF Begun, Line
<1>7. InstrOf(u, 0).op = "Begin"
  <2> HIDE DEF u
  <2>1. QED
    BY <1>6 DEF InstrOf, Instr, OpAt, At
<1>8. InstrOf(play, 0).op = "Begin"
  BY <1>3, Location DEF Located
<1>9. ASSUME NEW t, NEW v, Run(t, v), 0 \in Op(t), InstrOf(t, 0).op = "Begin"
      PROVE  v.said[1] = <<>>
  <2>1. Ran(t, v, 0) /\ v.said[0] = <<>> /\ "Begin" \notin Comparison
    BY <1>9, OpCodes DEF Run, Comparison
  <2>2. v.said[0 + 1] = v.said[0]
    BY <1>9, <2>1 DEF Ran
  <2>3. QED
    BY <2>1, <2>2
<1>10. SUFFICES ASSUME NEW x, NEW y, Follows(x, y)' PROVE Agree(x, y)'
  BY DEF Agrees
<1>11. Run(play, y) /\ Run(u, x)
  BY <1>3, <1>10 DEF Follows
<1>12. x.said[1] = <<>> /\ y.said[1] = <<>>
  <2> HIDE DEF u
  <2>1. QED
    BY <1>3, <1>6, <1>7, <1>8, <1>9, <1>11
<1>13. \A a \in Address(play) : a # 0 => tape'[a].new_var = Invalid
  BY <1>2, <1>3 DEF Ready, FreshInv
<1>14. Invalid' = Invalid
  BY <1>3 DEF Invalid
<1>15. QED
  BY <1>3, <1>5, <1>12, <1>13, <1>14 DEF Agree

LEMMA FinishAgrees ==
  ASSUME IInv, PlayInv, AgreeInv, Finish
  PROVE  AgreeInv'
<1>1. SUFFICES ASSUME SkipFree' PROVE Agrees'
  BY DEF AgreeInv
<1>2. PICK i \in Op(play) :
        /\ ForwardTo(i) /\ play' = play /\ cursor' = At(play, i) /\ SkipFree /\ CopyOf(i)
        /\ OperandsNew(i) /\ RenumbersTo(i)
  BY <1>1, FinishCopy
<1>3. Ready /\ NewInv /\ Agrees
  BY <1>2, Resting DEF PlayInv, AgreeInv, ForwardTo
<1>4. QED
  BY <1>2, <1>3, CopyAgrees

(* What changes nothing that matters. *)
LEMMA StillAgrees ==
  ASSUME AgreeInv, play' = play, cursor' = cursor, tape' = tape, rec' = rec,
         dep_taddr' = dep_taddr, phase' # "reverse" => phase # "reverse"
  PROVE  AgreeInv'
<1>1. /\ NewRecording' = NewRecording /\ SkipFree' = SkipFree /\ Here' = Here /\ Invalid' = Invalid
  BY DEF NewRecording, SkipFree, SkipFreeIn, Here, Invalid
<1>2. Agrees' = Agrees
  BY <1>1 DEF Agrees, Follows, Agree, Equals
<1>3. QED
  BY <1>1, <1>2 DEF AgreeInv

(* What is right for all that two recordings compute is right for what a   *)
(* player gets from them.                                                  *)
LEMMA PlayedSame ==
  ASSUME NEW t, WellFormed(t), ~Skipping(t), NEW q, WellFormed(q), ~Skipping(q), q.n = t.n,
         DOMAIN t.dep_taddr_ = DOMAIN q.dep_taddr_,
         \A x, y : Run(q, y) /\ Run(t, x) /\ (\A a \in 1 .. q.n : Equals(x, a, y, a)) =>
           /\ x.said[t.num_op_rec] = y.said[q.num_op_rec]
           /\ \A k \in DOMAIN q.dep_taddr_ : Equals(x, t.dep_taddr_[k], y, q.dep_taddr_[k]),
         NEW u \in [1 .. q.n -> Num], NEW d \in [1 .. q.n -> Num], NEW g \in Num
  PROVE  Results(t, u, d, g) = Results(q, u, d, g)
<1>1. PICK f : PlayedBy(t, u, d, g, f) /\ Played(t, u, d, g) = f[t.num_op_rec]
  BY PlayedFold
<1>2. PICK h : PlayedBy(q, u, d, g, h) /\ Played(q, u, d, g) = h[q.num_op_rec]
  BY PlayedFold
<1>3. PICK x, y : x = RunOf(t, f) /\ y = RunOf(q, h)
  OBVIOUS
<1>4. Run(t, x) /\ Run(q, y)
  BY <1>1, <1>2, <1>3, PlayedRuns
<1>5. \A a \in 1 .. q.n : Equals(x, a, y, a)
  <2>1. SUFFICES ASSUME NEW a \in 1 .. q.n PROVE Equals(x, a, y, a)
    OBVIOUS
  <2>2. PICK b, c : b = u /\ c = d
    OBVIOUS
  <2>3. PlayedBy(t, b, c, g, f) /\ PlayedBy(q, b, c, g, h) /\ a \in 1 .. t.n
    BY <1>1, <1>2, <2>1, <2>2
  <2>4. RunOf(t, f).zero[a] = b[a] /\ RunOf(t, f).one[a] = c[a]
    BY ONLY <2>3, WellFormed(t), ~Skipping(t), PlayedStarts
  <2>5. RunOf(q, h).zero[a] = b[a] /\ RunOf(q, h).one[a] = c[a]
    BY ONLY <2>1, <2>3, WellFormed(q), ~Skipping(q), PlayedStarts
  <2>6. QED
    BY <1>3, <2>4, <2>5 DEF Equals
<1>6. /\ x.said[t.num_op_rec] = y.said[q.num_op_rec]
      /\ \A k \in DOMAIN q.dep_taddr_ : Equals(x, t.dep_taddr_[k], y, q.dep_taddr_[k])
  BY <1>4, <1>5
<1>7. PICK v, w : v = Played(t, u, d, g) /\ w = Played(q, u, d, g)
  OBVIOUS
<1>8. /\ x.zero = v.order0 /\ x.one = v.order1 /\ x.said[t.num_op_rec] = v.compared
      /\ y.zero = w.order0 /\ y.one = w.order1 /\ y.said[q.num_op_rec] = w.compared
  <2>1. t.num_op_rec \in 0 .. t.num_op_rec /\ q.num_op_rec \in 0 .. q.num_op_rec
    BY DEF WellFormed, Vectors
  <2>2. QED
    BY <1>1, <1>2, <1>3, <1>7, <2>1 DEF RunOf
<1>9. /\ v.compared = w.compared
      /\ [i \in DOMAIN t.dep_taddr_ |-> <<v.order0[t.dep_taddr_[i]], v.order1[t.dep_taddr_[i]]>>]
           = [i \in DOMAIN q.dep_taddr_ |-> <<w.order0[q.dep_taddr_[i]], w.order1[q.dep_taddr_[i]]>>]
  BY <1>6, <1>8 DEF Equals
<1>10. QED
  BY <1>7, <1>9 DEF Results

LEMMA FinishSame ==
  ASSUME IInv, PlayInv, AgreeInv, Finish, SkipFree'
  PROVE  SameFunction'
<1> DEFINE t == NewRecording'
<1>1. PICK i \in Op(play) :
        /\ ForwardTo(i) /\ play' = play /\ cursor' = At(play, i) /\ phase' = "done"
        /\ i = play.num_op_rec - 1 /\ SkipFree /\ RenumbersTo(i) /\ InstrOf(play, i).op = "End"
  BY FinishCopy
<1>2. Ready /\ NewInv /\ play \in Tapes /\ phase = "forward"
  BY <1>1, Resting DEF PlayInv, ForwardTo, Ready, CursorInv
<1>3. Agrees' /\ WellFormed(t)
  BY <1>1, FinishAgrees, FinishPlayable DEF AgreeInv, OutputPlayable
<1>4. WellFormed(play) /\ ~Skipping(play)
  BY <1>2, TapesAssumption, CodeFacts DEF Skipping, Optimized
<1>5. ~Skipping(t)
  <2>1. NewInv'
    BY <1>1, FinishPlays DEF PlayInv
  <2>2. Begun(t)
    BY <2>1 DEF NewInv
  <2> HIDE DEF t
  <2>3. QED
    BY <2>2 DEF Skipping, Begun, Line
<1>6. t.n = play.n /\ t.num_op_rec = Len(rec'.op_rec_) /\ t.dep_taddr_ = dep_taddr'
  BY <1>1 DEF NewRecording
<1>7. /\ dep_taddr' = [k \in DOMAIN play.dep_taddr_ |-> tape[play.dep_taddr_[k]].new_var]
  BY <1>2 DEF IInv, DepInv, Finish
<1>8. Here' + 1 = play.num_op_rec
  <2>1. play.num_op_rec \in Nat
    BY <1>2, Ends
  <2>2. QED
    BY <1>1, <2>1 DEF Here, At
<1>9. ASSUME NEW x, NEW y, Run(play, y), Run(t, x), \A a \in 1 .. play.n : Equals(x, a, y, a)
      PROVE  /\ x.said[t.num_op_rec] = y.said[play.num_op_rec]
             /\ \A k \in DOMAIN play.dep_taddr_ : Equals(x, t.dep_taddr_[k], y, play.dep_taddr_[k])
  <2>1. Agree(x, y)'
    BY <1>1, <1>3, <1>9 DEF Agrees, Follows, Equals
  <2>2. x.said[t.num_op_rec] = y.said[play.num_op_rec]
    BY <1>6, <1>8, <2>1 DEF Agree
  <2>3. ASSUME NEW k \in DOMAIN play.dep_taddr_
        PROVE  Equals(x, t.dep_taddr_[k], y, play.dep_taddr_[k])
    <3>1. PICK a : a = play.dep_taddr_[k]
      OBVIOUS
    <3>2. a \in Address(play) /\ a > 0 /\ HasNewVar(a)
      BY <1>1, <3>1, DependentsNew
    <3>3. tape[a].new_var # Invalid
      BY <1>2, <3>2, HasNumber
    <3>4. tape'[a].new_var = tape[a].new_var /\ Invalid' = Invalid
      <4>1. "End" \notin Computing \union {"Inv"}
        BY OpNames DEF Computing, Binary, CondExp
      <4>2. QED
        BY <1>1, <3>2, <4>1 DEF RenumbersTo, Invalid
    <3>5. Equals(x, tape'[a].new_var, y, a)
      BY <1>1, <2>1, <3>2, <3>3, <3>4 DEF Agree, Equals
    <3>6. QED
      BY <1>6, <1>7, <3>1, <3>4, <3>5
  <2>4. QED
    BY <2>2, <2>3
<1>10. DOMAIN t.dep_taddr_ = DOMAIN play.dep_taddr_
  BY <1>6, <1>7
<1>11. \A u, d \in [1 .. play.n -> Num], g \in Num : Results(t, u, d, g) = Results(play, u, d, g)
  <2> HIDE DEF t
  <2>1. QED
    BY <1>3, <1>4, <1>5, <1>6, <1>9, <1>10, PlayedSame
<1>12. QED
  BY <1>1, <1>11 DEF SameFunction

FreeFunction == SkipFree => SameFunction

LEMMA AgreeStep ==
  ASSUME Ring, IInv, PlayInv, AgreeInv, SumInv, FreeFunction, [Next]_vars
  PROVE  AgreeInv' /\ SumInv' /\ FreeFunction'
<1>1. CASE UNCHANGED vars
  <2>1. UNCHANGED <<play, phase, cursor, tape, csum_work, rec, dep_taddr>>
    BY <1>1 DEF vars
  <2>2. AgreeInv'
    BY <2>1, StillAgrees
  <2>3. SumInv' = SumInv
    BY <2>1 DEF SumInv, Here
  <2>4. NewRecording' = NewRecording /\ SkipFree' = SkipFree
    BY <2>1 DEF NewRecording, SkipFree, SkipFreeIn
  <2>5. SameFunction' = SameFunction
    BY <2>1, <2>4 DEF SameFunction
  <2>6. QED
    BY <2>2, <2>3, <2>4, <2>5 DEF FreeFunction
<1>2. CASE Finish
  <2>1. phase' # "csum"
    BY <1>2 DEF Finish
  <2>2. QED
    BY <1>2, <2>1, FinishAgrees, FinishSame DEF FreeFunction, SumInv
<1>3. CASE Next /\ ~Finish
  <2>1. phase' # "done"
    BY <1>3, NotDone
  <2>2. FreeFunction'
    BY <2>1 DEF FreeFunction, SameFunction
  <2>3. CASE ReverseArithmetic \/ ReverseCondExp \/ ReverseCompare \/ ReverseInv \/ ReversePar
    <3>1. phase' = "reverse"
      BY <2>3 DEF ReverseArithmetic, ReverseCondExp, ReverseCompare, ReverseInv, ReversePar, Back
    <3>2. QED
      BY <2>2, <3>1 DEF AgreeInv, SumInv
  <2>4. CASE Prepare \/ Drop \/ Merge \/ Rerecording
    <3>1. phase' = "forward"
      BY <2>4 DEF Prepare, Drop, Merge, Rerecording, RecordArithmetic, RecordVariable,
                  RecordCondExp, RecordCompare, Arithmetic, Forward
    <3>2. AgreeInv'
      BY <2>4, PrepareAgrees, DropAgrees, MergeAgrees, RecordAgrees
    <3>3. QED
      BY <2>2, <3>1, <3>2 DEF SumInv
  <2>5. CASE StartSum
    BY <2>2, <2>5, DropAgrees, StartSumKept
  <2>6. CASE SumNext
    <3>1. AgreeInv'
      BY <2>6, StillAgrees DEF SumNext
    <3>2. QED
      BY <2>2, <2>6, <3>1, SumNextKept
  <2>7. CASE SumEnd
    <3>1. phase' # "csum"
      BY <2>7 DEF SumEnd
    <3>2. QED
      BY <2>2, <2>7, <3>1, SumEndAgrees DEF SumInv
  <2>8. QED
    BY <1>3, <2>3, <2>4, <2>5, <2>6, <2>7 DEF Next, Rerecording
<1>4. QED
  BY <1>1, <1>2, <1>3

(***************************************************************************)
(* The comment on ADFun::optimize says that the optimized recording        *)
(* computes the same function and derivative values.  It does, and its     *)
(* comparisons say the same, as long as no conditional skip was put: for   *)
(* every recording, every point and every direction, if numbers are a      *)
(* ring.                                                                   *)
(***************************************************************************)
THEOREM FunctionKept == Ring => (Spec => [](SkipFree => SameFunction))
<1> SUFFICES ASSUME Ring PROVE Spec => [](SkipFree => SameFunction)
  OBVIOUS
<1>1. Init => IInv /\ PlayInv /\ FreePlayable /\ AgreeInv /\ SumInv /\ FreeFunction
  BY InitAll, PlayInit DEF Init, AgreeInv, SumInv, FreeFunction, SameFunction
<1>2. IInv /\ IInv' /\ PlayInv /\ FreePlayable /\ [Next]_vars => PlayInv' /\ FreePlayable'
  BY PlayStep
<1>3. IInv /\ PlayInv /\ AgreeInv /\ SumInv /\ FreeFunction /\ [Next]_vars
        => AgreeInv' /\ SumInv' /\ FreeFunction'
  BY AgreeStep
<1>4. FreeFunction => (SkipFree => SameFunction)
  BY DEF FreeFunction
<1>5. QED
  BY <1>1, <1>2, <1>3, <1>4, InvariantKept, PTL DEF Spec
=============================================================================
