---------------------------- MODULE Player_proofs ---------------------------
(***************************************************************************)
(* What the proofs about the sweeps and about the optimizer have in        *)
(* common: well-formed recordings and beginnings of them, folds, the types *)
(* of what instructions compute, totals in a ring, and what is true of all *)
(* that a recording computes (Run), cumulative sums included.              *)
(***************************************************************************)
EXTENDS Player, Taylor, FiniteSetTheorems, WellFoundedInduction, TLAPS

-----------------------------------------------------------------------------
(* Tapes. *)

LEMMA OpCodes ==
  /\ \A op \in Computing : op \notin {"Begin", "Inv", "CSkip", "End"}
  /\ \A op \in Computing : op \notin Comparison
  /\ \A op \in Optimized : op \notin TwoResults
  /\ \A op \in CondExp \union {"CExp"} : op \notin TwoResults
  BY UnaryAssumption DEF Computing, Comparison, Optimized, CondExp, Binary

(* What is known of operator i of a tape. *)
LEMMA Placed ==
  ASSUME NEW t, WellFormed(t), NEW i \in Op(t)
  PROVE  /\ t.num_op_rec \in Nat /\ t.num_var_rec \in Nat
         /\ t.first[i] \in Nat /\ t.last[i] \in Nat
         /\ t.op_rec_[i] \in OpCodeRec
         /\ NumArg(t.op_rec_[i]) \in Nat
         /\ NumRes(t.op_rec_[i].op) \in 0 .. 2
         /\ t.op_rec_[i].op = "Begin" <=> i = 0
         /\ t.op_rec_[i].op = "End" <=> i = t.num_op_rec - 1
<1>1. /\ t.num_op_rec \in Nat /\ t.num_var_rec \in Nat
      /\ t.first[i] \in Nat /\ t.last[i] \in Nat
      /\ t.op_rec_[i] \in OpCodeRec /\ i \in DOMAIN t.op_rec_
  BY DEF WellFormed, Vectors, Op
<1>2. Len(t.op_rec_[i].kind) \in Nat
  BY <1>1 DEF OpCodeRec
<1>3. NumArg(t.op_rec_[i]) \in Nat
  BY <1>2 DEF NumArg
<1>4. NumRes(t.op_rec_[i].op) \in 0 .. 2
  BY DEF NumRes
<1>5. QED
  BY <1>1, <1>3, <1>4 DEF WellFormed

(* Operator i + 1 begins where operator i ends. *)
LEMMA NextPlaced ==
  ASSUME NEW t, WellFormed(t), NEW i \in Op(t), i + 1 \in Op(t)
  PROVE  /\ t.first[i + 1] = t.first[i] + Size(t, i)
         /\ t.last[i + 1] = t.last[i] + NumRes(t.op_rec_[i + 1].op)
<1>1. i + 1 \in 1 .. t.num_op_rec - 1 /\ (i + 1) - 1 = i
  BY Placed DEF Op
<1>2. QED
  BY <1>1 DEF WellFormed, Adjacent

(* A sum and a skip say how many arguments they have, first and last. *)
LEMMA CSumCounted ==
  ASSUME NEW t, WellFormed(t), NEW i \in Op(t), t.op_rec_[i].op = "CSum"
  PROVE  /\ Arg(t, At(t, i), 0) \in Nat /\ Arg(t, At(t, i), 1) \in Nat
         /\ Size(t, i) = Arg(t, At(t, i), 0) + Arg(t, At(t, i), 1) + 4
         /\ t.op_arg_rec_[t.first[i] + Size(t, i) - 1]
              = Arg(t, At(t, i), 0) + Arg(t, At(t, i), 1)
<1> DEFINE c == At(t, i)
<1>1. /\ t.first[i] + 3 < t.num_op_arg_rec
      /\ Arg(t, c, Size(t, i) - 1) = Arg(t, c, 0) + Arg(t, c, 1)
  BY DEF WellFormed, Counted, Op
<1>2. t.num_op_arg_rec \in Nat /\ t.first[i] \in Nat
      /\ t.op_arg_rec_ \in [0 .. t.num_op_arg_rec - 1 -> Nat]
  BY Placed DEF WellFormed, Vectors
<1>3. c.op_arg_ = t.first[i]
  BY DEF At
<1>4. Arg(t, c, 0) \in Nat /\ Arg(t, c, 1) \in Nat
  <2>1. \A j \in 0 .. t.num_op_arg_rec - 1 : t.op_arg_rec_[j] \in Nat
    BY <1>2
  <2>2. /\ t.first[i] + 0 \in 0 .. t.num_op_arg_rec - 1
        /\ t.first[i] + 1 \in 0 .. t.num_op_arg_rec - 1
    BY <1>1, <1>2
  <2>3. QED
    BY <2>1, <2>2, <1>3 DEF Arg
<1>5. Size(t, i) = Arg(t, c, 0) + Arg(t, c, 1) + 4
  BY DEF Size
<1>6. t.first[i] + (Size(t, i) - 1) = t.first[i] + Size(t, i) - 1
  BY <1>2, <1>4, <1>5
<1>7. QED
  BY <1>1, <1>3, <1>4, <1>5, <1>6 DEF Arg

LEMMA CSkipCounted ==
  ASSUME NEW t, WellFormed(t), NEW i \in Op(t), t.op_rec_[i].op = "CSkip"
  PROVE  /\ Arg(t, At(t, i), 4) \in Nat /\ Arg(t, At(t, i), 5) \in Nat
         /\ Size(t, i) = 7 + Arg(t, At(t, i), 4) + Arg(t, At(t, i), 5)
         /\ t.op_arg_rec_[t.first[i] + Size(t, i) - 1]
              = Arg(t, At(t, i), 4) + Arg(t, At(t, i), 5)
         /\ \A k \in CSkipAt(t, At(t, i)).if_true \union CSkipAt(t, At(t, i)).if_false :
              k \in Op(t) => t.op_rec_[k].op \in Computing
<1> DEFINE c == At(t, i)
<1>1. /\ t.first[i] + 6 < t.num_op_arg_rec
      /\ Arg(t, c, Size(t, i) - 1) = Arg(t, c, 4) + Arg(t, c, 5)
      /\ \A k \in CSkipAt(t, c).if_true \union CSkipAt(t, c).if_false :
           k < t.num_op_rec => t.op_rec_[k].op \in Computing
  BY DEF WellFormed, Counted, Op
<1>2. t.num_op_arg_rec \in Nat /\ t.first[i] \in Nat
      /\ t.op_arg_rec_ \in [0 .. t.num_op_arg_rec - 1 -> Nat]
  BY Placed DEF WellFormed, Vectors
<1>3. c.op_arg_ = t.first[i]
  BY DEF At
<1>4. Arg(t, c, 4) \in Nat /\ Arg(t, c, 5) \in Nat
  <2>1. \A j \in 0 .. t.num_op_arg_rec - 1 : t.op_arg_rec_[j] \in Nat
    BY <1>2
  <2>2. /\ t.first[i] + 4 \in 0 .. t.num_op_arg_rec - 1
        /\ t.first[i] + 5 \in 0 .. t.num_op_arg_rec - 1
    <3> DEFINE n == t.num_op_arg_rec
               a == t.first[i]
    <3>1. n \in Nat /\ a \in Nat /\ a + 6 < n
      BY <1>1, <1>2
    <3> HIDE DEF n, a
    <3>2. a + 4 \in 0 .. n - 1 /\ a + 5 \in 0 .. n - 1
      BY <3>1
    <3>3. QED
      BY <3>2 DEF n, a
  <2>3. QED
    BY <2>1, <2>2, <1>3 DEF Arg
<1>5. Size(t, i) = 7 + Arg(t, c, 4) + Arg(t, c, 5)
  BY DEF Size
<1>6. t.first[i] + (Size(t, i) - 1) = t.first[i] + Size(t, i) - 1
  BY <1>2, <1>4, <1>5
<1>7. \A k \in Op(t) : k < t.num_op_rec
  BY Placed DEF Op
<1>8. QED
  BY <1>1, <1>3, <1>4, <1>5, <1>6, <1>7 DEF Arg

LEMMA FixedSize ==
  ASSUME NEW t, NEW i, t.op_rec_[i].op \notin Optimized
  PROVE  Size(t, i) = NumArg(t.op_rec_[i])
  BY DEF Size, Optimized

LEMMA OptimizedNumArg ==
  ASSUME NEW code, code.op \in Optimized
  PROVE  NumArg(code) = 0
  BY DEF NumArg, Optimized

-----------------------------------------------------------------------------
-----------------------------------------------------------------------------
(* Results. *)

(* Results come one after the other. *)
LEMMA ResultsOrdered ==
  ASSUME NEW t, WellFormed(t), NEW i \in Op(t)
  PROVE  /\ t.last[i] \in Address(t)
         /\ \A k \in Op(t) :
              i < k => t.last[i] + NumRes(t.op_rec_[k].op) <= t.last[k]
<1> DEFINE e == t.num_op_rec - 1
<1>1. /\ t.num_op_rec \in Nat /\ t.num_var_rec \in Nat /\ t.last[i] \in Nat
      /\ e \in Op(t) /\ t.last[e] = t.num_var_rec - 1
      /\ NumRes(t.op_rec_[e].op) \in 0 .. 2
  <2>1. e \in Op(t)
    BY Placed DEF Op
  <2>2. QED
    BY <2>1, Placed DEF WellFormed, Adjacent
<1>2. \A k \in Op(t) :
        i < k => t.last[i] + NumRes(t.op_rec_[k].op) <= t.last[k]
  <2>1. \A k \in i + 1 .. e : t.last[i] + NumRes(t.op_rec_[k].op) <= t.last[k]
    BY DEF WellFormed, Ordered, Op
  <2>2. QED
    BY <1>1, <2>1 DEF Op
<1>3. t.last[i] <= t.last[e]
  <2>1. CASE i = e
    BY <2>1, <1>1
  <2>2. CASE i < e
    BY <2>2, <1>1, <1>2
  <2>3. QED
    BY <2>1, <2>2, <1>1 DEF Op
<1>4. QED
  BY <1>1, <1>2, <1>3 DEF Address

(* The instruction of an operator that computes a variable. *)
LEMMA Computed ==
  ASSUME NEW t, WellFormed(t), NEW i \in Op(t), t.op_rec_[i].op \in Computing,
         NEW ins, ins = Instr(t, At(t, i))
  PROVE  /\ ins.res = t.last[i] /\ ins.res \in Address(t) /\ ins.res \in Nat
         /\ NumRes(ins.op) = NumRes(t.op_rec_[i].op)
         /\ NumRes(ins.op) \in {1, 2}
         /\ ins.op \in TwoResults <=> NumRes(ins.op) = 2
         /\ ins.res - NumRes(ins.op) \in Nat
         /\ ArgsValid(ins, Len(t.par_rec_))
<1>1. /\ ins.res = t.last[i]
      /\ t.op_rec_[i].op # "CExp" => ins.op = t.op_rec_[i].op
  <2>1. t.op_rec_[i].op # "CSkip" /\ OpAt(t, At(t, i)) = t.op_rec_[i]
    BY OpCodes DEF OpAt, At
  <2>2. QED
    BY <2>1 DEF Instr, CondExpAt, CSumAt, At
<1>2. /\ t.op_rec_[i].op = "CExp" => ins.op \in CondExp
      /\ ArgsValid(ins, Len(t.par_rec_))
  BY DEF WellFormed, Ordered, Op
<1>3. t.last[i] \in Nat /\ t.last[i] \in Address(t)
  BY ResultsOrdered, Placed
<1>4. /\ NumRes(ins.op) = NumRes(t.op_rec_[i].op)
      /\ NumRes(ins.op) \in {1, 2} /\ (ins.op \in TwoResults <=> NumRes(ins.op) = 2)
  <2>1. t.op_rec_[i].op \notin Comparison \union {"End", "CSkip"}
    BY OpCodes
  <2>2. CASE t.op_rec_[i].op = "CExp"
    <3>1. ins.op \notin TwoResults \union Comparison \union {"End", "CSkip"}
      BY <2>2, <1>2, OpCodes DEF CondExp, Comparison
    <3>2. t.op_rec_[i].op \notin TwoResults
      BY <2>2, OpCodes
    <3>3. QED
      BY <2>1, <3>1, <3>2 DEF NumRes
  <2>3. CASE t.op_rec_[i].op # "CExp"
    BY <2>1, <2>3, <1>1 DEF NumRes
  <2>4. QED
    BY <2>2, <2>3
<1>5. ins.res - NumRes(ins.op) \in Nat
  <2>1. i # 0
    BY Placed, OpCodes
  <2>2. i - 1 \in Op(t) /\ (i - 1) + 1 = i
    BY <2>1, Placed DEF Op
  <2>3. t.last[i] = t.last[i - 1] + NumRes(t.op_rec_[i].op)
    BY <2>2, NextPlaced
  <2>4. t.last[i - 1] \in Nat
    BY <2>2, Placed
  <2>5. QED
    BY <2>3, <2>4, <1>1, <1>4
<1>6. QED
  BY <1>1, <1>2, <1>3, <1>4, <1>5

(* ins computes a variable of tape t. *)
Computes(t, ins) ==
  /\ t.num_var_rec \in Nat /\ ins.res \in Address(t) /\ ins.res \in Nat
  /\ NumRes(ins.op) \in {1, 2}
  /\ ins.op \in TwoResults <=> NumRes(ins.op) = 2
  /\ ins.res - NumRes(ins.op) \in Nat
  /\ ArgsValid(ins, Len(t.par_rec_))

-----------------------------------------------------------------------------
-----------------------------------------------------------------------------
(* Induction over data: the prover has none, but a set of natural numbers  *)
(* that is not empty has a least element.                                  *)
LEMMA LeastNatural ==
  ASSUME NEW S, S \subseteq Nat, S # {}
  PROVE  \E n \in S : \A m \in S : n <= m
<1>1. PICK n : n \in S /\ \A m \in S : ~ (<<m, n>> \in OpToRel(<, Nat))
  BY NatLessThanWellFounded, WFMin, Zenon
<1>2. n \in S
  BY <1>1, Zenon
<1>3. \A m \in S : ~ (m < n)
  BY <1>1 DEF OpToRel
<1>4. QED
  BY <1>2, <1>3

(* Up to n, in steps of one. *)
LEMMA UpTo ==
  ASSUME NEW n \in Nat, NEW T, 0 \in T,
         \A k \in 1 .. n : k - 1 \in T => k \in T
  PROVE  \A k \in 0 .. n : k \in T
<1> DEFINE S == {k \in 0 .. n : k \notin T}
<1>1. SUFFICES ASSUME S # {} PROVE FALSE
  OBVIOUS
<1>2. PICK k \in S : \A m \in S : k <= m
  <2>1. S \subseteq Nat
    OBVIOUS
  <2> HIDE DEF S
  <2>2. QED
    BY <1>1, <2>1, LeastNatural
<1>3. k # 0
  OBVIOUS
<1>4. k \in 1 .. n /\ k - 1 \in 0 .. n /\ k - 1 \notin S
  BY <1>2, <1>3
<1>5. QED
  BY <1>4

(* Down from n. *)
LEMMA DownFrom ==
  ASSUME NEW n \in Nat, NEW T, n \in T,
         \A k \in 1 .. n : k \in T => k - 1 \in T
  PROVE  \A k \in 0 .. n : k \in T
<1> DEFINE U == {k \in 0 .. n : n - k \in T}
<1>1. 0 \in U
  OBVIOUS
<1>2. ASSUME NEW k \in 1 .. n, k - 1 \in U
      PROVE  k \in U
  <2>1. n - (k - 1) \in T /\ n - (k - 1) \in 1 .. n /\ (n - (k - 1)) - 1 = n - k
    BY <1>2
  <2>2. QED
    BY <2>1
<1> HIDE DEF U
<1>3. \A k \in 0 .. n : k \in U
  BY <1>1, <1>2, UpTo
<1>4. \A k \in 0 .. n : n - k \in 0 .. n /\ n - (n - k) = k
  OBVIOUS
<1>5. QED
  BY <1>3, <1>4 DEF U

-----------------------------------------------------------------------------
(* Folds. *)

LEMMA Largest ==
  ASSUME NEW n \in Nat, NEW t, t \subseteq 1 .. n, t # {}
  PROVE  Max(t) \in t /\ \A k \in t : k <= Max(t)
<1> DEFINE S == {k \in 0 .. n : n - k \in t}
<1>1. S # {} /\ S \subseteq Nat
  <2>1. PICK k \in t : TRUE
    OBVIOUS
  <2>2. n - k \in 0 .. n /\ n - (n - k) = k
    BY <2>1
  <2>3. QED
    BY <2>1, <2>2
<1>2. \A m \in t : n - m \in S
  OBVIOUS
<1>3. PICK k \in S : \A m \in S : k <= m
  <2> HIDE DEF S
  <2>1. QED
    BY <1>1, LeastNatural
<1>4. \A m \in t : m <= n - k
  BY <1>3, <1>2
<1>5. \E x \in t : \A y \in t : x >= y
  BY <1>3, <1>4
<1>6. QED
  BY <1>5 DEF Max

LEMMA LargestOfInterval ==
  ASSUME NEW n \in Nat, NEW k \in 1 .. n
  PROVE  /\ Max(1 .. k) = k /\ (1 .. k) \ {k} = 1 .. k - 1
         /\ 1 .. k \in SUBSET (1 .. n)
<1>1. 1 .. k \subseteq 1 .. n /\ k \in 1 .. k
  OBVIOUS
<1>2. Max(1 .. k) \in 1 .. k /\ k <= Max(1 .. k)
  BY <1>1, Largest
<1>3. QED
  BY <1>1, <1>2

(* The function that a fold is computed by: of each part of the indices,   *)
(* what the elements there come to.                                        *)
Iterates(it, n, b, F) ==
  it = [t \in SUBSET (1 .. n) |->
          IF t = {} THEN b ELSE F[<<it[t \ {Max(t)}], Max(t)>>]]

LEMMA Iterated ==
  ASSUME NEW n \in Nat, NEW S, NEW b \in S, NEW F \in [S \X (1 .. n) -> S]
  PROVE  \E it \in [SUBSET (1 .. n) -> S] : Iterates(it, n, b, F)
<1> DEFINE T == {m \in 0 .. n : \E it \in [SUBSET (1 .. m) -> S] :
                                  Iterates(it, m, b, F)}
<1>1. 0 \in T
  <2> DEFINE it == [t \in SUBSET (1 .. 0) |-> b]
  <2>1. it \in [SUBSET (1 .. 0) -> S]
    OBVIOUS
  <2>2. \A t \in SUBSET (1 .. 0) : t = {}
    OBVIOUS
  <2>3. it = [t \in SUBSET (1 .. 0) |->
          IF t = {} THEN b ELSE F[<<it[t \ {Max(t)}], Max(t)>>]]
    BY <2>2
  <2>4. Iterates(it, 0, b, F)
    BY <2>3 DEF Iterates
  <2>5. QED
    BY <2>1, <2>4
<1>2. ASSUME NEW m \in 1 .. n, m - 1 \in T
      PROVE  m \in T
  <2>1. PICK it \in [SUBSET (1 .. m - 1) -> S] : Iterates(it, m - 1, b, F)
    BY <1>2
  <2> DEFINE at == [t \in SUBSET (1 .. m) |->
                      IF m \in t THEN F[<<it[t \ {m}], m>>] ELSE it[t]]
  <2>2. \A t \in SUBSET (1 .. m) : t \ {m} \in SUBSET (1 .. m - 1)
    OBVIOUS
  <2>3. \A t \in SUBSET (1 .. m) : m \notin t => t \in SUBSET (1 .. m - 1)
    OBVIOUS
  <2>4. at \in [SUBSET (1 .. m) -> S]
    <3>1. ASSUME NEW t \in SUBSET (1 .. m)
          PROVE  (IF m \in t THEN F[<<it[t \ {m}], m>>] ELSE it[t]) \in S
      <4>1. it[t \ {m}] \in S
        BY <2>2
      <4>2. m \notin t => it[t] \in S
        BY <2>3
      <4>3. QED
        BY <4>1, <4>2
    <3>2. QED
      BY <3>1
  <2>5. ASSUME NEW t \in SUBSET (1 .. m), t # {}
        PROVE  at[t] = F[<<at[t \ {Max(t)}], Max(t)>>]
    <3>1. CASE m \in t
      <4>1. Max(t) \in t /\ m <= Max(t)
        <5>1. m \in Nat /\ t \subseteq 1 .. m
          OBVIOUS
        <5>2. QED
          BY <3>1, <5>1, Largest
      <4>2. Max(t) = m
        <5>1. Max(t) \in 1 .. m
          BY <4>1
        <5>2. QED
          BY <4>1, <5>1
      <4>3. m \notin t \ {m} /\ t \ {m} \in SUBSET (1 .. m)
        OBVIOUS
      <4>4. at[t \ {m}] = it[t \ {m}]
        BY <4>3
      <4>5. QED
        BY <3>1, <4>2, <4>4
    <3>2. CASE m \notin t
      <4>1. t \in SUBSET (1 .. m - 1) /\ m - 1 \in Nat
        BY <3>2, <2>3
      <4>2. it[t] = F[<<it[t \ {Max(t)}], Max(t)>>]
        BY <2>1, <2>5, <4>1 DEF Iterates
      <4>3. m \notin t \ {Max(t)} /\ t \ {Max(t)} \in SUBSET (1 .. m)
        BY <3>2
      <4>4. at[t \ {Max(t)}] = it[t \ {Max(t)}]
        BY <4>3
      <4>5. QED
        BY <3>2, <4>2, <4>4
    <3>3. QED
      BY <3>1, <3>2
  <2>6. at[{}] = b
    <3>1. it[{}] = b
      BY <2>1 DEF Iterates
    <3>2. QED
      BY <3>1
  <2> HIDE DEF at
  <2>7. Iterates(at, m, b, F)
    BY <2>4, <2>5, <2>6 DEF Iterates
  <2>8. QED
    BY <2>4, <2>7
<1> HIDE DEF T
<1>3. n \in T
  BY <1>1, <1>2, UpTo
<1>4. QED
  BY <1>3 DEF T

(* Numbers are closed under arithmetic. *)
LEMMA Closed ==
  /\ \A m, n \in Num : /\ m ++ n \in Num /\ m -- n \in Num
                       /\ m ** n \in Num /\ m // n \in Num
  /\ \A m \in Num : Minus(m) \in Num /\ Sign(m) \in Num
  /\ Zero \in Num /\ One \in Num
<1>1. \A m, n \in Num : /\ m ++ n \in Num /\ m -- n \in Num
                        /\ m ** n \in Num /\ m // n \in Num
  BY CalcAssumption DEF Binary, ++, --, **, //
<1>2. \A m \in Num : Minus(m) \in Num
  BY <1>1, NumAssumption DEF Minus
<1>3. \A m \in Num : Sign(m) \in Num
  BY <1>2, NumAssumption DEF Sign
<1>4. QED
  BY <1>1, <1>2, <1>3, NumAssumption

PlusOver(b, s) == FoldLeft(LAMBDA m, n : m ++ n, b, s)
MinusOver(b, s) == FoldLeft(LAMBDA m, n : m -- n, b, s)

(* The partial results of a fold. *)
Sums(n, b, s, g) ==
  /\ g \in [0 .. n -> Num] /\ g[0] = b
  /\ \A k \in 1 .. n : g[k] = g[k - 1] ++ s[k]
Differences(n, b, s, g) ==
  /\ g \in [0 .. n -> Num] /\ g[0] = b
  /\ \A k \in 1 .. n : g[k] = g[k - 1] -- s[k]

LEMMA PlusFold ==
  ASSUME NEW n \in Nat, NEW b \in Num, NEW s \in [1 .. n -> Num]
  PROVE  \E g : Sums(n, b, s, g) /\ PlusOver(b, s) = g[n]
<1> DEFINE F == [p \in Num \X (1 .. n) |-> p[1] ++ s[p[2]]]
           P(it) == it = [t \in SUBSET DOMAIN s |->
                            IF t = {} THEN b
                            ELSE LET x == Max(t) IN it[t \ {x}] ++ s[x]]
<1>1. F \in [Num \X (1 .. n) -> Num]
  BY Closed
<1>2. \A m \in Num, k \in 1 .. n : F[<<m, k>>] = m ++ s[k]
  OBVIOUS
<1> HIDE DEF F
<1>3. PICK at \in [SUBSET (1 .. n) -> Num] : Iterates(at, n, b, F)
  BY <1>1, Iterated
<1>4. P(at)
  <2>1. ASSUME NEW t \in SUBSET (1 .. n), t # {}
        PROVE  at[t] = at[t \ {Max(t)}] ++ s[Max(t)]
    <3>1. Max(t) \in 1 .. n /\ t \ {Max(t)} \in SUBSET (1 .. n)
      BY <2>1, Largest
    <3>2. at[t \ {Max(t)}] \in Num
      BY <3>1
    <3>3. at[t] = F[<<at[t \ {Max(t)}], Max(t)>>]
      BY <1>3, <2>1 DEF Iterates
    <3>4. QED
      BY <1>2, <3>1, <3>2, <3>3
  <2>2. at[{}] = b
    BY <1>3 DEF Iterates
  <2>3. QED
    BY <2>1, <2>2
<1>5. PlusOver(b, s) = (CHOOSE it : P(it))[DOMAIN s]
  BY DEF PlusOver, FoldLeft, MapThenFoldSet
<1>6. PICK it : P(it) /\ PlusOver(b, s) = it[1 .. n]
  <2> HIDE DEF P
  <2>1. QED
    BY <1>4, <1>5
<1> DEFINE g == [k \in 0 .. n |-> it[1 .. k]]
<1>7. g[0] = b
  <2>1. 1 .. 0 = {} /\ {} \in SUBSET DOMAIN s
    OBVIOUS
  <2>2. it[{}] = b
    BY <1>6, <2>1
  <2>3. QED
    BY <2>1, <2>2
<1>8. \A k \in 1 .. n : g[k] = g[k - 1] ++ s[k]
  <2>1. SUFFICES ASSUME NEW k \in 1 .. n
                 PROVE  g[k] = g[k - 1] ++ s[k]
    OBVIOUS
  <2>2. Max(1 .. k) = k /\ (1 .. k) \ {k} = 1 .. k - 1 /\ 1 .. k \in SUBSET DOMAIN s
        /\ 1 .. k # {}
    <3>1. Max(1 .. k) = k /\ (1 .. k) \ {k} = 1 .. k - 1 /\ 1 .. k \in SUBSET (1 .. n)
      BY LargestOfInterval
    <3>2. DOMAIN s = 1 .. n /\ 1 .. k # {}
      OBVIOUS
    <3>3. QED
      BY <3>1, <3>2
  <2>3. it[1 .. k] = it[1 .. k - 1] ++ s[k]
    BY <1>6, <2>2
  <2>4. QED
    BY <2>3
<1>9. g \in [0 .. n -> Num]
  <2> DEFINE T == {k \in 0 .. n : g[k] \in Num}
  <2>1. 0 \in T
    BY <1>7
  <2>2. ASSUME NEW k \in 1 .. n, k - 1 \in T
        PROVE  k \in T
    BY <1>8, <2>2, Closed
  <2> HIDE DEF T
  <2>3. \A k \in 0 .. n : k \in T
    BY <2>1, <2>2, UpTo
  <2>4. QED
    BY <2>3 DEF T
<1>10. PlusOver(b, s) = g[n]
  BY <1>6
<1> HIDE DEF g
<1>11. QED
  BY <1>7, <1>8, <1>9, <1>10 DEF Sums

LEMMA MinusFold ==
  ASSUME NEW n \in Nat, NEW b \in Num, NEW s \in [1 .. n -> Num]
  PROVE  \E g : Differences(n, b, s, g) /\ MinusOver(b, s) = g[n]
<1> DEFINE F == [p \in Num \X (1 .. n) |-> p[1] -- s[p[2]]]
           P(it) == it = [t \in SUBSET DOMAIN s |->
                            IF t = {} THEN b
                            ELSE LET x == Max(t) IN it[t \ {x}] -- s[x]]
<1>1. F \in [Num \X (1 .. n) -> Num]
  BY Closed
<1>2. \A m \in Num, k \in 1 .. n : F[<<m, k>>] = m -- s[k]
  OBVIOUS
<1> HIDE DEF F
<1>3. PICK at \in [SUBSET (1 .. n) -> Num] : Iterates(at, n, b, F)
  BY <1>1, Iterated
<1>4. P(at)
  <2>1. ASSUME NEW t \in SUBSET (1 .. n), t # {}
        PROVE  at[t] = at[t \ {Max(t)}] -- s[Max(t)]
    <3>1. Max(t) \in 1 .. n /\ t \ {Max(t)} \in SUBSET (1 .. n)
      BY <2>1, Largest
    <3>2. at[t \ {Max(t)}] \in Num
      BY <3>1
    <3>3. at[t] = F[<<at[t \ {Max(t)}], Max(t)>>]
      BY <1>3, <2>1 DEF Iterates
    <3>4. QED
      BY <1>2, <3>1, <3>2, <3>3
  <2>2. at[{}] = b
    BY <1>3 DEF Iterates
  <2>3. QED
    BY <2>1, <2>2
<1>5. MinusOver(b, s) = (CHOOSE it : P(it))[DOMAIN s]
  BY DEF MinusOver, FoldLeft, MapThenFoldSet
<1>6. PICK it : P(it) /\ MinusOver(b, s) = it[1 .. n]
  <2> HIDE DEF P
  <2>1. QED
    BY <1>4, <1>5
<1> DEFINE g == [k \in 0 .. n |-> it[1 .. k]]
<1>7. g[0] = b
  <2>1. 1 .. 0 = {} /\ {} \in SUBSET DOMAIN s
    OBVIOUS
  <2>2. it[{}] = b
    BY <1>6, <2>1
  <2>3. QED
    BY <2>1, <2>2
<1>8. \A k \in 1 .. n : g[k] = g[k - 1] -- s[k]
  <2>1. SUFFICES ASSUME NEW k \in 1 .. n
                 PROVE  g[k] = g[k - 1] -- s[k]
    OBVIOUS
  <2>2. Max(1 .. k) = k /\ (1 .. k) \ {k} = 1 .. k - 1 /\ 1 .. k \in SUBSET DOMAIN s
        /\ 1 .. k # {}
    <3>1. Max(1 .. k) = k /\ (1 .. k) \ {k} = 1 .. k - 1 /\ 1 .. k \in SUBSET (1 .. n)
      BY LargestOfInterval
    <3>2. DOMAIN s = 1 .. n /\ 1 .. k # {}
      OBVIOUS
    <3>3. QED
      BY <3>1, <3>2
  <2>3. it[1 .. k] = it[1 .. k - 1] -- s[k]
    BY <1>6, <2>2
  <2>4. QED
    BY <2>3
<1>9. g \in [0 .. n -> Num]
  <2> DEFINE T == {k \in 0 .. n : g[k] \in Num}
  <2>1. 0 \in T
    BY <1>7
  <2>2. ASSUME NEW k \in 1 .. n, k - 1 \in T
        PROVE  k \in T
    <3>1. g[k - 1] \in Num /\ s[k] \in Num /\ k \in 0 .. n
      BY <2>2
    <3>2. g[k] = g[k - 1] -- s[k]
      BY <1>8
    <3> HIDE DEF g
    <3>3. g[k - 1] -- s[k] \in Num
      BY <3>1, Closed
    <3>4. g[k] \in Num
      BY <3>2, <3>3
    <3>5. QED
      BY <3>1, <3>4
  <2> HIDE DEF T
  <2>3. \A k \in 0 .. n : k \in T
    BY <2>1, <2>2, UpTo
  <2>4. QED
    BY <2>3 DEF T
<1>10. MinusOver(b, s) = g[n]
  BY <1>6
<1> HIDE DEF g
<1>11. QED
  BY <1>7, <1>8, <1>9, <1>10 DEF Differences

-----------------------------------------------------------------------------
(* Instructions and their operands. *)

LEMMA SizeCounts ==
  ASSUME NEW t, WellFormed(t), NEW i \in Op(t)
  PROVE  Size(t, i) \in Nat
<1>1. CASE t.op_rec_[i].op = "CSum"
  BY <1>1, CSumCounted
<1>2. CASE t.op_rec_[i].op = "CSkip"
  BY <1>2, CSkipCounted
<1>3. CASE t.op_rec_[i].op \notin Optimized
  BY <1>3, FixedSize, Placed
<1>4. QED
  BY <1>1, <1>2, <1>3 DEF Optimized

(* The arguments of an operator are on the tape. *)
LEMMA ArgumentsPlaced ==
  ASSUME NEW t, WellFormed(t), NEW i \in Op(t)
  PROVE  /\ t.num_op_arg_rec \in Nat
         /\ t.first[i] \in 0 .. t.num_op_arg_rec
         /\ i + 1 \in Op(t) => t.first[i] + Size(t, i) \in 0 .. t.num_op_arg_rec
<1> DEFINE e == t.num_op_rec - 1
           T == {k \in 0 .. e : t.first[k] <= t.num_op_arg_rec}
<1>1. e \in Nat /\ t.num_op_arg_rec \in Nat /\ t.first[e] = t.num_op_arg_rec
      /\ \A k \in 0 .. e : k \in Op(t)
  BY Placed DEF WellFormed, Vectors, Adjacent, Op
<1>2. \A k \in 0 .. e : t.first[k] \in Nat
  BY <1>1, Placed
<1>3. e \in T
  BY <1>1, <1>2
<1>4. ASSUME NEW k \in 1 .. e, k \in T
      PROVE  k - 1 \in T
  <2>1. k - 1 \in 0 .. e /\ (k - 1) + 1 = k /\ k \in 0 .. e
    BY <1>1
  <2>2. k - 1 \in Op(t) /\ k \in Op(t)
    BY <1>1, <2>1
  <2>3. t.first[k] = t.first[k - 1] + Size(t, k - 1)
    BY <2>1, <2>2, NextPlaced
  <2>4. t.first[k] \in Nat /\ t.first[k - 1] \in Nat /\ Size(t, k - 1) \in Nat
    BY <1>2, <2>1, <2>2, SizeCounts
  <2>5. QED
    BY <1>1, <1>4, <2>1, <2>3, <2>4
<1> HIDE DEF T
<1>5. \A k \in 0 .. e : k \in T
  BY <1>1, <1>3, <1>4, DownFrom
<1>6. \A k \in Op(t) : t.first[k] <= t.num_op_arg_rec /\ t.first[k] \in Nat
  BY <1>2, <1>5 DEF T, Op
<1>7. i + 1 \in Op(t) => t.first[i + 1] = t.first[i] + Size(t, i)
  BY NextPlaced
<1>8. QED
  BY <1>1, <1>6, <1>7

(* What an instruction that computes a variable looks like. *)
Shaped(t, ins) ==
  /\ \/ ins.op \in Binary /\ DOMAIN ins.arg = 1 .. 2
     \/ ins.op \in Unary /\ DOMAIN ins.arg = 1 .. 1
     \/ ins.op = "Par" /\ DOMAIN ins.arg = 1 .. 1 /\ ins.kind[1] = "p"
     \/ ins.op \in CondExp /\ DOMAIN ins.arg = 1 .. 4
     \/ /\ ins.op = "CSum" /\ ins.add \in Nat
        /\ \E n \in Nat : ins.add <= n /\ DOMAIN ins.arg = 1 .. n + 1
        /\ \A j \in DOMAIN ins.arg : ins.kind[j] = "p" <=> j = 1
  /\ \A j \in DOMAIN ins.arg : ins.kind[j] \in {"v", "p"}
  /\ \A j \in DOMAIN ins.arg :
       ins.kind[j] = "p" => /\ ins.arg[j] \in Nat
                            /\ ins.arg[j] + 1 \in 1 .. Len(t.par_rec_)

LEMMA ArgIsNatural ==
  ASSUME NEW t, WellFormed(t), NEW i \in Op(t), i + 1 \in Op(t),
         NEW k \in Nat, k < Size(t, i)
  PROVE  Arg(t, At(t, i), k) \in Nat
<1>1. /\ t.num_op_arg_rec \in Nat /\ t.first[i] \in Nat /\ Size(t, i) \in Nat
      /\ t.first[i] + Size(t, i) <= t.num_op_arg_rec
  BY ArgumentsPlaced, SizeCounts
<1>2. t.op_arg_rec_ \in [0 .. t.num_op_arg_rec - 1 -> Nat]
  BY DEF WellFormed, Vectors
<1>3. t.first[i] + k \in 0 .. t.num_op_arg_rec - 1
  BY <1>1
<1>4. QED
  BY <1>2, <1>3 DEF Arg, At

LEMMA ComputingShaped ==
  ASSUME NEW t, WellFormed(t), NEW i \in Op(t), t.op_rec_[i].op \in Computing,
         NEW ins, ins = Instr(t, At(t, i))
  PROVE  Shaped(t, ins)
<1> DEFINE code == t.op_rec_[i]
           c == At(t, i)
<1>1. /\ code \in OpCodeRec /\ OpAt(t, c) = code /\ i # t.num_op_rec - 1
      /\ code.op \notin {"Begin", "Inv", "CSkip", "End"} \union Comparison
  BY Placed, OpCodes DEF OpAt, At
<1>2. i + 1 \in Op(t)
  BY <1>1, Placed DEF Op
<1>3. ArgsValid(ins, Len(t.par_rec_))
  BY Computed
<1>4. \A k \in Nat : k < Size(t, i) => Arg(t, c, k) \in Nat
  BY <1>2, ArgIsNatural
<1>5. Len(t.par_rec_) \in Nat
  BY DEF WellFormed, Vectors
<1>6. CASE code.op = "CSum"
  <2> DEFINE sum == Arg(t, c, 0) + Arg(t, c, 1)
  <2>1. /\ Arg(t, c, 0) \in Nat /\ Arg(t, c, 1) \in Nat
        /\ Size(t, i) = Arg(t, c, 0) + Arg(t, c, 1) + 4
    BY <1>6, CSumCounted
  <2>2. ins = CSumAt(t, c)
    BY <1>1, <1>6 DEF Instr
  <2>3. /\ ins.op = "CSum" /\ ins.add = Arg(t, c, 0)
        /\ ins.kind = [k \in 1 .. sum + 1 |-> IF k = 1 THEN "p" ELSE "v"]
        /\ ins.arg = [k \in 1 .. sum + 1 |-> Arg(t, c, k + 1)]
    BY <2>2 DEF CSumAt
  <2>4. sum \in Nat /\ ins.add <= sum /\ Size(t, i) = sum + 4
    BY <2>1, <2>3
  <2> HIDE DEF sum, c
  <2>5. DOMAIN ins.arg = 1 .. sum + 1
    BY <2>3
  <2>6. \A j \in DOMAIN ins.arg : ins.arg[j] \in Nat
    <3>1. SUFFICES ASSUME NEW j \in 1 .. sum + 1 PROVE ins.arg[j] \in Nat
      BY <2>5
    <3>2. j + 1 \in Nat /\ j + 1 < Size(t, i)
      BY <2>4
    <3>3. Arg(t, c, j + 1) \in Nat
      BY <1>4, <3>2
    <3>4. QED
      BY <2>3, <3>3
  <2>7. \A j \in DOMAIN ins.arg : /\ ins.kind[j] = "p" <=> j = 1
                                  /\ ins.kind[j] \in {"v", "p"}
    BY <2>3, <2>5
  <2>8. \A j \in DOMAIN ins.arg : ins.kind[j] = "p" => ins.arg[j] < Len(t.par_rec_)
    BY <1>3, <2>7 DEF ArgsValid
  <2>9. \A j \in DOMAIN ins.arg :
          ins.kind[j] = "p" => /\ ins.arg[j] \in Nat
                               /\ ins.arg[j] + 1 \in 1 .. Len(t.par_rec_)
    BY <1>5, <2>6, <2>8
  <2>10. \E n \in Nat : ins.add <= n /\ DOMAIN ins.arg = 1 .. n + 1
    BY <2>4, <2>5
  <2>11. QED
    BY <2>1, <2>3, <2>7, <2>9, <2>10 DEF Shaped
<1>7. CASE code.op = "CExp"
  <2>1. ins = CondExpAt(t, c) /\ Size(t, i) = 6
    <3>1. ins = CondExpAt(t, c)
      BY <1>1, <1>7 DEF Instr
    <3>2. Size(t, i) = NumArg(code)
      BY <1>7, FixedSize DEF Optimized
    <3>3. NumArg(code) = 6
      BY <1>7 DEF NumArg, Optimized
    <3>4. QED
      BY <3>1, <3>2, <3>3
  <2>2. ins.op \in CondExp
    BY <1>7 DEF WellFormed, Ordered, Op
  <2>3. /\ ins.arg = [k \in 1 .. 4 |-> Arg(t, c, k + 1)]
        /\ ins.kind = Kinds(Arg(t, c, 1), 4)
    BY <2>1 DEF CondExpAt
  <2> HIDE DEF c
  <2>4. DOMAIN ins.arg = 1 .. 4 /\ \A j \in 1 .. 4 : ins.kind[j] \in {"v", "p"}
    BY <2>3 DEF Kinds
  <2>5. \A j \in 1 .. 4 : ins.arg[j] \in Nat
    BY <1>4, <2>1, <2>3
  <2>6. \A j \in 1 .. 4 : ins.kind[j] = "p" => ins.arg[j] < Len(t.par_rec_)
    BY <1>3, <2>4 DEF ArgsValid
  <2>7. \A j \in 1 .. 4 :
          ins.kind[j] = "p" => ins.arg[j] + 1 \in 1 .. Len(t.par_rec_)
    <3>1. SUFFICES ASSUME NEW j \in 1 .. 4, ins.kind[j] = "p"
                   PROVE  ins.arg[j] + 1 \in 1 .. Len(t.par_rec_)
      OBVIOUS
    <3>2. ins.arg[j] \in Nat /\ ins.arg[j] < Len(t.par_rec_)
      BY <2>5, <2>6, <3>1
    <3>3. QED
      BY <1>5, <3>2
  <2>8. QED
    BY <2>2, <2>4, <2>5, <2>7 DEF Shaped
<1>8. CASE code.op \notin {"CSum", "CExp"}
  <2>1. code.op \in Binary \union Unary \union {"Par"}
    <3>1. code.op \notin CondExp
      BY <1>1, <1>8 DEF OpCodeRec, Optimized
    <3>2. QED
      BY <1>8, <3>1 DEF Computing
  <2>2. ins = [op |-> code.op, kind |-> code.kind,
               arg |-> [k \in DOMAIN code.kind |-> Arg(t, c, k - 1)],
               res |-> c.var_index_]
    BY <1>1, <1>8 DEF Instr
  <2>3. code.kind \in OperandKinds(code.op) /\ code.kind \in Seq({"v", "p"})
    BY <1>1 DEF OpCodeRec
  <2>4. /\ code.op \in Binary => DOMAIN code.kind = 1 .. 2
        /\ code.op \in Unary => DOMAIN code.kind = 1 .. 1
        /\ code.op = "Par" => DOMAIN code.kind = 1 .. 1 /\ code.kind[1] = "p"
    BY <2>3, UnaryAssumption DEF OperandKinds, Binary, Comparison
  <2>5. DOMAIN code.kind = 1 .. Len(code.kind) /\ Len(code.kind) \in Nat
        /\ \A j \in DOMAIN code.kind : code.kind[j] \in {"v", "p"}
    BY <2>3
  <2>6. Size(t, i) = Len(code.kind)
    BY <1>1, <1>8 DEF Size, NumArg, Optimized
  <2>7. /\ ins.op = code.op /\ ins.kind = code.kind /\ DOMAIN ins.arg = DOMAIN code.kind
        /\ \A j \in DOMAIN code.kind : ins.arg[j] = Arg(t, c, j - 1)
    BY <2>2
  <2> HIDE DEF c, code
  <2>8. \A j \in DOMAIN code.kind : j - 1 \in Nat /\ j - 1 < Size(t, i)
    BY <2>5, <2>6
  <2>9. \A j \in DOMAIN code.kind : ins.arg[j] \in Nat
    BY <1>4, <2>7, <2>8
  <2>10. \A j \in DOMAIN code.kind : ins.kind[j] = "p" => ins.arg[j] < Len(t.par_rec_)
    BY <1>3, <2>7 DEF ArgsValid
  <2>11. \A j \in DOMAIN code.kind :
           ins.kind[j] = "p" => ins.arg[j] + 1 \in 1 .. Len(t.par_rec_)
    BY <1>5, <2>9, <2>10
  <2>12. QED
    BY <2>1, <2>4, <2>5, <2>7, <2>9, <2>11 DEF Shaped
<1>9. QED
  BY <1>6, <1>7, <1>8

-----------------------------------------------------------------------------
(* Operands are numbers. *)
LEMMA OperandsTyped ==
  ASSUME NEW t, NEW ins, Computes(t, ins), Shaped(t, ins),
         NEW var \in [Address(t) -> Num],
         NEW par, \A n \in 1 .. Len(t.par_rec_) : par[n] \in Num
  PROVE  Operands(ins, var, par) \in [DOMAIN ins.arg -> Num]
<1>1. ASSUME NEW j \in DOMAIN ins.arg
      PROVE  (IF ins.kind[j] = "v" THEN var[ins.arg[j]] ELSE par[ins.arg[j] + 1]) \in Num
  <2>1. CASE ins.kind[j] = "v"
    <3>1. ins.arg[j] \in 1 .. ins.res - NumRes(ins.op)
      BY <2>1 DEF Computes, ArgsValid, Before
    <3>2. ins.arg[j] \in Address(t)
      BY <3>1 DEF Computes, Address
    <3>3. QED
      BY <2>1, <3>2
  <2>2. CASE ins.kind[j] # "v"
    <3>1. ins.arg[j] + 1 \in 1 .. Len(t.par_rec_)
      BY <2>2 DEF Shaped
    <3>2. QED
      BY <2>2, <3>1
  <2>3. QED
    BY <2>1, <2>2
<1>2. QED
  BY <1>1 DEF Operands


LEMMA FoldsTyped ==
  ASSUME NEW n \in Nat, NEW b \in Num, NEW s \in [1 .. n -> Num]
  PROVE  PlusOver(b, s) \in Num /\ MinusOver(b, s) \in Num
<1>1. PICK g : Sums(n, b, s, g) /\ PlusOver(b, s) = g[n]
  BY PlusFold
<1>2. PICK h : Differences(n, b, s, h) /\ MinusOver(b, s) = h[n]
  BY MinusFold
<1>3. QED
  BY <1>1, <1>2 DEF Sums, Differences

(* The parts of the operands of a sum that are added and subtracted. *)
Added(s, m) == SubSeq(s, 2, m + 1)
Subtracted(s, m, n) == SubSeq(s, m + 2, n + 1)

LEMMA CSumParts ==
  ASSUME NEW n \in Nat, NEW m \in 0 .. n, NEW s \in [1 .. n + 1 -> Num]
  PROVE  /\ Len(s) = n + 1
         /\ Added(s, m) \in [1 .. m -> Num]
         /\ \A k \in 1 .. m : Added(s, m)[k] = s[k + 1]
         /\ Subtracted(s, m, n) \in [1 .. n - m -> Num]
         /\ \A k \in 1 .. n - m : Subtracted(s, m, n)[k] = s[m + 1 + k]
<1>1. DOMAIN s = 1 .. n + 1 /\ n + 1 \in Nat
  OBVIOUS
<1>2. Len(s) = n + 1
  <2>1. s \in Seq(Num)
    BY <1>1
  <2>2. QED
    BY <1>1, <2>1
<1>3. Added(s, m) = [k \in 1 .. m |-> s[k + 1]]
  <2>1. SubSeq(s, 2, m + 1) = [k \in 1 .. (1 + (m + 1) - 2) |-> s[2 + k - 1]]
    BY DEF SubSeq
  <2>2. 1 + (m + 1) - 2 = m /\ \A k \in 1 .. m : 2 + k - 1 = k + 1
    OBVIOUS
  <2>3. QED
    BY <2>1, <2>2 DEF Added
<1>4. Subtracted(s, m, n) = [k \in 1 .. n - m |-> s[m + 1 + k]]
  <2>1. SubSeq(s, m + 2, n + 1) = [k \in 1 .. (1 + (n + 1) - (m + 2)) |-> s[m + 2 + k - 1]]
    BY DEF SubSeq
  <2>2. 1 + (n + 1) - (m + 2) = n - m /\ \A k \in 1 .. n - m : m + 2 + k - 1 = m + 1 + k
    OBVIOUS
  <2>3. QED
    BY <2>1, <2>2 DEF Subtracted
<1>5. /\ \A k \in 1 .. m : k + 1 \in 1 .. n + 1
      /\ \A k \in 1 .. n - m : m + 1 + k \in 1 .. n + 1
  OBVIOUS
<1>6. QED
  BY <1>2, <1>3, <1>4, <1>5

LEMMA CSumValue ==
  ASSUME NEW n \in Nat, NEW ins, ins.add \in 0 .. n, NEW s \in [1 .. n + 1 -> Num]
  PROVE  /\ forward_csum_op(ins, s)
              = MinusOver(PlusOver(s[1], Added(s, ins.add)), Subtracted(s, ins.add, n))
         /\ forward_csum_op(ins, s) \in Num
<1>1. /\ Len(s) = n + 1 /\ s[1] \in Num /\ n - ins.add \in Nat
      /\ Added(s, ins.add) \in [1 .. ins.add -> Num]
      /\ Subtracted(s, ins.add, n) \in [1 .. n - ins.add -> Num]
  BY CSumParts
<1>2. forward_csum_op(ins, s)
        = MinusOver(PlusOver(s[1], Added(s, ins.add)), Subtracted(s, ins.add, n))
  BY <1>1 DEF forward_csum_op, MinusOver, PlusOver, Added, Subtracted
<1>3. PlusOver(s[1], Added(s, ins.add)) \in Num
  <2>1. ins.add \in Nat
    OBVIOUS
  <2>2. QED
    BY <1>1, <2>1, FoldsTyped
<1>4. QED
  BY <1>1, <1>2, <1>3, FoldsTyped

(* The sequences of one, two or four numbers. *)
LEMMA Tuples ==
  /\ \A s \in [1 .. 1 -> Num] : s = <<s[1]>> /\ s[1] \in Num
  /\ \A s \in [1 .. 2 -> Num] : s = <<s[1], s[2]>> /\ s[1] \in Num /\ s[2] \in Num
  /\ \A s \in [1 .. 4 -> Num] : \A j \in 1 .. 4 : s[j] \in Num
  /\ \A m \in Num : <<m>> \in [1 .. 1 -> Num]
  /\ \A m, n \in Num : <<m, n>> \in [1 .. 2 -> Num]
  /\ \A m, n \in Num : <<Zero, Zero, m, n>> \in [1 .. 4 -> Num]
<1>1. ASSUME NEW s \in [1 .. 1 -> Num]
      PROVE  s = <<s[1]>> /\ s[1] \in Num
  BY <1>1
<1>2. ASSUME NEW s \in [1 .. 2 -> Num]
      PROVE  s = <<s[1], s[2]>> /\ s[1] \in Num /\ s[2] \in Num
  BY <1>2
<1>3. /\ \A m \in Num : <<m>> \in [1 .. 1 -> Num]
      /\ \A m, n \in Num : <<m, n>> \in [1 .. 2 -> Num]
  OBVIOUS
<1>4. ASSUME NEW m \in Num, NEW n \in Num
      PROVE  <<Zero, Zero, m, n>> \in [1 .. 4 -> Num]
  BY NumAssumption
<1>5. QED
  BY <1>1, <1>2, <1>3, <1>4

(* The operators that compute, one by one. *)
LEMMA ShapedOp ==
  ASSUME NEW t, NEW ins, Shaped(t, ins)
  PROVE  \/ ins.op \in {"Add", "Sub", "Mul", "Div"} /\ DOMAIN ins.arg = 1 .. 2
         \/ /\ ins.op \in Unary /\ ins.op \in {"Abs", "Exp", "Log", "Sin", "Cos"}
            /\ DOMAIN ins.arg = 1 .. 1
         \/ ins.op = "Par" /\ DOMAIN ins.arg = 1 .. 1 /\ ins.kind[1] = "p"
         \/ ins.op \in CondExp /\ DOMAIN ins.arg = 1 .. 4
         \/ /\ ins.op = "CSum"
            /\ \E n \in Nat : ins.add \in 0 .. n /\ DOMAIN ins.arg = 1 .. n + 1
<1>1. ASSUME NEW n \in Nat, ins.add \in Nat, ins.add <= n
      PROVE  ins.add \in 0 .. n
  BY <1>1
<1>2. QED
  BY <1>1, TaylorAssumption DEF Shaped, Binary

LEMMA Order0Typed ==
  ASSUME NEW t, NEW ins, Shaped(t, ins), NEW s \in [DOMAIN ins.arg -> Num]
  PROVE  /\ Order0(ins, s) \in Num
         /\ ins.op \in TwoResults => Aux(ins.op, s) \in Num
<1>1. CASE ins.op \in {"Add", "Sub", "Mul", "Div"} /\ DOMAIN ins.arg = 1 .. 2
  <2>1. s = <<s[1], s[2]>> /\ s[1] \in Num /\ s[2] \in Num
    BY <1>1, Tuples
  <2>2. Order0(ins, s) = Calc(ins.op, s)
    BY <1>1 DEF Order0, Value, Binary, CondExp
  <2>3. ins.op \notin TwoResults
    BY <1>1, TaylorAssumption
  <2>4. Calc(ins.op, <<s[1], s[2]>>) \in Num
    BY <1>1, <2>1, CalcAssumption DEF Binary
  <2>5. QED
    BY <2>1, <2>2, <2>3, <2>4
<1>2. CASE ins.op \in Unary /\ DOMAIN ins.arg = 1 .. 1
  <2>1. s = <<s[1]>> /\ s[1] \in Num
    BY <1>2, Tuples
  <2>2. Order0(ins, s) = Calc(ins.op, s)
    BY <1>2, UnaryAssumption DEF Order0, Value, Binary, CondExp, Optimized
  <2>3. Calc(ins.op, <<s[1]>>) \in Num /\ Aux(ins.op, <<s[1]>>) \in Num
    BY <1>2, <2>1, CalcAssumption
  <2>4. QED
    BY <2>1, <2>2, <2>3
<1>3. CASE ins.op = "Par" /\ DOMAIN ins.arg = 1 .. 1
  <2>1. Order0(ins, s) = s[1]
    BY <1>3, UnaryAssumption DEF Order0, Value, Binary, CondExp
  <2>2. ins.op \notin TwoResults
    BY <1>3, TaylorAssumption
  <2>3. QED
    BY <1>3, <2>1, <2>2
<1>4. CASE ins.op \in CondExp /\ DOMAIN ins.arg = 1 .. 4
  <2>1. Order0(ins, s) = IF Holds(ins.op, s[1], s[2]) THEN s[3] ELSE s[4]
    BY <1>4, UnaryAssumption DEF Order0, Value, Binary, CondExp
  <2>2. ins.op \notin TwoResults
    BY <1>4, TaylorAssumption DEF CondExp
  <2>3. s[3] \in Num /\ s[4] \in Num
    BY <1>4
  <2>4. QED
    BY <2>1, <2>2, <2>3
<1>5. ASSUME NEW n \in Nat, ins.op = "CSum", ins.add \in 0 .. n,
             DOMAIN ins.arg = 1 .. n + 1
      PROVE  Order0(ins, s) \in Num /\ ins.op \notin TwoResults
  <2>1. Order0(ins, s) = forward_csum_op(ins, s)
    BY <1>5 DEF Order0
  <2>2. forward_csum_op(ins, s) \in Num
    BY <1>5, CSumValue
  <2>3. QED
    BY <1>5, <2>1, <2>2, TaylorAssumption
<1>6. QED
  BY <1>1, <1>2, <1>3, <1>4, <1>5, ShapedOp

LEMMA Order1Typed ==
  ASSUME NEW t, NEW ins, Shaped(t, ins), NEW s \in [DOMAIN ins.arg -> Num],
         NEW d \in [DOMAIN ins.arg -> Num], NEW z \in Num,
         NEW a, ins.op \in TwoResults => a \in Num
  PROVE  /\ Order1(ins, s, d, z, a) \in Num
         /\ ins.op \in TwoResults => Aux1(ins, d, z) \in Num
<1>1. CASE ins.op \in {"Add", "Sub", "Mul", "Div"} /\ DOMAIN ins.arg = 1 .. 2
  <2>1. /\ s[1] \in Num /\ s[2] \in Num /\ d[1] \in Num /\ d[2] \in Num
        /\ ins.op \notin TwoResults
    BY <1>1, TaylorAssumption
  <2>2. CASE ins.op = "Add"
    BY <2>1, <2>2, Closed DEF Order1, CondExp, forward_add_op
  <2>3. CASE ins.op = "Sub"
    BY <2>1, <2>3, Closed DEF Order1, CondExp, forward_sub_op
  <2>4. CASE ins.op = "Mul"
    BY <2>1, <2>4, Closed DEF Order1, CondExp, forward_mul_op
  <2>5. CASE ins.op = "Div"
    BY <2>1, <2>5, Closed DEF Order1, CondExp, forward_div_op
  <2>6. QED
    BY <1>1, <2>2, <2>3, <2>4, <2>5
<1>2. CASE ins.op \in Unary /\ ins.op \in {"Abs", "Exp", "Log", "Sin", "Cos"}
           /\ DOMAIN ins.arg = 1 .. 1
  <2>1. /\ s[1] \in Num /\ d[1] \in Num
        /\ ins.op \in TwoResults <=> ins.op \in {"Sin", "Cos"}
    BY <1>2, TaylorAssumption
  <2>2. CASE ins.op = "Abs"
    BY <2>1, <2>2, Closed DEF Order1, CondExp, forward_abs_op
  <2>3. CASE ins.op = "Exp"
    BY <2>1, <2>3, Closed DEF Order1, CondExp, forward_exp_op
  <2>4. CASE ins.op = "Log"
    BY <2>1, <2>4, Closed DEF Order1, CondExp, forward_log_op
  <2>5. CASE ins.op = "Sin"
    BY <2>1, <2>5, Closed DEF Order1, CondExp, forward_sin_op, forward_cos_op, Aux1
  <2>6. CASE ins.op = "Cos"
    BY <2>1, <2>6, Closed DEF Order1, CondExp, forward_sin_op, forward_cos_op, Aux1
  <2>7. QED
    BY <1>2, <2>2, <2>3, <2>4, <2>5, <2>6
<1>3. CASE ins.op = "Par"
  BY <1>3, Closed, TaylorAssumption DEF Order1, CondExp
<1>4. CASE ins.op \in CondExp /\ DOMAIN ins.arg = 1 .. 4
  <2>1. Order1(ins, s, d, z, a) = forward_cond_op(ins.op, s, d)
    BY <1>4 DEF Order1, CondExp
  <2>2. d[3] \in Num /\ d[4] \in Num /\ ins.op \notin TwoResults
    BY <1>4, TaylorAssumption DEF CondExp
  <2>3. QED
    BY <2>1, <2>2 DEF forward_cond_op
<1>5. ASSUME NEW n \in Nat, ins.op = "CSum", ins.add \in 0 .. n,
             DOMAIN ins.arg = 1 .. n + 1
      PROVE  Order1(ins, s, d, z, a) \in Num /\ ins.op \notin TwoResults
  <2>1. Order1(ins, s, d, z, a) = forward_csum_op(ins, d)
    BY <1>5 DEF Order1, CondExp
  <2>2. forward_csum_op(ins, d) \in Num
    BY <1>5, CSumValue
  <2>3. QED
    BY <1>5, <2>1, <2>2, TaylorAssumption
<1>6. QED
  BY <1>1, <1>2, <1>3, <1>4, <1>5, ShapedOp

-----------------------------------------------------------------------------
-----------------------------------------------------------------------------
(* Arithmetic: what follows from the laws of Ring. *)

LEMMA RingMonoids ==
  ASSUME Ring
  PROVE  /\ \A m, n \in Num : m ++ n = n ++ m /\ m ** n = n ** m
         /\ \A m, n, k \in Num : /\ (m ++ n) ++ k = m ++ (n ++ k)
                                 /\ (m ** n) ** k = m ** (n ** k)
                                 /\ m ** (n ++ k) = (m ** n) ++ (m ** k)
                                 /\ (m ++ n) ** k = (m ** k) ++ (n ** k)
         /\ \A m \in Num : /\ m ++ Zero = m /\ Zero ++ m = m
                           /\ m ** One = m /\ One ** m = m
                           /\ m ++ Minus(m) = Zero
         /\ \A m, n \in Num : m -- n = m ++ Minus(n) /\ m // n = m ** (One // n)
<1>1. \A m, n, k \in Num : (m ++ n) ** k = (m ** k) ++ (n ** k)
  <2>1. SUFFICES ASSUME NEW m \in Num, NEW n \in Num, NEW k \in Num
                 PROVE  (m ++ n) ** k = (m ** k) ++ (n ** k)
    OBVIOUS
  <2>2. m ++ n \in Num
    BY Closed
  <2>3. (m ++ n) ** k = k ** (m ++ n) /\ k ** (m ++ n) = (k ** m) ++ (k ** n)
    BY <2>2 DEF Ring
  <2>4. k ** m = m ** k /\ k ** n = n ** k
    BY DEF Ring
  <2>5. QED
    BY <2>3, <2>4
<1>2. \A m \in Num : Zero ++ m = m /\ One ** m = m
  BY Closed DEF Ring
<1>3. QED
  BY <1>1, <1>2 DEF Ring

(* What is added can be taken away. *)
LEMMA Cancel ==
  ASSUME Ring, NEW m \in Num, NEW n \in Num, NEW k \in Num, m ++ n = m ++ k
  PROVE  n = k
<1>1. Minus(m) \in Num
  BY Closed
<1>2. Minus(m) ++ m = Zero
  BY <1>1, RingMonoids
<1>3. (Minus(m) ++ m) ++ n = (Minus(m) ++ m) ++ k
  BY <1>1, RingMonoids
<1>4. QED
  BY <1>2, <1>3, RingMonoids

LEMMA RingZero ==
  ASSUME Ring
  PROVE  \A m \in Num : m ** Zero = Zero /\ Zero ** m = Zero
<1>1. SUFFICES ASSUME NEW m \in Num PROVE m ** Zero = Zero /\ Zero ** m = Zero
  OBVIOUS
<1> PICK z : z = m ** Zero
  OBVIOUS
<1>2. z \in Num /\ Zero \in Num
  BY Closed
<1>3. Zero ++ Zero = Zero
  BY <1>2, RingMonoids
<1>4. m ** (Zero ++ Zero) = (m ** Zero) ++ (m ** Zero)
  BY <1>2, RingMonoids
<1>5. z ++ z = z ++ Zero
  BY <1>2, <1>3, <1>4, RingMonoids
<1>6. z = Zero
  BY <1>2, <1>5, Cancel
<1>7. Zero ** m = m ** Zero
  BY <1>2, RingMonoids
<1>8. QED
  BY <1>6, <1>7

LEMMA RingMinus ==
  ASSUME Ring
  PROVE  /\ \A m, n \in Num : /\ Minus(m) ** n = Minus(m ** n)
                              /\ m ** Minus(n) = Minus(m ** n)
         /\ \A m \in Num : Minus(One) ** m = Minus(m) /\ m ** Minus(One) = Minus(m)
         /\ Minus(Zero) = Zero
<1>1. ASSUME NEW m \in Num, NEW n \in Num
      PROVE  Minus(m) ** n = Minus(m ** n)
  <2> PICK a, b, c : a = m ** n /\ b = Minus(m) ** n /\ c = Minus(m ** n)
    OBVIOUS
  <2>1. Minus(m) \in Num /\ a \in Num /\ b \in Num /\ c \in Num
    BY Closed
  <2>2. a ++ b = (m ++ Minus(m)) ** n
    BY <2>1, RingMonoids
  <2>3. m ++ Minus(m) = Zero /\ a ++ c = Zero
    BY <2>1, RingMonoids
  <2>4. a ++ b = a ++ c
    BY <2>2, <2>3, RingZero
  <2>5. QED
    BY <2>1, <2>4, Cancel
<1>2. ASSUME NEW m \in Num, NEW n \in Num
      PROVE  m ** Minus(n) = Minus(m ** n)
  <2>1. Minus(n) \in Num
    BY Closed
  <2>2. m ** Minus(n) = Minus(n) ** m /\ n ** m = m ** n
    BY <2>1, RingMonoids
  <2>3. QED
    BY <2>2, <1>1
<1>3. ASSUME NEW m \in Num
      PROVE  Minus(One) ** m = Minus(m) /\ m ** Minus(One) = Minus(m)
  BY <1>1, <1>2, RingMonoids, Closed
<1>4. Minus(Zero) = Zero
  <2>1. Zero ++ Minus(Zero) = Zero /\ Zero ++ Zero = Zero /\ Minus(Zero) \in Num
    BY RingMonoids, Closed
  <2>2. QED
    BY <2>1, Cancel, Closed
<1>5. QED
  BY <1>1, <1>2, <1>3, <1>4

-----------------------------------------------------------------------------
(* Totals. *)

(* A total by its partial sums. *)
LEMMA TotalSums ==
  ASSUME NEW n \in Nat, NEW s \in [1 .. n -> Num]
  PROVE  \E g : Sums(n, Zero, s, g) /\ Total(s) = g[n]
<1>1. Total(s) = PlusOver(Zero, s)
  BY DEF Total, PlusOver
<1>2. QED
  BY <1>1, PlusFold, NumAssumption

(* The partial sums are determined. *)
LEMMA SumsUnique ==
  ASSUME NEW n \in Nat, NEW b, NEW s, NEW g, NEW h,
         Sums(n, b, s, g), Sums(n, b, s, h)
  PROVE  g[n] = h[n]
<1> DEFINE T == {k \in 0 .. n : g[k] = h[k]}
<1>1. 0 \in T
  BY DEF Sums
<1>2. \A k \in 1 .. n : k - 1 \in T => k \in T
  BY DEF Sums
<1> HIDE DEF T
<1>3. n \in T
  BY <1>1, <1>2, UpTo
<1>4. QED
  BY <1>3 DEF T

LEMMA TotalIs ==
  ASSUME NEW n \in Nat, NEW s \in [1 .. n -> Num], NEW g, Sums(n, Zero, s, g)
  PROVE  Total(s) = g[n]
  BY TotalSums, SumsUnique

LEMMA TotalTyped ==
  ASSUME NEW n \in Nat, NEW s \in [1 .. n -> Num]
  PROVE  Total(s) \in Num
<1>1. PICK g : Sums(n, Zero, s, g) /\ Total(s) = g[n]
  BY TotalSums
<1>2. QED
  BY <1>1 DEF Sums

(* The total of sums is the sum of the totals. *)
LEMMA TotalAdds ==
  ASSUME Ring, NEW n \in Nat, NEW s \in [1 .. n -> Num], NEW r \in [1 .. n -> Num],
         NEW q \in [1 .. n -> Num], \A k \in 1 .. n : q[k] = s[k] ++ r[k]
  PROVE  Total(q) = Total(s) ++ Total(r)
<1>1. PICK g : Sums(n, Zero, s, g) /\ Total(s) = g[n]
  BY TotalSums
<1>2. PICK h : Sums(n, Zero, r, h) /\ Total(r) = h[n]
  BY TotalSums
<1> DEFINE f == [k \in 0 .. n |-> g[k] ++ h[k]]
<1>3. f \in [0 .. n -> Num]
  BY <1>1, <1>2, Closed DEF Sums
<1>4. f[0] = Zero
  BY <1>1, <1>2, RingMonoids, Closed DEF Sums
<1>5. ASSUME NEW k \in 1 .. n PROVE f[k] = f[k - 1] ++ q[k]
  <2>1. g[k - 1] \in Num /\ h[k - 1] \in Num /\ s[k] \in Num /\ r[k] \in Num
    BY <1>1, <1>2 DEF Sums
  <2>2. g[k] = g[k - 1] ++ s[k] /\ h[k] = h[k - 1] ++ r[k]
    BY <1>1, <1>2 DEF Sums
  <2>3. f[k] = g[k] ++ h[k] /\ f[k - 1] = g[k - 1] ++ h[k - 1]
    OBVIOUS
  <2>4. ASSUME NEW a \in Num, NEW b \in Num, NEW c \in Num, NEW d \in Num
        PROVE  (a ++ c) ++ (b ++ d) = (a ++ b) ++ (c ++ d)
    <3>1. c ++ d \in Num /\ b ++ d \in Num
      BY Closed
    <3>2. (a ++ c) ++ (b ++ d) = a ++ (c ++ (b ++ d))
      BY <3>1, RingMonoids
    <3>3. c ++ (b ++ d) = (c ++ b) ++ d /\ (c ++ b) = (b ++ c)
      BY RingMonoids
    <3>4. (b ++ c) ++ d = b ++ (c ++ d)
      BY RingMonoids
    <3>5. (a ++ b) ++ (c ++ d) = a ++ (b ++ (c ++ d))
      BY <3>1, RingMonoids
    <3>6. QED
      BY <3>2, <3>3, <3>4, <3>5
  <2>5. QED
    BY <2>1, <2>2, <2>3, <2>4
<1> HIDE DEF f
<1>6. Sums(n, Zero, q, f)
  BY <1>3, <1>4, <1>5 DEF Sums
<1>7. Total(q) = f[n]
  BY <1>6, TotalIs
<1>8. QED
  BY <1>1, <1>2, <1>7 DEF f

(* The total of products is the product of the total. *)
LEMMA TotalTimes ==
  ASSUME Ring, NEW n \in Nat, NEW s \in [1 .. n -> Num], NEW m \in Num,
         NEW q \in [1 .. n -> Num], \A k \in 1 .. n : q[k] = m ** s[k]
  PROVE  Total(q) = m ** Total(s)
<1>1. PICK g : Sums(n, Zero, s, g) /\ Total(s) = g[n]
  BY TotalSums
<1> DEFINE f == [k \in 0 .. n |-> m ** g[k]]
<1>2. f \in [0 .. n -> Num]
  BY <1>1, Closed DEF Sums
<1>3. f[0] = Zero
  BY <1>1, RingZero DEF Sums
<1>4. ASSUME NEW k \in 1 .. n PROVE f[k] = f[k - 1] ++ q[k]
  <2>1. g[k - 1] \in Num /\ s[k] \in Num /\ g[k] = g[k - 1] ++ s[k]
    BY <1>1 DEF Sums
  <2>2. m ** (g[k - 1] ++ s[k]) = (m ** g[k - 1]) ++ (m ** s[k])
    BY <2>1, RingMonoids
  <2>3. QED
    BY <2>1, <2>2
<1> HIDE DEF f
<1>5. Sums(n, Zero, q, f)
  BY <1>2, <1>3, <1>4 DEF Sums
<1>6. Total(q) = f[n]
  BY <1>5, TotalIs
<1>7. QED
  BY <1>1, <1>6 DEF f

(* A total with one element that is not zero. *)
LEMMA TotalOne ==
  ASSUME Ring, NEW n \in Nat, NEW s \in [1 .. n -> Num], NEW j \in 1 .. n,
         \A k \in 1 .. n : k # j => s[k] = Zero
  PROVE  Total(s) = s[j]
<1>1. PICK g : Sums(n, Zero, s, g) /\ Total(s) = g[n]
  BY TotalSums
<1> DEFINE T == {k \in 0 .. n : g[k] = IF k < j THEN Zero ELSE s[j]}
<1>2. 0 \in T
  BY <1>1 DEF Sums
<1>3. ASSUME NEW k \in 1 .. n, k - 1 \in T PROVE k \in T
  <2>1. g[k] = g[k - 1] ++ s[k] /\ s[k] \in Num /\ s[j] \in Num
    BY <1>1 DEF Sums
  <2>2. CASE k < j
    <3>1. g[k - 1] = Zero /\ s[k] = Zero
      BY <2>2, <1>3
    <3>2. Zero ++ Zero = Zero
      BY RingMonoids, Closed
    <3>3. QED
      BY <2>1, <2>2, <3>1, <3>2
  <2>3. CASE k = j
    <3>1. g[k - 1] = Zero
      BY <2>3, <1>3
    <3>2. QED
      BY <2>1, <2>3, <3>1, RingMonoids
  <2>4. CASE k > j
    <3>1. g[k - 1] = s[j] /\ s[k] = Zero
      BY <2>4, <1>3
    <3>2. g[k] = s[j]
      BY <2>1, <3>1, RingMonoids
    <3>3. QED
      BY <2>4, <3>2
  <2>5. QED
    BY <2>2, <2>3, <2>4
<1> HIDE DEF T
<1>4. n \in T
  BY <1>2, <1>3, UpTo
<1>5. QED
  BY <1>1, <1>4 DEF T

LEMMA TotalZero ==
  ASSUME Ring, NEW n \in Nat, NEW s \in [1 .. n -> Num],
         \A k \in 1 .. n : s[k] = Zero
  PROVE  Total(s) = Zero
<1>1. PICK g : Sums(n, Zero, s, g) /\ Total(s) = g[n]
  BY TotalSums
<1> DEFINE T == {k \in 0 .. n : g[k] = Zero}
<1>2. 0 \in T
  BY <1>1 DEF Sums
<1>3. ASSUME NEW k \in 1 .. n, k - 1 \in T PROVE k \in T
  <2>1. g[k] = g[k - 1] ++ s[k] /\ s[k] = Zero /\ g[k - 1] = Zero
    BY <1>1, <1>3 DEF Sums
  <2>2. Zero ++ Zero = Zero
    BY RingMonoids, Closed
  <2>3. QED
    BY <2>1, <2>2
<1> HIDE DEF T
<1>4. n \in T
  BY <1>2, <1>3, UpTo
<1>5. QED
  BY <1>1, <1>4 DEF T

(* Totals of few. *)
LEMMA TotalFew ==
  ASSUME Ring
  PROVE  /\ \A s \in [1 .. 1 -> Num] : Total(s) = s[1]
         /\ \A s \in [1 .. 2 -> Num] : Total(s) = s[1] ++ s[2]
<1>1. ASSUME NEW s \in [1 .. 1 -> Num] PROVE Total(s) = s[1]
  <2>1. 1 \in Nat /\ 1 \in 1 .. 1 /\ \A k \in 1 .. 1 : k # 1 => s[k] = Zero
    OBVIOUS
  <2>2. QED
    BY <2>1, TotalOne
<1>2. ASSUME NEW s \in [1 .. 2 -> Num] PROVE Total(s) = s[1] ++ s[2]
  <2>1. PICK g : Sums(2, Zero, s, g) /\ Total(s) = g[2]
    BY TotalSums
  <2>2. g[0] = Zero /\ g[1] = g[0] ++ s[1] /\ g[2] = g[1] ++ s[2]
    BY <2>1 DEF Sums
  <2>3. QED
    BY <2>1, <2>2, RingMonoids
<1>3. QED
  BY <1>1, <1>2

(* Adding to one element adds to the total. *)
LEMMA TotalChange ==
  ASSUME Ring, NEW n \in Nat, NEW s \in [1 .. n -> Num], NEW q \in [1 .. n -> Num],
         NEW j \in 1 .. n, NEW m \in Num, q[j] = s[j] ++ m,
         \A k \in 1 .. n : k # j => q[k] = s[k]
  PROVE  Total(q) = Total(s) ++ m
<1> DEFINE r == [k \in 1 .. n |-> IF k = j THEN m ELSE Zero]
<1>1. r \in [1 .. n -> Num]
  BY Closed
<1>2. \A k \in 1 .. n : q[k] = s[k] ++ r[k]
  BY RingMonoids
<1>3. r[j] = m /\ \A k \in 1 .. n : k # j => r[k] = Zero
  OBVIOUS
<1> HIDE DEF r
<1>4. Total(r) = m
  BY <1>1, <1>3, TotalOne
<1>5. QED
  BY <1>1, <1>2, <1>4, TotalAdds

-----------------------------------------------------------------------------
(* Recordings that are being written. *)

(* What does not decrease from one to the next does not decrease at all.   *)
LEMMA Climbing ==
  ASSUME NEW n \in Nat, NEW f, \A i \in 0 .. n : f[i] \in Nat,
         \A i \in 0 .. n - 1 : f[i] <= f[i + 1]
  PROVE  \A i \in 0 .. n : f[i] <= f[n]
<1> DEFINE S == {k \in Nat : k <= n /\ ~ (f[n - k] <= f[n])}
<1>1. SUFFICES ASSUME S # {} PROVE FALSE
  <2>1. \A i \in 0 .. n : n - i \in Nat /\ n - i <= n /\ n - (n - i) = i
    OBVIOUS
  <2>2. \A i \in 0 .. n : ~ (f[i] <= f[n]) => n - i \in S
    BY <2>1
  <2>3. QED
    BY <2>2
<1>2. PICK k \in S : \A m \in S : k <= m
  BY <1>1, LeastNatural
<1>3. k # 0
  OBVIOUS
<1>4. k - 1 \in Nat /\ k - 1 <= n /\ k - 1 \notin S
  BY <1>2, <1>3
<1>5. f[n - (k - 1)] <= f[n]
  BY <1>4
<1>6. n - k \in 0 .. n - 1 /\ (n - k) + 1 = n - (k - 1) /\ n - k \in 0 .. n /\ (n - k) + 1 \in 0 .. n
  BY <1>3
<1>7. f[n - k] <= f[n - (k - 1)]
  BY <1>6
<1>8. f[n - k] \in Nat /\ f[n - (k - 1)] \in Nat /\ f[n] \in Nat
  BY <1>6
<1>9. f[n - k] <= f[n]
  BY <1>5, <1>7, <1>8
<1>10. QED
  BY <1>9

(* The instruction of operator i of a recording. *)
InstrOf(t, i) == Instr(t, At(t, i))

(* The vectors have their types. *)
Listed(t) ==
  /\ t.n \in Nat /\ t.num_op_rec \in Nat /\ t.num_op_arg_rec \in Nat /\ t.num_var_rec \in Nat
  /\ t.op_rec_ \in [Op(t) -> OpCodeRec]
  /\ t.first \in [Op(t) -> Nat] /\ t.last \in [Op(t) -> Nat]
  /\ t.op_arg_rec_ \in [0 .. t.num_op_arg_rec - 1 -> Nat]
  /\ t.par_rec_ \in Seq(Num)

(* What WellFormed asks of operator i, which is no conditional skip. *)
Line(t, i) ==
  LET ins == InstrOf(t, i)
  IN  /\ t.op_rec_[i].op # "CSkip"
      /\ t.op_rec_[i].op = "Begin" <=> i = 0
      /\ t.op_rec_[i].op = "Inv" <=> i \in 1 .. t.n
      /\ t.op_rec_[i].op = "CExp" => ins.op \in CondExp
      /\ t.op_rec_[i].op = "CSum" =>
           /\ Arg(t, At(t, i), 0) \in Nat /\ Arg(t, At(t, i), 1) \in Nat
           /\ Arg(t, At(t, i), Size(t, i) - 1) = Arg(t, At(t, i), 0) + Arg(t, At(t, i), 1)
      /\ Size(t, i) \in Nat /\ t.first[i] + Size(t, i) <= t.num_op_arg_rec
      /\ ArgsValid(ins, Len(t.par_rec_))
      /\ \A j \in DOMAIN ins.arg :
           IF ins.kind[j] = "v" THEN ins.arg[j] \in {t.last[k] : k \in 0 .. i - 1}
                                ELSE ins.arg[j] \in Nat

(* A recording that lacks operators at its end. *)
Begun(t) ==
  /\ Listed(t) /\ t.num_op_rec > 0
  /\ t.first[0] = 0 /\ t.last[0] = 0
  /\ \A i \in 1 .. t.num_op_rec - 1 :
       /\ t.first[i] = t.first[i - 1] + Size(t, i - 1)
       /\ t.last[i] = t.last[i - 1] + NumRes(t.op_rec_[i].op)
  /\ t.first[t.num_op_rec - 1] + Size(t, t.num_op_rec - 1) = t.num_op_arg_rec
  /\ t.last[t.num_op_rec - 1] = t.num_var_rec - 1
  /\ \A i \in Op(t) : Line(t, i)

(* u is t with one more operator, and perhaps more parameters. *)
Extended(t, u, code, words) ==
  /\ Listed(u) /\ u.n = t.n
  /\ u.num_op_rec = t.num_op_rec + 1
  /\ u.num_op_arg_rec = t.num_op_arg_rec + Len(words)
  /\ u.num_var_rec = t.num_var_rec + NumRes(code.op)
  /\ \A i \in Op(t) : /\ u.op_rec_[i] = t.op_rec_[i]
                       /\ u.first[i] = t.first[i] /\ u.last[i] = t.last[i]
  /\ u.op_rec_[t.num_op_rec] = code
  /\ u.first[t.num_op_rec] = t.num_op_arg_rec
  /\ u.last[t.num_op_rec] = u.num_var_rec - 1
  /\ \A k \in 0 .. t.num_op_arg_rec - 1 : u.op_arg_rec_[k] = t.op_arg_rec_[k]
  /\ \A k \in 1 .. Len(words) : u.op_arg_rec_[t.num_op_arg_rec + k - 1] = words[k]
  /\ Len(t.par_rec_) <= Len(u.par_rec_)
  /\ \A k \in 1 .. Len(t.par_rec_) : u.par_rec_[k] = t.par_rec_[k]

(* A line that stands where it stood reads as it did. *)
LEMMA LineRead ==
  ASSUME NEW t, NEW u, NEW i, At(u, i) = At(t, i), u.op_rec_[i] = t.op_rec_[i],
         t.op_rec_[i] \in OpCodeRec, t.op_rec_[i].op # "CSkip",
         t.op_rec_[i].op = "CSum" =>
           Arg(t, At(t, i), 0) \in Nat /\ Arg(t, At(t, i), 1) \in Nat,
         \A k \in Nat : k < Size(t, i) => Arg(u, At(u, i), k) = Arg(t, At(t, i), k)
  PROVE  InstrOf(u, i) = InstrOf(t, i) /\ Size(u, i) = Size(t, i)
<1> DEFINE c == At(t, i)
           code == t.op_rec_[i]
<1>1. OpAt(t, c) = code /\ OpAt(u, c) = code /\ c.var_index_ = t.last[i]
  BY DEF OpAt, At
<1>2. CASE code.op = "CSum"
  <2>1. Size(t, i) = Arg(t, c, 0) + Arg(t, c, 1) + 4 /\ Size(u, i) = Arg(u, c, 0) + Arg(u, c, 1) + 4
    BY <1>2 DEF Size
  <2>2. \A k \in 0 .. Arg(t, c, 0) + Arg(t, c, 1) + 2 : Arg(u, c, k) = Arg(t, c, k)
    BY <1>2, <2>1
  <2>3. Arg(u, c, 0) = Arg(t, c, 0) /\ Arg(u, c, 1) = Arg(t, c, 1)
    BY <1>2, <2>2
  <2>4. InstrOf(t, i) = CSumAt(t, c) /\ InstrOf(u, i) = CSumAt(u, c)
    BY <1>1, <1>2 DEF InstrOf, Instr
  <2>5. \A k \in 1 .. Arg(t, c, 0) + Arg(t, c, 1) + 1 : Arg(u, c, k + 1) = Arg(t, c, k + 1)
    BY <1>2, <2>2
  <2>6. CSumAt(u, c) = CSumAt(t, c)
    BY <2>3, <2>5 DEF CSumAt
  <2>7. QED
    BY <2>1, <2>3, <2>4, <2>6
<1>3. CASE code.op = "CExp"
  <2>1. Size(t, i) = 6 /\ Size(u, i) = 6
    BY <1>3 DEF Size, NumArg, Optimized
  <2>2. \A k \in 0 .. 5 : Arg(u, c, k) = Arg(t, c, k)
    BY <2>1
  <2>3. InstrOf(t, i) = CondExpAt(t, c) /\ InstrOf(u, i) = CondExpAt(u, c)
    BY <1>1, <1>3 DEF InstrOf, Instr
  <2>4. CondExpAt(u, c) = CondExpAt(t, c)
    BY <2>2 DEF CondExpAt
  <2>5. QED
    BY <2>1, <2>3, <2>4
<1>4. CASE code.op # "CSum" /\ code.op # "CExp"
  <2>1. Size(t, i) = NumArg(code) /\ Size(u, i) = NumArg(code)
    BY <1>4 DEF Size
  <2>2. code.kind \in Seq({"v", "p"}) /\ code.kind \in OperandKinds(code.op)
    BY DEF OpCodeRec
  <2>3. \A k \in DOMAIN code.kind : Arg(u, c, k - 1) = Arg(t, c, k - 1)
    <3>1. CASE code.op = "Begin"
      <4>1. code.kind = <<>>
        BY <2>2, <3>1, UnaryAssumption DEF OperandKinds, Binary, Comparison
      <4>2. QED
        BY <4>1
    <3>2. CASE code.op # "Begin"
      <4>1. NumArg(code) = Len(code.kind)
        BY <1>4, <3>2 DEF NumArg, Optimized
      <4>2. \A k \in DOMAIN code.kind : k - 1 \in Nat /\ k - 1 < Len(code.kind)
        BY <2>2
      <4>3. QED
        BY <2>1, <4>1, <4>2
    <3>3. QED
      BY <3>1, <3>2
  <2>4. InstrOf(t, i) = [op |-> code.op, kind |-> code.kind,
                         arg |-> [k \in DOMAIN code.kind |-> Arg(t, c, k - 1)],
                         res |-> c.var_index_]
        /\ InstrOf(u, i) = [op |-> code.op, kind |-> code.kind,
                            arg |-> [k \in DOMAIN code.kind |-> Arg(u, c, k - 1)],
                            res |-> c.var_index_]
    BY <1>1, <1>4 DEF InstrOf, Instr
  <2>5. QED
    BY <2>1, <2>3, <2>4
<1>5. QED
  BY <1>2, <1>3, <1>4

(* How many words a line has, and that reading it stays among those. *)
LEMMA LineWords ==
  ASSUME NEW t, Listed(t), NEW i \in Op(t), Line(t, i)
  PROVE  /\ t.op_rec_[i] \in OpCodeRec /\ t.op_rec_[i].op # "CSkip"
         /\ t.first[i] \in Nat /\ Size(t, i) \in Nat
         /\ \A k \in Nat : k < Size(t, i) =>
              /\ t.first[i] + k \in 0 .. t.num_op_arg_rec - 1
              /\ Arg(t, At(t, i), k) = t.op_arg_rec_[t.first[i] + k]
<1>1. t.op_rec_[i] \in OpCodeRec /\ t.first[i] \in Nat /\ t.num_op_arg_rec \in Nat
  BY DEF Listed
<1>2. Size(t, i) \in Nat /\ t.first[i] + Size(t, i) <= t.num_op_arg_rec
      /\ t.op_rec_[i].op # "CSkip"
  BY DEF Line
<1>3. \A k \in Nat : k < Size(t, i) => t.first[i] + k \in 0 .. t.num_op_arg_rec - 1
  BY <1>1, <1>2
<1>4. \A k : Arg(t, At(t, i), k) = t.op_arg_rec_[t.first[i] + k]
  BY DEF Arg, At
<1>5. QED
  BY <1>1, <1>2, <1>3, <1>4

(* A recording keeps its lines when it is extended. *)
LEMMA LineKept ==
  ASSUME NEW t, Begun(t), NEW u, NEW code, NEW words \in Seq(Nat), Extended(t, u, code, words),
         NEW i \in Op(t)
  PROVE  /\ i \in Op(u) /\ At(u, i) = At(t, i)
         /\ InstrOf(u, i) = InstrOf(t, i) /\ Size(u, i) = Size(t, i)
         /\ \A k \in Nat : k < Size(t, i) => Arg(u, At(u, i), k) = Arg(t, At(t, i), k)
<1>1. Listed(t) /\ Line(t, i)
  BY DEF Begun
<1>2. At(u, i) = At(t, i) /\ u.op_rec_[i] = t.op_rec_[i]
  BY DEF Extended, At
<1>3. i \in Op(u)
  BY <1>1 DEF Extended, Op, Listed
<1>4. ASSUME NEW k \in Nat, k < Size(t, i)
      PROVE  Arg(u, At(u, i), k) = Arg(t, At(t, i), k)
  <2>1. /\ t.first[i] + k \in 0 .. t.num_op_arg_rec - 1
        /\ Arg(t, At(t, i), k) = t.op_arg_rec_[t.first[i] + k]
    BY <1>1, <1>4, LineWords
  <2>2. u.op_arg_rec_[t.first[i] + k] = t.op_arg_rec_[t.first[i] + k]
    BY <2>1 DEF Extended
  <2>3. Arg(u, At(t, i), k) = u.op_arg_rec_[t.first[i] + k]
    BY DEF Arg, At
  <2>4. QED
    BY <1>2, <2>1, <2>2, <2>3
<1>5. t.op_rec_[i].op = "CSum" => Arg(t, At(t, i), 0) \in Nat /\ Arg(t, At(t, i), 1) \in Nat
  BY <1>1 DEF Line
<1>6. t.op_rec_[i] \in OpCodeRec /\ t.op_rec_[i].op # "CSkip"
  BY <1>1, LineWords
<1>7. InstrOf(u, i) = InstrOf(t, i) /\ Size(u, i) = Size(t, i)
  BY <1>2, <1>4, <1>5, <1>6, LineRead
<1>8. QED
  BY <1>2, <1>3, <1>4, <1>7

(* So it is begun if the new line is as it should. *)
LEMMA BegunExtended ==
  ASSUME NEW t, Begun(t), NEW u, NEW code, NEW words \in Seq(Nat), Extended(t, u, code, words),
         Size(u, t.num_op_rec) = Len(words), Line(u, t.num_op_rec)
  PROVE  Begun(u)
<1> DEFINE n == t.num_op_rec
<1>1. /\ Listed(t) /\ Listed(u) /\ n \in Nat /\ n > 0 /\ u.num_op_rec = n + 1
      /\ Op(t) = 0 .. n - 1 /\ Op(u) = 0 .. n /\ Len(words) \in Nat
  <2>1. Listed(t) /\ Listed(u) /\ n > 0 /\ u.num_op_rec = n + 1
    BY DEF Begun, Extended
  <2>2. n \in Nat
    BY <2>1 DEF Listed
  <2>3. u.num_op_rec - 1 = n
    BY <2>1, <2>2
  <2>4. QED
    BY <2>1, <2>2, <2>3 DEF Op
<1>2. \A i \in Op(t) : /\ u.op_rec_[i] = t.op_rec_[i] /\ u.first[i] = t.first[i]
                       /\ u.last[i] = t.last[i]
                       /\ InstrOf(u, i) = InstrOf(t, i) /\ Size(u, i) = Size(t, i)
  <2>1. \A i \in Op(t) : InstrOf(u, i) = InstrOf(t, i) /\ Size(u, i) = Size(t, i)
    BY LineKept
  <2>2. QED
    BY <2>1 DEF Extended
<1>3. u.first[0] = 0 /\ u.last[0] = 0
  <2>1. 0 \in Op(t) /\ t.first[0] = 0 /\ t.last[0] = 0
    BY <1>1 DEF Begun
  <2>2. QED
    BY <1>2, <2>1
<1>4. ASSUME NEW i \in 1 .. n
      PROVE  /\ u.first[i] = u.first[i - 1] + Size(u, i - 1)
             /\ u.last[i] = u.last[i - 1] + NumRes(u.op_rec_[i].op)
  <2>1. CASE i < n
    <3>1. i \in 1 .. n - 1 /\ i \in Op(t) /\ i - 1 \in Op(t)
      BY <1>1, <2>1
    <3>2. /\ t.first[i] = t.first[i - 1] + Size(t, i - 1)
          /\ t.last[i] = t.last[i - 1] + NumRes(t.op_rec_[i].op)
      BY <3>1 DEF Begun
    <3>3. QED
      BY <1>2, <3>1, <3>2
  <2>2. CASE i = n
    <3>1. n - 1 \in Op(t)
      BY <1>1
    <3>2. t.first[n - 1] + Size(t, n - 1) = t.num_op_arg_rec /\ t.last[n - 1] = t.num_var_rec - 1
      BY DEF Begun
    <3>3. /\ u.first[n] = t.num_op_arg_rec /\ u.last[n] = u.num_var_rec - 1
          /\ u.op_rec_[n] = code /\ u.num_var_rec = t.num_var_rec + NumRes(code.op)
      BY DEF Extended
    <3>4. t.num_var_rec \in Nat /\ NumRes(code.op) \in Nat
      BY <1>1 DEF Listed, NumRes
    <3>5. /\ u.first[n - 1] = t.first[n - 1] /\ Size(u, n - 1) = Size(t, n - 1)
          /\ u.last[n - 1] = t.last[n - 1]
      BY <1>2, <3>1
    <3>6. u.num_var_rec - 1 = (t.num_var_rec - 1) + NumRes(code.op)
      BY <3>3, <3>4
    <3> HIDE DEF n
    <3>7. QED
      BY <2>2, <3>2, <3>3, <3>5, <3>6
  <2>3. QED
    BY <1>1, <2>1, <2>2
<1>5. u.first[n] + Size(u, n) = u.num_op_arg_rec /\ u.last[n] = u.num_var_rec - 1
  BY DEF Extended
<1>6. ASSUME NEW i \in Op(t)
      PROVE  Line(u, i)
  <2> DEFINE ins == InstrOf(t, i)
  <2>1. Line(t, i)
    BY DEF Begun
  <2>2. /\ InstrOf(u, i) = ins /\ Size(u, i) = Size(t, i) /\ u.op_rec_[i] = t.op_rec_[i]
        /\ u.first[i] = t.first[i] /\ u.n = t.n
    BY <1>2 DEF Extended
  <2>3. t.first[i] \in Nat /\ Size(t, i) \in Nat /\ t.first[i] + Size(t, i) <= u.num_op_arg_rec
    <3>1. t.first[i] \in Nat /\ t.num_op_arg_rec \in Nat
      BY <1>1 DEF Listed
    <3>2. Size(t, i) \in Nat /\ t.first[i] + Size(t, i) <= t.num_op_arg_rec
      BY <2>1 DEF Line
    <3>3. u.num_op_arg_rec = t.num_op_arg_rec + Len(words)
      BY DEF Extended
    <3>4. QED
      BY <1>1, <3>1, <3>2, <3>3
  <2>4. ASSUME t.op_rec_[i].op = "CSum"
        PROVE  /\ Arg(u, At(u, i), 0) \in Nat /\ Arg(u, At(u, i), 1) \in Nat
               /\ Arg(u, At(u, i), Size(u, i) - 1) = Arg(u, At(u, i), 0) + Arg(u, At(u, i), 1)
    <3>1. /\ Arg(t, At(t, i), 0) \in Nat /\ Arg(t, At(t, i), 1) \in Nat
          /\ Arg(t, At(t, i), Size(t, i) - 1) = Arg(t, At(t, i), 0) + Arg(t, At(t, i), 1)
      BY <2>1, <2>4 DEF Line
    <3>2. Size(t, i) = Arg(t, At(t, i), 0) + Arg(t, At(t, i), 1) + 4
      BY <2>4 DEF Size
    <3>3. 0 < Size(t, i) /\ 1 < Size(t, i) /\ Size(t, i) - 1 \in Nat /\ Size(t, i) - 1 < Size(t, i)
      BY <3>1, <3>2
    <3>4. /\ Arg(u, At(u, i), 0) = Arg(t, At(t, i), 0) /\ Arg(u, At(u, i), 1) = Arg(t, At(t, i), 1)
          /\ Arg(u, At(u, i), Size(t, i) - 1) = Arg(t, At(t, i), Size(t, i) - 1)
      BY <3>3, LineKept
    <3>5. QED
      BY <2>2, <3>1, <3>4
  <2>5. ArgsValid(ins, Len(u.par_rec_))
    <3>1. ArgsValid(ins, Len(t.par_rec_))
      BY <2>1 DEF Line
    <3>2. Len(t.par_rec_) \in Nat /\ Len(u.par_rec_) \in Nat /\ Len(t.par_rec_) <= Len(u.par_rec_)
      <4>1. t.par_rec_ \in Seq(Num) /\ u.par_rec_ \in Seq(Num)
        BY <1>1 DEF Listed
      <4>2. Len(t.par_rec_) <= Len(u.par_rec_)
        BY DEF Extended
      <4>3. QED
        BY <4>1, <4>2
    <3>3. \A j \in DOMAIN ins.arg : ins.kind[j] # "v" => ins.arg[j] \in Nat
      BY <2>1 DEF Line
    <3>4. QED
      BY <3>1, <3>2, <3>3 DEF ArgsValid
  <2>6. \A k \in 0 .. i - 1 : u.last[k] = t.last[k]
    BY <1>1, <1>2
  <2>7. QED
    BY <2>1, <2>2, <2>3, <2>4, <2>5, <2>6 DEF Line
<1>7. QED
  <2>1. \A i \in Op(u) : Line(u, i)
    BY <1>1, <1>6
  <2>2. u.num_op_rec - 1 = n /\ u.num_op_rec > 0
    <3> HIDE DEF n
    <3>1. QED
      BY <1>1
  <2>3. QED
    BY <1>1, <1>3, <1>4, <1>5, <2>1, <2>2 DEF Begun

(* The words of the new line. *)
LEMMA NewWords ==
  ASSUME NEW t, Listed(t), NEW u, NEW code, NEW words \in Seq(Nat), Extended(t, u, code, words)
  PROVE  /\ OpAt(u, At(u, t.num_op_rec)) = code
         /\ At(u, t.num_op_rec).var_index_ = u.num_var_rec - 1
         /\ \A k \in Nat : k < Len(words) =>
              Arg(u, At(u, t.num_op_rec), k) = words[k + 1]
<1>1. t.num_op_arg_rec \in Nat
  BY DEF Listed
<1>2. OpAt(u, At(u, t.num_op_rec)) = code /\ At(u, t.num_op_rec).var_index_ = u.num_var_rec - 1
  BY DEF Extended, OpAt, At
<1>3. ASSUME NEW k \in Nat, k < Len(words)
      PROVE  Arg(u, At(u, t.num_op_rec), k) = words[k + 1]
  <2>1. k + 1 \in 1 .. Len(words) /\ t.num_op_arg_rec + (k + 1) - 1 = t.num_op_arg_rec + k
    BY <1>1, <1>3
  <2>2. u.op_arg_rec_[t.num_op_arg_rec + (k + 1) - 1] = words[k + 1]
    BY <2>1 DEF Extended
  <2>3. Arg(u, At(u, t.num_op_rec), k) = u.op_arg_rec_[t.num_op_arg_rec + k]
    BY DEF Extended, Arg, At
  <2>4. QED
    BY <2>1, <2>2, <2>3
<1>4. QED
  BY <1>2, <1>3

(* The arguments at a cursor are the words q. *)
Reads(u, c, q) == \A k \in Nat : k < Len(q) => Arg(u, c, k) = q[k + 1]

(* Two words, and those of the operands. *)
CondExpArgs(a, b, s) == <<a, b>> \o s

LEMMA TwoFirst ==
  ASSUME NEW a \in Nat, NEW b \in Nat, NEW s \in Seq(Nat)
  PROVE  CondExpArgs(a, b, s) \in Seq(Nat)
         /\ CondExpArgs(a, b, s)[1] = a /\ CondExpArgs(a, b, s)[2] = b
  BY DEF CondExpArgs

LEMMA TwoDomain ==
  ASSUME NEW a \in Nat, NEW b \in Nat, NEW s \in Seq(Nat)
  PROVE  DOMAIN CondExpArgs(a, b, s) = 1 .. Len(s) + 2
  BY DEF CondExpArgs

LEMMA TwoShift ==
  ASSUME NEW a \in Nat, NEW b \in Nat, NEW s \in Seq(Nat)
  PROVE  \A k \in 1 .. Len(s) : CondExpArgs(a, b, s)[k + 2] = s[k]
  BY DEF CondExpArgs

LEMMA TwoBefore ==
  ASSUME NEW a \in Nat, NEW b \in Nat, NEW s \in Seq(Nat), Len(s) = 4
  PROVE  LET q == CondExpArgs(a, b, s)
         IN  /\ q \in Seq(Nat) /\ Len(q) = 6 /\ q[1] = a /\ q[2] = b
             /\ \A k \in 1 .. 4 : q[k + 2] = s[k]
<1> DEFINE q == CondExpArgs(a, b, s)
<1>1. q \in Seq(Nat) /\ q[1] = a /\ q[2] = b
  BY TwoFirst
<1>2. \A k \in 1 .. 4 : q[k + 2] = s[k]
  BY TwoShift
<1>3. 6 = Len(s) + 2
  OBVIOUS
<1>4. DOMAIN q = 1 .. 6
  BY <1>3, TwoDomain
<1> HIDE DEF q
<1>5. Len(q) = 6
  BY <1>1, <1>4
<1>6. QED
  BY <1>1, <1>2, <1>5 DEF q

LEMMA CondExpWords ==
  ASSUME NEW a \in Nat, NEW b \in Nat, NEW s \in Seq(Nat), Len(s) = 4,
         NEW u, NEW c, Reads(u, c, CondExpArgs(a, b, s))
  PROVE  /\ Len(CondExpArgs(a, b, s)) = 6 /\ Arg(u, c, 0) = a /\ Arg(u, c, 1) = b
         /\ \A k \in 1 .. 4 : Arg(u, c, k + 1) = s[k]
<1> DEFINE q == CondExpArgs(a, b, s)
<1>1. Len(q) = 6 /\ q[1] = a /\ q[2] = b
  BY TwoBefore
<1>2. \A k \in 1 .. 4 : q[k + 2] = s[k]
  BY TwoShift
<1> HIDE DEF q
<1>3. Arg(u, c, 0) = q[0 + 1] /\ Arg(u, c, 1) = q[1 + 1]
  BY <1>1 DEF q, Reads
<1>4. ASSUME NEW k \in 1 .. 4
      PROVE  Arg(u, c, k + 1) = s[k]
  <2>1. k + 1 \in Nat /\ k + 1 < 6 /\ (k + 1) + 1 = k + 2
    OBVIOUS
  <2>2. Arg(u, c, k + 1) = q[(k + 1) + 1]
    BY <1>1, <2>1 DEF q, Reads
  <2>3. QED
    BY <1>2, <2>1, <2>2
<1>5. QED
  BY <1>1, <1>2, <1>3, <1>4 DEF q

(* An operator of the recording p, put with other arguments. *)
PrefixOf(p, i) ==
  IF p.op_rec_[i].op = "CExp" THEN <<Arg(p, At(p, i), 0), Arg(p, At(p, i), 1)>> ELSE <<>>

CopiedWords(p, i, args) == PrefixOf(p, i) \o args

CopiedAt(t, u, p, i, args) ==
  /\ Listed(t)
  /\ p.op_rec_[i] \in OpCodeRec /\ p.op_rec_[i].op \notin Optimized
  /\ p.op_rec_[i].op # "Begin"
  /\ p.op_rec_[i].op = "CExp" =>
       Arg(p, At(p, i), 0) \in Nat /\ Arg(p, At(p, i), 1) \in Nat
  /\ args \in Seq(Nat) /\ DOMAIN args = DOMAIN InstrOf(p, i).arg
  /\ CopiedWords(p, i, args) \in Seq(Nat)
  /\ Extended(t, u, p.op_rec_[i], CopiedWords(p, i, args))

LEMMA CopiedLine ==
  ASSUME NEW t, NEW u, NEW p, NEW i, NEW args, CopiedAt(t, u, p, i, args)
  PROVE  LET ins == InstrOf(u, t.num_op_rec)
         IN  /\ ins.op = InstrOf(p, i).op /\ ins.kind = InstrOf(p, i).kind
             /\ ins.arg = args /\ ins.res = u.num_var_rec - 1
             /\ Size(u, t.num_op_rec) = Len(CopiedWords(p, i, args))
<1> DEFINE c == At(u, t.num_op_rec)
           d == At(p, i)
           n == t.num_op_rec
           code == p.op_rec_[i]
           words == CopiedWords(p, i, args)
<1>0. /\ Listed(t) /\ code \in OpCodeRec /\ code.op \notin Optimized /\ code.op # "Begin"
      /\ code.op = "CExp" => Arg(p, d, 0) \in Nat /\ Arg(p, d, 1) \in Nat
      /\ args \in Seq(Nat) /\ DOMAIN args = DOMAIN InstrOf(p, i).arg /\ words \in Seq(Nat)
      /\ Extended(t, u, code, words)
  BY DEF CopiedAt
<1>1. OpAt(u, c) = code /\ c.var_index_ = u.num_var_rec - 1 /\ u.op_rec_[n] = code
      /\ OpAt(p, d) = code
  BY <1>0, NewWords DEF Extended, OpAt, At
<1>2. \A k \in Nat : k < Len(words) => Arg(u, c, k) = words[k + 1]
  BY <1>0, NewWords
<1>3. CASE code.op = "CExp"
  <2>1. InstrOf(p, i) = CondExpAt(p, d) /\ InstrOf(u, n) = CondExpAt(u, c)
    BY <1>1, <1>3 DEF InstrOf, Instr
  <2>2. DOMAIN args = 1 .. 4
    BY <1>0, <2>1 DEF CondExpAt
  <2>3. Len(args) = 4
    BY <1>0, <2>2
  <2>4. words = CondExpArgs(Arg(p, d, 0), Arg(p, d, 1), args)
    BY <1>3 DEF PrefixOf, CondExpArgs, CopiedWords
  <2>5. PICK a \in Nat, b \in Nat : a = Arg(p, d, 0) /\ b = Arg(p, d, 1)
    BY <1>0, <1>3
  <2>6. words = CondExpArgs(a, b, args)
    BY <2>4, <2>5
  <2>7. Len(words) = 6 /\ Arg(u, c, 0) = Arg(p, d, 0) /\ Arg(u, c, 1) = Arg(p, d, 1)
        /\ \A k \in 1 .. 4 : Arg(u, c, k + 1) = args[k]
    <3>1. /\ Len(words) = 6 /\ Arg(u, c, 0) = a /\ Arg(u, c, 1) = b
          /\ \A k \in 1 .. 4 : Arg(u, c, k + 1) = args[k]
      <4>1. Reads(u, c, CondExpArgs(a, b, args))
        BY <1>2, <2>6 DEF Reads
      <4> HIDE DEF c
      <4>2. QED
        BY <1>0, <2>3, <2>6, <4>1, CondExpWords
    <3>2. QED
      BY <2>5, <3>1
  <2>8. InstrOf(u, n).op = InstrOf(p, i).op /\ InstrOf(u, n).kind = InstrOf(p, i).kind
        /\ InstrOf(u, n).res = u.num_var_rec - 1
    BY <1>1, <2>1, <2>7 DEF CondExpAt
  <2>9. InstrOf(u, n).arg = args
    <3>1. InstrOf(u, n).arg = [k \in 1 .. 4 |-> Arg(u, c, k + 1)]
      BY <2>1 DEF CondExpAt
    <3>2. args = [k \in 1 .. 4 |-> args[k]]
      BY <1>0, <2>2
    <3>3. QED
      BY <2>7, <3>1, <3>2
  <2>10. Size(u, n) = 6
    BY <1>1, <1>3 DEF Size, NumArg, Optimized
  <2>11. QED
    BY <2>7, <2>8, <2>9, <2>10
<1>4. CASE code.op # "CExp"
  <2>1. code.op # "CSum" /\ code.op # "CSkip"
    BY <1>0 DEF Optimized
  <2>2. code.kind \in Seq({"v", "p"})
    BY <1>0 DEF OpCodeRec
  <2>3. /\ InstrOf(p, i) = [op |-> code.op, kind |-> code.kind,
                            arg |-> [k \in DOMAIN code.kind |-> Arg(p, d, k - 1)],
                            res |-> d.var_index_]
        /\ InstrOf(u, n) = [op |-> code.op, kind |-> code.kind,
                            arg |-> [k \in DOMAIN code.kind |-> Arg(u, c, k - 1)],
                            res |-> c.var_index_]
    BY <1>1, <1>4, <2>1 DEF InstrOf, Instr
  <2>4. DOMAIN args = DOMAIN code.kind /\ Len(args) = Len(code.kind)
    <3>1. DOMAIN args = DOMAIN code.kind
      BY <1>0, <2>3
    <3>2. QED
      BY <1>0, <2>2, <3>1
  <2>5. words = args
    <3>1. PrefixOf(p, i) = <<>>
      BY <1>4 DEF PrefixOf
    <3>2. QED
      BY <1>0, <3>1 DEF CopiedWords
  <2>6. \A k \in DOMAIN code.kind : Arg(u, c, k - 1) = args[k]
    <3>1. \A k \in DOMAIN code.kind : k - 1 \in Nat /\ k - 1 < Len(words) /\ (k - 1) + 1 = k
      BY <2>2, <2>4, <2>5
    <3>2. QED
      BY <1>2, <2>5, <3>1
  <2>7. InstrOf(u, n).arg = args
    <3>1. args = [k \in DOMAIN code.kind |-> args[k]]
      BY <1>0, <2>4
    <3>2. InstrOf(u, n).arg = [k \in DOMAIN code.kind |-> Arg(u, c, k - 1)]
      BY <2>3
    <3> HIDE DEF c, n
    <3>3. QED
      BY <2>6, <3>1, <3>2
  <2>8. Size(u, n) = Len(words)
    <3>1. Size(u, n) = NumArg(code)
      BY <1>1, <2>1 DEF Size
    <3>2. NumArg(code) = Len(code.kind)
      BY <1>0, <1>4 DEF NumArg
    <3>3. QED
      BY <2>4, <2>5, <3>1, <3>2
  <2>9. QED
    BY <1>1, <2>3, <2>7, <2>8
<1>5. QED
  BY <1>3, <1>4

(* A cumulative sum of m variables that are added and l that are subtracted *)
(* is put.                                                                 *)
SumPut(t, u, code, m, l, words) ==
  /\ Listed(t) /\ code.op = "CSum" /\ code = u.op_rec_[t.num_op_rec]
  /\ m \in Nat /\ l \in Nat /\ words \in Seq(Nat) /\ Len(words) = m + l + 4
  /\ words[1] = m /\ words[2] = l /\ words[m + l + 4] = m + l
  /\ Extended(t, u, code, words)

(* What it reads as. *)
LEMMA SumLine ==
  ASSUME NEW t, NEW u, NEW code, NEW m, NEW l, NEW words, SumPut(t, u, code, m, l, words)
  PROVE  LET ins == InstrOf(u, t.num_op_rec)
             c == At(u, t.num_op_rec)
         IN  /\ ins.op = "CSum" /\ ins.add = m /\ ins.res = u.num_var_rec - 1
             /\ ins.kind = [k \in 1 .. m + l + 1 |-> IF k = 1 THEN "p" ELSE "v"]
             /\ ins.arg = [k \in 1 .. m + l + 1 |-> words[k + 2]]
             /\ Size(u, t.num_op_rec) = Len(words)
             /\ Arg(u, c, 0) = m /\ Arg(u, c, 1) = l /\ Arg(u, c, m + l + 3) = m + l
<1> USE DEF SumPut
<1> DEFINE c == At(u, t.num_op_rec)
           n == t.num_op_rec
<1>1. OpAt(u, c) = code /\ c.var_index_ = u.num_var_rec - 1
  BY NewWords
<1>2. \A k \in Nat : k < Len(words) => Arg(u, c, k) = words[k + 1]
  BY NewWords
<1>3. Arg(u, c, 0) = m /\ Arg(u, c, 1) = l /\ Arg(u, c, m + l + 3) = m + l
  <2>1. 0 < Len(words) /\ 1 < Len(words) /\ m + l + 3 \in Nat /\ m + l + 3 < Len(words)
        /\ (m + l + 3) + 1 = m + l + 4
    OBVIOUS
  <2>2. Arg(u, c, 0) = words[0 + 1] /\ Arg(u, c, 1) = words[1 + 1]
        /\ Arg(u, c, m + l + 3) = words[(m + l + 3) + 1]
    BY <1>2, <2>1
  <2>3. QED
    BY <2>1, <2>2
<1>4. \A k \in 1 .. m + l + 1 : Arg(u, c, k + 1) = words[k + 2]
  <2>1. \A k \in 1 .. m + l + 1 : k + 1 \in Nat /\ k + 1 < Len(words) /\ (k + 1) + 1 = k + 2
    OBVIOUS
  <2>2. QED
    BY <1>2, <2>1
<1>5. InstrOf(u, n) = CSumAt(u, c)
  BY <1>1 DEF InstrOf, Instr
<1>6. Size(u, n) = m + l + 4
  BY <1>3 DEF Size
<1>7. CSumAt(u, c) = [op |-> "CSum", add |-> Arg(u, c, 0),
                      kind |-> [k \in 1 .. Arg(u, c, 0) + Arg(u, c, 1) + 1 |->
                                  IF k = 1 THEN "p" ELSE "v"],
                      arg |-> [k \in 1 .. Arg(u, c, 0) + Arg(u, c, 1) + 1 |-> Arg(u, c, k + 1)],
                      res |-> c.var_index_]
  BY DEF CSumAt
<1> HIDE DEF c, n
<1>8. InstrOf(u, n).arg = [k \in 1 .. m + l + 1 |-> Arg(u, c, k + 1)]
  BY <1>3, <1>5, <1>7
<1>9. InstrOf(u, n).arg = [k \in 1 .. m + l + 1 |-> words[k + 2]]
  BY <1>4, <1>8
<1>10. InstrOf(u, n).op = "CSum" /\ InstrOf(u, n).add = m
       /\ InstrOf(u, n).res = u.num_var_rec - 1
       /\ InstrOf(u, n).kind = [k \in 1 .. m + l + 1 |-> IF k = 1 THEN "p" ELSE "v"]
  BY <1>1, <1>3, <1>5, <1>7
<1>11. QED
  BY <1>3, <1>6, <1>9, <1>10 DEF c, n

(* The operator a recorder starts with. *)
LEMMA BegunFirst ==
  ASSUME NEW t, Listed(t), t.num_op_rec = 1, t.num_op_arg_rec = 1, t.num_var_rec = 1,
         t.op_rec_[0] = [op |-> "Begin", kind |-> <<>>], t.first[0] = 0, t.last[0] = 0
  PROVE  Begun(t)
<1> DEFINE ins == InstrOf(t, 0)
<1>1. OpAt(t, At(t, 0)) = [op |-> "Begin", kind |-> <<>>]
  BY DEF OpAt, At
<1>2. ins = [op |-> "Begin", kind |-> <<>>, arg |-> [k \in DOMAIN <<>> |-> Arg(t, At(t, 0), k - 1)],
             res |-> At(t, 0).var_index_]
  BY <1>1 DEF InstrOf, Instr
<1>3. DOMAIN <<>> = {}
  OBVIOUS
<1>4. ins.op = "Begin" /\ ins.kind = <<>> /\ DOMAIN ins.arg = {}
  BY <1>2, <1>3
<1>5. Len(ins.arg) = 0 /\ Len(ins.kind) = 0
  <2>1. ins.arg = <<>>
    BY <1>2, <1>3
  <2>2. QED
    BY <1>4, <2>1
<1>6. Size(t, 0) = 1
  <2>1. t.op_rec_[0].op = "Begin"
    OBVIOUS
  <2>2. NumArg(t.op_rec_[0]) = 1
    BY <2>1 DEF NumArg, Optimized
  <2>3. Size(t, 0) = NumArg(t.op_rec_[0])
    BY <2>1 DEF Size
  <2>4. QED
    BY <2>2, <2>3
<1>7. ArgsValid(ins, Len(t.par_rec_))
  BY <1>4, <1>5 DEF ArgsValid
<1>8. t.n \in Nat
  BY DEF Listed
<1>9. Line(t, 0)
  <2>1. 0 \notin 1 .. t.n
    BY <1>8
  <2> HIDE DEF ins
  <2>2. QED
    BY <1>4, <1>6, <1>7, <2>1 DEF Line, ins
<1>10. QED
  BY <1>6, <1>9 DEF Begun, Op

(* The results of a recording that is written come one after the other. *)
LEMMA BegunOrdered ==
  ASSUME NEW t, Begun(t), NEW i \in Op(t), NEW k \in Op(t), i < k
  PROVE  t.last[i] + NumRes(t.op_rec_[k].op) <= t.last[k]
<1>1. /\ t.num_op_rec \in Nat /\ \A j \in Op(t) : t.last[j] \in Nat
      /\ Op(t) = 0 .. t.num_op_rec - 1 /\ i \in Nat /\ k \in Nat
  <2>1. t.num_op_rec \in Nat /\ t.last \in [Op(t) -> Nat]
    BY DEF Begun, Listed
  <2>2. Op(t) = 0 .. t.num_op_rec - 1
    BY DEF Op
  <2>3. i \in Nat /\ k \in Nat
    BY <2>2
  <2>4. QED
    BY <2>1, <2>2, <2>3
<1>2. \A j \in 1 .. t.num_op_rec - 1 :
        t.last[j] = t.last[j - 1] + NumRes(t.op_rec_[j].op)
  BY DEF Begun
<1>3. \A op : NumRes(op) \in Nat
  BY DEF NumRes
<1> DEFINE m == k - 1 - i
           f == [j \in 0 .. m |-> t.last[i + j]]
<1>4. m \in Nat /\ \A j \in 0 .. m : i + j \in Op(t)
  BY <1>1
<1>5. \A j \in 0 .. m : f[j] \in Nat
  BY <1>1, <1>4
<1>6. ASSUME NEW j \in 0 .. m - 1
      PROVE  f[j] <= f[j + 1]
  <2>1. j \in 0 .. m /\ j + 1 \in 0 .. m /\ i + (j + 1) \in 1 .. t.num_op_rec - 1
        /\ (i + (j + 1)) - 1 = i + j
    BY <1>1, <1>4
  <2>2. t.last[i + (j + 1)] = t.last[i + j] + NumRes(t.op_rec_[i + (j + 1)].op)
    BY <1>2, <2>1
  <2>3. f[j] = t.last[i + j] /\ f[j + 1] = t.last[i + (j + 1)]
    BY <2>1
  <2>4. t.last[i + j] \in Nat
    BY <1>1, <1>4, <2>1
  <2> HIDE DEF f, m
  <2>5. QED
    BY <1>3, <2>2, <2>3, <2>4
<1>7. f[0] <= f[m]
  <2>1. 0 \in 0 .. m
    BY <1>4
  <2> HIDE DEF f, m
  <2>2. QED
    BY <1>4, <1>5, <1>6, <2>1, Climbing
<1>8. f[0] = t.last[i] /\ f[m] = t.last[k - 1]
  <2>1. i + 0 = i /\ i + m = k - 1 /\ 0 \in 0 .. m /\ m \in 0 .. m
    BY <1>1, <1>4
  <2> HIDE DEF m
  <2>2. QED
    BY <2>1
<1>9. k \in 1 .. t.num_op_rec - 1 /\ k - 1 \in Op(t)
  BY <1>1
<1>10. t.last[k] = t.last[k - 1] + NumRes(t.op_rec_[k].op) /\ t.last[k - 1] \in Nat
       /\ t.last[i] \in Nat
  BY <1>1, <1>2, <1>9
<1> HIDE DEF f, m
<1>11. QED
  BY <1>3, <1>7, <1>8, <1>10

(* A recording that is complete is one a player can play. *)
LEMMA Finished ==
  ASSUME NEW t, Begun(t), t.num_op_rec > t.n + 1,
         \A i \in Op(t) : t.op_rec_[i].op = "End" <=> i = t.num_op_rec - 1,
         t.dep_taddr_ \in Seq(1 .. t.num_var_rec - 1),
         \A j \in DOMAIN t.dep_taddr_ : t.dep_taddr_[j] \in {t.last[k] : k \in Op(t)}
  PROVE  WellFormed(t)
<1>1. Listed(t) /\ \A i \in Op(t) : Line(t, i)
  BY DEF Begun
<1>2. /\ t.num_op_rec \in Nat /\ t.num_op_rec - 1 \in Op(t)
      /\ Op(t) = 0 .. t.num_op_rec - 1 /\ DOMAIN t.op_rec_ = Op(t)
  BY <1>1 DEF Begun, Listed, Op
<1>3. Vectors(t)
  BY <1>1, <1>2 DEF Listed, Vectors
<1>4. \A i \in DOMAIN t.op_rec_ :
        /\ t.op_rec_[i].op = "Begin" <=> i = 0
        /\ t.op_rec_[i].op = "Inv" <=> i \in 1 .. t.n
        /\ t.op_rec_[i].op = "End" <=> i = t.num_op_rec - 1
  BY <1>1, <1>2 DEF Line
<1>5. Adjacent(t)
  <2>1. t.op_rec_[t.num_op_rec - 1].op = "End" /\ t.op_rec_[t.num_op_rec - 1] \in OpCodeRec
    BY <1>1, <1>2 DEF Listed
  <2>2. t.op_rec_[t.num_op_rec - 1].kind \in OperandKinds("End")
    BY <2>1 DEF OpCodeRec
  <2>3. OperandKinds("End") = {<<>>}
    BY UnaryAssumption DEF OperandKinds, Binary, Comparison
  <2>4. NumArg(t.op_rec_[t.num_op_rec - 1]) = 0
    BY <2>1, <2>2, <2>3 DEF NumArg, Optimized
  <2>5. Size(t, t.num_op_rec - 1) = 0
    BY <2>1, <2>4 DEF Size
  <2>6. t.first[t.num_op_rec - 1] + Size(t, t.num_op_rec - 1) = t.num_op_arg_rec
        /\ t.first[t.num_op_rec - 1] \in Nat
    BY <1>1, <1>2 DEF Begun, Listed
  <2>7. t.first[t.num_op_rec - 1] = t.num_op_arg_rec
    BY <2>5, <2>6
  <2>8. QED
    BY <2>7 DEF Begun, Adjacent
<1>6. Ordered(t)
  <2>1. ASSUME NEW i \in Op(t)
        PROVE  /\ \A k \in i + 1 .. t.num_op_rec - 1 :
                    t.last[i] + NumRes(t.op_rec_[k].op) <= t.last[k]
               /\ t.op_rec_[i].op = "CExp" => InstrOf(t, i).op \in CondExp
               /\ ArgsValid(InstrOf(t, i), Len(t.par_rec_))
               /\ \A j \in DOMAIN InstrOf(t, i).arg :
                    InstrOf(t, i).kind[j] = "v" =>
                      InstrOf(t, i).arg[j] \in {t.last[k] : k \in 0 .. i - 1}
    <3>1. \A k \in i + 1 .. t.num_op_rec - 1 : k \in Op(t) /\ i < k
      BY <1>2
    <3>2. \A k \in i + 1 .. t.num_op_rec - 1 :
            t.last[i] + NumRes(t.op_rec_[k].op) <= t.last[k]
      BY <3>1, BegunOrdered
    <3>3. Line(t, i)
      BY <1>1
    <3>4. QED
      BY <3>2, <3>3 DEF Line
  <2>2. QED
    BY <1>2, <2>1 DEF Ordered, InstrOf
<1>7. Counted(t)
  <2>1. ASSUME NEW i \in Op(t)
        PROVE  /\ t.op_rec_[i].op # "CSkip"
               /\ t.op_rec_[i].op = "CSum" =>
                    /\ t.first[i] + 3 < t.num_op_arg_rec
                    /\ Arg(t, At(t, i), Size(t, i) - 1)
                         = Arg(t, At(t, i), 0) + Arg(t, At(t, i), 1)
    <3>1. Line(t, i) /\ t.first[i] \in Nat /\ t.num_op_arg_rec \in Nat
      BY <1>1 DEF Listed
    <3>2. ASSUME t.op_rec_[i].op = "CSum" PROVE t.first[i] + 3 < t.num_op_arg_rec
      <4>1. Size(t, i) = Arg(t, At(t, i), 0) + Arg(t, At(t, i), 1) + 4
        BY <3>2 DEF Size
      <4>2. Arg(t, At(t, i), 0) \in Nat /\ Arg(t, At(t, i), 1) \in Nat
            /\ t.first[i] + Size(t, i) <= t.num_op_arg_rec
        BY <3>1, <3>2 DEF Line
      <4>3. QED
        BY <3>1, <4>1, <4>2
    <3>3. QED
      BY <3>1, <3>2 DEF Line
  <2>2. QED
    BY <1>2, <2>1 DEF Counted
<1>8. QED
  BY <1>3, <1>4, <1>5, <1>6, <1>7 DEF WellFormed

-----------------------------------------------------------------------------
(* Totals of sequences that grow, and of those that are turned round.      *)
LEMMA TotalAppend ==
  ASSUME NEW n \in Nat, NEW s \in [1 .. n -> Num], NEW q \in [1 .. n + 1 -> Num],
         \A k \in 1 .. n : q[k] = s[k]
  PROVE  Total(q) = Total(s) ++ q[n + 1]
<1>1. n + 1 \in Nat /\ n + 1 \in 1 .. n + 1 /\ (n + 1) - 1 = n
  OBVIOUS
<1>2. PICK g : Sums(n + 1, Zero, q, g) /\ Total(q) = g[n + 1]
  BY <1>1, TotalSums
<1> DEFINE h == [k \in 0 .. n |-> g[k]]
<1>3. h \in [0 .. n -> Num] /\ h[0] = Zero /\ h[n] = g[n]
  BY <1>2 DEF Sums
<1>4. ASSUME NEW k \in 1 .. n PROVE h[k] = h[k - 1] ++ s[k]
  <2>1. g[k] = g[k - 1] ++ q[k]
    BY <1>2 DEF Sums
  <2>2. QED
    BY <2>1
<1> HIDE DEF h
<1>5. Sums(n, Zero, s, h)
  BY <1>3, <1>4 DEF Sums
<1>6. Total(s) = g[n]
  BY <1>3, <1>5, TotalIs
<1>7. g[n + 1] = g[n] ++ q[n + 1]
  BY <1>1, <1>2 DEF Sums
<1>8. QED
  BY <1>2, <1>6, <1>7

LEMMA TotalReversed ==
  ASSUME Ring, NEW n \in Nat, NEW s \in [1 .. n -> Num], NEW r \in [1 .. n -> Num],
         \A k \in 1 .. n : r[k] = s[n - k + 1]
  PROVE  Total(r) = Total(s)
<1>1. PICK g : Sums(n, Zero, s, g) /\ Total(s) = g[n]
  BY TotalSums
<1>2. PICK h : Sums(n, Zero, r, h) /\ Total(r) = h[n]
  BY TotalSums
<1> DEFINE T == {k \in 0 .. n : g[n] = h[k] ++ g[n - k]}
<1>3. 0 \in T
  <2>1. g[n] \in Num /\ h[0] = Zero
    BY <1>1, <1>2 DEF Sums
  <2>2. QED
    BY <2>1, RingMonoids
<1>4. ASSUME NEW k \in 1 .. n, k - 1 \in T PROVE k \in T
  <2>1. k - 1 \in 0 .. n /\ n - k \in 0 .. n /\ n - (k - 1) = n - k + 1
        /\ n - k + 1 \in 1 .. n /\ (n - k + 1) - 1 = n - k
    OBVIOUS
  <2>2. g[n] = h[k - 1] ++ g[n - k + 1]
    BY <1>4, <2>1
  <2>3. g[n - k + 1] = g[n - k] ++ s[n - k + 1]
    BY <1>1, <2>1 DEF Sums
  <2>4. h[k] = h[k - 1] ++ s[n - k + 1]
    BY <1>2 DEF Sums
  <2>5. h[k - 1] \in Num /\ g[n - k] \in Num /\ s[n - k + 1] \in Num
    BY <1>1, <1>2, <2>1 DEF Sums
  <2>6. ASSUME NEW a \in Num, NEW b \in Num, NEW c \in Num
        PROVE  a ++ (b ++ c) = (a ++ c) ++ b
    <3>1. b ++ c = c ++ b
      BY RingMonoids
    <3>2. QED
      BY <3>1, RingMonoids
  <2>7. g[n] = h[k] ++ g[n - k]
    BY <2>2, <2>3, <2>4, <2>5, <2>6
  <2>8. QED
    BY <2>7
<1> HIDE DEF T
<1>5. n \in T
  <2>1. \A k \in 0 .. n : k \in T
    BY <1>3, <1>4, UpTo, Zenon
  <2>2. QED
    BY <2>1
<1>6. g[n] = h[n] ++ Zero /\ h[n] \in Num
  BY <1>1, <1>2, <1>5 DEF T, Sums
<1>7. QED
  BY <1>1, <1>2, <1>6, RingMonoids

LEMMA MinusAdds ==
  ASSUME Ring
  PROVE  /\ \A m, n \in Num : Minus(m ++ n) = Minus(m) ++ Minus(n)
         /\ \A m \in Num : Minus(Minus(m)) = m
<1>1. ASSUME NEW m \in Num PROVE Minus(m) = Minus(One) ** m
  BY RingMinus
<1>2. ASSUME NEW m \in Num, NEW n \in Num PROVE Minus(m ++ n) = Minus(m) ++ Minus(n)
  <2>1. m ++ n \in Num /\ Minus(One) \in Num
    BY Closed
  <2>2. Minus(One) ** (m ++ n) = (Minus(One) ** m) ++ (Minus(One) ** n)
    BY <2>1, RingMonoids
  <2>3. QED
    BY <1>1, <2>1, <2>2
<1>3. ASSUME NEW m \in Num PROVE Minus(Minus(m)) = m
  <2>1. Minus(m) \in Num /\ Minus(Minus(m)) \in Num
    BY Closed
  <2>2. m ++ Minus(m) = Zero /\ Minus(m) ++ Minus(Minus(m)) = Zero
        /\ Minus(m) ++ m = m ++ Minus(m)
    BY <2>1, RingMonoids
  <2>3. Minus(m) ++ Minus(Minus(m)) = Minus(m) ++ m
    BY <2>2
  <2>4. QED
    BY <2>1, <2>3, Cancel
<1>4. QED
  BY <1>2, <1>3

(* Sums that start from a number, and differences.                         *)
LEMMA FoldTotals ==
  ASSUME Ring, NEW n \in Nat, NEW b \in Num, NEW s \in [1 .. n -> Num]
  PROVE  /\ PlusOver(b, s) = b ++ Total(s)
         /\ MinusOver(b, s) = b ++ Minus(Total(s))
<1>1. PICK g : Sums(n, Zero, s, g) /\ Total(s) = g[n]
  BY TotalSums
<1>2. PICK h : Sums(n, b, s, h) /\ PlusOver(b, s) = h[n]
  BY PlusFold
<1>3. PICK f : Differences(n, b, s, f) /\ MinusOver(b, s) = f[n]
  BY MinusFold
<1> DEFINE T == {k \in 0 .. n : h[k] = b ++ g[k] /\ f[k] = b ++ Minus(g[k])}
<1>4. 0 \in T
  <2>1. h[0] = b /\ f[0] = b /\ g[0] = Zero
    BY <1>1, <1>2, <1>3 DEF Sums, Differences
  <2>2. b ++ Zero = b /\ Minus(Zero) = Zero
    BY RingMonoids, RingMinus
  <2>3. QED
    BY <2>1, <2>2
<1>5. ASSUME NEW k \in 1 .. n, k - 1 \in T PROVE k \in T
  <2>1. h[k] = h[k - 1] ++ s[k] /\ f[k] = f[k - 1] -- s[k] /\ g[k] = g[k - 1] ++ s[k]
    BY <1>1, <1>2, <1>3 DEF Sums, Differences
  <2>2. h[k - 1] = b ++ g[k - 1] /\ f[k - 1] = b ++ Minus(g[k - 1])
    BY <1>5
  <2>3. g[k - 1] \in Num /\ s[k] \in Num /\ f[k - 1] \in Num /\ Minus(g[k - 1]) \in Num
        /\ Minus(s[k]) \in Num
    BY <1>1, <1>3, Closed DEF Sums, Differences
  <2>4. h[k] = b ++ g[k]
    BY <2>1, <2>2, <2>3, RingMonoids
  <2>5. f[k] = f[k - 1] ++ Minus(s[k])
    BY <2>1, <2>3, RingMonoids
  <2>6. f[k] = b ++ (Minus(g[k - 1]) ++ Minus(s[k]))
    BY <2>2, <2>3, <2>5, RingMonoids
  <2>7. Minus(g[k]) = Minus(g[k - 1]) ++ Minus(s[k])
    BY <2>1, <2>3, MinusAdds
  <2>8. QED
    BY <2>4, <2>6, <2>7
<1> HIDE DEF T
<1>6. n \in T
  BY <1>4, <1>5, UpTo
<1>7. QED
  BY <1>1, <1>2, <1>3, <1>6 DEF T

-----------------------------------------------------------------------------
(* Playing a recording that has no conditional skips.                      *)

(* The coefficients of order 1 of operands, from those of the variables.   *)
Slopes(ins, var) ==
  [j \in DOMAIN ins.arg |-> IF ins.kind[j] = "v" THEN var[ins.arg[j]] ELSE Zero]

(* The coefficients zero and one of all variables, and the outcomes said   *)
(* before each operator, are as operator i makes them.                     *)
Ran(t, v, i) ==
  LET ins == InstrOf(t, i)
      s == Operands(ins, v.zero, t.par_rec_)
      z == Order0(ins, s)
  IN  /\ ins.op \in Computing =>
           /\ v.zero[ins.res] = z
           /\ v.one[ins.res] = Order1(ins, s, Slopes(ins, v.one), z, Aux(ins.op, s))
      /\ v.said[i + 1] = IF ins.op \in Comparison
                           THEN Append(v.said[i], Holds(ins.op, s[1], s[2]))
                           ELSE v.said[i]

Run(t, v) ==
  /\ \A a \in Address(t) : v.zero[a] \in Num /\ v.one[a] \in Num
  /\ v.said[0] = <<>>
  /\ \A i \in Op(t) : Ran(t, v, i)

(* What is right for a recording is right for its beginning. *)
LEMMA RunBegun ==
  ASSUME NEW t, Begun(t), NEW u, NEW code, NEW words \in Seq(Nat), Extended(t, u, code, words),
         NEW v, Run(u, v)
  PROVE  Run(t, v)
<1>1. /\ t.num_var_rec \in Nat /\ u.num_var_rec = t.num_var_rec + NumRes(code.op)
      /\ t.par_rec_ \in Seq(Num) /\ u.num_op_rec = t.num_op_rec + 1 /\ t.num_op_rec \in Nat
  BY DEF Begun, Listed, Extended
<1>2. NumRes(code.op) \in Nat
  BY DEF NumRes
<1>3. \A a \in Address(t) : a \in Address(u)
  BY <1>1, <1>2 DEF Address
<1>4. ASSUME NEW i \in Op(t) PROVE Ran(t, v, i)
  <2> DEFINE ins == InstrOf(t, i)
  <2>1. i \in Op(u) /\ InstrOf(u, i) = ins
    BY LineKept
  <2>2. ASSUME NEW j \in DOMAIN ins.arg, ins.kind[j] # "v"
        PROVE  t.par_rec_[ins.arg[j] + 1] = u.par_rec_[ins.arg[j] + 1]
    <3>1. ArgsValid(ins, Len(t.par_rec_)) /\ ins.arg[j] \in Nat
      BY <2>2 DEF Begun, Line
    <3>2. ins.arg[j] < Len(t.par_rec_) /\ Len(t.par_rec_) \in Nat
      BY <1>1, <2>2, <3>1 DEF ArgsValid
    <3>3. ins.arg[j] + 1 \in 1 .. Len(t.par_rec_)
      BY <3>1, <3>2
    <3>4. QED
      BY <3>3 DEF Extended
  <2>3. Operands(ins, v.zero, t.par_rec_) = Operands(ins, v.zero, u.par_rec_)
    BY <2>2 DEF Operands
  <2>4. Ran(u, v, i)
    BY <2>1 DEF Run
  <2> HIDE DEF ins
  <2>5. QED
    BY <2>1, <2>3, <2>4 DEF Ran, ins
<1>5. QED
  BY <1>3, <1>4 DEF Run

(* Two operators of the same kind on the same operands.                    *)
Alike(t, x, i, u, y, k) ==
  LET f == InstrOf(t, i)
      e == InstrOf(u, k)
  IN  /\ f.op = e.op /\ f.op # "CSum"
      /\ Operands(f, x.zero, t.par_rec_) = Operands(e, y.zero, u.par_rec_)
      /\ Slopes(f, x.one) = Slopes(e, y.one)

LEMMA AlikeOperands ==
  ASSUME NEW t, NEW x, NEW i, NEW u, NEW y, NEW k, NEW f, NEW e,
         f = InstrOf(t, i), e = InstrOf(u, k),
         f.op = e.op, f.op # "CSum", f.kind = e.kind, DOMAIN f.arg = DOMAIN e.arg,
         \A j \in DOMAIN f.arg :
           IF f.kind[j] = "v"
             THEN x.zero[f.arg[j]] = y.zero[e.arg[j]] /\ x.one[f.arg[j]] = y.one[e.arg[j]]
             ELSE t.par_rec_[f.arg[j] + 1] = u.par_rec_[e.arg[j] + 1]
  PROVE  Alike(t, x, i, u, y, k)
<1>1. Operands(f, x.zero, t.par_rec_) = Operands(e, y.zero, u.par_rec_)
  BY DEF Operands
<1>2. Slopes(f, x.one) = Slopes(e, y.one)
  BY DEF Slopes
<1>3. QED
  BY <1>1, <1>2 DEF Alike

LEMMA AlikeResults ==
  ASSUME NEW t, NEW x, NEW i, NEW u, NEW y, NEW k, NEW f, NEW e,
         f = InstrOf(t, i), e = InstrOf(u, k), Alike(t, x, i, u, y, k),
         Ran(t, x, i), Ran(u, y, k)
  PROVE  /\ f.op \in Computing => x.zero[f.res] = y.zero[e.res] /\ x.one[f.res] = y.one[e.res]
         /\ x.said[i] = y.said[k] => x.said[i + 1] = y.said[k + 1]
<1>1. \A s : Order0(f, s) = Order0(e, s)
  BY DEF Order0, Alike
<1>2. \A s, d, z, a : Order1(f, s, d, z, a) = Order1(e, s, d, z, a)
  BY DEF Order1, Alike
<1>3. QED
  BY <1>1, <1>2 DEF Alike, Ran

(* The independent variables have the addresses 1 to n.                    *)
LEMMA InvAddress ==
  ASSUME NEW t, t.n \in Nat, t.num_op_rec \in Nat, t.last[0] = 0,
         \A i \in 1 .. t.num_op_rec - 1 : t.last[i] = t.last[i - 1] + NumRes(t.op_rec_[i].op),
         \A i \in Op(t) : i \in 1 .. t.n => t.op_rec_[i].op = "Inv",
         NEW k \in Op(t), k <= t.n
  PROVE  t.last[k] = k
<1> DEFINE T == {m \in 0 .. k : t.last[m] = m}
<1>1. NumRes("Inv") = 1
  BY UnaryAssumption DEF NumRes, Comparison
<1>2. k \in Nat /\ 0 \in T
  BY DEF Op
<1>3. ASSUME NEW m \in 1 .. k, m - 1 \in T PROVE m \in T
  <2>1. m \in 1 .. t.num_op_rec - 1 /\ m \in Op(t) /\ m \in 1 .. t.n /\ m - 1 \in Nat
    BY DEF Op
  <2>2. t.last[m] = (m - 1) + 1
    BY <1>1, <1>3, <2>1
  <2>3. QED
    BY <2>1, <2>2
<1> HIDE DEF T
<1>4. \A m \in 0 .. k : m \in T
  BY <1>2, <1>3, UpTo, Zenon
<1>5. QED
  BY <1>2, <1>4 DEF T

-----------------------------------------------------------------------------
(* Sequences of whatever. *)
IsSeq(s) == s \in Seq({s[k] : k \in DOMAIN s})

LEMMA SeqLength ==
  ASSUME NEW s, IsSeq(s)
  PROVE  Len(s) \in Nat /\ DOMAIN s = 1 .. Len(s)
  BY DEF IsSeq

LEMMA FunctionSeq ==
  ASSUME NEW n \in Nat, NEW s, NEW S, s \in [1 .. n -> S]
  PROVE  IsSeq(s) /\ Len(s) = n /\ DOMAIN s = 1 .. n
<1> DEFINE T == {s[k] : k \in DOMAIN s}
<1>1. s \in [1 .. n -> T]
  OBVIOUS
<1>2. s \in Seq(T)
  <2> HIDE DEF T
  <2>1. QED
    BY <1>1
<1>3. QED
  BY <1>2 DEF IsSeq

LEMMA SeqAppend ==
  ASSUME NEW s, IsSeq(s), NEW e
  PROVE  /\ IsSeq(Append(s, e)) /\ Len(Append(s, e)) = Len(s) + 1
         /\ \A k \in 1 .. Len(s) : Append(s, e)[k] = s[k]
         /\ Append(s, e)[Len(s) + 1] = e
<1> DEFINE T == {s[k] : k \in DOMAIN s} \union {e}
<1>1. PICK S : S = T
  OBVIOUS
<1>2. s \in Seq(S) /\ e \in S
  <2>1. s \in Seq({s[k] : k \in DOMAIN s})
    BY DEF IsSeq
  <2>2. {s[k] : k \in DOMAIN s} \subseteq S
    BY <1>1
  <2>3. DOMAIN s = 1 .. Len(s) /\ Len(s) \in Nat /\ s \in [1 .. Len(s) -> S]
    BY <2>1, <2>2
  <2>4. QED
    BY <1>1, <2>3
<1>3. /\ Append(s, e) \in Seq(S) /\ Len(Append(s, e)) = Len(s) + 1 /\ Len(s) \in Nat
      /\ \A k \in 1 .. Len(s) : Append(s, e)[k] = s[k]
      /\ Append(s, e)[Len(s) + 1] = e
  BY <1>2
<1>4. PICK r, m : r = Append(s, e) /\ m = Len(r)
  OBVIOUS
<1>5. r \in Seq(S)
  BY <1>3, <1>4
<1>6. r \in [1 .. m -> S] /\ m \in Nat
  <2>1. m = Len(r)
    BY <1>4
  <2>2. QED
    BY <2>1, <1>5
<1>7. IsSeq(r)
  BY <1>6, FunctionSeq
<1>8. QED
  BY <1>3, <1>4, <1>7

LEMMA JoinedWords ==
  ASSUME NEW S, NEW p \in Seq(S), NEW s \in Seq(S), NEW q, q = p \o s
  PROVE  /\ Len(q) = Len(p) + Len(s)
         /\ \A k \in 1 .. Len(p) : q[k] = p[k]
         /\ \A k \in 1 .. Len(s) : q[Len(p) + k] = s[k]
<1>1. Len(p) \in Nat /\ Len(s) \in Nat
  OBVIOUS
<1>2. \A k \in 1 .. Len(p) + Len(s) : q[k] = IF k <= Len(p) THEN p[k] ELSE s[k - Len(p)]
  OBVIOUS
<1>3. Len(q) = Len(p) + Len(s)
  OBVIOUS
<1>4. \A k \in 1 .. Len(p) : k \in 1 .. Len(p) + Len(s) /\ k <= Len(p)
  BY <1>1
<1>5. \A k \in 1 .. Len(s) : /\ Len(p) + k \in 1 .. Len(p) + Len(s) /\ ~ (Len(p) + k <= Len(p))
                             /\ (Len(p) + k) - Len(p) = k
  BY <1>1
<1>6. \A k \in 1 .. Len(p) : q[k] = p[k]
  BY <1>2, <1>4
<1>7. \A k \in 1 .. Len(s) : q[Len(p) + k] = s[k]
  BY <1>2, <1>5
<1>8. QED
  BY <1>3, <1>6, <1>7

-----------------------------------------------------------------------------
(* The addresses of results. *)
LEMMA BegunBound ==
  ASSUME NEW t, Begun(t)
  PROVE  \A k \in Op(t) : t.last[k] \in Nat /\ t.last[k] <= t.num_var_rec - 1
<1> DEFINE n == t.num_op_rec
<1>9. Listed(t) /\ n \in Nat /\ n > 0
  BY DEF Begun, Listed
<1>1. n - 1 \in Op(t) /\ t.last[n - 1] = t.num_var_rec - 1 /\ Op(t) = 0 .. n - 1
  BY <1>9 DEF Begun, Op
<1>2. \A k \in Op(t) : t.last[k] \in Nat
  BY <1>9 DEF Listed
<1>3. ASSUME NEW k \in Op(t) PROVE t.last[k] <= t.num_var_rec - 1
  <2>1. CASE k = n - 1
    BY <1>1, <1>2, <2>1
  <2>2. CASE k # n - 1
    <3>1. k < n - 1
      BY <1>9, <1>1, <2>2
    <3>2. t.last[k] + NumRes(t.op_rec_[n - 1].op) <= t.last[n - 1]
      BY <1>1, <3>1, BegunOrdered
    <3>3. NumRes(t.op_rec_[n - 1].op) \in 0 .. 2
      BY DEF NumRes
    <3>4. QED
      BY <1>1, <1>2, <3>2, <3>3
  <2>3. QED
    BY <2>1, <2>2
<1>4. QED
  BY <1>2, <1>3

(* What a cumulative sum is put with. *)
IsSum(w, p, s, d) ==
  /\ p \in Nat /\ s \in Seq(Nat) /\ d \in Seq(Nat)
  /\ w = <<Len(s), Len(d), p>> \o s \o d \o <<Len(s) + Len(d)>>

Joins(q, p, s) == p \in Seq(Nat) /\ s \in Seq(Nat) /\ q = p \o s

LEMMA JoinsFacts ==
  ASSUME NEW x, NEW y, NEW q, Joins(q, x, y)
  PROVE  /\ q \in Seq(Nat) /\ Len(q) = Len(x) + Len(y)
         /\ \A k \in 1 .. Len(x) : q[k] = x[k]
         /\ \A k \in 1 .. Len(y) : q[Len(x) + k] = y[k]
<1>1. x \in Seq(Nat) /\ y \in Seq(Nat) /\ q = x \o y
  BY DEF Joins
<1>2. q \in Seq(Nat)
  BY <1>1
<1>3. QED
  BY <1>1, <1>2, JoinedWords

SumReads(w, p, s, d) ==
  /\ w \in Seq(Nat) /\ Len(w) = Len(s) + Len(d) + 4
  /\ w[1] = Len(s) /\ w[2] = Len(d) /\ w[3] = p
  /\ \A k \in 1 .. Len(s), i \in Nat : i = k + 3 => w[i] = s[k]
  /\ \A k \in 1 .. Len(d), i \in Nat : i = Len(s) + k + 3 => w[i] = d[k]
  /\ w[Len(s) + Len(d) + 4] = Len(s) + Len(d)

LEMMA SumWordsFacts ==
  ASSUME NEW w, NEW p, NEW s, NEW d, IsSum(w, p, s, d)
  PROVE  SumReads(w, p, s, d)
<1> DEFINE m == Len(s)
           l == Len(d)
<1>1. m \in Nat /\ l \in Nat /\ p \in Nat /\ s \in Seq(Nat) /\ d \in Seq(Nat)
  BY DEF IsSum
<1>2. PICK a : a = <<m, l, p>>
  OBVIOUS
<1>3. a \in Seq(Nat) /\ Len(a) = 3 /\ a[1] = m /\ a[2] = l /\ a[3] = p
  BY <1>1, <1>2
<1>4. PICK z : z = <<m + l>>
  OBVIOUS
<1>5. z \in Seq(Nat) /\ Len(z) = 1 /\ z[1] = m + l
  BY <1>1, <1>4
<1>6. w = a \o s \o d \o z
  BY <1>2, <1>4 DEF IsSum
<1> HIDE DEF m, l
<1>7. PICK b : b = a \o s
  OBVIOUS
<1>8. b \in Seq(Nat) /\ Len(b) = 3 + m /\ (\A k \in 1 .. 3 : b[k] = a[k])
      /\ \A k \in 1 .. m : b[3 + k] = s[k]
  <2>1. Joins(b, a, s)
    BY <1>1, <1>3, <1>7 DEF Joins
  <2>2. \A x, y, q : Joins(q, x, y) =>
          /\ q \in Seq(Nat) /\ Len(q) = Len(x) + Len(y)
          /\ \A k \in 1 .. Len(x) : q[k] = x[k]
          /\ \A k \in 1 .. Len(y) : q[Len(x) + k] = y[k]
    BY JoinsFacts
  <2>4. /\ b \in Seq(Nat) /\ Len(b) = Len(a) + Len(s)
        /\ \A k \in 1 .. Len(a) : b[k] = a[k]
        /\ \A k \in 1 .. Len(s) : b[Len(a) + k] = s[k]
    BY <2>1, <2>2
  <2>3. QED
    BY <1>3, <2>4 DEF m
<1>9. PICK c : c = b \o d
  OBVIOUS
<1>10. c \in Seq(Nat) /\ Len(c) = 3 + m + l /\ (\A k \in 1 .. 3 + m : c[k] = b[k])
       /\ \A k \in 1 .. l : c[3 + m + k] = d[k]
  <2>1. Joins(c, b, d)
    BY <1>1, <1>8, <1>9 DEF Joins
  <2>2. /\ c \in Seq(Nat) /\ Len(c) = Len(b) + Len(d)
        /\ \A k \in 1 .. Len(b) : c[k] = b[k]
        /\ \A k \in 1 .. Len(d) : c[Len(b) + k] = d[k]
    BY <2>1, JoinsFacts
  <2>3. QED
    BY <1>8, <2>1, <2>2 DEF l
<1>11. w = c \o z
  BY <1>6, <1>7, <1>9
<1>12. w \in Seq(Nat) /\ Len(w) = 3 + m + l + 1 /\ (\A k \in 1 .. 3 + m + l : w[k] = c[k])
       /\ w[3 + m + l + 1] = m + l
  <2>1. Joins(w, c, z)
    BY <1>5, <1>10, <1>11 DEF Joins
  <2>2. /\ w \in Seq(Nat) /\ Len(w) = Len(c) + Len(z)
        /\ \A k \in 1 .. Len(c) : w[k] = c[k]
        /\ \A k \in 1 .. Len(z) : w[Len(c) + k] = z[k]
    BY <2>1, JoinsFacts
  <2>3. 1 \in 1 .. Len(z)
    BY <1>5
  <2>4. w[Len(c) + 1] = z[1]
    BY <2>2, <2>3
  <2>5. QED
    BY <1>5, <1>10, <2>1, <2>2, <2>4
<1>13. \A k \in 1 .. 3 : k \in 1 .. 3 + m /\ k \in 1 .. 3 + m + l
  BY <1>1
<1>14. w[1] = m /\ w[2] = l /\ w[3] = p
  <2>1. 1 \in 1 .. 3 /\ 2 \in 1 .. 3 /\ 3 \in 1 .. 3
    OBVIOUS
  <2>2. \A k \in 1 .. 3 : w[k] = a[k]
    BY <1>8, <1>10, <1>12, <1>13
  <2>3. QED
    BY <1>3, <2>1, <2>2
<1>15. \A k \in 1 .. m, i \in Nat : i = k + 3 => w[i] = s[k]
  <2>1. \A k \in 1 .. m : 3 + k \in 1 .. 3 + m /\ 3 + k \in 1 .. 3 + m + l /\ k + 3 = 3 + k
    BY <1>1
  <2>2. \A k \in 1 .. m : w[k + 3] = s[k]
    BY <1>8, <1>10, <1>12, <2>1
  <2>3. QED
    BY <2>2
<1>16. \A k \in 1 .. l, i \in Nat : i = m + k + 3 => w[i] = d[k]
  <2>1. \A k \in 1 .. l : 3 + m + k \in 1 .. 3 + m + l /\ m + k + 3 = 3 + m + k
    BY <1>1
  <2>2. \A k \in 1 .. l : w[m + k + 3] = d[k]
    BY <1>10, <1>12, <2>1
  <2>3. QED
    BY <2>2
<1>17. Len(w) = m + l + 4 /\ w[m + l + 4] = m + l
  <2>1. 3 + m + l + 1 = m + l + 4
    BY <1>1
  <2>2. QED
    BY <1>12, <2>1
<1>18. QED
  BY <1>12, <1>14, <1>15, <1>16, <1>17 DEF m, l, SumReads

CSumCode == [op |-> "CSum", kind |-> <<>>]

(* The cumulative sum that is put, of addresses that the new recording has. *)
CopiesSum(t, u, w, p, s, d) ==
  /\ IsSum(w, p, s, d) /\ Extended(t, u, CSumCode, w)
  /\ p < Len(u.par_rec_)
  /\ \A k \in DOMAIN s : s[k] \in {t.last[j] : j \in Op(t)} /\ s[k] > 0
  /\ \A k \in DOMAIN d : d[k] \in {t.last[j] : j \in Op(t)} /\ d[k] > 0

LEMMA SumsInstr ==
  ASSUME NEW t, Begun(t), NEW u, NEW w, NEW p, NEW s, NEW d, CopiesSum(t, u, w, p, s, d)
  PROVE  LET ins == InstrOf(u, t.num_op_rec)
             c == At(u, t.num_op_rec)
             m == Len(s)
             l == Len(d)
         IN  /\ m \in Nat /\ l \in Nat
             /\ ins.op = "CSum" /\ ins.add = m /\ ins.res = u.num_var_rec - 1
             /\ ins.kind = [k \in 1 .. m + l + 1 |-> IF k = 1 THEN "p" ELSE "v"]
             /\ ins.arg = [k \in 1 .. m + l + 1 |-> w[k + 2]]
             /\ Size(u, t.num_op_rec) = m + l + 4
             /\ Arg(u, c, 0) = m /\ Arg(u, c, 1) = l /\ Arg(u, c, m + l + 3) = m + l
<1> DEFINE m == Len(s)
           l == Len(d)
<1>1. m \in Nat /\ l \in Nat
  BY DEF CopiesSum, IsSum
<1>2. w \in Seq(Nat) /\ Len(w) = m + l + 4 /\ w[1] = m /\ w[2] = l /\ w[m + l + 4] = m + l
  BY SumWordsFacts DEF CopiesSum, SumReads
<1>3. Listed(t) /\ Extended(t, u, CSumCode, w) /\ CSumCode.op = "CSum"
      /\ u.op_rec_[t.num_op_rec] = CSumCode
  BY DEF CopiesSum, Begun, Extended, CSumCode
<1> HIDE DEF m, l
<1>6. SumPut(t, u, CSumCode, m, l, w)
  BY <1>1, <1>2, <1>3 DEF SumPut
<1>4. LET ins == InstrOf(u, t.num_op_rec)
          c == At(u, t.num_op_rec)
      IN  /\ ins.op = "CSum" /\ ins.add = m /\ ins.res = u.num_var_rec - 1
          /\ ins.kind = [k \in 1 .. m + l + 1 |-> IF k = 1 THEN "p" ELSE "v"]
          /\ ins.arg = [k \in 1 .. m + l + 1 |-> w[k + 2]]
          /\ Size(u, t.num_op_rec) = Len(w)
          /\ Arg(u, c, 0) = m /\ Arg(u, c, 1) = l /\ Arg(u, c, m + l + 3) = m + l
  BY <1>6, SumLine
<1>5. QED
  BY <1>1, <1>2, <1>4 DEF m, l

LEMMA SumArgs ==
  ASSUME NEW t, Begun(t), NEW u, NEW w, NEW p, NEW s, NEW d, CopiesSum(t, u, w, p, s, d),
         NEW j \in 2 .. Len(s) + Len(d) + 1, NEW a, a = w[j + 2]
  PROVE  /\ a \in {t.last[k] : k \in Op(t)} /\ a > 0
         /\ j - 1 <= Len(s) => j - 1 \in 1 .. Len(s) /\ a = s[j - 1]
         /\ j - 1 > Len(s) => j - 1 - Len(s) \in 1 .. Len(d) /\ a = d[j - 1 - Len(s)]
<1> DEFINE m == Len(s)
           l == Len(d)
<1>1. m \in Nat /\ l \in Nat /\ DOMAIN s = 1 .. m /\ DOMAIN d = 1 .. l
  BY DEF CopiesSum, IsSum
<1>8. IsSum(w, p, s, d)
  BY DEF CopiesSum
<1>2. /\ \A k \in 1 .. m, i \in Nat : i = k + 3 => w[i] = s[k]
      /\ \A k \in 1 .. l, i \in Nat : i = m + k + 3 => w[i] = d[k]
  <2>1. SumReads(w, p, s, d)
    BY <1>8, SumWordsFacts
  <2>2. QED
    BY <2>1 DEF SumReads
<1>3. /\ \A k \in 1 .. m : s[k] \in {t.last[i] : i \in Op(t)} /\ s[k] > 0
      /\ \A k \in 1 .. l : d[k] \in {t.last[i] : i \in Op(t)} /\ d[k] > 0
  BY <1>1 DEF CopiesSum
<1>4. a = w[j + 2] /\ j \in 2 .. m + l + 1
  OBVIOUS
<1> HIDE DEF m, l
<1>5. CASE j - 1 <= m
  <2>1. j - 1 \in 1 .. m /\ j + 2 \in Nat /\ j + 2 = (j - 1) + 3 /\ ~ (j - 1 > m)
    BY <1>1, <1>4, <1>5
  <2>2. a = s[j - 1]
    BY <1>2, <1>4, <2>1
  <2>3. QED
    BY <1>3, <2>1, <2>2 DEF m
<1>6. CASE j - 1 > m
  <2>1. j - 1 - m \in 1 .. l /\ j + 2 \in Nat /\ j + 2 = m + (j - 1 - m) + 3 /\ ~ (j - 1 <= m)
    BY <1>1, <1>4, <1>6
  <2>2. a = d[j - 1 - m]
    BY <1>2, <1>4, <2>1
  <2>3. QED
    BY <1>3, <2>1, <2>2 DEF m, l
<1>7. QED
  BY <1>1, <1>4, <1>5, <1>6

LEMMA SumBegun ==
  ASSUME NEW t, Begun(t), NEW u, NEW w, NEW p, NEW s, NEW d, CopiesSum(t, u, w, p, s, d),
         t.num_op_rec > t.n
  PROVE  Begun(u)
<1> DEFINE n == t.num_op_rec
           ins == InstrOf(u, n)
           c == At(u, n)
           m == Len(s)
           l == Len(d)
<1>1. /\ m \in Nat /\ l \in Nat
      /\ ins.op = "CSum" /\ ins.res = u.num_var_rec - 1
      /\ ins.kind = [k \in 1 .. m + l + 1 |-> IF k = 1 THEN "p" ELSE "v"]
      /\ ins.arg = [k \in 1 .. m + l + 1 |-> w[k + 2]]
      /\ Size(u, n) = m + l + 4
      /\ Arg(u, c, 0) = m /\ Arg(u, c, 1) = l /\ Arg(u, c, m + l + 3) = m + l
  BY SumsInstr
<1>2. w \in Seq(Nat) /\ Len(w) = m + l + 4 /\ w[3] = p /\ p \in Nat /\ p < Len(u.par_rec_)
  <2>1. IsSum(w, p, s, d) /\ p < Len(u.par_rec_)
    BY DEF CopiesSum
  <2>2. SumReads(w, p, s, d)
    BY <2>1, SumWordsFacts
  <2>3. w \in Seq(Nat) /\ Len(w) = m + l + 4 /\ w[3] = p
    BY <2>2 DEF SumReads
  <2>4. p \in Nat
    BY <2>1 DEF IsSum
  <2>5. QED
    BY <2>1, <2>3, <2>4
<1>3. /\ Listed(t) /\ n \in Nat /\ n > 0 /\ u.op_rec_[n].op = "CSum"
      /\ u.n = t.n /\ t.n \in Nat
      /\ u.first[n] = t.num_op_arg_rec /\ u.num_op_arg_rec = t.num_op_arg_rec + Len(w)
      /\ t.num_op_arg_rec \in Nat /\ t.num_var_rec \in Nat
      /\ u.num_var_rec = t.num_var_rec + NumRes(CSumCode.op)
      /\ Extended(t, u, CSumCode, w)
  <2>1. Listed(t) /\ n > 0 /\ Extended(t, u, CSumCode, w)
    BY DEF Begun, CopiesSum
  <2>2. n \in Nat /\ t.n \in Nat /\ t.num_op_arg_rec \in Nat /\ t.num_var_rec \in Nat
    BY <2>1 DEF Listed
  <2>3. u.op_rec_[n] = CSumCode /\ u.n = t.n /\ u.first[n] = t.num_op_arg_rec
        /\ u.num_op_arg_rec = t.num_op_arg_rec + Len(w)
        /\ u.num_var_rec = t.num_var_rec + NumRes(CSumCode.op)
    BY <2>1 DEF Extended
  <2>4. CSumCode.op = "CSum"
    BY DEF CSumCode
  <2> HIDE DEF n
  <2>5. QED
    BY <2>1, <2>2, <2>3, <2>4
<1>4. NumRes("CSum") = 1 /\ CSumCode.op = "CSum"
  BY UnaryAssumption DEF NumRes, Comparison, CSumCode, Optimized
<1>5. \A k \in Op(t) : t.last[k] \in Nat /\ t.last[k] <= t.num_var_rec - 1
  BY BegunBound
<1>6. Op(t) = 0 .. n - 1 /\ \A k \in Op(t) : u.last[k] = t.last[k]
  BY <1>3 DEF Op, Extended
<1>7. DOMAIN ins.arg = 1 .. m + l + 1 /\ Len(ins.arg) = m + l + 1 /\ Len(ins.kind) = m + l + 1
  <2>1. m + l + 1 \in Nat
    BY <1>1
  <2>2. \A z \in Nat : \A x, S : x \in [1 .. z -> S] => Len(x) = z
    BY FunctionSeq
  <2>3. \A k \in 1 .. m + l + 1 : k + 2 \in 1 .. m + l + 4
    BY <1>1
  <2> HIDE DEF m, l, ins, n
  <2>4. ins.arg \in [1 .. m + l + 1 -> Nat]
    <3>1. \A k \in 1 .. Len(w) : w[k] \in Nat
      BY <1>2
    <3>2. \A k \in 1 .. m + l + 1 : w[k + 2] \in Nat
      BY <1>2, <2>3, <3>1
    <3>3. QED
      BY <1>1, <3>2
  <2>5. ins.kind \in [1 .. m + l + 1 -> {"v", "p"}]
    BY <1>1
  <2>6. QED
    BY <2>1, <2>2, <2>4, <2>5
<1>8. ASSUME NEW j \in DOMAIN ins.arg
      PROVE  IF ins.kind[j] = "v"
               THEN /\ ins.arg[j] \in Before(ins)
                    /\ ins.arg[j] \in {u.last[k] : k \in 0 .. n - 1}
               ELSE ins.arg[j] < Len(u.par_rec_) /\ ins.arg[j] \in Nat
  <2>1. CASE j = 1
    <3>1. ins.kind[j] = "p" /\ ins.arg[j] = w[1 + 2]
      BY <1>1, <1>7, <1>8, <2>1
    <3>2. QED
      BY <1>2, <3>1
  <2>2. CASE j # 1
    <3>1. ins.kind[j] = "v" /\ ins.arg[j] = w[j + 2]
      BY <1>1, <1>7, <1>8, <2>2
    <3>2. j \in 2 .. m + l + 1
      BY <1>1, <1>7, <1>8, <2>2
    <3>3. w[j + 2] \in {t.last[k] : k \in Op(t)} /\ w[j + 2] > 0
      BY <3>2, SumArgs
    <3> HIDE DEF m, l, ins, n
    <3>4. PICK k \in Op(t) : ins.arg[j] = t.last[k]
      BY <3>1, <3>3
    <3>5. ins.arg[j] \in 1 .. u.num_var_rec - 1 - 1
      BY <1>3, <1>4, <1>5, <3>1, <3>3, <3>4
    <3>6. ins.arg[j] \in Before(ins)
      BY <1>1, <1>4, <3>5 DEF Before
    <3>7. ins.arg[j] \in {u.last[i] : i \in 0 .. n - 1}
      BY <1>6, <3>4
    <3>8. QED
      BY <3>1, <3>6, <3>7
  <2>3. QED
    BY <2>1, <2>2
<1>9. Line(u, n)
  <2>1. ArgsValid(ins, Len(u.par_rec_))
    BY <1>7, <1>8 DEF ArgsValid
  <2>2. n \notin 1 .. u.n
    BY <1>3
  <2>3. Size(u, n) - 1 = m + l + 3 /\ Size(u, n) \in Nat
        /\ u.first[n] + Size(u, n) <= u.num_op_arg_rec
    <3> HIDE DEF n, m, l
    <3>1. QED
      BY <1>1, <1>2, <1>3
  <2>4. Arg(u, c, Size(u, n) - 1) = Arg(u, c, 0) + Arg(u, c, 1)
        /\ Arg(u, c, 0) \in Nat /\ Arg(u, c, 1) \in Nat
    BY <1>1, <2>3
  <2> HIDE DEF m, l
  <2>5. QED
    BY <1>3, <1>8, <2>1, <2>2, <2>3, <2>4 DEF Line
<1>10. Size(u, n) = Len(w)
  BY <1>1, <1>2
<1>11. QED
  BY <1>2, <1>3, <1>9, <1>10, BegunExtended

-----------------------------------------------------------------------------
(* What is added and subtracted so far.                                    *)
Signed(add, m) == IF add THEN m ELSE Minus(m)

Balance(b, m, n, k) == ((b ++ m) ++ n) ++ Minus(k)

LEMMA BalanceMoves ==
  ASSUME Ring, NEW b \in Num, NEW m \in Num, NEW n \in Num, NEW k \in Num, NEW v \in Num
  PROVE  /\ Balance(b, m, n, k) \in Num /\ Minus(v) \in Num
         /\ Balance(b ++ v, m, n, k) = Balance(b, m, n, k) ++ v
         /\ Balance(b, m ++ v, n, k) = Balance(b, m, n, k) ++ v
         /\ Balance(b, m, n ++ v, k) = Balance(b, m, n, k) ++ v
         /\ Balance(b, m, n, k ++ v) = Balance(b, m, n, k) ++ Minus(v)
         /\ Balance(b -- v, m, n, k) = Balance(b, m, n, k) ++ Minus(v)
<1>1. ASSUME NEW x \in Num, NEW y \in Num, NEW z \in Num
      PROVE  /\ x ++ y \in Num /\ Minus(x) \in Num
             /\ (x ++ y) ++ z = (x ++ z) ++ y /\ x ++ (y ++ z) = (x ++ y) ++ z
  <2>1. x ++ y \in Num /\ Minus(x) \in Num /\ y ++ z = z ++ y
    BY Closed, RingMonoids
  <2>2. QED
    BY <2>1, RingMonoids
<1>2. PICK l, h, g, o : l = Minus(k) /\ h = b ++ m /\ g = h ++ n /\ o = Minus(v)
  OBVIOUS
<1>3. l \in Num /\ o \in Num /\ h \in Num /\ g \in Num /\ g ++ l \in Num
  BY <1>1, <1>2
<1>4. ASSUME NEW x \in Num PROVE Balance(b ++ x, m, n, k) = Balance(b, m, n, k) ++ x
  <2>1. (b ++ x) ++ m = (b ++ m) ++ x
    BY <1>1
  <2>2. (h ++ x) ++ n = (h ++ n) ++ x
    BY <1>1, <1>3
  <2>3. (g ++ x) ++ l = (g ++ l) ++ x
    BY <1>1, <1>3
  <2>4. QED
    BY <1>2, <2>1, <2>2, <2>3 DEF Balance
<1>5. Balance(b, m ++ v, n, k) = Balance(b ++ v, m, n, k)
  <2>1. b ++ (m ++ v) = (b ++ m) ++ v /\ (b ++ v) ++ m = (b ++ m) ++ v
    BY <1>1
  <2>2. QED
    BY <2>1 DEF Balance
<1>6. Balance(b, m, n ++ v, k) = Balance(b, m, n, k) ++ v
  <2>1. h ++ (n ++ v) = (h ++ n) ++ v
    BY <1>1, <1>3
  <2>2. (g ++ v) ++ l = (g ++ l) ++ v
    BY ONLY <1>1, <1>3
  <2>3. QED
    BY <1>2, <2>1, <2>2 DEF Balance
<1>7. Balance(b, m, n, k ++ v) = Balance(b, m, n, k) ++ Minus(v)
  <2>1. Minus(k ++ v) = l ++ o
    BY <1>2, MinusAdds
  <2>2. g ++ (l ++ o) = (g ++ l) ++ o
    BY <1>1, <1>3
  <2>3. QED
    BY <1>2, <2>1, <2>2 DEF Balance
<1>8. b -- v = b ++ Minus(v)
  BY RingMonoids
<1>9. QED
  BY <1>2, <1>3, <1>4, <1>5, <1>6, <1>7, <1>8 DEF Balance

(* A difference, and what is subtracted from it. *)
LEMMA SignedSums ==
  ASSUME Ring, NEW m \in Num, NEW n \in Num, NEW add \in BOOLEAN
  PROVE  /\ Signed(add, m) \in Num
         /\ Signed(add, m ++ n) = Signed(add, m) ++ Signed(add, n)
         /\ Signed(add, m -- n) = Signed(add, m) ++ Signed(~add, n)
<1>1. Minus(m) \in Num /\ Minus(n) \in Num /\ m -- n = m ++ Minus(n)
  BY Closed, RingMonoids
<1>2. Minus(m ++ n) = Minus(m) ++ Minus(n) /\ Minus(m ++ Minus(n)) = Minus(m) ++ n
  BY <1>1, MinusAdds
<1>3. QED
  BY <1>1, <1>2 DEF Signed

LEMMA TotalNone ==
  ASSUME NEW s \in [1 .. 0 -> Num]
  PROVE  Total(s) = Zero
<1>1. PICK g : Sums(0, Zero, s, g) /\ Total(s) = g[0]
  BY TotalSums
<1>2. QED
  BY <1>1 DEF Sums

(* A cumulative sum of numbers that are c for its parameter.               *)
LEMMA SumFolds ==
  ASSUME Ring, NEW t, Begun(t), NEW u, NEW w, NEW p, NEW s, NEW d, CopiesSum(t, u, w, p, s, d),
         NEW ins, ins = InstrOf(u, t.num_op_rec),
         NEW f, \A a \in Address(t) : f[a] \in Num, NEW c \in Num, NEW r,
         r = [j \in DOMAIN ins.arg |-> IF ins.kind[j] = "v" THEN f[ins.arg[j]] ELSE c]
  PROVE  forward_csum_op(ins, r)
           = Balance(c, Zero, Total([k \in DOMAIN s |-> f[s[k]]]),
                     Total([k \in DOMAIN d |-> f[d[k]]]))
<1> DEFINE m == Len(s)
           l == Len(d)
           S == [k \in DOMAIN s |-> f[s[k]]]
           D == [k \in DOMAIN d |-> f[d[k]]]
<1>1. /\ m \in Nat /\ l \in Nat /\ ins.add = m
      /\ ins.kind = [k \in 1 .. m + l + 1 |-> IF k = 1 THEN "p" ELSE "v"]
      /\ ins.arg = [k \in 1 .. m + l + 1 |-> w[k + 2]]
  BY SumsInstr
<1>2. DOMAIN s = 1 .. m /\ DOMAIN d = 1 .. l
  BY DEF CopiesSum, IsSum
<1>3. \A j \in 2 .. m + l + 1 :
        /\ w[j + 2] \in {t.last[k] : k \in Op(t)}
        /\ j - 1 <= m => w[j + 2] = s[j - 1]
        /\ j - 1 > m => w[j + 2] = d[j - 1 - m]
  BY SumArgs
<1>4. \A k \in Op(t) : f[t.last[k]] \in Num
  <2>1. \A k \in Op(t) : t.last[k] \in Nat /\ t.last[k] <= t.num_var_rec - 1
    BY BegunBound
  <2>2. t.num_var_rec \in Nat
    BY DEF Begun, Listed
  <2>3. \A k \in Op(t) : t.last[k] \in Address(t)
    BY <2>1, <2>2 DEF Address
  <2>4. QED
    BY <2>3
<1>5. r = [j \in 1 .. m + l + 1 |-> IF j = 1 THEN c ELSE f[w[j + 2]]]
  <2> HIDE DEF m, l
  <2>1. DOMAIN ins.arg = 1 .. m + l + 1
    BY <1>1
  <2>2. \A j \in 1 .. m + l + 1 : /\ ins.kind[j] = "v" <=> j # 1
                                  /\ ins.arg[j] = w[j + 2]
    BY <1>1
  <2>3. QED
    BY <2>1, <2>2
<1> HIDE DEF m, l
<1>6. \A j \in 1 .. m + l + 1 : j # 1 => j \in 2 .. m + l + 1 /\ r[j] = f[w[j + 2]] /\ r[j] \in Num
  <2>1. \A j \in 1 .. m + l + 1 : j # 1 => j \in 2 .. m + l + 1
    BY <1>1
  <2>2. ASSUME NEW j \in 1 .. m + l + 1, j # 1 PROVE f[w[j + 2]] \in Num
    <3>1. PICK k \in Op(t) : w[j + 2] = t.last[k]
      BY <1>3, <2>1, <2>2
    <3>2. QED
      BY <1>4, <3>1
  <2>3. QED
    BY <1>5, <2>1, <2>2
<1>7. r \in [1 .. (m + l) + 1 -> Num] /\ m + l \in Nat /\ m \in 0 .. m + l /\ (m + l) - m = l
      /\ r[1] = c
  <2>1. \A j \in 1 .. m + l + 1 : r[j] \in Num
    BY <1>5, <1>6
  <2>2. 1 \in 1 .. m + l + 1
    BY <1>1
  <2>3. m + l \in Nat /\ m \in 0 .. m + l /\ (m + l) - m = l
    BY <1>1
  <2>4. QED
    BY <1>5, <2>1, <2>2, <2>3
<1>8. PICK A, B : A = Added(r, m) /\ B = Subtracted(r, m, m + l)
  OBVIOUS
<1>9. /\ A \in [1 .. m -> Num] /\ \A k \in 1 .. m : A[k] = r[k + 1]
      /\ B \in [1 .. l -> Num] /\ \A k \in 1 .. l : B[k] = r[m + 1 + k]
  <2>1. PICK n \in Nat : n = m + l /\ m \in 0 .. n /\ n - m = l
    BY <1>7
  <2>2. r \in [1 .. n + 1 -> Num] /\ A = Added(r, m) /\ B = Subtracted(r, m, n)
    BY <1>7, <1>8, <2>1
  <2>3. /\ Added(r, m) \in [1 .. m -> Num]
        /\ \A k \in 1 .. m : Added(r, m)[k] = r[k + 1]
        /\ Subtracted(r, m, n) \in [1 .. n - m -> Num]
        /\ \A k \in 1 .. n - m : Subtracted(r, m, n)[k] = r[m + 1 + k]
    BY <2>1, <2>2, CSumParts
  <2>4. QED
    BY <2>1, <2>2, <2>3
<1>10. A = S
  <2>1. \A k \in 1 .. m : A[k] = f[s[k]]
    <3>1. \A k \in 1 .. m : /\ k + 1 \in 1 .. m + l + 1 /\ k + 1 # 1 /\ (k + 1) - 1 = k
                            /\ (k + 1) - 1 <= m
      BY <1>1
    <3>2. QED
      BY <1>3, <1>6, <1>9, <3>1
  <2>2. QED
    BY <1>2, <1>9, <2>1
<1>11. B = D
  <2>1. \A k \in 1 .. l : B[k] = f[d[k]]
    <3>1. \A k \in 1 .. l : /\ m + 1 + k \in 1 .. m + l + 1 /\ m + 1 + k # 1
                            /\ (m + 1 + k) - 1 - m = k /\ (m + 1 + k) - 1 > m
      BY <1>1
    <3>3. ASSUME NEW k \in 1 .. l PROVE B[k] = f[d[k]]
      <4>1. PICK j \in 1 .. m + l + 1 : j = m + 1 + k /\ j # 1 /\ j - 1 - m = k /\ j - 1 > m
        BY <3>1
      <4>2. B[k] = r[j] /\ r[j] = f[w[j + 2]] /\ w[j + 2] = d[k]
        BY <1>3, <1>6, <1>9, <4>1
      <4>3. QED
        BY <4>2
    <3>2. QED
      BY <3>3
  <2>2. QED
    BY <1>2, <1>9, <2>1
<1> HIDE DEF S, D
<1>12. forward_csum_op(ins, r) = MinusOver(PlusOver(c, S), D)
  <2>1. PICK n \in Nat : n = m + l /\ m \in 0 .. n
    BY <1>7
  <2>2. r \in [1 .. n + 1 -> Num] /\ ins.add \in 0 .. n /\ ins.add = m
    BY <1>1, <1>7, <2>1
  <2>3. forward_csum_op(ins, r)
          = MinusOver(PlusOver(r[1], Added(r, ins.add)), Subtracted(r, ins.add, n))
    BY <2>1, <2>2, CSumValue
  <2>4. QED
    BY <1>7, <1>8, <1>10, <1>11, <2>1, <2>2, <2>3
<1>13. PlusOver(c, S) = c ++ Total(S) /\ c ++ Total(S) \in Num
  <2>1. S \in [1 .. m -> Num] /\ m \in Nat
    BY <1>1, <1>9, <1>10
  <2>2. PlusOver(c, S) = c ++ Total(S)
    BY <2>1, FoldTotals
  <2>3. Total(S) \in Num
    BY <2>1, TotalTyped
  <2>4. QED
    BY <2>2, <2>3, Closed
<1>14. forward_csum_op(ins, r) = (c ++ Total(S)) ++ Minus(Total(D))
  BY <1>1, <1>9, <1>11, <1>12, <1>13, FoldTotals
<1>15. c ++ Zero = c
  BY RingMonoids
<1>16. QED
  BY <1>14, <1>15 DEF Balance, S, D

(* What a cumulative sum computes. *)
LEMMA SumComputes ==
  ASSUME Ring, NEW t, Begun(t), NEW u, NEW w, NEW p, NEW s, NEW d, CopiesSum(t, u, w, p, s, d),
         NEW x, Run(u, x), NEW r, r = u.num_var_rec - 1
  PROVE  /\ x.zero[r] = Balance(u.par_rec_[p + 1], Zero, Total([k \in DOMAIN s |-> x.zero[s[k]]]),
                                Total([k \in DOMAIN d |-> x.zero[d[k]]]))
         /\ x.one[r] = Balance(Zero, Zero, Total([k \in DOMAIN s |-> x.one[s[k]]]),
                               Total([k \in DOMAIN d |-> x.one[d[k]]]))
         /\ x.said[t.num_op_rec + 1] = x.said[t.num_op_rec]
<1> DEFINE ins == InstrOf(u, t.num_op_rec)
           c == u.par_rec_[p + 1]
<1>2. /\ ins.kind = [k \in 1 .. Len(s) + Len(d) + 1 |-> IF k = 1 THEN "p" ELSE "v"]
      /\ ins.arg = [k \in 1 .. Len(s) + Len(d) + 1 |-> w[k + 2]]
      /\ Len(s) \in Nat /\ Len(d) \in Nat
      /\ ins.op = "CSum" /\ ins.res = u.num_var_rec - 1
  BY SumsInstr
<1>1. ins.op = "CSum" /\ ins.res = r /\ ins.op \in Computing /\ ins.op \notin Comparison
      /\ ins.op \notin CondExp
  <2>1. "CSum" \in Computing /\ "CSum" \notin Comparison /\ "CSum" \notin CondExp
    BY DEF Computing, Comparison, CondExp
  <2>2. QED
    BY <1>2, <2>1
<1>3. /\ Extended(t, u, CSumCode, w) /\ w \in Seq(Nat) /\ w[3] = p /\ p \in Nat
      /\ p < Len(u.par_rec_)
  <2>1. IsSum(w, p, s, d) /\ Extended(t, u, CSumCode, w) /\ p < Len(u.par_rec_)
    BY DEF CopiesSum
  <2>2. SumReads(w, p, s, d)
    BY <2>1, SumWordsFacts
  <2>3. QED
    BY <2>1, <2>2 DEF SumReads, IsSum
<1>4. Run(t, x)
  BY <1>3, RunBegun
<1>5. \A a \in Address(t) : x.zero[a] \in Num /\ x.one[a] \in Num
  BY <1>4 DEF Run
<1>6. c \in Num /\ Zero \in Num
  <2>1. u.par_rec_ \in Seq(Num)
    BY <1>3 DEF Extended, Begun, Listed
  <2>2. QED
    BY <1>3, <2>1, NumAssumption
<1>7. Ran(u, x, t.num_op_rec)
  <2>1. t.num_op_rec \in Nat /\ u.num_op_rec = t.num_op_rec + 1
    BY <1>3 DEF Begun, Listed, Extended
  <2>2. t.num_op_rec \in Op(u)
    BY <2>1 DEF Op
  <2>3. QED
    BY <2>2 DEF Run
<1>8. PICK z, o :
        /\ z = [j \in DOMAIN ins.arg |-> IF ins.kind[j] = "v" THEN x.zero[ins.arg[j]] ELSE c]
        /\ o = [j \in DOMAIN ins.arg |-> IF ins.kind[j] = "v" THEN x.one[ins.arg[j]] ELSE Zero]
  OBVIOUS
<1>9. Operands(ins, x.zero, u.par_rec_) = z /\ Slopes(ins, x.one) = o
  <2>1. \A j \in DOMAIN ins.arg : ins.kind[j] # "v" => ins.arg[j] = p
    <3>1. \A j \in 1 .. Len(s) + Len(d) + 1 : j # 1 => ins.kind[j] = "v"
      BY <1>2
    <3>2. 1 \in 1 .. Len(s) + Len(d) + 1
      BY <1>2
    <3>3. ins.arg[1] = w[1 + 2]
      BY <1>2, <3>2
    <3>4. QED
      BY <1>2, <1>3, <3>1, <3>3
  <2> HIDE DEF ins
  <2>2. QED
    BY <1>8, <2>1 DEF Operands, Slopes
<1>10. forward_csum_op(ins, z)
         = Balance(c, Zero, Total([k \in DOMAIN s |-> x.zero[s[k]]]),
                   Total([k \in DOMAIN d |-> x.zero[d[k]]]))
  BY <1>5, <1>6, <1>8, SumFolds
<1>11. forward_csum_op(ins, o)
         = Balance(Zero, Zero, Total([k \in DOMAIN s |-> x.one[s[k]]]),
                   Total([k \in DOMAIN d |-> x.one[d[k]]]))
  BY <1>5, <1>6, <1>8, SumFolds
<1> HIDE DEF ins
<1>12. \A q, e, g, a : Order0(ins, q) = forward_csum_op(ins, q)
                       /\ Order1(ins, q, e, g, a) = forward_csum_op(ins, e)
  BY <1>1 DEF Order0, Order1
<1>13. QED
  BY <1>1, <1>7, <1>9, <1>10, <1>11, <1>12 DEF Ran, ins, c

(* What a sum or a difference computes.                                    *)
LEMMA SumRan ==
  ASSUME NEW t, NEW y, NEW i, Ran(t, y, i), NEW ins, ins = InstrOf(t, i),
         ins.op \in {"Add", "Sub"}, DOMAIN ins.arg = 1 .. 2,
         NEW v, v = Operands(ins, y.zero, t.par_rec_), NEW d, d = Slopes(ins, y.one)
  PROVE  /\ y.zero[ins.res] = IF ins.op = "Add" THEN v[1] ++ v[2] ELSE v[1] -- v[2]
         /\ y.one[ins.res] = IF ins.op = "Add" THEN d[1] ++ d[2] ELSE d[1] -- d[2]
<1>1. ins.op \in Computing /\ ins.op \in Binary
  BY DEF Computing, Binary
<1>2. \A s, e, z, a : /\ Order0(ins, s) = Calc(ins.op, s)
                      /\ Order1(ins, s, e, z, a) = IF ins.op = "Add" THEN e[1] ++ e[2]
                                                   ELSE e[1] -- e[2]
  <2>1. \A s : Order0(ins, s) = Calc(ins.op, s)
    BY <1>1 DEF Order0, Value, CondExp
  <2>2. CASE ins.op = "Add"
    BY <2>1, <2>2 DEF Order1, forward_add_op, CondExp
  <2>3. CASE ins.op = "Sub"
    BY <2>1, <2>3 DEF Order1, forward_sub_op, CondExp
  <2>4. QED
    BY <2>2, <2>3
<1>3. v = <<v[1], v[2]>>
  BY DEF Operands
<1>4. y.zero[ins.res] = Calc(ins.op, v)
  BY <1>1, <1>2 DEF Ran
<1>5. y.one[ins.res] = IF ins.op = "Add" THEN d[1] ++ d[2] ELSE d[1] -- d[2]
  BY <1>1, <1>2 DEF Ran
<1>6. QED
  BY <1>3, <1>4, <1>5 DEF ++, --

VarOperands(ins) == {ins.arg[j] : j \in {k \in DOMAIN ins.arg : ins.kind[k] = "v"}}

(* What is known of operator i of a recording: where it is, ...            *)
Located(t, i) ==
  LET ins == InstrOf(t, i)
  IN  /\ t.num_op_rec \in Nat /\ t.num_op_rec > 1 /\ t.num_var_rec \in Nat
      /\ ins.res = t.last[i] /\ ins.res \in Address(t)
      /\ NumRes(ins.op) = NumRes(t.op_rec_[i].op)
      /\ ins.op = "Begin" <=> i = 0
      /\ ins.op = "End" <=> i = t.num_op_rec - 1
      /\ t.op_rec_[i] \in OpCodeRec
      /\ t.op_rec_[i].op = "CExp" <=> ins.op \in CondExp
      /\ ins.op \in CondExp \/ (ins.op = t.op_rec_[i].op /\ ins.kind = t.op_rec_[i].kind)
      /\ ins.op \in {"Begin", "Inv", "Par", "End"} \union Unary \union Binary
                      \union Comparison \union CondExp

(* ... and what its operands are.                                          *)
Operated(t, i) ==
  LET ins == InstrOf(t, i)
  IN  /\ DOMAIN ins.kind = DOMAIN ins.arg
      /\ \A j \in DOMAIN ins.arg : ins.kind[j] \in {"v", "p"}
      /\ \A j \in DOMAIN ins.arg :
           ins.kind[j] = "v" => /\ ins.arg[j] \in 1 .. ins.res - NumRes(ins.op)
                                /\ \E k \in 0 .. i - 1 : ins.arg[j] = t.last[k]
      /\ \A j \in DOMAIN ins.arg :
           ins.kind[j] = "p" => /\ ins.arg[j] \in Nat
                                /\ ins.arg[j] + 1 \in 1 .. Len(t.par_rec_)
                                /\ t.par_rec_[ins.arg[j] + 1] \in Num
      /\ ins.op \in Unary => DOMAIN ins.arg = 1 .. 1
      /\ ins.op \in Binary \union Comparison => DOMAIN ins.arg = 1 .. 2
      /\ ins.op \in CondExp => DOMAIN ins.arg = 1 .. 4
      /\ ins.op = "Par" => DOMAIN ins.arg = 1 .. 1 /\ ins.kind[1] = "p"
      /\ ins.op \in {"Begin", "Inv", "End"} => DOMAIN ins.arg = {}

(* One entry is replaced. *)
Replaced(tp, tq, a, w) == tq = [tp EXCEPT ![a] = w]

(* What leaves the connections as they are. *)
Keeps(v, w) ==
  w.ins = v.ins /\ w.connect_type = v.connect_type /\ w.cexp_set = v.cexp_set

(* A finite set of numbers can be put in order. *)
InOrder(s) == \A j, k \in DOMAIN s : j < k => s[j] < s[k]

LEMMA OrderedSet ==
  ASSUME NEW S, S \subseteq Nat, IsFiniteSet(S)
  PROVE  \E s \in [1 .. Cardinality(S) -> S] : InOrder(s)
<1> DEFINE Bad(T) == /\ T \subseteq Nat /\ IsFiniteSet(T)
                     /\ ~ \E s \in [1 .. Cardinality(T) -> T] : InOrder(s)
           N == {n \in Nat : \E T : Bad(T) /\ Cardinality(T) = n}
<1>1. Cardinality(S) \in Nat
  BY FS_CardinalityType
<1>2. SUFFICES N = {}
  BY <1>1, Zenon
<1>3. SUFFICES ASSUME N # {} PROVE FALSE
  OBVIOUS
<1>4. PICK n \in N : \A m \in N : n <= m
  BY <1>3, LeastNatural
<1>5. PICK T : T \subseteq Nat /\ IsFiniteSet(T) /\ Cardinality(T) = n
               /\ ~ \E s \in [1 .. n -> T] : InOrder(s)
  BY <1>4
<1>6. n \in Nat
  BY <1>4
<1>7. T # {}
  <2>1. CASE T = {}
    <3>1. n = 0
      BY <1>5, <2>1, FS_EmptySet
    <3>2. <<>> \in [1 .. 0 -> T] /\ DOMAIN <<>> = {}
      OBVIOUS
    <3>3. InOrder(<<>>)
      BY <3>2 DEF InOrder
    <3>4. QED
      BY <1>5, <3>1, <3>2, <3>3
  <2>2. QED
    BY <2>1
<1>8. PICK a \in T : \A b \in T : a <= b
  BY <1>5, <1>7, LeastNatural
<1>9. PICK R : R = T \ {a}
  OBVIOUS
<1>10. IsFiniteSet(R) /\ Cardinality(R) = n - 1 /\ R \subseteq Nat
  BY <1>5, <1>8, <1>9, FS_RemoveElement
<1>11. Cardinality(R) \in Nat
  BY <1>10, FS_CardinalityType
<1>12. n - 1 \in Nat /\ n - 1 \notin N
  BY <1>4, <1>6, <1>10, <1>11
<1>13. PICK r \in [1 .. n - 1 -> R] : InOrder(r)
  BY <1>10, <1>12
<1> DEFINE s == [k \in 1 .. n |-> IF k = 1 THEN a ELSE r[k - 1]]
<1>14. \A k \in 1 .. n : k # 1 => k - 1 \in 1 .. n - 1 /\ r[k - 1] \in R
  BY <1>6, <1>13
<1>15. s \in [1 .. n -> T]
  BY <1>8, <1>9, <1>14
<1>16. InOrder(s)
  <2>1. SUFFICES ASSUME NEW j \in 1 .. n, NEW k \in 1 .. n, j < k
                 PROVE  s[j] < s[k]
    BY DEF InOrder
  <2>2. k # 1 /\ s[k] = r[k - 1] /\ r[k - 1] \in R
    BY <1>14, <2>1
  <2>3. CASE j = 1
    <3>1. s[j] = a
      BY <2>3
    <3>2. r[k - 1] \in T /\ r[k - 1] # a /\ r[k - 1] \in Nat /\ a \in Nat
      BY <1>5, <1>8, <1>9, <2>2
    <3>3. a < r[k - 1]
      BY <1>8, <3>2
    <3>4. QED
      BY <2>2, <3>1, <3>3
  <2>4. CASE j # 1
    <3>1. s[j] = r[j - 1]
      BY <2>4
    <3>2. j - 1 \in DOMAIN r /\ k - 1 \in DOMAIN r /\ j - 1 < k - 1
      BY <1>13, <1>14, <2>1, <2>2, <2>4
    <3>3. r[j - 1] < r[k - 1]
      BY <1>13, <3>2 DEF InOrder
    <3>4. QED
      BY <2>2, <3>1, <3>3
  <2>5. QED
    BY <2>3, <2>4
<1>17. QED
  BY <1>5, <1>15, <1>16

(* The recorder, and what is known of conditional expressions. *)
Recorder ==
  [op_rec_ : Seq(OpCodeRec), op_arg_rec_ : Seq(Nat), par_rec_ : Seq(Num),
   num_var_rec_ : Nat, first : Seq(Nat), last : Seq(Nat)]

(* PutPar adds parameters, and nothing else. *)
Extends(Q, R) ==
  /\ R \in Recorder
  /\ R.op_rec_ = Q.op_rec_ /\ R.op_arg_rec_ = Q.op_arg_rec_
  /\ R.num_var_rec_ = Q.num_var_rec_ /\ R.first = Q.first /\ R.last = Q.last
  /\ Len(Q.par_rec_) <= Len(R.par_rec_)
  /\ \A k \in 1 .. Len(Q.par_rec_) : R.par_rec_[k] = Q.par_rec_[k]

LEMMA ExtendsTwice ==
  ASSUME NEW Q \in Recorder, NEW R, NEW T, Extends(Q, R), Extends(R, T)
  PROVE  Extends(Q, T)
<1>1. Len(Q.par_rec_) \in Nat /\ Len(R.par_rec_) \in Nat /\ Len(T.par_rec_) \in Nat
  BY DEF Recorder, Extends
<1>2. \A k \in 1 .. Len(Q.par_rec_) : k \in 1 .. Len(R.par_rec_)
  BY <1>1 DEF Extends
<1>3. QED
  BY <1>1, <1>2 DEF Extends

(* The parameter c has an index in R. *)
HasPar(R, c) == \E k \in 1 .. Len(R.par_rec_) : R.par_rec_[k] = c

LEMMA HasParExtends ==
  ASSUME NEW Q \in Recorder, NEW R, Extends(Q, R), NEW c, HasPar(Q, c)
  PROVE  HasPar(R, c)
<1>1. PICK k \in 1 .. Len(Q.par_rec_) : Q.par_rec_[k] = c
  BY DEF HasPar
<1>2. Len(Q.par_rec_) \in Nat /\ Len(R.par_rec_) \in Nat
  BY DEF Recorder, Extends
<1>3. k \in 1 .. Len(R.par_rec_) /\ R.par_rec_[k] = c
  BY <1>1, <1>2 DEF Extends
<1>4. QED
  BY <1>3 DEF HasPar

(* What is recorded before an operator, and how it is recorded.            *)
LEMMA OwnCodes ==
  ASSUME NEW op \in {"Begin", "CSum", "CSkip"}
  PROVE  [op |-> op, kind |-> <<>>] \in OpCodeRec
<1>1. PICK code : code = [op |-> op, kind |-> <<>>]
  OBVIOUS
<1>2. <<>> \in Seq({"v", "p"})
  OBVIOUS
<1>3. op \in (OpCode \ CondExp) \union {"CExp"} \union Optimized
  BY DEF OpCode, CondExp, Optimized
<1>4. code \in [op : (OpCode \ CondExp) \union {"CExp"} \union Optimized,
                kind : Seq({"v", "p"})]
  BY <1>1, <1>2, <1>3
<1>5. op \notin Binary \union Comparison /\ op \notin Unary /\ op # "Par"
  BY UnaryAssumption DEF Binary, Comparison, Optimized
<1>6. code.op = op /\ code.kind = <<>>
  BY <1>1
<1>7. OperandKinds(code.op) = {<<>>}
  BY <1>5, <1>6 DEF OperandKinds
<1>8. code \in OpCodeRec
  BY <1>4, <1>6, <1>7 DEF OpCodeRec
<1>9. QED
  BY <1>1, <1>8

(* An entry of a sequence is replaced. *)
LEMMA SeqExcept ==
  ASSUME NEW S, NEW s \in Seq(S), NEW k, NEW e, k \in DOMAIN s => e \in S
  PROVE  [s EXCEPT ![k] = e] \in Seq(S) /\ Len([s EXCEPT ![k] = e]) = Len(s)
<1>1. PICK n \in Nat : n = Len(s) /\ s \in [1 .. n -> S]
  OBVIOUS
<1>2. PICK r : r = [s EXCEPT ![k] = e]
  OBVIOUS
<1>3. r \in [1 .. n -> S]
  BY <1>1, <1>2
<1>4. r \in Seq(S) /\ Len(r) = n
  BY <1>3, FunctionSeq
<1>5. QED
  BY <1>1, <1>2, <1>4

(* Sequences of numbers. *)
LEMMA ShortSeq ==
  ASSUME NEW n \in Nat, NEW s, DOMAIN s = 1 .. n, s = [k \in DOMAIN s |-> s[k]],
         \A k \in 1 .. n : s[k] \in Nat
  PROVE  s \in Seq(Nat) /\ Len(s) = n
<1>1. s \in [1 .. n -> Nat]
  OBVIOUS
<1>2. QED
  BY <1>1

(* An operand of a sum goes on one of the stacks, or into sum_par.         *)
LEMMA AppendAll ==
  ASSUME NEW S, NEW s \in Seq(S), NEW e \in S, NEW r, r = Append(s, e)
  PROVE  /\ r \in Seq(S)
         /\ \A k \in DOMAIN r : r[k] = e \/ (k \in DOMAIN s /\ r[k] = s[k])
  OBVIOUS

(* The recording that a player takes from a recorder. *)
RecordingOf(R, n, dep) ==
  LET fromZero(s) == [k \in 0 .. Len(s) - 1 |-> s[k + 1]]
  IN  [n |-> n,
       op_rec_ |-> fromZero(R.op_rec_), num_op_rec |-> Len(R.op_rec_),
       op_arg_rec_ |-> fromZero(R.op_arg_rec_), num_op_arg_rec |-> Len(R.op_arg_rec_),
       par_rec_ |-> R.par_rec_, num_var_rec |-> R.num_var_rec_,
       dep_taddr_ |-> dep,
       first |-> fromZero(R.first), last |-> fromZero(R.last)]

(* A vector from 0. *)
FromZero(s) == [k \in 0 .. Len(s) - 1 |-> s[k + 1]]

LEMMA FromZeroFacts ==
  ASSUME NEW S, NEW s \in Seq(S)
  PROVE  /\ Len(s) \in Nat /\ FromZero(s) \in [0 .. Len(s) - 1 -> S]
         /\ \A k \in 0 .. Len(s) - 1 : k + 1 \in 1 .. Len(s) /\ FromZero(s)[k] = s[k + 1]
<1>1. Len(s) \in Nat /\ \A k \in 1 .. Len(s) : s[k] \in S
  OBVIOUS
<1>2. \A k \in 0 .. Len(s) - 1 : k + 1 \in 1 .. Len(s)
  BY <1>1
<1>3. QED
  BY <1>1, <1>2 DEF FromZero

LEMMA RecordingFields ==
  ASSUME NEW R, NEW n, NEW dep
  PROVE  LET t == RecordingOf(R, n, dep)
         IN  /\ t.n = n /\ t.num_op_rec = Len(R.op_rec_) /\ t.num_op_arg_rec = Len(R.op_arg_rec_)
             /\ t.num_var_rec = R.num_var_rec_ /\ t.par_rec_ = R.par_rec_ /\ t.dep_taddr_ = dep
             /\ t.op_rec_ = FromZero(R.op_rec_) /\ t.op_arg_rec_ = FromZero(R.op_arg_rec_)
             /\ t.first = FromZero(R.first) /\ t.last = FromZero(R.last)
  BY DEF RecordingOf, FromZero

(* Of each operator is known where it is. *)
Level(R) == Len(R.first) = Len(R.op_rec_) /\ Len(R.last) = Len(R.op_rec_)

LEMMA LevelListed ==
  ASSUME NEW R \in Recorder, NEW n \in Nat, NEW dep, Level(R)
  PROVE  Listed(RecordingOf(R, n, dep))
<1> DEFINE t == RecordingOf(R, n, dep)
<1>1. /\ R.op_rec_ \in Seq(OpCodeRec) /\ R.op_arg_rec_ \in Seq(Nat) /\ R.par_rec_ \in Seq(Num)
      /\ R.num_var_rec_ \in Nat /\ R.first \in Seq(Nat) /\ R.last \in Seq(Nat)
  BY DEF Recorder
<1>2. /\ Len(R.op_rec_) \in Nat /\ Len(R.op_arg_rec_) \in Nat
      /\ FromZero(R.op_rec_) \in [0 .. Len(R.op_rec_) - 1 -> OpCodeRec]
      /\ FromZero(R.op_arg_rec_) \in [0 .. Len(R.op_arg_rec_) - 1 -> Nat]
      /\ FromZero(R.first) \in [0 .. Len(R.first) - 1 -> Nat]
      /\ FromZero(R.last) \in [0 .. Len(R.last) - 1 -> Nat]
  BY <1>1, FromZeroFacts
<1>3. /\ t.n = n /\ t.num_op_rec = Len(R.op_rec_) /\ t.num_op_arg_rec = Len(R.op_arg_rec_)
      /\ t.num_var_rec = R.num_var_rec_ /\ t.par_rec_ = R.par_rec_
      /\ t.op_rec_ = FromZero(R.op_rec_) /\ t.op_arg_rec_ = FromZero(R.op_arg_rec_)
      /\ t.first = FromZero(R.first) /\ t.last = FromZero(R.last)
  BY RecordingFields
<1> HIDE DEF t
<1>4. QED
  BY <1>1, <1>2, <1>3 DEF Listed, Op, Level, t

LEMMA ListedLevel ==
  ASSUME NEW R \in Recorder, NEW n, NEW dep, Listed(RecordingOf(R, n, dep))
  PROVE  Level(R)
<1> DEFINE t == RecordingOf(R, n, dep)
<1>1. R.first \in Seq(Nat) /\ R.last \in Seq(Nat) /\ R.op_rec_ \in Seq(OpCodeRec)
  BY DEF Recorder
<1>2. Len(R.first) \in Nat /\ Len(R.last) \in Nat /\ Len(R.op_rec_) \in Nat
  BY <1>1
<1>3. t.num_op_rec = Len(R.op_rec_) /\ t.first = FromZero(R.first) /\ t.last = FromZero(R.last)
  BY RecordingFields
<1>4. t.first \in [Op(t) -> Nat] /\ t.last \in [Op(t) -> Nat] /\ Op(t) = 0 .. Len(R.op_rec_) - 1
  BY <1>3 DEF Listed, Op
<1>5. DOMAIN FromZero(R.first) = 0 .. Len(R.first) - 1 /\ DOMAIN FromZero(R.last) = 0 .. Len(R.last) - 1
  BY DEF FromZero
<1>6. 0 .. Len(R.first) - 1 = 0 .. Len(R.op_rec_) - 1 /\ 0 .. Len(R.last) - 1 = 0 .. Len(R.op_rec_) - 1
  BY <1>3, <1>4, <1>5
<1>7. \A l, m \in Nat : 0 .. l - 1 = 0 .. m - 1 => l = m
  <2>1. SUFFICES ASSUME NEW l \in Nat, NEW m \in Nat, 0 .. l - 1 = 0 .. m - 1 PROVE l = m
    OBVIOUS
  <2>2. l > 0 => l - 1 \in 0 .. l - 1
    OBVIOUS
  <2>3. m > 0 => m - 1 \in 0 .. m - 1
    OBVIOUS
  <2>4. QED
    BY <2>1, <2>2, <2>3
<1> HIDE DEF t
<1>8. QED
  BY <1>2, <1>6, <1>7 DEF Level

LEMMA ShortSeqOf ==
  ASSUME NEW n \in Nat, NEW S, NEW s \in [1 .. n -> S]
  PROVE  s \in Seq(S)
  OBVIOUS

LEMMA SameLength ==
  ASSUME NEW S, NEW T, NEW r \in Seq(S), NEW s \in Seq(T), DOMAIN r = DOMAIN s
  PROVE  Len(r) = Len(s)
  OBVIOUS

(* InvOp are the operators 1 to n. *)
LEMMA InvPlaces ==
  ASSUME NEW t \in Tapes, NEW i \in Op(t)
  PROVE  /\ t.n \in Nat /\ t.n + 1 < t.num_op_rec
         /\ t.op_rec_[i].op = "Inv" <=> i \in 1 .. t.n
<1>1. WellFormed(t) /\ Vectors(t)
  BY TapesAssumption DEF WellFormed
<1>2. DOMAIN t.op_rec_ = Op(t) /\ t.n \in Nat /\ t.num_op_rec > t.n + 1 /\ t.num_op_rec \in Nat
  BY <1>1 DEF Vectors, Op
<1>3. t.op_rec_[i].op = "Inv" <=> i \in 1 .. t.n
  BY <1>1, <1>2 DEF WellFormed
<1>4. QED
  BY <1>2, <1>3

(* An operator of the old recording is put, with operands that the new one *)
(* has.                                                                    *)
Copies(p, i, t, u, args) ==
  /\ t.n = p.n /\ (t.num_op_rec \in 1 .. p.n <=> i \in 1 .. p.n)
  /\ args \in Seq(Nat) /\ DOMAIN args = DOMAIN InstrOf(p, i).arg
  /\ CopiedWords(p, i, args) \in Seq(Nat)
  /\ Extended(t, u, p.op_rec_[i], CopiedWords(p, i, args))
  /\ \A j \in DOMAIN args :
       IF InstrOf(p, i).kind[j] = "v"
         THEN args[j] \in {t.last[k] : k \in Op(t)} /\ args[j] > 0
         ELSE args[j] < Len(u.par_rec_)

(* No conditional skip has been put. *)
SkipFreeIn(R) == \A k \in DOMAIN R.op_rec_ : R.op_rec_[k].op # "CSkip"

LEMMA ExtendsSkipFree ==
  ASSUME NEW Q, NEW R, Extends(Q, R), SkipFreeIn(R)
  PROVE  SkipFreeIn(Q)
  BY DEF Extends, SkipFreeIn

LEMMA SeqAt ==
  ASSUME NEW S, NEW s \in Seq(S), NEW k \in DOMAIN s
  PROVE  s[k] \in S
  OBVIOUS

(* No variable is known to be needed for some outcomes only. *)
PlainEntry(v) == "connect_type" \in DOMAIN v /\ v.connect_type # "cexp_connected"

(* Playing a recording without conditional skips, operator by operator.    *)
Skipping(t) == \E i \in Op(t) : t.op_rec_[i].op = "CSkip"

LEMMA PlayedLine ==
  ASSUME NEW t, WellFormed(t), ~Skipping(t), NEW i \in Op(t), NEW ins, ins = InstrOf(t, i)
  PROVE  /\ ins.op \in Computing \union Comparison \union {"Begin", "Inv", "End"}
         /\ ins.op \in Computing <=> t.op_rec_[i].op \in Computing
         /\ ins.op \in Computing => Shaped(t, ins) /\ Computes(t, ins)
         /\ ins.res = t.last[i]
         /\ ins.op = "Inv" <=> i \in 1 .. t.n
         /\ ins.op = "Begin" <=> i = 0
         /\ \A j \in DOMAIN ins.arg : ins.kind[j] = "v" =>
              \E k \in 0 .. i - 1 : k \in Op(t) /\ ins.arg[j] = t.last[k]
<1>1. /\ t.op_rec_[i] \in OpCodeRec /\ t.op_rec_[i].op # "CSkip" /\ i \in Nat
      /\ t.op_rec_[i].op = "Inv" <=> i \in 1 .. t.n
      /\ t.op_rec_[i].op = "Begin" <=> i = 0
  <2>1. DOMAIN t.op_rec_ = Op(t)
    BY DEF WellFormed, Vectors, Op
  <2>2. t.op_rec_[i] \in OpCodeRec /\ t.num_op_rec \in Nat
    BY Placed
  <2>3. /\ t.op_rec_[i].op = "Inv" <=> i \in 1 .. t.n
        /\ t.op_rec_[i].op = "Begin" <=> i = 0
    BY <2>1 DEF WellFormed
  <2>4. QED
    BY <2>2, <2>3 DEF Skipping, Op
<1>2. /\ t.op_rec_[i].op = "CExp" => ins.op \in CondExp
      /\ \A j \in DOMAIN ins.arg :
           ins.kind[j] = "v" => ins.arg[j] \in {t.last[k] : k \in 0 .. i - 1}
  BY DEF WellFormed, Ordered, InstrOf, Op
<1>3. t.op_rec_[i].op \in (OpCode \ CondExp) \union {"CExp", "CSum"}
  BY <1>1 DEF OpCodeRec, Optimized
<1>4. ins.res = t.last[i] /\ (t.op_rec_[i].op # "CExp" => ins.op = t.op_rec_[i].op)
  BY <1>1 DEF InstrOf, Instr, CondExpAt, CSumAt, CSkipAt, At, OpAt
<1>5. t.op_rec_[i].op \in Computing \union Comparison \union {"Begin", "Inv", "End"}
  BY <1>3 DEF OpCode, Computing
<1>6. ins.op \in Computing <=> t.op_rec_[i].op \in Computing
  BY <1>2, <1>4 DEF Computing
<1>7. t.op_rec_[i].op = "CExp" => ins.op \in Computing
  BY <1>2 DEF Computing
<1>8. ins.op \in Computing => Shaped(t, ins) /\ Computes(t, ins)
  <2>1. ins = Instr(t, At(t, i))
    BY DEF InstrOf
  <2>2. SUFFICES ASSUME t.op_rec_[i].op \in Computing
                 PROVE  Shaped(t, ins) /\ Computes(t, ins)
    BY <1>6
  <2>3. Shaped(t, ins)
    BY <2>1, <2>2, ComputingShaped
  <2>4. t.num_var_rec \in Nat
    BY Placed
  <2>5. Computes(t, ins)
    BY <2>1, <2>2, <2>4, Computed DEF Computes
  <2>6. QED
    BY <2>3, <2>5
<1>9. \A k \in 0 .. i - 1 : k \in Op(t)
  <2>1. t.num_op_rec \in Nat
    BY Placed
  <2>2. QED
    BY <1>1, <2>1 DEF Op
<1>10. ins.op \in {"Begin", "Inv"} \/ t.op_rec_[i].op \in {"Begin", "Inv"}
         => ins.op = t.op_rec_[i].op
  BY <1>2, <1>4 DEF CondExp
<1>11. QED
  BY <1>1, <1>2, <1>4, <1>5, <1>6, <1>7, <1>8, <1>9, <1>10

(* The states of a play.                                                   *)
OutcomeOf(t, i, z) ==
  LET s == Operands(InstrOf(t, i), z, t.par_rec_) IN Holds(InstrOf(t, i).op, s[1], s[2])

Outcomes(t) == {OutcomeOf(t, i, z) : i \in Op(t), z \in [Address(t) -> Num]}

Plays(t) ==
  [order0 : [Address(t) -> Num], order1 : [Address(t) -> Num],
   skipped : {{}}, compared : Seq(Outcomes(t))]

(* Only sin and cos read the auxiliary variable. *)
LEMMA AuxUnread ==
  ASSUME NEW t, NEW ins, Shaped(t, ins), ins.op \notin TwoResults, NEW s, NEW d, NEW z,
         NEW a, NEW b
  PROVE  Order1(ins, s, d, z, a) = Order1(ins, s, d, z, b)
<1>1. ins.op \notin {"Sin", "Cos"}
  BY ShapedOp, TaylorAssumption DEF CondExp
<1>2. QED
  BY <1>1 DEF Order1

(* One operator of a play: w is what it makes of y. *)
Does(t, y, w, i) ==
  LET ins == InstrOf(t, i)
      s == Operands(ins, y.order0, t.par_rec_)
      z == Order0(ins, s)
  IN  /\ ins.op \in Computing =>
           /\ w.order0[ins.res] = z
           /\ w.order1[ins.res] = Order1(ins, s, Slopes(ins, y.order1), z, Aux(ins.op, s))
      /\ \A a \in Address(t) :
           ins.op \notin Computing \/ a <= ins.res - NumRes(ins.op) =>
             w.order0[a] = y.order0[a] /\ w.order1[a] = y.order1[a]
      /\ w.compared = IF ins.op \in Comparison
                        THEN Append(y.compared, Holds(ins.op, s[1], s[2])) ELSE y.compared

Started(t, u, d, g) ==
  LET start(v) == [a \in Address(t) |-> IF a \in 1 .. t.n THEN v[a] ELSE g]
  IN  [order0 |-> start(u), order1 |-> start(d), skipped |-> {}, compared |-> <<>>]

RunOf(t, f) ==
  [zero |-> f[t.num_op_rec].order0, one |-> f[t.num_op_rec].order1,
   said |-> [k \in 0 .. t.num_op_rec |-> f[k].compared]]

(* The two recordings, played from the same values.                        *)
Equals(x, b, y, a) == x.zero[b] = y.zero[a] /\ x.one[b] = y.one[a]

(* The sums that are gathered: what is on the stacks, and a number b. *)
Loads(stack, f) == [k \in DOMAIN stack |-> Signed(stack[k].add, f[stack[k].ins.res])]

Values(stack, f) == [k \in DOMAIN stack |-> f[stack[k]]]

Amount(work, b, f) ==
  Balance(b, Total(Loads(work.op_stack, f)), Total(Values(work.add_stack, f)),
          Total(Values(work.sub_stack, f)))

LEMMA Pushed ==
  ASSUME NEW S, NEW s \in Seq(S), NEW e \in S, NEW r, r = Append(s, e)
  PROVE  /\ Len(s) \in Nat /\ DOMAIN s = 1 .. Len(s) /\ r \in Seq(S)
         /\ DOMAIN r = 1 .. Len(s) + 1 /\ r[Len(s) + 1] = e
         /\ \A k \in 1 .. Len(s) : r[k] = s[k] /\ k \in 1 .. Len(s) + 1
  OBVIOUS
=============================================================================
