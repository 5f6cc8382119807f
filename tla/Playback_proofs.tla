-------------------------- MODULE Playback_proofs ---------------------------
(***************************************************************************)
(* Proofs about Recording and, on top of them, about Playback.             *)
(*                                                                         *)
(* A recorder in use is Live: well typed, its tape faithful, its addresses *)
(* counted.  PutPar and Put keep it so and only add to it (Grows), which   *)
(* keeps the meaning of every instruction and address; the rest is one     *)
(* lemma about Record and a case per action.                               *)
(*                                                                         *)
(* A tape is Sound when the player can go through it whatever vectors it   *)
(* is in: operators are where they belong, operands are results of earlier *)
(* instructions, and addresses grow.  Vectors are Written when they hold   *)
(* the words of a tape one after the other.  Both survive one more         *)
(* instruction, and together they are what the sweeps rely on: a player    *)
(* that goes through them computes what the recorder said (ReplayIs).      *)
(***************************************************************************)
EXTENDS Playback, SequenceTheorems, FiniteSetTheorems, WellFoundedInduction,
        TLAPS

(***************************************************************************)
(* Recording.                                                              *)
(***************************************************************************)

(* Q has all of R, with the same meaning. *)
Grows(R, Q) ==
  /\ Len(R.tape) <= Len(Q.tape)
  /\ Len(R.par_rec_) <= Len(Q.par_rec_)
  /\ Len(R.den) <= Len(Q.den)
  /\ \A i \in 1 .. Len(R.tape) : Q.tape[i] = R.tape[i]
  /\ \A i \in 1 .. Len(R.par_rec_) : Q.par_rec_[i] = R.par_rec_[i]
  /\ \A i \in 1 .. Len(R.den) : Q.den[i] = R.den[i]

Live(R) ==
  /\ R \in Recorder
  /\ R.num_var_rec_ = Len(R.den) + 1
  /\ Faithful(R)
  /\ Len(R.tape) > 0
  /\ R.tape[Len(R.tape)].res = Len(R.den)

(* The recorded part of a recorder, or of f. *)
Recorded(R) ==
  /\ R.tape \in Seq(Instruction)
  /\ R.par_rec_ \in Seq(Num)
  /\ R.den \in Seq([Point -> Num])

-----------------------------------------------------------------------------

(* An instruction keeps its operands when the recorder grows. *)
LEMMA OperandsKept ==
  ASSUME NEW R, NEW Q, Recorded(R), Recorded(Q), Grows(R, Q),
         NEW ins \in Instruction, ArgsValid(ins, Len(R.par_rec_)),
         ins.res <= Len(R.den)
  PROVE  /\ ArgsValid(ins, Len(Q.par_rec_))
         /\ \A u : Operands(ins, Played(Q, u), Q.par_rec_)
                     = Operands(ins, Played(R, u), R.par_rec_)
<1>1. \A j \in DOMAIN ins.arg : ins.arg[j] \in Nat
  BY DEF Instruction
<1>2. NumRes(ins.op) \in Nat
  BY DEF NumRes
<1>3. \A j \in DOMAIN ins.arg :
        IF ins.kind[j] = "v" THEN ins.arg[j] \in 1 .. Len(R.den)
                             ELSE ins.arg[j] + 1 \in 1 .. Len(R.par_rec_)
  BY <1>1, <1>2 DEF ArgsValid, Before, Recorded, Instruction
<1>4. ArgsValid(ins, Len(Q.par_rec_))
  BY <1>1 DEF ArgsValid, Grows, Recorded
<1>5. ASSUME NEW u
      PROVE  Operands(ins, Played(Q, u), Q.par_rec_)
               = Operands(ins, Played(R, u), R.par_rec_)
  <2>1. \A a \in 1 .. Len(R.den) : Played(Q, u)[a] = Played(R, u)[a]
    BY DEF Played, Grows, Recorded
  <2> QED
    BY <1>3, <2>1 DEF Operands, Grows
<1> QED
  BY <1>4, <1>5

(* So a faithful tape stays faithful when nothing but parameters and       *)
(* faithful instructions are added.                                        *)
LEMMA FaithfulKept ==
  ASSUME NEW R, NEW Q, Recorded(R), Recorded(Q), Grows(R, Q), Faithful(R),
         NEW i \in DOMAIN R.tape
  PROVE  /\ Q.tape[i] = R.tape[i]
         /\ ArgsValid(Q.tape[i], Len(Q.par_rec_))
         /\ Q.tape[i].res <= Len(Q.den)
         /\ \A u \in Point : Solves(Q.tape[i], Played(Q, u), Q.par_rec_)
         /\ IF i = 1 THEN Q.tape[i].op = "Begin" /\ Q.tape[i].res = 0
                     ELSE Q.tape[i].res = Q.tape[i - 1].res + NumRes(Q.tape[i].op)
         /\ \A u : Operands(Q.tape[i], Played(Q, u), Q.par_rec_)
                     = Operands(R.tape[i], Played(R, u), R.par_rec_)
<1> DEFINE ins == R.tape[i]
<1>1. ins \in Instruction /\ i \in 1 .. Len(R.tape) /\ Q.tape[i] = ins
  BY DEF Recorded, Grows
<1>0. /\ Len(R.tape) \in Nat /\ Len(R.den) \in Nat /\ Len(Q.den) \in Nat
      /\ Len(R.den) <= Len(Q.den) /\ ins.res \in Nat
  BY <1>1, LenProperties DEF Recorded, Grows, Instruction
<1>7. i > 1 => i - 1 \in 1 .. Len(R.tape) /\ R.tape[i - 1].res \in Nat
  <2>1. i > 1 => i - 1 \in 1 .. Len(R.tape)
    BY <1>0, <1>1
  <2>2. i > 1 => R.tape[i - 1] \in Instruction
    BY <2>1 DEF Recorded
  <2> QED
    BY <2>1, <2>2 DEF Instruction
<1>2. /\ ArgsValid(ins, Len(R.par_rec_))
      /\ ins.res <= Len(R.den)
      /\ \A u \in Point : Solves(ins, Played(R, u), R.par_rec_)
      /\ IF i = 1 THEN ins.op = "Begin" /\ ins.res = 0
                  ELSE ins.res = R.tape[i - 1].res + NumRes(ins.op)
  BY DEF Faithful
<1>3. /\ ArgsValid(ins, Len(Q.par_rec_))
      /\ \A u : Operands(ins, Played(Q, u), Q.par_rec_)
                  = Operands(ins, Played(R, u), R.par_rec_)
  BY <1>1, <1>2, OperandsKept
<1>4. ins.res \in Nat /\ ins.res <= Len(Q.den)
  BY <1>0, <1>2
<1>5. ASSUME NEW u \in Point
      PROVE  Solves(ins, Played(Q, u), Q.par_rec_)
  <2>1. \A a \in 1 .. Len(R.den) : Played(Q, u)[a] = Played(R, u)[a]
    BY DEF Played, Grows, Recorded
  <2>2. ins.op \notin {"Begin", "Inv"} /\ NumRes(ins.op) > 0 => ins.res \in 1 .. Len(R.den)
    BY <1>0, <1>2, <1>7, <1>1 DEF NumRes
  <2>3. ins.op \in TwoResults => ins.res - 1 \in 1 .. Len(R.den)
    <3>1. ins.op \in TwoResults => NumRes(ins.op) = 2 /\ ins.op # "Begin"
      BY UnaryAssumption DEF NumRes
    <3>2. ins.op \in TwoResults => i > 1 /\ ins.res = R.tape[i - 1].res + 2
      BY <1>1, <1>0, <1>2, <3>1
    <3>3. ins.res <= Len(R.den)
      BY <1>2
    <3> HIDE DEF ins
    <3> QED
      BY <1>0, <1>7, <3>2, <3>3
  <2> QED
    BY <1>2, <1>3, <2>1, <2>2, <2>3 DEF Solves
<1>6. i > 1 => Q.tape[i - 1] = R.tape[i - 1]
  BY <1>7 DEF Grows
<1> QED
  BY <1>1, <1>2, <1>3, <1>4, <1>5, <1>6

-----------------------------------------------------------------------------

(* PutPar returns the index of its parameter and changes no other.         *)
LEMMA PutParLive ==
  ASSUME NEW R, Live(R), NEW c \in Num
  PROVE  /\ Live(PutPar(R, c))
         /\ Grows(R, PutPar(R, c))
         /\ PutPar(R, c).tape = R.tape
         /\ PutPar(R, c).den = R.den
         /\ PutPar(R, c).hash_table[Hash(c)] \in 0 .. Len(PutPar(R, c).par_rec_) - 1
         /\ PutPar(R, c).par_rec_[PutPar(R, c).hash_table[Hash(c)] + 1] = c
<1> DEFINE i == R.hash_table[Hash(c)]
           Q == PutPar(R, c)
           n == Len(R.par_rec_)
<1>1. R \in Recorder /\ Hash(c) \in Code /\ i \in Nat /\ n \in Nat
  BY HashAssumption DEF Live, Recorder
<1>2. CASE i < n /\ R.par_rec_[i + 1] = c
  <2>1. Q = R
    BY <1>2 DEF PutPar
  <2> QED
    BY <1>1, <1>2, <2>1 DEF Grows, Recorder
<1>3. CASE ~(i < n /\ R.par_rec_[i + 1] = c)
  <2>1. Q = [R EXCEPT !.par_rec_ = Append(@, c), !.hash_table[Hash(c)] = n]
    BY <1>3 DEF PutPar
  <2>2. /\ Q \in Recorder
        /\ Q.tape = R.tape /\ Q.den = R.den /\ Q.num_var_rec_ = R.num_var_rec_
        /\ Q.par_rec_ = Append(R.par_rec_, c)
        /\ Q.hash_table = [R.hash_table EXCEPT ![Hash(c)] = n]
    <3>1. /\ Append(R.par_rec_, c) \in Seq(Num)
          /\ [R.hash_table EXCEPT ![Hash(c)] = n] \in [Code -> Nat]
      BY <1>1, AppendProperties DEF Recorder
    <3>2. /\ Q.tape = R.tape /\ Q.den = R.den /\ Q.num_var_rec_ = R.num_var_rec_
          /\ Q.par_rec_ = Append(R.par_rec_, c)
          /\ Q.hash_table = [R.hash_table EXCEPT ![Hash(c)] = n]
      BY <1>1, <2>1 DEF Recorder
    <3>3. Q = [tape |-> Q.tape, par_rec_ |-> Q.par_rec_, den |-> Q.den,
               num_var_rec_ |-> Q.num_var_rec_, hash_table |-> Q.hash_table]
      BY <1>1, <2>1 DEF Recorder
    <3> QED
      BY <1>1, <3>1, <3>2, <3>3 DEF Recorder
  <2>3. Q.hash_table[Hash(c)] = n
    BY <1>1, <2>2 DEF Recorder
  <2>4. /\ R.par_rec_ \in Seq(Num)
        /\ Len(Q.par_rec_) = n + 1 /\ Q.par_rec_[n + 1] = c
        /\ \A k \in 1 .. n : Q.par_rec_[k] = R.par_rec_[k]
    BY <1>1, <2>2, AppendProperties DEF Recorder
  <2>5. Grows(R, Q) /\ Recorded(R) /\ Recorded(Q)
    BY <1>1, <2>2, <2>4 DEF Grows, Recorded, Recorder
  <2>6. Faithful(Q)
    <3> SUFFICES ASSUME NEW k \in DOMAIN Q.tape
                 PROVE  /\ ArgsValid(Q.tape[k], Len(Q.par_rec_))
                        /\ Q.tape[k].res <= Len(Q.den)
                        /\ \A u \in Point : Solves(Q.tape[k], Played(Q, u), Q.par_rec_)
                        /\ IF k = 1 THEN Q.tape[k].op = "Begin" /\ Q.tape[k].res = 0
                           ELSE Q.tape[k].res = Q.tape[k - 1].res + NumRes(Q.tape[k].op)
      BY DEF Faithful
    <3>1. k \in DOMAIN R.tape /\ Faithful(R)
      BY <2>2 DEF Live
    <3> QED
      BY <2>5, <3>1, FaithfulKept
  <2>7. Live(Q)
    BY <2>2, <2>6 DEF Live
  <2> QED
    BY <1>1, <2>2, <2>3, <2>4, <2>5, <2>7
<1> QED
  BY <1>2, <1>3

(* What an instruction with these arguments computes with at u. *)
ArgValues(R, kind, arg, u) ==
  [j \in DOMAIN arg |-> IF kind[j] = "v" THEN R.den[arg[j]][u]
                                         ELSE R.par_rec_[arg[j] + 1]]

(* Arguments that were put before their instruction. *)
WellPut(R, kind, arg) ==
  /\ kind \in Seq({"v", "p"}) /\ arg \in Seq(Nat) /\ Len(kind) = Len(arg)
  /\ \A j \in DOMAIN arg : IF kind[j] = "v" THEN arg[j] \in 1 .. Len(R.den)
                                             ELSE arg[j] < Len(R.par_rec_)

(* op gives numbers when it computes with v[u] at u. *)
Total(op, v) ==
  \A u \in Point :
    /\ NumRes(op) > 0 => Value(op, v[u]) \in Num
    /\ op \in TwoResults => Aux(op, v[u]) \in Num

(* Q is R and an instruction that computes op with v[u] at u. *)
Adds(R, Q, op, v) ==
  /\ Live(Q)
  /\ Grows(R, Q)
  /\ Len(Q.tape) = Len(R.tape) + 1
  /\ Q.tape[Len(Q.tape)].op = op
  /\ \A u \in Point :
       Operands(Q.tape[Len(Q.tape)], Played(Q, u), Q.par_rec_) = v[u]
  /\ NumRes(op) > 0 =>
       /\ Len(Q.den) > 0
       /\ Q.den[Len(Q.den)] = [u \in Point |-> Value(op, v[u])]

(* Put gives its instruction new addresses and their values.               *)
LEMMA PutLive ==
  ASSUME NEW R, Live(R), NEW op \in OpCode \ {"Begin", "Inv"},
         NEW kind, NEW arg, WellPut(R, kind, arg),
         NEW v, v = [u \in Point |-> ArgValues(R, kind, arg, u)], Total(op, v)
  PROVE  Adds(R, Put(R, op, kind, arg), op, v)
<1> DEFINE Q == Put(R, op, kind, arg)
           ins == [op |-> op, kind |-> kind, arg |-> arg,
                   res |-> R.num_var_rec_ + NumRes(op) - 1]
           val(u) == ArgValues(R, kind, arg, u)
           result == [u \in Point |-> Value(op, val(u))]
           aux == [u \in Point |-> Aux(op, val(u))]
           n == Len(R.den)
           t == Len(R.tape)
<1>0. /\ kind \in Seq({"v", "p"}) /\ arg \in Seq(Nat) /\ Len(kind) = Len(arg)
      /\ \A j \in DOMAIN arg : IF kind[j] = "v" THEN arg[j] \in 1 .. Len(R.den)
                                                 ELSE arg[j] < Len(R.par_rec_)
      /\ \A u \in Point :
           /\ NumRes(op) > 0 => Value(op, val(u)) \in Num
           /\ op \in TwoResults => Aux(op, val(u)) \in Num
  BY DEF WellPut, Total
<1>1. /\ R \in Recorder /\ R.num_var_rec_ = n + 1 /\ Faithful(R)
      /\ t > 0 /\ R.tape[t].res = n
      /\ R.tape \in Seq(Instruction) /\ R.par_rec_ \in Seq(Num)
      /\ R.den \in Seq([Point -> Num])
      /\ n \in Nat /\ t \in Nat
  BY LenProperties DEF Live, Recorder
<1>2. NumRes(op) \in {0, 1, 2} /\ (op \in TwoResults <=> NumRes(op) = 2)
  BY DEF NumRes
<1>3. ins \in Instruction /\ ins.res = n + NumRes(op)
  <2>1. ins.res = n + NumRes(op) /\ n + NumRes(op) \in Nat
    BY <1>1, <1>2
  <2> QED
    BY <1>0, <2>1 DEF Instruction
<1>4. \A u : Operands(ins, Played(R, u), R.par_rec_) = val(u)
  <2> SUFFICES ASSUME NEW u
               PROVE  Operands(ins, Played(R, u), R.par_rec_) = val(u)
    OBVIOUS
  <2>1. \A j \in DOMAIN arg : kind[j] = "v" => Played(R, u)[arg[j]] = R.den[arg[j]][u]
    BY <1>0, <1>1 DEF Played
  <2> QED
    BY <2>1 DEF Operands, ArgValues
<1>5. Q = [R EXCEPT !.tape = Append(@, ins),
                    !.num_var_rec_ = @ + NumRes(op),
                    !.den = CASE NumRes(op) = 0 -> @
                              [] NumRes(op) = 1 -> Append(@, result)
                              [] NumRes(op) = 2 -> @ \o <<aux, result>>]
  BY <1>4 DEF Put
<1>6. /\ Q.tape = Append(R.tape, ins) /\ Q.par_rec_ = R.par_rec_
      /\ Q.num_var_rec_ = R.num_var_rec_ + NumRes(op)
      /\ Q.hash_table = R.hash_table
      /\ Q.den = CASE NumRes(op) = 0 -> R.den
                   [] NumRes(op) = 1 -> Append(R.den, result)
                   [] NumRes(op) = 2 -> R.den \o <<aux, result>>
  BY <1>1, <1>5 DEF Recorder
<1>7. /\ NumRes(op) > 0 => result \in [Point -> Num]
      /\ op \in TwoResults => aux \in [Point -> Num]
  BY <1>0
<1>8. /\ Q.tape \in Seq(Instruction) /\ Len(Q.tape) = t + 1
      /\ Q.tape[t + 1] = ins
      /\ \A k \in 1 .. t : Q.tape[k] = R.tape[k]
  BY <1>1, <1>3, <1>6, AppendProperties
<1>9. /\ Q.den \in Seq([Point -> Num]) /\ Len(Q.den) = n + NumRes(op)
      /\ \A k \in 1 .. n : Q.den[k] = R.den[k]
      /\ NumRes(op) > 0 => Q.den[n + NumRes(op)] = result
      /\ op \in TwoResults => Q.den[n + 1] = aux
  <2>1. CASE NumRes(op) = 0
    BY <1>1, <1>2, <1>6, <2>1
  <2>2. CASE NumRes(op) = 1
    <3>1. Q.den = Append(R.den, result)
      BY <1>6, <2>2
    <3> QED
      BY <1>1, <1>2, <1>7, <2>2, <3>1, AppendProperties
  <2>3. CASE NumRes(op) = 2
    <3>1. Q.den = R.den \o <<aux, result>>
      BY <1>6, <2>3
    <3>2. <<aux, result>> \in Seq([Point -> Num]) /\ Len(<<aux, result>>) = 2
      BY <1>2, <1>7, <2>3
    <3> HIDE DEF aux, result, n, ins, val
    <3>3. /\ Q.den \in Seq([Point -> Num]) /\ Len(Q.den) = n + 2
          /\ \A k \in 1 .. n + 2 : Q.den[k] = IF k <= n THEN R.den[k]
                                                        ELSE <<aux, result>>[k - n]
      BY <1>1, <3>1, <3>2, ConcatProperties DEF n
    <3>4. n + NumRes(op) = n + 2 /\ op \in TwoResults
      BY <1>2, <2>3
    <3>5. <<aux, result>>[n + 1 - n] = aux /\ <<aux, result>>[n + 2 - n] = result
      BY <1>1
    <3>6. Q.den[n + 1] = aux /\ Q.den[n + 2] = result
      BY <1>1, <3>3, <3>5
    <3>7. \A k \in 1 .. n : Q.den[k] = R.den[k]
      BY <1>1, <3>3
    <3> QED
      BY <3>3, <3>4, <3>6, <3>7
  <2> QED
    BY <1>2, <2>1, <2>2, <2>3
<1>10. /\ Q \in Recorder /\ Q.num_var_rec_ = Len(Q.den) + 1
       /\ Recorded(R) /\ Recorded(Q) /\ Grows(R, Q)
  <2>1. Q \in Recorder
    <3>1. Q = [tape |-> Q.tape, par_rec_ |-> Q.par_rec_, den |-> Q.den,
               num_var_rec_ |-> Q.num_var_rec_, hash_table |-> Q.hash_table]
      BY <1>1, <1>5 DEF Recorder
    <3>2. Q.num_var_rec_ \in Nat /\ Q.hash_table \in [Code -> Nat]
      BY <1>1, <1>2, <1>6 DEF Recorder
    <3> QED
      BY <1>1, <1>6, <1>8, <1>9, <3>1, <3>2 DEF Recorder
  <2> QED
    BY <1>1, <1>2, <1>6, <1>8, <1>9, <2>1 DEF Recorded, Grows, Recorder
<1>11. ArgsValid(ins, Len(Q.par_rec_))
  <2>1. Before(ins) = 1 .. n
    BY <1>1, <1>2 DEF Before
  <2> QED
    BY <1>0, <1>6, <2>1 DEF ArgsValid
<1>12. \A u : Operands(ins, Played(Q, u), Q.par_rec_) = val(u)
  <2> SUFFICES ASSUME NEW u
               PROVE  Operands(ins, Played(Q, u), Q.par_rec_) = val(u)
    OBVIOUS
  <2>1. \A j \in DOMAIN arg : kind[j] = "v" => Played(Q, u)[arg[j]] = R.den[arg[j]][u]
    <3>1. \A j \in DOMAIN arg :
            kind[j] = "v" => arg[j] \in 1 .. n /\ arg[j] \in DOMAIN Q.den
      BY <1>0, <1>1, <1>2, <1>9
    <3> QED
      BY <1>9, <3>1 DEF Played
  <2> QED
    BY <1>6, <2>1 DEF Operands, ArgValues
<1>13. ASSUME NEW u \in Point
       PROVE  Solves(ins, Played(Q, u), Q.par_rec_)
  <2>1. NumRes(op) > 0 => Played(Q, u)[ins.res] = Value(op, val(u))
    BY <1>1, <1>2, <1>3, <1>9 DEF Played
  <2>2. op \in TwoResults => Played(Q, u)[ins.res - 1] = Aux(op, val(u))
    BY <1>1, <1>2, <1>3, <1>9 DEF Played
  <2> QED
    BY <1>12, <2>1, <2>2 DEF Solves
<1>14. Faithful(Q)
  <2> SUFFICES ASSUME NEW k \in DOMAIN Q.tape
               PROVE  /\ ArgsValid(Q.tape[k], Len(Q.par_rec_))
                      /\ Q.tape[k].res <= Len(Q.den)
                      /\ \A u \in Point : Solves(Q.tape[k], Played(Q, u), Q.par_rec_)
                      /\ IF k = 1 THEN Q.tape[k].op = "Begin" /\ Q.tape[k].res = 0
                         ELSE Q.tape[k].res = Q.tape[k - 1].res + NumRes(Q.tape[k].op)
    BY DEF Faithful
  <2>1. k \in 1 .. t + 1
    BY <1>8
  <2>2. CASE k \in 1 .. t
    <3>1. k \in DOMAIN R.tape
      BY <1>1, <2>2
    <3> QED
      BY <1>1, <1>10, <3>1, FaithfulKept
  <2>3. CASE k = t + 1
    <3>1. Q.tape[k] = ins /\ Q.tape[k - 1] = R.tape[t] /\ k # 1
      <4>1. k - 1 = t /\ t \in 1 .. t /\ k # 1
        BY <1>1, <2>3
      <4> QED
        BY <1>8, <2>3, <4>1
    <3>2. ins.res = R.tape[t].res + NumRes(ins.op) /\ ins.res <= Len(Q.den)
      BY <1>1, <1>2, <1>3, <1>9
    <3>3. /\ ArgsValid(ins, Len(Q.par_rec_))
          /\ \A u \in Point : Solves(ins, Played(Q, u), Q.par_rec_)
      BY <1>11, <1>13
    <3> HIDE DEF ins
    <3> QED
      BY <3>1, <3>2, <3>3
  <2> QED
    <3>1. k \in 1 .. t \/ k = t + 1
      BY <1>1, <2>1
    <3> QED
      BY <2>2, <2>3, <3>1
<1>15. Live(Q)
  BY <1>1, <1>3, <1>8, <1>9, <1>10, <1>14 DEF Live
<1> QED
  <2> HIDE DEF Q, ins
  <2>1. \A u \in Point : v[u] = val(u)
    OBVIOUS
  <2>2. [u \in Point |-> Value(op, v[u])] = result
    BY <2>1
  <2>3. Len(Q.tape) = t + 1 /\ Q.tape[Len(Q.tape)] = ins /\ ins.op = op
    BY <1>8 DEF ins
  <2>4. NumRes(op) > 0 => Len(Q.den) > 0 /\ Q.den[Len(Q.den)] = result
    BY <1>1, <1>2, <1>9
  <2>5. \A u \in Point :
          Operands(Q.tape[Len(Q.tape)], Played(Q, u), Q.par_rec_) = v[u]
    BY <1>12, <2>1, <2>3
  <2> HIDE DEF result
  <2>6. Adds(R, Q, op, v)
    BY <1>10, <1>15, <2>2, <2>3, <2>4, <2>5 DEF Adds
  <2> QED
    BY <2>6 DEF Q

-----------------------------------------------------------------------------

LEMMA GrowsTransitive ==
  ASSUME NEW R, NEW Q, NEW S, R \in Recorder, Q \in Recorder, S \in Recorder,
         Grows(R, Q), Grows(Q, S)
  PROVE  Grows(R, S)
<1>1. /\ Len(R.tape) \in Nat /\ Len(Q.tape) \in Nat /\ Len(S.tape) \in Nat
      /\ Len(R.den) \in Nat /\ Len(Q.den) \in Nat /\ Len(S.den) \in Nat
      /\ Len(R.par_rec_) \in Nat /\ Len(Q.par_rec_) \in Nat /\ Len(S.par_rec_) \in Nat
  BY LenProperties DEF Recorder
<1>2. \A i \in 1 .. Len(R.tape) : S.tape[i] = R.tape[i]
  BY <1>1 DEF Grows
<1>3. \A i \in 1 .. Len(R.par_rec_) : S.par_rec_[i] = R.par_rec_[i]
  BY <1>1 DEF Grows
<1>4. \A i \in 1 .. Len(R.den) : S.den[i] = R.den[i]
  BY <1>1 DEF Grows
<1>5. /\ Len(R.tape) <= Len(S.tape)
      /\ Len(R.par_rec_) <= Len(S.par_rec_)
      /\ Len(R.den) <= Len(S.den)
  BY <1>1 DEF Grows
<1> QED
  BY <1>2, <1>3, <1>4, <1>5, Zenon DEF Grows

(* The address a of an operand o leads to its value. *)
Leads(R, o, a) ==
  IF Variable(o) THEN a = o.taddr_
  ELSE a \in 0 .. Len(R.par_rec_) - 1 /\ R.par_rec_[a + 1] = o.value_

LEMMA LeadsKept ==
  ASSUME NEW R, NEW Q, R \in Recorder, Q \in Recorder, Grows(R, Q),
         NEW o, NEW a, Leads(R, o, a)
  PROVE  Leads(Q, o, a)
<1>1. Len(R.par_rec_) \in Nat /\ Len(Q.par_rec_) \in Nat
  BY LenProperties DEF Recorder
<1>2. CASE Variable(o)
  BY <1>2 DEF Leads
<1>3. CASE ~Variable(o)
  <2>1. a \in 0 .. Len(R.par_rec_) - 1 /\ R.par_rec_[a + 1] = o.value_
    BY <1>3 DEF Leads
  <2>2. a \in 0 .. Len(Q.par_rec_) - 1 /\ a + 1 \in 1 .. Len(R.par_rec_)
    BY <1>1, <2>1 DEF Grows
  <2>3. Q.par_rec_[a + 1] = R.par_rec_[a + 1]
    BY <2>2 DEF Grows
  <2> QED
    BY <1>3, <2>1, <2>2, <2>3 DEF Leads
<1> QED
  BY <1>2, <1>3

LEMMA PutOperandLive ==
  ASSUME NEW R, Live(R), NEW s \in Seq(AD), NEW j \in Nat
  PROVE  /\ Live(PutOperand(R, s, j))
         /\ Grows(R, PutOperand(R, s, j))
         /\ PutOperand(R, s, j).tape = R.tape
         /\ PutOperand(R, s, j).den = R.den
         /\ j \in DOMAIN s => Leads(PutOperand(R, s, j), s[j],
                                    Address(PutOperand(R, s, j), s[j]))
<1>1. CASE j \in DOMAIN s /\ Parameter(s[j])
  <2>1. s[j].value_ \in Num
    <3>1. s[j] \in AD
      BY <1>1
    <3> QED
      BY <3>1 DEF AD
  <2> DEFINE Q == PutPar(R, s[j].value_)
  <2>2. /\ Live(Q) /\ Grows(R, Q) /\ Q.tape = R.tape /\ Q.den = R.den
        /\ Q.hash_table[Hash(s[j].value_)] \in 0 .. Len(Q.par_rec_) - 1
        /\ Q.par_rec_[Q.hash_table[Hash(s[j].value_)] + 1] = s[j].value_
    BY <2>1, PutParLive
  <2>3. PutOperand(R, s, j) = Q
    BY <1>1 DEF PutOperand
  <2> HIDE DEF Q
  <2> QED
    BY <1>1, <2>2, <2>3 DEF Leads, Address, Parameter
<1>2. CASE ~(j \in DOMAIN s /\ Parameter(s[j]))
  <2>1. PutOperand(R, s, j) = R
    BY <1>2 DEF PutOperand
  <2>2. Grows(R, R)
    BY LenProperties DEF Grows, Live, Recorder
  <2> QED
    BY <1>2, <2>1, <2>2 DEF Leads, Address, Parameter
<1> QED
  BY <1>1, <1>2

-----------------------------------------------------------------------------

(* The operators Record is called with, and the operands they take. *)
Recordable == Binary \union Unary \union Comparison \union CondExp \union {"Par"}

Arity(op) ==
  IF op \in Binary \union Comparison THEN 2 ELSE IF op \in CondExp THEN 4 ELSE 1

(* The values of the objects s at u. *)
ValuesOf(R, s, u) == [j \in DOMAIN s |-> FunctionOf(R, s[j])[u]]

LEMMA ResultInNum ==
  ASSUME NEW op \in Recordable, NEW v \in Seq(Num), Len(v) = Arity(op)
  PROVE  /\ NumRes(op) > 0 => Value(op, v) \in Num
         /\ op \in TwoResults => Aux(op, v) \in Num
<1>1. CASE op \in Binary
  <2>1. Len(v) = 2 /\ op \notin TwoResults
    BY <1>1, UnaryAssumption DEF Arity
  <2>2. v = <<v[1], v[2]>> /\ v[1] \in Num /\ v[2] \in Num
    <3>1. v \in [1 .. 2 -> Num]
      BY <2>1
    <3>2. v = [j \in 1 .. 2 |-> v[j]]
      BY <3>1
    <3>3. [j \in 1 .. 2 |-> v[j]] = <<v[1], v[2]>>
      OBVIOUS
    <3>4. v[1] \in Num /\ v[2] \in Num
      BY <3>1
    <3> QED
      BY <3>2, <3>3, <3>4
  <2>3. Value(op, v) = Calc(op, v)
    BY <1>1 DEF Value, Binary, CondExp
  <2>4. Calc(op, <<v[1], v[2]>>) \in Num
    BY <1>1, <2>2, CalcAssumption
  <2> QED
    BY <2>1, <2>2, <2>3, <2>4
<1>2. CASE op \in Unary
  <2>1. Len(v) = 1
    BY <1>2, UnaryAssumption DEF Arity
  <2>2. v = <<v[1]>> /\ v[1] \in Num
    BY <2>1
  <2>3. Value(op, v) = Calc(op, v)
    BY <1>2, UnaryAssumption DEF Value, CondExp
  <2>4. Calc(op, <<v[1]>>) \in Num /\ Aux(op, <<v[1]>>) \in Num
    BY <1>2, <2>2, CalcAssumption
  <2> QED
    BY <2>1, <2>2, <2>3, <2>4
<1>3. CASE op \in Comparison
  BY <1>3, UnaryAssumption DEF NumRes, Comparison
<1>4. CASE op \in CondExp
  <2>1. Len(v) = 4 /\ op \notin Binary \union Unary \union {"Par"}
    BY <1>4, UnaryAssumption DEF Arity, CondExp, Binary, Comparison
  <2>2. v[3] \in Num /\ v[4] \in Num
    BY <2>1
  <2>3. Value(op, v) = IF Holds(op, v[1], v[2]) THEN v[3] ELSE v[4]
    BY <1>4, <2>1 DEF Value
  <2> QED
    BY <2>1, <2>2, <2>3, UnaryAssumption
<1>5. CASE op = "Par"
  <2>1. Len(v) = 1 /\ op \notin Binary \union Unary \union CondExp
    BY <1>5, UnaryAssumption DEF Arity, CondExp, Binary, Comparison
  <2>2. Value(op, v) = v[1] /\ v[1] \in Num
    BY <1>5, <2>1 DEF Value
  <2> QED
    BY <2>1, <2>2, UnaryAssumption
<1> QED
  BY <1>1, <1>2, <1>3, <1>4, <1>5 DEF Recordable

(* Record adds an instruction that computes op of what its operands stand  *)
(* for, whatever parameters it finds or adds for them.                     *)
LEMMA RecordLive ==
  ASSUME NEW R, Live(R), NEW op \in Recordable,
         NEW s \in Seq(AD), Len(s) = Arity(op),
         \A j \in DOMAIN s : s[j].taddr_ <= Len(R.den),
         NEW v, v = [u \in Point |-> ValuesOf(R, s, u)]
  PROVE  Adds(R, Record(R, op, s), op, v)
<1> DEFINE R1 == PutOperand(R, s, 1)
           R2 == PutOperand(R1, s, 2)
           R3 == PutOperand(R2, s, 3)
           R4 == PutOperand(R3, s, 4)
           kind == [j \in DOMAIN s |-> IF Variable(s[j]) THEN "v" ELSE "p"]
           arg == [j \in DOMAIN s |-> Address(<<R1, R2, R3, R4>>[j], s[j])]
<1> DEFINE Q == Put(R4, op, kind, arg)
<1>1. Record(R, op, s) = Q
  BY DEF Record
<1>2. Live(R1) /\ Grows(R, R1) /\ R1.tape = R.tape /\ R1.den = R.den
      /\ (1 \in DOMAIN s => Leads(R1, s[1], Address(R1, s[1])))
  BY PutOperandLive
<1> HIDE DEF R1
<1>3. Live(R2) /\ Grows(R1, R2) /\ R2.tape = R1.tape /\ R2.den = R1.den
      /\ (2 \in DOMAIN s => Leads(R2, s[2], Address(R2, s[2])))
  BY <1>2, PutOperandLive
<1> HIDE DEF R2
<1>4. Live(R3) /\ Grows(R2, R3) /\ R3.tape = R2.tape /\ R3.den = R2.den
      /\ (3 \in DOMAIN s => Leads(R3, s[3], Address(R3, s[3])))
  BY <1>3, PutOperandLive
<1> HIDE DEF R3
<1>5. Live(R4) /\ Grows(R3, R4) /\ R4.tape = R3.tape /\ R4.den = R3.den
      /\ (4 \in DOMAIN s => Leads(R4, s[4], Address(R4, s[4])))
  BY <1>4, PutOperandLive
<1> HIDE DEF R4
<1>6. R \in Recorder /\ R1 \in Recorder /\ R2 \in Recorder /\ R3 \in Recorder /\ R4 \in Recorder
  BY <1>2, <1>3, <1>4, <1>5 DEF Live
<1>7. Grows(R2, R4) /\ Grows(R1, R4) /\ Grows(R, R4)
  BY <1>2, <1>3, <1>4, <1>5, <1>6, GrowsTransitive
<1>8. DOMAIN s = 1 .. Len(s) /\ DOMAIN s \subseteq 1 .. 4
  <2>1. Len(s) \in Nat /\ DOMAIN s = 1 .. Len(s)
    BY LenProperties
  <2>2. Len(s) \in {1, 2, 4}
    BY DEF Arity
  <2> QED
    BY <2>1, <2>2
<1>9. \A j \in DOMAIN s : Leads(R4, s[j], arg[j])
  <2> SUFFICES ASSUME NEW j \in DOMAIN s PROVE Leads(R4, s[j], arg[j])
    OBVIOUS
  <2>1. CASE j = 1
    BY <1>2, <1>6, <1>7, <2>1, LeadsKept
  <2>2. CASE j = 2
    BY <1>3, <1>6, <1>7, <2>2, LeadsKept
  <2>3. CASE j = 3
    BY <1>4, <1>5, <1>6, <2>3, LeadsKept
  <2>4. CASE j = 4
    BY <1>5, <2>4
  <2> QED
    BY <1>8, <2>1, <2>2, <2>3, <2>4
<1> HIDE DEF arg
<1>10. /\ R4.den = R.den /\ Len(R.den) \in Nat /\ Len(R4.par_rec_) \in Nat
       /\ R4.tape = R.tape
       /\ R4.par_rec_ \in Seq(Num) /\ R.den \in Seq([Point -> Num])
  BY <1>2, <1>3, <1>4, <1>5, <1>6, LenProperties DEF Recorder
<1>11. DOMAIN arg = DOMAIN s /\ DOMAIN kind = DOMAIN s
  BY DEF arg
<1>12. \A j \in DOMAIN s : s[j] \in AD
  OBVIOUS
<1>13. \A j \in DOMAIN s : IF kind[j] = "v" THEN arg[j] \in 1 .. Len(R4.den)
                           ELSE arg[j] \in 0 .. Len(R4.par_rec_) - 1
  BY <1>9, <1>10, <1>12 DEF Leads, Variable, AD
<1>14. kind \in Seq({"v", "p"}) /\ arg \in Seq(Nat) /\ Len(kind) = Len(arg)
  <2>1. kind \in [1 .. Len(s) -> {"v", "p"}]
    BY <1>8
  <2>2. \A j \in DOMAIN s : arg[j] \in Nat
    BY <1>10, <1>13
  <2>3. arg \in [1 .. Len(s) -> Nat]
    BY <1>8, <1>11, <2>2 DEF arg
  <2>4. Len(s) \in Nat
    OBVIOUS
  <2>5. kind \in Seq({"v", "p"}) /\ Len(kind) = Len(s)
    BY <2>1, <2>4
  <2>6. arg \in Seq(Nat) /\ Len(arg) = Len(s)
    BY <2>3, <2>4
  <2> QED
    BY <2>5, <2>6
<1>15. ASSUME NEW u \in Point
       PROVE  ArgValues(R4, kind, arg, u) = ValuesOf(R, s, u)
  <2>1. \A j \in DOMAIN s : FunctionOf(R, s[j])[u]
                              = IF kind[j] = "v" THEN R4.den[arg[j]][u]
                                                 ELSE R4.par_rec_[arg[j] + 1]
    BY <1>9, <1>10 DEF Leads, FunctionOf
  <2> QED
    BY <1>11, <2>1 DEF ArgValues, ValuesOf
<1>16. ASSUME NEW u \in Point
       PROVE  ValuesOf(R, s, u) \in Seq(Num) /\ Len(ValuesOf(R, s, u)) = Arity(op)
  <2>1. \A j \in DOMAIN s : FunctionOf(R, s[j])[u] \in Num
    <3> SUFFICES ASSUME NEW j \in DOMAIN s
                 PROVE  FunctionOf(R, s[j])[u] \in Num
      OBVIOUS
    <3>1. s[j].taddr_ \in Nat /\ s[j].value_ \in Num
      BY <1>12 DEF AD
    <3>2. Variable(s[j]) => R.den[s[j].taddr_] \in [Point -> Num]
      BY <1>10, <3>1 DEF Variable
    <3> QED
      BY <3>1, <3>2 DEF FunctionOf
  <2>2. ValuesOf(R, s, u) \in [1 .. Len(s) -> Num] /\ Len(s) \in Nat
    BY <1>8, <2>1 DEF ValuesOf
  <2> QED
    BY <2>2
<1>17. op \in OpCode \ {"Begin", "Inv"}
  BY UnaryAssumption DEF Recordable, OpCode, Binary, Comparison, CondExp
<1>18. v = [u \in Point |-> ArgValues(R4, kind, arg, u)]
  BY <1>15
<1>19. Total(op, v)
  BY <1>16, ResultInNum DEF Total
<1>20. WellPut(R4, kind, arg)
  BY <1>10, <1>11, <1>13, <1>14 DEF WellPut
<1> HIDE DEF kind
<1>21. Adds(R4, Q, op, v)
  BY <1>5, <1>17, <1>18, <1>19, <1>20, PutLive
<1> HIDE DEF Q
<1>22. Grows(R, Q)
  BY <1>6, <1>7, <1>21, GrowsTransitive DEF Live, Adds
<1> QED
  BY <1>1, <1>10, <1>21, <1>22 DEF Adds

(* A point agrees with the longer tape if it agrees with the shorter one   *)
(* and with the comparison added, if one is.                               *)
LEMMA AgreeAdded ==
  ASSUME NEW R, Live(R), NEW Q, NEW op, NEW v, Adds(R, Q, op, v), NEW u \in Point
  PROVE  Agree(Q, u) <=> /\ Agree(R, u)
                         /\ op \in Comparison => Holds(op, v[u][1], v[u][2])
<1> DEFINE n == Len(R.tape)
           Agrees(S, i) ==
             S.tape[i].op \in Comparison =>
               Holds(S.tape[i].op, Operands(S.tape[i], Played(S, u), S.par_rec_)[1],
                                   Operands(S.tape[i], Played(S, u), S.par_rec_)[2])
<1>1. /\ n \in Nat /\ DOMAIN R.tape = 1 .. n /\ DOMAIN Q.tape = 1 .. n + 1
      /\ Recorded(R) /\ Recorded(Q) /\ Grows(R, Q) /\ Faithful(R)
      /\ Len(Q.tape) = n + 1
  BY LenProperties DEF Live, Adds, Recorded, Recorder
<1>2. ASSUME NEW i \in 1 .. n
      PROVE  Agrees(Q, i) <=> Agrees(R, i)
  <2>1. /\ Q.tape[i] = R.tape[i]
        /\ Operands(Q.tape[i], Played(Q, u), Q.par_rec_)
             = Operands(R.tape[i], Played(R, u), R.par_rec_)
    BY <1>1, FaithfulKept
  <2> QED
    BY <2>1
<1>3. Agrees(Q, n + 1) <=> (op \in Comparison => Holds(op, v[u][1], v[u][2]))
  BY <1>1 DEF Adds
<1>4. Agree(R, u) <=> \A i \in 1 .. n : Agrees(R, i)
  BY <1>1 DEF Agree
<1>5. Agree(Q, u) <=> \A i \in 1 .. n + 1 : Agrees(Q, i)
  BY <1>1 DEF Agree
<1> HIDE DEF Agrees
<1>6. (\A i \in 1 .. n + 1 : Agrees(Q, i))
        <=> (\A i \in 1 .. n : Agrees(Q, i)) /\ Agrees(Q, n + 1)
  BY <1>1
<1> QED
  BY <1>2, <1>3, <1>4, <1>5, <1>6

LEMMA FunctionKept ==
  ASSUME NEW R, NEW Q, R \in Recorder, Q \in Recorder, Grows(R, Q),
         NEW o \in AD, o.taddr_ <= Len(R.den)
  PROVE  FunctionOf(Q, o) = FunctionOf(R, o)
<1>1. Len(R.den) \in Nat /\ o.taddr_ \in Nat
  BY LenProperties DEF Recorder, AD
<1> QED
  BY <1>1 DEF FunctionOf, Grows, Variable

-----------------------------------------------------------------------------
(* The invariant and the steps.                                            *)

IInv ==
  /\ TypeOK
  /\ recording => Live(Rec_)
  /\ ~recording => /\ Rec_ = EmptyRecorder(Rec_.hash_table)
                   /\ \A o \in Object : Parameter(object[o])
  /\ ValuesAgree

(* What an object stands for has its value at the recording point.         *)
LEMMA ObjectFunction ==
  ASSUME IInv, NEW o \in Object
  PROVE  /\ object[o] \in AD
         /\ object[o].taddr_ <= Len(Rec_.den)
         /\ FunctionOf(Rec_, object[o]) \in [Point -> Num]
         /\ FunctionOf(Rec_, object[o])[at] = object[o].value_
         /\ fn[o] = FunctionOf(Rec_, object[o])
         /\ at \in Point
<1>1. /\ object[o] \in AD /\ object[o].taddr_ \in Nat /\ object[o].value_ \in Num
      /\ at \in Point /\ Rec_ \in Recorder
      /\ Rec_.den \in Seq([Point -> Num]) /\ Len(Rec_.den) \in Nat
  BY LenProperties DEF IInv, TypeOK, AD, Recorder
<1>2. CASE Variable(object[o])
  <2>1. /\ object[o].taddr_ \in DOMAIN Rec_.den
        /\ object[o].value_ = Rec_.den[object[o].taddr_][at]
    BY <1>2 DEF IInv, ValuesAgree
  <2> QED
    BY <1>1, <1>2, <2>1 DEF FunctionOf, fn
<1>3. CASE ~Variable(object[o])
  BY <1>1, <1>3 DEF FunctionOf, fn, Variable
<1> QED
  BY <1>2, <1>3

LEMMA Primed ==
  /\ fn' = [o \in Object |-> FunctionOf(Rec_', object'[o])]
  /\ agrees' = [u \in Point |-> Agree(Rec_', u)]
  /\ ValuesAgree' =
       \A o \in Object :
         Variable(object'[o]) =>
           /\ object'[o].taddr_ \in DOMAIN Rec_'.den
           /\ object'[o].value_ = Rec_'.den[object'[o].taddr_][at']
  /\ f' = f => fun' = fun
<1>1. fn' = [o \in Object |-> FunctionOf(Rec_', object'[o])]
  BY DEF fn, FunctionOf, Variable
<1>2. agrees' = [u \in Point |-> Agree(Rec_', u)]
  BY DEF agrees, Agree, Operands, Played, Holds
<1>3. ValuesAgree' =
       \A o \in Object :
         Variable(object'[o]) =>
           /\ object'[o].taddr_ \in DOMAIN Rec_'.den
           /\ object'[o].value_ = Rec_'.den[object'[o].taddr_][at']
  BY DEF ValuesAgree, Variable
<1>4. f' = f => fun' = fun
  BY DEF fun, Agree, Operands, Played, Holds
<1> QED
  BY <1>1, <1>2, <1>3, <1>4

(* An object becomes n while the recorder grows. *)
LEMMA GrowStep ==
  ASSUME IInv, NEW r \in Object, NEW n \in AD,
         object' = [object EXCEPT ![r] = n],
         UNCHANGED <<recording, at, f>>,
         Rec_' \in Recorder, recording => Live(Rec_'), Grows(Rec_, Rec_'),
         ~recording => Rec_' = Rec_ /\ n.taddr_ = 0,
         n.taddr_ <= Len(Rec_'.den),
         FunctionOf(Rec_', n)[at] = n.value_
  PROVE  /\ IInv'
         /\ fn' = [fn EXCEPT ![r] = FunctionOf(Rec_', n)]
         /\ fun' = fun
<1>1. /\ object \in [Object -> AD] /\ object' \in [Object -> AD]
      /\ Rec_ \in Recorder /\ recording \in BOOLEAN
      /\ Len(Rec_.den) \in Nat /\ Len(Rec_'.den) \in Nat
      /\ Len(Rec_.den) <= Len(Rec_'.den)
  BY LenProperties DEF IInv, TypeOK, Recorder, Grows
<1>2. ASSUME NEW o \in Object
      PROVE  /\ object'[o].taddr_ <= Len(Rec_'.den)
             /\ FunctionOf(Rec_', object'[o])[at] = object'[o].value_
             /\ o # r => FunctionOf(Rec_', object'[o]) = FunctionOf(Rec_, object[o])
  <2>1. CASE o = r
    BY <1>1, <2>1
  <2>2. CASE o # r
    <3>1. object'[o] = object[o]
      BY <1>1, <2>2
    <3>2. /\ object[o] \in AD /\ object[o].taddr_ <= Len(Rec_.den)
          /\ FunctionOf(Rec_, object[o])[at] = object[o].value_
      BY ObjectFunction
    <3>3. FunctionOf(Rec_', object[o]) = FunctionOf(Rec_, object[o])
      BY <1>1, <3>2, FunctionKept
    <3>4. object[o].taddr_ \in Nat
      BY <3>2 DEF AD
    <3> QED
      BY <1>1, <3>1, <3>2, <3>3, <3>4
  <2> QED
    BY <2>1, <2>2
<1>3. TypeOK'
  BY <1>1 DEF IInv, TypeOK, Live
<1>4. (recording => Live(Rec_))' /\ (recording' \/ Rec_' = EmptyRecorder(Rec_.hash_table)')
  BY <1>1 DEF IInv, EmptyRecorder, Live, Faithful, Grows, Recorder
<1>5. (~recording => \A o \in Object : Parameter(object[o]))'
  BY <1>1 DEF IInv, Parameter, Variable
<1>6. ValuesAgree'
  <2> SUFFICES ASSUME NEW o \in Object, Variable(object'[o])
               PROVE  /\ object'[o].taddr_ \in DOMAIN Rec_'.den
                      /\ object'[o].value_ = Rec_'.den[object'[o].taddr_][at]
    BY Primed
  <2>1. object'[o].taddr_ \in Nat
    BY <1>1 DEF AD
  <2> QED
    BY <1>1, <1>2, <2>1 DEF Variable, FunctionOf, Recorder
<1>7. fn' = [fn EXCEPT ![r] = FunctionOf(Rec_', n)]
  <2>1. fn' = [o \in Object |-> FunctionOf(Rec_', object'[o])]
    BY Primed
  <2>2. fn = [o \in Object |-> FunctionOf(Rec_, object[o])]
    BY DEF fn
  <2>3. object'[r] = n
    BY <1>1
  <2>4. \A o \in Object : o # r => FunctionOf(Rec_', object'[o]) = FunctionOf(Rec_, object[o])
    BY <1>2
  <2> QED
    BY <2>1, <2>2, <2>3, <2>4
<1>8. fun' = fun
  BY Primed
<1> QED
  BY <1>3, <1>4, <1>5, <1>6, <1>7, <1>8 DEF IInv

LEMMA SetStep ==
  ASSUME IInv, NEW r \in Object, NEW n \in AD,
         object' = [object EXCEPT ![r] = n],
         UNCHANGED <<recording, at, f>>,
         Rec_' \in Recorder, recording => Live(Rec_'), Grows(Rec_, Rec_'),
         ~recording => Rec_' = Rec_ /\ n.taddr_ = 0,
         n.taddr_ <= Len(Rec_'.den),
         FunctionOf(Rec_', n)[at] = n.value_,
         \A u \in Point : Agree(Rec_', u) <=> Agree(Rec_, u)
  PROVE  IInv' /\ Abstract!Set(r, FunctionOf(Rec_', n))
<1>1. /\ IInv'
      /\ fn' = [fn EXCEPT ![r] = FunctionOf(Rec_', n)]
      /\ fun' = fun
  BY GrowStep
<1>2. agrees' = agrees
  <2>1. \A u \in Point : Agree(Rec_', u) = Agree(Rec_, u)
    BY DEF Agree
  <2>2. agrees' = [u \in Point |-> Agree(Rec_', u)]
    BY Primed
  <2> QED
    BY <2>1, <2>2 DEF agrees
<1> QED
  BY <1>1, <1>2 DEF Abstract!Set

LEMMA Unchanged ==
  ASSUME IInv, Rec_' = Rec_
  PROVE  /\ Rec_' \in Recorder /\ Grows(Rec_, Rec_')
         /\ recording => Live(Rec_')
         /\ \A u \in Point : Agree(Rec_', u) <=> Agree(Rec_, u)
<1>1. Rec_ \in Recorder
  BY DEF IInv, TypeOK
<1>2. Grows(Rec_, Rec_)
  BY <1>1, LenProperties DEF Grows, Recorder
<1> QED
  BY <1>1, <1>2 DEF IInv

LEMMA SetParameterStep ==
  ASSUME IInv, NEW r \in Object, NEW c \in Num, SetParameter(r, c)
  PROVE  IInv' /\ Abstract!Set(r, [u \in Point |-> c])
<1>1. Param(c) \in AD /\ Param(c).taddr_ = 0 /\ Param(c).value_ = c
  BY DEF Param, AD
<1>2. FunctionOf(Rec_', Param(c)) = [u \in Point |-> c]
  BY <1>1 DEF FunctionOf, Variable
<1>3. at \in Point /\ Rec_' = Rec_ /\ Len(Rec_.den) \in Nat
  BY LenProperties DEF IInv, TypeOK, SetParameter, Recorder
<1>4. /\ object' = [object EXCEPT ![r] = Param(c)]
      /\ UNCHANGED <<recording, at, f>>
      /\ Param(c).taddr_ <= Len(Rec_'.den)
      /\ FunctionOf(Rec_', Param(c))[at] = Param(c).value_
  BY <1>1, <1>2, <1>3 DEF SetParameter
<1>5. IInv' /\ Abstract!Set(r, FunctionOf(Rec_', Param(c)))
  BY <1>1, <1>3, <1>4, Unchanged, SetStep
<1> QED
  BY <1>2, <1>5

LEMMA SetCopyStep ==
  ASSUME IInv, NEW r \in Object, NEW a \in Object,
         SetCopy(r, object[a].value_, object[a].taddr_)
  PROVE  IInv' /\ Abstract!Set(r, fn[a])
<1>1. /\ object[a] \in AD
      /\ object[a].taddr_ <= Len(Rec_.den)
      /\ FunctionOf(Rec_, object[a])[at] = object[a].value_
      /\ fn[a] = FunctionOf(Rec_, object[a])
  BY ObjectFunction
<1>2. object[a] = [value_ |-> object[a].value_, taddr_ |-> object[a].taddr_]
  BY <1>1 DEF AD
<1>3. ~recording => object[a].taddr_ = 0
  BY <1>1 DEF IInv, Parameter, Variable, AD
<1>4. /\ object' = [object EXCEPT ![r] = object[a]]
      /\ UNCHANGED <<recording, at, f>> /\ Rec_' = Rec_
  BY <1>2 DEF SetCopy
<1>5. IInv' /\ Abstract!Set(r, FunctionOf(Rec_', object[a]))
  BY <1>1, <1>3, <1>4, Unchanged, SetStep
<1> QED
  BY <1>1, <1>4, <1>5

LEMMA SetResultStep ==
  ASSUME IInv, recording, NEW r \in Object,
         NEW op \in Recordable \ Comparison,
         NEW s \in Seq({object[o] : o \in Object}), Len(s) = Arity(op),
         NEW c, c = Value(op, ValuesOf(Rec_, s, at)), SetResult(r, c, op, s)
  PROVE  /\ IInv'
         /\ Abstract!Set(r, [u \in Point |-> Value(op, ValuesOf(Rec_, s, u))])
<1> DEFINE v == [u \in Point |-> ValuesOf(Rec_, s, u)]
           n == [value_ |-> c, taddr_ |-> Rec_'.num_var_rec_ - 1]
<1>1. s \in Seq(AD) /\ \A j \in DOMAIN s : s[j].taddr_ <= Len(Rec_.den)
  <2>1. \A o \in Object : object[o] \in AD /\ object[o].taddr_ <= Len(Rec_.den)
    BY ObjectFunction
  <2>2. \A j \in DOMAIN s : s[j] \in {object[o] : o \in Object}
    OBVIOUS
  <2>3. \A j \in DOMAIN s : s[j] \in AD /\ s[j].taddr_ <= Len(Rec_.den)
    BY <2>1, <2>2
  <2>4. s \in [1 .. Len(s) -> AD] /\ Len(s) \in Nat
    BY <2>3
  <2> QED
    BY <2>3, <2>4
<1>2. Live(Rec_) /\ Rec_ \in Recorder /\ at \in Point
  BY DEF IInv, TypeOK
<1>3. Adds(Rec_, Record(Rec_, op, s), op, v)
  BY <1>1, <1>2, RecordLive
<1>4. Rec_' = Record(Rec_, op, s)
  BY DEF SetResult
<1>5. NumRes(op) > 0
  BY UnaryAssumption DEF NumRes, Recordable, Binary, Comparison, CondExp, Optimized
<1>6. /\ Live(Rec_') /\ Grows(Rec_, Rec_') /\ Len(Rec_'.den) > 0
      /\ Rec_'.den[Len(Rec_'.den)] = [u \in Point |-> Value(op, v[u])]
  BY <1>3, <1>4, <1>5 DEF Adds
<1>7. /\ Rec_' \in Recorder /\ Rec_'.num_var_rec_ = Len(Rec_'.den) + 1
      /\ Len(Rec_'.den) \in Nat /\ Rec_'.den \in Seq([Point -> Num])
  BY <1>6, LenProperties DEF Live, Recorder
<1>8. [u \in Point |-> Value(op, v[u])] = [u \in Point |-> Value(op, ValuesOf(Rec_, s, u))]
  OBVIOUS
<1>9. Rec_'.den[Len(Rec_'.den)][at] = c
  BY <1>2, <1>6
<1>10. Rec_'.den[Len(Rec_'.den)] \in [Point -> Num]
  BY <1>6, <1>7
<1>11. n \in AD /\ n.taddr_ = Len(Rec_'.den)
  BY <1>2, <1>7, <1>9, <1>10 DEF AD
<1>12. FunctionOf(Rec_', n) = [u \in Point |-> Value(op, v[u])]
  BY <1>6, <1>7, <1>11 DEF FunctionOf, Variable
<1>13. \A u \in Point : Agree(Rec_', u) <=> Agree(Rec_, u)
  BY <1>2, <1>3, <1>4, AgreeAdded
<1>14. object' = [object EXCEPT ![r] = n] /\ UNCHANGED <<recording, at, f>>
  BY DEF SetResult
<1>15. FunctionOf(Rec_', n)[at] = n.value_ /\ n.taddr_ <= Len(Rec_'.den)
  BY <1>6, <1>7, <1>9, <1>11, <1>12
<1> HIDE DEF n, v
<1>16. IInv' /\ Abstract!Set(r, FunctionOf(Rec_', n))
  BY <1>6, <1>7, <1>11, <1>13, <1>14, <1>15, SetStep
<1> QED
  BY <1>8, <1>12, <1>16

-----------------------------------------------------------------------------

LEMMA RecordingIfVariable ==
  ASSUME IInv, NEW o \in Object, Variable(object[o])
  PROVE  recording
BY DEF IInv, Parameter

LEMMA ValuesOfPair ==
  ASSUME NEW R, NEW x, NEW y, NEW u
  PROVE  ValuesOf(R, <<x, y>>, u) = <<FunctionOf(R, x)[u], FunctionOf(R, y)[u]>>
<1>1. ValuesOf(R, <<x, y>>, u)
        = [j \in 1 .. 2 |-> FunctionOf(R, <<x, y>>[j])[u]]
  BY DEF ValuesOf
<1>2. [j \in 1 .. 2 |-> FunctionOf(R, <<x, y>>[j])[u]]
        = <<FunctionOf(R, x)[u], FunctionOf(R, y)[u]>>
  OBVIOUS
<1> QED
  BY <1>1, <1>2

LEMMA BinaryArity ==
  ASSUME NEW op \in Binary
  PROVE  /\ op \in Recordable \ Comparison /\ Arity(op) = 2
         /\ \A s : Value(op, s) = Calc(op, s)
BY UnaryAssumption DEF Recordable, Binary, Comparison, CondExp, Arity, Value

(* The laws of the shortcuts, on either side. *)
LEMMA ShortcutLaws ==
  ASSUME NEW m \in Num
  PROVE  /\ Calc("Add", <<Zero, m>>) = m
         /\ Calc("Mul", <<Zero, m>>) = Zero
         /\ Calc("Mul", <<m, Zero>>) = Zero
         /\ Calc("Mul", <<One, m>>) = m
         /\ Calc("Div", <<Zero, m>>) = Zero
<1>1. /\ Calc("Add", <<Zero, m>>) = Calc("Add", <<m, Zero>>)
      /\ Calc("Mul", <<Zero, m>>) = Calc("Mul", <<m, Zero>>)
      /\ Calc("Mul", <<One, m>>) = Calc("Mul", <<m, One>>)
  BY ArithmeticAssumption, NumAssumption, Zenon
<1>2. /\ Calc("Add", <<m, Zero>>) = m
      /\ Calc("Mul", <<m, Zero>>) = Zero
      /\ Calc("Mul", <<m, One>>) = m
      /\ Calc("Div", <<Zero, m>>) = Zero
  BY ArithmeticAssumption, Zenon
<1> QED
  BY <1>1, <1>2

LEMMA BinaryStep ==
  ASSUME IInv, NEW op \in Binary, NEW r \in Object, NEW a \in Object, NEW b \in Object,
         BinaryOp(op, r, a, b)
  PROVE  IInv' /\ Abstract!BinaryOp(op, r, a, b)
<1> DEFINE x == object[a]
           y == object[b]
           c == Calc(op, <<x.value_, y.value_>>)
           g == [u \in Point |-> Calc(op, <<fn[a][u], fn[b][u]>>)]
<1>0. Abstract!BinaryOp(op, r, a, b) <=> Abstract!Set(r, g)
  BY DEF Abstract!BinaryOp, Abstract!Point, Point
<1>1. /\ x \in AD /\ y \in AD /\ at \in Point
      /\ fn[a] = FunctionOf(Rec_, x) /\ fn[b] = FunctionOf(Rec_, y)
      /\ fn[a] \in [Point -> Num] /\ fn[b] \in [Point -> Num]
      /\ fn[a][at] = x.value_ /\ fn[b][at] = y.value_
      /\ x.value_ \in Num /\ y.value_ \in Num
  BY ObjectFunction DEF AD
<1>2. c \in Num
  BY <1>1, CalcAssumption
<1>3. Parameter(x) => \A u \in Point : fn[a][u] = x.value_
  BY <1>1 DEF Parameter, FunctionOf
<1>4. Parameter(y) => \A u \in Point : fn[b][u] = y.value_
  BY <1>1 DEF Parameter, FunctionOf
<1>5. \A u \in Point : fn[a][u] \in Num /\ fn[b][u] \in Num
  BY <1>1
<1>6. ASSUME SetParameter(r, c), \A u \in Point : g[u] = c
      PROVE  IInv' /\ Abstract!Set(r, g)
  <2>1. [u \in Point |-> c] = g
    BY <1>6
  <2> QED
    BY <1>2, <1>6, <2>1, SetParameterStep
<1>7. ASSUME SetCopy(r, c, x.taddr_), \A u \in Point : g[u] = fn[a][u]
      PROVE  IInv' /\ Abstract!Set(r, g)
  <2>1. c = x.value_ /\ fn[a] = g
    BY <1>1, <1>7
  <2> QED
    BY <1>7, <2>1, SetCopyStep
<1>8. ASSUME SetCopy(r, c, y.taddr_), \A u \in Point : g[u] = fn[b][u]
      PROVE  IInv' /\ Abstract!Set(r, g)
  <2>1. c = y.value_ /\ fn[b] = g
    BY <1>1, <1>8
  <2> QED
    BY <1>8, <2>1, SetCopyStep
<1>9. ASSUME NEW d \in Object, NEW e \in Object, recording,
             SetResult(r, c, op, <<object[d], object[e]>>),
             \A u \in Point : Calc(op, <<fn[d][u], fn[e][u]>>) = g[u]
      PROVE  IInv' /\ Abstract!Set(r, g)
  <2> DEFINE s == <<object[d], object[e]>>
  <2>1. s \in Seq({object[o] : o \in Object}) /\ Len(s) = 2
    OBVIOUS
  <2>2. fn[d] = FunctionOf(Rec_, object[d]) /\ fn[e] = FunctionOf(Rec_, object[e])
    BY ObjectFunction
  <2>3. \A u \in Point : Value(op, ValuesOf(Rec_, s, u)) = g[u]
    BY <1>9, <2>2, ValuesOfPair, BinaryArity
  <2>4. c = Value(op, ValuesOf(Rec_, s, at))
    BY <1>1, <2>3
  <2>5. [u \in Point |-> Value(op, ValuesOf(Rec_, s, u))] = g
    BY <2>3
  <2> HIDE DEF s, g, c
  <2>6. SetResult(r, c, op, s)
    BY <1>9 DEF s
  <2>7. IInv' /\ Abstract!Set(r, [u \in Point |-> Value(op, ValuesOf(Rec_, s, u))])
    BY <1>9, <2>1, <2>4, <2>6, BinaryArity, SetResultStep
  <2> QED
    BY <2>5, <2>7
<1> SUFFICES IInv' /\ Abstract!Set(r, g)
  BY <1>0
<1>10. CASE Parameter(x) /\ Parameter(y) /\ SetParameter(r, c)
  BY <1>3, <1>4, <1>6, <1>10
<1>11. CASE Variable(x) /\ Parameter(y) /\ LeftIsLost(op, y) /\ SetParameter(r, c)
  <2>1. \A m \in Num : Calc(op, <<m, y.value_>>) = Zero
    BY <1>11, ShortcutLaws DEF LeftIsLost
  <2>2. c = Zero /\ \A u \in Point : g[u] = Zero
    BY <1>1, <1>4, <1>5, <1>11, <2>1
  <2> QED
    BY <1>6, <1>11, <2>2
<1>12. CASE Variable(x) /\ Parameter(y) /\ IsLeft(op, y) /\ SetCopy(r, c, x.taddr_)
  <2>1. \A m \in Num : Calc(op, <<m, y.value_>>) = m
    BY <1>12, ArithmeticAssumption DEF IsLeft
  <2>2. \A u \in Point : g[u] = fn[a][u]
    BY <1>4, <1>5, <1>12, <2>1
  <2> QED
    BY <1>7, <1>12, <2>2
<1>13. CASE Variable(x) /\ Parameter(y) /\ SetResult(r, c, op, InOrder(op, x, y))
  <2>0. recording
    BY <1>13, RecordingIfVariable
  <2>1. CASE op \in {"Add", "Mul"}
    <3>1. InOrder(op, x, y) = <<y, x>>
      BY <1>13, <2>1 DEF InOrder
    <3>2. \A u \in Point : Calc(op, <<fn[b][u], fn[a][u]>>) = g[u]
      BY <1>5, <2>1, ArithmeticAssumption
    <3> QED
      BY <1>9, <1>13, <2>0, <3>1, <3>2
  <2>2. CASE op \notin {"Add", "Mul"}
    <3>1. InOrder(op, x, y) = <<x, y>>
      BY <2>2 DEF InOrder
    <3> QED
      BY <1>9, <1>13, <2>0, <3>1
  <2> QED
    BY <2>1, <2>2
<1>14. CASE Parameter(x) /\ Variable(y) /\ RightIsLost(op, x) /\ SetParameter(r, c)
  <2>1. \A m \in Num : Calc(op, <<x.value_, m>>) = Zero
    <3>1. op \in {"Mul", "Div"} /\ x.value_ = Zero
      BY <1>14 DEF RightIsLost
    <3> QED
      BY <3>1, ShortcutLaws
  <2>2. c = Zero /\ \A u \in Point : g[u] = Zero
    BY <1>1, <1>3, <1>5, <1>14, <2>1
  <2> QED
    BY <1>6, <1>14, <2>2
<1>15. CASE Parameter(x) /\ Variable(y) /\ IsRight(op, x) /\ SetCopy(r, c, y.taddr_)
  <2>1. \A m \in Num : Calc(op, <<x.value_, m>>) = m
    <3>1. \/ op = "Add" /\ x.value_ = Zero
          \/ op = "Mul" /\ x.value_ = One
      BY <1>15 DEF IsRight
    <3> QED
      BY <3>1, ShortcutLaws
  <2>2. \A u \in Point : g[u] = fn[b][u]
    BY <1>3, <1>5, <1>15, <2>1
  <2> QED
    BY <1>8, <1>15, <2>2
<1>16. CASE Variable(y) /\ SetResult(r, c, op, <<x, y>>)
  <2>1. recording
    BY <1>16, RecordingIfVariable
  <2> QED
    BY <1>9, <1>16, <2>1
<1> QED
  BY <1>10, <1>11, <1>12, <1>13, <1>14, <1>15, <1>16 DEF BinaryOp

LEMMA UnaryStep ==
  ASSUME IInv, NEW op \in Unary, NEW r \in Object, NEW a \in Object,
         UnaryOp(op, r, a)
  PROVE  IInv' /\ Abstract!UnaryOp(op, r, a)
<1> DEFINE x == object[a]
           c == Calc(op, <<x.value_>>)
           g == [u \in Point |-> Calc(op, <<fn[a][u]>>)]
<1>1. /\ x \in AD /\ at \in Point
      /\ fn[a] = FunctionOf(Rec_, x) /\ fn[a][at] = x.value_
      /\ x.value_ \in Num
  BY ObjectFunction DEF AD
<1>2. Abstract!UnaryOp(op, r, a) <=> Abstract!Set(r, g)
  BY DEF Abstract!UnaryOp, Abstract!Point, Point
<1> SUFFICES IInv' /\ Abstract!Set(r, g)
  BY <1>2
<1>3. CASE Parameter(x) /\ SetParameter(r, c)
  <2>1. \A u \in Point : fn[a][u] = x.value_
    BY <1>1, <1>3 DEF Parameter, FunctionOf
  <2>2. [u \in Point |-> c] = g /\ c \in Num
    BY <1>1, <2>1, CalcAssumption
  <2> QED
    BY <1>3, <2>2, SetParameterStep
<1>4. CASE Variable(x) /\ SetResult(r, c, op, <<x>>)
  <2> DEFINE s == <<x>>
  <2>1. recording
    BY <1>4, RecordingIfVariable
  <2>2. /\ op \in Recordable \ Comparison /\ Arity(op) = 1
        /\ \A t : Value(op, t) = Calc(op, t)
    BY UnaryAssumption DEF Recordable, Arity, Value, Binary, CondExp, Comparison
  <2>3. s \in Seq({object[o] : o \in Object}) /\ Len(s) = 1
    OBVIOUS
  <2>4. \A u \in Point : ValuesOf(Rec_, s, u) = <<fn[a][u]>>
    <3> SUFFICES ASSUME NEW u \in Point PROVE ValuesOf(Rec_, s, u) = <<fn[a][u]>>
      OBVIOUS
    <3>1. ValuesOf(Rec_, s, u) = [j \in 1 .. 1 |-> FunctionOf(Rec_, s[j])[u]]
      BY DEF ValuesOf
    <3>2. [j \in 1 .. 1 |-> FunctionOf(Rec_, s[j])[u]] = <<FunctionOf(Rec_, x)[u]>>
      OBVIOUS
    <3> QED
      BY <1>1, <3>1, <3>2
  <2>5. \A u \in Point : Value(op, ValuesOf(Rec_, s, u)) = g[u]
    BY <2>2, <2>4
  <2>6. c = Value(op, ValuesOf(Rec_, s, at))
    BY <1>1, <2>5
  <2>7. [u \in Point |-> Value(op, ValuesOf(Rec_, s, u))] = g
    BY <2>5
  <2>8. SetResult(r, c, op, s)
    BY <1>4
  <2> HIDE DEF s, g, c
  <2>9. IInv' /\ Abstract!Set(r, [u \in Point |-> Value(op, ValuesOf(Rec_, s, u))])
    BY <2>1, <2>2, <2>3, <2>6, <2>8, SetResultStep
  <2> QED
    BY <2>7, <2>9
<1> QED
  BY <1>3, <1>4 DEF UnaryOp

LEMMA CondExpStep ==
  ASSUME IInv, NEW cop \in CondExp, NEW r \in Object, NEW a \in Object,
         NEW b \in Object, NEW t \in Object, NEW e \in Object,
         CondExpOp(cop, r, a, b, t, e)
  PROVE  IInv' /\ Abstract!CondExpOp(cop, r, a, b, t, e)
<1> DEFINE x == object[a]
           y == object[b]
           chosen == IF Holds(cop, x.value_, y.value_) THEN object[t] ELSE object[e]
           s == <<x, y, object[t], object[e]>>
           g == [u \in Point |-> IF Holds(cop, fn[a][u], fn[b][u]) THEN fn[t][u] ELSE fn[e][u]]
<1>1. \A o \in Object :
        /\ fn[o] = FunctionOf(Rec_, object[o]) /\ fn[o][at] = object[o].value_
        /\ fn[o] \in [Point -> Num]
        /\ at \in Point
  BY ObjectFunction
<1>2. Abstract!CondExpOp(cop, r, a, b, t, e) <=> Abstract!Set(r, g)
  BY DEF Abstract!CondExpOp, Abstract!Point, Point, Holds, Abstract!Holds
<1> SUFFICES IInv' /\ Abstract!Set(r, g)
  BY <1>2
<1>3. CASE /\ Parameter(x) /\ Parameter(y)
           /\ SetCopy(r, chosen.value_, chosen.taddr_)
  <2>1. \A u \in Point : fn[a][u] = x.value_ /\ fn[b][u] = y.value_
    <3>1. ASSUME NEW o \in Object, Parameter(object[o]), NEW u \in Point
          PROVE  fn[o][u] = object[o].value_
      <4>1. fn[o] = FunctionOf(Rec_, object[o])
        BY <1>1
      <4>2. FunctionOf(Rec_, object[o]) = [w \in Point |-> object[o].value_]
        BY <3>1 DEF Parameter, FunctionOf
      <4> QED
        BY <4>1, <4>2
    <3>2. Parameter(object[a]) /\ Parameter(object[b])
      BY <1>3
    <3> QED
      BY <3>1, <3>2
  <2>2. CASE Holds(cop, x.value_, y.value_)
    <3>1. chosen = object[t]
      BY <2>2
    <3>2. g = fn[t]
      BY <1>1, <2>1, <2>2
    <3> QED
      BY <1>3, <3>1, <3>2, SetCopyStep
  <2>3. CASE ~Holds(cop, x.value_, y.value_)
    <3>1. chosen = object[e]
      BY <2>3
    <3>2. g = fn[e]
      BY <1>1, <2>1, <2>3
    <3> QED
      BY <1>3, <3>1, <3>2, SetCopyStep
  <2> QED
    BY <2>2, <2>3
<1>4. CASE /\ Variable(x) \/ Variable(y)
           /\ SetResult(r, chosen.value_, cop, s)
  <2>1. recording
    BY <1>4, RecordingIfVariable
  <2>2. /\ cop \in Recordable \ Comparison /\ Arity(cop) = 4
        /\ \A v : Value(cop, v) = IF Holds(cop, v[1], v[2]) THEN v[3] ELSE v[4]
    BY UnaryAssumption DEF Recordable, Arity, Value, Binary, CondExp, Comparison
  <2>3. s \in Seq({object[o] : o \in Object}) /\ Len(s) = 4
    OBVIOUS
  <2>4. \A u \in Point :
          /\ ValuesOf(Rec_, s, u)[1] = fn[a][u] /\ ValuesOf(Rec_, s, u)[2] = fn[b][u]
          /\ ValuesOf(Rec_, s, u)[3] = fn[t][u] /\ ValuesOf(Rec_, s, u)[4] = fn[e][u]
    BY <1>1 DEF ValuesOf
  <2>5. \A u \in Point : Value(cop, ValuesOf(Rec_, s, u)) = g[u]
    BY <2>2, <2>4
  <2>6. chosen.value_ = Value(cop, ValuesOf(Rec_, s, at))
    BY <1>1, <2>5
  <2>7. [u \in Point |-> Value(cop, ValuesOf(Rec_, s, u))] = g
    BY <2>5
  <2>8. SetResult(r, chosen.value_, cop, s)
    BY <1>4
  <2> HIDE DEF s, g, chosen
  <2>9. IInv' /\ Abstract!Set(r, [u \in Point |-> Value(cop, ValuesOf(Rec_, s, u))])
    BY <2>1, <2>2, <2>3, <2>6, <2>8, SetResultStep
  <2> QED
    BY <2>7, <2>9
<1> QED
  BY <1>3, <1>4 DEF CondExpOp

(* The comparison recorded comes out true at u exactly if the one made     *)
(* comes out there as it did.                                              *)
LEMMA OutcomeHolds ==
  ASSUME NEW cop \in Relational, NEW x, NEW y, NEW m, NEW n
  PROVE  LET c == Outcome(cop, x, y)
             s == ComparisonOperands(c)
         IN  /\ c[1] \in Comparison
             /\ \/ /\ s = <<x, y>>
                   /\ Holds(c[1], m, n)
                        <=> (Holds(cop, m, n) <=> Holds(cop, x.value_, y.value_))
                \/ /\ s = <<y, x>>
                   /\ Holds(c[1], n, m)
                        <=> (Holds(cop, m, n) <=> Holds(cop, x.value_, y.value_))
<1>1. CASE cop = "Lt"
  BY <1>1 DEF Outcome, ComparisonOperands, Holds, Comparison
<1>2. CASE cop = "Le"
  BY <1>2 DEF Outcome, ComparisonOperands, Holds, Comparison
<1>3. CASE cop = "Gt"
  BY <1>3 DEF Outcome, ComparisonOperands, Holds, Comparison
<1>4. CASE cop = "Ge"
  BY <1>4 DEF Outcome, ComparisonOperands, Holds, Comparison
<1>5. CASE cop = "Eq"
  BY <1>5 DEF Outcome, ComparisonOperands, Holds, Comparison
<1>6. CASE cop = "Ne"
  BY <1>6 DEF Outcome, ComparisonOperands, Holds, Comparison
<1> QED
  BY <1>1, <1>2, <1>3, <1>4, <1>5, <1>6 DEF Relational

LEMMA CompareStep ==
  ASSUME IInv, NEW cop \in Relational, NEW a \in Object, NEW b \in Object,
         CompareOp(cop, a, b)
  PROVE  IInv' /\ Abstract!CompareOp(cop, a, b)
<1> DEFINE x == object[a]
           y == object[b]
           op == Outcome(cop, x, y)[1]
           s == ComparisonOperands(Outcome(cop, x, y))
           v == [u \in Point |-> ValuesOf(Rec_, s, u)]
           made(u) == Holds(cop, fn[a][u], fn[b][u]) <=> Holds(cop, fn[a][at], fn[b][at])
<1>1. /\ x \in AD /\ y \in AD
      /\ x.taddr_ <= Len(Rec_.den) /\ y.taddr_ <= Len(Rec_.den)
      /\ fn[a] = FunctionOf(Rec_, x) /\ fn[b] = FunctionOf(Rec_, y)
      /\ fn[a][at] = x.value_ /\ fn[b][at] = y.value_
  BY ObjectFunction
<1>2. recording /\ Live(Rec_) /\ Rec_ \in Recorder
  BY RecordingIfVariable DEF CompareOp, IInv, TypeOK
<1>3. op \in Comparison /\ s \in {<<x, y>>, <<y, x>>}
  BY OutcomeHolds
<1>4. s \in Seq(AD) /\ Len(s) = 2 /\ \A j \in DOMAIN s : s[j].taddr_ <= Len(Rec_.den)
  <2> HIDE DEF x, y, s
  <2>1. CASE s = <<x, y>>
    BY <1>1, <2>1
  <2>2. CASE s = <<y, x>>
    BY <1>1, <2>2
  <2> QED
    BY <1>3, <2>1, <2>2
<1>5. op \in Recordable /\ Arity(op) = 2
  BY <1>3 DEF Recordable, Arity
<1>6. Adds(Rec_, Record(Rec_, op, s), op, v)
  BY <1>2, <1>4, <1>5, RecordLive
<1>7. Rec_' = Record(Rec_, op, s) /\ UNCHANGED <<recording, object, at, f>>
  BY DEF CompareOp
<1>8. \A u \in Point : Holds(op, v[u][1], v[u][2]) <=> made(u)
  <2> SUFFICES ASSUME NEW u \in Point
               PROVE  Holds(op, v[u][1], v[u][2]) <=> made(u)
    OBVIOUS
  <2>1. \/ /\ s = <<x, y>>
           /\ Holds(op, fn[a][u], fn[b][u]) <=> made(u)
        \/ /\ s = <<y, x>>
           /\ Holds(op, fn[b][u], fn[a][u]) <=> made(u)
    BY <1>1, OutcomeHolds
  <2>2. v[u] = ValuesOf(Rec_, s, u)
    OBVIOUS
  <2> HIDE DEF s, v, op, made, x, y
  <2>3. CASE s = <<x, y>> /\ (Holds(op, fn[a][u], fn[b][u]) <=> made(u))
    <3>1. v[u] = <<fn[a][u], fn[b][u]>>
      BY <1>1, <2>2, <2>3, ValuesOfPair
    <3> QED
      BY <2>3, <3>1
  <2>4. CASE s = <<y, x>> /\ (Holds(op, fn[b][u], fn[a][u]) <=> made(u))
    <3>1. v[u] = <<fn[b][u], fn[a][u]>>
      BY <1>1, <2>2, <2>4, ValuesOfPair
    <3> QED
      BY <2>4, <3>1
  <2> QED
    BY <2>1, <2>3, <2>4
<1>9. \A u \in Point : Agree(Rec_', u) = (Agree(Rec_, u) /\ made(u))
  <2> HIDE DEF made, v, op, s
  <2>1. \A u \in Point : Agree(Rec_', u) <=> (Agree(Rec_, u) /\ made(u))
    BY <1>2, <1>3, <1>6, <1>7, <1>8, AgreeAdded
  <2> QED
    BY <2>1 DEF Agree
<1>10. agrees' = [u \in Point |-> agrees[u] /\ made(u)]
  <2>1. agrees' = [u \in Point |-> Agree(Rec_', u)]
    BY Primed
  <2>2. \A u \in Point : agrees[u] = Agree(Rec_, u)
    BY DEF agrees
  <2> HIDE DEF made
  <2> QED
    BY <1>9, <2>1, <2>2
<1>11. IInv' /\ fn' = [fn EXCEPT ![a] = FunctionOf(Rec_', x)] /\ fun' = fun
  <2>1. Live(Rec_') /\ Grows(Rec_, Rec_')
    BY <1>6, <1>7 DEF Adds
  <2>2. Rec_' \in Recorder /\ Len(Rec_'.den) \in Nat /\ Len(Rec_.den) \in Nat
    BY <1>2, <2>1, LenProperties DEF Live, Recorder
  <2>3. object' = [object EXCEPT ![a] = x]
    BY <1>7 DEF IInv, TypeOK
  <2>4. FunctionOf(Rec_', x) = FunctionOf(Rec_, x)
    BY <1>1, <1>2, <2>1, <2>2, FunctionKept
  <2>5. x.taddr_ <= Len(Rec_'.den)
    BY <1>1, <2>1, <2>2 DEF Grows, AD
  <2> HIDE DEF x
  <2> QED
    BY <1>1, <1>2, <1>7, <2>1, <2>2, <2>3, <2>4, <2>5, GrowStep
<1>12. fn' = fn
  <2>1. FunctionOf(Rec_', x) = fn[a]
    <3>1. Rec_' \in Recorder /\ Grows(Rec_, Rec_')
      BY <1>6, <1>7 DEF Adds, Live
    <3> QED
      BY <1>1, <1>2, <3>1, FunctionKept
  <2> QED
    BY <1>11, <2>1 DEF fn
<1> QED
  BY <1>7, <1>10, <1>11, <1>12
    DEF Abstract!CompareOp, Abstract!Point, Point, Abstract!Holds, Holds

LEMMA IndependentStep ==
  ASSUME IInv, NEW x \in Vector, Independent(x)
  PROVE  IInv' /\ Abstract!Independent(x)
<1> DEFINE R == Rec_'
           n == Dim + 1
<1>1. /\ Dim \in Nat \ {0} /\ x \in [1 .. Dim -> Object]
      /\ object \in [Object -> AD] /\ Rec_ \in Recorder /\ ~recording
  BY VectorAssumption DEF IInv, TypeOK, Independent
<1>2. /\ R.tape = [i \in 1 .. n |-> [op |-> IF i = 1 THEN "Begin" ELSE "Inv",
                                     kind |-> <<>>, arg |-> <<>>, res |-> i - 1]]
      /\ R.num_var_rec_ = n
      /\ R.den = [j \in 1 .. Dim |-> [u \in Point |-> u[j]]]
      /\ R.par_rec_ = Rec_.par_rec_ /\ R.hash_table = Rec_.hash_table
  BY <1>1 DEF Independent, Recorder
<1>3. R.tape \in Seq(Instruction) /\ Len(R.tape) = n
  <2>1. \A i \in 1 .. n : R.tape[i] \in Instruction
    BY <1>1, <1>2 DEF Instruction, OpCode
  <2>2. R.tape \in [1 .. n -> Instruction] /\ n \in Nat
    BY <1>1, <1>2, <2>1
  <2> QED
    BY <2>2
<1>4. R.den \in Seq([Point -> Num]) /\ Len(R.den) = Dim
  <2>1. \A j \in 1 .. Dim : [u \in Point |-> u[j]] \in [Point -> Num]
    BY DEF Point
  <2>2. R.den \in [1 .. Dim -> [Point -> Num]] /\ Dim \in Nat
    BY <1>1, <1>2, <2>1
  <2> QED
    BY <2>2
<1>5. R \in Recorder
  <2>1. R = [tape |-> R.tape, par_rec_ |-> R.par_rec_, den |-> R.den,
             num_var_rec_ |-> R.num_var_rec_, hash_table |-> R.hash_table]
    BY <1>1 DEF Independent, Recorder
  <2>2. /\ R.par_rec_ \in Seq(Num) /\ R.hash_table \in [Code -> Nat]
        /\ R.num_var_rec_ \in Nat
    BY <1>1, <1>2 DEF Recorder
  <2> QED
    BY <1>3, <1>4, <2>1, <2>2 DEF Recorder
<1>6. Faithful(R)
  <2> SUFFICES ASSUME NEW i \in DOMAIN R.tape
               PROVE  /\ ArgsValid(R.tape[i], Len(R.par_rec_))
                      /\ R.tape[i].res <= Len(R.den)
                      /\ \A u \in Point : Solves(R.tape[i], Played(R, u), R.par_rec_)
                      /\ IF i = 1 THEN R.tape[i].op = "Begin" /\ R.tape[i].res = 0
                         ELSE R.tape[i].res = R.tape[i - 1].res + NumRes(R.tape[i].op)
    BY DEF Faithful
  <2>1. /\ i \in 1 .. n
        /\ R.tape[i].op = IF i = 1 THEN "Begin" ELSE "Inv"
        /\ R.tape[i].kind = <<>> /\ R.tape[i].arg = <<>> /\ R.tape[i].res = i - 1
    BY <1>2
  <2>2. i # 1 => R.tape[i - 1].res = i - 2
    BY <1>1, <1>2, <2>1
  <2>3. R.tape[i].op \in {"Begin", "Inv"} /\ R.tape[i].op \notin TwoResults
    BY <2>1, UnaryAssumption
  <2>4. NumRes(R.tape[i].op) = 1
    BY <2>3 DEF NumRes, Comparison
  <2>5. ArgsValid(R.tape[i], Len(R.par_rec_))
    BY <2>1 DEF ArgsValid
  <2>6. \A u \in Point : Solves(R.tape[i], Played(R, u), R.par_rec_)
    BY <2>3 DEF Solves
  <2> HIDE DEF R
  <2> QED
    BY <1>1, <1>4, <2>1, <2>2, <2>4, <2>5, <2>6
<1>7. Live(R)
  <2>1. R.tape[n].res = Dim
    BY <1>1, <1>2
  <2> HIDE DEF R
  <2> QED
    BY <1>1, <1>2, <1>3, <1>4, <1>5, <1>6, <2>1 DEF Live
<1>8. at' \in Point /\ \A j \in 1 .. Dim : at'[j] = object[x[j]].value_
  BY <1>1 DEF Independent, Point, AD
<1>9. ASSUME NEW o \in Object
      PROVE  /\ object'[o] = IF \E j \in 1 .. Dim : x[j] = o
                               THEN [object[o] EXCEPT !.taddr_ = IndexIn(x, o)]
                               ELSE object[o]
             /\ (\E j \in 1 .. Dim : x[j] = o) =>
                  IndexIn(x, o) \in 1 .. Dim /\ x[IndexIn(x, o)] = o
  BY <1>1 DEF Independent, IndexIn
<1>10. object' \in [Object -> AD]
  <2>1. \A o \in Object : object'[o] \in AD
    <3> SUFFICES ASSUME NEW o \in Object PROVE object'[o] \in AD
      OBVIOUS
    <3>1. object[o] \in AD
      BY <1>1
    <3>2. CASE \E j \in 1 .. Dim : x[j] = o
      <4>1. object'[o] = [object[o] EXCEPT !.taddr_ = IndexIn(x, o)]
        BY <1>9, <3>2
      <4>2. IndexIn(x, o) \in Nat
        <5>1. IndexIn(x, o) \in 1 .. Dim
          BY <1>9, <3>2, Zenon
        <5> QED
          BY <1>1, <5>1
      <4> QED
        BY <3>1, <4>1, <4>2 DEF AD
    <3>3. CASE ~ \E j \in 1 .. Dim : x[j] = o
      BY <1>9, <3>1, <3>3
    <3> QED
      BY <3>2, <3>3
  <2> QED
    BY <2>1 DEF Independent
<1>11. ASSUME NEW o \in Object
       PROVE  /\ FunctionOf(R, object'[o]) =
                   IF \E j \in 1 .. Dim : x[j] = o
                     THEN [u \in Point |-> u[IndexIn(x, o)]]
                     ELSE fn[o]
              /\ FunctionOf(R, object'[o])[at'] = object'[o].value_
              /\ Variable(object'[o]) => object'[o].taddr_ \in DOMAIN R.den
  <2>0. object[o] \in AD /\ object'[o] \in AD /\ Parameter(object[o])
    BY <1>1, <1>10 DEF IInv
  <2>1. CASE \E j \in 1 .. Dim : x[j] = o
    <3>1. /\ object'[o].taddr_ = IndexIn(x, o) /\ IndexIn(x, o) \in 1 .. Dim
          /\ object'[o].value_ = object[o].value_ /\ x[IndexIn(x, o)] = o
      BY <1>9, <2>0, <2>1 DEF AD
    <3>2. FunctionOf(R, object'[o]) = [u \in Point |-> u[IndexIn(x, o)]]
      BY <1>1, <1>2, <3>1 DEF FunctionOf, Variable
    <3> QED
      BY <1>2, <1>8, <2>1, <3>1, <3>2
  <2>2. CASE ~ \E j \in 1 .. Dim : x[j] = o
    <3>1. object'[o] = object[o]
      BY <1>9, <2>2
    <3>2. ~Variable(object[o]) /\ FunctionOf(R, object[o]) = [u \in Point |-> object[o].value_]
      BY <2>0 DEF Parameter, FunctionOf
    <3>3. fn[o] = [u \in Point |-> object[o].value_]
      BY <3>2 DEF fn, FunctionOf
    <3> QED
      BY <1>8, <2>2, <3>1, <3>2, <3>3
  <2> QED
    BY <2>1, <2>2
<1>12. ValuesAgree'
  <2> SUFFICES ASSUME NEW o \in Object, Variable(object'[o])
               PROVE  /\ object'[o].taddr_ \in DOMAIN Rec_'.den
                      /\ object'[o].value_ = Rec_'.den[object'[o].taddr_][at']
    BY Primed
  <2> QED
    BY <1>11 DEF FunctionOf
<1>13. IInv'
  <2>1. recording' /\ f' = f
    BY DEF Independent
  <2>2. TypeOK'
    BY <1>1, <1>2, <1>4, <1>5, <1>8, <1>10, <2>1 DEF IInv, TypeOK
  <2>3. Live(Rec_)'
    BY <1>7 DEF Live, Faithful, Recorder, ArgsValid, Solves, Played, Operands
  <2> QED
    BY <1>12, <2>1, <2>2, <2>3 DEF IInv
<1>14. at' = [j \in 1 .. Dim |-> fn[x[j]][at]]
  <2>1. \A j \in 1 .. Dim : fn[x[j]][at] = object[x[j]].value_
    BY <1>1, ObjectFunction
  <2> QED
    BY <2>1 DEF Independent
<1>15. fn' = [o \in Object |->
                IF \E j \in 1 .. Dim : x[j] = o
                  THEN [u \in Point |-> u[IndexIn(x, o)]]
                  ELSE fn[o]]
  <2>1. fn' = [o \in Object |-> FunctionOf(R, object'[o])]
    BY Primed
  <2> QED
    BY <1>11, <2>1
<1>16. agrees' = [u \in Point |-> TRUE]
  <2>1. agrees' = [u \in Point |-> Agree(R, u)]
    BY Primed
  <2>2. \A i \in DOMAIN R.tape : R.tape[i].op \notin Comparison
    BY <1>2 DEF Comparison
  <2>3. \A u : Agree(R, u) = TRUE
    BY <2>2 DEF Agree
  <2> HIDE DEF R
  <2> QED
    BY <2>1, <2>3
<1>17. recording' /\ ~recording /\ fun' = fun
  BY Primed DEF Independent
<1>18. Abstract!Independent(x)
  BY <1>14, <1>15, <1>16, <1>17
    DEF Abstract!Independent, Abstract!Everywhere, Abstract!Point, Point, IndexIn
<1> QED
  BY <1>13, <1>18

-----------------------------------------------------------------------------

LEMMA EndStep ==
  ASSUME IInv, EndRecording, f' \in {NoFun} \union Function
  PROVE  /\ IInv'
         /\ fn' = [o \in Object |-> [u \in Point |-> fn[o][at]]]
         /\ agrees' = [u \in Point |-> TRUE]
         /\ recording /\ ~recording' /\ at' = at
<1>1. /\ object' = [o \in Object |-> Param(object[o].value_)]
      /\ Rec_' = EmptyRecorder(Rec_.hash_table) /\ ~recording'
      /\ recording /\ recording' = FALSE /\ at' = at
      /\ object \in [Object -> AD] /\ Rec_ \in Recorder /\ at \in Point
  BY DEF EndRecording, IInv, TypeOK
<1>2. /\ Rec_' \in Recorder /\ Rec_'.num_var_rec_ = 0 /\ Rec_'.tape = <<>>
      /\ Rec_'.hash_table = Rec_.hash_table
  BY <1>1 DEF EmptyRecorder, Recorder
<1>3. \A o \in Object : /\ object'[o] = Param(object[o].value_)
                        /\ object'[o] \in AD /\ Parameter(object'[o])
                        /\ object'[o].value_ = object[o].value_
  BY <1>1 DEF Param, AD, Parameter, Variable
<1>4. TypeOK'
  <2>1. object' \in [Object -> AD]
    BY <1>1, <1>3
  <2> QED
    BY <1>1, <1>2, <2>1 DEF TypeOK
<1>5. ValuesAgree'
  BY <1>3, Primed DEF Parameter
<1>6. (~recording => /\ Rec_ = EmptyRecorder(Rec_.hash_table)
                     /\ \A o \in Object : Parameter(object[o]))'
  BY <1>1, <1>2, <1>3 DEF EmptyRecorder, Parameter, Variable
<1>7. fn' = [o \in Object |-> [u \in Point |-> fn[o][at]]]
  <2>1. fn' = [o \in Object |-> FunctionOf(Rec_', object'[o])]
    BY Primed
  <2>2. \A o \in Object : FunctionOf(Rec_', object'[o]) = [u \in Point |-> fn[o][at]]
    <3> SUFFICES ASSUME NEW o \in Object
                 PROVE  FunctionOf(Rec_', object'[o]) = [u \in Point |-> fn[o][at]]
      OBVIOUS
    <3>1. fn[o][at] = object[o].value_
      BY ObjectFunction
    <3> QED
      BY <1>3, <3>1 DEF FunctionOf, Parameter
  <2> QED
    BY <2>1, <2>2
<1>8. agrees' = [u \in Point |-> TRUE]
  <2>1. \A u : Agree(Rec_', u) = TRUE
    BY <1>2 DEF Agree
  <2> QED
    BY <2>1, Primed
<1> QED
  BY <1>1, <1>4, <1>5, <1>6, <1>7, <1>8 DEF IInv

(* The tape that f gets. *)
LEMMA DependentTape ==
  ASSUME IInv, recording, NEW y \in Object,
         NEW W, W = WithDependent(Rec_, object[y]),
         NEW R, R = Put(W, "End", <<>>, <<>>),
         NEW a, a = IF Parameter(object[y]) THEN R.num_var_rec_ - 1 ELSE object[y].taddr_
  PROVE  /\ R \in Recorder /\ Faithful(R)
         /\ a \in DOMAIN R.den /\ a \in Nat
         /\ R.den[a] = fn[y]
         /\ \A u \in Point : Agree(R, u) <=> Agree(Rec_, u)
         /\ Grows(Rec_, R)
<1> DEFINE x == object[y]
           v == [u \in Point |-> ValuesOf(Rec_, <<x>>, u)]
           none == [u \in Point |-> ArgValues(W, <<>>, <<>>, u)]
<1>1. /\ x \in AD /\ x.taddr_ <= Len(Rec_.den) /\ x.taddr_ \in Nat
      /\ fn[y] = FunctionOf(Rec_, x) /\ fn[y] \in [Point -> Num]
      /\ Live(Rec_) /\ Rec_ \in Recorder
      /\ Len(Rec_.den) \in Nat
  BY ObjectFunction, LenProperties DEF AD, IInv, TypeOK, Recorder
<1>2. /\ NumRes("End") = 0 /\ "End" \notin TwoResults
      /\ "End" \in OpCode \ {"Begin", "Inv"} /\ "End" \notin Comparison
  BY UnaryAssumption DEF NumRes, OpCode, Comparison
<1>3. /\ Live(W) /\ Grows(Rec_, W)
      /\ \A u \in Point : Agree(W, u) <=> Agree(Rec_, u)
      /\ Parameter(x) => Len(W.den) > 0 /\ W.den[Len(W.den)] = fn[y]
  <2>1. CASE Parameter(x)
    <3>1. W = Record(Rec_, "Par", <<x>>)
      BY <2>1 DEF WithDependent
    <3>2. <<x>> \in Seq(AD) /\ Len(<<x>>) = 1 /\ \A j \in DOMAIN <<x>> : <<x>>[j].taddr_ <= Len(Rec_.den)
      BY <1>1
    <3>3. /\ "Par" \in Recordable \ Comparison /\ Arity("Par") = 1 /\ NumRes("Par") = 1
          /\ \A s : Value("Par", s) = s[1]
      BY UnaryAssumption DEF Recordable, Arity, NumRes, Value, Binary, Comparison, CondExp
    <3>4. Adds(Rec_, W, "Par", v)
      <4> DEFINE s == <<x>>
      <4>1. s \in Seq(AD) /\ Len(s) = Arity("Par")
        BY <3>2, <3>3
      <4>2. \A j \in DOMAIN s : s[j].taddr_ <= Len(Rec_.den)
        BY <3>2
      <4>3. v = [u \in Point |-> ValuesOf(Rec_, s, u)]
        OBVIOUS
      <4>4. Live(Rec_) /\ "Par" \in Recordable
        BY <1>1, <3>3
      <4>5. W = Record(Rec_, "Par", s)
        BY <3>1
      <4> HIDE DEF s, v, x
      <4>6. Adds(Rec_, Record(Rec_, "Par", s), "Par", v)
        BY <4>1, <4>2, <4>3, <4>4, RecordLive
      <4> QED
        BY <4>5, <4>6
    <3>5. \A u \in Point : Value("Par", v[u]) = fn[y][u]
      <4>1. \A u \in Point : v[u][1] = FunctionOf(Rec_, x)[u]
        BY DEF ValuesOf
      <4> QED
        BY <1>1, <3>3, <4>1
    <3>6. [u \in Point |-> Value("Par", v[u])] = fn[y]
      BY <1>1, <3>5
    <3> HIDE DEF v
    <3>7. Len(W.den) > 0 /\ W.den[Len(W.den)] = fn[y] /\ Live(W) /\ Grows(Rec_, W)
      BY <3>3, <3>4, <3>6 DEF Adds
    <3>8. \A u \in Point : Agree(W, u) <=> Agree(Rec_, u)
      BY <1>1, <3>3, <3>4, AgreeAdded
    <3> QED
      BY <3>7, <3>8
  <2>2. CASE ~Parameter(x)
    <3>1. W = Rec_
      BY <2>2 DEF WithDependent
    <3>2. Grows(Rec_, Rec_)
      BY <1>1, LenProperties DEF Grows, Recorder
    <3> QED
      BY <1>1, <2>2, <3>1, <3>2
  <2> QED
    BY <2>1, <2>2
<1>4. Adds(W, R, "End", none)
  <2>1. WellPut(W, <<>>, <<>>)
    BY DEF WellPut
  <2>2. Total("End", none)
    BY <1>2 DEF Total
  <2> HIDE DEF none
  <2>3. none = [u \in Point |-> ArgValues(W, <<>>, <<>>, u)]
    BY DEF none
  <2> QED
    BY <1>2, <1>3, <2>1, <2>2, <2>3, PutLive
<1> HIDE DEF none
<1>5. /\ Live(R) /\ Grows(W, R) /\ R \in Recorder /\ Faithful(R)
      /\ Len(R.den) \in Nat /\ Len(W.den) \in Nat /\ DOMAIN R.den = 1 .. Len(R.den)
      /\ R.num_var_rec_ = Len(R.den) + 1
  BY <1>3, <1>4, LenProperties DEF Adds, Live, Recorder
<1>6. \A u \in Point : Agree(R, u) <=> Agree(Rec_, u)
  BY <1>2, <1>3, <1>4, AgreeAdded
<1>7. R.den = W.den
  <2> DEFINE result == [u \in Point |-> Value("End", Operands(
                          [op |-> "End", kind |-> <<>>, arg |-> <<>>,
                           res |-> W.num_var_rec_ + NumRes("End") - 1],
                          Played(W, u), W.par_rec_))]
             aux == [u \in Point |-> Aux("End", Operands(
                          [op |-> "End", kind |-> <<>>, arg |-> <<>>,
                           res |-> W.num_var_rec_ + NumRes("End") - 1],
                          Played(W, u), W.par_rec_))]
  <2>1. W \in Recorder
    BY <1>3 DEF Live
  <2>2. R.den = CASE NumRes("End") = 0 -> W.den
                  [] NumRes("End") = 1 -> Append(W.den, result)
                  [] NumRes("End") = 2 -> W.den \o <<aux, result>>
    BY <2>1 DEF Put, Recorder
  <2> HIDE DEF result, aux
  <2> QED
    BY <1>2, <2>2
<1>8. a \in DOMAIN R.den /\ a \in Nat /\ R.den[a] = fn[y]
  <2>1. CASE Parameter(x)
    BY <1>3, <1>5, <1>7, <2>1
  <2>2. CASE ~Parameter(x)
    <3>1. a = x.taddr_ /\ a \in 1 .. Len(Rec_.den)
      BY <1>1, <2>2 DEF Parameter, Variable
    <3>2. Rec_.den[a] = fn[y]
      BY <1>1, <2>2, <3>1 DEF FunctionOf, Parameter
    <3> QED
      BY <1>1, <1>3, <1>5, <1>7, <3>1, <3>2 DEF Grows
  <2> QED
    BY <2>1, <2>2
<1>9. Grows(Rec_, R)
  <2>1. W \in Recorder
    BY <1>3 DEF Live
  <2> QED
    BY <1>1, <1>3, <1>5, <2>1, GrowsTransitive
<1> QED
  BY <1>5, <1>6, <1>8, <1>9

LEMMA DependentStep ==
  ASSUME IInv, NEW y \in Object, Dependent(y)
  PROVE  /\ IInv'
         /\ Abstract!Dependent(y)
         /\ Faithful(f') /\ f'.dep_taddr_ \in DOMAIN f'.den
<1> DEFINE W == WithDependent(Rec_, object[y])
           R == Put(W, "End", <<>>, <<>>)
           a == IF Parameter(object[y]) THEN R.num_var_rec_ - 1 ELSE object[y].taddr_
<1>1. /\ EndRecording /\ recording
      /\ f' = [tape |-> R.tape, par_rec_ |-> R.par_rec_, den |-> R.den, dep_taddr_ |-> a]
  BY DEF Dependent, EndRecording
<1>2. /\ R \in Recorder /\ Faithful(R)
      /\ a \in DOMAIN R.den /\ a \in Nat
      /\ R.den[a] = fn[y]
      /\ \A u \in Point : Agree(R, u) <=> Agree(Rec_, u)
  BY <1>1, DependentTape
<1> HIDE DEF R, a
<1>3. /\ f'.tape = R.tape /\ f'.par_rec_ = R.par_rec_
      /\ f'.den = R.den /\ f'.dep_taddr_ = a
  BY <1>1
<1>4. f' \in Function
  BY <1>1, <1>2 DEF Function, Recorder
<1>5. f' # NoFun
  BY <1>4, NoFunAssumption
<1>6. \A u : Played(f', u) = Played(R, u)
  BY <1>3 DEF Played
<1>7. Faithful(f')
  BY <1>2, <1>3, <1>6 DEF Faithful
<1>8. \A u \in Point : Agree(f', u) = Agree(Rec_, u)
  <2>1. \A u \in Point : Agree(f', u) <=> Agree(R, u)
    BY <1>3, <1>6 DEF Agree
  <2> QED
    BY <1>2, <2>1 DEF Agree
<1>9. fun' = [value |-> fn[y], agrees |-> agrees]
  <2>1. fun' = IF f' = NoFun THEN NoFun
               ELSE [value |-> f'.den[f'.dep_taddr_],
                     agrees |-> [u \in Point |-> Agree(f', u)]]
    BY DEF fun, Agree, Operands, Played, Holds
  <2>2. [u \in Point |-> Agree(f', u)] = agrees
    BY <1>8 DEF agrees
  <2> QED
    BY <1>2, <1>3, <1>5, <2>1, <2>2
<1>10. /\ IInv'
       /\ fn' = [o \in Object |-> [u \in Point |-> fn[o][at]]]
       /\ agrees' = [u \in Point |-> TRUE]
       /\ recording /\ ~recording' /\ at' = at
  BY <1>1, <1>4, EndStep
<1>11. recording' = FALSE
  BY <1>1 DEF EndRecording
<1>12. Abstract!Dependent(y)
  BY <1>9, <1>10, <1>11 DEF Abstract!Dependent, Abstract!End, Abstract!Const,
       Abstract!Everywhere, Abstract!Point, Point
<1> QED
  BY <1>2, <1>3, <1>7, <1>10, <1>12

LEMMA AbortStep ==
  ASSUME IInv, AbortRecording
  PROVE  IInv' /\ Abstract!AbortRecording
<1>1. f' = f /\ EndRecording /\ f' \in {NoFun} \union Function
  BY DEF AbortRecording, IInv, TypeOK
<1>2. /\ IInv'
      /\ fn' = [o \in Object |-> [u \in Point |-> fn[o][at]]]
      /\ agrees' = [u \in Point |-> TRUE]
      /\ recording /\ ~recording' /\ at' = at
  BY <1>1, EndStep
<1>3. recording' = FALSE /\ fun' = fun
  BY <1>1, Primed DEF EndRecording
<1> QED
  BY <1>2, <1>3 DEF Abstract!AbortRecording, Abstract!End, Abstract!Const,
     Abstract!Everywhere, Abstract!Point, Point

LEMMA StutterStep ==
  ASSUME IInv, UNCHANGED vars
  PROVE  IInv' /\ UNCHANGED Abstract!vars
<1>1. /\ recording' = recording /\ object' = object /\ Rec_' = Rec_
      /\ at' = at /\ f' = f
  BY DEF vars
<1>2. IInv'
  <2>1. TypeOK'
    BY <1>1 DEF IInv, TypeOK
  <2>2. ValuesAgree'
    BY <1>1, Primed DEF IInv, ValuesAgree
  <2>3. (recording => Live(Rec_))' /\ (recording' \/ Rec_' = EmptyRecorder(Rec_.hash_table)')
    BY <1>1 DEF IInv, EmptyRecorder, Live, Faithful, Recorder
  <2>4. (~recording => \A o \in Object : Parameter(object[o]))'
    BY <1>1 DEF IInv, Parameter, Variable
  <2> QED
    BY <2>1, <2>2, <2>3, <2>4 DEF IInv
<1>3. fn' = fn /\ agrees' = agrees /\ fun' = fun
  BY <1>1, Primed DEF fn, agrees
<1> QED
  BY <1>1, <1>2, <1>3 DEF Abstract!vars

LEMMA InitStep ==
  ASSUME Init
  PROVE  IInv /\ Abstract!Init
<1>1. /\ recording = FALSE /\ f = NoFun
      /\ object = [o \in Object |-> Param(Zero)]
      /\ Rec_ = EmptyRecorder([c \in Code |-> 0])
      /\ at = [j \in 1 .. Dim |-> Zero]
  BY DEF Init
<1>2. \A o \in Object : object[o] = Param(Zero) /\ object[o] \in AD
                          /\ ~Variable(object[o]) /\ object[o].value_ = Zero
  BY <1>1, NumAssumption DEF Param, AD, Variable
<1>3. /\ Rec_ \in Recorder /\ Rec_.num_var_rec_ = 0 /\ Rec_.tape = <<>>
      /\ Rec_ = EmptyRecorder(Rec_.hash_table)
  BY <1>1 DEF EmptyRecorder, Recorder
<1>4. IInv
  <2>1. object \in [Object -> AD] /\ at \in Point
    BY <1>1, <1>2, NumAssumption DEF Point
  <2> QED
    BY <1>1, <1>2, <1>3, <2>1 DEF IInv, TypeOK, ValuesAgree, Parameter
<1>5. fn = [o \in Object |-> [u \in Point |-> Zero]]
  BY <1>2 DEF fn, FunctionOf
<1>6. agrees = [u \in Point |-> TRUE]
  <2>1. \A u : Agree(Rec_, u) = TRUE
    BY <1>3 DEF Agree
  <2> QED
    BY <2>1 DEF agrees
<1>7. fun = NoFun
  BY <1>1 DEF fun
<1> QED
  BY <1>1, <1>4, <1>5, <1>6, <1>7 DEF Abstract!Init, Abstract!Const,
     Abstract!Everywhere, Abstract!Point, Point

-----------------------------------------------------------------------------

(* The function Dependent gives f is a faithful one. *)
FunctionStep == f' # f => Faithful(f') /\ f'.dep_taddr_ \in DOMAIN f'.den

LEMMA NextStep ==
  ASSUME IInv, Next
  PROVE  IInv' /\ Abstract!Next /\ FunctionStep
<1>1. CASE \E x \in Vector : Independent(x)
  <2>1. PICK x \in Vector : Independent(x)
    BY <1>1
  <2> QED
    BY <2>1, IndependentStep DEF Independent, FunctionStep, Abstract!Next
<1>2. CASE \E r \in Object, c \in Num : AssignBase(r, c)
  <2>1. PICK r \in Object, c \in Num : SetParameter(r, c)
    BY <1>2 DEF AssignBase
  <2>2. IInv' /\ Abstract!Set(r, [u \in Point |-> c])
    BY <2>1, SetParameterStep
  <2>3. Abstract!Assign(r, c)
    BY <2>2 DEF Abstract!Assign, Abstract!Const, Abstract!Point, Point
  <2> QED
    BY <2>1, <2>2, <2>3 DEF SetParameter, FunctionStep, Abstract!Next
<1>3. CASE \E r \in Object, a \in Object : Copy(r, a)
  <2>1. PICK r \in Object, a \in Object : SetCopy(r, object[a].value_, object[a].taddr_)
    BY <1>3 DEF Copy
  <2>2. IInv' /\ Abstract!Copy(r, a)
    BY <2>1, SetCopyStep DEF Abstract!Copy
  <2> QED
    BY <2>1, <2>2 DEF SetCopy, FunctionStep, Abstract!Next
<1>4. CASE \E r \in Object, op \in Binary \cap Ops, a, b \in Object : BinaryOp(op, r, a, b)
  <2>1. PICK r \in Object, op \in Binary \cap Ops, a \in Object, b \in Object :
          BinaryOp(op, r, a, b)
    BY <1>4
  <2>2. f' = f
    BY <2>1 DEF BinaryOp, SetParameter, SetCopy, SetResult
  <2>3. IInv' /\ Abstract!BinaryOp(op, r, a, b)
    BY <2>1, BinaryStep
  <2> QED
    BY <2>2, <2>3 DEF FunctionStep, Abstract!Next, Abstract!Binary, Binary
<1>5. CASE \E r \in Object, op \in Unary \cap Ops, a \in Object : UnaryOp(op, r, a)
  <2>1. PICK r \in Object, op \in Unary \cap Ops, a \in Object : UnaryOp(op, r, a)
    BY <1>5
  <2>2. f' = f
    BY <2>1 DEF UnaryOp, SetParameter, SetResult
  <2>3. IInv' /\ Abstract!UnaryOp(op, r, a)
    BY <2>1, UnaryStep
  <2> QED
    BY <2>2, <2>3 DEF FunctionStep, Abstract!Next
<1>6. CASE \E r \in Object, cop \in CondExp \cap Ops, l, m, t, e \in Object :
             CondExpOp(cop, r, l, m, t, e)
  <2>1. PICK r \in Object, cop \in CondExp \cap Ops, l \in Object, m \in Object,
             t \in Object, e \in Object : CondExpOp(cop, r, l, m, t, e)
    BY <1>6
  <2>2. f' = f
    BY <2>1 DEF CondExpOp, SetCopy, SetResult
  <2>3. IInv' /\ Abstract!CondExpOp(cop, r, l, m, t, e)
    BY <2>1, CondExpStep
  <2> QED
    BY <2>2, <2>3 DEF FunctionStep, Abstract!Next, Abstract!CondExp, CondExp
<1>7. CASE \E cop \in Relational \cap Ops, a, b \in Object : CompareOp(cop, a, b)
  <2>1. PICK cop \in Relational \cap Ops, a \in Object, b \in Object : CompareOp(cop, a, b)
    BY <1>7
  <2>2. f' = f
    BY <2>1 DEF CompareOp
  <2>3. IInv' /\ Abstract!CompareOp(cop, a, b)
    BY <2>1, CompareStep
  <2> QED
    BY <2>2, <2>3 DEF FunctionStep, Abstract!Next, Abstract!Relational, Relational
<1>8. CASE \E y \in Object : Dependent(y)
  <2>1. PICK y \in Object : Dependent(y)
    BY <1>8
  <2> QED
    BY <2>1, DependentStep DEF FunctionStep, Abstract!Next
<1>9. CASE AbortRecording
  BY <1>9, AbortStep DEF AbortRecording, FunctionStep, Abstract!Next
<1> QED
  BY <1>1, <1>2, <1>3, <1>4, <1>5, <1>6, <1>7, <1>8, <1>9 DEF Next, Operate

LEMMA Inductive == Spec => []IInv
<1>1. Init => IInv
  BY InitStep
<1>2. IInv /\ [Next]_vars => IInv'
  BY NextStep, StutterStep
<1> QED
  BY <1>1, <1>2, PTL DEF Spec

(* The recorder and the AD objects keep their types, and num_var_rec_      *)
(* counts the variables.                                                   *)
THEOREM TypeCorrect == Spec => []TypeOK
<1>1. IInv => TypeOK
  BY DEF IInv
<1> QED
  BY <1>1, Inductive, PTL

(* The tape under construction says what was computed, whatever the hash   *)
(* function and whatever was recorded or aborted before.                   *)
THEOREM TapesFaithful == Spec => []TapeFaithful
<1>1. IInv => TapeFaithful
  <2> SUFFICES ASSUME IInv PROVE TapeFaithful
    OBVIOUS
  <2>1. CASE recording
    BY <2>1 DEF IInv, Live, TapeFaithful
  <2>2. CASE ~recording
    <3>1. Rec_.tape = <<>>
      BY <2>2 DEF IInv, EmptyRecorder
    <3> QED
      BY <3>1 DEF TapeFaithful, Faithful
  <2> QED
    BY <2>1, <2>2
<1> QED
  BY <1>1, Inductive, PTL

(* An object that is a variable has the value its address has at the       *)
(* recording point.                                                        *)
THEOREM ValuesOfVariablesAgree == Spec => []ValuesAgree
<1>1. IInv => ValuesAgree
  BY DEF IInv
<1> QED
  BY <1>1, Inductive, PTL

(* Every function Dependent makes is faithful and has its dependent        *)
(* variable.                                                               *)
THEOREM FunctionsFaithful == Spec => FunctionFaithful
<1>1. IInv /\ [Next]_vars => [FunctionStep]_vars
  BY NextStep
<1>2. Spec => [][FunctionStep]_vars
  BY <1>1, Inductive, PTL DEF Spec
<1> QED
  BY <1>2, PTL DEF FunctionFaithful, FunctionStep

(* Recording implements recorded functions, for every number of objects    *)
(* and independent variables, every arithmetic that has the laws of the    *)
(* shortcuts and every hash function.                                      *)
THEOREM FunctionsImplemented == Spec => ImplementsFunctions
<1>1. Init => Abstract!Init
  BY InitStep
<1>2. IInv /\ [Next]_vars => [Abstract!Next]_(Abstract!vars)
  BY NextStep, StutterStep
<1>3. Spec => Abstract!Spec
  BY <1>1, <1>2, Inductive, PTL DEF Spec, Abstract!Spec
<1> QED
  BY <1>3 DEF ImplementsFunctions

(***************************************************************************)
(* Playback.                                                               *)
(***************************************************************************)

(* The op codes a player knows. *)
Codes == Plays!OpCodeRec

Simple == {"Begin", "Inv", "End"}

(* An instruction that can follow the first n of the tape s. *)
Fits(s, n, ins) ==
  /\ ins \in Instruction
  /\ Len(ins.kind) = Len(ins.arg)
  /\ ins.op \in Simple => Len(ins.kind) = 0
  /\ ins.op \in CondExp => Len(ins.kind) = 4
  /\ \A j \in DOMAIN ins.arg :
       ins.kind[j] = "v" => \E k \in 1 .. n : s[k].res = ins.arg[j]
  /\ \A k \in 1 .. n : s[k].res + NumRes(ins.op) <= ins.res

Sound(s) ==
  /\ s \in Seq(Instruction)
  /\ Len(s) > Dim
  /\ \A i \in 1 .. Len(s) :
       /\ s[i].op = "Begin" <=> i = 1
       /\ s[i].op = "Inv" <=> i \in 2 .. Dim + 1
       /\ Fits(s, i - 1, s[i])

(* The vectors V hold the words of instruction i of s. *)
WrittenAt(V, s, i) ==
  /\ V.op_rec_[i] = OpCodeOf(s[i])
  /\ V.last[i] = s[i].res
  /\ Len(Words(s[i])) \in Nat
  /\ V.first[i] + Len(Words(s[i]))
       = IF i = Len(s) THEN Len(V.op_arg_rec_) ELSE V.first[i + 1]
  /\ V.first[i] + Len(Words(s[i])) <= Len(V.op_arg_rec_)
  /\ \A k \in 1 .. Len(Words(s[i])) :
       V.op_arg_rec_[V.first[i] + k] = Words(s[i])[k]

Written(V, s) ==
  /\ V.op_rec_ \in Seq(Codes) /\ V.op_arg_rec_ \in Seq(Nat)
  /\ V.first \in Seq(Nat) /\ V.last \in Seq(Nat) /\ V.num_var_rec_ \in Nat
  /\ Len(V.op_rec_) = Len(s) /\ Len(V.first) = Len(s) /\ Len(V.last) = Len(s)
  /\ V.first[1] = 0
  /\ V.num_var_rec_ = s[Len(s)].res + 1
  /\ \A i \in 1 .. Len(s) : WrittenAt(V, s, i)

-----------------------------------------------------------------------------

(* Sequences with something put at their end. *)
Joined(q, p, a) ==
  /\ Len(q) = Len(p) + Len(a)
  /\ \A k \in 1 .. Len(p) : q[k] = p[k]
  /\ \A k \in 1 .. Len(a) : q[Len(p) + k] = a[k]

Extended(q, p, x) ==
  /\ Len(q) = Len(p) + 1
  /\ \A k \in 1 .. Len(p) : q[k] = p[k]
  /\ q[Len(p) + 1] = x

LEMMA ConcatIs ==
  ASSUME NEW p \in Seq(Nat), NEW a \in Seq(Nat), NEW q, q = p \o a
  PROVE  q \in Seq(Nat) /\ Joined(q, p, a)
BY DEF Joined

LEMMA AppendIs ==
  ASSUME NEW S, NEW p \in Seq(S), NEW x \in S, NEW q, q = Append(p, x)
  PROVE  q \in Seq(S) /\ Extended(q, p, x)
BY DEF Extended

(* One word for each argument, but for the first operator and conditional  *)
(* expressions.                                                            *)
LEMMA WordsAre ==
  ASSUME NEW ins \in Instruction, Len(ins.kind) = Len(ins.arg),
         ins.op \in CondExp => Len(ins.kind) = 4
  PROVE  /\ Words(ins) \in Seq(Nat)
         /\ ins.op = "Begin" => Words(ins) = <<0>>
         /\ ins.op \in CondExp =>
              /\ Len(Words(ins)) = 6
              /\ Words(ins)[1] = Number(ins.op)
              /\ Words(ins)[2] = Flags(ins.kind)
              /\ \A k \in 1 .. 4 : Words(ins)[k + 2] = ins.arg[k]
         /\ ins.op \notin CondExp \union {"Begin"} => Words(ins) = ins.arg
<1>1. ins.arg \in Seq(Nat) /\ ins.kind \in Seq({"v", "p"})
  BY DEF Instruction
<1>2. CASE ins.op = "Begin"
  BY <1>2, UnaryAssumption DEF Words, CondExp
<1>3. CASE ins.op \in CondExp
  <2>1. ins.op # "Begin"
    BY <1>3 DEF CondExp
  <2>2. Words(ins) = <<Number(ins.op), Flags(ins.kind)>> \o ins.arg
    BY <1>3, <2>1 DEF Words
  <2>3. Number(ins.op) \in Nat
    <3>1. \E k \in 1 .. 5 : Plays!CompareOp[k] = ins.op
      BY <1>3 DEF CondExp, Plays!CompareOp
    <3>2. PICK c : c = CHOOSE k \in 1 .. 5 : Plays!CompareOp[k] = ins.op
      OBVIOUS
    <3>3. c \in 1 .. 5
      BY <3>1, <3>2
    <3>4. Number(ins.op) = c - 1
      BY <3>2 DEF Number
    <3> QED
      BY <3>3, <3>4
  <2>4. Flags(ins.kind) \in Nat
    BY DEF Flags, Plays!Flag
  <2> DEFINE p == <<Number(ins.op), Flags(ins.kind)>>
  <2>5. p \in Seq(Nat) /\ Len(p) = 2 /\ p[1] = Number(ins.op) /\ p[2] = Flags(ins.kind)
    BY <2>3, <2>4
  <2>6. Words(ins) = p \o ins.arg
    BY <2>2
  <2> HIDE DEF p
  <2>7. Len(ins.arg) = 4
    BY <1>3
  <2>8. PICK a : a = ins.arg
    OBVIOUS
  <2>9. /\ p \o a \in Seq(Nat) /\ Len(p \o a) = 6
        /\ (p \o a)[1] = p[1] /\ (p \o a)[2] = p[2]
        /\ \A k \in 1 .. 4 : (p \o a)[k + 2] = a[k]
    <3>1. a \in Seq(Nat) /\ Len(a) = 4
      BY <1>1, <2>7, <2>8
    <3>2. PICK q : q = p \o a
      OBVIOUS
    <3>3. q \in Seq(Nat) /\ Joined(q, p, a)
      <4>1. p \in Seq(Nat) /\ a \in Seq(Nat)
        BY <2>5, <3>1, Zenon
      <4> QED
        BY <3>2, <4>1, ConcatIs, Zenon
    <3>4. Len(p) = 2
      BY <2>5
    <3>5. Len(q) = 6 /\ q[1] = p[1] /\ q[2] = p[2] /\ \A k \in 1 .. 4 : q[k + 2] = a[k]
      BY <3>1, <3>3, <3>4 DEF Joined
    <3> QED
      BY <3>2, <3>3, <3>5, Zenon
  <2> QED
    BY <1>3, <2>1, <2>5, <2>6, <2>8, <2>9
<1>4. CASE ins.op \notin CondExp \union {"Begin"}
  BY <1>1, <1>4 DEF Words
<1> QED
  BY <1>2, <1>3, <1>4

(* The op code of an instruction is one a player knows. *)
Named(ins) == ins.op \in CondExp \/ ins.kind \in Plays!OperandKinds(ins.op)

LEMMA CodeKnown ==
  ASSUME NEW ins \in Instruction, Named(ins)
  PROVE  OpCodeOf(ins) \in Codes
<1>1. ins.op \in OpCode /\ ins.kind \in Seq({"v", "p"}) /\ <<>> \in Seq({"v", "p"})
  BY DEF Instruction
<1>2. PICK q : q = OpCodeOf(ins)
  OBVIOUS
<1>3. CASE ins.op \in CondExp
  <2>1. q = [op |-> "CExp", kind |-> <<>>]
    BY <1>2, <1>3 DEF OpCodeOf
  <2>2. q.kind \in Plays!OperandKinds(q.op)
    BY <2>1, UnaryAssumption DEF Plays!OperandKinds, Plays!Binary, Plays!Comparison
  <2> QED
    BY <1>1, <1>2, <2>1, <2>2 DEF Codes, Plays!OpCodeRec
<1>4. CASE ins.op \notin CondExp
  <2>1. q = [op |-> ins.op, kind |-> ins.kind]
    BY <1>2, <1>4 DEF OpCodeOf
  <2>2. q.kind \in Plays!OperandKinds(q.op)
    BY <1>4, <2>1 DEF Named
  <2>3. q.op \in Plays!OpCode \ Plays!CondExp
    BY <1>1, <1>4, <2>1 DEF OpCode, CondExp, Plays!OpCode, Plays!CondExp, Binary,
       Comparison, Plays!Binary, Plays!Comparison
  <2> QED
    BY <1>1, <1>2, <2>1, <2>2, <2>3 DEF Codes, Plays!OpCodeRec
<1> QED
  BY <1>3, <1>4

(* An instruction is put after those that are there. *)
LEMMA PutWritten ==
  ASSUME NEW V, NEW s \in Seq(Instruction), Len(s) > 0, Written(V, s),
         NEW ins \in Instruction, Named(ins), Len(ins.kind) = Len(ins.arg),
         ins.op \in CondExp => Len(ins.kind) = 4,
         ins.res = s[Len(s)].res + NumRes(ins.op)
  PROVE  Written(PutInstruction(V, ins), Append(s, ins))
<1>1. PICK W : W = PutInstruction(V, ins)
  OBVIOUS
<1>2. PICK r : r = Append(s, ins)
  OBVIOUS
<1>3. PICK w : w = Words(ins)
  OBVIOUS
<1>4. /\ W.op_rec_ = Append(V.op_rec_, OpCodeOf(ins))
      /\ W.op_arg_rec_ = V.op_arg_rec_ \o w
      /\ W.num_var_rec_ = V.num_var_rec_ + NumRes(ins.op)
      /\ W.first = Append(V.first, Len(V.op_arg_rec_))
      /\ W.last = Append(V.last, V.num_var_rec_ + NumRes(ins.op) - 1)
  BY <1>1, <1>3 DEF PutInstruction
<1>5. w \in Seq(Nat) /\ Len(w) \in Nat
  <2>1. w \in Seq(Nat)
    BY <1>3, WordsAre
  <2> QED
    BY <2>1, LenProperties
<1>6. /\ V.op_rec_ \in Seq(Codes) /\ V.op_arg_rec_ \in Seq(Nat)
      /\ V.first \in Seq(Nat) /\ V.last \in Seq(Nat)
  BY DEF Written
<1>7. Len(V.op_arg_rec_) \in Nat
  BY <1>6, LenProperties
<1>8. /\ Len(V.op_rec_) = Len(s) /\ Len(V.first) = Len(s) /\ Len(V.last) = Len(s)
      /\ V.first[1] = 0 /\ V.num_var_rec_ \in Nat
      /\ V.num_var_rec_ = s[Len(s)].res + 1
      /\ \A i \in 1 .. Len(s) : WrittenAt(V, s, i)
  BY DEF Written
<1>9. OpCodeOf(ins) \in Codes
  BY CodeKnown
<1>10. NumRes(ins.op) \in Nat /\ ins.res \in Nat
  BY DEF NumRes, Instruction
<1>11. W.op_rec_ \in Seq(Codes) /\ Extended(W.op_rec_, V.op_rec_, OpCodeOf(ins))
  BY <1>4, <1>6, <1>9, AppendIs, Zenon
<1>12. W.op_arg_rec_ \in Seq(Nat) /\ Joined(W.op_arg_rec_, V.op_arg_rec_, w)
  BY <1>4, <1>5, <1>6, ConcatIs, Zenon
<1>13. W.first \in Seq(Nat) /\ Extended(W.first, V.first, Len(V.op_arg_rec_))
  BY <1>4, <1>6, <1>7, AppendIs, Zenon
<1>14. V.num_var_rec_ + NumRes(ins.op) - 1 = ins.res
  <2>1. s[Len(s)].res \in Nat
    <3>1. s[Len(s)] \in Instruction
      OBVIOUS
    <3> QED
      BY <3>1 DEF Instruction
  <2> QED
    BY <1>8, <1>10, <2>1
<1>15. W.last \in Seq(Nat) /\ Extended(W.last, V.last, ins.res)
  <2>1. W.last = Append(V.last, ins.res)
    BY <1>4, <1>14
  <2> QED
    BY <2>1, <1>6, <1>10, AppendIs, Zenon
<1>16. r \in Seq(Instruction) /\ Extended(r, s, ins)
  BY <1>2, AppendIs, Zenon
<1>17. PICK n : n = Len(s)
  OBVIOUS
<1>18. n \in Nat /\ n > 0
  BY <1>17, LenProperties
<1>19. /\ Len(r) = n + 1 /\ \A k \in 1 .. n : r[k] = s[k]
       /\ r[n + 1] = ins
  BY <1>16, <1>17 DEF Extended
<1>20. /\ Len(W.op_rec_) = n + 1 /\ \A k \in 1 .. n : W.op_rec_[k] = V.op_rec_[k]
       /\ W.op_rec_[n + 1] = OpCodeOf(ins)
  BY <1>8, <1>11, <1>17 DEF Extended
<1>21. /\ Len(W.first) = n + 1 /\ \A k \in 1 .. n : W.first[k] = V.first[k]
       /\ W.first[n + 1] = Len(V.op_arg_rec_)
  BY <1>8, <1>13, <1>17 DEF Extended
<1>22. /\ Len(W.last) = n + 1 /\ \A k \in 1 .. n : W.last[k] = V.last[k]
       /\ W.last[n + 1] = ins.res
  BY <1>8, <1>15, <1>17 DEF Extended
<1>23. /\ Len(W.op_arg_rec_) = Len(V.op_arg_rec_) + Len(w)
       /\ \A k \in 1 .. Len(V.op_arg_rec_) : W.op_arg_rec_[k] = V.op_arg_rec_[k]
       /\ \A k \in 1 .. Len(w) : W.op_arg_rec_[Len(V.op_arg_rec_) + k] = w[k]
  BY <1>12 DEF Joined
<1>24. ASSUME NEW i \in 1 .. n
       PROVE  WrittenAt(W, r, i)
  <2>1. /\ V.op_rec_[i] = OpCodeOf(s[i])
        /\ V.last[i] = s[i].res
        /\ Len(Words(s[i])) \in Nat
        /\ V.first[i] + Len(Words(s[i]))
             = IF i = n THEN Len(V.op_arg_rec_) ELSE V.first[i + 1]
        /\ V.first[i] + Len(Words(s[i])) <= Len(V.op_arg_rec_)
        /\ \A k \in 1 .. Len(Words(s[i])) :
             V.op_arg_rec_[V.first[i] + k] = Words(s[i])[k]
    BY <1>8, <1>17 DEF WrittenAt
  <2>2. r[i] = s[i] /\ W.op_rec_[i] = V.op_rec_[i] /\ W.first[i] = V.first[i]
        /\ W.last[i] = V.last[i]
    BY <1>19, <1>20, <1>21, <1>22
  <2>3. PICK x : x = Words(s[i])
    OBVIOUS
  <2>4. V.first[i] \in Nat
    <3>1. i \in 1 .. Len(V.first)
      BY <1>8, <1>17
    <3>2. V.first \in Seq(Nat)
      BY <1>6
    <3> QED
      BY <3>1, <3>2
  <2>5. V.first[i] + Len(x) = W.first[i + 1]
    <3>1. CASE i = n
      BY <2>1, <2>3, <3>1, <1>21
    <3>2. CASE i # n
      <4>1. i + 1 \in 1 .. n
        BY <3>2, <1>18
      <4> QED
        BY <2>1, <2>3, <3>2, <4>1, <1>21
    <3> QED
      BY <3>1, <3>2
  <2>6. V.first[i] + Len(x) <= Len(W.op_arg_rec_)
    <3>1. V.first[i] + Len(x) <= Len(V.op_arg_rec_) /\ W.first[i + 1] \in Nat
      <4>1. i + 1 \in 1 .. Len(W.first)
        BY <1>18, <1>21
      <4>2. W.first \in Seq(Nat)
        BY <1>13
      <4>3. W.first[i + 1] \in Nat
        BY <4>1, <4>2
      <4> QED
        BY <2>1, <2>3, <4>3
    <3> QED
      BY <2>5, <3>1, <1>23, <1>5, <1>7
  <2>7. \A k \in 1 .. Len(x) : W.op_arg_rec_[V.first[i] + k] = x[k]
    <3> SUFFICES ASSUME NEW k \in 1 .. Len(x)
                 PROVE  W.op_arg_rec_[V.first[i] + k] = x[k]
      OBVIOUS
    <3>1. V.first[i] + k \in 1 .. Len(V.op_arg_rec_)
      <4>1. V.first[i] + Len(x) <= Len(V.op_arg_rec_)
        BY <2>1, <2>3
      <4>2. Len(x) \in Int
        BY <2>1, <2>3
      <4> QED
        BY <4>1, <2>4, <1>7
    <3> QED
      BY <3>1, <1>23, <2>1, <2>3
  <2> QED
    <3>1. i # Len(r)
      BY <1>18, <1>19
    <3> QED
      BY <2>1, <2>2, <2>3, <2>5, <2>6, <2>7, <3>1 DEF WrittenAt
<1>25. WrittenAt(W, r, n + 1)
  <2>1. r[n + 1] = ins /\ Words(ins) = w /\ Len(r) = n + 1
    BY <1>3, <1>19
  <2>2. W.first[n + 1] + Len(w) = Len(W.op_arg_rec_)
    BY <1>21, <1>23
  <2>3. Len(W.op_arg_rec_) <= Len(W.op_arg_rec_)
    BY <1>5, <1>7, <1>23
  <2>4. \A k \in 1 .. Len(w) : W.op_arg_rec_[W.first[n + 1] + k] = w[k]
    BY <1>21, <1>23
  <2> QED
    BY <2>1, <2>2, <2>3, <2>4, <1>5, <1>20, <1>22 DEF WrittenAt
<1>26. \A i \in 1 .. Len(r) : WrittenAt(W, r, i)
  <2>1. \A i \in 1 .. Len(r) : i \in 1 .. n \/ i = n + 1
    BY <1>18, <1>19
  <2> QED
    BY <2>1, <1>24, <1>25
<1>27. Written(W, r)
  <2>1. W.first[1] = 0
    BY <1>8, <1>18, <1>21
  <2>2. W.num_var_rec_ = ins.res + 1 /\ W.num_var_rec_ \in Nat
    BY <1>4, <1>8, <1>10, <1>14
  <2>3. W.num_var_rec_ = r[Len(r)].res + 1
    BY <1>19, <2>2
  <2> QED
    BY <1>11, <1>12, <1>13, <1>15, <1>19, <1>20, <1>21, <1>22, <1>26, <2>1, <2>2, <2>3, Zenon
      DEF Written
<1> QED
  BY <1>1, <1>2, <1>27


(* The addresses of a sound tape do not fall.                              *)
LEMMA Rising ==
  ASSUME NEW s, Sound(s), NEW k \in 1 .. Len(s)
  PROVE  /\ s[k].res \in Nat /\ s[Len(s)].res \in Nat
         /\ s[k].res <= s[Len(s)].res
<1>1. s \in Seq(Instruction) /\ Len(s) \in Nat
  BY LenProperties DEF Sound
<1>2. \A i \in 1 .. Len(s) : s[i] \in Instruction /\ s[i].res \in Nat
  <2>1. \A i \in 1 .. Len(s) : s[i] \in Instruction
    BY <1>1
  <2> QED
    BY <2>1 DEF Instruction
<1>3. Len(s) \in 1 .. Len(s)
  BY <1>1
<1>4. CASE k = Len(s)
  BY <1>2, <1>3, <1>4
<1>5. CASE k # Len(s)
  <2>1. k \in 1 .. Len(s) - 1
    BY <1>1, <1>5
  <2>2. s[k].res + NumRes(s[Len(s)].op) <= s[Len(s)].res
    BY <1>3, <2>1 DEF Sound, Fits
  <2>3. NumRes(s[Len(s)].op) \in Nat
    BY DEF NumRes
  <2> QED
    BY <1>2, <1>3, <2>2, <2>3
<1> QED
  BY <1>4, <1>5

(* The arguments of ins that are variables are results of s.               *)
FromResults(s, ins) ==
  \A j \in DOMAIN ins.arg :
    ins.kind[j] = "v" => \E k \in 1 .. Len(s) : s[k].res = ins.arg[j]

(* One more instruction keeps a tape sound, and its words written.         *)
LEMMA AppendSound ==
  ASSUME NEW s, Sound(s), NEW V, Written(V, s),
         NEW ins \in Instruction, ins.op \notin {"Begin", "Inv"}, Named(ins),
         Len(ins.kind) = Len(ins.arg),
         ins.op \in Simple => Len(ins.kind) = 0,
         ins.op \in CondExp => Len(ins.kind) = 4,
         ins.res = s[Len(s)].res + NumRes(ins.op),
         FromResults(s, ins),
         NEW r, r = Append(s, ins)
  PROVE  Sound(r) /\ Written(PutInstruction(V, ins), r)
<1>1. s \in Seq(Instruction) /\ Len(s) \in Nat /\ Len(s) > Dim
  BY LenProperties DEF Sound
<1>2. r \in Seq(Instruction) /\ Extended(r, s, ins)
  BY <1>1, AppendIs, Zenon
<1>3. PICK n : n = Len(s)
  OBVIOUS
<1>4. n \in Nat /\ n > Dim /\ n > 0 /\ Dim \in Nat \ {0}
  BY <1>1, <1>3, VectorAssumption
<1>5. Len(r) = n + 1 /\ r[n + 1] = ins /\ \A k \in 1 .. n : r[k] = s[k]
  BY <1>2, <1>3 DEF Extended
<1>6. Fits(r, n, ins)
  <2>1. \A k \in 1 .. n : r[k].res + NumRes(ins.op) <= ins.res
    <3> SUFFICES ASSUME NEW k \in 1 .. n
                 PROVE  r[k].res + NumRes(ins.op) <= ins.res
      OBVIOUS
    <3>1. s[k].res \in Nat /\ s[n].res \in Nat /\ s[k].res <= s[n].res
      BY <1>3, Rising
    <3>2. r[k] = s[k] /\ ins.res = s[n].res + NumRes(ins.op) /\ NumRes(ins.op) \in Nat
      BY <1>3, <1>5 DEF NumRes
    <3> QED
      BY <3>1, <3>2
  <2>2. \A j \in DOMAIN ins.arg :
          ins.kind[j] = "v" => \E k \in 1 .. n : r[k].res = ins.arg[j]
    BY <1>3, <1>5 DEF FromResults
  <2> QED
    BY <2>1, <2>2 DEF Fits
<1>7. ASSUME NEW i \in 1 .. n
      PROVE  /\ r[i].op = "Begin" <=> i = 1
             /\ r[i].op = "Inv" <=> i \in 2 .. Dim + 1
             /\ Fits(r, i - 1, r[i])
  <2>1. /\ s[i].op = "Begin" <=> i = 1
        /\ s[i].op = "Inv" <=> i \in 2 .. Dim + 1
        /\ Fits(s, i - 1, s[i])
    BY <1>3 DEF Sound
  <2>2. r[i] = s[i] /\ \A k \in 1 .. i - 1 : r[k] = s[k]
    BY <1>4, <1>5
  <2>3. PICK x : x = s[i]
    OBVIOUS
  <2>4. Fits(s, i - 1, x) /\ r[i] = x
    BY <2>1, <2>2, <2>3
  <2>5. \A k \in 1 .. i - 1 : s[k].res + NumRes(x.op) <= x.res => r[k].res + NumRes(x.op) <= x.res
    BY <2>2
  <2>6. \A a : (\E k \in 1 .. i - 1 : s[k].res = a) => (\E k \in 1 .. i - 1 : r[k].res = a)
    BY <2>2
  <2>7. Fits(r, i - 1, x)
    BY <2>4, <2>5, <2>6, Zenon DEF Fits
  <2> QED
    BY <2>1, <2>2, <2>4, <2>7
<1>8. \A i \in 1 .. n + 1 :
        /\ r[i].op = "Begin" <=> i = 1
        /\ r[i].op = "Inv" <=> i \in 2 .. Dim + 1
        /\ Fits(r, i - 1, r[i])
  <2> SUFFICES ASSUME NEW i \in 1 .. n + 1
               PROVE  /\ r[i].op = "Begin" <=> i = 1
                      /\ r[i].op = "Inv" <=> i \in 2 .. Dim + 1
                      /\ Fits(r, i - 1, r[i])
    OBVIOUS
  <2>1. CASE i = n + 1
    <3>1. i - 1 = n /\ i # 1 /\ i \notin 2 .. Dim + 1 /\ r[i] = ins
      BY <1>4, <1>5, <2>1
    <3>2. Fits(r, i - 1, r[i])
      BY <1>6, <3>1
    <3>3. r[i].op # "Begin" /\ r[i].op # "Inv"
      BY <3>1
    <3> QED
      BY <3>1, <3>2, <3>3, Zenon
  <2>2. CASE i \in 1 .. n
    BY <1>7, <2>2, Zenon
  <2>3. i = n + 1 \/ i \in 1 .. n
    BY <1>4
  <2> QED
    BY <2>1, <2>2, <2>3, Zenon
<1>9. Sound(r)
  <2>1. Len(r) > Dim
    BY <1>4, <1>5
  <2> QED
    BY <1>2, <1>5, <1>8, <2>1 DEF Sound
<1>10. Written(PutInstruction(V, ins), r)
  <2>1. Len(s) > 0
    BY <1>3, <1>4
  <2> QED
    BY <1>1, <2>1, PutWritten
<1> QED
  BY <1>9, <1>10

-----------------------------------------------------------------------------

(* The instruction ins that Record adds to R for op and the operands s.    *)
InstructionFor(R, op, s, ins) ==
  /\ ins \in Instruction /\ ins.op = op
  /\ ins.res = R.num_var_rec_ + NumRes(op) - 1
  /\ Len(ins.kind) = Arity(op) /\ Len(ins.arg) = Arity(op)
  /\ \A j \in 1 .. Arity(op) :
       ins.kind[j] = "v" => Variable(s[j]) /\ ins.arg[j] = s[j].taddr_

LEMMA RecordShape ==
  ASSUME NEW R, Live(R), NEW op \in Recordable,
         NEW s \in Seq(AD), Len(s) = Arity(op),
         \A j \in DOMAIN s : s[j].taddr_ <= Len(R.den),
         NEW Q, Q = Record(R, op, s)
  PROVE  /\ Live(Q) /\ Grows(R, Q)
         /\ Q.num_var_rec_ = R.num_var_rec_ + NumRes(op)
         /\ \E ins : InstructionFor(R, op, s, ins) /\ Q.tape = Append(R.tape, ins)
<1> DEFINE R1 == PutOperand(R, s, 1)
           R2 == PutOperand(R1, s, 2)
           R3 == PutOperand(R2, s, 3)
           R4 == PutOperand(R3, s, 4)
           kind == [j \in DOMAIN s |-> IF Variable(s[j]) THEN "v" ELSE "p"]
           arg == [j \in DOMAIN s |-> Address(<<R1, R2, R3, R4>>[j], s[j])]
           ins == [op |-> op, kind |-> kind, arg |-> arg,
                   res |-> R4.num_var_rec_ + NumRes(op) - 1]
<1>1. Adds(R, Q, op, [u \in Point |-> ValuesOf(R, s, u)])
  <2>1. PICK v : v = [u \in Point |-> ValuesOf(R, s, u)]
    OBVIOUS
  <2>2. Adds(R, Q, op, v)
    BY <2>1, RecordLive
  <2> QED
    BY <2>1, <2>2
<1>2. Live(Q) /\ Grows(R, Q) /\ Len(Q.tape) = Len(R.tape) + 1
  BY <1>1 DEF Adds
<1>3. Live(R1) /\ R1.tape = R.tape /\ R1.den = R.den
  BY PutOperandLive
<1>4. Live(R2) /\ R2.tape = R.tape /\ R2.den = R.den
  <2> HIDE DEF R1
  <2> QED
    BY <1>3, PutOperandLive
<1>5. Live(R3) /\ R3.tape = R.tape /\ R3.den = R.den
  <2> HIDE DEF R2
  <2> QED
    BY <1>4, PutOperandLive
<1>6. Live(R4) /\ R4.tape = R.tape /\ R4.den = R.den
  <2> HIDE DEF R3
  <2> QED
    BY <1>5, PutOperandLive
<1> HIDE DEF R1, R2, R3, R4
<1>7. Q = Put(R4, op, kind, arg)
  BY DEF Record, R1, R2, R3, R4
<1>8. R4.num_var_rec_ = R.num_var_rec_ /\ R4 \in Recorder
  BY <1>6 DEF Live
<1> HIDE DEF kind, arg
<1>9. Q.tape = Append(R.tape, ins) /\ Q.num_var_rec_ = R.num_var_rec_ + NumRes(op)
  BY <1>6, <1>7, <1>8 DEF Put, Recorder
<1>10. ins \in Instruction
  <2>1. Q.tape \in Seq(Instruction) /\ R.tape \in Seq(Instruction)
    BY <1>2 DEF Live, Recorder
  <2>2. PICK i : i = ins
    OBVIOUS
  <2>3. Q.tape[Len(Q.tape)] = i
    BY <1>2, <1>9, <2>1, <2>2
  <2>4. Len(Q.tape) \in 1 .. Len(Q.tape)
    BY <1>2, <2>1, LenProperties
  <2> QED
    BY <2>1, <2>2, <2>3, <2>4
<1>11. DOMAIN s = 1 .. Arity(op) /\ Arity(op) \in Nat
  BY LenProperties
<1>12. kind = [j \in 1 .. Arity(op) |-> kind[j]] /\ arg = [j \in 1 .. Arity(op) |-> arg[j]]
  BY <1>11 DEF kind, arg
<1>13. Len(kind) = Arity(op) /\ Len(arg) = Arity(op)
  <2>1. PICK n : n = Arity(op)
    OBVIOUS
  <2> QED
    BY <1>11, <1>12, <2>1
<1>14. \A j \in 1 .. Arity(op) :
         kind[j] = "v" => Variable(s[j]) /\ arg[j] = s[j].taddr_
  BY <1>11 DEF kind, arg, Address
<1>15. InstructionFor(R, op, s, ins)
  BY <1>8, <1>10, <1>13, <1>14 DEF InstructionFor
<1> QED
  BY <1>2, <1>9, <1>15

-----------------------------------------------------------------------------

(* No instruction ends the tape. *)
Open(s) == \A i \in 1 .. Len(s) : s[i].op # "End"

(* r is s and one more instruction, which V gets the words of.             *)
Adding(V, s, r) ==
  /\ Sound(r) /\ Open(r)
  /\ Written(PutInstruction(V, r[Len(r)]), r)
  /\ Len(r) = Len(s) + 1
  /\ \A k \in 1 .. Len(s) : r[k] = s[k]

(* The addresses of the operands s are results of the tape. *)
Linked(s, tape) ==
  \A j \in DOMAIN s :
    Variable(s[j]) => \E k \in 1 .. Len(tape) : tape[k].res = s[j].taddr_

(* A live recorder can put its next instruction. *)
LEMMA NextAddress ==
  ASSUME NEW R, Live(R)
  PROVE  /\ R.tape \in Seq(Instruction) /\ Len(R.tape) \in Nat
         /\ R.num_var_rec_ = R.tape[Len(R.tape)].res + 1
         /\ R.num_var_rec_ \in Nat /\ R.tape[Len(R.tape)].res \in Nat
<1>1. /\ R \in Recorder /\ R.num_var_rec_ = Len(R.den) + 1
      /\ Len(R.tape) > 0 /\ R.tape[Len(R.tape)].res = Len(R.den)
  BY DEF Live
<1>2. R.tape \in Seq(Instruction) /\ R.den \in Seq([Point -> Num]) /\ R.num_var_rec_ \in Nat
  BY <1>1 DEF Recorder
<1>3. Len(R.tape) \in Nat /\ Len(R.den) \in Nat
  BY <1>2, LenProperties
<1> QED
  BY <1>1, <1>2, <1>3

LEMMA RecordAdds ==
  ASSUME NEW R, Live(R), NEW V, Sound(R.tape), Open(R.tape), Written(V, R.tape),
         NEW op \in Recordable,
         NEW s \in Seq(AD), Len(s) = Arity(op), Linked(s, R.tape),
         op = "Par" => Parameter(s[1]),
         \A j \in DOMAIN s : s[j].taddr_ <= Len(R.den),
         NEW Q, Q = Record(R, op, s)
  PROVE  /\ Adding(V, R.tape, Q.tape)
         /\ Q.tape[Len(Q.tape)].res = Q.num_var_rec_ - 1
<1>1. PICK ins : InstructionFor(R, op, s, ins) /\ Q.tape = Append(R.tape, ins)
  BY RecordShape
<1>2. Live(Q) /\ Q.num_var_rec_ = R.num_var_rec_ + NumRes(op)
  BY RecordShape
<1>3. PICK t : t = R.tape
  OBVIOUS
<1>4. PICK r : r = Append(t, ins)
  OBVIOUS
<1>5. /\ t \in Seq(Instruction) /\ Len(t) \in Nat
      /\ R.num_var_rec_ = t[Len(t)].res + 1
      /\ R.num_var_rec_ \in Nat /\ t[Len(t)].res \in Nat
  BY <1>3, NextAddress
<1>6. /\ ins \in Instruction /\ ins.op = op
      /\ ins.res = R.num_var_rec_ + NumRes(op) - 1
      /\ Len(ins.kind) = Arity(op) /\ Len(ins.arg) = Arity(op)
      /\ \A j \in 1 .. Arity(op) :
           ins.kind[j] = "v" => Variable(s[j]) /\ ins.arg[j] = s[j].taddr_
  BY <1>1 DEF InstructionFor
<1>7. NumRes(op) \in Nat
  BY DEF NumRes
<1>8. /\ op \notin {"Begin", "Inv"} /\ op \notin Simple
      /\ op \in CondExp => Arity(op) = 4
  BY UnaryAssumption DEF Simple, Recordable, Arity, Binary, Comparison, CondExp
<1>9. FromResults(t, ins)
  <2>1. DOMAIN ins.arg = 1 .. Arity(op) /\ DOMAIN s = 1 .. Arity(op)
    <3>1. ins.arg \in Seq(Nat)
      BY <1>6 DEF Instruction
    <3> QED
      BY <1>6, <3>1, LenProperties
  <2> QED
    BY <1>3, <1>6, <2>1 DEF FromResults, Linked
<1>10. ins.res = t[Len(t)].res + NumRes(ins.op)
  <2>1. PICK e : e = NumRes(op)
    OBVIOUS
  <2>2. PICK a : a = t[Len(t)].res
    OBVIOUS
  <2>3. e \in Nat /\ a \in Nat /\ R.num_var_rec_ = a + 1 /\ ins.res = R.num_var_rec_ + e - 1
    BY <1>5, <1>6, <1>7, <2>1, <2>2
  <2>4. ins.res = a + e
    BY <2>3
  <2> QED
    BY <1>6, <2>1, <2>2, <2>4
<1>11. Sound(r) /\ Written(PutInstruction(V, ins), r)
  <2>1. Sound(t) /\ Written(V, t)
    BY <1>3
  <2>2. Len(ins.kind) = Len(ins.arg) /\ ins.op \notin {"Begin", "Inv"}
        /\ (ins.op \in Simple => Len(ins.kind) = 0)
        /\ (ins.op \in CondExp => Len(ins.kind) = 4)
    BY <1>6, <1>8
  <2>3. Named(ins)
    <3>1. ins.kind \in Seq({"v", "p"}) /\ op = ins.op
      BY <1>6 DEF Instruction
    <3>2. CASE op = "Par"
      <4>1. Arity(op) = 1 /\ Plays!OperandKinds(op) = {<<"p">>}
        BY <3>2, UnaryAssumption DEF Arity, Plays!OperandKinds, Plays!Binary,
           Plays!Comparison, Binary, Comparison, CondExp
      <4>2. ins.kind[1] = "p" /\ Len(ins.kind) = 1
        BY <1>6, <3>1, <3>2, <4>1 DEF Parameter
      <4> QED
        BY <3>1, <4>1, <4>2 DEF Named
    <3>3. CASE op \in Unary
      <4>1. Arity(op) = 1 /\ Plays!OperandKinds(op) = [1 .. 1 -> {"v", "p"}]
        BY <3>3, UnaryAssumption DEF Arity, Plays!OperandKinds, Plays!Binary,
           Plays!Comparison, CondExp, Binary, Comparison
      <4> QED
        BY <1>6, <3>1, <4>1 DEF Named
    <3>4. CASE op \in Binary \union Comparison
      <4>1. Arity(op) = 2 /\ Plays!OperandKinds(op) = [1 .. 2 -> {"v", "p"}]
        BY <3>4, UnaryAssumption DEF Arity, Plays!OperandKinds, Plays!Binary,
           Plays!Comparison, CondExp, Binary, Comparison
      <4> QED
        BY <1>6, <3>1, <4>1 DEF Named
    <3> QED
      BY <3>1, <3>2, <3>3, <3>4 DEF Recordable, Named
  <2> QED
    BY <1>4, <1>6, <1>9, <1>10, <2>1, <2>2, <2>3, AppendSound
<1>12. Extended(r, t, ins)
  BY <1>4, <1>5, <1>6, AppendIs, Zenon
<1>13. Len(r) = Len(t) + 1 /\ r[Len(r)] = ins /\ \A k \in 1 .. Len(t) : r[k] = t[k]
  BY <1>12 DEF Extended
<1>14. Open(r)
  <2>1. \A k \in 1 .. Len(r) : k \in 1 .. Len(t) \/ k = Len(r)
    BY <1>5, <1>13
  <2>2. \A k \in 1 .. Len(t) : t[k].op # "End"
    BY <1>3 DEF Open
  <2>3. ins.op # "End"
    BY <1>6, <1>8 DEF Simple
  <2> QED
    BY <1>13, <2>1, <2>2, <2>3 DEF Open
<1>15. Adding(V, t, r)
  BY <1>11, <1>13, <1>14 DEF Adding
<1>16. ins.res = Q.num_var_rec_ - 1
  <2>1. ins.res = R.num_var_rec_ + NumRes(op) - 1
    BY <1>6
  <2>2. Q.num_var_rec_ = R.num_var_rec_ + NumRes(op)
    BY <1>2
  <2>3. PICK e, q, a : e = NumRes(op) /\ q = Q.num_var_rec_ /\ a = R.num_var_rec_
    OBVIOUS
  <2>4. e \in Nat /\ a \in Nat
    BY <1>5, <1>7, <2>3, Zenon
  <2>5. ins.res = a + (e - 1) /\ q = a + e
    BY <2>1, <2>2, <2>3, Zenon
  <2>6. ins.res = q - 1
    BY <2>4, <2>5
  <2> QED
    BY <2>3, <2>6, Zenon
<1> QED
  BY <1>1, <1>3, <1>4, <1>13, <1>15, <1>16

-----------------------------------------------------------------------------

(* What an operation does: nothing to the recorder, or Record.             *)
Keeps ==
  /\ Rec_' = Rec_ /\ recording' = recording
  /\ \A o \in Object :
       \/ object'[o].taddr_ = 0
       \/ \E q \in Object : object'[o].taddr_ = object[q].taddr_

Operand == {object[q] : q \in Object}

Puts(op, s) ==
  /\ recording /\ recording'
  /\ op \in Recordable \ {"Par"} /\ s \in Seq(Operand) /\ Len(s) = Arity(op)
  /\ Rec_' = Record(Rec_, op, s)
  /\ \A o \in Object :
       \/ object'[o] = object[o]
       \/ NumRes(op) > 0 /\ object'[o].taddr_ = Rec_'.num_var_rec_ - 1

LEMMA SetParameterKeeps ==
  ASSUME IInv, NEW r \in Object, NEW c, SetParameter(r, c)
  PROVE  Keeps
<1>1. /\ object \in [Object -> AD] /\ object' = [object EXCEPT ![r] = Param(c)]
      /\ Rec_' = Rec_ /\ recording' = recording
  BY DEF IInv, TypeOK, SetParameter
<1>2. \A o \in Object : object'[o] = IF o = r THEN Param(c) ELSE object[o]
  BY <1>1
<1>3. Param(c).taddr_ = 0
  BY DEF Param
<1> QED
  BY <1>1, <1>2, <1>3 DEF Keeps

LEMMA SetCopyKeeps ==
  ASSUME IInv, NEW r \in Object, NEW c, NEW a \in Object,
         SetCopy(r, c, object[a].taddr_)
  PROVE  Keeps
<1> DEFINE n == [value_ |-> c, taddr_ |-> object[a].taddr_]
<1>1. /\ object \in [Object -> AD] /\ object' = [object EXCEPT ![r] = n]
      /\ Rec_' = Rec_ /\ recording' = recording
  BY DEF IInv, TypeOK, SetCopy
<1>2. \A o \in Object : object'[o] = IF o = r THEN n ELSE object[o]
  BY <1>1
<1>3. n.taddr_ = object[a].taddr_
  OBVIOUS
<1> HIDE DEF n
<1> QED
  BY <1>1, <1>2, <1>3 DEF Keeps

LEMMA SetResultPuts ==
  ASSUME IInv, recording, NEW r \in Object, NEW c, NEW op \in Recordable \ Comparison,
         op # "Par", NEW s \in Seq(Operand), Len(s) = Arity(op), SetResult(r, c, op, s)
  PROVE  Puts(op, s)
<1> DEFINE n == [value_ |-> c, taddr_ |-> Rec_'.num_var_rec_ - 1]
<1>1. /\ object \in [Object -> AD] /\ object' = [object EXCEPT ![r] = n]
      /\ Rec_' = Record(Rec_, op, s) /\ recording' = recording
  BY DEF IInv, TypeOK, SetResult
<1>2. \A o \in Object : object'[o] = IF o = r THEN n ELSE object[o]
  BY <1>1
<1>3. n.taddr_ = Rec_'.num_var_rec_ - 1
  OBVIOUS
<1> HIDE DEF n
<1>4. NumRes(op) > 0
  BY UnaryAssumption DEF NumRes, Recordable, Binary, Comparison, CondExp, Optimized
<1> QED
  BY <1>1, <1>2, <1>3, <1>4 DEF Puts

LEMMA OperateShape ==
  ASSUME IInv, Operate
  PROVE  Keeps \/ \E op, s : Puts(op, s)
<1>1. \A q \in Object : object[q] \in Operand
  BY DEF Operand
<1>2. CASE \E r \in Object, c \in Num : AssignBase(r, c)
  BY <1>2, SetParameterKeeps DEF AssignBase
<1>3. CASE \E r \in Object, a \in Object : Copy(r, a)
  BY <1>3, SetCopyKeeps DEF Copy
<1>4. CASE \E r \in Object, op \in Binary \cap Ops, a, b \in Object : BinaryOp(op, r, a, b)
  <2>1. PICK r \in Object, op \in Binary, a \in Object, b \in Object :
          BinaryOp(op, r, a, b)
    BY <1>4
  <2>2. PICK c : c = Calc(op, <<object[a].value_, object[b].value_>>)
    OBVIOUS
  <2>3. op \in Recordable \ Comparison /\ op # "Par" /\ Arity(op) = 2
    BY BinaryArity DEF Binary
  <2>4. \/ SetParameter(r, c)
        \/ SetCopy(r, c, object[a].taddr_)
        \/ SetCopy(r, c, object[b].taddr_)
        \/ /\ Variable(object[a]) \/ Variable(object[b])
           /\ \/ SetResult(r, c, op, <<object[a], object[b]>>)
              \/ SetResult(r, c, op, <<object[b], object[a]>>)
    BY <2>1, <2>2 DEF BinaryOp, InOrder
  <2>5. CASE SetParameter(r, c) \/ SetCopy(r, c, object[a].taddr_)
             \/ SetCopy(r, c, object[b].taddr_)
    BY <2>5, SetParameterKeeps, SetCopyKeeps
  <2>6. CASE /\ Variable(object[a]) \/ Variable(object[b])
             /\ \/ SetResult(r, c, op, <<object[a], object[b]>>)
                \/ SetResult(r, c, op, <<object[b], object[a]>>)
    <3>1. recording
      BY <2>6, RecordingIfVariable
    <3>2. PICK s : /\ s \in {<<object[a], object[b]>>, <<object[b], object[a]>>}
                   /\ SetResult(r, c, op, s)
      BY <2>6
    <3>3. s \in Seq(Operand) /\ Len(s) = 2
      <4>1. object[a] \in Operand /\ object[b] \in Operand
        BY <1>1
      <4>2. CASE s = <<object[a], object[b]>>
        BY <4>1, <4>2
      <4>3. CASE s = <<object[b], object[a]>>
        BY <4>1, <4>3
      <4> QED
        BY <3>2, <4>2, <4>3
    <3>4. Puts(op, s)
      BY <2>3, <3>1, <3>2, <3>3, SetResultPuts
    <3> QED
      BY <3>4, Zenon
  <2> QED
    BY <2>4, <2>5, <2>6
<1>5. CASE \E r \in Object, op \in Unary \cap Ops, a \in Object : UnaryOp(op, r, a)
  <2>1. PICK r \in Object, op \in Unary, a \in Object : UnaryOp(op, r, a)
    BY <1>5
  <2>2. PICK c : c = Calc(op, <<object[a].value_>>)
    OBVIOUS
  <2>3. op \in Recordable \ Comparison /\ op # "Par" /\ Arity(op) = 1
    BY UnaryAssumption DEF Recordable, Arity
  <2>4. \/ SetParameter(r, c)
        \/ Variable(object[a]) /\ SetResult(r, c, op, <<object[a]>>)
    BY <2>1, <2>2 DEF UnaryOp
  <2>5. CASE Variable(object[a]) /\ SetResult(r, c, op, <<object[a]>>)
    <3>1. recording
      BY <2>5, RecordingIfVariable
    <3>2. PICK s : s = <<object[a]>>
      OBVIOUS
    <3>3. s \in Seq(Operand) /\ Len(s) = 1
      <4>1. object[a] \in Operand
        BY <1>1
      <4> QED
        BY <3>2, <4>1
    <3>4. Puts(op, s)
      BY <2>3, <2>5, <3>1, <3>2, <3>3, SetResultPuts
    <3> QED
      BY <3>4, Zenon
  <2> QED
    BY <2>4, <2>5, SetParameterKeeps
<1>6. CASE \E r \in Object, cop \in CondExp \cap Ops, l, m, t, e \in Object :
             CondExpOp(cop, r, l, m, t, e)
  <2>1. PICK r \in Object, cop \in CondExp, l \in Object, m \in Object,
             t \in Object, e \in Object : CondExpOp(cop, r, l, m, t, e)
    BY <1>6
  <2>2. cop \in Recordable \ Comparison /\ cop # "Par" /\ Arity(cop) = 4
    BY UnaryAssumption DEF Recordable, Arity, Binary, Comparison, CondExp
  <2>3. PICK s : s = <<object[l], object[m], object[t], object[e]>>
    OBVIOUS
  <2>4. \/ \E c : SetCopy(r, c, object[t].taddr_)
        \/ \E c : SetCopy(r, c, object[e].taddr_)
        \/ /\ Variable(object[l]) \/ Variable(object[m])
           /\ \E c : SetResult(r, c, cop, s)
    BY <2>1, <2>3 DEF CondExpOp
  <2>5. CASE /\ Variable(object[l]) \/ Variable(object[m])
             /\ \E c : SetResult(r, c, cop, s)
    <3>1. recording
      BY <2>5, RecordingIfVariable
    <3>2. s \in Seq(Operand) /\ Len(s) = 4
      <4>1. /\ object[l] \in Operand /\ object[m] \in Operand
            /\ object[t] \in Operand /\ object[e] \in Operand
        BY <1>1
      <4> QED
        BY <2>3, <4>1
    <3>3. Puts(cop, s)
      BY <2>2, <2>5, <3>1, <3>2, SetResultPuts
    <3> QED
      BY <3>3, Zenon
  <2> QED
    BY <2>4, <2>5, SetCopyKeeps
<1>7. CASE \E cop \in Relational \cap Ops, a, b \in Object : CompareOp(cop, a, b)
  <2>1. PICK cop \in Relational, a \in Object, b \in Object : CompareOp(cop, a, b)
    BY <1>7
  <2>2. PICK c : c = Outcome(cop, object[a], object[b])
    OBVIOUS
  <2>3. PICK s : s = ComparisonOperands(c)
    OBVIOUS
  <2>4. c[1] \in Comparison /\ s \in {<<object[a], object[b]>>, <<object[b], object[a]>>}
    BY <2>2, <2>3, OutcomeHolds
  <2>5. /\ Variable(object[a]) \/ Variable(object[b])
        /\ Rec_' = Record(Rec_, c[1], s)
        /\ recording' = recording /\ object' = object
    BY <2>1, <2>2, <2>3 DEF CompareOp
  <2>6. recording
    BY <2>5, RecordingIfVariable
  <2>7. s \in Seq(Operand) /\ Len(s) = 2
    <3>1. object[a] \in Operand /\ object[b] \in Operand
      BY <1>1
    <3>2. CASE s = <<object[a], object[b]>>
      BY <3>1, <3>2
    <3>3. CASE s = <<object[b], object[a]>>
      BY <3>1, <3>3
    <3> QED
      BY <2>4, <3>2, <3>3
  <2>8. c[1] \in Recordable \ {"Par"} /\ Arity(c[1]) = 2
    BY <2>4 DEF Recordable, Arity, Comparison
  <2>9. Puts(c[1], s)
    BY <2>5, <2>6, <2>7, <2>8 DEF Puts
  <2> QED
    BY <2>9, Zenon
<1> QED
  BY <1>2, <1>3, <1>4, <1>5, <1>6, <1>7 DEF Operate

-----------------------------------------------------------------------------

(* The vectors say what the tape says, and variables are its results.      *)
Ready(V, tape, objs) ==
  /\ Sound(tape) /\ Open(tape) /\ Written(V, tape)
  /\ \A o \in Object :
       Variable(objs[o]) => \E k \in 1 .. Len(tape) : tape[k].res = objs[o].taddr_

(* The independent variables have the first addresses. *)
Inputs(R) ==
  /\ Dim <= Len(R.den)
  /\ \A j \in 1 .. Dim, u \in Point : R.den[j][u] = u[j]

PInv ==
  /\ IInv
  /\ recording => Ready(vec, Rec_.tape, object) /\ Inputs(Rec_)

LEMMA KeepsReady ==
  ASSUME PInv, IInv', Keeps, recording', vec' = vec
  PROVE  Ready(vec', Rec_'.tape, object')
<1>1. Ready(vec, Rec_.tape, object) /\ Rec_' = Rec_
  BY DEF PInv, Keeps
<1>2. \A o \in Object : Variable(object'[o]) =>
         \E q \in Object : Variable(object[q]) /\ object'[o].taddr_ = object[q].taddr_
  BY DEF Keeps, Variable
<1>3. \A o \in Object : Variable(object'[o]) =>
         \E k \in 1 .. Len(Rec_.tape) : Rec_.tape[k].res = object'[o].taddr_
  BY <1>1, <1>2 DEF Ready
<1> QED
  BY <1>1, <1>3 DEF Ready

(* What Record is called with.                                             *)
LEMMA PutsOperands ==
  ASSUME IInv, NEW op, NEW s, Puts(op, s)
  PROVE  /\ recording /\ op \in Recordable /\ op # "Par" /\ Len(s) = Arity(op)
         /\ Rec_' = Record(Rec_, op, s) /\ Live(Rec_)
         /\ s \in Seq(AD) /\ \A j \in DOMAIN s : s[j].taddr_ <= Len(Rec_.den)
         /\ \A j \in DOMAIN s : \E q \in Object : s[j] = object[q]
<1>1. /\ recording /\ op \in Recordable /\ op # "Par"
      /\ s \in Seq(Operand) /\ Len(s) = Arity(op)
      /\ Rec_' = Record(Rec_, op, s)
  BY DEF Puts
<1>2. Live(Rec_)
  BY <1>1 DEF IInv
<1>3. \A q \in Object : object[q] \in AD /\ object[q].taddr_ <= Len(Rec_.den)
  BY ObjectFunction
<1>4. \A j \in DOMAIN s : \E q \in Object : s[j] = object[q]
  BY <1>1 DEF Operand
<1>5. \A j \in DOMAIN s : s[j] \in AD /\ s[j].taddr_ <= Len(Rec_.den)
  BY <1>3, <1>4
<1>6. s \in Seq(AD)
  <2>1. s \in [1 .. Len(s) -> AD] /\ Len(s) \in Nat
    BY <1>1, <1>5
  <2> QED
    BY <2>1
<1> QED
  BY <1>1, <1>2, <1>4, <1>5, <1>6

(* The recorder only grows.                                                *)
LEMMA PutsGrow ==
  ASSUME IInv, NEW op, NEW s, Puts(op, s)
  PROVE  Grows(Rec_, Rec_')
<1>1. PICK v : v = [u \in Point |-> ValuesOf(Rec_, s, u)]
  OBVIOUS
<1>2. /\ op \in Recordable /\ Live(Rec_) /\ Rec_' = Record(Rec_, op, s)
      /\ s \in Seq(AD) /\ Len(s) = Arity(op)
      /\ \A j \in DOMAIN s : s[j].taddr_ <= Len(Rec_.den)
  BY PutsOperands
<1>3. Adds(Rec_, Record(Rec_, op, s), op, v)
  BY <1>1, <1>2, RecordLive
<1> QED
  BY <1>2, <1>3 DEF Adds

(* The independent variables keep their addresses.                         *)
LEMMA InputsKept ==
  ASSUME NEW R, NEW Q, Inputs(R), Grows(R, Q), R \in Recorder, Q \in Recorder
  PROVE  Inputs(Q)
<1>1. Len(R.den) \in Nat /\ Len(Q.den) \in Nat /\ Dim \in Nat
  BY LenProperties, VectorAssumption DEF Recorder
<1>2. Dim <= Len(R.den) /\ Len(R.den) <= Len(Q.den)
  BY DEF Inputs, Grows
<1>3. \A j \in 1 .. Dim : Q.den[j] = R.den[j]
  BY <1>1, <1>2 DEF Grows
<1> QED
  BY <1>1, <1>2, <1>3 DEF Inputs

LEMMA PutsReady ==
  ASSUME PInv, NEW op, NEW s, Puts(op, s),
         vec' = IF Rec_'.tape = Rec_.tape THEN vec
                ELSE PutInstruction(vec, Rec_'.tape[Len(Rec_'.tape)])
  PROVE  Ready(vec', Rec_'.tape, object')
<1>1. IInv
  BY DEF PInv
<1>2. Live(Rec_) /\ Ready(vec, Rec_.tape, object)
  BY <1>1, PutsOperands DEF PInv
<1>3. \A j \in DOMAIN s : \E q \in Object : s[j] = object[q]
  BY <1>1, PutsOperands
<1>4. /\ recording /\ op \in Recordable /\ op # "Par" /\ Len(s) = Arity(op)
      /\ Rec_' = Record(Rec_, op, s)
      /\ s \in Seq(AD) /\ \A j \in DOMAIN s : s[j].taddr_ <= Len(Rec_.den)
  BY <1>1, PutsOperands
<1>6. Linked(s, Rec_.tape)
  BY <1>2, <1>3 DEF Linked, Ready
<1>7. PICK Q : Q = Rec_'
  OBVIOUS
<1>8. Adding(vec, Rec_.tape, Q.tape) /\ Q.tape[Len(Q.tape)].res = Q.num_var_rec_ - 1
  <2>1. Sound(Rec_.tape) /\ Open(Rec_.tape) /\ Written(vec, Rec_.tape)
    BY <1>2 DEF Ready
  <2> QED
    BY <1>2, <1>4, <1>6, <1>7, <2>1, RecordAdds
<1>9. Len(Rec_.tape) \in Nat
  BY <1>2, NextAddress
<1>10. Q.tape # Rec_.tape
  BY <1>8, <1>9 DEF Adding
<1>11. Sound(Q.tape) /\ Open(Q.tape) /\ Written(vec', Q.tape)
  BY <1>7, <1>8, <1>10 DEF Adding
<1>12. \A o \in Object : Variable(object'[o]) =>
          \E k \in 1 .. Len(Q.tape) : Q.tape[k].res = object'[o].taddr_
  <2> SUFFICES ASSUME NEW o \in Object, Variable(object'[o])
               PROVE  \E k \in 1 .. Len(Q.tape) : Q.tape[k].res = object'[o].taddr_
    OBVIOUS
  <2>1. /\ Len(Q.tape) = Len(Rec_.tape) + 1
        /\ \A k \in 1 .. Len(Rec_.tape) : Q.tape[k] = Rec_.tape[k]
    BY <1>8 DEF Adding
  <2>2. CASE object'[o] = object[o]
    <3>1. PICK k \in 1 .. Len(Rec_.tape) : Rec_.tape[k].res = object[o].taddr_
      BY <1>2, <2>2 DEF Ready
    <3>2. k \in 1 .. Len(Q.tape)
      BY <1>9, <2>1
    <3> QED
      BY <2>1, <2>2, <3>1, <3>2
  <2>3. CASE object'[o].taddr_ = Q.num_var_rec_ - 1
    <3>1. Len(Q.tape) \in 1 .. Len(Q.tape)
      BY <1>9, <2>1
    <3> QED
      BY <1>8, <2>3, <3>1
  <2> QED
    BY <1>7, <2>2, <2>3 DEF Puts
<1> QED
  BY <1>7, <1>11, <1>12 DEF Ready

(* The vectors after Independent. *)
LEMMA BeginReady ==
  ASSUME PInv, Begin, IInv'
  PROVE  Ready(vec', Rec_'.tape, object')
<1>1. PICK x \in Vector : Independent(x)
  BY DEF Begin
<1> DEFINE n == Dim + 1
<1>2. Dim \in Nat \ {0} /\ x \in [1 .. Dim -> Object] /\ n \in Nat
  BY VectorAssumption
<1>3. PICK t : t = Rec_'.tape
  OBVIOUS
<1>4. PICK V : V = vec'
  OBVIOUS
<1>5. t = [i \in 1 .. n |-> [op |-> IF i = 1 THEN "Begin" ELSE "Inv",
                             kind |-> <<>>, arg |-> <<>>, res |-> i - 1]]
  BY <1>1, <1>3 DEF Independent, PInv, IInv, TypeOK, Recorder
<1>6. Words([op |-> "Begin"]) = <<0>>
  BY DEF Words, CondExp
<1>7. /\ V.op_rec_ = [i \in 1 .. n |->
                       [op |-> IF i = 1 THEN "Begin" ELSE "Inv", kind |-> <<>>]]
      /\ V.op_arg_rec_ = <<0>>
      /\ V.num_var_rec_ = n
      /\ V.first = [i \in 1 .. n |-> IF i = 1 THEN 0 ELSE 1]
      /\ V.last = [i \in 1 .. n |-> i - 1]
  <2>1. Len(Words([op |-> "Begin"])) = 1
    BY <1>6
  <2> QED
    BY <1>4, <1>6, <2>1 DEF Begin
<1>8. ASSUME NEW i \in 1 .. n
      PROVE  /\ t[i] \in Instruction /\ t[i].res = i - 1
             /\ t[i].op = IF i = 1 THEN "Begin" ELSE "Inv"
             /\ t[i].kind = <<>> /\ t[i].arg = <<>>
  BY <1>2, <1>5 DEF Instruction, OpCode
<1>9. t \in Seq(Instruction) /\ Len(t) = n
  <2>1. t \in [1 .. n -> Instruction]
    BY <1>5, <1>8
  <2> QED
    BY <1>2, <2>1
<1>10. "Begin" \notin CondExp /\ "Inv" \notin CondExp /\ NumRes("Begin") = 1 /\ NumRes("Inv") = 1
  BY UnaryAssumption DEF CondExp, NumRes, Comparison
<1>11. Sound(t)
  <2>1. ASSUME NEW i \in 1 .. n
        PROVE  Fits(t, i - 1, t[i])
    <3>1. \A k \in 1 .. i - 1 : t[k].res + NumRes(t[i].op) <= t[i].res
      <4> SUFFICES ASSUME NEW k \in 1 .. i - 1
                   PROVE  t[k].res + NumRes(t[i].op) <= t[i].res
        OBVIOUS
      <4>1. k \in 1 .. n
        BY <1>2
      <4>2. t[k].res = k - 1 /\ t[i].res = i - 1 /\ NumRes(t[i].op) = 1
        BY <1>8, <1>10, <4>1
      <4> QED
        BY <1>2, <4>2
    <3> QED
      BY <1>8, <1>10, <3>1 DEF Fits
  <2>2. \A i \in 1 .. n :
          /\ t[i].op = "Begin" <=> i = 1
          /\ t[i].op = "Inv" <=> i \in 2 .. Dim + 1
    BY <1>2, <1>8
  <2> QED
    <3>1. t \in Seq(Instruction) /\ Len(t) = n /\ Len(t) > Dim
      BY <1>2, <1>9
    <3>2. \A i \in 1 .. Len(t) :
            /\ t[i].op = "Begin" <=> i = 1
            /\ t[i].op = "Inv" <=> i \in 2 .. Dim + 1
            /\ Fits(t, i - 1, t[i])
      BY <2>1, <2>2, <3>1, Zenon
    <3> QED
      BY <3>1, <3>2, Zenon DEF Sound
<1>12. Open(t)
  BY <1>8, <1>9 DEF Open
<1>13. ASSUME NEW i \in 1 .. n
       PROVE  /\ OpCodeOf(t[i]) = [op |-> t[i].op, kind |-> <<>>]
              /\ i = 1 => Words(t[i]) = <<0>>
              /\ i # 1 => Words(t[i]) = <<>>
  BY <1>8, <1>10 DEF OpCodeOf, Words
<1>14. ASSUME NEW i \in 1 .. n
       PROVE  WrittenAt(V, t, i)
  <2>1. /\ V.op_rec_[i] = OpCodeOf(t[i]) /\ V.last[i] = t[i].res
        /\ V.first[i] = (IF i = 1 THEN 0 ELSE 1)
        /\ Len(V.op_arg_rec_) = 1
    BY <1>7, <1>8, <1>13
  <2>2. i # n => V.first[i + 1] = 1
    BY <1>2, <1>7
  <2>3. CASE i = 1
    <3>0. Words(t[i]) = <<0>>
      BY <1>13, <2>3, Zenon
    <3>1. Len(Words(t[i])) = 1 /\ Words(t[i])[1] = 0
      BY <3>0
    <3>2. V.first[i] = 0 /\ V.op_arg_rec_[1] = 0
      BY <1>7, <2>1, <2>3
    <3>3. V.first[i] + Len(Words(t[i]))
            = IF i = Len(t) THEN Len(V.op_arg_rec_) ELSE V.first[i + 1]
      BY <1>9, <2>1, <2>2, <3>1, <3>2
    <3>4. \A k \in 1 .. Len(Words(t[i])) :
            V.op_arg_rec_[V.first[i] + k] = Words(t[i])[k]
      BY <3>1, <3>2
    <3> QED
      BY <2>1, <3>1, <3>2, <3>3, <3>4 DEF WrittenAt
  <2>4. CASE i # 1
    <3>0. Words(t[i]) = <<>>
      BY <1>13, <2>4, Zenon
    <3>1. Len(Words(t[i])) = 0
      BY <3>0
    <3>2. V.first[i] = 1
      BY <2>1, <2>4
    <3>3. V.first[i] + Len(Words(t[i]))
            = IF i = Len(t) THEN Len(V.op_arg_rec_) ELSE V.first[i + 1]
      BY <1>9, <2>1, <2>2, <3>1, <3>2
    <3> QED
      BY <2>1, <3>1, <3>2, <3>3 DEF WrittenAt
  <2> QED
    BY <2>3, <2>4
<1>15. Written(V, t)
  <2>1. V.op_rec_ \in Seq(Codes) /\ Len(V.op_rec_) = n
    <3>1. \A i \in 1 .. n : V.op_rec_[i] \in Codes
      <4>1. <<>> \in Seq({"v", "p"})
        OBVIOUS
      <4>2. \A o \in {"Begin", "Inv"} : [op |-> o, kind |-> <<>>] \in Codes
        BY <4>1, <1>10, UnaryAssumption DEF Codes, Plays!OpCodeRec, Plays!OpCode,
           Plays!CondExp, CondExp, Plays!OperandKinds, Plays!Binary, Plays!Comparison
      <4> QED
        BY <1>7, <4>2
    <3>2. V.op_rec_ \in [1 .. n -> Codes]
      BY <1>7, <3>1
    <3> QED
      BY <1>2, <3>2
  <2>2. V.first \in Seq(Nat) /\ Len(V.first) = n
    BY <1>2, <1>7
  <2>3. V.last \in Seq(Nat) /\ Len(V.last) = n
    <3>1. V.last \in [1 .. n -> Nat]
      BY <1>2, <1>7
    <3> QED
      BY <1>2, <3>1
  <2>4. V.op_arg_rec_ \in Seq(Nat) /\ V.num_var_rec_ = n /\ V.first[1] = 0
    BY <1>2, <1>7
  <2>5. V.num_var_rec_ = t[Len(t)].res + 1
    BY <1>2, <1>8, <1>9, <2>4
  <2>6. \A i \in 1 .. Len(t) : WrittenAt(V, t, i)
    BY <1>9, <1>14
  <2> QED
    BY <1>2, <1>9, <2>1, <2>2, <2>3, <2>4, <2>5, <2>6, Zenon DEF Written
<1>16. \A o \in Object : Variable(object'[o]) =>
          \E k \in 1 .. n : t[k].res = object'[o].taddr_
  <2> SUFFICES ASSUME NEW o \in Object, Variable(object'[o])
               PROVE  \E k \in 1 .. n : t[k].res = object'[o].taddr_
    OBVIOUS
  <2>1. /\ object'[o].taddr_ \in 1 .. Len(Rec_'.den)
        /\ Rec_'.den \in Seq([Point -> Num])
    BY DEF IInv, ValuesAgree, TypeOK, Recorder
  <2>2. Len(Rec_'.den) = Dim
    <3>1. Rec_'.num_var_rec_ = n /\ recording'
      BY <1>1 DEF Independent, PInv, IInv, TypeOK, Recorder
    <3>2. Rec_'.num_var_rec_ = Len(Rec_'.den) + 1
      BY <3>1 DEF IInv, TypeOK
    <3>3. Len(Rec_'.den) \in Nat
      BY <2>1, LenProperties
    <3> QED
      BY <1>2, <3>1, <3>2, <3>3
  <2>3. PICK a : a = object'[o].taddr_
    OBVIOUS
  <2>4. a + 1 \in 1 .. n /\ (a + 1) - 1 = a
    <3>1. a \in 1 .. Dim
      BY <2>1, <2>2, <2>3
    <3> QED
      BY <1>2, <3>1
  <2> HIDE DEF n
  <2>5. t[a + 1].res = (a + 1) - 1
    BY <1>8, <2>4
  <2> QED
    BY <2>3, <2>4, <2>5
<1> QED
  BY <1>3, <1>4, <1>9, <1>11, <1>12, <1>15, <1>16 DEF Ready

-----------------------------------------------------------------------------

(* Flags say again which operands are variables. *)
LEMMA KindsOfFlags ==
  ASSUME NEW kind \in Seq({"v", "p"}), Len(kind) = 4
  PROVE  Plays!Kinds(Flags(kind), 4) = kind
<1>1. \A k \in 1 .. 4 : kind[k] \in {"v", "p"}
  BY ElementOfSeq, Zenon
<1>2. PICK a, b, c, d : /\ a = IF kind[1] = "v" THEN 1 ELSE 0
                        /\ b = IF kind[2] = "v" THEN 2 ELSE 0
                        /\ c = IF kind[3] = "v" THEN 4 ELSE 0
                        /\ d = IF kind[4] = "v" THEN 8 ELSE 0
  OBVIOUS
<1>3. Flags(kind) = a + b + c + d
  BY <1>2 DEF Flags, Plays!Flag
<1>4. PICK n : n = Flags(kind)
  OBVIOUS
<1>5. a \in {0, 1} /\ b \in {0, 2} /\ c \in {0, 4} /\ d \in {0, 8}
  BY <1>2
<1>6. /\ (n \div 1) % 2 = 1 <=> a = 1
      /\ (n \div 2) % 2 = 1 <=> b = 2
      /\ (n \div 4) % 2 = 1 <=> c = 4
      /\ (n \div 8) % 2 = 1 <=> d = 8
  <2>1. n = a + b + c + d
    BY <1>3, <1>4
  <2> QED
    BY <1>5, <2>1
<1>7. Plays!Kinds(n, 4) = [k \in 1 .. 4 |->
        IF (n \div Plays!Flag[k]) % 2 = 1 THEN "v" ELSE "p"]
  BY DEF Plays!Kinds
<1>8. Plays!Flag[1] = 1 /\ Plays!Flag[2] = 2 /\ Plays!Flag[3] = 4 /\ Plays!Flag[4] = 8
  BY DEF Plays!Flag
<1>9. /\ (n \div Plays!Flag[1]) % 2 = 1 <=> kind[1] = "v"
      /\ (n \div Plays!Flag[2]) % 2 = 1 <=> kind[2] = "v"
      /\ (n \div Plays!Flag[3]) % 2 = 1 <=> kind[3] = "v"
      /\ (n \div Plays!Flag[4]) % 2 = 1 <=> kind[4] = "v"
  <2>1. (a = 1 <=> kind[1] = "v") /\ (b = 2 <=> kind[2] = "v")
        /\ (c = 4 <=> kind[3] = "v") /\ (d = 8 <=> kind[4] = "v")
    BY <1>2
  <2> QED
    BY <1>6, <1>8, <2>1, Zenon
<1>10. PICK K : K = Plays!Kinds(n, 4)
  OBVIOUS
<1>11. \A k \in 1 .. 4 : K[k] = kind[k]
  <2>1. \A k \in 1 .. 4 : K[k] = IF (n \div Plays!Flag[k]) % 2 = 1 THEN "v" ELSE "p"
    BY <1>7, <1>10, Zenon
  <2>2. /\ K[1] = IF (n \div Plays!Flag[1]) % 2 = 1 THEN "v" ELSE "p"
        /\ K[2] = IF (n \div Plays!Flag[2]) % 2 = 1 THEN "v" ELSE "p"
        /\ K[3] = IF (n \div Plays!Flag[3]) % 2 = 1 THEN "v" ELSE "p"
        /\ K[4] = IF (n \div Plays!Flag[4]) % 2 = 1 THEN "v" ELSE "p"
    <3>1. 1 \in 1 .. 4 /\ 2 \in 1 .. 4 /\ 3 \in 1 .. 4 /\ 4 \in 1 .. 4
      OBVIOUS
    <3> QED
      BY <2>1, <3>1, Zenon
  <2>3. /\ K[1] = IF kind[1] = "v" THEN "v" ELSE "p"
        /\ K[2] = IF kind[2] = "v" THEN "v" ELSE "p"
        /\ K[3] = IF kind[3] = "v" THEN "v" ELSE "p"
        /\ K[4] = IF kind[4] = "v" THEN "v" ELSE "p"
    BY <1>9, <2>2, Zenon
  <2>4. K[1] = kind[1] /\ K[2] = kind[2] /\ K[3] = kind[3] /\ K[4] = kind[4]
    BY <1>1, <2>3
  <2>5. \A k \in 1 .. 4 : k = 1 \/ k = 2 \/ k = 3 \/ k = 4
    OBVIOUS
  <2> QED
    BY <2>4, <2>5, Zenon
<1>12. K = [k \in 1 .. 4 |-> K[k]] /\ kind = [k \in 1 .. 4 |-> kind[k]]
  <2>1. K = [k \in 1 .. 4 |-> K[k]]
    BY <1>7, <1>10
  <2>2. kind = [k \in 1 .. 4 |-> kind[k]]
    OBVIOUS
  <2> QED
    BY <2>1, <2>2
<1>13. K = kind
  BY <1>11, <1>12
<1> QED
  BY <1>4, <1>10, <1>13

(* The comparison of a conditional expression is found under its number.   *)
LEMMA NumberOf ==
  ASSUME NEW cop \in CondExp
  PROVE  Number(cop) \in Nat /\ Plays!CompareOp[Number(cop) + 1] = cop
<1>1. \E k \in 1 .. 5 : Plays!CompareOp[k] = cop
  BY DEF CondExp, Plays!CompareOp
<1>2. PICK c : c = CHOOSE k \in 1 .. 5 : Plays!CompareOp[k] = cop
  OBVIOUS
<1>3. c \in 1 .. 5 /\ Plays!CompareOp[c] = cop
  BY <1>1, <1>2
<1>4. Number(cop) = c - 1
  BY <1>2 DEF Number
<1>5. c - 1 \in Nat /\ (c - 1) + 1 = c
  BY <1>3
<1> QED
  BY <1>3, <1>4, <1>5

(* What the tables say of an op code is what its instruction was put with. *)
LEMMA CodeIs ==
  ASSUME NEW ins \in Instruction, Len(ins.kind) = Len(ins.arg),
         ins.op \in CondExp => Len(ins.kind) = 4,
         NEW code, code = OpCodeOf(ins)
  PROVE  /\ code.op \notin {"CSum", "CSkip"}
         /\ code.op = "CExp" <=> ins.op \in CondExp
         /\ ins.op \notin CondExp => code.op = ins.op /\ code.kind = ins.kind
         /\ \A x \in Simple : code.op = x <=> ins.op = x
         /\ Plays!NumRes(code.op) = NumRes(ins.op)
         /\ Plays!NumArg(code) = Len(Words(ins))
<1>1. ins.op \in OpCode /\ ins.op \notin {"CSum", "CSkip", "CExp"}
  <2>1. ins.op \in OpCode
    BY DEF Instruction
  <2> QED
    BY <2>1, UnaryAssumption DEF OpCode, Optimized, Binary, Comparison, CondExp
<1>2. /\ code.op = (IF ins.op \in CondExp THEN "CExp" ELSE ins.op)
      /\ ins.op \notin CondExp => code.kind = ins.kind
  BY DEF OpCodeOf
<1>3. \A x \in Simple : code.op = x <=> ins.op = x
  BY <1>1, <1>2 DEF Simple, CondExp
<1>4. Plays!NumRes(code.op) = NumRes(ins.op)
  <2>1. "CExp" \notin Unary /\ CondExp \cap Unary = {}
    BY UnaryAssumption
  <2>2. CASE ins.op \in CondExp
    <3>1. NumRes(ins.op) = 1
      BY <2>1, <2>2, UnaryAssumption DEF NumRes, CondExp, Comparison
    <3>2. Plays!NumRes("CExp") = 1
      BY <2>1, UnaryAssumption DEF Plays!NumRes, Plays!Comparison
    <3> QED
      BY <1>2, <2>2, <3>1, <3>2
  <2>3. CASE ins.op \notin CondExp
    BY <1>2, <2>3 DEF NumRes, Plays!NumRes, Comparison, Plays!Comparison
  <2> QED
    BY <2>2, <2>3
<1>5. Plays!NumArg(code) = Len(Words(ins))
  <2>1. CASE ins.op = "Begin"
    <3>1. Words(ins) = <<0>> /\ code.op = "Begin"
      BY <1>2, <2>1, WordsAre DEF CondExp
    <3>2. Plays!NumArg(code) = 1
      BY <3>1 DEF Plays!NumArg, Plays!Optimized
    <3>3. Len(Words(ins)) = 1
      BY <3>1
    <3> QED
      BY <3>2, <3>3
  <2>2. CASE ins.op \in CondExp
    <3>1. Len(Words(ins)) = 6 /\ code.op = "CExp"
      BY <1>2, <2>2, WordsAre
    <3>2. Plays!NumArg(code) = 6
      BY <3>1 DEF Plays!NumArg, Plays!Optimized
    <3> QED
      BY <3>1, <3>2
  <2>3. CASE ins.op \notin CondExp \union {"Begin"}
    <3>1. Words(ins) = ins.arg /\ code.op = ins.op /\ code.kind = ins.kind
      BY <1>2, <2>3, WordsAre
    <3>2. code.op \notin {"Begin", "CExp"} \union Plays!Optimized
      BY <1>1, <2>3, <3>1 DEF Plays!Optimized
    <3>3. Plays!NumArg(code) = Len(code.kind)
      BY <3>2 DEF Plays!NumArg
    <3> QED
      BY <3>1, <3>3, Zenon
  <2> QED
    BY <2>1, <2>2, <2>3
<1> QED
  BY <1>1, <1>2, <1>3, <1>4, <1>5

-----------------------------------------------------------------------------

(* The player t has the words of s. *)
LaidAt(t, s, i) ==
  /\ t.op_rec_[i - 1] = OpCodeOf(s[i])
  /\ t.last[i - 1] = s[i].res
  /\ Len(Words(s[i])) \in Nat
  /\ t.first[i - 1] + Len(Words(s[i]))
       = IF i = Len(s) THEN t.num_op_arg_rec ELSE t.first[i]
  /\ \A k \in 0 .. Len(Words(s[i])) - 1 :
       t.op_arg_rec_[t.first[i - 1] + k] = Words(s[i])[k + 1]

Laid(t, s) ==
  /\ t.n = Dim /\ t.num_op_rec = Len(s)
  /\ t.num_op_arg_rec \in Nat /\ t.num_var_rec = s[Len(s)].res + 1
  /\ t.op_rec_ \in [0 .. Len(s) - 1 -> Codes]
  /\ t.first \in [0 .. Len(s) - 1 -> Nat] /\ t.last \in [0 .. Len(s) - 1 -> Nat]
  /\ t.op_arg_rec_ \in [0 .. t.num_op_arg_rec - 1 -> Nat]
  /\ t.first[0] = 0
  /\ \A i \in 1 .. Len(s) : LaidAt(t, s, i)

(* A sequence, indexed from 0. *)
LEMMA FromZero ==
  ASSUME NEW S, NEW q \in Seq(S), NEW n, n = Len(q),
         NEW z, z = [k \in 0 .. Len(q) - 1 |-> q[k + 1]]
  PROVE  /\ n \in Nat /\ z \in [0 .. n - 1 -> S]
         /\ \A k \in 0 .. n - 1 : z[k] = q[k + 1]
<1>1. n \in Nat
  BY LenProperties
<1>2. \A k \in 0 .. n - 1 : k + 1 \in 1 .. n
  BY <1>1
<1>3. \A k \in 1 .. n : q[k] \in S
  BY ElementOfSeq, Zenon
<1>4. \A k \in 0 .. n - 1 : q[k + 1] \in S
  BY <1>2, <1>3, Zenon
<1> QED
  BY <1>1, <1>4

LEMMA GetLaid ==
  ASSUME NEW V, NEW s, Sound(s), Written(V, s), NEW par, NEW dep,
         NEW t, t = get(V, par, dep)
  PROVE  Laid(t, s) /\ t.par_rec_ = par /\ t.dep_taddr_ = <<dep>>
<1>1. /\ t.n = Dim /\ t.par_rec_ = par /\ t.dep_taddr_ = <<dep>>
      /\ t.op_rec_ = [k \in 0 .. Len(V.op_rec_) - 1 |-> V.op_rec_[k + 1]]
      /\ t.num_op_rec = Len(V.op_rec_)
      /\ t.op_arg_rec_ = [k \in 0 .. Len(V.op_arg_rec_) - 1 |-> V.op_arg_rec_[k + 1]]
      /\ t.num_op_arg_rec = Len(V.op_arg_rec_)
      /\ t.num_var_rec = V.num_var_rec_
      /\ t.first = [k \in 0 .. Len(V.first) - 1 |-> V.first[k + 1]]
      /\ t.last = [k \in 0 .. Len(V.last) - 1 |-> V.last[k + 1]]
  BY DEF get
<1>2. /\ V.op_rec_ \in Seq(Codes) /\ V.op_arg_rec_ \in Seq(Nat)
      /\ V.first \in Seq(Nat) /\ V.last \in Seq(Nat)
  BY DEF Written
<1>3. PICK n : n = Len(s)
  OBVIOUS
<1>4. n \in Nat /\ n > 0
  <2>1. s \in Seq(Instruction) /\ Len(s) > Dim
    BY DEF Sound
  <2>2. Len(s) \in Nat
    BY <2>1, LenProperties
  <2> QED
    BY <1>3, <2>1, <2>2, VectorAssumption
<1>5. /\ Len(V.op_rec_) = n /\ Len(V.first) = n /\ Len(V.last) = n
      /\ V.first[1] = 0 /\ V.num_var_rec_ = s[Len(s)].res + 1
      /\ \A i \in 1 .. n : WrittenAt(V, s, i)
  BY <1>3 DEF Written
<1>6. PICK m : m = Len(V.op_arg_rec_)
  OBVIOUS
<1>7. t.op_rec_ \in [0 .. n - 1 -> Codes] /\ \A k \in 0 .. n - 1 : t.op_rec_[k] = V.op_rec_[k + 1]
  BY <1>1, <1>2, <1>5, FromZero, Zenon
<1>8. t.first \in [0 .. n - 1 -> Nat] /\ \A k \in 0 .. n - 1 : t.first[k] = V.first[k + 1]
  <2>1. V.first \in Seq(Nat)
    BY <1>2
  <2>2. /\ n = Len(V.first)
        /\ t.first = [k \in 0 .. Len(V.first) - 1 |-> V.first[k + 1]]
    BY <1>1, <1>5, Zenon
  <2> QED
    BY <2>1, <2>2, FromZero, Zenon
<1>9. t.last \in [0 .. n - 1 -> Nat] /\ \A k \in 0 .. n - 1 : t.last[k] = V.last[k + 1]
  <2>1. V.last \in Seq(Nat)
    BY <1>2
  <2>2. /\ n = Len(V.last)
        /\ t.last = [k \in 0 .. Len(V.last) - 1 |-> V.last[k + 1]]
    BY <1>1, <1>5, Zenon
  <2> QED
    BY <2>1, <2>2, FromZero, Zenon
<1>10. /\ m \in Nat /\ t.op_arg_rec_ \in [0 .. m - 1 -> Nat]
       /\ \A k \in 0 .. m - 1 : t.op_arg_rec_[k] = V.op_arg_rec_[k + 1]
  <2>1. V.op_arg_rec_ \in Seq(Nat)
    BY <1>2
  <2>2. /\ m = Len(V.op_arg_rec_)
        /\ t.op_arg_rec_ = [k \in 0 .. Len(V.op_arg_rec_) - 1 |-> V.op_arg_rec_[k + 1]]
    BY <1>1, <1>6, Zenon
  <2> QED
    BY <2>1, <2>2, FromZero, Zenon
<1>11. \A i \in 1 .. n : i - 1 \in 0 .. n - 1 /\ (i - 1) + 1 = i
  BY <1>4
<1>12. \A i \in 1 .. n : /\ t.op_rec_[i - 1] = V.op_rec_[i]
                          /\ t.first[i - 1] = V.first[i]
                          /\ t.last[i - 1] = V.last[i]
                          /\ V.first[i] \in Nat
  <2> SUFFICES ASSUME NEW i \in 1 .. n
               PROVE  /\ t.op_rec_[i - 1] = V.op_rec_[i]
                      /\ t.first[i - 1] = V.first[i]
                      /\ t.last[i - 1] = V.last[i]
                      /\ V.first[i] \in Nat
    BY Zenon
  <2>1. PICK k \in 0 .. n - 1 : k = i - 1 /\ k + 1 = i
    BY <1>11
  <2>2. t.op_rec_[k] = V.op_rec_[i] /\ t.first[k] = V.first[i] /\ t.last[k] = V.last[i]
    BY <1>7, <1>8, <1>9, <2>1, Zenon
  <2>3. V.first[i] \in Nat
    BY <1>2, <1>5, ElementOfSeq, Zenon
  <2> QED
    BY <2>1, <2>2, <2>3, Zenon
<1>13. ASSUME NEW i \in 1 .. n
       PROVE  LaidAt(t, s, i)
  <2>1. /\ V.op_rec_[i] = OpCodeOf(s[i])
        /\ V.last[i] = s[i].res
        /\ Len(Words(s[i])) \in Nat
        /\ V.first[i] + Len(Words(s[i]))
             = IF i = n THEN m ELSE V.first[i + 1]
        /\ V.first[i] + Len(Words(s[i])) <= m
        /\ \A k \in 1 .. Len(Words(s[i])) :
             V.op_arg_rec_[V.first[i] + k] = Words(s[i])[k]
    BY <1>3, <1>5, <1>6, Zenon DEF WrittenAt
  <2>2. PICK w : w = Words(s[i])
    OBVIOUS
  <2>3. PICK a : a = V.first[i]
    OBVIOUS
  <2>4. PICK l : l = Len(w)
    OBVIOUS
  <2>5. l \in Nat /\ a \in Nat /\ a + l <= m
    BY <1>12, <2>1, <2>2, <2>3, <2>4
  <2>6. ASSUME NEW k \in 0 .. l - 1
        PROVE  t.op_arg_rec_[a + k] = w[k + 1]
    <3>1. PICK j : j = a + k
      OBVIOUS
    <3>2. j \in 0 .. m - 1 /\ k + 1 \in 1 .. l /\ j + 1 = a + (k + 1)
      BY <1>10, <2>5, <3>1
    <3>3. t.op_arg_rec_[j] = V.op_arg_rec_[j + 1]
      BY <1>10, <3>2, Zenon
    <3>4. V.op_arg_rec_[a + (k + 1)] = w[k + 1]
      BY <2>1, <2>2, <2>3, <2>4, <3>2, Zenon
    <3> QED
      BY <3>1, <3>2, <3>3, <3>4, Zenon
  <2>7. a + l = IF i = Len(s) THEN t.num_op_arg_rec ELSE t.first[i]
    <3>1. CASE i = n
      BY <1>1, <1>3, <1>6, <2>1, <2>2, <2>3, <2>4, <3>1, Zenon
    <3>2. CASE i # n
      <4>1. i \in 0 .. n - 1
        BY <1>4, <3>2
      <4>2. t.first[i] = V.first[i + 1]
        BY <1>8, <4>1, Zenon
      <4> QED
        BY <1>3, <2>1, <2>2, <2>3, <2>4, <3>2, <4>2, Zenon
    <3> QED
      BY <3>1, <3>2
  <2>8. t.op_rec_[i - 1] = OpCodeOf(s[i]) /\ t.last[i - 1] = s[i].res /\ t.first[i - 1] = a
    BY <1>12, <2>1, <2>3, Zenon
  <2> QED
    BY <2>2, <2>4, <2>5, <2>6, <2>7, <2>8, Zenon DEF LaidAt
<1>14. t.first[0] = 0
  <2>1. 0 \in 0 .. n - 1 /\ 0 + 1 = 1
    BY <1>4
  <2> QED
    BY <1>5, <1>8, <2>1, Zenon
<1>15. Laid(t, s)
  BY <1>1, <1>3, <1>5, <1>6, <1>7, <1>8, <1>9, <1>10, <1>13, <1>14, Zenon DEF Laid
<1> QED
  BY <1>1, <1>15

-----------------------------------------------------------------------------

LEMMA SoundAt ==
  ASSUME NEW s, Sound(s), NEW i \in 1 .. Len(s)
  PROVE  /\ s[i] \in Instruction /\ Fits(s, i - 1, s[i])
         /\ Len(s[i].kind) = Len(s[i].arg)
         /\ s[i].op \in CondExp => Len(s[i].kind) = 4
         /\ s[i].op \in Simple => Len(s[i].kind) = 0
         /\ s[i].kind \in Seq({"v", "p"}) /\ s[i].arg \in Seq(Nat) /\ s[i].res \in Nat
         /\ s[i].op \in OpCode
         /\ s[i] = [op |-> s[i].op, kind |-> s[i].kind, arg |-> s[i].arg, res |-> s[i].res]
<1>1. Fits(s, i - 1, s[i])
  BY DEF Sound
<1>2. PICK ins : ins = s[i]
  OBVIOUS
<1>3. /\ ins \in Instruction /\ Len(ins.kind) = Len(ins.arg)
      /\ ins.op \in CondExp => Len(ins.kind) = 4
      /\ ins.op \in Simple => Len(ins.kind) = 0
  BY <1>1, <1>2, Zenon DEF Fits
<1>4. /\ ins.kind \in Seq({"v", "p"}) /\ ins.arg \in Seq(Nat) /\ ins.res \in Nat
      /\ ins.op \in OpCode
      /\ ins = [op |-> ins.op, kind |-> ins.kind, arg |-> ins.arg, res |-> ins.res]
  BY <1>3 DEF Instruction
<1> QED
  BY <1>1, <1>2, <1>3, <1>4, Zenon

(* The player reads what was recorded. *)
LEMMA InstrIs ==
  ASSUME NEW s, Sound(s), NEW t, Laid(t, s), NEW i \in 1 .. Len(s)
  PROVE  Plays!Instr(t, Plays!At(t, i - 1)) = s[i]
<1>1. PICK ins : ins = s[i]
  OBVIOUS
<1>2. /\ ins \in Instruction /\ Len(ins.kind) = Len(ins.arg)
      /\ ins.op \in CondExp => Len(ins.kind) = 4
      /\ ins.op \in Simple => Len(ins.kind) = 0
      /\ ins.kind \in Seq({"v", "p"}) /\ ins.arg \in Seq(Nat)
      /\ ins = [op |-> ins.op, kind |-> ins.kind, arg |-> ins.arg, res |-> ins.res]
  BY <1>1, SoundAt, Zenon
<1>3. PICK c : c = Plays!At(t, i - 1)
  OBVIOUS
<1>4. PICK code : code = OpCodeOf(ins)
  OBVIOUS
<1>5. PICK w : w = Words(ins)
  OBVIOUS
<1>6. LaidAt(t, s, i)
  BY DEF Laid
<1>7. c.op_index_ = i - 1 /\ c.op_arg_ = t.first[i - 1] /\ c.var_index_ = ins.res
  BY <1>1, <1>3, <1>6 DEF Plays!At, LaidAt
<1>8. Plays!OpAt(t, c) = code
  BY <1>1, <1>4, <1>6, <1>7, Zenon DEF Plays!OpAt, LaidAt
<1>9. \A k \in 0 .. Len(w) - 1 : Plays!Arg(t, c, k) = w[k + 1]
  BY <1>1, <1>5, <1>6, <1>7, Zenon DEF Plays!Arg, LaidAt
<1>10. /\ code.op \notin {"CSum", "CSkip"}
       /\ code.op = "CExp" <=> ins.op \in CondExp
       /\ ins.op \notin CondExp => code.op = ins.op /\ code.kind = ins.kind
  BY <1>2, <1>4, CodeIs, Zenon
<1>11. CASE ins.op \in CondExp
  <2>1. /\ Len(w) = 6 /\ w[1] = Number(ins.op) /\ w[2] = Flags(ins.kind)
        /\ \A k \in 1 .. 4 : w[k + 2] = ins.arg[k]
    BY <1>2, <1>5, <1>11, WordsAre, Zenon
  <2>2. /\ Plays!Arg(t, c, 0) = Number(ins.op)
        /\ Plays!Arg(t, c, 1) = Flags(ins.kind)
        /\ \A k \in 1 .. 4 : Plays!Arg(t, c, k + 1) = ins.arg[k]
    <3>1. \A k \in 0 .. 5 : Plays!Arg(t, c, k) = w[k + 1]
      BY <1>9, <2>1
    <3>2. Plays!Arg(t, c, 0) = w[1] /\ Plays!Arg(t, c, 1) = w[2]
      BY <3>1
    <3>3. \A k \in 1 .. 4 : Plays!Arg(t, c, k + 1) = w[k + 2]
      BY <3>1
    <3> QED
      BY <2>1, <3>2, <3>3, Zenon
  <2>3. Plays!CompareOp[Plays!Arg(t, c, 0) + 1] = ins.op
    BY <1>11, <2>2, NumberOf, Zenon
  <2>4. Plays!Kinds(Plays!Arg(t, c, 1), 4) = ins.kind
    BY <1>2, <1>11, <2>2, KindsOfFlags, Zenon
  <2>5. [k \in 1 .. 4 |-> Plays!Arg(t, c, k + 1)] = ins.arg
    <3>1. [k \in 1 .. 4 |-> Plays!Arg(t, c, k + 1)] = [k \in 1 .. 4 |-> ins.arg[k]]
      BY <2>2, Zenon
    <3>2. PICK a : a = ins.arg
      OBVIOUS
    <3>3. a \in Seq(Nat) /\ Len(a) = 4
      BY <1>2, <1>11, <3>2
    <3>4. a = [k \in 1 .. 4 |-> a[k]]
      BY <3>3
    <3> QED
      BY <3>1, <3>2, <3>4, Zenon
  <2>6. Plays!Instr(t, c) = Plays!CondExpAt(t, c)
    BY <1>8, <1>10, <1>11 DEF Plays!Instr
  <2>7. Plays!CondExpAt(t, c) =
          [op |-> ins.op, kind |-> ins.kind, arg |-> ins.arg, res |-> ins.res]
    BY <1>7, <2>3, <2>4, <2>5, Zenon DEF Plays!CondExpAt
  <2> QED
    BY <1>1, <1>2, <1>3, <2>6, <2>7, Zenon
<1>12. CASE ins.op \notin CondExp
  <2>1. code.op = ins.op /\ code.kind = ins.kind /\ code.op \notin {"CExp", "CSum", "CSkip"}
    BY <1>10, <1>12
  <2>2. PICK a : a = [k \in DOMAIN code.kind |-> Plays!Arg(t, c, k - 1)]
    OBVIOUS
  <2>3. Plays!Instr(t, c) =
          [op |-> code.op, kind |-> code.kind, arg |-> a, res |-> c.var_index_]
    BY <1>8, <2>1, <2>2 DEF Plays!Instr
  <2>4. PICK b, n : b = ins.arg /\ n = Len(b)
    OBVIOUS
  <2>5. b \in Seq(Nat) /\ Len(b) = n /\ n \in Nat
    BY <1>2, <2>4, LenProperties
  <2>6. a = [k \in 1 .. n |-> Plays!Arg(t, c, k - 1)]
    <3>1. DOMAIN ins.kind = 1 .. Len(ins.kind)
      BY <1>2, LenProperties, Zenon
    <3> QED
      BY <1>2, <2>1, <2>2, <2>4, <3>1, Zenon
  <2>7. \A k \in 1 .. n : Plays!Arg(t, c, k - 1) = b[k]
    <3>1. CASE ins.op = "Begin"
      <4>1. n = 0
        BY <1>2, <2>4, <3>1 DEF Simple
      <4> QED
        BY <4>1
    <3>2. CASE ins.op # "Begin"
      <4>1. w = b
        <5>1. ins.op \notin CondExp \union {"Begin"}
          BY <1>12, <3>2
        <5> QED
          BY <1>2, <1>5, <2>4, <5>1, WordsAre, Zenon
      <4>2. \A k \in 1 .. n : k - 1 \in 0 .. n - 1 /\ (k - 1) + 1 = k
        BY <2>5
      <4>3. \A k \in 0 .. n - 1 : Plays!Arg(t, c, k) = b[k + 1]
        BY <1>9, <2>4, <4>1, Zenon
      <4> SUFFICES ASSUME NEW k \in 1 .. n
                   PROVE  Plays!Arg(t, c, k - 1) = b[k]
        OBVIOUS
      <4>4. PICK j : j = k - 1 /\ j \in 0 .. n - 1 /\ j + 1 = k
        BY <4>2
      <4>5. Plays!Arg(t, c, j) = b[j + 1]
        BY <4>3, <4>4, Zenon
      <4> QED
        BY <4>4, <4>5, Zenon
    <3> QED
      BY <3>1, <3>2
  <2>8. a = b
    <3>1. a = [k \in 1 .. n |-> b[k]]
      BY <2>6, <2>7, Zenon
    <3>2. b = [k \in 1 .. n |-> b[k]]
      BY <2>5
    <3> QED
      BY <3>1, <3>2
  <2> QED
    BY <1>1, <1>2, <1>3, <1>7, <2>1, <2>3, <2>4, <2>8, Zenon
<1> QED
  BY <1>11, <1>12

(* The recording s is complete, and its addresses follow each other.       *)
Finished(s, npar) ==
  \A i \in 1 .. Len(s) :
    /\ s[i].op = "End" <=> i = Len(s)
    /\ ArgsValid(s[i], npar)
    /\ IF i = 1 THEN s[i].res = 0 ELSE s[i].res = s[i - 1].res + NumRes(s[i].op)

(* At index j the player reads instruction i of s. *)
ReadAt(t, s, j, i) ==
  /\ t.op_rec_[j].op \notin {"CSum", "CSkip"}
  /\ t.op_rec_[j].op = "CExp" <=> s[i].op \in CondExp
  /\ \A x \in Simple : t.op_rec_[j].op = x <=> s[i].op = x
  /\ Plays!NumRes(t.op_rec_[j].op) = NumRes(s[i].op)
  /\ Plays!NumArg(t.op_rec_[j]) = Len(Words(s[i]))
  /\ Plays!Instr(t, Plays!At(t, j)) = s[i]

(* A complete sound tape is what the sweeps rely on. *)
LEMMA LaidWellFormed ==
  ASSUME NEW s, Sound(s), NEW t, Laid(t, s),
         t.par_rec_ \in Seq(Num), Finished(s, Len(t.par_rec_)),
         NEW dep, t.dep_taddr_ = <<dep>>, dep \in 1 .. s[Len(s)].res,
         \E k \in 1 .. Len(s) : s[k].res = dep
  PROVE  Plays!WellFormed(t)
<1>1. PICK n : n = Len(s)
  OBVIOUS
<1>2. n \in Nat /\ n > Dim /\ Dim \in Nat \ {0} /\ n > 0
  <2>1. s \in Seq(Instruction) /\ Len(s) > Dim
    BY DEF Sound
  <2>2. Len(s) \in Nat
    BY <2>1, LenProperties
  <2> QED
    BY <1>1, <2>1, <2>2, VectorAssumption
<1>3. /\ t.n = Dim /\ t.num_op_rec = n /\ t.num_op_arg_rec \in Nat
      /\ t.num_var_rec = s[n].res + 1
      /\ t.op_rec_ \in [0 .. n - 1 -> Codes]
      /\ t.first \in [0 .. n - 1 -> Nat] /\ t.last \in [0 .. n - 1 -> Nat]
      /\ t.op_arg_rec_ \in [0 .. t.num_op_arg_rec - 1 -> Nat]
      /\ t.first[0] = 0
      /\ \A i \in 1 .. n : LaidAt(t, s, i)
  BY <1>1, Zenon DEF Laid
(* The i-th instruction, at index i - 1 of the player. *)
<1>4. ASSUME NEW i \in 1 .. n
      PROVE  /\ t.op_rec_[i - 1] = OpCodeOf(s[i]) /\ t.last[i - 1] = s[i].res
             /\ ReadAt(t, s, i - 1, i)
  <2>1. PICK j : j = i - 1
    OBVIOUS
  <2>2. t.op_rec_[j] = OpCodeOf(s[i]) /\ t.last[j] = s[i].res
    BY <1>3, <2>1, Zenon DEF LaidAt
  <2>3. PICK code : code = t.op_rec_[j]
    OBVIOUS
  <2>4. /\ s[i] \in Instruction /\ Len(s[i].kind) = Len(s[i].arg)
        /\ s[i].op \in CondExp => Len(s[i].kind) = 4
    BY <1>1, SoundAt, Zenon
  <2>5. Plays!Instr(t, Plays!At(t, j)) = s[i]
    BY <1>1, <2>1, InstrIs, Zenon
  <2>6. /\ code.op \notin {"CSum", "CSkip"}
        /\ code.op = "CExp" <=> s[i].op \in CondExp
        /\ \A x \in Simple : code.op = x <=> s[i].op = x
        /\ Plays!NumRes(code.op) = NumRes(s[i].op)
        /\ Plays!NumArg(code) = Len(Words(s[i]))
    BY <2>2, <2>3, <2>4, CodeIs, Zenon
  <2>7. ReadAt(t, s, j, i)
    BY <2>3, <2>5, <2>6, Zenon DEF ReadAt
  <2> QED
    BY <2>1, <2>2, <2>7, Zenon
<1>5. \A j \in 0 .. n - 1 : j + 1 \in 1 .. n /\ (j + 1) - 1 = j
  BY <1>2
<1>6. ASSUME NEW j \in 0 .. n - 1, NEW i, i = j + 1
      PROVE  /\ i \in 1 .. n /\ i - 1 = j
             /\ t.last[j] = s[i].res
             /\ t.op_rec_[j].op \notin {"CSum", "CSkip"}
             /\ t.op_rec_[j].op = "CExp" <=> s[i].op \in CondExp
             /\ \A x \in Simple : t.op_rec_[j].op = x <=> s[i].op = x
             /\ Plays!NumRes(t.op_rec_[j].op) = NumRes(s[i].op)
             /\ Plays!NumArg(t.op_rec_[j]) = Len(Words(s[i]))
             /\ Plays!Instr(t, Plays!At(t, j)) = s[i]
  <2>1. i \in 1 .. n /\ i - 1 = j
    BY <1>5, <1>6
  <2>2. t.last[i - 1] = s[i].res /\ ReadAt(t, s, i - 1, i)
    BY <1>4, <2>1, Zenon
  <2>3. t.last[j] = s[i].res /\ ReadAt(t, s, j, i)
    BY <2>1, <2>2, Zenon
  <2> QED
    BY <2>1, <2>3, Zenon DEF ReadAt
<1>7. Plays!Vectors(t)
  <2>1. s[n].res \in Nat
    <3>1. n \in 1 .. Len(s)
      BY <1>1, <1>2
    <3> QED
      BY <3>1, SoundAt, Zenon
  <2>2. t.num_op_rec > t.n + 1
    <3>1. n # Dim + 1
      <4>1. CASE n = Dim + 1
        <5>1. n \in 1 .. Len(s) /\ n \in 2 .. Dim + 1
          BY <1>1, <1>2, <4>1
        <5>2. s[n].op = "Inv"
          BY <5>1 DEF Sound
        <5>3. s[n].op = "End"
          BY <1>1, <5>1 DEF Finished
        <5> QED
          BY <5>2, <5>3
      <4> QED
        BY <4>1
    <3> QED
      BY <1>2, <1>3, <3>1
  <2>3. t.dep_taddr_ \in Seq(1 .. t.num_var_rec - 1)
    <3>1. dep \in 1 .. t.num_var_rec - 1
      BY <1>1, <1>3, <2>1
    <3> QED
      BY <3>1
  <2>4. t.num_var_rec \in Nat /\ t.num_op_rec \in Nat /\ t.n \in Nat
    <3>1. PICK a, b : a = s[n].res /\ b = t.num_var_rec
      OBVIOUS
    <3>2. a \in Nat /\ b = a + 1
      BY <1>3, <2>1, <3>1, Zenon
    <3>3. b \in Nat
      BY <3>2
    <3> QED
      BY <1>2, <1>3, <3>1, <3>3, Zenon
  <2> QED
    BY <1>3, <2>2, <2>3, <2>4 DEF Plays!Vectors, Codes
<1>8. \A j \in DOMAIN t.op_rec_ :
        /\ t.op_rec_[j].op = "Begin" <=> j = 0
        /\ t.op_rec_[j].op = "Inv" <=> j \in 1 .. t.n
        /\ t.op_rec_[j].op = "End" <=> j = t.num_op_rec - 1
  <2> SUFFICES ASSUME NEW j \in 0 .. n - 1
               PROVE  /\ t.op_rec_[j].op = "Begin" <=> j = 0
                      /\ t.op_rec_[j].op = "Inv" <=> j \in 1 .. t.n
                      /\ t.op_rec_[j].op = "End" <=> j = t.num_op_rec - 1
    BY <1>3
  <2>1. PICK i, o : i = j + 1 /\ o = t.op_rec_[j].op
    OBVIOUS
  <2>2. i \in 1 .. n /\ \A x \in Simple : o = x <=> s[i].op = x
    <3>1. i \in 1 .. n
      BY <1>6, <2>1, Zenon
    <3>2. i - 1 = j /\ ReadAt(t, s, i - 1, i)
      BY <1>4, <1>6, <2>1, <3>1, Zenon
    <3>3. ReadAt(t, s, j, i)
      BY <3>2, Zenon
    <3> QED
      BY <2>1, <3>1, <3>3, Zenon DEF ReadAt
  <2>3. (s[i].op = "Begin" <=> i = 1) /\ (s[i].op = "Inv" <=> i \in 2 .. Dim + 1)
    BY <1>1, <2>2 DEF Sound
  <2>4. s[i].op = "End" <=> i = n
    BY <1>1, <2>2 DEF Finished
  <2>5. (o = "Begin" <=> i = 1) /\ (o = "Inv" <=> i \in 2 .. Dim + 1) /\ (o = "End" <=> i = n)
    BY <2>2, <2>3, <2>4 DEF Simple
  <2>6. (i = 1 <=> j = 0) /\ (i \in 2 .. Dim + 1 <=> j \in 1 .. Dim) /\ (i = n <=> j = n - 1)
    BY <1>2, <2>1
  <2> QED
    BY <1>3, <2>1, <2>5, <2>6
<1>9. Plays!Adjacent(t)
  <2>1. t.last[0] = 0
    <3>1. 0 \in 0 .. n - 1 /\ 0 + 1 = 1 /\ 1 \in 1 .. n
      BY <1>2
    <3>2. t.last[0] = s[1].res
      BY <1>6, <3>1, Zenon
    <3>3. s[1].res = 0
      BY <1>1, <3>1 DEF Finished
    <3> QED
      BY <3>2, <3>3
  <2>2. ASSUME NEW j \in 0 .. n - 1
        PROVE  /\ Plays!Size(t, j) = Len(Words(s[j + 1]))
               /\ t.first[j] + Plays!Size(t, j)
                    = IF j + 1 = n THEN t.num_op_arg_rec ELSE t.first[j + 1]
    <3>1. PICK i : i = j + 1
      OBVIOUS
    <3>2. /\ i \in 1 .. n /\ i - 1 = j /\ t.op_rec_[j].op \notin {"CSum", "CSkip"}
          /\ Plays!NumArg(t.op_rec_[j]) = Len(Words(s[i]))
      BY <1>6, <3>1, Zenon
    <3>3. Plays!Size(t, j) = Len(Words(s[i]))
      BY <3>2 DEF Plays!Size
    <3>4. t.first[j] + Len(Words(s[i])) = IF i = n THEN t.num_op_arg_rec ELSE t.first[i]
      BY <1>1, <1>3, <3>2, Zenon DEF LaidAt
    <3> QED
      BY <3>1, <3>3, <3>4, Zenon
  <2>3. ASSUME NEW i \in 1 .. t.num_op_rec - 1
        PROVE  /\ t.first[i] = t.first[i - 1] + Plays!Size(t, i - 1)
               /\ t.last[i] = t.last[i - 1] + Plays!NumRes(t.op_rec_[i].op)
    <3>1. /\ i \in 1 .. n - 1 /\ i - 1 \in 0 .. n - 1 /\ (i - 1) + 1 = i /\ i # n
          /\ i \in 0 .. n - 1
      BY <1>2, <1>3
    <3>2. t.first[i] = t.first[i - 1] + Plays!Size(t, i - 1)
      <4>1. PICK j : j = i - 1 /\ j \in 0 .. n - 1 /\ j + 1 = i
        BY <3>1
      <4>2. t.first[j] + Plays!Size(t, j) = t.first[i]
        BY <2>2, <3>1, <4>1, Zenon
      <4> QED
        BY <4>1, <4>2, Zenon
    <3>3. PICK k : k = i + 1
      OBVIOUS
    <3>4. /\ t.last[i] = s[k].res /\ k \in 1 .. n /\ k - 1 = i
          /\ Plays!NumRes(t.op_rec_[i].op) = NumRes(s[k].op)
      BY <1>6, <3>1, <3>3, Zenon
    <3>5. t.last[i - 1] = s[i].res
      <4>1. i \in 1 .. n
        BY <3>1, <1>2
      <4> QED
        BY <1>4, <4>1, Zenon
    <3>6. s[k].res = s[k - 1].res + NumRes(s[k].op)
      <4>1. k # 1
        BY <3>1, <3>3
      <4> QED
        BY <1>1, <3>4, <4>1, Zenon DEF Finished
    <3> QED
      BY <3>2, <3>4, <3>5, <3>6, Zenon
  <2>4. t.first[n - 1] = t.num_op_arg_rec
    <3>1. n - 1 \in 0 .. n - 1 /\ (n - 1) + 1 = n /\ n \in 1 .. n
      BY <1>2
    <3>2. PICK j : j = n - 1
      OBVIOUS
    <3>3. t.first[j] + Plays!Size(t, j) = t.num_op_arg_rec /\ Plays!Size(t, j) = Len(Words(s[n]))
      BY <2>2, <3>1, <3>2, Zenon
    <3>4. Len(Words(s[n])) = 0
      <4>1. s[n].op = "End"
        BY <1>1, <3>1 DEF Finished
      <4>2. /\ s[n] \in Instruction /\ Len(s[n].kind) = Len(s[n].arg)
            /\ s[n].op \in CondExp => Len(s[n].kind) = 4
            /\ s[n].op \in Simple => Len(s[n].kind) = 0
        BY <1>1, <3>1, SoundAt, Zenon
      <4>3. s[n].op \notin CondExp \union {"Begin"} /\ s[n].op \in Simple
        BY <4>1 DEF CondExp, Simple
      <4>4. Words(s[n]) = s[n].arg
        BY <4>2, <4>3, WordsAre, Zenon
      <4> QED
        BY <4>2, <4>3, <4>4
    <3>5. t.first[j] \in Nat
      BY <1>3, <3>1, <3>2
    <3> QED
      BY <3>2, <3>3, <3>4, <3>5
  <2>5. t.last[n - 1] = t.num_var_rec - 1
    <3>1. n \in 1 .. n /\ n \in 1 .. Len(s)
      BY <1>1, <1>2
    <3>2. t.last[n - 1] = s[n].res
      BY <1>4, <3>1, Zenon
    <3>3. s[n].res \in Nat
      BY <3>1, SoundAt, Zenon
    <3> QED
      BY <1>3, <3>2, <3>3
  <2> QED
    BY <1>3, <2>1, <2>3, <2>4, <2>5 DEF Plays!Adjacent
<1>10. Plays!Ordered(t)
  <2>1. ASSUME NEW j \in 0 .. n - 1, NEW ins, ins = Plays!Instr(t, Plays!At(t, j))
        PROVE  /\ \A k \in j + 1 .. n - 1 :
                    t.last[j] + Plays!NumRes(t.op_rec_[k].op) <= t.last[k]
               /\ t.op_rec_[j].op = "CExp" => ins.op \in Plays!CondExp
               /\ Plays!ArgsValid(ins, Len(t.par_rec_))
               /\ \A a \in DOMAIN ins.arg :
                    ins.kind[a] = "v" => ins.arg[a] \in {t.last[k] : k \in 0 .. j - 1}
    <3>1. PICK i : i = j + 1
      OBVIOUS
    <3>2. /\ i \in 1 .. n /\ i - 1 = j /\ t.last[j] = s[i].res /\ ins = s[i]
          /\ t.op_rec_[j].op = "CExp" <=> s[i].op \in CondExp
      BY <1>6, <2>1, <3>1, Zenon
    <3>3. ASSUME NEW k \in j + 1 .. n - 1
          PROVE  t.last[j] + Plays!NumRes(t.op_rec_[k].op) <= t.last[k]
      <4>1. PICK q : q = k + 1
        OBVIOUS
      <4>2. k \in 0 .. n - 1
        BY <1>2
      <4>3. /\ q \in 1 .. n /\ q - 1 = k /\ t.last[k] = s[q].res
            /\ Plays!NumRes(t.op_rec_[k].op) = NumRes(s[q].op)
        BY <1>6, <4>1, <4>2, Zenon
      <4>4. i \in 1 .. q - 1
        BY <1>2, <3>1, <4>1
      <4>5. Fits(s, q - 1, s[q])
        BY <1>1, <4>3, SoundAt, Zenon
      <4>6. s[i].res + NumRes(s[q].op) <= s[q].res
        BY <4>4, <4>5 DEF Fits
      <4> QED
        BY <3>2, <4>3, <4>6, Zenon
    <3>4. Plays!ArgsValid(ins, Len(t.par_rec_))
      <4>1. ArgsValid(ins, Len(t.par_rec_))
        BY <1>1, <3>2 DEF Finished
      <4> QED
        BY <4>1 DEF ArgsValid, Plays!ArgsValid, Before, Plays!Before, NumRes, Plays!NumRes,
           Comparison, Plays!Comparison
    <3>5. ASSUME NEW a \in DOMAIN ins.arg, ins.kind[a] = "v"
          PROVE  ins.arg[a] \in {t.last[k] : k \in 0 .. j - 1}
      <4>1. Fits(s, i - 1, ins)
        BY <1>1, <3>2, SoundAt, Zenon
      <4>2. PICK q \in 1 .. i - 1 : s[q].res = ins.arg[a]
        BY <3>5, <4>1, Zenon DEF Fits
      <4>3. q \in 1 .. n /\ q - 1 \in 0 .. j - 1
        BY <1>2, <3>1, <3>2
      <4>4. t.last[q - 1] = ins.arg[a]
        BY <1>4, <4>2, <4>3, Zenon
      <4> QED
        BY <4>3, <4>4
    <3> QED
      BY <3>2, <3>3, <3>4, <3>5, Zenon DEF CondExp, Plays!CondExp
  <2>2. ASSUME NEW d \in DOMAIN t.dep_taddr_
        PROVE  t.dep_taddr_[d] \in {t.last[k] : k \in 0 .. n - 1}
    <3>1. t.dep_taddr_[d] = dep
      OBVIOUS
    <3>2. PICK q \in 1 .. n : s[q].res = dep
      BY <1>1
    <3>3. q - 1 \in 0 .. n - 1 /\ t.last[q - 1] = dep
      BY <1>2, <1>4, <3>2
    <3> QED
      BY <3>1, <3>3
  <2> QED
    BY <1>3, <2>1, <2>2, Zenon DEF Plays!Ordered
<1>11. Plays!Counted(t)
  <2>1. \A j \in 0 .. n - 1 : t.op_rec_[j].op \notin {"CSum", "CSkip"}
    BY <1>6, Zenon
  <2> QED
    BY <1>3, <2>1 DEF Plays!Counted
<1> QED
  BY <1>7, <1>8, <1>9, <1>10, <1>11, Zenon DEF Plays!WellFormed

-----------------------------------------------------------------------------
(* Playing a tape back: the cursor goes from operator to operator as the   *)
(* recorder put them, and the player computes the values of the variables  *)
(* in the order of their addresses.                                        *)

(* The least of a set of naturals. *)
LEMMA LeastNatural ==
  ASSUME NEW S, S \subseteq Nat, S # {}
  PROVE  \E n \in S : \A m \in S : n <= m
<1>1. PICK n : n \in S /\ \A m \in S : ~ (<<m, n>> \in OpToRel(<, Nat))
  BY NatLessThanWellFounded, WFMin, Zenon
<1>2. n \in S
  BY <1>1, Zenon
<1>3. \A m \in S : ~ (m < n)
  BY <1>1 DEF OpToRel
<1> QED
  BY <1>2, <1>3

(* Up to n, in steps of one. *)
LEMMA UpTo ==
  ASSUME NEW n \in Nat, NEW T, 0 \in T,
         \A k \in 1 .. n : k - 1 \in T => k \in T
  PROVE  \A k \in 0 .. n : k \in T
<1> DEFINE S == {k \in 0 .. n : k \notin T}
<1>1. SUFFICES ASSUME S # {} PROVE FALSE
  OBVIOUS
<1>2. PICK k \in S : \A m \in S : k <= m
  <2>1. S \subseteq Nat
    OBVIOUS
  <2> HIDE DEF S
  <2> QED
    BY <1>1, <2>1, LeastNatural
<1>3. k # 0
  OBVIOUS
<1>4. k \in 1 .. n /\ k - 1 \in 0 .. n /\ k - 1 \notin S
  BY <1>2, <1>3
<1> QED
  BY <1>4

(* The largest of the first n, and of an interval. *)
LEMMA Largest ==
  ASSUME NEW n \in Nat, NEW t, t \subseteq 1 .. n, t # {}
  PROVE  Max(t) \in t /\ \A k \in t : k <= Max(t)
<1> DEFINE S == {k \in 0 .. n : n - k \in t}
<1>1. S # {} /\ S \subseteq Nat
  <2>1. PICK k \in t : TRUE
    OBVIOUS
  <2>2. n - k \in 0 .. n /\ n - (n - k) = k
    BY <2>1
  <2> QED
    BY <2>1, <2>2
<1>2. \A m \in t : n - m \in S
  OBVIOUS
<1>3. PICK k \in S : \A m \in S : k <= m
  <2> HIDE DEF S
  <2> QED
    BY <1>1, LeastNatural
<1>4. \A m \in t : m <= n - k
  BY <1>3, <1>2
<1>5. \E x \in t : \A y \in t : x >= y
  BY <1>3, <1>4
<1> QED
  BY <1>5 DEF Max

LEMMA LargestOfInterval ==
  ASSUME NEW n \in Nat, NEW k \in 1 .. n
  PROVE  /\ Max(1 .. k) = k /\ (1 .. k) \ {k} = 1 .. k - 1
         /\ 1 .. k \in SUBSET (1 .. n)
<1>1. 1 .. k \subseteq 1 .. n /\ k \in 1 .. k
  OBVIOUS
<1>2. Max(1 .. k) \in 1 .. k /\ k <= Max(1 .. k)
  BY <1>1, Largest
<1> QED
  BY <1>1, <1>2

(* The vectors hold no operator of the optimizer. *)
LEMMA CodePlain ==
  ASSUME NEW s, Sound(s), NEW i \in 1 .. Len(s), NEW code, code = OpCodeOf(s[i])
  PROVE  code.op \notin {"CSum", "CSkip"}
<1>1. s[i].op \in OpCode
  BY SoundAt
<1>2. code.op = "CExp" \/ code.op = s[i].op
  BY DEF OpCodeOf
<1> QED
  BY <1>1, <1>2, UnaryAssumption DEF OpCode, Binary, Comparison, CondExp, Optimized

(* forward_next goes from an operator to the next. *)
LEMMA Advances ==
  ASSUME NEW s, Sound(s), NEW t, Laid(t, s), Plays!WellFormed(t),
         NEW i \in 1 .. Len(s) - 1
  PROVE  Plays!forward_next(t, Plays!At(t, i - 1)) = Plays!At(t, i)
<1>1. Len(s) \in Nat /\ t.num_op_rec = Len(s) /\ i \in 1 .. Len(s)
  <2>1. Len(s) \in Nat
    BY LenProperties DEF Sound
  <2> QED
    BY <2>1 DEF Laid
<1>2. t.op_rec_[i - 1] = OpCodeOf(s[i])
  BY <1>1 DEF Laid, LaidAt
<1>3. t.op_rec_[i - 1].op \notin {"CSum", "CSkip"}
  BY <1>1, <1>2, CodePlain
<1>4. /\ t.first[i] = t.first[i - 1] + Plays!Size(t, i - 1)
      /\ t.last[i] = t.last[i - 1] + Plays!NumRes(t.op_rec_[i].op)
  BY <1>1 DEF Plays!WellFormed, Plays!Adjacent
<1>5. Plays!Size(t, i - 1) = Plays!NumArg(t.op_rec_[i - 1])
  BY <1>3 DEF Plays!Size
<1>6. (i - 1) + 1 = i
  OBVIOUS
<1>7. PICK c : c = Plays!At(t, i - 1)
  OBVIOUS
<1>8. c.op_index_ = i - 1 /\ c.op_arg_ = t.first[i - 1] /\ c.var_index_ = t.last[i - 1]
  BY <1>7 DEF Plays!At
<1>9. Plays!OpAt(t, c) = t.op_rec_[i - 1]
  BY <1>8 DEF Plays!OpAt
<1>10. Plays!forward_next(t, c)
         = [op_index_ |-> i,
            op_arg_ |-> t.first[i - 1] + Plays!NumArg(t.op_rec_[i - 1]),
            var_index_ |-> t.last[i - 1] + Plays!NumRes(t.op_rec_[i].op)]
  BY <1>6, <1>8, <1>9, Zenon DEF Plays!forward_next
<1> QED
  BY <1>4, <1>5, <1>7, <1>10, Zenon DEF Plays!At

(* The player t has the recording F. *)
Recalls(t, F) ==
  /\ Recorded(F) /\ Faithful(F) /\ Inputs(F)
  /\ Sound(F.tape) /\ F.tape[Len(F.tape)].res = Len(F.den)
  /\ Laid(t, F.tape) /\ Plays!WellFormed(t) /\ t.par_rec_ = F.par_rec_

(* A step of Replay, and what it starts from. *)
ComputedFrom(var, ins, s) ==
  [a \in DOMAIN var |->
     IF a = ins.res THEN Value(ins.op, s)
     ELSE IF ins.op \in TwoResults /\ a = ins.res - 1 THEN Aux(ins.op, s)
     ELSE var[a]]

AfterInstruction(t, c, ins, var) ==
  [cursor |-> c,
   var |-> IF ins.op = "Inv" \/ NumRes(ins.op) = 0 THEN var
           ELSE ComputedFrom(var, ins, Operands(ins, var, t.par_rec_))]

PlayedOn(t, x) ==
  AfterInstruction(t, Plays!forward_next(t, x.cursor),
                   Plays!Instr(t, Plays!forward_next(t, x.cursor)), x.var)

PlayedFrom(t, u) ==
  [cursor |-> Plays!forward_start,
   var |-> [a \in 1 .. t.num_var_rec - 1 |-> IF a \in 1 .. Dim THEN u[a] ELSE Zero]]

(* Up to operator k the player has computed what the recorder said. *)
VarAt(t, F, u, k) ==
  [a \in 1 .. t.num_var_rec - 1 |->
     IF a \in 1 .. Dim \/ a <= F.tape[k + 1].res THEN F.den[a][u] ELSE Zero]

StateAt(t, F, u, k) == [cursor |-> Plays!At(t, k), var |-> VarAt(t, F, u, k)]

LEMMA RecallsFacts ==
  ASSUME NEW t, NEW F, Recalls(t, F), NEW n, n = Len(F.tape)
  PROVE  /\ n \in Nat /\ n > 0 /\ n > Dim /\ Dim \in Nat \ {0}
         /\ Len(F.den) \in Nat /\ DOMAIN F.den = 1 .. Len(F.den)
         /\ t.num_op_rec = n /\ t.num_var_rec - 1 = Len(F.den)
         /\ F.tape[n].res = Len(F.den) /\ Dim <= Len(F.den)
         /\ \A i \in 1 .. n : F.tape[i] \in Instruction /\ F.tape[i].res \in Nat
                              /\ F.tape[i].res <= Len(F.den)
         /\ F.tape[1].res = 0 /\ F.tape[1].op = "Begin"
         /\ \A i \in 2 .. n : F.tape[i].res = F.tape[i - 1].res + NumRes(F.tape[i].op)
<1>1. /\ F.tape \in Seq(Instruction) /\ F.den \in Seq([Point -> Num])
      /\ Sound(F.tape) /\ Faithful(F) /\ Laid(t, F.tape)
      /\ F.tape[n].res = Len(F.den) /\ Dim <= Len(F.den)
  BY DEF Recalls, Recorded, Inputs
<1>2. n \in Nat /\ Len(F.den) \in Nat /\ DOMAIN F.den = 1 .. Len(F.den) /\ DOMAIN F.tape = 1 .. n
  BY <1>1, LenProperties
<1>3. n > Dim /\ Dim \in Nat \ {0} /\ n > 0
  BY <1>1, <1>2, VectorAssumption DEF Sound
<1>4. t.num_op_rec = n /\ t.num_var_rec = Len(F.den) + 1
  BY <1>1 DEF Laid
<1>5. t.num_var_rec - 1 = Len(F.den)
  BY <1>2, <1>4
<1>6. \A i \in 1 .. n : F.tape[i] \in Instruction
  BY <1>1
<1>7. \A i \in 1 .. n : F.tape[i].res \in Nat /\ F.tape[i].res <= Len(F.den)
  BY <1>1, <1>2, <1>6 DEF Faithful, Instruction
<1>8. F.tape[1].res = 0 /\ F.tape[1].op = "Begin"
  <2>1. 1 \in DOMAIN F.tape
    BY <1>2, <1>3
  <2> QED
    BY <1>1, <2>1 DEF Faithful
<1>9. \A i \in 2 .. n : F.tape[i].res = F.tape[i - 1].res + NumRes(F.tape[i].op)
  <2> SUFFICES ASSUME NEW i \in 2 .. n
               PROVE  F.tape[i].res = F.tape[i - 1].res + NumRes(F.tape[i].op)
    OBVIOUS
  <2>1. i \in DOMAIN F.tape /\ i # 1
    BY <1>2
  <2> QED
    BY <1>1, <2>1 DEF Faithful
<1> QED
  BY <1>1, <1>2, <1>3, <1>4, <1>5, <1>6, <1>7, <1>8, <1>9

(* The operands of an instruction are computed before it. *)
LEMMA OperandsComputed ==
  ASSUME NEW t, NEW F, Recalls(t, F), NEW u \in Point,
         NEW k \in 1 .. Len(F.tape) - 1, NEW ins, ins = F.tape[k + 1]
  PROVE  Operands(ins, VarAt(t, F, u, k - 1), t.par_rec_)
           = Operands(ins, Played(F, u), F.par_rec_)
<1>1. PICK n : n = Len(F.tape)
  OBVIOUS
<1>2. PICK m, r : m = Len(F.den) /\ r = F.tape[k].res
  OBVIOUS
<1>3. /\ n \in Nat /\ m \in Nat /\ DOMAIN F.den = 1 .. m /\ t.num_var_rec - 1 = m
      /\ \A i \in 1 .. n : F.tape[i].res \in Nat /\ F.tape[i].res <= m
      /\ \A i \in 2 .. n : F.tape[i].res = F.tape[i - 1].res + NumRes(F.tape[i].op)
  BY <1>1, <1>2, RecallsFacts
<1>4. k \in 1 .. n /\ k + 1 \in 2 .. n /\ (k + 1) - 1 = k /\ k + 1 \in DOMAIN F.tape
  <2>1. F.tape \in Seq(Instruction)
    BY DEF Recalls, Recorded
  <2> QED
    BY <1>1, <1>3, <2>1, LenProperties
<1>5. r \in Nat /\ r <= m /\ ins.res = r + NumRes(ins.op) /\ NumRes(ins.op) \in Nat
  <2>1. F.tape[k + 1].res = F.tape[(k + 1) - 1].res + NumRes(F.tape[k + 1].op)
    BY <1>3, <1>4
  <2> QED
    BY <1>2, <1>3, <1>4, <2>1 DEF NumRes
<1>6. ArgsValid(ins, Len(F.par_rec_))
  BY <1>4 DEF Recalls, Faithful
<1>7. Before(ins) = 1 .. r
  <2>1. ins.res - NumRes(ins.op) = r
    BY <1>5
  <2> QED
    BY <2>1 DEF Before
<1>8. \A a \in 1 .. r : a \in 1 .. m /\ VarAt(t, F, u, k - 1)[a] = Played(F, u)[a]
  <2> SUFFICES ASSUME NEW a \in 1 .. r
               PROVE  a \in 1 .. m /\ VarAt(t, F, u, k - 1)[a] = Played(F, u)[a]
    OBVIOUS
  <2>1. a \in 1 .. m /\ (k - 1) + 1 = k
    BY <1>3, <1>5
  <2>2. a <= F.tape[(k - 1) + 1].res
    BY <1>2, <1>5, <2>1
  <2>3. VarAt(t, F, u, k - 1)[a] = F.den[a][u]
    BY <1>3, <2>1, <2>2 DEF VarAt
  <2> QED
    BY <1>3, <2>1, <2>3 DEF Played
<1>9. \A j \in DOMAIN ins.arg : ins.kind[j] = "v" =>
         VarAt(t, F, u, k - 1)[ins.arg[j]] = Played(F, u)[ins.arg[j]]
  BY <1>6, <1>7, <1>8 DEF ArgsValid
<1>10. t.par_rec_ = F.par_rec_
  BY DEF Recalls
<1> QED
  BY <1>9, <1>10 DEF Operands

LEMMA InputAddress ==
  ASSUME NEW t, NEW F, Recalls(t, F), NEW k \in 0 .. Dim
  PROVE  F.tape[k + 1].res = k
<1>1. PICK n : n = Len(F.tape)
  OBVIOUS
<1>2. /\ n \in Nat /\ n > Dim /\ Dim \in Nat \ {0} /\ F.tape[1].res = 0
      /\ \A i \in 2 .. n : F.tape[i].res = F.tape[i - 1].res + NumRes(F.tape[i].op)
  BY <1>1, RecallsFacts
<1> DEFINE T == {i \in 0 .. Dim : F.tape[i + 1].res = i}
<1>3. 0 \in T
  BY <1>2
<1>4. NumRes("Inv") = 1
  BY UnaryAssumption DEF NumRes, Comparison
<1>5. ASSUME NEW i \in 1 .. Dim, i - 1 \in T
      PROVE  i \in T
  <2>1. i + 1 \in 2 .. n /\ (i + 1) - 1 = i /\ (i - 1) + 1 = i /\ i + 1 \in 2 .. Dim + 1
    BY <1>2
  <2>2. F.tape[i + 1].op = "Inv"
    BY <1>1, <1>2, <2>1 DEF Recalls, Sound
  <2>3. F.tape[i].res = i - 1
    BY <1>5, <2>1
  <2>4. F.tape[i + 1].res = F.tape[i].res + 1
    BY <1>2, <1>4, <2>1, <2>2
  <2>5. F.tape[i + 1].res = i
    BY <2>3, <2>4
  <2> QED
    BY <2>5
<1>6. Dim \in Nat
  BY <1>2
<1> HIDE DEF T
<1>7. \A i \in 1 .. Dim : i - 1 \in T => i \in T
  BY <1>5
<1>8. \A i \in 0 .. Dim : i \in T
  BY <1>3, <1>6, <1>7, UpTo
<1>9. k \in T
  BY <1>8
<1> QED
  BY <1>9 DEF T

(* An instruction gives its results their values, and leaves the others.   *)
LEMMA InstructionPlayed ==
  ASSUME NEW t, NEW F, Recalls(t, F), NEW u \in Point,
         NEW k \in 1 .. Len(F.tape) - 1, NEW c
  PROVE  AfterInstruction(t, c, F.tape[k + 1], VarAt(t, F, u, k - 1)).var
           = VarAt(t, F, u, k)
<1>1. PICK n : n = Len(F.tape)
  OBVIOUS
<1>0. PICK ins, V : ins = F.tape[k + 1] /\ V = VarAt(t, F, u, k - 1)
  OBVIOUS
<1>2. PICK m, r : m = Len(F.den) /\ r = F.tape[k].res
  OBVIOUS
<1>3. /\ n \in Nat /\ m \in Nat /\ DOMAIN F.den = 1 .. m /\ t.num_var_rec - 1 = m
      /\ Dim \in Nat
      /\ \A i \in 1 .. n : F.tape[i].res \in Nat /\ F.tape[i].res <= m
      /\ \A i \in 2 .. n : F.tape[i].res = F.tape[i - 1].res + NumRes(F.tape[i].op)
  BY <1>1, <1>2, RecallsFacts
<1>4. k \in 1 .. n /\ k + 1 \in 2 .. n /\ (k + 1) - 1 = k /\ (k - 1) + 1 = k
      /\ k + 1 \in DOMAIN F.tape /\ k + 1 \in 1 .. n
  <2>1. F.tape \in Seq(Instruction)
    BY DEF Recalls, Recorded
  <2> QED
    BY <1>1, <1>3, <2>1, LenProperties
<1>5. /\ r \in Nat /\ r <= m /\ ins.res \in Nat /\ ins.res <= m
      /\ ins.res = r + NumRes(ins.op) /\ NumRes(ins.op) \in {0, 1, 2}
      /\ ins.op \in TwoResults <=> NumRes(ins.op) = 2
  <2>1. F.tape[k + 1].res = F.tape[(k + 1) - 1].res + NumRes(F.tape[k + 1].op)
    BY <1>3, <1>4
  <2> QED
    BY <1>0, <1>2, <1>3, <1>4, <2>1 DEF NumRes
<1>6. /\ ins.op = "Inv" <=> k <= Dim
      /\ ins.op # "Begin"
  <2>1. /\ ins.op = "Begin" <=> k + 1 = 1
        /\ ins.op = "Inv" <=> k + 1 \in 2 .. Dim + 1
    BY <1>0, <1>1, <1>4 DEF Recalls, Sound
  <2> QED
    BY <1>3, <2>1
<1>7. /\ DOMAIN V = 1 .. m
      /\ \A a \in 1 .. m :
           /\ a \in 1 .. Dim \/ a <= r => V[a] = F.den[a][u]
           /\ ~(a \in 1 .. Dim \/ a <= r) => V[a] = Zero
  BY <1>0, <1>2, <1>3, <1>4 DEF VarAt
<1>8. PICK W : W = VarAt(t, F, u, k)
  OBVIOUS
<1>9. /\ DOMAIN W = 1 .. m /\ W = [a \in 1 .. m |-> W[a]]
      /\ \A a \in 1 .. m :
           /\ a \in 1 .. Dim \/ a <= ins.res => W[a] = F.den[a][u]
           /\ ~(a \in 1 .. Dim \/ a <= ins.res) => W[a] = Zero
  BY <1>0, <1>3, <1>8 DEF VarAt
<1>10. V = [a \in 1 .. m |-> V[a]]
  BY <1>0, <1>3 DEF VarAt
<1>11. PICK o : o = Operands(ins, V, t.par_rec_)
  OBVIOUS
<1>12. CASE ins.op = "Inv" \/ NumRes(ins.op) = 0
  <2>1. AfterInstruction(t, c, ins, V).var = V
    BY <1>12 DEF AfterInstruction
  <2>2. ASSUME NEW a \in 1 .. m
        PROVE  (a \in 1 .. Dim \/ a <= ins.res) <=> (a \in 1 .. Dim \/ a <= r)
    <3>1. CASE NumRes(ins.op) = 0
      BY <1>5, <3>1
    <3>2. CASE ins.op = "Inv"
      <4>1. k \in 0 .. Dim /\ k - 1 \in 0 .. Dim
        BY <1>3, <1>6, <3>2
      <4>2. F.tape[k + 1].res = k
        BY <4>1, InputAddress
      <4>3. F.tape[(k - 1) + 1].res = k - 1
        BY <4>1, InputAddress
      <4> QED
        BY <1>0, <1>2, <1>3, <1>4, <4>1, <4>2, <4>3
    <3> QED
      BY <1>12, <3>1, <3>2
  <2>3. \A a \in 1 .. m : V[a] = W[a]
    BY <1>7, <1>9, <2>2
  <2>4. V = W
    BY <1>9, <1>10, <2>3
  <2> QED
    BY <1>0, <1>8, <2>1, <2>4
<1>13. CASE ~(ins.op = "Inv" \/ NumRes(ins.op) = 0)
  <2>1. AfterInstruction(t, c, ins, V).var = ComputedFrom(V, ins, o)
    BY <1>11, <1>13 DEF AfterInstruction
  <2>2. Solves(ins, Played(F, u), F.par_rec_)
    BY <1>0, <1>4 DEF Recalls, Faithful
  <2>3. o = Operands(ins, Played(F, u), F.par_rec_)
    BY <1>0, <1>11, OperandsComputed
  <2>4. /\ Played(F, u)[ins.res] = Value(ins.op, o)
        /\ ins.op \in TwoResults => Played(F, u)[ins.res - 1] = Aux(ins.op, o)
    BY <1>5, <1>6, <1>13, <2>2, <2>3 DEF Solves
  <2>5. /\ ins.res \in 1 .. m /\ ins.res > r
        /\ ins.op \in TwoResults => ins.res - 1 \in 1 .. m /\ ins.res - 1 > r
        /\ ins.op \notin TwoResults => ins.res = r + 1
        /\ ins.op \in TwoResults => ins.res = r + 2
    BY <1>3, <1>5, <1>13
  <2>6. /\ F.den[ins.res][u] = Value(ins.op, o)
        /\ ins.op \in TwoResults => F.den[ins.res - 1][u] = Aux(ins.op, o)
    BY <1>3, <2>4, <2>5 DEF Played
  <2>7. ASSUME NEW a \in 1 .. m
        PROVE  ComputedFrom(V, ins, o)[a] = W[a]
    <3>1. CASE a = ins.res
      <4>1. ComputedFrom(V, ins, o)[a] = Value(ins.op, o)
        BY <1>7, <3>1 DEF ComputedFrom
      <4> QED
        BY <1>5, <1>9, <2>6, <3>1, <4>1
    <3>2. CASE a # ins.res /\ ins.op \in TwoResults /\ a = ins.res - 1
      <4>1. ComputedFrom(V, ins, o)[a] = Aux(ins.op, o)
        BY <1>7, <3>2 DEF ComputedFrom
      <4>2. a <= ins.res
        BY <1>5, <3>2
      <4> QED
        BY <1>9, <2>6, <3>2, <4>1, <4>2
    <3>3. CASE a # ins.res /\ ~(ins.op \in TwoResults /\ a = ins.res - 1)
      <4>1. ComputedFrom(V, ins, o)[a] = V[a]
        BY <1>7, <3>3 DEF ComputedFrom
      <4>2. a <= ins.res <=> a <= r
        BY <1>5, <2>5, <3>3
      <4> QED
        BY <1>7, <1>9, <4>1, <4>2
    <3> QED
      BY <3>1, <3>2, <3>3
  <2>8. ComputedFrom(V, ins, o) = W
    <3>1. PICK X : X = ComputedFrom(V, ins, o)
      OBVIOUS
    <3>2. DOMAIN X = 1 .. m /\ X = [a \in 1 .. m |-> X[a]]
      BY <1>7, <3>1 DEF ComputedFrom
    <3> QED
      BY <1>9, <2>7, <3>1, <3>2
  <2> QED
    BY <1>0, <1>8, <2>1, <2>8
<1> QED
  BY <1>12, <1>13

LEMMA PlayedNext ==
  ASSUME NEW t, NEW F, Recalls(t, F), NEW u \in Point,
         NEW k \in 1 .. Len(F.tape) - 1
  PROVE  PlayedOn(t, StateAt(t, F, u, k - 1)) = StateAt(t, F, u, k)
<1>1. PICK x : x = StateAt(t, F, u, k - 1)
  OBVIOUS
<1>2. PICK V : V = VarAt(t, F, u, k - 1)
  OBVIOUS
<1>3. x.cursor = Plays!At(t, k - 1) /\ x.var = V
  BY <1>1, <1>2 DEF StateAt
<1>4. PICK c : c = Plays!At(t, k)
  OBVIOUS
<1>5. Sound(F.tape) /\ Laid(t, F.tape) /\ Plays!WellFormed(t)
  BY DEF Recalls
<1>6. Plays!forward_next(t, x.cursor) = c
  BY <1>3, <1>4, <1>5, Advances
<1>7. PICK ins : ins = F.tape[k + 1]
  OBVIOUS
<1>8. Plays!Instr(t, c) = ins
  <2>1. k + 1 \in 1 .. Len(F.tape) /\ (k + 1) - 1 = k
    <3>1. Len(F.tape) \in Nat
      BY RecallsFacts
    <3> QED
      BY <3>1
  <2>2. Plays!Instr(t, Plays!At(t, (k + 1) - 1)) = F.tape[k + 1]
    BY <1>5, <2>1, InstrIs
  <2> QED
    BY <1>4, <1>7, <2>1, <2>2
<1>9. PlayedOn(t, x) = AfterInstruction(t, c, ins, V)
  BY <1>3, <1>6, <1>8, Zenon DEF PlayedOn
<1>10. PICK y : y = AfterInstruction(t, c, ins, V)
  OBVIOUS
<1>11. y = [cursor |-> c, var |-> y.var]
  BY <1>10 DEF AfterInstruction
<1>12. y.var = VarAt(t, F, u, k)
  <2>1. AfterInstruction(t, c, F.tape[k + 1], VarAt(t, F, u, k - 1)).var = VarAt(t, F, u, k)
    BY InstructionPlayed, Zenon
  <2> QED
    BY <1>2, <1>7, <1>10, <2>1
<1> QED
  BY <1>1, <1>4, <1>9, <1>10, <1>11, <1>12, Zenon DEF StateAt

LEMMA PlayedStart ==
  ASSUME NEW t, NEW F, Recalls(t, F), NEW u \in Point
  PROVE  PlayedFrom(t, u) = StateAt(t, F, u, 0)
<1>1. PICK m : m = Len(F.den)
  OBVIOUS
<1>2. m \in Nat /\ t.num_var_rec - 1 = m /\ F.tape[1].res = 0 /\ Dim <= m /\ Dim \in Nat
  BY <1>1, RecallsFacts
<1>3. t.first[0] = 0 /\ t.last[0] = 0
  BY DEF Recalls, Plays!WellFormed, Plays!Adjacent
<1>4. Plays!forward_start = Plays!At(t, 0)
  BY <1>3 DEF Plays!forward_start, Plays!At
<1>5. \A a \in 1 .. m : a \in 1 .. Dim \/ a <= F.tape[0 + 1].res <=> a \in 1 .. Dim
  BY <1>2
<1>6. \A a \in 1 .. Dim : F.den[a][u] = u[a]
  BY DEF Recalls, Inputs
<1>7. \A a \in 1 .. m :
        (IF a \in 1 .. Dim THEN u[a] ELSE Zero)
          = (IF a \in 1 .. Dim \/ a <= F.tape[0 + 1].res THEN F.den[a][u] ELSE Zero)
  BY <1>5, <1>6
<1>8. [a \in 1 .. m |-> IF a \in 1 .. Dim THEN u[a] ELSE Zero] = VarAt(t, F, u, 0)
  BY <1>2, <1>7 DEF VarAt
<1> QED
  BY <1>2, <1>4, <1>8 DEF PlayedFrom, StateAt

(* Replay is a fold: of the operators c, what playing them comes to. *)
Repeats(t, u, n, it) ==
  it = [c \in SUBSET (1 .. n) |->
          IF c = {} THEN PlayedFrom(t, u)
          ELSE LET x == Max(c) IN PlayedOn(t, it[c \ {x}])]

LEMMA ReplayFolds ==
  ASSUME NEW t, NEW u, NEW n, n = t.num_op_rec - 1
  PROVE  Replay(t, u) = ((CHOOSE it : Repeats(t, u, n, it))[1 .. n]).var
<1> DEFINE s == [i \in 1 .. n |-> i]
<1>1. DOMAIN s = 1 .. n
  OBVIOUS
<1>2. Replay(t, u)
        = ((CHOOSE it : it = [c \in SUBSET DOMAIN s |->
              IF c = {} THEN PlayedFrom(t, u)
              ELSE LET x == Max(c) IN PlayedOn(t, it[c \ {x}])])[DOMAIN s]).var
  BY DEF Replay, FoldLeft, MapThenFoldSet, PlayedFrom, PlayedOn, AfterInstruction, ComputedFrom
<1> HIDE DEF s
<1> QED
  BY <1>1, <1>2 DEF Repeats

(* Playing depends on how many operators there are, not on their index. *)
LEMMA RepeatsExists ==
  ASSUME NEW t, NEW F, Recalls(t, F), NEW u \in Point,
         NEW n, n = Len(F.tape) - 1
  PROVE  \E it : Repeats(t, u, n, it)
<1>1. n \in Nat
  <2>1. Len(F.tape) \in Nat /\ Len(F.tape) > 0
    BY RecallsFacts
  <2> QED
    BY <2>1
<1>2. PICK it : it = [c \in SUBSET (1 .. n) |-> StateAt(t, F, u, Cardinality(c))]
  OBVIOUS
<1>3. IsFiniteSet(1 .. n) /\ Cardinality(1 .. n) = n
  <2>1. 1 \in Int /\ n \in Int
    BY <1>1
  <2>2. IsFiniteSet(1 .. n) /\ Cardinality(1 .. n) = IF 1 > n THEN 0 ELSE n - 1 + 1
    BY <2>1, FS_Interval
  <2> QED
    BY <1>1, <2>2
<1>4. ASSUME NEW c \in SUBSET (1 .. n), c # {}
      PROVE  StateAt(t, F, u, Cardinality(c)) = PlayedOn(t, it[c \ {Max(c)}])
  <2>1. PICK x : x = Max(c)
    OBVIOUS
  <2>2. x \in c
    BY <1>1, <1>4, <2>1, Largest
  <2>3. IsFiniteSet(c) /\ Cardinality(c) <= n
    BY <1>3, FS_Subset
  <2>4. Cardinality(c) \in Nat /\ Cardinality(c) # 0
    BY <1>4, <2>3, FS_CardinalityType, FS_EmptySet
  <2>5. PICK k : k = Cardinality(c)
    OBVIOUS
  <2>6. Cardinality(c \ {x}) = k - 1
    BY <2>2, <2>3, <2>5, FS_RemoveElement
  <2>7. k \in 1 .. Len(F.tape) - 1
    BY <1>1, <2>3, <2>4, <2>5
  <2>8. it[c \ {x}] = StateAt(t, F, u, k - 1)
    <3>1. c \ {x} \in SUBSET (1 .. n)
      OBVIOUS
    <3> QED
      BY <1>2, <2>6, <3>1
  <2>9. PlayedOn(t, StateAt(t, F, u, k - 1)) = StateAt(t, F, u, k)
    BY <2>7, PlayedNext, Zenon
  <2> QED
    BY <2>1, <2>5, <2>8, <2>9, Zenon
<1>5. StateAt(t, F, u, Cardinality({})) = PlayedFrom(t, u)
  BY FS_EmptySet, PlayedStart
<1>6. \A c \in SUBSET (1 .. n) :
        it[c] = IF c = {} THEN PlayedFrom(t, u) ELSE PlayedOn(t, it[c \ {Max(c)}])
  BY <1>2, <1>4, <1>5
<1>7. it = [c \in SUBSET (1 .. n) |-> it[c]]
  BY <1>2
<1>8. Repeats(t, u, n, it)
  BY <1>6, <1>7 DEF Repeats
<1> QED
  BY <1>8

(* Played from any point, a recording gives every variable its value.      *)
LEMMA ReplayIs ==
  ASSUME NEW t, NEW F, Recalls(t, F), NEW u \in Point
  PROVE  Replay(t, u) = Played(F, u)
<1>1. PICK n : n = Len(F.tape) - 1
  OBVIOUS
<1>2. /\ n \in Nat /\ n = t.num_op_rec - 1 /\ n + 1 = Len(F.tape)
      /\ Len(F.den) \in Nat /\ DOMAIN F.den = 1 .. Len(F.den)
      /\ t.num_var_rec - 1 = Len(F.den) /\ F.tape[n + 1].res = Len(F.den)
  <2>1. PICK l : l = Len(F.tape)
    OBVIOUS
  <2>2. /\ l \in Nat /\ l > 0 /\ t.num_op_rec = l /\ F.tape[l].res = Len(F.den)
        /\ Len(F.den) \in Nat /\ DOMAIN F.den = 1 .. Len(F.den)
        /\ t.num_var_rec - 1 = Len(F.den)
    BY <2>1, RecallsFacts
  <2>3. n \in Nat /\ n + 1 = l
    BY <1>1, <2>1, <2>2
  <2> QED
    BY <1>1, <2>1, <2>2, <2>3
<1>3. PICK it : Repeats(t, u, n, it) /\ Replay(t, u) = (it[1 .. n]).var
  <2>1. \E it : Repeats(t, u, n, it)
    BY <1>1, RepeatsExists
  <2>2. Replay(t, u) = ((CHOOSE it : Repeats(t, u, n, it))[1 .. n]).var
    BY <1>2, ReplayFolds
  <2> QED
    BY <2>1, <2>2
<1> DEFINE T == {k \in 0 .. n : it[1 .. k] = StateAt(t, F, u, k)}
<1>4. 0 \in T
  <2>1. 1 .. 0 = {} /\ {} \in SUBSET (1 .. n)
    OBVIOUS
  <2>2. it[{}] = PlayedFrom(t, u)
    BY <1>3, <2>1 DEF Repeats
  <2>3. PlayedFrom(t, u) = StateAt(t, F, u, 0)
    BY PlayedStart
  <2> QED
    BY <1>2, <2>1, <2>2, <2>3
<1>5. ASSUME NEW k \in 1 .. n, k - 1 \in T
      PROVE  k \in T
  <2>1. Max(1 .. k) = k /\ (1 .. k) \ {k} = 1 .. k - 1 /\ 1 .. k \in SUBSET (1 .. n)
        /\ 1 .. k # {}
    BY <1>2, LargestOfInterval
  <2>2. it[1 .. k] = PlayedOn(t, it[1 .. k - 1])
    BY <1>3, <2>1 DEF Repeats
  <2>3. it[1 .. k - 1] = StateAt(t, F, u, k - 1)
    BY <1>5
  <2>4. k \in 1 .. Len(F.tape) - 1
    BY <1>1
  <2>5. PlayedOn(t, StateAt(t, F, u, k - 1)) = StateAt(t, F, u, k)
    BY <2>4, PlayedNext, Zenon
  <2>6. k \in 0 .. n
    BY <1>2
  <2> QED
    BY <2>2, <2>3, <2>5, <2>6
<1>6. n \in T
  <2> HIDE DEF T
  <2>1. \A k \in 1 .. n : k - 1 \in T => k \in T
    BY <1>5
  <2>2. \A k \in 0 .. n : k \in T
    BY <1>2, <1>4, <2>1, UpTo
  <2> QED
    BY <1>2, <2>2
<1>7. Replay(t, u) = VarAt(t, F, u, n)
  BY <1>3, <1>6 DEF StateAt
<1>8. VarAt(t, F, u, n) = [a \in 1 .. Len(F.den) |-> F.den[a][u]]
  BY <1>2 DEF VarAt
<1> QED
  BY <1>2, <1>7, <1>8 DEF Played

-----------------------------------------------------------------------------

(* r is s and EndOp, which V gets.                                         *)
Ended(V, s, r) ==
  /\ Sound(r) /\ Written(PutInstruction(V, r[Len(r)]), r)
  /\ Len(r) = Len(s) + 1
  /\ \A k \in 1 .. Len(s) : r[k] = s[k]
  /\ \A i \in 1 .. Len(r) : r[i].op = "End" <=> i = Len(r)

LEMMA EndAdds ==
  ASSUME NEW W, Live(W), NEW V, Sound(W.tape), Open(W.tape), Written(V, W.tape),
         NEW R, R = Put(W, "End", <<>>, <<>>)
  PROVE  Ended(V, W.tape, R.tape) /\ Live(R)
<1>1. /\ NumRes("End") = 0 /\ "End" \notin TwoResults
      /\ "End" \in OpCode \ {"Begin", "Inv"} /\ "End" \notin CondExp
  BY UnaryAssumption DEF NumRes, OpCode, CondExp
<1>2. Live(R)
  <2>1. PICK none : none = [u \in Point |-> ArgValues(W, <<>>, <<>>, u)]
    OBVIOUS
  <2>2. WellPut(W, <<>>, <<>>)
    BY DEF WellPut
  <2>3. Total("End", none)
    BY <1>1 DEF Total
  <2>4. Adds(W, Put(W, "End", <<>>, <<>>), "End", none)
    BY <1>1, <2>1, <2>2, <2>3, PutLive
  <2> QED
    BY <2>4, Zenon DEF Adds
<1>3. PICK t, r : t = W.tape /\ r = R.tape
  OBVIOUS
<1>4. /\ t \in Seq(Instruction) /\ Len(t) \in Nat
      /\ W.num_var_rec_ = t[Len(t)].res + 1
      /\ W.num_var_rec_ \in Nat /\ t[Len(t)].res \in Nat
  BY <1>3, NextAddress
<1>5. PICK a : a = t[Len(t)].res
  OBVIOUS
<1>6. PICK ins : ins = [op |-> "End", kind |-> <<>>, arg |-> <<>>, res |-> a]
  OBVIOUS
<1>7. r = Append(t, ins)
  <2>1. R.tape = Append(W.tape, [op |-> "End", kind |-> <<>>, arg |-> <<>>,
                                 res |-> W.num_var_rec_ + NumRes("End") - 1])
    BY DEF Put, Live, Recorder
  <2>2. W.num_var_rec_ + NumRes("End") - 1 = a
    BY <1>1, <1>4, <1>5
  <2> QED
    BY <1>3, <1>6, <2>1, <2>2, Zenon
<1>8. /\ ins \in Instruction /\ ins.op = "End" /\ ins.kind = <<>> /\ ins.arg = <<>>
      /\ ins.res = a /\ Len(ins.kind) = 0 /\ Len(ins.arg) = 0
  BY <1>1, <1>4, <1>5, <1>6 DEF Instruction
<1>9. Sound(r) /\ Written(PutInstruction(V, ins), r)
  <2>1. ins.res = t[Len(t)].res + NumRes(ins.op)
    BY <1>1, <1>4, <1>5, <1>8
  <2>2. FromResults(t, ins)
    BY <1>8 DEF FromResults
  <2>3. ins.op \notin {"Begin", "Inv"} /\ ins.op \notin CondExp
    BY <1>1, <1>8
  <2>4. Sound(t) /\ Written(V, t)
    BY <1>3
  <2>5. Named(ins)
    BY <1>8, UnaryAssumption DEF Named, Plays!OperandKinds, Plays!Binary, Plays!Comparison
  <2> QED
    BY <1>7, <1>8, <2>1, <2>2, <2>3, <2>4, <2>5, AppendSound
<1>10. Len(r) = Len(t) + 1 /\ r[Len(r)] = ins /\ \A k \in 1 .. Len(t) : r[k] = t[k]
  <2>1. Extended(r, t, ins)
    BY <1>4, <1>7, <1>8, AppendIs, Zenon
  <2> QED
    BY <2>1 DEF Extended
<1>11. \A i \in 1 .. Len(r) : r[i].op = "End" <=> i = Len(r)
  <2>1. \A i \in 1 .. Len(r) : i \in 1 .. Len(t) \/ i = Len(r)
    BY <1>4, <1>10
  <2>2. \A i \in 1 .. Len(t) : i # Len(r)
    BY <1>4, <1>10
  <2>3. \A i \in 1 .. Len(t) : t[i].op # "End"
    BY <1>3 DEF Open
  <2> QED
    BY <1>8, <1>10, <2>1, <2>2, <2>3, Zenon
<1>12. Ended(V, t, r)
  BY <1>9, <1>10, <1>11, Zenon DEF Ended
<1> QED
  BY <1>2, <1>3, <1>12, Zenon

(* s is t and one more instruction. *)
Longer(t, s) == Len(s) = Len(t) + 1 /\ \A k \in 1 .. Len(t) : s[k] = t[k]

(* With what Dependent adds before EndOp, a ParOp or nothing, W is as      *)
(* Rec_ was, and V the vectors.                                            *)
Prepared(W, V) ==
  /\ Live(W) /\ Sound(W.tape) /\ Open(W.tape) /\ Written(V, W.tape)
  /\ \A s : Longer(W.tape, s) =>
       Complete(vec, Len(Rec_.tape), s) = PutInstruction(V, s[Len(s)])

LEMMA DependentPrepares ==
  ASSUME PInv, recording, NEW y \in Object,
         NEW W, W = WithDependent(Rec_, object[y])
  PROVE  \E V : Prepared(W, V)
<1>1. IInv /\ Live(Rec_) /\ Sound(Rec_.tape) /\ Open(Rec_.tape) /\ Written(vec, Rec_.tape)
  BY DEF PInv, IInv, Ready
<1>2. Len(Rec_.tape) \in Nat
  BY <1>1, NextAddress
<1>3. CASE Parameter(object[y])
  <2>1. PICK x : x = object[y]
    OBVIOUS
  <2>2. PICK c : c = <<x>>
    OBVIOUS
  <2>3. W = Record(Rec_, "Par", c)
    BY <1>3, <2>1, <2>2 DEF WithDependent
  <2>4. "Par" \in Recordable /\ Arity("Par") = 1
    BY UnaryAssumption DEF Recordable, Arity, Binary, Comparison, CondExp
  <2>5. c \in Seq(AD) /\ Len(c) = 1 /\ \A j \in DOMAIN c : c[j].taddr_ <= Len(Rec_.den)
    <3>1. x \in AD /\ x.taddr_ <= Len(Rec_.den)
      BY <1>1, <2>1, ObjectFunction
    <3> QED
      BY <2>2, <3>1
  <2>6. Linked(c, Rec_.tape)
    BY <1>3, <2>1, <2>2 DEF Linked, Parameter
  <2>7. Adding(vec, Rec_.tape, W.tape)
    BY <1>1, <1>3, <2>1, <2>2, <2>3, <2>4, <2>5, <2>6, RecordAdds
  <2>8. Live(W)
    BY <1>1, <2>3, <2>4, <2>5, RecordShape
  <2>9. PICK V : V = PutInstruction(vec, W.tape[Len(W.tape)])
    OBVIOUS
  <2>10. /\ Sound(W.tape) /\ Open(W.tape) /\ Written(V, W.tape)
         /\ Len(W.tape) = Len(Rec_.tape) + 1
    BY <2>7, <2>9 DEF Adding
  <2>11. ASSUME NEW s, Longer(W.tape, s)
         PROVE  Complete(vec, Len(Rec_.tape), s) = PutInstruction(V, s[Len(s)])
    <3>1. PICK n, d, m : n = Len(s) /\ d = Len(Rec_.tape) /\ m = Len(W.tape)
      OBVIOUS
    <3>2. n = m + 1 /\ m = d + 1 /\ d \in Nat /\ \A k \in 1 .. m : s[k] = W.tape[k]
      BY <1>2, <2>10, <2>11, <3>1 DEF Longer
    <3>3. n = d + 2 /\ n - 1 = m /\ m \in 1 .. m
      BY <3>2
    <3>4. s[n - 1] = W.tape[m]
      BY <3>2, <3>3, Zenon
    <3> QED
      BY <2>9, <3>1, <3>3, <3>4, Zenon DEF Complete
  <2> QED
    BY <2>8, <2>10, <2>11, Zenon DEF Prepared
<1>4. CASE ~Parameter(object[y])
  <2>1. W = Rec_
    BY <1>4 DEF WithDependent
  <2>2. ASSUME NEW s, Longer(W.tape, s)
        PROVE  Complete(vec, Len(Rec_.tape), s) = PutInstruction(vec, s[Len(s)])
    <3>1. PICK n, d : n = Len(s) /\ d = Len(Rec_.tape)
      OBVIOUS
    <3>2. n = d + 1 /\ d \in Nat
      BY <1>2, <2>1, <2>2, <3>1 DEF Longer
    <3>3. n # d + 2
      BY <3>2
    <3> QED
      BY <3>1, <3>3, Zenon DEF Complete
  <2>3. Prepared(W, vec)
    BY <1>1, <2>1, <2>2, Zenon DEF Prepared
  <2> QED
    BY <2>3
<1> QED
  BY <1>3, <1>4

(* Dependent gives the player something the sweeps can play, and what was  *)
(* recorded.                                                               *)
LEMMA TakeStep ==
  ASSUME PInv, NEW y \in Object, Dependent(y),
         play' = get(Complete(vec, Len(Rec_.tape), f'.tape), f'.par_rec_, f'.dep_taddr_)
  PROVE  /\ Plays!WellFormed(play') /\ ReadsAs(play', f'.tape)
         /\ \A u \in Point : Replay(play', u) = Played(f', u)
<1>1. PICK W : W = WithDependent(Rec_, object[y])
  OBVIOUS
<1>2. PICK R : R = Put(W, "End", <<>>, <<>>)
  OBVIOUS
<1>3. PICK a : a = IF Parameter(object[y]) THEN R.num_var_rec_ - 1 ELSE object[y].taddr_
  OBVIOUS
<1>4. /\ recording /\ IInv
      /\ f' = [tape |-> R.tape, par_rec_ |-> R.par_rec_, den |-> R.den, dep_taddr_ |-> a]
  BY <1>1, <1>2, <1>3 DEF Dependent, EndRecording, PInv
<1>5. PICK s, par : s = R.tape /\ par = R.par_rec_
  OBVIOUS
<1>6. f'.tape = s /\ f'.par_rec_ = par /\ f'.dep_taddr_ = a
  BY <1>4, <1>5
<1>7. R \in Recorder /\ Faithful(R) /\ a \in DOMAIN R.den /\ Grows(Rec_, R)
  BY <1>1, <1>2, <1>3, <1>4, DependentTape
<1>8. PICK V : Prepared(W, V)
  BY <1>1, <1>4, DependentPrepares
<1>9. Ended(V, W.tape, s) /\ Live(R)
  <2>1. Live(W) /\ Sound(W.tape) /\ Open(W.tape) /\ Written(V, W.tape)
    BY <1>8, Zenon DEF Prepared
  <2>2. Ended(V, W.tape, R.tape) /\ Live(R)
    BY <1>2, <2>1, EndAdds, Zenon
  <2> QED
    BY <1>5, <2>2
<1>10. PICK X : X = PutInstruction(V, s[Len(s)])
  OBVIOUS
<1>11. Sound(s) /\ Written(X, s)
  BY <1>9, <1>10, Zenon DEF Ended
<1>12. PICK t : t = get(X, par, a)
  OBVIOUS
<1>13. play' = t
  <2>1. Longer(W.tape, s)
    BY <1>9, Zenon DEF Ended, Longer
  <2>2. Complete(vec, Len(Rec_.tape), s) = X
    BY <1>8, <1>10, <2>1, Zenon DEF Prepared
  <2> QED
    BY <1>6, <1>12, <2>2, Zenon
<1>14. Laid(t, s) /\ t.par_rec_ = par /\ t.dep_taddr_ = <<a>>
  BY <1>11, <1>12, GetLaid
<1>15. R.tape \in Seq(Instruction) /\ par \in Seq(Num) /\ R.den \in Seq([Point -> Num])
  BY <1>5, <1>7 DEF Recorder
<1>16. Finished(s, Len(par))
  <2> SUFFICES ASSUME NEW i \in 1 .. Len(s)
               PROVE  /\ s[i].op = "End" <=> i = Len(s)
                      /\ ArgsValid(s[i], Len(par))
                      /\ IF i = 1 THEN s[i].res = 0
                                  ELSE s[i].res = s[i - 1].res + NumRes(s[i].op)
    BY Zenon DEF Finished
  <2>1. s[i].op = "End" <=> i = Len(s)
    BY <1>9, Zenon DEF Ended
  <2>2. DOMAIN s = 1 .. Len(s)
    BY <1>5, <1>15, LenProperties, Zenon
  <2>3. /\ ArgsValid(s[i], Len(par))
        /\ IF i = 1 THEN s[i].op = "Begin" /\ s[i].res = 0
                    ELSE s[i].res = s[i - 1].res + NumRes(s[i].op)
    BY <1>5, <1>7, <2>2, Zenon DEF Faithful
  <2> QED
    BY <2>1, <2>3
<1>17. a \in 1 .. s[Len(s)].res
  <2>1. R.tape[Len(R.tape)].res = Len(R.den)
    BY <1>9 DEF Live
  <2>2. DOMAIN R.den = 1 .. Len(R.den)
    BY <1>15, LenProperties, Zenon
  <2> QED
    BY <1>5, <1>7, <2>1, <2>2, Zenon
(* The dependent variable is the result of ParOp, or has one since it was  *)
(* computed.                                                               *)
<1>18. \E k \in 1 .. Len(s) : s[k].res = a
  <2>1. Len(s) \in Nat /\ Len(s) = Len(W.tape) + 1 /\ Len(W.tape) \in Nat
        /\ \A k \in 1 .. Len(W.tape) : s[k] = W.tape[k]
    <3>1. Live(W) /\ Len(s) = Len(W.tape) + 1 /\ \A k \in 1 .. Len(W.tape) : s[k] = W.tape[k]
      BY <1>8, <1>9, Zenon DEF Prepared, Ended
    <3> QED
      BY <3>1, LenProperties DEF Live, Recorder
  <2>2. CASE Parameter(object[y])
    <3>1. s[Len(s)].res = a
      <4>1. PICK d : d = R.tape[Len(R.tape)].res
        OBVIOUS
      <4>2. /\ a = R.num_var_rec_ - 1 /\ d = Len(R.den)
            /\ R.num_var_rec_ = Len(R.den) + 1 /\ Len(R.den) \in Nat
        BY <1>3, <1>9, <1>15, <2>2, <4>1, LenProperties DEF Live
      <4>3. d = a
        BY <4>2
      <4> QED
        BY <1>5, <4>1, <4>3
    <3> QED
      BY <2>1, <3>1
  <2>3. CASE ~Parameter(object[y])
    <3>1. W = Rec_ /\ a = object[y].taddr_ /\ Variable(object[y])
      BY <1>1, <1>3, <2>3 DEF WithDependent, Parameter
    <3>2. PICK k \in 1 .. Len(Rec_.tape) : Rec_.tape[k].res = a
      BY <1>4, <3>1 DEF PInv, Ready
    <3> QED
      BY <2>1, <3>1, <3>2
  <2> QED
    BY <2>2, <2>3
<1>19. Plays!WellFormed(t)
  BY <1>11, <1>14, <1>15, <1>16, <1>17, <1>18, LaidWellFormed, Zenon
<1>20. ReadsAs(t, s)
  <2>1. t.num_op_rec = Len(s)
    BY <1>14, Zenon DEF Laid
  <2>2. \A i \in 1 .. Len(s) : Plays!Instr(t, Plays!At(t, i - 1)) = s[i]
    BY <1>11, <1>14, InstrIs, Zenon
  <2> QED
    BY <2>1, <2>2, Zenon DEF ReadsAs
<1>21. Recalls(t, R)
  <2>1. Recorded(R)
    BY <1>7 DEF Recorder, Recorded
  <2>2. Inputs(R)
    <3>1. Inputs(Rec_) /\ Rec_ \in Recorder
      BY <1>4 DEF PInv, IInv, TypeOK
    <3> QED
      BY <1>7, <3>1, InputsKept
  <2>3. R.tape[Len(R.tape)].res = Len(R.den)
    BY <1>9 DEF Live
  <2>4. Sound(R.tape) /\ Laid(t, R.tape) /\ t.par_rec_ = R.par_rec_
    BY <1>5, <1>11, <1>14
  <2> QED
    BY <1>7, <1>19, <2>1, <2>2, <2>3, <2>4 DEF Recalls
<1>22. \A u \in Point : Replay(t, u) = Played(f', u)
  <2>1. \A u \in Point : Replay(t, u) = Played(R, u)
    BY <1>21, ReplayIs
  <2>2. f'.den = R.den
    BY <1>4
  <2>3. \A u : Played(f', u) = Played(R, u)
    BY <2>2 DEF Played
  <2> QED
    BY <2>1, <2>3
<1> QED
  BY <1>6, <1>13, <1>19, <1>20, <1>22, Zenon

-----------------------------------------------------------------------------

LEMMA PlaybackStep ==
  ASSUME PInv, PlaybackNext
  PROVE  /\ PInv'
         /\ <<f, play>>' # <<f, play>> =>
              /\ Plays!WellFormed(play') /\ ReadsAs(play', f'.tape)
              /\ \A u \in Point : Replay(play', u) = Played(f', u)
<1>1. CASE Begin
  <2>1. Next /\ f' = f /\ play' = play
    BY <1>1 DEF Begin, Independent, Next
  <2>2. IInv'
    BY <2>1, NextStep DEF PInv
  <2>3. Ready(vec', Rec_'.tape, object')
    BY <1>1, <2>2, BeginReady
  <2>4. Inputs(Rec_')
    <3>1. Rec_'.den = [j \in 1 .. Dim |-> [u \in Point |-> u[j]]]
      BY <1>1 DEF Begin, Independent, PInv, IInv, TypeOK, Recorder
    <3>2. Dim \in Nat
      BY VectorAssumption
    <3> QED
      BY <3>1, <3>2 DEF Inputs
  <2> QED
    BY <2>1, <2>2, <2>3, <2>4 DEF PInv, Inputs
<1>2. CASE Write
  <2>1. /\ IInv /\ Operate /\ play' = play
        /\ vec' = IF Rec_'.tape = Rec_.tape THEN vec
                  ELSE PutInstruction(vec, Rec_'.tape[Len(Rec_'.tape)])
    BY <1>2 DEF Write, PInv
  <2>2. IInv'
    BY <2>1, NextStep DEF Next
  <2>3. f' = f
    <3>1. /\ \A r, c : SetParameter(r, c) => f' = f
          /\ \A r, c, e : SetCopy(r, c, e) => f' = f
          /\ \A r, c, op, s : SetResult(r, c, op, s) => f' = f
          /\ \A op, a, b : CompareOp(op, a, b) => f' = f
      BY Zenon DEF SetParameter, SetCopy, SetResult, CompareOp
    <3>2. \A r, op, a, b : BinaryOp(op, r, a, b) => f' = f
      BY DEF BinaryOp, SetParameter, SetCopy, SetResult
    <3>3. \A r, op, a : UnaryOp(op, r, a) => f' = f
      BY <3>1, Zenon DEF UnaryOp
    <3>4. \A r, op, l, m, t, e : CondExpOp(op, r, l, m, t, e) => f' = f
      BY DEF CondExpOp, SetCopy, SetResult
    <3> QED
      BY <2>1, <3>1, <3>2, <3>3, <3>4, Zenon DEF Operate, AssignBase, Copy
  <2>4. recording' => Ready(vec', Rec_'.tape, object')
    <3>1. CASE Keeps
      <4>1. vec' = vec
        BY <2>1, <3>1 DEF Keeps
      <4> QED
        BY <2>2, <3>1, <4>1, KeepsReady
    <3>2. ASSUME NEW op, NEW s, Puts(op, s)
          PROVE  Ready(vec', Rec_'.tape, object')
      BY <2>1, <3>2, PutsReady
    <3> QED
      BY <2>1, <3>1, <3>2, OperateShape
  <2>5. recording' => Inputs(Rec_')
    <3> SUFFICES ASSUME recording' PROVE Inputs(Rec_')
      OBVIOUS
    <3>1. Rec_ \in Recorder /\ Rec_' \in Recorder
      BY <2>1, <2>2 DEF IInv, TypeOK
    <3>2. CASE Keeps
      BY <3>2 DEF Keeps, PInv
    <3>3. ASSUME NEW op, NEW s, Puts(op, s)
          PROVE  Inputs(Rec_')
      <4>1. Inputs(Rec_)
        BY <3>3 DEF Puts, PInv
      <4>2. Grows(Rec_, Rec_')
        BY <2>1, <3>3, PutsGrow
      <4> QED
        BY <3>1, <4>1, <4>2, InputsKept
    <3> QED
      BY <2>1, <3>2, <3>3, OperateShape
  <2> QED
    BY <2>1, <2>2, <2>3, <2>4, <2>5 DEF PInv, Inputs
<1>3. CASE Take
  <2>1. PICK y \in Object : Dependent(y)
    BY <1>3 DEF Take
  <2>2. play' = get(Complete(vec, Len(Rec_.tape), f'.tape), f'.par_rec_, f'.dep_taddr_)
    BY <1>3 DEF Take
  <2>3. /\ Plays!WellFormed(play') /\ ReadsAs(play', f'.tape)
        /\ \A u \in Point : Replay(play', u) = Played(f', u)
    BY <2>1, <2>2, TakeStep
  <2>4. IInv' /\ ~recording'
    <3>1. Next /\ ~recording'
      BY <2>1 DEF Next, Dependent, EndRecording
    <3> QED
      BY <3>1, NextStep DEF PInv
  <2> QED
    BY <2>3, <2>4 DEF PInv
<1>4. CASE Discard
  <2>1. Next /\ ~recording' /\ f' = f /\ play' = play
    BY <1>4 DEF Discard, AbortRecording, EndRecording, Next
  <2>2. IInv'
    BY <2>1, NextStep DEF PInv
  <2> QED
    BY <2>1, <2>2 DEF PInv
<1> QED
  BY <1>1, <1>2, <1>3, <1>4 DEF PlaybackNext

LEMMA PlaybackInductive == PlaybackSpec => []PInv
<1>1. PlaybackInit => PInv
  <2> SUFFICES ASSUME PlaybackInit PROVE PInv
    OBVIOUS
  <2>1. IInv /\ ~recording
    BY InitStep DEF PlaybackInit, Init
  <2> QED
    BY <2>1 DEF PInv
<1>2. PInv /\ UNCHANGED playback => PInv'
  <2> SUFFICES ASSUME PInv, UNCHANGED playback PROVE PInv'
    OBVIOUS
  <2>1. UNCHANGED vars
    BY DEF playback, vars
  <2>2. IInv'
    BY <2>1, StutterStep DEF PInv
  <2>3. /\ recording' = recording /\ vec' = vec /\ Rec_' = Rec_ /\ object' = object
    BY DEF playback
  <2> QED
    BY <2>2, <2>3 DEF PInv, Inputs
<1>3. PInv /\ [PlaybackNext]_playback => PInv'
  BY <1>2, PlaybackStep
<1> QED
  BY <1>1, <1>3, PTL DEF PlaybackSpec

(* Whatever the program records, player::get takes over vectors that the   *)
(* sweeps can play, and reads in them what was recorded: the recorder and  *)
(* the player agree on where everything is, whatever the arithmetic, the   *)
(* hash function, the unary operators and the number of variables are.     *)
THEOREM TapesPlayable == PlaybackSpec => Playable
<1> DEFINE Plays2 == <<f, play>>' # <<f, play>> =>
                       Plays!WellFormed(play') /\ ReadsAs(play', f'.tape)
<1>1. PInv /\ [PlaybackNext]_playback => [Plays2]_playback
  BY PlaybackStep
<1>2. PlaybackSpec => [][Plays2]_playback
  BY <1>1, PlaybackInductive, PTL DEF PlaybackSpec
<1> QED
  BY <1>2, PTL DEF Playable

(* Played from any point, not only the one it was recorded at, what        *)
(* player::get took over gives every variable the value of the function    *)
(* the program computed for it: the cursor of forward_next meets every     *)
(* operator with its arguments and its result, and no operator computes    *)
(* with a variable that has no value yet.                                  *)
THEOREM RecordingsPlayBack == PlaybackSpec => PlaysBack
<1> DEFINE Replays == <<f, play>>' # <<f, play>> =>
                        \A u \in Point : Replay(play', u) = Played(f', u)
<1>1. PInv /\ [PlaybackNext]_playback => [Replays]_playback
  BY PlaybackStep
<1>2. PlaybackSpec => [][Replays]_playback
  BY <1>1, PlaybackInductive, PTL DEF PlaybackSpec
<1> QED
  BY <1>2, PTL DEF PlaysBack
=============================================================================
