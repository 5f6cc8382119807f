---------------------------- MODULE Sweep_proofs ----------------------------
(***************************************************************************)
(* Sweep for every set of well-formed tapes and every arithmetic: the      *)
(* cursor stays aligned with the tape when reverse sweeps over optimized   *)
(* tapes are traced, the coefficients solve the tape, the counts count     *)
(* the comparisons that changed, and the sweeps compute the values and     *)
(* the derivatives of the function of the tape, forward and reverse.       *)
(***************************************************************************)
EXTENDS Sweep, Player_proofs

-----------------------------------------------------------------------------
(* The cursor of a forward sweep at operator i: past the arguments of an   *)
(* operator that has a variable number of them.                            *)
Passing(t, i) ==
  [op_index_ |-> i,
   op_arg_ |-> IF t.op_rec_[i].op \in Optimized THEN t.first[i] + Size(t, i)
                                                ELSE t.first[i],
   var_index_ |-> t.last[i]]

(* Moving on from there, a sweep comes to the next operator. *)
LEMMA ForwardNextAt ==
  ASSUME NEW t, WellFormed(t), NEW i \in Op(t), i + 1 \in Op(t)
  PROVE  forward_next(t, Passing(t, i)) = At(t, i + 1)
<1>1. t.first[i + 1] \in Nat /\ NumArg(t.op_rec_[i]) \in Nat /\ t.first[i] \in Nat
  BY Placed
<1>2. CASE t.op_rec_[i].op \in Optimized
  BY <1>1, <1>2, NextPlaced, OptimizedNumArg DEF forward_next, Passing, At, OpAt
<1>3. CASE t.op_rec_[i].op \notin Optimized
  BY <1>1, <1>3, NextPlaced, FixedSize DEF forward_next, Passing, At, OpAt
<1>4. QED
  BY <1>2, <1>3

LEMMA ForwardPasses ==
  ASSUME NEW t, WellFormed(t), NEW i \in Op(t)
  PROVE  /\ t.op_rec_[i].op = "CSum" => forward_csum(t, At(t, i)) = Passing(t, i)
         /\ t.op_rec_[i].op = "CSkip" => forward_cskip(t, At(t, i)) = Passing(t, i)
         /\ t.op_rec_[i].op \notin Optimized => At(t, i) = Passing(t, i)
<1>1. t.first[i] \in Nat /\ At(t, i).op_arg_ = t.first[i]
  BY Placed DEF At
<1>2. ASSUME t.op_rec_[i].op = "CSum"
      PROVE  forward_csum(t, At(t, i)) = Passing(t, i)
  BY <1>1, <1>2, CSumCounted DEF forward_csum, Passing, At, Optimized
<1>3. ASSUME t.op_rec_[i].op = "CSkip"
      PROVE  forward_cskip(t, At(t, i)) = Passing(t, i)
  BY <1>1, <1>3, CSkipCounted DEF forward_cskip, Passing, At, Optimized
<1>4. QED
  BY <1>2, <1>3 DEF Passing, At

(* The cursor of a reverse sweep after reverse_next. *)
LEMMA ReverseNextAt ==
  ASSUME NEW t, WellFormed(t), NEW i \in Op(t), i + 1 \in Op(t),
         NEW c, c = reverse_next(t, At(t, i + 1))
  PROVE  /\ c.op_index_ = i
         /\ t.op_rec_[i].op \notin Optimized => c = At(t, i)
         /\ t.op_rec_[i].op = "CSum" => reverse_csum(t, c) = At(t, i)
         /\ t.op_rec_[i].op = "CSkip" => reverse_cskip(t, c) = At(t, i)
<1> DEFINE n == t.first[i] + Size(t, i)
<1>1. /\ t.first[i + 1] \in Nat /\ NumArg(t.op_rec_[i]) \in Nat
      /\ t.first[i] \in Nat /\ t.last[i] \in Nat /\ i \in Nat
      /\ NumRes(t.op_rec_[i + 1].op) \in 0 .. 2
  BY Placed DEF Op
<1>2. c = [op_index_ |-> i, op_arg_ |-> n - NumArg(t.op_rec_[i]),
           var_index_ |-> t.last[i]]
  BY <1>1, NextPlaced DEF reverse_next, At, OpAt
<1>3. ASSUME t.op_rec_[i].op \notin Optimized
      PROVE  c = At(t, i)
  BY <1>1, <1>2, <1>3, FixedSize DEF At
<1>4. ASSUME t.op_rec_[i].op \in Optimized
      PROVE  c = [op_index_ |-> i, op_arg_ |-> n, var_index_ |-> t.last[i]]
  BY <1>1, <1>2, <1>4, OptimizedNumArg, NextPlaced
<1>5. ASSUME t.op_rec_[i].op = "CSum"
      PROVE  reverse_csum(t, c) = At(t, i)
  BY <1>1, <1>4, <1>5, CSumCounted DEF reverse_csum, At, Optimized
<1>6. ASSUME t.op_rec_[i].op = "CSkip"
      PROVE  reverse_cskip(t, c) = At(t, i)
  BY <1>1, <1>4, <1>6, CSkipCounted DEF reverse_cskip, At, Optimized
<1>7. QED
  BY <1>2, <1>3, <1>5, <1>6

-----------------------------------------------------------------------------
(***************************************************************************)
(* The invariant of the cursor: between two steps of a sweep it is where   *)
(* the arguments of its operator begin, or end if they vary in number and  *)
(* the sweep goes forward; only operators with results are skipped; and,   *)
(* when Traced, a reverse sweep over an optimized tape writes a trace.     *)
(***************************************************************************)
FlowInv ==
  /\ tape \in Tapes
  /\ cskip_op_ \in [Op(tape) -> BOOLEAN]
  /\ \A i \in Op(tape) : cskip_op_[i] => tape.op_rec_[i].op \in Computing
  /\ sweep # None => sweep.mode \in {"forward", "reverse"}
  /\ Forwards =>
       /\ cursor.op_index_ \in Op(tape) /\ cursor.op_index_ + 1 \in Op(tape)
       /\ cursor = Passing(tape, cursor.op_index_)
  /\ (Backwards /\ Traced) =>
       /\ cursor.op_index_ \in Op(tape) /\ cursor.op_index_ - 1 \in Op(tape)
       /\ cursor = At(tape, cursor.op_index_)
       /\ OptimizedTape(tape) => sweep.text

(* What is ahead of a forward sweep. *)
LEMMA AheadIsNext ==
  ASSUME FlowInv, Forwards
  PROVE  /\ WellFormed(tape)
         /\ Ahead.op_index_ \in Op(tape)
         /\ Ahead.op_index_ = cursor.op_index_ + 1
         /\ Ahead = At(tape, Ahead.op_index_)
         /\ OpAt(tape, Ahead) = tape.op_rec_[Ahead.op_index_]
<1>1. WellFormed(tape)
  BY TapesAssumption DEF FlowInv
<1>2. Ahead = At(tape, cursor.op_index_ + 1)
  BY <1>1, ForwardNextAt DEF FlowInv, Ahead
<1>3. QED
  BY <1>1, <1>2 DEF At, OpAt, FlowInv

(* A step of a forward sweep that passes the next operator. *)
LEMMA Advance ==
  ASSUME FlowInv, Forwards, tape' = tape, sweep' = sweep,
         cursor' = Passing(tape, Ahead.op_index_),
         tape.op_rec_[Ahead.op_index_].op # "End",
         cskip_op_' \in [Op(tape) -> BOOLEAN],
         \A i \in Op(tape) : cskip_op_'[i] => tape.op_rec_[i].op \in Computing
  PROVE  FlowInv'
<1> DEFINE j == Ahead.op_index_
<1>1. WellFormed(tape) /\ j \in Op(tape)
  BY AheadIsNext
<1>2. j + 1 \in Op(tape)
  <2>1. tape.num_op_rec \in Nat /\ j # tape.num_op_rec - 1
    BY <1>1, Placed
  <2>2. QED
    BY <1>1, <2>1 DEF Op
<1>3. cursor'.op_index_ = j
  BY DEF Passing
<1>4. (tape \in Tapes)' /\ Forwards' /\ ~Backwards'
  BY DEF FlowInv, Forwards, Backwards
<1>5. Passing(tape, cursor.op_index_)' = Passing(tape, j)
  BY <1>3
<1> HIDE DEF j
<1>6. QED
  BY <1>1, <1>2, <1>3, <1>4, <1>5 DEF FlowInv, j

(* What a reverse sweep comes to, before it corrects the cursor. *)
LEMMA BehindIsPrevious ==
  ASSUME Traced, FlowInv, Backwards
  PROVE  LET i == Behind.op_index_
         IN  /\ WellFormed(tape)
             /\ i \in Op(tape) /\ i = cursor.op_index_ - 1
             /\ OpAt(tape, Behind) = tape.op_rec_[i]
             /\ tape.op_rec_[i].op \notin Optimized => Behind = At(tape, i)
             /\ tape.op_rec_[i].op = "CSum" =>
                  reverse_csum(tape, Behind) = At(tape, i)
             /\ tape.op_rec_[i].op = "CSkip" =>
                  reverse_cskip(tape, Behind) = At(tape, i)
<1> DEFINE i == cursor.op_index_ - 1
<1>1. WellFormed(tape)
  BY TapesAssumption DEF FlowInv
<1>2. i \in Op(tape) /\ i + 1 = cursor.op_index_ /\ i + 1 \in Op(tape)
  BY <1>1, Placed DEF FlowInv, Op
<1>3. Behind = reverse_next(tape, At(tape, i + 1))
  BY <1>2 DEF FlowInv, Behind
<1> HIDE DEF i
<1>4. /\ Behind.op_index_ = i
      /\ tape.op_rec_[i].op \notin Optimized => Behind = At(tape, i)
      /\ tape.op_rec_[i].op = "CSum" => reverse_csum(tape, Behind) = At(tape, i)
      /\ tape.op_rec_[i].op = "CSkip" => reverse_cskip(tape, Behind) = At(tape, i)
  BY <1>1, <1>2, <1>3, ReverseNextAt
<1>5. OpAt(tape, Behind) = tape.op_rec_[i]
  BY <1>4 DEF OpAt
<1>6. QED
  BY <1>1, <1>2, <1>4, <1>5 DEF i

(* A step of a reverse sweep to the operator before. *)
LEMMA Retreat ==
  ASSUME Traced, FlowInv, Backwards, tape' = tape, sweep' = sweep,
         cskip_op_' = cskip_op_,
         cursor' = At(tape, Behind.op_index_),
         tape.op_rec_[Behind.op_index_].op # "Begin"
  PROVE  FlowInv'
<1> DEFINE j == Behind.op_index_
<1>1. WellFormed(tape) /\ j \in Op(tape)
  BY BehindIsPrevious
<1>2. j - 1 \in Op(tape)
  BY <1>1, Placed DEF Op
<1>3. cursor'.op_index_ = j
  BY DEF At
<1>4. (tape \in Tapes)' /\ Backwards' /\ ~Forwards'
  BY DEF FlowInv, Forwards, Backwards
<1>5. At(tape, cursor.op_index_)' = At(tape, j)
  BY <1>3
<1> HIDE DEF j
<1>6. QED
  BY <1>1, <1>2, <1>3, <1>4, <1>5 DEF FlowInv, j

LEMMA FlowInit == Init => FlowInv
<1> SUFFICES ASSUME Init PROVE FlowInv
  OBVIOUS
<1>1. ~Forwards /\ ~Backwards
  BY DEF Init, Forwards, Backwards
<1>2. QED
  BY <1>1 DEF Init, FlowInv

(* The steps of a forward sweep keep the invariant. *)
LEMMA ForwardFlow ==
  ASSUME FlowInv, ForwardNext
  PROVE  FlowInv'
<1> DEFINE j == Ahead.op_index_
           op == tape.op_rec_[j].op
<1>1. Forwards
  BY DEF ForwardNext, ForwardSkip, ForwardInv, ForwardCompute, ForwardCompare,
         ForwardCSkip, ForwardEnd, ForwardTo
<1>2. /\ WellFormed(tape) /\ j \in Op(tape)
      /\ Ahead = At(tape, j) /\ OpAt(tape, Ahead) = tape.op_rec_[j]
  BY <1>1, AheadIsNext
<1>3. /\ op = "CSum" => forward_csum(tape, Ahead) = Passing(tape, j)
      /\ op = "CSkip" => forward_cskip(tape, Ahead) = Passing(tape, j)
      /\ op \notin Optimized => Ahead = Passing(tape, j)
  BY <1>2, ForwardPasses
<1>4. /\ cskip_op_ \in [Op(tape) -> BOOLEAN]
      /\ \A i \in Op(tape) : cskip_op_[i] => tape.op_rec_[i].op \in Computing
  BY DEF FlowInv
<1> HIDE DEF j
<1>5. op \in Computing => op \notin {"CSkip", "End"}
  BY OpCodes
<1>6. CASE ForwardSkip \/ ForwardCompute
  <2>1. op \in Computing /\ tape' = tape /\ sweep' = sweep /\ cskip_op_' = cskip_op_
    BY <1>2, <1>4, <1>6 DEF ForwardSkip, ForwardCompute, ForwardTo, j
  <2>2. cursor' = IF op = "CSum" THEN forward_csum(tape, Ahead) ELSE Ahead
    BY <1>2, <1>6 DEF ForwardSkip, ForwardCompute
  <2>3. cursor' = Passing(tape, j)
    BY <2>1, <2>2, <1>3, <1>5 DEF Optimized
  <2>4. QED
    BY <2>1, <2>3, <1>1, <1>4, <1>5, Advance DEF j
<1>7. CASE ForwardInv \/ ForwardCompare
  <2>1. /\ tape' = tape /\ sweep' = sweep /\ cskip_op_' = cskip_op_
        /\ cursor' = Ahead /\ op \in {"Inv"} \union Comparison
    BY <1>2, <1>7 DEF ForwardInv, ForwardCompare, ForwardTo
  <2>2. op # "End" /\ cursor' = Passing(tape, j)
    BY <2>1, <1>3 DEF Optimized, Comparison
  <2>3. QED
    BY <2>1, <2>2, <1>1, <1>4, Advance DEF j
<1>8. CASE ForwardCSkip
  <2> DEFINE ins == Instr(tape, Ahead)
             s == OperandsOf(tape, taylor_, ins, 0)
             skip == IF Holds(ins.test, s[1], s[2]) THEN ins.if_true
                                                    ELSE ins.if_false
  <2>1. /\ tape' = tape /\ sweep' = sweep /\ op = "CSkip"
        /\ cursor' = forward_cskip(tape, Ahead)
        /\ cskip_op_' = [i \in Op(tape) |->
             cskip_op_[i] \/ (sweep.p = 0 /\ i \in skip)]
    BY <1>2, <1>8 DEF ForwardCSkip, ForwardTo
  <2>2. cursor' = Passing(tape, j)
    BY <2>1, <1>3
  <2>3. ins = CSkipAt(tape, At(tape, j))
    BY <2>1, <1>2 DEF Instr
  <2>4. skip \subseteq ins.if_true \union ins.if_false
    OBVIOUS
  <2> HIDE DEF ins, skip
  <2>5. \A i \in skip : i \in Op(tape) => tape.op_rec_[i].op \in Computing
    BY <2>1, <2>3, <2>4, <1>2, CSkipCounted
  <2>6. /\ cskip_op_' \in [Op(tape) -> BOOLEAN]
        /\ \A i \in Op(tape) : cskip_op_'[i] => tape.op_rec_[i].op \in Computing
    BY <2>1, <2>5, <1>4
  <2>7. QED
    BY <2>1, <2>2, <2>6, <1>1, Advance DEF j
<1>9. CASE ForwardEnd
  <2>1. /\ sweep' = None /\ ~Forwards' /\ ~Backwards'
        /\ tape' = tape /\ cskip_op_' = cskip_op_
    BY <1>9 DEF ForwardEnd, Forwards, Backwards
  <2>2. QED
    BY <2>1 DEF FlowInv
<1>10. QED
  BY <1>6, <1>7, <1>8, <1>9 DEF ForwardNext

(* The steps of a reverse sweep do, when optimized tapes are traced. *)
LEMMA ReverseFlow ==
  ASSUME Traced, FlowInv, ReverseNext
  PROVE  FlowInv'
<1> DEFINE j == Behind.op_index_
           op == tape.op_rec_[j].op
<1>1. Backwards
  BY DEF ReverseNext, ReverseSkip, ReverseCompute, ReverseCSkip, ReversePass,
         ReverseBegin, ReverseTo
<1>2. /\ WellFormed(tape) /\ j \in Op(tape)
      /\ OpAt(tape, Behind) = tape.op_rec_[j]
      /\ op \notin Optimized => Behind = At(tape, j)
      /\ op = "CSum" => reverse_csum(tape, Behind) = At(tape, j)
      /\ op = "CSkip" => reverse_cskip(tape, Behind) = At(tape, j)
  BY <1>1, BehindIsPrevious
<1> HIDE DEF j
<1>3. op \in Computing => op \notin {"CSkip", "Begin"}
  BY OpCodes
<1>4. op \in Optimized => sweep.text
  BY <1>1, <1>2 DEF FlowInv, OptimizedTape
<1>5. CASE ReverseSkip \/ ReverseCompute
  <2>1. op \in Computing /\ tape' = tape /\ sweep' = sweep /\ cskip_op_' = cskip_op_
    BY <1>2, <1>5 DEF ReverseSkip, ReverseCompute, ReverseTo, FlowInv, j
  <2>2. cursor' = IF op = "CSum" THEN reverse_csum(tape, Behind) ELSE Behind
    BY <1>2, <1>4, <1>5 DEF ReverseSkip, ReverseCompute, Optimized
  <2>3. cursor' = At(tape, j)
    BY <2>1, <2>2, <1>2, <1>3 DEF Optimized
  <2>4. QED
    BY <2>1, <2>3, <1>1, <1>3, Retreat DEF j
<1>6. CASE ReverseCSkip
  <2>1. /\ tape' = tape /\ sweep' = sweep /\ cskip_op_' = cskip_op_ /\ op = "CSkip"
        /\ cursor' = IF sweep.text THEN reverse_cskip(tape, Behind) ELSE Behind
    BY <1>2, <1>6 DEF ReverseCSkip, ReverseTo
  <2>2. cursor' = At(tape, j)
    BY <2>1, <1>2, <1>4 DEF Optimized
  <2>3. QED
    BY <2>1, <2>2, <1>1, Retreat DEF j
<1>7. CASE ReversePass
  <2>1. /\ tape' = tape /\ sweep' = sweep /\ cskip_op_' = cskip_op_
        /\ cursor' = Behind /\ op \in {"Inv"} \union Comparison
    BY <1>2, <1>7 DEF ReversePass, ReverseTo
  <2>2. op # "Begin" /\ cursor' = At(tape, j)
    BY <2>1, <1>2 DEF Optimized, Comparison
  <2>3. QED
    BY <2>1, <2>2, <1>1, Retreat DEF j
<1>8. CASE ReverseBegin
  <2>1. /\ sweep' = None /\ ~Forwards' /\ ~Backwards'
        /\ tape' = tape /\ cskip_op_' = cskip_op_
    BY <1>8 DEF ReverseBegin, Forwards, Backwards
  <2>2. QED
    BY <2>1 DEF FlowInv
<1>9. QED
  BY <1>5, <1>6, <1>7, <1>8 DEF ReverseNext

LEMMA ReverseFlowUntraced ==
  ASSUME ~Traced, FlowInv, ReverseNext
  PROVE  FlowInv'
<1>1. /\ tape' = tape /\ cskip_op_' = cskip_op_ /\ Backwards
      /\ sweep' = sweep \/ sweep' = None
  BY DEF ReverseNext, ReverseSkip, ReverseCompute, ReverseCSkip, ReversePass,
         ReverseBegin, ReverseTo
<1>2. ~Forwards'
  BY <1>1 DEF Forwards, Backwards
<1>3. QED
  BY <1>1, <1>2 DEF FlowInv

(* Where sweeps start. *)
LEMMA Ends ==
  ASSUME NEW t, WellFormed(t)
  PROVE  LET j == t.num_op_rec - 1
         IN  /\ 0 \in Op(t) /\ 0 + 1 \in Op(t)
             /\ forward_start = Passing(t, 0)
             /\ j \in Op(t) /\ j - 1 \in Op(t)
             /\ reverse_start(t) = At(t, j)
<1> DEFINE j == t.num_op_rec - 1
<1>1. /\ t.num_op_rec \in Nat /\ t.num_op_rec > 1
      /\ t.first[0] = 0 /\ t.last[0] = 0
      /\ t.first[j] = t.num_op_arg_rec /\ t.last[j] = t.num_var_rec - 1
  BY DEF WellFormed, Vectors, Adjacent
<1>2. 0 \in Op(t) /\ 0 + 1 \in Op(t) /\ j \in Op(t) /\ j - 1 \in Op(t)
  BY <1>1 DEF Op
<1>3. t.op_rec_[0].op \notin Optimized
  BY <1>2, Placed DEF Optimized
<1>4. QED
  BY <1>1, <1>2, <1>3 DEF forward_start, Passing, reverse_start, At

(* Every step keeps the invariant. *)
LEMMA FlowNext ==
  ASSUME FlowInv, [Next]_vars
  PROVE  FlowInv'
<1>1. ASSUME NEW c \in Counts[tape], CompareChangeCount(c)
      PROVE  FlowInv'
  BY <1>1 DEF CompareChangeCount, FlowInv, Forwards, Backwards
<1>2. ASSUME NEW q \in 0 .. 1, NEW p \in 0 .. q, ForwardSweep(p, q)
      PROVE  FlowInv'
  <2>1. /\ WellFormed(tape) /\ tape' = tape /\ cskip_op_' = Flags(p)
        /\ cursor' = forward_start /\ ~Backwards' /\ sweep'.mode = "forward"
    BY <1>2, TapesAssumption DEF ForwardSweep, FlowInv, Backwards
  <2>2. /\ cskip_op_' \in [Op(tape) -> BOOLEAN]
        /\ \A i \in Op(tape) : cskip_op_'[i] => tape.op_rec_[i].op \in Computing
    BY <2>1 DEF Flags, FlowInv
  <2>3. 0 \in Op(tape) /\ 0 + 1 \in Op(tape) /\ cursor' = Passing(tape, 0)
    BY <2>1, Ends
  <2>4. cursor'.op_index_ = 0
    BY <2>1 DEF forward_start
  <2>5. QED
    BY <2>1, <2>2, <2>3, <2>4 DEF FlowInv
<1>3. ASSUME NEW w, NEW text \in BOOLEAN, ReverseSweep(w, text)
      PROVE  FlowInv'
  <2> DEFINE j == tape.num_op_rec - 1
  <2>1. /\ WellFormed(tape) /\ tape' = tape /\ cskip_op_' = cskip_op_
        /\ cursor' = reverse_start(tape) /\ ~Forwards'
        /\ (Traced /\ OptimizedTape(tape)) => text
        /\ sweep' = [mode |-> "reverse", w |-> w, text |-> text]
    BY <1>3, TapesAssumption DEF ReverseSweep, FlowInv, Forwards
  <2>2. j \in Op(tape) /\ j - 1 \in Op(tape) /\ cursor' = At(tape, j)
    BY <2>1, Ends
  <2>3. cursor'.op_index_ = j
    BY <2>2 DEF At
  <2> HIDE DEF j
  <2>4. (Traced /\ OptimizedTape(tape)') => sweep'.text
    BY <2>1 DEF OptimizedTape
  <2>5. QED
    BY <2>1, <2>2, <2>3, <2>4 DEF FlowInv
<1>4. CASE ForwardNext
  BY <1>4, ForwardFlow
<1>5. CASE ReverseNext
  BY <1>5, ReverseFlow, ReverseFlowUntraced
<1>6. CASE UNCHANGED vars
  BY <1>6 DEF vars, FlowInv, Forwards, Backwards, OptimizedTape
<1>7. QED
  BY <1>1, <1>2, <1>3, <1>4, <1>5, <1>6 DEF Next

(* The invariant is what the property says. *)
LEMMA FlowAligned ==
  ASSUME Traced, FlowInv
  PROVE  CursorAligned
<1> DEFINE i == cursor.op_index_
<1>1. SUFFICES ASSUME sweep # None
               PROVE  /\ cursor.var_index_ = tape.last[i]
                      /\ IF sweep.mode = "forward"
                           THEN cursor.op_arg_ + NumArg(tape.op_rec_[i])
                                  = tape.first[i] + Size(tape, i)
                           ELSE cursor.op_arg_ = tape.first[i]
  BY DEF CursorAligned
<1>2. WellFormed(tape)
  BY TapesAssumption DEF FlowInv
<1>3. CASE Forwards
  <2>1. /\ i \in Op(tape) /\ i + 1 \in Op(tape) /\ cursor = Passing(tape, i)
    BY <1>3 DEF FlowInv
  <2>2. tape.first[i] + Size(tape, i) \in Nat
    BY <1>2, <2>1, NextPlaced, Placed
  <2> HIDE DEF i
  <2>3. cursor.op_arg_ + NumArg(tape.op_rec_[i]) = tape.first[i] + Size(tape, i)
    BY <2>1, <2>2, OptimizedNumArg, FixedSize DEF Passing
  <2>4. QED
    BY <2>1, <2>3, <1>3 DEF Passing, Forwards
<1>4. CASE Backwards
  BY <1>4 DEF FlowInv, Backwards, At
<1>5. QED
  BY <1>1, <1>3, <1>4 DEF Forwards, Backwards, FlowInv

(***************************************************************************)
(* Whatever is on the tape and whatever is skipped, the cursor stays on    *)
(* the tape's layout, if reverse sweeps over optimized tapes are traced.   *)
(***************************************************************************)
THEOREM CursorStaysAligned ==
  ASSUME Traced
  PROVE  Spec => []CursorAligned
<1>1. Init => FlowInv
  BY FlowInit
<1>2. FlowInv /\ [Next]_vars => FlowInv'
  BY FlowNext
<1>3. FlowInv => CursorAligned
  BY FlowAligned
<1>4. QED
  BY <1>1, <1>2, <1>3, PTL DEF Spec

(* y and z have the same coefficients of order k up to address a. *)
SameUpTo(y, z, k, a) == \A m \in 0 .. a : y[k][m] = z[k][m]

LEMMA SameOperands ==
  ASSUME NEW t, NEW y, NEW z, NEW ins, NEW k,
         Computes(t, ins), SameUpTo(y, z, k, ins.res - NumRes(ins.op))
  PROVE  OperandsOf(t, y, ins, k) = OperandsOf(t, z, ins, k)
<1>1. ASSUME NEW j \in DOMAIN ins.arg, ins.kind[j] = "v"
      PROVE  y[k][ins.arg[j]] = z[k][ins.arg[j]]
  BY <1>1 DEF Computes, ArgsValid, Before, SameUpTo
<1>2. QED
  BY <1>1 DEF OperandsOf, Operands

(* Results of order 0 depend on the operands alone; those of order 1 on    *)
(* the results of order 0 as well.                                         *)
LEMMA SameResult ==
  ASSUME NEW t, NEW y, NEW z, NEW ins, NEW k \in 0 .. 1, Computes(t, ins),
         SameUpTo(y, z, k, ins.res - NumRes(ins.op)),
         k = 1 => SameUpTo(y, z, 0, ins.res)
  PROVE  /\ ResultOf(t, y, ins, k) = ResultOf(t, z, ins, k)
         /\ AuxiliaryOf(t, y, ins, k) = AuxiliaryOf(t, z, ins, k)
<1>1. CASE k = 0
  BY <1>1, SameOperands DEF ResultOf, AuxiliaryOf
<1>2. CASE k = 1
  <2>1. /\ y[0][ins.res] = z[0][ins.res]
        /\ y[0][ins.res - 1] = z[0][ins.res - 1]
        /\ SameUpTo(y, z, 0, ins.res - NumRes(ins.op))
    BY <1>2 DEF SameUpTo, Computes
  <2>2. /\ OperandsOf(t, y, ins, 0) = OperandsOf(t, z, ins, 0)
        /\ OperandsOf(t, y, ins, 1) = OperandsOf(t, z, ins, 1)
    BY <2>1, <1>2, SameOperands
  <2>3. QED
    BY <2>1, <2>2, <1>2 DEF ResultOf, AuxiliaryOf
<1>3. QED
  BY <1>1, <1>2

(* Coefficients that agree with a solution are one. *)
LEMMA SameSolved ==
  ASSUME NEW t, NEW y, NEW z, NEW ins, NEW k \in 0 .. 1, Computes(t, ins),
         \A m \in 0 .. k : SameUpTo(y, z, m, ins.res), SolvedBy(t, y, ins, k)
  PROVE  SolvedBy(t, z, ins, k)
<1>1. SameUpTo(y, z, k, ins.res) /\ SameUpTo(y, z, 0, ins.res)
  OBVIOUS
<1>2. SameUpTo(y, z, k, ins.res - NumRes(ins.op))
  BY <1>1 DEF SameUpTo, Computes
<1>3. /\ ResultOf(t, y, ins, k) = ResultOf(t, z, ins, k)
      /\ AuxiliaryOf(t, y, ins, k) = AuxiliaryOf(t, z, ins, k)
  BY <1>1, <1>2, SameResult
<1>4. /\ y[k][ins.res] = z[k][ins.res]
      /\ ins.op \in TwoResults => y[k][ins.res - 1] = z[k][ins.res - 1]
  BY <1>1 DEF SameUpTo, Computes
<1>5. QED
  BY <1>3, <1>4 DEF SolvedBy

(* Writing one order. *)
LEMMA WrittenOrder ==
  ASSUME NEW t, NEW y, NEW ins, NEW k \in 0 .. 1, Computes(t, ins),
         DOMAIN y = 0 .. 1, NEW z, z = WriteOrder(t, y, ins, k)
  PROVE  /\ DOMAIN z = 0 .. 1
         /\ \A m \in 0 .. 1 : m # k => z[m] = y[m]
         /\ \A m \in 0 .. 1 : SameUpTo(y, z, m, ins.res - NumRes(ins.op))
         /\ z[k][ins.res] = ResultOf(t, y, ins, k)
         /\ ins.op \in TwoResults => z[k][ins.res - 1] = AuxiliaryOf(t, y, ins, k)
<1> DEFINE w == [a \in Address(t) |->
                   IF a = ins.res THEN ResultOf(t, y, ins, k)
                   ELSE IF a = ins.res - 1 /\ ins.op \in TwoResults
                     THEN AuxiliaryOf(t, y, ins, k)
                   ELSE y[k][a]]
<1>1. z = [y EXCEPT ![k] = w]
  BY DEF WriteOrder
<1>2. \A a \in 0 .. ins.res : a \in Address(t)
  BY DEF Address, Computes
<1>3. w[ins.res] = ResultOf(t, y, ins, k)
  BY <1>2 DEF Computes
<1>4. ins.op \in TwoResults => w[ins.res - 1] = AuxiliaryOf(t, y, ins, k)
  BY <1>2 DEF Computes
<1>5. \A a \in 0 .. ins.res - NumRes(ins.op) : w[a] = y[k][a]
  BY <1>2 DEF Computes
<1> HIDE DEF w
<1>6. DOMAIN z = 0 .. 1 /\ z[k] = w /\ \A m \in 0 .. 1 : m # k => z[m] = y[m]
  BY <1>1
<1>7. QED
  BY <1>3, <1>4, <1>5, <1>6 DEF SameUpTo

(* The order written is then solved, whatever y was. *)
LEMMA WrittenSolved ==
  ASSUME NEW t, NEW y, NEW ins, NEW k \in 0 .. 1, Computes(t, ins),
         DOMAIN y = 0 .. 1, NEW z, z = WriteOrder(t, y, ins, k)
  PROVE  SolvedBy(t, z, ins, k)
<1>1. /\ \A m \in 0 .. 1 : m # k => z[m] = y[m]
      /\ SameUpTo(y, z, k, ins.res - NumRes(ins.op))
      /\ z[k][ins.res] = ResultOf(t, y, ins, k)
      /\ ins.op \in TwoResults => z[k][ins.res - 1] = AuxiliaryOf(t, y, ins, k)
  BY WrittenOrder
<1>2. k = 1 => SameUpTo(y, z, 0, ins.res)
  BY <1>1 DEF SameUpTo
<1>3. /\ ResultOf(t, y, ins, k) = ResultOf(t, z, ins, k)
      /\ AuxiliaryOf(t, y, ins, k) = AuxiliaryOf(t, z, ins, k)
  BY <1>1, <1>2, SameResult
<1>4. QED
  BY <1>1, <1>3 DEF SolvedBy

(* Writing the orders p to q. *)
LEMMA WrittenOrders ==
  ASSUME NEW t, NEW y, NEW ins, NEW q \in 0 .. 1, NEW p \in 0 .. q,
         Computes(t, ins), DOMAIN y = 0 .. 1,
         NEW z, z = WriteOrders(t, y, ins, p, q)
  PROVE  /\ DOMAIN z = 0 .. 1
         /\ \A m \in 0 .. 1 : m \notin p .. q => z[m] = y[m]
         /\ \A m \in 0 .. 1 : SameUpTo(y, z, m, ins.res - NumRes(ins.op))
         /\ \A k \in p .. q : SolvedBy(t, z, ins, k)
<1>1. CASE q = 0
  <2>1. p = 0 /\ z = WriteOrder(t, y, ins, 0)
    BY <1>1 DEF WriteOrders
  <2>2. QED
    BY <1>1, <2>1, WrittenOrder, WrittenSolved
<1>2. CASE p = 1
  <2>1. q = 1 /\ z = WriteOrder(t, y, ins, 1)
    BY <1>2 DEF WriteOrders
  <2>2. QED
    BY <1>2, <2>1, WrittenOrder, WrittenSolved
<1>3. CASE p = 0 /\ q = 1
  <2> DEFINE x == WriteOrder(t, y, ins, 0)
  <2>1. z = WriteOrder(t, x, ins, 1)
    BY <1>3 DEF WriteOrders
  <2> HIDE DEF x
  <2>2. /\ DOMAIN x = 0 .. 1 /\ SolvedBy(t, x, ins, 0)
        /\ \A m \in 0 .. 1 : SameUpTo(y, x, m, ins.res - NumRes(ins.op))
    BY WrittenOrder, WrittenSolved DEF x
  <2>3. /\ DOMAIN z = 0 .. 1 /\ SolvedBy(t, z, ins, 1) /\ z[0] = x[0]
        /\ \A m \in 0 .. 1 : SameUpTo(x, z, m, ins.res - NumRes(ins.op))
    BY <2>1, <2>2, WrittenOrder, WrittenSolved
  <2>4. SolvedBy(t, z, ins, 0)
    <3>1. \A m \in 0 .. 0 : SameUpTo(x, z, m, ins.res)
      BY <2>3 DEF SameUpTo
    <3>2. QED
      BY <3>1, <2>2, SameSolved
  <2>5. \A m \in 0 .. 1 : SameUpTo(y, z, m, ins.res - NumRes(ins.op))
    BY <2>2, <2>3 DEF SameUpTo
  <2>6. QED
    BY <2>3, <2>4, <2>5, <1>3
<1>4. QED
  BY <1>1, <1>2, <1>3

-----------------------------------------------------------------------------
(***************************************************************************)
(* The invariant of the coefficients: a forward sweep over the orders p to *)
(* q leaves those below p solved, and has solved its own orders up to the  *)
(* cursor.                                                                 *)
(***************************************************************************)
SolveInv ==
  /\ FlowInv
  /\ num_order_taylor_ \in 0 .. 2
  /\ DOMAIN taylor_ = 0 .. 1
  /\ OrdersSolveTape
  /\ Forwards =>
       /\ sweep.q \in 0 .. 1 /\ sweep.p \in 0 .. sweep.q
       /\ \A i \in Op(tape), k \in 0 .. sweep.p - 1 : OrderSolved(i, k)
       /\ \A i \in 0 .. cursor.op_index_, k \in sweep.p .. sweep.q :
            OrderSolved(i, k)

(* What a step does not write below a result, and flags it does not clear, *)
(* keep it solved.                                                         *)
LEMMA SolvedKept ==
  ASSUME WellFormed(tape), tape' = tape, NEW i \in Op(tape), NEW k \in 0 .. 1,
         OrderSolved(i, k), cskip_op_[i] => cskip_op_'[i],
         tape.op_rec_[i].op \in Computing =>
           \A m \in 0 .. k : SameUpTo(taylor_, taylor_', m, tape.last[i])
  PROVE  OrderSolved(i, k)'
<1> DEFINE ins == Instr(tape, At(tape, i))
<1>1. SUFFICES ASSUME tape.op_rec_[i].op \in Computing, ~cskip_op_'[i]
               PROVE  SolvedBy(tape, taylor_', ins, k)
  BY DEF OrderSolved
<1>2. SolvedBy(tape, taylor_, ins, k)
  BY <1>1 DEF OrderSolved
<1>3. Computes(tape, ins) /\ ins.res = tape.last[i]
  BY <1>1, Computed, Placed DEF Computes
<1> HIDE DEF ins
<1>4. \A m \in 0 .. k : SameUpTo(taylor_, taylor_', m, ins.res)
  BY <1>1, <1>3
<1>5. QED
  BY <1>2, <1>3, <1>4, SameSolved

LEMMA SolveInit == Init => SolveInv
<1> SUFFICES ASSUME Init PROVE SolveInv
  OBVIOUS
<1>1. FlowInv /\ ~Forwards
  BY FlowInit DEF Init, Forwards
<1>2. num_order_taylor_ = 0 /\ DOMAIN taylor_ = 0 .. 1
  BY DEF Init
<1>3. QED
  BY <1>1, <1>2 DEF SolveInv, OrdersSolveTape

(* Where the operators are that a forward sweep has passed. *)
LEMMA AheadPlaced ==
  ASSUME FlowInv, Forwards
  PROVE  LET j == Ahead.op_index_
         IN  /\ WellFormed(tape) /\ j \in Op(tape) /\ j = cursor.op_index_ + 1
             /\ forward_csum(tape, Ahead).op_index_ = j
             /\ forward_cskip(tape, Ahead).op_index_ = j
             /\ OpAt(tape, Ahead) = tape.op_rec_[j]
             /\ cursor.op_index_ \in Op(tape)
<1>1. /\ WellFormed(tape) /\ Ahead.op_index_ \in Op(tape)
      /\ Ahead.op_index_ = cursor.op_index_ + 1
      /\ Ahead = At(tape, Ahead.op_index_)
      /\ OpAt(tape, Ahead) = tape.op_rec_[Ahead.op_index_]
  BY AheadIsNext
<1>2. /\ forward_csum(tape, Ahead).op_index_ = Ahead.op_index_
      /\ forward_cskip(tape, Ahead).op_index_ = Ahead.op_index_
  BY <1>1 DEF forward_csum, forward_cskip, At
<1>3. cursor.op_index_ \in Op(tape)
  BY DEF FlowInv
<1>4. QED
  BY <1>1, <1>2, <1>3 DEF Op

(* A step of a forward sweep keeps the invariant if it keeps what is       *)
(* solved and solves the operator it passes.                               *)
LEMMA SolveAdvance ==
  ASSUME NEW j, j = Ahead.op_index_,
         SolveInv, FlowInv', Forwards, tape' = tape, sweep' = sweep,
         num_order_taylor_' = num_order_taylor_, DOMAIN taylor_' = 0 .. 1,
         cursor'.op_index_ = j,
         \A i \in Op(tape), k \in 0 .. sweep.p - 1 :
           OrderSolved(i, k) => OrderSolved(i, k)',
         \A i \in 0 .. cursor.op_index_, k \in sweep.p .. sweep.q :
           OrderSolved(i, k) => OrderSolved(i, k)',
         \A k \in sweep.p .. sweep.q : OrderSolved(j, k)'
  PROVE  SolveInv'
<1>1. /\ j = cursor.op_index_ + 1 /\ cursor.op_index_ \in Op(tape)
      /\ WellFormed(tape)
  BY AheadPlaced DEF SolveInv
<1>2. cursor.op_index_ \in Nat
  BY <1>1, Placed DEF Op
<1>3. Forwards'
  BY DEF Forwards
<1>4. /\ \A i \in Op(tape), k \in 0 .. sweep.p - 1 : OrderSolved(i, k)'
      /\ \A i \in 0 .. cursor.op_index_, k \in sweep.p .. sweep.q :
           OrderSolved(i, k)'
  BY DEF SolveInv
<1>5. \A i \in 0 .. j, k \in sweep.p .. sweep.q : OrderSolved(i, k)'
  <2>1. \A i \in 0 .. j : i \in 0 .. cursor.op_index_ \/ i = j
    BY <1>1, <1>2
  <2>2. QED
    BY <2>1, <1>4
<1>6. OrdersSolveTape'
  BY <1>3 DEF OrdersSolveTape
<1>7. QED
  BY <1>3, <1>4, <1>5, <1>6 DEF SolveInv

(* The operators a forward sweep passes without computing anything: those  *)
(* that are skipped, or have nothing to compute.                           *)
LEMMA SolvePassed ==
  ASSUME SolveInv, FlowInv', Forwards, NEW j, j = Ahead.op_index_,
         tape' = tape, sweep' = sweep, taylor_' = taylor_,
         num_order_taylor_' = num_order_taylor_, cursor'.op_index_ = j,
         \A i \in Op(tape) : cskip_op_[i] => cskip_op_'[i],
         tape.op_rec_[j].op \notin Computing \/ cskip_op_'[j]
  PROVE  SolveInv'
<1>1. WellFormed(tape) /\ cursor.op_index_ \in Op(tape) /\ DOMAIN taylor_' = 0 .. 1
  BY AheadPlaced DEF SolveInv
<1>2. /\ sweep.q \in 0 .. 1 /\ sweep.p \in 0 .. sweep.q
      /\ \A k \in 0 .. sweep.p - 1 : k \in 0 .. 1
      /\ \A k \in sweep.p .. sweep.q : k \in 0 .. 1
      /\ \A i \in 0 .. cursor.op_index_ : i \in Op(tape)
  <2>1. sweep.q \in 0 .. 1 /\ sweep.p \in 0 .. sweep.q
    BY DEF SolveInv
  <2>2. tape.num_op_rec \in Nat
    BY <1>1, Placed
  <2>3. QED
    BY <2>1, <2>2, <1>1 DEF Op
<1>3. ASSUME NEW i \in Op(tape), NEW k \in 0 .. 1, OrderSolved(i, k)
      PROVE  OrderSolved(i, k)'
  BY <1>1, <1>3, SolvedKept DEF SameUpTo
<1>4. \A k \in sweep.p .. sweep.q : OrderSolved(j, k)'
  BY DEF OrderSolved
<1>5. /\ \A i \in Op(tape), k \in 0 .. sweep.p - 1 :
           OrderSolved(i, k) => OrderSolved(i, k)'
      /\ \A i \in 0 .. cursor.op_index_, k \in sweep.p .. sweep.q :
           OrderSolved(i, k) => OrderSolved(i, k)'
  BY <1>2, <1>3
<1>6. QED
  BY <1>1, <1>4, <1>5, SolveAdvance

(* The operator it computes is solved, and the ones before still are.      *)
LEMMA SolveComputed ==
  ASSUME SolveInv, FlowInv', ForwardCompute, NEW j, j = Ahead.op_index_
  PROVE  SolveInv'
<1> DEFINE ins == Instr(tape, At(tape, j))
<1>1. /\ Forwards /\ tape' = tape /\ sweep' = sweep /\ cskip_op_' = cskip_op_
      /\ num_order_taylor_' = num_order_taylor_
      /\ taylor_' = WriteOrders(tape, taylor_, ins, sweep.p, sweep.q)
      /\ tape.op_rec_[j].op \in Computing /\ cursor'.op_index_ = j
  BY AheadPlaced, AheadIsNext DEF ForwardCompute, ForwardTo, SolveInv
<1>2. /\ WellFormed(tape) /\ j \in Op(tape) /\ j = cursor.op_index_ + 1
      /\ cursor.op_index_ \in Op(tape) /\ Ahead = At(tape, j)
  BY <1>1, AheadPlaced, AheadIsNext DEF SolveInv
<1>3. /\ sweep.q \in 0 .. 1 /\ sweep.p \in 0 .. sweep.q /\ DOMAIN taylor_ = 0 .. 1
      /\ \A k \in 0 .. sweep.p - 1 : k \in 0 .. 1 /\ k \notin sweep.p .. sweep.q
      /\ \A k \in 0 .. sweep.p - 1 : \A m \in 0 .. k : m \in 0 .. 1 /\ m \notin sweep.p .. sweep.q
      /\ \A k \in sweep.p .. sweep.q : k \in 0 .. 1
  BY <1>1 DEF SolveInv
<1>4. /\ \A i \in 0 .. cursor.op_index_ : i \in Op(tape) /\ i < j
      /\ cursor.op_index_ \in Nat
  BY <1>2, Placed DEF Op
<1>5. /\ Computes(tape, ins) /\ ins.res = tape.last[j]
      /\ NumRes(ins.op) = NumRes(tape.op_rec_[j].op)
  BY <1>1, <1>2, Computed, Placed DEF Computes
<1> HIDE DEF ins
<1>6. /\ DOMAIN taylor_' = 0 .. 1
      /\ \A m \in 0 .. 1 : m \notin sweep.p .. sweep.q => taylor_'[m] = taylor_[m]
      /\ \A m \in 0 .. 1 :
           SameUpTo(taylor_, taylor_', m, ins.res - NumRes(ins.op))
      /\ \A k \in sweep.p .. sweep.q : SolvedBy(tape, taylor_', ins, k)
  BY <1>1, <1>3, <1>5, WrittenOrders
<1>7. \A i \in Op(tape), k \in 0 .. sweep.p - 1 :
        OrderSolved(i, k) => OrderSolved(i, k)'
  BY <1>1, <1>2, <1>3, <1>6, SolvedKept DEF SameUpTo
<1>8. ASSUME NEW i \in 0 .. cursor.op_index_, NEW k \in sweep.p .. sweep.q,
             OrderSolved(i, k)
      PROVE  OrderSolved(i, k)'
  <2>1. i \in Op(tape) /\ i < j /\ tape.last[i] \in Nat /\ tape.last[j] \in Nat
    BY <1>2, <1>4, Placed
  <2>2. tape.last[i] <= ins.res - NumRes(ins.op)
    <3>1. tape.last[i] + NumRes(tape.op_rec_[j].op) <= tape.last[j]
      BY <1>2, <2>1, ResultsOrdered
    <3>2. NumRes(ins.op) \in {1, 2}
      BY <1>5 DEF Computes
    <3>3. QED
      BY <3>1, <3>2, <2>1, <1>5
  <2>3. NumRes(ins.op) \in {1, 2} /\ ins.res \in Nat
    BY <1>5 DEF Computes
  <2>4. \A m \in 0 .. 1 : SameUpTo(taylor_, taylor_', m, tape.last[i])
    BY <1>6, <2>1, <2>2, <2>3 DEF SameUpTo
  <2>5. k \in 0 .. 1 /\ \A m \in 0 .. k : m \in 0 .. 1
    BY <1>3
  <2>6. QED
    BY <1>1, <1>2, <1>8, <2>1, <2>4, <2>5, SolvedKept
<1>9. \A k \in sweep.p .. sweep.q : OrderSolved(j, k)'
  BY <1>1, <1>2, <1>6 DEF OrderSolved, ins
<1>10. QED
  BY <1>1, <1>6, <1>7, <1>8, <1>9, SolveAdvance

LEMMA SolveForward ==
  ASSUME SolveInv, FlowInv', ForwardNext
  PROVE  SolveInv'
<1> DEFINE j == Ahead.op_index_
<1>1. Forwards
  BY DEF ForwardNext, ForwardSkip, ForwardInv, ForwardCompute, ForwardCompare,
         ForwardCSkip, ForwardEnd, ForwardTo
<1>2. /\ WellFormed(tape) /\ j \in Op(tape) /\ j = cursor.op_index_ + 1
      /\ forward_csum(tape, Ahead).op_index_ = j
      /\ forward_cskip(tape, Ahead).op_index_ = j
      /\ OpAt(tape, Ahead) = tape.op_rec_[j] /\ cursor.op_index_ \in Op(tape)
      /\ Ahead.op_index_ = j
  BY <1>1, AheadPlaced DEF SolveInv
<1> HIDE DEF j
<1>3. CASE ForwardSkip
  <2>1. /\ tape' = tape /\ sweep' = sweep /\ taylor_' = taylor_
        /\ num_order_taylor_' = num_order_taylor_ /\ cskip_op_' = cskip_op_
        /\ cursor'.op_index_ = j /\ cskip_op_'[j]
    BY <1>2, <1>3 DEF ForwardSkip
  <2>2. QED
    BY <1>1, <1>2, <2>1, SolvePassed
<1>4. CASE ForwardInv \/ ForwardCompare
  <2>1. /\ tape' = tape /\ sweep' = sweep /\ taylor_' = taylor_
        /\ num_order_taylor_' = num_order_taylor_ /\ cskip_op_' = cskip_op_
        /\ cursor'.op_index_ = j
        /\ tape.op_rec_[j].op \in {"Inv"} \union Comparison
    BY <1>2, <1>4 DEF ForwardInv, ForwardCompare, ForwardTo
  <2>2. tape.op_rec_[j].op \notin Computing
    BY <2>1, OpCodes
  <2>3. QED
    BY <1>1, <1>2, <2>1, <2>2, SolvePassed
<1>5. CASE ForwardCSkip
  <2>1. /\ tape' = tape /\ sweep' = sweep /\ taylor_' = taylor_
        /\ num_order_taylor_' = num_order_taylor_
        /\ \A i \in Op(tape) : cskip_op_[i] => cskip_op_'[i]
        /\ cursor'.op_index_ = j /\ tape.op_rec_[j].op = "CSkip"
    BY <1>2, <1>5 DEF ForwardCSkip, ForwardTo
  <2>2. tape.op_rec_[j].op \notin Computing
    BY <2>1, OpCodes
  <2>3. QED
    BY <1>1, <1>2, <2>1, <2>2, SolvePassed
<1>6. CASE ForwardCompute
  BY <1>6, SolveComputed
<1>7. CASE ForwardEnd
  <2>1. /\ tape' = tape /\ taylor_' = taylor_ /\ cskip_op_' = cskip_op_
        /\ num_order_taylor_' = sweep.q + 1 /\ ~Forwards'
        /\ tape.op_rec_[j].op = "End"
    BY <1>2, <1>7 DEF ForwardEnd, ForwardTo, Forwards, Orders
  <2>2. /\ sweep.q \in 0 .. 1 /\ sweep.p \in 0 .. sweep.q /\ DOMAIN taylor_ = 0 .. 1
        /\ \A i \in Op(tape), k \in 0 .. sweep.p - 1 : OrderSolved(i, k)
        /\ \A i \in 0 .. cursor.op_index_, k \in sweep.p .. sweep.q :
             OrderSolved(i, k)
    BY <1>1 DEF SolveInv
  <2>3. j \notin {i \in Op(tape) : tape.op_rec_[i].op \in Computing}
    BY <2>1, OpCodes
  <2>4. \A i \in Op(tape) : i \in 0 .. cursor.op_index_ \/ i = j
    BY <1>2, <2>1, Placed DEF Op
  <2>5. ASSUME NEW i \in Op(tape), NEW k \in 0 .. sweep.q
        PROVE  OrderSolved(i, k)
    <3>1. CASE i = j
      BY <3>1, <2>3 DEF OrderSolved
    <3>2. CASE i # j
      BY <3>2, <2>2, <2>4
    <3>3. QED
      BY <3>1, <3>2
  <2>6. \A i \in Op(tape), k \in 0 .. num_order_taylor_' - 1 : OrderSolved(i, k)'
    <3>1. num_order_taylor_' - 1 = sweep.q
      BY <2>1, <2>2
    <3> SUFFICES ASSUME NEW i \in Op(tape), NEW k \in 0 .. sweep.q
                 PROVE  OrderSolved(i, k)'
      BY <3>1
    <3>2. OrderSolved(i, k)' <=> OrderSolved(i, k)
      BY <2>1 DEF OrderSolved
    <3> QED
      BY <2>5, <3>2
  <2>7. OrdersSolveTape'
    BY <2>1, <2>6 DEF OrdersSolveTape
  <2>8. QED
    BY <2>1, <2>2, <2>7 DEF SolveInv
<1>8. QED
  BY <1>3, <1>4, <1>5, <1>6, <1>7 DEF ForwardNext

(* Setting the coefficients of the independents from order p on keeps the  *)
(* orders below p.                                                         *)
LEMMA SolveStart ==
  ASSUME SolveInv, FlowInv', NEW q \in 0 .. 1, NEW p \in 0 .. q,
         ForwardSweep(p, q)
  PROVE  SolveInv'
<1>1. /\ ~Forwards /\ p <= num_order_taylor_
      /\ tape' = tape /\ num_order_taylor_' = num_order_taylor_
      /\ cskip_op_' = Flags(p) /\ cursor'.op_index_ = 0
      /\ sweep' = [mode |-> "forward", p |-> p, q |-> q]
  BY DEF ForwardSweep, Forwards, forward_start
<1>2. DOMAIN taylor_' = 0 .. 1 /\ (p = 1 => SameUpTo(taylor_, taylor_', 0, tape.num_var_rec - 1))
  <2>1. PICK u : taylor_' = [k \in 0 .. 1 |->
                   [a \in Address(tape) |->
                      IF k \in p .. q /\ a \in 1 .. tape.n THEN u[k][a]
                                                           ELSE taylor_[k][a]]]
    BY DEF ForwardSweep
  <2>2. QED
    BY <2>1 DEF SameUpTo, Address
<1>3. WellFormed(tape) /\ num_order_taylor_ \in 0 .. 2 /\ Forwards'
  BY <1>1, TapesAssumption, NoneAssumption DEF SolveInv, FlowInv, Forwards
<1>4. ASSUME NEW i \in Op(tape), NEW k \in 0 .. p - 1
      PROVE  OrderSolved(i, k)'
  <2>1. p = 1 /\ k = 0 /\ cskip_op_' = cskip_op_ /\ OrderSolved(i, 0)
    BY <1>1, <1>3 DEF SolveInv, OrdersSolveTape, Flags
  <2>2. \A m \in 0 .. 0 : SameUpTo(taylor_, taylor_', m, tape.last[i])
    BY <2>1, <1>2, <1>3, ResultsOrdered, Placed DEF SameUpTo, Address
  <2>3. QED
    BY <2>1, <2>2, <1>1, <1>3, SolvedKept
<1>5. \A i \in 0 .. 0, k \in p .. q : OrderSolved(i, k)'
  <2>1. tape.op_rec_[0].op \notin Computing
    BY <1>3, Ends, Placed, OpCodes
  <2>2. QED
    BY <2>1, <1>1 DEF OrderSolved
<1>6. OrdersSolveTape'
  BY <1>3 DEF OrdersSolveTape
<1>7. QED
  BY <1>1, <1>2, <1>3, <1>4, <1>5, <1>6 DEF SolveInv

LEMMA SolveNext ==
  ASSUME SolveInv, [Next]_vars
  PROVE  SolveInv'
<1>1. FlowInv'
  BY FlowNext DEF SolveInv
<1>2. ASSUME tape' = tape, taylor_' = taylor_, cskip_op_' = cskip_op_,
             num_order_taylor_' = num_order_taylor_, ~Forwards, ~Forwards'
      PROVE  SolveInv'
  <2>1. OrdersSolveTape'
    BY <1>2 DEF SolveInv, OrdersSolveTape, OrderSolved
  <2>2. QED
    BY <1>1, <1>2, <2>1 DEF SolveInv
<1>3. ASSUME NEW c \in Counts[tape], CompareChangeCount(c)
      PROVE  SolveInv'
  BY <1>2, <1>3 DEF CompareChangeCount, Forwards
<1>4. ASSUME NEW q \in 0 .. 1, NEW p \in 0 .. q, ForwardSweep(p, q)
      PROVE  SolveInv'
  BY <1>1, <1>4, SolveStart
<1>5. ASSUME NEW w, NEW text \in BOOLEAN, ReverseSweep(w, text)
      PROVE  SolveInv'
  BY <1>2, <1>5 DEF ReverseSweep, Forwards
<1>6. CASE ForwardNext
  BY <1>1, <1>6, SolveForward
<1>7. CASE ReverseNext
  <2>1. /\ Backwards
        /\ sweep' = sweep \/ sweep' = None
        /\ tape' = tape /\ taylor_' = taylor_ /\ cskip_op_' = cskip_op_
        /\ num_order_taylor_' = num_order_taylor_
    BY <1>7 DEF ReverseNext, ReverseSkip, ReverseCompute, ReverseCSkip,
                ReversePass, ReverseBegin, ReverseTo
  <2>2. QED
    BY <1>2, <2>1 DEF Forwards, Backwards
<1>8. CASE UNCHANGED vars
  <2>1. /\ sweep' = sweep /\ cursor' = cursor /\ taylor_' = taylor_ /\ tape' = tape
        /\ num_order_taylor_' = num_order_taylor_ /\ (Forwards' <=> Forwards)
    BY <1>8 DEF vars, Forwards
  <2>2. \A i, k : OrderSolved(i, k)' <=> OrderSolved(i, k)
    BY <1>8 DEF vars, OrderSolved
  <2>3. OrdersSolveTape'
    BY <2>1, <2>2 DEF SolveInv, OrdersSolveTape
  <2>4. ASSUME Forwards
        PROVE  /\ sweep'.q \in 0 .. 1 /\ sweep'.p \in 0 .. sweep'.q
               /\ \A i \in Op(tape'), k \in 0 .. sweep'.p - 1 : OrderSolved(i, k)'
               /\ \A i \in 0 .. cursor'.op_index_, k \in sweep'.p .. sweep'.q :
                    OrderSolved(i, k)'
    BY <2>1, <2>2, <2>4 DEF SolveInv
  <2>5. num_order_taylor_' \in 0 .. 2 /\ DOMAIN taylor_' = 0 .. 1
    BY <2>1 DEF SolveInv
  <2>6. QED
    BY <1>1, <2>1, <2>3, <2>4, <2>5 DEF SolveInv
<1>9. QED
  BY <1>3, <1>4, <1>5, <1>6, <1>7, <1>8 DEF Next

(***************************************************************************)
(* Whatever calls came before, the coefficients of all known orders solve  *)
(* the tape when no forward sweep is under way.                            *)
(***************************************************************************)
THEOREM CoefficientsSolveTape == Spec => []OrdersSolveTape
<1>1. Init => SolveInv
  BY SolveInit
<1>2. SolveInv /\ [Next]_vars => SolveInv'
  BY SolveNext
<1>3. SolveInv => OrdersSolveTape
  BY DEF SolveInv
<1>4. QED
  BY <1>1, <1>2, <1>3, PTL DEF Spec

(* Coefficients are numbers. *)

Coefficients(t) == [0 .. 1 -> [Address(t) -> Num]]

LEMMA CoefficientsTyped ==
  ASSUME NEW t, WellFormed(t), NEW ins, Computes(t, ins), Shaped(t, ins),
         NEW y \in Coefficients(t), NEW k \in 0 .. 1
  PROVE  OperandsOf(t, y, ins, k) \in [DOMAIN ins.arg -> Num]
<1> DEFINE par == IF k = 0 THEN t.par_rec_ ELSE [i \in DOMAIN t.par_rec_ |-> Zero]
<1>1. \A n \in 1 .. Len(t.par_rec_) : par[n] \in Num
  <2>1. t.par_rec_ \in Seq(Num)
    BY DEF WellFormed, Vectors
  <2>2. \A n \in 1 .. Len(t.par_rec_) : t.par_rec_[n] \in Num /\ n \in DOMAIN t.par_rec_
    BY <2>1
  <2>3. QED
    BY <2>2, NumAssumption
<1> HIDE DEF par
<1>2. y[k] \in [Address(t) -> Num]
  BY DEF Coefficients
<1>3. Operands(ins, y[k], par) \in [DOMAIN ins.arg -> Num]
  BY <1>1, <1>2, OperandsTyped
<1>4. OperandsOf(t, y, ins, k) = Operands(ins, y[k], par)
  BY DEF OperandsOf, par
<1>5. QED
  BY <1>3, <1>4

LEMMA AdjointTyped ==
  ASSUME NEW t, NEW ins, Shaped(t, ins), NEW s \in [DOMAIN ins.arg -> Num],
         NEW z \in Num, NEW pz \in Num, NEW a, NEW pa,
         ins.op \in TwoResults => a \in Num /\ pa \in Num
  PROVE  Adjoint(ins, s, z, a, pz, pa) \in [DOMAIN ins.arg -> Num]
<1> DEFINE add == Adjoint(ins, s, z, a, pz, pa)
<1>1. CASE ins.op \in {"Add", "Sub", "Mul", "Div"} /\ DOMAIN ins.arg = 1 .. 2
  <2>1. s[1] \in Num /\ s[2] \in Num
    BY <1>1
  <2>2. \E m, n \in Num : add = <<m, n>>
    <3>1. CASE ins.op = "Add"
      BY <3>1 DEF Adjoint, CondExp, reverse_add_op
    <3>2. CASE ins.op = "Sub"
      <4>1. add = <<pz, Minus(pz)>> /\ Minus(pz) \in Num
        BY <3>2, Closed DEF Adjoint, CondExp, reverse_sub_op
      <4>2. QED
        BY <4>1
    <3>3. CASE ins.op = "Mul"
      <4>1. add = <<pz ** s[2], pz ** s[1]>> /\ pz ** s[2] \in Num /\ pz ** s[1] \in Num
        BY <2>1, <3>3, Closed DEF Adjoint, CondExp, reverse_mul_op
      <4>2. QED
        BY <4>1
    <3>4. CASE ins.op = "Div"
      <4>1. add = <<pz // s[2], Minus((pz // s[2]) ** z)>>
        BY <3>4 DEF Adjoint, CondExp, reverse_div_op
      <4>2. pz // s[2] \in Num /\ Minus((pz // s[2]) ** z) \in Num
        BY <2>1, Closed
      <4>3. QED
        BY <4>1, <4>2
    <3>5. QED
      BY <1>1, <3>1, <3>2, <3>3, <3>4
  <2>3. QED
    BY <1>1, <2>2, Tuples
<1>2. CASE ins.op \in Unary /\ ins.op \in {"Abs", "Exp", "Log", "Sin", "Cos"}
           /\ DOMAIN ins.arg = 1 .. 1
  <2>1. s[1] \in Num /\ (ins.op \in {"Sin", "Cos"} => a \in Num /\ pa \in Num)
    BY <1>2, TaylorAssumption
  <2>2. \E m \in Num : add = <<m>>
    <3>1. CASE ins.op = "Abs"
      BY <2>1, <3>1, Closed DEF Adjoint, CondExp, reverse_abs_op
    <3>2. CASE ins.op = "Exp"
      BY <2>1, <3>2, Closed DEF Adjoint, CondExp, reverse_exp_op
    <3>3. CASE ins.op = "Log"
      BY <2>1, <3>3, Closed DEF Adjoint, CondExp, reverse_log_op
    <3>4. CASE ins.op = "Sin"
      <4>1. add = <<(pz ** a) -- (pa ** z)>>
        BY <3>4 DEF Adjoint, CondExp, reverse_sin_op
      <4>2. (pz ** a) -- (pa ** z) \in Num
        BY <2>1, <3>4, Closed
      <4>3. QED
        BY <4>1, <4>2
    <3>5. CASE ins.op = "Cos"
      <4>1. add = <<(pa ** z) -- (pz ** a)>>
        BY <3>5 DEF Adjoint, CondExp, reverse_cos_op
      <4>2. (pa ** z) -- (pz ** a) \in Num
        BY <2>1, <3>5, Closed
      <4>3. QED
        BY <4>1, <4>2
    <3>6. QED
      BY <1>2, <3>1, <3>2, <3>3, <3>4, <3>5
  <2>3. QED
    BY <1>2, <2>2, Tuples
<1>3. CASE ins.op = "Par" /\ DOMAIN ins.arg = 1 .. 1
  <2>1. add = <<Zero>>
    BY <1>3 DEF Adjoint, CondExp
  <2>2. QED
    BY <1>3, <2>1, Tuples, NumAssumption
<1>4. CASE ins.op \in CondExp /\ DOMAIN ins.arg = 1 .. 4
  <2>1. add = reverse_cond_op(ins.op, s, pz)
    BY <1>4 DEF Adjoint, CondExp
  <2>2. \E m, n \in Num : add = <<Zero, Zero, m, n>>
    BY <2>1, NumAssumption DEF reverse_cond_op
  <2>3. QED
    BY <1>4, <2>2, Tuples
<1>5. CASE ins.op = "CSum"
  <2>1. add = [j \in DOMAIN ins.arg |->
                 IF j = 1 THEN Zero ELSE IF j <= ins.add + 1 THEN pz ELSE Minus(pz)]
    BY <1>5 DEF Adjoint, CondExp, reverse_csum_op
  <2>2. QED
    BY <2>1, Closed
<1>6. QED
  BY <1>1, <1>2, <1>3, <1>4, <1>5, ShapedOp

(* What an instruction computes from coefficients are numbers. *)
LEMMA ResultTyped ==
  ASSUME NEW t, WellFormed(t), NEW ins, Computes(t, ins), Shaped(t, ins),
         NEW y \in Coefficients(t), NEW k \in 0 .. 1
  PROVE  /\ ResultOf(t, y, ins, k) \in Num
         /\ ins.op \in TwoResults => AuxiliaryOf(t, y, ins, k) \in Num
<1>1. /\ OperandsOf(t, y, ins, 0) \in [DOMAIN ins.arg -> Num]
      /\ OperandsOf(t, y, ins, 1) \in [DOMAIN ins.arg -> Num]
  BY CoefficientsTyped
<1>2. /\ y[0][ins.res] \in Num
      /\ ins.op \in TwoResults => y[0][ins.res - 1] \in Num
  <2>1. /\ ins.res \in Address(t)
        /\ ins.op \in TwoResults => ins.res - 1 \in Address(t)
    BY DEF Computes, Address
  <2>2. QED
    BY <2>1 DEF Coefficients
<1>3. CASE k = 0
  BY <1>1, <1>3, Order0Typed DEF ResultOf, AuxiliaryOf
<1>4. CASE k = 1
  BY <1>1, <1>2, <1>4, Order1Typed DEF ResultOf, AuxiliaryOf
<1>5. QED
  BY <1>3, <1>4

LEMMA WrittenTyped ==
  ASSUME NEW t, WellFormed(t), NEW ins, Computes(t, ins), Shaped(t, ins),
         NEW y \in Coefficients(t), NEW k \in 0 .. 1
  PROVE  WriteOrder(t, y, ins, k) \in Coefficients(t)
<1> DEFINE w == [a \in Address(t) |->
                   IF a = ins.res THEN ResultOf(t, y, ins, k)
                   ELSE IF a = ins.res - 1 /\ ins.op \in TwoResults
                     THEN AuxiliaryOf(t, y, ins, k)
                   ELSE y[k][a]]
<1>1. WriteOrder(t, y, ins, k) = [y EXCEPT ![k] = w]
  BY DEF WriteOrder
<1>2. w \in [Address(t) -> Num]
  <2>1. \A a \in Address(t) : y[k][a] \in Num
    BY DEF Coefficients
  <2>2. QED
    BY <2>1, ResultTyped
<1> HIDE DEF w
<1>3. QED
  BY <1>1, <1>2 DEF Coefficients

LEMMA AllWrittenTyped ==
  ASSUME NEW t, WellFormed(t), NEW ins, Computes(t, ins), Shaped(t, ins),
         NEW y \in Coefficients(t), NEW p, NEW q
  PROVE  WriteOrders(t, y, ins, p, q) \in Coefficients(t)
<1>1. 0 \in 0 .. 1 /\ 1 \in 0 .. 1
  OBVIOUS
<1> DEFINE zero == IF p = 0 THEN WriteOrder(t, y, ins, 0) ELSE y
<1>2. zero \in Coefficients(t)
  BY <1>1, WrittenTyped
<1> HIDE DEF zero
<1>3. WriteOrder(t, zero, ins, 1) \in Coefficients(t)
  BY <1>1, <1>2, WrittenTyped
<1>4. WriteOrders(t, y, ins, p, q) = IF q = 1 THEN WriteOrder(t, zero, ins, 1) ELSE zero
  BY DEF WriteOrders, zero
<1>5. QED
  BY <1>2, <1>3, <1>4

-----------------------------------------------------------------------------
(* Partials are numbers. *)

(* Adding to one partial. *)
AddedTo(part, a, m) == [part EXCEPT ![a] = @ ++ m]

LEMMA AddedTyped ==
  ASSUME NEW A, NEW part \in [A -> Num], NEW a \in A, NEW m \in Num
  PROVE  AddedTo(part, a, m) \in [A -> Num]
<1>1. part[a] ++ m \in Num
  BY Closed
<1>2. QED
  BY <1>1 DEF AddedTo

(* The weights are added to the partials of the dependents one by one. *)
Weighs(w, n, g) ==
  /\ g \in [0 .. n -> [Address(tape) -> Num]]
  /\ g[0] = [a \in Address(tape) |-> Zero]
  /\ \A k \in 1 .. n : g[k] = AddedTo(g[k - 1], tape.dep_taddr_[k], w[k])

LEMMA WeightedFold ==
  ASSUME WellFormed(tape), NEW w \in [DOMAIN tape.dep_taddr_ -> Num],
         NEW n, n = Len(tape.dep_taddr_)
  PROVE  \E g : Weighs(w, n, g) /\ Weighted(w) = g[n]
<1> DEFINE S == [Address(tape) -> Num]
           b == [a \in Address(tape) |-> Zero]
           s == [i \in DOMAIN w |-> i]
           F == [p \in S \X (1 .. n) |-> AddedTo(p[1], tape.dep_taddr_[s[p[2]]], w[s[p[2]]])]
           P(it) == it = [t \in SUBSET DOMAIN s |->
                            IF t = {} THEN b
                            ELSE LET x == Max(t)
                                 IN  AddedTo(it[t \ {x}], tape.dep_taddr_[s[x]], w[s[x]])]
<1>1. /\ n \in Nat /\ DOMAIN s = 1 .. n
      /\ \A i \in 1 .. n : /\ s[i] = i /\ w[i] \in Num
                           /\ tape.dep_taddr_[i] \in Address(tape)
  <2>1. tape.dep_taddr_ \in Seq(1 .. tape.num_var_rec - 1) /\ tape.num_var_rec \in Nat
    BY DEF WellFormed, Vectors
  <2>2. n \in Nat /\ DOMAIN tape.dep_taddr_ = 1 .. n
        /\ \A i \in 1 .. n : tape.dep_taddr_[i] \in 1 .. tape.num_var_rec - 1
    BY <2>1
  <2>3. \A i \in 1 .. n : tape.dep_taddr_[i] \in Address(tape)
    BY <2>1, <2>2 DEF Address
  <2>4. \A i \in 1 .. n : s[i] = i /\ w[i] \in Num
    BY <2>2
  <2>5. DOMAIN s = 1 .. n
    BY <2>2
  <2>6. QED
    BY <2>2, <2>3, <2>4, <2>5
<1>2. b \in S /\ F \in [S \X (1 .. n) -> S]
  <2>1. \A p \in S \X (1 .. n) : AddedTo(p[1], tape.dep_taddr_[s[p[2]]], w[s[p[2]]]) \in S
    BY <1>1, AddedTyped
  <2>2. QED
    BY <2>1, NumAssumption
<1>3. \A y \in S, k \in 1 .. n :
        F[<<y, k>>] = AddedTo(y, tape.dep_taddr_[s[k]], w[s[k]])
  OBVIOUS
<1>4. Weighted(w) = (CHOOSE it : P(it))[DOMAIN s]
  BY DEF Weighted, FoldLeft, MapThenFoldSet, AddedTo
<1> HIDE DEF F, S, b, s
<1>5. PICK at \in [SUBSET (1 .. n) -> S] : Iterates(at, n, b, F)
  BY <1>1, <1>2, Iterated
<1>6. P(at)
  <2>1. ASSUME NEW t \in SUBSET (1 .. n), t # {}
        PROVE  at[t] = AddedTo(at[t \ {Max(t)}], tape.dep_taddr_[s[Max(t)]], w[s[Max(t)]])
    <3>1. Max(t) \in 1 .. n /\ t \ {Max(t)} \in SUBSET (1 .. n)
      BY <1>1, <2>1, Largest
    <3>2. at[t \ {Max(t)}] \in S
      BY <3>1
    <3>3. at[t] = F[<<at[t \ {Max(t)}], Max(t)>>]
      BY <1>5, <2>1 DEF Iterates
    <3>4. QED
      BY <1>3, <3>1, <3>2, <3>3
  <2>2. at[{}] = b
    BY <1>5 DEF Iterates
  <2>3. QED
    BY <1>1, <2>1, <2>2
<1>7. PICK it : P(it) /\ Weighted(w) = it[1 .. n]
  <2> HIDE DEF P
  <2>1. QED
    BY <1>1, <1>4, <1>6
<1> DEFINE g == [k \in 0 .. n |-> it[1 .. k]]
<1>8. g[0] = b
  <2>1. 1 .. 0 = {} /\ {} \in SUBSET DOMAIN s
    OBVIOUS
  <2>2. it[{}] = b
    BY <1>7, <2>1
  <2>3. QED
    BY <1>1, <2>1, <2>2
<1>9. \A k \in 1 .. n : g[k] = AddedTo(g[k - 1], tape.dep_taddr_[k], w[k])
  <2>1. SUFFICES ASSUME NEW k \in 1 .. n
                 PROVE  g[k] = AddedTo(g[k - 1], tape.dep_taddr_[k], w[k])
    OBVIOUS
  <2>2. Max(1 .. k) = k /\ (1 .. k) \ {k} = 1 .. k - 1 /\ 1 .. k \in SUBSET DOMAIN s
        /\ 1 .. k # {}
    BY <1>1, LargestOfInterval
  <2>3. it[1 .. k] = AddedTo(it[(1 .. k) \ {Max(1 .. k)}],
                                tape.dep_taddr_[s[Max(1 .. k)]], w[s[Max(1 .. k)]])
    BY <1>7, <2>2
  <2>4. it[1 .. k] = AddedTo(it[1 .. k - 1], tape.dep_taddr_[k], w[k])
    BY <1>1, <2>2, <2>3
  <2>5. QED
    BY <1>1, <2>4
<1>10. g[n] = Weighted(w) /\ DOMAIN g = 0 .. n /\ g = [k \in DOMAIN g |-> g[k]]
  BY <1>1, <1>7
<1> HIDE DEF g
<1> DEFINE T == {k \in 0 .. n : g[k] \in S}
<1>11. \A k \in 0 .. n : k \in T
  <2>1. 0 \in T
    BY <1>1, <1>2, <1>8
  <2>2. ASSUME NEW k \in 1 .. n, k - 1 \in T
        PROVE  k \in T
    <3>1. g[k - 1] \in S /\ k \in 0 .. n
      BY <1>1, <2>2
    <3>2. AddedTo(g[k - 1], tape.dep_taddr_[k], w[k]) \in S
      BY <1>1, <3>1, AddedTyped DEF S
    <3>3. g[k] \in S
      BY <1>9, <3>2
    <3>4. QED
      BY <3>1, <3>3
  <2> HIDE DEF T
  <2>3. QED
    BY <1>1, <2>1, <2>2, UpTo
<1>12. g \in [0 .. n -> S]
  BY <1>10, <1>11
<1>13. QED
  BY <1>8, <1>9, <1>10, <1>12 DEF Weighs, S, b

(* What an instruction adds to the partials of its operands, one by one. *)
AddedBy(ins, add, part, j) ==
  IF ins.kind[j] = "v" THEN AddedTo(part, ins.arg[j], add[j]) ELSE part

Propagates(t, ins, add, part, n, g) ==
  /\ g \in [0 .. n -> [Address(t) -> Num]]
  /\ g[0] = part
  /\ \A k \in 1 .. n : g[k] = AddedBy(ins, add, g[k - 1], k)

(* The fold of Propagated. *)
Spread(ins, add, part) ==
  FoldLeft(LAMBDA sum, j :
             IF ins.kind[j] = "v"
               THEN [sum EXCEPT ![ins.arg[j]] = @ ++ add[j]]
               ELSE sum,
           part, [j \in DOMAIN ins.arg |-> j])

(* An instruction has n operands, and they are on tape t. *)
ArgsOn(t, ins, n) ==
  /\ DOMAIN ins.arg = 1 .. n
  /\ \A j \in 1 .. n : ins.kind[j] = "v" => ins.arg[j] \in Address(t)

LEMMA SpreadFold ==
  ASSUME NEW t, NEW ins, NEW n \in Nat, ArgsOn(t, ins, n),
         NEW add \in [1 .. n -> Num], NEW part \in [Address(t) -> Num]
  PROVE  \E g : Propagates(t, ins, add, part, n, g) /\ Spread(ins, add, part) = g[n]
<1> DEFINE S == [Address(t) -> Num]
           s == [j \in DOMAIN ins.arg |-> j]
           F == [p \in S \X (1 .. n) |-> AddedBy(ins, add, p[1], s[p[2]])]
           P(it) == it = [u \in SUBSET DOMAIN s |->
                            IF u = {} THEN part
                            ELSE LET x == Max(u)
                                 IN  AddedBy(ins, add, it[u \ {x}], s[x])]
<1>1. DOMAIN s = 1 .. n /\ \A j \in 1 .. n : s[j] = j
  BY DEF ArgsOn
<1>2. \A y \in S, j \in 1 .. n : AddedBy(ins, add, y, j) \in S
  BY AddedTyped DEF AddedBy, ArgsOn
<1>3. F \in [S \X (1 .. n) -> S]
  BY <1>1, <1>2
<1>4. \A y \in S, k \in 1 .. n : F[<<y, k>>] = AddedBy(ins, add, y, s[k])
  OBVIOUS
<1>5. Spread(ins, add, part) = (CHOOSE it : P(it))[DOMAIN s]
  BY DEF Spread, FoldLeft, MapThenFoldSet, AddedBy, AddedTo
<1> HIDE DEF F, s
<1>6. PICK at \in [SUBSET (1 .. n) -> S] : Iterates(at, n, part, F)
  <2>1. part \in S
    OBVIOUS
  <2> HIDE DEF S
  <2>2. QED
    BY <1>3, <2>1, Iterated
<1> HIDE DEF S
<1>7. P(at)
  <2>1. ASSUME NEW u \in SUBSET (1 .. n), u # {}
        PROVE  at[u] = AddedBy(ins, add, at[u \ {Max(u)}], s[Max(u)])
    <3>1. Max(u) \in 1 .. n /\ u \ {Max(u)} \in SUBSET (1 .. n)
      BY <2>1, Largest
    <3>2. at[u \ {Max(u)}] \in S
      BY <3>1
    <3>3. at[u] = F[<<at[u \ {Max(u)}], Max(u)>>]
      BY <1>6, <2>1 DEF Iterates
    <3>4. QED
      BY <1>4, <3>1, <3>2, <3>3
  <2>2. at[{}] = part
    BY <1>6 DEF Iterates
  <2>3. QED
    BY <1>1, <2>1, <2>2
<1>8. PICK it : P(it) /\ Spread(ins, add, part) = it[1 .. n]
  <2> HIDE DEF P
  <2>1. QED
    BY <1>1, <1>5, <1>7
<1> DEFINE g == [k \in 0 .. n |-> it[1 .. k]]
<1>9. g[0] = part
  <2>1. 1 .. 0 = {} /\ {} \in SUBSET DOMAIN s
    OBVIOUS
  <2>2. it[{}] = part
    BY <1>8, <2>1
  <2>3. QED
    BY <2>1, <2>2
<1>10. \A k \in 1 .. n : g[k] = AddedBy(ins, add, g[k - 1], k)
  <2>1. SUFFICES ASSUME NEW k \in 1 .. n
                 PROVE  g[k] = AddedBy(ins, add, g[k - 1], k)
    OBVIOUS
  <2>2. Max(1 .. k) = k /\ (1 .. k) \ {k} = 1 .. k - 1 /\ 1 .. k \in SUBSET DOMAIN s
        /\ 1 .. k # {}
    <3>1. Max(1 .. k) = k /\ (1 .. k) \ {k} = 1 .. k - 1 /\ 1 .. k \in SUBSET (1 .. n)
      BY LargestOfInterval
    <3>2. 1 \in 1 .. k
      OBVIOUS
    <3>3. QED
      BY <1>1, <3>1, <3>2, Zenon
  <2>3. it[1 .. k] = AddedBy(ins, add, it[(1 .. k) \ {Max(1 .. k)}], s[Max(1 .. k)])
    BY <1>8, <2>2
  <2>4. it[1 .. k] = AddedBy(ins, add, it[1 .. k - 1], k)
    BY <1>1, <2>2, <2>3
  <2>5. QED
    BY <2>4
<1>11. g[n] = Spread(ins, add, part) /\ DOMAIN g = 0 .. n /\ g = [k \in DOMAIN g |-> g[k]]
  BY <1>8
<1> HIDE DEF g
<1> DEFINE T == {k \in 0 .. n : g[k] \in S}
<1>12. \A k \in 0 .. n : k \in T
  <2>1. 0 \in T
    BY <1>9 DEF S
  <2>2. ASSUME NEW k \in 1 .. n, k - 1 \in T
        PROVE  k \in T
    <3>1. g[k - 1] \in S /\ k \in 0 .. n
      BY <2>2
    <3>2. AddedBy(ins, add, g[k - 1], k) \in S
      BY <1>2, <3>1
    <3>3. g[k] \in S
      BY <1>10, <3>2
    <3>4. QED
      BY <3>1, <3>3
  <2> HIDE DEF T
  <2>3. QED
    BY <2>1, <2>2, UpTo
<1>13. g \in [0 .. n -> S]
  BY <1>11, <1>12
<1>14. QED
  BY <1>9, <1>10, <1>11, <1>13 DEF Propagates, S

(* Partials are numbers. *)
LEMMA WeightedTyped ==
  ASSUME WellFormed(tape), NEW w \in [DOMAIN tape.dep_taddr_ -> Num]
  PROVE  Weighted(w) \in [Address(tape) -> Num]
<1> DEFINE n == Len(tape.dep_taddr_)
<1>1. n \in Nat
  <2>1. tape.dep_taddr_ \in Seq(1 .. tape.num_var_rec - 1)
    BY DEF WellFormed, Vectors
  <2>2. QED
    BY <2>1
<1> HIDE DEF n
<1>2. PICK g : Weighs(w, n, g) /\ Weighted(w) = g[n]
  BY WeightedFold DEF n
<1>3. QED
  BY <1>1, <1>2 DEF Weighs

(* The adjoint of an instruction at the coefficients there are. *)
AdjointAt(part, ins) ==
  Adjoint(ins, OperandsOf(tape, taylor_, ins, 0), taylor_[0][ins.res],
          taylor_[0][ins.res - 1], part[ins.res], part[ins.res - 1])

LEMMA ShapedArgs ==
  ASSUME NEW t, NEW ins, Computes(t, ins), Shaped(t, ins)
  PROVE  /\ \E n \in Nat : DOMAIN ins.arg = 1 .. n
         /\ \A j \in DOMAIN ins.arg :
              ins.kind[j] = "v" => /\ ins.arg[j] \in Before(ins)
                                   /\ ins.arg[j] \in Address(t)
<1>1. \E n \in Nat : DOMAIN ins.arg = 1 .. n
  <2>1. \A n \in Nat : n + 1 \in Nat
    OBVIOUS
  <2>2. 1 \in Nat /\ 2 \in Nat /\ 4 \in Nat
    OBVIOUS
  <2>3. QED
    BY <2>1, <2>2 DEF Shaped
<1>2. ASSUME NEW j \in DOMAIN ins.arg, ins.kind[j] = "v"
      PROVE  ins.arg[j] \in Before(ins) /\ ins.arg[j] \in Address(t)
  <2>1. ins.arg[j] \in 1 .. ins.res - NumRes(ins.op)
    BY <1>2 DEF Computes, ArgsValid, Before
  <2>2. QED
    BY <2>1 DEF Computes, Address, Before
<1>3. QED
  BY <1>1, <1>2

LEMMA PropagatedTyped ==
  ASSUME WellFormed(tape), taylor_ \in Coefficients(tape),
         NEW ins, Computes(tape, ins), Shaped(tape, ins),
         NEW part \in [Address(tape) -> Num]
  PROVE  Propagated(part, ins) \in [Address(tape) -> Num]
<1>1. PICK n \in Nat : DOMAIN ins.arg = 1 .. n
  BY ShapedArgs
<1>2. Propagated(part, ins) = Spread(ins, AdjointAt(part, ins), part)
  BY DEF Propagated, Spread, AdjointAt
<1>3. AdjointAt(part, ins) \in [1 .. n -> Num]
  <2>1. OperandsOf(tape, taylor_, ins, 0) \in [DOMAIN ins.arg -> Num]
    BY CoefficientsTyped
  <2>2. /\ ins.res \in Address(tape)
        /\ ins.op \in TwoResults => ins.res - 1 \in Address(tape)
    BY DEF Computes, Address
  <2>3. taylor_[0] \in [Address(tape) -> Num]
    BY DEF Coefficients
  <2>4. QED
    BY <1>1, <2>1, <2>2, <2>3, AdjointTyped DEF AdjointAt
<1>4. PICK add \in [1 .. n -> Num] : add = AdjointAt(part, ins)
  BY <1>3
<1>5. ArgsOn(tape, ins, n)
  BY <1>1, ShapedArgs DEF ArgsOn
<1>6. PICK g : /\ Propagates(tape, ins, add, part, n, g)
               /\ Spread(ins, add, part) = g[n]
  BY <1>1, <1>5, SpreadFold
<1>7. QED
  BY <1>2, <1>4, <1>6 DEF Propagates

-----------------------------------------------------------------------------
(***************************************************************************)
(* The invariant of the types: the cursor is at or past an operator, all   *)
(* coefficients and partials are numbers, and a zero-order sweep has not   *)
(* counted more comparisons than it has passed operators.                  *)
(***************************************************************************)
CursorOn(t, c) == \E i \in Op(t) : c = At(t, i) \/ c = Passing(t, i)

SweepTyped ==
  sweep # None =>
    \/ sweep \in [mode : {"forward"}, p : 0 .. 1, q : 0 .. 1]
    \/ sweep \in [mode : {"reverse"}, w : [DOMAIN tape.dep_taddr_ -> Num],
                  text : BOOLEAN]

CountTyped ==
  /\ compare_change_ \in [count : Nat, number : Op(tape), op_index : Op(tape)]
  /\ (Forwards /\ sweep.p = 0) => compare_change_.number <= cursor.op_index_

TypeInv ==
  /\ SolveInv
  /\ CursorOn(tape, cursor)
  /\ taylor_ \in Coefficients(tape)
  /\ CountTyped
  /\ Partial \in [Address(tape) -> Num]
  /\ SweepTyped

LEMMA CursorTyped ==
  ASSUME NEW t, WellFormed(t), NEW c, CursorOn(t, c)
  PROVE  /\ c.op_index_ \in Op(t)
         /\ c.op_arg_ \in 0 .. t.num_op_arg_rec
         /\ c.var_index_ \in Address(t)
<1>1. PICK i \in Op(t) : c = At(t, i) \/ c = Passing(t, i)
  BY DEF CursorOn
<1>2. /\ t.first[i] \in 0 .. t.num_op_arg_rec /\ t.last[i] \in Address(t)
      /\ i + 1 \in Op(t) => t.first[i] + Size(t, i) \in 0 .. t.num_op_arg_rec
  BY ArgumentsPlaced, ResultsOrdered
<1>3. t.op_rec_[i].op \in Optimized => i + 1 \in Op(t)
  BY Placed DEF Optimized, Op
<1>4. CASE c = At(t, i)
  BY <1>2, <1>4 DEF At
<1>5. CASE c = Passing(t, i)
  BY <1>2, <1>3, <1>5 DEF Passing
<1>6. QED
  BY <1>1, <1>4, <1>5

LEMMA TapeKept ==
  ASSUME [Next]_vars
  PROVE  tape' = tape
  BY DEF Next, CompareChangeCount, ForwardSweep, ReverseSweep, ForwardNext,
         ForwardSkip, ForwardInv, ForwardCompute, ForwardCompare, ForwardCSkip,
         ForwardEnd, ReverseNext, ReverseSkip, ReverseCompute, ReverseCSkip,
         ReversePass, ReverseBegin, vars

(* A step of a sweep, and the end of one, leave the cursor on the tape. *)
LEMMA CursorKept ==
  ASSUME Traced, FlowInv, FlowInv', [Next]_vars, CursorOn(tape, cursor)
  PROVE  CursorOn(tape, cursor)'
<1>1. tape' = tape
  BY TapeKept
<1>2. CASE Forwards' \/ Backwards'
  BY <1>2 DEF FlowInv, CursorOn
<1>3. CASE ForwardEnd
  <2>1. Ahead.op_index_ \in Op(tape) /\ Ahead = At(tape, Ahead.op_index_)
        /\ cursor' = Ahead
    BY <1>3, AheadIsNext DEF ForwardEnd, ForwardTo
  <2>2. QED
    BY <1>1, <2>1 DEF CursorOn
<1>4. CASE ReverseBegin
  <2>1. /\ Backwards /\ cursor' = Behind /\ OpAt(tape, Behind).op = "Begin"
    BY <1>4 DEF ReverseBegin, ReverseTo
  <2>2. Behind.op_index_ \in Op(tape) /\ Behind = At(tape, Behind.op_index_)
    BY <2>1, BehindIsPrevious DEF Optimized
  <2>3. QED
    BY <1>1, <2>1, <2>2 DEF CursorOn
<1>5. ASSUME cursor' \in {cursor, forward_start, reverse_start(tape)}
      PROVE  CursorOn(tape, cursor)'
  <2>1. WellFormed(tape)
    BY TapesAssumption DEF FlowInv
  <2>2. CursorOn(tape, forward_start) /\ CursorOn(tape, reverse_start(tape))
    BY <2>1, Ends DEF CursorOn
  <2>3. CursorOn(tape, cursor')
    BY <1>5, <2>2
  <2>4. QED
    BY <1>1, <2>3
<1>6. \/ cursor' \in {cursor, forward_start, reverse_start(tape)}
      \/ Forwards' \/ Backwards' \/ ForwardEnd \/ ReverseBegin
  <2>1. ASSUME \/ \E c \in Counts[tape] : CompareChangeCount(c)
               \/ \E q \in 0 .. 1 : \E p \in 0 .. q : ForwardSweep(p, q)
               \/ \E w \in [DOMAIN tape.dep_taddr_ -> Num], text \in BOOLEAN :
                    ReverseSweep(w, text)
               \/ UNCHANGED vars
        PROVE  cursor' \in {cursor, forward_start, reverse_start(tape)}
    BY <2>1 DEF CompareChangeCount, ForwardSweep, ReverseSweep, vars
  <2>2. CASE ForwardNext
    BY <2>2 DEF ForwardNext, ForwardSkip, ForwardInv, ForwardCompute,
         ForwardCompare, ForwardCSkip, ForwardTo, Forwards
  <2>3. CASE ReverseNext
    BY <2>3 DEF ReverseNext, ReverseSkip, ReverseCompute, ReverseCSkip,
         ReversePass, ReverseTo, Backwards
  <2>4. QED
    BY <2>1, <2>2, <2>3 DEF Next
<1>7. QED
  BY <1>2, <1>3, <1>4, <1>5, <1>6

(* Coefficients stay numbers. *)
LEMMA CoefficientsKept ==
  ASSUME SolveInv, [Next]_vars, taylor_ \in Coefficients(tape)
  PROVE  (taylor_ \in Coefficients(tape))'
<1>1. tape' = tape
  BY TapeKept
<1>2. SUFFICES taylor_' \in Coefficients(tape)
  BY <1>1 DEF Coefficients
<1>3. ASSUME NEW q \in 0 .. 1, NEW p \in 0 .. q, ForwardSweep(p, q)
      PROVE  taylor_' \in Coefficients(tape)
  <2>1. PICK u \in [p .. q -> [1 .. tape.n -> Num]] :
          taylor_' = [k \in 0 .. 1 |->
            [a \in Address(tape) |->
               IF k \in p .. q /\ a \in 1 .. tape.n THEN u[k][a]
                                                    ELSE taylor_[k][a]]]
    BY <1>3 DEF ForwardSweep
  <2>2. ASSUME NEW k \in 0 .. 1, NEW a \in Address(tape)
        PROVE  (IF k \in p .. q /\ a \in 1 .. tape.n THEN u[k][a]
                                                     ELSE taylor_[k][a]) \in Num
    <3>1. taylor_[k][a] \in Num
      BY DEF Coefficients
    <3>2. ASSUME k \in p .. q, a \in 1 .. tape.n
          PROVE  u[k][a] \in Num
      BY <2>1, <3>2
    <3>3. QED
      BY <3>1, <3>2
  <2>3. QED
    BY <2>1, <2>2 DEF Coefficients
<1>4. CASE ForwardCompute
  <2> DEFINE j == Ahead.op_index_
             ins == Instr(tape, At(tape, j))
  <2>1. /\ Forwards /\ OpAt(tape, Ahead).op \in Computing
        /\ taylor_' = WriteOrders(tape, taylor_, Instr(tape, Ahead), sweep.p, sweep.q)
    BY <1>4 DEF ForwardCompute, ForwardTo
  <2>2. /\ WellFormed(tape) /\ j \in Op(tape) /\ Ahead = At(tape, j)
        /\ tape.op_rec_[j].op \in Computing
    BY <2>1, AheadIsNext DEF SolveInv
  <2>3. taylor_' = WriteOrders(tape, taylor_, ins, sweep.p, sweep.q)
    BY <2>1, <2>2
  <2>4. Computes(tape, ins) /\ Shaped(tape, ins)
    BY <2>2, Computed, ComputingShaped, Placed DEF Computes
  <2> HIDE DEF ins
  <2>5. QED
    BY <2>2, <2>3, <2>4, AllWrittenTyped
<1>5. taylor_' = taylor_ \/ ForwardCompute
        \/ \E q \in 0 .. 1 : \E p \in 0 .. q : ForwardSweep(p, q)
  BY DEF Next, CompareChangeCount, ReverseSweep, ForwardNext,
         ForwardSkip, ForwardInv, ForwardCompare, ForwardCSkip,
         ForwardEnd, ReverseNext, ReverseSkip, ReverseCompute, ReverseCSkip,
         ReversePass, ReverseBegin, vars
<1>6. QED
  BY <1>3, <1>4, <1>5

(* So do partials. *)
LEMMA PartialsKept ==
  ASSUME Traced, FlowInv, [Next]_vars, taylor_ \in Coefficients(tape),
         Partial \in [Address(tape) -> Num]
  PROVE  (Partial \in [Address(tape) -> Num])'
<1>1. tape' = tape
  BY TapeKept
<1>2. WellFormed(tape)
  BY TapesAssumption DEF FlowInv
<1>3. SUFFICES Partial' \in [Address(tape) -> Num]
  BY <1>1
<1>4. ASSUME NEW w \in [DOMAIN tape.dep_taddr_ -> Num], NEW text, ReverseSweep(w, text)
      PROVE  Partial' \in [Address(tape) -> Num]
  BY <1>2, <1>4, WeightedTyped DEF ReverseSweep
<1>5. CASE ReverseCompute
  <2> DEFINE j == Behind.op_index_
             ins == Instr(tape, At(tape, j))
  <2>1. /\ Backwards /\ OpAt(tape, Behind).op \in Computing
        /\ cursor' = IF OpAt(tape, Behind).op = "CSum" /\ sweep.text
                       THEN reverse_csum(tape, Behind) ELSE Behind
        /\ Partial' = Propagated(Partial, Instr(tape, cursor'))
    BY <1>5 DEF ReverseCompute, ReverseTo
  <2>2. /\ j \in Op(tape) /\ OpAt(tape, Behind) = tape.op_rec_[j]
        /\ tape.op_rec_[j].op \notin Optimized => Behind = At(tape, j)
        /\ tape.op_rec_[j].op = "CSum" => reverse_csum(tape, Behind) = At(tape, j)
    BY <2>1, BehindIsPrevious
  <2>3. tape.op_rec_[j].op \in Optimized => sweep.text
    BY <2>1, <2>2 DEF FlowInv, OptimizedTape
  <2>4. cursor' = At(tape, j)
    BY <2>1, <2>2, <2>3, OpCodes DEF Optimized
  <2>5. Partial' = Propagated(Partial, ins) /\ tape.op_rec_[j].op \in Computing
    BY <2>1, <2>2, <2>4
  <2>6. Computes(tape, ins) /\ Shaped(tape, ins)
    BY <1>2, <2>2, <2>5, Computed, ComputingShaped, Placed DEF Computes
  <2> HIDE DEF ins
  <2>7. QED
    BY <1>2, <2>5, <2>6, PropagatedTyped
<1>6. CASE ReverseBegin
  BY <1>6, NumAssumption DEF ReverseBegin
<1>7. Partial' = Partial \/ ReverseCompute \/ ReverseBegin
        \/ \E w \in [DOMAIN tape.dep_taddr_ -> Num], text \in BOOLEAN :
             ReverseSweep(w, text)
  BY DEF Next, CompareChangeCount, ForwardSweep, ForwardNext,
         ForwardSkip, ForwardInv, ForwardCompute, ForwardCompare, ForwardCSkip,
         ForwardEnd, ReverseNext, ReverseSkip, ReverseCSkip, ReversePass, vars
<1>8. QED
  BY <1>4, <1>5, <1>6, <1>7

(* Nothing is counted but by a comparison, once. *)
LEMMA CountKept ==
  ASSUME FlowInv, [Next]_vars, CountTyped
  PROVE  CountTyped'
<1>1. tape' = tape /\ WellFormed(tape) /\ 0 \in Op(tape)
  BY TapeKept, TapesAssumption, Ends DEF FlowInv
<1>2. ASSUME compare_change_' = compare_change_,
             (Forwards /\ sweep.p = 0)' =>
               /\ Forwards /\ sweep.p = 0
               /\ cursor.op_index_ \in Nat
               /\ cursor'.op_index_ \in {cursor.op_index_, cursor.op_index_ + 1}
      PROVE  CountTyped'
  <2>1. compare_change_.number \in Nat
    BY DEF CountTyped, Op
  <2>2. QED
    BY <1>1, <1>2, <2>1 DEF CountTyped
<1>3. ASSUME NEW c \in Counts[tape], CompareChangeCount(c)
      PROVE  CountTyped'
  <2>1. /\ compare_change_' = [count |-> c, number |-> 0, op_index |-> 0]
        /\ ~Forwards' /\ c \in Nat
    BY <1>3, CountsAssumption DEF CompareChangeCount, Forwards, FlowInv
  <2>2. QED
    BY <1>1, <2>1 DEF CountTyped
<1>4. ASSUME NEW q \in 0 .. 1, NEW p \in 0 .. q, ForwardSweep(p, q)
      PROVE  CountTyped'
  <2>1. /\ compare_change_' = Changes(p) /\ cursor' = forward_start
        /\ sweep' = [mode |-> "forward", p |-> p, q |-> q]
    BY <1>4 DEF ForwardSweep
  <2>2. CASE p = 0
    <3>1. /\ compare_change_'.number = 0 /\ cursor'.op_index_ = 0
          /\ compare_change_' \in [count : Nat, number : Op(tape), op_index : Op(tape)]
      BY <1>1, <2>1, <2>2 DEF Changes, CountTyped, forward_start
    <3>2. QED
      BY <1>1, <3>1 DEF CountTyped
  <2>3. CASE p # 0
    BY <1>2, <2>1, <2>3 DEF Changes
  <2>4. QED
    BY <2>2, <2>3
<1>5. ASSUME NEW w, NEW text, ReverseSweep(w, text)
      PROVE  CountTyped'
  BY <1>2, <1>5 DEF ReverseSweep, Forwards
<1>6. CASE ForwardNext
  <2> DEFINE j == Ahead.op_index_
  <2>1. Forwards
    BY <1>6 DEF ForwardNext, ForwardSkip, ForwardInv, ForwardCompute,
         ForwardCompare, ForwardCSkip, ForwardEnd, ForwardTo
  <2>2. /\ j \in Op(tape) /\ j = cursor.op_index_ + 1 /\ cursor.op_index_ \in Op(tape)
        /\ forward_csum(tape, Ahead).op_index_ = j
        /\ forward_cskip(tape, Ahead).op_index_ = j
    BY <2>1, AheadPlaced
  <2>3. cursor.op_index_ \in Nat /\ cursor'.op_index_ = cursor.op_index_ + 1
    BY <1>6, <2>2 DEF ForwardNext, ForwardSkip, ForwardInv, ForwardCompute,
         ForwardCompare, ForwardCSkip, ForwardEnd, Op
  <2>4. (Forwards /\ sweep.p = 0)' => sweep' = sweep
    BY <1>6 DEF ForwardNext, ForwardSkip, ForwardInv, ForwardCompute,
         ForwardCompare, ForwardCSkip, ForwardEnd, Forwards
  <2>5. CASE compare_change_' = compare_change_
    BY <1>2, <2>1, <2>3, <2>4, <2>5
  <2>6. CASE ForwardCompare /\ sweep.p = 0 /\ compare_change_.count > 0
    <3> DEFINE number == compare_change_.number
                 + (IF Changed(tape, taylor_, Instr(tape, Ahead)) THEN 1 ELSE 0)
    <3>1. /\ compare_change_' =
               [compare_change_ EXCEPT
                  !.number = number,
                  !.op_index = IF number = compare_change_.count THEN j ELSE @]
          /\ compare_change_ \in [count : Nat, number : Op(tape), op_index : Op(tape)]
          /\ compare_change_.number <= cursor.op_index_
      BY <2>1, <2>6 DEF ForwardCompare, CountTyped
    <3>2. compare_change_.number \in Nat
          /\ number \in Nat /\ number <= cursor.op_index_ + 1
      BY <2>3, <3>1 DEF Op
    <3>3. number \in Op(tape)
      <4>1. tape.num_op_rec \in Nat /\ number <= j /\ j <= tape.num_op_rec - 1
        BY <1>1, <2>2, <3>2, Placed DEF Op
      <4> HIDE DEF number, j
      <4>2. QED
        BY <2>2, <3>2, <4>1 DEF Op
    <3> HIDE DEF number, j
    <3>4. /\ compare_change_' \in [count : Nat, number : Op(tape), op_index : Op(tape)]
          /\ compare_change_'.number = number
      BY <2>2, <3>1, <3>3
    <3>5. compare_change_'.number <= cursor'.op_index_
      BY <2>3, <3>2, <3>4
    <3>6. QED
      BY <1>1, <3>4, <3>5 DEF CountTyped
  <2>7. compare_change_' = compare_change_
          \/ (ForwardCompare /\ sweep.p = 0 /\ compare_change_.count > 0)
    BY <1>6 DEF ForwardNext, ForwardSkip, ForwardInv, ForwardCompute,
         ForwardCompare, ForwardCSkip, ForwardEnd
  <2>8. QED
    BY <2>5, <2>6, <2>7
<1>7. CASE ReverseNext
  <2>1. /\ compare_change_' = compare_change_ /\ Backwards
        /\ sweep' = sweep \/ sweep' = None
    BY <1>7 DEF ReverseNext, ReverseSkip, ReverseCompute, ReverseCSkip,
                ReversePass, ReverseBegin, ReverseTo
  <2>2. ~Forwards'
    BY <2>1 DEF Forwards, Backwards
  <2>3. QED
    BY <1>2, <2>1, <2>2
<1>8. CASE UNCHANGED vars
  BY <1>8 DEF vars, CountTyped, Forwards
<1>9. QED
  BY <1>3, <1>4, <1>5, <1>6, <1>7, <1>8 DEF Next

LEMMA SweepKept ==
  ASSUME [Next]_vars, SweepTyped
  PROVE  SweepTyped'
<1>1. tape' = tape
  BY TapeKept
<1>2. ASSUME sweep' = sweep \/ sweep' = None
      PROVE  SweepTyped'
  BY <1>1, <1>2 DEF SweepTyped
<1>3. ASSUME NEW q \in 0 .. 1, NEW p \in 0 .. q, ForwardSweep(p, q)
      PROVE  SweepTyped'
  <2>1. sweep' = [mode |-> "forward", p |-> p, q |-> q] /\ p \in 0 .. 1
    BY <1>3 DEF ForwardSweep
  <2>2. sweep' \in [mode : {"forward"}, p : 0 .. 1, q : 0 .. 1]
    BY <2>1
  <2>3. QED
    BY <2>2 DEF SweepTyped
<1>4. ASSUME NEW w \in [DOMAIN tape.dep_taddr_ -> Num], NEW text \in BOOLEAN,
             ReverseSweep(w, text)
      PROVE  SweepTyped'
  <2>1. sweep' = [mode |-> "reverse", w |-> w, text |-> text]
    BY <1>4 DEF ReverseSweep
  <2>2. sweep' \in [mode : {"reverse"}, w : [DOMAIN tape.dep_taddr_ -> Num],
                    text : BOOLEAN]
    BY <2>1
  <2>3. QED
    BY <1>1, <2>2 DEF SweepTyped
<1>5. CASE ForwardNext \/ ReverseNext \/ UNCHANGED vars
           \/ \E c \in Counts[tape] : CompareChangeCount(c)
  <2>1. sweep' = sweep \/ sweep' = None
    BY <1>5 DEF CompareChangeCount, ForwardNext, ForwardSkip, ForwardInv,
         ForwardCompute, ForwardCompare, ForwardCSkip, ForwardEnd, ReverseNext,
         ReverseSkip, ReverseCompute, ReverseCSkip, ReversePass, ReverseBegin, vars
  <2>2. QED
    BY <1>2, <2>1
<1>6. QED
  BY <1>3, <1>4, <1>5 DEF Next

LEMMA TypeInit == Init => TypeInv
<1> SUFFICES ASSUME Init PROVE TypeInv
  OBVIOUS
<1>1. SolveInv /\ WellFormed(tape)
  BY SolveInit, TapesAssumption DEF Init
<1>2. CursorOn(tape, cursor)
  BY <1>1, Ends DEF Init, CursorOn
<1>3. taylor_ \in Coefficients(tape)
  BY GarbageAssumption DEF Init, Coefficients
<1>4. CountTyped
  BY <1>1, Ends DEF Init, CountTyped, Forwards
<1>5. Partial \in [Address(tape) -> Num]
  BY NumAssumption DEF Init
<1>6. SweepTyped
  BY DEF Init, SweepTyped
<1>7. QED
  BY <1>1, <1>2, <1>3, <1>4, <1>5, <1>6 DEF TypeInv

LEMMA TypeNext ==
  ASSUME Traced, TypeInv, [Next]_vars
  PROVE  TypeInv'
<1>1. SolveInv /\ SolveInv' /\ FlowInv /\ FlowInv'
  BY SolveNext, FlowNext DEF TypeInv, SolveInv
<1>2. QED
  BY <1>1, CursorKept, CoefficientsKept, CountKept, PartialsKept, SweepKept
     DEF TypeInv

(***************************************************************************)
(* The state keeps its types, whatever calls are made: the cursor stays on *)
(* the tape, coefficients and partials stay numbers, and no more           *)
(* comparisons are counted than there are operators.                       *)
(***************************************************************************)
THEOREM TypeCorrect ==
  ASSUME Traced
  PROVE  Spec => []TypeOK
<1>1. Init => TypeInv
  BY TypeInit
<1>2. TypeInv /\ [Next]_vars => TypeInv'
  BY TypeNext
<1>3. TypeInv => TypeOK
  <2> SUFFICES ASSUME TypeInv PROVE TypeOK
    OBVIOUS
  <2>1. FlowInv /\ WellFormed(tape) /\ num_order_taylor_ \in 0 .. 2
    BY TapesAssumption DEF TypeInv, SolveInv, FlowInv
  <2>2. /\ cursor.op_index_ \in Op(tape)
        /\ cursor.op_arg_ \in 0 .. tape.num_op_arg_rec
        /\ cursor.var_index_ \in Address(tape)
    BY <2>1, CursorTyped DEF TypeInv
  <2>3. QED
    BY <2>1, <2>2 DEF TypeInv, TypeOK, FlowInv, Coefficients, CountTyped, SweepTyped
<1>4. QED
  BY <1>1, <1>2, <1>3, PTL DEF Spec

-----------------------------------------------------------------------------
(* Counting comparisons. *)

(* Whether a comparison changed depends on coefficients of order 0 below   *)
(* it.                                                                     *)
LEMMA SameChanged ==
  ASSUME NEW t, WellFormed(t), NEW i \in Op(t), t.op_rec_[i].op \in Comparison,
         NEW y, NEW z, SameUpTo(y, z, 0, t.last[i])
  PROVE  Changed(t, y, Instr(t, At(t, i))) <=> Changed(t, z, Instr(t, At(t, i)))
<1> DEFINE ins == Instr(t, At(t, i))
<1>1. /\ OpAt(t, At(t, i)) = t.op_rec_[i]
      /\ t.op_rec_[i].op \notin {"CExp", "CSum", "CSkip"}
  BY DEF OpAt, At, Comparison
<1>2. ins.res = t.last[i] /\ ins.op = t.op_rec_[i].op
  BY <1>1 DEF Instr, At
<1>3. NumRes(ins.op) = 0 /\ t.last[i] \in Nat
  BY <1>2, UnaryAssumption, Placed DEF NumRes
<1>4. ArgsValid(ins, Len(t.par_rec_))
  BY DEF WellFormed, Ordered, Op
<1> HIDE DEF ins
<1>5. \A j \in DOMAIN ins.arg : ins.kind[j] = "v" => ins.arg[j] \in 0 .. t.last[i]
  BY <1>2, <1>3, <1>4 DEF ArgsValid, Before
<1>6. ASSUME NEW j \in DOMAIN ins.arg, ins.kind[j] = "v"
      PROVE  y[0][ins.arg[j]] = z[0][ins.arg[j]]
  BY <1>5, <1>6 DEF SameUpTo
<1>7. OperandsOf(t, y, ins, 0) = OperandsOf(t, z, ins, 0)
  BY <1>6 DEF OperandsOf, Operands
<1>8. QED
  BY <1>7 DEF Changed, ins

(* A forward sweep writes no coefficient it has come past. *)
LEMMA PassedKept ==
  ASSUME SolveInv, ForwardNext
  PROVE  \A i \in 0 .. cursor.op_index_ : SameUpTo(taylor_, taylor_', 0, tape.last[i])
<1>1. CASE taylor_' = taylor_
  BY <1>1 DEF SameUpTo
<1>2. CASE ForwardCompute
  <2> DEFINE j == Ahead.op_index_
             ins == Instr(tape, At(tape, j))
  <2>1. /\ Forwards /\ OpAt(tape, Ahead).op \in Computing
        /\ taylor_' = WriteOrders(tape, taylor_, Instr(tape, Ahead), sweep.p, sweep.q)
    BY <1>2 DEF ForwardCompute, ForwardTo
  <2>2. /\ WellFormed(tape) /\ j \in Op(tape) /\ Ahead = At(tape, j)
        /\ tape.op_rec_[j].op \in Computing /\ j = cursor.op_index_ + 1
        /\ cursor.op_index_ \in Op(tape)
    BY <2>1, AheadIsNext, AheadPlaced DEF SolveInv
  <2>3. taylor_' = WriteOrders(tape, taylor_, ins, sweep.p, sweep.q)
    BY <2>1, <2>2
  <2>4. /\ Computes(tape, ins) /\ ins.res = tape.last[j]
        /\ NumRes(ins.op) = NumRes(tape.op_rec_[j].op)
    BY <2>2, Computed, Placed DEF Computes
  <2>5. sweep.q \in 0 .. 1 /\ sweep.p \in 0 .. sweep.q /\ DOMAIN taylor_ = 0 .. 1
    BY <2>1 DEF SolveInv
  <2>6. \A i \in 0 .. cursor.op_index_ : i \in Op(tape) /\ i < j
    BY <2>2, Placed DEF Op
  <2> HIDE DEF j, ins
  <2>7. SameUpTo(taylor_, taylor_', 0, ins.res - NumRes(ins.op))
    <3>1. \A m \in 0 .. 1 : SameUpTo(taylor_, taylor_', m, ins.res - NumRes(ins.op))
      BY <2>3, <2>4, <2>5, WrittenOrders
    <3>2. QED
      BY <3>1
  <2>8. ASSUME NEW i \in 0 .. cursor.op_index_
        PROVE  SameUpTo(taylor_, taylor_', 0, tape.last[i])
    <3>1. i \in Op(tape) /\ i < j /\ tape.last[i] \in Nat /\ tape.last[j] \in Nat
      BY <2>2, <2>6, Placed
    <3>2. tape.last[i] + NumRes(tape.op_rec_[j].op) <= tape.last[j]
      BY <2>2, <3>1, ResultsOrdered
    <3>3. NumRes(ins.op) \in {1, 2} /\ ins.res \in Nat
      BY <2>4 DEF Computes
    <3>4. tape.last[i] <= ins.res - NumRes(ins.op)
      BY <2>4, <3>1, <3>2, <3>3
    <3>5. QED
      BY <2>7, <3>1, <3>3, <3>4 DEF SameUpTo
  <2>9. QED
    BY <2>8
<1>3. QED
  BY <1>1, <1>2 DEF ForwardNext, ForwardSkip, ForwardInv, ForwardCompare,
                    ForwardCSkip, ForwardEnd

(* Operator i is a comparison that a zero-order sweep counts. *)
ChangedAt(i) ==
  /\ tape.op_rec_[i].op \in Comparison
  /\ ~cskip_op_[i]
  /\ Changed(tape, taylor_, Instr(tape, At(tape, i)))

CountedUpTo(n) == {i \in 0 .. n : ChangedAt(i)}

(***************************************************************************)
(* The invariant of the count: a zero-order sweep that counts has counted  *)
(* the comparisons it has passed that no longer hold.                      *)
(***************************************************************************)
CountInv ==
  /\ SolveInv
  /\ CountTyped
  /\ (Forwards /\ sweep.p = 0 /\ compare_change_.count > 0) =>
       compare_change_.number = Cardinality(CountedUpTo(cursor.op_index_))

LEMMA CountsKept ==
  ASSUME SolveInv, FlowInv', ForwardNext, NEW i \in 0 .. cursor.op_index_
  PROVE  ChangedAt(i)' <=> ChangedAt(i)
<1>1. Forwards
  BY DEF ForwardNext, ForwardSkip, ForwardInv, ForwardCompute, ForwardCompare,
         ForwardCSkip, ForwardEnd, ForwardTo
<1>2. /\ WellFormed(tape) /\ cursor.op_index_ \in Op(tape) /\ i \in Op(tape)
      /\ tape' = tape
  <2>1. WellFormed(tape) /\ cursor.op_index_ \in Op(tape)
    BY <1>1, AheadPlaced DEF SolveInv
  <2>2. tape' = tape
    BY TapeKept DEF Next
  <2>3. tape.num_op_rec \in Nat
    BY <2>1, Placed
  <2>4. QED
    BY <2>1, <2>2, <2>3 DEF Op
<1>3. ASSUME tape.op_rec_[i].op \in Comparison
      PROVE  ~cskip_op_[i] /\ ~cskip_op_'[i]
  <2>1. tape.op_rec_[i].op \notin Computing
    BY <1>3, OpCodes
  <2>2. QED
    BY <1>2, <2>1 DEF FlowInv, SolveInv
<1>4. ASSUME tape.op_rec_[i].op \in Comparison
      PROVE  Changed(tape, taylor_, Instr(tape, At(tape, i)))
               <=> Changed(tape, taylor_', Instr(tape, At(tape, i)))
  BY <1>2, <1>4, PassedKept, SameChanged
<1>5. QED
  BY <1>2, <1>3, <1>4 DEF ChangedAt

LEMMA CountedFinite ==
  ASSUME NEW n \in Nat
  PROVE  IsFiniteSet(CountedUpTo(n)) /\ n + 1 \notin CountedUpTo(n)
<1>1. IsFiniteSet(0 .. n)
  BY FS_Interval
<1>2. CountedUpTo(n) \subseteq 0 .. n
  BY DEF CountedUpTo
<1>3. QED
  BY <1>1, <1>2, FS_Subset

LEMMA CountForward ==
  ASSUME CountInv, SolveInv', CountTyped', ForwardNext
  PROVE  CountInv'
<1> SUFFICES ASSUME NEW j, j = Ahead.op_index_, NEW n, n = cursor.op_index_,
                    NEW number, number = compare_change_.number
             PROVE  CountInv'
  OBVIOUS
<1>1. Forwards
  BY DEF ForwardNext, ForwardSkip, ForwardInv, ForwardCompute, ForwardCompare,
         ForwardCSkip, ForwardEnd, ForwardTo
<1>2. /\ WellFormed(tape) /\ j \in Op(tape) /\ j = n + 1 /\ n \in Op(tape)
      /\ forward_csum(tape, Ahead).op_index_ = j
      /\ forward_cskip(tape, Ahead).op_index_ = j
      /\ OpAt(tape, Ahead) = tape.op_rec_[j] /\ Ahead = At(tape, j)
  BY <1>1, AheadPlaced, AheadIsNext DEF CountInv, SolveInv
<1>3. n \in Nat /\ cursor'.op_index_ = j /\ tape' = tape
  <2>1. cursor'.op_index_ = j
    BY <1>2 DEF ForwardNext, ForwardSkip, ForwardInv, ForwardCompute,
       ForwardCompare, ForwardCSkip, ForwardEnd
  <2>2. QED
    BY <1>2, <2>1, TapeKept DEF Op, Next
<1>4. \A i \in 0 .. n : ChangedAt(i)' <=> ChangedAt(i)
  BY CountsKept DEF CountInv, SolveInv
<1>5. SUFFICES ASSUME Forwards', sweep'.p = 0, compare_change_'.count > 0
               PROVE  compare_change_'.number = Cardinality(CountedUpTo(cursor.op_index_)')
  BY DEF CountInv
<1>6. sweep' = sweep /\ compare_change_'.count = compare_change_.count
  <2>1. sweep' = sweep
    BY <1>5 DEF ForwardNext, ForwardSkip, ForwardInv, ForwardCompute,
       ForwardCompare, ForwardCSkip, ForwardEnd, Forwards
  <2>2. CASE compare_change_' = compare_change_
    BY <2>1, <2>2
  <2>3. CASE ForwardCompare
    <3>1. PICK a, b : compare_change_' = [compare_change_ EXCEPT !.number = a, !.op_index = b]
                        \/ compare_change_' = compare_change_
      BY <2>3 DEF ForwardCompare
    <3>2. compare_change_ \in [count : Nat, number : Op(tape), op_index : Op(tape)]
      BY DEF CountInv, CountTyped
    <3>3. QED
      BY <2>1, <3>1, <3>2
  <2>4. QED
    BY <2>2, <2>3 DEF ForwardNext, ForwardSkip, ForwardInv, ForwardCompute,
       ForwardCSkip, ForwardEnd
<1>7. number = Cardinality(CountedUpTo(n))
  BY <1>1, <1>5, <1>6 DEF CountInv
<1>8. CountedUpTo(cursor.op_index_)'
        = CountedUpTo(n) \union {i \in {j} : ChangedAt(i)'}
  <2>1. CountedUpTo(cursor.op_index_)' = {i \in 0 .. j : ChangedAt(i)'}
    BY <1>3 DEF CountedUpTo
  <2>2. j \in Nat /\ \A i : i \in 0 .. j <=> i \in 0 .. n \/ i = j
    BY <1>2, <1>3
  <2>3. QED
    BY <1>4, <2>1, <2>2 DEF CountedUpTo
<1>9. CASE ForwardCompare
  <2>1. /\ ~cskip_op_[j] /\ cskip_op_' = cskip_op_ /\ taylor_' = taylor_
        /\ tape.op_rec_[j].op \in Comparison
        /\ compare_change_'.number =
             number + (IF Changed(tape, taylor_, Instr(tape, Ahead)) THEN 1 ELSE 0)
    <3>1. PICK m, b : /\ compare_change_' = [compare_change_ EXCEPT !.number = m, !.op_index = b]
                      /\ m = number
                         + (IF Changed(tape, taylor_, Instr(tape, Ahead)) THEN 1 ELSE 0)
      BY <1>5, <1>6, <1>9 DEF ForwardCompare
    <3>2. compare_change_'.number = m
      <4>1. compare_change_ \in [count : Nat, number : Op(tape), op_index : Op(tape)]
        BY DEF CountInv, CountTyped
      <4>2. QED
        BY <3>1, <4>1
    <3>3. QED
      BY <1>2, <1>9, <3>1, <3>2 DEF ForwardCompare, ForwardTo
  <2>2. ChangedAt(j)' <=> Changed(tape, taylor_, Instr(tape, Ahead))
    BY <1>2, <1>3, <2>1 DEF ChangedAt
  <2>3. /\ IsFiniteSet(CountedUpTo(n)) /\ j \notin CountedUpTo(n)
    BY <1>2, <1>3, CountedFinite
  <2>4. CASE ChangedAt(j)'
    <3>1. CountedUpTo(cursor.op_index_)' = CountedUpTo(n) \union {j}
      BY <1>8, <2>4
    <3>2. Cardinality(CountedUpTo(n) \union {j}) = Cardinality(CountedUpTo(n)) + 1
      BY <2>3, FS_AddElement
    <3>3. compare_change_'.number = number + 1
      BY <2>1, <2>2, <2>4
    <3>4. QED
      BY <1>7, <3>1, <3>2, <3>3
  <2>5. CASE ~ChangedAt(j)'
    <3>1. CountedUpTo(cursor.op_index_)' = CountedUpTo(n)
      BY <1>8, <2>5
    <3>2. Cardinality(CountedUpTo(n)) \in Nat
      BY <2>3, FS_CardinalityType
    <3>3. compare_change_'.number = number + 0
      BY <2>1, <2>2, <2>5
    <3>4. QED
      BY <1>7, <3>1, <3>2, <3>3
  <2>6. QED
    BY <2>4, <2>5
<1>10. CASE ~ForwardCompare
  <2>1. /\ compare_change_' = compare_change_
        /\ cskip_op_'[j] \/ tape.op_rec_[j].op \notin Comparison
    <3>1. CASE ForwardSkip
      BY <1>2, <3>1 DEF ForwardSkip
    <3>2. CASE ForwardInv
      BY <1>2, <3>2 DEF ForwardInv, ForwardTo, Comparison
    <3>3. CASE ForwardCompute
      BY <1>2, <3>3, OpCodes DEF ForwardCompute, ForwardTo
    <3>4. CASE ForwardCSkip
      BY <1>2, <3>4 DEF ForwardCSkip, ForwardTo, Comparison
    <3>5. ~ForwardEnd
      BY <1>5 DEF ForwardEnd, Forwards
    <3>6. QED
      BY <1>10, <3>1, <3>2, <3>3, <3>4, <3>5 DEF ForwardNext
  <2>2. ~ChangedAt(j)'
    BY <1>3, <2>1 DEF ChangedAt
  <2>3. CountedUpTo(cursor.op_index_)' = CountedUpTo(n)
    BY <1>8, <2>2
  <2>4. QED
    BY <1>7, <2>1, <2>3
<1>11. QED
  BY <1>9, <1>10

LEMMA CountNext ==
  ASSUME CountInv, [Next]_vars
  PROVE  CountInv'
<1>1. SolveInv' /\ CountTyped'
  BY SolveNext, CountKept DEF CountInv, SolveInv
<1>2. CASE ForwardNext
  BY <1>1, <1>2, CountForward
<1>3. ASSUME NEW q \in 0 .. 1, NEW p \in 0 .. q, ForwardSweep(p, q)
      PROVE  CountInv'
  <2>1. SUFFICES ASSUME sweep'.p = 0
                 PROVE  compare_change_'.number = Cardinality(CountedUpTo(cursor.op_index_)')
    BY <1>1 DEF CountInv
  <2>2. p = 0 /\ compare_change_' = Changes(p) /\ cursor'.op_index_ = 0 /\ tape' = tape
    BY <1>3, <2>1 DEF ForwardSweep, forward_start
  <2>3. compare_change_'.number = 0
    BY <2>2 DEF Changes, CountInv, CountTyped
  <2>4. tape.op_rec_[0].op \notin Comparison
    <3>1. WellFormed(tape)
      BY TapesAssumption DEF CountInv, SolveInv, FlowInv
    <3>2. tape.op_rec_[0].op = "Begin"
      BY <3>1, Ends, Placed
    <3>3. QED
      BY <3>2 DEF Comparison
  <2>5. CountedUpTo(cursor.op_index_)' = {}
    <3>1. CountedUpTo(cursor.op_index_)' = {i \in 0 .. 0 : ChangedAt(i)'}
      BY <2>2 DEF CountedUpTo
    <3>2. ~ChangedAt(0)'
      BY <2>2, <2>4 DEF ChangedAt
    <3>3. QED
      BY <3>1, <3>2
  <2>6. QED
    BY <2>3, <2>5, FS_EmptySet
<1>4. ASSUME UNCHANGED vars
      PROVE  CountInv'
  <2>1. CountedUpTo(cursor.op_index_)' = CountedUpTo(cursor.op_index_)
    BY <1>4 DEF vars, CountedUpTo, ChangedAt
  <2>2. /\ (Forwards' <=> Forwards) /\ sweep' = sweep
        /\ compare_change_' = compare_change_
    BY <1>4 DEF vars, Forwards
  <2>3. QED
    BY <1>1, <2>1, <2>2 DEF CountInv
<1>5. ASSUME ReverseNext \/ (\E c \in Counts[tape] : CompareChangeCount(c))
             \/ \E w \in [DOMAIN tape.dep_taddr_ -> Num], text \in BOOLEAN :
                  ReverseSweep(w, text)
      PROVE  CountInv'
  <2>1. ~Forwards'
    <3>1. ASSUME NEW c \in Counts[tape], CompareChangeCount(c)
          PROVE  ~Forwards'
      BY <3>1 DEF CompareChangeCount, Forwards
    <3>2. ASSUME NEW w, NEW text, ReverseSweep(w, text)
          PROVE  ~Forwards'
      BY <3>2 DEF ReverseSweep, Forwards
    <3>3. CASE ReverseNext
      <4>1. Backwards /\ (sweep' = sweep \/ sweep' = None)
        BY <3>3 DEF ReverseNext, ReverseSkip, ReverseCompute, ReverseCSkip,
                    ReversePass, ReverseBegin, ReverseTo
      <4>2. QED
        BY <4>1 DEF Forwards, Backwards
    <3>4. QED
      BY <1>5, <3>1, <3>2, <3>3
  <2>2. QED
    BY <1>1, <2>1 DEF CountInv
<1>6. QED
  BY <1>2, <1>3, <1>4, <1>5 DEF Next

(***************************************************************************)
(* A zero-order sweep that counts ends with the number of the comparisons  *)
(* that no longer hold, over every tape and whatever was counted before;   *)
(* flags of what it skips do not hide one.                                 *)
(***************************************************************************)
THEOREM ChangesAreCounted == Spec => ChangesCounted
<1> DEFINE P == (Forwards /\ sweep' = None /\ sweep.p = 0 /\ compare_change_.count > 0)
                  => compare_change_.number = Cardinality(ChangedComparisons)
<1>1. Init => CountInv
  <2> SUFFICES ASSUME Init PROVE CountInv
    OBVIOUS
  <2>1. SolveInv /\ ~Forwards /\ WellFormed(tape) /\ 0 \in Op(tape)
    BY SolveInit, TapesAssumption, Ends DEF Init, Forwards
  <2>2. QED
    BY <2>1 DEF Init, CountInv, CountTyped
<1>2. CountInv /\ [Next]_vars => CountInv'
  BY CountNext
<1>3. CountInv /\ [Next]_vars => [P]_vars
  <2> SUFFICES ASSUME CountInv, Next, Forwards, sweep' = None, sweep.p = 0,
                      compare_change_.count > 0
               PROVE  compare_change_.number = Cardinality(ChangedComparisons)
    OBVIOUS
  <2> DEFINE j == Ahead.op_index_
  <2>1. ForwardEnd
    BY NoneAssumption DEF Next, CompareChangeCount, ForwardSweep, ReverseSweep,
       ForwardNext, ForwardSkip, ForwardInv, ForwardCompute, ForwardCompare,
       ForwardCSkip, ForwardTo, ReverseNext, ReverseSkip, ReverseCompute,
       ReverseCSkip, ReversePass, ReverseBegin, ReverseTo, Forwards, Backwards
  <2>2. /\ WellFormed(tape) /\ j \in Op(tape) /\ j = cursor.op_index_ + 1
        /\ cursor.op_index_ \in Op(tape) /\ tape.op_rec_[j].op = "End"
    BY <2>1, AheadPlaced DEF ForwardEnd, ForwardTo, CountInv, SolveInv
  <2>3. Op(tape) = 0 .. j /\ cursor.op_index_ \in Nat
    BY <2>2, Placed DEF Op
  <2>4. ~ChangedAt(j)
    BY <2>2 DEF ChangedAt, Comparison
  <2>5. \A i : i \in 0 .. j <=> i \in 0 .. cursor.op_index_ \/ i = j
    BY <2>2, <2>3
  <2> HIDE DEF j
  <2>6. ChangedComparisons = {i \in 0 .. j : ChangedAt(i)}
    BY <2>3 DEF ChangedComparisons, ChangedAt
  <2>7. ChangedComparisons = CountedUpTo(cursor.op_index_)
    BY <2>4, <2>5, <2>6 DEF CountedUpTo
  <2>8. QED
    BY <2>7 DEF CountInv
<1> HIDE DEF P
<1>4. Spec => [][P]_vars
  BY <1>1, <1>2, <1>3, PTL DEF Spec
<1>5. QED
  BY <1>4 DEF ChangesCounted, P

-----------------------------------------------------------------------------
(* Operators. *)

SlopeOf(ins, s, j) == Abstract!Slope(ins, s, j)

(* The partial derivatives, operator by operator. *)
LEMMA Sloped ==
  ASSUME NEW ins, NEW s, NEW j
  PROVE  /\ ins.op = "Add" => SlopeOf(ins, s, j) = One
         /\ ins.op = "Sub" => SlopeOf(ins, s, j) = IF j = 1 THEN One ELSE Minus(One)
         /\ ins.op = "Mul" => SlopeOf(ins, s, j) = s[3 - j]
         /\ ins.op = "Div" => SlopeOf(ins, s, j) =
              IF j = 1 THEN One // s[2] ELSE Minus((s[1] // s[2]) // s[2])
         /\ ins.op = "Abs" => SlopeOf(ins, s, j) = Sign(s[1])
         /\ ins.op = "Exp" => SlopeOf(ins, s, j) = Calc("Exp", s)
         /\ ins.op = "Log" => SlopeOf(ins, s, j) = One // s[1]
         /\ ins.op = "Sin" => SlopeOf(ins, s, j) = Aux("Sin", s)
         /\ ins.op = "Cos" => SlopeOf(ins, s, j) = Minus(Aux("Cos", s))
         /\ ins.op = "Par" => SlopeOf(ins, s, j) = Zero
         /\ ins.op = "CSum" => SlopeOf(ins, s, j) =
              IF j <= ins.add + 1 THEN One ELSE Minus(One)
         /\ ins.op \in CondExp => SlopeOf(ins, s, j) =
              IF j = (IF Holds(ins.op, s[1], s[2]) THEN 3 ELSE 4) THEN One ELSE Zero
<1>1. ASSUME NEW m, NEW n
      PROVE  /\ Abstract!Minus(m) = Minus(m) /\ Abstract!//(m, n) = m // n
             /\ Abstract!Sign(m) = Sign(m)
             /\ \A op : Abstract!Holds(op, m, n) = Holds(op, m, n)
  BY DEF Abstract!Minus, Abstract!--, Abstract!//, Abstract!Sign, Abstract!Holds,
         Minus, --, //, Sign, Holds
<1>2. ASSUME ins.op = "Add"
      PROVE  SlopeOf(ins, s, j) = One
  BY <1>1, <1>2 DEF SlopeOf, Abstract!Slope, Abstract!CondExp
<1>3. ASSUME ins.op = "Sub"
      PROVE  SlopeOf(ins, s, j) = IF j = 1 THEN One ELSE Minus(One)
  BY <1>1, <1>3 DEF SlopeOf, Abstract!Slope, Abstract!CondExp
<1>4. ASSUME ins.op = "Mul"
      PROVE  SlopeOf(ins, s, j) = s[3 - j]
  BY <1>1, <1>4 DEF SlopeOf, Abstract!Slope, Abstract!CondExp
<1>5. ASSUME ins.op = "Div"
      PROVE  SlopeOf(ins, s, j) = IF j = 1 THEN One // s[2] ELSE Minus((s[1] // s[2]) // s[2])
  BY <1>1, <1>5 DEF SlopeOf, Abstract!Slope, Abstract!CondExp
<1>6. ASSUME ins.op = "Abs"
      PROVE  SlopeOf(ins, s, j) = Sign(s[1])
  BY <1>1, <1>6 DEF SlopeOf, Abstract!Slope, Abstract!CondExp
<1>7. ASSUME ins.op = "Exp"
      PROVE  SlopeOf(ins, s, j) = Calc("Exp", s)
  BY <1>1, <1>7 DEF SlopeOf, Abstract!Slope, Abstract!CondExp
<1>8. ASSUME ins.op = "Log"
      PROVE  SlopeOf(ins, s, j) = One // s[1]
  BY <1>1, <1>8 DEF SlopeOf, Abstract!Slope, Abstract!CondExp
<1>9. ASSUME ins.op = "Sin"
      PROVE  SlopeOf(ins, s, j) = Aux("Sin", s)
  BY <1>1, <1>9 DEF SlopeOf, Abstract!Slope, Abstract!CondExp
<1>10. ASSUME ins.op = "Cos"
      PROVE  SlopeOf(ins, s, j) = Minus(Aux("Cos", s))
  BY <1>1, <1>10 DEF SlopeOf, Abstract!Slope, Abstract!CondExp
<1>11. ASSUME ins.op = "Par"
      PROVE  SlopeOf(ins, s, j) = Zero
  BY <1>1, <1>11 DEF SlopeOf, Abstract!Slope, Abstract!CondExp
<1>12. ASSUME ins.op = "CSum"
      PROVE  SlopeOf(ins, s, j) = IF j <= ins.add + 1 THEN One ELSE Minus(One)
  BY <1>1, <1>12 DEF SlopeOf, Abstract!Slope, Abstract!CondExp
<1>13. ASSUME ins.op \in CondExp
       PROVE  SlopeOf(ins, s, j) =
                IF j = (IF Holds(ins.op, s[1], s[2]) THEN 3 ELSE 4) THEN One ELSE Zero
  BY <1>1, <1>13 DEF SlopeOf, Abstract!Slope, CondExp, Abstract!CondExp
<1>14. QED
  BY <1>2, <1>3, <1>4, <1>5, <1>6, <1>7, <1>8, <1>9, <1>10, <1>11, <1>12, <1>13

(* A weighted sum of the operands' derivatives, as CSumOp computes it.     *)
CSumTerms(ins, n, d, q) ==
  /\ ins.add \in 0 .. n /\ d \in [1 .. n + 1 -> Num] /\ q \in [1 .. n + 1 -> Num]
  /\ \A j \in 1 .. n + 1 : /\ j <= ins.add + 1 => q[j] = d[j]
                           /\ j > ins.add + 1 => q[j] = Minus(d[j])

LEMMA CSumTotal ==
  ASSUME Ring, NEW n \in Nat, NEW ins, NEW d, NEW q, CSumTerms(ins, n, d, q)
  PROVE  forward_csum_op(ins, d) = Total(q)
<1>1. PICK m \in 0 .. n : m = ins.add
  BY DEF CSumTerms
<1>2. /\ d \in [1 .. n + 1 -> Num] /\ q \in [1 .. n + 1 -> Num]
      /\ \A j \in 1 .. n + 1 : /\ j <= m + 1 => q[j] = d[j]
                               /\ j > m + 1 => q[j] = Minus(d[j])
  BY <1>1 DEF CSumTerms
<1>3. /\ Added(d, m) \in [1 .. m -> Num]
      /\ \A k \in 1 .. m : Added(d, m)[k] = d[k + 1]
      /\ Subtracted(d, m, n) \in [1 .. n - m -> Num]
      /\ \A k \in 1 .. n - m : Subtracted(d, m, n)[k] = d[m + 1 + k]
      /\ m \in Nat /\ n - m \in Nat /\ d[1] \in Num
  <2>1. m \in Nat /\ n - m \in Nat /\ 1 \in 1 .. n + 1
    OBVIOUS
  <2>2. /\ Added(d, m) \in [1 .. m -> Num]
        /\ \A k \in 1 .. m : Added(d, m)[k] = d[k + 1]
        /\ Subtracted(d, m, n) \in [1 .. n - m -> Num]
        /\ \A k \in 1 .. n - m : Subtracted(d, m, n)[k] = d[m + 1 + k]
    BY <1>2, CSumParts
  <2>3. QED
    BY <1>2, <2>1, <2>2
<1>4. forward_csum_op(ins, d)
        = MinusOver(PlusOver(d[1], Added(d, m)), Subtracted(d, m, n))
  BY <1>1, <1>2, CSumValue
<1>5. PICK g : Sums(m, d[1], Added(d, m), g) /\ PlusOver(d[1], Added(d, m)) = g[m]
  BY <1>3, PlusFold
<1>6. g[m] \in Num
  BY <1>3, <1>5 DEF Sums
<1>7. PICK h : /\ Differences(n - m, g[m], Subtracted(d, m, n), h)
               /\ MinusOver(g[m], Subtracted(d, m, n)) = h[n - m]
  BY <1>3, <1>6, MinusFold
<1> DEFINE f == [k \in 0 .. n + 1 |->
                   IF k = 0 THEN Zero ELSE IF k <= m + 1 THEN g[k - 1]
                   ELSE h[k - m - 1]]
<1>8. \A k \in 0 .. m : g[k] \in Num
  BY <1>5 DEF Sums
<1>9. \A k \in 0 .. n - m : h[k] \in Num
  BY <1>7 DEF Differences
<1>10. g[0] = d[1] /\ \A k \in 1 .. m : g[k] = g[k - 1] ++ d[k + 1]
  BY <1>3, <1>5 DEF Sums
<1>11. h[0] = g[m] /\ \A k \in 1 .. n - m : h[k] = h[k - 1] ++ Minus(d[m + 1 + k])
  <2>1. SUFFICES ASSUME NEW k \in 1 .. n - m
                 PROVE  h[0] = g[m] /\ h[k] = h[k - 1] ++ Minus(d[m + 1 + k])
    BY <1>7 DEF Differences
  <2>2. h[0] = g[m] /\ h[k] = h[k - 1] -- d[m + 1 + k]
    BY <1>3, <1>7 DEF Differences
  <2>3. h[k - 1] \in Num
    <3>1. k - 1 \in 0 .. n - m
      BY <1>3
    <3>2. QED
      BY <1>9, <3>1
  <2>4. d[m + 1 + k] \in Num
    <3>1. m + 1 + k \in 1 .. n + 1
      BY <1>3
    <3>2. QED
      BY <3>1, <1>2
  <2>5. QED
    BY <2>2, <2>3, <2>4, RingMonoids
<1>12. f \in [0 .. n + 1 -> Num]
  <2>1. ASSUME NEW k \in 0 .. n + 1 PROVE f[k] \in Num
    <3>1. CASE k = 0
      BY <3>1, Closed
    <3>2. CASE k # 0 /\ k <= m + 1
      <4>1. k - 1 \in 0 .. m
        BY <3>2, <1>3
      <4>2. QED
        BY <4>1, <3>2, <1>8
    <3>3. CASE k > m + 1
      <4>1. k - m - 1 \in 0 .. n - m /\ k # 0 /\ ~(k <= m + 1)
        BY <3>3, <1>3
      <4>2. QED
        BY <4>1, <1>9
    <3>4. QED
      BY <3>1, <3>2, <3>3, <1>3
  <2>2. QED
    BY <2>1
<1>13. ASSUME NEW k \in 1 .. n + 1 PROVE f[k] = f[k - 1] ++ q[k]
  <2>1. CASE k = 1
    <3>1. f[1] = g[0] /\ f[0] = Zero /\ q[1] = d[1]
      BY <2>1, <1>3, <1>2
    <3>2. QED
      BY <3>1, <2>1, <1>3, <1>10, RingMonoids
  <2>2. CASE k # 1 /\ k <= m + 1
    <3>1. k - 1 \in 1 .. m /\ k - 1 # 0 /\ k - 1 <= m + 1 /\ k # 0
          /\ k - 1 \in 0 .. n + 1
      BY <2>2, <1>3
    <3>2. f[k] = g[k - 1] /\ f[k - 1] = g[(k - 1) - 1] /\ q[k] = d[k]
      BY <2>2, <3>1, <1>2
    <3>3. g[k - 1] = g[(k - 1) - 1] ++ d[(k - 1) + 1] /\ (k - 1) + 1 = k
      BY <3>1, <1>10
    <3>4. QED
      BY <3>2, <3>3
  <2>3. CASE k = m + 2
    <3>1. k - 1 = m + 1 /\ k - m - 1 = 1 /\ 1 \in 1 .. n - m /\ k # 0
          /\ ~(k <= m + 1) /\ m + 1 \in 0 .. n + 1 /\ m + 1 # 0 /\ m + 1 <= m + 1
          /\ (m + 1) - 1 = m /\ m + 1 + 1 = k
      BY <2>3, <1>3
    <3>2. f[k] = h[1]
      BY <3>1
    <3>3. f[k - 1] = g[m]
      BY <3>1
    <3>4. q[k] = Minus(d[k])
      BY <3>1, <1>2
    <3>5. h[1] = h[1 - 1] ++ Minus(d[m + 1 + 1]) /\ 1 - 1 = 0
      BY <3>1, <1>11
    <3>6. QED
      BY <3>1, <3>2, <3>3, <3>4, <3>5, <1>11
  <2>4. CASE k > m + 2
    <3>1. k - m - 1 \in 1 .. n - m /\ k # 0 /\ k - 1 # 0
          /\ ~(k <= m + 1) /\ ~(k - 1 <= m + 1) /\ k - 1 \in 0 .. n + 1
          /\ (k - 1) - m - 1 = (k - m - 1) - 1 /\ m + 1 + (k - m - 1) = k
      BY <2>4, <1>3
    <3>2. f[k] = h[k - m - 1] /\ f[k - 1] = h[(k - 1) - m - 1]
      BY <3>1
    <3>3. q[k] = Minus(d[k])
      BY <3>1, <1>2
    <3>4. h[k - m - 1] = h[(k - m - 1) - 1] ++ Minus(d[m + 1 + (k - m - 1)])
      BY <3>1, <1>11
    <3>5. QED
      BY <3>1, <3>2, <3>3, <3>4
  <2>5. QED
    BY <2>1, <2>2, <2>3, <2>4, <1>3
<1>14. f[0] = Zero
  OBVIOUS
<1>15. f[n + 1] = h[n - m]
  <2>1. CASE n = m
    <3>1. n + 1 \in 0 .. n + 1 /\ n + 1 # 0 /\ n + 1 <= m + 1 /\ (n + 1) - 1 = m /\ n - m = 0
      BY <2>1
    <3>2. QED
      BY <3>1, <1>11
  <2>2. CASE n # m
    <3>1. n + 1 \in 0 .. n + 1 /\ n + 1 # 0 /\ ~(n + 1 <= m + 1) /\ (n + 1) - m - 1 = n - m
      BY <2>2, <1>3
    <3>2. QED
      BY <3>1
  <2>3. QED
    BY <2>1, <2>2
<1> HIDE DEF f
<1>16. Sums(n + 1, Zero, q, f)
  BY <1>12, <1>13, <1>14 DEF Sums
<1>17. Total(q) = f[n + 1]
  BY <1>16, <1>2, TotalIs
<1>18. QED
  BY <1>4, <1>5, <1>7, <1>15, <1>17
LEMMA SlopeTyped ==
  ASSUME NEW t, NEW ins, Shaped(t, ins), NEW s \in [DOMAIN ins.arg -> Num],
         NEW j \in DOMAIN ins.arg
  PROVE  SlopeOf(ins, s, j) \in Num
<1>1. Zero \in Num /\ One \in Num /\ Minus(One) \in Num
  BY Closed
<1>2. CASE ins.op \in {"Add", "Sub", "Mul", "Div"} /\ DOMAIN ins.arg = 1 .. 2
  <2>1. s[1] \in Num /\ s[2] \in Num /\ (3 - j = 1 \/ 3 - j = 2)
    BY <1>2
  <2>2. s[1] // s[2] \in Num /\ One // s[2] \in Num
    BY <2>1, <1>1, Closed
  <2>3. (s[1] // s[2]) // s[2] \in Num
    BY <2>1, <2>2, Closed
  <2>4. Minus((s[1] // s[2]) // s[2]) \in Num
    BY <2>3, Closed
  <2>5. s[3 - j] \in Num
    BY <2>1
  <2>6. CASE ins.op = "Add"
    BY <2>6, <1>1, Sloped
  <2>7. CASE ins.op = "Sub"
    BY <2>7, <1>1, Sloped
  <2>8. CASE ins.op = "Mul"
    BY <2>8, <2>5, Sloped
  <2>9. CASE ins.op = "Div"
    BY <2>9, <2>2, <2>4, Sloped
  <2>10. QED
    BY <1>2, <2>6, <2>7, <2>8, <2>9
<1>3. CASE /\ ins.op \in Unary /\ ins.op \in {"Abs", "Exp", "Log", "Sin", "Cos"}
           /\ DOMAIN ins.arg = 1 .. 1
  <2>1. s \in [1 .. 1 -> Num] /\ s = <<s[1]>> /\ s[1] \in Num
    BY <1>3, Tuples
  <2>2. Calc(ins.op, <<s[1]>>) \in Num /\ Aux(ins.op, <<s[1]>>) \in Num
    BY <1>3, <2>1, CalcAssumption
  <2>3. Calc(ins.op, s) \in Num /\ Aux(ins.op, s) \in Num
    BY <2>1, <2>2
  <2>4. Sign(s[1]) \in Num /\ One // s[1] \in Num /\ Minus(Aux(ins.op, s)) \in Num
    BY <2>1, <2>3, <1>1, Closed
  <2>5. QED
    BY <1>3, <2>3, <2>4, Sloped
<1>4. CASE ins.op = "Par"
  BY <1>4, <1>1, Sloped
<1>5. CASE ins.op \in CondExp
  BY <1>5, <1>1, Sloped
<1>6. CASE ins.op = "CSum"
  BY <1>6, <1>1, Sloped
<1>7. QED
  BY <1>2, <1>3, <1>4, <1>5, <1>6, ShapedOp

(* What forward computes at order 1 is the chain rule. *)
ChainTerms(ins, s, d) == [j \in DOMAIN ins.arg |-> SlopeOf(ins, s, j) ** d[j]]

LEMMA ChainRule ==
  ASSUME Ring, NEW t, NEW ins, Shaped(t, ins), NEW s \in [DOMAIN ins.arg -> Num],
         NEW d \in [DOMAIN ins.arg -> Num], NEW z, z = Order0(ins, s),
         NEW a, ins.op \in TwoResults => a = Aux(ins.op, s)
  PROVE  /\ ChainTerms(ins, s, d) \in [DOMAIN ins.arg -> Num]
         /\ Order1(ins, s, d, z, a) = Total(ChainTerms(ins, s, d))
<1> PICK q : q = ChainTerms(ins, s, d)
  OBVIOUS
<1>1. /\ q \in [DOMAIN ins.arg -> Num]
      /\ \A j \in DOMAIN ins.arg : /\ q[j] = SlopeOf(ins, s, j) ** d[j]
                                   /\ SlopeOf(ins, s, j) \in Num
  <2>1. \A j \in DOMAIN ins.arg : SlopeOf(ins, s, j) \in Num /\ d[j] \in Num
    BY SlopeTyped
  <2>2. \A j \in DOMAIN ins.arg : SlopeOf(ins, s, j) ** d[j] \in Num
    BY <2>1, Closed
  <2>3. QED
    BY <2>1, <2>2 DEF ChainTerms
<1> SUFFICES Order1(ins, s, d, z, a) = Total(q)
  BY <1>1
<1>2. CASE ins.op \in {"Add", "Sub", "Mul", "Div"} /\ DOMAIN ins.arg = 1 .. 2
  <2>0. q \in [1 .. 2 -> Num] /\ Total(q) = q[1] ++ q[2]
    BY <1>1, <1>2, TotalFew
  <2>1. /\ s[1] \in Num /\ s[2] \in Num /\ d[1] \in Num /\ d[2] \in Num
        /\ q[1] = SlopeOf(ins, s, 1) ** d[1] /\ q[2] = SlopeOf(ins, s, 2) ** d[2]
    BY <1>1, <1>2
  <2>2. CASE ins.op = "Add"
    <3>1. Order1(ins, s, d, z, a) = d[1] ++ d[2]
      BY <2>2 DEF Order1, forward_add_op, CondExp
    <3>2. q[1] = One ** d[1] /\ q[2] = One ** d[2]
      BY <2>1, <2>2, Sloped
    <3>3. QED
      BY <2>0, <2>1, <3>1, <3>2, RingMonoids
  <2>3. CASE ins.op = "Sub"
    <3>1. Order1(ins, s, d, z, a) = d[1] -- d[2]
      BY <2>3 DEF Order1, forward_sub_op, CondExp
    <3>2. q[1] = One ** d[1] /\ q[2] = Minus(One) ** d[2]
      BY <2>1, <2>3, Sloped
    <3>3. q[1] = d[1] /\ q[2] = Minus(d[2])
      BY <2>1, <3>2, RingMonoids, RingMinus
    <3>4. QED
      BY <2>0, <2>1, <3>1, <3>3, RingMonoids
  <2>4. CASE ins.op = "Mul"
    <3>1. Order1(ins, s, d, z, a) = (d[1] ** s[2]) ++ (s[1] ** d[2])
      BY <2>4 DEF Order1, forward_mul_op, CondExp
    <3>2. q[1] = s[3 - 1] ** d[1] /\ q[2] = s[3 - 2] ** d[2]
      BY <2>1, <2>4, Sloped
    <3>3. q[1] = d[1] ** s[2] /\ q[2] = s[1] ** d[2]
      BY <2>1, <3>2, RingMonoids
    <3>4. QED
      BY <2>0, <3>1, <3>3
  <2>5. CASE ins.op = "Div"
    <3> PICK r, v : r = One // s[2] /\ v = s[1] // s[2]
      OBVIOUS
    <3>1. Order1(ins, s, d, z, a) = (d[1] -- (z ** d[2])) // s[2]
      BY <2>5 DEF Order1, forward_div_op, CondExp
    <3>2. q[1] = r ** d[1] /\ q[2] = Minus(v // s[2]) ** d[2]
      BY <2>1, <2>5, Sloped
    <3>3. z = v
      <4>1. z = Calc("Div", s)
        BY <2>5 DEF Order0, Value, Binary, CondExp
      <4>2. s = <<s[1], s[2]>>
        BY <1>2, Tuples
      <4>3. QED
        BY <4>1, <4>2 DEF //
    <3>4. r \in Num /\ v \in Num /\ v // s[2] \in Num /\ v // s[2] = v ** r
      <4>1. s[1] \in Num /\ s[2] \in Num
        BY <2>1
      <4>2. r \in Num /\ v \in Num
        BY <4>1, Closed
      <4>3. v // s[2] \in Num
        BY <4>1, <4>2, Closed
      <4>4. v // s[2] = v ** r
        BY <4>1, <4>2, RingMonoids
      <4>5. QED
        BY <4>2, <4>3, <4>4
    <3>5. v ** d[2] \in Num /\ d[1] -- (v ** d[2]) \in Num /\ Minus(v ** d[2]) \in Num
      BY <2>1, <3>4, Closed
    <3>6. (d[1] -- (v ** d[2])) // s[2] = (d[1] ++ Minus(v ** d[2])) ** r
      BY <2>1, <3>5, RingMonoids
    <3>7. (d[1] ++ Minus(v ** d[2])) ** r = (d[1] ** r) ++ (Minus(v ** d[2]) ** r)
      BY <2>1, <3>4, <3>5, RingMonoids
    <3>8. Minus(v ** d[2]) ** r = Minus((v ** d[2]) ** r)
      BY <3>4, <3>5, RingMinus
    <3>9. Minus(v ** r) ** d[2] = Minus((v ** r) ** d[2])
      BY <2>1, <3>4, RingMinus
    <3>10. (v ** d[2]) ** r = (v ** r) ** d[2]
      <4>1. (v ** d[2]) ** r = v ** (d[2] ** r) /\ (v ** r) ** d[2] = v ** (r ** d[2])
        BY <2>1, <3>4, RingMonoids
      <4>2. d[2] ** r = r ** d[2]
        BY <2>1, <3>4, RingMonoids
      <4>3. QED
        BY <4>1, <4>2
    <3>11. r ** d[1] = d[1] ** r
      BY <2>1, <3>4, RingMonoids
    <3>12. QED
      BY <2>0, <3>1, <3>2, <3>3, <3>4, <3>6, <3>7, <3>8, <3>9, <3>10, <3>11
  <2>6. QED
    BY <1>2, <2>2, <2>3, <2>4, <2>5
<1>3. CASE /\ ins.op \in Unary /\ ins.op \in {"Abs", "Exp", "Log", "Sin", "Cos"}
           /\ DOMAIN ins.arg = 1 .. 1
  <2>0. q \in [1 .. 1 -> Num] /\ Total(q) = q[1]
    BY <1>1, <1>3, TotalFew
  <2>1. s[1] \in Num /\ d[1] \in Num /\ q[1] = SlopeOf(ins, s, 1) ** d[1]
        /\ SlopeOf(ins, s, 1) \in Num
    BY <1>1, <1>3
  <2>2. q[1] = d[1] ** SlopeOf(ins, s, 1)
    BY <2>1, RingMonoids
  <2>3. z = Calc(ins.op, s)
    BY <1>3 DEF Order0, Value, Binary, CondExp
  <2>4. CASE ins.op = "Abs"
    <3>1. Order1(ins, s, d, z, a) = Sign(s[1]) ** d[1]
      BY <2>4 DEF Order1, forward_abs_op, CondExp
    <3>2. QED
      BY <3>1, <2>0, <2>1, <2>4, Sloped
  <2>5. CASE ins.op = "Exp"
    <3>1. Order1(ins, s, d, z, a) = d[1] ** z
      BY <2>5 DEF Order1, forward_exp_op, CondExp
    <3>2. QED
      BY <3>1, <2>0, <2>2, <2>3, <2>5, Sloped
  <2>6. CASE ins.op = "Log"
    <3>1. Order1(ins, s, d, z, a) = d[1] // s[1]
      BY <2>6 DEF Order1, forward_log_op, CondExp
    <3>2. d[1] // s[1] = d[1] ** (One // s[1])
      BY <2>1, RingMonoids
    <3>3. QED
      BY <3>1, <3>2, <2>0, <2>2, <2>6, Sloped
  <2>7. CASE ins.op = "Sin"
    <3>1. Order1(ins, s, d, z, a) = d[1] ** a
      BY <2>7 DEF Order1, forward_sin_op, CondExp
    <3>2. a = Aux("Sin", s)
      BY <1>3, <2>7, TaylorAssumption
    <3>3. QED
      BY <3>1, <3>2, <2>0, <2>2, <2>7, Sloped
  <2>8. CASE ins.op = "Cos"
    <3>1. Order1(ins, s, d, z, a) = Minus(d[1] ** a)
      BY <2>8 DEF Order1, forward_cos_op, CondExp
    <3>2. a = Aux("Cos", s) /\ a \in Num
      <4>1. a = Aux("Cos", s)
        BY <1>3, <2>8, TaylorAssumption
      <4>2. s = <<s[1]>>
        BY <1>3, Tuples
      <4>3. Aux("Cos", <<s[1]>>) \in Num
        BY <1>3, <2>1, <2>8, CalcAssumption
      <4>4. QED
        BY <4>1, <4>2, <4>3
    <3>3. SlopeOf(ins, s, 1) = Minus(a)
      BY <3>2, <2>8, Sloped
    <3>4. d[1] ** Minus(a) = Minus(d[1] ** a)
      BY <2>1, <3>2, RingMinus
    <3>5. QED
      BY <3>1, <3>3, <3>4, <2>0, <2>2
  <2>9. QED
    BY <1>3, <2>4, <2>5, <2>6, <2>7, <2>8
<1>4. CASE ins.op = "Par" /\ DOMAIN ins.arg = 1 .. 1
  <2>1. q \in [1 .. 1 -> Num] /\ Total(q) = q[1]
    BY <1>1, <1>4, TotalFew
  <2>2. q[1] = Zero ** d[1] /\ d[1] \in Num
    BY <1>1, <1>4, Sloped
  <2>3. Order1(ins, s, d, z, a) = Zero
    BY <1>4 DEF Order1, CondExp
  <2>4. QED
    BY <2>1, <2>2, <2>3, RingZero
<1>5. CASE ins.op \in CondExp /\ DOMAIN ins.arg = 1 .. 4
  <2> PICK j : j = IF Holds(ins.op, s[1], s[2]) THEN 3 ELSE 4
    OBVIOUS
  <2>1. Order1(ins, s, d, z, a) = d[j]
    BY <1>5 DEF Order1, forward_cond_op, CondExp
  <2>2. j \in 1 .. 4 /\ \A k \in 1 .. 4 : d[k] \in Num
    BY <1>5
  <2>3. \A k \in 1 .. 4 : q[k] = (IF k = j THEN One ELSE Zero) ** d[k]
    BY <1>1, <1>5, Sloped
  <2>4. q[j] = d[j] /\ \A k \in 1 .. 4 : k # j => q[k] = Zero
    BY <2>2, <2>3, RingMonoids, RingZero
  <2>5. Total(q) = q[j]
    <3>1. q \in [1 .. 4 -> Num] /\ 4 \in Nat
      BY <1>1, <1>5
    <3>2. QED
      BY <3>1, <2>2, <2>4, TotalOne
  <2>6. QED
    BY <2>1, <2>4, <2>5
<1>6. CASE /\ ins.op = "CSum"
           /\ \E n \in Nat : ins.add \in 0 .. n /\ DOMAIN ins.arg = 1 .. n + 1
  <2>1. PICK n \in Nat : ins.add \in 0 .. n /\ DOMAIN ins.arg = 1 .. n + 1
    BY <1>6
  <2>2. Order1(ins, s, d, z, a) = forward_csum_op(ins, d)
    BY <1>6 DEF Order1, CondExp
  <2>3. ASSUME NEW j \in 1 .. n + 1
        PROVE  /\ j <= ins.add + 1 => q[j] = d[j]
               /\ j > ins.add + 1 => q[j] = Minus(d[j])
    <3>1. d[j] \in Num /\ q[j] = (IF j <= ins.add + 1 THEN One ELSE Minus(One)) ** d[j]
      BY <1>1, <1>6, <2>1, Sloped
    <3>2. One ** d[j] = d[j] /\ Minus(One) ** d[j] = Minus(d[j])
      BY <3>1, RingMonoids, RingMinus
    <3>3. j > ins.add + 1 => ~(j <= ins.add + 1)
      BY <2>1
    <3>4. QED
      BY <3>1, <3>2, <3>3
  <2>4. forward_csum_op(ins, d) = Total(q)
    <3>1. d \in [1 .. n + 1 -> Num] /\ q \in [1 .. n + 1 -> Num]
      BY <1>1, <2>1
    <3>2. CSumTerms(ins, n, d, q)
      BY <2>1, <2>3, <3>1 DEF CSumTerms
    <3>3. QED
      BY <2>1, <3>2, CSumTotal
  <2>5. QED
    BY <2>2, <2>4
<1>7. ins.op = "Par" => DOMAIN ins.arg = 1 .. 1
  BY ShapedOp DEF Shaped, CondExp
<1>8. QED
  BY <1>2, <1>3, <1>4, <1>5, <1>6, <1>7, ShapedOp

(* What reverse adds to the partial of an operand is the partial of the    *)
(* result times the slope, if the auxiliary variable has no partial.       *)
LEMMA AdjointIsSlope ==
  ASSUME Ring, NEW t, NEW ins, Shaped(t, ins), NEW s \in [DOMAIN ins.arg -> Num],
         NEW z, z = Order0(ins, s), NEW pz \in Num, NEW a, NEW pa,
         ins.op \in TwoResults => a = Aux(ins.op, s) /\ pa = Zero,
         NEW j \in DOMAIN ins.arg, ins.kind[j] = "v"
  PROVE  Adjoint(ins, s, z, a, pz, pa)[j] = pz ** SlopeOf(ins, s, j)
<1> PICK add, e : add = Adjoint(ins, s, z, a, pz, pa) /\ e = SlopeOf(ins, s, j)
  OBVIOUS
<1>1. e \in Num /\ Zero \in Num /\ One \in Num
  BY SlopeTyped, Closed
<1> SUFFICES add[j] = pz ** e
  OBVIOUS
<1>2. CASE ins.op \in {"Add", "Sub", "Mul", "Div"} /\ DOMAIN ins.arg = 1 .. 2
  <2>1. s[1] \in Num /\ s[2] \in Num /\ (j = 1 \/ j = 2)
    BY <1>2
  <2>2. CASE ins.op = "Add"
    <3>1. add = <<pz, pz>>
      BY <2>2 DEF Adjoint, reverse_add_op, CondExp
    <3>2. e = One
      BY <2>2, Sloped
    <3>3. QED
      BY <2>1, <3>1, <3>2, RingMonoids
  <2>3. CASE ins.op = "Sub"
    <3>1. add = <<pz, Minus(pz)>>
      BY <2>3 DEF Adjoint, reverse_sub_op, CondExp
    <3>2. e = IF j = 1 THEN One ELSE Minus(One)
      BY <2>3, Sloped
    <3>3. pz ** One = pz /\ pz ** Minus(One) = Minus(pz)
      BY RingMonoids, RingMinus
    <3>4. QED
      BY <2>1, <3>1, <3>2, <3>3
  <2>4. CASE ins.op = "Mul"
    <3>1. add = <<pz ** s[2], pz ** s[1]>>
      BY <2>4 DEF Adjoint, reverse_mul_op, CondExp
    <3>2. e = s[3 - j]
      BY <2>4, Sloped
    <3>3. QED
      BY <2>1, <3>1, <3>2
  <2>5. CASE ins.op = "Div"
    <3> PICK r, v : r = One // s[2] /\ v = s[1] // s[2]
      OBVIOUS
    <3>1. add = <<pz // s[2], Minus((pz // s[2]) ** z)>>
      BY <2>5 DEF Adjoint, reverse_div_op, CondExp
    <3>2. e = IF j = 1 THEN r ELSE Minus(v // s[2])
      BY <2>5, Sloped
    <3>3. z = v
      <4>1. z = Calc("Div", s)
        BY <2>5 DEF Order0, Value, Binary, CondExp
      <4>2. s = <<s[1], s[2]>>
        BY <1>2, Tuples
      <4>3. QED
        BY <4>1, <4>2 DEF //
    <3>4. r \in Num /\ v \in Num
      BY <2>1, Closed
    <3>5. v // s[2] = v ** r /\ pz // s[2] = pz ** r
      BY <2>1, <3>4, RingMonoids
    <3>6. v ** r \in Num
      BY <3>4, Closed
    <3>7. pz ** Minus(v ** r) = Minus(pz ** (v ** r))
      BY <3>6, RingMinus
    <3>8. (pz ** r) ** v = pz ** (r ** v) /\ r ** v = v ** r
      BY <3>4, RingMonoids
    <3>9. j = 1 => add[j] = pz ** r /\ e = r
      BY <3>1, <3>2, <3>5
    <3>10. j = 2 => add[j] = Minus((pz ** r) ** v) /\ e = Minus(v ** r)
      BY <3>1, <3>2, <3>3, <3>5
    <3>11. QED
      BY <2>1, <3>7, <3>8, <3>9, <3>10
  <2>6. QED
    BY <1>2, <2>2, <2>3, <2>4, <2>5
<1>3. CASE /\ ins.op \in Unary /\ ins.op \in {"Abs", "Exp", "Log", "Sin", "Cos"}
           /\ DOMAIN ins.arg = 1 .. 1
  <2>1. s[1] \in Num /\ j = 1 /\ s = <<s[1]>>
    BY <1>3, Tuples
  <2>2. pz ** e = e ** pz
    BY <1>1, RingMonoids
  <2>3. z = Calc(ins.op, s)
    BY <1>3 DEF Order0, Value, Binary, CondExp
  <2>4. CASE ins.op = "Abs"
    <3>1. add = <<Sign(s[1]) ** pz>>
      BY <2>4 DEF Adjoint, reverse_abs_op, CondExp
    <3>2. QED
      BY <3>1, <2>1, <2>2, <2>4, Sloped
  <2>5. CASE ins.op = "Exp"
    <3>1. add = <<pz ** z>>
      BY <2>5 DEF Adjoint, reverse_exp_op, CondExp
    <3>2. QED
      BY <3>1, <2>1, <2>3, <2>5, Sloped
  <2>6. CASE ins.op = "Log"
    <3>1. add = <<pz // s[1]>>
      BY <2>6 DEF Adjoint, reverse_log_op, CondExp
    <3>2. pz // s[1] = pz ** (One // s[1])
      BY <2>1, RingMonoids
    <3>3. QED
      BY <3>1, <3>2, <2>1, <2>6, Sloped
  <2>7. ASSUME ins.op \in {"Sin", "Cos"}
        PROVE  a = Aux(ins.op, s) /\ pa = Zero /\ a \in Num /\ z \in Num
    <3>1. a = Aux(ins.op, s) /\ pa = Zero
      BY <1>3, <2>7, TaylorAssumption
    <3>2. Aux(ins.op, <<s[1]>>) \in Num /\ Calc(ins.op, <<s[1]>>) \in Num
      BY <1>3, <2>1, CalcAssumption
    <3>3. QED
      BY <2>1, <2>3, <3>1, <3>2
  <2>8. CASE ins.op = "Sin"
    <3>1. add = <<(pz ** a) -- (pa ** z)>>
      BY <2>8 DEF Adjoint, reverse_sin_op, CondExp
    <3>2. pa ** z = Zero /\ pz ** a \in Num
      BY <2>7, <2>8, RingZero, Closed
    <3>3. (pz ** a) -- Zero = pz ** a
      <4>1. (pz ** a) -- Zero = (pz ** a) ++ Minus(Zero)
        BY <1>1, <3>2, RingMonoids
      <4>2. (pz ** a) ++ Zero = pz ** a
        BY <3>2, RingMonoids
      <4>3. QED
        BY <4>1, <4>2, RingMinus
    <3>4. e = a
      BY <2>7, <2>8, Sloped
    <3>5. QED
      BY <2>1, <3>1, <3>2, <3>3, <3>4
  <2>9. CASE ins.op = "Cos"
    <3>1. add = <<(pa ** z) -- (pz ** a)>>
      BY <2>9 DEF Adjoint, reverse_cos_op, CondExp
    <3>2. pa ** z = Zero /\ pz ** a \in Num /\ Minus(pz ** a) \in Num
      BY <2>7, <2>9, RingZero, Closed
    <3>3. Zero -- (pz ** a) = Minus(pz ** a)
      BY DEF Minus
    <3>4. e = Minus(a)
      BY <2>7, <2>9, Sloped
    <3>5. pz ** Minus(a) = Minus(pz ** a)
      BY <2>7, <2>9, RingMinus
    <3>6. QED
      BY <2>1, <3>1, <3>2, <3>3, <3>4, <3>5
  <2>10. QED
    BY <1>3, <2>4, <2>5, <2>6, <2>8, <2>9
<1>4. CASE ins.op = "Par" /\ ins.kind[1] = "p" /\ DOMAIN ins.arg = 1 .. 1
  BY <1>4
<1>5. CASE ins.op \in CondExp /\ DOMAIN ins.arg = 1 .. 4
  <2>1. add = IF Holds(ins.op, s[1], s[2]) THEN <<Zero, Zero, pz, Zero>>
                                           ELSE <<Zero, Zero, Zero, pz>>
    BY <1>5 DEF Adjoint, reverse_cond_op, CondExp
  <2>2. e = IF j = (IF Holds(ins.op, s[1], s[2]) THEN 3 ELSE 4) THEN One ELSE Zero
    BY <1>5, Sloped
  <2>3. j \in {1, 2, 3, 4}
    BY <1>5
  <2>4. pz ** One = pz /\ pz ** Zero = Zero
    BY RingMonoids, RingZero
  <2>5. QED
    BY <2>1, <2>2, <2>3, <2>4
<1>6. CASE ins.op = "CSum"
  <2>1. add = reverse_csum_op(ins, pz)
    BY <1>6 DEF Adjoint, CondExp
  <2>2. j # 1
    BY <1>6, UnaryAssumption DEF Shaped, Binary, CondExp, Optimized
  <2>3. add[j] = IF j <= ins.add + 1 THEN pz ELSE Minus(pz)
    BY <2>1, <2>2 DEF reverse_csum_op
  <2>4. e = IF j <= ins.add + 1 THEN One ELSE Minus(One)
    BY <1>6, Sloped
  <2>5. pz ** One = pz /\ pz ** Minus(One) = Minus(pz)
    BY RingMonoids, RingMinus
  <2>6. QED
    BY <2>3, <2>4, <2>5
<1>7. QED
  BY <1>2, <1>3, <1>4, <1>5, <1>6, ShapedOp

(* A result, and which operands matter, depend on operands that matter.    *)
LEMMA SameNeeded ==
  ASSUME NEW t, NEW ins, Shaped(t, ins),
         NEW s \in [DOMAIN ins.arg -> Num], NEW r \in [DOMAIN ins.arg -> Num],
         \A j \in Needed(ins, s) : r[j] = s[j]
  PROVE  /\ Order0(ins, r) = Order0(ins, s)
         /\ Needed(ins, r) = Needed(ins, s)
         /\ \A j \in DOMAIN ins.arg : SlopeOf(ins, r, j) = SlopeOf(ins, s, j)
<1>1. CASE ins.op \notin CondExp
  <2>1. Needed(ins, s) = DOMAIN ins.arg
    BY <1>1 DEF Needed
  <2>2. r = s
    BY <2>1
  <2>3. QED
    BY <2>2
<1>2. CASE ins.op \in CondExp
  <2>1. r[1] = s[1] /\ r[2] = s[2]
        /\ IF Holds(ins.op, s[1], s[2]) THEN r[3] = s[3] ELSE r[4] = s[4]
    BY <1>2 DEF Needed
  <2>2. ins.op # "CSum" /\ ins.op \notin Binary \union Unary /\ ins.op # "Par"
    BY <1>2, UnaryAssumption DEF CondExp, Binary
  <2>3. Order0(ins, r) = Order0(ins, s)
    <3>1. \A v : Order0(ins, v) = IF Holds(ins.op, v[1], v[2]) THEN v[3] ELSE v[4]
      BY <1>2, <2>2 DEF Order0, Value
    <3>2. QED
      BY <2>1, <3>1
  <2>4. Needed(ins, r) = Needed(ins, s)
    BY <2>1, <1>2 DEF Needed
  <2>5. \A j : SlopeOf(ins, r, j) = SlopeOf(ins, s, j)
    <3>1. SUFFICES ASSUME NEW j PROVE SlopeOf(ins, r, j) = SlopeOf(ins, s, j)
      OBVIOUS
    <3>2. \A v : SlopeOf(ins, v, j) =
                   IF j = (IF Holds(ins.op, v[1], v[2]) THEN 3 ELSE 4) THEN One ELSE Zero
      BY <1>2, Sloped
    <3>3. QED
      BY <2>1, <3>2
  <2>6. QED
    BY <2>3, <2>4, <2>5
<1>3. QED
  BY <1>1, <1>2

(* Those that do not matter have no slope.                                 *)
LEMMA SlopeUnneeded ==
  ASSUME NEW ins, NEW s, NEW j \in DOMAIN ins.arg, j \notin Needed(ins, s)
  PROVE  SlopeOf(ins, s, j) = Zero
<1>1. ins.op \in CondExp /\ j # IF Holds(ins.op, s[1], s[2]) THEN 3 ELSE 4
  BY DEF Needed
<1>2. QED
  BY <1>1, Sloped

-----------------------------------------------------------------------------
(* The function on a tape, as module Derivatives defines it.               *)

InsAt(t, i) == Instr(t, At(t, i))

(* The operators of the abstract specification are those of the sweeps.    *)
LEMMA SameOperators ==
  /\ \A ins, s : Abstract!Order0(ins, s) = Order0(ins, s)
  /\ \A ins, var, par : Abstract!Operands(ins, var, par) = Operands(ins, var, par)
  /\ \A s : Abstract!Total(s) = Total(s)
  /\ \A m, n : Abstract!**(m, n) = m ** n
<1>1. ASSUME NEW ins, NEW s
      PROVE  Abstract!forward_csum_op(ins, s) = forward_csum_op(ins, s)
  BY DEF Abstract!forward_csum_op, forward_csum_op, Abstract!FoldLeft, FoldLeft,
         Abstract!MapThenFoldSet, MapThenFoldSet, Abstract!++, ++, Abstract!--, --,
         Abstract!Max, Max
<1>2. ASSUME NEW op, NEW s
      PROVE  Abstract!Value(op, s) = Value(op, s)
  BY DEF Abstract!Value, Value, Abstract!Binary, Binary, Abstract!CondExp, CondExp,
         Abstract!Holds, Holds
<1>3. \A ins, s : Abstract!Order0(ins, s) = Order0(ins, s)
  BY <1>1, <1>2 DEF Abstract!Order0, Order0
<1>4. \A ins, var, par : Abstract!Operands(ins, var, par) = Operands(ins, var, par)
  BY DEF Abstract!Operands, Operands
<1>5. ASSUME NEW s PROVE Abstract!Total(s) = Total(s)
  BY DEF Abstract!Total, Total, Abstract!FoldLeft, FoldLeft, Abstract!MapThenFoldSet,
         MapThenFoldSet, Abstract!++, ++, Abstract!Max, Max
<1>6. \A m, n : Abstract!**(m, n) = m ** n
  BY DEF Abstract!**, **
<1>7. QED
  BY <1>3, <1>4, <1>5, <1>6

LEMMA ComputesAt ==
  ASSUME NEW t, WellFormed(t), NEW i \in Op(t)
  PROVE  Abstract!Computes(InsAt(t, i)) <=> t.op_rec_[i].op \in Computing
<1> DEFINE op == t.op_rec_[i].op
<1>1. op \in (OpCode \ CondExp) \union {"CExp"} \union Optimized
  BY Placed DEF OpCodeRec
<1>2. OpAt(t, At(t, i)) = t.op_rec_[i]
  BY DEF OpAt, At
<1>3. Abstract!Comparison = Comparison
  BY DEF Abstract!Comparison, Comparison
<1>4. op = "CExp" => InsAt(t, i).op \in CondExp
  BY DEF WellFormed, Ordered, Op, InsAt
<1>5. op = "CSum" => InsAt(t, i).op = "CSum"
  BY <1>2 DEF InsAt, Instr, CSumAt
<1>6. op = "CSkip" => InsAt(t, i).op = "CSkip"
  BY <1>2 DEF InsAt, Instr, CSkipAt
<1>7. op \notin {"CExp", "CSum", "CSkip"} => InsAt(t, i).op = op
  BY <1>2 DEF InsAt, Instr
<1> HIDE DEF op
<1>8. CASE op \in {"CExp", "CSum", "CSkip"}
  <2>1. CASE op = "CExp"
    <3>1. InsAt(t, i).op \notin {"Begin", "Inv", "CSkip", "End"} \union Comparison
      BY <2>1, <1>4 DEF CondExp, Comparison
    <3>2. QED
      BY <2>1, <3>1, <1>3 DEF Abstract!Computes, Computing, op
  <2>2. CASE op = "CSum"
    <3>1. InsAt(t, i).op \notin {"Begin", "Inv", "CSkip", "End"} \union Comparison
      BY <2>2, <1>5 DEF Comparison
    <3>2. QED
      BY <2>2, <3>1, <1>3 DEF Abstract!Computes, Computing, op
  <2>3. CASE op = "CSkip"
    <3>1. ~Abstract!Computes(InsAt(t, i))
      BY <2>3, <1>6 DEF Abstract!Computes
    <3>2. QED
      BY <2>3, <3>1, OpCodes DEF op
  <2>4. QED
    BY <1>8, <2>1, <2>2, <2>3
<1>9. CASE op \notin {"CExp", "CSum", "CSkip"}
  <2>1. Abstract!Computes(InsAt(t, i))
          <=> op \notin {"Begin", "Inv", "CSkip", "End"} \union Comparison
    BY <1>3, <1>7, <1>9 DEF Abstract!Computes
  <2>2. op \in {"Begin", "Inv", "Par", "End"} \union Binary \union Unary \union Comparison
    BY <1>1, <1>9 DEF OpCode, Optimized
  <2>3. op \in {"Begin", "Inv", "End"} \union Comparison => op \notin Computing
    BY OpCodes DEF Computing
  <2>4. op \in {"Par"} \union Binary \union Unary => op \in Computing
    BY DEF Computing
  <2>5. QED
    BY <1>9, <2>1, <2>2, <2>3, <2>4, OpCodes DEF op
<1>10. QED
  BY <1>8, <1>9

(* The value of operator i's result, from those of the variables before it.*)
ValueAt(t, var, i) ==
  Order0(InsAt(t, i), Operands(InsAt(t, i), var, t.par_rec_))

(* Its derivative.                                                         *)
Terms(t, var, dot, i) ==
  LET ins == InsAt(t, i)
  IN  [j \in DOMAIN ins.arg |->
         IF ins.kind[j] = "v"
           THEN SlopeOf(ins, Operands(ins, var, t.par_rec_), j) ** dot[ins.arg[j]]
           ELSE Zero]

DotAt(t, var, dot, i) == Total(Terms(t, var, dot, i))

(* The independents are u, and each result is computed from the variables  *)
(* before it: the values if dot is FALSE, and if it is TRUE the derivatives *)
(* where the values are var.  g[i] is what is there before operator i.     *)
EntryAt(t, dot, var, y, i) == IF dot THEN DotAt(t, var, y, i) ELSE ValueAt(t, y, i)

StartAt(t, u) == [a \in Address(t) |-> IF a \in 1 .. t.n THEN u[a] ELSE Zero]

AssignedAt(t, dot, var, y, i) ==
  IF t.op_rec_[i].op \in Computing
    THEN [y EXCEPT ![t.last[i]] = EntryAt(t, dot, var, y, i)]
    ELSE y

Assigns(t, u, dot, var, g) ==
  /\ g \in [0 .. t.num_op_rec -> [Address(t) -> Num]]
  /\ g[0] = StartAt(t, u)
  /\ \A i \in Op(t) : g[i + 1] = AssignedAt(t, dot, var, g[i], i)

LEMMA ComputedAt ==
  ASSUME NEW t, WellFormed(t), NEW i \in Op(t), t.op_rec_[i].op \in Computing
  PROVE  /\ InsAt(t, i).res = t.last[i]
         /\ Shaped(t, InsAt(t, i))
         /\ Computes(t, InsAt(t, i))
         /\ NumRes(InsAt(t, i).op) = NumRes(t.op_rec_[i].op)
<1>1. PICK ins : ins = InsAt(t, i)
  OBVIOUS
<1>2. ins = Instr(t, At(t, i))
  BY <1>1 DEF InsAt
<1>3. Shaped(t, ins)
  BY <1>2, ComputingShaped
<1>4. /\ ins.res = t.last[i] /\ ins.res \in Address(t) /\ ins.res \in Nat
      /\ NumRes(ins.op) = NumRes(t.op_rec_[i].op)
      /\ NumRes(ins.op) \in {1, 2}
      /\ ins.op \in TwoResults <=> NumRes(ins.op) = 2
      /\ ins.res - NumRes(ins.op) \in Nat
      /\ ArgsValid(ins, Len(t.par_rec_))
  BY <1>2, Computed
<1>5. Computes(t, ins)
  BY <1>4, Placed DEF Computes
<1>6. QED
  BY <1>1, <1>3, <1>4, <1>5

(* Operands that are numbers. *)
LEMMA OperandsAre ==
  ASSUME NEW t, WellFormed(t), NEW i \in Op(t), t.op_rec_[i].op \in Computing,
         NEW y \in [Address(t) -> Num]
  PROVE  Operands(InsAt(t, i), y, t.par_rec_) \in [DOMAIN InsAt(t, i).arg -> Num]
<1> PICK ins : ins = InsAt(t, i)
  OBVIOUS
<1>1. Computes(t, ins) /\ Shaped(t, ins)
  BY ComputedAt
<1>2. [k \in 0 .. 1 |-> y] \in Coefficients(t)
  BY DEF Coefficients
<1>3. OperandsOf(t, [k \in 0 .. 1 |-> y], ins, 0) \in [DOMAIN ins.arg -> Num]
  BY <1>1, <1>2, CoefficientsTyped
<1>4. OperandsOf(t, [k \in 0 .. 1 |-> y], ins, 0) = Operands(ins, y, t.par_rec_)
  BY DEF OperandsOf
<1>5. QED
  BY <1>3, <1>4

LEMMA ValueTyped ==
  ASSUME NEW t, WellFormed(t), NEW i \in Op(t), t.op_rec_[i].op \in Computing,
         NEW y \in [Address(t) -> Num]
  PROVE  ValueAt(t, y, i) \in Num
  BY OperandsAre, ComputedAt, Order0Typed DEF ValueAt

LEMMA DotTyped ==
  ASSUME NEW t, WellFormed(t), NEW i \in Op(t), t.op_rec_[i].op \in Computing,
         NEW var \in [Address(t) -> Num], NEW y \in [Address(t) -> Num]
  PROVE  DotAt(t, var, y, i) \in Num
<1> PICK ins, s : ins = InsAt(t, i) /\ s = Operands(InsAt(t, i), var, t.par_rec_)
  OBVIOUS
<1>1. /\ Computes(t, ins) /\ Shaped(t, ins)
      /\ s \in [DOMAIN ins.arg -> Num]
  BY ComputedAt, OperandsAre
<1>2. PICK n \in Nat : DOMAIN ins.arg = 1 .. n
  BY <1>1, ShapedArgs
<1>3. ASSUME NEW j \in 1 .. n PROVE Terms(t, var, y, i)[j] \in Num
  <2>1. CASE ins.kind[j] = "v"
    <3>1. ins.arg[j] \in Address(t)
      BY <1>1, <1>2, <2>1, ShapedArgs
    <3>2. SlopeOf(ins, s, j) \in Num /\ y[ins.arg[j]] \in Num
      BY <1>1, <1>2, <3>1, SlopeTyped
    <3>3. SlopeOf(ins, s, j) ** y[ins.arg[j]] \in Num
      BY <3>2, Closed
    <3>4. QED
      BY <1>2, <2>1, <3>3 DEF Terms
  <2>2. CASE ins.kind[j] # "v"
    BY <1>2, <2>2, Closed DEF Terms
  <2>3. QED
    BY <2>1, <2>2
<1>4. Terms(t, var, y, i) \in [1 .. n -> Num]
  BY <1>2, <1>3 DEF Terms
<1>5. QED
  BY <1>2, <1>4, TotalTyped DEF DotAt

LEMMA AssignedTyped ==
  ASSUME NEW t, WellFormed(t), NEW i \in Op(t), NEW dot \in BOOLEAN,
         NEW var \in [Address(t) -> Num], NEW y \in [Address(t) -> Num]
  PROVE  AssignedAt(t, dot, var, y, i) \in [Address(t) -> Num]
<1>1. CASE t.op_rec_[i].op \in Computing
  <2>1. EntryAt(t, dot, var, y, i) \in Num
    BY <1>1, ValueTyped, DotTyped DEF EntryAt
  <2>2. QED
    BY <1>1, <2>1 DEF AssignedAt
<1>2. CASE t.op_rec_[i].op \notin Computing
  BY <1>2 DEF AssignedAt
<1>3. QED
  BY <1>1, <1>2

(* What the folds of Values and Derivative do with an instruction.         *)
Entry(f, dot, var, y, ins) ==
  IF dot
    THEN Abstract!Total([j \in DOMAIN ins.arg |->
           IF ins.kind[j] = "v"
             THEN Abstract!**(Abstract!Slope(ins, Abstract!Operands(ins, var, f.par_rec_), j),
                              y[ins.arg[j]])
             ELSE Zero])
    ELSE Abstract!Order0(ins, Abstract!Operands(ins, y, f.par_rec_))

NextOf(f, dot, var, y, ins) ==
  IF Abstract!Computes(ins) THEN [y EXCEPT ![ins.res] = Entry(f, dot, var, y, ins)]
                            ELSE y

Folds(t, u, dot, var, it) ==
  it = [c \in SUBSET DOMAIN FunctionOf(t).ins |->
          IF c = {} THEN StartAt(t, u)
          ELSE LET x == Max(c)
               IN  NextOf(FunctionOf(t), dot, var, it[c \ {x}], FunctionOf(t).ins[x])]

LEMMA ValuesFolds ==
  ASSUME NEW t, NEW u, NEW var
  PROVE  Abstract!Values(FunctionOf(t), u)
           = (CHOOSE it : Folds(t, u, FALSE, var, it))[DOMAIN FunctionOf(t).ins]
<1> DEFINE f == FunctionOf(t)
<1>1. f.num_var_rec = t.num_var_rec /\ f.n = t.n
  BY DEF FunctionOf
<1>2. StartAt(t, u)
        = [a \in 0 .. f.num_var_rec - 1 |-> IF a \in 1 .. f.n THEN u[a] ELSE Zero]
  BY <1>1 DEF StartAt, Address
<1> HIDE DEF f
<1>3. Abstract!Values(f, u)
        = (CHOOSE it : it = [c \in SUBSET DOMAIN f.ins |->
             IF c = {} THEN StartAt(t, u)
             ELSE LET x == Max(c)
                  IN  NextOf(f, FALSE, var, it[c \ {x}], f.ins[x])])[DOMAIN f.ins]
  BY <1>2 DEF Abstract!Values, Abstract!FoldLeft, Abstract!MapThenFoldSet,
              Abstract!Max, Max, NextOf, Entry
<1>4. QED
  BY <1>3 DEF Folds, f

LEMMA DerivativeFolds ==
  ASSUME NEW t, NEW u, NEW d, NEW var, var = Abstract!Values(FunctionOf(t), u)
  PROVE  Abstract!Derivative(FunctionOf(t), u, d)
           = (CHOOSE it : Folds(t, d, TRUE, var, it))[DOMAIN FunctionOf(t).ins]
<1> DEFINE f == FunctionOf(t)
<1>1. f.num_var_rec = t.num_var_rec /\ f.n = t.n
  BY DEF FunctionOf
<1>2. StartAt(t, d)
        = [a \in 0 .. f.num_var_rec - 1 |-> IF a \in 1 .. f.n THEN d[a] ELSE Zero]
  BY <1>1 DEF StartAt, Address
<1> HIDE DEF f
<1>3. Abstract!Derivative(f, u, d)
        = (CHOOSE it : it = [c \in SUBSET DOMAIN f.ins |->
             IF c = {} THEN StartAt(t, d)
             ELSE LET x == Max(c)
                  IN  NextOf(f, TRUE, Abstract!Values(f, u), it[c \ {x}], f.ins[x])])[DOMAIN f.ins]
  BY <1>2 DEF Abstract!Derivative, Abstract!FoldLeft, Abstract!MapThenFoldSet,
              Abstract!Max, Max, NextOf, Entry
<1>4. QED
  BY <1>3 DEF Folds, f

(* An entry of the fold is one of the tape.                                *)
LEMMA NextIs ==
  ASSUME NEW t, WellFormed(t), NEW i \in Op(t), NEW dot \in BOOLEAN, NEW var, NEW y
  PROVE  NextOf(FunctionOf(t), dot, var, y, InsAt(t, i)) = AssignedAt(t, dot, var, y, i)
<1>1. FunctionOf(t).par_rec_ = t.par_rec_
  BY DEF FunctionOf
<1>2. t.op_rec_[i].op \in Computing => InsAt(t, i).res = t.last[i]
  BY ComputedAt
<1>3. Entry(FunctionOf(t), dot, var, y, InsAt(t, i)) = EntryAt(t, dot, var, y, i)
  BY <1>1, SameOperators DEF Entry, EntryAt, DotAt, Terms, ValueAt, SlopeOf
<1>4. QED
  BY <1>2, <1>3, ComputesAt DEF NextOf, AssignedAt

LEMMA FoldRuns ==
  ASSUME NEW t, WellFormed(t), NEW u \in [1 .. t.n -> Num], NEW dot \in BOOLEAN,
         NEW var \in [Address(t) -> Num]
  PROVE  \E g : /\ Assigns(t, u, dot, var, g)
                /\ (CHOOSE it : Folds(t, u, dot, var, it))[DOMAIN FunctionOf(t).ins]
                     = g[t.num_op_rec]
<1> DEFINE f == FunctionOf(t)
           n == t.num_op_rec
           S == [Address(t) -> Num]
           b == StartAt(t, u)
           F == [p \in S \X (1 .. n) |-> AssignedAt(t, dot, var, p[1], p[2] - 1)]
<1>1. /\ n \in Nat /\ DOMAIN f.ins = 1 .. n
      /\ \A k \in 1 .. n : k - 1 \in Op(t) /\ f.ins[k] = InsAt(t, k - 1)
  BY DEF FunctionOf, InsAt, WellFormed, Vectors, Op
<1>2. b \in S /\ F \in [S \X (1 .. n) -> S]
  <2>1. b \in S
    BY Closed DEF StartAt
  <2>2. \A p \in S \X (1 .. n) : AssignedAt(t, dot, var, p[1], p[2] - 1) \in S
    BY <1>1, AssignedTyped
  <2>3. QED
    BY <2>1, <2>2
<1>3. \A y \in S, k \in 1 .. n : F[<<y, k>>] = AssignedAt(t, dot, var, y, k - 1)
  OBVIOUS
<1>4. \A y, k : k \in 1 .. n =>
        NextOf(f, dot, var, y, f.ins[k]) = AssignedAt(t, dot, var, y, k - 1)
  BY <1>1, NextIs
<1> HIDE DEF F, b, f, n, S
<1>5. PICK at \in [SUBSET (1 .. n) -> S] : Iterates(at, n, b, F)
  BY <1>1, <1>2, Iterated
<1>6. Folds(t, u, dot, var, at)
  <2>1. ASSUME NEW c \in SUBSET (1 .. n), c # {}
        PROVE  at[c] = NextOf(f, dot, var, at[c \ {Max(c)}], f.ins[Max(c)])
    <3>1. Max(c) \in 1 .. n /\ c \ {Max(c)} \in SUBSET (1 .. n)
      BY <1>1, <2>1, Largest
    <3>2. at[c \ {Max(c)}] \in S
      BY <3>1
    <3>3. at[c] = F[<<at[c \ {Max(c)}], Max(c)>>]
      BY <1>5, <2>1 DEF Iterates
    <3>4. QED
      BY <1>3, <1>4, <3>1, <3>2, <3>3
  <2>2. at[{}] = b
    BY <1>5 DEF Iterates
  <2>3. QED
    BY <1>1, <2>1, <2>2 DEF Folds, f, b
<1>7. PICK it : Folds(t, u, dot, var, it)
                /\ it = CHOOSE v : Folds(t, u, dot, var, v)
  BY <1>6
<1>8. it[{}] = b /\ \A c \in SUBSET (1 .. n) :
        c # {} => it[c] = NextOf(f, dot, var, it[c \ {Max(c)}], f.ins[Max(c)])
  BY <1>1, <1>7 DEF Folds, f, b
<1> DEFINE g == [k \in 0 .. n |-> it[1 .. k]]
<1>9. g[0] = b
  <2>1. 1 .. 0 = {}
    OBVIOUS
  <2>2. QED
    BY <1>1, <1>8, <2>1
<1>10. ASSUME NEW k \in 1 .. n
       PROVE  g[k] = AssignedAt(t, dot, var, g[k - 1], k - 1)
  <2>1. Max(1 .. k) = k /\ (1 .. k) \ {k} = 1 .. k - 1 /\ 1 .. k \in SUBSET (1 .. n)
    BY <1>1, LargestOfInterval
  <2>2. 1 .. k # {} /\ k \in 0 .. n /\ k - 1 \in 0 .. n
    <3>1. n \in Nat
      BY <1>1
    <3>2. 1 \in 1 .. k /\ k \in 0 .. n /\ k - 1 \in 0 .. n
      BY <3>1
    <3>3. QED
      BY <3>2
  <2>3. it[1 .. k] = NextOf(f, dot, var, it[1 .. k - 1], f.ins[k])
    BY <1>8, <2>1, <2>2
  <2>4. g[k] = it[1 .. k] /\ g[k - 1] = it[1 .. k - 1]
    BY <2>2
  <2>5. QED
    BY <1>4, <2>3, <2>4
<1>11. \A k \in 0 .. n : g[k] \in S
  <2> DEFINE T == {k \in 0 .. n : g[k] \in S}
  <2> HIDE DEF g
  <2>1. 0 \in T
    BY <1>1, <1>2, <1>9
  <2>2. ASSUME NEW k \in 1 .. n, k - 1 \in T PROVE k \in T
    <3>1. AssignedAt(t, dot, var, g[k - 1], k - 1) \in S
      BY <1>1, <2>2, AssignedTyped DEF S
    <3>2. QED
      BY <1>1, <1>10, <3>1
  <2> HIDE DEF T
  <2>3. \A k \in 0 .. n : k \in T
    BY <1>1, <2>1, <2>2, UpTo
  <2>4. QED
    BY <2>3 DEF T
<1>12. \A i \in Op(t) : g[i + 1] = AssignedAt(t, dot, var, g[i], i)
  <2>1. SUFFICES ASSUME NEW i \in Op(t)
                 PROVE  g[i + 1] = AssignedAt(t, dot, var, g[i], i)
    OBVIOUS
  <2> HIDE DEF g
  <2>2. i + 1 \in 1 .. n /\ (i + 1) - 1 = i
    BY <1>1 DEF Op, n
  <2>3. QED
    BY <1>10, <2>2
<1>13. g \in [0 .. n -> S]
  BY <1>11
<1>14. g[n] = it[1 .. n]
  BY <1>1
<1> HIDE DEF g
<1>15. Assigns(t, u, dot, var, g)
  BY <1>9, <1>12, <1>13 DEF Assigns, n, S, b
<1>16. QED
  BY <1>1, <1>7, <1>14, <1>15 DEF f, n

-----------------------------------------------------------------------------
(* The independents come first.                                            *)
LEMMA Independents ==
  ASSUME NEW t, WellFormed(t)
  PROVE  /\ t.n \in Nat
         /\ \A i \in 0 .. t.n : i \in Op(t) /\ t.last[i] = i
         /\ \A i \in Op(t) : t.op_rec_[i].op \in Computing =>
              /\ i > t.n /\ t.last[i] - NumRes(t.op_rec_[i].op) >= t.n
              /\ t.last[i] > t.n
<1>1. t.n \in Nat /\ t.num_op_rec \in Nat /\ t.num_op_rec > t.n + 1
  BY DEF WellFormed, Vectors
<1>2. \A i \in 0 .. t.n : i \in Op(t)
  BY <1>1 DEF Op
<1>3. \A i \in Op(t) : t.op_rec_[i].op = "Inv" <=> i \in 1 .. t.n
  BY DEF WellFormed, Vectors, Op
<1>4. NumRes("Inv") = 1
  BY UnaryAssumption DEF NumRes, Comparison
<1> DEFINE T == {i \in 0 .. t.n : t.last[i] = i}
<1>5. 0 \in T
  BY <1>1 DEF WellFormed, Adjacent
<1>6. ASSUME NEW i \in 1 .. t.n, i - 1 \in T PROVE i \in T
  <2>1. i - 1 \in Op(t) /\ i \in Op(t) /\ (i - 1) + 1 = i
    BY <1>1, <1>2
  <2>2. t.last[i] = t.last[i - 1] + NumRes(t.op_rec_[i].op)
    BY <2>1, NextPlaced
  <2>3. QED
    BY <1>1, <1>3, <1>4, <1>6, <2>1, <2>2
<1> HIDE DEF T
<1>7. \A i \in 0 .. t.n : i \in T
  BY <1>1, <1>5, <1>6, UpTo
<1>8. \A i \in 0 .. t.n : t.last[i] = i
  BY <1>7 DEF T
<1>9. ASSUME NEW i \in Op(t), t.op_rec_[i].op \in Computing
      PROVE  /\ i > t.n /\ t.last[i] - NumRes(t.op_rec_[i].op) >= t.n
             /\ t.last[i] > t.n
  <2>1. i \in Nat /\ i # 0 /\ i \notin 1 .. t.n
    BY <1>1, <1>3, <1>9, OpCodes, Placed DEF Op
  <2>2. i > t.n /\ t.n \in Op(t)
    BY <1>1, <1>2, <2>1
  <2>3. t.last[t.n] + NumRes(t.op_rec_[i].op) <= t.last[i]
    BY <2>2, ResultsOrdered
  <2>4. t.last[t.n] = t.n /\ t.last[i] \in Nat
    BY <1>1, <1>8, Placed
  <2>5. NumRes(t.op_rec_[i].op) \in {1, 2}
    BY <1>9, Computed
  <2>6. QED
    BY <1>1, <2>2, <2>3, <2>4, <2>5
<1>10. QED
  BY <1>1, <1>2, <1>8, <1>9

(* y and z have the same numbers up to address a.                          *)
AgreeUpTo(y, z, a) == \A m \in 0 .. a : y[m] = z[m]

LEMMA SameEntry ==
  ASSUME NEW t, WellFormed(t), NEW i \in Op(t), t.op_rec_[i].op \in Computing,
         NEW dot \in BOOLEAN, NEW var, NEW y, NEW z,
         AgreeUpTo(y, z, t.last[i] - NumRes(t.op_rec_[i].op))
  PROVE  EntryAt(t, dot, var, y, i) = EntryAt(t, dot, var, z, i)
<1> PICK ins : ins = InsAt(t, i)
  OBVIOUS
<1>1. /\ Computes(t, ins) /\ Shaped(t, ins) /\ ins.res = t.last[i]
      /\ NumRes(ins.op) = NumRes(t.op_rec_[i].op)
  BY ComputedAt
<1>2. \A j \in DOMAIN ins.arg : ins.kind[j] = "v" => y[ins.arg[j]] = z[ins.arg[j]]
  <2>1. SUFFICES ASSUME NEW j \in DOMAIN ins.arg, ins.kind[j] = "v"
                 PROVE  y[ins.arg[j]] = z[ins.arg[j]]
    OBVIOUS
  <2>2. ins.arg[j] \in 1 .. ins.res - NumRes(ins.op)
    BY <1>1, <2>1, ShapedArgs DEF Before
  <2>3. QED
    BY <1>1, <2>2 DEF AgreeUpTo
<1>3. Operands(ins, y, t.par_rec_) = Operands(ins, z, t.par_rec_)
  BY <1>2 DEF Operands
<1>4. Terms(t, var, y, i) = Terms(t, var, z, i)
  BY <1>2 DEF Terms
<1>5. QED
  BY <1>3, <1>4 DEF EntryAt, ValueAt, DotAt

(* What is written at operator i stays.                                    *)
LEMMA AssignedKept ==
  ASSUME NEW t, WellFormed(t), NEW u, NEW dot \in BOOLEAN, NEW var, NEW g,
         Assigns(t, u, dot, var, g), NEW i \in Op(t), NEW k \in Op(t), i < k
  PROVE  AgreeUpTo(g[k], g[k + 1], t.last[i])
<1>1. g[k + 1] = AssignedAt(t, dot, var, g[k], k) /\ g[k] \in [Address(t) -> Num]
  <2>1. k \in 0 .. t.num_op_rec
    BY Placed DEF Op
  <2>2. QED
    BY <2>1 DEF Assigns
<1>2. t.last[i] + NumRes(t.op_rec_[k].op) <= t.last[k] /\ t.last[i] \in Address(t)
      /\ t.last[i] \in Nat /\ t.last[k] \in Nat
  BY ResultsOrdered, Placed
<1>3. CASE t.op_rec_[k].op \in Computing
  <2>1. NumRes(t.op_rec_[k].op) \in {1, 2}
    BY <1>3, Computed
  <2>2. t.last[k] \notin 0 .. t.last[i]
    BY <1>2, <2>1
  <2>3. g[k + 1] = [g[k] EXCEPT ![t.last[k]] = EntryAt(t, dot, var, g[k], k)]
    BY <1>1, <1>3 DEF AssignedAt
  <2>4. 0 .. t.last[i] \subseteq Address(t)
    BY <1>2, Placed DEF Address
  <2>5. QED
    BY <1>1, <2>2, <2>3, <2>4 DEF AgreeUpTo
<1>4. CASE t.op_rec_[k].op \notin Computing
  BY <1>1, <1>4 DEF AssignedAt, AgreeUpTo
<1>5. QED
  BY <1>3, <1>4

LEMMA AssignedStays ==
  ASSUME NEW t, WellFormed(t), NEW u, NEW dot \in BOOLEAN, NEW var, NEW g,
         Assigns(t, u, dot, var, g), NEW i \in Op(t)
  PROVE  AgreeUpTo(g[i + 1], g[t.num_op_rec], t.last[i])
<1> DEFINE n == t.num_op_rec
           T == {k \in 0 .. n : k >= i + 1 => AgreeUpTo(g[i + 1], g[k], t.last[i])}
<1>1. n \in Nat /\ i \in Nat /\ i + 1 \in 0 .. n
  BY Placed DEF Op
<1>2. 0 \in T
  BY <1>1
<1>3. ASSUME NEW k \in 1 .. n, k - 1 \in T PROVE k \in T
  <2>1. CASE k <= i + 1
    BY <1>1, <2>1 DEF AgreeUpTo
  <2>2. CASE k > i + 1
    <3>1. k - 1 \in Op(t) /\ i < k - 1 /\ (k - 1) + 1 = k /\ k - 1 >= i + 1
      BY <1>1, <2>2 DEF Op
    <3>2. AgreeUpTo(g[k - 1], g[k], t.last[i])
      BY <3>1, AssignedKept
    <3>3. AgreeUpTo(g[i + 1], g[k - 1], t.last[i])
      BY <1>3, <3>1
    <3>4. AgreeUpTo(g[i + 1], g[k], t.last[i])
      BY <3>2, <3>3 DEF AgreeUpTo
    <3>5. QED
      BY <3>4
  <2>3. QED
    BY <1>1, <2>1, <2>2
<1>4. \A k \in 0 .. n : k \in T
  <2> HIDE DEF T
  <2>1. QED
    BY <1>1, <1>2, <1>3, UpTo
<1>5. n >= i + 1 /\ n \in 0 .. n
  BY <1>1
<1>6. QED
  BY <1>4, <1>5

(* So at the end, all results are what the operators compute from each     *)
(* other.                                                                  *)
SettledAt(t, u, dot, var, y) ==
  /\ y \in [Address(t) -> Num]
  /\ \A a \in 1 .. t.n : y[a] = u[a]
  /\ \A i \in Op(t) :
       t.op_rec_[i].op \in Computing => y[t.last[i]] = EntryAt(t, dot, var, y, i)

LEMMA Settled ==
  ASSUME NEW t, WellFormed(t), NEW u, NEW dot \in BOOLEAN, NEW var, NEW g,
         Assigns(t, u, dot, var, g)
  PROVE  SettledAt(t, u, dot, var, g[t.num_op_rec])
<1> DEFINE n == t.num_op_rec
<1>1. n \in Nat /\ t.n \in Nat /\ n > t.n + 1 /\ n \in 0 .. n
  BY DEF WellFormed, Vectors
<1>2. \A k \in 0 .. n : g[k] \in [Address(t) -> Num]
  BY DEF Assigns
<1>3. 1 .. t.n \subseteq Address(t)
  <2>1. t.n \in Op(t) /\ t.last[t.n] = t.n
    BY <1>1, Independents
  <2>2. t.n \in Address(t)
    BY <2>1, ResultsOrdered
  <2>3. QED
    BY <1>1, <2>2, Placed, <2>1 DEF Address
<1>4. \A a \in 1 .. t.n : g[n][a] = u[a]
  <2> DEFINE T == {k \in 0 .. n : \A a \in 1 .. t.n : g[k][a] = u[a]}
  <2>1. 0 \in T
    BY <1>1, <1>3 DEF Assigns, StartAt
  <2>2. ASSUME NEW k \in 1 .. n, k - 1 \in T PROVE k \in T
    <3>1. k - 1 \in Op(t) /\ (k - 1) + 1 = k /\ k - 1 \in 0 .. n
      BY <1>1 DEF Op
    <3>2. g[k] = AssignedAt(t, dot, var, g[k - 1], k - 1)
      BY <3>1 DEF Assigns
    <3>3. t.op_rec_[k - 1].op \in Computing => t.last[k - 1] \notin 1 .. t.n
      BY <1>1, <3>1, Independents, Placed
    <3>4. \A a \in 1 .. t.n : g[k][a] = g[k - 1][a]
      BY <1>2, <1>3, <3>1, <3>2, <3>3 DEF AssignedAt
    <3>5. QED
      BY <2>2, <3>4
  <2> HIDE DEF T
  <2>3. n \in T
    BY <1>1, <2>1, <2>2, UpTo
  <2>4. QED
    BY <2>3 DEF T
<1>5. ASSUME NEW i \in Op(t), t.op_rec_[i].op \in Computing
      PROVE  g[n][t.last[i]] = EntryAt(t, dot, var, g[n], i)
  <2>1. /\ i \in Nat /\ i # 0 /\ i - 1 \in Op(t) /\ (i - 1) + 1 = i /\ i \in 0 .. n
        /\ t.last[i] \in Nat /\ t.last[i] \in Address(t)
    BY <1>1, <1>5, OpCodes, Placed, ResultsOrdered DEF Op
  <2>2. t.last[i] = t.last[i - 1] + NumRes(t.op_rec_[i].op)
        /\ NumRes(t.op_rec_[i].op) \in {1, 2} /\ t.last[i - 1] \in Nat
    BY <1>5, <2>1, NextPlaced, Computed, Placed
  <2>3. AgreeUpTo(g[i], g[n], t.last[i - 1])
    BY <2>1, AssignedStays
  <2>4. t.last[i] - NumRes(t.op_rec_[i].op) = t.last[i - 1]
    BY <2>2
  <2>5. EntryAt(t, dot, var, g[i], i) = EntryAt(t, dot, var, g[n], i)
    BY <1>5, <2>3, <2>4, SameEntry
  <2>6. g[i + 1] = AssignedAt(t, dot, var, g[i], i)
    BY DEF Assigns
  <2>7. g[i + 1][t.last[i]] = EntryAt(t, dot, var, g[i], i)
    BY <1>2, <1>5, <2>1, <2>6 DEF AssignedAt
  <2>8. g[n][t.last[i]] = g[i + 1][t.last[i]]
    <3>1. AgreeUpTo(g[i + 1], g[n], t.last[i])
      BY AssignedStays
    <3>2. t.last[i] \in 0 .. t.last[i]
      BY <2>1
    <3>3. QED
      BY <3>1, <3>2 DEF AgreeUpTo
  <2>9. QED
    BY <2>5, <2>7, <2>8
<1>6. QED
  BY <1>1, <1>2, <1>4, <1>5 DEF SettledAt

(* The values and derivatives of the function on a tape.                   *)
LEMMA ValuesSettled ==
  ASSUME NEW t, WellFormed(t), NEW u \in [1 .. t.n -> Num]
  PROVE  SettledAt(t, u, FALSE, 0, Abstract!Values(FunctionOf(t), u))
<1> DEFINE v == [a \in Address(t) |-> Zero]
<1>1. v \in [Address(t) -> Num]
  BY Closed
<1> HIDE DEF v
<1> PICK it : it = CHOOSE f : Folds(t, u, FALSE, v, f)
  OBVIOUS
<1>2. Abstract!Values(FunctionOf(t), u) = it[DOMAIN FunctionOf(t).ins]
  BY ValuesFolds
<1>3. FALSE \in BOOLEAN
  OBVIOUS
<1>4. PICK g : Assigns(t, u, FALSE, v, g)
               /\ it[DOMAIN FunctionOf(t).ins] = g[t.num_op_rec]
  BY <1>1, <1>3, FoldRuns
<1>5. SettledAt(t, u, FALSE, v, g[t.num_op_rec])
  BY <1>3, <1>4, Settled
<1>6. ASSUME NEW y, SettledAt(t, u, FALSE, v, y)
      PROVE  SettledAt(t, u, FALSE, 0, y)
  BY <1>6 DEF SettledAt, EntryAt
<1>7. QED
  BY <1>2, <1>4, <1>5, <1>6

LEMMA DerivativeSettled ==
  ASSUME NEW t, WellFormed(t), NEW u \in [1 .. t.n -> Num], NEW d \in [1 .. t.n -> Num]
  PROVE  SettledAt(t, d, TRUE, Abstract!Values(FunctionOf(t), u),
                   Abstract!Derivative(FunctionOf(t), u, d))
<1> PICK v : v = Abstract!Values(FunctionOf(t), u)
  OBVIOUS
<1>1. v \in [Address(t) -> Num]
  BY ValuesSettled DEF SettledAt
<1> PICK it : it = CHOOSE f : Folds(t, d, TRUE, v, f)
  OBVIOUS
<1>2. Abstract!Derivative(FunctionOf(t), u, d) = it[DOMAIN FunctionOf(t).ins]
  BY DerivativeFolds
<1>3. TRUE \in BOOLEAN
  OBVIOUS
<1>4. PICK g : Assigns(t, d, TRUE, v, g)
               /\ it[DOMAIN FunctionOf(t).ins] = g[t.num_op_rec]
  BY <1>1, <1>3, FoldRuns
<1>5. SettledAt(t, d, TRUE, v, g[t.num_op_rec])
  BY <1>3, <1>4, Settled
<1>6. QED
  BY <1>2, <1>4, <1>5

-----------------------------------------------------------------------------
(* Coefficients are the values and derivatives of the function, where they *)
(* matter.                                                                 *)

ValuesAt(t, u) == Abstract!Values(FunctionOf(t), u)

DerivativeAt(t, u, d) == Abstract!Derivative(FunctionOf(t), u, d)

OperandsAt(t, var, i) == Operands(InsAt(t, i), var, t.par_rec_)

(* The parts of Live, for the values var.                                  *)
LiveNeeds(t, var, L) ==
  \A i \in Op(t) : t.op_rec_[i].op \in Computing /\ t.last[i] \in L =>
    \A j \in Needed(InsAt(t, i), OperandsAt(t, var, i)) : InLive(InsAt(t, i), j, L)

LiveSkips(t, var, L) ==
  \A i \in Op(t) : t.op_rec_[i].op = "CSkip" =>
    \A k \in Op(t) \cap (InsAt(t, i).if_true \union InsAt(t, i).if_false) :
      /\ k > i
      /\ t.last[k] \in L => /\ \A j \in 1 .. 2 : InLive(InsAt(t, i), j, L)
                           /\ k \notin Chosen(InsAt(t, i), OperandsAt(t, var, i))

LEMMA LiveParts ==
  ASSUME NEW t, NEW u, NEW L, Live(t, u, L)
  PROVE  /\ \A i \in DOMAIN t.dep_taddr_ : t.dep_taddr_[i] \in L
         /\ LiveNeeds(t, ValuesAt(t, u), L)
         /\ LiveSkips(t, ValuesAt(t, u), L)
  BY DEF Live, LiveNeeds, LiveSkips, ValuesAt, OperandsAt, InsAt

(* Every flag was set by a skip that would still set it.                   *)
SetBy(t, y, k, m) ==
  /\ t.op_rec_[m].op = "CSkip"
  /\ k \in Chosen(InsAt(t, m), OperandsAt(t, y, m))

FlagsJustified(t, y, flags) ==
  \A k \in Op(t) : flags[k] => \E m \in Op(t) : SetBy(t, y, k, m)

SolvedTo(t, y, flags, k) ==
  \A i \in Op(t) :
    (t.op_rec_[i].op \in Computing /\ ~flags[i]) => SolvedBy(t, y, InsAt(t, i), k)

(* Before operator i, y and z are the same where it matters.               *)
SameLive(t, L, y, z, i) ==
  \A k \in Op(t) : (k < i /\ t.last[k] \in L) => y[t.last[k]] = z[t.last[k]]

LEMMA OperandPlaced ==
  ASSUME NEW t, WellFormed(t), NEW i \in Op(t), NEW j \in DOMAIN InsAt(t, i).arg,
         InsAt(t, i).kind[j] = "v"
  PROVE  \E k \in Op(t) : k < i /\ InsAt(t, i).arg[j] = t.last[k]
<1>1. i \in 0 .. t.num_op_rec - 1 /\ t.num_op_rec \in Nat
  BY Placed DEF Op
<1>2. InsAt(t, i).arg[j] \in {t.last[k] : k \in 0 .. i - 1}
  BY <1>1 DEF WellFormed, Ordered, InsAt
<1>3. PICK k \in 0 .. i - 1 : InsAt(t, i).arg[j] = t.last[k]
  BY <1>2
<1>4. k \in Op(t) /\ k < i
  BY <1>1 DEF Op
<1>5. QED
  BY <1>3, <1>4

(* Operands that matter are the same.                                      *)
LEMMA LiveOperand ==
  ASSUME NEW t, WellFormed(t), NEW i \in Op(t), NEW j \in DOMAIN InsAt(t, i).arg,
         NEW L, InLive(InsAt(t, i), j, L), NEW y, NEW z, SameLive(t, L, y, z, i)
  PROVE  /\ OperandsAt(t, y, i)[j] = OperandsAt(t, z, i)[j]
         /\ InsAt(t, i).kind[j] = "v" =>
              y[InsAt(t, i).arg[j]] = z[InsAt(t, i).arg[j]]
<1>1. ASSUME InsAt(t, i).kind[j] = "v"
      PROVE  y[InsAt(t, i).arg[j]] = z[InsAt(t, i).arg[j]]
  <2>1. PICK k \in Op(t) : k < i /\ InsAt(t, i).arg[j] = t.last[k]
    BY <1>1, OperandPlaced
  <2>2. t.last[k] \in L
    BY <1>1, <2>1 DEF InLive
  <2>3. QED
    BY <2>1, <2>2 DEF SameLive
<1>2. QED
  BY <1>1 DEF OperandsAt, Operands

(* What matters is not skipped.                                            *)
LEMMA LiveNotSkipped ==
  ASSUME NEW t, WellFormed(t), NEW y, NEW flags, FlagsJustified(t, y, flags),
         NEW L, NEW var, LiveSkips(t, var, L),
         NEW i \in Op(t), t.last[i] \in L, SameLive(t, L, y, var, i)
  PROVE  ~flags[i]
<1> SUFFICES ASSUME flags[i] PROVE FALSE
  OBVIOUS
<1>1. PICK m \in Op(t) : SetBy(t, y, i, m)
  BY DEF FlagsJustified
<1>2. t.op_rec_[m].op = "CSkip" /\ i \in Chosen(InsAt(t, m), OperandsAt(t, y, m))
  BY <1>1 DEF SetBy
<1>3. i \in InsAt(t, m).if_true \union InsAt(t, m).if_false
  BY <1>2 DEF Chosen
<1>4. /\ i > m
      /\ \A j \in 1 .. 2 : InLive(InsAt(t, m), j, L)
      /\ i \notin Chosen(InsAt(t, m), OperandsAt(t, var, m))
  BY <1>2, <1>3 DEF LiveSkips
<1>5. DOMAIN InsAt(t, m).arg = 1 .. 2
  <2>1. OpAt(t, At(t, m)) = t.op_rec_[m]
    BY DEF OpAt, At
  <2>2. InsAt(t, m) = CSkipAt(t, At(t, m))
    BY <1>2, <2>1 DEF InsAt, Instr
  <2>3. QED
    BY <2>2 DEF CSkipAt
<1>6. SameLive(t, L, y, var, m)
  <2>1. \A k \in Op(t) : k < m => k < i
    BY <1>4, Placed DEF Op
  <2>2. QED
    BY <2>1 DEF SameLive
<1>7. \A j \in 1 .. 2 : OperandsAt(t, y, m)[j] = OperandsAt(t, var, m)[j]
  BY <1>4, <1>5, <1>6, LiveOperand
<1>8. Chosen(InsAt(t, m), OperandsAt(t, y, m)) = Chosen(InsAt(t, m), OperandsAt(t, var, m))
  BY <1>7 DEF Chosen
<1>9. QED
  BY <1>2, <1>4, <1>8

(* An operator that computes nothing has no result, after the independents.*)
LEMMA NoResult ==
  ASSUME NEW t, WellFormed(t), NEW i \in Op(t), t.op_rec_[i].op \notin Computing,
         i > t.n
  PROVE  i - 1 \in Op(t) /\ t.last[i] = t.last[i - 1]
<1>1. i \in Nat /\ i # 0 /\ i \notin 1 .. t.n /\ i - 1 \in Op(t) /\ (i - 1) + 1 = i
  BY Placed, Independents DEF Op
<1>2. t.op_rec_[i].op \notin {"Begin", "Inv"}
  BY <1>1, Placed DEF WellFormed, Vectors, Op
<1>3. t.op_rec_[i].op \in (OpCode \ CondExp) \union {"CExp"} \union Optimized
  BY Placed DEF OpCodeRec
<1>4. t.op_rec_[i].op \in Comparison \union {"End", "CSkip"}
  BY <1>2, <1>3 DEF OpCode, Computing, Optimized
<1>5. t.op_rec_[i].op \notin TwoResults
  BY <1>4, UnaryAssumption DEF Optimized
<1>6. NumRes(t.op_rec_[i].op) = 0
  BY <1>4, <1>5 DEF NumRes
<1>7. t.last[i] = t.last[i - 1] + 0
  BY <1>1, <1>6, NextPlaced
<1>8. t.last[i - 1] \in Nat
  BY <1>1, Placed
<1>9. QED
  BY <1>1, <1>7, <1>8

(* Results that matter are the same if those of each operator are wherever *)
(* all before it are.                                                      *)
LiveSteps(t, L, y, z) ==
  /\ L \subseteq 1 .. t.num_var_rec - 1
  /\ \A a \in 1 .. t.n : y[a] = z[a]
  /\ \A i \in Op(t) :
       (t.op_rec_[i].op \in Computing /\ t.last[i] \in L /\ SameLive(t, L, y, z, i))
         => y[t.last[i]] = z[t.last[i]]

LEMMA LiveInduction ==
  ASSUME NEW t, WellFormed(t), NEW L, NEW y, NEW z, LiveSteps(t, L, y, z)
  PROVE  \A i \in Op(t) : t.last[i] \in L => y[t.last[i]] = z[t.last[i]]
<1> DEFINE Bad == {i \in Op(t) : t.last[i] \in L /\ y[t.last[i]] # z[t.last[i]]}
<1>1. SUFFICES ASSUME Bad # {} PROVE FALSE
  OBVIOUS
<1>2. Bad \subseteq Nat
  BY Placed DEF Op
<1>3. PICK i \in Bad : \A k \in Bad : i <= k
  <2> HIDE DEF Bad
  <2>1. QED
    BY <1>1, <1>2, LeastNatural
<1>4. i \in Op(t) /\ t.last[i] \in L /\ y[t.last[i]] # z[t.last[i]] /\ i \in Nat
  BY <1>2, <1>3
<1>5. SameLive(t, L, y, z, i)
  <2>1. SUFFICES ASSUME NEW k \in Op(t), k < i, t.last[k] \in L
                 PROVE  y[t.last[k]] = z[t.last[k]]
    BY DEF SameLive
  <2>2. k \in Nat /\ ~(i <= k)
    BY <1>4, <2>1, Placed DEF Op
  <2>3. k \notin Bad
    <3> HIDE DEF Bad
    <3>1. QED
      BY <1>3, <2>2
  <2>4. QED
    BY <2>1, <2>3
<1> HIDE DEF Bad
<1>6. L \subseteq 1 .. t.num_var_rec - 1
  BY DEF LiveSteps
<1>7. CASE t.op_rec_[i].op \in Computing
  BY <1>4, <1>5, <1>7 DEF LiveSteps
<1>8. CASE i <= t.n
  <2>1. t.last[i] = i
    BY <1>4, <1>8, Independents
  <2>2. i \in 1 .. t.n
    BY <1>6, <1>4, <1>8, <2>1, Independents
  <2>3. QED
    BY <1>4, <2>1, <2>2 DEF LiveSteps
<1>9. CASE t.op_rec_[i].op \notin Computing /\ i > t.n
  <2>1. i - 1 \in Op(t) /\ t.last[i] = t.last[i - 1]
    BY <1>4, <1>9, NoResult
  <2>2. i - 1 < i
    BY <1>4
  <2>3. QED
    BY <1>4, <1>5, <2>1, <2>2 DEF SameLive
<1>10. QED
  BY <1>6, <1>4, <1>7, <1>8, <1>9, Independents

(* Operands by the needed ones: the value, the slopes.                     *)
LEMMA LiveOperands ==
  ASSUME NEW t, WellFormed(t), NEW i \in Op(t), t.op_rec_[i].op \in Computing,
         NEW L, t.last[i] \in L,
         NEW y \in [Address(t) -> Num], NEW z \in [Address(t) -> Num],
         LiveNeeds(t, z, L), SameLive(t, L, y, z, i)
  PROVE  /\ OperandsAt(t, y, i) \in [DOMAIN InsAt(t, i).arg -> Num]
         /\ OperandsAt(t, z, i) \in [DOMAIN InsAt(t, i).arg -> Num]
         /\ Order0(InsAt(t, i), OperandsAt(t, y, i)) = Order0(InsAt(t, i), OperandsAt(t, z, i))
         /\ Needed(InsAt(t, i), OperandsAt(t, y, i)) = Needed(InsAt(t, i), OperandsAt(t, z, i))
         /\ \A j \in DOMAIN InsAt(t, i).arg :
              SlopeOf(InsAt(t, i), OperandsAt(t, y, i), j)
                = SlopeOf(InsAt(t, i), OperandsAt(t, z, i), j)
<1> PICK ins, r, s : ins = InsAt(t, i) /\ r = OperandsAt(t, y, i) /\ s = OperandsAt(t, z, i)
  OBVIOUS
<1>1. Shaped(t, ins) /\ r \in [DOMAIN ins.arg -> Num] /\ s \in [DOMAIN ins.arg -> Num]
  BY ComputedAt, OperandsAre DEF OperandsAt
<1>2. \A j \in Needed(ins, s) : r[j] = s[j]
  <2>1. SUFFICES ASSUME NEW j \in Needed(ins, s) PROVE r[j] = s[j]
    OBVIOUS
  <2>2. InLive(ins, j, L)
    BY <2>1 DEF LiveNeeds
  <2>3. j \in DOMAIN ins.arg
    <3>1. CASE ins.op \notin CondExp
      BY <2>1, <3>1 DEF Needed
    <3>2. CASE ins.op \in CondExp
      <4>1. DOMAIN ins.arg = 1 .. 4
        BY <1>1, <3>2, ShapedOp, UnaryAssumption DEF CondExp
      <4>2. j \in 1 .. 4
        BY <2>1, <3>2 DEF Needed
      <4>3. QED
        BY <4>1, <4>2
    <3>3. QED
      BY <3>1, <3>2
  <2>4. QED
    BY <2>2, <2>3, LiveOperand
<1>3. QED
  BY <1>1, <1>2, SameNeeded

(* The coefficients of order 0 are values.                                 *)
LEMMA LiveValues ==
  ASSUME NEW t, WellFormed(t), NEW y \in Coefficients(t), NEW flags,
         FlagsJustified(t, y[0], flags), SolvedTo(t, y, flags, 0),
         NEW L, L \subseteq 1 .. t.num_var_rec - 1,
         NEW var \in [Address(t) -> Num], LiveNeeds(t, var, L), LiveSkips(t, var, L),
         NEW u, SettledAt(t, u, FALSE, 0, var), \A a \in 1 .. t.n : y[0][a] = u[a]
  PROVE  \A i \in Op(t) : t.last[i] \in L => y[0][t.last[i]] = var[t.last[i]]
<1>1. y[0] \in [Address(t) -> Num]
  BY DEF Coefficients
<1>2. \A a \in 1 .. t.n : y[0][a] = var[a]
  BY DEF SettledAt
<1>3. ASSUME NEW i \in Op(t), t.op_rec_[i].op \in Computing, t.last[i] \in L,
             SameLive(t, L, y[0], var, i)
      PROVE  y[0][t.last[i]] = var[t.last[i]]
  <2>1. ~flags[i]
    BY <1>3, LiveNotSkipped
  <2>2. SolvedBy(t, y, InsAt(t, i), 0)
    BY <1>3, <2>1 DEF SolvedTo
  <2>3. InsAt(t, i).res = t.last[i]
    BY <1>3, ComputedAt
  <2>4. y[0][t.last[i]] = Order0(InsAt(t, i), OperandsAt(t, y[0], i))
    BY <2>2, <2>3 DEF SolvedBy, ResultOf, OperandsOf, OperandsAt
  <2>5. var[t.last[i]] = Order0(InsAt(t, i), OperandsAt(t, var, i))
    BY <1>3 DEF SettledAt, EntryAt, ValueAt, OperandsAt
  <2>6. QED
    BY <1>1, <1>3, <2>4, <2>5, LiveOperands
<1>4. LiveSteps(t, L, y[0], var)
  BY <1>2, <1>3 DEF LiveSteps
<1>5. ASSUME NEW x, LiveSteps(t, L, x, var)
      PROVE  \A i \in Op(t) : t.last[i] \in L => x[t.last[i]] = var[t.last[i]]
  BY <1>5, LiveInduction
<1>6. QED
  BY <1>4, <1>5

(* Those of order 1 are derivatives.                                       *)
LEMMA LiveTerms ==
  ASSUME Ring, NEW t, WellFormed(t), NEW i \in Op(t), t.op_rec_[i].op \in Computing,
         NEW L, t.last[i] \in L,
         NEW y \in [Address(t) -> Num], NEW var \in [Address(t) -> Num],
         LiveNeeds(t, var, L), SameLive(t, L, y, var, i),
         NEW y1 \in [Address(t) -> Num], NEW dot \in [Address(t) -> Num],
         SameLive(t, L, y1, dot, i),
         NEW d, d \in [DOMAIN InsAt(t, i).arg -> Num],
         \A j \in DOMAIN InsAt(t, i).arg :
           d[j] = IF InsAt(t, i).kind[j] = "v" THEN y1[InsAt(t, i).arg[j]] ELSE Zero
  PROVE  ChainTerms(InsAt(t, i), OperandsAt(t, y, i), d) = Terms(t, var, dot, i)
<1> PICK ins, r, s : ins = InsAt(t, i) /\ r = OperandsAt(t, y, i) /\ s = OperandsAt(t, var, i)
  OBVIOUS
<1>1. /\ Shaped(t, ins) /\ Computes(t, ins)
      /\ r \in [DOMAIN ins.arg -> Num] /\ s \in [DOMAIN ins.arg -> Num]
      /\ Needed(ins, r) = Needed(ins, s)
      /\ \A j \in DOMAIN ins.arg : SlopeOf(ins, r, j) = SlopeOf(ins, s, j)
  BY ComputedAt, LiveOperands
<1>2. ASSUME NEW j \in DOMAIN ins.arg
      PROVE  SlopeOf(ins, r, j) ** d[j] = IF ins.kind[j] = "v"
                                            THEN SlopeOf(ins, s, j) ** dot[ins.arg[j]]
                                            ELSE Zero
  <2>0. SlopeOf(ins, s, j) \in Num /\ SlopeOf(ins, r, j) = SlopeOf(ins, s, j) /\ d[j] \in Num
    BY <1>1, SlopeTyped
  <2>1. CASE ins.kind[j] # "v"
    BY <2>0, <2>1, RingZero
  <2>2. CASE ins.kind[j] = "v" /\ j \in Needed(ins, s)
    <3>1. InLive(ins, j, L)
      BY <2>2 DEF LiveNeeds
    <3>2. y1[ins.arg[j]] = dot[ins.arg[j]]
      BY <2>2, <3>1, LiveOperand
    <3>3. QED
      BY <2>0, <2>2, <3>2
  <2>3. CASE ins.kind[j] = "v" /\ j \notin Needed(ins, s)
    <3>1. SlopeOf(ins, s, j) = Zero
      BY <2>3, SlopeUnneeded
    <3>2. dot[ins.arg[j]] \in Num
      BY <1>1, <2>3, ShapedArgs
    <3>3. QED
      BY <2>0, <2>3, <3>1, <3>2, RingZero
  <2>4. QED
    BY <2>1, <2>2, <2>3
<1>3. QED
  BY <1>2 DEF ChainTerms, Terms, OperandsAt

(* The coefficients y are values var, and from the derivatives u of the
   independents, where L matters. *)
LivePoint(t, y, flags, L, var, u, dot) ==
  /\ WellFormed(t) /\ y \in Coefficients(t)
  /\ FlagsJustified(t, y[0], flags)
  /\ SolvedTo(t, y, flags, 0) /\ SolvedTo(t, y, flags, 1)
  /\ L \subseteq 1 .. t.num_var_rec - 1
  /\ var \in [Address(t) -> Num] /\ LiveNeeds(t, var, L) /\ LiveSkips(t, var, L)
  /\ \A i \in Op(t) : t.last[i] \in L => y[0][t.last[i]] = var[t.last[i]]
  /\ SettledAt(t, u, TRUE, var, dot)
  /\ \A a \in 1 .. t.n : y[1][a] = u[a]

LEMMA LiveDerivatives ==
  ASSUME Ring, NEW t, NEW y, NEW flags, NEW L, NEW var, NEW u, NEW dot,
         LivePoint(t, y, flags, L, var, u, dot)
  PROVE  \A i \in Op(t) : t.last[i] \in L => y[1][t.last[i]] = dot[t.last[i]]
<1>1. /\ WellFormed(t) /\ y \in Coefficients(t) /\ SolvedTo(t, y, flags, 0)
      /\ SolvedTo(t, y, flags, 1) /\ FlagsJustified(t, y[0], flags)
      /\ L \subseteq 1 .. t.num_var_rec - 1 /\ var \in [Address(t) -> Num]
      /\ LiveNeeds(t, var, L) /\ LiveSkips(t, var, L) /\ SettledAt(t, u, TRUE, var, dot)
      /\ \A i \in Op(t) : t.last[i] \in L => y[0][t.last[i]] = var[t.last[i]]
      /\ \A a \in 1 .. t.n : y[1][a] = u[a]
  BY DEF LivePoint
<1>2. /\ y[0] \in [Address(t) -> Num] /\ y[1] \in [Address(t) -> Num]
      /\ dot \in [Address(t) -> Num]
  BY <1>1 DEF Coefficients, SettledAt
<1>3. \A a \in 1 .. t.n : y[1][a] = dot[a]
  BY <1>1 DEF SettledAt
<1>4. ASSUME NEW i \in Op(t), t.op_rec_[i].op \in Computing, t.last[i] \in L,
             SameLive(t, L, y[1], dot, i)
      PROVE  y[1][t.last[i]] = dot[t.last[i]]
  <2> PICK ins, s, d : /\ ins = InsAt(t, i) /\ s = OperandsAt(t, y[0], i)
                       /\ d = OperandsOf(t, y, InsAt(t, i), 1)
    OBVIOUS
  <2>0. SameLive(t, L, y[0], var, i)
    BY <1>1 DEF SameLive
  <2>1. ~flags[i]
    BY <1>1, <1>4, <2>0, LiveNotSkipped
  <2>2. SolvedBy(t, y, ins, 0) /\ SolvedBy(t, y, ins, 1)
    BY <1>1, <1>4, <2>1 DEF SolvedTo
  <2>3. ins.res = t.last[i] /\ Shaped(t, ins) /\ Computes(t, ins)
    BY <1>1, <1>4, ComputedAt
  <2>4. s \in [DOMAIN ins.arg -> Num] /\ d \in [DOMAIN ins.arg -> Num]
    BY <1>1, <1>2, <1>4, <2>3, OperandsAre, CoefficientsTyped DEF OperandsAt
  <2>5. s = OperandsOf(t, y, ins, 0)
    BY DEF OperandsOf, OperandsAt
  <2>6. /\ y[0][ins.res] = Order0(ins, s)
        /\ ins.op \in TwoResults => y[0][ins.res - 1] = Aux(ins.op, s)
    BY <2>2, <2>5 DEF SolvedBy, ResultOf, AuxiliaryOf
  <2>7. y[1][ins.res] = Order1(ins, s, d, y[0][ins.res], y[0][ins.res - 1])
    BY <2>2, <2>5 DEF SolvedBy, ResultOf
  <2>8. y[1][ins.res] = Total(ChainTerms(ins, s, d))
    BY <2>3, <2>4, <2>6, <2>7, ChainRule
  <2>9. \A j \in DOMAIN ins.arg :
          d[j] = IF ins.kind[j] = "v" THEN y[1][ins.arg[j]] ELSE Zero
    <3>1. SUFFICES ASSUME NEW j \in DOMAIN ins.arg
                   PROVE  d[j] = IF ins.kind[j] = "v" THEN y[1][ins.arg[j]] ELSE Zero
      OBVIOUS
    <3>2. d[j] = IF ins.kind[j] = "v" THEN y[1][ins.arg[j]]
                 ELSE [k \in DOMAIN t.par_rec_ |-> Zero][ins.arg[j] + 1]
      BY DEF OperandsOf, Operands
    <3>3. ins.kind[j] # "v" => ins.arg[j] + 1 \in DOMAIN t.par_rec_
      <4>1. t.par_rec_ \in Seq(Num)
        BY <1>1 DEF WellFormed, Vectors
      <4>2. QED
        BY <2>3, <4>1 DEF Shaped
    <3>4. QED
      BY <3>2, <3>3
  <2>10. ChainTerms(ins, s, d) = Terms(t, var, dot, i)
    BY <1>1, <1>2, <1>4, <2>0, <2>4, <2>9, LiveTerms
  <2>11. dot[t.last[i]] = Total(Terms(t, var, dot, i))
    BY <1>1, <1>4 DEF SettledAt, EntryAt, DotAt
  <2>12. QED
    BY <2>3, <2>8, <2>10, <2>11
<1>5. LiveSteps(t, L, y[1], dot) /\ WellFormed(t)
  BY <1>1, <1>3, <1>4 DEF LiveSteps
<1>6. ASSUME NEW x, LiveSteps(t, L, x, dot), WellFormed(t)
      PROVE  \A i \in Op(t) : t.last[i] \in L => x[t.last[i]] = dot[t.last[i]]
  BY <1>6, LiveInduction
<1>7. QED
  BY <1>5, <1>6

-----------------------------------------------------------------------------
(***************************************************************************)
(* The invariant of the flags: what is skipped was chosen by a conditional *)
(* skip, one the sweep has passed if it is of order zero, and coefficients *)
(* of order 0 are still such that it would be chosen.                      *)
(***************************************************************************)
FlagsInv ==
  \A k \in Op(tape) : cskip_op_[k] =>
    \E m \in Op(tape) : /\ (Forwards /\ sweep.p = 0) => m <= cursor.op_index_
                        /\ SetBy(tape, taylor_[0], k, m)

LEMMA SameSetBy ==
  ASSUME NEW t, WellFormed(t), NEW m \in Op(t), NEW k, NEW y, NEW z,
         AgreeUpTo(y, z, t.last[m]), SetBy(t, y, k, m)
  PROVE  SetBy(t, z, k, m)
<1> PICK ins : ins = InsAt(t, m)
  OBVIOUS
<1>1. \A j \in DOMAIN ins.arg : ins.kind[j] = "v" => y[ins.arg[j]] = z[ins.arg[j]]
  <2>1. SUFFICES ASSUME NEW j \in DOMAIN ins.arg, ins.kind[j] = "v"
                 PROVE  y[ins.arg[j]] = z[ins.arg[j]]
    OBVIOUS
  <2>2. PICK i \in Op(t) : i < m /\ ins.arg[j] = t.last[i]
    BY <2>1, OperandPlaced
  <2>3. /\ t.last[i] + NumRes(t.op_rec_[m].op) <= t.last[m]
        /\ t.last[i] \in Nat /\ t.last[m] \in Nat
        /\ NumRes(t.op_rec_[m].op) \in 0 .. 2
    BY <2>2, ResultsOrdered, Placed
  <2>4. t.last[i] \in 0 .. t.last[m]
    BY <2>3
  <2>5. QED
    BY <2>2, <2>4 DEF AgreeUpTo
<1>2. OperandsAt(t, y, m) = OperandsAt(t, z, m)
  BY <1>1 DEF OperandsAt, Operands
<1>3. QED
  BY <1>2 DEF SetBy

(* Flags stay as long as coefficients of order 0 do, up to the skip.       *)
LEMMA FlagsStay ==
  ASSUME WellFormed(tape), FlagsInv, tape' = tape,
         \A k \in Op(tape) : cskip_op_'[k] => cskip_op_[k],
         \A m \in Op(tape) : ((Forwards /\ sweep.p = 0) => m <= cursor.op_index_) =>
           /\ AgreeUpTo(taylor_[0], taylor_'[0], tape.last[m])
           /\ (Forwards /\ sweep.p = 0)' => m <= cursor'.op_index_
  PROVE  FlagsInv'
<1>1. SUFFICES ASSUME NEW k \in Op(tape), cskip_op_'[k]
               PROVE  \E m \in Op(tape) :
                        /\ (Forwards /\ sweep.p = 0)' => m <= cursor'.op_index_
                        /\ SetBy(tape, taylor_'[0], k, m)
  BY DEF FlagsInv
<1>2. PICK m \in Op(tape) : /\ (Forwards /\ sweep.p = 0) => m <= cursor.op_index_
                            /\ SetBy(tape, taylor_[0], k, m)
  BY <1>1 DEF FlagsInv
<1>3. /\ AgreeUpTo(taylor_[0], taylor_'[0], tape.last[m])
      /\ (Forwards /\ sweep.p = 0)' => m <= cursor'.op_index_
  BY <1>2
<1>4. SetBy(tape, taylor_'[0], k, m)
  <2> PICK y, z : y = taylor_[0] /\ z = taylor_'[0]
    OBVIOUS
  <2>1. QED
    BY <1>2, <1>3, SameSetBy
<1>5. QED
  BY <1>3, <1>4

LEMMA FlagsInit == Init => FlagsInv
  BY DEF Init, FlagsInv

(* Setting coefficients: a sweep of order zero starts without flags.       *)
LEMMA FlagsStart ==
  ASSUME TypeInv, NEW q \in 0 .. 1, NEW p \in 0 .. q, ForwardSweep(p, q), FlagsInv
  PROVE  FlagsInv'
<1>1. WellFormed(tape) /\ tape' = tape /\ sweep = None
  BY TapesAssumption DEF TypeInv, SolveInv, FlowInv, ForwardSweep
<1>2. CASE p = 0
  <2>1. cskip_op_' = [i \in Op(tape) |-> FALSE]
    BY <1>2 DEF ForwardSweep, Flags
  <2>2. QED
    BY <1>1, <2>1 DEF FlagsInv
<1>3. CASE p # 0
  <2>1. p = 1 /\ q = 1
    BY <1>3
  <2>2. cskip_op_' = cskip_op_
    BY <1>3 DEF ForwardSweep, Flags
  <2>3. PICK u : taylor_' = [k \in 0 .. 1 |->
                   [a \in Address(tape) |->
                      IF k \in p .. q /\ a \in 1 .. tape.n THEN u[k][a]
                                                           ELSE taylor_[k][a]]]
    BY DEF ForwardSweep
  <2>4. taylor_'[0] = taylor_[0]
    <3>1. taylor_[0] \in [Address(tape) -> Num]
      BY DEF TypeInv, Coefficients
    <3>2. taylor_'[0] = [a \in Address(tape) |-> taylor_[0][a]]
      BY <2>1, <2>3
    <3>3. QED
      BY <3>1, <3>2
  <2>5. ~(Forwards /\ sweep.p = 0)'
    BY <1>3 DEF ForwardSweep
  <2>6. QED
    BY <1>1, <2>2, <2>4, <2>5, FlagsStay DEF AgreeUpTo
<1>4. QED
  BY <1>2, <1>3

LEMMA FlagsForward ==
  ASSUME TypeInv, ForwardNext, FlagsInv
  PROVE  FlagsInv'
<1> DEFINE j == Ahead.op_index_
<1>1. Forwards /\ tape' = tape /\ SolveInv /\ FlowInv
  BY DEF ForwardNext, ForwardSkip, ForwardInv, ForwardCompute, ForwardCompare,
         ForwardCSkip, ForwardEnd, ForwardTo, TypeInv, SolveInv
<1>2. /\ WellFormed(tape) /\ j \in Op(tape) /\ j = cursor.op_index_ + 1
      /\ forward_csum(tape, Ahead).op_index_ = j
      /\ forward_cskip(tape, Ahead).op_index_ = j
      /\ OpAt(tape, Ahead) = tape.op_rec_[j]
      /\ cursor.op_index_ \in Op(tape)
  BY <1>1, AheadPlaced
<1>3. cursor'.op_index_ = j
  BY <1>2 DEF ForwardNext, ForwardSkip, ForwardInv, ForwardCompute, ForwardCompare,
              ForwardCSkip, ForwardEnd
<1>4. cursor.op_index_ \in Nat /\ \A m \in Op(tape) : m \in Nat
  BY <1>2, Placed DEF Op
<1> HIDE DEF j
<1>5. \A m \in Op(tape) : m <= cursor.op_index_ => m <= cursor'.op_index_
  <2>1. SUFFICES ASSUME NEW m \in Op(tape), m <= cursor.op_index_
                 PROVE  m <= cursor'.op_index_
    OBVIOUS
  <2>2. m \in Nat /\ cursor.op_index_ \in Nat /\ cursor'.op_index_ = cursor.op_index_ + 1
    BY <1>2, <1>3, <1>4
  <2>3. QED
    BY <2>1, <2>2
<1>6. CASE ForwardSkip \/ ForwardInv \/ ForwardCompare
  <2>1. taylor_' = taylor_ /\ cskip_op_' = cskip_op_ /\ sweep' = sweep
    BY <1>6 DEF ForwardSkip, ForwardInv, ForwardCompare
  <2>2. QED
    BY <1>1, <1>2, <1>5, <2>1, FlagsStay DEF AgreeUpTo, Forwards
<1>7. CASE ForwardEnd
  <2>1. taylor_' = taylor_ /\ cskip_op_' = cskip_op_ /\ ~Forwards'
    BY <1>7 DEF ForwardEnd, Forwards
  <2>2. QED
    BY <1>1, <1>2, <2>1, FlagsStay DEF AgreeUpTo
<1>8. CASE ForwardCompute
  <2>1. cskip_op_' = cskip_op_ /\ sweep' = sweep
    BY <1>8 DEF ForwardCompute
  <2>2. CASE sweep.p = 0
    <3>1. ASSUME NEW m \in Op(tape), m <= cursor.op_index_
          PROVE  AgreeUpTo(taylor_[0], taylor_'[0], tape.last[m])
      <4>1. m \in 0 .. cursor.op_index_
        BY <1>4, <3>1
      <4>2. SameUpTo(taylor_, taylor_', 0, tape.last[m])
        BY <1>1, <4>1, PassedKept
      <4>3. QED
        BY <4>2 DEF SameUpTo, AgreeUpTo
    <3>2. QED
      BY <1>1, <1>2, <1>5, <2>1, <2>2, <3>1, FlagsStay DEF Forwards
  <2>3. CASE sweep.p # 0
    <3> PICK ins : ins = Instr(tape, Ahead)
      OBVIOUS
    <3>1. sweep.q \in 0 .. 1 /\ sweep.p \in 0 .. sweep.q
      BY <1>1 DEF SolveInv
    <3>2. Ahead = At(tape, j) /\ tape.op_rec_[j].op \in Computing
      BY <1>1, <1>2, <1>8, AheadIsNext DEF ForwardCompute, ForwardTo, j
    <3>3. Computes(tape, ins)
      BY <1>2, <3>2, ComputedAt DEF InsAt
    <3>4. DOMAIN taylor_ = 0 .. 1
      BY <1>1 DEF SolveInv
    <3>5. taylor_' = WriteOrders(tape, taylor_, ins, sweep.p, sweep.q)
      BY <1>8 DEF ForwardCompute
    <3>6. 0 \in 0 .. 1 /\ 0 \notin sweep.p .. sweep.q
      BY <2>3, <3>1
    <3> PICK z, p, q : z = taylor_' /\ p = sweep.p /\ q = sweep.q
      OBVIOUS
    <3>7. taylor_'[0] = taylor_[0]
      BY <3>1, <3>3, <3>4, <3>5, <3>6, WrittenOrders
    <3>8. QED
      BY <1>1, <1>2, <1>5, <2>1, <3>7, FlagsStay DEF AgreeUpTo, Forwards
  <2>4. QED
    BY <2>2, <2>3
<1>9. CASE ForwardCSkip
  <2> PICK ins, s, skip : /\ ins = Instr(tape, Ahead)
                          /\ s = OperandsOf(tape, taylor_, ins, 0)
                          /\ skip = Chosen(ins, s)
    OBVIOUS
  <2>1. /\ taylor_' = taylor_ /\ sweep' = sweep
        /\ tape.op_rec_[j].op = "CSkip"
        /\ cskip_op_' = [i \in Op(tape) |-> cskip_op_[i] \/ (sweep.p = 0 /\ i \in skip)]
    BY <1>2, <1>9 DEF ForwardCSkip, Chosen, ForwardTo
  <2>2. ins = InsAt(tape, j) /\ s = OperandsAt(tape, taylor_[0], j)
    <3>1. Ahead = At(tape, j)
      BY <1>1, AheadIsNext DEF j
    <3>2. ins = InsAt(tape, j)
      BY <3>1 DEF InsAt
    <3>3. QED
      BY <3>2 DEF OperandsOf, OperandsAt
  <2>3. \A k \in skip : SetBy(tape, taylor_[0], k, j)
    BY <2>1, <2>2 DEF SetBy
  <2>4. SUFFICES ASSUME NEW k \in Op(tape), cskip_op_'[k]
                 PROVE  \E m \in Op(tape) :
                          /\ (Forwards /\ sweep.p = 0)' => m <= cursor'.op_index_
                          /\ SetBy(tape, taylor_'[0], k, m)
    BY <1>1 DEF FlagsInv
  <2>5. CASE cskip_op_[k]
    <3>1. PICK m \in Op(tape) : /\ (Forwards /\ sweep.p = 0) => m <= cursor.op_index_
                                /\ SetBy(tape, taylor_[0], k, m)
      BY <2>5 DEF FlagsInv
    <3>2. QED
      BY <1>1, <1>5, <2>1, <3>1
  <2>6. CASE ~cskip_op_[k]
    <3>1. k \in skip
      BY <2>1, <2>4, <2>6
    <3>2. SetBy(tape, taylor_'[0], k, j) /\ j <= cursor'.op_index_
      BY <1>2, <1>3, <1>4, <2>1, <2>3, <3>1
    <3>3. QED
      BY <1>2, <3>2
  <2>7. QED
    BY <2>5, <2>6
<1>10. QED
  BY <1>6, <1>7, <1>8, <1>9 DEF ForwardNext

LEMMA FlagsNext ==
  ASSUME TypeInv, [Next]_vars, FlagsInv
  PROVE  FlagsInv'
<1>1. WellFormed(tape) /\ tape' = tape
  BY TapesAssumption, TapeKept DEF TypeInv, SolveInv, FlowInv
<1>2. ASSUME NEW c, CompareChangeCount(c) PROVE FlagsInv'
  BY <1>1, <1>2, FlagsStay DEF CompareChangeCount, AgreeUpTo, Forwards
<1>3. ASSUME NEW q \in 0 .. 1, NEW p \in 0 .. q, ForwardSweep(p, q) PROVE FlagsInv'
  BY <1>3, FlagsStart
<1>4. ASSUME NEW w, NEW text, ReverseSweep(w, text) PROVE FlagsInv'
  <2>1. taylor_' = taylor_ /\ cskip_op_' = cskip_op_ /\ ~Forwards'
    BY <1>4 DEF ReverseSweep, Forwards
  <2>2. QED
    BY <1>1, <2>1, FlagsStay DEF AgreeUpTo
<1>5. CASE ReverseNext
  <2>1. taylor_' = taylor_ /\ cskip_op_' = cskip_op_
    BY <1>5 DEF ReverseNext, ReverseSkip, ReverseCompute, ReverseCSkip, ReversePass,
                ReverseBegin
  <2>2. ~Forwards'
    BY <1>5 DEF ReverseNext, ReverseSkip, ReverseCompute, ReverseCSkip, ReversePass,
                ReverseBegin, ReverseTo, Backwards, Forwards
  <2>3. QED
    BY <1>1, <2>1, <2>2, FlagsStay DEF AgreeUpTo
<1>6. CASE UNCHANGED vars
  BY <1>1, <1>6, FlagsStay DEF vars, AgreeUpTo, Forwards
<1>7. QED
  BY <1>2, <1>3, <1>4, <1>5, <1>6, FlagsForward DEF Next

-----------------------------------------------------------------------------
(* Forward sweeps return values and derivatives.                           *)

(* The coefficients of order k of the independent variables.               *)
PointAt(k) == [j \in 1 .. tape.n |-> taylor_[k][j]]

LEMMA PointTyped ==
  ASSUME WellFormed(tape), taylor_ \in Coefficients(tape), NEW k \in 0 .. 1
  PROVE  PointAt(k) \in [1 .. tape.n -> Num]
<1>1. \A j \in 1 .. tape.n : j \in Address(tape)
  <2>1. SUFFICES ASSUME NEW j \in 1 .. tape.n PROVE j \in Address(tape)
    OBVIOUS
  <2>2. tape.n \in Nat /\ j \in 0 .. tape.n
    BY Independents
  <2>3. j \in Op(tape) /\ tape.last[j] = j
    BY <2>2, Independents
  <2>4. QED
    BY <2>3, ResultsOrdered
<1>2. QED
  BY <1>1 DEF PointAt, Coefficients

LEMMA CoefficientsAreValues ==
  ASSUME WellFormed(tape), taylor_ \in Coefficients(tape), FlagsInv,
         SolvedTo(tape, taylor_, cskip_op_, 0),
         NEW L, L \subseteq 1 .. tape.num_var_rec - 1, Live(tape, PointAt(0), L)
  PROVE  \A i \in Op(tape) : tape.last[i] \in L =>
           taylor_[0][tape.last[i]] = ValuesAt(tape, PointAt(0))[tape.last[i]]
<1> PICK t, y, flags, u, var : /\ t = tape /\ y = taylor_ /\ flags = cskip_op_
                               /\ u = PointAt(0) /\ var = ValuesAt(tape, PointAt(0))
  OBVIOUS
<1>1. u \in [1 .. t.n -> Num]
  BY PointTyped
<1>2. SettledAt(t, u, FALSE, 0, var)
  BY <1>1, ValuesSettled DEF ValuesAt
<1>3. var \in [Address(t) -> Num]
  BY <1>2 DEF SettledAt
<1>4. LiveNeeds(t, var, L) /\ LiveSkips(t, var, L)
  BY LiveParts
<1>5. FlagsJustified(t, y[0], flags)
  BY DEF FlagsInv, FlagsJustified
<1>6. \A a \in 1 .. t.n : y[0][a] = u[a]
  BY DEF PointAt
<1>7. QED
  BY <1>2, <1>3, <1>4, <1>5, <1>6, LiveValues

LEMMA CoefficientsAreDerivatives ==
  ASSUME Ring, WellFormed(tape), taylor_ \in Coefficients(tape), FlagsInv,
         SolvedTo(tape, taylor_, cskip_op_, 0), SolvedTo(tape, taylor_, cskip_op_, 1),
         NEW L, L \subseteq 1 .. tape.num_var_rec - 1, Live(tape, PointAt(0), L)
  PROVE  \A i \in Op(tape) : tape.last[i] \in L =>
           taylor_[1][tape.last[i]]
             = DerivativeAt(tape, PointAt(0), PointAt(1))[tape.last[i]]
<1> PICK t, y, flags, u, d, var, dot :
      /\ t = tape /\ y = taylor_ /\ flags = cskip_op_
      /\ u = PointAt(0) /\ d = PointAt(1) /\ var = ValuesAt(tape, PointAt(0))
      /\ dot = DerivativeAt(tape, PointAt(0), PointAt(1))
  OBVIOUS
<1>1. u \in [1 .. t.n -> Num] /\ d \in [1 .. t.n -> Num]
  BY PointTyped
<1>2. SettledAt(t, u, FALSE, 0, var) /\ SettledAt(t, d, TRUE, var, dot)
  BY <1>1, ValuesSettled, DerivativeSettled DEF ValuesAt, DerivativeAt
<1>3. var \in [Address(t) -> Num]
  BY <1>2 DEF SettledAt
<1>4. LiveNeeds(t, var, L) /\ LiveSkips(t, var, L)
  BY LiveParts
<1>5. FlagsJustified(t, y[0], flags)
  BY DEF FlagsInv, FlagsJustified
<1>6. \A a \in 1 .. t.n : y[1][a] = d[a]
  BY DEF PointAt
<1>7. \A i \in Op(t) : t.last[i] \in L => y[0][t.last[i]] = var[t.last[i]]
  BY CoefficientsAreValues
<1>8. LivePoint(t, y, flags, L, var, d, dot)
  BY <1>2, <1>3, <1>4, <1>5, <1>6, <1>7 DEF LivePoint
<1>9. QED
  BY <1>8, LiveDerivatives

(* The dependents matter, and are results.                                 *)
LEMMA DependentsLive ==
  ASSUME NEW t, WellFormed(t), NEW u, NEW L, Live(t, u, L), NEW i \in DOMAIN t.dep_taddr_
  PROVE  \E k \in Op(t) : t.dep_taddr_[i] = t.last[k] /\ t.last[k] \in L
<1>1. t.dep_taddr_[i] \in L
  BY LiveParts
<1>2. t.dep_taddr_[i] \in {t.last[k] : k \in Op(t)}
  BY DEF WellFormed, Ordered, Op
<1>3. QED
  BY <1>1, <1>2

LEMMA DependentsAre ==
  ASSUME Ring, WellFormed(tape), SkipsHarmless(tape), taylor_ \in Coefficients(tape),
         FlagsInv, NEW k \in 0 .. 1, \A m \in 0 .. k : SolvedTo(tape, taylor_, cskip_op_, m)
  PROVE  [i \in DOMAIN tape.dep_taddr_ |-> taylor_[k][tape.dep_taddr_[i]]]
           = Abstract!Dependents(FunctionOf(tape),
               IF k = 0 THEN ValuesAt(tape, PointAt(0))
                        ELSE DerivativeAt(tape, PointAt(0), PointAt(1)))
<1> PICK y : y = IF k = 0 THEN ValuesAt(tape, PointAt(0))
                          ELSE DerivativeAt(tape, PointAt(0), PointAt(1))
  OBVIOUS
<1>1. PICK L \in SUBSET (1 .. tape.num_var_rec - 1) : Live(tape, PointAt(0), L)
  <2>1. PointAt(0) \in [1 .. tape.n -> Num]
    BY PointTyped
  <2>2. QED
    BY <2>1 DEF SkipsHarmless
<1>2. SolvedTo(tape, taylor_, cskip_op_, 0) /\ L \subseteq 1 .. tape.num_var_rec - 1
  BY <1>1
<1>3. \A i \in Op(tape) : tape.last[i] \in L => taylor_[k][tape.last[i]] = y[tape.last[i]]
  <2>1. CASE k = 0
    BY <2>1, <1>1, <1>2, CoefficientsAreValues
  <2>2. CASE k = 1
    <3>1. SolvedTo(tape, taylor_, cskip_op_, 1)
      BY <2>2
    <3>2. \A i \in Op(tape) : tape.last[i] \in L =>
             taylor_[1][tape.last[i]]
               = DerivativeAt(tape, PointAt(0), PointAt(1))[tape.last[i]]
      BY <3>1, <1>1, <1>2, CoefficientsAreDerivatives
    <3>3. y = DerivativeAt(tape, PointAt(0), PointAt(1))
      BY <2>2
    <3>4. QED
      BY <2>2, <3>2, <3>3
  <2>3. QED
    BY <2>1, <2>2
<1>4. ASSUME NEW i \in DOMAIN tape.dep_taddr_
      PROVE  taylor_[k][tape.dep_taddr_[i]] = y[tape.dep_taddr_[i]]
  <2>1. PICK m \in Op(tape) : tape.dep_taddr_[i] = tape.last[m] /\ tape.last[m] \in L
    BY <1>1, DependentsLive
  <2>2. QED
    BY <2>1, <1>3
<1>5. FunctionOf(tape).dep_taddr_ = tape.dep_taddr_
  BY DEF FunctionOf
<1>6. Abstract!Dependents(FunctionOf(tape), y) = [i \in DOMAIN tape.dep_taddr_ |-> y[tape.dep_taddr_[i]]]
  BY <1>5 DEF Abstract!Dependents
<1>7. QED
  BY <1>4, <1>6

(* At its end, a forward sweep has solved the tape.                        *)
LEMMA SolvedAtEnd ==
  ASSUME SolveInv, ForwardEnd
  PROVE  \A k \in 0 .. sweep.q : SolvedTo(tape, taylor_, cskip_op_, k)
<1> DEFINE j == Ahead.op_index_
<1>1. Forwards /\ FlowInv /\ tape.op_rec_[j].op = "End"
  BY AheadIsNext DEF SolveInv, ForwardEnd, ForwardTo
<1>2. /\ WellFormed(tape) /\ j \in Op(tape) /\ j = cursor.op_index_ + 1
      /\ cursor.op_index_ \in Op(tape)
  BY <1>1, AheadPlaced
<1>3. j = tape.num_op_rec - 1 /\ tape.num_op_rec \in Nat /\ cursor.op_index_ \in Nat
  BY <1>1, <1>2, Placed DEF Op
<1>4. \A i \in Op(tape) : i \in 0 .. cursor.op_index_ \/ i = j
  BY <1>2, <1>3 DEF Op
<1>5. sweep.q \in 0 .. 1 /\ sweep.p \in 0 .. sweep.q
  BY <1>1 DEF SolveInv
<1>6. \A k \in 0 .. sweep.q : k \in 0 .. sweep.p - 1 \/ k \in sweep.p .. sweep.q
  BY <1>5
<1> HIDE DEF j
<1>7. ASSUME NEW k \in 0 .. sweep.q, NEW i \in Op(tape) PROVE OrderSolved(i, k)
  <2>1. CASE k \in 0 .. sweep.p - 1
    BY <1>1, <2>1 DEF SolveInv
  <2>2. CASE k \in sweep.p .. sweep.q /\ i \in 0 .. cursor.op_index_
    BY <1>1, <2>2 DEF SolveInv
  <2>3. CASE i = j
    BY <1>1, <2>3, OpCodes DEF OrderSolved
  <2>4. QED
    BY <1>4, <1>6, <2>1, <2>2, <2>3
<1>8. QED
  BY <1>7 DEF OrderSolved, SolvedTo, InsAt

LEMMA EndReturns ==
  ASSUME Ring, TypeInv, SkipsHarmless(tape), FlagsInv, ForwardEnd
  PROVE  Abstract!ReturnForward
<1> DEFINE y(k) == IF k = 0 THEN ValuesAt(tape, PointAt(0))
                            ELSE DerivativeAt(tape, PointAt(0), PointAt(1))
<1>1. /\ WellFormed(tape) /\ taylor_ \in Coefficients(tape) /\ SolveInv
      /\ sweep # None /\ sweep.mode = "forward"
  BY TapesAssumption DEF TypeInv, SolveInv, FlowInv, ForwardEnd, ForwardTo, Forwards
<1>2. sweep.q \in 0 .. 1 /\ sweep.p \in 0 .. sweep.q
  BY <1>1 DEF SolveInv, Forwards
<1>3. /\ tape' = tape /\ taylor_' = taylor_ /\ sweep' = None
      /\ num_order_taylor_' = sweep.q + 1
      /\ result' = [k \in sweep.p .. sweep.q |->
           [i \in DOMAIN tape.dep_taddr_ |-> taylor_[k][tape.dep_taddr_[i]]]]
  BY DEF ForwardEnd, Orders
<1>4. ASSUME NEW k \in sweep.p .. sweep.q
      PROVE  [i \in DOMAIN tape.dep_taddr_ |-> taylor_[k][tape.dep_taddr_[i]]]
               = Abstract!Dependents(FunctionOf(tape), y(k))
  <2>1. k \in 0 .. 1 /\ \A m \in 0 .. k : m \in 0 .. sweep.q
    BY <1>2
  <2>2. \A m \in 0 .. k : SolvedTo(tape, taylor_, cskip_op_, m)
    BY <1>1, <2>1, SolvedAtEnd
  <2>3. QED
    BY <1>1, <2>1, <2>2, DependentsAre
<1>5. ~Backwards /\ ~Backwards'
  BY <1>1, <1>3 DEF Backwards
<1>6. result' = [k \in sweep.p .. sweep.q |->
         Abstract!Dependents(FunctionOf(tape), y(k))]
  BY <1>3, <1>4
<1>7. /\ [k \in 0 .. 1 |-> [j \in 1 .. tape.n |-> taylor_[k][j]]][0] = PointAt(0)
      /\ [k \in 0 .. 1 |-> [j \in 1 .. tape.n |-> taylor_[k][j]]][1] = PointAt(1)
  BY DEF PointAt
<1> HIDE DEF PointAt
<1>8. result' = [k \in sweep.p .. sweep.q |->
         Abstract!Dependents(FunctionOf(tape),
           IF k = 0 THEN Abstract!Values(FunctionOf(tape), PointAt(0))
                    ELSE Abstract!Derivative(FunctionOf(tape), PointAt(0), PointAt(1)))]
  BY <1>6 DEF ValuesAt, DerivativeAt
<1>9. QED
  BY <1>1, <1>3, <1>5, <1>7, <1>8 DEF Abstract!ReturnForward, FunctionOf

-----------------------------------------------------------------------------
(* Sums over partials.                                                     *)

(* The partials of the variables in S, times their derivatives dot.        *)
Products(t, part, S, dot) ==
  [a \in 1 .. t.num_var_rec - 1 |-> IF a \in S THEN part[a] ** dot[a] ELSE Zero]

LEMMA ProductsTyped ==
  ASSUME NEW t, NEW S, NEW part \in [Address(t) -> Num], NEW dot \in [Address(t) -> Num]
  PROVE  Products(t, part, S, dot) \in [1 .. t.num_var_rec - 1 -> Num]
<1>1. \A a \in 1 .. t.num_var_rec - 1 : a \in Address(t)
  BY DEF Address
<1>2. \A a \in 1 .. t.num_var_rec - 1 : part[a] ** dot[a] \in Num
  BY <1>1, Closed
<1>3. QED
  BY <1>2, Closed DEF Products

(* Adding to one partial adds to the sum.                                  *)
LEMMA ProductAdded ==
  ASSUME Ring, NEW t, t.num_var_rec \in Nat, NEW S, NEW part \in [Address(t) -> Num],
         NEW dot \in [Address(t) -> Num], NEW b \in S, b \in 1 .. t.num_var_rec - 1,
         NEW m \in Num
  PROVE  Total(Products(t, AddedTo(part, b, m), S, dot))
           = Total(Products(t, part, S, dot)) ++ (m ** dot[b])
<1> DEFINE n == t.num_var_rec - 1
<1>1. b \in Address(t)
  BY DEF Address
<1>2. AddedTo(part, b, m) \in [Address(t) -> Num]
  BY <1>1, AddedTyped
<1>3. PICK s \in [1 .. n -> Num] : s = Products(t, part, S, dot)
  BY ProductsTyped
<1>4. PICK q \in [1 .. n -> Num] : q = Products(t, AddedTo(part, b, m), S, dot)
  BY <1>2, ProductsTyped
<1>5. n \in Nat
  OBVIOUS
<1>6. dot[b] \in Num /\ part[b] \in Num /\ m ** dot[b] \in Num
  BY <1>1, Closed
<1>7. \A k \in 1 .. n : k # b => q[k] = s[k]
  BY <1>1, <1>3, <1>4 DEF Products, AddedTo
<1>8. q[b] = s[b] ++ (m ** dot[b])
  <2>1. q[b] = (part[b] ++ m) ** dot[b] /\ s[b] = part[b] ** dot[b]
    BY <1>1, <1>3, <1>4 DEF Products, AddedTo
  <2>2. QED
    BY <1>6, <2>1, RingMonoids
<1> HIDE DEF n
<1>9. b \in 1 .. n
  BY DEF n
<1>10. Total(q) = Total(s) ++ (m ** dot[b])
  BY <1>5, <1>6, <1>7, <1>8, <1>9, TotalChange
<1>11. QED
  BY <1>3, <1>4, <1>10

(* What an instruction adds.                                               *)
AddedTerms(ins, add, dot, n) ==
  [j \in 1 .. n |-> IF ins.kind[j] = "v" THEN add[j] ** dot[ins.arg[j]] ELSE Zero]

(* The operands of ins that are variables are in S.                        *)
ArgsIn(t, ins, n, S) ==
  \A j \in 1 .. n : ins.kind[j] = "v" => ins.arg[j] \in S \cap (1 .. t.num_var_rec - 1)

LEMMA PropagatedTotal ==
  ASSUME Ring, NEW t, t.num_var_rec \in Nat, NEW ins, NEW n \in Nat, NEW S,
         ArgsIn(t, ins, n, S), NEW add \in [1 .. n -> Num],
         NEW part \in [Address(t) -> Num], NEW dot \in [Address(t) -> Num],
         NEW g, Propagates(t, ins, add, part, n, g)
  PROVE  Total(Products(t, g[n], S, dot))
           = Total(Products(t, part, S, dot)) ++ Total(AddedTerms(ins, add, dot, n))
<1> DEFINE N == t.num_var_rec - 1
           T(k) == Total(Products(t, g[k], S, dot))
<1>1. PICK e \in [1 .. n -> Num] : e = AddedTerms(ins, add, dot, n)
  <2>1. \A j \in 1 .. n : ins.kind[j] = "v" => add[j] \in Num /\ dot[ins.arg[j]] \in Num
    BY DEF ArgsIn, Address
  <2>2. QED
    BY <2>1, Closed DEF AddedTerms
<1>2. PICK h : Sums(n, Zero, e, h) /\ Total(e) = h[n]
  BY TotalSums
<1>3. \A k \in 0 .. n : T(k) \in Num
  <2>1. SUFFICES ASSUME NEW k \in 0 .. n PROVE T(k) \in Num
    OBVIOUS
  <2>2. g[k] \in [Address(t) -> Num]
    BY DEF Propagates
  <2>3. Products(t, g[k], S, dot) \in [1 .. N -> Num]
    BY <2>2, ProductsTyped
  <2>0. N \in Nat \/ N = -1
    OBVIOUS
  <2>4. CASE N \in Nat
    BY <2>3, <2>4, TotalTyped
  <2>5. CASE N = -1
    <3>1. 1 .. N = 1 .. 0
      BY <2>5
    <3>2. QED
      BY <2>3, <3>1, TotalTyped
  <2>6. QED
    BY <2>0, <2>4, <2>5
<1>4. ASSUME NEW k \in 1 .. n PROVE T(k) = T(k - 1) ++ e[k]
  <2>1. k - 1 \in 0 .. n
    OBVIOUS
  <2>2. g[k] = AddedBy(ins, add, g[k - 1], k) /\ g[k - 1] \in [Address(t) -> Num]
    BY <2>1 DEF Propagates
  <2>3. CASE ins.kind[k] = "v"
    <3>1. g[k] = AddedTo(g[k - 1], ins.arg[k], add[k])
      BY <2>2, <2>3 DEF AddedBy
    <3>2. ins.arg[k] \in S /\ ins.arg[k] \in 1 .. t.num_var_rec - 1 /\ add[k] \in Num
      BY <2>3 DEF ArgsIn
    <3>3. e[k] = add[k] ** dot[ins.arg[k]]
      BY <1>1, <2>3 DEF AddedTerms
    <3>4. QED
      BY <2>2, <3>1, <3>2, <3>3, ProductAdded
  <2>4. CASE ins.kind[k] # "v"
    <3>1. g[k] = g[k - 1] /\ e[k] = Zero
      BY <1>1, <2>2, <2>4 DEF AddedBy, AddedTerms
    <3>2. T(k - 1) \in Num
      BY <1>3, <2>1
    <3>3. QED
      BY <3>1, <3>2, RingMonoids
  <2>5. QED
    BY <2>3, <2>4
<1> DEFINE D == {k \in 0 .. n : T(k) = T(0) ++ h[k]}
<1>5. 0 \in D
  <2>1. T(0) \in Num /\ h[0] = Zero
    BY <1>2, <1>3 DEF Sums
  <2>2. T(0) ++ Zero = T(0)
    BY <2>1, RingMonoids
  <2>3. QED
    BY <2>1, <2>2
<1>6. ASSUME NEW k \in 1 .. n, k - 1 \in D PROVE k \in D
  <2>1. T(k - 1) = T(0) ++ h[k - 1] /\ T(k) = T(k - 1) ++ e[k]
    BY <1>4, <1>6
  <2>2. h[k] = h[k - 1] ++ e[k] /\ h[k - 1] \in Num /\ e[k] \in Num
    BY <1>2 DEF Sums
  <2>3. T(0) \in Num
    BY <1>3
  <2> HIDE DEF T
  <2>4. T(k) = T(0) ++ h[k]
    BY <2>1, <2>2, <2>3, RingMonoids
  <2>5. QED
    BY <2>4
<1> HIDE DEF D
<1>7. n \in D
  <2>1. \A k \in 1 .. n : k - 1 \in D => k \in D
    BY <1>6
  <2>2. \A k \in 0 .. n : k \in D
    BY <1>5, <2>1, UpTo
  <2>3. QED
    BY <2>2
<1>8. T(n) = T(0) ++ h[n] /\ g[0] = part
  BY <1>7 DEF D, Propagates
<1>9. QED
  BY <1>1, <1>2, <1>8

(* Which partials are not zero.                                            *)
LEMMA PropagatedSupport ==
  ASSUME Ring, NEW t, NEW ins, NEW n \in Nat, ArgsOn(t, ins, n),
         NEW add \in [1 .. n -> Num], NEW part \in [Address(t) -> Num],
         NEW g, Propagates(t, ins, add, part, n, g),
         NEW W, \A a \in Address(t) : part[a] # Zero => a \in W,
         \A j \in 1 .. n : (ins.kind[j] = "v" /\ add[j] # Zero) => ins.arg[j] \in W
  PROVE  \A a \in Address(t) : g[n][a] # Zero => a \in W
<1> DEFINE D == {k \in 0 .. n : \A a \in Address(t) : g[k][a] # Zero => a \in W}
<1>1. 0 \in D
  BY DEF Propagates
<1>2. ASSUME NEW k \in 1 .. n, k - 1 \in D PROVE k \in D
  <2>1. SUFFICES ASSUME NEW a \in Address(t), g[k][a] # Zero PROVE a \in W
    OBVIOUS
  <2>2. g[k] = AddedBy(ins, add, g[k - 1], k) /\ g[k - 1] \in [Address(t) -> Num]
    BY DEF Propagates
  <2>3. g[k - 1][a] # Zero => a \in W
    BY <1>2
  <2>4. CASE ins.kind[k] = "v" /\ a = ins.arg[k]
    <3>1. g[k][a] = g[k - 1][a] ++ add[k]
      BY <2>2, <2>4 DEF AddedBy, AddedTo
    <3>2. Zero ++ Zero = Zero
      BY RingMonoids, Closed
    <3>3. g[k - 1][a] # Zero \/ add[k] # Zero
      BY <2>1, <3>1, <3>2
    <3>4. QED
      BY <2>3, <2>4, <3>3
  <2>5. CASE ~(ins.kind[k] = "v" /\ a = ins.arg[k])
    <3>1. g[k][a] = g[k - 1][a]
      BY <2>2, <2>5 DEF AddedBy, AddedTo
    <3>2. QED
      BY <2>1, <2>3, <3>1
  <2>6. QED
    BY <2>4, <2>5
<1> HIDE DEF D
<1>3. n \in D
  <2>1. \A k \in 1 .. n : k - 1 \in D => k \in D
    BY <1>2
  <2>2. \A k \in 0 .. n : k \in D
    BY <1>1, <2>1, UpTo
  <2>3. QED
    BY <2>2
<1>4. QED
  BY <1>3 DEF D

-----------------------------------------------------------------------------
(* Where a reverse sweep starts.                                           *)

(* The weights, as what an instruction with the dependents as operands     *)
(* adds.                                                                   *)
DependentOperands(t) ==
  [arg |-> t.dep_taddr_, kind |-> [i \in DOMAIN t.dep_taddr_ |-> "v"]]

LEMMA DependentsPlaced ==
  ASSUME NEW t, WellFormed(t)
  PROVE  /\ Len(t.dep_taddr_) \in Nat /\ DOMAIN t.dep_taddr_ = 1 .. Len(t.dep_taddr_)
         /\ t.num_var_rec \in Nat
         /\ \A i \in DOMAIN t.dep_taddr_ : /\ t.dep_taddr_[i] \in 1 .. t.num_var_rec - 1
                                           /\ t.dep_taddr_[i] \in Address(t)
<1>1. t.dep_taddr_ \in Seq(1 .. t.num_var_rec - 1) /\ t.num_var_rec \in Nat
  BY DEF WellFormed, Vectors
<1>2. QED
  BY <1>1 DEF Address

LEMMA WeighsPropagates ==
  ASSUME NEW w, NEW n, n = Len(tape.dep_taddr_), WellFormed(tape), NEW g, Weighs(w, n, g)
  PROVE  Propagates(tape, DependentOperands(tape), w, [a \in Address(tape) |-> Zero], n, g)
<1>1. \A k \in 1 .. n : g[k] = AddedTo(g[k - 1], tape.dep_taddr_[k], w[k])
  BY DEF Weighs
<1>2. \A k \in 1 .. n : DependentOperands(tape).kind[k] = "v"
  BY DependentsPlaced DEF DependentOperands
<1>3. DependentOperands(tape).arg = tape.dep_taddr_
  BY DEF DependentOperands
<1>4. QED
  BY <1>1, <1>2, <1>3 DEF Weighs, Propagates, AddedBy

LEMMA WeightedTotal ==
  ASSUME Ring, WellFormed(tape), NEW w \in [DOMAIN tape.dep_taddr_ -> Num],
         NEW dot \in [Address(tape) -> Num], NEW S,
         \A i \in DOMAIN tape.dep_taddr_ : tape.dep_taddr_[i] \in S
  PROVE  Total(Products(tape, Weighted(w), S, dot))
           = Total([i \in DOMAIN w |-> w[i] ** dot[tape.dep_taddr_[i]]])
<1> PICK n, ins, part : /\ n = Len(tape.dep_taddr_) /\ ins = DependentOperands(tape)
                        /\ part = [a \in Address(tape) |-> Zero]
  OBVIOUS
<1>1. n \in Nat /\ tape.num_var_rec \in Nat /\ DOMAIN tape.dep_taddr_ = 1 .. n
  BY DependentsPlaced
<1>2. PICK g : Weighs(w, n, g) /\ Weighted(w) = g[n]
  BY WeightedFold
<1>3. Propagates(tape, ins, w, part, n, g)
  BY <1>2, WeighsPropagates
<1>4. ins.arg = tape.dep_taddr_ /\ \A j \in 1 .. n : ins.kind[j] = "v"
  BY <1>1 DEF DependentOperands
<1>5. ArgsIn(tape, ins, n, S)
  BY <1>1, <1>4, DependentsPlaced DEF ArgsIn
<1>6. part \in [Address(tape) -> Num] /\ w \in [1 .. n -> Num]
  BY <1>1, Closed
<1>7. Total(Products(tape, g[n], S, dot))
        = Total(Products(tape, part, S, dot)) ++ Total(AddedTerms(ins, w, dot, n))
  BY <1>1, <1>3, <1>5, <1>6, PropagatedTotal
<1>8. AddedTerms(ins, w, dot, n) = [i \in DOMAIN w |-> w[i] ** dot[tape.dep_taddr_[i]]]
  BY <1>4, <1>6 DEF AddedTerms
<1>9. Total(Products(tape, part, S, dot)) = Zero
  <2>1. PICK N : N = tape.num_var_rec - 1
    OBVIOUS
  <2>2. Products(tape, part, S, dot) \in [1 .. N -> Num]
    BY <1>6, <2>1, ProductsTyped
  <2>3. \A a \in 1 .. N : Products(tape, part, S, dot)[a] = Zero
    <3>1. \A a \in 1 .. N : part[a] = Zero /\ dot[a] \in Num
      BY <2>1 DEF Address
    <3>2. QED
      BY <2>1, <3>1, RingZero DEF Products
  <2>4. \E m \in Nat : 1 .. N = 1 .. m
    <3>1. N \in Nat \/ 1 .. N = 1 .. 0
      BY <1>1, <2>1
    <3>2. QED
      BY <3>1
  <2>5. QED
    BY <2>2, <2>3, <2>4, TotalZero
<1>10. Total(AddedTerms(ins, w, dot, n)) \in Num
  <2>1. \A j \in 1 .. n : w[j] \in Num /\ dot[tape.dep_taddr_[j]] \in Num
    BY <1>1, <1>6, DependentsPlaced
  <2>2. AddedTerms(ins, w, dot, n) \in [1 .. n -> Num]
    BY <1>4, <2>1, Closed DEF AddedTerms
  <2>3. QED
    BY <1>1, <2>2, TotalTyped
<1>11. Zero ++ Total(AddedTerms(ins, w, dot, n)) = Total(AddedTerms(ins, w, dot, n))
  BY <1>10, RingMonoids
<1>12. QED
  BY <1>2, <1>7, <1>8, <1>9, <1>11

LEMMA WeightedSupport ==
  ASSUME Ring, WellFormed(tape), NEW w \in [DOMAIN tape.dep_taddr_ -> Num], NEW W,
         \A i \in DOMAIN tape.dep_taddr_ : tape.dep_taddr_[i] \in W
  PROVE  \A a \in Address(tape) : Weighted(w)[a] # Zero => a \in W
<1> PICK n, ins, part : /\ n = Len(tape.dep_taddr_) /\ ins = DependentOperands(tape)
                        /\ part = [a \in Address(tape) |-> Zero]
  OBVIOUS
<1>1. n \in Nat /\ DOMAIN tape.dep_taddr_ = 1 .. n
  BY DependentsPlaced
<1>2. PICK g : Weighs(w, n, g) /\ Weighted(w) = g[n]
  BY WeightedFold
<1>3. Propagates(tape, ins, w, part, n, g)
  BY <1>2, WeighsPropagates
<1>4. ins.arg = tape.dep_taddr_
  BY DEF DependentOperands
<1>5. ArgsOn(tape, ins, n)
  BY <1>1, <1>4, DependentsPlaced DEF ArgsOn
<1>6. part \in [Address(tape) -> Num] /\ w \in [1 .. n -> Num]
  BY <1>1, Closed
<1>7. \A a \in Address(tape) : part[a] # Zero => a \in W
  OBVIOUS
<1>8. \A j \in 1 .. n : (ins.kind[j] = "v" /\ w[j] # Zero) => ins.arg[j] \in W
  BY <1>1, <1>4
<1>9. \A a \in Address(tape) : g[n][a] # Zero => a \in W
  BY <1>1, <1>3, <1>5, <1>6, <1>7, <1>8, PropagatedSupport
<1>10. QED
  BY <1>2, <1>9

(* The gradient, by the derivatives along the unit vectors.                *)
UnitAt(j) == Abstract!Unit(FunctionOf(tape), j)

LEMMA UnitTyped ==
  ASSUME NEW j
  PROVE  /\ UnitAt(j) \in [1 .. tape.n -> Num]
         /\ \A k \in 1 .. tape.n : UnitAt(j)[k] = IF k = j THEN One ELSE Zero
BY Closed DEF UnitAt, FunctionOf, Abstract!Unit

SlopesAt(u, j) == DerivativeAt(tape, u, UnitAt(j))

LEMMA SlopesSettled ==
  ASSUME WellFormed(tape), NEW u \in [1 .. tape.n -> Num], NEW j
  PROVE  /\ ValuesAt(tape, u) \in [Address(tape) -> Num]
         /\ SlopesAt(u, j) \in [Address(tape) -> Num]
         /\ SettledAt(tape, UnitAt(j), TRUE, ValuesAt(tape, u), SlopesAt(u, j))
<1>1. SettledAt(tape, UnitAt(j), TRUE, ValuesAt(tape, u), SlopesAt(u, j))
  BY UnitTyped, DerivativeSettled DEF ValuesAt, DerivativeAt, SlopesAt
<1>2. SettledAt(tape, u, FALSE, 0, ValuesAt(tape, u))
  BY ValuesSettled DEF ValuesAt
<1>3. QED
  BY <1>1, <1>2 DEF SettledAt

GradientAt(u, w) == Abstract!Gradient(FunctionOf(tape), u, w)

LEMMA GradientIs ==
  ASSUME NEW u, NEW w, DOMAIN w = DOMAIN tape.dep_taddr_
  PROVE  /\ DOMAIN GradientAt(u, w) = 1 .. tape.n
         /\ GradientAt(u, w) = [j \in 1 .. tape.n |-> GradientAt(u, w)[j]]
         /\ \A j \in 1 .. tape.n :
              GradientAt(u, w)[j]
                = Total([i \in DOMAIN w |-> w[i] ** SlopesAt(u, j)[tape.dep_taddr_[i]]])
<1>1. FunctionOf(tape).n = tape.n /\ FunctionOf(tape).dep_taddr_ = tape.dep_taddr_
  BY DEF FunctionOf
<1>2. GradientAt(u, w) = [j \in 1 .. tape.n |->
        Abstract!Total([i \in DOMAIN w |->
          Abstract!**(w[i], Abstract!Dependents(FunctionOf(tape),
            Abstract!Derivative(FunctionOf(tape), u, Abstract!Unit(FunctionOf(tape), j)))[i])])]
  BY <1>1 DEF GradientAt, Abstract!Gradient
<1>3. ASSUME NEW j \in 1 .. tape.n
      PROVE  GradientAt(u, w)[j]
               = Total([i \in DOMAIN w |-> w[i] ** SlopesAt(u, j)[tape.dep_taddr_[i]]])
  <2>1. \A i \in DOMAIN w :
          Abstract!Dependents(FunctionOf(tape),
            Abstract!Derivative(FunctionOf(tape), u, Abstract!Unit(FunctionOf(tape), j)))[i]
              = SlopesAt(u, j)[tape.dep_taddr_[i]]
    BY <1>1 DEF Abstract!Dependents, SlopesAt, DerivativeAt, UnitAt
  <2>2. [i \in DOMAIN w |->
          Abstract!**(w[i], Abstract!Dependents(FunctionOf(tape),
            Abstract!Derivative(FunctionOf(tape), u, Abstract!Unit(FunctionOf(tape), j)))[i])]
        = [i \in DOMAIN w |-> w[i] ** SlopesAt(u, j)[tape.dep_taddr_[i]]]
    BY <2>1, SameOperators
  <2>3. QED
    BY <1>2, <2>2, SameOperators
<1>4. QED
  BY <1>2, <1>3

-----------------------------------------------------------------------------
(* A reverse sweep that has come to operator i has the variables before    *)
(* it, and the independents, left.                                         *)
Rest(t, i) == {a \in 1 .. t.num_var_rec - 1 : a <= t.n \/ a <= t.last[i - 1]}

(* Partials that are not zero are of results that matter, and not of       *)
(* auxiliary variables.                                                    *)
Supported(t, part, L) ==
  \A a \in Address(t) : part[a] # Zero => a \in L \cap {t.last[m] : m \in Op(t)}

LEMMA AuxiliaryZero ==
  ASSUME NEW t, WellFormed(t), NEW part, NEW L, Supported(t, part, L),
         NEW k \in Op(t), t.op_rec_[k].op \in Computing, NumRes(t.op_rec_[k].op) = 2
  PROVE  t.last[k] - 1 \in Address(t) /\ part[t.last[k] - 1] = Zero
<1>1. /\ t.last[k] \in Address(t) /\ t.last[k] \in Nat /\ t.num_var_rec \in Nat
      /\ t.last[k] - 2 \in Nat
  <2>1. Computes(t, InsAt(t, k)) /\ InsAt(t, k).res = t.last[k]
        /\ NumRes(InsAt(t, k).op) = 2
    BY ComputedAt
  <2>2. QED
    BY <2>1 DEF Computes
<1>2. t.last[k] - 1 \in Address(t)
  BY <1>1 DEF Address
<1>3. ASSUME NEW m \in Op(t), t.last[m] = t.last[k] - 1 PROVE FALSE
  <2>1. m \in Nat /\ k \in Nat /\ t.last[m] \in Nat
    BY Placed DEF Op
  <2>2. CASE m < k
    <3>1. t.last[m] + 2 <= t.last[k]
      BY <2>2, ResultsOrdered
    <3>2. QED
      BY <1>1, <1>3, <2>1, <3>1
  <2>3. CASE k < m
    <3>1. t.last[k] + NumRes(t.op_rec_[m].op) <= t.last[m]
      BY <2>3, ResultsOrdered
    <3>2. NumRes(t.op_rec_[m].op) \in 0 .. 2
      BY Placed
    <3>3. QED
      BY <1>1, <1>3, <2>1, <3>1, <3>2
  <2>4. CASE k = m
    BY <1>1, <1>3, <2>4
  <2>5. QED
    BY <2>1, <2>2, <2>3, <2>4
<1>4. QED
  BY <1>2, <1>3 DEF Supported

(* Passing an operator that computes takes its result from the rest.       *)
LEMMA RestComputed ==
  ASSUME Ring, NEW t, WellFormed(t), NEW L, NEW part \in [Address(t) -> Num],
         Supported(t, part, L), NEW dot \in [Address(t) -> Num],
         NEW k \in Op(t), k + 1 \in Op(t), t.op_rec_[k].op \in Computing
  PROVE  /\ Total(Products(t, part, Rest(t, k), dot)) \in Num
         /\ Total(Products(t, part, Rest(t, k + 1), dot))
              = Total(Products(t, part, Rest(t, k), dot)) ++ (part[t.last[k]] ** dot[t.last[k]])
<1> PICK n, r : n = t.num_var_rec - 1 /\ r = t.last[k]
  OBVIOUS
<1>1. /\ t.n \in Nat /\ r > t.n /\ r - NumRes(t.op_rec_[k].op) >= t.n
      /\ k > t.n /\ r \in Nat /\ k \in Nat /\ t.num_var_rec \in Nat
  BY Independents, Placed DEF Op
<1>2. r \in Address(t) /\ r \in 1 .. n /\ n \in Nat
  BY <1>1, ResultsOrdered DEF Address
<1>3. k - 1 \in Op(t) /\ t.last[k - 1] \in Nat
  <2>1. k - 1 \in Op(t)
    BY <1>1, Placed DEF Op
  <2>2. QED
    BY <2>1, Placed
<1>4. r = t.last[k - 1] + NumRes(t.op_rec_[k].op)
  <2>1. (k - 1) + 1 = k
    BY <1>1
  <2>2. QED
    BY <1>3, <2>1, NextPlaced
<1>5. NumRes(t.op_rec_[k].op) \in {1, 2}
  BY ComputedAt DEF Computes
<1>6. \A a \in 1 .. n : a # r =>
        \/ a \in Rest(t, k) <=> a \in Rest(t, k + 1)
        \/ a = r - 1 /\ NumRes(t.op_rec_[k].op) = 2 /\ a \notin Rest(t, k)
  <2>1. SUFFICES ASSUME NEW a \in 1 .. n, a # r,
                        ~(a \in Rest(t, k) <=> a \in Rest(t, k + 1))
                 PROVE  a = r - 1 /\ NumRes(t.op_rec_[k].op) = 2 /\ a \notin Rest(t, k)
    OBVIOUS
  <2>2. (k + 1) - 1 = k
    BY <1>1
  <2>3. /\ a \in Rest(t, k + 1) <=> a <= t.n \/ a <= r
        /\ a \in Rest(t, k) <=> a <= t.n \/ a <= t.last[k - 1]
    BY <2>2 DEF Rest
  <2>4. a > t.last[k - 1] /\ a < r /\ a \notin Rest(t, k)
    BY <1>1, <1>2, <1>3, <1>4, <1>5, <2>1, <2>3
  <2>5. QED
    BY <1>1, <1>2, <1>3, <1>4, <1>5, <2>4
<1>7. r \notin Rest(t, k) /\ r \in Rest(t, k + 1)
  <2>1. (k + 1) - 1 = k
    BY <1>1
  <2>2. ~(r <= t.n) /\ ~(r <= t.last[k - 1]) /\ r <= r
    BY <1>1, <1>3, <1>4, <1>5
  <2>3. r \in 1 .. t.num_var_rec - 1 /\ t.last[(k + 1) - 1] = r
    BY <1>2, <2>1
  <2>4. QED
    BY <2>2, <2>3 DEF Rest
<1>8. PICK q \in [1 .. n -> Num] : q = Products(t, part, Rest(t, k + 1), dot)
  BY ProductsTyped
<1>9. PICK s \in [1 .. n -> Num] : s = Products(t, part, Rest(t, k), dot)
  BY ProductsTyped
<1>10. part[r] \in Num /\ dot[r] \in Num /\ part[r] ** dot[r] \in Num
  BY <1>2, Closed
<1>11. q[r] = part[r] ** dot[r] /\ s[r] = Zero
  BY <1>2, <1>7, <1>8, <1>9 DEF Products
<1>12. q[r] = s[r] ++ (part[r] ** dot[r])
  BY <1>10, <1>11, RingMonoids
<1>13. \A a \in 1 .. n : a # r => q[a] = s[a]
  <2>1. SUFFICES ASSUME NEW a \in 1 .. n, a # r PROVE q[a] = s[a]
    OBVIOUS
  <2>2. CASE a \in Rest(t, k) <=> a \in Rest(t, k + 1)
    BY <1>8, <1>9, <2>2 DEF Products
  <2>3. CASE a = r - 1 /\ NumRes(t.op_rec_[k].op) = 2 /\ a \notin Rest(t, k)
    <3>1. part[a] = Zero /\ a \in Address(t)
      BY <2>3, AuxiliaryZero
    <3>2. part[a] ** dot[a] = Zero
      BY <3>1, RingZero
    <3>3. QED
      BY <1>8, <1>9, <2>3, <3>2 DEF Products
  <2>4. QED
    BY <1>6, <2>1, <2>2, <2>3
<1>14. Total(q) = Total(s) ++ (part[r] ** dot[r])
  BY <1>2, <1>10, <1>12, <1>13, TotalChange
<1>15. Total(s) \in Num
  BY <1>2, TotalTyped
<1>16. QED
  BY <1>8, <1>9, <1>14, <1>15

(* Passing one that computes nothing changes nothing.                      *)
LEMMA RestPassed ==
  ASSUME NEW t, WellFormed(t), NEW k \in Op(t), k # 0, t.op_rec_[k].op \notin Computing
  PROVE  Rest(t, k + 1) = Rest(t, k)
<1>1. k \in Nat /\ t.n \in Nat /\ (k + 1) - 1 = k
  BY Independents DEF Op, WellFormed, Vectors
<1>2. CASE k > t.n
  <2>1. t.last[k] = t.last[k - 1]
    BY <1>2, NoResult
  <2>2. QED
    BY <1>1, <2>1 DEF Rest
<1>3. CASE k <= t.n
  <2>1. k \in 0 .. t.n /\ k - 1 \in 0 .. t.n
    BY <1>1, <1>3
  <2>2. t.last[k] = k /\ t.last[k - 1] = k - 1
    BY <2>1, Independents
  <2>3. \A a \in 1 .. t.num_var_rec - 1 :
          (a <= t.n \/ a <= t.last[k]) <=> (a <= t.n \/ a <= t.last[k - 1])
    BY <1>1, <2>1, <2>2
  <2>4. QED
    BY <1>1, <2>3 DEF Rest
<1>4. QED
  BY <1>1, <1>2, <1>3

-----------------------------------------------------------------------------
(* What reverse adds at operator k, where the partials are part: those of  *)
(* the result times the slopes of the operator at the values there are.    *)
LivePartials(part, L) ==
  /\ WellFormed(tape) /\ taylor_ \in Coefficients(tape) /\ FlagsInv
  /\ SolvedTo(tape, taylor_, cskip_op_, 0)
  /\ L \subseteq 1 .. tape.num_var_rec - 1 /\ Live(tape, PointAt(0), L)
  /\ part \in [Address(tape) -> Num] /\ Supported(tape, part, L)

LEMMA ValuesLive ==
  ASSUME NEW part, NEW L, LivePartials(part, L)
  PROVE  /\ ValuesAt(tape, PointAt(0)) \in [Address(tape) -> Num]
         /\ LiveNeeds(tape, ValuesAt(tape, PointAt(0)), L)
         /\ LiveSkips(tape, ValuesAt(tape, PointAt(0)), L)
         /\ \A k \in Op(tape) :
              SameLive(tape, L, taylor_[0], ValuesAt(tape, PointAt(0)), k)
<1>1. \A i \in Op(tape) : tape.last[i] \in L =>
        taylor_[0][tape.last[i]] = ValuesAt(tape, PointAt(0))[tape.last[i]]
  BY CoefficientsAreValues DEF LivePartials
<1>2. PointAt(0) \in [1 .. tape.n -> Num]
  BY PointTyped DEF LivePartials
<1>3. ValuesAt(tape, PointAt(0)) \in [Address(tape) -> Num]
  BY <1>2, ValuesSettled DEF LivePartials, SettledAt, ValuesAt
<1>4. QED
  BY <1>1, <1>3, LiveParts DEF LivePartials, SameLive

LEMMA AdjointsAre ==
  ASSUME Ring, NEW part, NEW L, LivePartials(part, L),
         NEW k \in Op(tape), tape.op_rec_[k].op \in Computing, ~cskip_op_[k],
         NEW n \in Nat, DOMAIN InsAt(tape, k).arg = 1 .. n,
         NEW s, s = OperandsAt(tape, taylor_[0], k)
  PROVE  /\ AdjointAt(part, InsAt(tape, k)) \in [1 .. n -> Num]
         /\ \A j \in 1 .. n : InsAt(tape, k).kind[j] = "v" =>
              AdjointAt(part, InsAt(tape, k))[j]
                = part[tape.last[k]] ** SlopeOf(InsAt(tape, k), s, j)
<1> PICK ins, y : ins = InsAt(tape, k) /\ y = taylor_
  OBVIOUS
<1>1. /\ WellFormed(tape) /\ taylor_ \in Coefficients(tape)
      /\ SolvedTo(tape, taylor_, cskip_op_, 0)
      /\ part \in [Address(tape) -> Num] /\ Supported(tape, part, L)
  BY DEF LivePartials
<1>2. /\ ins.res = tape.last[k] /\ Shaped(tape, ins) /\ Computes(tape, ins)
      /\ NumRes(ins.op) = NumRes(tape.op_rec_[k].op)
  BY <1>1, ComputedAt
<1>3. y[0] \in [Address(tape) -> Num]
  BY <1>1 DEF Coefficients
<1>4. s \in [DOMAIN ins.arg -> Num] /\ s = OperandsOf(tape, y, ins, 0)
  BY <1>1, <1>3, OperandsAre DEF OperandsAt, OperandsOf
<1>5. SolvedBy(tape, y, ins, 0)
  BY <1>1 DEF SolvedTo
<1>6. /\ y[0][ins.res] = Order0(ins, s)
      /\ ins.op \in TwoResults => y[0][ins.res - 1] = Aux(ins.op, s)
  BY <1>4, <1>5 DEF SolvedBy, ResultOf, AuxiliaryOf
<1>7. part[ins.res] \in Num /\ y[0][ins.res] \in Num
  BY <1>1, <1>2, <1>3 DEF Computes
<1>8. ins.op \in TwoResults =>
        /\ part[ins.res - 1] = Zero /\ part[ins.res - 1] \in Num
        /\ y[0][ins.res - 1] \in Num
  <2>1. SUFFICES ASSUME ins.op \in TwoResults
                 PROVE  /\ part[ins.res - 1] = Zero /\ part[ins.res - 1] \in Num
                        /\ y[0][ins.res - 1] \in Num
    OBVIOUS
  <2>2. NumRes(tape.op_rec_[k].op) = 2
    BY <1>2, <2>1 DEF Computes
  <2>3. tape.last[k] - 1 \in Address(tape) /\ part[tape.last[k] - 1] = Zero
    BY <1>1, <2>2, AuxiliaryZero
  <2>4. QED
    BY <1>2, <1>3, <2>3, Closed
<1>9. PICK z, a, pz, pa : /\ z = y[0][ins.res] /\ a = y[0][ins.res - 1]
                          /\ pz = part[ins.res] /\ pa = part[ins.res - 1]
  OBVIOUS
<1>10. AdjointAt(part, ins) = Adjoint(ins, s, z, a, pz, pa)
  BY <1>4, <1>9 DEF AdjointAt
<1>11. /\ z = Order0(ins, s) /\ z \in Num /\ pz \in Num
       /\ ins.op \in TwoResults => a = Aux(ins.op, s) /\ pa = Zero
       /\ ins.op \in TwoResults => a \in Num /\ pa \in Num
  BY <1>6, <1>7, <1>8, <1>9
<1>12. Adjoint(ins, s, z, a, pz, pa) \in [DOMAIN ins.arg -> Num]
  BY <1>2, <1>4, <1>11, AdjointTyped
<1>13. ASSUME NEW j \in DOMAIN ins.arg, ins.kind[j] = "v"
       PROVE  Adjoint(ins, s, z, a, pz, pa)[j] = pz ** SlopeOf(ins, s, j)
  BY <1>2, <1>4, <1>11, <1>13, AdjointIsSlope
<1>14. QED
  BY <1>2, <1>9, <1>10, <1>12, <1>13

(* They are as at the values of the function.                              *)
LEMMA AdjointsLive ==
  ASSUME Ring, NEW part, NEW L, LivePartials(part, L),
         NEW k \in Op(tape), tape.op_rec_[k].op \in Computing, ~cskip_op_[k],
         NEW n \in Nat, DOMAIN InsAt(tape, k).arg = 1 .. n,
         NEW r, r = OperandsAt(tape, ValuesAt(tape, PointAt(0)), k),
         NEW j \in 1 .. n, InsAt(tape, k).kind[j] = "v"
  PROVE  /\ AdjointAt(part, InsAt(tape, k))[j]
              = part[tape.last[k]] ** SlopeOf(InsAt(tape, k), r, j)
         /\ SlopeOf(InsAt(tape, k), r, j) \in Num
         /\ AdjointAt(part, InsAt(tape, k))[j] # Zero => InsAt(tape, k).arg[j] \in L
<1> PICK ins, y, var, s : /\ ins = InsAt(tape, k) /\ y = taylor_[0]
                          /\ var = ValuesAt(tape, PointAt(0))
                          /\ s = OperandsAt(tape, taylor_[0], k)
  OBVIOUS
<1>1. /\ WellFormed(tape) /\ y \in [Address(tape) -> Num]
      /\ part \in [Address(tape) -> Num] /\ Supported(tape, part, L)
  BY DEF LivePartials, Coefficients
<1>2. /\ ins.res = tape.last[k] /\ Shaped(tape, ins) /\ Computes(tape, ins)
  BY <1>1, ComputedAt
<1>3. /\ var \in [Address(tape) -> Num] /\ LiveNeeds(tape, var, L)
      /\ SameLive(tape, L, y, var, k)
  BY ValuesLive
<1>4. AdjointAt(part, ins)[j] = part[tape.last[k]] ** SlopeOf(ins, s, j)
  BY AdjointsAre
<1>5. s \in [DOMAIN ins.arg -> Num] /\ r \in [DOMAIN ins.arg -> Num]
  BY <1>1, <1>3, OperandsAre DEF OperandsAt
<1>6. SlopeOf(ins, s, j) \in Num /\ SlopeOf(ins, r, j) \in Num
  BY <1>2, <1>5, SlopeTyped
<1>7. CASE part[tape.last[k]] = Zero
  BY <1>4, <1>6, <1>7, RingZero
<1>8. CASE part[tape.last[k]] # Zero
  <2>1. tape.last[k] \in L
    BY <1>1, <1>2, <1>8 DEF Supported, Computes
  <2>2. /\ Needed(ins, s) = Needed(ins, r)
        /\ SlopeOf(ins, s, j) = SlopeOf(ins, r, j)
    BY <1>1, <1>3, <2>1, LiveOperands
  <2>3. part[tape.last[k]] \in Num
    BY <1>1, <1>2 DEF Computes
  <2>4. CASE j \notin Needed(ins, s)
    <3>1. SlopeOf(ins, s, j) = Zero
      BY <2>4, SlopeUnneeded
    <3>2. part[tape.last[k]] ** Zero = Zero
      BY <2>3, RingZero
    <3>3. QED
      BY <1>4, <1>6, <2>2, <3>1, <3>2
  <2>5. CASE j \in Needed(ins, s)
    <3>1. InLive(ins, j, L)
      BY <1>3, <2>1, <2>2, <2>5 DEF LiveNeeds
    <3>2. QED
      BY <1>4, <1>6, <2>2, <3>1 DEF InLive
  <2>6. QED
    BY <2>4, <2>5
<1>9. QED
  BY <1>7, <1>8

(* What is added, in total: the partial of the result times its derivative.*)
LEMMA AdjointTotal ==
  ASSUME Ring, NEW part, NEW L, LivePartials(part, L),
         NEW k \in Op(tape), tape.op_rec_[k].op \in Computing, ~cskip_op_[k],
         NEW n \in Nat, DOMAIN InsAt(tape, k).arg = 1 .. n,
         NEW i \in 1 .. tape.n, NEW dot, dot = SlopesAt(PointAt(0), i)
  PROVE  Total(AddedTerms(InsAt(tape, k), AdjointAt(part, InsAt(tape, k)), dot, n))
           = part[tape.last[k]] ** dot[tape.last[k]]
<1> PICK ins, add, var, r, pz :
      /\ ins = InsAt(tape, k) /\ add = AdjointAt(part, InsAt(tape, k))
      /\ var = ValuesAt(tape, PointAt(0)) /\ pz = part[tape.last[k]]
      /\ r = OperandsAt(tape, ValuesAt(tape, PointAt(0)), k)
  OBVIOUS
<1>1. WellFormed(tape) /\ part \in [Address(tape) -> Num] /\ taylor_ \in Coefficients(tape)
  BY DEF LivePartials
<1>2. ins.res = tape.last[k] /\ Shaped(tape, ins) /\ Computes(tape, ins)
  BY <1>1, ComputedAt
<1>3. /\ var \in [Address(tape) -> Num] /\ dot \in [Address(tape) -> Num]
      /\ dot[tape.last[k]] = DotAt(tape, var, dot, k)
  <2>1. PointAt(0) \in [1 .. tape.n -> Num]
    BY <1>1, PointTyped
  <2>2. /\ var \in [Address(tape) -> Num] /\ dot \in [Address(tape) -> Num]
        /\ SettledAt(tape, UnitAt(i), TRUE, var, dot)
    BY <1>1, <2>1, SlopesSettled
  <2>3. QED
    BY <2>2 DEF SettledAt, EntryAt
<1>4. pz \in Num
  BY <1>1, <1>2 DEF Computes
<1>5. \A j \in 1 .. n : ins.kind[j] = "v" =>
        /\ add[j] = pz ** SlopeOf(ins, r, j) /\ SlopeOf(ins, r, j) \in Num
        /\ dot[ins.arg[j]] \in Num
  BY <1>2, <1>3, AdjointsLive, ShapedArgs
<1>6. PICK e : e = Terms(tape, var, dot, k)
  OBVIOUS
<1>7. DOMAIN e = 1 .. n
  BY <1>6 DEF Terms
<1>8. \A j \in 1 .. n :
        e[j] = IF ins.kind[j] = "v" THEN SlopeOf(ins, r, j) ** dot[ins.arg[j]] ELSE Zero
  BY <1>6 DEF Terms, OperandsAt
<1>9. e \in [1 .. n -> Num]
  <2>1. e = [j \in 1 .. n |-> e[j]]
    BY <1>6, <1>7 DEF Terms
  <2>2. \A j \in 1 .. n : e[j] \in Num
    BY <1>5, <1>8, Closed
  <2>3. QED
    BY <2>1, <2>2
<1>10. PICK q : q = AddedTerms(ins, add, dot, n)
  OBVIOUS
<1>11. \A j \in 1 .. n : q[j] = pz ** e[j]
  <2>1. SUFFICES ASSUME NEW j \in 1 .. n PROVE q[j] = pz ** e[j]
    OBVIOUS
  <2>2. CASE ins.kind[j] = "v"
    <3>1. q[j] = (pz ** SlopeOf(ins, r, j)) ** dot[ins.arg[j]]
      BY <1>5, <1>10, <2>2 DEF AddedTerms
    <3>2. e[j] = SlopeOf(ins, r, j) ** dot[ins.arg[j]]
      BY <1>8, <2>2
    <3>3. SlopeOf(ins, r, j) \in Num /\ dot[ins.arg[j]] \in Num
      BY <1>5, <2>2
    <3>4. QED
      BY <1>4, <3>1, <3>2, <3>3, RingMonoids
  <2>3. CASE ins.kind[j] # "v"
    <3>1. q[j] = Zero /\ e[j] = Zero
      BY <1>8, <1>10, <2>3 DEF AddedTerms
    <3>2. QED
      BY <1>4, <3>1, RingZero
  <2>4. QED
    BY <2>2, <2>3
<1>12. q \in [1 .. n -> Num]
  <2>1. \A j \in 1 .. n : pz ** e[j] \in Num
    BY <1>4, <1>9, Closed
  <2>2. q = [j \in 1 .. n |-> q[j]]
    BY <1>10 DEF AddedTerms
  <2>3. QED
    BY <1>11, <2>1, <2>2
<1>13. Total(q) = pz ** Total(e)
  BY <1>4, <1>9, <1>11, <1>12, TotalTimes
<1>14. Total(e) = dot[tape.last[k]]
  BY <1>3, <1>6 DEF DotAt
<1>15. QED
  BY <1>10, <1>13, <1>14

(* The arguments of operator k are in the rest.                            *)
LEMMA ArgsInRest ==
  ASSUME NEW t, WellFormed(t), NEW k \in Op(t), t.op_rec_[k].op \in Computing,
         NEW n \in Nat, DOMAIN InsAt(t, k).arg = 1 .. n
  PROVE  ArgsOn(t, InsAt(t, k), n) /\ ArgsIn(t, InsAt(t, k), n, Rest(t, k))
<1> PICK ins : ins = InsAt(t, k)
  OBVIOUS
<1>1. /\ ins.res = t.last[k] /\ Shaped(t, ins) /\ Computes(t, ins)
      /\ NumRes(ins.op) = NumRes(t.op_rec_[k].op)
  BY ComputedAt
<1>2. k \in Nat /\ k > 0 /\ k - 1 \in Op(t) /\ (k - 1) + 1 = k
  BY Independents, Placed DEF Op
<1>3. /\ t.last[k] = t.last[k - 1] + NumRes(t.op_rec_[k].op)
      /\ t.last[k - 1] \in Nat /\ NumRes(t.op_rec_[k].op) \in Nat
  <2>1. t.last[(k - 1) + 1] = t.last[k - 1] + NumRes(t.op_rec_[(k - 1) + 1].op)
    BY <1>2, NextPlaced
  <2>2. t.last[k - 1] \in Nat /\ NumRes(t.op_rec_[k].op) \in 0 .. 2
    BY <1>2, Placed
  <2>3. QED
    BY <1>2, <2>1, <2>2
<1>4. ins.res - NumRes(ins.op) = t.last[k - 1]
  BY <1>1, <1>3
<1>5. ASSUME NEW j \in 1 .. n, ins.kind[j] = "v"
      PROVE  ins.arg[j] \in Address(t) /\ ins.arg[j] \in Rest(t, k)
  <2>1. ins.arg[j] \in 1 .. t.last[k - 1] /\ ins.arg[j] \in Address(t)
    BY <1>1, <1>4, <1>5, ShapedArgs DEF Before
  <2>2. ins.arg[j] \in 1 .. t.num_var_rec - 1 /\ ins.arg[j] <= t.last[k - 1]
    BY <2>1 DEF Address
  <2>3. QED
    BY <2>1, <2>2 DEF Rest
<1>6. QED
  BY <1>5 DEF ArgsOn, ArgsIn, Rest

LEMMA PropagatedIs ==
  ASSUME NEW ins, NEW part
  PROVE  Propagated(part, ins) = Spread(ins, AdjointAt(part, ins), part)
BY DEF Propagated, Spread, AdjointAt

LEMMA PropagatedKeeps ==
  ASSUME Ring, NEW part, NEW L, LivePartials(part, L),
         NEW k \in Op(tape), k + 1 \in Op(tape),
         tape.op_rec_[k].op \in Computing, ~cskip_op_[k],
         NEW new, new = Propagated(part, InsAt(tape, k))
  PROVE  /\ Supported(tape, new, L)
         /\ \A i \in 1 .. tape.n :
              Total(Products(tape, new, Rest(tape, k), SlopesAt(PointAt(0), i)))
                = Total(Products(tape, part, Rest(tape, k + 1), SlopesAt(PointAt(0), i)))
<1> PICK ins, add : ins = InsAt(tape, k) /\ add = AdjointAt(part, InsAt(tape, k))
  OBVIOUS
<1>1. /\ WellFormed(tape) /\ part \in [Address(tape) -> Num]
      /\ taylor_ \in Coefficients(tape) /\ Supported(tape, part, L)
      /\ tape.num_var_rec \in Nat
  BY Placed DEF LivePartials
<1>2. Shaped(tape, ins) /\ Computes(tape, ins)
  BY <1>1, ComputedAt
<1>3. PICK n \in Nat : DOMAIN ins.arg = 1 .. n
  BY <1>2, ShapedArgs
<1>4. new = Spread(ins, add, part)
  BY PropagatedIs
<1>5. add \in [1 .. n -> Num]
  BY <1>3, AdjointsAre
<1>6. ArgsOn(tape, ins, n) /\ ArgsIn(tape, ins, n, Rest(tape, k))
  BY <1>1, <1>3, ArgsInRest
<1>7. PICK g : Propagates(tape, ins, add, part, n, g) /\ new = g[n]
  BY <1>1, <1>4, <1>5, <1>6, SpreadFold
<1>8. Supported(tape, new, L)
  <2>1. PICK W : W = L \cap {tape.last[m] : m \in Op(tape)}
    OBVIOUS
  <2>2. \A a \in Address(tape) : part[a] # Zero => a \in W
    BY <1>1, <2>1 DEF Supported
  <2>3. ASSUME NEW j \in 1 .. n, ins.kind[j] = "v", add[j] # Zero
        PROVE  ins.arg[j] \in W
    <3>1. ins.arg[j] \in L
      BY <1>3, <2>3, AdjointsLive
    <3>2. \E m \in Op(tape) : m < k /\ ins.arg[j] = tape.last[m]
      BY <1>1, <1>3, <2>3, OperandPlaced
    <3>3. QED
      BY <2>1, <3>1, <3>2
  <2>4. \A a \in Address(tape) : g[n][a] # Zero => a \in W
    BY <1>1, <1>5, <1>6, <1>7, <2>2, <2>3, PropagatedSupport
  <2>5. QED
    BY <1>7, <2>1, <2>4 DEF Supported
<1>9. ASSUME NEW i \in 1 .. tape.n
      PROVE  Total(Products(tape, new, Rest(tape, k), SlopesAt(PointAt(0), i)))
               = Total(Products(tape, part, Rest(tape, k + 1), SlopesAt(PointAt(0), i)))
  <2>1. PICK dot : dot = SlopesAt(PointAt(0), i)
    OBVIOUS
  <2>2. dot \in [Address(tape) -> Num]
    <3>1. PointAt(0) \in [1 .. tape.n -> Num]
      BY <1>1, PointTyped
    <3>2. QED
      BY <1>1, <2>1, <3>1, SlopesSettled
  <2>3. Total(Products(tape, g[n], Rest(tape, k), dot))
          = Total(Products(tape, part, Rest(tape, k), dot))
              ++ Total(AddedTerms(ins, add, dot, n))
    BY <1>1, <1>5, <1>6, <1>7, <2>2, PropagatedTotal
  <2>4. Total(AddedTerms(ins, add, dot, n)) = part[tape.last[k]] ** dot[tape.last[k]]
    BY <1>3, <2>1, AdjointTotal
  <2>5. Total(Products(tape, part, Rest(tape, k + 1), dot))
          = Total(Products(tape, part, Rest(tape, k), dot))
              ++ (part[tape.last[k]] ** dot[tape.last[k]])
    BY <1>1, <2>2, RestComputed
  <2>6. QED
    BY <1>7, <2>1, <2>3, <2>4, <2>5
<1>10. QED
  BY <1>8, <1>9

-----------------------------------------------------------------------------
(***************************************************************************)
(* The invariant of a reverse sweep: what is left to pass, the variables   *)
(* before the cursor with their partials, has the gradient that Reverse    *)
(* will return.                                                            *)
(***************************************************************************)
AdjointInv ==
  Backwards =>
    /\ num_order_taylor_ >= 1
    /\ \E L \in SUBSET (1 .. tape.num_var_rec - 1) :
         Live(tape, PointAt(0), L) /\ Supported(tape, Partial, L)
    /\ \A i \in 1 .. tape.n :
         Total(Products(tape, Partial, Rest(tape, cursor.op_index_),
                        SlopesAt(PointAt(0), i)))
           = GradientAt(PointAt(0), sweep.w)[i]

(* What the steps of a reverse sweep do at the operator they come to.      *)
LEMMA Retreats ==
  ASSUME Traced, FlowInv, ReverseNext, NEW j, j = Behind.op_index_
  PROVE  /\ WellFormed(tape) /\ j \in Op(tape) /\ j + 1 \in Op(tape)
         /\ cursor.op_index_ = j + 1 /\ tape' = tape
         /\ \/ /\ tape.op_rec_[j].op \in Computing /\ cskip_op_[j]
               /\ Partial' = Partial /\ ~ReverseBegin
            \/ /\ tape.op_rec_[j].op \in Computing /\ ~cskip_op_[j]
               /\ Partial' = Propagated(Partial, InsAt(tape, j)) /\ ~ReverseBegin
            \/ /\ tape.op_rec_[j].op \notin Computing /\ j # 0
               /\ Partial' = Partial /\ ~ReverseBegin
            \/ ReverseBegin /\ j = 0
         /\ ~ReverseBegin => cursor'.op_index_ = j /\ sweep' = sweep
<1> DEFINE op == tape.op_rec_[j].op
<1>1. Backwards
  BY DEF ReverseNext, ReverseSkip, ReverseCompute, ReverseCSkip, ReversePass,
         ReverseBegin, ReverseTo
<1>2. /\ WellFormed(tape) /\ j \in Op(tape) /\ j = cursor.op_index_ - 1
      /\ OpAt(tape, Behind) = tape.op_rec_[j]
      /\ op \notin Optimized => Behind = At(tape, j)
      /\ op = "CSum" => reverse_csum(tape, Behind) = At(tape, j)
      /\ op = "CSkip" => reverse_cskip(tape, Behind) = At(tape, j)
  BY <1>1, BehindIsPrevious
<1>3. cursor.op_index_ \in Op(tape) /\ cursor.op_index_ = j + 1 /\ j + 1 \in Op(tape)
  BY <1>1, <1>2 DEF FlowInv, Op
<1>4. op \in Optimized => sweep.text
  BY <1>1, <1>2 DEF FlowInv, OptimizedTape
<1>5. At(tape, j).op_index_ = j
  BY DEF At
<1>6. op = "Begin" <=> j = 0
  BY <1>2, Placed
<1>7. op \in Computing => op \notin {"CSkip", "Begin"} \union Comparison
  BY OpCodes
<1>8. ReverseBegin => sweep' = None /\ sweep # None /\ tape' = tape /\ op = "Begin"
  BY <1>2 DEF ReverseBegin, ReverseTo, Backwards
<1>9. CASE ReverseSkip
  <2>1. op \in Computing /\ tape' = tape /\ sweep' = sweep /\ cskip_op_[j]
        /\ Partial' = Partial /\ sweep # None
    BY <1>2, <1>9 DEF ReverseSkip, FlowInv, Backwards
  <2>2. cursor' = IF op = "CSum" THEN reverse_csum(tape, Behind) ELSE Behind
    BY <1>2, <1>9 DEF ReverseSkip
  <2>3. cursor' = At(tape, j)
    BY <2>1, <2>2, <1>2, <1>7 DEF Optimized
  <2>4. QED
    BY <2>1, <2>3, <1>2, <1>3, <1>5, <1>8
<1>10. CASE ReverseCompute
  <2>1. op \in Computing /\ tape' = tape /\ sweep' = sweep /\ ~cskip_op_[j]
        /\ sweep # None
    BY <1>2, <1>10 DEF ReverseCompute, ReverseTo, Backwards
  <2>2. /\ cursor' = IF op = "CSum" /\ sweep.text THEN reverse_csum(tape, Behind)
                                                  ELSE Behind
        /\ Partial' = Propagated(Partial, Instr(tape, cursor'))
    BY <1>2, <1>10 DEF ReverseCompute
  <2>3. cursor' = At(tape, j)
    BY <2>1, <2>2, <1>2, <1>4, <1>7 DEF Optimized
  <2>4. Partial' = Propagated(Partial, InsAt(tape, j))
    BY <2>2, <2>3 DEF InsAt
  <2>5. QED
    BY <2>1, <2>3, <2>4, <1>2, <1>3, <1>5, <1>8
<1>11. CASE ReverseCSkip
  <2>1. /\ tape' = tape /\ sweep' = sweep /\ op = "CSkip" /\ Partial' = Partial
        /\ cursor' = IF sweep.text THEN reverse_cskip(tape, Behind) ELSE Behind
        /\ sweep # None
    BY <1>2, <1>11 DEF ReverseCSkip, ReverseTo, Backwards
  <2>2. cursor' = At(tape, j)
    BY <2>1, <1>2, <1>4 DEF Optimized
  <2>3. QED
    BY <2>1, <2>2, <1>2, <1>3, <1>5, <1>6, <1>7, <1>8
<1>12. CASE ReversePass
  <2>1. /\ tape' = tape /\ sweep' = sweep /\ Partial' = Partial
        /\ cursor' = Behind /\ op \in {"Inv"} \union Comparison /\ sweep # None
    BY <1>2, <1>12 DEF ReversePass, ReverseTo, Backwards
  <2>2. op # "Begin" /\ cursor' = At(tape, j) /\ op \notin Computing
    BY <2>1, <1>2, OpCodes DEF Optimized, Comparison
  <2>3. QED
    BY <2>1, <2>2, <1>2, <1>3, <1>5, <1>6, <1>8
<1>13. CASE ReverseBegin
  BY <1>2, <1>3, <1>6, <1>8, <1>13
<1>14. QED
  BY <1>9, <1>10, <1>11, <1>12, <1>13 DEF ReverseNext

(* Between forward sweeps, order 0 is solved if it is known.               *)
LEMMA SolvedBetween ==
  ASSUME SolveInv, ~Forwards, num_order_taylor_ >= 1
  PROVE  SolvedTo(tape, taylor_, cskip_op_, 0)
<1>1. 0 \in 0 .. num_order_taylor_ - 1
  BY DEF SolveInv
<1>2. \A i \in Op(tape) : OrderSolved(i, 0)
  BY <1>1 DEF SolveInv, OrdersSolveTape
<1>3. QED
  BY <1>2 DEF OrderSolved, SolvedTo, InsAt

LEMMA AdjointsKept ==
  ASSUME Ring, Traced, TypeInv, FlagsInv, AdjointInv, ReverseNext
  PROVE  AdjointInv'
<1>1. Backwards /\ ~Forwards /\ FlowInv /\ SolveInv /\ taylor_' = taylor_
      /\ num_order_taylor_' = num_order_taylor_
  BY DEF ReverseNext, ReverseSkip, ReverseCompute, ReverseCSkip, ReversePass,
         ReverseBegin, ReverseTo, Backwards, Forwards, TypeInv, SolveInv
<1>2. PICK j : j = Behind.op_index_
  OBVIOUS
<1>3. /\ WellFormed(tape) /\ j \in Op(tape) /\ j + 1 \in Op(tape)
      /\ cursor.op_index_ = j + 1 /\ tape' = tape
  BY <1>1, <1>2, Retreats
<1>4. CASE ReverseBegin
  <2>1. ~Backwards'
    BY <1>4 DEF ReverseBegin, Backwards
  <2>2. QED
    BY <2>1 DEF AdjointInv
<1>5. CASE ~ReverseBegin
  <2>1. cursor'.op_index_ = j /\ sweep' = sweep
    BY <1>1, <1>2, <1>5, Retreats
  <2>2. PICK u : u = PointAt(0)
    OBVIOUS
  <2>3. PointAt(0)' = u
    BY <1>1, <1>3, <2>2 DEF PointAt
  <2>4. PICK L \in SUBSET (1 .. tape.num_var_rec - 1) :
          Live(tape, PointAt(0), L) /\ Supported(tape, Partial, L)
    BY <1>1 DEF AdjointInv
  <2>5. num_order_taylor_ >= 1
    BY <1>1 DEF AdjointInv
  <2>6. LivePartials(Partial, L)
    BY <1>1, <1>3, <2>4, <2>5, SolvedBetween DEF LivePartials, TypeInv
  <2>7. /\ Supported(tape, Partial', L)
        /\ \A i \in 1 .. tape.n :
             Total(Products(tape, Partial', Rest(tape, j), SlopesAt(PointAt(0), i)))
               = Total(Products(tape, Partial, Rest(tape, j + 1), SlopesAt(PointAt(0), i)))
    <3>1. CASE tape.op_rec_[j].op \in Computing /\ cskip_op_[j] /\ Partial' = Partial
      <4>1. tape.last[j] \notin L
        <5>1. FlagsJustified(tape, taylor_[0], cskip_op_)
          BY DEF FlagsInv, FlagsJustified
        <5>2. /\ SameLive(tape, L, taylor_[0], ValuesAt(tape, PointAt(0)), j)
              /\ LiveSkips(tape, ValuesAt(tape, PointAt(0)), L)
          BY <1>3, <2>6, ValuesLive
        <5>3. QED
          BY <1>3, <3>1, <5>1, <5>2, LiveNotSkipped
      <4>2. /\ Partial \in [Address(tape) -> Num] /\ tape.last[j] \in Address(tape)
            /\ Partial[tape.last[j]] = Zero
        BY <1>3, <2>4, <4>1, ResultsOrdered DEF Supported, TypeInv
      <4>3. ASSUME NEW i \in 1 .. tape.n
            PROVE  Total(Products(tape, Partial, Rest(tape, j), SlopesAt(PointAt(0), i)))
                     = Total(Products(tape, Partial, Rest(tape, j + 1), SlopesAt(PointAt(0), i)))
        <5>1. PICK dot : dot = SlopesAt(PointAt(0), i)
          OBVIOUS
        <5>2. PointAt(0) \in [1 .. tape.n -> Num]
          BY <1>3, PointTyped DEF TypeInv
        <5>3. dot \in [Address(tape) -> Num]
          BY <1>3, <5>1, <5>2, SlopesSettled
        <5>4. /\ Total(Products(tape, Partial, Rest(tape, j), dot)) \in Num
              /\ Total(Products(tape, Partial, Rest(tape, j + 1), dot))
                   = Total(Products(tape, Partial, Rest(tape, j), dot))
                       ++ (Partial[tape.last[j]] ** dot[tape.last[j]])
          BY <1>3, <2>4, <3>1, <4>2, <5>3, RestComputed
        <5>5. Partial[tape.last[j]] ** dot[tape.last[j]] = Zero
          BY <4>2, <5>3, RingZero
        <5>6. QED
          BY <5>1, <5>4, <5>5, RingMonoids
      <4>4. QED
        BY <2>4, <3>1, <4>3
    <3>2. CASE tape.op_rec_[j].op \in Computing /\ ~cskip_op_[j]
                 /\ Partial' = Propagated(Partial, InsAt(tape, j))
      BY <1>3, <2>6, <3>2, PropagatedKeeps
    <3>3. CASE tape.op_rec_[j].op \notin Computing /\ j # 0 /\ Partial' = Partial
      <4>1. Rest(tape, j + 1) = Rest(tape, j)
        BY <1>3, <3>3, RestPassed
      <4>2. QED
        BY <2>4, <3>3, <4>1
    <3>4. QED
      BY <1>1, <1>2, <1>5, <3>1, <3>2, <3>3, Retreats
  <2>8. \A i \in 1 .. tape.n :
          Total(Products(tape, Partial', Rest(tape, j), SlopesAt(u, i)))
            = GradientAt(u, sweep.w)[i]
    BY <1>1, <1>3, <2>2, <2>7 DEF AdjointInv
  <2>9. \A i : SlopesAt(PointAt(0), i)' = SlopesAt(u, i)
    BY <1>3, <2>3 DEF SlopesAt, DerivativeAt, UnitAt
  <2>10. GradientAt(PointAt(0), sweep.w)' = GradientAt(u, sweep.w)
    BY <1>3, <2>1, <2>3 DEF GradientAt
  <2>11. num_order_taylor_' >= 1
         /\ \E M \in SUBSET (1 .. tape'.num_var_rec - 1) :
              Live(tape', PointAt(0)', M) /\ Supported(tape', Partial', M)
    BY <1>1, <1>3, <2>2, <2>3, <2>4, <2>5, <2>7
  <2>12. \A i \in 1 .. tape'.n :
           Total(Products(tape', Partial', Rest(tape', cursor'.op_index_),
                          SlopesAt(PointAt(0), i)'))
             = GradientAt(PointAt(0), sweep.w)'[i]
    BY <1>3, <2>1, <2>8, <2>9, <2>10
  <2>13. QED
    BY <2>11, <2>12 DEF AdjointInv
<1>6. QED
  BY <1>4, <1>5

LEMMA DependentsLeft ==
  ASSUME NEW t, WellFormed(t), NEW e, e = t.num_op_rec - 1
  PROVE  \A i \in DOMAIN t.dep_taddr_ : t.dep_taddr_[i] \in Rest(t, e)
<1>1. e \in Op(t) /\ e > t.n /\ t.last[e] = t.num_var_rec - 1
  BY DEF WellFormed, Vectors, Adjacent, Op
<1>2. t.last[e] = t.last[e - 1]
  <2>1. t.op_rec_[e].op = "End"
    BY <1>1, Placed
  <2>2. QED
    BY <1>1, <2>1, NoResult, OpCodes
<1>3. QED
  BY <1>1, <1>2, DependentsPlaced DEF Rest

LEMMA AdjointsStart ==
  ASSUME Ring, TypeInv, SkipsHarmless(tape),
         NEW w \in [DOMAIN tape.dep_taddr_ -> Num], NEW text, ReverseSweep(w, text)
  PROVE  AdjointInv'
<1>1. /\ WellFormed(tape) /\ taylor_ \in Coefficients(tape)
      /\ num_order_taylor_ \in 0 .. 2
  BY TapesAssumption DEF TypeInv, SolveInv, FlowInv
<1>2. PICK u, e : u = PointAt(0) /\ e = tape.num_op_rec - 1
  OBVIOUS
<1>3. /\ tape' = tape /\ taylor_' = taylor_ /\ num_order_taylor_' = num_order_taylor_
      /\ num_order_taylor_ >= 1 /\ Partial' = Weighted(w) /\ sweep'.w = w
      /\ cursor' = reverse_start(tape)
  BY DEF ReverseSweep
<1>4. cursor'.op_index_ = e
  BY <1>2, <1>3 DEF reverse_start
<1>5. PointAt(0)' = u /\ u \in [1 .. tape.n -> Num]
  <2>1. PointAt(0)' = u
    BY <1>2, <1>3 DEF PointAt
  <2>2. QED
    BY <1>1, <1>2, <2>1, PointTyped
<1>6. PICK L \in SUBSET (1 .. tape.num_var_rec - 1) : Live(tape, u, L)
  BY <1>5 DEF SkipsHarmless
<1>7. Supported(tape, Weighted(w), L)
  <2>1. PICK W : W = L \cap {tape.last[m] : m \in Op(tape)}
    OBVIOUS
  <2>2. \A i \in DOMAIN tape.dep_taddr_ : tape.dep_taddr_[i] \in W
    BY <1>1, <1>6, <2>1, DependentsLive
  <2>3. \A a \in Address(tape) : Weighted(w)[a] # Zero => a \in W
    BY <1>1, <2>2, WeightedSupport
  <2>4. QED
    BY <2>1, <2>3 DEF Supported
<1>8. ASSUME NEW i \in 1 .. tape.n
      PROVE  Total(Products(tape, Weighted(w), Rest(tape, e), SlopesAt(u, i)))
               = GradientAt(u, w)[i]
  <2>1. PICK dot : dot = SlopesAt(u, i)
    OBVIOUS
  <2>2. dot \in [Address(tape) -> Num]
    BY <1>1, <1>5, <2>1, SlopesSettled
  <2>3. \A k \in DOMAIN tape.dep_taddr_ : tape.dep_taddr_[k] \in Rest(tape, e)
    BY <1>1, <1>2, DependentsLeft
  <2>4. Total(Products(tape, Weighted(w), Rest(tape, e), dot))
          = Total([k \in DOMAIN w |-> w[k] ** dot[tape.dep_taddr_[k]]])
    BY <1>1, <2>2, <2>3, WeightedTotal
  <2>5. GradientAt(u, w)[i] = Total([k \in DOMAIN w |-> w[k] ** dot[tape.dep_taddr_[k]]])
    BY <2>1, GradientIs
  <2>6. QED
    BY <2>1, <2>4, <2>5
<1>9. \A i : SlopesAt(PointAt(0), i)' = SlopesAt(u, i)
  BY <1>3, <1>5 DEF SlopesAt, DerivativeAt, UnitAt
<1>10. GradientAt(PointAt(0), sweep.w)' = GradientAt(u, w)
  BY <1>3, <1>5 DEF GradientAt
<1>11. num_order_taylor_' >= 1
       /\ \E M \in SUBSET (1 .. tape'.num_var_rec - 1) :
            Live(tape', PointAt(0)', M) /\ Supported(tape', Partial', M)
  BY <1>3, <1>5, <1>6, <1>7
<1>12. \A i \in 1 .. tape'.n :
         Total(Products(tape', Partial', Rest(tape', cursor'.op_index_),
                        SlopesAt(PointAt(0), i)'))
           = GradientAt(PointAt(0), sweep.w)'[i]
  BY <1>3, <1>4, <1>8, <1>9, <1>10
<1>13. QED
  BY <1>11, <1>12 DEF AdjointInv

(* What is left at the end is the gradient.                                *)
LEMMA GradientLeft ==
  ASSUME Ring, WellFormed(tape), NEW part \in [Address(tape) -> Num],
         NEW u \in [1 .. tape.n -> Num], NEW i \in 1 .. tape.n
  PROVE  Total(Products(tape, part, Rest(tape, 1), SlopesAt(u, i))) = part[i]
<1> PICK dot, n : dot = SlopesAt(u, i) /\ n = tape.num_var_rec - 1
  OBVIOUS
<1>1. /\ dot \in [Address(tape) -> Num]
      /\ \A k \in 1 .. tape.n : dot[k] = IF k = i THEN One ELSE Zero
  <2>1. /\ dot \in [Address(tape) -> Num]
        /\ SettledAt(tape, UnitAt(i), TRUE, ValuesAt(tape, u), dot)
    BY SlopesSettled
  <2>2. QED
    BY <2>1, UnitTyped DEF SettledAt
<1>2. /\ tape.n \in Nat /\ tape.num_var_rec \in Nat /\ tape.last[1 - 1] = 0
      /\ tape.n \in Address(tape)
  <2>1. tape.n \in Nat /\ tape.num_var_rec \in Nat /\ tape.last[0] = 0
    BY DEF WellFormed, Vectors, Adjacent
  <2>2. tape.n \in Op(tape) /\ tape.last[tape.n] = tape.n
    BY <2>1, Independents
  <2>3. QED
    BY <2>1, <2>2, ResultsOrdered
<1>3. n \in Nat /\ i \in 1 .. n /\ \A a \in 1 .. n : a \in Address(tape)
  BY <1>2 DEF Address
<1>4. \A a \in 1 .. n : a \in Rest(tape, 1) <=> a \in 1 .. tape.n
  BY <1>2 DEF Rest
<1>5. PICK s \in [1 .. n -> Num] : s = Products(tape, part, Rest(tape, 1), dot)
  BY <1>1, ProductsTyped
<1>6. s[i] = part[i] /\ \A a \in 1 .. n : a # i => s[a] = Zero
  <2>1. s[i] = part[i] ** dot[i] /\ dot[i] = One /\ part[i] \in Num
    BY <1>1, <1>3, <1>4, <1>5 DEF Products
  <2>2. ASSUME NEW a \in 1 .. n, a # i PROVE s[a] = Zero
    <3>1. CASE a \in 1 .. tape.n
      <4>1. s[a] = part[a] ** dot[a] /\ dot[a] = Zero /\ part[a] \in Num
        BY <1>1, <1>3, <1>4, <1>5, <2>2, <3>1 DEF Products
      <4>2. QED
        BY <4>1, RingZero
    <3>2. CASE a \notin 1 .. tape.n
      BY <1>4, <1>5, <3>2 DEF Products
    <3>3. QED
      BY <3>1, <3>2
  <2>3. QED
    BY <2>1, <2>2, RingMonoids
<1>7. QED
  BY <1>3, <1>5, <1>6, TotalOne

LEMMA ReverseReturns ==
  ASSUME Ring, Traced, TypeInv, AdjointInv, ReverseBegin
  PROVE  Abstract!ReturnReverse
<1>1. /\ WellFormed(tape) /\ taylor_ \in Coefficients(tape) /\ FlowInv /\ Backwards
      /\ Partial \in [Address(tape) -> Num] /\ tape \in Tapes
  BY TapesAssumption DEF TypeInv, SolveInv, FlowInv, ReverseBegin, ReverseTo
<1>2. cursor.op_index_ = 1
  <2>1. ReverseNext
    BY DEF ReverseNext
  <2>2. PICK j : j = Behind.op_index_
    OBVIOUS
  <2>3. j = 0 /\ cursor.op_index_ = j + 1
    BY <1>1, <2>1, <2>2, Retreats
  <2>4. QED
    BY <2>3
<1>3. /\ tape' = tape /\ taylor_' = taylor_ /\ sweep' = None
      /\ num_order_taylor_' = num_order_taylor_
      /\ result' = [j \in 1 .. tape.n |-> Partial[j]]
  BY DEF ReverseBegin
<1>4. sweep.w \in [DOMAIN tape.dep_taddr_ -> Num] /\ sweep # None
  BY <1>1 DEF TypeInv, SweepTyped, Backwards
<1>5. PICK u, w : u = PointAt(0) /\ w = sweep.w
  OBVIOUS
<1>6. u \in [1 .. tape.n -> Num]
  BY <1>1, <1>5, PointTyped
<1>7. \A i \in 1 .. tape.n : Partial[i] = GradientAt(u, w)[i]
  BY <1>1, <1>2, <1>5, <1>6, GradientLeft DEF AdjointInv
<1>8. result' = GradientAt(u, w)
  <2>1. GradientAt(u, w) = [j \in 1 .. tape.n |-> GradientAt(u, w)[j]]
    BY <1>4, <1>5, GradientIs
  <2>2. QED
    BY <1>3, <1>7, <2>1
<1>9. [mode |-> "reverse", w |-> w] # None
  BY <1>1, <1>4, <1>5, NoneAssumption
<1>10. [k \in 0 .. 1 |-> [j \in 1 .. tape.n |-> taylor_[k][j]]][0] = u
  BY <1>5 DEF PointAt
<1>11. ~Backwards'
  BY <1>3 DEF Backwards
<1>12. QED
  BY <1>1, <1>3, <1>5, <1>8, <1>9, <1>10, <1>11
     DEF Abstract!ReturnReverse, GradientAt

-----------------------------------------------------------------------------
(* Each step of a sweep is a step of Derivatives, or none.                 *)

(* Forward sweeps write no independent variable.                           *)
LEMMA IndependentsKept ==
  ASSUME TypeInv, ForwardNext
  PROVE  \A k \in 0 .. 1, a \in 1 .. tape.n : taylor_'[k][a] = taylor_[k][a]
<1>1. CASE taylor_' = taylor_
  BY <1>1
<1>2. CASE ForwardCompute
  <2>1. /\ Forwards /\ OpAt(tape, Ahead).op \in Computing /\ SolveInv
        /\ taylor_' = WriteOrders(tape, taylor_, Instr(tape, Ahead), sweep.p, sweep.q)
    BY <1>2 DEF ForwardCompute, ForwardTo, TypeInv
  <2>2. PICK j : j = Ahead.op_index_
    OBVIOUS
  <2>3. /\ WellFormed(tape) /\ j \in Op(tape) /\ Ahead = At(tape, j)
        /\ tape.op_rec_[j].op \in Computing
    BY <2>1, <2>2, AheadIsNext, AheadPlaced DEF SolveInv
  <2>4. PICK ins, y, z : ins = InsAt(tape, j) /\ y = taylor_ /\ z = taylor_'
    OBVIOUS
  <2>5. /\ Computes(tape, ins) /\ ins.res = tape.last[j]
        /\ NumRes(ins.op) = NumRes(tape.op_rec_[j].op)
    BY <2>3, <2>4, ComputedAt
  <2>6. /\ sweep.q \in 0 .. 1 /\ sweep.p \in 0 .. sweep.q /\ DOMAIN y = 0 .. 1
        /\ z = WriteOrders(tape, y, ins, sweep.p, sweep.q)
    BY <2>1, <2>3, <2>4 DEF SolveInv, InsAt
  <2>7. \A m \in 0 .. 1 : SameUpTo(y, z, m, ins.res - NumRes(ins.op))
    BY <2>5, <2>6, WrittenOrders
  <2>8. ins.res - NumRes(ins.op) >= tape.n /\ ins.res - NumRes(ins.op) \in Nat
        /\ tape.n \in Nat
    BY <2>3, <2>5, Independents DEF Computes
  <2>9. QED
    BY <2>4, <2>7, <2>8 DEF SameUpTo
<1>3. QED
  BY <1>1, <1>2 DEF ForwardNext, ForwardSkip, ForwardInv, ForwardCompare,
                    ForwardCSkip, ForwardEnd

LEMMA AbstractStutters ==
  ASSUME tape' = tape, num_order_taylor_' = num_order_taylor_, sweep' = sweep,
         result' = result,
         \A k \in 0 .. 1, a \in 1 .. tape.n : taylor_'[k][a] = taylor_[k][a]
  PROVE  UNCHANGED Abstract!vars
<1>1. Backwards' <=> Backwards
  BY DEF Backwards
<1>2. [k \in 0 .. 1 |-> [j \in 1 .. tape'.n |-> taylor_'[k][j]]]
        = [k \in 0 .. 1 |-> [j \in 1 .. tape.n |-> taylor_[k][j]]]
  OBVIOUS
<1>3. FunctionOf(tape)' = FunctionOf(tape)
  OBVIOUS
<1>4. QED
  BY <1>1, <1>2, <1>3 DEF Abstract!vars

LEMMA AbstractInit ==
  ASSUME Init
  PROVE  Abstract!Init
<1>1. PICK g \in Garbage : taylor_ = [k \in 0 .. 1 |-> [a \in Address(tape) |-> g]]
  BY DEF Init
<1>2. tape \in Tapes /\ WellFormed(tape) /\ num_order_taylor_ = 0 /\ sweep = None
      /\ result = None /\ g \in Num
  BY TapesAssumption, GarbageAssumption DEF Init
<1>3. taylor_ \in Coefficients(tape)
  BY <1>1, <1>2 DEF Coefficients
<1>4. \A k \in 0 .. 1 : [j \in 1 .. tape.n |-> taylor_[k][j]] \in [1 .. tape.n -> Num]
  BY <1>2, <1>3, PointTyped DEF PointAt
<1>5. [k \in 0 .. 1 |-> [j \in 1 .. tape.n |-> taylor_[k][j]]]
        \in [0 .. 1 -> [1 .. tape.n -> Num]]
  BY <1>4
<1>6. FunctionOf(tape).n = tape.n
  BY DEF FunctionOf
<1>7. ~Backwards
  BY <1>2 DEF Backwards
<1>8. QED
  BY <1>2, <1>5, <1>6, <1>7 DEF Abstract!Init, Abstract!Point

LEMMA SweepCalls ==
  ASSUME TypeInv, NEW q \in 0 .. 1, NEW p \in 0 .. q, ForwardSweep(p, q)
  PROVE  Abstract!CallForward(p, q)
<1>1. /\ WellFormed(tape) /\ taylor_ \in Coefficients(tape)
      /\ num_order_taylor_ \in 0 .. 2
  BY TapesAssumption DEF TypeInv, SolveInv, FlowInv
<1>2. /\ sweep = None /\ p <= num_order_taylor_ /\ tape' = tape /\ result' = None
      /\ sweep' = [mode |-> "forward", p |-> p, q |-> q]
      /\ num_order_taylor_' = num_order_taylor_
  BY DEF ForwardSweep
<1>3. PICK u \in [p .. q -> [1 .. tape.n -> Num]] :
        taylor_' = [k \in 0 .. 1 |->
          [a \in Address(tape) |->
             IF k \in p .. q /\ a \in 1 .. tape.n THEN u[k][a] ELSE taylor_[k][a]]]
  BY DEF ForwardSweep
<1>4. \A a \in 1 .. tape.n : a \in Address(tape)
  <2>1. SUFFICES ASSUME NEW a \in 1 .. tape.n PROVE a \in Address(tape)
    OBVIOUS
  <2>2. tape.n \in Nat /\ a \in 0 .. tape.n
    BY <1>1, Independents
  <2>3. a \in Op(tape) /\ tape.last[a] = a
    BY <1>1, <2>2, Independents
  <2>4. QED
    BY <1>1, <2>3, ResultsOrdered
<1>5. ASSUME NEW k \in 0 .. 1
      PROVE  [j \in 1 .. tape.n |-> taylor_'[k][j]]
               = IF k \in p .. q THEN u[k] ELSE [j \in 1 .. tape.n |-> taylor_[k][j]]
  <2>1. \A j \in 1 .. tape.n :
          taylor_'[k][j] = IF k \in p .. q THEN u[k][j] ELSE taylor_[k][j]
    BY <1>3, <1>4
  <2>2. k \in p .. q => u[k] = [j \in 1 .. tape.n |-> u[k][j]]
    OBVIOUS
  <2>3. QED
    BY <2>1, <2>2
<1>6. PICK x, y : /\ x = [k \in 0 .. 1 |-> [j \in 1 .. tape.n |-> taylor_[k][j]]]
                  /\ y = [k \in 0 .. 1 |-> [j \in 1 .. tape.n |-> taylor_'[k][j]]]
  OBVIOUS
<1>7. y = [k \in 0 .. 1 |-> IF k \in p .. q THEN u[k] ELSE x[k]]
  BY <1>5, <1>6
<1>8. [k \in 0 .. 1 |-> [j \in 1 .. tape.n |-> taylor_[k][j]]]' = y
  BY <1>2, <1>6
<1>9. FunctionOf(tape).n = tape.n
  BY DEF FunctionOf
<1>10. ~Backwards /\ ~Backwards'
  BY <1>2 DEF Backwards
<1>11. p \in 0 .. num_order_taylor_
  BY <1>1, <1>2
<1>12. Abstract!Point(FunctionOf(tape)) = [1 .. tape.n -> Num]
  BY <1>9 DEF Abstract!Point
<1>13. \E v \in [p .. q -> Abstract!Point(FunctionOf(tape))] :
         [k \in 0 .. 1 |-> [j \in 1 .. tape.n |-> taylor_[k][j]]]'
           = [k \in 0 .. 1 |->
                IF k \in p .. q THEN v[k]
                ELSE [m \in 0 .. 1 |-> [j \in 1 .. tape.n |-> taylor_[m][j]]][k]]
  <2>1. u \in [p .. q -> Abstract!Point(FunctionOf(tape))]
    BY <1>12
  <2>2. QED
    BY <1>6, <1>7, <1>8, <2>1
<1>14. (FunctionOf(tape))' = FunctionOf(tape)
  BY <1>2
<1>15. (IF Backwards THEN [mode |-> "reverse", w |-> sweep.w] ELSE sweep) = None
  BY <1>2, <1>10
<1>16. (IF Backwards THEN [mode |-> "reverse", w |-> sweep.w] ELSE sweep)'
         = [mode |-> "forward", p |-> p, q |-> q]
  BY <1>2, <1>10
<1>17. QED
  BY <1>2, <1>11, <1>13, <1>14, <1>15, <1>16 DEF Abstract!CallForward

LEMMA ReverseCalls ==
  ASSUME TypeInv, NEW w \in [DOMAIN tape.dep_taddr_ -> Num], NEW text \in BOOLEAN,
         ReverseSweep(w, text)
  PROVE  Abstract!CallReverse(w)
<1>1. tape \in Tapes /\ num_order_taylor_ \in 0 .. 2
  BY DEF TypeInv, SolveInv, FlowInv
<1>2. /\ sweep = None /\ num_order_taylor_ >= 1 /\ tape' = tape /\ result' = None
      /\ sweep' = [mode |-> "reverse", w |-> w, text |-> text]
      /\ num_order_taylor_' = num_order_taylor_ /\ taylor_' = taylor_
  BY DEF ReverseSweep
<1>3. sweep' # None
  BY <1>1, <1>2, NoneAssumption
<1>4. ~Backwards /\ Backwards' /\ sweep'.w = w
  BY <1>2, <1>3 DEF Backwards
<1>5. [k \in 0 .. 1 |-> [j \in 1 .. tape.n |-> taylor_[k][j]]]'
        = [k \in 0 .. 1 |-> [j \in 1 .. tape.n |-> taylor_[k][j]]]
  BY <1>2
<1>6. QED
  BY <1>1, <1>2, <1>4, <1>5 DEF Abstract!CallReverse

LEMMA ForwardSimulates ==
  ASSUME Ring, TypeInv, SkipsHarmless(tape), FlagsInv, ForwardNext
  PROVE  [Abstract!Next]_(Abstract!vars)
<1>1. CASE ForwardEnd
  BY <1>1, EndReturns DEF Abstract!Next
<1>2. CASE ~ForwardEnd
  <2>1. /\ tape' = tape /\ num_order_taylor_' = num_order_taylor_ /\ sweep' = sweep
        /\ result' = result
    BY <1>2 DEF ForwardNext, ForwardSkip, ForwardInv, ForwardCompute, ForwardCompare,
                ForwardCSkip
  <2>2. QED
    BY <2>1, IndependentsKept, AbstractStutters
<1>3. QED
  BY <1>1, <1>2

LEMMA ReverseSimulates ==
  ASSUME Ring, Traced, TypeInv, AdjointInv, ReverseNext
  PROVE  [Abstract!Next]_(Abstract!vars)
<1>1. CASE ReverseBegin
  BY <1>1, ReverseReturns DEF Abstract!Next
<1>2. CASE ~ReverseBegin
  <2>1. /\ tape' = tape /\ num_order_taylor_' = num_order_taylor_ /\ sweep' = sweep
        /\ result' = result /\ taylor_' = taylor_
    BY <1>2 DEF ReverseNext, ReverseSkip, ReverseCompute, ReverseCSkip, ReversePass
  <2>2. QED
    BY <2>1, AbstractStutters
<1>3. QED
  BY <1>1, <1>2

LEMMA StepSimulates ==
  ASSUME Ring, Traced, TypeInv, SkipsHarmless(tape), FlagsInv, AdjointInv, [Next]_vars
  PROVE  [Abstract!Next]_(Abstract!vars)
<1>1. ASSUME NEW c, CompareChangeCount(c) PROVE [Abstract!Next]_(Abstract!vars)
  BY <1>1, AbstractStutters DEF CompareChangeCount
<1>2. ASSUME NEW q \in 0 .. 1, NEW p \in 0 .. q, ForwardSweep(p, q)
      PROVE  [Abstract!Next]_(Abstract!vars)
  BY <1>2, SweepCalls DEF Abstract!Next
<1>3. ASSUME NEW w \in [DOMAIN tape.dep_taddr_ -> Num], NEW text \in BOOLEAN,
             ReverseSweep(w, text)
      PROVE  [Abstract!Next]_(Abstract!vars)
  <2>1. w \in Abstract!Weight(FunctionOf(tape))
    BY DEF Abstract!Weight, FunctionOf
  <2>2. Abstract!CallReverse(w)
    BY <1>3, ReverseCalls
  <2>3. QED
    BY <2>1, <2>2 DEF Abstract!Next
<1>4. CASE ForwardNext
  BY <1>4, ForwardSimulates
<1>5. CASE ReverseNext
  BY <1>5, ReverseSimulates
<1>6. CASE UNCHANGED vars
  BY <1>6, AbstractStutters DEF vars
<1>7. QED
  BY <1>1, <1>2, <1>3, <1>4, <1>5, <1>6 DEF Next

LEMMA AdjointsNext ==
  ASSUME Ring, Traced, TypeInv, SkipsHarmless(tape), FlagsInv, AdjointInv, [Next]_vars
  PROVE  AdjointInv'
<1>1. CASE ReverseNext
  BY <1>1, AdjointsKept
<1>2. ASSUME NEW w \in [DOMAIN tape.dep_taddr_ -> Num], NEW text \in BOOLEAN,
             ReverseSweep(w, text)
      PROVE  AdjointInv'
  BY <1>2, AdjointsStart
<1>3. ASSUME ~Backwards' PROVE AdjointInv'
  BY <1>3 DEF AdjointInv
<1>4. ASSUME NEW c, CompareChangeCount(c) PROVE ~Backwards'
  BY <1>4 DEF CompareChangeCount, Backwards
<1>5. ASSUME NEW q, NEW p, ForwardSweep(p, q) PROVE ~Backwards'
  BY <1>5 DEF ForwardSweep, Backwards
<1>6. CASE ForwardNext
  <2>1. sweep # None /\ sweep.mode = "forward" /\ (sweep' = sweep \/ sweep' = None)
    BY <1>6 DEF ForwardNext, ForwardSkip, ForwardInv, ForwardCompute, ForwardCompare,
                ForwardCSkip, ForwardEnd, ForwardTo, Forwards
  <2>2. ~Backwards'
    BY <2>1 DEF Backwards
  <2>3. QED
    BY <1>3, <2>2
<1>7. CASE UNCHANGED vars
  <2>1. /\ PointAt(0)' = PointAt(0) /\ Backwards' = Backwards /\ tape' = tape
        /\ Partial' = Partial /\ sweep' = sweep /\ cursor' = cursor
        /\ num_order_taylor_' = num_order_taylor_
    BY <1>7 DEF vars, PointAt, Backwards
  <2>2. \A i : SlopesAt(PointAt(0), i)' = SlopesAt(PointAt(0), i)
    BY <2>1 DEF SlopesAt, DerivativeAt, UnitAt
  <2>3. GradientAt(PointAt(0), sweep.w)' = GradientAt(PointAt(0), sweep.w)
    BY <2>1 DEF GradientAt
  <2>4. QED
    BY <2>1, <2>2, <2>3 DEF AdjointInv
<1>8. QED
  BY <1>1, <1>2, <1>3, <1>4, <1>5, <1>6, <1>7 DEF Next

(***************************************************************************)
(* The sweeps implement Derivatives: over every tape whose skips are       *)
(* harmless, and with numbers that are a commutative ring, Forward returns *)
(* the values and the derivatives of the function on the tape and Reverse  *)
(* its gradient, whatever calls came before, whatever flags they left and  *)
(* whatever was skipped.                                                   *)
(***************************************************************************)
SweepsInv == TypeInv /\ SkipsHarmless(tape) /\ FlagsInv /\ AdjointInv

THEOREM SweepsImplementDerivatives ==
  ASSUME Traced, Ring, \A t \in Tapes : SkipsHarmless(t)
  PROVE  Spec => ImplementsDerivatives
<1>1. Init => SweepsInv
  <2>1. SUFFICES ASSUME Init PROVE SweepsInv
    OBVIOUS
  <2>2. ~Backwards /\ tape \in Tapes
    BY <2>1 DEF Init, Backwards
  <2>3. QED
    BY <2>1, <2>2, TypeInit, FlagsInit DEF SweepsInv, AdjointInv
<1>2. SweepsInv /\ [Next]_vars => SweepsInv'
  <2>1. SUFFICES ASSUME SweepsInv, [Next]_vars PROVE SweepsInv'
    OBVIOUS
  <2>2. TypeInv' /\ FlagsInv' /\ AdjointInv' /\ tape' = tape
    BY <2>1, TypeNext, FlagsNext, AdjointsNext, TapeKept DEF SweepsInv
  <2>3. SkipsHarmless(tape)'
    <3>1. tape' \in Tapes
      BY <2>1, <2>2 DEF SweepsInv, TypeInv, SolveInv, FlowInv
    <3>2. QED
      BY <3>1
  <2>4. QED
    BY <2>2, <2>3 DEF SweepsInv
<1>3. Init => Abstract!Init
  BY AbstractInit
<1>4. SweepsInv /\ [Next]_vars => [Abstract!Next]_(Abstract!vars)
  BY StepSimulates DEF SweepsInv
<1>5. QED
  BY <1>1, <1>2, <1>3, <1>4, PTL DEF Spec, ImplementsDerivatives, Abstract!Spec
=============================================================================
