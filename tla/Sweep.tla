------------------------------- MODULE Sweep --------------------------------
(***************************************************************************)
(* The sweeps of an ADFun object over its operation sequence: Forward      *)
(* computes the Taylor coefficients of all variables from those of the     *)
(* independent ones, order by order, and Reverse the partials of a         *)
(* weighted sum of the dependent variables, from the last instruction to   *)
(* the first.  One step of the model is one operator.                      *)
(*                                                                         *)
(* A zero-order sweep finds out which operators a conditional skip makes   *)
(* superfluous; the flags it leaves are used by all later sweeps.  It also *)
(* counts the comparisons that come out differently than when recorded.    *)
(***************************************************************************)
EXTENDS Player, Taylor, FiniteSets

CONSTANTS
  Counts,     (* Counts[t]: arguments of compare_change_count for tape t.  *)
  Garbage,    (* What memory holds before it is written, for every         *)
              (* coefficient the same.                                     *)
  None,
  Traced      (* Traced: a reverse sweep over an optimized tape writes a   *)
              (* text trace.                                               *)

ASSUME CountsAssumption == Counts \in [Tapes -> SUBSET Nat]
ASSUME GarbageAssumption == Garbage \subseteq Num
ASSUME TracedAssumption == Traced \in BOOLEAN
ASSUME NoneAssumption ==
  /\ \A p, q \in 0 .. 1 : None # [mode |-> "forward", p |-> p, q |-> q]
  /\ \A t \in Tapes : \A w \in [DOMAIN t.dep_taddr_ -> Num] :
       /\ \A text \in BOOLEAN : None # [mode |-> "reverse", w |-> w, text |-> text]
       /\ None # [mode |-> "reverse", w |-> w]

VARIABLES
  tape,       (* The recording of play_; it never changes.                 *)
  cursor,     (* op_index_, op_arg_ and var_index_ of play_.               *)
  taylor_,    (* taylor_[k][a]: the coefficient of order k of variable a.  *)
  num_order_taylor_,
  cskip_op_,
  compare_change_,  (* count_, number_ and op_index_.                      *)
  Partial,    (* Of the last reverse sweep.                                *)
  sweep,      (* The call in progress.                                     *)
  result      (* The result of the last call.                              *)

vars == <<tape, cursor, taylor_, num_order_taylor_, cskip_op_,
          compare_change_, Partial, sweep, result>>

(* The tape has operators with a variable number of arguments. *)
OptimizedTape(t) == \E i \in Op(t) : t.op_rec_[i].op \in Optimized

-----------------------------------------------------------------------------

Init ==
  /\ tape \in Tapes
  /\ cursor = forward_start
  /\ \E g \in Garbage :
       taylor_ = [k \in 0 .. 1 |-> [a \in Address(tape) |-> g]]
  /\ num_order_taylor_ = 0
  /\ cskip_op_ = [i \in Op(tape) |-> FALSE]
  /\ compare_change_ = [count |-> 1, number |-> 0, op_index |-> 0]
  /\ Partial = [a \in Address(tape) |-> Zero]
  /\ sweep = None
  /\ result = None

CompareChangeCount(c) ==
  /\ sweep = None
  /\ compare_change_' = [count |-> c, number |-> 0, op_index |-> 0]
  /\ UNCHANGED <<tape, cursor, taylor_, num_order_taylor_, cskip_op_, Partial,
                 sweep, result>>

(* Mutants of Flags and Changes: what the last sweep left stays. *)
KeptFlags(p) == cskip_op_

KeptChanges(p) == compare_change_

(* A sweep of order zero starts without flags and with nothing counted. *)
Flags(p) == IF p = 0 THEN [i \in Op(tape) |-> FALSE] ELSE cskip_op_

Changes(p) ==
  IF p = 0 THEN [compare_change_ EXCEPT !.number = 0, !.op_index = 0]
           ELSE compare_change_

(***************************************************************************)
(* Forward(q, xq) with the coefficients of orders p to q: those of the     *)
(* independent variables are stored, and the sweep starts.                 *)
(***************************************************************************)
ForwardSweep(p, q) ==
  /\ sweep = None
  /\ p <= num_order_taylor_
  /\ \E u \in [p .. q -> [1 .. tape.n -> Num]] :
       taylor_' = [k \in 0 .. 1 |->
         [a \in Address(tape) |->
            IF k \in p .. q /\ a \in 1 .. tape.n THEN u[k][a]
                                                 ELSE taylor_[k][a]]]
  /\ cskip_op_' = Flags(p)
  /\ compare_change_' = Changes(p)
  /\ cursor' = forward_start
  /\ sweep' = [mode |-> "forward", p |-> p, q |-> q]
  /\ result' = None
  /\ UNCHANGED <<tape, num_order_taylor_, Partial>>

-----------------------------------------------------------------------------
(* The zero and first order of the results of an instruction, when the     *)
(* coefficients are y.                                                     *)

(* The coefficients of the operands.  Those of parameters are 0 from order *)
(* 1 on.                                                                   *)
OperandsOf(t, y, ins, k) ==
  Operands(ins, y[k],
           IF k = 0 THEN t.par_rec_ ELSE [i \in DOMAIN t.par_rec_ |-> Zero])

ResultOf(t, y, ins, k) ==
  IF k = 0 THEN Order0(ins, OperandsOf(t, y, ins, 0))
  ELSE Order1(ins, OperandsOf(t, y, ins, 0), OperandsOf(t, y, ins, 1),
              y[0][ins.res], y[0][ins.res - 1])

AuxiliaryOf(t, y, ins, k) ==
  IF k = 0 THEN Aux(ins.op, OperandsOf(t, y, ins, 0))
           ELSE Aux1(ins, OperandsOf(t, y, ins, 1), y[0][ins.res])

WriteOrder(t, y, ins, k) ==
  [y EXCEPT ![k] =
     [a \in Address(t) |->
        IF a = ins.res THEN ResultOf(t, y, ins, k)
        ELSE IF a = ins.res - 1 /\ ins.op \in TwoResults
          THEN AuxiliaryOf(t, y, ins, k)
        ELSE y[k][a]]]

(* The orders p to q. *)
WriteOrders(t, y, ins, p, q) ==
  LET zero == IF p = 0 THEN WriteOrder(t, y, ins, 0) ELSE y
  IN  IF q = 1 THEN WriteOrder(t, zero, ins, 1) ELSE zero

-----------------------------------------------------------------------------
(* A forward sweep.  Each step moves to the next operator. *)

Forwards == sweep # None /\ sweep.mode = "forward"

Ahead == forward_next(tape, cursor)

ForwardTo(c, ops) ==
  /\ Forwards
  /\ ~cskip_op_[c.op_index_]
  /\ OpAt(tape, c).op \in ops

(* Mutant of ForwardSkip: the loop over skipped operators does not move on. *)
ForwardSkipStuck ==
  /\ Forwards
  /\ cskip_op_[Ahead.op_index_]
  /\ UNCHANGED vars

ForwardSkip ==
  /\ Forwards
  /\ cskip_op_[Ahead.op_index_]
  /\ cursor' = IF OpAt(tape, Ahead).op = "CSum" THEN forward_csum(tape, Ahead)
                                                ELSE Ahead
  /\ UNCHANGED <<tape, taylor_, num_order_taylor_, cskip_op_, compare_change_,
                 Partial, sweep, result>>

ForwardInv ==
  /\ ForwardTo(Ahead, {"Inv"})
  /\ cursor' = Ahead
  /\ UNCHANGED <<tape, taylor_, num_order_taylor_, cskip_op_, compare_change_,
                 Partial, sweep, result>>

ForwardCompute ==
  /\ ForwardTo(Ahead, Computing)
  /\ taylor_' = WriteOrders(tape, taylor_, Instr(tape, Ahead), sweep.p, sweep.q)
  /\ cursor' = IF OpAt(tape, Ahead).op = "CSum" THEN forward_csum(tape, Ahead)
                                                ELSE Ahead
  /\ UNCHANGED <<tape, num_order_taylor_, cskip_op_, compare_change_, Partial,
                 sweep, result>>

(* The comparison came out differently than recorded: the recorded one     *)
(* does not hold.                                                          *)
Changed(t, y, ins) ==
  LET s == OperandsOf(t, y, ins, 0) IN ~Holds(ins.op, s[1], s[2])

(* op_index_ is set whenever number_ is count_, changed or not. *)
ForwardCompare ==
  /\ ForwardTo(Ahead, Comparison)
  /\ compare_change_' =
       IF sweep.p = 0 /\ compare_change_.count > 0
         THEN LET number == compare_change_.number
                    + (IF Changed(tape, taylor_, Instr(tape, Ahead)) THEN 1 ELSE 0)
              IN  [compare_change_ EXCEPT
                     !.number = number,
                     !.op_index = IF number = compare_change_.count
                                    THEN Ahead.op_index_ ELSE @]
         ELSE compare_change_
  /\ cursor' = Ahead
  /\ UNCHANGED <<tape, taylor_, num_order_taylor_, cskip_op_, Partial, sweep,
                 result>>

ForwardCSkip ==
  /\ ForwardTo(Ahead, {"CSkip"})
  /\ LET ins == Instr(tape, Ahead)
         s == OperandsOf(tape, taylor_, ins, 0)
         skip == IF Holds(ins.test, s[1], s[2]) THEN ins.if_true
                                                ELSE ins.if_false
     IN  cskip_op_' = [i \in Op(tape) |->
                         cskip_op_[i] \/ (sweep.p = 0 /\ i \in skip)]
  /\ cursor' = forward_cskip(tape, Ahead)
  /\ UNCHANGED <<tape, taylor_, num_order_taylor_, compare_change_, Partial,
                 sweep, result>>

(* Mutants of Orders: higher orders computed before are kept, or the new   *)
(* ones are added to them.                                                 *)
GreaterOrders(q) == IF num_order_taylor_ > q THEN num_order_taylor_ ELSE q + 1

AddedOrders(q) == num_order_taylor_ + q + 1

(* The orders known after a sweep up to order q. *)
Orders(q) == q + 1

(* The sweep ends and Forward returns the coefficients of the dependents. *)
ForwardEnd ==
  /\ ForwardTo(Ahead, {"End"})
  /\ cursor' = Ahead
  /\ num_order_taylor_' = Orders(sweep.q)
  /\ result' = [k \in sweep.p .. sweep.q |->
       [i \in DOMAIN tape.dep_taddr_ |-> taylor_[k][tape.dep_taddr_[i]]]]
  /\ sweep' = None
  /\ UNCHANGED <<tape, taylor_, cskip_op_, compare_change_, Partial>>

-----------------------------------------------------------------------------
(***************************************************************************)
(* A reverse sweep.  The calls of reverse_csum and reverse_cskip that      *)
(* belong to the operators are compiled out, since tape.hpp defines        *)
(* CL_TAPE_TRACE_ENABLED; the trace makes them, if text is set: there is a *)
(* stream other than cout for a text serializer.                           *)
(***************************************************************************)

(* The weights are added, since two dependents can be the same variable. *)
Weighted(w) ==
  FoldLeft(LAMBDA part, i :
             [part EXCEPT ![tape.dep_taddr_[i]] = @ ++ w[i]],
           [a \in Address(tape) |-> Zero],
           [i \in DOMAIN w |-> i])

ReverseSweep(w, text) ==
  /\ sweep = None
  /\ num_order_taylor_ >= 1
  /\ (Traced /\ OptimizedTape(tape)) => text
  /\ Partial' = Weighted(w)
  /\ cursor' = reverse_start(tape)
  /\ sweep' = [mode |-> "reverse", w |-> w, text |-> text]
  /\ result' = None
  /\ UNCHANGED <<tape, taylor_, num_order_taylor_, cskip_op_, compare_change_>>

Backwards == sweep # None /\ sweep.mode = "reverse"

Behind == reverse_next(tape, cursor)

ReverseTo(c, ops) ==
  /\ Backwards
  /\ ~cskip_op_[c.op_index_]
  /\ OpAt(tape, c).op \in ops

ReverseSkip ==
  /\ Backwards
  /\ cskip_op_[Behind.op_index_]
  /\ cursor' = IF OpAt(tape, Behind).op = "CSum" THEN reverse_csum(tape, Behind)
                                                 ELSE Behind
  /\ UNCHANGED <<tape, taylor_, num_order_taylor_, cskip_op_, compare_change_,
                 Partial, sweep, result>>

(* What an instruction adds to the partials of its operands. *)
Propagated(part, ins) ==
  LET add == Adjoint(ins, OperandsOf(tape, taylor_, ins, 0), taylor_[0][ins.res],
                     taylor_[0][ins.res - 1], part[ins.res], part[ins.res - 1])
  IN  FoldLeft(LAMBDA sum, j :
                 IF ins.kind[j] = "v"
                   THEN [sum EXCEPT ![ins.arg[j]] = @ ++ add[j]]
                   ELSE sum,
               part, [j \in DOMAIN ins.arg |-> j])

ReverseCompute ==
  /\ ReverseTo(Behind, Computing)
  /\ cursor' = IF OpAt(tape, Behind).op = "CSum" /\ sweep.text
                 THEN reverse_csum(tape, Behind) ELSE Behind
  /\ Partial' = Propagated(Partial, Instr(tape, cursor'))
  /\ UNCHANGED <<tape, taylor_, num_order_taylor_, cskip_op_, compare_change_,
                 sweep, result>>

ReverseCSkip ==
  /\ ReverseTo(Behind, {"CSkip"})
  /\ cursor' = IF sweep.text THEN reverse_cskip(tape, Behind) ELSE Behind
  /\ UNCHANGED <<tape, taylor_, num_order_taylor_, cskip_op_, compare_change_,
                 Partial, sweep, result>>

ReversePass ==
  /\ ReverseTo(Behind, {"Inv"} \union Comparison)
  /\ cursor' = Behind
  /\ UNCHANGED <<tape, taylor_, num_order_taylor_, cskip_op_, compare_change_,
                 Partial, sweep, result>>

(* The sweep ends; Reverse returns the partials of the independents, and   *)
(* Partial, a local variable, is gone.                                     *)
ReverseBegin ==
  /\ ReverseTo(Behind, {"Begin"})
  /\ cursor' = Behind
  /\ result' = [j \in 1 .. tape.n |-> Partial[j]]
  /\ Partial' = [a \in Address(tape) |-> Zero]
  /\ sweep' = None
  /\ UNCHANGED <<tape, taylor_, num_order_taylor_, cskip_op_, compare_change_>>

-----------------------------------------------------------------------------

ForwardNext ==
  \/ ForwardSkip
  \/ ForwardInv
  \/ ForwardCompute
  \/ ForwardCompare
  \/ ForwardCSkip
  \/ ForwardEnd

ReverseNext ==
  \/ ReverseSkip
  \/ ReverseCompute
  \/ ReverseCSkip
  \/ ReversePass
  \/ ReverseBegin

Next ==
  \/ \E c \in Counts[tape] : CompareChangeCount(c)
  \/ \E q \in 0 .. 1 : \E p \in 0 .. q : ForwardSweep(p, q)
  \/ \E w \in [DOMAIN tape.dep_taddr_ -> Num], text \in BOOLEAN :
       ReverseSweep(w, text)
  \/ ForwardNext
  \/ ReverseNext

Spec == Init /\ [][Next]_vars

(* A call runs in its thread to its end: it waits for nothing, and a       *)
(* thread that can run is scheduled in the end.  Nobody needs to call.     *)
Fairness == WF_vars(ForwardNext) /\ WF_vars(ReverseNext)

FairSpec == Spec /\ Fairness

-----------------------------------------------------------------------------
(* The state keeps its types. *)
TypeOK ==
  /\ tape \in Tapes
  /\ cursor.op_index_ \in Op(tape)
  /\ cursor.op_arg_ \in 0 .. tape.num_op_arg_rec
  /\ cursor.var_index_ \in Address(tape)
  /\ taylor_ \in [0 .. 1 -> [Address(tape) -> Num]]
  /\ num_order_taylor_ \in 0 .. 2
  /\ cskip_op_ \in [Op(tape) -> BOOLEAN]
  /\ compare_change_ \in [count : Nat, number : Op(tape), op_index : Op(tape)]
  /\ Partial \in [Address(tape) -> Num]
  /\ sweep # None =>
       \/ sweep \in [mode : {"forward"}, p : 0 .. 1, q : 0 .. 1]
       \/ sweep \in [mode : {"reverse"}, w : [DOMAIN tape.dep_taddr_ -> Num],
                     text : BOOLEAN]

(***************************************************************************)
(* The cursor stays on the tape's layout in both directions, whatever the  *)
(* operators and the flags: operators with a variable number of arguments, *)
(* skipped or not, are stepped over by as many as they were recorded with. *)
(***************************************************************************)
CursorAligned ==
  LET i == cursor.op_index_
  IN  sweep # None =>
        /\ cursor.var_index_ = tape.last[i]
        /\ IF sweep.mode = "forward"
             THEN cursor.op_arg_ + NumArg(tape.op_rec_[i])
                    = tape.first[i] + Size(tape, i)
             ELSE cursor.op_arg_ = tape.first[i]

(* The coefficients y solve an instruction to order k. *)
SolvedBy(t, y, ins, k) ==
  /\ y[k][ins.res] = ResultOf(t, y, ins, k)
  /\ ins.op \in TwoResults => y[k][ins.res - 1] = AuxiliaryOf(t, y, ins, k)

(* Those of the tape solve operator i, or it is skipped. *)
OrderSolved(i, k) ==
  (tape.op_rec_[i].op \in Computing /\ ~cskip_op_[i]) =>
    SolvedBy(tape, taylor_, Instr(tape, At(tape, i)), k)

(***************************************************************************)
(* Between forward sweeps, the coefficients stored for each known order    *)
(* satisfy every instruction that is not skipped.  No later call, and no   *)
(* stale coefficient of an earlier one, may break that: reverse sweeps and *)
(* higher orders compute from them.                                        *)
(***************************************************************************)
OrdersSolveTape ==
  ~Forwards =>
    \A i \in Op(tape), k \in 0 .. num_order_taylor_ - 1 : OrderSolved(i, k)

(* The comparisons that a zero-order sweep goes through and that no longer *)
(* hold.                                                                   *)
ChangedComparisons ==
  {i \in Op(tape) :
     /\ tape.op_rec_[i].op \in Comparison
     /\ ~cskip_op_[i]
     /\ Changed(tape, taylor_, Instr(tape, At(tape, i)))}

(* A zero-order sweep that counts ends with the number of comparisons that *)
(* changed, whatever was counted before.                                   *)
ChangesCounted ==
  [][(Forwards /\ sweep' = None /\ sweep.p = 0 /\ compare_change_.count > 0)
       => compare_change_.number = Cardinality(ChangedComparisons)]_vars

(* Every call returns: whatever the flags and the text stream, a sweep     *)
(* comes to the operator it ends at (more_operators) and does not run past *)
(* it or stay among skipped operators.                                     *)
CallsReturn == (sweep # None) ~> (sweep = None)

-----------------------------------------------------------------------------
(* The sweeps return values, derivatives and gradients of the function on  *)
(* the tape, whatever calls came before and whatever was skipped.          *)

FunctionOf(t) ==
  [n |-> t.n, par_rec_ |-> t.par_rec_, num_var_rec |-> t.num_var_rec,
   dep_taddr_ |-> t.dep_taddr_,
   ins |-> [i \in 1 .. t.num_op_rec |-> Instr(t, At(t, i - 1))]]

Abstract == INSTANCE Derivatives WITH
  Fun <- {FunctionOf(t) : t \in Tapes},
  fun <- FunctionOf(tape),
  x <- [k \in 0 .. 1 |-> [j \in 1 .. tape.n |-> taylor_[k][j]]],
  order <- num_order_taylor_,
  call <- IF Backwards THEN [mode |-> "reverse", w |-> sweep.w] ELSE sweep

(***************************************************************************)
(* What must hold of the skips on a tape, at every point u: there are      *)
(* variables L, the dependents among them, such that what a variable of L  *)
(* is computed from is in L, and none of L is skipped.  A conditional      *)
(* expression needs what it compares and the operand it chooses.  A skip   *)
(* comes before the operators it skips; if what it compares is not in L,   *)
(* it can choose either way.                                               *)
(***************************************************************************)
Needed(ins, s) ==
  IF ins.op \in CondExp
    THEN {1, 2, IF Holds(ins.op, s[1], s[2]) THEN 3 ELSE 4}
    ELSE DOMAIN ins.arg

InLive(ins, j, L) == ins.kind[j] = "v" => ins.arg[j] \in L

Chosen(ins, s) == IF Holds(ins.test, s[1], s[2]) THEN ins.if_true ELSE ins.if_false

Live(t, u, L) ==
  LET var == Abstract!Values(FunctionOf(t), u)
      ins(i) == Instr(t, At(t, i))
      s(i) == Operands(ins(i), var, t.par_rec_)
  IN  /\ \A i \in DOMAIN t.dep_taddr_ : t.dep_taddr_[i] \in L
      /\ \A i \in Op(t) : t.op_rec_[i].op \in Computing /\ t.last[i] \in L =>
           \A j \in Needed(ins(i), s(i)) : InLive(ins(i), j, L)
      /\ \A i \in Op(t) : t.op_rec_[i].op = "CSkip" =>
           \A k \in Op(t) \cap (ins(i).if_true \union ins(i).if_false) :
             /\ k > i
             /\ t.last[k] \in L => /\ \A j \in 1 .. 2 : InLive(ins(i), j, L)
                                  /\ k \notin Chosen(ins(i), s(i))

SkipsHarmless(t) ==
  \A u \in [1 .. t.n -> Num] :
    \E L \in SUBSET (1 .. t.num_var_rec - 1) : Live(t, u, L)

ImplementsDerivatives == Abstract!Spec
=============================================================================
