----------------------------- MODULE ArraySweep -----------------------------
(***************************************************************************)
(* Forward and Reverse of an ADFun over tape_inner.  The sweeps are those  *)
(* of Sweep, here without optimized operators and without the layout of    *)
(* the tape: a tape is the sequence of its instructions, one per step, and *)
(* an atomic function is one instruction, for the operators UserOp to      *)
(* UserOp that put its arguments into vectors and its results back.        *)
(*                                                                         *)
(* A Taylor coefficient of order 1 of an array, a weight or a partial may  *)
(* be a scalar, for an array of equal elements.                            *)
(***************************************************************************)
EXTENDS TapeInnerOps, Integers

CONSTANTS
  Tapes,
  Given(_, _),  (* Given(k, n): the coefficients of order k that a caller  *)
                (* passes for a variable of shape n; for k = 1 the weights *)
                (* as well.                                                *)
  None

VARIABLES
  tape,
  taylor_,     (* taylor_[k][a]: the coefficient of order k of variable a. *)
  num_order_taylor_,
  Partial,     (* Of the reverse sweep in progress.                        *)
  done,        (* The instructions that a forward sweep has computed, the  *)
               (* weights that Reverse has added, and the instructions its *)
               (* sweep has left.                                          *)
  operand,     (* The operands of the next one whose partials it has added. *)
  sweep,       (* The call in progress.                                    *)
  result

vars == <<tape, taylor_, num_order_taylor_, Partial, done, operand, sweep, result>>

Address(t) == 1 .. t.num_var_rec - 1

(* The results of an instruction, the last one at ins.res. *)
ResultsOf(ins) == IF ins.op = "unpack_vec" THEN ins.n ELSE 1

Results(ins) == ins.res - ResultsOf(ins) + 1 .. ins.res

(* v has shape n: it is an array of n elements, or for n = 0 a scalar. *)
HasShape(v, n) ==
  IF n = 0 THEN v.mode_ = "ScalarMode" ELSE v.mode_ = "ArrayMode" /\ size(v) = n

(* v stands for a value of shape n. *)
StandsFor(v, n) == HasShape(v, 0) \/ HasShape(v, n)

-----------------------------------------------------------------------------
Width(n) == IF n = 0 THEN 1 ELSE n

(* The shape of the results, when the operands have shapes sh. *)
Shape(ins, sh) ==
  CASE ins.op \in Binary -> IF sh[1] = 0 THEN sh[2] ELSE sh[1]
    [] ins.op \in Unary -> sh[1]
    [] ins.op \in CondExp ->
         IF sh[1] = 0 /\ sh[2] = 0 THEN sh[3] ELSE IF sh[1] = 0 THEN sh[2] ELSE sh[1]
    [] ins.op = "sum_vec" -> 0
    [] ins.op = "conc_vec" -> Start([j \in DOMAIN sh |-> Width(sh[j])], Len(sh) + 1)
    [] ins.op = "make_vec" -> ins.n
    [] ins.op = "unpack_vec" -> 0
    [] ins.op = "pack_vec" -> Len(sh)

ShapesOf(t, ins) ==
  [j \in DOMAIN ins.arg |-> IF ins.kind[j] = "v" THEN t.shape[ins.arg[j]]
                            ELSE t.par_shape[ins.arg[j] + 1]]

(* The array operands of an element by element operator have one size; an  *)
(* alternative of a conditional expression between scalars has its shape.  *)
ShapesFit(ins, sh) ==
  CASE ins.op \in Binary -> Len(sh) = 2 /\ (sh[1] = sh[2] \/ 0 \in {sh[1], sh[2]})
    [] ins.op \in Unary -> Len(sh) = 1
    [] ins.op \in CondExp ->
         /\ Len(sh) = 4
         /\ sh[1] = sh[2] \/ 0 \in {sh[1], sh[2]}
         /\ IF sh[1] = 0 /\ sh[2] = 0 THEN sh[3] = sh[4]
            ELSE {sh[3], sh[4]} \subseteq {0, IF sh[1] = 0 THEN sh[2] ELSE sh[1]}
    [] ins.op = "sum_vec" -> Len(sh) = 1
    [] ins.op = "conc_vec" -> Len(sh) > 0 /\ Shape(ins, sh) > 0
    [] ins.op = "make_vec" -> sh = <<0>> /\ ins.n > 0
    [] ins.op = "unpack_vec" -> sh = <<ins.n>> /\ ins.n > 0
    [] ins.op = "pack_vec" -> Len(sh) > 0 /\ \A j \in DOMAIN sh : sh[j] = 0

WellFormed(t) ==
  /\ t.n \in Nat /\ t.num_var_rec \in Nat /\ t.n < t.num_var_rec
  /\ t.shape \in [Address(t) -> Nat]
  /\ t.par_rec_ \in Seq(Inner)
  /\ t.par_shape \in [DOMAIN t.par_rec_ -> Nat]
  /\ \A i \in DOMAIN t.par_rec_ : HasShape(t.par_rec_[i], t.par_shape[i])
  /\ t.dep_taddr_ \in Seq(Address(t))
  /\ t.ins \in Seq([op : Binary \union Unary \union CondExp \union Atomic,
                    kind : Seq({"v", "p"}), arg : Seq(Nat), res : Nat, n : Nat])
  /\ \A i \in DOMAIN t.ins :
       LET ins == t.ins[i]
       IN  /\ Results(ins) \subseteq t.n + 1 .. t.num_var_rec - 1
           /\ Len(ins.kind) = Len(ins.arg)
           /\ \A j \in DOMAIN ins.arg :
                IF ins.kind[j] = "v"
                  THEN \/ ins.arg[j] \in 1 .. t.n
                       \/ \E h \in 1 .. i - 1 : ins.arg[j] \in Results(t.ins[h])
                  ELSE ins.arg[j] < Len(t.par_rec_)
           /\ ShapesFit(ins, ShapesOf(t, ins))
           /\ \A a \in Results(ins) : t.shape[a] = Shape(ins, ShapesOf(t, ins))
           /\ \A h \in 1 .. i - 1 : Results(t.ins[h]) \cap Results(ins) = {}
  /\ \A a \in Address(t) : a <= t.n \/ \E i \in DOMAIN t.ins : a \in Results(t.ins[i])

(* The weights a caller may pass to Reverse. *)
Weight(t) ==
  {w \in [DOMAIN t.dep_taddr_ -> UNION {Given(1, t.shape[a]) : a \in Address(t)}] :
     \A i \in DOMAIN w : w[i] \in Given(1, t.shape[t.dep_taddr_[i]])}

ASSUME TapesAssumption == \A t \in Tapes : WellFormed(t)
ASSUME GivenAssumption ==
  \A t \in Tapes : \A a \in Address(t) :
    /\ \A v \in Given(0, t.shape[a]) : HasShape(v, t.shape[a])
    /\ \A v \in Given(1, t.shape[a]) : StandsFor(v, t.shape[a])
ASSUME UnaryAssumption == Unary \subseteq {"Abs", "Exp", "Log"}
ASSUME NoneAssumption ==
  /\ \A k \in 0 .. 1 : None # [mode |-> "forward", k |-> k]
  /\ \A t \in Tapes : \A w \in Weight(t), m \in {"weigh", "reverse"} :
       None # [mode |-> m, w |-> w]

-----------------------------------------------------------------------------

Zeros(t) == [a \in Address(t) |-> Scalar(ZeroElement)]

Init ==
  /\ tape \in Tapes
  /\ taylor_ = [k \in 0 .. 1 |-> Zeros(tape)]
  /\ num_order_taylor_ = 0
  /\ Partial = Zeros(tape)
  /\ done = 0
  /\ operand = 0
  /\ sweep = None
  /\ result = None

(* Forward(k, u): the coefficients of order k of the independents are      *)
(* stored, and the sweep starts.                                           *)
ForwardSweep(k) ==
  /\ sweep = None
  /\ k <= num_order_taylor_
  /\ \E u \in [1 .. tape.n -> UNION {Given(k, tape.shape[a]) : a \in 1 .. tape.n}] :
       /\ \A a \in 1 .. tape.n : u[a] \in Given(k, tape.shape[a])
       /\ taylor_' = [taylor_ EXCEPT ![k] =
            [a \in Address(tape) |-> IF a \in 1 .. tape.n THEN u[a] ELSE @[a]]]
  /\ sweep' = [mode |-> "forward", k |-> k]
  /\ done' = 0
  /\ result' = None
  /\ UNCHANGED <<tape, num_order_taylor_, Partial, operand>>

(* The coefficients of order k of the operands of ins. *)
OperandsOf(t, y, ins, k) ==
  Operands(ins, y[k], IF k = 0 THEN t.par_rec_
                      ELSE [i \in DOMAIN t.par_rec_ |-> Scalar(ZeroElement)])

Computed(t, y, ins, k) ==
  LET s == OperandsOf(t, y, ins, 0)
      d == OperandsOf(t, y, ins, k)
  IN  IF ins.op \in Atomic THEN forward(ins, s, d)
      ELSE IF k = 0 THEN <<Order0Inner(ins, s)>>
      ELSE <<Order1Inner(ins, s, d, y[0][ins.res])>>

Forwards == sweep # None /\ sweep.mode = "forward"

ForwardNext ==
  /\ Forwards
  /\ done < Len(tape.ins)
  /\ done' = done + 1
  /\ LET ins == tape.ins[done']
         y == Computed(tape, taylor_, ins, sweep.k)
     IN  taylor_' = [taylor_ EXCEPT ![sweep.k] =
           [a \in Address(tape) |->
              IF a \in Results(ins) THEN y[a - ins.res + ResultsOf(ins)] ELSE @[a]]]
  /\ UNCHANGED <<tape, num_order_taylor_, Partial, operand, sweep, result>>

(* Mutant of Orders: a sweep counts as one more. *)
OneMoreOrder(k) == num_order_taylor_ + 1

(* The number of orders known after a forward sweep of order k. *)
Orders(k) == k + 1

ForwardEnd ==
  /\ Forwards
  /\ done = Len(tape.ins)
  /\ num_order_taylor_' = Orders(sweep.k)
  /\ result' = [k |-> sweep.k,
                y |-> [i \in DOMAIN tape.dep_taddr_ |->
                         taylor_[sweep.k][tape.dep_taddr_[i]]]]
  /\ sweep' = None
  /\ done' = 0
  /\ UNCHANGED <<tape, taylor_, Partial, operand>>

-----------------------------------------------------------------------------
(* Reverse(1, w): the partials of scalars are made intrusive. *)
ReverseSweep(w) ==
  /\ sweep = None
  /\ num_order_taylor_ >= 1
  /\ Partial' = [a \in Address(tape) |-> set_intrusive(Scalar(ZeroElement), taylor_[0][a])]
  /\ done' = 0
  /\ sweep' = [mode |-> "weigh", w |-> w]
  /\ result' = None
  /\ UNCHANGED <<tape, taylor_, num_order_taylor_, operand>>

Weighs == sweep # None /\ sweep.mode = "weigh"

(* The weights are added to the partials of the dependents. *)
ReverseWeigh ==
  /\ Weighs
  /\ done < Len(tape.dep_taddr_)
  /\ done' = done + 1
  /\ Partial' = [Partial EXCEPT ![tape.dep_taddr_[done']] = AddTo(@, sweep.w[done'])]
  /\ UNCHANGED <<tape, taylor_, num_order_taylor_, operand, sweep, result>>

(* The sweep starts at the last instruction. *)
ReverseStart ==
  /\ Weighs
  /\ done = Len(tape.dep_taddr_)
  /\ done' = Len(tape.ins)
  /\ sweep' = [sweep EXCEPT !.mode = "reverse"]
  /\ UNCHANGED <<tape, taylor_, num_order_taylor_, Partial, operand, result>>

(* The partials of the operands of ins that are due to its results. *)
Due(t, y, part, ins) ==
  LET s == OperandsOf(t, y, ins, 0)
  IN  IF ins.op \in Atomic
        THEN reverse(ins, s, [k \in 1 .. ResultsOf(ins) |->
                                part[ins.res - ResultsOf(ins) + k]])
        ELSE AdjointInner(ins, s, y[0][ins.res], part[ins.res])

Backwards == sweep # None /\ sweep.mode = "reverse"

(* The next operand has what is due added to its partial. *)
ReverseNext ==
  /\ Backwards
  /\ done > 0
  /\ LET ins == tape.ins[done]
         j == operand + 1
     IN  /\ Partial' = IF ins.kind[j] = "v"
                          THEN [Partial EXCEPT ![ins.arg[j]] =
                                  AddTo(@, Due(tape, taylor_, Partial, ins)[j])]
                          ELSE Partial
         /\ operand' = IF j < Len(ins.arg) THEN j ELSE 0
         /\ done' = IF j < Len(ins.arg) THEN done ELSE done - 1
  /\ UNCHANGED <<tape, taylor_, num_order_taylor_, sweep, result>>

(* Reverse returns the partials of the independents. *)
ReverseEnd ==
  /\ Backwards
  /\ done = 0
  /\ result' = [dw |-> [j \in 1 .. tape.n |-> set_not_intrusive(Partial[j])]]
  /\ sweep' = None
  /\ Partial' = Zeros(tape)
  /\ UNCHANGED <<tape, taylor_, num_order_taylor_, done, operand>>

Next ==
  \/ \E k \in 0 .. 1 : ForwardSweep(k)
  \/ ForwardNext
  \/ ForwardEnd
  \/ \E w \in Weight(tape) : ReverseSweep(w)
  \/ ReverseWeigh
  \/ ReverseStart
  \/ ReverseNext
  \/ ReverseEnd

Spec == Init /\ [][Next]_vars

-----------------------------------------------------------------------------
(***************************************************************************)
(* Properties.                                                             *)
(***************************************************************************)

(* A partial in a reverse sweep, of a variable of shape n. *)
PartialOf(v, n) ==
  IF n = 0 THEN v.mode_ = "IntrusiveScalar" ELSE StandsFor(v, n)

(* The state keeps its types. *)
TypeOK ==
  /\ tape \in Tapes
  /\ DOMAIN taylor_ = 0 .. 1
  /\ \A k \in 0 .. 1 : DOMAIN taylor_[k] = Address(tape)
  /\ DOMAIN Partial = Address(tape)
  /\ num_order_taylor_ \in 0 .. 2
  /\ sweep \in {None} \union {[mode |-> "forward", k |-> k] : k \in 0 .. 1}
       \union {[mode |-> m, w |-> w] : m \in {"weigh", "reverse"}, w \in Weight(tape)}
  /\ done \in 0 .. IF Weighs THEN Len(tape.dep_taddr_) ELSE Len(tape.ins)
  /\ operand \in IF Backwards /\ done > 0 THEN 0 .. Len(tape.ins[done].arg) - 1 ELSE {0}

(* The values of order k that a sweep has before it. *)
Known(k, a) ==
  IF Forwards /\ sweep.k = k
    THEN a <= tape.n \/ \E i \in 1 .. done : a \in Results(tape.ins[i])
    ELSE k < num_order_taylor_ /\ ~(Forwards /\ sweep.k < k)

(***************************************************************************)
(* Scalars stay scalars and arrays keep their size, through operators and  *)
(* atomic functions of both: coefficients of order 0 have the shape of     *)
(* their variable, those of order 1 stand for one, and in a reverse sweep  *)
(* the partial of a scalar is an intrusive scalar, that of an array never. *)
(* It is what CL_ASSERT demands in sums, arrays of equal elements, packing *)
(* and unpacking.                                                          *)
(***************************************************************************)
ShapesKept ==
  \A a \in Address(tape) :
    /\ Known(0, a) => HasShape(taylor_[0][a], tape.shape[a])
    /\ Known(1, a) => StandsFor(taylor_[1][a], tape.shape[a])
    /\ Weighs \/ Backwards => PartialOf(Partial[a], tape.shape[a])

-----------------------------------------------------------------------------
(***************************************************************************)
(* The function of a tape, one number at a time: variable a becomes as     *)
(* many variables as it has elements, and the functions between scalars    *)
(* and arrays become sums of one or several of them.                       *)
(***************************************************************************)

(* The number of elements of the first k of shapes sh. *)
Widths(sh, k) == FoldLeft(LAMBDA m, j : m + Width(sh[j]), 0, [j \in 1 .. k |-> j])

Expand(v, n) == [k \in 1 .. Width(n) |-> element_at(v, k)]

(* Operand j of ins, element by element. *)
Elements(t, ins, j) ==
  [k \in 1 .. Width(ShapesOf(t, ins)[j]) |->
     [kind |-> ins.kind[j],
      arg |-> (IF ins.kind[j] = "v" THEN Widths(t.shape, ins.arg[j] - 1)
                                    ELSE Widths(t.par_shape, ins.arg[j])) + k]]

ElementOf(t, ins, j, k) ==
  Elements(t, ins, j)[IF ShapesOf(t, ins)[j] = 0 THEN 1 ELSE k]

(* The first parameter of a flat function is zero. *)
FlatIns(op, s, res) ==
  IF op = "CSum"
    THEN [op |-> op, kind |-> <<"p">> \o [j \in DOMAIN s |-> s[j].kind],
          arg |-> <<0>> \o [j \in DOMAIN s |-> s[j].arg],
          res |-> res, add |-> Len(s)]
    ELSE [op |-> op, kind |-> [j \in DOMAIN s |-> s[j].kind],
          arg |-> [j \in DOMAIN s |-> s[j].arg], res |-> res, add |-> 0]

(* The elements that each element of the results is the sum of. *)
Summands(t, ins) ==
  CASE ins.op = "sum_vec" -> <<Elements(t, ins, 1)>>
    [] ins.op = "make_vec" -> Repeat(Elements(t, ins, 1), ins.n)
    [] OTHER -> FoldLeft(LAMBDA all, j : all \o [k \in DOMAIN Elements(t, ins, j) |->
                                                 <<Elements(t, ins, j)[k]>>],
                         <<>>, [j \in DOMAIN ins.arg |-> j])

FlatOp(t, ins) ==
  LET first == Widths(t.shape, ins.res - ResultsOf(ins))
  IN  IF ins.op \in Atomic
        THEN [k \in DOMAIN Summands(t, ins) |->
                FlatIns("CSum", Summands(t, ins)[k], first + k)]
        ELSE [k \in 1 .. Width(t.shape[ins.res]) |->
                FlatIns(ins.op, [j \in DOMAIN ins.arg |-> ElementOf(t, ins, j, k)],
                        first + k)]

Flat(t) ==
  [n |-> Widths(t.shape, t.n),
   num_var_rec |-> Widths(t.shape, t.num_var_rec - 1) + 1,
   par_rec_ |-> <<ZeroElement>> \o FlattenSeq([i \in DOMAIN t.par_rec_ |->
                                          Expand(t.par_rec_[i], t.par_shape[i])]),
   dep_taddr_ |-> FlattenSeq([i \in DOMAIN t.dep_taddr_ |->
     LET a == t.dep_taddr_[i]
     IN  [k \in 1 .. Width(t.shape[a]) |-> Widths(t.shape, a - 1) + k]]),
   ins |-> FlattenSeq([i \in DOMAIN t.ins |-> FlatOp(t, t.ins[i])])]

Flats == [t \in Tapes |-> Flat(t)]

(* The elements of values of the independent or the dependent variables. *)
AtIndependents(y) ==
  FlattenSeq([a \in 1 .. tape.n |-> Expand(y[a], tape.shape[a])])

AtDependents(y) ==
  FlattenSeq([i \in DOMAIN tape.dep_taddr_ |->
                Expand(y[i], tape.shape[tape.dep_taddr_[i]])])

Abstract == INSTANCE Derivatives WITH
  Num <- Element, Zero <- ZeroElement, One <- OneElement,
  Calc <- CalcElement, Aux <- AuxElement, Less <- LessElement,
  Fun <- {Flats[t] : t \in Tapes},
  fun <- Flats[tape],
  x <- [k \in 0 .. 1 |-> AtIndependents(taylor_[k])],
  order <- num_order_taylor_,
  call <- IF Forwards THEN [mode |-> "forward", p |-> sweep.k, q |-> sweep.k]
          ELSE IF Weighs \/ Backwards THEN [mode |-> "reverse", w |-> AtDependents(sweep.w)]
          ELSE None,
  result <- IF result = None THEN None
            ELSE IF DOMAIN result = {"dw"} THEN AtIndependents(result.dw)
            ELSE [k \in {result.k} |-> AtDependents(result.y)]

(* Over tape_inner, Forward and Reverse return what an ADFun over double   *)
(* returns for the function of the elements: scalars that stand for arrays *)
(* of equal elements, in directions, weights and partials, stand for them  *)
(* everywhere.                                                             *)
ImplementsDerivatives == Abstract!Spec
=============================================================================
