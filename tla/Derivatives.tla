----------------------------- MODULE Derivatives ----------------------------
(***************************************************************************)
(* What an ADFun object promises.  It holds a function, as a sequence of   *)
(* instructions.  Forward(0, x) returns its value at x, Forward(1, d) its  *)
(* derivative there along d, Forward(1, x and d) both, and Reverse(1, w)   *)
(* the gradient of w times the function at the last x: the derivatives     *)
(* along the unit vectors, weighted by w.                                  *)
(*                                                                         *)
(* Derivatives are defined by the chain rule over the instructions, from   *)
(* the partial derivatives of each operator.  Conditional skips change     *)
(* nothing: they do not occur here.                                        *)
(***************************************************************************)
EXTENDS Taylor, Integers

CONSTANTS
  Fun,      (* Functions: [n, ins, par_rec_, num_var_rec, dep_taddr_].     *)
  None

VARIABLES
  fun,
  x,        (* x[k]: the coefficients of order k of the independents.      *)
  order,    (* The number of orders known at x.                            *)
  call,     (* The call in progress.                                       *)
  result    (* The result of the last one, until the next begins.          *)

vars == <<fun, x, order, call, result>>

Point(f) == [1 .. f.n -> Num]

Weight(f) == [DOMAIN f.dep_taddr_ -> Num]

(* The partial derivative of an operator with respect to operand j. *)
Slope(ins, s, j) ==
  CASE ins.op = "Add" -> One
    [] ins.op = "Sub" -> IF j = 1 THEN One ELSE Minus(One)
    [] ins.op = "Mul" -> s[3 - j]
    [] ins.op = "Div" -> IF j = 1 THEN One // s[2]
                                  ELSE Minus((s[1] // s[2]) // s[2])
    [] ins.op = "Abs" -> Sign(s[1])
    [] ins.op = "Exp" -> Calc("Exp", s)
    [] ins.op = "Log" -> One // s[1]
    [] ins.op = "Sin" -> Aux("Sin", s)
    [] ins.op = "Cos" -> Minus(Aux("Cos", s))
    [] ins.op = "Par" -> Zero
    [] ins.op = "CSum" -> IF j <= ins.add + 1 THEN One ELSE Minus(One)
    [] ins.op \in CondExp ->
         IF j = (IF Holds(ins.op, s[1], s[2]) THEN 3 ELSE 4) THEN One ELSE Zero

Computes(ins) == ins.op \notin {"Begin", "Inv", "CSkip", "End"} \union Comparison

(* The values of all variables at a point, in the order of the tape. *)
Values(f, u) ==
  FoldLeft(LAMBDA var, ins :
             IF Computes(ins)
               THEN [var EXCEPT ![ins.res] =
                      Order0(ins, Operands(ins, var, f.par_rec_))]
               ELSE var,
           [a \in 0 .. f.num_var_rec - 1 |-> IF a \in 1 .. f.n THEN u[a] ELSE Zero],
           f.ins)

(* Their derivatives at u along d. *)
Derivative(f, u, d) ==
  LET var == Values(f, u)
  IN  FoldLeft(LAMBDA dot, ins :
        IF Computes(ins)
          THEN [dot EXCEPT ![ins.res] =
                 Total([j \in DOMAIN ins.arg |->
                   IF ins.kind[j] = "v"
                     THEN Slope(ins, Operands(ins, var, f.par_rec_), j)
                            ** dot[ins.arg[j]]
                     ELSE Zero])]
          ELSE dot,
        [a \in 0 .. f.num_var_rec - 1 |-> IF a \in 1 .. f.n THEN d[a] ELSE Zero],
        f.ins)

(* The values at the dependent variables. *)
Dependents(f, var) == [i \in DOMAIN f.dep_taddr_ |-> var[f.dep_taddr_[i]]]

Unit(f, j) == [k \in 1 .. f.n |-> IF k = j THEN One ELSE Zero]

Gradient(f, u, w) ==
  [j \in 1 .. f.n |->
    LET dot == Dependents(f, Derivative(f, u, Unit(f, j)))
    IN  Total([i \in DOMAIN w |-> w[i] ** dot[i]])]

-----------------------------------------------------------------------------

Init ==
  /\ fun \in Fun
  /\ x \in [0 .. 1 -> Point(fun)]
  /\ order = 0
  /\ call = None
  /\ result = None

(* Forward(q, xq), for the orders p to q. *)
CallForward(p, q) ==
  /\ call = None
  /\ p \in 0 .. order
  /\ \E u \in [p .. q -> Point(fun)] :
       x' = [k \in 0 .. 1 |-> IF k \in p .. q THEN u[k] ELSE x[k]]
  /\ call' = [mode |-> "forward", p |-> p, q |-> q]
  /\ result' = None
  /\ UNCHANGED <<fun, order>>

CallReverse(w) ==
  /\ call = None
  /\ order > 0
  /\ call' = [mode |-> "reverse", w |-> w]
  /\ result' = None
  /\ UNCHANGED <<fun, x, order>>

ReturnForward ==
  /\ call # None /\ call.mode = "forward"
  /\ result' = [k \in call.p .. call.q |->
       Dependents(fun, IF k = 0 THEN Values(fun, x[0])
                                ELSE Derivative(fun, x[0], x[1]))]
  /\ order' = call.q + 1
  /\ call' = None
  /\ UNCHANGED <<fun, x>>

ReturnReverse ==
  /\ call # None /\ call.mode = "reverse"
  /\ result' = Gradient(fun, x[0], call.w)
  /\ call' = None
  /\ UNCHANGED <<fun, x, order>>

Next ==
  \/ \E q \in 0 .. 1 : \E p \in 0 .. q : CallForward(p, q)
  \/ \E w \in Weight(fun) : CallReverse(w)
  \/ ReturnForward
  \/ ReturnReverse

Spec == Init /\ [][Next]_vars
=============================================================================
