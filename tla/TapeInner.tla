----------------------------- MODULE TapeInner ------------------------------
(***************************************************************************)
(* tape_inner (cl/tape/impl/inner), a base type for which a value is a     *)
(* scalar or an array of scalars.  Operators work element by element; a    *)
(* scalar stands for as many equal elements as the other operand has.      *)
(*                                                                         *)
(* In a reverse sweep the partial of a scalar variable is an intrusive     *)
(* scalar, which remains one and adds up whatever it is given.  That of an *)
(* array variable is an array, or a scalar for an array of equal elements. *)
(***************************************************************************)
EXTENDS Naturals, SequencesExt

CONSTANTS
  Element, ZeroElement, OneElement,   (* The scalars.                      *)
  CalcElement(_, _), AuxElement(_, _), LessElement(_, _),
  Unary, TwoResults

(* The arithmetic of the elements. *)
Each == INSTANCE Taylor WITH
  Num <- Element, Zero <- ZeroElement, One <- OneElement,
  Calc <- CalcElement, Aux <- AuxElement, Less <- LessElement

Binary == Each!Binary

CondExp == Each!CondExp

Mode == {"ScalarMode", "IntrusiveScalar", "ArrayMode"}

Inner == [mode_ : Mode, scalar_value_ : Element, array_value_ : Seq(Element)]

Scalar(m) ==
  [mode_ |-> "ScalarMode", scalar_value_ |-> m, array_value_ |-> <<>>]

Array(s) ==
  [mode_ |-> "ArrayMode", scalar_value_ |-> ZeroElement, array_value_ |-> s]

is_scalar(v) == v.mode_ \in {"ScalarMode", "IntrusiveScalar"}

is_intrusive(v) == v.mode_ = "IntrusiveScalar"

set_intrusive(v, model) ==
  IF is_scalar(model) /\ v.mode_ = "ScalarMode"
    THEN [v EXCEPT !.mode_ = "IntrusiveScalar"] ELSE v

set_not_intrusive(v) ==
  IF is_intrusive(v) THEN [v EXCEPT !.mode_ = "ScalarMode"] ELSE v

size(v) == Len(v.array_value_)

element_at(v, k) ==
  IF is_scalar(v) THEN v.scalar_value_ ELSE v.array_value_[k]

sum(v) == IF is_scalar(v) THEN v.scalar_value_ ELSE Each!Total(v.array_value_)

(* The size two operands have together. *)
Common(x, y) == IF is_scalar(x) THEN size(y) ELSE size(x)

(* x op y, for the four cases of the operands. *)
BinaryOp(op, x, y) ==
  IF is_scalar(x) /\ is_scalar(y)
    THEN Scalar(CalcElement(op, <<x.scalar_value_, y.scalar_value_>>))
    ELSE Array([k \in 1 .. Common(x, y) |->
                  CalcElement(op, <<element_at(x, k), element_at(y, k)>>)])

(* A function of every element. *)
UnaryOp(f(_), x) ==
  IF is_scalar(x) THEN Scalar(f(x.scalar_value_))
                  ELSE Array([k \in 1 .. size(x) |-> f(x.array_value_[k])])

(* Mutant of AddTo: an intrusive scalar is treated as any other. *)
AddToPlain(x, y) ==
  IF is_scalar(x) /\ is_scalar(y)
    THEN [x EXCEPT !.scalar_value_ = CalcElement("Add", <<@, y.scalar_value_>>)]
    ELSE BinaryOp("Add", x, y)

(* x += y: an intrusive scalar adds the elements of y up, any other becomes *)
(* an array if y is one.                                                    *)
AddTo(x, y) ==
  IF is_intrusive(x) THEN [x EXCEPT !.scalar_value_ = CalcElement("Add", <<@, sum(y)>>)]
  ELSE IF is_scalar(x) /\ is_scalar(y)
    THEN [x EXCEPT !.scalar_value_ = CalcElement("Add", <<@, y.scalar_value_>>)]
    ELSE BinaryOp("Add", x, y)

(* A conditional expression: scalars choose one of the alternatives, arrays *)
(* choose for each element.                                                 *)
CondExpOp(cop, left, right, if_true, if_false) ==
  IF is_scalar(left) /\ is_scalar(right)
    THEN IF Each!Holds(cop, left.scalar_value_, right.scalar_value_)
           THEN if_true ELSE if_false
    ELSE Array([k \in 1 .. Common(left, right) |->
                  IF Each!Holds(cop, element_at(left, k), element_at(right, k))
                    THEN element_at(if_true, k) ELSE element_at(if_false, k)])

-----------------------------------------------------------------------------
(***************************************************************************)
(* The arithmetic of the sweeps over this base type: what Taylor says of   *)
(* numbers, with the operators above.  abs and conditional expressions,    *)
(* which compare, have an overload of their own.                           *)
(***************************************************************************)

CalcInner(op, s) ==
  IF op \in Binary THEN BinaryOp(op, s[1], s[2])
                   ELSE UnaryOp(LAMBDA m : CalcElement(op, <<m>>), s[1])

AuxInner(op, s) == UnaryOp(LAMBDA m : AuxElement(op, <<m>>), s[1])

(* Arrays compare if all their elements do. *)
LessInner(x, y) ==
  IF is_scalar(x) /\ is_scalar(y)
    THEN LessElement(x.scalar_value_, y.scalar_value_)
    ELSE \A k \in 1 .. Common(x, y) : LessElement(element_at(x, k), element_at(y, k))

Over == INSTANCE Taylor WITH
  Num <- Inner, Zero <- Scalar(ZeroElement), One <- Scalar(OneElement),
  Calc <- CalcInner, Aux <- AuxInner, Less <- LessInner

Operands(ins, y, par) == Over!Operands(ins, y, par)

sign(x) == UnaryOp(Each!Sign, x)

Order0Inner(ins, s) ==
  IF ins.op \in CondExp THEN CondExpOp(ins.op, s[1], s[2], s[3], s[4])
                        ELSE CalcInner(ins.op, s)

Order1Inner(ins, s, d, z) ==
  IF ins.op \in CondExp THEN CondExpOp(ins.op, s[1], s[2], d[3], d[4])
  ELSE IF ins.op = "Abs" THEN BinaryOp("Mul", sign(s[1]), d[1])
  ELSE Over!Order1(ins, s, d, z, z)

AdjointInner(ins, s, z, pz) ==
  IF ins.op \in CondExp
    THEN <<Scalar(ZeroElement), Scalar(ZeroElement),
           CondExpOp(ins.op, s[1], s[2], pz, Scalar(ZeroElement)),
           CondExpOp(ins.op, s[1], s[2], Scalar(ZeroElement), pz)>>
  ELSE IF ins.op = "Abs" THEN <<BinaryOp("Mul", sign(s[1]), pz)>>
  ELSE Over!Adjoint(ins, s, z, z, pz, pz)
=============================================================================
