-------------------------- MODULE ArraySweep_proofs --------------------------
(***************************************************************************)
(* That values keep the shapes of their variables, on every well-formed    *)
(* tape, in both directions, whatever the arithmetic of the elements is.   *)
(***************************************************************************)
EXTENDS ArraySweep, TLAPS, SequenceTheorems

(* v is a scalar of either mode, or an array of n elements. *)
Fits(v, n) == v.mode_ = "IntrusiveScalar" \/ StandsFor(v, n)

LEMMA LenOf ==
  ASSUME NEW n \in Nat, NEW f, f = [k \in 1 .. n |-> f[k]]
  PROVE  Len(f) = n
<1> DEFINE S == {f[k] : k \in 1 .. n}
<1>1. f \in [1 .. n -> S]
  OBVIOUS
<1>2. f \in Seq(S)
  BY <1>1, SeqDef
<1> QED
  BY <1>1, <1>2, LenProperties

(* An array of n elements, whatever they are. *)
LEMMA ArraySize ==
  ASSUME NEW n \in Nat \ {0}, NEW f, f = [k \in 1 .. n |-> f[k]]
  PROVE  HasShape(Array(f), n)
<1>1. Len(f) = n
  BY LenOf
<1> QED
  BY <1>1 DEF HasShape, Array, size

LEMMA ScalarFits ==
  ASSUME NEW m
  PROVE  HasShape(Scalar(m), 0)
  BY DEF HasShape, Scalar

LEMMA BinaryShape ==
  ASSUME NEW n \in Nat, NEW op, NEW x, NEW y, Fits(x, n), Fits(y, n)
  PROVE  HasShape(BinaryOp(op, x, y), IF is_scalar(x) /\ is_scalar(y) THEN 0 ELSE n)
<1>1. CASE is_scalar(x) /\ is_scalar(y)
  BY <1>1, ScalarFits DEF BinaryOp
<1>2. CASE ~(is_scalar(x) /\ is_scalar(y))
  <2> DEFINE f == [k \in 1 .. n |-> CalcElement(op, <<element_at(x, k), element_at(y, k)>>)]
  <2>1. n # 0 /\ Common(x, y) = n
    BY <1>2 DEF Fits, StandsFor, HasShape, Common, is_scalar
  <2>2. HasShape(Array(f), n)
    <3>1. f = [k \in 1 .. n |-> f[k]]
      OBVIOUS
    <3> HIDE DEF f
    <3> QED
      BY <3>1, <2>1, ArraySize
  <2> QED
    BY <1>2, <2>1, <2>2 DEF BinaryOp
<1> QED
  BY <1>1, <1>2

LEMMA BinaryFits ==
  ASSUME NEW n \in Nat, NEW op, NEW x, NEW y, Fits(x, n), Fits(y, n)
  PROVE  StandsFor(BinaryOp(op, x, y), n)
  BY BinaryShape DEF StandsFor

LEMMA CalcFits ==
  ASSUME NEW n \in Nat, NEW x, NEW y, Fits(x, n), Fits(y, n)
  PROVE  /\ StandsFor(CalcInner("Add", <<x, y>>), n)
         /\ StandsFor(CalcInner("Sub", <<x, y>>), n)
         /\ StandsFor(CalcInner("Mul", <<x, y>>), n)
         /\ StandsFor(CalcInner("Div", <<x, y>>), n)
  BY BinaryFits DEF CalcInner, Binary, Each!Binary

LEMMA CalcUnaryShape ==
  ASSUME NEW n \in Nat, NEW op, op \notin Binary, NEW x, NEW s, s[1] = x, Fits(x, n)
  PROVE  HasShape(CalcInner(op, s), IF is_scalar(x) THEN 0 ELSE n)
<1>1. CASE is_scalar(x)
  BY <1>1, ScalarFits DEF CalcInner, UnaryOp
<1>2. CASE ~is_scalar(x)
  <2> DEFINE f == [k \in 1 .. n |-> CalcElement(op, <<x.array_value_[k]>>)]
  <2>1. n # 0 /\ size(x) = n
    BY <1>2 DEF Fits, StandsFor, HasShape, is_scalar
  <2>2. HasShape(Array(f), n)
    <3>1. f = [k \in 1 .. n |-> f[k]]
      OBVIOUS
    <3> HIDE DEF f
    <3> QED
      BY <3>1, <2>1, ArraySize
  <2> QED
    BY <1>2, <2>1, <2>2 DEF CalcInner, UnaryOp
<1> QED
  BY <1>1, <1>2

LEMMA SignFits ==
  ASSUME NEW n \in Nat, NEW x, Fits(x, n)
  PROVE  StandsFor(sign(x), n)
<1>1. CASE is_scalar(x)
  BY <1>1, ScalarFits DEF sign, UnaryOp, StandsFor
<1>2. CASE ~is_scalar(x)
  <2> DEFINE f == [k \in 1 .. n |-> Each!Sign(x.array_value_[k])]
  <2>1. n # 0 /\ size(x) = n
    BY <1>2 DEF Fits, StandsFor, HasShape, is_scalar
  <2>2. HasShape(Array(f), n)
    <3>1. f = [k \in 1 .. n |-> f[k]]
      OBVIOUS
    <3> HIDE DEF f
    <3> QED
      BY <3>1, <2>1, ArraySize
  <2> QED
    BY <1>2, <2>1, <2>2 DEF sign, UnaryOp, StandsFor
<1> QED
  BY <1>1, <1>2

LEMMA ZeroFits ==
  ASSUME NEW n \in Nat
  PROVE  StandsFor(Scalar(ZeroElement), n)
  BY ScalarFits DEF StandsFor

LEMMA FitsOfStandsFor ==
  ASSUME NEW v, NEW n, StandsFor(v, n)
  PROVE  Fits(v, n)
  BY DEF Fits

(* += keeps the shape of a partial. *)
LEMMA AddToKeeps ==
  ASSUME NEW n \in Nat, NEW x, NEW y, PartialOf(x, n), Fits(y, n) \/ n = 0
  PROVE  PartialOf(AddTo(x, y), n)
<1>1. CASE n = 0
  BY <1>1 DEF PartialOf, AddTo, is_intrusive
<1>2. CASE n # 0
  <2>1. StandsFor(x, n) /\ Fits(x, n) /\ Fits(y, n) /\ ~is_intrusive(x)
    BY <1>2 DEF PartialOf, Fits, StandsFor, HasShape, is_intrusive
  <2>2. CASE is_scalar(x) /\ is_scalar(y)
    BY <2>1, <2>2, <1>2 DEF PartialOf, AddTo, is_scalar, StandsFor, HasShape, is_intrusive
  <2>3. CASE ~(is_scalar(x) /\ is_scalar(y))
    BY <2>1, <2>3, <1>2, BinaryFits DEF PartialOf, AddTo
  <2> QED
    BY <2>2, <2>3
<1> QED
  BY <1>1, <1>2

-----------------------------------------------------------------------------
(* Conditional expressions. *)

LEMMA CondExpShape ==
  ASSUME NEW cop, NEW m \in Nat, NEW l, NEW r, NEW x, NEW y,
         Fits(l, m), Fits(r, m), ~(is_scalar(l) /\ is_scalar(r))
  PROVE  HasShape(CondExpOp(cop, l, r, x, y), m)
<1> DEFINE f == [k \in 1 .. m |-> IF Each!Holds(cop, element_at(l, k), element_at(r, k))
                                    THEN element_at(x, k) ELSE element_at(y, k)]
<1>1. m # 0 /\ Common(l, r) = m
  BY DEF Fits, StandsFor, HasShape, Common, is_scalar
<1>2. HasShape(Array(f), m)
  <2>1. f = [k \in 1 .. m |-> f[k]]
    OBVIOUS
  <2> HIDE DEF f
  <2> QED
    BY <2>1, <1>1, ArraySize
<1> QED
  BY <1>1, <1>2 DEF CondExpOp

(* Where the operands compared are scalars, it is one of the alternatives. *)
LEMMA CondExpScalar ==
  ASSUME NEW cop, NEW l, NEW r, NEW x, NEW y, is_scalar(l), is_scalar(r)
  PROVE  CondExpOp(cop, l, r, x, y) \in {x, y}
  BY DEF CondExpOp

LEMMA CondExpFits ==
  ASSUME NEW cop, NEW n \in Nat, NEW l, NEW r, NEW x, NEW y,
         Fits(l, n), Fits(r, n), Fits(x, n), Fits(y, n)
  PROVE  Fits(CondExpOp(cop, l, r, x, y), n)
<1>1. CASE is_scalar(l) /\ is_scalar(r)
  BY <1>1, CondExpScalar
<1>2. CASE ~(is_scalar(l) /\ is_scalar(r))
  BY <1>2, CondExpShape DEF Fits, StandsFor
<1> QED
  BY <1>1, <1>2

-----------------------------------------------------------------------------
(* Derivatives of the operators, for operands and a result that fit n. *)

LEMMA Order1Fits ==
  ASSUME NEW n \in Nat, NEW ins, NEW s, NEW d, NEW z, ins.op \in Binary \union Unary,
         Fits(s[1], n), Fits(d[1], n), Fits(z, n),
         ins.op \in Binary => Fits(s[2], n) /\ Fits(d[2], n)
  PROVE  StandsFor(Order1Inner(ins, s, d, z), n)
<1>1. CASE ins.op \in {"Add", "Sub"}
  <2>1. StandsFor(CalcInner(ins.op, <<d[1], d[2]>>), n)
    BY <1>1, CalcFits DEF Binary, Each!Binary
  <2> QED
    BY <1>1, <2>1 DEF Order1Inner, CondExp, Each!CondExp, Over!Order1, Over!CondExp, Over!forward_add_op,
      Over!forward_sub_op, Over!++, Over!--
<1>2. CASE ins.op = "Mul"
  <2>1. StandsFor(CalcInner("Mul", <<d[1], s[2]>>), n) /\ StandsFor(CalcInner("Mul", <<s[1], d[2]>>), n)
    BY <1>2, CalcFits DEF Binary, Each!Binary
  <2>2. StandsFor(CalcInner("Add", <<CalcInner("Mul", <<d[1], s[2]>>),
                                     CalcInner("Mul", <<s[1], d[2]>>)>>), n)
    BY <2>1, CalcFits, FitsOfStandsFor
  <2> QED
    BY <1>2, <2>2 DEF Order1Inner, CondExp, Each!CondExp, Over!Order1, Over!CondExp, Over!forward_mul_op, Over!++, Over!**
<1>3. CASE ins.op = "Div"
  <2>1. StandsFor(CalcInner("Mul", <<z, d[2]>>), n)
    BY <1>3, CalcFits DEF Binary, Each!Binary
  <2>2. StandsFor(CalcInner("Sub", <<d[1], CalcInner("Mul", <<z, d[2]>>)>>), n)
    BY <2>1, CalcFits, FitsOfStandsFor
  <2>3. StandsFor(CalcInner("Div", <<CalcInner("Sub", <<d[1], CalcInner("Mul", <<z, d[2]>>)>>), s[2]>>), n)
    BY <2>2, <1>3, CalcFits, FitsOfStandsFor DEF Binary, Each!Binary
  <2> QED
    BY <1>3, <2>3 DEF Order1Inner, CondExp, Each!CondExp, Over!Order1, Over!CondExp, Over!forward_div_op, Over!--, Over!**, Over!//
<1>4. CASE ins.op = "Abs"
  <2>1. StandsFor(BinaryOp("Mul", sign(s[1]), d[1]), n)
    BY SignFits, BinaryFits, FitsOfStandsFor
  <2> QED
    BY <1>4, <2>1 DEF Order1Inner, CondExp, Each!CondExp
<1>5. CASE ins.op \in {"Exp", "Log"}
  <2>1. StandsFor(CalcInner("Mul", <<d[1], z>>), n) /\ StandsFor(CalcInner("Div", <<d[1], s[1]>>), n)
    BY CalcFits
  <2> QED
    BY <1>5, <2>1 DEF Order1Inner, CondExp, Each!CondExp, Over!Order1, Over!CondExp, Over!forward_exp_op,
      Over!forward_log_op, Over!**, Over!//
<1> QED
  BY <1>1, <1>2, <1>3, <1>4, <1>5, UnaryAssumption DEF Binary, Each!Binary

LEMMA AdjointFits ==
  ASSUME NEW n \in Nat, NEW ins, NEW s, NEW z, NEW pz, NEW j \in 1 .. 2,
         ins.op \in Binary \union Unary,
         Fits(s[1], n), Fits(z, n), Fits(pz, n), ins.op \in Binary => Fits(s[2], n),
         ins.op \in Unary => j = 1
  PROVE  Fits(AdjointInner(ins, s, z, pz)[j], n)
<1>0. StandsFor(Scalar(ZeroElement), n) /\ Fits(Scalar(ZeroElement), n)
  BY ZeroFits, FitsOfStandsFor
<1>1. CASE ins.op = "Add"
  BY <1>1 DEF AdjointInner, CondExp, Each!CondExp, Over!Adjoint, Over!CondExp, Over!reverse_add_op
<1>2. CASE ins.op = "Sub"
  <2>1. Fits(CalcInner("Sub", <<Scalar(ZeroElement), pz>>), n)
    BY <1>0, CalcFits, FitsOfStandsFor
  <2> QED
    BY <1>2, <2>1 DEF AdjointInner, CondExp, Each!CondExp, Over!Adjoint, Over!CondExp, Over!reverse_sub_op, Over!Minus, Over!--
<1>3. CASE ins.op = "Mul"
  <2>1. Fits(CalcInner("Mul", <<pz, s[2]>>), n) /\ Fits(CalcInner("Mul", <<pz, s[1]>>), n)
    BY <1>3, CalcFits, FitsOfStandsFor DEF Binary, Each!Binary
  <2> QED
    BY <1>3, <2>1 DEF AdjointInner, CondExp, Each!CondExp, Over!Adjoint, Over!CondExp, Over!reverse_mul_op, Over!**
<1>4. CASE ins.op = "Div"
  <2> DEFINE q == CalcInner("Div", <<pz, s[2]>>)
             p == CalcInner("Mul", <<q, z>>)
  <2>1. Fits(q, n)
    BY <1>4, CalcFits, FitsOfStandsFor DEF Binary, Each!Binary
  <2>2. Fits(p, n)
    <3> HIDE DEF q
    <3> QED
      BY <2>1, CalcFits, FitsOfStandsFor
  <2>3. Fits(CalcInner("Sub", <<Scalar(ZeroElement), p>>), n)
    <3> HIDE DEF p
    <3> QED
      BY <2>2, <1>0, CalcFits, FitsOfStandsFor
  <2> QED
    BY <1>4, <2>1, <2>3 DEF AdjointInner, CondExp, Each!CondExp, Over!Adjoint, Over!CondExp, Over!reverse_div_op,
      Over!Minus, Over!--, Over!**, Over!//
<1>5. CASE ins.op = "Abs"
  <2>1. Fits(BinaryOp("Mul", sign(s[1]), pz), n)
    BY SignFits, BinaryFits, FitsOfStandsFor
  <2>2. j = 1
    BY <1>5 DEF Binary, Each!Binary
  <2> QED
    BY <1>5, <2>1, <2>2 DEF AdjointInner, CondExp, Each!CondExp
<1>6. CASE ins.op \in {"Exp", "Log"}
  <2>1. Fits(CalcInner("Mul", <<pz, z>>), n) /\ Fits(CalcInner("Div", <<pz, s[1]>>), n)
    BY CalcFits, FitsOfStandsFor
  <2>2. j = 1
    BY <1>6 DEF Binary, Each!Binary
  <2> QED
    BY <1>6, <2>1, <2>2 DEF AdjointInner, CondExp, Each!CondExp, Over!Adjoint, Over!CondExp, Over!reverse_exp_op,
      Over!reverse_log_op, Over!**, Over!//
<1> QED
  BY <1>1, <1>2, <1>3, <1>4, <1>5, <1>6, UnaryAssumption DEF Binary, Each!Binary

-----------------------------------------------------------------------------
(* Instructions.  The operands s of one have the shapes sh, m in number;   *)
(* those of order 1 stand for values of these shapes.                      *)

Shapes(sh, m) == m \in Nat /\ sh \in [1 .. m -> Nat]

Shaped(s, sh, m) ==
  s = [j \in 1 .. m |-> s[j]] /\ \A j \in 1 .. m : HasShape(s[j], sh[j])

Standing(d, sh, m) ==
  d = [j \in 1 .. m |-> d[j]] /\ \A j \in 1 .. m : StandsFor(d[j], sh[j])

LEMMA LenOfShapes ==
  ASSUME NEW sh, NEW m, Shapes(sh, m)
  PROVE  Len(sh) = m
  BY LenOf DEF Shapes

LEMMA ShapesByOperator ==
  ASSUME NEW ins, NEW sh, ShapesFit(ins, sh)
  PROVE  /\ ins.op \in Binary =>
              /\ Len(sh) = 2 /\ (sh[1] = sh[2] \/ sh[1] = 0 \/ sh[2] = 0)
              /\ Shape(ins, sh) = IF sh[1] = 0 THEN sh[2] ELSE sh[1]
         /\ ins.op \in Unary => Len(sh) = 1 /\ Shape(ins, sh) = sh[1]
         /\ ins.op \in CondExp =>
              /\ Len(sh) = 4
              /\ sh[1] = sh[2] \/ sh[1] = 0 \/ sh[2] = 0
              /\ IF sh[1] = 0 /\ sh[2] = 0 THEN sh[3] = sh[4] /\ Shape(ins, sh) = sh[3]
                 ELSE /\ Shape(ins, sh) = IF sh[1] = 0 THEN sh[2] ELSE sh[1]
                      /\ sh[3] \in {0, Shape(ins, sh)} /\ sh[4] \in {0, Shape(ins, sh)}
  BY UnaryAssumption DEF ShapesFit, Shape, Binary, Each!Binary, CondExp, Each!CondExp

LEMMA AtomicShapes ==
  ASSUME NEW ins, NEW sh, ShapesFit(ins, sh)
  PROVE  /\ ins.op = "sum_vec" => Len(sh) = 1 /\ Shape(ins, sh) = 0
         /\ ins.op = "conc_vec" =>
              /\ Len(sh) > 0 /\ Shape(ins, sh) > 0
              /\ Shape(ins, sh) = Start([j \in DOMAIN sh |-> Width(sh[j])], Len(sh) + 1)
         /\ ins.op = "make_vec" => sh = <<0>> /\ ins.n > 0 /\ Shape(ins, sh) = ins.n
         /\ ins.op = "unpack_vec" => sh = <<ins.n>> /\ ins.n > 0 /\ Shape(ins, sh) = 0
         /\ ins.op = "pack_vec" =>
              Len(sh) > 0 /\ (\A j \in DOMAIN sh : sh[j] = 0) /\ Shape(ins, sh) = Len(sh)
  BY UnaryAssumption DEF ShapesFit, Shape, Binary, Each!Binary, CondExp, Each!CondExp

LEMMA FitsOfShape ==
  ASSUME NEW v, NEW m, NEW n, HasShape(v, m) \/ StandsFor(v, m), m = n \/ m = 0
  PROVE  Fits(v, n) /\ StandsFor(v, n)
  BY DEF Fits, StandsFor, HasShape

LEMMA ScalarShape ==
  ASSUME NEW v, NEW n, HasShape(v, n)
  PROVE  is_scalar(v) <=> n = 0
  BY DEF HasShape, is_scalar

LEMMA Order0Shape ==
  ASSUME NEW ins, NEW sh, NEW m, NEW s, Shapes(sh, m), Shaped(s, sh, m), ShapesFit(ins, sh),
         ins.op \in Binary \union Unary \union CondExp
  PROVE  HasShape(Order0Inner(ins, s), Shape(ins, sh))
<1>0. Len(sh) = m /\ sh \in [1 .. m -> Nat]
  BY LenOfShapes DEF Shapes
<1>1. CASE ins.op \in Binary
  <2> DEFINE n == IF sh[1] = 0 THEN sh[2] ELSE sh[1]
  <2>1. m = 2 /\ Shape(ins, sh) = n /\ n \in Nat /\ (sh[1] = sh[2] \/ sh[1] = 0 \/ sh[2] = 0)
    BY <1>0, <1>1, ShapesByOperator
  <2>2. HasShape(s[1], sh[1]) /\ HasShape(s[2], sh[2])
    BY <2>1 DEF Shaped
  <2>3. Fits(s[1], n) /\ Fits(s[2], n)
    BY <2>1, <2>2, FitsOfShape
  <2>4. (is_scalar(s[1]) /\ is_scalar(s[2])) <=> n = 0
    BY <2>1, <2>2, ScalarShape
  <2>5. HasShape(BinaryOp(ins.op, s[1], s[2]), n)
    <3> HIDE DEF n
    <3> QED
      BY <2>1, <2>3, <2>4, BinaryShape
  <2> QED
    BY <2>1, <2>5, <1>1 DEF Order0Inner, CalcInner, Binary, Each!Binary, CondExp, Each!CondExp
<1>2. CASE ins.op \in Unary
  <2>1. m = 1 /\ Shape(ins, sh) = sh[1] /\ sh[1] \in Nat
    <3>1. Len(sh) = 1 /\ Shape(ins, sh) = sh[1]
      BY <1>2, ShapesByOperator
    <3> QED
      BY <1>0, <3>1
  <2>2. HasShape(s[1], sh[1])
    BY <2>1 DEF Shaped
  <2>3. ins.op \notin Binary /\ ins.op \notin CondExp
    BY <1>2, UnaryAssumption DEF Binary, Each!Binary, CondExp, Each!CondExp
  <2>4. HasShape(CalcInner(ins.op, s), IF is_scalar(s[1]) THEN 0 ELSE sh[1])
    BY <2>1, <2>2, <2>3, FitsOfShape, CalcUnaryShape
  <2> QED
    BY <2>1, <2>2, <2>3, <2>4, ScalarShape DEF Order0Inner
<1>3. CASE ins.op \in CondExp
  <2> DEFINE n == Shape(ins, sh)
  <2>1. /\ m = 4
        /\ \A j \in 1 .. 4 : HasShape(s[j], sh[j]) /\ sh[j] \in Nat
    BY <1>0, <1>3, ShapesByOperator DEF Shaped
  <2>2. is_scalar(s[1]) /\ is_scalar(s[2]) <=> sh[1] = 0 /\ sh[2] = 0
    BY <2>1, ScalarShape
  <2>3. CASE sh[1] = 0 /\ sh[2] = 0
    <3>1. n = sh[3] /\ n = sh[4]
      BY <1>3, <2>3, ShapesByOperator
    <3>2. CondExpOp(ins.op, s[1], s[2], s[3], s[4]) \in {s[3], s[4]}
      BY <2>2, <2>3, CondExpScalar
    <3>3. HasShape(s[3], n) /\ HasShape(s[4], n)
      <4>1. HasShape(s[3], sh[3]) /\ HasShape(s[4], sh[4])
        BY <2>1
      <4> QED
        BY <4>1, <3>1
    <3> QED
      BY <1>3, <3>2, <3>3 DEF Order0Inner
  <2>4. CASE ~(sh[1] = 0 /\ sh[2] = 0)
    <3>1. n \in Nat /\ (sh[1] = n \/ sh[1] = 0) /\ (sh[2] = n \/ sh[2] = 0)
      BY <1>3, <2>1, <2>4, ShapesByOperator
    <3>2. Fits(s[1], n) /\ Fits(s[2], n)
      BY <2>1, <3>1, FitsOfShape
    <3>3. HasShape(CondExpOp(ins.op, s[1], s[2], s[3], s[4]), n)
      <4> HIDE DEF n
      <4> QED
        BY <3>1, <3>2, <2>2, <2>4, CondExpShape
    <3> QED
      BY <1>3, <3>3 DEF Order0Inner
  <2> QED
    BY <2>3, <2>4
<1> QED
  BY <1>1, <1>2, <1>3

LEMMA StandingOfShaped ==
  ASSUME NEW s, NEW sh, NEW m, Shaped(s, sh, m)
  PROVE  Standing(s, sh, m)
  BY DEF Shaped, Standing, StandsFor

LEMMA ExtentsByShape ==
  ASSUME NEW s, NEW sh, NEW m, Shapes(sh, m), Shaped(s, sh, m)
  PROVE  Extents(s) = [j \in DOMAIN sh |-> Width(sh[j])] /\ Len(s) = Len(sh)
<1>1. DOMAIN s = 1 .. m /\ DOMAIN sh = 1 .. m
  BY DEF Shapes, Shaped
<1>2. ASSUME NEW j \in 1 .. m
      PROVE  Extent(s[j]) = Width(sh[j])
  <2>1. HasShape(s[j], sh[j])
    BY DEF Shaped
  <2> QED
    BY <2>1 DEF HasShape, Extent, Width, is_scalar
<1>3. Len(s) = m /\ Len(sh) = m
  BY LenOf, LenOfShapes DEF Shapes, Shaped
<1> QED
  BY <1>1, <1>2, <1>3 DEF Extents

LEMMA OneResult ==
  ASSUME NEW ins, ins.op # "unpack_vec", NEW k \in 1 .. ResultsOf(ins)
  PROVE  k = 1 /\ 1 \in 1 .. ResultsOf(ins)
  BY DEF ResultsOf

LEMMA ForwardShape ==
  ASSUME NEW ins, NEW sh, NEW m, NEW s, NEW t, Shapes(sh, m), Shaped(s, sh, m), Standing(t, sh, m),
         ShapesFit(ins, sh), ins.op \in Atomic, ins.n \in Nat, Shape(ins, sh) \in Nat,
         NEW k \in 1 .. ResultsOf(ins)
  PROVE  HasShape(forward(ins, s, t)[k], Shape(ins, sh))
<1>0. Len(sh) = m /\ sh \in [1 .. m -> Nat] /\ m \in Nat
  BY LenOfShapes DEF Shapes
<1>1. CASE ins.op = "sum_vec"
  <2>1. m = 1 /\ Shape(ins, sh) = 0 /\ k = 1
    <3>1. Len(sh) = 1 /\ Shape(ins, sh) = 0
      BY <1>1, AtomicShapes
    <3>2. k = 1
      BY <1>1, OneResult
    <3> QED
      BY <1>0, <3>1, <3>2
  <2>2. StandsFor(t[1], sh[1]) /\ HasShape(s[1], sh[1])
    BY <2>1 DEF Standing, Shaped
  <2>3. CASE is_scalar(t[1])
    <3>1. HasShape(t[1], 0)
      BY <2>2, <2>3 DEF StandsFor, HasShape, is_scalar
    <3>2. HasShape(Times(t[1], size(s[1])), 0)
      BY <2>3, ScalarFits DEF Times, BinaryOp, is_scalar, Scalar
    <3> QED
      BY <1>1, <2>1, <2>3, <3>1, <3>2 DEF forward, forward_sum_vec, sum_vec
  <2>4. CASE ~is_scalar(t[1])
    BY <1>1, <2>1, <2>4, ScalarFits DEF forward, forward_sum_vec, sum_vec
  <2> QED
    BY <2>3, <2>4
<1>2. CASE ins.op = "conc_vec"
  <2> DEFINE n == Start(Extents(s), Len(s) + 1)
             At(i) == CHOOSE j \in DOMAIN s : i \in Start(Extents(s), j) + 1 .. Start(Extents(s), j + 1)
             f == [i \in 1 .. n |-> element_at(t[At(i)], i - Start(Extents(s), At(i)))]
  <2>1. n = Shape(ins, sh) /\ n \in Nat \ {0} /\ k = 1
    BY <1>2, AtomicShapes, ExtentsByShape DEF ResultsOf
  <2>2. HasShape(Array(f), n)
    <3>1. f = [i \in 1 .. n |-> f[i]]
      OBVIOUS
    <3> HIDE DEF f, n
    <3> QED
      BY <3>1, <2>1, ArraySize
  <2>3. forward(ins, s, t)[1] = Array(f)
    BY <1>2 DEF forward, forward_conc_vec
  <2> HIDE DEF f, n
  <2> QED
    BY <2>1, <2>2, <2>3
<1>3. CASE ins.op = "make_vec"
  <2> DEFINE f == Repeat(t[1].scalar_value_, ins.n)
  <2>1. Shape(ins, sh) = ins.n /\ ins.n \in Nat \ {0} /\ k = 1
    <3>1. Shape(ins, sh) = ins.n /\ ins.n > 0
      BY <1>3, AtomicShapes
    <3>2. k = 1
      BY <1>3, OneResult
    <3> QED
      BY <3>1, <3>2
  <2>2. HasShape(Array(f), ins.n)
    <3>1. f = [i \in 1 .. ins.n |-> f[i]]
      BY DEF Repeat
    <3> HIDE DEF f
    <3> QED
      BY <3>1, <2>1, ArraySize
  <2> QED
    BY <1>3, <2>1, <2>2 DEF forward, forward_make_vec
<1>4. CASE ins.op = "unpack_vec"
  <2>1. Shape(ins, sh) = 0 /\ k \in 1 .. ins.n
    BY <1>4, AtomicShapes DEF ResultsOf
  <2> QED
    BY <1>4, <2>1, ScalarFits DEF forward, forward_unpack_vec
<1>5. CASE ins.op = "pack_vec"
  <2> DEFINE f == [j \in DOMAIN t |-> t[j].scalar_value_]
  <2>1. Shape(ins, sh) = m /\ m \in Nat \ {0} /\ k = 1
    <3>1. Shape(ins, sh) = Len(sh) /\ Len(sh) > 0
      BY <1>5, AtomicShapes
    <3>2. k = 1
      BY <1>5, OneResult
    <3> QED
      BY <1>0, <3>1, <3>2
  <2>2. HasShape(Array(f), m)
    <3>1. f = [i \in 1 .. m |-> f[i]]
      BY DEF Standing
    <3> HIDE DEF f
    <3> QED
      BY <3>1, <2>1, ArraySize
  <2> QED
    BY <1>5, <2>1, <2>2 DEF forward, forward_pack_vec
<1> QED
  BY <1>1, <1>2, <1>3, <1>4, <1>5 DEF Atomic

LEMMA ReverseFits ==
  ASSUME NEW ins, NEW sh, NEW m, NEW s, NEW py, Shapes(sh, m), Shaped(s, sh, m),
         ShapesFit(ins, sh), ins.op \in Atomic, ins.n \in Nat,
         py = [k \in 1 .. ResultsOf(ins) |-> py[k]],
         \A k \in 1 .. ResultsOf(ins) : PartialOf(py[k], Shape(ins, sh)),
         NEW j \in 1 .. m, sh[j] # 0
  PROVE  Fits(reverse(ins, s, py)[j], sh[j])
<1>0. Len(sh) = m /\ sh \in [1 .. m -> Nat] /\ m \in Nat
  BY LenOfShapes DEF Shapes
<1>1. CASE ins.op = "sum_vec"
  <2>1. j = 1
    <3>1. Len(sh) = 1
      BY <1>1, AtomicShapes
    <3> QED
      BY <1>0, <3>1
  <2>2. Fits(Scalar(py[1].scalar_value_), sh[j])
    BY ScalarFits DEF Fits, StandsFor
  <2> QED
    BY <1>1, <2>1, <2>2 DEF reverse, reverse_sum_vec
<1>2. CASE ins.op = "conc_vec"
  <2> DEFINE f == [k \in 1 .. Extent(s[j]) |-> py[1].array_value_[Start(Extents(s), j) + k]]
             r == IF is_scalar(py[1]) THEN py[1]
                  ELSE IF is_scalar(s[j]) THEN Scalar(f[1]) ELSE Array(f)
  <2>1. PartialOf(py[1], Shape(ins, sh)) /\ Shape(ins, sh) # 0
    <3>1. Shape(ins, sh) > 0
      BY <1>2, AtomicShapes
    <3>2. 1 \in 1 .. ResultsOf(ins)
      BY <1>2 DEF ResultsOf
    <3> QED
      BY <3>1, <3>2
  <2>2. DOMAIN s = 1 .. m /\ HasShape(s[j], sh[j]) /\ sh[j] \in Nat
    BY <1>0 DEF Shaped
  <2>3. reverse(ins, s, py)[j] = r
    BY <1>2, <2>2 DEF reverse, reverse_conc_vec
  <2>4. CASE is_scalar(py[1])
    <3>1. Fits(py[1], sh[j])
      BY <2>4 DEF Fits, StandsFor, HasShape, is_scalar
    <3> QED
      BY <2>3, <2>4, <3>1
  <2>5. CASE ~is_scalar(py[1])
    <3>1. ~is_scalar(s[j]) /\ Extent(s[j]) = sh[j]
      BY <2>2, ScalarShape DEF HasShape, Extent
    <3>2. HasShape(Array(f), sh[j])
      <4>1. f = [k \in 1 .. sh[j] |-> f[k]]
        BY <3>1
      <4> HIDE DEF f
      <4> QED
        BY <4>1, <2>2, ArraySize
    <3>3. r = Array(f)
      BY <2>5, <3>1
    <3> HIDE DEF r, f
    <3> QED
      BY <2>3, <3>2, <3>3 DEF Fits, StandsFor
  <2> QED
    BY <2>4, <2>5
<1>3. CASE ins.op = "make_vec"
  <2>1. sh = <<0>>
    BY <1>3, AtomicShapes
  <2>2. m = 1 /\ sh[j] = 0
    BY <1>0, <2>1
  <2> QED
    BY <2>2
<1>4. CASE ins.op = "unpack_vec"
  <2> DEFINE f == [k \in DOMAIN py |-> py[k].scalar_value_]
  <2>1. sh = <<ins.n>> /\ ins.n \in Nat \ {0} /\ DOMAIN py = 1 .. ins.n
    <3>1. sh = <<ins.n>> /\ ins.n > 0
      BY <1>4, AtomicShapes
    <3>2. DOMAIN py = 1 .. ins.n
      BY <1>4 DEF ResultsOf
    <3> QED
      BY <3>1, <3>2
  <2>2. j = 1 /\ sh[j] = ins.n
    BY <1>0, <2>1
  <2>3. HasShape(Array(f), ins.n)
    <3>1. f = [k \in 1 .. ins.n |-> f[k]]
      BY <2>1
    <3> HIDE DEF f
    <3> QED
      BY <3>1, <2>1, ArraySize
  <2>4. reverse(ins, s, py)[j] = Array(f)
    BY <1>4, <2>2 DEF reverse, reverse_unpack_vec
  <2> HIDE DEF f
  <2> QED
    BY <2>2, <2>3, <2>4 DEF Fits, StandsFor
<1>5. CASE ins.op = "pack_vec"
  <2>1. sh[j] = 0
    BY <1>0, <1>5, AtomicShapes
  <2> QED
    BY <2>1
<1> QED
  BY <1>1, <1>2, <1>3, <1>4, <1>5 DEF Atomic

-----------------------------------------------------------------------------
(* Instructions of a tape. *)

ShapesAt(t, i) == ShapesOf(t, t.ins[i])

(* The operands of ins among the variables have their shapes, or stand for *)
(* values of them.                                                         *)
OperandsShaped(t, ins, var) ==
  \A j \in 1 .. Len(ins.arg) :
    ins.kind[j] = "v" => HasShape(var[ins.arg[j]], t.shape[ins.arg[j]])

OperandsStand(t, ins, var) ==
  \A j \in 1 .. Len(ins.arg) :
    ins.kind[j] = "v" => StandsFor(var[ins.arg[j]], t.shape[ins.arg[j]])

InstructionOf ==
  [op : Binary \union Unary \union CondExp \union Atomic,
   kind : Seq({"v", "p"}), arg : Seq(Nat), res : Nat, n : Nat]

LEMMA InstructionsTyped ==
  ASSUME NEW t, WellFormed(t)
  PROVE  t.ins \in Seq(InstructionOf) /\ DOMAIN t.ins = 1 .. Len(t.ins) /\ Len(t.ins) \in Nat
<1>1. t.ins \in Seq(InstructionOf)
  BY DEF WellFormed, InstructionOf
<1> QED
  BY <1>1

LEMMA InstructionFits ==
  ASSUME NEW t, WellFormed(t), NEW i \in DOMAIN t.ins
  PROVE  /\ t.ins[i].op \in Binary \union Unary \union CondExp \union Atomic
         /\ t.ins[i].kind \in Seq({"v", "p"}) /\ t.ins[i].arg \in Seq(Nat)
         /\ Len(t.ins[i].kind) = Len(t.ins[i].arg)
         /\ t.ins[i].res \in Nat /\ t.ins[i].n \in Nat
         /\ Results(t.ins[i]) \subseteq t.n + 1 .. t.num_var_rec - 1
         /\ ShapesFit(t.ins[i], ShapesAt(t, i))
         /\ \A a \in Results(t.ins[i]) : t.shape[a] = Shape(t.ins[i], ShapesAt(t, i))
         /\ \A h \in 1 .. i - 1 : Results(t.ins[h]) \cap Results(t.ins[i]) = {}
<1>1. t.ins[i] \in InstructionOf
  BY InstructionsTyped
<1>2. t.ins[i].op \in Binary \union Unary \union CondExp \union Atomic
      /\ t.ins[i].kind \in Seq({"v", "p"}) /\ t.ins[i].arg \in Seq(Nat)
      /\ t.ins[i].res \in Nat /\ t.ins[i].n \in Nat
  BY <1>1 DEF InstructionOf
<1> QED
  BY <1>2 DEF WellFormed, ShapesAt

(* Its arguments: parameters, and variables that are known before it. *)
LEMMA ArgumentsKnown ==
  ASSUME NEW t, WellFormed(t), NEW i \in DOMAIN t.ins, NEW j \in 1 .. Len(t.ins[i].arg)
  PROVE  /\ t.ins[i].kind[j] = "v" =>
              /\ t.ins[i].arg[j] \in Address(t)
              /\ \/ t.ins[i].arg[j] \in 1 .. t.n
                 \/ \E h \in 1 .. i - 1 : t.ins[i].arg[j] \in Results(t.ins[h])
         /\ t.ins[i].kind[j] # "v" => t.ins[i].arg[j] + 1 \in DOMAIN t.par_rec_
<1>0. t.n \in Nat /\ t.num_var_rec \in Nat /\ t.n < t.num_var_rec /\ t.par_rec_ \in Seq(Inner)
  BY DEF WellFormed
<1>1. t.ins[i].arg \in Seq(Nat)
  BY InstructionFits
<1>2. j \in DOMAIN t.ins[i].arg /\ t.ins[i].arg[j] \in Nat
  BY <1>1
<1>3. IF t.ins[i].kind[j] = "v"
        THEN \/ t.ins[i].arg[j] \in 1 .. t.n
             \/ \E h \in 1 .. i - 1 : t.ins[i].arg[j] \in Results(t.ins[h])
        ELSE t.ins[i].arg[j] < Len(t.par_rec_)
  BY <1>2 DEF WellFormed
<1>4. ASSUME NEW h \in 1 .. i - 1, t.ins[i].arg[j] \in Results(t.ins[h])
      PROVE  t.ins[i].arg[j] \in Address(t)
  <2>1. h \in DOMAIN t.ins
    BY InstructionsTyped
  <2>2. Results(t.ins[h]) \subseteq t.n + 1 .. t.num_var_rec - 1
    BY <2>1, InstructionFits
  <2> QED
    BY <2>2, <1>0, <1>4 DEF Address
<1>5. t.ins[i].arg[j] \in 1 .. t.n => t.ins[i].arg[j] \in Address(t)
  BY <1>0 DEF Address
<1>6. t.ins[i].kind[j] # "v" => t.ins[i].arg[j] + 1 \in DOMAIN t.par_rec_
  BY <1>0, <1>2, <1>3
<1> QED
  BY <1>3, <1>4, <1>5, <1>6

LEMMA ShapesOfInstruction ==
  ASSUME NEW t, WellFormed(t), NEW i \in DOMAIN t.ins
  PROVE  Shapes(ShapesAt(t, i), Len(t.ins[i].arg)) /\ Len(t.ins[i].arg) > 0
<1> DEFINE m == Len(t.ins[i].arg)
           sh == ShapesAt(t, i)
<1>1. t.ins[i].arg \in Seq(Nat) /\ ShapesFit(t.ins[i], sh)
      /\ t.ins[i].op \in Binary \union Unary \union CondExp \union Atomic
  BY InstructionFits
<1>2. m \in Nat /\ DOMAIN t.ins[i].arg = 1 .. m
  BY <1>1
<1>3. t.shape \in [Address(t) -> Nat] /\ t.par_shape \in [DOMAIN t.par_rec_ -> Nat]
  BY DEF WellFormed
<1>4. ASSUME NEW j \in 1 .. m
      PROVE  (IF t.ins[i].kind[j] = "v" THEN t.shape[t.ins[i].arg[j]]
              ELSE t.par_shape[t.ins[i].arg[j] + 1]) \in Nat
  BY <1>3, ArgumentsKnown
<1>5. Shapes(sh, m)
  BY <1>2, <1>4 DEF Shapes, ShapesAt, ShapesOf
<1>6. Len(sh) = m
  BY <1>5, LenOfShapes
<1>7. Len(sh) > 0
  <2>1. t.ins[i].op = "make_vec" => Len(sh) = 1
    <3>1. t.ins[i].op = "make_vec" => sh = <<0>>
      BY <1>1, AtomicShapes
    <3> HIDE DEF sh
    <3> QED
      BY <3>1
  <2>2. t.ins[i].op = "unpack_vec" => Len(sh) = 1
    <3>1. t.ins[i].op = "unpack_vec" => sh = <<t.ins[i].n>>
      BY <1>1, AtomicShapes
    <3> HIDE DEF sh
    <3> QED
      BY <3>1
  <2>3. t.ins[i].op \in {"sum_vec", "conc_vec", "pack_vec"} => Len(sh) > 0
    <3> HIDE DEF sh
    <3>1. t.ins[i].op = "sum_vec" => Len(sh) = 1
      BY <1>1, AtomicShapes
    <3>2. t.ins[i].op = "conc_vec" => Len(sh) > 0
      BY <1>1, AtomicShapes
    <3>3. t.ins[i].op = "pack_vec" => Len(sh) > 0
      BY <1>1, AtomicShapes
    <3> QED
      BY <3>1, <3>2, <3>3
  <2>4. t.ins[i].op \in Binary \union Unary \union CondExp => Len(sh) > 0
    <3> HIDE DEF sh
    <3> QED
      BY <1>1, ShapesByOperator
  <2> HIDE DEF sh
  <2> QED
    BY <1>1, <2>1, <2>2, <2>3, <2>4 DEF Atomic
<1> HIDE DEF sh, m
<1> QED
  BY <1>5, <1>6, <1>7 DEF sh, m

LEMMA OperandsAreShaped ==
  ASSUME NEW t, WellFormed(t), NEW i \in DOMAIN t.ins, NEW y,
         OperandsShaped(t, t.ins[i], y[0])
  PROVE  Shaped(OperandsOf(t, y, t.ins[i], 0), ShapesAt(t, i), Len(t.ins[i].arg))
<1> DEFINE ins == t.ins[i]
           m == Len(ins.arg)
           s == OperandsOf(t, y, ins, 0)
<1>1. DOMAIN ins.arg = 1 .. m
  <2>1. ins.arg \in Seq(Nat)
    BY InstructionFits
  <2> QED
    BY <2>1
<1>2. s = [j \in 1 .. m |-> IF ins.kind[j] = "v" THEN y[0][ins.arg[j]]
                            ELSE t.par_rec_[ins.arg[j] + 1]]
  BY <1>1 DEF OperandsOf, Operands, Over!Operands
<1>3. ASSUME NEW j \in 1 .. m
      PROVE  HasShape(s[j], ShapesAt(t, i)[j])
  <2>1. CASE ins.kind[j] = "v"
    <3>1. s[j] = y[0][ins.arg[j]] /\ ShapesAt(t, i)[j] = t.shape[ins.arg[j]]
      BY <1>1, <1>2, <2>1 DEF ShapesAt, ShapesOf
    <3>2. HasShape(y[0][ins.arg[j]], t.shape[ins.arg[j]])
      BY <2>1 DEF OperandsShaped
    <3> HIDE DEF s, ins
    <3> QED
      BY <3>1, <3>2
  <2>2. CASE ins.kind[j] # "v"
    <3>1. s[j] = t.par_rec_[ins.arg[j] + 1]
          /\ ShapesAt(t, i)[j] = t.par_shape[ins.arg[j] + 1]
      BY <1>1, <1>2, <2>2 DEF ShapesAt, ShapesOf
    <3>2. ins.arg[j] + 1 \in DOMAIN t.par_rec_
      BY <2>2, ArgumentsKnown
    <3>3. HasShape(t.par_rec_[ins.arg[j] + 1], t.par_shape[ins.arg[j] + 1])
      BY <3>2 DEF WellFormed
    <3> HIDE DEF s, ins
    <3> QED
      BY <3>1, <3>3
  <2> QED
    BY <2>1, <2>2
<1>4. s = [j \in 1 .. m |-> s[j]]
  BY <1>2
<1> HIDE DEF s, m, ins
<1>5. Shaped(s, ShapesAt(t, i), m)
  BY <1>3, <1>4 DEF Shaped
<1> QED
  BY <1>5 DEF s, m, ins

LEMMA OperandsStandFor ==
  ASSUME NEW t, WellFormed(t), NEW i \in DOMAIN t.ins, NEW y,
         OperandsStand(t, t.ins[i], y[1])
  PROVE  Standing(OperandsOf(t, y, t.ins[i], 1), ShapesAt(t, i), Len(t.ins[i].arg))
<1> DEFINE ins == t.ins[i]
           m == Len(ins.arg)
           par == [k \in DOMAIN t.par_rec_ |-> Scalar(ZeroElement)]
           d == OperandsOf(t, y, ins, 1)
<1>1. DOMAIN ins.arg = 1 .. m
  <2>1. ins.arg \in Seq(Nat)
    BY InstructionFits
  <2> QED
    BY <2>1
<1>2. d = [j \in 1 .. m |-> IF ins.kind[j] = "v" THEN y[1][ins.arg[j]]
                            ELSE par[ins.arg[j] + 1]]
  BY <1>1 DEF OperandsOf, Operands, Over!Operands
<1>3. ASSUME NEW j \in 1 .. m
      PROVE  StandsFor(d[j], ShapesAt(t, i)[j])
  <2>1. CASE ins.kind[j] = "v"
    <3>1. d[j] = y[1][ins.arg[j]] /\ ShapesAt(t, i)[j] = t.shape[ins.arg[j]]
      BY <1>1, <1>2, <2>1 DEF ShapesAt, ShapesOf
    <3>2. StandsFor(y[1][ins.arg[j]], t.shape[ins.arg[j]])
      BY <2>1 DEF OperandsStand
    <3> HIDE DEF d, ins
    <3> QED
      BY <3>1, <3>2
  <2>2. CASE ins.kind[j] # "v"
    <3>1. ins.arg[j] + 1 \in DOMAIN t.par_rec_
      BY <2>2, ArgumentsKnown
    <3>2. d[j] = Scalar(ZeroElement)
      BY <1>2, <2>2, <3>1
    <3> HIDE DEF d
    <3> QED
      BY <3>2, ScalarFits DEF StandsFor
  <2> QED
    BY <2>1, <2>2
<1>4. d = [j \in 1 .. m |-> d[j]]
  BY <1>2
<1> HIDE DEF d, m, ins
<1>5. Standing(d, ShapesAt(t, i), m)
  BY <1>3, <1>4 DEF Standing
<1> QED
  BY <1>5 DEF d, m, ins

LEMMA ShapeIsNat ==
  ASSUME NEW t, WellFormed(t), NEW i \in DOMAIN t.ins
  PROVE  Shape(t.ins[i], ShapesAt(t, i)) \in Nat
<1> DEFINE ins == t.ins[i]
           n == Shape(ins, ShapesAt(t, i))
<1>1. ins.res \in Nat /\ ins.n \in Nat /\ Results(ins) \subseteq t.n + 1 .. t.num_var_rec - 1
      /\ \A a \in Results(ins) : t.shape[a] = n
  BY InstructionFits
<1>2. ResultsOf(ins) > 0 /\ ResultsOf(ins) \in Nat
  <2>1. ins.op = "unpack_vec" => ins.n > 0
    BY InstructionFits, AtomicShapes
  <2> QED
    BY <1>1, <2>1 DEF ResultsOf
<1>3. ins.res \in Results(ins)
  BY <1>1, <1>2 DEF Results
<1>4. ins.res \in Address(t)
  <2>1. t.n \in Nat /\ t.num_var_rec \in Nat
    BY DEF WellFormed
  <2>2. ins.res \in t.n + 1 .. t.num_var_rec - 1
    BY <1>1, <1>3
  <2> QED
    BY <2>1, <2>2 DEF Address
<1>5. t.shape[ins.res] \in Nat
  BY <1>4 DEF WellFormed
<1> HIDE DEF n, ins
<1> QED
  BY <1>1, <1>3, <1>5 DEF n, ins

(* What an element by element operator computes with fits its result. *)
LEMMA OperandsFit ==
  ASSUME NEW ins, NEW sh, NEW m, NEW s, Shapes(sh, m), Standing(s, sh, m), ShapesFit(ins, sh),
         ins.op \in Binary \union Unary
  PROVE  /\ Fits(s[1], Shape(ins, sh))
         /\ ins.op \in Binary => m = 2 /\ Fits(s[2], Shape(ins, sh))
         /\ ins.op \in Unary => m = 1
         /\ \A j \in 1 .. m : sh[j] # 0 => sh[j] = Shape(ins, sh)
<1>0. Len(sh) = m /\ sh \in [1 .. m -> Nat]
  BY LenOfShapes DEF Shapes
<1>1. CASE ins.op \in Binary
  <2> DEFINE n == Shape(ins, sh)
  <2>1. m = 2 /\ (sh[1] = n \/ sh[1] = 0) /\ (sh[2] = n \/ sh[2] = 0)
    BY <1>0, <1>1, ShapesByOperator
  <2>2. StandsFor(s[1], sh[1]) /\ StandsFor(s[2], sh[2])
    BY <2>1 DEF Standing
  <2>3. Fits(s[1], n) /\ Fits(s[2], n)
    <3> HIDE DEF n
    <3> QED
      BY <2>1, <2>2, FitsOfShape
  <2>4. ins.op \notin Unary
    BY <1>1, UnaryAssumption DEF Binary, Each!Binary
  <2>5. \A j \in 1 .. m : sh[j] # 0 => sh[j] = n
    <3> HIDE DEF n
    <3> QED
      BY <2>1
  <2> QED
    BY <2>1, <2>3, <2>4, <2>5
<1>2. CASE ins.op \in Unary
  <2> DEFINE n == Shape(ins, sh)
  <2>1. m = 1 /\ sh[1] = n
    BY <1>0, <1>2, ShapesByOperator
  <2>2. StandsFor(s[1], sh[1])
    BY <2>1 DEF Standing
  <2>3. Fits(s[1], n)
    <3> HIDE DEF n
    <3> QED
      BY <2>1, <2>2, FitsOfShape
  <2>4. ins.op \notin Binary
    BY <1>2, UnaryAssumption DEF Binary, Each!Binary
  <2>5. \A j \in 1 .. m : sh[j] # 0 => sh[j] = n
    <3> HIDE DEF n
    <3> QED
      BY <2>1
  <2> QED
    BY <2>1, <2>3, <2>4, <2>5
<1> QED
  BY <1>1, <1>2

LEMMA CondExpOrder1 ==
  ASSUME NEW ins, NEW sh, NEW m, NEW s, NEW d, Shapes(sh, m), Standing(d, sh, m), Shaped(s, sh, m),
         ShapesFit(ins, sh), ins.op \in CondExp, Shape(ins, sh) \in Nat
  PROVE  StandsFor(CondExpOp(ins.op, s[1], s[2], d[3], d[4]), Shape(ins, sh))
<1> DEFINE n == Shape(ins, sh)
<1>0. Len(sh) = m /\ sh \in [1 .. m -> Nat]
  BY LenOfShapes DEF Shapes
<1>1. m = 4 /\ (sh[3] = n \/ sh[3] = 0) /\ (sh[4] = n \/ sh[4] = 0)
      /\ (sh[1] = n \/ sh[1] = 0) /\ (sh[2] = n \/ sh[2] = 0)
  <2>1. Len(sh) = 4
    BY ShapesByOperator
  <2>2. sh[1] = sh[2] \/ sh[1] = 0 \/ sh[2] = 0
    BY ShapesByOperator
  <2>3. IF sh[1] = 0 /\ sh[2] = 0 THEN sh[3] = sh[4] /\ n = sh[3]
        ELSE /\ n = IF sh[1] = 0 THEN sh[2] ELSE sh[1]
             /\ sh[3] \in {0, n} /\ sh[4] \in {0, n}
    BY ShapesByOperator
  <2> HIDE DEF n
  <2> QED
    BY <1>0, <2>1, <2>2, <2>3
<1>2. StandsFor(d[3], sh[3]) /\ StandsFor(d[4], sh[4])
      /\ HasShape(s[1], sh[1]) /\ HasShape(s[2], sh[2])
  BY <1>1 DEF Standing, Shaped
<1> HIDE DEF n
<1>3. StandsFor(d[3], n) /\ StandsFor(d[4], n) /\ Fits(s[1], n) /\ Fits(s[2], n)
  BY <1>1, <1>2, FitsOfShape
<1>4. CASE is_scalar(s[1]) /\ is_scalar(s[2])
  BY <1>3, <1>4, CondExpScalar DEF n
<1>5. CASE ~(is_scalar(s[1]) /\ is_scalar(s[2]))
  <2>1. HasShape(CondExpOp(ins.op, s[1], s[2], d[3], d[4]), n)
    BY <1>3, <1>5, CondExpShape DEF n
  <2> QED
    BY <2>1 DEF StandsFor, n
<1> QED
  BY <1>4, <1>5

LEMMA CondExpAdjoint ==
  ASSUME NEW ins, NEW sh, NEW m, NEW s, NEW z, NEW pz, Shapes(sh, m), Shaped(s, sh, m),
         ShapesFit(ins, sh), ins.op \in CondExp, Shape(ins, sh) \in Nat,
         Fits(pz, Shape(ins, sh)), NEW j \in 1 .. m, sh[j] # 0
  PROVE  Fits(AdjointInner(ins, s, z, pz)[j], sh[j])
<1> DEFINE n == Shape(ins, sh)
           zero == Scalar(ZeroElement)
<1>0. Len(sh) = m /\ sh \in [1 .. m -> Nat]
  BY LenOfShapes DEF Shapes
<1>1. m = 4 /\ (sh[3] = n \/ sh[3] = 0) /\ (sh[4] = n \/ sh[4] = 0)
      /\ (sh[1] = n \/ sh[1] = 0) /\ (sh[2] = n \/ sh[2] = 0)
  <2>1. Len(sh) = 4
    BY ShapesByOperator
  <2>2. sh[1] = sh[2] \/ sh[1] = 0 \/ sh[2] = 0
    BY ShapesByOperator
  <2>3. IF sh[1] = 0 /\ sh[2] = 0 THEN sh[3] = sh[4] /\ n = sh[3]
        ELSE /\ n = IF sh[1] = 0 THEN sh[2] ELSE sh[1]
             /\ sh[3] \in {0, n} /\ sh[4] \in {0, n}
    BY ShapesByOperator
  <2> HIDE DEF n
  <2> QED
    BY <1>0, <2>1, <2>2, <2>3
<1>2. HasShape(s[1], sh[1]) /\ HasShape(s[2], sh[2])
  BY <1>1 DEF Shaped
<1>3. AdjointInner(ins, s, z, pz) =
        <<zero, zero, CondExpOp(ins.op, s[1], s[2], pz, zero), CondExpOp(ins.op, s[1], s[2], zero, pz)>>
  BY DEF AdjointInner
<1>4. sh[j] \in Nat /\ Fits(zero, sh[j]) /\ Fits(zero, n)
  BY <1>0, ZeroFits, FitsOfStandsFor
<1> HIDE DEF n, zero
<1>5. Fits(s[1], n) /\ Fits(s[2], n)
  BY <1>1, <1>2, FitsOfShape
<1>6. Fits(CondExpOp(ins.op, s[1], s[2], pz, zero), n)
      /\ Fits(CondExpOp(ins.op, s[1], s[2], zero, pz), n)
  BY <1>4, <1>5, CondExpFits DEF n
<1>7. CASE j \in 1 .. 2
  BY <1>3, <1>4, <1>7
<1>8. CASE j = 3
  BY <1>1, <1>3, <1>6, <1>8
<1>9. CASE j = 4
  BY <1>1, <1>3, <1>6, <1>9
<1> QED
  BY <1>1, <1>7, <1>8, <1>9

-----------------------------------------------------------------------------
(* What forward and reverse compute for instruction i of a tape. *)

LEMMA ComputedShape ==
  ASSUME NEW t, WellFormed(t), NEW i \in DOMAIN t.ins, NEW y,
         OperandsShaped(t, t.ins[i], y[0]), NEW k \in 1 .. ResultsOf(t.ins[i])
  PROVE  HasShape(Computed(t, y, t.ins[i], 0)[k], Shape(t.ins[i], ShapesAt(t, i)))
<1> DEFINE ins == t.ins[i]
           sh == ShapesAt(t, i)
           m == Len(ins.arg)
           s == OperandsOf(t, y, ins, 0)
<1>1. Shaped(s, sh, m) /\ Shapes(sh, m) /\ ShapesFit(ins, sh) /\ Shape(ins, sh) \in Nat
      /\ ins.n \in Nat /\ ins.op \in Binary \union Unary \union CondExp \union Atomic
  BY OperandsAreShaped, ShapesOfInstruction, InstructionFits, ShapeIsNat
<1>2. CASE ins.op \in Atomic
  <2>1. Computed(t, y, ins, 0) = forward(ins, s, s)
    BY <1>2 DEF Computed
  <2> HIDE DEF ins, sh, m, s
  <2>2. Standing(s, sh, m)
    BY <1>1, StandingOfShaped
  <2>3. k \in 1 .. ResultsOf(ins)
    BY DEF ins
  <2>4. HasShape(forward(ins, s, s)[k], Shape(ins, sh))
    BY <1>1, <1>2, <2>2, <2>3, ForwardShape
  <2> QED
    BY <2>1, <2>4 DEF ins, sh
<1>3. CASE ins.op \notin Atomic
  <2>1. Computed(t, y, ins, 0) = <<Order0Inner(ins, s)>>
    BY <1>3 DEF Computed
  <2> HIDE DEF ins, sh, m, s
  <2>2. k = 1
    BY <1>3, OneResult DEF ins, Atomic
  <2>3. HasShape(Order0Inner(ins, s), Shape(ins, sh))
    BY <1>1, <1>3, Order0Shape
  <2> QED
    BY <2>1, <2>2, <2>3 DEF ins, sh
<1> QED
  BY <1>2, <1>3

LEMMA ComputedStandsFor ==
  ASSUME NEW t, WellFormed(t), NEW i \in DOMAIN t.ins, NEW y,
         OperandsShaped(t, t.ins[i], y[0]), OperandsStand(t, t.ins[i], y[1]),
         HasShape(y[0][t.ins[i].res], Shape(t.ins[i], ShapesAt(t, i))),
         NEW k \in 1 .. ResultsOf(t.ins[i])
  PROVE  StandsFor(Computed(t, y, t.ins[i], 1)[k], Shape(t.ins[i], ShapesAt(t, i)))
<1> DEFINE ins == t.ins[i]
           sh == ShapesAt(t, i)
           m == Len(ins.arg)
           s == OperandsOf(t, y, ins, 0)
           d == OperandsOf(t, y, ins, 1)
           z == y[0][ins.res]
<1>1. Shaped(s, sh, m) /\ Shapes(sh, m) /\ ShapesFit(ins, sh) /\ Shape(ins, sh) \in Nat
      /\ ins.n \in Nat /\ ins.op \in Binary \union Unary \union CondExp \union Atomic
  BY OperandsAreShaped, ShapesOfInstruction, InstructionFits, ShapeIsNat
<1>2. Standing(d, sh, m)
  BY OperandsStandFor
<1>3. Standing(s, sh, m) /\ HasShape(z, Shape(ins, sh))
  <2> HIDE DEF sh, m, s
  <2>1. Standing(s, sh, m)
    BY <1>1, StandingOfShaped
  <2> QED
    BY <2>1 DEF sh
<1>4. CASE ins.op \in Atomic
  <2>1. Computed(t, y, ins, 1) = forward(ins, s, d)
    BY <1>4 DEF Computed
  <2> HIDE DEF ins, sh, m, s, d, z
  <2>2. k \in 1 .. ResultsOf(ins)
    BY DEF ins
  <2>3. HasShape(forward(ins, s, d)[k], Shape(ins, sh))
    BY <1>1, <1>2, <1>4, <2>2, ForwardShape
  <2> QED
    BY <2>1, <2>3 DEF StandsFor, ins, sh
<1>5. CASE ins.op \notin Atomic
  <2>1. Computed(t, y, ins, 1) = <<Order1Inner(ins, s, d, z)>>
    BY <1>5 DEF Computed
  <2> HIDE DEF ins, sh, m, s, d, z
  <2>2. k = 1
    BY <1>5, OneResult DEF ins, Atomic
  <2>3. StandsFor(Order1Inner(ins, s, d, z), Shape(ins, sh))
    <3>1. CASE ins.op \in CondExp
      <4>1. Order1Inner(ins, s, d, z) = CondExpOp(ins.op, s[1], s[2], d[3], d[4])
        BY <3>1 DEF Order1Inner
      <4> QED
        BY <1>1, <1>2, <3>1, <4>1, CondExpOrder1
    <3>2. CASE ins.op \in Binary \union Unary
      <4> DEFINE n == Shape(ins, sh)
      <4>1. Fits(s[1], n) /\ (ins.op \in Binary => Fits(s[2], n))
        BY <1>1, <1>3, <3>2, OperandsFit
      <4>2. Fits(d[1], n) /\ (ins.op \in Binary => Fits(d[2], n))
        BY <1>1, <1>2, <3>2, OperandsFit
      <4>3. Fits(z, n)
        BY <1>3 DEF Fits, StandsFor
      <4>4. n \in Nat
        BY <1>1
      <4> HIDE DEF n
      <4>5. StandsFor(Order1Inner(ins, s, d, z), n)
        BY <3>2, <4>1, <4>2, <4>3, <4>4, Order1Fits
      <4> QED
        BY <4>5 DEF n
    <3> QED
      BY <1>1, <1>5, <3>1, <3>2
  <2> QED
    BY <2>1, <2>2, <2>3 DEF ins, sh
<1> QED
  BY <1>4, <1>5

(* The partials of the results of ins are those of a reverse sweep. *)
ResultsPartial(t, i, part) ==
  \A a \in Results(t.ins[i]) : PartialOf(part[a], Shape(t.ins[i], ShapesAt(t, i)))

LEMMA DueFits ==
  ASSUME NEW t, WellFormed(t), NEW i \in DOMAIN t.ins, NEW y, NEW part,
         OperandsShaped(t, t.ins[i], y[0]), ResultsPartial(t, i, part),
         HasShape(y[0][t.ins[i].res], Shape(t.ins[i], ShapesAt(t, i))),
         NEW j \in 1 .. Len(t.ins[i].arg), ShapesAt(t, i)[j] # 0
  PROVE  Fits(Due(t, y, part, t.ins[i])[j], ShapesAt(t, i)[j])
<1> DEFINE ins == t.ins[i]
           sh == ShapesAt(t, i)
           m == Len(ins.arg)
           s == OperandsOf(t, y, ins, 0)
           z == y[0][ins.res]
           pz == part[ins.res]
           py == [k \in 1 .. ResultsOf(ins) |-> part[ins.res - ResultsOf(ins) + k]]
<1>1. Shaped(s, sh, m) /\ Shapes(sh, m) /\ ShapesFit(ins, sh) /\ Shape(ins, sh) \in Nat
      /\ ins.n \in Nat /\ ins.op \in Binary \union Unary \union CondExp \union Atomic
      /\ ins.res \in Nat
  BY OperandsAreShaped, ShapesOfInstruction, InstructionFits, ShapeIsNat
<1>2. Standing(s, sh, m) /\ HasShape(z, Shape(ins, sh))
  <2> HIDE DEF sh, m, s
  <2>1. Standing(s, sh, m)
    BY <1>1, StandingOfShaped
  <2> QED
    BY <2>1 DEF sh
<1>3. \A a \in Results(ins) : PartialOf(part[a], Shape(ins, sh))
  BY DEF ResultsPartial
<1>4. j \in 1 .. m /\ sh[j] # 0
  OBVIOUS
<1>5. CASE ins.op \in Atomic
  <2>1. Due(t, y, part, ins) = reverse(ins, s, py)
    BY <1>5 DEF Due
  <2>2. ASSUME NEW k \in 1 .. ResultsOf(ins)
        PROVE  PartialOf(py[k], Shape(ins, sh))
    <3>1. ins.res - ResultsOf(ins) + k \in Results(ins)
      <4>1. ResultsOf(ins) \in Nat
        BY <1>1 DEF ResultsOf
      <4> HIDE DEF ins
      <4> QED
        BY <1>1, <4>1 DEF Results
    <3>2. py[k] = part[ins.res - ResultsOf(ins) + k]
      OBVIOUS
    <3> HIDE DEF ins, sh, py
    <3> QED
      BY <1>3, <3>1, <3>2
  <2>3. py = [k \in 1 .. ResultsOf(ins) |-> py[k]]
    OBVIOUS
  <2> HIDE DEF ins, sh, m, s, z, py
  <2>4. Fits(reverse(ins, s, py)[j], sh[j])
    BY <1>1, <1>4, <1>5, <2>2, <2>3, ReverseFits
  <2> QED
    BY <2>1, <2>4 DEF ins, sh
<1>6. CASE ins.op \notin Atomic
  <2>1. Due(t, y, part, ins) = AdjointInner(ins, s, z, pz)
    BY <1>6 DEF Due
  <2>2. ins.res \in Results(ins)
    <3>1. ResultsOf(ins) = 1
      BY <1>6 DEF ResultsOf, Atomic
    <3> HIDE DEF ins
    <3> QED
      BY <1>1, <3>1 DEF Results
  <2>3. Fits(pz, Shape(ins, sh))
    <3>1. PartialOf(pz, Shape(ins, sh))
      BY <1>3, <2>2
    <3> HIDE DEF pz, ins, sh
    <3> QED
      BY <3>1 DEF PartialOf, Fits
  <2> HIDE DEF ins, sh, m, s, z, pz
  <2>4. Fits(AdjointInner(ins, s, z, pz)[j], sh[j])
    <3>1. CASE ins.op \in CondExp
      BY <1>1, <1>4, <2>3, <3>1, CondExpAdjoint
    <3>2. CASE ins.op \in Binary \union Unary
      <4> DEFINE n == Shape(ins, sh)
      <4>1. Fits(s[1], n) /\ (ins.op \in Binary => m = 2 /\ Fits(s[2], n))
            /\ (ins.op \in Unary => m = 1) /\ sh[j] = n
        BY <1>1, <1>2, <1>4, <3>2, OperandsFit
      <4>2. Fits(z, n)
        BY <1>2 DEF Fits, StandsFor
      <4>3. n \in Nat /\ j \in 1 .. 2 /\ (ins.op \in Unary => j = 1)
        BY <1>1, <1>4, <3>2, <4>1
      <4>4. Fits(pz, n)
        BY <2>3
      <4> HIDE DEF n
      <4>5. Fits(AdjointInner(ins, s, z, pz)[j], n)
        BY <3>2, <4>1, <4>2, <4>3, <4>4, AdjointFits
      <4> QED
        BY <4>1, <4>5
    <3> QED
      BY <1>1, <1>6, <3>1, <3>2
  <2> QED
    BY <2>1, <2>4 DEF ins, sh
<1> QED
  BY <1>5, <1>6

-----------------------------------------------------------------------------
(***************************************************************************)
(* The state.  A sweep of order 1 and a reverse sweep run where the        *)
(* coefficients of order 0 are known, and the operands of an instruction   *)
(* are known when the sweep reaches it.                                    *)
(***************************************************************************)

OrdersKnown ==
  /\ Forwards /\ sweep.k = 1 => num_order_taylor_ >= 1
  /\ Weighs \/ Backwards => num_order_taylor_ >= 1

IInv == TypeOK /\ ShapesKept /\ OrdersKnown

LEMMA Modes ==
  ASSUME TypeOK
  PROVE  /\ sweep = None => ~Forwards /\ ~Weighs /\ ~Backwards
         /\ Forwards => sweep.k \in 0 .. 1 /\ sweep = [mode |-> "forward", k |-> sweep.k]
                        /\ ~Weighs /\ ~Backwards
         /\ Weighs => sweep.w \in Weight(tape) /\ sweep = [mode |-> "weigh", w |-> sweep.w]
                      /\ ~Forwards /\ ~Backwards
         /\ Backwards => sweep.w \in Weight(tape) /\ sweep = [mode |-> "reverse", w |-> sweep.w]
                         /\ ~Forwards /\ ~Weighs
  BY DEF TypeOK, Forwards, Weighs, Backwards

LEMMA TapeFits ==
  ASSUME TypeOK
  PROVE  /\ WellFormed(tape) /\ tape \in Tapes
         /\ tape.n \in Nat /\ tape.num_var_rec \in Nat /\ tape.n < tape.num_var_rec
         /\ \A a \in Address(tape) : tape.shape[a] \in Nat
         /\ \A a \in Address(tape) : a <= tape.n \/ \E i \in DOMAIN tape.ins : a \in Results(tape.ins[i])
         /\ DOMAIN tape.ins = 1 .. Len(tape.ins) /\ Len(tape.ins) \in Nat
         /\ Len(tape.dep_taddr_) \in Nat /\ DOMAIN tape.dep_taddr_ = 1 .. Len(tape.dep_taddr_)
         /\ \A i \in DOMAIN tape.dep_taddr_ : tape.dep_taddr_[i] \in Address(tape)
<1>1. WellFormed(tape) /\ tape \in Tapes
  BY TapesAssumption DEF TypeOK
<1>2. DOMAIN tape.ins = 1 .. Len(tape.ins) /\ Len(tape.ins) \in Nat
  BY <1>1, InstructionsTyped
<1>3. tape.dep_taddr_ \in Seq(Address(tape))
  BY <1>1 DEF WellFormed
<1>4. Len(tape.dep_taddr_) \in Nat /\ DOMAIN tape.dep_taddr_ = 1 .. Len(tape.dep_taddr_)
      /\ \A i \in DOMAIN tape.dep_taddr_ : tape.dep_taddr_[i] \in Address(tape)
  BY <1>3
<1> QED
  BY <1>1, <1>2, <1>4 DEF WellFormed

(* What a sweep that has reached instruction i knows. *)
LEMMA KnownBefore ==
  ASSUME TypeOK, NEW i \in DOMAIN tape.ins, NEW k \in 0 .. 1,
         \/ Forwards /\ sweep.k = k /\ i = done + 1
         \/ ~(Forwards /\ sweep.k = k) /\ \A a \in Address(tape) : Known(k, a),
         NEW j \in 1 .. Len(tape.ins[i].arg), tape.ins[i].kind[j] = "v"
  PROVE  tape.ins[i].arg[j] \in Address(tape) /\ Known(k, tape.ins[i].arg[j])
<1>1. tape.ins[i].arg[j] \in Address(tape)
      /\ \/ tape.ins[i].arg[j] \in 1 .. tape.n
         \/ \E h \in 1 .. i - 1 : tape.ins[i].arg[j] \in Results(tape.ins[h])
  BY TapeFits, ArgumentsKnown
<1>2. CASE Forwards /\ sweep.k = k /\ i = done + 1
  <2>1. done \in Nat
    <3>1. ~Weighs /\ Len(tape.ins) \in Nat
      BY <1>2, Modes, TapeFits
    <3> QED
      BY <3>1 DEF TypeOK
  <2>2. i - 1 = done
    BY <1>2, <2>1
  <2> QED
    BY <1>1, <1>2, <2>2, TapeFits DEF Known
<1>3. CASE ~(Forwards /\ sweep.k = k) /\ \A a \in Address(tape) : Known(k, a)
  BY <1>1, <1>3
<1> QED
  BY <1>2, <1>3

(* The coefficients of order 0 are known in every other sweep. *)
LEMMA Order0Known ==
  ASSUME TypeOK, OrdersKnown, Weighs \/ Backwards \/ (Forwards /\ sweep.k = 1), NEW a
  PROVE  Known(0, a)
<1>1. num_order_taylor_ >= 1 /\ num_order_taylor_ \in 0 .. 2
  BY DEF OrdersKnown, TypeOK
<1>2. Forwards => sweep.k = 1
  BY Modes
<1> QED
  BY <1>1, <1>2 DEF Known

LEMMA OperandsKnown0 ==
  ASSUME IInv, NEW i \in DOMAIN tape.ins,
         Weighs \/ Backwards \/ (Forwards /\ i = done + 1)
  PROVE  OperandsShaped(tape, tape.ins[i], taylor_[0])
<1> SUFFICES ASSUME NEW j \in 1 .. Len(tape.ins[i].arg), tape.ins[i].kind[j] = "v"
             PROVE  HasShape(taylor_[0][tape.ins[i].arg[j]], tape.shape[tape.ins[i].arg[j]])
  BY DEF OperandsShaped
<1>1. \/ Forwards /\ sweep.k = 0 /\ i = done + 1
      \/ ~(Forwards /\ sweep.k = 0) /\ \A a \in Address(tape) : Known(0, a)
  BY Modes, Order0Known DEF IInv
<1>2. tape.ins[i].arg[j] \in Address(tape) /\ Known(0, tape.ins[i].arg[j])
  BY <1>1, KnownBefore DEF IInv
<1> QED
  BY <1>2 DEF IInv, ShapesKept

LEMMA OperandsKnown1 ==
  ASSUME IInv, NEW i \in DOMAIN tape.ins, Forwards, sweep.k = 1, i = done + 1
  PROVE  OperandsStand(tape, tape.ins[i], taylor_[1])
<1> SUFFICES ASSUME NEW j \in 1 .. Len(tape.ins[i].arg), tape.ins[i].kind[j] = "v"
             PROVE  StandsFor(taylor_[1][tape.ins[i].arg[j]], tape.shape[tape.ins[i].arg[j]])
  BY DEF OperandsStand
<1>1. tape.ins[i].arg[j] \in Address(tape) /\ Known(1, tape.ins[i].arg[j])
  BY KnownBefore DEF IInv
<1> QED
  BY <1>1 DEF IInv, ShapesKept

(* The results of an instruction are variables of its shape. *)
LEMMA ResultsAre ==
  ASSUME TypeOK, NEW i \in DOMAIN tape.ins, NEW a \in Results(tape.ins[i])
  PROVE  /\ a \in Address(tape) /\ tape.shape[a] = Shape(tape.ins[i], ShapesAt(tape, i))
         /\ a - tape.ins[i].res + ResultsOf(tape.ins[i]) \in 1 .. ResultsOf(tape.ins[i])
<1>1. tape.ins[i].res \in Nat /\ tape.ins[i].n \in Nat
      /\ Results(tape.ins[i]) \subseteq tape.n + 1 .. tape.num_var_rec - 1
      /\ tape.shape[a] = Shape(tape.ins[i], ShapesAt(tape, i))
  BY TapeFits, InstructionFits
<1>2. a \in tape.n + 1 .. tape.num_var_rec - 1
  BY <1>1
<1>3. a \in Address(tape)
  BY <1>2, TapeFits DEF Address
<1>4. ResultsOf(tape.ins[i]) \in Nat
  BY <1>1 DEF ResultsOf
<1>5. a - tape.ins[i].res + ResultsOf(tape.ins[i]) \in 1 .. ResultsOf(tape.ins[i])
  BY <1>1, <1>4 DEF Results
<1> QED
  BY <1>1, <1>3, <1>5

LEMMA LastResult ==
  ASSUME TypeOK, NEW i \in DOMAIN tape.ins
  PROVE  tape.ins[i].res \in Results(tape.ins[i])
<1>1. tape.ins[i].res \in Nat /\ tape.ins[i].n \in Nat /\ ShapesFit(tape.ins[i], ShapesAt(tape, i))
  BY TapeFits, InstructionFits
<1>2. tape.ins[i].op = "unpack_vec" => tape.ins[i].n > 0
  BY <1>1, AtomicShapes
<1>3. ResultsOf(tape.ins[i]) \in Nat /\ ResultsOf(tape.ins[i]) > 0
  BY <1>1, <1>2 DEF ResultsOf
<1> QED
  BY <1>1, <1>3 DEF Results

-----------------------------------------------------------------------------
(* The actions. *)

LEMMA InitInv == Init => IInv
<1> SUFFICES ASSUME Init PROVE IInv
  OBVIOUS
<1>1. ~Forwards /\ ~Weighs /\ ~Backwards
  BY DEF Init, Forwards, Weighs, Backwards
<1>2. TypeOK
  <2>1. tape \in Tapes
    BY DEF Init
  <2>2. WellFormed(tape)
    BY <2>1, TapesAssumption
  <2>3. Len(tape.ins) \in Nat
    BY <2>2, InstructionsTyped
  <2> QED
    BY <1>1, <2>1, <2>3 DEF Init, TypeOK, Zeros
<1>3. ShapesKept
  BY <1>1 DEF Init, ShapesKept, Known
<1>4. OrdersKnown
  BY <1>1 DEF OrdersKnown
<1> QED
  BY <1>2, <1>3, <1>4 DEF IInv

LEMMA ForwardSweepInv ==
  ASSUME IInv, NEW k \in 0 .. 1, ForwardSweep(k)
  PROVE  IInv'
<1>1. ~Forwards /\ ~Weighs /\ ~Backwards /\ operand = 0 /\ sweep = None
  BY Modes DEF IInv, TypeOK, ForwardSweep
<1>2. sweep' = [mode |-> "forward", k |-> k] /\ sweep' # None /\ tape' = tape
      /\ num_order_taylor_' = num_order_taylor_ /\ done' = 0 /\ operand' = operand
      /\ Partial' = Partial /\ k <= num_order_taylor_
  BY NoneAssumption DEF ForwardSweep
<1>3. Forwards' /\ sweep'.k = k /\ ~Weighs' /\ ~Backwards'
  BY <1>2 DEF Forwards, Weighs, Backwards
<1>4. num_order_taylor_ \in 0 .. 2 /\ tape \in Tapes /\ DOMAIN Partial = Address(tape)
      /\ DOMAIN taylor_ = 0 .. 1 /\ \A h \in 0 .. 1 : DOMAIN taylor_[h] = Address(tape)
  BY DEF IInv, TypeOK
<1>5. PICK u \in [1 .. tape.n -> UNION {Given(k, tape.shape[a]) : a \in 1 .. tape.n}] :
        /\ \A a \in 1 .. tape.n : u[a] \in Given(k, tape.shape[a])
        /\ taylor_' = [taylor_ EXCEPT ![k] =
             [a \in Address(tape) |-> IF a \in 1 .. tape.n THEN u[a] ELSE @[a]]]
  BY DEF ForwardSweep
<1>6. TypeOK'
  <2>1. DOMAIN taylor_' = 0 .. 1 /\ \A h \in 0 .. 1 : DOMAIN taylor_'[h] = Address(tape)
    BY <1>4, <1>5
  <2>2. Len(tape.ins) \in Nat
    BY TapeFits DEF IInv
  <2> QED
    BY <1>1, <1>2, <1>3, <1>4, <2>1, <2>2 DEF TypeOK
<1>7. ShapesKept'
  <2> SUFFICES ASSUME NEW a \in Address(tape)
               PROVE  /\ Known(0, a)' => HasShape(taylor_'[0][a], tape.shape[a])
                      /\ Known(1, a)' => StandsFor(taylor_'[1][a], tape.shape[a])
    BY <1>2, <1>3 DEF ShapesKept
  <2>1. a \in 1 .. tape.n => taylor_'[k][a] \in Given(k, tape.shape[a])
    <3>1. taylor_'[k] = [b \in Address(tape) |-> IF b \in 1 .. tape.n THEN u[b] ELSE taylor_[k][b]]
      BY <1>4, <1>5
    <3> QED
      BY <1>5, <3>1
  <2>2. Known(k, a)' => a \in 1 .. tape.n
    <3>1. Known(k, a)' => a <= tape.n
      BY <1>2, <1>3 DEF Known
    <3> QED
      BY <3>1, TapeFits DEF IInv, Address
  <2>3. CASE k = 0
    <3>1. ~Known(1, a)'
      BY <1>2, <1>3, <2>3 DEF Known
    <3>2. Known(0, a)' => HasShape(taylor_'[0][a], tape.shape[a])
      BY <1>4, <2>1, <2>2, <2>3, GivenAssumption
    <3> QED
      BY <3>1, <3>2
  <2>4. CASE k = 1
    <3>1. taylor_'[0] = taylor_[0]
      BY <1>4, <1>5, <2>4
    <3>2. Known(0, a)
      BY <1>1, <1>2, <1>4, <2>4 DEF Known
    <3>3. HasShape(taylor_[0][a], tape.shape[a])
      BY <3>2 DEF IInv, ShapesKept
    <3>4. Known(1, a)' => StandsFor(taylor_'[1][a], tape.shape[a])
      BY <1>4, <2>1, <2>2, <2>4, GivenAssumption
    <3> QED
      BY <3>1, <3>3, <3>4
  <2> QED
    BY <2>3, <2>4
<1>8. OrdersKnown'
  BY <1>2, <1>3, <1>4 DEF OrdersKnown
<1> QED
  BY <1>6, <1>7, <1>8 DEF IInv

LEMMA ForwardNextInv ==
  ASSUME IInv, ForwardNext
  PROVE  IInv'
<1>0. PICK k : k = sweep.k
  OBVIOUS
<1> DEFINE i == done + 1
           ins == tape.ins[i]
           y == Computed(tape, taylor_, ins, k)
<1>1. Forwards /\ ~Weighs /\ ~Backwards /\ k \in 0 .. 1 /\ sweep # None
      /\ sweep = [mode |-> "forward", k |-> k]
  BY <1>0, Modes DEF IInv, ForwardNext, Forwards
<1>2. done \in 0 .. Len(tape.ins) /\ done < Len(tape.ins) /\ Len(tape.ins) \in Nat /\ done' = i
      /\ i \in DOMAIN tape.ins
  <2>1. done \in 0 .. Len(tape.ins) /\ done < Len(tape.ins) /\ done' = i
    BY <1>1 DEF IInv, TypeOK, ForwardNext
  <2>2. Len(tape.ins) \in Nat /\ DOMAIN tape.ins = 1 .. Len(tape.ins)
    BY TapeFits DEF IInv
  <2> QED
    BY <2>1, <2>2
<1>3. tape' = tape /\ num_order_taylor_' = num_order_taylor_ /\ Partial' = Partial
      /\ operand' = operand /\ sweep' = sweep
  BY DEF ForwardNext
<1>4. Forwards' /\ ~Weighs' /\ ~Backwards' /\ sweep'.k = k
  BY <1>1, <1>3 DEF Forwards, Weighs, Backwards
<1>5. taylor_' = [taylor_ EXCEPT ![k] =
           [a \in Address(tape) |->
              IF a \in Results(ins) THEN y[a - ins.res + ResultsOf(ins)] ELSE @[a]]]
  BY <1>0, <1>2 DEF ForwardNext
<1>6. num_order_taylor_ \in 0 .. 2 /\ tape \in Tapes /\ DOMAIN Partial = Address(tape)
      /\ DOMAIN taylor_ = 0 .. 1 /\ (\A h \in 0 .. 1 : DOMAIN taylor_[h] = Address(tape))
      /\ operand = 0
  BY <1>1 DEF IInv, TypeOK
<1> HIDE DEF i, ins, y
<1>7. TypeOK'
  <2>1. DOMAIN taylor_' = 0 .. 1 /\ \A h \in 0 .. 1 : DOMAIN taylor_'[h] = Address(tape)
    BY <1>1, <1>5, <1>6
  <2>2. done' \in 0 .. Len(tape.ins)
    BY <1>2 DEF i
  <2>3. sweep' \in {None} \union {[mode |-> "forward", k |-> h] : h \in 0 .. 1}
    BY <1>1, <1>3
  <2> QED
    BY <1>3, <1>4, <1>6, <2>1, <2>2, <2>3 DEF TypeOK
<1>8. ASSUME NEW a \in Address(tape)
      PROVE  taylor_'[k][a] = IF a \in Results(ins) THEN y[a - ins.res + ResultsOf(ins)]
                              ELSE taylor_[k][a]
  BY <1>1, <1>5, <1>6
<1>9. ASSUME NEW a \in Address(tape), NEW h \in 0 .. 1, h # k
      PROVE  taylor_'[h][a] = taylor_[h][a] /\ (Known(h, a)' => Known(h, a))
  <2>1. taylor_'[h][a] = taylor_[h][a]
    BY <1>5, <1>6, <1>9
  <2> QED
    BY <1>0, <2>1, <1>1, <1>3, <1>4, <1>9 DEF Known
<1>10. ASSUME NEW a \in Address(tape), a \notin Results(ins), Known(k, a)'
       PROVE  Known(k, a)
  <2>1. a <= tape.n \/ \E h \in 1 .. i : a \in Results(tape.ins[h])
    BY <1>2, <1>3, <1>4, <1>10 DEF Known, i
  <2>2. a <= tape.n \/ \E h \in 1 .. done : a \in Results(tape.ins[h])
    BY <1>2, <1>10, <2>1 DEF i, ins
  <2> QED
    BY <1>0, <1>1, <2>2 DEF Known
<1>11. OperandsShaped(tape, ins, taylor_[0])
  BY <1>1, <1>2, OperandsKnown0 DEF i, ins
<1>12. ASSUME NEW a \in Address(tape), a \in Results(ins)
       PROVE  IF k = 0 THEN HasShape(taylor_'[0][a], tape.shape[a])
                       ELSE StandsFor(taylor_'[1][a], tape.shape[a])
  <2> DEFINE r == a - ins.res + ResultsOf(ins)
  <2>1. r \in 1 .. ResultsOf(ins) /\ tape.shape[a] = Shape(ins, ShapesAt(tape, i))
    BY <1>2, <1>12, ResultsAre DEF IInv, ins
  <2>2. taylor_'[k][a] = y[r]
    BY <1>8, <1>12
  <2>3. WellFormed(tape)
    BY TapeFits DEF IInv
  <2> HIDE DEF r
  <2>4. CASE k = 0
    <3>1. HasShape(Computed(tape, taylor_, ins, 0)[r], Shape(ins, ShapesAt(tape, i)))
      BY <1>2, <1>11, <2>1, <2>3, ComputedShape DEF ins
    <3> QED
      BY <2>1, <2>2, <2>4, <3>1 DEF y
  <2>5. CASE k = 1
    <3>1. OperandsStand(tape, ins, taylor_[1])
      BY <1>0, <1>1, <1>2, <2>5, OperandsKnown1 DEF i, ins
    <3>2. HasShape(taylor_[0][ins.res], Shape(ins, ShapesAt(tape, i)))
      <4>1. ins.res \in Results(ins)
        BY <1>2, LastResult DEF IInv, ins
      <4>2. ins.res \in Address(tape) /\ tape.shape[ins.res] = Shape(ins, ShapesAt(tape, i))
        BY <1>2, <4>1, ResultsAre DEF IInv, ins
      <4>3. Known(0, ins.res)
        BY <1>0, <1>1, <2>5, Order0Known DEF IInv
      <4>4. HasShape(taylor_[0][ins.res], tape.shape[ins.res])
        BY <4>2, <4>3 DEF IInv, ShapesKept
      <4> QED
        BY <4>2, <4>4
    <3>3. StandsFor(Computed(tape, taylor_, ins, 1)[r], Shape(ins, ShapesAt(tape, i)))
      BY <1>2, <1>11, <2>1, <2>3, <3>1, <3>2, ComputedStandsFor DEF ins
    <3> QED
      BY <2>1, <2>2, <2>5, <3>3 DEF y
  <2> QED
    BY <1>1, <2>4, <2>5
<1>13. ShapesKept'
  <2> SUFFICES ASSUME NEW a \in Address(tape)
               PROVE  /\ Known(0, a)' => HasShape(taylor_'[0][a], tape.shape[a])
                      /\ Known(1, a)' => StandsFor(taylor_'[1][a], tape.shape[a])
    BY <1>3, <1>4 DEF ShapesKept
  <2>1. /\ Known(0, a) => HasShape(taylor_[0][a], tape.shape[a])
        /\ Known(1, a) => StandsFor(taylor_[1][a], tape.shape[a])
    BY DEF IInv, ShapesKept
  <2>2. Known(0, a)' => HasShape(taylor_'[0][a], tape.shape[a])
    <3>1. CASE k = 0 /\ a \in Results(ins)
      BY <1>12, <3>1
    <3>2. CASE k = 0 /\ a \notin Results(ins)
      BY <1>8, <1>10, <2>1, <3>2
    <3>3. CASE k # 0
      BY <1>9, <2>1, <3>3
    <3> QED
      BY <3>1, <3>2, <3>3
  <2>3. Known(1, a)' => StandsFor(taylor_'[1][a], tape.shape[a])
    <3>1. CASE k = 1 /\ a \in Results(ins)
      BY <1>12, <3>1
    <3>2. CASE k = 1 /\ a \notin Results(ins)
      BY <1>8, <1>10, <2>1, <3>2
    <3>3. CASE k # 1
      BY <1>9, <2>1, <3>3
    <3> QED
      BY <3>1, <3>2, <3>3
  <2> QED
    BY <2>2, <2>3
<1>14. OrdersKnown'
  <2>1. OrdersKnown
    BY DEF IInv
  <2> QED
    BY <1>0, <1>3, <1>4, <1>1, <2>1 DEF OrdersKnown
<1> QED
  BY <1>7, <1>13, <1>14 DEF IInv

LEMMA ForwardEndInv ==
  ASSUME IInv, ForwardEnd
  PROVE  IInv'
<1> DEFINE k == sweep.k
<1>1. Forwards /\ ~Weighs /\ ~Backwards /\ k \in 0 .. 1
  BY Modes DEF IInv, ForwardEnd
<1>2. done = Len(tape.ins) /\ tape' = tape /\ num_order_taylor_' = k + 1 /\ sweep' = None
      /\ done' = 0 /\ taylor_' = taylor_ /\ Partial' = Partial /\ operand' = operand
  BY DEF ForwardEnd, Orders
<1>3. ~Forwards' /\ ~Weighs' /\ ~Backwards'
  BY <1>2 DEF Forwards, Weighs, Backwards
<1>4. TypeOK'
  <2>1. Len(tape.ins) \in Nat
    BY TapeFits DEF IInv
  <2>2. operand = 0 /\ tape \in Tapes /\ DOMAIN Partial = Address(tape)
        /\ DOMAIN taylor_ = 0 .. 1 /\ \A h \in 0 .. 1 : DOMAIN taylor_[h] = Address(tape)
    BY <1>1 DEF IInv, TypeOK
  <2> QED
    BY <1>1, <1>2, <1>3, <2>1, <2>2 DEF TypeOK
<1>5. ShapesKept'
  <2> SUFFICES ASSUME NEW a \in Address(tape)
               PROVE  /\ Known(0, a)' => HasShape(taylor_[0][a], tape.shape[a])
                      /\ Known(1, a)' => StandsFor(taylor_[1][a], tape.shape[a])
    BY <1>2, <1>3 DEF ShapesKept
  <2>1. Known(k, a)
    <3>1. a <= tape.n \/ \E i \in 1 .. done : a \in Results(tape.ins[i])
      BY <1>2, TapeFits DEF IInv
    <3> QED
      BY <1>1, <3>1 DEF Known
  <2>2. /\ Known(0, a) => HasShape(taylor_[0][a], tape.shape[a])
        /\ Known(1, a) => StandsFor(taylor_[1][a], tape.shape[a])
    BY DEF IInv, ShapesKept
  <2>3. CASE k = 0
    BY <1>2, <1>3, <2>1, <2>2, <2>3 DEF Known
  <2>4. CASE k = 1
    <3>1. Known(0, a)
      BY <1>1, <2>4, Order0Known DEF IInv
    <3> QED
      BY <2>1, <2>2, <2>4, <3>1
  <2> QED
    BY <1>1, <2>3, <2>4
<1>6. OrdersKnown'
  BY <1>3 DEF OrdersKnown
<1> QED
  BY <1>4, <1>5, <1>6 DEF IInv

LEMMA ReverseSweepInv ==
  ASSUME IInv, NEW w \in Weight(tape), ReverseSweep(w)
  PROVE  IInv'
<1>1. ~Forwards /\ ~Weighs /\ ~Backwards /\ operand = 0 /\ sweep = None
  BY Modes DEF IInv, TypeOK, ReverseSweep
<1>2. /\ tape' = tape /\ taylor_' = taylor_ /\ num_order_taylor_' = num_order_taylor_
      /\ operand' = operand /\ done' = 0 /\ num_order_taylor_ >= 1
      /\ sweep' = [mode |-> "weigh", w |-> w]
      /\ Partial' = [a \in Address(tape) |-> set_intrusive(Scalar(ZeroElement), taylor_[0][a])]
  BY DEF ReverseSweep
<1>3. tape \in Tapes /\ num_order_taylor_ \in 0 .. 2
      /\ DOMAIN taylor_ = 0 .. 1 /\ \A h \in 0 .. 1 : DOMAIN taylor_[h] = Address(tape)
  BY DEF IInv, TypeOK
<1>4. sweep' # None
  BY <1>2, <1>3, NoneAssumption
<1>5. ~Forwards' /\ Weighs' /\ ~Backwards'
  BY <1>2, <1>4 DEF Forwards, Weighs, Backwards
<1>6. TypeOK'
  <2>1. Len(tape.dep_taddr_) \in Nat
    BY TapeFits DEF IInv
  <2>2. sweep' \in {[mode |-> m, w |-> v] : m \in {"weigh", "reverse"}, v \in Weight(tape)}
    BY <1>2
  <2> QED
    BY <1>1, <1>2, <1>3, <1>5, <2>1, <2>2 DEF TypeOK
<1>7. ShapesKept'
  <2> SUFFICES ASSUME NEW a \in Address(tape)
               PROVE  /\ Known(0, a)' => HasShape(taylor_[0][a], tape.shape[a])
                      /\ Known(1, a)' => StandsFor(taylor_[1][a], tape.shape[a])
                      /\ PartialOf(Partial'[a], tape.shape[a])
    BY <1>2, <1>5 DEF ShapesKept
  <2>1. (Known(0, a)' => Known(0, a)) /\ (Known(1, a)' => Known(1, a)) /\ Known(0, a)
    BY <1>1, <1>2, <1>3, <1>5 DEF Known
  <2>2. HasShape(taylor_[0][a], tape.shape[a])
        /\ (Known(1, a) => StandsFor(taylor_[1][a], tape.shape[a]))
    BY <2>1 DEF IInv, ShapesKept
  <2>3. PartialOf(set_intrusive(Scalar(ZeroElement), taylor_[0][a]), tape.shape[a])
    BY <2>2 DEF PartialOf, set_intrusive, Scalar, HasShape, StandsFor, is_scalar
  <2> QED
    BY <1>2, <2>1, <2>2, <2>3
<1>8. OrdersKnown'
  BY <1>2, <1>5 DEF OrdersKnown
<1> QED
  BY <1>6, <1>7, <1>8 DEF IInv

(* Coefficients and orders do not change in a reverse sweep. *)
LEMMA ReverseKeeps ==
  ASSUME IInv, Weighs \/ Backwards, ~Forwards',
         UNCHANGED <<tape, taylor_, num_order_taylor_>>,
         (Weighs \/ Backwards)' =>
           \A a \in Address(tape) : PartialOf(Partial'[a], tape.shape[a])
  PROVE  ShapesKept' /\ OrdersKnown'
<1>1. ~Forwards
  BY Modes DEF IInv
<1>2. ShapesKept'
  <2> SUFFICES ASSUME NEW a \in Address(tape)
               PROVE  /\ Known(0, a)' => HasShape(taylor_[0][a], tape.shape[a])
                      /\ Known(1, a)' => StandsFor(taylor_[1][a], tape.shape[a])
    BY DEF ShapesKept
  <2>1. (Known(0, a)' => Known(0, a)) /\ (Known(1, a)' => Known(1, a))
    BY <1>1 DEF Known
  <2> QED
    BY <2>1 DEF IInv, ShapesKept
<1>3. OrdersKnown'
  BY <1>1 DEF IInv, OrdersKnown
<1> QED
  BY <1>2, <1>3

LEMMA ReverseWeighInv ==
  ASSUME IInv, ReverseWeigh
  PROVE  IInv'
<1> DEFINE i == done + 1
           a == tape.dep_taddr_[i]
<1>1. Weighs /\ ~Forwards /\ ~Backwards /\ sweep.w \in Weight(tape)
  BY Modes DEF IInv, ReverseWeigh
<1>2. tape' = tape /\ taylor_' = taylor_ /\ num_order_taylor_' = num_order_taylor_
      /\ operand' = operand /\ sweep' = sweep /\ done' = i
      /\ Partial' = [Partial EXCEPT ![a] = AddTo(Partial[a], sweep.w[i])]
  BY DEF ReverseWeigh
<1>3. Weighs' /\ ~Forwards' /\ ~Backwards'
  BY <1>1, <1>2 DEF Forwards, Weighs, Backwards
<1>4. i \in DOMAIN tape.dep_taddr_ /\ a \in Address(tape) /\ i \in 0 .. Len(tape.dep_taddr_)
      /\ tape.shape[a] \in Nat
  <2>1. done \in 0 .. Len(tape.dep_taddr_) /\ done < Len(tape.dep_taddr_)
    BY <1>1 DEF IInv, TypeOK, ReverseWeigh
  <2>2. Len(tape.dep_taddr_) \in Nat /\ DOMAIN tape.dep_taddr_ = 1 .. Len(tape.dep_taddr_)
    BY TapeFits DEF IInv
  <2>3. i \in 1 .. Len(tape.dep_taddr_)
    BY <2>1, <2>2
  <2> HIDE DEF i
  <2> QED
    BY <2>2, <2>3, TapeFits DEF IInv
<1>5. /\ tape \in Tapes /\ num_order_taylor_ \in 0 .. 2 /\ DOMAIN Partial = Address(tape)
      /\ DOMAIN taylor_ = 0 .. 1 /\ \A h \in 0 .. 1 : DOMAIN taylor_[h] = Address(tape)
      /\ operand = 0
      /\ sweep \in {[mode |-> m, w |-> v] : m \in {"weigh", "reverse"}, v \in Weight(tape)}
  BY <1>1, Modes DEF IInv, TypeOK
<1> HIDE DEF i, a
<1>6. TypeOK'
  BY <1>2, <1>3, <1>4, <1>5 DEF TypeOK
<1>7. ASSUME NEW b \in Address(tape)
      PROVE  PartialOf(Partial'[b], tape.shape[b])
  <2>1. PartialOf(Partial[b], tape.shape[b])
    BY <1>1 DEF IInv, ShapesKept
  <2>2. CASE b = a
    <3>1. sweep.w[i] \in Given(1, tape.shape[a])
      BY <1>1, <1>4 DEF Weight, a
    <3>2. Fits(sweep.w[i], tape.shape[a])
      BY <1>4, <1>5, <3>1, GivenAssumption DEF Fits
    <3>3. PartialOf(AddTo(Partial[a], sweep.w[i]), tape.shape[a])
      BY <1>4, <2>1, <2>2, <3>2, AddToKeeps
    <3>4. Partial'[b] = AddTo(Partial[a], sweep.w[i])
      BY <1>2, <1>4, <1>5, <2>2
    <3> QED
      BY <2>2, <3>3, <3>4
  <2>3. CASE b # a
    <3>1. Partial'[b] = Partial[b]
      BY <1>2, <1>5, <2>3
    <3> QED
      BY <2>1, <3>1
  <2> QED
    BY <2>2, <2>3
<1>8. ShapesKept' /\ OrdersKnown'
  BY <1>1, <1>2, <1>3, <1>7, ReverseKeeps
<1> QED
  BY <1>6, <1>8 DEF IInv

LEMMA ReverseStartInv ==
  ASSUME IInv, ReverseStart
  PROVE  IInv'
<1>1. Weighs /\ ~Forwards /\ ~Backwards /\ sweep.w \in Weight(tape)
      /\ sweep = [mode |-> "weigh", w |-> sweep.w]
  BY Modes DEF IInv, ReverseStart
<1>2. tape' = tape /\ taylor_' = taylor_ /\ num_order_taylor_' = num_order_taylor_
      /\ operand' = operand /\ Partial' = Partial /\ done' = Len(tape.ins)
      /\ sweep' = [sweep EXCEPT !.mode = "reverse"]
  BY DEF ReverseStart
<1>3. sweep' = [mode |-> "reverse", w |-> sweep.w]
  BY <1>1, <1>2
<1>4. /\ tape \in Tapes /\ num_order_taylor_ \in 0 .. 2 /\ DOMAIN Partial = Address(tape)
      /\ DOMAIN taylor_ = 0 .. 1 /\ \A h \in 0 .. 1 : DOMAIN taylor_[h] = Address(tape)
      /\ operand = 0
  BY <1>1 DEF IInv, TypeOK
<1>5. ~Weighs' /\ ~Forwards' /\ sweep' # None
  BY <1>1, <1>3, <1>4, NoneAssumption DEF Forwards, Weighs
<1>6. TypeOK'
  <2>1. Len(tape.ins) \in Nat
    BY TapeFits DEF IInv
  <2>2. Len(tape.ins) > 0 => 0 \in 0 .. Len(tape.ins[Len(tape.ins)].arg) - 1
    <3> SUFFICES ASSUME Len(tape.ins) > 0
                 PROVE  0 \in 0 .. Len(tape.ins[Len(tape.ins)].arg) - 1
      OBVIOUS
    <3>1. Len(tape.ins) \in DOMAIN tape.ins /\ WellFormed(tape)
      BY <2>1, TapeFits DEF IInv
    <3>2. Shapes(ShapesAt(tape, Len(tape.ins)), Len(tape.ins[Len(tape.ins)].arg))
          /\ Len(tape.ins[Len(tape.ins)].arg) > 0
      BY <3>1, ShapesOfInstruction
    <3>3. Len(tape.ins[Len(tape.ins)].arg) \in Nat
      BY <3>2 DEF Shapes
    <3> QED
      BY <3>2, <3>3
  <2>3. operand' \in IF Backwards' /\ done' > 0 THEN 0 .. Len(tape'.ins[done'].arg) - 1 ELSE {0}
    BY <1>2, <1>4, <2>1, <2>2
  <2>4. done' \in 0 .. Len(tape.ins)
    BY <1>2, <2>1
  <2>5. sweep' \in {[mode |-> m, w |-> v] : m \in {"weigh", "reverse"}, v \in Weight(tape)}
    BY <1>1, <1>3
  <2> QED
    BY <1>2, <1>4, <1>5, <2>3, <2>4, <2>5 DEF TypeOK
<1>7. ShapesKept' /\ OrdersKnown'
  <2>1. \A a \in Address(tape) : PartialOf(Partial'[a], tape.shape[a])
    BY <1>1, <1>2 DEF IInv, ShapesKept
  <2> QED
    BY <1>1, <1>2, <1>5, <2>1, ReverseKeeps
<1> QED
  BY <1>6, <1>7 DEF IInv

LEMMA ReverseNextInv ==
  ASSUME IInv, ReverseNext
  PROVE  IInv'
<1> DEFINE i == done
           ins == tape.ins[i]
           j == operand + 1
           more == j < Len(ins.arg)
<1>1. Backwards /\ ~Forwards /\ ~Weighs /\ sweep.w \in Weight(tape)
      /\ sweep = [mode |-> "reverse", w |-> sweep.w]
  BY Modes DEF IInv, ReverseNext
<1>2. /\ tape' = tape /\ taylor_' = taylor_ /\ num_order_taylor_' = num_order_taylor_
      /\ sweep' = sweep
      /\ Partial' = IF ins.kind[j] = "v"
                      THEN [Partial EXCEPT ![ins.arg[j]] =
                              AddTo(Partial[ins.arg[j]], Due(tape, taylor_, Partial, ins)[j])]
                      ELSE Partial
      /\ operand' = (IF more THEN j ELSE 0)
      /\ done' = (IF more THEN i ELSE i - 1)
  BY DEF ReverseNext
<1>3. Backwards' /\ ~Forwards' /\ ~Weighs'
  BY <1>1, <1>2 DEF Forwards, Weighs, Backwards
<1>4. i \in 1 .. Len(tape.ins) /\ i \in DOMAIN tape.ins /\ Len(tape.ins) \in Nat /\ WellFormed(tape)
  <2>1. done \in 0 .. Len(tape.ins) /\ done > 0
    BY <1>1 DEF IInv, TypeOK, ReverseNext
  <2> QED
    BY <2>1, TapeFits DEF IInv
<1>5. j \in 1 .. Len(ins.arg) /\ Len(ins.arg) \in Nat
  <2>1. operand \in 0 .. Len(ins.arg) - 1
    BY <1>1, <1>4 DEF IInv, TypeOK
  <2>2. Len(ins.arg) \in Nat
    BY <1>4, ShapesOfInstruction DEF Shapes
  <2> HIDE DEF ins
  <2> QED
    BY <2>1, <2>2
<1>6. /\ tape \in Tapes /\ num_order_taylor_ \in 0 .. 2 /\ DOMAIN Partial = Address(tape)
      /\ DOMAIN taylor_ = 0 .. 1 /\ \A h \in 0 .. 1 : DOMAIN taylor_[h] = Address(tape)
  BY DEF IInv, TypeOK
<1>7. TypeOK'
  <2>1. done' \in 0 .. Len(tape.ins)
    <3> HIDE DEF more
    <3> QED
      BY <1>2, <1>4
  <2>2. done' > 0 => operand' \in 0 .. Len(tape.ins[done'].arg) - 1
    <3>1. CASE more
      <4>1. done' = i /\ operand' = j
        BY <1>2, <3>1
      <4>2. j \in 0 .. Len(ins.arg) - 1
        <5> HIDE DEF ins
        <5> QED
          BY <1>5, <3>1
      <4> QED
        BY <4>1, <4>2
    <3>2. CASE ~more
      <4>1. done' = i - 1 /\ operand' = 0
        BY <1>2, <3>2
      <4>2. ASSUME i - 1 > 0
            PROVE  0 \in 0 .. Len(tape.ins[i - 1].arg) - 1
        <5>1. i - 1 \in DOMAIN tape.ins
          BY <1>4, <4>2, TapeFits DEF IInv
        <5>2. Shapes(ShapesAt(tape, i - 1), Len(tape.ins[i - 1].arg))
              /\ Len(tape.ins[i - 1].arg) > 0
          BY <1>4, <5>1, ShapesOfInstruction
        <5>3. Len(tape.ins[i - 1].arg) \in Nat
          BY <5>2 DEF Shapes
        <5> QED
          BY <5>2, <5>3
      <4> HIDE DEF i
      <4> QED
        BY <4>1, <4>2
    <3> QED
      BY <3>1, <3>2
  <2>3. operand' = 0 \/ done' > 0
    <3> HIDE DEF more
    <3> QED
      BY <1>2, <1>4
  <2>4. sweep' \in {[mode |-> m, w |-> v] : m \in {"weigh", "reverse"}, v \in Weight(tape)}
    BY <1>1, <1>2
  <2>5. DOMAIN Partial' = Address(tape)
    BY <1>2, <1>6
  <2>6. operand' \in IF Backwards' /\ done' > 0 THEN 0 .. Len(tape'.ins[done'].arg) - 1 ELSE {0}
    BY <1>2, <1>3, <2>2, <2>3
  <2> QED
    BY <1>2, <1>3, <1>6, <2>1, <2>4, <2>5, <2>6 DEF TypeOK
<1>8. ASSUME NEW b \in Address(tape)
      PROVE  PartialOf(Partial'[b], tape.shape[b])
  <2> DEFINE a == ins.arg[j]
             due == Due(tape, taylor_, Partial, ins)[j]
  <2>1. PartialOf(Partial[b], tape.shape[b])
    BY <1>1 DEF IInv, ShapesKept
  <2>2. CASE ins.kind[j] = "v" /\ b = a
    <3>1. tape.shape[a] \in Nat
      BY <2>2, TapeFits DEF IInv
    <3>2. tape.shape[a] # 0 => Fits(due, tape.shape[a])
      <4>1. ShapesAt(tape, i)[j] = tape.shape[a]
        BY <1>5, <2>2 DEF ShapesAt, ShapesOf
      <4>2. OperandsShaped(tape, ins, taylor_[0])
        BY <1>1, <1>4, OperandsKnown0
      <4>3. ResultsPartial(tape, i, Partial)
        <5> SUFFICES ASSUME NEW c \in Results(tape.ins[i])
                     PROVE  PartialOf(Partial[c], Shape(tape.ins[i], ShapesAt(tape, i)))
          BY DEF ResultsPartial
        <5>1. c \in Address(tape) /\ tape.shape[c] = Shape(tape.ins[i], ShapesAt(tape, i))
          BY <1>4, ResultsAre DEF IInv
        <5>2. PartialOf(Partial[c], tape.shape[c])
          BY <1>1, <5>1 DEF IInv, ShapesKept
        <5> QED
          BY <5>1, <5>2
      <4>4. HasShape(taylor_[0][ins.res], Shape(ins, ShapesAt(tape, i)))
        <5>1. ins.res \in Results(ins)
          BY <1>4, LastResult DEF IInv
        <5>2. ins.res \in Address(tape) /\ tape.shape[ins.res] = Shape(ins, ShapesAt(tape, i))
          BY <1>4, <5>1, ResultsAre DEF IInv
        <5>3. Known(0, ins.res)
          BY <1>1, Order0Known DEF IInv
        <5>4. HasShape(taylor_[0][ins.res], tape.shape[ins.res])
          BY <5>2, <5>3 DEF IInv, ShapesKept
        <5> QED
          BY <5>2, <5>4
      <4>5. ShapesAt(tape, i)[j] # 0 => Fits(due, ShapesAt(tape, i)[j])
        BY <1>4, <1>5, <4>2, <4>3, <4>4, DueFits
      <4> QED
        BY <4>1, <4>5
    <3> HIDE DEF a, due
    <3>3. PartialOf(AddTo(Partial[a], due), tape.shape[a])
      BY <2>1, <2>2, <3>1, <3>2, AddToKeeps
    <3>4. Partial'[b] = AddTo(Partial[a], due)
      BY <1>2, <1>6, <2>2 DEF a, due
    <3> QED
      BY <2>2, <3>3, <3>4
  <2>3. CASE ~(ins.kind[j] = "v" /\ b = a)
    <3>1. Partial'[b] = Partial[b]
      BY <1>2, <1>6, <2>3
    <3> QED
      BY <2>1, <3>1
  <2> QED
    BY <2>2, <2>3
<1>9. ShapesKept' /\ OrdersKnown'
  BY <1>1, <1>2, <1>3, <1>8, ReverseKeeps
<1> QED
  BY <1>7, <1>9 DEF IInv

LEMMA ReverseEndInv ==
  ASSUME IInv, ReverseEnd
  PROVE  IInv'
<1>1. Backwards /\ ~Forwards /\ ~Weighs
  BY Modes DEF IInv, ReverseEnd
<1>2. tape' = tape /\ taylor_' = taylor_ /\ num_order_taylor_' = num_order_taylor_
      /\ operand' = operand /\ done' = done /\ done = 0 /\ sweep' = None
      /\ Partial' = [a \in Address(tape) |-> Scalar(ZeroElement)]
  BY DEF ReverseEnd, Zeros
<1>3. ~Backwards' /\ ~Forwards' /\ ~Weighs'
  BY <1>2 DEF Forwards, Weighs, Backwards
<1>4. /\ tape \in Tapes /\ num_order_taylor_ \in 0 .. 2 /\ operand = 0
      /\ DOMAIN taylor_ = 0 .. 1 /\ \A h \in 0 .. 1 : DOMAIN taylor_[h] = Address(tape)
  BY <1>2 DEF IInv, TypeOK
<1>5. TypeOK'
  <2>1. Len(tape.ins) \in Nat
    BY TapeFits DEF IInv
  <2> QED
    BY <1>2, <1>3, <1>4, <2>1 DEF TypeOK
<1>6. ShapesKept' /\ OrdersKnown'
  BY <1>1, <1>2, <1>3, ReverseKeeps
<1> QED
  BY <1>5, <1>6 DEF IInv

LEMMA StutterInv ==
  ASSUME IInv, UNCHANGED vars
  PROVE  IInv'
<1>1. tape' = tape /\ taylor_' = taylor_ /\ num_order_taylor_' = num_order_taylor_
      /\ Partial' = Partial /\ done' = done /\ operand' = operand /\ sweep' = sweep
  BY DEF vars
<1>2. TypeOK'
  BY <1>1 DEF IInv, TypeOK, Weighs, Backwards
<1>3. ShapesKept'
  BY <1>1 DEF IInv, ShapesKept, Known, Forwards, Weighs, Backwards
<1>4. OrdersKnown'
  BY <1>1 DEF IInv, OrdersKnown, Forwards, Weighs, Backwards
<1> QED
  BY <1>2, <1>3, <1>4 DEF IInv

LEMMA NextInv == IInv /\ [Next]_vars => IInv'
<1> SUFFICES ASSUME IInv, [Next]_vars PROVE IInv'
  OBVIOUS
<1>1. ASSUME NEW k \in 0 .. 1, ForwardSweep(k) PROVE IInv'
  BY <1>1, ForwardSweepInv
<1>2. CASE ForwardNext
  BY <1>2, ForwardNextInv
<1>3. CASE ForwardEnd
  BY <1>3, ForwardEndInv
<1>4. ASSUME NEW w \in Weight(tape), ReverseSweep(w) PROVE IInv'
  BY <1>4, ReverseSweepInv
<1>5. CASE ReverseWeigh
  BY <1>5, ReverseWeighInv
<1>6. CASE ReverseStart
  BY <1>6, ReverseStartInv
<1>7. CASE ReverseNext
  BY <1>7, ReverseNextInv
<1>8. CASE ReverseEnd
  BY <1>8, ReverseEndInv
<1>9. CASE UNCHANGED vars
  BY <1>9, StutterInv
<1> QED
  BY <1>1, <1>2, <1>3, <1>4, <1>5, <1>6, <1>7, <1>8, <1>9 DEF Next

-----------------------------------------------------------------------------

LEMMA Inductive == Spec => []IInv
<1>1. Init => IInv
  BY InitInv
<1>2. IInv /\ [Next]_vars => IInv'
  BY NextInv
<1> QED
  BY <1>1, <1>2, PTL DEF Spec

(* The state of an ADFun over tape_inner keeps its types: in a sweep, the  *)
(* next instruction and its next operand are those of the tape.            *)
THEOREM TypeCorrect == Spec => []TypeOK
<1>1. IInv => TypeOK
  BY DEF IInv
<1> QED
  BY <1>1, Inductive, PTL

(* Whatever the arithmetic of the elements, and on every well-formed tape, *)
(* the operators and atomic functions of tape_inner give each variable a   *)
(* value of its shape, and the partial of a scalar stays one: what the     *)
(* assertions of the sums, of arrays of equal elements, of packing and of  *)
(* unpacking demand (tape_inner_ops.hpp) always holds.                     *)
THEOREM ShapesStay == Spec => []ShapesKept
<1>1. IInv => ShapesKept
  BY DEF IInv
<1> QED
  BY <1>1, Inductive, PTL
=============================================================================
