---------------------------- MODULE TapeInnerOps ----------------------------
(***************************************************************************)
(* The atomic functions between scalars and arrays                         *)
(* (cl/tape/impl/atomics/tape_inner_ops.hpp): sums, concatenation, arrays  *)
(* of equal elements, and arrays from and to the vector of their elements. *)
(*                                                                         *)
(* For an instruction ins, s are the coefficients of order 0 of its        *)
(* arguments, t those of the order that forward computes, and py the       *)
(* partials of its results.  ins.n is the number of elements where the     *)
(* program gives it: those of make_vec, the results of unpack_vec.         *)
(***************************************************************************)
EXTENDS TapeInner

Atomic == {"sum_vec", "conc_vec", "make_vec", "unpack_vec", "pack_vec"}

(* n as a number. *)
Number(n) == Each!Total([k \in 1 .. n |-> OneElement])

Times(v, n) == BinaryOp("Mul", v, Scalar(Number(n)))

sum_vec(v) == IF is_scalar(v) THEN v ELSE Scalar(Each!Total(v.array_value_))

(* The size of a value in a concatenation. *)
Extent(v) == IF is_scalar(v) THEN 1 ELSE size(v)

Extents(s) == [j \in DOMAIN s |-> Extent(s[j])]

(* How many elements a concatenation has before its argument j, for the    *)
(* sizes e of the arguments.                                               *)
Start(e, j) == FoldLeft(LAMBDA m, n : m + n, 0, SubSeq(e, 1, j - 1))

Repeat(m, n) == [k \in 1 .. n |-> m]

(* Mutant of forward_sum_vec: a scalar is its own sum. *)
forward_sum_vec_Scalar(s, t) == sum_vec(t[1])

(* A scalar coefficient of an array stands for equal elements. *)
forward_sum_vec(s, t) ==
  IF is_scalar(t[1]) /\ ~is_scalar(s[1]) THEN Times(t[1], size(s[1]))
                                         ELSE sum_vec(t[1])

reverse_sum_vec(py) == <<Scalar(py[1].scalar_value_)>>

forward_conc_vec(s, t) ==
  LET from(j) == Start(Extents(s), j)
      At(k) == CHOOSE j \in DOMAIN s : k \in from(j) + 1 .. from(j + 1)
  IN  Array([k \in 1 .. from(Len(s) + 1) |-> element_at(t[At(k)], k - from(At(k)))])

reverse_conc_vec(s, py) ==
  LET from(j) == Start(Extents(s), j)
      Part(j) == [k \in 1 .. Extent(s[j]) |-> py[1].array_value_[from(j) + k]]
  IN  [j \in DOMAIN s |-> IF is_scalar(py[1]) THEN py[1]
                          ELSE IF is_scalar(s[j]) THEN Scalar(Part(j)[1])
                          ELSE Array(Part(j))]

forward_make_vec(ins, t) == Array(Repeat(t[1].scalar_value_, ins.n))

reverse_make_vec(ins, py) ==
  <<IF is_scalar(py[1]) THEN Times(py[1], ins.n) ELSE sum_vec(py[1])>>

forward_unpack_vec(ins, t) ==
  [k \in 1 .. ins.n |-> Scalar(element_at(t[1], k))]

reverse_unpack_vec(py) == <<Array([k \in DOMAIN py |-> py[k].scalar_value_])>>

forward_pack_vec(t) == Array([k \in DOMAIN t |-> t[k].scalar_value_])

reverse_pack_vec(s, py) == [k \in DOMAIN s |-> Scalar(element_at(py[1], k))]

-----------------------------------------------------------------------------
(* The coefficients of all results. *)
forward(ins, s, t) ==
  CASE ins.op = "sum_vec" -> <<forward_sum_vec(s, t)>>
    [] ins.op = "conc_vec" -> <<forward_conc_vec(s, t)>>
    [] ins.op = "make_vec" -> <<forward_make_vec(ins, t)>>
    [] ins.op = "unpack_vec" -> forward_unpack_vec(ins, t)
    [] ins.op = "pack_vec" -> <<forward_pack_vec(t)>>

(* The partials of all arguments. *)
reverse(ins, s, py) ==
  CASE ins.op = "sum_vec" -> reverse_sum_vec(py)
    [] ins.op = "conc_vec" -> reverse_conc_vec(s, py)
    [] ins.op = "make_vec" -> reverse_make_vec(ins, py)
    [] ins.op = "unpack_vec" -> reverse_unpack_vec(py)
    [] ins.op = "pack_vec" -> reverse_pack_vec(s, py)
=============================================================================
