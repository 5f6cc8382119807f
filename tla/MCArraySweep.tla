---------------------------- MODULE MCArraySweep ----------------------------
(* Small instances of ArraySweep: the integers modulo 3, arrays of two and *)
(* three elements.                                                         *)
EXTENDS ArraySweep

MCElement == 0 .. 2

Table(op) == IF op = "Exp" THEN <<1, 2, 1>> ELSE <<0, 1, 1>>

(* Modulo 3 every number but 0 is its own inverse. *)
MCCalc(op, s) ==
  CASE op = "Add" -> (s[1] + s[2]) % 3
    [] op = "Sub" -> (s[1] + 3 - s[2]) % 3
    [] op \in {"Mul", "Div"} -> (s[1] * s[2]) % 3
    [] OTHER -> Table(op)[s[1] + 1]

MCAux(op, s) == 0

MCLess(m, n) == m < n

(* Some values; and for the order 1 the arrays with one element 1, and the *)
(* scalar 1, for an array their sum: what is given for several variables   *)
(* spans all there is.                                                     *)
MCGiven(k, n) ==
  IF k = 0
    THEN IF n = 0 THEN {Scalar(m) : m \in 1 .. 2}
         ELSE {Array([j \in 1 .. n |-> (m * j + i) % 3]) : m, i \in 1 .. 2}
    ELSE {Scalar(1)} \union
         {Array([j \in 1 .. n |-> IF j = i THEN 1 ELSE 0]) : i \in 1 .. n}

-----------------------------------------------------------------------------
(* A tape from the shapes of its independents, and its instructions. *)

Do(op, kind, arg, n) == [op |-> op, kind |-> kind, arg |-> arg, n |-> n]

ShapeOf(v) == IF is_scalar(v) THEN 0 ELSE size(v)

Recorded(independents, par, dep, ops) ==
  LET par_shape == [i \in DOMAIN par |-> ShapeOf(par[i])]
      With(t, o) ==
        LET m == IF o.op = "unpack_vec" THEN o.n ELSE 1
            ins == [op |-> o.op, kind |-> o.kind, arg |-> o.arg, n |-> o.n,
                    res |-> Len(t.shape) + m]
            sh == [j \in DOMAIN o.arg |-> IF o.kind[j] = "v" THEN t.shape[o.arg[j]]
                                          ELSE par_shape[o.arg[j] + 1]]
        IN  [shape |-> t.shape \o Repeat(Shape(ins, sh), m), ins |-> Append(t.ins, ins)]
      all == FoldLeft(With, [shape |-> independents, ins |-> <<>>], ops)
  IN  [n |-> Len(independents), num_var_rec |-> Len(all.shape) + 1,
       shape |-> all.shape, ins |-> all.ins, par_rec_ |-> par,
       par_shape |-> par_shape, dep_taddr_ |-> dep]

V == <<"v">>
VV == <<"v", "v">>

(* The sum of exp(x) s / x, for an array x and a scalar s, and that of x.  *)
Scaled == Recorded(<<2, 0>>, <<>>, <<6, 7>>,
  <<Do("Exp", V, <<1>>, 0), Do("Mul", VV, <<3, 2>>, 0),
    Do("Div", VV, <<4, 1>>, 0), Do("sum_vec", V, <<5>>, 0),
    Do("sum_vec", V, <<1>>, 0)>>)

(* The elements of x, one of them times s, put together again, times x,    *)
(* and after them a parameter and s.                                       *)
Joined == Recorded(<<2, 0>>, <<Scalar(2)>>, <<8>>,
  <<Do("unpack_vec", V, <<1>>, 2), Do("Mul", VV, <<3, 2>>, 0),
    Do("pack_vec", VV, <<4, 5>>, 0), Do("Mul", VV, <<6, 1>>, 0),
    Do("conc_vec", <<"v", "p", "v">>, <<7, 0, 2>>, 0)>>)

(* s repeated, less x, and where that is below x the absolute value of x.  *)
Chosen == Recorded(<<2, 0>>, <<Scalar(1)>>, <<7, 8>>,
  <<Do("make_vec", V, <<2>>, 2), Do("Sub", VV, <<3, 1>>, 0),
    Do("Abs", V, <<1>>, 0), Do("CExpLt", <<"v", "v", "v", "v">>, <<4, 1, 5, 2>>, 0),
    Do("sum_vec", V, <<6>>, 0), Do("CExpGe", <<"v", "p", "v", "v">>, <<2, 0, 6, 1>>, 0)>>)

MCTapes == {Scaled, Joined, Chosen}

(* The sum of x - s. *)
MCMixedSum == {Recorded(<<2, 0>>, <<>>, <<4>>,
  <<Do("Sub", VV, <<1, 2>>, 0), Do("sum_vec", V, <<3>>, 0)>>)}
=============================================================================
