---------------------------- MODULE MCOptimizer ----------------------------
(* Small instances of Optimizer: all tapes of a few operators that sums,   *)
(* operators that match and conditional expressions need.                  *)
EXTENDS Optimizer, MCTapes

(* Few hash codes, so that operators meet in the table. *)
MCHashCode == 0 .. 1

MCHash(op, kind, operands) ==
  (Len(operands) + FoldLeft(LAMBDA s, a : s + a, 0, operands)) % 2

MCValuations(t) ==
  {Played(t, u, u, 0).order0 : u \in [1 .. t.n -> Num]}

-----------------------------------------------------------------------------

(* The variables that operators after n InvOp compute. *)
Computed(n, ops) ==
  1 .. n \union
  {n + FoldLeft(LAMBDA s, o : s + NumRes(o.op), 0, SubSeq(ops, 1, k)) :
     k \in {k \in DOMAIN ops : NumRes(ops[k].op) > 0}}

(* One more operator. *)
Grown(n, S, choices(_)) ==
  UNION {{Append(ops, o) : o \in choices(Computed(n, ops))} : ops \in S}

(* The result of the last operator. *)
LastOf(n, ops) == Max(Computed(n, ops))

Pars == <<2, 1, 2>>

Sums(V) ==
  {Do(op, VV, <<a, b>>) : op \in Summation, a \in V, b \in V}
    \union {Do("Sub", VP, <<a, 0>>) : a \in V}
    \union {Do(op, PV, <<1, a>>) : op \in Summation, a \in V}

SumTapes ==
  LET one == Grown(1, {<<>>}, Sums)
      three == Grown(1, Grown(1, one, Sums), Sums)
  IN  {TapeOf(1, Pars, <<LastOf(1, ops)>>, ops) : ops \in three}

Products(V) ==
  {Do(op, VV, <<a, b>>) : op \in {"Mul", "Sub", "Lt"}, a \in V, b \in V}
    \union {Do("Mul", PV, <<p, a>>) : p \in {0, 2}, a \in V}
    \union {Do("Sin", <<"v">>, <<a>>) : a \in V}
    \union {Do("Par", <<"p">>, <<1>>)}

MatchTapes ==
  LET two == Grown(2, Grown(2, {<<>>}, Products), Products)
      end(ops) == Do("Div", VV, <<LastOf(2, ops), LastOf(2, Front(ops))>>)
  IN  {TapeOf(2, Pars, <<LastOf(2, ops) + 1>>, Append(ops, end(ops))) : ops \in two}

(* Conditional expressions that compare a variable with a parameter.  A    *)
(* branch is a variable, or 0 for a parameter.                             *)
Conditional(left, true, false) ==
  Do("CExp", <<>>, <<0, 1 + (IF true = 0 THEN 0 ELSE 4) + (IF false = 0 THEN 0 ELSE 8),
                     left, 1, true, false>>)

Conditionals(V) ==
  {Conditional(left, true, false) :
     left \in {1, Max(V)}, true \in V \union {0}, false \in V \union {0}}

Nested(V) ==
  {c \in Conditionals(V) : Max(V) \in {c.words[5], c.words[6]}}

Steps(V) ==
  {Do("Mul", VV, <<a, 1>>) : a \in V} \union {Do("Sin", <<"v">>, <<a>>) : a \in V}

Operations(V) ==
  Steps(V) \union {Do(op, VV, <<a, b>>) : op \in {"Add", "Lt"}, a \in V, b \in V}

(* How often operators use variable a. *)
Uses(ops, a) ==
  LET operands(o) == IF o.op = "CExp" THEN [k \in 1 .. 4 |-> o.words[k + 2]] ELSE o.words
      kinds(o) == IF o.op = "CExp" THEN Kinds(o.words[2], 4) ELSE o.kind
  IN  Cardinality({use \in (DOMAIN ops) \X (1 .. 4) :
        LET o == ops[use[1]] IN
          use[2] \in DOMAIN kinds(o) /\ kinds(o)[use[2]] = "v" /\ operands(o)[use[2]] = a})

(* The result of a conditional expression that precedes another is used    *)
(* once; see NestedTape.                                                   *)
InnerUsedOnce(ops) ==
  \A i, k \in DOMAIN ops :
    (i < k /\ ops[i].op = "CExp" /\ ops[k].op = "CExp") =>
      Uses(ops, LastOf(1, SubSeq(ops, 1, i))) <= 1

CondTapes ==
  LET steps == Grown(1, Grown(1, {<<>>}, Operations), Operations)
      sine == {<<Do("Sin", <<"v">>, <<1>>)>>}
      one == Grown(1, steps, Conditionals)
      two == {ops \in Grown(1, Grown(1, Grown(1, sine, Steps), Conditionals), Nested) :
                ops[3].words[3] = 1}
      before == Grown(1, Grown(1, Grown(1, {<<>>}, Steps), Conditionals), Operations)
      between == {ops \in Grown(1, Grown(1, Grown(1, sine, Conditionals), Steps), Nested) :
                    ops[2].words[3] = 1}
  IN  {TapeOf(1, Pars, <<LastOf(1, ops)>>, ops) :
         ops \in {o \in one \union two \union before \union between : InnerUsedOnce(o)}}

(* (x < 1 ? x x : 2), its sine, and (x < 1 ? 2 : the first), which makes   *)
(* the first needed for one outcome before its sine makes it needed for    *)
(* both.                                                                   *)
NestedTape ==
  TapeOf(1, Pars, <<5, 6>>,
    <<Do("Mul", VV, <<1, 1>>), Conditional(1, 2, 0), Do("Sin", <<"v">>, <<3>>),
      Conditional(1, 0, 3)>>)

MCNested == {NestedTape}

MCAllTapes == UNION {SumTapes, MatchTapes, CondTapes}
=============================================================================
