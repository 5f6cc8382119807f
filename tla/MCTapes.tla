------------------------------- MODULE MCTapes ------------------------------
(* The integers modulo 3, as numbers, with Exp, Log and so on as any       *)
(* functions, and tapes written operator by operator.                      *)
EXTENDS Tape, Integers, SequencesExt

MCNum == 0 .. 2

Table(op) ==
  CASE op = "Exp" -> <<1, 2, 1>>
    [] op = "Log" -> <<0, 0, 1>>
    [] op = "Abs" -> <<0, 1, 1>>
    [] op = "Sin" -> <<0, 2, 1>>
    [] op = "Cos" -> <<1, 2, 2>>

(* Modulo 3 every number but 0 is its own inverse. *)
MCCalc(op, s) ==
  CASE op = "Add" -> (s[1] + s[2]) % 3
    [] op = "Sub" -> (s[1] + 3 - s[2]) % 3
    [] op \in {"Mul", "Div"} -> (s[1] * s[2]) % 3
    [] OTHER -> Table(op)[s[1] + 1]

MCAux(op, s) ==
  CASE op = "Sin" -> Table("Cos")[s[1] + 1]
    [] op = "Cos" -> Table("Sin")[s[1] + 1]
    [] OTHER -> 0

MCLess(m, n) == m < n

-----------------------------------------------------------------------------
(* A tape with n independents, from its other operators and their words.   *)

Do(op, kind, words) == [op |-> op, kind |-> kind, words |-> words]

FromZero(s) == [i \in 0 .. Len(s) - 1 |-> s[i + 1]]

TapeOf(n, par, dep, ops) ==
  LET all == <<Do("Begin", <<>>, <<0>>)>>
               \o [i \in 1 .. n |-> Do("Inv", <<>>, <<>>)]
               \o ops \o <<Do("End", <<>>, <<>>)>>
      words == FoldLeft(LAMBDA w, o : w \o o.words, <<>>, all)
      first == FoldLeft(LAMBDA f, o : Append(f, f[Len(f)] + Len(o.words)),
                        <<0>>, all)
      last == FoldLeft(LAMBDA f, o : Append(f, f[Len(f)] + NumRes(o.op)),
                       <<-1>>, all)
  IN  [n |-> n, num_op_rec |-> Len(all), num_op_arg_rec |-> Len(words),
       num_var_rec |-> last[Len(last)] + 1,
       op_rec_ |-> FromZero([i \in DOMAIN all |->
                               [op |-> all[i].op, kind |-> all[i].kind]]),
       op_arg_rec_ |-> FromZero(words), par_rec_ |-> par, dep_taddr_ |-> dep,
       first |-> FromZero(SubSeq(first, 1, Len(all))),
       last |-> FromZero(Tail(last))]

VV == <<"v", "v">>
PV == <<"p", "v">>
VP == <<"v", "p">>
=============================================================================
