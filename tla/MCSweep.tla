------------------------------- MODULE MCSweep ------------------------------
(* Small instances of Sweep: tapes of up to two independent variables.     *)
EXTENDS Sweep, MCTapes

(* (sin(x * x) + 2) / x - 1. *)
Plain == TapeOf(1, <<2, 1>>, <<7, 2>>,
  <<Do("Mul", VV, <<1, 1>>), Do("Sin", <<"v">>, <<2>>),
    Do("Add", PV, <<0, 4>>), Do("Div", VV, <<5, 1>>), Do("Sub", VP, <<6, 1>>)>>)

(* The operators of one argument, and those with a parameter. *)
Mixed == TapeOf(1, <<2, 0>>, <<2, 7, 3>>,
  <<Do("Par", <<"p">>, <<0>>), Do("Abs", <<"v">>, <<1>>),
    Do("Div", VP, <<3, 0>>), Do("Div", PV, <<0, 4>>),
    Do("Mul", PV, <<0, 5>>), Do("Sub", PV, <<0, 6>>), Do("Log", <<"v">>, <<3>>)>>)

(* A quotient under comparisons. *)
Compared == TapeOf(2, <<1>>, <<3>>,
  <<Do("Lt", VV, <<1, 2>>), Do("Eq", PV, <<0, 1>>), Do("Div", VV, <<1, 2>>),
    Do("Le", VP, <<3, 0>>), Do("Ne", VV, <<1, 3>>)>>)

(* x < 1 ? exp(x) : x - cos(x), each side skipped when it is not needed.  *)
Skipping == TapeOf(1, <<1>>, <<6>>,
  <<Do("CSkip", <<>>, <<0, 1, 1, 0, 2, 1, 4, 5, 3, 3>>),
    Do("Exp", <<"v">>, <<1>>), Do("Cos", <<"v">>, <<1>>),
    Do("Sub", VV, <<1, 4>>), Do("CExp", <<>>, <<0, 13, 1, 0, 2, 5>>)>>)

(* A sum twice a dependent, next to an independent. *)
Summed == TapeOf(1, <<2>>, <<4, 4, 1>>,
  <<Do("Cos", <<"v">>, <<1>>), Do("CSum", <<>>, <<2, 1, 0, 3, 1, 1, 3>>)>>)

(* x >= 1 ? 2 + x - exp(x) : 0, with the sum skipped, and times x. *)
SkippedSum == TapeOf(1, <<1, 2, 0>>, <<5>>,
  <<Do("CSkip", <<>>, <<3, 1, 1, 0, 0, 1, 4, 1>>), Do("Exp", <<"v">>, <<1>>),
    Do("CSum", <<>>, <<1, 1, 1, 1, 2, 2>>),
    Do("CExp", <<>>, <<3, 5, 1, 0, 3, 2>>), Do("Mul", VV, <<4, 1>>)>>)

SweepTapes == {Plain, Compared, Mixed, Skipping, Summed, SkippedSum}

(* Only the tape with comparisons is asked to count them: up to the second *)
(* that changes, or none.                                                  *)
MCCounts == [t \in SweepTapes |-> IF t = Compared THEN {0, 2} ELSE {}]

(* (x + y) x^3: a sum with operators after it. *)
MCSumFirst == {TapeOf(2, <<0, 0>>, <<6>>,
  <<Do("CSum", <<>>, <<2, 0, 0, 1, 2, 2>>), Do("Mul", VV, <<1, 1>>),
    Do("Mul", VV, <<1, 3>>), Do("Mul", VV, <<4, 5>>)>>)}

(* What the sweeps are proved correct from. *)
ASSUME MCSweepAssumption == Ring /\ \A t \in Tapes : SkipsHarmless(t)

MCUncounted == [t \in MCSumFirst |-> {}]
=============================================================================
