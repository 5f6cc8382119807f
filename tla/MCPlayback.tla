---------------------------- MODULE MCPlayback -----------------------------
(* Recordings, over the integers modulo P, a field for P = 2 and 3: two    *)
(* objects, one of them independent, and fewer hash codes than numbers, so *)
(* that parameters meet in the table.                                      *)
EXTENDS Playback

CONSTANT P

MCNum == 0 .. P - 1

MCCalc(op, s) ==
  CASE op = "Add" -> (s[1] + s[2]) % P
    [] op = "Sub" -> (s[1] + P - s[2]) % P
    [] op = "Mul" -> (s[1] * s[2]) % P
    [] op = "Div" -> (s[1] * s[2]) % P      (* 1 / n = n, and n / 0 is 0. *)
    [] op = "Sin" -> (s[1] * s[1] + 1) % P

MCAux(op, s) == (s[1] + 2) % P

MCLess(m, n) == m < n

MCHash(c) == c % (P - 1)

MCCode == 0 .. P - 2

MCVector == [1 .. 1 -> Object]

Objects == Permutations(Object)

(* f and play only ever come from Dependent, and the vectors are determined *)
(* by the tape: states that differ in these alone are the same for every    *)
(* property that is about a step.                                           *)
Recorded == <<recording, object, Rec_, at>>

(* A recording has one operation, or two of a few.  It starts with Begin   *)
(* and Inv, at the addresses 0 and 1.                                      *)
LongOps == {"Add", "Sin", "Lt"}

MCRoom(R, op) ==
  \/ Len(R.tape) = 2
  \/ Len(R.tape) = 3 /\ R.num_var_rec_ < 4 /\ {R.tape[3].op, op} \subseteq LongOps
=============================================================================
