---------------------------- MODULE NativeDouble ----------------------------
(***************************************************************************)
(* What tape_wrapper promises: "a drop-in replacement to native double".   *)
(* Every name holds a number of its own; a call gives its target the       *)
(* number of its expression, and changes no other name.  A number also     *)
(* tells whether it is a variable of the open recording.                   *)
(***************************************************************************)
CONSTANTS
  Name,          (* The doubles of the program.                            *)
  Num,           (* The values of a double.                                *)
  Zero,
  Op,            (* The binary operators.                                  *)
  Apply(_, _, _) (* Apply(op, m, n): the number m op n.                    *)

VARIABLES
  live,          (* The names constructed and not yet destroyed.           *)
  number,        (* The number each of them holds.                         *)
  recording,     (* There are independent variables.                       *)
  call           (* The last call of the program.                          *)

vars == <<live, number, recording, call>>

Number == [val : Num, var : BOOLEAN]

Plain(c) == [val |-> c, var |-> FALSE]

(* An operand is a literal or a live name. *)
Operand == Num \union live

Of(a) == IF a \in Name THEN number[a] ELSE Plain(a)

-----------------------------------------------------------------------------

Init ==
  /\ live = {}
  /\ number = [x \in Name |-> Plain(Zero)]
  /\ recording = FALSE
  /\ call = <<>>

(* x, constructed if need be, gets the number n. *)
Put(x, n) ==
  /\ live' = live \union {x}
  /\ number' = [number EXCEPT ![x] = n]
  /\ UNCHANGED recording

Assign(x, a) ==
  /\ call' = <<"assign", x, a>>
  /\ Put(x, Of(a))

AssignResult(x, op, a, b) ==
  /\ call' = <<"result", x, op, a, b>>
  /\ Put(x, Apply(op, Of(a), Of(b)))

(* What is left in a name that was moved from is not specified. *)
Move(x, a) ==
  /\ a \in live
  /\ call' = <<"move", x, a>>
  /\ live' = live \union {x}
  /\ \E n \in Number :
       number' = [number EXCEPT ![x] = number[a], ![a] = n]
  /\ UNCHANGED recording

Destroy(x) ==
  /\ x \in live
  /\ call' = <<"destroy", x>>
  /\ live' = live \ {x}
  /\ number' = [number EXCEPT ![x] = Plain(Zero)]
  /\ UNCHANGED recording

(* The numbers of S become variables, their values stay. *)
Independent(S) ==
  /\ S \subseteq live /\ S # {}
  /\ ~recording
  /\ recording' = TRUE
  /\ call' = <<"Independent", S>>
  /\ number' = [x \in Name |-> [number[x] EXCEPT !.var = @ \/ x \in S]]
  /\ UNCHANGED live

(* The recording ends and is kept as a function, whose dependent variable  *)
(* is the number of y.  There are no variables any more.                   *)
TapeFunction(y) ==
  /\ y \in live
  /\ recording
  /\ recording' = FALSE
  /\ call' = <<"tape_function", y, number[y]>>
  /\ number' = [x \in Name |-> Plain(number[x].val)]
  /\ UNCHANGED live

Next ==
  \/ \E x \in Name :
       \/ \E a \in Operand : Assign(x, a)
       \/ \E op \in Op, a, b \in Operand : AssignResult(x, op, a, b)
       \/ \E a \in Name : Move(x, a)
       \/ Destroy(x)
       \/ TapeFunction(x)
  \/ \E S \in SUBSET Name : Independent(S)

Spec == Init /\ [][Next]_vars
=============================================================================
