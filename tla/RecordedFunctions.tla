------------------------- MODULE RecordedFunctions -------------------------
(***************************************************************************)
(* What recording promises.  From Independent on, every AD object stands   *)
(* for a function of the independent variables; an operation gives its     *)
(* result the function it computes from those of its operands; and         *)
(* Dependent keeps the function of the dependent variable, together with   *)
(* the points at which the comparisons the program made on the way come    *)
(* out as they did (compare_change_number() is zero).                      *)
(***************************************************************************)
EXTENDS Tape

CONSTANTS
  Object,
  Ops,       (* The operators the program uses.                                *)
  Dim,       (* The number of independent variables.                       *)
  Vector,    (* Vectors of Dim objects, those Independent is called with.  *)
  NoFun      (* No function was recorded yet.                              *)

VARIABLES
  recording,
  at,        (* The point of the recording, the values of the independents. *)
  fn,        (* fn[o]: the function of object o.                            *)
  agrees,    (* agrees[u]: every comparison comes out at u as it did at at. *)
  fun        (* The last function kept.                                     *)

vars == <<recording, at, fn, agrees, fun>>

Point == [1 .. Dim -> Num]

Const(c) == [u \in Point |-> c]

Everywhere == [u \in Point |-> TRUE]

Set(r, f) ==
  /\ fn' = [fn EXCEPT ![r] = f]
  /\ UNCHANGED <<recording, at, agrees, fun>>

-----------------------------------------------------------------------------

Init ==
  /\ recording = FALSE
  /\ at = [j \in 1 .. Dim |-> Zero]
  /\ fn = [o \in Object |-> Const(Zero)]
  /\ agrees = Everywhere
  /\ fun = NoFun

Independent(x) ==
  /\ ~recording
  /\ recording' = TRUE
  /\ at' = [j \in 1 .. Dim |-> fn[x[j]][at]]
  /\ fn' = [o \in Object |->
              IF \E j \in 1 .. Dim : x[j] = o
                THEN [u \in Point |-> u[CHOOSE j \in 1 .. Dim : x[j] = o]]
                ELSE fn[o]]
  /\ agrees' = Everywhere
  /\ UNCHANGED fun

Assign(r, c) == Set(r, Const(c))

Copy(r, a) == Set(r, fn[a])

BinaryOp(op, r, a, b) ==
  Set(r, [u \in Point |-> Calc(op, <<fn[a][u], fn[b][u]>>)])

UnaryOp(op, r, a) == Set(r, [u \in Point |-> Calc(op, <<fn[a][u]>>)])

CondExpOp(cop, r, left, right, if_true, if_false) ==
  Set(r, [u \in Point |-> IF Holds(cop, fn[left][u], fn[right][u])
                            THEN fn[if_true][u] ELSE fn[if_false][u]])

CompareOp(cop, a, b) ==
  /\ agrees' = [u \in Point |->
                  /\ agrees[u]
                  /\ Holds(cop, fn[a][u], fn[b][u])
                       <=> Holds(cop, fn[a][at], fn[b][at])]
  /\ UNCHANGED <<recording, at, fn, fun>>

(* The recording ends; the objects keep their values at its point. *)
End ==
  /\ recording
  /\ recording' = FALSE
  /\ fn' = [o \in Object |-> Const(fn[o][at])]
  /\ agrees' = Everywhere
  /\ UNCHANGED at

Dependent(y) ==
  /\ End
  /\ fun' = [value |-> fn[y], agrees |-> agrees]

AbortRecording == End /\ UNCHANGED fun

Next ==
  \/ \E x \in Vector : Independent(x)
  \/ \E r \in Object :
       \/ \E c \in Num : Assign(r, c)
       \/ \E a \in Object : Copy(r, a)
       \/ \E op \in Binary \cap Ops, a, b \in Object : BinaryOp(op, r, a, b)
       \/ \E op \in Unary \cap Ops, a \in Object : UnaryOp(op, r, a)
       \/ \E cop \in CondExp \cap Ops, l, m, t, e \in Object :
            CondExpOp(cop, r, l, m, t, e)
  \/ \E cop \in Relational \cap Ops, a, b \in Object : CompareOp(cop, a, b)
  \/ \E y \in Object : Dependent(y)
  \/ AbortRecording

Spec == Init /\ [][Next]_vars
=============================================================================
