-------------------------- MODULE RecordingSession --------------------------
(***************************************************************************)
(* What CppAD's tape management promises the program, without tape         *)
(* identifiers, tables or handles: every thread has at most one recording  *)
(* open, an AD object is either a constant or the address of a variable of *)
(* an open recording, and closing a recording turns each of its variables  *)
(* into a constant, at once and for ever.                                  *)
(***************************************************************************)
EXTENDS Naturals, Sequences

CONSTANTS
  Thread,   (* The threads that may record.                              *)
  Object,   (* The AD<Base> objects of the program.                      *)
  Vector    (* The vectors of objects a recording may be opened on.      *)

VARIABLES
  open,     (* open[t]: thread t is recording.                           *)
  count,    (* count[t]: the variables on the recording of t, or 0.      *)
  var       (* var[o]: Constant, or the thread and address of a variable *)

vars == <<open, count, var>>

Constant == <<>>

IsVariableOf(o, t) == var[o] # Constant /\ var[o][1] = t

-----------------------------------------------------------------------------

Init ==
  /\ open  = [t \in Thread |-> FALSE]
  /\ count = [t \in Thread |-> 0]
  /\ var   = [o \in Object |-> Constant]

(* A recording opens on the vector x, whose elements become its variables  *)
(* 1 .. Len(x); variable 0 is the one of the begin operator.               *)
Open(t, x) ==
  /\ ~open[t]
  /\ open'  = [open EXCEPT ![t] = TRUE]
  /\ count' = [count EXCEPT ![t] = 1 + Len(x)]
  /\ var'   = [o \in Object |->
                 IF \E j \in DOMAIN x : x[j] = o
                   THEN <<t, CHOOSE j \in DOMAIN x : x[j] = o>>
                   ELSE var[o]]

(* Object r becomes the next variable of the open recording of t. *)
Record(t, r) ==
  /\ open[t]
  /\ count' = [count EXCEPT ![t] = @ + 1]
  /\ var'   = [var EXCEPT ![r] = <<t, count[t]>>]
  /\ UNCHANGED open

(* Object r becomes what object a is. *)
Copy(r, a) ==
  /\ var' = [var EXCEPT ![r] = var[a]]
  /\ UNCHANGED <<open, count>>

(* Object r becomes a constant. *)
Forget(r) ==
  /\ var' = [var EXCEPT ![r] = Constant]
  /\ UNCHANGED <<open, count>>

(* The recording of t ends: none of its variables survives it. *)
Close(t) ==
  /\ open[t]
  /\ open'  = [open EXCEPT ![t] = FALSE]
  /\ count' = [count EXCEPT ![t] = 0]
  /\ var'   = [o \in Object |-> IF IsVariableOf(o, t) THEN Constant ELSE var[o]]

Next ==
  \/ \E t \in Thread : (\E x \in Vector : Open(t, x)) \/ Close(t)
  \/ \E t \in Thread, r \in Object : Record(t, r)
  \/ \E r, a \in Object : Copy(r, a)
  \/ \E r \in Object : Forget(r)

Spec == Init /\ [][Next]_vars
=============================================================================
