------------------------------- MODULE Vectors ------------------------------
(***************************************************************************)
(* What pod_vector promises: vectors that grow, each a value of its own.   *)
(* Elements that a vector grows by are not initialised.                    *)
(***************************************************************************)
EXTENDS Naturals, Sequences

CONSTANTS
  Vector,
  Elem,          \* what an element can be, uninitialised included
  MaxLength      \* the most elements a vector may have (max_length_)

VARIABLE vec

Init == vec = [v \in Vector |-> <<>>]

(* n more elements. *)
Extend(v, n) ==
  /\ Len(vec[v]) + n <= MaxLength
  /\ \E s \in [1 .. Len(vec[v]) + n -> Elem] :
       /\ \A i \in 1 .. Len(vec[v]) : s[i] = vec[v][i]
       /\ vec' = [vec EXCEPT ![v] = s]

Write(v, i, x) ==
  /\ i \in 1 .. Len(vec[v])
  /\ vec' = [vec EXCEPT ![v] = [@ EXCEPT ![i] = x]]

Assign(v, w) == vec' = [vec EXCEPT ![v] = vec[w]]

Clear(v) == vec' = [vec EXCEPT ![v] = <<>>]

Swap(v, w) == vec' = [vec EXCEPT ![v] = vec[w], ![w] = vec[v]]

Next ==
  \/ \E v \in Vector : Clear(v) \/ \E n \in 1 .. MaxLength : Extend(v, n)
  \/ \E v, w \in Vector : Assign(v, w) \/ Swap(v, w)
  \/ \E v \in Vector, i \in 1 .. MaxLength, x \in Elem : Write(v, i, x)

Spec == Init /\ [][Next]_vec
=============================================================================
