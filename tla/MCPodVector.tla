---------------------------- MODULE MCPodVector -----------------------------
(* Two threads and two vectors of up to three elements, over capacities of *)
(* one byte and of the next that capacity_t takes.                         *)
EXTENDS PodVector, TLC

(* capacity_t: each capacity is 3/2 times the one before it. *)
capacity[c \in Nat] == IF c = 0 THEN 1 ELSE 3 * ((capacity[c - 1] + 1) \div 2)

MCCapacity == [c \in 0 .. num_cap - 1 |-> capacity[c]]

Same == Permutations(Addr) \union Permutations(Vector)
=============================================================================
