----------------------------- MODULE MCTapeLink -----------------------------
(* TapeLink for TLC: vectors of one or two objects, which are              *)
(* interchangeable.                                                        *)
EXTENDS TapeLink, SequencesExt

MCVector == {x \in BoundedSeq(Object, 2) : x # <<>> /\ IsInjective(x)}

MCSymmetry == Permutations(Object)
=============================================================================
