--------------------------- MODULE MCDoubleBuffer ---------------------------
(* DoubleBuffer for TLC: the flows are interchangeable model values. *)
EXTENDS DoubleBuffer, TLC

Symmetry == Permutations(Flow)
=============================================================================
