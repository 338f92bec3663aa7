------------------------------ MODULE MCVector ------------------------------
(* A small instance of Vector for TLC: blocks of 2, 4 and 6 elements.         *)
EXTENDS Vector, TLC

CONSTANTS a, b

Symmetry == Permutations({a, b})

\* No function reads call: states that differ in it alone go on alike.
Memory == <<type, vec, lost>>
=============================================================================
