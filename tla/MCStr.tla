------------------------------- MODULE MCStr -------------------------------
(* Small instances of Str for TLC: two strings, of a NUL and one other        *)
(* character, in blocks of 2, 4 and 6 characters.                             *)
EXTENDS Str, TLC

CONSTANTS a, b

Symmetry == Permutations({a, b})

\* No function reads call: states that differ in it alone go on alike.
Memory == <<str, lost>>
=============================================================================
