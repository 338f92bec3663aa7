------------------------------ MODULE MCSearch ------------------------------
(* A small instance of Search for TLC: all vectors of up to 4 elements in     *)
(* blocks of 4, with the same element, any, in what is not in use.  An int    *)
(* has two values, so that addresses 2 apart are as those 4 GiB apart.        *)
EXTENDS Search

\* A NUL and characters below and above it.
MCVal == {-1, 0, 1}

MCVectors ==
    {[of    |-> type,
      size  |-> 4,
      used  |-> used,
      cells |-> [k \in 0 .. 3 |-> IF k < used THEN xs[k] ELSE stale]] :
          type \in Type, used \in 0 .. 4, xs \in [0 .. 3 -> Val], stale \in Val}
=============================================================================
