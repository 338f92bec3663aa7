----------------------------- MODULE MCReadlink -----------------------------
(* A small instance of Readlink for TLC: links that fit the first buffer,     *)
(* fill it exactly, and need it to be doubled once and twice.                 *)
EXTENDS Readlink, TLC

CONSTANTS short, full, long, longest

MCText   == {short, full, long, longest}
MCLength == short :> 1 @@ full :> 2 @@ long :> 3 @@ longest :> 7
=============================================================================
