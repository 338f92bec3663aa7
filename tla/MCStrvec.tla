------------------------------ MODULE MCStrvec ------------------------------
(* A small instance of Strvec for TLC: blocks of 2 and 4 elements.            *)
EXTENDS Strvec

MCEnviron == <<"a", "a">>
=============================================================================
