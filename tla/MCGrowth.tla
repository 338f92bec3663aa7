------------------------------ MODULE MCGrowth ------------------------------
(* A small instance of Growth for TLC: words of 7 bits, elements of 4 bytes.  *)
EXTENDS Growth
=============================================================================
