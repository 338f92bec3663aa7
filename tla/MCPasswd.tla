------------------------------ MODULE MCPasswd ------------------------------
(* A small instance of Passwd for TLC: two accounts with no field in common,  *)
(* a key that names none, and memory for two records.                         *)
EXTENDS Passwd

Alice == [f \in Fields |-> <<"alice", f>>]
Dump  == [f \in Fields |-> <<"dump", f>>]

MCAccounts == {Alice, Dump}
MCKeys     == [alice |-> Alice, dump |-> Dump, nobody |-> NULL]
MCErrnos   == {0, 2}
=============================================================================
