------------------------------ MODULE MCDbView ------------------------------
(* A small instance of DbView for TLC; no property tells runs or names apart.*)
EXTENDS DbView, TLC

Alike == Permutations(Run) \cup Permutations(Employee)
=============================================================================
