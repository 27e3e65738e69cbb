------------------------------ MODULE MCGroups ------------------------------
(* A small instance of Groups for TLC: two requests at a time, a user and a *)
(* department as members.                                                   *)
EXTENDS Groups, TLC

Symmetry == Permutations(Worker) \cup Permutations(Name)
=============================================================================
