------------------------------ MODULE MCEvents ------------------------------
(* A small instance of Events for TLC. *)
EXTENDS Events, TLC
Interchangeable == Permutations(Users) \cup Permutations(Reqs)
=============================================================================
