------------------------------ MODULE MCBilling -----------------------------
(* A small instance of Billing for TLC.                                    *)
EXTENDS Billing, TLC

Interchangeable == Permutations(Events) \cup Permutations(Rows) \cup Permutations(Reqs)
=============================================================================
