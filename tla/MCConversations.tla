-------------------------- MODULE MCConversations ---------------------------
(* A small instance of Conversations for TLC.                              *)
EXTENDS Conversations, TLC

Interchangeable == Permutations(Users) \cup Permutations(Convs) \cup Permutations(Reqs)
=============================================================================
