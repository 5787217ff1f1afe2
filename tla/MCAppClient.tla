----------------------------- MODULE MCAppClient ----------------------------
(* A small instance of AppClient for TLC.                                  *)
EXTENDS AppClient
=============================================================================
