---------------------------- MODULE MCChatFanout ----------------------------
(* A small instance of ChatFanout for TLC.                                 *)
EXTENDS ChatFanout
=============================================================================
