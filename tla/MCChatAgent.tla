---------------------------- MODULE MCChatAgent ----------------------------
(* Instances of ChatAgent for TLC. *)
EXTENDS ChatAgent

CONSTANTS a1, a2, t1, t2
=============================================================================
