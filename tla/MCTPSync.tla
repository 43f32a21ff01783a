------------------------------ MODULE MCTPSync ------------------------------
(* All kinds of messages.                                                  *)
EXTENDS TPSync

MCMessage == {"user", "abort", "exit"}
=============================================================================
