---------------------------- MODULE MCLambdaOps ----------------------------
(* The bounds are in the configurations.                                   *)
EXTENDS LambdaOps
=============================================================================
