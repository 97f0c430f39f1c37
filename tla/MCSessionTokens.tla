-------------------------- MODULE MCSessionTokens --------------------------
(* One worker, the dispatcher and one other route that rotate, one thread   *)
(* that registers.                                                          *)
EXTENDS SessionTokens

CONSTANT w1
=============================================================================
