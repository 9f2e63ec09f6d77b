----------------------------- MODULE MCTryStack ------------------------------
(* TryStack on small instances; the cfgs give the bounds. *)
EXTENDS TryStack
=============================================================================
