----------------------------- MODULE MCProfiler ------------------------------
(* Profiler with two VMs; the cfgs give the bounds. *)
EXTENDS Profiler

CONSTANTS v1, v2
=============================================================================
