----------------------------- MODULE MCParallel -----------------------------
(* Parallel over every list of up to six items and every budget of up to   *)
(* four threads.                                                           *)
EXTENDS Parallel
=============================================================================
