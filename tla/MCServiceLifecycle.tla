------------------------- MODULE MCServiceLifecycle -------------------------
(***************************************************************************)
(* Instances of ServiceLifecycle for TLC: model values for the requests.   *)
(***************************************************************************)
EXTENDS ServiceLifecycle
CONSTANTS r1, r2, p1, p2
=============================================================================
