--------------------------- MODULE MCDriverCommit ---------------------------
(***************************************************************************)
(* Instances of DriverCommit for TLC.                                      *)
(***************************************************************************)
EXTENDS DriverCommit

CONSTANTS s1, t1   \* one of SenseRMDriver, one of StackSystemDriver

SenseAndStack == {s1, t1}
OnlySense == {s1}
=============================================================================
