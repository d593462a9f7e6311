--------------------------- MODULE MCVerification ---------------------------
(***************************************************************************)
(* Instances of Verification for TLC.                                      *)
(***************************************************************************)
EXTENDS Verification, TLC

CONSTANTS v1, v2

TwoDrones == {v1, v2}
=============================================================================
