---------------------------- MODULE MCSystemModel ----------------------------
(***************************************************************************)
(* Instances of SystemModel for TLC.                                       *)
(***************************************************************************)
EXTENDS SystemModel

CONSTANTS d1, d2

TwoDrivers == {d1, d2}
TwoSlots == {1, 2}

\* Two drivers with a pull each, or one with two that overlap.
TwoOrOverlapping ==
  {[drivers |-> {d1, d2}, slots |-> {1}], [drivers |-> {d1}, slots |-> {1, 2}]}
=============================================================================
