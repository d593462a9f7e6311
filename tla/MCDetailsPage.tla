---------------------------- MODULE MCDetailsPage ----------------------------
(***************************************************************************)
(* The page for TLC: two substates, so that the status can have changed    *)
(* when a command is clicked.                                              *)
(***************************************************************************)
EXTENDS DetailsPage

CONSTANTS READY, COMMITTED

TwoStates == {READY, COMMITTED}

\* No handler tells one substate from another, so that it does not matter
\* which of the two is the first.
ReadyFirst == Init /\ status = READY

ReadyFirstSpec == ReadyFirst /\ [][Next]_vars /\ Fairness
=============================================================================
