----------------------------- MODULE MCWorkflow -----------------------------
(***************************************************************************)
(* Instances of Workflow for TLC: every acyclic workflow of four actions   *)
(* (up to renaming), one of which may be left over by the compiler.        *)
(***************************************************************************)
EXTENDS ActionSearch

CONSTANTS a1, a2, a3, a4

\* Dependencies only point from an earlier action to a later one: every DAG
\* has a representative among these.  A left over action has no upper, so
\* it can be the earliest; the compiler has given it a dependency.
Rank(a) == CHOOSE i \in 1..4 : <<a1, a2, a3, a4>>[i] = a

MCPlans ==
  {p \in [deps : [Action -> SUBSET Action], live : {Action, Action \ {a1}}] :
     /\ \A a \in Action : \A d \in p.deps[a] : Rank(d) > Rank(a)
     /\ p.deps[a1] = {} => a1 \in p.live
     /\ PlanOK(p)}
=============================================================================
