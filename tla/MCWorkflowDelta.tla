--------------------------- MODULE MCWorkflowDelta ---------------------------
(***************************************************************************)
(* Instances of WorkflowDelta for TLC: the shapes of workflow that merging *)
(* can tell apart with four actions.                                       *)
(***************************************************************************)
EXTENDS WorkflowDelta

CONSTANTS a1, a2, a3, a4

Plan(d1, d2, d3, live) ==
  [deps |-> [a \in Action |-> CASE a = a1 -> d1 [] a = a2 -> d2
                                [] a = a3 -> d3 [] OTHER -> {}],
   live |-> live]

MCPlans ==
  { \* a chain beside a second root
    Plan({a2}, {a3}, {}, Action),
    \* a tree of three levels
    Plan({a2, a3}, {a4}, {}, Action),
    \* a diamond
    Plan({a2, a3}, {a4}, {a4}, Action),
    \* two roots that share one dependency, the second has another one
    Plan({a3}, {a3, a4}, {}, Action),
    \* a1 was left over when a2 had to be queued again
    Plan({a3}, {a3, a4}, {}, Action \ {a1}),
    \* an action and its dependency share a dependency
    Plan({a2, a3}, {a3, a4}, {}, Action) }
=============================================================================
