---------------------------- MODULE WorkflowPlan ----------------------------
(***************************************************************************)
(* What the compiler hands to the workflow engine.                         *)
(*                                                                         *)
(* A compiled workflow: deps[a] is a's list of dependencies, live the      *)
(* actions reachable from rootActions.  The others are left behind by the  *)
(* compiler, which creates an action each time it dequeues a policy and    *)
(* drops it when the policy has to be queued again: nobody depends on them *)
(* but they stay in the uppers of their dependencies.                      *)
(*                                                                         *)
(* Module Workflow assumes PlanOK of its plans; module SimpleCompiler is   *)
(* checked to build nothing else.                                          *)
(***************************************************************************)
CONSTANT Action   \* the ActionBase objects the compiler created

PlanOK(p) ==
  /\ p = [deps |-> p.deps, live |-> p.live]
  /\ p.deps \in [Action -> SUBSET Action]
  /\ p.live \in SUBSET Action /\ p.live # {}
  /\ \A a \in Action : p.deps[a] \subseteq p.live
  /\ \A a \in p.live : (\E u \in Action : a \in p.deps[u])
                          => \E u \in p.live : a \in p.deps[u]
  /\ \A S \in SUBSET p.live :
        S # {} => \E a \in S : p.deps[a] \cap S = {}       \* acyclic
=============================================================================
