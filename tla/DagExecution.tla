---------------------------- MODULE DagExecution ----------------------------
(***************************************************************************)
(* What a service compiler may expect of the workflow engine, without      *)
(* batches, Futures, polls or time-outs: every action of the workflow is   *)
(* started at most once, when the results of all it depends on are there,  *)
(* and a result is called complete only if every action has ended.  Module *)
(* Workflow implements this specification.                                 *)
(***************************************************************************)
CONSTANTS
  Action,     \* the actions
  Plans       \* the workflows considered

VARIABLES
  plan,       \* the workflow: plan.deps[a] before a, for all a in plan.live
  progress,   \* of each action: "waiting", "running" or "ended"
  outcome     \* "going", "complete", "expired" (out of time) or "failed"

dagVars == <<plan, progress, outcome>>

Init ==
  /\ plan \in Plans
  /\ progress = [a \in Action |-> "waiting"]
  /\ outcome = "going"

\* The actions that may be started.
Ready == {a \in plan.live : /\ progress[a] = "waiting"
                            /\ \A d \in plan.deps[a] : progress[d] = "ended"}

Started(S) == [a \in Action |-> IF a \in S THEN "running" ELSE progress[a]]

Begin ==
  /\ outcome = "going"
  /\ \E S \in SUBSET Ready : progress' = Started(S)
  /\ UNCHANGED <<plan, outcome>>

End(a) ==
  /\ outcome = "going" /\ progress[a] = "running"
  /\ progress' = [progress EXCEPT ![a] = "ended"]
  /\ UNCHANGED <<plan, outcome>>

Complete ==
  /\ outcome = "going"
  /\ \A a \in plan.live : progress[a] = "ended"
  /\ outcome' = "complete"
  /\ UNCHANGED <<plan, progress>>

GiveUp ==
  /\ outcome = "going"
  /\ outcome' \in {"expired", "failed"}
  /\ UNCHANGED <<plan, progress>>

\* Something goes wrong while actions are started, or with one that runs.
Fail ==
  /\ outcome = "going"
  /\ \/ \E S \in SUBSET Ready : progress' = Started(S)
     \/ \E a \in Action : /\ progress[a] = "running"
                          /\ progress' = [progress EXCEPT ![a] = "ended"]
  /\ outcome' = "failed"
  /\ UNCHANGED plan

Next == Begin \/ (\E a \in Action : End(a)) \/ Complete \/ GiveUp \/ Fail

Spec == Init /\ [][Next]_dagVars
=============================================================================
