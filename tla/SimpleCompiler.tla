--------------------------- MODULE SimpleCompiler ---------------------------
(***************************************************************************)
(* SimpleCompiler: the policies of an intent are turned into the workflow  *)
(* of actions that the engine executes.                                    *)
(*                                                                         *)
(* An intent has a model of what is to be removed and one of what is to be *)
(* added; each that is not empty is compiled in turn, into the workflow of *)
(* the same worker.  Policies are worked through a queue that starts with  *)
(* the leaves, in the order in which a HashMap happens to list them, and   *)
(* grows upwards: a policy whose children are not all compiled goes back   *)
(* to the end of the queue, and the action just created for it is left     *)
(* behind.                                                                 *)
(*                                                                         *)
(* Actions are numbered in the order of their creation.  The part of the   *)
(* model a leaf action is given (its input delta) is left out.             *)
(***************************************************************************)
EXTENDS Naturals, SequencesExt

CONSTANTS
  Policy,      \* the resources of type spa:PolicyAction
  Other,       \* other resources a policy may depend on
  NoPolicy,    \* for an action that was never created
  Intents,     \* the intents considered: sequences of one or two graphs
  MaxActions   \* bound: actions created in one behaviour

\* A graph: its policies, what each depends on, and the malformed ones (no
\* resource depends on them, or their type names no computation element).
GraphOK(g) ==
  /\ g = [policies |-> g.policies, dependOn |-> g.dependOn,
          malformed |-> g.malformed]
  /\ g.policies \subseteq Policy /\ g.policies # {}
  /\ g.dependOn \in [g.policies -> SUBSET (g.policies \cup Other)]
  /\ g.malformed \subseteq g.policies

ASSUME CompilerAssumption ==
  /\ IsFiniteSet(Policy)
  /\ Policy \cap Other = {}
  /\ NoPolicy \notin Policy
  /\ MaxActions \in Nat \ {0}
  /\ \A i \in Intents : Len(i) \in 1..2 /\ \A k \in 1..Len(i) : GraphOK(i[k])

Actions == 1..MaxActions

VARIABLES
  intent,        \* the graphs to be compiled, never changed
  round,         \* the graph being compiled
  pc,            \* "enqueue", "loop", "done" or "error"
  queue,         \* policyQueue
  childActions,  \* parentPolicyChildActionMap
  policyOf,      \* ActionBase.policy, in the order of creation
  deps,          \* ActionBase.dependencies
  rootActions    \* worker.rootActions

vars == <<intent, round, pc, queue, childActions, policyOf, deps, rootActions>>

g == intent[round]
Children(p) == g.dependOn[p] \cap g.policies
Parents(p) == {q \in g.policies : p \in g.dependOn[q]}
Leaves == {p \in g.policies : g.dependOn[p] = {}}

Init ==
  /\ intent \in Intents
  /\ round = 1
  /\ pc = "enqueue"
  /\ queue = <<>>
  /\ childActions = [p \in Policy |-> {}]
  /\ policyOf = [a \in Actions |-> NoPolicy]
  /\ deps = [a \in Actions |-> {}]
  /\ rootActions = {}

\* compileModel up to its loop: the leaves are queued in any order; without
\* a leaf it throws.
Enqueue ==
  /\ pc = "enqueue"
  /\ childActions' = [p \in Policy |-> {}]
  /\ IF Leaves = {}
       THEN pc' = "error" /\ queue' = queue
       ELSE pc' = "loop" /\ queue' \in SetToSeqs(Leaves)
  /\ UNCHANGED <<intent, round, policyOf, deps, rootActions>>

Created == {a \in Actions : policyOf[a] # NoPolicy}

\* policyQueue.poll and createAction, with the dependencies recorded so far:
\* the action is a new object.
NewAction(a, p) ==
  /\ pc = "loop" /\ queue # <<>>
  /\ p = Head(queue) /\ p \notin g.malformed
  /\ a \in Actions /\ Created = 1..(a - 1)
  /\ policyOf' = [policyOf EXCEPT ![a] = p]
  /\ deps' = [deps EXCEPT ![a] = childActions[p]]

\* createAction throws, and with it compile: the workflow is abandoned.
CreateFails ==
  /\ pc = "loop" /\ queue # <<>> /\ Head(queue) \in g.malformed
  /\ pc' = "error"
  /\ queue' = Tail(queue)
  /\ UNCHANGED <<intent, round, childActions, policyOf, deps, rootActions>>

\* Mutant of Waits: a policy with as many child actions as children waits.
WaitsOneMore(p) ==
  /\ childActions[p] # {}
  /\ Cardinality(Children(p)) >= Cardinality(childActions[p])

\* A policy something was recorded for has children that are not compiled.
Waits(p) ==
  /\ childActions[p] # {}
  /\ Cardinality(Children(p)) > Cardinality(childActions[p])

\* The policy goes back to the queue; its action is not recorded anywhere,
\* but stays in the uppers of its dependencies.
Requeue ==
  /\ \E a \in Actions, p \in Policy :
       /\ NewAction(a, p)
       /\ Waits(p)
       /\ queue' = Append(Tail(queue), p)
  /\ UNCHANGED <<intent, round, pc, childActions, rootActions>>

\* Mutant of Enqueued: a parent that is queued already is queued again.
EnqueuedAgain(q, ps) == \E s \in SetToSeqs(ps) : queue' = q \o s

\* The parents of a compiled policy, in any order, those not queued already.
Enqueued(q, ps) ==
  \E s \in SetToSeqs({x \in ps : ~Contains(q, x)}) : queue' = q \o s

\* Mutant of Compile: only the first parent gets to know of the action.
CompileFirstParent ==
  /\ \E a \in Actions, p \in Policy :
       /\ NewAction(a, p)
       /\ ~Waits(p)
       /\ IF Parents(p) = {}
            THEN /\ rootActions' = rootActions \cup {a}
                 /\ queue' = Tail(queue)
                 /\ childActions' = childActions
            ELSE \E x \in Parents(p) :
                 /\ childActions' = [childActions EXCEPT ![x] = @ \cup {a}]
                 /\ Enqueued(Tail(queue), {x})
                 /\ rootActions' = rootActions
  /\ UNCHANGED <<intent, round, pc>>

\* Mutant of Compile: listParentPolicies returns an empty list, not null.
CompileNoRoots ==
  /\ \E a \in Actions, p \in Policy :
       /\ NewAction(a, p)
       /\ ~Waits(p)
       /\ childActions' = [x \in Policy |->
                             childActions[x] \cup
                               (IF x \in Parents(p) THEN {a} ELSE {})]
       /\ Enqueued(Tail(queue), Parents(p))
  /\ UNCHANGED <<intent, round, pc, rootActions>>

\* The action is recorded for every parent policy, or is a root action.
Compile ==
  /\ \E a \in Actions, p \in Policy :
       /\ NewAction(a, p)
       /\ ~Waits(p)
       /\ childActions' = [x \in Policy |->
                             childActions[x] \cup
                               (IF x \in Parents(p) THEN {a} ELSE {})]
       /\ Enqueued(Tail(queue), Parents(p))
       /\ rootActions' = rootActions \cup
                           (IF Parents(p) = {} THEN {a} ELSE {})
  /\ UNCHANGED <<intent, round, pc>>

\* The queue is empty: the next graph, or runWorkflow.
EndOfRound ==
  /\ pc = "loop" /\ queue = <<>>
  /\ IF round < Len(intent)
       THEN round' = round + 1 /\ pc' = "enqueue"
       ELSE round' = round /\ pc' = "done"
  /\ UNCHANGED <<intent, queue, childActions, policyOf, deps, rootActions>>

Next == Enqueue \/ Requeue \/ Compile \/ CreateFails \/ EndOfRound

\* compile is called by the worker's thread and waits for nothing.
Fairness == WF_vars(Next)

Spec == Init /\ [][Next]_vars /\ Fairness

-----------------------------------------------------------------------------
(***************************************************************************)
(* Properties.                                                             *)
(***************************************************************************)

\* Types, and: a policy is never queued twice, although parents are queued
\* by their children and by themselves.
CompilerTypeOK ==
  /\ intent \in Intents
  /\ round \in 1..Len(intent)
  /\ pc \in {"enqueue", "loop", "done", "error"}
  /\ queue \in Seq(g.policies) /\ IsInjective(queue)
  /\ childActions \in [Policy -> SUBSET Created]
  /\ \E n \in 0..MaxActions :
       policyOf \in [Actions -> Policy \cup {NoPolicy}] /\ Created = 1..n
  /\ deps \in [Actions -> SUBSET Created]
  /\ rootActions \subseteq Created

\* What is reachable from the root actions.  Dependencies are created first.
Live ==
  LET f[a \in Actions] == \/ a \in rootActions
                          \/ \E u \in (a + 1)..MaxActions : a \in deps[u] /\ f[u]
  IN  {a \in Created : f[a]}

Engine == INSTANCE WorkflowPlan WITH Action <- Actions

\* The workflow the compiler leaves is one the engine can execute: whatever
\* a reachable action waits for is reachable too, and there is no cycle.
\* (Module Workflow assumes this of the plans it is checked and proved for.)
ResultIsPlan ==
  pc = "done" => Engine!PlanOK([deps |-> deps, live |-> Live])

\* A graph without a cycle of dependencies in which a policy that depends on
\* anything depends on a policy.
WellFormed(h) ==
  /\ \A p \in h.policies :
       h.dependOn[p] = {} \/ h.dependOn[p] \cap h.policies # {}
  /\ \A S \in SUBSET h.policies :
       S # {} => \E p \in S : h.dependOn[p] \cap S = {}

\* No policy is to be removed and to be added at once.
Disjoint ==
  \A k, l \in 1..Len(intent) :
    k # l => intent[k].policies \cap intent[l].policies = {}

\* The workflow is the policy graph, whatever the order of the queue: every
\* policy of every graph has exactly one reachable action, which depends on
\* exactly one action for each child of the policy.  In particular a policy
\* with several parents is compiled once, and what is left behind by a
\* policy that had to wait is never executed.  (A policy that is in both
\* graphs is compiled once for each.)
MirrorsPolicies ==
  (pc = "done" /\ Disjoint /\ \A k \in 1..Len(intent) : WellFormed(intent[k])) =>
    \A k \in 1..Len(intent) : \A p \in intent[k].policies :
      \E a \in Live :
        /\ \A b \in Live : policyOf[b] = p => b = a
        /\ policyOf[a] = p
        /\ {policyOf[d] : d \in deps[a]}
             = intent[k].dependOn[p] \cap intent[k].policies
        /\ \A d, e \in deps[a] : policyOf[d] = policyOf[e] => d = e

\* The queue is emptied, although policies put themselves back: compile ends
\* for every well-formed intent.  (With a cycle above a leaf it does not:
\* the policies of the cycle go round the queue for ever.)
CompileEnds ==
  (\A k \in 1..Len(intent) : WellFormed(intent[k])) ~> pc \in {"done", "error"}
=============================================================================
