------------------------------ MODULE Workflow ------------------------------
(***************************************************************************)
(* The control of the workflow engine (WorkerBase.runWorkflow and the part *)
(* of ActionBase it calls): one worker thread executes a DAG of actions,   *)
(* each of them an asynchronous call of a computation element (MCE) whose  *)
(* Future the worker polls.                                                *)
(*                                                                         *)
(* An action is executed when all it depends on is merged; its result is   *)
(* merged into its uppers when its Future is done.  The worker gives up    *)
(* when its polling budget is spent.  What a merge does to the deltas is   *)
(* the subject of module WorkflowDelta, which extends this one.            *)
(*                                                                         *)
(* The order of the Java lists (rootActions, dependencies, the HashSet and *)
(* the HashMap that are iterated) is abstracted: any member may be the     *)
(* first one found.                                                        *)
(***************************************************************************)
EXTENDS Integers, WorkflowPlan

CONSTANTS
  NoAction,    \* Java's null, for mergedRoot
  Plans,       \* the compiled workflows considered, see PlanOK
  PollLimit,   \* 3000: polls of one round (100 ms each)
  TotalLimit   \* 9000: the worker's whole budget of polls

ASSUME WorkflowAssumption ==
  /\ NoAction \notin Action
  /\ \A p \in Plans : PlanOK(p)
  /\ PollLimit \in Nat \ {0}
  /\ TotalLimit \in Nat \ {0}

VARIABLES
  plan,          \* the compiled workflow, never changed by the worker
  pc,            \* where the worker thread is
  state,         \* ActionBase.state
  future,        \* the Future of an executed action, as its MCE left it
  batch,         \* batchOfActions
  resultMap,     \* the keys of resultMap
  sweep,         \* what the current pass over resultMap has yet to visit
  mergedRoot,    \* mergedRoot
  timeout,       \* polls left in this round
  total_timeout, \* the budget as the code counts it
  elapsed        \* polls really made: 100 ms each (read by no action)

vars == <<plan, pc, state, future, batch, resultMap, sweep, mergedRoot,
          timeout, total_timeout, elapsed>>

ActionState == {"IDLE", "PROCESSING", "FINISHED", "MERGED", "FAILED"}
Running == {"launch", "poll", "sweep"}
Stopped == {"returned", "timed_out", "failed"}

Uppers(a) == {u \in Action : a \in plan.deps[u]}
Roots == {a \in plan.live : Uppers(a) = {}}

\* Mutant of IdleLeaves: a dependency that is still running is overlooked.
IdleLeavesEager ==
  {a \in plan.live : /\ state[a] = "IDLE"
                     /\ \A d \in plan.deps[a] : state[d] # "IDLE"}

\* ActionBase.getIdleLeaf over all roots: whatever is reachable, IDLE and
\* without a dependency that is IDLE or PROCESSING is found by the search,
\* and may be found first.
IdleLeaves ==
  {a \in plan.live : /\ state[a] = "IDLE"
                     /\ \A d \in plan.deps[a] :
                           state[d] \notin {"IDLE", "PROCESSING"}}

\* lookupIndependentActions(n): n itself and what getIndependentIdleLeaves
\* adds below the roots.  An action with dependencies is never added there
\* (the list its own search returns is not null), and a root never is.
IndependentActions(n) ==
  {n} \cup {a \in plan.live \ Roots : state[a] = "IDLE" /\ plan.deps[a] = {}}

Init ==
  /\ plan \in Plans
  /\ pc = "launch"
  /\ state = [a \in Action |-> "IDLE"]
  /\ future = [a \in Action |-> "none"]
  /\ \E n \in IdleLeaves : batch = IndependentActions(n)
  /\ resultMap = {}
  /\ sweep = {}
  /\ mergedRoot = NoAction
  /\ timeout = PollLimit
  /\ total_timeout = TotalLimit
  /\ elapsed = 0

-----------------------------------------------------------------------------
(***************************************************************************)
(* The worker thread.                                                      *)
(***************************************************************************)

\* Mutant of Launch: an ended action is never taken out of the batch.
LaunchKeepsAll ==
  /\ pc = "launch" /\ batch # {} /\ total_timeout > 0
  /\ LET idle == {a \in batch : state[a] = "IDLE"}
     IN  /\ state' = [a \in Action |->
                        IF a \in idle THEN "PROCESSING" ELSE state[a]]
         /\ future' = [a \in Action |->
                         IF a \in idle THEN "running" ELSE future[a]]
         /\ resultMap' = resultMap \cup idle
  /\ timeout' = PollLimit
  /\ pc' = "poll"
  /\ UNCHANGED <<plan, batch, sweep, mergedRoot, total_timeout, elapsed>>

\* Mutant of Launch: what has just been executed is taken out as well.
LaunchDropsExecuted ==
  /\ pc = "launch" /\ batch # {} /\ total_timeout > 0
  /\ LET idle == {a \in batch : state[a] = "IDLE"}
     IN  /\ state' = [a \in Action |->
                        IF a \in idle THEN "PROCESSING" ELSE state[a]]
         /\ future' = [a \in Action |->
                         IF a \in idle THEN "running" ELSE future[a]]
         /\ resultMap' = resultMap \cup idle
  /\ batch' = {}
  /\ timeout' = PollLimit
  /\ pc' = "poll"
  /\ UNCHANGED <<plan, sweep, mergedRoot, total_timeout, elapsed>>

\* The outer loop's body up to polling: every IDLE action of the batch is
\* executed, every one that has ended leaves the batch.
Launch ==
  /\ pc = "launch" /\ batch # {} /\ total_timeout > 0
  /\ LET idle == {a \in batch : state[a] = "IDLE"}
         over == {a \in batch : state[a] \in {"FINISHED", "MERGED"}}
     IN  /\ state' = [a \in Action |->
                        IF a \in idle THEN "PROCESSING" ELSE state[a]]
         /\ future' = [a \in Action |->
                         IF a \in idle THEN "running" ELSE future[a]]
         /\ resultMap' = resultMap \cup idle
         /\ batch' = batch \ over
  /\ timeout' = PollLimit
  /\ pc' = "poll"
  /\ UNCHANGED <<plan, sweep, mergedRoot, total_timeout, elapsed>>

\* execute() cannot look up the bean of action a: it throws out of the
\* workflow, before or after other actions of the batch were executed.
LaunchFails(a) ==
  /\ pc = "launch" /\ batch # {} /\ total_timeout > 0
  /\ a \in batch /\ state[a] = "IDLE"
  /\ \E S \in SUBSET {b \in batch \ {a} : state[b] = "IDLE"} :
        /\ state' = [b \in Action |-> IF b = a THEN "FAILED"
                                      ELSE IF b \in S THEN "PROCESSING"
                                      ELSE state[b]]
        /\ future' = [b \in Action |->
                        IF b \in S THEN "running" ELSE future[b]]
        /\ resultMap' = resultMap \cup S
  /\ pc' = "failed"
  /\ UNCHANGED <<plan, batch, sweep, mergedRoot, timeout, total_timeout,
                 elapsed>>

\* Mutant of Poll: the round has no time-out of its own.
PollWithoutLimit ==
  /\ pc = "poll" /\ resultMap # {}
  /\ timeout' = timeout - 1
  /\ total_timeout' = total_timeout - 1
  /\ elapsed' = elapsed + 1
  /\ sweep' = resultMap
  /\ pc' = "sweep"
  /\ UNCHANGED <<plan, state, future, batch, resultMap, mergedRoot>>

\* Mutant of Poll: a poll is not taken off the budget.
PollForFree ==
  /\ pc = "poll" /\ timeout > 0 /\ resultMap # {}
  /\ timeout' = timeout - 1
  /\ elapsed' = elapsed + 1
  /\ sweep' = resultMap
  /\ pc' = "sweep"
  /\ UNCHANGED <<plan, state, future, batch, resultMap, mergedRoot,
                 total_timeout>>

\* The polling loop goes round: sleep 100 ms, then visit every Future.
Poll ==
  /\ pc = "poll" /\ timeout > 0 /\ resultMap # {}
  /\ timeout' = timeout - 1
  /\ total_timeout' = total_timeout - 1
  /\ elapsed' = elapsed + 1
  /\ sweep' = resultMap
  /\ pc' = "sweep"
  /\ UNCHANGED <<plan, state, future, batch, resultMap, mergedRoot>>

\* The polling loop ends: its timeout is spent or nothing is running.
EndPolling ==
  /\ pc = "poll" /\ ~ (timeout > 0 /\ resultMap # {})
  /\ pc' = "launch"
  /\ UNCHANGED <<plan, state, future, batch, resultMap, sweep, mergedRoot,
                 timeout, total_timeout, elapsed>>

\* isDone() is false.
SkipPending(a) ==
  /\ pc = "sweep" /\ a \in sweep /\ future[a] = "running"
  /\ sweep' = sweep \ {a}
  /\ UNCHANGED <<plan, pc, state, future, batch, resultMap, mergedRoot,
                 timeout, total_timeout, elapsed>>

\* Mutant of Collect: the Future stays in resultMap.
CollectKeepsFuture(a) ==
  /\ pc = "sweep" /\ a \in sweep /\ future[a] = "done"
  /\ state' = [state EXCEPT ![a] =
                 IF Uppers(a) # {} THEN "MERGED" ELSE "FINISHED"]
  /\ mergedRoot' = IF Uppers(a) = {} /\ mergedRoot = NoAction
                   THEN a ELSE mergedRoot
  /\ sweep' = sweep \ {a}
  /\ UNCHANGED <<plan, pc, future, batch, resultMap, timeout, total_timeout,
                 elapsed>>

\* The result is merged into every upper; a root's result becomes, or is
\* merged into, the result of the first root that finished.
Collect(a) ==
  /\ pc = "sweep" /\ a \in sweep /\ future[a] = "done"
  /\ state' = [state EXCEPT ![a] =
                 IF Uppers(a) # {} THEN "MERGED" ELSE "FINISHED"]
  /\ mergedRoot' = IF Uppers(a) = {} /\ mergedRoot = NoAction
                   THEN a ELSE mergedRoot
  /\ resultMap' = resultMap \ {a}
  /\ sweep' = sweep \ {a}
  /\ UNCHANGED <<plan, pc, future, batch, timeout, total_timeout, elapsed>>

\* Future.get() throws what the MCE threw; the state is FINISHED by then.
Interrupted(a) ==
  /\ pc = "sweep" /\ a \in sweep /\ future[a] = "thrown"
  /\ state' = [state EXCEPT ![a] = "FINISHED"]
  /\ pc' = "failed"
  /\ UNCHANGED <<plan, future, batch, resultMap, sweep, mergedRoot, timeout,
                 total_timeout, elapsed>>

\* After a pass: a new idle leaf ends the round, whose polls are then taken
\* off the budget (for the second time, Poll did it first).
NextBatch ==
  /\ pc = "sweep" /\ sweep = {}
  /\ \E n \in IdleLeaves : batch' = batch \cup IndependentActions(n)
  /\ total_timeout' = total_timeout - (PollLimit - timeout)
  /\ pc' = "launch"
  /\ UNCHANGED <<plan, state, future, resultMap, sweep, mergedRoot, timeout,
                 elapsed>>

\* After a pass that found no idle leaf.
PollAgain ==
  /\ pc = "sweep" /\ sweep = {} /\ IdleLeaves = {}
  /\ pc' = "poll"
  /\ UNCHANGED <<plan, state, future, batch, resultMap, sweep, mergedRoot,
                 timeout, total_timeout, elapsed>>

\* Mutant of Return: the loop ends as soon as a root has a result.
ReturnEarly ==
  /\ pc = "launch" /\ ~ (batch # {} /\ total_timeout > 0 /\ mergedRoot = NoAction)
  /\ IF total_timeout < 0 THEN pc' = "timed_out"
     ELSE pc' \in IF mergedRoot = NoAction THEN {"failed"}
                  ELSE {"returned", "failed"}
  /\ UNCHANGED <<plan, state, future, batch, resultMap, sweep, mergedRoot,
                 timeout, total_timeout, elapsed>>

\* The outer loop ends.  Only a negative budget is a time-out; without a
\* merged root the result cannot be built (null pointer), and sanitizing it
\* may throw.
Return ==
  /\ pc = "launch" /\ ~ (batch # {} /\ total_timeout > 0)
  /\ IF total_timeout < 0 THEN pc' = "timed_out"
     ELSE pc' \in IF mergedRoot = NoAction THEN {"failed"}
                  ELSE {"returned", "failed"}
  /\ UNCHANGED <<plan, state, future, batch, resultMap, sweep, mergedRoot,
                 timeout, total_timeout, elapsed>>

-----------------------------------------------------------------------------
\* An MCE's asynchronous process() ends; nothing stops it when the worker
\* has ended.
MceEnds(a) ==
  /\ future[a] = "running"
  /\ \E r \in {"done", "thrown"} : future' = [future EXCEPT ![a] = r]
  /\ UNCHANGED <<plan, pc, state, batch, resultMap, sweep, mergedRoot,
                 timeout, total_timeout, elapsed>>

Worker ==
  \/ Launch \/ Poll \/ EndPolling \/ NextBatch \/ PollAgain \/ Return
  \/ \E a \in Action : \/ LaunchFails(a) \/ SkipPending(a)
                       \/ Collect(a) \/ Interrupted(a)

Next == Worker \/ \E a \in Action : MceEnds(a)

\* The worker is one thread and is scheduled; an MCE may hang for ever.
Spec == Init /\ [][Next]_vars /\ WF_vars(Worker)

-----------------------------------------------------------------------------
\* The worker's variables have their types; a pass visits what is in
\* resultMap only, and a round makes no more than PollLimit polls.
TypeOK ==
  /\ plan \in Plans
  /\ pc \in Running \cup Stopped
  /\ state \in [Action -> ActionState]
  /\ future \in [Action -> {"none", "running", "done", "thrown"}]
  /\ batch \in SUBSET Action
  /\ resultMap \in SUBSET Action
  /\ sweep \in SUBSET resultMap
  /\ mergedRoot \in Action \cup {NoAction}
  /\ timeout \in 0..PollLimit
  /\ total_timeout \in Int
  /\ elapsed \in Nat

\* An action starts only after everything it depends on has been merged
\* (into it): ActionBase.getIdleLeaf / hasAllDependenciesMerged.  An action
\* left over by the compiler never starts.
DependencyOrder ==
  \A a \in Action :
    state[a] # "IDLE" =>
      /\ a \in plan.live
      /\ \A d \in plan.deps[a] : state[d] = "MERGED"

\* No executed action is lost sight of: while the worker runs, whatever is
\* PROCESSING is polled and keeps its batch, hence the outer loop, alive.
NothingForgotten ==
  pc \in Running =>
    /\ resultMap = {a \in Action : state[a] = "PROCESSING"}
    /\ resultMap \subseteq batch

\* A run that returns before its budget is spent has executed the whole
\* workflow and merged every result but those of the roots.
ReturnsComplete ==
  (pc = "returned" /\ total_timeout > 0) =>
    \A a \in plan.live :
       state[a] = IF Uppers(a) # {} THEN "MERGED" ELSE "FINISHED"

\* The budget bounds the run: the worker never sleeps for more than it and
\* one round, and gives up no sooner than after half of it (every poll is
\* counted at most twice).
BudgetBounds ==
  /\ elapsed < TotalLimit + PollLimit
  /\ pc = "timed_out" => 2 * elapsed > TotalLimit

\* What a state of the worker means to who waits for the result: a result
\* returned with the budget spent to zero may be anything, and is counted
\* as out of time; an action whose bean was not found has not been started.
Progress ==
  [a \in Action |-> IF state[a] \in {"IDLE", "FAILED"} THEN "waiting"
                    ELSE IF state[a] = "PROCESSING" THEN "running"
                    ELSE "ended"]

Outcome ==
  IF pc \in Running THEN "going"
  ELSE IF pc = "returned" /\ total_timeout > 0 THEN "complete"
  ELSE IF pc = "failed" THEN "failed"
  ELSE "expired"

Promise == INSTANCE DagExecution WITH progress <- Progress, outcome <- Outcome

\* The engine keeps the promise of module DagExecution: whatever the order
\* in which MCEs end, whatever is batched and polled, each action is started
\* at most once and not before its dependencies have ended, and only
\* complete results are returned within the budget.
KeepsPromise == Promise!Spec

\* The worker ends whatever the MCEs do: an MCE that hangs or throws is
\* what the two time-outs are for.
WorkerEnds == <>(pc \in Stopped)
=============================================================================
