--------------------------- MODULE WorkflowProofs ---------------------------
(***************************************************************************)
(* Proofs about the workflow engine, for every workflow and every budget:  *)
(* its control (module Workflow), the promise it keeps (DagExecution) and  *)
(* its data (WorkflowDelta).                                               *)
(***************************************************************************)
EXTENDS WorkflowDelta, ActionSearch, FiniteSetTheorems, WellFoundedInduction,
        TLAPS

\* While the worker runs, what is in its batch is reachable and ready.
BatchReady ==
  /\ batch \subseteq plan.live
  /\ pc \in Running =>
       \A a \in batch : state[a] = "IDLE" =>
          \A d \in plan.deps[a] : state[d] = "MERGED"

\* How an action's state tells what became of it.
EndStates ==
  \A a \in Action :
    /\ (state[a] = "FINISHED" /\ pc # "failed") => Uppers(a) = {}
    /\ state[a] = "MERGED" => Uppers(a) # {}
    /\ state[a] = "FAILED" => pc = "failed"

\* Work that could start is never left without something that makes the
\* worker look for it again.
WorkIsSeen ==
  /\ (pc = "launch" /\ IdleLeaves # {}) => \E b \in batch : state[b] = "IDLE"
  /\ (pc = "poll" /\ IdleLeaves # {}) => resultMap # {} /\ timeout = PollLimit

IInv ==
  /\ TypeOK
  /\ DependencyOrder
  /\ NothingForgotten
  /\ BatchReady
  /\ EndStates
  /\ WorkIsSeen
  /\ ReturnsComplete

USE DEF Running, Stopped, ActionState

-----------------------------------------------------------------------------
\* The type invariant, of every step of the worker and of the MCEs.
LEMMA InitType == Init => TypeOK
  BY WorkflowAssumption
     DEF Init, TypeOK, IndependentActions, IdleLeaves, PlanOK

\* The same of every step.
LEMMA NextType == TypeOK /\ [Next]_vars => TypeOK'
<1> SUFFICES ASSUME TypeOK, [Next]_vars PROVE TypeOK'
  OBVIOUS
<1> USE WorkflowAssumption DEF TypeOK
<1>1. CASE Launch
  BY <1>1 DEF Launch
<1>2. ASSUME NEW a \in Action, LaunchFails(a) PROVE TypeOK'
  BY <1>2 DEF LaunchFails
<1>3. CASE Poll
  BY <1>3 DEF Poll
<1>4. CASE EndPolling
  BY <1>4 DEF EndPolling
<1>5. ASSUME NEW a \in Action, SkipPending(a) PROVE TypeOK'
  BY <1>5 DEF SkipPending
<1>6. ASSUME NEW a \in Action, Collect(a) PROVE TypeOK'
  BY <1>6 DEF Collect
<1>7. ASSUME NEW a \in Action, Interrupted(a) PROVE TypeOK'
  BY <1>7 DEF Interrupted
<1>8. CASE NextBatch
  BY <1>8 DEF NextBatch, IndependentActions, IdleLeaves, PlanOK
<1>9. CASE PollAgain
  BY <1>9 DEF PollAgain
<1>10. CASE Return
  BY <1>10 DEF Return
<1>11. ASSUME NEW a \in Action, MceEnds(a) PROVE TypeOK'
  BY <1>11 DEF MceEnds
<1>12. CASE UNCHANGED vars
  BY <1>12 DEF vars
<1> QED
  BY <1>1, <1>2, <1>3, <1>4, <1>5, <1>6, <1>7, <1>8, <1>9, <1>10, <1>11,
     <1>12 DEF Next, Worker

\* Every variable keeps its type.
THEOREM TypeCorrect == Spec => []TypeOK
  BY InitType, NextType, PTL DEF Spec

-----------------------------------------------------------------------------
\* The inductive invariant behind the order of execution and completeness.
LEMMA InitInv == Init => IInv
<1> SUFFICES ASSUME Init PROVE IInv
  OBVIOUS
<1>1. TypeOK
  BY InitType
<1>2. DependencyOrder /\ NothingForgotten /\ EndStates /\ ReturnsComplete
  BY DEF Init, DependencyOrder, NothingForgotten, EndStates, ReturnsComplete
<1>3. PICK n \in IdleLeaves : batch = IndependentActions(n)
  BY DEF Init
<1>4. BatchReady
  BY <1>1, <1>3, WorkflowAssumption
     DEF Init, BatchReady, IdleLeaves, IndependentActions, PlanOK, TypeOK
<1>5. WorkIsSeen
  BY <1>1, <1>3 DEF Init, WorkIsSeen, IndependentActions, IdleLeaves
<1> QED
  BY <1>1, <1>2, <1>4, <1>5 DEF IInv

\* A dependency of an action has an upper, and is live.
LEMMA DependencyFacts ==
  ASSUME TypeOK, NEW a \in Action, NEW d \in plan.deps[a]
  PROVE  /\ d \in Action
         /\ d \in plan.live
         /\ Uppers(d) # {}
  BY WorkflowAssumption DEF TypeOK, PlanOK, Uppers

\* While the worker runs, an idle leaf has all its dependencies merged:
\* none can have failed, and only a root stays FINISHED.
LEMMA IdleLeafIsReady ==
  ASSUME TypeOK, EndStates, pc \in Running, NEW a \in IdleLeaves
  PROVE  /\ a \in plan.live
         /\ a \in Action
         /\ state[a] = "IDLE"
         /\ \A d \in plan.deps[a] : state[d] = "MERGED"
<1>1. a \in plan.live /\ a \in Action /\ state[a] = "IDLE"
  BY WorkflowAssumption DEF IdleLeaves, TypeOK, PlanOK
<1>2. ASSUME NEW d \in plan.deps[a] PROVE state[d] = "MERGED"
  <2>1. d \in Action /\ Uppers(d) # {}
    BY <1>1, DependencyFacts
  <2>2. state[d] \notin {"IDLE", "PROCESSING"}
    BY DEF IdleLeaves
  <2>3. state[d] # "FINISHED" /\ state[d] # "FAILED"
    BY <2>1 DEF EndStates
  <2> QED
    BY <2>1, <2>2, <2>3 DEF TypeOK
<1> QED
  BY <1>1, <1>2

\* Steps that change neither an action's state nor the batch keep what the
\* invariant says of them, as long as the worker does not resume.
LEMMA StateKept ==
  ASSUME TypeOK, DependencyOrder, BatchReady, EndStates,
         plan' = plan, state' = state, batch' = batch,
         pc' \in Running => pc \in Running,
         pc = "failed" => pc' = "failed"
  PROVE  DependencyOrder' /\ BatchReady' /\ EndStates'
  BY DEF DependencyOrder, BatchReady, EndStates, Uppers

\* The idle leaves depend only on the workflow and the actions' states.
LEMMA IdleLeavesKept ==
  ASSUME plan' = plan, state' = state
  PROVE  IdleLeaves' = IdleLeaves
  BY DEF IdleLeaves

\* Starting a batch keeps the order: what is idle in it is ready.
LEMMA LaunchInv == IInv /\ TypeOK' /\ Launch => IInv'
<1> SUFFICES ASSUME IInv, TypeOK', Launch PROVE IInv'
  OBVIOUS
<1> USE DEF IInv
<1> DEFINE idle == {a \in batch : state[a] = "IDLE"}
<1>1. /\ pc = "launch" /\ pc' = "poll" /\ plan' = plan
      /\ state' = [a \in Action |->
                     IF a \in idle THEN "PROCESSING" ELSE state[a]]
      /\ resultMap' = resultMap \cup idle
      /\ batch' = batch \ {a \in batch : state[a] \in {"FINISHED", "MERGED"}}
      /\ timeout' = PollLimit
  BY DEF Launch
<1>2. batch \subseteq Action
  BY DEF TypeOK
<1>3. \A a \in Action : state'[a] # "IDLE" => state[a] # "IDLE" \/ a \in idle
  BY <1>1
<1>4. \A a \in Action : state[a] \notin {"IDLE"} => state'[a] = state[a]
  BY <1>1
<1>5. DependencyOrder'
  <2> SUFFICES ASSUME NEW a \in Action, state'[a] # "IDLE"
               PROVE  a \in plan.live
                      /\ \A d \in plan.deps[a] : state'[d] = "MERGED"
    BY <1>1 DEF DependencyOrder
  <2>1. a \in plan.live /\ \A d \in plan.deps[a] : state[d] = "MERGED"
    BY <1>1, <1>3 DEF DependencyOrder, BatchReady
  <2>2. \A d \in plan.deps[a] : d \in Action
    BY DependencyFacts
  <2> QED
    BY <2>1, <2>2, <1>4
<1>6. NothingForgotten'
  BY <1>1, <1>2 DEF NothingForgotten, TypeOK
<1>7. BatchReady'
  <2>1. \A a \in batch : state'[a] # "IDLE"
    BY <1>1, <1>2
  <2> QED
    BY <1>1, <2>1 DEF BatchReady
<1>8. EndStates'
  <2>1. \A a \in Action : Uppers(a)' = Uppers(a)
    BY <1>1 DEF Uppers
  <2> QED
    BY <1>1, <2>1 DEF EndStates
<1>9. WorkIsSeen'
  <2> SUFFICES ASSUME IdleLeaves' # {}
               PROVE  resultMap' # {}
    BY <1>1 DEF WorkIsSeen
  <2>1. PICK x \in plan.live : x \in IdleLeaves'
    BY <1>1 DEF IdleLeaves
  <2>2. x \in Action /\ \A d \in plan.deps[x] : d \in Action
    BY <1>1, <2>1, WorkflowAssumption DEF TypeOK, PlanOK
  <2>3. state[x] = "IDLE"
    BY <1>1, <2>1, <2>2 DEF IdleLeaves
  <2>4. \A d \in plan.deps[x] : state[d] \notin {"IDLE", "PROCESSING"}
    BY <1>1, <2>1, <2>2 DEF IdleLeaves
  <2>5. x \in IdleLeaves
    BY <2>1, <2>3, <2>4 DEF IdleLeaves
  <2>6. \E b \in batch : state[b] = "IDLE"
    BY <1>1, <2>5 DEF WorkIsSeen
  <2> QED
    BY <1>1, <2>6
<1>10. ReturnsComplete'
  BY <1>1 DEF ReturnsComplete
<1> QED
  BY <1>5, <1>6, <1>7, <1>8, <1>9, <1>10

\* An execute() that throws ends the run; nothing was started too early.
LEMMA LaunchFailsInv ==
  ASSUME IInv, TypeOK', NEW a \in Action, LaunchFails(a)
  PROVE  IInv'
<1> USE DEF IInv
<1>1. PICK S \in SUBSET {b \in batch \ {a} : state[b] = "IDLE"} :
        state' = [b \in Action |-> IF b = a THEN "FAILED"
                                   ELSE IF b \in S THEN "PROCESSING"
                                   ELSE state[b]]
  BY DEF LaunchFails
<1>2. /\ pc = "launch" /\ pc' = "failed" /\ plan' = plan /\ batch' = batch
      /\ a \in batch /\ state[a] = "IDLE"
  BY DEF LaunchFails
<1>3. \A b \in Action : /\ state'[b] # "IDLE" =>
                             state[b] # "IDLE"
                             \/ (b \in batch /\ state[b] = "IDLE")
                        /\ state[b] # "IDLE" => state'[b] = state[b]
  BY <1>1, <1>2
<1>4. DependencyOrder'
  <2> SUFFICES ASSUME NEW b \in Action, state'[b] # "IDLE"
               PROVE  b \in plan.live
                      /\ \A d \in plan.deps[b] : state'[d] = "MERGED"
    BY <1>2 DEF DependencyOrder
  <2>1. b \in plan.live /\ \A d \in plan.deps[b] : state[d] = "MERGED"
    BY <1>2, <1>3 DEF DependencyOrder, BatchReady
  <2>2. \A d \in plan.deps[b] : d \in Action
    BY DependencyFacts
  <2> QED
    BY <2>1, <2>2, <1>3
<1>5. EndStates'
  <2>1. \A b \in Action : Uppers(b)' = Uppers(b)
    BY <1>2 DEF Uppers
  <2> QED
    BY <1>1, <1>2, <2>1 DEF EndStates
<1> QED
  BY <1>2, <1>4, <1>5
     DEF NothingForgotten, BatchReady, WorkIsSeen, ReturnsComplete

\* Merging a result takes the action out of resultMap as it leaves
\* PROCESSING, and makes no other action less ready.
LEMMA CollectInv ==
  ASSUME IInv, TypeOK', NEW a \in Action, Collect(a)
  PROVE  IInv'
<1> USE DEF IInv
<1>1. /\ pc = "sweep" /\ pc' = "sweep" /\ plan' = plan /\ batch' = batch
      /\ resultMap' = resultMap \ {a} /\ a \in resultMap
      /\ state' = [state EXCEPT ![a] =
                     IF Uppers(a) # {} THEN "MERGED" ELSE "FINISHED"]
  BY DEF Collect, TypeOK
<1>2. state[a] = "PROCESSING"
  BY <1>1 DEF NothingForgotten
<1>3. \A b \in Action : b # a => state'[b] = state[b]
  BY <1>1 DEF TypeOK
<1>4. state'[a] = IF Uppers(a) # {} THEN "MERGED" ELSE "FINISHED"
  BY <1>1 DEF TypeOK
<1>5. \A b \in Action : state[b] = "MERGED" => state'[b] = "MERGED"
  BY <1>2, <1>3
<1>6. DependencyOrder'
  <2> SUFFICES ASSUME NEW b \in Action, state'[b] # "IDLE"
               PROVE  b \in plan.live
                      /\ \A d \in plan.deps[b] : state'[d] = "MERGED"
    BY <1>1 DEF DependencyOrder
  <2>1. b \in plan.live /\ \A d \in plan.deps[b] : state[d] = "MERGED"
    BY <1>2, <1>3 DEF DependencyOrder
  <2> QED
    BY <2>1, <1>5, DependencyFacts
<1>7. NothingForgotten'
  BY <1>1, <1>3, <1>4 DEF NothingForgotten
<1>8. BatchReady'
  <2> SUFFICES ASSUME NEW b \in batch, state'[b] = "IDLE"
               PROVE  \A d \in plan.deps[b] : state'[d] = "MERGED"
    BY <1>1 DEF BatchReady
  <2>1. b \in Action /\ state[b] = "IDLE"
    BY <1>3, <1>4 DEF TypeOK
  <2>2. \A d \in plan.deps[b] : state[d] = "MERGED"
    BY <1>1, <2>1 DEF BatchReady
  <2> QED
    BY <2>1, <2>2, <1>5, DependencyFacts
<1>9. EndStates'
  <2>1. \A b \in Action : Uppers(b)' = Uppers(b)
    BY <1>1 DEF Uppers
  <2> QED
    BY <1>1, <1>3, <1>4, <2>1 DEF EndStates
<1> QED
  BY <1>1, <1>6, <1>7, <1>8, <1>9 DEF WorkIsSeen, ReturnsComplete

\* What joins the batch are idle actions that are ready.
LEMMA NextBatchInv == IInv /\ TypeOK' /\ NextBatch => IInv'
<1> SUFFICES ASSUME IInv, TypeOK', NextBatch PROVE IInv'
  OBVIOUS
<1> USE DEF IInv
<1>1. PICK n \in IdleLeaves : batch' = batch \cup IndependentActions(n)
  BY DEF NextBatch
<1>2. pc = "sweep" /\ pc' = "launch" /\ UNCHANGED <<plan, state, resultMap>>
  BY DEF NextBatch
<1>3. /\ n \in plan.live /\ n \in Action /\ state[n] = "IDLE"
      /\ \A d \in plan.deps[n] : state[d] = "MERGED"
  BY <1>2, IdleLeafIsReady
<1>4. BatchReady'
  BY <1>1, <1>2, <1>3 DEF BatchReady, IndependentActions
<1>5. WorkIsSeen'
  BY <1>1, <1>2, <1>3 DEF WorkIsSeen, IndependentActions
<1>6. DependencyOrder' /\ NothingForgotten' /\ EndStates'
  BY <1>1, <1>2
     DEF DependencyOrder, NothingForgotten, EndStates, Uppers
<1> QED
  BY <1>2, <1>4, <1>5, <1>6 DEF ReturnsComplete

\* The loop ends with an empty batch only when all is done: nothing runs,
\* there is no idle leaf, and a workflow without cycles that has an idle
\* action and nothing running has an idle leaf.
LEMMA ReturnInv == IInv /\ TypeOK' /\ Return => IInv'
<1> SUFFICES ASSUME IInv, TypeOK', Return PROVE IInv'
  OBVIOUS
<1> USE DEF IInv
<1>1. /\ pc = "launch" /\ pc' \in Stopped
      /\ UNCHANGED <<plan, state, batch, resultMap, total_timeout>>
  BY DEF Return
<1>2. DependencyOrder' /\ BatchReady' /\ EndStates'
  BY <1>1, StateKept
<1>3. NothingForgotten' /\ WorkIsSeen'
  BY <1>1 DEF NothingForgotten, WorkIsSeen
<1>4. ReturnsComplete'
  <2> SUFFICES ASSUME pc' = "returned", total_timeout > 0
               PROVE  \A a \in plan.live : state[a] =
                         IF Uppers(a) # {} THEN "MERGED" ELSE "FINISHED"
    BY <1>1 DEF ReturnsComplete, Uppers
  <2>1. batch = {}
    BY DEF Return, TypeOK
  <2>2. \A a \in Action : state[a] # "PROCESSING"
    BY <1>1, <2>1 DEF NothingForgotten
  <2>3. IdleLeaves = {}
    BY <1>1, <2>1 DEF WorkIsSeen
  <2>4. \A a \in plan.live : state[a] # "IDLE"
    <3> DEFINE S == {a \in plan.live : state[a] = "IDLE"}
    <3> SUFFICES ASSUME S # {} PROVE FALSE
      OBVIOUS
    <3>a. PlanOK(plan) /\ S \in SUBSET plan.live
      BY WorkflowAssumption DEF TypeOK
    <3>b. \A T \in SUBSET plan.live :
             T # {} => \E a \in T : plan.deps[a] \cap T = {}
      BY <3>a DEF PlanOK
    <3>1. PICK a \in S : plan.deps[a] \cap S = {}
      BY <3>a, <3>b
    <3>2. \A d \in plan.deps[a] : d \in plan.live /\ d \in Action
      BY <3>1, WorkflowAssumption DEF TypeOK, PlanOK
    <3>3. a \in IdleLeaves
      BY <3>1, <3>2, <2>2 DEF IdleLeaves
    <3> QED
      BY <3>3, <2>3
  <2>5. plan.live \subseteq Action
    BY WorkflowAssumption DEF TypeOK, PlanOK
  <2> QED
    BY <1>1, <2>2, <2>4, <2>5 DEF EndStates, TypeOK
<1> QED
  BY <1>2, <1>3, <1>4

\* The inductive step, action by action.
LEMMA NextInv == IInv /\ [Next]_vars => IInv'
<1> SUFFICES ASSUME IInv, [Next]_vars PROVE IInv'
  OBVIOUS
<1>1. TypeOK'
  BY NextType DEF IInv
<1>2. CASE Launch
  BY <1>1, <1>2, LaunchInv
<1>3. ASSUME NEW a \in Action, LaunchFails(a) PROVE IInv'
  BY <1>1, <1>3, LaunchFailsInv
<1>4. ASSUME NEW a \in Action, Collect(a) PROVE IInv'
  BY <1>1, <1>4, CollectInv
<1>5. CASE NextBatch
  BY <1>1, <1>5, NextBatchInv
<1>6. CASE Return
  BY <1>1, <1>6, ReturnInv
<1>7. CASE Poll
  <2>1. DependencyOrder' /\ BatchReady' /\ EndStates'
    BY <1>7, StateKept DEF IInv, Poll
  <2> QED
    BY <1>1, <1>7, <2>1
       DEF IInv, Poll, NothingForgotten, WorkIsSeen, ReturnsComplete
<1>8. CASE EndPolling
  <2>1. DependencyOrder' /\ BatchReady' /\ EndStates'
    BY <1>8, StateKept DEF IInv, EndPolling
  <2>2. IdleLeaves' = {}
    BY <1>8, IdleLeavesKept, WorkflowAssumption
       DEF IInv, EndPolling, WorkIsSeen, TypeOK
  <2> QED
    BY <1>1, <1>8, <2>1, <2>2
       DEF IInv, EndPolling, NothingForgotten, WorkIsSeen, ReturnsComplete
<1>9. CASE PollAgain
  <2>1. DependencyOrder' /\ BatchReady' /\ EndStates'
    BY <1>9, StateKept DEF IInv, PollAgain
  <2>2. IdleLeaves' = {}
    BY <1>9, IdleLeavesKept DEF PollAgain
  <2> QED
    BY <1>1, <1>9, <2>1, <2>2
       DEF IInv, PollAgain, NothingForgotten, WorkIsSeen, ReturnsComplete
<1>10. ASSUME NEW a \in Action, SkipPending(a) PROVE IInv'
  <2>1. DependencyOrder' /\ BatchReady' /\ EndStates'
    BY <1>10, StateKept DEF IInv, SkipPending
  <2> QED
    BY <1>1, <1>10, <2>1
       DEF IInv, SkipPending, NothingForgotten, WorkIsSeen, ReturnsComplete
<1>11. ASSUME NEW a \in Action, Interrupted(a) PROVE IInv'
  <2>1. /\ pc = "sweep" /\ pc' = "failed" /\ UNCHANGED <<plan, batch>>
        /\ state' = [state EXCEPT ![a] = "FINISHED"] /\ a \in resultMap
    BY <1>11 DEF Interrupted, IInv, TypeOK
  <2>2. state[a] = "PROCESSING"
    BY <2>1 DEF IInv, NothingForgotten
  <2>3. DependencyOrder'
    BY <2>1, <2>2, DependencyFacts DEF IInv, DependencyOrder, TypeOK
  <2>4. EndStates'
    BY <2>1 DEF IInv, EndStates, TypeOK, Uppers
  <2> QED
    BY <1>1, <2>1, <2>3, <2>4
       DEF IInv, NothingForgotten, BatchReady, WorkIsSeen, ReturnsComplete
<1>12. ASSUME NEW a \in Action, MceEnds(a) PROVE IInv'
  <2>1. DependencyOrder' /\ BatchReady' /\ EndStates'
    BY <1>12, StateKept DEF IInv, MceEnds
  <2> QED
    BY <1>1, <1>12, <2>1, IdleLeavesKept
       DEF IInv, MceEnds, NothingForgotten, WorkIsSeen, ReturnsComplete, Uppers
<1>13. CASE UNCHANGED vars
  <2>1. DependencyOrder' /\ BatchReady' /\ EndStates'
    BY <1>13, StateKept DEF IInv, vars
  <2> QED
    BY <1>1, <1>13, <2>1, IdleLeavesKept
       DEF IInv, vars, NothingForgotten, WorkIsSeen, ReturnsComplete, Uppers
<1> QED
  BY <1>2, <1>3, <1>4, <1>5, <1>6, <1>7, <1>8, <1>9, <1>10, <1>11, <1>12,
     <1>13 DEF Next, Worker

\* IInv holds of every behaviour of the workflow engine.
LEMMA Invariance == Spec => []IInv
  BY InitInv, NextInv, PTL DEF Spec

\* An action is executed only when all it depends on is merged.
THEOREM OrderOfExecution == Spec => []DependencyOrder
  BY Invariance, PTL DEF IInv

\* Whatever is executing is polled and keeps the worker's loop alive.
THEOREM RunningIsPolled == Spec => []NothingForgotten
  BY Invariance, PTL DEF IInv

\* A run that returns within its budget has executed the whole workflow.
THEOREM Completeness == Spec => []ReturnsComplete
  BY Invariance, PTL DEF IInv

-----------------------------------------------------------------------------
\* The budget.  used is what the current round has polled so far: it is
\* counted once until the round is broken off.
BudgetInv ==
  LET used == IF pc \in {"poll", "sweep"} THEN PollLimit - timeout ELSE 0
  IN  /\ total_timeout + elapsed <= TotalLimit
      /\ total_timeout + 2 * elapsed >= TotalLimit + used
      /\ pc \in {"poll", "sweep"} => total_timeout + used >= 1
      /\ elapsed < TotalLimit + PollLimit
      /\ pc = "timed_out" => total_timeout < 0

\* Every poll is counted once when made and at most once more afterwards.
LEMMA BudgetStep == TypeOK /\ BudgetInv /\ [Next]_vars => BudgetInv'
<1> SUFFICES ASSUME TypeOK, BudgetInv, [Next]_vars PROVE BudgetInv'
  OBVIOUS
<1>1. /\ PollLimit \in Nat \ {0} /\ TotalLimit \in Nat \ {0}
      /\ timeout \in 0..PollLimit /\ total_timeout \in Int /\ elapsed \in Nat
  BY WorkflowAssumption DEF TypeOK
<1>2. CASE Launch
  BY <1>1, <1>2 DEF Launch, BudgetInv
<1>3. CASE Poll
  BY <1>1, <1>3 DEF Poll, BudgetInv
<1>4. CASE EndPolling
  BY <1>1, <1>4 DEF EndPolling, BudgetInv
<1>5. CASE NextBatch
  BY <1>1, <1>5 DEF NextBatch, BudgetInv
<1>6. CASE PollAgain
  BY <1>1, <1>6 DEF PollAgain, BudgetInv
<1>7. CASE Return
  BY <1>1, <1>7 DEF Return, BudgetInv
<1>8. ASSUME NEW a \in Action,
             LaunchFails(a) \/ SkipPending(a) \/ Collect(a) \/ Interrupted(a)
             \/ MceEnds(a)
      PROVE  BudgetInv'
  BY <1>1, <1>8 DEF LaunchFails, SkipPending, Collect, Interrupted, MceEnds,
                    BudgetInv
<1>9. CASE UNCHANGED vars
  BY <1>9 DEF vars, BudgetInv
<1> QED
  BY <1>2, <1>3, <1>4, <1>5, <1>6, <1>7, <1>8, <1>9 DEF Next, Worker

\* The worker's sleeping time is bounded by its budget and one round, and it
\* reports a time-out no sooner than after half of its budget.
THEOREM BudgetHolds == Spec => []BudgetBounds
<1>1. Init => BudgetInv
  BY WorkflowAssumption DEF Init, BudgetInv
<1>2. TypeOK /\ BudgetInv => BudgetBounds
  BY WorkflowAssumption DEF TypeOK, BudgetInv, BudgetBounds
<1> QED
  BY <1>1, <1>2, BudgetStep, TypeCorrect, PTL DEF Spec

-----------------------------------------------------------------------------
(***************************************************************************)
(* The workflow engine implements DagExecution: a step of the worker or of *)
(* an MCE is a step of the promise, or none, in every state that satisfies *)
(* IInv.                                                                   *)
(***************************************************************************)

\* A step that changes neither the actions' states nor where the worker
\* stands with its caller is no step of the promise.
LEMMA Stutter ==
  ASSUME plan' = plan, state' = state, Outcome' = Outcome
  PROVE  UNCHANGED Promise!dagVars
  BY DEF Promise!dagVars, Progress

\* The worker's own bookkeeping while it runs.
LEMMA StillRunning ==
  ASSUME pc \in Running, pc' \in Running
  PROVE  Outcome = "going" /\ Outcome' = "going"
  BY DEF Outcome

\* Actions whose dependencies are merged are ready in the promise.
LEMMA ReadyActions ==
  ASSUME TypeOK, NEW S \in SUBSET plan.live,
         \A a \in S : /\ state[a] = "IDLE"
                      /\ \A d \in plan.deps[a] : state[d] = "MERGED"
  PROVE  S \in SUBSET Promise!Ready
<1> SUFFICES ASSUME NEW a \in S PROVE a \in Promise!Ready
  OBVIOUS
<1>1. a \in Action /\ plan.deps[a] \subseteq Action
  BY WorkflowAssumption DEF TypeOK, PlanOK
<1>2. Progress[a] = "waiting"
  BY <1>1 DEF Progress
<1>3. \A d \in plan.deps[a] : Progress[d] = "ended"
  BY <1>1 DEF Progress
<1> QED
  BY <1>2, <1>3 DEF Promise!Ready

\* Executing a set of idle actions is to start them.
LEMMA Starting ==
  ASSUME TypeOK, NEW S \in SUBSET Action, NEW F \in SUBSET Action,
         \A a \in S : state[a] = "IDLE",
         \A a \in F : state[a] = "IDLE" /\ a \notin S,
         state' = [a \in Action |-> IF a \in F THEN "FAILED"
                                    ELSE IF a \in S THEN "PROCESSING"
                                    ELSE state[a]]
  PROVE  Progress' = Promise!Started(S)
<1>1. ASSUME NEW a \in Action
      PROVE  Progress'[a] = Promise!Started(S)[a]
  <2>1. CASE a \in F
    BY <2>1 DEF Progress, Promise!Started
  <2>2. CASE a \in S
    BY <2>2 DEF Progress, Promise!Started
  <2>3. CASE a \notin F /\ a \notin S
    BY <2>3 DEF Progress, Promise!Started
  <2> QED
    BY <2>1, <2>2, <2>3
<1> QED
  BY <1>1, Zenon DEF Progress, Promise!Started

\* An action that ends in the worker ends in the promise.
LEMMA Ending ==
  ASSUME TypeOK, NEW a \in Action, state[a] = "PROCESSING",
         NEW s \in {"FINISHED", "MERGED"}, state' = [state EXCEPT ![a] = s]
  PROVE  /\ Progress[a] = "running"
         /\ Progress' = [Progress EXCEPT ![a] = "ended"]
<1>1. Progress[a] = "running"
  BY DEF Progress
<1>2. ASSUME NEW b \in Action
      PROVE  Progress'[b] = [Progress EXCEPT ![a] = "ended"][b]
  <2>1. CASE b = a
    BY <2>1 DEF Progress, TypeOK
  <2>2. CASE b # a
    BY <2>2 DEF Progress, TypeOK
  <2> QED
    BY <2>1, <2>2
<1>3. /\ Progress' = [b \in Action |-> Progress'[b]]
      /\ [Progress EXCEPT ![a] = "ended"] =
           [b \in Action |-> [Progress EXCEPT ![a] = "ended"][b]]
  BY Zenon DEF Progress
<1> QED
  BY <1>1, <1>2, <1>3, Zenon

LEMMA InitPromise == Init => Promise!Init
<1> SUFFICES ASSUME Init PROVE Promise!Init
  OBVIOUS
<1>1. Outcome = "going" /\ plan \in Plans
  BY DEF Init, Outcome, Running
<1>2. Progress = [a \in Action |-> "waiting"]
  BY DEF Init, Progress
<1> QED
  BY <1>1, <1>2 DEF Promise!Init

LEMMA LaunchPromise == IInv /\ Launch => Promise!Begin
<1> SUFFICES ASSUME IInv, Launch PROVE Promise!Begin
  OBVIOUS
<1> DEFINE idle == {a \in batch : state[a] = "IDLE"}
<1>1. Outcome = "going" /\ UNCHANGED <<plan, Outcome>>
  BY StillRunning DEF Launch, Running
<1>2. idle \in SUBSET Action /\ idle \in SUBSET plan.live
  BY DEF IInv, TypeOK, BatchReady
<1>3. idle \in SUBSET Promise!Ready
  BY <1>2, ReadyActions DEF IInv, BatchReady, Launch, Running
<1>4. Progress' = Promise!Started(idle)
  <2> DEFINE failed == {}
  <2>1. state' = [a \in Action |-> IF a \in failed THEN "FAILED"
                                   ELSE IF a \in idle THEN "PROCESSING"
                                   ELSE state[a]]
    BY DEF Launch
  <2>2. /\ \A a \in idle : state[a] = "IDLE"
        /\ failed \in SUBSET Action
        /\ \A a \in failed : state[a] = "IDLE" /\ a \notin idle
    OBVIOUS
  <2> HIDE DEF idle, failed
  <2> QED
    BY <1>2, <2>1, <2>2, Starting DEF IInv
<1> QED
  BY <1>1, <1>3, <1>4 DEF Promise!Begin

LEMMA LaunchFailsPromise ==
  ASSUME IInv, NEW a \in Action, LaunchFails(a)
  PROVE  Promise!Fail
<1>1. PICK S \in SUBSET {b \in batch \ {a} : state[b] = "IDLE"} :
        state' = [b \in Action |-> IF b = a THEN "FAILED"
                                   ELSE IF b \in S THEN "PROCESSING"
                                   ELSE state[b]]
  BY DEF LaunchFails
<1>2. Outcome = "going" /\ Outcome' = "failed" /\ plan' = plan
  BY DEF LaunchFails, Outcome, Running
<1>3. S \in SUBSET Action /\ S \in SUBSET plan.live
  BY DEF IInv, TypeOK, BatchReady
<1>4. S \in SUBSET Promise!Ready
  BY <1>3, ReadyActions DEF IInv, BatchReady, LaunchFails, Running
<1>5. Progress' = Promise!Started(S)
  <2>1. state' = [b \in Action |-> IF b \in {a} THEN "FAILED"
                                   ELSE IF b \in S THEN "PROCESSING"
                                   ELSE state[b]]
    BY <1>1
  <2>2. state[a] = "IDLE" /\ {a} \in SUBSET Action
    BY DEF LaunchFails
  <2> QED
    BY <1>1, <1>3, <2>1, <2>2, Starting DEF IInv
<1> QED
  BY <1>2, <1>4, <1>5 DEF Promise!Fail

\* A visited Future is that of an action that is executing.
LEMMA VisitedIsRunning ==
  ASSUME IInv, pc = "sweep", NEW a \in sweep
  PROVE  a \in Action /\ state[a] = "PROCESSING"
  BY DEF IInv, TypeOK, NothingForgotten, Running

LEMMA CollectPromise ==
  ASSUME IInv, NEW a \in Action, Collect(a)
  PROVE  Promise!End(a)
<1>1. state[a] = "PROCESSING"
  BY VisitedIsRunning DEF Collect
<1>2. PICK s \in {"FINISHED", "MERGED"} : state' = [state EXCEPT ![a] = s]
  BY DEF Collect
<1>3. /\ Progress[a] = "running"
      /\ Progress' = [Progress EXCEPT ![a] = "ended"]
  BY <1>1, <1>2, Ending DEF IInv
<1>4. Outcome = "going" /\ UNCHANGED <<plan, Outcome>>
  BY StillRunning DEF Collect, Running
<1> QED
  BY <1>3, <1>4 DEF Promise!End

LEMMA InterruptedPromise ==
  ASSUME IInv, NEW a \in Action, Interrupted(a)
  PROVE  Promise!Fail
<1>1. state[a] = "PROCESSING"
  BY VisitedIsRunning DEF Interrupted
<1>2. /\ Progress[a] = "running"
      /\ Progress' = [Progress EXCEPT ![a] = "ended"]
  BY <1>1, Ending DEF IInv, Interrupted
<1>3. Outcome = "going" /\ Outcome' = "failed" /\ plan' = plan
  BY DEF Interrupted, Outcome, Running
<1> QED
  BY <1>2, <1>3 DEF Promise!Fail

\* The end of the worker: complete only if everything has ended.
LEMMA ReturnPromise ==
  ASSUME IInv, IInv', Return
  PROVE  Promise!Complete \/ Promise!GiveUp
<1>1. /\ Outcome = "going" /\ plan' = plan /\ state' = state
      /\ pc' \in Stopped /\ total_timeout' = total_timeout
      /\ total_timeout \in Int
  BY DEF Return, Outcome, IInv, TypeOK, Running, Stopped
<1>2. Progress' = Progress
  BY <1>1 DEF Progress
<1>3. CASE pc' = "returned" /\ total_timeout' > 0
  <2>1. Outcome' = "complete"
    BY <1>3 DEF Outcome, Running
  <2>2. \A a \in plan.live : state[a] \in {"FINISHED", "MERGED"}
    BY <1>1, <1>3 DEF IInv, ReturnsComplete
  <2>3. \A a \in plan.live : Progress[a] = "ended"
    BY <2>2, WorkflowAssumption DEF Progress, IInv, TypeOK, PlanOK
  <2> QED
    BY <1>1, <1>2, <2>1, <2>3 DEF Promise!Complete
<1>4. CASE ~ (pc' = "returned" /\ total_timeout' > 0)
  <2>1. Outcome' \in {"expired", "failed"}
    BY <1>1, <1>4 DEF Outcome, Stopped, Running
  <2> QED
    BY <1>1, <1>2, <2>1 DEF Promise!GiveUp
<1> QED
  BY <1>3, <1>4

LEMMA NextPromise ==
  IInv /\ IInv' /\ [Next]_vars => [Promise!Next]_(Promise!dagVars)
<1> SUFFICES ASSUME IInv, IInv', [Next]_vars
             PROVE  Promise!Next \/ UNCHANGED Promise!dagVars
  OBVIOUS
<1>1. CASE Launch
  BY <1>1, LaunchPromise DEF Promise!Next
<1>2. ASSUME NEW a \in Action, LaunchFails(a) PROVE Promise!Next
  BY <1>2, LaunchFailsPromise DEF Promise!Next
<1>3. ASSUME NEW a \in Action, Collect(a) PROVE Promise!Next
  BY <1>3, CollectPromise DEF Promise!Next
<1>4. ASSUME NEW a \in Action, Interrupted(a) PROVE Promise!Next
  BY <1>4, InterruptedPromise DEF Promise!Next
<1>5. CASE Return
  BY <1>5, ReturnPromise DEF Promise!Next
<1>6. CASE Poll
  BY <1>6, Stutter, StillRunning DEF Poll, Running
<1>7. CASE EndPolling
  BY <1>7, Stutter, StillRunning DEF EndPolling, Running
<1>8. ASSUME NEW a \in Action, SkipPending(a)
      PROVE  UNCHANGED Promise!dagVars
  BY <1>8, Stutter, StillRunning DEF SkipPending, Running
<1>9. CASE NextBatch
  BY <1>9, Stutter, StillRunning DEF NextBatch, Running
<1>10. CASE PollAgain
  BY <1>10, Stutter, StillRunning DEF PollAgain, Running
<1>11. ASSUME NEW a \in Action, MceEnds(a) PROVE UNCHANGED Promise!dagVars
  BY <1>11, Stutter DEF MceEnds, Outcome
<1>12. CASE UNCHANGED vars
  BY <1>12, Stutter DEF vars, Outcome
<1> QED
  BY <1>1, <1>2, <1>3, <1>4, <1>5, <1>6, <1>7, <1>8, <1>9, <1>10, <1>11,
     <1>12 DEF Next, Worker

\* WorkerBase.runWorkflow keeps the promise of DagExecution: each action is
\* started at most once, after its dependencies, and a result returned
\* within the budget is complete, for every workflow and every budget.
THEOREM EngineKeepsPromise == Spec => KeepsPromise
<1>1. Spec => []IInv
  BY Invariance
<1>2. []IInv /\ [][Next]_vars => [][Promise!Next]_(Promise!dagVars)
  BY NextPromise, PTL
<1> QED
  BY <1>1, <1>2, InitPromise, PTL DEF Spec, KeepsPromise, Promise!Spec

-----------------------------------------------------------------------------
(***************************************************************************)
(* The data: no addition is lost on its way from an action to those that   *)
(* depend on it, and from the roots to the result.                         *)
(*                                                                         *)
(* What has to be known of the heap is who refers to what: an action's     *)
(* input is its own, or the output of a dependency that was merged, and    *)
(* nobody refers to the output of an action that was not.  Merging never   *)
(* takes a side away or anything from it, so what has reached a delta      *)
(* stays there, however many refer to it.                                  *)
(***************************************************************************)

Collected(a) == outputDelta[a] # NoDelta

\* The variables are functions on actions and references.
DTypes ==
  /\ inputDelta \in [Action -> Ref \cup {NoDelta}]
  /\ outputDelta \in [Action -> Ref \cup {NoDelta}]
  /\ heap = [r \in Ref |-> heap[r]]
  /\ seen = [a \in Action |-> seen[a]]

\* An action with a Future has been executed; one with an output has ended.
Outputs ==
  \A a \in Action :
    /\ future[a] # "none" => state[a] \notin {"IDLE", "FAILED"}
    /\ Collected(a) => /\ outputDelta[a] = Out(a) /\ future[a] = "done"
                       /\ state[a] \in {"FINISHED", "MERGED"}

\* Whose an input is.
Inputs ==
  \A u \in Action :
    /\ plan.deps[u] = {} => inputDelta[u] = In(u)
    /\ plan.deps[u] # {} /\ inputDelta[u] # NoDelta =>
         \E b \in plan.deps[u] : inputDelta[u] = Out(b) /\ Collected(b)

\* What an MCE returned has what it computed and what it was given, if it
\* has an addition at all.
Results ==
  \A a \in Action :
    future[a] = "done" /\ "add" \in DOMAIN heap[Out(a)] =>
      {a} \cup seen[a]["add"] \subseteq heap[Out(a)]["add"]

\* What was merged has reached the inputs it was merged into.
Merged ==
  \A u \in Action : \A b \in plan.deps[u] : state[b] = "MERGED" =>
    /\ inputDelta[u] # NoDelta
    /\ Adds(inputDelta[u]) => Reached(b, inputDelta[u])

\* The result of every root that has ended has reached the first one's.
RootsMerged ==
  /\ mergedRoot # NoAction => mergedRoot \in Roots /\ Collected(mergedRoot)
  /\ \A r \in Roots : Collected(r) =>
       /\ mergedRoot # NoAction
       /\ Adds(Out(mergedRoot)) => Reached(r, Out(mergedRoot))
  /\ pc = "returned" => mergedRoot # NoAction

DInv == IInv /\ DTypes /\ Outputs /\ Inputs /\ Results /\ Merged /\ RootsMerged

-----------------------------------------------------------------------------
\* References are told apart by their kind and their owner, and from null.
LEMMA RefFacts ==
  ASSUME NEW a \in Action
  PROVE  /\ In(a) \in Ref /\ Out(a) \in Ref
         /\ In(a) # NoDelta /\ Out(a) # NoDelta
         /\ \A b \in Action : In(a) # Out(b) /\ (Out(a) = Out(b) => a = b)
  BY DeltaAssumption DEF In, Out, Ref

\* The inputs and outputs that are not null are references.
LEMMA InputIsRef ==
  ASSUME DTypes, NEW a \in Action
  PROVE  /\ inputDelta[a] # NoDelta => inputDelta[a] \in Ref
         /\ outputDelta[a] # NoDelta => outputDelta[a] \in Ref
         /\ inputDelta[a] \in Ref => inputDelta[a] # NoDelta
  BY DeltaAssumption DEF DTypes, Ref

\* Nothing that could be merged has a result yet.
LEMMA DInitInv == DInit => DInv
<1> SUFFICES ASSUME DInit PROVE DInv
  OBVIOUS
<1>1. Init
  BY DEF DInit
<1>2. IInv
  BY <1>1, InitInv
<1>3. /\ plan \in Plans /\ pc = "launch" /\ mergedRoot = NoAction
      /\ state = [a \in Action |-> "IDLE"]
      /\ future = [a \in Action |-> "none"]
  BY <1>1 DEF Init
<1>4. /\ inputDelta = [a \in Action |->
                         IF plan.deps[a] = {} THEN In(a) ELSE NoDelta]
      /\ outputDelta = [a \in Action |-> NoDelta]
      /\ seen = [a \in Action |-> Nothing]
      /\ heap = [r \in Ref |-> IF r[1] = "in" /\ plan.deps[r[2]] = {}
                               THEN Addition({}) ELSE Nothing]
  BY DEF DInit
<1>5. DTypes
  BY <1>4, RefFacts DEF DTypes
<1>6. Outputs /\ Results
  BY <1>3, <1>4 DEF Outputs, Results, Collected
<1>7. Inputs
  BY <1>4 DEF Inputs
<1>8. Merged
  <2>1. \A u \in Action : \A b \in plan.deps[u] : b \in Action
    BY <1>2, DependencyFacts DEF IInv
  <2> QED
    BY <1>3, <2>1 DEF Merged
<1>9. RootsMerged
  <2>1. Roots \subseteq Action
    BY <1>2, WorkflowAssumption DEF IInv, TypeOK, PlanOK, Roots
  <2> QED
    BY <1>3, <1>4, <2>1 DEF RootsMerged, Collected
<1> QED
  BY <1>2, <1>5, <1>6, <1>7, <1>8, <1>9 DEF DInv

\* Every step is a step of the engine without its data.
LEMMA ControlStep == [DNext]_<<vars, dvars>> => [Next]_vars
  BY DEF DNext, DWorker, DCollect, MceReads, DMceEnds, Next, Worker, vars

\* The steps that leave the deltas alone: only an action without an output
\* is started or fails.
LEMMA QuietInv ==
  ASSUME DInv, IInv', plan' = plan, mergedRoot' = mergedRoot, UNCHANGED dvars,
         \A a \in Action :
           \/ state'[a] = state[a] /\ future'[a] = future[a]
           \/ /\ ~ Collected(a) /\ state'[a] # "MERGED"
              /\ \/ future'[a] = "running" /\ state'[a] = "PROCESSING"
                 \/ /\ future'[a] = future[a]
                    /\ future[a] # "none" => state'[a] = "FINISHED",
         pc' = "returned" => mergedRoot # NoAction
  PROVE  DInv'
<1> USE DEF DInv, dvars
<1>1. DTypes'
  BY DEF DTypes
<1>2. \A a \in Action : Collected(a)' = Collected(a)
  BY DEF Collected
<1>3. Outputs'
  BY <1>2 DEF Outputs
<1>4. Inputs'
  BY DEF Inputs, Collected
<1>5. Results'
  BY DEF Results
<1>6. \A b, r : Adds(r)' = Adds(r) /\ Reached(b, r)' = Reached(b, r)
  BY DEF Adds, Reached
<1>7. Merged'
  <2> SUFFICES ASSUME NEW u \in Action, NEW b \in plan.deps[u],
                      state'[b] = "MERGED"
               PROVE  /\ inputDelta[u] # NoDelta
                      /\ Adds(inputDelta[u]) => Reached(b, inputDelta[u])
    BY <1>6 DEF Merged
  <2>1. b \in Action
    BY DependencyFacts DEF IInv
  <2>2. state[b] = "MERGED"
    BY <2>1
  <2> QED
    BY <2>2 DEF Merged
<1>8. RootsMerged'
  <2>1. Roots' = Roots /\ Roots \subseteq Action
    BY WorkflowAssumption DEF Roots, Uppers, IInv, TypeOK, PlanOK
  <2>2. \A r \in Roots : Collected(r)' = Collected(r)
    BY <1>2, <2>1
  <2>3. mergedRoot # NoAction => Collected(mergedRoot)' = Collected(mergedRoot)
    BY <2>2 DEF RootsMerged
  <2>4. Out(mergedRoot)' = Out(mergedRoot)
    BY DEF Out
  <2> QED
    BY <1>6, <2>1, <2>2, <2>3, <2>4 DEF RootsMerged
<1> QED
  BY <1>1, <1>3, <1>4, <1>5, <1>7, <1>8

\* The worker's steps between two results.
LEMMA WorkerInv ==
  ASSUME DInv, IInv', UNCHANGED dvars,
         \/ Launch \/ Poll \/ EndPolling \/ NextBatch \/ PollAgain \/ Return
         \/ \E a \in Action : LaunchFails(a) \/ SkipPending(a) \/ Interrupted(a)
  PROVE  DInv'
<1> USE DEF DInv
<1>1. CASE Poll \/ EndPolling \/ NextBatch \/ PollAgain
  BY <1>1, QuietInv DEF Poll, EndPolling, NextBatch, PollAgain
<1>2. CASE Return
  <2>1. pc' = "returned" => mergedRoot # NoAction
    BY <1>2 DEF Return
  <2> QED
    BY <1>2, <2>1, QuietInv DEF Return
<1>3. ASSUME NEW a \in Action, SkipPending(a) PROVE DInv'
  BY <1>3, QuietInv DEF SkipPending
<1>4. CASE Launch
  <2> DEFINE idle == {b \in batch : state[b] = "IDLE"}
  <2>1. /\ plan' = plan /\ mergedRoot' = mergedRoot /\ pc' = "poll"
        /\ state' = [b \in Action |->
                       IF b \in idle THEN "PROCESSING" ELSE state[b]]
        /\ future' = [b \in Action |->
                        IF b \in idle THEN "running" ELSE future[b]]
    BY <1>4 DEF Launch
  <2>2. \A b \in Action : b \in idle => ~ Collected(b)
    BY DEF Outputs
  <2>3. \A b \in Action :
          \/ state'[b] = state[b] /\ future'[b] = future[b]
          \/ /\ ~ Collected(b) /\ state'[b] # "MERGED"
             /\ future'[b] = "running" /\ state'[b] = "PROCESSING"
    BY <2>1, <2>2
  <2> QED
    BY <2>1, <2>3, QuietInv
<1>5. ASSUME NEW a \in Action, LaunchFails(a) PROVE DInv'
  <2>1. PICK S \in SUBSET {b \in batch \ {a} : state[b] = "IDLE"} :
          /\ state' = [b \in Action |-> IF b = a THEN "FAILED"
                                        ELSE IF b \in S THEN "PROCESSING"
                                        ELSE state[b]]
          /\ future' = [b \in Action |->
                          IF b \in S THEN "running" ELSE future[b]]
    BY <1>5 DEF LaunchFails
  <2>2. /\ plan' = plan /\ mergedRoot' = mergedRoot /\ pc' = "failed"
        /\ state[a] = "IDLE"
    BY <1>5 DEF LaunchFails
  <2>3. \A b \in Action : b = a \/ b \in S => ~ Collected(b)
    BY <2>2 DEF Outputs
  <2>4. future[a] = "none" /\ a \notin S
    BY <2>2 DEF Outputs, IInv, TypeOK
  <2>5. \A b \in Action :
          \/ state'[b] = state[b] /\ future'[b] = future[b]
          \/ /\ ~ Collected(b) /\ state'[b] # "MERGED"
             /\ \/ future'[b] = "running" /\ state'[b] = "PROCESSING"
                \/ /\ future'[b] = future[b]
                   /\ future[b] # "none" => state'[b] = "FINISHED"
    BY <2>1, <2>3, <2>4
  <2> QED
    BY <2>2, <2>5, QuietInv
<1>6. ASSUME NEW a \in Action, Interrupted(a) PROVE DInv'
  <2>1. /\ plan' = plan /\ mergedRoot' = mergedRoot /\ pc' = "failed"
        /\ state' = [state EXCEPT ![a] = "FINISHED"] /\ future' = future
        /\ future[a] = "thrown"
    BY <1>6 DEF Interrupted
  <2>2. ~ Collected(a)
    BY <2>1 DEF Outputs
  <2> QED
    BY <2>1, <2>2, QuietInv DEF IInv, TypeOK
<1> QED
  BY <1>1, <1>2, <1>3, <1>4, <1>5, <1>6

-----------------------------------------------------------------------------
\* An MCE that reads its input has no result that anybody could refer to.
LEMMA ReadsInv ==
  ASSUME DInv, IInv', NEW c \in Action, MceReads(c)
  PROVE  DInv'
<1> USE DEF DInv
<1>1. /\ UNCHANGED vars /\ UNCHANGED <<inputDelta, outputDelta, heap>>
      /\ seen' = [seen EXCEPT ![c] = heap[inputDelta[c]]]
      /\ future[c] = "running"
  BY DEF MceReads
<1>2. UNCHANGED <<plan, pc, state, future, mergedRoot>>
  BY <1>1 DEF vars
<1>3. ~ Collected(c)
  BY <1>1 DEF Outputs
<1>4. \A b \in Action : b # c => seen'[b] = seen[b]
  BY <1>1 DEF DTypes
<1>5. DTypes'
  BY <1>1 DEF DTypes
<1>6. Outputs' /\ Inputs'
  BY <1>1, <1>2 DEF Outputs, Inputs, Collected
<1>7. Results'
  BY <1>1, <1>2, <1>4 DEF Results
<1>8. \A r : Adds(r)' = Adds(r)
  BY <1>1 DEF Adds
<1>9. \A b \in Action : \A r : Reached(b, r) => Reached(b, r)'
  BY <1>1, <1>3, <1>4 DEF Reached, Adds, Collected
<1>10. Merged'
  <2>1. \A u \in Action : \A b \in plan.deps[u] : b \in Action
    BY DependencyFacts DEF IInv
  <2> QED
    BY <1>1, <1>2, <1>8, <1>9, <2>1 DEF Merged
<1>11. RootsMerged'
  <2>1. Roots' = Roots /\ Roots \subseteq Action
    BY <1>2, WorkflowAssumption DEF Roots, Uppers, IInv, TypeOK, PlanOK
  <2>2. Out(mergedRoot)' = Out(mergedRoot)
    BY <1>2 DEF Out
  <2>3. \A r : Collected(r)' = Collected(r)
    BY <1>1 DEF Collected
  <2> QED
    BY <1>2, <1>8, <1>9, <2>1, <2>2, <2>3 DEF RootsMerged
<1> QED
  BY <1>5, <1>6, <1>7, <1>10, <1>11

\* An MCE that ends writes a delta that nobody refers to yet.
LEMMA EndsInv ==
  ASSUME DInv, IInv', NEW c \in Action, DMceEnds(c)
  PROVE  DInv'
<1> USE DEF DInv
<1>1. /\ UNCHANGED <<plan, pc, state, mergedRoot>>
      /\ UNCHANGED <<inputDelta, outputDelta, seen>>
      /\ future[c] = "running"
      /\ \E r \in {"done", "thrown"} : future' = [future EXCEPT ![c] = r]
  BY DEF DMceEnds, MceEnds
<1>2. ~ Collected(c)
  BY <1>1 DEF Outputs
<1>3. future'[c] \in {"done", "thrown"}
      /\ \A b \in Action : b # c => future'[b] = future[b]
  BY <1>1 DEF IInv, TypeOK
<1>4. /\ heap' = [r \in Ref |-> heap'[r]]
      /\ \A r \in Ref : r # Out(c) => heap'[r] = heap[r]
  BY DEF DMceEnds, DTypes
<1>5. \A b \in Action : Collected(b) => outputDelta[b] \in Ref
                                        /\ outputDelta[b] # Out(c)
  BY <1>2, RefFacts DEF Outputs
<1>6. \A u \in Action : inputDelta[u] # NoDelta => inputDelta[u] \in Ref
                                                   /\ inputDelta[u] # Out(c)
  <2> SUFFICES ASSUME NEW u \in Action, inputDelta[u] # NoDelta
               PROVE  inputDelta[u] \in Ref /\ inputDelta[u] # Out(c)
    OBVIOUS
  <2>1. CASE plan.deps[u] = {}
    BY <2>1, RefFacts DEF Inputs
  <2>2. CASE plan.deps[u] # {}
    <3>1. PICK b \in plan.deps[u] : inputDelta[u] = Out(b) /\ Collected(b)
      BY <2>2 DEF Inputs
    <3>2. b \in Action
      BY DependencyFacts DEF IInv
    <3> QED
      BY <3>1, <3>2, <1>2, RefFacts
  <2> QED
    BY <2>1, <2>2
<1>7. DTypes' /\ Inputs'
  BY <1>1, <1>4 DEF DTypes, Inputs, Collected
<1>8. Outputs'
  BY <1>1, <1>2, <1>3 DEF Outputs, Collected
<1>9. Results'
  <2> SUFFICES ASSUME NEW a \in Action, future'[a] = "done",
                      "add" \in DOMAIN heap'[Out(a)]
               PROVE  {a} \cup seen[a]["add"] \subseteq heap'[Out(a)]["add"]
    BY <1>1 DEF Results, Out
  <2>1. CASE a # c
    <3>1. heap'[Out(a)] = heap[Out(a)]
      BY <2>1, <1>4, RefFacts
    <3> QED
      BY <2>1, <3>1, <1>3 DEF Results
  <2>2. CASE a = c
    <3>1. "add" \in DOMAIN seen[c]
      BY <2>2 DEF DMceEnds
    <3>2. PICK result \in {Merge(Addition({c}), seen[c])}
                            \cup {Reduction({r}) : r \in Removers \cap {c}} :
            heap' = [heap EXCEPT ![Out(c)] = result]
      BY <2>2 DEF DMceEnds
    <3>3. heap'[Out(c)] = result
      BY <3>2, RefFacts DEF DTypes
    <3>4. CASE result = Merge(Addition({c}), seen[c])
      BY <2>2, <3>1, <3>3, <3>4 DEF Merge, Addition
    <3>5. CASE \E r : result = Reduction({r})
      BY <2>2, <3>3, <3>5 DEF Reduction
    <3> QED
      BY <3>2, <3>4, <3>5
  <2> QED
    BY <2>1, <2>2
<1>10. ASSUME NEW b \in Action, NEW r \in Ref, r # Out(c)
       PROVE  /\ Adds(r)' = Adds(r)
              /\ Reached(b, r) => Reached(b, r)'
  <2>1. Adds(r)' = Adds(r)
    BY <1>4, <1>10 DEF Adds
  <2>2. outputDelta[b] # NoDelta =>
          heap'[outputDelta[b]] = heap[outputDelta[b]]
    BY <1>4, <1>5 DEF Collected
  <2>3. Adds(outputDelta[b])' = Adds(outputDelta[b])
    BY <1>1, <2>2 DEF Adds
  <2>4. heap'[r] = heap[r]
    BY <1>4, <1>10
  <2> QED
    BY <1>1, <2>1, <2>3, <2>4 DEF Reached
<1>11. Merged'
  <2>1. \A u \in Action : \A b \in plan.deps[u] : b \in Action
    BY DependencyFacts DEF IInv
  <2> QED
    BY <1>1, <1>6, <1>10, <2>1 DEF Merged
<1>12. RootsMerged'
  <2>1. Roots' = Roots /\ Roots \subseteq Action
    BY <1>1, WorkflowAssumption DEF Roots, Uppers, IInv, TypeOK, PlanOK
  <2>2. Out(mergedRoot)' = Out(mergedRoot)
    BY <1>1 DEF Out
  <2>3. \A r : Collected(r)' = Collected(r)
    BY <1>1 DEF Collected
  <2>4. mergedRoot # NoAction => Out(mergedRoot) \in Ref
                                 /\ Out(mergedRoot) # Out(c)
    BY <1>2, <2>1, RefFacts DEF RootsMerged
  <2> QED
    BY <1>1, <1>10, <2>1, <2>2, <2>3, <2>4 DEF RootsMerged
<1> QED
  BY <1>7, <1>8, <1>9, <1>11, <1>12

-----------------------------------------------------------------------------
\* A delta loses neither a side nor anything on it.
HeapGrows ==
  \A r \in Ref : /\ DOMAIN heap'[r] = DOMAIN heap[r]
                 /\ \A s \in DOMAIN heap[r] : heap[r][s] \subseteq heap'[r][s]

\* Where mergeResult puts the result for u, which has an input.
Target(u) == IF outputDelta[u] # NoDelta THEN outputDelta[u] ELSE inputDelta[u]

\* What mergeResult does: an addition reaches the targets that have one.
LEMMA MergeResultFacts ==
  ASSUME DTypes, NEW a \in Action, NEW us \in SUBSET Action, MergeResult(a, us)
  PROVE  /\ HeapGrows
         /\ heap' = [r \in Ref |-> heap'[r]]
         /\ inputDelta' = [u \in Action |->
                             IF u \in us /\ inputDelta[u] = NoDelta THEN Out(a)
                             ELSE inputDelta[u]]
         /\ \A u \in us :
              (inputDelta[u] # NoDelta /\ "add" \in DOMAIN heap[Out(a)]
                 /\ "add" \in DOMAIN heap[Target(u)]) =>
              heap[Out(a)]["add"] \subseteq heap'[Target(u)]["add"]
         /\ \A r \in Ref : heap'[r] # heap[r] =>
              \E u \in us : inputDelta[u] # NoDelta /\ r = Target(u)
<1> DEFINE targets == {Target(u) : u \in {v \in us : inputDelta[v] # NoDelta}}
<1>1. heap' = [r \in Ref |-> IF r \in targets
                             THEN Merge(heap[Out(a)], heap[r]) ELSE heap[r]]
  BY DEF MergeResult, Target
<1> HIDE DEF targets
<1>2. ASSUME NEW r \in Ref, r \in targets
      PROVE  /\ DOMAIN heap'[r] = DOMAIN heap[r]
             /\ \A s \in DOMAIN heap[r] :
                  heap'[r][s] = heap[r][s] \cup
                                (IF s \in DOMAIN heap[Out(a)]
                                 THEN heap[Out(a)][s] ELSE {})
  <2>1. heap'[r] = Merge(heap[Out(a)], heap[r])
    BY <1>1, <1>2
  <2> QED
    BY <2>1 DEF Merge
<1>3. HeapGrows
  <2> SUFFICES ASSUME NEW r \in Ref
               PROVE  /\ DOMAIN heap'[r] = DOMAIN heap[r]
                      /\ \A s \in DOMAIN heap[r] :
                           heap[r][s] \subseteq heap'[r][s]
    BY DEF HeapGrows
  <2>1. CASE r \in targets
    BY <2>1, <1>2
  <2>2. CASE r \notin targets
    BY <2>2, <1>1
  <2> QED
    BY <2>1, <2>2
<1>4. heap' = [r \in Ref |-> heap'[r]]
  BY <1>1
<1>5. inputDelta' = [u \in Action |->
                       IF u \in us /\ inputDelta[u] = NoDelta THEN Out(a)
                       ELSE inputDelta[u]]
  BY DEF MergeResult
<1>6. ASSUME NEW u \in us, inputDelta[u] # NoDelta,
             "add" \in DOMAIN heap[Out(a)], "add" \in DOMAIN heap[Target(u)]
      PROVE  heap[Out(a)]["add"] \subseteq heap'[Target(u)]["add"]
  <2>1. Target(u) \in targets
    BY <1>6 DEF targets
  <2>2. Target(u) \in Ref
    BY <1>6, InputIsRef DEF Target
  <2> QED
    BY <2>1, <2>2, <1>2, <1>6
<1>7. \A r \in Ref : heap'[r] # heap[r] =>
        \E u \in us : inputDelta[u] # NoDelta /\ r = Target(u)
  BY <1>1 DEF targets
<1> QED
  BY <1>3, <1>4, <1>5, <1>6, <1>7

\* What has reached a delta with an addition stays in it.
LEMMA ReachedStays ==
  ASSUME DTypes, HeapGrows, seen' = seen, NEW b \in Action, NEW r \in Ref,
         outputDelta'[b] = outputDelta[b], Reached(b, r), Adds(r)'
  PROVE  Reached(b, r)'
<1>1. "add" \in DOMAIN heap[r] /\ heap[r]["add"] \subseteq heap'[r]["add"]
  BY DEF HeapGrows, Adds
<1>2. Adds(outputDelta[b])' => Adds(outputDelta[b])
  BY InputIsRef DEF Adds, HeapGrows
<1> QED
  BY <1>1, <1>2 DEF Reached

\* An action whose result is collected was executing, so what depends on it
\* has not been started; a root that has ended before it had an input.
LEMMA CollectFacts ==
  ASSUME DInv, NEW a \in Action, Collect(a)
  PROVE  /\ a \in plan.live /\ ~ Collected(a) /\ future[a] = "done"
         /\ \A u \in Uppers(a) : state[u] = "IDLE" /\ ~ Collected(u)
         /\ mergedRoot # NoAction =>
              /\ mergedRoot \in Roots /\ mergedRoot \in Action
              /\ mergedRoot # a
              /\ Collected(mergedRoot) /\ Target(mergedRoot) = Out(mergedRoot)
              /\ inputDelta[mergedRoot] # NoDelta
<1> USE DEF DInv, IInv
<1>1. /\ pc = "sweep" /\ a \in resultMap /\ future[a] = "done"
  BY DEF Collect, TypeOK
<1>2. state[a] = "PROCESSING"
  BY <1>1 DEF NothingForgotten, Running
<1>3. a \in plan.live /\ ~ Collected(a)
  BY <1>2 DEF DependencyOrder, Outputs
<1>4. ASSUME NEW u \in Uppers(a) PROVE state[u] = "IDLE" /\ ~ Collected(u)
  <2>1. u \in Action /\ a \in plan.deps[u]
    BY DEF Uppers
  <2>2. state[u] = "IDLE"
    BY <1>2, <2>1 DEF DependencyOrder
  <2> QED
    BY <2>1, <2>2 DEF Outputs
<1>5. ASSUME mergedRoot # NoAction
      PROVE  /\ mergedRoot \in Roots /\ mergedRoot \in Action
             /\ mergedRoot # a
             /\ Collected(mergedRoot) /\ Target(mergedRoot) = Out(mergedRoot)
             /\ inputDelta[mergedRoot] # NoDelta
  <2> DEFINE m == mergedRoot
  <2>1. m \in Roots /\ Collected(m) /\ m # a
    BY <1>3, <1>5 DEF RootsMerged
  <2>2. m \in Action
    BY <1>5 DEF TypeOK
  <2>3. outputDelta[m] = Out(m) /\ state[m] # "IDLE"
    BY <2>1, <2>2 DEF Outputs
  <2>4. Target(m) = Out(m)
    BY <2>1, <2>3 DEF Target, Collected
  <2>5. inputDelta[m] # NoDelta
    <3>1. CASE plan.deps[m] = {}
      BY <2>2, <3>1, RefFacts DEF Inputs
    <3>2. CASE plan.deps[m] # {}
      <4>1. PICK d \in plan.deps[m] : TRUE
        BY <3>2
      <4>2. state[d] = "MERGED"
        BY <2>2, <2>3, <4>1 DEF DependencyOrder
      <4> QED
        BY <2>2, <4>2 DEF Merged
    <3> QED
      BY <3>1, <3>2
  <2> QED
    BY <2>1, <2>2, <2>4, <2>5
<1> QED
  BY <1>1, <1>3, <1>4, <1>5

\* Collecting a result loses nothing that was merged before, and the result
\* reaches all that it is merged into.
LEMMA DCollectInv ==
  ASSUME DInv, IInv', NEW a \in Action, DCollect(a)
  PROVE  DInv'
<1> DEFINE us == IF Uppers(a) # {} THEN Uppers(a) ELSE {mergedRoot} \ {NoAction}
<1> USE DEF DInv
<1>0. Collect(a) /\ MergeResult(a, us)
  BY DEF DCollect
<1>1. /\ plan' = plan /\ future' = future /\ pc' = "sweep"
      /\ state' = [state EXCEPT ![a] =
                     IF Uppers(a) # {} THEN "MERGED" ELSE "FINISHED"]
      /\ mergedRoot' = IF Uppers(a) = {} /\ mergedRoot = NoAction
                       THEN a ELSE mergedRoot
      /\ outputDelta' = [outputDelta EXCEPT ![a] = Out(a)]
      /\ seen' = seen
  BY DEF DCollect, Collect
<1>2. /\ a \in plan.live /\ ~ Collected(a) /\ future[a] = "done"
      /\ \A u \in Uppers(a) : state[u] = "IDLE" /\ ~ Collected(u)
      /\ mergedRoot # NoAction =>
           /\ mergedRoot \in Roots /\ mergedRoot \in Action
           /\ mergedRoot # a
           /\ Collected(mergedRoot) /\ Target(mergedRoot) = Out(mergedRoot)
           /\ inputDelta[mergedRoot] # NoDelta
  BY <1>0, CollectFacts
<1>3. us \in SUBSET Action
  BY <1>2 DEF Uppers
<1>4. /\ HeapGrows
      /\ heap' = [r \in Ref |-> heap'[r]]
      /\ inputDelta' = [u \in Action |->
                          IF u \in us /\ inputDelta[u] = NoDelta THEN Out(a)
                          ELSE inputDelta[u]]
      /\ \A u \in us :
           (inputDelta[u] # NoDelta /\ "add" \in DOMAIN heap[Out(a)]
              /\ "add" \in DOMAIN heap[Target(u)]) =>
           heap[Out(a)]["add"] \subseteq heap'[Target(u)]["add"]
  BY <1>0, <1>3, MergeResultFacts
<1> HIDE DEF us
<1>5. /\ outputDelta'[a] = Out(a)
      /\ \A b \in Action : b # a => outputDelta'[b] = outputDelta[b]
  BY <1>1 DEF DTypes
<1>6. /\ state'[a] = IF Uppers(a) # {} THEN "MERGED" ELSE "FINISHED"
      /\ \A b \in Action : b # a => state'[b] = state[b]
  BY <1>1 DEF IInv, TypeOK
<1>7. Out(a) \in Ref /\ Out(a) # NoDelta
  BY RefFacts
<1>8. DTypes'
  BY <1>1, <1>4, <1>7 DEF DTypes
<1>9. Outputs'
  BY <1>1, <1>2, <1>5, <1>6 DEF Outputs, Collected
<1>10. \A r \in Ref : Adds(r)' => Adds(r)
  BY <1>4 DEF Adds, HeapGrows
\* What a has is in its own output, and in what that has been merged into.
<1>11. "add" \in DOMAIN heap[Out(a)] =>
         {a} \cup seen[a]["add"] \subseteq heap[Out(a)]["add"]
  BY <1>2 DEF Results
<1>12. Reached(a, Out(a))'
  BY <1>1, <1>4, <1>5, <1>7, <1>11 DEF Reached, Adds, HeapGrows, Out
<1>13. ASSUME NEW u \in us, NEW r \in Ref, inputDelta[u] # NoDelta,
              r = Target(u), Adds(r)'
       PROVE  Reached(a, r)'
  <2>1. "add" \in DOMAIN heap[r]
    BY <1>4, <1>13 DEF Adds, HeapGrows
  <2>2. Adds(outputDelta[a])' <=> "add" \in DOMAIN heap[Out(a)]
    BY <1>4, <1>5, <1>7 DEF Adds, HeapGrows
  <2>3. "add" \in DOMAIN heap[Out(a)] =>
          heap[Out(a)]["add"] \subseteq heap'[r]["add"]
    BY <1>4, <1>13, <2>1
  <2> QED
    BY <1>1, <1>11, <2>2, <2>3 DEF Reached
<1>14. Inputs'
  <2> SUFFICES ASSUME NEW u \in Action
               PROVE  /\ plan.deps[u] = {} => inputDelta'[u] = In(u)
                      /\ plan.deps[u] # {} /\ inputDelta'[u] # NoDelta =>
                           \E b \in plan.deps[u] :
                              inputDelta'[u] = Out(b) /\ Collected(b)'
    BY <1>1 DEF Inputs, In, Out
  <2>1. CASE inputDelta'[u] = inputDelta[u]
    <3>1. \A b \in plan.deps[u] : Collected(b) => Collected(b)'
      BY <1>5, <1>7, DependencyFacts DEF Collected, IInv
    <3> QED
      BY <2>1, <3>1 DEF Inputs
  <2>2. CASE u \in us /\ inputDelta[u] = NoDelta
    <3>1. Uppers(a) # {}
      BY <1>2, <2>2 DEF us
    <3>2. a \in plan.deps[u]
      BY <2>2, <3>1 DEF us, Uppers
    <3> QED
      BY <1>4, <1>5, <1>7, <2>2, <3>2 DEF Collected
  <2> QED
    BY <1>4, <2>1, <2>2
<1>15. Results'
  <2> SUFFICES ASSUME NEW b \in Action, future[b] = "done",
                      "add" \in DOMAIN heap'[Out(b)]
               PROVE  {b} \cup seen[b]["add"] \subseteq heap'[Out(b)]["add"]
    BY <1>1 DEF Results, Out
  <2>1. Out(b) \in Ref
    BY RefFacts
  <2>2. /\ "add" \in DOMAIN heap[Out(b)]
        /\ heap[Out(b)]["add"] \subseteq heap'[Out(b)]["add"]
    BY <1>4, <2>1 DEF HeapGrows
  <2> QED
    BY <2>2 DEF Results
<1>16. Merged'
  <2> SUFFICES ASSUME NEW u \in Action, NEW b \in plan.deps[u],
                      state'[b] = "MERGED"
               PROVE  /\ inputDelta'[u] # NoDelta
                      /\ Adds(inputDelta[u])' => Reached(b, inputDelta[u])'
    BY <1>1 DEF Merged
  <2>0. b \in Action
    BY DependencyFacts DEF IInv
  <2>1. CASE b # a
    <3>1. /\ inputDelta[u] # NoDelta
          /\ Adds(inputDelta[u]) => Reached(b, inputDelta[u])
      BY <2>0, <2>1, <1>6 DEF Merged
    <3>2. inputDelta'[u] = inputDelta[u] /\ inputDelta[u] \in Ref
      BY <1>4, <3>1, InputIsRef
    <3>3. PICK r \in Ref : r = inputDelta[u] /\ r = inputDelta'[u]
      BY <3>2
    <3>4. Adds(r)' => Reached(b, r)'
      BY <2>0, <2>1, <1>1, <1>4, <1>5, <1>10, <3>1, <3>3, ReachedStays
    <3> QED
      BY <3>1, <3>2, <3>3, <3>4 DEF Adds, Reached
  <2>2. CASE b = a
    <3>1. u \in us /\ ~ Collected(u)
      BY <1>2, <2>2 DEF us, Uppers
    <3>2. CASE inputDelta[u] = NoDelta
      <4>1. inputDelta'[u] = Out(a)
        BY <1>4, <3>1, <3>2
      <4> QED
        BY <1>7, <1>12, <2>2, <4>1 DEF Reached, Out
    <3>3. CASE inputDelta[u] # NoDelta
      <4>1. /\ inputDelta'[u] = inputDelta[u] /\ Target(u) = inputDelta[u]
            /\ inputDelta[u] \in Ref
        BY <1>4, <3>1, <3>3, InputIsRef DEF Target, Collected
      <4>2. PICK r \in Ref : r = inputDelta[u]
        BY <4>1
      <4>3. Adds(r)' => Reached(a, r)'
        BY <1>13, <3>1, <3>3, <4>1, <4>2
      <4> QED
        BY <2>2, <3>3, <4>1, <4>2, <4>3 DEF Adds, Reached
    <3> QED
      BY <3>2, <3>3
  <2> QED
    BY <2>1, <2>2
<1>17. RootsMerged'
  <2>1. Roots' = Roots /\ Roots \subseteq Action
    BY <1>1, WorkflowAssumption DEF Roots, Uppers, IInv, TypeOK, PlanOK
  <2>2. \A b \in Action : Collected(b)' <=> Collected(b) \/ b = a
    BY <1>2, <1>5, <1>7 DEF Collected
  <2>3. CASE a \notin Roots
    <3>1. mergedRoot' = mergedRoot
      BY <1>1, <1>2, <2>3 DEF Roots
    <3>2. ASSUME NEW b \in Roots, Collected(b)
          PROVE  /\ mergedRoot # NoAction
                 /\ Adds(Out(mergedRoot))' => Reached(b, Out(mergedRoot))'
      <4>1. /\ mergedRoot # NoAction
            /\ Adds(Out(mergedRoot)) => Reached(b, Out(mergedRoot))
        BY <3>2 DEF RootsMerged
      <4>2. PICK r \in Ref : r = Out(mergedRoot)
        BY <1>2, <4>1, RefFacts
      <4>3. Adds(r)' => Reached(b, r)'
        BY <2>1, <2>3, <3>2, <1>1, <1>4, <1>5, <1>10, <4>1, <4>2, ReachedStays
      <4> QED
        BY <3>1, <4>1, <4>2, <4>3 DEF Adds, Reached, Out
    <3> QED
      BY <1>1, <2>1, <2>2, <2>3, <3>1, <3>2 DEF RootsMerged
  <2>4. CASE a \in Roots /\ mergedRoot = NoAction
    <3>1. mergedRoot' = a
      BY <1>1, <2>4 DEF Roots
    <3>2. \A b \in Roots : ~ Collected(b)
      BY <2>4 DEF RootsMerged
    <3>3. Out(mergedRoot)' = Out(a)
      BY <3>1 DEF Out
    <3>4. Reached(a, Out(mergedRoot))'
      BY <3>1, <1>12 DEF Reached, Out
    <3>5. a # NoAction
      BY WorkflowAssumption
    <3> QED
      BY <1>1, <2>1, <2>2, <2>4, <3>1, <3>2, <3>4, <3>5 DEF RootsMerged
  <2>5. CASE a \in Roots /\ mergedRoot # NoAction
    <3>1. mergedRoot' = mergedRoot /\ mergedRoot \in us
      BY <1>1, <2>5 DEF us, Roots
    <3>2. PICK r \in Ref : r = Out(mergedRoot) /\ r = Target(mergedRoot)
      BY <1>2, <2>5, RefFacts
    <3>3. ASSUME NEW b \in Roots, Collected(b) \/ b = a
          PROVE  Adds(r)' => Reached(b, r)'
      <4>1. CASE b = a
        BY <1>2, <1>13, <2>5, <3>1, <3>2, <4>1
      <4>2. CASE b # a
        <5>1. Adds(r) => Reached(b, r)
          BY <3>2, <3>3, <4>2 DEF RootsMerged
        <5> QED
          BY <2>1, <3>3, <4>2, <1>1, <1>4, <1>5, <1>10, <5>1, ReachedStays
      <4> QED
        BY <4>1, <4>2
    <3>4. ASSUME NEW b \in Roots, Collected(b) \/ b = a
          PROVE  Adds(Out(mergedRoot))' => Reached(b, Out(mergedRoot))'
      BY <3>1, <3>2, <3>3, <3>4 DEF Adds, Reached, Out
    <3> QED
      BY <1>1, <1>2, <2>1, <2>2, <2>5, <3>1, <3>4 DEF RootsMerged
  <2> QED
    BY <2>3, <2>4, <2>5
<1> QED
  BY <1>8, <1>9, <1>14, <1>15, <1>16, <1>17

-----------------------------------------------------------------------------
\* The inductive step.
LEMMA DNextInv == DInv /\ [DNext]_<<vars, dvars>> => DInv'
<1> SUFFICES ASSUME DInv, [DNext]_<<vars, dvars>> PROVE DInv'
  OBVIOUS
<1>1. IInv'
  BY ControlStep, NextInv DEF DInv
<1>2. ASSUME NEW a \in Action, DCollect(a) PROVE DInv'
  BY <1>1, <1>2, DCollectInv
<1>3. ASSUME UNCHANGED dvars,
             \/ Launch \/ Poll \/ EndPolling \/ NextBatch \/ PollAgain
                \/ Return
             \/ \E a \in Action : LaunchFails(a) \/ SkipPending(a)
                                  \/ Interrupted(a)
      PROVE  DInv'
  BY <1>1, <1>3, WorkerInv
<1>4. ASSUME NEW a \in Action, MceReads(a) PROVE DInv'
  BY <1>1, <1>4, ReadsInv
<1>5. ASSUME NEW a \in Action, DMceEnds(a) PROVE DInv'
  BY <1>1, <1>5, EndsInv
<1>6. CASE UNCHANGED <<vars, dvars>>
  <2>1. UNCHANGED <<plan, pc, state, future, mergedRoot>> /\ UNCHANGED dvars
    BY <1>6 DEF vars
  <2>2. pc' = "returned" => mergedRoot # NoAction
    BY <2>1 DEF DInv, RootsMerged
  <2> QED
    BY <1>1, <2>1, <2>2, QuietInv
<1> QED
  BY <1>2, <1>3, <1>4, <1>5, <1>6 DEF DNext, DWorker

\* DInv holds of every behaviour of the engine with its data.
THEOREM DeltaInvariant == DSpec => []DInv
  BY DInitInv, DNextInv, PTL DEF DSpec

\* What an MCE is handed has all that its action's dependencies computed.
LEMMA InputFacts == DInv => InputComplete
<1> SUFFICES ASSUME DInv, NEW a \in Action, future[a] # "none"
             PROVE  /\ inputDelta[a] # NoDelta
                    /\ Adds(inputDelta[a]) =>
                         \A b \in plan.deps[a] : Reached(b, inputDelta[a])
  BY DEF InputComplete
<1>1. \A b \in plan.deps[a] : state[b] = "MERGED"
  BY DEF DInv, Outputs, IInv, DependencyOrder
<1>2. CASE plan.deps[a] = {}
  BY <1>2, RefFacts DEF DInv, Inputs
<1>3. CASE plan.deps[a] # {}
  BY <1>1, <1>3 DEF DInv, Merged
<1> QED
  BY <1>2, <1>3

\* No addition that a dependency made is lost on its way into an input,
\* whatever the order in which results end and are merged.
THEOREM InputsAreComplete == DSpec => []InputComplete
  BY DeltaInvariant, InputFacts, PTL

\* The result that is returned in time has what every root computed.
THEOREM ResultIsComplete == DSpec => []ResultComplete
<1>1. DInv => ResultComplete
  <2> SUFFICES ASSUME DInv, pc = "returned",
                      Adds(outputDelta[mergedRoot]), NEW r \in Roots
               PROVE  Reached(r, outputDelta[mergedRoot])
    BY DEF ResultComplete
  <2>1. mergedRoot \in Roots /\ Collected(mergedRoot)
    BY DEF DInv, RootsMerged
  <2>2. r \in Action /\ mergedRoot \in Action
    BY <2>1, WorkflowAssumption DEF DInv, IInv, TypeOK, PlanOK, Roots
  <2>3. outputDelta[mergedRoot] = Out(mergedRoot)
    BY <2>1, <2>2 DEF DInv, Outputs
  <2>4. CASE Collected(r)
    BY <2>3, <2>4 DEF DInv, RootsMerged
  <2>5. CASE ~ Collected(r)
    BY <2>5 DEF Collected, Reached, Adds
  <2> QED
    BY <2>4, <2>5
<1> QED
  BY <1>1, DeltaInvariant, PTL

-----------------------------------------------------------------------------
\* In a tree, the input of an action whose MCE is running is a delta of its
\* own: what a result is merged into is the input of an action that has not
\* been started, or the first root's output.
LEMMA StableStep ==
  ASSUME DInv, [DNext]_<<vars, dvars>>, Tree, NEW a \in Action,
         future[a] = "running", future'[a] = "running"
  PROVE  heap'[inputDelta[a]] = heap[inputDelta[a]]
<1> USE DEF DInv
<1>1. inputDelta[a] \in Ref
  BY InputFacts, InputIsRef DEF InputComplete
<1>2. \/ inputDelta[a] = In(a)
      \/ \E b \in Action : /\ a \in Uppers(b) /\ Collected(b)
                           /\ inputDelta[a] = Out(b)
  <2>1. CASE plan.deps[a] = {}
    BY <2>1 DEF Inputs
  <2>2. CASE plan.deps[a] # {}
    <3>1. PICK b \in plan.deps[a] : inputDelta[a] = Out(b) /\ Collected(b)
      BY <1>1, <2>2, InputIsRef DEF Inputs
    <3> QED
      BY <3>1, DependencyFacts DEF IInv, Uppers
  <2> QED
    BY <2>1, <2>2
<1>3. ASSUME NEW c \in Action, DMceEnds(c)
      PROVE  heap'[inputDelta[a]] = heap[inputDelta[a]]
  <2>1. ~ Collected(c)
    BY <1>3 DEF DMceEnds, MceEnds, Outputs
  <2>2. inputDelta[a] # Out(c)
    BY <1>2, <2>1, RefFacts
  <2> QED
    BY <1>1, <1>3, <2>2 DEF DMceEnds, DTypes
<1>4. ASSUME NEW c \in Action, DCollect(c)
      PROVE  heap'[inputDelta[a]] = heap[inputDelta[a]]
  <2> DEFINE us == IF Uppers(c) # {} THEN Uppers(c)
                   ELSE {mergedRoot} \ {NoAction}
  <2>1. Collect(c) /\ MergeResult(c, us)
    BY <1>4 DEF DCollect
  <2>2. /\ \A u \in Uppers(c) : state[u] = "IDLE" /\ ~ Collected(u)
        /\ mergedRoot # NoAction =>
             /\ mergedRoot \in Roots /\ mergedRoot \in Action
             /\ Target(mergedRoot) = Out(mergedRoot)
    BY <2>1, CollectFacts
  <2>3. us \in SUBSET Action
    BY <2>2 DEF Uppers
  <2>4. \A r \in Ref : heap'[r] # heap[r] =>
          \E u \in us : inputDelta[u] # NoDelta /\ r = Target(u)
    BY <2>1, <2>3, MergeResultFacts
  <2>5. ASSUME NEW u \in us, inputDelta[u] # NoDelta
        PROVE  Target(u) # inputDelta[a]
    <3>1. CASE Uppers(c) # {}
      <4>1. u \in Uppers(c) /\ u \in Action /\ c \in plan.deps[u]
        BY <3>1 DEF Uppers
      <4>2. state[u] = "IDLE" /\ Target(u) = inputDelta[u]
        BY <2>2, <4>1 DEF Target, Collected
      <4>3. u # a
        BY <4>1, <4>2 DEF Outputs
      <4>4. PICK b \in plan.deps[u] : inputDelta[u] = Out(b)
        BY <2>5, <4>1 DEF Inputs
      <4>5. b \in Action /\ u \in Uppers(b)
        BY <4>1, <4>4, DependencyFacts DEF IInv, Uppers
      <4> QED
        BY <1>2, <4>2, <4>3, <4>4, <4>5, RefFacts DEF Tree
    <3>2. CASE Uppers(c) = {}
      <4>1. u = mergedRoot /\ mergedRoot # NoAction
        BY <3>2
      <4>2. Uppers(u) = {} /\ u \in Action /\ Target(u) = Out(u)
        BY <2>2, <4>1 DEF Roots
      <4> QED
        BY <1>2, <4>2, RefFacts
    <3> QED
      BY <3>1, <3>2
  <2> QED
    BY <1>1, <2>4, <2>5
<1>5. ASSUME heap' = heap
      PROVE  heap'[inputDelta[a]] = heap[inputDelta[a]]
  BY <1>5
<1> QED
  BY <1>3, <1>4, <1>5 DEF DNext, DWorker, MceReads, dvars

\* In a tree, no MCE's input changes while the MCE is running.
THEOREM TreeInputsAreStable == DSpec => TreeInputsStable
<1>1. DInv /\ [DNext]_<<vars, dvars>> =>
        [Tree => \A a \in Action :
           (future[a] = "running" /\ future'[a] = "running") =>
              heap'[inputDelta[a]] = heap[inputDelta[a]]]_<<vars, dvars>>
  BY StableStep
<1> QED
  BY <1>1, DeltaInvariant, PTL DEF DSpec, TreeInputsStable

-----------------------------------------------------------------------------
(***************************************************************************)
(* The searches of the code (ActionSearch) find what Workflow says.        *)
(***************************************************************************)

\* A set of numbers has a least one.
LEMMA Minimum ==
  ASSUME NEW T \in SUBSET Nat, T # {}
  PROVE  \E x \in T : \A y \in T : x <= y
<1> DEFINE R == {ss \in Nat \X Nat : ss[1] < ss[2]}
<1>1. R = OpToRel(<, Nat)
  BY DEF OpToRel
<1>2. IsWellFoundedOn(R, Nat)
  BY <1>1, NatLessThanWellFounded
<1>3. \A x, y \in Nat : y < x => <<y, x>> \in R
  OBVIOUS
<1> HIDE DEF R
<1>4. PICK x \in T : \A y \in T : ~ (<<y, x>> \in R)
  BY <1>2, WFMin
<1>5. \A y \in T : y \in Nat /\ x \in Nat /\ ~ (y < x)
  BY <1>3, <1>4
<1> QED
  BY <1>5

\* Of the sets in a collection of finite sets one is smallest.
LEMMA Smallest ==
  ASSUME NEW C, C # {}, \A X \in C : IsFiniteSet(X)
  PROVE  \E X \in C : \A Y \in C : Cardinality(X) <= Cardinality(Y)
<1> DEFINE T == {Cardinality(X) : X \in C}
<1>1. \A X \in C : Cardinality(X) \in Nat
  BY FS_CardinalityType
<1>2. T \in SUBSET Nat /\ T # {}
  BY <1>1
<1>3. PICK n \in T : \A m \in T : n <= m
  BY <1>2, Minimum
<1> QED
  BY <1>3

\* Nodes L with successors D form a graph without cycles.
NoCycle(L, D) == \A S \in SUBSET L : S # {} => \E a \in S : D[a] \cap S = {}

\* A recursion whose value at a node depends on those at its successors.
Local(L, D, V, B) ==
  \A a \in L : \A h, k \in [L -> V] :
    (\A d \in D[a] : h[d] = k[d]) => B[<<a, h>>] = B[<<a, k>>]

Solution(L, V, B) == \E f \in [L -> V] : \A a \in L : f[a] = B[<<a, f>>]

\* Over a finite graph without cycles it has a solution: a largest set of
\* nodes on which it has one can be extended unless it is all of them.
LEMMA Recursion ==
  ASSUME NEW L, IsFiniteSet(L), NEW D \in [L -> SUBSET L], NoCycle(L, D),
         NEW V, NEW v \in V, NEW B \in [L \X [L -> V] -> V], Local(L, D, V, B)
  PROVE  Solution(L, V, B)
<1> USE DEF NoCycle, Local, Solution
<1> DEFINE Solves(f, S) == \A a \in S : D[a] \subseteq S /\ f[a] = B[<<a, f>>]
           C == {X \in SUBSET L : \E f \in [L -> V] : Solves(f, L \ X)}
<1>1. L \in C
  <2>1. [a \in L |-> v] \in [L -> V] /\ Solves([a \in L |-> v], L \ L)
    OBVIOUS
  <2> QED
    BY <2>1
<1>2. \A X \in C : IsFiniteSet(X)
  BY FS_Subset
<1>3. PICK X \in C : \A Y \in C : Cardinality(X) <= Cardinality(Y)
  <2> HIDE DEF C
  <2> QED
    BY <1>1, <1>2, Smallest
<1>4. PICK f \in [L -> V] : Solves(f, L \ X)
  OBVIOUS
<1>5. CASE X = {}
  BY <1>4, <1>5
<1>6. CASE X # {}
  <2>1. PICK a \in X : D[a] \cap X = {}
    BY <1>6
  <2> DEFINE h == [f EXCEPT ![a] = B[<<a, f>>]]
             Y == X \ {a}
  <2>2. a \in L /\ D[a] \subseteq L \ X /\ B[<<a, f>>] \in V
    BY <2>1
  <2>3. h \in [L -> V] /\ h[a] = B[<<a, f>>] /\ \A b \in L \ X : h[b] = f[b]
    BY <2>1, <2>2
  <2> HIDE DEF h
  <2>4. ASSUME NEW b \in L \ Y
        PROVE  D[b] \subseteq L \ Y /\ h[b] = B[<<b, h>>]
    <3>1. b \in L /\ D[b] \subseteq L \ X
      BY <1>4, <2>2
    <3>2. \A d \in D[b] : h[d] = f[d]
      BY <2>3, <3>1
    <3>3. B[<<b, h>>] = B[<<b, f>>]
      <4>1. \A k, l \in [L -> V] :
              (\A d \in D[b] : k[d] = l[d]) => B[<<b, k>>] = B[<<b, l>>]
        BY <3>1
      <4>2. h \in [L -> V] /\ f \in [L -> V]
        BY <2>3
      <4> HIDE DEF C, Solves, Y
      <4> QED
        BY ZenonT(30), <3>2, <4>1, <4>2
    <3>4. h[b] = B[<<b, f>>]
      BY <1>4, <2>3
    <3> QED
      BY <3>1, <3>3, <3>4
  <2>5. Y \in C
    BY <2>3, <2>4
  <2>6. Cardinality(Y) = Cardinality(X) - 1 /\ Cardinality(X) \in Nat
    BY <1>2, <2>1, FS_RemoveElement, FS_CardinalityType
  <2>7. Cardinality(X) <= Cardinality(Y)
    BY <1>3, <2>5
  <2> HIDE DEF C, Y
  <2> QED
    BY <2>6, <2>7
<1> QED
  BY <1>5, <1>6

\* Of any set of actions, one has no upper in the set.
LEMMA Uppermost ==
  ASSUME TypeOK, NEW T \in SUBSET plan.live, T # {}
  PROVE  \E m \in T : \A u \in T : m \notin plan.deps[u]
<1> DEFINE C == {X \in SUBSET T : X # {} /\ \A m \in X : \E u \in X : m \in plan.deps[u]}
<1> SUFFICES ASSUME T \in C PROVE FALSE
  OBVIOUS
<1>1. \A X \in C : IsFiniteSet(X)
  BY WorkflowAssumption, SearchAssumption, FS_Subset DEF TypeOK, PlanOK
<1>2. PICK X \in C : \A Y \in C : Cardinality(X) <= Cardinality(Y)
  <2> HIDE DEF C
  <2> QED
    BY <1>1, Smallest
<1>3. PICK a \in X : plan.deps[a] \cap X = {}
  BY WorkflowAssumption DEF TypeOK, PlanOK
<1>4. X \ {a} \in C
  <2>1. PICK u \in X : a \in plan.deps[u]
    BY <1>3
  <2>2. u \in X \ {a}
    BY <1>3, <2>1
  <2>3. \A m \in X \ {a} : \E w \in X \ {a} : m \in plan.deps[w]
    BY <1>3
  <2> QED
    BY <2>2, <2>3
<1>5. Cardinality(X \ {a}) = Cardinality(X) - 1 /\ Cardinality(X) \in Nat
  BY <1>1, <1>3, FS_RemoveElement, FS_CardinalityType
<1>6. Cardinality(X) <= Cardinality(X \ {a})
  BY <1>2, <1>4
<1> HIDE DEF C
<1> QED
  BY <1>5, <1>6

\* A loop over a list finds something if there is something to be found.
LEMMA FirstFacts ==
  ASSUME NEW ord \in Orders, NEW S \in SUBSET Action
  PROVE  IF S = {} THEN First(ord, S) = NoAction ELSE First(ord, S) \in S
<1> DEFINE n == Cardinality(Action)
           hits == {i \in DOMAIN ord : ord[i] \in S}
<1>1. n \in Nat /\ IsFiniteSet(Action) /\ Cardinality(1..n) = n
  BY SearchAssumption, FS_CardinalityType, FS_Interval
<1>2. ord \in [1..n -> Action] /\ \A i, j \in 1..n : i # j => ord[i] # ord[j]
  BY DEF Orders
<1> HIDE DEF n
<1>3. ord \in Injection(1..n, Action)
  BY <1>2 DEF Injection, IsInjective
<1>4. ord \in Surjection(1..n, Action)
  BY <1>1, <1>3, FS_Injection DEF n
<1>5. \A a \in Action : \E i \in 1..n : ord[i] = a
  BY <1>4 DEF Surjection
<1>6. DOMAIN ord = 1..n
  BY <1>2
<1>7. CASE S = {}
  BY <1>7 DEF First
<1>8. CASE S # {}
  <2>1. hits # {} /\ hits \in SUBSET Nat
    BY <1>1, <1>5, <1>6, <1>8
  <2> DEFINE i == CHOOSE x \in hits : \A j \in hits : x <= j
  <2>2. i \in hits
    <3> HIDE DEF hits
    <3> QED
      BY <2>1, Minimum
  <2>3. First(ord, S) = ord[i]
    BY <2>1 DEF First
  <2> QED
    BY <1>8, <2>2, <2>3
<1> QED
  BY <1>7, <1>8

\* What getIdleLeaf of action a returns when that of d returns f[d].
LeafAt(ord, f, a) ==
  LET via == First(ord, {d \in plan.deps[a] : f[d] # NoAction})
      hasChildInPending ==
        \E d \in plan.deps[a] : state[d] \in {"IDLE", "PROCESSING"}
  IN  IF via # NoAction THEN f[via]
      ELSE IF state[a] = "IDLE" /\ ~ hasChildInPending THEN a
      ELSE NoAction

\* The reachable actions are a finite graph without cycles.
LEMMA PlanFacts ==
  ASSUME TypeOK
  PROVE  /\ plan.live \subseteq Action /\ IsFiniteSet(plan.live)
         /\ \A a \in Action : plan.deps[a] \subseteq plan.live
         /\ NoAction \notin Action
         /\ \A S \in SUBSET plan.live :
              S # {} => \E a \in S : plan.deps[a] \cap S = {}
         /\ \A a \in plan.live : Uppers(a) # {} =>
              \E u \in plan.live : a \in plan.deps[u]
  BY WorkflowAssumption, SearchAssumption, FS_Subset DEF TypeOK, PlanOK, Uppers

\* getIdleLeaf is what its recursion says: the workflow has no cycle.
LEMMA LeafEquation ==
  ASSUME TypeOK, NEW ord \in Orders
  PROVE  \A a \in plan.live :
           GetIdleLeaf(ord)[a] = LeafAt(ord, GetIdleLeaf(ord), a)
<1> DEFINE L == plan.live
           D == [a \in L |-> plan.deps[a]]
           V == Action \cup {NoAction}
           B == [x \in L \X [L -> V] |-> LeafAt(ord, x[2], x[1])]
           F(h) == [a \in L |-> LeafAt(ord, h, a)]
           f == CHOOSE h : h = F(h)
<1>1. /\ L \subseteq Action /\ IsFiniteSet(L) /\ D \in [L -> SUBSET L]
      /\ \A S \in SUBSET L : S # {} => \E a \in S : D[a] \cap S = {}
      /\ \A a \in L : D[a] = plan.deps[a] /\ D[a] \subseteq Action
      /\ NoAction \in V
  BY PlanFacts
<1>2. ASSUME NEW a \in L, NEW h \in [L -> V]
      PROVE  LeafAt(ord, h, a) \in V
  <2> DEFINE S == {d \in plan.deps[a] : h[d] # NoAction}
  <2>1. S \in SUBSET Action /\ S \subseteq L
    BY <1>1
  <2>2. First(ord, S) # NoAction => First(ord, S) \in L
    BY <2>1, FirstFacts
  <2> QED
    BY <1>1, <2>2 DEF LeafAt
<1>3. ASSUME NEW a \in L, NEW h \in [L -> V], NEW k \in [L -> V],
             \A d \in D[a] : h[d] = k[d]
      PROVE  LeafAt(ord, h, a) = LeafAt(ord, k, a)
  <2> DEFINE S == {d \in plan.deps[a] : h[d] # NoAction}
             T == {d \in plan.deps[a] : k[d] # NoAction}
  <2>1. S = T /\ S \in SUBSET Action /\ S \subseteq D[a]
    BY <1>1, <1>3
  <2>2. First(ord, S) # NoAction => h[First(ord, S)] = k[First(ord, S)]
    BY <1>3, <2>1, FirstFacts
  <2> QED
    BY <2>1, <2>2 DEF LeafAt
<1>4. PICK h \in [L -> V] : \A a \in L : h[a] = LeafAt(ord, h, a)
  <2>1. \A a \in L : \A h \in [L -> V] : B[<<a, h>>] = LeafAt(ord, h, a)
    OBVIOUS
  <2>2. B \in [L \X [L -> V] -> V]
    <3>1. \A x \in L \X [L -> V] : LeafAt(ord, x[2], x[1]) \in V
      BY <1>2
    <3> QED
      BY <3>1
  <2>3. Local(L, D, V, B)
    BY <1>3, <2>1 DEF Local
  <2> HIDE DEF B, D, V, L
  <2>4. NoCycle(L, D)
    BY <1>1 DEF NoCycle
  <2>5. Solution(L, V, B)
    BY <1>1, <2>2, <2>3, <2>4, Recursion
  <2> QED
    BY <2>1, <2>5 DEF Solution
<1>5. h = F(h)
  BY <1>4
<1>6. f = F(f)
  BY <1>5
<1>7. GetIdleLeaf(ord) = f
  BY DEF GetIdleLeaf, LeafAt
<1> HIDE DEF f
<1> QED
  BY <1>6, <1>7

\* What getIdleLeaf returns is an idle leaf; it returns null only if neither
\* the action nor any it depends on gives one.
LEMMA LeafFacts ==
  ASSUME TypeOK, NEW ord \in Orders, NEW f, f = GetIdleLeaf(ord)
  PROVE  \A a \in plan.live :
           /\ f[a] # NoAction => f[a] \in IdleLeaves
           /\ a \in IdleLeaves => f[a] # NoAction
           /\ \A d \in plan.deps[a] : f[d] # NoAction => f[a] # NoAction
<1> DEFINE Hits(a) == {d \in plan.deps[a] : f[d] # NoAction}
<1>1. ASSUME NEW a \in plan.live
      PROVE  /\ a \in Action /\ a # NoAction /\ plan.deps[a] \subseteq plan.live
             /\ Hits(a) # {} => \E via \in Hits(a) : f[a] = f[via]
             /\ Hits(a) = {} =>
                  f[a] = IF a \in IdleLeaves THEN a ELSE NoAction
  <2>1. /\ a \in Action /\ plan.deps[a] \subseteq plan.live
        /\ plan.deps[a] \subseteq Action /\ NoAction \notin Action
    BY PlanFacts
  <2>2. f[a] = LeafAt(ord, f, a)
    BY LeafEquation
  <2>3. Hits(a) \in SUBSET Action
    BY <2>1
  <2>4. CASE Hits(a) # {}
    <3>1. First(ord, Hits(a)) \in Hits(a)
      BY <2>3, <2>4, FirstFacts
    <3>2. First(ord, Hits(a)) # NoAction
      BY <2>1, <3>1
    <3>3. f[a] = f[First(ord, Hits(a))]
      BY <2>2, <3>2 DEF LeafAt
    <3> QED
      BY <2>1, <2>4, <3>1, <3>3
  <2>5. CASE Hits(a) = {}
    <3>1. First(ord, Hits(a)) = NoAction
      BY <2>3, <2>5, FirstFacts
    <3>2. f[a] = IF a \in IdleLeaves THEN a ELSE NoAction
      BY <2>2, <3>1 DEF LeafAt, IdleLeaves
    <3> QED
      BY <2>1, <2>5, <3>2
  <2> QED
    BY <2>4, <2>5
<1>2. \A a \in plan.live : f[a] # NoAction => f[a] \in IdleLeaves
  <2> DEFINE S == {a \in plan.live : f[a] # NoAction /\ f[a] \notin IdleLeaves}
  <2> SUFFICES ASSUME S # {} PROVE FALSE
    OBVIOUS
  <2>1. PICK a \in S : plan.deps[a] \cap S = {}
    BY PlanFacts
  <2>2. CASE Hits(a) # {}
    BY <1>1, <2>1, <2>2
  <2>3. CASE Hits(a) = {}
    BY <1>1, <2>1, <2>3
  <2> QED
    BY <2>2, <2>3
<1>3. ASSUME NEW a \in plan.live, Hits(a) # {}
      PROVE  f[a] # NoAction
  BY <1>1, <1>3
<1>4. ASSUME NEW a \in plan.live, a \in IdleLeaves
      PROVE  f[a] # NoAction
  BY <1>1, <1>3, <1>4
<1> QED
  BY <1>2, <1>3, <1>4

\* lookupIdleLeafAction finds an idle leaf whenever there is one: the
\* uppermost action below which one is found is a root.
LEMMA LookupFinds ==
  ASSUME TypeOK, NEW ord \in Orders
  PROVE  IF IdleLeaves = {} THEN LookupIdleLeafAction(ord) = NoAction
         ELSE LookupIdleLeafAction(ord) \in IdleLeaves
<1> DEFINE f == GetIdleLeaf(ord)
           Hits == {r \in Roots : f[r] # NoAction}
<1>1. \A a \in plan.live :
        /\ f[a] # NoAction => f[a] \in IdleLeaves
        /\ a \in IdleLeaves => f[a] # NoAction
        /\ \A d \in plan.deps[a] : f[d] # NoAction => f[a] # NoAction
  BY LeafFacts
<1> HIDE DEF f
<1>2. /\ Roots \subseteq plan.live /\ plan.live \subseteq Action
      /\ NoAction \notin Action /\ IdleLeaves \subseteq plan.live
  BY PlanFacts DEF Roots, IdleLeaves
<1>3. Hits \in SUBSET Action
  BY <1>2
<1>4. LookupIdleLeafAction(ord) =
        IF First(ord, Hits) = NoAction THEN NoAction ELSE f[First(ord, Hits)]
  BY DEF LookupIdleLeafAction, f
<1>5. CASE Hits = {}
  <2>1. LookupIdleLeafAction(ord) = NoAction
    BY <1>3, <1>4, <1>5, FirstFacts
  <2>2. IdleLeaves = {}
    <3> SUFFICES ASSUME IdleLeaves # {} PROVE FALSE
      OBVIOUS
    <3> DEFINE T == {a \in plan.live : f[a] # NoAction}
    <3>1. T # {} /\ T \in SUBSET plan.live
      BY <1>1, <1>2
    <3>2. PICK m \in T : \A u \in T : m \notin plan.deps[u]
      BY <3>1, Uppermost
    <3>3. \A u \in plan.live : m \notin plan.deps[u]
      BY <1>1, <3>2
    <3>4. m \in Roots
      BY <3>3, PlanFacts DEF Roots
    <3> QED
      BY <1>5, <3>4
  <2> QED
    BY <2>1, <2>2
<1>6. CASE Hits # {}
  <2>1. First(ord, Hits) \in Hits
    BY <1>3, <1>6, FirstFacts
  <2>2. First(ord, Hits) # NoAction
    BY <1>3, <2>1, <1>2
  <2>3. LookupIdleLeafAction(ord) \in IdleLeaves
    BY <1>1, <1>2, <1>4, <2>1, <2>2
  <2> QED
    BY <2>3
<1> QED
  BY <1>5, <1>6

\* What action d adds to the list of an action that depends on it, when
\* getIndependentIdleLeaves of d returns f[d].
AddedBy(f, d) ==
  IF f[d] # NullList THEN f[d]
  ELSE IF /\ state[d] = "IDLE"
          /\ \A e \in plan.deps[d] : state[e] = "MERGED"
       THEN {d}
  ELSE {}

\* getIndependentIdleLeaves(n) of action a is null without looking further.
IsNull(n, a) == a = n \/ plan.deps[a] \subseteq {n}

LeavesAt(n, f, a) ==
  IF IsNull(n, a) THEN NullList
  ELSE UNION {AddedBy(f, d) : d \in plan.deps[a] \ {n}}

\* getIndependentIdleLeaves is what its recursion says.
LEMMA LeavesEquation ==
  ASSUME TypeOK, NEW n
  PROVE  \A a \in plan.live :
           GetIndependentIdleLeaves(n)[a] = LeavesAt(n, GetIndependentIdleLeaves(n), a)
<1> DEFINE L == plan.live
           D == [a \in L |-> plan.deps[a]]
           V == SUBSET (Action \cup {NoAction})
           B == [x \in L \X [L -> V] |-> LeavesAt(n, x[2], x[1])]
           F(h) == [a \in L |-> LeavesAt(n, h, a)]
           f == CHOOSE h : h = F(h)
<1>1. /\ L \subseteq Action /\ IsFiniteSet(L) /\ D \in [L -> SUBSET L]
      /\ \A S \in SUBSET L : S # {} => \E a \in S : D[a] \cap S = {}
      /\ \A a \in L : D[a] = plan.deps[a] /\ D[a] \subseteq L
      /\ NullList \in V
  BY PlanFacts DEF NullList
<1>2. ASSUME NEW a \in L, NEW h \in [L -> V]
      PROVE  LeavesAt(n, h, a) \in V
  <2>1. \A d \in plan.deps[a] : AddedBy(h, d) \subseteq Action \cup {NoAction}
    BY <1>1 DEF AddedBy
  <2>2. UNION {AddedBy(h, d) : d \in plan.deps[a] \ {n}} \subseteq Action \cup {NoAction}
    BY <2>1
  <2> QED
    BY <1>1, <2>2 DEF LeavesAt
<1>3. ASSUME NEW a \in L, NEW h \in [L -> V], NEW k \in [L -> V],
             \A d \in D[a] : h[d] = k[d]
      PROVE  LeavesAt(n, h, a) = LeavesAt(n, k, a)
  <2>1. \A d \in plan.deps[a] : AddedBy(h, d) = AddedBy(k, d)
    BY <1>1, <1>3 DEF AddedBy
  <2>2. UNION {AddedBy(h, d) : d \in plan.deps[a] \ {n}}
          = UNION {AddedBy(k, d) : d \in plan.deps[a] \ {n}}
    BY <2>1
  <2> QED
    BY <2>2 DEF LeavesAt
<1>4. PICK h \in [L -> V] : \A a \in L : h[a] = LeavesAt(n, h, a)
  <2>1. \A a \in L : \A h \in [L -> V] : B[<<a, h>>] = LeavesAt(n, h, a)
    OBVIOUS
  <2>2. B \in [L \X [L -> V] -> V]
    <3>1. \A x \in L \X [L -> V] : LeavesAt(n, x[2], x[1]) \in V
      BY <1>2
    <3> QED
      BY <3>1
  <2>3. Local(L, D, V, B)
    BY <1>3, <2>1 DEF Local
  <2> HIDE DEF B, D, V, L
  <2>4. NoCycle(L, D)
    BY <1>1 DEF NoCycle
  <2>5. Solution(L, V, B)
    BY <1>1, <2>2, <2>3, <2>4, Recursion
  <2> QED
    BY <2>1, <2>5 DEF Solution
<1>5. h = F(h)
  BY <1>4
<1>6. f = F(f)
  BY <1>5
<1>7. GetIndependentIdleLeaves(n) = f
  BY DEF GetIndependentIdleLeaves, LeavesAt, AddedBy, IsNull
<1> HIDE DEF f
<1> QED
  BY <1>6, <1>7

\* The actions that depend on nothing and have not been started, but roots.
FreeActions == {a \in plan.live \ Roots : state[a] = "IDLE" /\ plan.deps[a] = {}}

\* Only they are found; and they are passed on to whoever depends on the
\* action that found them, unless that is n.
LEMMA LeavesFacts ==
  ASSUME TypeOK, NEW n \in Action, state[n] = "IDLE",
         NEW f, f = GetIndependentIdleLeaves(n), NEW a \in plan.live
  PROVE  /\ IsNull(n, a) => f[a] = NullList
         /\ ~ IsNull(n, a) =>
              /\ f[a] \subseteq FreeActions
              /\ \A d \in plan.deps[a] \ {n} :
                   IF IsNull(n, d) THEN d \in FreeActions => d \in f[a]
                   ELSE f[d] \subseteq f[a]
              /\ \A x \in f[a] : \E d \in plan.deps[a] \ {n} :
                   IF IsNull(n, d) THEN x = d ELSE x \in f[d]
<1>1. \A b \in plan.live : f[b] = LeavesAt(n, f, b)
  BY LeavesEquation
<1>2. /\ plan.live \subseteq Action /\ NoAction \notin Action
      /\ \A b \in plan.live : plan.deps[b] \subseteq plan.live
  BY PlanFacts
<1>3. NoAction \notin FreeActions
  BY <1>2 DEF FreeActions
<1>4. \A b \in plan.live :
        /\ IsNull(n, b) => f[b] = NullList
        /\ ~ IsNull(n, b) => f[b] = UNION {AddedBy(f, d) : d \in plan.deps[b] \ {n}}
  BY <1>1 DEF LeavesAt
<1>5. ASSUME NEW b \in plan.live, NEW d \in plan.deps[b] \ {n}, IsNull(n, d)
      PROVE  /\ AddedBy(f, d) \subseteq {d} \cap FreeActions
             /\ d \in FreeActions => d \in AddedBy(f, d)
  <2>1. d \in plan.live /\ d \in Action /\ f[d] = NullList
    BY <1>2, <1>4, <1>5
  <2>2. d \notin Roots
    BY <1>2 DEF Roots, Uppers
  <2>3. (\A e \in plan.deps[d] : state[e] = "MERGED") => plan.deps[d] = {}
    BY <1>5 DEF IsNull
  <2> QED
    BY <2>1, <2>2, <2>3 DEF AddedBy, FreeActions
<1>6. \A b \in plan.live : ~ IsNull(n, b) => f[b] \subseteq FreeActions
  <2> DEFINE S == {b \in plan.live : ~ IsNull(n, b) /\ ~ (f[b] \subseteq FreeActions)}
  <2> SUFFICES ASSUME S # {} PROVE FALSE
    OBVIOUS
  <2>1. PICK b \in S : plan.deps[b] \cap S = {}
    BY PlanFacts
  <2>2. ASSUME NEW d \in plan.deps[b] \ {n} PROVE AddedBy(f, d) \subseteq FreeActions
    <3>1. CASE IsNull(n, d)
      BY <1>5, <3>1
    <3>2. CASE ~ IsNull(n, d)
      <4>1. f[d] \subseteq FreeActions
        BY <1>2, <2>1, <3>2
      <4> QED
        BY <1>3, <4>1 DEF AddedBy, NullList
    <3> QED
      BY <3>1, <3>2
  <2>3. f[b] = UNION {AddedBy(f, d) : d \in plan.deps[b] \ {n}}
    BY <1>4
  <2>4. f[b] \subseteq FreeActions
    BY <2>2, <2>3
  <2> QED
    BY <2>4
<1>7. \A d \in plan.live : ~ IsNull(n, d) => AddedBy(f, d) = f[d]
  BY <1>3, <1>6 DEF AddedBy, NullList
<1>8. ASSUME ~ IsNull(n, a)
      PROVE  /\ \A d \in plan.deps[a] \ {n} :
                  IF IsNull(n, d) THEN d \in FreeActions => d \in f[a]
                  ELSE f[d] \subseteq f[a]
             /\ \A x \in f[a] : \E d \in plan.deps[a] \ {n} :
                  IF IsNull(n, d) THEN x = d ELSE x \in f[d]
  <2>1. f[a] = UNION {AddedBy(f, d) : d \in plan.deps[a] \ {n}}
    BY <1>4, <1>8
  <2>2. ASSUME NEW d \in plan.deps[a] \ {n}
        PROVE  /\ AddedBy(f, d) \subseteq f[a]
               /\ IsNull(n, d) => /\ AddedBy(f, d) \subseteq {d}
                                  /\ d \in FreeActions => d \in AddedBy(f, d)
               /\ ~ IsNull(n, d) => AddedBy(f, d) = f[d]
    BY <1>2, <1>5, <1>7, <2>1
  <2> QED
    BY <2>1, <2>2
<1> QED
  BY <1>4, <1>6, <1>8

\* lookupIndependentActions returns just the actions Workflow takes: below
\* an idle leaf n everything is merged, so that what is passed on reaches a
\* root without passing n.
LEMMA LookupTakes ==
  ASSUME TypeOK, DependencyOrder, EndStates, pc \in Running, NEW n \in IdleLeaves
  PROVE  LookupIndependentActions(n) = IndependentActions(n)
<1> DEFINE f == GetIndependentIdleLeaves(n)
<1>1. /\ n \in plan.live /\ n \in Action /\ state[n] = "IDLE"
      /\ \A d \in plan.deps[n] : state[d] = "MERGED"
  BY IdleLeafIsReady
<1>2. /\ plan.live \subseteq Action /\ NoAction \notin Action
      /\ Roots \subseteq plan.live
      /\ \A b \in plan.live : plan.deps[b] \subseteq plan.live
      /\ \A b \in plan.live : b \notin Roots => \E u \in plan.live : b \in plan.deps[u]
  BY PlanFacts DEF Roots
<1>3. \A a \in plan.live :
        /\ IsNull(n, a) => f[a] = NullList
        /\ ~ IsNull(n, a) =>
             /\ f[a] \subseteq FreeActions
             /\ \A d \in plan.deps[a] \ {n} :
                  IF IsNull(n, d) THEN d \in FreeActions => d \in f[a]
                  ELSE f[d] \subseteq f[a]
             /\ \A x \in f[a] : \E d \in plan.deps[a] \ {n} :
                  IF IsNull(n, d) THEN x = d ELSE x \in f[d]
  BY <1>1, LeavesFacts
<1>4. LookupIndependentActions(n) = {n} \cup ((UNION {f[r] : r \in Roots}) \ NullList)
  BY DEF LookupIndependentActions
<1>5. IndependentActions(n) = {n} \cup FreeActions
  BY DEF IndependentActions, FreeActions
<1> HIDE DEF f
<1>6. ASSUME NEW r \in Roots, NEW x \in f[r], x \notin NullList
      PROVE  x \in FreeActions
  BY <1>2, <1>3, <1>6
<1>7. ASSUME NEW x \in FreeActions, x # n
      PROVE  \E r \in Roots : x \in f[r] /\ x \notin NullList
  <2> DEFINE T == {u \in plan.live : ~ IsNull(n, u) /\ x \in f[u]}
  <2>1. /\ x \in plan.live /\ x \notin Roots /\ state[x] = "IDLE"
        /\ x \notin NullList /\ IsNull(n, x)
    BY <1>2 DEF FreeActions, NullList, IsNull
  <2>2. PICK u \in plan.live : x \in plan.deps[u]
    BY <1>2, <2>1
  <2>3. u # n /\ ~ IsNull(n, u)
    BY <1>1, <1>7, <2>1, <2>2 DEF IsNull
  <2>4. u \in T
    BY <1>3, <1>7, <2>1, <2>2, <2>3
  <2>5. PICK m \in T : \A v \in T : m \notin plan.deps[v]
    <3>1. T \in SUBSET plan.live /\ T # {}
      BY <2>4
    <3> HIDE DEF T
    <3> QED
      BY <3>1, Uppermost
  <2>6. m \in Roots
    <3> SUFFICES ASSUME m \notin Roots PROVE FALSE
      OBVIOUS
    <3>1. PICK v \in plan.live : m \in plan.deps[v]
      BY <1>2
    <3>2. m # n
      BY DEF IsNull
    <3>3. v = n
      <4> SUFFICES ASSUME v # n PROVE FALSE
        OBVIOUS
      <4>1. ~ IsNull(n, v)
        BY <3>1, <3>2 DEF IsNull
      <4>2. x \in f[v]
        BY <1>3, <3>1, <3>2, <4>1
      <4>3. v \in T
        BY <4>1, <4>2
      <4> QED
        BY <2>5, <3>1, <4>3
    <3> DEFINE S == {w \in T : state[w] = "MERGED"}
    <3>4. S # {} /\ S \in SUBSET plan.live
      BY <1>1, <3>1, <3>3
    <3>5. PICK w \in S : plan.deps[w] \cap S = {}
      BY <3>4, PlanFacts
    <3>6. \A d \in plan.deps[w] : state[d] = "MERGED" /\ d \in plan.live
      BY <1>2, <3>5 DEF DependencyOrder
    <3>7. PICK d \in plan.deps[w] \ {n} :
            IF IsNull(n, d) THEN x = d ELSE x \in f[d]
      BY <1>3
    <3>8. ~ IsNull(n, d) /\ x \in f[d]
      BY <2>1, <3>6, <3>7
    <3>9. d \in S
      BY <3>6, <3>7, <3>8
    <3> QED
      BY <3>5, <3>7, <3>9
  <2> QED
    BY <2>1, <2>6
<1>8. (UNION {f[r] : r \in Roots}) \ NullList \subseteq FreeActions
  BY <1>6
<1>9. \A x \in FreeActions : x # n => x \in (UNION {f[r] : r \in Roots}) \ NullList
  BY <1>7
<1> QED
  BY <1>4, <1>5, <1>8, <1>9

\* What the invariant says when the worker looks for work.
LEMMA SearchFacts == IInv => SearchAgrees
<1> SUFFICES ASSUME IInv, (pc = "sweep" /\ sweep = {}) \/ (pc = "launch" /\ elapsed = 0)
             PROVE  /\ \A ord \in Orders :
                         IF IdleLeaves = {} THEN LookupIdleLeafAction(ord) = NoAction
                         ELSE LookupIdleLeafAction(ord) \in IdleLeaves
                    /\ \A n \in IdleLeaves :
                         LookupIndependentActions(n) = IndependentActions(n)
  BY DEF SearchAgrees
<1>1. TypeOK /\ DependencyOrder /\ EndStates /\ pc \in Running
  BY DEF IInv
<1> QED
  BY <1>1, LookupFinds, LookupTakes

\* The sets in which Workflow looks for work stand for the two recursive
\* searches of the code: for every finite workflow, in whatever order its
\* lists are, the worker finds an idle leaf if there is one, and takes with it
\* just the actions of IndependentActions.
THEOREM SearchesAgree == Spec => []SearchAgrees
  BY Invariance, SearchFacts, PTL
=============================================================================
