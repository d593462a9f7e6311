------------------------- MODULE DriverCommitProofs -------------------------
(***************************************************************************)
(* Proofs about module DriverCommit for any number of driver deltas and    *)
(* any limits.                                                             *)
(***************************************************************************)
EXTENDS DriverCommit, TLAPS

\* Half minutes the system has slept, and a driver has slept.
Elapsed == 2 * minute - sysWait
Slept(d) == Limit(d) - polls[d] - wait[d]

\* Where the system's loop stands with its counters.
Counters ==
  /\ sys = "dispatch" => minute = 0 /\ sysWait = 0
  /\ sys = "poll" => minute < SysPolls /\ sysWait = 0
  /\ sys \notin {"dispatch", "failed"} => todo = {}
  /\ sys = "dispatch" => todo \cap Dispatched = {}

\* What a driver has done tells what the remote and its polls were.
DriverKnows ==
  \A d \in Dsd :
    /\ dsd[d] \in {"none", "queued", "put"} => polls[d] = Limit(d)
    /\ dsd[d] # "asleep" => wait[d] = 0
    /\ dsd[d] = "none" => called[d] = 0
    /\ dsd[d] \in {"asleep", "get", "delete", "done"} =>
          remote[d] # "propagated"
    /\ dsd[d] \in {"delete", "done"} =>
          remote[d] = "committed" \/ polls[d] = 0

\* The clock of a driver that has not ended is the system's.
Clock ==
  sys \notin Ended =>
    \A d \in Dispatched :
       dsd[d] \notin Settled => called[d] + Slept(d) = Elapsed

\* A driver that had not ended at the system's last look was slow by then.
LastLook ==
  (sys = "timed_out" \/ (sys = "sleep" /\ minute = SysPolls)) =>
    \E d \in Dispatched : called[d] + Slept(d) >= 2 * (SysPolls - 1)

AllDone == sys = "success" => \A d \in Dispatched : dsd[d] = "done"

IInv == CommitTypeOK /\ Counters /\ DriverKnows /\ Clock /\ LastLook /\ AllDone

-----------------------------------------------------------------------------
LEMMA LimitType == \A d \in Dsd : Limit(d) \in Nat \ {0}
  BY DriverCommitAssumption DEF Limit

USE DEF Waiting, Settled, Ended

LEMMA InitInv == Init => IInv
<1> SUFFICES ASSUME Init PROVE IInv
  OBVIOUS
<1> USE DriverCommitAssumption, LimitType
<1>1. CommitTypeOK
  BY DEF Init, CommitTypeOK
<1>2. Counters /\ DriverKnows
  BY DEF Init, Counters, DriverKnows, Dispatched
<1>3. Clock /\ LastLook /\ AllDone
  BY DEF Init, Clock, LastLook, AllDone, Dispatched
<1> QED
  BY <1>1, <1>2, <1>3 DEF IInv

\* The types are kept; the polls of a driver never get negative.
LEMMA NextType ==
  ASSUME IInv, [Next]_vars
  PROVE  CommitTypeOK'
<1> USE DriverCommitAssumption, LimitType DEF IInv, CommitTypeOK
<1>1. ASSUME NEW d \in Dsd, Dispatch(d) PROVE CommitTypeOK'
  BY <1>1 DEF Dispatch
<1>2. CASE DispatchFails \/ AllDispatched \/ SeesFailure \/ SeesSuccess
  BY <1>2 DEF DispatchFails, AllDispatched, SeesFailure, SeesSuccess,
              driverVars
<1>3. CASE SeesPending
  BY <1>3 DEF SeesPending, driverVars, Counters
<1>4. CASE SysWakes
  BY <1>4 DEF SysWakes, driverVars
<1>5. ASSUME NEW d \in Dsd,
             Start(d) \/ CallFails(d) \/ Wakes(d) \/ HasFailed(d) \/ IsDeleted(d)
      PROVE  CommitTypeOK'
  BY <1>5 DEF Start, CallFails, Wakes, HasFailed, IsDeleted, sysVars
<1>6. ASSUME NEW d \in Dsd, PutAccepted(d) PROVE CommitTypeOK'
  BY <1>6 DEF PutAccepted, Sleeps, sysVars, DriverKnows
<1>7. ASSUME NEW d \in Dsd, StillCommitting(d) PROVE CommitTypeOK'
  BY <1>7 DEF StillCommitting, Sleeps, AfterPolling, sysVars
<1>8. ASSUME NEW d \in Dsd, IsCommitted(d) PROVE CommitTypeOK'
  BY <1>8 DEF IsCommitted, AfterPolling, sysVars
<1>9. ASSUME NEW d \in Dsd, RemoteAccepts(d) \/ RemoteEnds(d)
      PROVE  CommitTypeOK'
  BY <1>9 DEF RemoteAccepts, RemoteEnds, sysVars, driverVars
<1>10. CASE Tick
  BY <1>10 DEF Tick, Asleep
<1>11. CASE UNCHANGED vars
  BY <1>11 DEF vars, sysVars, driverVars
<1> QED
  BY <1>1, <1>2, <1>3, <1>4, <1>5, <1>6, <1>7, <1>8, <1>9, <1>10, <1>11
     DEF Next, System, Driver

\* The steps of the system's thread.
LEMMA SystemStep ==
  ASSUME IInv, System, CommitTypeOK'
  PROVE  (Counters /\ DriverKnows /\ Clock /\ LastLook /\ AllDone)'
<1> USE DriverCommitAssumption, LimitType
        DEF IInv, CommitTypeOK, Counters, DriverKnows, Clock, LastLook, AllDone,
            Dispatched, Slept, Elapsed
<1> DEFINE Goal == (Counters /\ DriverKnows /\ Clock /\ LastLook /\ AllDone)'
<1>1. ASSUME NEW d \in Dsd, Dispatch(d) PROVE Goal
  BY <1>1 DEF Dispatch, Limit
<1>2. CASE DispatchFails \/ AllDispatched
  BY <1>2 DEF DispatchFails, AllDispatched, driverVars, Limit
<1>3. CASE SeesFailure \/ SeesSuccess
  BY <1>3 DEF SeesFailure, SeesSuccess, driverVars, Limit
<1>4. CASE SeesPending
  <2>1. /\ Counters' /\ DriverKnows' /\ AllDone' /\ Clock'
    BY <1>4 DEF SeesPending, driverVars, Limit
  <2>2. LastLook'
    BY <1>4 DEF SeesPending, driverVars, Limit
  <2> QED
    BY <2>1, <2>2
<1>5. CASE SysWakes
  BY <1>5 DEF SysWakes, driverVars, Limit
<1> QED
  BY <1>1, <1>2, <1>3, <1>4, <1>5 DEF System

\* The steps of one driver.
LEMMA DriverStep ==
  ASSUME IInv, CommitTypeOK', NEW d \in Dsd, Driver(d)
  PROVE  (Counters /\ DriverKnows /\ Clock /\ LastLook /\ AllDone)'
<1> USE DriverCommitAssumption, LimitType
        DEF IInv, CommitTypeOK, Counters, DriverKnows, Clock, LastLook, AllDone,
            Dispatched, Slept, Elapsed
<1> DEFINE Goal == (Counters /\ DriverKnows /\ Clock /\ LastLook /\ AllDone)'
<1>1. CASE Start(d)
  BY <1>1 DEF Start, sysVars, Limit
<1>2. CASE PutAccepted(d)
  <2>1. Counters' /\ DriverKnows' /\ AllDone'
    BY <1>2 DEF PutAccepted, Sleeps, sysVars, Limit
  <2>2. \A c \in Dsd : Slept(c)' = Slept(c)
    BY <1>2 DEF PutAccepted, Sleeps, sysVars, Limit
  <2>3. /\ Dispatched' = Dispatched
        /\ \A c \in Dsd : dsd'[c] \notin Settled => dsd[c] \notin Settled
    BY <1>2 DEF PutAccepted, Sleeps
  <2>4. Clock' /\ LastLook'
    <3> HIDE DEF Slept, Dispatched
    <3> QED
      BY <1>2, <2>2, <2>3 DEF PutAccepted, sysVars, Dispatched
  <2> QED
    BY <2>1, <2>4
<1>3. CASE CallFails(d)
  BY <1>3 DEF CallFails, sysVars, Limit
<1>4. CASE Wakes(d)
  BY <1>4 DEF Wakes, sysVars, Limit
<1>5. CASE StillCommitting(d)
  <2>1. CASE polls[d] > 0
    BY <1>5, <2>1 DEF StillCommitting, Sleeps, sysVars, Limit
  <2>2. CASE ~ (polls[d] > 0)
    BY <1>5, <2>2 DEF StillCommitting, AfterPolling, sysVars, Limit
  <2> QED
    BY <2>1, <2>2
<1>6. CASE IsCommitted(d)
  BY <1>6 DEF IsCommitted, AfterPolling, sysVars, Limit
<1>7. CASE HasFailed(d)
  BY <1>7 DEF HasFailed, sysVars, Limit
<1>8. CASE IsDeleted(d)
  BY <1>8 DEF IsDeleted, sysVars, Limit
<1> QED
  BY <1>1, <1>2, <1>3, <1>4, <1>5, <1>6, <1>7, <1>8 DEF Driver

\* The remotes' steps, and the passing of time.
LEMMA OtherStep ==
  ASSUME IInv, CommitTypeOK',
         \/ \E d \in Dsd : RemoteAccepts(d) \/ RemoteEnds(d)
         \/ Tick
         \/ UNCHANGED vars
  PROVE  (Counters /\ DriverKnows /\ Clock /\ LastLook /\ AllDone)'
<1> USE DriverCommitAssumption, LimitType
        DEF IInv, CommitTypeOK, Counters, DriverKnows, Clock, LastLook, AllDone,
            Dispatched, Slept, Elapsed
<1> DEFINE Goal == (Counters /\ DriverKnows /\ Clock /\ LastLook /\ AllDone)'
<1>1. ASSUME NEW d \in Dsd, RemoteAccepts(d) \/ RemoteEnds(d) PROVE Goal
  BY <1>1 DEF RemoteAccepts, RemoteEnds, sysVars, driverVars, Limit
<1>2. CASE Tick
  <2>1. Counters' /\ DriverKnows' /\ AllDone'
    BY <1>2 DEF Tick, Asleep, Limit
  <2>2. Clock'
    BY <1>2 DEF Tick, Asleep, Limit
  <2>3. LastLook'
    BY <1>2 DEF Tick, Asleep, Limit
  <2> QED
    BY <2>1, <2>2, <2>3
<1>3. CASE UNCHANGED vars
  BY <1>3 DEF vars, sysVars, driverVars, Limit
<1> QED
  BY <1>1, <1>2, <1>3

LEMMA NextInv == IInv /\ [Next]_vars => IInv'
<1> SUFFICES ASSUME IInv, [Next]_vars PROVE IInv'
  OBVIOUS
<1>1. CommitTypeOK'
  BY NextType
<1>2. (Counters /\ DriverKnows /\ Clock /\ LastLook /\ AllDone)'
  BY <1>1, SystemStep, DriverStep, OtherStep DEF Next
<1> QED
  BY <1>1, <1>2 DEF IInv

LEMMA Invariance == Spec => []IInv
  BY InitInv, NextInv, PTL DEF Spec

-----------------------------------------------------------------------------
\* commitDelta of the system and of the drivers keep their types and limits.
THEOREM CommitTypeCorrect == Spec => []CommitTypeOK
<1>1. IInv => CommitTypeOK
  BY DEF IInv
<1> QED
  BY <1>1, Invariance, PTL

\* HandleSystemCall.commitDelta reports a success only if every driver has
\* ended well: its remote has committed, or its polls were used up.
THEOREM SuccessesAreEarned == Spec => []SuccessIsEarned
<1>1. IInv => SuccessIsEarned
  BY DEF IInv, SuccessIsEarned, AllDone, DriverKnows, Counters, Dispatched
<1> QED
  BY <1>1, Invariance, PTL

\* The system's commit times out only because calls to a remote took the
\* time that the drivers' limits leave of it, whatever these limits are.
THEOREM TimeOutsAreSlowness == Spec => []TimesOutOnlyWhenSlow
<1>1. ASSUME IInv, sys = "timed_out"
      PROVE  \E d \in Dispatched : called[d] + Limit(d) >= 2 * (SysPolls - 1)
  <2>1. PICK d \in Dispatched : called[d] + Slept(d) >= 2 * (SysPolls - 1)
    BY <1>1 DEF IInv, LastLook
  <2>2. Slept(d) <= Limit(d) /\ Slept(d) \in Int /\ called[d] \in Nat
    BY <1>1, LimitType DEF IInv, CommitTypeOK, Slept, Dispatched
  <2> QED
    BY <2>1, <2>2, LimitType, DriverCommitAssumption DEF Dispatched
<1>2. IInv => TimesOutOnlyWhenSlow
  BY <1>1 DEF TimesOutOnlyWhenSlow
<1> QED
  BY <1>2, Invariance, PTL
=============================================================================
