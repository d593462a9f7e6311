-------------------------- MODULE VerificationProofs --------------------------
(***************************************************************************)
(* Proofs about module Verification, for any number of drones and of runs. *)
(***************************************************************************)
EXTENDS Verification, TLAPS

\* The types of VerificationTypeOK but for the flags of the history, which
\* need another prover.
Rows ==
  [there : BOOLEAN, state : {"INIT", "RUNNING", "FINISHED"},
   pending : BOOLEAN, verdict : {"none", "open", "yes", "no"},
   run : 0..MaxRuns]

Drones ==
  [pc : Active \cup Operating \cup {"none", "done"}, run : 0..MaxRuns + 1,
   found : BOOLEAN, ok : BOOLEAN, tried : 0..MaxRuns]

Types ==
  /\ instance \in BOOLEAN
  /\ row \in Rows
  /\ drone \in [Drone -> Drones]
  /\ sender \in BOOLEAN
  /\ epoch \in 0..MaxEpoch
  /\ faults \in 0..MaxFaults
  /\ verified \in SUBSET (0..MaxEpoch)

Flags == alone \in BOOLEAN /\ died \in BOOLEAN /\ abandoned \in BOOLEAN

\* A new row counts from zero, and a drone counts its runs right.
Counts ==
  /\ row.state = "INIT" => row.run = 0
  /\ \A d \in Drone :
       /\ drone[d].pc \in {"none", "started"} \cup Operating \cup Clearing \cup Resetting =>
            drone[d].tried = 0
       /\ drone[d].pc \in {"top", "asking", "stop", "failure"} =>
            drone[d].run = drone[d].tried + 1
       /\ drone[d].pc \in {"asking", "stop"} => drone[d].run <= MaxRuns
       /\ drone[d].pc = "failure" => drone[d].run = MaxRuns + 1
       /\ drone[d].pc \in {"answered", "success", "sleeping"} =>
            drone[d].run = drone[d].tried

IInv == Types /\ Flags /\ Counts /\ RunningHasDrone

USE VerificationAssumption DEF Loop, Clearing, Resetting, Operating, Active

-----------------------------------------------------------------------------
LEMMA InitInv == Init => IInv
<1> SUFFICES ASSUME Init PROVE IInv
  OBVIOUS
<1>1. Types
  <2>1. NewRow \in Rows /\ NoDrone \in Drones
    BY DEF NewRow, NoDrone, Rows, Drones
  <2>2. row \in Rows /\ drone \in [Drone -> Drones]
    BY <2>1 DEF Init
  <2>3. instance \in BOOLEAN /\ sender \in BOOLEAN
    BY Zenon DEF Init
  <2>4. epoch \in 0..MaxEpoch /\ faults \in 0..MaxFaults
    BY DEF Init
  <2>5. verified \in SUBSET (0..MaxEpoch)
    BY DEF Init
  <2> QED
    BY <2>2, <2>3, <2>4, <2>5 DEF Types
<1>3. Counts /\ RunningHasDrone
  BY DEF Init, Counts, RunningHasDrone, NewRow, NoDrone
<1>2. Flags
  BY Zenon DEF Init, Flags
<1> QED
  BY <1>1, <1>2, <1>3 DEF IInv

\* What a handler does before it has started a drone.
Operation(d) ==
  \/ Start(d) \/ Revert(d) \/ Retry(d) \/ Commit(d) \/ GiveUp(d)
  \/ StartAfterCancel(d) \/ StartAfterForce(d)

LEMMA NextFlags == Flags /\ [Next]_vars => Flags'
<1> SUFFICES ASSUME Flags, [Next]_vars PROVE Flags'
  OBVIOUS
<1> USE DEF Flags, history
<1>1. ASSUME NEW d \in Drone, Operation(d) PROVE Flags'
  BY <1>1, Zenon DEF Operation, Start, Revert, Retry, Commit, GiveUp,
                     StartAfterCancel, StartAfterForce, Begin
<1>2. ASSUME NEW d \in Drone, Run(d) PROVE Flags'
  BY <1>2, Zenon DEF Run, Clear, InitData, Reset, ReadPending, Ask, AskFails,
                     Record, Success, Sleep, Failure, Stop
<1>3. ASSUME NEW d \in Drone, AskGarbled(d) PROVE Flags'
  BY <1>3, Zenon DEF AskGarbled
<1>4. CASE SendAction \/ DeleteInstance \/ Restart \/ UNCHANGED vars
  BY <1>4, Zenon DEF SendAction, DeleteInstance, Restart, vars
<1> QED
  BY <1>1, <1>2, <1>3, <1>4 DEF Next, Operation

\* The types are kept.
LEMMA UpdateType ==
  ASSUME Types, NEW r \in Rows, Update(r)
  PROVE  row' \in Rows
  BY DEF Types, Update

LEMMA NewRowType == NewRow \in Rows
  BY DEF NewRow, Rows

LEMMA RowUpdates ==
  ASSUME row \in Rows, NEW s \in {"INIT", "RUNNING", "FINISHED"},
         NEW v \in {"none", "open", "yes", "no"}, NEW n \in 0..MaxRuns
  PROVE  [row EXCEPT !.state = s, !.verdict = v, !.run = n] \in Rows
  BY DEF Rows

LEMMA GivenUpType == row \in Rows => GivenUp \in Rows
<1>1. 0 \in 0..MaxRuns
  OBVIOUS
<1> QED
  BY <1>1, RowUpdates DEF GivenUp

LEMMA GivenUpState == row \in Rows => GivenUp.state = "FINISHED"
  BY DEF GivenUp, Rows

LEMMA DroneUpdates ==
  ASSUME drone \in [Drone -> Drones], NEW d \in Drone,
         NEW pc \in Active \cup Operating \cup {"none", "done"}, NEW n \in 0..MaxRuns + 1,
         NEW b \in BOOLEAN
  PROVE  /\ [drone EXCEPT ![d].pc = pc, ![d].run = n] \in [Drone -> Drones]
         /\ [drone EXCEPT ![d].pc = pc, ![d].found = b] \in [Drone -> Drones]
<1>1. /\ [drone[d] EXCEPT !.pc = pc, !.run = n] \in Drones
      /\ [drone[d] EXCEPT !.pc = pc, !.found = b] \in Drones
  BY DEF Drones
<1>2. [drone EXCEPT ![d].pc = pc, ![d].run = n]
        = [drone EXCEPT ![d] = [drone[d] EXCEPT !.pc = pc, !.run = n]]
  BY DEF Drones
<1>3. [drone EXCEPT ![d].pc = pc, ![d].found = b]
        = [drone EXCEPT ![d] = [drone[d] EXCEPT !.pc = pc, !.found = b]]
  BY DEF Drones
<1> QED
  BY <1>1, <1>2, <1>3

LEMMA GoType ==
  ASSUME Types, NEW d \in Drone, NEW pc \in Active \cup Operating \cup {"none", "done"}, Go(d, pc)
  PROVE  drone' \in [Drone -> Drones]
  BY DEF Types, Go, Drones

LEMMA NextTypes ==
  ASSUME IInv, [Next]_vars
  PROVE  Types'
<1> USE DEF IInv, Types, Rows, Drones, Counts, history
<1>1. ASSUME NEW d \in Drone, Start(d) \/ StartAfterCancel(d) \/ StartAfterForce(d)
      PROVE  Types'
  BY <1>1 DEF Start, StartAfterCancel, StartAfterForce, Begin, Go
<1>2. ASSUME NEW d \in Drone, Revert(d) \/ Retry(d) \/ Commit(d) PROVE Types'
  BY <1>2 DEF Revert, Retry, Commit, Go
<1>3. ASSUME NEW d \in Drone, GiveUp(d) PROVE Types'
  BY <1>3 DEF GiveUp, Go
<1>4. ASSUME NEW d \in Drone, Clear(d) PROVE Types'
  <2>1. CASE Select(d, "clearSelect", "clearDelete")
    <3>1. row.there \in BOOLEAN
      OBVIOUS
    <3>2. drone' \in [Drone -> Drones]
      BY <2>1, <3>1, DroneUpdates DEF Select
    <3> QED
      BY <1>4, <2>1, <3>2 DEF Clear, Select
  <2>2. CASE Delete(d, "clearDelete", "clearInsert")
    <3>1. drone' \in [Drone -> Drones]
      BY <2>2, GoType DEF Delete
    <3>2. row' \in Rows
      BY <2>2 DEF Delete
    <3> QED
      BY <1>4, <3>1, <3>2 DEF Clear
  <2>3. CASE Insert(d, "clearInsert", "started", 0)
    <3>1. row' \in Rows
      BY <2>3, NewRowType DEF Insert
    <3>2. drone' \in [Drone -> Drones]
      <4>1. 0 \in 0..MaxRuns + 1 /\ 1 \in 0..MaxRuns + 1
        OBVIOUS
      <4> QED
        BY <2>3, <4>1, DroneUpdates DEF Insert
    <3> QED
      BY <1>4, <3>1, <3>2 DEF Clear
  <2> QED
    BY <1>4, <2>1, <2>2, <2>3 DEF Clear
<1>5. ASSUME NEW d \in Drone, InitData(d) PROVE Types'
  <2>1. CASE ~ row.there \/ row.state = "RUNNING"
    <3>1. Go(d, "done")
      BY <1>5, <2>1 DEF InitData
    <3> QED
      BY <1>5, <3>1 DEF InitData, Go
  <2>2. CASE row.there /\ row.state = "FINISHED"
    BY <1>5, <2>2 DEF InitData
  <2>3. CASE row.there /\ row.state = "INIT"
    BY <1>5, <2>3 DEF InitData
  <2> QED
    BY <2>1, <2>2, <2>3
<1>6. ASSUME NEW d \in Drone, Reset(d) PROVE Types'
  <2>1. CASE Select(d, "resetSelect", "resetDelete")
    <3>1. row.there \in BOOLEAN
      OBVIOUS
    <3>2. drone' \in [Drone -> Drones]
      BY <2>1, <3>1, DroneUpdates DEF Select
    <3> QED
      BY <1>6, <2>1, <3>2 DEF Reset, Select
  <2>2. CASE Delete(d, "resetDelete", "resetInsert")
    <3>1. drone' \in [Drone -> Drones]
      BY <2>2, GoType DEF Delete
    <3>2. row' \in Rows
      BY <2>2 DEF Delete
    <3> QED
      BY <1>6, <3>1, <3>2 DEF Reset
  <2>3. CASE Insert(d, "resetInsert", "top", 1)
    <3>1. row' \in Rows
      BY <2>3, NewRowType DEF Insert
    <3>2. drone' \in [Drone -> Drones]
      <4>1. 0 \in 0..MaxRuns + 1 /\ 1 \in 0..MaxRuns + 1
        OBVIOUS
      <4> QED
        BY <2>3, <4>1, DroneUpdates DEF Insert
    <3> QED
      BY <1>6, <3>1, <3>2 DEF Reset
  <2> QED
    BY <1>6, <2>1, <2>2, <2>3 DEF Reset
<1>7. ASSUME NEW d \in Drone, ReadPending(d) PROVE Types'
  BY <1>7 DEF ReadPending, Go
<1>8. ASSUME NEW d \in Drone, Ask(d) PROVE Types'
  BY <1>8 DEF Ask
<1>9. ASSUME NEW d \in Drone, AskFails(d) PROVE Types'
  BY <1>9 DEF AskFails
<1>10. ASSUME NEW d \in Drone, AskGarbled(d) PROVE Types'
  BY <1>10 DEF AskGarbled, Go
<1>11. ASSUME NEW d \in Drone, Record(d) PROVE Types'
  <2>1. [row EXCEPT !.state = "RUNNING", !.verdict = "open",
                    !.run = drone[d].run] \in Rows
    BY <1>11 DEF Record
  <2>2. row' \in Rows /\ drone' \in [Drone -> Drones]
    <3> HIDE DEF Rows, Drones, Types
    <3> QED
      BY <1>11, <2>1, UpdateType, GoType DEF Record, IInv
  <2> QED
    BY <1>11, <2>2 DEF Record
<1>12. ASSUME NEW d \in Drone, Success(d) PROVE Types'
  <2>1. [row EXCEPT !.state = "FINISHED", !.verdict = "yes"] \in Rows
    OBVIOUS
  <2>2. row' \in Rows /\ drone' \in [Drone -> Drones]
    <3> HIDE DEF Rows, Drones, Types
    <3> QED
      BY <1>12, <2>1, UpdateType, GoType DEF Success, IInv
  <2> QED
    BY <1>12, <2>2 DEF Success
<1>13. ASSUME NEW d \in Drone, Sleep(d) PROVE Types'
  BY <1>13 DEF Sleep
<1>14. ASSUME NEW d \in Drone, Failure(d) PROVE Types'
  <2>1. GivenUp \in Rows
    BY GivenUpType
  <2>2. row' \in Rows /\ drone' \in [Drone -> Drones]
    <3> HIDE DEF Rows, Drones, Types
    <3> QED
      BY <1>14, <2>1, UpdateType, GoType DEF Failure, IInv
  <2> QED
    BY <1>14, <2>2 DEF Failure
<1>15. ASSUME NEW d \in Drone, Stop(d) PROVE Types'
  <2>1. GivenUp \in Rows /\ [row EXCEPT !.pending = FALSE] \in Rows
    BY GivenUpType
  <2>2. row' \in Rows /\ drone' \in [Drone -> Drones]
    <3> HIDE DEF Rows, Drones, Types
    <3> QED
      BY <1>15, <2>1, UpdateType, GoType DEF Stop, IInv
  <2> QED
    BY <1>15, <2>2 DEF Stop
<1>16. CASE SendAction
  BY <1>16 DEF SendAction, Update
<1>17. CASE DeleteInstance
  BY <1>17 DEF DeleteInstance
<1>18. CASE Restart
  <2>1. drone' \in [Drone -> Drones]
    BY <1>18 DEF Restart
  <2>2. sender' \in BOOLEAN
    BY <1>18, Zenon DEF Restart
  <2>3. faults' \in 0..MaxFaults
    BY <1>18 DEF Restart
  <2> QED
    BY <1>18, <2>1, <2>2, <2>3 DEF Restart
<1>19. CASE UNCHANGED vars
  BY <1>19 DEF vars
<1> QED
  BY <1>1, <1>2, <1>3, <1>4, <1>5, <1>6, <1>7, <1>8, <1>9, <1>10,
     <1>11, <1>12, <1>13, <1>14, <1>15, <1>16, <1>17, <1>18, <1>19
     DEF Next, Run

\* Runs are counted right.
LEMMA NextCounts ==
  ASSUME IInv, [Next]_vars, Types'
  PROVE  Counts'
<1> USE DEF IInv, Types, Rows, Drones, Counts, history
<1>1. ASSUME NEW d \in Drone, Start(d) \/ StartAfterCancel(d) \/ StartAfterForce(d)
      PROVE  Counts'
  BY <1>1 DEF Start, StartAfterCancel, StartAfterForce, Begin, Go
<1>2. ASSUME NEW d \in Drone, Revert(d) \/ Retry(d) \/ Commit(d) PROVE Counts'
  BY <1>2 DEF Revert, Retry, Commit, Go
<1>3. ASSUME NEW d \in Drone, GiveUp(d) PROVE Counts'
  BY <1>3 DEF GiveUp, Go
<1>4. ASSUME NEW d \in Drone, Clear(d) PROVE Counts'
  BY <1>4 DEF Clear, Select, Delete, Insert, NewRow, Go
<1>5. ASSUME NEW d \in Drone, InitData(d) PROVE Counts'
  <2>1. CASE ~ row.there \/ row.state = "RUNNING"
    <3>1. Go(d, "done")
      BY <1>5, <2>1 DEF InitData
    <3> QED
      BY <1>5, <3>1 DEF InitData, Go
  <2>2. CASE row.there /\ row.state = "FINISHED"
    BY <1>5, <2>2 DEF InitData
  <2>3. CASE row.there /\ row.state = "INIT"
    BY <1>5, <2>3 DEF InitData
  <2> QED
    BY <2>1, <2>2, <2>3
<1>6. ASSUME NEW d \in Drone, Reset(d) PROVE Counts'
  BY <1>6 DEF Reset, Select, Delete, Insert, NewRow, Go
<1>7. ASSUME NEW d \in Drone, ReadPending(d) PROVE Counts'
  <2>1. row' = row /\ drone[d].pc = "top"
    BY <1>7 DEF ReadPending
  <2>2. \/ Go(d, "failure") /\ drone[d].run > MaxRuns
        \/ Go(d, "stop") /\ drone[d].run <= MaxRuns
        \/ Go(d, "done")
        \/ Go(d, "asking") /\ drone[d].run <= MaxRuns
    BY <1>7 DEF ReadPending
  <2>3. CASE Go(d, "failure") /\ drone[d].run > MaxRuns
    BY <2>1, <2>3 DEF Go
  <2>4. CASE Go(d, "stop") /\ drone[d].run <= MaxRuns
    BY <2>1, <2>4 DEF Go
  <2>5. CASE Go(d, "done")
    BY <2>1, <2>5 DEF Go
  <2>6. CASE Go(d, "asking") /\ drone[d].run <= MaxRuns
    BY <2>1, <2>6 DEF Go
  <2> QED
    BY <2>2, <2>3, <2>4, <2>5, <2>6
<1>8. ASSUME NEW d \in Drone, Ask(d) PROVE Counts'
  BY <1>8 DEF Ask
<1>9. ASSUME NEW d \in Drone, AskFails(d) PROVE Counts'
  BY <1>9 DEF AskFails
<1>10. ASSUME NEW d \in Drone, AskGarbled(d) PROVE Counts'
  BY <1>10 DEF AskGarbled, Go
<1>11. ASSUME NEW d \in Drone, Record(d) PROVE Counts'
  BY <1>11 DEF Record, Update, Go
<1>12. ASSUME NEW d \in Drone, Success(d) PROVE Counts'
  BY <1>12 DEF Success, Update, Go
<1>13. ASSUME NEW d \in Drone, Sleep(d) PROVE Counts'
  BY <1>13 DEF Sleep
<1>14. ASSUME NEW d \in Drone, Failure(d) PROVE Counts'
  BY <1>14 DEF Failure, Update, GivenUp, Go
<1>15. ASSUME NEW d \in Drone, Stop(d) PROVE Counts'
  <2>1. CASE drone[d].pc = "stop"
    <3>1. drone' = [drone EXCEPT ![d].pc = "stopped"]
      BY <1>15, <2>1 DEF Stop, Go
    <3>2. row' = IF row.there THEN GivenUp ELSE row
      BY <1>15, <2>1 DEF Stop, Update
    <3>3. CASE row.there
      BY <2>1, <3>1, <3>2, <3>3, GivenUpState
    <3>4. CASE ~ row.there
      BY <2>1, <3>1, <3>2, <3>4
    <3> QED
      BY <3>3, <3>4
  <2>2. CASE drone[d].pc = "stopped"
    BY <1>15, <2>2 DEF Stop, Update, Go
  <2> QED
    BY <1>15, <2>1, <2>2 DEF Stop
<1>16. CASE SendAction
  BY <1>16 DEF SendAction, Update
<1>17. CASE DeleteInstance
  BY <1>17 DEF DeleteInstance
<1>18. CASE Restart
  BY <1>18 DEF Restart, Alive, Busy
<1>19. CASE UNCHANGED vars
  BY <1>19 DEF vars
<1> QED
  BY <1>1, <1>2, <1>3, <1>4, <1>5, <1>6, <1>7, <1>8, <1>9, <1>10,
     <1>11, <1>12, <1>13, <1>14, <1>15, <1>16, <1>17, <1>18, <1>19
     DEF Next, Run

\* Who leaves the loop takes RUNNING out of the row.
LEMMA NextRunning ==
  ASSUME IInv, [Next]_vars, Types'
  PROVE  RunningHasDrone'
<1> USE DEF IInv, Types, Rows, Drones, RunningHasDrone, history
<1>1. ASSUME NEW d \in Drone, Start(d) \/ StartAfterCancel(d) \/ StartAfterForce(d)
      PROVE  RunningHasDrone'
  BY <1>1 DEF Start, StartAfterCancel, StartAfterForce, Begin, Go
<1>2. ASSUME NEW d \in Drone, Revert(d) \/ Retry(d) \/ Commit(d) PROVE RunningHasDrone'
  BY <1>2 DEF Revert, Retry, Commit, Go
<1>3. ASSUME NEW d \in Drone, GiveUp(d) PROVE RunningHasDrone'
  BY <1>3 DEF GiveUp, Go
<1>4. ASSUME NEW d \in Drone, Clear(d) PROVE RunningHasDrone'
  BY <1>4 DEF Clear, Select, Delete, Insert, NewRow, Go
<1>5. ASSUME NEW d \in Drone, InitData(d) PROVE RunningHasDrone'
  BY <1>5 DEF InitData, Go
<1>6. ASSUME NEW d \in Drone, Reset(d) PROVE RunningHasDrone'
  BY <1>6 DEF Reset, Select, Delete, Insert, NewRow, Go
<1>7. ASSUME NEW d \in Drone, ReadPending(d) PROVE RunningHasDrone'
  BY <1>7 DEF ReadPending, Go
<1>8. ASSUME NEW d \in Drone, Ask(d) PROVE RunningHasDrone'
  BY <1>8 DEF Ask
<1>9. ASSUME NEW d \in Drone, AskFails(d) PROVE RunningHasDrone'
  BY <1>9 DEF AskFails
<1>10. ASSUME NEW d \in Drone, AskGarbled(d) PROVE RunningHasDrone'
  BY <1>10 DEF AskGarbled, Go
<1>11. ASSUME NEW d \in Drone, Record(d) PROVE RunningHasDrone'
  BY <1>11 DEF Record, Update, Go
<1>12. ASSUME NEW d \in Drone, Success(d) PROVE RunningHasDrone'
  BY <1>12 DEF Success, Update, Go
<1>13. ASSUME NEW d \in Drone, Sleep(d) PROVE RunningHasDrone'
  BY <1>13 DEF Sleep
<1>14. ASSUME NEW d \in Drone, Failure(d) PROVE RunningHasDrone'
  BY <1>14 DEF Failure, Update, GivenUp, Go
<1>15. ASSUME NEW d \in Drone, Stop(d) PROVE RunningHasDrone'
  <2>1. CASE drone[d].pc = "stop"
    <3>1. drone' = [drone EXCEPT ![d].pc = "stopped"]
      BY <1>15, <2>1 DEF Stop, Go
    <3>2. row' = IF row.there THEN GivenUp ELSE row
      BY <1>15, <2>1 DEF Stop, Update
    <3>3. CASE row.there
      BY <2>1, <3>1, <3>2, <3>3, GivenUpState
    <3>4. CASE ~ row.there
      BY <2>1, <3>1, <3>2, <3>4
    <3> QED
      BY <3>3, <3>4
  <2>2. CASE drone[d].pc = "stopped"
    BY <1>15, <2>2 DEF Stop, Update, Go
  <2> QED
    BY <1>15, <2>1, <2>2 DEF Stop
<1>16. CASE SendAction
  BY <1>16 DEF SendAction, Update
<1>17. CASE DeleteInstance
  BY <1>17 DEF DeleteInstance
<1>18. CASE Restart
  BY <1>18 DEF Restart, Alive, Busy
<1>19. CASE UNCHANGED vars
  BY <1>19 DEF vars
<1> QED
  BY <1>1, <1>2, <1>3, <1>4, <1>5, <1>6, <1>7, <1>8, <1>9, <1>10,
     <1>11, <1>12, <1>13, <1>14, <1>15, <1>16, <1>17, <1>18, <1>19
     DEF Next, Run

LEMMA NextInv == IInv /\ [Next]_vars => IInv'
<1> SUFFICES ASSUME IInv, [Next]_vars PROVE IInv'
  OBVIOUS
<1>1. Flags'
  BY NextFlags DEF IInv
<1>2. Types'
  BY NextTypes
<1>3. Counts' /\ RunningHasDrone'
  BY <1>2, NextCounts, NextRunning
<1> QED
  BY <1>1, <1>2, <1>3 DEF IInv

LEMMA Invariance == Spec => []IInv
  BY InitInv, NextInv, PTL DEF Spec

-----------------------------------------------------------------------------
\* The row and the drones keep their types, and no drone runs more often
\* than MaxRuns times.
THEOREM VerificationTypeCorrect == Spec => []VerificationTypeOK
<1>1. IInv => VerificationTypeOK
  BY DEF IInv, Types, Rows, Drones, Flags, VerificationTypeOK
<1> QED
  BY <1>1, Invariance, PTL

\* Next to a row that says RUNNING, which keeps other drones from starting,
\* there is a drone in VerificationDrone.verify's loop, unless one was killed.
THEOREM RunningIsTrue == Spec => []RunningHasDrone
<1>1. IInv => RunningHasDrone
  BY DEF IInv
<1> QED
  BY <1>1, Invariance, PTL

\* A verification that fails was tried as often as it may be.
THEOREM FailuresAreTried == Spec => []FailureIsTried
<1>1. IInv => FailureIsTried
  BY DEF IInv, Types, Drones, Counts, FailureIsTried
<1> QED
  BY <1>1, Invariance, PTL

-----------------------------------------------------------------------------
(***************************************************************************)
(* The row and its verdict, as long as drones do not overlap and none is   *)
(* killed.                                                                 *)
(***************************************************************************)

Single == alone => \A d, e \in Alive : d = e

\* Who has deleted the row finds it gone.
Gone ==
  alone => \A d \in Drone :
             drone[d].pc \in {"clearInsert", "resetInsert"} => ~ row.there

\* The key is found as long as there is one.
Found ==
  alone /\ ~ died /\ instance =>
    \A d \in Drone :
      drone[d].pc \in {"clearDelete", "clearInsert", "resetDelete", "resetInsert"} =>
        drone[d].found = TRUE

\* The verdict follows the state.
Open ==
  /\ row.state = "RUNNING" => row.verdict = "open"
  /\ row.state = "INIT" => row.verdict = "none"

\* Every change of the instance has come to start its drone.
Calm == Busy = {} /\ ~ abandoned

\* A good answer is about the instance as it is: who changes it starts a
\* drone, too.
Fresh ==
  alone /\ Calm => \A d \in Drone :
             (drone[d].pc = "success" \/ (drone[d].pc = "answered" /\ drone[d].ok = TRUE))
               => epoch \in verified

\* A good verdict is about the instance as it is, or about to be removed.
Earned ==
  alone /\ ~ died /\ Calm /\ row.there /\ row.verdict = "yes" =>
    \/ epoch \in verified
    \/ \E d \in Drone : drone[d].pc \in {"started"} \cup Clearing \cup Resetting

Quiet ==
  Single /\ Gone /\ Found /\ RowSurvives /\ Open /\ Fresh /\ Earned

USE VerificationAssumption DEF Loop, Clearing, Resetting, Operating, Active

-----------------------------------------------------------------------------
LEMMA GivenUpVerdict ==
  row \in Rows => /\ GivenUp.verdict = "no" /\ GivenUp.state = "FINISHED"
                  /\ GivenUp.there = row.there
  BY DEF GivenUp, Rows

LEMMA PendingThere ==
  row \in Rows => /\ [row EXCEPT !.pending = TRUE].there = row.there
                  /\ [row EXCEPT !.pending = FALSE].there = row.there
  BY DEF Rows

\* A drone is started: next to another it is not alone.
LEMMA BeginCases ==
  ASSUME NEW d \in Drone, Start(d) \/ StartAfterCancel(d) \/ StartAfterForce(d)
  PROVE  /\ drone[d].pc \in {"none", "cancelled", "forced"}
         /\ \E pc \in {"started", "clearSelect"} : Go(d, pc)
         /\ UNCHANGED <<instance, row, epoch, verified, died>>
         /\ alone' => alone /\ Alive = {}
         /\ ~ abandoned'
<1>1. drone[d].pc \in {"none", "cancelled", "forced"}
      /\ \E pc \in {"started", "clearSelect"} : Go(d, pc)
  BY DEF Start, StartAfterCancel, StartAfterForce, Begin
<1>2. UNCHANGED <<instance, row, epoch, verified, died>>
  BY DEF Start, StartAfterCancel, StartAfterForce, Begin
<1>3. (alone' => alone /\ Alive = {}) /\ ~ abandoned'
  BY Zenon DEF Start, StartAfterCancel, StartAfterForce, Begin
<1> QED
  BY <1>1, <1>2, <1>3

\* An operation changes what is verified, and no row.
LEMMA OperationCases ==
  ASSUME NEW d \in Drone, Revert(d) \/ Retry(d) \/ Commit(d)
  PROVE  /\ drone[d].pc \in {"none", "cancelling", "forcing"}
         /\ \E pc \in Operating : Go(d, pc)
         /\ UNCHANGED <<instance, row, verified, alone, died, abandoned>>
  BY DEF Revert, Retry, Commit, history

LEMMA InitDataCases ==
  ASSUME Types, NEW d \in Drone, InitData(d)
  PROVE  /\ drone[d].pc = "started"
         /\ UNCHANGED <<instance, row, epoch, verified, alone, died, abandoned>>
         /\ \E r \in 0..MaxRuns + 1 :
              \/ Go(d, "done") /\ (~ row.there \/ row.state = "RUNNING")
              \/ drone' = [drone EXCEPT ![d].pc = "resetSelect", ![d].run = r]
              \/ /\ drone' = [drone EXCEPT ![d].pc = "top", ![d].run = r]
                 /\ row.there /\ row.state = "INIT"
<1>1. drone[d].pc = "started"
      /\ UNCHANGED <<instance, row, epoch, verified, alone, died, abandoned>>
  BY DEF InitData, history
<1>2. row.run \in 0..MaxRuns + 1 /\ row.run + 1 \in 0..MaxRuns + 1
  BY DEF Types, Rows
<1>3. row.state \in {"INIT", "RUNNING", "FINISHED"}
  BY DEF Types, Rows
<1>4. CASE ~ row.there \/ row.state = "RUNNING"
  BY <1>1, <1>2, <1>4 DEF InitData
<1>5. CASE row.there /\ row.state = "FINISHED"
  BY <1>1, <1>2, <1>5 DEF InitData
<1>6. CASE row.there /\ row.state = "INIT"
  BY <1>1, <1>2, <1>6 DEF InitData
<1> QED
  BY <1>3, <1>4, <1>5, <1>6

LEMMA ReadPendingCases ==
  ASSUME NEW d \in Drone, ReadPending(d)
  PROVE  /\ drone[d].pc = "top"
         /\ UNCHANGED <<instance, row, epoch, verified, alone, died, abandoned>>
         /\ \E pc \in {"failure", "stop", "done", "asking"} : Go(d, pc)
  BY DEF ReadPending, history

\* Overlap, death and deletion are not forgotten.
LEMMA NextHistory ==
  ASSUME Types, [Next]_vars
  PROVE  (alone' => alone) /\ (~ died' => ~ died) /\ (instance' => instance)
<1> USE DEF history
<1>1. ASSUME NEW d \in Drone, Start(d) \/ StartAfterCancel(d) \/ StartAfterForce(d)
      PROVE  (alone' => alone) /\ (~ died' => ~ died) /\ (instance' => instance)
  <2>1. PICK pc \in {"started", "clearSelect"} : Go(d, pc)
    BY <1>1, BeginCases
  <2>2. /\ drone[d].pc \in {"none", "cancelled", "forced"}
        /\ UNCHANGED <<instance, row, epoch, verified, died>>
        /\ alone' => alone /\ Alive = {}
    BY <1>1, BeginCases
  <2> QED
    BY <2>1, <2>2 DEF Go
<1>2. ASSUME NEW d \in Drone, Revert(d) \/ Retry(d) \/ Commit(d) PROVE (alone' => alone) /\ (~ died' => ~ died) /\ (instance' => instance)
  <2>1. PICK pc \in Operating : Go(d, pc)
    BY <1>2, OperationCases
  <2>2. /\ drone[d].pc \in {"none", "cancelling", "forcing"}
        /\ UNCHANGED <<instance, row, verified, alone, died, abandoned>>
    BY <1>2, OperationCases
  <2> QED
    BY <2>1, <2>2 DEF Go
<1>3. ASSUME NEW d \in Drone, GiveUp(d) PROVE (alone' => alone) /\ (~ died' => ~ died) /\ (instance' => instance)
  BY <1>3 DEF GiveUp, Go
<1>4. ASSUME NEW d \in Drone, Clear(d) PROVE (alone' => alone) /\ (~ died' => ~ died) /\ (instance' => instance)
  BY <1>4 DEF Clear, Select, Delete, Insert, NewRow, Go
<1>5. ASSUME NEW d \in Drone, InitData(d) PROVE (alone' => alone) /\ (~ died' => ~ died) /\ (instance' => instance)
  BY <1>5, InitDataCases DEF Go
<1>6. ASSUME NEW d \in Drone, Reset(d) PROVE (alone' => alone) /\ (~ died' => ~ died) /\ (instance' => instance)
  BY <1>6 DEF Reset, Select, Delete, Insert, NewRow, Go
<1>7. ASSUME NEW d \in Drone, ReadPending(d) PROVE (alone' => alone) /\ (~ died' => ~ died) /\ (instance' => instance)
  BY <1>7, ReadPendingCases DEF Go
<1>8. ASSUME NEW d \in Drone, Ask(d) PROVE (alone' => alone) /\ (~ died' => ~ died) /\ (instance' => instance)
  BY <1>8 DEF Ask
<1>9. ASSUME NEW d \in Drone, AskFails(d) PROVE (alone' => alone) /\ (~ died' => ~ died) /\ (instance' => instance)
  BY <1>9 DEF AskFails
<1>10. ASSUME NEW d \in Drone, AskGarbled(d) PROVE (alone' => alone) /\ (~ died' => ~ died) /\ (instance' => instance)
  BY <1>10 DEF AskGarbled, Go
<1>11. ASSUME NEW d \in Drone, Record(d) PROVE (alone' => alone) /\ (~ died' => ~ died) /\ (instance' => instance)
  BY <1>11 DEF Record, Update, Go
<1>12. ASSUME NEW d \in Drone, Success(d) PROVE (alone' => alone) /\ (~ died' => ~ died) /\ (instance' => instance)
  BY <1>12 DEF Success, Update, Go
<1>13. ASSUME NEW d \in Drone, Sleep(d) PROVE (alone' => alone) /\ (~ died' => ~ died) /\ (instance' => instance)
  BY <1>13 DEF Sleep
<1>14. ASSUME NEW d \in Drone, Failure(d) PROVE (alone' => alone) /\ (~ died' => ~ died) /\ (instance' => instance)
  BY <1>14, GivenUpVerdict DEF Failure, Update, Go
<1>15. ASSUME NEW d \in Drone, Stop(d) PROVE (alone' => alone) /\ (~ died' => ~ died) /\ (instance' => instance)
  BY <1>15, GivenUpVerdict DEF Stop, Update, Go
<1>16. CASE SendAction
  BY <1>16 DEF SendAction, Update
<1>17. CASE DeleteInstance
  BY <1>17 DEF DeleteInstance
<1>18. CASE Restart
  BY <1>18 DEF Restart, Alive, Busy
<1>19. CASE UNCHANGED vars
  BY <1>19 DEF vars
<1> QED
  BY <1>1, <1>2, <1>3, <1>4, <1>5, <1>6, <1>7, <1>8, <1>9, <1>10,
     <1>11, <1>12, <1>13, <1>14, <1>15, <1>16, <1>17, <1>18, <1>19
     DEF Next, Run

\* alone means that there is one drone at most.
LEMMA NextSingle ==
  ASSUME Types, Single, [Next]_vars
  PROVE  Single'
<1> USE DEF Types, Drones, Single, Alive, history
<1>1. ASSUME NEW d \in Drone, Start(d) \/ StartAfterCancel(d) \/ StartAfterForce(d)
      PROVE  Single'
  <2>1. PICK pc \in {"started", "clearSelect"} : Go(d, pc)
    BY <1>1, BeginCases
  <2>2. /\ drone[d].pc \in {"none", "cancelled", "forced"}
        /\ UNCHANGED <<instance, row, epoch, verified, died>>
        /\ alone' => alone /\ Alive = {}
    BY <1>1, BeginCases
  <2> QED
    BY <2>1, <2>2 DEF Go
<1>2. ASSUME NEW d \in Drone, Revert(d) \/ Retry(d) \/ Commit(d) PROVE Single'
  <2>1. PICK pc \in Operating : Go(d, pc)
    BY <1>2, OperationCases
  <2>2. /\ drone[d].pc \in {"none", "cancelling", "forcing"}
        /\ UNCHANGED <<instance, row, verified, alone, died, abandoned>>
    BY <1>2, OperationCases
  <2> QED
    BY <2>1, <2>2 DEF Go
<1>3. ASSUME NEW d \in Drone, GiveUp(d) PROVE Single'
  BY <1>3 DEF GiveUp, Go
<1>4. ASSUME NEW d \in Drone, Clear(d) PROVE Single'
  BY <1>4 DEF Clear, Select, Delete, Insert, NewRow, Go
<1>5. ASSUME NEW d \in Drone, InitData(d) PROVE Single'
  <2>1. PICK r \in 0..MaxRuns + 1 :
          \/ Go(d, "done") /\ (~ row.there \/ row.state = "RUNNING")
          \/ drone' = [drone EXCEPT ![d].pc = "resetSelect", ![d].run = r]
          \/ /\ drone' = [drone EXCEPT ![d].pc = "top", ![d].run = r]
             /\ row.there /\ row.state = "INIT"
    BY <1>5, InitDataCases
  <2>2. drone[d].pc = "started"
        /\ UNCHANGED <<instance, row, epoch, verified, alone, died, abandoned>>
    BY <1>5, InitDataCases
  <2>3. CASE Go(d, "done") /\ (~ row.there \/ row.state = "RUNNING")
    BY <2>2, <2>3 DEF Go
  <2>4. CASE drone' = [drone EXCEPT ![d].pc = "resetSelect", ![d].run = r]
    BY <2>2, <2>4
  <2>5. CASE drone' = [drone EXCEPT ![d].pc = "top", ![d].run = r]
             /\ row.there /\ row.state = "INIT"
    BY <2>2, <2>5
  <2> QED
    BY <2>1, <2>3, <2>4, <2>5
<1>6. ASSUME NEW d \in Drone, Reset(d) PROVE Single'
  BY <1>6 DEF Reset, Select, Delete, Insert, NewRow, Go
<1>7. ASSUME NEW d \in Drone, ReadPending(d) PROVE Single'
  <2>1. PICK pc \in {"failure", "stop", "done", "asking"} : Go(d, pc)
    BY <1>7, ReadPendingCases
  <2>2. drone[d].pc = "top"
        /\ UNCHANGED <<instance, row, epoch, verified, alone, died, abandoned>>
    BY <1>7, ReadPendingCases
  <2> QED
    BY <2>1, <2>2 DEF Go
<1>8. ASSUME NEW d \in Drone, Ask(d) PROVE Single'
  BY <1>8 DEF Ask
<1>9. ASSUME NEW d \in Drone, AskFails(d) PROVE Single'
  BY <1>9 DEF AskFails
<1>10. ASSUME NEW d \in Drone, AskGarbled(d) PROVE Single'
  BY <1>10 DEF AskGarbled, Go
<1>11. ASSUME NEW d \in Drone, Record(d) PROVE Single'
  BY <1>11 DEF Record, Update, Go
<1>12. ASSUME NEW d \in Drone, Success(d) PROVE Single'
  BY <1>12 DEF Success, Update, Go
<1>13. ASSUME NEW d \in Drone, Sleep(d) PROVE Single'
  BY <1>13 DEF Sleep
<1>14. ASSUME NEW d \in Drone, Failure(d) PROVE Single'
  BY <1>14, GivenUpVerdict DEF Failure, Update, Go
<1>15. ASSUME NEW d \in Drone, Stop(d) PROVE Single'
  BY <1>15, GivenUpVerdict DEF Stop, Update, Go
<1>16. CASE SendAction
  BY <1>16 DEF SendAction, Update
<1>17. CASE DeleteInstance
  BY <1>17 DEF DeleteInstance
<1>18. CASE Restart
  BY <1>18 DEF Restart, Alive, Busy
<1>19. CASE UNCHANGED vars
  BY <1>19 DEF vars
<1> QED
  BY <1>1, <1>2, <1>3, <1>4, <1>5, <1>6, <1>7, <1>8, <1>9, <1>10,
     <1>11, <1>12, <1>13, <1>14, <1>15, <1>16, <1>17, <1>18, <1>19
     DEF Next, Run

\* Who has deleted the row finds it gone.
LEMMA NextGone ==
  ASSUME Types, Single, Gone, [Next]_vars
  PROVE  Gone'
<1> USE DEF Types, Drones, Single, Gone, Alive, history
<1>1. ASSUME NEW d \in Drone, Start(d) \/ StartAfterCancel(d) \/ StartAfterForce(d)
      PROVE  Gone'
  <2>1. PICK pc \in {"started", "clearSelect"} : Go(d, pc)
    BY <1>1, BeginCases
  <2>2. /\ drone[d].pc \in {"none", "cancelled", "forced"}
        /\ UNCHANGED <<instance, row, epoch, verified, died>>
        /\ alone' => alone /\ Alive = {}
    BY <1>1, BeginCases
  <2> QED
    BY <2>1, <2>2 DEF Go
<1>2. ASSUME NEW d \in Drone, Revert(d) \/ Retry(d) \/ Commit(d) PROVE Gone'
  <2>1. PICK pc \in Operating : Go(d, pc)
    BY <1>2, OperationCases
  <2>2. /\ drone[d].pc \in {"none", "cancelling", "forcing"}
        /\ UNCHANGED <<instance, row, verified, alone, died, abandoned>>
    BY <1>2, OperationCases
  <2> QED
    BY <2>1, <2>2 DEF Go
<1>3. ASSUME NEW d \in Drone, GiveUp(d) PROVE Gone'
  BY <1>3 DEF GiveUp, Go
<1>4. ASSUME NEW d \in Drone, Clear(d) PROVE Gone'
  <2>1. CASE Select(d, "clearSelect", "clearDelete")
    BY <1>4, <2>1 DEF Clear, Select
  <2>2. CASE Delete(d, "clearDelete", "clearInsert")
    BY <1>4, <2>2 DEF Clear, Delete, Go
  <2>3. CASE Insert(d, "clearInsert", "started", 0)
    BY <1>4, <2>3 DEF Clear, Insert, NewRow
  <2> QED
    BY <1>4, <2>1, <2>2, <2>3 DEF Clear
<1>5. ASSUME NEW d \in Drone, InitData(d) PROVE Gone'
  <2>1. PICK r \in 0..MaxRuns + 1 :
          \/ Go(d, "done") /\ (~ row.there \/ row.state = "RUNNING")
          \/ drone' = [drone EXCEPT ![d].pc = "resetSelect", ![d].run = r]
          \/ /\ drone' = [drone EXCEPT ![d].pc = "top", ![d].run = r]
             /\ row.there /\ row.state = "INIT"
    BY <1>5, InitDataCases
  <2>2. drone[d].pc = "started"
        /\ UNCHANGED <<instance, row, epoch, verified, alone, died, abandoned>>
    BY <1>5, InitDataCases
  <2>3. CASE Go(d, "done") /\ (~ row.there \/ row.state = "RUNNING")
    BY <2>2, <2>3 DEF Go
  <2>4. CASE drone' = [drone EXCEPT ![d].pc = "resetSelect", ![d].run = r]
    BY <2>2, <2>4
  <2>5. CASE drone' = [drone EXCEPT ![d].pc = "top", ![d].run = r]
             /\ row.there /\ row.state = "INIT"
    BY <2>2, <2>5
  <2> QED
    BY <2>1, <2>3, <2>4, <2>5
<1>6. ASSUME NEW d \in Drone, Reset(d) PROVE Gone'
  <2>1. CASE Select(d, "resetSelect", "resetDelete")
    BY <1>6, <2>1 DEF Reset, Select
  <2>2. CASE Delete(d, "resetDelete", "resetInsert")
    BY <1>6, <2>2 DEF Reset, Delete, Go
  <2>3. CASE Insert(d, "resetInsert", "top", 1)
    BY <1>6, <2>3 DEF Reset, Insert, NewRow
  <2> QED
    BY <1>6, <2>1, <2>2, <2>3 DEF Reset
<1>7. ASSUME NEW d \in Drone, ReadPending(d) PROVE Gone'
  <2>1. PICK pc \in {"failure", "stop", "done", "asking"} : Go(d, pc)
    BY <1>7, ReadPendingCases
  <2>2. drone[d].pc = "top"
        /\ UNCHANGED <<instance, row, epoch, verified, alone, died, abandoned>>
    BY <1>7, ReadPendingCases
  <2> QED
    BY <2>1, <2>2 DEF Go
<1>8. ASSUME NEW d \in Drone, Ask(d) PROVE Gone'
  BY <1>8 DEF Ask
<1>9. ASSUME NEW d \in Drone, AskFails(d) PROVE Gone'
  BY <1>9 DEF AskFails
<1>10. ASSUME NEW d \in Drone, AskGarbled(d) PROVE Gone'
  BY <1>10 DEF AskGarbled, Go
<1>11. ASSUME NEW d \in Drone, Record(d) PROVE Gone'
  BY <1>11 DEF Record, Update, Go
<1>12. ASSUME NEW d \in Drone, Success(d) PROVE Gone'
  BY <1>12 DEF Success, Update, Go
<1>13. ASSUME NEW d \in Drone, Sleep(d) PROVE Gone'
  BY <1>13 DEF Sleep
<1>14. ASSUME NEW d \in Drone, Failure(d) PROVE Gone'
  BY <1>14, GivenUpVerdict DEF Failure, Update, Go
<1>15. ASSUME NEW d \in Drone, Stop(d) PROVE Gone'
  BY <1>15, GivenUpVerdict DEF Stop, Update, Go
<1>16. CASE SendAction
  BY <1>16 DEF SendAction, Update
<1>17. CASE DeleteInstance
  BY <1>17 DEF DeleteInstance
<1>18. CASE Restart
  BY <1>18 DEF Restart, Alive, Busy
<1>19. CASE UNCHANGED vars
  BY <1>19 DEF vars
<1> QED
  BY <1>1, <1>2, <1>3, <1>4, <1>5, <1>6, <1>7, <1>8, <1>9, <1>10,
     <1>11, <1>12, <1>13, <1>14, <1>15, <1>16, <1>17, <1>18, <1>19
     DEF Next, Run

\* The key is found while the instance and its row are there.
LEMMA NextFound ==
  ASSUME Types, Single, Found, RowSurvives, [Next]_vars
  PROVE  Found'
<1> USE DEF Types, Drones, Single, Found, RowSurvives, Alive, history
<1>1. ASSUME NEW d \in Drone, Start(d) \/ StartAfterCancel(d) \/ StartAfterForce(d)
      PROVE  Found'
  <2>1. PICK pc \in {"started", "clearSelect"} : Go(d, pc)
    BY <1>1, BeginCases
  <2>2. /\ drone[d].pc \in {"none", "cancelled", "forced"}
        /\ UNCHANGED <<instance, row, epoch, verified, died>>
        /\ alone' => alone /\ Alive = {}
    BY <1>1, BeginCases
  <2> QED
    BY <2>1, <2>2 DEF Go
<1>2. ASSUME NEW d \in Drone, Revert(d) \/ Retry(d) \/ Commit(d) PROVE Found'
  <2>1. PICK pc \in Operating : Go(d, pc)
    BY <1>2, OperationCases
  <2>2. /\ drone[d].pc \in {"none", "cancelling", "forcing"}
        /\ UNCHANGED <<instance, row, verified, alone, died, abandoned>>
    BY <1>2, OperationCases
  <2> QED
    BY <2>1, <2>2 DEF Go
<1>3. ASSUME NEW d \in Drone, GiveUp(d) PROVE Found'
  BY <1>3 DEF GiveUp, Go
<1>4. ASSUME NEW d \in Drone, Clear(d) PROVE Found'
  BY <1>4 DEF Clear, Select, Delete, Insert, NewRow, Go
<1>5. ASSUME NEW d \in Drone, InitData(d) PROVE Found'
  <2>1. PICK r \in 0..MaxRuns + 1 :
          \/ Go(d, "done") /\ (~ row.there \/ row.state = "RUNNING")
          \/ drone' = [drone EXCEPT ![d].pc = "resetSelect", ![d].run = r]
          \/ /\ drone' = [drone EXCEPT ![d].pc = "top", ![d].run = r]
             /\ row.there /\ row.state = "INIT"
    BY <1>5, InitDataCases
  <2>2. drone[d].pc = "started"
        /\ UNCHANGED <<instance, row, epoch, verified, alone, died, abandoned>>
    BY <1>5, InitDataCases
  <2>3. CASE Go(d, "done") /\ (~ row.there \/ row.state = "RUNNING")
    BY <2>2, <2>3 DEF Go
  <2>4. CASE drone' = [drone EXCEPT ![d].pc = "resetSelect", ![d].run = r]
    BY <2>2, <2>4
  <2>5. CASE drone' = [drone EXCEPT ![d].pc = "top", ![d].run = r]
             /\ row.there /\ row.state = "INIT"
    BY <2>2, <2>5
  <2> QED
    BY <2>1, <2>3, <2>4, <2>5
<1>6. ASSUME NEW d \in Drone, Reset(d) PROVE Found'
  BY <1>6 DEF Reset, Select, Delete, Insert, NewRow, Go
<1>7. ASSUME NEW d \in Drone, ReadPending(d) PROVE Found'
  <2>1. PICK pc \in {"failure", "stop", "done", "asking"} : Go(d, pc)
    BY <1>7, ReadPendingCases
  <2>2. drone[d].pc = "top"
        /\ UNCHANGED <<instance, row, epoch, verified, alone, died, abandoned>>
    BY <1>7, ReadPendingCases
  <2> QED
    BY <2>1, <2>2 DEF Go
<1>8. ASSUME NEW d \in Drone, Ask(d) PROVE Found'
  BY <1>8 DEF Ask
<1>9. ASSUME NEW d \in Drone, AskFails(d) PROVE Found'
  BY <1>9 DEF AskFails
<1>10. ASSUME NEW d \in Drone, AskGarbled(d) PROVE Found'
  BY <1>10 DEF AskGarbled, Go
<1>11. ASSUME NEW d \in Drone, Record(d) PROVE Found'
  BY <1>11 DEF Record, Update, Go
<1>12. ASSUME NEW d \in Drone, Success(d) PROVE Found'
  BY <1>12 DEF Success, Update, Go
<1>13. ASSUME NEW d \in Drone, Sleep(d) PROVE Found'
  BY <1>13 DEF Sleep
<1>14. ASSUME NEW d \in Drone, Failure(d) PROVE Found'
  BY <1>14, GivenUpVerdict DEF Failure, Update, Go
<1>15. ASSUME NEW d \in Drone, Stop(d) PROVE Found'
  BY <1>15, GivenUpVerdict DEF Stop, Update, Go
<1>16. CASE SendAction
  BY <1>16 DEF SendAction, Update
<1>17. CASE DeleteInstance
  BY <1>17 DEF DeleteInstance
<1>18. CASE Restart
  BY <1>18 DEF Restart, Alive, Busy
<1>19. CASE UNCHANGED vars
  BY <1>19 DEF vars
<1> QED
  BY <1>1, <1>2, <1>3, <1>4, <1>5, <1>6, <1>7, <1>8, <1>9, <1>10,
     <1>11, <1>12, <1>13, <1>14, <1>15, <1>16, <1>17, <1>18, <1>19
     DEF Next, Run

\* What is deleted is inserted again.
LEMMA NextSurvives ==
  ASSUME Types, Single, Found, RowSurvives, [Next]_vars
  PROVE  RowSurvives'
<1> USE DEF Types, Drones, Single, Found, RowSurvives, Alive, history
<1>1. ASSUME NEW d \in Drone, Start(d) \/ StartAfterCancel(d) \/ StartAfterForce(d)
      PROVE  RowSurvives'
  <2>1. PICK pc \in {"started", "clearSelect"} : Go(d, pc)
    BY <1>1, BeginCases
  <2>2. /\ drone[d].pc \in {"none", "cancelled", "forced"}
        /\ UNCHANGED <<instance, row, epoch, verified, died>>
        /\ alone' => alone /\ Alive = {}
    BY <1>1, BeginCases
  <2> QED
    BY <2>1, <2>2 DEF Go
<1>2. ASSUME NEW d \in Drone, Revert(d) \/ Retry(d) \/ Commit(d) PROVE RowSurvives'
  <2>1. PICK pc \in Operating : Go(d, pc)
    BY <1>2, OperationCases
  <2>2. /\ drone[d].pc \in {"none", "cancelling", "forcing"}
        /\ UNCHANGED <<instance, row, verified, alone, died, abandoned>>
    BY <1>2, OperationCases
  <2> QED
    BY <2>1, <2>2 DEF Go
<1>3. ASSUME NEW d \in Drone, GiveUp(d) PROVE RowSurvives'
  BY <1>3 DEF GiveUp, Go
<1>4. ASSUME NEW d \in Drone, Clear(d) PROVE RowSurvives'
  BY <1>4 DEF Clear, Select, Delete, Insert, NewRow, Go
<1>5. ASSUME NEW d \in Drone, InitData(d) PROVE RowSurvives'
  <2>1. PICK r \in 0..MaxRuns + 1 :
          \/ Go(d, "done") /\ (~ row.there \/ row.state = "RUNNING")
          \/ drone' = [drone EXCEPT ![d].pc = "resetSelect", ![d].run = r]
          \/ /\ drone' = [drone EXCEPT ![d].pc = "top", ![d].run = r]
             /\ row.there /\ row.state = "INIT"
    BY <1>5, InitDataCases
  <2>2. drone[d].pc = "started"
        /\ UNCHANGED <<instance, row, epoch, verified, alone, died, abandoned>>
    BY <1>5, InitDataCases
  <2>3. CASE Go(d, "done") /\ (~ row.there \/ row.state = "RUNNING")
    BY <2>2, <2>3 DEF Go
  <2>4. CASE drone' = [drone EXCEPT ![d].pc = "resetSelect", ![d].run = r]
    BY <2>2, <2>4
  <2>5. CASE drone' = [drone EXCEPT ![d].pc = "top", ![d].run = r]
             /\ row.there /\ row.state = "INIT"
    BY <2>2, <2>5
  <2> QED
    BY <2>1, <2>3, <2>4, <2>5
<1>6. ASSUME NEW d \in Drone, Reset(d) PROVE RowSurvives'
  BY <1>6 DEF Reset, Select, Delete, Insert, NewRow, Go
<1>7. ASSUME NEW d \in Drone, ReadPending(d) PROVE RowSurvives'
  <2>1. PICK pc \in {"failure", "stop", "done", "asking"} : Go(d, pc)
    BY <1>7, ReadPendingCases
  <2>2. drone[d].pc = "top"
        /\ UNCHANGED <<instance, row, epoch, verified, alone, died, abandoned>>
    BY <1>7, ReadPendingCases
  <2> QED
    BY <2>1, <2>2 DEF Go
<1>8. ASSUME NEW d \in Drone, Ask(d) PROVE RowSurvives'
  BY <1>8 DEF Ask
<1>9. ASSUME NEW d \in Drone, AskFails(d) PROVE RowSurvives'
  BY <1>9 DEF AskFails
<1>10. ASSUME NEW d \in Drone, AskGarbled(d) PROVE RowSurvives'
  BY <1>10 DEF AskGarbled, Go
<1>11. ASSUME NEW d \in Drone, Record(d) PROVE RowSurvives'
  BY <1>11 DEF Record, Update, Go
<1>12. ASSUME NEW d \in Drone, Success(d) PROVE RowSurvives'
  BY <1>12 DEF Success, Update, Go
<1>13. ASSUME NEW d \in Drone, Sleep(d) PROVE RowSurvives'
  BY <1>13 DEF Sleep
<1>14. ASSUME NEW d \in Drone, Failure(d) PROVE RowSurvives'
  BY <1>14, GivenUpVerdict DEF Failure, Update, Go
<1>15. ASSUME NEW d \in Drone, Stop(d) PROVE RowSurvives'
  <2>1. CASE drone[d].pc = "stop"
    <3>1. drone' = [drone EXCEPT ![d].pc = "stopped"]
      BY <1>15, <2>1 DEF Stop, Go
    <3>2. row'.there = row.there
      BY <1>15, <2>1, GivenUpVerdict DEF Stop, Update
    <3> QED
      BY <1>15, <2>1, <3>1, <3>2 DEF Stop
  <2>2. CASE drone[d].pc = "stopped"
    <3>1. row'.there = row.there
      BY <1>15, <2>2, PendingThere DEF Stop, Update
    <3>2. drone' = [drone EXCEPT ![d].pc = "done"]
      BY <1>15, <2>2 DEF Stop, Go
    <3> QED
      BY <1>15, <2>2, <3>1, <3>2 DEF Stop
  <2> QED
    BY <1>15, <2>1, <2>2 DEF Stop
<1>16. CASE SendAction
  <2>1. row'.there = row.there
    BY <1>16, PendingThere DEF SendAction, Update
  <2> QED
    BY <1>16, <2>1 DEF SendAction
<1>17. CASE DeleteInstance
  BY <1>17 DEF DeleteInstance
<1>18. CASE Restart
  BY <1>18 DEF Restart, Alive, Busy
<1>19. CASE UNCHANGED vars
  BY <1>19 DEF vars
<1> QED
  BY <1>1, <1>2, <1>3, <1>4, <1>5, <1>6, <1>7, <1>8, <1>9, <1>10,
     <1>11, <1>12, <1>13, <1>14, <1>15, <1>16, <1>17, <1>18, <1>19
     DEF Next, Run

\* The verdict follows the state.
LEMMA NextOpen ==
  ASSUME Types, Open, [Next]_vars
  PROVE  Open'
<1> USE DEF Types, Rows, Drones, Open, history
<1>1. ASSUME NEW d \in Drone, Start(d) \/ StartAfterCancel(d) \/ StartAfterForce(d)
      PROVE  Open'
  <2>1. PICK pc \in {"started", "clearSelect"} : Go(d, pc)
    BY <1>1, BeginCases
  <2>2. /\ drone[d].pc \in {"none", "cancelled", "forced"}
        /\ UNCHANGED <<instance, row, epoch, verified, died>>
        /\ alone' => alone /\ Alive = {}
    BY <1>1, BeginCases
  <2> QED
    BY <2>1, <2>2 DEF Go
<1>2. ASSUME NEW d \in Drone, Revert(d) \/ Retry(d) \/ Commit(d) PROVE Open'
  <2>1. PICK pc \in Operating : Go(d, pc)
    BY <1>2, OperationCases
  <2>2. /\ drone[d].pc \in {"none", "cancelling", "forcing"}
        /\ UNCHANGED <<instance, row, verified, alone, died, abandoned>>
    BY <1>2, OperationCases
  <2> QED
    BY <2>1, <2>2 DEF Go
<1>3. ASSUME NEW d \in Drone, GiveUp(d) PROVE Open'
  BY <1>3 DEF GiveUp, Go
<1>4. ASSUME NEW d \in Drone, Clear(d) PROVE Open'
  BY <1>4 DEF Clear, Select, Delete, Insert, NewRow, Go
<1>5. ASSUME NEW d \in Drone, InitData(d) PROVE Open'
  BY <1>5, InitDataCases DEF Go
<1>6. ASSUME NEW d \in Drone, Reset(d) PROVE Open'
  BY <1>6 DEF Reset, Select, Delete, Insert, NewRow, Go
<1>7. ASSUME NEW d \in Drone, ReadPending(d) PROVE Open'
  BY <1>7, ReadPendingCases DEF Go
<1>8. ASSUME NEW d \in Drone, Ask(d) PROVE Open'
  BY <1>8 DEF Ask
<1>9. ASSUME NEW d \in Drone, AskFails(d) PROVE Open'
  BY <1>9 DEF AskFails
<1>10. ASSUME NEW d \in Drone, AskGarbled(d) PROVE Open'
  BY <1>10 DEF AskGarbled, Go
<1>11. ASSUME NEW d \in Drone, Record(d) PROVE Open'
  BY <1>11 DEF Record, Update, Go
<1>12. ASSUME NEW d \in Drone, Success(d) PROVE Open'
  BY <1>12 DEF Success, Update, Go
<1>13. ASSUME NEW d \in Drone, Sleep(d) PROVE Open'
  BY <1>13 DEF Sleep
<1>14. ASSUME NEW d \in Drone, Failure(d) PROVE Open'
  BY <1>14, GivenUpVerdict DEF Failure, Update, Go
<1>15. ASSUME NEW d \in Drone, Stop(d) PROVE Open'
  BY <1>15, GivenUpVerdict DEF Stop, Update, Go
<1>16. CASE SendAction
  BY <1>16 DEF SendAction, Update
<1>17. CASE DeleteInstance
  BY <1>17 DEF DeleteInstance
<1>18. CASE Restart
  BY <1>18 DEF Restart, Alive, Busy
<1>19. CASE UNCHANGED vars
  BY <1>19 DEF vars
<1> QED
  BY <1>1, <1>2, <1>3, <1>4, <1>5, <1>6, <1>7, <1>8, <1>9, <1>10,
     <1>11, <1>12, <1>13, <1>14, <1>15, <1>16, <1>17, <1>18, <1>19
     DEF Next, Run

\* A good answer stays true as long as no other drone is started.
LEMMA NextFresh ==
  ASSUME Types, Single, Fresh, [Next]_vars
  PROVE  Fresh'
<1> USE DEF Types, Drones, Single, Fresh, Alive, Calm, Busy, history
<1>1. ASSUME NEW d \in Drone, Start(d) \/ StartAfterCancel(d) \/ StartAfterForce(d)
      PROVE  Fresh'
  <2>1. PICK pc \in {"started", "clearSelect"} : Go(d, pc)
    BY <1>1, BeginCases
  <2>2. /\ drone[d].pc \in {"none", "cancelled", "forced"}
        /\ UNCHANGED <<instance, row, epoch, verified, died>>
        /\ alone' => alone /\ Alive = {}
    BY <1>1, BeginCases
  <2> QED
    BY <2>1, <2>2 DEF Go
<1>2. ASSUME NEW d \in Drone, Revert(d) \/ Retry(d) \/ Commit(d) PROVE Fresh'
  <2>1. PICK pc \in Operating : Go(d, pc)
    BY <1>2, OperationCases
  <2>2. /\ drone[d].pc \in {"none", "cancelling", "forcing"}
        /\ UNCHANGED <<instance, row, verified, alone, died, abandoned>>
    BY <1>2, OperationCases
  <2> QED
    BY <2>1, <2>2 DEF Go
<1>3. ASSUME NEW d \in Drone, GiveUp(d) PROVE Fresh'
  BY <1>3 DEF GiveUp, Go
<1>4. ASSUME NEW d \in Drone, Clear(d) PROVE Fresh'
  BY <1>4 DEF Clear, Select, Delete, Insert, NewRow, Go
<1>5. ASSUME NEW d \in Drone, InitData(d) PROVE Fresh'
  <2>1. PICK r \in 0..MaxRuns + 1 :
          \/ Go(d, "done") /\ (~ row.there \/ row.state = "RUNNING")
          \/ drone' = [drone EXCEPT ![d].pc = "resetSelect", ![d].run = r]
          \/ /\ drone' = [drone EXCEPT ![d].pc = "top", ![d].run = r]
             /\ row.there /\ row.state = "INIT"
    BY <1>5, InitDataCases
  <2>2. drone[d].pc = "started"
        /\ UNCHANGED <<instance, row, epoch, verified, alone, died, abandoned>>
    BY <1>5, InitDataCases
  <2>3. CASE Go(d, "done") /\ (~ row.there \/ row.state = "RUNNING")
    BY <2>2, <2>3 DEF Go
  <2>4. CASE drone' = [drone EXCEPT ![d].pc = "resetSelect", ![d].run = r]
    BY <2>2, <2>4
  <2>5. CASE drone' = [drone EXCEPT ![d].pc = "top", ![d].run = r]
             /\ row.there /\ row.state = "INIT"
    BY <2>2, <2>5
  <2> QED
    BY <2>1, <2>3, <2>4, <2>5
<1>6. ASSUME NEW d \in Drone, Reset(d) PROVE Fresh'
  BY <1>6 DEF Reset, Select, Delete, Insert, NewRow, Go
<1>7. ASSUME NEW d \in Drone, ReadPending(d) PROVE Fresh'
  <2>1. PICK pc \in {"failure", "stop", "done", "asking"} : Go(d, pc)
    BY <1>7, ReadPendingCases
  <2>2. drone[d].pc = "top"
        /\ UNCHANGED <<instance, row, epoch, verified, alone, died, abandoned>>
    BY <1>7, ReadPendingCases
  <2> QED
    BY <2>1, <2>2 DEF Go
<1>8. ASSUME NEW d \in Drone, Ask(d) PROVE Fresh'
  BY <1>8 DEF Ask
<1>9. ASSUME NEW d \in Drone, AskFails(d) PROVE Fresh'
  BY <1>9 DEF AskFails
<1>10. ASSUME NEW d \in Drone, AskGarbled(d) PROVE Fresh'
  BY <1>10 DEF AskGarbled, Go
<1>11. ASSUME NEW d \in Drone, Record(d) PROVE Fresh'
  BY <1>11 DEF Record, Update, Go
<1>12. ASSUME NEW d \in Drone, Success(d) PROVE Fresh'
  BY <1>12 DEF Success, Update, Go
<1>13. ASSUME NEW d \in Drone, Sleep(d) PROVE Fresh'
  BY <1>13 DEF Sleep
<1>14. ASSUME NEW d \in Drone, Failure(d) PROVE Fresh'
  BY <1>14, GivenUpVerdict DEF Failure, Update, Go
<1>15. ASSUME NEW d \in Drone, Stop(d) PROVE Fresh'
  BY <1>15, GivenUpVerdict DEF Stop, Update, Go
<1>16. CASE SendAction
  BY <1>16 DEF SendAction, Update
<1>17. CASE DeleteInstance
  BY <1>17 DEF DeleteInstance
<1>18. CASE Restart
  BY <1>18 DEF Restart, Alive, Busy
<1>19. CASE UNCHANGED vars
  BY <1>19 DEF vars
<1> QED
  BY <1>1, <1>2, <1>3, <1>4, <1>5, <1>6, <1>7, <1>8, <1>9, <1>10,
     <1>11, <1>12, <1>13, <1>14, <1>15, <1>16, <1>17, <1>18, <1>19
     DEF Next, Run

\* A good verdict is earned, or about to be removed.
LEMMA NextEarned ==
  ASSUME Types, Single, Gone, Open, Fresh, Earned, [Next]_vars
  PROVE  Earned'
<1> USE DEF Types, Rows, Drones, Single, Gone, Open, Fresh, Earned, Alive, Calm, Busy, history
<1>1. ASSUME NEW d \in Drone, Start(d) \/ StartAfterCancel(d) \/ StartAfterForce(d)
      PROVE  Earned'
  <2>1. PICK pc \in {"started", "clearSelect"} : Go(d, pc)
    BY <1>1, BeginCases
  <2>2. /\ drone[d].pc \in {"none", "cancelled", "forced"}
        /\ UNCHANGED <<instance, row, epoch, verified, died>>
        /\ alone' => alone /\ Alive = {}
    BY <1>1, BeginCases
  <2> QED
    BY <2>1, <2>2 DEF Go
<1>2. ASSUME NEW d \in Drone, Revert(d) \/ Retry(d) \/ Commit(d) PROVE Earned'
  <2>1. PICK pc \in Operating : Go(d, pc)
    BY <1>2, OperationCases
  <2>2. /\ drone[d].pc \in {"none", "cancelling", "forcing"}
        /\ UNCHANGED <<instance, row, verified, alone, died, abandoned>>
    BY <1>2, OperationCases
  <2> QED
    BY <2>1, <2>2 DEF Go
<1>3. ASSUME NEW d \in Drone, GiveUp(d) PROVE Earned'
  BY <1>3 DEF GiveUp, Go
<1>4. ASSUME NEW d \in Drone, Clear(d) PROVE Earned'
  BY <1>4 DEF Clear, Select, Delete, Insert, NewRow, Go
<1>5. ASSUME NEW d \in Drone, InitData(d) PROVE Earned'
  <2>1. PICK r \in 0..MaxRuns + 1 :
          \/ Go(d, "done") /\ (~ row.there \/ row.state = "RUNNING")
          \/ drone' = [drone EXCEPT ![d].pc = "resetSelect", ![d].run = r]
          \/ /\ drone' = [drone EXCEPT ![d].pc = "top", ![d].run = r]
             /\ row.there /\ row.state = "INIT"
    BY <1>5, InitDataCases
  <2>2. drone[d].pc = "started"
        /\ UNCHANGED <<instance, row, epoch, verified, alone, died, abandoned>>
    BY <1>5, InitDataCases
  <2>3. CASE Go(d, "done") /\ (~ row.there \/ row.state = "RUNNING")
    BY <2>2, <2>3 DEF Go
  <2>4. CASE drone' = [drone EXCEPT ![d].pc = "resetSelect", ![d].run = r]
    BY <2>2, <2>4
  <2>5. CASE drone' = [drone EXCEPT ![d].pc = "top", ![d].run = r]
             /\ row.there /\ row.state = "INIT"
    BY <2>2, <2>5
  <2> QED
    BY <2>1, <2>3, <2>4, <2>5
<1>6. ASSUME NEW d \in Drone, Reset(d) PROVE Earned'
  BY <1>6 DEF Reset, Select, Delete, Insert, NewRow, Go
<1>7. ASSUME NEW d \in Drone, ReadPending(d) PROVE Earned'
  <2>1. PICK pc \in {"failure", "stop", "done", "asking"} : Go(d, pc)
    BY <1>7, ReadPendingCases
  <2>2. drone[d].pc = "top"
        /\ UNCHANGED <<instance, row, epoch, verified, alone, died, abandoned>>
    BY <1>7, ReadPendingCases
  <2> QED
    BY <2>1, <2>2 DEF Go
<1>8. ASSUME NEW d \in Drone, Ask(d) PROVE Earned'
  BY <1>8 DEF Ask
<1>9. ASSUME NEW d \in Drone, AskFails(d) PROVE Earned'
  BY <1>9 DEF AskFails
<1>10. ASSUME NEW d \in Drone, AskGarbled(d) PROVE Earned'
  BY <1>10 DEF AskGarbled, Go
<1>11. ASSUME NEW d \in Drone, Record(d) PROVE Earned'
  BY <1>11 DEF Record, Update, Go
<1>12. ASSUME NEW d \in Drone, Success(d) PROVE Earned'
  BY <1>12 DEF Success, Update, Go
<1>13. ASSUME NEW d \in Drone, Sleep(d) PROVE Earned'
  BY <1>13 DEF Sleep
<1>14. ASSUME NEW d \in Drone, Failure(d) PROVE Earned'
  BY <1>14, GivenUpVerdict DEF Failure, Update, Go
<1>15. ASSUME NEW d \in Drone, Stop(d) PROVE Earned'
  BY <1>15, GivenUpVerdict DEF Stop, Update, Go
<1>16. CASE SendAction
  BY <1>16 DEF SendAction, Update
<1>17. CASE DeleteInstance
  BY <1>17 DEF DeleteInstance
<1>18. CASE Restart
  BY <1>18 DEF Restart, Alive, Busy
<1>19. CASE UNCHANGED vars
  BY <1>19 DEF vars
<1> QED
  BY <1>1, <1>2, <1>3, <1>4, <1>5, <1>6, <1>7, <1>8, <1>9, <1>10,
     <1>11, <1>12, <1>13, <1>14, <1>15, <1>16, <1>17, <1>18, <1>19
     DEF Next, Run

-----------------------------------------------------------------------------
LEMMA QuietInit == Init => Quiet
  BY DEF Init, Quiet, Single, Gone, Found, RowSurvives, Open, Fresh, Earned,
         Alive, NewRow, NoDrone

LEMMA QuietNext == Types /\ Quiet /\ [Next]_vars => Quiet'
  BY NextSingle, NextGone, NextFound, NextSurvives, NextOpen, NextFresh,
     NextEarned DEF Quiet

LEMMA QuietInvariance == Spec => []Quiet
<1>1. IInv => Types
  BY DEF IInv
<1> QED
  BY <1>1, Invariance, QuietInit, QuietNext, PTL DEF Spec

\* An instance keeps its row while it is there: whoever deletes the row for a
\* reset has found the key that the row is inserted with again.
THEOREM RowsSurvive == Spec => []RowSurvives
<1>1. Quiet => RowSurvives
  BY DEF Quiet
<1> QED
  BY <1>1, QuietInvariance, PTL

\* A row that says verified, with no drone and no operation at work, tells of
\* the instance as it is now, if the last operation came to start its drone.
THEOREM VerdictsAreEarned == Spec => []VerdictIsEarned
<1>1. Quiet => VerdictIsEarned
  BY DEF Quiet, Earned, VerdictIsEarned, Alive, Calm
<1> QED
  BY <1>1, QuietInvariance, PTL
=============================================================================
