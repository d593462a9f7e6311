---------------------------- MODULE Verification ----------------------------
(***************************************************************************)
(* Verification of one service instance: VerificationHandler starts a      *)
(* VerificationDrone, a thread that asks the server up to 50 times whether *)
(* the instance is as ordered, and all of them meet in one row of the      *)
(* table service_verification.                                             *)
(*                                                                         *)
(* Each SQL statement is one step, they commit by themselves; a call for   *)
(* the verification and the handling of its answer are two.  What is asked *)
(* about is another thing (epoch) once an operation has reverted the order *)
(* and again once it has committed it; only after that the operation       *)
(* starts its drone, if it gets so far.  PAUSE is left out, nothing in the *)
(* program ever sends it.                                                  *)
(***************************************************************************)
EXTENDS Integers, FiniteSets

CONSTANTS
  Drone,      \* handlers, each with the thread it may start (bound)
  MaxRuns,    \* runs a drone makes (50)
  MaxEpoch,   \* changes of the instance or of its order (bound)
  MaxFaults   \* calls that fail or are garbled, restarts (bound)

ASSUME VerificationAssumption ==
  /\ MaxRuns \in Nat \ {0}
  /\ MaxEpoch \in Nat
  /\ MaxFaults \in Nat

VARIABLES
  instance,   \* is the instance still there?
  row,        \* its row: there, state, pending, verdict, run
  drone,      \* what each drone is doing, and before it the handler
  sender,     \* a handler that found RUNNING and is about to send STOP
  epoch,      \* how often the instance has been changed
  faults,     \* failures so far
  verified,   \* epochs found as ordered (history)
  alone,      \* there were never two drones at once (history)
  died,       \* a drone was killed by an error or a restart (history)
  abandoned   \* an operation ended without its drone, and none was started
              \* since (history)

history == <<verified, alone, died, abandoned>>
vars == <<instance, row, drone, sender, epoch, faults, history>>

NewRow == [there |-> TRUE, state |-> "INIT", pending |-> FALSE,
           verdict |-> "none", run |-> 0]
NoDrone == [pc |-> "none", run |-> 0, found |-> FALSE, ok |-> FALSE,
            tried |-> 0]

\* Where a handler may be in an operation: before its commit and after it.
Operating == {"cancelling", "cancelled", "forcing", "forced"}

\* Where a drone may be: in verify's loop, clearing, resetting.
Loop == {"top", "asking", "answered", "success", "sleeping", "failure", "stop"}
Clearing == {"clearSelect", "clearDelete", "clearInsert"}
Resetting == {"resetSelect", "resetDelete", "resetInsert"}
Active == Loop \cup Clearing \cup Resetting \cup {"started", "stopped"}
Alive == {d \in Drone : drone[d].pc \in Active}

Init ==
  /\ instance = TRUE
  /\ row = NewRow
  /\ drone = [d \in Drone |-> NoDrone]
  /\ sender = FALSE
  /\ epoch = 0
  /\ faults = 0
  /\ verified = {}
  /\ alone = TRUE
  /\ died = FALSE
  /\ abandoned = FALSE

-----------------------------------------------------------------------------
(***************************************************************************)
(* The handlers that start a drone.                                        *)
(***************************************************************************)

\* An UPDATE of a row that is not there changes nothing.
Update(r) == row' = IF row.there THEN r ELSE row

Go(d, pc) == drone' = [drone EXCEPT ![d].pc = pc]

\* A drone is about to be started.
Begin(d, from, to) ==
  /\ drone[d].pc = from
  /\ Go(d, to)
  /\ alone' = (alone /\ Alive = {})
  /\ abandoned' = FALSE
  /\ UNCHANGED <<instance, row, sender, epoch, faults, verified, died>>

\* verify, and the end of orchestrateInstance.
Start(d) == instance /\ Begin(d, "none", "started")

\* cancel and force_cancel, and the like for reinstate: the order is turned
\* round.
Revert(d) ==
  /\ drone[d].pc = "none" /\ instance /\ epoch < MaxEpoch
  /\ \E pc \in {"cancelling", "forcing"} : Go(d, pc)
  /\ epoch' = epoch + 1
  /\ UNCHANGED <<instance, row, sender, faults, history>>

\* force_retry: the order stays.
Retry(d) ==
  /\ drone[d].pc = "none" /\ instance
  /\ Go(d, "forcing")
  /\ UNCHANGED <<instance, row, sender, epoch, faults, history>>

\* The order is propagated, which nobody sees, and committed: the instance
\* is another one.
Commit(d) ==
  /\ instance /\ epoch < MaxEpoch
  /\ \/ drone[d].pc = "cancelling" /\ Go(d, "cancelled")
     \/ drone[d].pc = "forcing" /\ Go(d, "forced")
  /\ epoch' = epoch + 1
  /\ UNCHANGED <<instance, row, sender, faults, history>>

\* return 3, 4 or 5, or an exception: no drone is started, and the row stays
\* as it was.
GiveUp(d) ==
  /\ drone[d].pc \in Operating
  /\ Go(d, "done")
  /\ abandoned' = TRUE
  /\ UNCHANGED <<instance, row, sender, epoch, faults, verified, alone, died>>

\* The operation found COMMITTED.  After a cancel the row is as it was.
StartAfterCancel(d) == Begin(d, "cancelled", "started")

\* After force_cancel and force_retry clearVerification comes first.
StartAfterForce(d) == Begin(d, "forced", "clearSelect")

\* The three statements of clearVerification and resetVerification; the
\* last one needs the key that the first has found.
Select(d, from, to) ==
  /\ drone[d].pc = from
  /\ drone' = [drone EXCEPT ![d].pc = to, ![d].found = row.there]
  /\ UNCHANGED row

Delete(d, from, to) ==
  /\ drone[d].pc = from
  /\ Go(d, to)
  /\ row' = [row EXCEPT !.there = FALSE]

Insert(d, from, to, run) ==
  /\ drone[d].pc = from
  /\ drone' = [drone EXCEPT ![d].pc = to, ![d].run = run]
  /\ row' = IF instance /\ drone[d].found /\ ~ row.there THEN NewRow ELSE row

Clear(d) ==
  /\ \/ Select(d, "clearSelect", "clearDelete")
     \/ Delete(d, "clearDelete", "clearInsert")
     \/ Insert(d, "clearInsert", "started", 0)
  /\ UNCHANGED <<instance, sender, epoch, faults, history>>

-----------------------------------------------------------------------------
(***************************************************************************)
(* VerificationDrone.run and verify.                                       *)
(***************************************************************************)

\* Mutant of InitData: what has been verified stays so.
InitDataTrusts(d) ==
  /\ drone[d].pc = "started"
  /\ IF row.there /\ row.state = "INIT"
     THEN drone' = [drone EXCEPT ![d].pc = "top", ![d].run = row.run + 1]
     ELSE Go(d, "done")
  /\ UNCHANGED <<instance, row, sender, epoch, faults, history>>

\* Reads state and run.  Without a row it ends with an exception; next to a
\* drone that runs it ends, too.
InitData(d) ==
  /\ drone[d].pc = "started"
  /\ CASE ~ row.there \/ row.state = "RUNNING" -> Go(d, "done")
       [] row.there /\ row.state = "FINISHED" ->
            drone' = [drone EXCEPT ![d].pc = "resetSelect", ![d].run = row.run]
       [] row.there /\ row.state = "INIT" ->
            drone' = [drone EXCEPT ![d].pc = "top", ![d].run = row.run + 1]
  /\ UNCHANGED <<instance, row, sender, epoch, faults, history>>

\* Mutant of Reset: goes on with the number of runs of the last time.
ResetKeepsRun(d) ==
  /\ \/ Select(d, "resetSelect", "resetDelete")
     \/ Delete(d, "resetDelete", "resetInsert")
     \/ Insert(d, "resetInsert", "top", drone[d].run + 1)
  /\ UNCHANGED <<instance, sender, epoch, faults, history>>

\* Mutant of Reset: looks for the key when the row is gone.
ResetDeletesFirst(d) ==
  /\ \/ Delete(d, "resetSelect", "resetDelete")
     \/ Select(d, "resetDelete", "resetInsert")
     \/ Insert(d, "resetInsert", "top", 1)
  /\ UNCHANGED <<instance, sender, epoch, faults, history>>

Reset(d) ==
  /\ \/ Select(d, "resetSelect", "resetDelete")
     \/ Delete(d, "resetDelete", "resetInsert")
     \/ Insert(d, "resetInsert", "top", 1)
  /\ UNCHANGED <<instance, sender, epoch, faults, history>>

\* Mutant of ReadPending: one run too many.
ReadPendingLate(d) ==
  /\ drone[d].pc = "top"
  /\ Go(d, CASE drone[d].run > MaxRuns + 1 -> "failure"
             [] row.there /\ row.pending -> "stop"
             [] OTHER -> "asking")
  /\ UNCHANGED <<instance, row, sender, epoch, faults, history>>

\* The head of the loop.  Without a row the command of the last run counts:
\* none, or null in the first one, which ends the thread.
ReadPending(d) ==
  /\ drone[d].pc = "top"
  /\ Go(d, CASE drone[d].run > MaxRuns -> "failure"
             [] drone[d].run <= MaxRuns /\ row.there /\ row.pending -> "stop"
             [] drone[d].run <= MaxRuns /\ ~ row.there /\ drone[d].tried = 0 -> "done"
             [] OTHER -> "asking")
  /\ UNCHANGED <<instance, row, sender, epoch, faults, history>>

\* The server compares the instance as it is now with the model.
Ask(d) ==
  /\ drone[d].pc = "asking" /\ instance
  /\ \E ok \in BOOLEAN :
       /\ drone' = [drone EXCEPT ![d].pc = "answered", ![d].ok = ok,
                                 ![d].tried = @ + 1]
       /\ verified' = IF ok THEN verified \cup {epoch} ELSE verified
  /\ UNCHANGED <<instance, row, sender, epoch, faults, alone, died, abandoned>>

\* Mutant of AskFails: tries again without counting the run.
AskFailsForFree(d) ==
  /\ drone[d].pc = "asking"
  /\ ~ instance \/ faults < MaxFaults
  /\ faults' = IF instance THEN faults + 1 ELSE faults
  /\ Go(d, "top")
  /\ UNCHANGED <<instance, row, sender, epoch, history>>

\* An IOException, as always when there is no instance: the run is over.
AskFails(d) ==
  /\ drone[d].pc = "asking"
  /\ ~ instance \/ faults < MaxFaults
  /\ faults' = IF instance THEN faults + 1 ELSE faults
  /\ drone' = [drone EXCEPT ![d].pc = "sleeping", ![d].tried = @ + 1]
  /\ UNCHANGED <<instance, row, sender, epoch, history>>

\* The answer is no JSON: verify ends, the row stays as it is.
AskGarbled(d) ==
  /\ drone[d].pc = "asking" /\ instance /\ faults < MaxFaults
  /\ faults' = faults + 1
  /\ Go(d, "done")
  /\ died' = TRUE
  /\ UNCHANGED <<instance, row, sender, epoch, verified, alone, abandoned>>

Record(d) ==
  /\ drone[d].pc = "answered"
  /\ Update([row EXCEPT !.state = "RUNNING", !.verdict = "open",
                        !.run = drone[d].run])
  /\ Go(d, IF drone[d].ok THEN "success" ELSE "sleeping")
  /\ UNCHANGED <<instance, sender, epoch, faults, history>>

Success(d) ==
  /\ drone[d].pc = "success"
  /\ Update([row EXCEPT !.state = "FINISHED", !.verdict = "yes"])
  /\ Go(d, "done")
  /\ UNCHANGED <<instance, sender, epoch, faults, history>>

Sleep(d) ==
  /\ drone[d].pc = "sleeping"
  /\ drone' = [drone EXCEPT ![d].pc = "top", ![d].run = @ + 1]
  /\ UNCHANGED <<instance, row, sender, epoch, faults, history>>

GivenUp == [row EXCEPT !.state = "FINISHED", !.verdict = "no", !.run = 0]

\* Mutant of Failure: the verdict without the state.
FailureHalfWritten(d) ==
  /\ drone[d].pc = "failure"
  /\ Update([row EXCEPT !.verdict = "no", !.run = 0])
  /\ Go(d, "done")
  /\ UNCHANGED <<instance, sender, epoch, faults, history>>

Failure(d) ==
  /\ drone[d].pc = "failure"
  /\ Update(GivenUp)
  /\ Go(d, "done")
  /\ UNCHANGED <<instance, sender, epoch, faults, history>>

\* STOP: two statements, the second takes the command away.
Stop(d) ==
  /\ \/ drone[d].pc = "stop" /\ Update(GivenUp) /\ Go(d, "stopped")
     \/ /\ drone[d].pc = "stopped"
        /\ Update([row EXCEPT !.pending = FALSE])
        /\ Go(d, "done")
  /\ UNCHANGED <<instance, sender, epoch, faults, history>>

-----------------------------------------------------------------------------
(***************************************************************************)
(* What happens to them.                                                   *)
(***************************************************************************)

\* stopVerification, by unverify or because an operation failed: reads the
\* state, and writes the command if a drone is running.
SendAction ==
  /\ \/ ~ sender /\ row.there /\ row.state = "RUNNING"
        /\ sender' = TRUE /\ UNCHANGED row
     \/ sender /\ sender' = FALSE /\ Update([row EXCEPT !.pending = TRUE])
  /\ UNCHANGED <<instance, drone, epoch, faults, history>>

\* The instance is deleted, and its row with it.
DeleteInstance ==
  /\ instance /\ instance' = FALSE
  /\ row' = [row EXCEPT !.there = FALSE]
  /\ UNCHANGED <<drone, sender, epoch, faults, history>>

\* Handlers that are in an operation.
Busy == {d \in Drone : drone[d].pc \in Operating}

\* The server is restarted: the threads are gone, the row is not.
Restart ==
  /\ Alive \cup Busy # {} /\ faults < MaxFaults
  /\ faults' = faults + 1
  /\ drone' = [d \in Drone |->
                 IF d \in Alive \cup Busy THEN [drone[d] EXCEPT !.pc = "done"] ELSE drone[d]]
  /\ sender' = FALSE
  /\ died' = TRUE
  /\ UNCHANGED <<instance, row, epoch, verified, alone, abandoned>>

Run(d) ==
  \/ Clear(d) \/ InitData(d) \/ Reset(d) \/ ReadPending(d) \/ Ask(d) \/ AskFails(d)
  \/ Record(d) \/ Success(d) \/ Sleep(d) \/ Failure(d) \/ Stop(d)

Next ==
  \/ \E d \in Drone : \/ Start(d) \/ Revert(d) \/ Retry(d) \/ Commit(d) \/ GiveUp(d)
                      \/ StartAfterCancel(d) \/ StartAfterForce(d)
                      \/ Run(d) \/ AskGarbled(d)
  \/ SendAction \/ DeleteInstance \/ Restart

\* Threads run, and the server answers or fails.
Spec == Init /\ [][Next]_vars /\ \A d \in Drone : WF_vars(Run(d))

-----------------------------------------------------------------------------
\* The variables have their types.
VerificationTypeOK ==
  /\ instance \in BOOLEAN
  /\ row \in [there : BOOLEAN, state : {"INIT", "RUNNING", "FINISHED"},
              pending : BOOLEAN, verdict : {"none", "open", "yes", "no"},
              run : 0..MaxRuns]
  /\ drone \in [Drone ->
       [pc : Active \cup Operating \cup {"none", "done"}, run : 0..MaxRuns + 1,
        found : BOOLEAN, ok : BOOLEAN, tried : 0..MaxRuns]]
  /\ sender \in BOOLEAN
  /\ epoch \in 0..MaxEpoch
  /\ faults \in 0..MaxFaults
  /\ verified \in SUBSET (0..MaxEpoch)
  /\ alone \in BOOLEAN
  /\ died \in BOOLEAN
  /\ abandoned \in BOOLEAN

\* A row that says RUNNING, next to which no drone will start ("attempted to
\* start, but already started"), has a drone in its loop that will end and
\* say so, however many were started and whoever wrote last - unless one
\* was killed.
RunningHasDrone ==
  row.there /\ row.state = "RUNNING" /\ ~ died
    => \E d \in Drone : drone[d].pc \in Loop

\* "If hit max runs without success, verification has failed": no drone,
\* first or later, gives up before it has asked MaxRuns times.
FailureIsTried ==
  \A d \in Drone : drone[d].pc = "failure" => drone[d].tried = MaxRuns

\* If drones never overlapped and none was killed: when no drone and no
\* operation is at work and the row says verified, the instance was found so
\* as it is now, not as it was before it was cancelled or retried - unless
\* the last operation ended without a drone of its own, as it does when it
\* fails, and none was started since.
VerdictIsEarned ==
  /\ alone /\ ~ died /\ ~ abandoned
  /\ Alive = {} /\ Busy = {} /\ row.there /\ row.verdict = "yes"
  => epoch \in verified

\* If drones never overlapped and none was killed, an instance keeps its row
\* through every reset (two at once may lose it).
RowSurvives ==
  alone /\ ~ died /\ instance /\ ~ row.there
    => \E d \in Drone : drone[d].pc \in {"clearInsert", "resetInsert"}

\* Every drone ends, also that of an instance that is deleted meanwhile.
DronesEnd == \A d \in Drone : d \in Alive ~> d \notin Alive
=============================================================================
