---------------------------- MODULE DriverCommit ----------------------------
(***************************************************************************)
(* One commit of a system delta: HandleSystemCall.commitDelta dispatches   *)
(* the driver deltas to their drivers, each of which asks its remote       *)
(* resource manager to commit and polls it, and polls the drivers' Futures *)
(* every minute.  Two drivers are modelled: SenseRMDriver, and             *)
(* StackSystemDriver, which deletes the remote's system instance at the    *)
(* end.                                                                    *)
(*                                                                         *)
(* Time is counted in half minutes, the interval at which the drivers      *)
(* poll.  A call to a remote has no read time-out and may take any time or *)
(* never end; what the code does between two sleeps takes none.            *)
(***************************************************************************)
EXTENDS Integers, FiniteSets

CONSTANTS
  Dsd,         \* the driver system deltas of the system delta
  Sense,       \* those of a SenseRMDriver, the others' is StackSystemDriver
  SensePolls,  \* 10, maxNumPolls of SenseRMDriver.commitDelta
  StackPolls,  \* 20, maxNumPolls of StackSystemDriver.commitDelta
  SysPolls     \* 20, timeoutMinutes of HandleSystemCall.commitDelta

ASSUME DriverCommitAssumption ==
  /\ IsFiniteSet(Dsd)
  /\ Sense \subseteq Dsd
  /\ SensePolls \in Nat \ {0}
  /\ StackPolls \in Nat \ {0}
  /\ SysPolls \in Nat \ {0}

VARIABLES
  sys,      \* where commitDelta of the system stands
  todo,     \* driver deltas its loop has yet to dispatch
  minute,   \* its loop counter
  sysWait,  \* half minutes it has still to sleep
  dsd,      \* of each driver delta: where its driver's commitDelta stands
  polls,    \* maxNumPolls of each
  wait,     \* half minutes each has still to sleep
  remote,   \* the state of each at its remote
  called    \* half minutes each call was waited for (read by no action)

sysVars == <<sys, todo, minute, sysWait>>
driverVars == <<dsd, polls, wait>>
vars == <<sysVars, driverVars, remote, called>>

Limit(d) == IF d \in Sense THEN SensePolls ELSE StackPolls
Waiting == {"queued", "put", "get", "delete"}      \* for somebody else
Settled == {"done", "thrown"}                      \* the Future isDone()
Ended == {"success", "failed", "timed_out"}
Dispatched == {d \in Dsd : dsd[d] # "none"}

\* The driver deltas marked DELETED are skipped; all of them may be.
Init ==
  /\ sys = "dispatch"
  /\ todo \in SUBSET Dsd
  /\ minute = 0
  /\ sysWait = 0
  /\ dsd = [d \in Dsd |-> "none"]
  /\ polls = [d \in Dsd |-> Limit(d)]
  /\ wait = [d \in Dsd |-> 0]
  /\ remote = [d \in Dsd |-> "propagated"]
  /\ called = [d \in Dsd |-> 0]

-----------------------------------------------------------------------------
(***************************************************************************)
(* HandleSystemCall.commitDelta.                                           *)
(***************************************************************************)

Dispatch(d) ==
  /\ sys = "dispatch" /\ d \in todo
  /\ todo' = todo \ {d}
  /\ dsd' = [dsd EXCEPT ![d] = "queued"]
  /\ UNCHANGED <<sys, minute, sysWait, polls, wait, remote, called>>

\* The driver instance is gone or its bean is not found: those dispatched
\* before go on, and nobody reads their Futures.
DispatchFails ==
  /\ sys = "dispatch" /\ todo # {}
  /\ sys' = "failed"
  /\ UNCHANGED <<todo, minute, sysWait, driverVars, remote, called>>

AllDispatched ==
  /\ sys = "dispatch" /\ todo = {}
  /\ sys' = "poll"
  /\ UNCHANGED <<todo, minute, sysWait, driverVars, remote, called>>

\* get() of a Future that is done throws what the driver threw.
SeesFailure ==
  /\ sys = "poll"
  /\ \E d \in Dispatched : dsd[d] = "thrown"
  /\ sys' = "failed"
  /\ UNCHANGED <<todo, minute, sysWait, driverVars, remote, called>>

\* Mutant of SeesSuccess: a Future that is done is taken for a success.
SeesSuccessIfDone ==
  /\ sys = "poll"
  /\ \A d \in Dispatched : dsd[d] \in Settled
  /\ sys' = "success"
  /\ UNCHANGED <<todo, minute, sysWait, driverVars, remote, called>>

SeesSuccess ==
  /\ sys = "poll"
  /\ \A d \in Dispatched : dsd[d] = "done"
  /\ sys' = "success"
  /\ UNCHANGED <<todo, minute, sysWait, driverVars, remote, called>>

\* Mutant of SeesPending: a minute of half a minute.
SeesPendingTooShort ==
  /\ sys = "poll"
  /\ \E d \in Dispatched : dsd[d] \notin Settled
  /\ sys' = "sleep"
  /\ sysWait' = 1
  /\ minute' = minute + 1
  /\ UNCHANGED <<todo, driverVars, remote, called>>

\* The first Future in the map's order that is not done ends the pass, so
\* that a failure behind it is not seen yet; then a minute of sleep.
SeesPending ==
  /\ sys = "poll"
  /\ \E d \in Dispatched : dsd[d] \notin Settled
  /\ sys' = "sleep"
  /\ sysWait' = 2
  /\ minute' = minute + 1
  /\ UNCHANGED <<todo, driverVars, remote, called>>

\* Mutant of SysWakes: after the last minute it blocks on the Futures.
SysWakesBlocking ==
  /\ sys = "sleep" /\ sysWait = 0
  /\ minute < SysPolls \/ \A d \in Dispatched : dsd[d] \in Settled
  /\ sys' = IF minute < SysPolls THEN "poll" ELSE "timed_out"
  /\ UNCHANGED <<todo, minute, sysWait, driverVars, remote, called>>

\* The last minute's sleep is not followed by a look at the Futures.
SysWakes ==
  /\ sys = "sleep" /\ sysWait = 0
  /\ sys' = IF minute < SysPolls THEN "poll" ELSE "timed_out"
  /\ UNCHANGED <<todo, minute, sysWait, driverVars, remote, called>>

-----------------------------------------------------------------------------
(***************************************************************************)
(* commitDelta of the drivers.                                             *)
(***************************************************************************)

\* The asynchronous call starts with the request to commit (StackSystem-
\* Driver first takes the remote instance's id out of the properties).
Start(d) ==
  /\ dsd[d] = "queued"
  /\ dsd' = [dsd EXCEPT ![d] = "put"]
  /\ UNCHANGED <<sysVars, polls, wait, remote, called>>

Sleeps(d) ==
  /\ dsd' = [dsd EXCEPT ![d] = "asleep"]
  /\ wait' = [wait EXCEPT ![d] = 1]
  /\ polls' = [polls EXCEPT ![d] = @ - 1]

\* The remote has taken the request.
PutAccepted(d) ==
  /\ dsd[d] = "put" /\ remote[d] # "propagated"
  /\ Sleeps(d)
  /\ UNCHANGED <<sysVars, remote, called>>

\* Any other answer, none because the connection breaks, or a failure
\* before the request: an exception.  The request may have been taken.
CallFails(d) ==
  /\ dsd[d] \in Waiting
  /\ dsd' = [dsd EXCEPT ![d] = "thrown"]
  /\ UNCHANGED <<sysVars, polls, wait, remote, called>>

Wakes(d) ==
  /\ dsd[d] = "asleep" /\ wait[d] = 0
  /\ dsd' = [dsd EXCEPT ![d] = "get"]
  /\ UNCHANGED <<sysVars, polls, wait, remote, called>>

\* The polling loop is over: StackSystemDriver deletes the remote instance.
AfterPolling(d) ==
  /\ dsd' = [dsd EXCEPT ![d] = IF d \in Sense THEN "done" ELSE "delete"]
  /\ UNCHANGED <<polls, wait>>

\* Mutant of StillCommitting: the polls are not limited.
StillCommittingNoLimit(d) ==
  /\ dsd[d] = "get" /\ remote[d] = "committing"
  /\ Sleeps(d)
  /\ UNCHANGED <<sysVars, remote, called>>

\* The loop goes round, or its limit is reached: the driver goes on as
\* if the commit had succeeded.
StillCommitting(d) ==
  /\ dsd[d] = "get" /\ remote[d] = "committing"
  /\ IF polls[d] > 0 THEN Sleeps(d) ELSE AfterPolling(d)
  /\ UNCHANGED <<sysVars, remote, called>>

IsCommitted(d) ==
  /\ dsd[d] = "get" /\ remote[d] = "committed"
  /\ AfterPolling(d)
  /\ UNCHANGED <<sysVars, remote, called>>

HasFailed(d) ==
  /\ dsd[d] = "get" /\ remote[d] = "failed"
  /\ dsd' = [dsd EXCEPT ![d] = "thrown"]
  /\ UNCHANGED <<sysVars, polls, wait, remote, called>>

\* The remote instance is deleted, whatever its commit is doing.
IsDeleted(d) ==
  /\ dsd[d] = "delete"
  /\ dsd' = [dsd EXCEPT ![d] = "done"]
  /\ UNCHANGED <<sysVars, polls, wait, remote, called>>

-----------------------------------------------------------------------------
\* The remote: takes the request or not, and ends its commit or not.
RemoteAccepts(d) ==
  /\ dsd[d] = "put" /\ remote[d] = "propagated"
  /\ remote' = [remote EXCEPT ![d] = "committing"]
  /\ UNCHANGED <<sysVars, driverVars, called>>

RemoteEnds(d) ==
  /\ remote[d] = "committing"
  /\ \E r \in {"committed", "failed"} : remote' = [remote EXCEPT ![d] = r]
  /\ UNCHANGED <<sysVars, driverVars, called>>

Asleep == {d \in Dsd : dsd[d] = "asleep"}

\* Half a minute passes: everybody asleep has so much less to sleep, nobody
\* who is due is overtaken, and calls take their time.  Of interest only
\* while somebody sleeps.
Tick ==
  /\ sys = "sleep" \/ (sys \in Ended /\ Asleep # {})
  /\ sys = "sleep" => sysWait > 0
  /\ \A d \in Asleep : wait[d] > 0
  /\ sysWait' = IF sys = "sleep" THEN sysWait - 1 ELSE sysWait
  /\ wait' = [d \in Dsd |-> IF d \in Asleep THEN wait[d] - 1 ELSE wait[d]]
  /\ called' = [d \in Dsd |-> IF dsd[d] \in Waiting THEN called[d] + 1
                              ELSE called[d]]
  /\ UNCHANGED <<sys, todo, minute, dsd, polls, remote>>

System ==
  \/ \E d \in Dsd : Dispatch(d)
  \/ DispatchFails \/ AllDispatched \/ SeesFailure \/ SeesSuccess
  \/ SeesPending \/ SysWakes

Driver(d) ==
  \/ Start(d) \/ PutAccepted(d) \/ CallFails(d) \/ Wakes(d)
  \/ StillCommitting(d) \/ IsCommitted(d) \/ HasFailed(d) \/ IsDeleted(d)

Next ==
  \/ System
  \/ \E d \in Dsd : Driver(d) \/ RemoteAccepts(d) \/ RemoteEnds(d)
  \/ Tick

\* The threads of the system and of the drivers are scheduled and time
\* passes; a remote owes nothing.
Spec ==
  /\ Init /\ [][Next]_vars
  /\ WF_vars(System) /\ WF_vars(Tick)
  /\ \A d \in Dsd : WF_vars(Wakes(d))

-----------------------------------------------------------------------------
\* The variables have their types; no driver polls more often than its
\* limit, nor the system for longer than its minutes.
CommitTypeOK ==
  /\ sys \in {"dispatch", "poll", "sleep"} \cup Ended
  /\ todo \in SUBSET Dsd
  /\ minute \in 0..SysPolls
  /\ sysWait \in 0..2
  /\ dsd \in [Dsd -> {"none", "asleep"} \cup Waiting \cup Settled]
  /\ polls \in [Dsd -> Nat] /\ \A d \in Dsd : polls[d] <= Limit(d)
  /\ wait \in [Dsd -> {0, 1}]
  /\ remote \in [Dsd -> {"propagated", "committing", "committed", "failed"}]
  /\ called \in [Dsd -> Nat]

\* "commit successful at minute %d": when the system reports success, every
\* remote took the request, none is known to have failed, and each has
\* committed unless its driver's polls were used up.
SuccessIsEarned ==
  sys = "success" =>
    /\ todo = {}
    /\ \A d \in Dispatched :
         /\ dsd[d] = "done" /\ remote[d] # "propagated"
         /\ remote[d] # "committed" => polls[d] = 0

\* "commit polling timed out": not because the drivers' own limits were too
\* long for the system's 20 minutes, but because calls to one remote took up
\* what is left of them, a minute excepted.
TimesOutOnlyWhenSlow ==
  sys = "timed_out" =>
    \E d \in Dispatched : called[d] + Limit(d) >= 2 * (SysPolls - 1)

\* "commit polling timed out - commit unsuccessful": a commit for which a
\* time-out was reached is not reported as a success.
SuccessIsCommitted ==
  sys = "success" => \A d \in Dispatched : remote[d] = "committed"

\* The commit ends with a success or an exception, even if remotes hang:
\* checkStatus of the service waits for its Future.
CommitEnds == <>(sys \in Ended)
=============================================================================
