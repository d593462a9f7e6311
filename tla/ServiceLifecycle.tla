-------------------------- MODULE ServiceLifecycle --------------------------
(***************************************************************************)
(* The life of one service instance: the operations of HandleServiceCall   *)
(* on its status and its queue of service deltas, as the REST resource     *)
(* calls them (an operation that throws leaves the instance FAILED).       *)
(*                                                                         *)
(* The bean is stateless and the instance is one object in a static cache, *)
(* so several requests work on it at once.  An operation is split where it *)
(* waits for a worker, for a driver, or for another bean: what it read is  *)
(* kept in call[c] and may be stale when it goes on.  Between two such     *)
(* points an operation is one step: it is a few lines on the cached        *)
(* objects.  The exception is checkStatus, whose transient FAILED is seen  *)
(* by others.                                                              *)
(*                                                                         *)
(* The properties multiPropagate, multiCommit and revertAll are left at    *)
(* their default, false.  No delta and no instance is ever NEGOTIATING:    *)
(* EJBExceptionNegotiable has no message, so the branch of propagateDeltas *)
(* that would say so ends with a null pointer, if the container lets that  *)
(* exception through at all.                                               *)
(***************************************************************************)
EXTENDS Naturals, Sequences, FiniteSets

CONSTANTS
  Caller,     \* concurrent requests that change the instance
  Poller,     \* concurrent requests for its status (a client that does one
              \* thing after the other is in both sets)
  MaxDelta    \* bound on the deltas added to the instance

ASSUME LifecycleAssumption ==
  /\ MaxDelta \in Nat \ {0}
  /\ IsFiniteSet(Caller \cup Poller)

VARIABLES
  status,     \* ServiceInstance.status
  delta,      \* ServiceInstance.serviceDeltas, see Delta
  call        \* what each request is waiting for

vars == <<status, delta, call>>

InstanceStatus ==
  {"INIT", "COMPILED", "PROPAGATED", "PROPAGATED-PARTIAL", "COMMITTING",
   "COMMITTING-PARTIAL", "COMMITTED", "READY", "FAILED"}

\* ServiceDelta.status, the stored driver deltas of its system delta (none
\* stored, stored but empty, to be committed, all marked DELETED), the Future
\* cached with its SystemInstance, and how commits of it have ended so far
\* (read by no operation).
Delta ==
  [status : {"INIT", "PROPAGATED", "COMMITTING", "COMMITTED", "FAILED"},
   driver : {"none", "empty", "live", "deleted"},
   commit : {"null", "running", "success", "thrown"},
   ended : SUBSET {"success", "thrown"}]

NewDelta ==
  [status |-> "INIT", driver |-> "none", commit |-> "null", ended |-> {}]

\* A request that checks a delta holds its Future: the cached one, or one
\* that another commit has replaced, which is then all that is left of it.
Idle == [at |-> "idle", d |-> 0, future |-> "cached"]
WaitFor(c, what, d) ==
  call' = [call EXCEPT ![c] = [at |-> what, d |-> d, future |-> "cached"]]
Leave(c) == call' = [call EXCEPT ![c] = Idle]

\* compiles under way count: the bound MaxDelta holds for them as well.
Room == Len(delta) + Cardinality({c \in Caller : call[c].at = "compile"})
          < MaxDelta

\* The first delta of the queue in status s, or the end of the queue.
FirstIn(s) ==
  LET hits == {d \in DOMAIN delta : delta[d].status = s}
  IN  IF hits = {} THEN Len(delta) + 1
      ELSE CHOOSE d \in hits : \A e \in hits : d <= e

\* Nothing but committing (or committed) deltas before d.
Clear(d) ==
  \A e \in 1..(d - 1) : delta[e].status \in {"COMMITTING", "COMMITTED"}

\* Mutant of Summary: "COMMITTED-PARTIAL", as the messages have it.
SummaryMisnamed(ds, old) ==
  LET has(s) == \E d \in DOMAIN ds : ds[d].status = s
  IN  CASE has("PROPAGATED") /\ has("INIT") -> "PROPAGATED-PARTIAL"
        [] has("PROPAGATED") /\ ~has("INIT") /\ ~has("COMMITTING") ->
             "PROPAGATED"
        [] has("PROPAGATED") /\ ~has("INIT") /\ has("COMMITTING") ->
             "COMMITTED-PARTIAL"
        [] ~has("PROPAGATED") /\ has("COMMITTING") -> "COMMITTING"
        [] OTHER -> old

\* Mutant of Summary: COMMITTING is asked for first.
SummaryOrder(ds, old) ==
  LET has(s) == \E d \in DOMAIN ds : ds[d].status = s
  IN  CASE has("COMMITTING") -> "COMMITTING"
        [] ~has("COMMITTING") /\ has("PROPAGATED") /\ has("INIT") ->
             "PROPAGATED-PARTIAL"
        [] ~has("COMMITTING") /\ has("PROPAGATED") /\ ~has("INIT") ->
             "PROPAGATED"
        [] OTHER -> old

\* The loop that ends propagateDeltas, commitDeltas and propagateRetry.
Summary(ds, old) ==
  LET has(s) == \E d \in DOMAIN ds : ds[d].status = s
  IN  CASE has("PROPAGATED") /\ has("INIT") -> "PROPAGATED-PARTIAL"
        [] has("PROPAGATED") /\ ~has("INIT") /\ ~has("COMMITTING") ->
             "PROPAGATED"
        [] has("PROPAGATED") /\ ~has("INIT") /\ has("COMMITTING") ->
             "COMMITTING-PARTIAL"
        [] ~has("PROPAGATED") /\ has("COMMITTING") -> "COMMITTING"
        [] OTHER -> old

Init ==
  /\ status = "INIT"
  /\ delta = <<>>
  /\ call = [c \in Caller \cup Poller |-> Idle]

\* The operation throws; its transaction is rolled back, and the resource
\* sets the status in one of its own.
Throw(c) ==
  /\ status' = "FAILED"
  /\ Leave(c)
  /\ UNCHANGED delta

-----------------------------------------------------------------------------
\* compileAddDelta: the worker runs (module Workflow), whatever the status.
Compile(c) ==
  /\ call[c] = Idle /\ Room
  /\ WaitFor(c, "compile", 0)
  /\ UNCHANGED <<status, delta>>

Compiled(c) ==
  /\ call[c].at = "compile"
  /\ \/ /\ delta' = Append(delta, NewDelta)
        /\ status' = "COMPILED"
        /\ Leave(c)
     \/ Throw(c)

\* recompileDeltas asks for status NEGOTIATING and is always refused.
Recompile(c) ==
  /\ call[c] = Idle
  /\ Throw(c)

-----------------------------------------------------------------------------
\* propagateDeltas, up to the system's propagateDelta of the first delta in
\* status INIT.  With none to propagate only the status is computed.
Propagate(c) ==
  LET d == FirstIn("INIT")
      refused == \/ status \notin {"COMPILED", "PROPAGATED-PARTIAL",
                                   "COMMITTING-PARTIAL"}
                 \/ delta = <<>>
                 \/ ~Clear(d)
  IN  /\ call[c] = Idle
      /\ \/ refused /\ Throw(c)
         \/ /\ ~refused /\ d \in DOMAIN delta
            /\ WaitFor(c, "propagate", d)
            /\ UNCHANGED <<status, delta>>
         \/ /\ ~refused /\ d \notin DOMAIN delta
            /\ status' = Summary(delta, status)
            /\ UNCHANGED <<delta, call>>

\* The stored driver deltas after a propagateDelta with outcome r.
StoredBy(r, old) ==
  CASE r = "live" -> "live"
    [] r = "empty" -> IF old = "none" THEN "empty" ELSE old
    [] r = "thrown" -> old

\* The system's propagateDelta stores driver deltas, if there is a change to
\* make at all, or throws.  What it throws is logged and otherwise ignored,
\* but its transaction, which is the caller's, stores nothing any more.
Propagated(c) ==
  /\ call[c].at = "propagate"
  /\ LET d == call[c].d
     IN  \/ \E r \in {"live", "empty", "thrown"} :
              /\ delta' = [delta EXCEPT ![d] =
                             [status |-> "PROPAGATED",
                              driver |-> StoredBy(r, @.driver),
                              commit |-> @.commit, ended |-> @.ended]]
              /\ status' = Summary(delta', status)
              /\ Leave(c)
         \/ Throw(c)

\* The driver deltas it had are marked DELETED.
Marked(old) == IF old = "live" THEN "deleted" ELSE old

\* propagateRetry of the last delta, whatever the status.  A fault of the
\* system is not caught here.
Retry(c) ==
  /\ call[c] = Idle
  /\ IF delta = <<>> THEN Throw(c)
     ELSE WaitFor(c, "retry", Len(delta)) /\ UNCHANGED <<status, delta>>

Retried(c) ==
  /\ call[c].at = "retry"
  /\ LET d == call[c].d
     IN  \/ \E r \in {"live", "empty"} :
              /\ delta' = [delta EXCEPT ![d] =
                             [status |-> "PROPAGATED",
                              driver |-> StoredBy(r, Marked(@.driver)),
                              commit |-> @.commit, ended |-> @.ended]]
              /\ status' = Summary(delta', status)
              /\ Leave(c)
         \/ Throw(c)

-----------------------------------------------------------------------------
\* commitDeltas, up to the call of the system's commitDelta for the first
\* PROPAGATED delta.
Commit(c, forced) ==
  LET d == FirstIn("PROPAGATED")
      refused == \/ status \notin {"PROPAGATED", "PROPAGATED-PARTIAL",
                                   "COMMITTING-PARTIAL"}
                 \/ delta = <<>>
                 \/ ~forced /\ ~Clear(d)
  IN  /\ call[c] = Idle
      /\ \/ refused /\ Throw(c)
         \/ /\ ~refused /\ d \in DOMAIN delta
            /\ WaitFor(c, "commit", d)
            /\ UNCHANGED <<status, delta>>
         \/ /\ ~refused /\ d \notin DOMAIN delta
            /\ status' = Summary(delta, status)
            /\ UNCHANGED <<delta, call>>

\* The request leaves a new Future of delta d; who is checking d keeps the
\* one it holds.
LeaveReplacing(c, d) ==
  LET holders == {p \in Poller : /\ call[p].at = "check" /\ call[p].d = d
                                 /\ call[p].future = "cached"}
      held == [at |-> "check", d |-> d, future |-> delta[d].commit]
  IN  call' = [q \in Caller \cup Poller |->
                 IF q = c THEN Idle
                 ELSE IF q \in holders THEN held ELSE call[q]]

\* Mutant of CommitStarted: the stored driver deltas are not looked at.
CommitStartedBlindly(c) ==
  /\ call[c].at = "commit"
  /\ LET d == call[c].d
     IN  /\ delta' = [delta EXCEPT ![d] =
                        [status |-> "COMMITTING", driver |-> @.driver,
                         commit |-> "running", ended |-> @.ended]]
         /\ status' = Summary(delta', status)
         /\ LeaveReplacing(c, d)

\* Without stored driver deltas it throws; otherwise the system's commit is
\* started and its Future kept.
CommitStarted(c) ==
  /\ call[c].at = "commit"
  /\ LET d == call[c].d
     IN  IF delta[d].driver \in {"none", "empty"} THEN Throw(c)
         ELSE /\ delta' = [delta EXCEPT ![d] =
                             [status |-> "COMMITTING", driver |-> @.driver,
                              commit |-> "running", ended |-> @.ended]]
              /\ status' = Summary(delta', status)
              /\ LeaveReplacing(c, d)

\* The system's asynchronous commitDelta ends: all drivers have succeeded,
\* or one has thrown, or 20 minutes have passed.
SystemCommitEnds(d) ==
  /\ d \in DOMAIN delta /\ delta[d].commit = "running"
  /\ \E r \in {"success", "thrown"} :
        delta' = [delta EXCEPT ![d] =
                    [status |-> @.status, driver |-> @.driver,
                     commit |-> r, ended |-> @.ended \cup {r}]]
  /\ UNCHANGED <<status, call>>

\* checkStatus looks at the last delta only, and at nothing unless the
\* instance is COMMITTING; it throws, without effect, when that delta is in
\* another status than those below.  Before it asks the Future it marks the
\* delta FAILED, for every other request to see.
CheckStatus(p) ==
  LET d == Len(delta)
  IN  /\ call[p] = Idle /\ status = "COMMITTING" /\ delta # <<>>
      /\ \/ /\ delta[d].status = "COMMITTING"
            /\ delta' = [delta EXCEPT ![d] =
                           [status |-> "FAILED", driver |-> @.driver,
                            commit |-> @.commit, ended |-> @.ended]]
            /\ WaitFor(p, "check", d)
            /\ UNCHANGED status
         \/ /\ delta[d].status \in {"COMMITTED", "FAILED"}
            /\ status' = delta[d].status
            /\ UNCHANGED <<delta, call>>

\* Mutant of Verdict: isDone() is taken for success.
VerdictDone(commit) ==
  IF commit = "running" THEN "COMMITTING" ELSE "COMMITTED"

\* Mutant of Verdict: an exception of the commit is taken for "not yet".
VerdictPatient(commit) ==
  IF commit = "success" THEN "COMMITTED" ELSE "COMMITTING"

\* What a Future says of the delta.
Verdict(commit) ==
  CASE commit = "running" -> "COMMITTING"
    [] commit = "success" -> "COMMITTED"
    [] commit = "thrown"  -> "FAILED"

\* What the Future p holds may say: one that was running when it was
\* replaced may have ended since.
Answers(p) ==
  CASE call[p].future = "cached"  -> {delta[call[p].d].commit}
    [] call[p].future = "running" -> {"running", "success", "thrown"}
    [] OTHER -> {call[p].future}

\* The delta gets its verdict, and so does the instance, unless a delta was
\* added meanwhile: then the iterator throws.
StatusChecked(p) ==
  /\ call[p].at = "check"
  /\ LET d == call[p].d
     IN  \E r \in Answers(p) :
           /\ delta' = [delta EXCEPT ![d] =
                          [status |-> Verdict(r), driver |-> @.driver,
                           commit |-> @.commit,
                           ended |-> @.ended \cup ({r} \ {"running"})]]
           /\ status' = IF d = Len(delta) THEN Verdict(r) ELSE status
  /\ Leave(p)

-----------------------------------------------------------------------------
\* revertDeltas appends the reverse of the last delta that was, or is being,
\* committed.
Revert(c, forced) ==
  LET reversable == {"COMMITTED", "COMMITTING"}
                      \cup (IF forced THEN {"FAILED"} ELSE {})
      refused == \/ ~forced /\ status \notin
                      {"PROPAGATED", "PROPAGATED-PARTIAL", "COMMITTING",
                       "COMMITTING-PARTIAL", "COMMITTED", "READY"}
                 \/ \A d \in DOMAIN delta : delta[d].status \notin reversable
  IN  /\ call[c] = Idle
      /\ \/ /\ ~refused /\ Room
            /\ delta' = Append(delta, NewDelta)
            /\ status' = IF status = "PROPAGATED" THEN "PROPAGATED-PARTIAL"
                         ELSE "COMMITTING-PARTIAL"
            /\ UNCHANGED call
         \* refused, or the coordinator has no reference model to offer
         \/ Throw(c)

\* verifyDelta finds the last delta in the reference model, whatever the
\* status.
Verify ==
  /\ delta # <<>>
  /\ status' = "READY"
  /\ UNCHANGED <<delta, call>>

-----------------------------------------------------------------------------
Request(c) ==
  \/ Compile(c) \/ Recompile(c) \/ Propagate(c) \/ Retry(c)
  \/ \E forced \in BOOLEAN : Commit(c, forced) \/ Revert(c, forced)

Response(c) == Compiled(c) \/ Propagated(c) \/ Retried(c) \/ CommitStarted(c)

Next ==
  \/ \E p \in Poller : CheckStatus(p) \/ StatusChecked(p)
  \/ \E c \in Caller : Request(c) \/ Response(c)
  \/ \E d \in 1..MaxDelta : SystemCommitEnds(d)
  \/ Verify

\* The system's commit has a time-out, and whoever commits (ServiceEngine,
\* ServiceHandler) asks for the status every five seconds until it is no
\* longer COMMITTING.
Spec == /\ Init /\ [][Next]_vars
        /\ \A d \in 1..MaxDelta : WF_vars(SystemCommitEnds(d))
        /\ \A p \in Poller : /\ WF_vars(CheckStatus(p))
                            /\ WF_vars(StatusChecked(p))

-----------------------------------------------------------------------------
\* The statuses are those the operations set, and the delta a request waits
\* for is in the queue when it goes on.
ServiceTypeOK ==
  /\ status \in InstanceStatus
  /\ delta \in Seq(Delta)
  /\ call \in [Caller \cup Poller ->
               [at : {"idle", "compile", "propagate", "retry", "commit",
                      "check"},
                d : Nat,
                future : {"cached", "running", "success", "thrown"}]]
  /\ \A c \in Caller \cup Poller :
        call[c].at \notin {"idle", "compile"} => call[c].d \in DOMAIN delta

\* Nothing is committed that was not really propagated: a fault swallowed
\* by propagateDeltas is caught at the latest when the delta is committed,
\* whichever retries and second requests came in between.
CommitIsBacked ==
  \A d \in DOMAIN delta :
    delta[d].status \in {"COMMITTING", "COMMITTED", "FAILED"} =>
      delta[d].driver \in {"live", "deleted"} /\ delta[d].commit # "null"

\* The status of this delta is being asked for.
UnderCheck(d) == \E p \in Poller : call[p].at = "check" /\ call[p].d = d

\* A verdict on a delta is that of a commit of its own, or (FAILED) is about
\* to be replaced by one.  (It need not be its latest commit: while one
\* request asks for the status, others may retry and commit the delta.)
VerdictIsTrue ==
  \A d \in DOMAIN delta :
    /\ delta[d].status = "COMMITTED" => "success" \in delta[d].ended
    /\ delta[d].status = "FAILED" =>
         "thrown" \in delta[d].ended \/ UnderCheck(d)

\* What the instance says of itself is true of its queue, at any moment, for
\* a client that makes one request at a time: every operation that changes a
\* delta leaves the status that goes with it.  (With two requests at once,
\* checkStatus may overwrite what another one has just done.)
StatusIsTrue ==
  LET some(s) == \E d \in DOMAIN delta : delta[d].status = s
  IN  Cardinality(Caller \cup Poller) = 1 =>
        /\ status \in {"PROPAGATED", "PROPAGATED-PARTIAL"} =>
             /\ some("PROPAGATED")
             /\ some("INIT") <=> (status = "PROPAGATED-PARTIAL")
             /\ some("COMMITTING") => status = "PROPAGATED-PARTIAL"
        /\ status = "COMMITTING" =>
             /\ some("COMMITTING") \/ \E d \in DOMAIN delta : UnderCheck(d)
             /\ ~some("PROPAGATED")
        /\ status = "COMMITTED" =>
             /\ delta[Len(delta)].status = "COMMITTED"
             /\ delta[Len(delta)].commit = "success"

\* The end of a commit is noticed.
CommitIsNoticed ==
  (status = "COMMITTING" /\ delta[Len(delta)].status = "COMMITTING")
     ~> status # "COMMITTING"
=============================================================================
