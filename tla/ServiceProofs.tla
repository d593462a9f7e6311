--------------------------- MODULE ServiceProofs ---------------------------
(***************************************************************************)
(* Proofs about ServiceLifecycle, for any number of requests at once and   *)
(* of deltas.                                                              *)
(*                                                                         *)
(* CommitIsBacked and VerdictIsTrue are not inductive: what a request read *)
(* before it waited must still be good when it goes on.  Backed adds that  *)
(* driver deltas, once a commit was started, stay, that a delta whose      *)
(* status is being asked for has a Future, and that how a Future ended,    *)
(* cached or only held by a request, is how a commit of its delta ended.   *)
(***************************************************************************)
EXTENDS ServiceLifecycle, FiniteSetTheorems, TLAPS

Kept == {"live", "deleted"}

DeltaBacked(r) ==
  /\ r.commit # "null" => r.driver \in Kept
  /\ r.status \in {"COMMITTING", "COMMITTED", "FAILED"} => r.commit # "null"
  /\ r.commit \in {"success", "thrown"} => r.commit \in r.ended
  /\ r.status = "COMMITTED" => "success" \in r.ended

\* What may be held of delta r's Futures.
HoldsOf(v, r) ==
  /\ r.commit # "null"
  /\ v.future \in {"success", "thrown"} => v.future \in r.ended

Backed ==
  /\ \A d \in DOMAIN delta : DeltaBacked(delta[d])
  /\ \A p \in Poller :
       call[p].at = "check" => HoldsOf(call[p], delta[call[p].d])

SInv == ServiceTypeOK /\ Backed /\ VerdictIsTrue

-----------------------------------------------------------------------------
\* Summary yields a status of an instance if it is given one.
LEMMA SummaryType ==
  ASSUME NEW ds, NEW old \in InstanceStatus
  PROVE  Summary(ds, old) \in InstanceStatus
  BY DEF Summary, InstanceStatus

\* StoredBy yields what can be stored, and never forgets driver deltas.
LEMMA StoredByKeeps ==
  ASSUME NEW r \in {"live", "empty", "thrown"},
         NEW old \in {"none", "empty", "live", "deleted"}
  PROVE  /\ StoredBy(r, old) \in {"none", "empty", "live", "deleted"}
         /\ old \in Kept => StoredBy(r, old) \in Kept
  BY DEF StoredBy, Kept

\* Marked keeps the driver deltas that were live, as deleted ones.
LEMMA MarkedKeeps ==
  ASSUME NEW old \in {"none", "empty", "live", "deleted"}
  PROVE  /\ Marked(old) \in {"none", "empty", "live", "deleted"}
         /\ old \in Kept => Marked(old) \in Kept
  BY DEF Marked, Kept

\* The type of an element of call.
CallRecord ==
  [at : {"idle", "compile", "propagate", "retry", "commit", "check"},
   d : Nat,
   future : {"cached", "running", "success", "thrown"}]

\* A delta that was v and now is w still has a Future if it had one, and the
\* commits that had ended have ended.
Grows(v, w) ==
  /\ v.commit # "null" => w.commit # "null"
  /\ v.ended \subseteq w.ended

\* What every step has to show.
LEMMA KeepInv ==
  ASSUME SInv, status' \in InstanceStatus,
         delta' \in Seq(Delta), DOMAIN delta \subseteq DOMAIN delta',
         \A e \in DOMAIN delta' : DeltaBacked(delta'[e]),
         \A e \in DOMAIN delta : Grows(delta[e], delta'[e]),
         call' \in [Caller \cup Poller -> CallRecord],
         \A c \in Caller \cup Poller :
           call'[c].at \notin {"idle", "compile"} =>
             call'[c].d \in DOMAIN delta',
         \A p \in Poller : call'[p].at = "check" =>
           call'[p] = call[p] \/ HoldsOf(call'[p], delta'[call'[p].d]),
         \A e \in DOMAIN delta' :
           delta'[e].status = "FAILED" =>
             "thrown" \in delta'[e].ended \/ UnderCheck(e)'
  PROVE  SInv'
<1>1. ServiceTypeOK'
  BY DEF ServiceTypeOK, CallRecord
<1>2. \A p \in Poller : call'[p].at = "check" =>
        HoldsOf(call'[p], delta'[call'[p].d])
  <2>1. SUFFICES ASSUME NEW p \in Poller, call'[p].at = "check",
                        call'[p] = call[p]
                 PROVE  HoldsOf(call'[p], delta'[call'[p].d])
    OBVIOUS
  <2>2. call[p].d \in DOMAIN delta /\ HoldsOf(call[p], delta[call[p].d])
    BY <2>1 DEF SInv, ServiceTypeOK, Backed
  <2>3. Grows(delta[call[p].d], delta'[call[p].d])
    BY <2>2
  <2> QED BY <2>1, <2>2, <2>3 DEF HoldsOf, Grows
<1>3. Backed'
  BY <1>2 DEF Backed
<1>4. VerdictIsTrue'
  BY DEF VerdictIsTrue, DeltaBacked
<1> QED BY <1>1, <1>3, <1>4 DEF SInv

\* An unchanged delta grows, and what is in the queue is backed.
LEMMA Facts ==
  ASSUME SInv
  PROVE  /\ status \in InstanceStatus /\ delta \in Seq(Delta)
         /\ call \in [Caller \cup Poller -> CallRecord]
         /\ \A e \in DOMAIN delta : DeltaBacked(delta[e])
         /\ \A e \in DOMAIN delta : Grows(delta[e], delta[e])
         /\ \A c \in Caller \cup Poller :
              call[c].at \notin {"idle", "compile"} =>
                call[c].d \in DOMAIN delta
         /\ \A p \in Poller : call[p].at = "check" =>
              HoldsOf(call[p], delta[call[p].d])
         /\ \A e \in DOMAIN delta : delta[e].status = "FAILED" =>
              "thrown" \in delta[e].ended \/ UnderCheck(e)
  BY DEF SInv, ServiceTypeOK, CallRecord, Backed, Grows, VerdictIsTrue

\* A request that is not checking goes to a place other than checking.
LEMMA Moves ==
  ASSUME SInv, NEW c \in Caller \cup Poller, NEW v \in CallRecord,
         call[c].at # "check", v.at # "check",
         call' = [call EXCEPT ![c] = v]
  PROVE  /\ call' \in [Caller \cup Poller -> CallRecord]
         /\ call'[c] = v
         /\ \A q \in (Caller \cup Poller) \ {c} : call'[q] = call[q]
         /\ \A p \in Poller : call'[p].at = "check" => call'[p] = call[p]
         /\ \A e : UnderCheck(e) => UnderCheck(e)'
<1>1. call \in [Caller \cup Poller -> CallRecord]
  BY Facts
<1>2. /\ call' \in [Caller \cup Poller -> CallRecord]
      /\ call'[c] = v
      /\ \A q \in (Caller \cup Poller) \ {c} : call'[q] = call[q]
  BY <1>1
<1>3. \A p \in Poller : call'[p].at = "check" => call'[p] = call[p]
  BY <1>2
<1>4. \A p \in Poller : call[p].at = "check" => call'[p] = call[p]
  BY <1>2
<1>5. \A e : UnderCheck(e) => UnderCheck(e)'
  BY <1>4 DEF UnderCheck
<1> QED BY <1>2, <1>3, <1>5

\* Idle is such a place.
LEMMA IdlePlace == Idle \in CallRecord /\ Idle.at = "idle"
  BY DEF Idle, CallRecord

\* A step of a request that leaves the queue alone.
LEMMA MoveInv ==
  ASSUME SInv, NEW c \in Caller \cup Poller, NEW v \in CallRecord,
         call[c].at # "check", v.at # "check",
         v.at \notin {"idle", "compile"} => v.d \in DOMAIN delta,
         call' = [call EXCEPT ![c] = v],
         delta' = delta, status' \in InstanceStatus
  PROVE  SInv'
  BY Facts, Moves, KeepInv

\* A step of a request that gives delta d a record without a verdict.
LEMMA ChangeInv ==
  ASSUME SInv, NEW c \in Caller \cup Poller, call[c].at # "check",
         NEW d \in DOMAIN delta, NEW r \in Delta,
         delta' = [delta EXCEPT ![d] = r],
         DeltaBacked(r), Grows(delta[d], r), r.status # "FAILED",
         Leave(c), status' \in InstanceStatus
  PROVE  SInv'
<1>1. /\ delta' \in Seq(Delta) /\ DOMAIN delta' = DOMAIN delta
      /\ delta'[d] = r
      /\ \A e \in DOMAIN delta \ {d} : delta'[e] = delta[e]
  BY Facts
<1>2. call' = [call EXCEPT ![c] = Idle]
  BY DEF Leave
<1>3. /\ call' \in [Caller \cup Poller -> CallRecord]
      /\ \A q \in Caller \cup Poller :
           call'[q].at \notin {"idle", "compile"} =>
             call'[q].d \in DOMAIN delta'
      /\ \A p \in Poller : call'[p].at = "check" => call'[p] = call[p]
      /\ \A e : UnderCheck(e) => UnderCheck(e)'
  BY <1>1, <1>2, Facts, Moves, IdlePlace
<1>4. /\ \A e \in DOMAIN delta' : DeltaBacked(delta'[e])
      /\ \A e \in DOMAIN delta : Grows(delta[e], delta'[e])
      /\ \A e \in DOMAIN delta' :
           delta'[e].status = "FAILED" =>
             "thrown" \in delta'[e].ended \/ UnderCheck(e)'
  BY <1>1, <1>3, Facts
<1> QED BY <1>1, <1>3, <1>4, KeepInv

\* A step of a request that adds a delta.
LEMMA AppendInv ==
  ASSUME SInv, NEW c \in Caller \cup Poller, call[c].at # "check",
         delta' = Append(delta, NewDelta),
         Leave(c), status' \in InstanceStatus
  PROVE  SInv'
<1>1. NewDelta \in Delta /\ NewDelta.status = "INIT"
      /\ DeltaBacked(NewDelta)
  BY DEF NewDelta, Delta, DeltaBacked
<1>2. /\ delta' \in Seq(Delta)
      /\ DOMAIN delta' = DOMAIN delta \cup {Len(delta) + 1}
      /\ delta'[Len(delta) + 1] = NewDelta
      /\ \A e \in DOMAIN delta : delta'[e] = delta[e]
  BY <1>1, Facts
<1>3. call' = [call EXCEPT ![c] = Idle]
  BY DEF Leave
<1>4. /\ call' \in [Caller \cup Poller -> CallRecord]
      /\ \A q \in Caller \cup Poller :
           call'[q].at \notin {"idle", "compile"} =>
             call'[q].d \in DOMAIN delta'
      /\ \A p \in Poller : call'[p].at = "check" => call'[p] = call[p]
      /\ \A e : UnderCheck(e) => UnderCheck(e)'
  BY <1>2, <1>3, Facts, Moves, IdlePlace
<1>5. /\ \A e \in DOMAIN delta' : DeltaBacked(delta'[e])
      /\ \A e \in DOMAIN delta : Grows(delta[e], delta'[e])
      /\ \A e \in DOMAIN delta' :
           delta'[e].status = "FAILED" =>
             "thrown" \in delta'[e].ended \/ UnderCheck(e)'
  BY <1>1, <1>2, <1>4, Facts
<1> QED BY <1>2, <1>4, <1>5, KeepInv

-----------------------------------------------------------------------------
\* An operation that throws.
LEMMA ThrowInv ==
  ASSUME SInv, NEW c \in Caller \cup Poller, call[c].at # "check", Throw(c)
  PROVE  SInv'
<1>1. status' \in InstanceStatus
  BY DEF Throw, InstanceStatus
<1> QED BY <1>1, IdlePlace, MoveInv DEF Throw, Leave

\* A request that starts to wait for delta d.
LEMMA WaitInv ==
  ASSUME SInv, NEW c \in Caller \cup Poller, call[c] = Idle,
         NEW what \in {"compile", "propagate", "retry", "commit"},
         NEW d \in Nat, what # "compile" => d \in DOMAIN delta,
         WaitFor(c, what, d), UNCHANGED <<status, delta>>
  PROVE  SInv'
<1> DEFINE v == [at |-> what, d |-> d, future |-> "cached"]
<1>1. v \in CallRecord /\ v.at = what /\ v.d = d
  BY DEF CallRecord
<1>2. call[c].at # "check" /\ status' \in InstanceStatus
  BY IdlePlace DEF SInv, ServiceTypeOK
<1>3. call' = [call EXCEPT ![c] = v]
  BY DEF WaitFor
<1>4. v.at # "check" /\ (v.at \notin {"idle", "compile"}
                           => v.d \in DOMAIN delta)
  BY <1>1
<1> HIDE DEF v
<1> QED BY <1>1, <1>2, <1>3, <1>4, MoveInv

\* A request of an idle caller that computes the status and nothing else.
LEMMA StatusInv ==
  ASSUME SInv, status' \in InstanceStatus, UNCHANGED <<delta, call>>
  PROVE  SInv'
  BY DEF SInv, ServiceTypeOK, Backed, VerdictIsTrue, UnderCheck

\* The requests, up to where they wait.
LEMMA RequestInv ==
  ASSUME SInv, NEW c \in Caller, Request(c)
  PROVE  SInv'
<1> c \in Caller \cup Poller
  OBVIOUS
<1> status \in InstanceStatus /\ delta \in Seq(Delta)
  BY DEF SInv, ServiceTypeOK
<1>1. CASE Compile(c)
  BY <1>1, WaitInv DEF Compile
<1>2. CASE Recompile(c)
  BY <1>2, ThrowInv DEF Recompile, Idle
<1>3. CASE Propagate(c)
  <2> DEFINE d == FirstIn("INIT")
  <2>1. call[c] = Idle /\ call[c].at # "check"
    BY <1>3 DEF Propagate, Idle
  <2>2. \/ Throw(c)
        \/ d \in DOMAIN delta /\ WaitFor(c, "propagate", d)
             /\ UNCHANGED <<status, delta>>
        \/ status' = Summary(delta, status) /\ UNCHANGED <<delta, call>>
    BY <1>3 DEF Propagate
  <2>3. d \in DOMAIN delta => d \in Nat
    OBVIOUS
  <2> QED BY <2>1, <2>2, <2>3, ThrowInv, WaitInv, StatusInv, SummaryType
<1>4. CASE Retry(c)
  <2>1. call[c] = Idle /\ call[c].at # "check"
    BY <1>4 DEF Retry, Idle
  <2>2. \/ Throw(c)
        \/ delta # <<>> /\ WaitFor(c, "retry", Len(delta))
             /\ UNCHANGED <<status, delta>>
    BY <1>4 DEF Retry
  <2>3. delta # <<>> => Len(delta) \in DOMAIN delta /\ Len(delta) \in Nat
    OBVIOUS
  <2> QED BY <2>1, <2>2, <2>3, ThrowInv, WaitInv
<1>5. ASSUME NEW forced \in BOOLEAN, Commit(c, forced)
      PROVE  SInv'
  <2> DEFINE d == FirstIn("PROPAGATED")
  <2>1. call[c] = Idle /\ call[c].at # "check"
    BY <1>5 DEF Commit, Idle
  <2>2. \/ Throw(c)
        \/ d \in DOMAIN delta /\ WaitFor(c, "commit", d)
             /\ UNCHANGED <<status, delta>>
        \/ status' = Summary(delta, status) /\ UNCHANGED <<delta, call>>
    BY <1>5 DEF Commit
  <2>3. d \in DOMAIN delta => d \in Nat
    OBVIOUS
  <2> QED BY <2>1, <2>2, <2>3, ThrowInv, WaitInv, StatusInv, SummaryType
<1>6. ASSUME NEW forced \in BOOLEAN, Revert(c, forced)
      PROVE  SInv'
  <2>1. call[c] = Idle /\ call[c].at # "check"
    BY <1>6 DEF Revert, Idle
  <2>2. CASE Throw(c)
    BY <2>1, <2>2, ThrowInv
  <2>3. CASE delta' = Append(delta, NewDelta) /\ UNCHANGED call
               /\ status' = IF status = "PROPAGATED"
                            THEN "PROPAGATED-PARTIAL"
                            ELSE "COMMITTING-PARTIAL"
    <3>1. Leave(c)
      BY <2>1, <2>3 DEF Leave, SInv, ServiceTypeOK
    <3>2. status' \in InstanceStatus
      BY <2>3 DEF InstanceStatus
    <3> QED BY <2>1, <2>3, <3>1, <3>2, AppendInv
  <2> QED BY <1>6, <2>2, <2>3 DEF Revert
<1> QED BY <1>1, <1>2, <1>3, <1>4, <1>5, <1>6 DEF Request

\* A commit that starts: the new Future is running, and who is checking the
\* delta is left with what the old one said, or will say.
LEMMA CommitStartedInv ==
  ASSUME SInv, NEW c \in Caller, CommitStarted(c)
  PROVE  SInv'
<1> DEFINE d == call[c].d
<1>1. /\ c \in Caller \cup Poller
      /\ call[c].at = "commit" /\ d \in DOMAIN delta
      /\ delta \in Seq(Delta) /\ delta[d] \in Delta
  BY DEF CommitStarted, SInv, ServiceTypeOK
<1>2. CASE delta[d].driver \in {"none", "empty"}
  BY <1>1, <1>2, ThrowInv DEF CommitStarted
<1>3. CASE delta[d].driver \notin {"none", "empty"}
  <2> DEFINE n == [status |-> "COMMITTING", driver |-> delta[d].driver,
                   commit |-> "running", ended |-> delta[d].ended]
  <2>1. delta' = [delta EXCEPT ![d] = n] /\ LeaveReplacing(c, d)
        /\ status' \in InstanceStatus
    BY <1>3, SummaryType, Facts DEF CommitStarted
  <2>2. n \in Delta /\ DeltaBacked(n) /\ Grows(delta[d], n)
    BY <1>1, <1>3, Facts DEF Delta, Kept, DeltaBacked, Grows
  <2>3. /\ delta' \in Seq(Delta) /\ DOMAIN delta' = DOMAIN delta
        /\ delta'[d] = n
        /\ \A e \in DOMAIN delta \ {d} : delta'[e] = delta[e]
    BY <1>1, <2>1, <2>2
  <2> DEFINE v == [at |-> "check", d |-> d, future |-> delta[d].commit]
             holders == {p \in Poller : /\ call[p].at = "check"
                                        /\ call[p].d = d
                                        /\ call[p].future = "cached"}
  <2>4. call' = [q \in Caller \cup Poller |->
                   IF q = c THEN Idle
                   ELSE IF q \in holders THEN v ELSE call[q]]
    BY <2>1 DEF LeaveReplacing
  <2>5. \A q \in holders : v \in CallRecord /\ HoldsOf(v, n)
    <3>1. SUFFICES ASSUME NEW q \in holders
                   PROVE  v \in CallRecord /\ HoldsOf(v, n)
      OBVIOUS
    <3>2. HoldsOf(call[q], delta[d])
      BY <3>1, Facts
    <3>3. delta[d].commit \in {"running", "success", "thrown"}
      BY <1>1, <3>2 DEF Delta, HoldsOf
    <3> QED BY <1>1, <3>3, Facts DEF CallRecord, HoldsOf, DeltaBacked
  <2> HIDE DEF n, v
  <2>6. /\ v.at = "check" /\ v.d = d
        /\ \A q \in holders : call[q].at = "check" /\ call[q].d = d
    BY DEF v
  <2>7. call' \in [Caller \cup Poller -> CallRecord]
    BY <2>4, <2>5, Facts, IdlePlace
  <2>8. \A q \in Caller \cup Poller :
          call'[q].at \notin {"idle", "compile"} =>
            call'[q].d \in DOMAIN delta'
    BY <1>1, <2>3, <2>4, <2>6, Facts, IdlePlace
  <2>9. \A p \in Poller : call'[p].at = "check" =>
          call'[p] = call[p] \/ HoldsOf(call'[p], delta'[call'[p].d])
    BY <2>3, <2>4, <2>5, <2>6, IdlePlace
  <2>10. \A e : UnderCheck(e) => UnderCheck(e)'
    <3>1. \A p \in Poller : call[p].at = "check" =>
            call'[p].at = "check" /\ call'[p].d = call[p].d
      BY <1>1, <2>4, <2>6
    <3> QED BY <3>1 DEF UnderCheck
  <2>11. n.status # "FAILED"
    BY DEF n
  <2>12. /\ \A e \in DOMAIN delta' : DeltaBacked(delta'[e])
         /\ \A e \in DOMAIN delta : Grows(delta[e], delta'[e])
         /\ \A e \in DOMAIN delta' :
              delta'[e].status = "FAILED" =>
                "thrown" \in delta'[e].ended \/ UnderCheck(e)'
    BY <2>2, <2>3, <2>10, <2>11, Facts
  <2> QED BY <2>1, <2>3, <2>7, <2>8, <2>9, <2>12, KeepInv
<1> QED BY <1>2, <1>3

\* The requests, when they go on.
LEMMA ResponseInv ==
  ASSUME SInv, NEW c \in Caller, Response(c)
  PROVE  SInv'
<1> c \in Caller \cup Poller
  OBVIOUS
<1> status \in InstanceStatus /\ delta \in Seq(Delta)
  BY DEF SInv, ServiceTypeOK
<1>1. CASE Compiled(c)
  <2>1. call[c].at # "check"
    BY <1>1 DEF Compiled
  <2>2. "COMPILED" \in InstanceStatus
    BY DEF InstanceStatus
  <2> QED BY <1>1, <2>1, <2>2, AppendInv, ThrowInv DEF Compiled
<1>2. CASE Propagated(c)
  <2> DEFINE d == call[c].d
  <2>1. call[c].at # "check" /\ d \in DOMAIN delta
    BY <1>2 DEF Propagated, SInv, ServiceTypeOK
  <2>2. CASE Throw(c)
    BY <2>1, <2>2, ThrowInv
  <2>3. ASSUME NEW r \in {"live", "empty", "thrown"},
               delta' = [delta EXCEPT ![d] =
                          [status |-> "PROPAGATED",
                           driver |-> StoredBy(r, @.driver),
                           commit |-> @.commit, ended |-> @.ended]],
               status' = Summary(delta', status),
               Leave(c)
        PROVE  SInv'
    <3> DEFINE w == StoredBy(r, delta[d].driver)
               n == [status |-> "PROPAGATED", driver |-> w,
                     commit |-> delta[d].commit, ended |-> delta[d].ended]
    <3>0. delta[d] \in Delta
      BY <2>1
    <3>1. /\ delta[d].driver \in {"none", "empty", "live", "deleted"}
          /\ delta[d].commit \in {"null", "running", "success", "thrown"}
          /\ delta[d].ended \in SUBSET {"success", "thrown"}
      BY <3>0 DEF Delta
    <3>2. /\ w \in {"none", "empty", "live", "deleted"}
          /\ delta[d].driver \in Kept => w \in Kept
      BY <3>1, StoredByKeeps
    <3>3. n \in Delta
      BY <3>1, <3>2 DEF Delta
    <3>4. DeltaBacked(n) /\ Grows(delta[d], n)
      BY <2>1, <3>2, Facts DEF DeltaBacked, Grows
    <3>5. delta' = [delta EXCEPT ![d] = n]
      BY <2>3
    <3> HIDE DEF w
    <3> QED BY <2>1, <2>3, <3>3, <3>4, <3>5, ChangeInv, SummaryType
  <2> QED BY <1>2, <2>2, <2>3 DEF Propagated
<1>3. CASE Retried(c)
  <2> DEFINE d == call[c].d
  <2>1. call[c].at # "check" /\ d \in DOMAIN delta
    BY <1>3 DEF Retried, SInv, ServiceTypeOK
  <2>2. CASE Throw(c)
    BY <2>1, <2>2, ThrowInv
  <2>3. ASSUME NEW r \in {"live", "empty"},
               delta' = [delta EXCEPT ![d] =
                          [status |-> "PROPAGATED",
                           driver |-> StoredBy(r, Marked(@.driver)),
                           commit |-> @.commit, ended |-> @.ended]],
               status' = Summary(delta', status),
               Leave(c)
        PROVE  SInv'
    <3> DEFINE w == StoredBy(r, Marked(delta[d].driver))
               n == [status |-> "PROPAGATED", driver |-> w,
                     commit |-> delta[d].commit, ended |-> delta[d].ended]
    <3>0. delta[d] \in Delta
      BY <2>1
    <3>1. /\ delta[d].driver \in {"none", "empty", "live", "deleted"}
          /\ delta[d].commit \in {"null", "running", "success", "thrown"}
          /\ delta[d].ended \in SUBSET {"success", "thrown"}
      BY <3>0 DEF Delta
    <3>2. /\ w \in {"none", "empty", "live", "deleted"}
          /\ delta[d].driver \in Kept => w \in Kept
      BY <3>1, MarkedKeeps, StoredByKeeps
    <3>3. n \in Delta
      BY <3>1, <3>2 DEF Delta
    <3>4. DeltaBacked(n) /\ Grows(delta[d], n)
      BY <2>1, <3>2, Facts DEF DeltaBacked, Grows
    <3>5. delta' = [delta EXCEPT ![d] = n]
      BY <2>3
    <3> HIDE DEF w
    <3> QED BY <2>1, <2>3, <3>3, <3>4, <3>5, ChangeInv, SummaryType
  <2> QED BY <1>3, <2>2, <2>3 DEF Retried
<1>4. CASE CommitStarted(c)
  BY <1>4, CommitStartedInv
<1> QED BY <1>1, <1>2, <1>3, <1>4 DEF Response

-----------------------------------------------------------------------------
\* The end of a commit is one that the delta remembers.
LEMMA CommitEndsInv ==
  ASSUME SInv, NEW d, SystemCommitEnds(d)
  PROVE  SInv'
<1>1. /\ d \in DOMAIN delta /\ delta[d].commit = "running"
      /\ status' = status /\ call' = call
      /\ delta \in Seq(Delta) /\ delta[d] \in Delta
  BY Facts DEF SystemCommitEnds
<1>2. PICK r \in {"success", "thrown"} :
        delta' = [delta EXCEPT ![d] =
                    [status |-> @.status, driver |-> @.driver,
                     commit |-> r, ended |-> @.ended \cup {r}]]
  BY DEF SystemCommitEnds
<1> DEFINE n == [status |-> delta[d].status, driver |-> delta[d].driver,
                 commit |-> r, ended |-> delta[d].ended \cup {r}]
<1>3. /\ n \in Delta /\ n.status = delta[d].status
      /\ delta[d].ended \subseteq n.ended
      /\ Grows(delta[d], n) /\ DeltaBacked(n)
  BY <1>1, Facts DEF Delta, Grows, DeltaBacked
<1>4. delta' = [delta EXCEPT ![d] = n]
  BY <1>2
<1> HIDE DEF n
<1>5. /\ DOMAIN delta' = DOMAIN delta /\ delta' \in Seq(Delta)
      /\ delta'[d] = n
      /\ \A e \in DOMAIN delta \ {d} : delta'[e] = delta[e]
  BY <1>1, <1>3, <1>4
<1>6. \A e : UnderCheck(e) => UnderCheck(e)'
  BY <1>1 DEF UnderCheck
<1>7. /\ \A e \in DOMAIN delta' : DeltaBacked(delta'[e])
      /\ \A e \in DOMAIN delta : Grows(delta[e], delta'[e])
      /\ \A e \in DOMAIN delta' :
           delta'[e].status = "FAILED" =>
             "thrown" \in delta'[e].ended \/ UnderCheck(e)'
  BY <1>3, <1>5, <1>6, Facts
<1> QED BY <1>1, <1>5, <1>7, Facts, KeepInv

\* checkStatus, up to the question to the Future: the FAILED it writes is
\* covered by its own being under way.
LEMMA CheckStatusInv ==
  ASSUME SInv, NEW p \in Poller, CheckStatus(p)
  PROVE  SInv'
<1> DEFINE d == Len(delta)
           v == [at |-> "check", d |-> d, future |-> "cached"]
           n == [status |-> "FAILED", driver |-> delta[d].driver,
                 commit |-> delta[d].commit, ended |-> delta[d].ended]
<1>1. /\ call[p] = Idle /\ delta # <<>>
      /\ delta \in Seq(Delta) /\ d \in DOMAIN delta /\ d \in Nat
      /\ delta[d] \in Delta
  BY Facts DEF CheckStatus
<1>2. CASE /\ delta[d].status \in {"COMMITTED", "FAILED"}
           /\ status' = delta[d].status
           /\ UNCHANGED <<delta, call>>
  BY <1>2, StatusInv DEF InstanceStatus
<1>3. CASE /\ delta[d].status = "COMMITTING"
           /\ delta' = [delta EXCEPT ![d] = n]
           /\ WaitFor(p, "check", d)
           /\ UNCHANGED status
  <2>1. /\ n \in Delta /\ Grows(delta[d], n) /\ DeltaBacked(n)
        /\ n.commit # "null"
    BY <1>1, <1>3, Facts DEF Delta, Grows, DeltaBacked
  <2> HIDE DEF n
  <2>2. /\ DOMAIN delta' = DOMAIN delta /\ delta' \in Seq(Delta)
        /\ delta'[d] = n
        /\ \A e \in DOMAIN delta \ {d} : delta'[e] = delta[e]
    BY <1>1, <1>3, <2>1
  <2>3. call' = [call EXCEPT ![p] = v]
    BY <1>3 DEF WaitFor
  <2>4. /\ v \in CallRecord /\ v.at = "check" /\ v.d = d
        /\ HoldsOf(v, n)
    BY <1>1, <2>1 DEF CallRecord, HoldsOf
  <2> HIDE DEF v
  <2>5. /\ call' \in [Caller \cup Poller -> CallRecord] /\ call'[p] = v
        /\ \A q \in (Caller \cup Poller) \ {p} : call'[q] = call[q]
    BY <2>3, <2>4, Facts
  <2>6. /\ \A q \in Caller \cup Poller :
             call'[q].at \notin {"idle", "compile"} =>
               call'[q].d \in DOMAIN delta'
        /\ \A q \in Poller : call'[q].at = "check" =>
             call'[q] = call[q] \/ HoldsOf(call'[q], delta'[call'[q].d])
    BY <1>1, <2>2, <2>4, <2>5, Facts
  <2>7. \A e : (e = d \/ UnderCheck(e)) => UnderCheck(e)'
    BY <1>1, <2>4, <2>5, IdlePlace DEF UnderCheck
  <2>8. /\ \A e \in DOMAIN delta' : DeltaBacked(delta'[e])
        /\ \A e \in DOMAIN delta : Grows(delta[e], delta'[e])
        /\ \A e \in DOMAIN delta' :
             delta'[e].status = "FAILED" =>
               "thrown" \in delta'[e].ended \/ UnderCheck(e)'
    BY <2>1, <2>2, <2>7, Facts
  <2> QED BY <1>3, <2>2, <2>5, <2>6, <2>8, Facts, KeepInv
<1> QED BY <1>2, <1>3 DEF CheckStatus

\* checkStatus, when it goes on: what the Future says, the delta remembers.
LEMMA StatusCheckedInv ==
  ASSUME SInv, NEW p \in Poller, StatusChecked(p)
  PROVE  SInv'
<1> DEFINE d == call[p].d
<1>1. /\ call[p].at = "check" /\ d \in DOMAIN delta
      /\ delta \in Seq(Delta) /\ delta[d] \in Delta
      /\ HoldsOf(call[p], delta[d]) /\ DeltaBacked(delta[d])
      /\ call[p].future \in {"cached", "running", "success", "thrown"}
  BY Facts DEF StatusChecked, CallRecord
<1>2. PICK r \in Answers(p) :
        /\ delta' = [delta EXCEPT ![d] =
                       [status |-> Verdict(r), driver |-> @.driver,
                        commit |-> @.commit,
                        ended |-> @.ended \cup ({r} \ {"running"})]]
        /\ status' = IF d = Len(delta) THEN Verdict(r) ELSE status
  BY DEF StatusChecked
<1>3. r \in {"running", "success", "thrown"}
  <2>1. CASE call[p].future = "cached"
    BY <1>1, <1>2, <2>1 DEF Answers, HoldsOf, Delta
  <2>2. CASE call[p].future # "cached"
    BY <1>1, <1>2, <2>2 DEF Answers
  <2> QED BY <2>1, <2>2
<1> DEFINE verdict == Verdict(r)
           ended == delta[d].ended \cup ({r} \ {"running"})
           n == [status |-> verdict, driver |-> delta[d].driver,
                 commit |-> delta[d].commit, ended |-> ended]
<1>4. /\ verdict \in {"COMMITTING", "COMMITTED", "FAILED"}
      /\ verdict = "COMMITTED" => r = "success"
      /\ verdict = "FAILED" => r = "thrown"
  BY <1>3 DEF Verdict
<1>5. delta' = [delta EXCEPT ![d] = n]
  BY <1>2
<1>6. /\ ended \in SUBSET {"success", "thrown"}
      /\ delta[d].ended \subseteq ended
      /\ verdict = "COMMITTED" => "success" \in ended
      /\ verdict = "FAILED" => "thrown" \in ended
  BY <1>1, <1>3, <1>4 DEF Delta
<1>7. status' \in InstanceStatus
  BY <1>2, <1>4, Facts DEF InstanceStatus
<1> HIDE DEF verdict, ended
<1>8. /\ n \in Delta /\ Grows(delta[d], n) /\ DeltaBacked(n)
      /\ n.status = "FAILED" => "thrown" \in n.ended
  BY <1>1, <1>4, <1>6 DEF Delta, Grows, DeltaBacked, HoldsOf
<1> HIDE DEF n
<1>9. /\ DOMAIN delta' = DOMAIN delta /\ delta' \in Seq(Delta)
      /\ delta'[d] = n
      /\ \A e \in DOMAIN delta \ {d} : delta'[e] = delta[e]
  BY <1>1, <1>5, <1>8
<1>10. call' = [call EXCEPT ![p] = Idle]
  BY DEF Leave, StatusChecked
<1>11. /\ call' \in [Caller \cup Poller -> CallRecord] /\ call'[p] = Idle
       /\ \A q \in (Caller \cup Poller) \ {p} : call'[q] = call[q]
  BY <1>10, Facts, IdlePlace
<1>12. /\ \A q \in Caller \cup Poller :
            call'[q].at \notin {"idle", "compile"} =>
              call'[q].d \in DOMAIN delta'
       /\ \A q \in Poller : call'[q].at = "check" => call'[q] = call[q]
  BY <1>9, <1>11, Facts, IdlePlace
<1>13. \A e : e # d /\ UnderCheck(e) => UnderCheck(e)'
  BY <1>11 DEF UnderCheck
<1>14. /\ \A e \in DOMAIN delta' : DeltaBacked(delta'[e])
       /\ \A e \in DOMAIN delta : Grows(delta[e], delta'[e])
       /\ \A e \in DOMAIN delta' :
            delta'[e].status = "FAILED" =>
              "thrown" \in delta'[e].ended \/ UnderCheck(e)'
  BY <1>8, <1>9, <1>13, Facts
<1> QED BY <1>7, <1>9, <1>11, <1>12, <1>14, KeepInv

-----------------------------------------------------------------------------
\* The empty queue keeps every promise.
LEMMA InitInv == Init => SInv
<1> SUFFICES ASSUME Init PROVE SInv
  OBVIOUS
<1>1. Idle = [at |-> "idle", d |-> 0, future |-> "cached"] /\ delta = <<>>
  BY DEF Init, Idle
<1>2. /\ delta \in Seq(Delta) /\ DOMAIN delta = {}
      /\ \A c \in Caller \cup Poller : call[c] = Idle
  BY <1>1 DEF Init
<1>3. ServiceTypeOK
  BY <1>1, <1>2 DEF Init, ServiceTypeOK, InstanceStatus
<1>4. Backed /\ VerdictIsTrue
  BY <1>1, <1>2 DEF Backed, VerdictIsTrue
<1> QED BY <1>3, <1>4 DEF SInv

\* Every step of every request keeps them.
LEMMA StepInv == SInv /\ [Next]_vars => SInv'
<1> SUFFICES ASSUME SInv, [Next]_vars PROVE SInv'
  OBVIOUS
<1>1. ASSUME NEW p \in Poller, CheckStatus(p) \/ StatusChecked(p)
      PROVE  SInv'
  BY <1>1, CheckStatusInv, StatusCheckedInv
<1>2. ASSUME NEW c \in Caller, Request(c) \/ Response(c)
      PROVE  SInv'
  BY <1>2, RequestInv, ResponseInv
<1>3. ASSUME NEW d \in 1..MaxDelta, SystemCommitEnds(d)
      PROVE  SInv'
  BY <1>3, CommitEndsInv
<1>4. CASE Verify
  BY <1>4, StatusInv DEF Verify, InstanceStatus
<1>5. CASE UNCHANGED vars
  BY <1>5, StatusInv DEF vars, SInv, ServiceTypeOK
<1> QED BY <1>1, <1>2, <1>3, <1>4, <1>5 DEF Next

\* SInv is an invariant: of any number of requests to the operations of
\* HandleServiceCall at once.
LEMMA Invariance == Spec => []SInv
  BY InitInv, StepInv, PTL DEF Spec

\* The statuses are among those the operations set, and whatever a request
\* was waiting for is still there when it goes on.
THEOREM ServiceTypeCorrect == Spec => []ServiceTypeOK
<1>1. SInv => ServiceTypeOK
  BY DEF SInv
<1> QED BY Invariance, <1>1, PTL

\* A delta that is being committed, or was, has stored driver deltas and a
\* Future: the guard of commitDeltas against an empty driver delta list is
\* enough, even where propagateDeltas swallows a fault and requests overlap.
THEOREM CommitsAreBacked == Spec => []CommitIsBacked
<1>1. SInv => CommitIsBacked
  BY DEF SInv, Backed, DeltaBacked, Kept, CommitIsBacked
<1> QED BY Invariance, <1>1, PTL

\* checkStatus gives a delta the verdict of its own commit, whatever other
\* requests did while it was looking for it.
THEOREM VerdictsAreTrue == Spec => []VerdictIsTrue
<1>1. SInv => VerdictIsTrue
  BY DEF SInv
<1> QED BY Invariance, <1>1, PTL
-----------------------------------------------------------------------------
(***************************************************************************)
(* StatusIsTrue, for a client that makes one request at a time.  It needs  *)
(* to know more of that client's checkStatus: nobody replaces the Future   *)
(* it holds, adds a delta or propagates one before it goes on.             *)
(***************************************************************************)
OneRequest == \A b, c \in Caller \cup Poller : b = c

Some(s) == \E d \in DOMAIN delta : delta[d].status = s

Undisturbed ==
  /\ \A d \in DOMAIN delta :
       delta[d].status = "COMMITTED" => delta[d].commit = "success"
  /\ \A p \in Poller : call[p].at = "check" =>
       /\ call[p].future = "cached"
       /\ call[p].d = Len(delta)
       /\ ~Some("PROPAGATED")

\* What the status says, as StatusIsTrue has it.
Told ==
  /\ status \in {"PROPAGATED", "PROPAGATED-PARTIAL"} => Some("PROPAGATED")
  /\ status = "PROPAGATED-PARTIAL" => Some("INIT")
  /\ status = "PROPAGATED" => ~Some("INIT") /\ ~Some("COMMITTING")
  /\ status = "COMMITTING" =>
       /\ Some("COMMITTING") \/ \E p \in Poller : call[p].at = "check"
       /\ ~Some("PROPAGATED")
  /\ status = "COMMITTED" =>
       /\ delta # <<>>
       /\ delta[Len(delta)].status = "COMMITTED"

AloneInv == SInv /\ Undisturbed /\ Told

\* The loop that computes the status says what is in the queue, and keeps
\* the old one if there is nothing that was propagated or is committing.
LEMMA SummaryTells ==
  ASSUME NEW ds, NEW old, NEW P, NEW I, NEW C,
         P <=> \E d \in DOMAIN ds : ds[d].status = "PROPAGATED",
         I <=> \E d \in DOMAIN ds : ds[d].status = "INIT",
         C <=> \E d \in DOMAIN ds : ds[d].status = "COMMITTING"
  PROVE  \/ P /\ I /\ Summary(ds, old) = "PROPAGATED-PARTIAL"
         \/ P /\ ~I /\ ~C /\ Summary(ds, old) = "PROPAGATED"
         \/ P /\ ~I /\ C /\ Summary(ds, old) = "COMMITTING-PARTIAL"
         \/ ~P /\ C /\ Summary(ds, old) = "COMMITTING"
         \/ ~P /\ ~C /\ Summary(ds, old) = old
  BY DEF Summary

\* A status that was computed is true.
LEMMA ComputedIsTrue ==
  ASSUME status' = Summary(delta', status),
         \/ Some("PROPAGATED")' \/ Some("COMMITTING")'
         \/ status \notin {"PROPAGATED", "PROPAGATED-PARTIAL", "COMMITTING", "COMMITTED"}
  PROVE  Told'
<1>1. \/ Some("PROPAGATED")' /\ Some("INIT")' /\ status' = "PROPAGATED-PARTIAL"
      \/ Some("PROPAGATED")' /\ ~Some("INIT")' /\ ~Some("COMMITTING")'
           /\ status' = "PROPAGATED"
      \/ Some("PROPAGATED")' /\ ~Some("INIT")' /\ Some("COMMITTING")'
           /\ status' = "COMMITTING-PARTIAL"
      \/ ~Some("PROPAGATED")' /\ Some("COMMITTING")' /\ status' = "COMMITTING"
      \/ ~Some("PROPAGATED")' /\ ~Some("COMMITTING")' /\ status' = status
  BY SummaryTells DEF Some
<1> QED BY <1>1 DEF Told

\* The only request there is does not check: none does.
LEMMA NobodyChecks ==
  ASSUME OneRequest, NEW c \in Caller \cup Poller, call[c].at # "check"
  PROVE  \A p \in Poller : call[p].at # "check"
  BY DEF OneRequest

\* The request waits, or is done, and the queue is as it was.
LEMMA AloneMoves ==
  ASSUME OneRequest, SInv, Undisturbed, Told, NEW c \in Caller \cup Poller,
         call[c].at # "check", call'[c].at # "check", delta' = delta,
         \/ status' = status
         \/ status' \notin {"PROPAGATED", "PROPAGATED-PARTIAL", "COMMITTING", "COMMITTED"}
         \/ status' = Summary(delta, status) /\ status \in {"COMPILED", "COMMITTING-PARTIAL"}
  PROVE  Undisturbed' /\ Told'
<1>1. /\ \A p \in Poller : call[p].at # "check"
      /\ \A p \in Poller : call'[p].at # "check"
  BY NobodyChecks DEF OneRequest
<1>2. Undisturbed'
  BY <1>1 DEF Undisturbed
<1>3. CASE status' = status
  BY <1>1, <1>2, <1>3 DEF Told, Some
<1>4. CASE status' \notin {"PROPAGATED", "PROPAGATED-PARTIAL", "COMMITTING", "COMMITTED"}
  BY <1>2, <1>4 DEF Told
<1>5. CASE status' = Summary(delta, status) /\ status \in {"COMPILED", "COMMITTING-PARTIAL"}
  BY <1>2, <1>5, ComputedIsTrue
<1> QED BY <1>3, <1>4, <1>5

\* A delta is propagated, or starts to be committed, and the request is done.
LEMMA AloneChanges ==
  ASSUME OneRequest, SInv, Undisturbed, NEW c \in Caller \cup Poller,
         call'[c] = Idle, NEW d \in DOMAIN delta, NEW r,
         delta' = [delta EXCEPT ![d] = r],
         r.status \in {"PROPAGATED", "COMMITTING"}, status' = Summary(delta', status)
  PROVE  Undisturbed' /\ Told'
<1>1. /\ DOMAIN delta' = DOMAIN delta /\ delta'[d] = r
      /\ \A e \in DOMAIN delta \ {d} : delta'[e] = delta[e]
  BY Facts
<1>2. \A p \in Poller : call'[p].at # "check"
  BY IdlePlace DEF OneRequest
<1>3. Undisturbed'
  BY <1>1, <1>2 DEF Undisturbed
<1>4. Some("PROPAGATED")' \/ Some("COMMITTING")'
  BY <1>1 DEF Some
<1> QED BY <1>3, <1>4, ComputedIsTrue

\* A delta is added.
LEMMA AloneAppends ==
  ASSUME OneRequest, SInv, Undisturbed, Told, NEW c \in Caller \cup Poller,
         call'[c] = Idle, delta' = Append(delta, NewDelta),
         \/ status' \in {"COMPILED", "COMMITTING-PARTIAL"}
         \/ status' = "PROPAGATED-PARTIAL" /\ status = "PROPAGATED"
  PROVE  Undisturbed' /\ Told'
<1>1. /\ DOMAIN delta' = DOMAIN delta \cup {Len(delta) + 1}
      /\ delta'[Len(delta) + 1] = NewDelta
      /\ \A e \in DOMAIN delta : delta'[e] = delta[e]
  BY Facts
<1>2. NewDelta.status = "INIT"
  BY DEF NewDelta
<1>3. \A p \in Poller : call'[p].at # "check"
  BY IdlePlace DEF OneRequest
<1>4. Undisturbed'
  BY <1>1, <1>2, <1>3 DEF Undisturbed
<1>5. Some("INIT")' /\ (Some("PROPAGATED") => Some("PROPAGATED")')
  BY <1>1, <1>2 DEF Some
<1> QED BY <1>4, <1>5 DEF Told

LEMMA AloneRequest ==
  ASSUME OneRequest, SInv, Undisturbed, Told, NEW c \in Caller, Request(c)
  PROVE  Undisturbed' /\ Told'
<1>0. /\ c \in Caller \cup Poller /\ call[c] = Idle /\ call[c].at # "check"
      /\ call \in [Caller \cup Poller -> CallRecord] /\ DOMAIN delta = 1..Len(delta)
  BY Facts, IdlePlace
  DEF Request, Compile, Recompile, Propagate, Retry, Commit, Revert
<1>1. ASSUME Throw(c) PROVE Undisturbed' /\ Told'
  <2>1. call'[c].at # "check" /\ status' = "FAILED" /\ delta' = delta
    BY <1>0, <1>1, IdlePlace DEF Throw, Leave
  <2> QED BY <2>1, <1>0, AloneMoves
<1>2. ASSUME NEW what \in {"compile", "propagate", "retry", "commit"}, NEW d,
             WaitFor(c, what, d), UNCHANGED <<status, delta>>
      PROVE  Undisturbed' /\ Told'
  <2>1. call'[c].at # "check"
    BY <1>0, <1>2 DEF WaitFor
  <2> QED BY <2>1, <1>0, <1>2, AloneMoves
<1>3. ASSUME status' = Summary(delta, status), UNCHANGED <<delta, call>>,
             \/ status \in {"COMPILED", "COMMITTING-PARTIAL"}
             \/ Some("PROPAGATED")
      PROVE  Undisturbed' /\ Told'
  <2>1. CASE status \in {"COMPILED", "COMMITTING-PARTIAL"}
    BY <2>1, <1>0, <1>3, AloneMoves
  <2>2. CASE Some("PROPAGATED")
    <3>1. Some("PROPAGATED")'
      BY <2>2, <1>3 DEF Some
    <3>2. Undisturbed'
      BY <1>0, <1>3, NobodyChecks DEF Undisturbed
    <3> QED BY <3>1, <3>2, <1>3, ComputedIsTrue
  <2> QED BY <1>3, <2>1, <2>2
<1>4. CASE Compile(c)
  BY <1>4, <1>2 DEF Compile
<1>5. CASE Recompile(c)
  BY <1>5, <1>1 DEF Recompile
<1>6. CASE Propagate(c)
  <2>1. \/ Throw(c)
        \/ WaitFor(c, "propagate", FirstIn("INIT")) /\ UNCHANGED <<status, delta>>
        \/ /\ status \in {"COMPILED", "PROPAGATED-PARTIAL", "COMMITTING-PARTIAL"}
           /\ status' = Summary(delta, status) /\ UNCHANGED <<delta, call>>
    BY <1>6 DEF Propagate
  <2> QED BY <2>1, <1>1, <1>2, <1>3 DEF Told
<1>7. CASE Retry(c)
  BY <1>7, <1>1, <1>2 DEF Retry
<1>8. ASSUME NEW forced \in BOOLEAN, Commit(c, forced) PROVE Undisturbed' /\ Told'
  <2>1. \/ Throw(c)
        \/ WaitFor(c, "commit", FirstIn("PROPAGATED")) /\ UNCHANGED <<status, delta>>
        \/ /\ status \in {"PROPAGATED", "PROPAGATED-PARTIAL", "COMMITTING-PARTIAL"}
           /\ status' = Summary(delta, status) /\ UNCHANGED <<delta, call>>
    BY <1>8 DEF Commit
  <2> QED BY <2>1, <1>1, <1>2, <1>3 DEF Told
<1>9. ASSUME NEW forced \in BOOLEAN, Revert(c, forced) PROVE Undisturbed' /\ Told'
  <2>1. \/ Throw(c)
        \/ /\ delta' = Append(delta, NewDelta) /\ call' = call
           /\ \/ status' = "COMMITTING-PARTIAL"
              \/ status' = "PROPAGATED-PARTIAL" /\ status = "PROPAGATED"
    BY <1>9 DEF Revert
  <2> QED BY <2>1, <1>0, <1>1, AloneAppends
<1> QED BY <1>4, <1>5, <1>6, <1>7, <1>8, <1>9 DEF Request

LEMMA AloneResponse ==
  ASSUME OneRequest, SInv, Undisturbed, Told, NEW c \in Caller, Response(c)
  PROVE  Undisturbed' /\ Told'
<1>0. /\ c \in Caller \cup Poller /\ call \in [Caller \cup Poller -> CallRecord]
      /\ call[c].at # "check"
      /\ call[c].at # "compile" => call[c].d \in DOMAIN delta
  BY Facts DEF Response, Compiled, Propagated, Retried, CommitStarted
<1>1. ASSUME Throw(c) PROVE Undisturbed' /\ Told'
  <2>1. call'[c].at # "check" /\ status' = "FAILED" /\ delta' = delta
    BY <1>0, <1>1, IdlePlace DEF Throw, Leave
  <2> QED BY <2>1, <1>0, AloneMoves
<1>2. Leave(c) => call'[c] = Idle
  BY <1>0 DEF Leave
<1>3. CASE Compiled(c)
  BY <1>3, <1>0, <1>1, <1>2, AloneAppends DEF Compiled
<1>4. CASE Propagated(c)
  <2>1. ASSUME NEW r,
               delta' = [delta EXCEPT ![call[c].d] =
                          [status |-> "PROPAGATED", driver |-> StoredBy(r, @.driver),
                           commit |-> @.commit, ended |-> @.ended]],
               status' = Summary(delta', status), Leave(c)
        PROVE  Undisturbed' /\ Told'
    <3> DEFINE d == call[c].d
               n == [status |-> "PROPAGATED", driver |-> StoredBy(r, delta[d].driver),
                     commit |-> delta[d].commit, ended |-> delta[d].ended]
    <3>1. delta' = [delta EXCEPT ![d] = n] /\ d \in DOMAIN delta
      BY <2>1, <1>0, <1>4 DEF Propagated
    <3>2. n.status = "PROPAGATED"
      OBVIOUS
    <3> HIDE DEF n
    <3> QED BY <2>1, <3>1, <3>2, <1>0, <1>2, AloneChanges
  <2> QED BY <2>1, <1>1, <1>4 DEF Propagated
<1>5. CASE Retried(c)
  <2>1. ASSUME NEW r,
               delta' = [delta EXCEPT ![call[c].d] =
                          [status |-> "PROPAGATED", driver |-> StoredBy(r, Marked(@.driver)),
                           commit |-> @.commit, ended |-> @.ended]],
               status' = Summary(delta', status), Leave(c)
        PROVE  Undisturbed' /\ Told'
    <3> DEFINE d == call[c].d
               n == [status |-> "PROPAGATED", driver |-> StoredBy(r, Marked(delta[d].driver)),
                     commit |-> delta[d].commit, ended |-> delta[d].ended]
    <3>1. delta' = [delta EXCEPT ![d] = n] /\ d \in DOMAIN delta
      BY <2>1, <1>0, <1>5 DEF Retried
    <3>2. n.status = "PROPAGATED"
      OBVIOUS
    <3> HIDE DEF n
    <3> QED BY <2>1, <3>1, <3>2, <1>0, <1>2, AloneChanges
  <2> QED BY <2>1, <1>1, <1>5 DEF Retried
<1>6. CASE CommitStarted(c)
  <2>1. CASE Throw(c)
    BY <2>1, <1>1
  <2>2. CASE ~ Throw(c)
    <3> DEFINE d == call[c].d
               r == [status |-> "COMMITTING", driver |-> delta[d].driver,
                     commit |-> "running", ended |-> delta[d].ended]
    <3>1. /\ delta' = [delta EXCEPT ![d] = r] /\ status' = Summary(delta', status)
          /\ LeaveReplacing(c, d)
      BY <2>2, <1>6 DEF CommitStarted
    <3>2. call'[c] = Idle
      BY <3>1, <1>0 DEF LeaveReplacing
    <3>3. r.status = "COMMITTING" /\ d \in DOMAIN delta
      BY <1>0, <1>6 DEF CommitStarted
    <3> HIDE DEF r
    <3> QED BY <3>1, <3>2, <3>3, <1>0, AloneChanges
  <2> QED BY <2>1, <2>2
<1> QED BY <1>3, <1>4, <1>5, <1>6 DEF Response

LEMMA AloneCommitEnds ==
  ASSUME SInv, Undisturbed, Told, NEW d, SystemCommitEnds(d)
  PROVE  Undisturbed' /\ Told'
<1>1. /\ delta \in Seq(Delta) /\ d \in DOMAIN delta /\ delta[d].commit = "running"
      /\ UNCHANGED <<status, call>>
  BY Facts DEF SystemCommitEnds
<1>2. PICK r \in {"success", "thrown"} :
        delta' = [delta EXCEPT ![d] =
                    [status |-> @.status, driver |-> @.driver,
                     commit |-> r, ended |-> @.ended \cup {r}]]
  BY DEF SystemCommitEnds
<1>3. /\ DOMAIN delta' = DOMAIN delta /\ Len(delta') = Len(delta)
      /\ \A e \in DOMAIN delta : delta'[e].status = delta[e].status
      /\ \A e \in DOMAIN delta : e # d => delta'[e] = delta[e]
  BY <1>1, <1>2
<1>4. \A s : Some(s)' = Some(s)
  BY <1>3 DEF Some
<1>5. delta[d].status # "COMMITTED"
  BY <1>1 DEF Undisturbed
<1>6. Undisturbed'
  BY <1>1, <1>3, <1>4, <1>5 DEF Undisturbed
<1>7. delta # <<>> => Len(delta) \in DOMAIN delta /\ delta' # <<>>
  BY <1>1, <1>3
<1>8. Told'
  BY <1>1, <1>3, <1>4, <1>7 DEF Told
<1> QED BY <1>6, <1>8

LEMMA AloneChecks ==
  ASSUME OneRequest, SInv, Undisturbed, Told, NEW p \in Poller, CheckStatus(p)
  PROVE  Undisturbed' /\ Told'
<1> DEFINE d == Len(delta)
<1>1. /\ call[p] = Idle /\ call[p].at # "check" /\ delta # <<>> /\ d \in DOMAIN delta
      /\ delta \in Seq(Delta) /\ status = "COMMITTING"
      /\ call \in [Caller \cup Poller -> CallRecord]
  BY Facts, IdlePlace DEF CheckStatus
<1>2. ~Some("PROPAGATED") /\ \A q \in Poller : call[q].at # "check"
  BY <1>1, NobodyChecks DEF Told
<1>3. CASE /\ delta[d].status \in {"COMMITTED", "FAILED"}
           /\ status' = delta[d].status /\ UNCHANGED <<delta, call>>
  <2>1. Undisturbed'
    BY <1>2, <1>3 DEF Undisturbed
  <2>2. Told'
    BY <1>1, <1>3 DEF Told
  <2> QED BY <2>1, <2>2
<1>4. CASE /\ delta[d].status = "COMMITTING"
           /\ delta' = [delta EXCEPT ![d] =
                          [status |-> "FAILED", driver |-> @.driver,
                           commit |-> @.commit, ended |-> @.ended]]
           /\ WaitFor(p, "check", d) /\ UNCHANGED status
  <2>1. /\ DOMAIN delta' = DOMAIN delta /\ Len(delta') = d
        /\ delta'[d].status = "FAILED"
        /\ \A e \in DOMAIN delta : e # d => delta'[e] = delta[e]
    BY <1>1, <1>4
  <2>2. call'[p] = [at |-> "check", d |-> d, future |-> "cached"]
    BY <1>1, <1>4 DEF WaitFor
  <2>3. ~Some("PROPAGATED")'
    BY <2>1, <1>2 DEF Some
  <2>4. \A q \in Poller : q = p
    BY DEF OneRequest
  <2>5. Undisturbed'
    BY <2>1, <2>2, <2>3, <2>4 DEF Undisturbed
  <2>6. Told'
    BY <2>2, <2>3, <1>1, <1>4 DEF Told
  <2> QED BY <2>5, <2>6
<1> QED BY <1>3, <1>4 DEF CheckStatus

LEMMA AloneIsChecked ==
  ASSUME OneRequest, SInv, Undisturbed, Told, NEW p \in Poller, StatusChecked(p)
  PROVE  Undisturbed' /\ Told'
<1> DEFINE d == Len(delta)
<1>1. /\ call[p].at = "check" /\ call[p].d = d /\ call[p].future = "cached"
      /\ ~Some("PROPAGATED")
      /\ d \in DOMAIN delta /\ delta \in Seq(Delta) /\ delta[d] \in Delta
      /\ delta[d].commit # "null" /\ call \in [Caller \cup Poller -> CallRecord]
  BY Facts DEF StatusChecked, Undisturbed, HoldsOf
<1> DEFINE r == delta[d].commit
           v == Verdict(r)
<1>2. r \in {"running", "success", "thrown"}
  BY <1>1 DEF Delta
<1>3. /\ delta' = [delta EXCEPT ![d] =
                     [status |-> v, driver |-> @.driver, commit |-> @.commit,
                      ended |-> @.ended \cup ({r} \ {"running"})]]
      /\ status' = v
  BY <1>1 DEF StatusChecked, Answers
<1>4. v \in {"COMMITTING", "COMMITTED", "FAILED"} /\ (v = "COMMITTED" => r = "success")
  BY <1>2 DEF Verdict
<1> HIDE DEF v
<1>5. /\ DOMAIN delta' = DOMAIN delta /\ Len(delta') = d
      /\ delta'[d].status = v /\ delta'[d].commit = r
      /\ \A e \in DOMAIN delta : e # d => delta'[e] = delta[e]
  BY <1>1, <1>3
<1>6. call'[p].at # "check" /\ \A q \in Poller : q = p
  BY <1>1, IdlePlace DEF StatusChecked, Leave, OneRequest
<1>7. ~Some("PROPAGATED")'
  BY <1>1, <1>4, <1>5 DEF Some
<1>8. Undisturbed'
  BY <1>4, <1>5, <1>6 DEF Undisturbed
<1>9. v = "COMMITTING" => Some("COMMITTING")'
  BY <1>1, <1>5 DEF Some
<1>10. delta' # <<>> /\ d \in DOMAIN delta'
  BY <1>1, <1>5
<1> QED BY <1>3, <1>4, <1>5, <1>7, <1>8, <1>9, <1>10 DEF Told

LEMMA AloneInit == Init => AloneInv
<1> SUFFICES ASSUME Init PROVE AloneInv
  OBVIOUS
<1>1. DOMAIN delta = {} /\ \A p \in Poller : call[p].at = "idle"
  BY IdlePlace DEF Init
<1> QED BY <1>1, InitInv DEF Init, AloneInv, Undisturbed, Told

LEMMA AloneStep == OneRequest /\ AloneInv /\ [Next]_vars => AloneInv'
<1> SUFFICES ASSUME OneRequest, AloneInv, [Next]_vars PROVE AloneInv'
  OBVIOUS
<1>0. SInv /\ SInv' /\ Undisturbed /\ Told
  BY StepInv DEF AloneInv
<1>1. CASE \E p \in Poller : CheckStatus(p) \/ StatusChecked(p)
  BY <1>0, <1>1, AloneChecks, AloneIsChecked DEF AloneInv
<1>2. CASE \E c \in Caller : Request(c) \/ Response(c)
  BY <1>0, <1>2, AloneRequest, AloneResponse DEF AloneInv
<1>3. CASE \E d \in 1..MaxDelta : SystemCommitEnds(d)
  BY <1>0, <1>3, AloneCommitEnds DEF AloneInv
<1>4. CASE Verify
  BY <1>0, <1>4 DEF Verify, AloneInv, Undisturbed, Told, Some
<1>5. CASE UNCHANGED vars
  BY <1>0, <1>5 DEF vars, AloneInv, Undisturbed, Told, Some
<1> QED BY <1>1, <1>2, <1>3, <1>4, <1>5 DEF Next

\* What the instance says of itself is true of its queue, for a client that
\* makes one request at a time, with any number of deltas: each operation
\* leaves the status that goes with what it did.
THEOREM StatusesAreTrue == Spec => []StatusIsTrue
<1>1. CASE Cardinality(Caller \cup Poller) = 1
  <2>1. OneRequest
    <3>1. \E x : Caller \cup Poller = {x}
      BY <1>1, FS_Singleton, LifecycleAssumption
    <3> QED BY <3>1 DEF OneRequest
  <2>2. AloneInv => StatusIsTrue
    <3> SUFFICES ASSUME AloneInv PROVE StatusIsTrue
      OBVIOUS
    <3>1. Undisturbed /\ Told /\ SInv /\ delta \in Seq(Delta)
      BY Facts DEF AloneInv
    <3>2. \A p \in Poller : call[p].at = "check" =>
            call[p].d \in DOMAIN delta /\ UnderCheck(call[p].d)
      BY <3>1, Facts DEF UnderCheck
    <3>3. status = "COMMITTED" => Len(delta) \in DOMAIN delta
      BY <3>1 DEF Told
    <3> QED BY <3>1, <3>2, <3>3 DEF StatusIsTrue, Told, Undisturbed, Some
  <2> QED BY <2>1, <2>2, AloneInit, AloneStep, PTL DEF Spec
<1>2. CASE Cardinality(Caller \cup Poller) # 1
  <2>1. StatusIsTrue
    BY <1>2 DEF StatusIsTrue
  <2> QED BY <2>1, PTL
<1> QED BY <1>1, <1>2
=============================================================================
