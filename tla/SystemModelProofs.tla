-------------------------- MODULE SystemModelProofs --------------------------
(***************************************************************************)
(* Proofs about module SystemModel, for any drivers, overlapping pulls and *)
(* numbers of instances, versions and failures.                            *)
(*                                                                         *)
(* That no head goes back rests on the lock of pullModel: of the pulls of  *)
(* an instance only one at a time is between reading the remote's model    *)
(* and giving it an id, so ids and versions go up together, although the   *)
(* items are committed in any order.  That the lock is the one of the      *)
(* instance a pull was started for, rests on an instance in the database   *)
(* being the one in the map.                                               *)
(***************************************************************************)
EXTENDS SystemModel, TLAPS

USE SystemModelAssumption

\* An instance is of one driver, what is stored is in the map, and what is
\* being plugged is not stored.
Instances ==
  /\ \A d, e \in Driver : instances[d] # 0 /\ instances[d] = instances[e] => d = e
  /\ \A d \in Driver : instances[d] <= plugged
  /\ \A i \in rows : \E d \in Driver : instances[d] = i
  /\ \A d \in plugging : instances[d] \notin rows

\* A pull is of an instance that is, or was, its driver's.
Owned ==
  \A d \in Driver, s \in Slot :
    LET p == pull[d][s]
    IN  /\ p.inst <= plugged
        /\ p.pc # "idle" => p.inst # 0
        /\ p.inst # 0 => \A e \in Driver :
             /\ instances[e] = p.inst => e = d
             /\ \A t \in Slot : pull[e][t].inst = p.inst => e = d

\* Only one pull of an instance is in the synchronized block.
Locked ==
  \A d \in Driver, s, t \in Slot :
    pull[d][s].pc = "locked" =>
      /\ pull[d][s].lock = pull[d][s].inst
      /\ pull[d][t].pc = "locked" /\ pull[d][t].inst = pull[d][s].inst => s = t

\* Items that are stored, or will be: each has its id.
Item == Nat \X (0..MaxVersion)
Flushed(i) ==
  {it \in Item : \E d \in Driver, s \in Slot :
     /\ pull[d][s].pc = "flushed" /\ pull[d][s].inst = i
     /\ it = <<pull[d][s].id, pull[d][s].ver>>}
Known(i) == items[i] \cup Flushed(i)

\* Of an instance's items one has the greatest id; there are none before it
\* is plugged.
Stored ==
  \A i \in Inst :
    /\ i > plugged => items[i] = {}
    /\ HasHead(i) => \E it \in items[i] : \A x \in items[i] : x[1] <= it[1]

\* Ids and versions go up together, to the version of the remote.
Ordered ==
  \A i \in Inst : \A a \in Known(i) :
    /\ a[1] < nextId[i]
    /\ \A b \in Known(i) : a[1] <= b[1] => a[2] <= b[2]
    /\ \A d \in Driver : instances[d] = i => a[2] <= remote[d]

\* What is being read is not older than what is known, nor newer than the
\* remote's model.
Read ==
  \A d \in Driver, s \in Slot : pull[d][s].pc = "locked" =>
    /\ pull[d][s].ver <= remote[d]
    /\ \A a \in Known(pull[d][s].inst) : a[2] <= pull[d][s].ver

Core == Instances /\ Owned /\ Locked /\ Stored /\ Ordered /\ Read

IInv == SystemTypeOK /\ Core /\ ReadyIsWhole

-----------------------------------------------------------------------------
PullState == [pc : {"idle", "started", "locked", "flushed"}, inst : 0..MaxInst,
              lock : 0..MaxInst, ver : 0..MaxVersion, id : Nat]

LEMMA IdleType == Idle \in PullState /\ Idle.pc = "idle" /\ Idle.inst = 0
  BY DEF Idle, PullState

LEMMA FlushedType ==
  ASSUME NEW p \in PullState, NEW n \in Nat
  PROVE  [p EXCEPT !.pc = "flushed", !.lock = 0, !.id = n] \in PullState
<1>1. [p EXCEPT !.pc = "flushed"] \in PullState
  BY DEF PullState
<1>2. \A q \in PullState : [q EXCEPT !.lock = 0] \in PullState
  BY DEF PullState
<1>3. \A q \in PullState : [q EXCEPT !.id = n] \in PullState
  BY DEF PullState
<1>4. [p EXCEPT !.pc = "flushed", !.lock = 0, !.id = n]
        = [[[p EXCEPT !.pc = "flushed"] EXCEPT !.lock = 0] EXCEPT !.id = n]
  OBVIOUS
<1> QED
  BY <1>1, <1>2, <1>3, <1>4

\* What SetPull does.
LEMMA SetPullFacts ==
  ASSUME SystemTypeOK, NEW d \in Driver, NEW s \in Slot, NEW p \in PullState,
         SetPull(d, s, p)
  PROVE  /\ pull' \in [Driver -> [Slot -> PullState]]
         /\ pull'[d][s] = p
         /\ \A e \in Driver, t \in Slot :
              e # d \/ t # s => pull'[e][t] = pull[e][t]
<1>1. pull \in [Driver -> [Slot -> PullState]]
  BY DEF SystemTypeOK, PullState
<1>2. pull' = [pull EXCEPT ![d] = [pull[d] EXCEPT ![s] = p]]
  BY <1>1 DEF SetPull
<1>3. [pull[d] EXCEPT ![s] = p] \in [Slot -> PullState]
  BY <1>1
<1> QED
  BY <1>1, <1>2, <1>3

\* The head is the version of the item with the greatest id.
LEMMA HeadIsGreatest ==
  ASSUME Stored, NEW i \in Inst, HasHead(i)
  PROVE  \E it \in items[i] : Head(i) = it[2] /\ \A x \in items[i] : x[1] <= it[1]
<1>1. \E it \in items[i] : \A x \in items[i] : x[1] <= it[1]
  BY DEF Stored
<1> QED
  BY <1>1 DEF Head

\* The heads of the drivers make a group, which has all of them.
LEMMA HeadItemsFacts ==
  ASSUME SystemTypeOK, Stored, AllHaveHeads
  PROVE  /\ HeadItems \in SUBSET (Inst \X (0..MaxVersion))
         /\ \A d \in Plugged : \E it \in HeadItems : it[1] = instances[d]
         /\ Plugged # {} => HeadItems # {}
<1>1. ASSUME NEW d \in Plugged
      PROVE  <<instances[d], Head(instances[d])>> \in Inst \X (0..MaxVersion)
  <2>1. instances[d] \in Inst
    BY DEF SystemTypeOK, Plugged, Inst
  <2>2. PICK it \in items[instances[d]] : Head(instances[d]) = it[2]
    BY <2>1, HeadIsGreatest DEF AllHaveHeads
  <2>3. it \in Nat \X (0..MaxVersion)
    BY <2>1 DEF SystemTypeOK
  <2> QED
    BY <2>1, <2>2, <2>3
<1>2. \A d \in Plugged : <<instances[d], Head(instances[d])>> \in HeadItems
  BY DEF HeadItems
<1>3. HeadItems \in SUBSET (Inst \X (0..MaxVersion))
  BY <1>1 DEF HeadItems
<1>4. ASSUME NEW d \in Plugged
      PROVE  \E it \in HeadItems : it[1] = instances[d]
  <2>1. <<instances[d], Head(instances[d])>> \in HeadItems
    BY <1>2
  <2>2. <<instances[d], Head(instances[d])>>[1] = instances[d]
    OBVIOUS
  <2> QED
    BY <2>1, <2>2
<1> QED
  BY <1>2, <1>3, <1>4

-----------------------------------------------------------------------------
\* The types.
LEMMA InitType == Init => SystemTypeOK
<1> SUFFICES ASSUME Init PROVE SystemTypeOK
  OBVIOUS
<1>1. pull \in [Driver -> [Slot -> PullState]]
  BY IdleType DEF Init
<1>2. /\ instances \in [Driver -> 0..MaxInst] /\ plugged \in 0..MaxInst
      /\ remote \in [Driver -> 0..MaxVersion]
      /\ nextId \in [Inst -> Nat]
  BY DEF Init
<1>3. items \in [Inst -> SUBSET (Nat \X (0..MaxVersion))]
  BY DEF Init
<1>4. 0 \in 0..MaxFaults
  OBVIOUS
<1> QED
  BY <1>1, <1>2, <1>3, <1>4 DEF Init, SystemTypeOK, PullState

LEMMA DriversKeepType ==
  ASSUME SystemTypeOK, Instances, NEW d \in Driver,
         Plug(d) \/ PlugDone(d) \/ PlugFails(d) \/ Unplug(d) \/ RemoteChanges(d)
  PROVE  SystemTypeOK'
<1> USE DEF SystemTypeOK, Inst, Plugged, coordVars, driverVars, pullVars
<1>1. CASE Plug(d)
  <2>1. /\ plugged' = plugged + 1 /\ plugged < MaxInst
        /\ instances' = [instances EXCEPT ![d] = plugged + 1]
        /\ plugging' = plugging \cup {d}
        /\ UNCHANGED <<rows, remote, pullVars, coordVars, faults>>
    BY <1>1 DEF Plug
  <2>2. /\ plugged' \in 0..MaxInst /\ instances' \in [Driver -> 0..MaxInst]
        /\ plugging' \in SUBSET Plugged'
    BY <2>1
  <2> QED
    BY <2>1, <2>2
<1>2. CASE PlugDone(d)
  <2>1. instances[d] \in Inst
    BY <1>2 DEF PlugDone
  <2> QED
    BY <1>2, <2>1 DEF PlugDone, Forget
<1>3. CASE PlugFails(d)
  BY <1>3 DEF PlugFails
<1>4. CASE Unplug(d)
  <2>1. /\ instances' = [instances EXCEPT ![d] = 0] /\ rows' = rows \ {instances[d]}
        /\ items' = [items EXCEPT ![instances[d]] = {}]
        /\ plugging' = plugging /\ d \notin plugging
        /\ UNCHANGED <<plugged, remote, nextId, pull, served, faults>>
    BY <1>4 DEF Unplug, Deleted
  <2>2. plugging' \in SUBSET Plugged' /\ instances' \in [Driver -> 0..MaxInst]
    BY <2>1
  <2>3. items' \in [Inst -> SUBSET (Nat \X (0..MaxVersion))]
    BY <2>1
  <2>4. /\ bootStrapped' \in BOOLEAN /\ group' \in SUBSET (Inst \X (0..MaxVersion))
        /\ groupStored' \in BOOLEAN /\ referenced' \in BOOLEAN
    <3>1. CASE Plugged = {d}
      BY <3>1, <1>4 DEF Unplug, Deleted, Forget
    <3>2. CASE Plugged # {d}
      <4> DEFINE left == group # {} /\ \E it \in group : it[1] # instances[d]
      <4>1. /\ groupStored' = (groupStored /\ referenced /\ left)
            /\ UNCHANGED <<bootStrapped, group, referenced>>
        BY <3>2, <1>4 DEF Unplug, Deleted
      <4> QED
        BY <4>1
    <3> QED
      BY <3>1, <3>2
  <2> QED
    BY <2>1, <2>2, <2>3, <2>4
<1>5. CASE RemoteChanges(d)
  <2>1. remote' = [remote EXCEPT ![d] = remote[d] + 1] /\ remote[d] < MaxVersion
    BY <1>5 DEF RemoteChanges
  <2>2. remote' \in [Driver -> 0..MaxVersion]
    BY <2>1
  <2> QED
    BY <2>2, <1>5 DEF RemoteChanges
<1> QED
  BY <1>1, <1>2, <1>3, <1>4, <1>5

\* The calls of pullModel change pulls, items and ids.
LEMMA PullsKeepType ==
  ASSUME SystemTypeOK, Owned, NEW d \in Driver, NEW s \in Slot,
         Pull(d, s) \/ PullFails(d, s)
  PROVE  SystemTypeOK'
<1> DEFINE p == pull[d][s]
<1>0. /\ p \in PullState
      /\ instances[d] \in 0..MaxInst /\ remote[d] \in 0..MaxVersion
  BY DEF SystemTypeOK, PullState
<1>1. ASSUME NEW q \in PullState, SetPull(d, s, q),
             UNCHANGED <<driverVars, remote, coordVars>>,
             items' \in [Inst -> SUBSET (Nat \X (0..MaxVersion))],
             nextId' \in [Inst -> Nat], faults' \in 0..MaxFaults
      PROVE  SystemTypeOK'
  <2>1. pull' \in [Driver -> [Slot -> PullState]]
    BY <1>1, SetPullFacts
  <2> QED
    BY <1>1, <2>1 DEF SystemTypeOK, driverVars, coordVars, Plugged, PullState
<1>2. /\ items \in [Inst -> SUBSET (Nat \X (0..MaxVersion))]
      /\ nextId \in [Inst -> Nat] /\ faults \in 0..MaxFaults
  BY DEF SystemTypeOK
<1>3. CASE StartPull(d, s)
  <2>1. [Idle EXCEPT !.pc = "started", !.inst = instances[d]] \in PullState
    BY <1>0, IdleType DEF PullState
  <2> QED
    BY <2>1, <1>1, <1>2, <1>3 DEF StartPull
<1>4. CASE PullEnds(d, s)
  BY <1>1, <1>2, <1>4, IdleType DEF PullEnds
<1>5. CASE ReadModel(d, s)
  <2>1. [p EXCEPT !.pc = "locked", !.lock = instances[d], !.ver = remote[d]]
          \in PullState
    BY <1>0 DEF PullState
  <2> QED
    BY <2>1, <1>1, <1>2, <1>5 DEF ReadModel
<1>6. CASE StoreItem(d, s)
  <2>1. CASE \E it \in items[p.inst] : it[2] = p.ver
    BY <2>1, <1>1, <1>2, <1>6, IdleType DEF StoreItem
  <2>2. CASE ~ \E it \in items[p.inst] : it[2] = p.ver
    <3>1. p.inst \in Inst
      BY <1>0, <1>6 DEF StoreItem, Owned, PullState, Inst
    <3>2. [p EXCEPT !.pc = "flushed", !.lock = 0, !.id = nextId[p.inst]] \in PullState
      <4>1. nextId[p.inst] \in Nat
        BY <3>1, <1>2
      <4> QED
        BY <1>0, <4>1, FlushedType
    <3>3. nextId' = [nextId EXCEPT ![p.inst] = @ + 1]
      BY <2>2, <1>6 DEF StoreItem
    <3>4. nextId' \in [Inst -> Nat]
      BY <3>1, <3>3, <1>2
    <3> QED
      BY <2>2, <3>2, <3>4, <1>1, <1>2, <1>6 DEF StoreItem
  <2> QED
    BY <2>1, <2>2
<1>7. CASE CommitItem(d, s)
  <2>1. <<p.id, p.ver>> \in Nat \X (0..MaxVersion)
    BY <1>0 DEF PullState
  <2>2. items' \in [Inst -> SUBSET (Nat \X (0..MaxVersion))]
    <3>1. CASE p.inst \in rows
      <4>1. items' = [items EXCEPT ![p.inst] = items[p.inst] \cup {<<p.id, p.ver>>}]
        BY <3>1, <1>7 DEF CommitItem
      <4>2. p.inst \in Inst
        BY <3>1 DEF SystemTypeOK
      <4> HIDE DEF p
      <4> QED
        BY <4>1, <4>2, <2>1, <1>2
    <3>2. CASE p.inst \notin rows
      BY <3>2, <1>2, <1>7 DEF CommitItem
    <3> QED
      BY <3>1, <3>2
  <2> QED
    BY <2>2, <1>1, <1>2, <1>7, IdleType DEF CommitItem
<1>8. CASE PullFails(d, s)
  <2>1. faults' \in 0..MaxFaults
    BY <1>2, <1>8 DEF PullFails
  <2> QED
    BY <2>1, <1>1, <1>2, <1>8, IdleType DEF PullFails
<1> QED
  BY <1>3, <1>4, <1>5, <1>6, <1>7, <1>8 DEF Pull

\* The coordinator's groups are made of the heads.
LEMMA CoordinatorKeepsType ==
  ASSUME SystemTypeOK, Stored, AutoUpdate \/ GetLatest \/ Refer \/ Restart
  PROVE  SystemTypeOK'
<1>1. ASSUME UNCHANGED <<driverVars, remote, pullVars, faults>>,
             bootStrapped' \in BOOLEAN, groupStored' \in BOOLEAN, referenced' \in BOOLEAN,
             group' \in SUBSET (Inst \X (0..MaxVersion)),
             served' \in SUBSET (Inst \X (0..MaxVersion))
      PROVE  SystemTypeOK'
  BY <1>1 DEF SystemTypeOK, driverVars, pullVars, Plugged
<1>2. AllHaveHeads => HeadItems \in SUBSET (Inst \X (0..MaxVersion))
  BY HeadItemsFacts
<1>3. /\ bootStrapped \in BOOLEAN /\ groupStored \in BOOLEAN /\ referenced \in BOOLEAN
      /\ group \in SUBSET (Inst \X (0..MaxVersion))
      /\ served \in SUBSET (Inst \X (0..MaxVersion))
  BY DEF SystemTypeOK
<1>4. CASE AutoUpdate
  <2>1. \/ NotReady
        \/ AllHaveHeads /\ bootStrapped' = TRUE /\ (NewGroup \/ SameGroup)
    BY <1>4 DEF AutoUpdate
  <2>2. UNCHANGED <<driverVars, remote, pullVars, faults>>
    BY <1>4 DEF AutoUpdate
  <2> QED
    BY <2>1, <2>2, <1>1, <1>2, <1>3 DEF NotReady, Forget, NewGroup, SameGroup
<1>5. CASE GetLatest
  BY <1>5, <1>1, <1>2, <1>3 DEF GetLatest, NewGroup, SameGroup
<1>6. CASE Refer
  BY <1>6, <1>1, <1>3 DEF Refer
<1>7. CASE Restart
  <2>1. pull' \in [Driver -> [Slot -> PullState]]
    BY <1>7, IdleType DEF Restart
  <2>2. instances' \in [Driver -> 0..MaxInst]
    BY <1>7 DEF Restart, SystemTypeOK
  <2>3. faults' \in 0..MaxFaults
    BY <1>7 DEF Restart, SystemTypeOK
  <2> QED
    BY <2>1, <2>2, <2>3, <1>7 DEF Restart, SystemTypeOK, Forget, Plugged, PullState
<1> QED
  BY <1>4, <1>5, <1>6, <1>7

LEMMA NextKeepsType == IInv /\ [Next]_vars => SystemTypeOK'
<1> SUFFICES ASSUME IInv, [Next]_vars PROVE SystemTypeOK'
  OBVIOUS
<1>1. SystemTypeOK /\ Instances /\ Owned /\ Stored
  BY DEF IInv, Core
<1>2. CASE UNCHANGED vars
  BY <1>2, <1>1 DEF vars, driverVars, pullVars, coordVars, SystemTypeOK, Plugged
<1>3. CASE Next
  BY <1>1, <1>3, DriversKeepType, PullsKeepType, CoordinatorKeepsType DEF Next
<1> QED
  BY <1>2, <1>3

-----------------------------------------------------------------------------
\* Instances in the map and in the database.
LEMMA DriversKeepInstances ==
  ASSUME SystemTypeOK, Instances, NEW d \in Driver,
         Plug(d) \/ PlugDone(d) \/ PlugFails(d) \/ Unplug(d)
  PROVE  Instances'
<1>0. /\ instances \in [Driver -> 0..MaxInst] /\ plugged \in 0..MaxInst
      /\ plugging \in SUBSET Driver /\ rows \in SUBSET Inst /\ 0 \notin rows
  BY DEF SystemTypeOK, Plugged, Inst
<1>1. CASE Plug(d)
  <2>1. /\ instances[d] = 0 /\ plugged' = plugged + 1 /\ rows' = rows
        /\ instances' = [instances EXCEPT ![d] = plugged + 1]
        /\ plugging' = plugging \cup {d}
    BY <1>1 DEF Plug
  <2>2. \A e, g \in Driver : instances'[e] # 0 /\ instances'[e] = instances'[g] => e = g
    BY <2>1, <1>0 DEF Instances
  <2>3. \A e \in Driver : instances'[e] <= plugged'
    BY <2>1, <1>0 DEF Instances
  <2>4. \A i \in rows' : \E e \in Driver : instances'[e] = i
    <3> TAKE i \in rows'
    <3>1. PICK e \in Driver : instances[e] = i
      BY <2>1 DEF Instances
    <3>2. e # d
      BY <3>1, <2>1, <1>0
    <3> QED
      BY <3>1, <3>2, <2>1, <1>0
  <2>5. plugged + 1 \notin rows
    BY <1>0 DEF Instances
  <2>6. \A e \in plugging' : instances'[e] \notin rows'
    BY <2>1, <2>5, <1>0 DEF Instances
  <2> QED
    BY <2>2, <2>3, <2>4, <2>6 DEF Instances
<1>2. CASE PlugDone(d)
  <2>1. /\ d \in plugging /\ plugging' = plugging \ {d} /\ instances' = instances
        /\ rows' = rows \cup {instances[d]} /\ plugged' = plugged
        /\ instances[d] # 0
    BY <1>2 DEF PlugDone, SystemTypeOK, Plugged
  <2> QED
    BY <2>1, <1>0 DEF Instances
<1>3. CASE PlugFails(d)
  BY <1>3 DEF PlugFails, Instances
<1>4. CASE Unplug(d)
  <2>1. /\ instances' = [instances EXCEPT ![d] = 0] /\ plugging' = plugging
        /\ rows' = rows \ {instances[d]} /\ plugged' = plugged /\ d \notin plugging
    BY <1>4 DEF Unplug, Deleted
  <2>2. \A i \in rows' : \E e \in Driver : instances'[e] = i
    BY <2>1, <1>0 DEF Instances
  <2>3. \A e, g \in Driver : instances'[e] # 0 /\ instances'[e] = instances'[g] => e = g
    BY <2>1, <1>0 DEF Instances
  <2>4. \A e \in Driver : instances'[e] <= plugged'
    BY <2>1, <1>0 DEF Instances
  <2>5. \A e \in plugging' : instances'[e] \notin rows'
    BY <2>1, <1>0 DEF Instances
  <2> QED
    BY <2>2, <2>3, <2>4, <2>5 DEF Instances
<1> QED
  BY <1>1, <1>2, <1>3, <1>4

LEMMA RestartKeepsInstances ==
  ASSUME SystemTypeOK, Instances, Restart
  PROVE  Instances'
<1>1. /\ \A d \in Driver :
           instances'[d] = IF instances[d] \in rows THEN instances[d] ELSE 0
      /\ plugging' = {} /\ rows' = rows /\ plugged' = plugged
  BY DEF Restart
<1>2. /\ instances \in [Driver -> 0..MaxInst] /\ plugged \in 0..MaxInst
  BY DEF SystemTypeOK
<1>3. \A i \in rows' : \E d \in Driver : instances'[d] = i
  <2> TAKE i \in rows'
  <2>1. PICK d \in Driver : instances[d] = i
    BY <1>1 DEF Instances
  <2> QED
    BY <2>1, <1>1
<1>4. \A d, e \in Driver : instances'[d] # 0 /\ instances'[d] = instances'[e] => d = e
  BY <1>1, <1>2 DEF Instances
<1>5. \A d \in Driver : instances'[d] <= plugged'
  BY <1>1, <1>2 DEF Instances
<1> QED
  BY <1>1, <1>3, <1>4, <1>5 DEF Instances

-----------------------------------------------------------------------------
\* A pull stays that of its driver.
LEMMA OwnedWithInstances ==
  ASSUME SystemTypeOK, Owned, pull' = pull, plugged' \in Nat, plugged' >= plugged,
         \A d \in Driver : instances'[d] \in {instances[d], 0} \/ instances'[d] > plugged
  PROVE  Owned'
<1>1. \A d \in Driver, s \in Slot : pull[d][s].inst \in Nat
  BY DEF SystemTypeOK
<1>2. plugged \in Nat
  BY DEF SystemTypeOK
<1> QED
  BY <1>1, <1>2 DEF Owned

LEMMA OwnedWithPull ==
  ASSUME SystemTypeOK, Instances, Owned, NEW d \in Driver, NEW s \in Slot,
         NEW q \in PullState, SetPull(d, s, q), UNCHANGED driverVars,
         \/ q = Idle
         \/ q.inst = pull[d][s].inst /\ pull[d][s].pc # "idle"
         \/ q.inst = instances[d] /\ instances[d] # 0
  PROVE  Owned'
<1>1. /\ pull'[d][s] = q
      /\ \A e \in Driver, t \in Slot : e # d \/ t # s => pull'[e][t] = pull[e][t]
  BY SetPullFacts
<1>2. UNCHANGED <<instances, plugged>>
  BY DEF driverVars
<1>3. /\ q.inst <= plugged
      /\ q.pc # "idle" => q.inst # 0
  BY IdleType DEF Owned, Instances, SystemTypeOK
<1>4. q.inst # 0 => \A e \in Driver :
        /\ instances[e] = q.inst => e = d
        /\ \A t \in Slot : pull[e][t].inst = q.inst => e = d
  <2>1. CASE q = Idle
    BY <2>1, IdleType
  <2>2. CASE q.inst = pull[d][s].inst /\ pull[d][s].pc # "idle"
    BY <2>2 DEF Owned
  <2>3. CASE q.inst = instances[d] /\ instances[d] # 0
    BY <2>3 DEF Owned, Instances
  <2> QED
    BY <2>1, <2>2, <2>3
<1>5. ASSUME NEW e \in Driver, NEW t \in Slot
      PROVE  LET p == pull'[e][t]
             IN  /\ p.inst <= plugged
                 /\ p.pc # "idle" => p.inst # 0
                 /\ p.inst # 0 => \A g \in Driver :
                      /\ instances[g] = p.inst => g = e
                      /\ \A u \in Slot : pull'[g][u].inst = p.inst => g = e
  <2>1. CASE e = d /\ t = s
    BY <2>1, <1>1, <1>3, <1>4
  <2>2. CASE e # d \/ t # s
    BY <2>2, <1>1, <1>4 DEF Owned
  <2> QED
    BY <2>1, <2>2
<1> QED
  BY <1>2, <1>5 DEF Owned

\* The block is entered only by ReadModel.
LEMMA LockedWithPull ==
  ASSUME SystemTypeOK, Locked, NEW d \in Driver, NEW s \in Slot,
         NEW q \in PullState, SetPull(d, s, q), q.pc # "locked"
  PROVE  Locked'
<1>1. /\ pull'[d][s] = q
      /\ \A e \in Driver, t \in Slot : e # d \/ t # s => pull'[e][t] = pull[e][t]
  BY SetPullFacts
<1> QED
  BY <1>1 DEF Locked

-----------------------------------------------------------------------------
LEMMA KnownType ==
  ASSUME SystemTypeOK, NEW i \in Inst
  PROVE  Known(i) \subseteq Item
  BY DEF SystemTypeOK, Known, Flushed, Item

\* A pull with nothing to commit adds nothing to what is known.
LEMMA KnownWithPull ==
  ASSUME SystemTypeOK, NEW d \in Driver, NEW s \in Slot, NEW q \in PullState,
         SetPull(d, s, q), q.pc # "flushed", items' = items
  PROVE  \A i \in Inst : Known(i)' \subseteq Known(i)
<1>1. /\ pull'[d][s] = q
      /\ \A e \in Driver, t \in Slot : e # d \/ t # s => pull'[e][t] = pull[e][t]
  BY SetPullFacts
<1> QED
  BY <1>1 DEF Known, Flushed

\* Where nothing new is known the order stays.
LEMMA OrderedStays ==
  ASSUME SystemTypeOK, SystemTypeOK', Ordered, nextId' = nextId,
         \A i \in Inst : Known(i)' \subseteq Known(i),
         \A d \in Driver : /\ remote'[d] >= remote[d]
                           /\ instances'[d] \in {instances[d], 0}
  PROVE  Ordered'
<1> SUFFICES ASSUME NEW i \in Inst, NEW a \in Known(i)'
             PROVE  /\ a[1] < nextId[i]
                    /\ \A b \in Known(i)' : a[1] <= b[1] => a[2] <= b[2]
                    /\ \A d \in Driver : instances'[d] = i => a[2] <= remote'[d]
  BY DEF Ordered
<1>1. a \in Known(i) /\ a[2] \in Nat
  BY KnownType DEF Item
<1>2. \A d \in Driver : remote[d] \in Nat /\ remote'[d] \in Nat
  BY DEF SystemTypeOK
<1> QED
  BY <1>1, <1>2 DEF Ordered, Inst

LEMMA ReadStays ==
  ASSUME SystemTypeOK, SystemTypeOK', Owned, Read,
         \A i \in Inst : Known(i)' \subseteq Known(i),
         \A d \in Driver : remote'[d] >= remote[d],
         \A d \in Driver, s \in Slot : pull'[d][s].pc = "locked" =>
           pull'[d][s] = pull[d][s]
  PROVE  Read'
<1> SUFFICES ASSUME NEW d \in Driver, NEW s \in Slot, pull'[d][s].pc = "locked"
             PROVE  /\ pull[d][s].ver <= remote'[d]
                    /\ \A a \in Known(pull[d][s].inst)' : a[2] <= pull[d][s].ver
  BY DEF Read
<1>1. pull[d][s].pc = "locked" /\ pull[d][s].inst \in Inst
  BY DEF Owned, SystemTypeOK, Inst
<1>2. remote[d] \in Nat /\ remote'[d] \in Nat /\ pull[d][s].ver \in Nat
  BY DEF SystemTypeOK
<1> QED
  BY <1>1, <1>2 DEF Read

-----------------------------------------------------------------------------
\* A pull that neither reads nor gets an id.
LEMMA QuietPullKeepsCore ==
  ASSUME SystemTypeOK, SystemTypeOK', Core, NEW d \in Driver, NEW s \in Slot,
         NEW q \in PullState, SetPull(d, s, q), UNCHANGED <<driverVars, remote, items, nextId>>,
         \/ q = Idle
         \/ q.pc = "started" /\ q.inst = instances[d] /\ instances[d] # 0
  PROVE  Core'
<1>1. q.pc \notin {"locked", "flushed"}
  BY IdleType
<1>2. /\ pull'[d][s] = q
      /\ \A e \in Driver, t \in Slot : e # d \/ t # s => pull'[e][t] = pull[e][t]
  BY SetPullFacts
<1>3. Instances' /\ Stored'
  BY DEF Core, Instances, Stored, driverVars, HasHead
<1>4. Owned' /\ Locked'
  BY <1>1, OwnedWithPull, LockedWithPull DEF Core
<1>5. \A i \in Inst : Known(i)' \subseteq Known(i)
  BY <1>1, KnownWithPull
<1>6. \A e \in Driver : remote[e] \in Nat /\ remote'[e] >= remote[e]
                        /\ instances'[e] = instances[e]
  BY DEF SystemTypeOK, driverVars
<1>7. Ordered'
  BY <1>5, <1>6, OrderedStays DEF Core
<1>8. \A e \in Driver, t \in Slot : pull'[e][t].pc = "locked" => pull'[e][t] = pull[e][t]
  BY <1>1, <1>2
<1>9. Read'
  BY <1>5, <1>6, <1>8, ReadStays DEF Core
<1> QED
  BY <1>3, <1>4, <1>7, <1>9 DEF Core

LEMMA BusyPullHasInstance ==
  ASSUME SystemTypeOK, Owned, NEW d \in Driver, NEW s \in Slot, pull[d][s].pc # "idle"
  PROVE  pull[d][s].inst \in Inst
<1>1. pull[d][s].inst \in 0..MaxInst /\ pull[d][s].inst # 0
  BY DEF SystemTypeOK, Owned
<1> QED
  BY <1>1 DEF Inst

\* What is in the database is in the map for the driver whose pull it is.
LEMMA StoredInstanceIsMapped ==
  ASSUME SystemTypeOK, Core, NEW d \in Driver, NEW s \in Slot, pull[d][s].inst \in rows
  PROVE  instances[d] = pull[d][s].inst /\ pull[d][s].inst \in Inst
<1>1. PICK e \in Driver : instances[e] = pull[d][s].inst
  BY DEF Core, Instances
<1>2. pull[d][s].inst \in Inst /\ pull[d][s].inst # 0
  BY DEF SystemTypeOK, Inst
<1> QED
  BY <1>1, <1>2 DEF Core, Owned

\* To read under the lock: nothing known is newer than the remote's model.
LEMMA ReadModelKeepsCore ==
  ASSUME SystemTypeOK, SystemTypeOK', Core, NEW d \in Driver, NEW s \in Slot,
         ReadModel(d, s)
  PROVE  Core'
<1> DEFINE p == pull[d][s]
           q == [p EXCEPT !.pc = "locked", !.lock = instances[d], !.ver = remote[d]]
<1>1. p \in PullState /\ p.inst \in rows /\ p.pc = "started"
  BY DEF SystemTypeOK, PullState, ReadModel
<1>2. p.inst = instances[d] /\ p.inst \in Inst
  BY <1>1, StoredInstanceIsMapped
<1>3. instances[d] \in 0..MaxInst /\ remote[d] \in 0..MaxVersion /\ remote[d] \in Nat
  BY DEF SystemTypeOK
<1>4. /\ q \in PullState /\ q.pc = "locked" /\ q.lock = instances[d]
      /\ q.inst = p.inst /\ q.ver = remote[d]
  BY <1>1, <1>3 DEF PullState
<1>5. SetPull(d, s, q) /\ UNCHANGED <<driverVars, remote, items, nextId>>
  BY DEF ReadModel
<1> HIDE DEF q
<1>6. /\ pull'[d][s] = q
      /\ \A e \in Driver, t \in Slot : e # d \/ t # s => pull'[e][t] = pull[e][t]
  BY <1>4, <1>5, SetPullFacts
<1>7. Instances' /\ Stored'
  BY <1>5 DEF Core, Instances, Stored, driverVars, HasHead
<1>8. Owned'
  BY <1>1, <1>4, <1>5, OwnedWithPull DEF Core
<1>9. Locked'
  <2>1. \A t \in Slot : pull[d][t].pc = "locked" => pull[d][t].lock # instances[d]
    BY DEF ReadModel
  <2>2. \A t \in Slot : pull[d][t].pc = "locked" => pull[d][t].inst # q.inst
    BY <2>1, <1>2, <1>4 DEF Core, Locked
  <2>3. ASSUME NEW e \in Driver, NEW t \in Slot, NEW u \in Slot, pull'[e][t].pc = "locked"
        PROVE  /\ pull'[e][t].lock = pull'[e][t].inst
               /\ pull'[e][u].pc = "locked" /\ pull'[e][u].inst = pull'[e][t].inst => t = u
    <3>1. CASE e # d
      BY <3>1, <2>3, <1>6 DEF Core, Locked
    <3>2. CASE e = d /\ t = s
      BY <3>2, <2>2, <1>2, <1>4, <1>6
    <3>3. CASE e = d /\ t # s
      BY <3>3, <2>2, <2>3, <1>4, <1>6 DEF Core, Locked
    <3> QED
      BY <3>1, <3>2, <3>3
  <2> QED
    BY <2>3 DEF Locked
<1>10. \A i \in Inst : Known(i)' \subseteq Known(i)
  BY <1>4, <1>5, KnownWithPull
<1>11. \A e \in Driver : remote[e] \in Nat /\ remote'[e] >= remote[e]
                         /\ instances'[e] = instances[e]
  BY <1>5 DEF SystemTypeOK, driverVars
<1>12. Ordered'
  BY <1>5, <1>10, <1>11, OrderedStays DEF Core
<1>13. Read'
  <2> SUFFICES ASSUME NEW e \in Driver, NEW t \in Slot, pull'[e][t].pc = "locked"
               PROVE  /\ pull'[e][t].ver <= remote'[e]
                      /\ \A a \in Known(pull[e][t].inst)' : a[2] <= pull'[e][t].ver
    BY DEF Read
  <2>1. CASE e = d /\ t = s
    <3>1. \A a \in Known(p.inst) : a[2] <= remote[d]
      BY <1>2 DEF Core, Ordered
    <3>2. pull'[e][t].ver <= remote'[e]
      BY <2>1, <1>3, <1>4, <1>5, <1>6
    <3>3. pull'[e][t].inst = p.inst /\ pull'[e][t].ver = remote[d]
      BY <2>1, <1>4, <1>6
    <3> QED
      BY <3>1, <3>2, <3>3, <1>2, <1>10
  <2>2. CASE e # d \/ t # s
    <3>1. pull'[e][t] = pull[e][t] /\ pull[e][t].inst \in Inst
      BY <2>2, <1>6, BusyPullHasInstance DEF Core
    <3> QED
      BY <3>1, <1>5, <1>10 DEF Core, Read
  <2> QED
    BY <2>1, <2>2
<1> QED
  BY <1>7, <1>8, <1>9, <1>12, <1>13 DEF Core

\* Leaving the block with an id: it is greater than those known, and what
\* was read is as new.
LEMMA StoreItemKeepsCore ==
  ASSUME SystemTypeOK, SystemTypeOK', Core, NEW d \in Driver, NEW s \in Slot,
         StoreItem(d, s)
  PROVE  Core'
<1> DEFINE p == pull[d][s]
           n == nextId[p.inst]
           q == [p EXCEPT !.pc = "flushed", !.lock = 0, !.id = n]
<1>1. /\ p \in PullState /\ p.pc = "locked" /\ p.inst \in Inst /\ n \in Nat
      /\ p.ver \in 0..MaxVersion /\ p.ver <= remote[d]
      /\ \A a \in Known(p.inst) : a[2] <= p.ver
  <2>1. p \in PullState /\ p.pc = "locked"
    BY DEF SystemTypeOK, PullState, StoreItem
  <2>2. p.inst # 0 /\ p.ver <= remote[d] /\ \A a \in Known(p.inst) : a[2] <= p.ver
    BY <2>1 DEF Core, Owned, Read
  <2>3. p.inst \in Inst /\ p.ver \in 0..MaxVersion
    BY <2>1, <2>2 DEF PullState, Inst
  <2> QED
    BY <2>1, <2>2, <2>3 DEF SystemTypeOK
<1>2. CASE \E it \in items[p.inst] : it[2] = p.ver
  <2>1. SetPull(d, s, Idle) /\ UNCHANGED <<driverVars, remote, items, nextId>>
    BY <1>2 DEF StoreItem
  <2> QED
    BY <2>1, IdleType, QuietPullKeepsCore
<1>3. CASE ~ \E it \in items[p.inst] : it[2] = p.ver
  <2>1. /\ SetPull(d, s, q) /\ nextId' = [nextId EXCEPT ![p.inst] = n + 1]
        /\ UNCHANGED <<driverVars, remote, items>>
    BY <1>3 DEF StoreItem
  <2>2. /\ q \in PullState /\ q.pc = "flushed" /\ q.inst = p.inst
        /\ q.id = n /\ q.ver = p.ver
    BY <1>1, FlushedType DEF PullState
  <2> HIDE DEF q
  <2>3. /\ pull'[d][s] = q
        /\ \A e \in Driver, t \in Slot : e # d \/ t # s => pull'[e][t] = pull[e][t]
    BY <2>1, <2>2, SetPullFacts
  <2>4. Instances' /\ Stored'
    BY <2>1 DEF Core, Instances, Stored, driverVars, HasHead
  <2>5. Owned' /\ Locked'
    BY <1>1, <2>1, <2>2, OwnedWithPull, LockedWithPull DEF Core
  <2>6. \A i \in Inst : \A a \in Known(i)' :
          a \in Known(i) \/ (i = p.inst /\ a = <<n, p.ver>>)
    <3> TAKE i \in Inst
    <3>1. items'[i] = items[i]
      BY <2>1
    <3>2. ASSUME NEW a \in Item, NEW e \in Driver, NEW t \in Slot,
                 pull'[e][t].pc = "flushed", pull'[e][t].inst = i,
                 a = <<pull'[e][t].id, pull'[e][t].ver>>
          PROVE  a \in Flushed(i) \/ (i = p.inst /\ a = <<n, p.ver>>)
      <4>1. CASE e = d /\ t = s
        BY <4>1, <3>2, <2>2, <2>3
      <4>2. CASE e # d \/ t # s
        BY <4>2, <3>2, <2>3 DEF Flushed
      <4> QED
        BY <4>1, <4>2
    <3>3. \A a \in Flushed(i)' : a \in Flushed(i) \/ (i = p.inst /\ a = <<n, p.ver>>)
      BY <3>2 DEF Flushed
    <3> QED
      BY <3>1, <3>3 DEF Known
  <2>7. Ordered'
    <3>1. ASSUME NEW i \in Inst, NEW a \in Known(i)'
          PROVE  /\ a[1] < nextId'[i]
                 /\ \A e \in Driver : instances'[e] = i => a[2] <= remote'[e]
                 /\ \A b \in Known(i)' : a[1] <= b[1] => a[2] <= b[2]
      <4>1. UNCHANGED <<instances, remote>>
        BY <2>1 DEF driverVars
      <4>2. \A b \in Known(i) : b[1] \in Nat /\ b[2] \in Nat
        BY KnownType DEF Item
      <4>3. CASE i # p.inst
        <5>1. nextId'[i] = nextId[i]
          BY <4>3, <2>1 DEF SystemTypeOK
        <5> QED
          BY <4>1, <4>3, <5>1, <2>6 DEF Core, Ordered
      <4>4. CASE i = p.inst
        <5>1. /\ nextId'[i] = n + 1 /\ n \in Nat /\ p.ver \in Nat
              /\ <<n, p.ver>>[1] = n /\ <<n, p.ver>>[2] = p.ver
          BY <4>4, <1>1, <2>1 DEF SystemTypeOK
        <5>2. \A b \in Known(i) : b[1] < n /\ b[2] <= p.ver
          BY <4>4, <1>1 DEF Core, Ordered
        <5>3. \A e \in Driver : instances[e] = i => e = d
          BY <4>4, <1>1 DEF Core, Owned, Inst
        <5>4. a[1] < nextId'[i]
          BY <4>2, <4>4, <5>1, <5>2, <2>6
        <5>5. \A e \in Driver : instances'[e] = i => a[2] <= remote'[e]
          BY <4>1, <4>4, <5>1, <5>3, <2>6, <1>1 DEF Core, Ordered
        <5>6. \A b \in Known(i)' : a[1] <= b[1] => a[2] <= b[2]
          <6> SUFFICES ASSUME NEW b \in Known(i)', a[1] <= b[1] PROVE a[2] <= b[2]
            OBVIOUS
          <6>1. CASE a \in Known(i) /\ b \in Known(i)
            BY <6>1 DEF Core, Ordered
          <6>2. CASE a \in Known(i) /\ b = <<n, p.ver>>
            BY <6>2, <5>1, <5>2
          <6>3. CASE a = <<n, p.ver>> /\ b \in Known(i)
            BY <6>3, <4>2, <5>1, <5>2
          <6>4. CASE a = <<n, p.ver>> /\ b = <<n, p.ver>>
            BY <6>4, <5>1
          <6> QED
            BY <2>6, <6>1, <6>2, <6>3, <6>4
        <5> QED
          BY <5>4, <5>5, <5>6
      <4> QED
        BY <4>3, <4>4
    <3> QED
      BY <3>1 DEF Ordered
  <2>8. Read'
    <3> SUFFICES ASSUME NEW e \in Driver, NEW t \in Slot, pull'[e][t].pc = "locked"
                 PROVE  /\ pull'[e][t].ver <= remote'[e]
                        /\ \A a \in Known(pull[e][t].inst)' : a[2] <= pull'[e][t].ver
      BY DEF Read
    <3>1. e # d \/ t # s
      BY <2>2, <2>3
    <3>2. pull'[e][t] = pull[e][t]
      BY <3>1, <2>3
    <3>3. pull[e][t].inst \in Inst
      BY <3>2, BusyPullHasInstance DEF Core
    <3>4. pull[e][t].inst # p.inst
      <4>1. SUFFICES ASSUME pull[e][t].inst = p.inst PROVE FALSE
        OBVIOUS
      <4>2. e = d
        BY <4>1, <1>1 DEF Core, Owned, Inst
      <4> QED
        BY <4>1, <4>2, <3>1, <3>2, <1>1 DEF Core, Locked
    <3>5. \A a \in Known(pull[e][t].inst)' : a \in Known(pull[e][t].inst)
      BY <3>2, <3>3, <3>4, <2>6
    <3> QED
      BY <3>2, <3>5, <2>1 DEF Core, Read
  <2> QED
    BY <2>4, <2>5, <2>7, <2>8 DEF Core
<1> QED
  BY <1>2, <1>3

\* With one more there is still a greatest.
LEMMA GreatestStays ==
  ASSUME NEW S, NEW new, \A x \in S \cup {new} : x[1] \in Nat,
         S # {} => \E it \in S : \A x \in S : x[1] <= it[1]
  PROVE  \E it \in S \cup {new} : \A x \in S \cup {new} : x[1] <= it[1]
<1>1. CASE S = {}
  BY <1>1
<1>2. CASE S # {}
  <2>1. PICK it \in S : \A x \in S : x[1] <= it[1]
    BY <1>2
  <2>2. CASE new[1] <= it[1]
    BY <2>1, <2>2
  <2>3. CASE ~ new[1] <= it[1]
    <3>1. \A x \in S \cup {new} : x[1] <= new[1]
      BY <2>1, <2>3
    <3> QED
      BY <3>1
  <2> QED
    BY <2>2, <2>3
<1> QED
  BY <1>1, <1>2

\* Committing an item: it was known already.
LEMMA CommitItemKeepsCore ==
  ASSUME SystemTypeOK, SystemTypeOK', Core, NEW d \in Driver, NEW s \in Slot,
         CommitItem(d, s)
  PROVE  Core' /\ \A i \in Inst : items[i] \subseteq items'[i]
<1> DEFINE p == pull[d][s]
           new == <<p.id, p.ver>>
<1>1. /\ p.pc = "flushed" /\ p.inst \in Inst /\ p.inst <= plugged /\ new \in Item
      /\ items' = IF p.inst \in rows
                  THEN [items EXCEPT ![p.inst] = items[p.inst] \cup {new}] ELSE items
      /\ SetPull(d, s, Idle) /\ UNCHANGED <<driverVars, remote, nextId>>
  <2>1. p.pc = "flushed" /\ p.inst \in Inst /\ p.inst <= plugged
    BY BusyPullHasInstance DEF CommitItem, Core, Owned
  <2>2. new \in Item
    BY DEF SystemTypeOK, Item
  <2> QED
    BY <2>1, <2>2 DEF CommitItem
<1>2. /\ pull'[d][s] = Idle
      /\ \A e \in Driver, t \in Slot : e # d \/ t # s => pull'[e][t] = pull[e][t]
  BY <1>1, IdleType, SetPullFacts
<1>3. \A i \in Inst : /\ items[i] \subseteq items'[i]
                      /\ items'[i] \subseteq items[i] \cup {new}
                      /\ i # p.inst => items'[i] = items[i]
  BY <1>1 DEF SystemTypeOK
<1>4. new \in Flushed(p.inst)
  BY <1>1 DEF Flushed
<1>5. Instances' /\ Owned' /\ Locked'
  BY <1>1, IdleType, OwnedWithPull, LockedWithPull DEF Core, Instances, driverVars
<1>6. ASSUME NEW i \in Inst PROVE Known(i)' \subseteq Known(i)
  <2>1. Flushed(i)' \subseteq Flushed(i)
    BY <1>2, IdleType DEF Flushed
  <2>2. items'[i] \subseteq Known(i)
    <3>1. CASE i = p.inst
      BY <3>1, <1>3, <1>4 DEF Known
    <3>2. CASE i # p.inst
      BY <3>2, <1>3 DEF Known
    <3> QED
      BY <3>1, <3>2
  <2> QED
    BY <2>1, <2>2 DEF Known
<1>7. Stored'
  <2> SUFFICES ASSUME NEW i \in Inst
               PROVE  /\ i > plugged => items'[i] = {}
                      /\ items'[i] # {} =>
                           \E it \in items'[i] : \A x \in items'[i] : x[1] <= it[1]
    BY <1>1 DEF Stored, HasHead, driverVars
  <2>1. CASE i # p.inst
    BY <2>1, <1>3 DEF Core, Stored, HasHead
  <2>2. CASE i = p.inst
    <3>1. ~ i > plugged
      <4>1. plugged \in Nat /\ p.inst \in Nat
        BY <1>1 DEF SystemTypeOK, Inst
      <4> HIDE DEF p
      <4> QED
        BY <2>2, <4>1, <1>1
    <3>2. items'[i] = items[i] \/ items'[i] = items[i] \cup {new}
      BY <2>2, <1>1 DEF SystemTypeOK
    <3>3. \A x \in items[i] \cup {new} : x[1] \in Nat
      BY <1>1 DEF SystemTypeOK, Item
    <3>4. CASE items'[i] = items[i]
      BY <3>1, <3>4 DEF Core, Stored, HasHead
    <3>5. CASE items'[i] = items[i] \cup {new}
      <4>1. items[i] # {} => \E it \in items[i] : \A x \in items[i] : x[1] <= it[1]
        BY DEF Core, Stored, HasHead
      <4> HIDE DEF new
      <4> QED
        BY <4>1, <3>1, <3>3, <3>5, GreatestStays
    <3> QED
      BY <3>2, <3>4, <3>5
  <2> QED
    BY <2>1, <2>2
<1>8. \A e \in Driver : remote[e] \in Nat /\ remote'[e] >= remote[e]
                        /\ instances'[e] = instances[e]
  BY <1>1 DEF SystemTypeOK, driverVars
<1>9. Ordered'
  BY <1>1, <1>6, <1>8, OrderedStays DEF Core
<1>10. \A e \in Driver, t \in Slot : pull'[e][t].pc = "locked" => pull'[e][t] = pull[e][t]
  BY <1>2, IdleType
<1>11. Read'
  BY <1>6, <1>8, <1>10, ReadStays DEF Core
<1> QED
  BY <1>3, <1>5, <1>7, <1>9, <1>11 DEF Core

LEMMA PullsKeepCore ==
  ASSUME SystemTypeOK, SystemTypeOK', Core, NEW d \in Driver, NEW s \in Slot,
         Pull(d, s) \/ PullFails(d, s)
  PROVE  Core'
<1>1. CASE StartPull(d, s)
  <2>1. instances[d] \in 0..MaxInst
    BY DEF SystemTypeOK
  <2>2. [Idle EXCEPT !.pc = "started", !.inst = instances[d]] \in PullState
    BY <2>1, IdleType DEF PullState
  <2>3. [Idle EXCEPT !.pc = "started", !.inst = instances[d]].pc = "started"
    BY DEF Idle
  <2>4. [Idle EXCEPT !.pc = "started", !.inst = instances[d]].inst = instances[d]
    BY DEF Idle
  <2> QED
    BY <2>2, <2>3, <2>4, <1>1, QuietPullKeepsCore DEF StartPull
<1>2. CASE PullEnds(d, s) \/ PullFails(d, s)
  BY <1>2, IdleType, QuietPullKeepsCore DEF PullEnds, PullFails
<1>3. CASE ReadModel(d, s)
  BY <1>3, ReadModelKeepsCore
<1>4. CASE StoreItem(d, s)
  BY <1>4, StoreItemKeepsCore
<1>5. CASE CommitItem(d, s)
  BY <1>5, CommitItemKeepsCore
<1> QED
  BY <1>1, <1>2, <1>3, <1>4, <1>5 DEF Pull

-----------------------------------------------------------------------------
\* An instance that is to come has no item and no pull.
LEMMA PlugKeepsCore ==
  ASSUME SystemTypeOK, SystemTypeOK', Core, NEW d \in Driver, Plug(d)
  PROVE  Core'
<1>1. /\ plugged' = plugged + 1 /\ plugged \in Nat
      /\ \A e \in Driver : e # d => instances'[e] = instances[e]
      /\ instances'[d] = plugged + 1
      /\ UNCHANGED <<remote, items, nextId, pull>>
  BY DEF Plug, SystemTypeOK, pullVars
<1>2. Instances'
  BY DriversKeepInstances DEF Core
<1>3. Owned'
  BY <1>1, OwnedWithInstances DEF Core
<1>4. Locked'
  BY <1>1 DEF Core, Locked
<1>5. Stored'
  BY <1>1 DEF Core, Stored, HasHead, Inst
<1>6. \A i \in Inst : Known(i)' = Known(i)
  BY <1>1 DEF Known, Flushed
<1>7. ASSUME plugged + 1 \in Inst PROVE Known(plugged + 1) = {}
  <2>1. items[plugged + 1] = {}
    BY <1>1, <1>7 DEF Core, Stored
  <2>2. \A e \in Driver, t \in Slot : pull[e][t].inst # plugged + 1
    BY <1>1 DEF Core, Owned, SystemTypeOK
  <2> QED
    BY <2>1, <2>2 DEF Known, Flushed
<1>8. Ordered'
  BY <1>1, <1>6, <1>7 DEF Core, Ordered
<1>9. Read'
  BY <1>1, <1>6, ReadStays DEF Core, SystemTypeOK
<1> QED
  BY <1>2, <1>3, <1>4, <1>5, <1>8, <1>9 DEF Core

LEMMA UnplugKeepsCore ==
  ASSUME SystemTypeOK, SystemTypeOK', Core, NEW d \in Driver, Unplug(d)
  PROVE  Core'
<1>1. /\ instances' = [instances EXCEPT ![d] = 0]
      /\ items' = [items EXCEPT ![instances[d]] = {}]
      /\ UNCHANGED <<plugged, remote, nextId, pull>>
  BY DEF Unplug, Deleted
<1>2. /\ \A e \in Driver : instances'[e] \in {instances[e], 0}
      /\ \A i \in Inst : items'[i] = items[i] \/ items'[i] = {}
  BY <1>1 DEF SystemTypeOK
<1>3. Instances'
  BY DriversKeepInstances DEF Core
<1>4. Owned' /\ Locked'
  BY <1>1, <1>2, OwnedWithInstances DEF Core, Locked, SystemTypeOK
<1>5. Stored'
  BY <1>1, <1>2 DEF Core, Stored, HasHead
<1>6. \A i \in Inst : Known(i)' \subseteq Known(i)
  BY <1>1, <1>2 DEF Known, Flushed
<1>7. \A e \in Driver : remote'[e] >= remote[e]
  BY <1>1 DEF SystemTypeOK
<1>8. Ordered' /\ Read'
  BY <1>1, <1>2, <1>6, <1>7, OrderedStays, ReadStays DEF Core
<1> QED
  BY <1>3, <1>4, <1>5, <1>8 DEF Core

LEMMA RestartKeepsCore ==
  ASSUME SystemTypeOK, SystemTypeOK', Core, Restart
  PROVE  Core'
<1>1. /\ \A e \in Driver, t \in Slot : pull'[e][t] = Idle
      /\ \A e \in Driver : instances'[e] \in {instances[e], 0}
      /\ UNCHANGED <<plugged, remote, items, nextId>>
  BY DEF Restart
<1>2. Instances'
  BY RestartKeepsInstances DEF Core
<1>3. 0 <= plugged'
  BY <1>1 DEF SystemTypeOK
<1>4. Owned' /\ Locked'
  BY <1>1, <1>3, IdleType DEF Owned, Locked
<1>5. Stored'
  BY <1>1 DEF Core, Stored, HasHead
<1>6. \A i \in Inst : Known(i)' \subseteq Known(i)
  BY <1>1, IdleType DEF Known, Flushed
<1>7. \A e \in Driver : remote'[e] >= remote[e]
  BY <1>1 DEF SystemTypeOK
<1>8. Ordered' /\ Read'
  BY <1>1, <1>6, <1>7, IdleType, OrderedStays DEF Core, Read
<1> QED
  BY <1>2, <1>4, <1>5, <1>8 DEF Core

LEMMA OthersKeepCore ==
  ASSUME SystemTypeOK, SystemTypeOK', Core, UNCHANGED <<instances, plugged, pullVars>>,
         Instances', \A e \in Driver : remote'[e] >= remote[e]
  PROVE  Core'
<1>1. Owned' /\ Locked' /\ Stored'
  BY DEF Core, Owned, Locked, Stored, HasHead, pullVars
<1>2. \A i \in Inst : Known(i)' = Known(i)
  BY DEF Known, Flushed, pullVars
<1>3. Ordered' /\ Read'
  BY <1>2, OrderedStays, ReadStays DEF Core, pullVars
<1> QED
  BY <1>1, <1>3 DEF Core

LEMMA InitCore == Init => Core
<1> SUFFICES ASSUME Init PROVE Core
  OBVIOUS
<1>1. \A d \in Driver, s \in Slot : pull[d][s].pc = "idle" /\ pull[d][s].inst = 0
  BY IdleType DEF Init
<1>2. \A i \in Inst : items[i] = {} /\ Known(i) = {}
  BY <1>1 DEF Init, Known, Flushed
<1> QED
  BY <1>1, <1>2 DEF Init, Core, Instances, Owned, Locked, Stored, HasHead, Ordered, Read

LEMMA NextKeepsCore == IInv /\ [Next]_vars => Core'
<1> SUFFICES ASSUME IInv, [Next]_vars PROVE Core'
  OBVIOUS
<1>1. SystemTypeOK /\ SystemTypeOK' /\ Core
  BY NextKeepsType DEF IInv
<1>2. \A e \in Driver : remote[e] \in Nat
  BY <1>1 DEF SystemTypeOK
<1>3. ASSUME UNCHANGED <<driverVars, pullVars, remote>> PROVE Core'
  BY <1>1, <1>2, <1>3, OthersKeepCore DEF driverVars, Core, Instances
<1>4. CASE UNCHANGED vars
  BY <1>3, <1>4 DEF vars
<1>5. ASSUME NEW d \in Driver, Plug(d) PROVE Core'
  BY <1>1, <1>5, PlugKeepsCore
<1>6. ASSUME NEW d \in Driver, PlugDone(d) \/ PlugFails(d) PROVE Core'
  <2>1. Instances'
    BY <1>1, <1>6, DriversKeepInstances DEF Core
  <2> QED
    BY <2>1, <1>1, <1>2, <1>6, OthersKeepCore DEF PlugDone, PlugFails
<1>7. ASSUME NEW d \in Driver, Unplug(d) PROVE Core'
  BY <1>1, <1>7, UnplugKeepsCore
<1>8. ASSUME NEW d \in Driver, RemoteChanges(d) PROVE Core'
  <2>1. \A e \in Driver : remote'[e] >= remote[e]
    BY <1>1, <1>8 DEF RemoteChanges, SystemTypeOK
  <2> QED
    BY <2>1, <1>1, <1>8, OthersKeepCore DEF RemoteChanges, driverVars, Core, Instances
<1>9. ASSUME NEW d \in Driver, NEW s \in Slot, Pull(d, s) \/ PullFails(d, s) PROVE Core'
  BY <1>1, <1>9, PullsKeepCore
<1>10. CASE AutoUpdate \/ GetLatest \/ Refer
  BY <1>3, <1>10 DEF AutoUpdate, GetLatest, Refer
<1>11. CASE Restart
  BY <1>1, <1>11, RestartKeepsCore
<1> QED
  BY <1>4, <1>5, <1>6, <1>7, <1>8, <1>9, <1>10, <1>11 DEF Next

-----------------------------------------------------------------------------
\* Readiness.
LEMMA InitReady == Init => ReadyIsWhole
  BY DEF Init, ReadyIsWhole

\* A driver that was plugged in full: its instance is in the database.
LEMMA WholeIsStored ==
  Plugged \ (plugging \cup Ghosts) =
    {d \in Driver : instances[d] # 0 /\ d \notin plugging /\ instances[d] \in rows}
  BY DEF Plugged, Ghosts

\* Nothing the readiness speaks of is changed, but that drivers go.
LEMMA ReadyStays ==
  ASSUME ReadyIsWhole, bootStrapped' => bootStrapped, UNCHANGED <<group, served>>,
         \A d \in Driver : instances'[d] # 0 /\ d \notin plugging' /\ instances'[d] \in rows'
           => /\ d \notin plugging /\ instances[d] \in rows
              /\ instances'[d] = instances[d]
  PROVE  ReadyIsWhole'
<1>1. (Plugged \ (plugging \cup Ghosts))' =
        {d \in Driver : instances'[d] # 0 /\ d \notin plugging' /\ instances'[d] \in rows'}
  BY DEF Plugged, Ghosts
<1> QED
  BY <1>1, WholeIsStored DEF ReadyIsWhole

LEMMA NextKeepsReady == IInv /\ [Next]_vars => ReadyIsWhole'
<1> SUFFICES ASSUME IInv, [Next]_vars PROVE ReadyIsWhole'
  OBVIOUS
<1>0. SystemTypeOK /\ Instances /\ Stored /\ ReadyIsWhole
  BY DEF IInv, Core
<1>1. ASSUME UNCHANGED <<driverVars, coordVars>> PROVE ReadyIsWhole'
  BY <1>0, <1>1, ReadyStays DEF driverVars, coordVars
<1>2. CASE UNCHANGED vars
  BY <1>1, <1>2 DEF vars
<1>3. ASSUME NEW d \in Driver, Plug(d) PROVE ReadyIsWhole'
  <2>1. /\ UNCHANGED <<rows, bootStrapped, group, served>>
        /\ plugging' = plugging \cup {d}
        /\ \A e \in Driver : e # d => instances'[e] = instances[e]
    BY <1>0, <1>3 DEF Plug, SystemTypeOK, coordVars
  <2> QED
    BY <2>1, <1>0, ReadyStays
<1>4. ASSUME NEW d \in Driver, PlugDone(d) PROVE ReadyIsWhole'
  BY <1>4 DEF PlugDone, ReadyIsWhole
<1>5. ASSUME NEW d \in Driver, PlugFails(d) PROVE ReadyIsWhole'
  <2>1. d \in plugging /\ instances[d] \notin rows
    BY <1>0, <1>5 DEF PlugFails, Instances
  <2> QED
    BY <2>1, <1>0, <1>5, ReadyStays DEF PlugFails, coordVars
<1>6. ASSUME NEW d \in Driver, Unplug(d) PROVE ReadyIsWhole'
  <2>1. CASE Plugged = {d}
    BY <2>1, <1>6 DEF Unplug, Deleted, ReadyIsWhole
  <2>2. CASE Plugged # {d}
    <3>1. /\ UNCHANGED <<plugging, bootStrapped, group, served>>
          /\ instances' = [instances EXCEPT ![d] = 0] /\ rows' \subseteq rows
      BY <2>2, <1>6 DEF Unplug, Deleted
    <3> QED
      BY <3>1, <1>0, ReadyStays DEF SystemTypeOK
  <2> QED
    BY <2>1, <2>2
<1>7. ASSUME NEW d \in Driver, RemoteChanges(d) PROVE ReadyIsWhole'
  BY <1>1, <1>7 DEF RemoteChanges
<1>8. ASSUME NEW d \in Driver, NEW s \in Slot, Pull(d, s) \/ PullFails(d, s)
      PROVE  ReadyIsWhole'
  BY <1>1, <1>8 DEF Pull, PullFails, StartPull, PullEnds, ReadModel, StoreItem, CommitItem
<1>9. ASSUME AllHaveHeads, Plugged # {}, NewGroup \/ SameGroup, UNCHANGED driverVars
      PROVE  ReadyIsWhole'
  <2>1. group' = HeadItems /\ served' = HeadItems
    BY <1>9 DEF NewGroup, SameGroup
  <2>2. Plugged' = Plugged /\ instances' = instances
    BY <1>9 DEF Plugged, driverVars
  <2> QED
    BY <2>1, <2>2, <1>0, <1>9, HeadItemsFacts DEF ReadyIsWhole
<1>10. CASE AutoUpdate
  <2>1. CASE NotReady
    BY <2>1 DEF NotReady, ReadyIsWhole
  <2>2. CASE ~ NotReady
    BY <2>2, <1>9, <1>10 DEF AutoUpdate
  <2> QED
    BY <2>1, <2>2
<1>11. CASE GetLatest
  BY <1>9, <1>11 DEF GetLatest
<1>12. CASE Refer
  BY <1>0, <1>12, ReadyStays DEF Refer, driverVars
<1>13. CASE Restart
  BY <1>13 DEF Restart, ReadyIsWhole
<1> QED
  BY <1>2, <1>3, <1>4, <1>5, <1>6, <1>7, <1>8, <1>10, <1>11, <1>12, <1>13 DEF Next

-----------------------------------------------------------------------------
LEMMA InitIInv == Init => IInv
  BY InitType, InitCore, InitReady DEF IInv

LEMMA NextKeepsIInv == IInv /\ [Next]_vars => IInv'
  BY NextKeepsType, NextKeepsCore, NextKeepsReady DEF IInv

\* What the runs check, and what makes it inductive, holds always.
THEOREM SystemInvariant == Spec => []IInv
  BY InitIInv, NextKeepsIInv, PTL DEF Spec

\* The variables have their types, however many drivers are plugged and
\* however many pulls of one overlap.
THEOREM SystemTypeCorrect == Spec => []SystemTypeOK
  BY SystemInvariant, PTL DEF IInv

\* While the coordinator says it is bootstrapped, the model served is that
\* of its group, and no driver that was plugged in full is missing from it.
THEOREM ReadyIsWholeAlways == Spec => []ReadyIsWhole
  BY SystemInvariant, PTL DEF IInv

-----------------------------------------------------------------------------
\* When an instance loses no item its head does not go back.
LEMMA HeadGoesOn ==
  ASSUME SystemTypeOK, SystemTypeOK', Core, Core', NEW i \in Inst, HasHead(i),
         items[i] \subseteq items'[i]
  PROVE  HasHead(i)' /\ Head(i)' >= Head(i)
<1>1. HasHead(i)'
  BY DEF HasHead
<1>2. PICK it \in items[i] : Head(i) = it[2]
  BY HeadIsGreatest DEF Core
<1>3. \E h \in items'[i] : Head(i)' = h[2] /\ \A x \in items'[i] : x[1] <= h[1]
  <2>1. \E h \in items'[i] : \A x \in items'[i] : x[1] <= h[1]
    BY <1>1 DEF Core, Stored, HasHead
  <2> QED
    BY <2>1 DEF Head
<1>4. PICK h \in items'[i] : Head(i)' = h[2] /\ \A x \in items'[i] : x[1] <= h[1]
  BY <1>3
<1>5. it[1] <= h[1] /\ it \in Known(i)' /\ h \in Known(i)'
  BY <1>4 DEF Known
<1>6. it[2] <= h[2] /\ it[2] \in Nat /\ h[2] \in Nat
  BY <1>5 DEF Core, Ordered, SystemTypeOK
<1> QED
  BY <1>1, <1>2, <1>4, <1>6

\* Items go only with their instance's row.
LEMMA ItemsGoWithTheRow ==
  ASSUME SystemTypeOK, SystemTypeOK', Core, Next, NEW i \in Inst, i \in rows'
  PROVE  items[i] \subseteq items'[i]
<1>1. CASE items' = items
  BY <1>1
<1>2. ASSUME NEW d \in Driver, Unplug(d) PROVE items[i] \subseteq items'[i]
  <2>1. i # instances[d] /\ items' = [items EXCEPT ![instances[d]] = {}]
    BY <1>2 DEF Unplug, Deleted
  <2> QED
    BY <2>1 DEF SystemTypeOK
<1>3. ASSUME NEW d \in Driver, NEW s \in Slot, CommitItem(d, s)
      PROVE  items[i] \subseteq items'[i]
  BY <1>3, CommitItemKeepsCore
<1> QED
  BY <1>1, <1>2, <1>3
  DEF Next, Pull, Plug, PlugDone, PlugFails, RemoteChanges, StartPull, PullEnds,
      ReadModel, StoreItem, PullFails, AutoUpdate, GetLatest, Refer, Restart, pullVars

\* Of overlapping pulls none puts an older model in the place of a newer one,
\* in whatever order their transactions commit.
THEOREM HeadNeverGoesBackAlways == Spec => HeadNeverGoesBack
<1>1. IInv /\ IInv' /\ [Next]_vars =>
        [\A i \in Inst : (i \in rows /\ i \in rows' /\ HasHead(i))
           => HasHead(i)' /\ Head(i)' >= Head(i)]_vars
  <2> SUFFICES ASSUME IInv, IInv', Next, NEW i \in Inst, i \in rows', HasHead(i)
               PROVE  HasHead(i)' /\ Head(i)' >= Head(i)
    OBVIOUS
  <2>1. items[i] \subseteq items'[i]
    BY ItemsGoWithTheRow DEF IInv
  <2> QED
    BY <2>1, HeadGoesOn DEF IInv
<1> QED
  BY <1>1, SystemInvariant, PTL DEF Spec, HeadNeverGoesBack
=============================================================================
