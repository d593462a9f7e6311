---------------------------- MODULE SystemModel ----------------------------
(***************************************************************************)
(* How the model of the whole system is kept: DriverModelPuller pulls the  *)
(* drivers' models every minute and stores each as a version item;         *)
(* SystemModelCoordinator keeps a version group of the head items, from    *)
(* which DataConcurrencyPoster serves the union of the models; and         *)
(* drivers are plugged and unplugged meanwhile (HandleSystemCall).         *)
(*                                                                         *)
(* The map of driver instances is static and is changed at once; a row of  *)
(* the database is seen by others when its transaction commits.  Timers    *)
(* fire at any time.  A model is abstracted to the number of its version.  *)
(***************************************************************************)
EXTENDS Integers, FiniteSets

CONSTANTS
  Driver,       \* topology URIs of the drivers
  Slot,         \* pulls of one driver that may overlap (bound)
  Scopes,       \* the drivers and the slots of a behaviour (bound)
  MaxInst,      \* driver instances ever plugged (bound)
  MaxVersion,   \* changes of a remote's model (bound)
  MaxFaults     \* pulls that fail, plugs that fail, restarts (bound)

ASSUME SystemModelAssumption ==
  /\ Scopes \subseteq [drivers : SUBSET Driver, slots : SUBSET Slot]
  /\ MaxInst \in Nat \ {0}
  /\ MaxVersion \in Nat
  /\ MaxFaults \in Nat

Inst == 1..MaxInst

VARIABLES
  instances,    \* driverInstanceByTopologyMap: 0 for none
  plugging,     \* drivers whose plugDriverInstance has yet to end
  rows,         \* the driver instances in the database
  plugged,      \* how many instances have been made
  remote,       \* version of each remote's model
  items,        \* version items of each instance: <<id, version>>
  nextId,       \* ids given to them, in the order of the sequence
  pull,         \* the calls of pullModel under way
  bootStrapped, \* SystemModelCoordinator.bootStrapped, and the poster's
  group,        \* systemVersionGroup: set of <<instance, version>>, {} for null
  groupStored,  \* is its row in the database?
  referenced,   \* does a system delta refer to that row?
  served,       \* the poster's cachedOntModel, as the items it is made of
  faults,       \* failures so far
  scope         \* the scope of this behaviour, never changed

coordVars == <<bootStrapped, group, groupStored, referenced, served>>
driverVars == <<instances, plugging, rows, plugged, scope>>
pullVars == <<items, nextId, pull>>
vars == <<driverVars, remote, pullVars, coordVars, faults>>

Plugged == {d \in Driver : instances[d] # 0}
Idle == [pc |-> "idle", inst |-> 0, lock |-> 0, ver |-> 0, id |-> 0]

\* getHeadByDriverInstance: MAX(id) of the instance's items; the version.
HasHead(i) == items[i] # {}
Head(i) == (CHOOSE it \in items[i] : \A x \in items[i] : x[1] <= it[1])[2]

\* Every driver in the map with its head.
HeadItems == {<<instances[d], Head(instances[d])>> : d \in Plugged}
AllHaveHeads == \A d \in Plugged : HasHead(instances[d])

Init ==
  /\ instances = [d \in Driver |-> 0]
  /\ plugging = {}
  /\ rows = {}
  /\ plugged = 0
  /\ remote = [d \in Driver |-> 0]
  /\ items = [i \in Inst |-> {}]
  /\ nextId = [i \in Inst |-> 1]
  /\ pull = [d \in Driver |-> [s \in Slot |-> Idle]]
  /\ bootStrapped = FALSE
  /\ group = {}
  /\ groupStored = FALSE
  /\ referenced = FALSE
  /\ served = {}
  /\ faults = 0
  /\ scope \in Scopes

-----------------------------------------------------------------------------
(***************************************************************************)
(* Plugging and unplugging drivers.                                        *)
(***************************************************************************)

\* Up to the save: in the map now, in the database when all is done.
Plug(d) ==
  /\ instances[d] = 0 /\ d \in scope.drivers /\ plugged < MaxInst
  /\ plugged' = plugged + 1
  /\ instances' = [instances EXCEPT ![d] = plugged + 1]
  /\ plugging' = plugging \cup {d}
  /\ UNCHANGED <<scope, rows, remote, pullVars, coordVars, faults>>

\* systemVersionGroup = null.
Forget == group' = {} /\ groupStored' = FALSE /\ referenced' = FALSE

\* Mutant of PlugDone: the coordinator is not told.
PlugDoneQuietly(d) ==
  /\ d \in plugging
  /\ plugging' = plugging \ {d}
  /\ rows' = rows \cup {instances[d]}
  /\ UNCHANGED <<scope, instances, plugged, remote, pullVars, coordVars, faults>>

\* setBootStrapped(false), and the transaction commits.
PlugDone(d) ==
  /\ d \in plugging
  /\ plugging' = plugging \ {d}
  /\ rows' = rows \cup {instances[d]}
  /\ bootStrapped' = FALSE
  /\ Forget
  /\ UNCHANGED <<scope, instances, plugged, remote, pullVars, served, faults>>

\* setBootStrapped cannot get the coordinator's lock in time, or it is not
\* found: the transaction is rolled back, the map keeps the driver.
PlugFails(d) ==
  /\ d \in plugging /\ faults < MaxFaults
  /\ plugging' = plugging \ {d}
  /\ faults' = faults + 1
  /\ UNCHANGED <<scope, instances, rows, plugged, remote, pullVars, coordVars>>

\* The driver's items go, and with them the groups that no delta refers to
\* or that have no items left; the last driver takes the readiness along.
Deleted(d) ==
  /\ LET i == instances[d]
         left == group # {} /\ \E it \in group : it[1] # i
     IN  /\ instances' = [instances EXCEPT ![d] = 0]
         /\ rows' = rows \ {i}
         /\ items' = [items EXCEPT ![i] = {}]
         /\ IF Plugged = {d}
            THEN bootStrapped' = FALSE /\ Forget
            ELSE /\ groupStored' = (groupStored /\ referenced /\ left)
                 /\ UNCHANGED <<bootStrapped, group, referenced>>
  /\ UNCHANGED <<scope, plugging, plugged, remote, nextId, pull, served, faults>>

\* Mutant of Unplug: of a driver that is still being plugged, too.
UnplugAtOnce(d) == instances[d] # 0 /\ Deleted(d)

\* A driver instance that is stored.
Unplug(d) == instances[d] # 0 /\ d \notin plugging /\ Deleted(d)

-----------------------------------------------------------------------------
(***************************************************************************)
(* Pulling models.                                                         *)
(***************************************************************************)

RemoteChanges(d) ==
  /\ remote[d] < MaxVersion
  /\ remote' = [remote EXCEPT ![d] = @ + 1]
  /\ UNCHANGED <<driverVars, pullVars, coordVars, faults>>

SetPull(d, s, p) == pull' = [pull EXCEPT ![d][s] = p]

\* DriverModelPuller.run: a call for every driver in the map, whether the
\* one before is done or not.
StartPull(d, s) ==
  /\ instances[d] # 0 /\ pull[d][s].pc = "idle"
  /\ s \in scope.slots
  /\ SetPull(d, s, [Idle EXCEPT !.pc = "started", !.inst = instances[d]])
  /\ UNCHANGED <<driverVars, remote, items, nextId, coordVars, faults>>

\* The driver instance is not in the database, or its topology no longer
\* in the map.
PullEnds(d, s) ==
  /\ pull[d][s].pc = "started"
  /\ pull[d][s].inst \notin rows \/ instances[d] = 0
  /\ SetPull(d, s, Idle)
  /\ UNCHANGED <<driverVars, remote, items, nextId, coordVars, faults>>

\* Mutant of ReadModel: without the lock.
ReadModelUnlocked(d, s) ==
  /\ pull[d][s].pc = "started"
  /\ pull[d][s].inst \in rows /\ instances[d] # 0
  /\ SetPull(d, s, [pull[d][s] EXCEPT !.pc = "locked", !.lock = instances[d],
                                      !.ver = remote[d]])
  /\ UNCHANGED <<driverVars, remote, items, nextId, coordVars, faults>>

\* Enters the block that is synchronized on the driver instance the map
\* holds now, and is given the remote's model.
ReadModel(d, s) ==
  /\ pull[d][s].pc = "started"
  /\ pull[d][s].inst \in rows /\ instances[d] # 0
  /\ \A t \in Slot : pull[d][t].pc = "locked" => pull[d][t].lock # instances[d]
  /\ SetPull(d, s, [pull[d][s] EXCEPT !.pc = "locked", !.lock = instances[d],
                                      !.ver = remote[d]])
  /\ UNCHANGED <<driverVars, remote, items, nextId, coordVars, faults>>

\* A version that is stored already is left alone; another gets an item,
\* which has its id when the block is left.
StoreItem(d, s) ==
  /\ pull[d][s].pc = "locked"
  /\ LET p == pull[d][s]
     IN  IF \E it \in items[p.inst] : it[2] = p.ver
         THEN SetPull(d, s, Idle) /\ UNCHANGED nextId
         ELSE /\ SetPull(d, s, [p EXCEPT !.pc = "flushed", !.lock = 0,
                                         !.id = nextId[p.inst]])
              /\ nextId' = [nextId EXCEPT ![p.inst] = @ + 1]
  /\ UNCHANGED <<driverVars, remote, items, coordVars, faults>>

\* The transaction of pullModel ends after the block; it cannot commit an
\* item of an instance that was deleted.
CommitItem(d, s) ==
  /\ pull[d][s].pc = "flushed"
  /\ LET p == pull[d][s]
     IN items' = IF p.inst \in rows
                 THEN [items EXCEPT ![p.inst] = @ \cup {<<p.id, p.ver>>}]
                 ELSE items
  /\ SetPull(d, s, Idle)
  /\ UNCHANGED <<driverVars, remote, nextId, coordVars, faults>>

\* The remote does not answer, or not with a model.
PullFails(d, s) ==
  /\ pull[d][s].pc \in {"started", "locked"} /\ faults < MaxFaults
  /\ SetPull(d, s, Idle)
  /\ faults' = faults + 1
  /\ UNCHANGED <<driverVars, remote, items, nextId, coordVars>>

-----------------------------------------------------------------------------
(***************************************************************************)
(* SystemModelCoordinator; each call holds its lock.                       *)
(***************************************************************************)

\* createHeadVersionGroup, and what is served from it.
NewGroup ==
  /\ group' = HeadItems /\ served' = HeadItems
  /\ groupStored' = TRUE /\ referenced' = FALSE

\* updateHeadVersionGroup: the same row with the heads of today.
SameGroup ==
  /\ group' = HeadItems /\ served' = HeadItems
  /\ UNCHANGED <<groupStored, referenced>>

NotReady ==
  /\ bootStrapped' = FALSE /\ Forget
  /\ UNCHANGED served

\* Mutant of AutoUpdate: a group whose row is gone is kept.
AutoUpdateKeepsLost ==
  /\ IF Plugged = {} \/ ~ AllHaveHeads THEN NotReady
     ELSE IF group = {} THEN bootStrapped' = TRUE /\ NewGroup
     ELSE IF groupStored THEN bootStrapped' = TRUE /\ SameGroup
     ELSE UNCHANGED coordVars
  /\ UNCHANGED <<driverVars, remote, pullVars, faults>>

\* Not ready without drivers or while one has no model, nor when the row of
\* the group is gone; ready when the group is that of the heads.
AutoUpdate ==
  /\ IF Plugged = {} \/ ~ AllHaveHeads THEN NotReady
     ELSE IF group = {} THEN bootStrapped' = TRUE /\ NewGroup
     ELSE IF groupStored THEN bootStrapped' = TRUE /\ SameGroup
     ELSE NotReady
  /\ UNCHANGED <<driverVars, remote, pullVars, faults>>

\* getLatest, for computations that want the heads of now.  When the row is
\* gone, the failed update has doomed the transaction: the group that is
\* created instead is kept in memory, its row is not.
GetLatest ==
  /\ Plugged # {} /\ AllHaveHeads
  /\ IF group = {} THEN NewGroup ELSE SameGroup
  /\ UNCHANGED <<driverVars, remote, pullVars, bootStrapped, faults>>

\* A worker's system delta refers to the group (getSystemVersionGroup).
Refer ==
  /\ group # {} /\ groupStored /\ ~ referenced
  /\ referenced' = TRUE
  /\ UNCHANGED <<driverVars, remote, pullVars, bootStrapped, group, groupStored,
                 served, faults>>

\* The server is restarted: refreshAll makes the map of what is stored.
Restart ==
  /\ faults < MaxFaults
  /\ faults' = faults + 1
  /\ instances' = [d \in Driver |->
                     IF instances[d] \in rows THEN instances[d] ELSE 0]
  /\ plugging' = {}
  /\ pull' = [d \in Driver |-> [s \in Slot |-> Idle]]
  /\ bootStrapped' = FALSE
  /\ Forget
  /\ served' = {}
  /\ UNCHANGED <<scope, rows, plugged, remote, items, nextId>>

Pull(d, s) ==
  \/ StartPull(d, s) \/ PullEnds(d, s) \/ ReadModel(d, s) \/ StoreItem(d, s)
  \/ CommitItem(d, s)

Next ==
  \/ \E d \in Driver : \/ Plug(d) \/ PlugDone(d) \/ PlugFails(d) \/ Unplug(d)
                       \/ RemoteChanges(d)
                       \/ \E s \in Slot : Pull(d, s) \/ PullFails(d, s)
  \/ AutoUpdate \/ GetLatest \/ Refer \/ Restart

\* The timers fire every minute, calls that were made go on, remotes answer
\* or fail.
Spec ==
  /\ Init /\ [][Next]_vars
  /\ WF_vars(AutoUpdate)
  /\ \A d \in Driver : /\ WF_vars(PlugDone(d))
                       /\ \A s \in Slot : WF_vars(Pull(d, s))

-----------------------------------------------------------------------------
\* The variables have their types.
SystemTypeOK ==
  /\ instances \in [Driver -> 0..MaxInst]
  /\ plugging \in SUBSET Plugged
  /\ rows \in SUBSET Inst
  /\ plugged \in 0..MaxInst
  /\ remote \in [Driver -> 0..MaxVersion]
  /\ items \in [Inst -> SUBSET (Nat \X (0..MaxVersion))]
  /\ nextId \in [Inst -> Nat]
  /\ pull \in [Driver -> [Slot ->
       [pc : {"idle", "started", "locked", "flushed"}, inst : 0..MaxInst,
        lock : 0..MaxInst, ver : 0..MaxVersion, id : Nat]]]
  /\ bootStrapped \in BOOLEAN
  /\ group \in SUBSET (Inst \X (0..MaxVersion))
  /\ groupStored \in BOOLEAN
  /\ referenced \in BOOLEAN
  /\ served \in SUBSET (Inst \X (0..MaxVersion))
  /\ faults \in 0..MaxFaults

\* A driver whose plug failed: in the map, not in the database.
Ghosts == {d \in Plugged : instances[d] \notin rows /\ d \notin plugging}

\* "indicator of system being ready for service": when it is on, there is a
\* group, its model is the one served, and every driver that was plugged in
\* full has its part in it.
ReadyIsWhole ==
  bootStrapped =>
    /\ group # {} /\ served = group
    /\ \A d \in Plugged \ (plugging \cup Ghosts) :
          \E it \in group : it[1] = instances[d]

\* Overlapping pulls of one driver do not put an older model in the place of
\* a newer one.
HeadNeverGoesBack ==
  [][\A i \in Inst : (i \in rows /\ i \in rows' /\ HasHead(i))
        => HasHead(i)' /\ Head(i)' >= Head(i)]_vars

\* What each driver's remote has now.
Current == {<<instances[d], remote[d]>> : d \in Plugged}

\* When plugging and failing come to an end and no plug has left a ghost,
\* the system becomes ready and stays so with the models of now, whatever
\* was unplugged, lost or restarted before.
BecomesCurrent ==
  <>[](Ghosts = {}) => <>[](Plugged # {} => bootStrapped /\ served = Current)
=============================================================================
