-------------------------- MODULE DeltaPropagation --------------------------
(***************************************************************************)
(* HandleSystemCall.propagateDelta: a system delta was made from a         *)
(* reference version group.  When it is propagated that group is refreshed *)
(* to the drivers' heads, the delta is applied to the group's model, what  *)
(* changes is split into a delta per driver, each naming a version of its  *)
(* driver, and all are sent.  Meanwhile models are pulled, and drivers     *)
(* plugged and unplugged.                                                  *)
(*                                                                         *)
(* A model is a graph of statements; a driver's topology is what can be    *)
(* reached in it from the driver's root, and is another in another model.  *)
(* The module follows one system delta; others appear by the new versions  *)
(* they cause.                                                             *)
(***************************************************************************)
EXTENDS Integers, Sequences, FiniteSets

CONSTANTS
  Node,         \* resources and literals of the models
  Driver,       \* topology URIs of the drivers, each plugged once (bound)
  Owner,        \* the driver that a node is a matter of
  Topology,     \* nml:Topology, the type
  Models,       \* models that a driver's remote may give (bound)
  Deltas,       \* additions and reductions a delta may have (bound)
  MaxVersion    \* version items of a driver (bound)

\* "has" is for every predicate that is neither of the others.
Statement == [subject : Node, predicate : {"has", "hasTopology", "isAlias", "type"},
              object : Node]

\* Does rdfDFS go on to the object?  It excludes isAlias; of the class that
\* is the object of a type, models say nothing.
Link(s) == s.predicate \in {"has", "hasTopology"}

\* Statements of a driver about its own nodes, with links to such: to nodes
\* of others there are only aliases.
AtHome(model, d) ==
  \A s \in model : Owner[s.subject] = d /\ (Link(s) => Owner[s.object] = d)

ASSUME PropagationAssumption ==
  /\ Driver \subseteq Node /\ Topology \in Node
  /\ Owner \in [Node -> Driver] /\ \A d \in Driver : Owner[d] = d
  /\ Models \in [Driver -> SUBSET SUBSET Statement]
  /\ \A d \in Driver : \A model \in Models[d] : AtHome(model, d)
  /\ Deltas \subseteq [add : SUBSET Statement, remove : SUBSET Statement]
  /\ \A change \in Deltas : change.add \cap change.remove = {}
  /\ MaxVersion \in Nat \ {0}

VARIABLES
  plugged,      \* drivers in the map
  gone,         \* drivers that have been unplugged
  items,        \* models of a driver's version items; the last is its head
  row,          \* the reference group in the database: driver -> version
  kind,         \* who made the delta: a worker ("service"), a client ("api")
  delta,        \* its addition and its reduction
  at,           \* how far it is
  call          \* a propagation: its mode, the group as the delta came with it
                \* and then that whose model is used, the heads, what drivers
                \* are sent, and who is to be called

drivers == <<plugged, gone, items>>
vars == <<drivers, row, kind, delta, at, call>>

Modes == {"through", "forward", "forced"}

Idle == [mode |-> "through", from |-> <<>>, heads |-> <<>>, sent |-> {},
         todo |-> {}]

Init ==
  /\ plugged = {} /\ gone = {}
  /\ items = [d \in Driver |-> <<>>]
  /\ row = <<>>
  /\ kind = "service"
  /\ delta = [add |-> {}, remove |-> {}]
  /\ at = "none"
  /\ call = Idle

AllHaveHeads == plugged # {} /\ \A d \in plugged : items[d] # <<>>

\* getHeadVersionItem of every driver in the map.
Heads == [d \in plugged |-> Len(items[d])]

\* createUnionModel, for the drivers of a group.
Union(group) == UNION {items[d][group[d]] : d \in DOMAIN group}

-----------------------------------------------------------------------------
(***************************************************************************)
(* splitOntModelByTopology.                                                *)
(***************************************************************************)

\* A set of nodes that no link leaves.
Closed(model, C) == \A s \in model : Link(s) /\ s.subject \in C => s.object \in C

\* rdfDFS: the nodes it visits from n.
Reach(model, n) ==
  LET nodes == {n} \cup {s.object : s \in {t \in model : Link(t)}}
      closed == {C \in SUBSET nodes : n \in C /\ Closed(model, C)}
  IN  {m \in nodes : \A C \in closed : m \in C}

\* getTopology: all statements of the nodes visited.
Part(model, n) == LET visited == Reach(model, n)
                  IN  {s \in model : s.subject \in visited}

\* getTopologyList: topologies that are not in another.
Roots(model) ==
  {s.subject : s \in {t \in model :
     /\ t.predicate = "type" /\ t.object = Topology
     /\ \A u \in model : u.predicate = "hasTopology" => u.object # t.subject}}

\* Statements with a predicate of "ogf"; a model without any counts as empty.
Ogf(model) == {s \in model : s.predicate # "type"}

\* getOddModel: of what is left over when all topologies are taken out.
Odd(model) == Ogf(model \ UNION {Part(model, t) : t \in Roots(model)})

-----------------------------------------------------------------------------
(***************************************************************************)
(* What goes on around the delta.                                          *)
(***************************************************************************)

Plug(d) ==
  /\ d \notin plugged \cup gone
  /\ plugged' = plugged \cup {d}
  /\ UNCHANGED <<gone, items, row, kind, delta, at, call>>

\* pullModel stores a version of the remote's model.
Pull(d) ==
  /\ d \in plugged /\ Len(items[d]) < MaxVersion
  /\ \E model \in Models[d] :
       items' = [items EXCEPT ![d] = Append(@, model)]
  /\ UNCHANGED <<plugged, gone, row, kind, delta, at, call>>

\* Is the group's row referred to by a delta that is stored?
Referred == at # "none" /\ (kind = "service" \/ at = "propagated")

Without(group, d) == [e \in DOMAIN group \ {d} |-> group[e]]

\* The driver's version items go, and groups that no delta refers to.
\* Neither an item that a driver delta names can be deleted, nor the empty
\* group of a delta: then nothing is.
Unplug(d) ==
  /\ d \in plugged
  /\ ~ (at = "propagated" /\ \E s \in call.sent : s.driver = d)
  /\ Referred /\ row # <<>> => DOMAIN row # {d}
  /\ plugged' = plugged \ {d}
  /\ gone' = gone \cup {d}
  /\ row' = IF Referred THEN Without(row, d) ELSE <<>>
  /\ UNCHANGED <<items, kind, delta, at, call>>

\* refreshToHead of the row: by the coordinator's timer, if the delta is a
\* service's, or asked for by the client.
Update ==
  /\ row # <<>> /\ AllHaveHeads
  /\ row' = Heads
  /\ UNCHANGED <<drivers, kind, delta, at, call>>

\* A worker, or a client, makes a delta for the model of a group of heads.
Make ==
  /\ at = "none" /\ AllHaveHeads
  /\ kind' \in {"service", "api"}
  /\ row' = Heads
  /\ delta' \in Deltas
  /\ at' = "made"
  /\ UNCHANGED <<drivers, call>>

-----------------------------------------------------------------------------
(***************************************************************************)
(* propagateDelta.                                                         *)
(***************************************************************************)

\* The request finds the group.  A delta that has driver deltas is refused;
\* so is one whose group is gone.
Request ==
  /\ at \in {"made", "refused"} \/ (at = "propagated" /\ call.sent = {})
  /\ row # <<>>
  /\ \E mode \in Modes : call' = [Idle EXCEPT !.mode = mode, !.from = row]
  /\ at' = "asked"
  /\ UNCHANGED <<drivers, row, kind, delta>>

\* Mutant of Reference: a service's delta has a copy of its own, too.
ReferenceIsCopy == IF call.mode = "through" THEN call.from ELSE Heads

\* The group whose model is used.  refreshToHead is given the object that
\* represents the row in the transaction, and changes it in place: so the
\* reference and the head are one, and that of a stored delta is, too.  Only
\* a client's new delta still has the group as it was.
Reference ==
  IF call.mode = "through" /\ kind = "api" THEN call.from ELSE Heads

\* dryrunDelta, of a model.
Applied(model) == (model \ delta.remove) \cup delta.add

\* Mutant of Target: made from the heads, not from the reference.
TargetOfHeads == Applied(Union(Heads))

Target == Applied(Union(Reference))

\* The target and the reference are split, each by what can be reached in
\* it.  For each driver's topology that is not the same in both, the
\* difference, with the version of its head.
DriverDeltas ==
  LET from == Union(Reference)
      Difference(t) == [driver |-> t, version |-> Heads[t],
                        add |-> Part(Target, t) \ Part(from, t),
                        remove |-> Part(from, t) \ Part(Target, t)]
  IN  {s \in {Difference(t) : t \in Roots(Target)} : Ogf(s.add \cup s.remove) # {}}

\* Both have topologies; what is left over of either is not of the delta;
\* topologies of the target are of the reference, too, and of a driver.
Decomposes ==
  LET from == Union(Reference)
  IN  /\ Roots(Target) # {} /\ Roots(from) # {}
      /\ (Odd(Target) \cup Odd(from)) \cap (delta.add \cup delta.remove) = {}
      /\ Roots(Target) \subseteq Roots(from) \cap plugged

Refuse ==
  /\ at' = "refused"
  /\ call' = Idle
  /\ UNCHANGED <<drivers, row, kind, delta>>

\* Steps 1 to 3.  (Step 2, the check for conflicts, is never made: it is for
\* a head that is not equal to the reference.)
Propagate ==
  /\ at = "asked"
  /\ IF row # <<>> /\ AllHaveHeads /\ Decomposes
     THEN /\ call' = [mode |-> call.mode, from |-> Reference, heads |-> Heads,
                      sent |-> DriverDeltas,
                      todo |-> {s.driver : s \in DriverDeltas}]
          /\ at' = "calling"
          /\ UNCHANGED <<drivers, row, kind, delta>>
     ELSE Refuse

\* Step 4: the remote takes its delta.
CallDriver(d) ==
  /\ at = "calling" /\ d \in call.todo
  /\ call' = [call EXCEPT !.todo = @ \ {d}]
  /\ UNCHANGED <<drivers, row, kind, delta, at>>

\* It does not: all is rolled back, but for what other remotes have taken.
DriverThrows == at = "calling" /\ call.todo # {} /\ Refuse

\* Step 5, and the transaction commits - unless items of the refreshed group
\* were deleted meanwhile.
Store ==
  /\ at = "calling" /\ call.todo = {}
  /\ IF row # <<>> /\ DOMAIN call.heads \subseteq plugged
     THEN /\ at' = "propagated"
          /\ row' = call.heads
          /\ UNCHANGED <<drivers, kind, delta, call>>
     ELSE Refuse

Next ==
  \/ \E d \in Driver : Plug(d) \/ Pull(d) \/ Unplug(d) \/ CallDriver(d)
  \/ Update \/ Make \/ Request \/ Propagate \/ DriverThrows \/ Store

Spec == Init /\ [][Next]_vars

-----------------------------------------------------------------------------
\* The models the delta was split from.
From == Union(call.from)
To == Applied(From)

\* The model of the version a driver delta names.
Named(s) == items[s.driver][s.version]

\* A driver's head, changed as the driver is told.
Outcome(d) ==
  LET told == {s \in call.sent : s.driver = d}
  IN  (items[d][call.heads[d]] \ UNION {s.remove : s \in told})
        \cup UNION {s.add : s \in told}

\* Whatever was pulled, plugged or unplugged since the delta was made: what
\* a driver is told to remove is in the version it names, what it is told
\* to add is not in that version's topology; and the drivers' heads, changed
\* as they are told, have all the delta adds, nothing it removes, and under
\* each root what the target has there.  Exempt are a client's delta in the
\* mode "through", which names the head but may be made for an older model,
\* and a delta that ends a topology, which is passed over in silence.
DeltasFit ==
  /\ at \in {"calling", "propagated"} /\ ~ (call.mode = "through" /\ kind = "api")
  /\ Roots(From) \subseteq Roots(To)
  => /\ \A s \in call.sent :
          s.remove \subseteq Named(s) /\ s.add \cap Part(Named(s), s.driver) = {}
     /\ Ogf(delta.add) \subseteq UNION {Outcome(d) : d \in DOMAIN call.heads}
     /\ \A d \in DOMAIN call.heads : Ogf(delta.remove) \cap Outcome(d) = {}
     /\ \A d \in Roots(To) : Ogf(Part(Outcome(d), d)) = Ogf(Part(To, d))

\* Is a statement at or below a link of the change, in the model?
Hangs(s, change, model) ==
  \E l \in change : Link(l) /\ s.subject \in Reach(model, l.object)

\* However old the model a delta was made for: a driver is told to remove
\* what the delta removes, or what hung from a link that it removes, and to
\* add what it adds, or what hangs from a link it adds.  So what others have
\* done since is undone only below a link that goes.
SaysWhatFollows ==
  \A s \in call.sent :
    /\ \A x \in s.remove \ delta.remove : Hangs(x, delta.remove, From)
    /\ \A x \in s.add \ delta.add : Hangs(x, delta.add, To)
=============================================================================
