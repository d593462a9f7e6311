-------------------------- MODULE PropagationProofs --------------------------
(***************************************************************************)
(* Proofs about module DeltaPropagation, for any drivers, nodes, models,   *)
(* deltas and number of versions.                                          *)
(*                                                                         *)
(* SaysWhatFollows is a fact about graphs: a node that is reached in one   *)
(* model and not in another hangs from a link that only the first has.     *)
(* DeltasFit rests on three: when a delta is split, the reference is the   *)
(* heads (but for a client's in the mode "through"); what can be reached   *)
(* from a driver's root in the union of the heads is in the driver's own;  *)
(* and what cannot be reached from any root is not touched by a delta that *)
(* is not refused.  Later, items are only appended: the versions that were *)
(* named stay what they were.                                              *)
(***************************************************************************)
EXTENDS DeltaPropagation, TLAPS

\* Each driver's models speak of its own nodes.
Pulled ==
  /\ plugged \in SUBSET Driver
  /\ items \in [Driver -> Seq(SUBSET Statement)]
  /\ \A d \in Driver : \A v \in 1..Len(items[d]) : AtHome(items[d][v], d)

\* What is added and what is removed is apart, before and after a delta is
\* made.
Delta ==
  /\ delta \in [add : SUBSET Statement, remove : SUBSET Statement]
  /\ delta.add \cap delta.remove = {}

\* The versions of a group are there.
Stored(group) ==
  \A d \in DOMAIN group : d \in Driver /\ group[d] \in 1..Len(items[d])

\* A propagation names versions that are there, of the drivers it found, and
\* only after it has split its delta.
Call ==
  /\ call = [mode |-> call.mode, from |-> call.from, heads |-> call.heads,
             sent |-> call.sent, todo |-> call.todo]
  /\ at \notin {"calling", "propagated"} => call.sent = {}
  /\ Stored(row) /\ Stored(call.from) /\ Stored(call.heads)
  /\ \A s \in call.sent :
       s.driver \in DOMAIN call.heads /\ s.version = call.heads[s.driver]
  /\ at \in {"calling", "propagated"} => Roots(To) \subseteq DOMAIN call.heads

IInv == Pulled /\ Delta /\ Call /\ DeltasFit /\ SaysWhatFollows

USE PropagationAssumption

-----------------------------------------------------------------------------
(***************************************************************************)
(* What can be reached in a model.                                         *)
(***************************************************************************)

\* A node reaches itself, and no link leaves what it reaches.
LEMMA Visits ==
  ASSUME NEW model, NEW n
  PROVE  n \in Reach(model, n) /\ Closed(model, Reach(model, n))
<1> DEFINE nodes == {n} \cup {s.object : s \in {t \in model : Link(t)}}
<1>1. \A m : m \in Reach(model, n) <=>
        m \in nodes /\ \A C \in SUBSET nodes : n \in C /\ Closed(model, C) => m \in C
  BY DEF Reach
<1>2. n \in Reach(model, n)
  BY <1>1
<1>3. ASSUME NEW s \in model, Link(s), s.subject \in Reach(model, n)
      PROVE  s.object \in Reach(model, n)
  <2>1. s.object \in nodes
    BY <1>3
  <2>2. ASSUME NEW C \in SUBSET nodes, n \in C, Closed(model, C)
        PROVE  s.object \in C
    <3>1. s.subject \in C
      BY <1>1, <1>3, <2>2
    <3> QED
      BY <3>1, <1>3, <2>2 DEF Closed
  <2> HIDE DEF nodes
  <2> QED
    BY <1>1, <2>1, <2>2
<1> QED
  BY <1>2, <1>3 DEF Closed

\* It is the least such set.
LEMMA Least ==
  ASSUME NEW model, NEW n, NEW C, n \in C, Closed(model, C)
  PROVE  Reach(model, n) \subseteq C
<1> DEFINE nodes == {n} \cup {s.object : s \in {t \in model : Link(t)}}
           D == C \cap nodes
<1>1. D \in SUBSET nodes /\ n \in D
  OBVIOUS
<1>2. Closed(model, D)
  BY DEF Closed
<1>3. \A m \in Reach(model, n) : m \in D
  <2> HIDE DEF D
  <2> QED
    BY <1>1, <1>2 DEF Reach
<1> QED
  BY <1>3

\* Two models reach the same from a node, if they agree on the links there.
LEMMA SameReach ==
  ASSUME NEW A, NEW B, NEW n,
         \A s \in A : Link(s) /\ s.subject \in Reach(A, n) => s \in B,
         \A s \in B : Link(s) /\ s.subject \in Reach(A, n) => s \in A
  PROVE  Reach(A, n) = Reach(B, n)
<1>1. Reach(B, n) \subseteq Reach(A, n)
  <2>1. Closed(B, Reach(A, n))
    BY Visits DEF Closed
  <2> QED
    BY <2>1, Visits, Least
<1>2. Reach(A, n) \subseteq Reach(B, n)
  <2>1. Closed(A, Reach(B, n))
    BY <1>1, Visits DEF Closed
  <2> QED
    BY <2>1, Visits, Least
<1> QED
  BY <1>1, <1>2

\* What one model reaches and another does not hangs from a link that only
\* the first has.
LEMMA Hanging ==
  ASSUME NEW A, NEW B, NEW n, NEW m \in Reach(A, n), m \notin Reach(B, n)
  PROVE  \E l \in A \ B : Link(l) /\ m \in Reach(A, l.object)
<1> DEFINE C == Reach(B, n) \cup UNION {Reach(A, l.object) : l \in {k \in A \ B : Link(k)}}
<1>1. ASSUME NEW s \in A, Link(s), s.subject \in C
      PROVE  s.object \in C
  <2>1. CASE s.subject \in Reach(B, n) /\ s \in B
    BY <2>1, <1>1, Visits DEF Closed
  <2>2. CASE s.subject \in Reach(B, n) /\ s \notin B
    <3>1. s.object \in Reach(A, s.object)
      BY Visits
    <3> QED
      BY <3>1, <2>2, <1>1
  <2>3. CASE s.subject \notin Reach(B, n)
    <3>1. PICK l \in {k \in A \ B : Link(k)} : s.subject \in Reach(A, l.object)
      BY <2>3, <1>1
    <3>2. s.object \in Reach(A, l.object)
      BY <3>1, <1>1, Visits DEF Closed
    <3> QED
      BY <3>2
  <2> QED
    BY <2>1, <2>2, <2>3
<1>2. n \in C
  BY Visits
<1>3. Closed(A, C)
  BY <1>1 DEF Closed
<1>4. m \in C
  <2> HIDE DEF C
  <2> QED
    BY <1>2, <1>3, Least
<1> QED
  BY <1>4

\* So does a statement of the part of one that is not of the other's part,
\* unless the other does not have it at all.
LEMMA PartHangs ==
  ASSUME NEW A, NEW B, NEW n, NEW x \in Part(A, n), x \notin Part(B, n), x \in B
  PROVE  \E l \in A \ B : Link(l) /\ x.subject \in Reach(A, l.object)
<1>1. x.subject \in Reach(A, n) /\ x.subject \notin Reach(B, n)
  BY DEF Part
<1> QED
  BY <1>1, Hanging

-----------------------------------------------------------------------------
(***************************************************************************)
(* The split.                                                              *)
(***************************************************************************)

\* To apply a delta changes nothing that is not part of it.
LEMMA AppliedChanges ==
  ASSUME NEW model
  PROVE  model \ Applied(model) \subseteq delta.remove /\ Applied(model) \ model \subseteq delta.add
  BY DEF Applied

\* What is sent, in terms of the reference's model and the target.
LEMMA SentBySplitting ==
  ASSUME NEW s \in DriverDeltas
  PROVE  /\ s.driver \in Roots(Target)
         /\ s.version = Heads[s.driver]
         /\ s.add = Part(Target, s.driver) \ Part(Union(Reference), s.driver)
         /\ s.remove = Part(Union(Reference), s.driver) \ Part(Target, s.driver)
  BY DEF DriverDeltas

LEMMA SplitSaysWhatFollows ==
  ASSUME NEW s \in DriverDeltas
  PROVE  /\ \A x \in s.remove \ delta.remove : Hangs(x, delta.remove, Union(Reference))
         /\ \A x \in s.add \ delta.add : Hangs(x, delta.add, Target)
<1> DEFINE U == Union(Reference)
<1>1. U \ Target \subseteq delta.remove /\ Target \ U \subseteq delta.add
  BY AppliedChanges DEF Target
<1>2. /\ s.add = Part(Target, s.driver) \ Part(U, s.driver)
      /\ s.remove = Part(U, s.driver) \ Part(Target, s.driver)
  BY SentBySplitting
<1> HIDE DEF U
<1>3. ASSUME NEW x \in s.remove \ delta.remove PROVE Hangs(x, delta.remove, U)
  <2>1. x \in Part(U, s.driver) /\ x \notin Part(Target, s.driver) /\ x \in U
    BY <1>2, <1>3 DEF Part
  <2>2. x \in Target
    BY <2>1, <1>1, <1>3
  <2>3. \E l \in U \ Target : Link(l) /\ x.subject \in Reach(U, l.object)
    BY <2>1, <2>2, PartHangs
  <2> QED
    BY <2>3, <1>1 DEF Hangs
<1>4. ASSUME NEW x \in s.add \ delta.add PROVE Hangs(x, delta.add, Target)
  <2>1. x \in Part(Target, s.driver) /\ x \notin Part(U, s.driver) /\ x \in Target
    BY <1>2, <1>4 DEF Part
  <2>2. x \in U
    BY <2>1, <1>1, <1>4
  <2>3. \E l \in Target \ U : Link(l) /\ x.subject \in Reach(Target, l.object)
    BY <2>1, <2>2, PartHangs
  <2> QED
    BY <2>3, <1>1 DEF Hangs
<1> QED
  BY <1>3, <1>4 DEF U

\* The heads' union: of what is there, each driver's nodes are described by
\* its own head, which has all that its root reaches.
LEMMA HeadsAtHome ==
  ASSUME Pulled, AllHaveHeads
  PROVE  \A d \in plugged :
           /\ items[d][Heads[d]] \subseteq Union(Heads)
           /\ \A s \in items[d][Heads[d]] : s \in Statement /\ Owner[s.subject] = d
           /\ Part(Union(Heads), d) = Part(items[d][Heads[d]], d)
           /\ Part(Union(Heads), d) \subseteq items[d][Heads[d]]
<1> DEFINE U == Union(Heads)
           I(d) == items[d][Heads[d]]
<1>1. DOMAIN Heads = plugged /\ \A d \in plugged : Heads[d] = Len(items[d])
  BY DEF Heads
<1>2. \A s : s \in U <=> \E d \in plugged : s \in I(d)
  BY <1>1 DEF Union
<1>3. \A d \in plugged : d \in Driver /\ AtHome(I(d), d) /\ I(d) \subseteq Statement
  <2> TAKE d \in plugged
  <2>1. items[d] \in Seq(SUBSET Statement) /\ items[d] # <<>> /\ d \in Driver
    BY DEF Pulled, AllHaveHeads
  <2>2. Heads[d] \in 1..Len(items[d])
    BY <2>1, <1>1
  <2> QED
    BY <2>1, <2>2 DEF Pulled
<1> HIDE DEF I, U
<1>4. \A d \in plugged : \A s \in I(d) :
        s \in Statement /\ Owner[s.subject] = d /\ (Link(s) => Owner[s.object] = d)
  BY <1>3 DEF AtHome
<1>5. ASSUME NEW d \in plugged
      PROVE  Part(U, d) = Part(I(d), d) /\ Part(U, d) \subseteq I(d)
  <2> DEFINE Own == {n \in Node : Owner[n] = d}
  <2>1. d \in Own
    BY <1>3
  <2>2. Closed(U, Own)
    <3> SUFFICES ASSUME NEW s \in U, Link(s), s.subject \in Own PROVE s.object \in Own
      BY DEF Closed
    <3>1. PICK e \in plugged : s \in I(e)
      BY <1>2
    <3>2. e = d /\ s \in Statement /\ Owner[s.object] = d
      BY <3>1, <1>4
    <3> QED
      BY <3>2 DEF Statement
  <2>3. Reach(U, d) \subseteq Own
    <3> HIDE DEF Own
    <3> QED
      BY <2>1, <2>2, Least
  <2>4. \A s \in U : s.subject \in Reach(U, d) => s \in I(d)
    BY <2>3, <1>2, <1>4
  <2>5. Reach(U, d) = Reach(I(d), d)
    BY <2>4, <1>2, SameReach
  <2> QED
    BY <2>4, <2>5, <1>2 DEF Part
<1>6. \A d \in plugged : I(d) \subseteq U
  BY <1>2
<1> QED
  BY <1>4, <1>5, <1>6 DEF I, U

\* A driver's head, changed as the split tells it.
Told(d) == {s \in DriverDeltas : s.driver = d}
SplitOutcome(d) ==
  (items[d][Heads[d]] \ UNION {s.remove : s \in Told(d)})
    \cup UNION {s.add : s \in Told(d)}

\* One that is told nothing stays, and the target has the same there; one
\* that is told something gets the target's part.
LEMMA ToldOrNot ==
  ASSUME NEW d, NEW U, NEW T, U = Union(Reference), T = Target
  PROVE  \/ /\ SplitOutcome(d) = items[d][Heads[d]]
            /\ d \in Roots(T) => Ogf(Part(T, d)) = Ogf(Part(U, d))
         \/ /\ d \in Roots(T)
            /\ SplitOutcome(d) = (items[d][Heads[d]] \ (Part(U, d) \ Part(T, d)))
                                   \cup (Part(T, d) \ Part(U, d))
<1> DEFINE Difference(t) == [driver |-> t, version |-> Heads[t],
                             add |-> Part(T, t) \ Part(U, t),
                             remove |-> Part(U, t) \ Part(T, t)]
<1>1. \A s : s \in DriverDeltas <=>
        \E t \in Roots(T) : s = Difference(t) /\ Ogf(s.add \cup s.remove) # {}
  BY DEF DriverDeltas
<1>2. CASE Told(d) = {}
  <2>1. SplitOutcome(d) = items[d][Heads[d]]
    BY <1>2 DEF SplitOutcome
  <2>2. ASSUME d \in Roots(T) PROVE Ogf(Part(T, d)) = Ogf(Part(U, d))
    <3>1. Difference(d) \notin DriverDeltas
      BY <1>2 DEF Told
    <3>2. Ogf((Part(T, d) \ Part(U, d)) \cup (Part(U, d) \ Part(T, d))) = {}
      BY <3>1, <1>1, <2>2
    <3> QED
      BY <3>2 DEF Ogf
  <2> QED
    BY <2>1, <2>2
<1>3. CASE Told(d) # {}
  <2>1. \A s : s \in Told(d) <=>
          d \in Roots(T) /\ s = Difference(d) /\ Ogf(s.add \cup s.remove) # {}
    <3>1. \A t : Difference(t).driver = t
      OBVIOUS
    <3>2. \A s : s \in Told(d) <=> s \in DriverDeltas /\ s.driver = d
      BY DEF Told
    <3> DEFINE Changes(s) == Ogf(s.add \cup s.remove) # {}
    <3>3. \A s : s \in DriverDeltas <=> \E t \in Roots(T) : s = Difference(t) /\ Changes(s)
      BY <1>1
    <3> HIDE DEF Difference, Changes
    <3>4. \A s : s \in Told(d) <=> d \in Roots(T) /\ s = Difference(d) /\ Changes(s)
      BY <3>1, <3>2, <3>3
    <3> QED
      BY <3>4 DEF Changes
  <2>2. d \in Roots(T) /\ \A s : s \in Told(d) <=> s = Difference(d)
    BY <1>3, <2>1
  <2>3. Told(d) = {Difference(d)}
    <3> HIDE DEF Difference
    <3> QED
      BY <2>2
  <2> QED
    BY <2>2, <2>3 DEF SplitOutcome
<1> QED
  BY <1>2, <1>3

\* A delta that is not refused, and ends no topology, leaves nothing that it
\* removes in any driver's head, and all it adds in some.
LEMMA SplitCarriesOut ==
  ASSUME IInv, AllHaveHeads, Decomposes, Reference = Heads,
         Roots(Union(Reference)) \subseteq Roots(Target)
  PROVE  /\ \A d \in Roots(Target) : Ogf(Part(Target, d)) \subseteq SplitOutcome(d)
         /\ Ogf(delta.add) \subseteq UNION {SplitOutcome(d) : d \in plugged}
         /\ \A d \in plugged : Ogf(delta.remove) \cap SplitOutcome(d) = {}
<1> DEFINE U == Union(Reference)
           T == Target
           I(d) == items[d][Heads[d]]
<1>1. T = (U \ delta.remove) \cup delta.add /\ delta.add \cap delta.remove = {}
  BY DEF Target, Applied, IInv, Delta
<1>2. /\ Roots(U) \subseteq Roots(T) /\ Roots(T) \subseteq plugged
      /\ Odd(T) \cap delta.add = {} /\ Odd(U) \cap delta.remove = {}
  BY DEF Decomposes
<1>3. \A d \in plugged :
        /\ I(d) \subseteq U
        /\ \A s \in I(d) : Owner[s.subject] = d
        /\ Part(U, d) \subseteq I(d)
  BY HeadsAtHome DEF IInv
<1>4. \A d : \/ /\ SplitOutcome(d) = I(d)
                /\ d \in Roots(T) => Ogf(Part(T, d)) = Ogf(Part(U, d))
             \/ /\ d \in Roots(T)
                /\ SplitOutcome(d) = (I(d) \ (Part(U, d) \ Part(T, d)))
                                       \cup (Part(T, d) \ Part(U, d))
  BY ToldOrNot
<1>5. \A n : Part(T, n) \subseteq T /\ Part(U, n) \subseteq U
  BY DEF Part
<1> HIDE DEF U, T, I
<1>6. \A d \in Roots(T) : Ogf(Part(T, d)) \subseteq SplitOutcome(d)
  BY <1>2, <1>3, <1>4 DEF Ogf
<1>7. ASSUME NEW x \in Ogf(delta.add)
      PROVE  \E d \in plugged : x \in SplitOutcome(d)
  <2>1. x \in T /\ x \notin Odd(T)
    BY <1>1, <1>2 DEF Ogf
  <2>2. PICK d \in Roots(T) : x \in Part(T, d)
    BY <2>1 DEF Odd, Ogf
  <2> QED
    BY <2>2, <1>2, <1>6 DEF Ogf
<1>8. ASSUME NEW d \in plugged, NEW x \in Ogf(delta.remove), x \in SplitOutcome(d)
      PROVE  FALSE
  <2>1. x \in delta.remove /\ x \notin T /\ x \notin Part(T, d)
    BY <1>1, <1>5 DEF Ogf
  <2>2. x \in I(d) /\ (d \in Roots(T) => x \notin Part(U, d))
    <3>1. CASE SplitOutcome(d) = I(d) /\ (d \in Roots(T) => Ogf(Part(T, d)) = Ogf(Part(U, d)))
      <4>1. x \notin Ogf(Part(T, d)) /\ (x \in Part(U, d) => x \in Ogf(Part(U, d)))
        BY <2>1 DEF Ogf
      <4> QED
        BY <4>1, <3>1, <1>8
    <3>2. CASE SplitOutcome(d) = (I(d) \ (Part(U, d) \ Part(T, d)))
                                   \cup (Part(T, d) \ Part(U, d))
      BY <3>2, <2>1, <1>8
    <3> QED
      BY <3>1, <3>2, <1>4
  <2>3. x \in Odd(U)
    <3> SUFFICES ASSUME NEW r \in Roots(U), x \in Part(U, r) PROVE FALSE
      BY <2>2, <1>3 DEF Odd, Ogf
    <3>1. r \in plugged /\ x \in I(r)
      BY <1>2, <1>3
    <3>2. r = d
      BY <3>1, <2>2, <1>3
    <3> QED
      BY <3>2, <2>2, <1>2
  <2> QED
    BY <2>1, <2>3, <1>2
<1> QED
  BY <1>6, <1>7, <1>8 DEF U, T

\* Under each root of the target, a driver's head gets what the target has.
LEMMA SplitComesOut ==
  ASSUME IInv, AllHaveHeads, Decomposes, Reference = Heads,
         Roots(Union(Reference)) \subseteq Roots(Target), NEW d \in Roots(Target)
  PROVE  Ogf(Part(SplitOutcome(d), d)) = Ogf(Part(Target, d))
<1> DEFINE U == Union(Reference)
           T == Target
           O == SplitOutcome(d)
           I == items[d][Heads[d]]
<1>1. /\ d \in plugged /\ I \subseteq U
      /\ Part(U, d) = Part(I, d) /\ Part(U, d) \subseteq I
  BY HeadsAtHome DEF IInv, Decomposes
<1>2. \/ O = I /\ Ogf(Part(T, d)) = Ogf(Part(U, d))
      \/ O = (I \ (Part(U, d) \ Part(T, d))) \cup (Part(T, d) \ Part(U, d))
  BY ToldOrNot
<1>3. Ogf(delta.remove) \cap O = {}
  BY <1>1, SplitCarriesOut
<1>4. U \subseteq T \cup delta.remove
  BY AppliedChanges DEF Target
<1> HIDE DEF U, T, O, I
<1>5. CASE O = I /\ Ogf(Part(T, d)) = Ogf(Part(U, d))
  BY <1>1, <1>5 DEF T, O
<1>6. CASE O = (I \ (Part(U, d) \ Part(T, d))) \cup (Part(T, d) \ Part(U, d))
  <2>1. Part(T, d) \subseteq O /\ O \subseteq Part(T, d) \cup U
    BY <1>1, <1>6
  <2>2. \A s \in O : s.predicate # "type" => s \in T
    <3>1. \A s \in Part(T, d) : s \in T
      BY DEF Part
    <3> QED
      BY <3>1, <2>1, <1>3, <1>4 DEF Ogf
  <2>3. Reach(T, d) = Reach(O, d)
    BY <2>1, <2>2, SameReach DEF Part, Link
  <2> QED
    BY <2>1, <2>2, <2>3 DEF Part, Ogf, T, O
<1> QED
  BY <1>2, <1>5, <1>6

\* What is told fits the head it names.
LEMMA SplitFits ==
  ASSUME IInv, AllHaveHeads, Decomposes, Reference = Heads, NEW s \in DriverDeltas
  PROVE  s.remove \subseteq Named(s) /\ s.add \cap Part(Named(s), s.driver) = {}
<1>1. /\ s.driver \in plugged /\ s.version = Heads[s.driver]
      /\ s.add = Part(Target, s.driver) \ Part(Union(Heads), s.driver)
      /\ s.remove = Part(Union(Heads), s.driver) \ Part(Target, s.driver)
  BY SentBySplitting DEF Decomposes
<1> QED
  BY <1>1, HeadsAtHome DEF IInv, Named

-----------------------------------------------------------------------------
\* What was named stays: the versions of before are there, as they were.
Extended ==
  \A d \in Driver : \A v \in 1..Len(items[d]) :
     v \in 1..Len(items'[d]) /\ items'[d][v] = items[d][v]

LEMMA SameIsExtended == ASSUME UNCHANGED items PROVE Extended
  BY DEF Extended

\* A pull appends a model that speaks of the driver's own nodes.
LEMMA PullExtends ==
  ASSUME Pulled, NEW e \in Driver, Pull(e)
  PROVE  Pulled' /\ Extended
<1>1. PICK model \in Models[e] :
        items' = [items EXCEPT ![e] = Append(@, model)]
  BY DEF Pull
<1>2. items[e] \in Seq(SUBSET Statement) /\ model \in SUBSET Statement
  BY DEF Pulled
<1>3. /\ Append(items[e], model) \in Seq(SUBSET Statement)
      /\ Len(Append(items[e], model)) = Len(items[e]) + 1
      /\ \A v \in 1..Len(items[e]) : Append(items[e], model)[v] = items[e][v]
      /\ Append(items[e], model)[Len(items[e]) + 1] = model
      /\ Len(items[e]) \in Nat
  BY <1>2
<1>4. items' \in [Driver -> Seq(SUBSET Statement)]
  BY <1>1, <1>3 DEF Pulled
<1>5. items'[e] = Append(items[e], model) /\ \A d \in Driver \ {e} : items'[d] = items[d]
  BY <1>1 DEF Pulled
<1>6. ASSUME NEW d \in Driver, NEW v \in 1..Len(items'[d])
      PROVE  AtHome(items'[d][v], d)
  <2>1. CASE d # e
    BY <2>1, <1>5 DEF Pulled
  <2>2. CASE d = e
    <3>1. v \in 1..Len(items[e]) \/ v = Len(items[e]) + 1
      BY <2>2, <1>3, <1>5
    <3>2. AtHome(model, e)
      OBVIOUS
    <3> QED
      BY <2>2, <3>1, <3>2, <1>3, <1>5 DEF Pulled
  <2> QED
    BY <2>1, <2>2
<1>7. Pulled'
  BY <1>4, <1>6 DEF Pulled, Pull
<1>8. ASSUME NEW d \in Driver, NEW v \in 1..Len(items[d])
      PROVE  v \in 1..Len(items'[d]) /\ items'[d][v] = items[d][v]
  <2>1. CASE d # e
    BY <2>1, <1>5
  <2>2. CASE d = e
    BY <2>2, <1>3, <1>5
  <2> QED
    BY <2>1, <2>2
<1> QED
  BY <1>7, <1>8 DEF Extended

\* The groups name the same models as before.
LEMMA StoredStays ==
  ASSUME Extended, NEW group, Stored(group)
  PROVE  /\ \A d \in DOMAIN group : d \in Driver /\ group[d] \in 1..Len(items'[d])
         /\ \A d \in DOMAIN group : items'[d][group[d]] = items[d][group[d]]
  BY DEF Extended, Stored

\* What has been split stays true of the drivers, whatever they store.
LEMMA SplitStays ==
  ASSUME IInv, Extended, UNCHANGED <<kind, delta, at, call>>, Pulled', Stored(row)'
  PROVE  IInv'
<1>1. /\ Stored(call.from) /\ Stored(call.heads)
      /\ \A s \in call.sent :
           s.driver \in DOMAIN call.heads /\ s.version = call.heads[s.driver]
  BY DEF IInv, Call
<1>2. /\ Stored(call.from)' /\ Stored(call.heads)'
      /\ \A d \in DOMAIN call.from : items'[d][call.from[d]] = items[d][call.from[d]]
      /\ \A d \in DOMAIN call.heads : items'[d][call.heads[d]] = items[d][call.heads[d]]
  BY <1>1, StoredStays DEF Stored
<1>3. Delta' /\ From' = From
  BY <1>2 DEF IInv, Delta, From, Union
<1>4. To' = To
  BY <1>3 DEF To, Applied
<1>5. Call'
  BY <1>2, <1>4 DEF IInv, Call
<1>6. SaysWhatFollows'
  BY <1>3, <1>4 DEF IInv, SaysWhatFollows
<1>7. \A s \in call.sent : Named(s)' = Named(s)
  BY <1>1, <1>2 DEF Named
<1>8. \A d \in DOMAIN call.heads : Outcome(d)' = Outcome(d)
  BY <1>2 DEF Outcome
<1>9. DeltasFit'
  <2> SUFFICES ASSUME at \in {"calling", "propagated"},
                      ~ (call.mode = "through" /\ kind = "api"),
                      Roots(From) \subseteq Roots(To)
               PROVE  /\ \A s \in call.sent :
                           s.remove \subseteq Named(s)' /\ s.add \cap Part(Named(s)', s.driver) = {}
                      /\ Ogf(delta.add) \subseteq UNION {Outcome(d)' : d \in DOMAIN call.heads}
                      /\ \A d \in DOMAIN call.heads : Ogf(delta.remove) \cap Outcome(d)' = {}
                      /\ \A d \in Roots(To) : Ogf(Part(Outcome(d)', d)) = Ogf(Part(To, d))
    BY <1>3, <1>4 DEF DeltasFit
  <2>1. /\ \A s \in call.sent :
             s.remove \subseteq Named(s) /\ s.add \cap Part(Named(s), s.driver) = {}
        /\ Ogf(delta.add) \subseteq UNION {Outcome(d) : d \in DOMAIN call.heads}
        /\ \A d \in DOMAIN call.heads : Ogf(delta.remove) \cap Outcome(d) = {}
        /\ \A d \in Roots(To) : Ogf(Part(Outcome(d), d)) = Ogf(Part(To, d))
    BY DEF IInv, DeltasFit
  <2>2. Roots(To) \subseteq DOMAIN call.heads
    BY DEF IInv, Call
  <2> QED
    BY <2>1, <2>2, <1>7, <1>8
<1> QED
  BY <1>3, <1>5, <1>6, <1>9 DEF IInv

\* Nothing is sent: nothing can be wrong with it.
LEMMA NothingSent ==
  ASSUME IInv, Pulled', Delta', Extended, row' = row, at' \notin {"calling", "propagated"},
         NEW from, Stored(from), call' = [mode |-> call'.mode, from |-> from,
                                          heads |-> <<>>, sent |-> {}, todo |-> {}]
  PROVE  IInv'
<1>1. call'.sent = {} /\ call'.from = from /\ call'.heads = <<>>
  OBVIOUS
<1>2. DOMAIN call'.heads = {}
  BY <1>1
<1>3. Stored(row)' /\ Stored(call.from)' /\ Stored(call.heads)'
  BY <1>1, <1>2, StoredStays DEF Stored, IInv, Call
<1>4. Call'
  BY <1>1, <1>3 DEF Call
<1> QED
  BY <1>1, <1>4 DEF IInv, DeltasFit, SaysWhatFollows

-----------------------------------------------------------------------------
LEMMA InitIInv == Init => IInv
<1> SUFFICES ASSUME Init PROVE IInv
  OBVIOUS
<1>1. items \in [Driver -> Seq(SUBSET Statement)] /\ \A d \in Driver : Len(items[d]) = 0
  BY DEF Init
<1>2. Pulled
  BY <1>1 DEF Init, Pulled
<1>3. Delta
  BY DEF Init, Delta
<1>4. Call
  <2>1. row = <<>> /\ call.from = <<>> /\ call.heads = <<>> /\ DOMAIN <<>> = {}
    BY DEF Init, Idle
  <2> QED
    BY <2>1 DEF Init, Call, Idle, Stored
<1> QED
  BY <1>2, <1>3, <1>4 DEF Init, Idle, IInv, DeltasFit, SaysWhatFollows

\* The heads of the drivers in the map are versions they have.
LEMMA HeadsStored ==
  ASSUME Pulled, AllHaveHeads
  PROVE  DOMAIN Heads = plugged /\ Stored(Heads)
<1>1. ASSUME NEW d \in plugged PROVE d \in Driver /\ Len(items[d]) \in 1..Len(items[d])
  <2>1. items[d] \in Seq(SUBSET Statement) /\ items[d] # <<>> /\ d \in Driver
    BY DEF Pulled, AllHaveHeads
  <2> QED
    BY <2>1
<1> QED
  BY <1>1 DEF Heads, Stored

\* Plugging, unplugging and refreshing leave what is stored of the models.
LEMMA AroundKeepsIInv ==
  ASSUME IInv, plugged' \in SUBSET Driver, Stored(row)',
         UNCHANGED <<items, kind, delta, at, call>>
  PROVE  IInv'
<1>1. Pulled'
  BY DEF IInv, Pulled
<1> QED
  BY <1>1, SameIsExtended, SplitStays

LEMMA PlugKeepsIInv == ASSUME IInv, NEW d \in Driver, Plug(d) PROVE IInv'
<1>1. Stored(row)'
  BY DEF IInv, Call, Stored, Plug
<1> QED
  BY <1>1, AroundKeepsIInv DEF Plug, IInv, Pulled

LEMMA PullKeepsIInv == ASSUME IInv, NEW d \in Driver, Pull(d) PROVE IInv'
<1>1. Pulled' /\ Extended
  BY PullExtends DEF IInv
<1>2. Stored(row)'
  BY <1>1, StoredStays DEF Pull, IInv, Call, Stored
<1> QED
  BY <1>1, <1>2, SplitStays DEF Pull

LEMMA UnplugKeepsIInv == ASSUME IInv, NEW d \in Driver, Unplug(d) PROVE IInv'
<1>1. Stored(row)'
  <2>1. CASE Referred
    BY <2>1 DEF IInv, Call, Stored, Unplug, Without
  <2>2. CASE ~ Referred
    <3>1. row' = <<>> /\ DOMAIN <<>> = {}
      BY <2>2 DEF Unplug
    <3> QED
      BY <3>1 DEF Stored
  <2> QED
    BY <2>1, <2>2
<1> QED
  BY <1>1, AroundKeepsIInv DEF Unplug, IInv, Pulled

LEMMA UpdateKeepsIInv == ASSUME IInv, Update PROVE IInv'
<1>1. Stored(row)'
  BY HeadsStored DEF Update, drivers, IInv, Stored
<1> QED
  BY <1>1, AroundKeepsIInv DEF Update, drivers, IInv, Pulled

LEMMA MakeKeepsIInv == ASSUME IInv, Make PROVE IInv'
<1>1. Pulled' /\ Extended
  BY SameIsExtended DEF IInv, Pulled, Make, drivers
<1>2. Delta'
  BY DEF Make, Delta
<1>3. call.sent = {} /\ call' = call /\ at' \notin {"calling", "propagated"}
  BY DEF Make, IInv, Call
<1>4. Stored(row)' /\ Stored(call.from)' /\ Stored(call.heads)'
  BY HeadsStored DEF Make, drivers, IInv, Call, Stored
<1>5. Call'
  BY <1>3, <1>4 DEF IInv, Call
<1> QED
  BY <1>1, <1>2, <1>3, <1>5 DEF IInv, DeltasFit, SaysWhatFollows

LEMMA RefuseKeepsIInv == ASSUME IInv, Refuse PROVE IInv'
<1>1. Pulled' /\ Delta' /\ Extended
  BY SameIsExtended DEF Refuse, drivers, IInv, Pulled, Delta
<1>2. Stored(<<>>)
  <2>1. DOMAIN <<>> = {}
    OBVIOUS
  <2> QED
    BY <2>1 DEF Stored
<1>3. /\ call' = [mode |-> call'.mode, from |-> <<>>, heads |-> <<>>, sent |-> {}, todo |-> {}]
      /\ at' \notin {"calling", "propagated"} /\ row' = row
  BY DEF Refuse, Idle
<1> QED
  BY <1>1, <1>2, <1>3, NothingSent

LEMMA RequestKeepsIInv == ASSUME IInv, Request PROVE IInv'
<1>1. Pulled' /\ Delta' /\ Extended
  BY SameIsExtended DEF Request, drivers, IInv, Pulled, Delta
<1>2. PICK mode \in Modes : call' = [Idle EXCEPT !.mode = mode, !.from = row]
  BY DEF Request
<1>3. call' = [mode |-> mode, from |-> row, heads |-> <<>>, sent |-> {}, todo |-> {}]
  BY <1>2 DEF Idle
<1>4. Stored(row) /\ row' = row /\ at' \notin {"calling", "propagated"}
  BY DEF Request, IInv, Call
<1> QED
  BY <1>1, <1>3, <1>4, NothingSent

\* Splitting is where the deltas come from.
LEMMA PropagateKeepsIInv == ASSUME IInv, Propagate PROVE IInv'
<1>1. CASE ~ (row # <<>> /\ AllHaveHeads /\ Decomposes)
  BY <1>1, RefuseKeepsIInv DEF Propagate
<1>2. CASE row # <<>> /\ AllHaveHeads /\ Decomposes
  <2>1. /\ call' = [mode |-> call.mode, from |-> Reference, heads |-> Heads,
                    sent |-> DriverDeltas,
                    todo |-> {s.driver : s \in DriverDeltas}]
        /\ at' = "calling" /\ row' = row /\ items' = items
        /\ plugged' = plugged /\ kind' = kind /\ delta' = delta
    BY <1>2 DEF Propagate, drivers
  <2>2. /\ call'.mode = call.mode /\ call'.from = Reference
        /\ call'.heads = Heads /\ call'.sent = DriverDeltas
    BY <2>1
  <2>3. From' = Union(Reference) /\ To' = Target
    BY <2>1, <2>2 DEF From, To, Union, Applied, Target
  <2>4. Pulled' /\ Delta'
    BY <2>1 DEF IInv, Pulled, Delta
  <2>5. DOMAIN Heads = plugged /\ Stored(Heads) /\ Stored(Reference) /\ Stored(row)
    BY <1>2, HeadsStored DEF IInv, Call, Reference
  <2>6. Roots(Target) \subseteq plugged
    BY <1>2 DEF Decomposes
  <2>7. Call'
    <3>1. \A s \in DriverDeltas : s.driver \in plugged /\ s.version = Heads[s.driver]
      BY <2>6, SentBySplitting
    <3> QED
      BY <2>1, <2>2, <2>3, <2>5, <2>6, <3>1 DEF Call, Stored
  <2>8. SaysWhatFollows'
    BY <2>1, <2>2, <2>3, SplitSaysWhatFollows DEF SaysWhatFollows
  <2>9. DeltasFit'
    <3> SUFFICES ASSUME ~ (call.mode = "through" /\ kind = "api"),
                        Roots(Union(Reference)) \subseteq Roots(Target)
                 PROVE  /\ \A s \in DriverDeltas :
                             s.remove \subseteq Named(s)' /\ s.add \cap Part(Named(s)', s.driver) = {}
                        /\ Ogf(delta.add) \subseteq UNION {Outcome(d)' : d \in plugged}
                        /\ \A d \in plugged : Ogf(delta.remove) \cap Outcome(d)' = {}
                        /\ \A d \in Roots(Target) : Ogf(Part(Outcome(d)', d)) = Ogf(Part(Target, d))
      BY <2>1, <2>2, <2>3, <2>5 DEF DeltasFit
    <3>1. Reference = Heads
      BY DEF Reference
    <3>2. \A s : Named(s)' = Named(s)
      BY <2>1 DEF Named
    <3>3. \A d : Outcome(d)' = SplitOutcome(d)
      BY <2>1, <2>2 DEF Outcome, SplitOutcome, Told
    <3> QED
      BY <1>2, <3>1, <3>2, <3>3, SplitFits, SplitCarriesOut, SplitComesOut
  <2> QED
    BY <2>4, <2>7, <2>8, <2>9 DEF IInv
<1> QED
  BY <1>1, <1>2

\* That a remote has taken its delta, or that the group is stored, changes
\* neither the heads nor what was sent.
LEMMA LaterStepsKeepIInv ==
  ASSUME IInv, at = "calling", at' \in {"calling", "propagated"}, Stored(row'),
         NEW todo, call' = [call EXCEPT !.todo = todo], UNCHANGED <<drivers, kind, delta>>
  PROVE  IInv'
<1>1. Pulled' /\ Delta' /\ items' = items
  BY DEF drivers, IInv, Pulled, Delta
<1>2. call' = [mode |-> call.mode, from |-> call.from, heads |-> call.heads,
               sent |-> call.sent, todo |-> todo]
  BY DEF IInv, Call
<1>3. /\ call'.mode = call.mode /\ call'.from = call.from
      /\ call'.heads = call.heads /\ call'.sent = call.sent
  BY <1>2
<1>4. /\ From' = From /\ To' = To
      /\ \A s : Named(s)' = Named(s)
      /\ \A d : Outcome(d)' = Outcome(d)
  BY <1>1, <1>3 DEF From, To, Union, Applied, Named, Outcome
<1>5. Call'
  BY <1>1, <1>2, <1>3, <1>4 DEF IInv, Call, Stored
<1>6. DeltasFit'
  BY <1>3, <1>4 DEF IInv, DeltasFit
<1>7. SaysWhatFollows'
  BY <1>3, <1>4 DEF IInv, SaysWhatFollows
<1> QED
  BY <1>1, <1>5, <1>6, <1>7 DEF IInv

LEMMA StoreKeepsIInv == ASSUME IInv, Store PROVE IInv'
<1>1. CASE row # <<>> /\ DOMAIN call.heads \subseteq plugged
  <2>1. /\ call' = call /\ at = "calling" /\ at' = "propagated"
        /\ row' = call.heads /\ UNCHANGED <<drivers, kind, delta>>
    BY <1>1 DEF Store
  <2>2. call' = [call EXCEPT !.todo = call.todo] /\ Stored(row')
    BY <2>1 DEF IInv, Call
  <2> QED
    BY <2>1, <2>2, LaterStepsKeepIInv
<1>2. CASE ~ (row # <<>> /\ DOMAIN call.heads \subseteq plugged)
  BY <1>2, RefuseKeepsIInv DEF Store
<1> QED
  BY <1>1, <1>2

LEMMA NextKeepsIInv == IInv /\ [Next]_vars => IInv'
<1> SUFFICES ASSUME IInv, [Next]_vars PROVE IInv'
  OBVIOUS
<1>1. CASE UNCHANGED vars
  <2>1. Stored(row)'
    BY <1>1 DEF vars, drivers, IInv, Call, Stored
  <2> QED
    BY <1>1, <2>1, AroundKeepsIInv DEF vars, drivers, IInv, Pulled
<1>2. ASSUME NEW d \in Driver, Plug(d) PROVE IInv'
  BY <1>2, PlugKeepsIInv
<1>3. ASSUME NEW d \in Driver, Pull(d) PROVE IInv'
  BY <1>3, PullKeepsIInv
<1>4. ASSUME NEW d \in Driver, Unplug(d) PROVE IInv'
  BY <1>4, UnplugKeepsIInv
<1>5. CASE Update
  BY <1>5, UpdateKeepsIInv
<1>6. CASE Make
  BY <1>6, MakeKeepsIInv
<1>7. CASE Request
  BY <1>7, RequestKeepsIInv
<1>8. CASE Propagate
  BY <1>8, PropagateKeepsIInv
<1>9. ASSUME NEW d \in Driver, CallDriver(d) PROVE IInv'
  <2>1. Stored(row') /\ at = "calling" /\ at' = "calling"
    BY <1>9 DEF CallDriver, IInv, Call
  <2> QED
    BY <2>1, <1>9, LaterStepsKeepIInv DEF CallDriver
<1>10. CASE DriverThrows
  BY <1>10, RefuseKeepsIInv DEF DriverThrows
<1>11. CASE Store
  BY <1>11, StoreKeepsIInv
<1> QED
  BY <1>1, <1>2, <1>3, <1>4, <1>5, <1>6, <1>7, <1>8, <1>9, <1>10, <1>11 DEF Next

\* What the runs check, and what makes it inductive, holds always.
THEOREM PropagationInvariant == Spec => []IInv
  BY InitIInv, NextKeepsIInv, PTL DEF Spec

\* Whatever is pulled, plugged or unplugged between the making of a delta
\* and the end of propagateDelta: what a driver is told fits the version it
\* names, and the drivers' heads, changed as they are told, have all the
\* delta adds, nothing it removes, and under each root what the target has
\* there - but for a client's delta in the mode "through", and one that ends
\* a topology.
THEOREM DeltasFitAlways == Spec => []DeltasFit
  BY PropagationInvariant, PTL DEF IInv

\* However old the model a delta was made for, all that a driver is told
\* beyond the delta hangs from a link that the delta adds or removes.
THEOREM SaysWhatFollowsAlways == Spec => []SaysWhatFollows
  BY PropagationInvariant, PTL DEF IInv
=============================================================================
