--------------------------- MODULE CompilerProofs ---------------------------
(***************************************************************************)
(* Proofs about module SimpleCompiler, for every intent.                   *)
(***************************************************************************)
EXTENDS SimpleCompiler, FiniteSetTheorems, SequenceTheorems,
        WellFoundedInduction, TLAPS

-----------------------------------------------------------------------------
(***************************************************************************)
(* Queues: what is in them, and that nothing is in them twice.             *)
(***************************************************************************)

\* The orders of a finite set are sequences of just its elements.
LEMMA Orders ==
  ASSUME NEW S, IsFiniteSet(S), NEW s \in SetToSeqs(S)
  PROVE  /\ s \in Seq(S) /\ IsInjective(s)
         /\ \A x : Contains(s, x) <=> x \in S
<1> DEFINE n == Cardinality(S)
<1>1. n \in Nat
  BY FS_CardinalityType
<1>2. s \in [1..n -> S] /\ \A i, j \in 1..n : i # j => s[i] # s[j]
  BY DEF SetToSeqs
<1> HIDE DEF n
<1>3. s \in Seq(S) /\ Len(s) = n
  BY <1>1, <1>2
<1>4. IsInjective(s)
  BY <1>2 DEF IsInjective
<1>5. s \in Injection(1..n, S)
  BY <1>2, <1>4 DEF Injection
<1>6. Cardinality(1..n) = n
  BY <1>1, FS_Interval
<1>7. s \in Surjection(1..n, S)
  BY <1>5, <1>6, FS_Injection DEF n
<1>8. \A x \in S : \E i \in 1..n : s[i] = x
  BY <1>7 DEF Surjection
<1> QED
  BY <1>2, <1>3, <1>4, <1>8 DEF Contains

\* Taking the first element.
LEMMA Taking ==
  ASSUME NEW S, NEW q \in Seq(S), q # <<>>, IsInjective(q)
  PROVE  /\ Head(q) \in S /\ Contains(q, Head(q))
         /\ Tail(q) \in Seq(S) /\ IsInjective(Tail(q))
         /\ \A x : Contains(q, x) <=> x = Head(q) \/ Contains(Tail(q), x)
         /\ ~ Contains(Tail(q), Head(q))
<1>1. /\ Head(q) = q[1] /\ q[1] \in S /\ Len(q) \in Nat /\ Len(q) >= 1
      /\ Tail(q) \in Seq(S) /\ Len(Tail(q)) = Len(q) - 1
      /\ \A i \in 1..Len(Tail(q)) : Tail(q)[i] = q[i + 1]
      /\ DOMAIN q = 1..Len(q) /\ DOMAIN Tail(q) = 1..Len(Tail(q))
  BY HeadTailProperties, LenProperties
<1>2. Contains(q, Head(q))
  BY <1>1 DEF Contains
<1>3. \A i, j \in 1..Len(q) : q[i] = q[j] => i = j
  BY <1>1 DEF IsInjective
<1>4. IsInjective(Tail(q))
  BY <1>1, <1>3 DEF IsInjective
<1>5. ASSUME NEW x
      PROVE  Contains(q, x) <=> x = Head(q) \/ Contains(Tail(q), x)
  <2>1. ASSUME NEW i \in 1..Len(q), q[i] = x
        PROVE  x = Head(q) \/ Contains(Tail(q), x)
    <3>1. CASE i = 1
      BY <1>1, <2>1, <3>1
    <3>2. CASE i # 1
      <4>1. i - 1 \in 1..Len(Tail(q)) /\ Tail(q)[i - 1] = q[i]
        BY <1>1, <3>2
      <4> QED
        BY <2>1, <4>1 DEF Contains
    <3> QED
      BY <3>1, <3>2
  <2>2. ASSUME NEW i \in 1..Len(Tail(q)), Tail(q)[i] = x
        PROVE  Contains(q, x)
    <3>1. i + 1 \in 1..Len(q) /\ q[i + 1] = x
      BY <1>1, <2>2
    <3> QED
      BY <3>1 DEF Contains
  <2> QED
    BY <1>2, <2>1, <2>2 DEF Contains
<1>6. ~ Contains(Tail(q), Head(q))
  <2> SUFFICES ASSUME NEW i \in 1..Len(Tail(q)), Tail(q)[i] = Head(q)
               PROVE  FALSE
    BY DEF Contains
  <2>1. i + 1 \in 1..Len(q) /\ q[i + 1] = q[1] /\ 1 \in 1..Len(q)
    BY <1>1
  <2> QED
    BY <1>3, <2>1
<1> QED
  BY <1>1, <1>2, <1>4, <1>5, <1>6

\* Adding a sequence of other elements at the end.
LEMMA Adding ==
  ASSUME NEW S, NEW q \in Seq(S), NEW s \in Seq(S),
         IsInjective(q), IsInjective(s),
         \A x : ~ (Contains(q, x) /\ Contains(s, x))
  PROVE  /\ q \o s \in Seq(S) /\ IsInjective(q \o s)
         /\ \A x : Contains(q \o s, x) <=> Contains(q, x) \/ Contains(s, x)
<1> DEFINE r == q \o s
<1>1. /\ Len(q) \in Nat /\ Len(s) \in Nat
      /\ r \in Seq(S) /\ Len(r) = Len(q) + Len(s)
      /\ \A i \in 1..Len(r) : r[i] = IF i <= Len(q) THEN q[i]
                                     ELSE s[i - Len(q)]
      /\ DOMAIN r = 1..Len(r) /\ DOMAIN q = 1..Len(q)
      /\ DOMAIN s = 1..Len(s)
  BY ConcatProperties, LenProperties
<1> HIDE DEF r
<1>2. ASSUME NEW x
      PROVE  Contains(r, x) <=> Contains(q, x) \/ Contains(s, x)
  <2>1. ASSUME NEW i \in 1..Len(r), r[i] = x
        PROVE  Contains(q, x) \/ Contains(s, x)
    <3>1. CASE i <= Len(q)
      BY <1>1, <2>1, <3>1 DEF Contains
    <3>2. CASE ~ (i <= Len(q))
      <4>1. i - Len(q) \in 1..Len(s) /\ s[i - Len(q)] = x
        BY <1>1, <2>1, <3>2
      <4> QED
        BY <4>1 DEF Contains
    <3> QED
      BY <3>1, <3>2
  <2>2. ASSUME NEW i \in 1..Len(q), q[i] = x
        PROVE  Contains(r, x)
    <3>1. i \in 1..Len(r) /\ r[i] = x
      BY <1>1, <2>2
    <3> QED
      BY <3>1 DEF Contains
  <2>3. ASSUME NEW i \in 1..Len(s), s[i] = x
        PROVE  Contains(r, x)
    <3>1. i + Len(q) \in 1..Len(r) /\ ~ (i + Len(q) <= Len(q))
          /\ (i + Len(q)) - Len(q) = i
      BY <1>1
    <3>2. r[i + Len(q)] = x
      BY <1>1, <2>3, <3>1
    <3> QED
      BY <3>1, <3>2 DEF Contains
  <2> QED
    BY <2>1, <2>2, <2>3 DEF Contains
<1>3. IsInjective(r)
  <2> SUFFICES ASSUME NEW i \in 1..Len(r), NEW j \in 1..Len(r), r[i] = r[j]
               PROVE  i = j
    BY <1>1 DEF IsInjective
  <2>1. CASE i <= Len(q) /\ j <= Len(q)
    <3>1. i \in DOMAIN q /\ j \in DOMAIN q /\ q[i] = q[j]
      BY <1>1, <2>1
    <3> QED
      BY <3>1 DEF IsInjective
  <2>2. CASE ~ (i <= Len(q)) /\ ~ (j <= Len(q))
    <3>1. i - Len(q) \in DOMAIN s /\ j - Len(q) \in DOMAIN s
          /\ s[i - Len(q)] = s[j - Len(q)]
      BY <1>1, <2>2
    <3>2. i - Len(q) = j - Len(q)
      BY <3>1 DEF IsInjective
    <3> QED
      BY <1>1, <3>2
  <2>3. ASSUME NEW k \in 1..Len(r), NEW l \in 1..Len(r), r[k] = r[l],
               k <= Len(q), ~ (l <= Len(q))
        PROVE  FALSE
    <3>1. k \in 1..Len(q) /\ l - Len(q) \in 1..Len(s)
          /\ q[k] = s[l - Len(q)]
      BY <1>1, <2>3
    <3>2. Contains(q, q[k]) /\ Contains(s, q[k])
      BY <3>1 DEF Contains
    <3> QED
      BY <3>2
  <2> QED
    BY <2>1, <2>2, <2>3
<1> QED
  BY <1>1, <1>2, <1>3 DEF r

\* Adding one other element at the end.
LEMMA Appending ==
  ASSUME NEW S, NEW q \in Seq(S), NEW e \in S, IsInjective(q), ~ Contains(q, e)
  PROVE  /\ Append(q, e) \in Seq(S) /\ IsInjective(Append(q, e))
         /\ \A x : Contains(Append(q, e), x) <=> Contains(q, x) \/ x = e
<1> DEFINE s == <<e>>
<1>1. s \in Seq(S) /\ IsInjective(s) /\ \A x : Contains(s, x) <=> x = e
  BY DEF IsInjective, Contains
<1>2. Append(q, e) = q \o s
  BY AppendIsConcat
<1> HIDE DEF s
<1>3. \A x : ~ (Contains(q, x) /\ Contains(s, x))
  BY <1>1
<1> QED
  BY <1>1, <1>2, <1>3, Adding

-----------------------------------------------------------------------------
(***************************************************************************)
(* Types.                                                                  *)
(***************************************************************************)

\* The graph that is being compiled is a graph.
LEMMA GraphFacts ==
  ASSUME intent \in Intents, round \in 1..Len(intent)
  PROVE  /\ g.policies \subseteq Policy /\ IsFiniteSet(g.policies)
         /\ g.dependOn \in [g.policies -> SUBSET (g.policies \cup Other)]
         /\ Leaves \subseteq g.policies /\ IsFiniteSet(Leaves)
         /\ \A p : Children(p) \subseteq g.policies /\ IsFiniteSet(Children(p))
                   /\ Parents(p) \subseteq g.policies /\ IsFiniteSet(Parents(p))
<1>1. GraphOK(intent[round])
  BY CompilerAssumption
<1>2. /\ g.policies \subseteq Policy
      /\ g.dependOn \in [g.policies -> SUBSET (g.policies \cup Other)]
  BY <1>1 DEF GraphOK, g
<1>3. IsFiniteSet(g.policies)
  BY <1>2, CompilerAssumption, FS_Subset
<1>4. /\ Leaves \subseteq g.policies
      /\ \A p : Children(p) \subseteq g.policies /\ Parents(p) \subseteq g.policies
  BY DEF Leaves, Children, Parents
<1> QED
  BY <1>2, <1>3, <1>4, FS_Subset

\* It stays the same until the next round.
LEMMA GraphKept ==
  ASSUME intent' = intent, round' = round
  PROVE  /\ g' = g /\ Leaves' = Leaves
         /\ \A p : Children(p)' = Children(p) /\ Parents(p)' = Parents(p)
  BY DEF g, Leaves, Children, Parents

\* What a new action changes.
LEMMA NewFacts ==
  ASSUME CompilerTypeOK, NEW a, NEW p, NewAction(a, p)
  PROVE  /\ pc = "loop" /\ a \in Actions /\ a \notin Created
         /\ p \in g.policies /\ p \in Policy /\ Contains(queue, p)
         /\ \A x : Contains(queue, x) <=> x = p \/ Contains(Tail(queue), x)
         /\ ~ Contains(Tail(queue), p)
         /\ Tail(queue) \in Seq(g.policies) /\ IsInjective(Tail(queue))
         /\ Created' = Created \cup {a} /\ \A b \in Created : b < a
         /\ policyOf' \in [Actions -> Policy \cup {NoPolicy}]
         /\ policyOf'[a] = p
         /\ \A b \in Actions : b # a => policyOf'[b] = policyOf[b]
         /\ deps'[a] = childActions[p]
         /\ \A b \in Actions : b # a => deps'[b] = deps[b]
         /\ deps' \in [Actions -> SUBSET Created']
         /\ Created' = 1..a /\ a \in 0..MaxActions
<1> USE DEF CompilerTypeOK
<1>1. /\ pc = "loop" /\ queue # <<>> /\ p = Head(queue)
      /\ a \in Actions /\ Created = 1..(a - 1)
      /\ policyOf' = [policyOf EXCEPT ![a] = p]
      /\ deps' = [deps EXCEPT ![a] = childActions[p]]
  BY DEF NewAction
<1>2. /\ p \in g.policies /\ Contains(queue, p)
      /\ Tail(queue) \in Seq(g.policies) /\ IsInjective(Tail(queue))
      /\ \A x : Contains(queue, x) <=> x = p \/ Contains(Tail(queue), x)
      /\ ~ Contains(Tail(queue), p)
  BY <1>1, Taking
<1>3. p \in Policy /\ p # NoPolicy
  BY <1>2, GraphFacts, CompilerAssumption
<1>4. a \in 1..MaxActions /\ MaxActions \in Nat
  BY <1>1, CompilerAssumption DEF Actions
<1>5. a \notin Created /\ \A b \in Created : b < a
  BY <1>1, <1>4
<1>6. /\ policyOf \in [Actions -> Policy \cup {NoPolicy}]
      /\ policyOf'[a] = p
      /\ \A b \in Actions : b # a => policyOf'[b] = policyOf[b]
      /\ policyOf' \in [Actions -> Policy \cup {NoPolicy}]
  BY <1>1, <1>3
<1>7. Created' = Created \cup {a}
  <2>1. Created' = {b \in Actions : policyOf'[b] # NoPolicy}
    BY DEF Created, Actions
  <2> QED
    BY <1>1, <1>3, <1>6, <2>1 DEF Created
<1>8. Created' = 1..a
  BY <1>1, <1>4, <1>7
<1>9. /\ deps'[a] = childActions[p]
      /\ \A b \in Actions : b # a => deps'[b] = deps[b]
      /\ deps' \in [Actions -> SUBSET Created']
  BY <1>1, <1>3, <1>7
<1> QED
  BY <1>1, <1>2, <1>3, <1>4, <1>5, <1>6, <1>7, <1>8, <1>9

\* The queue after the parents of a compiled policy were added.
LEMMA EnqueuedFacts ==
  ASSUME CompilerTypeOK, NEW q \in Seq(g.policies), IsInjective(q), NEW p,
         Enqueued(q, Parents(p))
  PROVE  /\ queue' \in Seq(g.policies) /\ IsInjective(queue')
         /\ \A x : Contains(queue', x) <=> Contains(q, x) \/ x \in Parents(p)
<1> DEFINE S == {x \in Parents(p) : ~ Contains(q, x)}
<1>1. S \subseteq g.policies /\ IsFiniteSet(S)
  BY GraphFacts, FS_Subset DEF CompilerTypeOK
<1>2. PICK s \in SetToSeqs(S) : queue' = q \o s
  BY DEF Enqueued
<1>3. s \in Seq(S) /\ IsInjective(s) /\ \A x : Contains(s, x) <=> x \in S
  BY <1>1, <1>2, Orders
<1>4. s \in Seq(g.policies)
  BY <1>1, <1>3, SeqMonotonic
<1>5. \A x : ~ (Contains(q, x) /\ Contains(s, x))
  BY <1>3
<1>6. /\ queue' \in Seq(g.policies) /\ IsInjective(queue')
      /\ \A x : Contains(queue', x) <=> Contains(q, x) \/ Contains(s, x)
  BY <1>2, <1>3, <1>4, <1>5, Adding
<1> QED
  BY <1>3, <1>6

\* Types, and that no policy is queued twice.
LEMMA InitTypes == Init => CompilerTypeOK
<1> SUFFICES ASSUME Init PROVE CompilerTypeOK
  OBVIOUS
<1>1. Len(intent) \in 1..2 /\ MaxActions \in Nat
  BY CompilerAssumption DEF Init
<1>2. Created = {} /\ Created = 1..0
  BY DEF Init, Created
<1>3. queue \in Seq(g.policies) /\ IsInjective(queue)
  BY DEF Init, IsInjective
<1>4. \E n \in 0..MaxActions :
        policyOf \in [Actions -> Policy \cup {NoPolicy}] /\ Created = 1..n
  BY <1>1, <1>2 DEF Init
<1>5. /\ intent \in Intents /\ round \in 1..Len(intent)
      /\ pc \in {"enqueue", "loop", "done", "error"}
  <2>1. \A n \in 1..2 : 1 \in 1..n
    OBVIOUS
  <2> QED
    BY <1>1, <2>1 DEF Init
<1>6. /\ childActions \in [Policy -> SUBSET Created]
      /\ deps \in [Actions -> SUBSET Created]
      /\ rootActions \subseteq Created
  BY DEF Init
<1> HIDE DEF Init
<1> QED
  BY <1>3, <1>4, <1>5, <1>6 DEF CompilerTypeOK

\* The same of every step.
LEMMA NextTypes == CompilerTypeOK /\ [Next]_vars => CompilerTypeOK'
<1> SUFFICES ASSUME CompilerTypeOK, [Next]_vars PROVE CompilerTypeOK'
  OBVIOUS
<1>0. /\ intent \in Intents /\ round \in 1..Len(intent)
      /\ pc \in {"enqueue", "loop", "done", "error"}
      /\ queue \in Seq(g.policies) /\ IsInjective(queue)
      /\ childActions \in [Policy -> SUBSET Created]
      /\ \E n \in 0..MaxActions :
           policyOf \in [Actions -> Policy \cup {NoPolicy}] /\ Created = 1..n
      /\ deps \in [Actions -> SUBSET Created]
      /\ rootActions \subseteq Created
  BY DEF CompilerTypeOK
\* What holds of the actions while none is created.
<1>1. ASSUME intent' = intent, round' = round,
             policyOf' = policyOf, deps' = deps, rootActions' = rootActions,
             pc' \in {"enqueue", "loop", "done", "error"},
             queue' \in Seq(g.policies), IsInjective(queue'),
             childActions' \in [Policy -> SUBSET Created]
      PROVE  CompilerTypeOK'
  <2>1. Created' = Created /\ g' = g
    BY <1>1 DEF Created, Actions, g
  <2> QED
    BY <1>0, <1>1, <2>1 DEF CompilerTypeOK, Actions
\* What holds of them when one is.
<1>2. ASSUME NEW a \in Actions, NEW p \in Policy, NewAction(a, p),
             intent' = intent, round' = round, pc' = pc,
             queue' \in Seq(g.policies), IsInjective(queue'),
             childActions' \in [Policy -> SUBSET Created'],
             rootActions' \subseteq Created'
      PROVE  CompilerTypeOK'
  <2>1. /\ policyOf' \in [Actions -> Policy \cup {NoPolicy}]
        /\ deps' \in [Actions -> SUBSET Created']
        /\ Created' = 1..a /\ a \in 0..MaxActions
    BY <1>2, NewFacts
  <2>2. g' = g
    BY <1>2 DEF g
  <2> QED
    BY <1>0, <1>2, <2>1, <2>2 DEF CompilerTypeOK, Actions
<1>3. CASE Enqueue
  <2>1. CASE Leaves = {}
    BY <1>0, <1>1, <1>3, <2>1 DEF Enqueue
  <2>2. CASE Leaves # {}
    <3>1. queue' \in SetToSeqs(Leaves) /\ pc' = "loop"
      BY <1>3, <2>2 DEF Enqueue
    <3>2. IsFiniteSet(Leaves) /\ Leaves \subseteq g.policies
      BY <1>0, GraphFacts
    <3>3. queue' \in Seq(Leaves) /\ IsInjective(queue')
      BY <3>1, <3>2, Orders
    <3>4. queue' \in Seq(g.policies)
      BY <3>2, <3>3, SeqMonotonic
    <3> QED
      BY <1>1, <1>3, <3>1, <3>3, <3>4 DEF Enqueue
  <2> QED
    BY <2>1, <2>2
<1>4. CASE Requeue
  <2>1. PICK a \in Actions, p \in Policy :
          NewAction(a, p) /\ queue' = Append(Tail(queue), p)
    BY <1>4 DEF Requeue
  <2>2. /\ p \in g.policies /\ ~ Contains(Tail(queue), p)
        /\ Tail(queue) \in Seq(g.policies) /\ IsInjective(Tail(queue))
        /\ Created' = Created \cup {a}
    BY <2>1, NewFacts
  <2>3. queue' \in Seq(g.policies) /\ IsInjective(queue')
    BY <2>1, <2>2, Appending
  <2>4. /\ intent' = intent /\ round' = round /\ pc' = pc
        /\ childActions' = childActions /\ rootActions' = rootActions
    BY <1>4 DEF Requeue
  <2>5. childActions' \in [Policy -> SUBSET Created'] /\ rootActions' \subseteq Created'
    BY <1>0, <2>2, <2>4
  <2> QED
    BY <1>2, <2>1, <2>3, <2>4, <2>5
<1>5. CASE Compile
  <2>1. PICK a \in Actions, p \in Policy :
          /\ NewAction(a, p)
          /\ childActions' = [x \in Policy |->
                                childActions[x] \cup
                                  (IF x \in Parents(p) THEN {a} ELSE {})]
          /\ Enqueued(Tail(queue), Parents(p))
          /\ rootActions' = rootActions \cup
                              (IF Parents(p) = {} THEN {a} ELSE {})
    BY <1>5 DEF Compile
  <2>2. /\ Tail(queue) \in Seq(g.policies) /\ IsInjective(Tail(queue))
        /\ Created' = Created \cup {a}
    BY <2>1, NewFacts
  <2>3. queue' \in Seq(g.policies) /\ IsInjective(queue')
    BY <2>1, <2>2, EnqueuedFacts
  <2>4. intent' = intent /\ round' = round /\ pc' = pc
    BY <1>5 DEF Compile
  <2>5. childActions' \in [Policy -> SUBSET Created'] /\ rootActions' \subseteq Created'
    BY <1>0, <2>1, <2>2
  <2> QED
    BY <1>2, <2>1, <2>3, <2>4, <2>5
<1>6. CASE CreateFails
  <2>1. Tail(queue) \in Seq(g.policies) /\ IsInjective(Tail(queue))
    BY <1>0, <1>6, Taking DEF CreateFails
  <2> QED
    BY <1>0, <1>1, <1>6, <2>1 DEF CreateFails
<1>7. CASE EndOfRound
  <2>1. /\ UNCHANGED <<intent, queue, childActions, policyOf, deps, rootActions>>
        /\ queue = <<>> /\ round' \in {round, round + 1}
        /\ round' # round => round < Len(intent)
        /\ pc' \in {"enqueue", "done"}
    BY <1>7 DEF EndOfRound
  <2>2. Len(intent) \in 1..2
    BY <1>0, CompilerAssumption
  <2>3. round' \in 1..Len(intent')
    BY <1>0, <2>1, <2>2
  <2>4. Created' = Created
    BY <2>1 DEF Created, Actions
  <2>5. queue' \in Seq(g'.policies) /\ IsInjective(queue')
    BY <2>1 DEF IsInjective
  <2> QED
    BY <1>0, <2>1, <2>3, <2>4, <2>5 DEF CompilerTypeOK, Actions
<1>8. CASE UNCHANGED vars
  BY <1>0, <1>1, <1>8 DEF vars
<1> QED
  BY <1>3, <1>4, <1>5, <1>6, <1>7, <1>8 DEF Next

\* Every variable keeps its type, and no policy is queued twice, although
\* policies are queued by themselves and by each of their children.
THEOREM CompilerTypeCorrect == Spec => []CompilerTypeOK
  BY InitTypes, NextTypes, PTL DEF Spec

-----------------------------------------------------------------------------
(***************************************************************************)
(* The inductive invariant behind the shape of the result.                 *)
(***************************************************************************)

\* The actions that are used: roots, and what others depend on.
Kept(a) == a \in rootActions \/ \E u \in Created : a \in deps[u]

\* The actions recorded for a parent in this round.
Recorded(a) == \E x \in Policy : a \in childActions[x]

\* A child action of p is known for each child.
AllChildren(p) ==
  \A q \in Children(p) : \E c \in childActions[p] : policyOf[c] = q

\* Policy p has been compiled: its action has all its child actions, and is
\* known to all its parents or is a root.
Finished(p) ==
  \E a \in Created :
    /\ policyOf[a] = p /\ deps[a] = childActions[p] /\ AllChildren(p)
    /\ Parents(p) = {} => a \in rootActions
    /\ \A y \in Parents(p) : a \in childActions[y]

\* Dependencies are created first, and only by what is created itself.
Ordered ==
  \A a \in Actions : /\ \A d \in deps[a] : d < a
                     /\ a \notin Created => deps[a] = {}

\* Action c, which is recorded for x, is the one of the compiled policy q:
\* known to all parents of q, with the actions of all children of q.
ChildOK(x, c, q) ==
  /\ q \in g.policies /\ x \in Parents(q)
  /\ \A y \in Parents(q) :
       c \in childActions[y] /\ \A d \in childActions[y] : policyOf[d] = q => d = c
  /\ AllChildren(q) /\ deps[c] = childActions[q]
  /\ ~ Contains(queue, q)

ChildActions ==
  \A x \in Policy : \A c \in childActions[x] : ChildOK(x, c, policyOf[c])

\* A policy something was recorded for is queued until it is compiled, and
\* so are the leaves; nothing else is queued.
Queued ==
  /\ \A x \in g.policies :
       (childActions[x] # {} \/ x \in Leaves) =>
          Contains(queue, x) \/ Finished(x)
  /\ \A x \in g.policies :
       Contains(queue, x) /\ childActions[x] = {} => x \in Leaves
  /\ queue = <<>> => rootActions # {}

\* What was left behind depends on nothing that is not used otherwise.
LeftBehind ==
  \A a \in Created : \A d \in deps[a] :
    \/ \E u \in Created : d \in deps[u] /\ (Kept(u) \/ Recorded(u))
    \/ \E x \in Policy : Contains(queue, x) /\ d \in childActions[x]

\* The same between two rounds and at the end.
Sound ==
  \A a \in Created : \A d \in deps[a] : \E u \in Created : d \in deps[u] /\ Kept(u)

Shape ==
  /\ Ordered
  /\ pc = "loop" => ChildActions /\ Queued /\ LeftBehind
  /\ pc \in {"enqueue", "done"} => Sound
  /\ pc = "done" => rootActions # {}

CInv == CompilerTypeOK /\ Shape

\* Before anything is compiled there is nothing to be said.
LEMMA InitCInv == Init => CInv
<1> SUFFICES ASSUME Init PROVE CInv
  OBVIOUS
<1>1. CompilerTypeOK
  BY InitTypes
<1>2. Created = {} /\ pc = "enqueue" /\ deps = [a \in Actions |-> {}]
  BY DEF Init, Created
<1> QED
  BY <1>1, <1>2 DEF CInv, Shape, Ordered, Sound

\* A compiled policy stays so while actions are added.
LEMMA FinishedStays ==
  ASSUME intent' = intent, round' = round, NEW x, Finished(x),
         childActions'[x] = childActions[x],
         \A y \in Parents(x) : childActions[y] \subseteq childActions'[y],
         rootActions \subseteq rootActions', Created \subseteq Created',
         childActions[x] \subseteq Created,
         \A b \in Created : policyOf'[b] = policyOf[b] /\ deps'[b] = deps[b]
  PROVE  Finished(x)'
<1>1. PICK b \in Created :
        /\ policyOf[b] = x /\ deps[b] = childActions[x] /\ AllChildren(x)
        /\ Parents(x) = {} => b \in rootActions
        /\ \A y \in Parents(x) : b \in childActions[y]
  BY DEF Finished
<1>2. AllChildren(x)'
  BY <1>1, GraphKept DEF AllChildren
<1>3. Parents(x)' = Parents(x)
  BY GraphKept
<1>4. /\ policyOf'[b] = x /\ deps'[b] = childActions'[x] /\ b \in Created'
      /\ Parents(x) = {} => b \in rootActions'
      /\ \A y \in Parents(x) : b \in childActions'[y]
  BY <1>1
<1> QED
  BY <1>2, <1>3, <1>4 DEF Finished

\* A policy that is compiled has not been before, and need not wait: there
\* is one child action for each of its children.
LEMMA CompileFacts ==
  ASSUME CInv, pc = "loop", NEW p \in g.policies, Contains(queue, p), ~ Waits(p)
  PROVE  /\ \A x \in Policy : \A c \in childActions[x] : policyOf[c] # p
         /\ AllChildren(p)
         /\ p \notin Parents(p)
         /\ \A r \in Parents(p) : ~ AllChildren(r)
<1> USE DEF CInv
<1>1. ChildActions /\ Queued
  BY DEF Shape
<1>2. \A x \in Policy : \A c \in childActions[x] : policyOf[c] # p
  BY <1>1 DEF ChildActions, ChildOK
<1>3. g.policies \subseteq Policy /\ IsFiniteSet(Children(p))
  BY GraphFacts DEF CompilerTypeOK
<1>4. AllChildren(p)
  <2>1. CASE childActions[p] = {}
    <3>1. Children(p) = {}
      BY <1>1, <2>1 DEF Queued, Leaves, Children
    <3> QED
      BY <3>1 DEF AllChildren
  <2>2. CASE childActions[p] # {}
    <3> DEFINE C == childActions[p]
               f == [c \in C |-> policyOf[c]]
    <3>1. \A c \in C : policyOf[c] \in Children(p)
      BY <1>1, <1>3 DEF ChildActions, ChildOK, Parents, Children
    <3>2. \A c, d \in C : policyOf[c] = policyOf[d] => c = d
      BY <1>1, <1>3 DEF ChildActions, ChildOK
    <3>3. f \in Injection(C, Children(p))
      BY <3>1, <3>2 DEF Injection, IsInjective
    <3> HIDE DEF C, f
    <3>4. /\ IsFiniteSet(C) /\ Cardinality(C) <= Cardinality(Children(p))
          /\ Cardinality(C) = Cardinality(Children(p)) =>
               f \in Surjection(C, Children(p))
      BY <1>3, <3>3, FS_Injection
    <3>5. Cardinality(C) \in Nat /\ Cardinality(Children(p)) \in Nat
      BY <1>3, <3>4, FS_CardinalityType
    <3>6. ~ (Cardinality(Children(p)) > Cardinality(C))
      BY <2>2 DEF Waits, C
    <3>7. f \in Surjection(C, Children(p))
      BY <3>4, <3>5, <3>6
    <3>8. \A q \in Children(p) : \E c \in C : f[c] = q
      BY <3>7 DEF Surjection
    <3> QED
      BY <3>8 DEF AllChildren, C, f
  <2> QED
    BY <2>1, <2>2
<1>5. \A r \in Parents(p) : r \in Policy /\ p \in Children(r)
  BY <1>3 DEF Parents, Children
<1>6. \A r \in Parents(p) : ~ AllChildren(r)
  BY <1>2, <1>5 DEF AllChildren
<1> QED
  BY <1>2, <1>4, <1>6

\* Dependencies of a new action are older than it.
LEMMA NewOrdered ==
  ASSUME CompilerTypeOK, Ordered, NEW a, NEW p, NewAction(a, p)
  PROVE  Ordered'
<1>1. /\ a \in Actions /\ p \in Policy /\ Created' = Created \cup {a}
      /\ \A b \in Created : b < a
      /\ deps'[a] = childActions[p]
      /\ \A b \in Actions : b # a => deps'[b] = deps[b]
  BY NewFacts
<1>2. childActions[p] \subseteq Created
  BY <1>1 DEF CompilerTypeOK
<1>3. Actions' = Actions
  BY DEF Actions
<1> QED
  BY <1>1, <1>2, <1>3 DEF Ordered

\* A policy that has to wait is queued again: nothing else is different.
LEMMA RequeueShape ==
  ASSUME CInv, Requeue
  PROVE  Shape'
<1> USE DEF CInv
<1>1. PICK a \in Actions, p \in Policy :
        NewAction(a, p) /\ queue' = Append(Tail(queue), p)
  BY DEF Requeue
<1>2. /\ intent' = intent /\ round' = round /\ pc' = pc
      /\ childActions' = childActions /\ rootActions' = rootActions
  BY DEF Requeue
<1>3. /\ pc = "loop" /\ a \in Actions /\ a \notin Created
      /\ p \in g.policies /\ p \in Policy /\ Contains(queue, p)
      /\ \A x : Contains(queue, x) <=> x = p \/ Contains(Tail(queue), x)
      /\ ~ Contains(Tail(queue), p)
      /\ Tail(queue) \in Seq(g.policies) /\ IsInjective(Tail(queue))
      /\ Created' = Created \cup {a}
      /\ policyOf'[a] = p
      /\ \A b \in Actions : b # a => policyOf'[b] = policyOf[b]
      /\ deps'[a] = childActions[p]
      /\ \A b \in Actions : b # a => deps'[b] = deps[b]
  BY <1>1, NewFacts
<1>4. ChildActions /\ Queued /\ LeftBehind /\ Ordered
  BY <1>3 DEF Shape
<1>5. \A x : Contains(queue', x) <=> Contains(queue, x)
  BY <1>1, <1>3, Appending
<1>6. \A x \in Policy : childActions[x] \subseteq Created
  BY DEF CompilerTypeOK
<1>7. /\ \A b \in Created : /\ b \in Actions /\ b # a
                            /\ policyOf'[b] = policyOf[b]
                            /\ deps'[b] = deps[b]
  BY <1>3 DEF Created
<1>8. g' = g /\ Leaves' = Leaves
      /\ \A x : Children(x)' = Children(x) /\ Parents(x)' = Parents(x)
  BY <1>2, GraphKept
<1>9. g.policies \subseteq Policy
  BY GraphFacts DEF CompilerTypeOK
<1>10. \A x \in Policy : AllChildren(x) => AllChildren(x)'
  BY <1>2, <1>6, <1>7, <1>8 DEF AllChildren
<1>11. ChildActions'
  <2> SUFFICES ASSUME NEW x \in Policy, NEW c \in childActions[x],
                      NEW q, q = policyOf'[c]
               PROVE  ChildOK(x, c, q)'
    BY <1>2 DEF ChildActions, ChildOK, AllChildren, Children, Parents
  <2>1. c \in Created /\ policyOf[c] = q /\ deps'[c] = deps[c]
    BY <1>6, <1>7
  <2>2. ChildOK(x, c, q)
    BY <1>4, <2>1 DEF ChildActions
  <2>3. \A y \in Parents(q) : y \in Policy
    BY <1>9 DEF Parents
  <2>4. \A y \in Parents(q) : \A d \in childActions[y] :
           policyOf'[d] = policyOf[d]
    BY <1>6, <1>7, <2>3
  <2>5. AllChildren(q)'
    BY <1>9, <1>10, <2>2 DEF ChildOK
  <2> QED
    BY <1>2, <1>5, <1>8, <2>1, <2>2, <2>4, <2>5 DEF ChildOK
<1>12. Queued'
  <2>1. ASSUME NEW x \in g.policies, Finished(x) PROVE Finished(x)'
    BY <1>2, <1>3, <1>6, <1>7, <1>9, <2>1, FinishedStays
  <2>2. queue' # <<>>
    BY <1>3, <1>5 DEF Contains
  <2> QED
    BY <1>2, <1>4, <1>5, <1>8, <2>1, <2>2 DEF Queued
<1>13. LeftBehind'
  <2>1. ASSUME NEW b \in Created', NEW d \in deps'[b]
        PROVE  \/ \E u \in Created' : d \in deps'[u] /\ (Kept(u)' \/ Recorded(u)')
               \/ \E x \in Policy : Contains(queue', x) /\ d \in childActions'[x]
    <3>1. CASE b = a
      BY <1>2, <1>3, <1>5, <2>1, <3>1
    <3>2. CASE b # a
      <4>1. b \in Created /\ d \in deps[b]
        BY <1>3, <1>7, <2>1, <3>2
      <4>2. \A u \in Created : Kept(u) \/ Recorded(u) => Kept(u)' \/ Recorded(u)'
        BY <1>2, <1>3, <1>7 DEF Kept, Recorded
      <4>3. CASE \E u \in Created : d \in deps[u] /\ (Kept(u) \/ Recorded(u))
        BY <1>3, <1>7, <4>2, <4>3
      <4>4. CASE \E x \in Policy : Contains(queue, x) /\ d \in childActions[x]
        BY <1>2, <1>5, <4>4
      <4> QED
        BY <1>4, <4>1, <4>3, <4>4 DEF LeftBehind
    <3> QED
      BY <3>1, <3>2
  <2> QED
    BY <2>1 DEF LeftBehind
<1>14. Ordered'
  BY <1>1, <1>4, NewOrdered
<1> QED
  BY <1>2, <1>3, <1>11, <1>12, <1>13, <1>14 DEF Shape

\* A policy that is compiled is recorded for its parents, or is a root.
LEMMA CompileShape ==
  ASSUME CInv, Compile
  PROVE  Shape'
<1> USE DEF CInv
<1>1. PICK a \in Actions, p \in Policy :
        /\ NewAction(a, p)
        /\ ~ Waits(p)
        /\ childActions' = [x \in Policy |->
                              childActions[x] \cup
                                (IF x \in Parents(p) THEN {a} ELSE {})]
        /\ Enqueued(Tail(queue), Parents(p))
        /\ rootActions' = rootActions \cup
                            (IF Parents(p) = {} THEN {a} ELSE {})
  BY DEF Compile
<1>2. intent' = intent /\ round' = round /\ pc' = pc
  BY DEF Compile
<1>3. /\ pc = "loop" /\ a \in Actions /\ a \notin Created
      /\ p \in g.policies /\ p \in Policy /\ Contains(queue, p)
      /\ \A x : Contains(queue, x) <=> x = p \/ Contains(Tail(queue), x)
      /\ ~ Contains(Tail(queue), p)
      /\ Tail(queue) \in Seq(g.policies) /\ IsInjective(Tail(queue))
      /\ Created' = Created \cup {a}
      /\ policyOf'[a] = p
      /\ \A b \in Actions : b # a => policyOf'[b] = policyOf[b]
      /\ deps'[a] = childActions[p]
      /\ \A b \in Actions : b # a => deps'[b] = deps[b]
  BY <1>1, NewFacts
<1>4. ChildActions /\ Queued /\ LeftBehind /\ Ordered
  BY <1>3 DEF Shape
<1>5. /\ queue' \in Seq(g.policies)
      /\ \A x : Contains(queue', x) <=> Contains(Tail(queue), x) \/ x \in Parents(p)
  BY <1>1, <1>3, EnqueuedFacts
<1>6. \A x \in Policy : childActions[x] \subseteq Created
  BY DEF CompilerTypeOK
<1>7. \A b \in Created : /\ b \in Actions /\ b # a
                         /\ policyOf'[b] = policyOf[b]
                         /\ deps'[b] = deps[b]
  BY <1>3 DEF Created
<1>8. g' = g /\ Leaves' = Leaves
      /\ \A x : Children(x)' = Children(x) /\ Parents(x)' = Parents(x)
  BY <1>2, GraphKept
<1>9. g.policies \subseteq Policy /\ \A x : Parents(x) \subseteq g.policies
  BY GraphFacts DEF CompilerTypeOK
<1>10. /\ \A x \in Policy : \A c \in childActions[x] : policyOf[c] # p
       /\ AllChildren(p)
       /\ p \notin Parents(p)
       /\ \A r \in Parents(p) : ~ AllChildren(r)
  BY <1>1, <1>3, CompileFacts
<1>11. /\ \A x \in Policy : childActions[x] \subseteq childActions'[x]
       /\ \A x \in Parents(p) : childActions'[x] = childActions[x] \cup {a}
       /\ \A x \in Policy : x \notin Parents(p) => childActions'[x] = childActions[x]
       /\ rootActions \subseteq rootActions'
       /\ Parents(p) = {} => a \in rootActions'
  BY <1>1, <1>9
<1>12. \A x \in Policy : AllChildren(x) => AllChildren(x)'
  BY <1>6, <1>7, <1>8, <1>11 DEF AllChildren
<1>13. childActions'[p] = childActions[p]
  BY <1>3, <1>10, <1>11
<1>14. ChildActions'
  <2> SUFFICES ASSUME NEW x \in Policy, NEW c \in childActions'[x],
                      NEW q, q = policyOf'[c]
               PROVE  ChildOK(x, c, q)'
    BY DEF ChildActions, ChildOK, AllChildren, Children, Parents
  <2>1. CASE c = a
    <3>1. q = p /\ x \in Parents(p)
      BY <1>3, <1>6, <1>11, <2>1
    <3>2. ASSUME NEW y \in Parents(p)
          PROVE  /\ a \in childActions'[y]
                 /\ \A d \in childActions'[y] : policyOf'[d] = p => d = a
      <4>1. y \in Policy /\ childActions'[y] = childActions[y] \cup {a}
        BY <1>9, <1>11
      <4>2. \A d \in childActions[y] : policyOf'[d] # p
        BY <1>6, <1>7, <1>10, <4>1
      <4> QED
        BY <4>1, <4>2
    <3>3. AllChildren(p)' /\ deps'[a] = childActions'[p]
      BY <1>3, <1>10, <1>12, <1>13
    <3>4. ~ Contains(queue', p)
      BY <1>3, <1>5, <1>10
    <3> QED
      BY <1>3, <1>8, <2>1, <3>1, <3>2, <3>3, <3>4 DEF ChildOK
  <2>2. CASE c # a
    <3>1. c \in childActions[x] /\ c \in Created /\ policyOf[c] = q
      BY <1>6, <1>7, <1>11, <2>2
    <3>2. ChildOK(x, c, q) /\ q # p
      BY <1>4, <1>10, <3>1 DEF ChildActions
    <3>3. q \in g.policies /\ q \in Policy /\ q \notin Parents(p)
          /\ x \in Parents(q) /\ AllChildren(q)'
      BY <1>9, <1>10, <1>12, <3>2 DEF ChildOK
    <3>4. ASSUME NEW y \in Parents(q)
          PROVE  /\ c \in childActions'[y]
                 /\ \A d \in childActions'[y] : policyOf'[d] = q => d = c
      <4>1. /\ y \in Policy /\ c \in childActions[y]
            /\ \A d \in childActions[y] : policyOf[d] = q => d = c
        BY <1>9, <3>2 DEF ChildOK
      <4>2. \A d \in childActions'[y] : d = a \/ d \in childActions[y]
        BY <1>11, <4>1
      <4> QED
        BY <1>3, <1>6, <1>7, <1>11, <3>2, <4>1, <4>2
    <3>5. deps'[c] = childActions'[q]
      BY <1>7, <1>11, <3>1, <3>2, <3>3 DEF ChildOK
    <3>6. ~ Contains(queue', q)
      BY <1>3, <1>5, <3>2, <3>3 DEF ChildOK
    <3> QED
      BY <1>8, <3>3, <3>4, <3>5, <3>6 DEF ChildOK
  <2> QED
    BY <2>1, <2>2
<1>15. Queued'
  <2>1. ASSUME NEW x \in g.policies, childActions'[x] # {} \/ x \in Leaves
        PROVE  Contains(queue', x) \/ Finished(x)'
    <3>1. CASE x = p
      <4>1. \A y \in Parents(p) : a \in childActions'[y]
        BY <1>11
      <4> QED
        BY <1>3, <1>8, <1>10, <1>11, <1>12, <1>13, <3>1, <4>1 DEF Finished
    <3>2. CASE x \in Parents(p)
      BY <1>5, <3>2
    <3>3. CASE x # p /\ x \notin Parents(p)
      <4>1. x \in Policy /\ childActions'[x] = childActions[x]
        BY <1>9, <1>11, <3>3
      <4>2. Contains(queue, x) \/ Finished(x)
        BY <1>4, <2>1, <4>1 DEF Queued
      <4>3. Contains(queue, x) => Contains(queue', x)
        BY <1>3, <1>5, <3>3
      <4>4. \A y \in Parents(x) : childActions[y] \subseteq childActions'[y]
        BY <1>9, <1>11
      <4>5. Finished(x) => Finished(x)'
        BY <1>2, <1>3, <1>6, <1>7, <1>11, <4>1, <4>4, FinishedStays
      <4> QED
        BY <4>2, <4>3, <4>5
    <3> QED
      BY <3>1, <3>2, <3>3
  <2>2. ASSUME NEW x \in g.policies, Contains(queue', x), childActions'[x] = {}
        PROVE  x \in Leaves
    <3>1. x \in Policy /\ x \notin Parents(p) /\ childActions[x] = {}
      BY <1>9, <1>11, <2>2
    <3> QED
      BY <1>3, <1>4, <1>5, <2>2, <3>1 DEF Queued
  <2>3. ASSUME queue' = <<>> PROVE rootActions' # {}
    <3>1. \A x : ~ Contains(queue', x)
      BY <2>3 DEF Contains
    <3>2. Parents(p) = {}
      BY <1>5, <3>1
    <3> QED
      BY <1>11, <3>2
  <2> QED
    BY <1>8, <2>1, <2>2, <2>3 DEF Queued
<1>16. LeftBehind'
  <2>1. Kept(a)' \/ Recorded(a)'
    <3>1. CASE Parents(p) = {}
      BY <1>11, <3>1 DEF Kept
    <3>2. CASE Parents(p) # {}
      <4>1. PICK y \in Parents(p) : TRUE
        BY <3>2
      <4> QED
        BY <1>9, <1>11, <4>1 DEF Recorded
    <3> QED
      BY <3>1, <3>2
  <2>2. ASSUME NEW b \in Created', NEW d \in deps'[b]
        PROVE  \/ \E u \in Created' : d \in deps'[u] /\ (Kept(u)' \/ Recorded(u)')
               \/ \E x \in Policy : Contains(queue', x) /\ d \in childActions'[x]
    <3>1. d \in deps'[a] => \E u \in Created' : d \in deps'[u] /\ (Kept(u)' \/ Recorded(u)')
      BY <1>3, <2>1
    <3>2. CASE b # a
      <4>1. b \in Created /\ d \in deps[b]
        BY <1>3, <1>7, <2>2, <3>2
      <4>2. \A u \in Created : Kept(u) \/ Recorded(u) => Kept(u)' \/ Recorded(u)'
        BY <1>3, <1>7, <1>11 DEF Kept, Recorded
      <4>3. CASE \E u \in Created : d \in deps[u] /\ (Kept(u) \/ Recorded(u))
        BY <1>3, <1>7, <4>2, <4>3
      <4>4. CASE \E x \in Policy : Contains(queue, x) /\ d \in childActions[x]
        <5>1. PICK x \in Policy : Contains(queue, x) /\ d \in childActions[x]
          BY <4>4
        <5>2. CASE x = p
          BY <1>3, <3>1, <5>1, <5>2
        <5>3. CASE x # p
          BY <1>3, <1>5, <1>11, <5>1, <5>3
        <5> QED
          BY <5>2, <5>3
      <4> QED
        BY <1>4, <4>1, <4>3, <4>4 DEF LeftBehind
    <3> QED
      BY <2>2, <3>1, <3>2
  <2> QED
    BY <2>2 DEF LeftBehind
<1>17. Ordered'
  BY <1>1, <1>4, NewOrdered
<1> QED
  BY <1>2, <1>3, <1>14, <1>15, <1>16, <1>17 DEF Shape

\* A round starts with the leaves and with nothing recorded.
LEMMA EnqueueShape ==
  ASSUME CInv, Enqueue
  PROVE  Shape'
<1> USE DEF CInv
<1>1. /\ pc = "enqueue" /\ Sound /\ Ordered
      /\ childActions' = [p \in Policy |-> {}]
      /\ intent' = intent /\ round' = round
      /\ policyOf' = policyOf /\ deps' = deps /\ rootActions' = rootActions
  BY DEF Enqueue, Shape
<1>2. Created' = Created /\ Actions' = Actions
  BY <1>1 DEF Created, Actions
<1>3. Ordered'
  BY <1>1, <1>2 DEF Ordered
<1>4. \A u \in Created : Kept(u) => Kept(u)'
  BY <1>1, <1>2 DEF Kept
<1>5. CASE Leaves = {}
  <2>1. pc' = "error"
    BY <1>5 DEF Enqueue
  <2> QED
    BY <1>3, <2>1 DEF Shape
<1>6. CASE Leaves # {}
  <2>1. pc' = "loop" /\ queue' \in SetToSeqs(Leaves)
    BY <1>6 DEF Enqueue
  <2>2. IsFiniteSet(Leaves) /\ g.policies \subseteq Policy
    BY GraphFacts DEF CompilerTypeOK
  <2>3. \A x : Contains(queue', x) <=> x \in Leaves
    BY <2>1, <2>2, Orders
  <2>4. queue' # <<>>
    BY <1>6, <2>3 DEF Contains
  <2>5. g' = g /\ Leaves' = Leaves
    BY <1>1, GraphKept
  <2>6. Queued'
    BY <1>1, <2>2, <2>3, <2>4, <2>5 DEF Queued
  <2>7. ChildActions'
    BY <1>1 DEF ChildActions
  <2>8. LeftBehind'
    BY <1>1, <1>2, <1>4 DEF LeftBehind, Sound
  <2> QED
    BY <1>3, <2>1, <2>6, <2>7, <2>8 DEF Shape
<1> QED
  BY <1>5, <1>6

\* When the queue is empty, whatever was recorded has been used.
LEMMA RecordedIsKept ==
  ASSUME CInv, pc = "loop", queue = <<>>, NEW u, Recorded(u)
  PROVE  Kept(u)
<1> USE DEF CInv
<1>1. ChildActions /\ Queued
  BY DEF Shape
<1>2. PICK x \in Policy : u \in childActions[x]
  BY DEF Recorded
<1>3. x \in g.policies
  BY <1>1, <1>2 DEF ChildActions, ChildOK, Parents
<1>4. ~ Contains(queue, x)
  BY DEF Contains
<1>5. Finished(x)
  BY <1>1, <1>2, <1>3, <1>4 DEF Queued
<1> QED
  BY <1>2, <1>5 DEF Finished, Kept

\* A round ends with nothing left to wait for.
LEMMA EndOfRoundShape ==
  ASSUME CInv, EndOfRound
  PROVE  Shape'
<1> USE DEF CInv
<1>1. /\ pc = "loop" /\ queue = <<>> /\ pc' \in {"enqueue", "done"}
      /\ policyOf' = policyOf /\ deps' = deps /\ rootActions' = rootActions
  BY DEF EndOfRound
<1>2. Queued /\ LeftBehind /\ Ordered
  BY <1>1 DEF Shape
<1>3. Created' = Created /\ Actions' = Actions
  BY <1>1 DEF Created, Actions
<1>4. Ordered'
  BY <1>1, <1>2, <1>3 DEF Ordered
<1>5. \A x : ~ Contains(queue, x)
  BY <1>1 DEF Contains
<1>6. Sound
  BY <1>1, <1>2, <1>5, RecordedIsKept DEF LeftBehind, Sound
<1>7. Sound'
  BY <1>1, <1>3, <1>6 DEF Sound, Kept
<1>8. rootActions' # {}
  BY <1>1, <1>2 DEF Queued
<1> QED
  BY <1>1, <1>4, <1>7, <1>8 DEF Shape

\* The shape is kept by every step.
LEMMA NextCInv == CInv /\ [Next]_vars => CInv'
<1> SUFFICES ASSUME CInv, [Next]_vars PROVE CInv'
  OBVIOUS
<1>1. CompilerTypeOK'
  BY NextTypes DEF CInv
<1>2. ASSUME CreateFails PROVE Shape'
  <2>1. pc' = "error" /\ policyOf' = policyOf /\ deps' = deps
    BY <1>2 DEF CreateFails
  <2>2. Ordered'
    BY <2>1 DEF CInv, Shape, Ordered, Created, Actions
  <2> QED
    BY <2>1, <2>2 DEF Shape
<1>3. ASSUME UNCHANGED vars PROVE Shape'
  <2>1. /\ intent' = intent /\ round' = round /\ pc' = pc /\ queue' = queue
        /\ childActions' = childActions /\ policyOf' = policyOf
        /\ deps' = deps /\ rootActions' = rootActions
    BY <1>3 DEF vars
  <2>2. /\ g' = g /\ Leaves' = Leaves /\ Created' = Created /\ Actions' = Actions
        /\ \A x : Children(x)' = Children(x) /\ Parents(x)' = Parents(x)
    BY <2>1, GraphKept DEF Created, Actions
  <2>3. /\ \A x : Kept(x) => Kept(x)'
        /\ \A x : Recorded(x) => Recorded(x)'
        /\ \A x : AllChildren(x) => AllChildren(x)'
    BY <2>1, <2>2 DEF Kept, Recorded, AllChildren
  <2>4. \A x : Finished(x) => Finished(x)'
    BY <2>1, <2>2, <2>3 DEF Finished
  <2>5. \A x, c, q : ChildOK(x, c, q) => ChildOK(x, c, q)'
    BY <2>1, <2>2, <2>3 DEF ChildOK
  <2>6. Ordered => Ordered'
    BY <2>1, <2>2 DEF Ordered
  <2>7. ChildActions => ChildActions'
    BY <2>1, <2>5 DEF ChildActions
  <2>8. Queued => Queued'
    BY <2>1, <2>2, <2>4 DEF Queued
  <2>9. (LeftBehind => LeftBehind') /\ (Sound => Sound')
    BY <2>1, <2>2, <2>3 DEF LeftBehind, Sound
  <2> QED
    BY <2>1, <2>6, <2>7, <2>8, <2>9 DEF CInv, Shape
<1>4. Shape'
  <2>1. Enqueue \/ Requeue \/ Compile \/ CreateFails \/ EndOfRound \/ UNCHANGED vars
    BY DEF Next
  <2> QED
    BY <1>2, <1>3, <2>1, EnqueueShape, RequeueShape, CompileShape, EndOfRoundShape
<1> QED
  BY <1>1, <1>4 DEF CInv

\* Throughout compilation: dependencies are older than what depends on them;
\* what is recorded for a parent is the one action of a compiled child, known
\* to all its parents; a policy something was recorded for is queued or
\* compiled; and what was left behind by a policy that had to wait depends
\* only on actions that are used by others.
THEOREM CompilerInvariant == Spec => []CInv
  BY InitCInv, NextCInv, PTL DEF Spec

-----------------------------------------------------------------------------
(***************************************************************************)
(* What is reachable from the root actions.                                *)
(***************************************************************************)

\* A set of numbers has a least one.
LEMMA Minimum ==
  ASSUME NEW T \in SUBSET Nat, T # {}
  PROVE  \E x \in T : \A y \in T : x <= y
<1> DEFINE R == {ss \in Nat \X Nat : ss[1] < ss[2]}
<1>1. R = OpToRel(<, Nat)
  BY DEF OpToRel
<1>2. IsWellFoundedOn(R, Nat)
  BY <1>1, NatLessThanWellFounded
<1>3. \A x, y \in Nat : y < x => <<y, x>> \in R
  OBVIOUS
<1> HIDE DEF R
<1>4. PICK x \in T : \A y \in T : ~ (<<y, x>> \in R)
  BY <1>2, WFMin
<1>5. \A y \in T : y \in Nat /\ x \in Nat /\ ~ (y < x)
  BY <1>3, <1>4
<1> QED
  BY <1>5

\* A set of numbers up to n has a greatest one.
LEMMA Maximum ==
  ASSUME NEW n \in Nat, NEW T \in SUBSET (1..n), T # {}
  PROVE  \E x \in T : \A y \in T : y <= x
<1> DEFINE M == {n - x : x \in T}
<1>1. M \in SUBSET Nat /\ M # {}
  <2>1. \A x \in T : n - x \in Nat
    OBVIOUS
  <2>2. PICK x \in T : TRUE
    OBVIOUS
  <2>3. n - x \in M
    OBVIOUS
  <2> QED
    BY <2>1, <2>3
<1>2. PICK m \in M : \A k \in M : m <= k
  BY <1>1, Minimum
<1>3. PICK x \in T : m = n - x
  OBVIOUS
<1>4. ASSUME NEW y \in T PROVE y <= x
  <2>1. n - y \in M
    OBVIOUS
  <2> QED
    BY <1>2, <1>3, <2>1
<1> QED
  BY <1>4

\* Between two rounds and at the end, exactly the actions that are used are
\* reachable: the others are what was left behind.
LEMMA LiveIsKept ==
  ASSUME CompilerTypeOK, Ordered, Sound
  PROVE  Live = {a \in Created : Kept(a)}
<1> USE DEF CompilerTypeOK
<1> DEFINE F(h) == [a \in Actions |->
                      \/ a \in rootActions
                      \/ \E u \in (a + 1)..MaxActions : a \in deps[u] /\ h[u]]
           K == [a \in Actions |-> Kept(a)]
           f == CHOOSE h : h = F(h)
<1>1. MaxActions \in Nat /\ Actions = 1..MaxActions /\ Created \subseteq Actions
  BY CompilerAssumption DEF Actions, Created
<1>2. ASSUME NEW a \in Actions
      PROVE  Kept(a) <=> \/ a \in rootActions
                         \/ \E u \in (a + 1)..MaxActions : a \in deps[u] /\ Kept(u)
  <2>1. ASSUME NEW u \in Created, a \in deps[u]
        PROVE  \E v \in (a + 1)..MaxActions : a \in deps[v] /\ Kept(v)
    <3>1. PICK v \in Created : a \in deps[v] /\ Kept(v)
      BY <2>1 DEF Sound
    <3>2. v \in (a + 1)..MaxActions
      BY <1>1, <3>1 DEF Ordered
    <3> QED
      BY <3>1, <3>2
  <2>2. ASSUME NEW u \in (a + 1)..MaxActions, a \in deps[u]
        PROVE  Kept(a)
    <3>1. u \in Actions
      BY <1>1
    <3>2. u \in Created
      BY <2>2, <3>1 DEF Ordered
    <3> QED
      BY <2>2, <3>2 DEF Kept
  <2> QED
    BY <2>1, <2>2 DEF Kept
<1>3. K = F(K)
  <2>1. \A a \in Actions : \A u \in (a + 1)..MaxActions : K[u] = Kept(u)
    BY <1>1
  <2>2. ASSUME NEW a \in Actions
        PROVE  Kept(a) = \/ a \in rootActions
                         \/ \E u \in (a + 1)..MaxActions : a \in deps[u] /\ K[u]
    <3> HIDE DEF K
    <3>1. Kept(a) <=> \/ a \in rootActions
                      \/ \E u \in (a + 1)..MaxActions : a \in deps[u] /\ K[u]
      BY <1>2, <2>1
    <3> QED
      BY <3>1 DEF Kept
  <2> QED
    BY <2>2
<1>4. f = F(f)
  BY <1>3
<1> HIDE DEF f
<1>5. \A a \in Actions :
        f[a] <=> \/ a \in rootActions
                 \/ \E u \in (a + 1)..MaxActions : a \in deps[u] /\ f[u]
  BY <1>4
<1>6. \A a \in Actions : f[a] <=> Kept(a)
  <2> DEFINE T == {a \in Actions : ~ (f[a] <=> Kept(a))}
  <2> SUFFICES ASSUME T # {} PROVE FALSE
    OBVIOUS
  <2>1. PICK a \in T : \A b \in T : b <= a
    BY <1>1, Maximum
  <2>2. \A u \in (a + 1)..MaxActions : u \in Actions /\ u \notin T
    BY <1>1, <2>1
  <2>3. \A u \in (a + 1)..MaxActions : f[u] <=> Kept(u)
    BY <2>2
  <2>4. a \in Actions
    OBVIOUS
  <2>5. f[a] <=> Kept(a)
    BY <1>2, <1>5, <2>3, <2>4
  <2> QED
    BY <2>5
<1>7. Live = {a \in Created : f[a]}
  BY DEF Live, f
<1> QED
  BY <1>1, <1>6, <1>7

\* What the invariant says of the end.
LEMMA FinalPlan == CInv => ResultIsPlan
<1> SUFFICES ASSUME CInv, pc = "done"
             PROVE  Engine!PlanOK([deps |-> deps, live |-> Live])
  BY DEF ResultIsPlan
<1>1. CompilerTypeOK /\ Ordered /\ Sound /\ rootActions # {}
  BY DEF CInv, Shape
<1>2. Live = {a \in Created : Kept(a)}
  BY <1>1, LiveIsKept
<1>3. /\ deps \in [Actions -> SUBSET Created] /\ rootActions \subseteq Created
      /\ Created \subseteq Actions /\ Actions \subseteq Nat
  BY <1>1, CompilerAssumption DEF CompilerTypeOK, Created, Actions
<1>4. deps \in [Actions -> SUBSET Actions] /\ Live \in SUBSET Actions
  BY <1>2, <1>3
<1>5. Live # {}
  BY <1>1, <1>2, <1>3 DEF Kept
<1>6. \A a \in Actions : \A d \in deps[a] : a \in Created /\ d \in Created
  BY <1>1, <1>3 DEF Ordered
<1>7. \A a \in Actions : deps[a] \subseteq Live
  BY <1>2, <1>6 DEF Kept
<1>8. ASSUME NEW a \in Live, NEW u \in Actions, a \in deps[u]
      PROVE  \E v \in Live : a \in deps[v]
  BY <1>1, <1>2, <1>6, <1>8 DEF Sound
<1>9. ASSUME NEW S \in SUBSET Live, S # {}
      PROVE  \E a \in S : deps[a] \cap S = {}
  <2>1. S \in SUBSET Nat
    BY <1>3, <1>4
  <2>2. PICK a \in S : \A b \in S : a <= b
    BY <1>9, <2>1, Minimum
  <2>3. \A d \in deps[a] : d < a /\ d \in Nat /\ a \in Nat
    BY <1>1, <1>3, <1>4, <2>1 DEF Ordered
  <2> QED
    BY <2>2, <2>3
<1> QED
  BY <1>4, <1>5, <1>7, <1>8, <1>9 DEF Engine!PlanOK

\* The workflow compile leaves behind is a plan the engine can execute,
\* whatever the intent (its graphs may have cycles above the leaves, or share
\* policies) and in whatever order the queue is filled.  Module Workflow
\* assumes just that of its plans: what is proved of the engine holds of every
\* workflow the compiler builds.
THEOREM ResultIsAlwaysPlan == Spec => []ResultIsPlan
  BY CompilerInvariant, FinalPlan, PTL

-----------------------------------------------------------------------------
(***************************************************************************)
(* The workflow is the policy graph.                                       *)
(***************************************************************************)

\* Graphs without a cycle, and without a policy in common.
Clean == Disjoint /\ \A k \in 1..Len(intent) : WellFormed(intent[k])

\* One action that is used for each policy of graph k, depending on one
\* action for each child.
Mirrored(k) ==
  \A p \in intent[k].policies :
    \E a \in Created :
      /\ Kept(a) /\ policyOf[a] = p
      /\ \A b \in Created : Kept(b) /\ policyOf[b] = p => b = a
      /\ {policyOf[d] : d \in deps[a]}
           = intent[k].dependOn[p] \cap intent[k].policies
      /\ \A d, e \in deps[a] : policyOf[d] = policyOf[e] => d = e

\* Every action is for a policy of one of the first n graphs.
OfRounds(n) ==
  \A b \in Created : \E k \in 1..n : policyOf[b] \in intent[k].policies

\* In this round nothing but what was recorded is depended on.
DepsRecorded ==
  \A u \in Created : \A d \in deps[u] : policyOf[d] \in g.policies => Recorded(d)

\* A root action of this round is the only one of its policy, which was
\* compiled with all its children and is not queued again.
Roots ==
  \A b \in rootActions : policyOf[b] \in g.policies =>
    /\ Parents(policyOf[b]) = {} /\ AllChildren(policyOf[b])
    /\ deps[b] = childActions[policyOf[b]]
    /\ ~ Contains(queue, policyOf[b])
    /\ \A e \in rootActions : policyOf[e] = policyOf[b] => e = b

Mirror ==
  /\ \A k \in 1..(round - 1) : Mirrored(k)
  /\ pc = "enqueue" => OfRounds(round - 1)
  /\ pc = "loop" => OfRounds(round) /\ DepsRecorded /\ Roots
  /\ pc = "done" => \A k \in 1..Len(intent) : Mirrored(k)

MInv == CInv /\ (Clean => Mirror)

\* Before anything is compiled there is nothing to be said.
LEMMA InitMInv == Init => MInv
<1> SUFFICES ASSUME Init PROVE MInv
  OBVIOUS
<1>1. CInv
  BY InitCInv
<1>2. Created = {} /\ pc = "enqueue" /\ round = 1
  BY DEF Init, Created
<1> QED
  BY <1>1, <1>2 DEF MInv, Mirror, OfRounds

\* The policies of one graph are not those of another.
LEMMA OtherGraph ==
  ASSUME CompilerTypeOK, Clean, NEW k \in 1..(round - 1), NEW q \in intent[k].policies
  PROVE  q \notin g.policies
<1>1. Len(intent) \in 1..2 /\ round \in 1..Len(intent)
  BY CompilerAssumption DEF CompilerTypeOK
<1>2. k \in 1..Len(intent) /\ k # round
  BY <1>1
<1> QED
  BY <1>1, <1>2 DEF Clean, Disjoint, g

\* A new action disturbs nothing in the graphs compiled before: the actions
\* it depends on are of this round.
LEMMA NewMirrored ==
  ASSUME CInv, Clean, NEW a, NEW p, NewAction(a, p), intent' = intent,
         rootActions \subseteq rootActions', rootActions' \subseteq rootActions \cup {a},
         NEW k \in 1..(round - 1), Mirrored(k)
  PROVE  Mirrored(k)'
<1> SUFFICES ASSUME NEW q \in intent[k].policies
             PROVE  \E b \in Created' :
                      /\ Kept(b)' /\ policyOf'[b] = q
                      /\ \A e \in Created' : Kept(e)' /\ policyOf'[e] = q => e = b
                      /\ {policyOf'[d] : d \in deps'[b]}
                           = intent[k].dependOn[q] \cap intent[k].policies
                      /\ \A d, e \in deps'[b] : policyOf'[d] = policyOf'[e] => d = e
  BY DEF Mirrored
<1>1. /\ pc = "loop" /\ a \notin Created
      /\ p \in g.policies /\ p \in Policy /\ Created' = Created \cup {a}
      /\ policyOf'[a] = p
      /\ \A b \in Actions : b # a => policyOf'[b] = policyOf[b]
      /\ deps'[a] = childActions[p]
      /\ \A b \in Actions : b # a => deps'[b] = deps[b]
  BY NewFacts DEF CInv
<1>2. \A b \in Created : /\ b # a /\ b \in Actions
                         /\ policyOf'[b] = policyOf[b] /\ deps'[b] = deps[b]
                         /\ deps[b] \subseteq Created
  BY <1>1 DEF CInv, CompilerTypeOK, Created
<1>3. q \notin g.policies
  BY OtherGraph DEF CInv
<1>4. PICK b \in Created :
        /\ Kept(b) /\ policyOf[b] = q
        /\ \A e \in Created : Kept(e) /\ policyOf[e] = q => e = b
        /\ {policyOf[d] : d \in deps[b]}
             = intent[k].dependOn[q] \cap intent[k].policies
        /\ \A d, e \in deps[b] : policyOf[d] = policyOf[e] => d = e
  BY DEF Mirrored
<1>5. b \in Created' /\ Kept(b)' /\ policyOf'[b] = q
  BY <1>1, <1>2, <1>4 DEF Kept
<1>6. ASSUME NEW e \in Created', Kept(e)', policyOf'[e] = q
      PROVE  e = b
  <2>1. e \in Created /\ policyOf[e] = q
    BY <1>1, <1>2, <1>3, <1>6
  <2>2. e \notin childActions[p]
    BY <1>1, <1>3, <2>1 DEF CInv, Shape, ChildActions, ChildOK
  <2>3. Kept(e)
    BY <1>1, <1>2, <1>6, <2>1, <2>2 DEF Kept
  <2> QED
    BY <1>4, <2>1, <2>3
<1>7. /\ deps'[b] = deps[b]
      /\ \A d \in deps[b] : policyOf'[d] = policyOf[d]
  BY <1>2
<1>8. {policyOf'[d] : d \in deps'[b]} = {policyOf[d] : d \in deps[b]}
  BY <1>7
<1> QED
  BY <1>4, <1>5, <1>6, <1>7, <1>8

\* What holds of the actions of this round when one more is created for a
\* policy of the graph.
LEMMA NewOfRounds ==
  ASSUME CInv, OfRounds(round), NEW a, NEW p, NewAction(a, p),
         intent' = intent, round' = round
  PROVE  OfRounds(round)'
<1>1. /\ p \in g.policies /\ Created' = Created \cup {a} /\ a \notin Created
      /\ policyOf'[a] = p
      /\ \A b \in Actions : b # a => policyOf'[b] = policyOf[b]
  BY NewFacts DEF CInv
<1>2. round \in 1..round
  <2>1. round \in Nat /\ round >= 1
    BY CompilerAssumption DEF CInv, CompilerTypeOK
  <2> QED
    BY <2>1
<1>3. Created \subseteq Actions
  BY DEF Created
<1> QED
  BY <1>1, <1>2, <1>3 DEF OfRounds, g

LEMMA NewDepsRecorded ==
  ASSUME CInv, DepsRecorded, NEW a, NEW p, NewAction(a, p),
         intent' = intent, round' = round,
         \A x \in Policy : childActions[x] \subseteq childActions'[x]
  PROVE  DepsRecorded'
<1>1. /\ p \in Policy /\ Created' = Created \cup {a} /\ a \notin Created
      /\ \A b \in Actions : b # a => policyOf'[b] = policyOf[b]
      /\ deps'[a] = childActions[p]
      /\ \A b \in Actions : b # a => deps'[b] = deps[b]
  BY NewFacts DEF CInv
<1>2. /\ \A b \in Created : /\ b \in Actions /\ b # a
                            /\ policyOf'[b] = policyOf[b] /\ deps'[b] = deps[b]
                            /\ deps[b] \subseteq Created
      /\ g' = g
  BY <1>1, GraphKept DEF CInv, CompilerTypeOK, Created
<1>3. \A d : Recorded(d) => Recorded(d)'
  BY DEF Recorded
<1>4. ASSUME NEW u \in Created', NEW d \in deps'[u], policyOf'[d] \in g.policies
      PROVE  Recorded(d)'
  <2>1. CASE u = a
    BY <1>1, <1>3, <1>4, <2>1 DEF Recorded
  <2>2. CASE u # a
    <3>1. u \in Created /\ d \in deps[u]
      BY <1>1, <1>2, <1>4, <2>2
    <3>2. policyOf[d] \in g.policies
      BY <1>2, <1>4, <3>1
    <3> QED
      BY <1>3, <3>1, <3>2 DEF DepsRecorded
  <2> QED
    BY <2>1, <2>2
<1> QED
  BY <1>2, <1>4 DEF DepsRecorded

\* A policy that has to wait: its new action is neither a root nor recorded.
LEMMA RequeueMirror ==
  ASSUME CInv, Clean, Mirror, Requeue
  PROVE  Mirror'
<1>1. PICK a \in Actions, p \in Policy :
        NewAction(a, p) /\ queue' = Append(Tail(queue), p)
  BY DEF Requeue
<1>2. /\ intent' = intent /\ round' = round /\ pc' = pc
      /\ childActions' = childActions /\ rootActions' = rootActions
  BY DEF Requeue
<1>3. /\ pc = "loop" /\ a \notin Created
      /\ p \in g.policies /\ Contains(queue, p)
      /\ \A x : Contains(queue, x) <=> x = p \/ Contains(Tail(queue), x)
      /\ ~ Contains(Tail(queue), p)
      /\ Tail(queue) \in Seq(g.policies) /\ IsInjective(Tail(queue))
      /\ \A b \in Actions : b # a => policyOf'[b] = policyOf[b]
      /\ \A b \in Actions : b # a => deps'[b] = deps[b]
  BY <1>1, NewFacts DEF CInv
<1>4. OfRounds(round) /\ DepsRecorded /\ Roots
  BY <1>3 DEF Mirror
<1>5. \A k \in 1..(round' - 1) : Mirrored(k)'
  BY <1>1, <1>2, NewMirrored DEF Mirror
<1>6. OfRounds(round)'
  BY <1>1, <1>2, <1>4, NewOfRounds
<1>7. DepsRecorded'
  BY <1>1, <1>2, <1>4, NewDepsRecorded
<1>8. Roots'
  <2>1. g' = g /\ \A x : Children(x)' = Children(x) /\ Parents(x)' = Parents(x)
    BY <1>2, GraphKept
  <2>2. \A x : Contains(queue', x) <=> Contains(queue, x)
    <3>1. /\ p \in g.policies /\ Tail(queue) \in Seq(g.policies)
          /\ IsInjective(Tail(queue)) /\ ~ Contains(Tail(queue), p)
      BY <1>3
    <3>2. \A x : Contains(Append(Tail(queue), p), x) <=> Contains(Tail(queue), x) \/ x = p
      BY <3>1, Appending
    <3> QED
      BY <1>1, <1>3, <3>2
  <2>3. \A b \in Created : /\ b \in Actions /\ b # a
                           /\ policyOf'[b] = policyOf[b] /\ deps'[b] = deps[b]
    BY <1>3 DEF Created
  <2>4. /\ rootActions \subseteq Created
        /\ \A x \in Policy : childActions[x] \subseteq Created
        /\ g.policies \subseteq Policy
    BY GraphFacts DEF CInv, CompilerTypeOK
  <2>5. \A x \in Policy : AllChildren(x) => AllChildren(x)'
    BY <1>2, <2>1, <2>3, <2>4 DEF AllChildren
  <2>6. ASSUME NEW b \in rootActions, NEW q, q = policyOf'[b], q \in g.policies
        PROVE  /\ Parents(q) = {} /\ AllChildren(q)'
               /\ deps'[b] = childActions[q]
               /\ ~ Contains(queue', q)
               /\ \A e \in rootActions : policyOf'[e] = q => e = b
    <3>1. q = policyOf[b] /\ deps'[b] = deps[b]
      BY <2>3, <2>4, <2>6
    <3>2. /\ Parents(q) = {} /\ AllChildren(q) /\ deps[b] = childActions[q]
          /\ ~ Contains(queue, q)
          /\ \A e \in rootActions : policyOf[e] = q => e = b
      BY <1>4, <2>6, <3>1 DEF Roots
    <3>3. \A e \in rootActions : policyOf'[e] = policyOf[e]
      BY <2>3, <2>4
    <3> QED
      BY <2>2, <2>4, <2>5, <2>6, <3>1, <3>2, <3>3
  <2> QED
    BY <1>2, <2>1, <2>6 DEF Roots, AllChildren
<1> QED
  BY <1>2, <1>3, <1>5, <1>6, <1>7, <1>8 DEF Mirror

\* A policy that is compiled gets its one root action, or the one recorded
\* for its parents.
LEMMA CompileMirror ==
  ASSUME CInv, Clean, Mirror, Compile
  PROVE  Mirror'
<1>1. PICK a \in Actions, p \in Policy :
        /\ NewAction(a, p)
        /\ ~ Waits(p)
        /\ childActions' = [x \in Policy |->
                              childActions[x] \cup
                                (IF x \in Parents(p) THEN {a} ELSE {})]
        /\ Enqueued(Tail(queue), Parents(p))
        /\ rootActions' = rootActions \cup
                            (IF Parents(p) = {} THEN {a} ELSE {})
  BY DEF Compile
<1>2. intent' = intent /\ round' = round /\ pc' = pc
  BY DEF Compile
<1>3. /\ pc = "loop" /\ a \notin Created
      /\ p \in g.policies /\ Contains(queue, p)
      /\ \A x : Contains(queue, x) <=> x = p \/ Contains(Tail(queue), x)
      /\ ~ Contains(Tail(queue), p)
      /\ Tail(queue) \in Seq(g.policies) /\ IsInjective(Tail(queue))
      /\ policyOf'[a] = p /\ deps'[a] = childActions[p]
      /\ \A b \in Actions : b # a => policyOf'[b] = policyOf[b]
      /\ \A b \in Actions : b # a => deps'[b] = deps[b]
  BY <1>1, NewFacts DEF CInv
<1>4. OfRounds(round) /\ DepsRecorded /\ Roots
  BY <1>3 DEF Mirror
<1>5. /\ rootActions \subseteq rootActions'
      /\ rootActions' \subseteq rootActions \cup {a}
      /\ a \in rootActions' => a \in rootActions \/ Parents(p) = {}
      /\ \A x \in Policy : childActions[x] \subseteq childActions'[x]
      /\ \A x \in Policy : x \notin Parents(p) => childActions'[x] = childActions[x]
  BY <1>1
<1>6. \A k \in 1..(round' - 1) : Mirrored(k)'
  BY <1>1, <1>2, <1>5, NewMirrored DEF Mirror
<1>7. OfRounds(round)'
  BY <1>1, <1>2, <1>4, NewOfRounds
<1>8. DepsRecorded'
  BY <1>1, <1>2, <1>4, <1>5, NewDepsRecorded
<1>9. Roots'
  <2>1. g' = g /\ \A x : Children(x)' = Children(x) /\ Parents(x)' = Parents(x)
    BY <1>2, GraphKept
  <2>2. \A x : Contains(queue', x) <=> Contains(Tail(queue), x) \/ x \in Parents(p)
    BY <1>1, <1>3, EnqueuedFacts DEF CInv
  <2>3. \A b \in Created : /\ b \in Actions /\ b # a
                           /\ policyOf'[b] = policyOf[b] /\ deps'[b] = deps[b]
    BY <1>3 DEF Created
  <2>4. /\ rootActions \subseteq Created
        /\ \A x \in Policy : childActions[x] \subseteq Created
        /\ g.policies \subseteq Policy
    BY GraphFacts DEF CInv, CompilerTypeOK
  <2>5. \A x \in Policy : AllChildren(x) => AllChildren(x)'
    BY <1>5, <2>1, <2>3, <2>4 DEF AllChildren
  <2>6. /\ AllChildren(p) /\ p \notin Parents(p)
        /\ \A r \in Parents(p) : ~ AllChildren(r)
    BY <1>1, <1>3, CompileFacts
  <2>7. ASSUME NEW b \in rootActions', NEW q, q = policyOf'[b], q \in g.policies
        PROVE  /\ Parents(q) = {} /\ AllChildren(q)'
               /\ deps'[b] = childActions'[q]
               /\ ~ Contains(queue', q)
               /\ \A e \in rootActions' : policyOf'[e] = q => e = b
    <3>1. CASE b = a
      <4>1. q = p /\ Parents(p) = {}
        BY <1>3, <1>5, <2>4, <2>7, <3>1
      <4>2. \A e \in rootActions : policyOf'[e] # p
        BY <1>3, <1>4, <2>3, <2>4 DEF Roots
      <4>3. \A e \in rootActions' : policyOf'[e] = q => e = b
        BY <1>5, <3>1, <4>1, <4>2
      <4>4. deps'[b] = childActions'[q]
        BY <1>3, <1>5, <2>6, <3>1, <4>1
      <4> QED
        BY <1>3, <2>2, <2>5, <2>6, <4>1, <4>3, <4>4
    <3>2. CASE b # a
      <4>1. b \in rootActions /\ b \in Created /\ policyOf[b] = q /\ deps'[b] = deps[b]
        BY <1>5, <2>3, <2>4, <2>7, <3>2
      <4>2. /\ Parents(q) = {} /\ AllChildren(q) /\ deps[b] = childActions[q]
            /\ ~ Contains(queue, q)
            /\ \A e \in rootActions : policyOf[e] = q => e = b
        BY <1>4, <2>7, <4>1 DEF Roots
      <4>3. q # p /\ q \notin Parents(p) /\ q \in Policy
        BY <1>3, <2>4, <2>6, <2>7, <4>2
      <4>4. \A e \in rootActions' : policyOf'[e] = q => e = b
        BY <1>3, <1>5, <2>3, <2>4, <4>2, <4>3
      <4> QED
        BY <1>3, <1>5, <2>2, <2>5, <4>1, <4>2, <4>3, <4>4
    <3> QED
      BY <3>1, <3>2
  <2> QED
    BY <2>1, <2>7 DEF Roots, AllChildren
<1> QED
  BY <1>2, <1>3, <1>6, <1>7, <1>8, <1>9 DEF Mirror

\* A round begins without actions for its policies: no graph shares any with
\* those before.
LEMMA EnqueueMirror ==
  ASSUME CInv, Clean, Mirror, Enqueue
  PROVE  Mirror'
<1>1. /\ pc = "enqueue" /\ pc' \in {"loop", "error"}
      /\ intent' = intent /\ round' = round
      /\ policyOf' = policyOf /\ deps' = deps /\ rootActions' = rootActions
  BY DEF Enqueue
<1>2. Created' = Created /\ g' = g
  BY <1>1 DEF Created, Actions, g
<1>3. \A k : Mirrored(k) => Mirrored(k)'
  BY <1>1, <1>2 DEF Mirrored, Kept
<1>4. \A b \in Created : policyOf[b] \notin g.policies
  BY <1>1, OtherGraph DEF Mirror, OfRounds, CInv
<1>5. rootActions \subseteq Created /\ \A u \in Created : deps[u] \subseteq Created
  BY DEF CInv, CompilerTypeOK, Created
<1>6. OfRounds(round)'
  <2>1. \A k \in 1..(round - 1) : k \in 1..round
    BY CompilerAssumption DEF CInv, CompilerTypeOK
  <2> QED
    BY <1>1, <1>2, <2>1 DEF Mirror, OfRounds
<1>7. DepsRecorded' /\ Roots'
  BY <1>1, <1>2, <1>4, <1>5 DEF DepsRecorded, Roots
<1> QED
  BY <1>1, <1>3, <1>6, <1>7 DEF Mirror

\* When the queue is empty, every policy of a graph without cycles has been
\* compiled: one that has not, and depends on none such, is a leaf or has a
\* child action, and is queued.
LEMMA AllFinished ==
  ASSUME CInv, WellFormed(g), pc = "loop", queue = <<>>, NEW p \in g.policies
  PROVE  Finished(p)
<1> DEFINE S == {x \in g.policies : ~ Finished(x)}
<1> SUFFICES ASSUME S # {} PROVE FALSE
  OBVIOUS
<1>1. PICK x \in S : g.dependOn[x] \cap S = {}
  BY DEF WellFormed
<1>2. Queued /\ \A y : ~ Contains(queue, y)
  BY DEF CInv, Shape, Contains
<1>3. childActions[x] # {}
  <2>1. x \notin Leaves
    BY <1>2 DEF Queued
  <2>2. PICK c \in g.policies : c \in g.dependOn[x]
    BY <2>1 DEF WellFormed, Leaves
  <2>3. Finished(c)
    BY <1>1, <2>2
  <2>4. x \in Parents(c)
    BY <2>2 DEF Parents
  <2> QED
    BY <2>3, <2>4 DEF Finished
<1> QED
  BY <1>2, <1>3 DEF Queued

\* At the end of a round its graph is mirrored.
LEMMA RoundMirrored ==
  ASSUME CInv, Clean, Mirror, pc = "loop", queue = <<>>
  PROVE  Mirrored(round)
<1> SUFFICES ASSUME NEW p \in g.policies
             PROVE  \E a \in Created :
                      /\ Kept(a) /\ policyOf[a] = p
                      /\ \A b \in Created : Kept(b) /\ policyOf[b] = p => b = a
                      /\ {policyOf[d] : d \in deps[a]} = Children(p)
                      /\ \A d, e \in deps[a] : policyOf[d] = policyOf[e] => d = e
  BY DEF Mirrored, Children, g
<1>1. ChildActions /\ DepsRecorded /\ Roots
  BY DEF CInv, Shape, Mirror
<1>2. /\ g.policies \subseteq Policy /\ \A x : Parents(x) \subseteq g.policies
      /\ rootActions \subseteq Created
  BY GraphFacts DEF CInv, CompilerTypeOK
<1>3. WellFormed(g)
  BY DEF Clean, g, CInv, CompilerTypeOK
<1>4. PICK a \in Created :
        /\ policyOf[a] = p /\ deps[a] = childActions[p] /\ AllChildren(p)
        /\ Parents(p) = {} => a \in rootActions
        /\ \A y \in Parents(p) : a \in childActions[y]
  BY <1>3, AllFinished DEF Finished
<1>5. Kept(a)
  <2>1. CASE Parents(p) = {}
    BY <1>4, <2>1 DEF Kept
  <2>2. CASE Parents(p) # {}
    BY <1>2, <1>4, <2>2, RecordedIsKept DEF Recorded
  <2> QED
    BY <2>1, <2>2
<1>6. ASSUME NEW b \in Created, Kept(b), policyOf[b] = p
      PROVE  b = a
  <2>1. CASE b \in rootActions
    <3>1. Parents(p) = {} /\ a \in rootActions
      BY <1>1, <1>4, <1>6, <2>1 DEF Roots
    <3> QED
      BY <1>1, <1>4, <1>6, <2>1, <3>1 DEF Roots
  <2>2. CASE b \notin rootActions
    <3>1. Recorded(b)
      BY <1>1, <1>6, <2>2 DEF Kept, DepsRecorded
    <3>2. PICK x \in Policy : b \in childActions[x]
      BY <3>1 DEF Recorded
    <3>3. /\ x \in Parents(p)
          /\ \A d \in childActions[x] : policyOf[d] = p => d = b
      BY <1>1, <1>6, <3>2 DEF ChildActions, ChildOK
    <3> QED
      BY <1>4, <3>3
  <2> QED
    BY <2>1, <2>2
<1>7. \A d \in deps[a] :
        /\ policyOf[d] \in Children(p)
        /\ \A e \in deps[a] : policyOf[d] = policyOf[e] => d = e
  <2> SUFFICES ASSUME NEW d \in childActions[p]
               PROVE  /\ policyOf[d] \in Children(p)
                      /\ \A e \in childActions[p] : policyOf[e] = policyOf[d] => e = d
    BY <1>4
  <2>1. /\ policyOf[d] \in g.policies /\ p \in Parents(policyOf[d])
        /\ \A e \in childActions[p] : policyOf[e] = policyOf[d] => e = d
    BY <1>1, <1>2 DEF ChildActions, ChildOK
  <2> QED
    BY <2>1 DEF Parents, Children
<1>8. \A q \in Children(p) : \E d \in deps[a] : policyOf[d] = q
  BY <1>4 DEF AllChildren
<1>9. {policyOf[d] : d \in deps[a]} = Children(p)
  BY <1>7, <1>8
<1> QED
  BY <1>4, <1>5, <1>6, <1>7, <1>9

\* The graphs compiled so far stay mirrored from one round to the next.
LEMMA EndOfRoundMirror ==
  ASSUME CInv, Clean, Mirror, EndOfRound
  PROVE  Mirror'
<1>1. /\ pc = "loop" /\ queue = <<>> /\ pc' \in {"enqueue", "done"}
      /\ intent' = intent /\ policyOf' = policyOf /\ deps' = deps
      /\ rootActions' = rootActions
      /\ IF round < Len(intent)
           THEN round' = round + 1 /\ pc' = "enqueue"
           ELSE round' = round /\ pc' = "done"
  BY DEF EndOfRound
<1>2. Created' = Created
  BY <1>1 DEF Created, Actions
<1>3. \A k : Mirrored(k) => Mirrored(k)'
  BY <1>1, <1>2 DEF Mirrored, Kept
<1>4. Len(intent) \in 1..2 /\ round \in 1..Len(intent)
  BY CompilerAssumption DEF CInv, CompilerTypeOK
<1>5. Mirrored(round)
  BY <1>1, RoundMirrored
<1>6. \A k \in 1..round : Mirrored(k)'
  BY <1>3, <1>4, <1>5 DEF Mirror
<1>7. OfRounds(round)
  BY <1>1 DEF Mirror
<1>8. CASE round < Len(intent)
  <2>1. round' = round + 1 /\ pc' = "enqueue" /\ round' - 1 = round
    BY <1>1, <1>4, <1>8
  <2>2. OfRounds(round - 1)'
    BY <1>1, <1>2, <1>7, <2>1 DEF OfRounds
  <2> QED
    BY <1>6, <2>1, <2>2 DEF Mirror
<1>9. CASE ~ (round < Len(intent))
  <2>1. round' = round /\ pc' = "done" /\ round = Len(intent)
    BY <1>1, <1>4, <1>9
  <2> QED
    BY <1>1, <1>4, <1>6, <2>1 DEF Mirror
<1> QED
  BY <1>8, <1>9

\* It is kept by every step.
LEMMA NextMInv == MInv /\ [Next]_vars => MInv'
<1> SUFFICES ASSUME MInv, [Next]_vars PROVE MInv'
  OBVIOUS
<1>1. CInv /\ CInv'
  BY NextCInv DEF MInv
<1> SUFFICES ASSUME Clean' PROVE Mirror'
  BY <1>1 DEF MInv
<1>2. intent' = intent
  BY DEF Next, Enqueue, Requeue, Compile, CreateFails, EndOfRound, vars
<1>3. Clean /\ Mirror
  BY <1>2 DEF Clean, Disjoint, MInv
<1>4. ASSUME CreateFails PROVE Mirror'
  <2>1. /\ pc' = "error" /\ round' = round
        /\ policyOf' = policyOf /\ deps' = deps /\ rootActions' = rootActions
    BY <1>4 DEF CreateFails
  <2>2. Created' = Created
    BY <2>1 DEF Created, Actions
  <2>3. \A k : Mirrored(k) => Mirrored(k)'
    BY <1>2, <2>1, <2>2 DEF Mirrored, Kept
  <2> QED
    BY <1>3, <2>1, <2>3 DEF Mirror
<1>5. ASSUME UNCHANGED vars PROVE Mirror'
  <2>1. /\ round' = round /\ pc' = pc /\ queue' = queue
        /\ childActions' = childActions /\ policyOf' = policyOf
        /\ deps' = deps /\ rootActions' = rootActions
    BY <1>5 DEF vars
  <2>2. /\ g' = g /\ Created' = Created
        /\ \A x : Children(x)' = Children(x) /\ Parents(x)' = Parents(x)
    BY <1>2, <2>1, GraphKept DEF Created, Actions
  <2>3. /\ \A x : AllChildren(x) => AllChildren(x)'
        /\ \A x : Recorded(x) => Recorded(x)'
        /\ \A k : Mirrored(k) => Mirrored(k)'
    BY <1>2, <2>1, <2>2 DEF AllChildren, Recorded, Mirrored, Kept
  <2>4. \A n : OfRounds(n) => OfRounds(n)'
    BY <1>2, <2>1, <2>2 DEF OfRounds
  <2>5. (DepsRecorded => DepsRecorded') /\ (Roots => Roots')
    BY <2>1, <2>2, <2>3 DEF DepsRecorded, Roots
  <2> QED
    BY <1>2, <1>3, <2>1, <2>3, <2>4, <2>5 DEF Mirror
<1>6. Enqueue \/ Requeue \/ Compile \/ CreateFails \/ EndOfRound \/ UNCHANGED vars
  BY DEF Next
<1> QED
  BY <1>1, <1>3, <1>4, <1>5, <1>6,
     EnqueueMirror, RequeueMirror, CompileMirror, EndOfRoundMirror

\* What the invariant says of the end.
LEMMA FinalMirror == MInv => MirrorsPolicies
<1> SUFFICES ASSUME MInv, pc = "done", Clean,
                    NEW k \in 1..Len(intent), NEW p \in intent[k].policies
             PROVE  \E a \in Live :
                      /\ \A b \in Live : policyOf[b] = p => b = a
                      /\ policyOf[a] = p
                      /\ {policyOf[d] : d \in deps[a]}
                           = intent[k].dependOn[p] \cap intent[k].policies
                      /\ \A d, e \in deps[a] : policyOf[d] = policyOf[e] => d = e
  BY DEF MirrorsPolicies, Clean
<1>1. Live = {a \in Created : Kept(a)}
  BY LiveIsKept DEF MInv, CInv, Shape
<1>2. Mirrored(k)
  BY DEF MInv, Mirror
<1> QED
  BY <1>1, <1>2 DEF Mirrored

\* For every intent whose graphs have no cycles and share no policies, and in
\* whatever order the policies were queued: each policy has exactly one action
\* that will be executed, and that action depends on exactly one for each
\* child of the policy.
THEOREM MirrorsPoliciesAlways == Spec => []MirrorsPolicies
<1>1. Spec => []MInv
  BY InitMInv, NextMInv, PTL DEF Spec
<1> QED
  BY <1>1, FinalMirror, PTL
=============================================================================
