---------------------------- MODULE ActionSearch ----------------------------
(***************************************************************************)
(* The two recursive searches of ActionBase over the workflow's lists, as  *)
(* the code writes them, and the claim that what they return are members   *)
(* of the sets that module Workflow uses in their place (IdleLeaves,       *)
(* IndependentActions).                                                    *)
(***************************************************************************)
EXTENDS Workflow, FiniteSets

\* A workflow is a finite number of objects.
ASSUME SearchAssumption == IsFiniteSet(Action)

\* The orders the lists of the code may have: ord is that of all of them.
Orders == {ord \in [1..Cardinality(Action) -> Action] :
             \A i, j \in 1..Cardinality(Action) : i # j => ord[i] # ord[j]}

\* The first member of a list of which a loop over it finds something.
First(ord, S) ==
  LET hits == {i \in DOMAIN ord : ord[i] \in S}
  IN  IF hits = {} THEN NoAction
      ELSE ord[CHOOSE i \in hits : \A j \in hits : i <= j]

\* getIdleLeaf(): depth first, a dependency's leaf before the action itself.
GetIdleLeaf(ord) ==
  LET leaf[a \in plan.live] ==
        LET via == First(ord, {d \in plan.deps[a] : leaf[d] # NoAction})
            hasChildInPending ==
              \E d \in plan.deps[a] : state[d] \in {"IDLE", "PROCESSING"}
        IN  IF via # NoAction THEN leaf[via]
            ELSE IF state[a] = "IDLE" /\ ~ hasChildInPending THEN a
            ELSE NoAction
  IN  leaf

LookupIdleLeafAction(ord) ==
  LET via == First(ord, {r \in Roots : GetIdleLeaf(ord)[r] # NoAction})
  IN  IF via = NoAction THEN NoAction ELSE GetIdleLeaf(ord)[via]

\* getIndependentIdleLeaves(n): null when the action is n or has no
\* dependency but n.
NullList == {NoAction}
GetIndependentIdleLeaves(n) ==
  LET leaves[a \in plan.live] ==
        LET Adds(d) ==
              IF leaves[d] # NullList THEN leaves[d]
              ELSE IF /\ state[d] = "IDLE"
                      /\ \A e \in plan.deps[d] : state[e] = "MERGED"
                   THEN {d}
              ELSE {}
        IN  IF a = n \/ plan.deps[a] \subseteq {n} THEN NullList
            ELSE UNION {Adds(d) : d \in plan.deps[a] \ {n}}
  IN  leaves

LookupIndependentActions(n) ==
  {n} \cup ((UNION {GetIndependentIdleLeaves(n)[r] : r \in Roots}) \ NullList)

\* Whenever the worker looks for work (before its first batch and after each
\* pass over the Futures) the search returns an idle leaf if there is one
\* and null if not, and the actions added to the batch with it are those of
\* IndependentActions.
SearchAgrees ==
  (pc = "sweep" /\ sweep = {}) \/ (pc = "launch" /\ elapsed = 0) =>
    /\ \A ord \in Orders :
         LET leaf == LookupIdleLeafAction(ord)
         IN  IF IdleLeaves = {} THEN leaf = NoAction ELSE leaf \in IdleLeaves
    /\ \A n \in IdleLeaves :
         LookupIndependentActions(n) = IndependentActions(n)
=============================================================================
