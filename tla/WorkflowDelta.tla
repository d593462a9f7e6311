---------------------------- MODULE WorkflowDelta ----------------------------
(***************************************************************************)
(* The data of the workflow engine: what ActionBase.mergeResult does to    *)
(* the ServiceDelta objects that module Workflow's actions pass around.    *)
(*                                                                         *)
(* The deltas are Java objects, so they are modelled as references into a  *)
(* heap: an action whose input is null takes its child's result itself,    *)
(* not a copy of it, as its input.  A delta is abstracted to the set of    *)
(* actions whose computed statements it holds, for each of its two sides;  *)
(* a side that is null is not in the delta's domain.  The annotations that *)
(* mergeOntModel resolves on the way are left out.                         *)
(***************************************************************************)
EXTENDS Workflow

CONSTANTS
  Removers,    \* actions whose MCE may return a reduction and nothing else
  NoDelta      \* Java's null, for a delta

ASSUME DeltaAssumption ==
  /\ Removers \subseteq Action
  /\ NoDelta \notin {"in", "out"} \X Action

VARIABLES
  inputDelta,    \* reference to each action's inputDelta
  outputDelta,   \* reference to each action's outputDelta
  seen,          \* the copy of its input an MCE works on
  heap           \* the contents of each delta

dvars == <<inputDelta, outputDelta, seen, heap>>

Ref == {"in", "out"} \X Action
Side == {"add", "red"}
Contents == UNION {[S -> SUBSET Action] : S \in SUBSET Side}
Nothing == [s \in {} |-> {}]
Addition(A) == [s \in {"add"} |-> A]
Reduction(A) == [s \in {"red"} |-> A]

In(a) == <<"in", a>>
Out(a) == <<"out", a>>

\* A side is merged if both deltas have it; the child's is dropped if the
\* target has none.
Merge(child, target) ==
  [s \in DOMAIN target |->
     target[s] \cup (IF s \in DOMAIN child THEN child[s] ELSE {})]

\* Mutant of MergeResult: the latest result replaces the input.
MergeResultReplaces(a, us) ==
  /\ inputDelta' = [u \in Action |-> IF u \in us THEN Out(a)
                                     ELSE inputDelta[u]]
  /\ UNCHANGED heap

\* mergeResult of a's result, for every action of the set us: one without
\* input takes the result as its input, the others merge it into their
\* output if they have one, and into their input if not.
MergeResult(a, us) ==
  LET target(u) == IF outputDelta[u] # NoDelta THEN outputDelta[u]
                   ELSE inputDelta[u]
      targets == {target(u) : u \in {v \in us : inputDelta[v] # NoDelta}}
  IN  /\ inputDelta' = [u \in Action |->
                          IF u \in us /\ inputDelta[u] = NoDelta THEN Out(a)
                          ELSE inputDelta[u]]
      /\ heap' = [r \in Ref |-> IF r \in targets
                                THEN Merge(heap[Out(a)], heap[r])
                                ELSE heap[r]]

-----------------------------------------------------------------------------
\* The compiler gives leaf policies their part of the annotated model.
DInit ==
  /\ Init
  /\ inputDelta = [a \in Action |->
                     IF plan.deps[a] = {} THEN In(a) ELSE NoDelta]
  /\ outputDelta = [a \in Action |-> NoDelta]
  /\ seen = [a \in Action |-> Nothing]
  /\ heap = [r \in Ref |-> IF r[1] = "in" /\ plan.deps[r[2]] = {}
                           THEN Addition({}) ELSE Nothing]

\* Mutant of DCollect: a root's result is not merged into the first one's.
DCollectDropsRoot(a) ==
  /\ Collect(a)
  /\ outputDelta' = [outputDelta EXCEPT ![a] = Out(a)]
  /\ MergeResult(a, Uppers(a))
  /\ UNCHANGED seen

\* Mutant of DCollect: a root's result is merged into every other root.
DCollectAllRoots(a) ==
  /\ Collect(a)
  /\ outputDelta' = [outputDelta EXCEPT ![a] = Out(a)]
  /\ MergeResult(a, IF Uppers(a) # {} THEN Uppers(a) ELSE Roots \ {a})
  /\ UNCHANGED seen

\* The result becomes the action's output and is merged into its uppers or,
\* for a root, into the root that finished first.
DCollect(a) ==
  /\ Collect(a)
  /\ outputDelta' = [outputDelta EXCEPT ![a] = Out(a)]
  /\ MergeResult(a, IF Uppers(a) # {} THEN Uppers(a)
                    ELSE {mergedRoot} \ {NoAction})
  /\ UNCHANGED seen

\* The MCE clones the input it was handed, some time after it was started.
MceReads(a) ==
  /\ future[a] = "running" /\ seen[a] = Nothing
  /\ seen' = [seen EXCEPT ![a] = heap[inputDelta[a]]]
  /\ UNCHANGED vars /\ UNCHANGED <<inputDelta, outputDelta, heap>>

\* It returns the clone with what it computed added, or a delta that has
\* only a reduction; without the addition it works on, it throws.
DMceEnds(a) ==
  /\ MceEnds(a)
  /\ future'[a] = "done" => "add" \in DOMAIN seen[a]
  /\ IF future'[a] = "thrown"
       THEN heap' = heap
       ELSE \E result \in {Merge(Addition({a}), seen[a])}
                           \cup {Reduction({r}) : r \in Removers \cap {a}} :
              heap' = [heap EXCEPT ![Out(a)] = result]
  /\ UNCHANGED <<inputDelta, outputDelta, seen>>

DWorker ==
  \/ \E a \in Action : DCollect(a)
  \/ /\ \/ Launch \/ Poll \/ EndPolling \/ NextBatch \/ PollAgain \/ Return
        \/ \E a \in Action : \/ LaunchFails(a) \/ SkipPending(a)
                             \/ Interrupted(a)
     /\ UNCHANGED dvars

DNext == DWorker \/ \E a \in Action : MceReads(a) \/ DMceEnds(a)

DSpec == DInit /\ [][DNext]_<<vars, dvars>>

-----------------------------------------------------------------------------
\* Action b ended with an addition, and that has reached delta r: what b
\* computed itself and what it was given.
Adds(r) == r # NoDelta /\ "add" \in DOMAIN heap[r]
Reached(b, r) ==
  Adds(outputDelta[b]) => {b} \cup seen[b]["add"] \subseteq heap[r]["add"]

\* An MCE is never started without an input (it would throw a null pointer),
\* and sees the results of all that its action depends on: whatever the
\* order in which they ended and were merged, no addition got lost on the
\* way.  (Excepted is an MCE whose input has no addition, because a delta
\* with a reduction only came first: it throws.)
InputComplete ==
  \A a \in Action : future[a] # "none" =>
    /\ inputDelta[a] # NoDelta
    /\ Adds(inputDelta[a]) => \A b \in plan.deps[a] : Reached(b, inputDelta[a])

\* The result of a run that returns in time has what every root computed,
\* whichever root finished first and took in the others, provided that one
\* has an addition itself.
ResultComplete ==
  (pc = "returned" /\ total_timeout > 0 /\ Adds(outputDelta[mergedRoot])) =>
    \A r \in Roots : Reached(r, outputDelta[mergedRoot])

\* No two actions need the result of the same one.
Tree == \A a \in Action : \A u, v \in Uppers(a) : u = v

\* In a tree, nothing is merged into the input of an action while its MCE,
\* which clones it in another thread, is running.
TreeInputsStable ==
  [][Tree => \A a \in Action :
        (future[a] = "running" /\ future'[a] = "running") =>
           heap'[inputDelta[a]] = heap[inputDelta[a]]]_<<vars, dvars>>
=============================================================================
