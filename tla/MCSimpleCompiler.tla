-------------------------- MODULE MCSimpleCompiler --------------------------
(***************************************************************************)
(* Intents for TLC: every well-formed graph of four policies (up to        *)
(* renaming) to be added, alone or after a graph of two other policies to  *)
(* be removed; one policy at most is malformed.                            *)
(***************************************************************************)
EXTENDS SimpleCompiler

CONSTANTS p1, p2, p3, p4, r1, r2, thing

\* Dependencies point from an earlier policy to a later one: every acyclic
\* graph has a representative among these.
Four == <<p1, p2, p3, p4>>
Shapes ==
  {d \in [{p1, p2, p3, p4} -> SUBSET {p1, p2, p3, p4}] :
     \A i, j \in 1..4 : Four[j] \in d[Four[i]] => i < j}

\* p1 may depend on something that is not a policy as well.
Additions ==
  {[policies |-> {p1, p2, p3, p4}, dependOn |-> d, malformed |-> bad] :
     d \in Shapes \cup {[e EXCEPT ![p1] = @ \cup {thing}] :
                          e \in {f \in Shapes : f[p1] # {}}},
     bad \in {{}, {p1}}}

\* r1 depends on r2, or the two are roots.
Reductions ==
  {[policies |-> {r1, r2}, dependOn |-> (r1 :> d @@ r2 :> {}), malformed |-> {}] :
     d \in {{}, {r2}}}

MCIntents ==
  {<<a>> : a \in Additions} \cup {<<r, a>> : r \in Reductions, a \in Additions}
=============================================================================
