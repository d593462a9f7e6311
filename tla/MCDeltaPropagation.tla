------------------------- MODULE MCDeltaPropagation -------------------------
(***************************************************************************)
(* Instances of DeltaPropagation for TLC.                                  *)
(***************************************************************************)
EXTENDS DeltaPropagation, TLC

CONSTANTS d1, d2, x, y, z, class

TwoDrivers == {d1, d2}
Nodes == {d1, d2, x, y, z, class}
Owners == [n \in Nodes |-> IF n \in {d2, z} THEN d2 ELSE d1]

Has(n, m) == [subject |-> n, predicate |-> "has", object |-> m]
HasTopology(n, m) == [subject |-> n, predicate |-> "hasTopology", object |-> m]
Alias(n, m) == [subject |-> n, predicate |-> "isAlias", object |-> m]
Typed(n) == [subject |-> n, predicate |-> "type", object |-> class]

\* Of the first driver: a chain and an alias of another's node, a node that
\* nothing links to, and a topology inside the topology.
ModelsOfTwo ==
  d1 :> {{Typed(d1), Has(d1, x), Has(x, y), Alias(x, z)},
         {Typed(d1), Has(x, y)},
         {Typed(d1), HasTopology(d1, x), Typed(x), Has(x, y)}} @@
  d2 :> {{Typed(d2)}, {Typed(d2), Has(d2, z)}}

Adds(set) == [add |-> set, remove |-> {}]
Removes(set) == [add |-> {}, remove |-> set]

\* Links, leaves and aliases that come and go, in one topology and in two; a link
\* from one driver's topology to another's; and what makes a topology or
\* ends one.
SomeDeltas ==
  {Adds({Has(d1, x)}), Adds({Alias(x, z)}), Adds({Has(x, z)}), Removes({Has(d1, x)}),
   Removes({Has(x, y)}), Removes({HasTopology(d1, x)}), Removes({Typed(d1)}),
   [add |-> {Has(d2, z)}, remove |-> {Has(d1, x)}]}
=============================================================================
