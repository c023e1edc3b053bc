-------------------------- MODULE MCConsortiumSync --------------------------
(* Instances of ConsortiumSync for TLC. *)
EXTENDS ConsortiumSync, TLC, FiniteSets

CONSTANTS o1, o2, o3

\* Lists an administrator may send: none, empty, one organization once, twice.
SomeLists == {NullList, <<>>, <<o3>>, <<o3, o3>>}

Symmetry == Permutations(Workers) \cup Permutations({o1, o2})
                \cup Permutations(Shipments)

\* A bound: once requests overlap or edit, requests and rows name one shipment.
UsedShipments == {job[w].shipment : w \in Workers}
                    \cup {rows[i].name : i \in {k \in Ids : rows[k] # NoRow}}
                    \cup {c[1] : c \in created}

Bound == serial \/ Cardinality(UsedShipments \ {NoShipment}) <= 1
=============================================================================
