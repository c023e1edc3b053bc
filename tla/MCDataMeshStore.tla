-------------------------- MODULE MCDataMeshStore --------------------------
(* Instances of DataMeshStore for TLC. *)
EXTENDS DataMeshStore, TLC

CONSTANTS m1, m2

BothPairs == {<<m1, m2>>, <<m2, m1>>}

Symmetry == Permutations(Workers) \cup Permutations(Orgs) \cup Permutations(Links)

\* A bound: once requests overlap, requests and rows name one link and one
\* pair of models.
UsedLinks == {job[w].link : w \in Workers} \cup UNION {job[w].todo : w \in Workers}
                \cup {joins[k].link : k \in {i \in JoinIds : joins[i] # NoRow}}

Bound == overlapped => Cardinality(UsedLinks \ {NoLink}) <= 1
=============================================================================
