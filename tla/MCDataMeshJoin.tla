--------------------------- MODULE MCDataMeshJoin ---------------------------
(* Instances of DataMeshJoin for TLC. *)
EXTENDS DataMeshJoin, TLC

CONSTANTS p1, p2, q1, q2, r1

\* p1 and p2 are integers, q1 and q2 version 4 UUIDs, r1 is neither.
Types == [k \in PKs |-> CASE k \in {p1, p2} -> "id"
                          [] k \in {q1, q2} -> "uuid"
                          [] OTHER          -> "other"]

Rel(key, forward, local, model) ==
    [key |-> key, forward |-> forward, local |-> local, model |-> model]

Row(id, rel, origin, related) ==
    [id |-> id, rel |-> rel, origin |-> origin, related |-> related]

\* A local model forward, a remote one in both directions, and a local one in
\* reverse.
AllRels == <<Rel("k1", TRUE, TRUE, "a"), Rel("k2", TRUE, FALSE, "b"),
             Rel("k2", FALSE, FALSE, "b"), Rel("k3", FALSE, TRUE, "c")>>
AllRows == {Row(1, 1, p1, q1), Row(2, 2, p1, p2), Row(3, 3, p2, p1),
            Row(4, 4, p1, p2)}

\* What the first service answers: an object, a list, items that are unusable.
AnyResponses == {<<>>, <<p1, p1>>, <<p2, r1>>, <<NoPk>>}
=============================================================================
