----------------------------- MODULE MCWorkflow -----------------------------
(* Two organizations, a plain, two organization and a global group.        *)
EXTENDS Workflow, TLC

CONSTANTS o1, o2, gTeam, gStaff, gDesk, gWorld

MCGroupOrg == [g \in GroupIds |-> o1]

MCGrants == [g \in GroupIds |->
    CASE g = gTeam  -> {{"read", "update"}, {"create", "delete"}}
      [] g = gStaff -> {{"create", "read", "delete"}, Verbs}
      [] g = gDesk  -> {{"update"}}
      [] OTHER     -> {{"create", "update"}}]

Member(o, gs) == [org |-> o, active |-> TRUE, superuser |-> FALSE, groups |-> gs]

MCActors == {Member(o1, {gTeam, gStaff})}

MCUsers == MCActors \cup
           {Member(o1, {gTeam}), Member(o1, {gStaff, gDesk}), Member(o2, {gWorld}),
            Member(o2, {}), [Member(o1, {gStaff}) EXCEPT !.active = FALSE],
            [Member(o2, {}) EXCEPT !.superuser = TRUE]}

\* Nothing tells the workers apart.
WorkerSymmetry == Permutations(Workers)

MCLists == {{gTeam, gStaff}}

MCMembers == {{}}

MCNewOrgs == {o1}
=============================================================================
