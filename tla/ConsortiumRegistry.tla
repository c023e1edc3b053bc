------------------------- MODULE ConsortiumRegistry -------------------------
(***************************************************************************)
(* What the consortium table promises: for every shipment, the set of      *)
(* organizations that have had custody of it.  A custody event adds one    *)
(* organization to one shipment and takes none away.  The promise holds as *)
(* long as requests come one at a time and nobody edits the table.         *)
(***************************************************************************)
CONSTANTS Shipments, Orgs

VARIABLES
    custody,  \* <<shipment, org>>: custody events so far
    members,  \* the organizations that share a shipment's data
    kept      \* the promise is in force

vars == <<custody, members, kept>>

Init ==
    /\ custody = {}
    /\ members = [s \in Shipments |-> {}]
    /\ kept = TRUE

Custody(s, o) ==
    /\ custody' = custody \cup {<<s, o>>}
    /\ UNCHANGED <<members, kept>>

Join(s, o) ==
    /\ <<s, o>> \in custody
    /\ members' = [members EXCEPT ![s] = @ \cup {o}]
    /\ UNCHANGED <<custody, kept>>

\* Requests overlap or the table is edited, now or earlier: nothing is
\* promised any more.
Lapse == kept' = FALSE

Next == Lapse \/ \E s \in Shipments, o \in Orgs : Custody(s, o) \/ Join(s, o)

Spec == Init /\ [][Next]_vars
=============================================================================
