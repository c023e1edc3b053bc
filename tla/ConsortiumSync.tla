--------------------------- MODULE ConsortiumSync ---------------------------
(***************************************************************************)
(* The consortium of a shipment (core/models.py Consortium), kept by the   *)
(* synchronous gateway after a custody POST (gateway/request.py perform)   *)
(* and edited through the ConsortiumViewSet.                               *)
(*                                                                         *)
(* The gateway reads the consortium, extends the list in memory and saves  *)
(* the whole row; workers interleave between the statements.               *)
(***************************************************************************)
EXTENDS Integers, Sequences

CONSTANTS
    Workers,     \* gunicorn worker processes
    Shipments,   \* values of content['shipment'], the consortium's name
    Orgs,        \* values of content['organization_uuid']
    NoOrg,       \* the custody record names no organization
    NoShipment,  \* the request is not a custody POST
    NullList,    \* organization_uuids is NULL
    NoRow,       \* no row has this primary key
    NoCopy,      \* the worker holds no instance
    MaxRows,     \* bound: number of rows ever inserted
    AdminLists   \* the lists an administrator may send

ASSUME ConstantsAssumption ==
    /\ MaxRows \in Nat
    /\ NoOrg \notin Orgs

Ids   == 1..MaxRows
Lists == Seq(Orgs \cup {NoOrg})
Row   == [name : Shipments, orgs : Lists \cup {NullList}]
Copy  == [id : Ids, row : Row]

ASSUME SentinelsAssumption ==
    /\ NullList \notin Lists
    /\ AdminLists \subseteq Lists \cup {NullList}
    /\ NoRow \notin Row
    /\ NoCopy \notin Copy

VARIABLES
    rows,     \* the table core_consortium, by primary key
    nextId,   \* the next fresh primary key
    job,      \* what each worker is doing
    serial,   \* history: requests came one at a time so far, none of them an edit
    created,  \* and while that is so, <<shipment, org>>: custody records the
              \* service has created,
    acked     \* and those whose POST was answered with 201

histories == <<serial, created, acked>>
vars == <<rows, nextId, job, serial, created, acked>>

-----------------------------------------------------------------------------

Job == [stage    : {"idle", "look", "create", "save", "done"},
        custody  : BOOLEAN,                    \* a custody POST, not an edit
        shipment : Shipments \cup {NoShipment},
        org      : Orgs \cup {NoOrg},
        copy     : Copy \cup {NoCopy},
        ok       : BOOLEAN]                    \* no exception was raised

NoJob == [stage    |-> "idle",
          custody  |-> FALSE,
          shipment |-> NoShipment,
          org      |-> NoOrg,
          copy     |-> NoCopy,
          ok       |-> TRUE]

\* The answer is ready: what the worker has read no longer matters.
Done(w) == job' = [job EXCEPT ![w].stage = "done", ![w].copy = NoCopy]

Idle(w) == job[w].stage = "idle"

Named(s) == {i \in Ids : rows[i] # NoRow /\ rows[i].name = s}

Elements(l) == {l[k] : k \in DOMAIN l}

Init ==
    /\ rows = [i \in Ids |-> NoRow]
    /\ nextId = 1
    /\ job = [w \in Workers |-> NoJob]
    /\ created = {}
    /\ acked = {}
    /\ serial = TRUE

-----------------------------------------------------------------------------
(* A custody POST, from the service's 201 on.                              *)

\* A request comes; the service has created the records new.
Arrives(new) ==
    /\ serial' = (serial /\ \A w \in Workers : Idle(w))
    /\ created' = IF serial' THEN created \cup new ELSE {}
    /\ acked' = IF serial' THEN acked ELSE {}

\* The service has created a custody record of org o for shipment s.
Custody(w, s, o) ==
    /\ Idle(w)
    /\ job' = [job EXCEPT ![w] = [NoJob EXCEPT !.stage = "look",
                                               !.custody = TRUE,
                                               !.shipment = s,
                                               !.org = o]]
    /\ Arrives({s} \X ({o} \ {NoOrg}))
    /\ UNCHANGED <<rows, nextId>>

\* It answered with a list, or without a shipment, or with an organization
\* that is not a UUID: an exception, and 500 for a record that exists.
CustodyUnusable(w) ==
    /\ Idle(w)
    /\ job' = [job EXCEPT ![w] = [NoJob EXCEPT !.stage = "done",
                                               !.custody = TRUE,
                                               !.ok = FALSE]]
    /\ Arrives({})
    /\ UNCHANGED <<rows, nextId>>

\* A bug: a consortium is created although the shipment has one.
Mutant_LookMissing(w) ==
    /\ job[w].stage = "look"
    /\ job' = [job EXCEPT ![w].stage = "create"]
    /\ UNCHANGED <<rows, nextId, histories>>

\* Consortium.objects.filter(name=shipment_name).first() finds nothing.
LookMissing(w) ==
    /\ job[w].stage = "look"
    /\ Named(job[w].shipment) = {}
    /\ job' = [job EXCEPT ![w].stage = "create"]
    /\ UNCHANGED <<rows, nextId, histories>>

\* It finds row i; with several of that name the ordering does not say which.
Finds(w, i) == job[w].stage = "look" /\ i \in Named(job[w].shipment)

\* No organization to add, or the list has it already.
LookMember(w, i) ==
    /\ Finds(w, i)
    /\ \/ job[w].org = NoOrg
       \/ rows[i].orgs # NullList /\ job[w].org \in Elements(rows[i].orgs)
    /\ Done(w)
    /\ UNCHANGED <<rows, nextId, histories>>

\* org_uuid not in None: TypeError.
LookNull(w, i) ==
    /\ Finds(w, i)
    /\ job[w].org # NoOrg
    /\ rows[i].orgs = NullList
    /\ job' = [job EXCEPT ![w].stage = "done", ![w].ok = FALSE]
    /\ UNCHANGED <<rows, nextId, histories>>

\* A bug: the test compares a string with the UUIDs of the list.
Mutant_NotMember(o, l) == TRUE

NotMember(o, l) == o \notin Elements(l)

\* A bug: the list is replaced.
Mutant_Extended(l, o) == <<o>>

Extended(l, o) == Append(l, o)

\* A bug: any consortium is extended, not the shipment's own.
Mutant_LookNew(w, i) ==
    /\ job[w].stage = "look"
    /\ Named(job[w].shipment) # {}
    /\ rows[i] # NoRow
    /\ job[w].org # NoOrg
    /\ rows[i].orgs # NullList
    /\ NotMember(job[w].org, rows[i].orgs)
    /\ job' = [job EXCEPT
           ![w].stage = "save",
           ![w].copy = [id |-> i,
                        row |-> [rows[i] EXCEPT !.orgs = Extended(@, job[w].org)]]]
    /\ UNCHANGED <<rows, nextId, histories>>

\* The list is extended in memory.
LookNew(w, i) ==
    /\ Finds(w, i)
    /\ job[w].org # NoOrg
    /\ rows[i].orgs # NullList
    /\ NotMember(job[w].org, rows[i].orgs)
    /\ job' = [job EXCEPT
           ![w].stage = "save",
           ![w].copy = [id |-> i,
                        row |-> [rows[i] EXCEPT !.orgs = Extended(@, job[w].org)]]]
    /\ UNCHANGED <<rows, nextId, histories>>

\* A bug: organization_uuids=related_organization, without the brackets.
Mutant_CreateBare(w) ==
    /\ job[w].stage = "create"
    /\ nextId \in Ids
    /\ rows' = [rows EXCEPT ![nextId] = [name |-> job[w].shipment,
                                         orgs |-> job[w].org]]
    /\ nextId' = nextId + 1
    /\ Done(w)
    /\ UNCHANGED histories

\* Consortium.objects.create(name=shipment_name, organization_uuids=[...])
CreateConsortium(w) ==
    /\ job[w].stage = "create"
    /\ nextId \in Ids
    /\ rows' = [rows EXCEPT ![nextId] = [name |-> job[w].shipment,
                                         orgs |-> <<job[w].org>>]]
    /\ nextId' = nextId + 1
    /\ Done(w)
    /\ UNCHANGED histories

\* A bug: the row is saved before the organization is appended.
Mutant_Save(w) ==
    /\ job[w].stage = "save"
    /\ Done(w)
    /\ UNCHANGED <<rows, nextId, histories>>

\* consortium.save(), of a custody POST or of an edit: every column, and an
\* insertion when the row is gone.
Save(w) ==
    /\ job[w].stage = "save"
    /\ rows' = [rows EXCEPT ![job[w].copy.id] = job[w].copy.row]
    /\ Done(w)
    /\ UNCHANGED <<nextId, histories>>

\* The response leaves.
Respond(w) ==
    /\ job[w].stage = "done"
    /\ acked' = IF /\ serial /\ job[w].custody /\ job[w].ok
                   /\ job[w].org # NoOrg
                THEN acked \cup {<<job[w].shipment, job[w].org>>}
                ELSE acked
    /\ job' = [job EXCEPT ![w] = NoJob]
    /\ UNCHANGED <<rows, nextId, serial, created>>

\* gunicorn replaces a silent worker; what it has committed stays.
WorkerTimeout(w) ==
    /\ job[w].stage \in {"look", "create", "save"}
    /\ job' = [job EXCEPT ![w] = NoJob]
    /\ UNCHANGED <<rows, nextId, histories>>

-----------------------------------------------------------------------------
(* ConsortiumViewSet.                                                      *)

Edits == serial' = FALSE /\ created' = {} /\ acked' = {}

AdminCreate(w, s, l) ==
    /\ Idle(w)
    /\ nextId \in Ids
    /\ rows' = [rows EXCEPT ![nextId] = [name |-> s, orgs |-> l]]
    /\ nextId' = nextId + 1
    /\ Edits
    /\ UNCHANGED job

\* get_object(), and the fields of the request set on the instance.  Any list
\* of UUIDs is valid, here and above, one that repeats an organization, too.
AdminPatch(w, i, s, l) ==
    /\ Idle(w)
    /\ rows[i] # NoRow
    /\ job' = [job EXCEPT ![w] =
                 [NoJob EXCEPT !.stage = "save",
                               !.copy = [id |-> i, row |-> [name |-> s,
                                                            orgs |-> l]]]]
    /\ Edits
    /\ UNCHANGED <<rows, nextId>>

AdminDelete(w, i) ==
    /\ Idle(w)
    /\ rows[i] # NoRow
    /\ rows' = [rows EXCEPT ![i] = NoRow]
    /\ Edits
    /\ UNCHANGED <<nextId, job>>

-----------------------------------------------------------------------------

Progresses(w) ==
    \/ LookMissing(w)
    \/ \E i \in Ids : LookMember(w, i) \/ LookNull(w, i) \/ LookNew(w, i)
    \/ CreateConsortium(w)
    \/ Save(w)
    \/ Respond(w)

Requests(w) ==
    \/ \E s \in Shipments, o \in Orgs \cup {NoOrg} : Custody(w, s, o)
    \/ CustodyUnusable(w)
    \/ \E s \in Shipments, l \in AdminLists : AdminCreate(w, s, l)
    \/ \E i \in Ids, s \in Shipments, l \in AdminLists : AdminPatch(w, i, s, l)
    \/ \E i \in Ids : AdminDelete(w, i)
    \/ WorkerTimeout(w)

Next == \E w \in Workers : Progresses(w) \/ Requests(w)

Spec == Init /\ [][Next]_vars

-----------------------------------------------------------------------------
(* Properties.                                                             *)

TypeOK ==
    /\ rows \in [Ids -> Row \cup {NoRow}]
    /\ nextId \in 1..(MaxRows + 1)
    /\ job \in [Workers -> Job]
    /\ created \subseteq Shipments \X Orgs
    /\ acked \subseteq Shipments \X Orgs
    /\ serial \in BOOLEAN

\* An administrator has sent a list with o at the positions p and q.
SentTwice(o, p, q) ==
    \E l \in AdminLists \ {NullList} :
        {p, q} \subseteq DOMAIN l /\ l[p] = o /\ l[q] = o

NoNewRepeats(l) ==
    \A p, q \in DOMAIN l : (p # q /\ l[p] = l[q]) => SentTwice(l[p], p, q)

\* "To avoid repeated organization uuid adding": however the requests of two
\* workers and the administrators' edits interleave, a consortium lists an
\* organization twice only where a list an administrator sent does; custody
\* requests add none to a list that has it.
NoRepeats ==
    \A i \in Ids : (rows[i] # NoRow /\ rows[i].orgs # NullList)
                      => NoNewRepeats(rows[i].orgs)

Listing(s) == {i \in Named(s) : rows[i].orgs # NullList}

Members(s) == (UNION {Elements(rows[i].orgs) : i \in Listing(s)}) \ {NoOrg}

\* "if consortium exist, update consortium for organization uuid": one request
\* at a time, an organization whose custody POST was answered 201 shares the
\* shipment's data.
AckedShared == serial => \A s \in Shipments, o \in Orgs :
                            <<s, o>> \in acked => o \in Members(s)

\* "If consortium does not exists for shipment name, then create consortium":
\* one request at a time, a shipment has one consortium.
OnePerShipment == serial => \A s \in Shipments, i, k \in Ids :
                               (i \in Named(s) /\ k \in Named(s)) => i = k

\* One request at a time, the table is the registry of custody holders.
Registry == INSTANCE ConsortiumRegistry
                WITH members <- [s \in Shipments |-> Members(s)],
                     custody <- created,
                     kept    <- serial
ImplementsRegistry == Registry!Spec
=============================================================================
