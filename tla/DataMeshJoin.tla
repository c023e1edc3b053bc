---------------------------- MODULE DataMeshJoin ----------------------------
(***************************************************************************)
(* Joining a response with the records of related services: class DataMesh *)
(* (datamesh/services.py) with the clients of gateway/clients.py, for one  *)
(* synchronous or asynchronous gateway request, while other workers write  *)
(* the JoinRecord table.                                                   *)
(*                                                                         *)
(* The synchronous request asks for one related record after the other,    *)
(* between the queries; the asynchronous one queries for all items first   *)
(* and then gathers one task per related record.                           *)
(***************************************************************************)
EXTENDS Integers, Sequences, FiniteSets, SequencesExt

CONSTANTS
    PKs,            \* primary keys of records, of any service
    KeyType,        \* PKs -> "id", "uuid" (version 4) or "other" (neither)
    Models,         \* models that are joined with the response's own model
    Relationships,  \* DataMesh._relationships: a sequence of records with
                    \*   key, forward (direction), local and model (of the
                    \*   other side: is_local and which one)
    JoinRows,       \* the JoinRecord rows that ever exist: id, rel (index in
                    \*   Relationships), origin and related (record keys)
    Responses,      \* sequences of the items' pks: what the service answered
    Contents,       \* JSON objects a service answers with, of any status code
    NoPk,           \* the item has no usable lookup field
    NoneKey,        \* 'None': str() of a key field that is NULL
    NoDict,         \* the service answered with something else
    Unasked,        \* nothing in the cache
    MaxItems,       \* bound: items of a response
    Modes           \* which requests are made in this instance

Rels  == DOMAIN Relationships
Keys  == {Relationships[r].key : r \in Rels}
Items == 1..MaxItems
Urls  == Models \X (PKs \cup {NoneKey})

ASSUME ConstantsAssumption ==
    /\ MaxItems \in Nat
    /\ KeyType \in [PKs -> {"id", "uuid", "other"}]
    /\ Relationships \in Seq([key : Keys, forward : BOOLEAN, local : BOOLEAN,
                              model : Models])
    /\ IsFiniteSet(JoinRows)
    /\ \A row \in JoinRows : row.rel \in Rels /\ row.origin \in PKs /\ row.related \in PKs
    /\ \A s \in Responses : s \in Seq(PKs \cup {NoPk}) /\ Len(s) <= MaxItems
    /\ Modes \subseteq {"sync", "async"}

\* is_local is a column of the model.
ASSUME LocalAssumption ==
    \A r, s \in Rels : Relationships[r].model = Relationships[s].model
                         => Relationships[r].local = Relationships[s].local

ASSUME SentinelsAssumption ==
    NoDict \notin Contents /\ Unasked \notin Contents \cup {NoDict}

VARIABLES
    joins,     \* the JoinRecord table, as far as it concerns this response
    mode,      \* GatewayRequest or AsyncGatewayRequest
    isGet,     \* the incoming method: clients cache the answers to GET only
    response,  \* the pks of the items
    at,        \* <<item, relationship>> to look at next; 0: item not begun
    todo,      \* related records' META data not yet taken from the generator
    tasks,     \* asynchronous: the coroutines not yet finished
    data,      \* data[i][key]: the documents nested in item i, in order
    seen,      \* the caches of the clients and of the local objects
    status

vars == <<joins, mode, isGet, response, at, todo, tasks, data, seen, status>>
fixed == <<mode, isGet, response>>

-----------------------------------------------------------------------------

Meta == [item : Items, row : JoinRows, pk : PKs \cup {NoneKey}]

Init ==
    /\ joins \in SUBSET JoinRows
    /\ mode \in Modes
    /\ isGet \in BOOLEAN
    /\ response \in Responses
    /\ at = <<1, 0>>
    /\ todo = <<>>
    /\ tasks = {}
    /\ data = [i \in Items |-> [k \in Keys |-> <<>>]]
    /\ seen = [u \in Urls |-> Unasked]
    /\ status = "run"

Running == status = "run"

Fails(why) ==
    /\ status' = why
    /\ UNCHANGED <<joins, fixed, at, todo, tasks, data, seen>>

\* A bug: the reverse lookup lacks the prefix 'related_'.
Mutant_ThisSide(row) == row.origin

\* The two sides of a join record, seen from the response's own model.
ThisSide(row)  == IF Relationships[row.rel].forward THEN row.origin ELSE row.related
OtherSide(row) == IF Relationships[row.rel].forward THEN row.related ELSE row.origin

\* JoinRecordManager.get_join_records()
JoinRecords(pk, r) == {row \in joins : row.rel = r /\ ThisSide(row) = pk}

\* prepare_lookup_kwargs() looks at the first join record; the field it picks
\* is read from every one.
LookupKey(rows, k) ==
    IF KeyType[OtherSide(rows[k])] = KeyType[OtherSide(rows[1])]
    THEN OtherSide(rows[k]) ELSE NoneKey

Url(m) == <<Relationships[m.row.rel].model, m.pk>>

\* related_model.is_local: in the reverse direction that is the own model.
UsesLocal(m) == LET r == Relationships[m.row.rel] IN r.forward /\ r.local

\* client_map has the services of related_logic_modules, none of a local model.
HasClient(m) == ~Relationships[m.row.rel].local

Cached(m) == seen[Url(m)] # Unasked

\* data_item[relationship.key].append(...)
Nest(m, c) ==
    data' = [data EXCEPT ![m.item][Relationships[m.row.rel].key] =
                Append(@, [row |-> m.row, pk |-> m.pk, content |-> c])]

\* A bug: whatever comes back is nested.
Mutant_NestAnswer(m, c) == Nest(m, c)

\* The answer is nested if it is a JSON object, else only logged.
NestAnswer(m, c) == IF c = NoDict THEN UNCHANGED data ELSE Nest(m, c)

-----------------------------------------------------------------------------
(* get_related_records_meta(), item by item.                               *)

AtItem == Running /\ todo = <<>> /\ at[1] \in DOMAIN response

\* The lists of all relationships are reset first.
StartItem ==
    /\ AtItem
    /\ at[2] = 0
    /\ response[at[1]] # NoPk
    /\ at' = <<at[1], 1>>
    /\ data' = [data EXCEPT ![at[1]] = [k \in Keys |-> <<>>]]
    /\ UNCHANGED <<joins, fixed, todo, tasks, seen, status>>

\* DatameshConfigurationError, or KeyError: no lookup field, or it is 0.
ItemWithoutPk ==
    /\ AtItem
    /\ at[2] = 0
    /\ response[at[1]] = NoPk
    /\ Fails("noPk")

\* A bug: the generator looks at the same relationship again and again.
Mutant_ReadJoins ==
    /\ AtItem
    /\ at[2] \in Rels
    /\ KeyType[response[at[1]]] # "other"
    /\ \E rows \in SetToSeqs(JoinRecords(response[at[1]], at[2])) :
          todo' = [k \in DOMAIN rows |-> [item |-> at[1],
                                          row  |-> rows[k],
                                          pk   |-> LookupKey(rows, k)]]
    /\ UNCHANGED <<joins, fixed, at, tasks, data, seen, status>>

\* One query; the ordering of its rows is not specified.
ReadJoins ==
    /\ AtItem
    /\ at[2] \in Rels
    /\ KeyType[response[at[1]]] # "other"
    /\ \E rows \in SetToSeqs(JoinRecords(response[at[1]], at[2])) :
          todo' = [k \in DOMAIN rows |-> [item |-> at[1],
                                          row  |-> rows[k],
                                          pk   |-> LookupKey(rows, k)]]
    /\ at' = <<at[1], at[2] + 1>>
    /\ UNCHANGED <<joins, fixed, tasks, data, seen, status>>

\* Not a version 4 UUID, so it is compared with record_id: ValueError.
ReadJoinsFails ==
    /\ AtItem
    /\ at[2] \in Rels
    /\ KeyType[response[at[1]]] = "other"
    /\ Fails("badPk")

NextItem ==
    /\ AtItem
    /\ at[2] = Len(Relationships) + 1
    /\ at' = <<at[1] + 1, 0>>
    /\ UNCHANGED <<joins, fixed, todo, tasks, data, seen, status>>

-----------------------------------------------------------------------------
(* One related record, in the order of the generator.                      *)

Takes(m) == Running /\ todo # <<>> /\ m = Head(todo)

\* _extend_with_local(): from DataMesh._cache.
LocalCached(m) ==
    /\ Takes(m)
    /\ UsesLocal(m)
    /\ Cached(m)
    /\ Nest(m, seen[Url(m)])
    /\ todo' = Tail(todo)
    /\ UNCHANGED <<joins, fixed, at, tasks, seen, status>>

\* A bug: the object is not put into DataMesh._cache.
Mutant_LocalFound(m, c) ==
    /\ Takes(m)
    /\ UsesLocal(m)
    /\ ~Cached(m)
    /\ m.pk # NoneKey
    /\ Nest(m, c)
    /\ todo' = Tail(todo)
    /\ UNCHANGED <<joins, fixed, at, tasks, seen, status>>

\* The object exists and the access validator accepts it.
LocalFound(m, c) ==
    /\ Takes(m)
    /\ UsesLocal(m)
    /\ ~Cached(m)
    /\ m.pk # NoneKey
    /\ Nest(m, c)
    /\ seen' = [seen EXCEPT ![Url(m)] = c]
    /\ todo' = Tail(todo)
    /\ UNCHANGED <<joins, fixed, at, tasks, status>>

\* DoesNotExist is logged.
LocalMissing(m) ==
    /\ Takes(m)
    /\ UsesLocal(m)
    /\ ~Cached(m)
    /\ m.pk # NoneKey
    /\ todo' = Tail(todo)
    /\ UNCHANGED <<joins, fixed, at, tasks, data, seen, status>>

\* The validator refuses, the Django model is unknown, the key is 'None'.
LocalFails(m) ==
    /\ Takes(m)
    /\ UsesLocal(m)
    /\ ~Cached(m)
    /\ Fails("failed")

\* The synchronous client answers a GET from its cache.
RequestCached(m) ==
    /\ Takes(m)
    /\ mode = "sync" /\ ~UsesLocal(m) /\ HasClient(m)
    /\ isGet /\ Cached(m)
    /\ NestAnswer(m, seen[Url(m)])
    /\ todo' = Tail(todo)
    /\ UNCHANGED <<joins, fixed, at, tasks, seen, status>>

\* A bug: nothing is put into the client's cache.
Mutant_RequestRecord(m, c) ==
    /\ Takes(m)
    /\ mode = "sync" /\ ~UsesLocal(m) /\ HasClient(m)
    /\ ~(isGet /\ Cached(m))
    /\ NestAnswer(m, c)
    /\ todo' = Tail(todo)
    /\ UNCHANGED <<joins, fixed, at, tasks, seen, status>>

\* client.request(): the service answers c, whatever its status code.
RequestRecord(m, c) ==
    /\ Takes(m)
    /\ mode = "sync" /\ ~UsesLocal(m) /\ HasClient(m)
    /\ ~(isGet /\ Cached(m))
    /\ NestAnswer(m, c)
    /\ seen' = IF isGet THEN [seen EXCEPT ![Url(m)] = c] ELSE seen
    /\ todo' = Tail(todo)
    /\ UNCHANGED <<joins, fixed, at, tasks, status>>

\* The operation is not in the specification, the service is not reachable.
RequestFails(m) ==
    /\ Takes(m)
    /\ mode = "sync" /\ ~UsesLocal(m) /\ HasClient(m)
    /\ ~(isGet /\ Cached(m))
    /\ Fails("failed")

\* DatameshConfigurationError: client_map.get() returned None.
RequestWithoutClient(m) ==
    /\ Takes(m)
    /\ mode = "sync" /\ ~UsesLocal(m) /\ ~HasClient(m)
    /\ Fails("noClient")

\* The asynchronous request makes a coroutine of it.
Defer(m) ==
    /\ Takes(m)
    /\ mode = "async" /\ ~UsesLocal(m)
    /\ tasks' = tasks \cup {m}
    /\ todo' = Tail(todo)
    /\ UNCHANGED <<joins, fixed, at, data, seen, status>>

-----------------------------------------------------------------------------
(* asyncio.gather().  Every task has looked into the cache and sent its    *)
(* request before the first answer arrives, so the cache is of no use.     *)

Gathering == Running /\ todo = <<>> /\ at[1] > Len(response)

TaskEnds(m, c) ==
    /\ Gathering
    /\ m \in tasks
    /\ HasClient(m)
    /\ \A t \in tasks : HasClient(t)
    /\ NestAnswer(m, c)
    /\ tasks' = tasks \ {m}
    /\ UNCHANGED <<joins, fixed, at, todo, seen, status>>

\* The first exception of a task is the one of gather(): the request fails.
TaskFails(m) ==
    /\ Gathering
    /\ m \in tasks
    /\ Fails(IF HasClient(m) THEN "failed" ELSE "noClient")

\* A bug: the tasks are created, nothing waits for them.
Mutant_Finish ==
    /\ Gathering
    /\ status' = "ok"
    /\ UNCHANGED <<joins, fixed, at, todo, tasks, data, seen>>

Finish ==
    /\ Gathering
    /\ tasks = {}
    /\ status' = "ok"
    /\ UNCHANGED <<joins, fixed, at, todo, tasks, data, seen>>

-----------------------------------------------------------------------------

\* Another worker creates, changes or deletes a join record; what is written
\* after the last query makes no difference.
WriteJoins(row) ==
    /\ Running
    /\ at[1] \in DOMAIN response
    /\ joins' = IF row \in joins THEN joins \ {row} ELSE joins \cup {row}
    /\ UNCHANGED <<fixed, at, todo, tasks, data, seen, status>>

Progresses ==
    \/ StartItem \/ ItemWithoutPk \/ ReadJoins \/ ReadJoinsFails \/ NextItem
    \/ \E m \in ToSet(todo) :
          \/ LocalCached(m)
          \/ \E c \in Contents : LocalFound(m, c)
          \/ LocalMissing(m)
          \/ LocalFails(m)
          \/ RequestCached(m)
          \/ \E c \in Contents \cup {NoDict} : RequestRecord(m, c)
          \/ RequestFails(m)
          \/ RequestWithoutClient(m)
          \/ Defer(m)
    \/ \E m \in tasks, c \in Contents \cup {NoDict} : TaskEnds(m, c)
    \/ \E m \in tasks : TaskFails(m)
    \/ Finish

Next == Progresses \/ \E row \in JoinRows : WriteJoins(row)

Spec == Init /\ [][Next]_vars

\* The worker goes on with the request it has accepted: every service answers,
\* refuses or breaks the connection.
FairSpec == Spec /\ WF_vars(Progresses)

-----------------------------------------------------------------------------
(* Properties.                                                             *)

Entry == [row : JoinRows, pk : PKs \cup {NoneKey}, content : Contents]

TypeOK ==
    /\ joins \subseteq JoinRows
    /\ mode \in Modes
    /\ isGet \in BOOLEAN
    /\ response \in Responses
    /\ at \in (1..(MaxItems + 1)) \X (0..(Len(Relationships) + 1))
    /\ todo \in Seq(Meta)
    /\ tasks \subseteq Meta
    /\ data \in [Items -> [Keys -> Seq(Entry)]]
    /\ seen \in [Urls -> Contents \cup {NoDict, Unasked}]
    /\ status \in {"run", "ok", "noPk", "badPk", "noClient", "failed"}

\* Whatever the order in which the tasks end and whatever is written
\* meanwhile, an item holds documents of its own join records only, under the
\* key of their relationship.
NestedAreJoined ==
    \A i \in Items, k \in Keys : \A n \in DOMAIN data[i][k] :
        LET row == data[i][k][n].row
            rel == Relationships[row.rel]
        IN  /\ rel.key = k
            /\ response[i] = IF rel.forward THEN row.origin ELSE row.related

\* Entries of one record that come out of a cache: of a local object, or of a
\* service asked by the synchronous client of a GET.
Shared(e) == UsesLocal([row |-> e.row]) \/ (mode = "sync" /\ isGet)

\* One response shows a record in one version, in whichever items it is
\* nested, though it is looked up at different times.
OneVersion ==
    \A i, j \in Items, k, l \in Keys :
        \A p \in DOMAIN data[i][k], q \in DOMAIN data[j][l] :
            LET e == data[i][k][p]
                f == data[j][l][q]
            IN  (Shared(e) /\ Shared(f) /\ Url(e) = Url(f)) => e.content = f.content

\* The response as JoinedResponse sees it.
Phase == IF status = "run" THEN "run" ELSE IF status = "ok" THEN "sent" ELSE "failed"

\* Synchronous or asynchronous, every join record that a query has found is
\* settled once before the response leaves.
Promise == INSTANCE JoinedResponse WITH
    Rows   <- JoinRows,
    owed   <- {<<m.item, m.row>> : m \in ToSet(todo) \cup tasks},
    nested <- [d \in Items \X JoinRows |->
                  LET docs == data[d[1]][Relationships[d[2].rel].key]
                  IN  Cardinality({n \in DOMAIN docs : docs[n].row = d[2]})],
    status <- Phase
ImplementsPromise == Promise!Spec

\* The join ends, however many records others add to the table meanwhile.
JoinEnds == <>~Running

\* "Local model is taken from Buildly": no service is looked for instead.
LocalIsTakenFromBuildly == status # "noClient"
=============================================================================
