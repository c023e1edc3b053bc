----------------------------- MODULE SpecStore -----------------------------
(***************************************************************************)
(* The store of API specifications (core/models.py LogicModule) and every  *)
(* writer of it: the synchronous and the asynchronous gateway request      *)
(* (gateway/request.py), the swagger aggregator (gateway/aggregator.py)    *)
(* and the LogicModule view set (core/views/logicmodule.py).               *)
(*                                                                         *)
(* Requests are served by gunicorn's synchronous worker processes, one     *)
(* request per process at a time.  No request runs in a transaction, so    *)
(* each ORM statement commits on its own and one action below is one       *)
(* statement or one remote call.                                           *)
(*                                                                         *)
(* A specification is abstracted to the endpoint whose service published   *)
(* it, which is what decides where bravado sends the calls (spec.api_url). *)
(* Nobody looks at the status or the content of what is fetched, so the    *)
(* body of an error and JSON null are stored like a specification.         *)
(***************************************************************************)
EXTENDS Integers, FiniteSets

CONSTANTS
    Workers,          \* gunicorn worker processes
    Names,            \* values of LogicModule.endpoint_name
    Endpoints,        \* values of LogicModule.endpoint (with docs_endpoint)
    MaxModules,       \* bound: number of LogicModule rows ever inserted
    NoSpec,           \* SQL NULL in api_specification, absent key of a dict
    OtherDoc,         \* any JSON that is not a service's specification
    OtherServices,    \* endpoints whose host may answer such JSON
    NullServices,     \* endpoints whose host may answer JSON null
    NoRow,            \* no row has this primary key
    NoCopy,           \* the request holds no instance for this service
    Sent,             \* bound: what administrators send as a specification
    Ops,              \* which kinds of request arrive in this instance
    AllowAsyncUnsafe  \* workers with DJANGO_ALLOW_ASYNC_UNSAFE in their environment

Kinds == {"sync", "async", "refresh", "patch", "delete", "aggregate"}

ASSUME ConstantsAssumption ==
    /\ MaxModules \in Nat
    /\ NoSpec \notin Endpoints
    /\ OtherDoc \notin Endpoints \cup {NoSpec}
    /\ OtherServices \cup NullServices \subseteq Endpoints
    /\ Sent \subseteq Endpoints \cup {OtherDoc, NoSpec}
    /\ Ops \subseteq Kinds
    /\ AllowAsyncUnsafe \subseteq Workers
    /\ Names # {}

Ids   == 1..MaxModules
Specs == Endpoints \cup {OtherDoc, NoSpec}
Row   == [name : Names, endpoint : Endpoints, spec : Specs]
Copy  == [id : Ids, row : Row]

\* endpoint_name is a CharField(max_length=255).
ASSUME NamesAssumption == IsFiniteSet(Names)

ASSUME SentinelsAssumption == NoRow \notin Row /\ NoCopy \notin Copy

VARIABLES
    rows,    \* the table core_logicmodule, by primary key
    nextId,  \* its primary key sequence
    job      \* what each worker is doing

vars == <<rows, nextId, job>>

-----------------------------------------------------------------------------
(* What a worker holds in memory while it serves a request.                *)

\* How far the specification of one service has got: not asked for yet, being
\* fetched from the service, set on the instance and about to be saved, usable.
Progress == {"todo", "fetch", "save", "ready"}

Gateway == {"sync", "async"}

Answers == {"none", "ok", "notFound", "ambiguous", "conflict", "remoteError",
            "keyError", "noResponse", "asyncUnsafe", "badSpec"}

Job == [kind    : {"idle"} \cup (Kinds \ {"delete"}),
        stage   : {"spec", "join", "done"},
        service : Names,                        \* url_kwargs['service']
        join    : SUBSET Names,                 \* related_logic_modules
        load    : [Names -> Progress],
        copy    : [Names -> Copy \cup {NoCopy}],  \* _logic_modules
        specs   : [Endpoints -> Specs],           \* _specs
        conf    : [Names -> Endpoints \cup {NoSpec}],  \* the aggregator's 'apis'
        doc     : Specs,                        \* and its spec_dict
        answer  : Answers]

NoJob == [kind    |-> "idle",
          stage   |-> "done",
          service |-> CHOOSE n \in Names : TRUE,
          join    |-> {},
          load    |-> [n \in Names |-> "todo"],
          copy    |-> [n \in Names |-> NoCopy],
          specs   |-> [e \in Endpoints |-> NoSpec],
          conf    |-> [n \in Names |-> NoSpec],
          doc     |-> NoSpec,
          answer  |-> "none"]

Idle(w) == job[w].kind = "idle"

Answer(w, a) == job' = [job EXCEPT ![w].stage = "done", ![w].answer = a]

Found(n) == {i \in Ids : rows[i] # NoRow /\ rows[i].name = n}

\* unique_together = (('endpoint', 'endpoint_name'),)
Conflict(c) ==
    \E i \in Ids \ {c.id} :
        /\ rows[i] # NoRow
        /\ rows[i].name = c.row.name
        /\ rows[i].endpoint = c.row.endpoint

\* What a GET of the schema URL of endpoint e can bring: the specification, the
\* JSON body of whatever else the host answers, the status of which is not
\* looked at, or null.
Served(e) == {e} \cup {doc \in {OtherDoc} : e \in OtherServices}
                 \cup {doc \in {NoSpec} : e \in NullServices}

\* Spec.from_dict() may raise for it; for null it does.
Unusable(doc) == doc \in {OtherDoc, NoSpec}

\* Services whose specification the request needs now.
Wanted(j) ==
    CASE j.stage = "spec" -> {j.service}
      [] j.stage = "join" -> j.join
      [] OTHER            -> {}

Loading(j) == {n \in Names : j.load[n] \in {"fetch", "save"}}

Init ==
    /\ rows = [i \in Ids |-> NoRow]
    /\ nextId = 1
    /\ job = [w \in Workers |-> NoJob]

-----------------------------------------------------------------------------
(* A gateway request: GatewayRequest and AsyncGatewayRequest.              *)

\* A request for service n reaches perform().
OpenRequest(w, kind, n) ==
    /\ Idle(w)
    /\ kind \in Gateway \cap Ops
    /\ job' = [job EXCEPT ![w] = [NoJob EXCEPT !.kind = kind,
                                               !.stage = "spec",
                                               !.service = n]]
    /\ UNCHANGED <<rows, nextId>>

\* The synchronous request loads one specification after the other; the
\* asynchronous one gathers a task per related service.
MayRead(w, n) ==
    /\ job[w].kind \in Gateway
    /\ n \in Wanted(job[w])
    /\ job[w].load[n] = "todo"
    /\ job[w].kind = "sync" => Loading(job[w]) = {}

\* Django's ORM refuses to run inside a running event loop.
ReadInEventLoop(w, n) ==
    /\ MayRead(w, n)
    /\ job[w].kind = "async"
    /\ w \notin AllowAsyncUnsafe
    /\ Answer(w, "asyncUnsafe")
    /\ UNCHANGED <<rows, nextId>>

CanQuery(w, n) ==
    /\ MayRead(w, n)
    /\ job[w].kind = "async" => w \in AllowAsyncUnsafe

\* LogicModule.DoesNotExist.  In the join it is logged and the response goes
\* out unjoined; before the call the synchronous request answers 404 and the
\* asynchronous one returns without storing a response.
ReadMissing(w, n) ==
    /\ CanQuery(w, n)
    /\ Found(n) = {}
    /\ Answer(w, IF job[w].stage = "join" THEN "ok"
                 ELSE IF job[w].kind = "sync" THEN "notFound"
                 ELSE "noResponse")
    /\ UNCHANGED <<rows, nextId>>

\* LogicModule.MultipleObjectsReturned: endpoint_name alone is not unique.
ReadAmbiguous(w, n) ==
    /\ CanQuery(w, n)
    /\ \E i, k \in Found(n) : i # k
    /\ Answer(w, "ambiguous")
    /\ UNCHANGED <<rows, nextId>>

\* .get(endpoint_name=n) returns the row with primary key i.
Gets(w, n, i) ==
    /\ CanQuery(w, n)
    /\ Found(n) = {i}

CopyOf(i) == [id |-> i, row |-> rows[i]]

\* _specs already has the schema URL: another module with the same URL.
ReadCached(w, n, i) ==
    /\ Gets(w, n, i)
    /\ job[w].specs[rows[i].endpoint] # NoSpec
    /\ job' = [job EXCEPT ![w].copy[n] = CopyOf(i), ![w].load[n] = "ready"]
    /\ UNCHANGED <<rows, nextId>>

\* The row stores a specification.  The asynchronous request adds it to
\* _specs only in the branch that fetched it, then subscripts _specs.
ReadStored(w, n, i) ==
    /\ Gets(w, n, i)
    /\ job[w].specs[rows[i].endpoint] = NoSpec
    /\ rows[i].spec # NoSpec
    /\ IF job[w].kind = "async"
       THEN Answer(w, "keyError")
       ELSE job' = [job EXCEPT ![w].copy[n] = CopyOf(i),
                               ![w].load[n] = "ready",
                               ![w].specs[rows[i].endpoint] = rows[i].spec]
    /\ UNCHANGED <<rows, nextId>>

\* What the row stores is no specification: Spec.from_dict() raises.
ReadUnusable(w, n, i) ==
    /\ Gets(w, n, i)
    /\ job[w].kind = "sync"
    /\ job[w].specs[rows[i].endpoint] = NoSpec
    /\ rows[i].spec = OtherDoc
    /\ Answer(w, "badSpec")
    /\ UNCHANGED <<rows, nextId>>

\* api_specification is NULL: it has to be pulled from the service.
ReadEmpty(w, n, i) ==
    /\ Gets(w, n, i)
    /\ job[w].specs[rows[i].endpoint] = NoSpec
    /\ rows[i].spec = NoSpec
    /\ job' = [job EXCEPT ![w].copy[n] = CopyOf(i), ![w].load[n] = "fetch"]
    /\ UNCHANGED <<rows, nextId>>

\* All gathered tasks read their row before the first one is resumed.
MayFetch(w, n) ==
    /\ job[w].kind \in {"sync", "async", "refresh"}
    /\ job[w].stage # "done"
    /\ job[w].load[n] = "fetch"
    /\ job[w].kind = "async" =>
           \A m \in Wanted(job[w]) : job[w].load[m] # "todo"

\* A bug: the response is parsed but not set on the instance.
Mutant_FetchUnset(w, n, doc) ==
    /\ MayFetch(w, n)
    /\ doc \in Served(job[w].copy[n].row.endpoint)
    /\ job' = [job EXCEPT ![w].load[n] = "save"]
    /\ UNCHANGED <<rows, nextId>>

\* A bug: the response itself is set on the instance, not what it says.
Mutant_FetchResponse(w, n, doc) ==
    /\ MayFetch(w, n)
    /\ doc \in Served(job[w].copy[n].row.endpoint)
    /\ job' = [job EXCEPT ![w].copy[n].row.spec = {doc}, ![w].load[n] = "save"]
    /\ UNCHANGED <<rows, nextId>>

\* A bug: the schema URL is taken from the row as it is when the request is
\* sent, not from the instance that will be saved.
Mutant_FetchCurrent(w, n, doc) ==
    /\ MayFetch(w, n)
    /\ LET c == job[w].copy[n]
       IN  /\ rows[c.id] # NoRow
           /\ doc \in Served(rows[c.id].endpoint)
    /\ job' = [job EXCEPT ![w].copy[n].row.spec = doc, ![w].load[n] = "save"]
    /\ UNCHANGED <<rows, nextId>>

\* The host behind the schema URL answers JSON, the swagger file or another
\* document; it is set on the instance.
FetchSpec(w, n, doc) ==
    /\ MayFetch(w, n)
    /\ doc \in Served(job[w].copy[n].row.endpoint)
    /\ job' = [job EXCEPT ![w].copy[n].row.spec = doc, ![w].load[n] = "save"]
    /\ UNCHANGED <<rows, nextId>>

\* Connection refused, not JSON: the request fails and its other tasks are
\* cancelled with it.
FetchFails(w, n) ==
    /\ MayFetch(w, n)
    /\ Answer(w, "remoteError")
    /\ UNCHANGED <<rows, nextId>>

\* LogicModule.save() passes no argument on, so Model.save() updates every
\* column of the row with this primary key, or inserts it when it is gone.
Written(c) == c.row

MaySave(w, n) ==
    /\ job[w].kind \in {"sync", "async", "refresh", "patch"}
    /\ job[w].stage # "done"
    /\ job[w].load[n] = "save"

\* A bug: save(update_fields=['api_specification']), one column.
Mutant_SaveColumn(w, n) ==
    /\ MaySave(w, n)
    /\ job[w].kind \in Gateway
    /\ LET c == job[w].copy[n]
       IN  /\ rows[c.id] # NoRow
           /\ c.row.spec # NoSpec
           /\ rows' = [rows EXCEPT ![c.id].spec = c.row.spec]
           /\ job' = [job EXCEPT ![w].load[n] = "ready",
                                 ![w].specs[c.row.endpoint] = c.row.spec]
    /\ UNCHANGED nextId

\* A bug: the specification just saved is left out of _specs.
Mutant_SaveSpec(w, n) ==
    /\ MaySave(w, n)
    /\ job[w].kind \in Gateway
    /\ LET c == job[w].copy[n]
       IN  /\ ~Conflict(c)
           /\ c.row.spec # NoSpec
           /\ rows' = [rows EXCEPT ![c.id] = Written(c)]
           /\ job' = [job EXCEPT ![w].load[n] = "ready"]
    /\ UNCHANGED nextId

\* logic_module.save() of a gateway request, then _specs[schema_url] = spec.
SaveSpec(w, n) ==
    /\ MaySave(w, n)
    /\ job[w].kind \in Gateway
    /\ LET c == job[w].copy[n]
       IN  /\ ~Conflict(c)
           /\ c.row.spec # NoSpec
           /\ rows' = [rows EXCEPT ![c.id] = Written(c)]
           /\ job' = [job EXCEPT ![w].load[n] = "ready",
                                 ![w].specs[c.row.endpoint] = c.row.spec]
    /\ UNCHANGED nextId

\* The row is saved before Spec.from_dict() finds that it is none.
SaveUnusable(w, n) ==
    /\ MaySave(w, n)
    /\ job[w].kind \in Gateway
    /\ LET c == job[w].copy[n]
       IN  /\ ~Conflict(c)
           /\ Unusable(c.row.spec)
           /\ rows' = [rows EXCEPT ![c.id] = Written(c)]
    /\ Answer(w, "badSpec")
    /\ UNCHANGED nextId

\* IntegrityError: another row now has this (endpoint, endpoint_name).
SaveConflict(w, n) ==
    /\ MaySave(w, n)
    /\ Conflict(job[w].copy[n])
    /\ Answer(w, "conflict")
    /\ UNCHANGED <<rows, nextId>>

\* client.request(): the call that was asked for succeeds, and the join, if
\* any, needs the services in related.
CallService(w, related) ==
    /\ job[w].kind \in Gateway
    /\ job[w].stage = "spec"
    /\ job[w].load[job[w].service] = "ready"
    /\ job' = [job EXCEPT ![w].stage = "join", ![w].join = related]
    /\ UNCHANGED <<rows, nextId>>

CallFails(w) ==
    /\ job[w].kind \in Gateway
    /\ job[w].stage = "spec"
    /\ job[w].load[job[w].service] = "ready"
    /\ Answer(w, "remoteError")
    /\ UNCHANGED <<rows, nextId>>

\* Every related specification is there; the response is extended and sent.
JoinDone(w) ==
    /\ job[w].kind \in Gateway
    /\ job[w].stage = "join"
    /\ \A n \in job[w].join : job[w].load[n] = "ready"
    /\ Answer(w, "ok")
    /\ UNCHANGED <<rows, nextId>>

-----------------------------------------------------------------------------
(* LogicModuleViewSet: create, partial_update, destroy and the             *)
(* 'specification' action.                                                 *)

\* The client may send any document as the specification, here and in PATCH.
CreateModule(w, n, e, s) ==
    /\ Idle(w)
    /\ nextId \in Ids
    /\ LET c == [id  |-> nextId,
                 row |-> [name |-> n, endpoint |-> e, spec |-> s]]
       IN  /\ ~Conflict(c)
           /\ rows' = [rows EXCEPT ![c.id] = c.row]
    /\ nextId' = nextId + 1
    /\ UNCHANGED job

\* get_object() of PUT /logicmodule/<pk>/specification/.
RefreshRead(w, i) ==
    /\ Idle(w)
    /\ "refresh" \in Ops
    /\ rows[i] # NoRow
    /\ LET n == rows[i].name
       IN  job' = [job EXCEPT ![w] =
                     [NoJob EXCEPT !.kind = "refresh",
                                   !.stage = "spec",
                                   !.service = n,
                                   !.load[n] = "fetch",
                                   !.copy[n] = [id |-> i, row |-> rows[i]]]]
    /\ UNCHANGED <<rows, nextId>>

\* get_object() of PATCH; the validated fields are set on the instance.  The
\* client may send any field.
PatchRead(w, i, n, e, s) ==
    /\ Idle(w)
    /\ "patch" \in Ops
    /\ rows[i] # NoRow
    /\ s \in Sent \cup {rows[i].spec}
    /\ job' = [job EXCEPT ![w] =
                 [NoJob EXCEPT
                     !.kind = "patch",
                     !.stage = "spec",
                     !.service = n,
                     !.load[n] = "save",
                     !.copy[n] = [id |-> i, row |-> [name |-> n,
                                                     endpoint |-> e,
                                                     spec |-> s]]]]
    /\ UNCHANGED <<rows, nextId>>

\* serializer.save() -> LogicModule.save() in both.
AdminSave(w, n) ==
    /\ MaySave(w, n)
    /\ job[w].kind \in {"refresh", "patch"}
    /\ LET c == job[w].copy[n]
       IN  /\ ~Conflict(c)
           /\ rows' = [rows EXCEPT ![c.id] = Written(c)]
    /\ Answer(w, "ok")
    /\ UNCHANGED nextId

DeleteModule(w, i) ==
    /\ Idle(w)
    /\ "delete" \in Ops
    /\ rows[i] # NoRow
    /\ rows' = [rows EXCEPT ![i] = NoRow]
    /\ UNCHANGED <<nextId, job>>

-----------------------------------------------------------------------------
(* The swagger aggregator: one pass over a snapshot of the modules.        *)

\* get_swagger_urls(): name -> URL; the last row wins for a repeated name.
AggregateStart(w, conf) ==
    /\ Idle(w)
    /\ "aggregate" \in Ops
    /\ \A n \in Names :
           conf[n] \in IF Found(n) = {} THEN {NoSpec}
                       ELSE {rows[i].endpoint : i \in Found(n)}
    /\ job' = [job EXCEPT ![w] =
                 [NoJob EXCEPT
                     !.kind = "aggregate",
                     !.stage = "spec",
                     !.conf = conf,
                     !.load = [n \in Names |->
                                  IF conf[n] = NoSpec THEN "ready" ELSE "todo"]]]
    /\ UNCHANGED <<rows, nextId>>

Aggregating(w) == job[w].kind = "aggregate" /\ job[w].stage = "spec"

\* values_list('api_specification').filter(endpoint_name=n).first()
AggregateRead(w, n) ==
    /\ Aggregating(w)
    /\ job[w].load[n] = "todo"
    /\ Loading(job[w]) = {}
    /\ \E s \in IF Found(n) = {} THEN {NoSpec}
                ELSE {rows[i].spec : i \in Found(n)} :
           job' = [job EXCEPT ![w].load[n] =
                      IF s = NoSpec THEN "fetch" ELSE "ready"]
    /\ UNCHANGED <<rows, nextId>>

\* The answer of the URL the pass started with.
AggregateFetch(w, n, doc) ==
    /\ Aggregating(w)
    /\ job[w].load[n] = "fetch"
    /\ doc \in Served(job[w].conf[n])
    /\ job' = [job EXCEPT ![w].load[n] = "save", ![w].doc = doc]
    /\ UNCHANGED <<rows, nextId>>

\* A bug: a service that cannot be reached is tried again and again.
Mutant_AggregateSkip(w, n) ==
    /\ Aggregating(w)
    /\ job[w].load[n] = "fetch"
    /\ job' = [job EXCEPT ![w].load[n] = "todo"]
    /\ UNCHANGED <<rows, nextId>>

\* ConnectionError, TimeoutError, ValueError: the service is left out.
AggregateSkip(w, n) ==
    /\ Aggregating(w)
    /\ job[w].load[n] = "fetch"
    /\ job' = [job EXCEPT ![w].load[n] = "ready"]
    /\ UNCHANGED <<rows, nextId>>

\* Any other exception, requests.ReadTimeout for one, ends the pass.
AggregateFails(w, n) ==
    /\ Aggregating(w)
    /\ job[w].load[n] = "fetch"
    /\ Answer(w, "remoteError")
    /\ UNCHANGED <<rows, nextId>>

\* filter(endpoint_name=n).update(api_specification=...): one column of every
\* row with that name.
AggregateStore(w, n) ==
    /\ Aggregating(w)
    /\ job[w].load[n] = "save"
    /\ rows' = [i \in Ids |-> IF i \in Found(n)
                              THEN [rows[i] EXCEPT !.spec = job[w].doc]
                              ELSE rows[i]]
    /\ job' = [job EXCEPT ![w].load[n] = "ready", ![w].doc = NoSpec]
    /\ UNCHANGED nextId

\* What the pass has collected is merged (SwaggerMerge); null for one, or a
\* number, ends that with a TypeError.
AggregateDone(w) ==
    /\ Aggregating(w)
    /\ \A n \in Names : job[w].load[n] = "ready"
    /\ \E a \in {"ok", "badSpec"} : Answer(w, a)
    /\ UNCHANGED <<rows, nextId>>

-----------------------------------------------------------------------------

\* The response leaves; everything the request held in memory is dropped.
Respond(w) ==
    /\ ~Idle(w)
    /\ job[w].stage = "done"
    /\ job' = [job EXCEPT ![w] = NoJob]
    /\ UNCHANGED <<rows, nextId>>

\* gunicorn replaces a worker that is silent for its timeout of 90 seconds.
WorkerTimeout(w) ==
    /\ ~Idle(w)
    /\ job[w].stage # "done"
    /\ job' = [job EXCEPT ![w] = NoJob]
    /\ UNCHANGED <<rows, nextId>>

\* The steps of a request that has been accepted.
Progresses(w) ==
    \/ \E n \in Names :
          \/ ReadInEventLoop(w, n)
          \/ ReadMissing(w, n)
          \/ ReadAmbiguous(w, n)
          \/ \E i \in Ids : \/ ReadCached(w, n, i)
                           \/ ReadStored(w, n, i)
                           \/ ReadUnusable(w, n, i)
                           \/ ReadEmpty(w, n, i)
          \/ \E doc \in Specs : FetchSpec(w, n, doc)
          \/ FetchFails(w, n)
          \/ SaveSpec(w, n)
          \/ SaveUnusable(w, n)
          \/ SaveConflict(w, n)
          \/ AdminSave(w, n)
          \/ AggregateRead(w, n)
          \/ \E doc \in Specs : AggregateFetch(w, n, doc)
          \/ AggregateSkip(w, n)
          \/ AggregateFails(w, n)
          \/ AggregateStore(w, n)
    \/ \E related \in SUBSET Names : CallService(w, related)
    \/ CallFails(w)
    \/ JoinDone(w)
    \/ AggregateDone(w)
    \/ Respond(w)

\* The requests that clients and administrators may send, and the timeout.
Arrives(w) ==
    \/ \E kind \in Gateway, n \in Names : OpenRequest(w, kind, n)
    \/ \E n \in Names, e \in Endpoints, s \in Sent : CreateModule(w, n, e, s)
    \/ \E i \in Ids : RefreshRead(w, i)
    \/ \E i \in Ids, n \in Names, e \in Endpoints, s \in Specs :
          PatchRead(w, i, n, e, s)
    \/ \E i \in Ids : DeleteModule(w, i)
    \/ \E conf \in [Names -> Endpoints \cup {NoSpec}] : AggregateStart(w, conf)
    \/ WorkerTimeout(w)

Next == \E w \in Workers : Progresses(w) \/ Arrives(w)

Spec == Init /\ [][Next]_vars

\* A worker process runs the request it has accepted: each remote call
\* answers, fails, or is ended by the timeout.
FairSpec == Spec /\ \A w \in Workers : WF_vars(Progresses(w))

-----------------------------------------------------------------------------
(* Properties.                                                             *)

TypeOK ==
    /\ rows \in [Ids -> Row \cup {NoRow}]
    /\ nextId \in 1..(MaxModules + 1)
    /\ job \in [Workers -> Job]

Stored(i) == rows[i] # NoRow /\ rows[i].spec # NoSpec

\* The stored specification, if there is one, is not another service's than
\* the one the row names.
Agrees(r) == r.spec \in {NoSpec, OtherDoc, r.endpoint}

\* A gateway request or a refresh that is about to save a whole row holds
\* together what belongs together: the document in it was fetched from that
\* row's own endpoint, even when the row was moved meanwhile.
PendingAgrees(j) ==
    \A n \in Names :
        (j.kind \in {"sync", "async", "refresh"} /\ j.load[n] = "save")
            => j.copy[n].row.spec \in Served(j.copy[n].row.endpoint)

PendingSavesAgree == \A w \in Workers : PendingAgrees(job[w])

\* What a gateway request uses as the specification behind a URL is what one
\* of the instances it has read stores for that URL, and a service that counts
\* as loaded can be subscripted: self._specs[schema_url] does not fail.
CacheFollowsReads ==
    \A w \in Workers : job[w].kind \in Gateway =>
        /\ \A e \in Endpoints : job[w].specs[e] # NoSpec =>
              \E n \in Names : /\ job[w].load[n] = "ready"
                               /\ job[w].copy[n].row.endpoint = e
                               /\ job[w].copy[n].row.spec = job[w].specs[e]
        /\ \A n \in Names : job[w].load[n] = "ready" =>
              job[w].specs[job[w].copy[n].row.endpoint] # NoSpec

\* Worker w has an edit of row i to save for n, and this step stores it.
EditSaved(w, n, i) ==
    /\ job[w].kind = "patch"
    /\ job[w].load[n] = "save"
    /\ job[w].copy[n].id = i
    /\ rows'[i] = job[w].copy[n].row

\* Worker w's aggregation stores in this step, in a row named n, what the URL
\* it knows for the name has answered.
ColumnStored(w, n, i) ==
    /\ job[w].kind = "aggregate"
    /\ job[w].load[n] = "save"
    /\ rows[i] # NoRow
    /\ rows[i].name = n
    /\ rows'[i] = [rows[i] EXCEPT !.spec = job[w].doc]

\* A row comes to hold the specification of another service than the one it
\* names only when an administrator's edit is saved, or when the aggregator,
\* which goes by the name alone, stores what it fetched from an endpoint that
\* is not the row's: the row has moved since the pass began, or it is a second
\* module of the name.  The gateway and the refresh write the whole row, so
\* they cannot combine one writer's endpoint with another one's specification.
OnlyEditOrNameMakesStale ==
    [][\A i \in Ids :
          (rows[i] # NoRow /\ Agrees(rows[i]) /\ rows'[i] # NoRow
               /\ ~Agrees(rows'[i]))
          => \E w \in Workers, n \in Names :
                \/ EditSaved(w, n, i)
                \/ ColumnStored(w, n, i) /\ job[w].conf[n] # rows[i].endpoint]_vars

\* Worker w saves for n, in this step, row i as it has fetched it.
FetchedSaved(w, n, i) ==
    /\ job[w].kind \in {"sync", "async", "refresh"}
    /\ job[w].load[n] = "save"
    /\ job[w].copy[n].id = i
    /\ rows'[i] = job[w].copy[n].row

\* NULL is written over a stored specification only by an edit, whose whole-row
\* save may carry the NULL of an older read, or as the answer of a service that
\* publishes null: to a request that read the row while it was NULL, to a
\* refresh, or to the aggregator under the row's name.  For services that do
\* not publish null, whatever copies the workers hold, no gateway request,
\* refresh or aggregation takes a stored specification away.
StoredSpecStays ==
    [][\A i \in Ids :
          (Stored(i) /\ rows'[i] # NoRow /\ rows'[i].spec = NoSpec)
          => \E w \in Workers, n \in Names :
                \/ EditSaved(w, n, i)
                \/ /\ FetchedSaved(w, n, i)
                   /\ rows'[i].endpoint \in NullServices
                \/ /\ ColumnStored(w, n, i)
                   /\ job[w].conf[n] \in NullServices]_vars

\* gateway/request.py:257 and the asynchronous _get_swagger_spec docstring
\* ("adds it to specs cache"): a stored specification is used.
StoredSpecServes == \A w \in Workers : job[w].answer # "keyError"

\* Every accepted request is answered, whichever services fail and whichever
\* rows are edited or deleted meanwhile.
RequestsEnd == \A w \in Workers : ~Idle(w) ~> Idle(w)
=============================================================================
