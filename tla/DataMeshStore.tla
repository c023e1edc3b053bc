--------------------------- MODULE DataMeshStore ---------------------------
(***************************************************************************)
(* The tables of the data mesh (datamesh/models.py LogicModuleModel,       *)
(* Relationship, JoinRecord) under their concurrent writers: the JoinRecord*)
(* API (datamesh/serializers.py, datamesh/mixins.py), the view sets of     *)
(* relationships and models (datamesh/views.py) and the loadrelationships  *)
(* command.                                                                *)
(*                                                                         *)
(* One action is one committed statement: get_or_create() is a SELECT, an  *)
(* INSERT in a transaction of its own and, after an IntegrityError, the    *)
(* SELECT again.                                                           *)
(*                                                                         *)
(* The two record keys of a JoinRecord (each an id or a uuid) always occur *)
(* together, in lookups and in the four unique constraints, so the pair of *)
(* them is one value: a link.                                              *)
(***************************************************************************)
EXTENDS Integers, FiniteSets

CONSTANTS
    Workers,   \* gunicorn workers, and the process that runs the command
    Models,    \* LogicModuleModel rows that ever exist, by primary key
    Pairs,     \* the <<origin, related>> models that requests name
    Links,     \* values of (record key, related record key)
    Orgs,      \* organizations, from the session's jwt_organization_uuid
    EmptyKey,  \* Relationship.key of a relationship made for a JoinRecord
    LoadKey,   \* 'contact_siteprofile_relationship'
    MaxRels,   \* bound: Relationship rows ever inserted
    MaxJoins,  \* bound: JoinRecord rows ever inserted
    NoRow,     \* no row has this primary key
    NoOrg,     \* the organization of a request that names none
    NoLink     \* the link of a request that names none

ASSUME ConstantsAssumption ==
    /\ MaxRels \in Nat /\ MaxJoins \in Nat
    /\ Pairs \subseteq Models \X Models
    /\ Pairs # {} /\ Links # {} /\ Orgs # {}

RelIds  == 1..MaxRels
JoinIds == 1..MaxJoins
Keys    == {EmptyKey, LoadKey}
Rel     == [pair : Models \X Models, key : Keys]
Join    == [rel : RelIds, link : Links, org : Orgs]

ASSUME SentinelsAssumption == NoRow \notin Rel /\ NoRow \notin Join

VARIABLES
    models,    \* the LogicModuleModel rows
    rels,      \* the Relationship table
    joins,     \* the JoinRecord table
    nextRel,   \* fresh primary keys
    nextJoin,
    job,       \* what each worker is doing
    overlapped \* history: two requests have been in progress together

tables == <<models, rels, joins, nextRel, nextJoin>>
vars   == <<models, rels, joins, nextRel, nextJoin, job, overlapped>>

-----------------------------------------------------------------------------

Job == [op     : {"idle", "create", "update", "relcreate", "relupdate", "load"},
        stage  : {"getRel", "checkReverse", "insertRel", "saveRel", "getJoin",
                  "insertJoin", "regetJoin", "saveJoin", "purge", "done"},
        pair   : Models \X Models,
        key    : Keys,
        link   : Links \cup {NoLink},
        org    : Orgs \cup {NoOrg},
        rel    : RelIds \cup {0},          \* the relationship found or made
        join   : JoinIds \cup {0},         \* the join record found or made
        todo   : SUBSET Links,             \* the command's file, still to do
        kept   : SUBSET JoinIds,           \* eligible_join_records
        answer : {"none", "ok", "invalid", "ambiguous", "conflict"}]

NoJob == [op     |-> "idle",
          stage  |-> "done",
          pair   |-> CHOOSE p \in Pairs : TRUE,
          key    |-> EmptyKey,
          link   |-> NoLink,
          org    |-> NoOrg,
          rel    |-> 0,
          join   |-> 0,
          todo   |-> {},
          kept   |-> {},
          answer |-> "none"]

Idle(w) == job[w].op = "idle"

At(w, stage) == ~Idle(w) /\ job[w].stage = stage

Goto(w, stage) == job' = [job EXCEPT ![w].stage = stage]

\* What a worker still holds when the response is ready.
Done(j, a) == [NoJob EXCEPT !.op = j.op, !.answer = a, !.kept = j.kept,
                            !.rel = IF j.op = "load" THEN j.rel ELSE 0]

Answer(w, a) == job' = [job EXCEPT ![w] = Done(@, a)]

Reverse(p) == <<p[2], p[1]>>

\* Relationship rows a get_or_create looks for; only the command names a key.
RelsFor(j) == {r \in RelIds : /\ rels[r] # NoRow
                              /\ rels[r].pair = j.pair
                              /\ j.op = "load" => rels[r].key = j.key}

\* A bug: the organization is a default in the API's lookup, too.
Mutant_JoinsFor(j) == {k \in JoinIds : /\ joins[k] # NoRow
                                       /\ joins[k].rel = j.rel
                                       /\ joins[k].link = j.link}

\* JoinRecord rows a get_or_create looks for; the command passes the
\* organization as a default, not as part of the lookup.
JoinsFor(j) == {k \in JoinIds : /\ joins[k] # NoRow
                                /\ joins[k].rel = j.rel
                                /\ joins[k].link = j.link
                                /\ j.op # "load" => joins[k].org = j.org}

\* The unique constraints: relationship and the two record keys, whatever the
\* organization.
Taken(k, row) == \E m \in JoinIds \ {k} : /\ joins[m] # NoRow
                                          /\ joins[m].rel = row.rel
                                          /\ joins[m].link = row.link

\* Foreign keys.
Dangling(row) == rels[row.rel] = NoRow

Init ==
    /\ models = Models
    /\ rels = [r \in RelIds |-> NoRow]
    /\ joins = [k \in JoinIds |-> NoRow]
    /\ nextRel = 1
    /\ nextJoin = 1
    /\ job = [w \in Workers |-> NoJob]
    /\ overlapped = FALSE

-----------------------------------------------------------------------------
(* Requests.                                                               *)

\* POST /joinrecords/.  The choices of model names are kept per process and
\* never shrink, so the name of any model that ever existed may be accepted.
CreateJoin(w, p, l, g) ==
    /\ Idle(w)
    /\ job' = [job EXCEPT ![w] = [NoJob EXCEPT !.op = "create",
                                               !.stage = "getRel",
                                               !.pair = p,
                                               !.link = l,
                                               !.org = g]]
    /\ UNCHANGED tables

\* A bug: the queryset is not filtered, and the record saved with the session's
\* organization.
Mutant_UpdateJoin(w, k, p, l) ==
    /\ Idle(w)
    /\ joins[k] # NoRow
    /\ \E g \in Orgs :
          job' = [job EXCEPT ![w] = [NoJob EXCEPT !.op = "update",
                                                  !.stage = "getRel",
                                                  !.pair = p,
                                                  !.link = l,
                                                  !.org = g,
                                                  !.join = k]]
    /\ UNCHANGED tables

\* PUT /joinrecords/<k>/: the queryset holds the session's organization's
\* records only; the instance keeps the organization it was read with.
UpdateJoin(w, k, p, l) ==
    /\ Idle(w)
    /\ joins[k] # NoRow
    /\ job' = [job EXCEPT ![w] = [NoJob EXCEPT !.op = "update",
                                               !.stage = "getRel",
                                               !.pair = p,
                                               !.link = l,
                                               !.org = joins[k].org,
                                               !.join = k]]
    /\ UNCHANGED tables

DeleteJoin(w, k) ==
    /\ Idle(w)
    /\ joins[k] # NoRow
    /\ joins' = [joins EXCEPT ![k] = NoRow]
    /\ UNCHANGED <<models, rels, nextRel, nextJoin, job>>

\* POST /relationships/
CreateRel(w, p, key) ==
    /\ Idle(w)
    /\ job' = [job EXCEPT ![w] = [NoJob EXCEPT !.op = "relcreate",
                                               !.stage = "checkReverse",
                                               !.pair = p,
                                               !.key = key]]
    /\ UNCHANGED tables

\* PUT /relationships/<r>/
UpdateRel(w, r, p, key) ==
    /\ Idle(w)
    /\ rels[r] # NoRow
    /\ job' = [job EXCEPT ![w] = [NoJob EXCEPT !.op = "relupdate",
                                               !.stage = "checkReverse",
                                               !.pair = p,
                                               !.key = key,
                                               !.rel = r]]
    /\ UNCHANGED tables

\* What on_delete=CASCADE leaves of the joins when relationships rs go.
JoinsWithout(rs) ==
    [k \in JoinIds |-> IF joins[k] # NoRow /\ joins[k].rel \in rs
                       THEN NoRow ELSE joins[k]]

DeleteRel(w, r) ==
    /\ Idle(w)
    /\ rels[r] # NoRow
    /\ rels' = [rels EXCEPT ![r] = NoRow]
    /\ joins' = JoinsWithout({r})
    /\ UNCHANGED <<models, nextRel, nextJoin, job>>

DeleteModel(w, m) ==
    /\ Idle(w)
    /\ m \in models
    /\ models' = models \ {m}
    /\ LET gone == {r \in RelIds : rels[r] # NoRow
                        /\ m \in {rels[r].pair[1], rels[r].pair[2]}}
       IN  /\ rels' = [r \in RelIds |-> IF r \in gone THEN NoRow ELSE rels[r]]
           /\ joins' = JoinsWithout(gone)
    /\ UNCHANGED <<nextRel, nextJoin, job>>

\* manage.py loadrelationships with a file of links ls (contacts whose
\* organization is unknown are left out); the two models are there.
Load(w, p, ls) ==
    /\ Idle(w)
    /\ {p[1], p[2]} \subseteq models
    /\ job' = [job EXCEPT ![w] = [NoJob EXCEPT !.op = "load",
                                               !.stage = "getRel",
                                               !.pair = p,
                                               !.key = LoadKey,
                                               !.todo = ls]]
    /\ UNCHANGED tables

-----------------------------------------------------------------------------
(* Relationship.objects.get_or_create() and Relationship.save().           *)

\* Where a request goes on once it has its relationship.
AfterRel(j) == CASE j.op = "create" -> "getJoin"
                 [] j.op = "update" -> "saveJoin"
                 [] j.op = "load"   -> "purge"

GetRelFound(w, r) ==
    /\ At(w, "getRel")
    /\ RelsFor(job[w]) = {r}
    /\ job' = [job EXCEPT ![w].rel = r, ![w].stage = AfterRel(job[w])]
    /\ UNCHANGED tables

\* Relationship.MultipleObjectsReturned
GetRelAmbiguous(w) ==
    /\ At(w, "getRel")
    /\ Cardinality(RelsFor(job[w])) > 1
    /\ Answer(w, "ambiguous")
    /\ UNCHANGED tables

\* A bug: a relationship is always created.
Mutant_GetRelMissing(w) ==
    /\ At(w, "getRel")
    /\ Goto(w, "checkReverse")
    /\ UNCHANGED tables

GetRelMissing(w) ==
    /\ At(w, "getRel")
    /\ RelsFor(job[w]) = {}
    /\ Goto(w, "checkReverse")
    /\ UNCHANGED tables

ReverseExists(p) == \E r \in RelIds : rels[r] # NoRow /\ rels[r].pair = Reverse(p)

\* A bug: save() does not call validate_reverse_relationship_absence().
Mutant_CheckReverse(w) ==
    /\ At(w, "checkReverse")
    /\ Goto(w, IF job[w].rel = 0 THEN "insertRel" ELSE "saveRel")
    /\ UNCHANGED tables

\* validate_reverse_relationship_absence()
CheckReverse(w) ==
    /\ At(w, "checkReverse")
    /\ ~ReverseExists(job[w].pair)
    /\ Goto(w, IF job[w].rel = 0 THEN "insertRel" ELSE "saveRel")
    /\ UNCHANGED tables

\* ValidationError("Reverse relationship already exists.")
CheckReverseFails(w) ==
    /\ At(w, "checkReverse")
    /\ ReverseExists(job[w].pair)
    /\ Answer(w, "invalid")
    /\ UNCHANGED tables

ModelsExist(p) == p[1] \in models /\ p[2] \in models

\* A bug: related_model is null=True and not set.
Mutant_InsertRel(w) ==
    /\ At(w, "insertRel")
    /\ ModelsExist(job[w].pair)
    /\ nextRel \in RelIds
    /\ rels' = [rels EXCEPT ![nextRel] = [pair |-> <<job[w].pair[1]>>,
                                          key  |-> job[w].key]]
    /\ nextRel' = nextRel + 1
    /\ job' = [job EXCEPT ![w].rel = nextRel, ![w].stage = AfterRel(job[w])]
    /\ UNCHANGED <<models, joins, nextJoin>>

InsertRel(w) ==
    /\ At(w, "insertRel")
    /\ ModelsExist(job[w].pair)
    /\ nextRel \in RelIds
    /\ rels' = [rels EXCEPT ![nextRel] = [pair |-> job[w].pair,
                                          key  |-> job[w].key]]
    /\ nextRel' = nextRel + 1
    /\ IF job[w].op = "relcreate"
       THEN Answer(w, "ok")
       ELSE job' = [job EXCEPT ![w].rel = nextRel, ![w].stage = AfterRel(job[w])]
    /\ UNCHANGED <<models, joins, nextJoin>>

\* Saving an instance updates its row, or inserts it again when it is gone.
SaveRel(w) ==
    /\ At(w, "saveRel")
    /\ ModelsExist(job[w].pair)
    /\ rels' = [rels EXCEPT ![job[w].rel] = [pair |-> job[w].pair,
                                             key  |-> job[w].key]]
    /\ Answer(w, "ok")
    /\ UNCHANGED <<models, joins, nextRel, nextJoin>>

\* IntegrityError, and the second get() of get_or_create finds nothing: no
\* relationship has a model that does not exist.
RelDangling(w) ==
    /\ At(w, "insertRel") \/ At(w, "saveRel")
    /\ ~ModelsExist(job[w].pair)
    /\ Answer(w, "conflict")
    /\ UNCHANGED tables

-----------------------------------------------------------------------------
(* JoinRecord.objects.get_or_create() and JoinRecord.save().               *)

\* The request is answered, or the command goes on with its file.
JoinKept(w, k) ==
    IF job[w].op = "load"
    THEN job' = [job EXCEPT ![w].kept = @ \cup {k}, ![w].stage = "purge"]
    ELSE job' = [job EXCEPT ![w] = [Done(@, "ok") EXCEPT !.join = k]]

\* The lookup: stage getJoin, or regetJoin after an IntegrityError.
GetJoinFound(w, k) ==
    /\ At(w, "getJoin") \/ At(w, "regetJoin")
    /\ JoinsFor(job[w]) = {k}
    /\ JoinKept(w, k)
    /\ UNCHANGED tables

GetJoinMissing(w) ==
    /\ At(w, "getJoin")
    /\ JoinsFor(job[w]) = {}
    /\ Goto(w, "insertJoin")
    /\ UNCHANGED tables

\* The IntegrityError is raised again.
RegetJoinMissing(w) ==
    /\ At(w, "regetJoin")
    /\ JoinsFor(job[w]) = {}
    /\ Answer(w, "conflict")
    /\ UNCHANGED tables

NewJoin(j) == [rel |-> j.rel, link |-> j.link, org |-> j.org]

InsertJoin(w) ==
    /\ At(w, "insertJoin")
    /\ ~Dangling(NewJoin(job[w]))
    /\ ~Taken(0, NewJoin(job[w]))
    /\ nextJoin \in JoinIds
    /\ joins' = [joins EXCEPT ![nextJoin] = NewJoin(job[w])]
    /\ nextJoin' = nextJoin + 1
    /\ JoinKept(w, nextJoin)
    /\ UNCHANGED <<models, rels, nextRel>>

\* IntegrityError
InsertJoinRefused(w) ==
    /\ At(w, "insertJoin")
    /\ Dangling(NewJoin(job[w])) \/ Taken(0, NewJoin(job[w]))
    /\ Goto(w, "regetJoin")
    /\ UNCHANGED tables

\* instance.save(): an update, or an insertion when the row is gone.
SaveJoin(w) ==
    /\ At(w, "saveJoin")
    /\ ~Dangling(NewJoin(job[w]))
    /\ ~Taken(job[w].join, NewJoin(job[w]))
    /\ joins' = [joins EXCEPT ![job[w].join] = NewJoin(job[w])]
    /\ Answer(w, "ok")
    /\ UNCHANGED <<models, rels, nextRel, nextJoin>>

SaveJoinRefused(w) ==
    /\ At(w, "saveJoin")
    /\ Dangling(NewJoin(job[w])) \/ Taken(job[w].join, NewJoin(job[w]))
    /\ Answer(w, "conflict")
    /\ UNCHANGED tables

-----------------------------------------------------------------------------
(* The rest of the command: a get_or_create per link, then the purge.      *)

\* Each contact names its own organization.
LoadLink(w, l, g) ==
    /\ At(w, "purge")
    /\ l \in job[w].todo
    /\ job' = [job EXCEPT ![w].link = l,
                          ![w].org = g,
                          ![w].todo = @ \ {l},
                          ![w].stage = "getJoin"]
    /\ UNCHANGED tables

\* A bug: the records found, not created, are left out of the eligible ones.
Mutant_Purge(w) ==
    /\ At(w, "purge")
    /\ job[w].todo = {}
    /\ joins' = [k \in JoinIds |->
                    IF joins[k] # NoRow /\ joins[k].rel = job[w].rel
                    THEN NoRow ELSE joins[k]]
    /\ Answer(w, "ok")
    /\ UNCHANGED <<models, rels, nextRel, nextJoin>>

\* Every other record of the relationship is deleted.
Purge(w) ==
    /\ At(w, "purge")
    /\ job[w].todo = {}
    /\ joins' = [k \in JoinIds |->
                    IF /\ joins[k] # NoRow
                       /\ joins[k].rel = job[w].rel
                       /\ k \notin job[w].kept
                    THEN NoRow ELSE joins[k]]
    /\ Answer(w, "ok")
    /\ UNCHANGED <<models, rels, nextRel, nextJoin>>

\* The response leaves, or the command ends.
Respond(w) ==
    /\ At(w, "done")
    /\ job' = [job EXCEPT ![w] = NoJob]
    /\ UNCHANGED tables

\* gunicorn replaces a silent worker, the command is interrupted; what it has
\* committed stays.
WorkerStops(w) ==
    /\ ~Idle(w)
    /\ job[w].stage # "done"
    /\ job' = [job EXCEPT ![w] = NoJob]
    /\ UNCHANGED tables

-----------------------------------------------------------------------------

Progresses(w) ==
    \/ \E r \in RelIds : GetRelFound(w, r)
    \/ GetRelAmbiguous(w)
    \/ GetRelMissing(w)
    \/ CheckReverse(w)
    \/ CheckReverseFails(w)
    \/ InsertRel(w)
    \/ SaveRel(w)
    \/ RelDangling(w)
    \/ \E k \in JoinIds : GetJoinFound(w, k)
    \/ GetJoinMissing(w)
    \/ RegetJoinMissing(w)
    \/ InsertJoin(w)
    \/ InsertJoinRefused(w)
    \/ SaveJoin(w)
    \/ SaveJoinRefused(w)
    \/ \E l \in Links, g \in Orgs : LoadLink(w, l, g)
    \/ Purge(w)
    \/ Respond(w)

Arrives(w) ==
    \/ \E p \in Pairs, l \in Links, g \in Orgs : CreateJoin(w, p, l, g)
    \/ \E k \in JoinIds, p \in Pairs, l \in Links : UpdateJoin(w, k, p, l)
    \/ \E k \in JoinIds : DeleteJoin(w, k)
    \/ \E p \in Pairs, key \in Keys : CreateRel(w, p, key)
    \/ \E r \in RelIds, p \in Pairs, key \in Keys : UpdateRel(w, r, p, key)
    \/ \E r \in RelIds : DeleteRel(w, r)
    \/ \E m \in Models : DeleteModel(w, m)
    \/ \E p \in Pairs, ls \in SUBSET Links : Load(w, p, ls)
    \/ WorkerStops(w)

\* Another request is in progress when one of w arrives.
Overlaps(w) == \E v \in Workers \ {w} : ~Idle(v)

Next == \E w \in Workers :
    \/ Progresses(w) /\ UNCHANGED overlapped
    \/ Arrives(w) /\ overlapped' = (overlapped \/ Overlaps(w))

Spec == Init /\ [][Next]_vars

-----------------------------------------------------------------------------
(* Properties.                                                             *)

TypeOK ==
    /\ models \subseteq Models
    /\ rels \in [RelIds -> Rel \cup {NoRow}]
    /\ joins \in [JoinIds -> Join \cup {NoRow}]
    /\ nextRel \in 1..(MaxRels + 1)
    /\ nextJoin \in 1..(MaxJoins + 1)
    /\ job \in [Workers -> Job]
    /\ overlapped \in BOOLEAN

\* Worker w has read join record k to save it: read it in its organization's
\* queryset and not answered yet.
Updating(w, k) ==
    job[w].op = "update" /\ job[w].stage # "done" /\ job[w].join = k

\* A join record belongs to the organization that created it, for good: however
\* PUTs, deletions, cascades and the command overlap, every PUT of a record in
\* progress will save it for the organization it is stored for, and those of a
\* record that is gone, which bring it back, for the same one.
RecordKeepsOwner ==
    \A w \in Workers, k \in JoinIds : Updating(w, k) =>
        /\ joins[k] # NoRow => joins[k].org = job[w].org
        /\ \A v \in Workers : Updating(v, k) => job[v].org = job[w].org

\* The relationship w has found or made, if it is still there, relates the two
\* models that were asked for.
RelatesAsked(w) ==
    LET r == job[w].rel
    IN  r \in RelIds => rels[r] = NoRow \/ rels[r].pair = job[w].pair

Creating(w) == job[w].op = "create" /\ job[w].answer = "none"

\* The PUT v is answered: it has saved relationship r.
PutSaves(v, r) == At(v, "saveRel") /\ job[v].rel = r /\ job'[v].answer = "ok"

\* Whatever races with it, a POST is answered with a record that is stored at
\* that moment, with the link asked for, in the sender's organization, of the
\* relationship that the POST found or made.  This one relates the two models
\* asked for until the answer, unless a PUT of that relationship changes it.
CreatedIsThere ==
    [][\A w \in Workers : Creating(w) =>
          /\ job'[w].answer = "ok" => joins'[job'[w].join] = NewJoin(job[w])
          /\ Creating(w)' /\ RelatesAsked(w) =>
                RelatesAsked(w)' \/ \E v \in Workers : PutSaves(v, job[w].rel)]_vars

\* "Validate reverse relationship does not exist already.": requests one at a
\* time, two models are related in one direction only.
NoReversePair ==
    ~overlapped => \A q, r \in RelIds : (q # r /\ rels[q] # NoRow /\ rels[r] # NoRow)
                            => rels[q].pair # Reverse(rels[r].pair)

\* "get_or_create `Relationship`s and save in case it is not already
\* existing": alone, a request about a join record or the command makes no
\* second relationship of a pair and key.
OneRelationship ==
    [][(~overlapped /\ \E w \in Workers : job[w].op \in {"create", "update", "load"})
          => \A r \in RelIds : (rels[r] = NoRow /\ rels'[r] # NoRow)
                => \A q \in RelIds : rels[q] # rels'[r]]_vars

\* "delete not eligible JoinRecords in this relationship": run alone, the
\* command leaves the records of its file and no other.
LoadedExactly ==
    ~overlapped => \A w \in Workers : (job[w].op = "load" /\ job[w].answer = "ok") =>
        job[w].kept = {k \in JoinIds : joins[k] # NoRow /\ joins[k].rel = job[w].rel}
=============================================================================
