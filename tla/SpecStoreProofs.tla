-------------------------- MODULE SpecStoreProofs --------------------------
(***************************************************************************)
(* Theorems about SpecStore, for any number of workers, services,          *)
(* endpoints and rows.                                                     *)
(***************************************************************************)
EXTENDS SpecStore, TLAPS, FiniteSetTheorems

-----------------------------------------------------------------------------
(* The inductive invariant.                                                *)

\* A request that fetches, saves or has loaded a specification holds the
\* instance it belongs to.
HeldCopies(j) ==
    \A n \in Names :
        (j.kind \in {"sync", "async", "refresh", "patch"} /\ j.load[n] # "todo")
            => j.copy[n] \in Copy

\* An aggregation only works on names for which it has a URL.
ConfiguredNames(j) ==
    \A n \in Names :
        (j.kind = "aggregate" /\ j.load[n] # "ready") => j.conf[n] # NoSpec

\* The sequence has handed out the primary key of every instance in memory.
KnownIds(j) == \A n \in Names : j.copy[n] \in Copy => j.copy[n].id < nextId

\* An aggregation fetches one service at a time, and what it holds was
\* published at the URL it has for the name it is about to store it under.
PassAgrees(j) ==
    j.kind = "aggregate" =>
        /\ \A n \in Names :
              j.load[n] = "save" => j.doc \in Served(j.conf[n])
        /\ \A n, m \in Names :
              {j.load[n], j.load[m]} \subseteq {"fetch", "save"} => n = m

JobInv(j) == /\ HeldCopies(j)
             /\ PassAgrees(j)
             /\ ConfiguredNames(j)
             /\ KnownIds(j)
             /\ PendingAgrees(j)

\* No row has a primary key that the sequence has not handed out yet.
FreshIds == \A i \in Ids : i >= nextId => rows[i] = NoRow

IInv ==
    /\ TypeOK
    /\ FreshIds
    /\ \A w \in Workers : JobInv(job[w])

\* The two fetches, whatever the answer says.
Fetches(w, n) == \E doc \in Specs : FetchSpec(w, n, doc)
PassFetches(w, n) == \E doc \in Specs : AggregateFetch(w, n, doc)

-----------------------------------------------------------------------------
(* Steps that change one worker's job.                                     *)

\* The job of an idle worker is a job.
LEMMA NoJobType == NoJob \in Job
  BY ConstantsAssumption DEF NoJob, Job, Kinds, Progress, Specs, Answers

\* What is fetched is a document or null.
LEMMA ServedType == \A e \in Endpoints : Served(e) \subseteq Specs
  BY DEF Served, Specs

\* Null is served by those who publish it, a specification by its own service.
LEMMA ServedFrom ==
  ASSUME NEW e \in Endpoints
  PROVE  /\ NoSpec \in Served(e) => e \in NullServices
         /\ \A doc \in Served(e) : doc \in {NoSpec, OtherDoc, e}
  BY ConstantsAssumption DEF Served

\* An idle worker holds nothing.
LEMMA NoJobInv == JobInv(NoJob)
  BY SentinelsAssumption
  DEF NoJob, JobInv, HeldCopies, ConfiguredNames, KnownIds, PassAgrees,
      PendingAgrees

\* It is enough to look at the worker whose job changes.
LEMMA JobStep ==
  ASSUME IInv, NEW w \in Workers, NEW j \in Job, JobInv(j),
         job' = [job EXCEPT ![w] = j], UNCHANGED <<rows, nextId>>
  PROVE  IInv'
  BY DEF IInv, TypeOK, JobInv, HeldCopies, ConfiguredNames, FreshIds, KnownIds,
         PassAgrees, PendingAgrees

\* Answering a request leaves everything it holds as it is.
LEMMA AnswerStep ==
  ASSUME IInv, NEW w \in Workers, NEW a \in Answers, Answer(w, a),
         UNCHANGED <<rows, nextId>>
  PROVE  IInv'
  <1> DEFINE j == [job[w] EXCEPT !.stage = "done", !.answer = a]
  <1>1. job[w] \in Job
    BY DEF IInv, TypeOK
  <1>2. j \in Job
    BY <1>1 DEF Job
  <1>3. JobInv(j)
    BY <1>1 DEF IInv, JobInv, HeldCopies, ConfiguredNames, KnownIds,
                PassAgrees, PendingAgrees, Job
  <1>4. job' = [job EXCEPT ![w] = j]
    BY DEF Answer
  <1> HIDE DEF j
  <1> QED
    BY <1>2, <1>3, <1>4, JobStep

\* Dropping or finishing a request.
LEMMA DropStep ==
  ASSUME IInv, NEW w \in Workers, job' = [job EXCEPT ![w] = NoJob],
         UNCHANGED <<rows, nextId>>
  PROVE  IInv'
  BY NoJobType, NoJobInv, JobStep

\* An instance read from the table is a copy the sequence has accounted for.
LEMMA CopyOfType ==
  ASSUME IInv, NEW i \in Ids, rows[i] # NoRow
  PROVE  CopyOf(i) \in Copy /\ i < nextId
  BY DEF IInv, TypeOK, FreshIds, CopyOf, Copy, Ids

-----------------------------------------------------------------------------
(* The steps of a request that read: its job changes and no row does.      *)

\* A request that starts holding one copy, or none.
LEMMA StartStep ==
  ASSUME IInv, NEW w \in Workers, NEW kind \in Kinds \ {"delete", "aggregate"},
         NEW n \in Names, NEW p \in {"todo", "fetch", "save"}, NEW c \in Copy,
         c.id < nextId,
         p = "save" => kind = "patch",
         UNCHANGED <<rows, nextId>>,
         job' = [job EXCEPT ![w] = [NoJob EXCEPT !.kind = kind,
                                                 !.stage = "spec",
                                                 !.service = n,
                                                 !.load[n] = p,
                                                 !.copy[n] = c]]
  PROVE  IInv'
  <1> DEFINE j == [NoJob EXCEPT !.kind = kind, !.stage = "spec", !.service = n,
                                !.load[n] = p, !.copy[n] = c]
  <1>1. j \in Job
    BY NoJobType DEF Job, Progress
  <1>2. \A m \in Names \ {n} : j.load[m] = "todo" /\ j.copy[m] = NoCopy
    BY NoJobType DEF NoJob, Job
  <1>3. j.kind = kind /\ j.load[n] = p /\ j.copy[n] = c
    BY NoJobType DEF NoJob, Job
  <1> HIDE DEF j
  <1>4. JobInv(j)
    BY <1>2, <1>3, SentinelsAssumption
    DEF JobInv, HeldCopies, ConfiguredNames, KnownIds, PassAgrees,
        PendingAgrees, Kinds
  <1> QED
    BY <1>1, <1>4, JobStep DEF j

\* A new request starts with no instance and nothing to save.
LEMMA OpenStep ==
  ASSUME IInv, NEW w \in Workers, NEW kind \in Gateway, NEW n \in Names,
         OpenRequest(w, kind, n)
  PROVE  IInv'
  <1> DEFINE j == [NoJob EXCEPT !.kind = kind, !.stage = "spec", !.service = n]
  <1>1. j \in Job
    BY NoJobType DEF Job, Gateway, Kinds
  <1>2. JobInv(j)
    BY NoJobInv, NoJobType, SentinelsAssumption
    DEF JobInv, HeldCopies, ConfiguredNames, KnownIds, PassAgrees,
        PendingAgrees, NoJob, Gateway
  <1> QED
    BY <1>1, <1>2, JobStep DEF OpenRequest

\* The three ways in which a gateway request takes a row it has read.
LEMMA ReadStep ==
  ASSUME IInv, NEW w \in Workers, NEW n \in Names, NEW i \in Ids,
         \/ ReadCached(w, n, i) \/ ReadStored(w, n, i)
         \/ ReadEmpty(w, n, i)  \/ ReadUnusable(w, n, i)
  PROVE  IInv'
  <1>1. /\ job[w] \in Job
        /\ JobInv(job[w])
        /\ job[w].kind \in Gateway
        /\ rows[i] \in Row
        /\ rows[i].name = n
        /\ CopyOf(i) \in Copy
        /\ i < nextId
    BY CopyOfType DEF IInv, TypeOK, ReadCached, ReadStored, ReadEmpty,
                      ReadUnusable, Gets, CanQuery, MayRead, Found
  <1> DEFINE j(p, sp) == [job[w] EXCEPT !.copy[n] = CopyOf(i), !.load[n] = p,
                                        !.specs = sp]
  <1>2. ASSUME NEW p \in {"fetch", "ready"}, NEW sp \in [Endpoints -> Specs],
               job' = [job EXCEPT ![w] = j(p, sp)], UNCHANGED <<rows, nextId>>
        PROVE  IInv'
    <2>1. j(p, sp) \in Job
      BY <1>1 DEF Job, Progress
    <2>2. JobInv(j(p, sp))
      BY <1>1, <1>2 DEF JobInv, HeldCopies, ConfiguredNames, KnownIds,
                        PassAgrees, PendingAgrees, Gateway, Job, Progress, CopyOf
    <2> HIDE DEF j
    <2> QED
      BY <1>2, <2>1, <2>2, JobStep
  <1>3. CASE ReadCached(w, n, i)
    <2>1. job' = [job EXCEPT ![w] = j("ready", job[w].specs)]
      BY <1>1, <1>3 DEF ReadCached, Job
    <2> QED
      BY <1>1, <1>2, <1>3, <2>1 DEF ReadCached, Job
  <1>4. CASE ReadEmpty(w, n, i)
    <2>1. job' = [job EXCEPT ![w] = j("fetch", job[w].specs)]
      BY <1>1, <1>4 DEF ReadEmpty, Job
    <2> QED
      BY <1>1, <1>2, <1>4, <2>1 DEF ReadEmpty, Job
  <1>5. CASE ReadStored(w, n, i) /\ job[w].kind = "async"
    BY <1>5, AnswerStep DEF ReadStored, Answers
  <1>6. CASE ReadStored(w, n, i) /\ job[w].kind # "async"
    <2> DEFINE sp == [job[w].specs EXCEPT ![rows[i].endpoint] = rows[i].spec]
    <2>1. sp \in [Endpoints -> Specs]
      BY <1>1 DEF Job, Row
    <2>2. job' = [job EXCEPT ![w] = j("ready", sp)]
      BY <1>1, <1>6 DEF ReadStored, Job
    <2> QED
      BY <1>2, <1>6, <2>1, <2>2 DEF ReadStored
  <1>7. CASE ReadUnusable(w, n, i)
    BY <1>7, AnswerStep DEF ReadUnusable, Answers
  <1> QED
    BY <1>3, <1>4, <1>5, <1>6, <1>7

\* What is fetched comes from the endpoint of the instance held, so saving it
\* keeps the two together.
LEMMA FetchStep ==
  ASSUME IInv, NEW w \in Workers, NEW n \in Names, NEW doc \in Specs,
         FetchSpec(w, n, doc)
  PROVE  IInv'
  <1>1. /\ job[w] \in Job
        /\ JobInv(job[w])
        /\ job[w].copy[n] \in Copy
        /\ job[w].kind # "aggregate"
    BY DEF IInv, TypeOK, FetchSpec, MayFetch, JobInv, HeldCopies
  <1> DEFINE c == [job[w].copy[n] EXCEPT !.row.spec = doc]
             j == [job[w] EXCEPT !.copy[n] = c, !.load[n] = "save"]
  <1>2. /\ c \in Copy
        /\ c.id = job[w].copy[n].id
        /\ c.row.spec \in Served(c.row.endpoint)
    BY <1>1 DEF Copy, Row, FetchSpec
  <1> HIDE DEF c
  <1>3. j \in Job
    BY <1>1, <1>2 DEF Job, Progress
  <1>4. JobInv(j)
    BY <1>1, <1>2 DEF JobInv, HeldCopies, ConfiguredNames, KnownIds,
                      PassAgrees, PendingAgrees, Job
  <1>5. job' = [job EXCEPT ![w] = j]
    BY <1>1 DEF FetchSpec, c, Job, Copy, Row
  <1> QED
    BY <1>3, <1>4, <1>5, JobStep DEF FetchSpec

\* The job part of the steps that move one service's progress and nothing else.
LEMMA ProgressStep ==
  ASSUME IInv, NEW w \in Workers, NEW n \in Names, NEW p \in Progress,
         NEW stage \in {"spec", "join", "done"}, NEW join \in SUBSET Names,
         NEW sp \in [Endpoints -> Specs], NEW d \in Specs,
         p # "ready" => job[w].kind = "aggregate" /\ job[w].load[n] # "ready",
         job[w].kind = "aggregate" =>
            /\ p = "save" => d \in Served(job[w].conf[n])
            /\ p \in {"fetch", "save"} =>
                  \A m \in Names \ {n} : job[w].load[m] \notin {"fetch", "save"}
            /\ p # "save" =>
                  \A m \in Names \ {n} :
                     job[w].load[m] = "save" => d \in Served(job[w].conf[m]),
         job[w].load[n] # "todo" \/ job[w].kind = "aggregate"
  PROVE  LET j == [job[w] EXCEPT !.stage = stage, !.join = join,
                                 !.load[n] = p, !.specs = sp, !.doc = d]
         IN  j \in Job /\ JobInv(j)
  <1> DEFINE j == [job[w] EXCEPT !.stage = stage, !.join = join,
                                 !.load[n] = p, !.specs = sp, !.doc = d]
  <1>1. job[w] \in Job /\ JobInv(job[w])
    BY DEF IInv, TypeOK
  <1>2. j \in Job
    BY <1>1 DEF Job
  <1>3. /\ j.kind = job[w].kind /\ j.copy = job[w].copy
        /\ j.conf = job[w].conf /\ j.doc = d
        /\ j.load = [job[w].load EXCEPT ![n] = p]
        /\ job[w].load \in [Names -> Progress]
    BY <1>1 DEF Job
  <1> HIDE DEF j
  <1>4. \A m \in Names : j.load[m] = IF m = n THEN p ELSE job[w].load[m]
    BY <1>3
  <1>5. HeldCopies(j) /\ ConfiguredNames(j) /\ KnownIds(j) /\ PendingAgrees(j)
    BY <1>1, <1>3, <1>4
    DEF JobInv, HeldCopies, ConfiguredNames, KnownIds, PendingAgrees
  <1>6. ASSUME j.kind = "aggregate", NEW m \in Names, j.load[m] = "save"
        PROVE  j.doc \in Served(j.conf[m])
    BY <1>1, <1>3, <1>4, <1>6
  <1>7. ASSUME j.kind = "aggregate", NEW m \in Names, NEW k \in Names,
               {j.load[m], j.load[k]} \subseteq {"fetch", "save"}
        PROVE  m = k
    BY <1>1, <1>3, <1>4, <1>7 DEF JobInv, PassAgrees
  <1>8. PassAgrees(j)
    BY <1>6, <1>7 DEF PassAgrees
  <1> QED
    BY <1>2, <1>5, <1>8 DEF j, JobInv

-----------------------------------------------------------------------------
(* The steps that write rows.                                              *)

\* A write keeps the invariant when it writes rows, no later key than those
\* in use, and the worker's new job is in order.
LEMMA WriteStep ==
  ASSUME IInv, NEW w \in Workers, NEW j \in Job, JobInv(j),
         job' = [job EXCEPT ![w] = j], nextId' = nextId,
         rows' \in [Ids -> Row \cup {NoRow}],
         \A i \in Ids : i >= nextId => rows'[i] = rows[i]
  PROVE  IInv'
  BY DEF IInv, TypeOK, JobInv, HeldCopies, ConfiguredNames, FreshIds, KnownIds,
         PassAgrees, PendingAgrees

\* A whole-row save, whoever does it.
LEMMA SavedRow ==
  ASSUME IInv, NEW w \in Workers, NEW n \in Names, MaySave(w, n),
         rows' = [rows EXCEPT ![job[w].copy[n].id] = Written(job[w].copy[n])]
  PROVE  /\ rows' \in [Ids -> Row \cup {NoRow}]
         /\ \A i \in Ids : i >= nextId => rows'[i] = rows[i]
  <1>1. /\ job[w].copy[n] \in Copy
        /\ job[w].copy[n].id < nextId
    BY DEF IInv, TypeOK, MaySave, JobInv, HeldCopies, KnownIds
  <1> QED
    BY <1>1 DEF IInv, TypeOK, Written, Copy, Ids

\* A save writes a whole row that agrees, under the key it was read with.
LEMMA SaveSpecStep ==
  ASSUME IInv, NEW w \in Workers, NEW n \in Names, SaveSpec(w, n)
  PROVE  IInv'
  <1>1. /\ job[w] \in Job
        /\ job[w].copy[n] \in Copy
        /\ job[w].load[n] = "save"
        /\ MaySave(w, n)
    BY DEF IInv, TypeOK, SaveSpec, MaySave, JobInv, HeldCopies
  <1> DEFINE c  == job[w].copy[n]
             sp == [job[w].specs EXCEPT ![c.row.endpoint] = c.row.spec]
             j  == [job[w] EXCEPT !.stage = job[w].stage, !.join = job[w].join,
                                  !.load[n] = "ready", !.specs = sp,
                                  !.doc = job[w].doc]
  <1>2. sp \in [Endpoints -> Specs]
    BY <1>1 DEF Job, Copy, Row
  <1>3. j \in Job /\ JobInv(j)
    <2>1. /\ job[w].stage \in {"spec", "join", "done"}
          /\ job[w].join \in SUBSET Names
          /\ "ready" \in Progress
          /\ job[w].load[n] # "todo"
          /\ job[w].doc \in Specs
      BY <1>1 DEF Job, Progress
    <2>2. job[w].kind # "aggregate"
      BY DEF SaveSpec, Gateway
    <2> HIDE DEF sp
    <2> QED
      BY <1>2, <2>1, <2>2, ProgressStep
  <1>4. job' = [job EXCEPT ![w] = j]
    BY <1>1 DEF SaveSpec, Job
  <1> HIDE DEF j
  <1> QED
    BY <1>1, <1>3, <1>4, SavedRow, WriteStep DEF SaveSpec

\* A save that answers the request: an edited or refreshed instance, or one
\* whose document turns out to be no specification.
LEMMA LastSaveStep ==
  ASSUME IInv, NEW w \in Workers, NEW n \in Names,
         AdminSave(w, n) \/ SaveUnusable(w, n)
  PROVE  IInv'
  <1>1. PICK a \in {"ok", "badSpec"} : Answer(w, a)
    BY DEF AdminSave, SaveUnusable
  <1> DEFINE j == [job[w] EXCEPT !.stage = "done", !.answer = a]
  <1>2. job[w] \in Job /\ JobInv(job[w])
    BY DEF IInv, TypeOK
  <1>3. j \in Job /\ JobInv(j)
    BY <1>2 DEF Job, Answers, JobInv, HeldCopies, ConfiguredNames, KnownIds,
                PassAgrees, PendingAgrees
  <1>4. job' = [job EXCEPT ![w] = j]
    BY <1>1 DEF Answer
  <1>5. /\ MaySave(w, n)
        /\ rows' = [rows EXCEPT ![job[w].copy[n].id] = Written(job[w].copy[n])]
        /\ nextId' = nextId
    BY DEF AdminSave, SaveUnusable
  <1> HIDE DEF j
  <1> QED
    BY <1>3, <1>4, <1>5, SavedRow, WriteStep

\* An insertion takes the next key, which no row and no instance has.
LEMMA CreateStep ==
  ASSUME IInv, NEW w \in Workers, NEW n \in Names, NEW e \in Endpoints,
         NEW s \in Specs, CreateModule(w, n, e, s)
  PROVE  IInv'
  <1>1. /\ nextId \in Ids
        /\ nextId' = nextId + 1
        /\ job' = job
        /\ rows' = [rows EXCEPT ![nextId] = [name |-> n, endpoint |-> e,
                                             spec |-> s]]
    BY DEF CreateModule
  <1>2. [name |-> n, endpoint |-> e, spec |-> s] \in Row
    BY DEF Row
  <1>3. TypeOK'
    BY <1>1, <1>2, ConstantsAssumption DEF IInv, TypeOK, Ids
  <1>4. FreshIds'
    BY <1>1, ConstantsAssumption DEF IInv, TypeOK, FreshIds, Ids
  <1>5. \A v \in Workers : KnownIds(job[v])'
    <2> SUFFICES ASSUME NEW v \in Workers, NEW m \in Names,
                        job[v].copy[m] \in Copy
                 PROVE  job[v].copy[m].id < nextId + 1
      BY <1>1 DEF KnownIds
    <2> QED
      BY ConstantsAssumption
      DEF IInv, TypeOK, JobInv, KnownIds, Copy, Ids
  <1> QED
    BY <1>1, <1>3, <1>4, <1>5
    DEF IInv, JobInv, HeldCopies, ConfiguredNames, PassAgrees, PendingAgrees

\* A deletion leaves the jobs alone and a free key free.
LEMMA DeleteStep ==
  ASSUME IInv, NEW w \in Workers, NEW i \in Ids, DeleteModule(w, i)
  PROVE  IInv'
  BY DEF IInv, TypeOK, FreshIds, JobInv, HeldCopies, ConfiguredNames, KnownIds,
         PassAgrees, PendingAgrees, DeleteModule

\* A refresh holds the row it has read.
LEMMA RefreshStep ==
  ASSUME IInv, NEW w \in Workers, NEW i \in Ids, RefreshRead(w, i)
  PROVE  IInv'
  <1>1. CopyOf(i) \in Copy /\ CopyOf(i).id < nextId /\ rows[i].name \in Names
    BY CopyOfType DEF RefreshRead, IInv, TypeOK, Row, CopyOf
  <1>2. job' = [job EXCEPT ![w] =
                  [NoJob EXCEPT !.kind = "refresh",
                                !.stage = "spec",
                                !.service = rows[i].name,
                                !.load[rows[i].name] = "fetch",
                                !.copy[rows[i].name] = CopyOf(i)]]
    BY DEF RefreshRead, CopyOf
  <1>3. "refresh" \in Kinds \ {"delete", "aggregate"} /\ UNCHANGED <<rows, nextId>>
    BY DEF RefreshRead, Kinds
  <1> QED
    BY <1>1, <1>2, <1>3, StartStep

\* A PATCH holds the row it has read, edited.
LEMMA PatchStep ==
  ASSUME IInv, NEW w \in Workers, NEW i \in Ids, NEW n \in Names,
         NEW e \in Endpoints, NEW s \in Specs, PatchRead(w, i, n, e, s)
  PROVE  IInv'
  <1> DEFINE c == [id |-> i, row |-> [name |-> n, endpoint |-> e, spec |-> s]]
  <1>1. c \in Copy /\ c.id < nextId
    BY CopyOfType DEF PatchRead, Copy, Row
  <1>2. job' = [job EXCEPT ![w] = [NoJob EXCEPT !.kind = "patch",
                                                !.stage = "spec",
                                                !.service = n,
                                                !.load[n] = "save",
                                                !.copy[n] = c]]
    BY DEF PatchRead
  <1> HIDE DEF c
  <1>3. "patch" \in Kinds \ {"delete", "aggregate"} /\ UNCHANGED <<rows, nextId>>
    BY DEF PatchRead, Kinds
  <1> QED
    BY <1>1, <1>2, <1>3, StartStep

\* The call of the service fixes the related services of the join.
LEMMA CallStep ==
  ASSUME IInv, NEW w \in Workers, NEW related \in SUBSET Names,
         CallService(w, related)
  PROVE  IInv'
  <1> DEFINE j == [job[w] EXCEPT !.stage = "join", !.join = related]
  <1>1. job[w] \in Job /\ JobInv(job[w])
    BY DEF IInv, TypeOK
  <1>2. j \in Job /\ JobInv(j)
    BY <1>1 DEF Job, JobInv, HeldCopies, ConfiguredNames, KnownIds, PassAgrees,
                PendingAgrees
  <1>3. job' = [job EXCEPT ![w] = j]
    BY DEF CallService
  <1> HIDE DEF j
  <1> QED
    BY <1>2, <1>3, JobStep DEF CallService

-----------------------------------------------------------------------------
(* The aggregator's steps.                                                 *)

\* The aggregator works on names it has an endpoint for.
LEMMA AggregateStartStep ==
  ASSUME IInv, NEW w \in Workers,
         NEW conf \in [Names -> Endpoints \cup {NoSpec}],
         AggregateStart(w, conf)
  PROVE  IInv'
  <1> DEFINE load == [n \in Names |->
                         IF conf[n] = NoSpec THEN "ready" ELSE "todo"]
             j == [NoJob EXCEPT !.kind = "aggregate", !.stage = "spec",
                                !.conf = conf, !.load = load]
  <1>1. load \in [Names -> Progress]
    BY DEF Progress
  <1>2. j \in Job
    BY <1>1, NoJobType DEF Job, Kinds
  <1>3. /\ j.kind = "aggregate"
        /\ j.conf = conf
        /\ j.load = load
        /\ \A n \in Names : j.copy[n] = NoCopy /\ load[n] \in {"ready", "todo"}
    BY NoJobType DEF NoJob, Job
  <1>4. job' = [job EXCEPT ![w] = j]
    BY DEF AggregateStart
  <1> HIDE DEF j
  <1>5. JobInv(j)
    BY <1>3, SentinelsAssumption
    DEF JobInv, HeldCopies, ConfiguredNames, KnownIds, PassAgrees,
        PendingAgrees
  <1> QED
    BY <1>2, <1>4, <1>5, JobStep DEF AggregateStart

\* A name moves on, through the read, the fetch, the failure or the store.
LEMMA AggregateMove ==
  ASSUME IInv, NEW w \in Workers, NEW n \in Names, NEW p \in Progress,
         NEW d \in Specs, Aggregating(w), job[w].load[n] # "ready",
         p \in {"fetch", "save"} =>
             \A m \in Names \ {n} : job[w].load[m] \notin {"fetch", "save"},
         p = "save" => d \in Served(job[w].conf[n]),
         \A m \in Names \ {n} :
             job[w].load[m] = "save" => d \in Served(job[w].conf[m]),
         nextId' = nextId,
         rows' \in [Ids -> Row \cup {NoRow}],
         \A i \in Ids : i >= nextId => rows'[i] = rows[i],
         job' = [job EXCEPT ![w].load[n] = p, ![w].doc = d]
  PROVE  IInv'
  <1> DEFINE j == [job[w] EXCEPT !.stage = job[w].stage, !.join = job[w].join,
                                 !.load[n] = p, !.specs = job[w].specs,
                                 !.doc = d]
  <1>1. job[w] \in Job
    BY DEF IInv, TypeOK
  <1>2. j \in Job /\ JobInv(j)
    <2>1. /\ job[w].stage \in {"spec", "join", "done"}
          /\ job[w].join \in SUBSET Names
          /\ job[w].specs \in [Endpoints -> Specs]
      BY <1>1 DEF Job
    <2> QED
      BY <2>1, ProgressStep DEF Aggregating
  <1>3. job' = [job EXCEPT ![w] = j]
    BY <1>1 DEF Job
  <1> HIDE DEF j
  <1> QED
    BY <1>2, <1>3, WriteStep

\* The aggregator writes one column, of rows that exist.
LEMMA AggregateStep ==
  ASSUME IInv, NEW w \in Workers, NEW n \in Names,
         \/ AggregateRead(w, n)
         \/ \E doc \in Specs : AggregateFetch(w, n, doc)
         \/ AggregateSkip(w, n)
         \/ AggregateStore(w, n)
  PROVE  IInv'
  <1>1. /\ rows \in [Ids -> Row \cup {NoRow}]
        /\ job[w] \in Job
        /\ job[w].doc \in Specs
        /\ PassAgrees(job[w])
        /\ Aggregating(w)
        /\ job[w].kind = "aggregate"
    BY DEF IInv, TypeOK, JobInv, Job, AggregateRead, AggregateFetch,
           AggregateSkip, AggregateStore, Aggregating
  <1>2. CASE AggregateRead(w, n)
    <2>1. PICK s \in Specs \cup {rows[i].spec : i \in Found(n)} :
              job' = [job EXCEPT ![w].load[n] =
                         IF s = NoSpec THEN "fetch" ELSE "ready"]
      BY <1>2 DEF AggregateRead, Specs
    <2> DEFINE p == IF s = NoSpec THEN "fetch" ELSE "ready"
    <2>2. p \in Progress /\ p # "save"
      BY DEF Progress
    <2>3. \A m \in Names : job[w].load[m] \notin {"fetch", "save"}
      BY <1>2 DEF AggregateRead, Loading
    <2>4. job' = [job EXCEPT ![w].load[n] = p, ![w].doc = job[w].doc]
      BY <1>1, <2>1 DEF Job
    <2>5. job[w].load[n] # "ready" /\ nextId' = nextId /\ rows' = rows
      BY <1>2 DEF AggregateRead
    <2> HIDE DEF p
    <2> QED
      BY <1>1, <2>2, <2>3, <2>4, <2>5, AggregateMove
  <1>3. ASSUME job[w].load[n] \in {"fetch", "save"}
        PROVE  \A m \in Names \ {n} : job[w].load[m] \notin {"fetch", "save"}
    BY <1>1, <1>3 DEF PassAgrees
  <1>4. ASSUME NEW doc \in Specs, AggregateFetch(w, n, doc)
        PROVE  IInv'
    <2>1. /\ job[w].load[n] = "fetch"
          /\ doc \in Served(job[w].conf[n])
          /\ nextId' = nextId
          /\ rows' = rows
          /\ job' = [job EXCEPT ![w].load[n] = "save", ![w].doc = doc]
      BY <1>4 DEF AggregateFetch
    <2>2. "save" \in Progress
      BY DEF Progress
    <2> QED
      BY <1>1, <1>3, <2>1, <2>2, AggregateMove
  <1>5. CASE AggregateSkip(w, n)
    <2>1. /\ job[w].load[n] = "fetch"
          /\ nextId' = nextId
          /\ rows' = rows
          /\ job' = [job EXCEPT ![w].load[n] = "ready", ![w].doc = job[w].doc]
      BY <1>1, <1>5 DEF AggregateSkip, Job
    <2>2. "ready" \in Progress
      BY DEF Progress
    <2> QED
      BY <1>1, <1>3, <2>1, <2>2, AggregateMove
  <1>6. CASE AggregateStore(w, n)
    <2>1. \A i \in Found(n) : rows[i] \in Row /\ i < nextId
      BY DEF IInv, TypeOK, FreshIds, Found, Ids
    <2>2. /\ rows' \in [Ids -> Row \cup {NoRow}]
          /\ \A i \in Ids : i >= nextId => rows'[i] = rows[i]
      BY <1>1, <1>6, <2>1 DEF AggregateStore, Row, Ids, IInv, TypeOK
    <2>3. /\ job[w].load[n] = "save"
          /\ nextId' = nextId
          /\ job' = [job EXCEPT ![w].load[n] = "ready", ![w].doc = NoSpec]
      BY <1>6 DEF AggregateStore
    <2>4. "ready" \in Progress /\ NoSpec \in Specs
      BY DEF Progress, Specs
    <2>5. \A m \in Names \ {n} : job[w].load[m] \notin {"fetch", "save"}
      BY <1>3, <2>3
    <2>6. job[w].load[n] # "ready"
      BY <2>3
    <2> QED
      BY <1>1, <2>2, <2>3, <2>4, <2>5, <2>6, AggregateMove
  <1>7. CASE \E doc \in Specs : AggregateFetch(w, n, doc)
    BY <1>4, <1>7
  <1> QED
    BY <1>2, <1>5, <1>6, <1>7

-----------------------------------------------------------------------------
(* The invariant, and what follows from it.                                *)

\* Nothing is stored and nobody is working at first.
LEMMA InitIInv == Init => IInv
  <1> SUFFICES ASSUME Init PROVE IInv
    OBVIOUS
  <1>1. TypeOK
    BY NoJobType, ConstantsAssumption DEF Init, TypeOK, Ids
  <1>2. FreshIds
    BY DEF Init, FreshIds
  <1>3. \A w \in Workers : JobInv(job[w])
    BY NoJobInv DEF Init
  <1> QED
    BY <1>1, <1>2, <1>3 DEF IInv

\* Every step of a request under way.
LEMMA ProgressesIInv ==
  ASSUME IInv, NEW w \in Workers, Progresses(w)
  PROVE  IInv'
  <1>1. ASSUME NEW n \in Names,
               \/ ReadInEventLoop(w, n) \/ ReadMissing(w, n)
               \/ ReadAmbiguous(w, n)   \/ FetchFails(w, n)
               \/ SaveConflict(w, n)    \/ AggregateFails(w, n)
        PROVE  IInv'
    BY <1>1, AnswerStep
    DEF ReadInEventLoop, ReadMissing, ReadAmbiguous, FetchFails, SaveConflict,
        AggregateFails, Answers
  <1>2. ASSUME CallFails(w) \/ JoinDone(w) \/ AggregateDone(w)
        PROVE  IInv'
    BY <1>2, AnswerStep DEF CallFails, JoinDone, AggregateDone, Answers
  <1>3. CASE Respond(w)
    BY <1>3, DropStep DEF Respond
  <1> QED
    BY <1>1, <1>2, <1>3, ReadStep, FetchStep, SaveSpecStep, LastSaveStep,
       AggregateStep, CallStep
    DEF Progresses

\* Every arrival of a request, and the timeouts.
LEMMA ArrivesIInv ==
  ASSUME IInv, NEW w \in Workers, Arrives(w)
  PROVE  IInv'
  <1>1. CASE WorkerTimeout(w)
    BY <1>1, DropStep DEF WorkerTimeout
  <1>2. Sent \subseteq Specs
    BY ConstantsAssumption DEF Specs
  <1> QED
    BY <1>1, <1>2, OpenStep, CreateStep, RefreshStep, PatchStep, DeleteStep,
       AggregateStartStep
    DEF Arrives

\* IInv is an inductive invariant of the store.
LEMMA StepIInv == IInv /\ [Next]_vars => IInv'
  <1> SUFFICES ASSUME IInv, [Next]_vars PROVE IInv'
    OBVIOUS
  <1>1. CASE Next
    BY <1>1, ProgressesIInv, ArrivesIInv DEF Next
  <1>2. CASE UNCHANGED vars
    BY <1>2 DEF vars, IInv, TypeOK, FreshIds, JobInv, HeldCopies,
                ConfiguredNames, KnownIds, PassAgrees, PendingAgrees
  <1> QED
    BY <1>1, <1>2

\* The inductive invariant holds in every reachable state.
THEOREM Invariance == Spec => []IInv
  BY InitIInv, StepIInv, PTL DEF Spec

\* Type correctness of the table and of the workers' memory.
THEOREM TypeCorrect == Spec => []TypeOK
  <1>1. IInv => TypeOK
    BY DEF IInv
  <1> QED
    BY <1>1, Invariance, PTL

\* A gateway request or a refresh only ever saves a document that was fetched
\* from the endpoint it saves with it.
THEOREM SavesAgree == Spec => []PendingSavesAgree
  <1>1. IInv => PendingSavesAgree
    BY DEF IInv, JobInv, PendingSavesAgree
  <1> QED
    BY <1>1, Invariance, PTL

-----------------------------------------------------------------------------
(* What a step may do to a row.                                            *)

\* The writers of a row that exists afterwards: a whole-row save of a document
\* fetched from the saved endpoint, a saved edit, an insertion under a fresh
\* key, the aggregator's column update.
LEMMA RowWriters ==
  ASSUME IInv, Next, NEW i \in Ids, rows[i] # NoRow, rows'[i] # rows[i],
         rows'[i] # NoRow
  PROVE  \E w \in Workers, n \in Names :
            \/ EditSaved(w, n, i)
            \/ /\ FetchedSaved(w, n, i)
               /\ rows'[i].endpoint \in Endpoints
               /\ rows'[i].spec \in Served(rows'[i].endpoint)
            \/ /\ ColumnStored(w, n, i)
               /\ rows'[i].spec = job[w].doc
               /\ job[w].conf[n] \in Endpoints
               /\ job[w].doc \in Served(job[w].conf[n])
  <1> DEFINE Goal(w, n) ==
            \/ EditSaved(w, n, i)
            \/ /\ FetchedSaved(w, n, i)
               /\ rows'[i].endpoint \in Endpoints
               /\ rows'[i].spec \in Served(rows'[i].endpoint)
            \/ /\ ColumnStored(w, n, i)
               /\ rows'[i].spec = job[w].doc
               /\ job[w].conf[n] \in Endpoints
               /\ job[w].doc \in Served(job[w].conf[n])
  <1>1. PICK w \in Workers : Progresses(w) \/ Arrives(w)
    BY DEF Next
  <1>2. ASSUME NEW n \in Names,
               SaveSpec(w, n) \/ SaveUnusable(w, n) \/ AdminSave(w, n)
        PROVE  Goal(w, n)
    <2>1. /\ job[w].copy[n] \in Copy
          /\ PendingAgrees(job[w])
          /\ job[w].load[n] = "save"
          /\ job[w].kind \in {"sync", "async", "refresh", "patch"}
          /\ rows' = [rows EXCEPT ![job[w].copy[n].id] = job[w].copy[n].row]
      BY <1>2 DEF SaveSpec, SaveUnusable, AdminSave, MaySave, Written, IInv,
                  JobInv, HeldCopies
    <2>2. i = job[w].copy[n].id /\ rows'[i] = job[w].copy[n].row
      BY <2>1 DEF IInv, TypeOK
    <2> QED
      BY <2>1, <2>2 DEF PendingAgrees, Copy, Row, EditSaved, FetchedSaved
  <1>3. ASSUME NEW n \in Names, AggregateStore(w, n)
        PROVE  Goal(w, n)
    <2>1. job[w].conf[n] \in Endpoints
      BY <1>3 DEF AggregateStore, Aggregating, IInv, TypeOK, Job, JobInv,
                  ConfiguredNames
    <2>2. i \in Found(n)
      BY <1>3 DEF AggregateStore
    <2>3. rows'[i] = [rows[i] EXCEPT !.spec = job[w].doc]
      BY <1>3, <2>2 DEF AggregateStore
    <2>4. /\ job[w].kind = "aggregate"
          /\ job[w].load[n] = "save"
      BY <1>3 DEF AggregateStore, Aggregating
    <2>5. rows[i] # NoRow /\ rows[i].name = n /\ rows[i] \in Row
      BY <2>2 DEF Found, IInv, TypeOK
    <2>6. job[w].doc \in Served(job[w].conf[n])
      BY <2>4 DEF IInv, JobInv, PassAgrees
    <2> QED
      BY <2>1, <2>3, <2>4, <2>5, <2>6 DEF ColumnStored, Row
  <1>4. ASSUME NEW n \in Names, NEW e \in Endpoints, NEW s \in Specs,
               CreateModule(w, n, e, s)
        PROVE  FALSE
    BY <1>4 DEF CreateModule, IInv, TypeOK, FreshIds, Ids
  <1>5. ASSUME NEW k \in Ids, DeleteModule(w, k)
        PROVE  FALSE
    BY <1>5 DEF DeleteModule, IInv, TypeOK
  <1> HIDE DEF Goal
  <1>6. CASE Progresses(w)
    <2>1. \E n \in Names : \/ SaveSpec(w, n)  \/ SaveUnusable(w, n)
                          \/ AdminSave(w, n) \/ AggregateStore(w, n)
      BY <1>6
      DEF Progresses, ReadInEventLoop, ReadMissing, ReadAmbiguous, ReadCached,
          ReadStored, ReadUnusable, ReadEmpty, FetchSpec, FetchFails,
          SaveConflict, AggregateRead, AggregateFetch, AggregateSkip,
          AggregateFails, CallService, CallFails, JoinDone, AggregateDone,
          Respond
    <2> QED
      BY <1>2, <1>3, <2>1 DEF Goal
  <1>7. CASE Arrives(w)
    <2>1. Sent \subseteq Specs
      BY ConstantsAssumption DEF Specs
    <2>2. \/ \E n \in Names, e \in Endpoints, s \in Specs :
                CreateModule(w, n, e, s)
          \/ \E k \in Ids : DeleteModule(w, k)
      BY <1>7, <2>1 DEF Arrives, OpenRequest, RefreshRead, PatchRead,
                        AggregateStart, WorkerTimeout
    <2> QED
      BY <1>4, <1>5, <2>2
  <1> QED
    BY <1>1, <1>6, <1>7 DEF Goal

\* Only a saved edit, or the aggregator's column update from the URL of another
\* endpoint, makes a row hold another service's specification.
THEOREM StaleOnlyByEditOrName == Spec => OnlyEditOrNameMakesStale
  <1> DEFINE A ==
        \A i \in Ids :
          (rows[i] # NoRow /\ Agrees(rows[i]) /\ rows'[i] # NoRow
               /\ ~Agrees(rows'[i]))
          => \E w \in Workers, n \in Names :
                \/ EditSaved(w, n, i)
                \/ ColumnStored(w, n, i) /\ job[w].conf[n] # rows[i].endpoint
  <1>1. IInv /\ [Next]_vars => [A]_vars
    <2> SUFFICES ASSUME IInv, Next, NEW i \in Ids,
                        rows[i] # NoRow, Agrees(rows[i]),
                        rows'[i] # NoRow, ~Agrees(rows'[i])
                 PROVE  \E w \in Workers, n \in Names :
                          \/ EditSaved(w, n, i)
                          \/ /\ ColumnStored(w, n, i)
                             /\ job[w].conf[n] # rows[i].endpoint
      OBVIOUS
    <2>1. rows'[i] # rows[i] /\ rows[i] \in Row
      BY DEF IInv, TypeOK
    <2>2. PICK w \in Workers, n \in Names :
            \/ EditSaved(w, n, i)
            \/ /\ rows'[i].endpoint \in Endpoints
               /\ rows'[i].spec \in Served(rows'[i].endpoint)
            \/ /\ ColumnStored(w, n, i)
               /\ rows'[i].spec = job[w].doc
               /\ job[w].conf[n] \in Endpoints
               /\ job[w].doc \in Served(job[w].conf[n])
      BY <2>1, RowWriters
    <2>3. CASE rows'[i].endpoint \in Endpoints
                 /\ rows'[i].spec \in Served(rows'[i].endpoint)
      BY <2>3, ServedFrom DEF Agrees
    <2>4. CASE /\ ColumnStored(w, n, i)
               /\ rows'[i].spec = job[w].doc
               /\ job[w].conf[n] \in Endpoints
               /\ job[w].doc \in Served(job[w].conf[n])
      <3>1. rows'[i].endpoint = rows[i].endpoint
        BY <2>1, <2>4 DEF ColumnStored, Row
      <3>2. job[w].doc \in {NoSpec, OtherDoc, job[w].conf[n]}
        BY <2>4, ServedFrom
      <3> QED
        BY <2>4, <3>1, <3>2 DEF Agrees
    <2> QED
      BY <2>2, <2>3, <2>4
  <1> HIDE DEF A
  <1>2. Spec => [][A]_vars
    BY <1>1, Invariance, PTL DEF Spec
  <1> QED
    BY <1>2 DEF A, OnlyEditOrNameMakesStale

\* NULL is written over a stored specification only by an edit or as the
\* answer of a service that publishes null.
THEOREM SpecStays == Spec => StoredSpecStays
  <1> DEFINE A ==
        \A i \in Ids :
          (Stored(i) /\ rows'[i] # NoRow /\ rows'[i].spec = NoSpec)
          => \E w \in Workers, n \in Names :
                \/ EditSaved(w, n, i)
                \/ /\ FetchedSaved(w, n, i)
                   /\ rows'[i].endpoint \in NullServices
                \/ /\ ColumnStored(w, n, i)
                   /\ job[w].conf[n] \in NullServices
  <1>1. IInv /\ [Next]_vars => [A]_vars
    <2> SUFFICES ASSUME IInv, Next, NEW i \in Ids, Stored(i),
                        rows'[i] # NoRow, rows'[i].spec = NoSpec
                 PROVE  \E w \in Workers, n \in Names :
                          \/ EditSaved(w, n, i)
                          \/ /\ FetchedSaved(w, n, i)
                             /\ rows'[i].endpoint \in NullServices
                          \/ /\ ColumnStored(w, n, i)
                             /\ job[w].conf[n] \in NullServices
      OBVIOUS
    <2>1. rows[i] # NoRow /\ rows'[i] # rows[i]
      BY DEF Stored
    <2> QED
      BY <2>1, RowWriters, ServedFrom
  <1> HIDE DEF A
  <1>2. Spec => [][A]_vars
    BY <1>1, Invariance, PTL DEF Spec
  <1> QED
    BY <1>2 DEF A, StoredSpecStays

-----------------------------------------------------------------------------
(* The specification cache of a gateway request.                           *)

\* What CacheFollowsReads says of one request.
JobCache(j) ==
    j.kind \in Gateway =>
        /\ \A e \in Endpoints : j.specs[e] # NoSpec =>
              \E n \in Names : /\ j.load[n] = "ready"
                               /\ j.copy[n].row.endpoint = e
                               /\ j.copy[n].row.spec = j.specs[e]
        /\ \A n \in Names : j.load[n] = "ready" =>
              j.specs[j.copy[n].row.endpoint] # NoSpec

\* Only the request that takes the step has to be looked at.
LEMMA CacheJobStep ==
  ASSUME IInv, CacheFollowsReads, NEW w \in Workers, NEW j, JobCache(j),
         job' = [job EXCEPT ![w] = j]
  PROVE  CacheFollowsReads'
  <1>1. \A v \in Workers : job'[v] = IF v = w THEN j ELSE job[v]
    BY DEF IInv, TypeOK
  <1>2. \A v \in Workers : JobCache(job[v])
    BY DEF CacheFollowsReads, JobCache
  <1>3. \A v \in Workers : JobCache(job'[v])
    BY <1>1, <1>2
  <1> HIDE <1>1
  <1> QED
    BY <1>3 DEF CacheFollowsReads, JobCache

\* A step that leaves a request's services, instances and cache alone, or
\* belongs to no gateway request, has nothing to prove.
LEMMA CacheKept ==
  ASSUME IInv, CacheFollowsReads, NEW w \in Workers, NEW j,
         job' = [job EXCEPT ![w] = j],
         \/ j.kind \notin Gateway
         \/ /\ j.kind = job[w].kind
            /\ j.load = job[w].load
            /\ j.copy = job[w].copy
            /\ j.specs = job[w].specs
  PROVE  CacheFollowsReads'
  <1>1. JobCache(job[w])
    BY DEF CacheFollowsReads, JobCache
  <1>2. JobCache(j)
    BY SMTT(30), <1>1 DEF JobCache
  <1> QED
    BY <1>2, CacheJobStep

\* A service that was not loaded moves on, and with it at most the entry of
\* its own endpoint, which then is what its instance stores.
LEMMA CacheMove ==
  ASSUME IInv, CacheFollowsReads, NEW w \in Workers, NEW n \in Names,
         NEW c \in Copy, NEW p \in Progress, NEW sp \in [Endpoints -> Specs],
         job[w].load[n] # "ready",
         job' = [job EXCEPT ![w] = [job[w] EXCEPT !.copy[n] = c, !.load[n] = p,
                                                  !.specs = sp]],
         \/ sp = job[w].specs /\ (p = "ready" => sp[c.row.endpoint] # NoSpec)
         \/ /\ p = "ready"
            /\ c.row.spec # NoSpec
            /\ sp = [job[w].specs EXCEPT ![c.row.endpoint] = c.row.spec]
  PROVE  CacheFollowsReads'
  <1> DEFINE j == [job[w] EXCEPT !.copy[n] = c, !.load[n] = p, !.specs = sp]
  <1>1. job[w] \in Job /\ JobCache(job[w])
    BY DEF IInv, TypeOK, CacheFollowsReads, JobCache
  <1>2. /\ j.kind = job[w].kind
        /\ j.specs = sp
        /\ j.copy[n] = c
        /\ j.load[n] = p
        /\ \A m \in Names \ {n} : /\ j.copy[m] = job[w].copy[m]
                                 /\ j.load[m] = job[w].load[m]
    BY <1>1 DEF Job
  <1>3. job' = [job EXCEPT ![w] = j]
    OBVIOUS
  <1>4. c.row.endpoint \in Endpoints
    BY DEF Copy, Row
  <1> HIDE DEF j
  <1>5. ASSUME j.kind \in Gateway, NEW e \in Endpoints, j.specs[e] # NoSpec
        PROVE  \E m \in Names : /\ j.load[m] = "ready"
                                /\ j.copy[m].row.endpoint = e
                                /\ j.copy[m].row.spec = j.specs[e]
    <2>1. CASE sp[e] = job[w].specs[e]
      <3>1. PICK m \in Names : /\ job[w].load[m] = "ready"
                               /\ job[w].copy[m].row.endpoint = e
                               /\ job[w].copy[m].row.spec = job[w].specs[e]
        BY <1>1, <1>2, <1>5, <2>1 DEF JobCache
      <3>2. m # n
        BY <3>1
      <3> QED
        BY <1>2, <2>1, <3>1, <3>2
    <2>2. CASE sp[e] # job[w].specs[e]
      <3>1. /\ p = "ready"
            /\ e = c.row.endpoint
            /\ sp[e] = c.row.spec
        BY <1>1, <1>4, <2>2 DEF Job
      <3> QED
        BY <1>2, <3>1
    <2> QED
      BY <2>1, <2>2
  <1>6. ASSUME j.kind \in Gateway, NEW m \in Names, j.load[m] = "ready"
        PROVE  j.specs[j.copy[m].row.endpoint] # NoSpec
    <2>1. sp[c.row.endpoint] # NoSpec \/ p # "ready"
      BY <1>1, <1>4 DEF Job
    <2>2. CASE m = n
      BY <1>2, <1>6, <2>1, <2>2
    <2>3. CASE m # n
      <3>1. /\ job[w].specs[job[w].copy[m].row.endpoint] # NoSpec
            /\ job[w].copy[m] \in Copy
        BY <1>1, <1>2, <1>6, <2>3
        DEF JobCache, IInv, JobInv, HeldCopies, Gateway
      <3>2. job[w].copy[m].row.endpoint \in Endpoints
        BY <3>1 DEF Copy, Row
      <3>3. sp[job[w].copy[m].row.endpoint] # NoSpec
        BY <1>1, <1>4, <3>1, <3>2 DEF Job
      <3> QED
        BY <1>2, <2>3, <3>3
    <2> QED
      BY <2>2, <2>3
  <1>7. JobCache(j)
    BY <1>5, <1>6 DEF JobCache
  <1> QED
    BY <1>3, <1>7, CacheJobStep

\* The steps of a gateway request that load a specification.
LEMMA CacheLoads ==
  ASSUME IInv, CacheFollowsReads, NEW w \in Workers, NEW n \in Names,
         \/ \E i \in Ids : \/ ReadCached(w, n, i)
                          \/ ReadStored(w, n, i)
                          \/ ReadEmpty(w, n, i)
         \/ Fetches(w, n)
         \/ SaveSpec(w, n)
  PROVE  CacheFollowsReads'
  <1>1. job[w] \in Job /\ JobInv(job[w])
    BY DEF IInv, TypeOK
  <1>2. ASSUME NEW i \in Ids,
               ReadCached(w, n, i) \/ ReadStored(w, n, i) \/ ReadEmpty(w, n, i)
        PROVE  CacheFollowsReads'
    <2>1. /\ CopyOf(i) \in Copy
          /\ CopyOf(i).row = rows[i]
          /\ job[w].load[n] = "todo"
      BY <1>2, CopyOfType
      DEF ReadCached, ReadStored, ReadEmpty, Gets, CanQuery, MayRead, Found,
          CopyOf
    <2>2. CASE ReadCached(w, n, i)
      <3>1. job' = [job EXCEPT ![w] =
                      [job[w] EXCEPT !.copy[n] = CopyOf(i), !.load[n] = "ready",
                                     !.specs = job[w].specs]]
        BY <1>1, <2>2 DEF ReadCached, Job
      <3>2. job[w].specs \in [Endpoints -> Specs] /\ "ready" \in Progress
        BY <1>1 DEF Job, Progress
      <3>3. job[w].specs[CopyOf(i).row.endpoint] # NoSpec
        BY <2>1, <2>2 DEF ReadCached
      <3> QED
        BY <2>1, <3>1, <3>2, <3>3, CacheMove
    <2>3. CASE ReadEmpty(w, n, i)
      <3>1. job' = [job EXCEPT ![w] =
                      [job[w] EXCEPT !.copy[n] = CopyOf(i), !.load[n] = "fetch",
                                     !.specs = job[w].specs]]
        BY <1>1, <2>3 DEF ReadEmpty, Job
      <3>2. job[w].specs \in [Endpoints -> Specs] /\ "fetch" \in Progress
        BY <1>1 DEF Job, Progress
      <3> QED
        BY <2>1, <3>1, <3>2, CacheMove
    <2>4. CASE ReadStored(w, n, i) /\ job[w].kind = "async"
      <3>1. job' = [job EXCEPT ![w] = [job[w] EXCEPT !.stage = "done",
                                                     !.answer = "keyError"]]
        BY <1>1, <2>4 DEF ReadStored, Answer, Job
      <3> QED
        BY <1>1, <3>1, CacheKept DEF Job
    <2>5. CASE ReadStored(w, n, i) /\ job[w].kind # "async"
      <3> DEFINE sp == [job[w].specs EXCEPT ![rows[i].endpoint] = rows[i].spec]
      <3>1. job' = [job EXCEPT ![w] =
                      [job[w] EXCEPT !.copy[n] = CopyOf(i), !.load[n] = "ready",
                                     !.specs = sp]]
        BY <1>1, <2>5 DEF ReadStored, Job
      <3>2. sp \in [Endpoints -> Specs] /\ "ready" \in Progress
        BY <1>1, <2>1 DEF Job, Progress, Copy, Row
      <3>3. rows[i].spec # NoSpec
        BY <2>5 DEF ReadStored
      <3> QED
        BY <2>1, <3>1, <3>2, <3>3, CacheMove
    <2> QED
      BY <1>2, <2>2, <2>3, <2>4, <2>5
  <1>3. CASE Fetches(w, n)
    <2>0. PICK doc \in Specs : FetchSpec(w, n, doc)
      BY <1>3 DEF Fetches
    <2> DEFINE c == [job[w].copy[n] EXCEPT !.row.spec = doc]
    <2>1. job[w].copy[n] \in Copy /\ job[w].load[n] = "fetch"
      BY <1>1, <2>0 DEF FetchSpec, MayFetch, JobInv, HeldCopies
    <2>2. c \in Copy
      BY <2>1 DEF Copy, Row
    <2>3. job' = [job EXCEPT ![w] =
                    [job[w] EXCEPT !.copy[n] = c, !.load[n] = "save",
                                   !.specs = job[w].specs]]
      BY <1>1, <2>0, <2>1 DEF FetchSpec, Job, Copy, Row
    <2>4. job[w].specs \in [Endpoints -> Specs] /\ "save" \in Progress
      BY <1>1 DEF Job, Progress
    <2> HIDE DEF c
    <2> QED
      BY <2>1, <2>2, <2>3, <2>4, CacheMove
  <1>4. CASE SaveSpec(w, n)
    <2> DEFINE c  == job[w].copy[n]
               sp == [job[w].specs EXCEPT ![c.row.endpoint] = c.row.spec]
    <2>1. /\ c \in Copy
          /\ job[w].load[n] = "save"
          /\ c.row.spec # NoSpec
      BY <1>1, <1>4 DEF SaveSpec, MaySave, JobInv, HeldCopies, Gateway
    <2>2. c.row.spec # NoSpec /\ sp \in [Endpoints -> Specs]
      BY <1>1, <2>1 DEF Job, Copy, Row
    <2>3. job' = [job EXCEPT ![w] =
                    [job[w] EXCEPT !.copy[n] = c, !.load[n] = "ready",
                                   !.specs = sp]]
      <3>1. [job[w] EXCEPT !.copy[n] = c, !.load[n] = "ready", !.specs = sp]
            = [job[w] EXCEPT !.load[n] = "ready", !.specs = sp]
        BY <1>1 DEF Job
      <3>2. job' = [job EXCEPT ![w] = [job[w] EXCEPT !.load[n] = "ready",
                                                     !.specs = sp]]
        BY <1>4 DEF SaveSpec
      <3> QED
        BY <3>1, <3>2
    <2>4. "ready" \in Progress
      BY DEF Progress
    <2> QED
      BY <2>1, <2>2, <2>3, <2>4, CacheMove
  <1> QED
    BY <1>2, <1>3, <1>4

\* The other steps of a request leave services, instances and cache alone, or
\* are not a gateway request's.
LEMMA CacheProgresses ==
  ASSUME IInv, CacheFollowsReads, NEW w \in Workers, Progresses(w)
  PROVE  CacheFollowsReads'
  <1>1. job[w] \in Job
    BY DEF IInv, TypeOK
  <1>2. ASSUME NEW a, Answer(w, a)
        PROVE  CacheFollowsReads'
    <2>1. job' = [job EXCEPT ![w] = [job[w] EXCEPT !.stage = "done",
                                                   !.answer = a]]
      BY <1>1, <1>2 DEF Answer, Job
    <2> QED
      BY <1>1, <2>1, CacheKept DEF Job
  <1>3. ASSUME NEW n \in Names, NEW p, NEW d, job[w].kind = "aggregate",
               \/ job' = [job EXCEPT ![w].load[n] = p] /\ d = job[w].doc
               \/ job' = [job EXCEPT ![w].load[n] = p, ![w].doc = d]
        PROVE  CacheFollowsReads'
    <2>1. job' = [job EXCEPT ![w] = [job[w] EXCEPT !.load[n] = p, !.doc = d]]
      BY <1>1, <1>3 DEF Job
    <2>2. [job[w] EXCEPT !.load[n] = p, !.doc = d].kind \notin Gateway
      BY <1>1, <1>3 DEF Job, Gateway
    <2> QED
      BY <2>1, <2>2, CacheKept
  <1>4. ASSUME NEW related \in SUBSET Names, CallService(w, related)
        PROVE  CacheFollowsReads'
    <2>1. job' = [job EXCEPT ![w] = [job[w] EXCEPT !.stage = "join",
                                                   !.join = related]]
      BY <1>1, <1>4 DEF CallService, Job
    <2> QED
      BY <1>1, <2>1, CacheKept DEF Job
  <1>5. CASE Respond(w)
    <2>1. job' = [job EXCEPT ![w] = NoJob] /\ NoJob.kind \notin Gateway
      BY <1>5 DEF Respond, NoJob, Gateway
    <2> QED
      BY <2>1, CacheKept
  <1>6. ASSUME NEW n \in Names, AggregateRead(w, n)
        PROVE  CacheFollowsReads'
    <2>1. PICK s : job' = [job EXCEPT ![w].load[n] =
                              IF s = NoSpec THEN "fetch" ELSE "ready"]
      BY <1>6 DEF AggregateRead
    <2> QED
      BY <1>3, <1>6, <2>1 DEF AggregateRead, Aggregating
  <1>7. ASSUME NEW n \in Names,
               \/ PassFetches(w, n)
               \/ AggregateSkip(w, n)
               \/ AggregateStore(w, n)
        PROVE  CacheFollowsReads'
    BY <1>3, <1>7 DEF PassFetches, AggregateFetch, AggregateSkip, AggregateStore, Aggregating
  <1>8. ASSUME NEW n \in Names,
               \/ ReadInEventLoop(w, n) \/ ReadMissing(w, n)
               \/ ReadAmbiguous(w, n)   \/ FetchFails(w, n)
               \/ SaveConflict(w, n)    \/ AggregateFails(w, n)
               \/ AdminSave(w, n) \/ SaveUnusable(w, n)
               \/ \E i \in Ids : ReadUnusable(w, n, i)
        PROVE  CacheFollowsReads'
    BY <1>2, <1>8
    DEF ReadInEventLoop, ReadMissing, ReadAmbiguous, FetchFails, SaveConflict,
        AggregateFails, AdminSave, SaveUnusable, ReadUnusable
  <1>9. ASSUME CallFails(w) \/ JoinDone(w) \/ AggregateDone(w)
        PROVE  CacheFollowsReads'
    BY <1>2, <1>9 DEF CallFails, JoinDone, AggregateDone
  <1> QED
    BY <1>4, <1>5, <1>6, <1>7, <1>8, <1>9, CacheLoads
    DEF Progresses, Fetches, PassFetches

\* A request starts with an empty cache.
LEMMA CacheArrives ==
  ASSUME IInv, CacheFollowsReads, NEW w \in Workers, Arrives(w)
  PROVE  CacheFollowsReads'
  <1>1. ASSUME NEW kind \in Gateway, NEW n \in Names, OpenRequest(w, kind, n)
        PROVE  CacheFollowsReads'
    <2> DEFINE j == [NoJob EXCEPT !.kind = kind, !.stage = "spec", !.service = n]
    <2>1. JobCache(j)
      BY DEF JobCache, NoJob
    <2>2. job' = [job EXCEPT ![w] = j]
      BY <1>1 DEF OpenRequest
    <2> HIDE DEF j
    <2> QED
      BY <2>1, <2>2, CacheJobStep
  <1>2. ASSUME NEW n \in Names, NEW e \in Endpoints, NEW s \in Specs,
               CreateModule(w, n, e, s)
        PROVE  CacheFollowsReads'
    BY <1>2 DEF CreateModule, CacheFollowsReads
  <1>3. ASSUME NEW i \in Ids, DeleteModule(w, i)
        PROVE  CacheFollowsReads'
    BY <1>3 DEF DeleteModule, CacheFollowsReads
  <1>4. ASSUME NEW i \in Ids, RefreshRead(w, i)
        PROVE  CacheFollowsReads'
    <2> DEFINE j == [NoJob EXCEPT !.kind = "refresh",
                                !.stage = "spec",
                                !.service = rows[i].name,
                                !.load[rows[i].name] = "fetch",
                                !.copy[rows[i].name] = [id  |-> i,
                                                        row |-> rows[i]]]
    <2>1. j.kind \notin Gateway
      BY NoJobType DEF Job, Gateway
    <2>2. job' = [job EXCEPT ![w] = j]
      BY <1>4 DEF RefreshRead
    <2> HIDE DEF j
    <2> QED
      BY <2>1, <2>2, CacheKept
  <1>5. ASSUME NEW i \in Ids, NEW n \in Names, NEW e \in Endpoints,
               NEW s \in Specs, PatchRead(w, i, n, e, s)
        PROVE  CacheFollowsReads'
    <2> DEFINE j == [NoJob EXCEPT !.kind = "patch",
                                !.stage = "spec",
                                !.service = n,
                                !.load[n] = "save",
                                !.copy[n] = [id |-> i, row |-> [name |-> n,
                                                                endpoint |-> e,
                                                                spec |-> s]]]
    <2>1. j.kind \notin Gateway
      BY NoJobType DEF Job, Gateway
    <2>2. job' = [job EXCEPT ![w] = j]
      BY <1>5 DEF PatchRead
    <2> HIDE DEF j
    <2> QED
      BY <2>1, <2>2, CacheKept
  <1>6. ASSUME NEW conf \in [Names -> Endpoints \cup {NoSpec}],
               AggregateStart(w, conf)
        PROVE  CacheFollowsReads'
    <2> DEFINE j == [NoJob EXCEPT !.kind = "aggregate",
                                !.stage = "spec",
                                !.conf = conf,
                                !.load = [n \in Names |->
                                   IF conf[n] = NoSpec THEN "ready" ELSE "todo"]]
    <2>1. j.kind \notin Gateway
      BY NoJobType DEF Job, Gateway
    <2>2. job' = [job EXCEPT ![w] = j]
      BY <1>6 DEF AggregateStart
    <2> HIDE DEF j
    <2> QED
      BY <2>1, <2>2, CacheKept
  <1>7. CASE WorkerTimeout(w)
    <2>1. job' = [job EXCEPT ![w] = NoJob] /\ NoJob.kind \notin Gateway
      BY <1>7 DEF WorkerTimeout, NoJob, Gateway
    <2> QED
      BY <2>1, CacheKept
  <1>8. Sent \subseteq Specs
    BY ConstantsAssumption DEF Specs
  <1> QED
    BY <1>1, <1>2, <1>3, <1>4, <1>5, <1>6, <1>7, <1>8 DEF Arrives

\* Whatever other workers write meanwhile, a gateway request calls a service
\* with a specification that one of the rows it has read stores for that
\* service's URL, and finds one for every service it counts as loaded.
THEOREM Cache == Spec => []CacheFollowsReads
  <1>1. Init => CacheFollowsReads
    BY DEF Init, CacheFollowsReads, NoJob, Gateway
  <1>2. IInv /\ CacheFollowsReads /\ [Next]_vars => CacheFollowsReads'
    <2> SUFFICES ASSUME IInv, CacheFollowsReads, [Next]_vars
                 PROVE  CacheFollowsReads'
      OBVIOUS
    <2>1. CASE Next
      BY <2>1, CacheProgresses, CacheArrives DEF Next
    <2>2. CASE UNCHANGED vars
      BY <2>2 DEF vars, CacheFollowsReads
    <2> QED
      BY <2>1, <2>2
  <1> QED
    BY <1>1, <1>2, Invariance, PTL DEF Spec

-----------------------------------------------------------------------------
(* Why requests end: every step leaves its request with less to do, and a  *)
(* request that is not answered has a step to take.                        *)

StageLeft == [spec |-> 3, join |-> 2, done |-> 1]

\* The services whose specification has come no further than P.
Behind(j, P) == Cardinality({n \in Names : j.load[n] \in P})

\* The steps a request can still take: it loads every specification in at most
\* three, and calls, joins and responds once.
Left(j) ==
    IF j.kind = "idle" THEN 0
    ELSE StageLeft[j.stage] + Behind(j, {"todo"}) + Behind(j, {"todo", "fetch"})
                            + Behind(j, {"todo", "fetch", "save"})

\* However many services are involved and whatever others write meanwhile, an
\* accepted request takes a bounded number of steps: each leaves less to do,
\* no other worker gives it more, and the timeout takes the rest.
RequestsAdvance ==
    [][\A w \in Workers : ~Idle(w) =>
          /\ job'[w] = job[w] \/ Left(job'[w]) < Left(job[w])
          /\ Progresses(w) => Left(job'[w]) < Left(job[w])]_vars

\* At most three steps for every service and three for the request itself.
WorkIsBounded ==
    \A w \in Workers : Left(job[w]) \in 0..(3 * Cardinality(Names) + 3)

\* The guards of the steps of a request under way.
CanProgress(w) ==
    \/ job[w].stage = "done"
    \/ \E n \in Names : MayRead(w, n) \/ MayFetch(w, n) \/ MaySave(w, n)
    \/ /\ job[w].kind \in Gateway
       /\ \/ job[w].stage = "spec" /\ job[w].load[job[w].service] = "ready"
          \/ job[w].stage = "join" /\ \A n \in job[w].join : job[w].load[n] = "ready"
    \/ /\ Aggregating(w)
       /\ \/ \E n \in Names : job[w].load[n] = "todo" /\ Loading(job[w]) = {}
          \/ Loading(job[w]) # {}
          \/ \A n \in Names : job[w].load[n] = "ready"

\* No request waits for itself: a synchronous one never for a specification
\* that it has begun to load, a gathered task never for a task that waits.
NeverStuck == \A w \in Workers : ~Idle(w) => CanProgress(w)

\* A view set's request is about one instance, which it fetches or saves; only
\* a gateway request joins.
StageInv(j) ==
    /\ j.kind = "refresh" /\ j.stage = "spec" =>
           j.load[j.service] \in {"fetch", "save"}
    /\ j.kind = "patch" /\ j.stage = "spec" => j.load[j.service] = "save"
    /\ j.stage = "join" => j.kind \in Gateway

\* How many services are behind is a number.
LEMMA BehindType ==
  ASSUME NEW j, NEW P
  PROVE  Behind(j, P) \in 0..Cardinality(Names)
  <1> DEFINE S == {n \in Names : j.load[n] \in P}
  <1>1. IsFiniteSet(S) /\ Cardinality(S) <= Cardinality(Names)
    BY FS_Subset, NamesAssumption
  <1>2. Cardinality(S) \in Nat /\ Cardinality(Names) \in Nat
    BY <1>1, FS_CardinalityType, NamesAssumption
  <1> HIDE DEF S
  <1>3. Behind(j, P) = Cardinality(S)
    BY DEF Behind, S
  <1> QED
    BY <1>1, <1>2, <1>3

\* What is left is a number, and nothing only when nobody is served.
LEMMA LeftType ==
  ASSUME NEW j \in Job
  PROVE  /\ Left(j) \in 0..(3 * Cardinality(Names) + 3)
         /\ j.kind # "idle" => Left(j) > 0
  <1>1. j.stage \in {"spec", "join", "done"}
    BY DEF Job
  <1>2. StageLeft[j.stage] \in 1..3
    BY <1>1 DEF StageLeft
  <1>3. Cardinality(Names) \in Nat
    BY FS_CardinalityType, NamesAssumption
  <1> QED
    BY <1>2, <1>3, BehindType DEF Left

\* A service that moves on is behind no longer.
LEMMA BehindMoves ==
  ASSUME NEW j, NEW k, NEW n \in Names, NEW P,
         \A m \in Names \ {n} : k.load[m] = j.load[m],
         k.load[n] \in P => j.load[n] \in P
  PROVE  /\ Behind(k, P) <= Behind(j, P)
         /\ j.load[n] \in P /\ k.load[n] \notin P => Behind(k, P) < Behind(j, P)
  <1> DEFINE S(i) == {m \in Names : i.load[m] \in P}
  <1>1. S(k) \subseteq S(j)
    OBVIOUS
  <1>2. IsFiniteSet(S(j)) /\ IsFiniteSet(S(k))
    BY FS_Subset, NamesAssumption
  <1>3. /\ Cardinality(S(k)) <= Cardinality(S(j))
        /\ Cardinality(S(j)) = Cardinality(S(k)) => S(j) = S(k)
    BY <1>1, <1>2, FS_Subset
  <1>4. Cardinality(S(j)) \in Nat /\ Cardinality(S(k)) \in Nat
    BY <1>2, FS_CardinalityType
  <1>5. j.load[n] \in P /\ k.load[n] \notin P => S(j) # S(k)
    OBVIOUS
  <1>6. Behind(k, P) = Cardinality(S(k)) /\ Behind(j, P) = Cardinality(S(j))
    BY DEF Behind
  <1> HIDE DEF S
  <1> QED
    BY <1>3, <1>4, <1>5, <1>6

\* Later in loading, from the first to the last.
Later(p, q) ==
    \/ p = "todo"  /\ q \in {"fetch", "save", "ready"}
    \/ p = "fetch" /\ q \in {"save", "ready"}
    \/ p = "save"  /\ q = "ready"

\* A step that moves one service on leaves less to do.
LEMMA LoadAdvances ==
  ASSUME NEW j \in Job, NEW k, NEW n \in Names,
         j.kind # "idle", k.kind = j.kind, k.stage = j.stage,
         \A m \in Names \ {n} : k.load[m] = j.load[m],
         Later(j.load[n], k.load[n])
  PROVE  Left(k) < Left(j)
  <1> DEFINE Less(P) == Behind(k, P) < Behind(j, P)
             Same(P) == Behind(k, P) <= Behind(j, P)
  <1>1. /\ Same({"todo"})
        /\ j.load[n] = "todo" => Less({"todo"})
    BY BehindMoves DEF Later
  <1>2. /\ Same({"todo", "fetch"})
        /\ j.load[n] = "fetch" => Less({"todo", "fetch"}) \/ Less({"todo"})
    BY BehindMoves DEF Later
  <1>3. /\ Same({"todo", "fetch", "save"})
        /\ j.load[n] = "save" => Less({"todo", "fetch", "save"})
    BY BehindMoves DEF Later
  <1>4. \A P : Behind(k, P) \in Int /\ Behind(j, P) \in Int
    BY BehindType, FS_CardinalityType, NamesAssumption
  <1>5. StageLeft[j.stage] \in Int
    BY DEF Job, StageLeft
  <1>6. j.load[n] \in {"todo", "fetch", "save"}
    BY DEF Later
  <1> QED
    BY <1>1, <1>2, <1>3, <1>4, <1>5, <1>6 DEF Left

\* A step that goes on to a later stage with what has been loaded, or to the
\* end, leaves less to do.
LEMMA StageAdvances ==
  ASSUME NEW j \in Job, NEW k,
         j.kind # "idle", k.kind = j.kind, k.load = j.load,
         \/ j.stage = "spec" /\ k.stage \in {"join", "done"}
         \/ j.stage = "join" /\ k.stage = "done"
  PROVE  Left(k) < Left(j)
  <1>1. \A P : Behind(k, P) = Behind(j, P)
    BY DEF Behind
  <1>2. \A P : Behind(j, P) \in Int
    BY BehindType, FS_CardinalityType, NamesAssumption
  <1>3. /\ StageLeft[k.stage] \in Int /\ StageLeft[j.stage] \in Int
        /\ StageLeft[k.stage] < StageLeft[j.stage]
    BY DEF StageLeft
  <1> QED
    BY <1>1, <1>2, <1>3 DEF Left

\* An answer ends the work of a request that has a stage to leave.
LEMMA AnswerAdvances ==
  ASSUME TypeOK, NEW w \in Workers, NEW a, ~Idle(w), job[w].stage # "done",
         Answer(w, a)
  PROVE  Left(job'[w]) < Left(job[w])
  <1>1. job[w] \in Job
    BY DEF TypeOK
  <1>2. job'[w] = [job[w] EXCEPT !.stage = "done", !.answer = a]
    BY DEF Answer, TypeOK
  <1>3. /\ job'[w].kind = job[w].kind
        /\ job'[w].load = job[w].load
        /\ job'[w].stage = "done"
    BY <1>1, <1>2 DEF Job
  <1>4. job[w].stage \in {"spec", "join"} /\ job[w].kind # "idle"
    BY <1>1 DEF Job, Idle
  <1> QED
    BY <1>1, <1>3, <1>4, StageAdvances

\* A request for which nothing is left but to leave.
LEMMA DropAdvances ==
  ASSUME TypeOK, NEW w \in Workers, ~Idle(w), job' = [job EXCEPT ![w] = NoJob]
  PROVE  Left(job'[w]) < Left(job[w])
  <1>1. job[w] \in Job /\ job[w].kind # "idle"
    BY DEF TypeOK, Idle
  <1>2. job'[w] = NoJob /\ NoJob.kind = "idle"
    BY DEF TypeOK, NoJob
  <1>3. Left(job'[w]) = 0
    BY <1>2 DEF Left
  <1> QED
    BY <1>1, <1>3, LeftType, FS_CardinalityType, NamesAssumption

\* Reading, fetching and saving move the specification of one service on.
LEMMA LoadsAdvance ==
  ASSUME TypeOK, NEW w \in Workers, NEW n \in Names, ~Idle(w),
         \/ \E i \in Ids : \/ ReadCached(w, n, i)
                           \/ ReadStored(w, n, i) /\ job[w].kind # "async"
                           \/ ReadEmpty(w, n, i)
         \/ Fetches(w, n)
         \/ SaveSpec(w, n)
         \/ AggregateRead(w, n)
         \/ PassFetches(w, n)
         \/ AggregateSkip(w, n)
         \/ AggregateStore(w, n)
  PROVE  Left(job'[w]) < Left(job[w])
  <1>1. job[w] \in Job /\ job[w].kind # "idle" /\ job \in [Workers -> Job]
    BY DEF TypeOK, Idle
  <1>2. SUFFICES /\ job'[w].kind = job[w].kind
                 /\ job'[w].stage = job[w].stage
                 /\ \A m \in Names \ {n} : job'[w].load[m] = job[w].load[m]
                 /\ Later(job[w].load[n], job'[w].load[n])
    BY <1>1, LoadAdvances
  <1>3. ASSUME NEW i \in Ids,
               \/ ReadCached(w, n, i)
               \/ (ReadStored(w, n, i) /\ job[w].kind # "async")
               \/ ReadEmpty(w, n, i)
        PROVE  /\ job'[w].kind = job[w].kind
               /\ job'[w].stage = job[w].stage
               /\ \A m \in Names \ {n} : job'[w].load[m] = job[w].load[m]
               /\ Later(job[w].load[n], job'[w].load[n])
    <2>1. job[w].load[n] = "todo"
      BY <1>3 DEF ReadCached, ReadStored, ReadEmpty, Gets, CanQuery, MayRead
    <2>2. CASE ReadCached(w, n, i)
      BY <1>1, <2>1, <2>2 DEF ReadCached, Later, Job
    <2>3. CASE ReadStored(w, n, i) /\ job[w].kind # "async"
      <3>1. job' = [job EXCEPT ![w].copy[n] = CopyOf(i),
                               ![w].load[n] = "ready",
                               ![w].specs[rows[i].endpoint] = rows[i].spec]
        BY <2>3 DEF ReadStored
      <3>2. job'[w].load = [job[w].load EXCEPT ![n] = "ready"]
        BY <1>1, <3>1 DEF Job
      <3>3. job'[w].kind = job[w].kind /\ job'[w].stage = job[w].stage
        BY <1>1, <3>1 DEF Job
      <3> QED
        BY <1>1, <2>1, <3>2, <3>3 DEF Later, Job
    <2>4. CASE ReadEmpty(w, n, i)
      BY <1>1, <2>1, <2>4 DEF ReadEmpty, Later, Job
    <2> QED
      BY <1>3, <2>2, <2>3, <2>4
  <1>4. CASE Fetches(w, n)
    <2>1. PICK doc \in Specs : FetchSpec(w, n, doc)
      BY <1>4 DEF Fetches
    <2>2. job'[w].load = [job[w].load EXCEPT ![n] = "save"]
      BY <1>1, <2>1 DEF FetchSpec, Job
    <2>3. job'[w].kind = job[w].kind /\ job'[w].stage = job[w].stage
      BY <1>1, <2>1 DEF FetchSpec, Job
    <2>4. job[w].load[n] = "fetch"
      BY <2>1 DEF FetchSpec, MayFetch
    <2> QED
      BY <1>1, <2>2, <2>3, <2>4 DEF Later, Job
  <1>5. CASE SaveSpec(w, n)
    BY <1>1, <1>5 DEF SaveSpec, MaySave, Later, Job
  <1>6. CASE AggregateRead(w, n)
    <2>1. PICK s : job' = [job EXCEPT ![w].load[n] =
                              IF s = NoSpec THEN "fetch" ELSE "ready"]
      BY <1>6 DEF AggregateRead
    <2>2. job[w].load[n] = "todo"
      BY <1>6 DEF AggregateRead
    <2> QED
      BY <1>1, <2>1, <2>2 DEF Later, Job
  <1>7. CASE PassFetches(w, n) \/ AggregateSkip(w, n) \/ AggregateStore(w, n)
    BY <1>1, <1>7 DEF PassFetches, AggregateFetch, AggregateSkip, AggregateStore, Later, Job
  <1> QED
    BY <1>3, <1>4, <1>5, <1>6, <1>7

\* Every step of a request leaves it less to do.
LEMMA ProgressAdvances ==
  ASSUME TypeOK, NEW w \in Workers, ~Idle(w), Progresses(w)
  PROVE  Left(job'[w]) < Left(job[w])
  <1>1. job[w] \in Job
    BY DEF TypeOK
  <1>2. ASSUME NEW n \in Names,
               \/ ReadInEventLoop(w, n) \/ ReadMissing(w, n)
               \/ ReadAmbiguous(w, n)   \/ FetchFails(w, n)
               \/ SaveConflict(w, n)    \/ AggregateFails(w, n)
               \/ AdminSave(w, n) \/ SaveUnusable(w, n)
               \/ \E i \in Ids : ReadUnusable(w, n, i)
               \/ \E i \in Ids : ReadStored(w, n, i) /\ job[w].kind = "async"
        PROVE  Left(job'[w]) < Left(job[w])
    <2>1. \E a : Answer(w, a)
      BY <1>2
      DEF ReadInEventLoop, ReadMissing, ReadAmbiguous, FetchFails, SaveConflict,
          AggregateFails, AdminSave, SaveUnusable, ReadUnusable, ReadStored
    <2>2. job[w].stage # "done"
      BY <1>1, <1>2
      DEF ReadInEventLoop, ReadMissing, ReadAmbiguous, FetchFails, SaveConflict,
          AggregateFails, AdminSave, SaveUnusable, ReadUnusable, ReadStored, Gets, CanQuery, MayRead,
          Wanted, MayFetch, MaySave, Aggregating
    <2> QED
      BY <2>1, <2>2, AnswerAdvances
  <1>3. ASSUME CallFails(w) \/ JoinDone(w) \/ AggregateDone(w)
        PROVE  Left(job'[w]) < Left(job[w])
    <2>1. (\E a : Answer(w, a)) /\ job[w].stage # "done"
      BY <1>3 DEF CallFails, JoinDone, AggregateDone, Aggregating
    <2> QED
      BY <2>1, AnswerAdvances
  <1>4. ASSUME NEW related \in SUBSET Names, CallService(w, related)
        PROVE  Left(job'[w]) < Left(job[w])
    <2>1. /\ job'[w].kind = job[w].kind
          /\ job'[w].load = job[w].load
          /\ job'[w].stage = "join"
          /\ job[w].stage = "spec"
      BY <1>1, <1>4 DEF CallService, TypeOK, Job
    <2> QED
      BY <1>1, <2>1, StageAdvances DEF Idle
  <1>5. CASE Respond(w)
    BY <1>5, DropAdvances DEF Respond
  <1>6. ASSUME NEW n \in Names,
               \/ \E i \in Ids : \/ ReadCached(w, n, i)
                                 \/ ReadStored(w, n, i) /\ job[w].kind # "async"
                                 \/ ReadEmpty(w, n, i)
               \/ Fetches(w, n)     \/ SaveSpec(w, n)
               \/ AggregateRead(w, n) \/ PassFetches(w, n)
               \/ AggregateSkip(w, n) \/ AggregateStore(w, n)
        PROVE  Left(job'[w]) < Left(job[w])
    BY <1>6, LoadsAdvance
  <1> DEFINE Less == Left(job'[w]) < Left(job[w])
  <1> HIDE DEF Less
  <1> QED
    BY <1>2, <1>3, <1>4, <1>5, <1>6 DEF Progresses, Fetches, PassFetches, Less

\* The other workers leave a request alone.
LEMMA OthersStay ==
  ASSUME TypeOK, NEW v \in Workers, Progresses(v) \/ Arrives(v),
         NEW w \in Workers, w # v
  PROVE  job'[w] = job[w]
  <1>1. job \in [Workers -> Job]
    BY DEF TypeOK
  <1>2. CASE Progresses(v)
    <2>1. ASSUME NEW a, Answer(v, a) PROVE job'[w] = job[w]
      BY <1>1, <2>1 DEF Answer
    <2>2. ASSUME NEW n \in Names,
                 \/ ReadInEventLoop(v, n) \/ ReadMissing(v, n)
                 \/ ReadAmbiguous(v, n)   \/ FetchFails(v, n)
                 \/ SaveConflict(v, n)    \/ AggregateFails(v, n)
                 \/ AdminSave(v, n) \/ SaveUnusable(v, n)
                 \/ \E i \in Ids : ReadUnusable(v, n, i)
          PROVE  job'[w] = job[w]
      BY <2>1, <2>2
      DEF ReadInEventLoop, ReadMissing, ReadAmbiguous, FetchFails,
          SaveConflict, AggregateFails, AdminSave, SaveUnusable, ReadUnusable
    <2>3. ASSUME NEW n \in Names, NEW i \in Ids,
                 \/ ReadCached(v, n, i)
                 \/ ReadStored(v, n, i)
                 \/ ReadEmpty(v, n, i)
          PROVE  job'[w] = job[w]
      BY <1>1, <2>1, <2>3 DEF ReadCached, ReadStored, ReadEmpty
    <2>4. ASSUME NEW n \in Names,
                 \/ Fetches(v, n)      \/ SaveSpec(v, n)
                 \/ PassFetches(v, n) \/ AggregateSkip(v, n)
                 \/ AggregateStore(v, n)
          PROVE  job'[w] = job[w]
      BY <1>1, <2>4
      DEF Fetches, FetchSpec, SaveSpec, PassFetches, AggregateFetch, AggregateSkip, AggregateStore
    <2>5. ASSUME NEW n \in Names, AggregateRead(v, n)
          PROVE  job'[w] = job[w]
      <3>1. \E p : job' = [job EXCEPT ![v].load[n] = p]
        BY <2>5 DEF AggregateRead
      <3> QED
        BY <1>1, <3>1
    <2>6. ASSUME NEW related \in SUBSET Names, CallService(v, related)
          PROVE  job'[w] = job[w]
      BY <1>1, <2>6 DEF CallService
    <2>7. ASSUME CallFails(v) \/ JoinDone(v) \/ AggregateDone(v) \/ Respond(v)
          PROVE  job'[w] = job[w]
      BY <1>1, <2>1, <2>7 DEF CallFails, JoinDone, AggregateDone, Respond
    <2> QED
      BY <1>2, <2>2, <2>3, <2>4, <2>5, <2>6, <2>7
      DEF Progresses, Fetches, PassFetches
  <1>3. CASE Arrives(v)
    BY <1>1, <1>3
    DEF Arrives, OpenRequest, CreateModule, RefreshRead, PatchRead,
        DeleteModule, AggregateStart, WorkerTimeout
  <1> QED
    BY <1>2, <1>3

\* Of the arrivals a request that is being served meets the timeout only.
LEMMA ArrivesAdvances ==
  ASSUME TypeOK, NEW w \in Workers, ~Idle(w), Arrives(w)
  PROVE  Left(job'[w]) < Left(job[w])
  <1>1. WorkerTimeout(w)
    BY DEF Arrives, OpenRequest, CreateModule, RefreshRead, PatchRead,
           DeleteModule, AggregateStart
  <1> QED
    BY <1>1, DropAdvances DEF WorkerTimeout

\* A request never has more to do than before.
THEOREM Terminating == Spec => RequestsAdvance
  <1> DEFINE A ==
        \A w \in Workers : ~Idle(w) =>
          /\ job'[w] = job[w] \/ Left(job'[w]) < Left(job[w])
          /\ Progresses(w) => Left(job'[w]) < Left(job[w])
  <1>1. TypeOK /\ [Next]_vars => [A]_vars
    <2> SUFFICES ASSUME TypeOK, Next, NEW w \in Workers, ~Idle(w)
                 PROVE  /\ job'[w] = job[w] \/ Left(job'[w]) < Left(job[w])
                        /\ Progresses(w) => Left(job'[w]) < Left(job[w])
      OBVIOUS
    <2>1. PICK v \in Workers : Progresses(v) \/ Arrives(v)
      BY DEF Next
    <2> QED
      BY <2>1, ProgressAdvances, ArrivesAdvances, OthersStay
  <1> HIDE DEF A
  <1>2. Spec => [][A]_vars
    BY <1>1, TypeCorrect, PTL DEF Spec
  <1> QED
    BY <1>2 DEF A, RequestsAdvance

\* It is a number that a request's steps count down.
THEOREM Bounded == Spec => []WorkIsBounded
  <1>1. TypeOK => WorkIsBounded
    BY LeftType DEF TypeOK, WorkIsBounded
  <1> QED
    BY <1>1, TypeCorrect, PTL

\* A request that keeps its kind and stage and loads on is still about its one
\* instance.
LEMMA StageKept ==
  ASSUME NEW j, NEW k, StageInv(j), k.kind = j.kind,
         \/ k.stage = "done"
         \/ k.stage = "join" /\ j.kind \in Gateway
         \/ k.stage = "spec" /\ j.kind \notin {"refresh", "patch"}
         \/ k.stage = j.stage /\ k.load = j.load /\ k.service = j.service
  PROVE  StageInv(k)
  BY DEF StageInv, Gateway

\* The steps that load do not leave the stage, and those of a gateway request
\* or an aggregation may load what they want.
LEMMA StageProgresses ==
  ASSUME TypeOK, NEW w \in Workers, ~Idle(w), StageInv(job[w]), Progresses(w)
  PROVE  StageInv(job'[w])
  <1>1. job[w] \in Job /\ job \in [Workers -> Job]
    BY DEF TypeOK
  <1>2. ASSUME NEW a, Answer(w, a) PROVE StageInv(job'[w])
    <2>1. job'[w].kind = job[w].kind /\ job'[w].stage = "done"
      BY <1>1, <1>2 DEF Answer, Job
    <2> QED
      BY <2>1, StageKept
  <1>3. ASSUME NEW n \in Names,
               \/ ReadInEventLoop(w, n) \/ ReadMissing(w, n)
               \/ ReadAmbiguous(w, n)   \/ FetchFails(w, n)
               \/ SaveConflict(w, n)    \/ AggregateFails(w, n)
               \/ AdminSave(w, n) \/ SaveUnusable(w, n)
               \/ \E i \in Ids : ReadUnusable(w, n, i)
        PROVE  StageInv(job'[w])
    BY <1>2, <1>3
    DEF ReadInEventLoop, ReadMissing, ReadAmbiguous, FetchFails,
        SaveConflict, AggregateFails, AdminSave, SaveUnusable, ReadUnusable
  <1>4. ASSUME CallFails(w) \/ JoinDone(w) \/ AggregateDone(w)
        PROVE  StageInv(job'[w])
    BY <1>2, <1>4 DEF CallFails, JoinDone, AggregateDone
  <1>5. ASSUME job'[w].kind = job[w].kind, job'[w].stage = job[w].stage,
               job[w].kind \notin {"refresh", "patch"}
        PROVE  StageInv(job'[w])
    BY <1>1, <1>5 DEF StageInv, Job, Gateway
  <1>6. ASSUME NEW n \in Names, NEW i \in Ids,
               \/ ReadCached(w, n, i)
               \/ ReadStored(w, n, i)
               \/ ReadEmpty(w, n, i)
        PROVE  StageInv(job'[w])
    <2>1. job[w].kind \notin {"refresh", "patch"}
      BY <1>6 DEF ReadCached, ReadStored, ReadEmpty, Gets, CanQuery, MayRead,
                  Gateway
    <2>2. CASE ReadCached(w, n, i)
      BY <1>1, <1>5, <2>1, <2>2 DEF ReadCached, Job
    <2>3. CASE ReadEmpty(w, n, i)
      BY <1>1, <1>5, <2>1, <2>3 DEF ReadEmpty, Job
    <2>4. CASE ReadStored(w, n, i) /\ job[w].kind # "async"
      <3>1. job' = [job EXCEPT ![w].copy[n] = CopyOf(i),
                               ![w].load[n] = "ready",
                               ![w].specs[rows[i].endpoint] = rows[i].spec]
        BY <2>4 DEF ReadStored
      <3>2. job'[w].kind = job[w].kind /\ job'[w].stage = job[w].stage
        BY <1>1, <3>1 DEF Job
      <3> QED
        BY <1>5, <2>1, <3>2
    <2>5. CASE ReadStored(w, n, i) /\ job[w].kind = "async"
      BY <1>2, <2>5 DEF ReadStored
    <2> QED
      BY <1>6, <2>2, <2>3, <2>4, <2>5
  <1>7. ASSUME NEW n \in Names, Fetches(w, n)
        PROVE  StageInv(job'[w])
    <2>1. /\ job'[w].kind = job[w].kind
          /\ job'[w].stage = job[w].stage
          /\ job'[w].service = job[w].service
          /\ job'[w].load = [job[w].load EXCEPT ![n] = "save"]
      BY <1>1, <1>7 DEF Fetches, FetchSpec, Job
    <2>2. job[w].kind # "patch"
      BY <1>7 DEF Fetches, FetchSpec, MayFetch
    <2>3. job[w].load \in [Names -> Progress]
      BY <1>1 DEF Job
    <2> QED
      BY <2>1, <2>2, <2>3 DEF StageInv
  <1>8. ASSUME NEW n \in Names, SaveSpec(w, n)
        PROVE  StageInv(job'[w])
    BY <1>1, <1>5, <1>8 DEF SaveSpec, Job, Gateway
  <1>9. ASSUME NEW n \in Names,
               \/ AggregateRead(w, n) \/ PassFetches(w, n)
               \/ AggregateSkip(w, n) \/ AggregateStore(w, n)
        PROVE  StageInv(job'[w])
    <2>1. \E p, d : \/ job' = [job EXCEPT ![w].load[n] = p]
                    \/ job' = [job EXCEPT ![w].load[n] = p, ![w].doc = d]
      BY <1>9 DEF AggregateRead, PassFetches, AggregateFetch, AggregateSkip, AggregateStore
    <2>2. job'[w].kind = job[w].kind /\ job'[w].stage = job[w].stage
      BY <1>1, <2>1 DEF Job
    <2> QED
      BY <1>5, <1>9, <2>2
      DEF AggregateRead, PassFetches, AggregateFetch, AggregateSkip, AggregateStore,
          Aggregating
  <1>10. ASSUME NEW related \in SUBSET Names, CallService(w, related)
         PROVE  StageInv(job'[w])
    <2>1. /\ job'[w].kind = job[w].kind
          /\ job'[w].stage = "join"
          /\ job[w].kind \in Gateway
      BY <1>1, <1>10 DEF CallService, Job
    <2> QED
      BY <2>1, StageKept
  <1>11. CASE Respond(w)
    BY <1>1, <1>11 DEF Respond, StageInv, NoJob
  <1> QED
    BY <1>3, <1>4, <1>6, <1>7, <1>8, <1>9, <1>10, <1>11
    DEF Progresses, Fetches, PassFetches

\* A request of the view set begins with the instance it has read.
LEMMA StageArrives ==
  ASSUME TypeOK, NEW w \in Workers, StageInv(job[w]), Arrives(w)
  PROVE  StageInv(job'[w])
  <1>1. job \in [Workers -> Job] /\ NoJob \in Job
    BY NoJobType DEF TypeOK
  <1>2. ASSUME NEW kind \in Gateway, NEW n \in Names, OpenRequest(w, kind, n)
        PROVE  StageInv(job'[w])
    BY <1>1, <1>2 DEF OpenRequest, StageInv, Gateway, Job
  <1>3. ASSUME NEW i \in Ids, RefreshRead(w, i)
        PROVE  StageInv(job'[w])
    <2>1. rows[i].name \in Names
      BY <1>3 DEF RefreshRead, TypeOK, Row
    <2> QED
      BY <1>1, <1>3, <2>1 DEF RefreshRead, StageInv, Job
  <1>4. ASSUME NEW i \in Ids, NEW n \in Names, NEW e \in Endpoints,
               NEW s \in Specs, PatchRead(w, i, n, e, s)
        PROVE  StageInv(job'[w])
    BY <1>1, <1>4 DEF PatchRead, StageInv, Job
  <1>5. ASSUME NEW conf \in [Names -> Endpoints \cup {NoSpec}],
               AggregateStart(w, conf)
        PROVE  StageInv(job'[w])
    BY <1>1, <1>5 DEF AggregateStart, StageInv, Job
  <1>6. ASSUME NEW n \in Names, NEW e \in Endpoints, NEW s \in Specs,
               CreateModule(w, n, e, s)
        PROVE  StageInv(job'[w])
    BY <1>6 DEF CreateModule
  <1>7. ASSUME NEW i \in Ids, DeleteModule(w, i)
        PROVE  StageInv(job'[w])
    BY <1>7 DEF DeleteModule
  <1>8. CASE WorkerTimeout(w)
    BY <1>1, <1>8 DEF WorkerTimeout, StageInv, NoJob
  <1>9. Sent \subseteq Specs
    BY ConstantsAssumption DEF Specs
  <1> QED
    BY <1>2, <1>3, <1>4, <1>5, <1>6, <1>7, <1>8, <1>9 DEF Arrives

\* A gateway request that has to load something can read it, or goes on with
\* what it has begun.
LEMMA GatewayGoesOn ==
  ASSUME TypeOK, NEW w \in Workers, job[w].kind \in Gateway,
         job[w].stage # "done"
  PROVE  CanProgress(w)
  <1>1. job[w] \in Job
    BY DEF TypeOK
  <1>2. job[w].load \in [Names -> Progress] /\ job[w].stage \in {"spec", "join"}
    BY <1>1 DEF Job
  <1>3. CASE \E n \in Names : job[w].load[n] = "save"
    BY <1>3 DEF CanProgress, MaySave, Gateway
  <1>4. CASE \E n \in Names : n \in Wanted(job[w]) /\ job[w].load[n] = "todo"
    <2>1. CASE job[w].kind = "sync" /\ Loading(job[w]) # {}
      <3>1. PICK n \in Names : job[w].load[n] \in {"fetch", "save"}
        BY <2>1 DEF Loading
      <3> QED
        BY <1>3, <2>1, <3>1 DEF CanProgress, MayFetch
    <2>2. CASE ~(job[w].kind = "sync" /\ Loading(job[w]) # {})
      BY <1>4, <2>2 DEF CanProgress, MayRead
    <2> QED
      BY <2>1, <2>2
  <1>5. CASE /\ \A n \in Names : job[w].load[n] # "save"
             /\ \A n \in Names : n \in Wanted(job[w]) => job[w].load[n] # "todo"
    <2>1. Wanted(job[w]) \subseteq Names
      BY <1>1, <1>2 DEF Wanted, Job
    <2>2. CASE \E n \in Names : job[w].load[n] = "fetch"
      BY <1>5, <2>1, <2>2 DEF CanProgress, MayFetch, Gateway
    <2>3. CASE \A n \in Names : job[w].load[n] # "fetch"
      <3>1. \A n \in Wanted(job[w]) : job[w].load[n] = "ready"
        BY <1>2, <1>5, <2>1, <2>3 DEF Progress
      <3> QED
        BY <1>2, <3>1 DEF CanProgress, Wanted
    <2> QED
      BY <2>2, <2>3
  <1> QED
    BY <1>3, <1>4, <1>5

\* A request whose worker is busy has a step to take.
LEMMA GoesOn ==
  ASSUME TypeOK, NEW w \in Workers, StageInv(job[w]), ~Idle(w)
  PROVE  CanProgress(w)
  <1>1. job[w] \in Job
    BY DEF TypeOK
  <1>2. /\ job[w].kind \in {"sync", "async", "refresh", "patch", "aggregate"}
        /\ job[w].stage \in {"spec", "join", "done"}
        /\ job[w].load \in [Names -> Progress]
        /\ job[w].service \in Names
    BY <1>1 DEF Job, Kinds, Idle
  <1>3. CASE job[w].stage = "done"
    BY <1>3 DEF CanProgress
  <1>4. CASE job[w].stage # "done" /\ job[w].kind \in Gateway
    BY <1>4, GatewayGoesOn
  <1>5. CASE job[w].stage = "spec" /\ job[w].kind \in {"refresh", "patch"}
    BY <1>2, <1>5 DEF CanProgress, StageInv, MayFetch, MaySave
  <1>6. CASE job[w].stage = "spec" /\ job[w].kind = "aggregate"
    <2>1. Aggregating(w)
      BY <1>6 DEF Aggregating
    <2>2. Loading(job[w]) = {} =>
             \A n \in Names : job[w].load[n] \in {"todo", "ready"}
      BY <1>2 DEF Loading, Progress
    <2> QED
      BY <2>1, <2>2 DEF CanProgress
  <1> QED
    BY <1>2, <1>3, <1>4, <1>5, <1>6 DEF StageInv, Gateway

\* In every reachable state a request that has been accepted has a step to
\* take: no other worker, row or service has to do anything first.
THEOREM Unstuck == Spec => []NeverStuck
  <1> DEFINE Stages == \A w \in Workers : StageInv(job[w])
  <1>1. Init => Stages
    BY DEF Init, StageInv, NoJob
  <1>2. TypeOK /\ Stages /\ [Next]_vars => Stages'
    <2> SUFFICES ASSUME TypeOK, Stages, [Next]_vars, NEW w \in Workers
                 PROVE  StageInv(job'[w])
      BY DEF StageInv
    <2>1. ASSUME NEW v \in Workers, Progresses(v) \/ Arrives(v), v # w
          PROVE  job'[w] = job[w]
      BY <2>1, OthersStay
    <2>2. ASSUME Progresses(w), Idle(w) PROVE FALSE
      BY <2>2
      DEF Idle, Progresses, ReadInEventLoop, ReadMissing, ReadAmbiguous,
          ReadCached, ReadStored, ReadEmpty, Fetches, FetchSpec, FetchFails, SaveSpec,
          SaveConflict, AdminSave, SaveUnusable, ReadUnusable, AggregateRead, PassFetches, AggregateFetch,
          AggregateSkip, AggregateFails, AggregateStore, CallService,
          CallFails, JoinDone, AggregateDone, Respond, Gets, CanQuery, MayRead,
          MayFetch, MaySave, Aggregating, Gateway
    <2>3. CASE UNCHANGED vars
      BY <2>3 DEF vars
    <2>4. CASE Next
      BY <2>1, <2>2, <2>4, StageProgresses, StageArrives DEF Next
    <2> QED
      BY <2>3, <2>4
  <1>3. TypeOK /\ Stages => NeverStuck
    BY GoesOn DEF NeverStuck
  <1> HIDE DEF Stages
  <1> QED
    BY <1>1, <1>2, <1>3, TypeCorrect, PTL DEF Spec
=============================================================================
