------------------------ MODULE DataMeshStoreProofs ------------------------
(***************************************************************************)
(* Theorems about DataMeshStore, for any number of workers, models,        *)
(* organizations, relationships and join records.  There are three         *)
(* invariants: types, and whose the join records are, which hold however   *)
(* requests overlap; and what the only request in progress has found, as   *)
(* long as no two have been in progress together.                          *)
(***************************************************************************)
EXTENDS DataMeshStore, TLAPS

-----------------------------------------------------------------------------
(* The inductive invariant.                                                *)

\* What a request in progress knows at each stage.
JobInv(j) ==
    /\ j.op = "idle" => j.stage = "done"
    /\ j.stage = "getRel" => j.op \in {"create", "update", "load"} /\ j.rel = 0
    /\ j.stage = "checkReverse" => (j.rel = 0 <=> j.op # "relupdate")
    /\ j.stage = "insertRel" => j.op # "relupdate"
    /\ j.stage = "saveRel" => j.op = "relupdate" /\ j.rel \in RelIds
    /\ j.stage \in {"getRel", "checkReverse", "insertRel", "saveRel"} => j.kept = {}
    /\ j.op \in {"create", "update"} /\ j.stage # "done" =>
          j.link \in Links /\ j.org \in Orgs
    /\ j.op = "update" /\ j.stage # "done" => j.join \in JoinIds
    /\ j.stage \in {"getJoin", "insertJoin", "regetJoin"} =>
          /\ j.op \in {"create", "load"} /\ j.rel \in RelIds
          /\ j.link \in Links /\ j.org \in Orgs
    /\ j.stage = "saveJoin" => j.op = "update" /\ j.rel \in RelIds
    /\ j.stage = "purge" => j.op = "load" /\ j.rel \in RelIds
    /\ j.stage # "done" => j.answer = "none"

IInv ==
    /\ TypeOK
    /\ \A w \in Workers : JobInv(job[w])

\* The job of a worker without a request.
LEMMA NoJobInv == NoJob \in Job /\ JobInv(NoJob)
  <1>1. (CHOOSE p \in Pairs : TRUE) \in Models \X Models
    BY ConstantsAssumption
  <1> QED
    BY <1>1 DEF NoJob, Job, Keys, JobInv

\* One field of a job at a time.
LEMMA Fields ==
  ASSUME NEW j \in Job
  PROVE  /\ \A s \in {"getRel", "checkReverse", "insertRel", "saveRel", "getJoin",
                      "insertJoin", "regetJoin", "saveJoin", "purge", "done"} :
               [j EXCEPT !.stage = s] \in Job
         /\ \A o \in {"idle", "create", "update", "relcreate", "relupdate", "load"} :
               [j EXCEPT !.op = o] \in Job
         /\ \A a \in {"none", "ok", "invalid", "ambiguous", "conflict"} :
               [j EXCEPT !.answer = a] \in Job
         /\ \A ks \in SUBSET JoinIds : [j EXCEPT !.kept = ks] \in Job
         /\ \A r \in RelIds \cup {0} : [j EXCEPT !.rel = r] \in Job
         /\ \A k \in JoinIds \cup {0} : [j EXCEPT !.join = k] \in Job
  <1>1. \A s \in {"getRel", "checkReverse", "insertRel", "saveRel", "getJoin",
                  "insertJoin", "regetJoin", "saveJoin", "purge", "done"} :
           [j EXCEPT !.stage = s] \in Job
    BY DEF Job
  <1>2. \A o \in {"idle", "create", "update", "relcreate", "relupdate", "load"} :
           [j EXCEPT !.op = o] \in Job
    BY DEF Job
  <1>3. \A a \in {"none", "ok", "invalid", "ambiguous", "conflict"} :
           [j EXCEPT !.answer = a] \in Job
    BY DEF Job
  <1>4. \A ks \in SUBSET JoinIds : [j EXCEPT !.kept = ks] \in Job
    BY DEF Job
  <1>5. \A r \in RelIds \cup {0} : [j EXCEPT !.rel = r] \in Job
    BY DEF Job
  <1>6. \A k \in JoinIds \cup {0} : [j EXCEPT !.join = k] \in Job
    BY DEF Job
  <1> QED
    BY <1>1, <1>2, <1>3, <1>4, <1>5, <1>6

\* The job of a worker that has its answer.
LEMMA Answered ==
  ASSUME NEW o \in {"idle", "create", "update", "relcreate", "relupdate", "load"},
         NEW a \in {"ok", "invalid", "ambiguous", "conflict"},
         NEW ks \in SUBSET JoinIds, NEW r \in RelIds \cup {0}
  PROVE  [NoJob EXCEPT !.op = o, !.answer = a, !.kept = ks, !.rel = r] \in Job
  <1>1. PICK j \in Job : j = [NoJob EXCEPT !.op = o]
    BY NoJobInv, Fields
  <1>2. PICK k \in Job : k = [j EXCEPT !.answer = a]
    BY Fields
  <1>3. PICK l \in Job : l = [k EXCEPT !.kept = ks]
    BY Fields
  <1>4. [l EXCEPT !.rel = r] \in Job
    BY Fields
  <1> QED
    BY <1>1, <1>2, <1>3, <1>4

\* The same of a job j.
LEMMA DoneInv ==
  ASSUME NEW j \in Job, NEW a \in {"ok", "invalid", "ambiguous", "conflict"}
  PROVE  Done(j, a) \in Job /\ JobInv(Done(j, a))
  <1>1. /\ j.op \in {"idle", "create", "update", "relcreate", "relupdate", "load"}
        /\ j.kept \in SUBSET JoinIds
        /\ j.rel \in RelIds \cup {0}
    BY DEF Job
  <1>2. ASSUME j.op = "load" PROVE Done(j, a) \in Job
    BY <1>1, <1>2, Answered DEF Done
  <1>3. ASSUME j.op # "load" PROVE Done(j, a) \in Job
    <2>1. [NoJob EXCEPT !.op = j.op, !.answer = a, !.kept = j.kept, !.rel = 0] \in Job
      BY ZenonT(40), <1>1, Answered
    <2>2. Done(j, a) = [NoJob EXCEPT !.op = j.op, !.answer = a, !.kept = j.kept, !.rel = 0]
      BY <1>3 DEF Done
    <2> QED
      BY <2>1, <2>2
  <1>4. Done(j, a).stage = "done"
    BY DEF Done, NoJob
  <1>5. JobInv(Done(j, a))
    BY <1>4 DEF JobInv
  <1> QED
    BY <1>2, <1>3, <1>5

\* Worker w goes on with job j.
Becomes(w, j) == j \in Job /\ JobInv(j) /\ job' = [job EXCEPT ![w] = j]

\* It is enough to look at the job that changes.
LEMMA JobStep ==
  ASSUME IInv, NEW w \in Workers, NEW j, Becomes(w, j)
  PROVE  job' \in [Workers -> Job] /\ \A v \in Workers : JobInv(job'[v])
  BY DEF IInv, TypeOK, Becomes

\* A step that writes no table, and leaves w with job j.
LEMMA QuietStep ==
  ASSUME IInv, NEW w \in Workers, NEW j, Becomes(w, j), UNCHANGED tables,
         overlapped' \in BOOLEAN
  PROVE  IInv'
  <1>1. job' \in [Workers -> Job] /\ \A v \in Workers : JobInv(job'[v])
    BY JobStep
  <1> QED
    BY <1>1 DEF IInv, TypeOK, tables, JobInv

\* A request that has only arrived.
LEMMA ArriveInv ==
  ASSUME IInv, NEW w \in Workers, overlapped' \in BOOLEAN,
         \/ \E p \in Pairs, l \in Links, g \in Orgs : CreateJoin(w, p, l, g)
         \/ \E k \in JoinIds, p \in Pairs, l \in Links : UpdateJoin(w, k, p, l)
         \/ \E p \in Pairs, key \in Keys : CreateRel(w, p, key)
         \/ \E r \in RelIds, p \in Pairs, key \in Keys : UpdateRel(w, r, p, key)
         \/ \E p \in Pairs, ls \in SUBSET Links : Load(w, p, ls)
         \/ WorkerStops(w) \/ Respond(w)
  PROVE  IInv'
  <1>1. Pairs \subseteq Models \X Models /\ NoJob \in Job /\ JobInv(NoJob)
    BY ConstantsAssumption, NoJobInv
  <1>2. ASSUME NEW p \in Pairs, NEW l \in Links, NEW g \in Orgs, CreateJoin(w, p, l, g)
        PROVE  IInv'
    <2> DEFINE j == [NoJob EXCEPT !.op = "create", !.stage = "getRel", !.pair = p,
                                  !.link = l, !.org = g]
    <2>1. Becomes(w, j) /\ UNCHANGED tables
      BY ZenonT(40), <1>1, <1>2 DEF CreateJoin, Becomes, Job, NoJob, JobInv
    <2> QED
      BY <2>1, QuietStep
  <1>3. ASSUME NEW k \in JoinIds, NEW p \in Pairs, NEW l \in Links, UpdateJoin(w, k, p, l)
        PROVE  IInv'
    <2> DEFINE j == [NoJob EXCEPT !.op = "update", !.stage = "getRel", !.pair = p,
                                  !.link = l, !.org = joins[k].org, !.join = k]
    <2>1. joins[k].org \in Orgs
      BY <1>3 DEF UpdateJoin, IInv, TypeOK, Join
    <2>2. Becomes(w, j) /\ UNCHANGED tables
      BY ZenonT(40), <1>1, <1>3, <2>1 DEF UpdateJoin, Becomes, Job, NoJob, JobInv
    <2> QED
      BY <2>2, QuietStep
  <1>4. ASSUME NEW p \in Pairs, NEW key \in Keys, CreateRel(w, p, key)
        PROVE  IInv'
    <2> DEFINE j == [NoJob EXCEPT !.op = "relcreate", !.stage = "checkReverse",
                                  !.pair = p, !.key = key]
    <2>1. Becomes(w, j) /\ UNCHANGED tables
      BY ZenonT(40), <1>1, <1>4 DEF CreateRel, Becomes, Job, NoJob, JobInv
    <2> QED
      BY <2>1, QuietStep
  <1>5. ASSUME NEW r \in RelIds, NEW p \in Pairs, NEW key \in Keys, UpdateRel(w, r, p, key)
        PROVE  IInv'
    <2> DEFINE j == [NoJob EXCEPT !.op = "relupdate", !.stage = "checkReverse",
                                  !.pair = p, !.key = key, !.rel = r]
    <2>1. r # 0
      BY DEF RelIds
    <2>2. Becomes(w, j) /\ UNCHANGED tables
      BY ZenonT(40), <1>1, <1>5, <2>1 DEF UpdateRel, Becomes, Job, NoJob, JobInv
    <2> QED
      BY <2>2, QuietStep
  <1>6. ASSUME NEW p \in Pairs, NEW ls \in SUBSET Links, Load(w, p, ls)
        PROVE  IInv'
    <2> DEFINE j == [NoJob EXCEPT !.op = "load", !.stage = "getRel", !.pair = p,
                                  !.key = LoadKey, !.todo = ls]
    <2>1. Becomes(w, j) /\ UNCHANGED tables
      BY ZenonT(40), <1>1, <1>6 DEF Load, Becomes, Job, NoJob, JobInv, Keys
    <2> QED
      BY <2>1, QuietStep
  <1>7. CASE WorkerStops(w) \/ Respond(w)
    <2>1. Becomes(w, NoJob) /\ UNCHANGED tables
      BY <1>1, <1>7 DEF WorkerStops, Respond, Becomes
    <2> QED
      BY <2>1, QuietStep
  <1> QED
    BY <1>2, <1>3, <1>4, <1>5, <1>6, <1>7

-----------------------------------------------------------------------------
(* What a request goes on with.                                            *)

\* The next stage.
LEMMA GotoInv ==
  ASSUME IInv, NEW w \in Workers,
         NEW s \in {"checkReverse", "insertRel", "saveRel", "insertJoin", "regetJoin"},
         Goto(w, s), JobInv([job[w] EXCEPT !.stage = s])
  PROVE  \E j : Becomes(w, j)
  <1>1. job[w] \in Job /\ [job[w] EXCEPT !.stage = s] \in Job
    BY Fields DEF IInv, TypeOK
  <1> QED
    BY <1>1 DEF Goto, Becomes

\* An answer.
LEMMA AnswerInv ==
  ASSUME IInv, NEW w \in Workers, NEW a \in {"ok", "invalid", "ambiguous", "conflict"},
         Answer(w, a)
  PROVE  \E j : Becomes(w, j)
  BY DoneInv DEF IInv, TypeOK, Answer, Becomes

\* A relationship found or made.
LEMMA HasRel ==
  ASSUME IInv, NEW w \in Workers, NEW r \in RelIds,
         job[w].stage \in {"getRel", "insertRel"},
         job[w].op \in {"create", "update", "load"},
         job' = [job EXCEPT ![w].rel = r, ![w].stage = AfterRel(job[w])]
  PROVE  \E j : Becomes(w, j)
  <1> DEFINE j == [job[w] EXCEPT !.rel = r, !.stage = AfterRel(job[w])]
  <1>1. job[w] \in Job /\ JobInv(job[w])
    BY DEF IInv, TypeOK
  <1>2. AfterRel(job[w]) \in {"getJoin", "saveJoin", "purge"}
    BY DEF AfterRel
  <1>3. j \in Job
    <2>1. PICK k \in Job : k = [job[w] EXCEPT !.rel = r]
      BY <1>1, Fields
    <2>2. [k EXCEPT !.stage = AfterRel(job[w])] \in Job
      BY <1>2, Fields
    <2> QED
      BY <2>1, <2>2
  <1>4. /\ j.op = job[w].op /\ j.rel = r /\ j.stage = AfterRel(job[w])
        /\ j.link = job[w].link /\ j.org = job[w].org /\ j.join = job[w].join
        /\ j.answer = job[w].answer
    BY <1>1 DEF Job
  <1>5. JobInv(j)
    BY <1>1, <1>4 DEF JobInv, AfterRel
  <1>6. job' = [job EXCEPT ![w] = j]
    OBVIOUS
  <1> QED
    BY <1>3, <1>5, <1>6 DEF Becomes

\* A join record found or made.
LEMMA HasJoin ==
  ASSUME IInv, NEW w \in Workers, NEW k \in JoinIds,
         job[w].stage \in {"getJoin", "regetJoin", "insertJoin"}, JoinKept(w, k)
  PROVE  \E j : Becomes(w, j)
  <1>1. job[w] \in Job /\ JobInv(job[w])
    BY DEF IInv, TypeOK
  <1>2. CASE job[w].op = "load"
    <2> DEFINE j == [job[w] EXCEPT !.kept = @ \cup {k}, !.stage = "purge"]
    <2>1. j \in Job
      <3>1. job[w].kept \cup {k} \in SUBSET JoinIds
        BY <1>1 DEF Job
      <3>2. PICK l \in Job : l = [job[w] EXCEPT !.kept = job[w].kept \cup {k}]
        BY <1>1, <3>1, Fields
      <3>3. [l EXCEPT !.stage = "purge"] \in Job
        BY Fields
      <3> QED
        BY <3>2, <3>3
    <2>2. /\ j.op = "load" /\ j.rel = job[w].rel /\ j.stage = "purge"
          /\ j.answer = job[w].answer
      BY <1>1, <1>2 DEF Job
    <2>3. JobInv(j)
      BY <1>1, <2>2 DEF JobInv
    <2>4. job' = [job EXCEPT ![w] = j]
      BY <1>2 DEF JoinKept
    <2> QED
      BY <2>1, <2>3, <2>4 DEF Becomes
  <1>3. CASE job[w].op # "load"
    <2>1. PICK d \in Job : d = Done(job[w], "ok")
      BY <1>1, DoneInv
    <2> DEFINE j == [d EXCEPT !.join = k]
    <2>2. j \in Job
      BY <2>1, Fields
    <2>3. j.stage = "done"
      BY <2>1 DEF Done, NoJob
    <2>4. JobInv(j)
      BY <2>3 DEF JobInv
    <2>5. job' = [job EXCEPT ![w] = j]
      BY <1>3, <2>1 DEF JoinKept
    <2> QED
      BY <2>2, <2>4, <2>5 DEF Becomes
  <1> QED
    BY <1>2, <1>3

\* Steps that write no table.
LEMMA LookInv ==
  ASSUME IInv, NEW w \in Workers, overlapped' \in BOOLEAN,
         \/ \E r \in RelIds : GetRelFound(w, r)
         \/ GetRelAmbiguous(w) \/ GetRelMissing(w)
         \/ CheckReverse(w) \/ CheckReverseFails(w) \/ RelDangling(w)
         \/ \E k \in JoinIds : GetJoinFound(w, k)
         \/ GetJoinMissing(w) \/ RegetJoinMissing(w)
         \/ InsertJoinRefused(w) \/ SaveJoinRefused(w)
         \/ \E l \in Links, g \in Orgs : LoadLink(w, l, g)
  PROVE  IInv'
  <1>1. job[w] \in Job /\ JobInv(job[w])
    BY DEF IInv, TypeOK
  <1>2. UNCHANGED tables
    BY DEF GetRelFound, GetRelAmbiguous, GetRelMissing, CheckReverse, CheckReverseFails,
           RelDangling, GetJoinFound, GetJoinMissing, RegetJoinMissing,
           InsertJoinRefused, SaveJoinRefused, LoadLink
  <1> SUFFICES \E j : Becomes(w, j)
    BY <1>2, QuietStep
  <1>3. ASSUME NEW r \in RelIds, GetRelFound(w, r)
        PROVE  \E j : Becomes(w, j)
    BY <1>1, <1>3, HasRel DEF GetRelFound, At, JobInv
  <1>4. CASE \/ GetRelAmbiguous(w) \/ CheckReverseFails(w) \/ RelDangling(w)
             \/ RegetJoinMissing(w) \/ SaveJoinRefused(w)
    BY <1>4, AnswerInv DEF GetRelAmbiguous, CheckReverseFails, RelDangling,
                           RegetJoinMissing, SaveJoinRefused
  <1>5. CASE GetRelMissing(w)
    <2>1. JobInv([job[w] EXCEPT !.stage = "checkReverse"])
      BY <1>1, <1>5 DEF GetRelMissing, At, Job, JobInv
    <2> QED
      BY <1>5, <2>1, GotoInv DEF GetRelMissing
  <1>6. CASE CheckReverse(w)
    <2>1. /\ job[w].stage = "checkReverse" /\ job[w].op # "idle"
          /\ job[w].rel # 0 => job[w].rel \in RelIds
      BY <1>1, <1>6 DEF CheckReverse, At, Idle, Job
    <2>2. CASE job[w].rel = 0
      <3>1. JobInv([job[w] EXCEPT !.stage = "insertRel"])
        BY <1>1, <2>1, <2>2 DEF Job, JobInv
      <3> QED
        BY <1>6, <2>2, <3>1, GotoInv DEF CheckReverse
    <2>3. CASE job[w].rel # 0
      <3>1. JobInv([job[w] EXCEPT !.stage = "saveRel"])
        BY <1>1, <2>1, <2>3 DEF Job, JobInv
      <3> QED
        BY <1>6, <2>3, <3>1, GotoInv DEF CheckReverse
    <2> QED
      BY <2>2, <2>3
  <1>7. ASSUME NEW k \in JoinIds, GetJoinFound(w, k)
        PROVE  \E j : Becomes(w, j)
    BY <1>7, HasJoin DEF GetJoinFound, At
  <1>8. CASE GetJoinMissing(w)
    <2>1. JobInv([job[w] EXCEPT !.stage = "insertJoin"])
      BY <1>1, <1>8 DEF GetJoinMissing, At, Job, JobInv
    <2> QED
      BY <1>8, <2>1, GotoInv DEF GetJoinMissing
  <1>9. CASE InsertJoinRefused(w)
    <2>1. JobInv([job[w] EXCEPT !.stage = "regetJoin"])
      BY <1>1, <1>9 DEF InsertJoinRefused, At, Job, JobInv
    <2> QED
      BY <1>9, <2>1, GotoInv DEF InsertJoinRefused
  <1>10. ASSUME NEW l \in Links, NEW g \in Orgs, LoadLink(w, l, g)
         PROVE  \E j : Becomes(w, j)
    <2> DEFINE j == [job[w] EXCEPT !.link = l, !.org = g, !.todo = @ \ {l},
                                   !.stage = "getJoin"]
    <2>1. job[w].stage = "purge" /\ job' = [job EXCEPT ![w] = j]
      BY <1>10 DEF LoadLink, At
    <2>2. j \in Job
      BY <1>1 DEF Job
    <2>3. /\ j.op = job[w].op /\ j.rel = job[w].rel /\ j.stage = "getJoin"
          /\ j.link = l /\ j.org = g /\ j.answer = job[w].answer
      BY <1>1 DEF Job
    <2>4. JobInv(j)
      BY <1>1, <2>1, <2>3 DEF JobInv
    <2> QED
      BY <2>1, <2>2, <2>4 DEF Becomes
  <1> QED
    BY <1>3, <1>4, <1>5, <1>6, <1>7, <1>8, <1>9, <1>10

-----------------------------------------------------------------------------
(* Writes to the tables.                                                   *)

\* Relationships are created and saved.
LEMMA RelInv ==
  ASSUME IInv, NEW w \in Workers, overlapped' \in BOOLEAN, InsertRel(w) \/ SaveRel(w)
  PROVE  IInv'
  <1>1. /\ job[w] \in Job /\ JobInv(job[w])
        /\ job[w].pair \in Models \X Models /\ job[w].key \in Keys
    BY DEF IInv, TypeOK, Job
  <1>2. /\ models' = models /\ joins' = joins /\ nextJoin' = nextJoin
        /\ nextRel' \in 1..(MaxRels + 1)
    BY ConstantsAssumption DEF InsertRel, SaveRel, IInv, TypeOK, RelIds
  <1>3. \E j : Becomes(w, j)
    <2>1. CASE InsertRel(w)
      <3>1. CASE job[w].op = "relcreate"
        BY <2>1, <3>1, AnswerInv DEF InsertRel
      <3>2. CASE job[w].op # "relcreate"
        <4>1. job[w].op \in {"create", "update", "load"}
          BY <1>1, <2>1, <3>2 DEF InsertRel, At, Idle, Job, JobInv
        <4> QED
          BY <2>1, <3>2, <4>1, HasRel DEF InsertRel, At
      <3> QED
        BY <3>1, <3>2
    <2>2. CASE SaveRel(w)
      BY <2>2, AnswerInv DEF SaveRel
    <2> QED
      BY <2>1, <2>2
  <1>4. rels' \in [RelIds -> Rel \cup {NoRow}]
    <2>1. PICK r \in RelIds :
             rels' = [rels EXCEPT ![r] = [pair |-> job[w].pair, key |-> job[w].key]]
      BY <1>1 DEF InsertRel, SaveRel, At, JobInv
    <2>2. [pair |-> job[w].pair, key |-> job[w].key] \in Rel
      BY <1>1 DEF Rel
    <2> QED
      BY <2>1, <2>2 DEF IInv, TypeOK
  <1>5. job' \in [Workers -> Job] /\ \A v \in Workers : JobInv(job'[v])
    BY <1>3, JobStep
  <1> QED
    BY <1>2, <1>4, <1>5 DEF IInv, TypeOK, JobInv

\* Join records are created and saved.
LEMMA JoinInv ==
  ASSUME IInv, NEW w \in Workers, overlapped' \in BOOLEAN, InsertJoin(w) \/ SaveJoin(w)
  PROVE  IInv'
  <1>1. job[w] \in Job /\ JobInv(job[w])
    BY DEF IInv, TypeOK
  <1>2. /\ models' = models /\ rels' = rels /\ nextRel' = nextRel
        /\ nextJoin' \in 1..(MaxJoins + 1)
    BY ConstantsAssumption DEF InsertJoin, SaveJoin, IInv, TypeOK, JoinIds
  <1>3. \E j : Becomes(w, j)
    <2>1. CASE InsertJoin(w)
      BY <2>1, HasJoin DEF InsertJoin, At
    <2>2. CASE SaveJoin(w)
      BY <2>2, AnswerInv DEF SaveJoin
    <2> QED
      BY <2>1, <2>2
  <1>4. joins' \in [JoinIds -> Join \cup {NoRow}]
    <2>1. NewJoin(job[w]) \in Join
      BY <1>1 DEF InsertJoin, SaveJoin, At, JobInv, NewJoin, Join
    <2>2. PICK k \in JoinIds : joins' = [joins EXCEPT ![k] = NewJoin(job[w])]
      BY <1>1 DEF InsertJoin, SaveJoin, At, JobInv
    <2> QED
      BY <2>1, <2>2 DEF IInv, TypeOK
  <1>5. job' \in [Workers -> Job] /\ \A v \in Workers : JobInv(job'[v])
    BY <1>3, JobStep
  <1> QED
    BY <1>2, <1>4, <1>5 DEF IInv, TypeOK, JobInv

\* The end of the command.
LEMMA PurgeInv ==
  ASSUME IInv, NEW w \in Workers, overlapped' \in BOOLEAN, Purge(w)
  PROVE  IInv'
  <1>1. \E j : Becomes(w, j)
    BY AnswerInv DEF Purge
  <1>2. job' \in [Workers -> Job] /\ \A v \in Workers : JobInv(job'[v])
    BY <1>1, JobStep
  <1>3. joins' \in [JoinIds -> Join \cup {NoRow}]
    BY DEF Purge, IInv, TypeOK
  <1> QED
    BY <1>2, <1>3 DEF Purge, IInv, TypeOK, JobInv

\* Deletions.
LEMMA DeleteInv ==
  ASSUME IInv, NEW w \in Workers, overlapped' \in BOOLEAN,
         \/ \E k \in JoinIds : DeleteJoin(w, k)
         \/ \E r \in RelIds : DeleteRel(w, r)
         \/ \E m \in Models : DeleteModel(w, m)
  PROVE  IInv'
  <1>1. /\ models' \subseteq Models
        /\ rels' \in [RelIds -> Rel \cup {NoRow}]
    BY DEF DeleteJoin, DeleteRel, DeleteModel, IInv, TypeOK
  <1>2. joins' \in [JoinIds -> Join \cup {NoRow}]
    BY DEF DeleteJoin, DeleteRel, DeleteModel, JoinsWithout, IInv, TypeOK
  <1>3. UNCHANGED <<nextRel, nextJoin, job>>
    BY DEF DeleteJoin, DeleteRel, DeleteModel
  <1> QED
    BY <1>1, <1>2, <1>3 DEF IInv, TypeOK, JobInv

\* Every step keeps types.
LEMMA NextInv ==
  ASSUME IInv, [Next]_vars
  PROVE  IInv'
  <1>1. CASE UNCHANGED vars
    BY <1>1 DEF vars, IInv, TypeOK, JobInv
  <1>2. ASSUME NEW w \in Workers, Progresses(w), UNCHANGED overlapped
        PROVE  IInv'
    <2>1. overlapped' \in BOOLEAN
      BY <1>2 DEF IInv, TypeOK
    <2> QED
      BY <1>2, <2>1, LookInv, RelInv, JoinInv, PurgeInv, ArriveInv DEF Progresses
  <1>3. ASSUME NEW w \in Workers, Arrives(w), overlapped' = (overlapped \/ Overlaps(w))
        PROVE  IInv'
    <2>1. overlapped' \in BOOLEAN
      BY <1>3 DEF IInv, TypeOK, Overlaps
    <2> QED
      BY <1>3, <2>1, ArriveInv, DeleteInv DEF Arrives
  <1> QED
    BY <1>1, <1>2, <1>3 DEF Next

\* The tables are empty and nobody works.
LEMMA InitInv ==
  ASSUME Init
  PROVE  IInv
  <1>1. TypeOK
    <2>1. rels \in [RelIds -> Rel \cup {NoRow}] /\ joins \in [JoinIds -> Join \cup {NoRow}]
      BY DEF Init
    <2>2. nextRel \in 1..(MaxRels + 1) /\ nextJoin \in 1..(MaxJoins + 1)
      BY ConstantsAssumption DEF Init
    <2>3. job \in [Workers -> Job]
      BY NoJobInv DEF Init
    <2> QED
      BY <2>1, <2>2, <2>3 DEF Init, TypeOK
  <1>2. \A w \in Workers : JobInv(job[w])
    BY NoJobInv DEF Init
  <1> QED
    BY <1>1, <1>2 DEF IInv

\* The invariant.
THEOREM Invariant == Spec => []IInv
  BY InitInv, NextInv, PTL DEF Spec

\* Type correctness.
THEOREM TypeCorrect == Spec => []TypeOK
  <1>1. IInv => TypeOK
    BY DEF IInv
  <1> QED
    BY <1>1, Invariant, PTL

-----------------------------------------------------------------------------
(* Whose the join records are.                                             *)

\* A worker's step leaves the other workers' jobs alone.
LEMMA Others ==
  ASSUME IInv, NEW v \in Workers, NEW w \in Workers, v # w,
         Progresses(v) \/ Arrives(v)
  PROVE  job'[w] = job[w]
  <1>1. job \in [Workers -> Job]
    BY DEF IInv, TypeOK
  <1>2. ASSUME Progresses(v)
        PROVE  job'[w] = job[w]
    BY <1>1, <1>2 DEF Progresses, GetRelFound, GetRelAmbiguous, GetRelMissing,
       CheckReverse, CheckReverseFails, InsertRel, SaveRel, RelDangling, GetJoinFound,
       GetJoinMissing, RegetJoinMissing, InsertJoin, InsertJoinRefused, SaveJoin,
       SaveJoinRefused, LoadLink, Purge, Respond, Goto, Answer, JoinKept
  <1>3. ASSUME Arrives(v)
        PROVE  job'[w] = job[w]
    BY <1>1, <1>3 DEF Arrives, CreateJoin, UpdateJoin, DeleteJoin, CreateRel, UpdateRel,
       DeleteRel, DeleteModel, Load, WorkerStops
  <1> QED
    BY <1>2, <1>3

\* Primary keys are handed out in order, and a request names none that is still to
\* come; the record a PUT has read is saved for the organization it belongs to.
OwnInv ==
    /\ \A r \in RelIds : rels[r] # NoRow => r < nextRel
    /\ \A w \in Workers : job[w].rel < nextRel
    /\ \A k \in JoinIds : joins[k] # NoRow => k < nextJoin
    /\ \A w \in Workers, k \in JoinIds : Updating(w, k) => k < nextJoin
    /\ RecordKeepsOwner

\* A request refers to what it referred to before, or to a row that is there.
RefersTo(w) ==
    /\ \/ job'[w].rel \in {job[w].rel, 0}
       \/ job'[w].rel \in RelIds /\ rels[job'[w].rel] # NoRow
       \/ InsertRel(w) /\ job'[w].rel = nextRel
    /\ \A k \in JoinIds : Updating(w, k)' =>
          \/ Updating(w, k) /\ job'[w].org = job[w].org
          \/ joins[k] # NoRow /\ job'[w].org = joins[k].org

\* A request with its answer, or none.
LEMMA EndRefers ==
  ASSUME IInv, NEW w \in Workers,
         \/ job' = [job EXCEPT ![w] = NoJob]
         \/ \E a : Answer(w, a)
         \/ \E k : JoinKept(w, k)
  PROVE  RefersTo(w)
  <1>1. job \in [Workers -> Job] /\ job[w] \in Job
    BY DEF IInv, TypeOK
  <1>2. ASSUME NEW k, JoinKept(w, k), job[w].op = "load"
        PROVE  RefersTo(w)
    <2>1. job'[w].rel = job[w].rel /\ job'[w].op = "load"
      BY <1>1, <1>2 DEF JoinKept, Job
    <2> QED
      BY <2>1 DEF RefersTo, Updating
  <1>3. ASSUME job'[w].stage = "done" /\ job'[w].rel \in {job[w].rel, 0}
        PROVE  RefersTo(w)
    BY <1>3 DEF RefersTo, Updating
  <1>4. ASSUME NEW a, Answer(w, a)
        PROVE  RefersTo(w)
    <2>1. job'[w] = Done(job[w], a)
      BY <1>1, <1>4 DEF Answer
    <2>2. Done(job[w], a).stage = "done" /\ Done(job[w], a).rel \in {job[w].rel, 0}
      BY DEF Done, NoJob
    <2> QED
      BY <1>3, <2>1, <2>2
  <1>5. ASSUME NEW k, JoinKept(w, k), job[w].op # "load"
        PROVE  RefersTo(w)
    <2>1. job'[w] = [Done(job[w], "ok") EXCEPT !.join = k]
      BY <1>1, <1>5 DEF JoinKept
    <2>2. Done(job[w], "ok").stage = "done" /\ Done(job[w], "ok").rel \in {job[w].rel, 0}
      BY DEF Done, NoJob
    <2>3. job'[w].stage = "done" /\ job'[w].rel \in {job[w].rel, 0}
      BY <2>1, <2>2 DEF Done, NoJob
    <2> QED
      BY <1>3, <2>3
  <1>6. CASE job' = [job EXCEPT ![w] = NoJob]
    <2>1. job'[w].stage = "done" /\ job'[w].rel = 0
      BY <1>1, <1>6 DEF NoJob
    <2> QED
      BY <1>3, <2>1
  <1> QED
    BY <1>2, <1>4, <1>5, <1>6

\* A request that arrives.
LEMMA ArriveRefers ==
  ASSUME IInv, NEW w \in Workers, Arrives(w)
  PROVE  RefersTo(w)
  <1>1. job \in [Workers -> Job] /\ job[w] \in Job
    BY DEF IInv, TypeOK
  <1>2. ASSUME NEW k \in JoinIds, NEW p \in Pairs, NEW l \in Links, UpdateJoin(w, k, p, l)
        PROVE  RefersTo(w)
    <2>1. /\ job'[w].rel = 0 /\ job'[w].join = k /\ job'[w].org = joins[k].org
          /\ joins[k] # NoRow
      BY ZenonT(40), <1>1, <1>2 DEF UpdateJoin, NoJob
    <2> QED
      BY <2>1 DEF RefersTo, Updating
  <1>3. ASSUME NEW r \in RelIds, NEW p \in Pairs, NEW key \in Keys, UpdateRel(w, r, p, key)
        PROVE  RefersTo(w)
    <2>1. job'[w].rel = r /\ job'[w].op = "relupdate" /\ rels[r] # NoRow
      BY ZenonT(40), <1>1, <1>3 DEF UpdateRel, NoJob
    <2> QED
      BY <2>1 DEF RefersTo, Updating
  <1>4. ASSUME NEW p \in Pairs, NEW l \in Links, NEW g \in Orgs, CreateJoin(w, p, l, g)
        PROVE  job'[w].rel = 0 /\ job'[w].op = "create"
    BY ZenonT(40), <1>1, <1>4 DEF CreateJoin, NoJob
  <1>5. ASSUME NEW p \in Pairs, NEW key \in Keys, CreateRel(w, p, key)
        PROVE  job'[w].rel = 0 /\ job'[w].op = "relcreate"
    BY ZenonT(40), <1>1, <1>5 DEF CreateRel, NoJob
  <1>6. ASSUME NEW p \in Pairs, NEW ls \in SUBSET Links, Load(w, p, ls)
        PROVE  job'[w].rel = 0 /\ job'[w].op = "load"
    BY ZenonT(40), <1>1, <1>6 DEF Load, NoJob
  <1>7. ASSUME (job'[w].rel = 0 /\ job'[w].op # "update") \/ job' = job
        PROVE  RefersTo(w)
    BY <1>7 DEF RefersTo, Updating
  <1>8. ASSUME \/ \E k \in JoinIds : DeleteJoin(w, k)
               \/ \E r \in RelIds : DeleteRel(w, r)
               \/ \E m \in Models : DeleteModel(w, m)
        PROVE  job' = job
    BY <1>8 DEF DeleteJoin, DeleteRel, DeleteModel
  <1>9. WorkerStops(w) => RefersTo(w)
    BY EndRefers DEF WorkerStops
  <1> QED
    BY <1>2, <1>3, <1>4, <1>5, <1>6, <1>7, <1>8, <1>9 DEF Arrives

\* A request that goes on.
LEMMA ProgressRefers ==
  ASSUME IInv, NEW w \in Workers, Progresses(w)
  PROVE  RefersTo(w)
  <1>1. job \in [Workers -> Job] /\ job[w] \in Job
    BY DEF IInv, TypeOK
  <1>2. ASSUME (\E a : Answer(w, a)) \/ (\E k : JoinKept(w, k)) \/ Respond(w)
        PROVE  RefersTo(w)
    BY <1>2, EndRefers DEF Respond
  <1>3. ASSUME NEW t, Goto(w, t), job[w].stage # "done"
        PROVE  RefersTo(w)
    <2>1. /\ job'[w].rel = job[w].rel /\ job'[w].org = job[w].org
          /\ job'[w].op = job[w].op /\ job'[w].join = job[w].join
      BY <1>1, <1>3 DEF Goto, Job
    <2> QED
      BY <1>3, <2>1 DEF RefersTo, Updating
  <1>4. ASSUME NEW r \in RelIds \cup {0},
               job' = [job EXCEPT ![w].rel = r, ![w].stage = AfterRel(job[w])],
               job[w].stage # "done",
               \/ rels[r] # NoRow /\ r \in RelIds
               \/ InsertRel(w) /\ r = nextRel
        PROVE  RefersTo(w)
    <2>1. /\ job'[w].rel = r /\ job'[w].org = job[w].org
          /\ job'[w].op = job[w].op /\ job'[w].join = job[w].join
      BY <1>1, <1>4 DEF Job
    <2> QED
      BY <1>4, <2>1 DEF RefersTo, Updating
  <1>5. ASSUME NEW r \in RelIds, GetRelFound(w, r)
        PROVE  RefersTo(w)
    <2>1. rels[r] # NoRow
      BY <1>5 DEF GetRelFound, RelsFor
    <2> QED
      BY <1>4, <1>5, <2>1 DEF GetRelFound, At
  <1>6. ASSUME InsertRel(w)
        PROVE  RefersTo(w)
    BY <1>2, <1>4, <1>6 DEF InsertRel, At
  <1>7. ASSUME NEW l \in Links, NEW g \in Orgs, LoadLink(w, l, g)
        PROVE  RefersTo(w)
    <2>1. job'[w].rel = job[w].rel /\ job'[w].op = "load"
      <3>1. job[w].op = "load"
        BY <1>7 DEF LoadLink, At, IInv, JobInv
      <3> QED
        BY <1>1, <1>7, <3>1 DEF LoadLink, Job
    <2> QED
      BY <2>1 DEF RefersTo, Updating
  <1>8. ASSUME \/ GetRelMissing(w) \/ CheckReverse(w)
               \/ GetJoinMissing(w) \/ InsertJoinRefused(w)
        PROVE  RefersTo(w)
    BY <1>3, <1>8 DEF GetRelMissing, CheckReverse, GetJoinMissing, InsertJoinRefused, At
  <1> QED
    BY <1>2, <1>5, <1>6, <1>7, <1>8 DEF Progresses, GetRelAmbiguous, CheckReverseFails,
       RelDangling, GetJoinFound, RegetJoinMissing, InsertJoin, SaveJoin, SaveJoinRefused,
       SaveRel, Purge

\* What a step may write.
LEMMA TablesStep ==
  ASSUME IInv, NEW w \in Workers, Progresses(w) \/ Arrives(w)
  PROVE  /\ nextRel' >= nextRel /\ nextJoin' >= nextJoin
         /\ \A r \in RelIds : \/ rels'[r] \in {NoRow, rels[r]}
                              \/ r = job[w].rel
                              \/ r = nextRel /\ nextRel' = nextRel + 1
         /\ InsertRel(w) => nextRel' = nextRel + 1
         /\ \A k \in JoinIds : \/ joins'[k] \in {NoRow, joins[k]}
                               \/ Updating(w, k) /\ joins'[k].org = job[w].org
                               \/ k = nextJoin /\ nextJoin' = nextJoin + 1
  <1>1. /\ job[w] \in Job /\ nextRel \in Nat /\ nextJoin \in Nat
        /\ rels \in [RelIds -> Rel \cup {NoRow}]
        /\ joins \in [JoinIds -> Join \cup {NoRow}]
    BY ConstantsAssumption DEF IInv, TypeOK
  <1>2. CASE InsertRel(w) \/ SaveRel(w)
    BY <1>1, <1>2 DEF InsertRel, SaveRel
  <1>3. CASE InsertJoin(w)
    BY <1>1, <1>3 DEF InsertJoin, InsertRel, At
  <1>4. CASE SaveJoin(w)
    <2>1. Updating(w, job[w].join)
      BY <1>4 DEF SaveJoin, At, Updating, IInv, JobInv
    <2> QED
      BY <1>1, <1>4, <2>1 DEF SaveJoin, NewJoin, InsertRel, At
  <1>5. CASE ~(InsertRel(w) \/ SaveRel(w) \/ InsertJoin(w) \/ SaveJoin(w))
    <2>1. nextRel' = nextRel /\ nextJoin' = nextJoin
      BY <1>5 DEF Progresses, Arrives, GetRelFound, GetRelAmbiguous, GetRelMissing,
         CheckReverse, CheckReverseFails, RelDangling, GetJoinFound, GetJoinMissing,
         RegetJoinMissing, InsertJoinRefused, SaveJoinRefused, LoadLink, Purge, Respond,
         CreateJoin, UpdateJoin, DeleteJoin, CreateRel, UpdateRel, DeleteRel,
         DeleteModel, Load, WorkerStops, tables
    <2>2. \A r \in RelIds : rels'[r] \in {NoRow, rels[r]}
      BY <1>1, <1>5 DEF Progresses, Arrives, GetRelFound, GetRelAmbiguous, GetRelMissing,
         CheckReverse, CheckReverseFails, RelDangling, GetJoinFound, GetJoinMissing,
         RegetJoinMissing, InsertJoinRefused, SaveJoinRefused, LoadLink, Purge, Respond,
         CreateJoin, UpdateJoin, DeleteJoin, CreateRel, UpdateRel, DeleteRel,
         DeleteModel, Load, WorkerStops, tables
    <2>3. \A k \in JoinIds : joins'[k] \in {NoRow, joins[k]}
      BY <1>1, <1>5 DEF Progresses, Arrives, GetRelFound, GetRelAmbiguous, GetRelMissing,
         CheckReverse, CheckReverseFails, RelDangling, GetJoinFound, GetJoinMissing,
         RegetJoinMissing, InsertJoinRefused, SaveJoinRefused, LoadLink, Purge, Respond,
         CreateJoin, UpdateJoin, DeleteJoin, CreateRel, UpdateRel, DeleteRel,
         DeleteModel, Load, WorkerStops, JoinsWithout, tables
    <2> QED
      BY <1>1, <1>5, <2>1, <2>2, <2>3
  <1> QED
    BY <1>2, <1>3, <1>4, <1>5

\* Every step keeps the records with their organizations.
LEMMA NextOwn ==
  ASSUME IInv, OwnInv, [Next]_vars
  PROVE  OwnInv'
  <1>1. CASE UNCHANGED vars
    BY <1>1 DEF vars, OwnInv, RecordKeepsOwner, Updating
  <1>2. ASSUME NEW w \in Workers, Progresses(w) \/ Arrives(w)
        PROVE  OwnInv'
    <2>1. /\ nextRel \in Nat /\ nextJoin \in Nat /\ job \in [Workers -> Job]
          /\ nextRel' \in Nat /\ nextJoin' \in Nat
      <3>1. IInv'
        BY NextInv
      <3> QED
        BY <3>1, ConstantsAssumption DEF IInv, TypeOK
    <2>2. RefersTo(w)
      BY <1>2, ArriveRefers, ProgressRefers
    <2>3. \A v \in Workers : v # w => job'[v] = job[v]
      BY <1>2, Others
    <2>4. \A v \in Workers, k \in JoinIds : v # w /\ Updating(v, k)' => Updating(v, k)
      BY <2>3 DEF Updating
    <2>5. \A r \in RelIds : rels'[r] # NoRow => r < nextRel'
      BY <1>2, <2>1, TablesStep DEF OwnInv, RelIds
    <2>6. \A v \in Workers : job'[v].rel < nextRel'
      <3>1. \A v \in Workers : job[v].rel \in Nat /\ job[v].rel < nextRel
        BY <2>1 DEF OwnInv, Job, RelIds
      <3>2. nextRel' >= nextRel /\ (InsertRel(w) => nextRel' = nextRel + 1)
        BY <1>2, TablesStep
      <3>3. \A v \in Workers : v # w => job'[v].rel < nextRel'
        BY <2>1, <2>3, <3>1, <3>2
      <3>4. job'[w].rel < nextRel'
        <4>1. \/ job'[w].rel \in {job[w].rel, 0}
              \/ job'[w].rel \in RelIds /\ rels[job'[w].rel] # NoRow
              \/ InsertRel(w) /\ job'[w].rel = nextRel
          BY <2>2 DEF RefersTo
        <4> QED
          BY <2>1, <3>1, <3>2, <4>1 DEF OwnInv, RelIds
      <3> QED
        BY <3>3, <3>4
    <2>7. \A k \in JoinIds : joins'[k] # NoRow => k < nextJoin'
      BY <1>2, <2>1, TablesStep DEF OwnInv, JoinIds
    <2>8. \A v \in Workers, k \in JoinIds : Updating(v, k)' => k < nextJoin /\ k < nextJoin'
      BY <1>2, <2>1, <2>2, <2>4, TablesStep DEF OwnInv, RefersTo, JoinIds
    <2>9. RecordKeepsOwner'
      <3>1. ASSUME NEW v \in Workers, NEW k \in JoinIds, Updating(v, k)'
            PROVE  \/ Updating(v, k) /\ job'[v].org = job[v].org
                   \/ joins[k] # NoRow /\ job'[v].org = joins[k].org
        BY <2>2, <2>3, <2>4, <3>1 DEF RefersTo
      <3>2. ASSUME NEW v \in Workers, NEW k \in JoinIds, Updating(v, k)', joins'[k] # NoRow
            PROVE  joins'[k].org = job'[v].org
        <4>1. k # nextJoin
          BY <2>1, <2>8, <3>2 DEF JoinIds
        <4>2. \/ joins'[k] = joins[k]
              \/ Updating(w, k) /\ joins'[k].org = job[w].org
          BY <1>2, <3>2, <4>1, TablesStep
        <4> QED
          BY <3>1, <3>2, <4>2 DEF OwnInv, RecordKeepsOwner
      <3>3. ASSUME NEW v \in Workers, NEW u \in Workers, NEW k \in JoinIds,
                   Updating(v, k)', Updating(u, k)'
            PROVE  job'[v].org = job'[u].org
        BY <3>1, <3>3 DEF OwnInv, RecordKeepsOwner
      <3>4. \A v \in Workers, k \in JoinIds : Updating(v, k)' =>
               /\ joins'[k] # NoRow => joins'[k].org = job'[v].org
               /\ \A u \in Workers : Updating(u, k)' => job'[u].org = job'[v].org
        BY <3>2, <3>3
      <3> QED
        BY <3>4 DEF RecordKeepsOwner
    <2> QED
      BY <2>5, <2>6, <2>7, <2>8, <2>9 DEF OwnInv
  <1> QED
    BY <1>1, <1>2 DEF Next

\* Types, and whose the records are.
THEOREM Owned == Spec => [](IInv /\ OwnInv)
  <1>1. Init => OwnInv
    BY DEF Init, OwnInv, RecordKeepsOwner, Updating, NoJob
  <1>2. IInv /\ OwnInv /\ [Next]_vars => (IInv /\ OwnInv)'
    BY NextInv, NextOwn
  <1> QED
    BY <1>1, <1>2, InitInv, PTL DEF Spec

\* A join record belongs to the organization that created it, for good, however PUTs,
\* deletions, cascades and the command overlap (datamesh/serializers.py update,
\* datamesh/mixins.py).
THEOREM OwnerStays == Spec => []RecordKeepsOwner
  <1>1. OwnInv => RecordKeepsOwner
    BY DEF OwnInv
  <1> QED
    BY <1>1, Owned, PTL

-----------------------------------------------------------------------------
(* What a POST is answered.                                                *)

\* The steps that may give a POST its record.
LEMMA PostAnswered ==
  ASSUME IInv, NEW w \in Workers, Progresses(w) \/ Arrives(w),
         job[w].op = "create", job[w].answer = "none", job'[w].answer = "ok"
  PROVE  (\E k \in JoinIds : GetJoinFound(w, k)) \/ InsertJoin(w)
  <1>1. job \in [Workers -> Job] /\ job[w] \in Job /\ JobInv(job[w]) /\ ~Idle(w)
    BY DEF IInv, TypeOK, Idle
  <1>2. ~Arrives(w) /\ ~Respond(w)
    <2>1. job' # [job EXCEPT ![w] = NoJob]
      BY <1>1 DEF NoJob
    <2>2. ~WorkerStops(w) /\ ~Respond(w)
      BY <2>1 DEF WorkerStops, Respond
    <2> QED
      BY <1>1, <2>2 DEF Arrives, CreateJoin, UpdateJoin, DeleteJoin, CreateRel,
         UpdateRel, DeleteRel, DeleteModel, Load
  <1>3. \A s : ~Goto(w, s)
    BY <1>1 DEF Goto, Job
  <1>4. \A a : Answer(w, a) => a = "ok"
    BY <1>1 DEF Answer, Done, NoJob
  <1>5. ~SaveRel(w) /\ ~SaveJoin(w) /\ ~Purge(w)
    BY <1>1 DEF SaveRel, SaveJoin, Purge, At, JobInv
  <1>6. ~InsertRel(w) /\ \A r \in RelIds : ~GetRelFound(w, r)
    BY <1>1 DEF InsertRel, GetRelFound, Job
  <1>7. \A l \in Links, g \in Orgs : ~LoadLink(w, l, g)
    BY <1>1 DEF LoadLink, At, JobInv
  <1>8. /\ ~GetRelAmbiguous(w) /\ ~GetRelMissing(w) /\ ~CheckReverse(w)
        /\ ~CheckReverseFails(w) /\ ~RelDangling(w) /\ ~GetJoinMissing(w)
        /\ ~RegetJoinMissing(w) /\ ~InsertJoinRefused(w) /\ ~SaveJoinRefused(w)
    BY <1>3, <1>4 DEF GetRelAmbiguous, GetRelMissing, CheckReverse, CheckReverseFails,
       RelDangling, GetJoinMissing, RegetJoinMissing, InsertJoinRefused, SaveJoinRefused
  <1> QED
    BY <1>2, <1>5, <1>6, <1>7, <1>8 DEF Progresses

\* The record of the answer.
LEMMA PostStored ==
  ASSUME IInv, [Next]_vars, NEW w \in Workers, Creating(w), job'[w].answer = "ok"
  PROVE  joins'[job'[w].join] = NewJoin(job[w])
  <1>1. job[w].op = "create" /\ job[w].answer = "none" /\ job'[w] # job[w]
    BY DEF Creating
  <1>2. PICK v \in Workers : Progresses(v) \/ Arrives(v)
    BY <1>1 DEF Next, vars
  <1>3. v = w
    BY <1>1, <1>2, Others
  <1>4. (\E k \in JoinIds : GetJoinFound(w, k)) \/ InsertJoin(w)
    BY <1>1, <1>2, <1>3, PostAnswered
  <1>5. \A k : JoinKept(w, k) => job'[w].join = k
    BY <1>1 DEF JoinKept, Done, NoJob, IInv, TypeOK
  <1>6. ASSUME NEW k \in JoinIds, GetJoinFound(w, k)
        PROVE  joins'[job'[w].join] = NewJoin(job[w])
    <2>1. k \in JoinsFor(job[w]) /\ job'[w].join = k /\ joins' = joins
      BY <1>5, <1>6 DEF GetJoinFound, tables
    <2>2. /\ joins[k] \in Join /\ joins[k].rel = job[w].rel
          /\ joins[k].link = job[w].link /\ joins[k].org = job[w].org
      BY <1>1, <2>1 DEF JoinsFor, IInv, TypeOK
    <2> QED
      BY <2>1, <2>2 DEF NewJoin, Join
  <1>7. CASE InsertJoin(w)
    <2>1. job'[w].join = nextJoin /\ joins' = [joins EXCEPT ![nextJoin] = NewJoin(job[w])]
      BY <1>5, <1>7 DEF InsertJoin
    <2> QED
      BY <1>7, <2>1 DEF InsertJoin, IInv, TypeOK
  <1> QED
    BY <1>4, <1>6, <1>7

\* A POST in progress has no answer.
LEMMA PostNotAnswered ==
  ASSUME IInv, NEW w \in Workers, Creating(w), Creating(w)'
  PROVE  /\ \A a \in {"ok", "invalid", "ambiguous", "conflict"} : ~Answer(w, a)
         /\ \A k : ~JoinKept(w, k)
  <1>1. job \in [Workers -> Job] /\ job[w].op = "create" /\ job'[w].answer = "none"
    BY DEF IInv, TypeOK, Creating
  <1>2. ASSUME NEW a \in {"ok", "invalid", "ambiguous", "conflict"}, Answer(w, a)
        PROVE  FALSE
    <2>1. job'[w].answer = a
      BY <1>1, <1>2 DEF Answer, Done, NoJob
    <2> QED
      BY <1>1, <2>1
  <1>3. ASSUME NEW k, JoinKept(w, k)
        PROVE  FALSE
    <2>1. job'[w].answer = "ok"
      BY <1>1, <1>3 DEF JoinKept, Done, NoJob
    <2> QED
      BY <1>1, <2>1
  <1> QED
    BY <1>2, <1>3

\* A POST in progress keeps asking for the same models.
LEMMA PostKeepsPair ==
  ASSUME IInv, NEW w \in Workers, Progresses(w) \/ Arrives(w), Creating(w), Creating(w)'
  PROVE  job'[w].pair = job[w].pair
  <1>1. /\ job \in [Workers -> Job] /\ job[w] \in Job /\ JobInv(job[w])
        /\ job[w].op = "create" /\ job'[w].op = "create" /\ job'[w].answer = "none"
    BY DEF IInv, TypeOK, Creating
  <1>2. ~Idle(w) /\ job' # [job EXCEPT ![w] = NoJob]
    BY <1>1 DEF Idle, NoJob
  <1>3. ~Arrives(w) /\ ~Respond(w)
    BY <1>2 DEF Arrives, CreateJoin, UpdateJoin, DeleteJoin, CreateRel,
       UpdateRel, DeleteRel, DeleteModel, Load, WorkerStops, Respond
  <1>4. \A a \in {"ok", "invalid", "ambiguous", "conflict"} : ~Answer(w, a)
    BY PostNotAnswered
  <1>5. \A k : ~JoinKept(w, k)
    BY PostNotAnswered
  <1>6. \A t : Goto(w, t) => job'[w].pair = job[w].pair
    BY <1>1 DEF Goto, Job
  <1>7. \A r : job' = [job EXCEPT ![w].rel = r, ![w].stage = AfterRel(job[w])]
                  => job'[w].pair = job[w].pair
    BY <1>1 DEF Job
  <1>8. \A l \in Links, g \in Orgs : LoadLink(w, l, g) => job'[w].pair = job[w].pair
    BY <1>1 DEF LoadLink, Job
  <1> QED
    BY <1>3, <1>4, <1>5, <1>6, <1>7, <1>8 DEF Progresses, GetRelFound, GetRelAmbiguous,
       GetRelMissing, CheckReverse, CheckReverseFails, InsertRel, SaveRel, RelDangling,
       GetJoinFound, GetJoinMissing, RegetJoinMissing, InsertJoin, InsertJoinRefused,
       SaveJoin, SaveJoinRefused, Purge

\* The step that a POST in progress takes itself.
LEMMA PostLooks ==
  ASSUME IInv, NEW w \in Workers, Progresses(w) \/ Arrives(w),
         Creating(w), Creating(w)'
  PROVE  \/ job'[w].rel = job[w].rel /\ rels' = rels
         \/ \E r \in RelIds : GetRelFound(w, r)
         \/ InsertRel(w)
  <1>1. /\ job \in [Workers -> Job] /\ job[w] \in Job /\ JobInv(job[w])
        /\ job[w].op = "create" /\ job'[w].op = "create" /\ job'[w].answer = "none"
    BY DEF IInv, TypeOK, Creating
  <1>2. ~Arrives(w) /\ ~Respond(w)
    <2>1. job' # [job EXCEPT ![w] = NoJob]
      BY <1>1 DEF NoJob
    <2>2. ~WorkerStops(w) /\ ~Respond(w)
      BY <2>1 DEF WorkerStops, Respond
    <2> QED
      BY <1>1, <2>2 DEF Arrives, CreateJoin, UpdateJoin, DeleteJoin, CreateRel,
         UpdateRel, DeleteRel, DeleteModel, Load, Idle
  <1>3. \A a \in {"ok", "invalid", "ambiguous", "conflict"} : ~Answer(w, a)
    BY PostNotAnswered
  <1>4. \A k : ~JoinKept(w, k)
    BY PostNotAnswered
  <1>5. \A t : Goto(w, t) => job'[w].rel = job[w].rel
    BY <1>1 DEF Goto, Job
  <1>6. ~SaveRel(w)
    BY <1>3 DEF SaveRel
  <1>7. ASSUME NEW l \in Links, NEW g \in Orgs, LoadLink(w, l, g)
        PROVE  job'[w].rel = job[w].rel /\ rels' = rels
    BY <1>1, <1>7 DEF LoadLink, Job, tables
  <1> QED
    BY <1>2, <1>3, <1>4, <1>5, <1>6, <1>7 DEF Progresses, GetRelAmbiguous, GetRelMissing,
       CheckReverse, CheckReverseFails, RelDangling, GetJoinFound, GetJoinMissing,
       RegetJoinMissing, InsertJoin, InsertJoinRefused, SaveJoin, SaveJoinRefused, Purge,
       tables

\* Others delete the relationship of a POST, or save it; they insert another one.
LEMMA AskedStays ==
  ASSUME IInv, OwnInv, [Next]_vars, NEW w \in Workers, Creating(w), Creating(w)',
         RelatesAsked(w), \A v \in Workers : ~PutSaves(v, job[w].rel)
  PROVE  RelatesAsked(w)'
  <1>1. /\ job \in [Workers -> Job] /\ job[w] \in Job
        /\ rels \in [RelIds -> Rel \cup {NoRow}]
    BY DEF IInv, TypeOK
  <1>2. CASE UNCHANGED vars
    BY <1>2 DEF vars, RelatesAsked
  <1>3. ASSUME NEW v \in Workers, Progresses(v) \/ Arrives(v), v # w
        PROVE  RelatesAsked(w)'
    <2>1. job'[w] = job[w]
      BY <1>3, Others
    <2> DEFINE r == job[w].rel
    <2> SUFFICES ASSUME r \in RelIds PROVE rels'[r] = NoRow \/ rels'[r] = rels[r]
      BY <2>1 DEF RelatesAsked
    <2>2. CASE InsertRel(v)
      <3>1. r # nextRel
        BY DEF OwnInv, RelIds
      <3> QED
        BY <1>1, <2>2, <3>1 DEF InsertRel
    <2>3. CASE SaveRel(v)
      <3>1. job'[v].answer = "ok"
        BY <1>1, <2>3 DEF SaveRel, Answer, Done, NoJob
      <3>2. job[v].rel # r
        BY <2>3, <3>1 DEF SaveRel, PutSaves
      <3> QED
        BY <1>1, <2>3, <3>2 DEF SaveRel
    <2>4. CASE ~InsertRel(v) /\ ~SaveRel(v)
      BY <1>1, <1>3, <2>4 DEF Progresses, Arrives, GetRelFound, GetRelAmbiguous,
         GetRelMissing, CheckReverse, CheckReverseFails, RelDangling, GetJoinFound,
         GetJoinMissing, RegetJoinMissing, InsertJoin, InsertJoinRefused, SaveJoin,
         SaveJoinRefused, LoadLink, Purge, Respond, CreateJoin, UpdateJoin, DeleteJoin,
         CreateRel, UpdateRel, DeleteRel, DeleteModel, Load, WorkerStops, tables
    <2> QED
      BY <2>2, <2>3, <2>4
  <1>4. ASSUME Progresses(w) \/ Arrives(w)
        PROVE  RelatesAsked(w)'
    <2>1. CASE job'[w].rel = job[w].rel /\ rels' = rels
      <3>1. job'[w].pair = job[w].pair
        BY <1>1, <1>4, PostKeepsPair
      <3> QED
        BY <2>1, <3>1 DEF RelatesAsked
    <2>2. ASSUME NEW r \in RelIds, GetRelFound(w, r)
          PROVE  RelatesAsked(w)'
      <3>1. job'[w].rel = r /\ job'[w].pair = job[w].pair /\ rels' = rels
        BY <1>1, <2>2 DEF GetRelFound, tables, Job
      <3>2. rels[r].pair = job[w].pair
        BY <2>2 DEF GetRelFound, RelsFor
      <3> QED
        BY <3>1, <3>2 DEF RelatesAsked
    <2>3. CASE InsertRel(w)
      <3>1. job[w].op = "create"
        BY DEF Creating
      <3>2. job'[w].rel = nextRel /\ job'[w].pair = job[w].pair
        BY <1>1, <2>3, <3>1 DEF InsertRel, Job
      <3>3. rels'[nextRel].pair = job[w].pair
        BY <1>1, <2>3 DEF InsertRel
      <3> QED
        BY <3>2, <3>3 DEF RelatesAsked
    <2> QED
      BY <1>4, <2>1, <2>2, <2>3, PostLooks
  <1> QED
    BY <1>2, <1>3, <1>4 DEF Next

\* Whatever races with it, a POST is answered with a record that is stored at that
\* moment, with the link asked for, in the sender's organization, of the relationship
\* it found or made, and this one relates the models asked for unless a PUT of it says
\* otherwise (datamesh/serializers.py, JoinRecordSerializer.create).
THEOREM PostIsThere == Spec => CreatedIsThere
  <1>1. IInv /\ OwnInv /\ [Next]_vars =>
           \A w \in Workers : Creating(w) =>
              /\ job'[w].answer = "ok" => joins'[job'[w].join] = NewJoin(job[w])
              /\ Creating(w)' /\ RelatesAsked(w) =>
                    RelatesAsked(w)' \/ \E v \in Workers : PutSaves(v, job[w].rel)
    BY PostStored, AskedStays
  <1> QED
    BY <1>1, Owned, PTL DEF Spec, CreatedIsThere

-----------------------------------------------------------------------------
(* One request at a time.                                                  *)

\* The join records of relationship r.
Records(r) == {k \in JoinIds : joins[k] # NoRow /\ joins[k].rel = r}

\* What the only request in progress has found is still so: no relationship of
\* its pair (and key), none in the other direction; the records the command has
\* kept are there, and when it has ended no others.
Alone(j) ==
    /\ j.stage \in {"checkReverse", "insertRel"} /\ j.op \in {"create", "update", "load"}
          => RelsFor(j) = {}
    /\ j.stage \in {"insertRel", "saveRel"} => ~ReverseExists(j.pair)
    /\ j.op = "load" => j.kept \subseteq Records(j.rel)
    /\ j.op = "load" /\ j.answer = "ok" => j.kept = Records(j.rel)

OneDirection ==
    \A q, r \in RelIds : (q # r /\ rels[q] # NoRow /\ rels[r] # NoRow)
        => rels[q].pair # Reverse(rels[r].pair)

SerialInv ==
    ~overlapped => /\ \A v, w \in Workers : Idle(v) \/ Idle(w) \/ v = w
                   /\ \A w \in Workers : Alone(job[w])
                   /\ OneDirection

\* All other workers are idle, and stay so.
LEMMA AloneStep ==
  ASSUME IInv, IInv', NEW w \in Workers,
         \A v \in Workers : v # w => Idle(v) /\ job'[v] = job[v],
         Alone(job[w])', OneDirection'
  PROVE  SerialInv'
  <1>1. ASSUME NEW v \in Workers, v # w
        PROVE  Idle(v)' /\ Alone(job[v])'
    <2>1. job'[v].op = "idle" /\ JobInv(job'[v])
      BY <1>1 DEF Idle, IInv, JobInv
    <2> QED
      BY <2>1 DEF Idle, Alone, JobInv
  <1> QED
    BY <1>1 DEF SerialInv

\* Fewer relationships are in one direction, too.
LEMMA FewerRels ==
  ASSUME OneDirection, \A r \in RelIds : rels'[r] \in {rels[r], NoRow}
  PROVE  OneDirection'
  BY DEF OneDirection, Reverse

\* A job that has found nothing yet.
Blank(j) ==
    /\ j.stage \notin {"insertRel", "saveRel"}
    /\ j.stage = "checkReverse" => j.op \in {"relcreate", "relupdate"}
    /\ j.kept = {}
    /\ j.answer # "ok"

\* A request that arrives while nobody works.
LEMMA ArriveAlone ==
  ASSUME IInv, IInv', NEW w \in Workers, Arrives(w), Idle(w), Alone(job[w]), OneDirection
  PROVE  Alone(job[w])' /\ OneDirection'
  <1>1. /\ job \in [Workers -> Job] /\ job[w].op = "idle" /\ job[w].stage = "done"
        /\ job'[w] \in Job /\ JobInv(job'[w])
    BY DEF IInv, TypeOK, Idle, JobInv
  <1>2. \A r \in RelIds : rels'[r] \in {rels[r], NoRow}
    <2>1. \/ rels' = rels
          \/ \E r \in RelIds : DeleteRel(w, r)
          \/ \E m \in Models : DeleteModel(w, m)
      BY DEF Arrives, CreateJoin, UpdateJoin, DeleteJoin, CreateRel, UpdateRel, Load,
         WorkerStops, tables
    <2>2. rels \in [RelIds -> Rel \cup {NoRow}]
      BY DEF IInv, TypeOK
    <2> QED
      BY <2>1, <2>2 DEF DeleteRel, DeleteModel
  <1>3. OneDirection'
    BY <1>2, FewerRels
  <1>4. job'[w] = job[w] \/ Blank(job'[w])
    <2>2. ASSUME NEW p, NEW l, NEW g, CreateJoin(w, p, l, g)
          PROVE  Blank(job'[w])
      BY <1>1, <2>2 DEF CreateJoin, Blank, NoJob
    <2>3. ASSUME NEW k, NEW p, NEW l, UpdateJoin(w, k, p, l)
          PROVE  Blank(job'[w])
      BY <1>1, <2>3 DEF UpdateJoin, Blank, NoJob
    <2>4. ASSUME NEW p, NEW key, CreateRel(w, p, key)
          PROVE  Blank(job'[w])
      BY <1>1, <2>4 DEF CreateRel, Blank, NoJob
    <2>5. ASSUME NEW r, NEW p, NEW key, UpdateRel(w, r, p, key)
          PROVE  Blank(job'[w])
      BY <1>1, <2>5 DEF UpdateRel, Blank, NoJob
    <2>6. ASSUME NEW p, NEW ls, Load(w, p, ls)
          PROVE  Blank(job'[w])
      BY <1>1, <2>6 DEF Load, Blank, NoJob
    <2>7. ~WorkerStops(w)
      BY DEF WorkerStops
    <2>8. \A k : DeleteJoin(w, k) => job'[w] = job[w]
      BY DEF DeleteJoin
    <2>9. \A r : DeleteRel(w, r) => job'[w] = job[w]
      BY DEF DeleteRel
    <2>10. \A m : DeleteModel(w, m) => job'[w] = job[w]
      BY DEF DeleteModel
    <2> QED
      BY <2>2, <2>3, <2>4, <2>5, <2>6, <2>7, <2>8, <2>9, <2>10 DEF Arrives
  <1>5. Alone(job[w])'
    <2>1. CASE job'[w] = job[w]
      BY <1>1, <2>1 DEF Alone
    <2>2. CASE job'[w] # job[w]
      BY <1>1, <1>4, <2>2 DEF Alone, Blank
    <2> QED
      BY <2>1, <2>2
  <1> QED
    BY <1>3, <1>5

\* Answers other than "ok".
LEMMA RefusedAlone ==
  ASSUME IInv, NEW w \in Workers, Alone(job[w]), joins' = joins,
         NEW a \in {"invalid", "ambiguous", "conflict"}, Answer(w, a)
  PROVE  Alone(job[w])'
  <1>1. /\ job'[w].stage = "done" /\ job'[w].answer = a /\ job'[w].op = job[w].op
        /\ job'[w].kept = job[w].kept
        /\ job[w].op = "load" => job'[w].rel = job[w].rel
    BY DEF Answer, Done, NoJob, IInv, TypeOK
  <1>2. \A r : Records(r)' = Records(r)
    BY DEF Records
  <1> QED
    BY <1>1, <1>2 DEF Alone

\* The only request in progress, as long as it writes nothing.
LEMMA LookAlone ==
  ASSUME IInv, NEW w \in Workers, Alone(job[w]),
         \/ \E r \in RelIds : GetRelFound(w, r)
         \/ GetRelAmbiguous(w) \/ GetRelMissing(w)
         \/ CheckReverse(w) \/ CheckReverseFails(w) \/ RelDangling(w)
         \/ \E k \in JoinIds : GetJoinFound(w, k)
         \/ GetJoinMissing(w) \/ RegetJoinMissing(w)
         \/ InsertJoinRefused(w) \/ SaveJoinRefused(w)
         \/ \E l \in Links, g \in Orgs : LoadLink(w, l, g)
         \/ Respond(w)
  PROVE  Alone(job[w])' /\ rels' = rels
  <1>1. /\ job \in [Workers -> Job] /\ job[w] \in Job /\ JobInv(job[w])
    BY DEF IInv, TypeOK
  <1>2. rels' = rels /\ joins' = joins
    BY DEF GetRelFound, GetRelAmbiguous, GetRelMissing, CheckReverse, CheckReverseFails,
           RelDangling, GetJoinFound, GetJoinMissing, RegetJoinMissing,
           InsertJoinRefused, SaveJoinRefused, LoadLink, Respond, tables
  <1>3. /\ \A r : Records(r)' = Records(r)
        /\ \A p : ReverseExists(p)' <=> ReverseExists(p)
        /\ \A j : RelsFor(j)' = RelsFor(j)
    BY <1>2 DEF Records, ReverseExists, RelsFor
  <1> SUFFICES Alone(job[w])'
    BY <1>2
  <1>4. ASSUME NEW r \in RelIds, GetRelFound(w, r)
        PROVE  Alone(job[w])'
    <2>1. /\ job'[w].stage \in {"getJoin", "saveJoin", "purge"}
          /\ job'[w].kept = {} /\ job'[w].answer = "none"
      BY <1>1, <1>4 DEF GetRelFound, At, AfterRel, Job, JobInv
    <2> QED
      BY <2>1 DEF Alone
  <1>5. CASE \/ GetRelAmbiguous(w) \/ CheckReverseFails(w) \/ RelDangling(w)
             \/ RegetJoinMissing(w) \/ SaveJoinRefused(w)
    BY <1>2, <1>5, RefusedAlone DEF GetRelAmbiguous, CheckReverseFails, RelDangling,
                                RegetJoinMissing, SaveJoinRefused
  <1>6. CASE GetRelMissing(w)
    <2>1. /\ job'[w].stage = "checkReverse" /\ job'[w].kept = {}
          /\ job'[w].answer = "none" /\ job'[w].op = job[w].op
          /\ job'[w].pair = job[w].pair /\ job'[w].key = job[w].key
          /\ RelsFor(job[w]) = {}
      BY <1>1, <1>6 DEF GetRelMissing, Goto, At, Job, JobInv
    <2>2. RelsFor(job'[w]) = {}
      BY <2>1 DEF RelsFor
    <2> QED
      BY <1>3, <2>1, <2>2 DEF Alone
  <1>7. CASE CheckReverse(w)
    <2>1. /\ job[w].stage = "checkReverse" /\ job'[w].stage \in {"insertRel", "saveRel"}
          /\ job'[w].kept = {} /\ job'[w].answer = "none" /\ job'[w].op = job[w].op
          /\ job'[w].pair = job[w].pair /\ job'[w].key = job[w].key
          /\ ~ReverseExists(job[w].pair)
      BY <1>1, <1>7 DEF CheckReverse, Goto, At, Job, JobInv
    <2>2. job'[w].op \in {"create", "update", "load"} => RelsFor(job'[w]) = {}
      BY <2>1 DEF Alone, RelsFor
    <2> QED
      BY <1>3, <2>1, <2>2 DEF Alone
  <1>8. ASSUME NEW k \in JoinIds, GetJoinFound(w, k)
        PROVE  Alone(job[w])'
    <2>1. CASE job[w].op = "load"
      <3>1. /\ job'[w].stage = "purge" /\ job'[w].answer = "none"
            /\ job'[w].kept = job[w].kept \cup {k} /\ job'[w].rel = job[w].rel
        BY <1>1, <1>8, <2>1 DEF GetJoinFound, JoinKept, At, Job, JobInv
      <3>2. k \in Records(job[w].rel)
        BY <1>8 DEF GetJoinFound, JoinsFor, Records
      <3> QED
        BY <1>3, <2>1, <3>1, <3>2 DEF Alone
    <2>2. CASE job[w].op # "load"
      <3>1. job'[w].stage = "done" /\ job'[w].op = job[w].op
        BY ZenonT(40), <1>1, <1>8, <2>2 DEF GetJoinFound, JoinKept, Done, NoJob
      <3> QED
        BY <2>2, <3>1 DEF Alone
    <2> QED
      BY <2>1, <2>2
  <1>9. CASE \/ GetJoinMissing(w) \/ InsertJoinRefused(w)
             \/ \E l \in Links, g \in Orgs : LoadLink(w, l, g)
    <2>1. /\ job'[w].stage \in {"insertJoin", "regetJoin", "getJoin"}
          /\ job'[w].answer = "none" /\ job'[w].op = job[w].op
          /\ job'[w].kept = job[w].kept /\ job'[w].rel = job[w].rel
      <3>1. CASE GetJoinMissing(w) \/ InsertJoinRefused(w)
        BY <1>1, <3>1 DEF GetJoinMissing, InsertJoinRefused, Goto, At, Job, JobInv
      <3>2. ASSUME NEW l \in Links, NEW g \in Orgs, LoadLink(w, l, g)
            PROVE  /\ job'[w].stage = "getJoin"
                   /\ job'[w].answer = job[w].answer /\ job'[w].op = job[w].op
                   /\ job'[w].kept = job[w].kept /\ job'[w].rel = job[w].rel
                   /\ job[w].stage = "purge"
        BY <1>1, <3>2 DEF LoadLink, At, Job
      <3> QED
        BY <1>1, <1>9, <3>1, <3>2 DEF JobInv
    <2> QED
      BY <1>3, <2>1 DEF Alone
  <1>10. CASE Respond(w)
    <2>1. job'[w].stage = "done" /\ job'[w].op = "idle"
      BY <1>1, <1>10 DEF Respond, NoJob
    <2> QED
      BY <2>1 DEF Alone
  <1> QED
    BY <1>4, <1>5, <1>6, <1>7, <1>8, <1>9, <1>10

\* The only request in progress writes.
LEMMA WriteAlone ==
  ASSUME IInv, NEW w \in Workers, Alone(job[w]), OneDirection,
         InsertRel(w) \/ SaveRel(w) \/ InsertJoin(w) \/ SaveJoin(w) \/ Purge(w)
  PROVE  Alone(job[w])' /\ OneDirection'
  <1>1. /\ job \in [Workers -> Job] /\ job[w] \in Job /\ JobInv(job[w])
        /\ rels \in [RelIds -> Rel \cup {NoRow}]
        /\ joins \in [JoinIds -> Join \cup {NoRow}]
        /\ job[w].pair \in Models \X Models
    BY DEF IInv, TypeOK, Job
  <1>2. ASSUME InsertRel(w) \/ SaveRel(w)
        PROVE  OneDirection'
    <2> DEFINE row == [pair |-> job[w].pair, key |-> job[w].key]
    <2>1. PICK i \in RelIds : rels' = [rels EXCEPT ![i] = row]
      BY <1>1, <1>2 DEF InsertRel, SaveRel, At, JobInv
    <2>2. ~ReverseExists(job[w].pair)
      BY <1>2 DEF InsertRel, SaveRel, At, Alone
    <2>3. \A r \in RelIds : rels'[r] = IF r = i THEN row ELSE rels[r]
      BY <1>1, <2>1
    <2>4. \A r \in RelIds : rels[r] # NoRow =>
             rels[r].pair # Reverse(row.pair) /\ row.pair # Reverse(rels[r].pair)
      <3>1. \A p, q \in Models \X Models : p = Reverse(q) => q = Reverse(p)
        BY DEF Reverse
      <3>2. \A r \in RelIds : rels[r] # NoRow => rels[r].pair \in Models \X Models
        BY <1>1 DEF Rel
      <3> QED
        BY <1>1, <2>2, <3>1, <3>2 DEF ReverseExists
    <2> QED
      BY <2>3, <2>4 DEF OneDirection
  <1>3. ASSUME InsertJoin(w) \/ SaveJoin(w) \/ Purge(w)
        PROVE  OneDirection'
    BY <1>3 DEF InsertJoin, SaveJoin, Purge, OneDirection
  <1>4. CASE InsertRel(w)
    <2>1. CASE job[w].op = "relcreate"
      <3>1. job'[w].stage = "done" /\ job'[w].op = "relcreate"
        BY ZenonT(40), <1>1, <1>4, <2>1 DEF InsertRel, Answer, Done, NoJob
      <3> QED
        BY <1>2, <1>4, <3>1 DEF Alone
    <2>2. CASE job[w].op # "relcreate"
      <3>1. job[w].op \in {"create", "update", "load"}
        BY <1>1, <1>4, <2>2 DEF InsertRel, At, Idle, Job, JobInv
      <3>2. /\ job'[w].stage \in {"getJoin", "saveJoin", "purge"}
            /\ job'[w].kept = {} /\ job'[w].answer = "none"
        BY <1>1, <1>4, <2>2, <3>1 DEF InsertRel, At, AfterRel, Job, JobInv
      <3> QED
        BY <1>2, <1>4, <3>2 DEF Alone
    <2> QED
      BY <2>1, <2>2
  <1>5. CASE SaveRel(w) \/ SaveJoin(w)
    <2>1. job[w].op \in {"relupdate", "update"}
      BY <1>1, <1>5 DEF SaveRel, SaveJoin, At, JobInv
    <2>2. job'[w].stage = "done" /\ job'[w].op = job[w].op
      <3>1. job' = [job EXCEPT ![w] = Done(job[w], "ok")]
        BY <1>1, <1>5 DEF SaveRel, SaveJoin, Answer
      <3> QED
        BY <1>1, <3>1 DEF Done, NoJob
    <2> QED
      BY <1>2, <1>3, <1>5, <2>1, <2>2 DEF Alone
  <1>6. CASE InsertJoin(w)
    <2>1. CASE job[w].op = "load"
      <3>1. /\ job'[w].stage = "purge" /\ job'[w].answer = "none"
            /\ job'[w].kept = job[w].kept \cup {nextJoin} /\ job'[w].rel = job[w].rel
        BY <1>1, <1>6, <2>1 DEF InsertJoin, JoinKept, At, Job, JobInv
      <3>2. /\ NewJoin(job[w]) \in Join /\ NewJoin(job[w]).rel = job[w].rel
            /\ nextJoin \in JoinIds
            /\ joins' = [joins EXCEPT ![nextJoin] = NewJoin(job[w])]
        BY <1>1, <1>6 DEF InsertJoin, At, JobInv, NewJoin, Join
      <3>3. Records(job[w].rel)' = Records(job[w].rel) \cup {nextJoin}
        BY <1>1, <3>1, <3>2, SentinelsAssumption DEF Records
      <3> QED
        BY <1>3, <1>6, <2>1, <3>1, <3>3 DEF Alone
    <2>2. CASE job[w].op # "load"
      <3>1. job'[w].stage = "done" /\ job'[w].op = job[w].op
        BY ZenonT(40), <1>1, <1>6, <2>2 DEF InsertJoin, JoinKept, Done, NoJob
      <3> QED
        BY <1>3, <1>6, <2>2, <3>1 DEF Alone
    <2> QED
      BY <2>1, <2>2
  <1>7. CASE Purge(w)
    <2>1. job[w].op = "load"
      BY <1>1, <1>7 DEF Purge, At, JobInv
    <2>2. /\ job'[w].stage = "done" /\ job'[w].kept = job[w].kept
          /\ job'[w].rel = job[w].rel
      BY <1>1, <1>7, <2>1 DEF Purge, Answer, Done, NoJob
    <2>3. job[w].kept \subseteq Records(job[w].rel)
      BY <2>1 DEF Alone
    <2>4. {k \in JoinIds : joins'[k] # NoRow /\ joins'[k].rel = job[w].rel} = job[w].kept
      BY <1>7, <2>3 DEF Purge, Records
    <2> QED
      BY <1>3, <1>7, <2>2, <2>4 DEF Alone, Records
  <1> QED
    BY <1>4, <1>5, <1>6, <1>7

\* Every step, as long as no two requests have been in progress together.
LEMMA NextSerial ==
  ASSUME IInv, SerialInv, [Next]_vars
  PROVE  SerialInv'
  <1>1. IInv'
    BY NextInv
  <1> SUFFICES ASSUME ~overlapped' PROVE SerialInv'
    BY DEF SerialInv
  <1>2. CASE UNCHANGED vars
    <2>1. SerialInv => SerialInv'
      BY <1>2 DEF vars, SerialInv, Idle, Alone, RelsFor, ReverseExists, Records,
                  OneDirection
    <2> QED
      BY <2>1
  <1>3. ASSUME NEW w \in Workers, Progresses(w), UNCHANGED overlapped
        PROVE  SerialInv'
    <2>1. ~overlapped /\ Alone(job[w]) /\ OneDirection
      BY <1>3 DEF SerialInv
    <2>2. ~Idle(w)
      BY <1>3 DEF Progresses, GetRelFound, GetRelAmbiguous, GetRelMissing, CheckReverse,
         CheckReverseFails, InsertRel, SaveRel, RelDangling, GetJoinFound, GetJoinMissing,
         RegetJoinMissing, InsertJoin, InsertJoinRefused, SaveJoin, SaveJoinRefused,
         LoadLink, Purge, Respond, At
    <2>3. \A v \in Workers : v # w => Idle(v) /\ job'[v] = job[v]
      BY <1>3, <2>1, <2>2, Others DEF SerialInv
    <2>4. Alone(job[w])' /\ OneDirection'
      <3>1. CASE InsertRel(w) \/ SaveRel(w) \/ InsertJoin(w) \/ SaveJoin(w) \/ Purge(w)
        BY <2>1, <3>1, WriteAlone
      <3>2. CASE ~(InsertRel(w) \/ SaveRel(w) \/ InsertJoin(w) \/ SaveJoin(w) \/ Purge(w))
        <4>1. Alone(job[w])' /\ rels' = rels
          BY <1>3, <2>1, <3>2, LookAlone DEF Progresses
        <4> QED
          BY <2>1, <4>1 DEF OneDirection
      <3> QED
        BY <3>1, <3>2
    <2> QED
      BY <1>1, <2>3, <2>4, AloneStep
  <1>4. ASSUME NEW w \in Workers, Arrives(w), overlapped' = (overlapped \/ Overlaps(w))
        PROVE  SerialInv'
    <2>1. ~overlapped /\ ~Overlaps(w) /\ Alone(job[w]) /\ OneDirection
      BY <1>4 DEF SerialInv
    <2>2. \A v \in Workers : v # w => Idle(v) /\ job'[v] = job[v]
      BY <1>4, <2>1, Others DEF Overlaps
    <2>3. Alone(job[w])' /\ OneDirection'
      <3>1. CASE Idle(w)
        BY <1>1, <1>4, <2>1, <3>1, ArriveAlone
      <3>2. CASE ~Idle(w)
        <4>1. WorkerStops(w)
          BY <1>4, <3>2 DEF Arrives, CreateJoin, UpdateJoin, DeleteJoin, CreateRel,
             UpdateRel, DeleteRel, DeleteModel, Load
        <4>2. /\ rels' = rels /\ job'[w].stage = "done" /\ job'[w].op = "idle"
          BY <4>1 DEF WorkerStops, tables, NoJob, IInv, TypeOK
        <4> QED
          BY <2>1, <4>2 DEF Alone, OneDirection
      <3> QED
        BY <3>1, <3>2
    <2> QED
      BY <1>1, <2>2, <2>3, AloneStep
  <1> QED
    BY <1>2, <1>3, <1>4 DEF Next

\* One request at a time, what the request in progress has found is still so.
THEOREM OneAtATime == Spec => [](IInv /\ SerialInv)
  <1>1. Init => IInv /\ SerialInv
    <2>1. Init => \A w \in Workers : Idle(w) /\ Alone(job[w])
      BY DEF Init, Idle, Alone, NoJob
    <2>2. Init => OneDirection
      BY DEF Init, OneDirection
    <2> QED
      BY <2>1, <2>2, InitInv DEF SerialInv
  <1>2. IInv /\ SerialInv /\ [Next]_vars => (IInv /\ SerialInv)'
    BY NextInv, NextSerial
  <1> QED
    BY <1>1, <1>2, PTL DEF Spec

\* "Validate reverse relationship does not exist already." (datamesh/models.py):
\* requests one at a time, two models are related in one direction only.
THEOREM OneWay == Spec => []NoReversePair
  <1>1. SerialInv => NoReversePair
    BY DEF SerialInv, NoReversePair, OneDirection
  <1> QED
    BY <1>1, OneAtATime, PTL

\* "delete not eligible JoinRecords in this relationship" (loadrelationships.py):
\* run alone, the command leaves the records of its file and no other.
THEOREM Loaded == Spec => []LoadedExactly
  <1>1. SerialInv => LoadedExactly
    BY DEF SerialInv, LoadedExactly, Alone, Records
  <1> QED
    BY <1>1, OneAtATime, PTL

\* "get_or_create `Relationship`s and save in case it is not already existing"
\* (datamesh/serializers.py, loadrelationships.py): alone, a request about a join
\* record or the command makes no second relationship of a pair and key.
THEOREM NoSecond == Spec => OneRelationship
  <1>1. ASSUME IInv, SerialInv, [Next]_vars, ~overlapped,
               NEW w \in Workers, job[w].op \in {"create", "update", "load"},
               NEW r \in RelIds, rels[r] = NoRow, rels'[r] # NoRow, NEW q \in RelIds
        PROVE  rels[q] # rels'[r]
    <2>1. PICK v \in Workers : Progresses(v) \/ Arrives(v)
      BY <1>1 DEF Next, vars
    <2>2. rels \in [RelIds -> Rel \cup {NoRow}] /\ rels' # rels
      BY <1>1 DEF IInv, TypeOK
    <2>3. ~Arrives(v)
      BY <1>1, <2>2 DEF Arrives, CreateJoin, UpdateJoin, DeleteJoin, CreateRel, UpdateRel,
         DeleteRel, DeleteModel, Load, WorkerStops, tables
    <2>4. InsertRel(v) \/ SaveRel(v)
      BY <2>1, <2>2, <2>3 DEF Progresses, GetRelFound, GetRelAmbiguous, GetRelMissing,
         CheckReverse, CheckReverseFails, RelDangling, GetJoinFound, GetJoinMissing,
         RegetJoinMissing, InsertJoin, InsertJoinRefused, SaveJoin, SaveJoinRefused,
         LoadLink, Purge, Respond, tables
    <2>5. v = w
      BY <1>1, <2>4 DEF SerialInv, InsertRel, SaveRel, At, Idle
    <2>6. InsertRel(w)
      BY <1>1, <2>4, <2>5 DEF SaveRel, At, IInv, JobInv
    <2>7. RelsFor(job[w]) = {}
      BY <1>1, <2>6 DEF SerialInv, Alone, InsertRel, At
    <2>8. rels'[r] = [pair |-> job[w].pair, key |-> job[w].key]
      BY <1>1, <2>2, <2>6 DEF InsertRel
    <2>9. ~(rels[q] # NoRow /\ rels[q].pair = job[w].pair /\ rels[q].key = job[w].key)
      BY <2>7 DEF RelsFor
    <2> QED
      BY <1>1, <2>8, <2>9
  <1>2. IInv /\ SerialInv /\ [Next]_vars =>
           ((~overlapped /\ \E w \in Workers : job[w].op \in {"create", "update", "load"})
              => \A r \in RelIds : (rels[r] = NoRow /\ rels'[r] # NoRow)
                    => \A q \in RelIds : rels[q] # rels'[r])
    BY <1>1
  <1> QED
    BY <1>2, OneAtATime, PTL DEF Spec, OneRelationship
=============================================================================
