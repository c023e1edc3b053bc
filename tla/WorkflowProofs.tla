--------------------------- MODULE WorkflowProofs ---------------------------
(***************************************************************************)
(* Theorems about Workflow, for any number of workers, organizations,      *)
(* groups, users and rows.                                                 *)
(***************************************************************************)
EXTENDS Workflow, TLAPS

-----------------------------------------------------------------------------
(* The inductive invariant.                                                *)

\* What a request in progress holds: the key of the row it is about, and what is
\* to be written.
JobInv(j) ==
    /\ j.op \in {"post", "put", "delete"} => j.id \in Level1Ids
    /\ j.op = "post" => j.user \in Actors
    /\ (j.op \in {"post", "put"} /\ j.stage = "setAccess") => j.users \in Members
    /\ (j.op \in {"post", "put"} /\ j.stage = "setGroups") => j.wants \in Lists
    /\ j.op \in {"postChild", "putChild", "deleteChild"} => j.child \in ChildIds
    /\ j.op \in {"postChild", "putChild"} => j.row \in Child

\* The column of a group encodes the verbs it was given.
ColumnsFollow == \A g \in GroupIds : column[g] = ToInternal(granted[g])

\* A POST is for the user its level was created for, under a key that is taken.
PostsOwn ==
    \A w \in Workers : job[w].op = "post" =>
        /\ job[w].id < nextLevel1
        /\ owner[job[w].id] \in {NoRow, job[w].user}

IInv ==
    /\ TypeOK
    /\ ColumnsFollow
    /\ PostsOwn
    /\ CreatorsHaveAccess
    /\ \A w \in Workers : JobInv(job[w])

-----------------------------------------------------------------------------
(* Steps that change one worker's job.                                     *)

\* An idle worker's job is a job, and holds nothing.
LEMMA NoJobType == NoJob \in Job /\ JobInv(NoJob) /\ NoJob.op = "idle"
  BY DEF NoJob, Job, JobInv, Level1

\* Creators keep their access in a step of a request that creates no level, if it
\* takes nobody's access to a level that stays.
LEMMA Bystander ==
  ASSUME IInv, NEW w \in Workers, job[w].op # "post", job'[w].op # "post",
         \A v \in Workers \ {w} : job'[v] = job[v],
         owner' = owner, nextLevel1' = nextLevel1,
         \A x \in Level1Ids : Exists(x)' => Exists(x) /\ access[x] \subseteq access'[x]
  PROVE  PostsOwn' /\ CreatorsHaveAccess'
  <1>1. PostsOwn'
    BY DEF IInv, PostsOwn
  <1>2. ASSUME NEW x \in Level1Ids, Exists(x)', owner'[x] # NoRow
        PROVE  \/ owner'[x] \in access'[x]
               \/ \E v \in Workers : /\ job'[v].op = "post" /\ job'[v].id = x
                                     /\ job'[v].user = owner'[x]
    BY <1>2 DEF IInv, CreatorsHaveAccess
  <1> QED
    BY <1>1, <1>2 DEF CreatorsHaveAccess

\* It is enough to look at the worker whose job changes.
LEMMA JobStep ==
  ASSUME IInv, NEW w \in Workers, NEW j \in Job, JobInv(j),
         job[w].op # "post", j.op # "post",
         job' = [job EXCEPT ![w] = j],
         UNCHANGED <<level1Tables, childTables, grants>>
  PROVE  IInv'
  <1>1. TypeOK'
    BY DEF IInv, TypeOK, level1Tables, childTables, grants
  <1>2. ColumnsFollow'
    BY DEF IInv, ColumnsFollow, grants
  <1>3. /\ job'[w] = j
        /\ \A v \in Workers \ {w} : job'[v] = job[v]
    BY DEF IInv, TypeOK
  <1>4. \A v \in Workers : JobInv(job[v])'
    BY <1>3 DEF IInv, JobInv
  <1>5. PostsOwn' /\ CreatorsHaveAccess'
    BY <1>3, Bystander DEF level1Tables, Exists
  <1> QED
    BY <1>1, <1>2, <1>4, <1>5 DEF IInv

\* The jobs after a step that ends one of them.
LEMMA EndJobs ==
  ASSUME IInv, NEW w \in Workers, End(w)
  PROVE  /\ job' \in [Workers -> Job]
         /\ job'[w].op = "idle"
         /\ \A v \in Workers \ {w} : job'[v] = job[v]
         /\ \A v \in Workers : JobInv(job[v])'
  BY NoJobType DEF IInv, TypeOK, End, JobInv

\* The jobs after a step that moves one of them on.
LEMMA GotoJobs ==
  ASSUME IInv, NEW w \in Workers,
         NEW s \in {"setAccess", "setGroups", "addAccess"}, Goto(w, s),
         s = "setAccess" => job[w].users \in Members,
         s = "setGroups" => job[w].wants \in Lists
  PROVE  /\ job' \in [Workers -> Job]
         /\ job'[w].op = job[w].op /\ job'[w].id = job[w].id
         /\ job'[w].user = job[w].user
         /\ \A v \in Workers \ {w} : job'[v] = job[v]
         /\ \A v \in Workers : JobInv(job[v])'
  <1> DEFINE j == [job[w] EXCEPT !.stage = s]
  <1>1. job[w] \in Job /\ JobInv(job[w])
    BY DEF IInv, TypeOK
  <1>2. j \in Job
    BY <1>1 DEF Job
  <1>3. JobInv(j) /\ j.op = job[w].op /\ j.id = job[w].id /\ j.user = job[w].user
    BY <1>1 DEF JobInv, Job
  <1>4. job' = [job EXCEPT ![w] = j]
    BY DEF Goto
  <1> HIDE DEF j
  <1> QED
    BY <1>2, <1>3, <1>4 DEF IInv, TypeOK, JobInv

\* What a POST or PUT does next, and that it goes on to add access if it is a POST.
LEMMA Stages ==
  ASSUME IInv, NEW w \in Workers, job[w].op \in {"post", "put"},
         NEW s, Proceed(w, s),
         \/ s = Finally(job[w].op)
         \/ s = ThenGroups(job[w].op, job[w].wants)
         \/ s = ThenAccess(job[w].op, job[w].users, job[w].wants)
  PROVE  /\ job' \in [Workers -> Job]
         /\ \/ job'[w].op = "idle" /\ job[w].op = "put"
            \/ /\ job'[w].op = job[w].op /\ job'[w].id = job[w].id
               /\ job'[w].user = job[w].user
         /\ \A v \in Workers \ {w} : job'[v] = job[v]
         /\ \A v \in Workers : JobInv(job[v])'
  <1>1. job[w].users \in Members \cup {NoRow} /\ job[w].wants \in Lists \cup {NoRow}
    BY DEF IInv, TypeOK, Job
  <1>2. CASE s = "done"
    <2>1. End(w) /\ job[w].op = "put"
      BY <1>2 DEF Proceed, Finally, ThenGroups, ThenAccess
    <2> QED
      BY <2>1, EndJobs
  <1>3. CASE s # "done"
    <2>1. /\ Goto(w, s)
          /\ s \in {"setAccess", "setGroups", "addAccess"}
          /\ s = "setAccess" => job[w].users \in Members
          /\ s = "setGroups" => job[w].wants \in Lists
      BY <1>1, <1>3 DEF Proceed, Finally, ThenGroups, ThenAccess
    <2> QED
      BY <2>1, GotoJobs
  <1> QED
    BY <1>2, <1>3

-----------------------------------------------------------------------------
(* WorkflowLevel1ViewSet                                                   *)

\* A new level takes a fresh key, and its POST is in progress.
LEMMA PostStep ==
  ASSUME IInv, NEW w \in Workers, NEW u \in Actors, PostLevel1(w, u)
  PROVE  IInv'
  <1>1. nextLevel1 \in Level1Ids /\ u.org \in Orgs
    BY ConstantsAssumption DEF IInv, TypeOK, PostLevel1, Level1Ids
  <1>2. PICK us \in Members \cup {NoRow}, gs \in Lists \cup {NoRow} :
          job' = [job EXCEPT ![w] = [NoJob EXCEPT
                    !.op = "post", !.stage = ThenAccess("post", us, gs),
                    !.user = u, !.id = nextLevel1, !.users = us, !.wants = gs]]
    BY DEF PostLevel1, NamedUsers, NamedGroups
  <1> DEFINE stage == ThenAccess("post", us, gs)
             j == [NoJob EXCEPT
                    !.op = "post", !.stage = stage,
                    !.user = u, !.id = nextLevel1, !.users = us, !.wants = gs]
  <1>3. /\ stage \in {"setAccess", "setGroups", "addAccess"}
        /\ stage = "setAccess" => us \in Members
        /\ stage = "setGroups" => gs \in Lists
    BY DEF ThenAccess, ThenGroups, Finally
  <1>4. job' = [job EXCEPT ![w] = j]
    BY <1>2
  <1> HIDE DEF stage
  <1>5. j \in Job /\ JobInv(j) /\ j.op = "post" /\ j.id = nextLevel1 /\ j.user = u
    BY ZenonT(40), <1>1, <1>3, NoJobType DEF Job, JobInv, NoJob
  <1> HIDE DEF j
  <1>6. /\ job' \in [Workers -> Job] /\ job'[w] = j
        /\ \A v \in Workers \ {w} : job'[v] = job[v]
        /\ \A v \in Workers : JobInv(job[v])'
    BY <1>4, <1>5 DEF IInv, TypeOK, JobInv
  <1>7. /\ level1' = [level1 EXCEPT ![nextLevel1] = u.org]
        /\ owner' = [owner EXCEPT ![nextLevel1] = u]
        /\ nextLevel1' = nextLevel1 + 1 /\ nextLevel1' \in 1..(MaxLevel1 + 1)
        /\ UNCHANGED <<access, levelGroups, children, nextChild, column, granted>>
        /\ job[w].op = "idle"
    BY ConstantsAssumption
       DEF IInv, TypeOK, PostLevel1, childTables, grants, Idle, Level1Ids
  <1>8. TypeOK'
    BY <1>1, <1>6, <1>7 DEF IInv, TypeOK, Level1
  <1>9. PostsOwn'
    <2> SUFFICES ASSUME NEW v \in Workers, job'[v].op = "post"
                 PROVE  /\ job'[v].id < nextLevel1'
                        /\ owner'[job'[v].id] \in {NoRow, job'[v].user}
      BY DEF PostsOwn
    <2>1. CASE v = w
      BY <1>1, <1>5, <1>6, <1>7, <2>1 DEF IInv, TypeOK, Level1Ids
    <2>2. CASE v # w
      <3>1. /\ job'[v] = job[v]
            /\ job[v].id \in Level1Ids /\ job[v].id < nextLevel1
            /\ owner[job[v].id] \in {NoRow, job[v].user}
        BY <1>6, <2>2 DEF IInv, PostsOwn, JobInv
      <3> QED
        BY <1>1, <1>7, <3>1 DEF IInv, TypeOK, Level1Ids
    <2> QED
      BY <2>1, <2>2
  <1>10. CreatorsHaveAccess'
    <2> SUFFICES ASSUME NEW x \in Level1Ids, Exists(x)', owner'[x] # NoRow
                 PROVE  \/ owner'[x] \in access'[x]
                        \/ \E v \in Workers :
                              /\ job'[v].op = "post" /\ job'[v].id = x
                              /\ job'[v].user = owner'[x]
      BY DEF CreatorsHaveAccess
    <2>1. CASE x = nextLevel1
      BY <1>1, <1>5, <1>6, <1>7, <2>1 DEF IInv, TypeOK
    <2>2. CASE x # nextLevel1
      <3>1. Exists(x) /\ owner'[x] = owner[x]
        BY <1>7, <2>2 DEF Exists, IInv, TypeOK
      <3>2. \/ owner[x] \in access[x]
            \/ \E v \in Workers : /\ job[v].op = "post" /\ job[v].id = x
                                  /\ job[v].user = owner[x]
        BY <3>1 DEF IInv, CreatorsHaveAccess
      <3> QED
        BY <1>6, <1>7, <3>1, <3>2
    <2> QED
      BY <2>1, <2>2
  <1> QED
    BY <1>6, <1>7, <1>8, <1>9, <1>10 DEF IInv, ColumnsFollow

\* Creators keep their access in a step of a POST or PUT that stays in progress or
\* ends, if the users of no level shrink but of the one a POST is about to add its
\* creator to, or a PUT has named users of.
LEMMA OwnStep ==
  ASSUME IInv, NEW w \in Workers, job[w].op \in {"post", "put"},
         \A v \in Workers \ {w} : job'[v] = job[v],
         \/ job'[w].op # "post"
         \/ /\ job'[w].op = job[w].op /\ job'[w].id = job[w].id
            /\ job'[w].user = job[w].user,
         nextLevel1' = nextLevel1,
         \A x \in Level1Ids : owner'[x] \in {NoRow, owner[x]},
         \A x \in Level1Ids : Exists(x)' /\ owner'[x] # NoRow =>
             /\ Exists(x)
             /\ \/ access[x] \subseteq access'[x]
                \/ job'[w].op = "post" /\ job'[w].id = x
             /\ (job[w].op = "post" /\ job[w].id = x) =>
                   job'[w].op = "post" \/ job[w].user \in access'[x]
  PROVE  PostsOwn' /\ CreatorsHaveAccess'
  <1>1. PostsOwn'
    <2> SUFFICES ASSUME NEW v \in Workers, job'[v].op = "post"
                 PROVE  /\ job'[v].id < nextLevel1'
                        /\ owner'[job'[v].id] \in {NoRow, job'[v].user}
      BY DEF PostsOwn
    <2>1. job[v].op = "post" /\ job'[v].id = job[v].id /\ job'[v].user = job[v].user
      OBVIOUS
    <2>2. /\ job[v].id \in Level1Ids /\ job[v].id < nextLevel1
          /\ owner[job[v].id] \in {NoRow, job[v].user}
      BY <2>1 DEF IInv, PostsOwn, JobInv
    <2> QED
      BY <2>1, <2>2
  <1>2. ASSUME NEW x \in Level1Ids, Exists(x)', owner'[x] # NoRow
        PROVE  \/ owner'[x] \in access'[x]
               \/ \E v \in Workers : /\ job'[v].op = "post" /\ job'[v].id = x
                                     /\ job'[v].user = owner'[x]
    <2>1. Exists(x) /\ owner[x] = owner'[x]
      BY <1>2
    <2>2. CASE job'[w].op = "post" /\ job'[w].id = x
      BY <1>1, <1>2, <2>2 DEF PostsOwn
    <2>3. CASE ~(job'[w].op = "post" /\ job'[w].id = x)
      <3>1. access[x] \subseteq access'[x]
        BY <1>2, <2>3
      <3>2. CASE owner[x] \in access[x]
        BY <2>1, <3>1, <3>2
      <3>3. CASE \E v \in Workers : /\ job[v].op = "post" /\ job[v].id = x
                                    /\ job[v].user = owner[x]
        BY <1>2, <2>1, <2>3, <3>3
      <3> QED
        BY <2>1, <1>2, <3>2, <3>3 DEF IInv, CreatorsHaveAccess
    <2> QED
      BY <2>2, <2>3
  <1> QED
    BY <1>1, <1>2 DEF CreatorsHaveAccess

\* Users are named for a level that exists, or none; a POST goes on.
LEMMA SetAccessStep ==
  ASSUME IInv, NEW w \in Workers, SetAccess(w)
  PROVE  IInv'
  <1> DEFINE x == job[w].id
             us == job[w].users
  <1>1. /\ job[w] \in Job /\ JobInv(job[w]) /\ job[w].op \in {"post", "put"}
        /\ x \in Level1Ids /\ us \in SUBSET Actors
    BY ConstantsAssumption DEF IInv, TypeOK, JobInv, SetAccess, At
  <1>2. UNCHANGED <<level1, levelGroups, nextLevel1, children, nextChild, column,
                    granted>>
    BY DEF SetAccess, childTables, grants
  <1>3. CASE Exists(x) \/ us = {}
    <2>1. /\ access' = [access EXCEPT ![x] = us]
          /\ owner' = IF job[w].op = "put" THEN [owner EXCEPT ![x] = NoRow] ELSE owner
          /\ Proceed(w, ThenGroups(job[w].op, job[w].wants))
      BY <1>3 DEF SetAccess
    <2>2. /\ job' \in [Workers -> Job]
          /\ \/ job'[w].op = "idle" /\ job[w].op = "put"
             \/ /\ job'[w].op = job[w].op /\ job'[w].id = job[w].id
                /\ job'[w].user = job[w].user
          /\ \A v \in Workers \ {w} : job'[v] = job[v]
          /\ \A v \in Workers : JobInv(job[v])'
      BY <1>1, <2>1, Stages
    <2>3. TypeOK'
      BY <1>1, <1>2, <2>1, <2>2 DEF IInv, TypeOK
    <2>4. \A y \in Level1Ids :
             /\ owner'[y] \in {NoRow, owner[y]}
             /\ y # x => access'[y] = access[y]
             /\ y = x /\ job[w].op = "put" => owner'[y] = NoRow
             /\ Exists(y)' <=> Exists(y)
      BY <1>1, <1>2, <2>1 DEF IInv, TypeOK, Exists
    <2>5. PostsOwn' /\ CreatorsHaveAccess'
      BY <1>1, <1>2, <2>2, <2>4, OwnStep
    <2> QED
      BY <1>2, <2>2, <2>3, <2>5 DEF IInv, ColumnsFollow
  <1>4. CASE ~(Exists(x) \/ us = {})
    <2>1. End(w) /\ UNCHANGED <<access, owner>>
      BY <1>4 DEF SetAccess
    <2>2. TypeOK'
      BY <1>2, <2>1, EndJobs DEF IInv, TypeOK
    <2>3. \A y \in Level1Ids : (Exists(y)' <=> Exists(y)) /\ (Exists(y) => y # x)
      BY <1>2, <1>4 DEF Exists
    <2>4. PostsOwn' /\ CreatorsHaveAccess'
      BY <1>1, <1>2, <2>1, <2>3, EndJobs, OwnStep
    <2> QED
      BY <1>2, <2>1, <2>2, <2>4, EndJobs DEF IInv, ColumnsFollow
  <1> QED
    BY <1>3, <1>4

\* Groups are written only to a level that exists, or none; a POST goes on.
LEMMA SetGroupsStep ==
  ASSUME IInv, NEW w \in Workers, SetGroups(w)
  PROVE  IInv'
  <1> DEFINE x == job[w].id
             gs == job[w].wants
  <1>1. /\ job[w] \in Job /\ JobInv(job[w]) /\ job[w].op \in {"post", "put"}
        /\ x \in Level1Ids /\ gs \in SUBSET GroupIds
    BY ConstantsAssumption DEF IInv, TypeOK, JobInv, SetGroups, At
  <1>2. /\ UNCHANGED <<level1, access, nextLevel1, owner, children, nextChild,
                       column, granted>>
        /\ \A y \in Level1Ids : Exists(y)' <=> Exists(y)
    BY DEF SetGroups, childTables, grants, Exists
  <1>3. CASE Exists(x) \/ gs = {}
    <2>1. /\ levelGroups' = [levelGroups EXCEPT ![x] = gs]
          /\ Proceed(w, Finally(job[w].op))
      BY <1>3 DEF SetGroups
    <2>2. /\ job' \in [Workers -> Job]
          /\ \/ job'[w].op = "idle" /\ job[w].op = "put"
             \/ /\ job'[w].op = job[w].op /\ job'[w].id = job[w].id
                /\ job'[w].user = job[w].user
          /\ \A v \in Workers \ {w} : job'[v] = job[v]
          /\ \A v \in Workers : JobInv(job[v])'
      BY <1>1, <2>1, Stages
    <2>3. TypeOK'
      BY <1>1, <1>2, <2>1, <2>2 DEF IInv, TypeOK
    <2>4. PostsOwn' /\ CreatorsHaveAccess'
      BY <1>1, <1>2, <2>2, OwnStep
    <2> QED
      BY <1>2, <2>2, <2>3, <2>4 DEF IInv, ColumnsFollow
  <1>4. CASE ~(Exists(x) \/ gs = {})
    <2>1. End(w) /\ UNCHANGED levelGroups
      BY <1>4 DEF SetGroups
    <2>2. TypeOK'
      BY <1>2, <2>1, EndJobs DEF IInv, TypeOK
    <2>3. \A y \in Level1Ids : Exists(y) => y # x
      BY <1>4
    <2>4. PostsOwn' /\ CreatorsHaveAccess'
      BY <1>1, <1>2, <2>1, <2>3, EndJobs, OwnStep
    <2> QED
      BY <1>2, <2>1, <2>2, <2>4, EndJobs DEF IInv, ColumnsFollow
  <1> QED
    BY <1>3, <1>4

\* A POST ends by giving its creator access, if the level is there.
LEMMA AddAccessStep ==
  ASSUME IInv, NEW w \in Workers, AddAccess(w)
  PROVE  IInv'
  <1> DEFINE x == job[w].id
  <1>1. job[w].op = "post" /\ x \in Level1Ids /\ job[w].user \in Actors
    BY DEF IInv, JobInv, AddAccess, At
  <1>2. /\ UNCHANGED <<level1, levelGroups, nextLevel1, owner, children, nextChild,
                       column, granted>>
        /\ \A y \in Level1Ids : Exists(y)' <=> Exists(y)
        /\ End(w)
    BY DEF AddAccess, childTables, grants, Exists
  <1>3. access' = IF Exists(x) THEN [access EXCEPT ![x] = @ \cup {job[w].user}]
                  ELSE access
    BY DEF AddAccess
  <1>4. TypeOK'
    BY <1>1, <1>2, <1>3, EndJobs DEF IInv, TypeOK
  <1>5. \A y \in Level1Ids : /\ access[y] \subseteq access'[y]
                             /\ Exists(y) /\ y = x => job[w].user \in access'[y]
    BY <1>1, <1>3 DEF IInv, TypeOK
  <1>6. PostsOwn' /\ CreatorsHaveAccess'
    BY <1>1, <1>2, <1>5, EndJobs, OwnStep
  <1> QED
    BY <1>2, <1>4, <1>6, EndJobs DEF IInv, ColumnsFollow

\* A PUT or DELETE that is let through names a level.
LEMMA OpenLevel1Step ==
  ASSUME IInv, NEW w \in Workers, NEW u \in Actors, NEW x \in Level1Ids,
         OpenPut(w, u, x) \/ OpenDelete(w, u, x)
  PROVE  IInv'
  <1>1. CASE OpenPut(w, u, x)
    <2>1. PICK org \in NewOrgs, us \in Members \cup {NoRow}, gs \in Lists \cup {NoRow} :
            job' = [job EXCEPT ![w] = [NoJob EXCEPT
                      !.op = "put", !.stage = "save", !.id = x, !.org = org,
                      !.users = us, !.wants = gs]]
      BY <1>1 DEF OpenPut, NamedUsers, NamedGroups
    <2> DEFINE j == [NoJob EXCEPT !.op = "put", !.stage = "save", !.id = x,
                                  !.org = org, !.users = us, !.wants = gs]
    <2>2. j \in Job /\ JobInv(j) /\ j.op = "put"
      BY ZenonT(40), NoJobType, ConstantsAssumption DEF Job, JobInv, NoJob
    <2> QED
      BY <1>1, <2>1, <2>2, JobStep DEF OpenPut, Idle
  <1>2. CASE OpenDelete(w, u, x)
    <2> DEFINE j == [NoJob EXCEPT !.op = "delete", !.stage = "collect", !.id = x]
    <2>1. j \in Job /\ JobInv(j) /\ j.op = "delete"
      BY NoJobType DEF Job, JobInv, NoJob
    <2> QED
      BY <1>2, <2>1, JobStep DEF OpenDelete, Idle
  <1> QED
    BY <1>1, <1>2

\* A level that a save brings back has no creator any more.
LEMMA SaveLevel1Step ==
  ASSUME IInv, NEW w \in Workers, SaveLevel1(w)
  PROVE  IInv'
  <1> DEFINE x == job[w].id
  <1>1. job[w] \in Job /\ job[w].op = "put" /\ x \in Level1Ids /\ job[w].org \in Level1
    BY DEF IInv, TypeOK, JobInv, SaveLevel1, At, Job
  <1>2. /\ level1' = [level1 EXCEPT ![x] = job[w].org]
        /\ owner' = IF Exists(x) THEN owner ELSE [owner EXCEPT ![x] = NoRow]
        /\ Proceed(w, ThenAccess("put", job[w].users, job[w].wants))
        /\ UNCHANGED <<levelGroups, access, nextLevel1, children, nextChild, column,
                       granted>>
    BY DEF SaveLevel1, childTables, grants
  <1>3. /\ job' \in [Workers -> Job]
        /\ \/ job'[w].op = "idle"
           \/ job'[w].op = "put"
        /\ \A v \in Workers \ {w} : job'[v] = job[v]
        /\ \A v \in Workers : JobInv(job[v])'
    BY <1>1, <1>2, Stages
  <1>4. TypeOK'
    BY <1>1, <1>2, <1>3 DEF IInv, TypeOK
  <1>5. \A y \in Level1Ids : /\ owner'[y] \in {NoRow, owner[y]}
                             /\ Exists(y)' /\ owner'[y] # NoRow => Exists(y)
    BY <1>1, <1>2 DEF Exists, IInv, TypeOK
  <1>6. PostsOwn' /\ CreatorsHaveAccess'
    BY <1>1, <1>2, <1>3, <1>5, OwnStep
  <1> QED
    BY <1>2, <1>3, <1>4, <1>6 DEF IInv, ColumnsFollow

\* Reading the rows to delete writes nothing.
LEMMA CollectStep ==
  ASSUME IInv, NEW w \in Workers, CollectLevel1(w)
  PROVE  IInv'
  <1> DEFINE kids == {c \in ChildIds : There(c) /\ children[c].kind = "level2"
                                                /\ children[c].level1 = job[w].id}
             j == [job[w] EXCEPT !.kids = kids, !.stage = "commit"]
  <1>1. job[w] \in Job /\ JobInv(job[w])
    BY DEF IInv, TypeOK
  <1>a. kids \in SUBSET ChildIds
    OBVIOUS
  <1>3. job' = [job EXCEPT ![w] = j]
    BY DEF CollectLevel1
  <1> HIDE DEF kids
  <1>2. j \in Job
    BY <1>1, <1>a DEF Job
  <1>4. /\ j.op = job[w].op /\ j.user = job[w].user /\ j.id = job[w].id
        /\ j.child = job[w].child /\ j.row = job[w].row /\ j.stage = "commit"
    BY <1>1 DEF Job
  <1> HIDE DEF j
  <1>5. JobInv(j)
    BY <1>1, <1>4 DEF JobInv
  <1> QED
    BY <1>2, <1>3, <1>4, <1>5, JobStep DEF CollectLevel1, At

\* A deletion takes the access to one level, with the level.
LEMMA DeleteLevel1Step ==
  ASSUME IInv, NEW w \in Workers, DeleteLevel1(w)
  PROVE  IInv'
  <1> DEFINE x == job[w].id
  <1>1. x \in Level1Ids /\ job[w].op = "delete" /\ End(w)
    BY DEF IInv, TypeOK, JobInv, DeleteLevel1, At
  <1>2. /\ \/ UNCHANGED <<level1, levelGroups, access, children>>
           \/ /\ level1' = [level1 EXCEPT ![x] = NoRow]
              /\ levelGroups' = [levelGroups EXCEPT ![x] = {}]
              /\ access' = [access EXCEPT ![x] = {}]
              /\ children' \in [ChildIds -> Child \cup {NoRow}]
        /\ UNCHANGED <<nextLevel1, owner, nextChild, column, granted>>
    BY DEF IInv, TypeOK, DeleteLevel1, grants
  <1>3. TypeOK'
    BY <1>1, <1>2, EndJobs DEF IInv, TypeOK
  <1>4. \A y \in Level1Ids : Exists(y)' => Exists(y) /\ access[y] \subseteq access'[y]
    BY <1>1, <1>2 DEF IInv, TypeOK, Exists
  <1>5. PostsOwn' /\ CreatorsHaveAccess'
    BY <1>1, <1>2, <1>4, EndJobs, Bystander
  <1> QED
    BY <1>1, <1>2, <1>3, <1>5, EndJobs DEF IInv, ColumnsFollow

-----------------------------------------------------------------------------
(* WorkflowLevel2ViewSet, WorkflowTeamViewSet, WorkflowLevel2SortViewSet   *)

\* A POST leaves a worker with a row.
LEMMA PostChildStep ==
  ASSUME IInv, NEW w \in Workers, NEW u \in Actors, NEW kind \in ChildKinds,
         NEW x \in {0} \cup Level1Ids, PostChild(w, u, kind, x)
  PROVE  IInv'
  <1> DEFINE row == [kind |-> kind, level1 |-> x]
             j == [NoJob EXCEPT !.op = "postChild", !.stage = "save",
                                !.child = nextChild, !.row = row]
  <1>1. nextChild \in ChildIds
    BY ConstantsAssumption DEF IInv, TypeOK, PostChild, ChildIds
  <1>2. row \in Child
    BY DEF Child
  <1>3. j \in Job /\ JobInv(j) /\ j.op = "postChild"
    BY <1>1, <1>2, NoJobType DEF Job, JobInv, NoJob
  <1>4. job' = [job EXCEPT ![w] = j] /\ job[w].op = "idle"
    BY DEF PostChild, Idle
  <1> HIDE DEF j
  <1>5. /\ job' \in [Workers -> Job] /\ job'[w] = j
        /\ \A v \in Workers \ {w} : job'[v] = job[v]
        /\ \A v \in Workers : JobInv(job[v])'
    BY <1>3, <1>4 DEF IInv, TypeOK, JobInv
  <1>6. /\ nextChild' \in 1..(MaxChildren + 1)
        /\ UNCHANGED <<level1Tables, children, grants>>
    BY ConstantsAssumption DEF IInv, TypeOK, PostChild
  <1>7. TypeOK'
    BY <1>5, <1>6 DEF IInv, TypeOK, level1Tables, grants
  <1>8. PostsOwn' /\ CreatorsHaveAccess'
    BY <1>3, <1>4, <1>5, <1>6, Bystander DEF level1Tables, Exists
  <1> QED
    BY <1>5, <1>6, <1>7, <1>8 DEF IInv, ColumnsFollow, grants

\* A PUT of a child names another parent.
LEMMA OpenChildStep ==
  ASSUME IInv, NEW w \in Workers, NEW u \in Actors, NEW c \in ChildIds,
         OpenPutChild(w, u, c) \/ OpenDeleteChild(w, u, c)
  PROVE  IInv'
  <1>1. CASE OpenPutChild(w, u, c)
    <2>1. children[c] \in Child
      BY <1>1 DEF IInv, TypeOK, OpenPutChild, There
    <2>2. PICK x \in Parents(children[c].kind) :
            job' = [job EXCEPT ![w] = [NoJob EXCEPT
                      !.op = "putChild", !.stage = "save", !.child = c,
                      !.row = [children[c] EXCEPT !.level1 = x]]]
      BY <1>1 DEF OpenPutChild
    <2> DEFINE row == [children[c] EXCEPT !.level1 = x]
               j == [NoJob EXCEPT !.op = "putChild", !.stage = "save",
                                  !.child = c, !.row = row]
    <2>3. row \in Child
      BY <2>1, <2>2 DEF Parents, Exists, Child
    <2>4. job' = [job EXCEPT ![w] = j]
      BY <2>2
    <2> HIDE DEF row
    <2>5. j \in Job /\ JobInv(j) /\ j.op = "putChild"
      BY <2>3, NoJobType DEF Job, JobInv, NoJob
    <2> QED
      BY <1>1, <2>4, <2>5, JobStep DEF OpenPutChild, Idle
  <1>2. CASE OpenDeleteChild(w, u, c)
    <2> DEFINE j == [NoJob EXCEPT !.op = "deleteChild", !.stage = "save",
                                  !.child = c]
    <2>1. j \in Job /\ JobInv(j) /\ j.op = "deleteChild"
      BY NoJobType DEF Job, JobInv, NoJob
    <2> QED
      BY <1>2, <2>1, JobStep DEF OpenDeleteChild, Idle
  <1> QED
    BY <1>1, <1>2

\* The end of a request about a child leaves the levels alone.
LEMMA ChildStep ==
  ASSUME IInv, NEW w \in Workers, SaveChild(w) \/ DeleteChild(w)
  PROVE  IInv'
  <1>1. /\ job[w].op \in {"postChild", "putChild", "deleteChild"}
        /\ job[w].child \in ChildIds
        /\ End(w)
        /\ UNCHANGED <<level1Tables, nextChild, grants>>
    BY DEF IInv, JobInv, SaveChild, DeleteChild, At
  <1>2. children' \in [ChildIds -> Child \cup {NoRow}]
    BY <1>1 DEF IInv, TypeOK, JobInv, SaveChild, DeleteChild, At
  <1>3. TypeOK'
    BY <1>1, <1>2, EndJobs DEF IInv, TypeOK, level1Tables, grants
  <1>4. PostsOwn' /\ CreatorsHaveAccess'
    BY <1>1, EndJobs, Bystander DEF level1Tables, Exists
  <1> QED
    BY <1>1, <1>3, <1>4, EndJobs DEF IInv, ColumnsFollow, grants

-----------------------------------------------------------------------------
(* Groups, and the invariant.                                              *)

\* to_internal_value() yields four binary digits.
LEMMA ToInternalRange ==
  ASSUME NEW verbs
  PROVE  ToInternal(verbs) \in 0..15
  BY DEF ToInternal

\* A new grant and its column are written together.
LEMMA GrantStep ==
  ASSUME IInv, NEW w \in Workers, NEW g \in GroupIds, NEW verbs \in Grants[g],
         Grant(w, g, verbs)
  PROVE  IInv'
  <1>1. verbs \in SUBSET Verbs
    BY ConstantsAssumption
  <1>2. TypeOK'
    BY <1>1, ToInternalRange DEF IInv, TypeOK, Grant, level1Tables, childTables
  <1>3. ColumnsFollow'
    BY DEF IInv, TypeOK, ColumnsFollow, Grant
  <1>4. /\ job' = job /\ job[w].op = "idle"
        /\ UNCHANGED <<level1, access, owner, nextLevel1>>
    BY DEF Grant, Idle, level1Tables
  <1>5. PostsOwn' /\ CreatorsHaveAccess'
    BY <1>4, Bystander DEF Exists
  <1> QED
    BY <1>2, <1>3, <1>4, <1>5 DEF IInv, JobInv

\* The empty tables satisfy the invariant.
LEMMA InitInv == Init => IInv
  <1> SUFFICES ASSUME Init PROVE IInv
    OBVIOUS
  <1>1. TypeOK
    BY ToInternalRange, NoJobType, ConstantsAssumption DEF Init, TypeOK
  <1>2. PostsOwn /\ CreatorsHaveAccess
    BY NoJobType DEF Init, PostsOwn, CreatorsHaveAccess, Exists
  <1>3. ColumnsFollow /\ \A w \in Workers : JobInv(job[w])
    BY NoJobType DEF Init, ColumnsFollow
  <1> QED
    BY <1>1, <1>2, <1>3 DEF IInv

\* A request, whoever sends it, preserves the invariant.
LEMMA RequestStep ==
  ASSUME IInv, NEW w \in Workers, NEW u \in Actors, Request(w, u)
  PROVE  IInv'
  BY PostStep, OpenLevel1Step, PostChildStep, OpenChildStep DEF Request

\* A worker that is killed forgets its request, and with a POST that it owes access.
LEMMA TimeoutStep ==
  ASSUME IInv, NEW w \in Workers, Timeout(w)
  PROVE  IInv'
  <1>1. /\ End(w)
        /\ UNCHANGED <<level1, levelGroups, access, nextLevel1, children, nextChild,
                       column, granted>>
        /\ owner' = IF job[w].op = "post" THEN [owner EXCEPT ![job[w].id] = NoRow]
                    ELSE owner
        /\ \A x \in Level1Ids : Exists(x)' <=> Exists(x)
    BY DEF Timeout, childTables, grants, Exists
  <1>2. job[w].op = "post" => job[w].id \in Level1Ids
    BY DEF IInv, JobInv
  <1>3. TypeOK'
    BY <1>1, <1>2, EndJobs DEF IInv, TypeOK
  <1>4. PostsOwn' /\ CreatorsHaveAccess'
    <2>1. CASE job[w].op = "post"
      <3>1. \A x \in Level1Ids : /\ owner'[x] \in {NoRow, owner[x]}
                                 /\ x = job[w].id => owner'[x] = NoRow
        BY <1>1, <1>2, <2>1 DEF IInv, TypeOK
      <3> QED
        BY <1>1, <2>1, <3>1, EndJobs, OwnStep
    <2>2. CASE job[w].op # "post"
      BY <1>1, <2>2, EndJobs, Bystander
    <2> QED
      BY <2>1, <2>2
  <1> QED
    BY <1>1, <1>3, <1>4, EndJobs DEF IInv, ColumnsFollow

\* Every step preserves the invariant.
LEMMA NextInv == IInv /\ [Next]_vars => IInv'
  <1> SUFFICES ASSUME IInv, [Next]_vars PROVE IInv'
    OBVIOUS
  <1>1. CASE Next
    <2>1. PICK w \in Workers :
            \/ \E u \in Actors : Request(w, u)
            \/ \E g \in GroupIds : \E verbs \in Grants[g] : Grant(w, g, verbs)
            \/ SetAccess(w) \/ SetGroups(w) \/ AddAccess(w) \/ SaveLevel1(w)
            \/ CollectLevel1(w) \/ DeleteLevel1(w) \/ SaveChild(w) \/ DeleteChild(w)
            \/ Timeout(w)
      BY <1>1 DEF Next
    <2> QED
      BY <2>1, RequestStep, GrantStep, SetAccessStep, SetGroupsStep, AddAccessStep,
         SaveLevel1Step, CollectStep, DeleteLevel1Step, ChildStep, TimeoutStep
  <1>2. CASE UNCHANGED vars
    BY <1>2 DEF vars, IInv, TypeOK, PostsOwn, CreatorsHaveAccess, ColumnsFollow,
                JobInv, Exists
  <1> QED
    BY <1>1, <1>2

\* The invariant holds in every reachable state.
LEMMA Inductive == Spec => []IInv
  BY InitInv, NextInv, PTL DEF Spec

\* The tables and the jobs keep their types.
THEOREM TypeCorrect == Spec => []TypeOK
  <1>1. IInv => TypeOK
    BY DEF IInv
  <1> QED
    BY <1>1, Inductive, PTL

\* However requests overlap, are killed and bring deleted levels back: a level that
\* its creator has no access to is being created, or its POST was killed, or a PUT
\* named its users or brought it back.
THEOREM Creators == Spec => []CreatorsHaveAccess
  <1>1. IInv => CreatorsHaveAccess
    BY DEF IInv
  <1> QED
    BY <1>1, Inductive, PTL

-----------------------------------------------------------------------------
(* What the permission classes decide.                                     *)

\* A column of four digits, from its digits.
LEMMA FourDigits ==
  ASSUME NEW a \in {0, 1}, NEW b \in {0, 1}, NEW c \in {0, 1}, NEW d \in {0, 1}
  PROVE  LET p == 8 * a + 4 * b + 2 * c + d
         IN  /\ p \in 0..15
             /\ p \div 8 = a /\ (p \div 4) % 2 = b /\ (p \div 2) % 2 = c /\ p % 2 = d
             /\ p = 15 <=> a = 1 /\ b = 1 /\ c = 1 /\ d = 1
  OBVIOUS

\* The string that display_permissions makes of a column has a 1 for each verb
\* that to_internal_value() was given, and the column is 15 for all four.
LEMMA DigitsOfVerbs ==
  ASSUME NEW vs \in SUBSET Verbs
  PROVE  /\ Display(ToInternal(vs))[1] = 1 <=> "create" \in vs
         /\ Display(ToInternal(vs))[2] = 1 <=> "read" \in vs
         /\ Display(ToInternal(vs))[3] = 1 <=> "update" \in vs
         /\ Display(ToInternal(vs))[4] = 1 <=> "delete" \in vs
         /\ ToInternal(vs) = 15 <=> vs = Verbs
  <1> DEFINE a == IF "create" \in vs THEN 1 ELSE 0
             b == IF "read" \in vs THEN 1 ELSE 0
             c == IF "update" \in vs THEN 1 ELSE 0
             d == IF "delete" \in vs THEN 1 ELSE 0
             p == 8 * a + 4 * b + 2 * c + d
  <1>1. ToInternal(vs) = p
    BY DEF ToInternal
  <1>2. vs = Verbs <=> a = 1 /\ b = 1 /\ c = 1 /\ d = 1
    <2>1. vs = Verbs <=> \A v \in Verbs : v \in vs
      OBVIOUS
    <2> QED
      BY <2>1 DEF Verbs
  <1>3. /\ a \in {0, 1} /\ b \in {0, 1} /\ c \in {0, 1} /\ d \in {0, 1}
        /\ a = 1 <=> "create" \in vs
        /\ b = 1 <=> "read" \in vs
        /\ c = 1 <=> "update" \in vs
        /\ d = 1 <=> "delete" \in vs
    OBVIOUS
  <1> HIDE DEF a, b, c, d
  <1>4. /\ p \in 0..15
        /\ p \div 8 = a /\ (p \div 4) % 2 = b /\ (p \div 2) % 2 = c /\ p % 2 = d
        /\ p = 15 <=> a = 1 /\ b = 1 /\ c = 1 /\ d = 1
    BY <1>3, FourDigits
  <1> HIDE DEF p
  <1>5. Display(p) = <<a, b, c, d>>
    BY <1>4 DEF Display, Digits
  <1> QED
    BY <1>1, <1>2, <1>3, <1>4, <1>5

\* The place of the digit for each verb.
Place == [create |-> 1, read |-> 2, update |-> 3, delete |-> 4]

\* A group's digits and whether it administers, from what it was given.
LEMMA RowFollows ==
  ASSUME IInv, NEW g \in GroupIds
  PROVE  /\ GroupRow(g).permissions = 15 <=> granted[g] = Verbs
         /\ \A v \in Verbs :
               Display(GroupRow(g).permissions)[Place[v]] = 1 <=> v \in granted[g]
  <1>1. granted[g] \in SUBSET Verbs /\ GroupRow(g).permissions = ToInternal(granted[g])
    BY DEF IInv, TypeOK, ColumnsFollow, GroupRow
  <1> QED
    BY <1>1, DigitsOfVerbs DEF Verbs, Place

\* has_permission() looks at the digit of the action's or the method's verb.
LEMMA HasVerb ==
  ASSUME NEW p
  PROVE  /\ Has(p, "create") <=> p[1] = 1
         /\ Has(p, "retrieve") <=> p[2] = 1
         /\ Has(p, "update") <=> p[3] = 1
         /\ Has(p, "destroy") <=> p[4] = 1
         /\ Has(p, "POST") <=> p[1] = 1
         /\ Has(p, "GET") <=> p[2] = 1
         /\ Has(p, "PUT") <=> p[3] = 1
         /\ Has(p, "PATCH") <=> p[3] = 1
         /\ Has(p, "DELETE") <=> p[4] = 1
         /\ Has(p, "HEAD") <=> p[2] = 1
         /\ Has(p, "OPTIONS") <=> p[2] = 1
  BY DEF Has, Methods

\* A merged digit that the base lacks comes from one of the groups.
LEMMA Merged ==
  ASSUME NEW base, NEW gs, NEW i \in 1..4, base[i] # 1
  PROVE  MergeAll(base, gs)[i] = 1 <=> \E g \in gs : Display(g.permissions)[i] = 1
  BY DEF MergeAll

\* What the permission classes see of a group, and that they tell groups apart.
LEMMA RowFields ==
  ASSUME NEW g
  PROVE  /\ GroupRow(g).id = g
         /\ GroupRow(g).org = GroupOrg[g]
         /\ GroupRow(g).isGlobal <=> g \in GlobalGroups
         /\ GroupRow(g).isOrgLevel <=> g \in OrgGroups
  BY DEF GroupRow

\* What AllowLogicModuleGroup decides from the digits is what the verbs given to
\* the module's groups say.
THEOREM Gateway == Spec => []GatewayFollowsGrants
  <1> DEFINE verb == [POST |-> "create", GET |-> "read", PUT |-> "update",
                      PATCH |-> "update", DELETE |-> "delete", HEAD |-> "read",
                      OPTIONS |-> "read"]
  <1>1. ASSUME IInv, NEW of \in SUBSET GroupIds, NEW org \in Orgs,
               NEW method \in DOMAIN verb
        PROVE  LET rows    == {GroupRow(g) : g \in of}
                   concern == {g \in of : \/ g \in GlobalGroups
                                          \/ g \in OrgGroups /\ GroupOrg[g] = org}
               IN  GatewayPermit([org |-> org, superuser |-> FALSE], method, rows) <=>
                      concern = {} \/ \E g \in concern : verb[method] \in granted[g]
    <2> DEFINE rows    == {GroupRow(g) : g \in of}
               concern == {g \in of : \/ g \in GlobalGroups
                                      \/ g \in OrgGroups /\ GroupOrg[g] = org}
               heard   == {r \in rows : r.isGlobal \/ (r.org = org /\ r.isOrgLevel)}
               world   == {r \in heard : r.isGlobal}
               staff   == {r \in heard : ~r.isGlobal}
               i       == Place[verb[method]]
    <2>1. heard = {GroupRow(g) : g \in concern}
      BY RowFields
    <2>2. i \in 1..4 /\ NoAccess[i] # 1 /\ verb[method] \in Verbs
      BY DEF Place, NoAccess, Digits, Verbs
    <2>3. \A p : Has(p, method) <=> p[i] = 1
      BY HasVerb DEF Place
    <2>4. \A gs : Has(MergeAll(NoAccess, gs), method) <=>
                     \E r \in gs : Display(r.permissions)[i] = 1
      <3> HIDE DEF i
      <3> QED
        BY <2>2, <2>3, Merged
    <2>5. \A g \in concern :
             Display(GroupRow(g).permissions)[i] = 1 <=> verb[method] \in granted[g]
      BY <1>1, <2>2, RowFollows
    <2>6. GatewayPermit([org |-> org, superuser |-> FALSE], method, rows) <=>
             \/ heard = {}
             \/ Has(MergeAll(NoAccess, world), method)
             \/ Has(MergeAll(NoAccess, staff), method)
      BY DEF GatewayPermit
    <2>7. heard = {} <=> concern = {}
      BY <2>1
    <2>8. (\E r \in world \cup staff : Display(r.permissions)[i] = 1) <=>
             \E g \in concern : verb[method] \in granted[g]
      <3>1. world \cup staff = heard
        OBVIOUS
      <3> HIDE DEF world, staff, heard, concern, i, verb
      <3> QED
        BY <2>1, <2>5, <3>1
    <2> HIDE DEF world, staff, heard, concern, i, rows
    <2> QED
      BY <2>4, <2>6, <2>7, <2>8 DEF concern, rows
  <1>2. IInv => GatewayFollowsGrants
    BY <1>1 DEF GatewayFollowsGrants
  <1> QED
    BY <1>2, Inductive, PTL

\* The groups of a loaded user that are global, or of the organization, and the
\* administrators they make.
LEMMA Administration ==
  ASSUME IInv, NEW u \in Users
  PROVE  /\ Loaded(u).active = u.active
         /\ Loaded(u).org = u.org
         /\ Loaded(u).groups = {GroupRow(g) : g \in u.groups}
         /\ u.groups \subseteq GroupIds
         /\ IsGlobalAdmin(Loaded(u)) <=> Global(u)
         /\ IsOrgAdmin(Loaded(u)) <=> Administers(u, OrgGroups)
  <1>1. u \in [org : Orgs, active : BOOLEAN, superuser : BOOLEAN,
               groups : SUBSET GroupIds]
    BY ConstantsAssumption
  <1>2. /\ Loaded(u).active = u.active
        /\ Loaded(u).org = u.org
        /\ Loaded(u).superuser = u.superuser
        /\ Loaded(u).groups = {GroupRow(g) : g \in u.groups}
        /\ u.groups \subseteq GroupIds
    BY <1>1 DEF Loaded
  <1>3. \A g \in u.groups : GroupRow(g).permissions = 15 <=> granted[g] = Verbs
    BY <1>2, RowFollows
  <1>4. IsGlobalAdmin(Loaded(u)) <=> Global(u)
    BY <1>2, <1>3, RowFields DEF IsGlobalAdmin, Global, Administers
  <1>5. IsOrgAdmin(Loaded(u)) <=> Administers(u, OrgGroups)
    BY <1>2, <1>3, RowFields DEF IsOrgAdmin, Administers
  <1> QED
    BY <1>2, <1>4, <1>5

\* Who may create: a verb of a global or organization group counts everywhere, a
\* verb of another group at the levels that have it.
LEMMA MayCreate ==
  ASSUME IInv, NEW u \in Users, NEW ids \in SUBSET GroupIds
  PROVE  GroupsPermit(Loaded(u), "create", {GroupRow(g) : g \in ids}) <=>
            u.active /\ \/ Global(u)
                        \/ Holds(u, "create", GlobalGroups \cup OrgGroups)
                        \/ Holds(u, "create", ids)
  <1> DEFINE mine   == {GroupRow(g) : g \in u.groups}
             parent == {GroupRow(g) : g \in ids}
             world  == {r \in mine : r.isGlobal}
             staff  == {r \in mine \ world : r.isOrgLevel}
             plain  == mine \ (world \cup staff)
             may(r) == Display(r.permissions)[1] = 1
  <1>1. /\ Loaded(u).active = u.active /\ Loaded(u).groups = mine
        /\ u.groups \subseteq GroupIds
        /\ IsGlobalAdmin(Loaded(u)) <=> Global(u)
    BY Administration
  <1>2. \A gs : Has(MergeAll(ViewOnly, gs), "create") <=> \E r \in gs : may(r)
    <2>1. ViewOnly[1] # 1
      BY DEF ViewOnly, Digits
    <2> QED
      BY <2>1, Merged, HasVerb
  <1>3. GroupsPermit(Loaded(u), "create", parent) <=>
           u.active /\ \/ Global(u)
                       \/ \E gs \in {world, staff, plain \cap parent} :
                             Has(MergeAll(ViewOnly, gs), "create")
    BY <1>1 DEF GroupsPermit
  <1>4. \A g \in u.groups : may(GroupRow(g)) <=> "create" \in granted[g]
    BY <1>1, RowFollows DEF Verbs, Place
  <1>5. (\E r \in world \cup staff : may(r)) <=>
           Holds(u, "create", GlobalGroups \cup OrgGroups)
    <2>1. world \cup staff =
             {GroupRow(g) : g \in u.groups \cap (GlobalGroups \cup OrgGroups)}
      BY RowFields
    <2> HIDE DEF world, staff, may
    <2> QED
      BY <1>4, <2>1 DEF Holds
  <1>6. (\E r \in plain \cap parent : may(r)) =>
           Holds(u, "create", ids)
    BY <1>4, RowFields DEF Holds
  <1>7. Holds(u, "create", ids) =>
           \/ \E r \in world \cup staff : may(r)
           \/ \E r \in plain \cap parent : may(r)
    BY <1>4 DEF Holds
  <1> HIDE DEF world, staff, plain, may, parent
  <1>8. GroupsPermit(Loaded(u), "create", parent) <=>
           u.active /\ \/ Global(u)
                       \/ Holds(u, "create", GlobalGroups \cup OrgGroups)
                       \/ Holds(u, "create", ids)
    BY <1>2, <1>3, <1>5, <1>6, <1>7
  <1> QED
    BY <1>8 DEF parent

\* Who may read, change and delete an object of the own groups, or a level.
LEMMA MayObject ==
  ASSUME IInv, NEW u \in Users, NEW ids \in SUBSET GroupIds,
         NEW action \in {"retrieve", "update", "destroy"}
  PROVE  LET of == {GroupRow(g) : g \in ids} IN
         /\ \A gs : GroupsPermit(Loaded(u), action, gs) <=> u.active
         /\ ObjectPermit(Loaded(u), action, FALSE, of) <=>
               u.active /\ \/ Global(u)
                           \/ Administers(u, OrgGroups)
                           \/ Holds(u, Verb[action], ids)
         /\ ObjectPermit(Loaded(u), action, TRUE, {}) <=>
               u.active /\ \/ Global(u)
                           \/ Holds(u, Verb[action], OrgGroups)
         /\ \A org : MemberPermit(Loaded(u), org) <=>
               u.active /\ (Global(u) \/ org = u.org)
  <1> DEFINE of == {GroupRow(g) : g \in ids}
             may(r) == Has(Display(r.permissions), action)
  <1>1. /\ Loaded(u).active = u.active /\ Loaded(u).org = u.org
        /\ Loaded(u).groups = {GroupRow(g) : g \in u.groups}
        /\ u.groups \subseteq GroupIds
        /\ IsGlobalAdmin(Loaded(u)) <=> Global(u)
        /\ IsOrgAdmin(Loaded(u)) <=> Administers(u, OrgGroups)
    BY Administration
  <1>2. \A g \in u.groups : may(GroupRow(g)) <=> Verb[action] \in granted[g]
    <2>1. Verb[action] \in Verbs
      BY DEF Verb, Verbs
    <2>2. \A p : Has(p, action) <=> p[Place[Verb[action]]] = 1
      BY HasVerb DEF Verb, Place
    <2> QED
      BY <1>1, <2>1, <2>2, RowFollows
  <1>3. \A gs : GroupsPermit(Loaded(u), action, gs) <=> u.active
    BY <1>1 DEF GroupsPermit
  <1>4. (\E r \in Loaded(u).groups : r \in of /\ may(r)) <=>
           Holds(u, Verb[action], ids)
    <2> HIDE DEF may
    <2> QED
      BY <1>1, <1>2, RowFields DEF Holds
  <1>5. (\E r \in Loaded(u).groups : r.isOrgLevel /\ may(r)) <=>
           Holds(u, Verb[action], OrgGroups)
    <2> HIDE DEF may
    <2> QED
      BY <1>1, <1>2, RowFields DEF Holds
  <1>6. ObjectPermit(Loaded(u), action, FALSE, of) <=>
           u.active /\ \/ Global(u)
                       \/ Administers(u, OrgGroups)
                       \/ Holds(u, Verb[action], ids)
    BY <1>1, <1>4 DEF ObjectPermit
  <1>7. Administers(u, OrgGroups) => Holds(u, Verb[action], OrgGroups)
    BY DEF Administers, Holds, Verb, Verbs
  <1>8. ObjectPermit(Loaded(u), action, TRUE, {}) <=>
           u.active /\ (Global(u) \/ Holds(u, Verb[action], OrgGroups))
    BY <1>1, <1>5, <1>7 DEF ObjectPermit
  <1>9. \A org : MemberPermit(Loaded(u), org) <=>
           u.active /\ (Global(u) \/ org = u.org)
    BY <1>1 DEF MemberPermit
  <1> QED
    BY <1>3, <1>6, <1>8, <1>9

\* What the permission classes (core/permissions.py, workflow/permissions.py)
\* decide about levels, their children, accounts and groups of a user's own
\* organization is what the verbs given to the groups say, and what belongs to
\* another organization is for global groups.
THEOREM Decisions == Spec => []DecisionsFollowGrants
  <1>1. ASSUME IInv, NEW u \in Users, NEW x \in Level1Ids, Exists(x)
        PROVE  IF level1[x] = u.org THEN LevelsFollow(u, x) ELSE LevelsOutside(u, x)
    <2>1. /\ levelGroups[x] \in SUBSET GroupIds
          /\ GroupsOf(x) = {GroupRow(g) : g \in levelGroups[x]}
          /\ OrgOf(x) = level1[x]
          /\ x # 0
      BY <1>1 DEF IInv, TypeOK, GroupsOf, OrgOf, Exists
    <2>2. \A kind \in {"level2", "team"} :
             MayPostChild(u, kind, x, 0) <=>
                u.active /\ \/ Global(u)
                            \/ Holds(u, "create", GlobalGroups \cup OrgGroups)
                            \/ Holds(u, "create", levelGroups[x])
      <3>1. GroupsPermit(Loaded(u), "create", Deciding(x, 0)) <=>
                u.active /\ \/ Global(u)
                            \/ Holds(u, "create", GlobalGroups \cup OrgGroups)
                            \/ Holds(u, "create", levelGroups[x])
        BY <1>1, <2>1, MayCreate DEF Deciding
      <3>2. MemberRequest(Loaded(u), "create", {}, FALSE) <=> u.active
        BY <1>1, Administration DEF MemberRequest
      <3> QED
        BY <3>1, <3>2 DEF MayPostChild
    <2>3. ASSUME NEW action \in {"retrieve", "update", "destroy"}
          PROVE  /\ MayChild(u, action, "level2", x) <=>
                       u.active /\ \/ Global(u)
                                   \/ /\ level1[x] = u.org
                                      /\ \/ Administers(u, OrgGroups)
                                         \/ Holds(u, Verb[action], levelGroups[x])
                 /\ MayLevel1(u, action, x) <=>
                       u.active /\ \/ Global(u)
                                   \/ /\ level1[x] = u.org
                                      /\ Holds(u, Verb[action], OrgGroups)
      BY <1>1, <2>1, MayObject DEF MayChild, MayLevel1
    <2>4. Global(u) => u.superuser \/ u.groups \cap GlobalGroups # {}
      BY DEF Global, Administers
    <2>5. CASE level1[x] = u.org
      BY <2>2, <2>3, <2>5 DEF LevelsFollow
    <2>6. CASE level1[x] # u.org
      BY <2>3, <2>4, <2>6 DEF LevelsOutside, Outside
    <2> QED
      BY <2>5, <2>6
  <1>2. ASSUME IInv, NEW u \in Users
        PROVE  AccountsFollow(u) /\ \A org \in Orgs \ {u.org} : AccountsOutside(u, org)
    <2>1. /\ Loaded(u).active = u.active
          /\ Loaded(u).org = u.org
          /\ IsGlobalAdmin(Loaded(u)) <=> Global(u)
          /\ IsOrgAdmin(Loaded(u)) <=> Administers(u, OrgGroups)
      BY <1>2, Administration
    <2>2. Global(u) => u.superuser \/ u.groups \cap GlobalGroups # {}
      BY DEF Global, Administers
    <2>3. ~There(0)
      BY DEF There
    <2>4. GroupsPermit(Loaded(u), "create", {}) <=>
             u.active /\ \/ Global(u)
                         \/ Holds(u, "create", GlobalGroups \cup OrgGroups)
      <3>1. {GroupRow(g) : g \in {}} = {} /\ {} \in SUBSET GroupIds
        OBVIOUS
      <3>2. ~Holds(u, "create", {})
        BY DEF Holds
      <3> QED
        BY <1>2, <3>1, <3>2, MayCreate
    <2>5. Deciding(0, 0) = {}
      BY <2>3 DEF Deciding
    <2>6. AccountsFollow(u)
      BY <2>1, <2>4, <2>5
         DEF AccountsFollow, MayChangeUser, MayPost, MayPostGroup, MayGroup,
             OrgAdminPermit, MemberRequest, MemberPermit
    <2>7. ASSUME NEW org \in Orgs \ {u.org}
          PROVE  AccountsOutside(u, org)
      BY <2>1, <2>2, <2>4, <2>5
         DEF AccountsOutside, Outside, MayChangeUser, MayPost, MayPostGroup, MayGroup,
             OrgAdminPermit, MemberRequest, MemberPermit
    <2> QED
      BY <2>6, <2>7
  <1>3. IInv => DecisionsFollowGrants
    BY <1>1, <1>2 DEF DecisionsFollowGrants
  <1> QED
    BY <1>3, Inductive, PTL

=============================================================================
