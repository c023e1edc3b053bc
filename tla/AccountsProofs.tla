--------------------------- MODULE AccountsProofs ---------------------------
(***************************************************************************)
(* Theorems about Accounts, for any workers, names, bounds and mixtures of *)
(* requests.  The invariants, each resting on the ones before it: types,   *)
(* and room for what is under way; foreign keys; who is active; what a     *)
(* founder's registration has done so far; that an organization is founded *)
(* once; and, while requests come one at a time, what the one request      *)
(* holds, from which the refinement of AccountLifecycle follows.           *)
(***************************************************************************)
EXTENDS Accounts, FiniteSetTheorems, TLAPS

-----------------------------------------------------------------------------
(* Types.                                                                  *)

\* What a request knows at its stages.  A user who is not stored yet is not
\* active.
Shape(j) ==
    /\ j.op \in {"register", "patch", "profile", "confirm"} => j.row \in Row
    /\ j.op \in {"patch", "profile", "confirm"} => j.user \in UserIds
    /\ j.op \in {"register", "profile", "orgput"} => j.orgName \in OrgNames
    /\ j.op \in {"orgput", "orgdelete"} => j.org \in OrgIds
    /\ j.op = "register" =>
          /\ j.stage \notin {"getOrg", "makeOrg"} => j.org \in OrgIds
          /\ j.stage \in {"getOrg", "makeOrg", "insert"} => ~j.row.active
          /\ j.stage \notin {"getOrg", "makeOrg", "insert"} => j.user \in UserIds

\* Requests that may still insert a user, and such as may still hash a password.
WillInsert(j) == j.op = "register" /\ j.stage \in {"getOrg", "makeOrg", "insert"}
WillHash(j) ==
    \/ WillInsert(j)
    \/ j.op = "register" /\ j.stage \in {"defaultGroups", "joinDefaults", "password"}
    \/ j.op = "confirm"
    \/ j.op = "profile" /\ "password" \in j.fields

Inserts == {w \in Workers : WillInsert(job[w])}
Pending == {w \in Workers : WillHash(job[w])}

\* They have room for it.
RoomInv ==
    /\ nextUser + Cardinality(Inserts) <= MaxUsers + 1
    /\ nextHash + Cardinality(Pending) <= MaxHashes + 1

TypeInv ==
    /\ TypeOK
    /\ RoomInv
    /\ \A w \in Workers : Shape(job[w])

\* How many rows, or hashes, a job may still ask for.
InsertNeed(j) == IF WillInsert(j) THEN 1 ELSE 0
HashNeed(j)   == IF WillHash(j) THEN 1 ELSE 0

\* A set that differs in one element at most.
LEMMA OneMoreOrLess ==
  ASSUME NEW U, NEW x \in U, NEW S \in SUBSET U, NEW T \in SUBSET U, IsFiniteSet(S),
         \A y \in U : y # x => (y \in S <=> y \in T)
  PROVE  /\ IsFiniteSet(T) /\ Cardinality(T) \in Nat /\ Cardinality(S) \in Nat
         /\ Cardinality(T) = Cardinality(S)
               + (IF x \in T THEN 1 ELSE 0) - (IF x \in S THEN 1 ELSE 0)
  <1> DEFINE R == S \ {x}
  <1>1. IsFiniteSet(R) /\ Cardinality(R) \in Nat /\ Cardinality(S) \in Nat
    BY FS_RemoveElement, FS_CardinalityType
  <1>2. Cardinality(S) = IF x \in S THEN Cardinality(R) + 1 ELSE Cardinality(R)
    <2>1. CASE x \in S
      <3>1. S = R \cup {x} /\ x \notin R
        BY <2>1
      <3> QED
        BY <1>1, <2>1, <3>1, FS_AddElement
    <2>2. CASE x \notin S
      <3>1. S = R
        BY <2>2
      <3> QED
        BY <2>2, <3>1
    <2> QED
      BY <2>1, <2>2
  <1>3. T = IF x \in T THEN R \cup {x} ELSE R
    OBVIOUS
  <1>4. IsFiniteSet(R \cup {x}) /\ Cardinality(R \cup {x}) = Cardinality(R) + 1
    BY <1>1, FS_AddElement
  <1> HIDE DEF R
  <1>5. /\ IsFiniteSet(T)
        /\ Cardinality(T) = IF x \in T THEN Cardinality(R) + 1 ELSE Cardinality(R)
    BY <1>1, <1>3, <1>4
  <1> QED
    BY <1>1, <1>2, <1>5

\* Room there is is enough for one request more.
LEMMA RoomEnough ==
  ASSUME TypeInv
  PROVE  /\ IsFiniteSet(Inserts) /\ Cardinality(Inserts) \in Nat
         /\ IsFiniteSet(Pending) /\ Cardinality(Pending) \in Nat
         /\ RoomForUser => nextUser + Cardinality(Inserts) <= MaxUsers
         /\ RoomForHash => nextHash + Cardinality(Pending) <= MaxHashes
  <1>1. Inserting = Inserts
    BY DEF Inserting, Inserts, WillInsert
  <1>2. Pending \subseteq Hashing /\ Hashing \subseteq Workers /\ Inserts \subseteq Workers
    BY DEF Hashing, Pending, WillHash, WillInsert, Inserts
  <1>3. IsFiniteSet(Workers)
    BY ConstantsAssumption
  <1>4. IsFiniteSet(Hashing) /\ IsFiniteSet(Inserts)
    BY <1>2, <1>3, FS_Subset
  <1>5. IsFiniteSet(Pending) /\ Cardinality(Pending) <= Cardinality(Hashing)
    BY <1>2, <1>4, FS_Subset
  <1>6. Cardinality(Hashing) \in Nat /\ Cardinality(Pending) \in Nat /\ Cardinality(Inserts) \in Nat
    BY <1>4, <1>5, FS_CardinalityType
  <1>7. scenario.hashes \in 0..MaxHashes
    BY ConstantsAssumption DEF TypeInv, TypeOK
  <1>8. nextHash \in Nat /\ MaxHashes \in Nat
    BY ConstantsAssumption DEF TypeInv, TypeOK
  <1> QED
    BY <1>1, <1>4, <1>5, <1>6, <1>7, <1>8 DEF RoomForUser, RoomForHash

\* What one job's change does to the two numbers.
LEMMA InsertsStep ==
  ASSUME IsFiniteSet(Inserts), NEW w \in Workers,
         \A v \in Workers : v # w => job'[v] = job[v]
  PROVE  /\ Cardinality(Inserts') \in Nat
         /\ Cardinality(Inserts') = Cardinality(Inserts)
               + InsertNeed(job'[w]) - InsertNeed(job[w])
  <1>1. \A y \in Workers : y # w => (y \in Inserts <=> y \in Inserts')
    BY DEF Inserts, WillInsert
  <1>2. /\ w \in Inserts <=> WillInsert(job[w])
        /\ w \in Inserts' <=> WillInsert(job'[w])
    BY DEF Inserts, WillInsert
  <1>3. Inserts \in SUBSET Workers /\ Inserts' \in SUBSET Workers
    BY DEF Inserts
  <1> QED
    BY <1>1, <1>2, <1>3, OneMoreOrLess DEF InsertNeed

LEMMA PendingStep ==
  ASSUME IsFiniteSet(Pending), NEW w \in Workers,
         \A v \in Workers : v # w => job'[v] = job[v]
  PROVE  /\ Cardinality(Pending') \in Nat
         /\ Cardinality(Pending') = Cardinality(Pending)
               + HashNeed(job'[w]) - HashNeed(job[w])
  <1>1. \A y \in Workers : y # w => (y \in Pending <=> y \in Pending')
    BY DEF Pending, WillHash, WillInsert
  <1>2. /\ w \in Pending <=> WillHash(job[w])
        /\ w \in Pending' <=> WillHash(job'[w])
    BY DEF Pending, WillHash, WillInsert
  <1>3. Pending \in SUBSET Workers /\ Pending' \in SUBSET Workers
    BY DEF Pending
  <1> QED
    BY <1>1, <1>2, <1>3, OneMoreOrLess DEF HashNeed

\* It is enough to look at the worker whose job changes: it has been given room,
\* or uses only its own.
LEMMA JobStep ==
  ASSUME TypeInv, NEW w \in Workers, NEW j \in Job, Shape(j),
         job' = [job EXCEPT ![w] = j],
         nextUser' \in Nat \ {0}, nextHash' \in Nat \ {0},
         \/ nextUser' + InsertNeed(j) <= nextUser + InsertNeed(job[w])
         \/ nextUser' = nextUser /\ RoomForUser,
         \/ nextHash' + HashNeed(j) <= nextHash + HashNeed(job[w])
         \/ nextHash' = nextHash /\ RoomForHash
  PROVE  /\ job' \in [Workers -> Job]
         /\ \A v \in Workers : Shape(job'[v])
         /\ RoomInv'
         /\ nextUser' \in 1..(MaxUsers + 1)
         /\ nextHash' \in 1..(MaxHashes + 1)
  <1>1. job \in [Workers -> Job] /\ job' \in [Workers -> Job] /\ job'[w] = j
        /\ \A v \in Workers : v # w => job'[v] = job[v]
    BY DEF TypeInv, TypeOK
  <1>2. /\ Cardinality(Inserts') \in Nat
        /\ Cardinality(Inserts') = Cardinality(Inserts) + InsertNeed(j) - InsertNeed(job[w])
    BY <1>1, RoomEnough, InsertsStep
  <1>3. /\ Cardinality(Pending') \in Nat
        /\ Cardinality(Pending') = Cardinality(Pending) + HashNeed(j) - HashNeed(job[w])
    BY <1>1, RoomEnough, PendingStep
  <1>4. /\ nextUser \in Nat /\ MaxUsers \in Nat /\ nextHash \in Nat /\ MaxHashes \in Nat
        /\ Cardinality(Inserts) \in Nat /\ Cardinality(Pending) \in Nat
        /\ \A k : InsertNeed(k) \in 0..1 /\ HashNeed(k) \in 0..1
    BY ConstantsAssumption, RoomEnough DEF TypeInv, TypeOK, InsertNeed, HashNeed
  <1>5. /\ nextUser' + Cardinality(Inserts') <= MaxUsers + 1
        /\ nextHash' + Cardinality(Pending') <= MaxHashes + 1
    <2>1. nextUser' + Cardinality(Inserts') <= MaxUsers + 1
      <3>1. CASE nextUser' + InsertNeed(j) <= nextUser + InsertNeed(job[w])
        BY <1>2, <1>4, <3>1 DEF TypeInv, RoomInv
      <3>2. CASE nextUser' = nextUser /\ RoomForUser
        BY <1>2, <1>4, <3>2, RoomEnough
      <3> QED
        BY <3>1, <3>2
    <2>2. nextHash' + Cardinality(Pending') <= MaxHashes + 1
      <3>1. CASE nextHash' + HashNeed(j) <= nextHash + HashNeed(job[w])
        BY <1>3, <1>4, <3>1 DEF TypeInv, RoomInv
      <3>2. CASE nextHash' = nextHash /\ RoomForHash
        BY <1>3, <1>4, <3>2, RoomEnough
      <3> QED
        BY <3>1, <3>2
    <2> QED
      BY <2>1, <2>2
  <1> QED
    BY <1>1, <1>2, <1>3, <1>4, <1>5 DEF TypeInv, RoomInv, Shape

\* The rest of the types.
TablesOK ==
    /\ scenario \in Scenarios
    /\ orgs \in [OrgIds -> OrgNames \cup {NoRow}]
    /\ groups \subseteq Groups
    /\ nextOrg \in 1..(MaxOrgs + 1)
    /\ users \in [UserIds -> Row \cup {NoRow}]
    /\ member \in [UserIds -> SUBSET Groups]
    /\ invited \subseteq Emails
    /\ links \subseteq LinkType
    /\ approved \subseteq UserIds
    /\ regrouped \subseteq UserIds
    /\ promised \in [UserIds -> {Raw} \cup Hashes]
    /\ spent \subseteq LinkType

LEMMA StepTypes ==
  ASSUME TypeInv, NEW w \in Workers, NEW j \in Job, Shape(j),
         job' = [job EXCEPT ![w] = j], TablesOK',
         nextUser' \in Nat \ {0}, nextHash' \in Nat \ {0},
         \/ nextUser' + InsertNeed(j) <= nextUser + InsertNeed(job[w])
         \/ nextUser' = nextUser /\ RoomForUser,
         \/ nextHash' + HashNeed(j) <= nextHash + HashNeed(job[w])
         \/ nextHash' = nextHash /\ RoomForHash
  PROVE  TypeInv'
  <1>1. /\ job' \in [Workers -> Job]
        /\ \A v \in Workers : Shape(job'[v])
        /\ RoomInv'
        /\ nextUser' \in 1..(MaxUsers + 1)
        /\ nextHash' \in 1..(MaxHashes + 1)
    BY JobStep
  <1>2. (\A v \in Workers : Shape(job[v]))'
    BY <1>1 DEF Shape
  <1> QED
    BY <1>1, <1>2 DEF TypeInv, TypeOK, TablesOK

\* A step that only moves its job on, to one that needs no more room.
LEMMA JobOnly ==
  ASSUME TypeInv, NEW w \in Workers, NEW j \in Job, Shape(j),
         job' = [job EXCEPT ![w] = j],
         UNCHANGED <<orgTables, userTables, sent, history>>,
         InsertNeed(j) <= InsertNeed(job[w]) \/ RoomForUser,
         HashNeed(j) <= HashNeed(job[w]) \/ RoomForHash
  PROVE  TypeInv'
  <1>1. TablesOK'
    BY DEF TypeInv, TypeOK, TablesOK, orgTables, userTables, sent, history
  <1>2. nextUser' = nextUser /\ nextUser \in Nat \ {0} /\ nextHash' = nextHash /\ nextHash \in Nat \ {0}
    BY DEF TypeInv, TypeOK, userTables
  <1>3. \A k : InsertNeed(k) \in 0..1 /\ HashNeed(k) \in 0..1
    BY DEF InsertNeed, HashNeed
  <1>4. \/ nextUser' + InsertNeed(j) <= nextUser + InsertNeed(job[w])
        \/ nextUser' = nextUser /\ RoomForUser
    BY <1>2, <1>3
  <1>5. \/ nextHash' + HashNeed(j) <= nextHash + HashNeed(job[w])
        \/ nextHash' = nextHash /\ RoomForHash
    BY <1>2, <1>3
  <1> QED
    BY <1>1, <1>2, <1>4, <1>5, StepTypes

\* A step of no job.
LEMMA NoJobStep ==
  ASSUME TypeInv, UNCHANGED <<job, nextUser, nextHash>>, TablesOK'
  PROVE  TypeInv'
  <1>1. RoomInv'
    BY DEF TypeInv, RoomInv, Inserts, Pending, WillInsert, WillHash
  <1>2. (\A v \in Workers : Shape(job[v]))'
    BY DEF TypeInv, Shape
  <1> QED
    BY <1>1, <1>2 DEF TypeInv, TypeOK, TablesOK

\* The idle job, with either answer.
LEMMA Ended ==
  ASSUME NEW a \in {"none", "ok"}
  PROVE  /\ NoJob \in Job
         /\ [NoJob EXCEPT !.answer = a] \in Job
         /\ Shape(NoJob) /\ Shape([NoJob EXCEPT !.answer = a])
         /\ \A j : j = NoJob \/ j = [NoJob EXCEPT !.answer = a]
                => InsertNeed(j) = 0 /\ HashNeed(j) = 0
  <1>1. NoJob \in Job /\ [NoJob EXCEPT !.answer = a] \in Job
    BY DEF NoJob, Job
  <1>2. NoJob.op = "idle" /\ [NoJob EXCEPT !.answer = a].op = "idle"
    BY DEF NoJob
  <1>3. \A j : j.op = "idle" => Shape(j) /\ InsertNeed(j) = 0 /\ HashNeed(j) = 0
    BY DEF Shape, InsertNeed, HashNeed, WillInsert, WillHash
  <1> QED
    BY <1>1, <1>2, <1>3

LEMMA EndStep ==
  ASSUME TypeInv, NEW w \in Workers, Ok(w) \/ Fail(w), TablesOK',
         UNCHANGED nextUser, nextHash' \in Nat \ {0},
         nextHash' <= nextHash + HashNeed(job[w])
  PROVE  TypeInv'
  <1>1. PICK j \in Job : /\ Shape(j) /\ InsertNeed(j) = 0 /\ HashNeed(j) = 0
                         /\ job' = [job EXCEPT ![w] = j]
    BY Ended DEF Ok, Fail
  <1>2. /\ nextUser \in Nat \ {0} /\ nextHash \in Nat \ {0}
        /\ \A k : InsertNeed(k) \in 0..1 /\ HashNeed(k) \in 0..1
    BY DEF TypeInv, TypeOK, InsertNeed, HashNeed
  <1>3. nextUser' + InsertNeed(j) <= nextUser + InsertNeed(job[w])
    BY <1>1, <1>2
  <1>4. nextHash' + HashNeed(j) <= nextHash + HashNeed(job[w])
    BY <1>1, <1>2
  <1> QED
    BY <1>1, <1>2, <1>3, <1>4, StepTypes

-----------------------------------------------------------------------------
(* Requests keep the types.                                                *)

LEMMA RegisterTypes ==
  ASSUME TypeInv, NEW w \in Workers, NEW n \in Usernames, NEW e \in Emails,
         NEW o \in OrgNames, NEW t \in BOOLEAN, NEW gs \in GroupLists,
         Register(w, n, e, o, t, gs)
  PROVE  TypeInv'
  <1> DEFINE row == [name |-> n, email |-> e, org |-> 1, active |-> FALSE, pw |-> Raw]
             j == [NoJob EXCEPT !.op = "register", !.stage = "getOrg", !.orgName = o,
                                !.token = t, !.wants = gs, !.row = row]
  <1>1. gs \in SUBSET Groups
    BY DEF GroupLists, TypeInv, TypeOK
  <1>2. 1 \in OrgIds
    <2>1. MaxOrgs # 0
      <3>1. IsFiniteSet(Inserting) /\ Cardinality(Inserting) \in Nat
        BY RoomEnough DEF Inserting, Inserts, WillInsert
      <3> QED
        BY <3>1, ConstantsAssumption DEF Register, RoomForOrg, Named, OrgIds, TypeInv, TypeOK
    <2> QED
      BY <2>1, ConstantsAssumption DEF OrgIds
  <1>3. row \in Row
    BY <1>2 DEF Row, Raw
  <1>4. j \in Job
    BY <1>1, <1>3 DEF Job, NoJob
  <1>5. j.op = "register" /\ j.stage = "getOrg" /\ j.orgName = o /\ j.row = row
    BY DEF NoJob
  <1>6. Shape(j)
    BY <1>3, <1>5 DEF Shape
  <1>7. job' = [job EXCEPT ![w] = j]
    BY DEF Register
  <1> HIDE DEF j
  <1> QED
    BY <1>4, <1>6, <1>7, JobOnly DEF Register

LEMMA StartConfirmTypes ==
  ASSUME TypeInv, NEW w \in Workers, NEW l \in links, StartConfirm(w, l)
  PROVE  TypeInv'
  <1> DEFINE j == [NoJob EXCEPT !.op = "confirm", !.stage = "save",
                                !.user = l[1], !.row = users[l[1]]]
  <1>1. l[1] \in UserIds /\ users[l[1]] \in Row
    BY DEF TypeInv, TypeOK, LinkType, StartConfirm, Exists
  <1>2. j \in Job
    BY <1>1 DEF Job, NoJob
  <1>3. j.op = "confirm" /\ j.user = l[1] /\ j.row = users[l[1]]
    BY DEF NoJob
  <1>4. Shape(j) /\ InsertNeed(j) <= InsertNeed(job[w])
    BY <1>1, <1>3 DEF Shape, InsertNeed, WillInsert
  <1>5. job' = [job EXCEPT ![w] = j]
    BY DEF StartConfirm
  <1> HIDE DEF j
  <1> QED
    BY <1>2, <1>4, <1>5, JobOnly DEF StartConfirm

LEMMA StartProfileTypes ==
  ASSUME TypeInv, NEW w \in Workers, NEW u \in UserIds, NEW o \in OrgNames,
         NEW p \in BOOLEAN, StartProfile(w, u, o, p)
  PROVE  TypeInv'
  <1> DEFINE f == IF p THEN {"password"} ELSE {}
             j == [NoJob EXCEPT !.op = "profile", !.stage = "findOrg", !.orgName = o,
                                !.user = u, !.row = users[u], !.fields = f]
  <1>1. users[u] \in Row /\ f \in SUBSET Fields
    BY DEF TypeInv, TypeOK, StartProfile, Exists, Fields
  <1>2. j \in Job
    BY <1>1 DEF Job, NoJob
  <1>3. j.op = "profile" /\ j.user = u /\ j.row = users[u] /\ j.orgName = o /\ j.fields = f
    BY DEF NoJob
  <1>4. Shape(j) /\ InsertNeed(j) <= InsertNeed(job[w])
    BY <1>1, <1>3 DEF Shape, InsertNeed, WillInsert
  <1>5. HashNeed(j) <= HashNeed(job[w]) \/ RoomForHash
    BY <1>3 DEF HashNeed, WillHash, WillInsert, StartProfile
  <1>6. job' = [job EXCEPT ![w] = j]
    BY DEF StartProfile
  <1> HIDE DEF j
  <1> QED
    BY <1>2, <1>4, <1>5, <1>6, JobOnly DEF StartProfile

\* A patched row is a row.
LEMMA PatchedType ==
  ASSUME TypeInv, NEW u \in UserIds, Exists(u), NEW fs, NEW n \in Usernames,
         NEW e \in Emails, NEW a \in BOOLEAN
  PROVE  /\ users[u] \in Row /\ PatchedRow(u, fs, n, e, a) \in Row
         /\ PatchedRow(u, fs, n, e, a).org = users[u].org
         /\ PatchedRow(u, fs, n, e, a).name = IF "username" \in fs THEN n ELSE users[u].name
         /\ PatchedRow(u, fs, n, e, a).email = IF "email" \in fs THEN e ELSE users[u].email
         /\ PatchedRow(u, fs, n, e, a).active = IF "active" \in fs THEN a ELSE users[u].active
         /\ PatchedRow(u, fs, n, e, a).pw = IF "password" \in fs THEN Raw ELSE users[u].pw
  <1>1. users[u] \in Row
    BY DEF TypeInv, TypeOK, Exists
  <1> QED
    BY <1>1 DEF PatchedRow, Row

LEMMA StartPatchTypes ==
  ASSUME TypeInv, NEW w \in Workers, NEW u \in UserIds, NEW fs \in Patches,
         NEW n \in Usernames, NEW e \in Emails, NEW a \in BOOLEAN, NEW gs \in GroupLists,
         StartPatch(w, u, fs, n, e, a, gs)
  PROVE  TypeInv'
  <1> DEFINE row == PatchedRow(u, fs, n, e, a)
  <1>1. gs \in SUBSET Groups /\ row \in Row /\ fs \in SUBSET Fields
    BY PatchedType, ConstantsAssumption DEF GroupLists, TypeInv, TypeOK, StartPatch
  <1> HIDE DEF row
  <1> DEFINE j == [NoJob EXCEPT !.op = "patch", !.stage = "save", !.user = u,
                                !.fields = fs, !.wants = gs, !.row = row]
  <1>2. job' = [job EXCEPT ![w] = j]
    BY DEF StartPatch, row
  <1>3. j \in Job
    BY <1>1 DEF Job, NoJob
  <1>4. j.op = "patch" /\ j.user = u /\ j.row = row /\ j.fields = fs
    BY DEF NoJob
  <1>5. /\ Shape(j) /\ InsertNeed(j) <= InsertNeed(job[w])
        /\ HashNeed(j) <= HashNeed(job[w])
    BY <1>1, <1>4 DEF Shape, InsertNeed, HashNeed, WillHash, WillInsert
  <1> HIDE DEF j
  <1> QED
    BY <1>2, <1>3, <1>5, JobOnly DEF StartPatch

LEMMA StartPutOrgTypes ==
  ASSUME TypeInv, NEW w \in Workers, NEW x \in OrgIds, NEW o \in OrgNames,
         StartPutOrg(w, x, o)
  PROVE  TypeInv'
  <1> DEFINE j == [NoJob EXCEPT !.op = "orgput", !.stage = "save", !.org = x, !.orgName = o]
  <1>1. j \in Job
    BY DEF Job, NoJob
  <1>2. j.op = "orgput" /\ j.org = x /\ j.orgName = o
    BY DEF NoJob
  <1>3. /\ Shape(j) /\ InsertNeed(j) <= InsertNeed(job[w])
        /\ HashNeed(j) <= HashNeed(job[w])
    BY <1>2 DEF Shape, InsertNeed, HashNeed, WillHash, WillInsert
  <1>4. job' = [job EXCEPT ![w] = j]
    BY DEF StartPutOrg
  <1> HIDE DEF j
  <1> QED
    BY <1>1, <1>3, <1>4, JobOnly DEF StartPutOrg

LEMMA CollectOrgTypes ==
  ASSUME TypeInv, NEW w \in Workers, NEW x \in OrgIds, CollectOrg(w, x)
  PROVE  TypeInv'
  <1> DEFINE us == {u \in UserIds : Exists(u) /\ users[u].org = x}
             j  == [NoJob EXCEPT !.op = "orgdelete", !.stage = "save", !.org = x, !.gone = us]
  <1>1. us \in SUBSET UserIds
    OBVIOUS
  <1>2. job' = [job EXCEPT ![w] = j]
    BY DEF CollectOrg
  <1> HIDE DEF us
  <1>3. j \in Job
    BY <1>1 DEF Job, NoJob
  <1>4. j.op = "orgdelete" /\ j.org = x
    BY DEF NoJob
  <1>5. /\ Shape(j) /\ InsertNeed(j) <= InsertNeed(job[w])
        /\ HashNeed(j) <= HashNeed(job[w])
    BY <1>4 DEF Shape, InsertNeed, HashNeed, WillHash, WillInsert
  <1> HIDE DEF j
  <1> QED
    BY <1>2, <1>3, <1>5, JobOnly DEF CollectOrg

LEMMA TableRequestTypes ==
  ASSUME TypeInv, NEW w \in Workers,
         \/ \E e \in Emails : Invite(w, e) \/ RequestReset(w, e)
         \/ \E o \in OrgNames : CreateOrg(w, o)
         \/ \E g \in Listed : DeleteGroup(w, g)
  PROVE  TypeInv'
  <1>1. CASE \E e \in Emails : Invite(w, e)
    BY <1>1, NoJobStep DEF Invite, TypeInv, TypeOK, TablesOK, orgTables, userTables, history
  <1>2. ASSUME NEW e \in Emails, RequestReset(w, e)  PROVE TypeInv'
    <2>1. PICK got \in SUBSET UserIds :
             /\ \A u \in got : Exists(u)
             /\ links' = links \cup {LinkFor(u, users[u]) : u \in got}
      BY <1>2 DEF RequestReset
    <2>2. \A u \in got : users[u] \in Row
      BY <2>1 DEF TypeInv, TypeOK, Exists
    <2>3. \A u \in got : LinkFor(u, users[u]) \in LinkType
      BY <2>2 DEF LinkFor, LinkType, Row
    <2>4. links' \subseteq LinkType
      BY <2>1, <2>3 DEF TypeInv, TypeOK
    <2> QED
      BY <1>2, <2>4, NoJobStep DEF RequestReset, TypeInv, TypeOK, TablesOK, orgTables, userTables, history
  <1>3. ASSUME NEW o \in OrgNames, CreateOrg(w, o)  PROVE TypeInv'
    <2>1. nextOrg \in OrgIds /\ nextOrg + 1 \in 1..(MaxOrgs + 1)
      BY <1>3, ConstantsAssumption DEF CreateOrg, InsertOrg, TypeInv, TypeOK, OrgIds
    <2>2. groups' \subseteq Groups
      BY <1>3, <2>1 DEF CreateOrg, InsertOrg, TypeInv, TypeOK, Groups
    <2> QED
      BY <1>3, <2>1, <2>2, NoJobStep DEF CreateOrg, InsertOrg, TypeInv, TypeOK, TablesOK, userTables, sent, history
  <1>4. ASSUME NEW g \in Listed, DeleteGroup(w, g)  PROVE TypeInv'
    BY <1>4, NoJobStep DEF DeleteGroup, TypeInv, TypeOK, TablesOK, sent, history
  <1> QED
    BY <1>1, <1>2, <1>3, <1>4

-----------------------------------------------------------------------------
(* The steps of requests keep the types.                                   *)

\* What a request has been given room for is there.
LEMMA RoomIsThere ==
  ASSUME TypeInv, NEW w \in Workers
  PROVE  /\ WillInsert(job[w]) => nextUser \in UserIds
         /\ WillHash(job[w]) => nextHash \in Hashes
  <1>1. /\ w \in Inserts <=> WillInsert(job[w])
        /\ w \in Pending <=> WillHash(job[w])
    BY DEF Inserts, Pending, WillInsert, WillHash
  <1>2. /\ IsFiniteSet(Inserts) /\ Cardinality(Inserts) \in Nat
        /\ IsFiniteSet(Pending) /\ Cardinality(Pending) \in Nat
    BY RoomEnough
  <1>3. /\ w \in Inserts => Cardinality(Inserts) >= 1
        /\ w \in Pending => Cardinality(Pending) >= 1
    BY <1>2, FS_EmptySet
  <1>4. /\ nextUser \in Nat \ {0} /\ nextHash \in Nat \ {0}
        /\ MaxUsers \in Nat /\ MaxHashes \in Nat
        /\ nextUser + Cardinality(Inserts) <= MaxUsers + 1
        /\ nextHash + Cardinality(Pending) <= MaxHashes + 1
    BY ConstantsAssumption DEF TypeInv, TypeOK, RoomInv
  <1> QED
    BY <1>1, <1>2, <1>3, <1>4 DEF UserIds, Hashes

LEMMA GetOrgTypes ==
  ASSUME TypeInv, NEW w \in Workers, GetOrg(w)
  PROVE  TypeInv'
  <1>1. job[w] \in Job /\ Shape(job[w])
    BY DEF TypeInv, TypeOK
  <1>2. CASE Goto(w, "makeOrg")
    <2> DEFINE j == [job[w] EXCEPT !.stage = "makeOrg"]
    <2>1. j \in Job /\ Shape(j) /\ job' = [job EXCEPT ![w] = j]
      BY <1>1, <1>2 DEF Job, Shape, GetOrg, At, Goto
    <2>2. InsertNeed(j) <= InsertNeed(job[w]) /\ HashNeed(j) <= HashNeed(job[w])
      BY <1>1 DEF InsertNeed, HashNeed, WillInsert, WillHash, GetOrg, At, Job
    <2> HIDE DEF j
    <2> QED
      BY <2>1, <2>2, JobOnly DEF GetOrg
  <1>3. ASSUME NEW x \in OrgIds, job' = [job EXCEPT ![w].org = x, ![w].stage = "insert"]
        PROVE  TypeInv'
    <2> DEFINE j == [job[w] EXCEPT !.org = x, !.stage = "insert"]
    <2>1. j \in Job /\ Shape(j) /\ job' = [job EXCEPT ![w] = j]
      BY <1>1, <1>3 DEF Job, Shape, GetOrg, At, TypeInv, TypeOK
    <2>2. InsertNeed(j) <= InsertNeed(job[w]) /\ HashNeed(j) <= HashNeed(job[w])
      BY <1>1 DEF InsertNeed, HashNeed, WillInsert, WillHash, GetOrg, At, Job
    <2> HIDE DEF j
    <2> QED
      BY <2>1, <2>2, JobOnly DEF GetOrg
  <1>4. CASE Fail(w)
    <2>1. TablesOK' /\ UNCHANGED <<nextUser, nextHash>>
      BY DEF GetOrg, TypeInv, TypeOK, TablesOK, orgTables, userTables, sent, history
    <2>2. nextHash \in Nat \ {0} /\ HashNeed(job[w]) \in 0..1
      BY DEF TypeInv, TypeOK, HashNeed
    <2> QED
      BY <1>4, <2>1, <2>2, EndStep
  <1> QED
    BY <1>2, <1>3, <1>4 DEF GetOrg

LEMMA MakeOrgTypes ==
  ASSUME TypeInv, NEW w \in Workers, MakeOrg(w)
  PROVE  TypeInv'
  <1>1. job[w] \in Job /\ Shape(job[w])
    BY DEF TypeInv, TypeOK
  <1>2. nextOrg \in OrgIds /\ nextOrg + 1 \in 1..(MaxOrgs + 1)
    BY ConstantsAssumption DEF MakeOrg, InsertOrg, TypeInv, TypeOK, OrgIds
  <1> DEFINE j == [job[w] EXCEPT !.org = nextOrg, !.isNew = TRUE, !.stage = "insert"]
  <1>3. j \in Job /\ Shape(j) /\ job' = [job EXCEPT ![w] = j]
    BY <1>1, <1>2 DEF Job, Shape, MakeOrg, At, TypeInv, TypeOK
  <1>4. InsertNeed(j) = InsertNeed(job[w]) /\ HashNeed(j) = HashNeed(job[w])
    BY <1>1 DEF InsertNeed, HashNeed, WillInsert, WillHash, MakeOrg, At, Job
  <1>5. groups' \subseteq Groups
    BY <1>2 DEF MakeOrg, InsertOrg, TypeInv, TypeOK, Groups
  <1>6. orgs' \in [OrgIds -> OrgNames \cup {NoRow}]
    BY <1>1, <1>2 DEF MakeOrg, InsertOrg, TypeInv, TypeOK, Shape, At
  <1>7. TablesOK' /\ UNCHANGED <<nextUser, nextHash>>
    BY <1>2, <1>5, <1>6 DEF MakeOrg, InsertOrg, TypeInv, TypeOK, TablesOK, userTables, sent, history
  <1>8. nextUser \in Nat \ {0} /\ nextHash \in Nat \ {0}
        /\ InsertNeed(j) \in Nat /\ HashNeed(j) \in Nat
    BY DEF TypeInv, TypeOK, InsertNeed, HashNeed
  <1> HIDE DEF j
  <1>9. /\ nextUser' + InsertNeed(j) <= nextUser + InsertNeed(job[w])
        /\ nextHash' + HashNeed(j) <= nextHash + HashNeed(job[w])
    BY <1>4, <1>7, <1>8
  <1> QED
    BY <1>3, <1>7, <1>8, <1>9, StepTypes

LEMMA InsertUserTypes ==
  ASSUME TypeInv, NEW w \in Workers, InsertUser(w)
  PROVE  TypeInv'
  <1>1. job[w] \in Job /\ Shape(job[w]) /\ nextUser \in UserIds
    BY RoomIsThere DEF TypeInv, TypeOK, InsertUser, At, WillInsert
  <1>2. /\ nextUser \in Nat \ {0} /\ nextHash \in Nat \ {0} /\ nextHash' = nextHash
        /\ HashNeed(job[w]) = 1 /\ InsertNeed(job[w]) = 1
    BY DEF TypeInv, TypeOK, InsertUser, At, HashNeed, InsertNeed, WillHash, WillInsert
  <1> DEFINE row == NewRow(job[w])
  <1>3. row \in Row
    BY <1>1 DEF NewRow, Row, Shape, InsertUser, At, Job
  <1> HIDE DEF row
  <1>4. CASE CanStore(nextUser, row)
    <2> DEFINE j == [job[w] EXCEPT !.user = nextUser, !.row = row, !.stage = "defaultGroups"]
    <2>1. job' = [job EXCEPT ![w] = j]
      BY <1>4 DEF InsertUser, TypeInv, TypeOK, row
    <2>2. j \in Job
      BY <1>1, <1>3 DEF Job
    <2>3. /\ j.op = "register" /\ j.stage = "defaultGroups" /\ j.row = row
          /\ j.user = nextUser /\ j.orgName = job[w].orgName /\ j.org = job[w].org
      BY <1>1 DEF InsertUser, At, Job
    <2>4. Shape(j)
      BY <1>1, <1>3, <2>3 DEF Shape, InsertUser, At
    <2>5. InsertNeed(j) = 0 /\ HashNeed(j) = 1
      BY <2>3 DEF InsertNeed, HashNeed, WillInsert, WillHash
    <2>6. nextUser' = nextUser + 1 /\ nextUser' \in Nat \ {0}
      BY <1>2, <1>4 DEF InsertUser, row
    <2>7. TablesOK'
      BY <1>1, <1>3, <1>4 DEF InsertUser, TypeInv, TypeOK, TablesOK, orgTables, sent, row
    <2> HIDE DEF j
    <2>8. /\ nextUser' + InsertNeed(j) <= nextUser + InsertNeed(job[w])
          /\ nextHash' + HashNeed(j) <= nextHash + HashNeed(job[w])
      BY <1>2, <2>5, <2>6
    <2> QED
      BY <1>2, <2>1, <2>2, <2>4, <2>6, <2>7, <2>8, StepTypes
  <1>5. CASE ~CanStore(nextUser, row)
    <2>1. TablesOK' /\ Fail(w) /\ UNCHANGED nextUser
      BY <1>5 DEF InsertUser, TypeInv, TypeOK, TablesOK, orgTables, sent, row
    <2> QED
      BY <1>2, <2>1, EndStep
  <1> QED
    BY <1>4, <1>5

LEMMA JoinStepTypes ==
  ASSUME TypeInv, NEW w \in Workers,
         \/ AddDefaultGroups(w)
         \/ AddAdminGroup(w)
         \/ \E g \in Listed : AddRequestedGroup(w, g)
  PROVE  TypeInv'
  <1>1. /\ job[w] \in Job /\ Shape(job[w]) /\ job[w].op = "register"
        /\ job[w].stage \in {"joinDefaults", "adminGroup", "addGroups"}
        /\ job[w].user \in UserIds /\ job[w].org \in OrgIds
    BY DEF TypeInv, TypeOK, AddDefaultGroups, AddAdminGroup, AddRequestedGroup, At, Shape
  <1>2. /\ UNCHANGED <<orgTables, users, nextUser, nextHash, sent, history>>
        /\ nextUser \in Nat \ {0} /\ nextHash \in Nat \ {0}
        /\ InsertNeed(job[w]) = 0 /\ HashNeed(job[w]) \in 0..1
    <2>1. UNCHANGED <<orgTables, users, nextUser, nextHash, sent, history>>
      BY DEF AddDefaultGroups, AddAdminGroup, AddRequestedGroup
    <2>2. nextUser \in Nat \ {0} /\ nextHash \in Nat \ {0}
      BY DEF TypeInv, TypeOK
    <2>3. InsertNeed(job[w]) = 0 /\ HashNeed(job[w]) \in 0..1
      BY <1>1 DEF InsertNeed, HashNeed, WillInsert
    <2> QED
      BY <2>1, <2>2, <2>3
  <1>3. member' \in [UserIds -> SUBSET Groups]
    BY <1>1, SentinelsAssumption
       DEF TypeInv, TypeOK, AddDefaultGroups, AddAdminGroup, AddRequestedGroup,
           JoinGroups, Groups
  <1>4. TablesOK'
    BY <1>2, <1>3 DEF TypeInv, TypeOK, TablesOK, orgTables, sent, history
  <1>5. CASE Fail(w)
    BY <1>2, <1>4, <1>5, EndStep
  <1>6. ASSUME NEW j \in Job, job' = [job EXCEPT ![w] = j],
               Shape(j), InsertNeed(j) = 0, HashNeed(j) <= HashNeed(job[w])
        PROVE  TypeInv'
    <2>1. HashNeed(j) \in 0..1
      BY DEF HashNeed
    <2>2. /\ nextUser' + InsertNeed(j) <= nextUser + InsertNeed(job[w])
          /\ nextHash' + HashNeed(j) <= nextHash + HashNeed(job[w])
          /\ nextUser' \in Nat \ {0} /\ nextHash' \in Nat \ {0}
      BY <1>2, <1>6, <2>1
    <2> QED
      BY <1>4, <1>6, <2>2, StepTypes
  <1>7. ASSUME NEW st \in {"password", "addGroups"}, Goto(w, st),
               st = "password" => job[w].stage = "joinDefaults"
        PROVE  TypeInv'
    <2> DEFINE j == [job[w] EXCEPT !.stage = st]
    <2>1. j \in Job /\ Shape(j) /\ job' = [job EXCEPT ![w] = j]
      BY <1>1, <1>7 DEF Job, Shape, Goto
    <2>2. InsertNeed(j) = 0 /\ HashNeed(j) <= HashNeed(job[w])
      BY <1>1, <1>7 DEF InsertNeed, HashNeed, WillInsert, WillHash, Job
    <2> HIDE DEF j
    <2> QED
      BY <1>6, <2>1, <2>2
  <1>8. ASSUME NEW g \in Listed, job' = [job EXCEPT ![w].wants = @ \ {g}]
        PROVE  TypeInv'
    <2> DEFINE j == [job[w] EXCEPT !.wants = @ \ {g}]
    <2>1. j \in Job /\ Shape(j) /\ job' = [job EXCEPT ![w] = j]
      BY <1>1, <1>8 DEF Job, Shape, TypeInv, TypeOK
    <2>2. InsertNeed(j) = 0 /\ HashNeed(j) <= HashNeed(job[w])
      BY <1>1 DEF InsertNeed, HashNeed, WillInsert, WillHash, Job
    <2> HIDE DEF j
    <2> QED
      BY <1>6, <2>1, <2>2
  <1> QED
    BY <1>5, <1>7, <1>8 DEF AddDefaultGroups, AddAdminGroup, AddRequestedGroup, JoinGroups, At

LEMMA SetPasswordTypes ==
  ASSUME TypeInv, NEW w \in Workers, SetPassword(w)
  PROVE  TypeInv'
  <1> DEFINE u   == job[w].user
             row == [job[w].row EXCEPT !.pw = nextHash]
  <1>1. job[w] \in Job /\ Shape(job[w]) /\ nextHash \in Hashes /\ nextHash \in Nat \ {0}
    BY RoomIsThere DEF TypeInv, TypeOK, SetPassword, At, WillHash
  <1>2. /\ job[w].op = "register" /\ job[w].stage = "password"
        /\ HashNeed(job[w]) = 1 /\ InsertNeed(job[w]) = 0
    BY DEF SetPassword, At, HashNeed, InsertNeed, WillHash, WillInsert
  <1>3. row \in Row /\ u \in UserIds
    BY <1>1, <1>2 DEF Row, Shape
  <1>4. nextHash' = nextHash + 1 /\ nextUser' = nextUser /\ nextUser \in Nat \ {0}
    BY DEF SetPassword, TypeInv, TypeOK
  <1>5. TablesOK'
    BY <1>3 DEF SetPassword, SaveUser, TypeInv, TypeOK, TablesOK, orgTables, sent, history
  <1>6. CASE Fail(w)
    BY <1>1, <1>2, <1>4, <1>5, <1>6, EndStep
  <1>7. CASE job' = [job EXCEPT ![w].row = row, ![w].stage = "mail"]
    <2> DEFINE j == [job[w] EXCEPT !.row = row, !.stage = "mail"]
    <2>1. job' = [job EXCEPT ![w] = j]
      BY <1>7 DEF TypeInv, TypeOK
    <2>2. j \in Job
      BY <1>1, <1>3 DEF Job
    <2>3. /\ j.op = "register" /\ j.stage = "mail" /\ j.row = row
          /\ j.user = u /\ j.orgName = job[w].orgName /\ j.org = job[w].org
      BY <1>1, <1>2 DEF Job
    <2>4. Shape(j)
      BY <1>1, <1>2, <1>3, <2>3 DEF Shape
    <2>5. InsertNeed(j) = 0 /\ HashNeed(j) = 0
      BY <2>3 DEF InsertNeed, HashNeed, WillInsert, WillHash
    <2> HIDE DEF j
    <2>6. /\ nextUser' + InsertNeed(j) <= nextUser + InsertNeed(job[w])
          /\ nextHash' + HashNeed(j) <= nextHash + HashNeed(job[w])
          /\ nextHash' \in Nat \ {0} /\ nextUser' \in Nat \ {0}
      BY <1>1, <1>2, <1>4, <2>5
    <2> QED
      BY <1>5, <2>1, <2>2, <2>4, <2>6, StepTypes
  <1> QED
    BY <1>6, <1>7 DEF SetPassword

\* Steps that change nothing but their job, and end it or move it to another
\* stage.
LEMMA MoveTypes ==
  ASSUME TypeInv, NEW w \in Workers,
         \/ FindDefaultGroups(w)
         \/ SendApproval(w)
         \/ FindProfileOrg(w)
         \/ Timeout(w)
  PROVE  TypeInv'
  <1>1. job[w] \in Job /\ Shape(job[w]) /\ UNCHANGED <<orgTables, userTables, sent, history>>
    BY DEF TypeInv, TypeOK, FindDefaultGroups, SendApproval, FindProfileOrg, Timeout
  <1>2. CASE Fail(w)
    <2>1. TablesOK' /\ UNCHANGED <<nextUser, nextHash>>
      BY <1>1 DEF TypeInv, TypeOK, TablesOK, orgTables, userTables, sent, history
    <2>2. nextHash \in Nat \ {0} /\ HashNeed(job[w]) \in 0..1
      BY DEF TypeInv, TypeOK, HashNeed
    <2> QED
      BY <1>2, <2>1, <2>2, EndStep
  <1>3. ASSUME NEW st \in {"joinDefaults", "password", "adminGroup", "addGroups", "save"},
               Goto(w, st),
               \/ /\ job[w].op = "register" /\ job[w].stage = "mail"
                  /\ st \in {"adminGroup", "addGroups"}
               \/ /\ job[w].op = "register" /\ job[w].stage = "defaultGroups"
                  /\ st \in {"joinDefaults", "password"}
               \/ job[w].op = "profile" /\ st = "save"
        PROVE  TypeInv'
    <2> DEFINE j == [job[w] EXCEPT !.stage = st]
    <2>1. j \in Job /\ Shape(j) /\ job' = [job EXCEPT ![w] = j]
      BY <1>1, <1>3 DEF Job, Shape, Goto
    <2>2. InsertNeed(j) <= InsertNeed(job[w]) /\ HashNeed(j) <= HashNeed(job[w])
      BY <1>1, <1>3 DEF InsertNeed, HashNeed, WillInsert, WillHash, Job
    <2> HIDE DEF j
    <2> QED
      BY <1>1, <2>1, <2>2, JobOnly
  <1>4. ASSUME NEW x \in OrgIds, job[w].op = "profile",
               job' = [job EXCEPT ![w].row = [@ EXCEPT !.org = x], ![w].stage = "save"]
        PROVE  TypeInv'
    <2> DEFINE row == [job[w].row EXCEPT !.org = x]
               j   == [job[w] EXCEPT !.row = row, !.stage = "save"]
    <2>1. row \in Row
      BY <1>1, <1>4 DEF Row, Shape
    <2>2. job' = [job EXCEPT ![w] = j]
      BY <1>4 DEF TypeInv, TypeOK
    <2>3. j \in Job
      BY <1>1, <2>1 DEF Job
    <2>4. /\ j.op = "profile" /\ j.row = row /\ j.user = job[w].user
          /\ j.orgName = job[w].orgName /\ j.fields = job[w].fields
      BY <1>1, <1>4 DEF Job
    <2>5. Shape(j)
      BY <1>1, <1>4, <2>1, <2>4 DEF Shape
    <2>6. InsertNeed(j) <= InsertNeed(job[w]) /\ HashNeed(j) <= HashNeed(job[w])
      BY <1>4, <2>4 DEF InsertNeed, HashNeed, WillInsert, WillHash
    <2> HIDE DEF j
    <2> QED
      BY <1>1, <2>2, <2>3, <2>5, <2>6, JobOnly
  <1>5. CASE SendApproval(w)
    BY <1>2, <1>3, <1>5 DEF SendApproval, At
  <1>6. CASE FindProfileOrg(w)
    BY <1>3, <1>4, <1>6 DEF FindProfileOrg, At, Named
  <1>7. CASE FindDefaultGroups(w)
    BY <1>3, <1>7 DEF FindDefaultGroups, At
  <1> QED
    BY <1>2, <1>5, <1>6, <1>7 DEF Timeout

\* Steps that end the job, answered or not.
LEMMA LastTypes ==
  ASSUME TypeInv, NEW w \in Workers,
         \/ Registered(w)
         \/ ConfirmReset(w)
         \/ SaveProfile(w)
         \/ SetGroups(w)
         \/ SaveOrg(w)
         \/ DeleteOrg(w)
  PROVE  TypeInv'
  <1>1. /\ job[w] \in Job /\ Shape(job[w])
        /\ nextUser \in Nat \ {0} /\ nextHash \in Nat \ {0}
    BY DEF TypeInv, TypeOK
  <1>2. CASE Registered(w)
    <2>1. job[w].user \in UserIds /\ job[w].row \in Row
      BY <1>1, <1>2 DEF Registered, At, Shape
    <2>2. TablesOK' /\ UNCHANGED <<nextUser, nextHash>> /\ Ok(w) /\ HashNeed(job[w]) \in 0..1
      BY <1>2, <2>1 DEF Registered, TypeInv, TypeOK, TablesOK, orgTables, userTables, sent,
                        HashNeed, Row
    <2> QED
      BY <1>1, <2>2, EndStep
  <1>3. CASE ConfirmReset(w)
    <2>1. job[w].user \in UserIds /\ job[w].row \in Row /\ nextHash \in Hashes
      BY <1>1, <1>3, RoomIsThere DEF ConfirmReset, At, Shape, WillHash
    <2>2. [job[w].row EXCEPT !.pw = nextHash] \in Row
      BY <2>1 DEF Row
    <2>3. LinkFor(job[w].user, job[w].row) \in LinkType
      BY <2>1 DEF LinkFor, LinkType, Row
    <2>4. UNCHANGED <<orgTables, member, nextUser, sent, approved, regrouped>>
      BY <1>3 DEF ConfirmReset
    <2>5. users' \in [UserIds -> Row \cup {NoRow}]
      BY <1>3, <2>1, <2>2 DEF ConfirmReset, SaveUser, TypeInv, TypeOK
    <2>6. promised' \in [UserIds -> {Raw} \cup Hashes]
      <3>1. [job[w].row EXCEPT !.pw = nextHash].pw \in Hashes
        BY <2>1 DEF Row
      <3> QED
        BY <1>3, <2>1, <3>1 DEF ConfirmReset, TypeInv, TypeOK
    <2>7. spent' \subseteq LinkType
      BY <1>3, <2>3 DEF ConfirmReset, TypeInv, TypeOK
    <2>8. TablesOK'
      BY <2>4, <2>5, <2>6, <2>7 DEF TypeInv, TypeOK, TablesOK, orgTables, sent
    <2>9. HashNeed(job[w]) = 1 /\ nextHash' = nextHash + 1 /\ (Ok(w) \/ Fail(w))
      BY <1>3 DEF ConfirmReset, At, HashNeed, WillHash
    <2> QED
      BY <1>1, <2>4, <2>8, <2>9, EndStep
  <1>4. CASE SaveProfile(w)
    <2> DEFINE newPw == "password" \in job[w].fields
               row   == IF newPw THEN [job[w].row EXCEPT !.pw = nextHash] ELSE job[w].row
    <2>1. job[w].user \in UserIds /\ job[w].row \in Row /\ (newPw => nextHash \in Hashes)
      BY <1>1, <1>4, RoomIsThere DEF SaveProfile, At, Shape, WillHash
    <2>2. row \in Row
      BY <2>1 DEF Row
    <2>3. row.pw \in {Raw} \cup Hashes
      BY <2>2 DEF Row
    <2>4. UNCHANGED <<orgTables, member, nextUser, sent, approved, regrouped, spent>>
      BY <1>4 DEF SaveProfile
    <2>5. users' \in [UserIds -> Row \cup {NoRow}]
      BY <1>4, <2>1, <2>2 DEF SaveProfile, SaveUser, TypeInv, TypeOK
    <2>6. promised' \in [UserIds -> {Raw} \cup Hashes]
      BY <1>4, <2>1, <2>3 DEF SaveProfile, TypeInv, TypeOK
    <2>7. TablesOK'
      BY <2>4, <2>5, <2>6 DEF TypeInv, TypeOK, TablesOK, orgTables, sent
    <2>8. /\ nextHash' = IF newPw THEN nextHash + 1 ELSE nextHash
          /\ HashNeed(job[w]) = IF newPw THEN 1 ELSE 0
          /\ Ok(w) \/ Fail(w)
      BY <1>4 DEF SaveProfile, At, HashNeed, WillHash, WillInsert
    <2>9. nextHash' \in Nat \ {0} /\ nextHash' <= nextHash + HashNeed(job[w])
      BY <1>1, <2>8
    <2> QED
      BY <2>4, <2>7, <2>8, <2>9, EndStep
  <1>5. CASE SetGroups(w)
    <2>1. job[w].user \in UserIds /\ job[w].wants \subseteq Groups
      BY <1>1, <1>5 DEF SetGroups, At, Shape, Job
    <2>2. TablesOK' /\ UNCHANGED <<nextUser, nextHash>> /\ (Ok(w) \/ Fail(w))
      BY <1>5, <2>1 DEF SetGroups, TypeInv, TypeOK, TablesOK, orgTables, sent
    <2>3. HashNeed(job[w]) \in 0..1
      BY DEF HashNeed
    <2> QED
      BY <1>1, <2>2, <2>3, EndStep
  <1>6. CASE SaveOrg(w)
    <2>1. job[w].org \in OrgIds /\ job[w].orgName \in OrgNames
      BY <1>1, <1>6 DEF SaveOrg, At, Shape
    <2>2. TablesOK' /\ UNCHANGED <<nextUser, nextHash>> /\ Ok(w)
      BY <1>6, <2>1 DEF SaveOrg, TypeInv, TypeOK, TablesOK, userTables, sent, history
    <2>3. HashNeed(job[w]) \in 0..1
      BY DEF HashNeed
    <2> QED
      BY <1>1, <2>2, <2>3, EndStep
  <1>7. CASE DeleteOrg(w)
    <2>1. job[w].org \in OrgIds /\ job[w].gone \subseteq UserIds
      BY <1>1, <1>7 DEF DeleteOrg, At, Shape, Job
    <2>2. TablesOK' /\ UNCHANGED <<nextUser, nextHash>> /\ (Ok(w) \/ Fail(w))
      BY <1>7, <2>1 DEF DeleteOrg, TypeInv, TypeOK, TablesOK, sent
    <2>3. HashNeed(job[w]) \in 0..1
      BY DEF HashNeed
    <2> QED
      BY <1>1, <2>2, <2>3, EndStep
  <1> QED
    BY <1>2, <1>3, <1>4, <1>5, <1>6, <1>7

LEMMA SavePatchTypes ==
  ASSUME TypeInv, NEW w \in Workers, SavePatch(w)
  PROVE  TypeInv'
  <1>1. /\ job[w] \in Job /\ Shape(job[w]) /\ job[w].op = "patch"
        /\ job[w].user \in UserIds /\ job[w].row \in Row
        /\ nextUser \in Nat \ {0} /\ nextHash \in Nat \ {0}
    BY DEF TypeInv, TypeOK, SavePatch, At, Shape
  <1>2. UNCHANGED <<orgTables, member, nextUser, nextHash, sent, regrouped>>
    BY DEF SavePatch
  <1>3. users' \in [UserIds -> Row \cup {NoRow}]
    BY <1>1 DEF SavePatch, SaveUser, TypeInv, TypeOK
  <1>4. /\ approved' \subseteq UserIds
        /\ promised' \in [UserIds -> {Raw} \cup Hashes]
        /\ spent' \subseteq LinkType
    BY <1>1 DEF SavePatch, TypeInv, TypeOK
  <1>5. TablesOK'
    BY <1>2, <1>3, <1>4 DEF TypeInv, TypeOK, TablesOK, orgTables, sent
  <1>6. HashNeed(job[w]) = 0 /\ InsertNeed(job[w]) = 0
    BY <1>1 DEF HashNeed, InsertNeed, WillHash, WillInsert
  <1>7. CASE Ok(w) \/ Fail(w)
    BY <1>1, <1>2, <1>5, <1>6, <1>7, EndStep
  <1>8. CASE Goto(w, "setGroups")
    <2> DEFINE j == [job[w] EXCEPT !.stage = "setGroups"]
    <2>1. j \in Job /\ Shape(j) /\ job' = [job EXCEPT ![w] = j]
      BY <1>1, <1>8 DEF Job, Shape, Goto
    <2>2. InsertNeed(j) = 0 /\ HashNeed(j) = 0
      BY <1>1 DEF InsertNeed, HashNeed, WillInsert, WillHash, Job
    <2> HIDE DEF j
    <2>3. /\ nextUser' + InsertNeed(j) <= nextUser + InsertNeed(job[w])
          /\ nextHash' + HashNeed(j) <= nextHash + HashNeed(job[w])
          /\ nextHash' \in Nat \ {0} /\ nextUser' \in Nat \ {0}
      BY <1>1, <1>2, <1>6, <2>2
    <2> QED
      BY <1>5, <2>1, <2>3, StepTypes
  <1> QED
    BY <1>7, <1>8 DEF SavePatch

-----------------------------------------------------------------------------
(* Types.                                                                  *)

LEMMA InitTypes == Init => TypeInv
  <1> SUFFICES ASSUME Init PROVE TypeInv
    OBVIOUS
  <1>1. \A w \in Workers : job[w] = NoJob
    BY DEF Init
  <1>2. NoJob \in Job /\ Shape(NoJob) /\ NoJob.op = "idle"
    BY Ended DEF NoJob
  <1>3. TypeOK
    BY <1>2, ConstantsAssumption DEF Init, TypeOK, UserIds
  <1>4. Inserts = {} /\ Pending = {}
    BY <1>1, <1>2 DEF Inserts, Pending, WillInsert, WillHash
  <1>5. RoomInv
    BY <1>4, ConstantsAssumption, FS_EmptySet DEF Init, RoomInv
  <1> QED
    BY <1>1, <1>2, <1>3, <1>5 DEF TypeInv

LEMMA RequestTypes ==
  ASSUME TypeInv, NEW w \in Workers, Request(w)
  PROVE  TypeInv'
  BY RegisterTypes, StartConfirmTypes, StartProfileTypes, StartPatchTypes,
     StartPutOrgTypes, CollectOrgTypes, TableRequestTypes
     DEF Request

\* The steps of requests.
LEMMA StepOfTypes ==
  ASSUME TypeInv, NEW w \in Workers, Step(w) \/ Timeout(w)
  PROVE  TypeInv'
  BY GetOrgTypes, MakeOrgTypes, InsertUserTypes, JoinStepTypes, SetPasswordTypes,
     MoveTypes, LastTypes, SavePatchTypes DEF Step

LEMMA TypesStep == TypeInv /\ [Next]_vars => TypeInv'
  <1> SUFFICES ASSUME TypeInv, [Next]_vars PROVE TypeInv'
    OBVIOUS
  <1>1. CASE UNCHANGED vars
    BY <1>1, NoJobStep DEF vars, TypeInv, TypeOK, TablesOK
  <1>2. CASE Exhausted
    BY <1>1, <1>2 DEF Exhausted
  <1>3. ASSUME NEW w \in Workers, Request(w) \/ Step(w) \/ Timeout(w)  PROVE TypeInv'
    BY <1>3, RequestTypes, StepOfTypes
  <1> QED
    BY <1>1, <1>2, <1>3 DEF Next

LEMMA TypesHold == Spec => []TypeInv
  BY InitTypes, TypesStep, PTL DEF Spec

\* Rows, jobs and histories are what they are called, and requests under way have
\* room for what they insert (all writers of core/serializers.py and core/views).
THEOREM TypeCorrect == Spec => []TypeOK
  <1>1. TypeInv => TypeOK
    BY DEF TypeInv
  <1> QED
    BY <1>1, TypesHold, PTL

-----------------------------------------------------------------------------
(* References.  Each step does one of these to the tables.                 *)

tables == <<orgs, groups, users, member>>

OrgInserted ==
    /\ \E o \in OrgNames : InsertOrg(o)
    /\ UNCHANGED <<users, member>>

UserWritten ==
    /\ \E u \in UserIds, row \in Row : CanStore(u, row) /\ SaveUser(u, row)
    /\ UNCHANGED <<orgs, groups, member>>

GroupsWritten ==
    /\ \E u \in UserIds, gs \in SUBSET Groups :
          /\ gs = {} \/ (Exists(u) /\ gs \subseteq groups)
          /\ member' = [member EXCEPT ![u] = gs] \/ member' = [member EXCEPT ![u] = @ \cup gs]
    /\ UNCHANGED <<orgs, groups, users>>

OrgSaved ==
    /\ \E x \in OrgIds, o \in OrgNames : orgs' = [orgs EXCEPT ![x] = o]
    /\ UNCHANGED <<groups, users, member>>

OrgDeleted ==
    \E x \in OrgIds, gone \in SUBSET UserIds :
        /\ \A u \in UserIds \ gone : Exists(u) => users[u].org # x
        /\ orgs' = [orgs EXCEPT ![x] = NoRow]
        /\ groups' = {g \in groups : g[1] # x}
        /\ users' = [u \in UserIds |-> IF u \in gone THEN NoRow ELSE users[u]]
        /\ member' = [u \in UserIds |-> IF u \in gone THEN {}
                                        ELSE {g \in member[u] : g[1] # x}]

GroupDeleted == \E w \in Workers, g \in Listed : DeleteGroup(w, g)

LEMMA RequestEffects ==
  ASSUME TypeInv, NEW w \in Workers, Request(w)
  PROVE  UNCHANGED tables \/ OrgInserted \/ GroupDeleted
  <1>1. CASE \E n \in Usernames, e \in Emails, o \in OrgNames, t \in BOOLEAN,
                gs \in GroupLists : Register(w, n, e, o, t, gs)
    BY <1>1 DEF Register, tables, orgTables, userTables
  <1>2. CASE \E l \in links : StartConfirm(w, l)
    BY <1>2 DEF StartConfirm, tables, orgTables, userTables
  <1>3. CASE \E u \in UserIds, o \in OrgNames, p \in BOOLEAN : StartProfile(w, u, o, p)
    BY <1>3 DEF StartProfile, tables, orgTables, userTables
  <1>4. ASSUME NEW u, NEW fs, NEW n, NEW e, NEW a, NEW gs, StartPatch(w, u, fs, n, e, a, gs)
        PROVE  UNCHANGED tables
    BY <1>4 DEF StartPatch, tables, orgTables, userTables
  <1>5. CASE \E x \in OrgIds, o \in OrgNames : StartPutOrg(w, x, o)
    BY <1>5 DEF StartPutOrg, tables, orgTables, userTables
  <1>6. CASE \E e \in Emails : Invite(w, e) \/ RequestReset(w, e)
    BY <1>6 DEF Invite, RequestReset, tables, orgTables, userTables
  <1>7. CASE \E o \in OrgNames : CreateOrg(w, o)
    BY <1>7 DEF CreateOrg, OrgInserted, userTables
  <1>8. CASE \E x \in OrgIds : CollectOrg(w, x)
    BY <1>8 DEF CollectOrg, tables, orgTables, userTables
  <1>9. CASE \E g \in Listed : DeleteGroup(w, g)
    BY <1>9 DEF GroupDeleted
  <1> QED
    BY <1>1, <1>2, <1>3, <1>4, <1>5, <1>6, <1>7, <1>8, <1>9 DEF Request

\* The instance a job is about to save is a row of an existing key.
LEMMA Written ==
  ASSUME TypeInv, NEW w \in Workers, SetPassword(w) \/ ConfirmReset(w) \/ SaveProfile(w)
  PROVE  /\ job[w].user \in UserIds /\ job[w].row \in Row
         /\ \/ UNCHANGED users
            \/ \E row \in Row : /\ CanStore(job[w].user, row)
                                /\ SaveUser(job[w].user, row)
                                /\ row.active = job[w].row.active
         /\ UNCHANGED <<orgs, groups, member, approved>>
  <1>1. job[w] \in Job /\ Shape(job[w])
    BY DEF TypeInv, TypeOK
  <1>2. /\ job[w].user \in UserIds /\ job[w].row \in Row
        /\ "password" \in job[w].fields \/ ~SaveProfile(w) => nextHash \in Hashes
    BY <1>1, RoomIsThere DEF SetPassword, ConfirmReset, SaveProfile, At, Shape, WillHash
  <1> DEFINE row == [job[w].row EXCEPT !.pw = nextHash]
  <1>3. /\ nextHash \in Hashes => row \in Row
        /\ row.active = job[w].row.active
    BY <1>2 DEF Row
  <1>4. UNCHANGED <<orgs, groups, member, approved>>
    BY DEF SetPassword, ConfirmReset, SaveProfile, orgTables, history
  <1> HIDE DEF row
  <1>5. CASE SetPassword(w) \/ ConfirmReset(w)
    <2>1. nextHash \in Hashes
      BY <1>1, <1>5, RoomIsThere DEF SetPassword, ConfirmReset, At, WillHash
    <2> QED
      BY <1>2, <1>3, <1>4, <1>5, <2>1 DEF SetPassword, ConfirmReset, row
  <1>6. CASE SaveProfile(w)
    BY <1>2, <1>3, <1>4, <1>6 DEF SaveProfile, row
  <1> QED
    BY <1>5, <1>6

LEMMA StepEffects ==
  ASSUME TypeInv, NEW w \in Workers, Step(w) \/ Timeout(w)
  PROVE  \/ UNCHANGED tables \/ OrgInserted \/ UserWritten \/ GroupsWritten \/ OrgSaved
         \/ OrgDeleted
  <1>1. job[w] \in Job /\ Shape(job[w])
    BY DEF TypeInv, TypeOK
  <1>2. CASE \/ GetOrg(w) \/ FindDefaultGroups(w) \/ SendApproval(w) \/ Registered(w)
             \/ FindProfileOrg(w) \/ Timeout(w)
    BY <1>2 DEF GetOrg, FindDefaultGroups, SendApproval, Registered, FindProfileOrg, Timeout,
                tables, orgTables, userTables
  <1>3. CASE MakeOrg(w)
    BY <1>1, <1>3 DEF MakeOrg, OrgInserted, userTables, At, Shape
  <1>4. CASE InsertUser(w)
    <2>1. nextUser \in UserIds /\ NewRow(job[w]) \in Row
      BY <1>1, <1>4, RoomIsThere DEF InsertUser, At, WillInsert, NewRow, Row, Shape, Job
    <2> QED
      BY <1>4, <2>1 DEF InsertUser, UserWritten, SaveUser, tables, orgTables
  <1>5. CASE SetPassword(w) \/ ConfirmReset(w) \/ SaveProfile(w)
    BY <1>5, Written DEF UserWritten, tables
  <1>6. CASE SavePatch(w)
    BY <1>1, <1>6 DEF SavePatch, At, Shape, UserWritten, tables, orgTables
  <1>7. CASE AddDefaultGroups(w) \/ AddAdminGroup(w) \/ \E g \in Listed : AddRequestedGroup(w, g)
    <2>1. job[w].user \in UserIds /\ job[w].org \in OrgIds
      BY <1>1, <1>7 DEF AddDefaultGroups, AddAdminGroup, AddRequestedGroup, At, Shape
    <2>2. PICK gs \in SUBSET Groups :
             \/ UNCHANGED member
             \/ /\ gs = {} \/ (Exists(job[w].user) /\ gs \subseteq groups)
                /\ member' = [member EXCEPT ![job[w].user] = @ \cup gs]
      BY <1>7, <2>1, SentinelsAssumption
         DEF AddDefaultGroups, AddAdminGroup, AddRequestedGroup, JoinGroups, Groups,
             TypeInv, TypeOK
    <2>3. UNCHANGED <<orgs, groups, users>>
      BY <1>7 DEF AddDefaultGroups, AddAdminGroup, AddRequestedGroup, orgTables
    <2> QED
      BY <2>1, <2>2, <2>3 DEF GroupsWritten, tables
  <1>8. CASE SetGroups(w)
    BY <1>1, <1>8 DEF SetGroups, At, Shape, Job, GroupsWritten, tables, orgTables
  <1>9. CASE SaveOrg(w)
    BY <1>1, <1>9 DEF SaveOrg, At, Shape, OrgSaved, userTables
  <1>10. CASE DeleteOrg(w)
    BY <1>1, <1>10 DEF DeleteOrg, At, Shape, Job, OrgDeleted, tables
  <1> QED
    BY <1>2, <1>3, <1>4, <1>5, <1>6, <1>7, <1>8, <1>9, <1>10 DEF Step

LEMMA Effects ==
  ASSUME TypeInv, [Next]_vars
  PROVE  \/ UNCHANGED tables \/ OrgInserted \/ UserWritten \/ GroupsWritten \/ OrgSaved
         \/ OrgDeleted \/ GroupDeleted
  <1>1. CASE UNCHANGED vars \/ Exhausted
    BY <1>1 DEF Exhausted, vars, tables
  <1> QED
    BY <1>1, RequestEffects, StepEffects DEF Next

\* Every foreign key has its row.
ReferencesHold ==
    /\ \A u \in UserIds : Exists(u) => orgs[users[u].org] # NoRow
    /\ \A g \in groups : orgs[g[1]] # NoRow
    /\ \A u \in UserIds : member[u] \subseteq groups /\ (member[u] # {} => Exists(u))

LEMMA RefsStep ==
  ASSUME TypeInv, ReferencesHold, [Next]_vars
  PROVE  ReferencesHold'
  <1>1. /\ orgs \in [OrgIds -> OrgNames \cup {NoRow}] /\ groups \subseteq Groups
        /\ users \in [UserIds -> Row \cup {NoRow}] /\ member \in [UserIds -> SUBSET Groups]
        /\ NoRow \notin Row /\ NoRow \notin OrgNames /\ 0 \notin UserIds
        /\ \A g \in Groups : g[1] \in OrgIds
        /\ \A row \in Row : row.org \in OrgIds
    BY SentinelsAssumption DEF TypeInv, TypeOK, Groups, Row, UserIds
  <1>2. CASE UNCHANGED tables
    BY <1>2 DEF tables, ReferencesHold, Exists
  <1>3. CASE OrgInserted
    <2>1. PICK o \in OrgNames : InsertOrg(o)
      BY <1>3 DEF OrgInserted
    <2>2. nextOrg \in OrgIds
      BY <2>1, ConstantsAssumption DEF InsertOrg, TypeInv, TypeOK, OrgIds
    <2> QED
      BY <1>1, <1>3, <2>1, <2>2 DEF OrgInserted, InsertOrg, ReferencesHold, Exists
  <1>4. CASE UserWritten
    BY <1>1, <1>4 DEF UserWritten, CanStore, SaveUser, ReferencesHold, Exists
  <1>5. CASE GroupsWritten
    BY <1>1, <1>5 DEF GroupsWritten, ReferencesHold, Exists
  <1>6. CASE OrgSaved
    BY <1>1, <1>6 DEF OrgSaved, ReferencesHold, Exists
  <1>7. CASE OrgDeleted
    BY <1>1, <1>7 DEF OrgDeleted, ReferencesHold, Exists
  <1>8. CASE GroupDeleted
    BY <1>1, <1>8 DEF GroupDeleted, DeleteGroup, ReferencesHold, Exists
  <1> QED
    BY <1>2, <1>3, <1>4, <1>5, <1>6, <1>7, <1>8, Effects

LEMMA References == Spec => []ReferencesHold
  <1>1. Init => ReferencesHold
    BY DEF Init, ReferencesHold, Exists
  <1>2. TypeInv /\ ReferencesHold /\ [Next]_vars => ReferencesHold'
    BY RefsStep
  <1> QED
    BY <1>1, <1>2, TypesHold, PTL DEF Spec

-----------------------------------------------------------------------------
(* Approval.                                                               *)

\* An instance a request holds is active only if its user was approved, or the
\* request is the approval.
Vouched(j, S) ==
    /\ j.op \in {"patch", "profile", "confirm"} /\ j.row.active
          => j.user \in S \/ (j.op = "patch" /\ "active" \in j.fields)
    /\ j.op = "register" /\ j.stage \notin {"getOrg", "makeOrg", "insert"} /\ j.row.active
          => j.user \in S

ActiveInv ==
    /\ ActiveWasApproved
    /\ \A w \in Workers : Vouched(job[w], approved)

\* A step moves at most one job.
LEMMA ActiveJob ==
  ASSUME TypeInv, ActiveInv, NEW w \in Workers,
         approved \subseteq approved',
         \A v \in Workers : v # w => job'[v] = job[v],
         Vouched(job'[w], approved'), ActiveWasApproved'
  PROVE  ActiveInv'
  BY DEF ActiveInv, Vouched

\* One that changes neither users nor approvals.
LEMMA ActiveMove ==
  ASSUME TypeInv, ActiveInv, NEW w \in Workers, UNCHANGED <<users, approved>>,
         \A v \in Workers : v # w => job'[v] = job[v],
         Vouched(job'[w], approved)
  PROVE  ActiveInv'
  <1>1. ActiveWasApproved'
    BY DEF ActiveInv, ActiveWasApproved, Exists
  <1> QED
    BY <1>1, ActiveJob

LEMMA EndedIsVouched ==
  ASSUME TypeInv, NEW w \in Workers, Ok(w) \/ Fail(w), NEW S
  PROVE  Vouched(job'[w], S) /\ \A v \in Workers : v # w => job'[v] = job[v]
  BY DEF Ok, Fail, NoJob, Vouched, TypeInv, TypeOK

LEMMA ActiveRequest ==
  ASSUME TypeInv, ActiveInv, NEW w \in Workers, Request(w)
  PROVE  ActiveInv'
  <1>1. ASSUME NEW n, NEW e, NEW o, NEW t, NEW gs, Register(w, n, e, o, t, gs)
        PROVE  ActiveInv'
    <2>1. job'[w].op = "register" /\ job'[w].stage = "getOrg"
      BY <1>1 DEF Register, NoJob, TypeInv, TypeOK
    <2> QED
      BY <1>1, <2>1, ActiveMove DEF Register, Vouched, TypeInv, TypeOK, userTables, history
  <1>2. ASSUME NEW l \in links, StartConfirm(w, l)
        PROVE  ActiveInv'
    <2>1. /\ job'[w].op = "confirm" /\ job'[w].user = l[1] /\ job'[w].row = users[l[1]]
          /\ l[1] \in UserIds /\ Exists(l[1])
      BY <1>2 DEF StartConfirm, NoJob, TypeInv, TypeOK, LinkType
    <2> QED
      BY <1>2, <2>1, ActiveMove DEF StartConfirm, Vouched, TypeInv, TypeOK, userTables, history,
                                    ActiveInv, ActiveWasApproved
  <1>3. ASSUME NEW u \in UserIds, NEW o, NEW p, StartProfile(w, u, o, p)
        PROVE  ActiveInv'
    <2>1. /\ job'[w].op = "profile" /\ job'[w].user = u /\ job'[w].row = users[u] /\ Exists(u)
      BY <1>3 DEF StartProfile, NoJob, TypeInv, TypeOK
    <2> QED
      BY <1>3, <2>1, ActiveMove DEF StartProfile, Vouched, TypeInv, TypeOK, userTables, history,
                                    ActiveInv, ActiveWasApproved
  <1>4. ASSUME NEW u \in UserIds, NEW fs, NEW n \in Usernames, NEW e \in Emails,
               NEW a \in BOOLEAN, NEW gs, StartPatch(w, u, fs, n, e, a, gs)
        PROVE  ActiveInv'
    <2> DEFINE row == PatchedRow(u, fs, n, e, a)
    <2>1. Exists(u) /\ row.active = IF "active" \in fs THEN a ELSE users[u].active
      BY <1>4, PatchedType DEF StartPatch
    <2>2. job' = [job EXCEPT ![w] = [NoJob EXCEPT !.op = "patch", !.stage = "save",
                     !.user = u, !.fields = fs, !.wants = gs, !.row = row]]
      BY <1>4 DEF StartPatch
    <2> HIDE DEF row
    <2>3. job'[w].op = "patch" /\ job'[w].user = u /\ job'[w].row = row /\ job'[w].fields = fs
      BY <2>2 DEF NoJob, TypeInv, TypeOK
    <2>4. Vouched(job'[w], approved)
      BY <2>1, <2>3 DEF Vouched, ActiveInv, ActiveWasApproved
    <2>5. \A v \in Workers : v # w => job'[v] = job[v]
      BY <2>2 DEF TypeInv, TypeOK
    <2> QED
      BY <1>4, <2>4, <2>5, ActiveMove DEF StartPatch, userTables, history
  <1>5. ASSUME NEW x, NEW o, StartPutOrg(w, x, o)
        PROVE  ActiveInv'
    <2>1. job'[w].op = "orgput"
      BY <1>5 DEF StartPutOrg, NoJob, TypeInv, TypeOK
    <2> QED
      BY <1>5, <2>1, ActiveMove DEF StartPutOrg, Vouched, TypeInv, TypeOK, userTables, history
  <1>6. CASE \/ \E e \in Emails : Invite(w, e) \/ RequestReset(w, e)
             \/ \E o \in OrgNames : CreateOrg(w, o)
             \/ \E g \in Listed : DeleteGroup(w, g)
    <2>1. UNCHANGED <<users, approved, job>>
      BY <1>6 DEF Invite, RequestReset, CreateOrg, DeleteGroup, userTables, history
    <2> QED
      BY <2>1, ActiveMove DEF ActiveInv
  <1>7. ASSUME NEW x, CollectOrg(w, x)
        PROVE  ActiveInv'
    <2> DEFINE us == {u \in UserIds : Exists(u) /\ users[u].org = x}
    <2>1. job' = [job EXCEPT ![w] = [NoJob EXCEPT !.op = "orgdelete", !.stage = "save",
                                                  !.org = x, !.gone = us]]
      BY <1>7 DEF CollectOrg
    <2> HIDE DEF us
    <2>2. job'[w].op = "orgdelete"
      BY <2>1 DEF NoJob, TypeInv, TypeOK
    <2> QED
      BY <1>7, <2>1, <2>2, ActiveMove DEF CollectOrg, Vouched, TypeInv, TypeOK, userTables,
                                          history
  <1> QED
    BY <1>1, <1>2, <1>3, <1>4, <1>5, <1>6, <1>7 DEF Request

\* Rows that are written are active only if they may be.
LEMMA ActiveSave ==
  ASSUME TypeInv, ActiveInv, NEW u \in UserIds, NEW row \in Row,
         approved \subseteq approved', row.active => u \in approved',
         UNCHANGED users \/ SaveUser(u, row)
  PROVE  ActiveWasApproved'
  BY DEF TypeInv, TypeOK, ActiveInv, ActiveWasApproved, Exists, SaveUser

LEMMA ActiveInsert ==
  ASSUME TypeInv, ActiveInv, NEW w \in Workers, InsertUser(w)
  PROVE  ActiveInv'
  <1> DEFINE row == NewRow(job[w])
  <1>1. job[w] \in Job /\ Shape(job[w]) /\ nextUser \in UserIds
    BY RoomIsThere DEF TypeInv, TypeOK, InsertUser, At, WillInsert
  <1>2. row \in Row /\ row.active = (job[w].isNew \/ job[w].token)
    BY <1>1 DEF NewRow, Row, Shape, InsertUser, At, Job
  <1> HIDE DEF row
  <1>3. CASE CanStore(nextUser, row)
    <2>1. /\ SaveUser(nextUser, row)
          /\ approved' = IF job[w].isNew \/ job[w].token THEN approved \cup {nextUser}
                                                         ELSE approved
          /\ job' = [job EXCEPT ![w].user = nextUser, ![w].row = row, ![w].stage = "defaultGroups"]
      BY <1>3 DEF InsertUser, SaveUser, row
    <2>2. approved \subseteq approved' /\ (row.active => nextUser \in approved')
      BY <1>2, <2>1
    <2>3. ActiveWasApproved'
      BY <1>1, <1>2, <2>1, <2>2, ActiveSave
    <2>4. /\ job'[w].op = "register" /\ job'[w].user = nextUser /\ job'[w].row = row
          /\ \A v \in Workers : v # w => job'[v] = job[v]
      BY <1>1, <2>1 DEF TypeInv, TypeOK, InsertUser, At, Job
    <2> QED
      BY <2>2, <2>3, <2>4, ActiveJob DEF Vouched
  <1>4. CASE ~CanStore(nextUser, row)
    BY <1>4, EndedIsVouched, ActiveMove DEF InsertUser, row
  <1> QED
    BY <1>3, <1>4

LEMMA ActiveStep ==
  ASSUME TypeInv, ActiveInv, NEW w \in Workers, Step(w) \/ Timeout(w)
  PROVE  ActiveInv'
  <1>1. job[w] \in Job /\ Shape(job[w]) /\ Vouched(job[w], approved)
    BY DEF TypeInv, TypeOK, ActiveInv
  <1>2. ASSUME Ok(w) \/ Fail(w), UNCHANGED <<users, approved>>
        PROVE  ActiveInv'
    BY <1>2, EndedIsVouched, ActiveMove
  <1>3. ASSUME NEW st, Goto(w, st), UNCHANGED <<users, approved>>,
               job[w].op = "register" =>
                  job[w].stage \notin {"getOrg", "makeOrg", "insert"} \/ st = "makeOrg"
        PROVE  ActiveInv'
    <2>1. job'[w] = [job[w] EXCEPT !.stage = st] /\ \A v \in Workers : v # w => job'[v] = job[v]
      BY <1>3 DEF Goto, TypeInv, TypeOK
    <2>2. /\ job'[w].op = job[w].op /\ job'[w].row = job[w].row /\ job'[w].stage = st
          /\ job'[w].user = job[w].user /\ job'[w].fields = job[w].fields
      BY <1>1, <2>1 DEF Job
    <2> QED
      BY <1>1, <1>3, <2>1, <2>2, ActiveMove DEF Vouched
  <1>4. CASE GetOrg(w) \/ MakeOrg(w)
    <2>1. UNCHANGED <<users, approved>> /\ At(w, "register", job[w].stage)
      BY <1>4 DEF GetOrg, MakeOrg, At, userTables, history
    <2>2. CASE GetOrg(w) /\ Goto(w, "makeOrg")
      BY <1>3, <2>1, <2>2
    <2>3. CASE Fail(w)
      BY <1>2, <2>1, <2>3
    <2>4. CASE job'[w].op = "register" /\ job'[w].stage = "insert"
                  /\ \A v \in Workers : v # w => job'[v] = job[v]
      BY <2>1, <2>4, ActiveMove DEF Vouched
    <2>5. ASSUME NEW x, NEW b, job[w].op = "register",
                 \/ job' = [job EXCEPT ![w].org = x, ![w].stage = "insert"]
                 \/ job' = [job EXCEPT ![w].org = x, ![w].isNew = b, ![w].stage = "insert"]
          PROVE  ActiveInv'
      BY <1>1, <2>4, <2>5 DEF TypeInv, TypeOK, Job
    <2> QED
      BY <1>4, <2>2, <2>3, <2>5 DEF GetOrg, MakeOrg, At
  <1>5. CASE InsertUser(w)
    BY <1>5, ActiveInsert
  <1>6. CASE AddDefaultGroups(w) \/ AddAdminGroup(w) \/ \E g \in Listed : AddRequestedGroup(w, g)
    <2>1. /\ UNCHANGED <<users, approved>> /\ job[w].op = "register"
          /\ job[w].stage \notin {"getOrg", "makeOrg", "insert"}
      BY <1>6 DEF AddDefaultGroups, AddAdminGroup, AddRequestedGroup, At, history
    <2>2. \/ Fail(w)
          \/ \E st : Goto(w, st)
          \/ \E g \in Listed : job' = [job EXCEPT ![w].wants = @ \ {g}]
      BY <1>6 DEF AddDefaultGroups, AddAdminGroup, AddRequestedGroup, JoinGroups
    <2>3. ASSUME NEW g \in Listed, job' = [job EXCEPT ![w].wants = @ \ {g}]
          PROVE  ActiveInv'
      <3>1. /\ job'[w] = [job[w] EXCEPT !.wants = @ \ {g}]
            /\ \A v \in Workers : v # w => job'[v] = job[v]
        BY <2>3 DEF TypeInv, TypeOK
      <3>2. /\ job'[w].op = job[w].op /\ job'[w].row = job[w].row
            /\ job'[w].stage = job[w].stage /\ job'[w].user = job[w].user
        BY <1>1, <3>1 DEF Job
      <3> QED
        BY <1>1, <2>1, <3>1, <3>2, ActiveMove DEF Vouched
    <2> QED
      BY <1>2, <1>3, <2>1, <2>2, <2>3
  <1>7. CASE SetPassword(w) \/ ConfirmReset(w) \/ SaveProfile(w)
    <2>1. /\ job[w].user \in UserIds /\ job[w].row \in Row /\ UNCHANGED approved
          /\ \/ UNCHANGED users
             \/ \E row \in Row : /\ SaveUser(job[w].user, row)
                                 /\ row.active = job[w].row.active
      BY <1>7, Written
    <2>2. job[w].row.active => job[w].user \in approved
      BY <1>1, <1>7 DEF SetPassword, ConfirmReset, SaveProfile, At, Vouched
    <2>3. ActiveWasApproved'
      BY <2>1, <2>2, ActiveSave
    <2>4. CASE Ok(w) \/ Fail(w)
      BY <2>1, <2>3, <2>4, EndedIsVouched, ActiveJob
    <2>5. CASE SetPassword(w) /\ ~Fail(w)
      <3>1. job' = [job EXCEPT ![w].row = [job[w].row EXCEPT !.pw = nextHash], ![w].stage = "mail"]
        BY <2>5 DEF SetPassword
      <3>2. /\ job'[w].op = job[w].op /\ job'[w].user = job[w].user
            /\ job'[w].row = [job[w].row EXCEPT !.pw = nextHash] /\ job'[w].stage = "mail"
            /\ \A v \in Workers : v # w => job'[v] = job[v]
        BY <1>1, <3>1 DEF TypeInv, TypeOK, Job
      <3>3. job'[w].row.active = job[w].row.active
        BY <2>1, <3>2 DEF Row
      <3>4. Vouched(job'[w], approved')
        BY <2>1, <2>2, <3>2, <3>3 DEF Vouched
      <3> QED
        BY <2>1, <2>3, <3>2, <3>4, ActiveJob
    <2> QED
      BY <1>7, <2>4, <2>5 DEF SetPassword, ConfirmReset, SaveProfile
  <1>8. CASE SavePatch(w)
    <2>1. job[w].op = "patch" /\ job[w].user \in UserIds /\ job[w].row \in Row
      BY <1>1, <1>8 DEF SavePatch, At, Shape
    <2>2. CASE CanStore(job[w].user, job[w].row)
      <3>1. /\ SaveUser(job[w].user, job[w].row)
            /\ approved' = IF "active" \in job[w].fields /\ job[w].row.active
                           THEN approved \cup {job[w].user} ELSE approved
            /\ Goto(w, "setGroups") \/ Ok(w)
        BY <1>8, <2>2 DEF SavePatch
      <3>2. job[w].row.active => job[w].user \in approved'
        BY <1>1, <2>1, <3>1 DEF Vouched
      <3>3. approved \subseteq approved'
        BY <3>1
      <3>4. ActiveWasApproved'
        BY <2>1, <3>1, <3>2, <3>3, ActiveSave
      <3>5. CASE Ok(w)
        BY <3>3, <3>4, <3>5, EndedIsVouched, ActiveJob
      <3>6. CASE Goto(w, "setGroups")
        <4>1. /\ job'[w].op = "patch" /\ job'[w].row = job[w].row /\ job'[w].user = job[w].user
              /\ \A v \in Workers : v # w => job'[v] = job[v]
          BY <1>1, <2>1, <3>6 DEF Goto, TypeInv, TypeOK, Job
        <4> QED
          BY <3>2, <3>3, <3>4, <4>1, ActiveJob DEF Vouched
      <3> QED
        BY <3>1, <3>5, <3>6
    <2>3. CASE ~CanStore(job[w].user, job[w].row)
      BY <1>2, <1>8, <2>3 DEF SavePatch
    <2> QED
      BY <2>2, <2>3
  <1>9. CASE SendApproval(w) \/ FindDefaultGroups(w)
    BY <1>2, <1>3, <1>9 DEF SendApproval, FindDefaultGroups, At, userTables, history
  <1>10. CASE Registered(w) \/ SetGroups(w) \/ SaveOrg(w) \/ Timeout(w)
    BY <1>2, <1>10 DEF Registered, SetGroups, SaveOrg, Timeout, userTables, history
  <1>11. CASE FindProfileOrg(w)
    <2>1. /\ job[w].op = "profile" /\ UNCHANGED <<users, approved>>
          /\ job[w].row \in Row /\ job[w].user \in UserIds
      BY <1>1, <1>11 DEF FindProfileOrg, At, Shape, userTables, history
    <2>2. CASE Goto(w, "save")
      BY <1>3, <2>1, <2>2
    <2>3. ASSUME NEW x \in OrgIds,
                 job' = [job EXCEPT ![w].row = [@ EXCEPT !.org = x], ![w].stage = "save"]
          PROVE  ActiveInv'
      <3>1. /\ job'[w].op = "profile" /\ job'[w].user = job[w].user
            /\ job'[w].row = [job[w].row EXCEPT !.org = x]
            /\ \A v \in Workers : v # w => job'[v] = job[v]
        BY <1>1, <2>1, <2>3 DEF TypeInv, TypeOK, Job
      <3>2. job'[w].row.active = job[w].row.active
        BY <2>1, <3>1 DEF Row
      <3> QED
        BY <1>1, <2>1, <3>1, <3>2, ActiveMove DEF Vouched
    <2> QED
      BY <1>11, <2>2, <2>3 DEF FindProfileOrg, Named
  <1>12. CASE DeleteOrg(w)
    <2>1. UNCHANGED approved /\ (Ok(w) \/ Fail(w))
          /\ \A u \in UserIds : users'[u] = NoRow \/ users'[u] = users[u]
      BY <1>12 DEF DeleteOrg
    <2>2. ActiveWasApproved'
      BY <2>1 DEF ActiveInv, ActiveWasApproved, Exists
    <2> QED
      BY <2>1, <2>2, EndedIsVouched, ActiveJob
  <1> QED
    BY <1>4, <1>5, <1>6, <1>7, <1>8, <1>9, <1>10, <1>11, <1>12 DEF Step

\* However requests overlap and whatever stale rows they write, a user is active
\* only if it founded its organization, was invited, or was activated.
THEOREM Approval == Spec => []ActiveWasApproved
  <1>1. Init => ActiveInv
    BY DEF Init, ActiveInv, ActiveWasApproved, Exists, Vouched, NoJob
  <1>2. TypeInv /\ ActiveInv /\ [Next]_vars => ActiveInv'
    <2> SUFFICES ASSUME TypeInv, ActiveInv, [Next]_vars PROVE ActiveInv'
      OBVIOUS
    <2>1. CASE UNCHANGED vars \/ Exhausted
      BY <2>1 DEF Exhausted, vars, ActiveInv, ActiveWasApproved, Exists
    <2>2. ASSUME NEW w \in Workers, Request(w) \/ Step(w) \/ Timeout(w)
          PROVE  ActiveInv'
      BY <2>2, ActiveRequest, ActiveStep
    <2> QED
      BY <2>1, <2>2 DEF Next
  <1>3. ActiveInv => ActiveWasApproved
    BY DEF ActiveInv
  <1> QED
    BY <1>1, <1>2, <1>3, TypesHold, PTL DEF Spec

-----------------------------------------------------------------------------
(* Founders.                                                               *)

\* A user has these groups, unless an admin or a cascade took its groups away.
Kept(u, gs) == u \in regrouped \/ gs \subseteq member[u]

\* What a founder's registration has done at its stages, for an organization that
\* is no longer to be inserted.
Founds(j) ==
    /\ j.op # "idle" => j.answer = "none"
    /\ j.op = "register" /\ j.isNew =>
          /\ j.stage \notin {"getOrg", "makeOrg"}
          /\ j.org < nextOrg
          /\ j.stage \in {"password", "mail", "adminGroup"}
                => Kept(j.user, groups \cap {<<j.org, "Users">>})
          /\ j.stage = "addGroups" => Kept(j.user, {g \in groups : g[1] = j.org})

FounderInv == \A w \in Workers : Founds(job[w])

\* Memberships go only with their groups, by an admin or in a cascade; groups come
\* only with a new organization.
LEMMA Memberships ==
  ASSUME TypeInv, [Next]_vars
  PROVE  /\ regrouped \subseteq regrouped' /\ nextOrg <= nextOrg'
         /\ \A u \in UserIds : u \in regrouped' \/ member[u] \cap groups' \subseteq member'[u]
         /\ \A g \in groups' : g \in groups \/ g[1] = nextOrg
  <1>1. nextOrg \in Nat /\ member \in [UserIds -> SUBSET Groups]
    BY DEF TypeInv, TypeOK
  <1>2. ASSUME UNCHANGED <<regrouped, member, groups, nextOrg>>
        PROVE  /\ regrouped \subseteq regrouped' /\ nextOrg <= nextOrg'
               /\ \A u \in UserIds : u \in regrouped' \/ member[u] \cap groups' \subseteq member'[u]
               /\ \A g \in groups' : g \in groups \/ g[1] = nextOrg
    BY <1>1, <1>2
  <1>3. CASE UNCHANGED vars \/ Exhausted
    BY <1>2, <1>3 DEF Exhausted, vars
  <1>4. ASSUME NEW w \in Workers, Request(w)
        PROVE  /\ regrouped \subseteq regrouped' /\ nextOrg <= nextOrg'
               /\ \A u \in UserIds : u \in regrouped' \/ member[u] \cap groups' \subseteq member'[u]
               /\ \A g \in groups' : g \in groups \/ g[1] = nextOrg
    <2>2. ASSUME NEW g \in Listed, DeleteGroup(w, g)
          PROVE  /\ regrouped \subseteq regrouped' /\ nextOrg <= nextOrg'
                 /\ \A u \in UserIds : u \in regrouped' \/ member[u] \cap groups' \subseteq member'[u]
                 /\ \A h \in groups' : h \in groups \/ h[1] = nextOrg
      BY <1>1, <2>2 DEF DeleteGroup, history
    <2>3. ASSUME NEW o \in OrgNames, CreateOrg(w, o)
          PROVE  /\ regrouped \subseteq regrouped' /\ nextOrg <= nextOrg'
                 /\ \A u \in UserIds : u \in regrouped' \/ member[u] \cap groups' \subseteq member'[u]
                 /\ \A g \in groups' : g \in groups \/ g[1] = nextOrg
      BY <1>1, <2>3 DEF CreateOrg, InsertOrg, userTables, history
    <2>4. ASSUME NEW n, NEW e, NEW o, NEW t, NEW gs, NEW l, NEW u, NEW p, NEW fs, NEW a, NEW x,
                 \/ Register(w, n, e, o, t, gs) \/ StartConfirm(w, l)
                 \/ StartProfile(w, u, o, p) \/ StartPatch(w, u, fs, n, e, a, gs)
                 \/ StartPutOrg(w, x, o) \/ CollectOrg(w, x) \/ Invite(w, e)
                 \/ RequestReset(w, e)
          PROVE  UNCHANGED <<regrouped, member, groups, nextOrg>>
      BY <2>4 DEF Register, StartConfirm, StartProfile, StartPatch, StartPutOrg, CollectOrg,
                  Invite, RequestReset, orgTables, userTables, history
    <2> QED
      BY <1>2, <1>4, <2>2, <2>3, <2>4 DEF Request
  <1>5. ASSUME NEW w \in Workers, Step(w) \/ Timeout(w)
        PROVE  /\ regrouped \subseteq regrouped' /\ nextOrg <= nextOrg'
               /\ \A u \in UserIds : u \in regrouped' \/ member[u] \cap groups' \subseteq member'[u]
               /\ \A g \in groups' : g \in groups \/ g[1] = nextOrg
    <2>1. job[w] \in Job /\ Shape(job[w])
      BY DEF TypeInv, TypeOK
    <2>2. CASE MakeOrg(w)
      BY <1>1, <2>2 DEF MakeOrg, InsertOrg, userTables, history
    <2>3. CASE AddDefaultGroups(w) \/ AddAdminGroup(w) \/ \E g \in Listed : AddRequestedGroup(w, g)
      <3>1. /\ UNCHANGED <<regrouped, groups, nextOrg>> /\ job[w].user \in UserIds
            /\ \/ UNCHANGED member
               \/ \E gs \in SUBSET Groups : member' = [member EXCEPT ![job[w].user] = @ \cup gs]
        BY <2>1, <2>3, SentinelsAssumption
           DEF AddDefaultGroups, AddAdminGroup, AddRequestedGroup, JoinGroups, At, Shape,
               Groups, orgTables, history, TypeInv, TypeOK
      <3> QED
        BY <1>1, <1>2, <3>1
    <2>4. CASE SetGroups(w)
      BY <1>1, <2>1, <2>4 DEF SetGroups, At, Shape, orgTables
    <2>5. CASE SaveOrg(w)
      BY <1>2, <2>5 DEF SaveOrg, userTables, history
    <2>6. CASE \/ GetOrg(w) \/ InsertUser(w) \/ FindDefaultGroups(w) \/ SetPassword(w)
               \/ SendApproval(w) \/ Registered(w) \/ ConfirmReset(w) \/ FindProfileOrg(w)
               \/ SaveProfile(w) \/ SavePatch(w) \/ Timeout(w)
      BY <1>2, <2>6 DEF GetOrg, InsertUser, FindDefaultGroups, SetPassword, SendApproval,
                        Registered, ConfirmReset, FindProfileOrg, SaveProfile, SavePatch,
                        Timeout, orgTables, userTables, history
    <2>7. CASE DeleteOrg(w)
      <3>1. CASE UNCHANGED <<groups, member, regrouped>>
        BY <1>1, <2>7, <3>1 DEF DeleteOrg
      <3>2. CASE /\ groups' = {g \in groups : g[1] # job[w].org}
                 /\ member' = [u \in UserIds |-> IF u \in job[w].gone THEN {}
                                    ELSE {g \in member[u] : g[1] # job[w].org}]
                 /\ regrouped' = regrouped \cup job[w].gone
        BY <1>1, <2>7, <3>2 DEF DeleteOrg
      <3> QED
        BY <2>7, <3>1, <3>2 DEF DeleteOrg
    <2> QED
      BY <1>5, <2>2, <2>3, <2>4, <2>5, <2>6, <2>7 DEF Step
  <1> QED
    BY <1>3, <1>4, <1>5 DEF Next

\* What a registration has done stays done.
LEMMA KeptStays ==
  ASSUME TypeInv, [Next]_vars, NEW u \in UserIds, NEW x \in OrgIds, x < nextOrg
  PROVE  /\ Kept(u, groups \cap {<<x, "Users">>}) => Kept(u, groups \cap {<<x, "Users">>})'
         /\ Kept(u, {g \in groups : g[1] = x}) => Kept(u, {g \in groups : g[1] = x})'
  <1>1. x # nextOrg
    BY DEF OrgIds, TypeInv, TypeOK
  <1> QED
    BY <1>1, Memberships DEF Kept

LEMMA FoundsStays ==
  ASSUME TypeInv, [Next]_vars, NEW j \in Job, Shape(j), Founds(j)
  PROVE  Founds(j)'
  <1>1. CASE ~(j.op = "register" /\ j.isNew)
    BY <1>1 DEF Founds
  <1>2. CASE j.op = "register" /\ j.isNew
    <2>1. j.org \in OrgIds /\ j.org < nextOrg /\ j.org < nextOrg'
      <3>1. nextOrg \in Nat /\ nextOrg' \in Nat /\ nextOrg <= nextOrg'
        BY Memberships, TypesStep DEF TypeInv, TypeOK
      <3> QED
        BY <1>2, <3>1 DEF Shape, Founds, OrgIds
    <2>2. CASE j.stage \in {"password", "mail", "adminGroup", "addGroups"}
      <3>1. j.user \in UserIds
        BY <1>2, <2>2 DEF Shape
      <3> QED
        BY <1>2, <2>1, <3>1, KeptStays DEF Founds
    <2>3. CASE j.stage \notin {"password", "mail", "adminGroup", "addGroups"}
      BY <1>2, <2>1, <2>3 DEF Founds
    <2> QED
      BY <2>2, <2>3
  <1> QED
    BY <1>1, <1>2

LEMMA FounderJob ==
  ASSUME TypeInv, FounderInv, [Next]_vars, NEW w \in Workers,
         \A v \in Workers : v # w => job'[v] = job[v],
         Founds(job[w])'
  PROVE  FounderInv'
  <1>1. \A v \in Workers : job[v] \in Job /\ Shape(job[v]) /\ Founds(job[v])
    BY DEF TypeInv, TypeOK, FounderInv
  <1>2. ASSUME NEW v \in Workers, v # w  PROVE Founds(job[v])'
    <2>1. PICK j \in Job : j = job[v] /\ Shape(j) /\ Founds(j)
      BY <1>1
    <2>2. Founds(j)'
      BY <2>1, FoundsStays
    <2>3. job'[v] = j
      BY <1>2, <2>1
    <2> QED
      BY <2>2, <2>3 DEF Founds
  <1> QED
    BY <1>2 DEF FounderInv

\* A job that founds nothing.
LEMMA FoundsNothing ==
  ASSUME TypeInv, FounderInv, [Next]_vars, NEW w \in Workers,
         \A v \in Workers : v # w => job'[v] = job[v],
         job'[w].op = "idle" \/ (~job'[w].isNew /\ job'[w].answer = "none")
  PROVE  FounderInv'
  <1>1. Founds(job[w])'
    BY DEF Founds
  <1> QED
    BY <1>1, FounderJob

LEMMA FounderRequest ==
  ASSUME TypeInv, FounderInv, NEW w \in Workers, Request(w)
  PROVE  FounderInv'
  <1>1. [Next]_vars
    BY DEF Next
  <1>2. ASSUME NEW n, NEW e, NEW o, NEW t, NEW gs, NEW l, NEW u, NEW p, NEW fs, NEW a, NEW x,
               \/ Register(w, n, e, o, t, gs) \/ StartConfirm(w, l)
               \/ StartProfile(w, u, o, p) \/ StartPatch(w, u, fs, n, e, a, gs)
               \/ StartPutOrg(w, x, o) \/ CollectOrg(w, x)
        PROVE  FounderInv'
    <2>1. /\ \A v \in Workers : v # w => job'[v] = job[v]
          /\ ~job'[w].isNew /\ job'[w].answer = "none"
      <3>1. CASE Register(w, n, e, o, t, gs)
        BY <3>1 DEF Register, NoJob, TypeInv, TypeOK
      <3>2. CASE StartConfirm(w, l)
        BY <3>2 DEF StartConfirm, NoJob, TypeInv, TypeOK
      <3>3. CASE StartProfile(w, u, o, p)
        BY <3>3 DEF StartProfile, NoJob, TypeInv, TypeOK
      <3>4. CASE StartPatch(w, u, fs, n, e, a, gs)
        <4> DEFINE row == PatchedRow(u, fs, n, e, a)
        <4>1. job' = [job EXCEPT ![w] = [NoJob EXCEPT !.op = "patch", !.stage = "save",
                                   !.user = u, !.fields = fs, !.wants = gs, !.row = row]]
          BY <3>4 DEF StartPatch
        <4> HIDE DEF row
        <4> QED
          BY <4>1 DEF NoJob, TypeInv, TypeOK
      <3>5. CASE StartPutOrg(w, x, o)
        BY <3>5 DEF StartPutOrg, NoJob, TypeInv, TypeOK
      <3>6. CASE CollectOrg(w, x)
        <4> DEFINE us == {v \in UserIds : Exists(v) /\ users[v].org = x}
        <4>1. job' = [job EXCEPT ![w] = [NoJob EXCEPT !.op = "orgdelete", !.stage = "save",
                                                      !.org = x, !.gone = us]]
          BY <3>6 DEF CollectOrg
        <4> HIDE DEF us
        <4> QED
          BY <4>1 DEF NoJob, TypeInv, TypeOK
      <3> QED
        BY <1>2, <3>1, <3>2, <3>3, <3>4, <3>5, <3>6
    <2> QED
      BY <1>1, <2>1, FoundsNothing
  <1>3. ASSUME UNCHANGED job  PROVE FounderInv'
    <2>1. job[w] \in Job /\ Shape(job[w]) /\ Founds(job[w])
      BY DEF TypeInv, TypeOK, FounderInv
    <2>2. PICK j \in Job : j = job[w] /\ Shape(j) /\ Founds(j)
      BY <2>1
    <2>3. Founds(j)' /\ job'[w] = j
      BY <1>1, <1>3, <2>2, FoundsStays
    <2>4. Founds(job[w])'
      BY <2>3 DEF Founds
    <2> QED
      BY <1>1, <1>3, <2>4, FounderJob
  <1>4. CASE \/ \E e \in Emails : Invite(w, e) \/ RequestReset(w, e)
             \/ \E o \in OrgNames : CreateOrg(w, o)
             \/ \E g \in Listed : DeleteGroup(w, g)
    BY <1>3, <1>4 DEF Invite, RequestReset, CreateOrg, DeleteGroup
  <1> QED
    BY <1>2, <1>4 DEF Request

LEMMA FounderStep ==
  ASSUME TypeInv, FounderInv, NEW w \in Workers, Step(w) \/ Timeout(w)
  PROVE  FounderInv'
  <1>1. [Next]_vars
    BY DEF Next
  <1>2. job[w] \in Job /\ Shape(job[w]) /\ Founds(job[w])
    BY DEF TypeInv, TypeOK, FounderInv
  <1>3. ASSUME Ok(w) \/ Fail(w)  PROVE FounderInv'
    <2>1. job'[w].op = "idle" /\ \A v \in Workers : v # w => job'[v] = job[v]
      BY <1>3 DEF Ok, Fail, NoJob, TypeInv, TypeOK
    <2> QED
      BY <1>1, <2>1, FoundsNothing
  \* The job goes on with the same founder.
  <1>4. ASSUME NEW k \in Job, job' = [job EXCEPT ![w] = k], k.answer = job[w].answer,
               job[w].op # "idle", k.op = job[w].op, k.isNew = job[w].isNew,
               k.isNew /\ k.op = "register" =>
                  /\ k.stage \notin {"getOrg", "makeOrg"} /\ k.org = job[w].org
                  /\ k.stage \in {"password", "mail", "adminGroup"}
                        => Kept(k.user, groups \cap {<<k.org, "Users">>})'
                  /\ k.stage = "addGroups" => Kept(k.user, {g \in groups : g[1] = k.org})'
        PROVE  FounderInv'
    <2>1. nextOrg \in Nat /\ nextOrg' \in Nat /\ nextOrg <= nextOrg'
      BY <1>1, Memberships, TypesStep DEF TypeInv, TypeOK
    <2>2. k.isNew /\ k.op = "register" => k.org < nextOrg'
      BY <1>2, <1>4, <2>1 DEF Founds, Job, OrgIds
    <2>3. Founds(k)'
      BY <1>2, <1>4, <2>2 DEF Founds
    <2>4. job'[w] = k /\ \A v \in Workers : v # w => job'[v] = job[v]
      BY <1>4 DEF TypeInv, TypeOK
    <2>5. Founds(job[w])'
      BY <2>3, <2>4 DEF Founds
    <2> QED
      BY <1>1, <2>4, <2>5, FounderJob
  \* What a founder's registration had done before it still has.
  <1>5. ASSUME job[w].op = "register", job[w].isNew
        PROVE  /\ job[w].org \in OrgIds /\ job[w].org < nextOrg
               /\ job[w].stage \in {"password", "mail", "adminGroup"}
                     => Kept(job[w].user, groups \cap {<<job[w].org, "Users">>})
               /\ job[w].stage = "addGroups"
                     => Kept(job[w].user, {g \in groups : g[1] = job[w].org})
    BY <1>2, <1>5 DEF Founds, Shape
  <1>6. ASSUME NEW u \in UserIds, NEW x \in OrgIds, x < nextOrg
        PROVE  /\ Kept(u, groups \cap {<<x, "Users">>}) => Kept(u, groups \cap {<<x, "Users">>})'
               /\ Kept(u, {g \in groups : g[1] = x}) => Kept(u, {g \in groups : g[1] = x})'
    BY <1>1, <1>6, KeptStays
  <1>7. CASE GetOrg(w)
    <2>1. job[w].op = "register" /\ ~job[w].isNew /\ job[w].stage = "getOrg"
      BY <1>2, <1>7 DEF GetOrg, At, Founds
    <2>2. CASE Goto(w, "makeOrg")
      <3>1. /\ job'[w].isNew = job[w].isNew /\ job'[w].answer = job[w].answer
            /\ \A v \in Workers : v # w => job'[v] = job[v]
        BY <1>2, <2>2 DEF Goto, TypeInv, TypeOK, Job
      <3> QED
        BY <1>1, <1>2, <2>1, <3>1, FoundsNothing DEF Founds
    <2>3. ASSUME NEW x \in OrgIds, job' = [job EXCEPT ![w].org = x, ![w].stage = "insert"]
          PROVE  FounderInv'
      <3>1. /\ job'[w].isNew = job[w].isNew /\ job'[w].answer = job[w].answer
            /\ \A v \in Workers : v # w => job'[v] = job[v]
        BY <1>2, <2>3 DEF TypeInv, TypeOK, Job
      <3> QED
        BY <1>1, <1>2, <2>1, <3>1, FoundsNothing DEF Founds
    <2> QED
      BY <1>3, <1>7, <2>2, <2>3 DEF GetOrg
  <1>8. CASE MakeOrg(w)
    <2>1. /\ job' = [job EXCEPT ![w].org = nextOrg, ![w].isNew = TRUE, ![w].stage = "insert"]
          /\ nextOrg' = nextOrg + 1 /\ nextOrg \in Nat /\ job[w].op = "register"
      BY <1>8 DEF MakeOrg, InsertOrg, At, TypeInv, TypeOK
    <2>2. /\ job'[w].org = nextOrg /\ job'[w].stage = "insert" /\ job'[w].op = "register"
          /\ job'[w].answer = job[w].answer
          /\ \A v \in Workers : v # w => job'[v] = job[v]
      BY <1>2, <2>1 DEF TypeInv, TypeOK, Job
    <2>3. Founds(job[w])'
      BY <1>2, <2>1, <2>2 DEF Founds
    <2> QED
      BY <1>1, <2>2, <2>3, FounderJob
  <1>9. CASE InsertUser(w)
    <2> DEFINE row == NewRow(job[w])
               k   == [job[w] EXCEPT !.user = nextUser, !.row = row, !.stage = "defaultGroups"]
    <2>1. /\ job[w].op = "register" /\ nextUser \in UserIds
          /\ Fail(w) \/ job' = [job EXCEPT ![w].user = nextUser, ![w].row = row,
                                           ![w].stage = "defaultGroups"]
      BY <1>9, RoomIsThere DEF InsertUser, At, WillInsert
    <2>2. row \in Row
      BY <1>2, <1>9 DEF NewRow, Row, Shape, InsertUser, At, Job
    <2> HIDE DEF row
    <2>3. /\ k \in Job /\ k.op = job[w].op /\ k.isNew = job[w].isNew
          /\ k.answer = job[w].answer /\ k.org = job[w].org /\ k.stage = "defaultGroups"
      BY <1>2, <2>1, <2>2 DEF Job
    <2>4. ~Fail(w) => job' = [job EXCEPT ![w] = k]
      BY <2>1 DEF TypeInv, TypeOK
    <2> HIDE DEF k
    <2> QED
      BY <1>3, <1>4, <2>1, <2>3, <2>4
  <1>10. CASE FindDefaultGroups(w) \/ AddDefaultGroups(w)
    <2> DEFINE st == IF FindDefaultGroups(w) /\ <<job[w].org, "Users">> \in groups
                     THEN "joinDefaults" ELSE "password"
               k  == [job[w] EXCEPT !.stage = st]
    <2>1. /\ job[w].op = "register" /\ UNCHANGED groups
          /\ job[w].stage \in {"defaultGroups", "joinDefaults"}
          /\ job[w].user \in UserIds /\ member \in [UserIds -> SUBSET Groups]
          /\ job[w].org \in OrgIds /\ groups \subseteq Groups
          /\ Fail(w) \/ Goto(w, st)
      BY <1>2, <1>10 DEF FindDefaultGroups, AddDefaultGroups, At, JoinGroups, Shape, orgTables,
                         TypeInv, TypeOK
    <2>2. ~Fail(w) /\ st = "password" =>
             groups \cap {<<job[w].org, "Users">>} \subseteq member'[job[w].user]
      <3>1. CASE FindDefaultGroups(w)
        BY <2>1, <3>1
      <3>2. CASE AddDefaultGroups(w)
        BY <2>1, <3>2 DEF AddDefaultGroups, JoinGroups, Groups
      <3> QED
        BY <1>10, <3>1, <3>2
    <2>3. st \in {"joinDefaults", "password"}
      OBVIOUS
    <2> HIDE DEF st
    <2>4. /\ k \in Job /\ k.op = job[w].op /\ k.isNew = job[w].isNew /\ k.user = job[w].user
          /\ k.answer = job[w].answer /\ k.org = job[w].org /\ k.stage = st
      BY <1>2, <2>3 DEF Job
    <2>5. Goto(w, st) => job' = [job EXCEPT ![w] = k]
      BY DEF Goto, TypeInv, TypeOK
    <2> HIDE DEF k
    <2>ids. PICK j \in Job, u \in UserIds, x \in OrgIds :
             j = k /\ u = job[w].user /\ x = job[w].org
      BY <2>1, <2>4
    <2>6. ~Fail(w) /\ st = "password" => Kept(j.user, groups \cap {<<j.org, "Users">>})'
      BY <2>1, <2>2, <2>4, <2>ids DEF Kept
    <2> QED
      BY <1>3, <1>4, <2>1, <2>3, <2>4, <2>5, <2>6, <2>ids
  <1>11. CASE SetPassword(w)
    <2> DEFINE row == [job[w].row EXCEPT !.pw = nextHash]
               k   == [job[w] EXCEPT !.row = row, !.stage = "mail"]
    <2>1. /\ job[w].op = "register" /\ job[w].stage = "password" /\ job[w].user \in UserIds
          /\ nextHash \in Hashes /\ job[w].row \in Row
          /\ Fail(w) \/ job' = [job EXCEPT ![w].row = row, ![w].stage = "mail"]
      BY <1>2, <1>11, RoomIsThere DEF SetPassword, At, Shape, WillHash
    <2>2. row \in Row
      BY <2>1 DEF Row
    <2> HIDE DEF row
    <2>3. /\ k \in Job /\ k.op = job[w].op /\ k.isNew = job[w].isNew /\ k.user = job[w].user
          /\ k.answer = job[w].answer /\ k.org = job[w].org /\ k.stage = "mail"
      BY <1>2, <2>2 DEF Job
    <2>4. ~Fail(w) => job' = [job EXCEPT ![w] = k]
      BY <2>1 DEF TypeInv, TypeOK
    <2> HIDE DEF k
    <2>ids. PICK j \in Job, u \in UserIds, x \in OrgIds :
             j = k /\ u = job[w].user /\ x = job[w].org
      BY <1>2, <2>1, <2>2, <2>3 DEF Shape
    <2>5. k.isNew => Kept(j.user, groups \cap {<<j.org, "Users">>})'
      <3>1. k.isNew => x < nextOrg /\ Kept(u, groups \cap {<<x, "Users">>})
        BY <1>5, <2>1, <2>3, <2>ids
      <3>2. k.isNew => Kept(u, groups \cap {<<x, "Users">>})'
        BY <1>6, <3>1
      <3>3. j.user = u /\ j.org = x
        BY <2>3, <2>ids
      <3> QED
        BY <3>2, <3>3
    <2> QED
      BY <1>3, <1>4, <2>1, <2>3, <2>4, <2>5, <2>ids
  <1>12. CASE SendApproval(w)
    <2> DEFINE st == IF job[w].isNew THEN "adminGroup" ELSE "addGroups"
               k  == [job[w] EXCEPT !.stage = st]
    <2>1. /\ job[w].op = "register" /\ job[w].stage = "mail" /\ job[w].user \in UserIds
          /\ Fail(w) \/ job' = [job EXCEPT ![w].stage = st]
      BY <1>2, <1>12 DEF SendApproval, At, Shape, Goto
    <2>2. /\ k \in Job /\ k.op = job[w].op /\ k.isNew = job[w].isNew /\ k.user = job[w].user
          /\ k.answer = job[w].answer /\ k.org = job[w].org
          /\ k.isNew => k.stage = "adminGroup"
      BY <1>2 DEF Job
    <2>3. ~Fail(w) => job' = [job EXCEPT ![w] = k]
      BY <2>1 DEF TypeInv, TypeOK
    <2> HIDE DEF k
    <2>ids. PICK j \in Job, u \in UserIds, x \in OrgIds :
             j = k /\ u = job[w].user /\ x = job[w].org
      BY <1>2, <2>1, <2>2 DEF Shape
    <2>4. k.isNew => Kept(j.user, groups \cap {<<j.org, "Users">>})'
      <3>1. k.isNew => x < nextOrg /\ Kept(u, groups \cap {<<x, "Users">>})
        BY <1>5, <2>1, <2>2, <2>ids
      <3>2. k.isNew => Kept(u, groups \cap {<<x, "Users">>})'
        BY <1>6, <3>1
      <3>3. j.user = u /\ j.org = x
        BY <2>2, <2>ids
      <3> QED
        BY <3>2, <3>3
    <2> QED
      BY <1>3, <1>4, <2>1, <2>2, <2>3, <2>4, <2>ids
  <1>13. CASE AddAdminGroup(w)
    <2> DEFINE k == [job[w] EXCEPT !.stage = "addGroups"]
    <2>1. /\ job[w].op = "register" /\ job[w].stage = "adminGroup"
          /\ job[w].user \in UserIds /\ job[w].org \in OrgIds
          /\ UNCHANGED <<groups, regrouped>> /\ groups \subseteq Groups
          /\ member \in [UserIds -> SUBSET Groups]
          /\ \/ Fail(w)
             \/ /\ member' = [member EXCEPT ![job[w].user] = @ \cup {<<job[w].org, "Admins">>}]
                /\ Goto(w, "addGroups")
      BY <1>2, <1>13 DEF AddAdminGroup, At, JoinGroups, Shape, orgTables, history,
                         TypeInv, TypeOK
    <2>2. /\ k \in Job /\ k.op = job[w].op /\ k.isNew = job[w].isNew /\ k.user = job[w].user
          /\ k.answer = job[w].answer /\ k.org = job[w].org /\ k.stage = "addGroups"
      BY <1>2 DEF Job
    <2>3. Goto(w, "addGroups") => job' = [job EXCEPT ![w] = k]
      BY DEF Goto, TypeInv, TypeOK
    <2> HIDE DEF k
    <2>ids. PICK j \in Job, u \in UserIds, x \in OrgIds :
             j = k /\ u = job[w].user /\ x = job[w].org
      BY <1>2, <2>1, <2>2 DEF Shape
    <2>4. {g \in groups : g[1] = k.org}
             \subseteq (groups \cap {<<k.org, "Users">>}) \cup {<<k.org, "Admins">>}
      BY <2>1 DEF Groups
    <2>5. k.isNew => Kept(k.user, groups \cap {<<k.org, "Users">>})
      BY <1>5, <2>1, <2>2
    <2>6. ~Fail(w) /\ k.isNew => Kept(j.user, {g \in groups : g[1] = j.org})'
      BY <2>1, <2>2, <2>4, <2>5, <2>ids DEF Kept
    <2> QED
      BY <1>3, <1>4, <2>1, <2>2, <2>3, <2>6, <2>ids
  <1>14. ASSUME NEW g \in Listed, AddRequestedGroup(w, g)  PROVE FounderInv'
    <2> DEFINE k == [job[w] EXCEPT !.wants = @ \ {g}]
    <2>1. /\ job[w].op = "register" /\ job[w].stage = "addGroups" /\ job[w].user \in UserIds
          /\ Fail(w) \/ job' = [job EXCEPT ![w].wants = @ \ {g}]
      BY <1>2, <1>14 DEF AddRequestedGroup, At, JoinGroups, Shape
    <2>2. /\ k \in Job /\ k.op = job[w].op /\ k.isNew = job[w].isNew /\ k.user = job[w].user
          /\ k.answer = job[w].answer /\ k.org = job[w].org /\ k.stage = job[w].stage
      BY <1>2 DEF Job
    <2>3. ~Fail(w) => job' = [job EXCEPT ![w] = k]
      BY <2>1 DEF TypeInv, TypeOK
    <2> HIDE DEF k
    <2>ids. PICK j \in Job, u \in UserIds, x \in OrgIds :
             j = k /\ u = job[w].user /\ x = job[w].org
      BY <1>2, <2>1, <2>2 DEF Shape
    <2>4. k.isNew => Kept(j.user, {h \in groups : h[1] = j.org})'
      <3>1. k.isNew => x < nextOrg /\ Kept(u, {h \in groups : h[1] = x})
        BY <1>5, <2>1, <2>2, <2>ids
      <3>2. k.isNew => Kept(u, {h \in groups : h[1] = x})'
        BY <1>6, <3>1
      <3>3. j.user = u /\ j.org = x
        BY <2>2, <2>ids
      <3> QED
        BY <3>2, <3>3
    <2> QED
      BY <1>3, <1>4, <2>1, <2>2, <2>3, <2>4, <2>ids
  <1>15. CASE FindProfileOrg(w)
    <2>1. job[w].op = "profile" /\ job[w].row \in Row
      BY <1>2, <1>15 DEF FindProfileOrg, At, Shape
    <2>2. CASE Goto(w, "save")
      <3> DEFINE k == [job[w] EXCEPT !.stage = "save"]
      <3>1. /\ k \in Job /\ k.op = job[w].op /\ k.isNew = job[w].isNew
            /\ k.answer = job[w].answer /\ job' = [job EXCEPT ![w] = k]
        BY <1>2, <2>2 DEF Job, Goto, TypeInv, TypeOK
      <3> HIDE DEF k
      <3> QED
        BY <1>4, <2>1, <3>1
    <2>3. ASSUME NEW x \in OrgIds,
                 job' = [job EXCEPT ![w].row = [@ EXCEPT !.org = x], ![w].stage = "save"]
          PROVE  FounderInv'
      <3> DEFINE row == [job[w].row EXCEPT !.org = x]
                 k   == [job[w] EXCEPT !.row = row, !.stage = "save"]
      <3>1. row \in Row
        BY <2>1 DEF Row
      <3>2. job' = [job EXCEPT ![w] = k]
        BY <2>3 DEF TypeInv, TypeOK
      <3> HIDE DEF row
      <3>3. k \in Job /\ k.op = job[w].op /\ k.isNew = job[w].isNew /\ k.answer = job[w].answer
        BY <1>2, <3>1 DEF Job
      <3> HIDE DEF k
      <3> QED
        BY <1>4, <2>1, <3>2, <3>3
    <2> QED
      BY <1>15, <2>2, <2>3 DEF FindProfileOrg, Named
  <1>16. CASE SavePatch(w)
    <2> DEFINE k == [job[w] EXCEPT !.stage = "setGroups"]
    <2>1. job[w].op = "patch" /\ (Ok(w) \/ Fail(w) \/ Goto(w, "setGroups"))
      BY <1>16 DEF SavePatch, At
    <2>2. /\ k \in Job /\ k.op = job[w].op /\ k.isNew = job[w].isNew
          /\ k.answer = job[w].answer
      BY <1>2 DEF Job
    <2>3. Goto(w, "setGroups") => job' = [job EXCEPT ![w] = k]
      BY DEF Goto, TypeInv, TypeOK
    <2> HIDE DEF k
    <2> QED
      BY <1>3, <1>4, <2>1, <2>2, <2>3
  <1>17. CASE \/ Registered(w) \/ ConfirmReset(w) \/ SaveProfile(w) \/ SetGroups(w)
              \/ SaveOrg(w) \/ DeleteOrg(w) \/ Timeout(w)
    BY <1>3, <1>17 DEF Registered, ConfirmReset, SaveProfile, SetGroups, SaveOrg, DeleteOrg,
                       Timeout
  <1> QED
    BY <1>7, <1>8, <1>9, <1>10, <1>11, <1>12, <1>13, <1>14, <1>15, <1>16, <1>17 DEF Step

\* A registration is answered by its last step only.
LEMMA AnsweredLast ==
  ASSUME TypeInv, [Next]_vars, NEW w \in Workers, job[w].op = "register",
         job[w].answer = "none", job'[w].answer = "ok"
  PROVE  Registered(w)
  <1>1. job \in [Workers -> Job] /\ job[w] \in Job
    BY DEF TypeInv, TypeOK
  <1>2. CASE UNCHANGED vars \/ Exhausted
    BY <1>2 DEF Exhausted, vars
  <1>3. ASSUME NEW v \in Workers, Request(v)  PROVE FALSE
    <2>1. UNCHANGED job \/ (v # w /\ \E k : job' = [job EXCEPT ![v] = k])
      BY <1>3 DEF Request, Register, StartConfirm, StartProfile, StartPatch, StartPutOrg,
                  CollectOrg, Invite, RequestReset, CreateOrg, DeleteGroup, Free, Idle
    <2> QED
      BY <1>1, <2>1
  <1>4. ASSUME NEW v \in Workers, Step(v) \/ Timeout(v), ~Registered(w)  PROVE FALSE
    <2>1. ASSUME v # w, NEW k, job' = [job EXCEPT ![v] = k]  PROVE FALSE
      BY <1>1, <2>1
    <2>2. ASSUME Fail(v)  PROVE FALSE
      BY <1>1, <2>2 DEF Fail, NoJob
    <2>3. ASSUME Ok(v), v # w  PROVE FALSE
      BY <1>1, <2>3 DEF Ok
    <2>4. ASSUME NEW st, Goto(v, st)  PROVE FALSE
      BY <1>1, <2>4 DEF Goto, Job
    <2>5. ASSUME GetOrg(v) \/ MakeOrg(v) \/ InsertUser(v)  PROVE FALSE
      <3>1. ASSUME NEW x, job' = [job EXCEPT ![v].org = x, ![v].stage = "insert"]
            PROVE  FALSE
        BY <1>1, <3>1 DEF Job
      <3>2. CASE MakeOrg(v)
        BY <1>1, <3>2 DEF MakeOrg, Job
      <3>3. CASE InsertUser(v)
        <4>1. PICK row : row = NewRow(job[v])
          OBVIOUS
        <4>2. Fail(v) \/ job' = [job EXCEPT ![v].user = nextUser, ![v].row = row,
                                            ![v].stage = "defaultGroups"]
          BY <3>3, <4>1 DEF InsertUser
        <4> QED
          BY <1>1, <2>2, <4>2 DEF Job
      <3> QED
        BY <2>2, <2>4, <2>5, <3>1, <3>2, <3>3 DEF GetOrg
    <2>6. ASSUME \/ AddDefaultGroups(v) \/ AddAdminGroup(v)
                 \/ \E g \in Listed : AddRequestedGroup(v, g)
          PROVE  FALSE
      <3>1. ASSUME NEW g \in Listed, job' = [job EXCEPT ![v].wants = @ \ {g}]  PROVE FALSE
        BY <1>1, <3>1 DEF Job
      <3> QED
        BY <2>2, <2>4, <2>6, <3>1
           DEF AddDefaultGroups, AddAdminGroup, AddRequestedGroup, JoinGroups
    <2>7. ASSUME SetPassword(v)  PROVE FALSE
      <3>1. PICK row : Fail(v) \/ job' = [job EXCEPT ![v].row = row, ![v].stage = "mail"]
        BY <2>7 DEF SetPassword
      <3> QED
        BY <1>1, <2>2, <3>1 DEF Job
    <2>8. ASSUME FindProfileOrg(v)  PROVE FALSE
      BY <1>1, <2>4, <2>8 DEF FindProfileOrg, At, Job
    <2>9. ASSUME \/ SendApproval(v) \/ FindDefaultGroups(v) \/ Timeout(v)  PROVE FALSE
      BY <2>2, <2>4, <2>9 DEF SendApproval, FindDefaultGroups, Timeout
    <2>10. ASSUME \/ ConfirmReset(v) \/ SaveProfile(v) \/ SavePatch(v) \/ SetGroups(v)
                  \/ SaveOrg(v) \/ DeleteOrg(v)
           PROVE  FALSE
      <3>1. v # w /\ (Ok(v) \/ Fail(v) \/ Goto(v, "setGroups"))
        BY <2>10 DEF ConfirmReset, SaveProfile, SavePatch, SetGroups, SaveOrg, DeleteOrg, At
      <3> QED
        BY <2>2, <2>3, <2>4, <3>1
    <2>11. ASSUME Registered(v)  PROVE FALSE
      BY <1>4, <2>3, <2>11 DEF Registered
    <2> QED
      BY <1>4, <2>5, <2>6, <2>7, <2>8, <2>9, <2>10, <2>11 DEF Step
  <1> QED
    BY <1>2, <1>3, <1>4 DEF Next

LEMMA FounderStays == TypeInv /\ FounderInv /\ [Next]_vars => FounderInv'
  <1> SUFFICES ASSUME TypeInv, FounderInv, [Next]_vars PROVE FounderInv'
    OBVIOUS
  <1>1. CASE UNCHANGED vars \/ Exhausted
    BY <1>1 DEF Exhausted, vars, FounderInv, Founds, Kept
  <1>2. ASSUME NEW w \in Workers, Request(w) \/ Step(w) \/ Timeout(w)
        PROVE  FounderInv'
    BY <1>2, FounderRequest, FounderStep
  <1> QED
    BY <1>1, <1>2 DEF Next

\* When a founder's registration is answered, the founder is in the groups of the
\* organization, unless an admin or a cascade took its groups meanwhile.
THEOREM Founders == Spec => FounderIsAdmin
  <1>1. Init => FounderInv
    BY DEF Init, FounderInv, Founds, NoJob
  <1>2. TypeInv /\ FounderInv /\ [Next]_vars => FounderInv'
    BY FounderStays
  <1>3. TypeInv /\ FounderInv /\ [Next]_vars
           => [\A w \in Workers :
                 LET j == job[w] IN
                 j.op = "register" /\ j.isNew /\ job'[w].answer = "ok" /\ Exists(j.user)
                    => \/ {g \in groups : g[1] = j.org} \subseteq member[j.user]
                       \/ j.user \in regrouped]_vars
    <2> SUFFICES ASSUME TypeInv, FounderInv, [Next]_vars, NEW w \in Workers,
                        job[w].op = "register", job[w].isNew, job'[w].answer = "ok"
                 PROVE  Kept(job[w].user, {g \in groups : g[1] = job[w].org})
      BY DEF Kept
    <2>1. Founds(job[w])
      BY DEF FounderInv
    <2>2. Registered(w)
      BY <2>1, AnsweredLast DEF Founds
    <2> QED
      BY <2>1, <2>2 DEF Founds, Registered, At
  <1> QED
    BY <1>1, <1>2, <1>3, TypesHold, PTL DEF Spec, FounderIsAdmin

-----------------------------------------------------------------------------
(* One founder.                                                            *)

\* Where requests name no groups, a registration adds none but its own, and no
\* PATCH gets to the groups.  Only a founder's registration comes to the group of
\* administrators.
NoGroups(j) ==
    /\ j.op = "register" => j.wants = {}
    /\ j.op = "patch" => "groups" \notin j.fields /\ j.stage # "setGroups"
    /\ j.op = "register" /\ j.stage = "adminGroup" => j.isNew

Admin(u, x) == <<x, "Admins">> \in member[u]

\* An organization that is not inserted yet has no administrator.
OnceInv ==
    "groups" \notin scenario.ops =>
        /\ \A w \in Workers : NoGroups(job[w])
        /\ \A u \in UserIds, x \in OrgIds : Admin(u, x) => x < nextOrg
        /\ OneFounder

\* The scenario is chosen for good.
LEMMA ScenarioStays ==
  ASSUME [Next]_vars  PROVE UNCHANGED scenario
  <1>1. CASE UNCHANGED vars \/ Exhausted
    BY <1>1 DEF Exhausted, vars
  <1>2. ASSUME NEW w \in Workers, Request(w)  PROVE UNCHANGED scenario
    BY <1>2 DEF Request, Register, StartConfirm, StartProfile, StartPatch, StartPutOrg, Invite,
                CollectOrg, RequestReset, CreateOrg, DeleteGroup, orgTables
  <1>3. ASSUME NEW w \in Workers, Step(w) \/ Timeout(w)  PROVE UNCHANGED scenario
    BY <1>3 DEF Step, GetOrg, MakeOrg, InsertUser, FindDefaultGroups, AddDefaultGroups,
                SetPassword, SendApproval, DeleteOrg, AddAdminGroup, AddRequestedGroup, Registered, ConfirmReset, FindProfileOrg,
                SaveProfile, SavePatch, SetGroups, SaveOrg, Timeout, orgTables
  <1> QED
    BY <1>1, <1>2, <1>3 DEF Next

\* A step that makes no organization and no administrator.
LEMMA NoNewFounder ==
  ASSUME TypeInv, [Next]_vars, OnceInv, "groups" \notin scenario.ops, NEW w \in Workers,
         \A v \in Workers : v # w => job'[v] = job[v],
         NoGroups(job'[w]),
         \A x \in OrgIds : Founding(w, x)' => Founding(w, x),
         \A u \in UserIds, x \in OrgIds : Admin(u, x)' => Admin(u, x)
  PROVE  OnceInv'
  <1>1. nextOrg \in Nat /\ nextOrg' \in Nat /\ nextOrg <= nextOrg' /\ OrgIds \subseteq Nat
    BY Memberships, TypesStep DEF TypeInv, TypeOK, OrgIds
  <1>2. \A v \in Workers : NoGroups(job'[v])
    BY DEF OnceInv
  <1>3. \A v \in Workers, x \in OrgIds : Founding(v, x)' => Founding(v, x)
    BY DEF Founding
  <1>4. OneFounder'
    <2>1. OneFounder
      BY DEF OnceInv
    <2> QED
      BY <1>3, <2>1 DEF OneFounder, Admin
  <1>5. \A u \in UserIds, x \in OrgIds : Admin(u, x)' => x < nextOrg'
    BY <1>1 DEF OnceInv
  <1>6. (\A v \in Workers : NoGroups(job[v]))'
    BY <1>2 DEF NoGroups
  <1> QED
    BY <1>4, <1>5, <1>6 DEF OnceInv, Admin

\* A request that is over founds nothing.
LEMMA OverFounds ==
  ASSUME TypeInv, NEW w \in Workers, Ok(w) \/ Fail(w)
  PROVE  /\ \A v \in Workers : v # w => job'[v] = job[v]
         /\ NoGroups(job'[w])
         /\ \A x \in OrgIds : ~Founding(w, x)'
  BY DEF Ok, Fail, NoJob, NoGroups, Founding, TypeInv, TypeOK

LEMMA OnceRequest ==
  ASSUME TypeInv, OnceInv, "groups" \notin scenario.ops, NEW w \in Workers, Request(w)
  PROVE  OnceInv'
  <1>1. [Next]_vars
    BY DEF Next
  <1>2. ASSUME NEW op \in {"register", "confirm", "profile", "patch", "orgput", "orgdelete"},
               NEW k, job' = [job EXCEPT ![w] = k], k.op = op, ~k.isNew,
               op = "register" => k.wants = {} /\ k.stage = "getOrg",
               op = "patch" => "groups" \notin k.fields /\ k.stage = "save",
               UNCHANGED member
        PROVE  OnceInv'
    <2>1. job'[w] = k /\ \A v \in Workers : v # w => job'[v] = job[v]
      BY <1>2 DEF TypeInv, TypeOK
    <2>2. NoGroups(job'[w]) /\ \A x \in OrgIds : ~Founding(w, x)'
      BY <1>2, <2>1 DEF NoGroups, Founding
    <2> QED
      BY <1>1, <1>2, <2>1, <2>2, NoNewFounder DEF Admin
  <1>3. GroupLists = {{}} /\ \A fs \in Patches : fs \subseteq Patchable => "groups" \notin fs
    BY DEF GroupLists, Patchable
  <1>4. ASSUME NEW n, NEW e, NEW o, NEW t, NEW gs \in GroupLists, Register(w, n, e, o, t, gs)
        PROVE  OnceInv'
    <2> DEFINE row == [name |-> n, email |-> e, org |-> 1, active |-> FALSE, pw |-> Raw]
               k == [NoJob EXCEPT !.op = "register", !.stage = "getOrg", !.orgName = o,
                                  !.token = t, !.wants = gs, !.row = row]
    <2>1. job' = [job EXCEPT ![w] = k] /\ UNCHANGED member
      BY <1>4 DEF Register, userTables
    <2>2. k.op = "register" /\ k.stage = "getOrg" /\ ~k.isNew /\ k.wants = {}
      BY <1>3 DEF NoJob
    <2> HIDE DEF k
    <2> QED
      BY <1>2, <2>1, <2>2
  <1>5. ASSUME NEW l, StartConfirm(w, l)  PROVE OnceInv'
    <2> DEFINE k == [NoJob EXCEPT !.op = "confirm", !.stage = "save", !.user = l[1],
                                  !.row = users[l[1]]]
    <2>1. job' = [job EXCEPT ![w] = k] /\ UNCHANGED member
      BY <1>5 DEF StartConfirm, userTables
    <2>2. k.op = "confirm" /\ ~k.isNew
      BY DEF NoJob
    <2> HIDE DEF k
    <2> QED
      BY <1>2, <2>1, <2>2
  <1>6. ASSUME NEW u, NEW o, NEW p, StartProfile(w, u, o, p)  PROVE OnceInv'
    <2> DEFINE k == [NoJob EXCEPT !.op = "profile", !.stage = "findOrg", !.orgName = o,
                                  !.user = u, !.row = users[u],
                                  !.fields = IF p THEN {"password"} ELSE {}]
    <2>1. job' = [job EXCEPT ![w] = k] /\ UNCHANGED member
      BY <1>6 DEF StartProfile, userTables
    <2>2. k.op = "profile" /\ ~k.isNew
      BY DEF NoJob
    <2> HIDE DEF k
    <2> QED
      BY <1>2, <2>1, <2>2
  <1>7. ASSUME NEW fs \in Patches, fs \subseteq Patchable, NEW u, NEW n, NEW e, NEW a, NEW gs,
               StartPatch(w, u, fs, n, e, a, gs)
        PROVE  OnceInv'
    <2> DEFINE row == PatchedRow(u, fs, n, e, a)
               k == [NoJob EXCEPT !.op = "patch", !.stage = "save", !.user = u,
                                  !.fields = fs, !.wants = gs, !.row = row]
    <2>1. job' = [job EXCEPT ![w] = k] /\ UNCHANGED member
      BY <1>7 DEF StartPatch, userTables
    <2> HIDE DEF row
    <2>2. k.op = "patch" /\ ~k.isNew /\ k.fields = fs /\ k.stage = "save"
      BY DEF NoJob
    <2> HIDE DEF k
    <2> QED
      BY <1>2, <1>3, <1>7, <2>1, <2>2
  <1>8. ASSUME NEW x, NEW o, StartPutOrg(w, x, o)  PROVE OnceInv'
    <2> DEFINE k == [NoJob EXCEPT !.op = "orgput", !.stage = "save", !.org = x, !.orgName = o]
    <2>1. job' = [job EXCEPT ![w] = k] /\ UNCHANGED member
      BY <1>8 DEF StartPutOrg, userTables
    <2>2. k.op = "orgput" /\ ~k.isNew
      BY DEF NoJob
    <2> HIDE DEF k
    <2> QED
      BY <1>2, <2>1, <2>2
  <1>9. ASSUME NEW x, CollectOrg(w, x)  PROVE OnceInv'
    <2> DEFINE us == {u \in UserIds : Exists(u) /\ users[u].org = x}
               k == [NoJob EXCEPT !.op = "orgdelete", !.stage = "save", !.org = x, !.gone = us]
    <2>1. job' = [job EXCEPT ![w] = k] /\ UNCHANGED member
      BY <1>9 DEF CollectOrg, userTables
    <2> HIDE DEF us
    <2>2. k.op = "orgdelete" /\ ~k.isNew
      BY DEF NoJob
    <2> HIDE DEF k
    <2> QED
      BY <1>2, <2>1, <2>2
  <1>10. CASE \/ \E e \in Emails : Invite(w, e) \/ RequestReset(w, e)
              \/ \E o \in OrgNames : CreateOrg(w, o)
              \/ \E g \in Listed : DeleteGroup(w, g)
    <2>1. UNCHANGED job /\ \A u \in UserIds : member'[u] \subseteq member[u]
      BY <1>10 DEF Invite, RequestReset, CreateOrg, DeleteGroup, userTables
    <2>2. NoGroups(job'[w])
      BY <2>1 DEF OnceInv
    <2> QED
      BY <1>1, <2>1, <2>2, NoNewFounder DEF Founding, Admin
  <1> QED
    BY <1>4, <1>5, <1>6, <1>7, <1>8, <1>9, <1>10 DEF Request

LEMMA OnceStep ==
  ASSUME TypeInv, FounderInv, OnceInv, "groups" \notin scenario.ops, NEW w \in Workers,
         Step(w) \/ Timeout(w)
  PROVE  OnceInv'
  <1>1. [Next]_vars
    BY DEF Next
  <1>2. /\ job[w] \in Job /\ Shape(job[w]) /\ Founds(job[w]) /\ NoGroups(job[w])
        /\ job \in [Workers -> Job] /\ member \in [UserIds -> SUBSET Groups]
    BY DEF TypeInv, TypeOK, FounderInv, OnceInv
  <1>3. ASSUME Ok(w) \/ Fail(w), \A u \in UserIds, x \in OrgIds : Admin(u, x)' => Admin(u, x)
        PROVE  OnceInv'
    BY <1>1, <1>3, OverFounds, NoNewFounder
  \* The request goes on, at the same organization.
  <1>4. ASSUME NEW st, Goto(w, st), st # "setGroups", st = "adminGroup" => job[w].isNew,
               \A x \in OrgIds : Founding(w, x)' => Founding(w, x),
               \A u \in UserIds, x \in OrgIds : Admin(u, x)' => Admin(u, x)
        PROVE  OnceInv'
    <2>1. /\ job'[w].op = job[w].op /\ job'[w].wants = job[w].wants
          /\ job'[w].fields = job[w].fields /\ job'[w].stage = st
          /\ job'[w].isNew = job[w].isNew /\ \A v \in Workers : v # w => job'[v] = job[v]
      BY <1>2, <1>4 DEF Goto, Job
    <2>2. NoGroups(job'[w])
      BY <1>2, <1>4, <2>1 DEF NoGroups
    <2> QED
      BY <1>1, <1>4, <2>1, <2>2, NoNewFounder
  <1>5. CASE GetOrg(w)
    <2>1. /\ job[w].op = "register" /\ ~job[w].isNew /\ UNCHANGED member
      BY <1>2, <1>5 DEF GetOrg, At, Founds, userTables
    <2>2. CASE Fail(w)
      BY <1>3, <2>1, <2>2 DEF Admin
    <2>3. CASE Goto(w, "makeOrg")
      <3>1. \A x \in OrgIds : ~Founding(w, x)'
        BY <1>2, <2>3 DEF Goto, Job, Founding
      <3> QED
        BY <1>4, <2>1, <2>3, <3>1 DEF Admin
    <2>4. ASSUME NEW x \in OrgIds, job' = [job EXCEPT ![w].org = x, ![w].stage = "insert"]
          PROVE  OnceInv'
      <3>1. /\ job'[w].op = "register" /\ job'[w].wants = job[w].wants
            /\ job'[w].stage = "insert" /\ ~job'[w].isNew
            /\ \A v \in Workers : v # w => job'[v] = job[v]
        BY <1>2, <2>1, <2>4 DEF Job
      <3>2. NoGroups(job'[w]) /\ \A y \in OrgIds : ~Founding(w, y)'
        BY <1>2, <2>1, <3>1 DEF NoGroups, Founding
      <3> QED
        BY <1>1, <2>1, <3>1, <3>2, NoNewFounder DEF Admin
    <2> QED
      BY <1>5, <2>2, <2>3, <2>4 DEF GetOrg
  \* A new organization, which nobody else founds or administers.
  <1>6. CASE MakeOrg(w)
    <2>1. /\ job' = [job EXCEPT ![w].org = nextOrg, ![w].isNew = TRUE, ![w].stage = "insert"]
          /\ nextOrg' = nextOrg + 1 /\ nextOrg \in Nat /\ job[w].op = "register"
          /\ UNCHANGED <<member, scenario>> /\ OrgIds \subseteq Nat
      BY <1>6 DEF MakeOrg, InsertOrg, At, userTables, OrgIds, TypeInv, TypeOK
    <2>2. /\ job'[w].op = "register" /\ job'[w].stage = "insert" /\ job'[w].org = nextOrg
          /\ job'[w].wants = job[w].wants /\ \A v \in Workers : v # w => job'[v] = job[v]
      BY <1>2, <2>1 DEF Job
    <2>3. (\A v \in Workers : NoGroups(job[v]))'
      BY <1>2, <2>1, <2>2 DEF NoGroups, OnceInv
    <2>4. \A v \in Workers, x \in OrgIds : Founding(v, x) => x < nextOrg
      BY DEF FounderInv, Founds, Founding
    <2>5. \A x \in OrgIds : Founding(w, x)' => x = nextOrg
      BY <2>2 DEF Founding
    <2>6. \A v \in Workers, x \in OrgIds : v # w => (Founding(v, x)' <=> Founding(v, x))
      BY <2>2 DEF Founding
    <2>7. \A u \in UserIds, x \in OrgIds : /\ Admin(u, x)' <=> Admin(u, x)
                                           /\ Admin(u, x) => x < nextOrg
      BY <2>1 DEF Admin, OnceInv
    <2>8. OneFounder'
      <3>1. ASSUME NEW x \in OrgIds, NEW v \in Workers, NEW z \in Workers,
                   Founding(v, x)', Founding(z, x)'
            PROVE  v = z
        <4>1. CASE v # w /\ z # w
          BY <2>6, <3>1, <4>1 DEF OnceInv, OneFounder
        <4>2. CASE v = w /\ z # w
          BY <2>1, <2>4, <2>5, <2>6, <3>1, <4>2
        <4>3. CASE v # w /\ z = w
          BY <2>1, <2>4, <2>5, <2>6, <3>1, <4>3
        <4> QED
          BY <4>1, <4>2, <4>3
      <3>2. ASSUME NEW x \in OrgIds, NEW v \in Workers, NEW u \in UserIds, Founding(v, x)'
            PROVE  ~Admin(u, x)'
        <4>1. CASE v = w
          BY <2>1, <2>5, <2>7, <3>2, <4>1
        <4>2. CASE v # w
          BY <2>6, <2>7, <3>2, <4>2 DEF OnceInv, OneFounder, Admin
        <4> QED
          BY <4>1, <4>2
      <3>3. \A x \in OrgIds, t \in UserIds, u \in UserIds : Admin(t, x)' /\ Admin(u, x)' => t = u
        BY <2>7 DEF OnceInv, OneFounder, Admin
      <3> QED
        BY <3>1, <3>2, <3>3 DEF OneFounder, Admin
    <2>9. \A u \in UserIds, x \in OrgIds : Admin(u, x)' => x < nextOrg'
      BY <2>1, <2>7
    <2> QED
      BY <2>3, <2>8, <2>9 DEF OnceInv, Admin
  <1>7. CASE InsertUser(w)
    <2>1. PICK row : \/ Fail(w)
                     \/ job' = [job EXCEPT ![w].user = nextUser, ![w].row = row,
                                           ![w].stage = "defaultGroups"]
      BY <1>7 DEF InsertUser
    <2>2. UNCHANGED member /\ job[w].op = "register" /\ job[w].stage = "insert"
      BY <1>7 DEF InsertUser, At
    <2>3. CASE Fail(w)
      BY <1>3, <2>2, <2>3 DEF Admin
    <2>4. CASE job' = [job EXCEPT ![w].user = nextUser, ![w].row = row,
                                  ![w].stage = "defaultGroups"]
      <3>1. /\ job'[w].op = "register" /\ job'[w].wants = job[w].wants
            /\ job'[w].stage = "defaultGroups" /\ job'[w].isNew = job[w].isNew
            /\ job'[w].org = job[w].org /\ \A v \in Workers : v # w => job'[v] = job[v]
        BY <1>2, <2>2, <2>4 DEF Job
      <3>2. NoGroups(job'[w]) /\ \A x \in OrgIds : Founding(w, x)' => Founding(w, x)
        BY <1>2, <2>2, <3>1 DEF NoGroups, Founding
      <3> QED
        BY <1>1, <2>2, <3>1, <3>2, NoNewFounder DEF Admin
    <2> QED
      BY <2>1, <2>3, <2>4
  <1>8. CASE FindDefaultGroups(w) \/ AddDefaultGroups(w) \/ SendApproval(w)
    <2>1. PICK st \in {"joinDefaults", "password", "adminGroup", "addGroups"} :
             /\ Fail(w) \/ Goto(w, st)
             /\ st = "adminGroup" => job[w].isNew
      BY <1>8 DEF FindDefaultGroups, AddDefaultGroups, SendApproval, JoinGroups
    <2>2. /\ job[w].op = "register" /\ job[w].user \in UserIds
          /\ job[w].stage \in {"defaultGroups", "joinDefaults", "mail"}
      BY <1>2, <1>8 DEF FindDefaultGroups, AddDefaultGroups, SendApproval, At, Shape
    <2>3. \/ UNCHANGED member
          \/ member' = [member EXCEPT ![job[w].user] = @ \cup {<<job[w].org, "Users">>}]
      BY <1>8 DEF FindDefaultGroups, AddDefaultGroups, SendApproval, JoinGroups, userTables
    <2>4. \A u \in UserIds, x \in OrgIds : Admin(u, x)' => Admin(u, x)
      BY <1>2, <2>2, <2>3 DEF Admin
    <2>5. Goto(w, st) => \A x \in OrgIds : Founding(w, x)' => Founding(w, x)
      BY <1>2, <2>1, <2>2 DEF Goto, Job, Founding
    <2> QED
      BY <1>3, <1>4, <2>1, <2>4, <2>5
  <1>9. CASE SetPassword(w)
    <2>1. PICK row : Fail(w) \/ job' = [job EXCEPT ![w].row = row, ![w].stage = "mail"]
      BY <1>9 DEF SetPassword
    <2>2. UNCHANGED member /\ job[w].op = "register" /\ job[w].stage = "password"
      BY <1>9 DEF SetPassword, At
    <2>3. CASE Fail(w)
      BY <1>3, <2>2, <2>3 DEF Admin
    <2>4. CASE job' = [job EXCEPT ![w].row = row, ![w].stage = "mail"]
      <3>1. /\ job'[w].op = "register" /\ job'[w].wants = job[w].wants
            /\ job'[w].stage = "mail" /\ job'[w].isNew = job[w].isNew
            /\ job'[w].org = job[w].org /\ \A v \in Workers : v # w => job'[v] = job[v]
        BY <1>2, <2>2, <2>4 DEF Job
      <3>2. NoGroups(job'[w]) /\ \A x \in OrgIds : Founding(w, x)' => Founding(w, x)
        BY <1>2, <2>2, <3>1 DEF NoGroups, Founding
      <3> QED
        BY <1>1, <2>2, <3>1, <3>2, NoNewFounder DEF Admin
    <2> QED
      BY <2>1, <2>3, <2>4
  \* The founder becomes the administrator and is the founder no more.
  <1>10. CASE AddAdminGroup(w)
    <2>1. /\ job[w].op = "register" /\ job[w].stage = "adminGroup" /\ job[w].isNew
          /\ job[w].org \in OrgIds /\ job[w].user \in UserIds /\ UNCHANGED <<scenario, nextOrg>>
          /\ job[w].org < nextOrg
          /\ \/ Fail(w) /\ UNCHANGED member
             \/ /\ member' = [member EXCEPT ![job[w].user] = @ \cup {<<job[w].org, "Admins">>}]
                /\ Goto(w, "addGroups")
      BY <1>2, <1>10 DEF AddAdminGroup, JoinGroups, At, Shape, NoGroups, Founds, orgTables
    <2>2. CASE Fail(w) /\ UNCHANGED member
      BY <1>3, <2>2 DEF Admin
    <2>3. CASE /\ member' = [member EXCEPT ![job[w].user] = @ \cup {<<job[w].org, "Admins">>}]
               /\ Goto(w, "addGroups")
      <3> DEFINE y == job[w].org
                 f == job[w].user
      <3>1. /\ job'[w].op = "register" /\ job'[w].wants = job[w].wants
            /\ job'[w].stage = "addGroups" /\ \A v \in Workers : v # w => job'[v] = job[v]
        BY <1>2, <2>1, <2>3 DEF Goto, Job
      <3>2. (\A v \in Workers : NoGroups(job[v]))'
        BY <1>2, <2>1, <3>1 DEF NoGroups, OnceInv
      <3>3. /\ Founding(w, y) /\ \A x \in OrgIds : ~Founding(w, x)'
            /\ \A v \in Workers, x \in OrgIds : v # w => (Founding(v, x)' <=> Founding(v, x))
        BY <2>1, <3>1 DEF Founding
      <3>4. OneFounder
        BY DEF OnceInv
      <3>5. /\ \A u \in UserIds : ~Admin(u, y)
            /\ \A v \in Workers : v # w => ~Founding(v, y)
        BY <2>1, <3>3, <3>4 DEF OneFounder, Admin
      <3>6. \A u \in UserIds, x \in OrgIds : Admin(u, x)' <=> Admin(u, x) \/ (u = f /\ x = y)
        BY <1>2, <2>1, <2>3 DEF Admin
      <3>7. OneFounder'
        <4>1. \A x \in OrgIds : \A v, z \in Workers : Founding(v, x)' /\ Founding(z, x)' => v = z
          BY <3>3, <3>4 DEF OneFounder
        <4>2. \A x \in OrgIds : \A t, u \in UserIds : Admin(t, x)' /\ Admin(u, x)' => t = u
          BY <3>4, <3>5, <3>6 DEF OneFounder, Admin
        <4>3. \A x \in OrgIds : \A v \in Workers, u \in UserIds : Founding(v, x)' => ~Admin(u, x)'
          BY <3>3, <3>4, <3>5, <3>6 DEF OneFounder, Admin
        <4> QED
          BY <4>1, <4>2, <4>3 DEF OneFounder, Admin
      <3>8. \A u \in UserIds, x \in OrgIds : Admin(u, x)' => x < nextOrg'
        BY <2>1, <3>6 DEF OnceInv
      <3> QED
        BY <3>2, <3>7, <3>8 DEF OnceInv, Admin
    <2> QED
      BY <2>1, <2>2, <2>3
  <1>11. ASSUME NEW g \in Listed, AddRequestedGroup(w, g)  PROVE OnceInv'
    BY <1>2, <1>11 DEF AddRequestedGroup, At, NoGroups
  <1>12. CASE FindProfileOrg(w)
    <2>1. job[w].op = "profile" /\ UNCHANGED member
      BY <1>12 DEF FindProfileOrg, At, userTables
    <2>2. CASE Goto(w, "save")
      <3>1. \A x \in OrgIds : ~Founding(w, x)'
        BY <1>2, <2>1, <2>2 DEF Goto, Job, Founding
      <3> QED
        BY <1>4, <2>1, <2>2, <3>1 DEF Admin
    <2>3. ASSUME NEW row, job' = [job EXCEPT ![w].row = row, ![w].stage = "save"]
          PROVE  OnceInv'
      <3>1. job'[w].op = "profile" /\ \A v \in Workers : v # w => job'[v] = job[v]
        BY <1>2, <2>1, <2>3 DEF Job
      <3>2. NoGroups(job'[w]) /\ \A x \in OrgIds : ~Founding(w, x)'
        BY <3>1 DEF NoGroups, Founding
      <3> QED
        BY <1>1, <2>1, <3>1, <3>2, NoNewFounder DEF Admin
    <2>4. Goto(w, "save") \/ \E row : job' = [job EXCEPT ![w].row = row, ![w].stage = "save"]
      BY <1>2, <1>12 DEF FindProfileOrg
    <2> QED
      BY <2>2, <2>3, <2>4
  <1>13. CASE SavePatch(w)
    <2>1. (Ok(w) \/ Fail(w)) /\ UNCHANGED member
      BY <1>2, <1>13 DEF SavePatch, At, NoGroups
    <2> QED
      BY <1>3, <2>1 DEF Admin
  <1>14. ASSUME SetGroups(w)  PROVE OnceInv'
    BY <1>2, <1>14 DEF SetGroups, At, NoGroups
  <1>15. CASE DeleteOrg(w)
    <2>1. (Ok(w) \/ Fail(w)) /\ \A u \in UserIds : member'[u] \subseteq member[u]
      BY <1>2, <1>15 DEF DeleteOrg
    <2> QED
      BY <1>3, <2>1 DEF Admin
  <1>16. CASE Registered(w) \/ ConfirmReset(w) \/ SaveProfile(w) \/ SaveOrg(w) \/ Timeout(w)
    <2>1. (Ok(w) \/ Fail(w)) /\ UNCHANGED member
      BY <1>16 DEF Registered, ConfirmReset, SaveProfile, SaveOrg, Timeout, userTables
    <2> QED
      BY <1>3, <2>1 DEF Admin
  <1> QED
    BY <1>5, <1>6, <1>7, <1>8, <1>9, <1>10, <1>11, <1>12, <1>13, <1>14, <1>15, <1>16 DEF Step

\* However registrations of one name overlap with each other, with saves that bring
\* an organization back and with deletions, an organization gets one administrator
\* at most, as long as no request names groups.
THEOREM OnlyFounder == Spec => []OneFounder
  <1>1. Init => FounderInv /\ OnceInv
    BY DEF Init, FounderInv, Founds, NoJob, OnceInv, NoGroups, OneFounder, Founding, Admin
  <1>2. TypeInv /\ FounderInv /\ [Next]_vars => FounderInv'
    BY FounderStays
  <1>3. TypeInv /\ FounderInv /\ OnceInv /\ [Next]_vars => OnceInv'
    <2> SUFFICES ASSUME TypeInv, FounderInv, OnceInv, [Next]_vars PROVE OnceInv'
      OBVIOUS
    <2>1. UNCHANGED scenario
      BY ScenarioStays
    <2>2. CASE "groups" \in scenario.ops
      BY <2>1, <2>2 DEF OnceInv
    <2>3. CASE UNCHANGED vars \/ Exhausted
      BY <2>3 DEF Exhausted, vars, OnceInv, NoGroups, OneFounder, Founding, Admin
    <2>4. ASSUME NEW w \in Workers, Request(w) \/ Step(w) \/ Timeout(w),
                 "groups" \notin scenario.ops
          PROVE  OnceInv'
      BY <2>4, OnceRequest, OnceStep
    <2> QED
      BY <2>2, <2>3, <2>4 DEF Next
  <1>4. OnceInv => OneFounder
    BY DEF OnceInv, OneFounder
  <1> QED
    BY <1>1, <1>2, <1>3, <1>4, TypesHold, PTL DEF Spec

-----------------------------------------------------------------------------
(***************************************************************************)
(* While requests come one at a time: passwords, links, invitations and    *)
(* deactivations.  The one request under way holds what is stored, and no  *)
(* hash is made twice.                                                     *)
(***************************************************************************)

\* What is stored, and what was promised about it.
StoreInv ==
    /\ \A u \in UserIds : u >= nextUser => users[u] = NoRow /\ promised[u] = Raw
    /\ \A u \in UserIds : Exists(u) => users[u].pw < nextHash
    /\ \A l \in spent : l[1] < nextUser /\ l[2] < nextHash
    /\ \A u \in UserIds : Exists(u) /\ promised[u] # Raw => users[u].pw = promised[u]
    /\ \A u \in UserIds, l \in spent : Exists(u) /\ l[1] = u => l[2] # users[u].pw

\* A request holds what is stored, but for the fields it is to write.
Remembers(j) ==
    /\ j.op = "idle" => ~j.token
    /\ j.op = "register" /\ j.stage \in {"getOrg", "makeOrg", "insert"} =>
          /\ j.row.pw = Raw
          /\ j.token => \A u \in UserIds : Exists(u) => users[u].email # j.row.email
    /\ j.op = "register" /\ j.stage \notin {"getOrg", "makeOrg", "insert"}
          => users[j.user] = j.row /\ promised[j.user] = Raw
    /\ j.op = "confirm" => users[j.user] = j.row
    /\ j.op = "profile" =>
          /\ Exists(j.user)
          /\ j.row.pw = users[j.user].pw
          /\ j.row.active = users[j.user].active
    /\ j.op = "patch" /\ j.stage = "save" =>
          /\ Exists(j.user)
          /\ j.row.pw = IF "password" \in j.fields THEN Raw ELSE users[j.user].pw
          /\ "active" \notin j.fields /\ j.row.active => users[j.user].active

\* Only the scenario's workers work, which is one worker or is not serial.
SerialInv ==
    /\ \A w \in Workers : ~Idle(w) => w \in scenario.workers
    /\ Serial => StoreInv /\ \A w \in Workers : Remembers(job[w])

-----------------------------------------------------------------------------

\* The one worker of a serial scenario.
LEMMA OnlyWorker ==
  ASSUME TypeInv, SerialInv, Serial, NEW w \in Workers, w \in scenario.workers
  PROVE  \A v \in Workers : v # w => Idle(v)
  <1>1. scenario.workers \subseteq Workers
    BY ConstantsAssumption DEF TypeInv, TypeOK
  <1>2. IsFiniteSet(scenario.workers)
    BY <1>1, ConstantsAssumption, FS_Subset
  <1>3. IsFiniteSet(scenario.workers \ {w}) /\ Cardinality(scenario.workers \ {w}) = 0
    BY <1>2, FS_RemoveElement DEF Serial
  <1>4. scenario.workers \ {w} = {}
    BY <1>3, FS_EmptySet
  <1> QED
    BY <1>4 DEF SerialInv

\* It is enough to look at the worker that acts.
LEMMA SerialStep ==
  ASSUME TypeInv, SerialInv, NEW w \in Workers, w \in scenario.workers,
         UNCHANGED scenario, \A v \in Workers : v # w => job'[v] = job[v],
         Serial => StoreInv' /\ Remembers(job[w])'
  PROVE  SerialInv'
  <1>1. \A v \in Workers : ~Idle(v)' => v \in scenario'.workers
    BY DEF SerialInv, Idle
  <1>2. ASSUME Serial  PROVE \A v \in Workers : Remembers(job[v])'
    <2>1. ASSUME NEW v \in Workers, v # w  PROVE Remembers(job[v])'
      <3>1. job'[v] = job[v] /\ job[v].op = "idle" /\ Remembers(job[v])
        BY <1>2, <2>1, OnlyWorker DEF Idle, SerialInv
      <3> QED
        BY <3>1 DEF Remembers
    <2> QED
      BY <1>2, <2>1
  <1>3. Serial' = Serial
    BY DEF Serial
  <1> QED
    BY <1>1, <1>2, <1>3 DEF SerialInv

\* The tables are left as they are.
LEMMA SameStore ==
  ASSUME TypeInv, StoreInv, UNCHANGED <<users, promised, spent, nextUser>>,
         nextHash' \in Nat, nextHash' >= nextHash
  PROVE  StoreInv'
  <1>1. nextHash \in Nat /\ \A row \in Row : row.pw \in Nat
    BY ConstantsAssumption DEF TypeInv, TypeOK, Row, Raw, Hashes
  <1>2. \A l \in spent : l[2] \in Nat
    BY ConstantsAssumption DEF TypeInv, TypeOK, LinkType, Raw, Hashes
  <1>3. \A u \in UserIds : Exists(u) => users[u] \in Row
    BY DEF TypeInv, TypeOK, Exists
  <1> QED
    BY <1>1, <1>2, <1>3 DEF StoreInv, Exists, LinkFor

\* A stored row is written again, with its password,
LEMMA SamePassword ==
  ASSUME TypeInv, StoreInv, NEW u \in UserIds, NEW row \in Row, Exists(u),
         SaveUser(u, row), row.pw = users[u].pw,
         UNCHANGED <<promised, spent, nextUser, nextHash>>
  PROVE  StoreInv'
  <1>1. /\ users' \in [UserIds -> Row \cup {NoRow}] /\ users'[u] = row
        /\ \A v \in UserIds : v # u => users'[v] = users[v]
    BY DEF TypeInv, TypeOK, SaveUser
  <1> QED
    BY <1>1 DEF StoreInv, Exists, LinkFor

\* with a new one,
LEMMA NewPassword ==
  ASSUME TypeInv, StoreInv, NEW u \in UserIds, NEW row \in Row, Exists(u),
         SaveUser(u, row), row.pw = nextHash, nextHash' = nextHash + 1,
         UNCHANGED nextUser,
         \/ promised' = [promised EXCEPT ![u] = nextHash]
         \/ promised' = promised /\ promised[u] = Raw,
         spent' = spent \/ \E e : spent' = spent \cup {<<u, users[u].pw, e>>}
  PROVE  StoreInv'
  <1>1. /\ users' \in [UserIds -> Row \cup {NoRow}] /\ users'[u] = row
        /\ \A v \in UserIds : v # u => users'[v] = users[v]
        /\ promised \in [UserIds -> {Raw} \cup Hashes]
        /\ NoRow \notin Row
    BY SentinelsAssumption DEF TypeInv, TypeOK, SaveUser
  <1>2. /\ nextHash \in Nat \ {0} /\ nextUser \in Nat /\ u \in Nat
        /\ \A v \in UserIds : Exists(v) => users[v].pw \in Nat
        /\ \A l \in spent : l[1] \in UserIds /\ l[2] \in Nat
    <2>1. \A v \in UserIds : Exists(v) => users[v].pw \in Nat
      BY ConstantsAssumption DEF TypeInv, TypeOK, Row, Raw, Hashes, Exists
    <2>2. \A l \in spent : l[1] \in UserIds /\ l[2] \in Nat
      BY ConstantsAssumption DEF TypeInv, TypeOK, LinkType, Raw, Hashes
    <2> QED
      BY <2>1, <2>2 DEF TypeInv, TypeOK, UserIds
  <1>3. u < nextUser
    BY <1>2 DEF StoreInv, Exists
  <1>4. /\ \A v \in UserIds : v >= nextUser' => users'[v] = NoRow /\ promised'[v] = Raw
        /\ \A v \in UserIds : Exists(v)' => users'[v].pw < nextHash'
    BY <1>1, <1>2, <1>3 DEF StoreInv, Exists
  <1>5. \A l \in spent' : l[1] < nextUser' /\ l[2] < nextHash /\ l[2] < nextHash'
    BY <1>2, <1>3 DEF StoreInv
  <1>6. \A v \in UserIds : Exists(v)' /\ promised'[v] # Raw => users'[v].pw = promised'[v]
    BY <1>1 DEF StoreInv, Exists
  <1>7. \A v \in UserIds, l \in spent' : Exists(v)' /\ l[1] = v => l[2] # users'[v].pw
    <2>1. \A l \in spent' : l[2] # nextHash
      BY <1>2, <1>5 DEF StoreInv
    <2>2. ASSUME NEW v \in UserIds, v # u, Exists(v)', NEW l \in spent', l[1] = v
          PROVE  l[2] # users'[v].pw
      BY <1>1, <2>2 DEF StoreInv, Exists
    <2> QED
      BY <1>1, <2>1, <2>2
  <1> QED
    BY <1>4, <1>5, <1>6, <1>7 DEF StoreInv

\* or with one that was sent as it is.
LEMMA RawPassword ==
  ASSUME TypeInv, StoreInv, NEW u \in UserIds, NEW row \in Row, Exists(u),
         SaveUser(u, row), row.pw = Raw, UNCHANGED <<nextUser, nextHash>>,
         promised' = [promised EXCEPT ![u] = Raw],
         spent' = {l \in spent : l[1] # u}
  PROVE  StoreInv'
  <1>1. /\ users' \in [UserIds -> Row \cup {NoRow}] /\ users'[u] = row
        /\ \A v \in UserIds : v # u => users'[v] = users[v]
        /\ promised \in [UserIds -> {Raw} \cup Hashes]
        /\ NoRow \notin Row /\ nextHash \in Nat \ {0} /\ nextUser \in Nat /\ u \in Nat
    BY SentinelsAssumption DEF TypeInv, TypeOK, SaveUser, UserIds
  <1>2. u < nextUser
    BY <1>1 DEF StoreInv, Exists
  <1> QED
    BY <1>1, <1>2 DEF StoreInv, Exists, LinkFor, Raw

-----------------------------------------------------------------------------

\* A step of the worker that leaves users and histories as they are.
LEMMA SerialMove ==
  ASSUME TypeInv, SerialInv, NEW w \in Workers, w \in scenario.workers,
         \A v \in Workers : v # w => job'[v] = job[v],
         UNCHANGED <<scenario, users, promised, spent, nextUser, nextHash>>,
         Serial => Remembers(job[w])'
  PROVE  SerialInv'
  <1>1. nextHash \in Nat
    BY DEF TypeInv, TypeOK
  <1>2. ASSUME Serial  PROVE StoreInv'
    <2>1. StoreInv
      BY <1>2 DEF SerialInv
    <2> QED
      BY <1>1, <2>1, SameStore
  <1> QED
    BY <1>2, SerialStep

LEMMA SerialRequest ==
  ASSUME TypeInv, SerialInv, NEW w \in Workers, Request(w)
  PROVE  SerialInv'
  <1>1. ASSUME NEW n, NEW e, NEW o, NEW t, NEW gs, Register(w, n, e, o, t, gs)
        PROVE  SerialInv'
    <2> DEFINE row == [name |-> n, email |-> e, org |-> 1, active |-> FALSE, pw |-> Raw]
    <2>1. /\ job' = [job EXCEPT ![w] = [NoJob EXCEPT
                        !.op = "register", !.stage = "getOrg", !.orgName = o,
                        !.token = t, !.wants = gs, !.row = row]]
          /\ row.email = e /\ row.pw = Raw
      BY <1>1 DEF Register
    <2> HIDE DEF row
    <2>2. /\ job'[w].op = "register" /\ job'[w].stage = "getOrg" /\ job'[w].token = t
          /\ job'[w].row = row /\ \A v \in Workers : v # w => job'[v] = job[v]
      BY <2>1 DEF NoJob, TypeInv, TypeOK
    <2>3. /\ UNCHANGED <<scenario, users, promised, spent, nextUser, nextHash>>
          /\ w \in scenario.workers
      BY <1>1 DEF Register, Free, orgTables, userTables, history
    <2>4. Remembers(job[w])'
      BY <1>1, <2>1, <2>2, <2>3 DEF Register, TokenValid, Remembers, Exists
    <2> QED
      BY <2>2, <2>3, <2>4, SerialMove
  <1>2. ASSUME NEW l \in links, StartConfirm(w, l)  PROVE SerialInv'
    <2>1. /\ job'[w].op = "confirm" /\ job'[w].user = l[1] /\ job'[w].row = users[l[1]]
          /\ \A v \in Workers : v # w => job'[v] = job[v]
      BY <1>2 DEF StartConfirm, NoJob, TypeInv, TypeOK
    <2>2. /\ UNCHANGED <<scenario, users, promised, spent, nextUser, nextHash>>
          /\ w \in scenario.workers
      BY <1>2 DEF StartConfirm, Free, orgTables, userTables, history
    <2>3. Remembers(job[w])'
      BY <2>1, <2>2 DEF Remembers
    <2> QED
      BY <2>1, <2>2, <2>3, SerialMove
  <1>3. ASSUME NEW u \in UserIds, NEW o, NEW p, StartProfile(w, u, o, p)  PROVE SerialInv'
    <2>1. /\ job'[w].op = "profile" /\ job'[w].user = u /\ job'[w].row = users[u]
          /\ \A v \in Workers : v # w => job'[v] = job[v]
      BY <1>3 DEF StartProfile, NoJob, TypeInv, TypeOK
    <2>2. /\ UNCHANGED <<scenario, users, promised, spent, nextUser, nextHash>>
          /\ w \in scenario.workers /\ Exists(u)
      BY <1>3 DEF StartProfile, Free, orgTables, userTables, history
    <2>3. Remembers(job[w])'
      BY <2>1, <2>2 DEF Remembers, Exists
    <2> QED
      BY <2>1, <2>2, <2>3, SerialMove
  <1>4. ASSUME NEW u \in UserIds, NEW fs, NEW n \in Usernames, NEW e \in Emails,
               NEW a \in BOOLEAN, NEW gs, StartPatch(w, u, fs, n, e, a, gs)
        PROVE  SerialInv'
    <2> DEFINE row == PatchedRow(u, fs, n, e, a)
    <2>1. /\ Exists(u) /\ row.active = (IF "active" \in fs THEN a ELSE users[u].active)
          /\ row.pw = IF "password" \in fs THEN Raw ELSE users[u].pw
      BY <1>4, PatchedType DEF StartPatch
    <2>2. job' = [job EXCEPT ![w] = [NoJob EXCEPT !.op = "patch", !.stage = "save",
                     !.user = u, !.fields = fs, !.wants = gs, !.row = row]]
      BY <1>4 DEF StartPatch
    <2> HIDE DEF row
    <2>3. /\ job'[w].op = "patch" /\ job'[w].user = u /\ job'[w].row = row
          /\ job'[w].fields = fs /\ \A v \in Workers : v # w => job'[v] = job[v]
      BY <2>2 DEF NoJob, TypeInv, TypeOK
    <2>4. /\ UNCHANGED <<scenario, users, promised, spent, nextUser, nextHash>>
          /\ w \in scenario.workers
      BY <1>4 DEF StartPatch, Free, orgTables, userTables, history
    <2>5. Remembers(job[w])'
      BY <2>1, <2>3, <2>4 DEF Remembers, Exists
    <2> QED
      BY <2>3, <2>4, <2>5, SerialMove
  <1>5. ASSUME NEW x, NEW o, StartPutOrg(w, x, o)  PROVE SerialInv'
    <2>1. job'[w].op = "orgput" /\ \A v \in Workers : v # w => job'[v] = job[v]
      BY <1>5 DEF StartPutOrg, NoJob, TypeInv, TypeOK
    <2>2. /\ UNCHANGED <<scenario, users, promised, spent, nextUser, nextHash>>
          /\ w \in scenario.workers
      BY <1>5 DEF StartPutOrg, Free, orgTables, userTables, history
    <2>3. Remembers(job[w])'
      BY <2>1 DEF Remembers
    <2> QED
      BY <2>1, <2>2, <2>3, SerialMove
  <1>6. CASE \/ \E e \in Emails : Invite(w, e) \/ RequestReset(w, e)
             \/ \E o \in OrgNames : CreateOrg(w, o)
             \/ \E g \in Listed : DeleteGroup(w, g)
    <2>1. /\ UNCHANGED <<scenario, users, promised, spent, nextUser, nextHash, job>>
          /\ w \in scenario.workers /\ job[w].op = "idle"
      BY <1>6 DEF Invite, RequestReset, CreateOrg, DeleteGroup, Free, Idle, orgTables,
                  userTables, history
    <2>2. Serial => Remembers(job[w])'
      BY <2>1 DEF Remembers, SerialInv
    <2> QED
      BY <2>1, <2>2, SerialMove
  <1>7. ASSUME NEW x, CollectOrg(w, x)  PROVE SerialInv'
    <2> DEFINE us == {u \in UserIds : Exists(u) /\ users[u].org = x}
    <2>1. job' = [job EXCEPT ![w] = [NoJob EXCEPT !.op = "orgdelete", !.stage = "save",
                                                  !.org = x, !.gone = us]]
      BY <1>7 DEF CollectOrg
    <2> HIDE DEF us
    <2>2. job'[w].op = "orgdelete" /\ \A v \in Workers : v # w => job'[v] = job[v]
      BY <2>1 DEF NoJob, TypeInv, TypeOK
    <2>3. /\ UNCHANGED <<scenario, users, promised, spent, nextUser, nextHash>>
          /\ w \in scenario.workers
      BY <1>7 DEF CollectOrg, Free, orgTables, userTables, history
    <2>4. Remembers(job[w])'
      BY <2>2 DEF Remembers
    <2> QED
      BY <2>2, <2>3, <2>4, SerialMove
  <1> QED
    BY <1>1, <1>2, <1>3, <1>4, <1>5, <1>6, <1>7 DEF Request

-----------------------------------------------------------------------------

\* A request that ends has nothing to remember.
LEMMA EndedForgets ==
  ASSUME TypeInv, NEW w \in Workers, Ok(w) \/ Fail(w)
  PROVE  Remembers(job[w])' /\ \A v \in Workers : v # w => job'[v] = job[v]
  BY DEF Ok, Fail, NoJob, Remembers, TypeInv, TypeOK

\* What a request holds keeps while users and promises do.
LEMMA StillRemembers ==
  ASSUME TypeInv, NEW w \in Workers, Remembers(job[w]), UNCHANGED <<users, promised>>,
         job[w].op # "idle", job'[w].op = job[w].op, job'[w].token = job[w].token,
         job'[w].user = job[w].user, job'[w].row = job[w].row,
         job'[w].fields = job[w].fields,
         \/ job'[w].stage = job[w].stage
         \/ /\ job[w].op = "register"
            /\ job'[w].stage \in {"getOrg", "makeOrg", "insert"}
                 <=> job[w].stage \in {"getOrg", "makeOrg", "insert"}
         \/ job[w].op = "profile"
  PROVE  Remembers(job[w])'
  BY DEF Remembers, Exists

\* Steps that write no user.
LEMMA SerialQuiet ==
  ASSUME TypeInv, SerialInv, NEW w \in Workers,
         \/ GetOrg(w) \/ MakeOrg(w) \/ SendApproval(w) \/ FindDefaultGroups(w)
         \/ AddDefaultGroups(w) \/ AddAdminGroup(w) \/ \E g \in Listed : AddRequestedGroup(w, g)
         \/ FindProfileOrg(w) \/ SetGroups(w) \/ SaveOrg(w) \/ Timeout(w)
  PROVE  SerialInv'
  <1>1. /\ job[w] \in Job /\ Shape(job[w]) /\ job[w].op # "idle" /\ w \in scenario.workers
        /\ UNCHANGED <<scenario, users, promised, spent, nextUser, nextHash>>
    BY DEF GetOrg, MakeOrg, SendApproval, FindDefaultGroups, AddDefaultGroups, AddAdminGroup,
           AddRequestedGroup, FindProfileOrg, SetGroups, SaveOrg, Timeout, At, Idle, orgTables, userTables,
           history, TypeInv, TypeOK, SerialInv, InsertOrg
  <1>2. Serial => Remembers(job[w])
    BY DEF SerialInv
  <1>3. ASSUME Ok(w) \/ Fail(w)  PROVE SerialInv'
    BY <1>1, <1>3, EndedForgets, SerialMove
  <1>4. ASSUME NEW st, Goto(w, st),
               \/ job[w].op = "register" /\ (st \in {"getOrg", "makeOrg", "insert"}
                     <=> job[w].stage \in {"getOrg", "makeOrg", "insert"})
               \/ job[w].op = "profile"
        PROVE  SerialInv'
    <2>1. /\ job'[w] = [job[w] EXCEPT !.stage = st]
          /\ \A v \in Workers : v # w => job'[v] = job[v]
      BY <1>4 DEF Goto, TypeInv, TypeOK
    <2>2. /\ job'[w].op = job[w].op /\ job'[w].token = job[w].token
          /\ job'[w].user = job[w].user /\ job'[w].row = job[w].row
          /\ job'[w].fields = job[w].fields /\ job'[w].stage = st
      BY <1>1, <2>1 DEF Job
    <2>3. Serial => Remembers(job[w])'
      BY <1>1, <1>2, <1>4, <2>2, StillRemembers
    <2> QED
      BY <1>1, <2>1, <2>3, SerialMove
  <1>5. CASE GetOrg(w) \/ MakeOrg(w)
    <2>1. ASSUME NEW x, NEW b, job[w].op = "register", job[w].stage \in {"getOrg", "makeOrg"},
                 \/ job' = [job EXCEPT ![w].org = x, ![w].stage = "insert"]
                 \/ job' = [job EXCEPT ![w].org = x, ![w].isNew = b, ![w].stage = "insert"]
          PROVE  SerialInv'
      <3>1. /\ job'[w].op = job[w].op /\ job'[w].token = job[w].token
            /\ job'[w].user = job[w].user /\ job'[w].row = job[w].row
            /\ job'[w].fields = job[w].fields /\ job'[w].stage = "insert"
            /\ \A v \in Workers : v # w => job'[v] = job[v]
        BY <1>1, <2>1 DEF TypeInv, TypeOK, Job
      <3>2. Serial => Remembers(job[w])'
        BY <1>1, <1>2, <2>1, <3>1, StillRemembers
      <3> QED
        BY <1>1, <3>1, <3>2, SerialMove
    <2> QED
      BY <1>3, <1>4, <1>5, <2>1 DEF GetOrg, MakeOrg, At
  <1>6. CASE SendApproval(w) \/ FindDefaultGroups(w)
    BY <1>3, <1>4, <1>6 DEF SendApproval, FindDefaultGroups, At
  <1>7. CASE AddDefaultGroups(w) \/ AddAdminGroup(w) \/ \E g \in Listed : AddRequestedGroup(w, g)
    <2>1. /\ job[w].op = "register" /\ job[w].stage \notin {"getOrg", "makeOrg", "insert"}
          /\ \/ Fail(w) \/ Goto(w, "password") \/ Goto(w, "addGroups")
             \/ \E g \in Listed : job' = [job EXCEPT ![w].wants = @ \ {g}]
      BY <1>7 DEF AddDefaultGroups, AddAdminGroup, AddRequestedGroup, At, JoinGroups
    <2>2. ASSUME NEW g \in Listed, job' = [job EXCEPT ![w].wants = @ \ {g}]
          PROVE  SerialInv'
      <3>1. /\ job'[w] = [job[w] EXCEPT !.wants = @ \ {g}]
            /\ \A v \in Workers : v # w => job'[v] = job[v]
        BY <2>2 DEF TypeInv, TypeOK
      <3>2. /\ job'[w].op = job[w].op /\ job'[w].token = job[w].token
            /\ job'[w].user = job[w].user /\ job'[w].row = job[w].row
            /\ job'[w].fields = job[w].fields /\ job'[w].stage = job[w].stage
        BY <1>1, <3>1 DEF Job
      <3>3. Serial => Remembers(job[w])'
        BY <1>1, <1>2, <3>2, StillRemembers
      <3> QED
        BY <1>1, <3>1, <3>3, SerialMove
    <2> QED
      BY <1>3, <1>4, <2>1, <2>2
  <1>8. CASE FindProfileOrg(w)
    <2>1. job[w].op = "profile" /\ job[w].row \in Row
      BY <1>1, <1>8 DEF FindProfileOrg, At, Shape
    <2>2. CASE Goto(w, "save")
      BY <1>4, <2>1, <2>2
    <2>3. ASSUME NEW x \in OrgIds,
                 job' = [job EXCEPT ![w].row = [@ EXCEPT !.org = x], ![w].stage = "save"]
          PROVE  SerialInv'
      <3>1. /\ job'[w].op = "profile" /\ job'[w].user = job[w].user
            /\ job'[w].row = [job[w].row EXCEPT !.org = x]
            /\ \A v \in Workers : v # w => job'[v] = job[v]
        BY <1>1, <2>1, <2>3 DEF TypeInv, TypeOK, Job
      <3>2. job'[w].row.pw = job[w].row.pw /\ job'[w].row.active = job[w].row.active
        BY <2>1, <3>1 DEF Row
      <3>3. Serial => Remembers(job[w])'
        BY <1>1, <1>2, <2>1, <3>1, <3>2 DEF Remembers, Exists
      <3> QED
        BY <1>1, <3>1, <3>3, SerialMove
    <2> QED
      BY <1>8, <2>2, <2>3 DEF FindProfileOrg, Named
  <1>9. CASE SetGroups(w) \/ SaveOrg(w) \/ Timeout(w)
    BY <1>3, <1>9 DEF SetGroups, SaveOrg, Timeout
  <1> QED
    BY <1>5, <1>6, <1>7, <1>8, <1>9

\* A user is inserted: nobody was promised anything about it.
LEMMA NewUser ==
  ASSUME TypeInv, StoreInv, NEW row \in Row, nextUser \in UserIds, row.pw = Raw,
         users' = [users EXCEPT ![nextUser] = row], nextUser' = nextUser + 1,
         UNCHANGED <<promised, spent, nextHash>>
  PROVE  StoreInv' /\ promised'[nextUser] = Raw
  <1>1. /\ users' \in [UserIds -> Row \cup {NoRow}] /\ users'[nextUser] = row
        /\ \A v \in UserIds : v # nextUser => users'[v] = users[v]
        /\ nextHash \in Nat \ {0} /\ nextUser \in Nat /\ UserIds \subseteq Nat
        /\ \A l \in spent : l[1] \in Nat
        /\ promised[nextUser] = Raw
    BY DEF TypeInv, TypeOK, LinkType, UserIds, StoreInv
  <1>2. \A l \in spent : l[1] # nextUser
    BY <1>1 DEF StoreInv
  <1> QED
    BY <1>1, <1>2 DEF StoreInv, Exists, Raw

\* The password that is stored is promised.
LEMMA Promised ==
  ASSUME TypeInv, StoreInv, NEW u \in UserIds, Exists(u),
         promised' = [promised EXCEPT ![u] = users[u].pw],
         UNCHANGED <<users, spent, nextUser, nextHash>>
  PROVE  StoreInv'
  <1>1. promised \in [UserIds -> {Raw} \cup Hashes]
    BY DEF TypeInv, TypeOK
  <1> QED
    BY <1>1 DEF StoreInv, Exists, LinkFor

\* Steps that write a user or a promise.
LEMMA SerialWrite ==
  ASSUME TypeInv, SerialInv, NEW w \in Workers,
         \/ InsertUser(w) \/ SetPassword(w) \/ Registered(w) \/ ConfirmReset(w)
         \/ SaveProfile(w) \/ SavePatch(w) \/ DeleteOrg(w)
  PROVE  SerialInv'
  <1>1. /\ job[w] \in Job /\ Shape(job[w]) /\ job[w].op # "idle" /\ w \in scenario.workers
        /\ UNCHANGED scenario /\ nextHash \in Nat \ {0}
    BY DEF InsertUser, SetPassword, Registered, ConfirmReset, SaveProfile, SavePatch, DeleteOrg,
           At, Idle, orgTables, TypeInv, TypeOK, SerialInv
  <1>2. Serial => StoreInv /\ Remembers(job[w])
    BY DEF SerialInv
  <1>3. ASSUME Ok(w) \/ Fail(w), Serial => StoreInv'  PROVE SerialInv'
    BY <1>1, <1>3, EndedForgets, SerialStep
  <1>4. CASE InsertUser(w)
    <2> DEFINE row == NewRow(job[w])
    <2>1. /\ row \in Row /\ row.pw = job[w].row.pw /\ nextUser \in UserIds
          /\ job[w].op = "register" /\ job[w].stage = "insert"
      BY <1>1, <1>4, RoomIsThere DEF NewRow, Row, Shape, InsertUser, At, Job, WillInsert
    <2> HIDE DEF row
    <2>2. CASE CanStore(nextUser, row)
      <3>1. /\ users' = [users EXCEPT ![nextUser] = row] /\ nextUser' = nextUser + 1
            /\ UNCHANGED <<promised, spent, nextHash>>
            /\ job' = [job EXCEPT ![w].user = nextUser, ![w].row = row,
                                  ![w].stage = "defaultGroups"]
        BY <1>4, <2>2 DEF InsertUser, row
      <3>2. Serial => StoreInv' /\ promised'[nextUser] = Raw
        BY <1>2, <2>1, <3>1, NewUser DEF Remembers
      <3>3. /\ job'[w].op = "register" /\ job'[w].user = nextUser /\ job'[w].row = row
            /\ job'[w].stage = "defaultGroups" /\ users'[nextUser] = row
            /\ \A v \in Workers : v # w => job'[v] = job[v]
        BY <1>1, <2>1, <3>1 DEF TypeInv, TypeOK, Job
      <3>4. Serial => Remembers(job[w])'
        BY <3>2, <3>3 DEF Remembers
      <3> QED
        BY <1>1, <3>2, <3>3, <3>4, SerialStep
    <2>3. CASE ~CanStore(nextUser, row)
      <3>1. Fail(w) /\ UNCHANGED <<users, promised, spent, nextUser, nextHash>>
        BY <1>4, <2>3 DEF InsertUser, row
      <3>2. Serial => StoreInv'
        BY <1>1, <1>2, <3>1, SameStore
      <3> QED
        BY <1>3, <3>1, <3>2
    <2> QED
      BY <2>2, <2>3
  <1>5. CASE SetPassword(w)
    <2> DEFINE u   == job[w].user
               row == [job[w].row EXCEPT !.pw = nextHash]
    <2>1. /\ job[w].op = "register" /\ job[w].stage = "password" /\ u \in UserIds
          /\ job[w].row \in Row /\ nextHash \in Hashes
      BY <1>1, <1>5, RoomIsThere DEF SetPassword, At, Shape, WillHash
    <2>2. row \in Row /\ row.pw = nextHash
      BY <2>1 DEF Row
    <2>3. Serial => users[u] = job[w].row /\ promised[u] = Raw /\ Exists(u)
      BY <1>2, <2>1, SentinelsAssumption DEF Remembers, Exists, UserIds
    <2>4. /\ nextHash' = nextHash + 1 /\ UNCHANGED <<promised, spent, nextUser>>
          /\ \/ Fail(w) /\ UNCHANGED users
             \/ SaveUser(u, row) /\ job' = [job EXCEPT ![w].row = row, ![w].stage = "mail"]
      BY <1>5 DEF SetPassword, history
    <2> HIDE DEF row
    <2>5. CASE Fail(w) /\ UNCHANGED users
      <3>1. Serial => StoreInv'
        BY <1>1, <1>2, <2>4, <2>5, SameStore
      <3> QED
        BY <1>3, <2>5, <3>1
    <2>6. CASE SaveUser(u, row) /\ job' = [job EXCEPT ![w].row = row, ![w].stage = "mail"]
      <3>1. Serial => StoreInv'
        BY <1>2, <2>1, <2>2, <2>3, <2>4, <2>6, NewPassword
      <3>2. /\ job'[w].op = "register" /\ job'[w].user = u /\ job'[w].row = row
            /\ job'[w].stage = "mail" /\ users'[u] = row
            /\ \A v \in Workers : v # w => job'[v] = job[v]
        BY <1>1, <2>1, <2>6 DEF TypeInv, TypeOK, Job, SaveUser
      <3>3. Serial => Remembers(job[w])'
        BY <2>3, <2>4, <3>2 DEF Remembers
      <3> QED
        BY <1>1, <3>1, <3>2, <3>3, SerialStep
    <2> QED
      BY <2>4, <2>5, <2>6
  <1>6. CASE Registered(w)
    <2>1. /\ job[w].op = "register" /\ job[w].stage = "addGroups" /\ job[w].user \in UserIds
          /\ job[w].row \in Row
      BY <1>1, <1>6 DEF Registered, At, Shape
    <2>2. Serial => users[job[w].user] = job[w].row /\ Exists(job[w].user)
      BY <1>2, <2>1, SentinelsAssumption DEF Remembers, Exists, UserIds
    <2>3. /\ Ok(w) /\ promised' = [promised EXCEPT ![job[w].user] = job[w].row.pw]
          /\ UNCHANGED <<users, spent, nextUser, nextHash>>
      BY <1>6 DEF Registered, userTables
    <2>4. Serial => StoreInv'
      BY <1>2, <2>1, <2>2, <2>3, Promised
    <2> QED
      BY <1>3, <2>3, <2>4
  <1>7. CASE ConfirmReset(w)
    <2> DEFINE u   == job[w].user
               row == [job[w].row EXCEPT !.pw = nextHash]
    <2>1. /\ job[w].op = "confirm" /\ u \in UserIds /\ job[w].row \in Row /\ nextHash \in Hashes
      BY <1>1, <1>7, RoomIsThere DEF ConfirmReset, At, Shape, WillHash
    <2>2. row \in Row /\ row.pw = nextHash
      BY <2>1 DEF Row
    <2>3. Serial => users[u] = job[w].row /\ Exists(u)
      BY <1>2, <2>1, SentinelsAssumption DEF Remembers, Exists, UserIds
    <2>4. /\ nextHash' = nextHash + 1 /\ UNCHANGED nextUser /\ (Ok(w) \/ Fail(w))
          /\ \/ UNCHANGED <<users, promised, spent>>
             \/ /\ SaveUser(u, row) /\ promised' = [promised EXCEPT ![u] = row.pw]
                /\ spent' = spent \cup {LinkFor(u, job[w].row)}
      BY <1>7 DEF ConfirmReset
    <2> HIDE DEF row
    <2>5. Serial => StoreInv'
      <3>1. CASE UNCHANGED <<users, promised, spent>>
        BY <1>1, <1>2, <2>4, <3>1, SameStore
      <3>2. CASE /\ SaveUser(u, row) /\ promised' = [promised EXCEPT ![u] = row.pw]
                 /\ spent' = spent \cup {LinkFor(u, job[w].row)}
        <4>1. LinkFor(u, job[w].row) = <<u, job[w].row.pw, job[w].row.email>>
          BY DEF LinkFor
        <4> QED
          BY <1>2, <2>1, <2>2, <2>3, <2>4, <3>2, <4>1, NewPassword
      <3> QED
        BY <2>4, <3>1, <3>2
    <2> QED
      BY <1>3, <2>4, <2>5
  <1>8. CASE SaveProfile(w)
    <2> DEFINE u   == job[w].user
               row == IF "password" \in job[w].fields THEN [job[w].row EXCEPT !.pw = nextHash]
                                                   ELSE job[w].row
    <2>1. /\ job[w].op = "profile" /\ u \in UserIds /\ job[w].row \in Row
          /\ "password" \in job[w].fields => nextHash \in Hashes
      BY <1>1, <1>8, RoomIsThere DEF SaveProfile, At, Shape, WillHash
    <2>2. /\ row \in Row
          /\ row.pw = IF "password" \in job[w].fields THEN nextHash ELSE job[w].row.pw
      BY <2>1 DEF Row
    <2>3. Serial => Exists(u) /\ users[u].pw = job[w].row.pw
      BY <1>2, <2>1 DEF Remembers
    <2>4. /\ nextHash' = IF "password" \in job[w].fields THEN nextHash + 1 ELSE nextHash
          /\ UNCHANGED <<nextUser, spent>> /\ (Ok(w) \/ Fail(w))
          /\ \/ UNCHANGED <<users, promised>>
             \/ /\ SaveUser(u, row)
                /\ promised' = IF "password" \in job[w].fields THEN [promised EXCEPT ![u] = row.pw]
                                                            ELSE promised
      BY <1>8 DEF SaveProfile
    <2> HIDE DEF row
    <2>5. Serial => StoreInv'
      <3>1. CASE UNCHANGED <<users, promised>>
        BY <1>1, <1>2, <2>4, <3>1, SameStore
      <3>2. CASE SaveUser(u, row) /\ "password" \in job[w].fields
                    /\ promised' = [promised EXCEPT ![u] = row.pw]
        BY <1>2, <2>1, <2>2, <2>3, <2>4, <3>2, NewPassword
      <3>3. CASE SaveUser(u, row) /\ "password" \notin job[w].fields /\ UNCHANGED promised
        BY <1>2, <2>1, <2>2, <2>3, <2>4, <3>3, SamePassword
      <3> QED
        BY <2>4, <3>1, <3>2, <3>3
    <2> QED
      BY <1>3, <2>4, <2>5
  <1>9. CASE SavePatch(w)
    <2> DEFINE u   == job[w].user
               row == job[w].row
    <2>1. /\ job[w].op = "patch" /\ job[w].stage = "save" /\ u \in UserIds /\ row \in Row
      BY <1>1, <1>9 DEF SavePatch, At, Shape
    <2>2. Serial => /\ Exists(u)
                    /\ row.pw = IF "password" \in job[w].fields THEN Raw ELSE users[u].pw
      BY <1>2, <2>1 DEF Remembers
    <2>3. /\ UNCHANGED <<nextUser, nextHash>> /\ (Ok(w) \/ Fail(w) \/ Goto(w, "setGroups"))
          /\ \/ UNCHANGED <<users, promised, spent>>
             \/ /\ SaveUser(u, row)
                /\ promised' = IF "password" \in job[w].fields THEN [promised EXCEPT ![u] = Raw]
                                                            ELSE promised
                /\ spent' = IF "password" \in job[w].fields THEN {l \in spent : l[1] # u} ELSE spent
      BY <1>9 DEF SavePatch
    <2>4. Serial => StoreInv'
      <3>1. CASE UNCHANGED <<users, promised, spent>>
        BY <1>1, <1>2, <2>3, <3>1, SameStore
      <3>2. CASE SaveUser(u, row) /\ "password" \in job[w].fields
                    /\ promised' = [promised EXCEPT ![u] = Raw]
                    /\ spent' = {l \in spent : l[1] # u}
        BY <1>2, <2>1, <2>2, <2>3, <3>2, RawPassword
      <3>3. CASE SaveUser(u, row) /\ "password" \notin job[w].fields /\ UNCHANGED <<promised, spent>>
        BY <1>2, <2>1, <2>2, <2>3, <3>3, SamePassword
      <3> QED
        BY <2>3, <3>1, <3>2, <3>3
    <2>5. CASE Goto(w, "setGroups")
      <3>1. /\ job'[w].op = "patch" /\ job'[w].stage = "setGroups"
            /\ \A v \in Workers : v # w => job'[v] = job[v]
        BY <1>1, <2>1, <2>5 DEF Goto, TypeInv, TypeOK, Job
      <3>2. Remembers(job[w])'
        BY <3>1 DEF Remembers
      <3> QED
        BY <1>1, <2>4, <3>1, <3>2, SerialStep
    <2> QED
      BY <1>3, <2>3, <2>4, <2>5
  <1>10. CASE DeleteOrg(w)
    <2>1. /\ UNCHANGED <<promised, spent, nextUser, nextHash>> /\ (Ok(w) \/ Fail(w))
          /\ \A u \in UserIds : users'[u] = NoRow \/ users'[u] = users[u]
      BY <1>10 DEF DeleteOrg
    <2>2. Serial => StoreInv'
      BY <1>2, <2>1 DEF StoreInv, Exists
    <2> QED
      BY <1>3, <2>1, <2>2
  <1> QED
    BY <1>4, <1>5, <1>6, <1>7, <1>8, <1>9, <1>10

-----------------------------------------------------------------------------

LEMMA SerialHolds == Spec => [](TypeInv /\ SerialInv)
  <1>1. Init => SerialInv
    <2> SUFFICES ASSUME Init PROVE SerialInv
      OBVIOUS
    <2>1. \A w \in Workers : job[w] = NoJob /\ NoJob.op = "idle" /\ ~NoJob.token
      BY DEF Init, NoJob
    <2>2. \A w \in Workers : Idle(w) /\ Remembers(job[w])
      BY <2>1 DEF Idle, Remembers
    <2>3. StoreInv
      BY DEF Init, StoreInv, Exists, Raw
    <2> QED
      BY <2>2, <2>3 DEF SerialInv
  <1>2. TypeInv /\ SerialInv /\ [Next]_vars => SerialInv'
    <2> SUFFICES ASSUME TypeInv, SerialInv, [Next]_vars PROVE SerialInv'
      OBVIOUS
    <2>1. CASE UNCHANGED vars \/ Exhausted
      BY <2>1 DEF Exhausted, vars, SerialInv, Serial, Idle, StoreInv, Exists, LinkFor, Remembers
    <2>2. ASSUME NEW w \in Workers, Request(w) \/ Step(w) \/ Timeout(w)
          PROVE  SerialInv'
      BY <2>2, SerialRequest, SerialQuiet, SerialWrite DEF Step
    <2> QED
      BY <2>1, <2>2 DEF Next
  <1> QED
    BY <1>1, <1>2, TypesHold, PTL DEF Spec

\* One request at a time, the password last answered as set is the one stored,
\* until a PATCH overwrites it.
THEOREM Passwords == Spec => []PasswordSticks
  <1>1. SerialInv => PasswordSticks
    BY DEF SerialInv, StoreInv, PasswordSticks
  <1> QED
    BY <1>1, SerialHolds, PTL

\* One request at a time, a password link changes a password once.
THEOREM Links == Spec => LinkUsedOnce
  <1>1. TypeInv /\ SerialInv /\ [Next]_vars
           => [\A w \in Workers :
                 Serial /\ At(w, "confirm", "save") /\ job'[w].answer = "ok"
                    => LinkFor(job[w].user, job[w].row) \notin spent]_vars
    <2> SUFFICES ASSUME TypeInv, SerialInv, NEW w \in Workers, Serial, At(w, "confirm", "save")
                 PROVE  LinkFor(job[w].user, job[w].row) \notin spent
      OBVIOUS
    <2>1. /\ StoreInv /\ users[job[w].user] = job[w].row
          /\ job[w].user \in UserIds /\ job[w].row \in Row
      BY DEF SerialInv, Remembers, At, TypeInv, Shape
    <2>2. Exists(job[w].user)
      BY <2>1, SentinelsAssumption DEF Exists, UserIds
    <2> QED
      BY <2>1, <2>2 DEF StoreInv, LinkFor
  <1> QED
    BY <1>1, SerialHolds, PTL DEF Spec, LinkUsedOnce

\* The steps that insert a user, and those that write a stored one.
LEMMA UserSteps ==
  ASSUME TypeInv, [Next]_vars
  PROVE  /\ nextUser' # nextUser => \E w \in Workers : InsertUser(w)
         /\ \/ UNCHANGED users
            \/ \E w \in Workers : \/ InsertUser(w) \/ SetPassword(w) \/ ConfirmReset(w)
                                  \/ SaveProfile(w) \/ SavePatch(w) \/ DeleteOrg(w)
  <1>1. CASE UNCHANGED vars \/ Exhausted
    BY <1>1 DEF Exhausted, vars
  <1>2. ASSUME NEW w \in Workers, Request(w)
        PROVE  UNCHANGED <<users, nextUser>>
    <2>2. ASSUME NEW n, NEW e, NEW o, NEW t, NEW gs, NEW l, NEW u, NEW p, NEW fs, NEW a, NEW x,
                 \/ Register(w, n, e, o, t, gs) \/ StartConfirm(w, l)
                 \/ StartProfile(w, u, o, p) \/ StartPatch(w, u, fs, n, e, a, gs)
                 \/ StartPutOrg(w, x, o) \/ Invite(w, e) \/ RequestReset(w, e)
                 \/ CreateOrg(w, o) \/ DeleteGroup(w, x) \/ CollectOrg(w, x)
          PROVE  UNCHANGED <<users, nextUser>>
      BY <2>2 DEF Register, StartConfirm, StartProfile, StartPatch, StartPutOrg, Invite,
                  RequestReset, CreateOrg, DeleteGroup, CollectOrg, userTables
    <2> QED
      BY <1>2, <2>2 DEF Request
  <1>3. ASSUME NEW w \in Workers, Step(w) \/ Timeout(w)
        PROVE  /\ nextUser' # nextUser => InsertUser(w)
               /\ \/ UNCHANGED users
                  \/ InsertUser(w) \/ SetPassword(w) \/ ConfirmReset(w)
                  \/ SaveProfile(w) \/ SavePatch(w) \/ DeleteOrg(w)
    BY <1>3 DEF Step, GetOrg, MakeOrg, FindDefaultGroups, AddDefaultGroups, SetPassword,
                SendApproval, DeleteOrg, AddAdminGroup, AddRequestedGroup, Registered, ConfirmReset, FindProfileOrg,
                SaveProfile, SavePatch, SetGroups, SaveOrg, Timeout, userTables
  <1> QED
    BY <1>1, <1>2, <1>3 DEF Next

\* One request at a time, an invitation makes a user only while nobody has its
\* email.
THEOREM Invitations == Spec => InvitationOnce
  <1>1. TypeInv /\ SerialInv /\ [Next]_vars
           => [\A w \in Workers :
                 Serial /\ job[w].stage = "insert" /\ job[w].token /\ nextUser' # nextUser
                    => \A u \in UserIds : Exists(u) => users[u].email # job[w].row.email]_vars
    <2> SUFFICES ASSUME TypeInv, SerialInv, [Next]_vars, NEW w \in Workers, Serial,
                        job[w].stage = "insert", job[w].token, nextUser' # nextUser
                 PROVE  \A u \in UserIds : Exists(u) => users[u].email # job[w].row.email
      OBVIOUS
    <2>1. PICK v \in Workers : InsertUser(v)
      BY UserSteps
    <2>2. /\ Remembers(job[w]) /\ ~Idle(w) /\ v \in scenario.workers
          /\ job[v].op = "register"
      BY <2>1 DEF SerialInv, Remembers, Idle, InsertUser, At
    <2>3. v = w
      BY <2>2, OnlyWorker
    <2> QED
      BY <2>2, <2>3 DEF Remembers
  <1> QED
    BY <1>1, SerialHolds, PTL DEF Spec, InvitationOnce

\* An account an admin has deactivated stays so until an admin activates it,
\* also when a password link from before is used.
DeactivatedStays ==
    [][\A u \in UserIds :
          Serial /\ Exists(u) /\ users'[u] # NoRow /\ ~users[u].active /\ users'[u].active
             => \E w \in Workers : job[w].user = u /\ "active" \in job[w].fields]_vars

\* One request at a time, an account an admin has deactivated stays so until an
\* admin activates it.
THEOREM Deactivations == Spec => DeactivatedStays
  <1>1. TypeInv /\ SerialInv /\ [Next]_vars
           => [\A u \in UserIds :
                 Serial /\ Exists(u) /\ users'[u] # NoRow /\ ~users[u].active /\ users'[u].active
                    => \E w \in Workers : job[w].user = u /\ "active" \in job[w].fields]_vars
    <2> SUFFICES ASSUME TypeInv, SerialInv, [Next]_vars, NEW u \in UserIds, Serial,
                        Exists(u), users'[u] # NoRow, ~users[u].active, users'[u].active
                 PROVE  \E w \in Workers : job[w].user = u /\ "active" \in job[w].fields
      OBVIOUS
    <2>1. users \in [UserIds -> Row \cup {NoRow}] /\ StoreInv
      BY DEF TypeInv, TypeOK, SerialInv
    <2>2. PICK w \in Workers : \/ InsertUser(w) \/ SetPassword(w) \/ ConfirmReset(w)
                               \/ SaveProfile(w) \/ SavePatch(w) \/ DeleteOrg(w)
      BY UserSteps
    <2>3. Shape(job[w]) /\ Remembers(job[w])
      BY DEF TypeInv, SerialInv
    <2>4. CASE InsertUser(w)
      <3>1. nextUser \in Nat /\ u \in Nat /\ users[nextUser] = NoRow
        BY <2>1, <2>4, RoomIsThere DEF StoreInv, TypeInv, TypeOK, InsertUser, At, WillInsert, UserIds
      <3> QED
        BY <2>1, <2>4, <3>1 DEF InsertUser, Exists
    <2>5. CASE SetPassword(w) \/ ConfirmReset(w) \/ SaveProfile(w)
      <3>1. PICK row \in Row : /\ SaveUser(job[w].user, row) /\ job[w].user \in UserIds
                               /\ row.active = job[w].row.active
        BY <2>5, Written
      <3>2. job[w].user = u /\ job[w].row.active
        BY <2>1, <3>1 DEF SaveUser
      <3>3. job[w].row.active = users[u].active
        BY <2>3, <2>5, <3>2 DEF SetPassword, ConfirmReset, SaveProfile, At, Remembers
      <3> QED
        BY <3>2, <3>3
    <2>6. CASE SavePatch(w)
      <3>1. /\ job[w].op = "patch" /\ job[w].stage = "save" /\ job[w].user \in UserIds
            /\ UNCHANGED users \/ SaveUser(job[w].user, job[w].row)
        BY <2>3, <2>6 DEF SavePatch, At, Shape
      <3>2. job[w].user = u /\ job[w].row.active
        BY <2>1, <3>1 DEF SaveUser
      <3> QED
        BY <2>3, <3>1, <3>2 DEF Remembers
    <2>7. CASE DeleteOrg(w)
      BY <2>1, <2>7 DEF DeleteOrg
    <2> QED
      BY <2>2, <2>4, <2>5, <2>6, <2>7
  <1> QED
    BY <1>1, SerialHolds, PTL DEF Spec, DeactivatedStays

-----------------------------------------------------------------------------
(***************************************************************************)
(* The refinement of AccountLifecycle.  A save writes every column; that   *)
(* it changes one only is due to what a lone request holds: the stored row *)
(* but for what the request is about.                                      *)
(***************************************************************************)

\* What a lone request relies on until it writes a user: a founder is the first
\* of its organization, an invitation and a link have been sent, an instance is
\* of the stored row's organization or differs in nothing else, and a deletion has
\* collected the users there are.
Holds(j) ==
    /\ WillInsert(j) /\ j.stage # "insert" => ~j.isNew
    /\ WillInsert(j) /\ j.isNew => \A u \in UserIds : Exists(u) => users[u].org # j.org
    /\ WillInsert(j) /\ j.token => j.row.email \in invited
    /\ j.op = "confirm" => LinkFor(j.user, j.row) \in links
    /\ j.op = "profile" => \E x \in OrgIds : j.row = [users[j.user] EXCEPT !.org = x]
    /\ j.op = "patch" /\ j.stage = "save" => j.row.org = users[j.user].org
    /\ j.op = "orgput" => j.org < nextOrg
    /\ j.op = "orgdelete" => j.gone = {u \in UserIds : Exists(u) /\ users[u].org = j.org}

\* Organizations not yet inserted are not there, and no link was made from a
\* hash not yet made.
NothingAhead ==
    /\ \A x \in OrgIds : x >= nextOrg => orgs[x] = NoRow
    /\ \A l \in links : l[2] < nextHash

HoldInv == Serial => NothingAhead /\ \A w \in Workers : Holds(job[w])

\* The worker that acts is the one to look at.
LEMMA HoldStep ==
  ASSUME TypeInv, SerialInv, HoldInv, NEW w \in Workers, w \in scenario.workers,
         UNCHANGED scenario, \A v \in Workers : v # w => job'[v] = job[v],
         Serial => NothingAhead' /\ Holds(job[w])'
  PROVE  HoldInv'
  <1>1. Serial' = Serial
    BY DEF Serial
  <1>2. ASSUME Serial, NEW v \in Workers, v # w  PROVE Holds(job[v])'
    <2>1. job'[v] = job[v] /\ job[v].op = "idle"
      BY <1>2, OnlyWorker DEF Idle
    <2> QED
      BY <2>1 DEF Holds, WillInsert
  <1> QED
    BY <1>1, <1>2 DEF HoldInv

\* Nothing comes ahead of the counters while tables and links stay.
LEMMA AheadStays ==
  ASSUME TypeInv, NothingAhead, UNCHANGED <<orgs, nextOrg, links>>,
         nextHash' \in Nat, nextHash' >= nextHash
  PROVE  NothingAhead'
  <1>1. nextHash \in Nat /\ \A l \in links : l[2] \in Nat
    BY ConstantsAssumption DEF TypeInv, TypeOK, LinkType, Raw, Hashes
  <1> QED
    BY <1>1 DEF NothingAhead

\* A worker at no such stage relies on nothing.
Relies(j) ==
    \/ WillInsert(j)
    \/ j.op \in {"confirm", "profile", "orgput", "orgdelete"}
    \/ j.op = "patch" /\ j.stage = "save"

LEMMA HoldsNothing ==
  ASSUME NEW w \in Workers, ~Relies(job'[w])  PROVE Holds(job[w])'
  BY DEF Relies, Holds, WillInsert

\* Requests.
LEMMA HoldRequest ==
  ASSUME TypeInv, SerialInv, ReferencesHold, HoldInv, NEW w \in Workers, Request(w)
  PROVE  HoldInv'
  <1>1. /\ nextHash \in Nat /\ nextOrg \in Nat \ {0} /\ job \in [Workers -> Job]
        /\ users \in [UserIds -> Row \cup {NoRow}] /\ \A u : Exists(u) => u # 0
    BY DEF TypeInv, TypeOK, Exists
  <1>2. Serial => NothingAhead /\ Holds(job[w])
    BY DEF HoldInv
  <1>3. ASSUME w \in scenario.workers, \A v \in Workers : v # w => job'[v] = job[v],
               UNCHANGED <<scenario, orgs, nextOrg, links, nextHash>>, Holds(job[w])'
        PROVE  HoldInv'
    BY <1>1, <1>2, <1>3, AheadStays, HoldStep
  <1>4. ASSUME NEW n, NEW e, NEW o, NEW t, NEW gs, Register(w, n, e, o, t, gs)
        PROVE  HoldInv'
    <2> DEFINE row == [name |-> n, email |-> e, org |-> 1, active |-> FALSE, pw |-> Raw]
    <2>1. /\ job' = [job EXCEPT ![w] = [NoJob EXCEPT
                        !.op = "register", !.stage = "getOrg", !.orgName = o,
                        !.token = t, !.wants = gs, !.row = row]]
          /\ row.email = e
      BY <1>4 DEF Register
    <2> HIDE DEF row
    <2>2. /\ job'[w].op = "register" /\ job'[w].stage = "getOrg" /\ job'[w].token = t
          /\ job'[w].row = row /\ ~job'[w].isNew
          /\ \A v \in Workers : v # w => job'[v] = job[v]
      BY <1>1, <2>1 DEF NoJob
    <2>3. /\ UNCHANGED <<scenario, orgs, nextOrg, links, nextHash, invited>>
          /\ w \in scenario.workers /\ (t => e \in invited)
      BY <1>4 DEF Register, TokenValid, Free, orgTables, userTables, sent
    <2>4. Holds(job[w])'
      BY <2>1, <2>2, <2>3 DEF Holds, WillInsert
    <2> QED
      BY <1>3, <2>2, <2>3, <2>4
  <1>5. ASSUME NEW l \in links, StartConfirm(w, l)  PROVE HoldInv'
    <2>1. /\ job'[w].op = "confirm" /\ job'[w].user = l[1] /\ job'[w].row = users[l[1]]
          /\ \A v \in Workers : v # w => job'[v] = job[v]
      BY <1>1, <1>5 DEF StartConfirm, NoJob
    <2>2. /\ UNCHANGED <<scenario, orgs, nextOrg, links, nextHash>>
          /\ w \in scenario.workers /\ LinkFor(l[1], users[l[1]]) = l
      BY <1>5 DEF StartConfirm, Free, orgTables, userTables, sent
    <2>3. Holds(job[w])'
      BY <2>1, <2>2 DEF Holds, WillInsert, LinkFor
    <2> QED
      BY <1>3, <2>1, <2>2, <2>3
  <1>6. ASSUME NEW u \in UserIds, NEW o, NEW p, StartProfile(w, u, o, p)  PROVE HoldInv'
    <2>1. /\ job'[w].op = "profile" /\ job'[w].user = u /\ job'[w].row = users[u]
          /\ \A v \in Workers : v # w => job'[v] = job[v]
      BY <1>1, <1>6 DEF StartProfile, NoJob
    <2>2. /\ UNCHANGED <<scenario, orgs, nextOrg, links, nextHash, users>>
          /\ w \in scenario.workers /\ users[u] \in Row
      BY <1>1, <1>6 DEF StartProfile, Free, Exists, orgTables, userTables, sent
    <2>3. users[u].org \in OrgIds /\ users[u] = [users[u] EXCEPT !.org = users[u].org]
      BY <2>2 DEF Row
    <2>4. \E x \in OrgIds : job'[w].row = [users'[job'[w].user] EXCEPT !.org = x]
      BY <2>1, <2>2, <2>3
    <2>5. Holds(job[w])'
      BY <2>1, <2>4 DEF Holds, WillInsert
    <2> QED
      BY <1>3, <2>1, <2>2, <2>5
  <1>7. ASSUME NEW u \in UserIds, NEW fs, NEW n \in Usernames, NEW e \in Emails,
               NEW a \in BOOLEAN, NEW gs, StartPatch(w, u, fs, n, e, a, gs)
        PROVE  HoldInv'
    <2> DEFINE row == PatchedRow(u, fs, n, e, a)
    <2>1. row.org = users[u].org
      BY <1>7, PatchedType DEF StartPatch
    <2>2. /\ job' = [job EXCEPT ![w] = [NoJob EXCEPT !.op = "patch", !.stage = "save",
                        !.user = u, !.fields = fs, !.wants = gs, !.row = row]]
          /\ UNCHANGED <<scenario, orgs, nextOrg, links, nextHash, users>>
          /\ w \in scenario.workers
      BY <1>7 DEF StartPatch, Free, orgTables, userTables, sent
    <2> HIDE DEF row
    <2>3. /\ job'[w].op = "patch" /\ job'[w].user = u /\ job'[w].row = row
          /\ \A v \in Workers : v # w => job'[v] = job[v]
      BY <1>1, <2>2 DEF NoJob
    <2>4. Holds(job[w])'
      BY <2>1, <2>2, <2>3 DEF Holds, WillInsert
    <2> QED
      BY <1>3, <2>2, <2>3, <2>4
  <1>8. ASSUME NEW x \in OrgIds, NEW o, StartPutOrg(w, x, o)  PROVE HoldInv'
    <2>1. /\ job'[w].op = "orgput" /\ job'[w].org = x
          /\ \A v \in Workers : v # w => job'[v] = job[v]
      BY <1>1, <1>8 DEF StartPutOrg, NoJob
    <2>2. /\ UNCHANGED <<scenario, orgs, nextOrg, links, nextHash>>
          /\ w \in scenario.workers /\ orgs[x] # NoRow
      BY <1>8 DEF StartPutOrg, Free, orgTables, userTables, sent
    <2>3. Serial => x < nextOrg
      BY <1>1, <1>2, <2>2 DEF NothingAhead, OrgIds
    <2>4. Serial => Holds(job[w])'
      BY <2>1, <2>2, <2>3 DEF Holds, WillInsert
    <2> QED
      BY <1>1, <1>2, <2>1, <2>2, <2>4, AheadStays, HoldStep
  <1>9. ASSUME \/ \E e \in Emails : Invite(w, e) \/ RequestReset(w, e)
               \/ \E o \in OrgNames : CreateOrg(w, o)
               \/ \E g \in Listed : DeleteGroup(w, g)
        PROVE  HoldInv'
    <2>1. /\ UNCHANGED <<scenario, nextHash, job>>
          /\ w \in scenario.workers /\ job[w].op = "idle"
      BY <1>9 DEF Invite, RequestReset, CreateOrg, DeleteGroup, Free, Idle,
                  orgTables, userTables, history
    <2>2. Holds(job[w])'
      BY <2>1, HoldsNothing DEF Relies, WillInsert
    <2>3. ASSUME Serial  PROVE NothingAhead'
      <3>1. NothingAhead /\ StoreInv
        BY <1>2, <2>3 DEF SerialInv
      <3>2. CASE \E e \in Emails : Invite(w, e)
        BY <1>1, <3>1, <3>2, AheadStays DEF Invite, orgTables, userTables
      <3>3. CASE \E e \in Emails : RequestReset(w, e)
        <4>1. \A l \in links' \ links : \E u \in UserIds : Exists(u) /\ l = LinkFor(u, users[u])
          BY <3>3 DEF RequestReset
        <4>2. \A l \in links' : l[2] < nextHash'
          BY <2>1, <3>1, <4>1 DEF NothingAhead, StoreInv, LinkFor
        <4> QED
          BY <3>1, <3>3, <4>2 DEF RequestReset, NothingAhead, orgTables
      <3>4. CASE \E o \in OrgNames : CreateOrg(w, o)
        BY <1>1, <2>1, <3>1, <3>4 DEF CreateOrg, InsertOrg, sent, NothingAhead, TypeInv, TypeOK,
                                 OrgIds
      <3>5. CASE \E g \in Listed : DeleteGroup(w, g)
        BY <1>1, <2>1, <3>1, <3>5 DEF DeleteGroup, sent, NothingAhead, TypeInv, TypeOK
      <3> QED
        BY <1>9, <3>2, <3>3, <3>4, <3>5
    <2> QED
      BY <2>1, <2>2, <2>3, HoldStep
  <1>10. ASSUME NEW x \in OrgIds, CollectOrg(w, x)  PROVE HoldInv'
    <2> DEFINE us == {u \in UserIds : Exists(u) /\ users[u].org = x}
    <2>1. /\ job' = [job EXCEPT ![w] = [NoJob EXCEPT !.op = "orgdelete", !.stage = "save",
                                                     !.org = x, !.gone = us]]
          /\ UNCHANGED <<scenario, orgs, nextOrg, links, nextHash, users>>
          /\ w \in scenario.workers
      BY <1>10 DEF CollectOrg, Free, orgTables, userTables, sent
    <2>2. us = {u \in UserIds : Exists(u)' /\ users'[u].org = x}
      BY <2>1 DEF Exists
    <2> HIDE DEF us
    <2>3. /\ job'[w].op = "orgdelete" /\ job'[w].org = x /\ job'[w].gone = us
          /\ \A v \in Workers : v # w => job'[v] = job[v]
      BY <1>1, <2>1 DEF NoJob
    <2>4. Holds(job[w])'
      BY <2>2, <2>3 DEF Holds, WillInsert
    <2> QED
      BY <1>3, <2>1, <2>3, <2>4
  <1> QED
    BY <1>4, <1>5, <1>6, <1>7, <1>8, <1>9, <1>10 DEF Request

\* Steps after which the request relies on nothing any more.
LEMMA HoldEnds ==
  ASSUME TypeInv, NEW w \in Workers,
         \/ InsertUser(w) \/ FindDefaultGroups(w) \/ AddDefaultGroups(w) \/ SetPassword(w)
         \/ SendApproval(w) \/ DeleteOrg(w)
         \/ AddAdminGroup(w) \/ \E g \in Listed : AddRequestedGroup(w, g)
         \/ Registered(w) \/ ConfirmReset(w) \/ SaveProfile(w) \/ SavePatch(w)
         \/ SetGroups(w) \/ SaveOrg(w) \/ Timeout(w)
  PROVE  /\ ~Relies(job'[w]) /\ \A v \in Workers : v # w => job'[v] = job[v]
         /\ nextHash' \in Nat /\ nextHash' >= nextHash
         /\ UNCHANGED <<scenario, nextOrg, links>> /\ (UNCHANGED orgs \/ SaveOrg(w) \/ DeleteOrg(w))
  <1>1. /\ job \in [Workers -> Job] /\ nextHash \in Nat
        /\ NoJob.op = "idle"
    BY DEF TypeInv, TypeOK, NoJob
  <1>2. ASSUME Ok(w) \/ Fail(w)
        PROVE  ~Relies(job'[w]) /\ \A v \in Workers : v # w => job'[v] = job[v]
    <2>1. job'[w].op = "idle" /\ \A v \in Workers : v # w => job'[v] = job[v]
      BY <1>1, <1>2 DEF Ok, Fail, NoJob
    <2> QED
      BY <2>1 DEF Relies, WillInsert
  <1>3. ASSUME NEW st \in {"defaultGroups", "joinDefaults", "password", "mail", "adminGroup", "addGroups"},
               NEW u, NEW row, NEW gs, job[w].op = "register",
               \/ Goto(w, st)
               \/ job' = [job EXCEPT ![w].row = row, ![w].stage = st]
               \/ job' = [job EXCEPT ![w].user = u, ![w].row = row, ![w].stage = st]
               \/ job[w].stage = st /\ job' = [job EXCEPT ![w].wants = gs]
        PROVE  ~Relies(job'[w]) /\ \A v \in Workers : v # w => job'[v] = job[v]
    <2>1. /\ job'[w].op = "register" /\ job'[w].stage = st
          /\ \A v \in Workers : v # w => job'[v] = job[v]
      BY <1>1, <1>3 DEF Goto, Job
    <2> QED
      BY <2>1 DEF Relies, WillInsert
  <1>4. /\ nextHash' \in Nat /\ nextHash' >= nextHash
        /\ UNCHANGED <<scenario, nextOrg, links>> /\ (UNCHANGED orgs \/ SaveOrg(w) \/ DeleteOrg(w))
    <2>1. UNCHANGED links
      BY DEF InsertUser, FindDefaultGroups, AddDefaultGroups, SetPassword, SendApproval,
             AddAdminGroup, DeleteOrg, AddRequestedGroup, Registered, ConfirmReset, SaveProfile, SavePatch, SetGroups,
             SaveOrg, Timeout, sent
    <2>2. UNCHANGED <<scenario, nextOrg>> /\ (UNCHANGED orgs \/ SaveOrg(w) \/ DeleteOrg(w))
      BY DEF InsertUser, FindDefaultGroups, AddDefaultGroups, SetPassword, SendApproval,
             AddAdminGroup, DeleteOrg, AddRequestedGroup, Registered, ConfirmReset, SaveProfile, SavePatch, SetGroups,
             SaveOrg, Timeout, orgTables
    <2>3. nextHash' = nextHash \/ nextHash' = nextHash + 1
      BY DEF InsertUser, FindDefaultGroups, AddDefaultGroups, SetPassword, SendApproval,
             AddAdminGroup, DeleteOrg, AddRequestedGroup, Registered, ConfirmReset, SaveProfile, SavePatch, SetGroups,
             SaveOrg, Timeout, userTables
    <2> QED
      BY <1>1, <2>1, <2>2, <2>3
  <1>5. CASE InsertUser(w)
    <2>1. job[w].op = "register"
      BY <1>5 DEF InsertUser, At
    <2>2. \/ Fail(w)
          \/ \E u, row : job' = [job EXCEPT ![w].user = u, ![w].row = row,
                                           ![w].stage = "defaultGroups"]
      BY <1>5 DEF InsertUser
    <2> QED
      BY <1>2, <1>3, <1>4, <2>1, <2>2
  <1>6. CASE FindDefaultGroups(w) \/ AddDefaultGroups(w)
    BY <1>2, <1>3, <1>4, <1>6 DEF FindDefaultGroups, AddDefaultGroups, JoinGroups, At
  <1>7. CASE SetPassword(w) \/ SendApproval(w) \/ AddAdminGroup(w)
    BY <1>2, <1>3, <1>4, <1>7 DEF SetPassword, SendApproval, AddAdminGroup, JoinGroups, At
  <1>8. ASSUME NEW g \in Listed, AddRequestedGroup(w, g)
        PROVE  ~Relies(job'[w]) /\ \A v \in Workers : v # w => job'[v] = job[v]
    <2>1. /\ job[w].op = "register" /\ job[w].stage = "addGroups"
          /\ Fail(w) \/ job' = [job EXCEPT ![w].wants = job[w].wants \ {g}]
      BY <1>1, <1>8 DEF AddRequestedGroup, JoinGroups, At
    <2> QED
      BY <1>2, <1>3, <2>1
  <1>9. CASE SavePatch(w)
    <2>1. CASE Goto(w, "setGroups")
      <3>1. /\ job'[w].op = "patch" /\ job'[w].stage = "setGroups"
            /\ \A v \in Workers : v # w => job'[v] = job[v]
        BY <1>1, <1>9, <2>1 DEF SavePatch, Goto, At, Job
      <3> QED
        BY <1>4, <3>1 DEF Relies, WillInsert
    <2> QED
      BY <1>2, <1>4, <1>9, <2>1 DEF SavePatch
  <1>10. CASE \/ Registered(w) \/ ConfirmReset(w) \/ SaveProfile(w) \/ SetGroups(w)
              \/ SaveOrg(w) \/ DeleteOrg(w) \/ Timeout(w)
    BY <1>2, <1>4, <1>10 DEF Registered, ConfirmReset, SaveProfile, SetGroups, SaveOrg, DeleteOrg,
                             Timeout
  <1> QED
    BY <1>4, <1>5, <1>6, <1>7, <1>8, <1>9, <1>10

\* The other steps: a request finds its organization.
LEMMA HoldFinds ==
  ASSUME TypeInv, SerialInv, ReferencesHold, HoldInv, NEW w \in Workers,
         GetOrg(w) \/ MakeOrg(w) \/ FindProfileOrg(w)
  PROVE  HoldInv'
  <1>1. /\ job \in [Workers -> Job] /\ job[w] \in Job /\ nextHash \in Nat /\ nextOrg \in Nat
        /\ orgs \in [OrgIds -> OrgNames \cup {NoRow}] /\ Shape(job[w])
        /\ users \in [UserIds -> Row \cup {NoRow}] /\ OrgIds \subseteq Nat
        /\ \A u \in UserIds : Exists(u) => users[u].org \in OrgIds
    BY DEF TypeInv, TypeOK, OrgIds, Exists, Row
  <1>2. /\ ~Idle(w) /\ w \in scenario.workers
        /\ UNCHANGED <<scenario, users, links, invited, nextHash>>
    BY DEF GetOrg, MakeOrg, FindProfileOrg, At, Idle, SerialInv, orgTables, userTables, sent
  <1>3. Serial => NothingAhead /\ Holds(job[w])
    BY DEF HoldInv
  <1>4. ASSUME \A v \in Workers : v # w => job'[v] = job[v], UNCHANGED <<orgs, nextOrg>>,
               Serial => Holds(job[w])'
        PROVE  HoldInv'
    BY <1>1, <1>2, <1>3, <1>4, AheadStays, HoldStep
  <1>5. CASE GetOrg(w)
    <2>1. UNCHANGED <<orgs, nextOrg>> /\ WillInsert(job[w]) /\ job[w].stage = "getOrg"
      BY <1>5 DEF GetOrg, orgTables, At, WillInsert
    <2>2. CASE Fail(w)
      <3>1. /\ job'[w].op = "idle" /\ \A v \in Workers : v # w => job'[v] = job[v]
        BY <1>1, <2>2 DEF Fail, NoJob
      <3> QED
        BY <1>4, <2>1, <3>1, HoldsNothing DEF Relies, WillInsert
    <2>3. ASSUME NEW x \in OrgIds,
                 \/ Goto(w, "makeOrg")
                 \/ job' = [job EXCEPT ![w].org = x, ![w].stage = "insert"]
          PROVE  HoldInv'
      <3>1. /\ job'[w].op = job[w].op /\ job'[w].isNew = job[w].isNew
            /\ job'[w].token = job[w].token /\ job'[w].row = job[w].row
            /\ job[w].op = "register" /\ \A v \in Workers : v # w => job'[v] = job[v]
        BY <1>1, <2>1, <2>3 DEF Goto, Job, WillInsert
      <3>2. Serial => ~job[w].isNew
        BY <1>3, <2>1 DEF Holds
      <3>3. Serial => Holds(job[w])'
        BY <1>2, <1>3, <2>1, <3>1, <3>2 DEF Holds, WillInsert
      <3> QED
        BY <1>4, <2>1, <3>1, <3>3
    <2>4. CASE Goto(w, "makeOrg")
      <3>1. /\ job'[w].op = job[w].op /\ job'[w].isNew = job[w].isNew
            /\ job'[w].token = job[w].token /\ job'[w].row = job[w].row
            /\ job[w].op = "register" /\ \A v \in Workers : v # w => job'[v] = job[v]
        BY <1>1, <2>1, <2>4 DEF Goto, Job, WillInsert
      <3>2. Serial => ~job[w].isNew
        BY <1>3, <2>1 DEF Holds
      <3>3. Serial => Holds(job[w])'
        BY <1>2, <1>3, <2>1, <3>1, <3>2 DEF Holds, WillInsert
      <3> QED
        BY <1>4, <2>1, <3>1, <3>3
    <2> QED
      BY <1>5, <2>2, <2>3, <2>4 DEF GetOrg
  <1>6. CASE MakeOrg(w)
    <2>1. /\ WillInsert(job[w]) /\ nextOrg \in OrgIds /\ nextOrg' = nextOrg + 1
          /\ orgs' = [orgs EXCEPT ![nextOrg] = job[w].orgName]
          /\ job' = [job EXCEPT ![w].org = nextOrg, ![w].isNew = TRUE, ![w].stage = "insert"]
      BY <1>1, <1>6, ConstantsAssumption
         DEF MakeOrg, InsertOrg, At, WillInsert, OrgIds, TypeInv, TypeOK
    <2>2. /\ job'[w].op = "register" /\ job'[w].stage = "insert" /\ job'[w].isNew
          /\ job'[w].org = nextOrg /\ job'[w].token = job[w].token /\ job'[w].row = job[w].row
          /\ \A v \in Workers : v # w => job'[v] = job[v]
      BY <1>1, <2>1 DEF Job, WillInsert
    <2>3. ASSUME Serial  PROVE NothingAhead' /\ Holds(job[w])'
      <3>1. NothingAhead'
        BY <1>1, <1>2, <1>3, <2>1, <2>3 DEF NothingAhead
      <3>2. \A u \in UserIds : Exists(u) => users[u].org # nextOrg
        BY <1>1, <1>3, <2>1, <2>3 DEF ReferencesHold, NothingAhead
      <3>3. \A u \in UserIds : Exists(u)' => users'[u].org # job'[w].org
        BY <1>2, <2>2, <3>2 DEF Exists
      <3>4. job'[w].token => job'[w].row.email \in invited'
        BY <1>2, <1>3, <2>1, <2>2, <2>3 DEF Holds
      <3>5. Holds(job[w])'
        BY <2>2, <3>3, <3>4 DEF Holds, WillInsert
      <3> QED
        BY <3>1, <3>5
    <2> QED
      BY <1>2, <2>2, <2>3, HoldStep
  <1>7. CASE FindProfileOrg(w)
    <2>1. /\ job[w].op = "profile" /\ job[w].row \in Row /\ job[w].user \in UserIds
          /\ UNCHANGED <<orgs, nextOrg>>
      BY <1>1, <1>7 DEF FindProfileOrg, At, Shape, orgTables
    <2>2. Serial => users[job[w].user] \in Row
      BY <1>1, <2>1 DEF SerialInv, Remembers, Exists
    <2>3. PICK x \in OrgIds : /\ job'[w].op = "profile" /\ job'[w].user = job[w].user
                              /\ \/ job'[w].row = job[w].row
                                 \/ job'[w].row = [job[w].row EXCEPT !.org = x]
                              /\ \A v \in Workers : v # w => job'[v] = job[v]
      <3>1. CASE Goto(w, "save")
        <4>1. job[w].row.org \in OrgIds
          BY <2>1 DEF Row
        <4> QED
          BY <1>1, <2>1, <3>1, <4>1 DEF Goto, Job
      <3>2. CASE \E x \in Named(job[w].orgName) :
                    job' = [job EXCEPT ![w].row = [@ EXCEPT !.org = x], ![w].stage = "save"]
        <4>1. PICK x \in OrgIds :
                 job' = [job EXCEPT ![w].row = [@ EXCEPT !.org = x], ![w].stage = "save"]
          BY <3>2 DEF Named
        <4> DEFINE row == [job[w].row EXCEPT !.org = x]
        <4>2. job' = [job EXCEPT ![w].row = row, ![w].stage = "save"]
          BY <1>1, <4>1
        <4> HIDE DEF row
        <4>3. /\ job'[w].op = "profile" /\ job'[w].user = job[w].user /\ job'[w].row = row
              /\ \A v \in Workers : v # w => job'[v] = job[v]
          BY <1>1, <2>1, <4>2 DEF Job
        <4> QED
          BY <4>3 DEF row
      <3> QED
        BY <1>7, <3>1, <3>2 DEF FindProfileOrg
    <2>4. ASSUME Serial  PROVE Holds(job[w])'
      <3> DEFINE old == users[job[w].user]
      <3>1. old \in Row
        BY <2>2, <2>4
      <3>2. PICK y \in OrgIds : job[w].row = [old EXCEPT !.org = y]
        BY <1>3, <2>1, <2>4 DEF Holds
      <3>3. [[old EXCEPT !.org = y] EXCEPT !.org = x] = [old EXCEPT !.org = x]
        BY <3>1 DEF Row
      <3>4. \E z \in OrgIds : job'[w].row = [old EXCEPT !.org = z]
        BY <2>3, <3>2, <3>3
      <3>5. users'[job'[w].user] = old
        BY <1>2, <2>3
      <3> HIDE DEF old
      <3> QED
        BY <2>3, <3>4, <3>5 DEF Holds, WillInsert
    <2> QED
      BY <1>4, <2>1, <2>3, <2>4
  <1> QED
    BY <1>5, <1>6, <1>7

\* What a lone request holds is what is stored.
LEMMA HoldsAll == Spec => [](TypeInv /\ SerialInv /\ ReferencesHold /\ HoldInv)
  <1>1. Init => HoldInv
    <2> SUFFICES ASSUME Init PROVE NothingAhead /\ \A w \in Workers : Holds(job[w])
      BY DEF HoldInv
    <2>1. \A w \in Workers : job[w].op = "idle"
      BY DEF Init, NoJob
    <2>2. NothingAhead
      BY DEF Init, NothingAhead
    <2> QED
      BY <2>1, <2>2 DEF Holds, WillInsert
  <1>2. TypeInv /\ SerialInv /\ ReferencesHold /\ HoldInv /\ [Next]_vars => HoldInv'
    <2> SUFFICES ASSUME TypeInv, SerialInv, ReferencesHold, HoldInv, [Next]_vars
                 PROVE  HoldInv'
      OBVIOUS
    <2>1. CASE UNCHANGED vars \/ Exhausted
      <3>1. UNCHANGED vars
        BY <2>1 DEF Exhausted
      <3>2. \A j : Holds(j)' <=> Holds(j)
        BY <3>1 DEF vars, Holds, Exists
      <3> QED
        BY <3>1, <3>2 DEF vars, HoldInv, Serial, NothingAhead
    <2>2. ASSUME NEW w \in Workers, Request(w)  PROVE HoldInv'
      BY <2>2, HoldRequest
    <2>3. ASSUME NEW w \in Workers, GetOrg(w) \/ MakeOrg(w) \/ FindProfileOrg(w)
          PROVE  HoldInv'
      BY <2>3, HoldFinds
    <2>4. ASSUME NEW w \in Workers, Step(w) \/ Timeout(w),
                 ~(GetOrg(w) \/ MakeOrg(w) \/ FindProfileOrg(w))
          PROVE  HoldInv'
      <3>1. /\ ~Relies(job'[w]) /\ \A v \in Workers : v # w => job'[v] = job[v]
            /\ nextHash' \in Nat /\ nextHash' >= nextHash
            /\ UNCHANGED <<scenario, nextOrg, links>> /\ (UNCHANGED orgs \/ SaveOrg(w) \/ DeleteOrg(w))
        BY <2>4, HoldEnds DEF Step
      <3>2. w \in scenario.workers
        BY <2>4 DEF SerialInv, Step, Timeout, Idle, InsertUser, FindDefaultGroups,
                    AddDefaultGroups, SetPassword, DeleteOrg, SendApproval, AddAdminGroup, AddRequestedGroup, Registered, ConfirmReset,
                    SaveProfile, SavePatch, SetGroups, SaveOrg, At
      <3>3. ASSUME Serial  PROVE NothingAhead'
        <4>1. CASE UNCHANGED orgs
          BY <2>4, <3>1, <3>3, <4>1, AheadStays DEF HoldInv
        <4>2. CASE SaveOrg(w)
          <5>1. job[w].op = "orgput" /\ orgs' = [orgs EXCEPT ![job[w].org] = job[w].orgName]
            BY <4>2 DEF SaveOrg, At
          <5>2. /\ job[w].org < nextOrg /\ job[w].org \in OrgIds /\ UNCHANGED nextHash
                /\ orgs \in [OrgIds -> OrgNames \cup {NoRow}] /\ nextOrg \in Nat
            BY <3>3, <4>2, <5>1 DEF HoldInv, Holds, TypeInv, TypeOK, Shape, SaveOrg, userTables
          <5> QED
            BY <3>1, <3>3, <5>1, <5>2 DEF HoldInv, NothingAhead, OrgIds
        <4>3. CASE DeleteOrg(w)
          <5>1. /\ UNCHANGED nextHash /\ nextOrg \in Nat
                /\ \A x \in OrgIds : orgs'[x] = orgs[x] \/ orgs'[x] = NoRow
            BY <4>3 DEF DeleteOrg, TypeInv, TypeOK
          <5> QED
            BY <3>1, <3>3, <5>1 DEF HoldInv, NothingAhead
        <4> QED
          BY <3>1, <4>1, <4>2, <4>3
      <3> QED
        BY <3>1, <3>2, <3>3, HoldsNothing, HoldStep
    <2> QED
      BY <2>1, <2>2, <2>3, <2>4 DEF Next
  <1> QED
    BY <1>1, <1>2, SerialHolds, TypesHold, References, PTL DEF Spec

\* Requests that write nothing leave the accounts as they are; the others invite or
\* send links.
LEMMA LifecycleRequest ==
  ASSUME TypeInv, NEW w \in Workers, Request(w)
  PROVE  UNCHANGED <<users, invited, links, spent>> \/ Lifecycle!Serve
  <1>0. 0 \notin UserIds
    BY DEF UserIds
  <1>1. ASSUME NEW n, NEW e, NEW o, NEW t, NEW gs, NEW l, NEW u, NEW p, NEW fs, NEW a, NEW x,
               \/ Register(w, n, e, o, t, gs) \/ StartConfirm(w, l)
               \/ StartProfile(w, u, o, p) \/ StartPatch(w, u, fs, n, e, a, gs)
               \/ StartPutOrg(w, x, o) \/ CreateOrg(w, o) \/ DeleteGroup(w, x)
               \/ CollectOrg(w, x)
        PROVE  UNCHANGED <<users, invited, links, spent>>
    BY <1>1 DEF Register, StartConfirm, StartProfile, StartPatch, StartPutOrg, CreateOrg,
                DeleteGroup, CollectOrg, userTables, sent, history
  <1>2. ASSUME NEW e \in Emails, Invite(w, e)  PROVE Lifecycle!Serve
    <2>1. Lifecycle!Invite(e)
      BY <1>2, <1>0 DEF Invite, Exists, userTables, history, Lifecycle!Invite,
                        Lifecycle!Free, Lifecycle!IsOpen
    <2> QED
      BY <2>1 DEF Lifecycle!Serve
  <1>3. ASSUME NEW e \in Emails, RequestReset(w, e)  PROVE Lifecycle!Serve
    <2>1. PICK us \in SUBSET {u \in UserIds : /\ Exists(u) /\ users[u].email = e
                                              /\ users[u].active} :
             links' = links \cup {LinkFor(u, users[u]) : u \in us}
      BY <1>3 DEF RequestReset
    <2>2. Lifecycle!SendLinks(us, e)
      BY <1>3, <2>1 DEF RequestReset, Exists, LinkFor, userTables, history,
                        Lifecycle!SendLinks, Lifecycle!Link, Lifecycle!IsOpen
    <2> QED
      BY <2>1, <2>2 DEF Lifecycle!Serve
  <1> QED
    BY <1>1, <1>2, <1>3 DEF Request

\* An organization is deleted: its accounts are closed.
LEMMA LifecycleClose ==
  ASSUME TypeInv, HoldInv, Serial, NEW w \in Workers, DeleteOrg(w)
  PROVE  UNCHANGED <<users, invited, links, spent>> \/ Lifecycle!Serve
  <1>1. job[w].org \in OrgIds /\ 0 \notin UserIds
    BY DEF DeleteOrg, At, TypeInv, Shape, UserIds
  <1>2. job[w].gone = {u \in UserIds : Exists(u) /\ users[u].org = job[w].org}
    BY DEF HoldInv, Holds, DeleteOrg, At
  <1>3. CASE UNCHANGED users
    BY <1>3 DEF DeleteOrg, sent
  <1>4. CASE users' = [u \in UserIds |-> IF u \in job[w].gone THEN NoRow ELSE users[u]]
    <2>1. Lifecycle!Close(job[w].org)
      BY <1>1, <1>2, <1>4 DEF DeleteOrg, Exists, sent, Lifecycle!Close, Lifecycle!IsOpen
    <2> QED
      BY <1>1, <2>1 DEF Lifecycle!Serve
  <1> QED
    BY <1>3, <1>4 DEF DeleteOrg

\* A user is inserted: a new account.
LEMMA LifecycleOpen ==
  ASSUME TypeInv, SerialInv, HoldInv, Serial, NEW w \in Workers, InsertUser(w)
  PROVE  UNCHANGED <<users, invited, links, spent>> \/ Lifecycle!Serve
  <1> DEFINE row == NewRow(job[w])
  <1>1. /\ job[w] \in Job /\ Shape(job[w]) /\ WillInsert(job[w])
        /\ job[w].op = "register" /\ job[w].stage = "insert"
        /\ Remembers(job[w]) /\ Holds(job[w]) /\ StoreInv
    BY DEF TypeInv, TypeOK, SerialInv, HoldInv, InsertUser, At, WillInsert
  <1>2. /\ nextUser \in UserIds /\ row \in Row /\ row.pw = Raw /\ row.org = job[w].org
        /\ row.email = job[w].row.email /\ row.active = (job[w].isNew \/ job[w].token)
        /\ users[nextUser] = NoRow
    <2>1. /\ job[w].row \in Row /\ job[w].org \in OrgIds /\ job[w].row.pw = Raw
          /\ job[w].isNew \in BOOLEAN /\ job[w].token \in BOOLEAN
      BY <1>1 DEF Shape, Job, Remembers
    <2>2. nextUser \in UserIds /\ users[nextUser] = NoRow
      BY <1>1, RoomIsThere DEF StoreInv, UserIds, TypeInv, TypeOK
    <2> DEFINE b == job[w].isNew \/ job[w].token
    <2>3. row = [job[w].row EXCEPT !.org = job[w].org, !.active = b] /\ b \in BOOLEAN
      BY <2>1 DEF NewRow
    <2> HIDE DEF b
    <2>4. /\ row \in Row /\ row.pw = Raw /\ row.org = job[w].org
          /\ row.email = job[w].row.email /\ row.active = b
      BY <2>1, <2>3 DEF Row
    <2> QED
      BY <2>2, <2>4 DEF b
  <1>3. UNCHANGED <<invited, links, spent>>
    BY DEF InsertUser, sent
  <1>4. \/ UNCHANGED users
        \/ CanStore(nextUser, row) /\ users' = [users EXCEPT ![nextUser] = row]
    BY DEF InsertUser
  <1> HIDE DEF row
  <1>5. ASSUME CanStore(nextUser, row), users' = [users EXCEPT ![nextUser] = row]
        PROVE  Lifecycle!Open(nextUser, row)
    <2>1. \A v \in UserIds : users[v] # NoRow => users[v].name # row.name
      BY <1>2, <1>5 DEF CanStore, Exists, UserIds
    <2>2. job[w].isNew => \A v \in UserIds : users[v] # NoRow => users[v].org # row.org
      BY <1>1, <1>2 DEF Holds, Exists, UserIds
    <2>3. job[w].token => /\ row.email \in invited
                          /\ \A v \in UserIds : users[v] # NoRow => users[v].email # row.email
      BY <1>1, <1>2 DEF Holds, Remembers, Exists, UserIds
    <2> QED
      BY <1>2, <1>3, <1>5, <2>1, <2>2, <2>3
         DEF Lifecycle!Open, Lifecycle!IsOpen, Lifecycle!Free
  <1> QED
    BY <1>2, <1>3, <1>4, <1>5 DEF Lifecycle!Serve

\* A hash that has just been made is one no link was sent for.
LEMMA NewHashIsFresh ==
  ASSUME TypeInv, NothingAhead, NEW u \in UserIds, nextHash \in Hashes
  PROVE  nextHash \in Lifecycle!Fresh(u)
  <1>1. nextHash \in Nat
    BY DEF TypeInv, TypeOK
  <1>2. \A e \in Emails : <<u, nextHash, e>> \notin links
    BY <1>1 DEF NothingAhead
  <1> QED
    BY <1>2 DEF Lifecycle!Fresh

\* A password is set, by registration, link or profile.
LEMMA LifecyclePassword ==
  ASSUME TypeInv, SerialInv, HoldInv, Serial, NEW w \in Workers,
         SetPassword(w) \/ ConfirmReset(w) \/ SaveProfile(w)
  PROVE  UNCHANGED <<users, invited, links, spent>> \/ Lifecycle!Serve
  <1> DEFINE u   == job[w].user
             old == users[u]
  <1>1. /\ job[w] \in Job /\ Shape(job[w]) /\ Remembers(job[w]) /\ Holds(job[w])
        /\ StoreInv /\ NothingAhead
    BY DEF TypeInv, TypeOK, SerialInv, HoldInv
  <1>2. /\ u \in UserIds /\ job[w].row \in Row /\ u # 0
        /\ users \in [UserIds -> Row \cup {NoRow}] /\ NoRow \notin Row
    BY <1>1, Written, SentinelsAssumption DEF UserIds, TypeInv, TypeOK
  <1>3. UNCHANGED <<invited, links>>
    BY DEF SetPassword, ConfirmReset, SaveProfile, sent
  <1>n. \/ UNCHANGED users
        \/ \A v \in UserIds \ {u} : users[v] # NoRow => users[v].name # job[w].row.name
    <2>1. \A p : [job[w].row EXCEPT !.pw = p].name = job[w].row.name
      BY <1>2 DEF Row
    <2>2. \/ UNCHANGED users
          \/ \E row : CanStore(u, row) /\ row.name = job[w].row.name
      BY <2>1 DEF SetPassword, ConfirmReset, SaveProfile
    <2> QED
      BY <2>2 DEF CanStore, Exists, UserIds
  <1>b. ASSUME NEW row, row.name = job[w].row.name, SaveUser(u, row), users[u] # NoRow,
               \A v \in UserIds \ {u} : users[v] # NoRow => users[v].name # job[w].row.name
        PROVE  Lifecycle!Becomes(u, row)
    BY <1>b DEF SaveUser, Lifecycle!Becomes, Lifecycle!IsOpen
  <1>4. CASE SetPassword(w)
    <2>1. /\ nextHash \in Hashes /\ old = job[w].row /\ UNCHANGED spent
          /\ \/ UNCHANGED users
             \/ SaveUser(u, [job[w].row EXCEPT !.pw = nextHash])
      BY <1>1, <1>4, RoomIsThere DEF SetPassword, At, WillHash, Remembers, history
    <2>2. old \in Row /\ old.org \in OrgIds
      BY <1>2, <2>1 DEF Row
    <2>3. [old EXCEPT !.pw = nextHash] = [old EXCEPT !.org = old.org, !.pw = nextHash]
      BY <2>2 DEF Row
    <2>4. ASSUME SaveUser(u, [old EXCEPT !.pw = nextHash]), ~UNCHANGED users
          PROVE  Lifecycle!Update(u, old.org, nextHash)
      <3>1. [old EXCEPT !.pw = nextHash].name = job[w].row.name
        BY <2>1, <2>2 DEF Row
      <3>2. Lifecycle!Becomes(u, [old EXCEPT !.pw = nextHash])
        BY <1>b, <1>n, <1>2, <2>2, <2>4, <3>1
      <3> QED
        BY <1>1, <1>2, <1>3, <2>1, <2>3, <3>2, NewHashIsFresh DEF Lifecycle!Update
    <2> QED
      BY <1>2, <1>3, <2>1, <2>2, <2>4 DEF Lifecycle!Serve
  <1>5. CASE ConfirmReset(w)
    <2>1. /\ nextHash \in Hashes /\ old = job[w].row /\ LinkFor(u, old) \in links
          /\ \/ UNCHANGED <<users, spent>>
             \/ /\ SaveUser(u, [job[w].row EXCEPT !.pw = nextHash])
                /\ spent' = spent \cup {LinkFor(u, job[w].row)}
      BY <1>1, <1>5, RoomIsThere DEF ConfirmReset, At, WillHash, Remembers, Holds
    <2>2. old \in Row /\ LinkFor(u, old) \notin spent
      <3>1. old \in Row /\ Exists(u)
        BY <1>2, <2>1 DEF Exists
      <3> QED
        BY <1>1, <1>2, <3>1 DEF StoreInv, LinkFor
    <2>3. ASSUME SaveUser(u, [old EXCEPT !.pw = nextHash]), ~UNCHANGED users,
                 spent' = spent \cup {LinkFor(u, old)}
          PROVE  Lifecycle!UseLink(u, nextHash)
      <3>1. [old EXCEPT !.pw = nextHash].name = job[w].row.name
        BY <2>1, <2>2 DEF Row
      <3>2. Lifecycle!Becomes(u, [old EXCEPT !.pw = nextHash])
        BY <1>b, <1>n, <1>2, <2>2, <2>3, <3>1
      <3> QED
        BY <1>1, <1>2, <1>3, <2>1, <2>2, <2>3, <3>2, NewHashIsFresh
           DEF LinkFor, Lifecycle!UseLink, Lifecycle!Link
    <2>4. CASE UNCHANGED users /\ SaveUser(u, [old EXCEPT !.pw = nextHash])
      <3>1. old.pw = nextHash
        BY <1>2, <2>2, <2>4 DEF SaveUser, Row
      <3> QED
        BY <1>1, <1>2, <2>2, <3>1 DEF StoreInv, Exists, TypeInv, TypeOK
    <2> QED
      BY <1>2, <1>3, <2>1, <2>3, <2>4 DEF Lifecycle!Serve
  <1>6. CASE SaveProfile(w)
    <2>1. PICK x \in OrgIds : job[w].row = [old EXCEPT !.org = x]
      BY <1>1, <1>6 DEF SaveProfile, At, Holds
    <2>2. old \in Row /\ UNCHANGED spent
      BY <1>1, <1>2, <1>6 DEF SaveProfile, At, Remembers, Exists
    <2>3. PICK p \in Lifecycle!Fresh(u) \cup {old.pw} :
             UNCHANGED users \/ SaveUser(u, [old EXCEPT !.org = x, !.pw = p])
      <3>1. CASE "password" \in job[w].fields
        <4>1. nextHash \in Hashes
          BY <1>1, <1>6, <3>1, RoomIsThere DEF SaveProfile, At, WillHash
        <4>2. UNCHANGED users \/ SaveUser(u, [job[w].row EXCEPT !.pw = nextHash])
          BY <1>6, <3>1 DEF SaveProfile
        <4> QED
          BY <1>1, <1>2, <2>1, <4>1, <4>2, NewHashIsFresh
      <3>2. CASE "password" \notin job[w].fields
        <4>1. UNCHANGED users \/ SaveUser(u, job[w].row)
          BY <1>6, <3>2 DEF SaveProfile
        <4>2. [old EXCEPT !.org = x] = [old EXCEPT !.org = x, !.pw = old.pw]
          BY <2>2 DEF Row
        <4>3. UNCHANGED users \/ SaveUser(u, [old EXCEPT !.org = x, !.pw = old.pw])
          BY <2>1, <4>1, <4>2 DEF SaveUser
        <4> QED
          BY <4>3
      <3> QED
        BY <3>1, <3>2
    <2>4. p \in {Raw} \cup Hashes
      BY <2>2, <2>3 DEF Row, Lifecycle!Fresh
    <2>5. ASSUME SaveUser(u, [old EXCEPT !.org = x, !.pw = p]), ~UNCHANGED users
          PROVE  Lifecycle!Update(u, x, p)
      <3>1. [old EXCEPT !.org = x, !.pw = p].name = job[w].row.name
        BY <2>1, <2>2 DEF Row
      <3>2. Lifecycle!Becomes(u, [old EXCEPT !.org = x, !.pw = p])
        BY <1>b, <1>n, <1>2, <2>2, <2>5, <3>1
      <3> QED
        BY <1>2, <1>3, <2>2, <2>3, <3>2 DEF Lifecycle!Update
    <2> QED
      BY <1>2, <1>3, <2>2, <2>3, <2>4, <2>5 DEF Lifecycle!Serve
  <1> QED
    BY <1>4, <1>5, <1>6

\* An admin's PATCH edits the account, or overwrites its password as well.
LEMMA LifecyclePatch ==
  ASSUME TypeInv, SerialInv, HoldInv, Serial, NEW w \in Workers, SavePatch(w)
  PROVE  UNCHANGED <<users, invited, links, spent>> \/ Lifecycle!Serve
  <1> DEFINE u   == job[w].user
             row == job[w].row
  <1>1. /\ job[w].op = "patch" /\ job[w].stage = "save"
        /\ Shape(job[w]) /\ Remembers(job[w]) /\ Holds(job[w])
    BY DEF TypeInv, SerialInv, HoldInv, SavePatch, At
  <1>2. /\ u \in UserIds /\ Exists(u) /\ row \in Row /\ row.org = users[u].org
        /\ row.pw = IF "password" \in job[w].fields THEN Raw ELSE users[u].pw
    BY <1>1 DEF Shape, Remembers, Holds
  <1>3. /\ UNCHANGED <<invited, links>>
        /\ \/ UNCHANGED <<users, spent>>
           \/ /\ CanStore(u, row) /\ users' = [users EXCEPT ![u] = row]
              /\ spent' = IF "password" \in job[w].fields THEN {l \in spent : l[1] # u}
                                                          ELSE spent
    BY DEF SavePatch, SaveUser, sent
  <1> HIDE DEF u, row
  <1>4. ASSUME CanStore(u, row), users' = [users EXCEPT ![u] = row]
        PROVE  Lifecycle!Becomes(u, row)
    BY <1>2, <1>4 DEF CanStore, Exists, UserIds, Lifecycle!Becomes, Lifecycle!IsOpen
  <1>5. CASE UNCHANGED <<users, spent>>
    BY <1>3, <1>5
  <1>6. CASE ~UNCHANGED <<users, spent>> /\ "password" \in job[w].fields
    <2>1. Lifecycle!Overwrite(u, row)
      BY <1>2, <1>3, <1>4, <1>6 DEF Lifecycle!Overwrite
    <2> QED
      BY <1>2, <2>1 DEF Lifecycle!Serve
  <1>7. CASE ~UNCHANGED <<users, spent>> /\ "password" \notin job[w].fields
    <2>1. Lifecycle!Edit(u, row)
      BY <1>2, <1>3, <1>4, <1>7 DEF Lifecycle!Edit
    <2> QED
      BY <1>2, <2>1 DEF Lifecycle!Serve
  <1> QED
    BY <1>5, <1>6, <1>7

\* One request at a time, the users' table implements the life of an account: a
\* save of the whole row changes what its request is about and nothing else.
THEOREM KeepsLifecycle == Spec => ImplementsLifecycle
  <1>1. Init => Lifecycle!Init
    BY DEF Init, Lifecycle!Init, Serial
  <1>2. TypeInv /\ SerialInv /\ HoldInv /\ [Next]_vars => [Lifecycle!Next]_(Lifecycle!vars)
    <2> SUFFICES ASSUME TypeInv, SerialInv, HoldInv, [Next]_vars
                 PROVE  [Lifecycle!Next]_(Lifecycle!vars)
      OBVIOUS
    <2>1. UNCHANGED Serial
      BY ScenarioStays DEF Serial
    <2>2. CASE ~Serial
      BY <2>1, <2>2 DEF Lifecycle!Next
    <2>3. CASE Serial
      <3>1. CASE UNCHANGED vars \/ Exhausted
        BY <2>1, <3>1 DEF Exhausted, vars, Lifecycle!vars
      <3>2. ASSUME NEW w \in Workers, Request(w) \/ Step(w) \/ Timeout(w)
            PROVE  UNCHANGED <<users, invited, links, spent>> \/ Lifecycle!Serve
        <4>1. CASE Request(w)
          BY <4>1, LifecycleRequest
        <4>2. CASE InsertUser(w)
          BY <2>3, <4>2, LifecycleOpen
        <4>3. CASE SetPassword(w) \/ ConfirmReset(w) \/ SaveProfile(w)
          BY <2>3, <4>3, LifecyclePassword
        <4>4. CASE SavePatch(w)
          BY <2>3, <4>4, LifecyclePatch
        <4>6. CASE DeleteOrg(w)
          BY <2>3, <4>6, LifecycleClose
        <4>5. CASE \/ GetOrg(w) \/ MakeOrg(w) \/ FindDefaultGroups(w) \/ AddDefaultGroups(w)
                   \/ SendApproval(w) \/ AddAdminGroup(w) \/ \E g \in Listed : AddRequestedGroup(w, g)
                   \/ Registered(w) \/ FindProfileOrg(w) \/ SetGroups(w) \/ SaveOrg(w)
                   \/ Timeout(w)
          BY <4>5 DEF GetOrg, MakeOrg, FindDefaultGroups, AddDefaultGroups, SendApproval,
                      AddAdminGroup, AddRequestedGroup, Registered, FindProfileOrg, SetGroups, SaveOrg,
                      Timeout, userTables, sent, history
        <4> QED
          BY <3>2, <4>1, <4>2, <4>3, <4>4, <4>5, <4>6 DEF Step
      <3> QED
        BY <2>1, <3>1, <3>2 DEF Next, Lifecycle!Next, Lifecycle!vars
    <2> QED
      BY <2>2, <2>3
  <1> QED
    BY <1>1, <1>2, HoldsAll, PTL DEF Spec, ImplementsLifecycle, Lifecycle!Spec

=============================================================================
