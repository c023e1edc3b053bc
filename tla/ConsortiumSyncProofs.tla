------------------------ MODULE ConsortiumSyncProofs ------------------------
(***************************************************************************)
(* Theorems about ConsortiumSync, for any number of workers, shipments,    *)
(* organizations and rows.  There are three invariants, each resting on    *)
(* the ones before it: types and fresh keys; lists without repetitions;    *)
(* and what the one request in progress has read, while requests come one  *)
(* at a time.                                                              *)
(***************************************************************************)
EXTENDS ConsortiumSync, TLAPS

-----------------------------------------------------------------------------
(* Lists.                                                                  *)

\* Appending an organization adds it, and repeats none that is not a member.
LEMMA Appended ==
  ASSUME NEW l \in Lists, NEW o \in Orgs \cup {NoOrg}
  PROVE  /\ Append(l, o) \in Lists
         /\ Elements(Append(l, o)) = Elements(l) \cup {o}
         /\ o \notin Elements(l) /\ NoNewRepeats(l) => NoNewRepeats(Append(l, o))
  <1> DEFINE S == Orgs \cup {NoOrg}
             a == Append(l, o)
  <1>1. l \in Seq(S) /\ o \in S
    BY DEF Lists
  <1> HIDE DEF S
  <1>2. /\ a \in Seq(S)
        /\ Len(a) = Len(l) + 1
        /\ \A k \in 1..Len(l) : a[k] = l[k]
        /\ a[Len(l) + 1] = o
    BY <1>1
  <1>3. DOMAIN a = 1..(Len(l) + 1) /\ DOMAIN l = 1..Len(l) /\ Len(l) \in Nat
    BY <1>1, <1>2
  <1> HIDE DEF a
  <1>4. Elements(a) = Elements(l) \cup {o}
    BY <1>2, <1>3 DEF Elements
  <1>5. o \notin Elements(l) /\ NoNewRepeats(l) => NoNewRepeats(a)
    BY <1>2, <1>3 DEF Elements, NoNewRepeats
  <1> QED
    BY <1>2, <1>4, <1>5 DEF Lists, S, a

\* A list of one organization.
LEMMA Single ==
  ASSUME NEW o \in Orgs \cup {NoOrg}
  PROVE  /\ <<o>> \in Lists
         /\ Elements(<<o>>) = {o}
         /\ NoNewRepeats(<<o>>)
  <1>1. <<o>> \in Lists /\ DOMAIN <<o>> = {1} /\ <<o>>[1] = o
    BY DEF Lists
  <1> QED
    BY <1>1 DEF Elements, NoNewRepeats

-----------------------------------------------------------------------------
(* Types and fresh keys.                                                   *)

\* A request in progress knows its shipment until something fails, and what it
\* saves is an instance of a row that has once been inserted.
JobShape(j, next) ==
    /\ j.custody /\ j.ok => j.shipment \in Shipments
    /\ j.stage \in {"look", "create"} => j.custody /\ j.ok
    /\ j.stage = "save" => j.copy \in Copy /\ j.copy.id < next

\* Keys above the last one are unused.
Fresh == \A i \in Ids : rows[i] # NoRow => i < nextId

TypeInv ==
    /\ TypeOK
    /\ Fresh
    /\ \A w \in Workers : JobShape(job[w], nextId)

\* An idle worker's job.
LEMMA NoJobShape == NoJob \in Job /\ \A n : JobShape(NoJob, n)
  BY DEF NoJob, Job, JobShape

\* It is enough to look at the worker whose job changes, keys only growing.
LEMMA JobStep ==
  ASSUME TypeInv, NEW w \in Workers, NEW j \in Job,
         job' = [job EXCEPT ![w] = j],
         nextId' \in Nat, nextId' >= nextId, JobShape(j, nextId')
  PROVE  job' \in [Workers -> Job] /\ \A v \in Workers : JobShape(job[v], nextId)'
  <1>1. job' \in [Workers -> Job]
    BY DEF TypeInv, TypeOK
  <1>2. ASSUME NEW v \in Workers
        PROVE  JobShape(job[v], nextId)'
    <2>1. CASE v = w
      BY <2>1 DEF TypeInv, TypeOK, JobShape
    <2>2. CASE v # w
      <3>1. job'[v] = job[v] /\ job[v] \in Job /\ JobShape(job[v], nextId)
        BY <2>2 DEF TypeInv, TypeOK
      <3>2. job[v].copy \in Copy => job[v].copy.id \in Nat
        BY DEF Copy, Ids
      <3>3. nextId \in Nat
        BY ConstantsAssumption DEF TypeInv, TypeOK
      <3> QED
        BY <3>1, <3>2, <3>3 DEF JobShape
    <2> QED
      BY <2>1, <2>2
  <1> QED
    BY <1>1, <1>2

\* The histories keep their types when a request comes.
LEMMA ArrivesType ==
  ASSUME TypeOK, NEW new, new \subseteq Shipments \X Orgs, Arrives(new)
  PROVE  /\ serial' \in BOOLEAN
         /\ created' \subseteq Shipments \X Orgs
         /\ acked' \subseteq Shipments \X Orgs
  <1>1. serial' \in BOOLEAN
    BY DEF TypeOK, Arrives
  <1>2. serial' => /\ created' = created \cup new
                   /\ acked' = acked
    BY DEF Arrives
  <1>3. ~serial' => created' = {} /\ acked' = {}
    BY DEF Arrives
  <1> QED
    BY <1>1, <1>2, <1>3 DEF TypeOK

\* Requests that arrive.
LEMMA ArriveTypes ==
  ASSUME TypeInv, NEW w \in Workers,
         \/ \E s \in Shipments, o \in Orgs \cup {NoOrg} : Custody(w, s, o)
         \/ CustodyUnusable(w)
  PROVE  TypeInv'
  <1>0. nextId \in Nat
    BY ConstantsAssumption DEF TypeInv, TypeOK
  <1>1. ASSUME NEW s \in Shipments, NEW o \in Orgs \cup {NoOrg}, Custody(w, s, o)
        PROVE  TypeInv'
    <2> DEFINE j == [NoJob EXCEPT !.stage = "look", !.custody = TRUE,
                                  !.shipment = s, !.org = o]
    <2>1. j \in Job /\ JobShape(j, nextId')
      BY DEF Job, NoJob, JobShape
    <2>2. job' = [job EXCEPT ![w] = j] /\ UNCHANGED <<rows, nextId>>
      BY <1>1 DEF Custody
    <2>3. job' \in [Workers -> Job] /\ \A v \in Workers : JobShape(job[v], nextId)'
      <3>1. PICK k \in Job : job' = [job EXCEPT ![w] = k] /\ JobShape(k, nextId')
        BY <2>1, <2>2
      <3>2. nextId' \in Nat /\ nextId' >= nextId
        BY <1>0, <2>2
      <3> QED
        BY <3>1, <3>2, JobStep, Zenon
    <2>4. {s} \X ({o} \ {NoOrg}) \subseteq Shipments \X Orgs
      OBVIOUS
    <2>5. /\ serial' \in BOOLEAN
          /\ created' \subseteq Shipments \X Orgs
          /\ acked' \subseteq Shipments \X Orgs
      BY <1>1, <2>4, ArrivesType DEF Custody, TypeInv
    <2> QED
      BY <2>2, <2>3, <2>5 DEF TypeInv, TypeOK, Fresh
  <1>2. ASSUME CustodyUnusable(w)
        PROVE  TypeInv'
    <2> DEFINE j == [NoJob EXCEPT !.stage = "done", !.custody = TRUE, !.ok = FALSE]
    <2>1. j \in Job /\ JobShape(j, nextId')
      BY DEF Job, NoJob, JobShape
    <2>2. job' = [job EXCEPT ![w] = j] /\ UNCHANGED <<rows, nextId>>
      BY <1>2 DEF CustodyUnusable
    <2>3. job' \in [Workers -> Job] /\ \A v \in Workers : JobShape(job[v], nextId)'
      <3>1. PICK k \in Job : job' = [job EXCEPT ![w] = k] /\ JobShape(k, nextId')
        BY <2>1, <2>2
      <3>2. nextId' \in Nat /\ nextId' >= nextId
        BY <1>0, <2>2
      <3> QED
        BY <3>1, <3>2, JobStep, Zenon
    <2>4. /\ serial' \in BOOLEAN
          /\ created' \subseteq Shipments \X Orgs
          /\ acked' \subseteq Shipments \X Orgs
      BY <1>2, ArrivesType DEF CustodyUnusable, TypeInv
    <2> QED
      BY <2>2, <2>3, <2>4 DEF TypeInv, TypeOK, Fresh
  <1> QED
    BY <1>1, <1>2

\* Steps that only look at the table, and those that end a request.
LEMMA LookTypes ==
  ASSUME TypeInv, NEW w \in Workers,
         \/ LookMissing(w)
         \/ \E i \in Ids : LookMember(w, i) \/ LookNull(w, i) \/ LookNew(w, i)
         \/ WorkerTimeout(w)
  PROVE  TypeInv'
  <1>0. nextId \in Nat /\ job[w] \in Job /\ JobShape(job[w], nextId)
    BY ConstantsAssumption DEF TypeInv, TypeOK
  <1>1. UNCHANGED <<rows, nextId, serial, created, acked>>
    BY DEF LookMissing, LookMember, LookNull, LookNew, WorkerTimeout, histories
  <1>2. \E j \in Job : job' = [job EXCEPT ![w] = j] /\ JobShape(j, nextId')
    <2>1. CASE LookMissing(w)
      <3> DEFINE j == [job[w] EXCEPT !.stage = "create"]
      <3>1. j \in Job /\ JobShape(j, nextId')
        BY <1>0, <2>1 DEF Job, JobShape, LookMissing
      <3> QED
        BY <2>1, <3>1 DEF LookMissing
    <2>2. ASSUME NEW i \in Ids, LookMember(w, i)
          PROVE  \E j \in Job : job' = [job EXCEPT ![w] = j] /\ JobShape(j, nextId')
      <3> DEFINE j == [job[w] EXCEPT !.stage = "done", !.copy = NoCopy]
      <3>1. j \in Job /\ JobShape(j, nextId')
        BY <1>0, <2>2 DEF Job, JobShape, LookMember, Finds
      <3>2. job' = [job EXCEPT ![w] = j]
        BY <2>2 DEF LookMember, Done
      <3> QED
        BY <3>1, <3>2
    <2>3. ASSUME NEW i \in Ids, LookNull(w, i)
          PROVE  \E j \in Job : job' = [job EXCEPT ![w] = j] /\ JobShape(j, nextId')
      <3> DEFINE j == [job[w] EXCEPT !.stage = "done", !.ok = FALSE]
      <3>1. j \in Job /\ JobShape(j, nextId')
        BY <1>0, <2>3 DEF Job, JobShape, LookNull, Finds
      <3>2. job' = [job EXCEPT ![w] = j]
        BY <2>3 DEF LookNull
      <3> QED
        BY <3>1, <3>2
    <2>4. ASSUME NEW i \in Ids, LookNew(w, i)
          PROVE  \E j \in Job : job' = [job EXCEPT ![w] = j] /\ JobShape(j, nextId')
      <3> DEFINE c == [id  |-> i, row |-> [rows[i] EXCEPT
                                    !.orgs = Extended(@, job[w].org)]]
                 j == [job[w] EXCEPT !.stage = "save", !.copy = c]
      <3>1. rows[i] \in Row /\ rows[i].orgs \in Lists /\ i < nextId
        BY <2>4 DEF LookNew, Finds, Named, TypeInv, TypeOK, Fresh, Row
      <3>2. Extended(rows[i].orgs, job[w].org) \in Lists
        BY <1>0, <3>1, Appended DEF Extended, Job
      <3>3. c \in Copy /\ c.id < nextId
        BY <3>1, <3>2 DEF Copy, Row
      <3>4. job' = [job EXCEPT ![w] = j]
        BY <2>4 DEF LookNew
      <3> HIDE DEF c
      <3>5. j \in Job /\ JobShape(j, nextId')
        BY <1>0, <1>1, <2>4, <3>3 DEF Job, JobShape, LookNew, Finds
      <3> QED
        BY <3>4, <3>5
    <2>5. CASE WorkerTimeout(w)
      BY <2>5, NoJobShape DEF WorkerTimeout, JobShape, NoJob
    <2> QED
      BY <2>1, <2>2, <2>3, <2>4, <2>5
  <1>3. job' \in [Workers -> Job] /\ \A v \in Workers : JobShape(job[v], nextId)'
    <2>1. PICK j \in Job : job' = [job EXCEPT ![w] = j] /\ JobShape(j, nextId')
      BY <1>2
    <2>2. nextId' \in Nat /\ nextId' >= nextId
      BY <1>0, <1>1
    <2> QED
      BY <2>1, <2>2, JobStep, Zenon
  <1> QED
    BY <1>1, <1>3 DEF TypeInv, TypeOK, Fresh

\* A worker that is done, or idle again.
LEMMA DoneShape ==
  ASSUME TypeInv, NEW w \in Workers, nextId' \in Nat, nextId' >= nextId,
         Done(w) \/ job' = [job EXCEPT ![w] = NoJob]
  PROVE  job' \in [Workers -> Job] /\ \A v \in Workers : JobShape(job[v], nextId)'
  <1>1. job[w] \in Job /\ JobShape(job[w], nextId)
    BY DEF TypeInv, TypeOK
  <1>2. \E j \in Job : job' = [job EXCEPT ![w] = j] /\ JobShape(j, nextId')
    <2>1. CASE Done(w)
      <3> DEFINE j == [job[w] EXCEPT !.stage = "done", !.copy = NoCopy]
      <3>1. j \in Job /\ JobShape(j, nextId')
        BY <1>1 DEF Job, JobShape
      <3>2. job' = [job EXCEPT ![w] = j]
        BY <2>1 DEF Done
      <3> QED
        BY <3>1, <3>2
    <2>2. CASE job' = [job EXCEPT ![w] = NoJob]
      BY <2>2, NoJobShape
    <2> QED
      BY <2>1, <2>2
  <1>3. PICK j \in Job : job' = [job EXCEPT ![w] = j] /\ JobShape(j, nextId')
    BY <1>2
  <1> QED
    BY <1>3, JobStep, Zenon

\* A new consortium, of a custody POST or an administrator's.
LEMMA CreateTypes ==
  ASSUME TypeInv, NEW w \in Workers,
         \/ CreateConsortium(w)
         \/ \E s \in Shipments, l \in AdminLists : AdminCreate(w, s, l)
  PROVE  TypeInv'
  <1>0. nextId \in Nat /\ job[w] \in Job /\ JobShape(job[w], nextId)
    BY ConstantsAssumption DEF TypeInv, TypeOK
  <1>1. PICK r \in Row : /\ nextId \in Ids
                         /\ rows' = [rows EXCEPT ![nextId] = r]
                         /\ nextId' = nextId + 1
    <2>1. CASE CreateConsortium(w)
      <3>1. [name |-> job[w].shipment, orgs |-> <<job[w].org>>] \in Row
        BY <1>0, <2>1, Single DEF Row, Job, JobShape, CreateConsortium
      <3> QED
        BY <2>1, <3>1 DEF CreateConsortium
    <2>2. ASSUME NEW s \in Shipments, NEW l \in AdminLists, AdminCreate(w, s, l)
          PROVE  \E r \in Row : /\ nextId \in Ids
                               /\ rows' = [rows EXCEPT ![nextId] = r]
                               /\ nextId' = nextId + 1
      <3>1. [name |-> s, orgs |-> l] \in Row
        BY SentinelsAssumption DEF Row
      <3> QED
        BY <2>2, <3>1 DEF AdminCreate
    <2> QED
      BY <2>1, <2>2
  <1>2. rows' \in [Ids -> Row \cup {NoRow}] /\ nextId' \in 1..(MaxRows + 1)
    BY <1>1, ConstantsAssumption DEF TypeInv, TypeOK, Ids
  <1>3. Fresh'
    BY <1>0, <1>1 DEF TypeInv, TypeOK, Fresh, Ids
  <1>4. /\ serial' \in BOOLEAN
        /\ created' \subseteq Shipments \X Orgs
        /\ acked' \subseteq Shipments \X Orgs
    BY DEF CreateConsortium, AdminCreate, Edits, histories, TypeInv, TypeOK
  <1>5. job' \in [Workers -> Job] /\ \A v \in Workers : JobShape(job[v], nextId)'
    <2>1. CASE CreateConsortium(w)
      BY <1>0, <1>1, <2>1, DoneShape DEF CreateConsortium
    <2>2. CASE job' = job
      BY <1>0, <1>1, <2>2 DEF TypeInv, TypeOK, JobShape, Copy, Ids
    <2> QED
      BY <2>1, <2>2 DEF AdminCreate
  <1> QED
    BY <1>2, <1>3, <1>4, <1>5 DEF TypeInv, TypeOK

\* save() writes the row that was read, perhaps one that has been deleted.
LEMMA SaveTypes ==
  ASSUME TypeInv, NEW w \in Workers, Save(w)
  PROVE  TypeInv'
  <1>0. nextId \in Nat /\ job[w].copy \in Copy /\ job[w].copy.id < nextId
    BY ConstantsAssumption DEF TypeInv, TypeOK, JobShape, Save
  <1>1. job[w].copy.id \in Ids /\ job[w].copy.row \in Row
    BY <1>0 DEF Copy
  <1>2. rows' \in [Ids -> Row \cup {NoRow}] /\ Fresh'
    BY <1>0, <1>1 DEF TypeInv, TypeOK, Fresh, Save
  <1>3. job' \in [Workers -> Job] /\ \A v \in Workers : JobShape(job[v], nextId)'
    BY <1>0, DoneShape DEF Save
  <1> QED
    BY <1>2, <1>3 DEF TypeInv, TypeOK, Save, histories

\* What is counted as answered is a shipment and an organization.
LEMMA RespondTypes ==
  ASSUME TypeInv, NEW w \in Workers, Respond(w)
  PROVE  TypeInv'
  <1>0. nextId \in Nat /\ job[w] \in Job /\ JobShape(job[w], nextId)
    BY ConstantsAssumption DEF TypeInv, TypeOK
  <1>1. acked' \subseteq Shipments \X Orgs
    BY <1>0 DEF TypeInv, TypeOK, Respond, Job, JobShape
  <1>2. job' \in [Workers -> Job] /\ \A v \in Workers : JobShape(job[v], nextId)'
    <2>1. nextId' \in Nat /\ nextId' >= nextId /\ job' = [job EXCEPT ![w] = NoJob]
      BY <1>0 DEF Respond
    <2> QED
      BY <2>1, DoneShape, Zenon
  <1> QED
    BY <1>1, <1>2 DEF TypeInv, TypeOK, Respond, Fresh

\* An administrator's edit of a row that is there, and its deletion.
LEMMA AdminTypes ==
  ASSUME TypeInv, NEW w \in Workers, NEW i \in Ids,
         \/ \E s \in Shipments, l \in AdminLists : AdminPatch(w, i, s, l)
         \/ AdminDelete(w, i)
  PROVE  TypeInv'
  <1>0. nextId \in Nat
    BY ConstantsAssumption DEF TypeInv, TypeOK
  <1>1. ASSUME NEW s \in Shipments, NEW l \in AdminLists, AdminPatch(w, i, s, l)
        PROVE  TypeInv'
    <2> DEFINE c == [id |-> i, row |-> [name |-> s, orgs |-> l]]
               j == [NoJob EXCEPT !.stage = "save", !.copy = c]
    <2>1. c \in Copy /\ c.id < nextId
      BY <1>1, SentinelsAssumption DEF Copy, Row, AdminPatch, TypeInv, Fresh
    <2>2. job' = [job EXCEPT ![w] = j] /\ nextId' = nextId
      BY <1>1 DEF AdminPatch
    <2> HIDE DEF c
    <2>3. j \in Job /\ JobShape(j, nextId')
      BY <2>1, <2>2 DEF Job, JobShape, NoJob
    <2>4. PICK k \in Job : job' = [job EXCEPT ![w] = k] /\ JobShape(k, nextId')
      BY <2>2, <2>3
    <2>5. nextId' \in Nat /\ nextId' >= nextId
      BY <1>0, <2>2
    <2>6. job' \in [Workers -> Job] /\ \A v \in Workers : JobShape(job[v], nextId)'
      BY <2>4, <2>5, JobStep, Zenon
    <2> QED
      BY <1>1, <2>6 DEF TypeInv, TypeOK, Fresh, AdminPatch, Edits
  <1>2. CASE AdminDelete(w, i)
    BY <1>2 DEF TypeInv, TypeOK, Fresh, AdminDelete, Edits, JobShape
  <1> QED
    BY <1>1, <1>2

\* The initial state has the types.
LEMMA InitTypes == Init => TypeInv
  <1> SUFFICES ASSUME Init PROVE TypeInv
    OBVIOUS
  <1>1. TypeOK
    BY NoJobShape, ConstantsAssumption DEF Init, TypeOK
  <1>2. Fresh /\ \A w \in Workers : JobShape(job[w], nextId)
    BY NoJobShape DEF Init, Fresh
  <1> QED
    BY <1>1, <1>2 DEF TypeInv

\* Every step keeps them.
LEMMA NextTypes == TypeInv /\ [Next]_vars => TypeInv'
  <1> SUFFICES ASSUME TypeInv, [Next]_vars PROVE TypeInv'
    OBVIOUS
  <1>1. CASE UNCHANGED vars
    BY <1>1 DEF vars, TypeInv, TypeOK, Fresh, JobShape
  <1>2. ASSUME NEW w \in Workers, Progresses(w) PROVE TypeInv'
    BY <1>2, LookTypes, CreateTypes, SaveTypes, RespondTypes DEF Progresses
  <1>3. ASSUME NEW w \in Workers, Requests(w) PROVE TypeInv'
    BY <1>3, ArriveTypes, CreateTypes, AdminTypes, LookTypes DEF Requests
  <1> QED
    BY <1>1, <1>2, <1>3 DEF Next

\* Types and fresh keys hold always.
LEMMA TypesHold == Spec => []TypeInv
  BY InitTypes, NextTypes, PTL DEF Spec

\* The table, the jobs and the histories have the types TypeOK gives them.
THEOREM TypeCorrect == Spec => []TypeOK
  <1>1. TypeInv => TypeOK
    BY DEF TypeInv
  <1> QED
    BY <1>1, TypesHold, PTL

-----------------------------------------------------------------------------
(* Lists that repeat what administrators repeat.                           *)

Clean(l) == l = NullList \/ NoNewRepeats(l)

\* What an administrator sends repeats what an administrator has sent.
LEMMA SentClean == \A l \in AdminLists : Clean(l)
  BY DEF Clean, NoNewRepeats, SentTwice

\* Nor does a list that is about to be saved repeat anything else.
RepeatInv ==
    /\ TypeInv
    /\ \A i \in Ids : rows[i] # NoRow => Clean(rows[i].orgs)
    /\ \A w \in Workers : job[w].stage = "save" => Clean(job[w].copy.row.orgs)

\* A step of a custody POST keeps the lists clean.
LEMMA ProgressClean ==
  ASSUME RepeatInv, NEW w \in Workers, Progresses(w)
  PROVE  RepeatInv'
  <1>0. TypeInv' /\ TypeInv
    BY NextTypes DEF RepeatInv, Next
  <1>1. job[w] \in Job /\ job \in [Workers -> Job]
    BY <1>0 DEF TypeInv, TypeOK
  <1>2. CASE LookMissing(w)
    BY <1>0, <1>1, <1>2 DEF RepeatInv, LookMissing
  <1>3. ASSUME NEW i \in Ids, LookMember(w, i) \/ LookNull(w, i)
        PROVE  RepeatInv'
    <2>1. CASE LookMember(w, i)
      BY <1>0, <1>1, <2>1 DEF RepeatInv, LookMember, Done
    <2>2. CASE LookNull(w, i)
      BY <1>0, <1>1, <2>2 DEF RepeatInv, LookNull
    <2> QED
      BY <1>3, <2>1, <2>2
  <1>4. ASSUME NEW i \in Ids, LookNew(w, i)
        PROVE  RepeatInv'
    <2>1. /\ rows[i].orgs \in Lists /\ job[w].org \in Orgs \cup {NoOrg}
          /\ rows[i] \in Row /\ NoNewRepeats(rows[i].orgs)
          /\ job[w].org \notin Elements(rows[i].orgs)
      BY <1>0, <1>1, <1>4 DEF LookNew, Finds, Named, TypeInv, TypeOK, Row, Job,
                              RepeatInv, Clean, NotMember
    <2>2. NoNewRepeats(Extended(rows[i].orgs, job[w].org))
      BY <2>1, Appended DEF Extended
    <2>3. /\ rows' = rows
          /\ job'[w].copy.row.orgs = Extended(rows[i].orgs, job[w].org)
          /\ \A v \in Workers : v # w => job'[v] = job[v]
      BY <1>1, <1>4, <2>1 DEF LookNew, Row
    <2>4. \A v \in Workers : job'[v].stage = "save" => Clean(job'[v].copy.row.orgs)
      BY <2>2, <2>3 DEF RepeatInv, Clean
    <2> QED
      BY <1>0, <2>3, <2>4 DEF RepeatInv
  <1>5. CASE CreateConsortium(w)
    <2>1. NoNewRepeats(<<job[w].org>>)
      BY <1>1, Single DEF Job
    <2>2. \A i \in Ids : rows'[i] # NoRow => Clean(rows'[i].orgs)
      BY <1>0, <1>5, <2>1 DEF RepeatInv, CreateConsortium, TypeInv, TypeOK, Clean
    <2> QED
      BY <1>0, <1>1, <1>5, <2>2 DEF RepeatInv, CreateConsortium, Done
  <1>6. CASE Save(w)
    <2>1. \A i \in Ids : rows'[i] # NoRow => Clean(rows'[i].orgs)
      BY <1>0, <1>6 DEF RepeatInv, Save, TypeInv, TypeOK
    <2> QED
      BY <1>0, <1>1, <1>6, <2>1 DEF RepeatInv, Save, Done
  <1>7. CASE Respond(w)
    BY <1>0, <1>1, <1>7 DEF RepeatInv, Respond, NoJob
  <1> QED
    BY <1>2, <1>3, <1>4, <1>5, <1>6, <1>7 DEF Progresses

\* So does the start of a request: an administrator's list is clean.
LEMMA RequestClean ==
  ASSUME RepeatInv, NEW w \in Workers, Requests(w)
  PROVE  RepeatInv'
  <1>0. TypeInv' /\ TypeInv
    BY NextTypes DEF RepeatInv, Next
  <1>1. job \in [Workers -> Job]
    BY <1>0 DEF TypeInv, TypeOK
  <1>2. ASSUME NEW s \in Shipments, NEW o \in Orgs \cup {NoOrg}, Custody(w, s, o)
        PROVE  RepeatInv'
    BY <1>0, <1>1, <1>2 DEF RepeatInv, Custody, NoJob
  <1>3. CASE CustodyUnusable(w) \/ WorkerTimeout(w)
    <2>1. CASE CustodyUnusable(w)
      BY <1>0, <1>1, <2>1 DEF RepeatInv, CustodyUnusable, NoJob
    <2>2. CASE WorkerTimeout(w)
      BY <1>0, <1>1, <2>2 DEF RepeatInv, WorkerTimeout, NoJob
    <2> QED
      BY <1>3, <2>1, <2>2
  <1>4. ASSUME NEW s \in Shipments, NEW l \in AdminLists, AdminCreate(w, s, l)
        PROVE  RepeatInv'
    BY <1>0, <1>4, SentClean DEF RepeatInv, AdminCreate, TypeInv, TypeOK
  <1>5. ASSUME NEW i \in Ids, NEW s \in Shipments, NEW l \in AdminLists,
               AdminPatch(w, i, s, l)
        PROVE  RepeatInv'
    <2>1. job'[w].copy.row.orgs = l /\ rows' = rows
      BY <1>1, <1>5 DEF AdminPatch, NoJob
    <2>2. \A v \in Workers : v # w => job'[v] = job[v]
      BY <1>1, <1>5 DEF AdminPatch
    <2> QED
      BY <1>0, <2>1, <2>2, SentClean DEF RepeatInv
  <1>6. ASSUME NEW i \in Ids, AdminDelete(w, i)
        PROVE  RepeatInv'
    BY <1>0, <1>6 DEF RepeatInv, AdminDelete, TypeInv, TypeOK
  <1> QED
    BY <1>2, <1>3, <1>4, <1>5, <1>6 DEF Requests

\* "To avoid repeated organization uuid adding" (gateway/request.py): however
\* requests overlap, a consortium lists an organization twice only where a list
\* an administrator sent does.
THEOREM ListsDoNotRepeat == Spec => []NoRepeats
  <1>1. Init => RepeatInv
    BY InitTypes DEF Init, RepeatInv, NoJob
  <1>2. RepeatInv /\ [Next]_vars => RepeatInv'
    <2> SUFFICES ASSUME RepeatInv, [Next]_vars PROVE RepeatInv'
      OBVIOUS
    <2>1. CASE UNCHANGED vars
      <3>1. TypeInv'
        BY NextTypes DEF RepeatInv
      <3> QED
        BY <2>1, <3>1 DEF vars, RepeatInv
    <2>2. CASE Next
      BY <2>2, ProgressClean, RequestClean DEF Next
    <2> QED
      BY <2>1, <2>2
  <1>3. RepeatInv => NoRepeats
    BY DEF RepeatInv, NoRepeats, Clean
  <1> QED
    BY <1>1, <1>2, <1>3, PTL DEF Spec

-----------------------------------------------------------------------------
(* One request at a time.                                                  *)

\* Row r lists organization o for shipment s.
ListedIn(r, s, o) == r # NoRow /\ r.name = s /\ r.orgs # NullList /\ o \in Elements(r.orgs)

\* The members of a shipment, before and after a step.
LEMMA MembersAre ==
  ASSUME NEW s, NEW o
  PROVE  /\ o \in Members(s) <=> o # NoOrg /\ \E i \in Ids : ListedIn(rows[i], s, o)
         /\ o \in Members(s)' <=> o # NoOrg /\ \E i \in Ids : ListedIn(rows'[i], s, o)
  BY DEF Members, Listing, Named, ListedIn

\* Writing a row that lists one organization more, or a new one that lists just
\* that, adds it to one shipment's members.
LEMMA Grows ==
  ASSUME TypeInv, NEW i \in Ids, NEW r \in Row, NEW o, r.orgs # NullList,
         rows' = [rows EXCEPT ![i] = r],
         \/ rows[i] = NoRow /\ Elements(r.orgs) = {o}
         \/ /\ rows[i] # NoRow /\ rows[i].name = r.name /\ rows[i].orgs # NullList
            /\ Elements(r.orgs) = Elements(rows[i].orgs) \cup {o},
         NEW s
  PROVE  Members(s)' = IF s = r.name THEN Members(s) \cup ({o} \ {NoOrg})
                                     ELSE Members(s)
  <1>1. /\ rows \in [Ids -> Row \cup {NoRow}] /\ r # NoRow
        /\ rows'[i] = r /\ \A k \in Ids : k # i => rows'[k] = rows[k]
    BY SentinelsAssumption DEF TypeInv, TypeOK
  <1>2. ASSUME NEW p
        PROVE  (\E k \in Ids : ListedIn(rows'[k], s, p)) <=>
                  \/ \E k \in Ids : ListedIn(rows[k], s, p)
                  \/ s = r.name /\ p = o
    <2>1. ListedIn(r, s, p) <=> ListedIn(rows[i], s, p) \/ (s = r.name /\ p = o)
      BY <1>1 DEF ListedIn
    <2> QED
      BY <1>1, <2>1
  <1>3. ASSUME NEW p
        PROVE  p \in Members(s)' <=>
                  \/ p \in Members(s)
                  \/ s = r.name /\ p \in {o} \ {NoOrg}
    BY <1>2, MembersAre
  <1> QED
    BY <1>3

\* A shipment's members depend on the table alone.
LEMMA Same ==
  ASSUME rows' = rows, NEW s
  PROVE  Members(s)' = Members(s) /\ Named(s)' = Named(s)
  BY DEF Members, Listing, Named

\* What the one request in progress has found: the shipment has no consortium, or
\* its instance is the row as it is, one organization longer; and when it is done,
\* the organization is a member.
Found(j) ==
    /\ j.stage \in {"look", "create", "save"} =>
          /\ j.custody /\ j.ok
          /\ j.org # NoOrg => <<j.shipment, j.org>> \in created
    /\ j.stage = "create" => Named(j.shipment) = {}
    /\ j.stage = "save" =>
          LET r == rows[j.copy.id] IN
          /\ j.org # NoOrg
          /\ r # NoRow /\ r.name = j.shipment /\ r.orgs # NullList
          /\ j.copy.row.name = j.shipment
          /\ j.copy.row.orgs = Append(r.orgs, j.org)
    /\ j.stage = "done" /\ j.custody /\ j.ok /\ j.org # NoOrg =>
          j.org \in Members(j.shipment)

SerialInv ==
    serial => /\ \A v, w \in Workers : Idle(v) \/ Idle(w) \/ v = w
              /\ \A w \in Workers : Found(job[w])
              /\ \A i, k \in Ids : rows[i] # NoRow /\ rows[k] # NoRow
                                      /\ rows[i].name = rows[k].name => i = k
              /\ \A c \in acked : c[2] \in Members(c[1])

OneRow == \A i, k \in Ids : rows[i] # NoRow /\ rows[k] # NoRow
                            /\ rows[i].name = rows[k].name => i = k

AckedIn == \A c \in acked : c[2] \in Members(c[1])

\* All others are idle: it is enough to look at the worker that takes the step.
LEMMA OnlyOne ==
  ASSUME SerialInv, serial, NEW w \in Workers,
         \A v \in Workers : v # w => job'[v] = job[v],
         ~Idle(w) \/ \A v \in Workers : Idle(v),
         Found(job[w])', OneRow', AckedIn'
  PROVE  SerialInv'
  <1>1. \A v \in Workers : v # w => Idle(v) /\ Idle(v)'
    BY DEF SerialInv, Idle
  <1>2. \A v \in Workers : Found(job[v])'
    BY <1>1 DEF Found, Idle
  <1> QED
    BY <1>1, <1>2 DEF SerialInv, OneRow, AckedIn

\* A step that writes neither table nor history.
LEMMA SameTable ==
  ASSUME SerialInv, serial, rows' = rows, acked' = acked
  PROVE  OneRow' /\ AckedIn'
  BY Same DEF SerialInv, OneRow, AckedIn

\* Looking for the consortium.
LEMMA LookSerial ==
  ASSUME TypeInv, SerialInv, serial, NEW w \in Workers,
         \/ LookMissing(w)
         \/ \E i \in Ids : LookMember(w, i) \/ LookNull(w, i) \/ LookNew(w, i)
         \/ WorkerTimeout(w)
  PROVE  SerialInv'
  <1>1. /\ job \in [Workers -> Job] /\ job[w] \in Job /\ Found(job[w])
        /\ rows \in [Ids -> Row \cup {NoRow}]
    BY DEF TypeInv, TypeOK, SerialInv
  <1>2. /\ rows' = rows /\ created' = created /\ acked' = acked
        /\ ~Idle(w)
        /\ \A v \in Workers : v # w => job'[v] = job[v]
    BY <1>1 DEF LookMissing, LookMember, LookNull, LookNew, WorkerTimeout, histories,
                Finds, Idle, Done
  <1>3. Found(job[w])'
    <2>1. CASE LookMissing(w)
      <3>1. /\ job'[w].stage = "create" /\ job'[w].custody = job[w].custody
            /\ job'[w].ok = job[w].ok /\ job'[w].org = job[w].org
            /\ job'[w].shipment = job[w].shipment /\ job[w].stage = "look"
        BY <1>1, <2>1 DEF LookMissing, Job
      <3>2. Named(job[w].shipment)' = {}
        BY <1>1, <1>2, <2>1, <3>1 DEF LookMissing, Named
      <3> QED
        BY <1>1, <1>2, <3>1, <3>2 DEF Found, Named
    <2>2. ASSUME NEW i \in Ids, LookMember(w, i)
          PROVE  Found(job[w])'
      <3>1. /\ job'[w].stage = "done" /\ job'[w].org = job[w].org
            /\ job'[w].shipment = job[w].shipment
        BY <1>1, <2>2 DEF LookMember, Done, Job
      <3>2. job[w].org # NoOrg => ListedIn(rows[i], job[w].shipment, job[w].org)
        BY <2>2 DEF LookMember, Finds, Named, ListedIn
      <3>3. job[w].org # NoOrg => job[w].org \in Members(job[w].shipment)
        BY <3>2, MembersAre
      <3>4. \A s : Members(s)' = Members(s)
        BY <1>2, Same
      <3> QED
        BY <3>1, <3>3, <3>4 DEF Found
    <2>3. ASSUME NEW i \in Ids, LookNull(w, i)
          PROVE  Found(job[w])'
      BY <1>1, <2>3 DEF LookNull, Job, Found
    <2>4. ASSUME NEW i \in Ids, LookNew(w, i)
          PROVE  Found(job[w])'
      <3>1. /\ rows[i] \in Row /\ rows[i] # NoRow /\ rows[i].name = job[w].shipment
            /\ rows[i].orgs # NullList /\ job[w].org # NoOrg /\ job[w].stage = "look"
        BY <1>1, <2>4 DEF LookNew, Finds, Named
      <3>2. /\ job'[w].stage = "save" /\ job'[w].custody = job[w].custody
            /\ job'[w].ok = job[w].ok /\ job'[w].org = job[w].org
            /\ job'[w].shipment = job[w].shipment
            /\ job'[w].copy = [id |-> i,
                               row |-> [rows[i] EXCEPT !.orgs = Extended(@, job[w].org)]]
        BY <1>1, <2>4 DEF LookNew, Job
      <3>3. /\ job'[w].copy.id = i
            /\ job'[w].copy.row.name = rows[i].name
            /\ job'[w].copy.row.orgs = Append(rows[i].orgs, job[w].org)
        BY <3>1, <3>2 DEF Row, Extended
      <3> QED
        BY <1>1, <1>2, <3>1, <3>2, <3>3 DEF Found
    <2>5. CASE WorkerTimeout(w)
      BY <1>1, <2>5 DEF WorkerTimeout, NoJob, Found
    <2> QED
      BY <2>1, <2>2, <2>3, <2>4, <2>5
  <1> QED
    BY <1>2, <1>3, SameTable, OnlyOne

\* The first consortium of a shipment.
LEMMA CreateSerial ==
  ASSUME TypeInv, SerialInv, serial, NEW w \in Workers, CreateConsortium(w)
  PROVE  /\ SerialInv'
         /\ \A s : Members(s)' = IF s = job[w].shipment
                               THEN Members(s) \cup ({job[w].org} \ {NoOrg})
                               ELSE Members(s)
  <1> DEFINE r == [name |-> job[w].shipment, orgs |-> <<job[w].org>>]
  <1>1. /\ job \in [Workers -> Job] /\ job[w] \in Job /\ Found(job[w])
        /\ rows \in [Ids -> Row \cup {NoRow}] /\ JobShape(job[w], nextId)
        /\ job[w].stage = "create" /\ nextId \in Ids /\ nextId \in Nat
    BY DEF TypeInv, TypeOK, SerialInv, CreateConsortium, Ids
  <1>2. /\ rows' = [rows EXCEPT ![nextId] = r] /\ created' = created /\ acked' = acked
        /\ ~Idle(w)
        /\ \A v \in Workers : v # w => job'[v] = job[v]
        /\ job'[w].stage = "done" /\ job'[w].org = job[w].org
        /\ job'[w].shipment = job[w].shipment
    BY <1>1 DEF CreateConsortium, histories, Idle, Done, Job
  <1>3. r \in Row /\ r.orgs # NullList /\ Elements(r.orgs) = {job[w].org}
    BY <1>1, Single, SentinelsAssumption DEF Row, Job, JobShape
  <1>4. rows[nextId] = NoRow /\ r.name = job[w].shipment
    BY <1>1 DEF TypeInv, Fresh
  <1>5. Named(job[w].shipment) = {}
    BY <1>1 DEF Found
  <1> HIDE DEF r
  <1>6. \A s : Members(s)' = IF s = job[w].shipment
                           THEN Members(s) \cup ({job[w].org} \ {NoOrg})
                           ELSE Members(s)
    <2>1. PICK k \in Ids, q \in Row, o \in {job[w].org} :
             /\ q.orgs # NullList /\ rows' = [rows EXCEPT ![k] = q]
             /\ rows[k] = NoRow /\ Elements(q.orgs) = {o}
             /\ q.name = job[w].shipment /\ o = job[w].org
      BY <1>1, <1>2, <1>3, <1>4
    <2>2. \A s : Members(s)' = IF s = q.name THEN Members(s) \cup ({o} \ {NoOrg})
                                             ELSE Members(s)
      BY <2>1, Grows, Zenon
    <2> QED
      BY <2>1, <2>2
  <1>7. OneRow'
    BY <1>1, <1>2, <1>4, <1>5 DEF SerialInv, OneRow, Named
  <1>8. AckedIn'
    BY <1>2, <1>6 DEF SerialInv, AckedIn
  <1>9. Found(job[w])'
    BY <1>2, <1>6 DEF Found
  <1> QED
    BY <1>2, <1>6, <1>7, <1>8, <1>9, OnlyOne

\* One organization more: nobody has written the row since it was read.
LEMMA SaveSerial ==
  ASSUME TypeInv, SerialInv, serial, NEW w \in Workers, Save(w)
  PROVE  /\ SerialInv'
         /\ \A s : Members(s)' = IF s = job[w].shipment
                               THEN Members(s) \cup ({job[w].org} \ {NoOrg})
                               ELSE Members(s)
  <1> DEFINE i == job[w].copy.id
             r == job[w].copy.row
  <1>1. /\ job \in [Workers -> Job] /\ job[w] \in Job /\ Found(job[w])
        /\ rows \in [Ids -> Row \cup {NoRow}] /\ JobShape(job[w], nextId)
        /\ job[w].stage = "save"
    BY DEF TypeInv, TypeOK, SerialInv, Save
  <1>2. /\ rows' = [rows EXCEPT ![i] = r] /\ created' = created /\ acked' = acked
        /\ ~Idle(w)
        /\ \A v \in Workers : v # w => job'[v] = job[v]
        /\ job'[w].stage = "done" /\ job'[w].org = job[w].org
        /\ job'[w].shipment = job[w].shipment
    BY <1>1 DEF Save, histories, Idle, Done, Job
  <1>3. /\ i \in Ids /\ r \in Row /\ rows[i] # NoRow /\ rows[i].name = r.name
        /\ r.name = job[w].shipment /\ rows[i].orgs # NullList
        /\ r.orgs = Append(rows[i].orgs, job[w].org)
    BY <1>1 DEF Found, JobShape, Copy
  <1>4. /\ rows[i].orgs \in Lists /\ job[w].org \in Orgs \cup {NoOrg}
    BY <1>1, <1>3 DEF Row, Job
  <1>5. r.orgs # NullList /\ Elements(r.orgs) = Elements(rows[i].orgs) \cup {job[w].org}
    BY <1>3, <1>4, Appended, SentinelsAssumption
  <1> HIDE DEF i, r
  <1>6. \A s : Members(s)' = IF s = job[w].shipment
                           THEN Members(s) \cup ({job[w].org} \ {NoOrg})
                           ELSE Members(s)
    <2>1. PICK k \in Ids, q \in Row, o \in {job[w].org} :
             /\ q.orgs # NullList /\ rows' = [rows EXCEPT ![k] = q]
             /\ rows[k] # NoRow /\ rows[k].name = q.name /\ rows[k].orgs # NullList
             /\ Elements(q.orgs) = Elements(rows[k].orgs) \cup {o}
             /\ q.name = job[w].shipment /\ o = job[w].org
      BY <1>1, <1>2, <1>3, <1>5
    <2>2. \A s : Members(s)' = IF s = q.name THEN Members(s) \cup ({o} \ {NoOrg})
                                             ELSE Members(s)
      BY <2>1, Grows, Zenon
    <2> QED
      BY <2>1, <2>2
  <1>7. OneRow'
    BY <1>1, <1>2, <1>3 DEF SerialInv, OneRow
  <1>8. AckedIn'
    BY <1>2, <1>6 DEF SerialInv, AckedIn
  <1>9. Found(job[w])'
    BY <1>2, <1>6 DEF Found
  <1> QED
    BY <1>2, <1>6, <1>7, <1>8, <1>9, OnlyOne

\* An answer of 201: the organization was found or saved.
LEMMA RespondSerial ==
  ASSUME TypeInv, SerialInv, serial, NEW w \in Workers, Respond(w)
  PROVE  SerialInv'
  <1>1. /\ job \in [Workers -> Job] /\ job[w] \in Job /\ Found(job[w])
        /\ job[w].stage = "done"
    BY DEF TypeInv, TypeOK, SerialInv, Respond
  <1>2. /\ rows' = rows /\ ~Idle(w)
        /\ \A v \in Workers : v # w => job'[v] = job[v]
        /\ job'[w] = NoJob
    BY <1>1 DEF Respond, Idle
  <1>3. Found(job[w])'
    BY <1>2 DEF Found, NoJob
  <1>4. OneRow'
    BY <1>2 DEF SerialInv, OneRow
  <1>5. \A s : Members(s)' = Members(s)
    BY <1>2, Same
  <1>6. ASSUME NEW c \in acked'
        PROVE  c[2] \in Members(c[1])
    <2>1. CASE c \in acked
      BY <2>1 DEF SerialInv
    <2>2. CASE c \notin acked
      <3>1. /\ c = <<job[w].shipment, job[w].org>>
            /\ job[w].custody /\ job[w].ok /\ job[w].org # NoOrg
        BY <2>2 DEF Respond
      <3> QED
        BY <1>1, <3>1 DEF Found
    <2> QED
      BY <2>1, <2>2
  <1>7. AckedIn'
    BY <1>5, <1>6 DEF AckedIn
  <1> QED
    BY <1>2, <1>3, <1>4, <1>7, OnlyOne

\* A request that comes while all workers are idle.
LEMMA ArriveSerial ==
  ASSUME TypeInv, SerialInv, serial', NEW w \in Workers,
         \/ \E s \in Shipments, o \in Orgs \cup {NoOrg} : Custody(w, s, o)
         \/ CustodyUnusable(w)
  PROVE  SerialInv' /\ serial /\ rows' = rows
  <1>1. /\ serial /\ \A v \in Workers : Idle(v)
        /\ rows' = rows /\ acked' = acked
    BY DEF Custody, CustodyUnusable, Arrives
  <1>2. job \in [Workers -> Job]
    BY DEF TypeInv, TypeOK
  <1>3. \A v \in Workers : v # w => job'[v] = job[v]
    BY <1>2 DEF Custody, CustodyUnusable
  <1>4. Found(job[w])'
    <2>1. ASSUME NEW s \in Shipments, NEW o \in Orgs \cup {NoOrg}, Custody(w, s, o)
          PROVE  Found(job[w])'
      <3>1. /\ job'[w].stage = "look" /\ job'[w].custody /\ job'[w].ok
            /\ job'[w].shipment = s /\ job'[w].org = o
        BY <1>2, <2>1 DEF Custody, NoJob
      <3>2. o # NoOrg => <<s, o>> \in created'
        BY <2>1 DEF Custody, Arrives
      <3> QED
        BY <3>1, <3>2 DEF Found
    <2>2. CASE CustodyUnusable(w)
      BY <1>2, <2>2 DEF CustodyUnusable, NoJob, Found
    <2> QED
      BY <2>1, <2>2
  <1> QED
    BY <1>1, <1>3, <1>4, SameTable, OnlyOne

\* What a step does to the registry while its promise is in force: nothing, or it
\* records a custody event, or one organization with a recorded event joins.
Unchanged == created' = created /\ \A s : Members(s)' = Members(s)

Recorded(s, o) == /\ created' = created \cup {<<s, o>>}
                  /\ \A t : Members(t)' = Members(t)

Joined(s, o) == /\ <<s, o>> \in created /\ created' = created
                /\ \A t : Members(t)' = IF t = s THEN Members(t) \cup {o}
                                                ELSE Members(t)

Promised == \/ Unchanged
            \/ \E s \in Shipments, o \in Orgs : Recorded(s, o) \/ Joined(s, o)

\* A write to the table of the one request in progress.
LEMMA WritePromised ==
  ASSUME TypeInv, SerialInv, serial, NEW w \in Workers,
         CreateConsortium(w) \/ Save(w)
  PROVE  SerialInv' /\ Promised
  <1>1. /\ job[w] \in Job /\ Found(job[w]) /\ JobShape(job[w], nextId)
        /\ job[w].stage \in {"create", "save"} /\ created' = created
    BY DEF TypeInv, TypeOK, SerialInv, CreateConsortium, Save, histories
  <1>2. /\ job[w].shipment \in Shipments /\ job[w].org \in Orgs \cup {NoOrg}
        /\ job[w].org # NoOrg => <<job[w].shipment, job[w].org>> \in created
    BY <1>1 DEF Job, JobShape, Found
  <1>3. /\ SerialInv'
        /\ \A s : Members(s)' = IF s = job[w].shipment
                              THEN Members(s) \cup ({job[w].org} \ {NoOrg})
                              ELSE Members(s)
    BY CreateSerial, SaveSerial
  <1>4. CASE job[w].org = NoOrg
    <2>1. \A s : Members(s)' = Members(s)
      BY <1>3, <1>4
    <2> QED
      BY <1>1, <1>3, <2>1 DEF Promised, Unchanged
  <1>5. CASE job[w].org # NoOrg
    <2>1. {job[w].org} \ {NoOrg} = {job[w].org}
      BY <1>5
    <2>2. Joined(job[w].shipment, job[w].org)
      BY <1>1, <1>2, <1>3, <1>5, <2>1 DEF Joined
    <2> QED
      BY <1>2, <1>3, <1>5, <2>2 DEF Promised
  <1> QED
    BY <1>4, <1>5

\* Every step while the promise stays in force.
LEMMA StepPromised ==
  ASSUME TypeInv, SerialInv, [Next]_vars, serial'
  PROVE  SerialInv' /\ Promised
  <1>1. CASE UNCHANGED vars
    <2>1. SerialInv'
      BY <1>1, Same DEF vars, SerialInv, Found, Idle
    <2> QED
      BY <1>1, <2>1, Same DEF vars, Promised, Unchanged
  <1>2. ASSUME NEW w \in Workers,
               \/ LookMissing(w)
               \/ \E i \in Ids : LookMember(w, i) \/ LookNull(w, i) \/ LookNew(w, i)
               \/ WorkerTimeout(w)
        PROVE  SerialInv' /\ Promised
    <2>1. rows' = rows /\ created' = created /\ serial
      BY <1>2 DEF LookMissing, LookMember, LookNull, LookNew, WorkerTimeout, histories
    <2>2. SerialInv'
      BY <1>2, <2>1, LookSerial
    <2> QED
      BY <2>1, <2>2, Same DEF Promised, Unchanged
  <1>3. ASSUME NEW w \in Workers, CreateConsortium(w) \/ Save(w)
        PROVE  SerialInv' /\ Promised
    <2>1. serial
      BY <1>3 DEF CreateConsortium, Save, histories
    <2> QED
      BY <1>3, <2>1, WritePromised
  <1>4. ASSUME NEW w \in Workers, Respond(w)
        PROVE  SerialInv' /\ Promised
    <2>1. rows' = rows /\ created' = created /\ serial
      BY <1>4 DEF Respond
    <2>2. SerialInv'
      BY <1>4, <2>1, RespondSerial
    <2> QED
      BY <2>1, <2>2, Same DEF Promised, Unchanged
  <1>5. ASSUME NEW w \in Workers, NEW s \in Shipments, NEW o \in Orgs \cup {NoOrg},
               Custody(w, s, o)
        PROVE  SerialInv' /\ Promised
    <2>1. SerialInv' /\ rows' = rows
      BY <1>5, ArriveSerial
    <2>2. created' = created \cup ({s} \X ({o} \ {NoOrg}))
      BY <1>5 DEF Custody, Arrives
    <2>3. CASE o = NoOrg
      <3>1. created' = created
        BY <2>2, <2>3
      <3> QED
        BY <2>1, <3>1, Same DEF Promised, Unchanged
    <2>4. CASE o # NoOrg
      <3>1. o \in Orgs /\ created' = created \cup {<<s, o>>}
        BY <2>2, <2>4
      <3>2. Recorded(s, o)
        BY <2>1, <3>1, Same DEF Recorded
      <3> QED
        BY <2>1, <3>1, <3>2 DEF Promised
    <2> QED
      BY <2>3, <2>4
  <1>6. ASSUME NEW w \in Workers, CustodyUnusable(w)
        PROVE  SerialInv' /\ Promised
    <2>1. SerialInv' /\ rows' = rows
      BY <1>6, ArriveSerial
    <2>2. created' = created
      BY <1>6 DEF CustodyUnusable, Arrives
    <2> QED
      BY <2>1, <2>2, Same DEF Promised, Unchanged
  <1>7. ASSUME NEW w \in Workers,
               \/ \E s \in Shipments, l \in AdminLists : AdminCreate(w, s, l)
               \/ \E i \in Ids, s \in Shipments, l \in AdminLists : AdminPatch(w, i, s, l)
               \/ \E i \in Ids : AdminDelete(w, i)
        PROVE  FALSE
    BY <1>7 DEF AdminCreate, AdminPatch, AdminDelete, Edits
  <1>8. ASSUME NEW w \in Workers, Progresses(w)
        PROVE  SerialInv' /\ Promised
    BY <1>2, <1>3, <1>4, <1>8 DEF Progresses
  <1>9. ASSUME NEW w \in Workers, Requests(w)
        PROVE  SerialInv' /\ Promised
    BY <1>2, <1>5, <1>6, <1>7, <1>9 DEF Requests
  <1> QED
    BY <1>1, <1>8, <1>9 DEF Next

\* Once requests have overlapped, or the table was edited, it stays so.
LEMMA SerialKept ==
  ASSUME TypeInv, [Next]_vars, serial'
  PROVE  serial' = serial
  <1>1. CASE UNCHANGED vars
    BY <1>1 DEF vars
  <1>2. ASSUME NEW w \in Workers, Progresses(w)
        PROVE  serial' = serial
    BY <1>2 DEF Progresses, LookMissing, LookMember, LookNull, LookNew,
                CreateConsortium, Save, Respond, histories
  <1>3. ASSUME NEW w \in Workers, Requests(w)
        PROVE  serial' = serial
    <2>1. serial \in BOOLEAN /\ serial' \in BOOLEAN
      BY NextTypes DEF TypeInv, TypeOK
    <2>2. serial
      BY <1>3 DEF Requests, Custody, CustodyUnusable, Arrives, AdminCreate,
                  AdminPatch, AdminDelete, Edits, WorkerTimeout, histories
    <2> QED
      BY <2>1, <2>2
  <1> QED
    BY <1>1, <1>2, <1>3 DEF Next

\* In the beginning there are neither rows nor requests.
LEMMA InitSerial ==
  ASSUME Init
  PROVE  TypeInv /\ SerialInv /\ \A s : Members(s) = {}
  <1>1. \A s : Named(s) = {}
    BY DEF Init, Named
  <1>2. \A s : Members(s) = {}
    BY <1>1 DEF Members, Listing
  <1>3. \A w \in Workers : job[w] = NoJob
    BY DEF Init
  <1>4. SerialInv
    BY <1>1, <1>3 DEF Init, SerialInv, Idle, Found, NoJob
  <1> QED
    BY <1>2, <1>4, InitTypes

\* While requests come one at a time, what the request in progress has read is
\* still what the table holds.
THEOREM OneAtATime == Spec => [](TypeInv /\ SerialInv)
  <1>1. Init => TypeInv /\ SerialInv
    BY InitSerial
  <1>2. TypeInv /\ SerialInv /\ [Next]_vars => (TypeInv /\ SerialInv)'
    <2> SUFFICES ASSUME TypeInv, SerialInv, [Next]_vars
                 PROVE  TypeInv' /\ SerialInv'
      OBVIOUS
    <2>1. TypeInv'
      BY NextTypes
    <2>2. CASE serial'
      BY <2>1, <2>2, StepPromised
    <2>3. CASE ~serial'
      BY <2>1, <2>3 DEF SerialInv
    <2> QED
      BY <2>1, <2>2, <2>3
  <1> QED
    BY <1>1, <1>2, PTL DEF Spec

\* "if consortium exist, update consortium for organization uuid"
\* (gateway/request.py): one request at a time, an organization whose custody
\* POST was answered 201 shares the shipment's data.
THEOREM AnsweredShares == Spec => []AckedShared
  <1>1. SerialInv => AckedShared
    <2> SUFFICES ASSUME SerialInv, serial, NEW s \in Shipments, NEW o \in Orgs,
                        <<s, o>> \in acked
                 PROVE  o \in Members(s)
      BY DEF AckedShared
    <2>1. <<s, o>>[2] \in Members(<<s, o>>[1])
      BY DEF SerialInv
    <2> QED
      BY <2>1
  <1> QED
    BY <1>1, OneAtATime, PTL

\* "If consortium does not exists for shipment name, then create consortium"
\* (gateway/request.py): one request at a time, a shipment has one consortium.
THEOREM OneConsortium == Spec => []OnePerShipment
  <1>1. SerialInv => OnePerShipment
    BY DEF SerialInv, OnePerShipment, Named
  <1> QED
    BY <1>1, OneAtATime, PTL

\* One request at a time, the table is the registry of custody holders: each
\* step records a custody event, lets one organization with such an event join
\* its shipment, or changes nothing (ConsortiumRegistry).
THEOREM KeepsRegistry == Spec => ImplementsRegistry
  <1>1. Init => Registry!Init
    BY InitSerial DEF Init, Registry!Init
  <1>2. TypeInv /\ SerialInv /\ [Next]_vars => [Registry!Next]_(Registry!vars)
    <2> SUFFICES ASSUME TypeInv, SerialInv, [Next]_vars
                 PROVE  [Registry!Next]_(Registry!vars)
      OBVIOUS
    <2>1. CASE ~serial'
      BY <2>1 DEF Registry!Next, Registry!Lapse, TypeInv, TypeOK
    <2>2. CASE serial'
      <3>1. Promised
        BY <2>2, StepPromised
      <3>2. serial' = serial
        BY <2>2, SerialKept
      <3>3. CASE Unchanged
        BY <3>2, <3>3 DEF Unchanged, Registry!vars
      <3>4. ASSUME NEW s \in Shipments, NEW o \in Orgs, Recorded(s, o)
            PROVE  Registry!Custody(s, o)
        BY <3>2, <3>4 DEF Recorded, Registry!Custody
      <3>5. ASSUME NEW s \in Shipments, NEW o \in Orgs, Joined(s, o)
            PROVE  Registry!Join(s, o)
        BY <3>2, <3>5 DEF Joined, Registry!Join
      <3> QED
        BY <3>1, <3>3, <3>4, <3>5 DEF Promised, Registry!Next
    <2> QED
      BY <2>1, <2>2
  <1> QED
    BY <1>1, <1>2, OneAtATime, PTL DEF Spec, ImplementsRegistry, Registry!Spec
=============================================================================
