------------------------- MODULE DataMeshJoinProofs -------------------------
(***************************************************************************)
(* Theorems about DataMeshJoin, for any relationships, join records,       *)
(* responses and contents: what is nested belongs where it is, a record    *)
(* has one version per response, both joins keep the promise of            *)
(* JoinedResponse, and they end.                                           *)
(***************************************************************************)
EXTENDS DataMeshJoin, FiniteSetTheorems, TLAPS

-----------------------------------------------------------------------------
(* The inductive invariant.                                                *)

\* The join records of row's relationship have been read for item i, and row
\* was one of the item's own.
Reached(i, row) ==
    /\ i \in DOMAIN response
    /\ response[i] = ThisSide(row)
    /\ \/ i < at[1]
       \/ i = at[1] /\ row.rel < at[2]

PlaceInv ==
    /\ at[1] <= Len(response) + 1
    /\ at[2] # 0 => at[1] \in DOMAIN response

\* What the generator holds are different records of the last query.
TodoInv ==
    /\ \A k \in 1..Len(todo) :
          /\ Reached(todo[k].item, todo[k].row)
          /\ todo[k].item = at[1]
          /\ todo[k].row.rel = at[2] - 1
    /\ \A k, l \in 1..Len(todo) : todo[k].row = todo[l].row => k = l

\* There is one coroutine for a record, and none for what is still to come; no
\* coroutine shares a cache.
TaskInv ==
    /\ \A m \in tasks : Reached(m.item, m.row) /\ ~Shared(m)
    /\ \A m, n \in tasks : m.item = n.item /\ m.row = n.row => m = n
    /\ \A m \in tasks, k \in 1..Len(todo) :
          ~(m.item = todo[k].item /\ m.row = todo[k].row)

NestInv ==
    \A i \in Items, k \in Keys : \A n \in 1..Len(data[i][k]) :
        LET row == data[i][k][n].row
        IN  Reached(i, row) /\ Relationships[row.rel].key = k

\* What came out of a cache is still in it.
CacheInv ==
    \A i \in Items, k \in Keys : \A n \in 1..Len(data[i][k]) :
        LET e == data[i][k][n]
        IN  Shared(e) => seen[Url(e)] = e.content

\* A local object is never in the cache as something else.
LocalInv ==
    \A r \in Rels, u \in Urls :
        Relationships[r].local /\ u[1] = Relationships[r].model => seen[u] # NoDict

IInv == TypeOK /\ PlaceInv /\ TodoInv /\ TaskInv /\ NestInv /\ CacheInv /\ LocalInv

-----------------------------------------------------------------------------
(* What the constants are.                                                 *)

LEMMA RelTypes ==
  /\ Len(Relationships) \in Nat /\ Rels = 1..Len(Relationships)
  /\ \A r \in Rels : /\ Relationships[r].key \in Keys
                     /\ Relationships[r].forward \in BOOLEAN
                     /\ Relationships[r].local \in BOOLEAN
                     /\ Relationships[r].model \in Models
  /\ \A row \in JoinRows : /\ row.rel \in Rels
                           /\ ThisSide(row) \in PKs
                           /\ OtherSide(row) \in PKs
  <1> DEFINE R == [key : Keys, forward : BOOLEAN, local : BOOLEAN, model : Models]
  <1>1. Relationships \in Seq(R)
    BY ConstantsAssumption
  <1>2. Len(Relationships) \in Nat /\ Rels = 1..Len(Relationships)
        /\ \A r \in Rels : Relationships[r] \in R
    <2> HIDE DEF R
    <2> QED
      BY <1>1 DEF Rels
  <1> QED
    BY <1>2, ConstantsAssumption DEF ThisSide, OtherSide

\* A response is a sequence of at most MaxItems keys.
LEMMA ResponseTypes ==
  ASSUME TypeOK
  PROVE  /\ Len(response) \in Nat /\ DOMAIN response = 1..Len(response)
         /\ Len(response) <= MaxItems /\ MaxItems \in Nat
         /\ DOMAIN response \subseteq Items
  <1>1. response \in Seq(PKs \cup {NoPk}) /\ Len(response) <= MaxItems
    BY ConstantsAssumption DEF TypeOK
  <1> QED
    BY <1>1, ConstantsAssumption DEF Items

\* The place as two numbers.
LEMMA PlaceTypes ==
  ASSUME TypeOK
  PROVE  /\ at = <<at[1], at[2]>>
         /\ at[1] \in 1..(MaxItems + 1)
         /\ at[2] \in 0..(Len(Relationships) + 1)
  BY DEF TypeOK

\* Related records keep what makes them one.
LEMMA MetaTypes ==
  ASSUME NEW m \in Meta
  PROVE  /\ m.item \in Items /\ m.row \in JoinRows /\ m.pk \in PKs \cup {NoneKey}
         /\ m.row.rel \in Rels /\ Url(m) \in Urls
         /\ m = [item |-> m.item, row |-> m.row, pk |-> m.pk]
  BY RelTypes DEF Meta, Url, Urls

LEMMA EntryTypes ==
  ASSUME NEW e \in Entry
  PROVE  /\ e.row \in JoinRows /\ e.pk \in PKs \cup {NoneKey} /\ e.content \in Contents
         /\ e.row.rel \in Rels /\ Url(e) \in Urls
  BY RelTypes DEF Entry, Url, Urls

\* Taking the next related record.
LEMMA Taken ==
  ASSUME TypeOK, todo # <<>>, NEW m, m = Head(todo)
  PROVE  /\ m \in Meta /\ m = todo[1] /\ Len(todo) \in Nat \ {0}
         /\ ToSet(todo) = {m} \cup ToSet(Tail(todo))
         /\ Tail(todo) \in Seq(Meta) /\ Len(Tail(todo)) = Len(todo) - 1
         /\ \A k \in 1..Len(Tail(todo)) : Tail(todo)[k] = todo[k + 1]
  <1>1. todo \in Seq(Meta)
    BY DEF TypeOK
  <1>2. /\ m \in Meta /\ m = todo[1] /\ Len(todo) \in Nat \ {0}
        /\ Tail(todo) \in Seq(Meta) /\ Len(Tail(todo)) = Len(todo) - 1
        /\ \A k \in 1..Len(Tail(todo)) : Tail(todo)[k] = todo[k + 1]
    BY <1>1
  <1>3. DOMAIN todo = 1..Len(todo) /\ DOMAIN Tail(todo) = 1..Len(Tail(todo))
    BY <1>1, <1>2
  <1>4. ASSUME NEW x \in ToSet(todo)
        PROVE  x \in {m} \cup ToSet(Tail(todo))
    <2>1. PICK k \in 1..Len(todo) : x = todo[k]
      BY <1>3 DEF ToSet
    <2>2. k = 1 \/ (k - 1 \in 1..Len(Tail(todo)) /\ Tail(todo)[k - 1] = x)
      BY <1>2, <2>1
    <2> QED
      BY <1>2, <1>3, <2>1, <2>2 DEF ToSet
  <1>5. ASSUME NEW x \in {m} \cup ToSet(Tail(todo))
        PROVE  x \in ToSet(todo)
    <2>1. CASE x = m
      BY <1>2, <1>3, <2>1 DEF ToSet
    <2>2. CASE x \in ToSet(Tail(todo))
      <3>1. PICK k \in 1..Len(Tail(todo)) : x = Tail(todo)[k]
        BY <1>3, <2>2 DEF ToSet
      <3>2. k + 1 \in 1..Len(todo) /\ todo[k + 1] = x
        BY <1>2, <3>1
      <3> QED
        BY <1>3, <3>2 DEF ToSet
    <2> QED
      BY <2>1, <2>2
  <1> QED
    BY <1>2, <1>4, <1>5

\* Going on to the next place forgets nothing.
LEMMA ReachedStays ==
  ASSUME TypeOK, NEW i, NEW row \in JoinRows, Reached(i, row),
         response' = response, at'[1] \in Nat, at'[2] \in Nat,
         \/ at'[1] > at[1]
         \/ at'[1] = at[1] /\ at'[2] >= at[2]
  PROVE  Reached(i, row)'
  <1>1. i \in Nat /\ row.rel \in Nat /\ at[1] \in Nat /\ at[2] \in Nat
    BY ResponseTypes, RelTypes, PlaceTypes, ConstantsAssumption DEF Reached
  <1> QED
    BY <1>1 DEF Reached, ThisSide

-----------------------------------------------------------------------------
(* Documents under an item.                                                *)

\* One document more, under one key of one item.
LEMMA Nested ==
  ASSUME TypeOK, NEW m \in Meta, NEW c \in Contents, Nest(m, c)
  PROVE  LET e  == [row |-> m.row, pk |-> m.pk, content |-> c]
             km == Relationships[m.row.rel].key
         IN  /\ e \in Entry /\ km \in Keys
             /\ data' \in [Items -> [Keys -> Seq(Entry)]]
             /\ data'[m.item][km] = Append(data[m.item][km], e)
             /\ \A i \in Items, k \in Keys :
                   ~(i = m.item /\ k = km) => data'[i][k] = data[i][k]
             /\ \A i \in Items, k \in Keys : \A n \in 1..Len(data'[i][k]) :
                   \/ n \in 1..Len(data[i][k]) /\ data'[i][k][n] = data[i][k][n]
                   \/ i = m.item /\ k = km /\ data'[i][k][n] = e
  <1> DEFINE e  == [row |-> m.row, pk |-> m.pk, content |-> c]
             km == Relationships[m.row.rel].key
             D  == data[m.item][km]
  <1>1. m.item \in Items /\ e \in Entry /\ km \in Keys
    BY MetaTypes, RelTypes DEF Entry
  <1>2. data \in [Items -> [Keys -> Seq(Entry)]]
    BY DEF TypeOK
  <1>3. data' = [data EXCEPT ![m.item][km] = Append(D, e)]
    BY DEF Nest
  <1> HIDE DEF e, km
  <1>4. D \in Seq(Entry) /\ Append(D, e) \in Seq(Entry)
    BY <1>1, <1>2
  <1>5. /\ data' \in [Items -> [Keys -> Seq(Entry)]]
        /\ data'[m.item][km] = Append(D, e)
        /\ \A i \in Items, k \in Keys :
              ~(i = m.item /\ k = km) => data'[i][k] = data[i][k]
    <2> HIDE DEF D
    <2>1. DEFINE A == Append(D, e)
    <2>2. data' = [data EXCEPT ![m.item] = [@ EXCEPT ![km] = A]]
      BY <1>3
    <2> QED
      BY <1>1, <1>2, <1>4, <2>2
  <1>6. /\ Len(Append(D, e)) = Len(D) + 1 /\ Len(D) \in Nat
        /\ \A n \in 1..Len(D) : Append(D, e)[n] = D[n]
        /\ Append(D, e)[Len(D) + 1] = e
    BY <1>1, <1>4
  <1>7. ASSUME NEW i \in Items, NEW k \in Keys, NEW n \in 1..Len(data'[i][k])
        PROVE  \/ n \in 1..Len(data[i][k]) /\ data'[i][k][n] = data[i][k][n]
               \/ i = m.item /\ k = km /\ data'[i][k][n] = e
    <2>1. CASE ~(i = m.item /\ k = km)
      BY <1>5, <1>7, <2>1
    <2>2. CASE i = m.item /\ k = km
      <3>1. n \in 1..(Len(D) + 1) /\ data'[i][k] = Append(D, e) /\ data[i][k] = D
        BY <1>5, <1>6, <1>7, <2>2
      <3> HIDE DEF D
      <3>2. n \in 1..Len(D) \/ n = Len(D) + 1
        BY <1>6, <3>1
      <3> QED
        BY <1>6, <2>2, <3>1, <3>2
    <2> QED
      BY <2>1, <2>2
  <1> QED
    BY <1>1, <1>5, <1>7 DEF e, km, D

\* Nesting a record where it belongs; if it is one the caches share, the cache
\* has it in this version and has not forgotten any other.
LEMMA NestStep ==
  ASSUME IInv, NEW m \in Meta, NEW c \in Contents, Nest(m, c),
         Reached(m.item, m.row), UNCHANGED <<fixed, at>>,
         seen' \in [Urls -> Contents \cup {NoDict, Unasked}],
         \A u \in Urls : seen[u] # Unasked => seen'[u] = seen[u],
         Shared(m) => seen'[Url(m)] = c
  PROVE  /\ data' \in [Items -> [Keys -> Seq(Entry)]]
         /\ NestInv'
         /\ CacheInv'
  <1> DEFINE new == [row |-> m.row, pk |-> m.pk, content |-> c]
             km  == Relationships[m.row.rel].key
  <1>1. /\ new \in Entry /\ km \in Keys
        /\ data' \in [Items -> [Keys -> Seq(Entry)]]
        /\ \A i \in Items, k \in Keys : \A n \in 1..Len(data'[i][k]) :
              \/ n \in 1..Len(data[i][k]) /\ data'[i][k][n] = data[i][k][n]
              \/ i = m.item /\ k = km /\ data'[i][k][n] = new
    BY Nested DEF IInv
  <1>2. \A i, row : Reached(i, row)' <=> Reached(i, row)
    BY DEF Reached, fixed, ThisSide
  <1>3. \A e : Shared(e)' <=> Shared(e)
    BY DEF Shared, fixed, UsesLocal
  <1>4. new.row = m.row /\ new.pk = m.pk /\ new.content = c /\ Url(new) = Url(m)
        /\ (Shared(new) <=> Shared(m))
    BY DEF Url, Shared, UsesLocal
  <1> HIDE DEF new
  <1>5. ASSUME NEW i \in Items, NEW k \in Keys, NEW n \in 1..Len(data'[i][k]),
               NEW e, e = data'[i][k][n]
        PROVE  /\ Reached(i, e.row)'
               /\ Relationships[e.row.rel].key = k
               /\ Shared(e)' => seen'[Url(e)] = e.content
    <2>1. CASE n \in 1..Len(data[i][k]) /\ e = data[i][k][n]
      <3>1. e \in Entry
        BY <2>1 DEF IInv, TypeOK
      <3>2. /\ Reached(i, e.row) /\ Relationships[e.row.rel].key = k
            /\ Shared(e) => seen[Url(e)] = e.content
        BY <2>1 DEF IInv, NestInv, CacheInv
      <3>3. Url(e) \in Urls /\ e.content # Unasked
        BY <3>1, EntryTypes, SentinelsAssumption
      <3> QED
        BY <1>2, <1>3, <3>2, <3>3
    <2>2. CASE i = m.item /\ k = km /\ e = new
      BY <1>2, <1>3, <1>4, <2>2
    <2> QED
      BY <1>1, <1>5, <2>1, <2>2
  <1>6. NestInv'
    BY <1>5 DEF NestInv, Reached, ThisSide
  <1>7. CacheInv'
    BY SMTT(30), <1>5 DEF CacheInv, Shared, UsesLocal, Url
  <1> QED
    BY <1>1, <1>6, <1>7

\* The same when nothing is nested.
LEMMA NoNestStep ==
  ASSUME IInv, data' = data, UNCHANGED <<fixed, at>>,
         seen' \in [Urls -> Contents \cup {NoDict, Unasked}],
         \A u \in Urls : seen[u] # Unasked => seen'[u] = seen[u]
  PROVE  /\ data' \in [Items -> [Keys -> Seq(Entry)]]
         /\ NestInv'
         /\ CacheInv'
  <1>1. /\ \A i, row : Reached(i, row)' <=> Reached(i, row)
        /\ \A e : Shared(e)' <=> Shared(e)
    BY DEF Reached, fixed, ThisSide, Shared, UsesLocal
  <1>2. ASSUME NEW i \in Items, NEW k \in Keys, NEW n \in 1..Len(data'[i][k]),
               NEW e, e = data'[i][k][n]
        PROVE  /\ Reached(i, e.row)'
               /\ Relationships[e.row.rel].key = k
               /\ Shared(e)' => seen'[Url(e)] = e.content
    <2>1. e \in Entry
      BY <1>2 DEF IInv, TypeOK
    <2>2. /\ Reached(i, e.row) /\ Relationships[e.row.rel].key = k
          /\ Shared(e) => seen[Url(e)] = e.content
      BY <1>2 DEF IInv, NestInv, CacheInv
    <2>3. Url(e) \in Urls /\ e.content # Unasked
      BY <2>1, EntryTypes, SentinelsAssumption
    <2> QED
      BY <1>1, <2>2, <2>3
  <1>3. data' \in [Items -> [Keys -> Seq(Entry)]]
    BY DEF IInv, TypeOK
  <1>4. NestInv'
    BY <1>2 DEF NestInv, Reached, ThisSide
  <1>5. CacheInv'
    BY SMTT(30), <1>2 DEF CacheInv, Shared, UsesLocal, Url
  <1> QED
    BY <1>3, <1>4, <1>5

-----------------------------------------------------------------------------
(* Each step keeps the invariant.                                          *)

LEMMA InitInv == Init => IInv
  <1> SUFFICES ASSUME Init PROVE IInv
    OBVIOUS
  <1>1. TypeOK
    BY ConstantsAssumption, RelTypes DEF Init, TypeOK, Items
  <1>2. response \in Seq(PKs \cup {NoPk})
    BY ConstantsAssumption DEF Init
  <1>3. PlaceInv /\ TodoInv /\ TaskInv
    BY <1>2 DEF Init, PlaceInv, TodoInv, TaskInv
  <1>4. \A i \in Items, k \in Keys : Len(data[i][k]) = 0
    BY DEF Init
  <1>5. NestInv /\ CacheInv
    BY <1>4 DEF NestInv, CacheInv
  <1>6. LocalInv
    BY SentinelsAssumption DEF Init, LocalInv
  <1> QED
    BY <1>1, <1>3, <1>5, <1>6 DEF IInv

\* The next related record is taken, and made a coroutine or dealt with.
LEMMA TakenInv ==
  ASSUME IInv, NEW m, Takes(m), todo' = Tail(todo), UNCHANGED <<fixed, at>>,
         tasks' = tasks \/ (tasks' = tasks \cup {m} /\ ~Shared(m))
  PROVE  /\ todo' \in Seq(Meta) /\ tasks' \subseteq Meta
         /\ PlaceInv' /\ TodoInv' /\ TaskInv'
  <1>1. /\ m \in Meta /\ m = todo[1] /\ Len(todo) \in Nat \ {0}
        /\ todo' \in Seq(Meta) /\ Len(todo') = Len(todo) - 1
        /\ \A k \in 1..Len(todo') : todo'[k] = todo[k + 1] /\ k + 1 \in 1..Len(todo)
    BY Taken DEF IInv, Takes
  <1>2. /\ \A i, row : Reached(i, row)' <=> Reached(i, row)
        /\ \A x : Shared(x)' <=> Shared(x)
    BY DEF Reached, fixed, ThisSide, Shared, UsesLocal
  <1>3. PlaceInv'
    BY DEF IInv, PlaceInv, fixed
  <1>4. TodoInv'
    <2>1. ASSUME NEW k \in 1..Len(todo'), NEW x, x = todo'[k]
          PROVE  /\ Reached(x.item, x.row)'
                 /\ x.item = at'[1]
                 /\ x.row.rel = at'[2] - 1
      <3>1. x = todo[k + 1] /\ k + 1 \in 1..Len(todo)
        BY <1>1, <2>1
      <3> QED
        BY <1>2, <3>1 DEF IInv, TodoInv
    <2>2. ASSUME NEW k \in 1..Len(todo'), NEW l \in 1..Len(todo'),
                 todo'[k].row = todo'[l].row
          PROVE  k = l
      <3>1. k + 1 = l + 1
        BY <1>1, <2>2 DEF IInv, TodoInv
      <3> QED
        BY <3>1
    <2> QED
      BY <2>1, <2>2 DEF TodoInv, Reached, ThisSide
  <1>5. TaskInv'
    <2>1. ASSUME NEW k \in 1..Len(todo')
          PROVE  todo'[k].row # m.row
      <3>1. todo'[k] = todo[k + 1] /\ k + 1 \in 1..Len(todo) /\ k + 1 # 1 /\ 1 \in 1..Len(todo)
        BY <1>1
      <3> QED
        BY <1>1, <3>1 DEF IInv, TodoInv
    <2>2. \A x \in tasks : ~(x.item = m.item /\ x.row = m.row)
      BY <1>1 DEF IInv, TaskInv
    <2>3. Reached(m.item, m.row)
      BY <1>1 DEF IInv, TodoInv
    <2>4. ASSUME NEW x \in tasks', NEW k \in 1..Len(todo')
          PROVE  ~(x.item = todo'[k].item /\ x.row = todo'[k].row)
      BY <1>1, <2>1, <2>4 DEF IInv, TaskInv
    <2>5. \A x \in tasks' : Reached(x.item, x.row)' /\ ~Shared(x)'
      BY <1>2, <2>3 DEF IInv, TaskInv
    <2>6. \A x, y \in tasks' : x.item = y.item /\ x.row = y.row => x = y
      BY <2>2 DEF IInv, TaskInv
    <2> QED
      BY <2>4, <2>5, <2>6 DEF TaskInv, Reached, ThisSide, Shared, UsesLocal
  <1>6. tasks' \subseteq Meta
    BY <1>1 DEF IInv, TypeOK
  <1> QED
    BY <1>1, <1>3, <1>4, <1>5, <1>6

\* One more URL in a cache, with something a service or a local model may have.
LEMMA Remembered ==
  ASSUME IInv, NEW m \in Meta, NEW c \in Contents \cup {NoDict}, ~Cached(m),
         seen' = [seen EXCEPT ![Url(m)] = c],
         c = NoDict => ~Relationships[m.row.rel].local
  PROVE  /\ seen' \in [Urls -> Contents \cup {NoDict, Unasked}]
         /\ \A u \in Urls : seen[u] # Unasked => seen'[u] = seen[u]
         /\ seen'[Url(m)] = c
         /\ LocalInv'
  <1>1. Url(m) \in Urls /\ m.row.rel \in Rels /\ Url(m)[1] = Relationships[m.row.rel].model
    BY MetaTypes DEF Url
  <1>2. seen \in [Urls -> Contents \cup {NoDict, Unasked}] /\ seen[Url(m)] = Unasked
    BY DEF IInv, TypeOK, Cached
  <1>3. ASSUME NEW r \in Rels, NEW u \in Urls,
               Relationships[r].local, u[1] = Relationships[r].model
        PROVE  seen'[u] # NoDict
    <2>1. CASE u = Url(m)
      <3>1. Relationships[r].local = Relationships[m.row.rel].local
        BY <1>1, <1>3, <2>1, LocalAssumption
      <3> QED
        BY <1>1, <1>2, <1>3, <2>1, <3>1
    <2>2. CASE u # Url(m)
      BY <1>2, <1>3, <2>2 DEF IInv, LocalInv
    <2> QED
      BY <2>1, <2>2
  <1> QED
    BY <1>1, <1>2, <1>3 DEF LocalInv

LEMMA TakeStep ==
  ASSUME IInv, NEW m, Takes(m), UNCHANGED <<joins, fixed, at, status>>,
         todo' = Tail(todo),
         tasks' = tasks \/ (tasks' = tasks \cup {m} /\ ~Shared(m)),
         \/ /\ data' = data
            /\ UNCHANGED seen
         \/ \E c \in Contents \cup {NoDict} :
               /\ NestAnswer(m, c)
               /\ c = NoDict => ~Relationships[m.row.rel].local
               /\ \/ UNCHANGED seen /\ (Shared(m) => seen[Url(m)] = c)
                  \/ ~Cached(m) /\ seen' = [seen EXCEPT ![Url(m)] = c]
  PROVE  IInv'
  <1>1. /\ m \in Meta /\ Reached(m.item, m.row)
        /\ todo' \in Seq(Meta) /\ tasks' \subseteq Meta
        /\ PlaceInv' /\ TodoInv' /\ TaskInv'
    BY Taken, TakenInv DEF IInv, TodoInv, Takes
  <1>2. /\ data' \in [Items -> [Keys -> Seq(Entry)]]
        /\ seen' \in [Urls -> Contents \cup {NoDict, Unasked}]
        /\ NestInv' /\ CacheInv' /\ LocalInv'
    <2>1. CASE data' = data /\ UNCHANGED seen
      BY <2>1, NoNestStep DEF IInv, TypeOK, LocalInv
    <2>2. ASSUME NEW c \in Contents \cup {NoDict}, NestAnswer(m, c),
                 c = NoDict => ~Relationships[m.row.rel].local,
                 \/ UNCHANGED seen /\ (Shared(m) => seen[Url(m)] = c)
                 \/ ~Cached(m) /\ seen' = [seen EXCEPT ![Url(m)] = c]
          PROVE  /\ data' \in [Items -> [Keys -> Seq(Entry)]]
                 /\ seen' \in [Urls -> Contents \cup {NoDict, Unasked}]
                 /\ NestInv' /\ CacheInv' /\ LocalInv'
      <3>1. /\ seen' \in [Urls -> Contents \cup {NoDict, Unasked}]
            /\ \A u \in Urls : seen[u] # Unasked => seen'[u] = seen[u]
            /\ Shared(m) => seen'[Url(m)] = c
            /\ LocalInv'
        <4>1. CASE UNCHANGED seen /\ (Shared(m) => seen[Url(m)] = c)
          BY <4>1 DEF IInv, TypeOK, LocalInv
        <4>2. CASE ~Cached(m) /\ seen' = [seen EXCEPT ![Url(m)] = c]
          BY <1>1, <2>2, <4>2, Remembered
        <4> QED
          BY <2>2, <4>1, <4>2
      <3>2. CASE c = NoDict
        BY <2>2, <3>1, <3>2, NoNestStep DEF NestAnswer
      <3>3. CASE c # NoDict
        BY <1>1, <2>2, <3>1, <3>3, NestStep DEF NestAnswer
      <3> QED
        BY <3>2, <3>3
    <2> QED
      BY <2>1, <2>2
  <1>3. TypeOK'
    BY <1>1, <1>2 DEF IInv, TypeOK, fixed
  <1> QED
    BY <1>1, <1>2, <1>3 DEF IInv

\* Steps that touch none of what the invariant relates.
LEMMA AsideStep ==
  ASSUME IInv, UNCHANGED <<fixed, at, todo, tasks, data, seen>>,
         joins' \subseteq JoinRows,
         status' \in {"run", "ok", "noPk", "badPk", "noClient", "failed"}
  PROVE  IInv'
  <1>1. TypeOK'
    BY DEF IInv, TypeOK, fixed
  <1> QED
    BY SMTT(30), <1>1 DEF IInv, fixed, PlaceInv, TodoInv, TaskInv, NestInv, CacheInv, LocalInv,
                Reached, ThisSide, Shared, UsesLocal

\* The generator goes to another place and has nothing in its hands.
LEMMA MoveStep ==
  ASSUME IInv, todo = <<>>, todo' = <<>>,
         UNCHANGED <<joins, fixed, tasks, data, seen, status>>,
         at' \in (1..(MaxItems + 1)) \X (0..(Len(Relationships) + 1)),
         at'[1] > at[1] \/ (at'[1] = at[1] /\ at'[2] >= at[2]),
         PlaceInv'
  PROVE  IInv'
  <1>1. TypeOK'
    BY DEF IInv, TypeOK, fixed
  <1>2. at'[1] \in Nat /\ at'[2] \in Nat /\ response' = response
    BY ConstantsAssumption, RelTypes DEF fixed
  <1>3. \A x, row : row \in JoinRows /\ Reached(x, row) => Reached(x, row)'
    BY <1>2, ReachedStays DEF IInv
  <1>4. TodoInv'
    BY DEF TodoInv
  <1>5. TaskInv'
    <2>1. \A m \in tasks : m.row \in JoinRows
      BY MetaTypes DEF IInv, TypeOK
    <2>2. \A m \in tasks : Reached(m.item, m.row)' /\ ~Shared(m)'
      BY <1>3, <2>1 DEF IInv, TaskInv, Shared, UsesLocal, fixed
    <2>3. \A m, n \in tasks : m.item = n.item /\ m.row = n.row => m = n
      BY DEF IInv, TaskInv
    <2> QED
      BY <2>2, <2>3 DEF TaskInv, Reached, ThisSide, Shared, UsesLocal
  <1>6. NestInv'
    <2>1. ASSUME NEW x \in Items, NEW k \in Keys, NEW n \in 1..Len(data'[x][k]),
                 NEW e, e = data'[x][k][n]
          PROVE  Reached(x, e.row)' /\ Relationships[e.row.rel].key = k
      <3>1. e \in Entry
        BY <2>1 DEF IInv, TypeOK
      <3>2. e.row \in JoinRows
        BY <3>1, EntryTypes
      <3>3. Reached(x, e.row) /\ Relationships[e.row.rel].key = k
        BY <2>1 DEF IInv, NestInv
      <3> QED
        BY <1>3, <3>2, <3>3
    <2> QED
      BY SMTT(30), <2>1 DEF NestInv, Reached, ThisSide
  <1>7. CacheInv' /\ LocalInv'
    BY DEF IInv, CacheInv, LocalInv, Shared, UsesLocal, fixed
  <1> QED
    BY <1>1, <1>4, <1>5, <1>6, <1>7 DEF IInv

\* Before an item's first query nothing is nested in it.
LEMMA NothingYet ==
  ASSUME IInv, at[2] = 0, at[1] \in Items, NEW k \in Keys
  PROVE  data[at[1]][k] = <<>>
  <1>1. data[at[1]][k] \in Seq(Entry)
    BY DEF IInv, TypeOK
  <1>2. ASSUME NEW n \in 1..Len(data[at[1]][k])
        PROVE  FALSE
    <2>1. data[at[1]][k][n] \in Entry
      BY <1>1
    <2>2. data[at[1]][k][n].row.rel \in Nat \ {0}
      BY <2>1, EntryTypes, RelTypes
    <2>3. data[at[1]][k][n].row.rel < 0
      BY PlaceTypes DEF IInv, NestInv, Reached
    <2> QED
      BY <2>2, <2>3
  <1>3. Len(data[at[1]][k]) = 0
    BY <1>1, <1>2
  <1> QED
    BY <1>1, <1>3

\* so that emptying its lists changes nothing.
LEMMA StartKeeps ==
  ASSUME IInv, StartItem
  PROVE  data' = data
  <1>1. at[1] \in Items /\ at[2] = 0
    BY ResponseTypes DEF StartItem, AtItem, IInv
  <1>2. data[at[1]] = [k \in Keys |-> <<>>]
    <2>1. data[at[1]] \in [Keys -> Seq(Entry)]
      BY <1>1 DEF IInv, TypeOK
    <2>2. \A k \in Keys : data[at[1]][k] = <<>>
      BY <1>1, NothingYet
    <2> QED
      BY <2>1, <2>2
  <1>3. data' = [data EXCEPT ![at[1]] = data[at[1]]]
    BY <1>2 DEF StartItem
  <1> QED
    BY <1>1, <1>3 DEF IInv, TypeOK

LEMMA WalkStep ==
  ASSUME IInv, StartItem \/ NextItem
  PROVE  IInv'
  <1>1. /\ at = <<at[1], at[2]>>
        /\ at[1] \in 1..Len(response) /\ Len(response) <= MaxItems /\ MaxItems \in Nat
        /\ at[2] \in 0..(Len(Relationships) + 1) /\ Len(Relationships) \in Nat
        /\ Len(response) \in Nat /\ DOMAIN response = 1..Len(response)
    BY PlaceTypes, ResponseTypes, RelTypes DEF StartItem, NextItem, AtItem, IInv
  <1>2. todo = <<>> /\ todo' = <<>> /\ data' = data
        /\ UNCHANGED <<joins, fixed, tasks, seen, status>>
    BY StartKeeps DEF StartItem, NextItem, AtItem
  <1>3. /\ at' \in (1..(MaxItems + 1)) \X (0..(Len(Relationships) + 1))
        /\ at'[1] > at[1] \/ (at'[1] = at[1] /\ at'[2] >= at[2])
        /\ at'[1] <= Len(response) + 1
        /\ at'[2] # 0 => at'[1] \in DOMAIN response
    BY <1>1 DEF StartItem, NextItem
  <1> QED
    BY <1>2, <1>3, MoveStep DEF PlaceInv, fixed

\* One query's rows, in any order: each of them once.
LEMMA ReadFacts ==
  ASSUME IInv, ReadJoins
  PROVE  LET S == JoinRecords(response[at[1]], at[2])
         IN  /\ S \subseteq JoinRows /\ at[1] \in Items
             /\ todo' \in Seq(Meta) /\ Len(todo') <= Cardinality(JoinRows)
             /\ \A k \in 1..Len(todo') : todo'[k].item = at[1] /\ todo'[k].row \in S
             /\ \A k, l \in 1..Len(todo') : todo'[k].row = todo'[l].row => k = l
             /\ \A row \in S : \E k \in 1..Len(todo') : todo'[k].row = row
  <1> DEFINE S == JoinRecords(response[at[1]], at[2])
             n == Cardinality(S)
  <1>1. S \subseteq JoinRows /\ at[1] \in Items
    BY ResponseTypes DEF JoinRecords, IInv, TypeOK, ReadJoins, AtItem
  <1>2. n \in Nat /\ IsFiniteSet(S) /\ n <= Cardinality(JoinRows)
    BY <1>1, FS_Subset, FS_CardinalityType, ConstantsAssumption
  <1>3. PICK rows \in SetToSeqs(S) :
           todo' = [k \in DOMAIN rows |-> [item |-> at[1],
                                           row  |-> rows[k],
                                           pk   |-> LookupKey(rows, k)]]
    BY DEF ReadJoins
  <1> HIDE DEF S, n
  <1>4. rows \in [1..n -> S] /\ \A k, l \in 1..n : k # l => rows[k] # rows[l]
    BY <1>3 DEF SetToSeqs, n
  <1>5. \A k \in 1..n : LookupKey(rows, k) \in PKs \cup {NoneKey}
    BY <1>1, <1>4, RelTypes DEF LookupKey
  <1>6. \A k \in 1..n : /\ todo'[k] \in Meta
                        /\ todo'[k].item = at[1] /\ todo'[k].row = rows[k]
    BY <1>1, <1>3, <1>4, <1>5 DEF Meta
  <1>7. todo' \in [1..n -> Meta]
    BY <1>3, <1>4, <1>6
  <1>8. todo' \in Seq(Meta) /\ Len(todo') = n
    BY <1>2, <1>7
  <1>9. \A row \in S : \E k \in 1..n : rows[k] = row
    <2>1. rows \in Injection(1..n, S)
      BY <1>4 DEF Injection, IsInjective
    <2>2. IsFiniteSet(1..n) /\ Cardinality(1..n) = n
      BY <1>2, FS_Interval
    <2>3. rows \in Surjection(1..n, S)
      BY <1>2, <2>1, <2>2, FS_Injection DEF n
    <2> QED
      BY <2>3 DEF Surjection
  <1> QED
    BY <1>1, <1>2, <1>4, <1>6, <1>8, <1>9 DEF S

LEMMA ReadStep ==
  ASSUME IInv, ReadJoins
  PROVE  IInv'
  <1> DEFINE S == JoinRecords(response[at[1]], at[2])
  <1>1. /\ S \subseteq JoinRows /\ at[1] \in Items
        /\ todo' \in Seq(Meta)
        /\ \A k \in 1..Len(todo') : todo'[k].item = at[1] /\ todo'[k].row \in S
        /\ \A k, l \in 1..Len(todo') : todo'[k].row = todo'[l].row => k = l
    BY ReadFacts
  <1>2. \A row \in S : row.rel = at[2] /\ ThisSide(row) = response[at[1]]
    BY DEF JoinRecords
  <1>3. /\ at[1] \in DOMAIN response /\ at[2] \in Rels /\ at' = <<at[1], at[2] + 1>>
        /\ at[1] \in Nat /\ at[2] \in 1..Len(Relationships) /\ Len(Relationships) \in Nat
        /\ at[1] \in 1..(MaxItems + 1)
        /\ UNCHANGED <<joins, fixed, tasks, data, seen, status>>
    BY PlaceTypes, RelTypes, ConstantsAssumption DEF ReadJoins, AtItem, IInv
  <1> HIDE DEF S
  <1>4. TypeOK'
    BY <1>1, <1>3 DEF IInv, TypeOK, fixed
  <1>5. PlaceInv'
    BY <1>3 DEF PlaceInv, IInv, fixed
  <1>6. TodoInv'
    <2>1. ASSUME NEW k \in 1..Len(todo'), NEW x, x = todo'[k]
          PROVE  /\ Reached(x.item, x.row)'
                 /\ x.item = at'[1]
                 /\ x.row.rel = at'[2] - 1
      BY <1>1, <1>2, <1>3, <2>1 DEF Reached, ThisSide, fixed
    <2> QED
      BY <1>1, <2>1 DEF TodoInv, Reached, ThisSide
  <1>7. \A x, row : row \in JoinRows /\ Reached(x, row) => Reached(x, row)'
    BY <1>3, ReachedStays DEF IInv, fixed
  <1>8. TaskInv'
    <2>1. \A m \in tasks : m.row \in JoinRows /\ Reached(m.item, m.row)
      BY MetaTypes DEF IInv, TypeOK, TaskInv
    <2>2. ASSUME NEW m \in tasks, NEW k \in 1..Len(todo'), NEW x, x = todo'[k],
                 m.item = x.item, m.row = x.row
          PROVE  FALSE
      <3>1. m.item = at[1] /\ m.row.rel = at[2]
        BY <1>1, <1>2, <2>2
      <3> QED
        BY <1>3, <2>1, <3>1 DEF Reached
    <2>3. \A m \in tasks : Reached(m.item, m.row)' /\ ~Shared(m)'
      BY <1>3, <1>7, <2>1 DEF IInv, TaskInv, Shared, UsesLocal, fixed
    <2>4. \A m, x \in tasks : m.item = x.item /\ m.row = x.row => m = x
      BY DEF IInv, TaskInv
    <2> QED
      BY <1>3, <2>2, <2>3, <2>4 DEF TaskInv, Reached, ThisSide, Shared, UsesLocal
  <1>9. NestInv'
    <2>1. ASSUME NEW x \in Items, NEW k \in Keys, NEW n \in 1..Len(data'[x][k]),
                 NEW e, e = data'[x][k][n]
          PROVE  Reached(x, e.row)' /\ Relationships[e.row.rel].key = k
      <3>1. e \in Entry
        BY <1>3, <2>1 DEF IInv, TypeOK
      <3>2. e.row \in JoinRows
        BY <3>1, EntryTypes
      <3>3. Reached(x, e.row) /\ Relationships[e.row.rel].key = k
        BY <1>3, <2>1 DEF IInv, NestInv
      <3> QED
        BY <1>7, <3>2, <3>3
    <2> QED
      BY <2>1 DEF NestInv, Reached, ThisSide
  <1>10. CacheInv' /\ LocalInv'
    BY <1>3 DEF IInv, CacheInv, LocalInv, Shared, UsesLocal, fixed
  <1> QED
    BY <1>4, <1>5, <1>6, <1>8, <1>9, <1>10 DEF IInv

LEMMA TaskEndsStep ==
  ASSUME IInv, NEW m \in tasks, NEW c \in Contents \cup {NoDict}, TaskEnds(m, c)
  PROVE  IInv'
  <1>1. m \in Meta /\ Reached(m.item, m.row) /\ ~Shared(m)
    BY DEF IInv, TypeOK, TaskInv
  <1>2. /\ UNCHANGED <<joins, fixed, at, todo, seen, status>>
        /\ tasks' = tasks \ {m} /\ NestAnswer(m, c)
    BY DEF TaskEnds
  <1>3. seen' \in [Urls -> Contents \cup {NoDict, Unasked}]
    BY <1>2 DEF IInv, TypeOK
  <1>4. data' \in [Items -> [Keys -> Seq(Entry)]] /\ NestInv' /\ CacheInv'
    <2>1. CASE c = NoDict
      BY <1>2, <1>3, <2>1, NoNestStep DEF NestAnswer
    <2>2. CASE c # NoDict
      BY <1>1, <1>2, <1>3, <2>2, NestStep DEF NestAnswer
    <2> QED
      BY <2>1, <2>2
  <1>5. TypeOK'
    BY <1>2, <1>3, <1>4 DEF IInv, TypeOK, fixed
  <1>6. PlaceInv' /\ TodoInv' /\ TaskInv' /\ LocalInv'
    BY <1>2 DEF IInv, PlaceInv, TodoInv, TaskInv, LocalInv, Reached, ThisSide, Shared,
                UsesLocal, fixed
  <1> QED
    BY <1>4, <1>5, <1>6 DEF IInv

\* The related record at the head of the generator.
LEMMA HeadStep ==
  ASSUME IInv, NEW m \in ToSet(todo),
         \/ LocalCached(m)
         \/ \E c \in Contents : LocalFound(m, c)
         \/ LocalMissing(m)
         \/ RequestCached(m)
         \/ \E c \in Contents \cup {NoDict} : RequestRecord(m, c)
         \/ Defer(m)
  PROVE  IInv'
  <1>1. Takes(m) /\ m \in Meta
    BY Taken DEF IInv, Takes, LocalCached, LocalFound, LocalMissing, RequestCached,
                 RequestRecord, Defer
  <1>2. Url(m) \in Urls /\ m.row.rel \in Rels /\ Url(m)[1] = Relationships[m.row.rel].model
    BY <1>1, MetaTypes DEF Url
  <1>3. seen[Url(m)] \in Contents \cup {NoDict, Unasked}
    BY <1>2 DEF IInv, TypeOK
  <1>4. Shared(m) <=> UsesLocal(m) \/ (mode = "sync" /\ isGet)
    BY DEF Shared, UsesLocal
  <1>5. CASE LocalCached(m)
    <2>1. seen[Url(m)] \in Contents
      BY <1>2, <1>3, <1>5 DEF LocalCached, Cached, UsesLocal, IInv, LocalInv
    <2>2. NestAnswer(m, seen[Url(m)])
      BY <1>5, <2>1, SentinelsAssumption DEF LocalCached, NestAnswer
    <2> QED
      BY <1>1, <1>5, <2>1, <2>2, TakeStep, SentinelsAssumption DEF LocalCached
  <1>6. ASSUME NEW c \in Contents, LocalFound(m, c) PROVE IInv'
    <2>1. NestAnswer(m, c) /\ c # NoDict
      BY <1>6, SentinelsAssumption DEF LocalFound, NestAnswer
    <2> QED
      BY <1>1, <1>6, <2>1, TakeStep DEF LocalFound
  <1>7. CASE LocalMissing(m)
    BY <1>1, <1>7, TakeStep DEF LocalMissing
  <1>8. CASE RequestCached(m)
    <2>1. seen[Url(m)] \in Contents \cup {NoDict} /\ ~Relationships[m.row.rel].local
      BY <1>3, <1>8 DEF RequestCached, Cached, HasClient
    <2> QED
      BY <1>1, <1>8, <2>1, TakeStep DEF RequestCached
  <1>9. ASSUME NEW c \in Contents \cup {NoDict}, RequestRecord(m, c) PROVE IInv'
    <2>1. ~Relationships[m.row.rel].local
      BY <1>9 DEF RequestRecord, HasClient
    <2>2. \/ UNCHANGED seen /\ ~Shared(m)
          \/ ~Cached(m) /\ seen' = [seen EXCEPT ![Url(m)] = c]
      BY <1>4, <1>9 DEF RequestRecord
    <2> QED
      BY <1>1, <1>9, <2>1, <2>2, TakeStep DEF RequestRecord
  <1>10. CASE Defer(m)
    BY <1>1, <1>4, <1>10, TakeStep DEF Defer
  <1> QED
    BY <1>5, <1>6, <1>7, <1>8, <1>9, <1>10

LEMMA NextInv == IInv /\ [Next]_vars => IInv'
  <1> SUFFICES ASSUME IInv, [Next]_vars PROVE IInv'
    OBVIOUS
  <1>1. CASE UNCHANGED vars
    BY <1>1, AsideStep DEF vars, fixed, IInv, TypeOK
  <1>2. CASE StartItem \/ NextItem
    BY <1>2, WalkStep
  <1>3. CASE ReadJoins
    BY <1>3, ReadStep
  <1>4. CASE \/ ItemWithoutPk \/ ReadJoinsFails \/ Finish
             \/ \E m \in ToSet(todo) : \/ LocalFails(m)
                                       \/ RequestFails(m)
                                       \/ RequestWithoutClient(m)
             \/ \E m \in tasks : TaskFails(m)
             \/ \E row \in JoinRows : WriteJoins(row)
    BY <1>4, AsideStep DEF ItemWithoutPk, ReadJoinsFails, Finish, LocalFails,
       RequestFails, RequestWithoutClient, TaskFails, WriteJoins, Fails, IInv, TypeOK
  <1>5. ASSUME NEW m \in tasks, NEW c \in Contents \cup {NoDict}, TaskEnds(m, c)
        PROVE  IInv'
    BY <1>5, TaskEndsStep
  <1>6. ASSUME NEW m \in ToSet(todo),
               \/ LocalCached(m)
               \/ \E c \in Contents : LocalFound(m, c)
               \/ LocalMissing(m)
               \/ RequestCached(m)
               \/ \E c \in Contents \cup {NoDict} : RequestRecord(m, c)
               \/ Defer(m)
        PROVE  IInv'
    BY <1>6, HeadStep
  <1> QED
    BY <1>1, <1>2, <1>3, <1>4, <1>5, <1>6 DEF Next, Progresses

\* The invariant the theorems rest on.
THEOREM Invariant == Spec => []IInv
  BY InitInv, NextInv, PTL DEF Spec

\* The types of tables, coroutines, caches and documents hold whatever the
\* services answer and other workers write.
THEOREM TypeCorrect == Spec => []TypeOK
  <1>1. IInv => TypeOK
    BY DEF IInv
  <1> QED
    BY <1>1, Invariant, PTL

\* extend_data and async_extend_data nest a document only under an item whose
\* own join record it is, and under the key of its relationship.
THEOREM Belongs == Spec => []NestedAreJoined
  <1>1. IInv => NestedAreJoined
    <2> SUFFICES ASSUME IInv, NEW i \in Items, NEW k \in Keys,
                        NEW n \in DOMAIN data[i][k]
                 PROVE  LET row == data[i][k][n].row
                            rel == Relationships[row.rel]
                        IN  /\ rel.key = k
                            /\ response[i] = IF rel.forward THEN row.origin ELSE row.related
      BY DEF NestedAreJoined
    <2>1. data[i][k] \in Seq(Entry)
      BY DEF IInv, TypeOK
    <2>2. n \in 1..Len(data[i][k])
      BY <2>1
    <2> QED
      BY <2>2 DEF IInv, NestInv, Reached, ThisSide
  <1> QED
    BY <1>1, Invariant, PTL

\* The caches of the clients and of DataMesh keep a response to one version of
\* every record they are asked for.
THEOREM SameVersion == Spec => []OneVersion
  <1>1. IInv => OneVersion
    <2>1. ASSUME IInv, NEW i \in Items, NEW k \in Keys, NEW n \in DOMAIN data[i][k],
                 Shared(data[i][k][n])
          PROVE  seen[Url(data[i][k][n])] = data[i][k][n].content
      <3>1. data[i][k] \in Seq(Entry)
        BY <2>1 DEF IInv, TypeOK
      <3>2. n \in 1..Len(data[i][k])
        BY <3>1
      <3> QED
        BY <2>1, <3>2 DEF IInv, CacheInv
    <2> QED
      BY <2>1 DEF OneVersion
  <1> QED
    BY <1>1, Invariant, PTL

-----------------------------------------------------------------------------
(* The refinement.  What JoinedResponse sees of a state:                   *)

Owed == {<<m.item, m.row>> : m \in ToSet(todo) \cup tasks}

Count(docs, row) == Cardinality({n \in DOMAIN docs : docs[n].row = row})

Counts == [d \in Items \X JoinRows |-> Count(data[d[1]][Relationships[d[2].rel].key], d[2])]

\* One document more of a record is one more.
LEMMA Counted ==
  ASSUME NEW docs \in Seq(Entry), NEW row
  PROVE  /\ Count(docs, row) \in Nat
         /\ (\A n \in 1..Len(docs) : docs[n].row # row) => Count(docs, row) = 0
         /\ \A e \in Entry : Count(Append(docs, e), row) =
               IF e.row = row THEN Count(docs, row) + 1 ELSE Count(docs, row)
  <1> DEFINE N == {n \in DOMAIN docs : docs[n].row = row}
  <1>1. DOMAIN docs = 1..Len(docs) /\ Len(docs) \in Nat
    OBVIOUS
  <1>2. IsFiniteSet(N) /\ Cardinality(N) \in Nat
    <2>1. IsFiniteSet(1..Len(docs))
      BY <1>1, FS_Interval
    <2> QED
      BY <1>1, <2>1, FS_Subset, FS_CardinalityType
  <1>3. ASSUME \A n \in 1..Len(docs) : docs[n].row # row
        PROVE  Count(docs, row) = 0
    <2>1. N = {}
      BY <1>1, <1>3
    <2> QED
      BY <2>1, FS_EmptySet DEF Count
  <1>4. ASSUME NEW e \in Entry
        PROVE  Count(Append(docs, e), row) =
                  IF e.row = row THEN Count(docs, row) + 1 ELSE Count(docs, row)
    <2> DEFINE a == Append(docs, e)
               M == {n \in DOMAIN a : a[n].row = row}
               l == Len(docs) + 1
    <2>1. /\ DOMAIN a = 1..l
          /\ \A n \in 1..Len(docs) : a[n] = docs[n]
          /\ a[l] = e
      OBVIOUS
    <2>2. l \notin N /\ l \in 1..l /\ \A n \in 1..l : n \in 1..Len(docs) \/ n = l
      BY <1>1
    <2> HIDE DEF a, l
    <2>3. CASE e.row = row
      <3>1. M = N \cup {l}
        BY <1>1, <2>1, <2>2, <2>3 DEF l
      <3>2. Cardinality(M) = Cardinality(N) + 1
        BY <1>2, <2>2, <3>1, FS_AddElement
      <3> QED
        BY <2>3, <3>2 DEF Count, a
    <2>4. CASE e.row # row
      <3>1. M = N
        BY <1>1, <2>1, <2>2, <2>4 DEF l
      <3> QED
        BY <2>4, <3>1 DEF Count, a
    <2> QED
      BY <2>3, <2>4
  <1> QED
    BY <1>2, <1>3, <1>4 DEF Count

\* The documents a row may be in.
LEMMA CountTypes ==
  ASSUME TypeOK, NEW d \in Items \X JoinRows
  PROVE  /\ d[1] \in Items /\ d[2] \in JoinRows
         /\ Relationships[d[2].rel].key \in Keys
         /\ data[d[1]][Relationships[d[2].rel].key] \in Seq(Entry)
         /\ Counts[d] = Count(data[d[1]][Relationships[d[2].rel].key], d[2])
         /\ Counts[d] \in Nat
  <1>1. d[1] \in Items /\ d[2] \in JoinRows
    OBVIOUS
  <1>2. Relationships[d[2].rel].key \in Keys
    BY <1>1, RelTypes
  <1>3. data[d[1]][Relationships[d[2].rel].key] \in Seq(Entry)
    BY <1>1, <1>2 DEF TypeOK
  <1>4. Counts[d] = Count(data[d[1]][Relationships[d[2].rel].key], d[2])
    BY DEF Counts
  <1> QED
    BY <1>1, <1>2, <1>3, <1>4, Counted

\* Nesting a document counts it for its row, and for no other.
LEMMA NestCounts ==
  ASSUME IInv, NEW m \in Meta, NEW c \in Contents, Nest(m, c)
  PROVE  Counts' = [Counts EXCEPT ![<<m.item, m.row>>] = @ + 1]
  <1> DEFINE e  == [row |-> m.row, pk |-> m.pk, content |-> c]
             km == Relationships[m.row.rel].key
  <1>1. /\ e \in Entry /\ km \in Keys
        /\ data'[m.item][km] = Append(data[m.item][km], e)
        /\ \A i \in Items, k \in Keys :
              ~(i = m.item /\ k = km) => data'[i][k] = data[i][k]
    BY Nested DEF IInv
  <1>2. e.row = m.row
    OBVIOUS
  <1> HIDE DEF e
  <1>3. ASSUME NEW d \in Items \X JoinRows
        PROVE  Counts'[d] = IF d = <<m.item, m.row>> THEN Counts[d] + 1 ELSE Counts[d]
    <2> DEFINE kd == Relationships[d[2].rel].key
    <2>1. /\ d[1] \in Items /\ d[2] \in JoinRows /\ kd \in Keys
          /\ data[d[1]][kd] \in Seq(Entry)
          /\ Counts[d] = Count(data[d[1]][kd], d[2])
      BY CountTypes DEF IInv
    <2>2. Counts'[d] = Count(data'[d[1]][kd], d[2])
      BY DEF Counts, Count
    <2>3. d = <<m.item, m.row>> <=> d[1] = m.item /\ d[2] = m.row
      OBVIOUS
    <2>4. CASE d[1] = m.item /\ kd = km
      <3> DEFINE D == data[d[1]][kd]
      <3>1. data'[d[1]][kd] = Append(D, e)
        BY <1>1, <2>4
      <3>2. D \in Seq(Entry) /\ Counts[d] = Count(D, d[2])
        BY <2>1
      <3> HIDE DEF D
      <3>3. Count(Append(D, e), d[2]) = IF e.row = d[2] THEN Count(D, d[2]) + 1
                                                        ELSE Count(D, d[2])
        BY <1>1, <3>2, Counted
      <3>4. Counts'[d] = IF e.row = d[2] THEN Counts[d] + 1 ELSE Counts[d]
        BY <2>2, <3>1, <3>2, <3>3
      <3> QED
        BY <1>2, <2>3, <2>4, <3>4
    <2>5. CASE ~(d[1] = m.item /\ kd = km)
      <3>1. Counts'[d] = Counts[d]
        BY <1>1, <2>1, <2>2, <2>5
      <3>2. d # <<m.item, m.row>>
        BY <2>5
      <3> QED
        BY <3>1, <3>2
    <2> QED
      BY <2>4, <2>5
  <1> QED
    BY <1>3 DEF Counts

LEMMA SameCounts ==
  ASSUME data' = data
  PROVE  Counts' = Counts
  BY DEF Counts, Count

\* Whatever is at the head of the generator is owed, and not twice.
LEMMA HeadOwed ==
  ASSUME IInv, NEW m, Takes(m), todo' = Tail(todo), tasks' = tasks
  PROVE  /\ <<m.item, m.row>> \in Owed
         /\ Owed' = Owed \ {<<m.item, m.row>>}
  <1>1. /\ m \in Meta /\ m = todo[1] /\ Len(todo) \in Nat \ {0}
        /\ ToSet(todo) = {m} \cup ToSet(todo')
        /\ todo' \in Seq(Meta) /\ Len(todo') = Len(todo) - 1
        /\ \A k \in 1..Len(todo') : todo'[k] = todo[k + 1]
    BY Taken DEF IInv, Takes
  <1>2. ASSUME NEW x \in ToSet(todo')
        PROVE  x.row # m.row
    <2>1. PICK k \in 1..Len(todo') : x = todo'[k]
      BY <1>1 DEF ToSet
    <2>2. x = todo[k + 1] /\ k + 1 \in 1..Len(todo) /\ k + 1 # 1 /\ 1 \in 1..Len(todo)
      BY <1>1, <2>1
    <2> QED
      BY <1>1, <2>2 DEF IInv, TodoInv
  <1>3. ASSUME NEW x \in tasks
        PROVE  ~(x.item = m.item /\ x.row = m.row)
    BY <1>1 DEF IInv, TaskInv
  <1> QED
    BY <1>1, <1>2, <1>3 DEF Owed

\* So is a coroutine.
LEMMA TaskOwed ==
  ASSUME IInv, NEW m \in tasks, todo' = todo, tasks' = tasks \ {m}
  PROVE  /\ <<m.item, m.row>> \in Owed
         /\ Owed' = Owed \ {<<m.item, m.row>>}
  <1>1. ASSUME NEW x \in ToSet(todo)
        PROVE  ~(x.item = m.item /\ x.row = m.row)
    <2>1. todo \in Seq(Meta)
      BY DEF IInv, TypeOK
    <2>2. PICK k \in 1..Len(todo) : x = todo[k]
      BY <2>1 DEF ToSet
    <2> QED
      BY <2>2 DEF IInv, TaskInv
  <1>2. ASSUME NEW x \in tasks \ {m}
        PROVE  ~(x.item = m.item /\ x.row = m.row)
    BY <1>2 DEF IInv, TaskInv
  <1> QED
    BY <1>1, <1>2 DEF Owed

\* The steps of JoinedResponse, in these terms.
Finds == \E x \in Items, S \in SUBSET JoinRows :
            /\ Phase = "run"
            /\ \A row \in S : Counts[<<x, row>>] = 0
            /\ Owed' = Owed \cup ({x} \X S)
            /\ Counts' = Counts /\ Phase' = Phase
Settles == \E d \in Owed, n \in 0..1 :
            /\ Phase = "run"
            /\ Owed' = Owed \ {d}
            /\ Counts' = [Counts EXCEPT ![d] = @ + n]
            /\ Phase' = Phase
Sends == /\ Phase = "run" /\ Owed = {} /\ Phase' = "sent"
         /\ Owed' = Owed /\ Counts' = Counts
Failed == Phase = "run" /\ Phase' = "failed" /\ Owed' = Owed /\ Counts' = Counts
Stutters == Owed' = Owed /\ Counts' = Counts /\ Phase' = Phase

\* A document that an answer nests, or none.
LEMMA Answered ==
  ASSUME IInv, NEW m \in Meta, Running, UNCHANGED status,
         <<m.item, m.row>> \in Owed, Owed' = Owed \ {<<m.item, m.row>>},
         data' = data \/ \E c \in Contents : Nest(m, c)
  PROVE  Settles
  <1> DEFINE d == <<m.item, m.row>>
  <1>1. d \in Items \X JoinRows
    BY MetaTypes
  <1>2. Phase = "run" /\ Phase' = Phase
    BY DEF Running, Phase
  <1>3. d \in Owed /\ Owed' = Owed \ {d} /\ 0 \in 0..1 /\ 1 \in 0..1
    OBVIOUS
  <1> HIDE DEF d
  <1>4. CASE data' = data
    <2>1. Counts' = Counts /\ Counts[d] \in Nat
      BY <1>1, <1>4, SameCounts, CountTypes DEF IInv
    <2>2. Counts \in [Items \X JoinRows -> Nat]
      <3>1. \A x \in Items \X JoinRows : Counts[x] \in Nat
        BY CountTypes DEF IInv
      <3>2. Counts = [x \in Items \X JoinRows |-> Counts[x]]
        BY DEF Counts
      <3> QED
        BY <3>1, <3>2
    <2>3. Counts' = [Counts EXCEPT ![d] = Counts[d] + 0]
      <3> DEFINE D == Items \X JoinRows
      <3>1. d \in D /\ Counts \in [D -> Nat]
        BY <1>1, <2>2
      <3> HIDE DEF D
      <3> QED
        BY <2>1, <3>1
    <2> QED
      BY <1>2, <1>3, <2>3 DEF Settles
  <1>5. ASSUME NEW c \in Contents, Nest(m, c)
        PROVE  Settles
    <2>1. Counts' = [Counts EXCEPT ![d] = Counts[d] + 1]
      BY <1>5, NestCounts DEF d
    <2> QED
      BY <1>2, <1>3, <2>1 DEF Settles
  <1> QED
    BY <1>4, <1>5

\* A query finds records that have not nested anything yet.
LEMMA ReadFinds ==
  ASSUME IInv, ReadJoins
  PROVE  Finds
  <1> DEFINE S == JoinRecords(response[at[1]], at[2])
  <1>1. /\ S \subseteq JoinRows /\ at[1] \in Items
        /\ todo' \in Seq(Meta)
        /\ \A k \in 1..Len(todo') : todo'[k].item = at[1] /\ todo'[k].row \in S
        /\ \A row \in S : \E k \in 1..Len(todo') : todo'[k].row = row
    BY ReadFacts
  <1>2. \A row \in S : row.rel = at[2]
    BY DEF JoinRecords
  <1>3. todo = <<>> /\ tasks' = tasks /\ data' = data /\ status' = status /\ Running
    BY DEF ReadJoins, AtItem
  <1> HIDE DEF S
  <1>4. ToSet(todo) = {} /\ DOMAIN todo' = 1..Len(todo')
    BY <1>1, <1>3 DEF ToSet
  <1>5. {<<m.item, m.row>> : m \in ToSet(todo')} = {at[1]} \X S
    BY <1>1, <1>4 DEF ToSet
  <1>6. Owed' = Owed \cup ({at[1]} \X S)
    BY <1>3, <1>4, <1>5 DEF Owed
  <1>7. ASSUME NEW row \in S
        PROVE  Counts[<<at[1], row>>] = 0
    <2> DEFINE docs == data[at[1]][Relationships[row.rel].key]
    <2>1. <<at[1], row>> \in Items \X JoinRows
      BY <1>1
    <2>2. docs \in Seq(Entry) /\ Counts[<<at[1], row>>] = Count(docs, row)
          /\ Relationships[row.rel].key \in Keys
      BY <2>1, CountTypes DEF IInv
    <2>3. ASSUME NEW n \in 1..Len(docs), docs[n].row = row
          PROVE  FALSE
      <3>1. Reached(at[1], row)
        BY <1>1, <2>2, <2>3 DEF IInv, NestInv
      <3>2. row.rel = at[2] /\ at[2] \in Nat /\ at[1] \in Nat
        BY <1>2, PlaceTypes, RelTypes DEF IInv
      <3> QED
        BY <3>1, <3>2 DEF Reached
    <2> HIDE DEF docs
    <2> QED
      BY <2>2, <2>3, Counted
  <1>8. Counts' = Counts /\ Phase = "run" /\ Phase' = Phase
    BY <1>3, SameCounts DEF Phase, Running
  <1> QED
    BY <1>1, <1>6, <1>7, <1>8 DEF Finds

\* Steps that end the response, or that change nothing JoinedResponse sees.
LEMMA Ends ==
  ASSUME IInv, UNCHANGED <<todo, tasks, data>>, Running
  PROVE  /\ status' \notin {"run", "ok"} => Failed
         /\ status' = "ok" /\ todo = <<>> /\ tasks = {} => Sends
         /\ status' = status => Stutters
  <1>1. Owed' = Owed /\ Counts' = Counts
    BY SameCounts DEF Owed
  <1>2. todo = <<>> /\ tasks = {} => Owed = {}
    BY DEF Owed, ToSet
  <1> QED
    BY <1>1, <1>2 DEF Failed, Sends, Stutters, Phase, Running

LEMMA HeadSettles ==
  ASSUME IInv, NEW m \in ToSet(todo),
         \/ LocalCached(m)
         \/ \E c \in Contents : LocalFound(m, c)
         \/ LocalMissing(m)
         \/ RequestCached(m)
         \/ \E c \in Contents \cup {NoDict} : RequestRecord(m, c)
  PROVE  Settles
  <1>1. Takes(m) /\ m \in Meta /\ todo' = Tail(todo) /\ tasks' = tasks
        /\ Running /\ UNCHANGED status
    BY Taken DEF IInv, Takes, LocalCached, LocalFound, LocalMissing, RequestCached,
                 RequestRecord
  <1>2. seen[Url(m)] \in Contents \cup {NoDict, Unasked}
    BY <1>1, MetaTypes DEF IInv, TypeOK
  <1>3. data' = data \/ \E c \in Contents : Nest(m, c)
    <2>1. CASE LocalCached(m)
      <3>1. seen[Url(m)] # NoDict
        BY <1>1, <2>1, MetaTypes DEF LocalCached, UsesLocal, IInv, LocalInv, Url
      <3> QED
        BY <1>2, <2>1, <3>1 DEF LocalCached, Cached
    <2>2. CASE \E c \in Contents : LocalFound(m, c)
      BY <2>2 DEF LocalFound
    <2>3. CASE LocalMissing(m)
      BY <2>3 DEF LocalMissing
    <2>4. CASE RequestCached(m)
      BY <1>2, <2>4 DEF RequestCached, NestAnswer, Cached
    <2>5. CASE \E c \in Contents \cup {NoDict} : RequestRecord(m, c)
      BY <2>5 DEF RequestRecord, NestAnswer
    <2> QED
      BY <2>1, <2>2, <2>3, <2>4, <2>5
  <1> QED
    BY <1>1, <1>3, HeadOwed, Answered

\* A coroutine is owed as much as what it is made from.
LEMMA DeferStutters ==
  ASSUME IInv, NEW m, Defer(m)
  PROVE  Stutters
  <1>1. ToSet(todo) = {m} \cup ToSet(todo')
    BY Taken DEF IInv, Takes, Defer
  <1>2. tasks' = tasks \cup {m} /\ data' = data /\ status' = status
    BY DEF Defer
  <1>3. ToSet(todo') \cup tasks' = ToSet(todo) \cup tasks
    BY <1>1, <1>2
  <1> QED
    BY <1>2, <1>3, SameCounts DEF Stutters, Owed, Phase

LEMMA StepKeepsPromise ==
  ASSUME IInv, [Next]_vars
  PROVE  Finds \/ Settles \/ Sends \/ Failed \/ Stutters
  <1>1. CASE UNCHANGED vars
    BY <1>1, SameCounts DEF vars, Stutters, Owed, Phase
  <1>2. CASE StartItem
    BY <1>2, StartKeeps, Ends DEF StartItem, AtItem
  <1>3. CASE NextItem \/ \E row \in JoinRows : WriteJoins(row)
    BY <1>3, Ends DEF NextItem, AtItem, WriteJoins
  <1>4. CASE ReadJoins
    BY <1>4, ReadFinds
  <1>5. CASE \/ ItemWithoutPk \/ ReadJoinsFails
             \/ \E m \in ToSet(todo) : \/ LocalFails(m)
                                       \/ RequestFails(m)
                                       \/ RequestWithoutClient(m)
             \/ \E m \in tasks : TaskFails(m)
    <2>1. UNCHANGED <<todo, tasks, data>> /\ Running /\ status' \notin {"run", "ok"}
      BY <1>5 DEF ItemWithoutPk, ReadJoinsFails, LocalFails, RequestFails,
                  RequestWithoutClient, TaskFails, Fails, AtItem, Takes, Gathering
    <2> QED
      BY <2>1, Ends
  <1>6. CASE Finish
    BY <1>6, Ends DEF Finish, Gathering
  <1>7. ASSUME NEW m \in tasks, NEW c \in Contents \cup {NoDict}, TaskEnds(m, c)
        PROVE  Settles
    <2>1. /\ m \in Meta /\ Running /\ UNCHANGED <<todo, status>> /\ tasks' = tasks \ {m}
          /\ data' = data \/ \E x \in Contents : Nest(m, x)
      BY <1>7 DEF IInv, TypeOK, TaskEnds, NestAnswer, Gathering
    <2> QED
      BY <2>1, TaskOwed, Answered
  <1>8. ASSUME NEW m \in ToSet(todo), Defer(m)
        PROVE  Stutters
    BY <1>8, DeferStutters
  <1> QED
    BY <1>1, <1>2, <1>3, <1>4, <1>5, <1>6, <1>7, <1>8, HeadSettles DEF Next, Progresses

\* Synchronous or asynchronous, in whatever order answers come and whatever is
\* written meanwhile, extend_data settles every join record it has found before
\* the response leaves: every step is one of JoinedResponse, or none.
THEOREM KeepsPromise == Spec => ImplementsPromise
  <1>1. Init => Promise!Init
    <2> SUFFICES ASSUME Init PROVE Promise!Init
      OBVIOUS
    <2>1. Owed = {} /\ status = "run"
      BY DEF Init, Owed, ToSet
    <2>2. Counts = [d \in Items \X JoinRows |-> 0]
      <3>1. ASSUME NEW d \in Items \X JoinRows
            PROVE  Counts[d] = 0
        <4>1. /\ d[1] \in Items /\ Relationships[d[2].rel].key \in Keys
              /\ Counts[d] = Count(data[d[1]][Relationships[d[2].rel].key], d[2])
          BY InitInv, CountTypes DEF IInv
        <4>2. data[d[1]][Relationships[d[2].rel].key] = <<>>
          BY <4>1 DEF Init
        <4>3. <<>> \in Seq(Entry) /\ \A n \in 1..Len(<<>>) : FALSE
          OBVIOUS
        <4>4. Count(<<>>, d[2]) = 0
          BY <4>3, Counted
        <4> QED
          BY <4>1, <4>2, <4>4
      <3> QED
        BY <3>1 DEF Counts
    <2> QED
      BY <2>1, <2>2 DEF Promise!Init, Owed, Counts, Count, Phase
  <1>2. IInv /\ [Next]_vars => [Promise!Next]_(Promise!vars)
    <2> SUFFICES ASSUME IInv, [Next]_vars
                 PROVE  [Promise!Next]_(Promise!vars)
      OBVIOUS
    <2>1. CASE Finds
      BY <2>1 DEF Finds, Promise!Next, Promise!Find, Owed, Counts, Count, Phase
    <2>2. CASE Settles
      BY <2>2 DEF Settles, Promise!Next, Promise!Settle, Owed, Counts, Count, Phase
    <2>3. CASE Sends
      BY <2>3 DEF Sends, Promise!Next, Promise!Send, Owed, Counts, Count, Phase
    <2>4. CASE Failed
      BY <2>4 DEF Failed, Promise!Next, Promise!Fail, Owed, Counts, Count, Phase
    <2>5. CASE Stutters
      BY <2>5 DEF Stutters, Promise!vars, Owed, Counts, Count, Phase
    <2> QED
      BY <2>1, <2>2, <2>3, <2>4, <2>5, StepKeepsPromise
  <1> QED
    BY <1>1, <1>2, Invariant, PTL DEF Spec, ImplementsPromise, Promise!Spec


-----------------------------------------------------------------------------
(* Why the join ends: its steps count a number down.                       *)

\* The places of get_related_records_meta() still to be left: the beginning of
\* an item, each of its relationships, and its end.
Places == (Len(response) + 1 - at[1]) * (Len(Relationships) + 2) - at[2]

\* A relationship is one query, then at most two steps for each record of the
\* table: it is made a coroutine, which is awaited.
Weight == 2 * Cardinality(JoinRows) + 1

Left == IF Running
        THEN 1 + Weight * Places + 2 * Len(todo) + Cardinality(tasks)
        ELSE 0

\* Every step of the join leaves it less to do, records that others write give
\* it no more, and a response that has left or failed stays as it is.
JoinAdvances ==
    [][/\ Progresses => Left' < Left
       /\ Running => \/ Left' < Left
                     \/ UNCHANGED <<fixed, at, todo, tasks, data, seen, status>>
       /\ ~Running => UNCHANGED vars]_vars

\* The work of a response of n items: it grows with the items, the relationships
\* and the records the table can hold, not with the writes of others.
WorkIsBounded ==
    Left \in 0..(1 + Weight * (Len(response) * (Len(Relationships) + 2)))

\* The constants of the count are numbers.
LEMMA WeightType ==
  /\ Len(Relationships) \in Nat /\ Cardinality(JoinRows) \in Nat
  /\ Weight \in Nat /\ Weight = 2 * Cardinality(JoinRows) + 1
  BY RelTypes, FS_CardinalityType, ConstantsAssumption DEF Weight

\* The places left are a number, one at least while there is an item.
LEMMA PlacesType ==
  ASSUME TypeOK, PlaceInv
  PROVE  /\ Places \in Nat
         /\ at[1] \in DOMAIN response => Places > 0
  <1>1. /\ Len(response) \in Nat /\ Len(Relationships) \in Nat
        /\ at[1] \in Nat /\ at[2] \in 0..(Len(Relationships) + 1)
        /\ at[1] <= Len(response) + 1
        /\ at[1] \in DOMAIN response <=> at[1] <= Len(response)
        /\ at[2] # 0 => at[1] \in DOMAIN response
    BY ResponseTypes, PlaceTypes, WeightType DEF PlaceInv
  <1> DEFINE a == Len(response) + 1 - at[1]
             b == Len(Relationships) + 2
  <1>2. a \in Nat /\ b \in Nat /\ at[2] < b
    BY <1>1
  <1>3. CASE a = 0
    BY <1>1, <1>3 DEF Places
  <1>4. CASE a # 0
    <2>1. a * b >= b /\ a * b \in Nat
      <3> HIDE DEF a, b
      <3>1. a - 1 \in Nat /\ (a - 1) * b \in Nat
        BY <1>2, <1>4
      <3>2. a * b = (a - 1) * b + b
        BY <1>2
      <3> QED
        BY <1>2, <3>1, <3>2
    <2> DEFINE ab == a * b
    <2>2. Places = ab - at[2] /\ ab >= b /\ ab \in Nat
      BY <2>1 DEF Places
    <2>3. at[2] \in Nat
      BY <1>1
    <2> HIDE DEF a, b, ab
    <2> QED
      BY <1>2, <2>2, <2>3
  <1> QED
    BY <1>3, <1>4

\* So is what is left of the join, and something is left of one that runs.
LEMMA LeftType ==
  ASSUME IInv, IsFiniteSet(tasks)
  PROVE  /\ Left \in Nat
         /\ Running => /\ Left = 1 + Weight * Places + 2 * Len(todo) + Cardinality(tasks)
                       /\ Weight * Places \in Nat /\ Len(todo) \in Nat
                       /\ Cardinality(tasks) \in Nat
  <1>1. Places \in Nat /\ Weight \in Nat
    BY PlacesType, WeightType DEF IInv
  <1>2. Len(todo) \in Nat
    BY DEF IInv, TypeOK
  <1>3. Cardinality(tasks) \in Nat
    BY FS_CardinalityType
  <1>4. Weight * Places \in Nat
    BY <1>1
  <1> QED
    BY <1>2, <1>3, <1>4 DEF Left

\* There are finitely many coroutines.
LEMMA TasksFinite ==
  ASSUME IsFiniteSet(tasks), [Next]_vars
  PROVE  IsFiniteSet(tasks')
  <1>1. \/ tasks' = tasks
        \/ \E m : tasks' = tasks \cup {m}
        \/ tasks' \subseteq tasks
    BY DEF Next, Progresses, vars, StartItem, ItemWithoutPk, ReadJoins,
       ReadJoinsFails, NextItem, LocalCached, LocalFound, LocalMissing,
       LocalFails, RequestCached, RequestRecord, RequestFails,
       RequestWithoutClient, Defer, TaskEnds, TaskFails, Finish, WriteJoins, Fails
  <1> QED
    BY <1>1, FS_AddElement, FS_Subset

\* A join that ends has nothing left.
LEMMA EndCounts ==
  ASSUME IInv, IsFiniteSet(tasks), Running, ~Running'
  PROVE  Left' < Left
  <1>1. Left' = 0
    BY DEF Left
  <1> QED
    BY <1>1, LeftType

\* Leaving a place counts more than the records found there.
LEMMA PlaceCounts ==
  ASSUME IInv, IsFiniteSet(tasks), Running, Running', todo = <<>>,
         tasks' = tasks, Places' = Places - 1,
         Len(todo') \in Nat, Len(todo') <= Cardinality(JoinRows)
  PROVE  Left' < Left
  <1>1. /\ Left = 1 + Weight * Places + 2 * Len(todo) + Cardinality(tasks)
        /\ Weight * Places \in Nat /\ Len(todo) = 0
        /\ Cardinality(tasks) \in Nat
    BY LeftType
  <1>2. Left' = 1 + Weight * (Places - 1) + 2 * Len(todo') + Cardinality(tasks)
    BY DEF Left, Weight
  <1>3. /\ Cardinality(JoinRows) \in Nat
        /\ Weight \in Nat /\ Weight = 2 * Cardinality(JoinRows) + 1
        /\ Places \in Nat
    BY PlacesType, WeightType DEF IInv
  <1>4. Weight * (Places - 1) = Weight * Places - Weight
    BY <1>3
  <1> DEFINE rest == Weight * Places
             found == Len(todo')
             open == Cardinality(tasks)
             all == Cardinality(JoinRows)
  <1>5. /\ Left = 1 + rest + open
        /\ Left' = 1 + (rest - (2 * all + 1)) + 2 * found + open
        /\ rest \in Nat /\ open \in Nat /\ found \in Nat /\ all \in Nat
        /\ found <= all
    BY <1>1, <1>2, <1>3, <1>4
  <1> HIDE DEF rest, found, open, all
  <1> QED
    BY <1>5

\* Taking a record or ending a coroutine counts.
LEMMA RecordCounts ==
  ASSUME IInv, IsFiniteSet(tasks), Running, Running',
         UNCHANGED <<response, at>>,
         \/ Len(todo') = Len(todo) - 1 /\ tasks' = tasks
         \/ Len(todo') = Len(todo) - 1 /\ \E m : tasks' = tasks \cup {m}
         \/ todo' = todo /\ \E m \in tasks : tasks' = tasks \ {m}
  PROVE  Left' < Left
  <1>1. /\ Left = 1 + Weight * Places + 2 * Len(todo) + Cardinality(tasks)
        /\ Weight * Places \in Nat /\ Len(todo) \in Nat
        /\ Cardinality(tasks) \in Nat
    BY LeftType
  <1>2. Left' = 1 + Weight * Places + 2 * Len(todo') + Cardinality(tasks')
    BY DEF Left, Weight, Places
  <1>3. \/ /\ Len(todo') = Len(todo) - 1
           /\ Cardinality(tasks') \in Nat
           /\ Cardinality(tasks') <= Cardinality(tasks) + 1
        \/ Len(todo') = Len(todo) /\ Cardinality(tasks') = Cardinality(tasks) - 1
    <2>1. CASE Len(todo') = Len(todo) - 1 /\ tasks' = tasks
      BY <1>1, <2>1
    <2>2. ASSUME NEW m, Len(todo') = Len(todo) - 1, tasks' = tasks \cup {m}
          PROVE  /\ Cardinality(tasks') \in Nat
                 /\ Cardinality(tasks') <= Cardinality(tasks) + 1
      <3>1. \/ Cardinality(tasks') = Cardinality(tasks)
            \/ Cardinality(tasks') = Cardinality(tasks) + 1
        BY <2>2, FS_AddElement
      <3> QED
        BY <1>1, <3>1
    <2>3. ASSUME NEW m \in tasks, todo' = todo, tasks' = tasks \ {m}
          PROVE  Cardinality(tasks') = Cardinality(tasks) - 1
      BY <2>3, FS_RemoveElement
    <2> QED
      BY <2>1, <2>2, <2>3
  <1> DEFINE W == Weight * Places
  <1>4. W \in Nat /\ Left = 1 + W + 2 * Len(todo) + Cardinality(tasks)
        /\ Left' = 1 + W + 2 * Len(todo') + Cardinality(tasks')
    BY <1>1, <1>2
  <1> HIDE DEF W
  <1> QED
    BY <1>1, <1>3, <1>4

\* The walk leaves one place at a time.
LEMMA WalkCounts ==
  ASSUME IInv, IsFiniteSet(tasks), StartItem \/ ReadJoins \/ NextItem
  PROVE  Left' < Left
  <1>1. /\ Len(response) \in Nat /\ Len(Relationships) \in Nat
        /\ at[1] \in Nat /\ at[2] \in Nat
    BY ResponseTypes, PlaceTypes, WeightType DEF IInv
  <1>2. /\ Running /\ Running' /\ todo = <<>> /\ tasks' = tasks
        /\ response' = response
    BY DEF StartItem, ReadJoins, NextItem, AtItem, Running, fixed
  <1>3. Places' = Places - 1
    <2>1. CASE StartItem \/ ReadJoins
      <3> DEFINE ab == (Len(response) + 1 - at[1]) * (Len(Relationships) + 2)
      <3>1. at'[1] = at[1] /\ at'[2] = at[2] + 1
        BY <2>1 DEF StartItem, ReadJoins
      <3>2. Places = ab - at[2] /\ Places' = ab - at'[2]
        BY <1>2, <3>1 DEF Places
      <3>3. ab \in Int
        BY <1>1
      <3> HIDE DEF ab
      <3> QED
        BY <1>1, <3>1, <3>2, <3>3
    <2>2. CASE NextItem
      <3> DEFINE a == Len(response) + 1 - at[1]
                 b == Len(Relationships) + 2
      <3>1. a \in Int /\ b \in Int
        BY <1>1
      <3>2. Places = a * b - (b - 1)
        BY <1>1, <2>2 DEF Places, NextItem
      <3>3. Places' = (a - 1) * b
        BY <1>1, <1>2, <2>2 DEF Places, NextItem
      <3> HIDE DEF a, b
      <3> QED
        BY <3>1, <3>2, <3>3
    <2> QED
      BY <2>1, <2>2
  <1>4. Len(todo') \in Nat /\ Len(todo') <= Cardinality(JoinRows)
    <2>1. CASE ReadJoins
      BY <2>1, ReadFacts
    <2>2. CASE StartItem \/ NextItem
      BY <1>2, <2>2, WeightType DEF StartItem, NextItem
    <2> QED
      BY <2>1, <2>2
  <1> QED
    BY <1>2, <1>3, <1>4, PlaceCounts

\* Every step of the join counts.
LEMMA ProgressCounts ==
  ASSUME IInv, IsFiniteSet(tasks), Progresses
  PROVE  Left' < Left
  <1>1. CASE StartItem \/ ReadJoins \/ NextItem
    BY <1>1, WalkCounts
  <1>2. CASE \/ ItemWithoutPk \/ ReadJoinsFails \/ Finish
             \/ \E m \in ToSet(todo) : \/ LocalFails(m)
                                       \/ RequestFails(m)
                                       \/ RequestWithoutClient(m)
             \/ \E m \in tasks : TaskFails(m)
    <2>1. Running /\ ~Running'
      BY <1>2 DEF ItemWithoutPk, ReadJoinsFails, Finish, LocalFails, RequestFails,
                  RequestWithoutClient, TaskFails, Fails, Running, AtItem, Takes,
                  Gathering
    <2> QED
      BY <2>1, EndCounts
  <1>3. ASSUME NEW m \in tasks, NEW c \in Contents \cup {NoDict}, TaskEnds(m, c)
        PROVE  Left' < Left
    <2>1. Running /\ Running' /\ UNCHANGED <<response, at, todo>> /\ tasks' = tasks \ {m}
      BY <1>3 DEF TaskEnds, Gathering, Running, fixed
    <2> QED
      BY <2>1, RecordCounts
  <1>4. ASSUME NEW m \in ToSet(todo),
               \/ LocalCached(m)
               \/ \E c \in Contents : LocalFound(m, c)
               \/ LocalMissing(m)
               \/ RequestCached(m)
               \/ \E c \in Contents \cup {NoDict} : RequestRecord(m, c)
               \/ Defer(m)
        PROVE  Left' < Left
    <2>1. /\ Takes(m) /\ Running' /\ todo' = Tail(todo) /\ UNCHANGED <<response, at>>
          /\ tasks' = tasks \/ tasks' = tasks \cup {m}
      BY <1>4 DEF Takes, LocalCached, LocalFound, LocalMissing, RequestCached,
                  RequestRecord, Defer, Running, fixed
    <2>2. Len(todo') = Len(todo) - 1 /\ Running
      BY <2>1, Taken DEF Takes, IInv
    <2> QED
      BY <2>1, <2>2, RecordCounts
  <1> QED
    BY <1>1, <1>2, <1>3, <1>4 DEF Progresses

\* A response that has left or failed is left alone.
LEMMA EndedStays ==
  ASSUME Next
  PROVE  Running
  BY DEF Next, Progresses, StartItem, ItemWithoutPk, ReadJoins, ReadJoinsFails,
         NextItem, LocalCached, LocalFound, LocalMissing, LocalFails,
         RequestCached, RequestRecord, RequestFails, RequestWithoutClient, Defer,
         TaskEnds, TaskFails, Finish, WriteJoins, AtItem, Takes, Gathering

\* The coroutines of every reachable state are finitely many.
LEMMA TasksAreFinite == Spec => [](IInv /\ IsFiniteSet(tasks))
  <1>1. Init => IsFiniteSet(tasks)
    BY FS_EmptySet DEF Init
  <1>2. IsFiniteSet(tasks) /\ [Next]_vars => IsFiniteSet(tasks)'
    BY TasksFinite
  <1> QED
    BY <1>1, <1>2, Invariant, PTL DEF Spec

\* get_related_records_meta(), extend_data and async_extend_data take a number
\* of steps that each of them counts down, whatever other workers write.
THEOREM Terminating == Spec => JoinAdvances
  <1> DEFINE A == /\ Progresses => Left' < Left
                  /\ Running => \/ Left' < Left
                                \/ UNCHANGED <<fixed, at, todo, tasks, data, seen, status>>
                  /\ ~Running => UNCHANGED vars
  <1>1. IInv /\ IsFiniteSet(tasks) /\ [Next]_vars => [A]_vars
    <2> SUFFICES ASSUME IInv, IsFiniteSet(tasks), Next PROVE A
      OBVIOUS
    <2>1. CASE Progresses
      BY <2>1, ProgressCounts, EndedStays
    <2>2. ASSUME NEW row \in JoinRows, WriteJoins(row), ~Progresses PROVE A
      BY <2>2, EndedStays DEF WriteJoins
    <2> QED
      BY <2>1, <2>2 DEF Next
  <1> HIDE DEF A
  <1>2. Spec => [][A]_vars
    BY <1>1, TasksAreFinite, PTL DEF Spec
  <1> QED
    BY <1>2 DEF A, JoinAdvances

\* The work of a response depends on its items, the relationships and the size
\* of the table.
THEOREM Bounded == Spec => []WorkIsBounded
  <1> DEFINE Most == 1 + Weight * (Len(response) * (Len(Relationships) + 2))
  <1>1. Init => Left <= Most
    <2> SUFFICES ASSUME Init PROVE Left <= Most
      OBVIOUS
    <2>1. IInv /\ IsFiniteSet(tasks) /\ Running
      BY InitInv, FS_EmptySet DEF Init, Running
    <2>2. Places = Len(response) * (Len(Relationships) + 2)
      BY <2>1, ResponseTypes, WeightType DEF Init, Places, IInv
    <2>3. Len(todo) = 0 /\ Cardinality(tasks) = 0
      BY FS_EmptySet DEF Init
    <2> QED
      BY <2>1, <2>2, <2>3, LeftType
  <1>2. IInv /\ IsFiniteSet(tasks) => Left \in Nat
    BY LeftType
  <1>3. /\ IInv /\ IsFiniteSet(tasks) /\ Left \in Nat /\ (Left \in Nat)'
        /\ Left <= Most /\ [Next]_vars
        => (Left <= Most)'
    <2> SUFFICES ASSUME IInv, IsFiniteSet(tasks), Left \in Nat, Left' \in Nat,
                        Left <= Most, [Next]_vars
                 PROVE  Left' <= Most'
      OBVIOUS
    <2>1. response' = response
      BY DEF Next, Progresses, vars, fixed, StartItem, ItemWithoutPk, ReadJoins,
         ReadJoinsFails, NextItem, LocalCached, LocalFound, LocalMissing,
         LocalFails, RequestCached, RequestRecord, RequestFails,
         RequestWithoutClient, Defer, TaskEnds, TaskFails, Finish, WriteJoins,
         Fails
    <2>2. Most' = Most /\ Most \in Int
      <3>1. Len(response) \in Nat
        BY ResponseTypes DEF IInv
      <3>2. Len(response) * (Len(Relationships) + 2) \in Nat
        BY <3>1, WeightType
      <3> QED
        BY <2>1, <3>2, WeightType DEF Weight
    <2>3. Left' = Left \/ Left' < Left
      <3>1. CASE UNCHANGED vars \/ \E row \in JoinRows : WriteJoins(row)
        BY <3>1 DEF vars, fixed, WriteJoins, Left, Places, Weight, Running
      <3>2. CASE Progresses
        BY <3>2, ProgressCounts
      <3> QED
        BY <3>1, <3>2 DEF Next
    <2> HIDE DEF Most
    <2> QED
      BY <2>2, <2>3
  <1>4. IInv /\ IsFiniteSet(tasks) /\ Left <= Most => WorkIsBounded
    BY LeftType, ResponseTypes, WeightType DEF WorkIsBounded, IInv
  <1> QED
    BY <1>1, <1>2, <1>3, <1>4, TasksAreFinite, PTL DEF Spec
=============================================================================
