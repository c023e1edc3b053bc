---------------------------- MODULE SignInProofs ----------------------------
(***************************************************************************)
(* Theorems about InitialData and SignIn, for any number of runs of the    *)
(* command, workers, accounts, users, organizations and tokens.            *)
(***************************************************************************)
EXTENDS SignIn, FiniteSetTheorems, TLAPS

-----------------------------------------------------------------------------
(* The inductive invariant: the tables and the command.                    *)

\* Keys not yet handed out are free.
Fresh ==
    /\ \A u \in UserIds : u >= nextUser => users[u] = NoRow
    /\ \A x \in OrgIds : x >= nextOrg => orgs[x] = NoRow

\* A run that is past the unique names of the roles.
Past(j) == j.stage \in {"rest", "findUser", "insertUser", "commit"}

\* What a run has inserted by which stage.
RunShape(j) ==
    /\ j.newUser => j.stage = "commit"
    /\ j.newRoles => Past(j)
    /\ j.newGroup => j.stage # "idle"
    /\ j.stage \in {"roles", "rest"} => ~j.newOrg /\ j.org = NoOrg
    /\ j.stage = "roles" => j.todo = Types /\ j.newTypes = {}
    /\ j.newOrg => settings.defaultOrg # NoName

\* Usernames are unique, a superuser's that is being inserted included.
UniqueNames ==
    /\ \A u, v \in UserIds :
          Exists(u) /\ Exists(v) /\ users[u].name = users[v].name => u = v
    /\ \A r \in Runs : run[r].newUser =>
          \A u \in UserIds : Exists(u) => users[u].name # SuperName
    /\ \A r, s \in Runs : run[r].newUser /\ run[s].newUser => r = s

NewGroups == {r \in Runs : run[r].newGroup}

\* A run has seen a global group or makes one; without overlapping runs not both.
GroupInv ==
    /\ \A r \in Runs : Running(r) => run[r].newGroup \/ admins >= 1
    /\ loaded => admins >= 1
    /\ ~shared => /\ \A r, s \in Runs : Running(r) /\ Running(s) => r = s
                  /\ \A r \in Runs : run[r].newGroup => admins = 0
                  /\ admins <= 1
    /\ admins + Cardinality(NewGroups) <= Cardinality(Runs)

\* The first run that gets past the roles makes everything, a later one nothing.
RunLoads(j) ==
    IF roles
    THEN j.newTypes = {} /\ ~j.newOrg /\ ~j.newUser /\ j.stage # "insertUser"
    ELSE /\ j.newRoles
         /\ j.org = NoOrg
         /\ j.newTypes = Types \ j.todo
         /\ j.stage # "rest" =>
               j.todo = {} /\ j.newOrg = (settings.defaultOrg # NoName)
         /\ j.stage = "insertUser" => settings.password
         /\ j.stage = "commit" => j.newUser = settings.password

Nothing ==
    /\ \A t \in Types : types[t] = 0
    /\ nextOrg = 1
    /\ nextUser = 1

Everything ==
    /\ \A t \in Types : types[t] = 1
    /\ Named(settings.defaultOrg) = IF settings.defaultOrg = NoName THEN {} ELSE {1}
    /\ Superusers = IF settings.password THEN {1} ELSE {}

\* The unique names of the roles let one run at a time make the rest.
LoadInv ==
    ~edited =>
        /\ roles = loaded
        /\ roles => Everything
        /\ ~roles => Nothing /\ \A r, s \in Runs : Past(run[r]) /\ Past(run[s]) => r = s
        /\ \A r \in Runs : Past(run[r]) => RunLoads(run[r])

DataInv ==
    /\ DataTypeOK
    /\ Fresh
    /\ \A r \in Runs : RunShape(run[r])
    /\ UniqueNames
    /\ GroupInv
    /\ LoadInv

-----------------------------------------------------------------------------
(* The inductive invariant: accounts, tokens and requests.                 *)

\* Who a request is about is the row it has read, unless the row has been
\* renamed or deleted.
KnowsUser(j) ==
    j.user # 0 =>
        /\ j.row \in Row
        /\ j.user < nextUser
        /\ \/ j.user \in renamed
           \/ users[j.user] = NoRow
           \/ users[j.user].name = j.row.name
        /\ ~edited => Exists(j.user) /\ users[j.user].super = j.row.super

\* What a request has found by which stage.
JobShape(j) ==
    /\ j.stage \in {"social", "create", "associate", "details"} =>
          j.account \in Accounts
    /\ j.stage = "social" /\ j.session => j.user # 0
    /\ j.stage \in {"associate", "details", "tokens", "enrich"} => j.user # 0
    /\ j.stage \in {"social", "create"} => loaded

\* A token's user is the request's, or the one of the token it was swapped for.
KnowsToken(j) ==
    /\ j.stage = "enrich" =>
          /\ j.token \in TokenIds /\ j.token < nextToken
          /\ tokens[j.token] # NoRow => tokens[j.token].user = j.user
    /\ j.stage = "refreshed" =>
          /\ j.token \in TokenIds /\ j.token < nextToken
          /\ j.old \in TokenIds /\ j.old < nextToken
          /\ tokens[j.token] # NoRow /\ tokens[j.old] # NoRow =>
                tokens[j.token].user = tokens[j.old].user

JobInv(j) == KnowsUser(j) /\ JobShape(j) /\ KnowsToken(j)

\* Accounts and tokens go with their users.
SignRefs ==
    /\ \A a \in Accounts : account[a] # 0 => Exists(account[a])
    /\ \A t \in TokenIds : tokens[t] # NoRow =>
          Exists(tokens[t].user) /\ t < nextToken

SignTypes ==
    /\ account \in [Accounts -> UserIds \cup {0}]
    /\ app \in BOOLEAN
    /\ tokens \in [TokenIds -> Token \cup {NoRow}]
    /\ nextToken \in 1..(MaxTokens + 1)
    /\ job \in [Workers -> Job]
    /\ renamed \subseteq UserIds

SignInv ==
    /\ SignTypes
    /\ SignRefs
    /\ \A w \in Workers : JobInv(job[w])
    /\ ClaimsNameUser

IInv == DataInv /\ SignInv

-----------------------------------------------------------------------------
(* Steps of the command that only change what its run has seen and made.   *)

\* A subset of the runs is no larger than all of them.
LEMMA RunCount ==
  ASSUME NEW S \in SUBSET Runs
  PROVE  /\ IsFiniteSet(S)
         /\ Cardinality(S) \in Nat /\ Cardinality(Runs) \in Nat
         /\ Cardinality(S) <= Cardinality(Runs)
  BY DataAssumption, FS_Subset, FS_CardinalityType

\* What a step must show about the run's new memory j.
LEMMA RunStep ==
  ASSUME DataInv, NEW r \in Runs, NEW j \in Run, RunShape(j),
         run' = [run EXCEPT ![r] = j], shared' \in BOOLEAN,
         UNCHANGED <<settings, dataTables, users, nextUser, loaded, edited>>,
         j.newUser => \/ run[r].newUser
                      \/ /\ \A s \in Runs : ~run[s].newUser
                         /\ \A u \in UserIds : Exists(u) => users[u].name # SuperName,
         j.stage # "idle" => j.newGroup \/ admins >= 1,
         j.newGroup => run[r].newGroup \/ admins = 0,
         ~shared' => /\ ~shared
                     /\ j.stage = "idle" \/ Running(r) \/ \A s \in Runs : ~Running(s),
         ~edited /\ Past(j) => RunLoads(j),
         ~edited /\ Past(j) /\ ~roles => \A s \in Runs : Past(run[s]) => s = r
  PROVE  DataInv'
  <1>1. run' \in [Runs -> Run] /\ \A s \in Runs : run'[s] = IF s = r THEN j ELSE run[s]
    BY DEF DataInv, DataTypeOK
  <1>2. /\ settings' = settings /\ admins' = admins /\ roles' = roles
        /\ types' = types /\ orgs' = orgs /\ nextOrg' = nextOrg
        /\ users' = users /\ nextUser' = nextUser /\ loaded' = loaded
        /\ edited' = edited
    BY DEF dataTables
  <1>3. DataTypeOK'
    BY <1>1, <1>2 DEF DataInv, DataTypeOK
  <1>4. Fresh'
    BY <1>2 DEF DataInv, Fresh
  <1>5. (\A s \in Runs : RunShape(run[s]))'
    BY <1>1, <1>2 DEF DataInv, RunShape, Past
  <1>6. UniqueNames'
    BY <1>1, <1>2 DEF DataInv, UniqueNames, Exists
  <1>7. GroupInv'
    <2>1. \A s \in Runs : Running(s)' => run'[s].newGroup \/ admins >= 1
      BY <1>1 DEF DataInv, GroupInv, Running
    <2>2. ~shared' => /\ \A s, t \in Runs : Running(s)' /\ Running(t)' => s = t
                      /\ \A s \in Runs : run'[s].newGroup => admins = 0
                      /\ admins <= 1
      <3> SUFFICES ASSUME ~shared'
                   PROVE  /\ \A s, t \in Runs : Running(s)' /\ Running(t)' => s = t
                          /\ \A s \in Runs : run'[s].newGroup => admins = 0
                          /\ admins <= 1
        OBVIOUS
      <3>1. ~shared
        OBVIOUS
      <3>2. \A s, t \in Runs : Running(s)' /\ Running(t)' => s = t
        BY <1>1, <3>1 DEF DataInv, GroupInv, Running
      <3>3. \A s \in Runs : run'[s].newGroup => admins = 0
        BY <1>1, <3>1 DEF DataInv, GroupInv
      <3> QED
        BY <3>1, <3>2, <3>3 DEF DataInv, GroupInv
    <2>3. admins + Cardinality(NewGroups') <= Cardinality(Runs)
      <3>1. NewGroups \in SUBSET Runs /\ NewGroups' \in SUBSET Runs
        BY DEF NewGroups
      <3>2. CASE admins = 0
        BY <3>1, <3>2, RunCount
      <3>3. CASE admins # 0
        <4>1. NewGroups' \in SUBSET NewGroups
          BY <1>1, <3>3 DEF NewGroups
        <4>2. Cardinality(NewGroups') <= Cardinality(NewGroups)
          BY <3>1, <4>1, RunCount, FS_Subset
        <4>3. admins \in Nat
          BY RunCount DEF DataInv, DataTypeOK
        <4> QED
          BY <3>1, <4>2, <4>3, RunCount DEF DataInv, GroupInv
      <3> QED
        BY <3>2, <3>3
    <2> QED
      BY <1>2, <2>1, <2>2, <2>3 DEF DataInv, GroupInv
  <1>8. LoadInv'
    <2> SUFFICES ASSUME ~edited PROVE LoadInv'
      BY <1>2 DEF LoadInv
    <2>1. (\A s \in Runs : Past(run[s]) => RunLoads(run[s]))'
      BY <1>1, <1>2 DEF DataInv, LoadInv, RunLoads, Past
    <2>2. ~roles => \A s, t \in Runs : Past(run'[s]) /\ Past(run'[t]) => s = t
      BY <1>1 DEF DataInv, LoadInv
    <2>3. (roles => Everything') /\ (~roles => Nothing')
      BY <1>2 DEF DataInv, LoadInv, Everything, Nothing, Named, Superusers, Exists
    <2>4. roles = loaded
      BY DEF DataInv, LoadInv
    <2> QED
      BY <1>2, <2>1, <2>2, <2>3, <2>4 DEF LoadInv
  <1> QED
    BY <1>3, <1>4, <1>5, <1>6, <1>7, <1>8 DEF DataInv

\* A process that ends leaves nothing.
LEMMA EndedRun ==
  ASSUME DataInv, NEW r \in Runs, RollBack(r),
         UNCHANGED <<settings, dataTables, users, nextUser, loaded, shared, edited>>
  PROVE  DataInv'
  <1>1. ASSUME NEW j \in Run, RunShape(j), ~Past(j), j.stage = "idle",
               ~j.newUser, ~j.newGroup, run' = [run EXCEPT ![r] = j]
        PROVE  DataInv'
    <2>1. shared' \in BOOLEAN /\ (~shared' => ~shared)
      BY DEF DataInv, DataTypeOK
    <2>2. UNCHANGED <<settings, dataTables, users, nextUser, loaded, edited>>
      OBVIOUS
    <2>3. /\ j.newUser => \/ run[r].newUser
                         \/ /\ \A s \in Runs : ~run[s].newUser
                            /\ \A u \in UserIds : Exists(u) => users[u].name # SuperName
          /\ j.stage # "idle" => j.newGroup \/ admins >= 1
          /\ j.newGroup => run[r].newGroup \/ admins = 0
          /\ ~shared' => /\ ~shared
                         /\ j.stage = "idle" \/ Running(r) \/ \A s \in Runs : ~Running(s)
          /\ ~edited /\ Past(j) => RunLoads(j)
          /\ ~edited /\ Past(j) /\ ~roles => \A s \in Runs : Past(run[s]) => s = r
      BY <1>1, <2>1
    <2> QED
      BY <1>1, <2>1, <2>2, <2>3, RunStep, Zenon
  <1>2. /\ NotRunning \in Run /\ RunShape(NotRunning) /\ ~Past(NotRunning)
        /\ ~NotRunning.newUser /\ ~NotRunning.newGroup
        /\ NotRunning.stage = "idle"
    BY DEF NotRunning, Run, RunShape, Past
  <1>3. run' = [run EXCEPT ![r] = NotRunning]
    BY DEF RollBack
  <1> QED
    BY <1>1, <1>2, <1>3

LEMMA FindGroupData ==
  ASSUME DataInv, NEW r \in Runs, FindGroup(r)
  PROVE  DataInv'
  <1> DEFINE j == [NotRunning EXCEPT !.stage = "roles", !.newGroup = (admins = 0),
                                     !.todo = Types]
  <1>1. /\ j \in Run /\ RunShape(j) /\ ~Past(j) /\ ~j.newUser
        /\ j.newGroup <=> admins = 0
        /\ j.stage = "roles"
    BY DEF NotRunning, Run, RunShape, Past
  <1>2. /\ run' = [run EXCEPT ![r] = j]
        /\ ~Running(r)
        /\ shared' = (shared \/ \E s \in Runs : Running(s))
        /\ UNCHANGED <<settings, dataTables, users, nextUser, loaded, edited>>
    BY DEF FindGroup
  <1>3. shared' \in BOOLEAN /\ admins \in Nat
    BY <1>2, RunCount DEF DataInv, DataTypeOK
  <1> HIDE DEF j
  <1>4. j.newGroup \/ admins >= 1
    BY <1>1, <1>3
  <1>5. ~shared' => ~shared /\ \A s \in Runs : ~Running(s)
    BY <1>2
  <1> QED
    BY <1>1, <1>2, <1>3, <1>4, <1>5, RunStep

LEMMA GetRolesData ==
  ASSUME DataInv, NEW r \in Runs, GetRoles(r)
  PROVE  DataInv'
  <1> DEFINE j == [run[r] EXCEPT !.newRoles = ~roles, !.stage = "rest"]
  <1>1. run[r] \in Run /\ RunShape(run[r]) /\ run[r].stage = "roles" /\ roles \in BOOLEAN
    BY DEF DataInv, DataTypeOK, GetRoles
  <1>2. /\ j \in Run /\ RunShape(j) /\ Past(j)
        /\ j.newUser = run[r].newUser /\ j.newGroup = run[r].newGroup
        /\ j.newRoles = ~roles /\ j.org = NoOrg /\ ~j.newOrg /\ ~j.newUser
        /\ j.newTypes = {} /\ j.todo = Types /\ j.stage = "rest"
    BY <1>1 DEF Run, RunShape, Past
  <1>3. /\ run' = [run EXCEPT ![r] = j]
        /\ roles \/ \A s \in Runs : ~run[s].newRoles
        /\ shared' = shared /\ shared \in BOOLEAN
        /\ UNCHANGED <<settings, dataTables, users, nextUser, loaded, edited>>
    BY <1>1 DEF GetRoles, Run, DataInv, DataTypeOK
  <1> HIDE DEF j
  <1>4. RunLoads(j)
    BY <1>2 DEF RunLoads
  <1>5. ~edited /\ ~roles => \A s \in Runs : ~Past(run[s])
    BY <1>3 DEF DataInv, LoadInv, RunLoads
  <1>6. Running(r) /\ (j.newGroup \/ admins >= 1)
    BY <1>1, <1>2 DEF Running, DataInv, GroupInv
  <1> QED
    BY <1>2, <1>3, <1>4, <1>5, <1>6, RunStep

\* A step within the rest of the command, with nothing left to say about others.
LEMMA RestStep ==
  ASSUME DataInv, NEW r \in Runs, NEW j \in Run, RunShape(j), Past(run[r]),
         run' = [run EXCEPT ![r] = j],
         UNCHANGED <<settings, dataTables, users, nextUser, loaded, shared, edited>>,
         j.stage # "idle", j.newGroup = run[r].newGroup, j.newUser => run[r].newUser,
         ~edited => RunLoads(j)
  PROVE  DataInv'
  <1>1. shared' = shared /\ shared \in BOOLEAN
    BY DEF DataInv, DataTypeOK
  <1>2. Running(r) /\ (j.newGroup \/ admins >= 1)
    BY DEF Past, Running, DataInv, GroupInv
  <1>3. ~edited /\ ~roles => \A s \in Runs : Past(run[s]) => s = r
    BY DEF DataInv, LoadInv
  <1>4. UNCHANGED <<settings, dataTables, users, nextUser, loaded, edited>>
    OBVIOUS
  <1>5. /\ j.newGroup => run[r].newGroup \/ admins = 0
        /\ ~shared' => /\ ~shared
                       /\ j.stage = "idle" \/ Running(r) \/ \A s \in Runs : ~Running(s)
    BY <1>1, <1>2
  <1> QED
    BY <1>1, <1>2, <1>3, <1>4, <1>5, RunStep

LEMMA GetTypeData ==
  ASSUME DataInv, NEW r \in Runs, NEW t \in Types, GetType(r, t)
  PROVE  DataInv'
  <1>1. CASE types[t] > 1
    BY <1>1, EndedRun DEF GetType
  <1>2. CASE ~(types[t] > 1)
    <2> DEFINE new == IF types[t] = 0 THEN run[r].newTypes \cup {t}
                                      ELSE run[r].newTypes
               j == [run[r] EXCEPT !.todo = run[r].todo \ {t}, !.newTypes = new]
    <2>1. run[r] \in Run /\ RunShape(run[r]) /\ run[r].stage = "rest" /\ t \in run[r].todo
      BY DEF DataInv, DataTypeOK, GetType
    <2>2. new \in SUBSET Types
      BY <2>1 DEF Run
    <2> HIDE DEF new
    <2>3. /\ j \in Run /\ j.stage = "rest" /\ j.newGroup = run[r].newGroup
          /\ j.newUser = run[r].newUser /\ j.newRoles = run[r].newRoles
          /\ j.org = run[r].org /\ j.newOrg = run[r].newOrg
          /\ j.todo = run[r].todo \ {t} /\ j.newTypes = new
      BY <2>1, <2>2 DEF Run
    <2>4. run' = [run EXCEPT ![r] = j]
      BY <1>2, <2>1 DEF GetType, Run, new
    <2> HIDE DEF j
    <2>5. RunShape(j) /\ Past(run[r])
      BY <2>1, <2>3 DEF RunShape, Past
    <2>6. ~edited => RunLoads(j)
      <3> SUFFICES ASSUME ~edited PROVE RunLoads(j)
        OBVIOUS
      <3>1. RunLoads(run[r])
        BY <2>5 DEF DataInv, LoadInv
      <3>2. CASE roles
        BY <2>3, <3>1, <3>2 DEF RunLoads, DataInv, LoadInv, Everything, new
      <3>3. CASE ~roles
        <4>1. types[t] = 0
          BY <3>3 DEF DataInv, LoadInv, Nothing
        <4>2. new = Types \ j.todo
          BY <2>1, <2>3, <3>1, <3>3, <4>1 DEF RunLoads, new, Run
        <4> QED
          BY <2>3, <3>1, <3>3, <4>2 DEF RunLoads
      <3> QED
        BY <3>2, <3>3
    <2> QED
      BY <2>3, <2>4, <2>5, <2>6, RestStep DEF GetType
  <1> QED
    BY <1>1, <1>2

LEMMA GetDefaultOrgData ==
  ASSUME DataInv, NEW r \in Runs, GetDefaultOrg(r)
  PROVE  DataInv'
  <1> DEFINE named == Named(settings.defaultOrg)
             J(x, new) == [run[r] EXCEPT !.stage = "findUser", !.org = x,
                                         !.newOrg = new]
  <1>1. /\ run[r] \in Run /\ RunShape(run[r]) /\ Past(run[r])
        /\ run[r].stage = "rest" /\ run[r].todo = {}
        /\ run[r].org = NoOrg /\ ~run[r].newOrg
    BY DEF DataInv, DataTypeOK, GetDefaultOrg, RunShape, Past
  <1>2. ASSUME NEW x \in OrgIds \cup {NoOrg}, NEW new \in BOOLEAN,
               run' = [run EXCEPT ![r] = J(x, new)],
               new => settings.defaultOrg # NoName,
               ~edited => IF roles THEN ~new
                          ELSE x = NoOrg /\ new = (settings.defaultOrg # NoName)
        PROVE  DataInv'
    <2> DEFINE j == J(x, new)
    <2>1. /\ j \in Run /\ RunShape(j) /\ j.stage = "findUser"
          /\ j.newGroup = run[r].newGroup /\ j.newUser = run[r].newUser
          /\ j.newRoles = run[r].newRoles /\ j.newTypes = run[r].newTypes
          /\ j.todo = {} /\ j.org = x /\ j.newOrg = new
      BY <1>1, <1>2 DEF Run, RunShape, Past
    <2> HIDE DEF j
    <2>2. ~edited => RunLoads(j)
      BY <1>1, <1>2, <2>1 DEF DataInv, LoadInv, RunLoads
    <2>3. run' = [run EXCEPT ![r] = j]
      BY <1>2 DEF j
    <2> QED
      BY <1>1, <2>1, <2>2, <2>3, RestStep DEF GetDefaultOrg
  <1>3. CASE settings.defaultOrg = NoName
             /\ run' = [run EXCEPT ![r].stage = "findUser"]
    <2>1. run' = [run EXCEPT ![r] = J(NoOrg, FALSE)]
      BY <1>1, <1>3 DEF Run
    <2> QED
      BY <1>2, <1>3, <2>1
  <1>4. CASE /\ settings.defaultOrg # NoName /\ named = {}
             /\ run' = [run EXCEPT ![r].stage = "findUser", ![r].newOrg = TRUE]
    <2>1. run' = [run EXCEPT ![r] = J(NoOrg, TRUE)]
      BY <1>1, <1>4 DEF Run
    <2>2. ~edited => ~roles
      BY <1>4 DEF DataInv, LoadInv, Everything
    <2> QED
      BY <1>2, <1>4, <2>1, <2>2
  <1>5. ASSUME NEW x \in OrgIds, named = {x},
               run' = [run EXCEPT ![r].stage = "findUser", ![r].org = x]
        PROVE  DataInv'
    <2>1. run' = [run EXCEPT ![r] = J(x, FALSE)]
      BY <1>1, <1>5 DEF Run
    <2>2. ~edited => roles
      <3> SUFFICES ASSUME ~edited, ~roles PROVE FALSE
        BY DEF DataInv, DataTypeOK
      <3>1. orgs[x] = NoRow
        BY DEF DataInv, LoadInv, Nothing, Fresh, OrgIds
      <3>2. orgs[x] = settings.defaultOrg
        BY <1>5 DEF Named
      <3>3. settings.defaultOrg # NoRow
        BY DataAssumption DEF DataInv, DataTypeOK
      <3> QED
        BY <3>1, <3>2, <3>3
    <2> QED
      BY <1>2, <1>5, <2>1, <2>2
  <1>6. CASE RollBack(r)
    BY <1>6, EndedRun DEF GetDefaultOrg
  <1> QED
    BY <1>3, <1>4, <1>5, <1>6 DEF GetDefaultOrg

LEMMA FindSuperuserData ==
  ASSUME DataInv, NEW r \in Runs, FindSuperuser(r)
  PROVE  DataInv'
  <1> DEFINE stage == IF settings.password /\ ~\E u \in UserIds : Exists(u) /\ users[u].super
                      THEN "insertUser" ELSE "commit"
             j == [run[r] EXCEPT !.stage = stage]
  <1>1. run[r] \in Run /\ RunShape(run[r]) /\ Past(run[r]) /\ run[r].stage = "findUser"
    BY DEF DataInv, DataTypeOK, FindSuperuser, Past
  <1>2. run' = [run EXCEPT ![r] = j]
    BY <1>1 DEF FindSuperuser
  <1>3. stage \in {"insertUser", "commit"}
    OBVIOUS
  <1>4. ~edited => stage = IF settings.password /\ ~roles THEN "insertUser" ELSE "commit"
    <2>1. ~edited /\ roles /\ settings.password => stage = "commit"
      BY DEF DataInv, LoadInv, Everything, Superusers
    <2>2. ~edited /\ ~roles => \A u \in UserIds : ~Exists(u)
      BY DEF DataInv, LoadInv, Nothing, Fresh, Exists, UserIds
    <2> QED
      BY <2>1, <2>2
  <1> HIDE DEF stage
  <1>5. /\ j \in Run /\ RunShape(j) /\ j.stage = stage /\ j.stage # "idle"
        /\ j.newGroup = run[r].newGroup /\ j.newUser = FALSE /\ ~run[r].newUser
        /\ j.newRoles = run[r].newRoles /\ j.newTypes = run[r].newTypes
        /\ j.todo = run[r].todo /\ j.org = run[r].org /\ j.newOrg = run[r].newOrg
    BY <1>1, <1>3 DEF Run, RunShape, Past
  <1> HIDE DEF j
  <1>6. ~edited => RunLoads(j)
    <2> SUFFICES ASSUME ~edited PROVE RunLoads(j)
      OBVIOUS
    <2>1. RunLoads(run[r])
      BY <1>1 DEF DataInv, LoadInv
    <2>2. settings.password \in BOOLEAN
      BY DataAssumption DEF DataInv, DataTypeOK
    <2> QED
      BY <1>1, <1>4, <1>5, <2>1, <2>2 DEF RunLoads
  <1> QED
    BY <1>1, <1>2, <1>5, <1>6, RestStep DEF FindSuperuser

LEMMA InsertSuperuserData ==
  ASSUME DataInv, NEW r \in Runs, InsertSuperuser(r)
  PROVE  DataInv'
  <1>1. CASE \E u \in UserIds : Exists(u) /\ users[u].name = SuperName
    BY <1>1, EndedRun DEF InsertSuperuser
  <1>2. CASE ~\E u \in UserIds : Exists(u) /\ users[u].name = SuperName
    <2> DEFINE j == [run[r] EXCEPT !.newUser = TRUE, !.stage = "commit"]
    <2>1. run[r] \in Run /\ RunShape(run[r]) /\ Past(run[r]) /\ run[r].stage = "insertUser"
      BY DEF DataInv, DataTypeOK, InsertSuperuser, Past
    <2>2. /\ j \in Run /\ RunShape(j) /\ j.stage = "commit" /\ Past(j)
          /\ j.newGroup = run[r].newGroup /\ j.newUser = TRUE
          /\ j.newRoles = run[r].newRoles /\ j.newTypes = run[r].newTypes
          /\ j.todo = run[r].todo /\ j.org = run[r].org /\ j.newOrg = run[r].newOrg
      BY <2>1 DEF Run, RunShape, Past
    <2>3. /\ run' = [run EXCEPT ![r] = j]
          /\ shared' = shared /\ shared \in BOOLEAN
          /\ UNCHANGED <<settings, dataTables, users, nextUser, loaded, edited>>
          /\ \A s \in Runs : ~run[s].newUser
      BY <1>2 DEF InsertSuperuser, DataInv, DataTypeOK
    <2> HIDE DEF j
    <2>4. ~edited => RunLoads(j)
      <3>1. ~edited => RunLoads(run[r])
        BY <2>1 DEF DataInv, LoadInv
      <3> QED
        BY <2>1, <2>2, <3>1 DEF RunLoads
    <2>5. Running(r) /\ (j.newGroup \/ admins >= 1)
      BY <2>1, <2>2 DEF Running, DataInv, GroupInv
    <2>6. ~edited /\ ~roles => \A s \in Runs : Past(run[s]) => s = r
      BY <2>1 DEF DataInv, LoadInv
    <2> QED
      BY <1>2, <2>2, <2>3, <2>4, <2>5, <2>6, RunStep
  <1> QED
    BY <1>1, <1>2

-----------------------------------------------------------------------------
(* Commit, in which the run's rows appear.                                 *)

\* One new group more in the table, one run less that has inserted one.
LEMMA CommitGroups ==
  ASSUME DataInv, NEW r \in Runs, run[r].stage = "commit",
         run' = [run EXCEPT ![r] = NotRunning], shared' = shared,
         admins' = IF run[r].newGroup THEN admins + 1 ELSE admins
  PROVE  GroupInv' /\ admins' \in 0..Cardinality(Runs) /\ admins' >= 1
  <1>1. /\ \A s \in Runs : run'[s] = IF s = r THEN NotRunning ELSE run[s]
        /\ ~NotRunning.newGroup /\ NotRunning.stage = "idle"
        /\ admins \in Nat /\ Running(r)
    BY RunCount DEF DataInv, DataTypeOK, NotRunning, Running
  <1>2. admins' \in Nat /\ admins' >= 1
    BY <1>1 DEF DataInv, GroupInv
  <1>3. /\ NewGroups \in SUBSET Runs /\ NewGroups' = NewGroups \ {r}
        /\ NewGroups' \in SUBSET Runs
    BY <1>1 DEF NewGroups
  <1>4. admins' + Cardinality(NewGroups') <= Cardinality(Runs)
    <2>1. IsFiniteSet(NewGroups) /\ Cardinality(NewGroups) \in Nat
          /\ Cardinality(Runs) \in Nat
      BY <1>3, RunCount
    <2>2. CASE run[r].newGroup
      <3>1. Cardinality(NewGroups') = Cardinality(NewGroups) - 1
        BY <1>3, <2>1, <2>2, FS_RemoveElement DEF NewGroups
      <3> QED
        BY <1>1, <2>1, <2>2, <3>1 DEF DataInv, GroupInv
    <2>3. CASE ~run[r].newGroup
      <3>1. NewGroups' = NewGroups
        BY <1>3, <2>3 DEF NewGroups
      <3> QED
        BY <2>3, <3>1 DEF DataInv, GroupInv
    <2> QED
      BY <2>2, <2>3
  <1>5. admins' \in 0..Cardinality(Runs)
    <2>1. Cardinality(NewGroups') \in Nat /\ Cardinality(Runs) \in Nat
      BY <1>3, RunCount
    <2> QED
      BY <1>2, <1>4, <2>1
  <1>6. \A s \in Runs : Running(s)' => run'[s].newGroup \/ admins' >= 1
    BY <1>2
  <1>7. ~shared' => /\ \A s, t \in Runs : Running(s)' /\ Running(t)' => s = t
                    /\ \A s \in Runs : run'[s].newGroup => admins' = 0
                    /\ admins' <= 1
    <2> SUFFICES ASSUME ~shared
                 PROVE  /\ \A s \in Runs : ~Running(s)' /\ ~run'[s].newGroup
                        /\ admins' <= 1
      OBVIOUS
    <2>1. \A s \in Runs : s # r => ~Running(s)
      BY <1>1 DEF DataInv, GroupInv
    <2>2. \A s \in Runs : s # r => ~run[s].newGroup
      BY <2>1 DEF DataInv, RunShape, Running
    <2>3. run[r].newGroup => admins = 0
      BY DEF DataInv, GroupInv
    <2>4. admins' <= 1
      BY <1>1, <2>3 DEF DataInv, GroupInv
    <2> QED
      BY <1>1, <2>1, <2>2, <2>4 DEF Running
  <1> QED
    BY <1>2, <1>4, <1>5, <1>6, <1>7 DEF GroupInv

\* Foreign keys refuse a superuser whose organization is gone.
CommitFails(r) ==
    run[r].newUser /\ run[r].org # NoOrg /\ orgs[run[r].org] = NoRow

SuperRow(org) == [name |-> SuperName, org |-> org, active |-> TRUE, super |-> TRUE]

\* The rows a run commits.
LEMMA CommitRows ==
  ASSUME DataInv, NEW r \in Runs, Commit(r), ~CommitFails(r)
  PROVE  LET j == run[r]
             org == IF j.newOrg THEN nextOrg ELSE j.org
         IN  /\ j \in Run /\ RunShape(j) /\ j.stage = "commit"
             /\ run' = [run EXCEPT ![r] = NotRunning]
             /\ admins' = IF j.newGroup THEN admins + 1 ELSE admins
             /\ roles' = (roles \/ j.newRoles)
             /\ types' = [t \in Types |-> IF t \in j.newTypes THEN types[t] + 1
                                                              ELSE types[t]]
             /\ \/ /\ j.newOrg /\ nextOrg \in OrgIds
                   /\ orgs' = [orgs EXCEPT ![nextOrg] = settings.defaultOrg]
                   /\ nextOrg' = nextOrg + 1
                \/ ~j.newOrg /\ orgs' = orgs /\ nextOrg' = nextOrg
             /\ \/ /\ j.newUser /\ nextUser \in UserIds
                   /\ users' = [users EXCEPT ![nextUser] = SuperRow(org)]
                   /\ nextUser' = nextUser + 1
                \/ ~j.newUser /\ users' = users /\ nextUser' = nextUser
             /\ loaded' = TRUE
             /\ settings' = settings /\ shared' = shared /\ edited' = edited
  <1>1. /\ run[r] \in Run /\ RunShape(run[r])
        /\ nextOrg \in 1..(MaxOrgs + 1) /\ nextUser \in 1..(MaxUsers + 1)
        /\ MaxOrgs \in Nat /\ MaxUsers \in Nat
    BY DataAssumption DEF DataInv, DataTypeOK
  <1>2. /\ run[r].newOrg => nextOrg \in OrgIds
        /\ run[r].newUser => nextUser \in UserIds
    BY <1>1 DEF Commit, OrgIds, UserIds
  <1> QED
    BY <1>1, <1>2 DEF Commit, CommitFails, RollBack, SuperRow

LEMMA CommitData ==
  ASSUME DataInv, NEW r \in Runs, Commit(r)
  PROVE  DataInv'
  <1>1. CASE CommitFails(r)
    <2>1. UNCHANGED <<settings, dataTables, users, nextUser, loaded, shared, edited>>
      BY <1>1 DEF Commit, CommitFails
    <2> QED
      BY <2>1, EndedRun DEF Commit
  <1>2. CASE ~CommitFails(r)
    <2> DEFINE j == run[r]
               org == IF j.newOrg THEN nextOrg ELSE j.org
    <2>1. /\ j \in Run /\ RunShape(j) /\ j.stage = "commit"
          /\ run' = [run EXCEPT ![r] = NotRunning]
          /\ admins' = IF j.newGroup THEN admins + 1 ELSE admins
          /\ roles' = (roles \/ j.newRoles)
          /\ types' = [t \in Types |-> IF t \in j.newTypes THEN types[t] + 1
                                                           ELSE types[t]]
          /\ \/ /\ j.newOrg /\ nextOrg \in OrgIds
                /\ orgs' = [orgs EXCEPT ![nextOrg] = settings.defaultOrg]
                /\ nextOrg' = nextOrg + 1
             \/ ~j.newOrg /\ orgs' = orgs /\ nextOrg' = nextOrg
          /\ \/ /\ j.newUser /\ nextUser \in UserIds
                /\ users' = [users EXCEPT ![nextUser] = SuperRow(org)]
                /\ nextUser' = nextUser + 1
             \/ ~j.newUser /\ users' = users /\ nextUser' = nextUser
          /\ loaded' = TRUE
          /\ settings' = settings /\ shared' = shared /\ edited' = edited
      BY <1>2, CommitRows
    <2>2. /\ \A s \in Runs : run'[s] = IF s = r THEN NotRunning ELSE run[s]
          /\ NotRunning \in Run /\ RunShape(NotRunning)
          /\ ~NotRunning.newUser /\ ~Past(NotRunning)
      BY <2>1 DEF DataInv, DataTypeOK, NotRunning, Run, RunShape, Past
    <2>3. GroupInv' /\ admins' \in 0..Cardinality(Runs)
      BY <2>1, CommitGroups
    <2>4. org \in OrgIds \cup {NoOrg}
      BY <2>1 DEF Run
    <2> HIDE DEF org
    <2>5. /\ SuperRow(org) \in Row /\ SuperRow(org) # NoRow
          /\ SuperRow(org).name = SuperName /\ SuperRow(org).super = TRUE
      <3>1. SuperRow(org) \in Row
        BY <2>4 DEF SuperRow, Row
      <3> QED
        BY <3>1, DataAssumption DEF SuperRow
    <2>6. DataTypeOK'
      <3>1. run' \in [Runs -> Run] /\ roles' \in BOOLEAN /\ loaded' \in BOOLEAN
            /\ shared' \in BOOLEAN /\ edited' \in BOOLEAN
            /\ settings' \in [defaultOrg : DefaultOrgs, password : Passwords]
        BY <2>1, <2>2 DEF DataInv, DataTypeOK, Run
      <3>2. types' \in [Types -> Nat]
        BY <2>1 DEF DataInv, DataTypeOK
      <3>3. orgs' \in [OrgIds -> OrgNames \cup {NoRow}] /\ nextOrg' \in 1..(MaxOrgs + 1)
        <4>1. CASE j.newOrg
          <5>1. settings.defaultOrg \in OrgNames
            BY <2>1, <4>1, DataAssumption DEF DataInv, DataTypeOK, RunShape
          <5>2. /\ orgs' = [orgs EXCEPT ![nextOrg] = settings.defaultOrg]
                /\ nextOrg' = nextOrg + 1 /\ nextOrg \in 1..MaxOrgs
            BY <2>1, <4>1 DEF OrgIds
          <5>3. orgs \in [OrgIds -> OrgNames \cup {NoRow}]
            BY DEF DataInv, DataTypeOK
          <5>4. nextOrg' \in 1..(MaxOrgs + 1)
            BY <5>2, DataAssumption
          <5> QED
            BY <5>1, <5>2, <5>3, <5>4
        <4>2. CASE ~j.newOrg
          BY <2>1, <4>2 DEF DataInv, DataTypeOK
        <4> QED
          BY <4>1, <4>2
      <3>4. users' \in [UserIds -> Row \cup {NoRow}] /\ nextUser' \in 1..(MaxUsers + 1)
        <4>1. CASE j.newUser
          <5>1. users' \in [UserIds -> Row \cup {NoRow}]
            BY <2>1, <2>5, <4>1 DEF DataInv, DataTypeOK
          <5> QED
            BY <2>1, <4>1, <5>1, DataAssumption DEF UserIds
        <4>2. CASE ~j.newUser
          BY <2>1, <4>2 DEF DataInv, DataTypeOK
        <4> QED
          BY <4>1, <4>2
      <3> QED
        BY <2>3, <3>1, <3>2, <3>3, <3>4 DEF DataTypeOK
    <2>7. Fresh'
      <3>1. /\ nextOrg \in Nat /\ nextUser \in Nat /\ OrgIds \subseteq Nat /\ UserIds \subseteq Nat
            /\ users \in [UserIds -> Row \cup {NoRow}] /\ orgs \in [OrgIds -> OrgNames \cup {NoRow}]
        BY DataAssumption DEF DataInv, DataTypeOK, OrgIds, UserIds
      <3>2. /\ \A x \in OrgIds : x >= nextOrg => orgs[x] = NoRow
            /\ \A u \in UserIds : u >= nextUser => users[u] = NoRow
        BY DEF DataInv, Fresh
      <3>3. \/ /\ orgs' = [orgs EXCEPT ![nextOrg] = settings.defaultOrg]
               /\ nextOrg' = nextOrg + 1
            \/ orgs' = orgs /\ nextOrg' = nextOrg
        BY <2>1
      <3>4. \/ /\ users' = [users EXCEPT ![nextUser] = SuperRow(org)]
               /\ nextUser' = nextUser + 1
            \/ users' = users /\ nextUser' = nextUser
        BY <2>1
      <3>5. \A x \in OrgIds : x >= nextOrg' => orgs'[x] = NoRow
        BY <3>1, <3>2, <3>3
      <3>6. \A u \in UserIds : u >= nextUser' => users'[u] = NoRow
        BY <3>1, <3>2, <3>4
      <3> QED
        BY <3>5, <3>6 DEF Fresh
    <2>8. (\A s \in Runs : RunShape(run[s]))'
      BY <2>1, <2>2 DEF DataInv, RunShape, Past
    <2>9. UniqueNames'
      <3>1. CASE j.newUser
        <4>1. \A u \in UserIds : users'[u] = IF u = nextUser THEN SuperRow(org) ELSE users[u]
          BY <2>1, <3>1 DEF DataInv, DataTypeOK
        <4>2. \A u \in UserIds : Exists(u) => users[u].name # SuperName
          BY <3>1 DEF DataInv, UniqueNames
        <4>3. \A s \in Runs : ~run'[s].newUser
          BY <2>2, <3>1 DEF DataInv, UniqueNames
        <4> QED
          BY <2>5, <4>1, <4>2, <4>3 DEF DataInv, UniqueNames, Exists
      <3>2. CASE ~j.newUser
        BY <2>1, <2>2, <3>2 DEF DataInv, UniqueNames, Exists
      <3> QED
        BY <3>1, <3>2
    <2>10. LoadInv'
      <3> SUFFICES ASSUME ~edited PROVE LoadInv'
        BY <2>1 DEF LoadInv
      <3>1. RunLoads(j) /\ Past(j)
        BY <2>1 DEF DataInv, LoadInv, Past
      <3>2. roles'
        BY <2>1, <3>1 DEF RunLoads
      <3>3. Everything'
        <4>1. CASE roles
          <5>1. types' = types /\ orgs' = orgs /\ users' = users
            BY <2>1, <3>1, <4>1 DEF RunLoads, DataInv, DataTypeOK
          <5> QED
            BY <2>1, <4>1, <5>1
            DEF DataInv, LoadInv, Everything, Named, Superusers, Exists
        <4>2. CASE ~roles
          <5>1. /\ j.newTypes = Types /\ j.newUser = settings.password
                /\ j.newOrg = (settings.defaultOrg # NoName)
                /\ nextOrg = 1 /\ nextUser = 1 /\ \A t \in Types : types[t] = 0
            BY <2>1, <3>1, <4>2 DEF RunLoads, DataInv, LoadInv, Nothing
          <5>2. \A t \in Types : types'[t] = 1
            BY <2>1, <5>1
          <5>3. /\ \A x \in OrgIds : orgs[x] = NoRow
                /\ \A u \in UserIds : users[u] = NoRow
            BY <5>1 DEF DataInv, Fresh, OrgIds, UserIds
          <5>4. Named(settings.defaultOrg)'
                   = IF settings.defaultOrg = NoName THEN {} ELSE {1}
            <6>1. settings.defaultOrg # NoRow
              BY DataAssumption DEF DataInv, DataTypeOK
            <6>2. CASE j.newOrg
              <7>1. \A x \in OrgIds : orgs'[x] = IF x = 1 THEN settings.defaultOrg ELSE NoRow
                BY <2>1, <5>1, <5>3, <6>2 DEF DataInv, DataTypeOK
              <7>2. 1 \in OrgIds
                BY <2>1, <5>1, <6>2
              <7> QED
                BY <2>1, <5>1, <6>1, <6>2, <7>1, <7>2 DEF Named
            <6>3. CASE ~j.newOrg
              BY <2>1, <5>1, <5>3, <6>1, <6>3 DEF Named
            <6> QED
              BY <6>2, <6>3
          <5>5. Superusers' = IF settings.password THEN {1} ELSE {}
            <6>1. CASE j.newUser
              <7>1. \A u \in UserIds : users'[u] = IF u = 1 THEN SuperRow(org) ELSE NoRow
                BY <2>1, <5>1, <5>3, <6>1 DEF DataInv, DataTypeOK
              <7>2. 1 \in UserIds
                BY <2>1, <5>1, <6>1
              <7> QED
                BY <2>5, <5>1, <6>1, <7>1, <7>2 DEF Superusers, Exists
            <6>2. CASE ~j.newUser
              BY <2>1, <5>1, <5>3, <6>2 DEF Superusers, Exists
            <6> QED
              BY <6>1, <6>2
          <5> QED
            BY <2>1, <5>2, <5>4, <5>5 DEF Everything
        <4> QED
          BY <4>1, <4>2
      <3>4. (\A s \in Runs : Past(run[s]) => RunLoads(run[s]))'
        <4>1. CASE roles
          BY <2>1, <2>2, <3>2, <4>1 DEF DataInv, LoadInv, RunLoads, Past
        <4>2. CASE ~roles
          <5>1. \A s \in Runs : s # r => ~Past(run[s])
            BY <3>1, <4>2 DEF DataInv, LoadInv
          <5> QED
            BY <2>2, <5>1 DEF Past
        <4> QED
          BY <4>1, <4>2
      <3> QED
        BY <2>1, <3>2, <3>3, <3>4 DEF LoadInv
    <2> QED
      BY <2>3, <2>6, <2>7, <2>8, <2>9, <2>10 DEF DataInv
  <1> QED
    BY <1>1, <1>2

-----------------------------------------------------------------------------
(* Administrators' edits, and the rows of users.                           *)

\* Once rows have been edited nothing is claimed of what the command leaves.
LEMMA EditData ==
  ASSUME DataInv, Edit
  PROVE  DataInv'
  <1>1. /\ edited' = TRUE /\ settings' = settings /\ admins' = admins
        /\ roles' = roles /\ nextUser' = nextUser /\ run' = run
        /\ loaded' = loaded /\ shared' = shared
    BY DEF Edit, PostOrg, DeleteOrg, PostType
  <1>2. /\ nextOrg \in 1..(MaxOrgs + 1) /\ MaxOrgs \in Nat
        /\ orgs \in [OrgIds -> OrgNames \cup {NoRow}]
        /\ users \in [UserIds -> Row \cup {NoRow}]
        /\ types \in [Types -> Nat]
    BY DataAssumption DEF DataInv, DataTypeOK
  <1>3. /\ types' \in [Types -> Nat]
        /\ orgs' \in [OrgIds -> OrgNames \cup {NoRow}]
        /\ nextOrg' \in 1..(MaxOrgs + 1)
        /\ \A x \in OrgIds : x >= nextOrg' => orgs'[x] = NoRow
    <2>1. ASSUME NEW n \in OrgNames, PostOrg(n)
          PROVE  /\ types' = types
                 /\ orgs' \in [OrgIds -> OrgNames \cup {NoRow}]
                 /\ nextOrg' \in 1..(MaxOrgs + 1)
                 /\ \A x \in OrgIds : x >= nextOrg' => orgs'[x] = NoRow
      BY <1>2, <2>1 DEF PostOrg, DataInv, Fresh, OrgIds
    <2>2. ASSUME NEW x \in OrgIds, DeleteOrg(x)
          PROVE  /\ types' = types /\ nextOrg' = nextOrg
                 /\ orgs' \in [OrgIds -> OrgNames \cup {NoRow}]
                 /\ \A y \in OrgIds : y >= nextOrg' => orgs'[y] = NoRow
      BY <1>2, <2>2 DEF DeleteOrg, DataInv, Fresh
    <2>3. ASSUME NEW t \in Types, PostType(t)
          PROVE  types' \in [Types -> Nat] /\ orgs' = orgs /\ nextOrg' = nextOrg
      BY <1>2, <2>3 DEF PostType
    <2> QED
      BY <1>2, <2>1, <2>2, <2>3 DEF Edit, DataInv, Fresh
  <1>4. /\ users' \in [UserIds -> Row \cup {NoRow}]
        /\ \A u \in UserIds : users'[u] \in {users[u], NoRow}
    BY <1>2 DEF Edit, PostOrg, DeleteOrg, PostType
  <1>5. DataTypeOK'
    BY <1>1, <1>3, <1>4 DEF DataInv, DataTypeOK
  <1>6. Fresh'
    BY <1>1, <1>3, <1>4 DEF DataInv, Fresh
  <1>7. (\A s \in Runs : RunShape(run[s]))'
    BY <1>1 DEF DataInv, RunShape, Past
  <1>8. UniqueNames'
    BY <1>1, <1>4 DEF DataInv, UniqueNames, Exists
  <1>9. GroupInv'
    BY <1>1 DEF DataInv, GroupInv, Running, NewGroups
  <1>10. LoadInv'
    BY <1>1 DEF LoadInv
  <1> QED
    BY <1>5, <1>6, <1>7, <1>8, <1>9, <1>10 DEF DataInv

\* A user who is written, or inserted, with a free name; before any edit, only
\* after the command and as the superuser he is or is not.
LEMMA UserData ==
  ASSUME DataInv, NEW u \in UserIds, NEW row \in Row,
         users' = [users EXCEPT ![u] = row],
         nextUser' \in 1..(MaxUsers + 1), nextUser <= nextUser', u < nextUser',
         \A v \in UserIds \ {u} : Exists(v) => users[v].name # row.name,
         row.name = SuperName => \A r \in Runs : ~run[r].newUser,
         ~edited => loaded /\ (row.super <=> Exists(u) /\ users[u].super),
         UNCHANGED <<settings, dataTables, run, loaded, shared, edited>>
  PROVE  DataInv'
  <1>1. /\ settings' = settings /\ admins' = admins /\ roles' = roles
        /\ types' = types /\ orgs' = orgs /\ nextOrg' = nextOrg /\ run' = run
        /\ loaded' = loaded /\ shared' = shared /\ edited' = edited
    BY DEF dataTables
  <1>2. /\ users \in [UserIds -> Row \cup {NoRow}]
        /\ \A v \in UserIds : users'[v] = IF v = u THEN row ELSE users[v]
        /\ row # NoRow /\ u # 0
    BY DataAssumption DEF DataInv, DataTypeOK, UserIds
  <1>3. DataTypeOK'
    BY <1>1, <1>2 DEF DataInv, DataTypeOK
  <1>4. Fresh'
    BY <1>1, <1>2, DataAssumption DEF DataInv, DataTypeOK, Fresh, UserIds
  <1>5. (\A s \in Runs : RunShape(run[s]))'
    BY <1>1 DEF DataInv, RunShape, Past
  <1>6. UniqueNames'
    <2>1. \A v, x \in UserIds :
             Exists(v)' /\ Exists(x)' /\ users'[v].name = users'[x].name => v = x
      BY <1>2 DEF DataInv, UniqueNames, Exists
    <2>2. \A s \in Runs : run[s].newUser =>
             \A v \in UserIds : Exists(v)' => users'[v].name # SuperName
      BY <1>2 DEF DataInv, UniqueNames, Exists
    <2> QED
      BY <1>1, <2>1, <2>2 DEF DataInv, UniqueNames
  <1>7. GroupInv'
    BY <1>1 DEF DataInv, GroupInv, Running, NewGroups
  <1>8. LoadInv'
    <2> SUFFICES ASSUME ~edited PROVE LoadInv'
      BY <1>1 DEF LoadInv
    <2>1. roles /\ loaded
      BY DEF DataInv, LoadInv
    <2>2. Superusers' = Superusers
      BY <1>2 DEF Superusers, Exists
    <2>3. Everything'
      BY <1>1, <2>1, <2>2 DEF DataInv, LoadInv, Everything, Named
    <2>4. (\A s \in Runs : Past(run[s]) => RunLoads(run[s]))'
      BY <1>1, <2>1 DEF DataInv, LoadInv, RunLoads, Past
    <2> QED
      BY <1>1, <2>1, <2>3, <2>4 DEF LoadInv
  <1> QED
    BY <1>3, <1>4, <1>5, <1>6, <1>7, <1>8 DEF DataInv

\* Every step of the command.
LEMMA CommandData ==
  ASSUME DataInv, NEW r \in Runs, Command(r)
  PROVE  DataInv'
  <1>1. CASE Killed(r)
    BY <1>1, EndedRun DEF Killed
  <1> QED
    BY <1>1, FindGroupData, GetRolesData, GetTypeData, GetDefaultOrgData,
       FindSuperuserData, InsertSuperuserData, CommitData DEF Command

LEMMA SameData == DataInv /\ UNCHANGED dataVars => DataInv'
  BY DEF dataVars, dataTables, DataInv, DataTypeOK, Fresh, RunShape, Past,
         UniqueNames, Exists, GroupInv, Running, NewGroups, LoadInv, RunLoads,
         Everything, Nothing, Named, Superusers

LEMMA InitDataInv == InitData => DataInv
  <1> SUFFICES ASSUME InitData PROVE DataInv
    OBVIOUS
  <1>1. NewGroups = {} /\ Cardinality({}) = 0 /\ Cardinality(Runs) \in Nat
    BY RunCount, FS_EmptySet DEF InitData, NewGroups, NotRunning
  <1>2. DataTypeOK
    <2>1. NotRunning \in Run
      BY DEF NotRunning, Run
    <2>2. 1 \in 1..(MaxOrgs + 1) /\ 1 \in 1..(MaxUsers + 1)
      BY DataAssumption
    <2>3. admins \in 0..Cardinality(Runs)
      BY <1>1 DEF InitData
    <2> QED
      BY <2>1, <2>2, <2>3 DEF InitData, DataTypeOK
  <1>3. GroupInv
    BY <1>1 DEF InitData, GroupInv, Running, NotRunning
  <1>4. Fresh /\ UniqueNames /\ \A r \in Runs : RunShape(run[r])
    BY DEF InitData, Fresh, UniqueNames, Exists, RunShape, NotRunning
  <1>5. LoadInv
    BY DEF InitData, LoadInv, Nothing, Past, NotRunning
  <1> QED
    BY <1>2, <1>3, <1>4, <1>5 DEF DataInv

-----------------------------------------------------------------------------
(* What other requests' memory relies on.                                  *)

\* A step that renames nobody silently, brings nobody back and gives a token
\* to nobody else.
Kept ==
    /\ renamed \subseteq renamed'
    /\ nextUser <= nextUser' /\ nextToken <= nextToken'
    /\ loaded => loaded'
    /\ edited => edited'
    /\ \A u \in UserIds : u < nextUser =>
          \/ u \in renamed'
          \/ users'[u] = NoRow
          \/ users[u] # NoRow /\ users'[u].name = users[u].name
    /\ \A u \in UserIds : ~edited' /\ Exists(u) =>
          Exists(u)' /\ users'[u].super = users[u].super
    /\ \A t \in TokenIds : t < nextToken /\ tokens'[t] # NoRow =>
          tokens[t] # NoRow /\ tokens'[t].user = tokens[t].user

LEMMA JobKept ==
  ASSUME DataInv, SignTypes, Kept, NEW j \in Job, JobInv(j),
         nextUser' \in Nat, nextToken' \in Nat
  PROVE  JobInv(j)'
  <1>1. nextUser \in Nat /\ nextToken \in Nat /\ j.user \in UserIds \cup {0}
        /\ UserIds \subseteq Nat /\ TokenIds \subseteq Nat /\ 0 \notin UserIds
    BY DataAssumption, SignInAssumption
    DEF DataInv, DataTypeOK, SignTypes, Job, UserIds, TokenIds
  <1>2. KnowsUser(j)'
    <2> SUFFICES ASSUME j.user # 0 PROVE KnowsUser(j)'
      BY DEF KnowsUser
    <2>1. /\ j.row \in Row /\ j.user < nextUser /\ j.user \in UserIds
          /\ \/ j.user \in renamed
             \/ users[j.user] = NoRow
             \/ users[j.user].name = j.row.name
          /\ ~edited => Exists(j.user) /\ users[j.user].super = j.row.super
      BY <1>1 DEF JobInv, KnowsUser
    <2>2. j.user < nextUser'
      <3>1. j.user \in Nat /\ nextUser <= nextUser'
        BY <1>1, <2>1 DEF Kept
      <3> QED
        BY <1>1, <2>1, <3>1
    <2>3. \/ j.user \in renamed'
          \/ users'[j.user] = NoRow
          \/ users'[j.user].name = j.row.name
      <3>1. \/ j.user \in renamed'
            \/ users'[j.user] = NoRow
            \/ users[j.user] # NoRow /\ users'[j.user].name = users[j.user].name
        BY <2>1 DEF Kept
      <3>2. j.user \in renamed => j.user \in renamed'
        BY DEF Kept
      <3> QED
        BY <2>1, <3>1, <3>2
    <2>4. ~edited' => Exists(j.user)' /\ users'[j.user].super = j.row.super
      BY <2>1 DEF Kept
    <2> QED
      BY <2>1, <2>2, <2>3, <2>4 DEF KnowsUser
  <1>3. JobShape(j)'
    BY DEF JobInv, JobShape, Kept
  <1>4. KnowsToken(j)'
    <2>0. \A t \in TokenIds : t < nextToken =>
             /\ t < nextToken'
             /\ tokens'[t] # NoRow =>
                   tokens[t] # NoRow /\ tokens'[t].user = tokens[t].user
      BY <1>1 DEF Kept
    <2>1. ASSUME j.stage = "enrich"
          PROVE  /\ j.token \in TokenIds /\ j.token < nextToken'
                 /\ tokens'[j.token] # NoRow => tokens'[j.token].user = j.user
      BY <2>0, <2>1 DEF JobInv, KnowsToken
    <2>2. ASSUME j.stage = "refreshed"
          PROVE  /\ j.token \in TokenIds /\ j.token < nextToken'
                 /\ j.old \in TokenIds /\ j.old < nextToken'
                 /\ tokens'[j.token] # NoRow /\ tokens'[j.old] # NoRow =>
                       tokens'[j.token].user = tokens'[j.old].user
      BY <2>0, <2>2 DEF JobInv, KnowsToken
    <2> QED
      BY <2>1, <2>2 DEF KnowsToken
  <1> QED
    BY <1>2, <1>3, <1>4 DEF JobInv

\* The other requests' part of a step that moves one request on.
LEMMA SignStep ==
  ASSUME DataInv, SignInv, Kept, NEW w \in Workers, NEW j \in Job,
         job' = [job EXCEPT ![w] = j], JobInv(j)',
         nextUser' \in Nat,
         account' \in [Accounts -> UserIds \cup {0}], app' \in BOOLEAN,
         tokens' \in [TokenIds -> Token \cup {NoRow}],
         nextToken' \in 1..(MaxTokens + 1), renamed' \subseteq UserIds,
         SignRefs', ClaimsNameUser'
  PROVE  SignInv'
  <1>1. /\ job' \in [Workers -> Job]
        /\ \A v \in Workers : job'[v] = IF v = w THEN j ELSE job[v]
        /\ \A v \in Workers : job[v] \in Job /\ JobInv(job[v])
    BY DEF SignInv, SignTypes
  <1>2. nextToken' \in Nat
    BY SignInAssumption
  <1>3. \A k \in Job : JobInv(k) => JobInv(k)'
    BY <1>2, JobKept DEF SignInv
  <1>4. (\A v \in Workers : JobInv(job[v]))'
    <2> SUFFICES ASSUME NEW v \in Workers PROVE JobInv(job[v])'
      OBVIOUS
    <2>1. CASE v = w
      <3>1. job'[v] = j
        BY <1>1, <2>1
      <3> QED
        BY <3>1 DEF JobInv, KnowsUser, JobShape, KnowsToken
    <2>2. CASE v # w
      <3>1. job'[v] = job[v] /\ job[v] \in Job /\ JobInv(job[v])
        BY <1>1, <2>2
      <3>2. PICK k \in Job : k = job[v] /\ k = job'[v]
        BY <3>1
      <3>3. JobInv(k)'
        BY <1>3, <3>1, <3>2
      <3> QED
        BY <3>2, <3>3 DEF JobInv, KnowsUser, JobShape, KnowsToken
    <2> QED
      BY <2>1, <2>2
  <1> QED
    BY <1>1, <1>4 DEF SignInv, SignTypes

\* The same for a step of somebody else.
LEMMA SignSame ==
  ASSUME DataInv, SignInv, Kept, job' = job, nextUser' \in Nat,
         account' \in [Accounts -> UserIds \cup {0}], app' \in BOOLEAN,
         tokens' \in [TokenIds -> Token \cup {NoRow}],
         nextToken' \in 1..(MaxTokens + 1), renamed' \subseteq UserIds,
         SignRefs', ClaimsNameUser'
  PROVE  SignInv'
  <1>1. job \in [Workers -> Job] /\ \A v \in Workers : JobInv(job[v])
    BY DEF SignInv, SignTypes
  <1>2. nextToken' \in Nat
    BY SignInAssumption
  <1>3. \A k \in Job : JobInv(k) => JobInv(k)'
    BY <1>2, JobKept DEF SignInv
  <1>4. (\A v \in Workers : JobInv(job[v]))'
    <2> SUFFICES ASSUME NEW v \in Workers PROVE JobInv(job[v])'
      OBVIOUS
    <2>1. PICK k \in Job : k = job[v] /\ k = job'[v] /\ JobInv(k)
      BY <1>1
    <2>2. JobInv(k)'
      BY <1>3, <2>1
    <2> QED
      BY <2>1, <2>2 DEF JobInv, KnowsUser, JobShape, KnowsToken
  <1> QED
    BY <1>1, <1>4 DEF SignInv, SignTypes

-----------------------------------------------------------------------------
(* Requests that leave the tables as they are.                             *)

\* Facts about types that many steps use.
LEMMA SignBasics ==
  ASSUME DataInv, SignInv
  PROVE  /\ nextUser \in Nat /\ nextToken \in Nat
         /\ UserIds \subseteq Nat /\ TokenIds \subseteq Nat
         /\ 0 \notin UserIds /\ 0 \notin TokenIds
         /\ nextUser \in 1..(MaxUsers + 1) /\ nextToken \in 1..(MaxTokens + 1)
         /\ MaxUsers \in Nat /\ MaxTokens \in Nat
         /\ users \in [UserIds -> Row \cup {NoRow}]
         /\ tokens \in [TokenIds -> Token \cup {NoRow}]
         /\ account \in [Accounts -> UserIds \cup {0}]
         /\ job \in [Workers -> Job] /\ app \in BOOLEAN /\ renamed \subseteq UserIds
         /\ \A u \in UserIds : Exists(u) => users[u] \in Row /\ u < nextUser
  <1>1. \A u \in UserIds : Exists(u) => users[u] \in Row /\ u < nextUser
    BY DataAssumption DEF DataInv, DataTypeOK, Fresh, Exists, UserIds
  <1>2. /\ nextUser \in 1..(MaxUsers + 1) /\ nextToken \in 1..(MaxTokens + 1)
        /\ MaxUsers \in Nat /\ MaxTokens \in Nat
    BY DataAssumption, SignInAssumption DEF DataInv, DataTypeOK, SignInv, SignTypes
  <1>3. /\ nextUser \in Nat /\ nextToken \in Nat
        /\ UserIds \subseteq Nat /\ TokenIds \subseteq Nat
        /\ 0 \notin UserIds /\ 0 \notin TokenIds
    BY <1>2 DEF UserIds, TokenIds
  <1> QED
    BY <1>1, <1>2, <1>3 DEF DataInv, DataTypeOK, SignInv, SignTypes

\* Only the request moves on.
LEMMA JobOnly ==
  ASSUME DataInv, SignInv, NEW w \in Workers, NEW j \in Job, JobInv(j),
         job' = [job EXCEPT ![w] = j],
         UNCHANGED <<dataVars, account, app, tokens, nextToken, renamed>>
  PROVE  SignInv'
  <1>1. /\ users' = users /\ nextUser' = nextUser /\ loaded' = loaded
        /\ edited' = edited /\ account' = account /\ app' = app
        /\ tokens' = tokens /\ nextToken' = nextToken /\ renamed' = renamed
    BY DEF dataVars
  <1>2. Kept
    BY <1>1, SignBasics DEF Kept, Exists
  <1>3. SignRefs' /\ ClaimsNameUser'
    BY <1>1 DEF SignInv, SignRefs, ClaimsNameUser, Exists
  <1>4. JobInv(j)'
    BY <1>1 DEF JobInv, KnowsUser, JobShape, KnowsToken, Exists
  <1> QED
    BY <1>1, <1>2, <1>3, <1>4, SignBasics, SignStep

LEMMA NoJobInv == NoJob \in Job /\ JobInv(NoJob) /\ NoJob.user = 0 /\ NoJob.stage = "idle"
  BY DEF NoJob, Job, JobInv, KnowsUser, JobShape, KnowsToken

\* A request that ends without an answer.
LEMMA FailStep ==
  ASSUME DataInv, SignInv, NEW w \in Workers, Fail(w),
         UNCHANGED <<dataVars, account, app, tokens, nextToken, renamed>>
  PROVE  SignInv'
  BY NoJobInv, JobOnly DEF Fail

\* A row that is there is what the request then knows.
LEMMA LoadedJob ==
  ASSUME DataInv, SignInv, NEW j \in Job, NEW u \in UserIds, Exists(u),
         j.account \in Accounts
  PROVE  LET k == [j EXCEPT !.user = u, !.row = users[u], !.stage = "associate"]
         IN  k \in Job /\ JobInv(k)
  <1> DEFINE k == [j EXCEPT !.user = u, !.row = users[u], !.stage = "associate"]
  <1>1. users[u] \in Row /\ u < nextUser /\ u # 0
    BY SignBasics
  <1>2. /\ k \in Job /\ k.user = u /\ k.row = users[u] /\ k.stage = "associate"
        /\ k.account = j.account
    BY <1>1 DEF Job
  <1> HIDE DEF k
  <1>3. JobInv(k)
    BY <1>1, <1>2 DEF JobInv, KnowsUser, JobShape, KnowsToken
  <1> QED
    BY <1>2, <1>3 DEF k

LEMMA OAuthCompleteStep ==
  ASSUME DataInv, SignInv, NEW w \in Workers, NEW a \in Accounts,
         NEW u \in {0} \cup UserIds, OAuthComplete(w, a, u)
  PROVE  SignInv'
  <1> DEFINE row == IF u = 0 THEN NoRow ELSE users[u]
             j == [NoJob EXCEPT !.stage = "social", !.account = a,
                                !.session = (u # 0), !.user = u, !.row = row]
  <1>1. u # 0 => Exists(u) /\ row \in Row /\ u < nextUser /\ row = users[u]
    BY SignBasics DEF OAuthComplete
  <1>2. row \in Row \cup {NoRow}
    BY <1>1
  <1> HIDE DEF row
  <1>3. /\ j \in Job /\ j.user = u /\ j.row = row /\ j.stage = "social"
        /\ j.account = a /\ (j.session => u # 0)
    BY <1>2 DEF NoJob, Job
  <1>4. job' = [job EXCEPT ![w] = j] /\ loaded
    BY DEF OAuthComplete, row
  <1> HIDE DEF j
  <1>5. JobInv(j)
    BY <1>1, <1>3, <1>4 DEF JobInv, KnowsUser, JobShape, KnowsToken
  <1> QED
    BY <1>3, <1>4, <1>5, JobOnly DEF OAuthComplete

LEMMA SocialUserStep ==
  ASSUME DataInv, SignInv, NEW w \in Workers, SocialUser(w)
  PROVE  SignInv'
  <1>1. job[w] \in Job /\ JobInv(job[w]) /\ job[w].stage = "social"
        /\ job[w].account \in Accounts /\ loaded
    BY SignBasics DEF SocialUser, SignInv, JobInv, JobShape
  <1> DEFINE u == account[job[w].account]
  <1>2. u # 0 => u \in UserIds /\ Exists(u)
    BY <1>1, SignBasics DEF SignInv, SignRefs
  <1>3. CASE u = 0
    <2> DEFINE stage == IF job[w].session THEN "associate" ELSE "create"
               j == [job[w] EXCEPT !.stage = stage]
    <2>1. job' = [job EXCEPT ![w] = j]
      BY <1>3 DEF SocialUser, Goto
    <2>2. /\ j \in Job /\ j.stage = stage /\ j.user = job[w].user
          /\ j.row = job[w].row /\ j.account = job[w].account
      BY <1>1 DEF Job
    <2>3. stage = "create" \/ (stage = "associate" /\ job[w].user # 0)
      <3>1. job[w].session => job[w].user # 0
        BY <1>1 DEF JobInv, JobShape
      <3> QED
        BY <3>1
    <2> HIDE DEF j, stage
    <2>4. JobInv(j)
      BY <1>1, <2>2, <2>3 DEF JobInv, KnowsUser, JobShape, KnowsToken
    <2> QED
      BY <2>1, <2>2, <2>4, JobOnly DEF SocialUser
  <1>4. CASE u # 0 /\ Load(w, u, "associate")
    <2> DEFINE j == [job[w] EXCEPT !.user = u, !.row = users[u], !.stage = "associate"]
    <2>1. job' = [job EXCEPT ![w] = j]
      BY <1>4 DEF Load
    <2>2. j \in Job /\ JobInv(j)
      BY <1>1, <1>2, <1>4, LoadedJob
    <2> HIDE DEF j, u
    <2> QED
      BY <2>1, <2>2, JobOnly DEF SocialUser
  <1>5. CASE Fail(w)
    BY <1>5, FailStep DEF SocialUser
  <1> QED
    BY <1>3, <1>4, <1>5 DEF SocialUser

-----------------------------------------------------------------------------
(* Requests that write accounts, users and tokens.                         *)

LEMMA AssociateStep ==
  ASSUME DataInv, SignInv, NEW w \in Workers, Associate(w)
  PROVE  SignInv'
  <1> DEFINE a == job[w].account
             u == job[w].user
             j == [job[w] EXCEPT !.stage = "details"]
  <1>1. /\ job[w] \in Job /\ JobInv(job[w]) /\ job[w].stage = "associate"
        /\ a \in Accounts /\ u # 0 /\ u \in UserIds
    BY SignBasics DEF Associate, SignInv, JobInv, JobShape, Job
  <1>2. CASE account[a] \in {0, u} /\ Exists(u)
    <2>1. /\ account' = [account EXCEPT ![a] = u] /\ job' = [job EXCEPT ![w] = j]
          /\ users' = users /\ nextUser' = nextUser /\ loaded' = loaded
          /\ edited' = edited /\ app' = app
          /\ tokens' = tokens /\ nextToken' = nextToken /\ renamed' = renamed
      BY <1>2 DEF Associate, Goto, dataVars
    <2>2. /\ j \in Job /\ j.stage = "details" /\ j.user = job[w].user
          /\ j.row = job[w].row /\ j.account = job[w].account
      BY <1>1 DEF Job
    <2> HIDE DEF j
    <2>3. PICK k \in Job : k = j
      BY <2>2
    <2>7. JobInv(job[w]) /\ job[w].stage = "associate" /\ job' = [job EXCEPT ![w] = k]
          /\ k.stage = "details" /\ k.user = job[w].user
          /\ k.row = job[w].row /\ k.account \in Accounts
      BY <1>1, <2>1, <2>2, <2>3
    <2>8. JobInv(k)'
      BY <1>1, <2>1, <2>7 DEF JobInv, KnowsUser, JobShape, KnowsToken, Exists
    <2>4. Kept
      BY <2>1, SignBasics DEF Kept, Exists
    <2>5. account' \in [Accounts -> UserIds \cup {0}]
      BY <1>1, <2>1, SignBasics
    <2>6. SignRefs' /\ ClaimsNameUser'
      <3>1. \A b \in Accounts : account'[b] # 0 => Exists(account'[b])
        BY <1>1, <1>2, <2>1, SignBasics DEF SignInv, SignRefs
      <3> QED
        BY <2>1, <3>1 DEF SignInv, SignRefs, ClaimsNameUser, Exists
    <2> QED
      BY <2>1, <2>7, <2>8, <2>4, <2>5, <2>6, SignBasics, SignStep
  <1>3. CASE ~(account[a] \in {0, u} /\ Exists(u))
    <2>1. Fail(w) /\ UNCHANGED <<dataVars, account, app, tokens, nextToken, renamed>>
      BY <1>3 DEF Associate
    <2> QED
      BY <2>1, FailStep
  <1> QED
    BY <1>2, <1>3

\* A user is written or inserted: others stay who they are.
LEMMA UserKept ==
  ASSUME DataInv, SignInv, NEW u \in UserIds, NEW row \in Row,
         users' = [users EXCEPT ![u] = row],
         nextUser' \in Nat, nextUser <= nextUser',
         renamed \subseteq renamed', renamed' \subseteq UserIds,
         \/ u >= nextUser
         \/ u \in renamed'
         \/ users[u] # NoRow /\ row.name = users[u].name,
         ~edited /\ Exists(u) => row.super = users[u].super,
         loaded' = loaded, edited' = edited,
         UNCHANGED <<account, app, tokens, nextToken>>
  PROVE  Kept /\ SignRefs' /\ ClaimsNameUser'
  <1>1. /\ \A v \in UserIds : users'[v] = IF v = u THEN row ELSE users[v]
        /\ row # NoRow /\ u # 0
    BY SignBasics, DataAssumption
  <1>2. account' = account /\ app' = app /\ tokens' = tokens /\ nextToken' = nextToken
    OBVIOUS
  <1>3. \A v \in UserIds : Exists(v) => Exists(v)'
    BY <1>1 DEF Exists
  <1>4. Kept
    <2>1. \A v \in UserIds : v < nextUser =>
             \/ v \in renamed'
             \/ users'[v] = NoRow
             \/ (users[v] # NoRow /\ users'[v].name = users[v].name)
      <3> SUFFICES ASSUME NEW v \in UserIds, v < nextUser
                   PROVE  \/ v \in renamed'
                          \/ users'[v] = NoRow
                          \/ (users[v] # NoRow /\ users'[v].name = users[v].name)
        OBVIOUS
      <3>1. v # u => users'[v] = users[v]
        BY <1>1
      <3>2. ~(u >= nextUser) \/ v # u
        BY SignBasics
      <3> QED
        BY <1>1, <3>1, <3>2
    <2>2. \A v \in UserIds : ~edited' /\ Exists(v) =>
             Exists(v)' /\ users'[v].super = users[v].super
      BY <1>1, <1>3
    <2> QED
      BY <1>2, <2>1, <2>2, SignBasics DEF Kept
  <1>5. SignRefs'
    BY <1>2, <1>3, SignBasics DEF SignInv, SignRefs, Token
  <1>6. ClaimsNameUser'
    BY <1>2 DEF SignInv, ClaimsNameUser
  <1> QED
    BY <1>4, <1>5, <1>6

LEMMA CreateUserStep ==
  ASSUME DataInv, SignInv, NEW w \in Workers, NEW n \in Usernames, CreateUser(w, n)
  PROVE  DataInv' /\ SignInv'
  <1> DEFINE same == {u \in UserIds : Exists(u) /\ users[u].name = n}
             row  == [name |-> n, org |-> NoOrg, active |-> TRUE, super |-> FALSE]
  <1>1. /\ job[w] \in Job /\ JobInv(job[w]) /\ job[w].stage = "create"
        /\ job[w].account \in Accounts /\ loaded
    BY SignBasics DEF CreateUser, SignInv, JobInv, JobShape
  <1>2. /\ UNCHANGED <<settings, dataTables, run, loaded, shared, edited>>
        /\ UNCHANGED <<account, app, tokens, nextToken>>
        /\ renamed' = renamed
    BY DEF CreateUser
  <1>3. CASE same = {}
    <2> DEFINE j == [job[w] EXCEPT !.user = nextUser, !.row = row,
                                   !.stage = "associate"]
    <2>1. /\ users' = [users EXCEPT ![nextUser] = row]
          /\ nextUser' = nextUser + 1 /\ nextUser <= MaxUsers
          /\ job' = [job EXCEPT ![w] = j]
      BY <1>3 DEF CreateUser, NewUsersOrg
    <2>2. /\ nextUser \in UserIds /\ nextUser # 0 /\ nextUser' \in 1..(MaxUsers + 1)
          /\ nextUser < nextUser' /\ nextUser <= nextUser' /\ nextUser' \in Nat
          /\ nextUser >= nextUser
      BY <2>1, SignBasics DEF UserIds
    <2>3. row \in Row /\ row.name = n /\ row.super = FALSE /\ n # SuperName
      BY DataAssumption DEF Row
    <2>4. ~Exists(nextUser)
      BY <2>2 DEF Exists, DataInv, Fresh
    <2>5. \A v \in UserIds \ {nextUser} : Exists(v) => users[v].name # row.name
      BY <1>3, <2>3
    <2> HIDE DEF row, same
    <2>6. DataInv'
      BY <1>1, <1>2, <2>1, <2>2, <2>3, <2>4, <2>5, UserData
    <2>7. /\ j \in Job /\ j.stage = "associate" /\ j.user = nextUser
          /\ j.row = row /\ j.account = job[w].account
      BY <1>1, <2>2, <2>3 DEF Job
    <2> HIDE DEF j
    <2>8. PICK u \in UserIds, k \in Job, r \in Row : u = nextUser /\ k = j /\ r = row
      BY <2>2, <2>3, <2>7
    <2>9. /\ users' = [users EXCEPT ![u] = r] /\ job' = [job EXCEPT ![w] = k]
          /\ u >= nextUser /\ u < nextUser' /\ u # 0 /\ ~Exists(u)
          /\ k.stage = "associate" /\ k.user = u /\ k.row = r
          /\ k.account \in Accounts
      BY <1>1, <2>1, <2>2, <2>4, <2>7, <2>8
    <2>10. users'[u] = r /\ r # NoRow
      BY <2>9, SignBasics, DataAssumption
    <2>11. JobInv(k)'
      BY <2>9, <2>10 DEF JobInv, KnowsUser, JobShape, KnowsToken, Exists
    <2>12. loaded' = loaded /\ edited' = edited
      BY <1>2
    <2>13. Kept /\ SignRefs' /\ ClaimsNameUser'
      BY <1>2, <2>2, <2>9, <2>12, SignBasics, UserKept
    <2>14. /\ account' \in [Accounts -> UserIds \cup {0}] /\ app' \in BOOLEAN
           /\ tokens' \in [TokenIds -> Token \cup {NoRow}]
           /\ nextToken' \in 1..(MaxTokens + 1) /\ renamed' \subseteq UserIds
      BY <1>2, SignBasics
    <2>15. SignInv'
      BY <2>2, <2>9, <2>11, <2>13, <2>14, SignStep
    <2> QED
      BY <2>6, <2>15
  <1>4. CASE same # {}
    <2>1. users' = users /\ nextUser' = nextUser
      BY <1>4 DEF CreateUser
    <2>2. UNCHANGED dataVars
      BY <1>2, <2>1 DEF dataVars, dataTables
    <2>3. DataInv'
      BY <2>2, SameData
    <2>4. UNCHANGED <<dataVars, account, app, tokens, nextToken, renamed>>
      BY <1>2, <2>2
    <2>5. CASE Fail(w)
      BY <2>3, <2>4, <2>5, FailStep
    <2>6. ASSUME NEW u \in same, Load(w, u, "associate")
          PROVE  SignInv'
      <3> DEFINE j == [job[w] EXCEPT !.user = u, !.row = users[u],
                                     !.stage = "associate"]
      <3>1. job' = [job EXCEPT ![w] = j]
        BY <2>6 DEF Load
      <3>2. j \in Job /\ JobInv(j)
        BY <1>1, LoadedJob
      <3> HIDE DEF j
      <3> QED
        BY <2>4, <3>1, <3>2, JobOnly
    <2> QED
      BY <1>4, <2>3, <2>5, <2>6 DEF CreateUser
  <1> QED
    BY <1>3, <1>4
LEMMA UserDetailsStep ==
  ASSUME DataInv, SignInv, NEW w \in Workers, UserDetails(w)
  PROVE  DataInv' /\ SignInv'
  <1>1. PICK k \in Job : k = job[w]
    BY SignBasics
  <1>2. PICK u \in UserIds, row \in Row : u = k.user /\ row = k.row
    BY <1>1, SignBasics DEF UserDetails, SignInv, JobInv, JobShape, KnowsUser, Job
  <1>3. JobInv(k) /\ k.stage = "details" /\ u # 0 /\ row # NoRow
    BY <1>1, <1>2, SignBasics, DataAssumption DEF UserDetails, SignInv
  <1>4. /\ u < nextUser
        /\ ~edited => Exists(u) /\ users[u].super = row.super
    BY <1>2, <1>3 DEF JobInv, KnowsUser
  <1>5. ~edited => loaded
    BY <1>4, SignBasics DEF DataInv, LoadInv, Nothing
  <1>6. /\ UNCHANGED <<settings, dataTables, run, loaded, shared, edited>>
        /\ UNCHANGED <<account, app, tokens, nextToken>>
        /\ loaded' = loaded /\ edited' = edited /\ nextUser' = nextUser
    BY DEF UserDetails
  <1>7. PICK j \in Job : j = [k EXCEPT !.stage = "tokens"]
    BY DEF Job
  <1>8. /\ j.stage = "tokens" /\ j.user = u /\ j.row = row
    BY <1>2, <1>7 DEF Job
  <1>9. job' = [job EXCEPT ![w] = j] \/ job' = [job EXCEPT ![w] = NoJob]
    BY <1>1, <1>7 DEF UserDetails, Goto, Fail
  <1>10. CASE UNCHANGED <<users, renamed>>
    <2>1. UNCHANGED <<dataVars, account, app, tokens, nextToken, renamed>>
      BY <1>6, <1>10 DEF dataVars, dataTables
    <2>2. JobInv(j)
      BY <1>2, <1>3, <1>8 DEF JobInv, KnowsUser, JobShape, KnowsToken
    <2> QED
      BY <1>9, <2>1, <2>2, NoJobInv, JobOnly, SameData
  <1>11. CASE /\ users' = [users EXCEPT ![u] = row]
              /\ \A v \in UserIds \ {u} : Exists(v) => users[v].name # row.name
              /\ row.name = SuperName => \A r \in Runs : ~run[r].newUser
              /\ renamed' = IF users[u] = NoRow \/ users[u].name # row.name
                            THEN renamed \cup {u} ELSE renamed
    <2>1. DataInv'
      <3>1. ~edited => loaded /\ (row.super <=> Exists(u) /\ users[u].super)
        BY <1>4, <1>5
      <3>2. nextUser' \in 1..(MaxUsers + 1) /\ nextUser <= nextUser' /\ u < nextUser'
        BY <1>4, <1>6, SignBasics
      <3> QED
        BY <1>6, <1>11, <3>1, <3>2, UserData
    <2>2. /\ renamed \subseteq renamed' /\ renamed' \subseteq UserIds
          /\ u \in renamed' \/ (users[u] # NoRow /\ row.name = users[u].name)
      BY <1>11, SignBasics
    <2>3. Kept /\ SignRefs' /\ ClaimsNameUser'
      <3>1. ~edited /\ Exists(u) => row.super = users[u].super
        BY <1>4
      <3>2. nextUser' \in Nat /\ nextUser <= nextUser'
        BY <1>6, SignBasics
      <3> QED
        BY <1>6, <1>11, <2>2, <3>1, <3>2, UserKept
    <2>4. users'[u] = row
      BY <1>11, SignBasics
    <2>5. JobInv(j)'
      BY <1>3, <1>4, <1>6, <1>8, <2>4 DEF JobInv, KnowsUser, JobShape, KnowsToken, Exists
    <2>6. JobInv(NoJob)' /\ NoJob \in Job
      BY NoJobInv DEF NoJob, JobInv, KnowsUser, JobShape, KnowsToken
    <2>7. /\ account' \in [Accounts -> UserIds \cup {0}] /\ app' \in BOOLEAN
          /\ tokens' \in [TokenIds -> Token \cup {NoRow}]
          /\ nextToken' \in 1..(MaxTokens + 1) /\ nextUser' \in Nat
      BY <1>6, SignBasics
    <2>8. CASE job' = [job EXCEPT ![w] = j]
      BY <2>1, <2>2, <2>3, <2>5, <2>7, <2>8, SignStep
    <2>9. CASE job' = [job EXCEPT ![w] = NoJob]
      BY <2>1, <2>2, <2>3, <2>6, <2>7, <2>9, SignStep
    <2> QED
      BY <1>9, <2>1, <2>8, <2>9
  <1> QED
    BY <1>1, <1>2, <1>10, <1>11 DEF UserDetails

\* A step of one request that writes tokens and nothing else.
LEMMA TokenStep ==
  ASSUME DataInv, SignInv, NEW w \in Workers, NEW j \in Job, JobInv(j)',
         job' = [job EXCEPT ![w] = j],
         tokens' \in [TokenIds -> Token \cup {NoRow}],
         nextToken' \in 1..(MaxTokens + 1), nextToken <= nextToken',
         \A t \in TokenIds : tokens'[t] # NoRow =>
            /\ Exists(tokens'[t].user) /\ t < nextToken'
            /\ t < nextToken => tokens[t] # NoRow /\ tokens'[t].user = tokens[t].user,
         ClaimsNameUser',
         UNCHANGED <<dataVars, account, app, renamed>>
  PROVE  SignInv'
  <1>1. /\ users' = users /\ nextUser' = nextUser /\ loaded' = loaded
        /\ edited' = edited /\ account' = account /\ app' = app /\ renamed' = renamed
    BY DEF dataVars
  <1>2. Kept
    BY <1>1, SignBasics DEF Kept, Exists
  <1>3. SignRefs'
    BY <1>1 DEF SignInv, SignRefs, Exists
  <1> QED
    BY <1>1, <1>2, <1>3, SignBasics, SignStep

LEMMA SaveBearerTokenStep ==
  ASSUME DataInv, SignInv, NEW w \in Workers, SaveBearerToken(w)
  PROVE  SignInv'
  <1>1. PICK k \in Job : k = job[w]
    BY SignBasics
  <1>2. JobInv(k) /\ k.stage = "tokens" /\ k.user # 0
    BY <1>1 DEF SaveBearerToken, SignInv, JobInv, JobShape
  <1>3. PICK u \in UserIds : u = k.user
    BY <1>2 DEF Job
  <1>4. CASE app /\ Exists(u)
    <2>1. /\ nextToken <= MaxTokens /\ nextToken' = nextToken + 1
          /\ tokens' = [tokens EXCEPT ![nextToken] = IssuedTo(u)]
          /\ job' = [job EXCEPT ![w] =
                        [k EXCEPT !.token = nextToken, !.stage = "enrich"]]
          /\ users' = users /\ nextUser' = nextUser /\ edited' = edited
          /\ renamed' = renamed /\ loaded' = loaded
          /\ UNCHANGED <<dataVars, account, app, renamed>>
      BY <1>1, <1>3, <1>4, SignBasics DEF SaveBearerToken, Issue, dataVars
    <2>2. PICK new \in TokenIds : new = nextToken
      BY <2>1, SignBasics DEF TokenIds
    <2>3. PICK j \in Job : j = [k EXCEPT !.token = new, !.stage = "enrich"]
      BY DEF Job
    <2>4. /\ j.user = u /\ j.row = k.row /\ j.stage = "enrich" /\ j.token = new
          /\ job' = [job EXCEPT ![w] = j]
      BY <1>3, <2>1, <2>2, <2>3 DEF Job
    <2>5. /\ IssuedTo(u) \in Token /\ IssuedTo(u).user = u
          /\ IssuedTo(u).claims = NoRow /\ NoRow \notin UserIds
      BY SignBasics, SignInAssumption DEF IssuedTo, Token
    <2>6. \A t \in TokenIds :
             tokens'[t] = IF t = new THEN IssuedTo(u) ELSE tokens[t]
      BY <2>1, <2>2, SignBasics
    <2>7. JobInv(j)'
      <3>1. tokens'[j.token].user = u /\ j.token < nextToken'
        BY <2>1, <2>2, <2>4, <2>5, <2>6, SignBasics
      <3> QED
        BY <1>2, <1>3, <2>1, <2>4, <3>1
        DEF JobInv, KnowsUser, JobShape, KnowsToken, Exists
    <2>8. \A t \in TokenIds : tokens'[t] # NoRow =>
             /\ Exists(tokens'[t].user) /\ t < nextToken'
             /\ t < nextToken => tokens[t] # NoRow /\ tokens'[t].user = tokens[t].user
      <3> SUFFICES ASSUME NEW t \in TokenIds, tokens'[t] # NoRow
                   PROVE  /\ Exists(tokens'[t].user) /\ t < nextToken'
                          /\ t < nextToken =>
                                tokens[t] # NoRow /\ tokens'[t].user = tokens[t].user
        OBVIOUS
      <3>1. CASE t = new
        BY <1>4, <2>1, <2>2, <2>5, <2>6, <3>1, SignBasics
      <3>2. CASE t # new
        BY <2>1, <2>6, <3>2, SignBasics DEF SignInv, SignRefs
      <3> QED
        BY <3>1, <3>2
    <2>9. ClaimsNameUser'
      BY <2>1, <2>5, <2>6 DEF SignInv, ClaimsNameUser
    <2>10. /\ tokens' \in [TokenIds -> Token \cup {NoRow}]
           /\ nextToken' \in 1..(MaxTokens + 1) /\ nextToken <= nextToken'
      BY <2>1, <2>2, <2>5, SignBasics
    <2> QED
      BY <2>1, <2>4, <2>7, <2>8, <2>9, <2>10, TokenStep
  <1>5. CASE ~(app /\ Exists(u))
    BY <1>1, <1>3, <1>5, FailStep DEF SaveBearerToken
  <1> QED
    BY <1>4, <1>5

\* An answer whose claims are those of the token's user, or of nobody.
LEMMA AnswerStep ==
  ASSUME DataInv, SignInv, NEW w \in Workers, NEW c \in UserIds \cup {Nobody},
         NEW n \in TokenIds, n = job[w].token,
         tokens[n] # NoRow /\ c \in UserIds =>
            c = tokens[n].user \/ tokens[n].user \in renamed,
         AnswerWith(w, c), UNCHANGED <<dataVars, account, app, nextToken, renamed>>
  PROVE  SignInv'
  <1>1. /\ tokens' = [tokens EXCEPT ![n] =
                         IF tokens[n] = NoRow THEN NoRow
                         ELSE [tokens[n] EXCEPT !.claims = c]]
        /\ job' = [job EXCEPT ![w] = NoJob]
        /\ nextToken' = nextToken /\ renamed' = renamed
    BY DEF AnswerWith, Fail
  <1>2. \A t \in TokenIds : tokens[t] # NoRow => tokens[t] \in Token
    BY SignBasics
  <1>3. \A t \in TokenIds :
           /\ t # n => tokens'[t] = tokens[t]
           /\ tokens[t] = NoRow => tokens'[t] = NoRow
    BY <1>1, SignBasics
  <1>4. tokens[n] # NoRow =>
           /\ tokens'[n] \in Token /\ tokens'[n].user = tokens[n].user
           /\ tokens'[n].claims = c
    BY <1>1, <1>2, SignBasics DEF Token
  <1>5. tokens' \in [TokenIds -> Token \cup {NoRow}]
    <2>1. DOMAIN tokens' = TokenIds /\ tokens' = [t \in TokenIds |-> tokens'[t]]
      BY <1>1, SignBasics
    <2>2. \A t \in TokenIds : tokens'[t] \in Token \cup {NoRow}
      BY <1>2, <1>3, <1>4
    <2> QED
      BY <2>1, <2>2
  <1>6. \A t \in TokenIds : tokens'[t] # NoRow =>
           /\ Exists(tokens'[t].user) /\ t < nextToken'
           /\ t < nextToken => tokens[t] # NoRow /\ tokens'[t].user = tokens[t].user
    BY <1>1, <1>3, <1>4 DEF SignInv, SignRefs
  <1>7. ClaimsNameUser'
    BY <1>1, <1>3, <1>4 DEF SignInv, ClaimsNameUser
  <1>8. JobInv(NoJob)' /\ NoJob \in Job
    BY NoJobInv DEF NoJob, JobInv, KnowsUser, JobShape, KnowsToken
  <1>9. nextToken' \in 1..(MaxTokens + 1) /\ nextToken <= nextToken'
    BY <1>1, SignBasics
  <1> QED
    BY <1>1, <1>5, <1>6, <1>7, <1>8, <1>9, TokenStep

LEMMA EnrichByNameStep ==
  ASSUME DataInv, SignInv, NEW w \in Workers, EnrichByName(w)
  PROVE  SignInv'
  <1>1. PICK k \in Job : k = job[w]
    BY SignBasics
  <1>2. /\ JobInv(k) /\ k.stage = "enrich" /\ k.user \in UserIds
        /\ k.token \in TokenIds
    BY <1>1 DEF EnrichByName, SignInv, JobInv, JobShape, KnowsToken, Job
  <1>3. ASSUME NEW v \in UserIds, Exists(v), users[v].name = k.row.name,
               AnswerWith(w, v)
        PROVE  SignInv'
    <2>1. tokens[k.token] # NoRow =>
             tokens[k.token].user = k.user /\ Exists(k.user)
      BY <1>2 DEF JobInv, KnowsToken, SignInv, SignRefs
    <2>2. \/ k.user \in renamed
          \/ users[k.user] = NoRow
          \/ users[k.user].name = k.row.name
      BY <1>2, SignBasics DEF JobInv, KnowsUser
    <2>3. tokens[k.token] # NoRow =>
             v = tokens[k.token].user \/ tokens[k.token].user \in renamed
      BY <1>2, <1>3, <2>1, <2>2 DEF DataInv, UniqueNames, Exists
    <2> QED
      BY <1>1, <1>2, <1>3, <2>3, AnswerStep DEF EnrichByName
  <1>4. CASE Fail(w) /\ UNCHANGED tokens
    BY <1>4, FailStep DEF EnrichByName
  <1> QED
    BY <1>1, <1>3, <1>4 DEF EnrichByName

LEMMA RefreshStep ==
  ASSUME DataInv, SignInv, NEW w \in Workers, NEW old \in TokenIds, Refresh(w, old)
  PROVE  SignInv'
  <1>1. /\ tokens[old] # NoRow /\ nextToken <= MaxTokens
        /\ nextToken' = nextToken + 1 /\ renamed' = renamed
        /\ job' = [job EXCEPT ![w] = [NoJob EXCEPT
                      !.stage = "refreshed", !.token = nextToken, !.old = old]]
        /\ UNCHANGED <<dataVars, account, app, renamed>>
    BY DEF Refresh
  <1>2. PICK new \in TokenIds : new = nextToken
    BY <1>1, SignBasics DEF TokenIds
  <1>3. PICK u \in UserIds : u = tokens[old].user
    BY <1>1, SignBasics DEF Token
  <1>4. old < nextToken /\ old # new /\ Exists(u) /\ tokens[old] \in Token
    BY <1>1, <1>2, <1>3, SignBasics DEF SignInv, SignRefs
  <1>5. /\ IssuedTo(u) \in Token /\ IssuedTo(u).user = u
        /\ IssuedTo(u).claims = NoRow /\ NoRow \notin UserIds
    BY SignBasics, SignInAssumption DEF IssuedTo, Token
  <1>6. tokens' = [tokens EXCEPT ![old].live = FALSE, ![nextToken] = IssuedTo(u)]
    BY <1>3 DEF Refresh
  <1>7. /\ tokens'[new] = IssuedTo(u)
        /\ tokens'[old] = [tokens[old] EXCEPT !.live = FALSE]
        /\ \A t \in TokenIds : t \notin {old, new} => tokens'[t] = tokens[t]
        /\ tokens' = [t \in TokenIds |-> tokens'[t]]
    BY <1>2, <1>4, <1>6, SignBasics
  <1>8. /\ tokens'[old] \in Token /\ tokens'[old].user = u
        /\ tokens'[old].claims = tokens[old].claims
    BY <1>3, <1>4, <1>7 DEF Token
  <1>9. /\ tokens' \in [TokenIds -> Token \cup {NoRow}]
        /\ nextToken' \in 1..(MaxTokens + 1) /\ nextToken <= nextToken'
    <2>1. \A t \in TokenIds : tokens'[t] \in Token \cup {NoRow}
      BY <1>5, <1>7, <1>8, SignBasics
    <2> QED
      BY <1>1, <1>7, <2>1, SignBasics
  <1>10. \A t \in TokenIds : tokens'[t] # NoRow =>
            /\ Exists(tokens'[t].user) /\ t < nextToken'
            /\ t < nextToken => tokens[t] # NoRow /\ tokens'[t].user = tokens[t].user
    <2> SUFFICES ASSUME NEW t \in TokenIds, tokens'[t] # NoRow
                 PROVE  /\ Exists(tokens'[t].user) /\ t < nextToken'
                        /\ t < nextToken =>
                              tokens[t] # NoRow /\ tokens'[t].user = tokens[t].user
      OBVIOUS
    <2>1. CASE t = new
      BY <1>1, <1>2, <1>4, <1>5, <1>7, <2>1, SignBasics
    <2>2. CASE t = old
      BY <1>1, <1>3, <1>4, <1>8, <2>2, SignBasics
    <2>3. CASE t \notin {old, new}
      BY <1>1, <1>7, <2>3, SignBasics DEF SignInv, SignRefs
    <2> QED
      BY <2>1, <2>2, <2>3
  <1>11. ClaimsNameUser'
    <2> SUFFICES ASSUME NEW t \in TokenIds, tokens'[t] # NoRow,
                        tokens'[t].claims \in UserIds
                 PROVE  \/ tokens'[t].claims = tokens'[t].user
                        \/ tokens'[t].user \in renamed'
      BY DEF ClaimsNameUser
    <2>1. CASE t = new
      BY <1>5, <1>7, <2>1
    <2>2. CASE t = old
      BY <1>1, <1>3, <1>8, <2>2 DEF SignInv, ClaimsNameUser
    <2>3. CASE t \notin {old, new}
      BY <1>1, <1>7, <2>3 DEF SignInv, ClaimsNameUser
    <2> QED
      BY <2>1, <2>2, <2>3
  <1>12. PICK j \in Job : j = [NoJob EXCEPT !.stage = "refreshed", !.token = new,
                                            !.old = old]
    BY NoJobInv DEF Job
  <1>13. /\ job' = [job EXCEPT ![w] = j]
         /\ j.stage = "refreshed" /\ j.token = new /\ j.old = old /\ j.user = 0
    BY <1>1, <1>2, <1>12 DEF NoJob
  <1>14. new < nextToken' /\ old < nextToken'
    BY <1>1, <1>2, <1>4, SignBasics
  <1>15. JobInv(j)'
    BY <1>5, <1>7, <1>8, <1>13, <1>14 DEF JobInv, KnowsUser, JobShape, KnowsToken
  <1> QED
    BY <1>1, <1>9, <1>10, <1>11, <1>13, <1>15, TokenStep

LEMMA EnrichByTokenStep ==
  ASSUME DataInv, SignInv, NEW w \in Workers, EnrichByToken(w)
  PROVE  SignInv'
  <1>1. PICK k \in Job : k = job[w]
    BY SignBasics
  <1>2. /\ JobInv(k) /\ k.stage = "refreshed"
        /\ k.token \in TokenIds /\ k.old \in TokenIds
    BY <1>1 DEF EnrichByToken, SignInv, JobInv, KnowsToken
  <1>3. CASE tokens[k.old] = NoRow /\ AnswerWith(w, Nobody)
    <2>1. Nobody \notin UserIds /\ Nobody \in UserIds \cup {Nobody}
      BY SignBasics, SignInAssumption
    <2> QED
      BY <1>1, <1>2, <1>3, <2>1, AnswerStep DEF EnrichByToken
  <1>4. CASE tokens[k.old] # NoRow /\ AnswerWith(w, tokens[k.old].user)
    <2>1. PICK u \in UserIds : u = tokens[k.old].user
      BY <1>2, <1>4, SignBasics DEF Token
    <2>2. tokens[k.token] # NoRow => u = tokens[k.token].user
      BY <1>2, <1>4, <2>1 DEF JobInv, KnowsToken
    <2> QED
      BY <1>1, <1>2, <1>4, <2>1, <2>2, AnswerStep DEF EnrichByToken
  <1>5. CASE Fail(w) /\ UNCHANGED tokens
    BY <1>5, FailStep DEF EnrichByToken
  <1> QED
    BY <1>1, <1>3, <1>4, <1>5 DEF EnrichByToken

-----------------------------------------------------------------------------
(* Administrators, and the command beneath the requests.                   *)

\* Applications and tokens come and go, tokens only by being deleted.
LEMMA TokensDeleted ==
  ASSUME DataInv, SignInv, app' \in BOOLEAN,
         tokens' \in [TokenIds -> Token \cup {NoRow}],
         \A t \in TokenIds : tokens'[t] \in {tokens[t], NoRow},
         UNCHANGED <<dataVars, account, nextToken, job, renamed>>
  PROVE  SignInv'
  <1>1. /\ users' = users /\ nextUser' = nextUser /\ loaded' = loaded
        /\ edited' = edited /\ account' = account /\ renamed' = renamed
        /\ nextToken' = nextToken /\ job' = job
    BY DEF dataVars
  <1>2. \A t \in TokenIds : tokens'[t] # NoRow => tokens'[t] = tokens[t]
    OBVIOUS
  <1>3. Kept
    BY <1>1, <1>2, SignBasics DEF Kept, Exists
  <1>4. SignRefs' /\ ClaimsNameUser'
    BY <1>1, <1>2 DEF SignInv, SignRefs, ClaimsNameUser, Exists
  <1> QED
    BY <1>1, <1>3, <1>4, SignBasics, SignSame

LEMMA AdministerTokensStep ==
  ASSUME DataInv, SignInv,
         \/ PostApplication
         \/ DeleteApplication
         \/ \E t \in TokenIds : DeleteToken(t)
  PROVE  DataInv' /\ SignInv'
  <1>1. UNCHANGED dataVars /\ UNCHANGED <<dataVars, account, nextToken, job, renamed>>
    BY DEF PostApplication, DeleteApplication, DeleteToken
  <1>2. /\ app' \in BOOLEAN
        /\ tokens' \in [TokenIds -> Token \cup {NoRow}]
        /\ \A t \in TokenIds : tokens'[t] \in {tokens[t], NoRow}
    <2>1. CASE PostApplication
      BY <2>1, SignBasics DEF PostApplication
    <2>2. CASE DeleteApplication
      BY <2>2, SignBasics DEF DeleteApplication
    <2>3. ASSUME NEW t \in TokenIds, DeleteToken(t)
          PROVE  /\ app' \in BOOLEAN
                 /\ tokens' \in [TokenIds -> Token \cup {NoRow}]
                 /\ \A s \in TokenIds : tokens'[s] \in {tokens[s], NoRow}
      BY <2>3, SignBasics DEF DeleteToken
    <2> QED
      BY <2>1, <2>2, <2>3
  <1> QED
    BY <1>1, <1>2, SameData, TokensDeleted

LEMMA PatchUserStep ==
  ASSUME DataInv, SignInv, NEW u \in UserIds, PatchUser(u)
  PROVE  DataInv' /\ SignInv'
  <1>1. /\ Exists(u) /\ users[u] \in Row /\ u < nextUser
        /\ UNCHANGED <<settings, dataTables, run, loaded, shared, edited>>
        /\ UNCHANGED <<account, app, tokens, nextToken>>
        /\ nextUser' = nextUser /\ loaded' = loaded /\ edited' = edited /\ job' = job
    BY SignBasics DEF PatchUser
  <1>2. ~edited => loaded
    BY <1>1, SignBasics DEF DataInv, LoadInv, Nothing
  <1>3. PICK row \in Row :
           /\ users' = [users EXCEPT ![u] = row]
           /\ row.super = users[u].super
           /\ \/ /\ row.name \in Usernames /\ renamed' = renamed \cup {u}
                 /\ \A v \in UserIds : Exists(v) => users[v].name # row.name
              \/ row.name = users[u].name /\ renamed' = renamed
    <2>1. ASSUME NEW n \in Usernames,
                 \A v \in UserIds : Exists(v) => users[v].name # n,
                 users' = [users EXCEPT ![u].name = n],
                 renamed' = renamed \cup {u}
          PROVE  \E row \in Row :
                    /\ users' = [users EXCEPT ![u] = row]
                    /\ row.super = users[u].super
                    /\ row.name \in Usernames
                    /\ \A v \in UserIds : Exists(v) => users[v].name # row.name
      <3> DEFINE row == [users[u] EXCEPT !.name = n]
      <3>1. row \in Row /\ row.super = users[u].super /\ row.name = n
        BY <1>1 DEF Row
      <3>2. users' = [users EXCEPT ![u] = row]
        BY <1>1, <2>1, SignBasics
      <3> QED
        BY <2>1, <3>1, <3>2
    <2>2. ASSUME NEW x \in OrgIds, users' = [users EXCEPT ![u].org = x]
          PROVE  \E row \in Row :
                    /\ users' = [users EXCEPT ![u] = row]
                    /\ row.super = users[u].super /\ row.name = users[u].name
      <3> DEFINE row == [users[u] EXCEPT !.org = x]
      <3>1. row \in Row /\ row.super = users[u].super /\ row.name = users[u].name
        BY <1>1 DEF Row
      <3>2. users' = [users EXCEPT ![u] = row]
        BY <1>1, <2>2, SignBasics
      <3> QED
        BY <2>2, <3>1, <3>2
    <2>3. ASSUME users' = [users EXCEPT ![u].active = ~@]
          PROVE  \E row \in Row :
                    /\ users' = [users EXCEPT ![u] = row]
                    /\ row.super = users[u].super /\ row.name = users[u].name
      <3> DEFINE row == [users[u] EXCEPT !.active = ~users[u].active]
      <3>1. row \in Row /\ row.super = users[u].super /\ row.name = users[u].name
        BY <1>1 DEF Row
      <3>2. users' = [users EXCEPT ![u] = row]
        BY <1>1, <2>3, SignBasics
      <3> QED
        BY <2>3, <3>1, <3>2
    <2> QED
      BY <2>1, <2>2, <2>3 DEF PatchUser
  <1>4. \A v \in UserIds \ {u} : Exists(v) => users[v].name # row.name
    BY <1>1, <1>3 DEF DataInv, UniqueNames
  <1>5. row.name = SuperName => \A r \in Runs : ~run[r].newUser
    BY <1>1, <1>3, DataAssumption DEF DataInv, UniqueNames
  <1>6. /\ nextUser' \in 1..(MaxUsers + 1) /\ nextUser <= nextUser' /\ u < nextUser'
        /\ nextUser' \in Nat
    BY <1>1, SignBasics
  <1>7. DataInv'
    <2>1. ~edited => loaded /\ (row.super <=> Exists(u) /\ users[u].super)
      BY <1>1, <1>2, <1>3
    <2> QED
      BY <1>1, <1>3, <1>4, <1>5, <1>6, <2>1, UserData
  <1>8. /\ renamed \subseteq renamed' /\ renamed' \subseteq UserIds
        /\ u \in renamed' \/ (users[u] # NoRow /\ row.name = users[u].name)
    BY <1>1, <1>3, SignBasics DEF Exists
  <1>9. Kept /\ SignRefs' /\ ClaimsNameUser'
    <2>1. ~edited /\ Exists(u) => row.super = users[u].super
      BY <1>3
    <2> QED
      BY <1>1, <1>3, <1>6, <1>8, <2>1, UserKept
  <1>10. /\ account' \in [Accounts -> UserIds \cup {0}] /\ app' \in BOOLEAN
         /\ tokens' \in [TokenIds -> Token \cup {NoRow}]
         /\ nextToken' \in 1..(MaxTokens + 1)
    BY <1>1, SignBasics
  <1>11. SignInv'
    BY <1>1, <1>6, <1>8, <1>9, <1>10, SignSame
  <1> QED
    BY <1>7, <1>11

LEMMA CascadeOrgStep ==
  ASSUME DataInv, SignInv, NEW x \in OrgIds, CascadeOrg(x)
  PROVE  DataInv' /\ SignInv'
  <1> DEFINE gone == Belonging(x)
  <1>1. DataInv'
    BY EditData DEF CascadeOrg, Edit
  <1>2. /\ users' = [u \in UserIds |-> IF u \in gone THEN NoRow ELSE users[u]]
        /\ account' = [a \in Accounts |-> IF account[a] \in gone THEN 0 ELSE account[a]]
        /\ tokens' = [t \in TokenIds |-> IF tokens[t] # NoRow /\ tokens[t].user \in gone
                                         THEN NoRow ELSE tokens[t]]
        /\ edited' = TRUE /\ nextUser' = nextUser /\ loaded' = loaded
        /\ app' = app /\ nextToken' = nextToken /\ job' = job /\ renamed' = renamed
    BY DEF CascadeOrg, DeleteOrg
  <1> HIDE DEF gone
  <1>3. /\ account' \in [Accounts -> UserIds \cup {0}] /\ app' \in BOOLEAN
        /\ tokens' \in [TokenIds -> Token \cup {NoRow}]
        /\ nextToken' \in 1..(MaxTokens + 1) /\ nextUser' \in Nat
        /\ renamed' \subseteq UserIds
    BY <1>2, SignBasics
  <1>4. /\ \A u \in UserIds : u \notin gone => users'[u] = users[u]
        /\ \A u \in UserIds : u \in gone => users'[u] = NoRow
        /\ \A a \in Accounts : account'[a] # 0 =>
              account'[a] = account[a] /\ account'[a] \notin gone
        /\ \A t \in TokenIds : tokens'[t] # NoRow =>
              tokens'[t] = tokens[t] /\ tokens[t].user \notin gone
    BY <1>2
  <1>5. Kept
    BY <1>2, <1>4, SignBasics DEF Kept
  <1>6. SignRefs'
    <2>1. \A t \in TokenIds : tokens[t] # NoRow => tokens[t].user \in UserIds
      BY SignBasics DEF Token
    <2>2. \A a \in Accounts : account[a] # 0 => account[a] \in UserIds
      BY SignBasics
    <2> QED
      BY <1>2, <1>4, <2>1, <2>2 DEF SignInv, SignRefs, Exists
  <1>7. ClaimsNameUser'
    BY <1>2, <1>4 DEF SignInv, ClaimsNameUser
  <1>8. SignInv'
    BY <1>2, <1>3, <1>5, <1>6, <1>7, SignSame
  <1> QED
    BY <1>1, <1>8

\* The command and new organizations and types: users are at most added.
LEMMA RowsAdded ==
  ASSUME DataInv, SignInv, nextUser <= nextUser', nextUser' \in Nat,
         loaded => loaded', edited => edited',
         \A u \in UserIds : u < nextUser => users'[u] = users[u],
         UNCHANGED signVars
  PROVE  SignInv'
  <1>1. /\ account' = account /\ app' = app /\ tokens' = tokens
        /\ nextToken' = nextToken /\ job' = job /\ renamed' = renamed
    BY DEF signVars
  <1>2. \A u \in UserIds : Exists(u) => Exists(u)' /\ users'[u] = users[u]
    BY SignBasics DEF Exists
  <1>3. Kept
    BY <1>1, <1>2, SignBasics DEF Kept, Exists
  <1>4. SignRefs'
    <2>1. \A t \in TokenIds : tokens[t] # NoRow => tokens[t].user \in UserIds
      BY SignBasics DEF Token
    <2> QED
      BY <1>1, <1>2, <2>1, SignBasics DEF SignInv, SignRefs
  <1>5. ClaimsNameUser'
    BY <1>1 DEF SignInv, ClaimsNameUser
  <1> QED
    BY <1>1, <1>3, <1>4, <1>5, SignBasics, SignSame

LEMMA CommandStep ==
  ASSUME DataInv, SignInv, NEW r \in Runs, Command(r), UNCHANGED signVars
  PROVE  DataInv' /\ SignInv'
  <1>1. /\ nextUser <= nextUser' /\ nextUser' \in Nat
        /\ (loaded => loaded') /\ (edited => edited')
        /\ \A u \in UserIds : u < nextUser => users'[u] = users[u]
    <2>1. CASE Commit(r)
      <3>1. edited' = edited
        BY <2>1 DEF Commit
      <3>2. \/ UNCHANGED <<users, nextUser, loaded>>
            \/ /\ loaded' = TRUE
               /\ \/ UNCHANGED <<users, nextUser>>
                  \/ /\ \E row : users' = [users EXCEPT ![nextUser] = row]
                     /\ nextUser' = nextUser + 1
        BY <2>1 DEF Commit
      <3> QED
        BY <3>1, <3>2, SignBasics
    <2>2. CASE ~Commit(r)
      <3>1. UNCHANGED <<users, nextUser, loaded, edited>>
        BY <2>2 DEF Command, FindGroup, GetRoles, GetType, GetDefaultOrg,
                    FindSuperuser, InsertSuperuser, Killed
      <3> QED
        BY <3>1, SignBasics
    <2> QED
      BY <2>1, <2>2
  <1> QED
    BY <1>1, CommandData, RowsAdded

LEMMA PostStep ==
  ASSUME DataInv, SignInv, UNCHANGED signVars,
         (\E n \in OrgNames : PostOrg(n)) \/ (\E t \in Types : PostType(t))
  PROVE  DataInv' /\ SignInv'
  <1>1. DataInv'
    BY EditData DEF Edit
  <1>2. users' = users /\ nextUser' = nextUser /\ loaded' = loaded /\ edited' = TRUE
    BY DEF PostOrg, PostType
  <1> QED
    BY <1>1, <1>2, SignBasics, RowsAdded

LEMMA TimeoutStep ==
  ASSUME DataInv, SignInv, NEW w \in Workers, Timeout(w)
  PROVE  SignInv'
  BY FailStep DEF Timeout

\* Every step of a request.
LEMMA RequestStep ==
  ASSUME DataInv, SignInv, NEW w \in Workers, Request(w)
  PROVE  DataInv' /\ SignInv'
  <1>1. CASE \E n \in Usernames : CreateUser(w, n)
    BY <1>1, CreateUserStep
  <1>2. CASE UserDetails(w)
    BY <1>2, UserDetailsStep
  <1>3. CASE /\ ~\E n \in Usernames : CreateUser(w, n)
             /\ ~UserDetails(w)
    <2>1. UNCHANGED dataVars
      BY <1>3 DEF Request, OAuthComplete, SocialUser, Associate, SaveBearerToken,
                  EnrichByName, Refresh, EnrichByToken, Timeout
    <2>2. SignInv'
      BY <1>3, OAuthCompleteStep, SocialUserStep, AssociateStep, SaveBearerTokenStep,
         EnrichByNameStep, RefreshStep, EnrichByTokenStep, TimeoutStep DEF Request
    <2> QED
      BY <2>1, <2>2, SameData
  <1> QED
    BY <1>1, <1>2, <1>3

LEMMA InitIInv == Init => IInv
  <1> SUFFICES ASSUME Init PROVE IInv
    OBVIOUS
  <1>1. DataInv
    BY InitDataInv DEF Init
  <1>2. SignTypes
    <2>1. 1 \in 1..(MaxTokens + 1)
      BY SignInAssumption
    <2> QED
      BY <2>1, NoJobInv DEF Init, SignTypes
  <1>3. SignRefs /\ ClaimsNameUser /\ \A w \in Workers : JobInv(job[w])
    BY NoJobInv DEF Init, SignRefs, ClaimsNameUser
  <1> QED
    BY <1>1, <1>2, <1>3 DEF IInv, SignInv

LEMMA StepIInv == IInv /\ [Next]_vars => IInv'
  <1> SUFFICES ASSUME IInv, [Next]_vars PROVE IInv'
    OBVIOUS
  <1>1. DataInv /\ SignInv
    BY DEF IInv
  <1>2. ASSUME NEW r \in Runs, Command(r), UNCHANGED signVars PROVE IInv'
    BY <1>1, <1>2, CommandStep DEF IInv
  <1>3. ASSUME NEW w \in Workers, Request(w) PROVE IInv'
    BY <1>1, <1>3, RequestStep DEF IInv
  <1>4. CASE Administer
    <2>1. ASSUME NEW u \in UserIds, PatchUser(u) PROVE IInv'
      BY <1>1, <2>1, PatchUserStep DEF IInv
    <2>2. ASSUME NEW x \in OrgIds, CascadeOrg(x) PROVE IInv'
      BY <1>1, <2>2, CascadeOrgStep DEF IInv
    <2> QED
      BY <1>1, <1>4, <2>1, <2>2, AdministerTokensStep, PostStep DEF Administer, IInv
  <1>5. CASE UNCHANGED vars
    <2>1. /\ UNCHANGED dataVars /\ UNCHANGED signVars
          /\ users' = users /\ nextUser' = nextUser /\ loaded' = loaded
          /\ edited' = edited
      BY <1>5 DEF vars, dataVars
    <2> QED
      BY <1>1, <2>1, SameData, SignBasics, RowsAdded DEF IInv
  <1> QED
    BY <1>2, <1>3, <1>4, <1>5 DEF Next

-----------------------------------------------------------------------------
(* Theorems.                                                               *)

\* In every reachable state tables, runs of the command, requests and tokens are
\* related as the inductive invariant says.
THEOREM Invariance == Spec => []IInv
  <1>1. Init => IInv
    BY InitIInv
  <1>2. IInv /\ [Next]_vars => IInv'
    BY StepIInv
  <1> QED
    BY <1>1, <1>2, PTL DEF Spec

\* All tables, runs and requests keep their types.
THEOREM TypeCorrect == Spec => []TypeOK
  <1>1. IInv => TypeOK
    BY DEF IInv, DataInv, SignInv, SignTypes, TypeOK
  <1> QED
    BY <1>1, Invariance, PTL

\* Once a run of loadinitialdata has ended well, and as long as administrators
\* make and delete nothing, everything it loads is there exactly once, however
\* many runs of handle() there are, overlapping or killed.
THEOREM Loaded == Spec => []LoadedOnce
  <1>1. IInv => LoadedOnce
    <2> SUFFICES ASSUME IInv, loaded, ~edited
                 PROVE  LoadedOnce
      BY DEF LoadedOnce
    <2>1. DataInv /\ roles /\ Everything
      BY DEF IInv, DataInv, LoadInv
    <2>2. Cardinality({}) = 0 /\ Cardinality({1}) = 1
      BY FS_EmptySet, FS_Singleton
    <2>3. Cardinality(Named(settings.defaultOrg)) =
             (IF settings.defaultOrg = NoName THEN 0 ELSE 1)
      BY <2>1, <2>2 DEF Everything
    <2>4. Cardinality(Superusers) = (IF settings.password THEN 1 ELSE 0)
      BY <2>1, <2>2 DEF Everything
    <2>5. admins >= 1 /\ (admins > 1 => shared)
      BY <2>1, RunCount DEF DataInv, GroupInv, DataTypeOK
    <2> QED
      BY <2>1, <2>3, <2>4, <2>5 DEF LoadedOnce, Everything
  <1> QED
    BY <1>1, Invariance, PTL

\* A JWT of generate_access_tokens() names the user its refresh token was issued
\* to, unless that user has been called otherwise meanwhile.
THEOREM Claims == Spec => []ClaimsNameUser
  <1>1. IInv => ClaimsNameUser
    BY DEF IInv, SignInv
  <1> QED
    BY <1>1, Invariance, PTL

=============================================================================
