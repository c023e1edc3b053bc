---------------------------- MODULE InitialData ----------------------------
(***************************************************************************)
(* The management command loadinitialdata                                  *)
(* (buildly/management/commands/loadinitialdata.py), which the container   *)
(* of scripts/run-standalone-dev.sh runs whenever it starts, and the       *)
(* administrators' edits of what it has made.                              *)
(*                                                                         *)
(* handle() is one transaction: its statements see what others have        *)
(* committed, its rows appear when it commits, and are gone if it fails.   *)
(* An insertion of a key that is unique waits for another transaction that *)
(* has inserted it.                                                        *)
(***************************************************************************)
EXTENDS Integers, FiniteSets

CONSTANTS
    Runs,        \* processes that run the command
    Types,       \* settings.ORGANIZATION_TYPES
    OrgNames,    \* names of organizations
    DefaultOrgs, \* settings.DEFAULT_ORG, the choices: a name or NoName
    Passwords,   \* whether a superuser's password is configured, the choices
    SuperName,   \* the superuser's username
    Usernames,   \* others
    MaxOrgs,     \* bound: organizations ever inserted
    MaxUsers,    \* bound: users ever inserted
    NoName,
    NoRow

OrgIds  == 1..MaxOrgs
UserIds == 1..MaxUsers
NoOrg   == 0

Row == [name : Usernames \cup {SuperName}, org : OrgIds \cup {NoOrg},
        active : BOOLEAN, super : BOOLEAN]

ASSUME DataAssumption ==
    /\ MaxOrgs \in Nat /\ MaxUsers \in Nat
    /\ DefaultOrgs \subseteq OrgNames \cup {NoName} /\ NoName \notin OrgNames
    /\ Passwords \subseteq BOOLEAN
    /\ SuperName \notin Usernames
    /\ NoRow \notin Row /\ NoRow \notin OrgNames /\ NoRow # NoName
    /\ IsFiniteSet(Runs)

VARIABLES
    settings,  \* DEFAULT_ORG and whether there is a password, for good
    admins,    \* how many global groups have all permissions
    roles,     \* whether Django's groups of the four roles exist
    types,     \* how many OrganizationType rows have the name
    orgs,      \* the Organization table: id -> name
    users,     \* the CoreUser table
    nextOrg,   \* fresh primary keys
    nextUser,
    run,       \* what each process is doing
    loaded,    \* history: a run has committed
    shared,    \* history: two runs have overlapped
    edited     \* history: administrators have made or deleted rows

dataTables == <<admins, roles, types, orgs, nextOrg>>
dataVars   == <<settings, admins, roles, types, orgs, users, nextOrg, nextUser,
                run, loaded, shared, edited>>

-----------------------------------------------------------------------------

\* The fields that start with "new" are the rows inserted so far.
Run == [stage    : {"idle", "roles", "rest", "findUser", "insertUser", "commit"},
        newGroup : BOOLEAN,
        newRoles : BOOLEAN,
        newTypes : SUBSET Types,
        todo     : SUBSET Types,          \* types not looked up yet
        org      : OrgIds \cup {NoOrg},   \* _default_org, if it was found
        newOrg   : BOOLEAN,
        newUser  : BOOLEAN]

NotRunning == [stage |-> "idle", newGroup |-> FALSE, newRoles |-> FALSE,
               newTypes |-> {}, todo |-> {}, org |-> NoOrg, newOrg |-> FALSE,
               newUser |-> FALSE]

Running(r) == run[r].stage # "idle"

\* The process ends without commit, by an exception or because it is killed.
RollBack(r) == run' = [run EXCEPT ![r] = NotRunning]

Exists(u) == u # 0 /\ users[u] # NoRow

Named(n) == {x \in OrgIds : orgs[x] = n}

InitData ==
    /\ settings \in [defaultOrg : DefaultOrgs, password : Passwords]
    /\ admins = 0
    /\ roles = FALSE
    /\ types = [t \in Types |-> 0]
    /\ orgs = [x \in OrgIds |-> NoRow]
    /\ users = [u \in UserIds |-> NoRow]
    /\ nextOrg = 1
    /\ nextUser = 1
    /\ run = [r \in Runs |-> NotRunning]
    /\ loaded = FALSE
    /\ shared = FALSE
    /\ edited = FALSE

-----------------------------------------------------------------------------
(* The command.                                                            *)

\* _create_groups(), first the global group: filter(...).first(), or create().
FindGroup(r) ==
    /\ ~Running(r)
    /\ run' = [run EXCEPT ![r] = [NotRunning EXCEPT
                  !.stage = "roles", !.newGroup = (admins = 0), !.todo = Types]]
    /\ shared' = (shared \/ \E s \in Runs : Running(s))
    /\ UNCHANGED <<settings, dataTables, users, nextUser, loaded, edited>>

\* get_or_create() of the four roles, always in the same order and with unique
\* names: a second run waits here until the first one has ended.
GetRoles(r) ==
    /\ run[r].stage = "roles"
    /\ roles \/ \A s \in Runs : ~run[s].newRoles
    /\ run' = [run EXCEPT ![r].newRoles = ~roles, ![r].stage = "rest"]
    /\ UNCHANGED <<settings, dataTables, users, nextUser, loaded, shared, edited>>

\* _create_organization_types(): names are not unique, get() of two rows raises.
GetType(r, t) ==
    /\ run[r].stage = "rest"
    /\ t \in run[r].todo
    /\ IF types[t] > 1 THEN RollBack(r)
       ELSE run' = [run EXCEPT
              ![r].todo = @ \ {t},
              ![r].newTypes = IF types[t] = 0 THEN @ \cup {t} ELSE @]
    /\ UNCHANGED <<settings, dataTables, users, nextUser, loaded, shared, edited>>

\* A bug: the default organization is always created.
Mutant_GetDefaultOrg(r) ==
    /\ run[r].stage = "rest"
    /\ run[r].todo = {}
    /\ run' = [run EXCEPT ![r].stage = "findUser",
                          ![r].newOrg = settings.defaultOrg # NoName]
    /\ UNCHANGED <<settings, dataTables, users, nextUser, loaded, shared, edited>>

\* _create_default_organization(): get_or_create() by a name that is not unique.
GetDefaultOrg(r) ==
    LET named == Named(settings.defaultOrg) IN
    /\ run[r].stage = "rest"
    /\ run[r].todo = {}
    /\ \/ /\ settings.defaultOrg = NoName
          /\ run' = [run EXCEPT ![r].stage = "findUser"]
       \/ /\ settings.defaultOrg # NoName /\ named = {}
          /\ run' = [run EXCEPT ![r].stage = "findUser", ![r].newOrg = TRUE]
       \/ \E x \in OrgIds :
             /\ named = {x}
             /\ run' = [run EXCEPT ![r].stage = "findUser", ![r].org = x]
       \/ /\ Cardinality(named) > 1
          /\ RollBack(r)
    /\ UNCHANGED <<settings, dataTables, users, nextUser, loaded, shared, edited>>

\* _create_user(): only if nobody is a superuser and a password is configured.
FindSuperuser(r) ==
    /\ run[r].stage = "findUser"
    /\ run' = [run EXCEPT ![r].stage =
                  IF settings.password /\ ~\E u \in UserIds : Exists(u) /\ users[u].super
                  THEN "insertUser" ELSE "commit"]
    /\ UNCHANGED <<settings, dataTables, users, nextUser, loaded, shared, edited>>

\* create_superuser(): usernames are unique.
InsertSuperuser(r) ==
    /\ run[r].stage = "insertUser"
    /\ \A s \in Runs : ~run[s].newUser
    /\ IF \E u \in UserIds : Exists(u) /\ users[u].name = SuperName
       THEN RollBack(r)
       ELSE run' = [run EXCEPT ![r].newUser = TRUE, ![r].stage = "commit"]
    /\ UNCHANGED <<settings, dataTables, users, nextUser, loaded, shared, edited>>

\* The organization of a superuser must still be there, foreign keys are checked
\* at the end.
Commit(r) ==
    LET j == run[r]
        org == IF j.newOrg THEN nextOrg ELSE j.org IN
    /\ j.stage = "commit"
    /\ j.newOrg => nextOrg <= MaxOrgs
    /\ j.newUser => nextUser <= MaxUsers
    /\ RollBack(r)
    /\ IF j.newUser /\ j.org # NoOrg /\ orgs[j.org] = NoRow
       THEN UNCHANGED <<dataTables, users, nextUser, loaded>>
       ELSE /\ admins' = IF j.newGroup THEN admins + 1 ELSE admins
            /\ roles' = (roles \/ j.newRoles)
            /\ types' = [t \in Types |-> IF t \in j.newTypes THEN types[t] + 1
                                                             ELSE types[t]]
            /\ IF j.newOrg
               THEN /\ orgs' = [orgs EXCEPT ![nextOrg] = settings.defaultOrg]
                    /\ nextOrg' = nextOrg + 1
               ELSE UNCHANGED <<orgs, nextOrg>>
            /\ IF j.newUser
               THEN /\ users' = [users EXCEPT ![nextUser] =
                          [name |-> SuperName, org |-> org, active |-> TRUE,
                           super |-> TRUE]]
                    /\ nextUser' = nextUser + 1
               ELSE UNCHANGED <<users, nextUser>>
            /\ loaded' = TRUE
    /\ UNCHANGED <<settings, shared, edited>>

\* The container stops in the middle.
Killed(r) ==
    /\ Running(r)
    /\ RollBack(r)
    /\ UNCHANGED <<settings, dataTables, users, nextUser, loaded, shared, edited>>

-----------------------------------------------------------------------------
(* Administrators.                                                         *)

\* POST /organization/
PostOrg(n) ==
    /\ nextOrg <= MaxOrgs
    /\ orgs' = [orgs EXCEPT ![nextOrg] = n]
    /\ nextOrg' = nextOrg + 1
    /\ edited' = TRUE
    /\ UNCHANGED <<settings, admins, roles, types, users, nextUser, run, loaded,
                   shared>>

\* Who goes with an organization: CoreUser.organization cascades.
Belonging(x) == {u \in UserIds : Exists(u) /\ users[u].org = x}

\* DELETE /organization/<x>/
DeleteOrg(x) ==
    /\ orgs[x] # NoRow
    /\ orgs' = [orgs EXCEPT ![x] = NoRow]
    /\ users' = [u \in UserIds |-> IF u \in Belonging(x) THEN NoRow ELSE users[u]]
    /\ edited' = TRUE
    /\ UNCHANGED <<settings, admins, roles, types, nextOrg, nextUser, run, loaded,
                   shared>>

\* POST /organizationtype/
PostType(t) ==
    /\ types[t] < 2
    /\ types' = [types EXCEPT ![t] = @ + 1]
    /\ edited' = TRUE
    /\ UNCHANGED <<settings, admins, roles, orgs, users, nextOrg, nextUser, run,
                   loaded, shared>>

-----------------------------------------------------------------------------

Command(r) ==
    \/ FindGroup(r)
    \/ GetRoles(r)
    \/ \E t \in Types : GetType(r, t)
    \/ GetDefaultOrg(r)
    \/ FindSuperuser(r)
    \/ InsertSuperuser(r)
    \/ Commit(r)
    \/ Killed(r)

Edit ==
    \/ \E n \in OrgNames : PostOrg(n)
    \/ \E x \in OrgIds : DeleteOrg(x)
    \/ \E t \in Types : PostType(t)

NextData == (\E r \in Runs : Command(r)) \/ Edit

SpecData == InitData /\ [][NextData]_dataVars

-----------------------------------------------------------------------------
(* Properties.                                                             *)

DataTypeOK ==
    /\ settings \in [defaultOrg : DefaultOrgs, password : Passwords]
    /\ admins \in 0..Cardinality(Runs)
    /\ roles \in BOOLEAN
    /\ types \in [Types -> Nat]
    /\ orgs \in [OrgIds -> OrgNames \cup {NoRow}]
    /\ users \in [UserIds -> Row \cup {NoRow}]
    /\ nextOrg \in 1..(MaxOrgs + 1)
    /\ nextUser \in 1..(MaxUsers + 1)
    /\ run \in [Runs -> Run]
    /\ loaded \in BOOLEAN /\ shared \in BOOLEAN /\ edited \in BOOLEAN

Superusers == {u \in UserIds : Exists(u) /\ users[u].super}

\* "count() == 1" (buildly/tests/test_loadinitialdata.py), for any number of runs
\* on a new database, overlapping or killed: as soon as one has ended well, each
\* type and the default organization are there once, a superuser if a password
\* is configured, and the global group, of which only runs that overlap make
\* two.  Administrators' edits excepted.
LoadedOnce ==
    loaded /\ ~edited =>
        /\ roles
        /\ \A t \in Types : types[t] = 1
        /\ Cardinality(Named(settings.defaultOrg)) =
              (IF settings.defaultOrg = NoName THEN 0 ELSE 1)
        /\ Cardinality(Superusers) = (IF settings.password THEN 1 ELSE 0)
        /\ admins >= 1
        /\ admins > 1 => shared
=============================================================================
