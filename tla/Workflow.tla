------------------------------ MODULE Workflow ------------------------------
(***************************************************************************)
(* The workflow levels (workflow/models.py), the view sets that write them *)
(* (workflow/views) and the groups that decide who may (Permissions).      *)
(*                                                                         *)
(* A WorkflowLevel1 has groups, users with access, and children that refer *)
(* to it: WorkflowLevel2 rows, and team and sort rows, which may refer to  *)
(* none.  One action is one committed statement; a deletion first reads    *)
(* the WorkflowLevel2 rows it will take along and then commits everything  *)
(* in one transaction.                                                     *)
(***************************************************************************)
EXTENDS Permissions

CONSTANTS
    Workers,      \* gunicorn workers
    Orgs,
    GroupIds,
    GlobalGroups, \* is_global
    OrgGroups,    \* is_org_level
    GroupOrg,     \* group -> organization
    Grants,       \* bound: group -> the sets of verbs it is ever given
    Users,        \* [org, active, superuser, groups] with groups a set of ids
    Actors,       \* bound: the users that send requests
    Lists,        \* bound: the lists of groups that requests send
    Members,      \* bound: the lists of users that requests send
    NewOrgs,      \* bound: the organizations that a PUT names
    MaxLevel1,    \* bound: WorkflowLevel1 rows ever inserted
    MaxChildren,  \* bound: children ever inserted
    NoRow         \* no row has this primary key, or the request names no value

Level1Ids == 1..MaxLevel1
ChildIds  == 1..MaxChildren
ChildKinds == {"level2", "team", "sort"}

Null == "null"

\* A WorkflowLevel1 row: its organization, which may be null.
Level1 == Orgs \cup {Null}

ASSUME ConstantsAssumption ==
    /\ MaxLevel1 \in Nat /\ MaxChildren \in Nat
    /\ GlobalGroups \subseteq GroupIds /\ OrgGroups \subseteq GroupIds
    /\ GroupOrg \in [GroupIds -> Orgs]
    /\ Grants \in [GroupIds -> (SUBSET SUBSET Verbs) \ {{}}]
    /\ Users \subseteq [org : Orgs, active : BOOLEAN, superuser : BOOLEAN,
                        groups : SUBSET GroupIds]
    /\ Actors \subseteq Users
    /\ Lists \subseteq SUBSET GroupIds
    /\ Members \subseteq SUBSET Actors
    /\ NewOrgs \subseteq Level1
    /\ NoRow \notin Level1

\* A row that refers to a WorkflowLevel1, 0 being the null reference.
Child == [kind : ChildKinds, level1 : {0} \cup Level1Ids]

VARIABLES
    column,      \* CoreGroup.permissions
    level1,      \* the WorkflowLevel1 table: id -> organization
    levelGroups, \* WorkflowLevel1.core_groups
    access,      \* WorkflowLevel1.user_access
    children,    \* the tables of children: id -> row
    nextLevel1,  \* fresh primary keys
    nextChild,
    job,         \* what each worker is doing
    granted,     \* history: the verbs a group was last given
    owner        \* history: for whom a level was created, NoRow once a PUT named
                 \* other users or brought the level back, or its POST was killed

level1Tables == <<level1, levelGroups, access, nextLevel1, owner>>
childTables  == <<children, nextChild>>
grants == <<column, granted>>
vars == <<column, level1, levelGroups, access, children, nextLevel1, nextChild,
          job, granted, owner>>

-----------------------------------------------------------------------------

Job == [op    : {"idle", "post", "put", "delete", "postChild", "putChild",
                 "deleteChild"},
        stage : {"save", "setAccess", "setGroups", "addAccess", "collect", "commit", "done"},
        user  : Actors \cup {NoRow},              \* whom a POST gives access
        id    : {0} \cup Level1Ids,
        org   : Level1,
        wants : Lists \cup {NoRow},               \* core_groups of the request
        users : Members \cup {NoRow},             \* user_access of the request
        kids  : SUBSET ChildIds,                  \* Collector.data
        child : {0} \cup ChildIds,
        row   : Child \cup {NoRow}]

NoJob == [op |-> "idle", stage |-> "done", user |-> NoRow, id |-> 0, org |-> Null,
          wants |-> NoRow, users |-> NoRow, kids |-> {}, child |-> 0, row |-> NoRow]

Idle(w) == job[w].op = "idle"

At(w, ops, stage) == job[w].op \in ops /\ job[w].stage = stage

Goto(w, stage) == job' = [job EXCEPT ![w].stage = stage]

End(w) == job' = [job EXCEPT ![w] = NoJob]

Exists(x) == x # 0 /\ level1[x] # NoRow

There(c) == c # 0 /\ children[c] # NoRow

\* The parents a row of this kind may name: workflowlevel1 is null=True but in
\* WorkflowLevel2.
Parents(kind) == {x \in Level1Ids : Exists(x)}
                     \cup (IF kind = "level2" THEN {} ELSE {0})

CanStore(row) == row.level1 = 0 \/ Exists(row.level1)

-----------------------------------------------------------------------------
(* Who may do what.                                                        *)

GroupRow(g) == [id |-> g, org |-> GroupOrg[g], isGlobal |-> g \in GlobalGroups,
                isOrgLevel |-> g \in OrgGroups, permissions |-> column[g]]

\* request.user, with the rows of its groups.
Loaded(u) == [u EXCEPT !.groups = {GroupRow(g) : g \in u.groups}]

GroupsOf(x) == IF Exists(x) THEN {GroupRow(g) : g \in levelGroups[x]} ELSE {}

OrgOf(x) == IF Exists(x) THEN level1[x] ELSE Null

\* The groups that decide a POST below x; without a WorkflowLevel1, those of the
\* row it names as its WorkflowLevel2, if there is one.
Deciding(x, via) ==
    IF x # 0 THEN GroupsOf(x)
    ELSE IF There(via) /\ children[via].kind = "level2"
         THEN GroupsOf(children[via].level1)
         ELSE {}

\* permission_classes of WorkflowLevel1ViewSet: who may POST, naming an
\* organization or none and a WorkflowLevel2 or none.
MayPost(u, named, via) ==
    /\ GroupsPermit(Loaded(u), "create", Deciding(0, via))
    /\ MemberRequest(Loaded(u), "create", named, FALSE)

MayLevel1(u, action, x) ==
    /\ GroupsPermit(Loaded(u), action, {})
    /\ ObjectPermit(Loaded(u), action, TRUE, {})
    /\ MemberPermit(Loaded(u), OrgOf(x))

\* permission_classes of the three view sets of children: sort rows are decided
\* by IsOrgMember alone, team rows by the groups alone.
MayPostChild(u, kind, x, via) ==
    /\ kind # "sort" => GroupsPermit(Loaded(u), "create", Deciding(x, via))
    /\ kind # "team" => MemberRequest(Loaded(u), "create", {}, FALSE)

\* For a team row without WorkflowLevel1 the code raises an exception where the
\* groups would decide: nobody but an administrator gets through.
MayChild(u, action, kind, x) ==
    /\ kind # "sort" => /\ GroupsPermit(Loaded(u), action, {})
                        /\ ObjectPermit(Loaded(u), action, FALSE, GroupsOf(x))
    /\ kind # "team" => MemberPermit(Loaded(u), OrgOf(x))

\* CoreUserViewSet.get_permissions(): to change an account of an organization, or
\* to invite somebody.
MayChangeUser(u, action, org) ==
    /\ OrgAdminPermit(Loaded(u))
    /\ MemberRequest(Loaded(u), action, {}, FALSE)
    /\ action # "invite" => MemberPermit(Loaded(u), org)

\* CoreGroupViewSet: a POST, which names an organization or none, and the rest.
MayPostGroup(u, named) == MemberRequest(Loaded(u), "create", named, TRUE)

MayGroup(u, action, org) ==
    MemberRequest(Loaded(u), action, {}, TRUE) /\ MemberPermit(Loaded(u), org)

-----------------------------------------------------------------------------

Init ==
    /\ granted \in [GroupIds -> SUBSET Verbs]
    /\ \A g \in GroupIds : granted[g] \in Grants[g]
    /\ column = [g \in GroupIds |-> ToInternal(granted[g])]
    /\ level1 = [x \in Level1Ids |-> NoRow]
    /\ levelGroups = [x \in Level1Ids |-> {}]
    /\ access = [x \in Level1Ids |-> {}]
    /\ children = [c \in ChildIds |-> NoRow]
    /\ nextLevel1 = 1
    /\ nextChild = 1
    /\ job = [w \in Workers |-> NoJob]
    /\ owner = [x \in Level1Ids |-> NoRow]

\* PUT /coregroups/<g>/ with permissions.
Grant(w, g, verbs) ==
    /\ Idle(w)
    /\ column' = [column EXCEPT ![g] = ToInternal(verbs)]
    /\ granted' = [granted EXCEPT ![g] = verbs]
    /\ UNCHANGED <<level1Tables, childTables, job>>

-----------------------------------------------------------------------------
(* WorkflowLevel1ViewSet                                                   *)

\* A request need not name user_access or core_groups.
NamedUsers == Members \cup {NoRow}

NamedGroups == Lists \cup {NoRow}

\* What a request does after its row was saved, and after user_access was set.
Finally(op) == IF op = "post" THEN "addAccess" ELSE "done"

ThenGroups(op, gs) == IF gs = NoRow THEN Finally(op) ELSE "setGroups"

ThenAccess(op, us, gs) == IF us = NoRow THEN ThenGroups(op, gs) ELSE "setAccess"

Proceed(w, stage) == IF stage = "done" THEN End(w) ELSE Goto(w, stage)

\* POST: perform_create() puts it into the user's organization.
PostLevel1(w, u) ==
    /\ Idle(w)
    /\ nextLevel1 <= MaxLevel1
    /\ \E named \in {{}} \cup {{org} : org \in Orgs}, via \in {0} \cup ChildIds :
          MayPost(u, named, via)
    /\ level1' = [level1 EXCEPT ![nextLevel1] = u.org]
    /\ owner' = [owner EXCEPT ![nextLevel1] = u]
    /\ nextLevel1' = nextLevel1 + 1
    /\ \E us \in NamedUsers, gs \in NamedGroups :
          job' = [job EXCEPT ![w] = [NoJob EXCEPT
                    !.op = "post", !.stage = ThenAccess("post", us, gs),
                    !.user = u, !.id = nextLevel1, !.users = us, !.wants = gs]]
    /\ UNCHANGED <<levelGroups, access, childTables, grants>>

\* user_access.set(), after the row was saved.  A list that is not empty is
\* refused, and the request with it, if the level is gone.
SetAccess(w) ==
    LET x == job[w].id
        us == job[w].users IN
    /\ At(w, {"post", "put"}, "setAccess")
    /\ IF Exists(x) \/ us = {}
       THEN /\ access' = [access EXCEPT ![x] = us]
            /\ owner' = IF job[w].op = "put" THEN [owner EXCEPT ![x] = NoRow]
                        ELSE owner
            /\ Proceed(w, ThenGroups(job[w].op, job[w].wants))
       ELSE /\ End(w)
            /\ UNCHANGED <<access, owner>>
    /\ UNCHANGED <<level1, levelGroups, nextLevel1, childTables, grants>>

\* A bug: the user is added only if the request names no groups.
Mutant_SetGroups(w) ==
    LET x == job[w].id
        gs == job[w].wants IN
    /\ At(w, {"post", "put"}, "setGroups")
    /\ levelGroups' = IF Exists(x) THEN [levelGroups EXCEPT ![x] = gs]
                      ELSE levelGroups
    /\ End(w)
    /\ UNCHANGED <<level1, access, nextLevel1, owner, childTables, grants>>

\* core_groups.set(), in the same way.
SetGroups(w) ==
    LET x == job[w].id
        gs == job[w].wants IN
    /\ At(w, {"post", "put"}, "setGroups")
    /\ IF Exists(x) \/ gs = {}
       THEN /\ levelGroups' = [levelGroups EXCEPT ![x] = gs]
            /\ Proceed(w, Finally(job[w].op))
       ELSE /\ End(w)
            /\ UNCHANGED levelGroups
    /\ UNCHANGED <<level1, access, nextLevel1, owner, childTables, grants>>

\* obj.user_access.add(request.user)
AddAccess(w) ==
    /\ At(w, {"post"}, "addAccess")
    /\ access' = IF Exists(job[w].id)
                 THEN [access EXCEPT ![job[w].id] = @ \cup {job[w].user}]
                 ELSE access
    /\ End(w)
    /\ UNCHANGED <<level1, levelGroups, nextLevel1, owner, childTables, grants>>

\* PUT and DELETE: get_object() reads the row and decides.
OpenPut(w, u, x) ==
    /\ Idle(w)
    /\ Exists(x)
    /\ MayLevel1(u, "update", x)
    /\ \E org \in NewOrgs, us \in NamedUsers, gs \in NamedGroups :
          job' = [job EXCEPT ![w] = [NoJob EXCEPT
                    !.op = "put", !.stage = "save", !.id = x, !.org = org,
                    !.users = us, !.wants = gs]]
    /\ UNCHANGED <<level1Tables, childTables, grants>>

OpenDelete(w, u, x) ==
    /\ Idle(w)
    /\ Exists(x)
    /\ MayLevel1(u, "destroy", x)
    /\ job' = [job EXCEPT ![w] = [NoJob EXCEPT
                    !.op = "delete", !.stage = "collect", !.id = x]]
    /\ UNCHANGED <<level1Tables, childTables, grants>>

\* save() writes the row or, if it is gone, inserts it again: without groups,
\* access and children.
SaveLevel1(w) ==
    /\ At(w, {"put"}, "save")
    /\ level1' = [level1 EXCEPT ![job[w].id] = job[w].org]
    /\ owner' = IF Exists(job[w].id) THEN owner
                ELSE [owner EXCEPT ![job[w].id] = NoRow]
    /\ Proceed(w, ThenAccess("put", job[w].users, job[w].wants))
    /\ UNCHANGED <<levelGroups, access, nextLevel1, childTables, grants>>

\* Collector.collect(): the WorkflowLevel2 rows are read now, the rows that
\* nothing refers to (team, sort, groups, access) are selected by the DELETE.
CollectLevel1(w) ==
    /\ At(w, {"delete"}, "collect")
    /\ job' = [job EXCEPT
         ![w].kids = {c \in ChildIds : There(c) /\ children[c].kind = "level2"
                                                /\ children[c].level1 = job[w].id},
         ![w].stage = "commit"]
    /\ UNCHANGED <<level1Tables, childTables, grants>>

\* Collector.delete(), refused if a row collect() has not seen refers to the
\* level.
DeleteLevel1(w) ==
    LET x == job[w].id
        refers(c) == There(c) /\ children[c].level1 = x
        taken == job[w].kids \cup
                 {c \in ChildIds : refers(c) /\ children[c].kind # "level2"} IN
    /\ At(w, {"delete"}, "commit")
    /\ IF \E c \in ChildIds \ taken : refers(c)
       THEN UNCHANGED <<level1, levelGroups, access, children>>
       ELSE /\ level1' = [level1 EXCEPT ![x] = NoRow]
            /\ levelGroups' = [levelGroups EXCEPT ![x] = {}]
            /\ access' = [access EXCEPT ![x] = {}]
            /\ children' = [c \in ChildIds |-> IF c \in taken THEN NoRow
                                               ELSE children[c]]
    /\ End(w)
    /\ UNCHANGED <<nextLevel1, owner, nextChild, grants>>

-----------------------------------------------------------------------------
(* WorkflowLevel2ViewSet, WorkflowTeamViewSet, WorkflowLevel2SortViewSet   *)

\* POST: the parent is validated and the groups decide.
PostChild(w, u, kind, x) ==
    /\ Idle(w)
    /\ nextChild <= MaxChildren
    /\ x \in Parents(kind)
    /\ \E via \in {0} \cup ChildIds : MayPostChild(u, kind, x, via)
    /\ job' = [job EXCEPT ![w] = [NoJob EXCEPT
                    !.op = "postChild", !.stage = "save",
                    !.child = nextChild, !.row = [kind |-> kind, level1 |-> x]]]
    /\ nextChild' = nextChild + 1
    /\ UNCHANGED <<level1Tables, children, grants>>

\* PUT and DELETE: get_object() reads the row and decides; the parent a PUT
\* names is validated.
OpenPutChild(w, u, c) ==
    /\ Idle(w)
    /\ There(c)
    /\ MayChild(u, "update", children[c].kind, children[c].level1)
    /\ \E x \in Parents(children[c].kind) :
          job' = [job EXCEPT ![w] = [NoJob EXCEPT
                    !.op = "putChild", !.stage = "save", !.child = c,
                    !.row = [children[c] EXCEPT !.level1 = x]]]
    /\ UNCHANGED <<level1Tables, childTables, grants>>

OpenDeleteChild(w, u, c) ==
    /\ Idle(w)
    /\ There(c)
    /\ MayChild(u, "destroy", children[c].kind, children[c].level1)
    /\ job' = [job EXCEPT ![w] = [NoJob EXCEPT
                    !.op = "deleteChild", !.stage = "save", !.child = c]]
    /\ UNCHANGED <<level1Tables, childTables, grants>>

\* INSERT, or UPDATE and, if the row is gone, INSERT.
SaveChild(w) ==
    /\ At(w, {"postChild", "putChild"}, "save")
    /\ children' = IF CanStore(job[w].row)
                   THEN [children EXCEPT ![job[w].child] = job[w].row]
                   ELSE children
    /\ End(w)
    /\ UNCHANGED <<level1Tables, nextChild, grants>>

DeleteChild(w) ==
    /\ At(w, {"deleteChild"}, "save")
    /\ children' = [children EXCEPT ![job[w].child] = NoRow]
    /\ End(w)
    /\ UNCHANGED <<level1Tables, nextChild, grants>>

-----------------------------------------------------------------------------

\* gunicorn kills a worker that takes too long.
Timeout(w) ==
    /\ ~Idle(w)
    /\ owner' = IF job[w].op = "post" THEN [owner EXCEPT ![job[w].id] = NoRow]
                ELSE owner
    /\ End(w)
    /\ UNCHANGED <<level1, levelGroups, access, nextLevel1, childTables, grants>>

Request(w, u) ==
    \/ PostLevel1(w, u)
    \/ \E x \in Level1Ids : OpenPut(w, u, x) \/ OpenDelete(w, u, x)
    \/ \E kind \in ChildKinds, x \in {0} \cup Level1Ids : PostChild(w, u, kind, x)
    \/ \E c \in ChildIds : OpenPutChild(w, u, c) \/ OpenDeleteChild(w, u, c)

Next ==
    \E w \in Workers :
        \/ \E u \in Actors : Request(w, u)
        \/ \E g \in GroupIds : \E verbs \in Grants[g] : Grant(w, g, verbs)
        \/ SetAccess(w)
        \/ SetGroups(w)
        \/ AddAccess(w)
        \/ SaveLevel1(w)
        \/ CollectLevel1(w)
        \/ DeleteLevel1(w)
        \/ SaveChild(w)
        \/ DeleteChild(w)
        \/ Timeout(w)

Spec == Init /\ [][Next]_vars

-----------------------------------------------------------------------------
(* Properties.                                                             *)

\* The types of the tables and the jobs.
TypeOK ==
    /\ column \in [GroupIds -> 0..15]
    /\ level1 \in [Level1Ids -> Level1 \cup {NoRow}]
    /\ levelGroups \in [Level1Ids -> SUBSET GroupIds]
    /\ access \in [Level1Ids -> SUBSET Actors]
    /\ children \in [ChildIds -> Child \cup {NoRow}]
    /\ nextLevel1 \in 1..(MaxLevel1 + 1)
    /\ nextChild \in 1..(MaxChildren + 1)
    /\ job \in [Workers -> Job]
    /\ granted \in [GroupIds -> SUBSET Verbs]
    /\ owner \in [Level1Ids -> Actors \cup {NoRow}]

\* A POST of a WorkflowLevel1 saves the row, its users, its groups and its creator's
\* access in statements of their own (WorkflowLevel1ViewSet.perform_create()), and
\* other requests may rewrite, delete and bring back the row between them.  A level
\* that its creator has no access to is still being created, or its POST was
\* killed, or a PUT named its users or brought it back after a deletion.
CreatorsHaveAccess ==
    \A x \in Level1Ids :
        Exists(x) /\ owner[x] # NoRow =>
            \/ owner[x] \in access[x]
            \/ \E w \in Workers : /\ job[w].op = "post" /\ job[w].id = x
                                  /\ job[w].user = owner[x]

\* "Permissions are granted to CoreUsers by their CoreGroups"
\* (docs/model/permissions.rst): who holds a verb in this way.
Holds(u, verb, gs) == \E g \in u.groups \cap gs : verb \in granted[g]

Administers(u, gs) == \E g \in u.groups \cap gs : granted[g] = Verbs

Global(u) == u.superuser \/ Administers(u, GlobalGroups)

\* Between requests.  Decisions read the tables, and a request can be killed at
\* any moment: whatever the tables are, they are so in a quiet state.
Quiet == \A w \in Workers : Idle(w)

Verb == [create |-> "create", retrieve |-> "read", update |-> "update",
         destroy |-> "delete"]

\* What "may" be done to something of another organization: anything by a global
\* administrator, nothing by somebody without a global group.
Outside(u, may) ==
    /\ u.active /\ Global(u) => may
    /\ may => u.active /\ (u.superuser \/ u.groups \cap GlobalGroups # {})

\* A level of the user's organization, and its children.
LevelsFollow(u, x) ==
    /\ \A kind \in {"level2", "team"} :
          MayPostChild(u, kind, x, 0) <=>
             u.active /\ \/ Global(u)
                         \/ Holds(u, "create", GlobalGroups \cup OrgGroups)
                         \/ Holds(u, "create", levelGroups[x])
    /\ \A action \in {"retrieve", "update", "destroy"} :
          /\ MayChild(u, action, "level2", x) <=>
                u.active /\ \/ Global(u)
                            \/ Administers(u, OrgGroups)
                            \/ Holds(u, Verb[action], levelGroups[x])
          /\ MayLevel1(u, action, x) <=>
                u.active /\ (Global(u) \/ Holds(u, Verb[action], OrgGroups))

LevelsOutside(u, x) ==
    \A action \in {"retrieve", "update", "destroy"} :
        /\ Outside(u, MayChild(u, action, "level2", x))
        /\ Outside(u, MayLevel1(u, action, x))

\* The accounts and groups of the user's organization.
AccountsFollow(u) ==
    /\ \A action \in {"update", "partial_update", "invite"} :
          MayChangeUser(u, action, u.org) <=>
             u.active /\ (Global(u) \/ Administers(u, OrgGroups))
    /\ MayPost(u, {u.org}, 0) <=>
          u.active /\ (Global(u) \/ Holds(u, "create", GlobalGroups \cup OrgGroups))
    /\ MayPostGroup(u, {u.org}) <=> u.active
    /\ MayPostGroup(u, {}) <=> u.active /\ Global(u)
    /\ \A action \in {"retrieve", "update", "destroy"} :
          MayGroup(u, action, u.org) <=> u.active

AccountsOutside(u, org) ==
    /\ \A action \in {"update", "partial_update"} :
          Outside(u, MayChangeUser(u, action, org))
    /\ Outside(u, MayPost(u, {org}, 0))
    /\ Outside(u, MayPostGroup(u, {org}))
    /\ \A action \in {"retrieve", "update", "destroy"} :
          Outside(u, MayGroup(u, action, org))

\* "CoreGroups can only have permissions defined to entities within their
\* Organization", the global ones excepted (docs/model/permissions.rst).
InOrder(u) == \A g \in u.groups \ GlobalGroups : GroupOrg[g] = u.org

\* What the permission classes decide from digits in a string, with the values
\* merged over groups, is for a user with groups of the own organization what the
\* verbs given to the groups say.  In the organization an active user creates
\* levels, and children below them, by a global or organization group, children
\* also by a group of the level; reads, changes and deletes a child by the level's
\* groups and a level by the organization's; and changes accounts with all verbs.
\* What belongs to another organization is for global groups
\* (core/permissions.py, workflow/permissions.py, CoreUserViewSet,
\* CoreGroupViewSet).  Two things that the document says differently are left
\* open: who may POST below a level of another organization, and whether a global
\* group without all verbs reaches the other organizations.
DecisionsFollowGrants ==
    Quiet => \A u \in Users : InOrder(u) =>
        /\ \A x \in Level1Ids : Exists(x) =>
               IF level1[x] = u.org THEN LevelsFollow(u, x) ELSE LevelsOutside(u, x)
        /\ AccountsFollow(u)
        /\ \A org \in Orgs \ {u.org} : AccountsOutside(u, org)

\* The gateway (gateway/permissions.py) lets a request through to a module that
\* no group concerns, and otherwise if a group of the module, global or of the
\* user's organization, was given the verb of the method.
GatewayFollowsGrants ==
    LET verb == [POST |-> "create", GET |-> "read", PUT |-> "update",
                 PATCH |-> "update", DELETE |-> "delete", HEAD |-> "read",
                 OPTIONS |-> "read"] IN
    Quiet => \A of \in SUBSET GroupIds, org \in Orgs :
        LET rows    == {GroupRow(g) : g \in of}
            concern == {g \in of : \/ g \in GlobalGroups
                                   \/ g \in OrgGroups /\ GroupOrg[g] = org} IN
        \A method \in DOMAIN verb :
            GatewayPermit([org |-> org, superuser |-> FALSE], method, rows) <=>
                concern = {} \/ \E g \in concern : verb[method] \in granted[g]
=============================================================================
