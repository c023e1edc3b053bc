------------------------------ MODULE Accounts ------------------------------
(***************************************************************************)
(* Organizations, their groups and their users (core/models.py), and the   *)
(* requests that write them: registration, invitation, profile update,     *)
(* password reset (core/serializers.py, core/views/coreuser.py), the PATCH *)
(* of an organization's admin, and the view sets of organizations and      *)
(* groups.                                                                 *)
(*                                                                         *)
(* Nothing runs in a request-wide transaction: one action is one committed *)
(* statement, or the statements of one atomic block.  CoreUser.save() and  *)
(* Organization.save() drop their arguments, so that each writes every     *)
(* column of the instance the request read, and inserts the row again if   *)
(* it is no longer there.                                                  *)
(***************************************************************************)
EXTENDS Integers, FiniteSets

CONSTANTS
    Workers,    \* gunicorn workers
    OrgNames,   \* organization names that requests spell
    Usernames,
    Emails,
    MaxOrgs,    \* bound: organizations ever inserted
    MaxUsers,   \* bound: users ever inserted
    MaxHashes,  \* bound: passwords hashed
    Listed,     \* bound: groups that requests name
    Patches,    \* bound: the sets of fields that a PATCH of a user names
    NoRow,      \* no row has this primary key
    Scenarios   \* what happens together: kinds of request and of failure, the
                \* workers, and a bound on the passwords hashed

Kinds == {"register", "invite", "patch", "groups", "profile", "reset", "orgcreate",
          "orgput", "orgdelete", "groupdelete", "mailfail", "timeout"}

\* What a PATCH of a user may change of the modelled columns.
Fields == {"username", "email", "active", "password", "groups"}

ASSUME ConstantsAssumption ==
    /\ MaxOrgs \in Nat /\ MaxUsers \in Nat /\ MaxHashes \in Nat
    /\ OrgNames # {} /\ Usernames # {} /\ Emails # {} /\ IsFiniteSet(Workers)
    /\ Patches \subseteq SUBSET Fields
    /\ Scenarios \subseteq [ops : SUBSET Kinds, workers : SUBSET Workers, hashes : 0..MaxHashes]

OrgIds  == 1..MaxOrgs
UserIds == 1..MaxUsers

\* The groups an organization is made with: "Admins" (the only one with
\* PERMISSIONS_ORG_ADMIN) and "Users" (the default one).
Groups == OrgIds \X {"Admins", "Users"}

\* A password column holds the text as sent, or the n-th hash made (each has a
\* salt of its own).
Raw    == 0
Hashes == 1..MaxHashes

Row == [name : Usernames, email : Emails, org : OrgIds, active : BOOLEAN,
        pw : {Raw} \cup Hashes]

ASSUME SentinelsAssumption ==
    Listed \subseteq Groups /\ NoRow \notin Row /\ NoRow \notin OrgNames

VARIABLES
    scenario,  \* one of Scenarios, for good
    orgs,      \* the Organization table: id -> name
    groups,    \* the CoreGroup table
    users,     \* the CoreUser table
    member,    \* CoreUser.core_groups
    nextOrg,   \* fresh primary keys, and hashes
    nextUser,
    nextHash,
    invited,   \* emails an invitation was sent to
    links,     \* password links sent: <<user, the columns it is made from>>
    job,       \* what each worker is doing
    approved,  \* history: users who founded their organization, were invited,
               \* or were activated by an admin
    regrouped, \* history: users whose groups an admin or a cascade took away
    promised,  \* history: the hash of the password last answered as set
    spent      \* history: links a password was changed with

orgTables  == <<orgs, groups, nextOrg, scenario>>
userTables == <<users, member, nextUser, nextHash>>
sent    == <<invited, links>>
history == <<approved, regrouped, promised, spent>>
vars    == <<scenario, orgs, groups, nextOrg, users, member, nextUser, nextHash,
             invited, links, job, approved, regrouped, promised, spent>>

-----------------------------------------------------------------------------

Job == [op    : {"idle", "register", "patch", "profile", "confirm", "orgput",
                 "orgdelete"},
        stage : {"getOrg", "makeOrg", "insert", "defaultGroups", "joinDefaults",
                 "password", "mail", "adminGroup", "addGroups", "save", "findOrg",
                 "setGroups", "done"},
        orgName : OrgNames \cup {NoRow},
        org   : OrgIds \cup {0},
        isNew : BOOLEAN,               \* is_new_org
        token : BOOLEAN,               \* an invitation_token was sent
        wants : SUBSET Groups,         \* core_groups asked for
        user  : UserIds \cup {0},
        row   : Row \cup {NoRow},      \* the instance held in memory
        fields : SUBSET Fields,        \* what a PATCH or a profile update sets
        gone  : SUBSET UserIds,        \* users a deletion has collected
        answer : {"none", "ok"}]         \* of an idle worker, its last one

NoJob == [op |-> "idle", stage |-> "done", orgName |-> NoRow, org |-> 0,
          isNew |-> FALSE, token |-> FALSE, wants |-> {}, user |-> 0,
          row |-> NoRow, fields |-> {}, gone |-> {}, answer |-> "none"]

Idle(w) == job[w].op = "idle"

Serial == Cardinality(scenario.workers) = 1

\* A worker that may take a request.
Free(w) == Idle(w) /\ w \in scenario.workers

At(w, op, stage) == job[w].op = op /\ job[w].stage = stage

Goto(w, stage) == job' = [job EXCEPT ![w].stage = stage]

\* The request ends, answered 200 or 201, or with an error.
Ok(w)   == job' = [job EXCEPT ![w] = [NoJob EXCEPT !.answer = "ok"]]
Fail(w) == job' = [job EXCEPT ![w] = NoJob]

Exists(u) == u # 0 /\ users[u] # NoRow

Named(n) == {x \in OrgIds : orgs[x] = n}

\* Foreign key and unique username.
CanStore(u, row) ==
    /\ orgs[row.org] # NoRow
    /\ \A v \in UserIds \ {u} : Exists(v) => users[v].name # row.name

Init ==
    /\ scenario \in Scenarios
    /\ orgs = [x \in OrgIds |-> NoRow]
    /\ groups = {}
    /\ nextOrg = 1
    /\ users = [u \in UserIds |-> NoRow]
    /\ member = [u \in UserIds |-> {}]
    /\ nextUser = 1
    /\ nextHash = 1
    /\ invited = {}
    /\ links = {}
    /\ job = [w \in Workers |-> NoJob]
    /\ approved = {}
    /\ regrouped = {}
    /\ promised = [u \in UserIds |-> Raw]
    /\ spent = {}

-----------------------------------------------------------------------------
(* Registration: POST /coreuser/.                                          *)

\* Bounds: room for the rows that registrations under way may still insert.
Inserting == {w \in Workers : /\ job[w].op = "register"
                              /\ job[w].stage \in {"getOrg", "makeOrg", "insert"}}
RoomForUser == nextUser + Cardinality(Inserting) <= MaxUsers
RoomForOrg  == nextOrg + Cardinality(Inserting) <= MaxOrgs

\* Bound: requests under way that may still hash a password.
Hashing == {w \in Workers : \/ job[w].op \in {"register", "confirm"}
                            \/ job[w].op = "profile" /\ "password" \in job[w].fields}
RoomForHash == nextHash + Cardinality(Hashing) <= scenario.hashes

\* A bug: a token is taken although the email has an account.
Mutant_TokenValid(e) == e \in invited

\* validate_invitation_token(): a token was sent to this email, which has no
\* account.
TokenValid(e) == /\ e \in invited
                 /\ \A u \in UserIds : Exists(u) => users[u].email # e

\* The request is validated: the username is free, the groups asked for exist,
\* and a token is valid.  (row.org and row.active are set below.)
Register(w, n, e, o, t, gs) ==
    /\ Free(w)
    /\ "register" \in scenario.ops
    /\ RoomForUser /\ RoomForHash
    /\ RoomForOrg \/ Named(o) # {}
    /\ \A u \in UserIds : Exists(u) => users[u].name # n
    /\ t => TokenValid(e)
    /\ job' = [job EXCEPT ![w] = [NoJob EXCEPT
                    !.op = "register", !.stage = "getOrg", !.orgName = o,
                    !.token = t, !.wants = gs,
                    !.row = [name |-> n, email |-> e, org |-> 1,
                             active |-> FALSE, pw |-> Raw]]]
    /\ UNCHANGED <<orgTables, userTables, sent, history>>

\* A bug: an organization without users counts as a new one.
Mutant_GetOrg(w) ==
    /\ At(w, "register", "getOrg")
    /\ \/ /\ Named(job[w].orgName) = {}
          /\ Goto(w, "makeOrg")
       \/ \E x \in OrgIds :
             /\ Named(job[w].orgName) = {x}
             /\ job' = [job EXCEPT ![w].org = x, ![w].stage = "insert",
                                   ![w].isNew = \A u \in UserIds :
                                       Exists(u) => users[u].org # x]
    /\ UNCHANGED <<orgTables, userTables, sent, history>>

\* get_or_create(name=...), the SELECT; the name is not unique.
GetOrg(w) ==
    /\ At(w, "register", "getOrg")
    /\ \/ /\ Named(job[w].orgName) = {}
          /\ Goto(w, "makeOrg")
       \/ \E x \in OrgIds :
             /\ Named(job[w].orgName) = {x}
             /\ job' = [job EXCEPT ![w].org = x, ![w].stage = "insert"]
       \/ /\ Cardinality(Named(job[w].orgName)) > 1
          /\ Fail(w)
    /\ UNCHANGED <<orgTables, userTables, sent, history>>

\* An organization is inserted together with its two groups.
InsertOrg(o) ==
    /\ nextOrg <= MaxOrgs
    /\ orgs' = [orgs EXCEPT ![nextOrg] = o]
    /\ groups' = groups \cup ({nextOrg} \X {"Admins", "Users"})
    /\ nextOrg' = nextOrg + 1

MakeOrg(w) ==
    /\ At(w, "register", "makeOrg")
    /\ InsertOrg(job[w].orgName)
    /\ job' = [job EXCEPT ![w].org = nextOrg, ![w].isNew = TRUE,
                          ![w].stage = "insert"]
    /\ UNCHANGED <<scenario, userTables, sent, history>>

\* A bug: is_active is left as the model's default has it.
Mutant_NewRow(j) == [j.row EXCEPT !.org = j.org, !.active = TRUE]

NewRow(j) == [j.row EXCEPT !.org = j.org, !.active = j.isNew \/ j.token]

\* The user is inserted with the password as sent; an IntegrityError leaves the
\* organization behind without it.
InsertUser(w) ==
    LET row == NewRow(job[w]) IN
    /\ At(w, "register", "insert")
    /\ IF CanStore(nextUser, row)
       THEN /\ users' = [users EXCEPT ![nextUser] = row]
            /\ nextUser' = nextUser + 1
            /\ approved' = IF job[w].isNew \/ job[w].token
                           THEN approved \cup {nextUser} ELSE approved
            /\ job' = [job EXCEPT ![w].user = nextUser, ![w].row = row,
                                  ![w].stage = "defaultGroups"]
       ELSE /\ Fail(w)
            /\ UNCHANGED <<users, nextUser, approved>>
    /\ UNCHANGED <<orgTables, member, nextHash, sent, regrouped, promised, spent>>

\* Rows of the many-to-many table, whose foreign keys must hold.
JoinGroups(w, gs, next) ==
    IF gs = {} \/ (Exists(job[w].user) /\ gs \subseteq groups)
    THEN /\ member' = [member EXCEPT ![job[w].user] = @ \cup gs]
         /\ next
    ELSE /\ Fail(w)
         /\ UNCHANGED member

\* CoreUser.save() of a new user: the default groups of its organization are
\* looked up,
FindDefaultGroups(w) ==
    /\ At(w, "register", "defaultGroups")
    /\ Goto(w, IF <<job[w].org, "Users">> \in groups THEN "joinDefaults" ELSE "password")
    /\ UNCHANGED <<orgTables, userTables, sent, history>>

\* and the user is put into them.
AddDefaultGroups(w) ==
    /\ At(w, "register", "joinDefaults")
    /\ JoinGroups(w, {<<job[w].org, "Users">>}, Goto(w, "password"))
    /\ UNCHANGED <<orgTables, users, nextUser, nextHash, sent, history>>

\* CoreUser.save() of an instance: UPDATE, or INSERT if the row is gone.
SaveUser(u, row) == users' = [users EXCEPT ![u] = row]

\* A bug: the hash is made but not saved.
Mutant_SetPassword(w) ==
    LET u   == job[w].user
        row == [job[w].row EXCEPT !.pw = nextHash] IN
    /\ At(w, "register", "password")
    /\ job' = [job EXCEPT ![w].row = row, ![w].stage = "mail"]
    /\ nextHash' = nextHash + 1
    /\ UNCHANGED <<orgTables, users, member, nextUser, sent, history>>

\* set_password() and a save of the whole row.
SetPassword(w) ==
    LET u   == job[w].user
        row == [job[w].row EXCEPT !.pw = nextHash] IN
    /\ At(w, "register", "password")
    /\ IF CanStore(u, row)
       THEN /\ SaveUser(u, row)
            /\ job' = [job EXCEPT ![w].row = row, ![w].stage = "mail"]
       ELSE /\ Fail(w)
            /\ UNCHANGED users
    /\ nextHash' = nextHash + 1
    /\ UNCHANGED <<orgTables, member, nextUser, sent, history>>

\* Who is asked for approval: the superuser for a new organization, else the
\* organization's users who are in a group of admins (of any organization).
Approvers(w) ==
    IF job[w].isNew THEN {"superuser"}
    ELSE {u \in UserIds : /\ Exists(u)
                          /\ users[u].org = job[w].org
                          /\ \E g \in member[u] : g[2] = "Admins"}

\* The approval mails; an error of the mail server ends the request.
SendApproval(w) ==
    /\ At(w, "register", "mail")
    /\ \/ Goto(w, IF job[w].isNew THEN "adminGroup" ELSE "addGroups")
       \/ /\ "mailfail" \in scenario.ops
          /\ Approvers(w) # {}
          /\ Fail(w)
    /\ UNCHANGED <<orgTables, userTables, sent, history>>

\* A bug: the founder is not put into the group.
Mutant_AddAdminGroup(w) ==
    /\ At(w, "register", "adminGroup")
    /\ Goto(w, "addGroups")
    /\ UNCHANGED <<orgTables, userTables, sent, history>>

\* CoreGroup.objects.get(...) raises if the group is gone.
AddAdminGroup(w) ==
    /\ At(w, "register", "adminGroup")
    /\ JoinGroups(w, {<<job[w].org, "Admins">>}, Goto(w, "addGroups"))
    /\ UNCHANGED <<orgTables, users, nextUser, nextHash, sent, history>>

\* The groups asked for, one statement each.
AddRequestedGroup(w, g) ==
    /\ At(w, "register", "addGroups")
    /\ g \in job[w].wants
    /\ JoinGroups(w, {g}, job' = [job EXCEPT ![w].wants = @ \ {g}])
    /\ UNCHANGED <<orgTables, users, nextUser, nextHash, sent, history>>

Registered(w) ==
    /\ At(w, "register", "addGroups")
    /\ job[w].wants = {}
    /\ Ok(w)
    /\ promised' = [promised EXCEPT ![job[w].user] = job[w].row.pw]
    /\ UNCHANGED <<orgTables, userTables, sent, approved, regrouped, spent>>

-----------------------------------------------------------------------------
(* Invitations and password links.  Sending them writes no row.            *)

\* POST /coreuser/invite/: an email that has an account gets no invitation.
Invite(w, e) ==
    /\ Free(w)
    /\ "invite" \in scenario.ops
    /\ e \notin invited
    /\ \A u \in UserIds : Exists(u) => users[u].email # e
    /\ invited' = invited \cup {e}
    /\ UNCHANGED <<orgTables, userTables, links, job, history>>

\* A bug: the link is made from the user's key alone.
Mutant_LinkFor(u, row) == <<u, 1, row.email>>

\* default_token_generator.make_token(): a hash over the user's key, password and
\* email, the same as long as they are.  It contains the time and the user's last
\* login, too: whether a link is too old, or from before a login, is left open,
\* and a request with such a one writes nothing.
LinkFor(u, row) == <<u, row.pw, row.email>>

LinkType == UserIds \X ({Raw} \cup Hashes) \X Emails

\* POST /coreuser/reset_password/ mails a link to each active user of the email;
\* if the mail server fails, the users after that one get none.
RequestReset(w, e) ==
    LET to == {u \in UserIds : Exists(u) /\ users[u].email = e /\ users[u].active}
    IN
    /\ Free(w)
    /\ "reset" \in scenario.ops
    /\ \E got \in SUBSET to :
          /\ got = to \/ "mailfail" \in scenario.ops
          /\ links' = links \cup {LinkFor(u, users[u]) : u \in got}
    /\ links' # links
    /\ UNCHANGED <<orgTables, userTables, invited, job, history>>

\* POST /coreuser/reset_password_confirm/, validated: the link is the one the
\* user would be sent now.
StartConfirm(w, l) ==
    /\ Free(w)
    /\ "reset" \in scenario.ops
    /\ l \in links
    /\ Exists(l[1])
    /\ LinkFor(l[1], users[l[1]]) = l
    /\ RoomForHash
    /\ job' = [job EXCEPT ![w] = [NoJob EXCEPT !.op = "confirm", !.stage = "save",
                                               !.user = l[1],
                                               !.row = users[l[1]]]]
    /\ UNCHANGED <<orgTables, userTables, sent, history>>

\* A bug: a new password also activates the account.
Mutant_ConfirmReset(w) ==
    LET u   == job[w].user
        row == [job[w].row EXCEPT !.pw = nextHash, !.active = TRUE] IN
    /\ At(w, "confirm", "save")
    /\ CanStore(u, row)
    /\ SaveUser(u, row)
    /\ promised' = [promised EXCEPT ![u] = row.pw]
    /\ spent' = spent \cup {LinkFor(u, job[w].row)}
    /\ Ok(w)
    /\ nextHash' = nextHash + 1
    /\ UNCHANGED <<orgTables, member, nextUser, sent, approved, regrouped>>

ConfirmReset(w) ==
    LET u   == job[w].user
        row == [job[w].row EXCEPT !.pw = nextHash] IN
    /\ At(w, "confirm", "save")
    /\ IF CanStore(u, row)
       THEN /\ SaveUser(u, row)
            /\ promised' = [promised EXCEPT ![u] = row.pw]
            /\ spent' = spent \cup {LinkFor(u, job[w].row)}
            /\ Ok(w)
       ELSE /\ Fail(w)
            /\ UNCHANGED <<users, promised, spent>>
    /\ nextHash' = nextHash + 1
    /\ UNCHANGED <<orgTables, member, nextUser, sent, approved, regrouped>>

-----------------------------------------------------------------------------
(* The profile, and the PATCH of an admin.                                 *)

\* PATCH /coreuser/<u>/update_profile/.  (organization_name is optional to the
\* serializer, but update() pops it without a default: a request that leaves it
\* out fails here and writes nothing.)
StartProfile(w, u, o, p) ==
    /\ Free(w)
    /\ "profile" \in scenario.ops
    /\ Exists(u)
    /\ p => "reset" \in scenario.ops /\ RoomForHash
    /\ job' = [job EXCEPT ![w] = [NoJob EXCEPT
                    !.op = "profile", !.stage = "findOrg", !.orgName = o,
                    !.user = u, !.row = users[u],
                    !.fields = IF p THEN {"password"} ELSE {}]]
    /\ UNCHANGED <<orgTables, userTables, sent, history>>

\* A bug: the name takes the place of the organization.
Mutant_FindProfileOrg(w) ==
    /\ At(w, "profile", "findOrg")
    /\ job' = [job EXCEPT ![w].row = [@ EXCEPT !.org = job[w].orgName],
                          ![w].stage = "save"]
    /\ UNCHANGED <<orgTables, userTables, sent, history>>

\* filter(name=...).first(): an organization of that name, if there is any.
FindProfileOrg(w) ==
    /\ At(w, "profile", "findOrg")
    /\ \/ /\ Named(job[w].orgName) = {}
          /\ Goto(w, "save")
       \/ \E x \in Named(job[w].orgName) :
             job' = [job EXCEPT ![w].row = [@ EXCEPT !.org = x],
                                ![w].stage = "save"]
    /\ UNCHANGED <<orgTables, userTables, sent, history>>

\* The groups of the organization that is left stay.
SaveProfile(w) ==
    LET u     == job[w].user
        newPw == "password" \in job[w].fields
        row   == IF newPw THEN [job[w].row EXCEPT !.pw = nextHash]
                          ELSE job[w].row IN
    /\ At(w, "profile", "save")
    /\ IF CanStore(u, row)
       THEN /\ SaveUser(u, row)
            /\ promised' = IF newPw THEN [promised EXCEPT ![u] = row.pw]
                                    ELSE promised
            /\ Ok(w)
       ELSE /\ Fail(w)
            /\ UNCHANGED <<users, promised>>
    /\ nextHash' = IF newPw THEN nextHash + 1 ELSE nextHash
    /\ UNCHANGED <<orgTables, member, nextUser, sent, approved, regrouped, spent>>

\* The row of u with fields fs as a PATCH sends them; a password is not hashed.
PatchedRow(u, fs, n, e, a) ==
    [users[u] EXCEPT !.name   = IF "username" \in fs THEN n ELSE @,
                     !.email  = IF "email" \in fs THEN e ELSE @,
                     !.active = IF "active" \in fs THEN a ELSE @,
                     !.pw     = IF "password" \in fs THEN Raw ELSE @]

\* PATCH /coreuser/<u>/, validated: a new username is nobody else's.  (With
\* organization_name, as in every PUT, the serializer's own update() fails before
\* it writes.)
StartPatch(w, u, fs, n, e, a, gs) ==
    /\ Free(w)
    /\ Exists(u)
    /\ "username" \in fs => \A v \in UserIds \ {u} : Exists(v) => users[v].name # n
    /\ job' = [job EXCEPT ![w] = [NoJob EXCEPT
                    !.op = "patch", !.stage = "save", !.user = u, !.fields = fs,
                    !.wants = gs, !.row = PatchedRow(u, fs, n, e, a)]]
    /\ UNCHANGED <<orgTables, userTables, sent, history>>

\* A password is stored as sent: it is none that check_password() accepts, and
\* a link made from the same text is good again.
SavePatch(w) ==
    LET u  == job[w].user
        fs == job[w].fields IN
    /\ At(w, "patch", "save")
    /\ IF CanStore(u, job[w].row)
       THEN /\ SaveUser(u, job[w].row)
            /\ approved' = IF "active" \in fs /\ job[w].row.active
                           THEN approved \cup {u} ELSE approved
            /\ promised' = IF "password" \in fs THEN [promised EXCEPT ![u] = Raw]
                                                ELSE promised
            /\ spent' = IF "password" \in fs THEN {l \in spent : l[1] # u} ELSE spent
            /\ IF "groups" \in fs THEN Goto(w, "setGroups") ELSE Ok(w)
       ELSE /\ Fail(w)
            /\ UNCHANGED <<users, approved, promised, spent>>
    /\ UNCHANGED <<orgTables, member, nextUser, nextHash, sent, regrouped>>

\* core_groups.set(...), after the save.
SetGroups(w) ==
    LET u == job[w].user IN
    /\ At(w, "patch", "setGroups")
    /\ IF Exists(u) /\ job[w].wants \subseteq groups
       THEN /\ member' = [member EXCEPT ![u] = job[w].wants]
            /\ regrouped' = regrouped \cup {u}
            /\ Ok(w)
       ELSE /\ Fail(w)
            /\ UNCHANGED <<member, regrouped>>
    /\ UNCHANGED <<orgTables, users, nextUser, nextHash, sent, approved, promised,
                   spent>>

-----------------------------------------------------------------------------
(* The view sets of organizations and groups.                              *)

\* POST /organization/: any name.
CreateOrg(w, o) ==
    /\ Free(w)
    /\ "orgcreate" \in scenario.ops
    /\ RoomForOrg
    /\ InsertOrg(o)
    /\ UNCHANGED <<scenario, userTables, sent, job, history>>

\* PUT /organization/<x>/
StartPutOrg(w, x, o) ==
    /\ Free(w)
    /\ "orgput" \in scenario.ops
    /\ orgs[x] # NoRow
    /\ job' = [job EXCEPT ![w] = [NoJob EXCEPT !.op = "orgput", !.stage = "save",
                                               !.org = x, !.orgName = o]]
    /\ UNCHANGED <<orgTables, userTables, sent, history>>

\* The row is written or, if it is gone, inserted again: without groups, as the
\* instance is not a new one.
SaveOrg(w) ==
    /\ At(w, "orgput", "save")
    /\ orgs' = [orgs EXCEPT ![job[w].org] = job[w].orgName]
    /\ Ok(w)
    /\ UNCHANGED <<scenario, groups, nextOrg, userTables, sent, history>>

\* DELETE /organization/<x>/: Collector.collect() looks up the users,
CollectOrg(w, x) ==
    /\ Free(w)
    /\ "orgdelete" \in scenario.ops
    /\ orgs[x] # NoRow
    /\ job' = [job EXCEPT ![w] = [NoJob EXCEPT
                    !.op = "orgdelete", !.stage = "save", !.org = x,
                    !.gone = {u \in UserIds : Exists(u) /\ users[u].org = x}]]
    /\ UNCHANGED <<orgTables, userTables, sent, history>>

\* and its delete() removes them by primary key with the organization, its groups
\* and their memberships, in one transaction.  A user who has come meanwhile holds
\* it up (IntegrityError), one who has left is deleted.
DeleteOrg(w) ==
    LET x    == job[w].org
        gone == job[w].gone IN
    /\ At(w, "orgdelete", "save")
    /\ IF \A u \in UserIds \ gone : Exists(u) => users[u].org # x
       THEN /\ orgs' = [orgs EXCEPT ![x] = NoRow]
            /\ groups' = {g \in groups : g[1] # x}
            /\ users' = [u \in UserIds |-> IF u \in gone THEN NoRow ELSE users[u]]
            /\ member' = [u \in UserIds |-> IF u \in gone THEN {}
                                            ELSE {g \in member[u] : g[1] # x}]
            /\ regrouped' = regrouped \cup gone
            /\ Ok(w)
       ELSE /\ Fail(w)
            /\ UNCHANGED <<orgs, groups, users, member, regrouped>>
    /\ UNCHANGED <<scenario, nextOrg, nextUser, nextHash, sent, approved, promised, spent>>

\* DELETE /coregroups/<g>/
DeleteGroup(w, g) ==
    /\ Free(w)
    /\ "groupdelete" \in scenario.ops
    /\ g \in groups
    /\ groups' = groups \ {g}
    /\ member' = [u \in UserIds |-> member[u] \ {g}]
    /\ UNCHANGED <<scenario, orgs, nextOrg, users, nextUser, nextHash, sent, job, history>>

-----------------------------------------------------------------------------

\* gunicorn kills a worker that takes too long.
Timeout(w) ==
    /\ "timeout" \in scenario.ops
    /\ ~Idle(w)
    /\ Fail(w)
    /\ UNCHANGED <<orgTables, userTables, sent, history>>

\* The lists of groups that requests name: none or one that exists.
GroupLists ==
    {{}} \cup {{g} : g \in {h \in groups \cap Listed : "groups" \in scenario.ops}}

\* The fields that the PATCHes of this scenario name.
Patchable == {f \in Fields :
    \/ f \in {"username", "active"} /\ "patch" \in scenario.ops
    \/ f \in {"email", "password"} /\ "reset" \in scenario.ops
    \/ f = "groups" /\ "groups" \in scenario.ops}

Request(w) ==
    \/ \E n \in Usernames, e \in Emails, o \in OrgNames, t \in BOOLEAN,
          gs \in GroupLists : Register(w, n, e, o, t, gs)
    \/ \E l \in links : StartConfirm(w, l)
    \/ \E u \in UserIds, o \in OrgNames, p \in BOOLEAN :
          StartProfile(w, u, o, p)
    \/ \E fs \in {gs \in Patches : gs \subseteq Patchable}, u \in UserIds,
          n \in Usernames, e \in Emails, a \in BOOLEAN, gs \in GroupLists :
             StartPatch(w, u, fs, n, e, a, gs)
    \/ \E x \in OrgIds, o \in OrgNames : StartPutOrg(w, x, o)
    \/ \E e \in Emails : Invite(w, e) \/ RequestReset(w, e)
    \/ \E o \in OrgNames : CreateOrg(w, o)
    \/ \E x \in OrgIds : CollectOrg(w, x)
    \/ \E g \in Listed : DeleteGroup(w, g)

Step(w) ==
    \/ GetOrg(w)
    \/ MakeOrg(w)
    \/ InsertUser(w)
    \/ FindDefaultGroups(w)
    \/ AddDefaultGroups(w)
    \/ SetPassword(w)
    \/ SendApproval(w)
    \/ AddAdminGroup(w)
    \/ \E g \in Listed : AddRequestedGroup(w, g)
    \/ Registered(w)
    \/ ConfirmReset(w)
    \/ FindProfileOrg(w)
    \/ SaveProfile(w)
    \/ SavePatch(w)
    \/ SetGroups(w)
    \/ SaveOrg(w)
    \/ DeleteOrg(w)

\* The bounds are reached and nothing is under way.
Exhausted ==
    /\ nextUser > MaxUsers \/ nextOrg > MaxOrgs \/ nextHash > scenario.hashes
    /\ \A w \in Workers : Idle(w) \/ At(w, "register", "makeOrg")
    /\ UNCHANGED vars

Next ==
    \/ \E w \in Workers : Request(w) \/ Step(w) \/ Timeout(w)
    \/ Exhausted

Spec == Init /\ [][Next]_vars

-----------------------------------------------------------------------------
(* Properties.                                                             *)

\* The types of the tables, the jobs and the histories.
TypeOK ==
    /\ scenario \in Scenarios
    /\ orgs \in [OrgIds -> OrgNames \cup {NoRow}]
    /\ groups \subseteq Groups
    /\ nextOrg \in 1..(MaxOrgs + 1)
    /\ users \in [UserIds -> Row \cup {NoRow}]
    /\ member \in [UserIds -> SUBSET Groups]
    /\ nextUser \in 1..(MaxUsers + 1)
    /\ nextHash \in 1..(MaxHashes + 1)
    /\ invited \subseteq Emails
    /\ links \subseteq LinkType
    /\ job \in [Workers -> Job]
    /\ approved \subseteq UserIds
    /\ regrouped \subseteq UserIds
    /\ promised \in [UserIds -> {Raw} \cup Hashes]
    /\ spent \subseteq LinkType

\* w has made organization x and not yet its user an administrator of it.
Founding(w, x) ==
    /\ job[w].op = "register" /\ job[w].isNew /\ job[w].org = x
    /\ job[w].stage \in {"insert", "defaultGroups", "joinDefaults", "password",
                         "mail", "adminGroup"}

\* An organization has one founder: however registrations of a name, edits and
\* deletions overlap, fail or are killed, at most one user is or will be put into
\* its group of administrators, as long as no request names groups.
OneFounder ==
    "groups" \notin scenario.ops => \A x \in OrgIds :
        /\ \A v, w \in Workers : Founding(v, x) /\ Founding(w, x) => v = w
        /\ \A t, u \in UserIds : (<<x, "Admins">> \in member[t] /\ <<x, "Admins">> \in member[u])
                                    => t = u
        /\ \A w \in Workers, u \in UserIds :
              Founding(w, x) => <<x, "Admins">> \notin member[u]

\* Approval (serializers.py CoreUserWritableSerializer.create): whatever stale
\* rows are written, a user is active only if it founded its organization, came
\* with an invitation, or was activated by an admin.
ActiveWasApproved ==
    \A u \in UserIds : Exists(u) /\ users[u].active => u \in approved

\* "check this user is org admin" (test_coreuserview.py): when the registration
\* of a founder is answered, the founder is in those groups of the organization
\* that are still there, unless an admin chose other groups for it or a cascade
\* deleted it meanwhile.
FounderIsAdmin ==
    [][\A w \in Workers :
          LET j == job[w] IN
          j.op = "register" /\ j.isNew /\ job'[w].answer = "ok" /\ Exists(j.user)
             => \/ {g \in groups : g[1] = j.org} \subseteq member[j.user]
                \/ j.user \in regrouped]_vars

\* "Token has been used." (views/coreuser.py): requests one at a time, an
\* invitation makes a user only while nobody has its email.
InvitationOnce ==
    [][\A w \in Workers :
          Serial /\ job[w].stage = "insert" /\ job[w].token /\ nextUser' # nextUser
             => \A u \in UserIds : Exists(u) => users[u].email # job[w].row.email]_vars

\* "The password was changed successfully.": requests one at a time, the password
\* last set by registration, profile or link is the one stored, until an admin's
\* PATCH overwrites it.
PasswordSticks ==
    Serial => \A u \in UserIds : Exists(u) /\ promised[u] # Raw => users[u].pw = promised[u]

\* "Check the token" (serializers.py): requests one at a time, a password link
\* changes a password once, however many links were sent and whatever else was
\* written to the user since, PATCHes of the password excepted.
LinkUsedOnce ==
    [][\A w \in Workers :
          Serial /\ At(w, "confirm", "save") /\ job'[w].answer = "ok"
             => LinkFor(job[w].user, job[w].row) \notin spent]_vars

\* One request at a time, the table and the links are those of AccountLifecycle:
\* whatever columns a save writes, the account changes as its request is meant to
\* change it; an account waiting for approval or suspended becomes active by an
\* admin only, and a link works while its password is there.
Lifecycle == INSTANCE AccountLifecycle WITH
    account <- users,
    used    <- spent,
    kept    <- Serial
ImplementsLifecycle == Lifecycle!Spec
=============================================================================
