# A verification project for buildly-core

TLA+ models of buildly-core (Django 3.2, Django REST framework), TLC
configurations that check them on small instances, and TLAPS proofs of what
holds for every instance. `PROJECT.json` maps every definition to the lines it
models; this file explains how the pieces belong together.

    tlc -workers 2 -config SpecStore_all.cfg MCSpecStore.tla     # check a run
    tlapm SpecStoreProofs.tla                                    # check proofs
    for m in *Proofs.tla; do tlapm $m; done                      # all of them

## 1. How the program runs

buildly-core is a gateway. Clients send a request for a *logic module* (a
service behind the gateway); the gateway looks the module up in its own
database, pulls and stores the module's OpenAPI file, calls the service and, if
asked to, *joins* the response: related records of other services, or of local
Django models, are nested into it according to the tables of the *data mesh*.

What the models take from this:

- gunicorn runs several **synchronous worker processes**, each of which serves
  one request at a time and is replaced when it is silent for 90 seconds
  (`buildly/gunicorn_conf.py`). Every multi-worker module has a constant
  `Workers`, a variable `job` (what each worker holds in memory: instances,
  dictionaries, the place in the code) and an action for the replacement of a
  worker in the middle of a request.
- The database runs in **autocommit** (`ATOMIC_REQUESTS` is not set), so every
  ORM statement is a transaction of its own. One action is one statement, one
  remote call, or a decision between them; workers interleave between actions.
- `Model.save()` writes **every column** of the instance the request has read,
  and inserts the row again when somebody has deleted it. The `save()` overrides
  of the repository pass no arguments on, so `update_fields` never takes effect.
- `get_or_create()` is a SELECT, an INSERT in a transaction of its own and,
  after an IntegrityError, the SELECT again.

## 2. Inventory

| Component | State it keeps | Operations | Talks to | Hard behaviour | What makes it correct |
|---|---|---|---|---|---|
| Specification store (`LogicModule`) | rows with endpoint and stored specification | gateway reads, fetches and saves; view set create, patch, delete, `specification`; swagger aggregator | services (swagger files), gateway, data mesh | whole-row saves from old copies, rows deleted under a request, gathered tasks, fetches without timeout, error documents taken for specifications | a stored specification is one the row's endpoint has answered, is not lost, what a request uses is what it has read |
| Gateway request | nothing persistent; `_logic_modules`, `_specs` per request | `perform` synchronous and asynchronous | store, clients, mesh, consortium | two implementations of one promise | both answer every request, joins agree |
| Gateway clients | cache per client | `request` | services | cache and concurrent tasks | a record in one version per response |
| Consortium | list of organizations per shipment | custody branch of `perform`, view set | services (custody) | read, extend, save by overlapping requests | every acknowledged custody holder is listed, once, in one consortium |
| Data mesh tables | models, relationships, join records | join record, relationship and model API, `loadrelationships` | join | `get_or_create` races, cascades under held instances, purge | a record keeps its owner, a creator gets what was asked for, one direction, one relationship |
| Data mesh join | response under construction | `extend_data`, `async_extend_data` | clients, mesh tables | order of answers, rows written under way, one of several tasks fails | only joined documents, every join record found is settled once, the join ends |
| Accounts (users, organizations, groups) | users, organizations, groups | registration, invitation, approval, profile, password reset | mail server | several statements per registration, mail failing in the middle, whole-row saves | an organization has one founder, who is administrator, nobody is active unapproved, changed passwords stay, an invitation is used once |
| Permissions | the number 0 to 15 in each group | decisions on one request: by the user's groups, the object's, the module's | accounts, workflow, gateway | four verbs travel as a dictionary, a number, a string of digits and an index | the decision is what the verbs given to the groups say |
| Workflow levels and their children | WorkflowLevel1 (groups, users), WorkflowLevel2, teams, sort rows | create, change and delete, with a cascade, behind the permissions | accounts | a deletion reads first and deletes later, saves insert deleted rows again, a POST takes four statements | who creates a level has access to it |
| OAuth and social auth | social accounts, applications, refresh tokens | sign-in pipeline, issue and refresh of tokens, view sets of both | accounts, initial data, libraries | the row in memory, the token and the claims are found separately; a token is committed before its answer exists | an answer names one user, a refresh token can be swapped |
| Initial data | groups, organization types, default organization, superuser | `loadinitialdata` | accounts | several containers at once, kills, names without a unique constraint | the data are there once |
| Swagger aggregation | nothing; the document under construction | read and store (with the store), rename, merge, lay over the gateway's own | services, store | names are joined without a separator, or with a dot that they may contain | references and operations keep their meaning |
| Templates, settings, URLs, admin, migrations | - | - | - | - | not modelled: presentation, configuration, generated code |

`PROJECT.json` lists each component with its sources and status, and under
`hazards` each place in the code where order, staleness or failure matters,
with the properties that watch it; section 6 names a few more that no state of
the models tells apart.

## 3. The modules

| Module | Models | Extends / instantiates |
|---|---|---|
| `SpecStore` | the specification store and all its readers and writers | |
| `ConsortiumRegistry` | abstract: the set of custody holders of each shipment | |
| `ConsortiumSync` | the consortium table under custody POSTs and edits | instance of `ConsortiumRegistry` |
| `DataMeshStore` | the data mesh tables under all their writers | |
| `JoinedResponse` | abstract: what a joined response promises | |
| `DataMeshJoin` | one synchronous or asynchronous join while rows are written | instance of `JoinedResponse` |
| `AccountLifecycle` | abstract: who opens an account, approves it, and sets its password | |
| `Accounts` | organizations, groups and users under registration, invitation, profile, PATCH, password links and deletions | instance of `AccountLifecycle` |
| `Permissions` | the permission classes, as operators | |
| `Workflow` | workflow levels, their children and the grants, behind the permissions | `Permissions` |
| `SwaggerMerge` | the services' documents merged into the gateway's own | |
| `InitialData` | overlapping runs of `loadinitialdata` and administrators' edits | |
| `SignIn` | social sign-in, tokens and their refresh, on those tables | `InitialData` |
| `SpecStoreProofs`, `ConsortiumSyncProofs`, `DataMeshStoreProofs`, `DataMeshJoinProofs`, `AccountsProofs`, `WorkflowProofs`, `SwaggerMergeProofs`, `SignInProofs` | theorems about the module of that name | that module, TLAPS |
| `MC*` | symmetry sets, bounds and example data for TLC | the module of that name |

Data are abstracted to what the properties tell apart. A specification is the
endpoint whose service published it (that decides where calls go), or
`OtherDoc`, any JSON document that is none. A JSON document is a model value of
`Contents`. The two record keys of a join record always occur together in
lookups and constraints, so the pair is one value, a `Link`. An organization, a
shipment and a primary key are model values.

### SpecStore
`rows` is the table, `nextId` its sequence, `job[w]` a worker's request. A
gateway request goes through `OpenRequest`, per service `ReadMissing |
ReadAmbiguous | ReadCached | ReadStored | ReadEmpty` (the branches of
`_get_logic_module` and `_get_swagger_spec`), `FetchSpec | FetchFails`,
`SaveSpec | SaveConflict | SaveUnusable`, then `CallService`, the same steps for
the related services, and `JoinDone`. The synchronous request has one service in
progress at a time, the asynchronous one a task per related service, all of
which read before the first is resumed (`MayRead`, `MayFetch`).
`ReadInEventLoop` is Django's refusal of ORM queries inside a running event loop
in a worker without `DJANGO_ALLOW_ASYNC_UNSAFE`. What a host answers (`Served`)
need not be a specification: `get_swagger_from_url` does not look at the status,
so the JSON body of an error, or `null`, is set on the row and saved, and only
then does `Spec.from_dict()` find that it is none (`SaveUnusable`,
`ReadUnusable`); `FetchFails` is an answer that is not JSON, or no answer.
`RefreshRead`, `PatchRead`, `AdminSave`, `CreateModule` and `DeleteModule` are
the view set; `Aggregate*` the swagger aggregator, which works from a snapshot
of names and URLs and writes one column of every row with the name.

### ConsortiumSync
`Custody` is the service's 201; `LookMissing | LookMember | LookNull | LookNew`
the branches after `filter(name=...).first()`; `CreateConsortium` and `Save` the
two writes; `Respond` the answer. `AdminCreate`, `AdminPatch` and `AdminDelete`
are the view set. Histories: `serial` (no two requests have overlapped, and
nobody has edited), and, while it holds, `created` and `acked`: which custody
records the service has created and which POSTs were answered 201. What only
holds one request at a time is stated under `serial`, so that one specification
covers both cases.

### DataMeshStore
`models`, `rels` and `joins` are the tables. A request walks through the stages
of `job[w].stage`: `getRel`, `checkReverse`, `insertRel | saveRel`, `getJoin`,
`insertJoin`, `regetJoin`, `saveJoin`; the command `loadrelationships` adds
`purge`, where it takes the next contact (`LoadLink`) or deletes what is not in
its file (`Purge`). Deletions cascade in one step, as Django does it in one
transaction. The choices of model names are kept per process and never shrink,
so a request may name a model that is gone (the foreign key refuses it,
`RelDangling`). The history `overlapped` says that two requests have been in
progress together; three properties are about the time before.

### DataMeshJoin
One response and the steps of `DataMesh.extend_data` or `async_extend_data`:
per item `StartItem`, per relationship `ReadJoins` (one query, rows in any
order), per related record the local branch (`LocalCached | LocalFound |
LocalMissing | LocalFails`), the synchronous client (`RequestCached |
RequestRecord | RequestFails | RequestWithoutClient`) or a coroutine (`Defer`,
later `TaskEnds | TaskFails`). `WriteJoins` is any other worker adding or
deleting a join record between the steps. A request that has ended takes no
further step, which is why its configurations switch deadlock checking off.

### Accounts
`orgs`, `groups`, `users` and `member` (the many-to-many table) are the
database; passwords are the text as sent (`Raw`) or the n-th hash. A
registration walks through `getOrg`, `makeOrg`, `insert`, `defaultGroups`,
`joinDefaults`, `password`, `mail`, `adminGroup`, `addGroups`: `GetOrg` to
`Registered`, one action per committed statement. `SendApproval` may fail where
there is somebody to mail; the error ends the request and leaves what was
committed. `StartProfile`/`FindProfileOrg`/ `SaveProfile`,
`StartPatch`/`SavePatch`/`SetGroups`, `RequestReset`/`StartConfirm`/
`ConfirmReset`, `StartPutOrg`/`SaveOrg` hold the instance they have read from
the first step to the last; a PATCH changes any set of `Fields`. `CollectOrg`
reads the users a deletion will take, `DeleteOrg` commits it. Histories:
`approved` (who founded, was invited or was activated), `regrouped` (whose
groups an admin or a cascade took), `promised` (the hash of the password last
answered as set), `spent` (used links). `scenario` is chosen at the start and
never changes: the kinds of request and failure that occur together and the
workers that serve them; `Serial` says that it is one worker. `Exhausted` is a
step for the states in which the bounds leave nothing to do, so that every other
deadlock is reported. Left out: the expiry of links and invitations, other
profile fields, groups created or changed on their own.

`AccountLifecycle` says what this is for, one account at a time: `Open` (active
at once only for the first of an organization and the invited, else waiting),
`Update`, `UseLink`, `Approve`, `ChangeEmail`, `Overwrite`, `Close`, `Invite`
and `SendLinks`, each of which changes what it names and nothing else.

### Permissions and Workflow
`Permissions` translates the decision functions over rows as the code sees them:
a group is [id, org, isGlobal, isOrgLevel, permissions], the column is a number,
`Digits` the four characters of its display, `Methods` the index of an action,
`MergeAll` the maximum per place. A POST may name a WorkflowLevel1, or a
WorkflowLevel2, whose level's groups decide then (`Deciding`), and an
organization, which must be the user's own (`MemberRequest`). `Workflow` keeps
the column of each group (`Grant` writes it) next to the verbs last given
(`granted`), so that decisions can be compared with them.

`level1`, `levelGroups` and `access` are a WorkflowLevel1 with its groups and
users, `children` the rows that refer to it. Creating a level takes four
statements (`PostLevel1`; `SetAccess` and `SetGroups` if the request names users
and groups; `AddAccess` for the creator); a PUT reads and decides (`OpenPut`)
and saves later (`SaveLevel1`, `SetAccess`, `SetGroups`), inserting the row
again if it is gone; the history `owner` says for whom a level was created,
until a PUT names other users or brings the level back, or its POST is killed; a
deletion collects the WorkflowLevel2 rows (`CollectLevel1`) and then commits
(`DeleteLevel1`), refused if a row it has not collected refers to the level.
`SaveChild` is refused by the foreign key. A timeout ends any request.

The same operators decide about users and groups: `MayChangeUser` and `MayGroup`
put `OrgAdminPermit` (AllowOnlyOrgAdmin) and `MemberRequest` / `MemberPermit`
(IsOrgMember) together as the view sets of core do.

The two decision properties are stated for quiet states only (`Quiet`). Nothing
is lost: decisions read only the tables, and from any state `Timeout` steps lead
to a quiet one with the same tables.

### SwaggerMerge
The one module in which names are spelled: a name is a sequence of letters, the
dot one of them, a path a sequence of names, which may be empty as the one of
the root path is, a definition or action carries what it is (`body`: its
service and its name there), an operation id and the definitions it refers to.
`MergeApi` renames and adds one service (`_update_specification`, `merge`), in
any order of services; `MergeFails` is a service that publishes `null`;
`GenerateOperationIds` and `GetSchema` finish the document. `NamesApart`,
`PathsApart` and `IdsApart` are the conditions under which names, paths and
dotted ids cannot be mistaken for one another; nothing in the code enforces
them.

### InitialData and SignIn
`handle()` is one transaction. `run[r]` is what a run has seen and inserted so
far (`newGroup`, `newRoles`, `newTypes`, `newOrg`, `newUser`), which others see
only after `Commit`; `Killed` and every exception roll back. An insertion of a
unique key waits for another run that has inserted it: in `GetRoles` for the
names of the four roles, in `InsertSuperuser` for the username. `PostOrg`,
`DeleteOrg` and `PostType` are administrators' edits of what the command looks
up by names that are not unique.

`SignIn` starts when a run has ended well, as `scripts/run-standalone-dev.sh`
starts the server. A sign-in goes through `OAuthComplete`, `SocialUser`,
`CreateUser`, `Associate`, `UserDetails` (the pipeline; `create_organization` is
called without the name it waits for and does nothing), `SaveBearerToken`,
`EnrichByName`; a refresh through `Refresh` and `EnrichByToken`. The row in
memory is read once and written whole by `UserDetails`, which may bring a
deleted user back. `PostApplication` to `CascadeOrg` are the superuser's view
sets and the edits of users; `renamed` is the history of users who were not
called the same all the time.

## 4. What the runs check

Every property has a mutant of the code it can detect (`Mutant_*` operators,
listed in `PROJECT.json`).

| Run | Instance | Properties | What it shows |
|---|---|---|---|
| `spec_all` | 2 workers, 1 name, 2 endpoints, both of which may answer an error document and one null, 2 rows, every kind of request | `TypeOK`, `PendingSavesAgree`, `OnlyEditOrNameMakesStale`, `StoredSpecStays` | whole-row saves from old copies never combine one writer's endpoint with another one's specification: only a saved edit, or the aggregator, which goes by the name, makes a specification stale; only a saved edit or a service that publishes null loses one |
| `spec_join` | 2 workers (one may query inside the event loop), 2 names, 1 endpoint that may answer null, 2 rows, fair | `CacheFollowsReads`, `RequestsEnd` | a request's specifications are those of the rows it has read; every accepted request is answered |
| `spec_async_stored` | 1 worker, 1 row | `StoredSpecServes` (refuted) | finding: the asynchronous gateway raises KeyError for every module whose specification is stored |
| `cons_all` | 2 workers, 2 shipments, 3 organizations, 2 rows, edits, lists that repeat an organization | `TypeOK`, `NoRepeats`, `AckedShared`, `OnePerShipment`, `ImplementsRegistry` | one request at a time, the table implements the registry: every answered custody holder is listed, in one consortium; overlapping requests and edits repeat no member but where an administrator has |
| `mesh_all` | 2 workers, 2 models, both pairs, 2 links, 2 organizations, 2 relationships, 2 join records, API and command | `TypeOK`, `RecordKeepsOwner`, `CreatedIsThere`, `NoReversePair`, `OneRelationship`, `LoadedExactly` | a record belongs to its creator's organization through deletions and re-insertions under held instances; a POST answered 201 has at that moment the record it asked for, its own, of a relationship that only a PUT can have turned from what was asked for; what the checks of the code achieve one request at a time |
| `accounts_all` | 2 workers, 1 organization name, 2 usernames, 1 email, failing mail, killed workers, five scenarios | `TypeOK`, `OneFounder`, `ActiveWasApproved`, `FounderIsAdmin`, `PasswordSticks`, `InvitationOnce`, `LinkUsedOnce`, `ImplementsLifecycle` | overlapping requests never activate anybody unapproved, nobody founds an organization that somebody else has founded, an answered founder is administrator; over any sequence of requests of one worker invitations and links are used once, a set password stays, and each request changes of an account what it is about |
| `workflow_all` | 2 workers, 2 organizations, a plain, two organization and a global group, 2 levels, 1 child | `TypeOK`, `CreatorsHaveAccess`, `DecisionsFollowGrants`, `GatewayFollowsGrants` | across killed requests, cascades and re-insertions, a creator without access to a level is always accounted for; every decision about levels, children, users and groups for 7 kinds of user, and every set of module groups, against the verbs given |
| `join_all` | up to 2 items, 4 relationships (local and remote, both directions), 4 join records, 2 contents, both modes, fair | `TypeOK`, `NestedAreJoined`, `OneVersion`, `ImplementsPromise`, `JoinEnds` | both joins keep the promise of `JoinedResponse` whatever is written meanwhile |
| `join_reverse_local` | the same, synchronous | `LocalIsTakenFromBuildly` (refuted) | finding: a local model in the reverse direction is looked for among the services |
| `merge_all` | up to 4 services (one name begins another, with a dot, one is 'buildly') with any of 5 documents or null | `TypeOK`, `ReferencesResolve`, `OperationsDistinct` | references keep their meaning and operations their identity, unless names, paths or dotted ids can be mistaken for one another |
| `signin_all` | 2 runs of the command, 2 organizations, 3 users, 2 workers, 1 social account, 2 tokens, with and without default organization and password | `TypeOK`, `LoadedOnce`, `ClaimsNameUser` | what overlapping, repeated and killed runs leave; a token and the JWT beside it name one user, unless the user is renamed |
| `signin_refresh` | 1 run, 1 worker | `RefreshSwaps` (refuted) | finding: a user without organization gets a refresh token that cannot be swapped |

### Bounds
`MaxModules`, `MaxRows`, `MaxRels`, `MaxJoins`, `MaxOrgs`, `MaxUsers`,
`MaxLevel1`, `MaxChildren`, `MaxTokens` bound how many rows are ever inserted (a
row inserted again keeps its key and costs nothing), `MaxItems` the items of a
response, `MaxHashes` the passwords hashed. In `Accounts` the bounds count the
rows that registrations under way may still insert, so that a bound is never
what stops one in the middle. `Listed`, `Actors`, `Lists`, `NewOrgs` and
`Grants`, `Members`, `Patches` and `Sent` name the requests of an instance: in
`workflow_all` one user with both kinds of group sends the requests (the
properties range over all of `Users`), a request names no users or the empty
list of them, the one that takes access away, a PUT leaves the level in its
organization (users of the other one are among `Users`), and the grants give two groups two
values each, an administrator's among them. Two organizations and two users are
what a second founder of one name, a move between organizations and a taken
username need; two levels what a moved child needs. Two workers suffice for
every race described: each is a step of one worker between two steps of another,
and the histories of interest (read, other's write, save) need two rows at most:
the row a request holds and one that conflicts with it. `spec_all` has one
service name so that both rows can have the same name (the ambiguous and the
conflicting case) and two endpoints so that a specification can be the wrong
one; `spec_join` has two names with one endpoint, the case in which a second
service hits the cache; there the unusable answer is `null` only, which
`spec_all` has beside error documents (that requests end with either is proved).
`join_all` has the same record in two items (cache hits, entries of two items in
any order) and one relationship of every kind the code branches on. `LocalFound`
and `RequestRecord` choose among two contents, so that two versions of one
record can be told apart. `accounts_all` has PATCHes of groups, of username and
activation, and of email and password.

Two runs have a CONSTRAINT that keeps a second shipment, link or pair out once
requests overlap or edit (`MCConsortiumSync!Bound`, `MCDataMeshStore!Bound`):
the races are about one of them, and the second is there for the sequences of
requests one at a time. `MCSignIn!Bound` lets runs of the command and edits
happen in every way before the first request, and requests begin where one run
has loaded full settings; then one user is renamed at most, deactivations come
before the first token. What it leaves out is covered by the proofs, which need
no bound. The five scenarios of `accounts_all` are: registrations with profile
updates, new and deleted organizations, and registrations with renamed and
deleted organizations, both with failing mail and killed workers; registrations,
invitations, PATCHes and profile updates; registrations with changes and
deletions of groups (two workers each); and all requests about users, with
password links, by one worker with three hashes. `merge_all` has the
names 'a' and 'a.b', the ids 'b.c' and 'c', so that both sides of `NamesApart`
and of `IdsApart` occur (without `IdsApart` the run finds the two actions with
one id), documents whose definitions refer to themselves and to each other, the
root path, and paths that look like another service's.

Symmetry is used only in runs without temporal liveness properties, over workers
and over names, links and organizations that no definition distinguishes.

### Fairness
`SpecStore!FairSpec` and `DataMeshJoin!FairSpec` assume weak fairness of the
steps of a worker that has accepted a request (`Progresses`), never of arrivals,
edits or timeouts. A worker process runs its request without waiting for others:
every remote call returns, fails, or is ended by gunicorn's timeout, and no step
waits for a lock another request holds across steps. Nothing is assumed about
which outcome a call has.

## 5. What is proved

Every safety property that a passing run checks is also a theorem, the
refinements among them; of the two liveness properties what can be proved
without fairness is (below). No theorem depends on a bound or on
the number of workers, names, groups, users or rows. `PROJECT.json` lists each
one with its property. The assumptions are those the modules name: bounds are
numbers, sets are what they are called, and the values that stand for "no row"
are not rows; others are mentioned below.

Each proof has the same shape: an inductive invariant made of named parts, one
lemma per action (or per group of actions that write the same thing), and a
lemma that reduces the workers to the one whose job changes, given what the
others' memory relies on.

### SpecStoreProofs
`TypeCorrect`, `SavesAgree` (`PendingSavesAgree`), `StaleOnlyByEditOrName`
(`OnlyEditOrNameMakesStale`), `SpecStays` (`StoredSpecStays`), `Cache`
(`CacheFollowsReads`).

`PendingSavesAgree` is not inductive: a refresh fetches from the endpoint of the
instance it holds, and a request that is about to save must hold an instance at
all. The invariant `IInv` adds to the types that primary keys not yet
drawn are free (`FreshIds`), and of every worker's memory (`JobInv`) that a
service in progress has an instance (`HeldCopies`), that what is about to be
saved agrees (`PendingAgrees`), that an aggregator works on names it has an
endpoint for (`ConfiguredNames`) and stores what that endpoint has answered
(`PassAgrees`). The two action properties then follow from
`RowWriters`: a row that changes and is still there was written by a whole-row
save that agrees, by a saved edit, as a fresh row, or by the aggregator.
`CacheFollowsReads` speaks only of one request's memory and is inductive once
`IInv` holds: `CacheKept` and `CacheMove` say which steps keep the cache,
`CacheLoads` is the step that fills it.

For `RequestsEnd` three theorems do all but the temporal step. `Left` is the
work a request has ahead of it: three for each name it may still load, less what
is done of those in progress, and its last steps. `Terminating`: each step of
the request's own worker lowers `Left`, whatever is in the tables and whether a
fetch answers or fails, and nobody else's step raises it. `Bounded`: it is at
most 3|Names| + 3 (assumption `NamesAssumption`: the names are finitely many).
`Unstuck`: a request that has been accepted can always take a step;
`CanProgress` spells its guards out, and TLC found it equal to ENABLED of
`Progresses` in every state of the two configurations. A gateway request can
therefore neither wait for another nor be kept going by one that edits its rows
again and again.

### ConsortiumSyncProofs
`TypeCorrect`; `ListsDoNotRepeat` (`NoRepeats`); `AnsweredShares`
(`AckedShared`); `OneConsortium` (`OnePerShipment`); `KeepsRegistry`
(`ImplementsRegistry`).

Three invariants, each resting on the one before. `TypeInv`: types, fresh keys,
and that a request about to save holds an instance. `RepeatInv`: a list that is
stored or about to be saved repeats only what was sent repeated, which holds
however requests overlap since every list written is one that was read, with one
organization more that it did not have, or one an administrator sends, whose own
repetitions stay at their positions (`SentTwice`). `SerialInv`: while requests
come one at a time, what the one request has found is what is stored (`Found`),
rows of one name are one row, and who was answered is listed. The refinement
maps the members of a shipment's row to the registry's set; every step is a step
of `ConsortiumRegistry` or stutters.

### DataMeshStoreProofs
`TypeCorrect`; `OwnerStays` (`RecordKeepsOwner`); `PostIsThere`
(`CreatedIsThere`); `OneWay` (`NoReversePair`); `NoSecond` (`OneRelationship`);
`Loaded` (`LoadedExactly`).

`IInv` is types and what a request knows at each stage. `OwnInv` adds that keys
are handed out in order and that a request names none to come, so that the
record a PUT holds, stored, gone or brought back, never becomes another one's.
What a POST has found stays so but for a PUT: a relationship that is deleted and
brought back was brought back by one. `SerialInv` says of the time before
requests overlapped that at most one is in progress, that what it has found is
so (`Alone`: the pair has no relationship, the reverse has none, the records the
command has kept are there and, once it has ended, no others), and that no pair
has its reverse.

### DataMeshJoinProofs
`TypeCorrect`; `Belongs` (`NestedAreJoined`); `SameVersion` (`OneVersion`);
`KeepsPromise` (`ImplementsPromise`).

`IInv`: where the join is (`PlaceInv`), what the generator still holds belongs
to the last query (`TodoInv`), coroutines are of records passed and one per
record (`TaskInv`), nested documents belong where they are (`NestInv`), what
came out of a cache is still in it (`CacheInv`), and a local object is never in
the cache as missing (`LocalInv`). Assumption: one model is local in all its
relationships or in none. The refinement counts: per item and record, what is
owed by the generator or a coroutine and what is nested already (`Owed`,
`Counts`) are the abstract debt and its settlement; `Phase` maps the ends of the
join.

`Terminating` and `Bounded` are the same argument for `JoinEnds`: `Left` counts
what the generator and the coroutines still hold, and `Weight` for each query to
come, which is more than one query can return. The records a query returns are
those of the moment, so that a worker that adds some between two queries
lengthens the join, but `Weight` has room for all there can be: the bound names
the items, the relationships and the keys of the table, not what is in it.

### AccountsProofs
`TypeCorrect`; `Approval` (`ActiveWasApproved`); `Founders` (`FounderIsAdmin`);
`OnlyFounder` (`OneFounder`); and one request at a time `Passwords`
(`PasswordSticks`), `Links` (`LinkUsedOnce`), `Invitations` (`InvitationOnce`),
`Deactivations` (`DeactivatedStays`, which no run checks), `KeepsLifecycle`
(`ImplementsLifecycle`).

Types are not inductive alone: a registration that has begun must have room for
the user and the hash it will insert, so that `RoomInv` counts the requests that
still may (`OneMoreOrLess` does the arithmetic of their sets). That foreign keys
have their rows, which the others rest on, is the lemma `References`: `Effects`
reduces every action to one of six effects on the tables. `ActiveInv` says that
an instance in memory that is active is one of somebody approved (`Vouched`),
which is why stale whole-row saves activate nobody unapproved. `FounderInv`
follows a founder's registration statement by statement (`Founds`): the
organization has its two groups, the user is stored, then in the groups, unless
`regrouped`. `OnceInv` says that an organization not inserted yet has no
administrator, and that from the insertion on either one request is founding it
or one user has become its administrator. For the sequences, `SerialInv` says
that the one request holds what is stored but for the field it writes
(`Remembers`) and that no hash is made twice (`StoreInv`).

The refinement maps the users' table to the accounts, the links sent and used to
themselves, and `kept` to `Serial`. Every save writes the whole row; that this
changes one column is not seen from the save but from what the request has held
since it read the row. `HoldInv` says so of a lone request (`Holds`: the stored
row but for the column a PATCH or the profile is about; a founder's organization
has nobody yet; the invitation and the link have been sent) and that no link was
made from a hash to come (`NothingAhead`), so that a new password revives no old
link. Where requests overlap none of this holds and nothing is promised.

### WorkflowProofs
`TypeCorrect`; `Creators` (`CreatorsHaveAccess`); `Gateway`
(`GatewayFollowsGrants`); `Decisions` (`DecisionsFollowGrants`).

`CreatorsHaveAccess` is inductive with two facts about jobs: `JobInv`, that a
request acts on the row its key names with values of the right kind, and
`PostsOwn`, that a POST in progress is for the user its level was created for,
under a key that is taken, so that no other POST makes that level. `Bystander`
covers the requests that create no level, `OwnStep` the statements of a POST or
PUT, and `Stages` that a POST goes on to `AddAccess` whatever it names.
`ColumnsFollow` says that a column encodes the verbs last given. The decisions
then need no further step of the system: `DigitsOfVerbs` shows that the display
of a column has a 1 in the place of each verb given (arithmetic over four
digits, `FourDigits`), `Merged` that merging loses none, `HasVerb` that each
action looks at its own place, `RowFields` that rows are told apart; `MayCreate`
and `MayObject` put these together for levels and children, and the decisions
about users and groups follow from who is an administrator.

### SwaggerMergeProofs
`TypeCorrect`; `References` (`ReferencesResolve`); `Operations`
(`OperationsDistinct`); `OrderMakesNoDifference`, which no run checks.

A merged name says what it is made of only if it can be taken apart again. What
is needed of sequences for that are facts about lengths and elements, none by
induction: a prefix taken off leaves the rest (`Suffix`), two prefixes of one
name are comparable (`Comparable`, so that `NamesApart` leaves one service for a
name), routes are equal only if service and path are (`SameRoute`), and an
operation id splits in one way only (`DotAt`, `DotSplits`): a name may have
dots, but of two readings the shorter service's name with its dot would begin
the longer one (`ShorterBegins`), which `IdsApart` excludes. `SameId` concludes
that two actions with one id are one action. `IInv` says of each stage which
services' definitions and paths are there (`DefinitionsInv`, `PathsInv`: every
entry is one of a service that is in, every one of those is there, or something
of equal name merged later). `OneDefinition` and `OneAction` conclude from
`NamesApart` and `PathsApart` that nothing was merged over it. Then the finished
document is the gateway's own entries and those of all services, whatever the
order in which they were merged (`OrderMakesNoDifference`).

### SignInProofs
`TypeCorrect`; `Loaded` (`LoadedOnce`); `Claims` (`ClaimsNameUser`); they rest
on `Invariance` (`Spec => []IInv`), of `DataInv` for the tables and the command
and `SignInv` for the requests.

`DataInv`: keys not handed out are free (`Fresh`); what a run has inserted by
which stage (`RunShape`); usernames are unique, the one a run is inserting
included (`UniqueNames`); a run has seen a global group or makes one, and
without overlap not both (`GroupInv`, which also bounds the groups by the runs:
`RunCount`). `LoadInv` is the argument for `LoadedOnce`: the unique names of the
roles let only one run at a time past `GetRoles` before the first commit, so
that it makes everything (`RunLoads`, `Nothing`, `Everything`) and later ones
nothing.

`SignInv`: accounts and tokens have their users (`SignRefs`); who a request is
about is the row it holds, unless that was renamed or deleted (`KnowsUser`); a
token is the request's user's, or that of the token it was swapped for
(`KnowsToken`). `Kept` is what a step of anybody else leaves of this: nobody is
renamed without being in `renamed`, nobody is brought back under another name,
no token changes its user. `JobKept` derives a request's part from it.

### Model-checked only
The liveness properties `RequestsEnd` and `JoinEnds` themselves: the prover has
no rules for fairness, ENABLED and induction over time. Their variants are
theorems (`Terminating`, `Bounded`, `Unstuck` above).

## 6. Known disagreements between the code and what it says

Shown by runs (`findings` in `PROJECT.json`): the three refuted properties
above. Found while modelling, most of them listed as hazards:

- Consortium: of two overlapping custody POSTs one organization is lost;
  overlapping first ones create two consortia.
- Data mesh: the names of deleted models stay choices of the serializer until
  the worker restarts (`datamesh/serializers.py:46`); two overlapping saves
  store both directions of a relationship; overlapping creations make two
  relationships for a pair, after which every `get()` of the pair fails; the
  four unique constraints lack the organization that the comment above them
  names (`datamesh/models.py:126`); the key field of the first join record is
  read from all of them; an error document of a service is nested like a record
  (`datamesh/services.py:153`).
- Gateway: a module deleted while a request fetches its specification is
  inserted again; an asynchronous request for an unknown service is answered
  500, not 404; the status of a swagger answer is not looked at
  (`gateway/utils.py:87`), so that the JSON body of an error, or `null`, is
  stored as the specification (`gateway/request.py:172-174`,
  `gateway/aggregator.py:42-45`), and an error document stays there until
  somebody refreshes or edits the module.
- Swagger: a service's name is put before its definitions without a separator,
  so that 'a' with 'bc' and 'ab' with 'c' give one name; it is put before an id
  with a dot that both may contain (`gateway/aggregator.py:133`), so that 'b.c'
  of 'a' and 'c' of 'a.b' give one id; a service that publishes `null` makes the
  whole document fail (`gateway/aggregator.py:104`).
- Accounts: a registration that fails at the mail server has committed its user
  and, for a founder, an organization without administrator; a PATCH stores a
  password as sent; a profile update leaves the groups of the old organization
  (`core/serializers.py:254`) and needs the organization name that its
  serializer declares optional (`:252`).
- Sign-in: the pipeline calls `create_organization` with `user`, the function
  waits for `core_user` (`core/auth_pipeline.py:12-17`) and returns at once, so
  that no social user ever gets an organization, which the refresh of its token
  needs; `whitelisted_domains +=` (`:54`) would change the list of the settings
  for the life of the process, in a function that no pipeline names.
- Initial data: overlapping runs can make the global group twice.
- Workflow: row, groups and creator of a WorkflowLevel1 are written by separate
  statements (`workflow/views/workflowlevel1.py:71`); a WorkflowLevel2 moved
  away while its level is being deleted goes with it; a method without an action
  raises TypeError (`workflow/permissions.py:99`); a team row without a level is
  answered 500 to everybody but administrators (`:170`); the groups of a
  WorkflowLevel2 decide nothing, although `docs/model/permissions.rst:27` speaks
  of levels 1 or 2.
- Permissions: `docs/model/permissions.rst:12` says that what is in an
  organization is accessible to its members; whoever holds `create` by an
  organization group of any organization may POST children below another
  organization's level (`CoreGroupsPermissions` compares no organization of a
  group with that of the level, and `IsOrgMember` looks only at an organization
  the request names). `:17` says that global groups reach all organizations; one
  without all four verbs does not reach the levels, accounts and groups of
  others (`IsOrgMember` asks for `is_global_admin`). `DecisionsFollowGrants`
  leaves both open.

## 7. Plan

All modules planned are written and checked. Done in this order: `SpecStore`;
`ConsortiumRegistry` with `ConsortiumSync`; `DataMeshStore`; `JoinedResponse`
with `DataMeshJoin`; `Accounts`; `Permissions` with `Workflow`; `SwaggerMerge`;
`InitialData` with `SignIn`; and the proofs of all of them.

What would come next: the access tokens' rows and expiry in
`SignIn`; the registration and invitation of `Accounts` on the tables that
`InitialData` fills.

## 8. What is not modelled

URL routing, headers, file uploads, JSON encoding and the wording of messages;
pagination, querysets of lists and filters; alerts, types, statuses and
translations; the nesting of WorkflowLevel2 rows (a plain integer); the classes
for superusers only beyond the guards that need them; the expiry of tokens,
links and invitations and the rows of access tokens; `auth_allowed`, which no
pipeline names; the inside of the OAuth and social auth libraries, which are
modelled as far as `src/` relies on them; migrations (generated), admin
registration, settings and the documentation's configuration (no behaviour of
their own); templates. Remote services are external: they answer anything, fail,
or break the connection. A record's contents are abstract, so that a nested
error document of a 404 looks like any other document. The time and the last
login in a password link only make it refused, and a refused request writes
nothing. Swagger paths without the leading slash are left out. A deletion
cascade is two steps, the collector's reads and one transaction, where rows with
a key to it are read first (`Workflow`, `Accounts`); the cascades of the data
mesh and of groups, and the deletion of an organization in `InitialData` and
`SignIn`, are one.
