------------------------------- MODULE SignIn -------------------------------
(***************************************************************************)
(* Signing in with an account of a social network (oauth_complete in       *)
(* core/views/web.py), the tokens it answers with (core/utils.py,          *)
(* core/jwt_utils.py), their refresh, and the superuser's view sets of     *)
(* applications and tokens (core/views/oauth.py), on the tables that       *)
(* InitialData has filled: the server is started after the command has     *)
(* ended well (scripts/run-standalone-dev.sh).                             *)
(*                                                                         *)
(* The pipeline's steps but one, and the storage and refresh of tokens,    *)
(* are libraries': they are modelled as far as src/ relies on them.  One   *)
(* action is one committed statement or transaction.  Edits of users are   *)
(* single statements here; how they overlap is in Accounts.                *)
(***************************************************************************)
EXTENDS InitialData

CONSTANTS
    Workers,    \* gunicorn workers
    Accounts,   \* accounts of social networks
    MaxTokens,  \* bound: refresh tokens ever issued
    Nobody      \* the claims of a JWT that names no user

ASSUME SignInAssumption ==
    MaxTokens \in Nat /\ Nobody \notin Nat /\ NoRow \notin Nat

TokenIds == 1..MaxTokens

\* A refresh token's row, and what the client was answered with it.
Token == [user : UserIds, live : BOOLEAN, claims : UserIds \cup {Nobody, NoRow}]

VARIABLES
    account,    \* social_auth: the user of each account, or 0
    app,        \* the Application of OAUTH_CLIENT_ID exists
    tokens,     \* the RefreshToken table
    nextToken,
    job,        \* what each worker is doing
    renamed     \* history: users that were not called the same all the time

signVars == <<account, app, tokens, nextToken, job, renamed>>
vars == <<dataVars, signVars>>

Job == [stage   : {"idle", "social", "create", "associate",
                   "details", "tokens", "enrich", "refreshed"},
        account : Accounts \cup {NoRow},
        session : BOOLEAN,               \* is_authenticated
        user    : UserIds \cup {0},      \* the user so far
        row     : Row \cup {NoRow},      \* the instance in memory
        token   : TokenIds \cup {0},     \* the one issued
        old     : TokenIds \cup {0}]     \* the one it was swapped for

NoJob == [stage |-> "idle", account |-> NoRow, session |-> FALSE, user |-> 0,
          row |-> NoRow, token |-> 0, old |-> 0]

Idle(w) == job[w].stage = "idle"

Goto(w, stage) == job' = [job EXCEPT ![w].stage = stage]

\* An error, or a redirection without tokens.
Fail(w) == job' = [job EXCEPT ![w] = NoJob]

Load(w, u, stage) ==
    job' = [job EXCEPT ![w].user = u, ![w].row = users[u], ![w].stage = stage]

Init ==
    /\ InitData
    /\ account = [a \in Accounts |-> 0]
    /\ app = FALSE
    /\ tokens = [t \in TokenIds |-> NoRow]
    /\ nextToken = 1
    /\ job = [w \in Workers |-> NoJob]
    /\ renamed = {}

-----------------------------------------------------------------------------
(* GET /oauth/complete/<backend>/                                          *)

\* With a code, a configured backend and, if the client has signed in before,
\* that user.  (No step of the pipeline is partial.)
OAuthComplete(w, a, u) ==
    /\ loaded
    /\ Idle(w)
    /\ u = 0 \/ Exists(u)
    /\ job' = [job EXCEPT ![w] = [NoJob EXCEPT
                  !.stage = "social", !.account = a, !.session = (u # 0),
                  !.user = u, !.row = IF u = 0 THEN NoRow ELSE users[u]]]
    /\ UNCHANGED <<dataVars, account, app, tokens, nextToken, renamed>>

\* A bug: whoever is signed in stays in memory, although the account is another
\* user's.
Mutant_SocialUser(w) ==
    LET u == account[job[w].account] IN
    /\ job[w].stage = "social"
    /\ \/ u = 0 /\ Goto(w, IF job[w].session THEN "associate" ELSE "create")
       \/ u # 0 /\ job[w].user = 0 /\ Load(w, u, "associate")
       \/ /\ u # 0 /\ job[w].user # 0
          /\ job' = [job EXCEPT ![w].user = u, ![w].stage = "associate"]
    /\ UNCHANGED <<dataVars, account, app, tokens, nextToken, renamed>>

\* social_user: the account's user, who must be the one signed in.
SocialUser(w) ==
    LET u == account[job[w].account] IN
    /\ job[w].stage = "social"
    /\ \/ u = 0 /\ Goto(w, IF job[w].session THEN "associate" ELSE "create")
       \/ u # 0 /\ job[w].user \in {0, u} /\ Load(w, u, "associate")
       \/ u # 0 /\ job[w].user \notin {0, u} /\ Fail(w)
    /\ UNCHANGED <<dataVars, account, app, tokens, nextToken, renamed>>

\* create_organization(core_user=None, ...): the pipeline calls its user 'user',
\* not 'core_user', so that the function returns at once and a new user stays
\* in no organization.
NewUsersOrg == NoOrg

\* create_user: an active user.  A username that is taken is an IntegrityError, or
\* its user if all other fields agree.
CreateUser(w, n) ==
    LET same == {u \in UserIds : Exists(u) /\ users[u].name = n}
        row  == [name |-> n, org |-> NewUsersOrg, active |-> TRUE, super |-> FALSE] IN
    /\ job[w].stage = "create"
    /\ \/ /\ same = {}
          /\ nextUser <= MaxUsers
          /\ users' = [users EXCEPT ![nextUser] = row]
          /\ nextUser' = nextUser + 1
          /\ job' = [job EXCEPT ![w].user = nextUser, ![w].row = row,
                                ![w].stage = "associate"]
       \/ /\ same # {}
          /\ Fail(w) \/ \E u \in same : Load(w, u, "associate")
          /\ UNCHANGED <<users, nextUser>>
    /\ UNCHANGED <<settings, dataTables, run, loaded, shared, edited, account, app,
                   tokens, nextToken, renamed>>

\* associate_user: account and user, both of which are there; a second row of an
\* account is refused, and taken for the first one if it names the same user.
Associate(w) ==
    LET a == job[w].account
        u == job[w].user IN
    /\ job[w].stage = "associate"
    /\ IF account[a] \in {0, u} /\ Exists(u)
       THEN /\ account' = [account EXCEPT ![a] = u]
            /\ Goto(w, "details")
       ELSE /\ Fail(w)
            /\ UNCHANGED account
    /\ UNCHANGED <<dataVars, app, tokens, nextToken, renamed>>

\* user_details: if a name or email has changed, the whole row is written, or
\* inserted again if it is gone; then the view looks at what it holds in memory.
\* The write waits for a run of the command that is inserting the same username.
UserDetails(w) ==
    LET u   == job[w].user
        row == job[w].row
        next == IF job[w].session \/ row.active THEN Goto(w, "tokens") ELSE Fail(w)
        fits == /\ row.org # NoOrg => orgs[row.org] # NoRow
                /\ \A v \in UserIds \ {u} : Exists(v) => users[v].name # row.name IN
    /\ job[w].stage = "details"
    /\ \/ next /\ UNCHANGED <<users, renamed>>
       \/ /\ fits
          /\ row.name = SuperName => \A r \in Runs : ~run[r].newUser
          /\ users' = [users EXCEPT ![u] = row]
          /\ renamed' = IF users[u] = NoRow \/ users[u].name # row.name
                        THEN renamed \cup {u} ELSE renamed
          /\ next
       \/ ~fits /\ Fail(w) /\ UNCHANGED <<users, renamed>>
    /\ UNCHANGED <<settings, dataTables, nextUser, run, loaded, shared, edited,
                   account, app, tokens, nextToken>>

-----------------------------------------------------------------------------
(* generate_access_tokens()                                                *)

\* A token for user u, in one transaction.
Issue(w, u, stage) ==
    /\ nextToken <= MaxTokens
    /\ nextToken' = nextToken + 1
    /\ job' = [job EXCEPT ![w].token = nextToken, ![w].stage = stage]

IssuedTo(u) == [user |-> u, live |-> TRUE, claims |-> NoRow]

\* Application.objects.get() and save_bearer_token(): committed before the JWT.
SaveBearerToken(w) ==
    LET u == job[w].user IN
    /\ job[w].stage = "tokens"
    /\ IF app /\ Exists(u)
       THEN /\ Issue(w, u, "enrich")
            /\ tokens' = [tokens EXCEPT ![nextToken] = IssuedTo(u)]
       ELSE /\ Fail(w)
            /\ UNCHANGED <<tokens, nextToken>>
    /\ UNCHANGED <<dataVars, account, app, renamed>>

\* The client is answered with the token and a JWT of these claims.
AnswerWith(w, claims) ==
    /\ tokens' = [tokens EXCEPT ![job[w].token] =
                     IF @ = NoRow THEN NoRow ELSE [@ EXCEPT !.claims = claims]]
    /\ Fail(w)

\* payload_enricher(), by the username in memory.
EnrichByName(w) ==
    LET named == {v \in UserIds : Exists(v) /\ users[v].name = job[w].row.name} IN
    /\ job[w].stage = "enrich"
    /\ \/ \E v \in named : AnswerWith(w, v)
       \/ /\ named = {}
          /\ Fail(w)
          /\ UNCHANGED tokens
    /\ UNCHANGED <<dataVars, account, app, nextToken, renamed>>

-----------------------------------------------------------------------------
(* POST /oauth/token/ with a refresh token.                                *)

\* The library swaps the token for a new one, in one transaction.
Refresh(w, t) ==
    /\ Idle(w)
    /\ tokens[t] # NoRow /\ tokens[t].live
    /\ nextToken <= MaxTokens
    /\ nextToken' = nextToken + 1
    /\ tokens' = [tokens EXCEPT ![t].live = FALSE,
                                ![nextToken] = IssuedTo(tokens[t].user)]
    /\ job' = [job EXCEPT ![w] = [NoJob EXCEPT
                  !.stage = "refreshed", !.token = nextToken, !.old = t]]
    /\ UNCHANGED <<dataVars, account, app, renamed>>

\* A bug: the JWT names the user of the request, but nobody has signed in to it.
Mutant_EnrichByToken(w) ==
    /\ job[w].stage = "refreshed"
    /\ AnswerWith(w, job[w].user)
    /\ UNCHANGED <<dataVars, account, app, nextToken, renamed>>

\* payload_enricher(), by the refresh token the client has sent: without it the
\* JWT names nobody, and a user without organization is an AttributeError.
EnrichByToken(w) ==
    LET old == tokens[job[w].old] IN
    /\ job[w].stage = "refreshed"
    /\ \/ old = NoRow /\ AnswerWith(w, Nobody)
       \/ /\ old # NoRow
          /\ users[old.user].org # NoOrg
          /\ AnswerWith(w, old.user)
       \/ /\ old # NoRow
          /\ users[old.user].org = NoOrg
          /\ Fail(w)
          /\ UNCHANGED tokens
    /\ UNCHANGED <<dataVars, account, app, nextToken, renamed>>
-----------------------------------------------------------------------------
(* Administrators, and users' profiles.                                    *)

\* IsSuperUser
SuperuserThere == \E u \in Superusers : users[u].active

\* ApplicationViewSet, of the one application that matters here: its client_id is
\* generated, and the server started again with the settings that name it.
PostApplication ==
    /\ SuperuserThere
    /\ ~app
    /\ \A w \in Workers : Idle(w)
    /\ app' = TRUE
    /\ UNCHANGED <<dataVars, account, tokens, nextToken, job, renamed>>

\* The application's tokens go with it.
DeleteApplication ==
    /\ SuperuserThere
    /\ app
    /\ app' = FALSE
    /\ tokens' = [t \in TokenIds |-> NoRow]
    /\ UNCHANGED <<dataVars, account, nextToken, job, renamed>>

\* RefreshTokenViewSet
DeleteToken(t) ==
    /\ SuperuserThere
    /\ tokens[t] # NoRow
    /\ tokens' = [tokens EXCEPT ![t] = NoRow]
    /\ UNCHANGED <<dataVars, account, app, nextToken, job, renamed>>

\* PATCH /coreuser/<u>/ of a name or of is_active, and a profile update that names
\* an organization.
PatchUser(u) ==
    /\ Exists(u)
    /\ \/ \E n \in Usernames :
             /\ \A v \in UserIds : Exists(v) => users[v].name # n
             /\ users' = [users EXCEPT ![u].name = n]
             /\ renamed' = renamed \cup {u}
       \/ /\ \/ \E x \in OrgIds : /\ orgs[x] # NoRow
                                  /\ users' = [users EXCEPT ![u].org = x]
             \/ users' = [users EXCEPT ![u].active = ~@]
          /\ UNCHANGED renamed
    /\ UNCHANGED <<settings, dataTables, nextUser, run, loaded, shared, edited,
                   account, app, tokens, nextToken, job>>

\* The accounts and tokens of an organization's users go with them.
CascadeOrg(x) ==
    LET gone == Belonging(x) IN
    /\ DeleteOrg(x)
    /\ account' = [a \in Accounts |-> IF account[a] \in gone THEN 0 ELSE account[a]]
    /\ tokens' = [t \in TokenIds |-> IF tokens[t] # NoRow /\ tokens[t].user \in gone
                                     THEN NoRow ELSE tokens[t]]
    /\ UNCHANGED <<app, nextToken, job, renamed>>

\* gunicorn kills a worker that takes too long.
Timeout(w) ==
    /\ ~Idle(w)
    /\ Fail(w)
    /\ UNCHANGED <<dataVars, account, app, tokens, nextToken, renamed>>

-----------------------------------------------------------------------------

Request(w) ==
    \/ \E a \in Accounts, u \in {0} \cup UserIds : OAuthComplete(w, a, u)
    \/ SocialUser(w)
    \/ \E n \in Usernames : CreateUser(w, n)
    \/ Associate(w)
    \/ UserDetails(w)
    \/ SaveBearerToken(w)
    \/ EnrichByName(w)
    \/ \E t \in TokenIds : Refresh(w, t)
    \/ EnrichByToken(w)
    \/ Timeout(w)

Administer ==
    \/ PostApplication
    \/ DeleteApplication
    \/ \E t \in TokenIds : DeleteToken(t)
    \/ \E u \in UserIds : PatchUser(u)
    \/ \E x \in OrgIds : CascadeOrg(x)
    \/ /\ \/ \E n \in OrgNames : PostOrg(n)
          \/ \E t \in Types : PostType(t)
       /\ UNCHANGED signVars

Next ==
    \/ \E r \in Runs : Command(r) /\ UNCHANGED signVars
    \/ \E w \in Workers : Request(w)
    \/ Administer

Spec == Init /\ [][Next]_vars

-----------------------------------------------------------------------------
(* Properties.                                                             *)

\* The types of all tables and jobs, those of InitialData included.
TypeOK ==
    /\ DataTypeOK
    /\ account \in [Accounts -> UserIds \cup {0}]
    /\ app \in BOOLEAN
    /\ tokens \in [TokenIds -> Token \cup {NoRow}]
    /\ nextToken \in 1..(MaxTokens + 1)
    /\ job \in [Workers -> Job]
    /\ renamed \subseteq UserIds

\* "The user the token was issued to" and "the user the JWT names" are found
\* separately, one by the instance in memory, one by its username
\* (core/utils.py:24-36): whatever overlaps, an answer names the same user twice,
\* unless that user has been renamed.
ClaimsNameUser ==
    \A t \in TokenIds : tokens[t] # NoRow /\ tokens[t].claims \in UserIds =>
        tokens[t].claims = tokens[t].user \/ tokens[t].user \in renamed

\* "a token that can be swapped for a new access token" (core/views/oauth.py,
\* RefreshTokenViewSet): a swap ends with an answer, unless the worker is killed.
RefreshSwaps ==
    [][\A w \in Workers :
          job[w].stage = "refreshed" /\ EnrichByToken(w)
             => tokens'[job[w].token] = NoRow \/ tokens'[job[w].token].claims # NoRow]_vars
=============================================================================
