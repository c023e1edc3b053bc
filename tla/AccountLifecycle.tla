--------------------------- MODULE AccountLifecycle ---------------------------
(***************************************************************************)
(* What the users' table promises about every account, as long as requests *)
(* come one at a time: who opens it and whether it has to wait for an      *)
(* admin, that a request changes what it is about and nothing else, and    *)
(* that a password link works as long as the password it was sent for.     *)
(***************************************************************************)
CONSTANTS
    UserIds, OrgIds, Emails,
    Hashes,   \* passwords a login can be checked against
    Raw,      \* a password that no login matches
    Row,      \* [name, email, org, active, pw]
    NoRow

VARIABLES
    account,  \* user -> its row, or NoRow
    invited,  \* emails with an invitation
    links,    \* <<user, password, email>>: password links sent
    used,     \* those a password was set with
    kept      \* the promise is in force

vars == <<account, invited, links, used, kept>>

IsOpen(u) == account[u] # NoRow

Free(e) == \A u \in UserIds : IsOpen(u) => account[u].email # e

\* The link a user is sent, and the new passwords no link was ever sent for.
Link(u)  == <<u, account[u].pw, account[u].email>>
Fresh(u) == {h \in Hashes : \A e \in Emails : <<u, h, e>> \notin links}

Init ==
    /\ account = [u \in UserIds |-> NoRow]
    /\ invited = {}
    /\ links = {}
    /\ used = {}
    /\ kept \in BOOLEAN

\* The account of u, as it becomes; usernames stay unique.
Becomes(u, row) ==
    /\ IsOpen(u)
    /\ \A v \in UserIds \ {u} : IsOpen(v) => account[v].name # row.name
    /\ account' = [account EXCEPT ![u] = row]

\* Whoever is neither the first of an organization nor invited, while nobody
\* has the email of the invitation, waits for an admin.
Open(u, row) ==
    /\ ~IsOpen(u)
    /\ \A v \in UserIds : IsOpen(v) => account[v].name # row.name
    /\ row.pw = Raw
    /\ row.active => \/ \A v \in UserIds : IsOpen(v) => account[v].org # row.org
                     \/ row.email \in invited /\ Free(row.email)
    /\ account' = [account EXCEPT ![u] = row]
    /\ UNCHANGED <<invited, links, used>>

\* Its owner sets a password, moves to another organization, or both.
Update(u, x, p) ==
    /\ Becomes(u, [account[u] EXCEPT !.org = x, !.pw = p])
    /\ p \in Fresh(u) \cup {account[u].pw}
    /\ UNCHANGED <<invited, links, used>>

UseLink(u, p) ==
    /\ Becomes(u, [account[u] EXCEPT !.pw = p])
    /\ Link(u) \in links \ used
    /\ p \in Fresh(u)
    /\ used' = used \cup {Link(u)}
    /\ UNCHANGED <<invited, links>>

\* An admin approves or suspends the account, renames it, changes its email.
Edit(u, row) ==
    /\ Becomes(u, row)
    /\ row.org = account[u].org /\ row.pw = account[u].pw
    /\ UNCHANGED <<invited, links, used>>

\* An admin overwrites the password as well; links sent for such a one work again.
Overwrite(u, row) ==
    /\ Becomes(u, row)
    /\ row.org = account[u].org /\ row.pw = Raw
    /\ used' = {l \in used : l[1] # u}
    /\ UNCHANGED <<invited, links>>

\* An organization is deleted with the accounts of its users.
Close(x) ==
    /\ account' = [u \in UserIds |-> IF IsOpen(u) /\ account[u].org = x
                                     THEN NoRow ELSE account[u]]
    /\ UNCHANGED <<invited, links, used>>

Invite(e) ==
    /\ Free(e)
    /\ invited' = invited \cup {e}
    /\ UNCHANGED <<account, links, used>>

\* The owners of an email get links, those among them who are active.
SendLinks(us, e) ==
    /\ \A u \in us : IsOpen(u) /\ account[u].email = e /\ account[u].active
    /\ links' = links \cup {Link(u) : u \in us}
    /\ UNCHANGED <<account, invited, used>>

Serve ==
    \/ \E u \in UserIds :
          \/ \E row \in Row : Open(u, row) \/ Edit(u, row) \/ Overwrite(u, row)
          \/ \E x \in OrgIds, p \in {Raw} \cup Hashes : Update(u, x, p)
          \/ \E p \in Hashes : UseLink(u, p)
    \/ \E x \in OrgIds : Close(x)
    \/ \E e \in Emails : Invite(e) \/ \E us \in SUBSET UserIds : SendLinks(us, e)

\* Nothing is promised where requests overlap.
Next == UNCHANGED kept /\ (kept => Serve)

Spec == Init /\ [][Next]_vars
===============================================================================
