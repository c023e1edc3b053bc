----------------------------- MODULE MCSignIn -----------------------------
(* Instances of SignIn for TLC. *)
EXTENDS SignIn, TLC

Started == \/ app \/ nextToken > 1
           \/ \E a \in Accounts : account[a] # 0
           \/ \E w \in Workers : ~Idle(w)

\* The command's runs may overlap and their rows be edited in every way before
\* requests begin.  Requests begin on what one run has made of full settings; then
\* one user at most is renamed, and no superuser; deactivations come before the
\* first token, and of one new user only, as joining an organization.
Bound ==
    Started => /\ \A r \in Runs : ~Running(r)
               /\ settings.password /\ settings.defaultOrg # NoName
               /\ ~shared
               /\ \A t \in Types : types[t] = 1
               /\ nextOrg = 2
               /\ Cardinality(renamed) <= 1
               /\ \A u \in UserIds : Exists(u) /\ ~users[u].active
                     => nextToken = 1 /\ u \notin Superusers /\ renamed = {}
                        /\ nextUser <= MaxUsers
               /\ \A u \in UserIds \ Superusers : Exists(u) /\ users[u].org # NoOrg
                     => renamed = {} /\ nextUser <= MaxUsers
               /\ Superusers \cap renamed = {}

Symmetry == Permutations(Workers) \cup Permutations(Usernames)
=============================================================================
