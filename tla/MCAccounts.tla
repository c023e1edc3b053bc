---------------------------- MODULE MCAccounts ----------------------------
(* Instances of Accounts for TLC. *)
EXTENDS Accounts, TLC

FounderAdmins == {<<1, "Admins">>}

\* PATCHes, in which a field may be sent as it is.
MCPatches == {{"groups"}, {"username", "active"}, {"email", "password"}}

\* Two requests at once: on the tables, with failing mail and killed workers, and
\* with profile updates or renamed organizations; on the users and their approval;
\* on their groups.  And longer sequences of requests, one at a time.
MCScenarios ==
    {[ops     |-> {"register", "profile", "orgcreate", "orgdelete", "mailfail", "timeout"},
      workers |-> Workers, hashes |-> 2],
     [ops     |-> {"register", "orgput", "orgdelete", "mailfail", "timeout"},
      workers |-> Workers, hashes |-> 2],
     [ops     |-> {"register", "invite", "patch", "profile"},
      workers |-> Workers, hashes |-> 2],
     [ops     |-> {"register", "groups", "groupdelete"},
      workers |-> Workers, hashes |-> 2]}
    \cup
    {[ops     |-> {"register", "invite", "patch", "profile", "reset", "orgdelete"},
      workers |-> {w}, hashes |-> MaxHashes] : w \in Workers}

Symmetry == Permutations(Workers) \cup Permutations(Usernames)
=============================================================================
