\* Two overlapping runs of the command, then overlapping requests.
SPECIFICATION Spec
CONSTANTS
    Runs = {r1, r2}
    Types = {t1}
    OrgNames = {d}
    DefaultOrgs = {d, NoName}
    Passwords = {TRUE, FALSE}
    SuperName = s
    Usernames = {a, b}
    MaxOrgs = 2
    MaxUsers = 3
    NoName = NoName
    NoRow = NoRow
    Workers = {w1, w2}
    Accounts = {g}
    MaxTokens = 2
    Nobody = Nobody
SYMMETRY Symmetry
CONSTRAINT Bound
INVARIANT TypeOK
INVARIANT LoadedOnce
 
CHECK_DEADLOCK FALSE
