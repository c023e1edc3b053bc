\* A user without organization swaps a refresh token.
SPECIFICATION Spec
CONSTANTS
    Runs = {r1}
    Types = {t1}
    OrgNames = {d}
    DefaultOrgs = {d, NoName}
    Passwords = {TRUE}
    SuperName = s
    Usernames = {a}
    MaxOrgs = 1
    MaxUsers = 2
    NoName = NoName
    NoRow = NoRow
    Workers = {w1}
    Accounts = {g}
    MaxTokens = 2
    Nobody = Nobody
PROPERTY RefreshSwaps
CHECK_DEADLOCK FALSE
