\* Two requests at once, and longer sequences of requests one at a time.
SPECIFICATION Spec
CONSTANTS
    Workers = {w1, w2}
    OrgNames = {n1}
    Usernames = {a, b}
    Emails = {e1}
    MaxOrgs = 2
    MaxUsers = 2
    MaxHashes = 3
    Listed <- FounderAdmins
    Patches <- MCPatches
    NoRow = NoRow
    Scenarios <- MCScenarios
SYMMETRY Symmetry
INVARIANT TypeOK
INVARIANT OneFounder
INVARIANT ActiveWasApproved
INVARIANT PasswordSticks
PROPERTY FounderIsAdmin
PROPERTY InvitationOnce
PROPERTY LinkUsedOnce
PROPERTY ImplementsLifecycle
