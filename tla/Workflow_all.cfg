SPECIFICATION Spec
CONSTANTS
    Workers = {w1, w2}
    Orgs = {o1, o2}
    GroupIds = {gTeam, gStaff, gDesk, gWorld}
    GlobalGroups = {gWorld}
    OrgGroups = {gStaff, gDesk}
    GroupOrg <- MCGroupOrg
    Grants <- MCGrants
    Users <- MCUsers
    Actors <- MCActors
    Lists <- MCLists
    Members <- MCMembers
    NewOrgs <- MCNewOrgs
    MaxLevel1 = 2
    MaxChildren = 1
    NoRow = NoRow
    o1 = o1
    o2 = o2
    gTeam = gTeam
    gStaff = gStaff
    gDesk = gDesk
    gWorld = gWorld
SYMMETRY WorkerSymmetry
INVARIANTS
    TypeOK
    CreatorsHaveAccess
    DecisionsFollowGrants
    GatewayFollowsGrants
