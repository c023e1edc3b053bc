---------------------------- MODULE Permissions ----------------------------
(***************************************************************************)
(* The decisions of the permission classes (core/permissions.py,           *)
(* workflow/permissions.py, gateway/permissions.py) about one request, as  *)
(* operators over the user's row and the rows of its groups:               *)
(*                                                                         *)
(*   user   [org, active, superuser, groups : a set of groups]             *)
(*   group  [id, org, isGlobal, isOrgLevel, permissions : Nat]             *)
(***************************************************************************)
EXTENDS Integers, FiniteSets

Verbs == {"create", "read", "update", "delete"}

\* A bug: one digit too many.
Mutant_ToInternal(granted) ==
    LET bit(v, n) == IF v \in granted THEN n ELSE 0
    IN  bit("create", 16) + bit("read", 8) + bit("update", 4) + bit("delete", 2)

\* PermissionsField.to_internal_value(): the column for the verbs that are true.
ToInternal(granted) ==
    LET bit(v, n) == IF v \in granted THEN n ELSE 0
    IN  bit("create", 8) + bit("read", 4) + bit("update", 2) + bit("delete", 1)

\* '{0:04b}'.format(): four binary digits.
Digits(v) == <<v \div 8, (v \div 4) % 2, (v \div 2) % 2, v % 2>>

\* display_permissions
Display(p) == Digits(IF p < 16 THEN p ELSE 15)

ViewOnly == Digits(4)
NoAccess == Digits(0)

\* merge_permissions() over the groups: the greater digit wins in each place.
MergeAll(base, gs) ==
    [i \in 1..4 |-> IF \E g \in gs : Display(g.permissions)[i] = 1
                    THEN 1 ELSE base[i]]

Methods == [POST |-> 1, GET |-> 2, HEAD |-> 2, PUT |-> 3, PATCH |-> 3, DELETE |-> 4,
            OPTIONS |-> 2, create |-> 1, list |-> 2, retrieve |-> 2, update |-> 3,
            partial_update |-> 3, destroy |-> 4]

\* has_permission(): an action it does not know is refused.
Has(p, action) == action \in DOMAIN Methods /\ p[Methods[action]] = 1

-----------------------------------------------------------------------------

\* CoreUser.is_org_admin, is_global_admin: a column of exactly 15.
IsOrgAdmin(u) == \E g \in u.groups : g.permissions = 15 /\ g.isOrgLevel

IsGlobalAdmin(u) == \/ u.superuser
                    \/ \E g \in u.groups : g.permissions = 15 /\ g.isGlobal

\* AllowOnlyOrgAdmin.has_permission(), which asks a global administrator alone
\* whether the account is active.
OrgAdminPermit(u) == (u.active /\ IsGlobalAdmin(u)) \/ IsOrgAdmin(u)

\* CoreGroupsPermissions.has_permission(); parent is the set of the groups of
\* the WorkflowLevel1 that a POST names or, if it names a WorkflowLevel2 only, of
\* that row's; empty if there is none.  Only a POST is decided here, everything
\* else by the object.
GroupsPermit(u, action, parent) ==
    LET world == {g \in u.groups : g.isGlobal}
        staff == {g \in u.groups \ world : g.isOrgLevel}
        plain == u.groups \ (world \cup staff) IN
    /\ u.active
    /\ \/ action # "create"
       \/ IsGlobalAdmin(u)
       \/ \E gs \in {world, staff, plain \cap parent} :
             Has(MergeAll(ViewOnly, gs), action)

\* A bug: any group of the user counts for any object.
Mutant_ObjectPermit(u, action, isLevel1, of) ==
    /\ u.active
    /\ \/ IsGlobalAdmin(u)
       \/ IsOrgAdmin(u)
       \/ \E g \in u.groups : Has(Display(g.permissions), action)

\* CoreGroupsPermissions.has_object_permission(); of is the set of the groups of
\* the WorkflowLevel1 the object belongs to.
ObjectPermit(u, action, isLevel1, of) ==
    /\ u.active
    /\ \/ IsGlobalAdmin(u)
       \/ IsOrgAdmin(u)
       \/ \E g \in u.groups : /\ IF isLevel1 THEN g.isOrgLevel ELSE g \in of
                              /\ Has(Display(g.permissions), action)

\* IsOrgMember.has_permission(); named is the set of the organization that a POST
\* names, empty if it names none, which a POST of a group must not.
MemberRequest(u, action, named, isGroup) ==
    /\ u.active
    /\ \/ IsGlobalAdmin(u)
       \/ action # "create"
       \/ IF named = {} THEN ~isGroup ELSE named = {u.org}

\* IsOrgMember.has_object_permission()
MemberPermit(u, org) == u.active /\ (IsGlobalAdmin(u) \/ org = u.org)

\* A bug: the organization groups of any organization are of concern.
Mutant_GatewayPermit(u, method, moduleGroups) ==
    LET concern == {g \in moduleGroups : g.isGlobal \/ g.isOrgLevel}
    IN  \/ u.superuser
        \/ concern = {}
        \/ Has(MergeAll(NoAccess, concern), method)

\* AllowLogicModuleGroup.has_permission(): a module with no group of concern to
\* the user is open to it.
GatewayPermit(u, method, moduleGroups) ==
    LET concern == {g \in moduleGroups : g.isGlobal \/ (g.org = u.org /\ g.isOrgLevel)}
    IN  \/ u.superuser
        \/ concern = {}
        \/ Has(MergeAll(NoAccess, {g \in concern : g.isGlobal}), method)
        \/ Has(MergeAll(NoAccess, {g \in concern : ~g.isGlobal}), method)
=============================================================================
