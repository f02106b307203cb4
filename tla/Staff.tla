------------------------------- MODULE Staff -------------------------------
(***************************************************************************)
(* The admins of the back office: their logins and tokens, the two guards  *)
(* in front of every endpoint and what the endpoints do to the admins.     *)
(* What they do to wallets, cards and KYC is in AdminFinance and Kyc.      *)
(***************************************************************************)
EXTENDS Permissions, Integers, FiniteSets

CONSTANTS
    Admins,
    Staffing,       \* the tables of admins a behaviour may begin with
    Extras,         \* the lists of permissions a manager may give
    Roles,          \* and the roles
    Calls,          \* bound: the calls that are under way at a time
    Menu,           \* the endpoints the calls may be of
    AccessLife,     \* the life of an access token, 15 minutes
    RefreshLife,    \* and of a refresh token, 12 hours
    None

AdminType == [role : AdminRoles, permissions : SUBSET ADMIN_PERMISSIONS, isActive : BOOLEAN]

ASSUME StaffAssumption ==
    /\ None \notin Admins
    /\ Staffing \subseteq [Admins -> AdminType]
    /\ Extras \subseteq SUBSET ADMIN_PERMISSIONS
    /\ Roles \subseteq AdminRoles
    /\ Menu \subseteq Endpoints
    /\ AccessLife \in Nat \ {0} /\ RefreshLife \in Nat \ {0}

VARIABLES
    admins,     \* the AdminUser rows
    access,     \* per admin: the time its newest access token has left, 0 for none
    refresh,    \* the same of its refresh token
    call,       \* the calls that were let in: whose, and of which endpoint
    wrote,      \* ghost: the admins that were served an endpoint that writes
    plain,      \* ghost: the admins that were never more than read only
    since       \* ghost: the time since an admin's last login, up to Long

vars == <<admins, access, refresh, call, wrote, plain, since>>

Long == AccessLife + RefreshLife + 1
NoCall == [admin |-> None, endpoint |-> "getCurrentAdmin"]

IsPlain(a, table) == table[a].role = "READ_ONLY" /\ table[a].permissions = {}

-----------------------------------------------------------------------------
(* AdminService.                                                           *)

\* With the right password; a second login does not end the first.
Login(a) ==
    /\ admins[a].isActive
    /\ access' = [access EXCEPT ![a] = AccessLife]
    /\ refresh' = [refresh EXCEPT ![a] = RefreshLife]
    /\ since' = [since EXCEPT ![a] = 0]
    /\ UNCHANGED <<admins, call, wrote, plain>>

\* As Refresh, with a new refresh token as well.
Sliding(a) ==
    /\ refresh[a] > 0
    /\ admins[a].isActive
    /\ access' = [access EXCEPT ![a] = AccessLife]
    /\ refresh' = [refresh EXCEPT ![a] = RefreshLife]
    /\ UNCHANGED <<admins, call, wrote, plain, since>>

\* A new access token; the refresh token stays what it is.
Refresh(a) ==
    /\ refresh[a] > 0
    /\ admins[a].isActive
    /\ access' = [access EXCEPT ![a] = AccessLife]
    /\ UNCHANGED <<admins, refresh, call, wrote, plain, since>>

\* As Older, of a token that is taken for valid while it is not zero.
Counted(left) == left - 1

\* A token that has run out stays so.
Older(left) == IF left = 0 THEN 0 ELSE left - 1

Tick ==
    /\ access' = [a \in Admins |-> Older(access[a])]
    /\ refresh' = [a \in Admins |-> Older(refresh[a])]
    /\ since' = [a \in Admins |-> IF since[a] = Long THEN Long ELSE since[a] + 1]
    /\ since' # since
    /\ UNCHANGED <<admins, call, wrote, plain>>

\* AdminJwtStrategy.validate reads the row, AdminPermissionGuard judges by it;
\* a call that is turned away leaves no trace.
LetIn(c, a, e) ==
    /\ call[c] = NoCall
    /\ access[a] > 0
    /\ admins[a].isActive
    /\ Granted(admins[a].role, admins[a].permissions, e)
    /\ call' = [call EXCEPT ![c] = [admin |-> a, endpoint |-> e]]
    /\ UNCHANGED <<admins, access, refresh, wrote, plain, since>>

\* The handler, some time after the guards.
Serve(c, e) ==
    /\ call[c] # NoCall /\ call[c].endpoint = e
    /\ call' = [call EXCEPT ![c] = NoCall]
    /\ wrote' = IF e \in Writes THEN wrote \cup {call[c].admin} ELSE wrote
    /\ plain' = {a \in plain : IsPlain(a, admins')}
    /\ UNCHANGED <<access, refresh, since>>

UpdatePermissions(c) ==
    /\ \E a \in Admins, extra \in Extras : admins' = [admins EXCEPT ![a].permissions = extra]
    /\ Serve(c, "updatePermissions")

UpdateRole(c) ==
    /\ \E a \in Admins, role \in Roles : admins' = [admins EXCEPT ![a].role = role]
    /\ Serve(c, "updateRole")

DeactivateAdmin(c) ==
    /\ \E a \in Admins : admins' = [admins EXCEPT ![a].isActive = FALSE]
    /\ Serve(c, "deactivateAdmin")

ActivateAdmin(c) ==
    /\ \E a \in Admins : admins' = [admins EXCEPT ![a].isActive = TRUE]
    /\ Serve(c, "activateAdmin")

\* Every other endpoint leaves the admins alone.
ServeOther(c) ==
    /\ UNCHANGED admins
    /\ \E e \in Endpoints \ StaffWrites : Serve(c, e)

-----------------------------------------------------------------------------
Init ==
    /\ admins \in Staffing
    /\ access = [a \in Admins |-> 0]
    /\ refresh = [a \in Admins |-> 0]
    /\ call = [c \in Calls |-> NoCall]
    /\ wrote = {}
    /\ plain = {a \in Admins : IsPlain(a, admins)}
    /\ since = [a \in Admins |-> Long]

Next ==
    \/ Tick
    \/ \E a \in Admins : \/ Login(a) \/ Refresh(a)
                         \/ \E c \in Calls, e \in Menu : LetIn(c, a, e)
    \/ \E c \in Calls : \/ UpdatePermissions(c) \/ UpdateRole(c) \/ DeactivateAdmin(c)
                        \/ ActivateAdmin(c) \/ ServeOther(c)

Spec == Init /\ [][Next]_vars

-----------------------------------------------------------------------------
\* The rows and tokens have their types; a call under way is some admin's.
StaffTypeOK ==
    /\ admins \in [Admins -> AdminType]
    /\ access \in [Admins -> 0..AccessLife]
    /\ refresh \in [Admins -> 0..RefreshLife]
    /\ call \in [Calls -> {NoCall} \cup
                          [admin : Admins, endpoint : Menu]]
    /\ wrote \subseteq Admins
    /\ plain \subseteq Admins
    /\ since \in [Admins -> 0..Long]

\* "Read everything, modify nothing": who was never more than read only has
\* changed nothing, through none of the endpoints of the back office.
ReadOnlyModifiesNothing == plain \cap wrote = {}

\* Whoever has a permission to change an admin's row.
MayManage(table, a) ==
    /\ table[a].isActive
    /\ hasAnyPermission(getEffectivePermissions(table[a].role, table[a].permissions),
                        {"admin_users:manage_permissions", "admin_users:manage_roles",
                         "admin_users:delete"})

\* No admin may manage the others, and no call that would is still under way.
Unmanaged ==
    /\ \A a \in Admins : ~ MayManage(admins, a)
    /\ \A c \in Calls : call[c].endpoint \notin StaffWrites

\* When the last manager is gone, deactivated or demoted by another or by
\* itself, nobody's rights ever change again: no call the others are let into
\* activates an admin or raises one (the endpoints of AdminController).
FrozenWithoutManagers == [][Unmanaged => UNCHANGED admins /\ Unmanaged']_vars

\* Whoever is let in has given a password not longer ago than the two tokens
\* together live, however often the access token was refreshed.
LetInAfterLogin == \A a \in Admins : access[a] > 0 \/ refresh[a] > 0 => since[a] < Long
=============================================================================
