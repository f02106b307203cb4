---------------------------- MODULE StaffProofs ----------------------------
(***************************************************************************)
(* Theorems about Staff, for any admins, initial rows, calls and lives of  *)
(* the two tokens.                                                         *)
(***************************************************************************)
EXTENDS Staff, TLAPS

\* The guard lets nobody through a handler that writes on the permissions of
\* the read only role alone (role-permissions.constant, admin-permission.guard).
LEMMA ReadOnlyPowerless ==
    ASSUME NEW e \in Endpoints, Granted("READ_ONLY", {}, e)
    PROVE  e \notin Writes
<1> DEFINE Has == ReadOnlyPermissions
<1>1. getEffectivePermissions("READ_ONLY", {}) = Has
  BY DEF getEffectivePermissions, ROLE_PERMISSIONS
<1>2. ALL \notin Has
  BY DEF ReadOnlyPermissions, Readers, ALL
<1>3. Requires(e) = {} \/ Requires(e) \cap Has # {}
  BY <1>1, <1>2 DEF Granted, hasAnyPermission
<1>4. CASE e \in FinanceWrites
  <2>1. Requires(e) = FinanceRequires(e)
    BY <1>4 DEF Requires, FinanceReads, FinanceWrites, KycWrites, StaffReads, StaffWrites
  <2>2. FinanceRequires(e) \in {{"wallets:freeze"}, {"wallets:unfreeze"},
                                {"transactions:reverse"}, {"transactions:mark_suspect"}}
    BY <1>4 DEF FinanceWrites, FinanceRequires
  <2> QED
    BY <1>3, <2>1, <2>2 DEF ReadOnlyPermissions, Readers
<1>5. CASE e \in KycWrites
  <2>1. Requires(e) = KycRequires(e)
    BY <1>5 DEF Requires, FinanceReads, FinanceWrites, KycWrites, StaffReads, StaffWrites
  <2>2. KycRequires(e) \in {{"kyc:approve"}, {"kyc:reject"}}
    BY <1>5 DEF KycWrites, KycRequires
  <2> QED
    BY <1>3, <2>1, <2>2 DEF ReadOnlyPermissions, Readers
<1>6. CASE e \in StaffWrites
  <2>1. Requires(e) = StaffRequires(e)
    BY <1>6 DEF Requires, FinanceReads, FinanceWrites, KycWrites, StaffReads, StaffWrites
  <2>2. StaffRequires(e) \in {{"admin_users:manage_permissions"},
                              {"admin_users:manage_roles"}, {"admin_users:delete"}}
    BY <1>6 DEF StaffWrites, StaffRequires
  <2> QED
    BY <1>3, <2>1, <2>2 DEF ReadOnlyPermissions, Readers
<1> QED
  BY <1>4, <1>5, <1>6 DEF Writes

-----------------------------------------------------------------------------
(* The inductive invariant.                                                *)

\* The types, what is known of the read only admins and of their calls, and
\* how the lives of the tokens and the time since the last login add up.
PlainOK ==
    /\ \A a \in plain : IsPlain(a, admins)
    /\ \A c \in Calls : call[c].admin \in plain => call[c].endpoint \notin Writes

TokensOK ==
    \A a \in Admins :
        /\ refresh[a] > 0 => since[a] + refresh[a] = RefreshLife
        /\ access[a] > 0 => since[a] + access[a] <= AccessLife + RefreshLife

StaffInv == StaffTypeOK /\ PlainOK /\ ReadOnlyModifiesNothing /\ TokensOK

LEMMA NoCallType == NoCall.admin = None /\ NoCall.endpoint \notin Writes
  BY DEF NoCall, Writes, FinanceWrites, KycWrites, StaffWrites

LEMMA InitType == Init => StaffInv
<1> SUFFICES ASSUME Init PROVE StaffInv
  OBVIOUS
<1> USE StaffAssumption
<1>1. StaffTypeOK
  BY DEF Init, StaffTypeOK, Long, IsPlain
<1>2. PlainOK
  BY NoCallType DEF Init, PlainOK
<1> QED
  BY <1>1, <1>2 DEF Init, StaffInv, ReadOnlyModifiesNothing, TokensOK

\* Serving one call, whatever its handler does to the table of admins.
LEMMA ServeType ==
    ASSUME StaffTypeOK, admins' \in [Admins -> AdminType],
           NEW c \in Calls, NEW e, Serve(c, e)
    PROVE  StaffTypeOK'
<1>1. call[c] \in [admin : Admins, endpoint : Menu]
  BY DEF StaffTypeOK, Serve
<1>2. call' \in [Calls -> {NoCall} \cup [admin : Admins, endpoint : Menu]]
  BY DEF StaffTypeOK, Serve
<1>3. wrote' \subseteq Admins
  BY <1>1 DEF StaffTypeOK, Serve
<1>4. plain' \subseteq Admins
  BY DEF StaffTypeOK, Serve
<1> QED
  BY <1>2, <1>3, <1>4 DEF StaffTypeOK, Serve

LEMMA ServeKeeps ==
    ASSUME StaffInv, admins' \in [Admins -> AdminType],
           NEW c \in Calls, NEW e, Serve(c, e)
    PROVE  StaffInv'
<1> USE StaffAssumption
<1>1. StaffTypeOK'
  BY ServeType DEF StaffInv
<1>2. \A d \in Calls : call'[d] = NoCall \/ call'[d] = call[d]
  BY DEF StaffInv, StaffTypeOK, Serve
<1>3. plain' \subseteq plain /\ \A a \in plain' : IsPlain(a, admins')
  BY DEF Serve
<1>4. None \notin plain'
  BY <1>1 DEF StaffTypeOK
<1>5. PlainOK'
  BY <1>2, <1>3, <1>4, NoCallType DEF StaffInv, PlainOK, IsPlain
<1>6. call[c].endpoint = e
  BY DEF Serve
<1>7. ReadOnlyModifiesNothing'
  BY <1>3, <1>6 DEF StaffInv, PlainOK, ReadOnlyModifiesNothing, Serve
<1>8. TokensOK'
  BY DEF StaffInv, TokensOK, Serve
<1> QED
  BY <1>1, <1>5, <1>7, <1>8 DEF StaffInv

\* One field of one row changes to a value of its type.
LEMMA RowUpdate ==
    ASSUME StaffInv, NEW a \in Admins
    PROVE  /\ \A role \in AdminRoles :
                [admins EXCEPT ![a].role = role] \in [Admins -> AdminType]
           /\ \A extra \in SUBSET ADMIN_PERMISSIONS :
                [admins EXCEPT ![a].permissions = extra] \in [Admins -> AdminType]
           /\ \A active \in BOOLEAN :
                [admins EXCEPT ![a].isActive = active] \in [Admins -> AdminType]
<1>1. admins \in [Admins -> AdminType] /\ admins[a] \in AdminType
  BY DEF StaffInv, StaffTypeOK
<1>2. ASSUME NEW role \in AdminRoles
      PROVE  [admins EXCEPT ![a].role = role] \in [Admins -> AdminType]
  <2>1. [admins[a] EXCEPT !.role = role] \in AdminType
    BY <1>1 DEF AdminType
  <2> QED
    BY <1>1, <2>1
<1>3. ASSUME NEW extra \in SUBSET ADMIN_PERMISSIONS
      PROVE  [admins EXCEPT ![a].permissions = extra] \in [Admins -> AdminType]
  <2>1. [admins[a] EXCEPT !.permissions = extra] \in AdminType
    BY <1>1 DEF AdminType
  <2> QED
    BY <1>1, <2>1
<1>4. ASSUME NEW active \in BOOLEAN
      PROVE  [admins EXCEPT ![a].isActive = active] \in [Admins -> AdminType]
  <2>1. [admins[a] EXCEPT !.isActive = active] \in AdminType
    BY <1>1 DEF AdminType
  <2> QED
    BY <1>1, <2>1
<1> QED
  BY <1>2, <1>3, <1>4

LEMMA StepKeeps == StaffInv /\ [Next]_vars => StaffInv'
<1> SUFFICES ASSUME StaffInv, [Next]_vars PROVE StaffInv'
  OBVIOUS
<1> USE StaffAssumption
<1>1. CASE Tick
  <2>1. StaffTypeOK'
    BY <1>1 DEF StaffInv, StaffTypeOK, Tick, Older, Long
  <2>2. TokensOK'
    <3> SUFFICES ASSUME NEW a \in Admins
                 PROVE  /\ refresh'[a] > 0 => since'[a] + refresh'[a] = RefreshLife
                        /\ access'[a] > 0 => since'[a] + access'[a] <= AccessLife + RefreshLife
      BY DEF TokensOK
    <3>1. /\ access'[a] = Older(access[a]) /\ refresh'[a] = Older(refresh[a])
          /\ since'[a] = IF since[a] = Long THEN Long ELSE since[a] + 1
      BY <1>1 DEF Tick
    <3>2. /\ access[a] \in 0..AccessLife /\ refresh[a] \in 0..RefreshLife /\ since[a] \in 0..Long
      BY DEF StaffInv, StaffTypeOK
    <3> QED
      BY <3>1, <3>2 DEF StaffInv, TokensOK, Older, Long
  <2>3. PlainOK' /\ ReadOnlyModifiesNothing'
    BY <1>1 DEF StaffInv, PlainOK, ReadOnlyModifiesNothing, IsPlain, Tick
  <2> QED
    BY <2>1, <2>2, <2>3 DEF StaffInv
<1>2. ASSUME NEW a \in Admins, Login(a) PROVE StaffInv'
  <2>1. StaffTypeOK'
    BY <1>2 DEF StaffInv, StaffTypeOK, Login, Long
  <2>2. TokensOK'
    BY <1>2 DEF StaffInv, StaffTypeOK, TokensOK, Login
  <2>3. PlainOK' /\ ReadOnlyModifiesNothing'
    BY <1>2 DEF StaffInv, PlainOK, ReadOnlyModifiesNothing, IsPlain, Login
  <2> QED
    BY <2>1, <2>2, <2>3 DEF StaffInv
<1>3. ASSUME NEW a \in Admins, Refresh(a) PROVE StaffInv'
  <2>1. StaffTypeOK'
    BY <1>3 DEF StaffInv, StaffTypeOK, Refresh
  <2>2. TokensOK'
    BY <1>3 DEF StaffInv, StaffTypeOK, TokensOK, Refresh
  <2>3. PlainOK' /\ ReadOnlyModifiesNothing'
    BY <1>3 DEF StaffInv, PlainOK, ReadOnlyModifiesNothing, IsPlain, Refresh
  <2> QED
    BY <2>1, <2>2, <2>3 DEF StaffInv
<1>4. ASSUME NEW c \in Calls, NEW a \in Admins, NEW e \in Menu, LetIn(c, a, e)
      PROVE  StaffInv'
  <2>1. StaffTypeOK'
    BY <1>4 DEF StaffInv, StaffTypeOK, LetIn
  <2>2. a \in plain => e \notin Writes
    <3> SUFFICES ASSUME a \in plain PROVE e \notin Writes
      OBVIOUS
    <3>1. admins[a].role = "READ_ONLY" /\ admins[a].permissions = {}
      BY DEF StaffInv, PlainOK, IsPlain
    <3>2. Granted("READ_ONLY", {}, e)
      BY <1>4, <3>1 DEF LetIn
    <3> QED
      BY <3>2, ReadOnlyPowerless
  <2>3. PlainOK'
    BY <1>4, <2>2 DEF StaffInv, StaffTypeOK, PlainOK, IsPlain, LetIn
  <2> QED
    BY <1>4, <2>1, <2>3 DEF StaffInv, ReadOnlyModifiesNothing, TokensOK, LetIn
<1>5. ASSUME NEW c \in Calls, UpdatePermissions(c) PROVE StaffInv'
  <2>0. PICK a \in Admins, extra \in Extras : admins' = [admins EXCEPT ![a].permissions = extra]
    BY <1>5 DEF UpdatePermissions
  <2>1. admins' \in [Admins -> AdminType]
    BY <2>0, RowUpdate
  <2> QED
    BY <1>5, <2>1, ServeKeeps DEF UpdatePermissions
<1>6. ASSUME NEW c \in Calls, UpdateRole(c) PROVE StaffInv'
  <2>0. PICK a \in Admins, role \in Roles : admins' = [admins EXCEPT ![a].role = role]
    BY <1>6 DEF UpdateRole
  <2>1. admins' \in [Admins -> AdminType]
    BY <2>0, RowUpdate
  <2> QED
    BY <1>6, <2>1, ServeKeeps DEF UpdateRole
<1>7. ASSUME NEW c \in Calls, DeactivateAdmin(c) PROVE StaffInv'
  <2>0. PICK a \in Admins : admins' = [admins EXCEPT ![a].isActive = FALSE]
    BY <1>7 DEF DeactivateAdmin
  <2>1. admins' \in [Admins -> AdminType]
    BY <2>0, RowUpdate
  <2> QED
    BY <1>7, <2>1, ServeKeeps DEF DeactivateAdmin
<1>8. ASSUME NEW c \in Calls, ActivateAdmin(c) PROVE StaffInv'
  <2>0. PICK a \in Admins : admins' = [admins EXCEPT ![a].isActive = TRUE]
    BY <1>8 DEF ActivateAdmin
  <2>1. admins' \in [Admins -> AdminType]
    BY <2>0, RowUpdate
  <2> QED
    BY <1>8, <2>1, ServeKeeps DEF ActivateAdmin
<1>9. ASSUME NEW c \in Calls, ServeOther(c) PROVE StaffInv'
  <2>1. admins' \in [Admins -> AdminType]
    BY <1>9 DEF StaffInv, StaffTypeOK, ServeOther
  <2> QED
    BY <1>9, <2>1, ServeKeeps DEF ServeOther
<1>10. CASE UNCHANGED vars
  BY <1>10 DEF vars, StaffInv, StaffTypeOK, PlainOK, ReadOnlyModifiesNothing, TokensOK, IsPlain
<1> QED
  BY <1>1, <1>2, <1>3, <1>4, <1>5, <1>6, <1>7, <1>8, <1>9, <1>10 DEF Next

\* StaffInv is an inductive invariant of the back office's admins.
THEOREM StaffInvariance == Spec => []StaffInv
  BY InitType, StepKeeps, PTL DEF Spec

\* The rows, tokens and calls keep their types.
THEOREM StaffTypeCorrect == Spec => []StaffTypeOK
<1>1. StaffInv => StaffTypeOK
  BY DEF StaffInv
<1> QED
  BY <1>1, StaffInvariance, PTL

\* No admin that was never more than read only is ever served a write.
THEOREM ReadersModifyNothing == Spec => []ReadOnlyModifiesNothing
<1>1. StaffInv => ReadOnlyModifiesNothing
  BY DEF StaffInv
<1> QED
  BY <1>1, StaffInvariance, PTL

\* A token that still lives goes back to a password given within the lives of
\* the two tokens.
THEOREM LetInAfterPassword == Spec => []LetInAfterLogin
<1>1. StaffInv => LetInAfterLogin
  BY StaffAssumption DEF StaffInv, StaffTypeOK, TokensOK, LetInAfterLogin, Long
<1> QED
  BY <1>1, StaffInvariance, PTL

-----------------------------------------------------------------------------
(* Without managers nothing changes.                                       *)

\* Whoever is let into an endpoint that changes admins holds one of the
\* permissions a manager has.
LEMMA ManagersOnly ==
    ASSUME NEW a \in Admins, NEW e \in StaffWrites, admins[a].isActive,
           Granted(admins[a].role, admins[a].permissions, e)
    PROVE  MayManage(admins, a)
<1> DEFINE Has == getEffectivePermissions(admins[a].role, admins[a].permissions)
           Keys == {"admin_users:manage_permissions", "admin_users:manage_roles",
                    "admin_users:delete"}
<1>1. Requires(e) = StaffRequires(e)
  BY DEF Requires, FinanceReads, FinanceWrites, KycWrites, StaffReads, StaffWrites
<1>2. StaffRequires(e) # {} /\ StaffRequires(e) \subseteq Keys
  BY DEF StaffWrites, StaffRequires
<1>3. ALL \in Has \/ Requires(e) \cap Has # {}
  <2> HIDE DEF Has
  <2>1. hasAnyPermission(Has, Requires(e))
    BY <1>1, <1>2 DEF Granted, Has
  <2> QED
    BY <2>1 DEF hasAnyPermission
<1>4. ALL \in Has \/ Keys \cap Has # {}
  <2> HIDE DEF Has, Keys
  <2> QED
    BY <1>1, <1>2, <1>3
<1> QED
  BY <1>4 DEF MayManage, hasAnyPermission

LEMMA UnmanagedStays == StaffTypeOK /\ [Next]_vars /\ Unmanaged => UNCHANGED admins /\ Unmanaged'
<1> SUFFICES ASSUME StaffTypeOK, [Next]_vars, Unmanaged PROVE UNCHANGED admins /\ Unmanaged'
  OBVIOUS
<1>1. NoCall.endpoint \notin StaffWrites
  BY DEF NoCall, StaffWrites
<1>2. ASSUME UNCHANGED <<admins, call>> PROVE UNCHANGED admins /\ Unmanaged'
  BY <1>2 DEF Unmanaged, MayManage
<1>3. ASSUME NEW c \in Calls, NEW e, Serve(c, e) PROVE e \notin StaffWrites
  BY <1>3 DEF Unmanaged, Serve
<1>4. CASE \E c \in Calls : \/ UpdatePermissions(c) \/ UpdateRole(c)
                           \/ DeactivateAdmin(c) \/ ActivateAdmin(c)
  BY <1>3, <1>4 DEF UpdatePermissions, UpdateRole, DeactivateAdmin, ActivateAdmin, StaffWrites
<1>5. ASSUME NEW c \in Calls, ServeOther(c) PROVE UNCHANGED admins /\ Unmanaged'
  <2>1. UNCHANGED admins /\ \A d \in Calls : call'[d] = NoCall \/ call'[d] = call[d]
    BY <1>5 DEF ServeOther, Serve, StaffTypeOK
  <2> QED
    BY <1>1, <2>1 DEF Unmanaged, MayManage
<1>6. ASSUME NEW c \in Calls, NEW a \in Admins, NEW e \in Menu, LetIn(c, a, e)
      PROVE  UNCHANGED admins /\ Unmanaged'
  <2>1. e \notin StaffWrites
    BY <1>6, ManagersOnly DEF LetIn, Unmanaged
  <2>2. UNCHANGED admins /\ \A d \in Calls : call'[d].endpoint = e \/ call'[d] = call[d]
    BY <1>6 DEF LetIn, StaffTypeOK
  <2> QED
    BY <2>1, <2>2 DEF Unmanaged, MayManage
<1> QED
  BY <1>2, <1>4, <1>5, <1>6 DEF Next, Tick, Login, Refresh, vars

\* When nobody is left who may manage admins, and no such call is under way,
\* the table of admins stays as it is for ever.
THEOREM NobodyManages == Spec => FrozenWithoutManagers
<1>1. StaffTypeOK /\ [Next]_vars => [Unmanaged => UNCHANGED admins /\ Unmanaged']_vars
  BY UnmanagedStays
<1> QED
  BY <1>1, StaffTypeCorrect, PTL DEF Spec, FrozenWithoutManagers
=============================================================================
