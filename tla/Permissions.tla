---------------------------- MODULE Permissions ----------------------------
(***************************************************************************)
(* The tables of the back office: the permissions, what each role has of   *)
(* them, and what each endpoint asks for.                                  *)
(***************************************************************************)

ALL == "*"

ADMIN_PERMISSIONS ==
    {"users:read", "users:suspend", "users:verify_kyc", "users:reject_kyc",
     "users:reset_password", "users:delete",
     "wallets:read", "wallets:freeze", "wallets:unfreeze", "wallets:adjust_limit",
     "transactions:read", "transactions:reverse", "transactions:refund",
     "transactions:mark_suspect",
     "fraud:read_alerts", "fraud:resolve_alerts", "fraud:mark_false_positive",
     "kyc:read", "kyc:review", "kyc:approve", "kyc:reject",
     "audit:read", "audit:export",
     "admin_users:read", "admin_users:create", "admin_users:update", "admin_users:delete",
     "admin_users:manage_permissions", "admin_users:manage_roles",
     "system:config_read", "system:config_update", "system:health_read",
     "support:notes_add", "support:notes_read", ALL}

AdminRoles == {"SUPER_ADMIN", "OPS_ADMIN", "FRAUD_OFFICER", "SUPPORT", "READ_ONLY"}

\* What the four roles below the super admin have in common.
Readers == {"users:read", "wallets:read", "transactions:read", "audit:read"}

\* As ReadOnlyPermissions, with a right of the fraud officer.
ReadAndFreeze ==
    Readers \cup {"kyc:read", "fraud:read_alerts", "admin_users:read", "system:health_read",
                  "wallets:freeze"}

ReadOnlyPermissions ==
    Readers \cup {"kyc:read", "fraud:read_alerts", "admin_users:read", "system:health_read"}

ROLE_PERMISSIONS(role) ==
    CASE role = "SUPER_ADMIN" -> {ALL}
      [] role = "OPS_ADMIN" ->
            Readers \cup {"users:suspend", "wallets:freeze", "wallets:unfreeze",
                          "wallets:adjust_limit", "transactions:reverse", "transactions:refund",
                          "transactions:mark_suspect", "admin_users:read"}
      [] role = "FRAUD_OFFICER" ->
            Readers \cup {"wallets:freeze", "fraud:read_alerts", "fraud:resolve_alerts",
                          "fraud:mark_false_positive", "transactions:mark_suspect"}
      [] role = "SUPPORT" -> Readers \cup {"kyc:read", "support:notes_add", "support:notes_read"}
      [] role = "READ_ONLY" -> ReadOnlyPermissions

\* Strings that are no permission are passed over.
getEffectivePermissions(role, extra) == ROLE_PERMISSIONS(role) \cup (extra \cap ADMIN_PERMISSIONS)

hasAnyPermission(effective, required) == ALL \in effective \/ required \cap effective # {}

-----------------------------------------------------------------------------
(* The endpoints, by the name of their handler, and what they require: {}  *)
(* is what the guard sees of a handler without @AdminPermission.           *)

FinanceReads ==
    {"getOverview", "getTransactions", "getTransactionById", "getBudgets", "getSubscriptions",
     "getCashFlow", "getWallets", "getWalletById", "getVirtualCards", "getVirtualCardById",
     "getVaults", "getVaultById", "getComplianceAudits"}
FinanceWrites ==
    {"freezeWallet", "unfreezeWallet", "reverseTransaction", "flagTransaction",
     "freezeVirtualCard", "unfreezeVirtualCard"}
KycWrites    == {"approveKyc", "rejectKyc"}
StaffReads   == {"getCurrentAdmin", "listAdmins", "getAdmin"}
StaffWrites  == {"updatePermissions", "updateRole", "deactivateAdmin", "activateAdmin"}

Writes    == FinanceWrites \cup KycWrites \cup StaffWrites
Endpoints == FinanceReads \cup {"getQueue"} \cup StaffReads \cup Writes

FinanceRequires(e) ==
    CASE e \in {"getWallets", "getWalletById", "getVirtualCards", "getVirtualCardById",
                "getVaults", "getVaultById"}          -> {"wallets:read"}
      [] e = "getComplianceAudits"                    -> {"audit:read"}
      [] e \in {"freezeWallet", "freezeVirtualCard"}  -> {"wallets:freeze"}
      [] e \in {"unfreezeWallet", "unfreezeVirtualCard"} -> {"wallets:unfreeze"}
      [] e = "reverseTransaction"                     -> {"transactions:reverse"}
      [] e = "flagTransaction"                        -> {"transactions:mark_suspect"}
      [] OTHER                                        -> {"transactions:read"}

KycRequires(e) ==
    CASE e = "getQueue"   -> {"kyc:read"}
      [] e = "approveKyc" -> {"kyc:approve"}
      [] e = "rejectKyc"  -> {"kyc:reject"}

\* As StaffRequires, with no permission asked for to activate.
FreeActivation(e) ==
    CASE e \in {"getCurrentAdmin", "activateAdmin"} -> {}
      [] e \in {"listAdmins", "getAdmin"}           -> {"admin_users:read"}
      [] e = "updatePermissions"                    -> {"admin_users:manage_permissions"}
      [] e = "updateRole"                           -> {"admin_users:manage_roles"}
      [] e = "deactivateAdmin"                      -> {"admin_users:delete"}

StaffRequires(e) ==
    CASE e = "getCurrentAdmin"                   -> {}
      [] e \in {"listAdmins", "getAdmin"}        -> {"admin_users:read"}
      [] e = "updatePermissions"                 -> {"admin_users:manage_permissions"}
      [] e = "updateRole"                        -> {"admin_users:manage_roles"}
      [] e \in {"deactivateAdmin", "activateAdmin"} -> {"admin_users:delete"}

Requires(e) ==
    CASE e \in FinanceReads \cup FinanceWrites     -> FinanceRequires(e)
      [] e \in KycWrites \cup {"getQueue"}         -> KycRequires(e)
      [] e \in StaffReads \cup StaffWrites         -> StaffRequires(e)

\* AdminPermissionGuard.canActivate.
Granted(role, extra, e) ==
    Requires(e) = {} \/ hasAnyPermission(getEffectivePermissions(role, extra), Requires(e))
=============================================================================
