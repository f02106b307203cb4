------------------------------ MODULE MCStaff ------------------------------
(***************************************************************************)
(* An instance of Staff for TLC: a manager, a reader and an officer of     *)
(* every kind of initial role, and two calls under way at once.            *)
(***************************************************************************)
EXTENDS Staff, TLC

CONSTANTS mia, ron, c1, c2, c3

Row(role, permissions, active) == [role |-> role, permissions |-> permissions, isActive |-> active]

MCStaffing ==
    {(mia :> Row("SUPER_ADMIN", {}, TRUE)) @@ (ron :> Row(role, {}, TRUE)) :
        role \in {"OPS_ADMIN", "FRAUD_OFFICER", "SUPPORT", "READ_ONLY"}}
    \cup {(mia :> Row("OPS_ADMIN", {p}, TRUE)) @@ (ron :> Row("READ_ONLY", {}, active)) :
            p \in {"admin_users:manage_roles", "admin_users:delete"}, active \in BOOLEAN}

MCExtras == {{}, {"admin_users:delete"}}
MCMenu == StaffWrites \cup {"freezeWallet", "getCurrentAdmin"}
CallSymmetry == Permutations(Calls)
=============================================================================
