CONSTANTS
    mia = mia  ron = ron  c1 = c1  c2 = c2  c3 = c3
    None = None
    Admins = {mia, ron}
    Staffing <- MCStaffing
    Extras <- MCExtras
    Roles = {"SUPER_ADMIN", "FRAUD_OFFICER", "READ_ONLY"}
    Calls = {c1, c2}
    Menu <- MCMenu
    AccessLife = 1
    RefreshLife = 2
SPECIFICATION Spec
SYMMETRY CallSymmetry
INVARIANTS StaffTypeOK ReadOnlyModifiesNothing LetInAfterLogin
PROPERTIES FrozenWithoutManagers
CHECK_DEADLOCK FALSE
