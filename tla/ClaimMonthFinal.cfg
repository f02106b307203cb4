CONSTANTS
    ann = ann  ben = ben  r1 = r1  r2 = r2  t1 = t1  t2 = t2  v1 = v1  uberEats = uberEats
    None = None
    Users = {ann, ben}
    TxIds = {t1, t2}
    MonthDays = 2
    Days = 2
    WindowDays = 3
    Merchants = {uberEats}
    MerchantRules <- MCRules
    BudgetLines <- MCBudgets
    Runs = {r1, r2}
    Bodies <- MCBodies
    ActiveUsers = {ann, ben}
    Entries <- MCEntries
    Vaults = {v1}
    VaultOwner <- MCVaultOwner
    MaxFaults = 1
SPECIFICATION MCSpec
SYMMETRY RunSymmetry
INVARIANT MonthFinal
CHECK_DEADLOCK FALSE
