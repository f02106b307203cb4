CONSTANTS
    u1 = u1  u2 = u2  w1 = w1  w2 = w2  v1 = v1  v2 = v2  c1 = c1  c2 = c2  k1 = k1  r1 = r1
    None = None
    Users <- MCUsers
    Wallets <- MCWallets
    Cards = {c1, c2}
    Vaults <- MCVaults
    VaultOwner <- MCVaultOwner
    Cardholder <- MCCardholder
    OpeningCard <- MCOpeningCard
    OpeningLimits <- MCOpeningLimits
    OpeningLink <- MCOpeningLink
    OpeningVault <- MCOpeningVault
    Keys = {k1}
    Requests = {r1, r2, r3, r4}
    Owner <- MCOwner
    Opening <- MCOpening
    DailyLimit <- MCLimit
    Primary <- MCWallets
    Bodies <- MCBodies
SPECIFICATION MCSpec
SYMMETRY OtherSymmetry
INVARIANT FoundById
CHECK_DEADLOCK FALSE
