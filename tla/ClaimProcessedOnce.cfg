CONSTANTS
    u1 = u1  u2 = u2  w1 = w1  w2 = w2  k1 = k1  k2 = k2
    None = None
    Users <- MCUsers
    Wallets <- MCWallets
    Keys <- MCKeys
    Cards = {}
    Vaults = {}
    Requests = {r1, r2, r3}
    Owner <- MCOwner
    Opening <- MCOpening
    DailyLimit <- MCLimit
    Primary <- MCWallets
    Bodies <- DepositAndComplete
SPECIFICATION Spec
INVARIANT ProcessedOnce
CHECK_DEADLOCK FALSE
