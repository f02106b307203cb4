CONSTANTS
    old = old  new = new  phone = phone  RWF = RWF  USD = USD  p1 = p1  p2 = p2
    doc1 = doc1  doc2 = doc2  r1 = r1  r2 = r2  r3 = r3  r4 = r4
    None = None
    Users <- MCUsers
    Requests <- MCRequests
    Devices = {phone}
    Currencies = {RWF, USD}
    Passwords = {p1, p2}
    Contents = {doc1, doc2}
    Registered = {old}
    OpeningPassword = p1
    OpeningWallet = RWF
    Allowed <- MCAllowed
    LoginTries = 2
    OtpTries = 2
    PinTries = 2
    Bodies <- MCBodies
SPECIFICATION MCSpec
SYMMETRY RequestSymmetry
INVARIANTS AccountsTypeOK LogoutKillsToken ActivatedByMail PrimaryMissingHasCause TierEarned KycSettled NoLockWithoutCause MfaAgrees
PROPERTIES RevokedForGood
CHECK_DEADLOCK FALSE
