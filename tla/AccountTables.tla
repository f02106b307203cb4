---------------------------- MODULE AccountTables ----------------------------
(***************************************************************************)
(* The tables about customers, and the calls that work on them.            *)
(*                                                                         *)
(* As in Tables, a request is one HTTP call that runs in several steps,    *)
(* one for each statement whose place among the others matters.  Rows and  *)
(* tokens are named by the request that created them: the session and the  *)
(* tokens of login r are r, and after a refresh q its tokens are q.        *)
(***************************************************************************)
EXTENDS Integers, Sequences, FiniteSets

CONSTANTS
    Users, Requests, Devices, Currencies, Passwords, Contents,
    None,             \* no user, request, device, currency or password
    Registered,       \* the users active when the model starts, each with a session
    OpeningPassword,  \* their password
    OpeningWallet,    \* the currency of the first wallet (RWF)
    Allowed,          \* per tier: the currencies of its wallets
    LoginTries,       \* MAX_LOGIN_ATTEMPTS
    OtpTries,         \* OTPCode.maxAttempts
    PinTries,         \* the failures that lock a PIN
    Bodies            \* what the clients of a run may ask for

\* Calls open to everybody, calls of a signed-in customer, calls of a reviewer.
PublicKinds   == {"REGISTER", "VERIFY_EMAIL", "LOGIN", "REFRESH",
                  "FORGOT_PASSWORD", "RESET_PASSWORD"}
MfaKinds      == {"MFA_ENABLE", "MFA_CONFIRM", "MFA_DISABLE"}
PinKinds      == {"PIN_SET", "PIN_CHANGE", "PIN_VERIFY", "PIN_TRANSFER", "PIN_WITHDRAW"}
CustomerKinds == {"LOGOUT", "DEVICE_REGISTER", "DEVICE_TRUST", "DEVICE_REMOVE",
                  "KYC_SUBMIT", "WALLET_CREATE", "WALLET_PRIMARY"} \cup MfaKinds \cup PinKinds
ReviewKinds   == {"KYC_APPROVE", "KYC_REJECT"}

\* A client holds tokens from its logins and refreshes, or the one its user
\* opened the model with.
Tokens == Requests \cup Registered

\* The content of a call; a field the kind does not use is None.
BodyType ==
    [kind     : PublicKinds \cup CustomerKinds \cup ReviewKinds,
     user     : Users,                       \* whose account, or document, it is about
     token    : Tokens \cup {None},          \* the bearer or refresh token presented
     password : Passwords \cup {None},
     device   : Devices \cup {None},
     currency : Currencies \cup {None},
     content  : Contents \cup {None},        \* the document submitted
     ref      : Requests \cup {None},        \* MFA: the call that gave the code's secret
     right    : BOOLEAN]                     \* the PIN presented is the right one

\* Logins and the calls about a device or a wallet name it, a submission has
\* a document.
WellFormed(b) ==
    /\ b.kind \in {"LOGIN", "DEVICE_REGISTER", "DEVICE_TRUST", "DEVICE_REMOVE"} => b.device \in Devices
    /\ b.kind \in {"WALLET_CREATE", "WALLET_PRIMARY"} => b.currency \in Currencies
    /\ b.kind = "KYC_SUBMIT" => b.content \in Contents

ASSUME AccountsAssumption ==
    /\ None \notin Users \cup Requests \cup Devices \cup Currencies \cup Passwords \cup Contents
    /\ Users \cap Requests = {}
    /\ Registered \subseteq Users
    /\ OpeningPassword \in Passwords
    /\ OpeningWallet \in Currencies
    /\ Allowed \in [0..2 -> SUBSET Currencies]
    /\ {OpeningWallet} \cup Allowed[0] \subseteq Allowed[1]
    /\ IsFiniteSet(Requests)
    /\ {LoginTries, OtpTries, PinTries} \subseteq Nat \ {0}
    /\ Bodies \subseteq BodyType
    /\ \A b \in Bodies : WellFormed(b)

VARIABLES
    status,      \* User.status; isEmailVerified is written with it
    password,    \* User.passwordHash
    tier,        \* User.kycTier
    kyc,         \* User.kycStatus
    codes,       \* the OTPCode rows in the order of createdAt
    mailed,      \* the codes handed to the email queue
    failures,    \* per user: the failed LoginAttempt rows of the window
    sessions,    \* the UserSession rows, by the login that opened them
    device,      \* the UserDevice rows: whose they are
    trusted,     \* the devices with isTrusted set
    mfaOn,       \* the users with isMfaEnabled set
    secret,      \* the MfaSecret rows
    backup,      \* the MfaBackupCode rows, by the confirmation that made them
    document,    \* the KYCDocument rows
    wallets,     \* per user: the currencies of the wallets
    primary,     \* per user: the currencies of the wallets with isPrimary set
    pin,         \* the WalletPin rows
    body,        \* per request: what it asks
    pc,          \* per request: the await it has reached
    seen,        \* per request: a code or a counter it has read
    row,         \* per request: a row it has found, or the content it has read
    missed,      \* ghost: the calls whose wrong PIN has been recorded
    crossed,     \* ghost: per user, the tables on which a call wrote after
                 \* another had changed what it had read
    activated,   \* ghost: the calls that have written the activation
    before       \* ghost: per request, the createWallet calls of its user that
                 \* were answered when it looked for a wallet

people == <<status, password, tier, kyc>>
otp    == <<codes, mailed>>
logins == <<failures, sessions, device, trusted>>
mfa    == <<mfaOn, secret, backup>>
funds  == <<wallets, primary>>
marks  == <<activated, before>>
ghosts == <<missed, crossed, marks>>
vars   == <<people, otp, logins, mfa, document, funds, pin, body, pc, seen, row, ghosts>>

Purposes  == {"EMAIL_VERIFY", "RESET_PASSWORD"}
CodeType  == [user : Users, purpose : Purposes, attempts : Nat, used : BOOLEAN]
NoSession == [status |-> "NONE", user |-> None, token |-> None, device |-> None,
              password |-> None]
SessionType ==
    [status   : {"NONE", "ACTIVE", "REVOKED"},
     user     : Users \cup {None},
     token    : Tokens \cup {None},          \* jti and refreshTokenHash, rotated together
     device   : Devices \cup {None},
     password : Passwords \cup {None}]       \* the password its login presented

\* The row of a user: id is the call that inserted it, key the one whose secret it holds.
NoSecret   == [id |-> None, key |-> None, enabled |-> FALSE]
SecretType == [id : Requests \cup {None}, key : Requests \cup {None}, enabled : BOOLEAN]

\* One stands for the ten codes of a confirmation; of is its mfaSecretId.
NoBackup   == [of |-> None, used |-> FALSE]
BackupType == [of : Requests \cup {None}, used : BOOLEAN]

NoDocument   == [content |-> None, verified |-> FALSE, rejected |-> FALSE]
DocumentType == [content : Contents \cup {None}, verified : BOOLEAN, rejected : BOOLEAN]

NoPin   == [set |-> FALSE, attempts |-> 0, locked |-> FALSE]
PinType == [set : BOOLEAN, attempts : Nat, locked : BOOLEAN]

Labels == {"idle", "enter", "insert", "retire", "renew", "code", "mail", "find", "mark",
           "miss", "activate", "wallet", "grant", "mfa", "spend", "device", "session",
           "rotate", "rewrite", "revoke", "store", "clear", "enable", "disable",
           "wrong", "upload", "progress", "decide", "create", "primary", "pay", "change",
           "answered", "failed"}

TypeOK ==
    /\ status \in [Users -> {"NONE", "PENDING", "ACTIVE"}]
    /\ password \in [Users -> Passwords \cup {None}]
    /\ tier \in [Users -> 0..2]
    /\ kyc \in [Users -> {"NOT_STARTED", "IN_PROGRESS", "VERIFIED", "REJECTED"}]
    /\ codes \in Seq(CodeType)
    /\ mailed \subseteq DOMAIN codes
    /\ failures \in [Users -> Nat]
    /\ sessions \in [Tokens -> SessionType]
    /\ device \in [Devices -> Users \cup {None}]
    /\ trusted \subseteq Devices
    /\ mfaOn \subseteq Users
    /\ secret \in [Users -> SecretType]
    /\ backup \in [Requests -> BackupType]
    /\ document \in [Users -> DocumentType]
    /\ wallets \in [Users -> SUBSET Currencies]
    /\ primary \in [Users -> SUBSET Currencies]
    /\ pin \in [Users -> PinType]
    /\ body \in [Requests -> Bodies]
    /\ pc \in [Requests -> Labels]
    /\ seen \in [Requests -> Nat]
    /\ row \in [Requests -> Tokens \cup Contents \cup {None}]
    /\ missed \subseteq Requests
    /\ crossed \in [Users -> SUBSET {"mfa", "kyc"}]
    /\ activated \subseteq Requests
    /\ before \in [Requests -> SUBSET Requests]

Init ==
    /\ status = [u \in Users |-> IF u \in Registered THEN "ACTIVE" ELSE "NONE"]
    /\ password = [u \in Users |-> IF u \in Registered THEN OpeningPassword ELSE None]
    /\ tier = [u \in Users |-> IF u \in Registered THEN 1 ELSE 0]
    /\ kyc = [u \in Users |-> "NOT_STARTED"]
    /\ codes = <<>>
    /\ mailed = {}
    /\ failures = [u \in Users |-> 0]
    /\ sessions = [s \in Tokens |->
                     IF s \in Registered
                     THEN [status |-> "ACTIVE", user |-> s, token |-> s, device |-> None,
                           password |-> OpeningPassword]
                     ELSE NoSession]
    /\ device = [d \in Devices |-> None]
    /\ trusted = {}
    /\ mfaOn = {}
    /\ secret = [u \in Users |-> NoSecret]
    /\ backup = [r \in Requests |-> NoBackup]
    /\ document = [u \in Users |-> NoDocument]
    /\ wallets = [u \in Users |-> IF u \in Registered THEN {OpeningWallet} ELSE {}]
    /\ primary = wallets
    /\ pin = [u \in Users |-> NoPin]
    /\ body \in [Requests -> Bodies]
    /\ pc = [r \in Requests |-> "idle"]
    /\ seen = [r \in Requests |-> 0]
    /\ row = [r \in Requests |-> None]
    /\ missed = {}
    /\ crossed = [u \in Users |-> {}]
    /\ activated = {}
    /\ before = [r \in Requests |-> {}]

-----------------------------------------------------------------------------
(* The parts the handlers share.                                           *)

Is(r, kind) == body[r].kind = kind

Goto(r, here, next) ==
    /\ pc[r] = here
    /\ pc' = [pc EXCEPT ![r] = next]

\* The tokens some session row accepts.
Accepted(s, t) == sessions[s].status = "ACTIVE" /\ sessions[s].token = t
Live(t)        == \E s \in Tokens : Accepted(s, t)

\* A client has the tokens it has been answered with.
Given(t) == t \in Registered \/ (t \in Requests /\ pc[t] = "answered")

\* JwtStrategy.validate: the session of the token is active, and its user is.
Authenticate(r) ==
    /\ body[r].kind \in CustomerKinds
    /\ Given(body[r].token)
    /\ \E s \in Tokens : /\ Accepted(s, body[r].token)
                         /\ sessions[s].user = body[r].user
    /\ status[body[r].user] = "ACTIVE"
    /\ Goto(r, "idle", "enter")
    /\ UNCHANGED <<people, otp, logins, mfa, document, funds, pin, body, seen, row, ghosts>>

\* The call ends in an error or never ends: a check refuses it, a row is
\* gone or a unique column taken, an expiry has passed, a statement fails,
\* or the process stops.  What was written before stays.
Fail(r) ==
    /\ pc[r] \notin {"answered", "failed"}
    /\ pc' = [pc EXCEPT ![r] = "failed"]
    /\ UNCHANGED <<people, otp, logins, mfa, document, funds, pin, body, seen, row, ghosts>>
=============================================================================
