-------------------------------- MODULE Auth --------------------------------
(***************************************************************************)
(* AuthService: registration and email verification, login, refresh,       *)
(* logout and password reset, one action per statement; and the devices    *)
(* of IdentityService, whose rows the sessions hang on.                    *)
(***************************************************************************)
EXTENDS AccountTables, FiniteSetsExt

-----------------------------------------------------------------------------
(* Codes by email: dispatchEmailOtp and consumeOtp.                        *)

Purpose(r) ==
    IF body[r].kind \in {"REGISTER", "VERIFY_EMAIL"} THEN "EMAIL_VERIFY" ELSE "RESET_PASSWORD"

\* As OfCall, for every purpose of the address.
OfAddress(r, c) == c.user = body[r].user

OfCall(r, c) == c.user = body[r].user /\ c.purpose = Purpose(r)

\* updateMany: every unused code of the address and purpose becomes used.
Retired(r) ==
    [i \in DOMAIN codes |-> [codes[i] EXCEPT !.used = @ \/ OfCall(r, codes[i])]]

RetireCodes(r) ==
    /\ Goto(r, "renew", "code")
    /\ codes' = Retired(r)
    /\ UNCHANGED <<people, mailed, logins, mfa, document, funds, pin, body, seen, row, ghosts>>

CreateCode(r) ==
    /\ Goto(r, "code", "mail")
    /\ codes' = Append(codes, [user |-> body[r].user, purpose |-> Purpose(r),
                               attempts |-> 0, used |-> FALSE])
    /\ seen' = [seen EXCEPT ![r] = Len(codes) + 1]
    /\ UNCHANGED <<people, mailed, logins, mfa, document, funds, pin, body, row, ghosts>>

\* EmailService.sendOtp: the queue has the job (its delivery is Delivery's).
MailCode(r) ==
    /\ Goto(r, "mail", "answered")
    /\ mailed' = mailed \cup {seen[r]}
    /\ UNCHANGED <<people, codes, logins, mfa, document, funds, pin, body, seen, row, ghosts>>

\* The client types a code its user was mailed, or (0) a wrong one.
Typed(r, i) == i = 0 \/ (i \in mailed /\ codes[i].user = body[r].user)

\* findFirst, newest first, of the unused codes.
Newest(r) == Max({i \in DOMAIN codes : OfCall(r, codes[i]) /\ ~ codes[i].used})

FindCode(r) ==
    /\ \E i \in DOMAIN codes : OfCall(r, codes[i]) /\ ~ codes[i].used
    /\ codes[Newest(r)].attempts < OtpTries
    /\ seen' = [seen EXCEPT ![r] = Newest(r)]
    /\ Goto(r, "find", IF seen[r] = Newest(r) THEN "mark" ELSE "miss")
    /\ UNCHANGED <<people, otp, logins, mfa, document, funds, pin, body, row, ghosts>>

\* Both outcomes write isUsed: a wrong code writes false.
Tried(c, valid) ==
    [user |-> c.user, purpose |-> c.purpose, attempts |-> c.attempts + 1, used |-> valid]

AfterTry(r, valid) ==
    [i \in DOMAIN codes |-> IF i = seen[r] THEN Tried(codes[i], valid) ELSE codes[i]]

ConsumeCode(r) ==
    /\ Goto(r, "mark", IF Is(r, "VERIFY_EMAIL") THEN "activate" ELSE "rewrite")
    /\ codes' = AfterTry(r, TRUE)
    /\ UNCHANGED <<people, mailed, logins, mfa, document, funds, pin, body, seen, row, ghosts>>

MissCode(r) ==
    /\ Goto(r, "miss", "failed")
    /\ codes' = AfterTry(r, FALSE)
    /\ UNCHANGED <<people, mailed, logins, mfa, document, funds, pin, body, seen, row, ghosts>>

-----------------------------------------------------------------------------
(* register and verifyEmail.                                               *)

RegisterRead(r) ==
    /\ Is(r, "REGISTER")
    /\ status[body[r].user] = "NONE"
    /\ Goto(r, "idle", "insert")
    /\ UNCHANGED <<people, otp, logins, mfa, document, funds, pin, body, seen, row, ghosts>>

\* The unique email refuses a second row.
RegisterInsert(r) ==
    LET u == body[r].user IN
    /\ Goto(r, "insert", "renew")
    /\ status[u] = "NONE"
    /\ status' = [status EXCEPT ![u] = "PENDING"]
    /\ password' = [password EXCEPT ![u] = body[r].password]
    /\ UNCHANGED <<tier, kyc, otp, logins, mfa, document, funds, pin, body, seen, row, ghosts>>

VerifyRead(r) ==
    /\ Is(r, "VERIFY_EMAIL")
    /\ status[body[r].user] = "PENDING"
    /\ \E i \in {0} \cup DOMAIN codes :
          /\ Typed(r, i)
          /\ seen' = [seen EXCEPT ![r] = i]
    /\ Goto(r, "idle", "find")
    /\ UNCHANGED <<people, otp, logins, mfa, document, funds, pin, body, row, ghosts>>

\* As Activate, answering at once, with no first wallet.
ActivateOnly(r) ==
    LET u == body[r].user IN
    /\ Goto(r, "activate", "answered")
    /\ status' = [status EXCEPT ![u] = "ACTIVE"]
    /\ tier' = [tier EXCEPT ![u] = 1]
    /\ activated' = activated \cup {r}
    /\ UNCHANGED <<password, kyc, otp, logins, mfa, document, funds, pin, body, seen, row,
                   missed, crossed, before>>

\* The status is not looked at again.
Activate(r) ==
    LET u == body[r].user IN
    /\ Goto(r, "activate", "wallet")
    /\ status' = [status EXCEPT ![u] = "ACTIVE"]
    /\ tier' = [tier EXCEPT ![u] = 1]
    /\ activated' = activated \cup {r}
    /\ UNCHANGED <<password, kyc, otp, logins, mfa, document, funds, pin, body, seen, row,
                   missed, crossed, before>>

\* The createWallet calls of u that have been answered.
MadeBy(u) == {c \in Requests : /\ body[c].kind = "WALLET_CREATE"
                              /\ body[c].user = u
                              /\ pc[c] = "answered"}

\* ensurePrimaryWallet: any wallet of the user will do.
EnsureRead(r) ==
    /\ Goto(r, "wallet", IF wallets[body[r].user] = {} THEN "grant" ELSE "answered")
    /\ before' = [before EXCEPT ![r] = MadeBy(body[r].user)]
    /\ UNCHANGED <<people, otp, logins, mfa, document, funds, pin, body, seen, row,
                   missed, crossed, activated>>

\* The unique (user, currency) column refuses a second one.
EnsureCreate(r) ==
    LET u == body[r].user IN
    /\ Goto(r, "grant", "answered")
    /\ OpeningWallet \notin wallets[u]
    /\ wallets' = [wallets EXCEPT ![u] = @ \cup {OpeningWallet}]
    /\ primary' = [primary EXCEPT ![u] = @ \cup {OpeningWallet}]
    /\ UNCHANGED <<people, otp, logins, mfa, document, pin, body, seen, row, ghosts>>

-----------------------------------------------------------------------------
(* login.                                                                  *)

\* checkLockout counts the failures of the last 15 minutes.
LoginStart(r) ==
    /\ Is(r, "LOGIN")
    /\ failures[body[r].user] < LoginTries
    /\ Goto(r, "idle", "enter")
    /\ UNCHANGED <<people, otp, logins, mfa, document, funds, pin, body, seen, row, ghosts>>

\* The row is read once: password, status and isMfaEnabled.
LoginAccept(r) ==
    LET u == body[r].user IN
    /\ Is(r, "LOGIN")
    /\ status[u] = "ACTIVE"
    /\ password[u] = body[r].password
    /\ Goto(r, "enter", IF u \in mfaOn THEN "mfa" ELSE "device")
    /\ UNCHANGED <<people, otp, logins, mfa, document, funds, pin, body, seen, row, ghosts>>

\* A wrong password or an unknown user is recorded; a wrong MFA code is not.
LoginReject(r) ==
    LET u == body[r].user IN
    /\ Is(r, "LOGIN")
    /\ status[u] = "NONE" \/ password[u] # body[r].password
    /\ Goto(r, "enter", "failed")
    /\ failures' = [failures EXCEPT ![u] = @ + 1]
    /\ UNCHANGED <<people, otp, sessions, device, trusted, mfa, document, funds, pin, body,
                   seen, row, ghosts>>

\* upsertDevice: a device known to somebody keeps its owner.
UpsertDevice(r) ==
    device' = [device EXCEPT ![body[r].device] = IF @ = None THEN body[r].user ELSE @]

LoginDevice(r) ==
    /\ Goto(r, "device", "session")
    /\ UpsertDevice(r)
    /\ UNCHANGED <<people, otp, failures, sessions, trusted, mfa, document, funds, pin, body,
                   seen, row, ghosts>>

\* createSession: the foreign key asks for the device to be there still.
LoginSession(r) ==
    /\ Goto(r, "session", "answered")
    /\ device[body[r].device] # None
    /\ sessions' = [sessions EXCEPT ![r] =
                      [status |-> "ACTIVE", user |-> body[r].user, token |-> r,
                       device |-> body[r].device, password |-> body[r].password]]
    /\ UNCHANGED <<people, otp, failures, device, trusted, mfa, document, funds, pin, body,
                   seen, row, ghosts>>

-----------------------------------------------------------------------------
(* refreshTokens and logout.                                               *)

RefreshRead(r) ==
    /\ Is(r, "REFRESH")
    /\ Given(body[r].token)
    /\ \E s \in Tokens : /\ Accepted(s, body[r].token)
                         /\ row' = [row EXCEPT ![r] = s]
    /\ Goto(r, "idle", "rotate")
    /\ UNCHANGED <<people, otp, logins, mfa, document, funds, pin, body, seen, ghosts>>

\* As Rotated, reviving the row as a new session would be.
RotatedActive(r) ==
    [sessions EXCEPT ![row[r]].token = r, ![row[r]].status = "ACTIVE"]

\* update by id: jti and refreshTokenHash; the status is neither read nor written.
Rotated(r) == [sessions EXCEPT ![row[r]].token = r]

RefreshRotate(r) ==
    /\ Goto(r, "rotate", "answered")
    /\ sessions[row[r]].status # "NONE"
    /\ sessions' = Rotated(r)
    /\ UNCHANGED <<people, otp, failures, device, trusted, mfa, document, funds, pin, body,
                   seen, row, ghosts>>

\* As LoggedOut, looking for the session by the login that opened it.
LoggedOutLogin(r) ==
    [s \in Tokens |-> IF s = body[r].token /\ sessions[s].user = body[r].user
                      THEN [sessions[s] EXCEPT !.status = "REVOKED"] ELSE sessions[s]]

\* updateMany by jti: no row, after a refresh in between, is no error.
LoggedOut(r) ==
    [s \in Tokens |-> IF sessions[s].token = body[r].token /\ sessions[s].user = body[r].user
                      THEN [sessions[s] EXCEPT !.status = "REVOKED"] ELSE sessions[s]]

Logout(r) ==
    /\ Is(r, "LOGOUT")
    /\ Goto(r, "enter", "answered")
    /\ sessions' = LoggedOut(r)
    /\ UNCHANGED <<people, otp, failures, device, trusted, mfa, document, funds, pin, body,
                   seen, row, ghosts>>

-----------------------------------------------------------------------------
(* forgotPassword and resetPassword.                                       *)

ForgotRead(r) ==
    /\ Is(r, "FORGOT_PASSWORD")
    /\ Goto(r, "idle", IF status[body[r].user] = "NONE" THEN "answered" ELSE "retire")
    /\ UNCHANGED <<people, otp, logins, mfa, document, funds, pin, body, seen, row, ghosts>>

\* The codes are retired here, and again by dispatchEmailOtp.
ForgotRetire(r) ==
    /\ Goto(r, "retire", "renew")
    /\ codes' = Retired(r)
    /\ UNCHANGED <<people, mailed, logins, mfa, document, funds, pin, body, seen, row, ghosts>>

ResetRead(r) ==
    /\ Is(r, "RESET_PASSWORD")
    /\ status[body[r].user] # "NONE"
    /\ \E i \in {0} \cup DOMAIN codes :
          /\ Typed(r, i)
          /\ seen' = [seen EXCEPT ![r] = i]
    /\ Goto(r, "idle", "find")
    /\ UNCHANGED <<people, otp, logins, mfa, document, funds, pin, body, row, ghosts>>

ResetPassword(r) ==
    /\ Goto(r, "rewrite", "revoke")
    /\ password' = [password EXCEPT ![body[r].user] = body[r].password]
    /\ UNCHANGED <<status, tier, kyc, otp, logins, mfa, document, funds, pin, body, seen, row,
                   ghosts>>

RevokeSessions(r) ==
    /\ Goto(r, "revoke", "answered")
    /\ sessions' = [s \in Tokens |->
                      IF sessions[s].user = body[r].user /\ sessions[s].status = "ACTIVE"
                      THEN [sessions[s] EXCEPT !.status = "REVOKED"] ELSE sessions[s]]
    /\ UNCHANGED <<people, otp, failures, device, trusted, mfa, document, funds, pin, body,
                   seen, row, ghosts>>

-----------------------------------------------------------------------------
(* IdentityService: devices.                                               *)

RegisterDevice(r) ==
    /\ Is(r, "DEVICE_REGISTER")
    /\ Goto(r, "enter", "answered")
    /\ UpsertDevice(r)
    /\ UNCHANGED <<people, otp, failures, sessions, trusted, mfa, document, funds, pin, body,
                   seen, row, ghosts>>

TrustDevice(r) ==
    /\ Is(r, "DEVICE_TRUST")
    /\ device[body[r].device] = body[r].user
    /\ Goto(r, "enter", "answered")
    /\ trusted' = trusted \cup {body[r].device}
    /\ UNCHANGED <<people, otp, failures, sessions, device, mfa, document, funds, pin, body,
                   seen, row, ghosts>>

\* The sessions on the device go with it (onDelete: Cascade), whoever's they are.
RemoveDevice(r) ==
    LET d == body[r].device IN
    /\ Is(r, "DEVICE_REMOVE")
    /\ device[d] = body[r].user
    /\ Goto(r, "enter", "answered")
    /\ device' = [device EXCEPT ![d] = None]
    /\ trusted' = trusted \ {d}
    /\ sessions' = [s \in Tokens |-> IF sessions[s].device = d THEN NoSession ELSE sessions[s]]
    /\ UNCHANGED <<people, otp, failures, mfa, document, funds, pin, body, seen, row, ghosts>>

AuthNext ==
    \E r \in Requests :
        \/ RegisterRead(r) \/ RegisterInsert(r) \/ RetireCodes(r) \/ CreateCode(r) \/ MailCode(r)
        \/ VerifyRead(r) \/ FindCode(r) \/ ConsumeCode(r) \/ MissCode(r)
        \/ Activate(r) \/ EnsureRead(r) \/ EnsureCreate(r)
        \/ LoginStart(r) \/ LoginAccept(r) \/ LoginReject(r) \/ LoginDevice(r) \/ LoginSession(r)
        \/ RefreshRead(r) \/ RefreshRotate(r) \/ Logout(r)
        \/ ForgotRead(r) \/ ForgotRetire(r) \/ ResetRead(r) \/ ResetPassword(r) \/ RevokeSessions(r)
        \/ RegisterDevice(r) \/ TrustDevice(r) \/ RemoveDevice(r)
        \/ Authenticate(r) \/ Fail(r)
=============================================================================
