-------------------------------- MODULE Mfa ---------------------------------
(***************************************************************************)
(* MfaService: enrolment in two steps and its end, and the second factor   *)
(* of a login (AuthService.verifyMfaCode).  A code is the TOTP of the      *)
(* secret an enrolment returned (ref is that MFA_ENABLE), or a backup code *)
(* a confirmation returned (ref is that MFA_CONFIRM).                      *)
(***************************************************************************)
EXTENDS AccountTables

\* The client has been given what it computes its code from.
HasCode(r) == body[r].ref \in Requests /\ pc[body[r].ref] = "answered"

Totp(r) ==
    /\ HasCode(r)
    /\ Is(body[r].ref, "MFA_ENABLE")
    /\ secret[body[r].user].key = body[r].ref

\* An unused code among those of the user's row.
BackupCode(r) ==
    /\ HasCode(r)
    /\ Is(body[r].ref, "MFA_CONFIRM")
    /\ backup[body[r].ref] = [of |-> secret[body[r].user].id, used |-> FALSE]
    /\ secret[body[r].user].id # None

\* deleteMany by mfaSecretId.
WithoutCodes(id) ==
    [q \in Requests |-> IF backup[q].of = id THEN NoBackup ELSE backup[q]]

-----------------------------------------------------------------------------
(* initEnable.                                                             *)

MfaEnableRead(r) ==
    /\ Is(r, "MFA_ENABLE")
    /\ body[r].user \notin mfaOn
    /\ Goto(r, "enter", "store")
    /\ UNCHANGED <<people, otp, logins, mfa, document, funds, pin, body, seen, row, ghosts>>

\* The ghost of a statement of initEnable that comes after another call has
\* confirmed the enrolment.
Restarted(u) ==
    crossed' = IF u \in mfaOn THEN [crossed EXCEPT ![u] = @ \cup {"mfa"}] ELSE crossed

\* upsert: a new row, or the old one with another secret and enabledAt null.
MfaStore(r) ==
    LET u == body[r].user IN
    /\ Goto(r, "store", "clear")
    /\ secret' = [secret EXCEPT ![u] =
                    [id |-> IF @.id = None THEN r ELSE @.id, key |-> r, enabled |-> FALSE]]
    /\ Restarted(u)
    /\ UNCHANGED <<people, otp, logins, mfaOn, backup, document, funds, pin, body, seen, row,
                   missed, marks>>

MfaClear(r) ==
    LET u == body[r].user IN
    /\ Goto(r, "clear", "answered")
    /\ backup' = IF secret[u].id = None THEN backup ELSE WithoutCodes(secret[u].id)
    /\ Restarted(u)
    /\ UNCHANGED <<people, otp, logins, mfaOn, secret, document, funds, pin, body, seen, row,
                   missed, marks>>

-----------------------------------------------------------------------------
(* confirmEnable.                                                          *)

MfaConfirmRead(r) ==
    LET s == secret[body[r].user] IN
    /\ Is(r, "MFA_CONFIRM")
    /\ s.id # None
    /\ ~ s.enabled
    /\ Totp(r)
    /\ row' = [row EXCEPT ![r] = s.id]
    /\ Goto(r, "enter", "enable")
    /\ UNCHANGED <<people, otp, logins, mfa, document, funds, pin, body, seen, ghosts>>

\* As MfaConfirmCommit, with the flag of the user left for later.
MfaConfirmNoFlag(r) ==
    LET u == body[r].user IN
    /\ Goto(r, "enable", "answered")
    /\ secret[u].id = row[r]
    /\ secret' = [secret EXCEPT ![u].enabled = TRUE]
    /\ backup' = [backup EXCEPT ![r] = [of |-> row[r], used |-> FALSE]]
    /\ UNCHANGED <<people, otp, logins, mfaOn, document, funds, pin, body, seen, row, ghosts>>

\* One transaction, by the id of the row read; the secret is not looked at again.
MfaConfirmCommit(r) ==
    LET u == body[r].user IN
    /\ Goto(r, "enable", "answered")
    /\ secret[u].id = row[r]
    /\ secret' = [secret EXCEPT ![u].enabled = TRUE]
    /\ backup' = [backup EXCEPT ![r] = [of |-> row[r], used |-> FALSE]]
    /\ mfaOn' = mfaOn \cup {u}
    /\ UNCHANGED <<people, otp, logins, document, funds, pin, body, seen, row, ghosts>>

-----------------------------------------------------------------------------
(* disable.                                                                *)

\* A backup code is enough, and is not marked used: its row goes anyway.
MfaDisableRead(r) ==
    LET s == secret[body[r].user] IN
    /\ Is(r, "MFA_DISABLE")
    /\ s.enabled
    /\ Totp(r) \/ BackupCode(r)
    /\ row' = [row EXCEPT ![r] = s.id]
    /\ Goto(r, "enter", "disable")
    /\ UNCHANGED <<people, otp, logins, mfa, document, funds, pin, body, seen, ghosts>>

MfaDisableCommit(r) ==
    LET u == body[r].user IN
    /\ Goto(r, "disable", "answered")
    /\ secret[u].id = row[r]
    /\ backup' = WithoutCodes(row[r])
    /\ secret' = [secret EXCEPT ![u] = NoSecret]
    /\ mfaOn' = mfaOn \ {u}
    /\ UNCHANGED <<people, otp, logins, document, funds, pin, body, seen, row, ghosts>>

-----------------------------------------------------------------------------
(* verifyMfaCode, in a login.                                              *)

LoginFactor(r) ==
    LET s == secret[body[r].user] IN
    /\ Is(r, "LOGIN")
    /\ s.enabled
    /\ Totp(r) \/ BackupCode(r)
    /\ row' = [row EXCEPT ![r] = s.id]
    /\ Goto(r, "mfa", "spend")
    /\ UNCHANGED <<people, otp, logins, mfa, document, funds, pin, body, seen, ghosts>>

\* lastUsedAt, or usedAt of a backup code, by id: the row must still be there,
\* a use of the code in between is not noticed.
LoginSpend(r) ==
    LET q == body[r].ref IN
    /\ Goto(r, "spend", "device")
    /\ IF Is(q, "MFA_CONFIRM")
       THEN /\ backup[q].of = row[r]
            /\ backup' = [backup EXCEPT ![q].used = TRUE]
       ELSE /\ secret[body[r].user].id = row[r]
            /\ UNCHANGED backup
    /\ UNCHANGED <<people, otp, logins, mfaOn, secret, document, funds, pin, body, seen, row,
                   ghosts>>

MfaNext ==
    \E r \in Requests :
        \/ MfaEnableRead(r) \/ MfaStore(r) \/ MfaClear(r)
        \/ MfaConfirmRead(r) \/ MfaConfirmCommit(r)
        \/ MfaDisableRead(r) \/ MfaDisableCommit(r)
        \/ LoginFactor(r) \/ LoginSpend(r)
=============================================================================
