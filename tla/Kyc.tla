-------------------------------- MODULE Kyc ---------------------------------
(***************************************************************************)
(* A customer's document: IdentityService.submitKyc and the reviewers'     *)
(* AdminKycService.approveKyc and rejectKyc.                               *)
(***************************************************************************)
EXTENDS AccountTables

\* The ghost of a write after the document or its review has changed since
\* call r looked.
Overtaken(r, changed) ==
    crossed' = IF changed THEN [crossed EXCEPT ![body[r].user] = @ \cup {"kyc"}] ELSE crossed

Decided(u) == document[u].verified \/ document[u].rejected

-----------------------------------------------------------------------------
(* submitKyc.                                                              *)

KycSubmitRead(r) ==
    /\ Is(r, "KYC_SUBMIT")
    /\ kyc[body[r].user] # "VERIFIED"
    /\ Goto(r, "enter", "upload")
    /\ UNCHANGED <<people, otp, logins, mfa, document, funds, pin, body, seen, row, ghosts>>

\* upsert: the one row of the user; a rejection is cleared, an approval is not.
Uploaded(r) ==
    [content |-> body[r].content, verified |-> document[body[r].user].verified, rejected |-> FALSE]

KycUpload(r) ==
    /\ Goto(r, "upload", "progress")
    /\ document' = [document EXCEPT ![body[r].user] = Uploaded(r)]
    /\ Overtaken(r, document[body[r].user].verified)
    /\ UNCHANGED <<people, otp, logins, mfa, funds, pin, body, seen, row, missed, marks>>

KycProgress(r) ==
    /\ Goto(r, "progress", "answered")
    /\ kyc' = [kyc EXCEPT ![body[r].user] = "IN_PROGRESS"]
    /\ Overtaken(r, Decided(body[r].user))
    /\ UNCHANGED <<status, password, tier, otp, logins, mfa, document, funds, pin, body, seen,
                   row, missed, marks>>

-----------------------------------------------------------------------------
(* approveKyc and rejectKyc.                                               *)

\* Sent in and waiting for a decision.
Undecided(u) == document[u].content # None /\ ~ Decided(u)

DecideRead(r) ==
    /\ body[r].kind \in ReviewKinds
    /\ Undecided(body[r].user)
    /\ row' = [row EXCEPT ![r] = document[body[r].user].content]
    /\ Goto(r, "idle", "decide")
    /\ UNCHANGED <<people, otp, logins, mfa, document, funds, pin, body, seen, ghosts>>

\* What the decision was about is no longer what it is written to.
Replaced(r) ==
    LET u == body[r].user IN Decided(u) \/ document[u].content # row[r]

\* One batch; the dates are not looked at again.
Approve(r) ==
    LET u == body[r].user IN
    /\ Is(r, "KYC_APPROVE")
    /\ Goto(r, "decide", "answered")
    /\ document' = [document EXCEPT ![u].verified = TRUE]
    /\ kyc' = [kyc EXCEPT ![u] = "VERIFIED"]
    /\ tier' = [tier EXCEPT ![u] = 2]
    /\ Overtaken(r, Replaced(r))
    /\ UNCHANGED <<status, password, otp, logins, mfa, funds, pin, body, seen, row, missed, marks>>

\* As Reject, sparing the row of the user.
RejectDocument(r) ==
    LET u == body[r].user IN
    /\ Is(r, "KYC_REJECT")
    /\ Goto(r, "decide", "answered")
    /\ document' = [document EXCEPT ![u].rejected = TRUE]
    /\ Overtaken(r, Replaced(r))
    /\ UNCHANGED <<people, otp, logins, mfa, funds, pin, body, seen, row, missed, marks>>

Reject(r) ==
    LET u == body[r].user IN
    /\ Is(r, "KYC_REJECT")
    /\ Goto(r, "decide", "answered")
    /\ document' = [document EXCEPT ![u].rejected = TRUE]
    /\ kyc' = [kyc EXCEPT ![u] = "REJECTED"]
    /\ Overtaken(r, Replaced(r))
    /\ UNCHANGED <<status, password, tier, otp, logins, mfa, funds, pin, body, seen, row, missed, marks>>

KycNext ==
    \E r \in Requests :
        \/ KycSubmitRead(r) \/ KycUpload(r) \/ KycProgress(r)
        \/ DecideRead(r) \/ Approve(r) \/ Reject(r)
=============================================================================
