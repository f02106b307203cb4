------------------------------ MODULE Accounts ------------------------------
(***************************************************************************)
(* The customer's account: authentication, second factor, review and       *)
(* wallet access on the same rows, and what must be true of them.          *)
(***************************************************************************)
EXTENDS Auth, Mfa, Kyc, WalletAccess

Next == AuthNext \/ MfaNext \/ KycNext \/ WalletAccessNext

Spec == Init /\ [][Next]_vars

-----------------------------------------------------------------------------
\* The rows and the calls have their types, the codes mailed are rows, and a
\* primary wallet is a wallet.
AccountsTypeOK ==
    /\ TypeOK
    /\ \A u \in Users : primary[u] \subseteq wallets[u]

\* What is revoked stays revoked: a token given up (rotated, revoked by a logout
\* or a reset, gone with its device) opens nothing again, and a refresh that
\* finds its session before the revocation and rotates it after does not bring
\* the session back.
RevokedForGood ==
    [][/\ \A t \in Tokens : Live(t)' => Live(t) \/ ~ Given(t)
       /\ \A s \in Tokens : sessions[s].status = "REVOKED" => sessions'[s].status # "ACTIVE"]_vars

\* The token a logout was called with is dead once it is answered, also when a
\* refresh has rotated the session between the guard and the update.
LogoutKillsToken ==
    \A r \in Requests : Is(r, "LOGOUT") /\ pc[r] = "answered" => ~ Live(body[r].token)

\* An account that was not active from the start is active only if a code for
\* that purpose was mailed to it and tried, however many calls verify, fail and
\* ask for new codes at once.
ActivatedByMail ==
    \A u \in Users \ Registered : status[u] = "ACTIVE" =>
        \E i \in mailed : /\ codes[i].user = u
                          /\ codes[i].purpose = "EMAIL_VERIFY"
                          /\ codes[i].attempts > 0

\* The calls that have activated u.
ActivatedBy(u) == {r \in activated : body[r].user = u}

\* A verification that has written the activation and not got to a wallet: it
\* still runs, it has stopped there, or it found one made before it looked.
LeftWithout(r) == pc[r] \in {"wallet", "grant", "failed"} \/ before[r] # {}

\* An active account without a primary wallet was activated by a verification,
\* and each one that activated it has not come to its end, has stopped after
\* the activation, or looked for a wallet after the customer, already let in,
\* had made one: nothing repeats ensurePrimaryWallet, and createWallet makes no
\* wallet primary.  Accounts active from the start and those that have chosen
\* a primary wallet always have one.
PrimaryMissingHasCause ==
    \A u \in Users : status[u] = "ACTIVE" /\ primary[u] = {} =>
        /\ ActivatedBy(u) # {}
        /\ \A r \in ActivatedBy(u) : LeftWithout(r)
        /\ \A r \in Requests :
              Is(r, "WALLET_PRIMARY") /\ body[r].user = u => pc[r] # "answered"

\* The higher tier, and a wallet in a currency it opens, are reached only
\* through an approved document.
TierEarned ==
    \A u \in Users : tier[u] = 2 \/ (wallets[u] \ Allowed[1]) # {} => document[u].verified

\* A submission has not written both of its rows, and may never.
Submitting(u) ==
    \E r \in Requests : /\ Is(r, "KYC_SUBMIT")
                        /\ body[r].user = u
                        /\ pc[r] \in {"progress", "failed"}

\* The status of a customer is that of the document, unless a decision or a submission has overtaken another one
\* (crossed) or a submission has stopped half way.
KycSettled ==
    \A u \in Users : "kyc" \notin crossed[u] /\ ~ Submitting(u) =>
        /\ kyc[u] = "VERIFIED" <=> document[u].verified
        /\ kyc[u] = "REJECTED" <=> document[u].rejected
        /\ kyc[u] = "IN_PROGRESS" <=> Undecided(u)

\* The wrong PINs recorded for a user.
Misses(u) == {r \in missed : body[r].user = u}

\* A PIN is never locked, and its counter never ahead, without so many wrong
\* PINs, however the counts of overlapping calls overwrite each other.
NoLockWithoutCause ==
    \A u \in Users : /\ pin[u].attempts <= Cardinality(Misses(u))
                     /\ pin[u].locked => Cardinality(Misses(u)) >= PinTries

\* isMfaEnabled, enabledAt and the backup codes agree, unless a second
\* enrolment has overtaken the confirmation of the first (crossed), which is
\* what locks a customer out of login, enrolment and disable alike.
MfaAgrees ==
    \A u \in Users : "mfa" \notin crossed[u] =>
        /\ u \in mfaOn <=> secret[u].enabled
        /\ u \in mfaOn => \E q \in Requests : backup[q].of = secret[u].id
=============================================================================
