-------------------------- MODULE AccountsInvariant --------------------------
(***************************************************************************)
(* The inductive invariant behind the safety properties of Accounts: what  *)
(* each call knows at the await it has reached.                            *)
(***************************************************************************)
EXTENDS Accounts

\* Which calls get where, and what they carry there.
Flow ==
    \A r \in Requests :
        /\ pc[r] \in {"mfa", "spend", "device", "session"} => Is(r, "LOGIN")
        /\ pc[r] = "rotate" => Is(r, "REFRESH") /\ row[r] \in Tokens
        /\ pc[r] = "enter" => Is(r, "LOGIN") \/ body[r].kind \in CustomerKinds
        /\ pc[r] \in {"activate", "wallet", "grant"} => Is(r, "VERIFY_EMAIL")
        /\ pc[r] = "create" => Is(r, "WALLET_CREATE")
        /\ pc[r] = "primary" => body[r].currency \in wallets[body[r].user]
        /\ pc[r] = "mail" => seen[r] \in DOMAIN codes
        /\ pc[r] = "enable" => row[r] \in Requests
        /\ pc[r] \in {"upload", "progress"} => Is(r, "KYC_SUBMIT")
        /\ pc[r] = "progress" => document[body[r].user].content # None
        /\ Is(r, "LOGOUT") => pc[r] \in {"idle", "enter", "answered", "failed"}
        /\ Is(r, "WALLET_PRIMARY") => pc[r] \in {"idle", "enter", "primary", "answered", "failed"}

\* The session a token was made for, and whose that session is.
SessionOf(t) == IF t \in Requests /\ Is(t, "REFRESH") THEN row[t] ELSE t
UserOf(s)    == IF s \in Registered THEN s ELSE body[s].user

\* A session is its login's; its token was answered by that login or by a
\* refresh of that session.
SessionOK(s) ==
    /\ s \in Requests => Is(s, "LOGIN")
    /\ Given(s)
    /\ sessions[s].user = UserOf(s)
    /\ sessions[s].token \in Tokens
    /\ Given(sessions[s].token)
    /\ SessionOf(sessions[s].token) = s

SessionsOK ==
    \A s \in Tokens : \/ sessions[s].status = "NONE" /\ sessions[s].user = None
                      \/ sessions[s].status # "NONE" /\ SessionOK(s)

\* A call that has passed the guard has a token of a session of its user; after
\* a logout that token is dead.
BearersOK ==
    \A r \in Requests :
        /\ pc[r] = "enter" /\ body[r].kind \in CustomerKinds =>
               /\ body[r].token \in Tokens /\ Given(body[r].token)
               /\ UserOf(SessionOf(body[r].token)) = body[r].user
        /\ Is(r, "LOGOUT") /\ pc[r] = "answered" =>
               /\ body[r].token \in Tokens /\ Given(body[r].token)
               /\ ~ Live(body[r].token)

\* A verification code mailed to u has been tried.
TriedByMail(u) ==
    \E i \in mailed : /\ codes[i].user = u
                      /\ codes[i].purpose = "EMAIL_VERIFY"
                      /\ codes[i].attempts > 0

\* What a call has typed or found, and what it has consumed.
CodesOK ==
    \A r \in Requests :
        /\ pc[r] = "find" =>
               \/ seen[r] = 0
               \/ seen[r] \in mailed /\ codes[seen[r]].user = body[r].user
        /\ pc[r] = "mark" => seen[r] \in mailed /\ OfCall(r, codes[seen[r]])
        /\ pc[r] = "activate" => TriedByMail(body[r].user)

\* A wallet in a currency of tier 2 is only asked for with the tier.
TierKnown ==
    \A r \in Requests : pc[r] = "create" /\ body[r].currency \notin Allowed[1] =>
        document[body[r].user].verified

\* A user whose wallets are all secondary has made one by createWallet.
SecondaryMade ==
    \A u \in Users : wallets[u] # {} /\ primary[u] = {} =>
        \E r \in Requests : body[r].user = u /\ Is(r, "WALLET_CREATE") /\ pc[r] = "answered"

\* The activation has been written by the calls past it, and only by them; a
\* user of the start has a primary wallet, and so has who chose one; a call that
\* activated and was answered left one, or found the wallets made before.
Activations ==
    /\ \A r \in Requests : pc[r] \in {"wallet", "grant"} => r \in activated
    /\ \A r \in activated :
          /\ Is(r, "VERIFY_EMAIL")
          /\ pc[r] \in {"wallet", "grant", "answered", "failed"}
          /\ pc[r] = "answered" => primary[body[r].user] # {} \/ before[r] # {}
    /\ \A u \in Users : status[u] = "ACTIVE" => u \in Registered \/ ActivatedBy(u) # {}
    /\ \A u \in Registered : primary[u] # {}
    /\ \A r \in Requests : Is(r, "WALLET_PRIMARY") /\ pc[r] = "answered" =>
          primary[body[r].user] # {}

\* A counter a call has read was counted, and its own failure not yet.
CountersRead ==
    \A r \in Requests :
        /\ r \in missed => pc[r] = "failed"
        /\ pc[r] = "wrong" => seen[r] <= Cardinality(Misses(body[r].user))

\* The row of a second factor is its user's, and only answered confirmations
\* have backup codes.
SecretsOK ==
    /\ \A u \in Users : /\ secret[u].id # None =>
                               secret[u].id \in Requests /\ body[secret[u].id].user = u
                        /\ secret[u].enabled => secret[u].id # None
    /\ \A r \in Requests : backup[r].of # None => pc[r] = "answered"

AccountsInv ==
    /\ AccountsTypeOK /\ Flow
    /\ SessionsOK /\ BearersOK
    /\ CodesOK /\ ActivatedByMail
    /\ TierKnown /\ TierEarned
    /\ SecondaryMade /\ Activations
    /\ CountersRead /\ NoLockWithoutCause
    /\ KycSettled
    /\ SecretsOK /\ MfaAgrees
=============================================================================
