---------------------------- MODULE WalletAccess ----------------------------
(***************************************************************************)
(* WalletService beside the money: further wallets, the primary wallet and *)
(* the wallet PIN with its counter of failures and its lock.               *)
(***************************************************************************)
EXTENDS AccountTables

-----------------------------------------------------------------------------
(* createWallet and setPrimaryWallet.                                      *)

\* As TierAllows, for every tier.
AnyCurrency(r) == body[r].currency \in Currencies

\* ALLOWED_CURRENCIES_BY_TIER, with the tier read here.
TierAllows(r) == body[r].currency \in Allowed[tier[body[r].user]]

CreateRead(r) ==
    /\ Is(r, "WALLET_CREATE")
    /\ TierAllows(r)
    /\ Goto(r, "enter", "create")
    /\ UNCHANGED <<people, otp, logins, mfa, document, funds, pin, body, seen, row, ghosts>>

\* The check for a wallet of this currency, and the unique column behind it.
CreateWallet(r) ==
    LET u == body[r].user IN
    /\ Goto(r, "create", "answered")
    /\ body[r].currency \notin wallets[u]
    /\ wallets' = [wallets EXCEPT ![u] = @ \cup {body[r].currency}]
    /\ UNCHANGED <<people, otp, logins, mfa, document, primary, pin, body, seen, row, ghosts>>

\* As PrimaryRead, for any currency.
PrimaryReadAny(r) ==
    /\ Is(r, "WALLET_PRIMARY")
    /\ Goto(r, "enter", "primary")
    /\ UNCHANGED <<people, otp, logins, mfa, document, funds, pin, body, seen, row, ghosts>>

\* No wallet is frozen here: Payments has the freezes.
PrimaryRead(r) ==
    LET u == body[r].user IN
    /\ Is(r, "WALLET_PRIMARY")
    /\ body[r].currency \in wallets[u]
    /\ Goto(r, "enter", IF body[r].currency \in primary[u] THEN "answered" ELSE "primary")
    /\ UNCHANGED <<people, otp, logins, mfa, document, funds, pin, body, seen, row, ghosts>>

\* One transaction: every flag of the user cleared, one set.
SetPrimary(r) ==
    /\ Goto(r, "primary", "answered")
    /\ primary' = [primary EXCEPT ![body[r].user] = {body[r].currency}]
    /\ UNCHANGED <<people, otp, logins, mfa, document, wallets, pin, body, seen, row, ghosts>>

-----------------------------------------------------------------------------
(* The PIN.                                                                *)

\* The one row of the user: the unique column refuses a second.
SetPin(r) ==
    LET u == body[r].user IN
    /\ Is(r, "PIN_SET")
    /\ ~ pin[u].set
    /\ Goto(r, "enter", "answered")
    /\ pin' = [pin EXCEPT ![u] = [set |-> TRUE, attempts |-> 0, locked |-> FALSE]]
    /\ UNCHANGED <<people, otp, logins, mfa, document, funds, body, seen, row, ghosts>>

\* initiateWithdraw alone does not look at lockedUntil.
MayTry(r) ==
    LET p == pin[body[r].user] IN p.set /\ (p.locked => Is(r, "PIN_WITHDRAW"))

\* Where the right PIN leads: changePin and a transfer write the row again.
AfterPin(r) ==
    CASE Is(r, "PIN_CHANGE")   -> "change"
      [] Is(r, "PIN_TRANSFER") -> "pay"
      [] OTHER                 -> "answered"

\* The row is read once: the lock, the hash and the counter.
ReadPin(r) ==
    /\ body[r].kind \in PinKinds \ {"PIN_SET"}
    /\ MayTry(r)
    /\ seen' = [seen EXCEPT ![r] = pin[body[r].user].attempts]
    /\ Goto(r, "enter", IF body[r].right THEN AfterPin(r) ELSE "wrong")
    /\ UNCHANGED <<people, otp, logins, mfa, document, funds, pin, body, row, ghosts>>

\* changePin increments the counter; handleFailedPinAttempt writes the one
\* read plus one.  Both decide about the lock by the counter read.
Counted(r) == IF Is(r, "PIN_CHANGE") THEN pin[body[r].user].attempts + 1 ELSE seen[r] + 1

\* As LocksPin, one failure early.
LocksPinEarly(r) == seen[r] + 2 >= PinTries

LocksPin(r) == seen[r] + 1 >= PinTries

\* lockedUntil is written either way, so that a lock in between is undone.
MissPin(r) ==
    /\ Goto(r, "wrong", "failed")
    /\ pin' = [pin EXCEPT ![body[r].user] =
                 [set |-> @.set, attempts |-> Counted(r), locked |-> LocksPin(r)]]
    /\ missed' = missed \cup {r}
    /\ UNCHANGED <<people, otp, logins, mfa, document, funds, body, seen, row, crossed, marks>>

\* changePin with the right PIN, and p2pTransfer in its transaction.
ClearPin(r) ==
    /\ Goto(r, pc[r], "answered")
    /\ pc[r] \in {"change", "pay"}
    /\ pin' = [pin EXCEPT ![body[r].user] = [set |-> @.set, attempts |-> 0, locked |-> FALSE]]
    /\ UNCHANGED <<people, otp, logins, mfa, document, funds, body, seen, row, ghosts>>

\* The fifteen minutes are over; the counter stays where it was.
PinLockExpires(u) ==
    /\ pin[u].locked
    /\ pin' = [pin EXCEPT ![u] = [set |-> @.set, attempts |-> @.attempts, locked |-> FALSE]]
    /\ UNCHANGED <<people, otp, logins, mfa, document, funds, body, pc, seen, row, ghosts>>

WalletAccessNext ==
    \/ \E r \in Requests :
          \/ CreateRead(r) \/ CreateWallet(r) \/ PrimaryRead(r) \/ SetPrimary(r)
          \/ SetPin(r) \/ ReadPin(r) \/ MissPin(r) \/ ClearPin(r)
    \/ \E u \in Users : PinLockExpires(u)
=============================================================================
