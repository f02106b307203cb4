------------------------------- MODULE Wallet -------------------------------
(***************************************************************************)
(* The money operations of WalletService: initiateDeposit,                 *)
(* initiateWithdraw, p2pTransfer and completeTransaction, one action for   *)
(* what a handler does between two awaits.                                 *)
(***************************************************************************)
EXTENDS Tables

\* The transactions that initiateDeposit and initiateWithdraw create.
Initiates(r) == body[r].kind \in {"DEPOSIT", "WITHDRAWAL"}

\* The canonical fields behind requestHash: the endpoint is not one of them.
RequestHash(r) == <<body[r].user, body[r].wallet, body[r].amount>>

\* As Replayable, without comparing the request hashes.
ReplayableAnyHash(r, old) ==
    /\ Initiates(old)
    /\ body[old].user = body[r].user

\* A record whose stored response answers r: same user, same requestHash
\* (p2pTransfer stores an empty hash, which never matches).
Replayable(r, old) ==
    /\ Initiates(old)
    /\ body[old].user = body[r].user
    /\ RequestHash(old) = RequestHash(r)

-----------------------------------------------------------------------------
(* initiateDeposit and initiateWithdraw.                                   *)

\* getWalletById finds only the caller's wallets; the amount must be positive.
OwnWallet(r) ==
    /\ Owner[body[r].wallet] = body[r].user
    /\ body[r].amount > 0

DepositReadWallet(r) ==
    /\ body[r].kind = "DEPOSIT"
    /\ OwnWallet(r)
    /\ Goto(r, "idle", "key")
    /\ UNCHANGED <<balance, available, frozen, status, ledger, keys, body, seen, answer>>

\* The available balance is checked here, and remembered.  The wallet's status
\* is not looked at, and isLocked is never set by any code.
WithdrawReadWallet(r) ==
    /\ body[r].kind = "WITHDRAWAL"
    /\ OwnWallet(r)
    /\ available[body[r].wallet] >= body[r].amount
    /\ seen' = [seen EXCEPT ![r] = available[body[r].wallet]]
    /\ Goto(r, "idle", "key")
    /\ UNCHANGED <<balance, available, frozen, status, ledger, keys, body, answer>>

\* The key is unknown: go on and reserve it in the transaction.
NewKey(r) ==
    /\ Initiates(r)
    /\ Recorded(r) = None
    /\ Goto(r, "key", "commit")
    /\ UNCHANGED <<balance, available, frozen, status, ledger, keys, body, seen, answer>>

\* The key is known and its record answers this request.
ReplayResponse(r) ==
    /\ Initiates(r)
    /\ Recorded(r) # None
    /\ Replayable(r, Recorded(r))
    /\ AnswerWith(r, "key", Recorded(r))
    /\ UNCHANGED <<balance, available, frozen, status, ledger, keys, body, seen>>

\* A PENDING deposit: its two ledger entries (suspense, provider) cancel out.
DepositCommit(r) ==
    /\ body[r].kind = "DEPOSIT"
    /\ ReserveKey(r)
    /\ status' = [status EXCEPT ![r] = "PENDING"]
    /\ Goto(r, "commit", "audit")
    /\ UNCHANGED <<balance, available, frozen, ledger, body, seen, answer>>

\* The hold computed from the wallet as it is in the transaction, unchecked.
HoldFromFresh(r) ==
    available' = [available EXCEPT ![body[r].wallet] = @ - body[r].amount]

\* The hold is computed from the balance read before the transaction.
Hold(r) ==
    available' = [available EXCEPT ![body[r].wallet] = seen[r] - body[r].amount]

\* A PENDING withdrawal: a debit of the wallet and a credit of suspense.
WithdrawCommit(r) ==
    /\ body[r].kind = "WITHDRAWAL"
    /\ ReserveKey(r)
    /\ status' = [status EXCEPT ![r] = "PENDING"]
    /\ holds' = [holds EXCEPT ![body[r].wallet] = @ - body[r].amount]
    /\ Hold(r)
    /\ Goto(r, "commit", "audit")
    /\ UNCHANGED <<balance, frozen, booked, moves, body, seen, answer>>

-----------------------------------------------------------------------------
(* p2pTransfer.                                                            *)

\* The key carries a record of the caller's; another user's is passed over.
OwnRecord(r) == Recorded(r) # None /\ body[Recorded(r)].user = body[r].user

\* The operations that store their response with responseStatus 200.
StoresOk(t) == body[t].kind \in {"P2P_TRANSFER", "VAULT_CONTRIBUTION", "VAULT_WITHDRAWAL"}

\* A record with responseStatus 200 is the answer, whatever wrote it.
TransferReplay(r) ==
    /\ body[r].kind = "P2P_TRANSFER"
    /\ OwnRecord(r)
    /\ StoresOk(Recorded(r))
    /\ AnswerWith(r, "idle", Recorded(r))
    /\ UNCHANGED <<balance, available, frozen, status, ledger, keys, body, seen>>

TransferNewKey(r) ==
    /\ body[r].kind = "P2P_TRANSFER"
    /\ ~ OwnRecord(r)
    /\ Goto(r, "idle", "sender")
    /\ UNCHANGED <<balance, available, frozen, status, ledger, keys, body, seen, answer>>

\* findFirst on the caller's primary ACTIVE wallet.
TransferReadSender(r) ==
    /\ Goto(r, "sender", "receiver")
    /\ body[r].wallet \in Primary \ frozen
    /\ Owner[body[r].wallet] = body[r].user
    /\ body[r].amount > 0
    /\ UNCHANGED <<balance, available, frozen, status, ledger, keys, body, seen, answer>>

\* The limit is compared with this one amount.
TransferReadReceiver(r) ==
    /\ Goto(r, "receiver", "commit")
    /\ body[r].to \notin frozen
    /\ body[r].to # body[r].wallet
    /\ body[r].amount <= DailyLimit[body[r].wallet]
    /\ UNCHANGED <<balance, available, frozen, status, ledger, keys, body, seen, answer>>

\* As Covered, on the balance, so that a hold is not respected.
CoveredByBalance(r) == balance[body[r].wallet] >= body[r].amount

Covered(r) == available[body[r].wallet] >= body[r].amount

\* f with the amount of r taken from its sender and given to its receiver.
Moved(f, r) ==
    [f EXCEPT ![body[r].wallet] = @ - body[r].amount, ![body[r].to] = @ + body[r].amount]

\* Both wallets are read again inside the transaction; only the available
\* balance is checked again.  One debit and one credit: they cancel out.
TransferCommit(r) ==
    /\ body[r].kind = "P2P_TRANSFER"
    /\ Covered(r)
    /\ balance' = Moved(balance, r)
    /\ available' = Moved(available, r)
    /\ moves' = Moved(moves, r)
    /\ status' = [status EXCEPT ![r] = "COMPLETED"]
    /\ Goto(r, "commit", IF body[r].key = None THEN "audit" ELSE "store")
    /\ UNCHANGED <<frozen, booked, holds, keys, body, seen, answer>>

\* A statement of its own, after the transaction.
TransferStoreKey(r) ==
    /\ Goto(r, "store", "audit")
    /\ ReserveKey(r)
    /\ UNCHANGED <<balance, available, frozen, status, ledger, body, seen, answer>>

-----------------------------------------------------------------------------
(* completeTransaction.                                                    *)

\* As MayComplete, open to every caller.
AnyoneMayComplete(r) == status[body[r].target] = "PENDING"

\* The row is read once, before the transaction.
MayComplete(r) ==
    /\ status[body[r].target] = "PENDING"
    /\ body[body[r].target].user = body[r].user

CompleteRead(r) ==
    /\ body[r].kind = "COMPLETE"
    /\ MayComplete(r)
    /\ Goto(r, "idle", "commit")
    /\ UNCHANGED <<balance, available, frozen, status, ledger, keys, body, seen, answer>>

\* "Transaction already processed": an answer, not an error.
AlreadyProcessed(r) ==
    /\ body[r].kind = "COMPLETE"
    /\ status[body[r].target] \notin {"NONE", "PENDING"}
    /\ AnswerWith(r, "idle", body[r].target)
    /\ UNCHANGED <<balance, available, frozen, status, ledger, keys, body, seen>>

\* f with the amount of transaction t added to the wallet it names.
Credited(f, t) == [f EXCEPT ![body[t].wallet] = @ + body[t].amount]

\* As Credit, on the balance alone.
CreditBalance(t) ==
    /\ balance' = Credited(balance, t)
    /\ UNCHANGED available

\* The wallet's two columns, credited with the settled deposit.
Credit(t) ==
    /\ balance' = Credited(balance, t)
    /\ available' = Credited(available, t)

\* As PostCredit, with an entry that lacks its walletId.
PostCreditNoWallet(t) ==
    /\ booked' = [booked EXCEPT ![t] = @ + body[t].amount]
    /\ UNCHANGED moves

\* The ledger entry that credits the user's wallet.
PostCredit(t) ==
    /\ booked' = [booked EXCEPT ![t] = @ + body[t].amount]
    /\ moves' = Credited(moves, t)

MarkCompleted(t) == status' = [status EXCEPT ![t] = "COMPLETED"]

\* The wallet is read afresh in the transaction; the status is not.
SettleDeposit(r) ==
    LET t == body[r].target IN
    /\ body[r].kind = "COMPLETE"
    /\ body[t].kind = "DEPOSIT"
    /\ Credit(t)
    /\ PostCredit(t)
    /\ MarkCompleted(t)
    /\ Goto(r, "commit", "audit")
    /\ UNCHANGED <<frozen, holds, keys, body, seen, answer>>

\* One more debit, of the provider; the wallet itself is not written.
SettleWithdrawal(r) ==
    LET t == body[r].target IN
    /\ body[r].kind = "COMPLETE"
    /\ body[t].kind = "WITHDRAWAL"
    /\ booked' = [booked EXCEPT ![t] = @ - body[t].amount]
    /\ MarkCompleted(t)
    /\ Goto(r, "commit", "audit")
    /\ UNCHANGED <<balance, available, frozen, holds, moves, keys, body, seen, answer>>

-----------------------------------------------------------------------------
(* The end of a call.                                                      *)

\* The audit log, where there is one, is written and the response is sent.
Respond(r) ==
    /\ AnswerWith(r, "audit", IF body[r].kind = "COMPLETE" THEN body[r].target ELSE r)
    /\ UNCHANGED <<balance, available, frozen, status, ledger, keys, body, seen>>

WalletNext ==
    \E r \in Requests :
        \/ DepositReadWallet(r) \/ WithdrawReadWallet(r)
        \/ NewKey(r) \/ ReplayResponse(r)
        \/ DepositCommit(r) \/ WithdrawCommit(r)
        \/ TransferReplay(r) \/ TransferNewKey(r)
        \/ TransferReadSender(r) \/ TransferReadReceiver(r)
        \/ TransferCommit(r) \/ TransferStoreKey(r)
        \/ CompleteRead(r) \/ AlreadyProcessed(r)
        \/ SettleDeposit(r) \/ SettleWithdrawal(r)
        \/ Respond(r) \/ Fail(r)
=============================================================================
