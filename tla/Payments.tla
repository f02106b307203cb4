------------------------------ MODULE Payments ------------------------------
(***************************************************************************)
(* The payment system: the customers' wallet operations (Wallet) and the   *)
(* back office (AdminFinance) on the same tables, and the properties that  *)
(* make it correct.                                                        *)
(***************************************************************************)
EXTENDS AdminFinance, FiniteSetsExt, Functions

\* Only finitely many calls are ever made: the sums below range over them.
ASSUME RequestsAssumption == IsFiniteSet(Requests)

allVars == <<vars, fraudFlags>>

PaymentsTypeOK ==
    /\ TypeOK
    /\ fraudFlags \in [Requests -> Nat]

PaymentsInit ==
    /\ Init
    /\ fraudFlags = [t \in Requests |-> 0]

PaymentsNext ==
    \/ WalletNext /\ UNCHANGED fraudFlags
    \/ AdminNext

Spec == PaymentsInit /\ [][PaymentsNext]_allVars

-----------------------------------------------------------------------------
(* Vocabulary.                                                             *)

\* The transaction row of request r exists.
Exists(r) == status[r] # "NONE"

\* Some withdrawal from w was initiated.
WithdrawnFrom(w) ==
    \E r \in Requests :
        Exists(r) /\ body[r].kind = "WITHDRAWAL" /\ body[r].wallet = w

\* What transfer t brings to w, or takes from it.
Transferred(w, t) ==
    (IF body[t].to = w THEN body[t].amount ELSE 0)
    - (IF body[t].wallet = w THEN body[t].amount ELSE 0)

\* What each transaction owes wallet w by its status: a completed deposit its
\* amount, also after it was marked as reversed, and a transfer its two legs.
Owing(w) ==
    [t \in Requests |->
        IF body[t].kind = "DEPOSIT" /\ body[t].wallet = w
           /\ status[t] \in {"COMPLETED", "REVERSED"}
        THEN body[t].amount
        ELSE IF body[t].kind = "P2P_TRANSFER" /\ Exists(t) THEN Transferred(w, t) ELSE 0]

-----------------------------------------------------------------------------
(* Invariants.                                                             *)

\* An idempotency key initiates at most one deposit or withdrawal, however
\* many calls race with it, fail half way or are retried: the key is reserved
\* in the transaction that creates the row (initiateDeposit, initiateWithdraw).
KeyedOnce ==
    \A r, s \in Requests :
        /\ Initiates(r) /\ Initiates(s)
        /\ Exists(r) /\ Exists(s)
        /\ body[r].key = body[s].key
        /\ body[r].key # None
        => r = s

\* A response names a transaction that exists.  If it is another call's, that
\* call came from the same user with the same key, and a deposit or withdrawal
\* is answered by a call on the same wallet for the same amount.
ReplayFaithful ==
    \A r \in Requests : answer[r] # None =>
        LET t == answer[r] IN
        /\ Exists(t)
        /\ body[r].kind # "COMPLETE" => body[t].user = body[r].user
        /\ body[r].kind # "COMPLETE" /\ t # r =>
               /\ body[t].key = body[r].key
               /\ body[r].key # None
        /\ Initiates(r) => RequestHash(t) = RequestHash(r)

\* Two calls with the same key that initiate a deposit or a withdrawal, and are
\* both answered, are answered with the same transaction.
AnswersAgree ==
    \A r, s \in Requests :
        /\ Initiates(r) /\ Initiates(s)
        /\ body[r].key = body[s].key
        /\ body[r].key # None
        /\ answer[r] # None /\ answer[s] # None
        => answer[r] = answer[s]

\* The balance of a wallet is what it held plus the movements its ledger
\* entries record: no interleaving of transfers and settlements loses one.
\* (Holds are booked on the wallet too, but never change its balance.)
Reconciled == \A w \in Wallets : balance[w] = Opening[w] + moves[w]

\* The available balance of a wallet is never negative, although a withdrawal
\* writes a value computed from a stale read.
NoOverdraft == \A w \in Wallets : available[w] >= 0

\* On a wallet from which no withdrawal was ever initiated all of the balance
\* is available: transfers and settlements never leave the two apart.
HoldFree == \A w \in Wallets : ~ WithdrawnFrom(w) => available[w] = balance[w]

\* The statuses are backed by the wallets and the books, also when calls race
\* and the back office acts on a status it read before it changed: no wallet
\* holds less than what its completed and reversed deposits and its transfers
\* come to, the entries of a PENDING transaction sum to zero, and one under
\* review carries a fraud flag.  (Two completions of a deposit credit more.)
StatusBacked ==
    /\ \A w \in Wallets : balance[w] >= Opening[w] + SumFunctionOnSet(Owing(w), Requests)
    /\ \A t \in Requests :
         /\ status[t] \in {"NONE", "PENDING"} => booked[t] = 0
         /\ status[t] = "REQUIRES_ACTION" => fraudFlags[t] > 0

\* A balance falls only in the transaction of a transfer that the wallet's own
\* owner asked for, and by no more than what was available.
DebitsAreOwners ==
    [][\A w \in Wallets : balance'[w] < balance[w] =>
         /\ \E r \in Requests :
              /\ status[r] = "NONE" /\ status'[r] = "COMPLETED"
              /\ body[r].wallet = w
              /\ body[r].user = Owner[w]
         /\ balance[w] - balance'[w] <= available[w]]_allVars

\* A deposit or a withdrawal is settled only for the user who initiated it.
SettledByOwner ==
    [][\A t \in Requests : booked'[t] # booked[t] =>
         \E r \in Requests :
            /\ body[r].kind = "COMPLETE" /\ body[r].target = t
            /\ body[r].user = body[t].user
            /\ pc[r] = "commit" /\ pc'[r] # "commit"]_allVars

-----------------------------------------------------------------------------
(* Deposits and withdrawals keep the promise of IdempotentApi.  A transfer *)
(* only takes its key, after its effect: the promise does not cover it.    *)

Promise == INSTANCE IdempotentApi WITH
    Calls <- Requests,
    ask   <- [r \in Requests |-> body[r].key],
    done  <- {r \in Requests : Initiates(r) /\ Exists(r)},
    bound <- keys,
    reply <- [r \in Requests |-> IF Initiates(r) THEN answer[r] ELSE None]

\* Every behaviour of the payment system is one of IdempotentApi: the key, the
\* row and the stored response of a deposit or withdrawal appear in one step,
\* and every answer comes from that step (initiateDeposit, initiateWithdraw).
KeepsPromise == Promise!Spec
=============================================================================
