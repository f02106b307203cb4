------------------------------ MODULE Banking ------------------------------
(***************************************************************************)
(* The whole of the money: payments (Wallet, AdminFinance), savings and     *)
(* cards on the same wallets, transactions and idempotency keys.           *)
(***************************************************************************)
EXTENDS Payments, Savings, VirtualCard

bankVars == <<allVars, vaultVars, cardVars>>

BankingInit == PaymentsInit /\ SavingsInit /\ CardInit

BankingNext ==
    \/ PaymentsNext /\ UNCHANGED <<vaultVars, cardVars>>
    \/ SavingsNext /\ UNCHANGED <<fraudFlags, cardVars>>
    \/ CardNext /\ UNCHANGED <<fraudFlags, vaultVars>>

BankingSpec == BankingInit /\ [][BankingNext]_bankVars

-----------------------------------------------------------------------------
(* Properties.                                                             *)

\* The calls whose key is reserved in the transaction that has their effect.
Keyed(r) == Initiates(r) \/ MovesVault(r)

\* A call on a vault is answered with a move of the same user on the same vault
\* for the same amount, one on a wallet with a call on the same wallet for the
\* same amount; both exist.
ReplayFaithfulBank ==
    \A r \in Requests : answer[r] # None =>
        /\ Exists(answer[r])
        /\ Initiates(r) => Initiates(answer[r]) /\ RequestHash(answer[r]) = RequestHash(r)
        /\ MovesVault(r) => MovesVault(answer[r]) /\ VaultHash(answer[r]) = VaultHash(r)

\* The card payments that were authorised on card c.
PaymentsOf(c) ==
    {t \in Requests : /\ body[t].kind = "CARD_AUTHORIZE" /\ body[t].card = c
                      /\ auth[t] # "NONE"}

\* The payments with the cards of wallet w.
PaymentsFrom(w) == UNION {PaymentsOf(c) : c \in {d \in Cards : cardWallet[d] = w}}

\* What was booked on w for cards; the balance is never reduced by it.
CardCharges(w) == SumFunctionOnSet(charged, PaymentsFrom(w))

\* A wallet or vault differs from the ledger entries of its own type and
\* accountKey only by the card payments booked on it, or if a vault move
\* overwrote it from a read that was no longer true:
\* moves that do not overlap with another writer of the row lose nothing, and
\* no other operation ever does.
LostOnlyToStaleReads ==
    /\ \A w \in Wallets \ stale : balance[w] = Opening[w] + moves[w] + CardCharges(w)
    /\ \A v \in Vaults \ stale : current[v] = OpeningVault[v] + vaultMoves[v]

\* Neither the available balance of a wallet nor the amount of a vault is ever
\* negative, although both are written from stale reads.
NothingOverdrawn == NoOverdraft /\ \A v \in Vaults : current[v] >= 0

-----------------------------------------------------------------------------
(* Properties of the cards.  The statements of a card call are not one     *)
(* transaction, so they are stated of the cards nothing has disturbed.     *)

\* No call on c has stopped or waits between two writes, and none has written
\* on a premise that another call had taken away.
Undisturbed(c) ==
    /\ c \notin lapsed
    /\ \A r \in wrote : CardOf(r) = c => pc[r] = "answered"

\* What a payment still takes of the day: the amount first authorised less
\* what was refunded (a partial capture frees nothing).
Taken(t) == body[t].amount - IF auth[t] = "REVERSED" THEN authAmount[t] - charged[t] ELSE 0

TakenOf(c) == SumFunctionOnSet([t \in Requests |-> Taken(t)], PaymentsOf(c))

\* The total spent on a card is what the ledger has booked for its payments,
\* what is spent today is what they take of the day, through partial captures
\* and refunds; and as long as nobody updates the limits it never exceeds the
\* daily one: an authorisation that another one overlaps is the only way past
\* it (authorizeTransaction, captureTransaction, reverseTransaction).
CountersBooked ==
    \A c \in Cards : Undisturbed(c) =>
        /\ spentTotal[c] = SumFunctionOnSet(charged, PaymentsOf(c))
        /\ spentToday[c] = TakenOf(c)
        /\ \/ limits[c].daily = None
           \/ TakenOf(c) <= limits[c].daily
           \/ \E r \in Requests : /\ body[r].kind = "CARD_UPDATE" /\ body[r].card = c
                                  /\ pc[r] = "answered"

\* Authorisation, transaction and ledger tell the same story of a payment: an
\* open one is not charged, a captured one is charged the amount both rows
\* hold, a reversed one no more; only the back office sets a status besides.
CardRowsAgree ==
    \A c \in Cards : Undisturbed(c) => \A t \in PaymentsOf(c) :
        /\ auth[t] = "AUTHORIZED" =>
             charged[t] = 0 /\ status[t] \in {"PENDING", "REQUIRES_ACTION"}
        /\ auth[t] = "CAPTURED" =>
             /\ charged[t] = authAmount[t]
             /\ status[t] \in {"COMPLETED", "REVERSED", "REQUIRES_ACTION"}
        /\ auth[t] = "REVERSED" =>
             charged[t] \in 0..authAmount[t] /\ status[t] \in {"REVERSED", "REQUIRES_ACTION"}
        /\ authAmount[t] = txAmount[t]

-----------------------------------------------------------------------------
(* Keys keep their promise over all endpoints.                             *)

BankPromise == INSTANCE IdempotentApi WITH
    Calls <- Requests,
    ask   <- [r \in Requests |-> body[r].key],
    done  <- {r \in Requests : Keyed(r) /\ Exists(r)},
    bound <- keys,
    reply <- [r \in Requests |-> IF Keyed(r) THEN answer[r] ELSE None]

\* Deposits, withdrawals and vault moves are one atomic effect with their key,
\* and every answer of such a call is that effect (IdempotentApi).
BankKeepsPromise == BankPromise!Spec
=============================================================================
