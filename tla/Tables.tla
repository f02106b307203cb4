------------------------------- MODULE Tables -------------------------------
(***************************************************************************)
(* The tables the money operations share, the calls that work on them, and *)
(* what the handlers of all services do alike.                             *)
(*                                                                         *)
(* A request is one HTTP call.  It runs from its first read to its answer  *)
(* in several steps, because Node serves other calls at every await.  What *)
(* a call does inside PrismaService.runInTransaction is ONE step: the      *)
(* transaction is SERIALIZABLE, so it takes effect at once or not at all.  *)
(* What the call read before that step (seen) may be stale by then.        *)
(*                                                                         *)
(* A request creates at most one Transaction row, so the row is named by   *)
(* the request that created it: status[r], booked[r] and keys[k] = r are   *)
(* about "the transaction of request r".                                   *)
(***************************************************************************)
EXTENDS Integers

CONSTANTS
    Users, Wallets, Vaults, Cards, Keys, Requests,
    None,            \* no key, wallet, vault, card, request or limit
    Owner,           \* the user each wallet belongs to
    Opening,         \* the balance of each wallet when the model starts
    DailyLimit,      \* the outbound limit of each wallet
    Primary,         \* the wallets with isPrimary set
    Bodies           \* what the clients of a run may ask for

WalletKinds == {"DEPOSIT", "WITHDRAWAL", "P2P_TRANSFER", "COMPLETE"}
AdminKinds  == {"FREEZE", "UNFREEZE", "REVERSE", "FLAG"}
VaultKinds  == {"VAULT_CREATE", "VAULT_UPDATE", "VAULT_LOCK", "VAULT_UNLOCK",
                "VAULT_CONTRIBUTION", "VAULT_WITHDRAWAL"}
CardKinds   == {"CARD_CREATE", "CARD_UPDATE", "CARD_FREEZE", "CARD_UNFREEZE",
                "CARD_AUTHORIZE", "CARD_ADMIN_FREEZE", "CARD_ADMIN_UNFREEZE"}
AuthKinds   == {"CARD_CAPTURE", "CARD_REVERSE"}

\* The limits of a card; None where there is none, or where an update sets none.
Limits   == [daily : Nat \cup {None}, total : Nat \cup {None}]
NoLimits == [daily |-> None, total |-> None]

\* The content of a call; a field the kind does not use is None (amount: 0).
BodyType ==
    [kind   : WalletKinds \cup AdminKinds \cup VaultKinds \cup CardKinds \cup AuthKinds,
     user   : Users,
     wallet : Wallets \cup {None},      \* the wallet named, or the sender's
     to     : Wallets \cup {None},      \* the receiver's wallet (P2P)
     vault  : Vaults \cup {None},
     card   : Cards \cup {None},
     limits : Limits,
     amount : Nat,
     key    : Keys \cup {None},         \* the caller's idempotency key
     target : Requests \cup {None}]     \* the transaction to complete, flag...

\* Which fields a body of each kind carries (the DTO validation).
WellFormed(b) ==
    /\ b.kind \in {"DEPOSIT", "WITHDRAWAL", "P2P_TRANSFER", "FREEZE", "UNFREEZE",
                  "VAULT_CREATE", "VAULT_UPDATE", "CARD_CREATE"}
         => b.wallet \in Wallets
    /\ b.kind \in VaultKinds => b.vault \in Vaults
    /\ b.kind \in CardKinds => b.card \in Cards
    /\ b.kind = "P2P_TRANSFER" => b.to \in Wallets
    /\ b.kind \in {"COMPLETE", "REVERSE", "FLAG"} \cup AuthKinds => b.target \in Requests

ASSUME ConstantsAssumption ==
    /\ None \notin Wallets \cup Vaults \cup Cards \cup Keys \cup Requests
    /\ Owner \in [Wallets -> Users]
    /\ Opening \in [Wallets -> Nat]
    /\ DailyLimit \in [Wallets -> Nat]
    /\ Primary \subseteq Wallets
    /\ Bodies \subseteq BodyType
    /\ \A b \in Bodies : WellFormed(b)

VARIABLES
    balance,     \* Wallet.balance
    available,   \* Wallet.availableBalance
    frozen,      \* the wallets whose status is FROZEN
    status,      \* Transaction.status, NONE before the row exists
    booked,      \* per transaction: its LedgerEntry rows, credits minus debits
    holds,       \* per wallet: its USER_WALLET entries that record a hold
    moves,       \* per wallet: its USER_WALLET entries that record a movement
    keys,        \* the IdempotencyKey rows, by the request that wrote them
    body,        \* per request: what it asks
    pc,          \* per request: the await it has reached
    seen,        \* per request: the availableBalance it read
    answer       \* per request: the transaction its response names

ledger == <<booked, holds, moves>>
calls  == <<pc, seen, answer>>
vars   == <<balance, available, frozen, status, ledger, keys, body, calls>>

Statuses == {"NONE", "PENDING", "COMPLETED", "REVERSED", "REQUIRES_ACTION"}
Labels   == {"idle", "key", "sender", "receiver", "wallet", "commit", "store",
             "transaction", "record", "counters", "entries",
             "audit", "answered", "failed"}

TypeOK ==
    /\ balance \in [Wallets -> Int]
    /\ available \in [Wallets -> Int]
    /\ frozen \subseteq Wallets
    /\ status \in [Requests -> Statuses]
    /\ booked \in [Requests -> Int]
    /\ holds \in [Wallets -> Int]
    /\ moves \in [Wallets -> Int]
    /\ keys \in [Keys -> Requests \cup {None}]
    /\ body \in [Requests -> Bodies]
    /\ pc \in [Requests -> Labels]
    /\ seen \in [Requests -> Int]
    /\ answer \in [Requests -> Requests \cup {None}]

Init ==
    /\ balance = Opening
    /\ available = Opening
    /\ frozen = {}
    /\ status = [r \in Requests |-> "NONE"]
    /\ booked = [r \in Requests |-> 0]
    /\ holds = [w \in Wallets |-> 0]
    /\ moves = [w \in Wallets |-> 0]
    /\ keys = [k \in Keys |-> None]
    /\ body \in [Requests -> Bodies]
    /\ pc = [r \in Requests |-> "idle"]
    /\ seen = [r \in Requests |-> 0]
    /\ answer = [r \in Requests |-> None]

-----------------------------------------------------------------------------
(* The parts the handlers share.                                           *)

\* Request r, at label here, goes on to label next.
Goto(r, here, next) ==
    /\ pc[r] = here
    /\ pc' = [pc EXCEPT ![r] = next]

\* The call returns a response that names transaction t.
AnswerWith(r, here, t) ==
    /\ Goto(r, here, "answered")
    /\ answer' = [answer EXCEPT ![r] = t]

\* The record a key carries when the call looks it up.
Recorded(r) == IF body[r].key = None THEN None ELSE keys[body[r].key]

\* As ReserveKey, with an upsert in place of create.
ReserveKeyUpsert(r) ==
    IF body[r].key = None
    THEN UNCHANGED keys
    ELSE keys' = [keys EXCEPT ![body[r].key] = r]

\* idempotencyKey.create: the unique column refuses a key already recorded.
ReserveKey(r) ==
    IF body[r].key = None
    THEN UNCHANGED keys
    ELSE /\ keys[body[r].key] = None
         /\ keys' = [keys EXCEPT ![body[r].key] = r]

\* The call ends in an error or never ends: a check refuses it (the PIN
\* included), a unique column or the serializable isolation aborts its
\* transaction, a statement fails, or the process stops.  What the call
\* committed before stays.
Fail(r) ==
    /\ pc[r] \notin {"answered", "failed"}
    /\ pc' = [pc EXCEPT ![r] = "failed"]
    /\ UNCHANGED <<balance, available, frozen, status, ledger, keys, body, seen, answer>>
=============================================================================
