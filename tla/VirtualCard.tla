---------------------------- MODULE VirtualCard ----------------------------
(***************************************************************************)
(* VirtualCardService: cards with a daily and a total limit, and the life  *)
(* of a card payment: authorised, captured, reversed.  Unlike the wallets' *)
(* and the vaults' operations, each of these writes its rows one statement *)
(* after the other, outside a transaction, and from what it read first.    *)
(*                                                                         *)
(* The card of an authorisation is that of the call that made it.  A       *)
(* capture or reversal without an amount takes the whole amount it reads:  *)
(* the same call with that amount is one of the calls modelled.            *)
(***************************************************************************)
EXTENDS Tables

CONSTANTS
    Cardholder,      \* the user each card belongs to
    OpeningCard,     \* the wallet of each card that exists when the model starts
    OpeningLimits    \* the limits of each card when the model starts

ASSUME CardsAssumption ==
    /\ Cardholder \in [Cards -> Users]
    /\ OpeningCard \in [Cards -> Wallets \cup {None}]
    /\ OpeningLimits \in [Cards -> Limits]

VARIABLES
    cardWallet,   \* VirtualCard.walletId, None before the card is created
    cardFrozen,   \* the cards whose status is FROZEN; EXPIRED is never set
    limits,       \* VirtualCard.dailyLimit and spendingLimit
    spentToday, spentTotal,
    auth,         \* per authorisation: CardTransaction.authStatus
    authAmount,   \* per authorisation: CardTransaction.amount
    txAmount,     \* per authorisation: Transaction.amount
    charged,      \* per authorisation: its USER_WALLET entries, debits minus credits
    sawToday,     \* per call: the spentToday it read
    sawTotal,     \* per call: the spentTotal it read
    wrote,        \* the payment calls that have written a row (ghost)
    lapsed        \* the cards with a write whose premise was gone (ghost)

cardRows  == <<cardWallet, cardFrozen, limits>>
counters  == <<spentToday, spentTotal>>
authRows  == <<auth, authAmount, txAmount>>
cardSaw   == <<sawToday, sawTotal>>
cardVars  == <<cardRows, counters, authRows, charged, cardSaw, wrote, lapsed>>
otherRows == <<balance, available, frozen, booked, holds, keys, body, seen>>

AuthStatuses == {"NONE", "AUTHORIZED", "CAPTURED", "REVERSED"}

CardInit ==
    /\ cardWallet = OpeningCard
    /\ cardFrozen = {}
    /\ limits = OpeningLimits
    /\ spentToday = [c \in Cards |-> 0]
    /\ spentTotal = [c \in Cards |-> 0]
    /\ auth = [r \in Requests |-> "NONE"]
    /\ authAmount = [r \in Requests |-> 0]
    /\ txAmount = [r \in Requests |-> 0]
    /\ charged = [r \in Requests |-> 0]
    /\ sawToday = [r \in Requests |-> 0]
    /\ sawTotal = [r \in Requests |-> 0]
    /\ wrote = {}
    /\ lapsed = {}

-----------------------------------------------------------------------------
(* The card's own row.                                                     *)

OwnCard(r) ==
    /\ cardWallet[body[r].card] # None
    /\ Cardholder[body[r].card] = body[r].user

\* Request r goes from here to next and writes at most the card's own row.
CardCall(r, kind, here, next) ==
    /\ body[r].kind = kind
    /\ Goto(r, here, next)
    /\ UNCHANGED <<otherRows, moves, status, answer>>
    /\ UNCHANGED <<counters, authRows, charged, cardSaw, wrote, lapsed>>

\* The walletId the card is created with.
ChargedWallet(r) == body[r].wallet

\* The id of the row is fresh, and the wallet must be the caller's.
CreateVirtualCard(r) ==
    /\ CardCall(r, "CARD_CREATE", "idle", "answered")
    /\ cardWallet[body[r].card] = None
    /\ Cardholder[body[r].card] = body[r].user
    /\ Owner[body[r].wallet] = body[r].user
    /\ cardWallet' = [cardWallet EXCEPT ![body[r].card] = ChargedWallet(r)]
    /\ limits' = [limits EXCEPT ![body[r].card] = body[r].limits]
    /\ UNCHANGED cardFrozen

\* A limit that is given replaces the card's, whatever is already spent.
UpdateVirtualCard(r) ==
    LET given(new, old) == IF new = None THEN old ELSE new IN
    /\ CardCall(r, "CARD_UPDATE", "idle", "answered")
    /\ OwnCard(r)
    /\ limits' = [limits EXCEPT
          ![body[r].card] = [daily |-> given(body[r].limits.daily, @.daily),
                             total |-> given(body[r].limits.total, @.total)]]
    /\ UNCHANGED <<cardWallet, cardFrozen>>

\* The customer freezes and unfreezes without a look at the status, and so
\* lifts a freeze of the back office too.
FreezeVirtualCard(r) ==
    /\ CardCall(r, "CARD_FREEZE", "idle", "answered")
    /\ OwnCard(r)
    /\ cardFrozen' = cardFrozen \cup {body[r].card}
    /\ UNCHANGED <<cardWallet, limits>>

UnfreezeVirtualCard(r) ==
    /\ CardCall(r, "CARD_UNFREEZE", "idle", "answered")
    /\ OwnCard(r)
    /\ cardFrozen' = cardFrozen \ {body[r].card}
    /\ UNCHANGED <<cardWallet, limits>>

\* The back office (AdminFinanceService) reads the status, then writes it.
AdminFreezeCardRead(r) ==
    /\ CardCall(r, "CARD_ADMIN_FREEZE", "idle", "commit")
    /\ cardWallet[body[r].card] # None
    /\ body[r].card \notin cardFrozen
    /\ UNCHANGED cardRows

AdminFreezeCardWrite(r) ==
    /\ CardCall(r, "CARD_ADMIN_FREEZE", "commit", "answered")
    /\ cardFrozen' = cardFrozen \cup {body[r].card}
    /\ UNCHANGED <<cardWallet, limits>>

AdminUnfreezeCardRead(r) ==
    /\ CardCall(r, "CARD_ADMIN_UNFREEZE", "idle", "commit")
    /\ body[r].card \in cardFrozen
    /\ UNCHANGED cardRows

AdminUnfreezeCardWrite(r) ==
    /\ CardCall(r, "CARD_ADMIN_UNFREEZE", "commit", "answered")
    /\ cardFrozen' = cardFrozen \ {body[r].card}
    /\ UNCHANGED <<cardWallet, limits>>

-----------------------------------------------------------------------------
(* The steps of a payment.                                                 *)

\* The card a payment call is about.
CardOf(r) ==
    IF body[r].kind = "CARD_AUTHORIZE" THEN body[r].card ELSE body[body[r].target].card

\* The call has passed its checks and remembers the card's counters.
Begin(r, kind, next) ==
    /\ body[r].kind = kind
    /\ CardOf(r) \in Cards
    /\ Cardholder[CardOf(r)] = body[r].user
    /\ sawToday' = [sawToday EXCEPT ![r] = spentToday[CardOf(r)]]
    /\ sawTotal' = [sawTotal EXCEPT ![r] = spentTotal[CardOf(r)]]
    /\ Goto(r, "idle", next)
    /\ UNCHANGED <<otherRows, moves, status, answer>>
    /\ UNCHANGED <<cardRows, counters, authRows, charged, wrote, lapsed>>

\* One statement of the call; whether its premise still holds is remembered.
Statement(r, kind, here, premise) ==
    /\ body[r].kind = kind
    /\ pc[r] = here
    /\ wrote' = wrote \cup {r}
    /\ lapsed' = IF premise THEN lapsed ELSE lapsed \cup {CardOf(r)}
    /\ UNCHANGED <<otherRows, cardRows, cardSaw>>

SameToday(r) == spentToday[CardOf(r)] = sawToday[r]
SameTotal(r) == spentTotal[CardOf(r)] = sawTotal[r]

\* The call's ledger entries, its last statement: they cancel out, and the
\* wallet's is what the card is charged.  The wallet's own row is not written.
Charge(r, t, amount) ==
    /\ charged' = [charged EXCEPT ![t] = @ + amount]
    /\ moves' = [moves EXCEPT ![cardWallet[CardOf(r)]] = @ - amount]
    /\ AnswerWith(r, "entries", t)
    /\ UNCHANGED <<status, counters, authRows>>

-----------------------------------------------------------------------------
(* authorizeTransaction: card and limits are read; the row of the payment, *)
(* the authorisation and the day's counter are written.                    *)

Within(spent, amount, limit) == limit = None \/ spent + amount <= limit

AuthorizeRead(r) ==
    LET c == body[r].card IN
    /\ Begin(r, "CARD_AUTHORIZE", "transaction")
    /\ cardWallet[c] # None
    /\ c \notin cardFrozen
    /\ Within(spentToday[c], body[r].amount, limits[c].daily)
    /\ Within(spentTotal[c], body[r].amount, limits[c].total)

AuthorizeTransaction(r) ==
    /\ Statement(r, "CARD_AUTHORIZE", "transaction", TRUE)
    /\ Goto(r, "transaction", "record")
    /\ status' = [status EXCEPT ![r] = "PENDING"]
    /\ txAmount' = [txAmount EXCEPT ![r] = body[r].amount]
    /\ UNCHANGED <<moves, answer, counters, auth, authAmount, charged>>

AuthorizeRecord(r) ==
    /\ Statement(r, "CARD_AUTHORIZE", "record", TRUE)
    /\ Goto(r, "record", "counters")
    /\ auth' = [auth EXCEPT ![r] = "AUTHORIZED"]
    /\ authAmount' = [authAmount EXCEPT ![r] = body[r].amount]
    /\ UNCHANGED <<moves, status, answer, counters, txAmount, charged>>

\* The total waits for the capture.
AuthorizeSpends(r) ==
    /\ spentToday' = [spentToday EXCEPT ![body[r].card] = sawToday[r] + body[r].amount]
    /\ UNCHANGED spentTotal

AuthorizeCounters(r) ==
    /\ Statement(r, "CARD_AUTHORIZE", "counters", SameToday(r))
    /\ AuthorizeSpends(r)
    /\ AnswerWith(r, "counters", r)
    /\ UNCHANGED <<moves, status, authRows, charged>>

-----------------------------------------------------------------------------
(* captureTransaction.                                                     *)

\* The amount is checked against the one authorised.
Capturable(r) ==
    /\ auth[body[r].target] = "AUTHORIZED"
    /\ body[r].amount <= authAmount[body[r].target]

CaptureRead(r) ==
    /\ Begin(r, "CARD_CAPTURE", "record")
    /\ Capturable(r)

CaptureRecord(r) ==
    LET t == body[r].target IN
    /\ Statement(r, "CARD_CAPTURE", "record", Capturable(r))
    /\ Goto(r, "record", "transaction")
    /\ auth' = [auth EXCEPT ![t] = "CAPTURED"]
    /\ authAmount' = [authAmount EXCEPT ![t] = body[r].amount]
    /\ UNCHANGED <<moves, status, answer, counters, txAmount, charged>>

\* As CapturedAmount, with the amount first authorised.
AuthorizedAmount(r) == txAmount[body[r].target]

CapturedAmount(r) == body[r].amount

\* Whatever the status was: a review (REQUIRES_ACTION) ends here too.
CaptureTransaction(r) ==
    LET t == body[r].target IN
    /\ Statement(r, "CARD_CAPTURE", "transaction", TRUE)
    /\ Goto(r, "transaction", "counters")
    /\ status' = [status EXCEPT ![t] = "COMPLETED"]
    /\ txAmount' = [txAmount EXCEPT ![t] = CapturedAmount(r)]
    /\ UNCHANGED <<moves, answer, counters, auth, authAmount, charged>>

\* As CaptureSpends, counting the day's spending again.
CaptureSpendsToday(r) ==
    /\ spentToday' = [spentToday EXCEPT ![CardOf(r)] = sawToday[r] + body[r].amount]
    /\ spentTotal' = [spentTotal EXCEPT ![CardOf(r)] = sawTotal[r] + body[r].amount]

\* The day's counter already holds the amount authorised.
CaptureSpends(r) ==
    /\ spentTotal' = [spentTotal EXCEPT ![CardOf(r)] = sawTotal[r] + body[r].amount]
    /\ UNCHANGED spentToday

CaptureCounters(r) ==
    /\ Statement(r, "CARD_CAPTURE", "counters", SameTotal(r))
    /\ CaptureSpends(r)
    /\ Goto(r, "counters", "entries")
    /\ UNCHANGED <<moves, status, answer, authRows, charged>>

CaptureEntries(r) ==
    /\ Statement(r, "CARD_CAPTURE", "entries", TRUE)
    /\ Charge(r, body[r].target, body[r].amount)

-----------------------------------------------------------------------------
(* reverseTransaction of VirtualCardService.                               *)

\* As Refundable, also while the payment is only authorised.
RefundableEarly(r) ==
    /\ status[body[r].target] \in {"PENDING", "COMPLETED"}
    /\ body[r].amount <= txAmount[body[r].target]

Refundable(r) ==
    /\ status[body[r].target] = "COMPLETED"
    /\ body[r].amount <= txAmount[body[r].target]

RefundRead(r) ==
    /\ Begin(r, "CARD_REVERSE", "transaction")
    /\ auth[body[r].target] # "NONE"
    /\ Refundable(r)

RefundTransaction(r) ==
    LET t == body[r].target IN
    /\ Statement(r, "CARD_REVERSE", "transaction", Refundable(r))
    /\ Goto(r, "transaction", "record")
    /\ status' = [status EXCEPT ![t] = "REVERSED"]
    /\ UNCHANGED <<moves, answer, counters, authRows, charged>>

RefundRecord(r) ==
    /\ Statement(r, "CARD_REVERSE", "record", TRUE)
    /\ Goto(r, "record", "counters")
    /\ auth' = [auth EXCEPT ![body[r].target] = "REVERSED"]
    /\ UNCHANGED <<moves, status, answer, counters, authAmount, txAmount, charged>>

RefundCounters(r) ==
    /\ Statement(r, "CARD_REVERSE", "counters", SameToday(r) /\ SameTotal(r))
    /\ spentTotal' = [spentTotal EXCEPT ![CardOf(r)] = sawTotal[r] - body[r].amount]
    /\ spentToday' = [spentToday EXCEPT ![CardOf(r)] = sawToday[r] - body[r].amount]
    /\ Goto(r, "counters", "entries")
    /\ UNCHANGED <<moves, status, answer, authRows, charged>>

RefundEntries(r) ==
    /\ Statement(r, "CARD_REVERSE", "entries", TRUE)
    /\ Charge(r, body[r].target, 0 - body[r].amount)

CardNext ==
    \E r \in Requests :
        \/ CreateVirtualCard(r) \/ UpdateVirtualCard(r)
        \/ FreezeVirtualCard(r) \/ UnfreezeVirtualCard(r)
        \/ AdminFreezeCardRead(r) \/ AdminFreezeCardWrite(r)
        \/ AdminUnfreezeCardRead(r) \/ AdminUnfreezeCardWrite(r)
        \/ AuthorizeRead(r) \/ AuthorizeTransaction(r)
        \/ AuthorizeRecord(r) \/ AuthorizeCounters(r)
        \/ CaptureRead(r) \/ CaptureRecord(r) \/ CaptureTransaction(r)
        \/ CaptureCounters(r) \/ CaptureEntries(r)
        \/ RefundRead(r) \/ RefundTransaction(r) \/ RefundRecord(r)
        \/ RefundCounters(r) \/ RefundEntries(r)
=============================================================================
