--------------------------- MODULE CardsInvariant ---------------------------
(***************************************************************************)
(* The inductive invariant behind the theorems of CardsProofs: what the    *)
(* rows and counters of a card hold between the statements of its calls,   *)
(* as long as every statement found its premise true and no call stopped   *)
(* between two of them.                                                    *)
(***************************************************************************)
EXTENDS BankingInvariant

PaymentKinds == {"CARD_AUTHORIZE", "CARD_CAPTURE", "CARD_REVERSE"}

\* No statement on c had lost its premise, and no call on c stopped half way.
Clean(c) ==
    /\ c \notin lapsed
    /\ \A r \in wrote : CardOf(r) = c => pc[r] # "failed"

\* The captures and refunds of payment t that have written their first row.
Captures(t) == {r \in wrote : body[r].kind = "CARD_CAPTURE" /\ body[r].target = t}
Refunds(t)  == {r \in wrote : body[r].kind = "CARD_REVERSE" /\ body[r].target = t}

\* The labels of a payment call that has written its first row and not failed.
Past(r) ==
    IF body[r].kind = "CARD_AUTHORIZE" THEN {"record", "counters", "answered"}
    ELSE IF body[r].kind = "CARD_CAPTURE" THEN {"transaction", "counters", "entries", "answered"}
    ELSE IF body[r].kind = "CARD_REVERSE" THEN {"record", "counters", "entries", "answered"}
    ELSE {}

\* Where a payment call is when it has, and when it has not, written its rows.
Writing ==
    \A r \in Requests :
        /\ pc[r] \in Past(r) => r \in wrote
        /\ r \in wrote => /\ body[r].kind \in PaymentKinds
                          /\ pc[r] \in Past(r) \cup {"failed"}
                          /\ body[r].kind \in AuthKinds => auth[body[r].target] # "NONE"
        /\ body[r].kind = "CARD_AUTHORIZE" =>
             /\ auth[r] # "NONE" => r \in wrote /\ pc[r] # "record"
             /\ pc[r] = "counters" => auth[r] # "NONE"

\* What an answered call has added to the ledger.
Entered(r) == IF pc[r] = "answered" THEN body[r].amount ELSE 0

\* One capture and one refund at most, and what they have written of t so far.
Story(t) ==
    /\ \A r, s \in Captures(t) : r = s
    /\ \A r, s \in Refunds(t) : r = s
    /\ pc[t] = "record" => txAmount[t] = body[t].amount
    /\ auth[t] \in {"NONE", "AUTHORIZED"} <=> Captures(t) = {}
    /\ auth[t] = "AUTHORIZED" =>
         authAmount[t] = body[t].amount /\ txAmount[t] = body[t].amount
    /\ auth[t] = "REVERSED" => Refunds(t) # {}
    /\ Captures(t) = {} =>
         /\ Refunds(t) = {} /\ charged[t] = 0
         /\ status[t] \in {"NONE", "PENDING", "REQUIRES_ACTION"}
    /\ \A r \in Captures(t) :
         /\ authAmount[t] = body[r].amount
         /\ pc[r] = "transaction" =>
              Refunds(t) = {} /\ status[t] \in {"PENDING", "REQUIRES_ACTION"}
         /\ pc[r] # "transaction" =>
              /\ status[t] \in {"COMPLETED", "REVERSED", "REQUIRES_ACTION"}
              /\ txAmount[t] = body[r].amount
         /\ Refunds(t) = {} => charged[t] = Entered(r)
         /\ \A s \in Refunds(t) :
              body[s].amount <= body[r].amount /\ charged[t] = Entered(r) - Entered(s)
    /\ \A s \in Refunds(t) :
         /\ status[t] \in {"REVERSED", "REQUIRES_ACTION"}
         /\ auth[t] = "REVERSED" <=> pc[s] # "record"

Stories ==
    \A t \in Requests :
        body[t].kind = "CARD_AUTHORIZE" /\ Clean(body[t].card) => Story(t)

\* The back office has found a payment completed only after its capture.
Reviewed ==
    \A r \in Requests :
        LET t == body[r].target IN
        /\ body[r].kind = "REVERSE" /\ pc[r] = "commit"
        /\ body[t].kind = "CARD_AUTHORIZE" /\ Clean(body[t].card)
        => \E s \in Captures(t) : pc[s] # "transaction"

-----------------------------------------------------------------------------
(* The counters.                                                           *)

\* The calls on c that have counted the total and not yet entered the ledger.
Pending(c) == {r \in wrote : CardOf(r) = c /\ pc[r] = "entries"}

\* What a call that is pending will enter.
Due == [r \in Requests |->
          IF body[r].kind = "CARD_CAPTURE" THEN body[r].amount ELSE 0 - body[r].amount]

\* The refunds of t that have been taken off the counters.
Returned(t) == {r \in Refunds(t) : pc[r] \in {"entries", "answered"}}

Amounts == [r \in Requests |-> body[r].amount]

\* What payment t has added to the day's counter so far.
Counted ==
    [t \in Requests |->
        (IF pc[t] = "answered" THEN body[t].amount ELSE 0)
          - SumFunctionOnSet(Amounts, Returned(t))]

TotalKept(c) == spentTotal[c] = SumFunctionOnSet(charged, PaymentsOf(c))
                                + SumFunctionOnSet(Due, Pending(c))
TodayKept(c) == spentToday[c] = SumFunctionOnSet(Counted, PaymentsOf(c))

CountersKept == \A c \in Cards : Clean(c) => TotalKept(c) /\ TodayKept(c)

\* Somebody has changed the limits of c.
Updated(c) ==
    \E r \in Requests :
        body[r].kind = "CARD_UPDATE" /\ body[r].card = c /\ pc[r] = "answered"

\* The day's counter is within the limit, and will be when r has written it.
DayKept ==
    /\ \A c \in Cards :
         /\ Clean(c) => Within(spentToday[c], 0, limits[c].daily) \/ Updated(c)
         /\ cardWallet[c] = None => spentToday[c] = 0
    /\ \A r \in Requests :
         body[r].kind = "CARD_AUTHORIZE" /\ pc[r] \in {"transaction", "record", "counters"}
         => \/ Within(sawToday[r], body[r].amount, limits[body[r].card].daily)
            \/ Updated(body[r].card)

CardInv == BankInv /\ Writing /\ Stories /\ Reviewed /\ CountersKept /\ DayKept
=============================================================================
