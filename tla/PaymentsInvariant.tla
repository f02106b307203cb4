-------------------------- MODULE PaymentsInvariant --------------------------
(***************************************************************************)
(* The inductive invariant behind the theorems of PaymentsProofs: what is  *)
(* known of a call at each await, of the rows it created and of its keys.  *)
(***************************************************************************)
EXTENDS Payments

\* The calls that create a transaction.
Creates(r) == Initiates(r) \/ body[r].kind = "P2P_TRANSFER"

\* A transaction row exists exactly from its call's commit on.
Rows ==
    \A r \in Requests :
        /\ Exists(r) => Creates(r) /\ pc[r] \in {"store", "audit", "answered", "failed"}
        /\ Creates(r) /\ pc[r] \in {"store", "audit"} => Exists(r)
        /\ status[r] = "PENDING" => Initiates(r)

\* A key record names a transaction with that key; a deposit or withdrawal
\* with a key is the one its key names.
KeyRecords ==
    /\ \A k \in Keys : keys[k] # None => Exists(keys[k]) /\ body[keys[k]].key = k
    /\ \A r \in Requests :
         Initiates(r) /\ Exists(r) /\ body[r].key # None => keys[body[r].key] = r

\* What the handler has established at the label it has reached.
Passed ==
    \A r \in Requests :
        /\ pc[r] = "key" => Initiates(r)
        /\ pc[r] = "audit" => Creates(r) \/ body[r].kind = "COMPLETE"
        /\ pc[r] \in {"sender", "receiver", "store"} => body[r].kind = "P2P_TRANSFER"
        /\ body[r].kind = "P2P_TRANSFER" /\ pc[r] \in {"receiver", "commit"}
             => Owner[body[r].wallet] = body[r].user
        /\ body[r].kind = "P2P_TRANSFER" /\ pc[r] = "commit" => body[r].to # body[r].wallet
        /\ body[r].kind = "P2P_TRANSFER" /\ pc[r] = "store" => body[r].key # None
        /\ body[r].kind = "WITHDRAWAL" /\ pc[r] \in {"key", "commit"}
             => seen[r] >= body[r].amount

\* The money of a deposit was credited, or of a withdrawal paid out, at least
\* once; a transfer settles when it is created.
Settled(t) ==
    CASE body[t].kind = "DEPOSIT"    -> booked[t] >= body[t].amount
      [] body[t].kind = "WITHDRAWAL" -> booked[t] <= 0 - body[t].amount
      [] OTHER                       -> Exists(t)

\* A status claims no settlement and no flag that is not there.
Backed ==
    \A t \in Requests :
        /\ status[t] \in {"NONE", "PENDING"} => booked[t] = 0
        /\ status[t] \in {"COMPLETED", "REVERSED"} => Settled(t)
        /\ status[t] = "REQUIRES_ACTION" => fraudFlags[t] > 0

\* What a call that acts on another call's transaction has read of it.
Targets ==
    \A r \in Requests :
        LET t == body[r].target IN
        /\ body[r].kind = "COMPLETE" /\ pc[r] \in {"commit", "audit"}
             => Exists(t) /\ Initiates(t) /\ body[t].user = body[r].user
        /\ body[r].kind = "REVERSE" /\ pc[r] = "commit" => Exists(t) /\ Settled(t)
        /\ body[r].kind = "FLAG" /\ pc[r] = "commit" => Exists(t)

\* An answer names the caller's own transaction or the one its key names.
Answers ==
    \A r \in Requests : answer[r] # None =>
        /\ pc[r] = "answered"
        /\ Initiates(r) /\ body[r].key # None => answer[r] = keys[body[r].key]
        /\ Initiates(r) => Initiates(answer[r])

\* Settlements only ever add to what a deposit, and take from what a
\* withdrawal, has booked.
Books ==
    \A t \in Requests :
        /\ body[t].kind = "DEPOSIT" => booked[t] >= 0
        /\ body[t].kind = "WITHDRAWAL" => booked[t] <= 0

\* The movements of a wallet are what its deposits have booked and its
\* transfers come to, one transaction at a time.
Posted(w) ==
    [t \in Requests |->
        IF body[t].kind = "DEPOSIT" /\ body[t].wallet = w THEN booked[t]
        ELSE IF body[t].kind = "P2P_TRANSFER" /\ Exists(t) THEN Transferred(w, t) ELSE 0]

MovesPosted == \A w \in Wallets : moves[w] = SumFunctionOnSet(Posted(w), Requests)

IInv ==
    /\ PaymentsTypeOK
    /\ Rows /\ KeyRecords /\ Passed /\ Targets /\ Answers /\ Books
    /\ ReplayFaithful
    /\ Reconciled /\ NoOverdraft /\ HoldFree
    /\ Backed /\ MovesPosted
=============================================================================
