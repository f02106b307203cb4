----------------------------- MODULE MCPayments -----------------------------
(***************************************************************************)
(* Instances of Payments for TLC: two customers with one primary wallet    *)
(* each, and menus of calls that bring the cases of one question together. *)
(***************************************************************************)
EXTENDS Payments, TLC

CONSTANTS u1, u2, w1, w2, k1, k2

MCUsers   == {u1, u2}
MCWallets == {w1, w2}
MCKeys    == {k1, k2}
MCOwner   == (w1 :> u1) @@ (w2 :> u2)
MCOpening == (w1 :> 2) @@ (w2 :> 0)
MCLimit   == [w \in MCWallets |-> 2]

\* One call; the fields its kind does not use are None.
Call(kind, user, wallet, to, amount, key, target) ==
    [kind |-> kind, user |-> user, wallet |-> wallet, to |-> to,
     vault |-> None, card |-> None, limits |-> NoLimits, amount |-> amount, key |-> key, target |-> target]

Deposits(ws, as, ks) ==
    {Call("DEPOSIT", u, w, None, a, k, None) : u \in MCUsers, w \in ws, a \in as, k \in ks}
Withdrawals(ws, as, ks) ==
    {Call("WITHDRAWAL", u, w, None, a, k, None) : u \in MCUsers, w \in ws, a \in as, k \in ks}
Transfers(ws, as, ks) ==
    {Call("P2P_TRANSFER", u, w, to, a, k, None) :
        u \in MCUsers, w \in ws, to \in MCWallets, a \in as, k \in ks}
OnTransactions(kinds, us) ==
    {Call(kind, u, None, None, 0, None, t) : kind \in kinds, u \in us, t \in Requests}
OnWallets(kinds, ws) ==
    {Call(kind, u2, w, None, 0, None, None) : kind \in kinds, w \in ws}

\* Only the calls whose user may make them: the others are refused at once.
Own(calls_) == {b \in calls_ : MCOwner[b.wallet] = b.user}

\* Money moving between the two wallets, no keys: races of holds, transfers,
\* settlements and freezes.
MoneyBodies ==
    Own(Deposits({w1}, {1}, {None}))
    \cup Own(Withdrawals({w1}, {1, 2}, {None}))
    \cup {b \in Own(Transfers({w1, w2}, {1, 2}, {None})) : b.to # b.wallet}
    \cup OnTransactions({"COMPLETE"}, {u1})
    \cup OnWallets({"FREEZE", "UNFREEZE"}, {w1})

\* Retries and clashes of idempotency keys, within and across endpoints,
\* users and amounts.
KeyBodies ==
    Own(Deposits({w1}, {1, 2}, {k1}) \cup Deposits({w2}, {1}, {k1}))
    \cup Own(Withdrawals({w1}, {1}, {k1, k2}))
    \cup {b \in Own(Transfers({w1}, {1}, {k1, None})) : b.to # b.wallet}

\* The back office and the customer at work on the same transactions.
OfficeBodies ==
    Own(Deposits({w1}, {1}, {None}))
    \cup Own(Withdrawals({w1}, {1}, {None}))
    \cup OnTransactions({"COMPLETE"}, MCUsers)
    \cup OnTransactions({"REVERSE", "FLAG"}, {u2})

\* The questions of money, of keys and of the back office, in one run.
MCBodies == MoneyBodies \cup KeyBodies \cup OfficeBodies

MCInit ==
    /\ \E menu \in {MoneyBodies, KeyBodies, OfficeBodies} : body \in [Requests -> menu]
    /\ PaymentsInit

MCSpec == MCInit /\ [][PaymentsNext]_allVars

RequestSymmetry == Permutations(Requests)

-----------------------------------------------------------------------------
(* What the repository says of payments and the code does not do.  Each    *)
(* claim is a property TLC refutes; the quotations are in README.md.       *)

\* The sum of the withdrawals from w that still wait for their payout.
PendingHolds(w) ==
    MapThenSumSet(LAMBDA t : body[t].amount,
        {t \in Requests : /\ status[t] = "PENDING"
                          /\ body[t].kind = "WITHDRAWAL"
                          /\ body[t].wallet = w})

\* prisma.service.ts: serializable transactions prevent lost updates.  The
\* hold of a withdrawal is lost when another one, which read the wallet before
\* it, commits after it (initiateWithdraw).
NoLostHold == \A w \in Wallets : available[w] <= balance[w] - PendingHolds(w)

\* completeTransaction answers "Transaction already processed" to a second
\* completion.  Two that read PENDING both settle.
ProcessedOnce ==
    \A t \in Requests : booked[t] \in {0, body[t].amount, 0 - body[t].amount}

\* wallet.dto.ts: the idempotency key of a transfer makes retries safe.  The
\* key is stored after the transaction, so a retry can move the money again.
TransferRetrySafe ==
    \A r, s \in Requests :
        /\ body[r].kind = "P2P_TRANSFER"
        /\ Exists(r) /\ Exists(s)
        /\ body[r] = body[s]
        /\ body[r].key # None
        => r = s

-----------------------------------------------------------------------------
(* The calls that tell: one menu per claim.                                *)

DepositAndComplete ==
    Own(Deposits({w1}, {1}, {None})) \cup OnTransactions({"COMPLETE"}, {u1})

OnlyWithdraw == Own(Withdrawals({w1}, {1}, {None}))

KeyedTransfers ==
    {Call("P2P_TRANSFER", u1, w1, w2, a, k1, None) : a \in {1, 2}}

=============================================================================
