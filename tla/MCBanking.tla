----------------------------- MODULE MCBanking -----------------------------
(***************************************************************************)
(* Instances of Banking for TLC: the customers and wallets of MCPayments,  *)
(* and either one vault that is linked to the first wallet and one not yet *)
(* created, or a card of that wallet with a daily limit of 3.              *)
(***************************************************************************)
EXTENDS Banking, TLC

CONSTANTS u1, u2, w1, w2, v1, v2, c1, c2, k1, r1

MCUsers   == {u1, u2}
MCWallets == {w1, w2}
MCVaults  == {v1, v2}
MCOwner   == (w1 :> u1) @@ (w2 :> u2)
MCVaultOwner == [v \in Vaults |-> u1]
MCOpeningLink == [v \in Vaults |-> IF v = v1 THEN w1 ELSE None]
MCOpeningVault == [v \in Vaults |-> IF v = v1 THEN 1 ELSE 0]
MCCardholder == [c \in Cards |-> u1]
MCOpeningCard == [c \in Cards |-> IF c = c1 THEN w1 ELSE None]
MCOpeningLimits == [c \in Cards |-> IF c = c1 THEN [daily |-> 3, total |-> 3] ELSE NoLimits]
MCOpening == (w1 :> 2) @@ (w2 :> 0)
MCLimit   == [w \in MCWallets |-> 2]

Call(kind, wallet, to, vault, amount, key) ==
    [kind |-> kind, user |-> u1, wallet |-> wallet, to |-> to, vault |-> vault,
     card |-> None, limits |-> NoLimits,
     amount |-> amount, key |-> key, target |-> None]

VaultBodies ==
    {Call("VAULT_CREATE", w1, None, v2, 0, None), Call("VAULT_UPDATE", w2, None, v1, 0, None),
     Call("VAULT_LOCK", None, None, v1, 0, None), Call("VAULT_UNLOCK", None, None, v1, 0, None)}
    \cup {Call(kind, None, None, v1, a, k) :
            kind \in {"VAULT_CONTRIBUTION", "VAULT_WITHDRAWAL"}, a \in {1, 2}, k \in {k1, None}}
    \cup {Call("P2P_TRANSFER", w1, w2, None, 1, k1), Call("DEPOSIT", w1, None, None, 1, k1),
          Call("WITHDRAWAL", w1, None, None, 1, None)}

\* A call on a card, or on a card payment.
CardCallOn(kind, card, amount, target) ==
    [kind |-> kind, user |-> u1, wallet |-> w1, to |-> None, vault |-> None,
     card |-> card, limits |-> [daily |-> 1, total |-> None],
     amount |-> amount, key |-> None, target |-> target]

\* The life of card payments, and what customer and back office do to a card
\* and a payment meanwhile.
CardBodies ==
    {CardCallOn("CARD_AUTHORIZE", c1, 2, None)}
    \cup {CardCallOn(kind, None, a, r1) : kind \in {"CARD_CAPTURE", "CARD_REVERSE"}, a \in {1, 2}}
    \cup {CardCallOn(kind, None, 0, r1) : kind \in {"REVERSE", "FLAG"}}
    \cup {CardCallOn(kind, c1, 0, None) :
            kind \in {"CARD_UPDATE", "CARD_FREEZE", "CARD_UNFREEZE",
                      "CARD_ADMIN_FREEZE", "CARD_ADMIN_UNFREEZE"}}
    \cup {CardCallOn("CARD_CREATE", c2, 0, None)}

\* A call that could only fail, for the wallet is another user's; it waits.
Waiting == Call("DEPOSIT", w2, None, None, 1, None)

MCBodies == {Waiting} \cup VaultBodies \cup CardBodies

\* Four calls about the cards, or three about the vaults and one that waits.
MCInit ==
    /\ \/ body \in [Requests -> CardBodies]
       \/ \E others \in [Requests \ {r1} -> VaultBodies] : body = (r1 :> Waiting) @@ others
    /\ BankingInit

MCNext == BankingNext /\ (body[r1] = Waiting => pc'[r1] = "idle")

MCSpec == MCInit /\ [][MCNext]_bankVars

RequestSymmetry == Permutations(Requests)
OtherSymmetry   == Permutations(Requests \ {r1})

-----------------------------------------------------------------------------
(* What the repository says of the ledger and the code does not do.        *)

\* schema.prisma: the ledger is the source of truth for reconciliation, and
\* walletId is present in USER_WALLET entries, vaultId in USER_VAULT ones.
\* depositToVault and withdrawFromVault write the wallet's id in both and no
\* vaultId: taken by walletId a vault move cancels out, and the wallet is off.
FoundById ==
    \A w \in Wallets \ stale :
        balance[w] = Opening[w] + moves[w] + misfiled[w] + CardCharges(w)
=============================================================================
