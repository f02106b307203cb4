-------------------------- MODULE BankingInvariant --------------------------
(***************************************************************************)
(* The inductive invariant behind the theorems of BankingProofs: what a    *)
(* call on a wallet, a vault or a card has established at each await, and  *)
(* what the rows it left behind say of it.                                 *)
(***************************************************************************)
EXTENDS Banking

VaultTypeOK ==
    /\ current \in [Vaults -> Int]
    /\ linked \in [Vaults -> Wallets \cup {None}]
    /\ locked \subseteq Vaults
    /\ vaultMoves \in [Vaults -> Int]
    /\ misfiled \in [Wallets -> Int]
    /\ stale \subseteq Wallets \cup Vaults
    /\ seenVault \in [Requests -> Int]
    /\ seenLink \in [Requests -> Wallets \cup {None}]
    /\ seenBalance \in [Requests -> Int]

CardTypeOK ==
    /\ cardWallet \in [Cards -> Wallets \cup {None}]
    /\ cardFrozen \subseteq Cards
    /\ limits \in [Cards -> Limits]
    /\ spentToday \in [Cards -> Int]
    /\ spentTotal \in [Cards -> Int]
    /\ auth \in [Requests -> AuthStatuses]
    /\ authAmount \in [Requests -> Nat]
    /\ txAmount \in [Requests -> Nat]
    /\ charged \in [Requests -> Int]
    /\ sawToday \in [Requests -> Int]
    /\ sawTotal \in [Requests -> Int]
    /\ wrote \subseteq Requests
    /\ lapsed \subseteq Cards

BankingTypeOK == PaymentsTypeOK /\ VaultTypeOK /\ CardTypeOK

\* Which calls reach the labels whose actions do not ask for a kind.
Reached ==
    \A r \in Requests :
        /\ pc[r] \in {"sender", "receiver", "store"} => body[r].kind = "P2P_TRANSFER"
        /\ pc[r] = "store" => body[r].key # None
        /\ pc[r] = "audit" => Keyed(r) \/ body[r].kind \in {"P2P_TRANSFER", "COMPLETE"}

\* What a call remembers of the wallet and the vault it has read.
Reads ==
    \A r \in Requests :
        /\ body[r].kind = "WITHDRAWAL" /\ pc[r] \in {"key", "commit"}
             => seen[r] >= body[r].amount
        /\ MovesVault(r) /\ pc[r] \in {"wallet", "key", "commit"}
             => seenLink[r] \in Wallets /\ seenVault[r] >= 0
        /\ MovesVault(r) /\ pc[r] \in {"key", "commit"} => seen[r] >= 0
        /\ body[r].kind = "VAULT_CONTRIBUTION" /\ pc[r] \in {"key", "commit"}
             => seen[r] >= body[r].amount
        /\ body[r].kind = "VAULT_WITHDRAWAL" /\ pc[r] \in {"wallet", "key", "commit"}
             => seenVault[r] >= body[r].amount

\* From when on a call's own transaction exists.
Created ==
    \A r \in Requests :
        /\ Keyed(r) /\ Exists(r) => pc[r] \in {"audit", "answered", "failed"}
        /\ pc[r] \in {"store", "audit"} /\ body[r].kind # "COMPLETE" => Exists(r)
        /\ body[r].kind = "CARD_AUTHORIZE" /\ pc[r] \in {"record", "counters"} => Exists(r)

\* The transaction another call's key, or body, names exists.
Named ==
    /\ \A k \in Keys : keys[k] # None => Exists(keys[k])
    /\ \A r \in Requests :
         /\ body[r].kind = "COMPLETE" /\ pc[r] \in {"commit", "audit"}
              => Exists(body[r].target)
         /\ body[r].kind \in {"REVERSE", "FLAG"} /\ pc[r] = "commit"
              => Exists(body[r].target)
         /\ body[r].kind \in AuthKinds /\ pc[r] \notin {"idle", "answered", "failed"}
              => auth[body[r].target] # "NONE"

\* An authorisation is of a call that made it, on a card that exists.
Authorised ==
    \A t \in Requests :
        /\ auth[t] # "NONE" =>
             /\ body[t].kind = "CARD_AUTHORIZE"
             /\ Exists(t)
             /\ cardWallet[body[t].card] \in Wallets
        /\ auth[t] = "NONE" => charged[t] = 0
        /\ body[t].kind = "CARD_AUTHORIZE" /\ pc[t] \in {"transaction", "record", "counters"}
             => cardWallet[body[t].card] \in Wallets

Answered == \A r \in Requests : answer[r] # None => pc[r] = "answered"

BankInv ==
    /\ BankingTypeOK
    /\ Reached /\ Reads /\ Created /\ Named /\ Authorised /\ Answered
    /\ ReplayFaithfulBank /\ NothingOverdrawn /\ LostOnlyToStaleReads
=============================================================================
