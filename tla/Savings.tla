------------------------------ MODULE Savings ------------------------------
(***************************************************************************)
(* SavingsService: the vaults of the customers and the money they move     *)
(* between a vault and the wallet it is linked to.  Unlike WalletService   *)
(* the handlers read vault and wallet before the transaction and write     *)
(* both from what they read.                                               *)
(*                                                                         *)
(* deleteVault never deletes (it calls gt on a formatted string), and the  *)
(* savings rules are stored but nothing calls the engine that applies      *)
(* them: neither changes the state modelled here.                          *)
(***************************************************************************)
EXTENDS Tables

CONSTANTS
    VaultOwner,      \* the user each vault belongs to
    OpeningLink,     \* the wallet of each vault that exists when the model starts
    OpeningVault     \* the amount of each vault when the model starts

ASSUME VaultsAssumption ==
    /\ VaultOwner \in [Vaults -> Users]
    /\ OpeningLink \in [Vaults -> Wallets \cup {None}]
    /\ OpeningVault \in [Vaults -> Nat]

VARIABLES
    current,      \* SavingsVault.currentAmount
    linked,       \* SavingsVault.walletId, None before the vault is created
    locked,       \* the vaults with isLocked set
    vaultMoves,   \* per vault: the USER_VAULT entries under its accountKey,
                  \* credits minus debits; they have no vaultId
    misfiled,     \* per wallet: the USER_VAULT entries that carry its walletId
    seenVault,    \* per request: the currentAmount it read
    seenLink,     \* per request: the walletId it read
    seenBalance,  \* per request: the wallet balance it read
    stale         \* the wallets and vaults some move overwrote from a stale read

vaultRows == <<current, linked, locked, vaultMoves, misfiled, stale>>
vaultSeen == <<seenVault, seenLink, seenBalance>>
vaultVars == <<vaultRows, vaultSeen>>

SavingsInit ==
    /\ current = OpeningVault
    /\ linked = OpeningLink
    /\ locked = {}
    /\ vaultMoves = [v \in Vaults |-> 0]
    /\ misfiled = [w \in Wallets |-> 0]
    /\ seenVault = [r \in Requests |-> 0]
    /\ seenLink = [r \in Requests |-> None]
    /\ seenBalance = [r \in Requests |-> 0]
    /\ stale = {}

-----------------------------------------------------------------------------
(* Creating, changing, locking and unlocking a vault.  The owner of a vault *)
(* never changes, so its check and the write are one step.                 *)

\* The vault exists and is the caller's.
OwnVault(r) ==
    /\ linked[body[r].vault] # None
    /\ VaultOwner[body[r].vault] = body[r].user

\* The walletId a body gives the vault.
LinkedWallet(r) == body[r].wallet

\* One write of the vault's row; the response names no transaction.
VaultCall(r, kind) ==
    /\ body[r].kind = kind
    /\ Goto(r, "idle", "answered")
    /\ UNCHANGED <<balance, available, frozen, status, ledger, keys, body, seen, answer>>
    /\ UNCHANGED <<current, vaultMoves, misfiled, stale, vaultSeen>>

\* The id of the row is fresh, and the wallet must be the caller's.
CreateVault(r) ==
    /\ VaultCall(r, "VAULT_CREATE")
    /\ linked[body[r].vault] = None
    /\ VaultOwner[body[r].vault] = body[r].user
    /\ Owner[body[r].wallet] = body[r].user
    /\ linked' = [linked EXCEPT ![body[r].vault] = LinkedWallet(r)]
    /\ UNCHANGED locked

\* The wallet the vault is linked to may change, also while money moves.
UpdateVault(r) ==
    /\ VaultCall(r, "VAULT_UPDATE")
    /\ OwnVault(r)
    /\ linked' = [linked EXCEPT ![body[r].vault] = LinkedWallet(r)]
    /\ UNCHANGED locked

LockVault(r) ==
    /\ VaultCall(r, "VAULT_LOCK")
    /\ OwnVault(r)
    /\ locked' = locked \cup {body[r].vault}
    /\ UNCHANGED linked

\* lockUntil is not looked at.
UnlockVault(r) ==
    /\ VaultCall(r, "VAULT_UNLOCK")
    /\ OwnVault(r)
    /\ locked' = locked \ {body[r].vault}
    /\ UNCHANGED linked

-----------------------------------------------------------------------------
(* depositToVault and withdrawFromVault: the reads.                        *)

MovesVault(r) == body[r].kind \in {"VAULT_CONTRIBUTION", "VAULT_WITHDRAWAL"}

\* What a withdrawal asks of the vault it read.
MayWithdraw(r) ==
    /\ body[r].vault \notin locked
    /\ current[body[r].vault] >= body[r].amount

ReadVault(r) ==
    /\ MovesVault(r)
    /\ OwnVault(r)
    /\ body[r].kind = "VAULT_WITHDRAWAL" => MayWithdraw(r)
    /\ seenVault' = [seenVault EXCEPT ![r] = current[body[r].vault]]
    /\ seenLink' = [seenLink EXCEPT ![r] = linked[body[r].vault]]
    /\ Goto(r, "idle", "wallet")
    /\ UNCHANGED <<balance, available, frozen, status, ledger, keys, body, seen, answer>>
    /\ UNCHANGED <<vaultRows, seenBalance>>

\* As EnoughInWallet, on the balance.
EnoughInBalance(r) == balance[seenLink[r]] >= body[r].amount

EnoughInWallet(r) == available[seenLink[r]] >= body[r].amount

ReadWallet(r) ==
    /\ MovesVault(r)
    /\ Goto(r, "wallet", "key")
    /\ body[r].kind = "VAULT_CONTRIBUTION" => EnoughInWallet(r)
    /\ seen' = [seen EXCEPT ![r] = available[seenLink[r]]]
    /\ seenBalance' = [seenBalance EXCEPT ![r] = balance[seenLink[r]]]
    /\ UNCHANGED <<balance, available, frozen, status, ledger, keys, body, answer>>
    /\ UNCHANGED <<vaultRows, seenVault, seenLink>>

-----------------------------------------------------------------------------
(* The idempotency key, as in WalletService but with another request hash. *)

\* The canonical fields behind requestHash: the endpoint is not one of them.
VaultHash(r) == <<body[r].user, body[r].vault, body[r].amount>>

\* As VaultReplayable, without comparing the request hashes.
VaultReplayableAnyHash(r, old) == MovesVault(old) /\ body[old].user = body[r].user

VaultReplayable(r, old) == MovesVault(old) /\ VaultHash(old) = VaultHash(r)

VaultNewKey(r) ==
    /\ MovesVault(r)
    /\ Recorded(r) = None
    /\ Goto(r, "key", "commit")
    /\ UNCHANGED <<balance, available, frozen, status, ledger, keys, body, seen, answer>>
    /\ UNCHANGED vaultVars

VaultReplay(r) ==
    /\ MovesVault(r)
    /\ Recorded(r) # None
    /\ VaultReplayable(r, Recorded(r))
    /\ AnswerWith(r, "key", Recorded(r))
    /\ UNCHANGED <<balance, available, frozen, status, ledger, keys, body, seen>>
    /\ UNCHANGED vaultVars

-----------------------------------------------------------------------------
(* The transaction.                                                        *)

\* The rows that no longer hold the amount r read of them.
Overwritten(r) ==
    {w \in {seenLink[r]} : seenBalance[r] # balance[w]}
    \cup {v \in {body[r].vault} : seenVault[r] # current[v]}

\* As MoveBooked, with the wallet's type and account in both entries: they
\* cancel out.
MoveBookedTwice(r, amount) ==
    UNCHANGED <<moves, vaultMoves, misfiled>>

\* Two ledger entries: the wallet gives what the vault receives.  The vault's
\* entry names it in its accountKey alone: its walletId is the wallet's, and
\* its vaultId is left out.
MoveBooked(r, amount) ==
    /\ moves' = [moves EXCEPT ![seenLink[r]] = @ - amount]
    /\ vaultMoves' = [vaultMoves EXCEPT ![body[r].vault] = @ + amount]
    /\ misfiled' = [misfiled EXCEPT ![seenLink[r]] = @ + amount]

\* Both rows are written from what was read before the transaction.
MoveWritten(r, amount) ==
    /\ balance' = [balance EXCEPT ![seenLink[r]] = seenBalance[r] - amount]
    /\ available' = [available EXCEPT ![seenLink[r]] = seen[r] - amount]
    /\ current' = [current EXCEPT ![body[r].vault] = seenVault[r] + amount]

\* Request r moves amount from the wallet to the vault.
Move(r, amount) ==
    /\ Goto(r, "commit", "audit")
    /\ ReserveKey(r)
    /\ status' = [status EXCEPT ![r] = "COMPLETED"]
    /\ MoveBooked(r, amount)
    /\ MoveWritten(r, amount)
    /\ stale' = stale \cup Overwritten(r)
    /\ UNCHANGED <<frozen, booked, holds, body, seen, answer, linked, locked, vaultSeen>>

DepositToVault(r)    == body[r].kind = "VAULT_CONTRIBUTION" /\ Move(r, body[r].amount)
WithdrawFromVault(r) == body[r].kind = "VAULT_WITHDRAWAL" /\ Move(r, 0 - body[r].amount)

SavingsNext ==
    \E r \in Requests :
        \/ CreateVault(r) \/ UpdateVault(r) \/ LockVault(r) \/ UnlockVault(r)
        \/ ReadVault(r) \/ ReadWallet(r)
        \/ VaultNewKey(r) \/ VaultReplay(r)
        \/ DepositToVault(r) \/ WithdrawFromVault(r)
=============================================================================
