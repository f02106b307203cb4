--------------------------- MODULE BankingProofs ---------------------------
(***************************************************************************)
(* Proofs about Banking: payments, savings and cards on the same wallets,  *)
(* for any number of users, wallets, vaults, cards, keys and calls.        *)
(***************************************************************************)
EXTENDS BankingInvariant, PaymentsProofs, Sums

\* The fields that calls on vaults and cards need.
LEMMA VaultAndCardFields ==
    ASSUME BankingTypeOK, NEW r \in Requests
    PROVE  /\ body[r].kind \in VaultKinds => body[r].vault \in Vaults
           /\ body[r].kind \in {"VAULT_CREATE", "VAULT_UPDATE", "CARD_CREATE"}
                => body[r].wallet \in Wallets
           /\ body[r].kind \in CardKinds => body[r].card \in Cards
           /\ body[r].kind \in AuthKinds => body[r].target \in Requests
           /\ body[r].limits \in Limits
<1>1. body[r] \in Bodies
  BY DEF BankingTypeOK, PaymentsTypeOK, TypeOK
<1>2. body[r] \in BodyType /\ WellFormed(body[r])
  BY <1>1, ConstantsAssumption
<1>3. body[r].limits \in Limits
  <2> HIDE DEF Limits
  <2> QED
    BY <1>2 DEF BodyType
<1> QED
  BY <1>2, <1>3 DEF WellFormed, VaultKinds

\* The steps on vaults leave cards and flags alone, and know their call.
LEMMA SavingsCases ==
    ASSUME SavingsNext
    PROVE  \E r \in Requests :
             \/ CreateVault(r) \/ UpdateVault(r) \/ LockVault(r) \/ UnlockVault(r)
             \/ ReadVault(r) \/ ReadWallet(r) \/ VaultNewKey(r) \/ VaultReplay(r)
             \/ DepositToVault(r) \/ WithdrawFromVault(r)
BY DEF SavingsNext

\* A step on a card leaves every row of the wallets and keys alone, and moves
\* on one call.
LEMMA CardCases ==
    ASSUME CardNext
    PROVE  /\ UNCHANGED otherRows
           /\ \E r \in Requests, next \in {"commit", "transaction", "record", "counters",
                                           "entries", "answered"} :
                /\ body[r].kind \in CardKinds \cup AuthKinds
                /\ pc[r] \notin {"answered", "failed"}
                /\ pc' = [pc EXCEPT ![r] = next]
                /\ answer' # answer => next = "answered"
                /\ body[r].kind = "CARD_AUTHORIZE" /\ next \in {"record", "counters"}
                     => pc[r] = "record" \/ status' = [status EXCEPT ![r] = "PENDING"]
<1> DEFINE Goal == /\ UNCHANGED otherRows
                   /\ \E r \in Requests, next \in {"commit", "transaction", "record", "counters",
                                                   "entries", "answered"} :
                        /\ body[r].kind \in CardKinds \cup AuthKinds
                        /\ pc[r] \notin {"answered", "failed"}
                        /\ pc' = [pc EXCEPT ![r] = next]
                        /\ answer' # answer => next = "answered"
                        /\ body[r].kind = "CARD_AUTHORIZE" /\ next \in {"record", "counters"}
                             => pc[r] = "record" \/ status' = [status EXCEPT ![r] = "PENDING"]
<1> USE DEF Goto, AnswerWith, CardKinds, AuthKinds
<1>1. ASSUME NEW r \in Requests,
             \/ CreateVirtualCard(r) \/ UpdateVirtualCard(r)
             \/ FreezeVirtualCard(r) \/ UnfreezeVirtualCard(r)
             \/ AdminFreezeCardRead(r) \/ AdminFreezeCardWrite(r)
             \/ AdminUnfreezeCardRead(r) \/ AdminUnfreezeCardWrite(r)
      PROVE  Goal
  BY <1>1 DEF CreateVirtualCard, UpdateVirtualCard, FreezeVirtualCard, UnfreezeVirtualCard,
     AdminFreezeCardRead, AdminFreezeCardWrite, AdminUnfreezeCardRead,
     AdminUnfreezeCardWrite, CardCall
<1>2. ASSUME NEW r \in Requests, AuthorizeRead(r) \/ CaptureRead(r) \/ RefundRead(r)
      PROVE  Goal
  BY <1>2 DEF AuthorizeRead, CaptureRead, RefundRead, Begin
<1>3. ASSUME NEW r \in Requests,
             AuthorizeTransaction(r) \/ AuthorizeRecord(r) \/ AuthorizeCounters(r)
      PROVE  Goal
  BY <1>3 DEF AuthorizeTransaction, AuthorizeRecord, AuthorizeCounters, Statement
<1>4. ASSUME NEW r \in Requests,
             \/ CaptureRecord(r) \/ CaptureTransaction(r)
             \/ CaptureCounters(r) \/ CaptureEntries(r)
      PROVE  Goal
  BY <1>4 DEF CaptureRecord, CaptureTransaction, CaptureCounters, CaptureEntries, Charge, Statement
<1>5. ASSUME NEW r \in Requests,
             \/ RefundTransaction(r) \/ RefundRecord(r)
             \/ RefundCounters(r) \/ RefundEntries(r)
      PROVE  Goal
  BY <1>5 DEF RefundTransaction, RefundRecord, RefundCounters, RefundEntries, Charge, Statement
<1> QED
  BY <1>1, <1>2, <1>3, <1>4, <1>5 DEF CardNext

\* No step changes what a call asks.
LEMMA BankBodyConstant == [BankingNext]_bankVars => body' = body
<1>1. SavingsNext => body' = body
  BY DEF SavingsNext, CreateVault, UpdateVault, LockVault, UnlockVault, VaultCall, ReadVault,
     ReadWallet, VaultNewKey, VaultReplay, DepositToVault, WithdrawFromVault, Move
<1>2. CardNext => body' = body
  BY CardCases DEF otherRows
<1>3. UNCHANGED bankVars => body' = body
  BY DEF bankVars, allVars, vars
<1> QED
  BY <1>1, <1>2, <1>3, BodyConstant DEF BankingNext

\* The initial values have their types.
LEMMA BankTypeInit == BankingInit => BankingTypeOK
BY TypeInit, VaultsAssumption, CardsAssumption
DEF BankingInit, SavingsInit, CardInit, BankingTypeOK, VaultTypeOK, CardTypeOK,
   AuthStatuses

\* A call on a card that has passed its first reads is about a card that exists.
LEMMA CardOfCall ==
    ASSUME BankingTypeOK, Named, Authorised, NEW r \in Requests,
           body[r].kind \in AuthKinds, pc[r] \notin {"idle", "answered", "failed"}
    PROVE  LET t == body[r].target IN
           /\ t \in Requests /\ auth[t] # "NONE" /\ Exists(t)
           /\ body[t].kind = "CARD_AUTHORIZE"
           /\ CardOf(r) = body[t].card
           /\ CardOf(r) \in Cards /\ cardWallet[CardOf(r)] \in Wallets
<1> DEFINE t == body[r].target
<1>1. t \in Requests /\ auth[t] # "NONE"
  BY VaultAndCardFields DEF Named
<1>2. body[t].kind = "CARD_AUTHORIZE" /\ Exists(t) /\ cardWallet[body[t].card] \in Wallets
  BY <1>1 DEF Authorised
<1>3. body[t].card \in Cards
  BY <1>1, <1>2, VaultAndCardFields DEF CardKinds
<1>4. CardOf(r) = body[t].card
  BY DEF CardOf, AuthKinds
<1> QED
  BY <1>1, <1>2, <1>3, <1>4

\* Every handler keeps the types.
LEMMA BankTypeStep ==
    ASSUME BankingTypeOK, Reads, Named, Authorised, [BankingNext]_bankVars
    PROVE  BankingTypeOK'
<1>0. body' = body /\ PaymentsTypeOK /\ VaultTypeOK /\ CardTypeOK
  BY BankBodyConstant DEF BankingTypeOK
<1>1. CASE UNCHANGED bankVars
  BY <1>0, <1>1 DEF bankVars, allVars, vars, ledger, calls, vaultVars, vaultRows, vaultSeen,
     cardVars, cardRows, counters, authRows, cardSaw, BankingTypeOK, PaymentsTypeOK, TypeOK,
     VaultTypeOK, CardTypeOK
<1>2. CASE PaymentsNext /\ UNCHANGED <<vaultVars, cardVars>>
  BY <1>0, <1>2, TypeStep DEF vaultVars, vaultRows, vaultSeen, cardVars, cardRows, counters,
     authRows, cardSaw, BankingTypeOK, VaultTypeOK, CardTypeOK
<1>3. CASE SavingsNext /\ UNCHANGED <<fraudFlags, cardVars>>
  <2>0. CardTypeOK'
    BY <1>0, <1>3 DEF cardVars, cardRows, counters, authRows, cardSaw, CardTypeOK
  <2> USE DEF PaymentsTypeOK, TypeOK, VaultTypeOK, Goto, AnswerWith, ledger, vaultRows,
              vaultSeen, vaultVars, Labels, Statuses
  <2>1. ASSUME NEW r \in Requests,
               CreateVault(r) \/ UpdateVault(r) \/ LockVault(r) \/ UnlockVault(r)
        PROVE  PaymentsTypeOK' /\ VaultTypeOK'
    <3>1. /\ body[r].vault \in Vaults
          /\ body[r].kind \in {"VAULT_CREATE", "VAULT_UPDATE"} => body[r].wallet \in Wallets
      BY <2>1, VaultAndCardFields DEF CreateVault, UpdateVault, LockVault, UnlockVault,
         VaultCall, VaultKinds
    <3> QED
      BY <1>0, <1>3, <2>1, <3>1 DEF CreateVault, UpdateVault, LockVault, UnlockVault,
         VaultCall, LinkedWallet
  <2>2. ASSUME NEW r \in Requests, ReadVault(r) PROVE PaymentsTypeOK' /\ VaultTypeOK'
    <3>1. body[r].vault \in Vaults
      BY <2>2, VaultAndCardFields DEF ReadVault, MovesVault, VaultKinds
    <3> QED
      BY <1>0, <1>3, <2>2, <3>1 DEF ReadVault
  <2>3. ASSUME NEW r \in Requests, ReadWallet(r) PROVE PaymentsTypeOK' /\ VaultTypeOK'
    <3>1. seenLink[r] \in Wallets
      BY <2>3 DEF ReadWallet, Reads
    <3> QED
      BY <1>0, <1>3, <2>3, <3>1 DEF ReadWallet
  <2>4. ASSUME NEW r \in Requests, VaultNewKey(r) \/ VaultReplay(r)
        PROVE  PaymentsTypeOK' /\ VaultTypeOK'
    <3>1. body[r].key \in Keys \cup {None}
      BY <1>0, BodyFields
    <3> QED
      BY <1>0, <1>3, <2>4, <3>1 DEF VaultNewKey, VaultReplay, Recorded
  <2>5. ASSUME NEW r \in Requests, NEW a \in Int, MovesVault(r), Move(r, a)
        PROVE  PaymentsTypeOK' /\ VaultTypeOK'
    <3>1. /\ seenLink[r] \in Wallets /\ body[r].key \in Keys \cup {None}
          /\ body[r].vault \in Vaults
      BY <1>0, <2>5, BodyFields, VaultAndCardFields DEF Move, Reads, MovesVault, VaultKinds
    <3>2. Overwritten(r) \subseteq Wallets \cup Vaults
      BY <3>1 DEF Overwritten
    <3>3. PaymentsTypeOK'
      BY <1>0, <1>3, <2>5, <3>1 DEF Move, MoveBooked, MoveWritten, ReserveKey
    <3>4. VaultTypeOK'
      BY <1>0, <1>3, <2>5, <3>1, <3>2 DEF Move, MoveBooked, MoveWritten
    <3> QED
      BY <3>3, <3>4
  <2>6. ASSUME NEW r \in Requests, DepositToVault(r) \/ WithdrawFromVault(r)
        PROVE  PaymentsTypeOK' /\ VaultTypeOK'
    <3>1. body[r].amount \in Int /\ 0 - body[r].amount \in Int
      BY <1>0, BodyFields
    <3>2. MovesVault(r)
      BY <2>6 DEF DepositToVault, WithdrawFromVault, MovesVault
    <3> QED
      BY <2>5, <2>6, <3>1, <3>2 DEF DepositToVault, WithdrawFromVault
  <2> HIDE DEF PaymentsTypeOK, TypeOK, VaultTypeOK
  <2> QED
    BY <1>3, <2>0, <2>1, <2>2, <2>3, <2>4, <2>6 DEF SavingsNext, BankingTypeOK
<1>4. CASE CardNext /\ UNCHANGED <<fraudFlags, vaultVars>>
  <2>0. VaultTypeOK'
    BY <1>0, <1>4 DEF vaultVars, vaultRows, vaultSeen, VaultTypeOK
  <2> DEFINE Goal == PaymentsTypeOK' /\ CardTypeOK'
  <2> USE DEF PaymentsTypeOK, TypeOK, CardTypeOK, Goto, AnswerWith, otherRows, cardRows,
              counters, authRows, cardSaw, Labels, Statuses, AuthStatuses
  <2>1. ASSUME NEW r \in Requests,
               \/ CreateVirtualCard(r)
               \/ FreezeVirtualCard(r) \/ UnfreezeVirtualCard(r)
               \/ AdminFreezeCardRead(r) \/ AdminFreezeCardWrite(r)
               \/ AdminUnfreezeCardRead(r) \/ AdminUnfreezeCardWrite(r)
        PROVE  Goal
    <3>1. /\ body[r].card \in Cards /\ body[r].limits \in Limits
          /\ body[r].kind = "CARD_CREATE" => body[r].wallet \in Wallets
      BY <2>1, VaultAndCardFields DEF CreateVirtualCard, FreezeVirtualCard,
         UnfreezeVirtualCard, AdminFreezeCardRead, AdminFreezeCardWrite, AdminUnfreezeCardRead,
         AdminUnfreezeCardWrite, CardCall, CardKinds
    <3> HIDE DEF Limits
    <3> QED
      BY <1>0, <1>4, <2>1, <3>1 DEF CreateVirtualCard, ChargedWallet, FreezeVirtualCard,
         UnfreezeVirtualCard, AdminFreezeCardRead, AdminFreezeCardWrite, AdminUnfreezeCardRead,
         AdminUnfreezeCardWrite, CardCall
  <2>2. ASSUME NEW r \in Requests, UpdateVirtualCard(r) PROVE Goal
    <3>1. body[r].card \in Cards /\ body[r].limits \in Limits
      BY <2>2, VaultAndCardFields DEF UpdateVirtualCard, CardCall, CardKinds
    <3>2. limits' \in [Cards -> Limits]
      BY <1>0, <2>2, <3>1 DEF UpdateVirtualCard, Limits
    <3> HIDE DEF Limits
    <3> QED
      BY <1>0, <1>4, <2>2, <3>2 DEF UpdateVirtualCard, CardCall
  <2>3. ASSUME NEW r \in Requests, AuthorizeRead(r) \/ CaptureRead(r) \/ RefundRead(r)
        PROVE  Goal
    BY <1>0, <1>4, <2>3 DEF AuthorizeRead, CaptureRead, RefundRead, Begin
  <2>4. ASSUME NEW r \in Requests,
               AuthorizeTransaction(r) \/ AuthorizeRecord(r) \/ AuthorizeCounters(r)
        PROVE  Goal
    <3>1. CardOf(r) \in Cards /\ body[r].card \in Cards /\ body[r].amount \in Nat
      BY <1>0, <2>4, VaultAndCardFields, BodyFields DEF AuthorizeTransaction, AuthorizeRecord,
         AuthorizeCounters, Statement, CardOf, CardKinds
    <3> QED
      BY <1>0, <1>4, <2>4, <3>1 DEF AuthorizeTransaction, AuthorizeRecord, AuthorizeCounters,
         AuthorizeSpends, Statement
  <2>5. ASSUME NEW r \in Requests,
               \/ CaptureRecord(r) \/ CaptureTransaction(r)
               \/ CaptureCounters(r) \/ CaptureEntries(r)
        PROVE  Goal
    <3>1. CardOf(r) \in Cards /\ body[r].target \in Requests /\ body[r].amount \in Nat
      BY <1>0, <2>5, CardOfCall, BodyFields DEF CaptureRecord, CaptureTransaction,
         CaptureCounters, CaptureEntries, Statement, AuthKinds
    <3> QED
      BY <1>0, <1>4, <2>5, <3>1 DEF CaptureRecord, CaptureTransaction, CaptureCounters,
         CaptureEntries, CapturedAmount, CaptureSpends, Charge, Statement
  <2>6. ASSUME NEW r \in Requests,
               \/ RefundTransaction(r) \/ RefundRecord(r)
               \/ RefundCounters(r) \/ RefundEntries(r)
        PROVE  Goal
    <3>1. CardOf(r) \in Cards /\ body[r].target \in Requests /\ body[r].amount \in Nat
      BY <1>0, <2>6, CardOfCall, BodyFields DEF RefundTransaction, RefundRecord,
         RefundCounters, RefundEntries, Statement, AuthKinds
    <3> QED
      BY <1>0, <1>4, <2>6, <3>1 DEF RefundTransaction, RefundRecord, RefundCounters,
         RefundEntries, Charge, Statement
  <2> HIDE DEF PaymentsTypeOK, TypeOK, CardTypeOK
  <2> QED
    BY <1>4, <2>0, <2>1, <2>2, <2>3, <2>4, <2>5, <2>6 DEF CardNext, BankingTypeOK
<1> QED
  BY <1>1, <1>2, <1>3, <1>4 DEF BankingNext

-----------------------------------------------------------------------------
(* The inductive invariant, part by part.                                  *)

\* A call reaches a label only along its own handler.
LEMMA ReachedStep ==
    ASSUME BankingTypeOK, Reached, [BankingNext]_bankVars
    PROVE  Reached'
<1> USE BankBodyConstant DEF Reached, Keyed, Initiates, MovesVault, BankingTypeOK,
        PaymentsTypeOK, TypeOK, Goto, AnswerWith
<1>1. CASE UNCHANGED bankVars
  BY <1>1 DEF bankVars, allVars, vars, calls
<1>2. ASSUME NEW r \in Requests,
             \/ DepositReadWallet(r) \/ WithdrawReadWallet(r) \/ NewKey(r)
             \/ TransferNewKey(r) \/ TransferReadSender(r) \/ TransferReadReceiver(r)
             \/ CompleteRead(r) \/ Fail(r)
             \/ ReplayResponse(r) \/ TransferReplay(r) \/ AlreadyProcessed(r) \/ Respond(r)
      PROVE  Reached'
  BY <1>2 DEF DepositReadWallet, WithdrawReadWallet, NewKey, TransferNewKey,
     TransferReadSender, TransferReadReceiver, CompleteRead, Fail, ReplayResponse,
     TransferReplay, AlreadyProcessed, Respond
<1>3. ASSUME NEW r \in Requests,
             \/ DepositCommit(r) \/ WithdrawCommit(r) \/ TransferCommit(r)
             \/ TransferStoreKey(r) \/ SettleDeposit(r) \/ SettleWithdrawal(r)
      PROVE  Reached'
  BY <1>3 DEF DepositCommit, WithdrawCommit, TransferCommit, TransferStoreKey,
     SettleDeposit, Credit, SettleWithdrawal
<1>4. ASSUME NEW r \in Requests,
             \/ FreezeRead(r) \/ UnfreezeRead(r) \/ ReverseRead(r) \/ FlagRead(r)
             \/ FreezeWrite(r) \/ UnfreezeWrite(r) \/ ReverseWrite(r) \/ FlagWrite(r)
      PROVE  Reached'
  BY <1>4 DEF FreezeRead, UnfreezeRead, ReverseRead, FlagRead, FreezeWrite,
     UnfreezeWrite, ReverseWrite, FlagWrite, Checked, Written, wallets
<1>5. ASSUME NEW r \in Requests,
             \/ CreateVault(r) \/ UpdateVault(r) \/ LockVault(r) \/ UnlockVault(r)
             \/ ReadVault(r) \/ ReadWallet(r) \/ VaultNewKey(r) \/ VaultReplay(r)
             \/ DepositToVault(r) \/ WithdrawFromVault(r)
      PROVE  Reached'
  BY <1>5 DEF CreateVault, UpdateVault, LockVault, UnlockVault, VaultCall, ReadVault,
     ReadWallet, VaultNewKey, VaultReplay, DepositToVault, WithdrawFromVault, Move
<1>6. CASE CardNext
  BY <1>6, CardCases
<1> QED
  BY <1>1, <1>2, <1>3, <1>4, <1>5, <1>6
  DEF BankingNext, PaymentsNext, WalletNext, AdminNext, SavingsNext

\* A step that reads nothing and takes no call to a label where it remembers
\* what it read, leaves Reads alone.
LEMMA ReadsKept ==
    ASSUME BankingTypeOK, Reads, body' = body, UNCHANGED <<seen, seenVault, seenLink>>,
           \A s \in Requests : \/ pc'[s] = pc[s]
                               \/ pc'[s] \notin {"wallet", "key", "commit"}
                               \/ pc[s] = "key" /\ pc'[s] = "commit"
                               \/ ~ MovesVault(s) /\ body[s].kind # "WITHDRAWAL"
    PROVE  Reads'
BY DEF Reads, MovesVault

\* What a call remembers of a wallet or vault is enough for what it will write,
\* and so no write, stale as it may be, goes below zero.
LEMMA ReadsStep ==
    ASSUME BankingTypeOK, Reached, Reads, NothingOverdrawn, [BankingNext]_bankVars
    PROVE  Reads' /\ NothingOverdrawn'
<1> DEFINE Goal == Reads' /\ NothingOverdrawn'
           Kept == UNCHANGED <<available, current>>
<1>0. /\ body' = body /\ PaymentsTypeOK
      /\ \A s \in Requests : body[s].amount \in Nat
      /\ pc \in [Requests -> Labels] /\ available \in [Wallets -> Int]
      /\ seen \in [Requests -> Int] /\ seenVault \in [Requests -> Int]
      /\ current \in [Vaults -> Int]
      /\ linked \in [Vaults -> Wallets \cup {None}] /\ seenLink \in [Requests -> Wallets \cup {None}]
  BY BankBodyConstant, BodyFields DEF BankingTypeOK, PaymentsTypeOK, TypeOK, VaultTypeOK
<1>01. Kept => NothingOverdrawn'
  BY DEF NothingOverdrawn, NoOverdraft
<1> USE DEF Goto, AnswerWith, vaultVars, vaultRows, vaultSeen
<1>1. CASE UNCHANGED bankVars
  BY <1>0, <1>01, <1>1, ReadsKept DEF bankVars, allVars, vars, calls
<1>2. ASSUME NEW r \in Requests, UNCHANGED <<vaultVars, cardVars>>,
             \/ DepositReadWallet(r) \/ NewKey(r)
             \/ TransferNewKey(r) \/ TransferReadSender(r) \/ TransferReadReceiver(r)
             \/ CompleteRead(r) \/ Fail(r)
             \/ ReplayResponse(r) \/ TransferReplay(r) \/ AlreadyProcessed(r) \/ Respond(r)
             \/ DepositCommit(r) \/ TransferStoreKey(r) \/ SettleWithdrawal(r)
      PROVE  Goal
  <2>1. UNCHANGED <<seen, available>> /\ Kept
    BY <1>2 DEF DepositReadWallet, NewKey, TransferNewKey, TransferReadSender,
       TransferReadReceiver, CompleteRead, Fail, ReplayResponse, TransferReplay,
       AlreadyProcessed, Respond, DepositCommit, TransferStoreKey, SettleWithdrawal
  <2>2. \E next \in Labels :
          /\ pc' = [pc EXCEPT ![r] = next]
          /\ \/ next \notin {"wallet", "key", "commit"}
             \/ pc[r] = "key" /\ next = "commit"
             \/ ~ MovesVault(r) /\ body[r].kind # "WITHDRAWAL"
    BY <1>2 DEF DepositReadWallet, NewKey, TransferNewKey, TransferReadSender,
       TransferReadReceiver, CompleteRead, Fail, ReplayResponse, TransferReplay,
       AlreadyProcessed, Respond, DepositCommit, TransferStoreKey, SettleWithdrawal,
       Reached, MovesVault, Labels
  <2> QED
    BY <1>0, <1>01, <1>2, <2>1, <2>2, ReadsKept
<1>3. ASSUME NEW r \in Requests, WithdrawReadWallet(r), UNCHANGED <<vaultVars, cardVars>>
      PROVE  Goal
  <2>1. body[r].wallet \in Wallets /\ body[r].kind = "WITHDRAWAL"
    BY <1>0, <1>3, BodyFields DEF WithdrawReadWallet
  <2>2. Reads'
    BY <1>0, <1>3, <2>1 DEF WithdrawReadWallet, Reads, MovesVault
  <2> QED
    BY <1>01, <1>3, <2>2 DEF WithdrawReadWallet
<1>4. ASSUME NEW r \in Requests, WithdrawCommit(r), UNCHANGED <<vaultVars, cardVars>>
      PROVE  Goal
  <2>1. Reads'
    BY <1>0, <1>4, ReadsKept DEF WithdrawCommit
  <2>2. seen[r] >= body[r].amount
    BY <1>4 DEF WithdrawCommit, Reads
  <2>3. available' = [available EXCEPT ![body[r].wallet] = seen[r] - body[r].amount]
        /\ UNCHANGED current
    BY <1>4 DEF WithdrawCommit, Hold
  <2> QED
    BY <1>0, <2>1, <2>2, <2>3 DEF NothingOverdrawn, NoOverdraft
<1>5. ASSUME NEW r \in Requests, TransferCommit(r), UNCHANGED <<vaultVars, cardVars>>
      PROVE  Goal
  <2>1. Reads'
    BY <1>0, <1>5, ReadsKept DEF TransferCommit
  <2>2. body[r].wallet \in Wallets /\ body[r].to \in Wallets
    BY <1>0, <1>5, BodyFields DEF TransferCommit
  <2>3. available[body[r].wallet] >= body[r].amount
        /\ available' = Moved(available, r) /\ UNCHANGED current
    BY <1>5 DEF TransferCommit, Covered
  <2> QED
    BY <1>0, <2>1, <2>2, <2>3 DEF NothingOverdrawn, NoOverdraft, Moved
<1>6. ASSUME NEW r \in Requests, SettleDeposit(r), UNCHANGED <<vaultVars, cardVars>>
      PROVE  Goal
  <2>1. Reads'
    BY <1>0, <1>6, ReadsKept DEF SettleDeposit
  <2>2. body[r].target \in Requests
    BY <1>0, <1>6, BodyFields DEF SettleDeposit
  <2>3. available' = Credited(available, body[r].target) /\ UNCHANGED current
    BY <1>6 DEF SettleDeposit, Credit
  <2> QED
    BY <1>0, <2>1, <2>2, <2>3 DEF NothingOverdrawn, NoOverdraft, Credited
<1>7. ASSUME AdminNext, UNCHANGED <<vaultVars, cardVars>>
      PROVE  Goal
  <2> PICK r \in Requests :
        \/ FreezeRead(r) \/ UnfreezeRead(r) \/ ReverseRead(r) \/ FlagRead(r)
        \/ FreezeWrite(r) \/ UnfreezeWrite(r) \/ ReverseWrite(r) \/ FlagWrite(r)
    BY <1>7 DEF AdminNext
  <2>1. UNCHANGED <<seen, available>> /\ body[r].kind \in AdminKinds
        /\ \E next \in Labels : pc' = [pc EXCEPT ![r] = next]
    BY DEF FreezeRead, UnfreezeRead, ReverseRead, FlagRead, FreezeWrite,
       UnfreezeWrite, ReverseWrite, FlagWrite, Checked, Written, wallets, Labels, AdminKinds
  <2> QED
    BY <1>0, <1>01, <1>7, <2>1, ReadsKept DEF MovesVault, AdminKinds
<1>8. ASSUME NEW r \in Requests, UNCHANGED <<fraudFlags, cardVars>>,
             \/ CreateVault(r) \/ UpdateVault(r) \/ LockVault(r) \/ UnlockVault(r)
             \/ VaultNewKey(r) \/ VaultReplay(r)
      PROVE  Goal
  BY <1>0, <1>01, <1>8, ReadsKept DEF CreateVault, UpdateVault, LockVault, UnlockVault,
     VaultCall, VaultNewKey, VaultReplay
<1>9. ASSUME NEW r \in Requests, ReadVault(r), UNCHANGED <<fraudFlags, cardVars>>
      PROVE  Goal
  <2>1. /\ MovesVault(r) /\ body[r].vault \in Vaults
        /\ body[r].kind = "VAULT_WITHDRAWAL" => current[body[r].vault] >= body[r].amount
        /\ linked[body[r].vault] # None
        /\ UNCHANGED <<available, current, seen>>
    BY <1>9, VaultAndCardFields DEF ReadVault, MovesVault, MayWithdraw, OwnVault, VaultKinds
  <2>2. Reads'
    BY <1>0, <1>9, <2>1 DEF ReadVault, Reads, MovesVault, NothingOverdrawn
  <2> QED
    BY <1>01, <2>1, <2>2
<1>10. ASSUME NEW r \in Requests, ReadWallet(r), UNCHANGED <<fraudFlags, cardVars>>
      PROVE  Goal
  <2>1. seenLink[r] \in Wallets /\ UNCHANGED <<available, current, seenVault, seenLink>>
    BY <1>10 DEF ReadWallet, Reads
  <2>2. Reads'
    BY <1>0, <1>10, <2>1 DEF ReadWallet, EnoughInWallet, Reads, MovesVault, NothingOverdrawn,
       NoOverdraft
  <2> QED
    BY <1>01, <2>1, <2>2
<1>11. ASSUME NEW r \in Requests, DepositToVault(r) \/ WithdrawFromVault(r)
      PROVE  Goal
  <2>1. Reads'
    BY <1>0, <1>11, ReadsKept DEF DepositToVault, WithdrawFromVault, Move
  <2>2. seenLink[r] \in Wallets /\ seen[r] >= 0 /\ seenVault[r] >= 0
    BY <1>11 DEF DepositToVault, WithdrawFromVault, Move, Reads, MovesVault
  <2>3. CASE DepositToVault(r)
    <3>1. /\ available' = [available EXCEPT ![seenLink[r]] = seen[r] - body[r].amount]
          /\ current' = [current EXCEPT ![body[r].vault] = seenVault[r] + body[r].amount]
          /\ seen[r] >= body[r].amount
      BY <2>3 DEF DepositToVault, Move, MoveWritten, Reads
    <3> QED
      BY <1>0, <2>1, <2>2, <3>1 DEF NothingOverdrawn, NoOverdraft
  <2>4. CASE WithdrawFromVault(r)
    <3>1. /\ available' = [available EXCEPT ![seenLink[r]] = seen[r] - (0 - body[r].amount)]
          /\ current' = [current EXCEPT ![body[r].vault] = seenVault[r] + (0 - body[r].amount)]
          /\ seenVault[r] >= body[r].amount
      BY <2>4 DEF WithdrawFromVault, Move, MoveWritten, Reads
    <3> QED
      BY <1>0, <2>1, <2>2, <3>1 DEF NothingOverdrawn, NoOverdraft
  <2> QED
    BY <1>11, <2>3, <2>4
<1>12. ASSUME CardNext, UNCHANGED <<fraudFlags, vaultVars>>
      PROVE  Goal
  <2>1. Kept /\ UNCHANGED <<seen, seenVault, seenLink>>
    BY <1>12, CardCases DEF otherRows
  <2>2. Reads'
    BY <1>0, <1>12, <2>1, CardCases, ReadsKept DEF CardKinds, AuthKinds, MovesVault
  <2> QED
    BY <1>01, <2>1, <2>2
<1> QED
  BY <1>1, <1>2, <1>3, <1>4, <1>5, <1>6, <1>7, <1>8, <1>9, <1>10, <1>11, <1>12
  DEF BankingNext, PaymentsNext, WalletNext, SavingsNext

\* A transaction never disappears; one of a call with a reserved key appears in
\* the step that takes the call to its audit.
LEMMA ExistsStep ==
    ASSUME BankingTypeOK, Reached, Named, Authorised, [BankingNext]_bankVars
    PROVE  \A s \in Requests :
             /\ Exists(s) => Exists(s)'
             /\ Exists(s)' /\ ~ Exists(s) /\ Keyed(s) => pc'[s] = "audit"
<1> DEFINE Goal == \A s \in Requests :
                     /\ Exists(s) => Exists(s)'
                     /\ Exists(s)' /\ ~ Exists(s) /\ Keyed(s) => pc'[s] = "audit"
<1>0. /\ \A s \in Requests : body[s].kind \in {"COMPLETE", "REVERSE", "FLAG"} \cup AuthKinds
                              => body[s].target \in Requests
      /\ status \in [Requests -> Statuses] /\ pc \in [Requests -> Labels]
  BY BodyFields, VaultAndCardFields DEF BankingTypeOK, PaymentsTypeOK, TypeOK
<1> USE DEF Exists, Keyed, Initiates, MovesVault, Goto, AnswerWith
<1>1. CASE UNCHANGED status
  BY <1>1
<1>2. ASSUME NEW r \in Requests, DepositCommit(r) \/ WithdrawCommit(r) \/ TransferCommit(r)
      PROVE  Goal
  BY <1>0, <1>2 DEF DepositCommit, WithdrawCommit, TransferCommit
<1>3. ASSUME NEW r \in Requests, SettleDeposit(r) \/ SettleWithdrawal(r)
      PROVE  Goal
  BY <1>0, <1>3 DEF SettleDeposit, SettleWithdrawal, MarkCompleted, Named
<1>4. ASSUME NEW r \in Requests, ReverseWrite(r) \/ FlagWrite(r)
      PROVE  Goal
  BY <1>0, <1>4 DEF ReverseWrite, FlagWrite, FlagStatus, Written, Named
<1>5. ASSUME NEW r \in Requests, NEW a, Move(r, a)
      PROVE  Goal
  BY <1>0, <1>5 DEF Move
<1>6. ASSUME NEW r \in Requests, AuthorizeTransaction(r)
      PROVE  Goal
  BY <1>0, <1>6 DEF AuthorizeTransaction, Statement
<1>7. ASSUME NEW r \in Requests, CaptureTransaction(r) \/ RefundTransaction(r)
      PROVE  Goal
  <2>1. Exists(body[r].target)
    BY <1>7, CardOfCall DEF CaptureTransaction, RefundTransaction, Statement, AuthKinds
  <2> QED
    BY <1>0, <1>7, <2>1 DEF CaptureTransaction, RefundTransaction, Statement, AuthKinds
<1>8. ASSUME WalletNext PROVE Goal
  BY <1>1, <1>2, <1>3, <1>8 DEF WalletNext, DepositReadWallet, WithdrawReadWallet, NewKey,
     TransferNewKey, TransferReadSender, TransferReadReceiver, CompleteRead, Fail,
     ReplayResponse, TransferReplay, AlreadyProcessed, Respond, TransferStoreKey
<1>9. ASSUME AdminNext PROVE Goal
  BY <1>1, <1>4, <1>9 DEF AdminNext, FreezeRead, UnfreezeRead, ReverseRead, FlagRead,
     FreezeWrite, UnfreezeWrite, Checked
<1>10. ASSUME SavingsNext PROVE Goal
  BY <1>1, <1>5, <1>10 DEF SavingsNext, CreateVault, UpdateVault, LockVault, UnlockVault,
     VaultCall, ReadVault, ReadWallet, VaultNewKey, VaultReplay, DepositToVault,
     WithdrawFromVault
<1>11. ASSUME CardNext PROVE Goal
  BY <1>1, <1>6, <1>7, <1>11 DEF CardNext, CreateVirtualCard, UpdateVirtualCard,
     FreezeVirtualCard, UnfreezeVirtualCard, AdminFreezeCardRead, AdminFreezeCardWrite,
     AdminUnfreezeCardRead, AdminUnfreezeCardWrite, CardCall, AuthorizeRead, CaptureRead,
     RefundRead, Begin, AuthorizeRecord, AuthorizeCounters, CaptureRecord, CaptureCounters,
     CaptureEntries, RefundRecord, RefundCounters, RefundEntries, Charge
<1>12. CASE UNCHANGED bankVars
  BY <1>1, <1>12 DEF bankVars, allVars, vars
<1> QED
  BY <1>8, <1>9, <1>10, <1>11, <1>12 DEF BankingNext, PaymentsNext

\* A call's transaction exists from its commit on, and not before.
LEMMA CreatedStep ==
    ASSUME BankingTypeOK, Reached, Created, Named, Authorised, [BankingNext]_bankVars
    PROVE  Created'
<1>0. /\ body' = body
      /\ pc \in [Requests -> Labels] /\ status \in [Requests -> Statuses]
      /\ \A s \in Requests :
           /\ Exists(s) => Exists(s)'
           /\ Exists(s)' /\ ~ Exists(s) /\ Keyed(s) => pc'[s] = "audit"
  BY BankBodyConstant, ExistsStep DEF BankingTypeOK, PaymentsTypeOK, TypeOK
<1> USE DEF Goto, AnswerWith
<1> SUFFICES ASSUME NEW s \in Requests, pc'[s] # pc[s]
               PROVE  /\ Keyed(s) /\ Exists(s) => pc'[s] \in {"audit", "answered", "failed"}
                      /\ pc'[s] \in {"store", "audit"} /\ body[s].kind # "COMPLETE" => Exists(s)'
                      /\ body[s].kind = "CARD_AUTHORIZE" /\ pc'[s] \in {"record", "counters"}
                           => Exists(s)'
  BY <1>0 DEF Created, Keyed, Initiates, MovesVault
<1> DEFINE Goal == /\ Keyed(s) /\ Exists(s) => pc'[s] \in {"audit", "answered", "failed"}
                   /\ pc'[s] \in {"store", "audit"} /\ body[s].kind # "COMPLETE" => Exists(s)'
                   /\ body[s].kind = "CARD_AUTHORIZE" /\ pc'[s] \in {"record", "counters"}
                        => Exists(s)'
<1> USE DEF Keyed, Initiates, MovesVault
<1>2. ASSUME NEW r \in Requests,
             \/ DepositReadWallet(r) \/ WithdrawReadWallet(r) \/ NewKey(r)
             \/ TransferNewKey(r) \/ TransferReadSender(r) \/ TransferReadReceiver(r)
             \/ CompleteRead(r) \/ Fail(r)
             \/ ReplayResponse(r) \/ TransferReplay(r) \/ AlreadyProcessed(r) \/ Respond(r)
      PROVE  Goal
  BY <1>0, <1>2 DEF Created, DepositReadWallet, WithdrawReadWallet, NewKey, TransferNewKey,
     TransferReadSender, TransferReadReceiver, CompleteRead, Fail, ReplayResponse,
     TransferReplay, AlreadyProcessed, Respond
<1>3. ASSUME NEW r \in Requests,
             \/ DepositCommit(r) \/ WithdrawCommit(r) \/ TransferCommit(r)
             \/ TransferStoreKey(r) \/ SettleDeposit(r) \/ SettleWithdrawal(r)
      PROVE  Goal
  <2>1. body[s].kind # "COMPLETE" => Exists(s)'
    BY <1>0, <1>3 DEF Created, Exists, DepositCommit, WithdrawCommit, TransferCommit,
       TransferStoreKey, Reached, SettleDeposit, SettleWithdrawal
  <2>2. pc'[s] \in {"audit", "store"} /\ (pc'[s] = "store" => body[s].kind = "P2P_TRANSFER")
    BY <1>0, <1>3 DEF DepositCommit, WithdrawCommit, TransferCommit, TransferStoreKey,
       SettleDeposit, SettleWithdrawal
  <2> QED
    BY <2>1, <2>2
<1>4. ASSUME NEW r \in Requests,
             \/ FreezeRead(r) \/ UnfreezeRead(r) \/ ReverseRead(r) \/ FlagRead(r)
             \/ FreezeWrite(r) \/ UnfreezeWrite(r) \/ ReverseWrite(r) \/ FlagWrite(r)
      PROVE  Goal
  BY <1>0, <1>4 DEF FreezeRead, UnfreezeRead, ReverseRead, FlagRead, FreezeWrite,
     UnfreezeWrite, ReverseWrite, FlagWrite, Checked, Written
<1>5. ASSUME NEW r \in Requests,
             \/ CreateVault(r) \/ UpdateVault(r) \/ LockVault(r) \/ UnlockVault(r)
             \/ ReadVault(r) \/ ReadWallet(r) \/ VaultNewKey(r) \/ VaultReplay(r)
      PROVE  Goal
  BY <1>0, <1>5 DEF Created, CreateVault, UpdateVault, LockVault, UnlockVault, VaultCall,
     ReadVault, ReadWallet, VaultNewKey, VaultReplay
<1>6. ASSUME NEW r \in Requests, DepositToVault(r) \/ WithdrawFromVault(r)
      PROVE  Goal
  BY <1>0, <1>6 DEF Exists, DepositToVault, WithdrawFromVault, Move
<1>7. ASSUME CardNext
      PROVE  Goal
  <2>1. /\ body[s].kind \in CardKinds \cup AuthKinds
        /\ pc'[s] \notin {"store", "audit"}
    BY <1>0, <1>7, CardCases
  <2>2. ~ Keyed(s)
    BY <2>1 DEF CardKinds, AuthKinds
  <2>3. ASSUME body[s].kind = "CARD_AUTHORIZE", pc'[s] \in {"record", "counters"}
        PROVE  Exists(s)'
    <3>1. pc[s] = "record" \/ status' = [status EXCEPT ![s] = "PENDING"]
      BY <1>0, <1>7, <2>3, CardCases
    <3> QED
      BY <1>0, <2>3, <3>1 DEF Created, Exists
  <2> QED
    BY <2>1, <2>2, <2>3
<1>8. CASE UNCHANGED bankVars
  BY <1>8 DEF bankVars, allVars, vars, calls
<1> QED
  BY <1>2, <1>3, <1>4, <1>5, <1>6, <1>7, <1>8
  DEF BankingNext, PaymentsNext, WalletNext, AdminNext, SavingsNext

\* An authorisation is recorded by its own call, for a card that stays where it
\* is, and is charged only once it is recorded.
LEMMA AuthorisedStep ==
    ASSUME BankingTypeOK, Named, Authorised, Created, [BankingNext]_bankVars,
           \A s \in Requests : Exists(s) => Exists(s)'
    PROVE  /\ Authorised'
           /\ \A s \in Requests : auth[s] # "NONE" => auth'[s] # "NONE"
           /\ \A c \in Cards : cardWallet[c] # None => cardWallet'[c] = cardWallet[c]
<1> DEFINE Goal == /\ Authorised'
                   /\ \A s \in Requests : auth[s] # "NONE" => auth'[s] # "NONE"
                   /\ \A c \in Cards : cardWallet[c] # None => cardWallet'[c] = cardWallet[c]
<1>0. /\ body' = body
      /\ pc \in [Requests -> Labels] /\ auth \in [Requests -> AuthStatuses]
      /\ charged \in [Requests -> Int] /\ cardWallet \in [Cards -> Wallets \cup {None}]
      /\ \A s \in Requests : /\ body[s].kind \in CardKinds => body[s].card \in Cards
                             /\ body[s].kind \in AuthKinds => body[s].target \in Requests
      /\ None \notin Wallets
  BY BankBodyConstant, VaultAndCardFields, ConstantsAssumption DEF BankingTypeOK, PaymentsTypeOK, TypeOK, CardTypeOK
<1> USE DEF Goto, AnswerWith, cardVars, cardRows, authRows, counters
<1>1. ASSUME UNCHANGED <<auth, charged, cardWallet>>,
             \A s \in Requests : \/ pc'[s] = pc[s]
                                 \/ body[s].kind # "CARD_AUTHORIZE"
                                 \/ pc'[s] \notin {"transaction", "record", "counters"}
                                 \/ pc[s] \in {"transaction", "record"}
      PROVE  Goal
  BY <1>0, <1>1 DEF Authorised
<1>2. CASE UNCHANGED bankVars
  BY <1>1, <1>2 DEF bankVars, allVars, vars, calls
<1>3. CASE PaymentsNext /\ UNCHANGED <<vaultVars, cardVars>>
  <2>1. \A s \in Requests : pc'[s] # pc[s] => pc'[s] \notin {"transaction", "record", "counters"}
    BY <1>0, <1>3 DEF PaymentsNext, WalletNext, AdminNext, DepositReadWallet,
       WithdrawReadWallet, NewKey, ReplayResponse, DepositCommit, WithdrawCommit,
       TransferReplay, TransferNewKey, TransferReadSender, TransferReadReceiver,
       TransferCommit, TransferStoreKey, CompleteRead, AlreadyProcessed,
       SettleDeposit, SettleWithdrawal, Respond, Fail, FreezeRead, FreezeWrite,
       UnfreezeRead, UnfreezeWrite, ReverseRead, ReverseWrite, FlagRead, FlagWrite,
       Checked, Written
  <2> QED
    BY <1>1, <1>3, <2>1
<1>4. CASE SavingsNext /\ UNCHANGED <<fraudFlags, cardVars>>
  <2>1. \A s \in Requests : pc'[s] # pc[s] => pc'[s] \notin {"transaction", "record", "counters"}
    BY <1>0, <1>4 DEF SavingsNext, CreateVault, UpdateVault, LockVault, UnlockVault,
       VaultCall, ReadVault, ReadWallet, VaultNewKey, VaultReplay, DepositToVault,
       WithdrawFromVault, Move
  <2> QED
    BY <1>1, <1>4, <2>1
<1>5. ASSUME NEW r \in Requests,
             \/ UpdateVirtualCard(r) \/ FreezeVirtualCard(r) \/ UnfreezeVirtualCard(r)
             \/ AdminFreezeCardRead(r) \/ AdminFreezeCardWrite(r)
             \/ AdminUnfreezeCardRead(r) \/ AdminUnfreezeCardWrite(r)
             \/ CaptureRead(r) \/ RefundRead(r)
             \/ AuthorizeTransaction(r) \/ AuthorizeCounters(r)
             \/ CaptureTransaction(r) \/ CaptureCounters(r)
             \/ RefundTransaction(r) \/ RefundCounters(r)
      PROVE  Goal
  <2>1. UNCHANGED <<auth, charged, cardWallet>>
    BY <1>5 DEF UpdateVirtualCard, FreezeVirtualCard, UnfreezeVirtualCard,
       AdminFreezeCardRead, AdminFreezeCardWrite, AdminUnfreezeCardRead,
       AdminUnfreezeCardWrite, CardCall, CaptureRead, RefundRead, Begin, AuthorizeTransaction,
       AuthorizeCounters, CaptureTransaction, CaptureCounters, RefundTransaction,
       RefundCounters, Statement
  <2>2. \A s \in Requests : \/ pc'[s] = pc[s]
                            \/ body[s].kind # "CARD_AUTHORIZE"
                            \/ pc'[s] \notin {"transaction", "record", "counters"}
                            \/ pc[s] \in {"transaction", "record"}
    BY <1>0, <1>5 DEF UpdateVirtualCard, FreezeVirtualCard, UnfreezeVirtualCard,
       AdminFreezeCardRead, AdminFreezeCardWrite, AdminUnfreezeCardRead,
       AdminUnfreezeCardWrite, CardCall, CaptureRead, RefundRead, Begin, AuthorizeTransaction,
       AuthorizeCounters, CaptureTransaction, CaptureCounters, RefundTransaction,
       RefundCounters, Statement
  <2> QED
    BY <1>1, <2>1, <2>2
<1>6. ASSUME NEW r \in Requests, CreateVirtualCard(r) PROVE Goal
  <2>1. body[r].card \in Cards /\ cardWallet[body[r].card] = None
    BY <1>0, <1>6 DEF CreateVirtualCard, CardCall, CardKinds
  <2> QED
    BY <1>0, <1>6, <2>1 DEF CreateVirtualCard, CardCall, Authorised
<1>7. ASSUME NEW r \in Requests, AuthorizeRead(r) PROVE Goal
  <2>1. cardWallet[body[r].card] \in Wallets /\ UNCHANGED <<auth, charged, cardWallet>>
    BY <1>0, <1>7 DEF AuthorizeRead, Begin, CardKinds
  <2> QED
    BY <1>0, <1>7, <2>1 DEF AuthorizeRead, Begin, Authorised
<1>8. ASSUME NEW r \in Requests, AuthorizeRecord(r) PROVE Goal
  <2>1. Exists(r)' /\ cardWallet[body[r].card] \in Wallets /\ body[r].kind = "CARD_AUTHORIZE"
    BY <1>8 DEF AuthorizeRecord, Statement, Created, Authorised
  <2>2. UNCHANGED <<charged, cardWallet>> /\ auth' = [auth EXCEPT ![r] = "AUTHORIZED"]
    BY <1>8 DEF AuthorizeRecord, Statement
  <2>3. pc' = [pc EXCEPT ![r] = "counters"]
    BY <1>8 DEF AuthorizeRecord
  <2> QED
    BY <1>0, <2>1, <2>2, <2>3 DEF Authorised, AuthStatuses
<1>9. ASSUME NEW r \in Requests, CaptureRecord(r) \/ RefundRecord(r) PROVE Goal
  <2> DEFINE t == body[r].target
  <2>1. t \in Requests /\ auth[t] # "NONE" /\ body[r].kind # "CARD_AUTHORIZE"
    BY <1>9, CardOfCall DEF CaptureRecord, RefundRecord, Statement, AuthKinds
  <2>2. /\ UNCHANGED <<charged, cardWallet>>
        /\ \E a \in {"CAPTURED", "REVERSED"} : auth' = [auth EXCEPT ![t] = a]
        /\ \E next \in Labels : pc' = [pc EXCEPT ![r] = next]
    BY <1>9 DEF CaptureRecord, RefundRecord, Statement, Labels
  <2> QED
    BY <1>0, <2>1, <2>2 DEF Authorised
<1>10. ASSUME NEW r \in Requests, CaptureEntries(r) \/ RefundEntries(r) PROVE Goal
  <2> DEFINE t == body[r].target
  <2>1. t \in Requests /\ auth[t] # "NONE" /\ body[r].kind # "CARD_AUTHORIZE"
    BY <1>10, CardOfCall DEF CaptureEntries, RefundEntries, Charge, Statement, AuthKinds
  <2>2. /\ UNCHANGED <<auth, cardWallet>>
        /\ \A s \in Requests : s # t => charged'[s] = charged[s]
        /\ pc' = [pc EXCEPT ![r] = "answered"]
    BY <1>0, <1>10 DEF CaptureEntries, RefundEntries, Charge, Statement
  <2> QED
    BY <1>0, <2>1, <2>2 DEF Authorised
<1> QED
  BY <1>2, <1>3, <1>4, <1>5, <1>6, <1>7, <1>8, <1>9, <1>10 DEF BankingNext, CardNext

\* The transaction that a body or a key names exists when the call writes it.
LEMMA NamedStep ==
    ASSUME BankingTypeOK, Reached, Created, Named, Authorised, [BankingNext]_bankVars
    PROVE  Named'
<1>0. /\ body' = body
      /\ pc \in [Requests -> Labels] /\ keys \in [Keys -> Requests \cup {None}]
      /\ \A s \in Requests : Exists(s) => Exists(s)'
      /\ \A s \in Requests : body[s].key \in Keys \cup {None}
      /\ \A s \in Requests : body[s].kind \in {"COMPLETE", "REVERSE", "FLAG"} \cup AuthKinds
                              => body[s].target \in Requests
      /\ None \notin Requests
  BY BankBodyConstant, ExistsStep, BodyFields, VaultAndCardFields, ConstantsAssumption
  DEF BankingTypeOK, PaymentsTypeOK, TypeOK
<1>01. \A s \in Requests : auth[s] # "NONE" => auth'[s] # "NONE"
  BY <1>0, AuthorisedStep
<1> DEFINE KeysKept == (\A k \in Keys : keys[k] # None => Exists(keys[k]))'
           Kept(s) == \/ pc'[s] = pc[s]
                      \/ body[s].kind \in {"COMPLETE", "REVERSE", "FLAG"} /\ pc'[s] \notin {"commit", "audit"}
                      \/ body[s].kind = "COMPLETE" /\ pc[s] = "commit"
                      \/ body[s].kind \in AuthKinds /\ pc'[s] \in {"answered", "failed"}
                      \/ body[s].kind \in AuthKinds /\ pc[s] \notin {"idle", "answered", "failed"}
                      \/ body[s].kind \notin {"COMPLETE", "REVERSE", "FLAG"} \cup AuthKinds
<1>1. ASSUME KeysKept, \A s \in Requests : Kept(s)
      PROVE  Named'
  BY <1>0, <1>01, <1>1 DEF Named, AuthKinds
<1>2. ASSUME UNCHANGED keys PROVE KeysKept
  BY <1>0, <1>2 DEF Named
<1>3. ASSUME NEW r \in Requests, ReserveKey(r), Exists(r)' PROVE KeysKept
  BY <1>0, <1>3 DEF Named, ReserveKey
<1> USE DEF Goto, AnswerWith
<1>4. CASE UNCHANGED bankVars
  BY <1>1, <1>2, <1>4 DEF bankVars, allVars, vars, calls
<1>5. ASSUME NEW r \in Requests,
             \/ DepositReadWallet(r) \/ WithdrawReadWallet(r) \/ NewKey(r)
             \/ TransferNewKey(r) \/ TransferReadSender(r) \/ TransferReadReceiver(r) \/ Fail(r)
             \/ ReplayResponse(r) \/ TransferReplay(r) \/ AlreadyProcessed(r) \/ Respond(r)
      PROVE  Named'
  <2>1. KeysKept
    BY <1>2, <1>5 DEF DepositReadWallet, WithdrawReadWallet, NewKey, TransferNewKey,
       TransferReadSender, TransferReadReceiver, Fail, ReplayResponse, TransferReplay,
       AlreadyProcessed, Respond
  <2>2. \A s \in Requests : Kept(s)
    BY <1>0, <1>5 DEF DepositReadWallet, WithdrawReadWallet, NewKey, TransferNewKey,
       TransferReadSender, TransferReadReceiver, Fail, ReplayResponse, TransferReplay,
       AlreadyProcessed, Respond, Reached, Keyed, Initiates, MovesVault, AuthKinds
  <2> QED
    BY <1>1, <2>1, <2>2
<1>6. ASSUME NEW r \in Requests, CompleteRead(r) \/ ReverseRead(r) \/ FlagRead(r)
      PROVE  Named'
  <2>1. /\ UNCHANGED <<keys, status>> /\ pc' = [pc EXCEPT ![r] = "commit"]
        /\ body[r].kind \in {"COMPLETE", "REVERSE", "FLAG"}
        /\ Exists(body[r].target)
    BY <1>6 DEF CompleteRead, ReverseRead, FlagRead, Checked, wallets, MayComplete, Reversible,
       Exists
  <2> QED
    BY <1>0, <1>01, <2>1 DEF Named, AuthKinds
<1>7. ASSUME NEW r \in Requests,
             \/ DepositCommit(r) \/ WithdrawCommit(r) \/ TransferCommit(r)
             \/ SettleDeposit(r) \/ SettleWithdrawal(r)
      PROVE  Named'
  <2>1. KeysKept
    <3>1. CASE DepositCommit(r) \/ WithdrawCommit(r)
      <4>1. ReserveKey(r) /\ Exists(r)'
        BY <3>1 DEF DepositCommit, WithdrawCommit, Exists, BankingTypeOK, PaymentsTypeOK, TypeOK
      <4> QED
        BY <1>3, <4>1
    <3>2. CASE TransferCommit(r) \/ SettleDeposit(r) \/ SettleWithdrawal(r)
      BY <1>2, <3>2 DEF TransferCommit, SettleDeposit, SettleWithdrawal
    <3> QED
      BY <1>7, <3>1, <3>2
  <2>2. \A s \in Requests : Kept(s)
    BY <1>0, <1>7 DEF DepositCommit, WithdrawCommit, TransferCommit, SettleDeposit,
       SettleWithdrawal, AuthKinds
  <2> QED
    BY <1>1, <2>1, <2>2
<1>8. ASSUME NEW r \in Requests, TransferStoreKey(r)
      PROVE  Named'
  <2>1. ReserveKey(r) /\ Exists(r)'
    BY <1>0, <1>8 DEF TransferStoreKey, Reached, Created
  <2>2. \A s \in Requests : Kept(s)
    BY <1>0, <1>8 DEF TransferStoreKey, Reached, AuthKinds
  <2> QED
    BY <1>1, <1>3, <2>1, <2>2
<1>9. ASSUME NEW r \in Requests,
             \/ FreezeRead(r) \/ UnfreezeRead(r)
             \/ FreezeWrite(r) \/ UnfreezeWrite(r) \/ ReverseWrite(r) \/ FlagWrite(r)
      PROVE  Named'
  <2>1. KeysKept
    BY <1>2, <1>9 DEF FreezeRead, UnfreezeRead, FreezeWrite, UnfreezeWrite, ReverseWrite,
       FlagWrite, Checked, Written, wallets
  <2>2. \A s \in Requests : Kept(s)
    BY <1>0, <1>9 DEF FreezeRead, UnfreezeRead, FreezeWrite, UnfreezeWrite, ReverseWrite,
       FlagWrite, Checked, Written, AuthKinds
  <2> QED
    BY <1>1, <2>1, <2>2
<1>10. CASE SavingsNext
  <2>1. KeysKept
    <3>1. ASSUME NEW r \in Requests, NEW a, Move(r, a) PROVE KeysKept
      <4>1. ReserveKey(r) /\ Exists(r)'
        BY <3>1 DEF Move, Exists, BankingTypeOK, PaymentsTypeOK, TypeOK
      <4> QED
        BY <1>3, <4>1
    <3> QED
      BY <1>2, <1>10, <3>1 DEF SavingsNext, CreateVault, UpdateVault, LockVault, UnlockVault,
         VaultCall, ReadVault, ReadWallet, VaultNewKey, VaultReplay, DepositToVault,
         WithdrawFromVault
  <2>2. \A s \in Requests : Kept(s)
    BY <1>0, <1>10 DEF SavingsNext, CreateVault, UpdateVault, LockVault, UnlockVault,
       VaultCall, ReadVault, ReadWallet, VaultNewKey, VaultReplay, DepositToVault,
       WithdrawFromVault, Move, MovesVault, AuthKinds
  <2> QED
    BY <1>1, <2>1, <2>2
<1>11. CASE CardNext
  <2>1. KeysKept
    BY <1>2, <1>11, CardCases DEF otherRows
  <2>2. ASSUME NEW r \in Requests, CaptureRead(r) \/ RefundRead(r)
        PROVE  Named'
    <3>1. /\ body[r].kind \in AuthKinds /\ auth[body[r].target] # "NONE"
          /\ \E next \in Labels : pc' = [pc EXCEPT ![r] = next]
      BY <2>2 DEF CaptureRead, RefundRead, Begin, Capturable, AuthKinds, Labels
    <3> QED
      BY <1>0, <1>01, <2>1, <3>1 DEF Named, AuthKinds
  <2>3. ASSUME NEW r \in Requests,
               \/ CreateVirtualCard(r) \/ UpdateVirtualCard(r)
               \/ FreezeVirtualCard(r) \/ UnfreezeVirtualCard(r)
               \/ AdminFreezeCardRead(r) \/ AdminFreezeCardWrite(r)
               \/ AdminUnfreezeCardRead(r) \/ AdminUnfreezeCardWrite(r)
               \/ AuthorizeRead(r)
        PROVE  \A s \in Requests : Kept(s)
    BY <1>0, <2>3 DEF CreateVirtualCard, UpdateVirtualCard, FreezeVirtualCard,
       UnfreezeVirtualCard, AdminFreezeCardRead, AdminFreezeCardWrite, AdminUnfreezeCardRead,
       AdminUnfreezeCardWrite, CardCall, AuthorizeRead, Begin, AuthKinds
  <2>4. ASSUME NEW r \in Requests,
               \/ AuthorizeTransaction(r) \/ AuthorizeRecord(r) \/ AuthorizeCounters(r)
               \/ CaptureRecord(r) \/ CaptureTransaction(r)
               \/ CaptureCounters(r) \/ CaptureEntries(r)
               \/ RefundTransaction(r) \/ RefundRecord(r)
               \/ RefundCounters(r) \/ RefundEntries(r)
        PROVE  \A s \in Requests : Kept(s)
    BY <1>0, <2>4 DEF AuthorizeTransaction, AuthorizeRecord, AuthorizeCounters, CaptureRecord,
       CaptureTransaction, CaptureCounters, CaptureEntries, RefundTransaction, RefundRecord,
       RefundCounters, RefundEntries, Charge, Statement, AuthKinds
  <2> QED
    BY <1>1, <1>11, <2>1, <2>2, <2>3, <2>4 DEF CardNext
<1> QED
  BY <1>4, <1>5, <1>6, <1>7, <1>8, <1>9, <1>10, <1>11
  DEF BankingNext, PaymentsNext, WalletNext, AdminNext

\* A step answers no call, or it answers one with a transaction that exists: its
\* own, its target, or the one its key names.
LEMMA BankAnswerCases ==
    ASSUME BankingTypeOK, Reached, Created, Named, Authorised, [BankingNext]_bankVars
    PROVE  \/ /\ answer' = answer
              /\ \A s \in Requests : pc[s] = "answered" => pc'[s] = "answered"
           \/ \E r, t \in Requests :
                /\ pc' = [pc EXCEPT ![r] = "answered"]
                /\ answer' = [answer EXCEPT ![r] = t]
                /\ UNCHANGED <<status, keys>>
                /\ pc[r] # "answered"
                /\ Exists(t)
                /\ Keyed(r) /\ t # r => body[r].key # None /\ t = keys[body[r].key]
                /\ Initiates(r) => Initiates(t) /\ RequestHash(t) = RequestHash(r)
                /\ MovesVault(r) => MovesVault(t) /\ VaultHash(t) = VaultHash(r)
<1> DEFINE Same == /\ answer' = answer
                   /\ \A s \in Requests : pc[s] = "answered" => pc'[s] = "answered"
           Ans(r, t) ==
                /\ pc' = [pc EXCEPT ![r] = "answered"]
                /\ answer' = [answer EXCEPT ![r] = t]
                /\ UNCHANGED <<status, keys>>
                /\ pc[r] # "answered"
                /\ Exists(t)
                /\ Keyed(r) /\ t # r => body[r].key # None /\ t = keys[body[r].key]
                /\ Initiates(r) => Initiates(t) /\ RequestHash(t) = RequestHash(r)
                /\ MovesVault(r) => MovesVault(t) /\ VaultHash(t) = VaultHash(r)
           Goal == Same \/ \E r, t \in Requests : Ans(r, t)
<1>0. /\ pc \in [Requests -> Labels] /\ keys \in [Keys -> Requests \cup {None}]
      /\ \A s \in Requests : body[s].key \in Keys \cup {None}
      /\ \A s \in Requests : body[s].kind \in {"COMPLETE", "REVERSE", "FLAG"} \cup AuthKinds
                              => body[s].target \in Requests
      /\ \A s \in Requests : Initiates(s) => ~ MovesVault(s) /\ body[s].kind # "COMPLETE"
  BY BodyFields, VaultAndCardFields
  DEF BankingTypeOK, PaymentsTypeOK, TypeOK, Initiates, MovesVault
<1> USE DEF Goto
<1>1. ASSUME UNCHANGED bankVars PROVE Same
  BY <1>1 DEF bankVars, allVars, vars, calls
<1>2. ASSUME NEW r \in Requests,
             \/ DepositReadWallet(r) \/ WithdrawReadWallet(r) \/ NewKey(r)
             \/ TransferNewKey(r) \/ TransferReadSender(r) \/ TransferReadReceiver(r)
             \/ CompleteRead(r) \/ Fail(r)
             \/ DepositCommit(r) \/ WithdrawCommit(r) \/ TransferCommit(r)
             \/ TransferStoreKey(r) \/ SettleDeposit(r) \/ SettleWithdrawal(r)
      PROVE  Same
  BY <1>0, <1>2 DEF DepositReadWallet, WithdrawReadWallet, NewKey, TransferNewKey,
     TransferReadSender, TransferReadReceiver, CompleteRead, Fail, DepositCommit,
     WithdrawCommit, TransferCommit, TransferStoreKey, SettleDeposit, SettleWithdrawal
<1>3. ASSUME NEW r \in Requests,
             \/ FreezeRead(r) \/ UnfreezeRead(r) \/ ReverseRead(r) \/ FlagRead(r)
             \/ FreezeWrite(r) \/ UnfreezeWrite(r) \/ ReverseWrite(r) \/ FlagWrite(r)
      PROVE  Same
  BY <1>0, <1>3 DEF FreezeRead, UnfreezeRead, ReverseRead, FlagRead, FreezeWrite,
     UnfreezeWrite, ReverseWrite, FlagWrite, Checked, Written, wallets
<1>4. ASSUME NEW r \in Requests,
             \/ CreateVault(r) \/ UpdateVault(r) \/ LockVault(r) \/ UnlockVault(r)
             \/ ReadVault(r) \/ ReadWallet(r) \/ VaultNewKey(r)
             \/ DepositToVault(r) \/ WithdrawFromVault(r)
      PROVE  Same
  BY <1>0, <1>4 DEF CreateVault, UpdateVault, LockVault, UnlockVault, VaultCall, ReadVault,
     ReadWallet, VaultNewKey, DepositToVault, WithdrawFromVault, Move
<1>5. ASSUME NEW r \in Requests, ReplayResponse(r) \/ VaultReplay(r) \/ TransferReplay(r)
      PROVE  Ans(r, Recorded(r)) /\ Recorded(r) \in Requests
  <2>1. Recorded(r) # None
    BY <1>5 DEF ReplayResponse, VaultReplay, TransferReplay, OwnRecord
  <2>2. /\ Recorded(r) \in Requests /\ Exists(Recorded(r))
        /\ body[r].key # None /\ Recorded(r) = keys[body[r].key]
    BY <1>0, <2>1 DEF Recorded, Named
  <2>3. /\ pc' = [pc EXCEPT ![r] = "answered"] /\ pc[r] # "answered"
        /\ answer' = [answer EXCEPT ![r] = Recorded(r)]
        /\ UNCHANGED <<status, keys>>
    BY <1>5 DEF ReplayResponse, VaultReplay, TransferReplay, AnswerWith
  <2>4. /\ Initiates(r) => Initiates(Recorded(r)) /\ RequestHash(Recorded(r)) = RequestHash(r)
        /\ MovesVault(r) => MovesVault(Recorded(r)) /\ VaultHash(Recorded(r)) = VaultHash(r)
    BY <1>0, <1>5 DEF ReplayResponse, VaultReplay, TransferReplay, Replayable,
       VaultReplayable, Initiates, MovesVault
  <2> QED
    BY <2>2, <2>3, <2>4
<1>6. ASSUME NEW r \in Requests, AlreadyProcessed(r)
      PROVE  Goal
  <2>1. body[r].target \in Requests /\ Ans(r, body[r].target)
    BY <1>0, <1>6 DEF AlreadyProcessed, AnswerWith, Exists, Keyed, Initiates, MovesVault
  <2> QED
    BY <2>1
<1>7. ASSUME NEW r \in Requests, Respond(r)
      PROVE  Goal
  <2> DEFINE t == IF body[r].kind = "COMPLETE" THEN body[r].target ELSE r
  <2>1. t \in Requests /\ Exists(t)
    BY <1>0, <1>7 DEF Respond, AnswerWith, Created, Named
  <2>2. /\ Keyed(r) => t = r
        /\ pc' = [pc EXCEPT ![r] = "answered"] /\ pc[r] # "answered"
        /\ answer' = [answer EXCEPT ![r] = t]
        /\ UNCHANGED <<status, keys>>
    BY <1>7 DEF Respond, AnswerWith, Keyed, Initiates, MovesVault
  <2>3. Ans(r, t)
    <3> HIDE DEF t
    <3> QED
      BY <2>1, <2>2 DEF Keyed
  <2> QED
    BY <2>1, <2>3
<1>8. ASSUME NEW r \in Requests,
             \/ CreateVirtualCard(r) \/ UpdateVirtualCard(r)
             \/ FreezeVirtualCard(r) \/ UnfreezeVirtualCard(r)
             \/ AdminFreezeCardRead(r) \/ AdminFreezeCardWrite(r)
             \/ AdminUnfreezeCardRead(r) \/ AdminUnfreezeCardWrite(r)
             \/ AuthorizeRead(r) \/ CaptureRead(r) \/ RefundRead(r)
      PROVE  Same
  BY <1>0, <1>8 DEF CreateVirtualCard, UpdateVirtualCard, FreezeVirtualCard,
     UnfreezeVirtualCard, AdminFreezeCardRead, AdminFreezeCardWrite, AdminUnfreezeCardRead,
     AdminUnfreezeCardWrite, CardCall, AuthorizeRead, CaptureRead, RefundRead, Begin
<1>9. ASSUME NEW r \in Requests,
             \/ AuthorizeTransaction(r) \/ AuthorizeRecord(r)
             \/ CaptureRecord(r) \/ CaptureTransaction(r) \/ CaptureCounters(r)
             \/ RefundTransaction(r) \/ RefundRecord(r) \/ RefundCounters(r)
      PROVE  Same
  BY <1>0, <1>9 DEF AuthorizeTransaction, AuthorizeRecord, CaptureRecord, CaptureTransaction,
     CaptureCounters, RefundTransaction, RefundRecord, RefundCounters, Statement
<1>10. ASSUME NEW r \in Requests, AuthorizeCounters(r)
       PROVE  Ans(r, r)
  BY <1>10 DEF AuthorizeCounters, Statement, AnswerWith, otherRows, Created, Keyed, Initiates,
     MovesVault
<1>11. ASSUME NEW r \in Requests, CaptureEntries(r) \/ RefundEntries(r)
       PROVE  Goal
  <2> DEFINE t == body[r].target
  <2>1. t \in Requests /\ Exists(t)
    BY <1>11, CardOfCall DEF CaptureEntries, RefundEntries, Statement, AuthKinds
  <2>2. Ans(r, t)
    BY <1>11, <2>1 DEF CaptureEntries, RefundEntries, Charge, Statement, AnswerWith, otherRows,
       Keyed, Initiates, MovesVault
  <2> QED
    BY <2>1, <2>2
<1> HIDE DEF Same, Ans
<1>12. WalletNext => Goal
  BY <1>2, <1>5, <1>6, <1>7 DEF WalletNext
<1>13. AdminNext => Goal
  BY <1>3 DEF AdminNext
<1>14. SavingsNext => Goal
  BY <1>4, <1>5 DEF SavingsNext
<1>15. CardNext => Goal
  BY <1>8, <1>9, <1>10, <1>11 DEF CardNext
<1>16. Goal
  <2>1. WalletNext \/ AdminNext \/ SavingsNext \/ CardNext \/ UNCHANGED bankVars
    BY DEF BankingNext, PaymentsNext
  <2> QED
    BY <1>1, <1>12, <1>13, <1>14, <1>15, <2>1
<1> QED
  BY <1>16 DEF Same, Ans

\* An answer is given once, for good, and stays the faithful one.
LEMMA AnsweredStep ==
    ASSUME BankingTypeOK, Reached, Created, Named, Authorised, Answered, ReplayFaithfulBank,
           [BankingNext]_bankVars
    PROVE  Answered' /\ ReplayFaithfulBank'
<1>1. /\ body' = body /\ None \notin Requests
      /\ \A s \in Requests : Exists(s) => Exists(s)'
      /\ pc \in [Requests -> Labels] /\ answer \in [Requests -> Requests \cup {None}]
  BY BankBodyConstant, ExistsStep, ConstantsAssumption DEF BankingTypeOK, PaymentsTypeOK, TypeOK
<1> USE DEF Answered, ReplayFaithfulBank, Initiates, MovesVault, RequestHash, VaultHash
<1>2. CASE /\ answer' = answer
           /\ \A s \in Requests : pc[s] = "answered" => pc'[s] = "answered"
  BY <1>1, <1>2
<1>3. ASSUME NEW r \in Requests, NEW t \in Requests,
             pc' = [pc EXCEPT ![r] = "answered"],
             answer' = [answer EXCEPT ![r] = t],
             Exists(t),
             Initiates(r) => Initiates(t) /\ RequestHash(t) = RequestHash(r),
             MovesVault(r) => MovesVault(t) /\ VaultHash(t) = VaultHash(r)
      PROVE  Answered' /\ ReplayFaithfulBank'
  BY <1>1, <1>3
<1> QED
  BY <1>2, <1>3, BankAnswerCases

-----------------------------------------------------------------------------
(* Wallets, vaults and cards against their ledger.                         *)

\* The payments from w, by the card each was authorised on.
LEMMA PaymentsFromWallet ==
    ASSUME BankingTypeOK, NEW w
    PROVE  PaymentsFrom(w) =
             {t \in Requests : /\ body[t].kind = "CARD_AUTHORIZE" /\ auth[t] # "NONE"
                               /\ cardWallet[body[t].card] = w}
<1>1. \A t \in Requests : body[t].kind = "CARD_AUTHORIZE" => body[t].card \in Cards
  BY VaultAndCardFields DEF CardKinds
<1> QED
  BY <1>1 DEF PaymentsFrom, PaymentsOf

\* What is charged to w is an integer.
LEMMA ChargesType ==
    ASSUME BankingTypeOK, NEW w
    PROVE  IsFiniteSet(PaymentsFrom(w)) /\ PaymentsFrom(w) \subseteq Requests
           /\ CardCharges(w) \in Int
<1>1. PaymentsFrom(w) \subseteq Requests
  BY DEF PaymentsFrom, PaymentsOf
<1>2. IsFiniteSet(PaymentsFrom(w))
  BY <1>1, RequestsAssumption, FS_Subset
<1>3. \A t \in PaymentsFrom(w) : charged[t] \in Int
  BY <1>1 DEF BankingTypeOK, CardTypeOK
<1> QED
  BY <1>1, <1>2, <1>3, SumInt DEF CardCharges

\* A step that writes none of the sums' rows.
LEMMA LedgerKept ==
    ASSUME LostOnlyToStaleReads,
           UNCHANGED <<balance, moves, current, vaultMoves, stale, auth, charged, cardWallet, body>>
    PROVE  LostOnlyToStaleReads'
BY DEF LostOnlyToStaleReads, CardCharges, PaymentsFrom, PaymentsOf

\* A balance and its ledger move together, and where a vault move overwrites a
\* row that has changed since it was read, the row is remembered as stale.
LEMMA LedgerStep ==
    ASSUME BankingTypeOK, BankingTypeOK', Reached, Reads, Named, Authorised,
           LostOnlyToStaleReads, [BankingNext]_bankVars
    PROVE  LostOnlyToStaleReads'
<1> DEFINE Vault == UNCHANGED <<current, vaultMoves, stale>>
           Card  == UNCHANGED <<auth, charged, cardWallet>>
           Row == UNCHANGED <<balance, moves>>
<1>0. /\ body' = body /\ PaymentsTypeOK
      /\ \A s \in Requests : body[s].amount \in Nat
      /\ balance \in [Wallets -> Int] /\ moves \in [Wallets -> Int]
      /\ current \in [Vaults -> Int] /\ vaultMoves \in [Vaults -> Int]
      /\ Opening \in [Wallets -> Nat] /\ OpeningVault \in [Vaults -> Nat]
      /\ auth \in [Requests -> AuthStatuses] /\ charged \in [Requests -> Int]
      /\ cardWallet \in [Cards -> Wallets \cup {None}] /\ None \notin Wallets
      /\ \A w \in Wallets : CardCharges(w) \in Int
  BY BankBodyConstant, BodyFields, ChargesType, ConstantsAssumption, VaultsAssumption
  DEF BankingTypeOK, PaymentsTypeOK, TypeOK, VaultTypeOK, CardTypeOK
<1>01. Card => \A w \in Wallets : CardCharges(w)' = CardCharges(w)
  BY <1>0 DEF CardCharges, PaymentsFrom, PaymentsOf
<1>02. Card /\ Vault /\ Row => LostOnlyToStaleReads'
  BY <1>0, LedgerKept
<1> USE DEF vaultVars, vaultRows, cardVars, cardRows, authRows
<1>1. CASE UNCHANGED bankVars
  BY <1>02, <1>1 DEF bankVars, allVars, vars, ledger
<1>2. ASSUME UNCHANGED <<vaultVars, cardVars>>, NEW r \in Requests,
             \/ DepositReadWallet(r) \/ WithdrawReadWallet(r) \/ NewKey(r)
             \/ TransferNewKey(r) \/ TransferReadSender(r) \/ TransferReadReceiver(r)
             \/ CompleteRead(r) \/ Fail(r)
             \/ ReplayResponse(r) \/ TransferReplay(r) \/ AlreadyProcessed(r) \/ Respond(r)
             \/ DepositCommit(r) \/ WithdrawCommit(r) \/ TransferStoreKey(r)
             \/ SettleWithdrawal(r)
      PROVE  LostOnlyToStaleReads'
  BY <1>02, <1>2 DEF DepositReadWallet, WithdrawReadWallet, NewKey, TransferNewKey,
     TransferReadSender, TransferReadReceiver, CompleteRead, Fail, ReplayResponse,
     TransferReplay, AlreadyProcessed, Respond, DepositCommit, WithdrawCommit,
     TransferStoreKey, SettleWithdrawal, ledger
<1>3. ASSUME UNCHANGED <<vaultVars, cardVars>>, AdminNext
      PROVE  LostOnlyToStaleReads'
  BY <1>02, <1>3 DEF AdminNext, FreezeRead, UnfreezeRead, ReverseRead, FlagRead, FreezeWrite,
     UnfreezeWrite, ReverseWrite, FlagWrite, Checked, Written, wallets, ledger
<1>4. ASSUME Card, Vault,
             \A w \in Wallets : balance'[w] - moves'[w] = balance[w] - moves[w],
             balance' \in [Wallets -> Int], moves' \in [Wallets -> Int]
      PROVE  LostOnlyToStaleReads'
  <2>1. ASSUME NEW w \in Wallets \ stale
        PROVE  balance'[w] = Opening[w] + moves'[w] + CardCharges(w)
    <3>1. balance[w] = Opening[w] + moves[w] + CardCharges(w)
      BY DEF LostOnlyToStaleReads
    <3>2. /\ balance[w] \in Int /\ moves[w] \in Int /\ Opening[w] \in Int
          /\ balance'[w] \in Int /\ moves'[w] \in Int /\ CardCharges(w) \in Int
          /\ balance'[w] - moves'[w] = balance[w] - moves[w]
      BY <1>0, <1>4
    <3> QED
      BY <3>1, <3>2
  <2> QED
    BY <1>0, <1>01, <1>4, <2>1 DEF LostOnlyToStaleReads
<1>5. ASSUME UNCHANGED <<vaultVars, cardVars>>, NEW r \in Requests, TransferCommit(r)
      PROVE  LostOnlyToStaleReads'
  <2>1. body[r].wallet \in Wallets /\ body[r].to \in Wallets
    BY <1>0, <1>5, BodyFields DEF TransferCommit
  <2>2. balance' = Moved(balance, r) /\ moves' = Moved(moves, r)
    BY <1>5 DEF TransferCommit
  <2> QED
    BY <1>0, <1>4, <1>5, <2>1, <2>2 DEF Moved
<1>6. ASSUME UNCHANGED <<vaultVars, cardVars>>, NEW r \in Requests, SettleDeposit(r)
      PROVE  LostOnlyToStaleReads'
  <2> DEFINE t == body[r].target
  <2>1. t \in Requests /\ body[t].kind = "DEPOSIT"
    BY <1>0, <1>6, BodyFields DEF SettleDeposit
  <2>2. body[t].wallet \in Wallets /\ body[t].amount \in Nat
    BY <1>0, <2>1, BodyFields
  <2>3. balance' = Credited(balance, t) /\ moves' = Credited(moves, t)
    BY <1>6 DEF SettleDeposit, Credit, PostCredit
  <2> HIDE DEF t
  <2> QED
    BY <1>0, <1>4, <1>6, <2>2, <2>3 DEF Credited
<1>7. ASSUME UNCHANGED cardVars, NEW r \in Requests,
             \/ CreateVault(r) \/ UpdateVault(r) \/ LockVault(r) \/ UnlockVault(r)
             \/ ReadVault(r) \/ ReadWallet(r) \/ VaultNewKey(r) \/ VaultReplay(r)
      PROVE  LostOnlyToStaleReads'
  BY <1>02, <1>7 DEF CreateVault, UpdateVault, LockVault, UnlockVault, VaultCall, ReadVault,
     ReadWallet, VaultNewKey, VaultReplay, ledger
<1>8. ASSUME UNCHANGED cardVars, NEW r \in Requests, NEW a \in Int, MovesVault(r), Move(r, a)
      PROVE  LostOnlyToStaleReads'
  <2> DEFINE w == seenLink[r]
             v == body[r].vault
  <2>1. w \in Wallets /\ v \in Vaults
    BY <1>8, VaultAndCardFields DEF Move, Goto, Reads, MovesVault, VaultKinds
  <2>2. /\ seenBalance[r] \in Int /\ seenVault[r] \in Int
        /\ balance' = [balance EXCEPT ![w] = seenBalance[r] - a]
        /\ moves' = [moves EXCEPT ![w] = @ - a]
        /\ current' = [current EXCEPT ![v] = seenVault[r] + a]
        /\ vaultMoves' = [vaultMoves EXCEPT ![v] = @ + a]
        /\ stale' = stale \cup Overwritten(r)
    BY <1>8 DEF Move, MoveWritten, MoveBooked, BankingTypeOK, VaultTypeOK
  <2>3. /\ w \notin stale' => seenBalance[r] = balance[w]
        /\ v \notin stale' => seenVault[r] = current[v]
    BY <2>2 DEF Overwritten
  <2> HIDE DEF w, v
  <2>4. \A x \in Wallets \ stale' : balance'[x] = Opening[x] + moves'[x] + CardCharges(x)
    BY <1>0, <2>1, <2>2, <2>3 DEF LostOnlyToStaleReads
  <2>5. \A x \in Vaults \ stale' : current'[x] = OpeningVault[x] + vaultMoves'[x]
    BY <1>0, <2>1, <2>2, <2>3 DEF LostOnlyToStaleReads
  <2> QED
    BY <1>0, <1>01, <1>8, <2>4, <2>5 DEF LostOnlyToStaleReads
<1>9. ASSUME UNCHANGED cardVars, NEW r \in Requests, DepositToVault(r) \/ WithdrawFromVault(r)
      PROVE  LostOnlyToStaleReads'
  <2>1. body[r].amount \in Int /\ 0 - body[r].amount \in Int /\ MovesVault(r)
    BY <1>0, <1>9 DEF DepositToVault, WithdrawFromVault, MovesVault
  <2> QED
    BY <1>8, <1>9, <2>1 DEF DepositToVault, WithdrawFromVault
<1>10. ASSUME UNCHANGED vaultVars, NEW r \in Requests,
              \/ UpdateVirtualCard(r) \/ FreezeVirtualCard(r) \/ UnfreezeVirtualCard(r)
              \/ AdminFreezeCardRead(r) \/ AdminFreezeCardWrite(r)
              \/ AdminUnfreezeCardRead(r) \/ AdminUnfreezeCardWrite(r)
              \/ AuthorizeRead(r) \/ CaptureRead(r) \/ RefundRead(r)
              \/ AuthorizeTransaction(r) \/ AuthorizeCounters(r)
              \/ CaptureTransaction(r) \/ CaptureCounters(r)
              \/ RefundTransaction(r) \/ RefundCounters(r)
       PROVE  LostOnlyToStaleReads'
  BY <1>02, <1>10 DEF UpdateVirtualCard, FreezeVirtualCard, UnfreezeVirtualCard,
     AdminFreezeCardRead, AdminFreezeCardWrite, AdminUnfreezeCardRead,
     AdminUnfreezeCardWrite, CardCall, AuthorizeRead, CaptureRead, RefundRead, Begin,
     AuthorizeTransaction, AuthorizeCounters, CaptureTransaction, CaptureCounters,
     RefundTransaction, RefundCounters, Statement, otherRows
<1>11. ASSUME UNCHANGED vaultVars, UNCHANGED <<balance, moves, charged>>,
              \A w \in Wallets : PaymentsFrom(w)' = PaymentsFrom(w)
       PROVE  LostOnlyToStaleReads'
  BY <1>11 DEF LostOnlyToStaleReads, CardCharges
<1>12. ASSUME UNCHANGED vaultVars, NEW r \in Requests, CreateVirtualCard(r)
       PROVE  LostOnlyToStaleReads'
  <2>1. /\ body[r].card \in Cards /\ cardWallet[body[r].card] = None
        /\ UNCHANGED <<balance, moves, charged, auth>>
        /\ \A c \in Cards : c # body[r].card => cardWallet'[c] = cardWallet[c]
    BY <1>0, <1>12, VaultAndCardFields DEF CreateVirtualCard, CardCall, otherRows, CardKinds
  <2>2. \A t \in Requests : body[t].kind = "CARD_AUTHORIZE" /\ auth[t] # "NONE"
            => body[t].card \in Cards /\ cardWallet'[body[t].card] = cardWallet[body[t].card]
    BY <1>0, <2>1, VaultAndCardFields DEF Authorised, CardKinds
  <2>3. \A w \in Wallets : PaymentsFrom(w)' = PaymentsFrom(w)
    BY <1>0, <2>1, <2>2 DEF PaymentsFrom, PaymentsOf
  <2> QED
    BY <1>11, <1>12, <2>1, <2>3
<1>13. ASSUME UNCHANGED vaultVars, NEW r \in Requests, CaptureRecord(r) \/ RefundRecord(r)
       PROVE  LostOnlyToStaleReads'
  <2> DEFINE t == body[r].target
  <2>1. /\ UNCHANGED <<balance, moves, charged, cardWallet>>
        /\ \E a \in {"CAPTURED", "REVERSED"} : auth' = [auth EXCEPT ![t] = a]
    BY <1>13 DEF CaptureRecord, RefundRecord, Statement, otherRows
  <2>2. t \in Requests /\ auth[t] # "NONE"
    BY <1>13, CardOfCall DEF CaptureRecord, RefundRecord, Statement, AuthKinds
  <2>3. \A w \in Wallets : PaymentsFrom(w)' = PaymentsFrom(w)
    BY <1>0, <2>1, <2>2 DEF PaymentsFrom, PaymentsOf
  <2> QED
    BY <1>11, <1>13, <2>1, <2>3
<1>14. ASSUME UNCHANGED vaultVars, NEW r \in Requests, AuthorizeRecord(r)
       PROVE  LostOnlyToStaleReads'
  <2>1. /\ UNCHANGED <<balance, moves, charged, cardWallet>>
        /\ auth' = [auth EXCEPT ![r] = "AUTHORIZED"]
        /\ body[r].kind = "CARD_AUTHORIZE"
    BY <1>14 DEF AuthorizeRecord, Statement, otherRows
  <2>2. ASSUME auth[r] # "NONE" PROVE \A w \in Wallets : PaymentsFrom(w)' = PaymentsFrom(w)
    BY <1>0, <2>1, <2>2 DEF PaymentsFrom, PaymentsOf
  <2>3. ASSUME auth[r] = "NONE", NEW w \in Wallets
        PROVE  CardCharges(w)' = CardCharges(w)
    <3>1. charged[r] = 0 /\ r \notin PaymentsFrom(w)
      BY <2>3 DEF Authorised, PaymentsFrom, PaymentsOf
    <3>2. PaymentsFrom(w)' = PaymentsFrom(w) \/ PaymentsFrom(w)' = PaymentsFrom(w) \cup {r}
      BY <1>0, <2>1 DEF PaymentsFrom, PaymentsOf
    <3>3. /\ IsFiniteSet(PaymentsFrom(w)) /\ CardCharges(w) \in Int
          /\ \A x \in PaymentsFrom(w) \cup {r} : charged[x] \in Int
      BY <1>0, ChargesType
    <3>4. SumFunctionOnSet(charged, PaymentsFrom(w) \cup {r})
            = charged[r] + SumFunctionOnSet(charged, PaymentsFrom(w))
      BY <3>1, <3>3, SumAdd
    <3> QED
      <4>1. SumFunctionOnSet(charged, PaymentsFrom(w) \cup {r}) = CardCharges(w)
        BY <3>1, <3>3, <3>4 DEF CardCharges
      <4> QED
        BY <2>1, <3>2, <4>1 DEF CardCharges
  <2>4. CASE auth[r] # "NONE"
    BY <1>11, <1>14, <2>1, <2>2, <2>4
  <2>5. CASE auth[r] = "NONE"
    BY <1>14, <2>1, <2>3, <2>5 DEF LostOnlyToStaleReads
  <2> QED
    BY <2>4, <2>5
<1>15. ASSUME UNCHANGED vaultVars, NEW r \in Requests, NEW a \in Int,
              body[r].kind \in AuthKinds, pc[r] = "entries", Charge(r, body[r].target, a),
              UNCHANGED <<balance, cardWallet>>
       PROVE  LostOnlyToStaleReads'
  <2> DEFINE t == body[r].target
  <2> PICK x \in Wallets : x = cardWallet[CardOf(r)]
    BY <1>15, CardOfCall
  <2>1. /\ t \in Requests /\ auth[t] # "NONE" /\ body[t].kind = "CARD_AUTHORIZE"
        /\ x = cardWallet[body[t].card]
    BY <1>15, CardOfCall
  <2>2. /\ charged' = [charged EXCEPT ![t] = @ + a]
        /\ moves' = [moves EXCEPT ![x] = @ - a]
        /\ auth' = auth
    BY <1>15 DEF Charge
  <2>3. \A w \in Wallets : PaymentsFrom(w)' = PaymentsFrom(w) /\ (t \in PaymentsFrom(w) <=> w = x)
    <3>1. \A w \in Wallets : PaymentsFrom(w)' = PaymentsFrom(w)
      BY <1>0, <1>15, <2>2 DEF PaymentsFrom, PaymentsOf
    <3>2. \A w \in Wallets : t \in PaymentsFrom(w) <=> w = x
      BY <2>1, PaymentsFromWallet
    <3> QED
      BY <3>1, <3>2
  <2> HIDE DEF t
  <2>4. CardCharges(x)' = CardCharges(x) + a
    <3>1. IsFiniteSet(PaymentsFrom(x)) /\ PaymentsFrom(x) \subseteq Requests /\ t \in PaymentsFrom(x)
      BY <2>1, <2>3, ChargesType
    <3>2. /\ \A y \in PaymentsFrom(x) : charged[y] \in Int /\ charged'[y] \in Int
          /\ \A y \in PaymentsFrom(x) : y # t => charged[y] = charged'[y]
          /\ charged'[t] - charged[t] = a
      BY <1>0, <2>2, <3>1
    <3>3. SumFunctionOnSet(charged', PaymentsFrom(x))
            = SumFunctionOnSet(charged, PaymentsFrom(x)) + (charged'[t] - charged[t])
      BY <3>1, <3>2, SumChange
    <3> QED
      <4>1. SumFunctionOnSet(charged', PaymentsFrom(x)) = CardCharges(x) + a
        BY <3>2, <3>3 DEF CardCharges
      <4>2. CardCharges(x)' = SumFunctionOnSet(charged', PaymentsFrom(x))
        BY <2>1, <2>3 DEF CardCharges
      <4> QED
        BY <4>1, <4>2
  <2>5. ASSUME NEW w \in Wallets, w # x PROVE CardCharges(w)' = CardCharges(w)
    <3>1. /\ IsFiniteSet(PaymentsFrom(w))
          /\ \A y \in PaymentsFrom(w) : charged[y] = charged'[y]
      BY <1>0, <2>2, <2>3, <2>5, ChargesType
    <3>2. SumFunctionOnSet(charged, PaymentsFrom(w)) = SumFunctionOnSet(charged', PaymentsFrom(w))
      BY <3>1, SumSame
    <3> QED
      BY <2>3, <3>2 DEF CardCharges
  <2>6. ASSUME NEW w \in Wallets \ stale
        PROVE  balance[w] = Opening[w] + moves'[w] + CardCharges(w)'
    <3>1. /\ balance[w] = Opening[w] + moves[w] + CardCharges(w)
          /\ Opening[w] \in Int /\ moves[w] \in Int /\ CardCharges(w) \in Int
      BY <1>0 DEF LostOnlyToStaleReads
    <3>2. CASE w = x
      BY <1>0, <2>2, <2>4, <3>1, <3>2
    <3>3. CASE w # x
      BY <1>0, <2>2, <2>5, <3>1, <3>3
    <3> QED
      BY <3>2, <3>3
  <2> QED
    BY <1>15, <2>6 DEF LostOnlyToStaleReads
<1>16. ASSUME UNCHANGED vaultVars, NEW r \in Requests, CaptureEntries(r) \/ RefundEntries(r)
       PROVE  LostOnlyToStaleReads'
  <2>1. /\ body[r].kind \in AuthKinds /\ pc[r] = "entries" /\ UNCHANGED <<balance, cardWallet>>
        /\ Charge(r, body[r].target, body[r].amount)
           \/ Charge(r, body[r].target, 0 - body[r].amount)
    BY <1>16 DEF CaptureEntries, RefundEntries, Statement, otherRows, AuthKinds
  <2>2. body[r].amount \in Int /\ 0 - body[r].amount \in Int
    BY <1>0
  <2> QED
    BY <1>15, <1>16, <2>1, <2>2
<1>17. CASE WalletNext /\ UNCHANGED <<vaultVars, cardVars>>
  BY <1>2, <1>5, <1>6, <1>17 DEF WalletNext
<1>18. CASE SavingsNext /\ UNCHANGED cardVars
  BY <1>7, <1>9, <1>18 DEF SavingsNext
<1>19. CASE CardNext /\ UNCHANGED vaultVars
  BY <1>10, <1>12, <1>13, <1>14, <1>16, <1>19 DEF CardNext
<1> QED
  BY <1>1, <1>3, <1>17, <1>18, <1>19 DEF BankingNext, PaymentsNext

-----------------------------------------------------------------------------
(* The theorems.                                                           *)

LEMMA BankInvariantInit == BankingInit => BankInv
<1> SUFFICES ASSUME BankingInit PROVE BankInv
  OBVIOUS
<1>1. BankingTypeOK
  BY BankTypeInit
<1> USE DEF BankingInit, PaymentsInit, Init, SavingsInit, CardInit
<1>2. Reached /\ Reads /\ Created /\ Named /\ Authorised /\ Answered
  BY DEF Reached, Reads, Created, Named, Authorised, Answered, Exists
<1>3. ReplayFaithfulBank
  BY DEF ReplayFaithfulBank
<1>4. NothingOverdrawn
  BY ConstantsAssumption, VaultsAssumption DEF NothingOverdrawn, NoOverdraft
<1>5. \A w \in Wallets : CardCharges(w) = 0
  <2>1. \A w \in Wallets : PaymentsFrom(w) = {}
    BY DEF PaymentsFrom, PaymentsOf
  <2> QED
    BY <2>1, SumEmpty DEF CardCharges
<1>6. LostOnlyToStaleReads
  BY <1>5, ConstantsAssumption, VaultsAssumption DEF LostOnlyToStaleReads
<1> QED
  BY <1>1, <1>2, <1>3, <1>4, <1>6 DEF BankInv

LEMMA BankInvariantStep == BankInv /\ [BankingNext]_bankVars => BankInv'
<1> SUFFICES ASSUME BankInv, [BankingNext]_bankVars PROVE BankInv'
  OBVIOUS
<1> USE DEF BankInv
<1>1. BankingTypeOK' /\ Reached' /\ Reads' /\ NothingOverdrawn'
  BY BankTypeStep, ReachedStep, ReadsStep
<1>2. Created' /\ Named' /\ Authorised'
  <2>1. \A s \in Requests : Exists(s) => Exists(s)'
    BY ExistsStep
  <2> QED
    BY <2>1, CreatedStep, NamedStep, AuthorisedStep
<1>3. Answered' /\ ReplayFaithfulBank'
  BY AnsweredStep
<1>4. LostOnlyToStaleReads'
  BY <1>1, LedgerStep
<1> QED
  BY <1>1, <1>2, <1>3, <1>4

\* The inductive invariant holds on every behaviour of the whole bank.
THEOREM BankInvariance == BankingSpec => []BankInv
BY BankInvariantInit, BankInvariantStep, PTL DEF BankingSpec

\* No available balance and no vault is ever negative.
THEOREM BankNeverOverdrawn == BankingSpec => []NothingOverdrawn
<1>1. BankInv => NothingOverdrawn
  BY DEF BankInv
<1> QED
  BY <1>1, BankInvariance, PTL

\* Every answer names a transaction that exists, and a call with a reserved key
\* is answered by a call of its own sort for the same amount.
THEOREM BankReplaysAreFaithful == BankingSpec => []ReplayFaithfulBank
<1>1. BankInv => ReplayFaithfulBank
  BY DEF BankInv
<1> QED
  BY <1>1, BankInvariance, PTL

\* Money is only lost to a vault move that overwrote a row it had read before.
THEOREM OnlyStaleReadsLose == BankingSpec => []LostOnlyToStaleReads
<1>1. BankInv => LostOnlyToStaleReads
  BY DEF BankInv
<1> QED
  BY <1>1, BankInvariance, PTL

-----------------------------------------------------------------------------
(* Refinement: the whole bank implements IdempotentApi.                    *)

\* A call with a reserved key takes effect with its key; a transfer's key is
\* taken alone; every other step leaves keys and such calls' rows alone.
LEMMA EffectCases ==
    ASSUME BankInv, [BankingNext]_bankVars
    PROVE  \/ /\ keys' = keys
              /\ \A s \in Requests : Keyed(s) => (Exists(s)' <=> Exists(s))
           \/ \E r \in Requests :
                /\ Keyed(r) /\ ~ Exists(r) /\ Exists(r)'
                /\ \A s \in Requests : s # r => status'[s] = status[s]
                /\ ReserveKey(r) /\ answer' = answer
           \/ \E r \in Requests :
                body[r].key # None /\ ReserveKey(r) /\ UNCHANGED <<status, answer>>
<1> DEFINE Silent == /\ keys' = keys
                     /\ \A s \in Requests : Keyed(s) => (Exists(s)' <=> Exists(s))
           Effect(r) == /\ Keyed(r) /\ ~ Exists(r) /\ Exists(r)'
                        /\ \A s \in Requests : s # r => status'[s] = status[s]
                        /\ ReserveKey(r) /\ answer' = answer
           Takes(r) == body[r].key # None /\ ReserveKey(r) /\ UNCHANGED <<status, answer>>
           Goal == Silent \/ (\E r \in Requests : Effect(r)) \/ (\E r \in Requests : Takes(r))
<1>0. /\ body' = body /\ status \in [Requests -> Statuses] /\ pc \in [Requests -> Labels]
      /\ \A s \in Requests : Exists(s) => Exists(s)'
      /\ BankingTypeOK /\ Reached /\ Created /\ Named /\ Authorised
  BY BankBodyConstant, ExistsStep DEF BankInv, BankingTypeOK, PaymentsTypeOK, TypeOK
<1>1. ASSUME UNCHANGED <<keys, status>> PROVE Silent
  BY <1>1 DEF Exists, Keyed, Initiates, MovesVault
<1>2. ASSUME keys' = keys, NEW t, Exists(t) \/ ~ Keyed(t),
             \A s \in Requests : s # t => status'[s] = status[s]
      PROVE  Silent
  BY <1>0, <1>2 DEF Exists
<1> USE DEF Goto
<1>3. ASSUME NEW r \in Requests,
             \/ DepositCommit(r) \/ WithdrawCommit(r)
             \/ DepositToVault(r) \/ WithdrawFromVault(r)
      PROVE  Effect(r)
  <2>1. Keyed(r) /\ pc[r] = "commit" /\ ReserveKey(r) /\ answer' = answer
        /\ status'[r] # "NONE" /\ \A s \in Requests : s # r => status'[s] = status[s]
    BY <1>0, <1>3 DEF DepositCommit, WithdrawCommit, DepositToVault, WithdrawFromVault, Move,
       Keyed, Initiates, MovesVault
  <2>2. ~ Exists(r)
    BY <1>0, <2>1 DEF Created
  <2> QED
    BY <2>1, <2>2 DEF Exists
<1>4. ASSUME NEW r \in Requests, TransferStoreKey(r) PROVE Takes(r)
  BY <1>0, <1>4 DEF TransferStoreKey, Reached
<1>5. ASSUME NEW r \in Requests, TransferCommit(r) PROVE Silent
  <2>1. keys' = keys /\ ~ Keyed(r) /\ \A s \in Requests : s # r => status'[s] = status[s]
    BY <1>0, <1>5 DEF TransferCommit, Keyed, Initiates, MovesVault
  <2> QED
    BY <1>2, <2>1
<1>6. ASSUME NEW r \in Requests,
             SettleDeposit(r) \/ SettleWithdrawal(r) \/ ReverseWrite(r) \/ FlagWrite(r)
      PROVE  Silent
  <2>1. Exists(body[r].target)
    BY <1>0, <1>6 DEF SettleDeposit, SettleWithdrawal, ReverseWrite, FlagWrite, Written, Named
  <2>2. keys' = keys /\ \A s \in Requests : s # body[r].target => status'[s] = status[s]
    BY <1>0, <1>6 DEF SettleDeposit, SettleWithdrawal, MarkCompleted, ReverseWrite, FlagWrite,
       FlagStatus, Written, wallets
  <2> QED
    BY <1>2, <2>1, <2>2
<1>7. ASSUME NEW r \in Requests, AuthorizeTransaction(r) PROVE Silent
  <2>1. keys' = keys /\ ~ Keyed(r) /\ \A s \in Requests : s # r => status'[s] = status[s]
    BY <1>0, <1>7 DEF AuthorizeTransaction, Statement, otherRows, Keyed, Initiates, MovesVault
  <2> QED
    BY <1>2, <2>1
<1>8. ASSUME NEW r \in Requests, CaptureTransaction(r) \/ RefundTransaction(r) PROVE Silent
  <2>1. Exists(body[r].target)
    BY <1>0, <1>8, CardOfCall DEF CaptureTransaction, RefundTransaction, Statement, AuthKinds
  <2>2. keys' = keys /\ \A s \in Requests : s # body[r].target => status'[s] = status[s]
    BY <1>0, <1>8 DEF CaptureTransaction, RefundTransaction, Statement, otherRows
  <2> QED
    BY <1>2, <2>1, <2>2
<1> HIDE DEF Silent, Effect, Takes
<1>9. WalletNext => Goal
  BY <1>1, <1>3, <1>4, <1>5, <1>6 DEF WalletNext, DepositReadWallet, WithdrawReadWallet,
     NewKey, TransferNewKey, TransferReadSender, TransferReadReceiver, CompleteRead, Fail,
     ReplayResponse, TransferReplay, AlreadyProcessed, Respond
<1>10. AdminNext => Goal
  BY <1>1, <1>6 DEF AdminNext, FreezeRead, UnfreezeRead, ReverseRead, FlagRead,
     FreezeWrite, UnfreezeWrite, Checked, Written, wallets
<1>11. SavingsNext => Goal
  BY <1>1, <1>3 DEF SavingsNext, CreateVault, UpdateVault, LockVault, UnlockVault,
     VaultCall, ReadVault, ReadWallet, VaultNewKey, VaultReplay
<1>12. CardNext => Goal
  BY <1>1, <1>7, <1>8 DEF CardNext, CreateVirtualCard, UpdateVirtualCard,
     FreezeVirtualCard, UnfreezeVirtualCard, AdminFreezeCardRead, AdminFreezeCardWrite,
     AdminUnfreezeCardRead, AdminUnfreezeCardWrite, CardCall, AuthorizeRead, CaptureRead,
     RefundRead, Begin, AuthorizeRecord, AuthorizeCounters, CaptureRecord, CaptureCounters,
     CaptureEntries, RefundRecord, RefundCounters, RefundEntries, Charge, Statement, otherRows
<1>13. UNCHANGED bankVars => Goal
  BY <1>1 DEF bankVars, allVars, vars
<1>14. Goal
  <2>1. WalletNext \/ AdminNext \/ SavingsNext \/ CardNext \/ UNCHANGED bankVars
    BY DEF BankingNext, PaymentsNext
  <2> QED
    BY <1>9, <1>10, <1>11, <1>12, <1>13, <2>1
<1> QED
  BY <1>14 DEF Silent, Effect, Takes

LEMMA BankPromiseInit == BankingInit => BankPromise!Init
<1> SUFFICES ASSUME BankingInit PROVE BankPromise!Init
  OBVIOUS
<1>1. PaymentsTypeOK
  BY TypeInit DEF BankingInit
<1>2. \A r \in Requests : body[r].key \in Keys \cup {None}
  BY <1>1, BodyFields
<1> QED
  BY <1>2 DEF BankingInit, PaymentsInit, Init, BankPromise!Init, Exists

LEMMA BankPromiseStep == BankInv /\ [BankingNext]_bankVars => [BankPromise!Next]_BankPromise!vars
<1> SUFFICES ASSUME BankInv, [BankingNext]_bankVars
             PROVE  [BankPromise!Next]_BankPromise!vars
  OBVIOUS
<1> DEFINE ask   == [s \in Requests |-> body[s].key]
           done  == {s \in Requests : Keyed(s) /\ Exists(s)}
           reply == [s \in Requests |-> IF Keyed(s) THEN answer[s] ELSE None]
<1>1. /\ body' = body /\ ask' = ask
      /\ \A s \in Requests : Keyed(s)' <=> Keyed(s)
  BY BankBodyConstant DEF Keyed, Initiates, MovesVault
<1>2. /\ keys \in [Keys -> Requests \cup {None}]
      /\ answer \in [Requests -> Requests \cup {None}]
      /\ status \in [Requests -> Statuses]
      /\ \A s \in Requests : body[s].key \in Keys \cup {None}
      /\ Reached /\ Answered
  BY BodyFields DEF BankInv, BankingTypeOK, PaymentsTypeOK, TypeOK
<1>3. ASSUME UNCHANGED <<keys, answer>>,
             \A s \in Requests : Keyed(s) => (Exists(s)' <=> Exists(s))
      PROVE  UNCHANGED BankPromise!vars
  <2>1. done' = done /\ reply' = reply
    BY <1>1, <1>3
  <2> QED
    BY <1>1, <1>3, <2>1 DEF BankPromise!vars
<1>4. ASSUME NEW r \in Requests, NEW t \in Requests,
             /\ answer' = [answer EXCEPT ![r] = t]
             /\ UNCHANGED <<status, keys>>
             /\ pc[r] # "answered"
             /\ Exists(t)
             /\ Keyed(r) /\ t # r => body[r].key # None /\ t = keys[body[r].key]
             /\ Keyed(r) => Keyed(t)
      PROVE  [BankPromise!Next]_BankPromise!vars
  <2>1. done' = done
    BY <1>1, <1>4 DEF Exists
  <2>2. CASE Keyed(r)
    <3>1. reply[r] = None /\ t \in done
      BY <1>2, <1>4, <2>2 DEF Answered
    <3>2. reply' = [reply EXCEPT ![r] = t]
      BY <1>1, <1>2, <1>4, <2>2
    <3>3. t = r \/ (ask[r] # None /\ keys[ask[r]] = t)
      BY <1>4, <2>2
    <3>4. BankPromise!Reply(r)
      BY <1>1, <1>4, <2>1, <3>1, <3>2, <3>3 DEF BankPromise!Reply
    <3> QED
      BY <3>4 DEF BankPromise!Next
  <2>3. CASE ~ Keyed(r)
    <3>1. reply' = reply
      BY <1>1, <1>2, <1>4, <2>3
    <3> QED
      BY <1>1, <1>4, <2>1, <3>1 DEF BankPromise!vars
  <2> QED
    BY <2>2, <2>3
<1>5. ASSUME NEW r \in Requests,
             /\ Keyed(r) /\ ~ Exists(r) /\ Exists(r)'
             /\ \A s \in Requests : s # r => status'[s] = status[s]
             /\ ReserveKey(r) /\ answer' = answer
      PROVE  [BankPromise!Next]_BankPromise!vars
  <2>1. done' = done \cup {r} /\ r \notin done /\ reply' = reply
    BY <1>1, <1>5 DEF Exists
  <2>2. IF ask[r] = None
        THEN UNCHANGED keys
        ELSE keys[ask[r]] = None /\ keys' = [keys EXCEPT ![ask[r]] = r]
    BY <1>5 DEF ReserveKey
  <2>3. BankPromise!Perform(r)
    BY <1>1, <2>1, <2>2 DEF BankPromise!Perform
  <2> QED
    BY <2>3 DEF BankPromise!Next
<1>6. ASSUME NEW r \in Requests,
             body[r].key # None /\ ReserveKey(r) /\ UNCHANGED <<status, answer>>
      PROVE  [BankPromise!Next]_BankPromise!vars
  <2>1. done' = done /\ reply' = reply
    BY <1>1, <1>6 DEF Exists
  <2>2. ask[r] # None /\ keys[ask[r]] = None /\ keys' = [keys EXCEPT ![ask[r]] = r]
    BY <1>6 DEF ReserveKey
  <2>3. BankPromise!Take(r)
    BY <1>1, <2>1, <2>2 DEF BankPromise!Take
  <2> QED
    BY <2>3 DEF BankPromise!Next
<1>7. ASSUME keys' = keys, \A s \in Requests : Keyed(s) => (Exists(s)' <=> Exists(s))
      PROVE  [BankPromise!Next]_BankPromise!vars
  <2>1. CASE answer' = answer
    BY <1>3, <1>7, <2>1
  <2>2. CASE answer' # answer
    <3>1. PICK r \in Requests, t \in Requests :
             /\ answer' = [answer EXCEPT ![r] = t]
             /\ UNCHANGED <<status, keys>>
             /\ pc[r] # "answered"
             /\ Exists(t)
             /\ Keyed(r) /\ t # r => body[r].key # None /\ t = keys[body[r].key]
             /\ Initiates(r) => Initiates(t)
             /\ MovesVault(r) => MovesVault(t)
      BY <2>2, BankAnswerCases DEF BankInv
    <3> QED
      BY <1>4, <3>1 DEF Keyed
  <2> QED
    BY <2>1, <2>2
<1> QED
  BY <1>5, <1>6, <1>7, EffectCases

\* Deposits, withdrawals and vault moves keep the promise of idempotency keys
\* whatever else moves on the same wallets.
THEOREM BankRefinement == BankingSpec => BankKeepsPromise
BY BankPromiseInit, BankPromiseStep, BankInvariance, PTL
DEF BankingSpec, BankKeepsPromise, BankPromise!Spec
=============================================================================
