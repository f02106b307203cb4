----------------------------- MODULE CardsProofs -----------------------------
(***************************************************************************)
(* Proofs about the rows and counters of cards in Banking, for any number  *)
(* of cards and calls.                                                     *)
(***************************************************************************)
EXTENDS CardsInvariant, BankingProofs

\* The types of what the proofs below look at.
LEMMA CardTypes ==
    ASSUME BankInv
    PROVE  /\ BankingTypeOK /\ PaymentsTypeOK
           /\ pc \in [Requests -> Labels] /\ status \in [Requests -> Statuses]
           /\ auth \in [Requests -> AuthStatuses]
           /\ authAmount \in [Requests -> Nat] /\ txAmount \in [Requests -> Nat]
           /\ charged \in [Requests -> Int]
           /\ spentToday \in [Cards -> Int] /\ spentTotal \in [Cards -> Int]
           /\ sawToday \in [Requests -> Int] /\ sawTotal \in [Requests -> Int]
           /\ cardWallet \in [Cards -> Wallets \cup {None}]
           /\ limits \in [Cards -> Limits]
           /\ wrote \subseteq Requests /\ lapsed \subseteq Cards
           /\ \A s \in Requests :
                /\ body[s].amount \in Nat /\ body[s].limits \in Limits
                /\ body[s].kind \in CardKinds => body[s].card \in Cards
                /\ body[s].kind \in AuthKinds => body[s].target \in Requests
<1> HIDE DEF Limits
<1> QED
  BY BodyFields, VaultAndCardFields
  DEF BankInv, BankingTypeOK, PaymentsTypeOK, TypeOK, CardTypeOK

\* A call that has ended never goes on.
LEMMA EndedStays ==
    ASSUME BankInv, [BankingNext]_bankVars
    PROVE  \A s \in Requests : pc[s] \in {"answered", "failed"} => pc'[s] = pc[s]
<1> DEFINE Goal == \A s \in Requests : pc[s] \in {"answered", "failed"} => pc'[s] = pc[s]
<1>0. pc \in [Requests -> Labels]
  BY CardTypes
<1> USE DEF Goto, AnswerWith
<1>1. ASSUME WalletNext PROVE Goal
  BY <1>0, <1>1 DEF WalletNext, DepositReadWallet, WithdrawReadWallet, NewKey,
     TransferNewKey, TransferReadSender, TransferReadReceiver, CompleteRead, Fail,
     ReplayResponse, TransferReplay, AlreadyProcessed, Respond, DepositCommit,
     WithdrawCommit, TransferCommit, TransferStoreKey, SettleDeposit, SettleWithdrawal
<1>2. ASSUME AdminNext PROVE Goal
  BY <1>0, <1>2 DEF AdminNext, FreezeRead, UnfreezeRead, ReverseRead, FlagRead,
     FreezeWrite, UnfreezeWrite, ReverseWrite, FlagWrite, Checked, Written
<1>3. ASSUME SavingsNext PROVE Goal
  BY <1>0, <1>3 DEF SavingsNext, CreateVault, UpdateVault, LockVault, UnlockVault,
     VaultCall, ReadVault, ReadWallet, VaultNewKey, VaultReplay, DepositToVault,
     WithdrawFromVault, Move
<1>4. ASSUME CardNext PROVE Goal
  BY <1>0, <1>4, CardCases
<1>5. CASE UNCHANGED bankVars
  BY <1>5 DEF bankVars, allVars, vars, calls
<1> QED
  BY <1>1, <1>2, <1>3, <1>4, <1>5 DEF BankingNext, PaymentsNext

\* What a step of the wallets, the back office or the vaults does to cards: it
\* may stop a call of theirs, and set the status of a payment.
LEMMA OtherSteps ==
    ASSUME BankInv, [BankingNext]_bankVars, ~ CardNext
    PROVE  /\ UNCHANGED cardVars
           /\ \A s \in Requests : body[s].kind \in CardKinds \cup AuthKinds
                                   => pc'[s] = pc[s] \/ pc'[s] = "failed"
           /\ \A t \in Requests : body[t].kind = "CARD_AUTHORIZE" =>
                \/ status'[t] \in {status[t], "REQUIRES_ACTION"}
                \/ /\ status'[t] = "REVERSED"
                   /\ \E r \in Requests : /\ body[r].kind = "REVERSE" /\ pc[r] = "commit"
                                          /\ body[r].target = t
<1> DEFINE Row == \A t \in Requests : body[t].kind = "CARD_AUTHORIZE" =>
                    \/ status'[t] \in {status[t], "REQUIRES_ACTION"}
                    \/ /\ status'[t] = "REVERSED"
                       /\ \E r \in Requests : /\ body[r].kind = "REVERSE" /\ pc[r] = "commit"
                                              /\ body[r].target = t
           Path == \A s \in Requests : body[s].kind \in CardKinds \cup AuthKinds
                                        => pc'[s] = pc[s] \/ pc'[s] = "failed"
<1>0. pc \in [Requests -> Labels] /\ status \in [Requests -> Statuses] /\ Reached
  BY CardTypes DEF BankInv
<1> USE DEF Goto, AnswerWith, CardKinds, AuthKinds
<1>1. CASE UNCHANGED bankVars
  BY <1>1 DEF bankVars, allVars, vars, calls
<1>2. ASSUME UNCHANGED cardVars, Row, Path
      PROVE  /\ UNCHANGED cardVars /\ Row /\ Path
  BY <1>2
<1>3. ASSUME WalletNext PROVE Row /\ Path
  <2>1. ASSUME NEW r \in Requests,
               \/ DepositReadWallet(r) \/ WithdrawReadWallet(r) \/ NewKey(r)
               \/ TransferNewKey(r) \/ TransferReadSender(r) \/ TransferReadReceiver(r)
               \/ CompleteRead(r) \/ Fail(r)
               \/ ReplayResponse(r) \/ TransferReplay(r) \/ AlreadyProcessed(r) \/ Respond(r)
        PROVE  Row /\ Path
    <3>1. Row
      BY <2>1 DEF DepositReadWallet, WithdrawReadWallet, NewKey, TransferNewKey,
         TransferReadSender, TransferReadReceiver, CompleteRead, Fail, ReplayResponse,
         TransferReplay, AlreadyProcessed, Respond
    <3>2. Path
      BY <1>0, <2>1 DEF DepositReadWallet, WithdrawReadWallet, NewKey, TransferNewKey,
         TransferReadSender, TransferReadReceiver, CompleteRead, Fail, ReplayResponse,
         TransferReplay, AlreadyProcessed, Respond, Reached, Keyed, Initiates, MovesVault
    <3> QED
      BY <3>1, <3>2
  <2>2. ASSUME NEW r \in Requests,
               \/ DepositCommit(r) \/ WithdrawCommit(r) \/ TransferCommit(r)
               \/ TransferStoreKey(r) \/ SettleDeposit(r) \/ SettleWithdrawal(r)
        PROVE  Row /\ Path
    BY <1>0, <2>2 DEF DepositCommit, WithdrawCommit, TransferCommit, TransferStoreKey,
       SettleDeposit, SettleWithdrawal, MarkCompleted, Reached
  <2> QED
    BY <1>3, <2>1, <2>2 DEF WalletNext
<1>4. ASSUME AdminNext PROVE Row /\ Path
  BY <1>0, <1>4 DEF AdminNext, FreezeRead, UnfreezeRead, ReverseRead, FlagRead,
     FreezeWrite, UnfreezeWrite, ReverseWrite, FlagWrite, FlagStatus, Checked, Written
<1>5. ASSUME SavingsNext PROVE Row /\ Path
  BY <1>0, <1>5 DEF SavingsNext, CreateVault, UpdateVault, LockVault, UnlockVault,
     VaultCall, ReadVault, ReadWallet, VaultNewKey, VaultReplay, DepositToVault,
     WithdrawFromVault, Move, MovesVault
<1> QED
  BY <1>1, <1>2, <1>3, <1>4, <1>5 DEF BankingNext, PaymentsNext

\* The marks on a card, and the payment calls that have written, only grow.
LEMMA MarksGrow ==
    ASSUME BankInv, [BankingNext]_bankVars
    PROVE  lapsed \subseteq lapsed' /\ wrote \subseteq wrote'
<1> DEFINE Goal == lapsed \subseteq lapsed' /\ wrote \subseteq wrote'
<1>1. CASE ~ CardNext
  BY <1>1, OtherSteps DEF cardVars
<1>2. ASSUME NEW r \in Requests,
             \/ CreateVirtualCard(r) \/ UpdateVirtualCard(r)
             \/ FreezeVirtualCard(r) \/ UnfreezeVirtualCard(r)
             \/ AdminFreezeCardRead(r) \/ AdminFreezeCardWrite(r)
             \/ AdminUnfreezeCardRead(r) \/ AdminUnfreezeCardWrite(r)
             \/ AuthorizeRead(r) \/ CaptureRead(r) \/ RefundRead(r)
      PROVE  Goal
  BY <1>2 DEF CreateVirtualCard, UpdateVirtualCard, FreezeVirtualCard, UnfreezeVirtualCard,
     AdminFreezeCardRead, AdminFreezeCardWrite, AdminUnfreezeCardRead,
     AdminUnfreezeCardWrite, CardCall, AuthorizeRead, CaptureRead, RefundRead, Begin
<1>3. ASSUME NEW r \in Requests,
             \/ AuthorizeTransaction(r) \/ AuthorizeRecord(r) \/ AuthorizeCounters(r)
             \/ CaptureRecord(r) \/ CaptureTransaction(r)
             \/ CaptureCounters(r) \/ CaptureEntries(r)
             \/ RefundTransaction(r) \/ RefundRecord(r)
             \/ RefundCounters(r) \/ RefundEntries(r)
      PROVE  Goal
  BY <1>3 DEF AuthorizeTransaction, AuthorizeRecord, AuthorizeCounters, CaptureRecord,
     CaptureTransaction, CaptureCounters, CaptureEntries, RefundTransaction, RefundRecord,
     RefundCounters, RefundEntries, Statement
<1> QED
  BY <1>1, <1>2, <1>3 DEF CardNext

\* A card that is clean after a step was clean before it.
LEMMA CleanBefore ==
    ASSUME BankInv, [BankingNext]_bankVars, NEW c, Clean(c)'
    PROVE  Clean(c)
<1>1. body' = body /\ wrote \subseteq Requests
  BY BankBodyConstant, CardTypes
<1> QED
  BY <1>1, MarksGrow, EndedStays DEF Clean, CardOf


-----------------------------------------------------------------------------
(* Where the calls are.                                                    *)

\* The statements of a payment, and what each of them does to the labels.
LEMMA WritingStep ==
    ASSUME CardInv, [BankingNext]_bankVars
    PROVE  Writing'
<1>0. /\ BankInv /\ Writing /\ body' = body
      /\ pc \in [Requests -> Labels] /\ auth \in [Requests -> AuthStatuses]
      /\ wrote \subseteq Requests
      /\ \A s \in Requests : body[s].kind \in AuthKinds => body[s].target \in Requests
      /\ \A s \in Requests : body[s].kind \in AuthKinds /\ pc[s] \notin {"idle", "answered", "failed"}
                              => auth[body[s].target] # "NONE"
      /\ \A s \in Requests : auth[s] # "NONE" => body[s].kind = "CARD_AUTHORIZE"
  BY BankBodyConstant, CardTypes DEF CardInv, BankInv, Named, Authorised
<1> USE DEF Past, PaymentKinds, Goto, AnswerWith, Statement, AuthKinds, CardKinds
<1>1. CASE ~ CardNext
  <2>1. UNCHANGED <<auth, wrote>>
    BY <1>0, <1>1, OtherSteps DEF cardVars, authRows
  <2>2. \A s \in Requests : body[s].kind \in CardKinds \cup AuthKinds
                             => pc'[s] = pc[s] \/ pc'[s] = "failed"
    BY <1>0, <1>1, OtherSteps
  <2> QED
    BY <1>0, <2>1, <2>2 DEF Writing
<1>2. ASSUME NEW r \in Requests,
             \/ CreateVirtualCard(r) \/ UpdateVirtualCard(r)
             \/ FreezeVirtualCard(r) \/ UnfreezeVirtualCard(r)
             \/ AdminFreezeCardRead(r) \/ AdminFreezeCardWrite(r)
             \/ AdminUnfreezeCardRead(r) \/ AdminUnfreezeCardWrite(r)
      PROVE  Writing'
  <2>1. /\ body[r].kind \notin PaymentKinds /\ UNCHANGED <<auth, wrote>>
        /\ \E l \in Labels : pc' = [pc EXCEPT ![r] = l]
    BY <1>2 DEF CreateVirtualCard, UpdateVirtualCard, FreezeVirtualCard, UnfreezeVirtualCard,
       AdminFreezeCardRead, AdminFreezeCardWrite, AdminUnfreezeCardRead,
       AdminUnfreezeCardWrite, CardCall, authRows, Labels
  <2> QED
    BY <1>0, <2>1 DEF Writing
<1>3. ASSUME NEW r \in Requests, AuthorizeRead(r) \/ CaptureRead(r) \/ RefundRead(r)
      PROVE  Writing'
  <2>1. UNCHANGED <<auth, wrote>> /\ pc[r] = "idle"
    BY <1>3 DEF AuthorizeRead, CaptureRead, RefundRead, Begin, authRows
  <2>2. \/ body[r].kind = "CARD_AUTHORIZE" /\ pc' = [pc EXCEPT ![r] = "transaction"]
        \/ body[r].kind = "CARD_CAPTURE" /\ pc' = [pc EXCEPT ![r] = "record"]
        \/ body[r].kind = "CARD_REVERSE" /\ pc' = [pc EXCEPT ![r] = "transaction"]
    BY <1>3 DEF AuthorizeRead, CaptureRead, RefundRead, Begin
  <2> QED
    BY <1>0, <2>1, <2>2 DEF Writing
<1>4. ASSUME NEW r \in Requests, AuthorizeTransaction(r) \/ AuthorizeCounters(r) PROVE Writing'
  BY <1>0, <1>4 DEF AuthorizeTransaction, AuthorizeCounters, Writing, authRows
<1>5. ASSUME NEW r \in Requests, AuthorizeRecord(r) PROVE Writing'
  BY <1>0, <1>5 DEF AuthorizeRecord, Writing, AuthStatuses
<1>6. ASSUME NEW r \in Requests, CaptureRecord(r) PROVE Writing'
  BY <1>0, <1>6 DEF CaptureRecord, Writing, AuthStatuses
<1>7. ASSUME NEW r \in Requests, CaptureTransaction(r) \/ CaptureCounters(r) PROVE Writing'
  BY <1>0, <1>7 DEF CaptureTransaction, CaptureCounters, Writing, authRows
<1>8. ASSUME NEW r \in Requests, RefundRecord(r) PROVE Writing'
  BY <1>0, <1>8 DEF RefundRecord, Writing, AuthStatuses
<1>9. ASSUME NEW r \in Requests, RefundTransaction(r) \/ RefundCounters(r) PROVE Writing'
  BY <1>0, <1>9 DEF RefundTransaction, RefundCounters, Writing, authRows
<1>10. ASSUME NEW r \in Requests, CaptureEntries(r) \/ RefundEntries(r) PROVE Writing'
  BY <1>0, <1>10 DEF CaptureEntries, RefundEntries, Charge, Writing, authRows
<1> QED
  BY <1>1, <1>2, <1>3, <1>4, <1>5, <1>6, <1>7, <1>8, <1>9, <1>10 DEF CardNext

-----------------------------------------------------------------------------
(* What the rows of a payment say.                                         *)

\* The two rows and the ledger of payment t, and its captures and refunds,
\* are as they were; its status may have been reviewed or reversed.
LEMMA StoryKept ==
    ASSUME NEW t \in Requests, Story(t), body' = body, body[t].kind = "CARD_AUTHORIZE",
           auth'[t] = auth[t], authAmount'[t] = authAmount[t], txAmount'[t] = txAmount[t],
           charged'[t] = charged[t],
           Captures(t)' = Captures(t), Refunds(t)' = Refunds(t),
           \A s \in Captures(t) \cup Refunds(t) : pc'[s] = pc[s],
           pc'[t] = "record" => pc[t] = "record",
           \/ status'[t] \in {status[t], "REQUIRES_ACTION"}
           \/ /\ status'[t] = "REVERSED"
              /\ \E s \in Captures(t) : pc[s] # "transaction"
    PROVE  Story(t)'
<1> USE DEF Story, Entered
<1>1. CASE status'[t] \in {status[t], "REQUIRES_ACTION"}
  BY <1>1
<1>2. CASE status'[t] = "REVERSED" /\ \E s \in Captures(t) : pc[s] # "transaction"
  BY <1>2
<1> QED
  BY <1>1, <1>2

\* A step outside the cards.
LEMMA StoryOther ==
    ASSUME CardInv, [BankingNext]_bankVars, ~ CardNext,
           NEW t \in Requests, body[t].kind = "CARD_AUTHORIZE", Clean(body[t].card)',
           Clean(body[t].card)
    PROVE  Story(t)'
<1>0. /\ BankInv /\ body' = body /\ Story(t) /\ Reviewed /\ wrote \subseteq Requests
  BY BankBodyConstant, CardTypes DEF CardInv, Stories
<1>1. UNCHANGED <<auth, authAmount, txAmount, charged, wrote>>
  BY <1>0, OtherSteps DEF cardVars, authRows
<1>2. Captures(t)' = Captures(t) /\ Refunds(t)' = Refunds(t)
  BY <1>0, <1>1 DEF Captures, Refunds
<1>3. ASSUME NEW s \in Captures(t) \cup Refunds(t) PROVE pc'[s] = pc[s]
  <2>1. s \in wrote' /\ s \in Requests /\ CardOf(s)' = body[t].card
        /\ body[s].kind \in AuthKinds
    BY <1>0, <1>1 DEF Captures, Refunds, CardOf, AuthKinds
  <2>2. pc'[s] # "failed"
    BY <1>0, <2>1 DEF Clean
  <2> QED
    BY <1>0, <2>1, <2>2, OtherSteps
<1>4. pc'[t] = "record" => pc[t] = "record"
  BY <1>0, OtherSteps DEF CardKinds
<1>5. \/ status'[t] \in {status[t], "REQUIRES_ACTION"}
      \/ status'[t] = "REVERSED" /\ \E s \in Captures(t) : pc[s] # "transaction"
  BY <1>0, OtherSteps DEF Reviewed
<1> QED
  BY <1>0, <1>1, <1>2, <1>3, <1>4, <1>5, StoryKept

\* A step on a card, or a payment's first read, writes no row of a payment.
LEMMA ReadCases ==
    ASSUME NEW r \in Requests,
           \/ CreateVirtualCard(r) \/ UpdateVirtualCard(r)
           \/ FreezeVirtualCard(r) \/ UnfreezeVirtualCard(r)
           \/ AdminFreezeCardRead(r) \/ AdminFreezeCardWrite(r)
           \/ AdminUnfreezeCardRead(r) \/ AdminUnfreezeCardWrite(r)
           \/ AuthorizeRead(r) \/ CaptureRead(r) \/ RefundRead(r)
    PROVE  /\ UNCHANGED <<status, counters, authRows, charged, wrote, lapsed>>
           /\ \E next \in {"commit", "transaction", "record", "answered"} :
                /\ pc' = [pc EXCEPT ![r] = next]
                /\ body[r].kind \in PaymentKinds => next \in {"transaction", "record"}
                /\ next = "record" => body[r].kind = "CARD_CAPTURE"
           /\ body[r].kind \in PaymentKinds => pc[r] = "idle"
           /\ pc[r] \in {"idle", "commit"}
           /\ \/ body[r].kind \notin PaymentKinds /\ UNCHANGED <<sawToday, sawTotal>>
              \/ body[r].kind \in PaymentKinds /\ UNCHANGED cardRows
BY DEF CreateVirtualCard, UpdateVirtualCard, FreezeVirtualCard, UnfreezeVirtualCard,
   AdminFreezeCardRead, AdminFreezeCardWrite, AdminUnfreezeCardRead,
   AdminUnfreezeCardWrite, CardCall, AuthorizeRead, CaptureRead, RefundRead, Begin, Goto,
   PaymentKinds, cardSaw

\* A statement of a payment call: r writes rows of payment u alone.
LEMMA StatementCases ==
    ASSUME BankInv, NEW r \in Requests,
           \/ AuthorizeTransaction(r) \/ AuthorizeRecord(r) \/ AuthorizeCounters(r)
           \/ CaptureRecord(r) \/ CaptureTransaction(r)
           \/ CaptureCounters(r) \/ CaptureEntries(r)
           \/ RefundTransaction(r) \/ RefundRecord(r)
           \/ RefundCounters(r) \/ RefundEntries(r)
    PROVE  /\ wrote' = wrote \cup {r} /\ body[r].kind \in PaymentKinds
           /\ \E next \in {"transaction", "record", "counters", "entries", "answered"} :
                pc' = [pc EXCEPT ![r] = next]
           /\ pc[r] \notin {"idle", "answered", "failed"}
           /\ UNCHANGED <<cardRows, cardSaw>>
           /\ \A t \in Requests :
                t # (IF body[r].kind = "CARD_AUTHORIZE" THEN r ELSE body[r].target) =>
                  /\ status'[t] = status[t] /\ auth'[t] = auth[t]
                  /\ authAmount'[t] = authAmount[t] /\ txAmount'[t] = txAmount[t]
                  /\ charged'[t] = charged[t]
<1>0. /\ pc \in [Requests -> Labels] /\ status \in [Requests -> Statuses]
      /\ auth \in [Requests -> AuthStatuses]
      /\ authAmount \in [Requests -> Nat] /\ txAmount \in [Requests -> Nat]
      /\ charged \in [Requests -> Int]
  BY CardTypes
<1> QED
  BY <1>0 DEF AuthorizeTransaction, AuthorizeRecord, AuthorizeCounters, CaptureRecord,
     CaptureTransaction, CaptureCounters, CaptureEntries, RefundTransaction, RefundRecord,
     RefundCounters, RefundEntries, Charge, Statement, Goto, AnswerWith, authRows, PaymentKinds

\* A step on a payment that is not t.
LEMMA StoryElsewhere ==
    ASSUME CardInv, [BankingNext]_bankVars, NEW r \in Requests,
           NEW t \in Requests, body[t].kind = "CARD_AUTHORIZE", Story(t),
           t # r, body[r].kind \in AuthKinds => body[r].target # t,
           wrote' \in {wrote, wrote \cup {r}}, NEW next, pc' = [pc EXCEPT ![r] = next],
           status'[t] = status[t], auth'[t] = auth[t],
           authAmount'[t] = authAmount[t], txAmount'[t] = txAmount[t],
           charged'[t] = charged[t]
    PROVE  Story(t)'
<1>0. body' = body /\ wrote \subseteq Requests /\ pc \in [Requests -> Labels]
  BY BankBodyConstant, CardTypes DEF CardInv
<1>1. /\ Captures(t)' = Captures(t) /\ Refunds(t)' = Refunds(t)
      /\ r \notin Captures(t) \cup Refunds(t)
  BY <1>0 DEF Captures, Refunds, AuthKinds
<1>2. /\ \A s \in Captures(t) \cup Refunds(t) : pc'[s] = pc[s]
      /\ pc'[t] = pc[t]
  BY <1>0, <1>1 DEF Captures, Refunds
<1> QED
  BY <1>0, <1>1, <1>2, StoryKept

\* The rows of a payment keep telling one story, as long as every statement
\* finds its premise true and no call stops half way.
LEMMA StoriesStep ==
    ASSUME CardInv, [BankingNext]_bankVars
    PROVE  Stories'
<1>0. /\ BankInv /\ Writing /\ body' = body
      /\ pc \in [Requests -> Labels] /\ status \in [Requests -> Statuses]
      /\ auth \in [Requests -> AuthStatuses]
      /\ authAmount \in [Requests -> Nat] /\ txAmount \in [Requests -> Nat]
      /\ charged \in [Requests -> Int] /\ wrote \subseteq Requests
      /\ \A s \in Requests : body[s].amount \in Nat
      /\ \A s \in Requests : body[s].kind \in AuthKinds => body[s].target \in Requests
  BY BankBodyConstant, CardTypes DEF CardInv
<1> SUFFICES ASSUME NEW t \in Requests, body[t].kind = "CARD_AUTHORIZE", Clean(body[t].card)'
             PROVE  Story(t)'
  BY <1>0 DEF Stories
<1>1. Clean(body[t].card) /\ Story(t)
  BY <1>0, CleanBefore DEF CardInv, Stories
<1>2. CASE ~ CardNext
  BY <1>1, <1>2, StoryOther
<1>3. ASSUME NEW r \in Requests,
             \/ CreateVirtualCard(r) \/ UpdateVirtualCard(r)
             \/ FreezeVirtualCard(r) \/ UnfreezeVirtualCard(r)
             \/ AdminFreezeCardRead(r) \/ AdminFreezeCardWrite(r)
             \/ AdminUnfreezeCardRead(r) \/ AdminUnfreezeCardWrite(r)
             \/ AuthorizeRead(r) \/ CaptureRead(r) \/ RefundRead(r)
      PROVE  Story(t)'
  <2>1. UNCHANGED <<status, auth, authAmount, txAmount, charged, wrote>>
    BY <1>3, ReadCases DEF authRows
  <2>2. PICK next \in {"commit", "transaction", "record", "answered"} :
          /\ pc' = [pc EXCEPT ![r] = next]
          /\ next = "record" => body[r].kind = "CARD_CAPTURE"
    BY <1>3, ReadCases
  <2>3. pc[r] \in {"idle", "commit"}
    BY <1>3, ReadCases
  <2>4. /\ Captures(t)' = Captures(t) /\ Refunds(t)' = Refunds(t)
        /\ r \notin Captures(t) \cup Refunds(t)
    BY <1>0, <2>1, <2>3 DEF Captures, Refunds, Writing, Past
  <2>5. /\ \A s \in Captures(t) \cup Refunds(t) : pc'[s] = pc[s]
        /\ pc'[t] = "record" => pc[t] = "record"
    BY <1>0, <2>2, <2>4 DEF Captures, Refunds
  <2> QED
    BY <1>0, <1>1, <2>1, <2>4, <2>5, StoryKept
<1>4. ASSUME NEW r \in Requests,
             \/ AuthorizeTransaction(r) \/ AuthorizeRecord(r) \/ AuthorizeCounters(r)
             \/ CaptureRecord(r) \/ CaptureTransaction(r)
             \/ CaptureCounters(r) \/ CaptureEntries(r)
             \/ RefundTransaction(r) \/ RefundRecord(r)
             \/ RefundCounters(r) \/ RefundEntries(r)
      PROVE  Story(t)'
  <2>1. /\ wrote' = wrote \cup {r} /\ body[r].kind \in PaymentKinds
        /\ pc[r] \notin {"idle", "answered", "failed"}
    BY <1>0, <1>4, StatementCases
  <2>2. PICK next : pc' = [pc EXCEPT ![r] = next]
    BY <1>0, <1>4, StatementCases
  <2> DEFINE u == IF body[r].kind = "CARD_AUTHORIZE" THEN r ELSE body[r].target
  <2>3. t # u => /\ status'[t] = status[t] /\ auth'[t] = auth[t]
                 /\ authAmount'[t] = authAmount[t] /\ txAmount'[t] = txAmount[t]
                 /\ charged'[t] = charged[t]
    BY <1>0, <1>4, StatementCases
  <2>4. CASE t # u
    <3>1. t # r /\ (body[r].kind \in AuthKinds => body[r].target # t)
      BY <2>1, <2>4 DEF AuthKinds, PaymentKinds
    <3> QED
      BY <1>1, <2>1, <2>2, <2>3, <2>4, <3>1, StoryElsewhere
  <2>5. CASE t = u
    <3>0. body[r].kind \in AuthKinds => /\ body[r].target = t /\ r # t /\ CardOf(r) = body[t].card
                                        /\ Exists(t) /\ auth[t] # "NONE"
      BY <1>0, <2>1, <2>5, CardOfCall DEF AuthKinds, BankInv
    <3>1. /\ body[r].kind = "CARD_AUTHORIZE" => Captures(t)' = Captures(t)
          /\ body[r].kind = "CARD_AUTHORIZE" => Refunds(t)' = Refunds(t)
          /\ body[r].kind = "CARD_CAPTURE" =>
               Captures(t)' = Captures(t) \cup {r} /\ Refunds(t)' = Refunds(t)
          /\ body[r].kind = "CARD_REVERSE" =>
               Captures(t)' = Captures(t) /\ Refunds(t)' = Refunds(t) \cup {r}
      BY <1>0, <2>1, <3>0 DEF Captures, Refunds, AuthKinds
    <3>2. /\ \A s \in Captures(t) : s \in Requests /\ s # t /\ body[s].kind = "CARD_CAPTURE"
          /\ \A s \in Refunds(t) : s \in Requests /\ s # t /\ body[s].kind = "CARD_REVERSE"
      BY <1>0 DEF Captures, Refunds
    <3>3. CASE AuthorizeTransaction(r)
      <4>1. r = t /\ auth[t] = "NONE"
        BY <1>0, <2>5, <3>3 DEF AuthorizeTransaction, Statement, Writing, Past
      <4> QED
        BY <1>0, <1>1, <3>1, <3>2, <3>3, <4>1
        DEF AuthorizeTransaction, Statement, Goto, Story, Entered
    <3>4. CASE AuthorizeRecord(r)
      <4>1. r = t /\ auth[t] = "NONE"
        BY <1>0, <2>5, <3>4 DEF AuthorizeRecord, Statement, Writing, Past
      <4> QED
        BY <1>0, <1>1, <3>1, <3>2, <3>4, <4>1
        DEF AuthorizeRecord, Statement, Goto, Story, Entered
    <3>5. CASE AuthorizeCounters(r)
      <4>1. r = t /\ body[r].kind = "CARD_AUTHORIZE"
        BY <2>5, <3>5 DEF AuthorizeCounters, Statement
      <4> QED
        BY <1>0, <1>1, <3>1, <3>2, <3>5, <4>1
        DEF AuthorizeCounters, Statement, AnswerWith, Goto, authRows, Story, Entered
    <3>6. CASE CaptureRecord(r)
      <4>1. body[r].kind = "CARD_CAPTURE" /\ pc[r] = "record" /\ Capturable(r)
        BY <1>0, <3>0, <3>6 DEF CaptureRecord, Statement, Clean, AuthKinds
      <4>2. Captures(t) = {} /\ auth[t] = "AUTHORIZED" /\ status[t] # "NONE"
        BY <1>1, <3>0, <4>1 DEF Capturable, Story, AuthKinds, Exists
      <4>3. auth'[t] = "CAPTURED" /\ authAmount'[t] = body[r].amount /\ pc'[r] = "transaction"
        BY <1>0, <2>5, <3>0, <3>6, <4>1 DEF CaptureRecord, Goto, AuthKinds
      <4>4. UNCHANGED <<status, txAmount, charged>> /\ pc'[t] = pc[t]
        BY <1>0, <3>0, <3>6, <4>1 DEF CaptureRecord, Goto, AuthKinds
      <4> QED
        BY <1>0, <1>1, <3>1, <3>2, <4>1, <4>2, <4>3, <4>4 DEF Story, Entered
    <3>7. CASE CaptureTransaction(r)
      <4>1. body[r].kind = "CARD_CAPTURE" /\ pc[r] = "transaction" /\ r \in Captures(t)
        BY <1>0, <3>0, <3>7 DEF CaptureTransaction, Statement, AuthKinds, Writing, Past, Captures
      <4>2. /\ status'[t] = "COMPLETED" /\ txAmount'[t] = body[r].amount
            /\ pc'[r] = "counters" /\ pc'[t] = pc[t]
        BY <1>0, <3>0, <3>7, <4>1 DEF CaptureTransaction, CapturedAmount, Goto, AuthKinds
      <4>3. UNCHANGED <<auth, authAmount, charged>>
        BY <3>7 DEF CaptureTransaction
      <4>4. pc[t] # "record"
        BY <1>0, <3>0, <4>1 DEF Writing, AuthKinds
      <4>5. /\ Captures(t) = {r} /\ Captures(t)' = {r} /\ Refunds(t)' = Refunds(t)
            /\ \A s \in Refunds(t) : s # r /\ pc'[s] = pc[s]
        BY <1>0, <1>1, <2>2, <3>1, <3>2, <4>1 DEF Story
      <4> QED
        BY <1>0, <1>1, <3>2, <4>1, <4>2, <4>3, <4>4, <4>5 DEF Story, Entered
    <3>8. CASE CaptureCounters(r)
      <4>1. body[r].kind = "CARD_CAPTURE" /\ pc[r] = "counters" /\ r \in Captures(t)
        BY <1>0, <3>0, <3>8 DEF CaptureCounters, Statement, AuthKinds, Writing, Past, Captures
      <4>2. /\ UNCHANGED <<status, auth, authAmount, txAmount, charged>>
            /\ pc'[r] = "entries" /\ pc'[t] = pc[t]
        BY <1>0, <3>0, <3>8, <4>1 DEF CaptureCounters, Goto, AuthKinds, authRows
      <4>3. /\ Captures(t) = {r} /\ Captures(t)' = {r} /\ Refunds(t)' = Refunds(t)
            /\ \A s \in Refunds(t) : s # r /\ pc'[s] = pc[s]
        BY <1>0, <1>1, <2>2, <3>1, <3>2, <4>1 DEF Story
      <4> QED
        BY <1>0, <1>1, <3>2, <4>1, <4>2, <4>3 DEF Story, Entered
    <3>9. CASE CaptureEntries(r)
      <4>1. body[r].kind = "CARD_CAPTURE" /\ pc[r] = "entries" /\ r \in Captures(t)
        BY <1>0, <3>0, <3>9 DEF CaptureEntries, Statement, AuthKinds, Writing, Past, Captures
      <4>2. /\ UNCHANGED <<status, auth, authAmount, txAmount>>
            /\ charged'[t] = charged[t] + body[r].amount
            /\ pc'[r] = "answered" /\ pc'[t] = pc[t]
        BY <1>0, <3>0, <3>9, <4>1
        DEF CaptureEntries, Charge, AnswerWith, Goto, AuthKinds, authRows
      <4>3. /\ Captures(t) = {r} /\ Captures(t)' = {r} /\ Refunds(t)' = Refunds(t)
            /\ \A s \in Refunds(t) : s # r /\ pc'[s] = pc[s]
        BY <1>0, <1>1, <2>2, <3>1, <3>2, <4>1 DEF Story
      <4> QED
        BY <1>0, <1>1, <3>2, <4>1, <4>2, <4>3 DEF Story, Entered
    <3>10. CASE RefundTransaction(r)
      <4>1. body[r].kind = "CARD_REVERSE" /\ pc[r] = "transaction" /\ Refundable(r)
        BY <1>0, <3>0, <3>10 DEF RefundTransaction, Statement, Clean, AuthKinds
      <4>2. /\ Refunds(t) = {} /\ body[r].amount <= txAmount[t]
            /\ Captures(t) # {} /\ \A s \in Captures(t) : pc[s] # "transaction"
        BY <1>1, <3>0, <4>1 DEF Refundable, Story, AuthKinds
      <4>3. /\ UNCHANGED <<auth, authAmount, txAmount, charged>> /\ status'[t] = "REVERSED"
            /\ pc'[r] = "record" /\ pc'[t] = pc[t]
        BY <1>0, <3>0, <3>10, <4>1 DEF RefundTransaction, Goto, AuthKinds, authRows
      <4>4. /\ Refunds(t)' = {r} /\ Captures(t)' = Captures(t)
            /\ \A s \in Captures(t) : s # r /\ pc'[s] = pc[s]
        BY <1>0, <2>2, <3>1, <3>2, <4>1, <4>2
      <4>5. PICK c \in Captures(t) : Captures(t) = {c}
        BY <1>1, <4>2 DEF Story
      <4>6. auth[t] # "REVERSED" /\ auth[t] \notin {"NONE", "AUTHORIZED"}
        BY <1>1, <4>2 DEF Story
      <4> QED
        BY <1>0, <1>1, <3>2, <4>1, <4>2, <4>3, <4>4, <4>5, <4>6 DEF Story, Entered
    <3>11. CASE RefundRecord(r)
      <4>1. body[r].kind = "CARD_REVERSE" /\ pc[r] = "record" /\ r \in Refunds(t)
        BY <1>0, <3>0, <3>11 DEF RefundRecord, Statement, AuthKinds, Writing, Past, Refunds
      <4>2. /\ UNCHANGED <<status, authAmount, txAmount, charged>> /\ auth'[t] = "REVERSED"
            /\ pc'[r] = "counters" /\ pc'[t] = pc[t]
        BY <1>0, <3>0, <3>11, <4>1 DEF RefundRecord, Goto, AuthKinds
      <4>3. /\ Refunds(t) = {r} /\ Refunds(t)' = {r} /\ Captures(t)' = Captures(t)
            /\ \A s \in Captures(t) : s # r /\ pc'[s] = pc[s]
        BY <1>0, <1>1, <2>2, <3>1, <3>2, <4>1 DEF Story
      <4>4. PICK c \in Captures(t) : Captures(t) = {c}
        BY <1>1, <4>1 DEF Story
      <4> QED
        BY <1>0, <1>1, <3>2, <4>1, <4>2, <4>3, <4>4 DEF Story, Entered
    <3>12. CASE RefundCounters(r)
      <4>1. body[r].kind = "CARD_REVERSE" /\ pc[r] = "counters" /\ r \in Refunds(t)
        BY <1>0, <3>0, <3>12 DEF RefundCounters, Statement, AuthKinds, Writing, Past, Refunds
      <4>2. /\ UNCHANGED <<status, auth, authAmount, txAmount, charged>>
            /\ pc'[r] = "entries" /\ pc'[t] = pc[t]
        BY <1>0, <3>0, <3>12, <4>1 DEF RefundCounters, Goto, AuthKinds, authRows
      <4>3. /\ Refunds(t) = {r} /\ Refunds(t)' = {r} /\ Captures(t)' = Captures(t)
            /\ \A s \in Captures(t) : s # r /\ pc'[s] = pc[s]
        BY <1>0, <1>1, <2>2, <3>1, <3>2, <4>1 DEF Story
      <4>4. PICK c \in Captures(t) : Captures(t) = {c}
        BY <1>1, <4>1 DEF Story
      <4> QED
        BY <1>0, <1>1, <3>2, <4>1, <4>2, <4>3, <4>4 DEF Story, Entered
    <3>13. CASE RefundEntries(r)
      <4>1. body[r].kind = "CARD_REVERSE" /\ pc[r] = "entries" /\ r \in Refunds(t)
        BY <1>0, <3>0, <3>13 DEF RefundEntries, Statement, AuthKinds, Writing, Past, Refunds
      <4>2. /\ UNCHANGED <<status, auth, authAmount, txAmount>>
            /\ charged'[t] = charged[t] + (0 - body[r].amount)
            /\ pc'[r] = "answered" /\ pc'[t] = pc[t]
        BY <1>0, <3>0, <3>13, <4>1
        DEF RefundEntries, Charge, AnswerWith, Goto, AuthKinds, authRows
      <4>3. /\ Refunds(t) = {r} /\ Refunds(t)' = {r} /\ Captures(t)' = Captures(t)
            /\ \A s \in Captures(t) : s # r /\ pc'[s] = pc[s]
        BY <1>0, <1>1, <2>2, <3>1, <3>2, <4>1 DEF Story
      <4>4. PICK c \in Captures(t) : Captures(t) = {c}
        BY <1>1, <4>1 DEF Story
      <4> QED
        BY <1>0, <1>1, <3>2, <4>1, <4>2, <4>3, <4>4 DEF Story, Entered
    <3> QED
      BY <1>4, <3>3, <3>4, <3>5, <3>6, <3>7, <3>8, <3>9, <3>10, <3>11, <3>12, <3>13
  <2> QED
    BY <2>4, <2>5
<1> QED
  BY <1>2, <1>3, <1>4 DEF CardNext

\* The back office reads a payment as completed after its capture wrote that.
LEMMA ReviewedStep ==
    ASSUME CardInv, [BankingNext]_bankVars
    PROVE  Reviewed'
<1>0. /\ BankInv /\ Writing /\ Stories /\ Reviewed /\ body' = body
      /\ pc \in [Requests -> Labels] /\ wrote \subseteq Requests /\ wrote \subseteq wrote'
      /\ \A s \in Requests : pc[s] \in {"answered", "failed"} => pc'[s] = pc[s]
  BY BankBodyConstant, CardTypes, MarksGrow, EndedStays DEF CardInv
<1> SUFFICES ASSUME NEW r \in Requests, NEW t \in Requests, t = body[r].target,
                    body[r].kind = "REVERSE", pc'[r] = "commit",
                    body[t].kind = "CARD_AUTHORIZE", Clean(body[t].card)'
             PROVE  \E s \in Captures(t)' : pc'[s] # "transaction"
  <2>1. \A r \in Requests : body[r].kind = "REVERSE" => body[r].target \in Requests
    BY <1>0, BodyFields DEF BankInv, BankingTypeOK, PaymentsTypeOK
  <2> QED
    BY <1>0, <2>1 DEF Reviewed
<1>1. Clean(body[t].card) /\ Story(t)
  BY <1>0, CleanBefore DEF Stories
<1>2. Captures(t) \subseteq Captures(t)'
  BY <1>0 DEF Captures
<1>3. pc[r] # "commit" => /\ status[t] = "COMPLETED" /\ pc' = [pc EXCEPT ![r] = "commit"]
  <2> USE DEF Goto, AnswerWith
  <2>1. CASE CardNext
    BY <1>0, <2>1, CardCases DEF CardKinds, AuthKinds
  <2>2. CASE WalletNext
    BY <1>0, <2>2 DEF WalletNext, DepositReadWallet, WithdrawReadWallet, NewKey,
       TransferNewKey, TransferReadSender, TransferReadReceiver, CompleteRead, Fail,
       ReplayResponse, TransferReplay, AlreadyProcessed, Respond, DepositCommit,
       WithdrawCommit, TransferCommit, TransferStoreKey, SettleDeposit, SettleWithdrawal,
       Initiates, BankInv, Reached
  <2>3. CASE AdminNext
    BY <1>0, <2>3 DEF AdminNext, FreezeRead, UnfreezeRead, ReverseRead, FlagRead,
       FreezeWrite, UnfreezeWrite, ReverseWrite, FlagWrite, Checked, Written, Reversible
  <2>4. CASE SavingsNext
    BY <1>0, <2>4 DEF SavingsNext, CreateVault, UpdateVault, LockVault, UnlockVault,
       VaultCall, ReadVault, ReadWallet, VaultNewKey, VaultReplay, DepositToVault,
       WithdrawFromVault, Move, MovesVault
  <2>5. CASE UNCHANGED bankVars
    BY <2>5 DEF bankVars, allVars, vars, calls
  <2> QED
    BY <2>1, <2>2, <2>3, <2>4, <2>5 DEF BankingNext, PaymentsNext
<1>4. \E s \in Captures(t) : pc[s] # "transaction"
  <2>1. CASE pc[r] = "commit"
    BY <1>0, <1>1, <2>1 DEF Reviewed
  <2>2. CASE pc[r] # "commit"
    BY <1>1, <1>3, <2>2 DEF Story
  <2> QED
    BY <2>1, <2>2
<1>5. PICK s \in Captures(t) : pc[s] # "transaction"
  BY <1>4
<1>6. /\ s \in Requests /\ s \in wrote /\ body[s].kind = "CARD_CAPTURE"
      /\ pc[s] \in {"counters", "entries", "answered", "failed"}
  BY <1>0, <1>5 DEF Captures, Writing, Past
<1>7. pc'[s] # "transaction"
  <2>1. CASE ~ CardNext
    BY <1>0, <1>6, <2>1, OtherSteps DEF AuthKinds
  <2>2. ASSUME NEW q \in Requests,
               \/ CreateVirtualCard(q) \/ UpdateVirtualCard(q)
               \/ FreezeVirtualCard(q) \/ UnfreezeVirtualCard(q)
               \/ AdminFreezeCardRead(q) \/ AdminFreezeCardWrite(q)
               \/ AdminUnfreezeCardRead(q) \/ AdminUnfreezeCardWrite(q)
               \/ AuthorizeRead(q) \/ CaptureRead(q) \/ RefundRead(q)
        PROVE  pc'[s] # "transaction"
    <3>1. q # s
      BY <1>6, <2>2, ReadCases
    <3>2. PICK next : pc' = [pc EXCEPT ![q] = next]
      BY <2>2, ReadCases
    <3> QED
      BY <1>0, <1>6, <3>1, <3>2
  <2>3. ASSUME NEW q \in Requests,
               \/ AuthorizeTransaction(q) \/ AuthorizeRecord(q) \/ AuthorizeCounters(q)
               \/ CaptureRecord(q) \/ CaptureTransaction(q)
               \/ CaptureCounters(q) \/ CaptureEntries(q)
               \/ RefundTransaction(q) \/ RefundRecord(q)
               \/ RefundCounters(q) \/ RefundEntries(q)
        PROVE  pc'[s] # "transaction"
    BY <1>0, <1>6, <2>3
    DEF AuthorizeTransaction, AuthorizeRecord, AuthorizeCounters, CaptureRecord,
        CaptureTransaction, CaptureCounters, CaptureEntries, RefundTransaction, RefundRecord,
        RefundCounters, RefundEntries, Charge, Statement, Goto, AnswerWith
  <2> QED
    BY <2>1, <2>2, <2>3 DEF CardNext
<1> QED
  BY <1>2, <1>5, <1>7

-----------------------------------------------------------------------------
(* The counters.                                                           *)

\* The sums range over finite sets of integers.
LEMMA CounterTypes ==
    ASSUME BankInv, NEW c
    PROVE  /\ IsFiniteSet(PaymentsOf(c)) /\ PaymentsOf(c) \subseteq Requests
           /\ IsFiniteSet(Pending(c)) /\ Pending(c) \subseteq Requests
           /\ \A t \in Requests : /\ IsFiniteSet(Returned(t)) /\ Returned(t) \subseteq Requests
                                  /\ Due[t] \in Int /\ Counted[t] \in Int
                                  /\ SumFunctionOnSet(Amounts, Returned(t)) \in Int
           /\ SumFunctionOnSet(charged, PaymentsOf(c)) \in Int
           /\ SumFunctionOnSet(Due, Pending(c)) \in Int
           /\ SumFunctionOnSet(Counted, PaymentsOf(c)) \in Int
<1>0. /\ wrote \subseteq Requests /\ charged \in [Requests -> Int]
      /\ \A s \in Requests : body[s].amount \in Nat
  BY CardTypes
<1>1. /\ IsFiniteSet(PaymentsOf(c)) /\ PaymentsOf(c) \subseteq Requests
      /\ IsFiniteSet(Pending(c)) /\ Pending(c) \subseteq Requests
  <2>1. PaymentsOf(c) \subseteq Requests /\ Pending(c) \subseteq Requests
    BY <1>0 DEF PaymentsOf, Pending
  <2> QED
    BY <2>1, RequestsAssumption, FS_Subset
<1>2. ASSUME NEW t \in Requests
      PROVE  /\ IsFiniteSet(Returned(t)) /\ Returned(t) \subseteq Requests
             /\ Due[t] \in Int /\ Counted[t] \in Int
             /\ SumFunctionOnSet(Amounts, Returned(t)) \in Int
  <2>1. Returned(t) \subseteq Requests
    BY <1>0 DEF Returned, Refunds
  <2>2. IsFiniteSet(Returned(t))
    BY <2>1, RequestsAssumption, FS_Subset
  <2>3. \A s \in Returned(t) : Amounts[s] \in Int
    BY <1>0, <2>1 DEF Amounts
  <2>4. SumFunctionOnSet(Amounts, Returned(t)) \in Int
    BY <2>2, <2>3, SumInt
  <2> QED
    BY <1>0, <2>1, <2>2, <2>4 DEF Due, Counted
<1>3. /\ \A t \in PaymentsOf(c) : charged[t] \in Int /\ Counted[t] \in Int
      /\ \A r \in Pending(c) : Due[r] \in Int
  BY <1>0, <1>1, <1>2
<1> QED
  BY <1>1, <1>2, <1>3, SumInt

\* What a payment has counted changes with its own answer and its refunds.
LEMMA CountedSame ==
    ASSUME NEW t \in Requests, body' = body, pc'[t] = "answered" <=> pc[t] = "answered",
           Returned(t)' = Returned(t)
    PROVE  Counted'[t] = Counted[t]
BY DEF Counted, Amounts

\* A step that leaves a sum's rows alone.
LEMMA TotalSame ==
    ASSUME BankInv, NEW c \in Cards, TotalKept(c), body' = body,
           spentTotal'[c] = spentTotal[c], PaymentsOf(c)' = PaymentsOf(c),
           Pending(c)' = Pending(c), \A t \in PaymentsOf(c) : charged'[t] = charged[t]
    PROVE  TotalKept(c)'
<1>1. Due' = Due
  BY DEF Due
<1>2. SumFunctionOnSet(charged', PaymentsOf(c)) = SumFunctionOnSet(charged, PaymentsOf(c))
  BY CounterTypes, SumSame
<1> QED
  BY <1>1, <1>2 DEF TotalKept

LEMMA TodaySame ==
    ASSUME BankInv, NEW c \in Cards, TodayKept(c),
           spentToday'[c] = spentToday[c], PaymentsOf(c)' = PaymentsOf(c),
           \A t \in PaymentsOf(c) : Counted'[t] = Counted[t]
    PROVE  TodayKept(c)'
<1>1. SumFunctionOnSet(Counted', PaymentsOf(c)) = SumFunctionOnSet(Counted, PaymentsOf(c))
  BY CounterTypes, SumSame
<1> QED
  BY <1>1 DEF TodayKept

\* A call counts its amount on the total before it enters the ledger.
LEMMA TotalPending ==
    ASSUME BankInv, NEW c \in Cards, TotalKept(c), body' = body, NEW r \in Requests,
           r \notin Pending(c), Pending(c)' = Pending(c) \cup {r},
           spentTotal'[c] = spentTotal[c] + Due[r], PaymentsOf(c)' = PaymentsOf(c),
           \A t \in PaymentsOf(c) : charged'[t] = charged[t]
    PROVE  TotalKept(c)'
<1>1. Due' = Due
  BY DEF Due
<1>2. SumFunctionOnSet(charged', PaymentsOf(c)) = SumFunctionOnSet(charged, PaymentsOf(c))
  BY CounterTypes, SumSame
<1>3. \A s \in Pending(c) \cup {r} : Due[s] \in Int
  BY CounterTypes
<1>4. SumFunctionOnSet(Due, Pending(c) \cup {r}) = Due[r] + SumFunctionOnSet(Due, Pending(c))
  BY <1>3, CounterTypes, SumAdd
<1> QED
  BY <1>1, <1>2, <1>3, <1>4, CounterTypes DEF TotalKept

\* The call's entries move its amount from what is pending to what is charged.
LEMMA TotalEntered ==
    ASSUME BankInv, NEW c \in Cards, TotalKept(c), body' = body, NEW r \in Pending(c),
           Pending(c)' = Pending(c) \ {r}, spentTotal'[c] = spentTotal[c],
           PaymentsOf(c)' = PaymentsOf(c), NEW t \in PaymentsOf(c),
           charged'[t] = charged[t] + Due[r],
           \A s \in PaymentsOf(c) : s # t => charged'[s] = charged[s]
    PROVE  TotalKept(c)'
<1>0. charged \in [Requests -> Int] /\ t \in Requests /\ r \in Requests /\ Due[r] \in Int
  BY CardTypes, CounterTypes
<1>1. Due' = Due
  BY DEF Due
<1>2. SumFunctionOnSet(charged', PaymentsOf(c))
        = SumFunctionOnSet(charged, PaymentsOf(c)) + (charged'[t] - charged[t])
  <2>1. \A s \in PaymentsOf(c) : /\ charged[s] \in Int /\ charged'[s] \in Int
                                 /\ s # t => charged[s] = charged'[s]
    BY <1>0, CounterTypes
  <2> QED
    BY <2>1, CounterTypes, SumChange
<1>3. charged'[t] - charged[t] = Due[r]
  BY <1>0
<1>4. /\ SumFunctionOnSet(Due, Pending(c)) = Due[r] + SumFunctionOnSet(Due, Pending(c) \ {r})
      /\ SumFunctionOnSet(Due, Pending(c) \ {r}) \in Int
  <2>1. \A s \in Pending(c) : Due[s] \in Int
    BY CounterTypes
  <2> QED
    BY <2>1, CounterTypes, SumRemove
<1>5. TotalKept(c)' <=> spentTotal'[c] = SumFunctionOnSet(charged', PaymentsOf(c))
                                         + SumFunctionOnSet(Due, Pending(c) \ {r})
  BY <1>1 DEF TotalKept
<1> HIDE DEF Due
<1> QED
  BY <1>0, <1>2, <1>3, <1>4, <1>5, CounterTypes DEF TotalKept

\* A payment that has not counted anything joins the sums.
LEMMA SumsJoined ==
    ASSUME BankInv, NEW c \in Cards, TotalKept(c), TodayKept(c), body' = body,
           NEW t \in Requests, t \notin PaymentsOf(c), PaymentsOf(c)' = PaymentsOf(c) \cup {t},
           spentTotal'[c] = spentTotal[c], spentToday'[c] = spentToday[c],
           Pending(c)' = Pending(c), charged' = charged, charged[t] = 0,
           \A s \in PaymentsOf(c) : Counted'[s] = Counted[s], Counted'[t] = 0
    PROVE  TotalKept(c)' /\ TodayKept(c)'
<1>1. Due' = Due
  BY DEF Due
<1>2. SumFunctionOnSet(charged, PaymentsOf(c) \cup {t})
        = charged[t] + SumFunctionOnSet(charged, PaymentsOf(c))
  <2>1. \A s \in PaymentsOf(c) \cup {t} : charged[s] \in Int
    BY CardTypes, CounterTypes
  <2> QED
    BY <2>1, CounterTypes, SumAdd
<1>3. SumFunctionOnSet(Counted', PaymentsOf(c) \cup {t})
        = Counted'[t] + SumFunctionOnSet(Counted', PaymentsOf(c))
  <2>1. \A s \in PaymentsOf(c) \cup {t} : Counted'[s] \in Int
    BY CounterTypes
  <2> QED
    BY <2>1, CounterTypes, SumAdd
<1>4. SumFunctionOnSet(Counted', PaymentsOf(c)) = SumFunctionOnSet(Counted, PaymentsOf(c))
  BY CounterTypes, SumSame
<1> QED
  BY <1>1, <1>2, <1>3, <1>4, CounterTypes DEF TotalKept, TodayKept

\* One payment counts more, or less, than before.
LEMMA TodayCounted ==
    ASSUME BankInv, NEW c \in Cards, TodayKept(c), NEW t \in PaymentsOf(c), NEW more \in Int,
           PaymentsOf(c)' = PaymentsOf(c), spentToday'[c] = spentToday[c] + more,
           Counted'[t] = Counted[t] + more,
           \A s \in PaymentsOf(c) : s # t => Counted'[s] = Counted[s]
    PROVE  TodayKept(c)'
<1>1. SumFunctionOnSet(Counted', PaymentsOf(c))
        = SumFunctionOnSet(Counted, PaymentsOf(c)) + (Counted'[t] - Counted[t])
  <2>1. \A s \in PaymentsOf(c) : /\ Counted[s] \in Int /\ Counted'[s] \in Int
                                 /\ s # t => Counted[s] = Counted'[s]
    BY CounterTypes
  <2> QED
    BY <2>1, CounterTypes, SumChange
<1>2. Counted[t] \in Int
  BY CounterTypes
<1> HIDE DEF Counted
<1> QED
  BY <1>1, <1>2, CounterTypes DEF TodayKept

\* A step that counts nothing for card c.
LEMMA SumsSame ==
    ASSUME BankInv, NEW c \in Cards, TotalKept(c), TodayKept(c), body' = body,
           spentTotal'[c] = spentTotal[c], spentToday'[c] = spentToday[c],
           PaymentsOf(c)' = PaymentsOf(c), Pending(c)' = Pending(c),
           \A t \in PaymentsOf(c) : /\ charged'[t] = charged[t]
                                    /\ pc'[t] = "answered" <=> pc[t] = "answered"
                                    /\ Returned(t)' = Returned(t)
    PROVE  TotalKept(c)' /\ TodayKept(c)'
<1>1. \A t \in PaymentsOf(c) : t \in Requests
  BY CounterTypes
<1>2. \A t \in PaymentsOf(c) : Counted'[t] = Counted[t]
  BY <1>1, CountedSame
<1> QED
  BY <1>2, TotalSame, TodaySame

\* A step outside the cards counts nothing.
LEMMA CountersOther ==
    ASSUME CardInv, [BankingNext]_bankVars, ~ CardNext, NEW c \in Cards, Clean(c)',
           TotalKept(c), TodayKept(c)
    PROVE  TotalKept(c)' /\ TodayKept(c)'
<1>0. /\ BankInv /\ Writing /\ body' = body /\ wrote \subseteq Requests
      /\ pc \in [Requests -> Labels]
      /\ \A s \in Requests : pc[s] \in {"answered", "failed"} => pc'[s] = pc[s]
  BY BankBodyConstant, CardTypes, EndedStays DEF CardInv
<1>1. UNCHANGED <<spentToday, spentTotal, auth, charged, wrote>>
  BY <1>0, OtherSteps DEF cardVars, counters, authRows
<1>2. PaymentsOf(c)' = PaymentsOf(c)
  BY <1>0, <1>1 DEF PaymentsOf
<1>3. \A s \in Requests : s \in wrote /\ CardOf(s) = c => pc'[s] = pc[s]
  <2> SUFFICES ASSUME NEW s \in Requests, s \in wrote, CardOf(s) = c PROVE pc'[s] = pc[s]
    OBVIOUS
  <2>1. body[s].kind \in CardKinds \cup AuthKinds
    BY <1>0 DEF Writing, PaymentKinds, CardKinds, AuthKinds
  <2>2. pc'[s] # "failed"
    BY <1>0, <1>1 DEF Clean, CardOf
  <2> QED
    BY <1>0, <2>1, <2>2, OtherSteps
<1>4. Pending(c)' = Pending(c)
  BY <1>0, <1>1, <1>3 DEF Pending, CardOf
<1>5. ASSUME NEW t \in PaymentsOf(c)
      PROVE  /\ pc'[t] = "answered" <=> pc[t] = "answered"
             /\ Returned(t)' = Returned(t)
  <2>1. t \in Requests /\ body[t].kind = "CARD_AUTHORIZE" /\ body[t].card = c
    BY DEF PaymentsOf
  <2>2. pc'[t] = "answered" <=> pc[t] = "answered"
    BY <1>0, <2>1, OtherSteps DEF CardKinds
  <2>3. \A s \in Refunds(t) : s \in Requests /\ s \in wrote /\ CardOf(s) = c
    BY <1>0, <2>1 DEF Refunds, CardOf
  <2>4. Refunds(t)' = Refunds(t)
    BY <1>0, <1>1 DEF Refunds
  <2> QED
    BY <1>3, <2>2, <2>3, <2>4 DEF Returned
<1> QED
  BY <1>0, <1>1, <1>2, <1>4, <1>5, SumsSame

\* Nor does a step that writes no row of a payment.
LEMMA CountersRead ==
    ASSUME CardInv, [BankingNext]_bankVars, NEW c \in Cards, TotalKept(c), TodayKept(c),
           NEW r \in Requests,
           \/ CreateVirtualCard(r) \/ UpdateVirtualCard(r)
           \/ FreezeVirtualCard(r) \/ UnfreezeVirtualCard(r)
           \/ AdminFreezeCardRead(r) \/ AdminFreezeCardWrite(r)
           \/ AdminUnfreezeCardRead(r) \/ AdminUnfreezeCardWrite(r)
           \/ AuthorizeRead(r) \/ CaptureRead(r) \/ RefundRead(r)
    PROVE  TotalKept(c)' /\ TodayKept(c)'
<1>0. /\ BankInv /\ Writing /\ body' = body /\ wrote \subseteq Requests
      /\ pc \in [Requests -> Labels]
  BY BankBodyConstant, CardTypes DEF CardInv
<1>1. /\ UNCHANGED <<spentToday, spentTotal, auth, charged, wrote>>
      /\ pc[r] \in {"idle", "commit"}
  BY ReadCases DEF counters, authRows
<1>2. PICK next : /\ pc' = [pc EXCEPT ![r] = next]
                  /\ body[r].kind \in PaymentKinds => next \in {"transaction", "record"}
  BY ReadCases
<1>3. PaymentsOf(c)' = PaymentsOf(c)
  BY <1>0, <1>1 DEF PaymentsOf
<1>4. r \notin wrote
  BY <1>0, <1>1 DEF Writing, Past
<1>5. Pending(c)' = Pending(c)
  BY <1>0, <1>1, <1>2, <1>4 DEF Pending, CardOf
<1>6. ASSUME NEW t \in PaymentsOf(c)
      PROVE  /\ pc'[t] = "answered" <=> pc[t] = "answered"
             /\ Returned(t)' = Returned(t)
  <2>1. t \in Requests /\ body[t].kind = "CARD_AUTHORIZE"
    BY DEF PaymentsOf
  <2>2. pc'[t] = "answered" <=> pc[t] = "answered"
    BY <1>0, <1>1, <1>2, <2>1 DEF PaymentKinds
  <2>3. Refunds(t)' = Refunds(t) /\ \A s \in Refunds(t) : s \in Requests /\ s # r
    BY <1>0, <1>1, <1>4 DEF Refunds
  <2> QED
    BY <1>0, <1>2, <2>2, <2>3 DEF Returned
<1> QED
  BY <1>0, <1>1, <1>3, <1>5, <1>6, SumsSame

\* What a statement of call r does to the sets the counters are summed over.
LEMMA StatementSets ==
    ASSUME CardInv, [BankingNext]_bankVars, NEW c \in Cards, NEW r \in Requests,
           \/ AuthorizeTransaction(r) \/ AuthorizeRecord(r) \/ AuthorizeCounters(r)
           \/ CaptureRecord(r) \/ CaptureTransaction(r)
           \/ CaptureCounters(r) \/ CaptureEntries(r)
           \/ RefundTransaction(r) \/ RefundRecord(r)
           \/ RefundCounters(r) \/ RefundEntries(r)
    PROVE  LET u == IF body[r].kind = "CARD_AUTHORIZE" THEN r ELSE body[r].target IN
           /\ u \in Requests /\ body[u].kind = "CARD_AUTHORIZE" /\ CardOf(r) = body[u].card
           /\ CardOf(r) \in Cards
           /\ body[r].kind # "CARD_AUTHORIZE" => u # r /\ auth[u] # "NONE"
           /\ auth'[u] # "NONE" /\ (auth[u] # "NONE" \/ c # CardOf(r))
                => PaymentsOf(c)' = PaymentsOf(c)
           /\ auth[u] = "NONE" /\ auth'[u] = "NONE" => PaymentsOf(c)' = PaymentsOf(c)
           /\ c # CardOf(r) => Pending(c)' = Pending(c)
           /\ \A s \in Pending(c) : s # r => s \in Pending(c)'
           /\ \A s \in Pending(c)' : s # r => s \in Pending(c)
           /\ r \in Pending(c)' <=> c = CardOf(r) /\ pc'[r] = "entries"
           /\ \A t \in PaymentsOf(c) : t # u =>
                /\ pc'[t] = pc[t] /\ charged'[t] = charged[t]
                /\ Returned(t)' = Returned(t)
<1> DEFINE u == IF body[r].kind = "CARD_AUTHORIZE" THEN r ELSE body[r].target
<1>0. /\ BankInv /\ Writing /\ body' = body /\ wrote \subseteq Requests
      /\ pc \in [Requests -> Labels]
  BY BankBodyConstant, CardTypes DEF CardInv
<1>1. /\ wrote' = wrote \cup {r} /\ body[r].kind \in PaymentKinds
      /\ pc[r] \notin {"idle", "answered", "failed"}
      /\ \A t \in Requests : t # u => auth'[t] = auth[t] /\ charged'[t] = charged[t]
  BY <1>0, StatementCases
<1>2. PICK next : pc' = [pc EXCEPT ![r] = next]
  BY <1>0, StatementCases
<1>3. /\ u \in Requests /\ body[u].kind = "CARD_AUTHORIZE" /\ CardOf(r) = body[u].card
      /\ CardOf(r) \in Cards
      /\ body[r].kind # "CARD_AUTHORIZE" => u # r /\ auth[u] # "NONE"
  <2>1. CASE body[r].kind = "CARD_AUTHORIZE"
    BY <1>0, <2>1, CardTypes DEF CardOf, CardKinds
  <2>2. CASE body[r].kind \in AuthKinds
    <3>1. /\ u = body[r].target /\ u \in Requests /\ auth[u] # "NONE"
          /\ body[u].kind = "CARD_AUTHORIZE" /\ CardOf(r) = body[u].card
          /\ CardOf(r) \in Cards
      BY <1>0, <1>1, <2>2, CardOfCall DEF BankInv, AuthKinds
    <3> QED
      BY <2>2, <3>1 DEF AuthKinds
  <2> QED
    BY <1>1, <2>1, <2>2 DEF PaymentKinds, AuthKinds
<1> HIDE DEF u
<1>4. /\ auth'[u] # "NONE" /\ (auth[u] # "NONE" \/ c # CardOf(r))
           => PaymentsOf(c)' = PaymentsOf(c)
      /\ auth[u] = "NONE" /\ auth'[u] = "NONE" => PaymentsOf(c)' = PaymentsOf(c)
  BY <1>0, <1>1, <1>3 DEF PaymentsOf
<1>5. /\ c # CardOf(r) => Pending(c)' = Pending(c)
      /\ \A s \in Pending(c) : s # r => s \in Pending(c)'
      /\ \A s \in Pending(c)' : s # r => s \in Pending(c)
      /\ r \in Pending(c)' <=> c = CardOf(r) /\ pc'[r] = "entries"
  BY <1>0, <1>1, <1>2 DEF Pending, CardOf
<1>6. ASSUME NEW t \in PaymentsOf(c), t # u
      PROVE  /\ pc'[t] = pc[t] /\ charged'[t] = charged[t]
             /\ Returned(t)' = Returned(t)
  <2>1. t \in Requests /\ body[t].kind = "CARD_AUTHORIZE" /\ t # r
    BY <1>3, <1>6 DEF PaymentsOf, u
  <2>2. Refunds(t)' = Refunds(t) /\ \A s \in Refunds(t) : s \in Requests /\ s # r
    BY <1>0, <1>1, <1>3, <1>6 DEF Refunds, u
  <2> QED
    BY <1>0, <1>1, <1>2, <1>6, <2>1, <2>2 DEF Returned
<1> QED
  BY <1>3, <1>4, <1>5, <1>6 DEF u

\* A statement counts its amount once: the day's when it is authorised and
\* refunded, the total when it is captured and refunded.
LEMMA CountersStatement ==
    ASSUME CardInv, [BankingNext]_bankVars, NEW c \in Cards, Clean(c)', Clean(c),
           TotalKept(c), TodayKept(c), NEW r \in Requests,
           \/ AuthorizeTransaction(r) \/ AuthorizeRecord(r) \/ AuthorizeCounters(r)
           \/ CaptureRecord(r) \/ CaptureTransaction(r)
           \/ CaptureCounters(r) \/ CaptureEntries(r)
           \/ RefundTransaction(r) \/ RefundRecord(r)
           \/ RefundCounters(r) \/ RefundEntries(r)
    PROVE  TotalKept(c)' /\ TodayKept(c)'
<1>t. PICK u \in Requests : u = IF body[r].kind = "CARD_AUTHORIZE" THEN r ELSE body[r].target
  BY StatementSets
<1>0. /\ BankInv /\ Writing /\ Stories /\ body' = body /\ wrote \subseteq Requests
      /\ pc \in [Requests -> Labels] /\ auth \in [Requests -> AuthStatuses]
      /\ charged \in [Requests -> Int] /\ c \notin lapsed'
      /\ spentToday \in [Cards -> Int] /\ spentTotal \in [Cards -> Int]
      /\ \A s \in Requests : body[s].amount \in Nat
  BY BankBodyConstant, CardTypes DEF CardInv, Clean
<1>1. /\ u \in Requests /\ body[u].kind = "CARD_AUTHORIZE" /\ CardOf(r) = body[u].card
      /\ CardOf(r) \in Cards
      /\ body[r].kind # "CARD_AUTHORIZE" => u # r /\ auth[u] # "NONE"
      /\ auth'[u] # "NONE" /\ (auth[u] # "NONE" \/ c # CardOf(r))
           => PaymentsOf(c)' = PaymentsOf(c)
      /\ auth[u] = "NONE" /\ auth'[u] = "NONE" => PaymentsOf(c)' = PaymentsOf(c)
      /\ c # CardOf(r) => Pending(c)' = Pending(c)
      /\ \A s \in Pending(c) : s # r => s \in Pending(c)'
      /\ \A s \in Pending(c)' : s # r => s \in Pending(c)
      /\ r \in Pending(c)' <=> c = CardOf(r) /\ pc'[r] = "entries"
      /\ \A t \in PaymentsOf(c) : t # u =>
           /\ pc'[t] = pc[t] /\ charged'[t] = charged[t]
           /\ Returned(t)' = Returned(t)
  BY <1>t, StatementSets
<1>2. /\ wrote' = wrote \cup {r} /\ body[r].kind \in PaymentKinds
      /\ \A t \in Requests : t # u => auth'[t] = auth[t] /\ charged'[t] = charged[t]
  BY <1>0, <1>t, StatementCases
<1>3. PICK next : pc' = [pc EXCEPT ![r] = next]
  BY <1>0, StatementCases
<1>u. /\ body[r].kind = "CARD_AUTHORIZE" => u = r
      /\ body[r].kind \in AuthKinds => u = body[r].target
  BY <1>t DEF AuthKinds
<1>4. r \in Pending(c) <=> r \in wrote /\ c = CardOf(r) /\ pc[r] = "entries"
  BY <1>0 DEF Pending
<1>5. \A t \in PaymentsOf(c) : t # u => t \in Requests /\ Counted'[t] = Counted[t]
  BY <1>0, <1>1, CounterTypes, CountedSame
<1>6. u \in PaymentsOf(c) <=> c = CardOf(r) /\ auth[u] # "NONE"
  BY <1>1 DEF PaymentsOf
\* What r changes of what u has counted.
<1>7. CASE body[r].kind = "CARD_AUTHORIZE"
  <2>0. u = r /\ Returned(u)' = Returned(u) /\ Refunds(u)' = Refunds(u)
    BY <1>0, <1>2, <1>3, <1>7, <1>u DEF Returned, Refunds
  <2>1. CASE AuthorizeTransaction(r)
    <3>1. /\ UNCHANGED <<auth, charged, spentToday, spentTotal>>
          /\ pc[r] = "transaction" /\ pc'[r] = "record"
      BY <1>0, <2>1 DEF AuthorizeTransaction, Statement, Goto, counters
    <3>2. Pending(c)' = Pending(c) /\ PaymentsOf(c)' = PaymentsOf(c)
      BY <1>1, <1>4, <3>1
    <3> QED
      BY <1>0, <1>1, <2>0, <3>1, <3>2, SumsSame
  <2>2. CASE AuthorizeRecord(r)
    <3>1. /\ UNCHANGED <<charged, spentToday, spentTotal>>
          /\ pc[r] = "record" /\ pc'[r] = "counters" /\ auth'[r] = "AUTHORIZED"
      BY <1>0, <2>2 DEF AuthorizeRecord, Statement, Goto, counters
    <3>2. Pending(c)' = Pending(c) /\ auth[r] = "NONE" /\ charged[r] = 0
      <4>1. Pending(c)' = Pending(c)
        BY <1>1, <1>4, <3>1
      <4>2. auth[r] = "NONE"
        BY <1>0, <1>7, <3>1 DEF Writing
      <4> QED
        BY <1>0, <4>1, <4>2 DEF BankInv, Authorised
    <3>3. CASE c # CardOf(r)
      <4>1. PaymentsOf(c)' = PaymentsOf(c)
        BY <1>1, <2>0, <3>1, <3>3
      <4> QED
        BY <1>0, <1>1, <1>6, <3>1, <3>2, <3>3, <4>1, SumsSame
    <3>4. CASE c = CardOf(r)
      <4>1. r \notin PaymentsOf(c) /\ PaymentsOf(c)' = PaymentsOf(c) \cup {r}
        BY <1>0, <1>1, <1>2, <2>0, <3>1, <3>2, <3>4 DEF PaymentsOf
      <4>2. Counted'[r] = 0
        <5>1. Refunds(r) = {}
          BY <1>0, <1>1, <2>0, <3>2, <3>4 DEF Stories, Story
        <5>2. Returned(r)' = {}
          BY <2>0, <5>1 DEF Returned
        <5>3. SumFunctionOnSet(Amounts, Returned(r))' = 0
          BY <5>2, SumEmpty
        <5> QED
          BY <3>1, <5>3 DEF Counted
      <4>3. \A s \in PaymentsOf(c) : Counted'[s] = Counted[s]
        BY <1>5, <2>0, <4>1
      <4> QED
        BY <1>0, <3>1, <3>2, <4>1, <4>2, <4>3, SumsJoined
    <3> QED
      BY <3>3, <3>4
  <2>3. CASE AuthorizeCounters(r)
    <3>1. /\ UNCHANGED <<auth, charged, spentTotal>>
          /\ pc[r] = "counters" /\ pc'[r] = "answered"
          /\ c = CardOf(r) => spentToday'[c] = spentToday[c] + body[r].amount
          /\ c # CardOf(r) => spentToday'[c] = spentToday[c]
      BY <1>0, <1>1, <1>7, <2>3
      DEF AuthorizeCounters, AuthorizeSpends, Statement, AnswerWith, Goto, authRows, CardOf,
          SameToday
    <3>2. /\ Pending(c)' = Pending(c) /\ PaymentsOf(c)' = PaymentsOf(c)
          /\ auth[r] # "NONE"
      <4>1. Pending(c)' = Pending(c)
        BY <1>1, <1>4, <3>1
      <4>2. auth[r] # "NONE"
        BY <1>0, <1>7, <3>1 DEF Writing
      <4> QED
        BY <1>1, <2>0, <3>1, <4>1, <4>2
    <3>3. CASE c # CardOf(r)
      BY <1>0, <1>1, <1>6, <3>1, <3>2, <3>3, SumsSame
    <3>4. CASE c = CardOf(r)
      <4>1. r \in PaymentsOf(c)
        BY <1>6, <2>0, <3>2, <3>4
      <4>2. Counted'[r] = Counted[r] + body[r].amount
        <5>1. /\ SumFunctionOnSet(Amounts, Returned(r))' = SumFunctionOnSet(Amounts, Returned(r))
              /\ SumFunctionOnSet(Amounts, Returned(r)) \in Int
          BY <1>0, <2>0, CounterTypes DEF Amounts
        <5> QED
          BY <1>0, <3>1, <5>1 DEF Counted
      <4>3. TodayKept(c)'
        BY <1>0, <1>5, <2>0, <3>1, <3>2, <3>4, <4>1, <4>2, TodayCounted
      <4> QED
        BY <1>0, <3>1, <3>2, <4>3, TotalSame
    <3> QED
      BY <3>3, <3>4
  <2> QED
    BY <1>7, <2>1, <2>2, <2>3 DEF CaptureRecord, CaptureTransaction, CaptureCounters,
       CaptureEntries, RefundTransaction, RefundRecord, RefundCounters, RefundEntries, Statement
<1>8. CASE body[r].kind = "CARD_CAPTURE"
  <2>0. /\ u = body[r].target /\ u # r /\ auth[u] # "NONE" /\ pc'[u] = pc[u]
        /\ Returned(u)' = Returned(u)
    BY <1>0, <1>1, <1>2, <1>3, <1>8, <1>u DEF Returned, Refunds, AuthKinds
  <2>1. CASE CaptureRecord(r) \/ CaptureTransaction(r)
    <3>1. /\ UNCHANGED <<charged, spentToday, spentTotal>> /\ auth'[u] # "NONE"
          /\ pc[r] # "entries" /\ pc'[r] # "entries"
      BY <1>0, <1>1, <2>0, <2>1 DEF CaptureRecord, CaptureTransaction, Statement, Goto, counters
    <3>2. Pending(c)' = Pending(c) /\ PaymentsOf(c)' = PaymentsOf(c)
      BY <1>1, <1>4, <2>0, <3>1
    <3> QED
      BY <1>0, <1>1, <2>0, <3>1, <3>2, SumsSame
  <2>2. CASE CaptureCounters(r)
    <3>1. /\ UNCHANGED <<auth, charged, spentToday>>
          /\ pc[r] = "counters" /\ pc'[r] = "entries"
          /\ c = CardOf(r) => spentTotal'[c] = spentTotal[c] + body[r].amount
          /\ c # CardOf(r) => spentTotal'[c] = spentTotal[c]
      BY <1>0, <1>1, <2>2
      DEF CaptureCounters, CaptureSpends, Statement, Goto, authRows, SameTotal
    <3>2. PaymentsOf(c)' = PaymentsOf(c)
      BY <1>1, <2>0, <3>1
    <3>3. \A t \in PaymentsOf(c) : /\ charged'[t] = charged[t]
                                   /\ pc'[t] = "answered" <=> pc[t] = "answered"
                                   /\ Returned(t)' = Returned(t)
      BY <1>1, <2>0, <3>1
    <3>4. CASE c # CardOf(r)
      BY <1>0, <1>1, <3>1, <3>2, <3>3, <3>4, SumsSame
    <3>5. CASE c = CardOf(r)
      <4>1. r \notin Pending(c) /\ Pending(c)' = Pending(c) \cup {r}
        BY <1>1, <1>4, <3>1, <3>5
      <4>2. Due[r] = body[r].amount
        BY <1>8 DEF Due
      <4>3. TotalKept(c)'
        BY <1>0, <3>1, <3>2, <3>5, <4>1, <4>2, TotalPending
      <4>4. TodayKept(c)'
        BY <1>0, <1>5, <2>0, <3>1, <3>2, <3>3, CountedSame, CounterTypes, TodaySame
      <4> QED
        BY <4>3, <4>4
    <3> QED
      BY <3>4, <3>5
  <2>3. CASE CaptureEntries(r)
    <3>1. /\ UNCHANGED <<auth, spentToday, spentTotal>>
          /\ pc[r] = "entries" /\ pc'[r] = "answered" /\ r \in wrote
          /\ charged'[u] = charged[u] + body[r].amount
      BY <1>0, <1>1, <1>8, <2>0, <2>3
      DEF CaptureEntries, Charge, Statement, AnswerWith, Goto, authRows, counters, Writing, Past
    <3>2. PaymentsOf(c)' = PaymentsOf(c)
      BY <1>1, <2>0, <3>1
    <3>3. \A t \in PaymentsOf(c) : /\ pc'[t] = "answered" <=> pc[t] = "answered"
                                   /\ Returned(t)' = Returned(t)
      BY <1>1, <2>0
    <3>4. CASE c # CardOf(r)
      BY <1>0, <1>1, <1>6, <3>1, <3>2, <3>3, <3>4, SumsSame
    <3>5. CASE c = CardOf(r)
      <4>1. r \in Pending(c) /\ Pending(c)' = Pending(c) \ {r} /\ u \in PaymentsOf(c)
        BY <1>1, <1>4, <1>6, <2>0, <3>1, <3>5
      <4>2. Due[r] = body[r].amount
        BY <1>8 DEF Due
      <4>3. TotalKept(c)'
        BY <1>0, <1>1, <3>1, <3>2, <4>1, <4>2, TotalEntered
      <4>4. TodayKept(c)'
        BY <1>0, <3>1, <3>2, <3>3, CountedSame, CounterTypes, TodaySame
      <4> QED
        BY <4>3, <4>4
    <3> QED
      BY <3>4, <3>5
  <2> QED
    BY <1>8, <2>1, <2>2, <2>3 DEF AuthorizeTransaction, AuthorizeRecord, AuthorizeCounters,
       RefundTransaction, RefundRecord, RefundCounters, RefundEntries, Statement
<1>9. CASE body[r].kind = "CARD_REVERSE"
  <2>0. /\ u = body[r].target /\ u # r /\ auth[u] # "NONE" /\ pc'[u] = pc[u]
        /\ Refunds(u)' = Refunds(u) \cup {r}
    BY <1>0, <1>1, <1>2, <1>3, <1>9, <1>u DEF Refunds, AuthKinds
  <2>1. CASE RefundTransaction(r) \/ RefundRecord(r)
    <3>1. /\ UNCHANGED <<charged, spentToday, spentTotal>> /\ auth'[u] # "NONE"
          /\ pc[r] \notin {"entries", "answered"} /\ pc'[r] \notin {"entries", "answered"}
      BY <1>0, <1>1, <2>0, <2>1
      DEF RefundTransaction, RefundRecord, Statement, Goto, counters, authRows
    <3>2. Pending(c)' = Pending(c) /\ PaymentsOf(c)' = PaymentsOf(c)
      BY <1>1, <1>4, <2>0, <3>1
    <3>3. Returned(u)' = Returned(u)
      BY <1>0, <1>3, <2>0, <3>1 DEF Returned, Refunds
    <3> QED
      BY <1>0, <1>1, <2>0, <3>1, <3>2, <3>3, SumsSame
  <2>2. CASE RefundCounters(r)
    <3>1. /\ UNCHANGED <<auth, charged>>
          /\ pc[r] = "counters" /\ pc'[r] = "entries"
          /\ c = CardOf(r) => /\ spentTotal'[c] = spentTotal[c] - body[r].amount
                              /\ spentToday'[c] = spentToday[c] - body[r].amount
          /\ c # CardOf(r) => spentTotal'[c] = spentTotal[c] /\ spentToday'[c] = spentToday[c]
      BY <1>0, <1>1, <2>2
      DEF RefundCounters, Statement, Goto, authRows, SameToday, SameTotal
    <3>2. PaymentsOf(c)' = PaymentsOf(c)
      BY <1>1, <2>0, <3>1
    <3>4. CASE c # CardOf(r)
      BY <1>0, <1>1, <1>6, <3>1, <3>2, <3>4, SumsSame
    <3>5. CASE c = CardOf(r)
      <4>1. r \notin Pending(c) /\ Pending(c)' = Pending(c) \cup {r} /\ u \in PaymentsOf(c)
        BY <1>1, <1>4, <1>6, <2>0, <3>1, <3>5
      <4>2. Due[r] = 0 - body[r].amount
        BY <1>9 DEF Due
      <4>3. TotalKept(c)'
        <5>1. spentTotal'[c] = spentTotal[c] + Due[r]
          BY <1>0, <3>1, <3>5, <4>2
        <5> QED
          BY <1>0, <3>1, <3>2, <4>1, <5>1, TotalPending
      <4>4. r \notin Returned(u) /\ Returned(u)' = Returned(u) \cup {r}
        BY <1>0, <1>3, <2>0, <3>1 DEF Returned, Refunds
      <4>5. Counted'[u] = Counted[u] + (0 - body[r].amount)
        <5>0. Returned(u) \subseteq Requests
          BY <1>0, CounterTypes
        <5>1. Amounts' = Amounts /\ \A s \in Returned(u) \cup {r} : Amounts[s] \in Int
          BY <1>0, <5>0 DEF Amounts
        <5>2. SumFunctionOnSet(Amounts, Returned(u) \cup {r})
                = Amounts[r] + SumFunctionOnSet(Amounts, Returned(u))
          BY <1>0, <1>1, <4>4, <5>1, CounterTypes, SumAdd
        <5>3. SumFunctionOnSet(Amounts, Returned(u))' = SumFunctionOnSet(Amounts, Returned(u) \cup {r})
          BY <4>4, <5>1
        <5>4. SumFunctionOnSet(Amounts, Returned(u)) \in Int /\ Amounts[r] = body[r].amount
          BY <1>0, <1>1, CounterTypes DEF Amounts
        <5> QED
          BY <1>0, <1>1, <2>0, <5>2, <5>3, <5>4 DEF Counted
      <4>6. TodayKept(c)'
        <5>1. 0 - body[r].amount \in Int /\ spentToday'[c] = spentToday[c] + (0 - body[r].amount)
          BY <1>0, <3>1, <3>5
        <5> QED
          BY <1>0, <1>5, <3>2, <4>1, <4>5, <5>1, TodayCounted
      <4> QED
        BY <4>3, <4>6
    <3> QED
      BY <3>4, <3>5
  <2>3. CASE RefundEntries(r)
    <3>1. /\ UNCHANGED <<auth, spentToday, spentTotal>>
          /\ pc[r] = "entries" /\ pc'[r] = "answered" /\ r \in wrote
          /\ charged'[u] = charged[u] + (0 - body[r].amount)
      BY <1>0, <1>1, <1>9, <2>0, <2>3
      DEF RefundEntries, Charge, Statement, AnswerWith, Goto, authRows, counters, Writing, Past
    <3>2. PaymentsOf(c)' = PaymentsOf(c)
      BY <1>1, <2>0, <3>1
    <3>3. \A t \in PaymentsOf(c) : /\ pc'[t] = "answered" <=> pc[t] = "answered"
                                   /\ Returned(t)' = Returned(t)
      <4>1. Returned(u)' = Returned(u)
        BY <1>0, <1>2, <1>3, <2>0, <3>1 DEF Returned, Refunds
      <4> QED
        BY <1>1, <2>0, <4>1
    <3>4. CASE c # CardOf(r)
      BY <1>0, <1>1, <1>6, <3>1, <3>2, <3>3, <3>4, SumsSame
    <3>5. CASE c = CardOf(r)
      <4>1. r \in Pending(c) /\ Pending(c)' = Pending(c) \ {r} /\ u \in PaymentsOf(c)
        BY <1>1, <1>4, <1>6, <2>0, <3>1, <3>5
      <4>2. Due[r] = 0 - body[r].amount
        BY <1>9 DEF Due
      <4>3. TotalKept(c)'
        BY <1>0, <1>1, <3>1, <3>2, <4>1, <4>2, TotalEntered
      <4>4. TodayKept(c)'
        BY <1>0, <3>1, <3>2, <3>3, CountedSame, CounterTypes, TodaySame
      <4> QED
        BY <4>3, <4>4
    <3> QED
      BY <3>4, <3>5
  <2> QED
    BY <1>9, <2>1, <2>2, <2>3 DEF AuthorizeTransaction, AuthorizeRecord, AuthorizeCounters,
       CaptureRecord, CaptureTransaction, CaptureCounters, CaptureEntries, Statement
<1> QED
  BY <1>2, <1>7, <1>8, <1>9 DEF PaymentKinds

LEMMA CountersStep ==
    ASSUME CardInv, [BankingNext]_bankVars
    PROVE  CountersKept'
<1> SUFFICES ASSUME NEW c \in Cards, Clean(c)' PROVE TotalKept(c)' /\ TodayKept(c)'
  BY DEF CountersKept
<1>1. Clean(c) /\ TotalKept(c) /\ TodayKept(c)
  BY CleanBefore DEF CardInv, CountersKept
<1>2. CASE ~ CardNext
  BY <1>1, <1>2, CountersOther
<1>3. CASE CardNext
  BY <1>1, <1>3, CountersRead, CountersStatement DEF CardNext
<1> QED
  BY <1>2, <1>3

\* A day's counter within the limit stays within it until the limits change.
LEMMA DayStep ==
    ASSUME CardInv, [BankingNext]_bankVars
    PROVE  DayKept'
<1>0. /\ BankInv /\ Writing /\ DayKept /\ body' = body
      /\ pc \in [Requests -> Labels]
      /\ cardWallet \in [Cards -> Wallets \cup {None}] /\ None \notin Wallets
      /\ spentToday \in [Cards -> Int] /\ sawToday \in [Requests -> Int]
      /\ \A c \in Cards : limits[c].daily \in Nat \cup {None}
      /\ \A s \in Requests : body[s].amount \in Nat
      /\ \A s \in Requests : body[s].kind \in CardKinds => body[s].card \in Cards
      /\ \A s \in Requests : body[s].kind = "CARD_AUTHORIZE"
                             /\ pc[s] \in {"transaction", "record", "counters"}
                              => cardWallet[body[s].card] # None
      /\ \A s \in Requests : pc[s] \in {"answered", "failed"} => pc'[s] = pc[s]
  BY BankBodyConstant, CardTypes, EndedStays, ConstantsAssumption
  DEF CardInv, BankInv, Authorised, Limits
<1>1. \A c : Updated(c) => Updated(c)'
  BY <1>0 DEF Updated
<1>2. ASSUME UNCHANGED <<spentToday, sawToday, limits, cardWallet, lapsed, wrote>>,
             \A s \in Requests : body[s].kind = "CARD_AUTHORIZE"
                /\ pc'[s] \in {"transaction", "record", "counters"}
                 => pc[s] \in {"transaction", "record", "counters"}
      PROVE  DayKept'
  <2>1. \A c \in Cards : Clean(c)' => Clean(c)
    BY <1>0, CleanBefore
  <2> QED
    BY <1>0, <1>1, <1>2, <2>1 DEF DayKept, Within
<1>3. CASE ~ CardNext
  <2>1. UNCHANGED <<spentToday, sawToday, limits, cardWallet, lapsed, wrote>>
    BY <1>0, <1>3, OtherSteps DEF cardVars, counters, cardRows, cardSaw
  <2>2. \A s \in Requests : body[s].kind = "CARD_AUTHORIZE" => pc'[s] = pc[s] \/ pc'[s] = "failed"
    BY <1>0, <1>3, OtherSteps DEF CardKinds
  <2> QED
    BY <1>2, <2>1, <2>2
<1>4. ASSUME NEW r \in Requests, CreateVirtualCard(r) PROVE DayKept'
  <2>1. /\ UNCHANGED <<spentToday, sawToday>> /\ body[r].card \in Cards
        /\ cardWallet[body[r].card] = None
        /\ \A c \in Cards : c # body[r].card => limits'[c] = limits[c] /\ cardWallet'[c] = cardWallet[c]
        /\ limits'[body[r].card] = body[r].limits
        /\ \A s \in Requests : body[s].kind = "CARD_AUTHORIZE" => pc'[s] = pc[s]
    BY <1>0, <1>4, CardTypes DEF CreateVirtualCard, CardCall, counters, cardSaw, CardKinds, Goto
  <2>2. body[r].limits.daily \in Nat \cup {None}
    <3>1. body[r].limits \in Limits
      BY <1>0, CardTypes
    <3> QED
      BY <3>1 DEF Limits
  <2>3. \A c \in Cards : Clean(c)' => Clean(c)
    BY <1>0, CleanBefore
  <2>4. spentToday[body[r].card] = 0
    BY <1>0, <2>1 DEF DayKept
  <2>5. ASSUME NEW c \in Cards
        PROVE  /\ Clean(c)' => Within(spentToday'[c], 0, limits'[c].daily) \/ Updated(c)'
               /\ cardWallet'[c] = None => spentToday'[c] = 0
    <3>1. CASE c = body[r].card
      BY <2>1, <2>2, <2>4, <3>1 DEF Within
    <3>2. CASE c # body[r].card
      BY <1>0, <1>1, <2>1, <2>3, <3>2 DEF DayKept
    <3> QED
      BY <3>1, <3>2
  <2>6. ASSUME NEW s \in Requests, body[s].kind = "CARD_AUTHORIZE",
               pc'[s] \in {"transaction", "record", "counters"}
        PROVE  Within(sawToday'[s], body[s].amount, limits'[body[s].card].daily)
               \/ Updated(body[s].card)'
    <3>1. pc[s] = pc'[s] /\ body[s].card \in Cards /\ body[s].card # body[r].card
      BY <1>0, <2>1, <2>6 DEF CardKinds
    <3>2. Within(sawToday[s], body[s].amount, limits[body[s].card].daily)
          \/ Updated(body[s].card)
      BY <1>0, <2>6, <3>1 DEF DayKept
    <3>3. PICK d \in Cards : d = body[s].card
      BY <3>1
    <3>4. Within(sawToday'[s], body[s].amount, limits'[d].daily) \/ Updated(d)'
      BY <1>1, <2>1, <3>1, <3>2, <3>3
    <3> QED
      BY <1>0, <3>3, <3>4 DEF Updated
  <2> QED
    BY <1>0, <2>5, <2>6 DEF DayKept
<1>5. ASSUME NEW r \in Requests, UpdateVirtualCard(r) PROVE DayKept'
  <2>1. /\ UNCHANGED <<spentToday, sawToday, cardWallet>> /\ body[r].card \in Cards
        /\ body[r].kind = "CARD_UPDATE" /\ pc'[r] = "answered"
        /\ \A c \in Cards : c # body[r].card => limits'[c] = limits[c]
        /\ \A s \in Requests : body[s].kind = "CARD_AUTHORIZE" => pc'[s] = pc[s]
    BY <1>0, <1>5, CardTypes DEF UpdateVirtualCard, CardCall, counters, cardSaw, CardKinds, Goto
  <2>2. Updated(body[r].card)'
    BY <1>0, <2>1 DEF Updated
  <2>3. \A c \in Cards : Clean(c)' => Clean(c)
    BY <1>0, CleanBefore
  <2>4. ASSUME NEW c \in Cards
        PROVE  /\ Clean(c)' => Within(spentToday'[c], 0, limits'[c].daily) \/ Updated(c)'
               /\ cardWallet'[c] = None => spentToday'[c] = 0
    BY <1>0, <1>1, <2>1, <2>2, <2>3 DEF DayKept
  <2>5. ASSUME NEW s \in Requests, body[s].kind = "CARD_AUTHORIZE",
               pc'[s] \in {"transaction", "record", "counters"}
        PROVE  Within(sawToday'[s], body[s].amount, limits'[body[s].card].daily)
               \/ Updated(body[s].card)'
    <3>1. pc[s] = pc'[s] /\ body[s].card \in Cards
      BY <1>0, <2>1, <2>5 DEF CardKinds
    <3>2. Within(sawToday[s], body[s].amount, limits[body[s].card].daily)
          \/ Updated(body[s].card)
      BY <1>0, <2>5, <3>1 DEF DayKept
    <3>3. PICK d \in Cards : d = body[s].card
      BY <3>1
    <3>4. Within(sawToday'[s], body[s].amount, limits'[d].daily) \/ Updated(d)'
      BY <1>0, <1>1, <2>1, <2>2, <3>1, <3>2, <3>3 DEF Updated
    <3> QED
      BY <1>0, <3>3, <3>4 DEF Updated
  <2> QED
    BY <1>0, <2>4, <2>5 DEF DayKept
<1>6. ASSUME NEW r \in Requests,
             \/ FreezeVirtualCard(r) \/ UnfreezeVirtualCard(r)
             \/ AdminFreezeCardRead(r) \/ AdminFreezeCardWrite(r)
             \/ AdminUnfreezeCardRead(r) \/ AdminUnfreezeCardWrite(r)
      PROVE  DayKept'
  <2>1. UNCHANGED <<spentToday, sawToday, limits, cardWallet, lapsed, wrote>>
    BY <1>6 DEF FreezeVirtualCard, UnfreezeVirtualCard, AdminFreezeCardRead,
       AdminFreezeCardWrite, AdminUnfreezeCardRead, AdminUnfreezeCardWrite, CardCall,
       counters, cardSaw, cardRows
  <2>2. \A s \in Requests : body[s].kind = "CARD_AUTHORIZE" => pc'[s] = pc[s]
    BY <1>0, <1>6 DEF FreezeVirtualCard, UnfreezeVirtualCard, AdminFreezeCardRead,
       AdminFreezeCardWrite, AdminUnfreezeCardRead, AdminUnfreezeCardWrite, CardCall, Goto
  <2> QED
    BY <1>2, <2>1, <2>2
<1>7. ASSUME NEW r \in Requests, AuthorizeRead(r) \/ CaptureRead(r) \/ RefundRead(r)
      PROVE  DayKept'
  <2>1. /\ UNCHANGED <<spentToday, limits, cardWallet, lapsed, wrote>>
        /\ \A s \in Requests : s # r => pc'[s] = pc[s] /\ sawToday'[s] = sawToday[s]
        /\ body[r].kind = "CARD_AUTHORIZE" =>
             Within(sawToday'[r], body[r].amount, limits[body[r].card].daily)
    BY <1>0, <1>7 DEF AuthorizeRead, CaptureRead, RefundRead, Begin, Goto, CardOf,
       counters, cardRows
  <2>2. \A c \in Cards : Clean(c)' => Clean(c)
    BY <1>0, CleanBefore
  <2>3. ASSUME NEW c \in Cards
        PROVE  /\ Clean(c)' => Within(spentToday'[c], 0, limits'[c].daily) \/ Updated(c)'
               /\ cardWallet'[c] = None => spentToday'[c] = 0
    BY <1>0, <1>1, <2>1, <2>2 DEF DayKept
  <2>4. ASSUME NEW s \in Requests, body[s].kind = "CARD_AUTHORIZE",
               pc'[s] \in {"transaction", "record", "counters"}
        PROVE  Within(sawToday'[s], body[s].amount, limits'[body[s].card].daily)
               \/ Updated(body[s].card)'
    BY <1>0, <1>1, <2>1, <2>4 DEF DayKept
  <2> QED
    BY <1>0, <2>3, <2>4 DEF DayKept
<1>8. ASSUME NEW r \in Requests,
             \/ AuthorizeTransaction(r) \/ AuthorizeRecord(r)
             \/ CaptureRecord(r) \/ CaptureTransaction(r)
             \/ CaptureCounters(r) \/ CaptureEntries(r)
             \/ RefundTransaction(r) \/ RefundRecord(r) \/ RefundEntries(r)
      PROVE  DayKept'
  <2>1. UNCHANGED <<spentToday, sawToday, limits, cardWallet>>
    BY <1>8 DEF AuthorizeTransaction, AuthorizeRecord, CaptureRecord, CaptureTransaction,
       CaptureCounters, CaptureSpends, CaptureEntries, RefundTransaction, RefundRecord,
       RefundEntries, Charge, Statement, counters, cardRows, cardSaw
  <2>2. \A s \in Requests : body[s].kind = "CARD_AUTHORIZE"
              /\ pc'[s] \in {"transaction", "record", "counters"}
               => pc[s] \in {"transaction", "record", "counters"}
    BY <1>0, <1>8 DEF AuthorizeTransaction, AuthorizeRecord, CaptureRecord,
       CaptureTransaction, CaptureCounters, CaptureEntries, RefundTransaction, RefundRecord,
       RefundEntries, Charge, Statement, Goto, AnswerWith
  <2>3. \A c \in Cards : Clean(c)' => Clean(c)
    BY <1>0, CleanBefore
  <2> QED
    BY <1>0, <1>1, <2>1, <2>2, <2>3 DEF DayKept, Within
<1>9. ASSUME NEW r \in Requests, AuthorizeCounters(r) \/ RefundCounters(r) PROVE DayKept'
  <2>1. /\ UNCHANGED <<sawToday, limits, cardWallet>>
        /\ \A s \in Requests : s # r => pc'[s] = pc[s]
        /\ pc'[r] \in {"answered", "entries"} /\ pc[r] = "counters"
        /\ body[r].kind \in {"CARD_AUTHORIZE", "CARD_REVERSE"}
    BY <1>0, <1>9 DEF AuthorizeCounters, RefundCounters, Statement, Goto, AnswerWith,
       cardRows, cardSaw
  <2>2. /\ CardOf(r) \in Cards /\ cardWallet[CardOf(r)] # None
        /\ body[r].kind = "CARD_AUTHORIZE" => CardOf(r) = body[r].card
    <3>1. CASE body[r].kind = "CARD_AUTHORIZE"
      BY <1>0, <2>1, <3>1 DEF CardOf, CardKinds
    <3>2. CASE body[r].kind = "CARD_REVERSE"
      BY <1>0, <2>1, <3>2, CardOfCall DEF BankInv, AuthKinds
    <3> QED
      BY <2>1, <3>1, <3>2
  <2>3. PICK d \in Cards : d = CardOf(r)
    BY <2>2
  <2>4. \A c \in Cards : c # d => spentToday'[c] = spentToday[c]
    BY <1>0, <1>9, <2>2, <2>3 DEF AuthorizeCounters, AuthorizeSpends, RefundCounters,
       Statement
  <2>5. \A c \in Cards : Clean(c)' => Clean(c)
    BY <1>0, CleanBefore
  <2>6. ASSUME Clean(d)' PROVE Within(spentToday'[d], 0, limits[d].daily) \/ Updated(d)
    <3>1. d \notin lapsed'
      BY <2>6 DEF Clean
    <3>2. CASE AuthorizeCounters(r)
      <4>1. body[r].kind = "CARD_AUTHORIZE" /\ spentToday'[d] = sawToday[r] + body[r].amount
        BY <1>0, <2>2, <2>3, <3>2 DEF AuthorizeCounters, AuthorizeSpends, Statement
      <4>2. Within(sawToday[r], body[r].amount, limits[d].daily) \/ Updated(d)
        BY <1>0, <2>1, <2>2, <2>3, <4>1 DEF DayKept
      <4> QED
        BY <1>0, <4>1, <4>2 DEF Within
    <3>3. CASE RefundCounters(r)
      <4>1. spentToday'[d] = spentToday[d] - body[r].amount
        BY <1>0, <2>3, <3>1, <3>3 DEF RefundCounters, Statement, SameToday
      <4>2. Within(spentToday[d], 0, limits[d].daily) \/ Updated(d)
        BY <1>0, <2>5, <2>6 DEF DayKept
      <4> QED
        BY <1>0, <4>1, <4>2 DEF Within
    <3> QED
      BY <1>9, <3>2, <3>3
  <2>7. ASSUME NEW c \in Cards
        PROVE  /\ Clean(c)' => Within(spentToday'[c], 0, limits'[c].daily) \/ Updated(c)'
               /\ cardWallet'[c] = None => spentToday'[c] = 0
    BY <1>0, <1>1, <2>1, <2>2, <2>3, <2>4, <2>5, <2>6 DEF DayKept
  <2>8. ASSUME NEW s \in Requests, body[s].kind = "CARD_AUTHORIZE",
               pc'[s] \in {"transaction", "record", "counters"}
        PROVE  Within(sawToday'[s], body[s].amount, limits'[body[s].card].daily)
               \/ Updated(body[s].card)'
    BY <1>0, <1>1, <2>1, <2>8 DEF DayKept
  <2> QED
    BY <1>0, <2>7, <2>8 DEF DayKept
<1> QED
  BY <1>3, <1>4, <1>5, <1>6, <1>7, <1>8, <1>9 DEF CardNext

-----------------------------------------------------------------------------
(* The theorems.                                                           *)

LEMMA CardInvariantInit == BankingInit => CardInv
<1> SUFFICES ASSUME BankingInit PROVE CardInv
  OBVIOUS
<1>1. BankInv
  BY BankInvariantInit
<1>2. /\ \A r \in Requests : pc[r] = "idle" /\ auth[r] = "NONE" /\ charged[r] = 0
                             /\ status[r] = "NONE"
      /\ wrote = {} /\ \A c \in Cards : spentToday[c] = 0 /\ spentTotal[c] = 0
      /\ limits = OpeningLimits
  BY DEF BankingInit, PaymentsInit, Init, SavingsInit, CardInit
<1>3. Writing /\ Reviewed
  BY <1>2 DEF Writing, Reviewed, Past
<1>4. Stories
  BY <1>2 DEF Stories, Story, Captures, Refunds
<1>5. CountersKept
  <2>1. \A c \in Cards : PaymentsOf(c) = {} /\ Pending(c) = {}
    BY <1>2 DEF PaymentsOf, Pending
  <2> QED
    BY <1>2, <2>1, SumEmpty DEF CountersKept, TotalKept, TodayKept
<1>6. DayKept
  <2>1. \A c \in Cards : limits[c].daily \in Nat \cup {None}
    BY <1>1, CardTypes DEF Limits
  <2> QED
    BY <1>2, <2>1 DEF DayKept, Within
<1> QED
  BY <1>1, <1>3, <1>4, <1>5, <1>6 DEF CardInv

LEMMA CardInvariantStep == CardInv /\ [BankingNext]_bankVars => CardInv'
<1> SUFFICES ASSUME CardInv, [BankingNext]_bankVars PROVE CardInv'
  OBVIOUS
<1>1. BankInv'
  BY BankInvariantStep DEF CardInv
<1> QED
  BY <1>1, WritingStep, StoriesStep, ReviewedStep, CountersStep, DayStep DEF CardInv

\* What the rows, the counters and the ledger of a card say at every step.
THEOREM CardInvariance == BankingSpec => []CardInv
BY CardInvariantInit, CardInvariantStep, PTL DEF BankingSpec

\* A card nothing has disturbed is clean, and its calls have been answered.
LEMMA UndisturbedCalls ==
    ASSUME CardInv, NEW c \in Cards, Undisturbed(c), NEW t \in PaymentsOf(c)
    PROVE  /\ t \in Requests /\ pc[t] = "answered" /\ Story(t)
           /\ auth[t] # "NONE" /\ status[t] # "NONE"
           /\ \A r \in Captures(t) : r \in Requests /\ pc[r] = "answered"
           /\ \A r \in Refunds(t) : r \in Requests /\ pc[r] = "answered"
<1>1. /\ t \in Requests /\ body[t].kind = "CARD_AUTHORIZE" /\ body[t].card = c /\ auth[t] # "NONE"
  BY DEF PaymentsOf
<1>2. Clean(c) /\ Writing /\ Stories /\ Authorised /\ wrote \subseteq Requests
  BY CardTypes DEF CardInv, BankInv, Undisturbed, Clean
<1>3. Story(t) /\ status[t] # "NONE" /\ t \in wrote
  BY <1>1, <1>2 DEF Stories, Authorised, Exists, Writing
<1>4. \A r \in Captures(t) \cup Refunds(t) : r \in wrote /\ r \in Requests /\ CardOf(r) = c
  BY <1>1, <1>2 DEF Captures, Refunds, CardOf
<1>5. CardOf(t) = c
  BY <1>1 DEF CardOf
<1> QED
  BY <1>1, <1>3, <1>4, <1>5 DEF Undisturbed

\* The rows of a payment agree.
LEMMA RowsAgree == CardInv => CardRowsAgree
<1> SUFFICES ASSUME CardInv, NEW c \in Cards, Undisturbed(c), NEW t \in PaymentsOf(c)
             PROVE  /\ auth[t] = "AUTHORIZED" =>
                         charged[t] = 0 /\ status[t] \in {"PENDING", "REQUIRES_ACTION"}
                    /\ auth[t] = "CAPTURED" =>
                         /\ charged[t] = authAmount[t]
                         /\ status[t] \in {"COMPLETED", "REVERSED", "REQUIRES_ACTION"}
                    /\ auth[t] = "REVERSED" =>
                         charged[t] \in 0..authAmount[t]
                         /\ status[t] \in {"REVERSED", "REQUIRES_ACTION"}
                    /\ authAmount[t] = txAmount[t]
  BY DEF CardRowsAgree
<1>1. /\ t \in Requests /\ Story(t) /\ auth[t] # "NONE" /\ status[t] # "NONE"
      /\ \A r \in Captures(t) : r \in Requests /\ pc[r] = "answered"
      /\ \A r \in Refunds(t) : r \in Requests /\ pc[r] = "answered"
  BY UndisturbedCalls
<1>2. /\ auth[t] \in AuthStatuses
      /\ \A r \in Requests : body[r].amount \in Nat
  BY <1>1, CardTypes DEF CardInv
<1>3. CASE auth[t] = "AUTHORIZED"
  BY <1>1, <1>3 DEF Story
<1>4. CASE auth[t] = "CAPTURED"
  <2>1. Captures(t) # {} /\ Refunds(t) = {}
    BY <1>1, <1>4 DEF Story
  <2> QED
    BY <1>1, <1>4, <2>1 DEF Story, Entered
<1>5. CASE auth[t] = "REVERSED"
  <2>1. PICK r \in Captures(t), s \in Refunds(t) : TRUE
    BY <1>1, <1>5 DEF Story
  <2>2. /\ authAmount[t] = body[r].amount /\ txAmount[t] = body[r].amount
        /\ body[s].amount <= body[r].amount
        /\ charged[t] = body[r].amount - body[s].amount
        /\ status[t] \in {"REVERSED", "REQUIRES_ACTION"}
    BY <1>1, <2>1 DEF Story, Entered
  <2> QED
    BY <1>1, <1>2, <1>5, <2>1, <2>2
<1> QED
  BY <1>1, <1>2, <1>3, <1>4, <1>5 DEF AuthStatuses

\* What an undisturbed payment has counted is what it takes of the day.
LEMMA CountedIsTaken ==
    ASSUME CardInv, NEW c \in Cards, Undisturbed(c), NEW t \in PaymentsOf(c)
    PROVE  Counted[t] = Taken(t)
<1>1. /\ t \in Requests /\ Story(t) /\ auth[t] # "NONE" /\ pc[t] = "answered"
      /\ \A r \in Captures(t) : r \in Requests /\ pc[r] = "answered"
      /\ \A r \in Refunds(t) : r \in Requests /\ pc[r] = "answered"
  BY UndisturbedCalls
<1>2. /\ auth[t] \in AuthStatuses
      /\ \A r \in Requests : body[r].amount \in Nat
  BY <1>1, CardTypes DEF CardInv
<1>3. Returned(t) = Refunds(t)
  BY <1>1 DEF Returned
<1>4. CASE auth[t] = "REVERSED"
  <2>1. PICK r \in Captures(t), s \in Refunds(t) : Refunds(t) = {s}
    BY <1>1, <1>4 DEF Story
  <2>2. authAmount[t] = body[r].amount /\ charged[t] = body[r].amount - body[s].amount
    BY <1>1, <2>1 DEF Story, Entered
  <2>3. SumFunctionOnSet(Amounts, {s}) = body[s].amount
    <3>1. \A x \in {} \cup {s} : Amounts[x] \in Int
      BY <1>1, <1>2, <2>1 DEF Amounts
    <3>2. SumFunctionOnSet(Amounts, {} \cup {s}) = Amounts[s] + SumFunctionOnSet(Amounts, {})
      BY <3>1, SumAdd, FS_EmptySet
    <3>3. {} \cup {s} = {s} /\ Amounts[s] = body[s].amount
      BY <1>1, <2>1 DEF Amounts
    <3> QED
      BY <1>1, <1>2, <2>1, <3>2, <3>3, SumEmpty
  <2>4. SumFunctionOnSet(Amounts, Returned(t)) = body[s].amount
    BY <1>3, <2>1, <2>3
  <2>5. Taken(t) = body[t].amount - body[s].amount
    BY <1>1, <1>2, <1>4, <2>1, <2>2 DEF Taken
  <2> QED
    BY <1>1, <2>4, <2>5 DEF Counted
<1>5. CASE auth[t] # "REVERSED"
  <2>1. Refunds(t) = {}
    BY <1>1, <1>5 DEF Story
  <2>2. SumFunctionOnSet(Amounts, Returned(t)) = 0
    BY <1>3, <2>1, SumEmpty
  <2> QED
    BY <1>1, <1>2, <1>5, <2>2 DEF Counted, Taken
<1> QED
  BY <1>4, <1>5

\* The counters of an undisturbed card are the sums over its payments.
LEMMA SumsBooked == CardInv => CountersBooked
<1> SUFFICES ASSUME CardInv, NEW c \in Cards, Undisturbed(c)
             PROVE  /\ spentTotal[c] = SumFunctionOnSet(charged, PaymentsOf(c))
                    /\ spentToday[c] = TakenOf(c)
                    /\ \/ limits[c].daily = None
                       \/ TakenOf(c) <= limits[c].daily
                       \/ Updated(c)
  BY DEF CountersBooked, Updated
<1>1. Clean(c) /\ BankInv
  BY DEF Undisturbed, Clean, CardInv
<1>2. TotalKept(c) /\ TodayKept(c)
  BY <1>1 DEF CardInv, CountersKept
<1>3. Pending(c) = {}
  BY DEF Undisturbed, Pending
<1>4. SumFunctionOnSet(charged, PaymentsOf(c)) \in Int
      /\ IsFiniteSet(PaymentsOf(c)) /\ PaymentsOf(c) \subseteq Requests
  BY <1>1, CounterTypes
<1>5. spentTotal[c] = SumFunctionOnSet(charged, PaymentsOf(c))
  BY <1>2, <1>3, <1>4, SumEmpty DEF TotalKept
<1>6. spentToday[c] = TakenOf(c)
  <2> DEFINE taken == [t \in Requests |-> Taken(t)]
  <2>1. \A t \in PaymentsOf(c) : Counted[t] = taken[t]
    BY <1>4, CountedIsTaken
  <2>2. SumFunctionOnSet(Counted, PaymentsOf(c)) = SumFunctionOnSet(taken, PaymentsOf(c))
    <3> HIDE DEF taken
    <3> QED
      BY <1>4, <2>1, SumSame
  <2> QED
    BY <1>2, <2>2 DEF TodayKept, TakenOf
<1>7. /\ Within(spentToday[c], 0, limits[c].daily) \/ Updated(c)
      /\ spentToday[c] \in Int
  BY <1>1, CardTypes DEF CardInv, DayKept
<1> QED
  BY <1>5, <1>6, <1>7 DEF Within

\* The authorisation, the transaction and the ledger of a payment tell the same
\* story, whenever no call on its card is under way or was overtaken.
THEOREM CardRowsDoAgree == BankingSpec => []CardRowsAgree
BY CardInvariance, RowsAgree, PTL

\* A card's two counters are the sums of what its payments were charged and
\* take of the day, and within the daily limit unless somebody has changed it.
THEOREM CountersAreBooked == BankingSpec => []CountersBooked
BY CardInvariance, SumsBooked, PTL
=============================================================================
