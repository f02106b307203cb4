--------------------------- MODULE PaymentsProofs ---------------------------
(***************************************************************************)
(* Proofs about Payments, for any number of users, wallets, keys and calls.*)
(***************************************************************************)
EXTENDS PaymentsInvariant, Sums, TLAPS

USE ConstantsAssumption

\* What a call asks never changes, and has the fields its kind needs.
LEMMA BodyFields ==
    ASSUME PaymentsTypeOK, NEW r \in Requests
    PROVE  /\ body[r] \in BodyType
           /\ body[r].amount \in Nat
           /\ body[r].key \in Keys \cup {None}
           /\ body[r].user \in Users
           /\ body[r].kind \in {"DEPOSIT", "WITHDRAWAL", "P2P_TRANSFER", "FREEZE", "UNFREEZE"}
                => body[r].wallet \in Wallets
           /\ body[r].kind = "P2P_TRANSFER" => body[r].to \in Wallets
           /\ body[r].kind \in {"COMPLETE", "REVERSE", "FLAG"} => body[r].target \in Requests
<1>1. body[r] \in Bodies
  BY DEF PaymentsTypeOK, TypeOK
<1>2. body[r] \in BodyType /\ WellFormed(body[r])
  BY <1>1
<1> QED
  BY <1>2 DEF BodyType, WellFormed

\* No step changes what a call asks.
LEMMA BodyConstant == [PaymentsNext]_allVars => body' = body
BY DEF PaymentsNext, allVars, vars, WalletNext, AdminNext, DepositReadWallet,
       WithdrawReadWallet, NewKey, ReplayResponse, DepositCommit, WithdrawCommit,
       TransferReplay, TransferNewKey, TransferReadSender, TransferReadReceiver,
       TransferCommit, TransferStoreKey, CompleteRead, AlreadyProcessed,
       SettleDeposit, Credit, SettleWithdrawal, Respond, Fail, FreezeRead, FreezeWrite,
       UnfreezeRead, UnfreezeWrite, ReverseRead, ReverseWrite, FlagRead, FlagWrite,
       Checked, Written, wallets

\* The initial values have their types.
LEMMA TypeInit == PaymentsInit => PaymentsTypeOK
BY DEF PaymentsInit, Init, PaymentsTypeOK, TypeOK, Statuses, Labels

\* Every handler keeps the types, a wallet or a transaction it writes being one
\* its body names.
LEMMA TypeStep == PaymentsTypeOK /\ [PaymentsNext]_allVars => PaymentsTypeOK'
<1> SUFFICES ASSUME PaymentsTypeOK, [PaymentsNext]_allVars PROVE PaymentsTypeOK'
  OBVIOUS
<1>0. \A r \in Requests :
         body[r].kind \in {"COMPLETE", "REVERSE", "FLAG"} => body[r].target \in Requests
  BY BodyFields
<1> USE BodyFields DEF PaymentsTypeOK, TypeOK, Statuses, Labels, Goto, AnswerWith, ledger
<1>1. ASSUME NEW r \in Requests, WalletNext, UNCHANGED fraudFlags,
             \/ DepositReadWallet(r) \/ WithdrawReadWallet(r) \/ NewKey(r)
             \/ TransferNewKey(r) \/ TransferReadSender(r) \/ TransferReadReceiver(r)
             \/ CompleteRead(r) \/ Fail(r)
      PROVE  PaymentsTypeOK'
  BY <1>1 DEF DepositReadWallet, WithdrawReadWallet, NewKey, TransferNewKey,
     TransferReadSender, TransferReadReceiver, CompleteRead, Fail, OwnWallet
<1>2. ASSUME NEW r \in Requests, UNCHANGED fraudFlags,
             \/ ReplayResponse(r) \/ TransferReplay(r) \/ AlreadyProcessed(r) \/ Respond(r)
      PROVE  PaymentsTypeOK'
  BY <1>2 DEF ReplayResponse, TransferReplay, AlreadyProcessed, Respond, OwnRecord, Recorded
<1>3. ASSUME NEW r \in Requests, UNCHANGED fraudFlags, DepositCommit(r)
      PROVE  PaymentsTypeOK'
  BY <1>3 DEF DepositCommit, ReserveKey
<1>4. ASSUME NEW r \in Requests, UNCHANGED fraudFlags, WithdrawCommit(r)
      PROVE  PaymentsTypeOK'
  BY <1>4 DEF WithdrawCommit, ReserveKey, Hold
<1>5. ASSUME NEW r \in Requests, UNCHANGED fraudFlags, TransferCommit(r)
      PROVE  PaymentsTypeOK'
  BY <1>5 DEF TransferCommit, Moved
<1>6. ASSUME NEW r \in Requests, UNCHANGED fraudFlags, TransferStoreKey(r)
      PROVE  PaymentsTypeOK'
  BY <1>6 DEF TransferStoreKey, ReserveKey
<1>7. ASSUME NEW r \in Requests, UNCHANGED fraudFlags,
             SettleDeposit(r) \/ SettleWithdrawal(r)
      PROVE  PaymentsTypeOK'
  <2>0. body[r].kind = "COMPLETE"
    BY <1>7, Zenon DEF SettleDeposit, SettleWithdrawal
  <2>1. body[r].target \in Requests
    BY <1>0, <2>0, Zenon
  <2>2. CASE SettleWithdrawal(r)
    <3> DEFINE t == body[r].target
    <3>1. t \in Requests /\ body[t].amount \in Nat
      BY <2>1, BodyFields
    <3>2. booked' \in [Requests -> Int]
      BY <2>2, <3>1 DEF SettleWithdrawal
    <3>3. status' \in [Requests -> Statuses] /\ pc' \in [Requests -> Labels]
      BY <2>2, <3>1 DEF SettleWithdrawal, MarkCompleted
    <3>4. UNCHANGED <<balance, available, frozen, holds, moves, keys, body, seen, answer,
                      fraudFlags>>
      BY <1>7, <2>2, Zenon DEF SettleWithdrawal
    <3> QED
      BY <3>2, <3>3, <3>4
  <2>3. CASE SettleDeposit(r)
    <3> DEFINE t == body[r].target
    <3>1. t \in Requests /\ body[t].wallet \in Wallets /\ body[t].amount \in Nat
      BY <2>1, <2>3, BodyFields DEF SettleDeposit
    <3>2. /\ balance' \in [Wallets -> Int] /\ available' \in [Wallets -> Int]
          /\ moves' \in [Wallets -> Int] /\ booked' \in [Requests -> Int]
      BY <2>3, <3>1 DEF SettleDeposit, Credit, Credited, PostCredit
    <3>3. status' \in [Requests -> Statuses] /\ pc' \in [Requests -> Labels]
      BY <2>3, <3>1 DEF SettleDeposit, MarkCompleted
    <3>4. UNCHANGED <<frozen, holds, keys, body, seen, answer, fraudFlags>>
      BY <1>7, <2>3, Zenon DEF SettleDeposit
    <3> QED
      BY <3>2, <3>3, <3>4
  <2> QED
    BY <1>7, <2>2, <2>3
<1>8. ASSUME NEW r \in Requests,
             FreezeRead(r) \/ UnfreezeRead(r) \/ ReverseRead(r) \/ FlagRead(r)
      PROVE  PaymentsTypeOK'
  BY <1>8 DEF FreezeRead, UnfreezeRead, ReverseRead, FlagRead, Checked, wallets
<1>9. ASSUME NEW r \in Requests, FreezeWrite(r) \/ UnfreezeWrite(r)
      PROVE  PaymentsTypeOK'
  BY <1>9 DEF FreezeWrite, UnfreezeWrite, Written, wallets
<1>10. ASSUME NEW r \in Requests, ReverseWrite(r) \/ FlagWrite(r)
      PROVE  PaymentsTypeOK'
  <2>1. body[r].target \in Requests
    BY <1>10, BodyFields DEF ReverseWrite, FlagWrite, Written
  <2>2. CASE ReverseWrite(r)
    BY <2>1, <2>2 DEF ReverseWrite, Written, wallets
  <2>3. CASE FlagWrite(r)
    BY <2>1, <2>3 DEF FlagWrite, FlagStatus, Written, wallets
  <2> QED
    BY <1>10, <2>2, <2>3
<1>11. CASE UNCHANGED allVars
  BY <1>11 DEF allVars, vars, calls
<1> QED
  BY <1>1, <1>2, <1>3, <1>4, <1>5, <1>6, <1>7, <1>8, <1>9, <1>10, <1>11
  DEF PaymentsNext, WalletNext, AdminNext

\* The types of all variables, on every behaviour of the payment system.
THEOREM TypeCorrect == Spec => []PaymentsTypeOK
BY TypeInit, TypeStep, PTL DEF Spec

-----------------------------------------------------------------------------
(* The inductive invariant, part by part.                                  *)

\* Transactions appear at their call's commit, and never disappear.
LEMMA RowsStep ==
    ASSUME PaymentsTypeOK, Rows, Passed, Targets, [PaymentsNext]_allVars
    PROVE  /\ Rows'
           /\ \A r \in Requests : Exists(r) => Exists(r)'
<1> USE BodyConstant DEF Rows, Exists, Creates, Initiates, PaymentsTypeOK, TypeOK,
                         Labels, Statuses, Goto, AnswerWith
<1> DEFINE Goal == Rows' /\ \A r \in Requests : Exists(r) => Exists(r)'
<1>1. ASSUME NEW r \in Requests,
             \/ DepositReadWallet(r) \/ WithdrawReadWallet(r) \/ NewKey(r)
             \/ TransferNewKey(r) \/ TransferReadSender(r) \/ TransferReadReceiver(r)
             \/ CompleteRead(r) \/ Fail(r)
      PROVE  Goal
  BY <1>1 DEF DepositReadWallet, WithdrawReadWallet, NewKey, TransferNewKey,
     TransferReadSender, TransferReadReceiver, CompleteRead, Fail
<1>2. ASSUME NEW r \in Requests,
             \/ ReplayResponse(r) \/ TransferReplay(r) \/ AlreadyProcessed(r) \/ Respond(r)
      PROVE  Goal
  BY <1>2 DEF ReplayResponse, TransferReplay, AlreadyProcessed, Respond
<1>3. ASSUME NEW r \in Requests,
             DepositCommit(r) \/ WithdrawCommit(r) \/ TransferCommit(r) \/ TransferStoreKey(r)
      PROVE  Goal
  BY <1>3 DEF DepositCommit, WithdrawCommit, TransferCommit, TransferStoreKey, Passed
<1>4. ASSUME NEW r \in Requests, SettleDeposit(r) \/ SettleWithdrawal(r)
      PROVE  Goal
  BY <1>4 DEF SettleDeposit, Credit, SettleWithdrawal, MarkCompleted, Targets
<1>5. ASSUME NEW r \in Requests,
             \/ FreezeRead(r) \/ UnfreezeRead(r) \/ ReverseRead(r) \/ FlagRead(r)
             \/ FreezeWrite(r) \/ UnfreezeWrite(r)
      PROVE  Goal
  BY <1>5 DEF FreezeRead, UnfreezeRead, ReverseRead, FlagRead, FreezeWrite,
     UnfreezeWrite, Checked, Written, wallets
<1>6. ASSUME NEW r \in Requests, ReverseWrite(r) \/ FlagWrite(r)
      PROVE  Goal
  BY <1>6 DEF ReverseWrite, FlagWrite, FlagStatus, Written, wallets, Targets
<1>7. CASE UNCHANGED allVars
  BY <1>7 DEF allVars, vars, calls
<1> QED
  BY <1>1, <1>2, <1>3, <1>4, <1>5, <1>6, <1>7 DEF PaymentsNext, WalletNext, AdminNext

\* The steps that touch no table but, at most, a wallet's status.
Quiet == UNCHANGED <<balance, available, ledger, status, keys, body, fraudFlags>>

\* Every other step is the write of one of these handlers.
LEMMA StepCases ==
    ASSUME [PaymentsNext]_allVars
    PROVE  \/ Quiet
           \/ \E r \in Requests :
                \/ /\ fraudFlags' = fraudFlags
                   /\ \/ DepositCommit(r) \/ WithdrawCommit(r)
                      \/ TransferCommit(r) \/ TransferStoreKey(r)
                      \/ SettleDeposit(r) \/ SettleWithdrawal(r)
                \/ ReverseWrite(r) \/ FlagWrite(r)
<1> USE DEF Quiet, ledger
<1>1. ASSUME NEW r \in Requests, fraudFlags' = fraudFlags,
             \/ DepositReadWallet(r) \/ WithdrawReadWallet(r) \/ NewKey(r)
             \/ TransferNewKey(r) \/ TransferReadSender(r) \/ TransferReadReceiver(r)
             \/ CompleteRead(r) \/ Fail(r)
             \/ ReplayResponse(r) \/ TransferReplay(r) \/ AlreadyProcessed(r) \/ Respond(r)
      PROVE  Quiet
  BY <1>1 DEF DepositReadWallet, WithdrawReadWallet, NewKey, TransferNewKey,
     TransferReadSender, TransferReadReceiver, CompleteRead, Fail,
     ReplayResponse, TransferReplay, AlreadyProcessed, Respond
<1>2. ASSUME NEW r \in Requests,
             \/ FreezeRead(r) \/ UnfreezeRead(r) \/ ReverseRead(r) \/ FlagRead(r)
             \/ FreezeWrite(r) \/ UnfreezeWrite(r)
      PROVE  Quiet
  BY <1>2 DEF FreezeRead, UnfreezeRead, ReverseRead, FlagRead, FreezeWrite,
     UnfreezeWrite, Checked, Written, wallets
<1>3. CASE UNCHANGED allVars
  BY <1>3 DEF allVars, vars
<1> QED
  BY <1>1, <1>2, <1>3 DEF PaymentsNext, WalletNext, AdminNext

\* A call at its commit has no row yet, and has one after it.
LEMMA CommitCreates ==
    ASSUME PaymentsTypeOK, Rows, NEW r \in Requests,
           DepositCommit(r) \/ WithdrawCommit(r) \/ TransferCommit(r)
    PROVE  /\ ~ Exists(r) /\ Exists(r)'
           /\ \A s \in Requests : s # r => status'[s] = status[s]
BY DEF Rows, Exists, PaymentsTypeOK, TypeOK, Statuses, Goto, DepositCommit,
       WithdrawCommit, TransferCommit

\* A key record is written in the step that creates its row, or after it, and
\* is never overwritten.
LEMMA KeyRecordsStep ==
    ASSUME PaymentsTypeOK, Rows, KeyRecords, Passed, Targets, [PaymentsNext]_allVars
    PROVE  /\ KeyRecords'
           /\ \A k \in Keys : keys[k] # None => keys'[k] = keys[k]
<1> DEFINE Goal == /\ KeyRecords'
                   /\ \A k \in Keys : keys[k] # None => keys'[k] = keys[k]
<1> USE DEF KeyRecords, Initiates
<1>1. body' = body /\ \A s \in Requests : Exists(s) => Exists(s)'
  BY BodyConstant, RowsStep
<1>2. \A s \in Requests : body[s].key \in Keys \cup {None}
  BY BodyFields
<1>3. keys \in [Keys -> Requests \cup {None}]
  BY DEF PaymentsTypeOK, TypeOK
<1>4. CASE Quiet
  BY <1>1, <1>4 DEF Quiet, Exists
<1>5. ASSUME NEW r \in Requests, DepositCommit(r) \/ WithdrawCommit(r)
      PROVE  Goal
  <2>1. ReserveKey(r) /\ Initiates(r)
    BY <1>5 DEF DepositCommit, WithdrawCommit
  <2>2. Exists(r)' /\ \A s \in Requests : Exists(s)' => Exists(s) \/ s = r
    BY <1>5, CommitCreates DEF Exists
  <2> QED
    BY <1>1, <1>2, <1>3, <2>1, <2>2 DEF ReserveKey
<1>6. ASSUME NEW r \in Requests, TransferCommit(r)
      PROVE  Goal
  <2>1. UNCHANGED keys /\ ~ Initiates(r)
    BY <1>6 DEF TransferCommit
  <2>2. \A s \in Requests : Exists(s)' => Exists(s) \/ s = r
    BY <1>6, CommitCreates DEF Exists
  <2> QED
    BY <1>1, <1>2, <1>3, <2>1, <2>2
<1>7. ASSUME NEW r \in Requests, TransferStoreKey(r)
      PROVE  Goal
  <2>1. ReserveKey(r) /\ UNCHANGED status /\ pc[r] = "store"
    BY <1>7 DEF TransferStoreKey, Goto
  <2>2. Exists(r) /\ ~ Initiates(r)
    BY <2>1 DEF Rows, Creates, Passed
  <2>3. \A s \in Requests : Exists(s)' = Exists(s)
    BY <2>1 DEF Exists
  <2> QED
    BY <1>1, <1>2, <1>3, <2>1, <2>2, <2>3 DEF ReserveKey
<1>8. ASSUME NEW r \in Requests,
             SettleDeposit(r) \/ SettleWithdrawal(r) \/ ReverseWrite(r) \/ FlagWrite(r)
      PROVE  Goal
  <2>1. UNCHANGED keys
    BY <1>8 DEF SettleDeposit, Credit, SettleWithdrawal, ReverseWrite, FlagWrite, Written, wallets
  <2>2. Exists(body[r].target) /\ \A s \in Requests : s # body[r].target => status'[s] = status[s]
    BY <1>8 DEF SettleDeposit, Credit, SettleWithdrawal, MarkCompleted, ReverseWrite, FlagWrite,
       FlagStatus, Written, Goto, Targets, PaymentsTypeOK, TypeOK
  <2>3. \A s \in Requests : Exists(s)' => Exists(s)
    BY <2>2 DEF Exists
  <2> QED
    BY <1>1, <1>2, <1>3, <2>1, <2>3
<1> QED
  BY <1>4, <1>5, <1>6, <1>7, <1>8, StepCases

\* What a handler has checked of its own call stays checked.
LEMMA PassedStep ==
    ASSUME PaymentsTypeOK, Passed, [PaymentsNext]_allVars
    PROVE  Passed'
<1> USE BodyConstant DEF Passed, Creates, Initiates, PaymentsTypeOK, TypeOK, Goto, AnswerWith
<1>1. ASSUME NEW r \in Requests,
             \/ DepositReadWallet(r) \/ WithdrawReadWallet(r) \/ NewKey(r)
             \/ TransferNewKey(r) \/ CompleteRead(r) \/ Fail(r)
      PROVE  Passed'
  BY <1>1 DEF DepositReadWallet, WithdrawReadWallet, NewKey, TransferNewKey,
     CompleteRead, Fail
<1>2. ASSUME NEW r \in Requests, TransferReadSender(r) \/ TransferReadReceiver(r)
      PROVE  Passed'
  BY <1>2 DEF TransferReadSender, TransferReadReceiver
<1>3. ASSUME NEW r \in Requests,
             \/ ReplayResponse(r) \/ TransferReplay(r) \/ AlreadyProcessed(r) \/ Respond(r)
      PROVE  Passed'
  BY <1>3 DEF ReplayResponse, TransferReplay, AlreadyProcessed, Respond
<1>4. ASSUME NEW r \in Requests,
             \/ DepositCommit(r) \/ WithdrawCommit(r) \/ TransferCommit(r)
             \/ TransferStoreKey(r) \/ SettleDeposit(r) \/ SettleWithdrawal(r)
      PROVE  Passed'
  BY <1>4 DEF DepositCommit, WithdrawCommit, TransferCommit, TransferStoreKey,
     SettleDeposit, Credit, SettleWithdrawal
<1>5. ASSUME NEW r \in Requests,
             \/ FreezeRead(r) \/ UnfreezeRead(r) \/ ReverseRead(r) \/ FlagRead(r)
             \/ FreezeWrite(r) \/ UnfreezeWrite(r) \/ ReverseWrite(r) \/ FlagWrite(r)
      PROVE  Passed'
  BY <1>5 DEF FreezeRead, UnfreezeRead, ReverseRead, FlagRead, FreezeWrite,
     UnfreezeWrite, ReverseWrite, FlagWrite, Checked, Written, wallets
<1>6. CASE UNCHANGED allVars
  BY <1>6 DEF allVars, vars, calls
<1> QED
  BY <1>1, <1>2, <1>3, <1>4, <1>5, <1>6 DEF PaymentsNext, WalletNext, AdminNext

\* Settlements only add to what a deposit, and take from what a withdrawal,
\* has booked: what is settled stays settled.
LEMMA BooksStep ==
    ASSUME PaymentsTypeOK, Rows, Passed, Targets, Books, [PaymentsNext]_allVars
    PROVE  /\ Books'
           /\ \A t \in Requests : Exists(t) /\ Settled(t) => Settled(t)'
<1> DEFINE Goal == /\ Books'
                   /\ \A t \in Requests : Exists(t) /\ Settled(t) => Settled(t)'
<1>1. body' = body /\ \A s \in Requests : Exists(s) => Exists(s)'
  BY BodyConstant, RowsStep
<1>2. \A s \in Requests : body[s].amount \in Nat
  BY BodyFields
<1>3. booked \in [Requests -> Int]
  BY DEF PaymentsTypeOK, TypeOK
<1>4. CASE UNCHANGED booked
  BY <1>1, <1>4 DEF Books, Settled
<1>5. ASSUME NEW r \in Requests, SettleDeposit(r) \/ SettleWithdrawal(r)
      PROVE  Goal
  <2> DEFINE t == body[r].target
  <2>1. t \in Requests /\ \A s \in Requests : s # t => booked'[s] = booked[s]
    BY <1>3, <1>5, BodyFields DEF SettleDeposit, Credit, SettleWithdrawal, PostCredit
  <2>2. CASE SettleDeposit(r)
    <3>1. body[t].kind = "DEPOSIT" /\ booked'[t] = booked[t] + body[t].amount
      BY <1>3, <2>1, <2>2 DEF SettleDeposit, Credit, PostCredit
    <3> QED
      BY <1>1, <1>2, <1>3, <2>1, <3>1 DEF Books, Settled
  <2>3. CASE SettleWithdrawal(r)
    <3>1. body[t].kind = "WITHDRAWAL" /\ booked'[t] = booked[t] - body[t].amount
      BY <1>3, <2>1, <2>3 DEF SettleWithdrawal
    <3> QED
      BY <1>1, <1>2, <1>3, <2>1, <3>1 DEF Books, Settled
  <2> QED
    BY <1>5, <2>2, <2>3
<1> QED
  BY <1>4, <1>5, StepCases
  DEF Quiet, ledger, DepositCommit, WithdrawCommit, TransferCommit, TransferStoreKey,
      ReverseWrite, FlagWrite, Written, wallets

\* What a call has read of another call's transaction stays true: it exists,
\* is its user's, and, if it is to be reversed, was settled.
LEMMA TargetsStep ==
    ASSUME PaymentsTypeOK, Rows, Passed, Targets, Books, Backed,
           [PaymentsNext]_allVars
    PROVE  Targets'
<1>1. body' = body /\ \A s \in Requests : Exists(s) => Exists(s)'
  BY BodyConstant, RowsStep
<1>2. \A t \in Requests : Exists(t) /\ Settled(t) => Settled(t)'
  BY BooksStep
<1>3. \A s \in Requests : body[s].kind \in {"COMPLETE", "REVERSE", "FLAG"}
                            => body[s].target \in Requests
  BY BodyFields
<1>4. pc \in [Requests -> Labels]
  BY DEF PaymentsTypeOK, TypeOK
<1>5. ASSUME \A s \in Requests : \/ pc'[s] = pc[s]
                                 \/ pc'[s] \notin {"commit", "audit"}
                                 \/ body[s].kind \notin {"COMPLETE", "REVERSE", "FLAG"}
                                 \/ pc[s] = "commit" /\ body[s].kind = "COMPLETE"
      PROVE  Targets'
  BY <1>1, <1>2, <1>3, <1>5 DEF Targets, Initiates
<1>6. ASSUME NEW r \in Requests,
             CompleteRead(r) \/ ReverseRead(r) \/ FlagRead(r)
      PROVE  Targets'
  <2> DEFINE t == body[r].target
  <2>1. /\ t \in Requests
        /\ pc' = [pc EXCEPT ![r] = "commit"]
        /\ body[r].kind \in {"COMPLETE", "REVERSE", "FLAG"}
    BY <1>3, <1>6 DEF CompleteRead, ReverseRead, FlagRead, Checked, Goto
  <2>2. Exists(t)
    BY <1>6 DEF CompleteRead, MayComplete, ReverseRead, Reversible, FlagRead, Exists
  <2>3. body[r].kind = "COMPLETE" => Initiates(t) /\ body[t].user = body[r].user
    BY <1>6, <2>1 DEF CompleteRead, MayComplete, ReverseRead, FlagRead, Checked, Rows
  <2>4. body[r].kind = "REVERSE" => Settled(t)
    BY <1>6, <2>1 DEF CompleteRead, ReverseRead, FlagRead, Checked, Reversible, Backed
  <2> QED
    BY <1>1, <1>2, <1>3, <1>4, <2>1, <2>2, <2>3, <2>4 DEF Targets, Initiates
<1>7. ASSUME NEW r \in Requests,
             \/ DepositReadWallet(r) \/ WithdrawReadWallet(r) \/ NewKey(r)
             \/ TransferNewKey(r) \/ TransferReadSender(r) \/ TransferReadReceiver(r)
             \/ Fail(r) \/ ReplayResponse(r) \/ TransferReplay(r)
             \/ AlreadyProcessed(r) \/ Respond(r)
             \/ FreezeRead(r) \/ UnfreezeRead(r) \/ FreezeWrite(r) \/ UnfreezeWrite(r)
             \/ ReverseWrite(r) \/ FlagWrite(r)
      PROVE  Targets'
  <2>1. \/ pc' = [pc EXCEPT ![r] = "answered"]
        \/ pc' = [pc EXCEPT ![r] = "failed"]
        \/ \E next \in Labels :
              /\ pc' = [pc EXCEPT ![r] = next]
              /\ \/ body[r].kind \notin {"COMPLETE", "REVERSE", "FLAG"}
                 \/ next \notin {"commit", "audit"}
    BY <1>7 DEF DepositReadWallet, WithdrawReadWallet, NewKey, TransferNewKey,
       TransferReadSender, TransferReadReceiver, Fail, ReplayResponse, TransferReplay,
       AlreadyProcessed, Respond, FreezeRead, UnfreezeRead, FreezeWrite, UnfreezeWrite,
       ReverseWrite, FlagWrite, Checked, Written, Goto, AnswerWith, Passed, Labels, Initiates
  <2> QED
    BY <1>4, <1>5, <2>1
<1>8. ASSUME NEW r \in Requests,
             \/ DepositCommit(r) \/ WithdrawCommit(r) \/ TransferCommit(r)
             \/ TransferStoreKey(r) \/ SettleDeposit(r) \/ SettleWithdrawal(r)
      PROVE  Targets'
  <2>1. \E next \in Labels :
          /\ pc' = [pc EXCEPT ![r] = next]
          /\ \/ body[r].kind \notin {"COMPLETE", "REVERSE", "FLAG"}
             \/ pc[r] = "commit" /\ body[r].kind = "COMPLETE"
    BY <1>8 DEF DepositCommit, WithdrawCommit, TransferCommit, TransferStoreKey,
       SettleDeposit, Credit, SettleWithdrawal, Goto, Passed, Labels
  <2> QED
    BY <1>4, <1>5, <2>1
<1>9. CASE UNCHANGED allVars
  BY <1>5, <1>9 DEF allVars, vars, calls
<1> QED
  BY <1>6, <1>7, <1>8, <1>9 DEF PaymentsNext, WalletNext, AdminNext

\* The steps that answer a call: what they answer with, and why it exists.
LEMMA AnswerCases ==
    ASSUME PaymentsTypeOK, Rows, KeyRecords, Passed, Targets, [PaymentsNext]_allVars
    PROVE  \/ /\ answer' = answer
              /\ \A s \in Requests : pc[s] = "answered" => pc'[s] = "answered"
           \/ \E r, t \in Requests :
                /\ pc' = [pc EXCEPT ![r] = "answered"]
                /\ answer' = [answer EXCEPT ![r] = t]
                /\ UNCHANGED <<status, keys>>
                /\ pc[r] # "answered"
                /\ Exists(t)
                /\ body[r].kind # "COMPLETE" /\ t # r =>
                     body[r].key # None /\ t = keys[body[r].key]
                /\ body[r].kind # "COMPLETE" => body[t].user = body[r].user
                /\ Initiates(r) => Initiates(t) /\ RequestHash(t) = RequestHash(r)
<1> DEFINE Same == /\ answer' = answer
                   /\ \A s \in Requests : pc[s] = "answered" => pc'[s] = "answered"
           Ans(r, t) ==
                /\ pc' = [pc EXCEPT ![r] = "answered"]
                /\ answer' = [answer EXCEPT ![r] = t]
                /\ UNCHANGED <<status, keys>>
                /\ pc[r] # "answered"
                /\ Exists(t)
                /\ body[r].kind # "COMPLETE" /\ t # r =>
                     body[r].key # None /\ t = keys[body[r].key]
                /\ body[r].kind # "COMPLETE" => body[t].user = body[r].user
                /\ Initiates(r) => Initiates(t) /\ RequestHash(t) = RequestHash(r)
<1>1. pc \in [Requests -> Labels] /\ keys \in [Keys -> Requests \cup {None}]
  BY DEF PaymentsTypeOK, TypeOK
<1>2. \A s \in Requests : body[s].key \in Keys \cup {None}
  BY BodyFields
<1>3. ASSUME NEW r \in Requests,
             \/ DepositReadWallet(r) \/ WithdrawReadWallet(r) \/ NewKey(r)
             \/ TransferNewKey(r) \/ TransferReadSender(r) \/ TransferReadReceiver(r)
             \/ CompleteRead(r) \/ Fail(r)
             \/ DepositCommit(r) \/ WithdrawCommit(r) \/ TransferCommit(r)
             \/ TransferStoreKey(r) \/ SettleDeposit(r) \/ SettleWithdrawal(r)
      PROVE  Same
  BY <1>1, <1>3 DEF DepositReadWallet, WithdrawReadWallet, NewKey, TransferNewKey,
     TransferReadSender, TransferReadReceiver, CompleteRead, Fail, DepositCommit,
     WithdrawCommit, TransferCommit, TransferStoreKey, SettleDeposit, Credit,
     SettleWithdrawal, Goto
<1>4. ASSUME NEW r \in Requests,
             \/ FreezeRead(r) \/ UnfreezeRead(r) \/ ReverseRead(r) \/ FlagRead(r)
             \/ FreezeWrite(r) \/ UnfreezeWrite(r) \/ ReverseWrite(r) \/ FlagWrite(r)
      PROVE  Same
  BY <1>1, <1>4 DEF FreezeRead, UnfreezeRead, ReverseRead, FlagRead, FreezeWrite,
     UnfreezeWrite, ReverseWrite, FlagWrite, Checked, Written, wallets, Goto
<1>5. ASSUME NEW r \in Requests, ReplayResponse(r)
      PROVE  \E t \in Requests : Ans(r, t)
  <2> DEFINE t == Recorded(r)
  <2>1. t \in Requests /\ body[r].key # None /\ t = keys[body[r].key] /\ Exists(t)
    BY <1>1, <1>2, <1>5 DEF ReplayResponse, Recorded, KeyRecords
  <2>2. Ans(r, t)
    BY <1>5, <2>1 DEF ReplayResponse, Replayable, AnswerWith, Goto
  <2> QED
    BY <2>1, <2>2
<1>6. ASSUME NEW r \in Requests, TransferReplay(r)
      PROVE  \E t \in Requests : Ans(r, t)
  <2> DEFINE t == Recorded(r)
  <2>1. t \in Requests /\ body[r].key # None /\ t = keys[body[r].key] /\ Exists(t)
    BY <1>1, <1>2, <1>6 DEF TransferReplay, OwnRecord, Recorded, KeyRecords
  <2>2. Ans(r, t)
    BY <1>6, <2>1 DEF TransferReplay, OwnRecord, AnswerWith, Goto, Initiates
  <2> QED
    BY <2>1, <2>2
<1>7. ASSUME NEW r \in Requests, AlreadyProcessed(r)
      PROVE  \E t \in Requests : Ans(r, t)
  <2>1. body[r].target \in Requests
    BY <1>7, BodyFields DEF AlreadyProcessed
  <2>2. Ans(r, body[r].target)
    BY <1>7, <2>1 DEF AlreadyProcessed, AnswerWith, Goto, Initiates, Exists
  <2> QED
    BY <2>1, <2>2
<1>8. ASSUME NEW r \in Requests, Respond(r)
      PROVE  \E t \in Requests : Ans(r, t)
  <2>1. CASE body[r].kind = "COMPLETE"
    <3>1. body[r].target \in Requests /\ Exists(body[r].target)
      BY <1>8, <2>1, BodyFields DEF Respond, AnswerWith, Goto, Targets
    <3>2. Ans(r, body[r].target)
      BY <1>8, <2>1, <3>1 DEF Respond, AnswerWith, Goto, Initiates
    <3> QED
      BY <3>1, <3>2
  <2>2. CASE body[r].kind # "COMPLETE" /\ Creates(r)
    <3>1. Exists(r)
      BY <1>8, <2>2 DEF Respond, AnswerWith, Goto, Rows
    <3>2. Ans(r, r)
      BY <1>8, <2>2, <3>1 DEF Respond, AnswerWith, Goto
    <3> QED
      BY <3>2
  <2> QED
    BY <1>8, <2>1, <2>2 DEF Respond, AnswerWith, Goto, Passed
<1>9. CASE UNCHANGED allVars
  BY <1>9 DEF allVars, vars, calls
<1> QED
  BY <1>3, <1>4, <1>5, <1>6, <1>7, <1>8, <1>9 DEF PaymentsNext, WalletNext, AdminNext

\* Answers stay right: the rows they name stay, and key records never change.
LEMMA AnswersStep ==
    ASSUME PaymentsTypeOK, Rows, KeyRecords, Passed, Targets, Answers, ReplayFaithful,
           [PaymentsNext]_allVars
    PROVE  Answers' /\ ReplayFaithful'
<1>1. /\ body' = body
      /\ \A s \in Requests : Exists(s) => Exists(s)'
      /\ \A k \in Keys : keys[k] # None => keys'[k] = keys[k]
  BY BodyConstant, RowsStep, KeyRecordsStep
<1>2. /\ \A s \in Requests : body[s].key \in Keys \cup {None}
      /\ answer \in [Requests -> Requests \cup {None}]
      /\ pc \in [Requests -> Labels]
  BY BodyFields DEF PaymentsTypeOK, TypeOK
<1>3. CASE /\ answer' = answer
           /\ \A s \in Requests : pc[s] = "answered" => pc'[s] = "answered"
  BY <1>1, <1>2, <1>3 DEF Answers, ReplayFaithful, Initiates, RequestHash
<1>4. ASSUME NEW r \in Requests, NEW t \in Requests,
             /\ pc' = [pc EXCEPT ![r] = "answered"]
             /\ answer' = [answer EXCEPT ![r] = t]
             /\ UNCHANGED <<status, keys>>
             /\ pc[r] # "answered"
             /\ Exists(t)
             /\ body[r].kind # "COMPLETE" /\ t # r =>
                  body[r].key # None /\ t = keys[body[r].key]
             /\ body[r].kind # "COMPLETE" => body[t].user = body[r].user
             /\ Initiates(r) => Initiates(t) /\ RequestHash(t) = RequestHash(r)
      PROVE  Answers' /\ ReplayFaithful'
  <2>1. Initiates(r) /\ body[r].key # None => t = keys[body[r].key]
    BY <1>4 DEF KeyRecords, Initiates
  <2>2. body[r].kind # "COMPLETE" /\ t # r => body[t].key = body[r].key
    BY <1>2, <1>4 DEF KeyRecords
  <2>3. t # None
    OBVIOUS
  <2>4. Answers'
    BY <1>1, <1>2, <1>4, <2>1, <2>3 DEF Answers, Initiates
  <2>5. ReplayFaithful'
    BY <1>1, <1>2, <1>4, <2>2, <2>3 DEF ReplayFaithful, Initiates, RequestHash
  <2> QED
    BY <2>4, <2>5
<1> QED
  BY <1>3, <1>4, AnswerCases

\* Every step that writes a balance writes the movement that explains it.
LEMMA ReconciledStep ==
    ASSUME PaymentsTypeOK, Passed, Reconciled, [PaymentsNext]_allVars
    PROVE  Reconciled'
<1>1. /\ balance \in [Wallets -> Int] /\ moves \in [Wallets -> Int]
      /\ Opening \in [Wallets -> Nat]
      /\ \A s \in Requests : body[s].amount \in Nat
  BY BodyFields DEF PaymentsTypeOK, TypeOK
<1>2. CASE UNCHANGED <<balance, moves>>
  BY <1>2 DEF Reconciled
<1>3. ASSUME NEW r \in Requests, TransferCommit(r)
      PROVE  Reconciled'
  <2>1. body[r].wallet \in Wallets /\ body[r].to \in Wallets /\ body[r].wallet # body[r].to
    BY <1>3, BodyFields DEF TransferCommit, Goto, Passed
  <2> QED
    BY <1>1, <1>3, <2>1 DEF TransferCommit, Moved, Reconciled
<1>4. ASSUME NEW r \in Requests, SettleDeposit(r)
      PROVE  Reconciled'
  <2>1. body[r].target \in Requests
    BY <1>4, BodyFields DEF SettleDeposit, Credit
  <2>2. body[body[r].target].wallet \in Wallets
    BY <1>4, <2>1, BodyFields DEF SettleDeposit, Credit
  <2> QED
    BY <1>1, <1>4, <2>1, <2>2 DEF SettleDeposit, Credit, Credited, PostCredit, Reconciled
<1> QED
  BY <1>2, <1>3, <1>4, StepCases
  DEF Quiet, ledger, DepositCommit, WithdrawCommit, TransferStoreKey, SettleWithdrawal,
      ReverseWrite, FlagWrite, Written, wallets

\* Whatever is taken from an available balance was found there first: by a
\* transfer in the same step, by a withdrawal in the value it writes back.
LEMMA NoOverdraftStep ==
    ASSUME PaymentsTypeOK, Passed, NoOverdraft, [PaymentsNext]_allVars
    PROVE  NoOverdraft'
<1>1. /\ available \in [Wallets -> Int] /\ seen \in [Requests -> Int]
      /\ \A s \in Requests : body[s].amount \in Nat
  BY BodyFields DEF PaymentsTypeOK, TypeOK
<1>2. CASE UNCHANGED available
  BY <1>2 DEF NoOverdraft
<1>3. ASSUME NEW r \in Requests, TransferCommit(r)
      PROVE  NoOverdraft'
  <2>1. body[r].wallet \in Wallets /\ body[r].to \in Wallets /\ body[r].wallet # body[r].to
    BY <1>3, BodyFields DEF TransferCommit, Goto, Passed
  <2> QED
    BY <1>1, <1>3, <2>1 DEF TransferCommit, Covered, Moved, NoOverdraft
<1>4. ASSUME NEW r \in Requests, SettleDeposit(r)
      PROVE  NoOverdraft'
  <2>1. body[r].target \in Requests
    BY <1>4, BodyFields DEF SettleDeposit, Credit
  <2>2. body[body[r].target].wallet \in Wallets
    BY <1>4, <2>1, BodyFields DEF SettleDeposit, Credit
  <2> QED
    BY <1>1, <1>4, <2>1, <2>2 DEF SettleDeposit, Credit, Credited, NoOverdraft
<1>5. ASSUME NEW r \in Requests, WithdrawCommit(r)
      PROVE  NoOverdraft'
  <2>1. body[r].wallet \in Wallets /\ seen[r] >= body[r].amount
    BY <1>5, BodyFields DEF WithdrawCommit, Goto, Passed
  <2> QED
    BY <1>1, <1>5, <2>1 DEF WithdrawCommit, Hold, NoOverdraft
<1> QED
  BY <1>2, <1>3, <1>4, <1>5, StepCases
  DEF Quiet, DepositCommit, TransferStoreKey, SettleWithdrawal, ReverseWrite,
      FlagWrite, Written, wallets

\* Transfers and settlements change both columns of a wallet alike; only a
\* withdrawal does not, and its row marks the wallet for good.
LEMMA HoldFreeStep ==
    ASSUME PaymentsTypeOK, Rows, Passed, Targets, HoldFree, [PaymentsNext]_allVars
    PROVE  HoldFree'
<1>1. /\ balance \in [Wallets -> Int] /\ available \in [Wallets -> Int]
      /\ \A s \in Requests : body[s].amount \in Nat
  BY BodyFields DEF PaymentsTypeOK, TypeOK
<1>2. \A w \in Wallets : WithdrawnFrom(w) => WithdrawnFrom(w)'
  BY BodyConstant, RowsStep DEF WithdrawnFrom
<1>3. CASE UNCHANGED <<balance, available>>
  BY <1>2, <1>3 DEF HoldFree
<1>4. ASSUME NEW r \in Requests, TransferCommit(r)
      PROVE  HoldFree'
  <2>1. body[r].wallet \in Wallets /\ body[r].to \in Wallets /\ body[r].wallet # body[r].to
    BY <1>4, BodyFields DEF TransferCommit, Goto, Passed
  <2> QED
    <3> SUFFICES ASSUME NEW w \in Wallets, ~ WithdrawnFrom(w)'
                 PROVE  available'[w] = balance'[w]
      BY DEF HoldFree
    <3>1. available[w] = balance[w]
      BY <1>2 DEF HoldFree
    <3> QED
      BY <1>1, <1>4, <2>1, <3>1 DEF TransferCommit, Moved
<1>5. ASSUME NEW r \in Requests, SettleDeposit(r)
      PROVE  HoldFree'
  <2>1. body[r].target \in Requests
    BY <1>5, BodyFields DEF SettleDeposit, Credit
  <2>2. body[body[r].target].wallet \in Wallets
    BY <1>5, <2>1, BodyFields DEF SettleDeposit, Credit
  <2> QED
    <3> SUFFICES ASSUME NEW w \in Wallets, ~ WithdrawnFrom(w)'
                 PROVE  available'[w] = balance'[w]
      BY DEF HoldFree
    <3>1. available[w] = balance[w]
      BY <1>2 DEF HoldFree
    <3> QED
      BY <1>1, <1>5, <2>1, <2>2, <3>1 DEF SettleDeposit, Credit, Credited
<1>6. ASSUME NEW r \in Requests, WithdrawCommit(r)
      PROVE  HoldFree'
  <2>1. body' = body /\ Exists(r)' /\ body[r].kind = "WITHDRAWAL"
    BY <1>6, CommitCreates, BodyConstant DEF WithdrawCommit
  <2>2. \A w \in Wallets : w = body[r].wallet => WithdrawnFrom(w)'
    BY <2>1 DEF WithdrawnFrom
  <2>3. /\ balance' = balance
        /\ \A w \in Wallets : w # body[r].wallet => available'[w] = available[w]
    BY <1>1, <1>6 DEF WithdrawCommit, Hold
  <2> QED
    BY <1>2, <2>2, <2>3 DEF HoldFree
<1> QED
  BY <1>3, <1>4, <1>5, <1>6, StepCases
  DEF Quiet, DepositCommit, TransferStoreKey, SettleWithdrawal, ReverseWrite,
      FlagWrite, Written, wallets

\* A status is backed by the books: nothing returns to PENDING, completion
\* books in the same step, and reversal finds its target settled.
LEMMA BackedStep ==
    ASSUME PaymentsTypeOK, Rows, Passed, Targets, Books, Backed,
           [PaymentsNext]_allVars
    PROVE  Backed'
<1>1. /\ body' = body
      /\ \A t \in Requests : Exists(t) /\ Settled(t) => Settled(t)'
  BY BodyConstant, BooksStep
<1>2. /\ status \in [Requests -> Statuses] /\ booked \in [Requests -> Int]
      /\ fraudFlags \in [Requests -> Nat]
      /\ \A s \in Requests : body[s].amount \in Nat
  BY BodyFields DEF PaymentsTypeOK, TypeOK
<1>3. CASE UNCHANGED <<status, booked, fraudFlags>>
  BY <1>1, <1>3 DEF Backed, Exists
<1>4. ASSUME NEW r \in Requests, fraudFlags' = fraudFlags,
             DepositCommit(r) \/ WithdrawCommit(r) \/ TransferCommit(r)
      PROVE  Backed'
  <2>1. booked' = booked /\ Exists(r)' /\ ~ Exists(r)
    BY <1>4, CommitCreates DEF DepositCommit, WithdrawCommit, TransferCommit, ledger
  <2>2. booked[r] = 0
    BY <2>1 DEF Backed, Exists
  <2>3. status'[r] = "PENDING" \/ (status'[r] = "COMPLETED" /\ body[r].kind = "P2P_TRANSFER")
    BY <1>2, <1>4 DEF DepositCommit, WithdrawCommit, TransferCommit
  <2>4. status'[r] = "COMPLETED" => Settled(r)'
    BY <1>1, <2>1, <2>3 DEF Settled, Exists
  <2>5. \A s \in Requests : s # r => status'[s] = status[s]
    BY <1>4, CommitCreates
  <2> QED
    BY <1>1, <1>4, <2>1, <2>2, <2>3, <2>4, <2>5 DEF Backed, Exists
<1>5. ASSUME NEW r \in Requests, fraudFlags' = fraudFlags,
             SettleDeposit(r) \/ SettleWithdrawal(r)
      PROVE  Backed'
  <2> DEFINE t == body[r].target
  <2>1. t \in Requests
    BY <1>5, BodyFields DEF SettleDeposit, Credit, SettleWithdrawal
  <2>2. /\ status'[t] = "COMPLETED"
        /\ \A s \in Requests : s # t => status'[s] = status[s] /\ booked'[s] = booked[s]
    BY <1>2, <1>5, <2>1 DEF SettleDeposit, Credit, SettleWithdrawal, MarkCompleted, PostCredit
  <2>3. \A s \in Requests : s = t => Settled(s)'
    <3>1. CASE SettleDeposit(r)
      BY <1>1, <1>2, <2>1, <3>1 DEF SettleDeposit, Credit, PostCredit, Books, Settled
    <3>2. CASE SettleWithdrawal(r)
      BY <1>1, <1>2, <2>1, <3>2 DEF SettleWithdrawal, Books, Settled
    <3> QED
      BY <1>5, <3>1, <3>2
  <2> QED
    BY <1>1, <1>5, <2>1, <2>2, <2>3 DEF Backed, Exists
<1>6. ASSUME NEW r \in Requests, ReverseWrite(r) \/ FlagWrite(r)
      PROVE  Backed'
  <2> DEFINE t == body[r].target
  <2>1. t \in Requests /\ booked' = booked
    BY <1>6, BodyFields DEF ReverseWrite, FlagWrite, Written, wallets, ledger
  <2>2. Exists(t) /\ (ReverseWrite(r) => Settled(t))
    BY <1>6 DEF ReverseWrite, FlagWrite, Written, Goto, Targets
  <2>2a. ReverseWrite(r) => \A s \in Requests : s = t => Settled(s)'
    BY <1>1, <2>1, <2>2
  <2>3. \A s \in Requests : s # t => status'[s] = status[s] /\ fraudFlags'[s] = fraudFlags[s]
    BY <1>2, <1>6 DEF ReverseWrite, FlagWrite, FlagStatus
  <2>4. CASE ReverseWrite(r)
    <3>1. status'[t] = "REVERSED"
      BY <1>2, <2>1, <2>4 DEF ReverseWrite
    <3> QED
      BY <1>1, <2>1, <2>3, <2>2a, <2>4, <3>1 DEF Backed, Exists
  <2>5. CASE FlagWrite(r)
    <3>1. status'[t] = "REQUIRES_ACTION" /\ fraudFlags'[t] > 0
      BY <1>2, <2>1, <2>5 DEF FlagWrite, FlagStatus
    <3> QED
      BY <1>1, <2>1, <2>3, <3>1 DEF Backed, Exists
  <2> QED
    BY <1>6, <2>4, <2>5
<1> QED
  BY <1>3, <1>4, <1>5, <1>6, StepCases
  DEF Quiet, ledger, TransferStoreKey

\* A sum of zeros.
LEMMA SumZero ==
    ASSUME NEW S, IsFiniteSet(S), NEW f, \A x \in S : f[x] = 0
    PROVE  SumFunctionOnSet(f, S) = 0
<1>1. SumFunctionOnSet(f, {}) = 0
  BY SumEmpty
<1>2. IsFiniteSet({}) /\ {} \in SUBSET S
  BY FS_EmptySet
<1>3. SumFunctionOnSet(f, {}) = SumFunctionOnSet(f, S)
  BY <1>2, SumOfNonzero
<1> QED
  BY <1>1, <1>3

\* What a transaction has posted to a wallet is an integer.
LEMMA PostedInt ==
    ASSUME PaymentsTypeOK
    PROVE  \A w \in Wallets, t \in Requests : Posted(w)[t] \in Int
<1>1. booked \in [Requests -> Int] /\ \A t \in Requests : body[t].amount \in Nat
  BY BodyFields DEF PaymentsTypeOK, TypeOK
<1> QED
  BY <1>1 DEF Posted, Transferred

\* A movement is posted to the transaction it belongs to: a transfer's two
\* legs when its row appears, a deposit's credit when it is booked.
LEMMA MovesPostedStep ==
    ASSUME PaymentsTypeOK, Rows, Passed, Targets, MovesPosted, [PaymentsNext]_allVars
    PROVE  MovesPosted'
<1>1. /\ body' = body
      /\ booked \in [Requests -> Int] /\ moves \in [Wallets -> Int]
      /\ status \in [Requests -> Statuses]
      /\ \A s \in Requests : body[s].amount \in Nat
  BY BodyConstant, BodyFields DEF PaymentsTypeOK, TypeOK
<1>2. \A w \in Wallets, t \in Requests : Posted(w)[t] \in Int /\ Posted(w)'[t] \in Int
  <2>1. PaymentsTypeOK'
    BY TypeStep
  <2>2. booked' \in [Requests -> Int]
    BY <2>1 DEF PaymentsTypeOK, TypeOK
  <2> QED
    BY <1>1, <2>2, PostedInt DEF Posted, Transferred
<1>3. ASSUME UNCHANGED <<moves, booked>>,
             \A t \in Requests : body[t].kind = "P2P_TRANSFER" => (Exists(t)' <=> Exists(t))
      PROVE  MovesPosted'
  <2>1. \A w \in Wallets, t \in Requests : Posted(w)[t] = Posted(w)'[t]
    BY <1>1, <1>3 DEF Posted, Transferred
  <2>2. \A w \in Wallets :
          SumFunctionOnSet(Posted(w), Requests) = SumFunctionOnSet(Posted(w)', Requests)
    BY <2>1, SumSame, RequestsAssumption
  <2> QED
    BY <1>3, <2>2 DEF MovesPosted
<1>4. ASSUME NEW y \in Requests,
             \A w \in Wallets :
               /\ \A t \in Requests : t # y => Posted(w)[t] = Posted(w)'[t]
               /\ moves'[w] = moves[w] + (Posted(w)'[y] - Posted(w)[y])
      PROVE  MovesPosted'
  <2>1. \A w \in Wallets :
          SumFunctionOnSet(Posted(w)', Requests)
            = SumFunctionOnSet(Posted(w), Requests) + (Posted(w)'[y] - Posted(w)[y])
    <3> SUFFICES ASSUME NEW w \in Wallets
                 PROVE  SumFunctionOnSet(Posted(w)', Requests)
                          = SumFunctionOnSet(Posted(w), Requests) + (Posted(w)'[y] - Posted(w)[y])
      OBVIOUS
    <3> DEFINE f == Posted(w)
               g == Posted(w)'
    <3>1. /\ \A x \in Requests : f[x] \in Int /\ g[x] \in Int
          /\ \A x \in Requests : x # y => f[x] = g[x]
      BY <1>2, <1>4
    <3> HIDE DEF f, g
    <3>2. SumFunctionOnSet(g, Requests) = SumFunctionOnSet(f, Requests) + (g[y] - f[y])
      BY <3>1, SumChange, RequestsAssumption
    <3> QED
      BY <3>2 DEF f, g
  <2> QED
    BY <1>4, <2>1 DEF MovesPosted
<1>5. ASSUME NEW r \in Requests, TransferCommit(r)
      PROVE  MovesPosted'
  <2>1. /\ body[r].kind = "P2P_TRANSFER"
        /\ body[r].wallet \in Wallets /\ body[r].to \in Wallets
        /\ body[r].wallet # body[r].to
    BY <1>5, BodyFields DEF TransferCommit, Goto, Passed
  <2>2. /\ ~ Exists(r) /\ Exists(r)' /\ booked' = booked
        /\ \A s \in Requests : s # r => (Exists(s)' <=> Exists(s))
    BY <1>5, CommitCreates DEF Exists, TransferCommit
  <2>3. ASSUME NEW w \in Wallets
        PROVE  /\ \A t \in Requests : t # r => Posted(w)[t] = Posted(w)'[t]
               /\ moves'[w] = moves[w] + (Posted(w)'[r] - Posted(w)[r])
    <3>1. \A t \in Requests : t # r => Posted(w)[t] = Posted(w)'[t]
      BY <1>1, <2>2 DEF Posted, Transferred
    <3>2. Posted(w)[r] = 0 /\ Posted(w)'[r] = Transferred(w, r)
      BY <1>1, <2>1, <2>2 DEF Posted, Transferred
    <3>3. moves'[w] = moves[w] + Transferred(w, r)
      BY <1>1, <1>5, <2>1 DEF TransferCommit, Moved, Transferred
    <3>4. Transferred(w, r) \in Int
      BY <1>1 DEF Transferred
    <3> QED
      BY <1>1, <3>1, <3>2, <3>3, <3>4
  <2> QED
    BY <1>4, <2>3
<1>6. ASSUME NEW r \in Requests, SettleDeposit(r) \/ SettleWithdrawal(r)
      PROVE  MovesPosted'
  <2> DEFINE y == body[r].target
  <2>1. y \in Requests /\ Exists(y)
    BY <1>6, BodyFields DEF SettleDeposit, SettleWithdrawal, Goto, Targets
  <2>2. /\ \A s \in Requests : s # y => booked'[s] = booked[s] /\ status'[s] = status[s]
        /\ status'[y] = "COMPLETED"
    BY <1>1, <1>6, <2>1 DEF SettleDeposit, SettleWithdrawal, PostCredit, MarkCompleted
  <2>3. \A s \in Requests : Exists(s)' <=> Exists(s)
    BY <2>1, <2>2 DEF Exists
  <2>4. \A w \in Wallets, t \in Requests : t # y => Posted(w)[t] = Posted(w)'[t]
    BY <1>1, <2>2, <2>3 DEF Posted, Transferred
  <2>5. ASSUME NEW w \in Wallets
        PROVE  moves'[w] = moves[w] + (Posted(w)'[y] - Posted(w)[y])
    <3>1. CASE SettleDeposit(r)
      <4>1. body[y].kind = "DEPOSIT" /\ body[y].wallet \in Wallets
        BY <2>1, <3>1, BodyFields DEF SettleDeposit
      <4>2. /\ booked'[y] = booked[y] + body[y].amount
            /\ moves'[w] = IF body[y].wallet = w THEN moves[w] + body[y].amount ELSE moves[w]
        BY <1>1, <2>1, <3>1, <4>1 DEF SettleDeposit, PostCredit, Credited
      <4> QED
        BY <1>1, <2>1, <4>1, <4>2 DEF Posted
    <3>2. CASE SettleWithdrawal(r)
      <4>1. body[y].kind = "WITHDRAWAL" /\ moves' = moves
        BY <2>1, <3>2 DEF SettleWithdrawal
      <4> QED
        BY <1>1, <2>1, <4>1 DEF Posted
    <3> QED
      BY <1>6, <3>1, <3>2
  <2> HIDE DEF y
  <2> QED
    BY <1>4, <2>1, <2>4, <2>5
<1>7. ASSUME NEW r \in Requests, ReverseWrite(r) \/ FlagWrite(r)
      PROVE  MovesPosted'
  <2> DEFINE y == body[r].target
  <2>1. y \in Requests /\ Exists(y) /\ UNCHANGED <<moves, booked>>
    BY <1>7, BodyFields DEF ReverseWrite, FlagWrite, Written, Goto, Targets, wallets, ledger
  <2>2. /\ \A s \in Requests : s # y => status'[s] = status[s]
        /\ status'[y] # "NONE"
    BY <1>1, <1>7, <2>1 DEF ReverseWrite, FlagWrite, FlagStatus
  <2>3. \A s \in Requests : Exists(s)' <=> Exists(s)
    BY <2>1, <2>2 DEF Exists
  <2> QED
    BY <1>3, <2>1, <2>3
<1>8. CASE Quiet
  BY <1>3, <1>8 DEF Quiet, ledger, Exists
<1>9. ASSUME NEW r \in Requests, DepositCommit(r) \/ WithdrawCommit(r)
      PROVE  MovesPosted'
  <2>1. UNCHANGED <<moves, booked>> /\ body[r].kind # "P2P_TRANSFER"
    BY <1>9 DEF DepositCommit, WithdrawCommit, ledger
  <2>2. \A s \in Requests : s # r => (Exists(s)' <=> Exists(s))
    BY <1>9, CommitCreates DEF Exists
  <2> QED
    BY <1>3, <2>1, <2>2
<1>10. ASSUME NEW r \in Requests, TransferStoreKey(r)
      PROVE  MovesPosted'
  BY <1>3, <1>10 DEF TransferStoreKey, ledger, Exists
<1> QED
  BY <1>5, <1>6, <1>7, <1>8, <1>9, <1>10, StepCases

\* A balance is what was posted to it, and nothing that is due to it is
\* missing from what was posted.
LEMMA BackedByBalance == IInv => StatusBacked
<1> SUFFICES ASSUME IInv PROVE StatusBacked
  OBVIOUS
<1> USE DEF IInv
<1>1. /\ booked \in [Requests -> Int] /\ balance \in [Wallets -> Int]
      /\ \A s \in Requests : body[s].amount \in Nat
      /\ Opening \in [Wallets -> Nat]
  BY BodyFields DEF PaymentsTypeOK, TypeOK
<1>2. ASSUME NEW w \in Wallets
      PROVE  balance[w] >= Opening[w] + SumFunctionOnSet(Owing(w), Requests)
  <2> DEFINE f == Posted(w)
             g == Owing(w)
             rest == [t \in Requests |-> f[t] - g[t]]
  <2>1. \A t \in Requests : f[t] \in Int /\ g[t] \in Int
    BY <1>1, PostedInt DEF Owing, Transferred
  <2>2. \A t \in Requests : f[t] - g[t] \in Nat
    <3> SUFFICES ASSUME NEW t \in Requests PROVE f[t] - g[t] \in Nat
      OBVIOUS
    <3>1. CASE body[t].kind = "DEPOSIT" /\ body[t].wallet = w
      <4>1. CASE status[t] \in {"COMPLETED", "REVERSED"}
        BY <1>1, <3>1, <4>1 DEF Posted, Owing, Backed, Settled
      <4>2. CASE status[t] \notin {"COMPLETED", "REVERSED"}
        BY <1>1, <3>1, <4>2 DEF Posted, Owing, Books
      <4> QED
        BY <4>1, <4>2
    <3>2. CASE ~ (body[t].kind = "DEPOSIT" /\ body[t].wallet = w)
      <4>1. f[t] = g[t]
        BY <3>2 DEF Posted, Owing
      <4> QED
        BY <2>1, <4>1
    <3> QED
      BY <3>1, <3>2
  <2> HIDE DEF f, g
  <2>3. \A t \in Requests : rest[t] \in Nat
    BY <2>2
  <2>4. SumFunctionOnSet(rest, Requests)
          = SumFunctionOnSet(f, Requests) - SumFunctionOnSet(g, Requests)
    BY <2>1, SumMinus, RequestsAssumption
  <2> HIDE DEF rest
  <2>5. SumFunctionOnSet(rest, Requests) \in Nat
    BY <2>3, SumNat, RequestsAssumption
  <2>6. SumFunctionOnSet(f, Requests) \in Int /\ SumFunctionOnSet(g, Requests) \in Int
    BY <2>1, SumInt, RequestsAssumption
  <2>7. balance[w] = Opening[w] + SumFunctionOnSet(f, Requests)
    BY DEF Reconciled, MovesPosted, f
  <2>8. balance[w] >= Opening[w] + SumFunctionOnSet(g, Requests)
    BY <1>1, <2>4, <2>5, <2>6, <2>7
  <2> QED
    BY <2>8 DEF g
<1> QED
  BY <1>2 DEF StatusBacked, Backed

-----------------------------------------------------------------------------
(* The theorems.                                                           *)

\* The inductive invariant holds before the first call.
LEMMA InvariantInit == PaymentsInit => IInv
<1> SUFFICES ASSUME PaymentsInit PROVE IInv
  OBVIOUS
<1>1. PaymentsTypeOK
  BY TypeInit
<1> USE DEF PaymentsInit, Init
<1>2. Rows /\ KeyRecords /\ Passed /\ Targets /\ Answers
  BY DEF Rows, KeyRecords, Passed, Targets, Answers, Exists, Creates, Initiates
<1>3. Books /\ Backed /\ ReplayFaithful
  BY DEF Books, Backed, ReplayFaithful
<1>4. Reconciled /\ NoOverdraft /\ HoldFree
  BY DEF Reconciled, NoOverdraft, HoldFree
<1>5. MovesPosted
  <2>1. ASSUME NEW w \in Wallets PROVE SumFunctionOnSet(Posted(w), Requests) = 0
    <3>1. \A t \in Requests : Posted(w)[t] = 0
      BY DEF Posted, Exists
    <3> QED
      BY <3>1, SumZero, RequestsAssumption
  <2> QED
    BY <2>1 DEF MovesPosted
<1> QED
  BY <1>1, <1>2, <1>3, <1>4, <1>5 DEF IInv

\* Every step of every call preserves the inductive invariant.
LEMMA InvariantStep == IInv /\ [PaymentsNext]_allVars => IInv'
<1> SUFFICES ASSUME IInv, [PaymentsNext]_allVars PROVE IInv'
  OBVIOUS
<1> USE DEF IInv
<1>1. PaymentsTypeOK' /\ Rows' /\ KeyRecords' /\ Passed'
  BY TypeStep, RowsStep, KeyRecordsStep, PassedStep
<1>2. Targets' /\ Books' /\ Backed'
  BY TargetsStep, BooksStep, BackedStep
<1>3. Answers' /\ ReplayFaithful'
  BY AnswersStep
<1>4. Reconciled' /\ NoOverdraft' /\ HoldFree' /\ MovesPosted'
  BY ReconciledStep, NoOverdraftStep, HoldFreeStep, MovesPostedStep
<1> QED
  BY <1>1, <1>2, <1>3, <1>4

\* The inductive invariant holds on every behaviour of the payment system.
THEOREM Invariance == Spec => []IInv
BY InvariantInit, InvariantStep, PTL DEF Spec

\* An idempotency key initiates at most one deposit or withdrawal.
THEOREM KeysAreUsedOnce == Spec => []KeyedOnce
<1>1. IInv => KeyedOnce
  BY DEF IInv, KeyRecords, KeyedOnce, Initiates
<1> QED
  BY <1>1, Invariance, PTL

\* Every response names a transaction that exists and is the caller's answer.
THEOREM ReplaysAreFaithful == Spec => []ReplayFaithful
<1>1. IInv => ReplayFaithful
  BY DEF IInv
<1> QED
  BY <1>1, Invariance, PTL

\* Calls with the same key agree on their answer.
THEOREM AnswersDoAgree == Spec => []AnswersAgree
<1>1. IInv => AnswersAgree
  BY DEF IInv, Answers, AnswersAgree, Initiates
<1> QED
  BY <1>1, Invariance, PTL

\* The balance of every wallet is explained by the movements in its ledger.
THEOREM BalancesReconcile == Spec => []Reconciled
<1>1. IInv => Reconciled
  BY DEF IInv
<1> QED
  BY <1>1, Invariance, PTL

\* No available balance is ever negative.
THEOREM NeverOverdrawn == Spec => []NoOverdraft
<1>1. IInv => NoOverdraft
  BY DEF IInv
<1> QED
  BY <1>1, Invariance, PTL

\* A wallet without withdrawals has all of its balance available.
THEOREM BalanceIsAvailable == Spec => []HoldFree
<1>1. IInv => HoldFree
  BY DEF IInv
<1> QED
  BY <1>1, Invariance, PTL

\* No status claims money that did not arrive: the balances cover what the
\* completed deposits and the transfers come to.
THEOREM StatusesAreBacked == Spec => []StatusBacked
<1>1. IInv => StatusBacked
  BY BackedByBalance
<1> QED
  BY <1>1, Invariance, PTL

\* A balance falls only by a transfer of the wallet's owner, within what was
\* available: only TransferCommit takes from a balance.
THEOREM OnlyOwnersDebit == Spec => DebitsAreOwners
<1> DEFINE Debits ==
      \A w \in Wallets : balance'[w] < balance[w] =>
         /\ \E r \in Requests :
              /\ status[r] = "NONE" /\ status'[r] = "COMPLETED"
              /\ body[r].wallet = w
              /\ body[r].user = Owner[w]
         /\ balance[w] - balance'[w] <= available[w]
<1>1. IInv /\ [PaymentsNext]_allVars => [Debits]_allVars
  <2> SUFFICES ASSUME IInv, [PaymentsNext]_allVars, NEW w \in Wallets,
                      balance'[w] < balance[w]
               PROVE  /\ \E r \in Requests :
                           /\ status[r] = "NONE" /\ status'[r] = "COMPLETED"
                           /\ body[r].wallet = w
                           /\ body[r].user = Owner[w]
                      /\ balance[w] - balance'[w] <= available[w]
    OBVIOUS
  <2> USE DEF IInv
  <2>1. /\ balance \in [Wallets -> Int] /\ available \in [Wallets -> Int]
        /\ \A s \in Requests : body[s].amount \in Nat
    BY BodyFields DEF PaymentsTypeOK, TypeOK
  <2>2. ASSUME NEW r \in Requests, SettleDeposit(r) PROVE FALSE
    <3>1. body[r].target \in Requests
      BY <2>2, BodyFields DEF SettleDeposit, Credit
    <3>2. balance'[w] = balance[w] \/ balance'[w] = balance[w] + body[body[r].target].amount
      BY <2>1, <2>2 DEF SettleDeposit, Credit, Credited
    <3> QED
      BY <2>1, <3>1, <3>2
  <2>3. PICK r \in Requests : TransferCommit(r)
    BY <2>1, <2>2, StepCases
    DEF Quiet, DepositCommit, WithdrawCommit, TransferStoreKey, SettleWithdrawal,
        ReverseWrite, FlagWrite, Written, wallets
  <2>4. body[r].wallet \in Wallets /\ body[r].to \in Wallets /\ body[r].wallet # body[r].to
    BY <2>3, BodyFields DEF TransferCommit, Goto, Passed
  <2>5. w = body[r].wallet
    BY <2>1, <2>3, <2>4 DEF TransferCommit, Moved
  <2>6. balance'[w] = balance[w] - body[r].amount /\ available[w] >= body[r].amount
    BY <2>1, <2>3, <2>4, <2>5 DEF TransferCommit, Moved, Covered
  <2>7. status[r] = "NONE" /\ status'[r] = "COMPLETED"
    BY <2>3, CommitCreates DEF TransferCommit, PaymentsTypeOK, TypeOK, Exists
  <2>8. body[r].user = Owner[w]
    BY <2>3, <2>5 DEF TransferCommit, Goto, Passed
  <2> QED
    BY <2>1, <2>5, <2>6, <2>7, <2>8
<1> QED
  BY <1>1, Invariance, PTL DEF Spec, DebitsAreOwners

\* Only a completion by the user who initiated it settles a transaction.
THEOREM OnlyOwnersSettle == Spec => SettledByOwner
<1>1. IInv /\ [PaymentsNext]_allVars =>
        [\A t \in Requests : booked'[t] # booked[t] =>
           \E r \in Requests :
              /\ body[r].kind = "COMPLETE" /\ body[r].target = t
              /\ body[r].user = body[t].user
              /\ pc[r] = "commit" /\ pc'[r] # "commit"]_allVars
  <2> SUFFICES ASSUME IInv, [PaymentsNext]_allVars, NEW t \in Requests,
                      booked'[t] # booked[t]
               PROVE  \E r \in Requests :
                        /\ body[r].kind = "COMPLETE" /\ body[r].target = t
                        /\ body[r].user = body[t].user
                        /\ pc[r] = "commit" /\ pc'[r] # "commit"
    OBVIOUS
  <2> USE DEF IInv
  <2>1. booked \in [Requests -> Int] /\ pc \in [Requests -> Labels]
    BY DEF PaymentsTypeOK, TypeOK
  <2>2. PICK r \in Requests : SettleDeposit(r) \/ SettleWithdrawal(r)
    BY StepCases
    DEF Quiet, ledger, DepositCommit, WithdrawCommit, TransferCommit, TransferStoreKey,
        ReverseWrite, FlagWrite, Written, wallets
  <2>3. body[r].kind = "COMPLETE" /\ pc[r] = "commit" /\ pc'[r] = "audit"
    BY <2>1, <2>2 DEF SettleDeposit, Credit, SettleWithdrawal, Goto
  <2>4. body[r].target = t
    BY <2>1, <2>2 DEF SettleDeposit, Credit, SettleWithdrawal, PostCredit
  <2>5. body[r].user = body[t].user
    BY <2>3, <2>4 DEF Targets
  <2> QED
    BY <2>3, <2>4, <2>5
<1> QED
  BY <1>1, Invariance, PTL DEF Spec, SettledByOwner

-----------------------------------------------------------------------------
(* Refinement: the payment system implements IdempotentApi.                *)

LEMMA PromiseInit == PaymentsInit => Promise!Init
<1> SUFFICES ASSUME PaymentsInit PROVE Promise!Init
  OBVIOUS
<1>1. PaymentsTypeOK
  BY TypeInit
<1>2. \A r \in Requests : body[r].key \in Keys \cup {None}
  BY <1>1, BodyFields
<1> QED
  BY <1>2 DEF PaymentsInit, Init, Promise!Init, Exists

\* A commit performs, a transfer's key takes, an answer replies; every other
\* step is invisible to the callers.
LEMMA PromiseStep == IInv /\ [PaymentsNext]_allVars => [Promise!Next]_Promise!vars
<1> SUFFICES ASSUME IInv, [PaymentsNext]_allVars
             PROVE  [Promise!Next]_Promise!vars
  OBVIOUS
<1> USE DEF IInv, Initiates
<1> DEFINE ask   == [s \in Requests |-> body[s].key]
           done  == {s \in Requests : Initiates(s) /\ Exists(s)}
           reply == [s \in Requests |-> IF Initiates(s) THEN answer[s] ELSE None]
<1>1. body' = body /\ ask' = ask
  BY BodyConstant
<1>2. /\ keys \in [Keys -> Requests \cup {None}]
      /\ answer \in [Requests -> Requests \cup {None}]
      /\ status \in [Requests -> Statuses]
      /\ \A s \in Requests : body[s].key \in Keys \cup {None}
  BY BodyFields DEF PaymentsTypeOK, TypeOK
<1>3. ASSUME UNCHANGED <<keys, answer>>,
             \A s \in Requests : Initiates(s) => (Exists(s)' <=> Exists(s))
      PROVE  UNCHANGED Promise!vars
  <2>1. done' = done /\ reply' = reply
    BY <1>1, <1>3
  <2> QED
    BY <1>1, <1>3, <2>1 DEF Promise!vars
<1>4. ASSUME NEW r \in Requests, NEW t \in Requests,
             /\ answer' = [answer EXCEPT ![r] = t]
             /\ UNCHANGED <<status, keys>>
             /\ pc[r] # "answered"
             /\ Exists(t)
             /\ body[r].kind # "COMPLETE" /\ t # r =>
                  body[r].key # None /\ t = keys[body[r].key]
             /\ Initiates(r) => Initiates(t) /\ RequestHash(t) = RequestHash(r)
      PROVE  [Promise!Next]_Promise!vars
  <2>1. done' = done
    BY <1>1, <1>4 DEF Exists
  <2>2. CASE Initiates(r)
    <3>1. reply[r] = None /\ t \in done
      BY <1>4, <2>2 DEF Answers
    <3>2. reply' = [reply EXCEPT ![r] = t]
      BY <1>1, <1>2, <1>4, <2>2
    <3>3. t = r \/ (ask[r] # None /\ keys[ask[r]] = t)
      BY <1>4, <2>2
    <3>4. Promise!Reply(r)
      BY <1>1, <1>4, <2>1, <3>1, <3>2, <3>3 DEF Promise!Reply
    <3> QED
      BY <3>4 DEF Promise!Next
  <2>3. CASE ~ Initiates(r)
    <3>1. reply' = reply
      BY <1>1, <1>2, <1>4, <2>3
    <3> QED
      BY <1>1, <1>4, <2>1, <3>1 DEF Promise!vars
  <2> QED
    BY <2>2, <2>3
<1>5. CASE Quiet
  <2>1. UNCHANGED <<status, keys>>
    BY <1>5 DEF Quiet
  <2>2. \A s \in Requests : Exists(s)' <=> Exists(s)
    BY <2>1 DEF Exists
  <2> QED
    BY <1>3, <1>4, <2>1, <2>2, AnswerCases
<1>6. ASSUME NEW r \in Requests, DepositCommit(r) \/ WithdrawCommit(r)
      PROVE  [Promise!Next]_Promise!vars
  <2>1. /\ ReserveKey(r) /\ Initiates(r) /\ answer' = answer
        /\ ~ Exists(r) /\ Exists(r)'
        /\ \A s \in Requests : s # r => status'[s] = status[s]
    BY <1>6, CommitCreates DEF DepositCommit, WithdrawCommit
  <2>2. done' = done \cup {r} /\ r \notin done /\ reply' = reply
    BY <1>1, <2>1 DEF Exists
  <2>3. IF ask[r] = None
        THEN UNCHANGED keys
        ELSE keys[ask[r]] = None /\ keys' = [keys EXCEPT ![ask[r]] = r]
    BY <2>1 DEF ReserveKey
  <2>4. Promise!Perform(r)
    BY <1>1, <2>2, <2>3 DEF Promise!Perform
  <2> QED
    BY <2>4 DEF Promise!Next
<1>7. ASSUME NEW r \in Requests, TransferCommit(r)
      PROVE  [Promise!Next]_Promise!vars
  <2>1. UNCHANGED <<keys, answer>> /\ ~ Initiates(r)
    BY <1>7 DEF TransferCommit
  <2>2. \A s \in Requests : Initiates(s) => (Exists(s)' <=> Exists(s))
    BY <1>7, <2>1, CommitCreates DEF Exists
  <2> QED
    BY <1>3, <2>1, <2>2
<1>8. ASSUME NEW r \in Requests, TransferStoreKey(r)
      PROVE  [Promise!Next]_Promise!vars
  <2>1. /\ ReserveKey(r) /\ body[r].key # None /\ UNCHANGED <<status, answer>>
    BY <1>8 DEF TransferStoreKey, Goto, Passed
  <2>2. done' = done /\ reply' = reply
    BY <1>1, <2>1 DEF Exists
  <2>3. ask[r] # None /\ keys[ask[r]] = None /\ keys' = [keys EXCEPT ![ask[r]] = r]
    BY <2>1 DEF ReserveKey
  <2>4. Promise!Take(r)
    BY <1>1, <2>2, <2>3 DEF Promise!Take
  <2> QED
    BY <2>4 DEF Promise!Next
<1>9. ASSUME NEW r \in Requests,
             SettleDeposit(r) \/ SettleWithdrawal(r) \/ ReverseWrite(r) \/ FlagWrite(r)
      PROVE  [Promise!Next]_Promise!vars
  <2>1. UNCHANGED <<keys, answer>>
    BY <1>9 DEF SettleDeposit, Credit, SettleWithdrawal, ReverseWrite, FlagWrite, Written, wallets
  <2>2. Exists(body[r].target) /\ \A s \in Requests : s # body[r].target => status'[s] = status[s]
    BY <1>2, <1>9 DEF SettleDeposit, Credit, SettleWithdrawal, MarkCompleted, ReverseWrite,
       FlagWrite, FlagStatus, Written, Goto, Targets
  <2>3. \A s \in Requests : Exists(s)' <=> Exists(s)
    BY <2>2, RowsStep DEF Exists
  <2> QED
    BY <1>3, <2>1, <2>3
<1> QED
  BY <1>5, <1>6, <1>7, <1>8, <1>9, StepCases

\* Deposits and withdrawals keep the promise of idempotency keys, for any
\* number of clients, keys and retries.
THEOREM Refinement == Spec => KeepsPromise
BY PromiseInit, PromiseStep, Invariance, PTL DEF Spec, KeepsPromise, Promise!Spec
=============================================================================
