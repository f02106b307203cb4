# Imari backend: TLA+ models

Imari is a digital-banking backend: NestJS on Node, PostgreSQL through Prisma,
jobs in BullMQ on Redis. These modules model what it does to shared state (money,
accounts, staff rights, notifications, reports) at the level at which it can go
wrong: the awaits between which Node serves other calls, the database
transactions that are atomic, the queues that try again. TLC checks small
instances; TLAPS proves every safety invariant and every action property of the
models (payments, savings, cards, accounts, staff, notifications, reports) for
every instance.

Line numbers are those of this repository. `wallet.service.ts` stands for
`src/modules/wallet/wallet.service.ts`, and so on.

## 1. The system

| Component | State it keeps | Operations | Modelled in |
| --- | --- | --- | --- |
| Wallet: money (`wallet.service.ts`) | `Wallet.balance`, `availableBalance`, `Transaction`, `LedgerEntry`, `IdempotencyKey` | initiateDeposit, initiateWithdraw, p2pTransfer, completeTransaction | `Wallet` |
| Back office: money (`admin-finance.service.ts`) | `Wallet.status`, `Transaction.status`, `FraudFlag` | freeze and unfreeze wallets and cards, reverseTransaction, flagTransaction | `AdminFinance`, `VirtualCard` |
| Savings (`savings.service.ts`) | `SavingsVault.currentAmount`, `walletId`, `isLocked` | create, update, lock, unlock, deposit, withdraw | `Savings` |
| Virtual cards (`virtual-card.service.ts`) | `VirtualCard` limits, counters, status; `CardTransaction` | create, update, freeze, authorize, capture, reverse | `VirtualCard` |
| Wallet: access (`wallet.service.ts`) | `WalletPin` counter and lock, `isPrimary` | createWallet, setPrimaryWallet, setPin, changePin, verifyPin, and the PIN of transfers and withdrawals | `WalletAccess` |
| Authentication (`auth.service.ts`, `jwt.strategy.ts`) | `User.status`, `passwordHash`, `OTPCode`, `LoginAttempt`, `UserSession`, `UserDevice` | register, verifyEmail, login, refresh, logout, forgotPassword, resetPassword, devices | `Auth` |
| Second factor (`mfa.service.ts`) | `MfaSecret`, `MfaBackupCode`, `isMfaEnabled` | initEnable, confirmEnable, disable, verification at login | `Mfa` |
| Identity and KYC (`identity.service.ts`, `admin-kyc.service.ts`) | `KYCDocument`, `User.kycStatus`, `kycTier` | submitKyc, approveKyc, rejectKyc | `Kyc` |
| Staff (`admin.service.ts`, guards, `permissions.constants.ts`) | `AdminUser` | login, refresh, permissions, roles, (de)activation, the guards of every back-office endpoint | `Permissions`, `Staff` |
| Notifications (`notification.listener.ts`, processors, channels) | event bus, two BullMQ queues, `Notification`, `NotificationPreference` | route, enqueue, process, retry, preferences | `Notification`, `Channels`, `Delivery` |
| Analytics (`analytics/*.service.ts`, crons) | `AnalyticsSnapshot`, `financialHealthScore`, categories of `Transaction` | nightly job, refresh, dashboard, categorisation, backfill, score, forecast | `Figures`, `Snapshots` |
| Insights (`insights.service.ts`, `insight-generator.service.ts`) | `FinancialInsight` | hourly job, demo, generation, read, dismiss | `Snapshots`, `Insights` |
| Beneficiaries, configuration, filters, API docs | single rows, start-up wiring | lists, upserts | no: see section 6 |

How they interact. Every component is a Nest service on the same PostgreSQL
database, and most interact through shared rows only. `Wallet.balance` and
`availableBalance` are written by the wallet and savings services;
`Transaction.status` by the wallet service, the card service and the back office;
`IdempotencyKey` (one unique column for all endpoints) by the wallet and savings
services. `UserSession` is written by login, refresh, logout, reset and device
removal and read by the guard of every call; `kycTier` is written by the review
and read by createWallet. Notifications are reached by the event emitter and by
two queues. Analytics read the transactions that the money components write.

What is hard. A handler is a sequence of awaits. Between two of them any other
handler runs, in this process or another one, and at any of them the process can
stop. `PrismaService.runInTransaction` (`prisma.service.ts:43-62`) makes its
callback a SERIALIZABLE transaction, so the callback is atomic; but what the
handler read *before* it is not protected, and most services write values
computed from such reads, or check and then write. Jobs are tried again, and run
again when their worker stalls. Cron jobs meet calls, each other and midnight.

What makes each component correct:

- **Wallet, back office**: balances are explained by the ledger; available money
  is never negative; a key has at most one effect and one answer; a status is
  backed by what was booked; only owners debit and settle.
- **Savings, cards**: wallet and vault leave their ledger only where a stale read
  is overwritten; counters, limits, authorisation, transaction and ledger agree.
- **Accounts**: what is revoked stays revoked; an account is activated by a mail;
  one document, one status; a PIN is not locked without cause; the tables of the
  second factor agree; a tier is earned.
- **Staff**: who may read only changes nothing; who is let in has given a
  password; without a manager nobody's rights change.
- **Notifications**: an event reaches the channels its addressee asked for, every
  job is settled, every outcome leaves a row, and no row is repeated by a retry.
- **Reports**: the figures add up over the users; a night survives the error of
  one user; a user's own category stays; closed months stay; insights come once.

Everything in this code that tests hardly reach is listed under `hazards` in
`PROJECT.json`, each at its line, with the properties that cover it.

## 2. The modules

```
Tables                calls, rows and idempotency keys of the money
 ├─ Wallet            deposits, withdrawals, transfers, completions
 │   └─ AdminFinance     freezes, reversals, flags
 │       └─ Payments     composition, properties     ── refines ──> IdempotentApi
 │           ├─ PaymentsInvariant ── PaymentsProofs     (TLAPS)
 │           └─ MCPayments
 ├─ Savings           vaults and their moves
 └─ VirtualCard       cards and card payments
Banking = Payments + Savings + VirtualCard           ── refines ──> IdempotentApi
 ├─ BankingInvariant ── BankingProofs     (TLAPS)
 │   └─ CardsInvariant ── CardsProofs     (TLAPS)
 └─ MCBanking

AccountTables         calls, rows and tokens of customers
 ├─ Auth   ├─ Mfa   ├─ Kyc   └─ WalletAccess
Accounts = Auth + Mfa + Kyc + WalletAccess
 ├─ AccountsInvariant ── AccountsProofs     (TLAPS)
 └─ MCAccounts

Permissions           roles, permissions and what each endpoint requires
 └─ Staff             admins, their tokens, the guards and the handlers
     ├─ StaffProofs      (TLAPS)
     └─ MCStaff

Notification          events, preferences, the listener
 └─ Channels          the two queues and their workers
     └─ Delivery         composition, properties       ── refines ──> AtLeastOnce
         ├─ DeliveryInvariant ── DeliveryProofs     (TLAPS)
         └─ MCDelivery

Figures               what the analytics compute (pure)
 └─ Snapshots         nightly job, refresh, dashboard, generated insights
     └─ Insights         hourly job, demo, backfill, the user's own changes
         └─ Reports         composition, properties
             ├─ ReportsInvariant ── ReportsProofs     (TLAPS)
             └─ MCReports

Sums                  lemmas on finite sums and finite sets, for the proofs (TLAPS)
```

The four groups share few rows and are not composed: `Wallet` rows are created by
`WalletAccess` and moved by `Wallet`; the tables of staff rights are only read by
the back-office calls; the reports only read the transactions, whose bookings are
the action `Book` there.

**A call.** A request `r` is one HTTP call, `body[r]` what it asks, `pc[r]` the
await it has reached. An action is what the handler does between two awaits; a
callback of `runInTransaction` is one action. `Fail(r)` ends a call at any await:
a refused check, a wrong PIN, a unique column, an aborted serializable
transaction, a failed statement or a stopped process; what was committed stays. A
retry is another request with the same body, so a client that sends a call again,
once or in parallel, is in every run.

**Rows.** A request creates at most one row of each table, so rows are named by
their request. Of the money: `status[r]` (the `Transaction`), `booked[r]` (the sum
of its ledger entries, credits minus debits), `keys[k] = r` (the key record `r`
wrote, which carries the response of `r`), `moves[w]` and `holds[w]` (the
`USER_WALLET` entries of `w` that record movements, and those that record holds).
An entry of a vault move is in three sums: `vaultMoves[v]`, by its `entryType` and
`accountKey`, if it is the vault's; `moves[w]` likewise if it is the wallet's; and
`misfiled[w]` sums the `USER_VAULT` entries that carry the `walletId` of `w`, as
`savings.service.ts:152` and `224` write them, with no `vaultId`.
Of customers: `sessions[r]` is the row login `r` opened, its token is the
login's or that of the refresh that rotated it last; a code is its place in
`codes`. In `Delivery` a job is its place in the queue and a row names its job.

**What each action stands for** is in `PROJECT.json` under `map`. Some
correspondences that are easy to miss:

- `RequestHash` is the tuple of the fields `initiateDeposit` and
  `initiateWithdraw` hash: user, wallet and amount. The endpoint is not one of
  them, so a record of a deposit answers a withdrawal with the same key, wallet
  and amount, and the model lets it. `VaultHash` likewise.
- `Hold` writes `seen[r] - amount`: the balance read before the transaction
  (`wallet.service.ts:327`, `409`). `Move` in `Savings` writes both rows so. In
  `p2pTransfer` both wallets are read again inside the transaction, so
  `TransferCommit` uses the current values.
- `TransferStoreKey` is a step after `TransferCommit` because p2pTransfer stores
  its key in a statement of its own (`wallet.service.ts:692`).
- `SettleDeposit` and `SettleWithdrawal` do not look at the status:
  completeTransaction does so only before its transaction (`CompleteRead`).
- `deleteVault` is not an action: it calls `gt` on the string `formatVault`
  returned and always throws. The savings rules are stored and never
  applied: nothing calls `applyRulesForTransaction` (`savings.service.ts:273`).
- The reports book vault moves as `SavingsService` leaves them, whatever overlaps:
  `VaultMove` writes `currentAmount` from *any* amount the vault has had (`was`),
  compares only that with what is withdrawn (`savings.service.ts:188`, `229`), and
  the score sums what the vaults have `now` (`SavingsOf`,
  `health-score.service.ts:157-160`). The transactions of such moves and the
  vaults need not agree.
- A card payment is five actions for a capture or a reversal and four for an
  authorisation, because these are separate statements.
- A wrong code writes the counter it has read plus one; the search for a code
  takes the newest one (`Auth`). A wrong PIN writes `lockedUntil` whether or not
  it locks (`MissPin`), and a withdrawal does not look at the lock (`MayTry`).
- The email worker has no case for the mails of notifications
  (`FirstStatement`: a `MAIL` job is done at once).
- `Asked` and `InQuietArc` are the documentation's reading of the preferences,
  kept apart from `Passes` and `IsQuietHours`, the code's.
- `Uncategorized` is the SQL of the backfill, in which a source that is NULL is
  not `<> 'USER'`.
- Ghosts: `stale`, `wrote`, `lapsed` (Banking), `crossed`, `missed`, `activated`,
  `before` (Accounts: which calls wrote an activation, and the wallets their user
  had made when they looked), `wrote`, `plain`, `since` (Staff), `due`, `missed`
  (Delivery), `entangled`, `by` (Reports). No guard reads one; they only let a property say "unless another
  call came in between", and each such property says what holds otherwise.

**Abstractions.** Amounts are naturals: `Decimal(18,4)` is exact, and no operation
of the money rounds; the divisions of the reports are floors, as in whole points.
Fees are always 0 in the code and left out. References, descriptions, metadata
and audit entries are left out (no property is about them). Key records expire
after 24 hours in a column no code reads, so they never expire. Hashes, secrets and
one-time passwords are the call that made them. Expiries of codes and locks are
steps that may come at any time, or a `Fail`; the two tokens of staff have a
clock, because a property is about their lives. Months have `MonthDays` days and
quiet hours a day of `Day` minutes.

**The abstract specifications.** `IdempotentApi` says what a key promises, without
wallets: of the calls that carry a key at most one has an effect, effect and
binding are one step, and every answer is an effect that was there. `Payments`
implements it for deposits and withdrawals (`KeepsPromise`), `Banking` for those
and the vault moves (`BankKeepsPromise`). Transfers are outside the promise: they
take keys only after their effect. `AtLeastOnce` says what a queue promises of
its jobs: what was asked for is eventually settled, once and for good, and nothing
else is; `Delivery` implements it with errors, retries and stops
(`QueueKeepsPromise`).

## 3. The runs

Requests that ask the same are interchangeable (symmetry), and every call may
stop at every await.

| Run | Instance | What it shows |
| --- | --- | --- |
| `payments` | 4 calls on two wallets holding 2 and 0, amounts 1 and 2: either deposits, withdrawals, transfers, completions and freezes, or the back office and customers on the same transactions, or two keys across endpoints, users, wallets and amounts | `Reconciled`: each balance is the opening balance plus the movements booked. `NoOverdraft`: no available balance goes below 0, although holds are written from stale reads. `HoldFree`: without a withdrawal, balance and available stay equal. `StatusBacked`: no wallet holds less than its completed and reversed deposits and its transfers come to, what is PENDING has booked nothing on balance, and what is under review is flagged, whichever check is stale. `DebitsAreOwners`, `SettledByOwner`: only the owner's transfer lowers a balance, within what is available, and only the owner settles. `ReplayFaithful`: an answer is of the caller's own call. `KeepsPromise`: the payments implement `IdempotentApi`. |
| `savings_cards` | 4 calls on a card with limits of 3, or 3 calls of savings and wallet endpoints on a vault linked to `w1`, one not yet created, and one key | `LostOnlyToStaleReads`: a wallet or vault differs from the entries of its account (`entryType` and `accountKey`) only where a vault move overwrote a stale row. `NothingOverdrawn`, `ReplayFaithfulBank`, `BankKeepsPromise`. On every card that no overlap or stop has disturbed: `CountersBooked`, `CardRowsAgree`. |
| `accounts` | 4 calls of one of seven menus (sign-up, sessions, resets, devices, second factor, review, PIN), one active customer and one new; locks after 2 failures | `RevokedForGood`, `LogoutKillsToken`: what is revoked stays revoked, also across refreshes on their way. `ActivatedByMail`, `TierEarned`. `PrimaryMissingHasCause`: if an active account is without a primary wallet, a verification activated it, and each that did still runs, stopped after it, or looked for a wallet after its customer had made one; and no choice of a primary wallet was answered. `KycSettled`, `MfaAgrees`: tables agree unless a call overtook another. `NoLockWithoutCause`. |
| `staff` | two admins of six initial tables, two calls at once, an access token that lives 1 and a refresh token that lives 2 | `ReadOnlyModifiesNothing`: through no endpoint. `LetInAfterLogin`. `FrozenWithoutManagers`: when the last manager is gone, nothing changes rights again. |
| `delivery` | a transfer between two users, or between two wallets of one, with an empty event, or a budget alert with a code; preferences that change under way; 2 attempts, 1 stall, 2 errors or stops; a day of 3 minutes, all of them quiet or loud for somebody | `RoutedAsAsked`, `RowsTellTruth`, `OnlyStallsRepeatRows`, `OtpMailedOrTried`; under fairness `QueueKeepsPromise`: every job is settled. |
| `reports` | 2 runs of one of six themes (two nights; a night and a call; refresh and dashboard; two hourly jobs; hourly and demo; backfill and the user's choice), 2 users, a vault, 2 transactions, 2-day months, 3 days, 1 error | `ReportsTypeOK`: also that scores are 0 to 100 and vaults not below 0. `TransfersCancelOut`: over all users only what crosses the border counts. `ForecastCoversMonth`. `OnceADay`: an hourly insight is not repeated within a day. `NightIsolation`. `UserChoiceSticks`. `ClosedMonthKept`. |

Why the bounds are enough. Every race this code has is between two calls and at
most one more that sets the scene or observes (deposit, complete, complete;
login, refresh, logout; submit, approve, reject; authorise, capture, reverse):
four calls hold them all, with one to spare; with a balance of 2 two calls
compete for the same unit, and amounts of 1 and 2 fit it twice and once. The
menus of `accounts` separate parts that share no row, or only one the other part
reads. Two wrong tries reach and pass every lock. In `delivery` the two faults
are enough for a retry to fail too, for a stop between a row and the end of its
job, and for an error of one addressee beside a success of the other; the three
kinds of preferences have a quiet arc within the day and one over midnight. In
`reports`, three days of two-day months have an end of month, a first of a month
and a day after; the window of three days reaches into the last month. Two
overlapping withdrawals of one deposit into a vault are three transactions and do
not fit there; that the score is in bounds for them too is the theorem's. In
`staff`, three ticks are the whole life of the tokens of a login. Properties
quantify over pairs of calls or relate one row to others, not larger groups. For
the invariants and the action properties the bounds do not matter in the end: each
of them is a theorem (section 4). They matter for the liveness in
`QueueKeepsPromise`, which only this run shows.

**Fairness.** Only `delivery` states it: weak fairness of the listener per event
and of the worker per queue. Node runs a continuation that is ready, and a BullMQ
worker keeps asking its queue for jobs (`email.module.ts`,
`notification.module.ts` register them for the life of the process). Errors,
stops, changes of preferences and clients are owed nothing, and a stop is followed by
a restart because the worker is fair afterwards. The other runs state safety only:
each of their calls is a finite sequence of steps with no wait for another one,
and "every call ends" would assume fairness of every handler and say nothing of
this code. Deadlock is not checked: a run in which every call has ended is a
proper end.

### Claims the code does not keep

Six runs each check one statement of the repository that TLC refutes. They
document the code as it is; a change that makes one hold shows up as a run that
no longer fails.

| Run | Statement | What TLC shows |
| --- | --- | --- |
| `claim_lost_hold` | `prisma.service.ts:45`: "Required for all ledger and wallet operations to prevent lost-updates." | Two withdrawals: the second writes `availableBalance` from its old read (L409) and the first one's hold is gone. |
| `claim_processed_once` | `wallet.service.ts:768`: "Transaction already processed" | Two completions read PENDING (L764-769); both credit the deposit (L777-803). |
| `claim_transfer_retry` | `wallet.dto.ts:123`: "Optional idempotency key (UUID) for safe retries" | The key is stored after the transfer (L692-704): an overlapping or early retry moves the money again. |
| `claim_found_by_id` | `prisma/schema.prisma:562-567`: "Use this as your single source of truth for balances during reconciliation", with USER_WALLET "tied to walletId" and USER_VAULT "tied to vaultId" | Both entries of a vault move carry the wallet's id and none the vault's (`savings.service.ts:152`, `224`): summed by `walletId` they cancel out while the wallet's balance changes. |
| `claim_email_sent` | `README.md:14`: "Notifications: Email (Nodemailer) + In-App (WebSocket) + Push (FCM)" | The worker has no case for notification mails (`email.processor.ts:23-31`); the row says SENT and nothing is mailed. |
| `claim_month_final` | `analytics-snapshot.cron.ts:60`: "Compute last month if not yet finalized" | The row of a month exists from its first night on and is not computed again after it: the last day is missing (L63-70). |

### Seen while modelling

Visible in the modules, and not given a run of their own.

Money:

- A settled deposit has a third ledger entry without a counterpart
  (`wallet.service.ts:783`), a paid out withdrawal likewise (L816), against
  `prisma/schema.prisma:561-562`: "The sum of all amounts for a single
  transactionId MUST be zero". `booked[t]` shows it: that of a deposit or a
  withdrawal is 0 only as long as nothing has settled it. No property relies on the surplus.
- A vault's entries can be told from the wallet's by `entryType` and `accountKey`
  only (`misfiled`); no entry has a `vaultId`.
- Two overlapping vault moves write rows of different moments, so wallets and
  vaults together gain or lose money (`savings.service.ts:107`, `169`, `228`), and
  more may be booked out of a vault than was put in.
- A captured card payment is booked as a debit of the wallet and the balance is
  never written (`virtual-card.service.ts:356-358`; `CardCharges`).
- `dailyLimit` is compared with the single amount, not the day's total
  (`wallet.service.ts:582`). A completed withdrawal never debits `balance`, and
  its hold is never released (L810-830).
- p2pTransfer answers with any record of the caller that has `responseStatus` 200,
  also one a vault move stored (`StoresOk`). A wallet frozen after the sender was
  read still sends; withdrawals and deposits do not look at the status.
- `lockUntil` is described as "Lock the vault until this date to prevent early
  withdrawals" (`savings.dto.ts:40`); only `isLocked` is read, and creation leaves
  it false.
- A card authorisation does not count open ones against `spendingLimit`
  (`virtual-card.service.ts:232`). `spentToday` is never reset: the "cron" of
  the comment at L347 does not exist. The customer's `unfreezeVirtualCard` lifts a
  freeze of the back office.

Accounts and staff:

- A password reset revokes the sessions there are; a login that has passed its
  password check opens another one afterwards. A refresh that has found its
  session may overtake a logout, which then finds no token to revoke: the old token
  is dead, the session lives.
- Two refreshes with one token both succeed, and only the later one's token
  works. One code can be consumed, and one backup code spent, twice. A late wrong
  try can lower the count of tries of a code.
- A late wrong PIN lifts a lock set meanwhile (`MissPin`); a withdrawal does not
  look at the lock.
- Two enrolments of the second factor, one confirmed while the other begins, leave
  `isMfaEnabled` set with a secret that is not enabled: no login, no enrolment and
  no disabling is possible (`crossed`).
- An approval beside a rejection and a second submission leaves `verifiedAt` set
  on an undecided document, which no reviewer can decide (`admin-kyc.service.ts:73`).
- A stop in verifyEmail leaves an active account without a primary wallet until
  its customer makes one and chooses it: nothing repeats ensurePrimaryWallet. So does
  a customer who is let in after the activation and creates a wallet before
  ensurePrimaryWallet, which is content with any wallet, has looked
  (`wallet.service.ts:38-42`).
- A device stays its first owner's; a session another customer opened on it is
  deleted when that owner removes the device (`DeviceRemove`).
- Tokens of staff stay valid over a deactivation and reactivation. Managers can
  deactivate each other; the last one locks everybody out. The mode `ALL` of the
  permission guard is never used.

Notifications:

- Nothing under `src/` emits the events the listener listens to.
- Quiet hours are looked at when a job is queued, not when it is sent, and what
  falls into them or into a digest is dropped, not kept.
- A row may say FAILED although the mail is queued, a retry may queue a mail or a
  push again, and a channel named twice gives two jobs.
- The gateway checks a token's signature only, not the session it belongs to.

Reports:

- The backfill selects no row, for a source that is NULL is not `<> 'USER'` in SQL
  (`categorization.service.ts:138-144`; `analytics.controller.ts:158` offers it).
- Money taken out of a vault counts as spent in score and forecast
  (`Outgoings`); the forecast puts under OTHER what the snapshot gives a category.
- The hourly figures count pending and received money as spent and treat
  transactions without a merchant as one subscription (`Insights`); an
  error with one user ends the hour for those after it.
- The demo removes all insights of a user, not only demo rows. Expired insights stay
  listed until the next generation. Each night and refresh inserts the same
  insights again. `CategoryBudget.spent` is read and never updated, and
  `comparedToPrevious` may be of an older figure.

## 4. What is proved

With TLAPS, for every value of the constants that satisfies the assumptions of the
modules. `PaymentsProofs`, under `ConstantsAssumption` (owners, opening balances
and limits are functions of the right type, the bodies are well formed, `None`
is none of the identifiers) and, for the balances, `RequestsAssumption` (finitely
many calls):

- `TypeCorrect`: `Spec => []PaymentsTypeOK`;
- `KeysAreUsedOnce`, `ReplaysAreFaithful`, `AnswersDoAgree`: the keys;
- `BalancesReconcile`, `NeverOverdrawn`, `BalanceIsAvailable`: the balances;
- `StatusesAreBacked`: the statuses, against balances and flags;
- `OnlyOwnersDebit`, `OnlyOwnersSettle`: the action properties;
- `Refinement`: `Spec => Promise!Spec`, the payments implement `IdempotentApi`.

All follow from `Invariance`: `Spec => []IInv`. None of the properties is
inductive by itself. `NoOverdraft` needs to know that a withdrawal on its way to
its commit has seen at least its amount, because what it writes is computed from
that (`Passed`). `KeyedOnce` needs that a key record names an existing transaction
with that key and that every keyed deposit or withdrawal is the one its key names
(`KeyRecords`), which in turn needs that a row exists exactly from its commit on
(`Rows`). `StatusBacked` needs what completions, reversals and flags in flight
have read of their target (`Targets`) and the sign of what is booked (`Books`):
each settled deposit has booked at least its amount (`Backed`). That carries over
to the balances because a wallet's movements are the sum of what its deposits have
booked and its transfers come to (`MovesPosted`), and a sum over finitely many
calls (`RequestsAssumption`) is at least another one term by term.
`ReplayFaithful` needs that an answer is the caller's own row or the one its key
names (`Answers`). `HoldFree` needs that transfers never name one wallet twice
(`Passed`): the code would then count the amount once. `IInv` is their
conjunction. The proof has a lemma for each part, with a step for each action or
for each group of actions the part treats alike.

`StaffProofs`, under `StaffAssumption` (the tables are of the admins' type, the
menu is of endpoints, both lives are positive):

- `StaffTypeCorrect`: `Spec => []StaffTypeOK`;
- `ReadersModifyNothing`: `Spec => []ReadOnlyModifiesNothing`, whatever the
  endpoints called and however many managers change the table meanwhile;
- `LetInAfterPassword`: `Spec => []LetInAfterLogin`;
- `NobodyManages`: `Spec => FrozenWithoutManagers`.

They follow from `StaffInvariance`: `Spec => []StaffInv`. `ReadOnlyModifiesNothing`
is not inductive: a call was let in earlier than it is served, so the invariant
says that no call of a plain reader under way is of an endpoint that writes
(`PlainOK`), and the lemma `ReadOnlyPowerless` goes through the permissions of all
endpoints. `LetInAfterLogin` needs that the age of the login and what is left of
the refresh token add up to its life, and an access token adds at most its own
(`TokensOK`).

`AccountsProofs`, under `AccountsAssumption` (customers and calls are apart, the
currencies of tier 1 include those of tier 0, the calls are finitely many and well
formed, the limits of tries are positive):

- `AccountsTypeCorrect`: `Spec => []AccountsTypeOK`;
- `LogoutIsFinal`, `RevocationIsFinal`: sessions and tokens, the latter an action
  property;
- `ActivationIsMailed`, `TiersAreEarned`, `PrimaryMissingIsCaused`: activation,
  tiers and primary wallets;
- `LocksAreCaused`: the counter of wrong PINs;
- `ReviewsSettle`, `FactorsAgree`: status and document, flag and secret.

They follow from `AccountsInvariance`: `Spec => []AccountsInv`, where
`AccountsInvariant` states what each call knows at its await. `LogoutKillsToken`
and `RevokedForGood` need that the token of a live session was made by a call that
has been answered and belongs to that session and its user (`SessionsOK`,
`BearersOK`): a call that is about to rotate makes a token that is still nobody's,
so rotating cannot bring back an old one. `ActivatedByMail` needs that a call
finds only what was mailed (`CodesOK`), `TierEarned` that the tier a creation has
read was granted (`TierKnown`), `PrimaryMissingHasCause` that a wallet that is not
the primary one was made by createWallet (`SecondaryMade`), that who is active was
so from the start or was activated by a call that is past its activation, and
that such a call, once answered, has left a primary wallet or found wallets of its
user before it could make one (`Activations`). `NoLockWithoutCause`
counts: what a call has read of the counter is at most the number of calls that
missed, and its own miss is not among them yet (`CountersRead`). `MfaAgrees` needs
whose a row is and that only answered confirmations have backup codes
(`SecretsOK`); both it and `KycSettled` need the kinds of the calls at each await
(`Flow`).

`Sums` holds the lemmas on `SumFunctionOnSet`, the fold the models add with: that
a sum over no elements is 0, that one more element adds its value, that two
functions that agree have one sum, that sums of finitely many naturals are
naturals. A fold yields to induction only. The library's induction rule takes a
predicate as its parameter, which the provers cannot instantiate, so
`SetInduction` states induction over a finite set with the *set* of the good
subsets in the predicate's place, and each lemma names that set.

`BankingProofs`, under the assumptions of payments, vaults and cards and
`RequestsAssumption` (finitely many requests):

- `BankNeverOverdrawn`: `BankingSpec => []NothingOverdrawn`, over wallets and vaults;
- `BankReplaysAreFaithful`: `BankingSpec => []ReplayFaithfulBank`;
- `OnlyStaleReadsLose`: `BankingSpec => []LostOnlyToStaleReads`;
- `BankRefinement`: `BankingSpec => BankKeepsPromise`, payments and vault moves
  implement `IdempotentApi` together.

They follow from `BankInvariance`: `BankingSpec => []BankInv`. `NothingOverdrawn`
needs that a move on its way has seen at least its amount where it takes it from
(`Reads`), for what it writes is computed from that; `LostOnlyToStaleReads` that
an authorisation is of a call that made it, on a card that has a wallet
(`Authorised`), because a card's captures enter that wallet's ledger, and that the
fold over the card's payments moves by exactly the entry. The books it speaks of
are those of an account, by `entryType` and `accountKey`; by `walletId` the
statement is false (`claim_found_by_id`). The two statements about
keys need when a row exists (`Created`) and that what a key or a body names exists
(`Named`).

`CardsProofs`, under the same assumptions:

- `CardRowsDoAgree`: `BankingSpec => []CardRowsAgree`;
- `CountersAreBooked`: `BankingSpec => []CountersBooked`.

They follow from `CardInvariance`: `BankingSpec => []CardInv`. A payment writes
its rows and its counters in statements of their own, so neither property is true
between two of them; what is, on a card no overlap or stop has disturbed, is
`Stories`: for each authorisation, which captures and refunds have written their
first row, how far each has come and what the three tables hold of it.
`CountersKept` says that a counter is the sum of what is booked plus the sum of
what calls under way have counted and not yet entered; every step moves both
sides by the same amount, or one element from one sum to the other. `DayKept` says
that what an authorisation has read of the day's counter leaves room for it.

`DeliveryProofs`, under `DeliveryAssumption` (a day and a number of attempts, the
contents and settings are of their types, job numbers are positive):

- `RoutedAsAskedAlways`: `Spec => []RoutedAsAsked`, for which the lemma
  `QuietAgrees` shows that the documentation's quiet arc is the code's comparison
  of minutes, for every day and arc, and `ChosenAsAsked` that the channels the
  listener chooses are the ones asked for;
- `RowsAreTrue`, `RowsOncePerStall`, `OtpIsMailedOrTried`: the rows and the codes;
- `QueueKeepsPromiseSafely`: if the queue never runs out of numbers
  (`JobIds = Nat \ {0}`), the initial states and the steps of `Delivery` are those
  of `AtLeastOnce`. Its liveness is left to the run.

They follow from `DeliveryInvariance`: `Spec => []DeliveryInv`. `RoutedAsAsked`
is about events that are over; on the way there, the notices that are left are
distinct from those dealt with, and the plan of the one under way completes the
jobs it has (`RoutingKept`). `OnlyStallsRepeatRows` counts rows over a bag: a job
that waits and is nobody's has at most one row per stop, and the attempt under way
adds its own only before it emits (`RowsCounted`). `RowsTellTruth` needs that a
worker past its row has written one, and past its mail has queued one
(`RowsWritten`).

`ReportsProofs`, under `FiguresAssumption` and `SnapshotsAssumption` (finitely many
users and transactions, windows longer than a month, bookings that carry no
category yet and name the users whose money moves):

- `ReportsAreTyped`: `Spec => []ReportsTypeOK`; with it, that a score is one of 0 to
  100, its four parts being naturals of at most 30, 20, 30 and 20 points;
- `TransfersDoCancelOut`: `Spec => []TransfersCancelOut`;
- `ForecastDoesCoverMonth`: `Spec => []ForecastCoversMonth`;
- `HourlyOnceADay`: `Spec => []OnceADay`;
- `NightsAreIsolated`: `Spec => []NightIsolation`;
- `UserChoiceDoesStick`: `Spec => UserChoiceSticks`;
- `ClosedMonthIsKept`: `Spec => ClosedMonthKept`.

They follow from `ReportsInvariance`: `Spec => []ReportsInv`. The score needs
`VaultsOK`: the points for an emergency fund would fall below 0 if the vaults of a
user held less than nothing. They never do, and never have, because each move
writes what one read of the vault has seen plus or less its amount, and a
withdrawal compares its amount with what it has seen; whether that read is stale,
and whether more has been booked out of the vault than into it, does not matter.
`TransfersCancelOut` exchanges a sum over users with one over transactions
(`UserByUser`). `NightIsolation` needs that the users of a night are served,
failed or still to do, and that each failure took an error (`NightsOK`). `OnceADay`
and `ClosedMonthKept` are about runs that met nobody: such a run is alone
(`Alone`), so the month it remembers is the current one, the rows it did not find
are still missing, and what it is about to say has not been said today
(`KnownAlone`). `UserChoiceSticks` needs that no category has the source `RULE`
(`TxsOK`): the backfill finds no row (section 3), which is why it cannot take a
user's choice away.

What stays with TLC:

- Liveness: that every job is settled (the leads-to of `AtLeastOnce` in
  `QueueKeepsPromise`), and with it anything about ENABLED, on which fairness
  rests and which the prover does not support.
- The refuted claims, which are counterexamples.


## 5. Plan

The model is complete for what section 1 lists. What is left is proof:

1. **The abstract specifications themselves**: that `IdempotentApi` binds a key at
   most once and gives each key one answer, and that in `AtLeastOnce` a settled
   job stays settled, so that the refinements carry over results and not only
   steps.
2. **Operators**: for every role, that what an endpoint needs is what its guard
   lists (`Permissions`); for every transaction, that categorisation is total and
   the first rule wins (`Figures`).
3. **Consequences** across groups: no answered call of a keyed endpoint without
   its row in `Banking`, by the refinement rather than by the invariant.


## 6. Not modelled

- **Beneficiaries**: a list of saved recipients, found and then created or updated;
  no transfer reads it.
- **Configuration, filters, interceptors, API docs**: start-up wiring and
  presentation, without state of their own.
- **Savings rules**: stored, and applied by nothing.
- **updateProfile, marking notifications read, card number and CVV**: single
  statements on columns no other operation reads.
- **Rooms of the notification gateway**: who is connected decides who is shown a
  message; no row depends on it. The emit itself is the step `EmitToUser`.
- **generateUserInsights, deleteUserInsights**: no caller.
- **Lists, summaries and overviews** of all components only read.

Known and without a property: the daily limit and the holds that are never
released (nothing in the code sums a day or releases a hold), and the backup code
spent twice (one interleaving, which `Mfa` contains).

## 7. Running

```
tlc -workers 2 -config MCPayments.cfg MCPayments
tlc -workers 2 -config MCBanking.cfg MCBanking
tlc -workers 2 -config MCAccounts.cfg MCAccounts
tlc -workers 2 -config MCDelivery.cfg MCDelivery
tlc -workers 2 -config MCReports.cfg MCReports
tlc -workers 2 -config MCStaff.cfg MCStaff
tlc -workers 2 -config ClaimNoLostHold.cfg MCPayments          # refuted, as the other claims
tlapm Sums.tla
tlapm PaymentsProofs.tla
tlapm BankingProofs.tla
tlapm CardsProofs.tla
tlapm AccountsProofs.tla
tlapm StaffProofs.tla
tlapm DeliveryProofs.tla
tlapm ReportsProofs.tla
```

Each run takes at most three to four minutes with two workers; all proofs
together, from nothing, some fifteen.
