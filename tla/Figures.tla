------------------------------ MODULE Figures ------------------------------
(***************************************************************************)
(* What the analytics services compute from the transactions: categories,  *)
(* the figures of a month, the health score and the forecast.  Nothing     *)
(* here changes state.  Time is counted in days; a month has MonthDays.    *)
(***************************************************************************)
EXTENDS Integers, FiniteSets, Sequences, SequencesExt, FiniteSetsExt

CONSTANTS
    Users, TxIds, None,
    MonthDays,      \* the days of a month
    Days,           \* bound: the last day of a behaviour
    WindowDays,     \* forecast window, 90 days in the code, longer than a month
    Merchants,      \* names of merchants
    MerchantRules,  \* MERCHANT_RULES, in order: the names a rule matches, its category
    BudgetLines     \* per user: the category budgets of active budgets

\* The types some code books, and the one the alerts ask for.
TxTypes == {"DEPOSIT", "WITHDRAWAL", "P2P_TRANSFER", "CARD_PAYMENT",
            "VAULT_CONTRIBUTION", "VAULT_WITHDRAWAL", "SUBSCRIPTION_CHARGE"}

Categories == {"TRANSPORT", "SHOPPING", "TRANSFERS", "SAVINGS", "SUBSCRIPTIONS", "OTHER"}

TxType ==
    [sender : Users \cup {None}, receiver : Users \cup {None}, type : TxTypes, amount : Nat,
     merchant : Merchants \cup {None}, category : Categories \cup {None},
     source : {"USER", "RULE", None}, day : 0..Days, status : {"PENDING", "COMPLETED"}]

ASSUME FiguresAssumption ==
    /\ None \notin Users \cup TxIds \cup Merchants \cup Categories
    /\ {MonthDays, WindowDays} \subseteq Nat \ {0}
    /\ Days \in Nat
    /\ MonthDays < WindowDays
    /\ MerchantRules \in Seq([names : SUBSET Merchants, category : Categories])
    /\ BudgetLines \in [Users -> SUBSET [category : Categories, limit : Nat \ {0}, spent : Nat]]
    /\ IsFiniteSet(Users) /\ IsFiniteSet(TxIds) /\ \A u \in Users : IsFiniteSet(BudgetLines[u])

Month(day) == day \div MonthDays
FirstDay(month) == month * MonthDays

\* A ledger is a function from some of TxIds to rows; the sum over some of them.
Total(ledger, ids) == SumFunctionOnSet([t \in ids |-> ledger[t].amount], ids)

-----------------------------------------------------------------------------
(* CategorizationService.                                                  *)

categorizeByMerchant(merchant) ==
    LET Matches(rule) == merchant \in rule.names
        first == SelectInSeq(MerchantRules, Matches)
    IN IF first = 0 THEN "OTHER" ELSE MerchantRules[first].category

categorizeByType(type) ==
    CASE type \in {"VAULT_CONTRIBUTION", "VAULT_WITHDRAWAL"} -> "SAVINGS"
      [] type = "SUBSCRIPTION_CHARGE" -> "SUBSCRIPTIONS"
      [] type = "P2P_TRANSFER"        -> "TRANSFERS"
      [] OTHER                        -> None

resolveCategory(tx) ==
    IF tx.category # None /\ tx.source = "USER" THEN tx.category
    ELSE IF categorizeByType(tx.type) # None THEN categorizeByType(tx.type)
    ELSE categorizeByMerchant(tx.merchant)

-----------------------------------------------------------------------------
(* AnalyticsSnapshotService.                                               *)

ExpenseTypes == {"WITHDRAWAL", "CARD_PAYMENT", "SUBSCRIPTION_CHARGE", "P2P_TRANSFER"}

\* As IncomeTypes, with a transfer that only its sender sees.
DepositsOnly == {"DEPOSIT"}

IncomeTypes == {"DEPOSIT", "P2P_TRANSFER"}

\* The findMany and the loop of computeAndUpsertSnapshot.
FiguresOf(ledger, u, month) ==
    LET Mine   == {t \in DOMAIN ledger : /\ u \in {ledger[t].sender, ledger[t].receiver}
                                         /\ ledger[t].status = "COMPLETED"
                                         /\ Month(ledger[t].day) = month}
        Spent  == {t \in Mine : ledger[t].sender = u /\ ledger[t].type \in ExpenseTypes}
        CategoryOf(t) == IF ledger[t].category # None THEN ledger[t].category
                                                      ELSE resolveCategory(ledger[t])
    IN [income   |-> Total(ledger, {t \in Mine : /\ ledger[t].receiver = u
                                                 /\ ledger[t].type \in IncomeTypes}),
        expenses |-> Total(ledger, Spent),
        saved    |-> Total(ledger, {t \in Mine : /\ ledger[t].sender = u
                                                 /\ ledger[t].type = "VAULT_CONTRIBUTION"}),
        spending |-> [c \in Categories |-> Total(ledger, {t \in Spent : CategoryOf(t) = c})],
        count    |-> Cardinality(Mine)]

NetCashFlow(figures) == figures.income - figures.expenses

\* The changes against the month before, of the categories spent on; None where
\* nothing was spent before.
ComparedToPrevious(figures, previous) ==
    [c \in {d \in Categories : figures.spending[d] > 0} |->
        IF previous.spending[c] > 0
        THEN ((figures.spending[c] - previous.spending[c]) * 100) \div previous.spending[c]
        ELSE None]

-----------------------------------------------------------------------------
(* HealthScoreService, in whole points.                                    *)

AtMost(a, b) == IF a <= b THEN a ELSE b

\* As SavingsRatePoints, without the cap.
UncappedRate(income, saved) == IF income = 0 THEN 0 ELSE (150 * saved) \div income

\* 30 points for saving 20% of the income.
SavingsRatePoints(income, saved) ==
    IF income = 0 THEN 0 ELSE AtMost((150 * saved) \div income, 30)

\* 20 points times 1 - standard deviation / mean; with n months, sum s and sum
\* of squares q that quotient is the root of n * q - s * s, over s.
VolatilityPoints(n, s, q) ==
    IF n < 2 THEN 10
    ELSE LET lost == {k \in 1..20 : k * k * s * s <= 400 * (n * q - s * s)}
         IN 20 - Cardinality(lost)

AdherencePoints(within, lines) == IF lines = 0 THEN 15 ELSE (30 * within) \div lines

\* 20 points for savings of three months' expenses.
EmergencyPoints(savings, expenses) ==
    IF expenses = 0 THEN IF savings > 0 THEN 20 ELSE 0
    ELSE AtMost((20 * savings) \div expenses, 20)

\* What leaves a user's account, as the score and the forecast see it: with the
\* money taken out of a vault, which has the user for sender and receiver.
Outgoings(ledger, u) ==
    {t \in DOMAIN ledger : /\ ledger[t].sender = u
                           /\ ledger[t].type # "VAULT_CONTRIBUTION"
                           /\ ledger[t].status = "COMPLETED"}

\* Of the transactions, and of what the user's vaults hold (savings).
HealthScore(ledger, savings, u, now) ==
    LET Since(month) == {t \in DOMAIN ledger : Month(ledger[t].day) >= month}
        Recent  == {t \in Since(Month(now) - 3) : ledger[t].status = "COMPLETED"}
        MonthlyTotal(m) == Total(ledger, {t \in Outgoings(ledger, u) : Month(ledger[t].day) = m})
        Busy    == {m \in (Month(now) - 5)..Month(now) : MonthlyTotal(m) > 0}
    IN SavingsRatePoints(
           Total(ledger, {t \in Recent : ledger[t].receiver = u /\ ledger[t].type = "DEPOSIT"}),
           Total(ledger, {t \in Recent : /\ ledger[t].sender = u
                                         /\ ledger[t].type = "VAULT_CONTRIBUTION"}))
     + VolatilityPoints(Cardinality(Busy), MapThenSumSet(MonthlyTotal, Busy),
                        MapThenSumSet(LAMBDA m : MonthlyTotal(m) * MonthlyTotal(m), Busy))
     + AdherencePoints(Cardinality({line \in BudgetLines[u] : line.spent <= line.limit}),
                       Cardinality(BudgetLines[u]))
     + EmergencyPoints(savings,
                       Total(ledger, Outgoings(ledger, u) \cap Since(Month(now) - 3)))

-----------------------------------------------------------------------------
(* ForecastingService.                                                     *)

\* The category of the row, never the one a rule would give.
RowCategory(tx) == IF tx.category # None THEN tx.category ELSE "OTHER"

\* As WindowStart, with a window of days counted from the first of a month.
MonthWindowStart(now) == FirstDay(Month(now)) + 1

WindowStart(now) == now - WindowDays

\* forecastCurrentMonth, a function from the categories with a forecast.
Forecast(ledger, u, now) ==
    LET In(c, since) == Total(ledger, {t \in Outgoings(ledger, u) : /\ RowCategory(ledger[t]) = c
                                                                    /\ ledger[t].day >= since})
        passed == IF now = FirstDay(Month(now)) THEN 1 ELSE now - FirstDay(Month(now))
    IN [c \in {d \in Categories : In(d, WindowStart(now)) > 0} |->
           [projected |-> (In(c, WindowStart(now)) * MonthDays) \div WindowDays,
            soFar     |-> In(c, FirstDay(Month(now))),
            remaining |-> (In(c, WindowStart(now)) * (MonthDays - passed)) \div WindowDays]]
=============================================================================
