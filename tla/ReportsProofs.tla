---------------------------- MODULE ReportsProofs ----------------------------
(***************************************************************************)
(* The reports, for any number of users, transactions and runs: the figures *)
(* and the score first, then what the runs know, then the properties.      *)
(***************************************************************************)
EXTENDS ReportsInvariant, Sums

-----------------------------------------------------------------------------
(* Divisions.                                                              *)

\* A quotient of natural numbers is the one with a remainder below the divisor.
LEMMA DivIs ==
    ASSUME NEW a \in Nat, NEW b \in Nat \ {0}
    PROVE  /\ a \div b \in Nat
           /\ (a \div b) * b <= a /\ a < (a \div b) * b + b
OBVIOUS

\* A larger number has no smaller a quotient.
LEMMA DivGrows ==
    ASSUME NEW a \in Nat, NEW c \in Nat, a <= c, NEW b \in Nat \ {0}
    PROVE  a \div b <= c \div b
<1> DEFINE p == a \div b
           q == c \div b
<1>1. p \in Nat /\ q \in Nat /\ p * b <= a /\ c < q * b + b
  BY DivIs
<1> HIDE DEF p, q
<1>2. p * b < (q + 1) * b
  BY <1>1
<1>3. p < q + 1
  <2> SUFFICES ASSUME q + 1 <= p PROVE FALSE
    BY <1>1
  <2>1. (q + 1) * b <= p * b
    BY <1>1
  <2> QED
    BY <1>1, <1>2, <2>1
<1> QED
  BY <1>1, <1>3 DEF p, q

\* What is at most k times the divisor has a quotient of at most k.
LEMMA DivAtMost ==
    ASSUME NEW a \in Nat, NEW b \in Nat \ {0}, NEW k \in Nat, a <= k * b
    PROVE  a \div b \in 0..k
<1> DEFINE p == a \div b
<1>1. p \in Nat /\ p * b <= a
  BY DivIs
<1> HIDE DEF p
<1>2. p * b <= k * b
  BY <1>1
<1>3. p <= k
  <2> SUFFICES ASSUME k + 1 <= p PROVE FALSE
    BY <1>1
  <2>1. (k + 1) * b <= p * b
    BY <1>1
  <2> QED
    BY <1>1, <1>2, <2>1
<1> QED
  BY <1>1, <1>3 DEF p

-----------------------------------------------------------------------------
(* Sums over a ledger, whatever its rows are.                              *)

Ledger(l) == IsFiniteSet(DOMAIN l) /\ \A t \in DOMAIN l : l[t].amount \in Nat

\* A total is a natural number.
LEMMA TotalNat ==
    ASSUME NEW l, Ledger(l), NEW ids \in SUBSET DOMAIN l
    PROVE  Total(l, ids) \in Nat
<1> DEFINE f == [t \in ids |-> l[t].amount]
<1>1. IsFiniteSet(ids) /\ \A t \in ids : f[t] \in Nat
  BY FS_Subset DEF Ledger
<1> HIDE DEF f
<1>2. SumFunctionOnSet(f, ids) \in Nat
  BY <1>1, SumNat
<1> QED
  BY <1>2 DEF Total, f

\* It is a part of the sum over the whole ledger.
LEMMA TotalIsSum ==
    ASSUME NEW l, Ledger(l), NEW ids \in SUBSET DOMAIN l
    PROVE  Total(l, ids) = SumFunctionOnSet([t \in DOMAIN l |-> l[t].amount], ids)
<1> DEFINE f == [t \in ids |-> l[t].amount]
           g == [t \in DOMAIN l |-> l[t].amount]
<1>1. IsFiniteSet(ids) /\ \A t \in ids : f[t] = g[t]
  BY FS_Subset DEF Ledger
<1> HIDE DEF f, g
<1>2. SumFunctionOnSet(f, ids) = SumFunctionOnSet(g, ids)
  BY <1>1, SumSame
<1> QED
  BY <1>2 DEF Total, f, g

\* Fewer rows have no larger a total.
LEMMA TotalOfPart ==
    ASSUME NEW l, Ledger(l), NEW ids \in SUBSET DOMAIN l, NEW part \in SUBSET ids
    PROVE  Total(l, part) <= Total(l, ids)
<1> DEFINE g == [t \in DOMAIN l |-> l[t].amount]
<1>1. /\ IsFiniteSet(ids) /\ part \in SUBSET DOMAIN l
      /\ \A t \in ids : g[t] \in Nat
  BY FS_Subset DEF Ledger
<1>2. Total(l, part) = SumFunctionOnSet(g, part) /\ Total(l, ids) = SumFunctionOnSet(g, ids)
  BY <1>1, TotalIsSum
<1> HIDE DEF g
<1> QED
  BY <1>1, <1>2, SumOfPart

\* Rows in two parts.
LEMMA TotalUnion ==
    ASSUME NEW l, Ledger(l), NEW ids \in SUBSET DOMAIN l, NEW more \in SUBSET DOMAIN l,
           ids \cap more = {}
    PROVE  Total(l, ids \cup more) = Total(l, ids) + Total(l, more)
<1> DEFINE g == [t \in DOMAIN l |-> l[t].amount]
<1>1. /\ IsFiniteSet(ids) /\ IsFiniteSet(more) /\ ids \cup more \in SUBSET DOMAIN l
      /\ \A t \in ids \cup more : g[t] \in Int
  BY FS_Subset DEF Ledger
<1>2. /\ Total(l, ids) = SumFunctionOnSet(g, ids)
      /\ Total(l, more) = SumFunctionOnSet(g, more)
      /\ Total(l, ids \cup more) = SumFunctionOnSet(g, ids \cup more)
  BY <1>1, TotalIsSum
<1> HIDE DEF g
<1>3. SumFunctionOnSet(g, ids \cup more) = SumFunctionOnSet(g, ids) + SumFunctionOnSet(g, more)
  BY <1>1, SumUnion
<1> QED
  BY <1>2, <1>3

-----------------------------------------------------------------------------
(* The figures and the score.                                              *)

\* The figures of a month are natural numbers.
LEMMA FiguresAreTyped ==
    ASSUME NEW l, Ledger(l), NEW u, NEW m
    PROVE  FiguresOf(l, u, m) \in FiguresType
<1> DEFINE Mine   == {t \in DOMAIN l : /\ u \in {l[t].sender, l[t].receiver}
                                       /\ l[t].status = "COMPLETED"
                                       /\ Month(l[t].day) = m}
           Spent  == {t \in Mine : l[t].sender = u /\ l[t].type \in ExpenseTypes}
           CategoryOf(t) == IF l[t].category # None THEN l[t].category ELSE resolveCategory(l[t])
           In     == {t \in Mine : l[t].receiver = u /\ l[t].type \in IncomeTypes}
           Saved  == {t \in Mine : l[t].sender = u /\ l[t].type = "VAULT_CONTRIBUTION"}
           On(c)  == {t \in Spent : CategoryOf(t) = c}
<1>1. /\ Mine \in SUBSET DOMAIN l /\ Spent \in SUBSET DOMAIN l /\ In \in SUBSET DOMAIN l
      /\ Saved \in SUBSET DOMAIN l
  OBVIOUS
<1>2. \A c \in Categories : On(c) \in SUBSET DOMAIN l
  OBVIOUS
<1>3. FiguresOf(l, u, m) =
        [income |-> Total(l, In), expenses |-> Total(l, Spent), saved |-> Total(l, Saved),
         spending |-> [c \in Categories |-> Total(l, On(c))], count |-> Cardinality(Mine)]
  BY DEF FiguresOf
<1>4. Cardinality(Mine) \in Nat
  BY <1>1, FS_Subset, FS_CardinalityType DEF Ledger
<1> HIDE DEF Mine, Spent, In, Saved, On
<1>5. Total(l, In) \in Nat /\ Total(l, Spent) \in Nat /\ Total(l, Saved) \in Nat
  BY <1>1, TotalNat
<1>6. \A c \in Categories : Total(l, On(c)) \in Nat
  BY <1>2, TotalNat
<1> QED
  BY <1>3, <1>4, <1>5, <1>6 DEF FiguresType

\* Each part of the score keeps to its points.
LEMMA RatePoints ==
    ASSUME NEW income \in Nat, NEW saved \in Nat
    PROVE  SavingsRatePoints(income, saved) \in 0..30
<1>1. CASE income = 0
  BY <1>1 DEF SavingsRatePoints
<1>2. CASE income # 0
  <2> DEFINE a == 150 * saved
  <2>1. a \in Nat
    OBVIOUS
  <2> HIDE DEF a
  <2>2. a \div income \in Nat
    BY <1>2, <2>1, DivIs
  <2>3. AtMost(a \div income, 30) \in 0..30
    BY <2>2 DEF AtMost
  <2> QED
    BY <1>2, <2>3 DEF SavingsRatePoints, a
<1> QED
  BY <1>1, <1>2

LEMMA UpTo ==
    ASSUME NEW k \in Nat \ {0}
    PROVE  IsFiniteSet(1..k) /\ Cardinality(1..k) = k
<1>1. IsFiniteSet(1..k) /\ Cardinality(1..k) = IF 1 > k THEN 0 ELSE k - 1 + 1
  BY FS_Interval
<1> QED
  BY <1>1

LEMMA VolatilityInRange ==
    ASSUME NEW n \in Nat, NEW s, NEW q
    PROVE  VolatilityPoints(n, s, q) \in 0..20
<1> DEFINE lost == {k \in 1..20 : k * k * s * s <= 400 * (n * q - s * s)}
<1>1. IsFiniteSet(1..20) /\ Cardinality(1..20) = 20
  <2>1. 20 \in Nat \ {0}
    OBVIOUS
  <2> QED
    BY <2>1, UpTo, Zenon
<1>2. lost \subseteq 1..20
  OBVIOUS
<1> HIDE DEF lost
<1>3. Cardinality(lost) \in 0..20
  <2>1. IsFiniteSet(lost) /\ Cardinality(lost) <= Cardinality(1..20)
    BY <1>1, <1>2, FS_Subset
  <2>2. Cardinality(lost) \in Nat
    BY <2>1, FS_CardinalityType
  <2> QED
    BY <1>1, <2>1, <2>2
<1>4. VolatilityPoints(n, s, q) = IF n < 2 THEN 10 ELSE 20 - Cardinality(lost)
  BY DEF VolatilityPoints, lost
<1> QED
  BY <1>3, <1>4

LEMMA AdherenceInRange ==
    ASSUME NEW within \in Nat, NEW lines \in Nat, within <= lines
    PROVE  AdherencePoints(within, lines) \in 0..30
<1>1. CASE lines = 0
  BY <1>1 DEF AdherencePoints
<1>2. CASE lines # 0
  <2> DEFINE a == 30 * within
  <2>1. a \in Nat /\ a <= 30 * lines
    OBVIOUS
  <2> HIDE DEF a
  <2>2. a \div lines \in 0..30
    BY <1>2, <2>1, DivAtMost
  <2> QED
    BY <1>2, <2>2 DEF AdherencePoints, a
<1> QED
  BY <1>1, <1>2

LEMMA EmergencyInRange ==
    ASSUME NEW savings \in Nat, NEW expenses \in Nat
    PROVE  EmergencyPoints(savings, expenses) \in 0..20
<1>1. CASE expenses = 0
  BY <1>1 DEF EmergencyPoints
<1>2. CASE expenses # 0
  <2> DEFINE a == 20 * savings
  <2>1. a \in Nat
    OBVIOUS
  <2> HIDE DEF a
  <2>2. a \div expenses \in Nat
    BY <1>2, <2>1, DivIs
  <2>3. AtMost(a \div expenses, 20) \in 0..20
    BY <2>2 DEF AtMost
  <2> QED
    BY <1>2, <2>3 DEF EmergencyPoints, a
<1> QED
  BY <1>1, <1>2

\* The score is one of 0 to 100 points, whatever the vaults hold and also when
\* more was saved than earned.
LEMMA ScoreInRange ==
    ASSUME NEW l, Ledger(l), NEW savings \in Nat, NEW u \in Users, NEW now \in Nat
    PROVE  HealthScore(l, savings, u, now) \in 0..100
<1> DEFINE Since(month) == {t \in DOMAIN l : Month(l[t].day) >= month}
           Recent  == {t \in Since(Month(now) - 3) : l[t].status = "COMPLETED"}
           MonthlyTotal(m) == Total(l, {t \in Outgoings(l, u) : Month(l[t].day) = m})
           Busy    == {m \in (Month(now) - 5)..Month(now) : MonthlyTotal(m) > 0}
           In      == {t \in Recent : l[t].receiver = u /\ l[t].type = "DEPOSIT"}
           Saved   == {t \in Recent : l[t].sender = u /\ l[t].type = "VAULT_CONTRIBUTION"}
           Out     == Outgoings(l, u) \cap Since(Month(now) - 3)
           lines   == BudgetLines[u]
           within  == {line \in lines : line.spent <= line.limit}
           rate    == SavingsRatePoints(Total(l, In), Total(l, Saved))
           even    == VolatilityPoints(Cardinality(Busy), MapThenSumSet(MonthlyTotal, Busy),
                          MapThenSumSet(LAMBDA m : MonthlyTotal(m) * MonthlyTotal(m), Busy))
           kept    == AdherencePoints(Cardinality(within), Cardinality(lines))
           funds   == EmergencyPoints(savings, Total(l, Out))
<1>1. HealthScore(l, savings, u, now) = rate + even + kept + funds
  BY Zenon DEF HealthScore
<1>2. rate \in 0..30
  <2>1. In \in SUBSET DOMAIN l /\ Saved \in SUBSET DOMAIN l
    OBVIOUS
  <2> HIDE DEF In, Saved
  <2> QED
    BY <2>1, TotalNat, RatePoints
<1>3. even \in 0..20
  <2>1. Month(now) \in Int
    BY FiguresAssumption DEF Month
  <2>2. IsFiniteSet((Month(now) - 5)..Month(now))
    BY <2>1, FS_Interval
  <2>3. Busy \subseteq (Month(now) - 5)..Month(now)
    OBVIOUS
  <2> DEFINE s == MapThenSumSet(MonthlyTotal, Busy)
             q == MapThenSumSet(LAMBDA m : MonthlyTotal(m) * MonthlyTotal(m), Busy)
             n == Cardinality(Busy)
  <2>4. even = VolatilityPoints(n, s, q)
    OBVIOUS
  <2> HIDE DEF Busy
  <2>5. n \in Nat
    BY <2>2, <2>3, FS_Subset, FS_CardinalityType
  <2> HIDE DEF s, q, n, even
  <2> QED
    BY <2>4, <2>5, VolatilityInRange
<1>4. kept \in 0..30
  <2>1. IsFiniteSet(lines) /\ within \subseteq lines
    BY FiguresAssumption
  <2> HIDE DEF lines, within
  <2>2. /\ Cardinality(within) \in Nat /\ Cardinality(lines) \in Nat
        /\ Cardinality(within) <= Cardinality(lines)
    BY <2>1, FS_Subset, FS_CardinalityType
  <2> QED
    BY <2>2, AdherenceInRange
<1>5. funds \in 0..20
  <2>1. Out \in SUBSET DOMAIN l
    OBVIOUS
  <2> HIDE DEF Out
  <2>2. Total(l, Out) \in Nat
    BY <2>1, TotalNat
  <2> QED
    BY <2>2, EmergencyInRange
<1> HIDE DEF rate, even, kept, funds
<1> QED
  BY <1>1, <1>2, <1>3, <1>4, <1>5

-----------------------------------------------------------------------------
(* Transfers among users cancel out.                                       *)

\* The rows are a ledger.
LEMMA TxsAreLedger == TxsOK => Ledger(txs)
<1> SUFFICES ASSUME TxsOK PROVE Ledger(txs)
  OBVIOUS
<1>1. IsFiniteSet(TxIds) /\ DOMAIN txs \subseteq TxIds /\ \A t \in DOMAIN txs : txs[t] \in TxType
  BY FiguresAssumption DEF TxsOK
<1>2. \A t \in DOMAIN txs : txs[t].amount \in Nat
  BY <1>1 DEF TxType
<1>3. IsFiniteSet(DOMAIN txs)
  BY <1>1, FS_Subset
<1> QED
  BY <1>2, <1>3 DEF Ledger

\* What users sent or received in settled rows, summed user by user, is the sum
\* of these rows.
LEMMA UserByUser ==
    ASSUME NEW l, Ledger(l), NEW ids \in SUBSET DOMAIN l, NEW own,
           \A t \in ids : own[t] \in Users
    PROVE  SumFunctionOnSet([u \in Users |-> Total(l, {t \in ids : own[t] = u})], Users)
             = Total(l, ids)
<1> DEFINE f == [t \in DOMAIN l |-> l[t].amount]
           Of(u) == {t \in ids : own[t] = u}
<1>1. IsFiniteSet(ids) /\ IsFiniteSet(Users) /\ \A t \in ids : f[t] \in Int
  BY FS_Subset, FiguresAssumption DEF Ledger
<1>2. \A u \in Users : Total(l, Of(u)) = SumFunctionOnSet(f, Of(u))
  <2> TAKE u \in Users
  <2>1. Of(u) \in SUBSET DOMAIN l
    OBVIOUS
  <2> HIDE DEF Of
  <2> QED
    BY <2>1, TotalIsSum
<1>3. Total(l, ids) = SumFunctionOnSet(f, ids)
  BY TotalIsSum
<1>4. [u \in Users |-> Total(l, Of(u))] = [u \in Users |-> SumFunctionOnSet(f, Of(u))]
  <2> HIDE DEF Of, f
  <2> QED
    BY <1>2
<1>5. {t \in ids : own[t] \in Users} = ids
  OBVIOUS
<1> HIDE DEF f
<1>6. SumFunctionOnSet([u \in Users |-> SumFunctionOnSet(f, {t \in ids : own[t] = u})], Users)
        = SumFunctionOnSet(f, {t \in ids : own[t] \in Users})
  BY <1>1, SumByOwner
<1> QED
  BY <1>3, <1>4, <1>5, <1>6

LEMMA TransfersCancel == TxsOK => TransfersCancelOut
<1> SUFFICES ASSUME TxsOK, NEW m \in 0..Month(Days)
             PROVE  SumFunctionOnSet([u \in Users |-> NetCashFlow(FiguresOf(txs, u, m))], Users)
                      = Total(txs, {t \in DOMAIN txs : /\ txs[t].status = "COMPLETED"
                                                       /\ Month(txs[t].day) = m
                                                       /\ txs[t].type \in {"DEPOSIT"}})
                        - Total(txs, {t \in DOMAIN txs : /\ txs[t].status = "COMPLETED"
                                                         /\ Month(txs[t].day) = m
                                                         /\ txs[t].type \in {"WITHDRAWAL",
                                                               "CARD_PAYMENT", "SUBSCRIPTION_CHARGE"}})
  BY Zenon DEF TransfersCancelOut
<1> DEFINE Settled(types) == {t \in DOMAIN txs : /\ txs[t].status = "COMPLETED"
                                                 /\ Month(txs[t].day) = m
                                                 /\ txs[t].type \in types}
           outside == {"WITHDRAWAL", "CARD_PAYMENT", "SUBSCRIPTION_CHARGE"}
           between == {"P2P_TRANSFER"}
           sender   == [t \in DOMAIN txs |-> txs[t].sender]
           receiver == [t \in DOMAIN txs |-> txs[t].receiver]
           In(u)  == {t \in Settled(IncomeTypes) : receiver[t] = u}
           Out(u) == {t \in Settled(ExpenseTypes) : sender[t] = u}
           income   == [u \in Users |-> Total(txs, In(u))]
           expenses == [u \in Users |-> Total(txs, Out(u))]
<1>1. Ledger(txs)
  BY TxsAreLedger
<1>2. \A u \in Users : /\ FiguresOf(txs, u, m).income = Total(txs, In(u))
                       /\ FiguresOf(txs, u, m).expenses = Total(txs, Out(u))
  <2> TAKE u \in Users
  <2> DEFINE Mine == {t \in DOMAIN txs : /\ u \in {txs[t].sender, txs[t].receiver}
                                         /\ txs[t].status = "COMPLETED"
                                         /\ Month(txs[t].day) = m}
             MyIn  == {t \in Mine : txs[t].receiver = u /\ txs[t].type \in IncomeTypes}
             MyOut == {t \in Mine : txs[t].sender = u /\ txs[t].type \in ExpenseTypes}
  <2>1. MyIn = In(u) /\ MyOut = Out(u)
    OBVIOUS
  <2>2. /\ FiguresOf(txs, u, m).income = Total(txs, MyIn)
        /\ FiguresOf(txs, u, m).expenses = Total(txs, MyOut)
    BY DEF FiguresOf
  <2> HIDE DEF MyIn, MyOut, In, Out
  <2> QED
    BY <2>1, <2>2
<1>3. \A types : Settled(types) \in SUBSET DOMAIN txs
  OBVIOUS
<1>4. /\ SumFunctionOnSet(income, Users) = Total(txs, Settled(IncomeTypes))
      /\ SumFunctionOnSet(expenses, Users) = Total(txs, Settled(ExpenseTypes))
  <2>1. \A t \in Settled(IncomeTypes) : receiver[t] \in Users
    BY DEF TxsOK, IncomeTypes
  <2>2. \A t \in Settled(ExpenseTypes) : sender[t] \in Users
    BY DEF TxsOK, ExpenseTypes
  <2> HIDE DEF Settled, sender, receiver
  <2> QED
    BY <1>1, <1>3, <2>1, <2>2, UserByUser
<1>5. \A u \in Users : income[u] \in Nat /\ expenses[u] \in Nat
  <2> TAKE u \in Users
  <2>1. In(u) \in SUBSET DOMAIN txs /\ Out(u) \in SUBSET DOMAIN txs
    OBVIOUS
  <2> HIDE DEF In, Out
  <2> QED
    BY <1>1, <2>1, TotalNat
<1>6. SumFunctionOnSet([u \in Users |-> NetCashFlow(FiguresOf(txs, u, m))], Users)
        = SumFunctionOnSet(income, Users) - SumFunctionOnSet(expenses, Users)
  <2>1. [u \in Users |-> NetCashFlow(FiguresOf(txs, u, m))]
          = [u \in Users |-> income[u] - expenses[u]]
    <3>1. \A u \in Users : NetCashFlow(FiguresOf(txs, u, m)) = income[u] - expenses[u]
      <4> HIDE DEF In, Out
      <4> QED
        BY <1>2 DEF NetCashFlow
    <3> HIDE DEF income, expenses
    <3> QED
      BY <3>1
  <2>2. IsFiniteSet(Users)
    BY FiguresAssumption
  <2> HIDE DEF income, expenses
  <2>3. SumFunctionOnSet([u \in Users |-> income[u] - expenses[u]], Users)
          = SumFunctionOnSet(income, Users) - SumFunctionOnSet(expenses, Users)
    BY <1>5, <2>2, SumMinus
  <2> QED
    BY <2>1, <2>3, Zenon
<1>7. /\ Total(txs, Settled(IncomeTypes)) = Total(txs, Settled({"DEPOSIT"})) + Total(txs, Settled(between))
      /\ Total(txs, Settled(ExpenseTypes)) = Total(txs, Settled(outside)) + Total(txs, Settled(between))
  <2>1. /\ Settled(IncomeTypes) = Settled({"DEPOSIT"}) \cup Settled(between)
        /\ Settled({"DEPOSIT"}) \cap Settled(between) = {}
    BY DEF IncomeTypes
  <2>2. /\ Settled(ExpenseTypes) = Settled(outside) \cup Settled(between)
        /\ Settled(outside) \cap Settled(between) = {}
    BY DEF ExpenseTypes
  <2> HIDE DEF Settled, outside, between
  <2>3. /\ Total(txs, Settled({"DEPOSIT"}) \cup Settled(between))
             = Total(txs, Settled({"DEPOSIT"})) + Total(txs, Settled(between))
        /\ Total(txs, Settled(outside) \cup Settled(between))
             = Total(txs, Settled(outside)) + Total(txs, Settled(between))
    BY <1>1, <1>3, <2>1, <2>2, TotalUnion
  <2> QED
    BY <2>1, <2>2, <2>3
<1>8. /\ Total(txs, Settled({"DEPOSIT"})) \in Nat /\ Total(txs, Settled(between)) \in Nat
      /\ Total(txs, Settled(outside)) \in Nat
  <2> HIDE DEF Settled
  <2> QED
    BY <1>1, <1>3, TotalNat
<1>9. SumFunctionOnSet([u \in Users |-> NetCashFlow(FiguresOf(txs, u, m))], Users)
        = Total(txs, Settled({"DEPOSIT"})) - Total(txs, Settled(outside))
  <2> HIDE DEF Settled, income, expenses, outside, between
  <2> QED
    BY <1>4, <1>6, <1>7, <1>8
<1> QED
  BY <1>9

-----------------------------------------------------------------------------
(* The forecast.                                                           *)

\* A day that is not after now is of its month iff it is not before the first.
LEMMA MonthsAreIntervals ==
    ASSUME NEW day \in Nat, NEW now \in Nat, day <= now
    PROVE  /\ Month(now) \in Nat
           /\ FirstDay(Month(now)) <= now /\ now < FirstDay(Month(now)) + MonthDays
           /\ FirstDay(Month(now)) \in Nat
           /\ Month(day) = Month(now) <=> day >= FirstDay(Month(now))
<1> DEFINE d == MonthDays
           m == now \div d
           k == day \div d
<1>1. d \in Nat \ {0}
  BY FiguresAssumption
<1>2. m \in Nat /\ m * d <= now /\ now < m * d + d
  BY <1>1, DivIs
<1>3. k \in Nat /\ k * d <= day /\ day < k * d + d /\ k <= m
  BY <1>1, DivIs, DivGrows
<1> HIDE DEF d, m, k
<1>4. m * d \in Nat
  BY <1>1, <1>2
<1>5. k = m => day >= m * d
  BY <1>1, <1>2, <1>3
<1>6. day >= m * d => k = m
  <2> SUFFICES ASSUME day >= m * d, k # m PROVE FALSE
    OBVIOUS
  <2>1. k + 1 <= m
    BY <1>2, <1>3
  <2>2. (k + 1) * d <= m * d
    BY <1>1, <1>2, <1>3, <2>1
  <2>3. (k + 1) * d = k * d + d /\ k * d \in Nat
    BY <1>1, <1>3
  <2> QED
    BY <1>1, <1>3, <1>4, <2>2, <2>3
<1>7. Month(now) = m /\ Month(day) = k /\ FirstDay(Month(now)) = m * d
  BY DEF Month, FirstDay, m, k, d
<1> QED
  BY <1>2, <1>4, <1>5, <1>6, <1>7 DEF d

LEMMA RemainingIsBounded ==
    ASSUME NEW a \in Nat, NEW left \in 0..MonthDays
    PROVE  (a * left) \div WindowDays \in 0..((a * MonthDays) \div WindowDays)
<1>1. MonthDays \in Nat /\ WindowDays \in Nat \ {0}
  BY FiguresAssumption
<1>2. a * left \in Nat /\ a * MonthDays \in Nat /\ a * left <= a * MonthDays
  BY <1>1
<1> DEFINE x == a * left
           y == a * MonthDays
<1> HIDE DEF x, y
<1>3. x \in Nat /\ y \in Nat /\ x <= y
  BY <1>2 DEF x, y
<1>4. x \div WindowDays \in Nat /\ y \div WindowDays \in Nat /\ x \div WindowDays <= y \div WindowDays
  BY <1>1, <1>3, DivIs, DivGrows
<1>5. x \div WindowDays \in 0..(y \div WindowDays)
  BY <1>4
<1> QED
  BY <1>5 DEF x, y

LEMMA CategoriesAreFinite == IsFiniteSet(Categories)
<1> DEFINE S1 == {"TRANSPORT"} \cup {"SHOPPING"}
           S2 == {"TRANSFERS"} \cup {"SAVINGS"}
           S3 == {"SUBSCRIPTIONS"} \cup {"OTHER"}
<1>1. IsFiniteSet(S1) /\ IsFiniteSet(S2) /\ IsFiniteSet(S3)
  BY FS_Singleton, FS_Union
<1>2. Categories = (S1 \cup S2) \cup S3
  BY DEF Categories
<1> HIDE DEF S1, S2, S3
<1>3. IsFiniteSet((S1 \cup S2) \cup S3)
  BY <1>1, FS_Union
<1> QED
  BY <1>2, <1>3

LEMMA ForecastCovers == clock \in 0..Days /\ TxsOK => ForecastCoversMonth
<1> SUFFICES ASSUME clock \in 0..Days, TxsOK, NEW u \in Users
             PROVE  LET forecast == Forecast(txs, u, clock)
                        spent == {t \in Outgoings(txs, u) : Month(txs[t].day) = Month(clock)}
                        soFar == [c \in DOMAIN forecast |-> forecast[c].soFar]
                    IN /\ SumFunctionOnSet(soFar, DOMAIN forecast) = Total(txs, spent)
                       /\ \A c \in DOMAIN forecast : forecast[c].remaining \in 0..forecast[c].projected
  BY Zenon DEF ForecastCoversMonth
<1> DEFINE Since(c, day) == {t \in Outgoings(txs, u) : RowCategory(txs[t]) = c /\ txs[t].day >= day}
           In(c, day) == Total(txs, Since(c, day))
           first  == FirstDay(Month(clock))
           start  == WindowStart(clock)
           passed == IF clock = first THEN 1 ELSE clock - first
           dom    == {d \in Categories : In(d, start) > 0}
           spent  == {t \in Outgoings(txs, u) : Month(txs[t].day) = Month(clock)}
           category == [t \in DOMAIN txs |-> RowCategory(txs[t])]
           forecast == [c \in dom |->
               [projected |-> (In(c, start) * MonthDays) \div WindowDays,
                soFar     |-> In(c, first),
                remaining |-> (In(c, start) * (MonthDays - passed)) \div WindowDays]]
           soFar == [c \in dom |-> In(c, first)]
<1>1. Forecast(txs, u, clock) = forecast
  BY DEF Forecast
<1>2. Ledger(txs) /\ clock \in Nat /\ MonthDays \in Nat \ {0}
  BY TxsAreLedger, FiguresAssumption
<1>3. Outgoings(txs, u) \in SUBSET DOMAIN txs
  BY DEF Outgoings
<1>4. \A c, day : Since(c, day) \in SUBSET DOMAIN txs
  BY <1>3
<1>5. \A c, day : In(c, day) \in Nat
  <2> HIDE DEF Since
  <2> QED
    BY <1>2, <1>4, TotalNat
<1>6. \A t \in DOMAIN txs : txs[t].day \in Nat /\ txs[t].day <= clock /\ category[t] \in Categories
  <2> TAKE t \in DOMAIN txs
  <2>1. txs[t].day \in 0..Days /\ txs[t].day <= clock /\ txs[t].category \in Categories \cup {None}
    BY DEF TxsOK, TxType
  <2>2. txs[t].day \in Nat
    BY <2>1, FiguresAssumption
  <2> QED
    BY <2>1, <2>2 DEF RowCategory, Categories
<1>7. first \in Nat /\ first <= clock /\ clock < first + MonthDays /\ start <= first /\ start \in Int
  <2> HIDE DEF first, start
  <2>1. first \in Nat /\ first <= clock /\ clock < first + MonthDays
    BY <1>2, MonthsAreIntervals DEF first
  <2>2. start = clock - WindowDays
    BY DEF start, WindowStart
  <2> QED
    BY <1>2, <2>1, <2>2, FiguresAssumption
<1>8. ASSUME NEW c \in dom PROVE forecast[c].remaining \in 0..forecast[c].projected
  <2>1. MonthDays - passed \in 0..MonthDays
    <3> HIDE DEF first
    <3> QED
      BY <1>2, <1>7
  <2>2. In(c, start) \in Nat
    BY <1>5
  <2>3. /\ forecast[c].remaining = (In(c, start) * (MonthDays - passed)) \div WindowDays
        /\ forecast[c].projected = (In(c, start) * MonthDays) \div WindowDays
    OBVIOUS
  <2> HIDE DEF In, passed, start, forecast
  <2> QED
    BY <2>1, <2>2, <2>3, RemainingIsBounded
<1>9. SumFunctionOnSet(soFar, dom) = Total(txs, spent)
  <2> DEFINE all == [c \in Categories |-> In(c, first)]
  <2>1. \A c : Since(c, first) = {t \in spent : category[t] = c}
    <3>1. \A t \in Outgoings(txs, u) : Month(txs[t].day) = Month(clock) <=> txs[t].day >= first
      <4> HIDE DEF first
      <4> QED
        BY <1>2, <1>3, <1>6, MonthsAreIntervals DEF first
    <3> HIDE DEF first
    <3> QED
      BY <1>3, <3>1
  <2>2. SumFunctionOnSet(all, Categories) = Total(txs, spent)
    <3>1. spent \in SUBSET DOMAIN txs /\ \A t \in spent : category[t] \in Categories
      BY <1>3, <1>6
    <3>2. IsFiniteSet(Categories)
      BY CategoriesAreFinite
    <3> DEFINE f == [t \in DOMAIN txs |-> txs[t].amount]
               Of(c) == {t \in spent : category[t] = c}
    <3>3. IsFiniteSet(spent) /\ \A t \in spent : f[t] \in Int
      BY <1>2, <3>1, FS_Subset DEF Ledger
    <3>4. \A c \in Categories : In(c, first) = SumFunctionOnSet(f, Of(c))
      <4> TAKE c \in Categories
      <4>1. Of(c) \in SUBSET DOMAIN txs /\ Since(c, first) = Of(c)
        BY <2>1, <3>1
      <4> HIDE DEF Of, Since, f
      <4> QED
        BY <1>2, <4>1, TotalIsSum DEF f
    <3>5. all = [c \in Categories |-> SumFunctionOnSet(f, Of(c))]
      <4> HIDE DEF In, Of, f
      <4> QED
        BY <3>4
    <3>6. {t \in spent : category[t] \in Categories} = spent
      BY <3>1
    <3>7. Total(txs, spent) = SumFunctionOnSet(f, spent)
      BY <1>2, <3>1, TotalIsSum
    <3> HIDE DEF f, all, spent, category
    <3>8. SumFunctionOnSet([c \in Categories |-> SumFunctionOnSet(f, {t \in spent : category[t] = c})],
                           Categories)
            = SumFunctionOnSet(f, {t \in spent : category[t] \in Categories})
      BY <3>2, <3>3, SumByOwner
    <3> QED
      BY <3>5, <3>6, <3>7, <3>8
  <2>3. \A c \in Categories \ dom : all[c] = 0
    <3> TAKE c \in Categories \ dom
    <3>1. Since(c, first) \in SUBSET Since(c, start)
      <4> HIDE DEF first, start
      <4> QED
        BY <1>3, <1>6, <1>7
    <3>2. In(c, first) <= In(c, start) /\ ~ (In(c, start) > 0) /\ In(c, first) \in Nat /\ In(c, start) \in Nat
      <4>1. Since(c, start) \in SUBSET DOMAIN txs
        BY <1>4
      <4>2. ~ (In(c, start) > 0)
        OBVIOUS
      <4>3. In(c, first) \in Nat /\ In(c, start) \in Nat
        BY <1>5
      <4> HIDE DEF Since, first, start
      <4>4. In(c, first) <= In(c, start)
        BY <1>2, <3>1, <4>1, TotalOfPart
      <4> QED
        BY <4>2, <4>3, <4>4
    <3>3. all[c] = In(c, first)
      OBVIOUS
    <3> HIDE DEF In, all, dom
    <3> QED
      BY <3>2, <3>3
  <2>4. \A c \in Categories : all[c] \in Int
    <3> HIDE DEF In
    <3> QED
      BY <1>5
  <2>5. dom \in SUBSET Categories /\ IsFiniteSet(Categories)
    BY CategoriesAreFinite
  <2>6. IsFiniteSet(dom) /\ \A c \in dom : soFar[c] = all[c]
    <3>1. \A c \in dom : soFar[c] = all[c]
      OBVIOUS
    <3> HIDE DEF dom
    <3> QED
      BY <2>5, <3>1, FS_Subset
  <2> HIDE DEF all, dom, soFar, spent
  <2>7. SumFunctionOnSet(soFar, dom) = SumFunctionOnSet(all, dom)
    BY <2>6, SumSame
  <2>8. SumFunctionOnSet(all, dom) = SumFunctionOnSet(all, Categories)
    BY <2>3, <2>4, <2>5, SumOfNonzero
  <2> QED
    BY <2>2, <2>7, <2>8
<1>10. DOMAIN forecast = dom /\ \A c \in dom : forecast[c].soFar = soFar[c]
  BY DEF soFar
<1>11. [c \in DOMAIN forecast |-> forecast[c].soFar] = soFar
  <2> HIDE DEF forecast, dom, In
  <2> QED
    BY <1>10 DEF soFar
<1> HIDE DEF forecast, soFar, dom, spent
<1>12. /\ SumFunctionOnSet([c \in DOMAIN forecast |-> forecast[c].soFar], DOMAIN forecast)
           = Total(txs, spent)
      /\ \A c \in DOMAIN forecast : forecast[c].remaining \in 0..forecast[c].projected
  BY <1>8, <1>9, <1>10, <1>11
<1> QED
  BY <1>1, <1>12 DEF spent

-----------------------------------------------------------------------------
(* The steps of a run that is under way.                                   *)

\* A run with its fields.
Run(body, pc, todo, month, figures, half, got, found, day, served, failed) ==
    [body |-> body, pc |-> pc, todo |-> todo, month |-> month, figures |-> figures,
     half |-> half, got |-> got, found |-> found, day |-> day, served |-> served,
     failed |-> failed]

LocalOK(r, x) == RunOK(x) /\ FlowOK(x) /\ FoundOK(r, x) /\ NightOK(x)

\* Run r becomes x, and the others stay.
Becomes(r, x) ==
    /\ DOMAIN run' = Runs /\ run'[r] = x
    /\ \A s \in Runs \ {r} : run'[s] = run[s]

Moves(r, x) ==
    /\ Active(r) /\ Becomes(r, x) /\ x.body = run[r].body
    /\ clock' = clock /\ entangled' = entangled /\ faults' \in faults..MaxFaults

LEMMA RunFields ==
    ASSUME RunsOK, NEW r \in Runs
    PROVE  LET x == run[r] IN
           x = Run(x.body, x.pc, x.todo, x.month, x.figures, x.half, x.got, x.found, x.day,
                   x.served, x.failed)
BY DEF RunsOK, RunOK, Run


\* The ways a run changes.
LEMMA ToPc ==
    ASSUME RunsOK, NEW r \in Runs, NEW pc,
           run' = [run EXCEPT ![r].pc = pc]
    PROVE  LET o == run[r] IN
           Becomes(r, Run(o.body, pc, o.todo, o.month, o.figures, o.half,
                          o.got, o.found, o.day, o.served, o.failed))
<1>1. PICK o : o = run[r]
  OBVIOUS
<1>2. o = Run(o.body, o.pc, o.todo, o.month, o.figures, o.half, o.got, o.found, o.day,
              o.served, o.failed)
  BY <1>1, RunFields
<1>3. DOMAIN run = Runs
  BY DEF RunsOK
<1> QED
  BY <1>1, <1>2, <1>3 DEF Becomes, Run

LEMMA ToPcMonth ==
    ASSUME RunsOK, NEW r \in Runs, NEW pc, NEW month,
           run' = [run EXCEPT ![r].pc = pc, ![r].month = month]
    PROVE  LET o == run[r] IN
           Becomes(r, Run(o.body, pc, o.todo, month, o.figures, o.half,
                          o.got, o.found, o.day, o.served, o.failed))
<1>1. PICK o : o = run[r]
  OBVIOUS
<1>2. o = Run(o.body, o.pc, o.todo, o.month, o.figures, o.half, o.got, o.found, o.day,
              o.served, o.failed)
  BY <1>1, RunFields
<1>3. DOMAIN run = Runs
  BY DEF RunsOK
<1> QED
  BY <1>1, <1>2, <1>3 DEF Becomes, Run

LEMMA ToPcFigures ==
    ASSUME RunsOK, NEW r \in Runs, NEW pc, NEW month, NEW figures,
           run' = [run EXCEPT ![r].pc = pc, ![r].month = month, ![r].figures = figures]
    PROVE  LET o == run[r] IN
           Becomes(r, Run(o.body, pc, o.todo, month, figures, o.half,
                          o.got, o.found, o.day, o.served, o.failed))
<1>1. PICK o : o = run[r]
  OBVIOUS
<1>2. o = Run(o.body, o.pc, o.todo, o.month, o.figures, o.half, o.got, o.found, o.day,
              o.served, o.failed)
  BY <1>1, RunFields
<1>3. DOMAIN run = Runs
  BY DEF RunsOK
<1> QED
  BY <1>1, <1>2, <1>3 DEF Becomes, Run

LEMMA ToPcFound ==
    ASSUME RunsOK, NEW r \in Runs, NEW pc, NEW found,
           run' = [run EXCEPT ![r].pc = pc, ![r].found = found]
    PROVE  LET o == run[r] IN
           Becomes(r, Run(o.body, pc, o.todo, o.month, o.figures, o.half,
                          o.got, found, o.day, o.served, o.failed))
<1>1. PICK o : o = run[r]
  OBVIOUS
<1>2. o = Run(o.body, o.pc, o.todo, o.month, o.figures, o.half, o.got, o.found, o.day,
              o.served, o.failed)
  BY <1>1, RunFields
<1>3. DOMAIN run = Runs
  BY DEF RunsOK
<1> QED
  BY <1>1, <1>2, <1>3 DEF Becomes, Run

LEMMA ToPcDay ==
    ASSUME RunsOK, NEW r \in Runs, NEW pc, NEW day,
           run' = [run EXCEPT ![r].pc = pc, ![r].day = day]
    PROVE  LET o == run[r] IN
           Becomes(r, Run(o.body, pc, o.todo, o.month, o.figures, o.half,
                          o.got, o.found, day, o.served, o.failed))
<1>1. PICK o : o = run[r]
  OBVIOUS
<1>2. o = Run(o.body, o.pc, o.todo, o.month, o.figures, o.half, o.got, o.found, o.day,
              o.served, o.failed)
  BY <1>1, RunFields
<1>3. DOMAIN run = Runs
  BY DEF RunsOK
<1> QED
  BY <1>1, <1>2, <1>3 DEF Becomes, Run

LEMMA ToPcGot ==
    ASSUME RunsOK, NEW r \in Runs, NEW pc, NEW k, NEW figures,
           run' = [run EXCEPT ![r].pc = pc, ![r].got[k] = figures]
    PROVE  LET o == run[r] IN
           Becomes(r, Run(o.body, pc, o.todo, o.month, o.figures, o.half,
                          [o.got EXCEPT ![k] = figures], o.found, o.day, o.served, o.failed))
<1>1. PICK o : o = run[r]
  OBVIOUS
<1>2. o = Run(o.body, o.pc, o.todo, o.month, o.figures, o.half, o.got, o.found, o.day,
              o.served, o.failed)
  BY <1>1, RunFields
<1>3. DOMAIN run = Runs
  BY DEF RunsOK
<1> QED
  BY <1>1, <1>2, <1>3 DEF Becomes, Run

LEMMA ToHalf ==
    ASSUME RunsOK, NEW r \in Runs, NEW stage, NEW k, NEW figures,
           run' = [run EXCEPT ![r].half[k] = stage, ![r].got[k] = figures]
    PROVE  LET o == run[r] IN
           Becomes(r, Run(o.body, o.pc, o.todo, o.month, o.figures, [o.half EXCEPT ![k] = stage],
                          [o.got EXCEPT ![k] = figures], o.found, o.day, o.served, o.failed))
<1>1. PICK o : o = run[r]
  OBVIOUS
<1>2. o = Run(o.body, o.pc, o.todo, o.month, o.figures, o.half, o.got, o.found, o.day,
              o.served, o.failed)
  BY <1>1, RunFields
<1>3. DOMAIN run = Runs
  BY DEF RunsOK
<1> QED
  BY <1>1, <1>2, <1>3 DEF Becomes, Run

LEMMA ToTodo ==
    ASSUME RunsOK, NEW r \in Runs, NEW pc, NEW todo, NEW month,
           run' = [run EXCEPT ![r].pc = pc, ![r].todo = todo, ![r].month = month]
    PROVE  LET o == run[r] IN
           Becomes(r, Run(o.body, pc, todo, month, o.figures, o.half,
                          o.got, o.found, o.day, o.served, o.failed))
<1>1. PICK o : o = run[r]
  OBVIOUS
<1>2. o = Run(o.body, o.pc, o.todo, o.month, o.figures, o.half, o.got, o.found, o.day,
              o.served, o.failed)
  BY <1>1, RunFields
<1>3. DOMAIN run = Runs
  BY DEF RunsOK
<1> QED
  BY <1>1, <1>2, <1>3 DEF Becomes, Run

LEMMA ToFresh ==
    ASSUME RunsOK, NEW r \in Runs, NEW pc, NEW todo, NEW served, NEW failed,
           run' = [run EXCEPT ![r] = [Fresh(run[r].body) EXCEPT
                      !.pc = pc, !.todo = todo, !.served = served, !.failed = failed]]
    PROVE  Becomes(r, Run(run[r].body, pc, todo, 0, NoFigures, <<"find", "find">>,
                          <<NoFigures, NoFigures>>, {}, 0, served, failed))
<1>1. PICK o : o = run[r]
  OBVIOUS
<1>2. DOMAIN run = Runs
  BY DEF RunsOK
<1>3. Fresh(o.body) = Run(o.body, "idle", <<>>, 0, NoFigures, <<"find", "find">>,
                          <<NoFigures, NoFigures>>, {}, 0, {}, {})
  BY DEF Fresh, Run
<1>4. PICK f : f = Fresh(o.body)
  OBVIOUS
<1>5. PICK x : x = [f EXCEPT !.pc = pc, !.todo = todo, !.served = served, !.failed = failed]
  OBVIOUS
<1>6. x = Run(o.body, pc, todo, 0, NoFigures, <<"find", "find">>,
              <<NoFigures, NoFigures>>, {}, 0, served, failed)
  <2>1. PICK half : half = <<"find", "find">>
    OBVIOUS
  <2>2. PICK got : got = <<NoFigures, NoFigures>>
    OBVIOUS
  <2>3. PICK figures : figures = NoFigures
    OBVIOUS
  <2>4. f = Run(o.body, "idle", <<>>, 0, figures, half, got, {}, 0, {}, {})
    BY <1>3, <1>4, <2>1, <2>2, <2>3
  <2>5. x = Run(o.body, pc, todo, 0, figures, half, got, {}, 0, served, failed)
    BY <1>5, <2>4 DEF Run
  <2> QED
    BY <2>1, <2>2, <2>3, <2>5
<1>7. run' = [run EXCEPT ![r] = x]
  BY <1>1, <1>4, <1>5
<1>8. Becomes(r, x)
  BY <1>2, <1>7 DEF Becomes
<1> QED
  BY <1>1, <1>6, <1>8

\* A run's todo, first the user it is at.
LEMMA HeadAndTail ==
    ASSUME NEW T, NEW s \in Seq(T), s # <<>>
    PROVE  /\ Head(s) \in T /\ Tail(s) \in Seq(T)
           /\ Range(s) = {Head(s)} \cup Range(Tail(s))
<1>1. Len(s) \in Nat \ {0} /\ s \in [1..Len(s) -> T]
  OBVIOUS
<1>2. Head(s) \in T /\ Tail(s) \in Seq(T)
  OBVIOUS
<1>3. /\ Head(s) = s[1] /\ Len(Tail(s)) = Len(s) - 1
      /\ \A i \in 1..(Len(s) - 1) : Tail(s)[i] = s[i + 1]
  OBVIOUS
<1>4. DOMAIN s = 1..Len(s) /\ DOMAIN Tail(s) = 1..(Len(s) - 1)
  BY <1>1, <1>2, <1>3
<1>5. ASSUME NEW v \in Range(s) PROVE v \in {Head(s)} \cup Range(Tail(s))
  <2>1. PICK i \in 1..Len(s) : v = s[i]
    BY <1>4 DEF Range
  <2>2. CASE i = 1
    BY <1>3, <2>1, <2>2
  <2>3. CASE i # 1
    <3>1. i - 1 \in 1..(Len(s) - 1)
      BY <1>1, <2>1, <2>3
    <3>2. Tail(s)[i - 1] = s[(i - 1) + 1]
      BY <1>3, <3>1
    <3>3. (i - 1) + 1 = i
      BY <2>1
    <3> QED
      BY <1>4, <2>1, <3>1, <3>2, <3>3 DEF Range
  <2> QED
    BY <2>2, <2>3
<1>6. ASSUME NEW v \in {Head(s)} \cup Range(Tail(s)) PROVE v \in Range(s)
  <2>1. CASE v = Head(s)
    <3>1. 1 \in 1..Len(s)
      BY <1>1
    <3> QED
      BY <1>3, <1>4, <2>1, <3>1 DEF Range
  <2>2. CASE v \in Range(Tail(s))
    <3>1. PICK i \in 1..(Len(s) - 1) : v = Tail(s)[i]
      BY <1>4, <2>2 DEF Range
    <3>2. v = s[i + 1] /\ i + 1 \in 1..Len(s)
      BY <1>1, <1>3, <3>1
    <3> QED
      BY <1>4, <3>2 DEF Range
  <2> QED
    BY <1>6, <2>1, <2>2
<1> QED
  BY <1>2, <1>5, <1>6

LEMMA NoFiguresTyped == NoFigures \in FiguresType
<1>1. Ledger(<<>>)
  <2>1. DOMAIN <<>> = {}
    OBVIOUS
  <2> QED
    BY <2>1, FS_EmptySet DEF Ledger
<1> QED
  BY <1>1, FiguresAreTyped DEF NoFigures

\* A run whose fields are of their types is one.
LEMMA TypedRun ==
    ASSUME NEW body \in Bodies, NEW pc \in Pcs, NEW todo \in Seq(Users), NEW month \in 0..Month(Days),
           NEW figures \in FiguresType, NEW half \in [1..2 -> {"find", "read", "put", "got"}],
           NEW got \in [1..2 -> FiguresType], NEW found, NEW day \in 0..clock',
           NEW served, NEW failed
    PROVE  RunOK(Run(body, pc, todo, month, figures, half, got, found, day, served, failed))'
<1>1. PICK x : x = Run(body, pc, todo, month, figures, half, got, found, day, served, failed)
  OBVIOUS
<1>2. /\ x.body = body /\ x.pc = pc /\ x.todo = todo /\ x.month = month
      /\ x.figures = figures /\ x.half = half /\ x.got = got /\ x.found = found
      /\ x.day = day /\ x.served = served /\ x.failed = failed
  BY <1>1 DEF Run
<1>3. x = Run(x.body, x.pc, x.todo, x.month, x.figures, x.half, x.got, x.found, x.day,
              x.served, x.failed)
  BY <1>1, <1>2
<1>4. RunOK(x)'
  BY <1>2, <1>3 DEF RunOK, Run
<1> QED
  BY <1>1, <1>4

LEMMA FreshRun ==
    ASSUME NEW body \in Bodies, NEW pc \in Pcs, NEW todo \in Seq(Users), clock' \in Nat,
           NEW served, NEW failed
    PROVE  RunOK(Run(body, pc, todo, 0, NoFigures, <<"find", "find">>, <<NoFigures, NoFigures>>,
                     {}, 0, served, failed))'
<1>1. <<"find", "find">> \in [1..2 -> {"find", "read", "put", "got"}]
  OBVIOUS
<1>2. <<NoFigures, NoFigures>> \in [1..2 -> FiguresType]
  <2>1. PICK f \in FiguresType : f = NoFigures
    BY NoFiguresTyped
  <2>2. <<f, f>> \in [1..2 -> FiguresType]
    OBVIOUS
  <2> QED
    BY <2>1, <2>2
<1>3. 0 \in 0..Month(Days) /\ 0 \in 0..clock'
  <2>1. Month(Days) \in Nat
    BY FiguresAssumption, MonthsAreIntervals
  <2> QED
    BY <2>1
<1> QED
  BY <1>1, <1>2, <1>3, NoFiguresTyped, TypedRun

\* Going on with the next user leaves a run in order.
LEMMA NextUserMoves ==
    ASSUME RunsOK, NightsOK, clock \in Nat, clock' = clock, faults' = faults,
           NEW r \in Runs, Active(r), NEW left \in {"curRead", "spot", "done"}, NextUser(r, left),
           run[r].body.kind = "NIGHT" => left = "curRead",
           run[r].body.kind = "HOURLY" <=> left = "spot"
    PROVE  \E x : /\ Becomes(r, x) /\ x.body = run[r].body
                  /\ x.pc \in {"curRead", "spot", "done"} /\ LocalOK(r, x)'
<1>1. PICK o : o = run[r]
  OBVIOUS
<1>2. /\ o.body \in Bodies /\ o.todo \in Seq(Users) /\ o.todo # <<>> /\ NightOK(o)
      /\ o.pc \notin {"idle", "done"}
      /\ o.body.kind = "NIGHT" => o.pc \in NightSteps
  BY <1>1 DEF RunsOK, RunOK, FlowOK, NightsOK, Active, At
<1>3. PICK u, rest : u = Head(o.todo) /\ rest = Tail(o.todo)
  OBVIOUS
<1>4. rest \in Seq(Users) /\ Range(o.todo) = {u} \cup Range(rest)
  BY <1>2, <1>3, HeadAndTail
<1>5. PICK pc : pc = IF rest = <<>> THEN "done" ELSE left
  OBVIOUS
<1>6. PICK served : served = o.served \cup {u}
  OBVIOUS
<1>7. PICK x : x = Run(o.body, pc, rest, 0, NoFigures, <<"find", "find">>,
                       <<NoFigures, NoFigures>>, {}, 0, served, o.failed)
  OBVIOUS
<1>8. Becomes(r, x)
  <2>1. run' = [run EXCEPT ![r] = [Fresh(run[r].body) EXCEPT
                   !.pc = pc, !.todo = rest, !.served = served, !.failed = o.failed]]
    BY <1>1, <1>3, <1>5, <1>6 DEF NextUser, User
  <2> QED
    BY <1>1, <1>7, <2>1, ToFresh
<1>9. /\ x.body = o.body /\ x.pc = pc /\ x.todo = rest /\ x.found = {} /\ x.served = served
      /\ x.failed = o.failed
  BY <1>7 DEF Run
<1>10. RunOK(x)'
  <2>1. pc \in Pcs
    BY <1>5 DEF Pcs, NightSteps, HourSteps
  <2> QED
    BY <1>2, <1>4, <1>7, <2>1, FreshRun
<1>11. FlowOK(x)' /\ FoundOK(r, x)'
  <2>1. x.half = <<"find", "find">>
    BY <1>7 DEF Run
  <2>2. x.half \in [1..2 -> {"find", "got"}]
    BY <2>1
  <2> QED
    BY <1>1, <1>5, <1>9, <2>2 DEF FlowOK, FoundOK, NightSteps, HourSteps, RowSteps
<1>12. NightOK(x)'
  <2>1. rest = <<>> => Range(rest) = {}
    BY DEF Range
  <2>2. IsFiniteSet(x.failed) /\ Cardinality(x.failed) <= faults' /\ x.pc # "idle"
    BY <1>2, <1>5, <1>9 DEF NightOK
  <2>3. ASSUME x.body.kind = "NIGHT"
        PROVE  /\ x.pc = "done" => x.served \cup x.failed = ActiveUsers
               /\ x.pc \in NightSteps => x.served \cup x.failed \cup Range(x.todo) = ActiveUsers
    <3>1. o.served \cup o.failed \cup Range(o.todo) = ActiveUsers
      BY <1>2, <1>9, <2>3 DEF NightOK
    <3>2. x.served \cup x.failed \cup Range(x.todo) = ActiveUsers
      BY <1>4, <1>6, <1>9, <3>1
    <3>3. x.pc = "done" => rest = <<>>
      BY <1>1, <1>5, <1>9, <2>3
    <3> QED
      BY <1>9, <2>1, <3>2, <3>3
  <2> QED
    BY <2>2, <2>3 DEF NightOK
<1>13. x.pc \in {"curRead", "spot", "done"}
  BY <1>5, <1>9
<1> QED
  BY <1>1, <1>8, <1>9, <1>10, <1>11, <1>12, <1>13 DEF LocalOK

-----------------------------------------------------------------------------
(* A step of one run, and what it leaves to the others.                    *)

WellMoved(r) ==
    \E x : Moves(r, x) /\ LocalOK(r, x)' /\ (r \notin entangled => Known(r)')

RunsInv == RunsOK /\ NightsOK /\ Alone /\ KnownAlone

\* A run in order stays so while others move.
LEMMA LocalStays ==
    ASSUME NEW r, NEW x, LocalOK(r, x), clock \in Nat, clock' \in Nat, clock <= clock',
           faults \in Nat, faults' \in Nat, faults <= faults'
    PROVE  LocalOK(r, x)'
<1>1. \A i : InsightOK(i) => InsightOK(i)'
  BY DEF InsightOK
<1>2. RunOK(x)' /\ FlowOK(x)'
  BY DEF LocalOK, RunOK, FlowOK
<1>3. FoundOK(r, x)'
  BY <1>1 DEF LocalOK, FoundOK
<1>4. NightOK(x)'
  <2>1. IsFiniteSet(x.failed) /\ Cardinality(x.failed) <= faults
    BY DEF LocalOK, NightOK
  <2>2. Cardinality(x.failed) <= faults'
    BY <2>1, FS_CardinalityType
  <2> QED
    BY <2>1, <2>2 DEF LocalOK, NightOK
<1> QED
  BY <1>2, <1>3, <1>4 DEF LocalOK

\* If each run is in order, all are.
LEMMA AllLocal ==
    ASSUME DOMAIN run' = Runs, \A s \in Runs : \E y : y = run'[s] /\ LocalOK(s, y)'
    PROVE  RunsOK' /\ NightsOK'
<1>1. ASSUME NEW s \in Runs PROVE (RunOK(run[s]) /\ FlowOK(run[s]) /\ FoundOK(s, run[s]) /\ NightOK(run[s]))'
  <2>1. PICK y : y = run'[s] /\ LocalOK(s, y)'
    OBVIOUS
  <2>2. RunOK(y)' /\ FlowOK(y)' /\ FoundOK(s, y)' /\ NightOK(y)'
    BY <2>1 DEF LocalOK
  <2>3. RunOK(run[s])'
    BY <2>1, <2>2 DEF RunOK
  <2>4. FlowOK(run[s])'
    BY <2>1, <2>2 DEF FlowOK
  <2>5. FoundOK(s, run[s])'
    BY <2>1, <2>2 DEF FoundOK
  <2>6. NightOK(run[s])'
    BY <2>1, <2>2 DEF NightOK
  <2> QED
    BY <2>3, <2>4, <2>5, <2>6
<1> QED
  BY <1>1 DEF RunsOK, NightsOK

\* A step of run r: the others are as they were, and what an undisturbed run
\* knows is its own.
LEMMA MoveKeeps ==
    ASSUME TablesOK, RunsInv, NEW r \in Runs, WellMoved(r)
    PROVE  RunsInv'
<1>1. PICK x : Moves(r, x) /\ LocalOK(r, x)' /\ (r \notin entangled => Known(r)')
  BY DEF WellMoved
<1>2. /\ DOMAIN run' = Runs /\ run'[r] = x /\ (\A s \in Runs \ {r} : run'[s] = run[s])
      /\ clock' = clock /\ entangled' = entangled /\ faults' \in faults..MaxFaults /\ Active(r)
  BY <1>1 DEF Moves, Becomes
<1>3. clock \in Nat /\ faults \in Nat /\ faults' \in Nat /\ faults <= faults'
  BY <1>2, FiguresAssumption, SnapshotsAssumption DEF TablesOK
<1>4. ASSUME NEW s \in Runs PROVE \E y : y = run'[s] /\ LocalOK(s, y)'
  <2>1. CASE s = r
    BY <1>1, <1>2, <2>1
  <2>2. CASE s # r
    <3>1. PICK y : y = run[s]
      OBVIOUS
    <3>2. LocalOK(s, y)
      BY <3>1 DEF RunsInv, RunsOK, NightsOK, LocalOK
    <3>3. LocalOK(s, y)'
      BY <1>2, <1>3, <3>2, LocalStays
    <3> QED
      BY <1>2, <2>2, <3>1, <3>3
  <2> QED
    BY <2>1, <2>2
<1>5. RunsOK' /\ NightsOK'
  BY <1>2, <1>4, AllLocal
<1>6. ASSUME NEW s \in Runs, s # r, Undisturbed(s)' PROVE FALSE
  <2>1. Undisturbed(s)
    BY <1>2, <1>6 DEF Undisturbed, Active
  <2> QED
    BY <1>2, <1>6, <2>1 DEF RunsInv, Alone
<1>7. Alone'
  <2>1. SUFFICES ASSUME Undisturbed(r)', NEW s \in Runs \ {r}, Active(s)' PROVE FALSE
    BY <1>6 DEF Alone
  <2>2. Undisturbed(r) /\ Active(s)
    BY <1>2, <2>1 DEF Undisturbed, Active
  <2> QED
    BY <2>2 DEF RunsInv, Alone
<1>8. KnownAlone'
  <2>1. Undisturbed(r)' => Known(r)'
    BY <1>1, <1>2 DEF Undisturbed
  <2> QED
    BY <1>6, <2>1 DEF KnownAlone
<1> QED
  BY <1>5, <1>7, <1>8 DEF RunsInv

-----------------------------------------------------------------------------
(* The nightly job and the dashboard, step by step.                        *)

LEMMA Bounds ==
    ASSUME TablesOK
    PROVE  /\ clock \in Nat /\ faults \in Nat /\ MaxFaults \in Nat /\ faults <= MaxFaults
           /\ faults \in faults..MaxFaults /\ Month(clock) \in 0..Month(Days)
<1>1. clock \in Nat /\ faults \in Nat /\ MaxFaults \in Nat /\ faults <= MaxFaults
  BY FiguresAssumption, SnapshotsAssumption DEF TablesOK
<1>2. Month(clock) \in 0..Month(Days)
  <2>1. Days \in Nat /\ clock <= Days /\ MonthDays \in Nat \ {0}
    BY FiguresAssumption DEF TablesOK
  <2>2. /\ clock \div MonthDays \in Nat /\ Days \div MonthDays \in Nat
        /\ clock \div MonthDays <= Days \div MonthDays
    BY <1>1, <2>1, DivIs, DivGrows
  <2> QED
    BY <2>2 DEF Month
<1> QED
  BY <1>1, <1>2

\* The types of a run's fields, and its other parts.
LEMMA FieldsOf ==
    ASSUME NEW r, NEW o, LocalOK(r, o), clock' = clock
    PROVE  /\ o.body \in Bodies /\ o.pc \in Pcs /\ o.todo \in Seq(Users) /\ o.month \in 0..Month(Days)
           /\ o.figures \in FiguresType /\ o.half \in [1..2 -> {"find", "read", "put", "got"}]
           /\ o.got \in [1..2 -> FiguresType] /\ o.day \in 0..clock'
           /\ FlowOK(o) /\ FoundOK(r, o) /\ NightOK(o)
BY DEF LocalOK, RunOK

\* On to another step, with what is in memory.
LEMMA GoToMoves ==
    ASSUME TablesOK, RunsInv, NEW r \in Runs, NEW pc \in NightSteps \ {"gather"}, GoTo(r, pc),
           clock' = clock, entangled' = entangled, faults' = faults,
           run[r].pc \in NightSteps, run[r].half \in [1..2 -> {"find", "got"}],
           pc \in RowSteps => run[r].pc \in RowSteps
    PROVE  \E x : /\ Moves(r, x) /\ LocalOK(r, x)' /\ x.pc = pc
                  /\ x.todo = run[r].todo /\ x.month = run[r].month /\ x.half = run[r].half
<1>1. PICK o : o = run[r]
  OBVIOUS
<1>2. RunsOK /\ LocalOK(r, o) /\ Active(r)
  BY <1>1 DEF RunsInv, RunsOK, NightsOK, LocalOK, Active, At, NightSteps
<1>3. PICK x : x = Run(o.body, pc, o.todo, o.month, o.figures, o.half, o.got, o.found, o.day,
                       o.served, o.failed)
  OBVIOUS
<1>4. Becomes(r, x)
  BY <1>1, <1>2, <1>3, ToPc DEF GoTo
<1>5. /\ x.body = o.body /\ x.pc = pc /\ x.todo = o.todo /\ x.month = o.month
      /\ x.half = o.half /\ x.found = o.found /\ x.served = o.served /\ x.failed = o.failed
  BY <1>3 DEF Run
<1>6. RunOK(x)'
  <2>1. pc \in Pcs
    BY DEF Pcs
  <2> QED
    BY <1>2, <1>3, <2>1, FieldsOf, TypedRun
<1>7. FlowOK(x)'
  BY <1>1, <1>2, <1>5 DEF LocalOK, FlowOK, NightSteps, HourSteps
<1>8. FoundOK(r, x)'
  <2>1. \A i : InsightOK(i) => InsightOK(i)'
    BY DEF InsightOK
  <2> QED
    BY <1>1, <1>2, <1>5, <2>1 DEF LocalOK, FoundOK, NightSteps
<1>9. NightOK(x)'
  BY <1>1, <1>2, <1>5 DEF LocalOK, NightOK, NightSteps
<1>10. faults' \in faults..MaxFaults
  BY Bounds
<1> QED
  BY <1>1, <1>2, <1>4, <1>5, <1>6, <1>7, <1>8, <1>9, <1>10 DEF Moves, LocalOK

\* What run r knows is about its own fields.
LEMMA KnownOf ==
    ASSUME NEW r, NEW x, run'[r] = x, clock' = clock,
           x.pc \in MonthSteps => x.month = Month(clock),
           x.pc \in {"lastRead", "lastWrite"} => ~ snaps'[Head(x.todo)][x.month - 1].exists,
           x.pc = "gather" => \A k \in 1..2 : x.half[k] \in {"read", "put"} =>
               ~ snaps'[Head(x.todo)][IF k = 1 THEN x.month ELSE x.month - 1].exists,
           x.pc \in {"filter", "add"} => \A i \in x.found : i.day = clock,
           x.pc = "add" => \A i \in x.found, j \in insights' :
               <<i.user, i.type, i.day>> # <<j.user, j.type, j.day>>
    PROVE  Known(r)'
<1>1. MonthKnown(r)'
  BY DEF MonthKnown
<1>2. MissingStill(r)'
  BY DEF MissingStill, User, HalfMonth
<1>3. TodaysRows(r)'
  BY DEF TodaysRows
<1> QED
  BY <1>1, <1>2, <1>3 DEF Known

\* The first step: the figures of this month.
LEMMA CurReadMoves == ASSUME TablesOK, RunsInv, NEW r \in Runs, CurRead(r) PROVE WellMoved(r)
<1>1. PICK o : o = run[r]
  OBVIOUS
<1>2. RunsOK /\ LocalOK(r, o) /\ Active(r) /\ o.pc = "curRead"
  BY <1>1 DEF RunsInv, RunsOK, NightsOK, LocalOK, Active, At, CurRead
<1>3. PICK m : m = Month(clock)
  OBVIOUS
<1>4. PICK figures : figures = FiguresOf(txs, User(r), m)
  OBVIOUS
<1>5. figures \in FiguresType /\ m \in 0..Month(Days)
  BY <1>3, <1>4, Bounds, TxsAreLedger, FiguresAreTyped DEF TablesOK
<1>6. PICK x : x = Run(o.body, "curWrite", o.todo, m, figures, o.half, o.got, o.found, o.day,
                       o.served, o.failed)
  OBVIOUS
<1>7. Becomes(r, x) /\ clock' = clock /\ entangled' = entangled /\ faults' = faults
  BY <1>1, <1>2, <1>3, <1>4, <1>6, ToPcFigures DEF CurRead, tables
<1>8. /\ x.body = o.body /\ x.pc = "curWrite" /\ x.todo = o.todo /\ x.month = m
      /\ x.half = o.half /\ x.found = o.found /\ x.served = o.served /\ x.failed = o.failed
  BY <1>6 DEF Run
<1>9. RunOK(x)'
  <2>1. "curWrite" \in Pcs
    BY DEF Pcs, NightSteps
  <2> QED
    BY <1>2, <1>5, <1>6, <1>7, <2>1, FieldsOf, TypedRun
<1>10. FlowOK(x)' /\ FoundOK(r, x)' /\ NightOK(x)'
  BY <1>2, <1>7, <1>8 DEF LocalOK, FlowOK, FoundOK, NightOK, NightSteps, HourSteps, RowSteps
<1>11. Known(r)'
  BY <1>3, <1>7, <1>8, KnownOf DEF Becomes
<1> QED
  BY <1>1, <1>2, <1>7, <1>8, <1>9, <1>10, <1>11, Bounds DEF WellMoved, Moves, LocalOK

\* Writing the figures of this month.
LEMMA CurWriteMoves == ASSUME TablesOK, RunsInv, NEW r \in Runs, CurWrite(r) PROVE WellMoved(r)
<1>1. PICK o : o = run[r]
  OBVIOUS
<1>2. /\ LocalOK(r, o) /\ o.pc = "curWrite" /\ clock' = clock /\ entangled' = entangled
      /\ faults' = faults /\ GoTo(r, "find")
  BY <1>1 DEF RunsInv, RunsOK, NightsOK, LocalOK, At, CurWrite
<1>3. o.half \in [1..2 -> {"find", "got"}] /\ o.pc \in NightSteps
  BY <1>2, FieldsOf DEF FlowOK, NightSteps
<1>4. PICK x : /\ Moves(r, x) /\ LocalOK(r, x)' /\ x.pc = "find"
               /\ x.todo = o.todo /\ x.month = o.month /\ x.half = o.half
  BY <1>1, <1>2, <1>3, GoToMoves DEF NightSteps, RowSteps
<1>5. ASSUME r \notin entangled PROVE Known(r)'
  <2>1. o.month = Month(clock)
    BY <1>1, <1>2, <1>5 DEF RunsInv, KnownAlone, Undisturbed, Active, At, Known, MonthKnown,
                            MonthSteps, NightSteps
  <2> QED
    BY <1>2, <1>4, <2>1, KnownOf DEF Moves, Becomes
<1> QED
  BY <1>4, <1>5 DEF WellMoved

\* Looking for last month's row: it is written only if it is not there.
LEMMA FindLastMoves == ASSUME TablesOK, RunsInv, NEW r \in Runs, FindLast(r) PROVE WellMoved(r)
<1>1. PICK o : o = run[r]
  OBVIOUS
<1>2. PICK pc : pc = IF snaps[Head(o.todo)][o.month - 1].exists THEN "compare" ELSE "lastRead"
  OBVIOUS
<1>3. /\ LocalOK(r, o) /\ o.pc = "find" /\ clock' = clock /\ entangled' = entangled
      /\ faults' = faults /\ snaps' = snaps /\ GoTo(r, pc)
  BY <1>1, <1>2 DEF RunsInv, RunsOK, NightsOK, LocalOK, At, FindLast, tables, User
<1>4. o.half \in [1..2 -> {"find", "got"}] /\ o.pc \in NightSteps
  BY <1>3, FieldsOf DEF FlowOK, NightSteps
<1>5. pc \in NightSteps \ {"gather"} /\ pc \notin RowSteps
  BY <1>2 DEF NightSteps, RowSteps
<1>6. PICK x : /\ Moves(r, x) /\ LocalOK(r, x)' /\ x.pc = pc
               /\ x.todo = o.todo /\ x.month = o.month /\ x.half = o.half
  BY <1>1, <1>3, <1>4, <1>5, GoToMoves
<1>7. ASSUME r \notin entangled PROVE Known(r)'
  <2>1. o.month = Month(clock)
    BY <1>1, <1>3, <1>7 DEF RunsInv, KnownAlone, Undisturbed, Active, At, Known, MonthKnown,
                            MonthSteps, NightSteps
  <2> QED
    BY <1>2, <1>3, <1>6, <2>1, KnownOf DEF Moves, Becomes
<1> QED
  BY <1>6, <1>7 DEF WellMoved

\* Last month's figures.
LEMMA LastReadMoves == ASSUME TablesOK, RunsInv, NEW r \in Runs, LastRead(r) PROVE WellMoved(r)
<1>1. PICK o : o = run[r]
  OBVIOUS
<1>2. /\ RunsOK /\ LocalOK(r, o) /\ Active(r) /\ o.pc = "lastRead" /\ clock' = clock
      /\ entangled' = entangled /\ faults' = faults /\ snaps' = snaps
  BY <1>1 DEF RunsInv, RunsOK, NightsOK, LocalOK, Active, At, LastRead, tables
<1>3. PICK figures : figures = FiguresOf(txs, User(r), run[r].month - 1)
  OBVIOUS
<1>4. figures \in FiguresType
  BY <1>3, TxsAreLedger, FiguresAreTyped DEF TablesOK
<1>5. PICK got : got = [o.got EXCEPT ![2] = figures]
  OBVIOUS
<1>6. got \in [1..2 -> FiguresType]
  BY <1>2, <1>4, <1>5, FieldsOf
<1>7. PICK x : x = Run(o.body, "lastWrite", o.todo, o.month, o.figures, o.half, got, o.found,
                       o.day, o.served, o.failed)
  OBVIOUS
<1>8. Becomes(r, x)
  <2>1. run' = [run EXCEPT ![r].pc = "lastWrite", ![r].got[2] = figures]
    BY <1>3 DEF LastRead
  <2> QED
    BY <1>1, <1>2, <1>5, <1>7, <2>1, ToPcGot
<1>9. /\ x.body = o.body /\ x.pc = "lastWrite" /\ x.todo = o.todo /\ x.month = o.month
      /\ x.half = o.half /\ x.found = o.found /\ x.served = o.served /\ x.failed = o.failed
  BY <1>7 DEF Run
<1>10. RunOK(x)'
  <2>1. "lastWrite" \in Pcs
    BY DEF Pcs, NightSteps
  <2> QED
    BY <1>2, <1>6, <1>7, <2>1, FieldsOf, TypedRun
<1>11. FlowOK(x)' /\ FoundOK(r, x)' /\ NightOK(x)'
  BY <1>2, <1>9, FieldsOf DEF FlowOK, FoundOK, NightOK, NightSteps, HourSteps, RowSteps
<1>12. ASSUME r \notin entangled PROVE Known(r)'
  <2>1. o.month = Month(clock) /\ ~ snaps[Head(o.todo)][o.month - 1].exists
    BY <1>1, <1>2, <1>12 DEF RunsInv, KnownAlone, Undisturbed, Known, MonthKnown, MissingStill,
                            MonthSteps, NightSteps, User
  <2> QED
    BY <1>2, <1>8, <1>9, <2>1, KnownOf DEF Becomes
<1> QED
  BY <1>1, <1>2, <1>8, <1>9, <1>10, <1>11, <1>12, Bounds DEF WellMoved, Moves, LocalOK

\* Writing them, and going on to the comparison and to the score.
LEMMA LastWriteMoves == ASSUME TablesOK, RunsInv, NEW r \in Runs, LastWrite(r) PROVE WellMoved(r)
<1>1. PICK o : o = run[r]
  OBVIOUS
<1>2. /\ LocalOK(r, o) /\ o.pc = "lastWrite" /\ clock' = clock /\ entangled' = entangled
      /\ faults' = faults /\ GoTo(r, "compare")
  BY <1>1 DEF RunsInv, RunsOK, NightsOK, LocalOK, At, LastWrite
<1>3. o.half \in [1..2 -> {"find", "got"}] /\ o.pc \in NightSteps
  BY <1>2, FieldsOf DEF FlowOK, NightSteps
<1>4. PICK x : /\ Moves(r, x) /\ LocalOK(r, x)' /\ x.pc = "compare"
               /\ x.todo = o.todo /\ x.month = o.month /\ x.half = o.half
  BY <1>1, <1>2, <1>3, GoToMoves DEF NightSteps, RowSteps
<1>5. ASSUME r \notin entangled PROVE Known(r)'
  <2>1. o.month = Month(clock)
    BY <1>1, <1>2, <1>5 DEF RunsInv, KnownAlone, Undisturbed, Active, At, Known, MonthKnown,
                            MonthSteps, NightSteps
  <2> QED
    BY <1>2, <1>4, <2>1, KnownOf DEF Moves, Becomes
<1> QED
  BY <1>4, <1>5 DEF WellMoved

LEMMA CompareMoves == ASSUME TablesOK, RunsInv, NEW r \in Runs, Compare(r) PROVE WellMoved(r)
<1>1. PICK o : o = run[r]
  OBVIOUS
<1>2. /\ LocalOK(r, o) /\ o.pc = "compare" /\ clock' = clock /\ entangled' = entangled
      /\ faults' = faults /\ GoTo(r, "score")
  BY <1>1 DEF RunsInv, RunsOK, NightsOK, LocalOK, At, Compare
<1>3. o.half \in [1..2 -> {"find", "got"}] /\ o.pc \in NightSteps
  BY <1>2, FieldsOf DEF FlowOK, NightSteps
<1>4. PICK x : /\ Moves(r, x) /\ LocalOK(r, x)' /\ x.pc = "score"
  BY <1>1, <1>2, <1>3, GoToMoves DEF NightSteps, RowSteps
<1>5. Known(r)'
  BY <1>2, <1>4, KnownOf DEF Moves, Becomes, MonthSteps
<1> QED
  BY <1>4, <1>5 DEF WellMoved

\* A run that goes on with the next user knows nothing yet.
LEMMA NextUserWell ==
    ASSUME TablesOK, RunsInv, NEW r \in Runs, Active(r), NEW left \in {"curRead", "spot", "done"},
           NextUser(r, left), clock' = clock, entangled' = entangled, faults' = faults,
           run[r].body.kind = "NIGHT" => left = "curRead",
           run[r].body.kind = "HOURLY" <=> left = "spot"
    PROVE  WellMoved(r)
<1>1. PICK x : /\ Becomes(r, x) /\ x.body = run[r].body
               /\ x.pc \in {"curRead", "spot", "done"} /\ LocalOK(r, x)'
  BY Bounds, NextUserMoves DEF RunsInv
<1>2. Known(r)'
  BY <1>1, KnownOf DEF Becomes, MonthSteps, NightSteps
<1> QED
  BY <1>1, <1>2, Bounds DEF WellMoved, Moves

\* The score, after which the dashboard is done.
LEMMA SetScoreMoves == ASSUME TablesOK, RunsInv, NEW r \in Runs, SetScore(r) PROVE WellMoved(r)
<1>1. PICK o : o = run[r]
  OBVIOUS
<1>2. /\ RunsOK /\ LocalOK(r, o) /\ Active(r) /\ o.pc = "score" /\ clock' = clock
      /\ entangled' = entangled /\ faults' = faults
  BY <1>1 DEF RunsInv, RunsOK, NightsOK, LocalOK, Active, At, SetScore
<1>3. o.body.kind # "HOURLY" /\ o.half \in [1..2 -> {"find", "got"}]
  BY <1>2, FieldsOf DEF FlowOK, HourSteps
<1>4. CASE o.body.kind = "DASHBOARD"
  <2>1. NextUser(r, "done")
    BY <1>1, <1>4 DEF SetScore
  <2> QED
    BY <1>1, <1>2, <1>4, <2>1, NextUserWell
<1>5. CASE o.body.kind # "DASHBOARD"
  <2>1. PICK m : m = Month(clock)
    OBVIOUS
  <2>2. run' = [run EXCEPT ![r].pc = "gather", ![r].month = m]
    BY <1>1, <1>5, <2>1 DEF SetScore
  <2>3. PICK x : x = Run(o.body, "gather", o.todo, m, o.figures, o.half, o.got, o.found,
                         o.day, o.served, o.failed)
    OBVIOUS
  <2>4. Becomes(r, x)
    BY <1>1, <1>2, <2>2, <2>3, ToPcMonth
  <2>5. /\ x.body = o.body /\ x.pc = "gather" /\ x.todo = o.todo /\ x.month = m
        /\ x.half = o.half /\ x.found = o.found /\ x.served = o.served /\ x.failed = o.failed
    BY <2>3 DEF Run
  <2>6. RunOK(x)'
    <3>1. "gather" \in Pcs /\ m \in 0..Month(Days)
      BY <2>1, Bounds DEF Pcs, NightSteps
    <3> QED
      BY <1>2, <2>3, <3>1, FieldsOf, TypedRun
  <2>7. FlowOK(x)' /\ FoundOK(r, x)' /\ NightOK(x)'
    BY <1>2, <2>5, FieldsOf DEF FlowOK, FoundOK, NightOK, NightSteps, HourSteps, RowSteps
  <2>8. Known(r)'
    <3>1. \A k \in 1..2 : x.half[k] \notin {"read", "put"}
      BY <1>3, <2>5
    <3> QED
      BY <1>2, <2>1, <2>4, <2>5, <3>1, KnownOf DEF Becomes
  <2> QED
    BY <1>1, <1>2, <2>4, <2>5, <2>6, <2>7, <2>8, Bounds DEF WellMoved, Moves, LocalOK
<1> QED
  BY <1>4, <1>5

\* One half of a Promise.all: its row is looked for, computed if it is not there,
\* and written.
LEMMA GatherMoves ==
    ASSUME TablesOK, RunsInv, NEW r \in Runs, NEW k \in 1..2, Gather(r, k)
    PROVE  WellMoved(r)
<1>1. PICK o : o = run[r]
  OBVIOUS
<1>2. /\ RunsOK /\ LocalOK(r, o) /\ Active(r) /\ o.pc = "gather" /\ clock' = clock
      /\ entangled' = entangled /\ faults' = faults
  BY <1>1 DEF RunsInv, RunsOK, NightsOK, LocalOK, Active, At, Gather
<1>3. PICK u : u = Head(o.todo)
  OBVIOUS
<1>4. DOMAIN snaps = Users /\ u \in Users /\ DOMAIN snaps[u] = Months
  <2>1. o.todo \in Seq(Users) /\ o.todo # <<>>
    BY <1>2, FieldsOf DEF FlowOK
  <2> QED
    BY <1>3, <2>1, HeadAndTail DEF TablesOK, SnapsOK
<1>5. PICK m : m = IF k = 1 THEN o.month ELSE o.month - 1
  OBVIOUS
<1>6. PICK row : row = snaps[u][m]
  OBVIOUS
<1>7. /\ row.exists => row.figures \in FiguresType
      /\ FiguresOf(txs, u, m) \in FiguresType /\ o.got[k] \in FiguresType
  <2>1. FiguresOf(txs, u, m) \in FiguresType
    BY TxsAreLedger, FiguresAreTyped DEF TablesOK
  <2>2. o.got[k] \in FiguresType /\ o.month \in 0..Month(Days)
    BY <1>2, FieldsOf
  <2>3. m \in Months
    <3>1. Month(Days) \in Nat
      BY FiguresAssumption, MonthsAreIntervals
    <3> QED
      BY <1>5, <2>2, <3>1 DEF Months
  <2>4. row = NoSnap \/ row.figures \in FiguresType
    BY <1>4, <1>6, <2>3 DEF TablesOK, SnapsOK, SnapOK
  <2> QED
    BY <2>1, <2>2, <2>4 DEF NoSnap
<1>8. PICK stage, figures :
        /\ run' = [run EXCEPT ![r].half[k] = stage, ![r].got[k] = figures]
        /\ stage \in {"read", "put", "got"} /\ figures \in FiguresType
        /\ \/ snaps' = snaps /\ (stage = "read" => ~ row.exists)
                             /\ (stage = "put" => o.half[k] = "read")
           \/ stage = "got" /\ \E s : snaps' = [snaps EXCEPT ![u][m] = s]
  <2>1. CASE /\ o.half[k] = "find" /\ UNCHANGED snaps
             /\ run' = [run EXCEPT
                   ![r].half[k] = IF row.exists THEN "got" ELSE "read",
                   ![r].got[k] = IF row.exists THEN row.figures ELSE NoFigures]
    <3>1. PICK stage : stage = IF row.exists THEN "got" ELSE "read"
      OBVIOUS
    <3>2. PICK figures : figures = IF row.exists THEN row.figures ELSE NoFigures
      OBVIOUS
    <3>3. figures \in FiguresType
      BY <1>7, <3>2, NoFiguresTyped
    <3>4. run' = [run EXCEPT ![r].half[k] = stage, ![r].got[k] = figures]
      BY <2>1, <3>1, <3>2
    <3>5. /\ stage \in {"read", "put", "got"} /\ stage # "put" /\ snaps' = snaps
          /\ stage = "read" => ~ row.exists
      BY <2>1, <3>1
    <3> QED
      BY <3>3, <3>4, <3>5, Zenon
  <2>2. CASE /\ o.half[k] = "read" /\ UNCHANGED snaps
             /\ run' = [run EXCEPT ![r].half[k] = "put", ![r].got[k] = FiguresOf(txs, u, m)]
    <3>1. PICK stage, figures : stage = "put" /\ figures = FiguresOf(txs, u, m)
      OBVIOUS
    <3>2. run' = [run EXCEPT ![r].half[k] = stage, ![r].got[k] = figures]
      BY <2>2, <3>1
    <3>3. /\ stage \in {"read", "put", "got"} /\ stage # "read" /\ snaps' = snaps
          /\ o.half[k] = "read" /\ figures \in FiguresType
      BY <1>7, <2>2, <3>1
    <3> QED
      BY <3>2, <3>3, Zenon
  <2>3. CASE /\ o.half[k] = "put"
             /\ \E s : snaps' = [snaps EXCEPT ![u][m] = s]
             /\ run' = [run EXCEPT ![r].half[k] = "got", ![r].got[k] = o.got[k]]
    BY <1>7, <2>3
  <2>4. Upsert(u, m, o.got[k]) => \E s : snaps' = [snaps EXCEPT ![u][m] = s]
    BY DEF Upsert
  <2> QED
    BY <1>1, <1>3, <1>5, <1>6, <2>1, <2>2, <2>3, <2>4 DEF Gather, User, HalfMonth
<1>9. PICK half, got : half = [o.half EXCEPT ![k] = stage] /\ got = [o.got EXCEPT ![k] = figures]
  OBVIOUS
<1>10. /\ half \in [1..2 -> {"find", "read", "put", "got"}] /\ got \in [1..2 -> FiguresType]
       /\ half[k] = stage /\ \A j \in (1..2) \ {k} : half[j] = o.half[j]
  <2>1. o.half \in [1..2 -> {"find", "read", "put", "got"}] /\ o.got \in [1..2 -> FiguresType]
    BY <1>2, FieldsOf
  <2> QED
    BY <1>8, <1>9, <2>1
<1>11. PICK x : x = Run(o.body, o.pc, o.todo, o.month, o.figures, half, got, o.found, o.day,
                        o.served, o.failed)
  OBVIOUS
<1>12. Becomes(r, x)
  BY <1>1, <1>2, <1>8, <1>9, <1>11, ToHalf
<1>13. /\ x.body = o.body /\ x.pc = "gather" /\ x.todo = o.todo /\ x.month = o.month
       /\ x.half = half /\ x.found = o.found /\ x.served = o.served /\ x.failed = o.failed
  BY <1>2, <1>11 DEF Run
<1>14. RunOK(x)'
  BY <1>2, <1>10, <1>11, FieldsOf, TypedRun
<1>15. FlowOK(x)' /\ FoundOK(r, x)' /\ NightOK(x)'
  BY <1>2, <1>13, FieldsOf DEF FlowOK, FoundOK, NightOK, NightSteps, HourSteps, RowSteps
<1>16. ASSUME r \notin entangled PROVE Known(r)'
  <2>1. /\ o.month = Month(clock)
        /\ \A j \in 1..2 : o.half[j] \in {"read", "put"} =>
              ~ snaps[u][IF j = 1 THEN o.month ELSE o.month - 1].exists
    BY <1>1, <1>2, <1>3, <1>16 DEF RunsInv, KnownAlone, Undisturbed, Known, MonthKnown,
                     MissingStill, MonthSteps, NightSteps, User, HalfMonth
  <2>2. ASSUME NEW j \in 1..2, half[j] \in {"read", "put"}
        PROVE  ~ snaps'[u][IF j = 1 THEN o.month ELSE o.month - 1].exists
    <3>1. CASE j = k
      <4>1. snaps' = snaps /\ ~ row.exists
        BY <1>5, <1>6, <1>8, <1>10, <2>1, <2>2, <3>1
      <4> QED
        BY <1>5, <1>6, <3>1, <4>1
    <3>2. CASE j # k
      <4>1. PICK n : n = IF j = 1 THEN o.month ELSE o.month - 1
        OBVIOUS
      <4>2. ~ snaps[u][n].exists
        BY <1>10, <2>1, <2>2, <3>2, <4>1
      <4>3. n # m
        <5>1. o.month \in Int
          BY <1>2, FieldsOf
        <5> QED
          BY <1>5, <3>2, <4>1, <5>1
      <4>4. snaps'[u][n] = snaps[u][n]
        <5>1. CASE snaps' = snaps
          BY <5>1
        <5>2. CASE \E s : snaps' = [snaps EXCEPT ![u][m] = s]
          BY <1>4, <4>3, <5>2
        <5> QED
          BY <1>8, <5>1, <5>2
      <4> QED
        BY <4>1, <4>2, <4>4
    <3> QED
      BY <3>1, <3>2
  <2>3. run'[r] = x
    BY <1>12 DEF Becomes
  <2>4. \A j \in 1..2 : x.half[j] \in {"read", "put"} =>
              ~ snaps'[Head(x.todo)][IF j = 1 THEN x.month ELSE x.month - 1].exists
    BY <1>3, <1>13, <2>2
  <2> QED
    BY <1>2, <1>13, <2>1, <2>3, <2>4, KnownOf
<1> QED
  BY <1>1, <1>2, <1>12, <1>13, <1>14, <1>15, <1>16, Bounds DEF WellMoved, Moves, LocalOK

\* A row of an insight, made today for the user a run is at.
LEMMA NewInsightOK ==
    ASSUME NEW u \in Users, NEW type, NEW subject, NEW day \in 0..clock', NEW expires, NEW r \in Runs
    PROVE  /\ InsightOK(Insight(u, type, subject, day, expires, r))'
           /\ Insight(u, type, subject, day, expires, r).user = u
           /\ Insight(u, type, subject, day, expires, r).by = r
           /\ Insight(u, type, subject, day, expires, r).day = day
<1>1. PICK i : i = Insight(u, type, subject, day, expires, r)
  OBVIOUS
<1>2. /\ i.user = u /\ i.type = type /\ i.subject = subject /\ i.day = day
      /\ i.expires = expires /\ i.by = r /\ i.read = FALSE /\ i.dismissed = FALSE
  BY <1>1 DEF Insight
<1>3. i = [user |-> i.user, type |-> i.type, subject |-> i.subject, day |-> i.day,
           expires |-> i.expires, by |-> i.by, read |-> i.read, dismissed |-> i.dismissed]
  BY <1>1 DEF Insight
<1>4. InsightOK(i)'
  BY <1>2, <1>3 DEF InsightOK
<1> QED
  BY <1>1, <1>2, <1>4

\* With both halves there, the dashboard goes on; the others look for something
\* to say.
LEMMA GatheredMoves == ASSUME TablesOK, RunsInv, NEW r \in Runs, Gathered(r) PROVE WellMoved(r)
<1>1. PICK o : o = run[r]
  OBVIOUS
<1>2. /\ RunsOK /\ LocalOK(r, o) /\ Active(r) /\ o.pc = "gather" /\ clock' = clock
      /\ entangled' = entangled /\ faults' = faults /\ o.half = <<"got", "got">>
  BY <1>1 DEF RunsInv, RunsOK, NightsOK, LocalOK, Active, At, Gathered, tables
<1>3. o.half \in [1..2 -> {"find", "got"}] /\ o.body.kind # "HOURLY"
  <2>1. o.half \in [1..2 -> {"find", "got"}]
    BY <1>2
  <2> QED
    BY <1>2, <2>1, FieldsOf DEF FlowOK, HourSteps
<1>4. CASE o.body.kind = "DASHBOARD"
  <2>1. GoTo(r, "score")
    BY <1>1, <1>4 DEF Gathered
  <2>2. PICK x : /\ Moves(r, x) /\ LocalOK(r, x)' /\ x.pc = "score"
    BY <1>1, <1>2, <1>3, <2>1, GoToMoves DEF NightSteps, RowSteps
  <2>3. Known(r)'
    BY <1>2, <2>2, KnownOf DEF Moves, Becomes, MonthSteps
  <2> QED
    BY <2>2, <2>3 DEF WellMoved
<1>5. CASE o.body.kind # "DASHBOARD"
  <2>1. PICK new : new = Candidates(User(r), run[r].got[1], run[r].got[2], run[r].month)
    OBVIOUS
  <2>2. CASE new = {}
    <3>1. NextUser(r, "curRead")
      BY <1>1, <1>5, <2>1, <2>2 DEF Gathered
    <3> QED
      BY <1>1, <1>2, <1>3, <3>1, NextUserWell
  <2>3. CASE new # {}
    <3>1. PICK u : u = Head(o.todo)
      OBVIOUS
    <3>2. u \in Users
      BY <1>2, <3>1, FieldsOf, HeadAndTail DEF FlowOK
    <3>3. PICK found : found = {Insight(u, f[1], f[2], clock, o.month, r) : f \in new}
      OBVIOUS
    <3>4. run' = [run EXCEPT ![r].pc = "expire", ![r].found = found]
      BY <1>1, <1>5, <2>1, <2>3, <3>1, <3>3 DEF Gathered, User
    <3>5. PICK x : x = Run(o.body, "expire", o.todo, o.month, o.figures, o.half, o.got, found,
                           o.day, o.served, o.failed)
      OBVIOUS
    <3>6. Becomes(r, x)
      BY <1>1, <1>2, <3>4, <3>5, ToPcFound
    <3>7. /\ x.body = o.body /\ x.pc = "expire" /\ x.todo = o.todo /\ x.month = o.month
          /\ x.half = o.half /\ x.found = found /\ x.served = o.served /\ x.failed = o.failed
      BY <3>5 DEF Run
    <3>8. RunOK(x)'
      <4>1. "expire" \in Pcs
        BY DEF Pcs, NightSteps
      <4> QED
        BY <1>2, <3>5, <4>1, FieldsOf, TypedRun
    <3>9. FlowOK(x)' /\ NightOK(x)'
      BY <1>2, <1>3, <3>7, FieldsOf DEF FlowOK, NightOK, NightSteps, HourSteps
    <3>10. FoundOK(r, x)'
      <4>1. clock \in 0..clock'
        BY <1>2, Bounds
      <4>2. \A i \in found : InsightOK(i)' /\ i.user = u /\ i.by = r
        BY <3>2, <3>3, <4>1, NewInsightOK
      <4> QED
        BY <3>1, <3>7, <4>2 DEF FoundOK
    <3>11. Known(r)'
      BY <1>2, <3>6, <3>7, KnownOf DEF Becomes, MonthSteps
    <3> QED
      BY <1>1, <1>2, <3>6, <3>7, <3>8, <3>9, <3>10, <3>11, Bounds DEF WellMoved, Moves, LocalOK
  <2> QED
    BY <2>2, <2>3
<1> QED
  BY <1>4, <1>5

LEMMA DismissExpiredMoves ==
    ASSUME TablesOK, RunsInv, NEW r \in Runs, DismissExpired(r)
    PROVE  WellMoved(r)
<1>1. PICK o : o = run[r]
  OBVIOUS
<1>2. /\ LocalOK(r, o) /\ o.pc = "expire" /\ clock' = clock /\ entangled' = entangled
      /\ faults' = faults /\ GoTo(r, "insert")
  BY <1>1 DEF RunsInv, RunsOK, NightsOK, LocalOK, At, DismissExpired
<1>3. o.half \in [1..2 -> {"find", "got"}] /\ o.pc \in NightSteps
  BY <1>2, FieldsOf DEF FlowOK, NightSteps
<1>4. PICK x : /\ Moves(r, x) /\ LocalOK(r, x)' /\ x.pc = "insert"
  BY <1>1, <1>2, <1>3, GoToMoves DEF NightSteps, RowSteps
<1>5. Known(r)'
  BY <1>2, <1>4, KnownOf DEF Moves, Becomes, MonthSteps
<1> QED
  BY <1>4, <1>5 DEF WellMoved

LEMMA InsertMoves == ASSUME TablesOK, RunsInv, NEW r \in Runs, Insert(r) PROVE WellMoved(r)
<1>1. PICK o : o = run[r]
  OBVIOUS
<1>2. /\ LocalOK(r, o) /\ Active(r) /\ o.pc = "insert" /\ clock' = clock
      /\ entangled' = entangled /\ faults' = faults /\ NextUser(r, "curRead")
  BY <1>1 DEF RunsInv, RunsOK, NightsOK, LocalOK, Active, At, Insert
<1>3. o.body.kind # "HOURLY"
  BY <1>2, FieldsOf DEF FlowOK, HourSteps
<1> QED
  BY <1>1, <1>2, <1>3, NextUserWell

\* An error: the user a run is at has failed, and cost one.
LEMMA FailsMoves == ASSUME TablesOK, RunsInv, NEW r \in Runs, Fails(r) PROVE WellMoved(r)
<1>1. PICK o : o = run[r]
  OBVIOUS
<1>2. /\ RunsOK /\ LocalOK(r, o) /\ Active(r) /\ o.pc \notin {"idle", "done"} /\ clock' = clock
      /\ entangled' = entangled /\ faults' = faults + 1 /\ faults < MaxFaults
  BY <1>1 DEF RunsInv, RunsOK, NightsOK, LocalOK, Active, At, Fails, tables
<1>3. PICK u, rest : u = Head(o.todo) /\ rest = Tail(o.todo)
  OBVIOUS
<1>4. /\ rest \in Seq(Users) /\ Range(o.todo) = {u} \cup Range(rest)
      /\ o.body \in Bodies /\ NightOK(o)
      /\ o.body.kind = "NIGHT" => o.pc \in NightSteps
  BY <1>2, <1>3, FieldsOf, HeadAndTail DEF FlowOK
<1>5. PICK ends : ends = (o.body.kind # "NIGHT" \/ rest = <<>>)
  OBVIOUS
<1>6. PICK pc, todo, failed : /\ pc = IF ends THEN "done" ELSE "curRead"
                              /\ todo = IF ends THEN <<>> ELSE rest
                              /\ failed = o.failed \cup {u}
  OBVIOUS
<1>7. run' = [run EXCEPT ![r] = [Fresh(run[r].body) EXCEPT
                 !.pc = pc, !.todo = todo, !.served = o.served, !.failed = failed]]
  BY <1>1, <1>3, <1>5, <1>6 DEF Fails, User
<1>8. PICK x : x = Run(o.body, pc, todo, 0, NoFigures, <<"find", "find">>,
                       <<NoFigures, NoFigures>>, {}, 0, o.served, failed)
  OBVIOUS
<1>9. Becomes(r, x)
  BY <1>1, <1>2, <1>7, <1>8, ToFresh
<1>10. /\ x.body = o.body /\ x.pc = pc /\ x.todo = todo /\ x.found = {} /\ x.served = o.served
       /\ x.failed = failed /\ x.half = <<"find", "find">>
  BY <1>8 DEF Run
<1>11. RunOK(x)'
  <2>1. pc \in Pcs /\ todo \in Seq(Users)
    BY <1>4, <1>6 DEF Pcs, NightSteps
  <2>2. clock' \in Nat
    BY <1>2, Bounds
  <2> QED
    BY <1>4, <1>8, <2>1, <2>2, FreshRun
<1>12. FlowOK(x)' /\ FoundOK(r, x)'
  <2>1. x.half \in [1..2 -> {"find", "got"}]
    BY <1>10
  <2> QED
    BY <1>5, <1>6, <1>10, <2>1 DEF FlowOK, FoundOK, NightSteps, HourSteps, RowSteps
<1>13. NightOK(x)'
  <2>1. IsFiniteSet(failed) /\ Cardinality(failed) <= faults'
    <3>1. IsFiniteSet(o.failed) /\ Cardinality(o.failed) <= faults
      BY <1>4 DEF NightOK
    <3>2. IsFiniteSet(o.failed \cup {u}) /\ Cardinality(o.failed \cup {u}) <= Cardinality(o.failed) + 1
      <4>1. u \in o.failed => o.failed \cup {u} = o.failed
        OBVIOUS
      <4>2. /\ IsFiniteSet(o.failed \cup {u}) /\ Cardinality(o.failed) \in Nat
            /\ u \notin o.failed => Cardinality(o.failed \cup {u}) = Cardinality(o.failed) + 1
        BY <3>1, FS_AddElement, FS_CardinalityType
      <4>3. CASE u \in o.failed
        <5>1. Cardinality(o.failed \cup {u}) = Cardinality(o.failed)
          BY <4>1, <4>3
        <5> QED
          BY <4>2, <5>1
      <4>4. CASE u \notin o.failed
        BY <4>2, <4>4
      <4> QED
        BY <4>3, <4>4
    <3>3. Cardinality(o.failed) \in Nat /\ Cardinality(o.failed \cup {u}) \in Nat /\ faults \in Nat
      BY <3>1, <3>2, FS_CardinalityType, Bounds
    <3>4. Cardinality(o.failed \cup {u}) <= faults + 1
      BY <3>1, <3>2, <3>3
    <3> QED
      BY <1>2, <1>6, <3>2, <3>4
  <2>2. ASSUME x.body.kind = "NIGHT"
        PROVE  /\ x.pc = "done" => x.served \cup x.failed = ActiveUsers
               /\ x.pc \in NightSteps => x.served \cup x.failed \cup Range(x.todo) = ActiveUsers
    <3>1. o.served \cup o.failed \cup Range(o.todo) = ActiveUsers
      BY <1>4, <1>10, <2>2 DEF NightOK
    <3>2. o.served \cup failed \cup Range(rest) = ActiveUsers
      BY <1>4, <1>6, <3>1
    <3>3. rest = <<>> => Range(rest) = {}
      BY DEF Range
    <3>4. (ends => rest = <<>>) /\ (~ ends => pc = "curRead" /\ todo = rest)
      BY <1>5, <1>6, <1>10, <2>2
    <3>5. ends => pc = "done" /\ Range(rest) = {}
      BY <1>6, <3>3, <3>4
    <3> QED
      BY <1>10, <3>2, <3>4, <3>5 DEF NightSteps
  <2>3. x.pc # "idle"
    BY <1>6, <1>10
  <2> QED
    BY <1>10, <2>1, <2>2, <2>3 DEF NightOK
<1>14. Known(r)'
  BY <1>2, <1>6, <1>9, <1>10, KnownOf DEF Becomes, MonthSteps, NightSteps
<1>15. faults' \in faults..MaxFaults
  BY <1>2, Bounds
<1> QED
  BY <1>1, <1>2, <1>9, <1>10, <1>11, <1>12, <1>13, <1>14, <1>15 DEF WellMoved, Moves, LocalOK

-----------------------------------------------------------------------------
(* The hourly job, the demo, the backfill and the user's choice.           *)

Finds(r, pc, found) == run' = [run EXCEPT ![r].pc = pc, ![r].found = found]

RowsOf(r, u, found) == \A i \in found : InsightOK(i) /\ i.by = r /\ i.user = u

\* On with what was found.
LEMMA FoundMoves ==
    ASSUME TablesOK, RunsInv, NEW r \in Runs, Active(r), NEW o, o = run[r],
           NEW pc \in HourSteps \cup {"fill"}, NEW found,
           Finds(r, pc, found), clock' = clock, entangled' = entangled, faults' = faults,
           o.half \in [1..2 -> {"find", "got"}],
           o.body.kind # "NIGHT", o.body.kind = "HOURLY" <=> pc # "fill",
           pc = "fill" => found = {},
           RowsOf(r, Head(o.todo), found)'
    PROVE  \E x : /\ Moves(r, x) /\ LocalOK(r, x)' /\ x.pc = pc
                  /\ x.todo = o.todo /\ x.found = found
<1>2. RunsOK /\ LocalOK(r, o) /\ o.pc \notin {"idle", "done"}
  BY DEF RunsInv, RunsOK, NightsOK, LocalOK, Active, At
<1>3. PICK x : x = Run(o.body, pc, o.todo, o.month, o.figures, o.half, o.got, found, o.day,
                       o.served, o.failed)
  OBVIOUS
<1>4. Becomes(r, x)
  BY <1>2, <1>3, ToPcFound DEF Finds
<1>5. /\ x.body = o.body /\ x.pc = pc /\ x.todo = o.todo /\ x.month = o.month
      /\ x.half = o.half /\ x.found = found /\ x.served = o.served /\ x.failed = o.failed
  BY <1>3 DEF Run
<1>6. RunOK(x)'
  <2>1. pc \in Pcs
    BY DEF Pcs, HourSteps, OtherSteps
  <2> QED
    BY <1>2, <1>3, <2>1, FieldsOf, TypedRun
<1>7. FlowOK(x)'
  BY <1>2, <1>5, FieldsOf DEF FlowOK, NightSteps, HourSteps
<1>8. FoundOK(r, x)'
  BY <1>5 DEF FoundOK, RowSteps, RowsOf
<1>9. NightOK(x)'
  BY <1>2, <1>5, FieldsOf DEF NightOK, NightSteps, HourSteps
<1> QED
  BY <1>2, <1>4, <1>5, <1>6, <1>7, <1>8, <1>9, Bounds DEF Moves, LocalOK

\* What the generators find is of today.
LEMMA SpotMoves == ASSUME TablesOK, RunsInv, NEW r \in Runs, Spot(r) PROVE WellMoved(r)
<1>1. PICK o : o = run[r]
  OBVIOUS
<1>2. /\ LocalOK(r, o) /\ Active(r) /\ o.pc = "spot" /\ clock' = clock
      /\ entangled' = entangled /\ faults' = faults
  BY <1>1 DEF RunsInv, RunsOK, NightsOK, LocalOK, Active, At, Spot, tables
<1>3. o.half \in [1..2 -> {"find", "got"}] /\ o.body.kind = "HOURLY"
  BY <1>2, FieldsOf DEF FlowOK, HourSteps
<1>4. PICK u : u = Head(o.todo)
  OBVIOUS
<1>5. u \in Users
  BY <1>2, <1>4, FieldsOf, HeadAndTail DEF FlowOK
<1>6. PICK new : new = SpendingPattern(u) \cup BudgetWarnings(u) \cup SavingOpportunities(u)
                       \cup SubscriptionAlerts(u)
  OBVIOUS
<1>7. PICK found : found = {Insight(u, f[1], f[2], clock, None, r) : f \in new}
  OBVIOUS
<1>8. Finds(r, "filter", found)
  BY <1>1, <1>4, <1>6, <1>7 DEF Spot, User, Finds
<1>9. \A i \in found : InsightOK(i)' /\ i.by = r /\ i.user = u /\ i.day = clock
  <2>1. clock \in 0..clock'
    BY <1>2, Bounds
  <2> QED
    BY <1>5, <1>7, <2>1, NewInsightOK
<1>10. PICK x : /\ Moves(r, x) /\ LocalOK(r, x)' /\ x.pc = "filter"
                /\ x.todo = o.todo /\ x.found = found
  <2>1. "filter" \in HourSteps \cup {"fill"} /\ "filter" # "fill"
    BY DEF HourSteps
  <2>2. RowsOf(r, Head(o.todo), found)'
    BY <1>4, <1>9 DEF RowsOf
  <2> QED
    BY <1>1, <1>2, <1>3, <1>8, <2>1, <2>2, FoundMoves
<1>11. Known(r)'
  BY <1>2, <1>9, <1>10, KnownOf DEF Moves, Becomes, MonthSteps, NightSteps
<1> QED
  BY <1>10, <1>11 DEF WellMoved

\* What passes the filter is of types the user has not been told today.
LEMMA FilterDuplicatesMoves ==
    ASSUME TablesOK, RunsInv, NEW r \in Runs, FilterDuplicates(r)
    PROVE  WellMoved(r)
<1>1. PICK o : o = run[r]
  OBVIOUS
<1>2. /\ LocalOK(r, o) /\ Active(r) /\ o.pc = "filter" /\ clock' = clock
      /\ entangled' = entangled /\ faults' = faults /\ insights' = insights
  BY <1>1 DEF RunsInv, RunsOK, NightsOK, LocalOK, Active, At, FilterDuplicates, tables
<1>3. o.half \in [1..2 -> {"find", "got"}] /\ o.body.kind = "HOURLY"
  BY <1>2, FieldsOf DEF FlowOK, HourSteps
<1>4. PICK u : u = Head(o.todo)
  OBVIOUS
<1>5. PICK found : found = {i \in o.found : i.type \notin
                       {j.type : j \in {j \in insights : j.user = u /\ j.day = clock}}}
  OBVIOUS
<1>6. CASE found = {}
  <2>1. NextUser(r, "spot")
    BY <1>1, <1>4, <1>5, <1>6 DEF FilterDuplicates, User
  <2> QED
    BY <1>1, <1>2, <1>3, <2>1, NextUserWell
<1>7. CASE found # {}
  <2>1. Finds(r, "add", found)
    BY <1>1, <1>4, <1>5, <1>7 DEF FilterDuplicates, User, Finds
  <2>2. \A i \in found : InsightOK(i)' /\ i.by = r /\ i.user = u
    <3>1. \A i \in o.found : InsightOK(i) /\ i.user = u /\ i.by = r
      BY <1>2, <1>4, FieldsOf DEF FoundOK, RowSteps
    <3>2. \A i : InsightOK(i) => InsightOK(i)'
      BY <1>2 DEF InsightOK
    <3> QED
      BY <1>5, <3>1, <3>2
  <2>3. PICK x : /\ Moves(r, x) /\ LocalOK(r, x)' /\ x.pc = "add"
                 /\ x.todo = o.todo /\ x.found = found
    <3>1. "add" \in HourSteps \cup {"fill"} /\ "add" # "fill"
      BY DEF HourSteps
    <3>2. RowsOf(r, Head(o.todo), found)'
      BY <1>4, <2>2 DEF RowsOf
    <3> QED
      BY <1>1, <1>2, <1>3, <2>1, <3>1, <3>2, FoundMoves
  <2>4. ASSUME r \notin entangled PROVE Known(r)'
    <3>1. \A i \in o.found : i.day = clock
      BY <1>1, <1>2, <2>4 DEF RunsInv, KnownAlone, Undisturbed, Known, TodaysRows
    <3>2. \A i \in found : i.day = clock
      BY <1>5, <3>1
    <3>3. \A i \in found, j \in insights' : <<i.user, i.type, i.day>> # <<j.user, j.type, j.day>>
      <4>1. \A i \in found, j \in insights : ~ (i.user = j.user /\ i.type = j.type /\ i.day = j.day)
        BY <1>5, <2>2, <3>2
      <4> QED
        BY <1>2, <4>1
    <3> QED
      BY <1>2, <2>3, <3>2, <3>3, KnownOf DEF Moves, Becomes, MonthSteps, NightSteps
  <2> QED
    BY <2>3, <2>4 DEF WellMoved
<1> QED
  BY <1>6, <1>7

LEMMA AddFreshMoves == ASSUME TablesOK, RunsInv, NEW r \in Runs, AddFresh(r) PROVE WellMoved(r)
<1>1. PICK o : o = run[r]
  OBVIOUS
<1>2. /\ LocalOK(r, o) /\ Active(r) /\ o.pc = "add" /\ clock' = clock
      /\ entangled' = entangled /\ faults' = faults /\ NextUser(r, "spot")
  BY <1>1 DEF RunsInv, RunsOK, NightsOK, LocalOK, Active, At, AddFresh
<1>3. o.body.kind = "HOURLY"
  BY <1>2, FieldsOf DEF FlowOK, HourSteps
<1> QED
  BY <1>1, <1>2, <1>3, NextUserWell

\* The demo's second step has the day of the first.
LEMMA WipeMoves == ASSUME TablesOK, RunsInv, NEW r \in Runs, Wipe(r) PROVE WellMoved(r)
<1>1. PICK o : o = run[r]
  OBVIOUS
<1>2. /\ RunsOK /\ LocalOK(r, o) /\ Active(r) /\ o.pc = "wipe" /\ clock' = clock
      /\ entangled' = entangled /\ faults' = faults
      /\ run' = [run EXCEPT ![r].pc = "demo", ![r].day = clock]
  BY <1>1 DEF RunsInv, RunsOK, NightsOK, LocalOK, Active, At, Wipe
<1>3. PICK x : x = Run(o.body, "demo", o.todo, o.month, o.figures, o.half, o.got, o.found,
                       clock, o.served, o.failed)
  OBVIOUS
<1>4. Becomes(r, x)
  BY <1>1, <1>2, <1>3, ToPcDay
<1>5. /\ x.body = o.body /\ x.pc = "demo" /\ x.todo = o.todo /\ x.month = o.month
      /\ x.half = o.half /\ x.found = o.found /\ x.served = o.served /\ x.failed = o.failed
  BY <1>3 DEF Run
<1>6. RunOK(x)'
  <2>1. "demo" \in Pcs /\ clock \in 0..clock'
    BY <1>2, Bounds DEF Pcs, OtherSteps
  <2> QED
    BY <1>2, <1>3, <2>1, FieldsOf, TypedRun
<1>7. FlowOK(x)' /\ FoundOK(r, x)' /\ NightOK(x)'
  BY <1>2, <1>5, FieldsOf DEF FlowOK, FoundOK, NightOK, NightSteps, HourSteps, RowSteps
<1>8. Known(r)'
  BY <1>2, <1>4, <1>5, KnownOf DEF Becomes, MonthSteps, NightSteps
<1> QED
  BY <1>1, <1>2, <1>4, <1>5, <1>6, <1>7, <1>8, Bounds DEF WellMoved, Moves, LocalOK

\* The last steps of calls of one user.
LEMMA LastStepMoves ==
    ASSUME TablesOK, RunsInv, NEW r \in Runs, run[r].pc \in OtherSteps, NextUser(r, "done"),
           clock' = clock, entangled' = entangled, faults' = faults
    PROVE  WellMoved(r)
<1>1. PICK o : o = run[r]
  OBVIOUS
<1>2. LocalOK(r, o) /\ Active(r)
  BY <1>1 DEF RunsInv, RunsOK, NightsOK, LocalOK, Active, At, OtherSteps
<1>3. o.body.kind \notin {"NIGHT", "HOURLY"}
  BY <1>1, <1>2, FieldsOf DEF FlowOK, NightSteps, HourSteps, OtherSteps
<1> QED
  BY <1>1, <1>2, <1>3, NextUserWell

\* The backfill finds nothing.
LEMMA SelectMoves ==
    ASSUME TablesOK, RunsInv, NEW r \in Runs, SelectUncategorized(r)
    PROVE  WellMoved(r)
<1>1. PICK o : o = run[r]
  OBVIOUS
<1>2. /\ LocalOK(r, o) /\ Active(r) /\ o.pc = "select" /\ clock' = clock
      /\ entangled' = entangled /\ faults' = faults
  BY <1>1 DEF RunsInv, RunsOK, NightsOK, LocalOK, Active, At, SelectUncategorized, tables
<1>3. o.half \in [1..2 -> {"find", "got"}] /\ o.body.kind \notin {"NIGHT", "HOURLY"}
  BY <1>2, FieldsOf DEF FlowOK, HourSteps, NightSteps
<1>4. Uncategorized(User(r)) = {}
  BY DEF Uncategorized, TablesOK, TxsOK, TxType
<1>5. Finds(r, "fill", {})
  BY <1>4 DEF SelectUncategorized, Finds
<1>6. PICK x : /\ Moves(r, x) /\ LocalOK(r, x)' /\ x.pc = "fill"
               /\ x.todo = o.todo /\ x.found = {}
  <2>1. "fill" \in HourSteps \cup {"fill"} /\ RowsOf(r, Head(o.todo), {})'
    BY DEF RowsOf
  <2> QED
    BY <1>1, <1>2, <1>3, <1>5, <2>1, FoundMoves
<1>7. Known(r)'
  BY <1>2, <1>6, KnownOf DEF Moves, Becomes, MonthSteps, NightSteps
<1> QED
  BY <1>6, <1>7 DEF WellMoved

\* So it has no row to change.
LEMMA FillNextEnds ==
    ASSUME TablesOK, RunsInv, NEW r \in Runs, FillNext(r)
    PROVE  /\ NextUser(r, "done") /\ UNCHANGED txs /\ run[r].pc = "fill"
           /\ clock' = clock /\ entangled' = entangled /\ faults' = faults
<1>1. PICK o : o = run[r]
  OBVIOUS
<1>2. LocalOK(r, o) /\ o.pc = "fill"
  BY <1>1 DEF RunsInv, RunsOK, NightsOK, LocalOK, At, FillNext
<1>3. FoundOK(r, o)
  BY <1>2 DEF LocalOK
<1>4. o.found = {}
  BY <1>2, <1>3 DEF FoundOK
<1> QED
  BY <1>1, <1>2, <1>4 DEF FillNext

\* The last steps of the demo, the backfill and the user's choice.
LEMMA EndingMoves ==
    ASSUME TablesOK, RunsInv, NEW r \in Runs, AddDemo(r) \/ FillNext(r) \/ Recategorize(r)
    PROVE  WellMoved(r)
<1>1. CASE AddDemo(r)
  <2>1. run[r].pc \in OtherSteps
    BY <1>1 DEF AddDemo, At, OtherSteps
  <2>2. NextUser(r, "done") /\ clock' = clock /\ entangled' = entangled /\ faults' = faults
    BY <1>1 DEF AddDemo
  <2> QED
    BY <2>1, <2>2, LastStepMoves
<1>2. CASE FillNext(r)
  BY <1>2, FillNextEnds, LastStepMoves DEF OtherSteps
<1>3. CASE Recategorize(r)
  <2>1. run[r].pc \in OtherSteps
    BY <1>3 DEF Recategorize, At, OtherSteps
  <2>2. NextUser(r, "done") /\ clock' = clock /\ entangled' = entangled /\ faults' = faults
    BY <1>3 DEF Recategorize
  <2> QED
    BY <2>1, <2>2, LastStepMoves
<1> QED
  BY <1>1, <1>2, <1>3

\* Every step of a run under way leaves it in order.
LEMMA StepMoves ==
    ASSUME TablesOK, RunsInv, NEW r \in Runs, AnalyticsStep(r) \/ InsightStep(r) \/ Fails(r)
    PROVE  WellMoved(r)
<1>1. CASE AnalyticsStep(r)
  BY <1>1, CurReadMoves, CurWriteMoves, FindLastMoves, LastReadMoves, LastWriteMoves,
     CompareMoves, SetScoreMoves, GatherMoves, GatheredMoves, DismissExpiredMoves, InsertMoves
     DEF AnalyticsStep
<1>2. CASE InsightStep(r)
  BY <1>2, SpotMoves, FilterDuplicatesMoves, AddFreshMoves, WipeMoves, SelectMoves, EndingMoves
     DEF InsightStep
<1> QED
  BY <1>1, <1>2, FailsMoves

-----------------------------------------------------------------------------
(* The start of runs, and steps that move none.                            *)

\* An order names each user of a set once.
LEMMA OrderNamesAll ==
    ASSUME NEW S, IsFiniteSet(S), NEW order \in SetToSeqs(S)
    PROVE  order \in Seq(S) /\ Range(order) = S
<1>1. PICK n \in Nat : n = Cardinality(S)
  BY FS_CardinalityType
<1>2. order \in [1..n -> S] /\ \A i, j \in 1..n : i # j => order[i] # order[j]
  BY <1>1 DEF SetToSeqs
<1>3. order \in Injection(1..n, S)
  BY <1>2 DEF Injection, IsInjective
<1>4. Cardinality(1..n) = n
  BY FS_Interval
<1>5. order \in Surjection(1..n, S)
  BY <1>1, <1>3, <1>4, FS_Injection
<1>6. \A v \in S : \E i \in 1..n : order[i] = v
  BY <1>5 DEF Surjection
<1>7. Range(order) = S
  BY <1>2, <1>6 DEF Range
<1>8. order \in Seq(S)
  BY <1>1, <1>2
<1> QED
  BY <1>7, <1>8

LEMMA OrderOfSome ==
    ASSUME NEW S, NEW T, IsFiniteSet(S), S \subseteq T, NEW order \in SetToSeqs(S)
    PROVE  order \in Seq(T) /\ Range(order) = S
<1>1. order \in Seq(S) /\ Range(order) = S
  BY OrderNamesAll
<1>2. Len(order) \in Nat /\ order \in [1..Len(order) -> S]
  BY <1>1
<1>3. order \in [1..Len(order) -> T]
  BY <1>2
<1> QED
  BY <1>1, <1>2, <1>3

\* The first steps of runs.
FirstSteps == {"curRead", "gather", "spot", "wipe", "select", "choose"}

\* A run that begins is in order.
LEMMA BeginOK ==
    ASSUME TablesOK, RunsInv, NEW r \in Runs, At(r, "idle"), clock' \in Nat, clock <= clock',
           faults' = faults, NEW order \in Seq(Users), NEW first \in FirstSteps,
           NEW month \in 0..Month(Days), Begin(r, order, first, month),
           run[r].body.kind = "NIGHT" => first = "curRead" /\ Range(order) = ActiveUsers,
           run[r].body.kind = "HOURLY" <=> first = "spot"
    PROVE  \E x : /\ Becomes(r, x) /\ LocalOK(r, x)' /\ x.body = run[r].body
                  /\ x.pc \in {first, "done"} /\ x.month = month
                  /\ x.half \in [1..2 -> {"find", "got"}]
<1>1. PICK o : o = run[r]
  OBVIOUS
<1>2. RunsOK /\ LocalOK(r, o) /\ o.pc = "idle"
  BY <1>1 DEF RunsInv, RunsOK, NightsOK, LocalOK, At
<1>3. PICK pc : pc = IF order = <<>> THEN "done" ELSE first
  OBVIOUS
<1>4. run' = [run EXCEPT ![r].pc = pc, ![r].todo = order, ![r].month = month]
  BY <1>3 DEF Begin
<1>5. PICK x : x = Run(o.body, pc, order, month, o.figures, o.half, o.got, o.found, o.day,
                       o.served, o.failed)
  OBVIOUS
<1>6. Becomes(r, x)
  BY <1>1, <1>2, <1>4, <1>5, ToTodo
<1>7. /\ x.body = o.body /\ x.pc = pc /\ x.todo = order /\ x.month = month
      /\ x.half = o.half /\ x.found = o.found /\ x.served = o.served /\ x.failed = o.failed
  BY <1>5 DEF Run
<1>8. x.half \in [1..2 -> {"find", "got"}]
  BY <1>2, <1>7 DEF LocalOK, FlowOK
<1>9. RunOK(x)'
  <2>1. pc \in Pcs
    BY <1>3 DEF FirstSteps, Pcs, NightSteps, HourSteps, OtherSteps
  <2>2. /\ o.body \in Bodies /\ o.figures \in FiguresType /\ o.got \in [1..2 -> FiguresType]
        /\ o.half \in [1..2 -> {"find", "read", "put", "got"}] /\ o.day \in 0..clock
    BY <1>2 DEF LocalOK, RunOK
  <2>3. o.day \in 0..clock'
    BY <2>2, Bounds
  <2> QED
    BY <1>5, <2>1, <2>2, <2>3, TypedRun
<1>10. FlowOK(x)' /\ FoundOK(r, x)'
  BY <1>1, <1>3, <1>7, <1>8 DEF FlowOK, FoundOK, FirstSteps, NightSteps, HourSteps, RowSteps
<1>11. NightOK(x)'
  <2>1. IsFiniteSet(x.failed) /\ Cardinality(x.failed) <= faults' /\ x.served = {} /\ x.failed = {}
    BY <1>2, <1>7 DEF LocalOK, NightOK
  <2>2. x.pc # "idle"
    BY <1>3, <1>7 DEF FirstSteps
  <2>3. x.body.kind = "NIGHT" => Range(x.todo) = ActiveUsers /\ (x.pc = "done" => x.todo = <<>>)
    BY <1>1, <1>3, <1>7
  <2>4. x.todo = <<>> => Range(x.todo) = {}
    BY DEF Range
  <2> QED
    BY <2>1, <2>2, <2>3, <2>4 DEF NightOK
<1>12. x.pc \in {first, "done"}
  BY <1>3, <1>7
<1> QED
  BY <1>1, <1>6, <1>7, <1>8, <1>9, <1>10, <1>11, <1>12 DEF LocalOK

\* The runs that stay as they are stay in order.
LEMMA OthersStay ==
    ASSUME TablesOK, RunsInv, clock' \in Nat, clock <= clock', faults' = faults, DOMAIN run' = Runs,
           \A s \in Runs : run'[s] = run[s] \/ \E y : y = run'[s] /\ LocalOK(s, y)'
    PROVE  RunsOK' /\ NightsOK'
<1>1. ASSUME NEW s \in Runs PROVE \E y : y = run'[s] /\ LocalOK(s, y)'
  <2>1. CASE run'[s] = run[s]
    <3>1. PICK y : y = run[s]
      OBVIOUS
    <3>2. LocalOK(s, y)
      BY <3>1 DEF RunsInv, RunsOK, NightsOK, LocalOK
    <3>3. LocalOK(s, y)'
      BY <3>2, Bounds, LocalStays
    <3> QED
      BY <2>1, <3>1, <3>3
  <2> QED
    BY <2>1
<1> QED
  BY <1>1, AllLocal

\* Run r begins while everything else under way becomes entangled.
LEMMA BeginKeeps ==
    ASSUME TablesOK, RunsInv, NEW r \in Runs, NEW x, Becomes(r, x), LocalOK(r, x)',
           clock' \in Nat, clock <= clock', faults' = faults, Known(r)',
           \A s \in Runs \ {r} : Active(s) => s \in entangled' /\ r \in entangled'
    PROVE  RunsInv'
<1>1. DOMAIN run' = Runs /\ run'[r] = x /\ \A s \in Runs \ {r} : run'[s] = run[s]
  BY DEF Becomes
<1>2. RunsOK' /\ NightsOK'
  <2>1. \A s \in Runs : run'[s] = run[s] \/ \E y : y = run'[s] /\ LocalOK(s, y)'
    BY <1>1
  <2> QED
    BY <1>1, <2>1, OthersStay
<1>3. ASSUME NEW s \in Runs \ {r} PROVE Active(s)' => Active(s)
  BY <1>1 DEF Active
<1>4. Alone' /\ KnownAlone'
  BY <1>3 DEF Alone, KnownAlone, Undisturbed
<1> QED
  BY <1>2, <1>4 DEF RunsInv

LEMMA FirstKnown ==
    ASSUME NEW r \in Runs, NEW x, Becomes(r, x), NEW first \in FirstSteps, x.pc \in {first, "done"},
           x.half \in [1..2 -> {"find", "got"}], first # "curRead" => x.month = Month(clock)'
    PROVE  Known(r)'
<1>1. run'[r] = x /\ x.pc \in FirstSteps \cup {"done"}
  BY DEF Becomes
<1>2. MonthKnown(r)'
  BY <1>1 DEF MonthKnown, MonthSteps, NightSteps, FirstSteps
<1>3. MissingStill(r)'
  <2>1. \A k \in 1..2 : x.half[k] \notin {"read", "put"}
    OBVIOUS
  <2> QED
    BY <1>1, <2>1 DEF MissingStill, FirstSteps
<1>4. TodaysRows(r)'
  BY <1>1 DEF TodaysRows, FirstSteps
<1> QED
  BY <1>2, <1>3, <1>4 DEF Known

LEMMA FirstStepOf ==
    ASSUME NEW kind \in RunKinds \ {"NIGHT"}
    PROVE  /\ FirstStep(kind) \in FirstSteps
           /\ kind = "HOURLY" <=> FirstStep(kind) = "spot"
BY DEF RunKinds, FirstStep, FirstSteps

LEMMA BodyOf ==
    ASSUME NEW body \in Bodies
    PROVE  body.kind \in RunKinds /\ (body.kind \notin {"NIGHT", "HOURLY"} => body.user \in Users)
BY SnapshotsAssumption

LEMMA StartKeeps == ASSUME TablesOK, RunsInv, NEW r \in Runs, Start(r) PROVE RunsInv'
<1>1. PICK o : o = run[r]
  OBVIOUS
<1>2. /\ o.body \in Bodies /\ At(r, "idle") /\ o.body.kind # "NIGHT"
      /\ clock' = clock /\ faults' = faults
  BY <1>1 DEF RunsInv, RunsOK, RunOK, Start, tables
<1>3. o.body.kind \in RunKinds \ {"NIGHT"}
  BY <1>2, BodyOf
<1>4. PICK all : all = IF o.body.kind = "HOURLY" THEN Users ELSE {o.body.user}
  OBVIOUS
<1>5. PICK order \in SetToSeqs(all) : Begin(r, order, FirstStep(o.body.kind), Month(clock))
  BY <1>1, <1>4 DEF Start
<1>6. order \in Seq(Users)
  <2>1. all \subseteq Users
    BY <1>2, <1>4, BodyOf
  <2>2. IsFiniteSet(all)
    BY <2>1, FiguresAssumption, FS_Subset
  <2> QED
    BY <2>1, <2>2, OrderOfSome
<1>7. PICK first \in FirstSteps : first = FirstStep(o.body.kind)
  BY <1>3, FirstStepOf
<1>8. PICK month \in 0..Month(Days) : month = Month(clock)
  BY Bounds
<1>9. Begin(r, order, first, month)
  BY <1>5, <1>7, <1>8
<1>10. o.body.kind = "HOURLY" <=> first = "spot"
  BY <1>3, <1>7, FirstStepOf
<1>11. PICK x : /\ Becomes(r, x) /\ LocalOK(r, x)' /\ x.pc \in {first, "done"}
                /\ x.month = month /\ x.half \in [1..2 -> {"find", "got"}]
  BY <1>1, <1>2, <1>6, <1>9, <1>10, Bounds, BeginOK
<1>12. Known(r)'
  BY <1>2, <1>8, <1>11, FirstKnown
<1>13. \A s \in Runs \ {r} : Active(s) => s \in entangled' /\ r \in entangled'
  BY DEF Start
<1> QED
  BY <1>2, <1>11, <1>12, <1>13, Bounds, BeginKeeps

\* At midnight everything under way is entangled; a night that begins with
\* nothing under way is not.
LEMMA NewDayKeeps == ASSUME TablesOK, RunsInv, NewDay PROVE RunsInv'
<1>1. clock' \in Nat /\ clock <= clock' /\ faults' = faults /\ clock \in Nat
  BY Bounds DEF NewDay
<1>2. CASE UNCHANGED run /\ entangled' = entangled \cup {r \in Runs : Active(r)}
  <2>1. RunsOK' /\ NightsOK'
    <3>1. DOMAIN run' = Runs
      BY <1>2 DEF RunsInv, RunsOK
    <3>2. \A s \in Runs : run'[s] = run[s]
      BY <1>2
    <3> QED
      BY <1>1, <3>1, <3>2, OthersStay
  <2>2. \A s \in Runs : ~ Undisturbed(s)'
    BY <1>2 DEF Undisturbed, Active
  <2> QED
    BY <2>1, <2>2 DEF RunsInv, Alone, KnownAlone
<1>3. CASE ~ UNCHANGED run \/ ~ (entangled' = entangled \cup {r \in Runs : Active(r)})
  <2>1. PICK r \in Runs, order \in SetToSeqs(ActiveUsers) :
             /\ run[r].body.kind = "NIGHT" /\ At(r, "idle")
             /\ Begin(r, order, "curRead", 0)
             /\ entangled' = entangled \cup {s \in Runs : Active(s)}
                                       \cup {s \in {r} : \E o \in Runs : Active(o)}
    BY <1>3 DEF NewDay
  <2>2. order \in Seq(Users) /\ Range(order) = ActiveUsers
    <3>1. ActiveUsers \subseteq Users /\ IsFiniteSet(ActiveUsers)
      BY FiguresAssumption, SnapshotsAssumption, FS_Subset
    <3> QED
      BY <3>1, OrderOfSome
  <2>3. PICK first \in FirstSteps : first = "curRead"
    BY DEF FirstSteps
  <2>4. 0 \in 0..Month(Days)
    <3>1. Month(Days) \in Nat
      BY FiguresAssumption, MonthsAreIntervals
    <3> QED
      BY <3>1
  <2>5. Begin(r, order, first, 0) /\ run[r].body.kind # "HOURLY" /\ first # "spot"
    BY <2>1, <2>3
  <2>6. PICK x : /\ Becomes(r, x) /\ LocalOK(r, x)' /\ x.pc \in {first, "done"}
                 /\ x.month = 0 /\ x.half \in [1..2 -> {"find", "got"}]
    BY <1>1, <2>1, <2>2, <2>3, <2>4, <2>5, BeginOK
  <2>7. Known(r)'
    BY <2>3, <2>6, FirstKnown
  <2>8. \A s \in Runs \ {r} : Active(s) => s \in entangled' /\ r \in entangled'
    BY <2>1
  <2> QED
    BY <1>1, <2>6, <2>7, <2>8, BeginKeeps
<1> QED
  BY <1>2, <1>3

\* A step that moves no run may add no row for which one has looked.
LEMMA StayKeeps ==
    ASSUME TablesOK, RunsInv, UNCHANGED <<clock, run, faults, entangled>>, snaps' = snaps,
           \A j \in insights' : \E i \in insights :
               <<i.user, i.type, i.day>> = <<j.user, j.type, j.day>>
    PROVE  RunsInv'
<1>1. RunsOK' /\ NightsOK'
  <2>1. DOMAIN run' = Runs /\ \A s \in Runs : run'[s] = run[s]
    BY DEF RunsInv, RunsOK
  <2> QED
    BY <2>1, Bounds, OthersStay
<1>2. \A s \in Runs : (Active(s)' <=> Active(s)) /\ (Undisturbed(s)' <=> Undisturbed(s))
  BY DEF Active, Undisturbed
<1>3. Alone'
  BY <1>2 DEF RunsInv, Alone
<1>4. ASSUME NEW r \in Runs, Known(r) PROVE Known(r)'
  <2>1. MonthKnown(r)' /\ MissingStill(r)'
    BY <1>4 DEF Known, MonthKnown, MissingStill, User, HalfMonth
  <2>2. TodaysRows(r)'
    BY <1>4 DEF Known, TodaysRows
  <2> QED
    BY <2>1, <2>2 DEF Known
<1>5. KnownAlone'
  BY <1>2, <1>4 DEF RunsInv, KnownAlone
<1> QED
  BY <1>1, <1>3, <1>5 DEF RunsInv

-----------------------------------------------------------------------------
(* The tables.                                                             *)

LEMMA UserOf ==
    ASSUME RunsInv, NEW r \in Runs, Active(r)
    PROVE  /\ User(r) \in Users /\ run[r].figures \in FiguresType /\ run[r].day \in 0..clock
           /\ \A k \in 1..2 : run[r].got[k] \in FiguresType
<1>1. PICK o : o = run[r]
  OBVIOUS
<1>2. LocalOK(r, o) /\ o.pc \notin {"idle", "done"}
  BY <1>1 DEF RunsInv, RunsOK, NightsOK, LocalOK, Active, At
<1>3. /\ o.todo \in Seq(Users) /\ o.todo # <<>> /\ o.figures \in FiguresType /\ o.day \in 0..clock
      /\ o.got \in [1..2 -> FiguresType]
  BY <1>2 DEF LocalOK, RunOK, FlowOK
<1> QED
  BY <1>1, <1>3, HeadAndTail DEF User

\* A row written anew is one that the table may hold.
LEMMA RowWritten ==
    ASSUME SnapsOK, NEW u, NEW m, NEW row, SnapOK(row), snaps' = [snaps EXCEPT ![u][m] = row]
    PROVE  SnapsOK'
<1>1. DOMAIN snaps' = Users
  BY DEF SnapsOK
<1>2. ASSUME NEW v \in Users
      PROVE  DOMAIN snaps'[v] = Months /\ \A n \in Months : SnapOK(snaps'[v][n])
  <2>1. DOMAIN snaps = Users /\ DOMAIN snaps[v] = Months /\ \A n \in Months : SnapOK(snaps[v][n])
    BY DEF SnapsOK
  <2>2. CASE v = u
    <3>1. snaps'[v] = [snaps[v] EXCEPT ![m] = row]
      BY <2>1, <2>2
    <3> QED
      BY <2>1, <3>1
  <2>3. CASE v # u
    <3>1. snaps'[v] = snaps[v]
      BY <2>1, <2>3
    <3> QED
      BY <2>1, <3>1
  <2> QED
    BY <2>2, <2>3
<1>3. \A row2 : SnapOK(row2)' <=> SnapOK(row2)
  BY DEF SnapOK
<1> QED
  BY <1>1, <1>2 DEF SnapsOK, SnapOK

LEMMA SnapIsOK ==
    ASSUME NEW figures \in FiguresType, NEW compared
    PROVE  SnapOK(Snap(figures, compared))
<1>1. PICK row : row = Snap(figures, compared)
  OBVIOUS
<1>2. row.figures = figures /\ row.compared = compared
  BY <1>1 DEF Snap
<1> QED
  BY <1>1, <1>2 DEF SnapOK

LEMMA UpsertKeeps ==
    ASSUME SnapsOK, NEW u, NEW m, NEW figures \in FiguresType, Upsert(u, m, figures)
    PROVE  SnapsOK'
<1>1. PICK row : row = Snap(figures, IF snaps[u][m].exists THEN snaps[u][m].compared ELSE <<>>)
  OBVIOUS
<1>2. SnapOK(row)
  BY <1>1, SnapIsOK
<1>3. snaps' = [snaps EXCEPT ![u][m] = row]
  BY <1>1 DEF Upsert
<1> QED
  BY <1>2, <1>3, RowWritten

LEMMA AttachKeeps ==
    ASSUME SnapsOK, NEW u \in Users, NEW m \in Months, NEW v,
           snaps' = [snaps EXCEPT ![u][m].compared = v]
    PROVE  SnapsOK'
<1>1. PICK row : row = snaps[u][m]
  OBVIOUS
<1>2. SnapOK(row)
  BY <1>1 DEF SnapsOK
<1>3. PICK new : new = [row EXCEPT !.compared = v]
  OBVIOUS
<1>4. snaps' = [snaps EXCEPT ![u][m] = new]
  BY <1>1, <1>3
<1>5. SnapOK(new)
  <2>1. CASE row = NoSnap
    <3>1. new = NoSnap
      BY <1>3, <2>1 DEF NoSnap
    <3> QED
      BY <3>1 DEF SnapOK
  <2>2. CASE row # NoSnap
    <3>1. PICK f, c : row = Snap(f, c) /\ f \in FiguresType
      BY <1>2, <2>2 DEF SnapOK
    <3>2. new = Snap(f, v)
      BY <1>3, <3>1 DEF Snap
    <3> QED
      BY <3>1, <3>2, SnapIsOK
  <2> QED
    BY <2>1, <2>2
<1> QED
  BY <1>4, <1>5, RowWritten

\* The stored figures of a step of a run.
LEMMA SnapsKept ==
    ASSUME TablesOK, RunsInv, NEW r \in Runs, AnalyticsStep(r) \/ InsightStep(r) \/ Fails(r)
    PROVE  SnapsOK'
<1>1. SnapsOK
  BY DEF TablesOK
<1>2. CASE UNCHANGED snaps
  BY <1>1, <1>2 DEF SnapsOK, SnapOK
<1>3. CASE CurWrite(r) \/ LastWrite(r)
  <2>1. Active(r)
    BY <1>3 DEF CurWrite, LastWrite, Active, At
  <2>2. PICK u, m, figures : Upsert(u, m, figures) /\ figures \in FiguresType
    BY <1>3, <2>1, UserOf DEF CurWrite, LastWrite
  <2> QED
    BY <1>1, <2>2, UpsertKeeps
<1>4. CASE Compare(r)
  <2>1. Active(r)
    BY <1>4 DEF Compare, Active, At
  <2>2. PICK u \in Users : u = User(r)
    BY <2>1, UserOf
  <2>3. PICK m \in Months : m = run[r].month
    <3>1. run[r].month \in 0..Month(Days)
      BY DEF RunsInv, RunsOK, RunOK
    <3>2. Month(Days) \in Nat
      BY FiguresAssumption, MonthsAreIntervals
    <3> QED
      BY <3>1, <3>2 DEF Months
  <2>4. PICK v : snaps' = [snaps EXCEPT ![u][m].compared = v]
    BY <1>4, <2>2, <2>3 DEF Compare
  <2> QED
    BY <1>1, <2>4, AttachKeeps
<1>5. CASE \E k \in 1..2 : Gather(r, k)
  <2>1. Active(r)
    BY <1>5 DEF Gather, Active, At
  <2>2. UNCHANGED snaps \/ \E k \in 1..2 : Upsert(User(r), HalfMonth(r, k), run[r].got[k])
    BY <1>5 DEF Gather
  <2>3. CASE \E k \in 1..2 : Upsert(User(r), HalfMonth(r, k), run[r].got[k])
    <3>1. PICK u, m, figures : Upsert(u, m, figures) /\ figures \in FiguresType
      BY <2>1, <2>3, UserOf
    <3> QED
      BY <1>1, <3>1, UpsertKeeps
  <2> QED
    BY <1>2, <2>2, <2>3
<1>6. CASE CurRead(r) \/ FindLast(r) \/ LastRead(r) \/ SetScore(r) \/ Gathered(r)
           \/ DismissExpired(r) \/ Insert(r)
  BY <1>2, <1>6 DEF CurRead, FindLast, LastRead, SetScore, Gathered, DismissExpired, Insert, tables
<1>7. CASE InsightStep(r) \/ Fails(r)
  BY <1>2, <1>7 DEF InsightStep, Fails, Spot, FilterDuplicates, AddFresh, Wipe, AddDemo,
                    SelectUncategorized, FillNext, Recategorize, tables
<1> QED
  BY <1>3, <1>4, <1>5, <1>6, <1>7 DEF AnalyticsStep

\* The vaults of a user hold nothing or more together.
LEMMA SavingsNat ==
    ASSUME VaultsOK, NEW u
    PROVE  SavingsOf(u) \in Nat
<1>1. PICK held : held = [v \in Vaults |-> vaults[v].now]
  OBVIOUS
<1>2. PICK own : own = {v \in Vaults : VaultOwner[v] = u}
  OBVIOUS
<1>3. IsFiniteSet(own) /\ own \subseteq Vaults
  BY <1>2, SnapshotsAssumption, FS_Subset
<1>4. \A v \in own : held[v] \in Nat
  BY <1>1, <1>3 DEF VaultsOK
<1>5. SumFunctionOnSet(held, own) \in Nat
  BY <1>3, <1>4, SumNat
<1> QED
  BY <1>1, <1>2, <1>5 DEF SavingsOf

\* The score of a step of a run.
LEMMA ScoreKept ==
    ASSUME TablesOK, VaultsOK, RunsInv, NEW r \in Runs,
           AnalyticsStep(r) \/ InsightStep(r) \/ Fails(r)
    PROVE  ScoreOK'
<1>1. ScoreOK
  BY DEF TablesOK
<1>2. CASE UNCHANGED score
  BY <1>1, <1>2 DEF ScoreOK
<1>3. CASE SetScore(r)
  <2>1. Active(r)
    BY <1>3 DEF SetScore, Active, At
  <2>2. PICK u \in Users : u = User(r)
    BY <2>1, UserOf
  <2>3. PICK points : points = HealthScore(txs, SavingsOf(u), u, clock)
    OBVIOUS
  <2>4. points \in 0..100
    <3>1. Ledger(txs) /\ clock \in Nat /\ SavingsOf(u) \in Nat
      BY Bounds, TxsAreLedger, SavingsNat DEF TablesOK
    <3> QED
      BY <2>3, <3>1, ScoreInRange
  <2>5. score' = [score EXCEPT ![u] = points]
    BY <1>3, <2>2, <2>3 DEF SetScore
  <2> QED
    BY <1>1, <2>4, <2>5 DEF ScoreOK
<1>4. CASE CurRead(r) \/ CurWrite(r) \/ FindLast(r) \/ LastRead(r) \/ LastWrite(r) \/ Compare(r)
           \/ (\E k \in 1..2 : Gather(r, k)) \/ Gathered(r) \/ DismissExpired(r) \/ Insert(r)
  BY <1>2, <1>4 DEF CurRead, CurWrite, FindLast, LastRead, LastWrite, Compare, Gather, Gathered,
                    DismissExpired, Insert, tables
<1>5. CASE InsightStep(r) \/ Fails(r)
  BY <1>2, <1>5 DEF InsightStep, Fails, Spot, FilterDuplicates, AddFresh, Wipe, AddDemo,
                    SelectUncategorized, FillNext, Recategorize, tables
<1> QED
  BY <1>3, <1>4, <1>5 DEF AnalyticsStep

-----------------------------------------------------------------------------
(* The insights.                                                           *)

\* Two rows that say the same of the same day, from the same run.
Alike(i, j) == i.user = j.user /\ i.type = j.type /\ i.day = j.day /\ i.by = j.by

InsightsOK == \A i \in insights : InsightOK(i)

\* A row as it was made, read or dismissed since.
LEMMA RowEdited ==
    ASSUME NEW i, InsightOK(i),
           NEW j \in {[i EXCEPT !.read = TRUE], [i EXCEPT !.dismissed = TRUE], i}
    PROVE  InsightOK(j) /\ Alike(i, j)
<1>1. PICK user, type, subject, day, expires, by, rd, dismissed :
         i = [user |-> user, type |-> type, subject |-> subject, day |-> day,
              expires |-> expires, by |-> by, read |-> rd, dismissed |-> dismissed]
  BY DEF InsightOK
<1>2. user \in Users /\ day \in 0..clock /\ by \in Runs
  BY <1>1 DEF InsightOK
<1>3. PICK r2, d2 : j = [user |-> user, type |-> type, subject |-> subject, day |-> day,
                         expires |-> expires, by |-> by, read |-> r2, dismissed |-> d2]
  BY <1>1
<1> QED
  BY <1>1, <1>2, <1>3 DEF InsightOK, Alike

LEMMA RowDated ==
    ASSUME NEW i, InsightOK(i), NEW j, j = [i EXCEPT !.day = clock], clock \in Nat
    PROVE  InsightOK(j) /\ j.by = i.by
<1>1. PICK user, type, subject, day, expires, by, rd, dismissed :
         i = [user |-> user, type |-> type, subject |-> subject, day |-> day,
              expires |-> expires, by |-> by, read |-> rd, dismissed |-> dismissed]
  BY DEF InsightOK
<1>2. user \in Users /\ by \in Runs /\ clock \in 0..clock
  BY <1>1 DEF InsightOK
<1>3. j = [user |-> user, type |-> type, subject |-> subject, day |-> clock,
           expires |-> expires, by |-> by, read |-> rd, dismissed |-> dismissed]
  BY <1>1
<1> QED
  BY <1>1, <1>2, <1>3 DEF InsightOK

\* Rows of a run that is not of the hourly job, or met another, or that says
\* what nobody has said that day, repeat nothing.
LEMMA OnceKept ==
    ASSUME InsightsOK, OnceADay, NEW r \in Runs, entangled \subseteq entangled',
           \A s \in Runs : run'[s].body = run[s].body,
           \A j \in insights' : (\E i \in insights : Alike(i, j)) \/ j.by = r,
           \/ run[r].body.kind # "HOURLY"
           \/ r \in entangled
           \/ \A j \in insights' : \/ \E i \in insights : Alike(i, j)
                                   \/ \A i \in insights : <<i.user, i.type, i.day>>
                                                          # <<j.user, j.type, j.day>>
    PROVE  OnceADay'
<1>1. \A i \in insights : i.by \in Runs
  BY DEF InsightsOK, InsightOK
<1>2. SUFFICES ASSUME NEW i \in insights', NEW j \in insights',
                      run'[i.by].body.kind = "HOURLY", run'[j.by].body.kind = "HOURLY",
                      <<i.user, i.type, i.day>> = <<j.user, j.type, j.day>>,
                      i.by # j.by
               PROVE  {i.by, j.by} \cap entangled # {}
  BY DEF OnceADay
<1>3. i.by \in Runs /\ j.by \in Runs
  BY <1>1 DEF Alike
<1>4. run[i.by].body.kind = "HOURLY" /\ run[j.by].body.kind = "HOURLY"
  BY <1>2, <1>3
<1>5. CASE (\E a \in insights : Alike(a, i)) /\ (\E b \in insights : Alike(b, j))
  <2>1. PICK a \in insights, b \in insights : Alike(a, i) /\ Alike(b, j)
    BY <1>5
  <2>2. a.by = i.by /\ b.by = j.by /\ <<a.user, a.type, a.day>> = <<b.user, b.type, b.day>>
    BY <1>2, <2>1 DEF Alike
  <2>3. run[a.by].body.kind = "HOURLY" /\ run[b.by].body.kind = "HOURLY"
    BY <1>4, <2>2
  <2>4. {a.by, b.by} \cap entangled # {}
    BY <1>2, <2>2, <2>3 DEF OnceADay
  <2> QED
    BY <2>2, <2>4
<1>6. CASE ~ (\E a \in insights : Alike(a, i)) /\ (\E b \in insights : Alike(b, j))
  <2>1. PICK b \in insights : Alike(b, j)
    BY <1>6
  <2>2. i.by = r /\ <<b.user, b.type, b.day>> = <<i.user, i.type, i.day>>
    BY <1>2, <1>6, <2>1 DEF Alike
  <2> QED
    BY <1>4, <1>6, <2>2
<1>7. CASE (\E a \in insights : Alike(a, i)) /\ ~ (\E b \in insights : Alike(b, j))
  <2>1. PICK a \in insights : Alike(a, i)
    BY <1>7
  <2>2. j.by = r /\ <<a.user, a.type, a.day>> = <<j.user, j.type, j.day>>
    BY <1>2, <1>7, <2>1 DEF Alike
  <2> QED
    BY <1>4, <1>7, <2>2
<1>8. CASE ~ (\E a \in insights : Alike(a, i)) /\ ~ (\E b \in insights : Alike(b, j))
  BY <1>2, <1>8
<1> QED
  BY <1>5, <1>6, <1>7, <1>8

LEMMA BodyKept ==
    ASSUME NEW r \in Runs, WellMoved(r)
    PROVE  (\A s \in Runs : run'[s].body = run[s].body) /\ entangled' = entangled /\ clock' = clock
BY DEF WellMoved, Moves, Becomes

\* The rows of a step of a run.
LEMMA InsightsKept ==
    ASSUME TablesOK, RunsInv, OnceADay, NEW r \in Runs,
           AnalyticsStep(r) \/ InsightStep(r) \/ Fails(r)
    PROVE  InsightsOK' /\ OnceADay'
<1>1. InsightsOK /\ clock \in Nat
  BY Bounds DEF TablesOK, InsightsOK
<1>2. WellMoved(r)
  BY StepMoves
<1>3. (\A s \in Runs : run'[s].body = run[s].body) /\ entangled' = entangled /\ clock' = clock
  BY <1>2, BodyKept
<1>4. \A i : InsightOK(i) => InsightOK(i)'
  BY <1>3 DEF InsightOK
<1>5. \A i : Alike(i, i)
  BY DEF Alike
<1>6. PICK o : o = run[r]
  OBVIOUS
<1>7. LocalOK(r, o)
  BY <1>6 DEF RunsInv, RunsOK, NightsOK, LocalOK
<1>8. CASE \A j \in insights' : \E i \in insights : InsightOK(j)' /\ Alike(i, j)
  <2>1. InsightsOK'
    BY <1>8 DEF InsightsOK
  <2> QED
    BY <1>1, <1>3, <1>8, <2>1, OnceKept
<1>9. CASE insights' \subseteq insights
  BY <1>1, <1>4, <1>5, <1>8, <1>9 DEF InsightsOK
<1>10. CASE DismissExpired(r)
  <2>1. ASSUME NEW j \in insights'
        PROVE  \E i \in insights : InsightOK(j)' /\ Alike(i, j)
    <3>1. PICK i \in insights : j \in {[i EXCEPT !.read = TRUE], [i EXCEPT !.dismissed = TRUE], i}
      BY <1>10 DEF DismissExpired
    <3>2. InsightOK(i)
      BY <1>1 DEF InsightsOK
    <3>3. InsightOK(j) /\ Alike(i, j)
      BY <3>1, <3>2, RowEdited
    <3> QED
      BY <1>4, <3>3
  <2> QED
    BY <1>8, <2>1
<1>11. CASE Insert(r)
  <2>1. o.pc = "insert"
    BY <1>6, <1>11 DEF Insert, At
  <2>2. o.body.kind # "HOURLY" /\ \A i \in o.found : InsightOK(i) /\ i.by = r
    BY <1>3, <1>7, <2>1, FieldsOf DEF FlowOK, FoundOK, HourSteps, RowSteps
  <2>3. ASSUME NEW j \in insights' PROVE InsightOK(j) /\ (j \in insights \/ j.by = r)
    <3>1. CASE j \in insights
      BY <1>1, <3>1 DEF InsightsOK
    <3>2. CASE j \notin insights
      <4>1. PICK i \in o.found : j = [i EXCEPT !.day = clock]
        BY <1>6, <1>11, <3>2 DEF Insert
      <4> QED
        BY <1>1, <2>2, <4>1, RowDated
    <3> QED
      BY <3>1, <3>2
  <2>4. InsightsOK'
    BY <1>4, <2>3 DEF InsightsOK
  <2>5. \A j \in insights' : (\E i \in insights : Alike(i, j)) \/ j.by = r
    BY <1>5, <2>3
  <2>6. run[r].body.kind # "HOURLY"
    BY <1>6, <2>2
  <2> QED
    BY <1>1, <1>3, <2>4, <2>5, <2>6, OnceKept
<1>12. CASE AddFresh(r)
  <2>1. o.pc = "add" /\ insights' = insights \cup o.found
    BY <1>6, <1>12 DEF AddFresh, At
  <2>2. \A i \in o.found : InsightOK(i) /\ i.by = r
    BY <1>3, <1>7, <2>1, FieldsOf DEF FoundOK, RowSteps
  <2>3. InsightsOK'
    BY <1>1, <1>4, <2>1, <2>2 DEF InsightsOK
  <2>4. \A j \in insights' : (\E i \in insights : Alike(i, j)) \/ j.by = r
    BY <1>5, <2>1, <2>2
  <2>5. ASSUME r \notin entangled
        PROVE  \A i \in o.found, j \in insights : <<i.user, i.type, i.day>> # <<j.user, j.type, j.day>>
    BY <1>6, <2>1, <2>5 DEF RunsInv, KnownAlone, Undisturbed, Active, At, Known, TodaysRows
  <2>6. \/ r \in entangled
        \/ \A j \in insights' : \/ \E i \in insights : Alike(i, j)
                                \/ \A i \in insights : <<i.user, i.type, i.day>>
                                                       # <<j.user, j.type, j.day>>
    BY <1>5, <2>1, <2>5
  <2> QED
    BY <1>1, <1>3, <2>3, <2>4, <2>6, OnceKept
<1>13. CASE AddDemo(r)
  <2>1. o.pc = "demo"
    BY <1>6, <1>13 DEF AddDemo, At
  <2>2. o.body.kind # "HOURLY" /\ User(r) \in Users /\ o.day \in 0..clock'
    BY <1>3, <1>6, <1>7, <2>1, FieldsOf, UserOf DEF FlowOK, HourSteps, Active, At
  <2>3. ASSUME NEW j \in insights' PROVE InsightOK(j)' /\ (j \in insights \/ j.by = r)
    <3>1. CASE j \in insights
      BY <1>1, <1>4, <3>1 DEF InsightsOK
    <3>2. CASE j \notin insights
      <4>1. PICK u \in Users : u = User(r)
        BY <2>2
      <4>2. PICK type : j = Insight(u, type, None, o.day, None, r)
        BY <1>6, <1>13, <3>2, <4>1 DEF AddDemo
      <4> QED
        BY <2>2, <4>2, NewInsightOK
    <3> QED
      BY <3>1, <3>2
  <2>4. InsightsOK'
    BY <2>3 DEF InsightsOK
  <2>5. \A j \in insights' : (\E i \in insights : Alike(i, j)) \/ j.by = r
    BY <1>5, <2>3
  <2>6. run[r].body.kind # "HOURLY"
    BY <1>6, <2>2
  <2> QED
    BY <1>1, <1>3, <2>4, <2>5, <2>6, OnceKept
<1>14. CASE Wipe(r)
  BY <1>9, <1>14 DEF Wipe
<1>15. CASE CurRead(r) \/ CurWrite(r) \/ FindLast(r) \/ LastRead(r) \/ LastWrite(r) \/ Compare(r)
           \/ SetScore(r) \/ (\E k \in 1..2 : Gather(r, k)) \/ Gathered(r)
  BY <1>9, <1>15 DEF CurRead, CurWrite, FindLast, LastRead, LastWrite, Compare, SetScore, Gather,
                     Gathered, tables
<1>16. CASE Spot(r) \/ FilterDuplicates(r) \/ SelectUncategorized(r) \/ FillNext(r)
            \/ Recategorize(r) \/ Fails(r)
  BY <1>9, <1>16 DEF Spot, FilterDuplicates, SelectUncategorized, FillNext, Recategorize, Fails, tables
<1> QED
  BY <1>10, <1>11, <1>12, <1>13, <1>14, <1>15, <1>16 DEF AnalyticsStep, InsightStep

-----------------------------------------------------------------------------
(* The ledger.                                                             *)

RowOK(row) ==
    /\ row \in TxType
    /\ row.source \in {"USER", None}
    /\ row.type # "DEPOSIT" => row.sender \in Users
    /\ row.type \in {"DEPOSIT", "P2P_TRANSFER"} => row.receiver \in Users

LEMMA LedgerOf ==
    TxsOK <=> /\ DOMAIN txs \subseteq TxIds
              /\ \A t \in DOMAIN txs : RowOK(txs[t]) /\ txs[t].day <= clock
BY DEF TxsOK, RowOK

\* A row that is changed, but not in its day.
LEMMA RowChanged ==
    ASSUME TxsOK, NEW t \in DOMAIN txs, NEW new, RowOK(new), clock' = clock,
           new.day = txs[t].day, txs' = [txs EXCEPT ![t] = new]
    PROVE  TxsOK'
<1>1. DOMAIN txs' = DOMAIN txs /\ \A o \in DOMAIN txs : txs'[o] = IF o = t THEN new ELSE txs[o]
  OBVIOUS
<1>2. \A o \in DOMAIN txs : RowOK(txs[o]) /\ txs[o].day <= clock
  BY LedgerOf
<1>3. \A o \in DOMAIN txs' : RowOK(txs'[o]) /\ txs'[o].day <= clock'
  BY <1>1, <1>2
<1>4. DOMAIN txs' \subseteq TxIds
  BY <1>1 DEF TxsOK
<1> QED
  BY <1>3, <1>4 DEF TxsOK, RowOK

\* A call writes a vault: a deposit adds to what it has read, a withdrawal takes
\* from what it has read and compared.
LEMMA VaultMoveKeeps ==
    ASSUME VaultsOK, NEW entry, entry.amount \in Nat, entry.type \in VaultTypes, VaultMove(entry)
    PROVE  VaultsOK'
<1>1. PICK amount \in Nat : amount = entry.amount
  OBVIOUS
<1>2. PICK v, seen, left :
         /\ v \in Vaults
         /\ seen \in vaults[v].was
         /\ left = IF entry.type = "VAULT_CONTRIBUTION" THEN seen + amount ELSE seen - amount
         /\ entry.type = "VAULT_WITHDRAWAL" => seen >= amount
         /\ vaults' = [vaults EXCEPT ![v] = [now |-> left, was |-> @.was \cup {left}]]
  BY <1>1 DEF VaultMove
<1>3. /\ vaults[v].was \in SUBSET Nat /\ seen \in Nat
      /\ entry.type = "VAULT_CONTRIBUTION" \/ entry.type = "VAULT_WITHDRAWAL"
  BY <1>2 DEF VaultsOK, VaultTypes
<1>4. left \in Nat
  BY <1>2, <1>3
<1>5. PICK had : had = vaults[v].was \cup {left}
  OBVIOUS
<1>6. PICK new : new = [now |-> left, was |-> had]
  OBVIOUS
<1>7. new \in [now : Nat, was : SUBSET Nat] /\ new.now \in new.was
  BY <1>3, <1>4, <1>5, <1>6
<1>8. vaults' = [vaults EXCEPT ![v] = new]
  BY <1>2, <1>5, <1>6
<1> QED
  BY <1>7, <1>8 DEF VaultsOK

\* A booking.
LEMMA BookKeeps == ASSUME TablesOK, VaultsOK, Book PROVE TxsOK' /\ VaultsOK'
<1>1. PICK t \in TxIds \ DOMAIN txs, entry \in Entries :
         /\ entry.day = clock
         /\ txs' = [o \in DOMAIN txs \cup {t} |-> IF o = t THEN entry ELSE txs[o]]
         /\ IF entry.type \in VaultTypes THEN VaultMove(entry) ELSE UNCHANGED vaults
  BY DEF Book
<1>2. PICK k : k = txs'
  OBVIOUS
<1>3. DOMAIN k = DOMAIN txs \cup {t} /\ (\A o \in DOMAIN txs : k[o] = txs[o]) /\ k[t] = entry
  BY <1>1, <1>2
<1>4. clock' = clock /\ TxsOK /\ clock \in Nat
  BY Bounds DEF Book, TablesOK
<1>5. RowOK(entry)
  BY SnapshotsAssumption DEF RowOK
<1>6. TxsOK'
  <2>1. \A row : RowOK(row)' <=> RowOK(row)
    BY DEF RowOK
  <2>2. \A o \in DOMAIN txs : RowOK(txs[o]) /\ txs[o].day <= clock
    BY <1>4, LedgerOf
  <2>3. \A o \in DOMAIN k : RowOK(k[o]) /\ k[o].day <= clock'
    <3> TAKE o \in DOMAIN k
    <3>1. CASE o = t
      BY <1>1, <1>3, <1>4, <1>5, <3>1
    <3>2. CASE o \in DOMAIN txs
      BY <1>3, <1>4, <2>2, <3>2
    <3> QED
      BY <1>3, <3>1, <3>2
  <2>4. DOMAIN k \subseteq TxIds
    BY <1>3, <1>4 DEF TxsOK
  <2> QED
    BY <1>2, <2>3, <2>4 DEF TxsOK, RowOK
<1>7. VaultsOK'
  <2>1. entry.amount \in Nat
    BY <1>5 DEF RowOK, TxType
  <2>2. CASE entry.type \in VaultTypes
    BY <1>1, <2>1, <2>2, VaultMoveKeeps
  <2>3. CASE entry.type \notin VaultTypes
    BY <1>1, <2>3 DEF VaultsOK
  <2> QED
    BY <2>2, <2>3
<1> QED
  BY <1>6, <1>7

\* A booking that is settled.
LEMMA SettleKeeps == ASSUME TablesOK, VaultsOK, Settle PROVE TxsOK' /\ VaultsOK'
<1>1. PICK t \in DOMAIN txs : txs' = [txs EXCEPT ![t].status = "COMPLETED"]
  BY DEF Settle
<1>2. PICK row : row = txs[t]
  OBVIOUS
<1>3. RowOK(row)
  BY <1>2, LedgerOf DEF TablesOK
<1>4. PICK new : new = [row EXCEPT !.status = "COMPLETED"]
  OBVIOUS
<1>5. RowOK(new) /\ new.day = row.day
  BY <1>3, <1>4 DEF RowOK, TxType
<1>6. txs' = [txs EXCEPT ![t] = new]
  BY <1>1, <1>2, <1>4
<1>7. clock' = clock /\ TxsOK /\ vaults' = vaults
  BY DEF Settle, TablesOK
<1> QED
  BY <1>2, <1>5, <1>6, <1>7, RowChanged DEF VaultsOK

\* The category a user chose.
LEMMA RecategorizeKeeps ==
    ASSUME TablesOK, VaultsOK, RunsInv, NEW r \in Runs, Recategorize(r)
    PROVE  TxsOK' /\ VaultsOK'
<1>1. PICK c : c = run[r].body.category
  OBVIOUS
<1>2. PICK t \in DOMAIN txs : txs' = [txs EXCEPT ![t].category = c, ![t].source = "USER"]
  BY <1>1 DEF Recategorize
<1>3. c \in Categories \cup {None}
  <2>1. run[r].body \in Bodies
    BY DEF RunsInv, RunsOK, RunOK
  <2> QED
    BY <1>1, <2>1, SnapshotsAssumption
<1>4. PICK row : row = txs[t]
  OBVIOUS
<1>5. RowOK(row)
  BY <1>4, LedgerOf DEF TablesOK
<1>6. PICK new : new = [row EXCEPT !.category = c, !.source = "USER"]
  OBVIOUS
<1>7. RowOK(new) /\ new.day = row.day
  BY <1>3, <1>5, <1>6 DEF RowOK, TxType
<1>8. txs' = [txs EXCEPT ![t] = new]
  BY <1>2, <1>4, <1>6
<1>9. clock' = clock /\ TxsOK /\ vaults' = vaults
  BY DEF Recategorize, TablesOK
<1> QED
  BY <1>4, <1>7, <1>8, <1>9, RowChanged DEF VaultsOK

-----------------------------------------------------------------------------
(* The invariant.                                                          *)

\* Before the first step every run is idle and every table empty.
LEMMA InitRun ==
    ASSUME NEW body \in Bodies, NEW r, clock = 0, faults = 0
    PROVE  LocalOK(r, Fresh(body)) /\ Fresh(body).pc = "idle" /\ Fresh(body).body = body
<1>1. PICK half : half = <<"find", "find">>
  OBVIOUS
<1>2. half \in [1..2 -> {"find", "got"}] /\ half \in [1..2 -> {"find", "read", "put", "got"}]
  BY <1>1
<1>3. PICK f \in FiguresType : f = NoFigures
  BY NoFiguresTyped
<1>4. PICK got : got = <<f, f>>
  OBVIOUS
<1>5. got \in [1..2 -> FiguresType]
  BY <1>4
<1>6. 0 \in 0..Month(Days)
  <2>1. Month(Days) \in Nat
    BY FiguresAssumption, MonthsAreIntervals
  <2> QED
    BY <2>1
<1>7. PICK x : x = Fresh(body)
  OBVIOUS
<1>8. x = Run(body, "idle", <<>>, 0, f, half, got, {}, 0, {}, {})
  BY <1>1, <1>3, <1>4, <1>7 DEF Fresh, Run
<1>9. /\ x.body = body /\ x.pc = "idle" /\ x.todo = <<>> /\ x.month = 0 /\ x.figures = f
      /\ x.half = half /\ x.got = got /\ x.found = {} /\ x.day = 0 /\ x.served = {} /\ x.failed = {}
  BY <1>8 DEF Run
<1>10. x = Run(x.body, x.pc, x.todo, x.month, x.figures, x.half, x.got, x.found, x.day,
               x.served, x.failed)
  BY <1>8, <1>9
<1>11. RunOK(x)
  <2>1. x.todo \in Seq(Users) /\ x.pc \in Pcs /\ x.day \in 0..clock
    BY <1>9 DEF Pcs
  <2> QED
    BY <1>2, <1>5, <1>6, <1>9, <1>10, <2>1 DEF RunOK, Run
<1>12. FlowOK(x) /\ FoundOK(r, x)
  BY <1>2, <1>9 DEF FlowOK, FoundOK, RowSteps, HourSteps
<1>13. NightOK(x)
  BY <1>9, FS_EmptySet DEF NightOK, NightSteps
<1> QED
  BY <1>7, <1>9, <1>11, <1>12, <1>13 DEF LocalOK

LEMMA InitOK == Init => ReportsInv
<1> SUFFICES ASSUME Init PROVE ReportsInv
  OBVIOUS
<1>1. /\ clock = 0 /\ faults = 0 /\ entangled = {} /\ insights = {} /\ txs = <<>>
      /\ snaps = [u \in Users |-> [m \in Months |-> NoSnap]] /\ score = [u \in Users |-> None]
      /\ run \in [Runs -> {Fresh(b) : b \in Bodies}]
  BY DEF Init
<1>2. DOMAIN txs = {}
  BY <1>1
<1>3. TxsOK
  BY <1>2 DEF TxsOK
<1>4. TablesOK
  <2>1. SnapsOK /\ ScoreOK
    BY <1>1 DEF SnapsOK, SnapOK, ScoreOK
  <2>2. clock \in 0..Days /\ faults \in 0..MaxFaults
    BY <1>1, FiguresAssumption, SnapshotsAssumption
  <2> QED
    BY <1>1, <1>3, <2>1, <2>2 DEF TablesOK
<1>5. VaultsOK
  BY DEF Init, VaultsOK
<1>6. ASSUME NEW r \in Runs PROVE \E x : x = run[r] /\ LocalOK(r, x) /\ x.pc = "idle"
  <2>1. PICK b \in Bodies : run[r] = Fresh(b)
    BY <1>1
  <2> QED
    BY <1>1, <2>1, InitRun
<1>7. RunsOK /\ NightsOK
  BY <1>1, <1>6 DEF RunsOK, NightsOK, LocalOK
<1>8. Alone /\ KnownAlone
  BY <1>6 DEF Alone, KnownAlone, Undisturbed, Active
<1>9. OnceADay
  BY <1>1 DEF OnceADay
<1> QED
  BY <1>4, <1>5, <1>7, <1>8, <1>9 DEF ReportsInv

\* The ledger of a step of a run: only a user's choice changes a row.
LEMMA LedgerKept ==
    ASSUME TablesOK, RunsInv, NEW r \in Runs, AnalyticsStep(r) \/ InsightStep(r) \/ Fails(r),
           ~ Recategorize(r)
    PROVE  txs' = txs /\ vaults' = vaults
<1>1. CASE AnalyticsStep(r)
  BY <1>1 DEF AnalyticsStep, CurRead, CurWrite, FindLast, LastRead, LastWrite, Compare, SetScore,
              Gather, Gathered, DismissExpired, Insert, tables
<1>2. CASE FillNext(r)
  BY <1>2, FillNextEnds DEF FillNext
<1>3. CASE InsightStep(r) /\ ~ FillNext(r)
  BY <1>3 DEF InsightStep, Spot, FilterDuplicates, AddFresh, Wipe, AddDemo, SelectUncategorized, tables
<1>4. CASE Fails(r)
  BY <1>4 DEF Fails, tables
<1> QED
  BY <1>1, <1>2, <1>3, <1>4

LEMMA MoneyStays ==
    ASSUME TxsOK, VaultsOK, txs' = txs, vaults' = vaults, clock \in Nat, clock' \in Nat, clock <= clock'
    PROVE  TxsOK' /\ VaultsOK'
<1>1. \A t \in DOMAIN txs : txs[t].day \in Nat /\ txs[t].day <= clock
  BY FiguresAssumption DEF TxsOK, TxType
<1>2. \A t \in DOMAIN txs : txs[t].day <= clock'
  BY <1>1
<1>3. TxsOK'
  BY <1>2 DEF TxsOK
<1>4. VaultsOK'
  BY DEF VaultsOK
<1> QED
  BY <1>3, <1>4

LEMMA RunStepKeeps ==
    ASSUME ReportsInv, NEW r \in Runs, AnalyticsStep(r) \/ InsightStep(r) \/ Fails(r)
    PROVE  ReportsInv'
<1>1. TablesOK /\ VaultsOK /\ RunsInv /\ OnceADay
  BY DEF ReportsInv, RunsInv
<1>2. WellMoved(r)
  BY <1>1, StepMoves
<1>3. RunsInv'
  BY <1>1, <1>2, MoveKeeps
<1>4. SnapsOK' /\ ScoreOK' /\ InsightsOK' /\ OnceADay'
  BY <1>1, SnapsKept, ScoreKept, InsightsKept
<1>5. clock' = clock /\ entangled' = entangled /\ faults' \in faults..MaxFaults
  BY <1>2 DEF WellMoved, Moves
<1>6. TxsOK' /\ VaultsOK'
  <2>1. CASE Recategorize(r)
    BY <1>1, <2>1, RecategorizeKeeps
  <2>2. CASE ~ Recategorize(r)
    <3>1. txs' = txs /\ vaults' = vaults
      BY <1>1, <2>2, LedgerKept
    <3> QED
      BY <1>1, <1>5, <3>1, Bounds, MoneyStays DEF TablesOK
  <2> QED
    BY <2>1, <2>2
<1>7. clock' \in 0..Days /\ faults' \in 0..MaxFaults /\ entangled' \subseteq Runs
  BY <1>1, <1>5, Bounds DEF TablesOK
<1> QED
  BY <1>3, <1>4, <1>6, <1>7 DEF ReportsInv, RunsInv, TablesOK, InsightsOK

\* The tables of a step that changes neither rows nor ledger.
LEMMA TablesStay ==
    ASSUME TablesOK, clock' \in 0..Days, clock <= clock', faults' = faults, entangled' \subseteq Runs,
           TxsOK', snaps' = snaps, score' = score, InsightsOK'
    PROVE  TablesOK'
<1>1. SnapsOK' /\ ScoreOK'
  BY DEF TablesOK, SnapsOK, SnapOK, ScoreOK
<1> QED
  BY <1>1 DEF TablesOK, InsightsOK

LEMMA InsightsStay ==
    ASSUME TablesOK, insights' = insights, clock' \in Nat, clock <= clock'
    PROVE  InsightsOK'
<1>1. \A i \in insights : InsightOK(i)
  BY DEF TablesOK
<1>2. clock \in Nat
  BY Bounds
<1>3. \A i : InsightOK(i) => InsightOK(i)'
  BY <1>2 DEF InsightOK
<1> QED
  BY <1>1, <1>3 DEF InsightsOK

LEMMA OnceStays ==
    ASSUME RunsInv, TablesOK, OnceADay, insights' = insights, entangled \subseteq entangled',
           \A s \in Runs : run'[s].body = run[s].body
    PROVE  OnceADay'
<1>1. \A i \in insights : i.by \in Runs
  BY DEF TablesOK, InsightOK
<1> QED
  BY <1>1 DEF OnceADay

LEMMA BeginBody ==
    ASSUME RunsOK, NEW r \in Runs, NEW order, NEW first, NEW month, Begin(r, order, first, month)
    PROVE  \A s \in Runs : run'[s].body = run[s].body
<1>1. PICK o : o = run[r]
  OBVIOUS
<1>2. PICK pc : pc = IF order = <<>> THEN "done" ELSE first
  OBVIOUS
<1>3. run' = [run EXCEPT ![r].pc = pc, ![r].todo = order, ![r].month = month]
  BY <1>2 DEF Begin
<1>4. PICK x : x = Run(o.body, pc, order, month, o.figures, o.half, o.got, o.found, o.day,
                       o.served, o.failed)
  OBVIOUS
<1>5. Becomes(r, x)
  BY <1>1, <1>3, <1>4, ToTodo
<1>6. x.body = o.body
  BY <1>4 DEF Run
<1> QED
  BY <1>1, <1>5, <1>6 DEF Becomes

LEMMA StartOK == ASSUME ReportsInv, NEW r \in Runs, Start(r) PROVE ReportsInv'
<1>1. TablesOK /\ VaultsOK /\ RunsInv /\ OnceADay /\ TxsOK
  BY DEF ReportsInv, RunsInv, TablesOK
<1>2. RunsInv'
  BY <1>1, StartKeeps
<1>3. /\ clock' = clock /\ faults' = faults /\ txs' = txs /\ snaps' = snaps /\ score' = score
      /\ insights' = insights /\ vaults' = vaults
  BY DEF Start, tables
<1>4. entangled \subseteq entangled' /\ entangled' \subseteq Runs
  BY <1>1 DEF Start, TablesOK
<1>5. clock' \in 0..Days /\ clock' \in Nat /\ clock <= clock' /\ clock \in Nat
  BY <1>1, <1>3, Bounds DEF TablesOK
<1>6. TxsOK' /\ VaultsOK'
  BY <1>1, <1>3, <1>5, MoneyStays
<1>7. InsightsOK'
  BY <1>1, <1>3, <1>5, InsightsStay
<1>8. TablesOK'
  BY <1>1, <1>3, <1>4, <1>5, <1>6, <1>7, TablesStay
<1>9. \A s \in Runs : run'[s].body = run[s].body
  <2>1. RunsOK
    BY <1>1 DEF RunsInv
  <2>2. \E order, first, month : Begin(r, order, first, month)
    BY DEF Start
  <2> QED
    BY <2>1, <2>2, BeginBody
<1>10. OnceADay'
  BY <1>1, <1>3, <1>4, <1>9, OnceStays
<1> QED
  BY <1>2, <1>6, <1>8, <1>10 DEF ReportsInv, RunsInv

LEMMA NewDayOK == ASSUME ReportsInv, NewDay PROVE ReportsInv'
<1>1. TablesOK /\ VaultsOK /\ RunsInv /\ OnceADay /\ TxsOK
  BY DEF ReportsInv, RunsInv, TablesOK
<1>2. RunsInv'
  BY <1>1, NewDayKeeps
<1>3. /\ clock' = clock + 1 /\ clock < Days /\ faults' = faults /\ txs' = txs /\ snaps' = snaps
      /\ score' = score /\ insights' = insights /\ vaults' = vaults
  BY DEF NewDay
<1>4. entangled \subseteq entangled' /\ entangled' \subseteq Runs
  BY <1>1 DEF NewDay, TablesOK
<1>5. clock' \in 0..Days /\ clock' \in Nat /\ clock <= clock' /\ clock \in Nat
  BY <1>1, <1>3, Bounds, FiguresAssumption
<1>6. TxsOK' /\ VaultsOK'
  BY <1>1, <1>3, <1>5, MoneyStays
<1>7. InsightsOK'
  BY <1>1, <1>3, <1>5, InsightsStay
<1>8. TablesOK'
  BY <1>1, <1>3, <1>4, <1>5, <1>6, <1>7, TablesStay
<1>9. \A s \in Runs : run'[s].body = run[s].body
  <2>1. RunsOK
    BY <1>1 DEF RunsInv
  <2>2. UNCHANGED run \/ \E r \in Runs : \E order : Begin(r, order, "curRead", 0)
    BY DEF NewDay
  <2>3. CASE \E r \in Runs : \E order : Begin(r, order, "curRead", 0)
    BY <2>1, <2>3, BeginBody
  <2> QED
    BY <2>2, <2>3
<1>10. OnceADay'
  BY <1>1, <1>3, <1>4, <1>9, OnceStays
<1> QED
  BY <1>2, <1>6, <1>8, <1>10 DEF ReportsInv, RunsInv

\* A booking, and its settlement.
LEMMA LedgerStepOK == ASSUME ReportsInv, Book \/ Settle PROVE ReportsInv'
<1>1. TablesOK /\ VaultsOK /\ RunsInv /\ OnceADay
  BY DEF ReportsInv, RunsInv
<1>2. TxsOK' /\ VaultsOK'
  BY <1>1, BookKeeps, SettleKeeps
<1>3. UNCHANGED <<clock, snaps, score, insights, run, faults, entangled>>
  BY DEF Book, Settle
<1>4. clock' \in 0..Days /\ clock' \in Nat /\ clock <= clock' /\ entangled' \subseteq Runs
  BY <1>1, <1>3, Bounds DEF TablesOK
<1>5. InsightsOK'
  BY <1>1, <1>3, <1>4, InsightsStay
<1>6. TablesOK'
  BY <1>1, <1>2, <1>3, <1>4, <1>5, TablesStay
<1>7. RunsInv'
  BY <1>1, <1>3, StayKeeps
<1>8. OnceADay'
  BY <1>1, <1>3, OnceStays
<1> QED
  BY <1>2, <1>6, <1>7, <1>8 DEF ReportsInv, RunsInv

\* A user reads or dismisses a row.
LEMMA MarkingOK ==
    ASSUME ReportsInv, NEW i \in insights, MarkRead(i) \/ Dismiss(i)
    PROVE  ReportsInv'
<1>1. TablesOK /\ VaultsOK /\ RunsInv /\ OnceADay /\ InsightsOK /\ TxsOK
  BY DEF ReportsInv, RunsInv, TablesOK, InsightsOK
<1>2. UNCHANGED <<clock, txs, vaults, snaps, score, run, faults, entangled>>
  BY DEF MarkRead, Dismiss
<1>3. PICK new \in {[i EXCEPT !.read = TRUE], [i EXCEPT !.dismissed = TRUE], i} :
         insights' = (insights \ {i}) \cup {new}
  BY DEF MarkRead, Dismiss
<1>4. InsightOK(new) /\ Alike(i, new)
  BY <1>1, <1>3, RowEdited DEF InsightsOK
<1>5. \A j \in insights' : InsightOK(j) /\ \E k \in insights : Alike(k, j)
  BY <1>1, <1>3, <1>4 DEF InsightsOK, Alike
<1>6. InsightsOK'
  BY <1>2, <1>5 DEF InsightsOK, InsightOK
<1>7. clock' \in 0..Days /\ clock' \in Nat /\ clock \in Nat /\ clock <= clock' /\ entangled' \subseteq Runs
  BY <1>1, <1>2, Bounds DEF TablesOK
<1>8. TxsOK' /\ VaultsOK'
  BY <1>1, <1>2, <1>7, MoneyStays
<1>9. TablesOK'
  BY <1>1, <1>2, <1>6, <1>7, <1>8, TablesStay
<1>10. RunsInv'
  <2>1. \A j \in insights' : \E k \in insights :
           <<k.user, k.type, k.day>> = <<j.user, j.type, j.day>>
    BY <1>5 DEF Alike
  <2> QED
    BY <1>1, <1>2, <2>1, StayKeeps
<1>11. OnceADay'
  <2>1. i.by \in Runs
    BY <1>1 DEF InsightsOK, InsightOK
  <2> QED
    BY <1>1, <1>2, <1>5, <2>1, OnceKept
<1> QED
  BY <1>8, <1>9, <1>10, <1>11 DEF ReportsInv, RunsInv

LEMMA StepOK == ReportsInv /\ [Next]_vars => ReportsInv'
<1> SUFFICES ASSUME ReportsInv, [Next]_vars PROVE ReportsInv'
  OBVIOUS
<1>1. CASE NewDay
  BY <1>1, NewDayOK
<1>2. CASE Book \/ Settle
  BY <1>2, LedgerStepOK
<1>3. CASE \E r \in Runs : Start(r)
  BY <1>3, StartOK
<1>4. CASE \E r \in Runs : AnalyticsStep(r) \/ InsightStep(r) \/ Fails(r)
  BY <1>4, RunStepKeeps
<1>5. CASE \E i \in insights : MarkRead(i) \/ Dismiss(i)
  BY <1>5, MarkingOK
<1>6. CASE UNCHANGED vars
  <2>1. UNCHANGED <<clock, txs, vaults, snaps, score, insights, run, faults, entangled>>
    BY <1>6 DEF vars, tables
  <2>2. TablesOK' /\ VaultsOK'
    BY <2>1 DEF ReportsInv, TablesOK, TxsOK, SnapsOK, SnapOK, ScoreOK, InsightOK, VaultsOK
  <2>3. RunsInv' /\ OnceADay'
    <3>1. RunsInv /\ TablesOK
      BY DEF ReportsInv, RunsInv
    <3> QED
      BY <2>1, <3>1, StayKeeps, OnceStays DEF ReportsInv
  <2> QED
    BY <2>2, <2>3 DEF ReportsInv, RunsInv
<1> QED
  BY <1>1, <1>2, <1>3, <1>4, <1>5, <1>6 DEF Next

\* The invariant holds of every behaviour of the jobs and endpoints.
THEOREM ReportsInvariance == Spec => []ReportsInv
BY InitOK, StepOK, PTL DEF Spec

\* The tables hold what their columns allow, whatever is booked, settled and
\* chosen and however vault calls overwrite each other; a score is one of 0 to
\* 100 points.
THEOREM ReportsAreTyped == Spec => []ReportsTypeOK
<1>1. ReportsInv => ReportsTypeOK
  <2> SUFFICES ASSUME ReportsInv PROVE ReportsTypeOK
    OBVIOUS
  <2>1. TablesOK /\ RunsInv /\ TxsOK /\ SnapsOK /\ ScoreOK
    BY DEF ReportsInv, RunsInv, TablesOK
  <2>2. \A u \in Users, m \in Months : snaps[u][m].exists => snaps[u][m].figures \in FiguresType
    BY <2>1 DEF SnapsOK, SnapOK, NoSnap
  <2>3. \A r \in Runs : Active(r) => User(r) \in Users
    BY <2>1, UserOf
  <2>4. \A v \in Vaults : vaults[v].was \subseteq Nat /\ vaults[v].now \in vaults[v].was
    BY DEF ReportsInv, VaultsOK
  <2> QED
    BY <2>1, <2>2, <2>3, <2>4 DEF ReportsTypeOK, TablesOK, TxsOK, ScoreOK, InsightOK
<1> QED
  BY <1>1, ReportsInvariance, PTL

\* Over all users, whatever transfers there were among them, the net cash flow
\* of a month is what came in from outside less what went out.
THEOREM TransfersDoCancelOut == Spec => []TransfersCancelOut
<1>1. ReportsInv => TransfersCancelOut
  BY TransfersCancel DEF ReportsInv, TablesOK
<1> QED
  BY <1>1, ReportsInvariance, PTL

\* What was spent this month is in the forecast, none of it twice.
THEOREM ForecastDoesCoverMonth == Spec => []ForecastCoversMonth
<1>1. ReportsInv => ForecastCoversMonth
  BY ForecastCovers DEF ReportsInv, TablesOK
<1> QED
  BY <1>1, ReportsInvariance, PTL

\* The hourly job says a thing once a day, unless it met a run or midnight.
THEOREM HourlyOnceADay == Spec => []OnceADay
<1>1. ReportsInv => OnceADay
  BY DEF ReportsInv
<1> QED
  BY <1>1, ReportsInvariance, PTL

\* An error with one user costs the night that user and nobody else.
THEOREM NightsAreIsolated == Spec => []NightIsolation
<1>1. ReportsInv => NightIsolation
  BY DEF ReportsInv, NightsOK, NightOK, NightIsolation
<1> QED
  BY <1>1, ReportsInvariance, PTL

-----------------------------------------------------------------------------
(* What no step may do.                                                    *)

\* A user's choice of a category is undone only by a user's choice.
LEMMA ChoiceKept ==
    ASSUME ReportsInv, Next, NEW t \in DOMAIN txs, txs[t].source = "USER"
    PROVE  \/ txs'[t].category = txs[t].category /\ txs'[t].source = "USER"
           \/ \E r \in Runs : At(r, "choose") /\ ~ At(r, "choose")'
<1>1. TablesOK /\ RunsInv /\ RunsOK /\ NightsOK /\ RowOK(txs[t])
  BY LedgerOf DEF ReportsInv, RunsInv, TablesOK
<1>2. CASE txs' = txs
  BY <1>2
<1>3. CASE Book
  <2>1. PICK o, entry : /\ o \notin DOMAIN txs
                        /\ txs' = [p \in DOMAIN txs \cup {o} |-> IF p = o THEN entry ELSE txs[p]]
    BY <1>3 DEF Book
  <2>2. txs'[t] = txs[t]
    BY <2>1
  <2> QED
    BY <2>2
<1>4. CASE Settle
  <2>1. PICK o \in DOMAIN txs : txs' = [txs EXCEPT ![o].status = "COMPLETED"]
    BY <1>4 DEF Settle
  <2>2. PICK row : row = txs[t]
    OBVIOUS
  <2>3. txs'[t] = row \/ txs'[t] = [row EXCEPT !.status = "COMPLETED"]
    BY <2>1, <2>2
  <2>4. row \in TxType
    BY <1>1, <2>2 DEF RowOK
  <2>5. [row EXCEPT !.status = "COMPLETED"].category = row.category
        /\ [row EXCEPT !.status = "COMPLETED"].source = row.source
    BY <2>4 DEF TxType
  <2> QED
    BY <2>2, <2>3, <2>5
<1>5. ASSUME NEW r \in Runs, Recategorize(r)
      PROVE  At(r, "choose") /\ ~ At(r, "choose")'
  <2>1. At(r, "choose") /\ NextUser(r, "done") /\ clock' = clock /\ faults' = faults
    BY <1>5 DEF Recategorize
  <2>2. Active(r) /\ run[r].body.kind \notin {"NIGHT", "HOURLY"}
    <3>1. FlowOK(run[r])
      BY <1>1 DEF RunsOK
    <3> QED
      BY <2>1, <3>1 DEF At, Active, FlowOK, NightSteps, HourSteps
  <2>3. PICK x : Becomes(r, x) /\ x.pc \in {"curRead", "spot", "done"}
    BY <1>1, <2>1, <2>2, Bounds, NextUserMoves
  <2> QED
    BY <2>1, <2>3 DEF At, Becomes
<1>6. ASSUME NEW r \in Runs, AnalyticsStep(r) \/ InsightStep(r) \/ Fails(r)
      PROVE  txs' = txs \/ Recategorize(r)
  BY <1>1, <1>6, LedgerKept
<1>7. CASE NewDay \/ (\E r \in Runs : Start(r)) \/ (\E i \in insights : MarkRead(i) \/ Dismiss(i))
  BY <1>2, <1>7 DEF NewDay, Start, MarkRead, Dismiss, tables
<1> QED
  BY <1>2, <1>3, <1>4, <1>5, <1>6, <1>7 DEF Next

\* What a user chose for a transaction stays, whatever the rules say of it.
THEOREM UserChoiceDoesStick == Spec => UserChoiceSticks
<1>1. ReportsInv /\ [Next]_vars =>
        [\A t \in DOMAIN txs : txs[t].source = "USER" =>
            \/ txs'[t].category = txs[t].category /\ txs'[t].source = "USER"
            \/ \E r \in Runs : At(r, "choose") /\ ~ At(r, "choose")']_vars
  BY ChoiceKept
<1> QED
  BY <1>1, ReportsInvariance, PTL DEF Spec, UserChoiceSticks

\* The stored figures a step changes are those of the row it writes.
LEMMA RowTouched ==
    ASSUME SnapsOK, NEW u \in Users, NEW m \in Months, NEW u0, NEW m0, NEW row,
           snaps' = [snaps EXCEPT ![u0][m0] = row]
    PROVE  /\ u = u0 /\ m = m0 => snaps'[u][m] = row
           /\ ~ (u = u0 /\ m = m0) => snaps'[u][m] = snaps[u][m]
<1>1. DOMAIN snaps = Users /\ DOMAIN snaps[u] = Months
  BY DEF SnapsOK
<1> QED
  BY <1>1

\* The comparison with the month before leaves the figures.
LEMMA AttachedOnly ==
    ASSUME SnapsOK, NEW u \in Users, NEW m \in Months, NEW u0, NEW m0, NEW v,
           snaps' = [snaps EXCEPT ![u0][m0].compared = v], snaps[u][m].exists
    PROVE  snaps'[u][m].figures = snaps[u][m].figures
<1>1. PICK row : row = snaps[u][m]
  OBVIOUS
<1>2. PICK f, c : row = Snap(f, c)
  BY <1>1 DEF SnapsOK, SnapOK, NoSnap
<1>3. snaps'[u][m] = row \/ snaps'[u][m] = [row EXCEPT !.compared = v]
  BY <1>1 DEF SnapsOK
<1>4. [row EXCEPT !.compared = v].figures = row.figures
  BY <1>2 DEF Snap
<1> QED
  BY <1>1, <1>3, <1>4

\* A run that goes to another step is not as it was.
LEMMA StepShows ==
    ASSUME RunsOK, NEW r \in Runs, NEW pc, GoTo(r, pc), ~ At(r, pc)
    PROVE  run'[r] # run[r]
<1>1. PICK o : o = run[r]
  OBVIOUS
<1>2. PICK x : x = Run(o.body, pc, o.todo, o.month, o.figures, o.half, o.got, o.found, o.day,
                       o.served, o.failed)
  OBVIOUS
<1>3. Becomes(r, x)
  BY <1>1, <1>2, ToPc DEF GoTo
<1>4. x.pc = pc /\ o.pc # pc
  BY <1>1, <1>2 DEF Run, At
<1> QED
  BY <1>1, <1>3, <1>4 DEF Becomes

LEMMA HalfShows ==
    ASSUME RunsOK, NEW r \in Runs, NEW k \in 1..2, NEW figures,
           run' = [run EXCEPT ![r].half[k] = "got", ![r].got[k] = figures],
           run[r].half[k] = "put"
    PROVE  run'[r] # run[r]
<1>1. PICK o : o = run[r]
  OBVIOUS
<1>2. PICK half : half = [o.half EXCEPT ![k] = "got"]
  OBVIOUS
<1>3. PICK x : x = Run(o.body, o.pc, o.todo, o.month, o.figures, half,
                       [o.got EXCEPT ![k] = figures], o.found, o.day, o.served, o.failed)
  OBVIOUS
<1>4. Becomes(r, x)
  <2>1. PICK stage : stage = "got"
    OBVIOUS
  <2>2. run' = [run EXCEPT ![r].half[k] = stage, ![r].got[k] = figures]
    BY <2>1
  <2> QED
    BY <1>1, <1>2, <1>3, <2>1, <2>2, ToHalf
<1>5. x.half = half /\ o.half \in [1..2 -> {"find", "read", "put", "got"}]
  BY <1>1, <1>3 DEF Run, RunsOK, RunOK
<1>6. half[k] = "got" /\ o.half[k] = "put"
  BY <1>1, <1>2, <1>5
<1>7. x # o
  BY <1>5, <1>6
<1> QED
  BY <1>1, <1>4, <1>7 DEF Becomes

\* A month that is over is written again only by runs that met, or that the end
\* of a day caught.
LEMMA MonthKept ==
    ASSUME ReportsInv, Next, NEW u \in Users, NEW m \in Months, m < Month(clock),
           snaps[u][m].exists, snaps'[u][m].figures # snaps[u][m].figures
    PROVE  \E r \in entangled : run'[r] # run[r]
<1>1. TablesOK /\ RunsInv /\ RunsOK /\ SnapsOK /\ Month(clock) \in Int
  BY Bounds DEF ReportsInv, RunsInv, TablesOK
<1>2. PICK r \in Runs : AnalyticsStep(r)
  <2>1. CASE snaps' = snaps
    BY <2>1
  <2>2. CASE \E s \in Runs : InsightStep(s) \/ Fails(s) \/ Start(s)
    BY <2>1, <2>2 DEF InsightStep, Fails, Start, Spot, FilterDuplicates, AddFresh, Wipe, AddDemo,
                      SelectUncategorized, FillNext, Recategorize, tables
  <2>3. CASE NewDay \/ Book \/ Settle \/ \E i \in insights : MarkRead(i) \/ Dismiss(i)
    BY <2>1, <2>3 DEF NewDay, Book, Settle, MarkRead, Dismiss
  <2> QED
    BY <2>2, <2>3 DEF Next
<1>3. ASSUME r \notin entangled, Active(r) PROVE MonthKnown(r) /\ MissingStill(r)
  BY <1>1, <1>3 DEF RunsInv, KnownAlone, Undisturbed, Known
<1>4. CASE CurWrite(r)
  <2>1. Active(r) /\ At(r, "curWrite") /\ GoTo(r, "find") /\ Upsert(User(r), run[r].month, run[r].figures)
    BY <1>4 DEF CurWrite, Active, At
  <2>2. run'[r] # run[r]
    BY <1>1, <2>1, StepShows DEF At
  <2>3. PICK u0, m0, row : snaps' = [snaps EXCEPT ![u0][m0] = row] /\ m0 = run[r].month
    BY <2>1 DEF Upsert
  <2>4. m = m0
    BY <1>1, <2>3, RowTouched
  <2>5. r \notin entangled => run[r].month = Month(clock)
    BY <1>3, <2>1 DEF MonthKnown, At, MonthSteps, NightSteps
  <2> QED
    BY <1>1, <2>2, <2>3, <2>4, <2>5
<1>5. CASE LastWrite(r)
  <2>1. /\ Active(r) /\ At(r, "lastWrite") /\ GoTo(r, "compare")
        /\ Upsert(User(r), run[r].month - 1, run[r].got[2])
    BY <1>5 DEF LastWrite, Active, At
  <2>2. run'[r] # run[r]
    BY <1>1, <2>1, StepShows DEF At
  <2>3. PICK u0, m0, row : /\ snaps' = [snaps EXCEPT ![u0][m0] = row]
                           /\ u0 = User(r) /\ m0 = run[r].month - 1
    BY <2>1 DEF Upsert
  <2>4. u = u0 /\ m = m0
    BY <1>1, <2>3, RowTouched
  <2>5. r \notin entangled => ~ snaps[User(r)][run[r].month - 1].exists
    BY <1>3, <2>1 DEF MissingStill, At
  <2> QED
    BY <2>2, <2>3, <2>4, <2>5
<1>6. CASE Compare(r)
  <2>1. PICK u0, m0, v : snaps' = [snaps EXCEPT ![u0][m0].compared = v]
    BY <1>6 DEF Compare
  <2> QED
    BY <1>1, <2>1, AttachedOnly
<1>7. CASE \E k \in 1..2 : Gather(r, k)
  <2>1. PICK k \in 1..2 : Gather(r, k)
    BY <1>7
  <2>2. Active(r) /\ At(r, "gather") /\ snaps' # snaps
    BY <2>1 DEF Gather, Active, At
  <2>3. /\ run[r].half[k] = "put" /\ Upsert(User(r), HalfMonth(r, k), run[r].got[k])
        /\ run' = [run EXCEPT ![r].half[k] = "got", ![r].got[k] = run[r].got[k]]
    BY <2>1, <2>2 DEF Gather
  <2>4. run'[r] # run[r]
    <3>1. PICK figures : figures = run[r].got[k]
      OBVIOUS
    <3>2. run' = [run EXCEPT ![r].half[k] = "got", ![r].got[k] = figures]
      BY <2>3, <3>1
    <3> QED
      BY <1>1, <2>3, <3>2, HalfShows
  <2>5. PICK u0, m0, row : /\ snaps' = [snaps EXCEPT ![u0][m0] = row]
                           /\ u0 = User(r) /\ m0 = HalfMonth(r, k)
    BY <2>3 DEF Upsert
  <2>6. u = u0 /\ m = m0
    BY <1>1, <2>5, RowTouched
  <2>7. r \notin entangled => ~ snaps[User(r)][HalfMonth(r, k)].exists
    BY <1>3, <2>2, <2>3 DEF MissingStill, At
  <2> QED
    BY <2>4, <2>5, <2>6, <2>7
<1>8. CASE CurRead(r) \/ FindLast(r) \/ LastRead(r) \/ SetScore(r) \/ Gathered(r)
           \/ DismissExpired(r) \/ Insert(r)
  BY <1>8 DEF CurRead, FindLast, LastRead, SetScore, Gathered, DismissExpired, Insert, tables
<1> QED
  BY <1>2, <1>4, <1>5, <1>6, <1>7, <1>8 DEF AnalyticsStep

\* The stored figures of a month that is over stay as they are.
THEOREM ClosedMonthIsKept == Spec => ClosedMonthKept
<1>1. ReportsInv /\ [Next]_vars =>
        [\A u \in Users, m \in Months :
            /\ m < Month(clock) /\ snaps[u][m].exists
            /\ snaps'[u][m].figures # snaps[u][m].figures
            => \E r \in entangled : run'[r] # run[r]]_vars
  BY MonthKept
<1> QED
  BY <1>1, ReportsInvariance, PTL DEF Spec, ClosedMonthKept
=============================================================================
