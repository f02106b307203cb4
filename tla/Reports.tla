------------------------------ MODULE Reports ------------------------------
(***************************************************************************)
(* Analytics and insights together, and what must be true of them.         *)
(***************************************************************************)
EXTENDS Insights

Init ==
    /\ clock = 0
    /\ txs = <<>>
    /\ vaults = [v \in Vaults |-> [now |-> 0, was |-> {0}]]
    /\ snaps = [u \in Users |-> [m \in Months |-> NoSnap]]
    /\ score = [u \in Users |-> None]
    /\ insights = {}
    /\ run \in [Runs -> {Fresh(b) : b \in Bodies}]
    /\ faults = 0
    /\ entangled = {}

Next ==
    \/ NewDay \/ Book \/ Settle
    \/ \E r \in Runs : Start(r) \/ AnalyticsStep(r) \/ InsightStep(r) \/ Fails(r)
    \/ \E i \in insights : MarkRead(i) \/ Dismiss(i)

Spec == Init /\ [][Next]_vars

-----------------------------------------------------------------------------
FiguresType == [income : Nat, expenses : Nat, saved : Nat, spending : [Categories -> Nat], count : Nat]

\* The tables hold what their columns allow, no vault less than nothing, also
\* when deposits and withdrawals have overwritten each other (SavingsService);
\* the score a user is shown is one of 0 to 100 points, also when more was saved
\* than earned, nothing was ever spent, or the vaults hold something else than
\* what was moved (HealthScoreService); a run under way has a user.
ReportsTypeOK ==
    /\ clock \in 0..Days
    /\ DOMAIN txs \subseteq TxIds
    /\ \A t \in DOMAIN txs : txs[t] \in TxType
    /\ \A v \in Vaults : vaults[v].was \subseteq Nat /\ vaults[v].now \in vaults[v].was
    /\ \A u \in Users, m \in Months : snaps[u][m].exists => snaps[u][m].figures \in FiguresType
    /\ \A u \in Users : score[u] = None \/ score[u] \in 0..100
    /\ \A i \in insights : i.user \in Users /\ i.day \in 0..clock
    /\ \A r \in Runs : Active(r) => User(r) \in Users
    /\ faults \in 0..MaxFaults
    /\ entangled \subseteq Runs

\* Between users money only moves: over all users the net cash flow of a month
\* is what came in from outside less what went out of the house, whatever mix
\* of transfers there was among them.
TransfersCancelOut ==
    \A m \in 0..Month(Days) :
        LET Settled(types) == {t \in DOMAIN txs : /\ txs[t].status = "COMPLETED"
                                                  /\ Month(txs[t].day) = m
                                                  /\ txs[t].type \in types}
        IN SumFunctionOnSet([u \in Users |-> NetCashFlow(FiguresOf(txs, u, m))], Users)
           = Total(txs, Settled({"DEPOSIT"}))
             - Total(txs, Settled({"WITHDRAWAL", "CARD_PAYMENT", "SUBSCRIPTION_CHARGE"}))

\* Whatever a user has spent this month is in the forecast, none of it twice,
\* and the forecast keeps nothing below zero.
ForecastCoversMonth ==
    \A u \in Users :
        LET forecast == Forecast(txs, u, clock)
            spent == {t \in Outgoings(txs, u) : Month(txs[t].day) = Month(clock)}
            soFar == [c \in DOMAIN forecast |-> forecast[c].soFar]
        IN /\ SumFunctionOnSet(soFar, DOMAIN forecast) = Total(txs, spent)
           /\ \A c \in DOMAIN forecast : forecast[c].remaining \in 0..forecast[c].projected

\* The hourly job tells a user a thing of one type once a day, whatever the
\* user has dismissed meanwhile; only runs that met or worked into the next
\* day can repeat it.
OnceADay ==
    \A i, j \in insights :
        /\ run[i.by].body.kind = "HOURLY" /\ run[j.by].body.kind = "HOURLY"
        /\ <<i.user, i.type, i.day>> = <<j.user, j.type, j.day>>
        => i.by = j.by \/ {i.by, j.by} \cap entangled # {}

\* An error with one user costs the night that user and nobody else.
NightIsolation ==
    \A r \in Runs :
        run[r].body.kind = "NIGHT" /\ run[r].pc = "done" =>
            /\ run[r].served \cup run[r].failed = ActiveUsers
            /\ Cardinality(run[r].failed) <= faults

\* What a user chose for a transaction stays, whatever the rules say of it.
UserChoiceSticks ==
    [][\A t \in DOMAIN txs : txs[t].source = "USER" =>
          \/ txs'[t].category = txs[t].category /\ txs'[t].source = "USER"
          \/ \E r \in Runs : At(r, "choose") /\ ~ At(r, "choose")']_vars

\* The stored figures of a month that is over stay as they are, though rows of
\* it may still be settled; only runs that met, or were caught by the end of a
\* day, write them again.
ClosedMonthKept ==
    [][\A u \in Users, m \in Months :
          /\ m < Month(clock) /\ snaps[u][m].exists
          /\ snaps'[u][m].figures # snaps[u][m].figures
          => \E r \in entangled : run'[r] # run[r]]_vars
=============================================================================
