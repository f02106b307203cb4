------------------------------ MODULE Insights ------------------------------
(***************************************************************************)
(* The other writers of insights and categories: the hourly job of         *)
(* InsightsService, its demo rows, the backfill of categories, and what a  *)
(* user does with a row.                                                   *)
(***************************************************************************)
EXTENDS Snapshots

\* The sum of what a user sent since a day, of any type and status.
Sent(u, since, until) == {t \in DOMAIN txs : txs[t].sender = u /\ txs[t].day \in since..until}

SpendingPattern(u) ==
    LET first == FirstDay(Month(clock))
        cur  == Total(txs, Sent(u, first, clock))
        prev == Total(txs, Sent(u, FirstDay(Month(clock) - 1), first - 1))
    IN When((cur > 0 /\ prev = 0) \/ (prev > 0 /\ 5 * (cur - prev) > prev),
            {<<"SPENDING_PATTERN", None>>})

\* Money received in a category counts as spent.
BudgetWarnings(u) ==
    LET spent(c) == Total(txs, {t \in DOMAIN txs : /\ u \in {txs[t].sender, txs[t].receiver}
                                                   /\ txs[t].category = c})
    IN {<<"BUDGET_WARNING", line.category>> :
            line \in {l \in BudgetLines[u] : 10 * spent(l.category) >= 8 * l.limit}}

\* One category today, or those above one and a half times the average; rows
\* without a category are one.
SavingOpportunities(u) ==
    LET today  == Sent(u, clock, clock)
        groups == {txs[t].category : t \in today}
        amount(c) == Total(txs, {t \in today : txs[t].category = c})
    IN {<<"SAVING_OPPORTUNITY", c>> : c \in {g \in groups :
            Cardinality(groups) = 1 \/ 2 * Cardinality(groups) * amount(g) > 3 * Total(txs, today)}}

\* Two transactions with one merchant, or none, and one amount.
SubscriptionAlerts(u) ==
    LET recent == {t \in DOMAIN txs : /\ u \in {txs[t].sender, txs[t].receiver}
                                      /\ txs[t].day >= clock - 3 * MonthDays}
        twin(t, o) == t # o /\ txs[t].merchant = txs[o].merchant /\ txs[t].amount = txs[o].amount
    IN {<<"SUBSCRIPTION_ALERT", txs[t].merchant>> : t \in {o \in recent : \E p \in recent : twin(o, p)}}

\* The four generators, read at once; the rows get the day of this moment.
Spot(r) ==
    LET u == User(r)
        found == SpendingPattern(u) \cup BudgetWarnings(u) \cup SavingOpportunities(u)
                 \cup SubscriptionAlerts(u)
    IN
    /\ At(r, "spot")
    /\ run' = [run EXCEPT ![r].pc = "filter", ![r].found =
                  {Insight(u, f[1], f[2], clock, None, r) : f \in found}]
    /\ UNCHANGED <<tables, faults, entangled>>

\* As FilterDuplicates, blind to the rows a user has dismissed.
FilterShown(r) ==
    LET shown == {i.type : i \in {j \in insights : /\ j.user = User(r) /\ j.day = clock
                                                   /\ ~ j.dismissed}}
        fresh == {i \in run[r].found : i.type \notin shown}
    IN
    /\ At(r, "filter")
    /\ IF fresh = {} THEN NextUser(r, "spot") ELSE run' = [run EXCEPT ![r].pc = "add", ![r].found = fresh]
    /\ UNCHANGED <<tables, faults, entangled>>

FilterDuplicates(r) ==
    LET there == {i.type : i \in {j \in insights : j.user = User(r) /\ j.day = clock}}
        fresh == {i \in run[r].found : i.type \notin there}
    IN
    /\ At(r, "filter")
    /\ IF fresh = {} THEN NextUser(r, "spot") ELSE run' = [run EXCEPT ![r].pc = "add", ![r].found = fresh]
    /\ UNCHANGED <<tables, faults, entangled>>

AddFresh(r) ==
    /\ At(r, "add")
    /\ insights' = insights \cup run[r].found
    /\ NextUser(r, "spot")
    /\ UNCHANGED <<clock, txs, vaults, snaps, score, faults, entangled>>

-----------------------------------------------------------------------------
(* generateDemoInsights.                                                   *)

\* All rows of the user, not only those of an earlier demo.
Wipe(r) ==
    /\ At(r, "wipe")
    /\ insights' = {i \in insights : i.user # User(r)}
    /\ run' = [run EXCEPT ![r].pc = "demo", ![r].day = clock]
    /\ UNCHANGED <<clock, txs, vaults, snaps, score, faults, entangled>>

AddDemo(r) ==
    /\ At(r, "demo")
    /\ insights' = insights \cup
          {Insight(User(r), type, None, run[r].day, None, r) :
              type \in {"SAVING_OPPORTUNITY", "BUDGET_WARNING", "SUBSCRIPTION_ALERT",
                        "SPENDING_PATTERN"}}
    /\ NextUser(r, "done")
    /\ UNCHANGED <<clock, txs, vaults, snaps, score, faults, entangled>>

-----------------------------------------------------------------------------
(* CategorizationService: backfillCategories and recategorizeTransaction.  *)

\* As Uncategorized, with a source that is NULL counted as not USER.
AllUncategorized(u) ==
    {t \in DOMAIN txs : /\ u \in {txs[t].sender, txs[t].receiver}
                        /\ txs[t].category = None /\ txs[t].source # "USER"}

\* category IS NULL AND categorySource <> 'USER', which SQL does not find true
\* of a source that is NULL.
Uncategorized(u) ==
    {t \in DOMAIN txs : /\ u \in {txs[t].sender, txs[t].receiver}
                        /\ txs[t].category = None /\ txs[t].source \notin {"USER", None}}

SelectUncategorized(r) ==
    /\ At(r, "select")
    /\ run' = [run EXCEPT ![r].pc = "fill", ![r].found =
                  {[t |-> t, row |-> txs[t]] : t \in Uncategorized(User(r))}]
    /\ UNCHANGED <<tables, faults, entangled>>

\* One row at a time, from what was read of it, until none is left.
FillNext(r) ==
    /\ At(r, "fill")
    /\ IF run[r].found = {}
       THEN NextUser(r, "done") /\ UNCHANGED txs
       ELSE \E f \in run[r].found :
               /\ txs' = [txs EXCEPT ![f.t].category = resolveCategory(f.row),
                                     ![f.t].source = "RULE"]
               /\ run' = [run EXCEPT ![r].found = @ \ {f}]
    /\ UNCHANGED <<clock, vaults, snaps, score, insights, faults, entangled>>

Recategorize(r) ==
    /\ At(r, "choose")
    /\ \E t \in DOMAIN txs :
          /\ User(r) \in {txs[t].sender, txs[t].receiver}
          /\ txs' = [txs EXCEPT ![t].category = run[r].body.category, ![t].source = "USER"]
    /\ NextUser(r, "done")
    /\ UNCHANGED <<clock, vaults, snaps, score, insights, faults, entangled>>

-----------------------------------------------------------------------------
(* markAsRead and dismissInsight of both services.                         *)

MarkRead(i) ==
    /\ insights' = (insights \ {i}) \cup {[i EXCEPT !.read = TRUE]}
    /\ UNCHANGED <<clock, txs, vaults, snaps, score, run, faults, entangled>>

Dismiss(i) ==
    /\ insights' = (insights \ {i}) \cup {[i EXCEPT !.dismissed = TRUE]}
    /\ UNCHANGED <<clock, txs, vaults, snaps, score, run, faults, entangled>>

InsightStep(r) ==
    \/ Spot(r) \/ FilterDuplicates(r) \/ AddFresh(r) \/ Wipe(r) \/ AddDemo(r)
    \/ SelectUncategorized(r) \/ FillNext(r) \/ Recategorize(r)
=============================================================================
