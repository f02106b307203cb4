----------------------------- MODULE Snapshots -----------------------------
(***************************************************************************)
(* The analytics jobs and endpoints as runs that advance one database call *)
(* at a time: the nightly job over all active users, the refresh of one    *)
(* user, the dashboard, and the insights they leave behind.                *)
(***************************************************************************)
EXTENDS Figures

CONSTANTS
    Runs,           \* bound: the runs of a behaviour
    Bodies,         \* what they may be: the nightly and hourly jobs, calls of users
    ActiveUsers,    \* the users with status ACTIVE
    Entries,        \* the transactions a behaviour may book
    Vaults,         \* the savings_vaults rows, none of them ever CANCELLED
    VaultOwner,     \* SavingsVault.userId
    MaxFaults       \* bound: the errors of a behaviour

RunKinds == {"NIGHT", "REFRESH", "DASHBOARD", "INSIGHTS", "HOURLY", "DEMO", "BACKFILL",
             "RECATEGORIZE"}

ASSUME SnapshotsAssumption ==
    /\ Bodies \subseteq [kind : RunKinds, user : Users \cup {None}, category : Categories \cup {None}]
    /\ \A b \in Bodies : b.kind \notin {"NIGHT", "HOURLY"} => b.user \in Users
    /\ ActiveUsers \subseteq Users
    /\ IsFiniteSet(Vaults) /\ VaultOwner \in [Vaults -> Users]
    /\ Entries \subseteq TxType
    \* The services that book leave the category to others, and name the users
    \* whose money moves.
    /\ \A e \in Entries : /\ e.category = None /\ e.source = None
                          /\ e.type # "DEPOSIT" => e.sender \in Users
                          /\ e.type \in {"DEPOSIT", "P2P_TRANSFER"} => e.receiver \in Users
    /\ MaxFaults \in Nat

VARIABLES
    clock,      \* the day
    txs,        \* the transaction rows
    vaults,     \* per vault: now, its currentAmount, and was, the amounts it has had
    snaps,      \* the analytics_snapshots rows: per user and month, from month -1 on
    score,      \* User.financialHealthScore, None before the first
    insights,   \* the financial_insights rows
    run,        \* the runs
    faults,     \* errors so far
    entangled   \* ghost: the runs that met another run or the end of a day

tables == <<clock, txs, vaults, snaps, score, insights>>
vars   == <<tables, run, faults, entangled>>

Months == -1..Month(Days)

\* A row's compared is <<>> until a previous month was attached.
NoSnap == [exists |-> FALSE]
NoFigures == FiguresOf(<<>>, None, 0)
Snap(figures, compared) == [exists |-> TRUE, figures |-> figures, compared |-> compared]

\* What a run keeps in memory: the users still to do, the month it works on,
\* the figures it read, and for the two halves of a Promise.all how far each is.
Fresh(body) ==
    [body |-> body, pc |-> "idle", todo |-> <<>>, month |-> 0, figures |-> NoFigures,
     half |-> <<"find", "find">>, got |-> <<NoFigures, NoFigures>>, found |-> {},
     day |-> 0, served |-> {}, failed |-> {}]

Active(r) == run[r].pc \notin {"idle", "done"}

\* The user a run is at.
User(r) == Head(run[r].todo)

At(r, pc) == run[r].pc = pc

GoTo(r, pc) == run' = [run EXCEPT ![r].pc = pc]

\* Forget what was read for a user, and go on with the next.
NextUser(r, left) ==
    run' = [run EXCEPT ![r] = [Fresh(run[r].body) EXCEPT
                !.pc = IF Tail(run[r].todo) = <<>> THEN "done" ELSE left,
                !.todo = Tail(run[r].todo),
                !.served = run[r].served \cup {User(r)}, !.failed = run[r].failed]]

\* A run with nobody to do is over at once.
Begin(r, order, first, month) ==
    run' = [run EXCEPT ![r].pc = IF order = <<>> THEN "done" ELSE first,
                       ![r].todo = order, ![r].month = month]

-----------------------------------------------------------------------------
(* Time, the ledger and the start of runs.                                 *)

\* Everything under way is caught by midnight; the job of the night starts if
\* the process is up.
NewDay ==
    /\ clock < Days
    /\ clock' = clock + 1
    /\ \/ /\ UNCHANGED run
          /\ entangled' = entangled \cup {r \in Runs : Active(r)}
       \/ \E r \in Runs, order \in SetToSeqs(ActiveUsers) :
             /\ run[r].body.kind = "NIGHT" /\ At(r, "idle")
             /\ Begin(r, order, "curRead", 0)
             /\ entangled' = entangled \cup {s \in Runs : Active(s)}
                                       \cup {s \in {r} : \E o \in Runs : Active(o)}
    /\ UNCHANGED <<txs, vaults, snaps, score, insights, faults>>

\* depositToVault and withdrawFromVault write what the vault had when they read
\* it plus or less the amount: any amount it has had, if other calls have
\* overlapped, and only that amount is compared with what is withdrawn.
VaultMove(entry) ==
    \E v \in Vaults : \E seen \in vaults[v].was :
        LET left == IF entry.type = "VAULT_CONTRIBUTION" THEN seen + entry.amount
                                                         ELSE seen - entry.amount IN
        /\ VaultOwner[v] = entry.sender
        /\ entry.type = "VAULT_WITHDRAWAL" => seen >= entry.amount
        /\ vaults' = [vaults EXCEPT ![v] = [now |-> left, was |-> @.was \cup {left}]]

VaultTypes == {"VAULT_CONTRIBUTION", "VAULT_WITHDRAWAL"}

\* WalletService and SavingsService.
Book ==
    /\ \E t \in TxIds \ DOMAIN txs, entry \in Entries :
          /\ entry.day = clock
          /\ txs' = [o \in DOMAIN txs \cup {t} |-> IF o = t THEN entry ELSE txs[o]]
          /\ IF entry.type \in VaultTypes THEN VaultMove(entry) ELSE UNCHANGED vaults
    /\ UNCHANGED <<clock, snaps, score, insights, run, faults, entangled>>

Settle ==
    /\ \E t \in DOMAIN txs : /\ txs[t].status = "PENDING"
                             /\ txs' = [txs EXCEPT ![t].status = "COMPLETED"]
    /\ UNCHANGED <<clock, vaults, snaps, score, insights, run, faults, entangled>>

FirstStep(kind) ==
    CASE kind = "REFRESH"      -> "curRead"
      [] kind = "DASHBOARD"    -> "gather"
      [] kind = "INSIGHTS"     -> "gather"
      [] kind = "HOURLY"       -> "spot"
      [] kind = "DEMO"         -> "wipe"
      [] kind = "BACKFILL"     -> "select"
      [] kind = "RECATEGORIZE" -> "choose"

\* The hourly job goes over all users, the others are calls of one.
Start(r) ==
    LET kind == run[r].body.kind IN
    /\ At(r, "idle") /\ kind # "NIGHT"
    /\ \E order \in SetToSeqs(IF kind = "HOURLY" THEN Users ELSE {run[r].body.user}) :
          Begin(r, order, FirstStep(kind), Month(clock))
    /\ entangled' = entangled \cup (IF \E s \in Runs : Active(s)
                                    THEN {r} \cup {s \in Runs : Active(s)} ELSE {})
    /\ UNCHANGED <<tables, faults>>

-----------------------------------------------------------------------------
(* AnalyticsSnapshotCron.processUserSnapshot.                              *)

Upsert(u, month, figures) ==
    snaps' = [snaps EXCEPT ![u][month] =
                Snap(figures, IF @.exists THEN @.compared ELSE <<>>)]

CurRead(r) ==
    /\ At(r, "curRead")
    /\ run' = [run EXCEPT ![r].pc = "curWrite", ![r].month = Month(clock),
                          ![r].figures = FiguresOf(txs, User(r), Month(clock))]
    /\ UNCHANGED <<tables, faults, entangled>>

CurWrite(r) ==
    /\ At(r, "curWrite")
    /\ Upsert(User(r), run[r].month, run[r].figures)
    /\ GoTo(r, "find")
    /\ UNCHANGED <<clock, txs, vaults, score, insights, faults, entangled>>

\* As FindLast, computing the last month every time.
FindNothing(r) ==
    /\ At(r, "find")
    /\ GoTo(r, "lastRead")
    /\ UNCHANGED <<tables, faults, entangled>>

FindLast(r) ==
    /\ At(r, "find")
    /\ GoTo(r, IF snaps[User(r)][run[r].month - 1].exists THEN "compare" ELSE "lastRead")
    /\ UNCHANGED <<tables, faults, entangled>>

\* figures keeps those of the current month; the last month's go to got.
LastRead(r) ==
    /\ At(r, "lastRead")
    /\ run' = [run EXCEPT ![r].pc = "lastWrite",
                          ![r].got[2] = FiguresOf(txs, User(r), run[r].month - 1)]
    /\ UNCHANGED <<tables, faults, entangled>>

LastWrite(r) ==
    /\ At(r, "lastWrite")
    /\ Upsert(User(r), run[r].month - 1, run[r].got[2])
    /\ GoTo(r, "compare")
    /\ UNCHANGED <<clock, txs, vaults, score, insights, faults, entangled>>

\* The second look at the last month, and the update of the current one.
Compare(r) ==
    LET last == snaps[User(r)][run[r].month - 1] IN
    /\ At(r, "compare")
    /\ snaps' = [snaps EXCEPT ![User(r)][run[r].month].compared =
                    ComparedToPrevious(run[r].figures, last.figures)]
    /\ GoTo(r, "score")
    /\ UNCHANGED <<clock, txs, vaults, score, insights, faults, entangled>>

\* The aggregate of currentAmount over the vaults of u.
SavingsOf(u) ==
    SumFunctionOnSet([v \in Vaults |-> vaults[v].now], {v \in Vaults : VaultOwner[v] = u})

\* computeHealthScore: its sums are read at once and one number is written.
SetScore(r) ==
    /\ At(r, "score")
    /\ score' = [score EXCEPT ![User(r)] = HealthScore(txs, SavingsOf(User(r)), User(r), clock)]
    /\ IF run[r].body.kind = "DASHBOARD" THEN NextUser(r, "done")
       ELSE run' = [run EXCEPT ![r].pc = "gather", ![r].month = Month(clock)]
    /\ UNCHANGED <<clock, txs, vaults, snaps, insights, faults, entangled>>

-----------------------------------------------------------------------------
(* Two getOrComputeSnapshot side by side, of this month (1) and the last.  *)

HalfMonth(r, k) == IF k = 1 THEN run[r].month ELSE run[r].month - 1

Gather(r, k) ==
    LET row == snaps[User(r)][HalfMonth(r, k)]
        Half(stage, figures) ==
            run' = [run EXCEPT ![r].half[k] = stage, ![r].got[k] = figures]
    IN
    /\ At(r, "gather")
    /\ \/ /\ run[r].half[k] = "find"
          /\ Half(IF row.exists THEN "got" ELSE "read", IF row.exists THEN row.figures ELSE NoFigures)
          /\ UNCHANGED snaps
       \/ /\ run[r].half[k] = "read"
          /\ Half("put", FiguresOf(txs, User(r), HalfMonth(r, k)))
          /\ UNCHANGED snaps
       \/ /\ run[r].half[k] = "put"
          /\ Upsert(User(r), HalfMonth(r, k), run[r].got[k])
          /\ Half("got", run[r].got[k])
    /\ UNCHANGED <<clock, txs, vaults, score, insights, faults, entangled>>

-----------------------------------------------------------------------------
(* InsightGeneratorService.generateAndPersistInsights.                     *)

\* A row: for whom, what it says of what, the day it was made, the month after
\* which it expires (None: never), and the run that wrote it (a ghost).
Insight(u, type, subject, day, expires, r) ==
    [user |-> u, type |-> type, subject |-> subject, day |-> day, expires |-> expires,
     by |-> r, read |-> FALSE, dismissed |-> FALSE]

When(condition, set) == IF condition THEN set ELSE {}

\* Of what the user spent, saved and received in this month and in the last.
Candidates(u, cur, prev, month) ==
    LET Subs == {t \in DOMAIN txs : /\ txs[t].sender = u /\ txs[t].status = "COMPLETED"
                                    /\ txs[t].type = "SUBSCRIPTION_CHARGE"
                                    /\ Month(txs[t].day) = month}
        surged(c) == /\ prev.spending[c] > 0
                     /\ 4 * (cur.spending[c] - prev.spending[c]) >= prev.spending[c]
    IN  {<<"SPENDING_PATTERN", c>> : c \in {d \in Categories : surged(d)}}
        \cup When(cur.saved = 0, {<<"SAVING_OPPORTUNITY", "SAVINGS">>})
        \cup When(cur.saved > 0 /\ 20 * cur.saved < cur.income, {<<"SAVING_OPPORTUNITY", "INCOME">>})
        \cup {<<"BUDGET_WARNING", line.category>> :
                line \in {l \in BudgetLines[u] : 10 * l.spent >= 8 * l.limit}}
        \cup When(Total(txs, Subs) > 0 /\ Cardinality(Subs) >= 2, {<<"SUBSCRIPTION_ALERT", None>>})
        \cup When(prev.income > 0 /\ 10 * cur.income < 8 * prev.income, {<<"HEALTH_TIP", None>>})

\* The dashboard has what it asked for; the others look for something to say.
Gathered(r) ==
    LET u     == User(r)
        found == Candidates(u, run[r].got[1], run[r].got[2], run[r].month)
    IN
    /\ At(r, "gather") /\ run[r].half = <<"got", "got">>
    /\ IF run[r].body.kind = "DASHBOARD" THEN GoTo(r, "score")
       ELSE IF found = {} THEN NextUser(r, "curRead")
       ELSE run' = [run EXCEPT ![r].pc = "expire", ![r].found =
                       {Insight(u, f[1], f[2], clock, run[r].month, r) : f \in found}]
    /\ UNCHANGED <<tables, faults, entangled>>

DismissExpired(r) ==
    /\ At(r, "expire")
    /\ insights' = {IF i.user = User(r) /\ i.expires # None /\ i.expires < Month(clock)
                    THEN [i EXCEPT !.dismissed = TRUE] ELSE i : i \in insights}
    /\ GoTo(r, "insert")
    /\ UNCHANGED <<clock, txs, vaults, snaps, score, faults, entangled>>

\* createMany; the database gives the rows their day.
Insert(r) ==
    /\ At(r, "insert")
    /\ insights' = insights \cup {[i EXCEPT !.day = clock] : i \in run[r].found}
    /\ NextUser(r, "curRead")
    /\ UNCHANGED <<clock, txs, vaults, snaps, score, faults, entangled>>

-----------------------------------------------------------------------------
\* As Fails, with one try around the loop over the users of the night.
FailsForAll(r) ==
    /\ faults < MaxFaults /\ faults' = faults + 1
    /\ Active(r)
    /\ run' = [run EXCEPT ![r].pc = "done", ![r].failed = @ \cup {User(r)}]
    /\ UNCHANGED <<tables, entangled>>

\* An error of the database: the night goes on with the next user, the hourly
\* job ends with the users it has left, a call of a user is answered with it.
Fails(r) ==
    /\ faults < MaxFaults /\ faults' = faults + 1
    /\ Active(r)
    /\ LET ends == run[r].body.kind # "NIGHT" \/ Tail(run[r].todo) = <<>> IN
       run' = [run EXCEPT ![r] = [Fresh(run[r].body) EXCEPT
                  !.pc = IF ends THEN "done" ELSE "curRead",
                  !.todo = IF ends THEN <<>> ELSE Tail(run[r].todo),
                  !.served = run[r].served, !.failed = run[r].failed \cup {User(r)}]]
    /\ UNCHANGED <<tables, entangled>>

AnalyticsStep(r) ==
    \/ CurRead(r) \/ CurWrite(r) \/ FindLast(r) \/ LastRead(r) \/ LastWrite(r) \/ Compare(r)
    \/ SetScore(r) \/ \E k \in 1..2 : Gather(r, k)
    \/ Gathered(r) \/ DismissExpired(r) \/ Insert(r)
=============================================================================
