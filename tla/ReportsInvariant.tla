-------------------------- MODULE ReportsInvariant --------------------------
(***************************************************************************)
(* What the analytics runs know between two database calls, strong enough  *)
(* to be kept by every step.                                               *)
(***************************************************************************)
EXTENDS Reports

\* The steps of the nightly job, of the dashboard and of the insights, and
\* those of the other runs.
NightSteps == {"curRead", "curWrite", "find", "lastRead", "lastWrite", "compare", "score",
               "gather", "expire", "insert"}
HourSteps  == {"spot", "filter", "add"}
OtherSteps == {"wipe", "demo", "select", "fill", "choose"}
Pcs        == NightSteps \cup HourSteps \cup OtherSteps \cup {"idle", "done"}

\* The steps that work on the month they remember, and those with rows to write.
MonthSteps == NightSteps \ {"curRead", "score", "expire", "insert"}
RowSteps   == {"expire", "insert", "filter", "add"}

-----------------------------------------------------------------------------
(* The tables.                                                             *)

\* Bookings name the users whose money moves, and the source of a category is a
\* user or nothing: the backfill finds no row to write RULE to (Uncategorized).
TxsOK ==
    /\ DOMAIN txs \subseteq TxIds
    /\ \A t \in DOMAIN txs :
          /\ txs[t] \in TxType
          /\ txs[t].day <= clock
          /\ txs[t].source \in {"USER", None}
          /\ txs[t].type # "DEPOSIT" => txs[t].sender \in Users
          /\ txs[t].type \in {"DEPOSIT", "P2P_TRANSFER"} => txs[t].receiver \in Users

\* What a vault has, and all it has had, is nothing or more: a withdrawal takes
\* from the amount it has compared.
VaultsOK ==
    /\ vaults \in [Vaults -> [now : Nat, was : SUBSET Nat]]
    /\ \A v \in Vaults : vaults[v].now \in vaults[v].was

SnapOK(row) ==
    row = NoSnap \/ (row = Snap(row.figures, row.compared) /\ row.figures \in FiguresType)

SnapsOK ==
    /\ DOMAIN snaps = Users
    /\ \A u \in Users : DOMAIN snaps[u] = Months /\ \A m \in Months : SnapOK(snaps[u][m])

ScoreOK == DOMAIN score = Users /\ \A u \in Users : score[u] = None \/ score[u] \in 0..100

InsightOK(i) ==
    /\ i = [user |-> i.user, type |-> i.type, subject |-> i.subject, day |-> i.day,
            expires |-> i.expires, by |-> i.by, read |-> i.read, dismissed |-> i.dismissed]
    /\ i.user \in Users /\ i.day \in 0..clock /\ i.by \in Runs

TablesOK ==
    /\ clock \in 0..Days /\ faults \in 0..MaxFaults /\ entangled \subseteq Runs
    /\ TxsOK /\ SnapsOK /\ ScoreOK
    /\ \A i \in insights : InsightOK(i)

-----------------------------------------------------------------------------
(* The runs.                                                               *)

RunOK(x) ==
    /\ x = [body |-> x.body, pc |-> x.pc, todo |-> x.todo, month |-> x.month,
            figures |-> x.figures, half |-> x.half, got |-> x.got, found |-> x.found,
            day |-> x.day, served |-> x.served, failed |-> x.failed]
    /\ x.body \in Bodies /\ x.pc \in Pcs
    /\ x.todo \in Seq(Users)
    /\ x.month \in 0..Month(Days) /\ x.figures \in FiguresType
    /\ x.half \in [1..2 -> {"find", "read", "put", "got"}]
    /\ x.got \in [1..2 -> FiguresType]
    /\ x.day \in 0..clock

\* Each kind of run keeps to its steps, and one under way has a user; the two
\* halves of a Promise.all are under way at "gather" only.
FlowOK(x) ==
    /\ x.pc \notin {"idle", "done"} => x.todo # <<>>
    /\ x.body.kind = "NIGHT" => x.pc \in NightSteps \cup {"idle", "done"}
    /\ x.body.kind = "HOURLY" => x.pc \in HourSteps \cup {"idle", "done"}
    /\ x.pc \in HourSteps => x.body.kind = "HOURLY"
    /\ x.pc # "gather" => x.half \in [1..2 -> {"find", "got"}]

\* What a run found is for the user it is at, and its own.
FoundOK(r, x) ==
    /\ x.pc = "fill" => x.found = {}
    /\ x.pc \in RowSteps => \A i \in x.found : InsightOK(i) /\ i.user = Head(x.todo) /\ i.by = r

RunsOK ==
    /\ DOMAIN run = Runs
    /\ \A r \in Runs : RunOK(run[r]) /\ FlowOK(run[r]) /\ FoundOK(r, run[r])

\* The users of a night are served, failed or still to do; each that failed
\* cost an error.
NightOK(x) ==
    /\ IsFiniteSet(x.failed) /\ Cardinality(x.failed) <= faults
    /\ x.pc = "idle" => x.served = {} /\ x.failed = {}
    /\ x.body.kind = "NIGHT" =>
          /\ x.pc = "done" => x.served \cup x.failed = ActiveUsers
          /\ x.pc \in NightSteps => x.served \cup x.failed \cup Range(x.todo) = ActiveUsers

NightsOK == \A r \in Runs : NightOK(run[r])

-----------------------------------------------------------------------------
(* What a run that met nobody knows: that nobody else is under way, that   *)
(* the day is the one it began with, and that the rows it did not find are *)
(* still not there.                                                        *)

Undisturbed(r) == Active(r) /\ r \notin entangled

Alone == \A r \in Runs : Undisturbed(r) => \A s \in Runs \ {r} : ~ Active(s)

MonthKnown(r) == run[r].pc \in MonthSteps => run[r].month = Month(clock)

MissingStill(r) ==
    /\ run[r].pc \in {"lastRead", "lastWrite"} => ~ snaps[User(r)][run[r].month - 1].exists
    /\ run[r].pc = "gather" => \A k \in 1..2 :
          run[r].half[k] \in {"read", "put"} => ~ snaps[User(r)][HalfMonth(r, k)].exists

TodaysRows(r) ==
    /\ run[r].pc \in {"filter", "add"} => \A i \in run[r].found : i.day = clock
    /\ run[r].pc = "add" => \A i \in run[r].found, j \in insights :
          <<i.user, i.type, i.day>> # <<j.user, j.type, j.day>>

Known(r) == MonthKnown(r) /\ MissingStill(r) /\ TodaysRows(r)

KnownAlone == \A r \in Runs : Undisturbed(r) => Known(r)

-----------------------------------------------------------------------------
ReportsInv ==
    /\ TablesOK /\ VaultsOK /\ RunsOK /\ NightsOK
    /\ Alone /\ KnownAlone /\ OnceADay
=============================================================================
