----------------------------- MODULE MCReports -----------------------------
(***************************************************************************)
(* An instance of Reports for TLC: two users, months of two days, a night  *)
(* that meets a second night, a call or the hourly job.                    *)
(***************************************************************************)
EXTENDS Reports, TLC

CONSTANTS ann, ben, r1, r2, t1, t2, v1, uberEats

MCRules == <<[names |-> {uberEats}, category |-> "TRANSPORT"],
             [names |-> {uberEats}, category |-> "SHOPPING"]>>

MCBudgets == (ann :> {[category |-> "TRANSFERS", limit |-> 2, spent |-> 0]}) @@ (ben :> {})

MCVaultOwner == v1 :> ann

Row(s, r, type, amount, merchant, status) ==
    {[sender |-> s, receiver |-> r, type |-> type, amount |-> amount, merchant |-> merchant,
      category |-> None, source |-> None, day |-> d, status |-> status] : d \in 0..Days}

Income   == Row(None, ann, "DEPOSIT", 2, None, "COMPLETED")
Transfer == Row(ann, ben, "P2P_TRANSFER", 2, None, "COMPLETED")
Card     == Row(ann, None, "CARD_PAYMENT", 1, uberEats, "PENDING")
Saving   == Row(ann, ann, "VAULT_CONTRIBUTION", 1, None, "COMPLETED")
Breaking == Row(ann, ann, "VAULT_WITHDRAWAL", 1, None, "COMPLETED")

MCEntries == Income \cup Transfer \cup Card \cup Saving \cup Breaking

Body(kind, u) == [kind |-> kind, user |-> u, category |-> IF kind = "RECATEGORIZE" THEN "SHOPPING" ELSE None]

MCBodies == {Body("NIGHT", None), Body("HOURLY", None)}
            \cup {Body(k, ann) : k \in {"REFRESH", "DASHBOARD", "INSIGHTS", "DEMO", "BACKFILL",
                                        "RECATEGORIZE"}}

\* What comes together in one behaviour: two runs, the transactions they may
\* find (all kinds of them only before and between runs), and whether errors
\* happen, rows are dismissed and days end meanwhile.
Theme(kinds, entries, errors, marks, days) ==
    [kinds |-> kinds, entries |-> entries, errors |-> errors, marks |-> marks, days |-> days]

Themes ==
    {Theme({"NIGHT"}, Income \cup Card, TRUE, FALSE, FALSE),
     Theme({"NIGHT", "INSIGHTS"}, Transfer, FALSE, FALSE, TRUE),
     Theme({"REFRESH", "DASHBOARD"}, MCEntries, FALSE, FALSE, TRUE),
     Theme({"HOURLY"}, Transfer, TRUE, TRUE, TRUE),
     Theme({"HOURLY", "DEMO"}, Saving, FALSE, TRUE, TRUE),
     Theme({"BACKFILL", "RECATEGORIZE"}, Card \cup Transfer, FALSE, FALSE, FALSE)}

Kinds(runs) == {runs[r].body.kind : r \in Runs}
Now == CHOOSE theme \in Themes : theme.kinds = Kinds(run)

Bounded ==
    /\ DOMAIN txs' # DOMAIN txs =>
            /\ \A t \in DOMAIN txs' \ DOMAIN txs : txs'[t] \in Now.entries
            /\ Now.entries = MCEntries => \A r \in Runs : ~ Active(r)
    /\ faults' # faults => Now.errors
    /\ clock' # clock => Now.days \/ \A r \in Runs : ~ Active(r)
    /\ run' = run /\ insights' # insights => Now.marks /\ \A i \in insights : ~ i.read /\ ~ i.dismissed

MCInit == Init /\ \E theme \in Themes : Kinds(run) = theme.kinds
MCSpec == MCInit /\ [][Next /\ Bounded]_vars
RunSymmetry == Permutations(Runs) \cup Permutations(TxIds)

-----------------------------------------------------------------------------
(* What the repository says of its reports and a run refutes.              *)

\* analytics-snapshot.cron.ts:60: "Compute last month if not yet finalized".
\* After a night without error or company in a new month, the stored figures of
\* the month before are those of its transactions (card payments, which are
\* settled later, left aside).
MonthFinal ==
    \A r \in Runs, u \in Users :
        /\ run[r].body.kind = "NIGHT" /\ run[r].pc = "done" /\ r \notin entangled
        /\ u \in run[r].served /\ faults = 0 /\ clock = FirstDay(1)
        /\ \A t \in DOMAIN txs : txs[t].type # "CARD_PAYMENT"
        /\ \A s \in Runs : s # r => run[s].pc = "done"
        => snaps[u][0].figures = FiguresOf(txs, u, 0)
=============================================================================
