------------------------------ MODULE Delivery ------------------------------
(***************************************************************************)
(* Notifications from the event to the row, the push or the mail: listener *)
(* and workers together, and what must be true of them.                    *)
(***************************************************************************)
EXTENDS Channels

Init ==
    /\ prefs \in [Users -> Settings]
    /\ content \in [Events -> Contents]
    /\ pc = [e \in Events |-> "idle"]
    /\ notices = [e \in Events |-> <<>>]
    /\ plan = [e \in Events |-> <<>>]
    /\ jobs = <<>>
    /\ rows = EmptyBag
    /\ work = [q \in Queues |-> 0]
    /\ at = [q \in Queues |-> "none"]
    /\ mailed = {}
    /\ faults = 0
    /\ due = [e \in Events |-> {}]
    /\ missed = [e \in Events |-> {}]

Next ==
    \/ \E e \in Events : Route(e) \/ RouteFails(e)
    \/ \E u \in Users : UpdatePreferences(u)
    \/ \E q \in Queues : Work(q) \/ Caught(q) \/ AttemptFails(q)
    \/ Crash

\* Node runs on and the workers keep asking their queues for jobs; errors,
\* stops and clients are owed nothing.
Fairness ==
    /\ \A e \in Events : WF_vars(Route(e))
    /\ \A q \in Queues : WF_vars(Work(q))

Spec == Init /\ [][Next]_vars /\ Fairness

-----------------------------------------------------------------------------

JobFor(e, n, c) ==
    \E i \in DOMAIN jobs : /\ jobs[i].kind = c /\ jobs[i].origin = e
                          /\ jobs[i].user = n.user /\ jobs[i].type = n.type

\* Once an event has been routed, each notice of it has been looked at and has a
\* job for exactly the channels one reading of the preferences asked for, also
\* when they or the hour changed meanwhile; only a notice whose own routing met
\* an error may have fewer.
RoutedAsAsked ==
    \A e \in Events : pc[e] = "over" /\ content[e].kind # "OTP" =>
        \A n \in Range(Notices(content[e])) :
            \/ n \in missed[e]
            \/ [notice |-> n, channels |-> {c \in Channels : JobFor(e, n, c)}] \in due[e]

\* The rows a job has written.
RowsOf(i) == SumFunctionOnSet(rows, {row \in BagToSet(rows) : row.job = i})

\* A completed notification has left a row behind, whatever failed on the way,
\* unless it was a push to a user without a token; and a row that says a mail
\* was sent has a mail in the queue: every outcome is recorded, none invented.
RowsTellTruth ==
    /\ \A i \in DOMAIN jobs :
           /\ jobs[i].state = "completed"
           /\ jobs[i].kind \in {"IN_APP", "EMAIL"} \/ (jobs[i].kind = "PUSH" /\ jobs[i].user \in WithToken)
           => RowsOf(i) > 0
    /\ \A row \in BagToSet(rows) : row.status = "SENT" /\ jobs[row.job].kind = "EMAIL" =>
           \E i \in DOMAIN jobs : jobs[i].kind = "MAIL" /\ jobs[i].origin = row.job

\* Retries do not repeat a row: only a stop between the row and the end of the
\* job does, and no more often than BullMQ runs a stalled job again.
OnlyStallsRepeatRows == \A i \in DOMAIN jobs : RowsOf(i) <= jobs[i].stalls + 1

\* A code whose mail job was settled was mailed, or given up after as many
\* attempts as it has or more stops than BullMQ puts up with.
OtpMailedOrTried ==
    \A i \in DOMAIN jobs : jobs[i].kind = "OTP" /\ jobs[i].state # "waiting" =>
        i \in mailed \/ jobs[i].tries = Attempts \/ jobs[i].stalls > Stalls

\* Every job is settled, once and for good.
Settled == {i \in DOMAIN jobs : jobs[i].state # "waiting"}
Queue == INSTANCE AtLeastOnce WITH Jobs <- JobIds, asked <- DOMAIN jobs, settled <- Settled
QueueKeepsPromise == Queue!Spec
=============================================================================
