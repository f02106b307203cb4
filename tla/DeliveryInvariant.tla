------------------------- MODULE DeliveryInvariant -------------------------
(***************************************************************************)
(* The inductive invariant behind the theorems of DeliveryProofs: how far  *)
(* the listener and the two workers are, and what jobs and rows they have  *)
(* left behind on the way.                                                 *)
(***************************************************************************)
EXTENDS Delivery

Notice == [user : Users, type : NoticeTypes]

JobType ==
    [kind : Channels \cup {"OTP", "MAIL"}, user : Users \cup {None},
     type : NoticeTypes \cup {"NONE"}, origin : Events \cup Nat,
     tries : Nat, stalls : Nat, state : {"waiting", "completed", "failed"}]

\* The statements of a job of this kind, from the first to the last.
Statements(kind) ==
    CASE kind = "IN_APP" -> {"create", "emit", "done"}
      [] kind = "EMAIL"  -> {"user", "queue", "sent", "note", "done"}
      [] kind = "PUSH"   -> {"devices", "push", "sent", "refused", "note", "done"}
      [] kind = "OTP"    -> {"smtp", "done"}
      [] kind = "MAIL"   -> {"done"}

Places == {"none", "create", "emit", "user", "queue", "devices", "push", "sent", "refused",
           "note", "smtp", "done"}

DeliveryTypeOK ==
    /\ prefs \in [Users -> Settings]
    /\ content \in [Events -> Contents]
    /\ pc \in [Events -> {"idle", "read", "add", "over", "lost"}]
    /\ notices \in [Events -> Seq(Notice)]
    /\ plan \in [Events -> Seq(Channels)]
    /\ jobs \in Seq(JobType)
    /\ IsFiniteSet(DOMAIN rows)
    /\ DOMAIN rows \subseteq [job : DOMAIN jobs, status : {"DELIVERED", "SENT", "FAILED"}]
    /\ rows \in [DOMAIN rows -> Nat \ {0}]
    /\ work \in [Queues -> {0} \cup DOMAIN jobs]
    /\ at \in [Queues -> Places]
    /\ mailed \subseteq DOMAIN jobs
    /\ due \in [Events -> SUBSET [notice : Notice, channels : SUBSET Channels]]
    /\ missed \in [Events -> SUBSET Notice]

\* A worker is at a statement of a job that waits in its queue.
Working ==
    \A q \in Queues :
        /\ work[q] = 0 => at[q] = "none"
        /\ work[q] # 0 =>
             /\ QueueOf(jobs[work[q]].kind) = q
             /\ jobs[work[q]].state = "waiting"
             /\ at[q] \in Statements(jobs[work[q]].kind)

-----------------------------------------------------------------------------
(* The listener.                                                           *)

\* The channels that notice n of event e has a job for.
JobsFor(e, n) == {c \in Channels : JobFor(e, n, c)}

\* What RoutedAsAsked says of one notice.
Done(e, n) ==
    \/ n \in missed[e]
    \/ [notice |-> n, channels |-> JobsFor(e, n)] \in due[e]

\* The notices and channels that are left are distinct from those dealt with.
Routing(e) ==
    LET all  == Range(Notices(content[e]))
        left == Range(notices[e])
    IN
    /\ pc[e] = "idle" => \A n \in all : JobsFor(e, n) = {}
    /\ pc[e] = "over" => \A n \in all : Done(e, n)
    /\ pc[e] \in {"read", "add"} =>
         /\ notices[e] # <<>> /\ left \subseteq all
         /\ Head(notices[e]) \notin Range(Tail(notices[e]))
         /\ Len(notices[e]) <= 2
         /\ \A n \in all \ left : Done(e, n)
         /\ \A n \in Range(Tail(notices[e])) : JobsFor(e, n) = {}
    /\ pc[e] = "read" => JobsFor(e, Head(notices[e])) = {}
    /\ pc[e] = "add" =>
         /\ plan[e] # <<>>
         /\ \E d \in due[e] :
              /\ d.notice = Head(notices[e])
              /\ d.channels = JobsFor(e, d.notice) \cup Range(plan[e])

RoutingKept ==
    \A e \in Events : IF content[e].kind = "OTP" THEN pc[e] \in {"idle", "over"} ELSE Routing(e)

-----------------------------------------------------------------------------
(* The workers.                                                            *)

\* The rows of a job: none more than its stops and the attempt that is under
\* way or has succeeded account for.
RowsCounted ==
    /\ \A i \in DOMAIN jobs :
         /\ RowsOf(i) <= jobs[i].stalls + 1
         /\ jobs[i].state = "waiting" /\ (\A q \in Queues : work[q] # i)
              => RowsOf(i) <= jobs[i].stalls
    /\ \A q \in Queues, i \in DOMAIN jobs : work[q] = i /\ at[q] \notin {"emit", "done"}
         => RowsOf(i) <= jobs[i].stalls

\* Whether a job of this kind leaves a row behind when it succeeds.
Recorded(j) == j.kind \in {"IN_APP", "EMAIL"} \/ (j.kind = "PUSH" /\ j.user \in WithToken)

MailAsked(i) == \E k \in DOMAIN jobs : jobs[k].kind = "MAIL" /\ jobs[k].origin = i

\* A worker past the row has written one; past the mail, it has queued one.
RowsWritten ==
    \A q \in Queues, i \in DOMAIN jobs : work[q] = i =>
        /\ at[q] \in {"emit", "done"} /\ Recorded(jobs[i]) => RowsOf(i) > 0
        /\ at[q] \in {"push", "sent", "refused", "note"} => Recorded(jobs[i])
        /\ at[q] = "sent" /\ jobs[i].kind = "EMAIL" => MailAsked(i)
        /\ at[q] = "done" /\ jobs[i].kind = "OTP" => i \in mailed

DeliveryInv ==
    /\ DeliveryTypeOK /\ Working /\ RoutingKept
    /\ RowsCounted /\ RowsWritten /\ RowsTellTruth /\ OtpMailedOrTried
=============================================================================
