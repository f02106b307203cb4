------------------------------ MODULE Channels ------------------------------
(***************************************************************************)
(* The workers of the two queues: NotificationProcessor with its three     *)
(* channels and EmailProcessor, one statement at a time, with the errors   *)
(* of the database, the queue, Expo and the mail server, and the retries,  *)
(* stalls and failures of BullMQ.                                          *)
(***************************************************************************)
EXTENDS Notification

Queues == {"notifications", "email"}
QueueOf(kind) == IF kind \in {"OTP", "MAIL"} THEN "email" ELSE "notifications"

\* As FirstStatement, with a handler for mails that never comes to an end.
HangsOnMail(j) ==
    CASE j.kind = "IN_APP" -> "create"
      [] j.kind = "EMAIL"  -> "user"
      [] j.kind = "PUSH"   -> "devices"
      [] j.kind = "OTP"    -> "smtp"
      [] j.kind = "MAIL"   -> "none"

\* The first statement of a job, by its name.  The email worker has no case for
\* the mails of notifications.
FirstStatement(j) ==
    CASE j.kind = "IN_APP" -> "create"
      [] j.kind = "EMAIL"  -> "user"
      [] j.kind = "PUSH"   -> "devices"
      [] j.kind = "OTP"    -> "smtp"
      [] j.kind = "MAIL"   -> "done"

\* The oldest job never tried, or any job to be tried again: a retry waits for
\* its backoff.
Takable(q) ==
    LET waiting == {i \in DOMAIN jobs : /\ QueueOf(jobs[i].kind) = q
                                        /\ jobs[i].state = "waiting"}
        again(i) == jobs[i].tries + jobs[i].stalls > 0
    IN {i \in waiting : again(i) \/ \A k \in waiting : again(k) \/ i <= k}

Take(q) ==
    /\ work[q] = 0
    /\ \E i \in Takable(q) :
          /\ work' = [work EXCEPT ![q] = i]
          /\ at' = [at EXCEPT ![q] = FirstStatement(jobs[i])]
    /\ UNCHANGED <<prefs, router, jobs, rows, mailed, faults, ghosts>>

Step(q, here, next) ==
    /\ work[q] # 0
    /\ at[q] = here
    /\ at' = [at EXCEPT ![q] = next]
    /\ UNCHANGED work

With(q, status) == rows (+) SetToBag({[job |-> work[q], status |-> status]})

-----------------------------------------------------------------------------
(* InAppChannel, EmailChannel and PushChannel.                             *)

CreateInApp(q) ==
    /\ Step(q, "create", "emit")
    /\ rows' = With(q, "DELIVERED")
    /\ UNCHANGED <<prefs, router, jobs, mailed, faults, ghosts>>

\* To whoever is in the user's room; a socket message leaves nothing behind.
EmitToUser(q) ==
    /\ Step(q, "emit", "done")
    /\ UNCHANGED <<prefs, router, jobs, rows, mailed, faults, ghosts>>

FindUser(q) ==
    /\ Step(q, "user", "queue")
    /\ UNCHANGED <<prefs, router, jobs, rows, mailed, faults, ghosts>>

\* EmailService.sendNotification.
QueueMail(q) ==
    /\ Step(q, "queue", "sent")
    /\ jobs' = Append(jobs, Job("MAIL", jobs[work[q]], work[q]))
    /\ UNCHANGED <<prefs, router, rows, mailed, faults, ghosts>>

\* Push ends here for users without a token.
FindDevices(q) ==
    /\ work[q] # 0
    /\ Step(q, "devices", IF jobs[work[q]].user \in WithToken THEN "push" ELSE "done")
    /\ UNCHANGED <<prefs, router, jobs, rows, mailed, faults, ghosts>>

\* Expo takes some message or none; an error of a chunk counts as none.
SendPush(q) ==
    /\ \E outcome \in {"sent", "refused"} : Step(q, "push", outcome)
    /\ UNCHANGED <<prefs, router, jobs, rows, mailed, faults, ghosts>>

\* The row after the mail was queued or Expo answered.
RecordSent(q) ==
    /\ \/ Step(q, "sent", "done") /\ rows' = With(q, "SENT")
       \/ Step(q, "refused", "done") /\ rows' = With(q, "FAILED")
    /\ UNCHANGED <<prefs, router, jobs, mailed, faults, ghosts>>

\* An error inside the try, also one that comes after the sending.
Caught(q) ==
    /\ Faulty
    /\ \E here \in {"queue", "sent", "refused"} : Step(q, here, "note")
    /\ UNCHANGED <<prefs, router, jobs, rows, mailed, ghosts>>

\* As NoteFailure, only logging.
LogFailure(q) ==
    /\ Step(q, "note", "done")
    /\ UNCHANGED <<prefs, router, jobs, rows, mailed, faults, ghosts>>

\* The catch writes a row of its own, and the job is done.
NoteFailure(q) ==
    /\ Step(q, "note", "done")
    /\ rows' = With(q, "FAILED")
    /\ UNCHANGED <<prefs, router, jobs, mailed, faults, ghosts>>

-----------------------------------------------------------------------------
(* EmailProcessor.                                                         *)

SendOtpMail(q) ==
    /\ Step(q, "smtp", "done")
    /\ mailed' = mailed \cup {work[q]}
    /\ UNCHANGED <<prefs, router, jobs, rows, faults, ghosts>>

-----------------------------------------------------------------------------
(* BullMQ.                                                                 *)

Idle(q) ==
    /\ work' = [work EXCEPT ![q] = 0]
    /\ at' = [at EXCEPT ![q] = "none"]

Complete(q) ==
    /\ work[q] # 0 /\ at[q] = "done"
    /\ jobs' = [jobs EXCEPT ![work[q]].state = "completed"]
    /\ Idle(q)
    /\ UNCHANGED <<prefs, router, rows, mailed, faults, ghosts>>

\* As TriedAgain, with an error in the first attempt for the last.
TriedOnce(j) == [j EXCEPT !.tries = @ + 1, !.state = "failed"]

TriedAgain(j) ==
    [j EXCEPT !.tries = @ + 1, !.state = IF j.tries + 1 = Attempts THEN "failed" ELSE "waiting"]

\* As AttemptFails, with an emit that may throw after the row was written.
EmitMayFail(q) ==
    /\ Faulty
    /\ work[q] # 0
    /\ at[q] \in {"create", "emit", "user", "devices", "note", "smtp"}
    /\ jobs' = [jobs EXCEPT ![work[q]] = TriedAgain(@)]
    /\ Idle(q)
    /\ UNCHANGED <<prefs, router, rows, mailed, ghosts>>

\* The statements outside a try: an error there fails the attempt.
AttemptFails(q) ==
    /\ Faulty
    /\ work[q] # 0
    /\ at[q] \in {"create", "user", "devices", "note", "smtp"}
    /\ jobs' = [jobs EXCEPT ![work[q]] = TriedAgain(@)]
    /\ Idle(q)
    /\ UNCHANGED <<prefs, router, rows, mailed, ghosts>>

Stalled(j) ==
    [j EXCEPT !.stalls = @ + 1, !.state = IF j.stalls = Stalls THEN "failed" ELSE "waiting"]

\* The process stops: what the listener was doing is lost, the jobs the
\* workers were at stall and are run again, but only so often.
Crash ==
    /\ Faulty
    /\ pc' = [e \in Events |-> IF pc[e] \in {"read", "add"} THEN "lost" ELSE pc[e]]
    /\ jobs' = [i \in DOMAIN jobs |->
                  IF i \in {work[q] : q \in Queues} THEN Stalled(jobs[i]) ELSE jobs[i]]
    /\ work' = [q \in Queues |-> 0]
    /\ at' = [q \in Queues |-> "none"]
    /\ UNCHANGED <<prefs, content, notices, plan, rows, mailed, ghosts>>

\* The steps a running worker takes by itself.
Work(q) ==
    \/ Take(q) \/ CreateInApp(q) \/ EmitToUser(q) \/ FindUser(q) \/ QueueMail(q)
    \/ FindDevices(q) \/ SendPush(q) \/ RecordSent(q) \/ NoteFailure(q) \/ SendOtpMail(q)
    \/ Complete(q)
=============================================================================
