---------------------------- MODULE Notification ----------------------------
(***************************************************************************)
(* NotificationListener: an event becomes jobs, one per channel the        *)
(* addressee's preferences ask for, one queue.add at a time; and the       *)
(* preferences, which NotificationService changes at any moment.           *)
(***************************************************************************)
EXTENDS Integers, Sequences, FiniteSets, SequencesExt, Bags

CONSTANTS
    Users, Events,
    None,           \* no user
    Day,            \* the minutes of a day
    Contents,       \* what the events of a run may be about
    Settings,       \* the preferences the users of a run may have
    Attempts,       \* JOB_OPTIONS.attempts
    Stalls,         \* BullMQ's maxStalledCount
    WithToken,      \* the users with a valid push token
    JobIds,         \* bound: the numbers jobs get
    MaxFaults       \* bound: the errors and stops of a behaviour

Channels == {"IN_APP", "EMAIL", "PUSH"}

\* The five events of the listener, and the code AuthService mails itself.
Kinds == {"P2P_TRANSFER", "DEPOSIT", "WITHDRAWAL", "SECURITY", "BUDGET", "SAVINGS",
          "SUBSCRIPTION", "OTP"}

\* Of an event with one addressee, that is the receiver.  The two of a transfer
\* are the same when a customer moves money to another wallet of its own.
ContentType == [kind : Kinds, sender : Users \cup {None}, receiver : Users \cup {None}]

NoticeTypes == {"PAYMENT_CONFIRMATION", "TRANSACTION_ALERT", "SECURITY_WARNING",
                "BUDGET_ALERT", "SAVINGS_UPDATE", "SUBSCRIPTION_REMINDER"}

\* DIGEST_ELIGIBLE_TYPES, of those that occur.
DigestEligible == {"SUBSCRIPTION_REMINDER", "BUDGET_ALERT"}

\* A row of NotificationPreference; its channels are in the order they were given.
SettingType ==
    [channels : UNION {[1..n -> Channels] : n \in 1..3},
     muted : SUBSET NoticeTypes, digest : BOOLEAN,
     quiet : BOOLEAN, from : 0..Day-1, to : 0..Day-1]

ASSUME DeliveryAssumption ==
    /\ None \notin Users
    /\ {Day, Attempts} \subseteq Nat \ {0}
    /\ {Stalls, MaxFaults} \subseteq Nat
    /\ JobIds \subseteq Nat \ {0}
    /\ WithToken \subseteq Users
    /\ Contents \subseteq ContentType
    /\ Settings \subseteq SettingType

VARIABLES
    prefs,      \* the NotificationPreference rows
    content,    \* the events
    pc,         \* per event: how far the listener is
    notices,    \* per event: the notifications still to be routed
    plan,       \* per event: the channels still to be added, of the first notice
    jobs,       \* the jobs of the two BullMQ queues, in the order they were added
    rows,       \* the Notification rows, a bag: the job that wrote it and its status
    work,       \* per queue: the job its worker is at, or 0
    at,         \* per queue: the statement its worker is at
    mailed,     \* the jobs whose mail the SMTP server took
    faults,     \* errors and stops so far
    due, missed \* ghosts: per event, what the preferences asked for when they
                \* were read, and the notices whose routing failed

router == <<content, pc, notices, plan>>
worker == <<work, at>>
ghosts == <<due, missed>>
vars   == <<prefs, router, jobs, rows, worker, mailed, faults, ghosts>>

-----------------------------------------------------------------------------
(* The handlers: whom an event is about.                                   *)

TypeOf(kind) ==
    CASE kind = "SECURITY"     -> "SECURITY_WARNING"
      [] kind = "BUDGET"       -> "BUDGET_ALERT"
      [] kind = "SAVINGS"      -> "SAVINGS_UPDATE"
      [] kind = "SUBSCRIPTION" -> "SUBSCRIPTION_REMINDER"
      [] kind = "DEPOSIT"      -> "PAYMENT_CONFIRMATION"
      [] OTHER                 -> "TRANSACTION_ALERT"

SenderNotices(c) ==
    IF c.kind = "P2P_TRANSFER" /\ c.sender # None
    THEN <<[user |-> c.sender, type |-> "PAYMENT_CONFIRMATION"]>> ELSE <<>>

ReceiverNotices(c) ==
    IF c.receiver # None THEN <<[user |-> c.receiver, type |-> TypeOf(c.kind)]>> ELSE <<>>

Notices(c) == SenderNotices(c) \o ReceiverNotices(c)

-----------------------------------------------------------------------------
(* routeNotification.                                                      *)

IsQuietHours(s, now) ==
    s.quiet /\ IF s.from > s.to THEN now >= s.from \/ now < s.to
                                ELSE now >= s.from /\ now < s.to

\* Which channels are left after mute, quiet hours and digest.
Passes(s, type, now, channel) ==
    /\ type \notin s.muted
    /\ channel # "IN_APP" => ~ IsQuietHours(s, now)
    /\ channel = "EMAIL" => ~ (s.digest /\ type \in DigestEligible)

\* The loop over the channels, three at most, passes over those not in keep.
Filtered(channels, keep) ==
    LET one(i) == IF i \in DOMAIN channels /\ channels[i] \in keep THEN <<channels[i]>> ELSE <<>>
    IN one(1) \o one(2) \o one(3)

Goto(e, here, next) ==
    /\ pc[e] = here
    /\ pc' = [pc EXCEPT ![e] = next]

Emitted(e) ==
    /\ content[e].kind # "OTP"
    /\ Goto(e, "idle", IF Notices(content[e]) = <<>> THEN "over" ELSE "read")
    /\ notices' = [notices EXCEPT ![e] = Notices(content[e])]
    /\ UNCHANGED <<prefs, content, plan, jobs, rows, worker, mailed, faults, ghosts>>

\* The addressee's notice is dealt with: the next one, if there is one.
Onward(e) ==
    /\ notices' = [notices EXCEPT ![e] = Tail(@)]
    /\ plan' = [plan EXCEPT ![e] = <<>>]
    /\ pc' = [pc EXCEPT ![e] = IF Tail(notices[e]) = <<>> THEN "over" ELSE "read"]

\* The ghost's view of the same, told from the documentation: quiet hours are
\* the arc of the clock that begins at from, and one meets the present on it
\* before its end.
Ahead(a, b) == IF a <= b THEN b - a ELSE b - a + Day

InQuietArc(s, now) == s.quiet /\ Ahead(s.from, now) < Ahead(s.from, s.to)

Asked(s, type, now) ==
    {c \in Range(s.channels) : /\ type \notin s.muted
                               /\ c = "IN_APP" \/ ~ InQuietArc(s, now)
                               /\ ~ (c = "EMAIL" /\ s.digest /\ type \in DigestEligible)}

\* getOrCreatePrefs, and the minute of the day, read once for all channels.
ReadPrefs(e) ==
    LET n == Head(notices[e])
        s == prefs[n.user]
    IN
    /\ pc[e] = "read"
    /\ \E now \in 0..Day-1 :
          LET wanted == {c \in Channels : Passes(s, n.type, now, c)}
              chosen == Filtered(s.channels, wanted)
          IN
          /\ due' = [due EXCEPT ![e] = @ \cup {[notice |-> n, channels |-> Asked(s, n.type, now)]}]
          /\ IF chosen = <<>> THEN Onward(e)
             ELSE /\ Goto(e, "read", "add")
                  /\ plan' = [plan EXCEPT ![e] = chosen]
                  /\ UNCHANGED notices
    /\ UNCHANGED <<prefs, content, jobs, rows, worker, mailed, faults, missed>>

\* A job: what it does, the notice it is about, and the job or event that asked
\* for it.
Job(kind, notice, origin) ==
    [kind |-> kind, user |-> notice.user, type |-> notice.type, origin |-> origin,
     tries |-> 0, stalls |-> 0, state |-> "waiting"]

AddJob(e) ==
    /\ pc[e] = "add"
    /\ jobs' = Append(jobs, Job(Head(plan[e]), Head(notices[e]), e))
    /\ IF Tail(plan[e]) = <<>> THEN Onward(e)
       ELSE /\ plan' = [plan EXCEPT ![e] = Tail(@)]
            /\ UNCHANGED <<pc, notices>>
    /\ UNCHANGED <<prefs, content, rows, worker, mailed, faults, ghosts>>

\* EmailService.sendOtp, called by AuthService.
AddOtp(e) ==
    /\ content[e].kind = "OTP"
    /\ Goto(e, "idle", "over")
    /\ jobs' = Append(jobs, Job("OTP", [user |-> content[e].receiver, type |-> "NONE"], e))
    /\ UNCHANGED <<prefs, content, notices, plan, rows, worker, mailed, faults, ghosts>>

Faulty == faults < MaxFaults /\ faults' = faults + 1

\* As RouteFails, with the error thrown on to the handler.
RouteThrows(e) ==
    /\ Faulty
    /\ pc[e] \in {"read", "add"}
    /\ missed' = [missed EXCEPT ![e] = @ \cup {Head(notices[e])}]
    /\ pc' = [pc EXCEPT ![e] = "over"]
    /\ UNCHANGED <<prefs, content, notices, plan, jobs, rows, worker, mailed, due>>

\* An error of the preferences or the queue is logged; the channels that are
\* left are dropped, the next addressee is routed all the same.
RouteFails(e) ==
    /\ Faulty
    /\ pc[e] \in {"read", "add"}
    /\ missed' = [missed EXCEPT ![e] = @ \cup {Head(notices[e])}]
    /\ Onward(e)
    /\ UNCHANGED <<prefs, content, jobs, rows, worker, mailed, due>>

-----------------------------------------------------------------------------
(* NotificationService.                                                    *)

UpdatePreferences(u) ==
    /\ \E s \in Settings : prefs' = [prefs EXCEPT ![u] = s]
    /\ UNCHANGED <<router, jobs, rows, worker, mailed, faults, ghosts>>

\* The way of an event through the listener.
Route(e) == Emitted(e) \/ ReadPrefs(e) \/ AddJob(e) \/ AddOtp(e)
=============================================================================
