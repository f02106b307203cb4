--------------------------- MODULE DeliveryProofs ---------------------------
(***************************************************************************)
(* Delivery is correct for every set of users, events, contents and        *)
(* settings and every number of attempts, stops and errors.                *)
(***************************************************************************)
EXTENDS DeliveryInvariant, Sums, SequenceTheorems

\* What is in a sequence is its head or in its tail.
LEMMA HeadAndTail ==
    ASSUME NEW S, NEW s \in Seq(S), s # <<>>
    PROVE  /\ Range(s) = {Head(s)} \cup Range(Tail(s))
           /\ Tail(s) \in Seq(S) /\ Head(s) \in S
<1>1. Len(s) \in Nat /\ Len(s) # 0 /\ DOMAIN s = 1..Len(s)
  BY EmptySeq, LenProperties
<1>2. /\ Head(s) = s[1] /\ Tail(s) \in Seq(S) /\ Len(Tail(s)) = Len(s) - 1
      /\ \A i \in 1..Len(Tail(s)) : Tail(s)[i] = s[i + 1]
  BY HeadTailProperties
<1>3. DOMAIN Tail(s) = 1..Len(Tail(s))
  BY <1>2, LenProperties
<1>4. ASSUME NEW x \in Range(s) PROVE x = Head(s) \/ x \in Range(Tail(s))
  <2>1. PICK i \in DOMAIN s : x = s[i]
    BY <1>4 DEF Range
  <2>2. i # 1 => i - 1 \in DOMAIN Tail(s) /\ Tail(s)[i - 1] = x
    BY <1>1, <1>2, <1>3, <2>1
  <2> QED
    BY <1>2, <2>1, <2>2 DEF Range
<1>5. ASSUME NEW x \in Range(Tail(s)) PROVE x \in Range(s)
  <2>1. PICK i \in DOMAIN Tail(s) : x = Tail(s)[i]
    BY <1>5 DEF Range
  <2> QED
    BY <1>1, <1>2, <1>3, <2>1 DEF Range
<1>6. Head(s) \in Range(s) /\ Head(s) \in S
  BY <1>1, <1>2, ElementOfSeq DEF Range
<1> QED
  BY <1>2, <1>4, <1>5, <1>6

\* What is in a sequence over S is in S.
LEMMA RangeIn == ASSUME NEW S, NEW s \in Seq(S) PROVE Range(s) \subseteq S
BY LenProperties, ElementOfSeq DEF Range

-----------------------------------------------------------------------------
(* Jobs and rows.                                                          *)

\* Jobs are numbered from one on.
LEMMA JobFacts ==
    ASSUME DeliveryTypeOK
    PROVE  /\ Len(jobs) \in Nat /\ DOMAIN jobs = 1..Len(jobs) /\ 0 \notin DOMAIN jobs
           /\ \A i \in DOMAIN jobs : jobs[i] \in JobType
<1>1. jobs \in Seq(JobType)
  BY DEF DeliveryTypeOK
<1>2. Len(jobs) \in Nat /\ DOMAIN jobs = 1..Len(jobs) /\ jobs \in [1..Len(jobs) -> JobType]
  BY <1>1, LenProperties
<1> QED
  BY <1>2

\* A job put in a queue gets a number of its own and changes no other job.
LEMMA AppendedJob ==
    ASSUME DeliveryTypeOK, NEW j \in JobType, jobs' = Append(jobs, j)
    PROVE  /\ jobs' \in Seq(JobType)
           /\ \E k \in Nat \ {0} :
                /\ k \notin DOMAIN jobs /\ DOMAIN jobs' = DOMAIN jobs \cup {k}
                /\ k = Len(jobs) + 1 /\ jobs'[k] = j
                /\ \A i \in DOMAIN jobs : jobs'[i] = jobs[i]
<1>1. jobs \in Seq(JobType)
  BY DEF DeliveryTypeOK
<1>2. /\ jobs' \in Seq(JobType) /\ Len(jobs') = Len(jobs) + 1 /\ jobs'[Len(jobs) + 1] = j
      /\ \A i \in 1..Len(jobs) : jobs'[i] = jobs[i]
  BY <1>1, AppendProperties
<1>3. DOMAIN jobs' = 1..(Len(jobs) + 1)
  BY <1>2, LenProperties
<1> QED
  BY <1>2, <1>3, JobFacts

\* Changing jobs leaves a sequence of jobs.
LEMMA ChangedJobs ==
    ASSUME DeliveryTypeOK, NEW new \in [DOMAIN jobs -> JobType]
    PROVE  new \in Seq(JobType)
BY JobFacts, SeqDef

\* What the listener is after does not depend on how far a job is.
LEMMA SameJobFor ==
    ASSUME DOMAIN jobs' = DOMAIN jobs,
           \A i \in DOMAIN jobs : /\ jobs'[i].kind = jobs[i].kind /\ jobs'[i].user = jobs[i].user
                                  /\ jobs'[i].type = jobs[i].type
                                  /\ jobs'[i].origin = jobs[i].origin,
           NEW e, NEW n
    PROVE  /\ \A c : JobFor(e, n, c)' <=> JobFor(e, n, c)
           /\ JobsFor(e, n)' = JobsFor(e, n)
BY DEF JobFor, JobsFor

\* A job of another origin or kind neither.
LEMMA OtherJobFor ==
    ASSUME NEW k, k \notin DOMAIN jobs, DOMAIN jobs' = DOMAIN jobs \cup {k},
           \A i \in DOMAIN jobs : jobs'[i] = jobs[i],
           NEW e, NEW n, jobs'[k].origin # e \/ jobs'[k].kind \notin Channels
    PROVE  JobsFor(e, n)' = JobsFor(e, n)
BY DEF JobFor, JobsFor

\* The rows of a job are counted by a natural number.
LEMMA RowsNat ==
    ASSUME DeliveryTypeOK, NEW i
    PROVE  RowsOf(i) \in Nat
<1>1. IsFiniteSet({row \in BagToSet(rows) : row.job = i})
  BY FS_Subset DEF DeliveryTypeOK, BagToSet
<1>2. \A x \in {row \in BagToSet(rows) : row.job = i} : rows[x] \in Nat
  BY DEF DeliveryTypeOK, BagToSet
<1> QED
  BY <1>1, <1>2, SumNat DEF RowsOf

\* A row that is there counts.
LEMMA RowCounts ==
    ASSUME DeliveryTypeOK, NEW row \in DOMAIN rows
    PROVE  RowsOf(row.job) > 0
<1> DEFINE S == {r \in BagToSet(rows) : r.job = row.job}
<1>1. IsFiniteSet(S) /\ row \in S /\ \A x \in S : rows[x] \in Nat \ {0}
  BY FS_Subset DEF DeliveryTypeOK, BagToSet
<1>2. IsFiniteSet(S \ {row}) /\ \A x \in S \ {row} : rows[x] \in Nat
  BY <1>1, FS_Subset
<1>3. RowsOf(row.job) = SumFunctionOnSet(rows, S)
  BY DEF RowsOf
<1> HIDE DEF S
<1>4. SumFunctionOnSet(rows, S \ {row}) \in Nat
  BY <1>2, SumNat
<1>5. SumFunctionOnSet(rows, S) = rows[row] + SumFunctionOnSet(rows, S \ {row})
  BY <1>1, SumRemove
<1> QED
  BY <1>1, <1>3, <1>4, <1>5

\* A job that is not there yet has no rows.
LEMMA NoRows ==
    ASSUME DeliveryTypeOK, NEW k, k \notin DOMAIN jobs
    PROVE  RowsOf(k) = 0
<1>1. {row \in BagToSet(rows) : row.job = k} = {}
  BY DEF DeliveryTypeOK, BagToSet
<1> QED
  BY <1>1, SumEmpty DEF RowsOf

\* A row of a job is one more of that job's rows, and of no other's.
LEMMA RowAdded ==
    ASSUME DeliveryTypeOK, NEW q \in Queues, work[q] # 0,
           NEW status \in {"DELIVERED", "SENT", "FAILED"}, rows' = With(q, status)
    PROVE  /\ DOMAIN rows' = DOMAIN rows \cup {[job |-> work[q], status |-> status]}
           /\ IsFiniteSet(DOMAIN rows') /\ rows' \in [DOMAIN rows' -> Nat \ {0}]
           /\ DOMAIN rows' \subseteq [job : DOMAIN jobs, status : {"DELIVERED", "SENT", "FAILED"}]
           /\ \A i : RowsOf(i)' = IF i = work[q] THEN RowsOf(i) + 1 ELSE RowsOf(i)
<1>0. PICK r : r = [job |-> work[q], status |-> status]
  OBVIOUS
<1>1. /\ DOMAIN rows' = DOMAIN rows \cup {r}
      /\ \A x \in DOMAIN rows' : rows'[x] = (IF x \in DOMAIN rows THEN rows[x] ELSE 0)
                                              + (IF x = r THEN 1 ELSE 0)
  BY <1>0 DEF With, (+), SetToBag
<1>2. IsFiniteSet(DOMAIN rows) /\ rows \in [DOMAIN rows -> Nat \ {0}] /\ work[q] \in DOMAIN jobs
  BY DEF DeliveryTypeOK
<1>3. IsFiniteSet(DOMAIN rows')
  BY <1>1, <1>2, FS_AddElement
<1>4. \A x \in DOMAIN rows' : rows'[x] \in Nat \ {0}
  BY <1>1, <1>2
<1>5. rows' \in [DOMAIN rows' -> Nat \ {0}]
  <2>1. rows' = [x \in DOMAIN rows' |-> rows'[x]]
    BY <1>0 DEF With, (+), SetToBag
  <2> QED
    BY <1>4, <2>1
<1>6. DOMAIN rows' \subseteq [job : DOMAIN jobs, status : {"DELIVERED", "SENT", "FAILED"}]
  BY <1>0, <1>1, <1>2 DEF DeliveryTypeOK
<1>7. ASSUME NEW i PROVE RowsOf(i)' = IF i = work[q] THEN RowsOf(i) + 1 ELSE RowsOf(i)
  <2>0. PICK S, T, f, g : /\ S = {row \in DOMAIN rows : row.job = i} /\ f = rows
                          /\ T = {row \in DOMAIN rows' : row.job = i} /\ g = rows'
    OBVIOUS
  <2>1. RowsOf(i) = SumFunctionOnSet(f, S) /\ RowsOf(i)' = SumFunctionOnSet(g, T)
    BY <2>0 DEF RowsOf, BagToSet
  <2>2. IsFiniteSet(S) /\ IsFiniteSet(T)
    BY <1>2, <1>3, <2>0, FS_Subset
  <2>3. /\ \A x \in S : f[x] \in Nat
        /\ \A x \in S : x # r => g[x] = f[x]
        /\ \A x \in T : g[x] \in Nat
    BY <1>1, <1>2, <1>4, <2>0
  <2>4. CASE i # work[q]
    <3>1. T = S /\ r \notin S
      BY <1>0, <1>1, <2>0, <2>4
    <3> QED
      BY <2>1, <2>2, <2>3, <2>4, <3>1, SumSame
  <2>5. CASE i = work[q] /\ r \in S
    <3>1. T = S /\ g[r] = f[r] + 1 /\ f[r] \in Int
      BY <1>0, <1>1, <1>2, <2>0, <2>5
    <3>2. SumFunctionOnSet(g, S) = SumFunctionOnSet(f, S) + (g[r] - f[r])
      BY <2>2, <2>3, <2>5, <3>1, SumChange
    <3>3. SumFunctionOnSet(f, S) \in Nat
      BY <2>2, <2>3, SumNat
    <3> QED
      BY <2>1, <2>5, <3>1, <3>2, <3>3
  <2>6. CASE i = work[q] /\ r \notin S
    <3>1. T = S \cup {r} /\ g[r] = 1
      BY <1>0, <1>1, <2>0, <2>6
    <3>2. SumFunctionOnSet(g, S \cup {r}) = g[r] + SumFunctionOnSet(g, S)
      BY <2>2, <2>3, <2>6, <3>1, SumAdd
    <3>3. SumFunctionOnSet(g, S) = SumFunctionOnSet(f, S) /\ SumFunctionOnSet(f, S) \in Nat
      BY <2>2, <2>3, <2>6, SumSame, SumNat
    <3> QED
      BY <2>1, <2>6, <3>1, <3>2, <3>3
  <2> QED
    BY <2>4, <2>5, <2>6
<1> QED
  BY <1>0, <1>1, <1>3, <1>5, <1>6, <1>7

-----------------------------------------------------------------------------
(* The listener's operators.                                               *)

\* The notices of an event are one or two, and two differ in their type.
LEMMA NoticesShape ==
    ASSUME NEW c \in ContentType, c.kind # "OTP"
    PROVE  /\ Notices(c) \in Seq(Notice) /\ Len(Notices(c)) <= 2
           /\ Notices(c) # <<>> => Head(Notices(c)) \notin Range(Tail(Notices(c)))
<1>1. TypeOf(c.kind) \in NoticeTypes /\ (c.kind = "P2P_TRANSFER" => TypeOf(c.kind) = "TRANSACTION_ALERT")
  BY DEF ContentType, Kinds, TypeOf, NoticeTypes
<1>2. c.receiver # None => [user |-> c.receiver, type |-> TypeOf(c.kind)] \in Notice
  BY <1>1 DEF ContentType, Notice
<1>3. c.sender # None => [user |-> c.sender, type |-> "PAYMENT_CONFIRMATION"] \in Notice
  BY DEF ContentType, Notice, NoticeTypes
<1> DEFINE s == SenderNotices(c)
           r == ReceiverNotices(c)
<1>4. /\ s \in Seq(Notice) /\ r \in Seq(Notice)
      /\ Len(s) \in {0, 1} /\ Len(r) \in {0, 1}
  BY <1>2, <1>3 DEF SenderNotices, ReceiverNotices
<1>5. /\ s \o r \in Seq(Notice) /\ Len(s \o r) = Len(s) + Len(r)
      /\ \A i \in 1..Len(s) + Len(r) : (s \o r)[i] = IF i <= Len(s) THEN s[i] ELSE r[i - Len(s)]
  BY <1>4, ConcatProperties
<1>6. Notices(c) = s \o r
  BY DEF Notices
<1>7. ASSUME Notices(c) # <<>>, Head(Notices(c)) \in Range(Tail(Notices(c))) PROVE FALSE
  <2>0. PICK all : all = Notices(c)
    OBVIOUS
  <2>1. /\ all \in Seq(Notice) /\ all # <<>> /\ Len(all) \in Nat /\ Head(all) = all[1]
        /\ Tail(all) \in Seq(Notice) /\ Len(Tail(all)) = Len(all) - 1
        /\ \A i \in 1..Len(Tail(all)) : Tail(all)[i] = all[i + 1]
    BY <1>4, <1>5, <1>6, <1>7, <2>0, HeadTailProperties, LenProperties
  <2>2. DOMAIN Tail(all) = 1..Len(Tail(all))
    BY <2>1, LenProperties
  <2>3. PICK i \in 1..Len(Tail(all)) : Tail(all)[i] = all[1]
    BY <1>7, <2>0, <2>1, <2>2 DEF Range
  <2>4. Len(s) = 1 /\ Len(r) = 1 /\ i = 1
    BY <1>4, <1>5, <1>6, <2>0, <2>1, <2>3
  <2>5. s[1] = r[1]
    BY <1>4, <1>5, <1>6, <2>0, <2>1, <2>3, <2>4
  <2>6. s[1].type = "PAYMENT_CONFIRMATION" /\ c.kind = "P2P_TRANSFER" /\ r[1].type = TypeOf(c.kind)
    BY <2>4 DEF SenderNotices, ReceiverNotices
  <2> QED
    BY <1>1, <2>5, <2>6
<1> QED
  BY <1>4, <1>5, <1>6, <1>7

\* Quiet hours as the code tells them, on either side of midnight, are the arc
\* of the clock that the documentation describes.
LEMMA QuietAgrees ==
    ASSUME NEW s \in SettingType, NEW now \in 0..Day-1
    PROVE  IsQuietHours(s, now) <=> InQuietArc(s, now)
<1>1. Day \in Nat /\ s.from \in 0..Day-1 /\ s.to \in 0..Day-1
  BY DeliveryAssumption DEF SettingType
<1> QED
  BY <1>1 DEF IsQuietHours, InQuietArc, Ahead

\* Filtered keeps exactly the channels in keep.
LEMMA FilteredKeeps ==
    ASSUME NEW s \in UNION {[1..n -> Channels] : n \in 1..3}, NEW keep
    PROVE  /\ Filtered(s, keep) \in Seq(Channels)
           /\ Range(Filtered(s, keep)) = Range(s) \cap keep
<1>1. PICK n \in 1..3 : s \in [1..n -> Channels]
  OBVIOUS
<1> DEFINE one(i) == IF i \in DOMAIN s /\ s[i] \in keep THEN <<s[i]>> ELSE <<>>
<1>2. PICK a, b, c : a = one(1) /\ b = one(2) /\ c = one(3)
  OBVIOUS
<1>3. /\ a \in Seq(Channels) /\ b \in Seq(Channels) /\ c \in Seq(Channels)
      /\ Range(a) = {s[i] : i \in {1} \cap DOMAIN s} \cap keep
      /\ Range(b) = {s[i] : i \in {2} \cap DOMAIN s} \cap keep
      /\ Range(c) = {s[i] : i \in {3} \cap DOMAIN s} \cap keep
  BY <1>1, <1>2 DEF Range
<1>4. ASSUME NEW t \in Seq(Channels), NEW u \in Seq(Channels)
      PROVE  t \o u \in Seq(Channels) /\ Range(t \o u) = Range(t) \cup Range(u)
  <2>1. /\ t \o u \in Seq(Channels) /\ Len(t \o u) = Len(t) + Len(u)
        /\ \A i \in 1..Len(t) + Len(u) : (t \o u)[i] = IF i <= Len(t) THEN t[i] ELSE u[i - Len(t)]
    BY ConcatProperties
  <2>2. /\ Len(t) \in Nat /\ DOMAIN t = 1..Len(t) /\ Len(u) \in Nat /\ DOMAIN u = 1..Len(u)
        /\ DOMAIN (t \o u) = 1..Len(t) + Len(u)
    BY <2>1, LenProperties
  <2>3. ASSUME NEW x \in Range(t) PROVE x \in Range(t \o u)
    <3>1. PICK i \in DOMAIN t : x = t[i]
      BY <2>3 DEF Range
    <3>2. i \in DOMAIN (t \o u) /\ (t \o u)[i] = x
      BY <2>1, <2>2, <3>1
    <3> QED
      BY <3>2 DEF Range
  <2>4. ASSUME NEW x \in Range(u) PROVE x \in Range(t \o u)
    <3>1. PICK i \in DOMAIN u : x = u[i]
      BY <2>4 DEF Range
    <3>2. i + Len(t) \in DOMAIN (t \o u) /\ (t \o u)[i + Len(t)] = x
      BY <2>1, <2>2, <3>1
    <3> QED
      BY <3>2 DEF Range
  <2>5. ASSUME NEW x \in Range(t \o u) PROVE x \in Range(t) \cup Range(u)
    <3>1. PICK i \in DOMAIN (t \o u) : x = (t \o u)[i]
      BY <2>5 DEF Range
    <3>2. (i <= Len(t) => i \in DOMAIN t) /\ (~ (i <= Len(t)) => i - Len(t) \in DOMAIN u)
      BY <2>2, <3>1
    <3> QED
      BY <2>1, <2>2, <3>1, <3>2 DEF Range
  <2> QED
    BY <2>1, <2>3, <2>4, <2>5
<1>5. Filtered(s, keep) = (a \o b) \o c
  BY <1>2 DEF Filtered
<1>6. a \o b \in Seq(Channels) /\ Range(a \o b) = Range(a) \cup Range(b)
  BY <1>3, <1>4
<1>7. (a \o b) \o c \in Seq(Channels) /\ Range((a \o b) \o c) = Range(a) \cup Range(b) \cup Range(c)
  BY <1>3, <1>4, <1>6
<1>8. Range(s) = {s[i] : i \in {1} \cap DOMAIN s} \cup {s[i] : i \in {2} \cap DOMAIN s}
                   \cup {s[i] : i \in {3} \cap DOMAIN s}
  BY <1>1 DEF Range
<1> QED
  BY <1>3, <1>5, <1>7, <1>8

\* What the listener adds jobs for is what the preferences ask for.
LEMMA ChosenAsAsked ==
    ASSUME NEW s \in SettingType, NEW now \in 0..Day-1, NEW type
    PROVE  LET chosen == Filtered(s.channels, {c \in Channels : Passes(s, type, now, c)})
           IN  /\ chosen \in Seq(Channels) /\ Range(chosen) = Asked(s, type, now)
               /\ Asked(s, type, now) \subseteq Channels
<1>1. s.channels \in UNION {[1..n -> Channels] : n \in 1..3}
  BY DEF SettingType
<1>2. PICK keep : keep = {c \in Channels : Passes(s, type, now, c)}
  OBVIOUS
<1>3. Filtered(s.channels, keep) \in Seq(Channels) /\ Range(Filtered(s.channels, keep)) = Range(s.channels) \cap keep
  BY <1>1, FilteredKeeps
<1>4. Range(s.channels) \subseteq Channels
  BY <1>1 DEF Range
<1>5. Range(s.channels) \cap keep = Asked(s, type, now)
  <2>1. ASSUME NEW c \in Channels
        PROVE  Passes(s, type, now, c) <=>
                 /\ type \notin s.muted
                 /\ c = "IN_APP" \/ ~ InQuietArc(s, now)
                 /\ ~ (c = "EMAIL" /\ s.digest /\ type \in DigestEligible)
    BY QuietAgrees DEF Passes
  <2> QED
    BY <1>2, <1>4, <2>1 DEF Asked
<1> QED
  BY <1>2, <1>3, <1>5

-----------------------------------------------------------------------------
(* Every step keeps the types.                                             *)

\* While an event is being routed there is a notice at hand, and a channel.
LEMMA AtHand ==
    ASSUME DeliveryTypeOK, RoutingKept, NEW e \in Events, pc[e] \in {"read", "add"}
    PROVE  /\ notices[e] \in Seq(Notice) /\ notices[e] # <<>>
           /\ Head(notices[e]) \in Notice /\ Tail(notices[e]) \in Seq(Notice)
           /\ Range(notices[e]) = {Head(notices[e])} \cup Range(Tail(notices[e]))
           /\ pc[e] = "add" => /\ plan[e] \in Seq(Channels) /\ plan[e] # <<>>
                               /\ Head(plan[e]) \in Channels /\ Tail(plan[e]) \in Seq(Channels)
                               /\ Range(plan[e]) = {Head(plan[e])} \cup Range(Tail(plan[e]))
           /\ content[e].kind # "OTP"
<1>1. content[e].kind # "OTP" /\ Routing(e)
  BY DEF RoutingKept
<1>2. notices[e] # <<>> /\ (pc[e] = "add" => plan[e] # <<>>)
  BY <1>1 DEF Routing
<1>3. notices[e] \in Seq(Notice) /\ plan[e] \in Seq(Channels)
  BY DEF DeliveryTypeOK
<1> QED
  BY <1>1, <1>2, <1>3, HeadAndTail

\* The job a worker is at.
LEMMA AtWork ==
    ASSUME DeliveryTypeOK, Working, NEW q \in Queues, work[q] # 0
    PROVE  /\ work[q] \in DOMAIN jobs /\ jobs[work[q]] \in JobType
           /\ jobs[work[q]].state = "waiting" /\ QueueOf(jobs[work[q]].kind) = q
           /\ at[q] \in Statements(jobs[work[q]].kind)
           /\ \A p \in Queues : p # q => work[p] # work[q]
BY JobFacts DEF DeliveryTypeOK, Working

\* The listener's steps keep the types.
LEMMA RouteType ==
    ASSUME DeliveryTypeOK, RoutingKept, NEW e \in Events, Route(e) \/ RouteFails(e)
    PROVE  DeliveryTypeOK'
<1>0. content[e] \in ContentType
  BY DeliveryAssumption DEF DeliveryTypeOK
<1>1. CASE Emitted(e)
  <2>1. Notices(content[e]) \in Seq(Notice)
    BY <1>0, <1>1, NoticesShape DEF Emitted
  <2> QED
    BY <1>1, <2>1 DEF DeliveryTypeOK, Emitted, Goto, worker, ghosts
<1>2. ASSUME Onward(e), pc[e] \in {"read", "add"}
      PROVE  /\ notices' \in [Events -> Seq(Notice)] /\ plan' \in [Events -> Seq(Channels)]
             /\ pc' \in [Events -> {"idle", "read", "add", "over", "lost"}]
  <2>1. Tail(notices[e]) \in Seq(Notice) /\ <<>> \in Seq(Channels)
    BY <1>2, AtHand
  <2> QED
    BY <1>2, <2>1 DEF DeliveryTypeOK, Onward
<1>3. CASE ReadPrefs(e)
  <2>1. PICK n : n = Head(notices[e])
    OBVIOUS
  <2>2. pc[e] = "read" /\ n \in Notice
    BY <1>3, <2>1, AtHand DEF ReadPrefs
  <2>3. PICK s : s = prefs[n.user] /\ s \in SettingType
    BY <2>2, DeliveryAssumption DEF DeliveryTypeOK, Notice
  <2>4. PICK now \in 0..Day-1 :
          LET chosen == Filtered(s.channels, {c \in Channels : Passes(s, n.type, now, c)})
          IN  /\ due' = [due EXCEPT ![e] = @ \cup {[notice |-> n, channels |-> Asked(s, n.type, now)]}]
              /\ IF chosen = <<>> THEN Onward(e)
                 ELSE /\ Goto(e, "read", "add")
                      /\ plan' = [plan EXCEPT ![e] = chosen]
                      /\ UNCHANGED notices
    BY <1>3, <2>1, <2>3 DEF ReadPrefs
  <2>5. PICK chosen : chosen = Filtered(s.channels, {c \in Channels : Passes(s, n.type, now, c)})
    OBVIOUS
  <2>6. chosen \in Seq(Channels) /\ Asked(s, n.type, now) \subseteq Channels
    BY <2>3, <2>5, ChosenAsAsked
  <2>7. due' \in [Events -> SUBSET [notice : Notice, channels : SUBSET Channels]]
    BY <2>2, <2>4, <2>6 DEF DeliveryTypeOK
  <2>8. /\ notices' \in [Events -> Seq(Notice)] /\ plan' \in [Events -> Seq(Channels)]
        /\ pc' \in [Events -> {"idle", "read", "add", "over", "lost"}]
    <3>1. CASE chosen = <<>>
      BY <1>2, <2>2, <2>4, <2>5, <3>1
    <3>2. CASE chosen # <<>>
      BY <2>4, <2>5, <2>6, <3>2 DEF DeliveryTypeOK, Goto
    <3> QED
      BY <3>1, <3>2
  <2> QED
    BY <1>3, <2>7, <2>8 DEF DeliveryTypeOK, ReadPrefs, worker
<1>4. CASE AddJob(e)
  <2>1. pc[e] = "add" /\ Head(plan[e]) \in Channels /\ Tail(plan[e]) \in Seq(Channels)
        /\ Head(notices[e]) \in Notice
    BY <1>4, AtHand DEF AddJob
  <2>2. Job(Head(plan[e]), Head(notices[e]), e) \in JobType
    BY <2>1 DEF Job, JobType, Notice
  <2>3. /\ jobs' \in Seq(JobType) /\ DOMAIN jobs \subseteq DOMAIN jobs'
    BY <1>4, <2>2, AppendedJob DEF AddJob
  <2>4. /\ notices' \in [Events -> Seq(Notice)] /\ plan' \in [Events -> Seq(Channels)]
        /\ pc' \in [Events -> {"idle", "read", "add", "over", "lost"}]
    <3>1. CASE Tail(plan[e]) = <<>>
      BY <1>2, <1>4, <2>1, <3>1 DEF AddJob
    <3>2. CASE Tail(plan[e]) # <<>>
      BY <1>4, <2>1, <3>2 DEF AddJob, DeliveryTypeOK
    <3> QED
      BY <3>1, <3>2
  <2>5. UNCHANGED <<prefs, content, rows, work, at, mailed, due, missed>>
    BY <1>4 DEF AddJob, worker, ghosts
  <2> QED
    BY <2>3, <2>4, <2>5 DEF DeliveryTypeOK
<1>5. CASE AddOtp(e)
  <2>1. Job("OTP", [user |-> content[e].receiver, type |-> "NONE"], e) \in JobType
    BY <1>0 DEF Job, JobType, ContentType
  <2>2. /\ jobs' \in Seq(JobType) /\ DOMAIN jobs \subseteq DOMAIN jobs'
    BY <1>5, <2>1, AppendedJob DEF AddOtp
  <2>3. pc' \in [Events -> {"idle", "read", "add", "over", "lost"}]
    BY <1>5 DEF AddOtp, Goto, DeliveryTypeOK
  <2>4. UNCHANGED <<prefs, content, notices, plan, rows, work, at, mailed, due, missed>>
    BY <1>5 DEF AddOtp, worker, ghosts
  <2> QED
    BY <2>2, <2>3, <2>4 DEF DeliveryTypeOK
<1>6. CASE RouteFails(e)
  <2>1. pc[e] \in {"read", "add"} /\ Head(notices[e]) \in Notice
    BY <1>6, AtHand DEF RouteFails
  <2>2. missed' \in [Events -> SUBSET Notice]
    BY <1>6, <2>1 DEF RouteFails, DeliveryTypeOK
  <2>3. /\ notices' \in [Events -> Seq(Notice)] /\ plan' \in [Events -> Seq(Channels)]
        /\ pc' \in [Events -> {"idle", "read", "add", "over", "lost"}]
    BY <1>2, <1>6, <2>1 DEF RouteFails
  <2> QED
    BY <1>6, <2>2, <2>3 DEF DeliveryTypeOK, RouteFails, worker
<1> QED
  BY <1>1, <1>3, <1>4, <1>5, <1>6 DEF Route

\* A job tried again or stalled stays about what it was.
LEMMA JobsTriedOrStalled ==
    ASSUME NEW j \in JobType
    PROVE  /\ TriedAgain(j) \in JobType /\ TriedAgain(j).kind = j.kind
           /\ TriedAgain(j).user = j.user /\ TriedAgain(j).type = j.type
           /\ TriedAgain(j).origin = j.origin /\ TriedAgain(j).stalls = j.stalls
           /\ TriedAgain(j).tries = j.tries + 1
           /\ TriedAgain(j).state = IF j.tries + 1 = Attempts THEN "failed" ELSE "waiting"
           /\ Stalled(j) \in JobType /\ Stalled(j).kind = j.kind
           /\ Stalled(j).user = j.user /\ Stalled(j).type = j.type
           /\ Stalled(j).origin = j.origin /\ Stalled(j).stalls = j.stalls + 1
           /\ Stalled(j).tries = j.tries
           /\ Stalled(j).state = IF j.stalls = Stalls THEN "failed" ELSE "waiting"
<1>1. PICK tried : tried = IF j.tries + 1 = Attempts THEN "failed" ELSE "waiting"
  OBVIOUS
<1>2. PICK stalled : stalled = IF j.stalls = Stalls THEN "failed" ELSE "waiting"
  OBVIOUS
<1>3. /\ TriedAgain(j) = [j EXCEPT !.tries = j.tries + 1, !.state = tried]
      /\ Stalled(j) = [j EXCEPT !.stalls = j.stalls + 1, !.state = stalled]
  BY <1>1, <1>2 DEF TriedAgain, Stalled
<1>4. /\ tried \in {"waiting", "failed"} /\ stalled \in {"waiting", "failed"}
      /\ j.tries + 1 \in Nat /\ j.stalls + 1 \in Nat
  BY <1>1, <1>2 DEF JobType
<1>7. PICK tries, stalls : tries = j.tries + 1 /\ stalls = j.stalls + 1
  OBVIOUS
<1>5. [j EXCEPT !.tries = tries, !.state = tried] \in JobType
  BY <1>4, <1>7 DEF JobType
<1>6. [j EXCEPT !.stalls = stalls, !.state = stalled] \in JobType
  BY <1>4, <1>7 DEF JobType
<1> QED
  BY <1>1, <1>2, <1>3, <1>5, <1>6, <1>7 DEF JobType

\* A worker's step changes the statement it is at, and nothing of the listener.
LEMMA WorkType ==
    ASSUME DeliveryTypeOK, Working, NEW q \in Queues,
           Work(q) \/ Caught(q) \/ AttemptFails(q)
    PROVE  DeliveryTypeOK'
<1>0. \A next \in Places : [at EXCEPT ![q] = next] \in [Queues -> Places]
  BY DEF DeliveryTypeOK
<1>1. CASE Take(q)
  <2>1. PICK i \in DOMAIN jobs : /\ work' = [work EXCEPT ![q] = i]
                                /\ at' = [at EXCEPT ![q] = FirstStatement(jobs[i])]
    BY <1>1 DEF Take, Takable
  <2>2. FirstStatement(jobs[i]) \in Places
    BY JobFacts DEF JobType, Channels, FirstStatement, Places
  <2>3. at' \in [Queues -> Places]
    BY <1>0, <2>1, <2>2
  <2> QED
    BY <1>1, <2>1, <2>3 DEF DeliveryTypeOK, Take, router, ghosts
<1>2. ASSUME work' = work, at' \in [Queues -> Places], UNCHANGED <<prefs, router, jobs, mailed, ghosts>>,
             \/ rows' = rows
             \/ work[q] # 0 /\ \E status \in {"DELIVERED", "SENT", "FAILED"} : rows' = With(q, status)
      PROVE  DeliveryTypeOK'
  <2>1. IsFiniteSet(DOMAIN rows') /\ rows' \in [DOMAIN rows' -> Nat \ {0}]
        /\ DOMAIN rows' \subseteq [job : DOMAIN jobs, status : {"DELIVERED", "SENT", "FAILED"}]
    <3>1. CASE rows' = rows
      BY <3>1 DEF DeliveryTypeOK
    <3> QED
      BY <1>2, <3>1, RowAdded
  <2> QED
    BY <1>2, <2>1 DEF DeliveryTypeOK, router, ghosts
<1>3. CASE CreateInApp(q)
  BY <1>0, <1>2, <1>3 DEF CreateInApp, Step, Places
<1>4. CASE EmitToUser(q) \/ FindUser(q) \/ FindDevices(q) \/ SendPush(q) \/ Caught(q)
  <2>1. at' \in [Queues -> Places]
    BY <1>0, <1>4 DEF EmitToUser, FindUser, FindDevices, SendPush, Caught, Step, Places
  <2> QED
    BY <1>2, <1>4, <2>1 DEF EmitToUser, FindUser, FindDevices, SendPush, Caught, Step
<1>5. CASE QueueMail(q)
  <2>1. work[q] \in DOMAIN jobs /\ jobs[work[q]] \in JobType
    BY <1>5, AtWork DEF QueueMail, Step
  <2>2. Job("MAIL", jobs[work[q]], work[q]) \in JobType
    BY <2>1, JobFacts DEF Job, JobType
  <2>3. jobs' \in Seq(JobType) /\ DOMAIN jobs \subseteq DOMAIN jobs'
    BY <1>5, <2>2, AppendedJob DEF QueueMail
  <2> QED
    BY <1>0, <1>5, <2>3 DEF DeliveryTypeOK, QueueMail, Step, router, ghosts, Places
<1>6. CASE RecordSent(q) \/ NoteFailure(q)
  <2>1. at' \in [Queues -> Places]
    BY <1>0, <1>6 DEF RecordSent, NoteFailure, Step, Places
  <2> QED
    BY <1>2, <1>6, <2>1 DEF RecordSent, NoteFailure, Step
<1>7. CASE SendOtpMail(q)
  <2>1. work[q] \in DOMAIN jobs
    BY <1>7, AtWork DEF SendOtpMail, Step
  <2> QED
    BY <1>0, <1>7, <2>1 DEF DeliveryTypeOK, SendOtpMail, Step, router, ghosts, Places
<1>8. ASSUME work[q] # 0, NEW j \in JobType, jobs' = [jobs EXCEPT ![work[q]] = j], Idle(q),
             UNCHANGED <<prefs, router, rows, mailed, ghosts>>
      PROVE  DeliveryTypeOK'
  <2>1. jobs' \in [DOMAIN jobs -> JobType]
    BY <1>8, JobFacts DEF DeliveryTypeOK
  <2>2. jobs' \in Seq(JobType) /\ DOMAIN jobs' = DOMAIN jobs
    BY <2>1, ChangedJobs
  <2>3. work' \in [Queues -> {0} \cup DOMAIN jobs] /\ at' \in [Queues -> Places]
    BY <1>0, <1>8 DEF Idle, DeliveryTypeOK, Places
  <2> QED
    BY <1>8, <2>2, <2>3 DEF DeliveryTypeOK, router, ghosts
<1>9. CASE Complete(q)
  <2>1. work[q] # 0 /\ jobs[work[q]] \in JobType
    BY <1>9, AtWork DEF Complete
  <2>2. [jobs[work[q]] EXCEPT !.state = "completed"] \in JobType
    BY <2>1 DEF JobType
  <2>3. jobs' = [jobs EXCEPT ![work[q]] = [jobs[work[q]] EXCEPT !.state = "completed"]]
    BY <1>9 DEF Complete
  <2> QED
    BY <1>8, <1>9, <2>1, <2>2, <2>3 DEF Complete
<1>10. CASE AttemptFails(q)
  <2>1. work[q] # 0 /\ jobs[work[q]] \in JobType
    BY <1>10, AtWork DEF AttemptFails
  <2>2. TriedAgain(jobs[work[q]]) \in JobType
    BY <2>1, JobsTriedOrStalled
  <2>3. jobs' = [jobs EXCEPT ![work[q]] = TriedAgain(jobs[work[q]])]
    BY <1>10 DEF AttemptFails
  <2> QED
    BY <1>8, <1>10, <2>1, <2>2, <2>3 DEF AttemptFails
<1> QED
  BY <1>1, <1>3, <1>4, <1>5, <1>6, <1>7, <1>9, <1>10 DEF Work

\* A stop keeps every job but one at a worker as it is.
LEMMA CrashedJobs ==
    ASSUME DeliveryTypeOK, Crash
    PROVE  /\ jobs' \in Seq(JobType) /\ DOMAIN jobs' = DOMAIN jobs
           /\ \A i \in DOMAIN jobs :
                /\ (\E q \in Queues : work[q] = i) => jobs'[i] = Stalled(jobs[i])
                /\ (\A q \in Queues : work[q] # i) => jobs'[i] = jobs[i]
<1>1. DOMAIN jobs' = DOMAIN jobs
      /\ \A i \in DOMAIN jobs :
           jobs'[i] = IF i \in {work[q] : q \in Queues} THEN Stalled(jobs[i]) ELSE jobs[i]
  BY DEF Crash
<1>2. \A i \in DOMAIN jobs : jobs[i] \in JobType /\ Stalled(jobs[i]) \in JobType
  BY JobFacts, JobsTriedOrStalled
<1>3. \A i \in DOMAIN jobs : jobs'[i] \in JobType
  BY <1>1, <1>2
<1>4. jobs' \in [DOMAIN jobs -> JobType]
  BY <1>1, <1>3 DEF Crash
<1> QED
  BY <1>1, <1>4, ChangedJobs

\* A stop keeps the types.
LEMMA CrashType ==
    ASSUME DeliveryTypeOK, Crash
    PROVE  DeliveryTypeOK'
<1>1. jobs' \in Seq(JobType) /\ DOMAIN jobs' = DOMAIN jobs
  BY CrashedJobs
<1>2. /\ pc' \in [Events -> {"idle", "read", "add", "over", "lost"}]
      /\ work' \in [Queues -> {0} \cup DOMAIN jobs] /\ at' \in [Queues -> Places]
      /\ UNCHANGED <<prefs, content, notices, plan, rows, mailed, due, missed>>
  BY DEF Crash, DeliveryTypeOK, ghosts, Places
<1> QED
  BY <1>1, <1>2 DEF DeliveryTypeOK

-----------------------------------------------------------------------------
(* What the workers rely on: nothing the listener does disturbs it.        *)

WorkersInv == Working /\ RowsCounted /\ RowsWritten /\ RowsTellTruth /\ OtpMailedOrTried

\* More jobs that wait disturb no worker and no row.
LEMMA MoreJobs ==
    ASSUME DeliveryTypeOK, DOMAIN jobs \subseteq DOMAIN jobs', rows' = rows,
           \A i \in DOMAIN jobs : jobs'[i] = jobs[i],
           0 \notin DOMAIN jobs',
           \A i \in DOMAIN jobs' \ DOMAIN jobs : jobs'[i].state = "waiting" /\ jobs'[i].stalls = 0
    PROVE  /\ RowsTellTruth => RowsTellTruth'
           /\ mailed' = mailed /\ OtpMailedOrTried => OtpMailedOrTried'
           /\ mailed' = mailed /\ UNCHANGED worker /\ WorkersInv => WorkersInv'
<1>1. \A i : RowsOf(i)' = RowsOf(i)
  BY DEF RowsOf
<1>2. \A i \in DOMAIN jobs' \ DOMAIN jobs : RowsOf(i) = 0
  BY NoRows
<1>3. ASSUME RowsTellTruth PROVE RowsTellTruth'
  <2>1. \A row \in DOMAIN rows : row.job \in DOMAIN jobs
    BY DEF DeliveryTypeOK
  <2>2. ASSUME NEW i \in DOMAIN jobs', jobs'[i].state = "completed",
               \/ jobs'[i].kind \in {"IN_APP", "EMAIL"}
               \/ jobs'[i].kind = "PUSH" /\ jobs'[i].user \in WithToken
        PROVE  RowsOf(i)' > 0
    BY <1>1, <1>3, <2>2 DEF RowsTellTruth
  <2>3. ASSUME NEW row \in BagToSet(rows'), row.status = "SENT", jobs'[row.job].kind = "EMAIL"
        PROVE  \E i \in DOMAIN jobs' : jobs'[i].kind = "MAIL" /\ jobs'[i].origin = row.job
    <3>1. row \in BagToSet(rows) /\ jobs[row.job].kind = "EMAIL"
      BY <2>1, <2>3 DEF BagToSet
    <3>2. PICK i \in DOMAIN jobs : jobs[i].kind = "MAIL" /\ jobs[i].origin = row.job
      BY <1>3, <2>3, <3>1 DEF RowsTellTruth
    <3> QED
      BY <3>2
  <2> QED
    BY <2>2, <2>3 DEF RowsTellTruth
<1>4. ASSUME mailed' = mailed, OtpMailedOrTried PROVE OtpMailedOrTried'
  BY <1>4 DEF OtpMailedOrTried
<1>5. ASSUME UNCHANGED worker, Working PROVE Working'
  BY <1>5 DEF Working, worker, DeliveryTypeOK
<1>6. ASSUME UNCHANGED worker, RowsCounted PROVE RowsCounted'
  <2>1. \A i \in DOMAIN jobs' : /\ RowsOf(i)' <= jobs'[i].stalls + 1
                                /\ jobs'[i].state = "waiting" /\ (\A q \in Queues : work'[q] # i)
                                     => RowsOf(i)' <= jobs'[i].stalls
    <3> TAKE i \in DOMAIN jobs'
    <3>1. CASE i \in DOMAIN jobs
      BY <1>1, <1>6, <3>1 DEF RowsCounted, worker
    <3>2. CASE i \notin DOMAIN jobs
      BY <1>1, <1>2, <3>2
    <3> QED
      BY <3>1, <3>2
  <2>2. \A q \in Queues, i \in DOMAIN jobs' : work'[q] = i /\ at'[q] \notin {"emit", "done"}
          => RowsOf(i)' <= jobs'[i].stalls
    <3>1. \A q \in Queues : work'[q] = work[q] /\ at'[q] = at[q] /\ work[q] \in DOMAIN jobs \cup {0}
      BY <1>6 DEF worker, DeliveryTypeOK
    <3> QED
      BY <1>1, <1>2, <1>6, <3>1 DEF RowsCounted
  <2> QED
    BY <2>1, <2>2 DEF RowsCounted
<1>7. ASSUME UNCHANGED worker, mailed' = mailed, RowsWritten PROVE RowsWritten'
  <2>1. \A i \in DOMAIN jobs : MailAsked(i) => MailAsked(i)'
    BY DEF MailAsked
  <2>2. \A q \in Queues : /\ work'[q] = work[q] /\ at'[q] = at[q]
                          /\ work[q] = 0 \/ work[q] \in DOMAIN jobs
    BY <1>7 DEF worker, DeliveryTypeOK
  <2>3. ASSUME NEW q \in Queues, NEW i \in DOMAIN jobs', work'[q] = i
        PROVE  /\ at'[q] \in {"emit", "done"} /\ Recorded(jobs'[i]) => RowsOf(i)' > 0
               /\ at'[q] \in {"push", "sent", "refused", "note"} => Recorded(jobs'[i])
               /\ at'[q] = "sent" /\ jobs'[i].kind = "EMAIL" => MailAsked(i)'
               /\ at'[q] = "done" /\ jobs'[i].kind = "OTP" => i \in mailed'
    <3>1. i \in DOMAIN jobs /\ jobs'[i] = jobs[i] /\ work[q] = i
      BY <2>2, <2>3
    <3> QED
      BY <1>1, <1>7, <2>1, <2>2, <3>1 DEF RowsWritten
  <2> QED
    BY <2>3 DEF RowsWritten
<1> QED
  BY <1>3, <1>4, <1>5, <1>6, <1>7 DEF WorkersInv

-----------------------------------------------------------------------------
(* The workers' own steps.                                                 *)

\* A worker goes on to the next statement of its job, with a row for it at most
\* when the job has no row of this attempt yet.
LEMMA Advance ==
    ASSUME DeliveryTypeOK, WorkersInv, NEW q \in Queues, NEW i \in DOMAIN jobs, work[q] = i,
           NEW next \in Statements(jobs[i].kind),
           work' = work, at' = [at EXCEPT ![q] = next], mailed \subseteq mailed',
           DOMAIN jobs \subseteq DOMAIN jobs', 0 \notin DOMAIN jobs',
           \A k \in DOMAIN jobs : jobs'[k] = jobs[k],
           \A k \in DOMAIN jobs' \ DOMAIN jobs : jobs'[k].state = "waiting" /\ jobs'[k].stalls = 0,
           \/ /\ rows' = rows
              /\ next \notin {"emit", "done"} => at[q] \notin {"emit", "done"}
              /\ next \in {"emit", "done"} /\ Recorded(jobs[i]) => at[q] \in {"emit", "done"}
           \/ \E status \in {"DELIVERED", "SENT", "FAILED"} :
                /\ rows' = With(q, status)
                /\ at[q] \notin {"emit", "done"} /\ next \in {"emit", "done"}
                /\ status = "SENT" /\ jobs[i].kind = "EMAIL" => MailAsked(i),
           next \in {"push", "sent", "refused", "note"} => Recorded(jobs[i]),
           next = "sent" /\ jobs[i].kind = "EMAIL" => MailAsked(i)',
           next = "done" /\ jobs[i].kind = "OTP" => i \in mailed'
    PROVE  WorkersInv'
<1>0. /\ 0 \notin DOMAIN jobs
      /\ \A p \in Queues : work[p] = 0 \/ work[p] \in DOMAIN jobs
      /\ \A p \in Queues : p # q => at'[p] = at[p]
      /\ at'[q] = next
  BY JobFacts DEF DeliveryTypeOK
<1>1. /\ 0 \notin DOMAIN jobs
      /\ \A p \in Queues : work[p] = 0 \/ work[p] \in DOMAIN jobs
      /\ \A p \in Queues : p # q => work[p] # i /\ at'[p] = at[p]
      /\ at'[q] = next
  BY <1>0, AtWork DEF WorkersInv
<1>2. \A k \in DOMAIN jobs : RowsOf(k) \in Nat /\ jobs[k].stalls \in Nat
  BY RowsNat, JobFacts DEF JobType
<1>3. \A k \in DOMAIN jobs' \ DOMAIN jobs : RowsOf(k) = 0
  BY NoRows
<1>4. /\ \A k : k # i => RowsOf(k)' = RowsOf(k)
      /\ \/ RowsOf(i)' = RowsOf(i)
         \/ RowsOf(i)' = RowsOf(i) + 1 /\ at[q] \notin {"emit", "done"} /\ next \in {"emit", "done"}
  <2>1. CASE rows' = rows
    BY <2>1 DEF RowsOf
  <2> QED
    BY <1>1, <2>1, RowAdded
<1>5. \A k \in DOMAIN jobs : MailAsked(k) => MailAsked(k)'
  BY DEF MailAsked
<1>6. Working'
  BY <1>1 DEF WorkersInv, Working
<1>7. RowsCounted'
  <2>1. ASSUME NEW k \in DOMAIN jobs'
        PROVE  /\ RowsOf(k)' <= jobs'[k].stalls + 1
               /\ jobs'[k].state = "waiting" /\ (\A p \in Queues : work'[p] # k)
                     => RowsOf(k)' <= jobs'[k].stalls
    <3>1. CASE k = i
      BY <1>2, <1>4, <3>1 DEF WorkersInv, RowsCounted
    <3>2. CASE k # i /\ k \in DOMAIN jobs
      BY <1>4, <3>2 DEF WorkersInv, RowsCounted
    <3>3. CASE k # i /\ k \notin DOMAIN jobs
      BY <1>3, <1>4, <3>3
    <3> QED
      BY <3>1, <3>2, <3>3
  <2>2. ASSUME NEW p \in Queues, NEW k \in DOMAIN jobs', work'[p] = k, at'[p] \notin {"emit", "done"}
        PROVE  RowsOf(k)' <= jobs'[k].stalls
    <3>1. CASE p = q
      <4>1. k = i /\ next \notin {"emit", "done"} /\ RowsOf(i)' = RowsOf(i)
        BY <1>1, <1>4, <2>2, <3>1
      <4>2. at[q] \notin {"emit", "done"}
        BY <4>1
      <4> QED
        BY <2>2, <3>1, <4>1, <4>2 DEF WorkersInv, RowsCounted
    <3>2. CASE p # q
      BY <1>1, <1>4, <2>2, <3>2 DEF WorkersInv, RowsCounted
    <3> QED
      BY <3>1, <3>2
  <2> QED
    BY <2>1, <2>2 DEF RowsCounted
<1>8. RowsWritten'
  <2>1. ASSUME NEW p \in Queues, NEW k \in DOMAIN jobs', work'[p] = k
        PROVE  /\ at'[p] \in {"emit", "done"} /\ Recorded(jobs'[k]) => RowsOf(k)' > 0
               /\ at'[p] \in {"push", "sent", "refused", "note"} => Recorded(jobs'[k])
               /\ at'[p] = "sent" /\ jobs'[k].kind = "EMAIL" => MailAsked(k)'
               /\ at'[p] = "done" /\ jobs'[k].kind = "OTP" => k \in mailed'
    <3>1. CASE p = q
      <4>1. k = i /\ at'[p] = next /\ jobs'[k] = jobs[i]
        BY <1>1, <2>1, <3>1
      <4>2. next \in {"emit", "done"} /\ Recorded(jobs[i]) => RowsOf(i)' > 0
        <5>1. at[q] \in {"emit", "done"} /\ Recorded(jobs[i]) => RowsOf(i) > 0
          BY DEF WorkersInv, RowsWritten
        <5>2. CASE rows' = rows
          <6>1. RowsOf(i)' = RowsOf(i)
            BY <5>2 DEF RowsOf
          <6>2. next \in {"emit", "done"} /\ Recorded(jobs[i]) => at[q] \in {"emit", "done"}
            <7>1. ASSUME NEW status \in {"DELIVERED", "SENT", "FAILED"}, rows' = With(q, status)
                  PROVE  FALSE
              <8>1. RowsOf(i)' = RowsOf(i) + 1
                BY <1>1, <7>1, RowAdded
              <8> QED
                BY <1>2, <6>1, <8>1
            <7> QED
              BY <7>1
          <6> QED
            BY <5>1, <6>1, <6>2
        <5>3. CASE rows' # rows
          <6>1. RowsOf(i)' = RowsOf(i) + 1
            BY <5>3, RowAdded, <1>1
          <6> QED
            BY <1>2, <6>1
        <5> QED
          BY <5>2, <5>3
      <4> QED
        BY <4>1, <4>2
    <3>2. CASE p # q
      <4>1. k # i /\ k \in DOMAIN jobs /\ jobs'[k] = jobs[k] /\ at'[p] = at[p] /\ RowsOf(k)' = RowsOf(k)
        BY <1>1, <1>4, <2>1, <3>2
      <4> QED
        BY <1>5, <2>1, <4>1 DEF WorkersInv, RowsWritten
    <3> QED
      BY <3>1, <3>2
  <2> QED
    BY <2>1 DEF RowsWritten
<1>9. RowsTellTruth'
  <2>1. ASSUME NEW k \in DOMAIN jobs', jobs'[k].state = "completed",
               \/ jobs'[k].kind \in {"IN_APP", "EMAIL"}
               \/ jobs'[k].kind = "PUSH" /\ jobs'[k].user \in WithToken
        PROVE  RowsOf(k)' > 0
    <3>1. k \in DOMAIN jobs /\ jobs'[k] = jobs[k]
      BY <2>1
    <3>2. RowsOf(k) > 0
      BY <2>1, <3>1 DEF WorkersInv, RowsTellTruth
    <3> QED
      BY <1>2, <1>4, <3>1, <3>2
  <2>2. ASSUME NEW row \in BagToSet(rows'), row.status = "SENT", jobs'[row.job].kind = "EMAIL"
        PROVE  \E k \in DOMAIN jobs' : jobs'[k].kind = "MAIL" /\ jobs'[k].origin = row.job
    <3>1. CASE row \in DOMAIN rows
      <4>1. row.job \in DOMAIN jobs
        BY <3>1 DEF DeliveryTypeOK
      <4>2. MailAsked(row.job)
        BY <2>2, <3>1, <4>1 DEF WorkersInv, RowsTellTruth, BagToSet, MailAsked
      <4> QED
        BY <1>5, <4>1, <4>2 DEF MailAsked
    <3>2. CASE row \notin DOMAIN rows
      <4>1. PICK status \in {"DELIVERED", "SENT", "FAILED"} :
              /\ rows' = With(q, status)
              /\ status = "SENT" /\ jobs[i].kind = "EMAIL" => MailAsked(i)
        BY <2>2, <3>2 DEF BagToSet
      <4>2. DOMAIN rows' = DOMAIN rows \cup {[job |-> i, status |-> status]}
        BY <1>1, <4>1, RowAdded
      <4>3. row = [job |-> i, status |-> status]
        BY <2>2, <3>2, <4>2 DEF BagToSet
      <4>4. row.job = i /\ MailAsked(i)
        BY <2>2, <4>1, <4>3
      <4> QED
        BY <1>5, <4>4 DEF MailAsked
    <3> QED
      BY <3>1, <3>2
  <2> QED
    BY <2>1, <2>2 DEF RowsTellTruth
<1>10. OtpMailedOrTried'
  BY DEF WorkersInv, OtpMailedOrTried
<1> QED
  BY <1>6, <1>7, <1>8, <1>9, <1>10 DEF WorkersInv

\* A worker takes a job that no worker is at and starts with its first statement.
LEMMA TakeKeepsWorkers ==
    ASSUME DeliveryTypeOK, WorkersInv, NEW q \in Queues, Take(q)
    PROVE  WorkersInv'
<1>1. PICK i \in DOMAIN jobs :
        /\ QueueOf(jobs[i].kind) = q /\ jobs[i].state = "waiting" /\ work[q] = 0
        /\ work' = [work EXCEPT ![q] = i] /\ at' = [at EXCEPT ![q] = FirstStatement(jobs[i])]
  BY DEF Take, Takable
<1>2. UNCHANGED <<jobs, rows, mailed>>
  BY DEF Take
<1>3. /\ \A p \in Queues : work[p] # i
      /\ \A p \in Queues : p # q => work'[p] = work[p] /\ at'[p] = at[p]
      /\ work'[q] = i /\ at'[q] = FirstStatement(jobs[i])
      /\ 0 \notin DOMAIN jobs
  <2>1. \A p \in Queues : work[p] = i => QueueOf(jobs[i].kind) = p /\ i # 0
    BY JobFacts, AtWork DEF WorkersInv
  <2> QED
    BY <1>1, <2>1, JobFacts DEF DeliveryTypeOK
<1>4. jobs[i].kind \in {"IN_APP", "EMAIL", "PUSH", "OTP", "MAIL"}
  BY JobFacts DEF JobType, Channels
<1>5. /\ FirstStatement(jobs[i]) \in Statements(jobs[i].kind)
      /\ FirstStatement(jobs[i]) = "done" => jobs[i].kind = "MAIL"
      /\ FirstStatement(jobs[i]) \notin {"emit", "push", "sent", "refused", "note", "none"}
  BY <1>4 DEF FirstStatement, Statements
<1>6. \A k : RowsOf(k)' = RowsOf(k)
  BY <1>2 DEF RowsOf
<1>7. Working'
  BY <1>1, <1>2, <1>3, <1>5 DEF WorkersInv, Working
<1>8. RowsCounted'
  <2>1. ASSUME NEW k \in DOMAIN jobs'
        PROVE  /\ RowsOf(k)' <= jobs'[k].stalls + 1
               /\ jobs'[k].state = "waiting" /\ (\A p \in Queues : work'[p] # k)
                     => RowsOf(k)' <= jobs'[k].stalls
    <3>1. (\A p \in Queues : work'[p] # k) => \A p \in Queues : work[p] # k
      BY <1>1, <1>2, <1>3, <2>1
    <3> QED
      BY <1>2, <1>6, <3>1 DEF WorkersInv, RowsCounted
  <2>2. ASSUME NEW p \in Queues, NEW k \in DOMAIN jobs', work'[p] = k, at'[p] \notin {"emit", "done"}
        PROVE  RowsOf(k)' <= jobs'[k].stalls
    <3>1. CASE p = q
      BY <1>1, <1>2, <1>3, <1>6, <2>2, <3>1 DEF WorkersInv, RowsCounted
    <3>2. CASE p # q
      BY <1>2, <1>3, <1>6, <2>2, <3>2 DEF WorkersInv, RowsCounted
    <3> QED
      BY <3>1, <3>2
  <2> QED
    BY <2>1, <2>2 DEF RowsCounted
<1>9. RowsWritten'
  <2>1. ASSUME NEW p \in Queues, NEW k \in DOMAIN jobs', work'[p] = k
        PROVE  /\ at'[p] \in {"emit", "done"} /\ Recorded(jobs'[k]) => RowsOf(k)' > 0
               /\ at'[p] \in {"push", "sent", "refused", "note"} => Recorded(jobs'[k])
               /\ at'[p] = "sent" /\ jobs'[k].kind = "EMAIL" => MailAsked(k)'
               /\ at'[p] = "done" /\ jobs'[k].kind = "OTP" => k \in mailed'
    <3>1. CASE p = q
      BY <1>2, <1>3, <1>5, <2>1, <3>1 DEF Recorded
    <3>2. CASE p # q
      BY <1>2, <1>3, <1>6, <2>1, <3>2 DEF WorkersInv, RowsWritten, MailAsked
    <3> QED
      BY <3>1, <3>2
  <2> QED
    BY <2>1 DEF RowsWritten
<1>10. RowsTellTruth' /\ OtpMailedOrTried'
  BY <1>2, <1>6 DEF WorkersInv, RowsTellTruth, OtpMailedOrTried
<1> QED
  BY <1>7, <1>8, <1>9, <1>10 DEF WorkersInv

\* A worker lets go of its job, which has ended or waits for another try.
LEMMA LetGo ==
    ASSUME DeliveryTypeOK, WorkersInv, NEW q \in Queues, NEW i \in DOMAIN jobs, work[q] = i,
           NEW j \in JobType, jobs' = [jobs EXCEPT ![i] = j], Idle(q),
           UNCHANGED <<rows, mailed>>,
           j.kind = jobs[i].kind, j.user = jobs[i].user, j.origin = jobs[i].origin,
           j.stalls = jobs[i].stalls,
           j.state = "completed" => at[q] = "done",
           j.state = "waiting" => at[q] \notin {"emit", "done"},
           j.state = "failed" => j.tries = Attempts
    PROVE  WorkersInv'
<1>1. /\ 0 \notin DOMAIN jobs /\ DOMAIN jobs' = DOMAIN jobs
      /\ jobs'[i] = j /\ \A k \in DOMAIN jobs : k # i => jobs'[k] = jobs[k]
      /\ \A k \in DOMAIN jobs : /\ jobs'[k].kind = jobs[k].kind /\ jobs'[k].user = jobs[k].user
                                /\ jobs'[k].origin = jobs[k].origin
                                /\ jobs'[k].stalls = jobs[k].stalls
  BY JobFacts
<1>2. /\ \A p \in Queues : p # q => work[p] # i /\ work'[p] = work[p] /\ at'[p] = at[p]
      /\ work'[q] = 0 /\ at'[q] = "none"
  BY <1>1, AtWork DEF WorkersInv, Idle, DeliveryTypeOK
<1>3. /\ \A k : RowsOf(k)' = RowsOf(k)
      /\ \A k : MailAsked(k)' <=> MailAsked(k)
  BY <1>1 DEF RowsOf, MailAsked
<1>4. Working'
  <2>1. ASSUME NEW p \in Queues, work'[p] # 0
        PROVE  /\ QueueOf(jobs'[work'[p]].kind) = p /\ jobs'[work'[p]].state = "waiting"
               /\ at'[p] \in Statements(jobs'[work'[p]].kind)
    <3>1. p # q /\ work'[p] \in DOMAIN jobs /\ work'[p] # i
      BY <1>2, <2>1, AtWork DEF WorkersInv
    <3> QED
      BY <1>1, <1>2, <2>1, <3>1 DEF WorkersInv, Working
  <2>2. \A p \in Queues : work'[p] = 0 => at'[p] = "none"
    BY <1>2 DEF WorkersInv, Working
  <2> QED
    BY <2>1, <2>2 DEF Working
<1>5. RowsCounted'
  <2>1. ASSUME NEW k \in DOMAIN jobs'
        PROVE  /\ RowsOf(k)' <= jobs'[k].stalls + 1
               /\ jobs'[k].state = "waiting" /\ (\A p \in Queues : work'[p] # k)
                     => RowsOf(k)' <= jobs'[k].stalls
    <3>1. CASE k = i
      BY <1>1, <1>3, <3>1 DEF WorkersInv, RowsCounted
    <3>2. CASE k # i
      <4>1. (\A p \in Queues : work'[p] # k) => \A p \in Queues : work[p] # k
        BY <1>2, <3>2
      <4> QED
        BY <1>1, <1>3, <3>2, <4>1 DEF WorkersInv, RowsCounted
    <3> QED
      BY <3>1, <3>2
  <2>2. ASSUME NEW p \in Queues, NEW k \in DOMAIN jobs', work'[p] = k, at'[p] \notin {"emit", "done"}
        PROVE  RowsOf(k)' <= jobs'[k].stalls
    BY <1>1, <1>2, <1>3, <2>2 DEF WorkersInv, RowsCounted
  <2> QED
    BY <2>1, <2>2 DEF RowsCounted
<1>6. RowsWritten'
  BY <1>1, <1>2, <1>3 DEF WorkersInv, RowsWritten, Recorded
<1>7. RowsTellTruth'
  <2>1. ASSUME NEW k \in DOMAIN jobs', jobs'[k].state = "completed",
               \/ jobs'[k].kind \in {"IN_APP", "EMAIL"}
               \/ jobs'[k].kind = "PUSH" /\ jobs'[k].user \in WithToken
        PROVE  RowsOf(k)' > 0
    <3>1. CASE k = i
      BY <1>1, <1>3, <2>1, <3>1 DEF WorkersInv, RowsWritten, Recorded
    <3>2. CASE k # i
      BY <1>1, <1>3, <2>1, <3>2 DEF WorkersInv, RowsTellTruth
    <3> QED
      BY <3>1, <3>2
  <2>2. ASSUME NEW row \in BagToSet(rows'), row.status = "SENT", jobs'[row.job].kind = "EMAIL"
        PROVE  \E k \in DOMAIN jobs' : jobs'[k].kind = "MAIL" /\ jobs'[k].origin = row.job
    <3>1. row \in BagToSet(rows) /\ row.job \in DOMAIN jobs
      BY <2>2 DEF DeliveryTypeOK, BagToSet
    <3>2. MailAsked(row.job)
      BY <1>1, <2>2, <3>1 DEF WorkersInv, RowsTellTruth, MailAsked
    <3> QED
      BY <1>1, <3>2 DEF MailAsked
  <2> QED
    BY <2>1, <2>2 DEF RowsTellTruth
<1>8. OtpMailedOrTried'
  <2>1. ASSUME NEW k \in DOMAIN jobs', jobs'[k].kind = "OTP", jobs'[k].state # "waiting"
        PROVE  k \in mailed' \/ jobs'[k].tries = Attempts \/ jobs'[k].stalls > Stalls
    <3>1. CASE k = i
      <4>1. j.state \in {"completed", "failed"}
        BY <1>1, <2>1, <3>1 DEF JobType
      <4>2. j.state = "completed" => i \in mailed
        BY <1>1, <2>1, <3>1 DEF WorkersInv, RowsWritten
      <4> QED
        BY <1>1, <3>1, <4>1, <4>2
    <3>2. CASE k # i
      BY <1>1, <2>1, <3>2 DEF WorkersInv, OtpMailedOrTried
    <3> QED
      BY <3>1, <3>2
  <2> QED
    BY <2>1 DEF OtpMailedOrTried
<1> QED
  BY <1>4, <1>5, <1>6, <1>7, <1>8 DEF WorkersInv

\* A job is completed by a worker that has come to its end.
LEMMA CompleteKeepsWorkers ==
    ASSUME DeliveryTypeOK, WorkersInv, NEW q \in Queues, Complete(q)
    PROVE  WorkersInv'
<1>0. PICK i : i = work[q]
  OBVIOUS
<1>1. i \in DOMAIN jobs /\ jobs[i] \in JobType
  BY <1>0, AtWork DEF Complete, WorkersInv
<1>2. PICK j : j = [jobs[i] EXCEPT !.state = "completed"]
  OBVIOUS
<1>3. /\ j \in JobType /\ j.kind = jobs[i].kind /\ j.user = jobs[i].user
      /\ j.origin = jobs[i].origin /\ j.stalls = jobs[i].stalls /\ j.state = "completed"
  BY <1>1, <1>2 DEF JobType
<1>4. jobs' = [jobs EXCEPT ![i] = j] /\ Idle(q) /\ UNCHANGED <<rows, mailed>> /\ at[q] = "done"
  BY <1>0, <1>2 DEF Complete
<1> QED
  BY <1>0, <1>1, <1>3, <1>4, LetGo

\* An attempt fails before it has written its row.
LEMMA FailKeepsWorkers ==
    ASSUME DeliveryTypeOK, WorkersInv, NEW q \in Queues, AttemptFails(q)
    PROVE  WorkersInv'
<1>0. PICK i : i = work[q]
  OBVIOUS
<1>1. i \in DOMAIN jobs /\ jobs[i] \in JobType
  BY <1>0, AtWork DEF AttemptFails, WorkersInv
<1>2. PICK j : j = TriedAgain(jobs[i])
  OBVIOUS
<1>3. /\ j \in JobType /\ j.kind = jobs[i].kind /\ j.user = jobs[i].user
      /\ j.origin = jobs[i].origin /\ j.stalls = jobs[i].stalls
      /\ j.state # "completed" /\ (j.state = "failed" => j.tries = Attempts)
  BY <1>1, <1>2, JobsTriedOrStalled
<1>4. /\ jobs' = [jobs EXCEPT ![i] = j] /\ Idle(q) /\ UNCHANGED <<rows, mailed>>
      /\ at[q] \notin {"emit", "done"}
  BY <1>0, <1>2 DEF AttemptFails
<1> QED
  BY <1>0, <1>1, <1>3, <1>4, LetGo

\* Every step of a worker keeps what the workers rely on.
LEMMA WorkKeepsWorkers ==
    ASSUME DeliveryTypeOK, WorkersInv, NEW q \in Queues,
           Work(q) \/ Caught(q) \/ AttemptFails(q)
    PROVE  WorkersInv'
<1>0. PICK i : i = work[q]
  OBVIOUS
<1>1. /\ work[q] # 0 => /\ i \in DOMAIN jobs /\ jobs[i] \in JobType /\ jobs[i].state = "waiting"
                        /\ QueueOf(jobs[i].kind) = q /\ at[q] \in Statements(jobs[i].kind)
                        /\ \A p \in Queues : p # q => work[p] # i
      /\ 0 \notin DOMAIN jobs
      /\ jobs \in Seq(JobType)
  BY <1>0, AtWork, JobFacts DEF WorkersInv, DeliveryTypeOK
<1>2. work[q] # 0 => jobs[i].kind \in {"IN_APP", "EMAIL", "PUSH", "OTP", "MAIL"}
  BY <1>1 DEF JobType, Channels
<1> DEFINE Kind == jobs[i].kind
<1>3. CASE CreateInApp(q)
  <2>1. work[q] # 0 /\ at[q] = "create" /\ Kind = "IN_APP"
    BY <1>1, <1>2, <1>3 DEF CreateInApp, Step, Statements
  <2>2. "emit" \in Statements(Kind)
    BY <2>1 DEF Statements
  <2>3. /\ work' = work /\ at' = [at EXCEPT ![q] = "emit"] /\ mailed' = mailed /\ jobs' = jobs
        /\ rows' = With(q, "DELIVERED")
    BY <1>3 DEF CreateInApp, Step
  <2> QED
    BY <1>0, <1>1, <2>1, <2>2, <2>3, Advance
<1>4. CASE EmitToUser(q)
  <2>1. work[q] # 0 /\ at[q] = "emit" /\ Kind = "IN_APP"
    BY <1>1, <1>2, <1>4 DEF EmitToUser, Step, Statements
  <2>2. "done" \in Statements(Kind)
    BY <2>1 DEF Statements
  <2>3. /\ work' = work /\ at' = [at EXCEPT ![q] = "done"] /\ mailed' = mailed /\ jobs' = jobs
        /\ rows' = rows
    BY <1>4 DEF EmitToUser, Step
  <2> QED
    BY <1>0, <1>1, <2>1, <2>2, <2>3, Advance
<1>5. CASE FindUser(q)
  <2>1. work[q] # 0 /\ at[q] = "user" /\ Kind = "EMAIL"
    BY <1>1, <1>2, <1>5 DEF FindUser, Step, Statements
  <2>2. "queue" \in Statements(Kind)
    BY <2>1 DEF Statements
  <2>3. /\ work' = work /\ at' = [at EXCEPT ![q] = "queue"] /\ mailed' = mailed /\ jobs' = jobs
        /\ rows' = rows
    BY <1>5 DEF FindUser, Step
  <2> QED
    BY <1>0, <1>1, <2>1, <2>2, <2>3, Advance
<1>6. CASE QueueMail(q)
  <2>1. work[q] # 0 /\ at[q] = "queue" /\ Kind = "EMAIL"
    BY <1>1, <1>2, <1>6 DEF QueueMail, Step, Statements
  <2>2. "sent" \in Statements(Kind)
    BY <2>1 DEF Statements
  <2>3. /\ work' = work /\ at' = [at EXCEPT ![q] = "sent"] /\ mailed' = mailed
        /\ rows' = rows /\ jobs' = Append(jobs, Job("MAIL", jobs[i], i))
    BY <1>0, <1>6 DEF QueueMail, Step
  <2>4. Job("MAIL", jobs[i], i) \in JobType
    BY <1>1, <2>1, JobFacts DEF Job, JobType
  <2>5. PICK k \in Nat \ {0} : /\ k \notin DOMAIN jobs /\ DOMAIN jobs' = DOMAIN jobs \cup {k}
                               /\ jobs'[k] = Job("MAIL", jobs[i], i)
                               /\ \A x \in DOMAIN jobs : jobs'[x] = jobs[x]
    BY <2>3, <2>4, AppendedJob
  <2>6. /\ jobs'[k].state = "waiting" /\ jobs'[k].stalls = 0
        /\ jobs'[k].kind = "MAIL" /\ jobs'[k].origin = i
    BY <2>5 DEF Job
  <2>7. MailAsked(i)' /\ Recorded(jobs[i])
    BY <2>1, <2>5, <2>6 DEF MailAsked, Recorded
  <2>8. /\ DOMAIN jobs \subseteq DOMAIN jobs' /\ 0 \notin DOMAIN jobs'
        /\ \A x \in DOMAIN jobs' \ DOMAIN jobs : jobs'[x].state = "waiting" /\ jobs'[x].stalls = 0
    BY <1>1, <2>5, <2>6
  <2> QED
    BY <1>0, <1>1, <2>1, <2>2, <2>3, <2>5, <2>7, <2>8, Advance
<1>7. CASE FindDevices(q)
  <2>1. work[q] # 0 /\ at[q] = "devices" /\ Kind = "PUSH"
    BY <1>1, <1>2, <1>7 DEF FindDevices, Step, Statements
  <2>2. PICK next : next = IF jobs[i].user \in WithToken THEN "push" ELSE "done"
    OBVIOUS
  <2>3. /\ work' = work /\ at' = [at EXCEPT ![q] = next] /\ mailed' = mailed /\ jobs' = jobs
        /\ rows' = rows
    BY <1>0, <1>7, <2>2 DEF FindDevices, Step
  <2>4. /\ next \in Statements(Kind) /\ (next \in {"emit", "done"} => ~ Recorded(jobs[i]))
        /\ next \in {"push", "sent", "refused", "note"} => Recorded(jobs[i])
        /\ next # "sent"
    BY <2>1, <2>2 DEF Statements, Recorded
  <2> QED
    BY <1>0, <1>1, <2>1, <2>3, <2>4, Advance
<1>8. CASE SendPush(q)
  <2>1. work[q] # 0 /\ at[q] = "push" /\ Kind = "PUSH"
    BY <1>1, <1>2, <1>8 DEF SendPush, Step, Statements
  <2>2. Recorded(jobs[i])
    BY <1>0, <1>1, <2>1 DEF WorkersInv, RowsWritten
  <2>3. PICK next \in {"sent", "refused"} :
          work' = work /\ at' = [at EXCEPT ![q] = next]
    BY <1>8 DEF SendPush, Step
  <2>4. mailed' = mailed /\ jobs' = jobs /\ rows' = rows
    BY <1>8 DEF SendPush
  <2>5. next \in Statements(Kind)
    BY <2>1, <2>3 DEF Statements
  <2> QED
    BY <1>0, <1>1, <2>1, <2>2, <2>3, <2>4, <2>5, Advance
<1>9. CASE RecordSent(q)
  <2>1. PICK here \in {"sent", "refused"}, status \in {"SENT", "FAILED"} :
          /\ Step(q, here, "done") /\ rows' = With(q, status)
          /\ status = "SENT" => here = "sent"
    BY <1>9 DEF RecordSent
  <2>2. work[q] # 0 /\ at[q] = here /\ Kind \in {"EMAIL", "PUSH"}
    BY <1>1, <1>2, <2>1 DEF Step, Statements
  <2>3. status = "SENT" /\ Kind = "EMAIL" => MailAsked(i)
    BY <1>0, <1>1, <2>1, <2>2 DEF WorkersInv, RowsWritten
  <2>4. "done" \in Statements(Kind)
    BY <2>2 DEF Statements
  <2>5. work' = work /\ at' = [at EXCEPT ![q] = "done"] /\ mailed' = mailed /\ jobs' = jobs
    BY <1>9, <2>1 DEF RecordSent, Step
  <2> QED
    BY <1>0, <1>1, <2>1, <2>2, <2>3, <2>4, <2>5, Advance
<1>10. CASE NoteFailure(q)
  <2>1. work[q] # 0 /\ at[q] = "note" /\ Kind \in {"EMAIL", "PUSH"}
    BY <1>1, <1>2, <1>10 DEF NoteFailure, Step, Statements
  <2>2. "done" \in Statements(Kind)
    BY <2>1 DEF Statements
  <2>3. /\ work' = work /\ at' = [at EXCEPT ![q] = "done"] /\ mailed' = mailed /\ jobs' = jobs
        /\ rows' = With(q, "FAILED")
    BY <1>10 DEF NoteFailure, Step
  <2> QED
    BY <1>0, <1>1, <2>1, <2>2, <2>3, Advance
<1>11. CASE SendOtpMail(q)
  <2>1. work[q] # 0 /\ at[q] = "smtp" /\ Kind = "OTP"
    BY <1>1, <1>2, <1>11 DEF SendOtpMail, Step, Statements
  <2>2. "done" \in Statements(Kind) /\ ~ Recorded(jobs[i])
    BY <2>1 DEF Statements, Recorded
  <2>3. /\ work' = work /\ at' = [at EXCEPT ![q] = "done"] /\ mailed' = mailed \cup {i}
        /\ jobs' = jobs /\ rows' = rows
    BY <1>0, <1>11 DEF SendOtpMail, Step
  <2> QED
    BY <1>0, <1>1, <2>1, <2>2, <2>3, Advance
<1>12. CASE Caught(q)
  <2>1. PICK here \in {"queue", "sent", "refused"} : Step(q, here, "note")
    BY <1>12 DEF Caught
  <2>2. work[q] # 0 /\ at[q] = here /\ Kind \in {"EMAIL", "PUSH"}
    BY <1>1, <1>2, <2>1 DEF Step, Statements
  <2>3. "note" \in Statements(Kind)
    BY <2>2 DEF Statements
  <2>4. Recorded(jobs[i])
    BY <1>0, <1>1, <1>2, <2>1, <2>2 DEF WorkersInv, RowsWritten, Statements, Recorded
  <2>5. /\ work' = work /\ at' = [at EXCEPT ![q] = "note"] /\ mailed' = mailed /\ jobs' = jobs
        /\ rows' = rows
    BY <1>12, <2>1 DEF Caught, Step
  <2> QED
    BY <1>0, <1>1, <2>2, <2>3, <2>4, <2>5, Advance
<1>13. CASE Take(q)
  BY <1>13, TakeKeepsWorkers
<1>14. CASE Complete(q)
  BY <1>14, CompleteKeepsWorkers
<1>15. CASE AttemptFails(q)
  BY <1>15, FailKeepsWorkers
<1> QED
  BY <1>3, <1>4, <1>5, <1>6, <1>7, <1>8, <1>9, <1>10, <1>11, <1>12, <1>13, <1>14, <1>15 DEF Work

\* A stop adds one to the stalls of the jobs the workers were at.
LEMMA CrashKeepsWorkers ==
    ASSUME DeliveryTypeOK, WorkersInv, Crash
    PROVE  WorkersInv'
<1>1. /\ 0 \notin DOMAIN jobs /\ DOMAIN jobs' = DOMAIN jobs
      /\ \A i \in DOMAIN jobs :
           /\ (\E q \in Queues : work[q] = i) => jobs'[i] = Stalled(jobs[i])
           /\ (\A q \in Queues : work[q] # i) => jobs'[i] = jobs[i]
  BY CrashedJobs, JobFacts
<1>2. \A i \in DOMAIN jobs :
        /\ jobs'[i].kind = jobs[i].kind /\ jobs'[i].user = jobs[i].user
        /\ jobs'[i].origin = jobs[i].origin /\ jobs'[i].tries = jobs[i].tries
        /\ \/ jobs'[i] = jobs[i] /\ \A q \in Queues : work[q] # i
           \/ /\ jobs'[i].stalls = jobs[i].stalls + 1
              /\ jobs'[i].state = IF jobs[i].stalls = Stalls THEN "failed" ELSE "waiting"
              /\ jobs[i].state = "waiting"
  BY <1>1, JobFacts, JobsTriedOrStalled, AtWork DEF WorkersInv
<1>3. /\ \A q \in Queues : work'[q] = 0 /\ at'[q] = "none"
      /\ rows' = rows /\ mailed' = mailed
  BY DEF Crash
<1>4. /\ \A k : RowsOf(k)' = RowsOf(k)
      /\ \A k : MailAsked(k)' <=> MailAsked(k)
  BY <1>1, <1>2, <1>3 DEF RowsOf, MailAsked
<1>5. \A k \in DOMAIN jobs : RowsOf(k) \in Nat /\ jobs[k].stalls \in Nat
  BY RowsNat, JobFacts DEF JobType
<1>6. Working' /\ RowsWritten'
  BY <1>1, <1>3 DEF Working, RowsWritten
<1>7. RowsCounted'
  <2>1. ASSUME NEW k \in DOMAIN jobs'
        PROVE  /\ RowsOf(k)' <= jobs'[k].stalls + 1
               /\ jobs'[k].state = "waiting" => RowsOf(k)' <= jobs'[k].stalls
    <3>1. k \in DOMAIN jobs /\ RowsOf(k) <= jobs[k].stalls + 1
      BY <1>1 DEF WorkersInv, RowsCounted
    <3>2. CASE jobs'[k] = jobs[k] /\ \A q \in Queues : work[q] # k
      BY <1>4, <3>1, <3>2 DEF WorkersInv, RowsCounted
    <3>3. CASE jobs'[k].stalls = jobs[k].stalls + 1
      BY <1>4, <1>5, <3>1, <3>3
    <3> QED
      BY <1>2, <3>1, <3>2, <3>3
  <2> QED
    BY <1>1, <1>3, <2>1 DEF RowsCounted
<1>8. RowsTellTruth'
  <2>1. ASSUME NEW k \in DOMAIN jobs', jobs'[k].state = "completed",
               \/ jobs'[k].kind \in {"IN_APP", "EMAIL"}
               \/ jobs'[k].kind = "PUSH" /\ jobs'[k].user \in WithToken
        PROVE  RowsOf(k)' > 0
    BY <1>1, <1>2, <1>4, <2>1 DEF WorkersInv, RowsTellTruth
  <2>2. ASSUME NEW row \in BagToSet(rows'), row.status = "SENT", jobs'[row.job].kind = "EMAIL"
        PROVE  \E k \in DOMAIN jobs' : jobs'[k].kind = "MAIL" /\ jobs'[k].origin = row.job
    <3>1. row \in BagToSet(rows) /\ row.job \in DOMAIN jobs
      BY <1>3, <2>2 DEF DeliveryTypeOK, BagToSet
    <3>2. MailAsked(row.job)
      BY <1>2, <2>2, <3>1 DEF WorkersInv, RowsTellTruth, MailAsked
    <3> QED
      BY <1>1, <1>2, <3>2 DEF MailAsked
  <2> QED
    BY <2>1, <2>2 DEF RowsTellTruth
<1>9. OtpMailedOrTried'
  <2>1. ASSUME NEW k \in DOMAIN jobs', jobs'[k].kind = "OTP", jobs'[k].state # "waiting"
        PROVE  k \in mailed' \/ jobs'[k].tries = Attempts \/ jobs'[k].stalls > Stalls
    <3>1. CASE jobs'[k] = jobs[k]
      BY <1>1, <1>3, <2>1, <3>1 DEF WorkersInv, OtpMailedOrTried
    <3>2. CASE jobs'[k].stalls = jobs[k].stalls + 1 /\ jobs[k].stalls = Stalls
      BY <1>1, <1>5, <3>2
    <3> QED
      BY <1>1, <1>2, <2>1, <3>1, <3>2
  <2> QED
    BY <2>1 DEF OtpMailedOrTried
<1> QED
  BY <1>6, <1>7, <1>8, <1>9 DEF WorkersInv

-----------------------------------------------------------------------------
(* The listener's steps, for the workers.                                  *)

\* What a step of the listener does to the jobs: at most, it adds one.
LEMMA RouteJobs ==
    ASSUME DeliveryTypeOK, RoutingKept, NEW e \in Events, Route(e) \/ RouteFails(e)
    PROVE  /\ UNCHANGED <<rows, worker, mailed>>
           /\ \/ jobs' = jobs
              \/ \E k \in Nat \ {0} :
                   /\ k \notin DOMAIN jobs /\ DOMAIN jobs' = DOMAIN jobs \cup {k}
                   /\ \A i \in DOMAIN jobs : jobs'[i] = jobs[i]
                   /\ jobs'[k].state = "waiting" /\ jobs'[k].stalls = 0
                   /\ jobs'[k].origin = e
<1>1. UNCHANGED <<rows, worker, mailed>>
  BY DEF Route, RouteFails, Emitted, ReadPrefs, AddJob, AddOtp
<1>2. CASE AddJob(e)
  <2>1. pc[e] = "add" /\ Head(plan[e]) \in Channels /\ Head(notices[e]) \in Notice
    BY <1>2, AtHand DEF AddJob
  <2>2. PICK j : j = Job(Head(plan[e]), Head(notices[e]), e)
    OBVIOUS
  <2>3. j \in JobType /\ j.state = "waiting" /\ j.stalls = 0 /\ j.origin = e
    BY <2>1, <2>2 DEF Job, JobType, Notice
  <2>4. jobs' = Append(jobs, j)
    BY <1>2, <2>2 DEF AddJob
  <2> QED
    BY <1>1, <2>3, <2>4, AppendedJob
<1>3. CASE AddOtp(e)
  <2>1. content[e] \in ContentType
    BY DeliveryAssumption DEF DeliveryTypeOK
  <2>2. PICK j : j = Job("OTP", [user |-> content[e].receiver, type |-> "NONE"], e)
    OBVIOUS
  <2>3. j \in JobType /\ j.state = "waiting" /\ j.stalls = 0 /\ j.origin = e
    BY <2>1, <2>2 DEF Job, JobType, ContentType
  <2>4. jobs' = Append(jobs, j)
    BY <1>3, <2>2 DEF AddOtp
  <2> QED
    BY <1>1, <2>3, <2>4, AppendedJob
<1> QED
  BY <1>1, <1>2, <1>3 DEF Route, RouteFails, Emitted, ReadPrefs

\* So does every step of the listener.
LEMMA RouteKeepsWorkers ==
    ASSUME DeliveryTypeOK, RoutingKept, WorkersInv, NEW e \in Events, Route(e) \/ RouteFails(e)
    PROVE  WorkersInv'
<1>1. /\ UNCHANGED <<rows, worker, mailed>>
      /\ DOMAIN jobs \subseteq DOMAIN jobs' /\ 0 \notin DOMAIN jobs'
      /\ \A i \in DOMAIN jobs : jobs'[i] = jobs[i]
      /\ \A i \in DOMAIN jobs' \ DOMAIN jobs : jobs'[i].state = "waiting" /\ jobs'[i].stalls = 0
  <2>1. UNCHANGED <<rows, worker, mailed>> /\ 0 \notin DOMAIN jobs
    BY RouteJobs, JobFacts
  <2>2. CASE jobs' = jobs
    BY <2>1, <2>2
  <2>3. CASE jobs' # jobs
    <3>1. PICK k \in Nat \ {0} :
            /\ DOMAIN jobs' = DOMAIN jobs \cup {k} /\ \A i \in DOMAIN jobs : jobs'[i] = jobs[i]
            /\ jobs'[k].state = "waiting" /\ jobs'[k].stalls = 0
      BY <2>3, RouteJobs
    <3> QED
      BY <2>1, <3>1
  <2> QED
    BY <2>2, <2>3
<1> QED
  BY <1>1, MoreJobs

-----------------------------------------------------------------------------
(* The listener has asked for what the preferences asked for.              *)

\* An event nobody touches is as far as it was.
LEMMA RoutingFrame ==
    ASSUME NEW e \in Events, UNCHANGED <<content[e], notices[e], plan[e], due[e], missed[e]>>,
           pc'[e] \in {pc[e], "lost"}, \A n : JobsFor(e, n)' = JobsFor(e, n), Routing(e)
    PROVE  Routing(e)'
<1>1. \A n : Done(e, n) => Done(e, n)'
  BY DEF Done
<1> QED
  BY <1>1 DEF Routing

\* Onward from the notice at hand, which is done, to the next.
LEMMA OnwardRouting ==
    ASSUME DeliveryTypeOK, RoutingKept, NEW e \in Events, pc[e] \in {"read", "add"},
           Onward(e), content' = content, NEW h, h = Head(notices[e]), Done(e, h)',
           \A n \in Notice : n # h => JobsFor(e, n)' = JobsFor(e, n),
           due[e] \subseteq due'[e], missed[e] \subseteq missed'[e]
    PROVE  Routing(e)'
<1>0. PICK t : t = Tail(notices[e])
  OBVIOUS
<1>1. /\ h \in Notice /\ t \in Seq(Notice) /\ Range(notices[e]) = {h} \cup Range(t)
      /\ content[e].kind # "OTP" /\ Routing(e)
  BY <1>0, AtHand DEF RoutingKept
<1>2. /\ notices'[e] = t /\ plan'[e] = <<>>
      /\ pc'[e] = IF t = <<>> THEN "over" ELSE "read"
  BY <1>0 DEF Onward, DeliveryTypeOK
<1>3. PICK all : all = Range(Notices(content[e]))
  OBVIOUS
<1>4. all \subseteq Notice
  <2>1. Notices(content[e]) \in Seq(Notice)
    BY <1>1, NoticesShape, DeliveryAssumption DEF DeliveryTypeOK
  <2> QED
    BY <1>3, <2>1, LenProperties DEF Range
<1>5. /\ Range(notices[e]) \subseteq all /\ h \notin Range(t) /\ Len(notices[e]) <= 2
      /\ \A n \in all \ Range(notices[e]) : Done(e, n)
      /\ \A n \in Range(t) : JobsFor(e, n) = {}
  BY <1>0, <1>1, <1>3 DEF Routing
<1>6. \A n \in all \ Range(t) : Done(e, n)'
  <2>1. ASSUME NEW n \in all, n \notin Range(t) PROVE Done(e, n)'
    <3>1. CASE n = h
      BY <3>1
    <3>2. CASE n # h
      <4>1. Done(e, n)
        BY <1>1, <1>5, <2>1, <3>2
      <4> QED
        BY <1>0, <1>4, <2>1, <3>2, <4>1 DEF Done
    <3> QED
      BY <3>1, <3>2
  <2> QED
    BY <2>1
<1>7. \A n \in Range(t) : JobsFor(e, n)' = {}
  <2>1. Range(t) \subseteq Notice
    BY <1>1, LenProperties DEF Range
  <2> QED
    BY <1>0, <1>5, <2>1
<1>8. t # <<>> => /\ Len(t) <= 2 /\ Head(t) \notin Range(Tail(t))
                  /\ Range(t) = {Head(t)} \cup Range(Tail(t))
  <2>1. SUFFICES ASSUME t # <<>>
                 PROVE  /\ Len(t) <= 2 /\ Head(t) \notin Range(Tail(t))
                        /\ Range(t) = {Head(t)} \cup Range(Tail(t))
    OBVIOUS
  <2>2. /\ notices[e] \in Seq(Notice) /\ notices[e] # <<>>
    BY AtHand
  <2>3. Len(t) = Len(notices[e]) - 1 /\ Len(notices[e]) \in Nat /\ Len(t) \in Nat
    BY <1>0, <1>1, <2>2, HeadTailProperties, LenProperties
  <2>4. Tail(t) \in Seq(Notice) /\ Len(Tail(t)) = Len(t) - 1 /\ Len(Tail(t)) \in Nat
    BY <1>1, <2>1, HeadTailProperties, LenProperties
  <2>5. PICK a, b, u : a = Len(notices[e]) /\ b = Len(t) /\ u = Tail(t)
    OBVIOUS
  <2>6. Len(u) = b - 1 /\ b = a - 1 /\ a <= 2 /\ a \in Nat /\ Len(u) \in Nat /\ u \in Seq(Notice)
    BY <1>5, <2>3, <2>4, <2>5
  <2>7. Len(u) = 0 /\ DOMAIN u = 1..Len(u)
    BY <2>6, LenProperties
  <2>8. Range(Tail(t)) = {}
    BY <2>5, <2>7 DEF Range
  <2> QED
    BY <1>1, <1>5, <2>1, <2>3, <2>8, HeadAndTail
<1>9. CASE t = <<>>
  <2>1. Range(t) = {}
    BY <1>9 DEF Range
  <2> QED
    BY <1>2, <1>3, <1>6, <1>9, <2>1 DEF Routing
<1>10. CASE t # <<>>
  BY <1>2, <1>3, <1>5, <1>1, <1>6, <1>7, <1>8, <1>10 DEF Routing
<1> QED
  BY <1>9, <1>10

\* An event that is emitted has all its notices still to be routed.
LEMMA EmittedRouting ==
    ASSUME DeliveryTypeOK, RoutingKept, NEW e \in Events, Emitted(e)
    PROVE  Routing(e)'
<1>0. PICK all : all = Notices(content[e])
  OBVIOUS
<1>1. /\ Routing(e) /\ content' = content /\ pc[e] = "idle"
      /\ notices'[e] = all /\ pc'[e] = IF all = <<>> THEN "over" ELSE "read"
      /\ \A n : JobsFor(e, n)' = JobsFor(e, n)
  BY <1>0 DEF RoutingKept, Emitted, Goto, DeliveryTypeOK, JobsFor, JobFor
<1>2. /\ all \in Seq(Notice) /\ Len(all) <= 2
      /\ all # <<>> => Head(all) \notin Range(Tail(all)) /\ Range(all) = {Head(all)} \cup Range(Tail(all))
  BY <1>0, NoticesShape, HeadAndTail, DeliveryAssumption DEF Emitted, DeliveryTypeOK
<1>3. \A n \in Range(all) : JobsFor(e, n)' = {}
  BY <1>0, <1>1 DEF Routing
<1>4. all = <<>> => Range(all) = {}
  BY DEF Range
<1> QED
  BY <1>0, <1>1, <1>2, <1>3, <1>4 DEF Routing

\* What the preferences ask for is remembered, and is what will be added.
LEMMA ReadPrefsRouting ==
    ASSUME DeliveryTypeOK, RoutingKept, NEW e \in Events, ReadPrefs(e)
    PROVE  Routing(e)'
<1>0. PICK h : h = Head(notices[e])
  OBVIOUS
<1>1. pc[e] = "read" /\ h \in Notice /\ Routing(e)
  BY <1>0, AtHand DEF ReadPrefs, RoutingKept
<1>2. PICK s : s = prefs[h.user] /\ s \in SettingType
  BY <1>1, DeliveryAssumption DEF DeliveryTypeOK, Notice
<1>3. PICK now \in 0..Day-1 :
        LET chosen == Filtered(s.channels, {c \in Channels : Passes(s, h.type, now, c)})
        IN  /\ due' = [due EXCEPT ![e] = @ \cup {[notice |-> h, channels |-> Asked(s, h.type, now)]}]
            /\ IF chosen = <<>> THEN Onward(e)
               ELSE /\ Goto(e, "read", "add")
                    /\ plan' = [plan EXCEPT ![e] = chosen]
                    /\ UNCHANGED notices
  BY <1>0, <1>1, <1>2 DEF ReadPrefs
<1>4. PICK chosen, asked : /\ chosen = Filtered(s.channels, {c \in Channels : Passes(s, h.type, now, c)})
                           /\ asked = Asked(s, h.type, now)
  OBVIOUS
<1>5. chosen \in Seq(Channels) /\ Range(chosen) = asked
  BY <1>2, <1>4, ChosenAsAsked
<1>6. /\ due'[e] = due[e] \cup {[notice |-> h, channels |-> asked]}
      /\ content' = content /\ missed' = missed
      /\ \A n : JobsFor(e, n)' = JobsFor(e, n)
  BY <1>3, <1>4 DEF ReadPrefs, DeliveryTypeOK, JobsFor, JobFor
<1>7. JobsFor(e, h) = {}
  BY <1>0, <1>1 DEF Routing
<1>8. CASE chosen = <<>>
  <2>1. Onward(e)
    BY <1>3, <1>4, <1>8
  <2>2. asked = {}
    BY <1>5, <1>8 DEF Range
  <2>3. Done(e, h)'
    BY <1>6, <1>7, <2>2 DEF Done
  <2> QED
    BY <1>0, <1>1, <1>6, <2>1, <2>3, OnwardRouting
<1>9. CASE chosen # <<>>
  <2>1. pc'[e] = "add" /\ plan'[e] = chosen /\ notices'[e] = notices[e]
    BY <1>3, <1>4, <1>9 DEF Goto, DeliveryTypeOK
  <2>2. \E d \in due'[e] : d.notice = h /\ d.channels = JobsFor(e, h)' \cup Range(chosen)
    <3>1. PICK d : d = [notice |-> h, channels |-> asked]
      OBVIOUS
    <3> QED
      BY <1>5, <1>6, <1>7, <3>1
  <2>3. \E d \in due'[e] : d.notice = h /\ d.channels = JobsFor(e, d.notice)' \cup Range(chosen)
    BY <2>2
  <2>4. \A n : Done(e, n) => Done(e, n)'
    BY <1>6 DEF Done
  <2> QED
    BY <1>0, <1>1, <1>6, <1>9, <2>1, <2>3, <2>4 DEF Routing
<1> QED
  BY <1>8, <1>9

\* The job that is added is the next one asked for.
LEMMA AddJobRouting ==
    ASSUME DeliveryTypeOK, RoutingKept, NEW e \in Events, AddJob(e)
    PROVE  Routing(e)'
<1>0. PICK h, c : h = Head(notices[e]) /\ c = Head(plan[e])
  OBVIOUS
<1>1. /\ pc[e] = "add" /\ h \in Notice /\ c \in Channels /\ Routing(e)
      /\ Range(plan[e]) = {c} \cup Range(Tail(plan[e]))
  BY <1>0, AtHand DEF AddJob, RoutingKept
<1>2. PICK j : j = Job(c, h, e)
  OBVIOUS
<1>3. /\ j \in JobType /\ j.kind = c /\ j.user = h.user /\ j.type = h.type /\ j.origin = e
  BY <1>1, <1>2 DEF Job, JobType, Notice
<1>4. jobs' = Append(jobs, j)
  BY <1>0, <1>2 DEF AddJob
<1>5. PICK k \in Nat \ {0} : /\ k \notin DOMAIN jobs /\ DOMAIN jobs' = DOMAIN jobs \cup {k}
                             /\ jobs'[k] = j /\ \A i \in DOMAIN jobs : jobs'[i] = jobs[i]
  BY <1>3, <1>4, AppendedJob
<1>6. JobsFor(e, h)' = JobsFor(e, h) \cup {c}
  BY <1>1, <1>3, <1>5 DEF JobsFor, JobFor
<1>7. ASSUME NEW n \in Notice, n # h PROVE JobsFor(e, n)' = JobsFor(e, n)
  <2>1. n.user # h.user \/ n.type # h.type
    BY <1>1, <1>7 DEF Notice
  <2> QED
    BY <1>3, <1>5, <2>1 DEF JobsFor, JobFor
<1>8. UNCHANGED <<content, due, missed>>
  BY DEF AddJob, ghosts
<1>9. PICK d \in due[e] : d.notice = h /\ d.channels = JobsFor(e, h) \cup Range(plan[e])
  BY <1>0, <1>1 DEF Routing
<1>10. d.channels = JobsFor(e, h)' \cup Range(Tail(plan[e]))
  BY <1>1, <1>6, <1>9
<1>11. CASE Tail(plan[e]) = <<>>
  <2>1. Onward(e)
    BY <1>11 DEF AddJob
  <2>2. d.channels = JobsFor(e, h)'
    BY <1>10, <1>11 DEF Range
  <2>3. d = [notice |-> h, channels |-> JobsFor(e, h)']
    BY <1>9, <2>2 DEF DeliveryTypeOK
  <2>4. Done(e, h)'
    BY <1>8, <2>3 DEF Done
  <2> QED
    BY <1>0, <1>1, <1>7, <1>8, <2>1, <2>4, OnwardRouting
<1>12. CASE Tail(plan[e]) # <<>>
  <2>1. pc' = pc /\ notices' = notices /\ plan'[e] = Tail(plan[e])
    BY <1>12 DEF AddJob, DeliveryTypeOK
  <2>0. Notices(content[e]) \in Seq(Notice)
    BY <1>1, AtHand, NoticesShape, DeliveryAssumption DEF DeliveryTypeOK
  <2>2. PICK all : all = Range(Notices(content[e])) /\ all \subseteq Notice
    BY <2>0, RangeIn
  <2>3. /\ notices[e] # <<>> /\ Range(notices[e]) \subseteq all /\ h \notin Range(Tail(notices[e]))
        /\ Len(notices[e]) <= 2 /\ \A n \in all \ Range(notices[e]) : Done(e, n)
        /\ \A n \in Range(Tail(notices[e])) : JobsFor(e, n) = {}
    BY <1>0, <1>1, <2>2 DEF Routing
  <2>4. h \in Range(notices[e]) /\ Range(Tail(notices[e])) \subseteq Range(notices[e])
    BY <1>0, <1>1, AtHand
  <2>5. \A n \in all \ Range(notices[e]) : Done(e, n)'
    BY <1>7, <1>8, <2>2, <2>3, <2>4 DEF Done
  <2>6. \A n \in Range(Tail(notices[e])) : JobsFor(e, n)' = {}
    BY <1>7, <2>2, <2>3, <2>4
  <2>7. \E x \in due[e] : x.notice = h /\ x.channels = JobsFor(e, x.notice)' \cup Range(Tail(plan[e]))
    BY <1>9, <1>10
  <2> QED
    BY <1>0, <1>1, <1>8, <1>12, <2>1, <2>2, <2>3, <2>5, <2>6, <2>7 DEF Routing
<1> QED
  BY <1>11, <1>12

\* A notice whose routing fails is one of those missed.
LEMMA RouteFailsRouting ==
    ASSUME DeliveryTypeOK, RoutingKept, NEW e \in Events, RouteFails(e)
    PROVE  Routing(e)'
<1>0. PICK h : h = Head(notices[e])
  OBVIOUS
<1>1. pc[e] \in {"read", "add"} /\ Onward(e) /\ content' = content /\ due' = due
      /\ missed'[e] = missed[e] \cup {h}
  BY <1>0 DEF RouteFails, DeliveryTypeOK
<1>2. \A n : JobsFor(e, n)' = JobsFor(e, n)
  BY DEF RouteFails, JobsFor, JobFor
<1>3. Done(e, h)'
  BY <1>1 DEF Done
<1> QED
  BY <1>0, <1>1, <1>2, <1>3, OnwardRouting

\* No step of one event's routing disturbs another's.
LEMMA RouteKeepsRouting ==
    ASSUME DeliveryTypeOK, RoutingKept, NEW e \in Events, Route(e) \/ RouteFails(e)
    PROVE  RoutingKept'
<1>1. content' = content
  BY DEF Route, RouteFails, Emitted, ReadPrefs, AddJob, AddOtp
<1>2. ASSUME NEW d \in Events, d # e
      PROVE  /\ UNCHANGED <<pc[d], notices[d], plan[d], due[d], missed[d]>>
             /\ \A n : JobsFor(d, n)' = JobsFor(d, n)
  <2>1. UNCHANGED <<pc[d], notices[d], plan[d], due[d], missed[d]>>
    <3>1. CASE Emitted(e)
      BY <1>2, <3>1 DEF Emitted, Goto, ghosts, DeliveryTypeOK
    <3>2. CASE ReadPrefs(e)
      <4>1. UNCHANGED <<notices[d], plan[d], pc[d]>>
        BY <1>2, <3>2 DEF ReadPrefs, Goto, Onward, DeliveryTypeOK
      <4>2. UNCHANGED <<due[d], missed[d]>>
        BY <1>2, <3>2 DEF ReadPrefs, DeliveryTypeOK
      <4> QED
        BY <4>1, <4>2
    <3>3. CASE AddJob(e)
      BY <1>2, <3>3 DEF AddJob, Onward, ghosts, DeliveryTypeOK
    <3>4. CASE AddOtp(e)
      BY <1>2, <3>4 DEF AddOtp, Goto, ghosts, DeliveryTypeOK
    <3>5. CASE RouteFails(e)
      BY <1>2, <3>5 DEF RouteFails, Onward, DeliveryTypeOK
    <3> QED
      BY <3>1, <3>2, <3>3, <3>4, <3>5 DEF Route
  <2>2. CASE jobs' = jobs
    BY <2>1, <2>2 DEF JobsFor, JobFor
  <2>3. CASE jobs' # jobs
    <3>1. PICK k \in Nat \ {0} :
            /\ k \notin DOMAIN jobs /\ DOMAIN jobs' = DOMAIN jobs \cup {k}
            /\ \A i \in DOMAIN jobs : jobs'[i] = jobs[i]
            /\ jobs'[k].origin = e
      BY <2>3, RouteJobs
    <3> QED
      BY <1>2, <2>1, <3>1, OtherJobFor
  <2> QED
    BY <2>1, <2>2, <2>3
<1>3. ASSUME NEW d \in Events, d # e, content[d].kind # "OTP" PROVE Routing(d)'
  <2>1. Routing(d)
    BY <1>3 DEF RoutingKept
  <2>2. /\ UNCHANGED <<content[d], notices[d], plan[d], due[d], missed[d]>>
        /\ pc'[d] \in {pc[d], "lost"}
    BY <1>1, <1>2, <1>3
  <2>3. \A n : JobsFor(d, n)' = JobsFor(d, n)
    BY <1>2, <1>3
  <2> QED
    BY <2>1, <2>2, <2>3, RoutingFrame
<1>4. ASSUME NEW d \in Events, d # e, content[d].kind = "OTP" PROVE pc'[d] \in {"idle", "over"}
  BY <1>2, <1>4 DEF RoutingKept
<1>5. ASSUME content[e].kind # "OTP" PROVE Routing(e)'
  BY <1>5, EmittedRouting, ReadPrefsRouting, AddJobRouting, RouteFailsRouting DEF Route, AddOtp
<1>6. ASSUME content[e].kind = "OTP" PROVE pc'[e] \in {"idle", "over"}
  <2>1. pc[e] \in {"idle", "over"}
    BY <1>6 DEF RoutingKept
  <2> QED
    BY <1>6, <2>1 DEF Route, RouteFails, Emitted, ReadPrefs, AddJob, AddOtp, Goto, DeliveryTypeOK
<1> QED
  BY <1>1, <1>3, <1>4, <1>5, <1>6 DEF RoutingKept

\* The workers add no job that the listener could have added.
LEMMA WorkKeepsRouting ==
    ASSUME DeliveryTypeOK, RoutingKept, Working, NEW q \in Queues,
           Work(q) \/ Caught(q) \/ AttemptFails(q)
    PROVE  RoutingKept'
<1>1. UNCHANGED <<content, pc, notices, plan, due, missed>>
  BY DEF Work, Take, CreateInApp, EmitToUser, FindUser, QueueMail, FindDevices, SendPush,
         RecordSent, Caught, NoteFailure, SendOtpMail, Complete, AttemptFails, router, ghosts
<1>2. ASSUME NEW e \in Events, NEW n PROVE JobsFor(e, n)' = JobsFor(e, n)
  <2>1. CASE jobs' = jobs
    BY <2>1 DEF JobsFor, JobFor
  <2>2. CASE QueueMail(q)
    <3>1. PICK i : i = work[q] /\ i \in DOMAIN jobs /\ jobs[i] \in JobType
      BY <2>2, AtWork DEF QueueMail, Step
    <3>2. PICK j : j = Job("MAIL", jobs[i], i)
      OBVIOUS
    <3>3. j \in JobType /\ j.kind = "MAIL"
      BY <3>1, <3>2, JobFacts DEF Job, JobType
    <3>4. jobs' = Append(jobs, j)
      BY <2>2, <3>1, <3>2 DEF QueueMail
    <3>5. PICK k \in Nat \ {0} : /\ k \notin DOMAIN jobs /\ DOMAIN jobs' = DOMAIN jobs \cup {k}
                                 /\ jobs'[k] = j /\ \A x \in DOMAIN jobs : jobs'[x] = jobs[x]
      BY <3>3, <3>4, AppendedJob
    <3> QED
      BY <3>3, <3>5, OtherJobFor DEF Channels
  <2>3. ASSUME NEW j \in JobType, work[q] # 0, jobs' = [jobs EXCEPT ![work[q]] = j],
               j.kind = jobs[work[q]].kind, j.user = jobs[work[q]].user,
               j.type = jobs[work[q]].type, j.origin = jobs[work[q]].origin
        PROVE  JobsFor(e, n)' = JobsFor(e, n)
    <3>1. /\ DOMAIN jobs' = DOMAIN jobs
          /\ \A i \in DOMAIN jobs : /\ jobs'[i].kind = jobs[i].kind /\ jobs'[i].user = jobs[i].user
                                    /\ jobs'[i].type = jobs[i].type
                                    /\ jobs'[i].origin = jobs[i].origin
      BY <2>3, AtWork
    <3> QED
      BY <3>1, SameJobFor
  <2>4. CASE Complete(q)
    <3>1. work[q] # 0 /\ jobs[work[q]] \in JobType
      BY <2>4, AtWork DEF Complete
    <3>2. PICK j : j = [jobs[work[q]] EXCEPT !.state = "completed"]
      OBVIOUS
    <3>3. /\ j \in JobType /\ j.kind = jobs[work[q]].kind /\ j.user = jobs[work[q]].user
          /\ j.type = jobs[work[q]].type /\ j.origin = jobs[work[q]].origin
      BY <3>1, <3>2 DEF JobType
    <3>4. jobs' = [jobs EXCEPT ![work[q]] = j]
      BY <2>4, <3>2 DEF Complete
    <3> QED
      BY <2>3, <3>1, <3>3, <3>4
  <2>5. CASE AttemptFails(q)
    <3>1. work[q] # 0 /\ jobs[work[q]] \in JobType
      BY <2>5, AtWork DEF AttemptFails
    <3>2. PICK j : j = TriedAgain(jobs[work[q]])
      OBVIOUS
    <3>3. /\ j \in JobType /\ j.kind = jobs[work[q]].kind /\ j.user = jobs[work[q]].user
          /\ j.type = jobs[work[q]].type /\ j.origin = jobs[work[q]].origin
      BY <3>1, <3>2, JobsTriedOrStalled
    <3>4. jobs' = [jobs EXCEPT ![work[q]] = j]
      BY <2>5, <3>2 DEF AttemptFails
    <3> QED
      BY <2>3, <3>1, <3>3, <3>4
  <2> QED
    BY <2>1, <2>2, <2>4, <2>5
       DEF Work, Take, CreateInApp, EmitToUser, FindUser, FindDevices, SendPush,
           RecordSent, Caught, NoteFailure, SendOtpMail
<1>3. \A e \in Events : Routing(e) => Routing(e)'
  <2> SUFFICES ASSUME NEW e \in Events, Routing(e) PROVE Routing(e)'
    OBVIOUS
  <2>1. UNCHANGED <<content[e], notices[e], plan[e], due[e], missed[e]>> /\ pc'[e] \in {pc[e], "lost"}
    BY <1>1
  <2>2. \A n : JobsFor(e, n)' = JobsFor(e, n)
    BY <1>2
  <2> QED
    BY <2>1, <2>2, RoutingFrame
<1> QED
  BY <1>1, <1>3 DEF RoutingKept

\* A stop loses the events that were being routed.
LEMMA CrashKeepsRouting ==
    ASSUME DeliveryTypeOK, RoutingKept, Crash
    PROVE  RoutingKept'
<1>1. /\ UNCHANGED <<content, notices, plan, due, missed>>
      /\ \A e \in Events : pc'[e] = IF pc[e] \in {"read", "add"} THEN "lost" ELSE pc[e]
  BY DEF Crash, ghosts
<1>2. ASSUME NEW e \in Events, NEW n PROVE JobsFor(e, n)' = JobsFor(e, n)
  <2>1. /\ DOMAIN jobs' = DOMAIN jobs
        /\ \A i \in DOMAIN jobs : /\ jobs'[i].kind = jobs[i].kind /\ jobs'[i].user = jobs[i].user
                                  /\ jobs'[i].type = jobs[i].type
                                  /\ jobs'[i].origin = jobs[i].origin
    BY CrashedJobs, JobFacts, JobsTriedOrStalled
  <2> QED
    BY <2>1, SameJobFor
<1>3. \A e \in Events : Routing(e) => Routing(e)'
  <2> SUFFICES ASSUME NEW e \in Events, Routing(e) PROVE Routing(e)'
    OBVIOUS
  <2>1. UNCHANGED <<content[e], notices[e], plan[e], due[e], missed[e]>> /\ pc'[e] \in {pc[e], "lost"}
    BY <1>1
  <2>2. \A n : JobsFor(e, n)' = JobsFor(e, n)
    BY <1>2
  <2> QED
    BY <2>1, <2>2, RoutingFrame
<1> QED
  BY <1>1, <1>3 DEF RoutingKept

-----------------------------------------------------------------------------
(* The invariant.                                                          *)

\* The invariant holds at the start.
LEMMA DeliveryInvariantInit == Init => DeliveryInv
<1> SUFFICES ASSUME Init PROVE DeliveryInv
  OBVIOUS
<1>1. DOMAIN jobs = {} /\ DOMAIN rows = {} /\ \A e \in Events : pc[e] = "idle"
  BY DEF Init, EmptyBag, SetToBag
<1>2. DeliveryTypeOK
  <2>1. jobs \in Seq(JobType) /\ notices \in [Events -> Seq(Notice)] /\ plan \in [Events -> Seq(Channels)]
    BY EmptySeq DEF Init
  <2>2. IsFiniteSet(DOMAIN rows) /\ rows \in [DOMAIN rows -> Nat \ {0}]
    BY <1>1, FS_EmptySet DEF Init, EmptyBag, SetToBag
  <2> QED
    BY <1>1, <2>1, <2>2 DEF Init, DeliveryTypeOK, Places
<1>3. Working /\ RowsCounted /\ RowsWritten /\ OtpMailedOrTried
  BY <1>1 DEF Init, Working, RowsCounted, RowsWritten, OtpMailedOrTried
<1>4. RowsTellTruth
  BY <1>1 DEF RowsTellTruth, BagToSet
<1>5. RoutingKept
  <2>1. \A e \in Events : \A n : JobsFor(e, n) = {}
    BY <1>1 DEF JobsFor, JobFor
  <2> QED
    BY <1>1, <2>1 DEF RoutingKept, Routing
<1> QED
  BY <1>2, <1>3, <1>4, <1>5 DEF DeliveryInv

\* Every step keeps the invariant.
LEMMA DeliveryInvariantStep == DeliveryInv /\ [Next]_vars => DeliveryInv'
<1> SUFFICES ASSUME DeliveryInv, [Next]_vars PROVE DeliveryInv'
  OBVIOUS
<1>0. DeliveryTypeOK /\ Working /\ RoutingKept /\ WorkersInv
  BY DEF DeliveryInv, WorkersInv
<1>1. SUFFICES DeliveryTypeOK' /\ RoutingKept' /\ WorkersInv'
  BY DEF DeliveryInv, WorkersInv
<1>2. CASE \E e \in Events : Route(e) \/ RouteFails(e)
  BY <1>0, <1>2, RouteType, RouteKeepsRouting, RouteKeepsWorkers
<1>3. ASSUME UNCHANGED <<router, jobs, rows, worker, mailed, ghosts>>,
             prefs' \in [Users -> Settings]
      PROVE  DeliveryTypeOK' /\ RoutingKept' /\ WorkersInv'
  <2>1. DeliveryTypeOK'
    BY <1>0, <1>3 DEF DeliveryTypeOK, router, worker, ghosts
  <2>2. RoutingKept'
    <3>1. \A e \in Events : Routing(e) => Routing(e)'
      BY <1>3 DEF Routing, Done, JobsFor, JobFor, router, ghosts
    <3> QED
      BY <1>0, <1>3, <3>1 DEF RoutingKept, router
  <2>3. WorkersInv'
    <3>1. 0 \notin DOMAIN jobs'
      BY <1>0, <1>3, JobFacts
    <3> QED
      BY <1>0, <1>3, <3>1, MoreJobs
  <2> QED
    BY <2>1, <2>2, <2>3
<1>4. CASE \E u \in Users : UpdatePreferences(u)
  <2>1. prefs' \in [Users -> Settings]
    BY <1>0, <1>4 DEF UpdatePreferences, DeliveryTypeOK
  <2> QED
    BY <1>3, <1>4, <2>1 DEF UpdatePreferences
<1>5. CASE \E q \in Queues : Work(q) \/ Caught(q) \/ AttemptFails(q)
  BY <1>0, <1>5, WorkType, WorkKeepsRouting, WorkKeepsWorkers
<1>6. CASE Crash
  BY <1>0, <1>6, CrashType, CrashKeepsRouting, CrashKeepsWorkers
<1>7. CASE UNCHANGED vars
  BY <1>0, <1>3, <1>7 DEF vars, DeliveryTypeOK
<1> QED
  BY <1>2, <1>4, <1>5, <1>6, <1>7 DEF Next

\* Whatever fails or stops, the listener, the queues and the rows stay in step.
THEOREM DeliveryInvariance == Spec => []DeliveryInv
BY DeliveryInvariantInit, DeliveryInvariantStep, PTL DEF Spec

\* Every routed event has got the jobs its addressees' preferences asked for at
\* the minute they were read, no more and no fewer.
THEOREM RoutedAsAskedAlways == Spec => []RoutedAsAsked
<1>1. DeliveryInv => RoutedAsAsked
  BY DEF DeliveryInv, RoutingKept, Routing, RoutedAsAsked, Done, JobsFor
<1> QED
  BY <1>1, DeliveryInvariance, PTL

\* A completed notification has its row, and a row that says a mail was sent
\* has the mail.
THEOREM RowsAreTrue == Spec => []RowsTellTruth
<1>1. DeliveryInv => RowsTellTruth
  BY DEF DeliveryInv
<1> QED
  BY <1>1, DeliveryInvariance, PTL

\* A job has no more rows than stalls, and one.
THEOREM RowsOncePerStall == Spec => []OnlyStallsRepeatRows
<1>1. DeliveryInv => OnlyStallsRepeatRows
  BY DEF DeliveryInv, RowsCounted, OnlyStallsRepeatRows
<1> QED
  BY <1>1, DeliveryInvariance, PTL

\* A code is mailed, or given up only after all its attempts or too many stops.
THEOREM OtpIsMailedOrTried == Spec => []OtpMailedOrTried
<1>1. DeliveryInv => OtpMailedOrTried
  BY DEF DeliveryInv
<1> QED
  BY <1>1, DeliveryInvariance, PTL

-----------------------------------------------------------------------------
(* The queues keep their promise: a job is asked for once, settled once and *)
(* for good, and none is settled that was not asked for.  That each is      *)
(* settled in the end is checked, not proved.                              *)

\* The queues are empty at the start.
LEMMA QueuePromiseInit == Init => Queue!Init
BY DEF Init, Queue!Init, Settled

\* Every step asks for a job, settles jobs or does neither.
LEMMA QueuePromiseStep ==
    ASSUME JobIds = Nat \ {0}, DeliveryInv, [Next]_vars
    PROVE  [Queue!Next]_<<DOMAIN jobs, Settled>>
<1>0. DeliveryTypeOK /\ Working /\ RoutingKept
  BY DEF DeliveryInv
<1>1. CASE jobs' = jobs
  BY <1>1 DEF Settled
<1>2. ASSUME NEW k \in Nat \ {0}, k \notin DOMAIN jobs, DOMAIN jobs' = DOMAIN jobs \cup {k},
             \A i \in DOMAIN jobs : jobs'[i] = jobs[i], jobs'[k].state = "waiting"
      PROVE  Queue!Ask
  <2>1. Settled' = Settled
    BY <1>2 DEF Settled
  <2>2. k \in JobIds \ DOMAIN jobs
    BY <1>2
  <2> QED
    BY <1>2, <2>1, <2>2 DEF Queue!Ask
<1>3. ASSUME DOMAIN jobs' = DOMAIN jobs,
             \A i \in DOMAIN jobs : jobs'[i] = jobs[i] \/ jobs[i].state = "waiting"
      PROVE  Queue!Settle
  <2>1. Settled \subseteq Settled' /\ Settled' \subseteq DOMAIN jobs
    BY <1>3 DEF Settled
  <2> QED
    BY <1>3, <2>1 DEF Queue!Settle
<1>4. CASE \E e \in Events : Route(e) \/ RouteFails(e)
  BY <1>0, <1>1, <1>2, <1>4, RouteJobs DEF Queue!Next
<1>5. CASE \E u \in Users : UpdatePreferences(u)
  BY <1>1, <1>5 DEF UpdatePreferences
<1>6. ASSUME NEW q \in Queues, QueueMail(q)
      PROVE  Queue!Ask
  <2>1. PICK i : i = work[q] /\ i \in DOMAIN jobs /\ jobs[i] \in JobType
    BY <1>0, <1>6, AtWork DEF QueueMail, Step
  <2>2. PICK j : j = Job("MAIL", jobs[i], i)
    OBVIOUS
  <2>3. j \in JobType /\ j.state = "waiting"
    BY <1>0, <2>1, <2>2, JobFacts DEF Job, JobType
  <2>4. jobs' = Append(jobs, j)
    BY <1>6, <2>1, <2>2 DEF QueueMail
  <2> QED
    BY <1>0, <1>2, <2>3, <2>4, AppendedJob
<1>7. ASSUME NEW q \in Queues, Complete(q) \/ AttemptFails(q)
      PROVE  Queue!Settle
  <2>1. work[q] # 0 /\ work[q] \in DOMAIN jobs /\ jobs[work[q]].state = "waiting"
    BY <1>0, <1>7, AtWork DEF Complete, AttemptFails
  <2>2. DOMAIN jobs' = DOMAIN jobs /\ \A i \in DOMAIN jobs : i # work[q] => jobs'[i] = jobs[i]
    BY <1>7 DEF Complete, AttemptFails
  <2> QED
    BY <1>3, <2>1, <2>2
<1>8. CASE \E q \in Queues : Work(q) \/ Caught(q) \/ AttemptFails(q)
  BY <1>1, <1>6, <1>7, <1>8
     DEF Work, Take, CreateInApp, EmitToUser, FindUser, FindDevices, SendPush,
         RecordSent, Caught, NoteFailure, SendOtpMail, Queue!Next
<1>9. CASE Crash
  <2>1. DOMAIN jobs' = DOMAIN jobs
        /\ \A i \in DOMAIN jobs : jobs'[i] = jobs[i] \/ \E q \in Queues : work[q] = i
    BY <1>0, <1>9, CrashedJobs
  <2>2. \A i \in DOMAIN jobs : jobs'[i] = jobs[i] \/ jobs[i].state = "waiting"
    BY <1>0, <2>1, JobFacts, AtWork
  <2> QED
    BY <1>3, <2>1, <2>2 DEF Queue!Next
<1>10. CASE UNCHANGED vars
  BY <1>1, <1>10 DEF vars
<1> QED
  BY <1>4, <1>5, <1>8, <1>9, <1>10 DEF Next

\* With a number for every job, the queues implement AtLeastOnce but for its
\* liveness.
THEOREM QueueKeepsPromiseSafely ==
    ASSUME JobIds = Nat \ {0}
    PROVE  Spec => Queue!Init /\ [][Queue!Next]_<<DOMAIN jobs, Settled>>
BY QueuePromiseInit, QueuePromiseStep, DeliveryInvariance, PTL DEF Spec

=============================================================================
