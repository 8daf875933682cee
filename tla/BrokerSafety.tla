------------------------------ MODULE BrokerSafety ------------------------------
(***************************************************************************)
(* What the server keeps between connections, jobs and timers, proved from *)
(* the kinds of step of BrokerSteps for any number of connections, tubes   *)
(* and jobs, when no binlog can fail (~WalMayFail).                        *)
(*                                                                         *)
(* SInv is inductive: a step of one of the kinds keeps each of its parts.  *)
(* The invariants WaitingSetsAgree, OutJobSafe, NoMissedHandoff and        *)
(* WaiterArmed follow from it, and so do the action properties LeaseEnds   *)
(* and BestJobFirst and the implementation of JobLifecycle.                *)
(***************************************************************************)
EXTENDS BrokerSteps

-----------------------------------------------------------------------------
(* SInv is inductive                                                       *)

\* A step of one kind concerns one connection at most: the others wait and own
\* what they did.
LEMMA WaitListsOfOthers ==
    ASSUME IInv, NEW c \in Conns, ConnKind(c), NEW d \in Conns \ {c}, NEW t \in Tubes
    PROVE  d \in waiting_conns'[t] <=> d \in waiting_conns[t]
<1>1. waiting_conns \in [Tubes -> SUBSET Conns]
  BY Facts DEF RestOK
<1>2. CASE waiting_conns' = waiting_conns
  BY <1>2
<1>3. CASE waiting_conns' = Delisted(waiting_conns, c, conn[c].watch)
           \/ waiting_conns' = Enlisted(waiting_conns, c, conn[c].watch)
  BY <1>1, <1>3 DEF Delisted, Enlisted
<1> QED
  BY <1>2, <1>3 DEF ConnKind, Answered, Uploads, Begins, Waits, Looks, Stops, Closes,
     Rescheduled, Reserves, Hands, Loses, SameWait, Unlisted

\* The connection a step is about is listed for what it watches while it waits.
LEMMA WaitListsOfOne ==
    ASSUME SInv, IInv', NEW c \in Conns, ConnKind(c)
    PROVE  /\ conn'[c].waiting <=> conn'[c].state = "wait"
           /\ \A t \in Tubes : c \in waiting_conns'[t] <=>
                    conn'[c].waiting /\ t \in conn'[c].watch
<1>1. /\ waiting_conns \in [Tubes -> SUBSET Conns]
      /\ conn[c].waiting \in BOOLEAN /\ conn'[c].waiting \in BOOLEAN
      /\ conn[c].watch \subseteq Tubes
  <2>1. conn'[c] \in ConnRec
    BY DEF IInv, TypeOK
  <2> QED
    BY <2>1, Facts DEF RestOK, SInv, ConnRec
<1>2. /\ conn[c].waiting <=> conn[c].state = "wait"
      /\ \A t \in Tubes : c \in waiting_conns[t] <=>
                conn[c].waiting /\ t \in conn[c].watch
  BY DEF SInv, WaitingSetsAgree
<1>3. CASE Answered(c) \/ Looks(c) \/ \E j \in Ids : Reserves(c, j)
  BY <1>1, <1>2, <1>3 DEF Answered, Looks, Reserves, SameWait
<1>4. CASE Begins(c)
  BY <1>1, <1>2, <1>4 DEF Begins
<1>5. CASE Waits(c)
  BY <1>1, <1>2, <1>5 DEF Waits, Enlisted
<1>6. CASE Stops(c) \/ Closes(c) \/ \E j \in Ids : Hands(c, j)
  BY <1>1, <1>2, <1>6 DEF Stops, Closes, Hands, Unlisted, Delisted
<1>7. CASE Uploads(c) \/ Rescheduled(c) \/ \E j \in Ids : Loses(c, j)
  BY <1>1, <1>2, <1>7 DEF Uploads, Rescheduled, Loses, SameWait
<1> QED
  BY <1>3, <1>4, <1>5, <1>6, <1>7 DEF ConnKind

\* The sets of waiting connections agree with the connections after a step.
LEMMA WaitingKept ==
    ASSUME SInv, IInv', Kind
    PROVE  WaitingSetsAgree'
<1>1. CASE conn' = conn /\ waiting_conns' = waiting_conns
  BY <1>1 DEF SInv, WaitingSetsAgree
<1>2. ASSUME NEW c \in Conns, Alone(c), ConnKind(c) PROVE WaitingSetsAgree'
  <2> SUFFICES ASSUME NEW d \in Conns
               PROVE  /\ conn'[d].waiting <=> conn'[d].state = "wait"
                      /\ \A t \in Tubes : d \in waiting_conns'[t] <=>
                                conn'[d].waiting /\ t \in conn'[d].watch
    BY DEF WaitingSetsAgree
  <2>1. CASE d = c
    BY <1>2, <2>1, WaitListsOfOne
  <2>2. CASE d # c
    <3>1. conn'[d] = conn[d]
      BY <1>2, <2>2 DEF Alone
    <3>2. \A t \in Tubes : d \in waiting_conns'[t] <=> d \in waiting_conns[t]
      BY <1>2, <2>2, WaitListsOfOthers DEF SInv
    <3> QED
      BY <3>1, <3>2 DEF SInv, WaitingSetsAgree
  <2> QED
    BY <2>1, <2>2
<1> QED
  BY <1>1, <1>2 DEF Kind, Quiet, Promotes

\* Only a connection that writes a reply has a job to write, after a step too.
LEMMA OutOnlyKept ==
    ASSUME SInv, Kind
    PROVE  OutOnlyWhenSending'
<1>1. CASE conn' = conn
  BY <1>1 DEF SInv, OutOnlyWhenSending
<1>2. ASSUME NEW c \in Conns, Alone(c), ConnKind(c) PROVE OutOnlyWhenSending'
  <2> SUFFICES ASSUME NEW d \in Conns, conn'[d].state \notin {"send_word", "send_job"}
               PROVE  conn'[d].out_job = Nil
    BY DEF OutOnlyWhenSending
  <2>0. conn[d].state \notin {"send_word", "send_job"} => conn[d].out_job = Nil
    BY DEF SInv, OutOnlyWhenSending
  <2>1. CASE d # c
    BY <1>2, <2>0, <2>1 DEF Alone
  <2>2. CASE d = c
    <3>1. \/ Uploads(c) \/ Begins(c) \/ Waits(c) \/ Closes(c) \/ Rescheduled(c)
          \/ \E j \in Ids : Loses(c, j)
      BY <1>2, <2>2 DEF ConnKind, Answered, Looks, Stops, Reserves, Hands
    <3>2. CASE \E j \in Ids : Loses(c, j)
      BY <2>0, <2>2, <3>2 DEF Loses, Ids, Nil
    <3>3. CASE Uploads(c) \/ Begins(c) \/ Waits(c) \/ Closes(c) \/ Rescheduled(c)
      BY <2>0, <2>2, <3>3 DEF Uploads, Begins, Waits, Closes, Rescheduled
    <3> QED
      BY <3>1, <3>2, <3>3
  <2> QED
    BY <2>1, <2>2
<1> QED
  BY <1>1, <1>2 DEF Kind, Quiet, Promotes

ReservedBy(s, k, d) == s.job[k].state = "reserved" /\ s.job[k].reserver = d

\* The reservations of a connection that the step is not about: none ends, none
\* begins, no deadline moves.
LEMMA OthersKeepTheirs ==
    ASSUME SInv, NEW d \in Conns, NEW k \in Ids,
           ReservedBy(q, k, d) \/ ReservedBy(q', k, d),
           \/ Quiet \/ \E j \in Ids : Promotes(j)
           \/ \E c \in Conns \ {d} : ConnKind(c)
    PROVE  q'.job[k] = q.job[k]
<1>0. next_id \in Ids => q.job[next_id].state = "none"
  BY Facts DEF SInv, IInv, FreshIds, Ids
<1>1. CASE NoJob
  BY <1>1 DEF NoJob
<1>2. CASE Made
  BY <1>0, <1>2 DEF Made, Becomes, ReservedBy
<1>3. ASSUME NEW j \in Ids, Requeued(j) \/ Freed(j), q.job[j].state # "reserved"
      PROVE  q'.job[k] = q.job[k]
  BY <1>3 DEF Requeued, Freed, OnlyJob, Becomes, ReservedBy, Queued
<1>4. ASSUME NEW c \in Conns \ {d}, NEW j \in Ids,
             \/ Taken(j, c)
             \/ (Requeued(j) \/ Freed(j) \/ Touched(j)) /\ q.job[j].reserver = c
      PROVE  q'.job[k] = q.job[k]
  BY <1>4, ConstantsOK DEF Requeued, Freed, Touched, Taken, OnlyJob, Becomes,
                           ReservedBy, Queued
<1>5. CASE \E j \in Ids : Promotes(j)
  BY <1>3, <1>5 DEF Promotes
<1>6. ASSUME NEW c \in Conns \ {d}, ConnKind(c) PROVE q'.job[k] = q.job[k]
  <2>1. CASE Answered(c)
    <3>1. CASE \E j \in Ids : (Requeued(j) \/ Freed(j) \/ Touched(j))
                              /\ q.job[j].reserver = c
      BY <1>4, <3>1
    <3>2. CASE \E j \in Ids : (Requeued(j) \/ Freed(j)) /\ q.job[j].state # "reserved"
      BY <1>3, <3>2
    <3> QED
      BY <1>1, <2>1, <3>1, <3>2 DEF Answered, Touched
  <2>2. CASE Uploads(c)
    BY <1>2, <2>2 DEF Uploads
  <2>3. CASE Begins(c) \/ Waits(c) \/ Looks(c) \/ Stops(c) \/ Rescheduled(c)
    BY <1>1, <2>3 DEF Begins, Waits, Looks, Stops, Rescheduled
  <2>4. CASE Closes(c)
    BY <1>1, <1>3, <2>4 DEF Closes
  <2>5. CASE \E j \in Ids : Reserves(c, j) \/ Hands(c, j) \/ Loses(c, j)
    BY <1>4, <2>5 DEF Reserves, Hands, Loses
  <2> QED
    BY <1>6, <2>1, <2>2, <2>3, <2>4, <2>5 DEF ConnKind
<1> QED
  BY <1>1, <1>5, <1>6 DEF Quiet

\* A list of reserved jobs holds what the jobs' records say.
LEMMA ListIsReserved ==
    ASSUME NEW s \in Store, Whole(s), NEW d \in Conns
    PROVE  /\ Range(s.reserved_jobs[d]) = {k \in Ids : ReservedBy(s, k, d)}
           /\ s.reserved_jobs[d] = <<>> <=> Range(s.reserved_jobs[d]) = {}
<1>1. s.reserved_jobs[d] \in Seq(Ids)
  BY DEF Store
<1>2. Range(s.reserved_jobs[d]) \subseteq Ids
  BY <1>1, RangeInIds
<1>3. \A k \in Ids : k \in Range(s.reserved_jobs[d]) <=> ReservedBy(s, k, d)
  BY DEF Whole, Placed, ReservedBy
<1>4. s.reserved_jobs[d] = <<>> => Range(s.reserved_jobs[d]) = {}
  BY DEF Range
<1>5. s.reserved_jobs[d] # <<>> => s.reserved_jobs[d][1] \in Range(s.reserved_jobs[d])
  BY <1>1 DEF Range
<1> QED
  BY <1>2, <1>3, <1>4, <1>5

\* A connection that the step is not about holds the same jobs after it.
LEMMA OthersList ==
    ASSUME SInv, IInv', NEW d \in Conns,
           \/ Quiet \/ \E j \in Ids : Promotes(j)
           \/ \E c \in Conns \ {d} : ConnKind(c)
    PROVE  /\ Range(q'.reserved_jobs[d]) = Range(q.reserved_jobs[d])
           /\ q'.reserved_jobs[d] = <<>> <=> q.reserved_jobs[d] = <<>>
           /\ \A k \in Range(q.reserved_jobs[d]) : k \in Ids /\ q'.job[k] = q.job[k]
<1>1. q \in Store /\ Whole(q) /\ q' \in Store /\ Whole(q')
  BY DEF SInv, IInv, TypeOK
<1>2. \A k \in Ids : ReservedBy(q, k, d) \/ ReservedBy(q', k, d) => q'.job[k] = q.job[k]
  BY OthersKeepTheirs
<1>3. \A k \in Ids : ReservedBy(q, k, d) <=> ReservedBy(q', k, d)
  BY <1>2 DEF ReservedBy
<1>4. /\ Range(q.reserved_jobs[d]) = {k \in Ids : ReservedBy(q, k, d)}
      /\ q.reserved_jobs[d] = <<>> <=> Range(q.reserved_jobs[d]) = {}
  BY <1>1, ListIsReserved
<1>5. /\ Range(q'.reserved_jobs[d]) = {k \in Ids : ReservedBy(q', k, d)}
      /\ q'.reserved_jobs[d] = <<>> <=> Range(q'.reserved_jobs[d]) = {}
  BY <1>1, ListIsReserved
<1> QED
  BY <1>2, <1>3, <1>4, <1>5

\* What a connection writes is its own or a copy.
OutSafe(s, c, cr) ==
    /\ cr.state = "send_job" => cr.out_job # Nil
    /\ cr.out_job = NoCopy => CopyMayFail
    /\ cr.out_job \notin {Nil, Copy, NoCopy} =>
            cr.out_job \in Range(s.reserved_jobs[c])

\* The job a connection is writing out is its own or a copy after a step too.
LEMMA OutJobKept ==
    ASSUME SInv, IInv', Kind
    PROVE  OutJobSafe'
<1>0. \A d \in Conns : OutSafe(q, d, conn[d])
  BY DEF SInv, OutJobSafe, OutSafe
<1>1. SUFFICES ASSUME NEW d \in Conns PROVE OutSafe(q', d, conn'[d])
  BY DEF OutJobSafe, OutSafe
<1>2. ASSUME \/ Quiet \/ \E j \in Ids : Promotes(j)
             \/ \E c \in Conns \ {d} : Alone(c) /\ ConnKind(c)
      PROVE  OutSafe(q', d, conn'[d])
  <2>1. conn'[d] = conn[d]
    BY <1>2 DEF Quiet, Promotes, Alone
  <2>2. Range(q'.reserved_jobs[d]) = Range(q.reserved_jobs[d])
    BY <1>2, OthersList
  <2> QED
    BY <1>0, <2>1, <2>2 DEF OutSafe
<1>3. ASSUME ConnKind(d) PROVE OutSafe(q', d, conn'[d])
  <2>1. q \in Store /\ Whole(q) /\ q' \in Store /\ Whole(q')
    BY DEF SInv, IInv, TypeOK
  <2>2. /\ Range(q.reserved_jobs[d]) = {k \in Ids : ReservedBy(q, k, d)}
        /\ Range(q'.reserved_jobs[d]) = {k \in Ids : ReservedBy(q', k, d)}
    BY <2>1, ListIsReserved
  <2>3. conn[d].state \in {"want_command", "want_data", "closing", "wait"} =>
            conn[d].out_job = Nil
    BY DEF SInv, OutOnlyWhenSending
  <2>4. CASE Answered(d) \/ Uploads(d) \/ Begins(d) \/ Waits(d) \/ Closes(d)
    BY <2>3, <2>4 DEF Answered, Uploads, Begins, Waits, Closes, OutSafe, Nil, NoCopy
  <2>5. CASE \E j \in Ids : Reserves(d, j) \/ Hands(d, j)
    BY <2>2, <2>5 DEF Reserves, Hands, Taken, Becomes, OutSafe, ReservedBy, Ids, Nil, NoCopy
  <2>6. CASE Looks(d)
    BY <2>6 DEF Looks, OutSafe, Nil, Copy, NoCopy
  <2>7. CASE Stops(d) \/ Rescheduled(d)
    BY <1>0, <2>2, <2>7 DEF Stops, Rescheduled, OutSafe, NoJob, ReservedBy
  <2>8. ASSUME NEW j \in Ids, Loses(d, j) PROVE OutSafe(q', d, conn'[d])
    <3>1. CASE conn[d].out_job = j
      BY <2>8, <3>1 DEF Loses, OutSafe, Copies, Nil, Copy, NoCopy
    <3>2. CASE conn[d].out_job # j
      BY <1>0, <2>2, <2>8, <3>2 DEF Loses, OutSafe, Requeued, OnlyJob, ReservedBy
    <3> QED
      BY <3>1, <3>2
  <2> QED
    BY <1>3, <2>4, <2>5, <2>6, <2>7, <2>8 DEF ConnKind
<1> QED
  BY <1>2, <1>3 DEF Kind

\* A waiting connection whose record and whose reservations stay the same is
\* armed for the same times.
LEMMA ArmedStays ==
    ASSUME SInv, IInv', NEW d \in Conns, ArmedConn(d), conn'[d] = conn[d],
           Range(q'.reserved_jobs[d]) = Range(q.reserved_jobs[d]),
           q'.reserved_jobs[d] = <<>> <=> q.reserved_jobs[d] = <<>>,
           \A k \in Range(q.reserved_jobs[d]) : k \in Ids /\ q'.job[k] = q.job[k]
    PROVE  ArmedConn(d)'
<1> DEFINE r == conn[d]
           i == connsoonestjob(q, d, r)
           j == connsoonestjob(q', d, r)
<1>1. /\ q \in Store /\ q' \in Store /\ clock \in Nat /\ clock' \in Nat
      /\ r \in ConnRec /\ Held(q, d, r)
      /\ q.reserved_jobs[d] \in Seq(Ids) /\ q'.reserved_jobs[d] \in Seq(Ids)
  BY Facts DEF SInv, IInv, TypeOK, Store
<1>2. /\ r.tickat \in Int
      /\ \A k \in Ids : q.job[k].deadline_at \in Nat
  BY <1>1 DEF ConnRec, Store, JobRec
<1>3. /\ r.in_conns /\ r.tickat <= r.until
      /\ i # Nil => r.tickat <= q.job[i].deadline_at - SafetyMargin
  BY DEF ArmedConn
<1>5. CASE r.soonest_job # Nil
  <2>1. i = r.soonest_job /\ j = r.soonest_job
    BY <1>5 DEF connsoonestjob
  <2>2. q'.job[j] = q.job[i]
    BY <1>1, <1>5, <2>1 DEF Held
  <2> QED
    BY <1>3, <1>5, <2>1, <2>2 DEF ArmedConn
<1>6. CASE r.soonest_job = Nil /\ q.reserved_jobs[d] = <<>>
  <2>1. j = Nil
    BY <1>6 DEF connsoonestjob
  <2> QED
    BY <1>3, <2>1 DEF ArmedConn
<1>7. CASE r.soonest_job = Nil /\ q.reserved_jobs[d] # <<>>
  <2>1. i = EarliestOf(q, q.reserved_jobs[d]) /\ j = EarliestOf(q', q'.reserved_jobs[d])
    BY <1>7 DEF connsoonestjob
  <2>2. /\ i \in Range(q.reserved_jobs[d])
        /\ \A k \in Range(q.reserved_jobs[d]) : q.job[i].deadline_at <= q.job[k].deadline_at
    BY <1>1, <1>7, <2>1, EarliestInList
  <2>3. j \in Range(q'.reserved_jobs[d])
    BY <1>1, <1>7, <2>1, EarliestInList
  <2> HIDE DEF i, j
  <2>4. /\ i \in Ids /\ j \in Ids /\ i # Nil /\ q'.job[j] = q.job[j]
        /\ q.job[i].deadline_at <= q.job[j].deadline_at
    BY <2>2, <2>3 DEF Ids, Nil
  <2>5. r.tickat <= q.job[i].deadline_at - SafetyMargin
    BY <1>3, <2>4
  <2>6. r.tickat <= q'.job[j].deadline_at - SafetyMargin
    BY <1>2, <2>4, <2>5, ConstantsOK
  <2> QED
    BY <1>3, <2>6 DEF ArmedConn, j
<1> QED
  BY <1>5, <1>6, <1>7

\* The waiting connections stay armed.
LEMMA ArmedKept ==
    ASSUME SInv, IInv', Kind
    PROVE  Armed'
<1>1. SUFFICES ASSUME NEW d \in Conns, TimedWait(d)', ~InTimeout(d)'
               PROVE  ArmedConn(d)'
  BY DEF Armed
<1>2. ASSUME \/ Quiet \/ \E j \in Ids : Promotes(j)
             \/ \E c \in Conns \ {d} : Alone(c) /\ ConnKind(c)
      PROVE  ArmedConn(d)'
  <2>1. conn'[d] = conn[d]
    BY <1>2 DEF Quiet, Promotes, Alone
  <2>2. TimedWait(d) /\ ~InTimeout(d)
    BY <1>1, <2>1 DEF TimedWait, Kind, TimerKept
  <2>3. ArmedConn(d)
    BY <2>2 DEF SInv, Armed
  <2> QED
    BY <1>2, <2>1, <2>3, OthersList, ArmedStays
<1>3. ASSUME ConnKind(d) PROVE ArmedConn(d)'
  <2>1. conn'[d].state = "wait"
    BY <1>1, WaitingKept DEF WaitingSetsAgree, TimedWait
  <2>2. Waits(d)
    BY <1>1, <1>3, <2>1 DEF ConnKind, Answered, Uploads, Begins, Looks, Stops, Closes,
       Rescheduled, Reserves, Hands, Loses
  <2> QED
    BY <1>1, <2>2 DEF Waits
<1> QED
  BY <1>2, <1>3 DEF Kind

\* A ready job of an unpaused tube waits for nobody after a step too.
LEMMA HandoffKept ==
    ASSUME SInv, IInv', Kind
    PROVE  NoMissedHandoff'
<1>1. SUFFICES ASSUME ~pq', NEW t \in Tubes, ~pause'[t]
               PROVE  q'.ready[t] = {} \/ waiting_conns'[t] = {}
  BY DEF NoMissedHandoff
<1>2. /\ q \in Store /\ Whole(q) /\ q' \in Store /\ Whole(q')
      /\ q.ready[t] \subseteq Ids /\ q'.ready[t] \subseteq Ids
      /\ pause \in [Tubes -> BOOLEAN] /\ pq' \in BOOLEAN
  BY DEF SInv, IInv, TypeOK, Store
<1>3. /\ \A k \in Ids : k \in q.ready[t] <=> q.job[k].state = "ready" /\ q.job[k].tube = t
      /\ \A k \in Ids : k \in q'.ready[t] <=> q'.job[k].state = "ready" /\ q'.job[k].tube = t
  BY <1>2 DEF Whole, Placed
<1>4. CASE Calmer
  <2>1. ~pause[t] /\ ~pq /\ waiting_conns'[t] \subseteq waiting_conns[t]
    BY <1>1, <1>4 DEF Calmer
  <2>2. q.ready[t] = {} \/ waiting_conns[t] = {}
    BY <2>1 DEF SInv, NoMissedHandoff
  <2>3. q'.ready[t] \subseteq q.ready[t]
    BY <1>2, <1>3, <1>4 DEF Calmer
  <2> QED
    BY <2>1, <2>2, <2>3
<1>5. CASE Drained
  <2>1. Unpaused(t)
    BY <1>1, <1>5 DEF Drained, Unpaused
  <2>2. q.ready[t] = {} \/ waiting_conns[t] = {}
    BY <1>5, <2>1 DEF Drained, Awaited
  <2>3. q'.ready[t] = q.ready[t] /\ waiting_conns'[t] = waiting_conns[t]
    BY <1>2, <1>3, <1>5 DEF Drained, NoJob
  <2> QED
    BY <2>2, <2>3
<1> QED
  BY <1>1, <1>4, <1>5 DEF Kind, HandsOn

\* The server starts in SInv.
LEMMA SInitially ==
    ASSUME ~WalMayFail, Init
    PROVE  SInv
<1>1. IInv
  BY Initially
<1>2. /\ \A c \in Conns : /\ conn[c].state = "closed" /\ ~conn[c].waiting
                          /\ conn[c].out_job = Nil
      /\ \A t \in Tubes : waiting_conns[t] = {}
      /\ task.op = "socknext"
  BY DEF Init, ClosedConn, NewConn, Socknext
<1> QED
  BY <1>1, <1>2 DEF SInv, WaitingSetsAgree, Busy, OutOnlyWhenSending, OutJobSafe,
     Armed, TimedWait, NoMissedHandoff, Nil, NoCopy

\* Every step keeps SInv.
LEMMA SInductive ==
    ASSUME SInv, [Next]_vars
    PROVE  SInv'
<1>1. CASE UNCHANGED vars
  BY <1>1 DEF vars, SInv, IInv, TypeOK, WaitingSetsAgree, Busy, OutOnlyWhenSending,
     OutJobSafe, Armed, TimedWait, InTimeout, ArmedConn, NoMissedHandoff
<1>2. CASE Next
  <2>1. IInv'
    BY <1>2, Inductive DEF SInv
  <2>2. Kind
    BY <1>2, Kinds
  <2>3. Busy'
    BY <2>2 DEF Kind
  <2> QED
    BY <2>1, <2>2, <2>3, WaitingKept, OutOnlyKept, OutJobKept, ArmedKept, HandoffKept
       DEF SInv
<1> QED
  BY <1>1, <1>2

-----------------------------------------------------------------------------
(* The invariants                                                          *)

\* Without a binlog that can fail, SInv holds of every reachable state.
THEOREM SInvariance ==
    ASSUME ~WalMayFail
    PROVE  Spec => []SInv
<1>1. Init => SInv
  BY SInitially
<1>2. SInv /\ [Next]_vars => SInv'
  BY SInductive
<1> QED
  BY <1>1, <1>2, PTL DEF Spec

\* A connection is in waiting_conns of exactly the tubes it watches while it
\* waits: enqueue_waiting_conn and remove_waiting_conn are called wherever a
\* wait begins or ends (reserve, process_queue, conn_timeout, connclose, a
\* client that hangs up).
THEOREM WaitersListed ==
    ASSUME ~WalMayFail
    PROVE  Spec => []WaitingSetsAgree
<1>1. SInv => WaitingSetsAgree
  BY DEF SInv
<1> QED
  BY <1>1, SInvariance, PTL

\* The job being written to a client is a copy or reserved by that client: no
\* other client and no timer can free it under the writev of conn_write_job.  It
\* is missing only where conn_timeout's job_copy found no memory.
THEOREM OutJobIsSafe ==
    ASSUME ~WalMayFail
    PROVE  Spec => []OutJobSafe
<1>1. SInv => OutJobSafe
  BY DEF SInv
<1> QED
  BY <1>1, SInvariance, PTL

\* No ready job and no connection waiting for it are left together when
\* process_queue is done: every handler and timer that makes a job ready, a tube
\* unpaused or a connection wait runs it.
THEOREM HandoffNotMissed ==
    ASSUME ~WalMayFail
    PROVE  Spec => []NoMissedHandoff
<1>1. SInv => NoMissedHandoff
  BY DEF SInv
<1> QED
  BY <1>1, SInvariance, PTL

\* While the conns heap is whole, a connection that waits with a timeout is in
\* it, for a time no later than the moment at which the reserve command said
\* the wait ends, and than the margin of the job connsoonestjob names.
THEOREM WaitersArmed ==
    ASSUME ~WalMayFail
    PROVE  Spec => []WaiterArmed
<1>1. SInv => WaiterArmed
  BY DEF SInv, Armed, TimedWait, ArmedConn, InTimeout, Listening, WaiterArmed
<1> QED
  BY <1>1, SInvariance, PTL

-----------------------------------------------------------------------------
(* What a step may never do                                                *)

\* A step that ends a reservation of c is a command of c, its close, or comes
\* after the deadline.
LEMMA LeaseStep ==
    ASSUME SInv, Next, NEW j \in Ids, NEW c \in Conns,
           ReservedBy(q, j, c), ~ReservedBy(q', j, c)
    PROVE  \/ q.job[j].deadline_at < clock
           \/ conn[c].state = "closing"
           \/ conn[c].state = "want_command" /\ conn'[c].state = "send_word"
<1>1. Kind
  BY Kinds
<1>2. q'.job[j] # q.job[j]
  BY DEF ReservedBy
<1>3. ConnKind(c)
  BY <1>1, <1>2, OthersKeepTheirs DEF Kind
<1>4. ~NoJob
  BY <1>2 DEF NoJob
<1>5. ~Made
  <2>1. next_id \in Ids => q.job[next_id].state = "none"
    BY Facts DEF SInv, IInv, FreshIds, Ids
  <2> QED
    BY <1>2, <2>1 DEF Made, ReservedBy
<1>6. ASSUME NEW k \in Ids, OnlyJob(k) PROVE k = j
  BY <1>2, <1>6 DEF OnlyJob
<1>7. CASE Answered(c)
  <2>1. PICK k \in Ids : /\ Requeued(k) \/ Freed(k) \/ Touched(k)
                         /\ q.job[k].state = "reserved" => conn[c].state = "want_command"
    BY <1>4, <1>7 DEF Answered
  <2>2. k = j
    BY <1>6, <2>1 DEF Requeued, Freed, Touched
  <2> QED
    BY <1>7, <2>1, <2>2 DEF Answered, ReservedBy
<1>8. CASE Closes(c)
  <2>1. PICK k \in Ids : Freed(k) /\ q.job[k].state = "invalid"
    BY <1>4, <1>8 DEF Closes
  <2>2. k = j
    BY <1>6, <2>1 DEF Freed
  <2> QED
    BY <2>1, <2>2 DEF ReservedBy
<1>9. ASSUME NEW k \in Ids, Reserves(c, k) \/ Hands(c, k) PROVE FALSE
  <2>1. Taken(k, c)
    BY <1>9 DEF Reserves, Hands
  <2>2. k = j
    BY <1>6, <2>1 DEF Taken
  <2> QED
    BY <2>1, <2>2 DEF Taken, Queued, ReservedBy
<1>10. ASSUME NEW k \in Ids, Loses(c, k)
       PROVE  q.job[j].deadline_at < clock \/ conn[c].state = "closing"
  <2>1. k = j
    BY <1>6, <1>10 DEF Loses, Requeued
  <2> QED
    BY <1>10, <2>1 DEF Loses
<1> QED
  BY <1>3, <1>4, <1>5, <1>7, <1>8, <1>9, <1>10 DEF ConnKind, Uploads, Begins, Waits,
     Looks, Stops, Rescheduled

\* No client, timer or hang-up of another connection ever takes a job from the
\* connection that has it reserved; its own timer does only after the deadline.
THEOREM LeasesEndRightly ==
    ASSUME ~WalMayFail
    PROVE  Spec => LeaseEnds
<1> DEFINE A == \A j \in Ids, c \in Conns :
                    /\ is_job_reserved_by_conn(c, j)
                    /\ ~(q'.job[j].state = "reserved" /\ q'.job[j].reserver = c)
                    => \/ q.job[j].deadline_at < clock
                       \/ conn[c].state = "closing"
                       \/ conn[c].state = "want_command" /\ conn'[c].state = "send_word"
<1>1. SInv /\ [Next]_vars => [A]_vars
  BY LeaseStep DEF is_job_reserved_by_conn, ReservedBy
<1>2. LeaseEnds <=> [][A]_vars
  BY DEF LeaseEnds
<1> HIDE DEF A
<1> QED
  BY <1>1, <1>2, SInvariance, PTL DEF Spec

\* process_queue gives a waiting connection the best of the ready jobs of the
\* tubes it watches.
LEMMA BestStep ==
    ASSUME SInv, Next, NEW c \in Conns,
           conn[c].state = "wait", conn'[c].state = "send_job",
           NEW t \in conn[c].watch, NEW k \in q.ready[t],
           ~(pause[t] /\ clock < unpause_at[t])
    PROVE  LET j == conn'[c].out_job
           IN  q.job[j].pri < q.job[k].pri \/ (q.job[j].pri = q.job[k].pri /\ j <= k)
<1>1. Kind
  BY Kinds
<1>2. PICK j \in Ids : Hands(c, j)
  BY <1>1 DEF Kind, Quiet, Promotes, Alone, ConnKind, Answered, Uploads, Begins, Waits,
     Looks, Stops, Closes, Rescheduled, Reserves, Loses
<1>3. t \in Tubes /\ c \in waiting_conns[t]
  BY Facts DEF SInv, WaitingSetsAgree
<1>4. Unpaused(t) /\ k \in Ids
  BY <1>3, Facts DEF SInv, RestOK, Unpaused, Store
<1>5. k \in Awaited
  BY <1>3, <1>4 DEF Awaited
<1>6. k # j => job_pri_less(q, j, k)
  BY <1>2, <1>5 DEF Hands
<1>7. j = conn'[c].out_job /\ j \in Nat /\ k \in Nat
  BY <1>2, <1>4 DEF Hands, Ids
<1> QED
  BY <1>6, <1>7 DEF job_pri_less

\* A waiting connection gets the least ready job, by priority and then by age,
\* of all the unpaused tubes it watches, however the tubes, the pauses and the
\* other waiting connections interleave.
THEOREM BestJobIsFirst ==
    ASSUME ~WalMayFail
    PROVE  Spec => BestJobFirst
<1> DEFINE A == \A c \in Conns :
                  conn[c].state = "wait" /\ conn'[c].state = "send_job" =>
                    LET j == conn'[c].out_job
                    IN  \A t \in conn[c].watch : \A k \in q.ready[t] :
                            \/ q.job[j].pri < q.job[k].pri
                            \/ q.job[j].pri = q.job[k].pri /\ j <= k
                            \/ pause[t] /\ clock < unpause_at[t]
<1>1. SInv /\ [Next]_vars => [A]_vars
  BY BestStep
<1>2. BestJobFirst <=> [][A]_vars
  BY DEF BestJobFirst
<1> HIDE DEF A
<1> QED
  BY <1>1, <1>2, SInvariance, PTL DEF Spec

-----------------------------------------------------------------------------
(* The server implements JobLifecycle                                      *)

lives == [j \in Ids |-> LifeOf(j)]
holders == [j \in Ids |-> q.job[j].reserver]

\* What a step does to one job is one move of the life cycle.
LEMMA OneMoves ==
    ASSUME NEW j \in Ids, \A k \in Ids \ {j} : q'.job[k] = q.job[k],
           next_id' = next_id \/ (next_id' = next_id + 1 /\ j = next_id),
           next_id \in Nat,
           NEW to, NEW c, LifeOf(j)' = to, q'.job[j].reserver = c
    PROVE  /\ lives' = [lives EXCEPT ![j] = to]
           /\ holders' = [holders EXCEPT ![j] = c]
<1>1. ASSUME NEW k \in Ids \ {j} PROVE LifeOf(k)' = LifeOf(k)
  <2>1. k < next_id' <=> k < next_id
    BY DEF Ids
  <2> QED
    BY <2>1 DEF LifeOf
<1> QED
  BY <1>1 DEF lives, holders

\* The states of a job in the life cycle.
LEMMA Lives ==
    ASSUME SInv, NEW j \in Ids
    PROVE  /\ lives[j] = LifeOf(j)
           /\ q.job[j].state = "invalid" => LifeOf(j) = "incoming"
           /\ q.job[j].state \in Queued \cup {"reserved"} => LifeOf(j) = q.job[j].state
           /\ q.job[j].state # "none" => j < next_id
<1>1. j \in Nat /\ next_id \in Nat
  BY Facts, ConstantsOK DEF SInv, Ids
<1>2. q.job[j].state # "none" => j < next_id
  BY <1>1 DEF SInv, IInv, FreshIds
<1> QED
  BY <1>2 DEF lives, LifeOf, Queued

\* Every step is a step of the life cycle, or none.
LEMMA LifecycleStep ==
    ASSUME SInv, SInv', Next
    PROVE  Lifecycle!Next \/ UNCHANGED <<lives, holders, next_id>>
<1>1. Kind /\ next_id \in Nat
  BY Kinds, Facts, ConstantsOK DEF SInv
<1>2. CASE NoJob
  BY <1>2 DEF NoJob, lives, holders, LifeOf
<1>3. CASE Made
  <2>1. PICK n \in Ids : n = next_id
    BY <1>3 DEF Made
  <2>2. LifeOf(n)' = "incoming" /\ q'.job[n].reserver = NoConn
    BY <1>3, <2>1 DEF Made, Becomes, LifeOf
  <2>3. /\ lives' = [lives EXCEPT ![n] = "incoming"]
        /\ holders' = [holders EXCEPT ![n] = NoConn]
    <3>1. \A k \in Ids \ {n} : q'.job[k] = q.job[k]
      BY <1>3, <2>1 DEF Made
    <3>2. next_id' = next_id \/ (next_id' = next_id + 1 /\ n = next_id)
      BY <1>3, <2>1 DEF Made
    <3>3. next_id \in Nat
      BY <1>1
    <3> QED
      BY <2>2, <3>1, <3>2, <3>3, OneMoves
  <2>4. Lifecycle!Create
    BY <1>3, <2>1, <2>3 DEF Lifecycle!Create, Lifecycle!Move, Lifecycle!Ids, Ids, Made,
       lives, holders
  <2> QED
    BY <2>4 DEF Lifecycle!Next
<1>4. ASSUME NEW j \in Ids, Requeued(j) PROVE Lifecycle!Next
  <2>1. PICK to \in Queued : Becomes(j, to, NoConn)
    BY <1>4 DEF Requeued
  <2>2. LifeOf(j)' = to /\ q'.job[j].reserver = NoConn
    BY <2>1, Lives DEF Becomes, LifeOf, Queued
  <2>3. /\ lives' = [lives EXCEPT ![j] = to]
        /\ holders' = [holders EXCEPT ![j] = NoConn] /\ next_id' = next_id
    BY <1>1, <1>4, <2>2, OneMoves DEF Requeued, OnlyJob
  <2>4. lives[j] \in {"incoming", "reserved", "delayed", "buried"}
    BY <1>4, Lives DEF Requeued, Queued
  <2>5. Lifecycle!Store(j) \/ Lifecycle!Requeue(j) \/ Lifecycle!Promote(j)
    BY <2>3, <2>4 DEF Lifecycle!Store, Lifecycle!Requeue, Lifecycle!Promote,
       Lifecycle!Move, Lifecycle!Queued, Queued, lives, holders
  <2> QED
    BY <2>5 DEF Lifecycle!Next, Lifecycle!Ids, Ids
<1>5. ASSUME NEW j \in Ids, Freed(j) PROVE Lifecycle!Next
  <2>1. next_id' = next_id /\ j < next_id
    BY <1>5, Lives DEF Freed, OnlyJob, Queued
  <2>2. LifeOf(j)' = "deleted" /\ q'.job[j].reserver = NoConn
    BY <1>5, <2>1 DEF Freed, Becomes, LifeOf
  <2>3. /\ lives' = [lives EXCEPT ![j] = "deleted"]
        /\ holders' = [holders EXCEPT ![j] = NoConn]
    BY <1>1, <1>5, <2>2, OneMoves DEF Freed, OnlyJob
  <2>4. lives[j] \in Queued \cup {"incoming", "reserved"}
    BY <1>5, Lives DEF Freed, Queued
  <2>5. Lifecycle!Delete(j)
    BY <2>1, <2>3, <2>4 DEF Lifecycle!Delete, Lifecycle!Move, Lifecycle!Queued, Queued,
       lives, holders
  <2> QED
    BY <2>5 DEF Lifecycle!Next, Lifecycle!Ids, Ids
<1>6. ASSUME NEW j \in Ids, NEW c \in Conns, Taken(j, c) PROVE Lifecycle!Next
  <2>1. LifeOf(j)' = "reserved" /\ q'.job[j].reserver = c
    BY <1>6 DEF Taken, Becomes, LifeOf
  <2>2. /\ lives' = [lives EXCEPT ![j] = "reserved"]
        /\ holders' = [holders EXCEPT ![j] = c] /\ next_id' = next_id
    BY <1>1, <1>6, <2>1, OneMoves DEF Taken, OnlyJob
  <2>3. lives[j] \in Queued
    BY <1>6, Lives DEF Taken
  <2>4. Lifecycle!Reserve(j, c)
    BY <2>2, <2>3 DEF Lifecycle!Reserve, Lifecycle!Move, Lifecycle!Queued, Queued,
       lives, holders
  <2> QED
    BY <2>4 DEF Lifecycle!Next, Lifecycle!Ids, Ids
<1>7. ASSUME NEW j \in Ids, Touched(j) PROVE UNCHANGED <<lives, holders, next_id>>
  <2>1. LifeOf(j)' = "reserved" /\ LifeOf(j) = "reserved"
    BY <1>7 DEF Touched, Becomes, LifeOf
  <2>2. /\ lives' = [lives EXCEPT ![j] = "reserved"]
        /\ holders' = [holders EXCEPT ![j] = q.job[j].reserver] /\ next_id' = next_id
    BY <1>1, <1>7, <2>1, OneMoves DEF Touched, OnlyJob, Becomes
  <2>3. lives[j] = "reserved" /\ holders[j] = q.job[j].reserver
    BY <2>1 DEF lives, holders
  <2>4. lives = [lives EXCEPT ![j] = lives[j]] /\ holders = [holders EXCEPT ![j] = holders[j]]
    BY DEF lives, holders
  <2> QED
    BY <2>2, <2>3, <2>4
<1> QED
  BY <1>1, <1>2, <1>3, <1>4, <1>5, <1>6, <1>7 DEF Kind, Quiet, Promotes, ConnKind,
     Answered, Uploads, Begins, Waits, Looks, Stops, Closes, Rescheduled, Reserves,
     Hands, Loses

\* The server implements JobLifecycle: ids are given in order and never again,
\* every step of every handler and timer moves at most one job, along one edge
\* of its life, and a deleted job never returns.
THEOREM LifecycleImplemented ==
    ASSUME ~WalMayFail
    PROVE  Spec => ImplementsLifecycle
<1>1. Init => Lifecycle!Init
  <2>1. SUFFICES ASSUME Init PROVE Lifecycle!Init
    OBVIOUS
  <2>2. next_id = 1 /\ \A j \in Ids : q.job[j] = FreeJob
    BY <2>1 DEF Init
  <2>3. \A j \in Ids : LifeOf(j) = "none" /\ q.job[j].reserver = NoConn
    BY <2>2 DEF LifeOf, FreeJob, Ids
  <2> QED
    BY <2>2, <2>3 DEF Lifecycle!Init, Lifecycle!Ids, Ids
<1>2. SInv /\ SInv' /\ [Next]_vars => [Lifecycle!Next]_(Lifecycle!lifeVars)
  <2>1. CASE UNCHANGED vars
    BY <2>1 DEF vars, Lifecycle!lifeVars, LifeOf
  <2>2. SInv /\ SInv' /\ Next => [Lifecycle!Next]_(Lifecycle!lifeVars)
    BY LifecycleStep DEF Lifecycle!lifeVars, lives, holders
  <2> QED
    BY <2>1, <2>2
<1>3. ImplementsLifecycle <=> Lifecycle!Init /\ [][Lifecycle!Next]_(Lifecycle!lifeVars)
  BY DEF ImplementsLifecycle, Lifecycle!Spec
<1> QED
  BY <1>1, <1>2, <1>3, SInvariance, PTL DEF Spec

=============================================================================
