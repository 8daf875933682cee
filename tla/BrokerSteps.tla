------------------------------ MODULE BrokerSteps ------------------------------
(***************************************************************************)
(* What one step of the server does, for the proofs about waiting          *)
(* connections, replies, reservations and the life of a job.               *)
(*                                                                         *)
(* There are some thirty actions but only a dozen kinds of step: a command *)
(* is answered, a job is handed over, a reservation is taken back, and so  *)
(* on.  Every action is shown to be a step of one kind (lemma Kinds); the  *)
(* invariants and the action properties are then proved kind by kind.      *)
(* Because every job is in the place its record names (JobPlacement, lemma *)
(* Invariance of BrokerProofs), the kinds speak of the jobs' records and   *)
(* not of the containers.                                                  *)
(***************************************************************************)
EXTENDS BrokerProofs

-----------------------------------------------------------------------------
(* The invariant                                                           *)

Queued == {"ready", "delayed", "buried"}

\* The connection that kick_jobs or connclose works for is in the middle of a
\* command, or half closed.
Busy ==
    /\ task.op = "kick" => conn[task.conn].state = "want_command"
    /\ task.op = "close" => conn[task.conn].state = "closing"

\* Only a connection that writes a reply has a job to write.
OutOnlyWhenSending ==
    \A c \in Conns : conn[c].state \notin {"send_word", "send_job"} =>
                        conn[c].out_job = Nil

\* conn_timeout is at work on c.
InTimeout(c) == task.op \in {"timeout", "resched"} /\ task.conn = c

TimedWait(c) == conn[c].waiting /\ conn[c].pending_timeout >= 0

ArmedConn(c) ==
    LET j == connsoonestjob(q, c, conn[c])
    IN  /\ conn[c].in_conns
        /\ conn[c].tickat <= conn[c].until
        /\ j # Nil => conn[c].tickat <= q.job[j].deadline_at - SafetyMargin

\* WaiterArmed at every step, but for the connection conn_timeout works on.
Armed == \A c \in Conns : TimedWait(c) /\ ~InTimeout(c) => ArmedConn(c)

\* What the invariants of this module need besides IInv.
SInv ==
    /\ IInv
    /\ WaitingSetsAgree
    /\ Busy
    /\ OutOnlyWhenSending
    /\ OutJobSafe
    /\ Armed
    /\ NoMissedHandoff

-----------------------------------------------------------------------------
(* The kinds of step                                                       *)

\* What happens to the jobs.
NoJob == q'.job = q.job /\ next_id' = next_id
OnlyJob(j) == next_id' = next_id /\ \A k \in Ids \ {j} : q'.job[k] = q.job[k]
Becomes(j, st, c) == q'.job[j].state = st /\ q'.job[j].reserver = c

Made ==
    /\ next_id \in Ids /\ next_id' = next_id + 1
    /\ \A k \in Ids \ {next_id} : q'.job[k] = q.job[k]
    /\ Becomes(next_id, "invalid", NoConn)

Requeued(j) ==
    /\ OnlyJob(j)
    /\ q.job[j].state \in {"invalid", "reserved", "delayed", "buried"}
    /\ \E st \in Queued : Becomes(j, st, NoConn)

Freed(j) ==
    /\ OnlyJob(j)
    /\ q.job[j].state \in {"invalid", "reserved"} \cup Queued
    /\ Becomes(j, "none", NoConn)

Touched(j) ==
    /\ OnlyJob(j) /\ q.job[j].state = "reserved"
    /\ Becomes(j, "reserved", q.job[j].reserver)

Taken(j, c) ==
    /\ OnlyJob(j) /\ q.job[j].state \in Queued
    /\ Becomes(j, "reserved", c)

\* What happens to the connections.
Alone(c) == \A d \in Conns \ {c} : conn'[d] = conn[d]
SameWait(c) == conn'[c].waiting = conn[c].waiting /\ waiting_conns' = waiting_conns

Unlisted(c) ==
    /\ conn'[c].waiting = FALSE
    /\ waiting_conns' = IF conn[c].waiting
                        THEN Delisted(waiting_conns, c, conn[c].watch)
                        ELSE waiting_conns

Quiet == conn' = conn /\ waiting_conns' = waiting_conns /\ NoJob

Promotes(j) ==
    /\ conn' = conn /\ waiting_conns' = waiting_conns
    /\ q.job[j].state \in {"delayed", "buried"} /\ Requeued(j)

\* A command of c, or the end of an upload, is answered with a line.
Answered(c) ==
    /\ conn[c].state \in {"want_command", "want_data"}
    /\ conn'[c].state = "send_word" /\ conn'[c].out_job = conn[c].out_job
    /\ SameWait(c)
    /\ \/ NoJob
       \/ \E j \in Ids : /\ Requeued(j) \/ Freed(j) \/ Touched(j)
                         /\ q.job[j].state = "reserved" =>
                                /\ q.job[j].reserver = c
                                /\ conn[c].state = "want_command"

Uploads(c) ==
    /\ conn[c].state = "want_command" /\ conn'[c].state = "want_data"
    /\ conn'[c].out_job = conn[c].out_job
    /\ SameWait(c) /\ conn'[c].watch = conn[c].watch
    /\ Made

\* A connection is accepted, has written its reply, or is gone.
Begins(c) ==
    /\ conn[c].state \in {"closed", "closing", "send_word", "send_job"}
    /\ conn'[c].state \in {"want_command", "closed"}
    /\ conn'[c].out_job = Nil /\ conn'[c].waiting = FALSE
    /\ waiting_conns' = waiting_conns
    /\ NoJob

Waits(c) ==
    /\ conn[c].state = "want_command" /\ conn'[c].state = "wait"
    /\ conn'[c].waiting = TRUE /\ conn'[c].watch = conn[c].watch
    /\ conn'[c].out_job = conn[c].out_job
    /\ waiting_conns' = Enlisted(waiting_conns, c, conn[c].watch)
    /\ TimedWait(c)' => ArmedConn(c)'
    /\ NoJob

Reserves(c, j) ==
    /\ conn[c].state = "want_command" /\ conn'[c].state = "send_job"
    /\ conn'[c].out_job = j /\ SameWait(c)
    /\ Taken(j, c)

\* process_queue gives c the best of the jobs that are waited for.
Hands(c, j) ==
    /\ conn[c].state = "wait" /\ conn'[c].state = "send_job"
    /\ conn'[c].out_job = j /\ Unlisted(c)
    /\ Taken(j, c)
    /\ \A k \in Awaited \ {j} : job_pri_less(q, j, k)

Looks(c) ==
    /\ conn[c].state = "want_command" /\ conn'[c].state = "send_job"
    /\ conn'[c].out_job = Copy /\ SameWait(c)
    /\ NoJob

Stops(c) ==
    /\ conn'[c].state = "send_word" /\ conn'[c].out_job = conn[c].out_job
    /\ Unlisted(c)
    /\ NoJob

Closes(c) ==
    /\ conn'[c].state = "closing" /\ conn'[c].out_job = Nil /\ Unlisted(c)
    /\ NoJob \/ \E j \in Ids : Freed(j) /\ q.job[j].state = "invalid"

\* What job_copy may return.
Copies == {Copy} \cup IF CopyMayFail THEN {NoCopy} ELSE {}

\* A timeout or the close of c takes job j from it.
Loses(c, j) ==
    /\ conn'[c].state = conn[c].state /\ conn'[c].watch = conn[c].watch
    /\ SameWait(c)
    /\ conn'[c].out_job \in IF conn[c].out_job = j THEN Copies ELSE {conn[c].out_job}
    /\ q.job[j].state = "reserved" /\ q.job[j].reserver = c
    /\ \/ InTimeout(c)' /\ q.job[j].deadline_at < clock
       \/ conn[c].state = "closing"
    /\ Requeued(j)

Rescheduled(c) ==
    /\ conn'[c].state = conn[c].state /\ conn'[c].watch = conn[c].watch
    /\ conn'[c].out_job = conn[c].out_job
    /\ SameWait(c)
    /\ InTimeout(c)' \/ ~TimedWait(c)'
    /\ NoJob

ConnKind(c) ==
    \/ Answered(c) \/ Uploads(c) \/ Begins(c) \/ Waits(c) \/ Looks(c)
    \/ Stops(c) \/ Closes(c) \/ Rescheduled(c)
    \/ \E j \in Ids : Reserves(c, j) \/ Hands(c, j) \/ Loses(c, j)

\* Nothing gets ready, waits or is unpaused unless process_queue runs; when
\* it ends, no unpaused tube has both a ready job and a waiting connection.
Calmer ==
    /\ ~pq
    /\ \A t \in Tubes : pause[t] => pause'[t]
    /\ \A t \in Tubes : waiting_conns'[t] \subseteq waiting_conns[t]
    /\ \A j \in Ids : q'.job[j].state = "ready" => q'.job[j] = q.job[j]

Drained ==
    /\ Awaited = {} /\ NoJob /\ waiting_conns' = waiting_conns
    /\ \A t \in Tubes : pause'[t] = (pause[t] /\ ~Unpaused(t))

HandsOn == pq' \/ Calmer \/ Drained

\* conn_timeout leaves c only when c no longer waits with a timeout.
TimerKept == \A c \in Conns : InTimeout(c) => InTimeout(c)' \/ ~TimedWait(c)'

Kind ==
    /\ Busy' /\ HandsOn /\ TimerKept /\ clock' >= clock
    /\ \/ Quiet
       \/ \E j \in Ids : Promotes(j)
       \/ \E c \in Conns : Alone(c) /\ ConnKind(c)

-----------------------------------------------------------------------------
(* The operators of Broker, seen from a connection and from a job          *)

\* connsched writes tickat, in_conns and soonest_job, and nothing else.
LEMMA SchedKeeps ==
    ASSUME NEW s \in Store, NEW c \in Conns, NEW cr \in ConnRec
    PROVE  LET r == connsched(s, c, cr)
           IN  /\ r.state = cr.state /\ r.waiting = cr.waiting
               /\ r.watch = cr.watch /\ r.out_job = cr.out_job
               /\ r.pending_timeout = cr.pending_timeout /\ r.until = cr.until
               /\ r.soonest_job = IF s.reserved_jobs[c] = <<>> THEN cr.soonest_job
                                  ELSE connsoonestjob(s, c, cr)
<1> DEFINE r == IF s.reserved_jobs[c] = <<>> THEN cr
                ELSE [cr EXCEPT !.soonest_job = connsoonestjob(s, c, cr)]
           ts == TickTimes(s, c, cr)
           m == CHOOSE t \in ts : \A u \in ts : t <= u
<1>1. /\ r.state = cr.state /\ r.waiting = cr.waiting
      /\ r.watch = cr.watch /\ r.out_job = cr.out_job
      /\ r.pending_timeout = cr.pending_timeout /\ r.until = cr.until
      /\ r.soonest_job = IF s.reserved_jobs[c] = <<>> THEN cr.soonest_job
                         ELSE connsoonestjob(s, c, cr)
      /\ DOMAIN r = DOMAIN cr
  BY DEF ConnRec
<1>2. connsched(s, c, cr) = IF ts = {} THEN [r EXCEPT !.tickat = 0, !.in_conns = FALSE]
                            ELSE [r EXCEPT !.tickat = m, !.in_conns = TRUE]
  BY DEF connsched
<1>3. DOMAIN cr = {"state", "use", "watch", "waiting", "pending_timeout",
                   "soonest_job", "tickat", "in_conns", "in_job", "out_job",
                   "reply", "until"}
  BY DEF ConnRec
<1> HIDE DEF r, ts, m
<1> QED
  BY <1>1, <1>2, <1>3

\* reply adds the line and the state.
LEMMA ReplyKeeps ==
    ASSUME NEW s \in Store, NEW c \in Conns, NEW cr \in ConnRec, NEW msg, NEW st
    PROVE  LET r == reply(s, c, cr, msg, st)
           IN  /\ r.state = st /\ r.waiting = cr.waiting /\ r.watch = cr.watch
               /\ r.out_job = cr.out_job /\ r.pending_timeout = cr.pending_timeout
<1> DEFINE n == connsched(s, c, cr)
<1>1. /\ n.waiting = cr.waiting /\ n.watch = cr.watch /\ n.out_job = cr.out_job
      /\ n.pending_timeout = cr.pending_timeout
  BY SchedKeeps
<1>3. "state" \in DOMAIN n /\ "reply" \in DOMAIN n
  BY DEF connsched, ConnRec
<1>4. reply(s, c, cr, msg, st) = [n EXCEPT !.reply = msg, !.state = st]
  BY DEF reply
<1> HIDE DEF n
<1> QED
  BY <1>1, <1>3, <1>4

\* Where bury_job and enqueue_job leave a job.
LEMMA JobEnds ==
    ASSUME NEW s \in Store, NEW j \in Ids, NEW d \in Nat, clock \in Nat
    PROVE  /\ bury_job(s, j).job[j].state = "buried"
           /\ bury_job(s, j).job[j].reserver = NoConn
           /\ enqueue_job(s, j, d).job[j].state \in {"ready", "delayed"}
           /\ enqueue_job(s, j, d).job[j].reserver = NoConn
<1>1. ASSUME NEW x \in Store
      PROVE  /\ bury_job(x, j).job[j].state = "buried"
             /\ bury_job(x, j).job[j].reserver = NoConn
  <2> DEFINE e == [x.job[j] EXCEPT !.state = "buried", !.reserver = NoConn]
  <2>1. bury_job(x, j).job = [x.job EXCEPT ![j] = e]
    BY DEF bury_job, Count, Store
  <2>2. x.job \in [Ids -> JobRec] /\ x.job[j] \in JobRec
    BY DEF Store
  <2>3. e.state = "buried" /\ e.reserver = NoConn
    BY <2>2 DEF JobRec
  <2> HIDE DEF e
  <2> QED
    BY <2>1, <2>2, <2>3
<1>2. ASSUME NEW x \in Store
      PROVE  /\ EnqueueReady(x, j).job[j].state = "ready"
             /\ EnqueueReady(x, j).job[j].reserver = x.job[j].reserver
             /\ EnqueueDelayed(x, j).job[j].state = "delayed"
             /\ EnqueueDelayed(x, j).job[j].reserver = x.job[j].reserver
  <2> DEFINE e == [x.job[j] EXCEPT !.state = "ready"]
             f == [x.job[j] EXCEPT !.state = "delayed"]
  <2>1. /\ EnqueueReady(x, j).job = [x.job EXCEPT ![j] = e]
        /\ EnqueueDelayed(x, j).job = [x.job EXCEPT ![j] = f]
    BY DEF EnqueueReady, EnqueueDelayed, Count, Store
  <2>2. x.job \in [Ids -> JobRec] /\ x.job[j] \in JobRec
    BY DEF Store
  <2>3. /\ e.state = "ready" /\ e.reserver = x.job[j].reserver
        /\ f.state = "delayed" /\ f.reserver = x.job[j].reserver
    BY <2>2 DEF JobRec
  <2> HIDE DEF e, f
  <2> QED
    BY <2>1, <2>2, <2>3
<1>3. Stamp(s, j, d) \in Store /\ Stamp(s, j, d).job[j].reserver = NoConn
  <2> DEFINE v == IF d = 0 THEN s.job[j].deadline_at ELSE clock + d
             e == [s.job[j] EXCEPT !.reserver = NoConn, !.deadline_at = v]
  <2>1. Stamp(s, j, d).job = [s.job EXCEPT ![j] = e]
    BY DEF Stamp, Store
  <2>2. s.job \in [Ids -> JobRec] /\ s.job[j] \in JobRec
    BY DEF Store
  <2>3. e.reserver = NoConn
    BY <2>2 DEF JobRec
  <2> HIDE DEF e
  <2> QED
    BY <2>1, <2>2, <2>3, EnqueueType
<1> QED
  BY <1>1, <1>2, <1>3 DEF enqueue_job

\* The job is queued, and ready only if process_queue runs.
Landed(r, j) ==
    /\ r.q.job[j].state \in Queued /\ r.q.job[j].reserver = NoConn
    /\ r.pq = TRUE \/ r.q.job[j].state = "buried"

\* enqueue_job with the fall back on bury_job: only a job for which
\* process_queue runs gets ready.
LEMMA EnqueueOrBuryEnds ==
    ASSUME NEW s \in Store, NEW j \in Ids, NEW d \in Nat, NEW u, clock \in Nat,
           Floating(s, j), ~s.wal_use, NEW r \in EnqueueOrBury(s, j, d, u)
    PROVE  Landed(r, j)
<1>1. CASE r = [q |-> enqueue_job(s, j, d), pq |-> TRUE, ok |-> TRUE]
  BY <1>1, JobEnds DEF Queued, Landed
<1>2. ASSUME NEW f \in EnqueueFailures(s, j, d, u),
             r = [q |-> bury_job(f, j), pq |-> FALSE, ok |-> FALSE]
      PROVE  r.q.job[j].state = "buried" /\ r.q.job[j].reserver = NoConn
  <2>1. Near(enqueue_job(s, j, d), s, j)
    BY EnqueueWhole
  <2>2. f = Stamp(s, j, d)
    BY <1>2, <2>1 DEF EnqueueFailures, WalFailed, Near
  <2> QED
    BY <1>2, <2>2, StampFloats, JobEnds
<1> QED
  BY <1>1, <1>2 DEF EnqueueOrBury, Queued, Landed

\* The same for kick_buried_job and kick_delayed_job.
LEMMA KickEnds ==
    ASSUME NEW s \in Store, NEW j \in Ids, clock \in Nat, Whole(s), ~s.wal_use,
           NEW r,
           \/ s.job[j].state = "buried" /\ r \in kick_buried_job(s, j)
           \/ s.job[j].state = "delayed" /\ r \in kick_delayed_job(s, j)
    PROVE  Landed(r, j)
<1>0. Refused(s) = {}
  BY DEF Refused
<1>1. CASE s.job[j].state = "buried" /\ r \in kick_buried_job(s, j)
  <2> DEFINE x == remove_buried_job(s, j)
  <2>1. x \in Store /\ Floating(x, j) /\ Near(x, s, j)
    BY <1>1, StoreSteps, BuriedFloats, RemoveNear
  <2>2. ~x.wal_use /\ r \in EnqueueOrBury(x, j, 0, TRUE)
    BY <2>1, <1>0, <1>1 DEF Near, kick_buried_job
  <2> QED
    BY <2>1, <2>2, EnqueueOrBuryEnds
<1>2. CASE s.job[j].state = "delayed" /\ r \in kick_delayed_job(s, j)
  <2> DEFINE x == remove_delayed_job(s, j)
             d == s.job[j].delay
  <2>1. x \in Store /\ Floating(x, j) /\ Near(x, s, j) /\ d \in Nat
    BY <1>2, StoreSteps, DelayedFloats, RemoveNear, JobOf DEF JobRec
  <2>2. ~x.wal_use
    BY <2>1 DEF Near
  <2> HIDE DEF x
  <2>3. CASE r = [q |-> enqueue_job(x, j, 0), pq |-> TRUE, ok |-> TRUE]
    BY <2>1, <2>3, JobEnds DEF Queued, Landed
  <2>4. ASSUME NEW f \in EnqueueFailures(x, j, 0, TRUE),
               NEW b \in EnqueueOrBury(f, j, d, FALSE),
               r = [b EXCEPT !.ok = FALSE]
        PROVE  Landed(r, j)
    <3>1. Near(enqueue_job(x, j, 0), x, j)
      BY <2>1, EnqueueWhole
    <3>2. f = Stamp(x, j, 0)
      BY <2>2, <2>4, <3>1 DEF EnqueueFailures, WalFailed, Near
    <3>3. f \in Store /\ Floating(f, j) /\ Near(f, x, j)
      BY <2>1, <3>2, StampFloats
    <3>4. ~f.wal_use
      BY <2>2, <3>3 DEF Near
    <3>5. Landed(b, j)
      BY <2>1, <3>3, <3>4, EnqueueOrBuryEnds
    <3>6. r.q = b.q /\ r.pq = b.pq
      BY <2>4 DEF EnqueueOrBury
    <3> QED
      BY <3>5, <3>6 DEF Landed
  <2> QED
    BY <1>0, <1>2, <2>3, <2>4 DEF kick_delayed_job, x
<1> QED
  BY <1>1, <1>2

\* Where conn_reserve_job leaves a job, and the record of its connection.
LEMMA ReserveEnds ==
    ASSUME NEW s \in Store, NEW j \in Ids, NEW c \in Conns
    PROVE  /\ ReserveFor(s, c, j).job[j].state = "reserved"
           /\ ReserveFor(s, c, j).job[j].reserver = c
           /\ \A cr \in ConnRec :
                LET g == Granted(ReserveFor(s, c, j), cr, j)
                IN  g.state = cr.state /\ g.waiting = cr.waiting /\ g.watch = cr.watch
<1> DEFINE v == clock + s.job[j].ttr
           e == [s.job[j] EXCEPT !.deadline_at = v, !.state = "reserved",
                                 !.reserver = c]
<1>1. ReserveFor(s, c, j).job = [s.job EXCEPT ![j] = e]
  BY DEF ReserveFor, Count, Store
<1>2. s.job \in [Ids -> JobRec] /\ s.job[j] \in JobRec
  BY DEF Store
<1>3. e.state = "reserved" /\ e.reserver = c
  BY <1>2 DEF JobRec
<1> HIDE DEF e
<1>4. \A cr \in ConnRec :
        LET g == Granted(ReserveFor(s, c, j), cr, j)
        IN  g.state = cr.state /\ g.waiting = cr.waiting /\ g.watch = cr.watch
  BY DEF Granted, ConnRec
<1> QED
  BY <1>1, <1>2, <1>3, <1>4

-----------------------------------------------------------------------------
(* Every action is a step of one kind                                      *)

\* While the thread reads from a socket it is in no loop.
LEMMA ServingFree ==
    ASSUME NEW c, Serving(c)
    PROVE  ~pq /\ task.op \notin {"timeout", "resched", "close", "kick"}
BY DEF Serving, Listening

\* Outside conn_timeout no timer is in the thread's hands.
LEMMA TimerFree ==
    ASSUME task.op \notin {"timeout", "resched"}
    PROVE  TimerKept
BY DEF TimerKept, InTimeout

\* Between two handlers, or with more input to read, no loop of kick_jobs or
\* connclose is at work.
LEMMA TickBusy ==
    ASSUME task' = Tick \/ \E c : task' = [Socknext EXCEPT !.op = "dispatch", !.conn = c]
    PROVE  Busy'
<1>1. task'.op \in {"tick", "dispatch"}
  BY DEF Tick, Socknext
<1> QED
  BY <1>1 DEF Busy

\* A step after which no job is newly ready has nothing to hand on.
LEMMA CalmHandsOn ==
    ASSUME ~pq, \A t \in Tubes : pause[t] => pause'[t],
           \A t \in Tubes : waiting_conns'[t] \subseteq waiting_conns[t],
           NoJob \/ \E j \in Ids : OnlyJob(j) /\ q'.job[j].state # "ready"
    PROVE  HandsOn
BY DEF HandsOn, Calmer, NoJob, OnlyJob

\* An answer with a line, seen from the connection.
LEMMA AnswerLine ==
    ASSUME IInv, NEW c \in Conns, NEW cr \in ConnRec, NEW s \in Store, NEW msg,
           cr.waiting = conn[c].waiting, cr.out_job = conn[c].out_job,
           Answer(s, c, cr, msg), waiting_conns' = waiting_conns
    PROVE  /\ Alone(c) /\ conn'[c].state = "send_word" /\ SameWait(c)
           /\ conn'[c].out_job = conn[c].out_job
           /\ task' = Tick
<1> DEFINE n == reply(s, c, cr, msg, "send_word")
<1>1. n.state = "send_word" /\ n.waiting = cr.waiting /\ n.out_job = cr.out_job
  BY ReplyKeeps
<1>2. conn' = [conn EXCEPT ![c] = n] /\ task' = Tick
  BY DEF Answer, reply_msg, EndHandler
<1> HIDE DEF n
<1>3. conn'[c] = n /\ Alone(c)
  BY <1>2, Facts DEF Alone
<1> QED
  BY <1>1, <1>2, <1>3 DEF SameWait

\* A command that moves job j.
LEMMA AnsweredJob ==
    ASSUME SInv, NEW c \in Conns, NEW cr \in ConnRec, NEW j \in Ids,
           Serving(c), conn[c].state \in {"want_command", "want_data"},
           q' \in Store, cr.waiting = conn[c].waiting,
           cr.out_job = conn[c].out_job, Answer(q', c, cr, "WORD"), ServerFrame,
           Requeued(j) \/ Freed(j) \/ Touched(j),
           q.job[j].state = "reserved" =>
                q.job[j].reserver = c /\ conn[c].state = "want_command",
           pq' \/ q'.job[j].state # "ready"
    PROVE  Kind
<1>1. /\ Alone(c) /\ conn'[c].state = "send_word" /\ SameWait(c)
      /\ conn'[c].out_job = conn[c].out_job /\ task' = Tick
  BY AnswerLine DEF SInv, ServerFrame
<1>2. Busy' /\ TimerKept
  BY <1>1, ServingFree, TimerFree, TickBusy
<1>3. HandsOn
  <2>1. OnlyJob(j)
    BY DEF Requeued, Freed, Touched
  <2>2. CASE pq'
    BY <2>2 DEF HandsOn
  <2>3. CASE q'.job[j].state # "ready"
    BY <2>1, <2>3, ServingFree, CalmHandsOn DEF ServerFrame
  <2> QED
    BY <2>2, <2>3
<1>4. clock' >= clock
  BY Facts DEF ServerFrame, SInv, RestOK
<1>5. Answered(c)
  BY <1>1 DEF Answered
<1> QED
  BY <1>1, <1>2, <1>3, <1>4, <1>5 DEF Kind, ConnKind

\* A command that moves none.
LEMMA AnsweredStill ==
    ASSUME SInv, NEW c \in Conns, NEW cr \in ConnRec, NEW msg,
           ~pq, task.op \notin {"timeout", "resched"},
           conn[c].state = "want_command",
           q' = q, cr.waiting = conn[c].waiting, cr.out_job = conn[c].out_job,
           Answer(q, c, cr, msg), waiting_conns' = waiting_conns,
           next_id' = next_id, clock' = clock,
           \A t \in Tubes : pause[t] => pause'[t]
    PROVE  Kind
<1>1. /\ Alone(c) /\ conn'[c].state = "send_word" /\ SameWait(c)
      /\ conn'[c].out_job = conn[c].out_job /\ task' = Tick
  BY AnswerLine, Facts DEF SInv
<1>2. Busy' /\ TimerKept
  BY <1>1, TimerFree, TickBusy
<1>3. NoJob
  BY DEF NoJob
<1>4. HandsOn
  BY <1>3, CalmHandsOn
<1>5. clock' >= clock
  BY Facts DEF SInv, RestOK
<1>6. Answered(c)
  BY <1>1, <1>3 DEF Answered
<1> QED
  BY <1>1, <1>2, <1>4, <1>5, <1>6 DEF Kind, ConnKind

\* job_free leaves nothing under the id.
LEMMA FreedJob ==
    ASSUME NEW s \in Store, NEW j \in Ids, Floating(s, j)
    PROVE  /\ job_free(s, j) \in Store /\ Near(job_free(s, j), s, j)
           /\ job_free(s, j).job[j] = FreeJob
<1>1. job_free(s, j).job[j] = FreeJob
  BY DEF job_free, Store
<1> QED
  BY <1>1, StoreSteps, FreeWhole

\* put starts an upload.
LEMMA PutKind ==
    ASSUME SInv, NEW c \in Conns, NEW p \in Pris, NEW d \in Delays,
           NEW ttr \in Ttrs, put(c, p, d, ttr)
    PROVE  Kind
<1> DEFINE j == next_id
           e == make_job(p, d, ttr, conn[c].use)
<1>1. j \in Ids /\ q \in Store /\ IInv /\ Serving(c) /\ conn[c].state = "want_command"
  BY Facts DEF put, SInv, Command
<1>2. e.state = "invalid" /\ e.reserver = NoConn
  <2>1. p \in Nat /\ d \in Nat /\ ttr \in Nat /\ conn[c].use \in Tubes
    BY <1>1, Facts, ConstantsOK
  <2> QED
    BY <2>1, NewJobType
<1>3. q' = [q EXCEPT !.job[j] = e]
  BY DEF put
<1> HIDE DEF e
<1>4. q'.job[j] = e /\ \A k \in Ids \ {j} : q'.job[k] = q.job[k]
  BY <1>1, <1>3 DEF Store
<1>5. Made
  BY <1>1, <1>2, <1>4 DEF Made, Becomes, put
<1>6. /\ Alone(c) /\ conn'[c].state = "want_data"
      /\ conn'[c].out_job = conn[c].out_job
      /\ conn'[c].waiting = conn[c].waiting /\ conn'[c].watch = conn[c].watch
  <2>1. conn' = [conn EXCEPT ![c].in_job = j, ![c].state = "want_data"]
    BY DEF put
  <2>2. conn[c] \in ConnRec /\ conn \in [Conns -> ConnRec]
    BY <1>1, Facts
  <2>3. Alone(c)
    BY <2>1, <2>2 DEF Alone
  <2> QED
    BY <2>1, <2>2, <2>3 DEF ConnRec
<1>7. Uploads(c)
  BY <1>1, <1>5, <1>6 DEF Uploads, SameWait, put
<1>8. Busy' /\ TimerKept
  BY <1>1, ServingFree, TimerFree, TickBusy DEF put, EndOrGoOn, EndHandler
<1>9. HandsOn
  <2>1. ~pq /\ pause' = pause /\ waiting_conns' = waiting_conns
    BY <1>1, ServingFree DEF put
  <2>2. \A k \in Ids : q'.job[k].state = "ready" => q'.job[k] = q.job[k]
    BY <1>2, <1>4
  <2> QED
    BY <2>1, <2>2 DEF HandsOn, Calmer
<1>10. clock' >= clock
  BY <1>1, Facts DEF put, RestOK
<1> QED
  BY <1>6, <1>7, <1>8, <1>9, <1>10 DEF Kind, ConnKind

\* The end of the upload is answered.
LEMMA IncomingKind ==
    ASSUME SInv, NEW c \in Conns, enqueue_incoming_job(c)
    PROVE  Kind
<1> DEFINE j == conn[c].in_job
           cr == [conn[c] EXCEPT !.in_job = Nil]
<1>0. IInv /\ Serving(c) /\ conn[c].state = "want_data"
  BY DEF SInv, enqueue_incoming_job
<1>1. /\ j \in Ids /\ q.job[j].state = "invalid" /\ q \in Store /\ Whole(q)
      /\ ~q.wal_use /\ clock \in Nat
  BY <1>0, Facts DEF IInv, Owners, ConnRec, RestOK
<1>2. Floating(q, j) /\ q.job[j].delay \in Nat
  BY <1>1, LooseFloats, JobOf DEF JobRec
<1>3. cr \in ConnRec /\ cr.waiting = conn[c].waiting /\ cr.out_job = conn[c].out_job
  BY <1>0, Facts DEF ConnRec
<1>4. Answer(q', c, cr, "WORD") /\ ServerFrame
  BY DEF enqueue_incoming_job
<1> HIDE DEF cr
<1>5. CASE q' = job_free(q, j)
  <2>1. q' \in Store /\ Near(q', q, j) /\ q'.job[j] = FreeJob
    BY <1>1, <1>2, <1>5, FreedJob
  <2>2. Freed(j) /\ q'.job[j].state # "ready"
    BY <1>1, <1>4, <2>1 DEF Freed, OnlyJob, Near, Becomes, FreeJob, ServerFrame
  <2> QED
    BY <1>0, <1>1, <1>3, <1>4, <2>1, <2>2, AnsweredJob
<1>6. CASE \E r \in Refused(q) \cup EnqueueOrBury(q, j, q.job[j].delay, TRUE) :
                q' = r.q /\ pq' = r.pq
  <2>1. PICK r \in EnqueueOrBury(q, j, q.job[j].delay, TRUE) : q' = r.q /\ pq' = r.pq
    BY <1>1, <1>6 DEF Refused
  <2>2. /\ q' \in Store /\ Near(q', q, j)
        /\ q'.job[j].state \in Queued /\ q'.job[j].reserver = NoConn
        /\ pq' \/ q'.job[j].state = "buried"
    <3>1. q' \in Store /\ Near(q', q, j)
      BY <1>1, <1>2, <2>1, EnqueueOrBuryGood
    <3>2. Landed(r, j)
      BY <1>1, <1>2, EnqueueOrBuryEnds
    <3> QED
      BY <2>1, <3>1, <3>2 DEF Landed
  <2>3. Requeued(j)
    BY <1>1, <1>4, <2>2 DEF Requeued, OnlyJob, Near, Becomes, ServerFrame
  <2> QED
    BY <1>0, <1>1, <1>3, <1>4, <2>2, <2>3, AnsweredJob
<1> QED
  BY <1>5, <1>6 DEF enqueue_incoming_job

\* c's record without its soonest job waits and writes what it did before.
LEMMA ForgetsKeeps ==
    ASSUME IInv, NEW c \in Conns
    PROVE  /\ Forgets(c) \in ConnRec /\ Forgets(c).state = conn[c].state
           /\ Forgets(c).waiting = conn[c].waiting /\ Forgets(c).watch = conn[c].watch
           /\ Forgets(c).out_job = conn[c].out_job
BY Facts DEF Forgets, ConnRec

\* delete frees the job.
LEMMA DeleteKind ==
    ASSUME SInv, NEW c \in Conns, NEW j \in Ids, delete(c, j)
    PROVE  Kind
<1>0. /\ IInv /\ Serving(c) /\ conn[c].state = "want_command" /\ ServerFrame
      /\ q \in Store /\ Whole(q) /\ ~q.wal_use /\ conn[c] \in ConnRec
  BY Facts DEF SInv, delete, Command
<1>1. ASSUME NEW s \in Store, Floating(s, j), Near(s, q, j), q' = job_free(s, j),
             q.job[j].state \in {"invalid", "reserved"} \cup Queued
      PROVE  q' \in Store /\ Freed(j) /\ q'.job[j].state # "ready"
  <2>1. q' \in Store /\ Near(q', q, j) /\ q'.job[j] = FreeJob
    BY <1>1, FreedJob, NearTrans
  <2> QED
    BY <1>0, <1>1, <2>1 DEF Freed, OnlyJob, Near, Becomes, FreeJob, ServerFrame
<1>2. CASE is_job_reserved_by_conn(c, j) /\ Answer(q', c, Forgets(c), "WORD")
           /\ \E s \in {remove_this_reserved_job(q, c, j)} :
                \E w \in {s} \cup WalFailed(s) : q' = job_free(w, j)
  <2> DEFINE s == remove_this_reserved_job(q, c, j)
  <2>1. /\ s \in Store /\ Floating(s, j) /\ Near(s, q, j) /\ ~s.wal_use
        /\ q.job[j].state = "reserved" /\ q.job[j].reserver = c
    BY <1>0, <1>2, GivenUp
  <2>2. q' = job_free(s, j)
    BY <1>2, <2>1 DEF WalFailed
  <2> HIDE DEF s
  <2>3. q' \in Store /\ Freed(j) /\ q'.job[j].state # "ready"
    BY <1>1, <2>1, <2>2
  <2> QED
    BY <1>0, <1>2, <2>1, <2>3, ForgetsKeeps, AnsweredJob
<1>3. CASE q.job[j].state \in {"ready", "buried", "delayed"}
           /\ Answer(q', c, conn[c], "WORD")
           /\ \E s \in {Unqueue(q, j)} :
                \E w \in {s} \cup WalFailed(s) : q' = job_free(w, j)
  <2> DEFINE s == Unqueue(q, j)
  <2>1. s \in Store /\ Floating(s, j) /\ Near(s, q, j)
    BY <1>0, <1>3, StoreSteps, UnqueueFloats, RemoveNear
  <2>2. q' = job_free(s, j)
    BY <1>0, <1>3, <2>1 DEF WalFailed, Near
  <2> HIDE DEF s
  <2>3. q' \in Store /\ Freed(j) /\ q'.job[j].state # "ready"
    BY <1>1, <1>3, <2>1, <2>2 DEF Queued
  <2> QED
    BY <1>0, <1>3, <2>3, AnsweredJob
<1> QED
  BY <1>2, <1>3 DEF delete

\* A job that was queued again, seen from its record.
LEMMA RequeuedJob ==
    ASSUME NEW j \in Ids, NEW s, NEW r, Near(s, q, j), Near(r.q, s, j),
           Landed(r, j), q' = r.q, pq' = r.pq, next_id' = next_id,
           q.job[j].state \in {"invalid", "reserved", "delayed", "buried"}
    PROVE  Requeued(j) /\ (pq' \/ q'.job[j].state # "ready")
<1>1. OnlyJob(j)
  BY DEF Near, OnlyJob
<1> QED
  BY <1>1 DEF Requeued, Becomes, Landed

\* release queues the job again.
LEMMA ReleaseKind ==
    ASSUME SInv, NEW c \in Conns, NEW j \in Ids, NEW p \in Pris, NEW d \in Delays,
           release(c, j, p, d)
    PROVE  Kind
<1> DEFINE s == remove_this_reserved_job(q, c, j)
           e == [s.job[j] EXCEPT !.pri = p, !.delay = d]
           x == [s EXCEPT !.job[j] = e]
<1>0. IInv /\ Serving(c) /\ conn[c].state = "want_command" /\ ServerFrame
  BY DEF SInv, release, Command
<1>1. /\ s \in Store /\ Floating(s, j) /\ Near(s, q, j) /\ ~s.wal_use
      /\ q.job[j].state = "reserved" /\ q.job[j].reserver = c
  BY <1>0, GivenUp DEF release
<1>2. p \in Nat /\ d \in Nat /\ clock \in Nat
  BY <1>0, ConstantsOK, Facts DEF RestOK
<1>3. e \in JobRec /\ e.reserver = NoConn
  BY <1>1, <1>2, JobOf DEF JobRec, Floating
<1>4. PICK r \in EnqueueOrBury(x, j, d, d > 0) : q' = r.q /\ pq' = r.pq
  BY <1>1 DEF release, Refused
<1> HIDE DEF s, e
<1>5. x \in Store /\ Floating(x, j) /\ Near(x, s, j)
  BY <1>1, <1>3, EditFloats
<1>6. ~x.wal_use
  BY <1>1, <1>5 DEF Near
<1> HIDE DEF x
<1>7. q' \in Store /\ Near(r.q, x, j)
  BY <1>2, <1>4, <1>5, <1>6, EnqueueOrBuryGood
<1>8. Landed(r, j)
  BY <1>2, <1>5, <1>6, EnqueueOrBuryEnds
<1>9. Near(x, q, j)
  BY <1>1, <1>5, NearTrans
<1>10. Requeued(j) /\ (pq' \/ q'.job[j].state # "ready")
  BY <1>0, <1>1, <1>4, <1>7, <1>8, <1>9, RequeuedJob DEF ServerFrame
<1>11. Answer(q', c, Forgets(c), "WORD")
  BY DEF release
<1> QED
  BY <1>0, <1>1, <1>7, <1>10, <1>11, ForgetsKeeps, AnsweredJob

\* bury queues it among the buried.
LEMMA BuryKind ==
    ASSUME SInv, NEW c \in Conns, NEW j \in Ids, NEW p \in Pris, bury(c, j, p)
    PROVE  Kind
<1> DEFINE s == remove_this_reserved_job(q, c, j)
           e == [s.job[j] EXCEPT !.pri = p]
           x == [s EXCEPT !.job[j] = e]
<1>0. IInv /\ Serving(c) /\ conn[c].state = "want_command" /\ ServerFrame
      /\ clock \in Nat
  BY Facts DEF SInv, bury, Command, RestOK
<1>1. /\ s \in Store /\ Floating(s, j) /\ Near(s, q, j) /\ ~s.wal_use
      /\ q.job[j].state = "reserved" /\ q.job[j].reserver = c
  BY <1>0, GivenUp DEF bury
<1>2. p \in Nat
  BY ConstantsOK
<1>3. e \in JobRec /\ e.reserver = NoConn
  BY <1>1, <1>2, JobOf DEF JobRec, Floating
<1>4. \/ q' \in {bury_job(x, j)} \cup WalFailed(bury_job(x, j))
      \/ \E r \in Refused(x) : q' = r.q
  BY DEF bury
<1> HIDE DEF s, e
<1>5. x \in Store /\ Floating(x, j) /\ Near(x, s, j)
  BY <1>1, <1>3, EditFloats
<1> HIDE DEF x
<1>6. bury_job(x, j) \in Store /\ Near(bury_job(x, j), x, j)
  BY <1>5, StoreSteps, BuryWhole
<1>7. q' = bury_job(x, j)
  BY <1>1, <1>4, <1>5, <1>6 DEF Near, WalFailed, Refused
<1>8. q' \in Store /\ Near(q', q, j)
  BY <1>1, <1>5, <1>6, <1>7, NearTrans
<1>9. q'.job[j].state = "buried" /\ q'.job[j].reserver = NoConn
  BY <1>0, <1>5, <1>7, JobEnds
<1>10. Requeued(j) /\ q'.job[j].state # "ready"
  BY <1>0, <1>1, <1>8, <1>9 DEF Requeued, OnlyJob, Near, Becomes, Queued, ServerFrame
<1>11. Answer(q', c, Forgets(c), "WORD")
  BY DEF bury
<1> QED
  BY <1>0, <1>1, <1>8, <1>10, <1>11, ForgetsKeeps, AnsweredJob

\* touch moves the deadline.
LEMMA TouchKind ==
    ASSUME SInv, NEW c \in Conns, NEW j \in Ids, touch(c, j)
    PROVE  Kind
<1> DEFINE v == clock + q.job[j].ttr
           e == [q.job[j] EXCEPT !.deadline_at = v]
<1>0. IInv /\ Serving(c) /\ conn[c].state = "want_command" /\ ServerFrame
  BY DEF SInv, touch, Command
<1>1. /\ q \in Store /\ clock \in Nat /\ q.job[j] \in JobRec
      /\ q.job[j].state = "reserved" /\ q.job[j].reserver = c
  BY <1>0, Facts, JobOf DEF RestOK, touch, is_job_reserved_by_conn
<1>2. v \in Nat
  BY <1>1 DEF JobRec
<1>3. e \in JobRec /\ e.state = "reserved" /\ e.reserver = c
  BY <1>1, <1>2 DEF JobRec
<1>4. q' = [q EXCEPT !.job[j] = e]
  BY DEF touch
<1> HIDE DEF e
<1>5. q' \in Store /\ q'.job[j] = e /\ \A k \in Ids \ {j} : q'.job[k] = q.job[k]
  BY <1>1, <1>3, <1>4 DEF Store
<1>6. Touched(j) /\ q'.job[j].state # "ready"
  BY <1>0, <1>1, <1>3, <1>5 DEF Touched, OnlyJob, Becomes, ServerFrame
<1>7. Answer(q', c, Forgets(c), "WORD")
  BY DEF touch
<1> QED
  BY <1>0, <1>1, <1>5, <1>6, <1>7, ForgetsKeeps, AnsweredJob

\* kick-job queues a buried or delayed job again.
LEMMA KickJobKind ==
    ASSUME SInv, NEW c \in Conns, NEW j \in Ids, kick_job(c, j)
    PROVE  Kind
<1>0. /\ IInv /\ Serving(c) /\ conn[c].state = "want_command" /\ ServerFrame
      /\ q \in Store /\ Whole(q) /\ ~q.wal_use /\ clock \in Nat /\ conn[c] \in ConnRec
  BY Facts DEF SInv, kick_job, Command, RestOK
<1>1. PICK r : /\ \/ q.job[j].state = "buried" /\ r \in kick_buried_job(q, j)
                  \/ q.job[j].state = "delayed" /\ r \in kick_delayed_job(q, j)
               /\ q' = r.q /\ pq' = r.pq
  BY DEF kick_job
<1>2. q' \in Store /\ Near(r.q, q, j)
  BY <1>0, <1>1, KickGood
<1>3. Landed(r, j)
  BY <1>0, <1>1, KickEnds
<1>4. Near(q, q, j) /\ q.job[j].state \in {"buried", "delayed"}
  BY <1>1 DEF Near
<1>5. Requeued(j) /\ (pq' \/ q'.job[j].state # "ready")
  BY <1>0, <1>1, <1>2, <1>3, <1>4, RequeuedJob DEF ServerFrame
<1>6. Answer(q', c, conn[c], "WORD")
  BY DEF kick_job
<1> QED
  BY <1>0, <1>2, <1>4, <1>5, <1>6, AnsweredJob

\* A reply that carries job j.
LEMMA ReplyJobKeeps ==
    ASSUME NEW s \in Store, NEW c \in Conns, NEW cr \in ConnRec, NEW msg,
           NEW j \in Ids \cup {Nil, Copy}
    PROVE  LET r == reply_job(s, c, cr, j, msg)
           IN  /\ r.state = "send_job" /\ r.out_job = j /\ r.waiting = cr.waiting
               /\ r.watch = cr.watch
<1> DEFINE o == [cr EXCEPT !.out_job = j]
<1>1. o \in ConnRec /\ o.out_job = j /\ o.waiting = cr.waiting /\ o.watch = cr.watch
  BY DEF ConnRec
<1>2. reply_job(s, c, cr, j, msg) = reply(s, c, o, msg, "send_job")
  BY DEF reply_job
<1> HIDE DEF o
<1> QED
  BY <1>1, <1>2, ReplyKeeps

\* reserve-job takes the job for c.
LEMMA ReserveJobKind ==
    ASSUME SInv, NEW c \in Conns, NEW j \in Ids, reserve_job(c, j)
    PROVE  Kind
<1> DEFINE x == Unqueue(q, j)
           g == Granted(q', conn[c], j)
           n == reply_job(q', c, g, j, "RESERVED")
<1>0. /\ IInv /\ Serving(c) /\ conn[c].state = "want_command" /\ ServerFrame
      /\ q.job[j].state \in {"ready", "buried", "delayed"}
  BY DEF SInv, reserve_job, Command
<1>1. /\ q \in Store /\ Whole(q) /\ clock \in Nat
      /\ conn[c] \in ConnRec /\ Held(q, c, conn[c])
  BY <1>0, Facts DEF RestOK
<1>2. x \in Store /\ Floating(x, j) /\ Near(x, q, j)
  BY <1>0, <1>1, StoreSteps, UnqueueFloats, RemoveNear
<1>3. q' = ReserveFor(x, c, j)
  BY DEF reserve_job
<1> HIDE DEF x
<1>4. /\ q' \in Store /\ Near(q', q, j) /\ j \in Range(q'.reserved_jobs[c])
      /\ q'.job[j].state = "reserved" /\ q'.job[j].reserver = c
  BY <1>1, <1>2, <1>3, ReserveForType, ReserveWhole, NearTrans, ReserveEnds
<1>5. Held(q', c, conn[c])
  BY <1>0, <1>1, <1>4, HeldNear, NotReserved
<1>6. g \in ConnRec /\ g.waiting = conn[c].waiting
  <2>1. g \in ConnRec
    BY <1>1, <1>4, <1>5, GrantedType
  <2>2. g.waiting = conn[c].waiting
    BY <1>1, <1>2, <1>3, ReserveEnds
  <2> QED
    BY <2>1, <2>2
<1> HIDE DEF g
<1>7. n.state = "send_job" /\ n.out_job = j /\ n.waiting = conn[c].waiting
  BY <1>4, <1>6, ReplyJobKeeps
<1>8. conn' = [conn EXCEPT ![c] = n] /\ task' = Tick /\ pq' = pq
  BY DEF reserve_job, EndHandler, g
<1> HIDE DEF n
<1>9. conn'[c] = n /\ Alone(c)
  BY <1>0, <1>8, Facts DEF Alone
<1>10. Taken(j, c)
  BY <1>0, <1>4 DEF Taken, OnlyJob, Near, Becomes, Queued, ServerFrame
<1>11. Reserves(c, j)
  BY <1>0, <1>7, <1>9, <1>10 DEF Reserves, SameWait, ServerFrame
<1>12. Busy' /\ TimerKept
  BY <1>0, <1>8, ServingFree, TimerFree, TickBusy
<1>13. HandsOn
  BY <1>0, <1>4, <1>10, ServingFree, CalmHandsOn DEF Taken, ServerFrame
<1>14. clock' >= clock
  BY <1>0, <1>1 DEF ServerFrame
<1> QED
  BY <1>9, <1>11, <1>12, <1>13, <1>14 DEF Kind, ConnKind

\* A step of the server that queues a buried or delayed job again.
LEMMA PromotedKind ==
    ASSUME SInv, NEW j \in Ids, NEW s, NEW r, Near(s, q, j), Near(r.q, s, j),
           Landed(r, j), q' = r.q, pq' = r.pq, ServerFrame, conn' = conn,
           q.job[j].state \in {"delayed", "buried"}, ~pq,
           task.op \in {"tick", "kick"}, task'.op = task.op, task'.conn = task.conn
    PROVE  Kind
<1>1. Requeued(j) /\ (pq' \/ q'.job[j].state # "ready")
  BY RequeuedJob DEF ServerFrame
<1>2. HandsOn
  <2>1. CASE pq'
    BY <2>1 DEF HandsOn
  <2>2. CASE q'.job[j].state # "ready"
    BY <1>1, <2>2, CalmHandsOn DEF ServerFrame, Requeued
  <2> QED
    BY <1>1, <2>1, <2>2
<1>3. TimerKept
  BY TimerFree
<1>4. Busy'
  BY DEF Busy, SInv
<1>5. clock' >= clock
  BY Facts DEF ServerFrame, SInv, RestOK
<1>6. Promotes(j)
  BY <1>1 DEF Promotes, ServerFrame
<1> QED
  BY <1>2, <1>3, <1>4, <1>5, <1>6 DEF Kind

\* What kick_jobs finds is a buried or a delayed job.
LEMMA KickableJobs ==
    ASSUME IInv, NEW t \in Tubes, NEW j \in Kickable(t)
    PROVE  /\ j \in Ids
           /\ IF task.buried THEN q.job[j].state = "buried" ELSE q.job[j].state = "delayed"
<1>1. q \in Store /\ Whole(q)
  BY Facts
<1>2. CASE task.buried
  <2>1. j = q.buried[t][1] /\ 1 \in DOMAIN q.buried[t]
    BY <1>2 DEF Kickable
  <2>2. j \in Range(q.buried[t]) /\ q.buried[t] \in Seq(Ids)
    BY <1>1, <2>1 DEF Range, Store
  <2>3. j \in Ids
    BY <2>2, RangeInIds
  <2> QED
    BY <1>1, <1>2, <2>2, <2>3 DEF Whole, Placed
<1>3. CASE ~task.buried
  <2>1. j \in q.delay[t] /\ j \in Ids
    BY <1>1, <1>3 DEF Kickable, Store
  <2> QED
    BY <1>1, <1>3, <2>1 DEF Whole, Placed
<1> QED
  BY <1>2, <1>3

\* The iterations and the end of kick_jobs.
LEMMA KickLoopKinds ==
    ASSUME SInv, kick_jobs \/ kick_end
    PROVE  Kind
<1>1. /\ q \in Store /\ Whole(q) /\ ~q.wal_use /\ clock \in Nat /\ IInv
      /\ task.conn \in Conns /\ conn[task.conn].use \in Tubes
      /\ task \in Task /\ task.op = "kick" /\ ~pq
  BY Facts DEF RestOK, SInv, IInv, TaskServes, kick_jobs, kick_end, Kicking
<1>2. CASE kick_jobs
  <2> DEFINE t == conn[task.conn].use
  <2>1. PICK j \in Kickable(t) :
            \E r \in IF task.buried THEN kick_buried_job(q, j)
                                    ELSE kick_delayed_job(q, j) :
                q' = r.q /\ pq' = r.pq
    BY <1>2 DEF kick_jobs
  <2>2. PICK r \in IF task.buried THEN kick_buried_job(q, j)
                                  ELSE kick_delayed_job(q, j) :
                q' = r.q /\ pq' = r.pq
    BY <2>1
  <2>3. /\ j \in Ids
        /\ IF task.buried THEN q.job[j].state = "buried" ELSE q.job[j].state = "delayed"
    BY <1>1, KickableJobs
  <2>4. Near(r.q, q, j)
    BY <1>1, <2>2, <2>3, KickGood
  <2>5. Landed(r, j)
    BY <1>1, <2>2, <2>3, KickEnds
  <2>6. /\ conn' = conn /\ ServerFrame /\ task'.op = task.op
        /\ task'.conn = task.conn /\ Near(q, q, j)
    BY <1>1, <1>2 DEF kick_jobs, Task, Near
  <2> QED
    BY <1>1, <2>2, <2>3, <2>4, <2>5, <2>6, PromotedKind
<1>3. CASE kick_end
  <2>1. /\ Answer(q, task.conn, conn[task.conn], "WORD") /\ q' = q
        /\ ServerFrame
    BY <1>3 DEF kick_end
  <2>2. /\ next_id' = next_id /\ waiting_conns' = waiting_conns
        /\ clock' = clock /\ conn[task.conn] \in ConnRec /\ pause' = pause
        /\ conn[task.conn].state = "want_command"
    BY <1>1, <2>1, Facts DEF ServerFrame, SInv, Busy
  <2> QED
    BY <1>1, <2>1, <2>2, AnsweredStill
<1> QED
  BY <1>2, <1>3

\* The start of kick.
LEMMA KickKind ==
    ASSUME SInv, NEW c \in Conns, NEW n \in KickBounds, kick(c, n)
    PROVE  Kind
<1>1. /\ IInv /\ Serving(c) /\ conn[c].state = "want_command" /\ ServerFrame
      /\ q' = q /\ conn' = conn
  BY DEF SInv, kick, Command
<1>2. task'.op = "kick" /\ task'.conn = c
  BY DEF kick, Socknext
<1>3. Quiet
  BY <1>1 DEF Quiet, NoJob, ServerFrame
<1>4. Busy' /\ TimerKept
  BY <1>1, <1>2, ServingFree, TimerFree DEF Busy
<1>5. HandsOn
  BY <1>1, <1>3, ServingFree, CalmHandsOn DEF Quiet, ServerFrame
<1>6. clock' >= clock
  BY <1>1, Facts DEF ServerFrame, RestOK
<1> QED
  BY <1>3, <1>4, <1>5, <1>6 DEF Kind

\* use, watch, ignore and pause-tube are answered.
LEMMA TubeKinds ==
    ASSUME SInv, NEW c \in Conns, NEW t \in Tubes,
           \/ use(c, t) \/ watch(c, t) \/ ignore(c, t)
           \/ \E d \in Delays : pause_tube(c, t, d)
    PROVE  Kind
<1>1. /\ IInv /\ Serving(c) /\ conn[c].state = "want_command"
      /\ q' = q /\ waiting_conns' = waiting_conns /\ next_id' = next_id
      /\ clock' = clock
  BY DEF SInv, use, watch, ignore, pause_tube, JobFrame, Command
<1>2. conn[c] \in ConnRec /\ pause \in [Tubes -> BOOLEAN]
  BY <1>1, Facts DEF RestOK
<1>3. ASSUME NEW u \in Tubes, NEW w \in SUBSET Tubes
      PROVE  /\ [conn[c] EXCEPT !.use = u] \in ConnRec
             /\ [conn[c] EXCEPT !.watch = w] \in ConnRec
             /\ [conn[c] EXCEPT !.use = u].waiting = conn[c].waiting
             /\ [conn[c] EXCEPT !.watch = w].waiting = conn[c].waiting
             /\ [conn[c] EXCEPT !.use = u].out_job = conn[c].out_job
             /\ [conn[c] EXCEPT !.watch = w].out_job = conn[c].out_job
  BY <1>2 DEF ConnRec
<1>4. CASE use(c, t)
  <2>1. Answer(q, c, [conn[c] EXCEPT !.use = t], "WORD") /\ pause' = pause
    BY <1>4 DEF use
  <2> QED
    BY <1>1, <1>3, <2>1, ServingFree, AnsweredStill
<1>5. CASE watch(c, t) \/ ignore(c, t)
  <2>1. PICK w \in SUBSET Tubes : Answer(q, c, [conn[c] EXCEPT !.watch = w], "WORD")
    <3>1. /\ conn[c].watch \cup {t} \in SUBSET Tubes
          /\ conn[c].watch \ {t} \in SUBSET Tubes
      BY <1>2 DEF ConnRec
    <3> QED
      BY <1>5, <3>1 DEF watch, ignore
  <2>2. pause' = pause
    BY <1>5 DEF watch, ignore
  <2> QED
    BY <1>1, <1>3, <2>1, <2>2, ServingFree, AnsweredStill
<1>6. ASSUME NEW d \in Delays, pause_tube(c, t, d) PROVE Kind
  <2>1. Answer(q, c, conn[c], "WORD")
    BY <1>6 DEF pause_tube
  <2>2. \A u \in Tubes : pause[u] => pause'[u]
    BY <1>2, <1>6 DEF pause_tube
  <2> QED
    BY <1>1, <1>2, <2>1, <2>2, ServingFree, AnsweredStill
<1> QED
  BY <1>4, <1>5, <1>6

\* connsched arms the timer of a connection that waits with a timeout: for the
\* end of the timeout and, earlier, for the margin of its soonest job.
LEMMA SchedArms ==
    ASSUME NEW s \in Store, NEW c \in Conns, NEW cr \in ConnRec, Held(s, c, cr),
           clock \in Nat, cr.waiting, cr.pending_timeout >= 0
    PROVE  LET n == connsched(s, c, cr)
           IN  /\ n.in_conns
               /\ n.tickat <= clock + cr.pending_timeout
               /\ IF s.reserved_jobs[c] = <<>> THEN n.soonest_job = Nil
                  ELSE /\ n.soonest_job \in Ids
                       /\ n.tickat <= s.job[n.soonest_job].deadline_at - SafetyMargin
<1> DEFINE n == connsched(s, c, cr)
           k == connsoonestjob(s, c, cr)
           a == s.job[k].deadline_at - SafetyMargin
           b == clock + cr.pending_timeout
           ts == TickTimes(s, c, cr)
           m == CHOOSE t \in ts : \A u \in ts : t <= u
           r == IF s.reserved_jobs[c] = <<>> THEN cr
                ELSE [cr EXCEPT !.soonest_job = k]
<1>1. b \in Int
  BY DEF ConnRec
<1>2. s.reserved_jobs[c] # <<>> => k \in Ids /\ a \in Int
  <2>1. s.reserved_jobs[c] # <<>> => k \in Ids
    BY SoonestType
  <2> HIDE DEF k
  <2> QED
    BY <2>1, JobOf, ConstantsOK DEF JobRec
<1>3. ts = IF s.reserved_jobs[c] = <<>> THEN {b} ELSE {a, b}
  BY DEF TickTimes
<1> HIDE DEF a, b, k
<1>4. m \in ts /\ \A u \in ts : m <= u
  <2>1. \E t \in ts : \A u \in ts : t <= u
    BY <1>1, <1>2, <1>3
  <2> HIDE DEF ts
  <2> QED
    BY <2>1
<1>5. n = [r EXCEPT !.tickat = m, !.in_conns = TRUE]
  <2>1. ts # {}
    BY <1>3
  <2> QED
    BY <2>1 DEF connsched, k
<1>6. "tickat" \in DOMAIN r /\ "in_conns" \in DOMAIN r /\ "soonest_job" \in DOMAIN r
      /\ r.soonest_job = IF s.reserved_jobs[c] = <<>> THEN cr.soonest_job ELSE k
  BY DEF ConnRec
<1> HIDE DEF r, m, ts
<1>7. n.tickat = m /\ n.in_conns = TRUE /\ n.soonest_job = r.soonest_job
  BY <1>5, <1>6
<1> HIDE DEF n
<1>8. s.reserved_jobs[c] = <<>> => cr.soonest_job = Nil
  <2>1. Range(<<>>) = {}
    BY DEF Range
  <2> QED
    BY <2>1 DEF Held
<1>9. CASE s.reserved_jobs[c] = <<>>
  BY <1>3, <1>4, <1>6, <1>7, <1>8, <1>9 DEF n, b
<1>10. CASE s.reserved_jobs[c] # <<>>
  <2>1. n.soonest_job = k /\ k \in Ids
    BY <1>2, <1>6, <1>7, <1>10
  <2>2. m <= a /\ m <= b
    BY <1>3, <1>4, <1>10
  <2> QED
    BY <1>7, <1>10, <2>1, <2>2 DEF n, a, b
<1> QED
  BY <1>9, <1>10

\* reserve and reserve-with-timeout: the client is warned, or waits.
LEMMA ReserveKind ==
    ASSUME SInv, NEW c \in Conns, NEW timeout \in Timeouts \cup {-1},
           reserve(c, timeout)
    PROVE  Kind
<1>0. /\ IInv /\ Serving(c) /\ conn[c].state = "want_command"
      /\ pause' = pause /\ next_id' = next_id /\ clock' = clock
  BY DEF SInv, reserve, Command
<1>1. /\ q \in Store /\ conn[c] \in ConnRec /\ Held(q, c, conn[c]) /\ clock \in Nat
      /\ timeout \in Int
  BY <1>0, Facts, ConstantsOK DEF RestOK
<1>2. CASE Answer(q, c, conn[c], "DEADLINE_SOON") /\ q' = q
           /\ waiting_conns' = waiting_conns /\ pq' = pq
  BY <1>0, <1>1, <1>2, ServingFree, AnsweredStill
<1>3. CASE wait_for_job(c, timeout) /\ pq' = TRUE /\ EndHandler
  <2> DEFINE w == IF timeout < 0 THEN 0 ELSE clock + timeout
             cr == [conn[c] EXCEPT !.state = "wait", !.waiting = TRUE,
                                   !.pending_timeout = timeout, !.until = w]
             n == connsched(q, c, cr)
  <2>0. w \in Nat /\ (timeout >= 0 => w = clock + timeout)
    BY <1>1
  <2>1. /\ cr \in ConnRec /\ Held(q, c, cr) /\ cr.pending_timeout = timeout
        /\ cr.until = w
        /\ cr.state = "wait" /\ cr.waiting = TRUE /\ cr.watch = conn[c].watch
        /\ cr.out_job = conn[c].out_job /\ cr.watch \in SUBSET Tubes
    <3> HIDE DEF w
    <3> QED
      BY <1>1, <2>0 DEF ConnRec, ConnStates, Held
  <2>2. /\ q' = CountWaiting(q, cr.watch, 1) /\ conn' = [conn EXCEPT ![c] = n]
        /\ waiting_conns' = Enlisted(waiting_conns, c, cr.watch)
    BY <1>3 DEF wait_for_job
  <2> HIDE DEF cr, w
  <2>3. /\ n.state = "wait" /\ n.waiting = TRUE /\ n.watch = conn[c].watch
        /\ n.out_job = conn[c].out_job /\ n.pending_timeout = timeout
        /\ n.until = w
    BY <1>1, <2>1, SchedKeeps
  <2>4. timeout >= 0 =>
            /\ n.in_conns /\ n.tickat <= clock + timeout
            /\ IF q.reserved_jobs[c] = <<>> THEN n.soonest_job = Nil
               ELSE /\ n.soonest_job \in Ids
                    /\ n.tickat <= q.job[n.soonest_job].deadline_at - SafetyMargin
    BY <1>1, <2>1, SchedArms
  <2> HIDE DEF n
  <2>5. conn'[c] = n /\ Alone(c)
    BY <1>0, <2>2, Facts DEF Alone
  <2>6. q'.job = q.job /\ q'.reserved_jobs = q.reserved_jobs
    BY <1>1, <2>2, CountWaitingPlaces DEF SamePlaces
  <2>7. timeout >= 0 => ArmedConn(c)'
    <3> SUFFICES ASSUME timeout >= 0 PROVE ArmedConn(c)'
      OBVIOUS
    <3>1. connsoonestjob(q', c, n) = n.soonest_job
      BY <2>4, <2>6 DEF connsoonestjob, Ids, Nil
    <3> QED
      BY <1>0, <2>0, <2>3, <2>4, <2>5, <2>6, <3>1 DEF ArmedConn
  <2>8. Waits(c)
    BY <1>0, <2>1, <2>2, <2>3, <2>5, <2>6, <2>7 DEF Waits, TimedWait, NoJob
  <2>9. Busy' /\ TimerKept
    BY <1>0, <1>3, ServingFree, TimerFree, TickBusy DEF EndHandler
  <2>10. HandsOn /\ clock' >= clock
    BY <1>0, <1>1, <1>3 DEF HandsOn
  <2> QED
    BY <2>5, <2>8, <2>9, <2>10 DEF Kind, ConnKind
<1> QED
  BY <1>2, <1>3 DEF reserve

\* A hand-over of process_queue.
LEMMA HandOverKind ==
    ASSUME SInv, NEW j \in Awaited, NEW c \in waiting_conns[q.job[j].tube],
           \A k \in Awaited \ {j} : job_pri_less(q, j, k),
           q.job[j].state = "ready", HandOver(j, c), pq, pq' = pq,
           next_id' = next_id, clock' = clock, task' = task
    PROVE  Kind
<1> DEFINE x == remove_ready_job(q, j)
           y == CountWaiting(x, conn[c].watch, -1)
           s == ReserveFor(y, c, j)
           cr == [conn[c] EXCEPT !.waiting = FALSE, !.until = 0]
           g == Granted(s, cr, j)
           n == reply_job(s, c, g, j, "RESERVED")
<1>0. IInv /\ q \in Store /\ Whole(q) /\ clock \in Nat
      /\ waiting_conns \in [Tubes -> SUBSET Conns]
  BY Facts DEF SInv, RestOK
<1>1. j \in Ids /\ c \in Conns /\ q.job[j].tube \in Tubes
  <2>1. j \in Ids
    BY <1>0 DEF Awaited, Store
  <2> QED
    BY <1>0, <2>1, JobOf
<1>2. /\ conn[c] \in ConnRec /\ Held(q, c, conn[c]) /\ conn[c].watch \in SUBSET Tubes
      /\ conn[c].waiting = TRUE /\ conn[c].state = "wait"
  BY <1>0, <1>1, Facts DEF SInv, WaitingSetsAgree, ConnRec
<1>3. x \in Store /\ Floating(x, j) /\ Near(x, q, j)
  <2>1. x = Unqueue(q, j)
    BY DEF Unqueue
  <2> QED
    BY <1>0, <1>1, <2>1, StoreSteps, ReadyFloats, RemoveNear
<1> HIDE DEF x
<1>4. y \in Store /\ SamePlaces(y, x)
  BY <1>2, <1>3, CountWaitingType, CountWaitingPlaces
<1>5. Floating(y, j) /\ Near(y, q, j)
  BY <1>1, <1>3, <1>4, SamePlacesKeep DEF Near, SamePlaces
<1>6. q' = s /\ conn' = [conn EXCEPT ![c] = n]
      /\ waiting_conns' = Delisted(waiting_conns, c, conn[c].watch)
  BY DEF HandOver, x
<1> HIDE DEF y
<1>7. /\ s \in Store /\ Near(s, q, j) /\ j \in Range(s.reserved_jobs[c])
      /\ s.job[j].state = "reserved" /\ s.job[j].reserver = c
  BY <1>0, <1>1, <1>4, <1>5, ReserveForType, ReserveWhole, NearTrans, ReserveEnds
<1>8. cr \in ConnRec /\ cr.waiting = FALSE /\ cr.soonest_job = conn[c].soonest_job
  BY <1>2 DEF ConnRec
<1>9. Held(s, c, cr)
  <2>1. Held(s, c, conn[c])
    BY <1>0, <1>1, <1>2, <1>7, HeldNear, NotReserved
  <2> QED
    BY <2>1, <1>8 DEF Held
<1> HIDE DEF cr
<1>10. g \in ConnRec /\ g.waiting = FALSE
  <2>1. g.waiting = cr.waiting
    BY <1>1, <1>4, <1>8, ReserveEnds
  <2> HIDE DEF s
  <2>2. g \in ConnRec
    BY <1>1, <1>7, <1>8, <1>9, GrantedType
  <2> QED
    BY <1>8, <2>1, <2>2
<1> HIDE DEF s, g
<1>11. n.state = "send_job" /\ n.out_job = j /\ n.waiting = FALSE
  BY <1>1, <1>7, <1>10, ReplyJobKeeps
<1> HIDE DEF n
<1>12. conn'[c] = n /\ Alone(c)
  BY <1>0, <1>1, <1>6, Facts DEF Alone
<1>13. Taken(j, c)
  BY <1>6, <1>7 DEF Taken, OnlyJob, Near, Becomes, Queued
<1>14. Hands(c, j)
  BY <1>2, <1>6, <1>11, <1>12, <1>13 DEF Hands, Unlisted
<1>15. Busy'
  BY <1>2, <1>12, Facts, TaskTypes DEF Busy, SInv, Alone, IInv, TaskServes
<1>16. TimerKept
  BY DEF TimerKept, InTimeout
<1>17. HandsOn /\ clock' >= clock
  BY <1>0 DEF HandsOn
<1> QED
  BY <1>1, <1>12, <1>14, <1>15, <1>16, <1>17 DEF Kind, ConnKind

\* An iteration of process_queue, and its end.
LEMMA ProcessQueueKind ==
    ASSUME SInv, process_queue
    PROVE  Kind
<1>1. /\ next_id' = next_id /\ clock' = clock /\ task' = task /\ pq /\ clock \in Nat
      /\ \A t \in Tubes : pause'[t] = (pause[t] /\ ~Unpaused(t))
  BY Facts DEF process_queue, SInv, RestOK
<1>2. TimerKept /\ clock' >= clock
  BY <1>1 DEF TimerKept, InTimeout
<1>3. CASE q' = q /\ conn' = conn /\ waiting_conns' = waiting_conns
           /\ (pq' \/ Awaited = {})
  <2>1. Quiet /\ NoJob
    BY <1>1, <1>3 DEF Quiet, NoJob
  <2>2. Busy'
    BY <1>1, <1>3 DEF Busy, SInv
  <2>3. HandsOn
    BY <1>1, <1>3, <2>1 DEF HandsOn, Drained
  <2> QED
    BY <1>2, <2>1, <2>2, <2>3 DEF Kind
<1>4. ASSUME NEW j \in Awaited, NEW c \in waiting_conns[q.job[j].tube],
             \A k \in Awaited \ {j} : job_pri_less(q, j, k),
             q.job[j].state = "ready", HandOver(j, c), pq' = pq
      PROVE  Kind
  BY <1>1, <1>4, HandOverKind
<1> QED
  BY <1>1, <1>3, <1>4 DEF process_queue

\* The commands that only look, or are refused.
LEMMA LookKinds ==
    ASSUME SInv, NEW c \in Conns, refuse(c) \/ inspect(c)
    PROVE  Kind
<1>1. /\ IInv /\ Serving(c) /\ conn[c].state = "want_command"
      /\ q' = q /\ waiting_conns' = waiting_conns /\ next_id' = next_id
      /\ clock' = clock /\ pause' = pause
  BY DEF SInv, refuse, inspect, JobFrame, Command
<1>2. q \in Store /\ conn[c] \in ConnRec /\ clock \in Nat
  BY <1>1, Facts DEF RestOK
<1>3. CASE refuse(c)
  <2>1. Answer(q, c, conn[c], "WORD")
    BY <1>3 DEF refuse
  <2> QED
    BY <1>1, <1>2, <2>1, ServingFree, AnsweredStill
<1>4. CASE inspect(c)
  <2> DEFINE n == reply_job(q, c, conn[c], Copy, "WORD")
  <2>1. n.state = "send_job" /\ n.out_job = Copy /\ n.waiting = conn[c].waiting
    BY <1>2, ReplyJobKeeps
  <2>2. conn' = [conn EXCEPT ![c] = n] /\ task' = Tick
    BY <1>4 DEF inspect, EndHandler
  <2> HIDE DEF n
  <2>3. conn'[c] = n /\ Alone(c)
    BY <1>1, <2>2, Facts DEF Alone
  <2>4. NoJob
    BY <1>1 DEF NoJob
  <2>5. Looks(c)
    BY <1>1, <2>1, <2>3, <2>4 DEF Looks, SameWait
  <2>6. Busy' /\ TimerKept
    BY <1>1, <2>2, ServingFree, TimerFree, TickBusy
  <2>7. HandsOn
    BY <1>1, <2>4, ServingFree, CalmHandsOn
  <2> QED
    BY <1>1, <1>2, <2>3, <2>5, <2>6, <2>7 DEF Kind, ConnKind
<1> QED
  BY <1>3, <1>4

\* A step that touches no job and no connection.
LEMMA QuietKind ==
    ASSUME q' = q, conn' = conn, waiting_conns' = waiting_conns,
           next_id' = next_id, pause' = pause \/ pq' = TRUE, pq' = pq \/ pq' = TRUE,
           clock' >= clock, Busy', TimerKept, pq \in BOOLEAN
    PROVE  Kind
<1>1. Quiet /\ NoJob
  BY DEF Quiet, NoJob
<1>2. HandsOn
  <2>1. CASE pq' = TRUE
    BY <2>1 DEF HandsOn
  <2>2. CASE pq' = pq /\ pause' = pause /\ ~pq
    BY <1>1, <2>2, CalmHandsOn
  <2> QED
    BY <2>1, <2>2
<1> QED
  BY <1>1, <1>2 DEF Kind

\* A connection begins anew with record n.
LEMMA BeginsKind ==
    ASSUME SInv, NEW c \in Conns, NEW n, conn' = [conn EXCEPT ![c] = n],
           n.state \in {"want_command", "closed"}, n.out_job = Nil,
           n.waiting = FALSE,
           conn[c].state \in {"closed", "closing", "send_word", "send_job"},
           JobFrame, pause' = pause, ~pq, task.op \notin {"timeout", "resched"},
           task' = Tick \/ task' = [Socknext EXCEPT !.op = "dispatch", !.conn = c]
    PROVE  Kind
<1>1. conn'[c] = n /\ Alone(c)
  BY Facts DEF Alone, SInv
<1>2. NoJob
  BY DEF NoJob, JobFrame
<1>3. Begins(c)
  BY <1>1, <1>2 DEF Begins, JobFrame
<1>4. Busy' /\ TimerKept
  BY TimerFree, TickBusy
<1>5. HandsOn
  BY <1>2, CalmHandsOn DEF JobFrame
<1>6. clock' >= clock
  BY Facts DEF SInv, RestOK, JobFrame
<1> QED
  BY <1>1, <1>3, <1>4, <1>5, <1>6 DEF Kind, ConnKind

\* h_accept, and conn_want_command once the reply is written.
LEMMA AcceptKinds ==
    ASSUME SInv, NEW c \in Conns, h_accept(c) \/ conn_want_command(c)
    PROVE  Kind
<1>1. /\ IInv /\ ~pq /\ task.op \notin {"timeout", "resched"}
      /\ JobFrame /\ pause' = pause
  BY DEF SInv, h_accept, conn_want_command, Listening
<1>2. CASE h_accept(c)
  <2>1. /\ NewConn.state = "want_command" /\ NewConn.out_job = Nil
        /\ NewConn.waiting = FALSE
    BY DEF NewConn
  <2>2. task' = Tick /\ conn[c].state = "closed"
    BY <1>2 DEF h_accept, EndHandler
  <2>3. CASE conn' = [conn EXCEPT ![c] = NewConn]
    BY <1>1, <2>1, <2>2, <2>3, BeginsKind
  <2>4. CASE conn' = conn
    <3>1. /\ q' = q /\ waiting_conns' = waiting_conns /\ next_id' = next_id
          /\ pause' = pause /\ pq' = pq /\ clock' >= clock /\ pq \in BOOLEAN
      BY <1>1, Facts DEF JobFrame, RestOK
    <3>2. Busy' /\ TimerKept
      BY <1>1, <2>2, TimerFree, TickBusy
    <3> QED
      BY <2>4, <3>1, <3>2, QuietKind
  <2> QED
    BY <1>2, <2>3, <2>4 DEF h_accept
<1>3. CASE conn_want_command(c)
  <2> DEFINE m == connsched(q, c, conn[c])
             n == [m EXCEPT !.out_job = Nil, !.reply = "none",
                            !.state = "want_command"]
  <2>1. q \in Store /\ conn[c] \in ConnRec /\ Held(q, c, conn[c]) /\ clock \in Nat
    BY <1>1, Facts DEF RestOK
  <2>2. conn[c].state \in {"send_word", "send_job"}
    BY <1>3 DEF conn_want_command
  <2>3. m \in ConnRec /\ m.waiting = FALSE
    <3>1. m \in ConnRec /\ m.waiting = conn[c].waiting
      BY <2>1, ConnSched, SchedKeeps
    <3> HIDE DEF m
    <3>2. conn[c].waiting = FALSE
      BY <2>1, <2>2 DEF SInv, WaitingSetsAgree, ConnRec
    <3> QED
      BY <3>1, <3>2
  <2>4. conn' = [conn EXCEPT ![c] = n]
    BY <1>3 DEF conn_want_command
  <2> HIDE DEF m
  <2>5. n.state = "want_command" /\ n.out_job = Nil /\ n.waiting = FALSE
    BY <2>3 DEF ConnRec
  <2>6. task' = Tick \/ task' = [Socknext EXCEPT !.op = "dispatch", !.conn = c]
    BY <1>3 DEF conn_want_command, EndOrGoOn, EndHandler
  <2> HIDE DEF n
  <2> QED
    BY <1>1, <2>2, <2>4, <2>5, <2>6, BeginsKind
<1> QED
  BY <1>2, <1>3

\* c stops waiting (remove_waiting_conn) and is told so.
LEMMA StopWaitingKeeps ==
    ASSUME IInv, NEW c \in Conns, NEW cr \in ConnRec,
           cr.waiting = conn[c].waiting, cr.watch = conn[c].watch,
           cr.out_job = conn[c].out_job, NEW msg, StopWaiting(c, cr, msg),
           next_id' = next_id
    PROVE  /\ Alone(c) /\ Stops(c) /\ ~TimedWait(c)' /\ NoJob
           /\ \A t \in Tubes : waiting_conns'[t] \subseteq waiting_conns[t]
<1> DEFINE s == IF cr.waiting THEN CountWaiting(q, cr.watch, -1) ELSE q
           cw == [cr EXCEPT !.waiting = FALSE, !.until = 0]
           n == reply(s, c, cw, msg, "send_word")
<1>1. q \in Store /\ cr.watch \in SUBSET Tubes /\ SamePlaces(q, q)
  BY Facts DEF ConnRec
<1>2. s \in Store /\ SamePlaces(s, q)
  BY <1>1, CountWaitingType, CountWaitingPlaces
<1>3. q' = s /\ conn' = [conn EXCEPT ![c] = n]
  BY DEF StopWaiting, reply_msg
<1>4. /\ waiting_conns' = IF conn[c].waiting
                          THEN Delisted(waiting_conns, c, conn[c].watch)
                          ELSE waiting_conns
      /\ waiting_conns \in [Tubes -> SUBSET Conns]
  BY Facts DEF StopWaiting, RestOK
<1> HIDE DEF s
<1>5. cw \in ConnRec /\ cw.waiting = FALSE /\ cw.out_job = cr.out_job
  BY DEF ConnRec
<1> HIDE DEF cw
<1>6. n.state = "send_word" /\ n.waiting = FALSE /\ n.out_job = conn[c].out_job
  BY <1>2, <1>5, ReplyKeeps
<1> HIDE DEF n
<1>7. conn'[c] = n /\ Alone(c)
  BY <1>3, Facts DEF Alone
<1>8. NoJob
  BY <1>2, <1>3 DEF NoJob, SamePlaces
<1>9. \A t \in Tubes : waiting_conns'[t] \subseteq waiting_conns[t]
  BY <1>4 DEF Delisted
<1>10. Stops(c)
  BY <1>4, <1>6, <1>7, <1>8 DEF Stops, Unlisted
<1>11. ~TimedWait(c)'
  BY <1>6, <1>7 DEF TimedWait
<1> QED
  BY <1>7, <1>8, <1>9, <1>10, <1>11

\* A hang-up of a waiting client.
LEMMA HangupKind ==
    ASSUME SInv, NEW c \in Conns, hangup(c)
    PROVE  Kind
<1>1. PICK m \in Int : m = -1
  OBVIOUS
<1> DEFINE cr == [conn[c] EXCEPT !.pending_timeout = m]
<1>2. IInv /\ conn[c] \in ConnRec /\ clock \in Nat
  BY Facts DEF RestOK, SInv
<1>3. /\ cr \in ConnRec /\ cr.waiting = conn[c].waiting /\ cr.watch = conn[c].watch
      /\ cr.out_job = conn[c].out_job
  BY <1>2 DEF ConnRec
<1>4. StopWaiting(c, cr, "TIMED_OUT")
  BY <1>1 DEF hangup
<1> HIDE DEF cr
<1>5. /\ next_id' = next_id /\ pause' = pause /\ clock' = clock /\ task' = Tick
      /\ ~pq /\ task.op \notin {"timeout", "resched"}
  BY DEF hangup, EndHandler, Listening
<1>6. /\ Alone(c) /\ Stops(c) /\ NoJob
      /\ \A t \in Tubes : waiting_conns'[t] \subseteq waiting_conns[t]
  BY <1>2, <1>3, <1>4, <1>5, StopWaitingKeeps
<1>7. Busy' /\ TimerKept
  BY <1>5, TimerFree, TickBusy
<1>8. HandsOn
  BY <1>5, <1>6, CalmHandsOn
<1> QED
  BY <1>2, <1>5, <1>6, <1>7, <1>8 DEF Kind, ConnKind

\* The first part of connclose.
LEMMA CloseKind ==
    ASSUME SInv, NEW c \in Conns, connclose(c)
    PROVE  Kind
<1> DEFINE cr == conn[c]
           j == cr.in_job
           s == IF j = Nil THEN q ELSE job_free(q, j)
           n == [cr EXCEPT !.in_job = Nil, !.out_job = Nil, !.waiting = FALSE,
                           !.until = 0, !.state = "closing"]
<1>1. /\ IInv /\ q \in Store /\ Whole(q) /\ clock \in Nat /\ cr \in ConnRec
      /\ waiting_conns \in [Tubes -> SUBSET Conns] /\ Serving(c)
  BY Facts DEF SInv, RestOK, connclose
<1>2. n.out_job = Nil /\ n.waiting = FALSE /\ n.state = "closing"
  BY <1>1 DEF ConnRec
<1>3. /\ conn' = [conn EXCEPT ![c] = n]
      /\ q' = IF cr.waiting THEN CountWaiting(s, cr.watch, -1) ELSE s
      /\ next_id' = next_id /\ pause' = pause /\ clock' = clock
      /\ waiting_conns' = IF cr.waiting THEN Delisted(waiting_conns, c, cr.watch)
                          ELSE waiting_conns
      /\ task'.op = "close" /\ task'.conn = c
  BY DEF connclose, Socknext
<1> HIDE DEF n
<1>4. conn'[c] = n /\ Alone(c)
  BY <1>1, <1>3, Facts DEF Alone
<1>5. NoJob \/ \E k \in Ids : Freed(k) /\ q.job[k].state = "invalid"
  <2>1. s \in Store
    BY <1>1, StoreSteps DEF ConnRec
  <2>2. q'.job = s.job
    BY <1>3, <2>1, CountWaitingPlaces DEF SamePlaces
  <2>3. CASE j = Nil
    BY <1>3, <2>2, <2>3 DEF NoJob
  <2>4. CASE j # Nil
    <3>1. j \in Ids /\ q.job[j].state = "invalid"
      BY <1>1, <2>4 DEF ConnRec, IInv, Owners
    <3>2. Floating(q, j)
      BY <1>1, <3>1, LooseFloats
    <3>3. Near(s, q, j) /\ s.job[j] = FreeJob
      BY <1>1, <2>4, <3>1, <3>2, FreedJob
    <3> HIDE DEF s, j
    <3>4. Freed(j)
      BY <1>3, <2>2, <3>1, <3>3 DEF Freed, OnlyJob, Near, Becomes, FreeJob
    <3> QED
      BY <3>1, <3>4
  <2> QED
    BY <2>3, <2>4
<1>6. Closes(c)
  BY <1>2, <1>3, <1>4, <1>5 DEF Closes, Unlisted
<1>7. Busy' /\ TimerKept
  BY <1>1, <1>2, <1>3, <1>4, ServingFree, TimerFree DEF Busy
<1>8. HandsOn
  <2>1. \A t \in Tubes : waiting_conns'[t] \subseteq waiting_conns[t]
    BY <1>1, <1>3 DEF Delisted
  <2>2. NoJob \/ \E k \in Ids : OnlyJob(k) /\ q'.job[k].state # "ready"
    BY <1>5 DEF Freed, Becomes
  <2> QED
    BY <1>1, <1>3, <2>1, <2>2, ServingFree, CalmHandsOn
<1> QED
  BY <1>1, <1>3, <1>4, <1>6, <1>7, <1>8 DEF Kind, ConnKind

\* A reservation of c that the server takes back (close, timeout).
LEMMA LosesKind ==
    ASSUME SInv, NEW c \in Conns, NEW j \in Range(q.reserved_jobs[c]),
           NEW r \in EnqueueOrBury(remove_this_reserved_job(q, c, j), j, 0, FALSE),
           q' = r.q, pq' = r.pq, NEW n, conn' = [conn EXCEPT ![c] = n],
           n.state = conn[c].state, n.watch = conn[c].watch,
           n.waiting = conn[c].waiting,
           n.out_job \in IF conn[c].out_job = j THEN Copies ELSE {conn[c].out_job},
           \/ InTimeout(c)' /\ q.job[j].deadline_at < clock
           \/ conn[c].state = "closing",
           ~pq, ServerFrame, Busy', TimerKept
    PROVE  Kind
<1> DEFINE s == remove_this_reserved_job(q, c, j)
<1>1. IInv /\ q \in Store /\ Whole(q) /\ clock \in Nat /\ q.reserved_jobs[c] \in Seq(Ids)
  BY Facts DEF SInv, RestOK, Store
<1>2. j \in Ids
  BY <1>1, RangeInIds
<1>3. is_job_reserved_by_conn(c, j)
  BY <1>1, <1>2 DEF is_job_reserved_by_conn, Whole, Placed
<1>4. /\ s \in Store /\ Floating(s, j) /\ Near(s, q, j) /\ ~s.wal_use
      /\ q.job[j].state = "reserved" /\ q.job[j].reserver = c
  BY <1>1, <1>2, <1>3, GivenUp
<1>5. r \in EnqueueOrBury(s, j, 0, FALSE)
  OBVIOUS
<1> HIDE DEF s
<1>6. Near(r.q, s, j)
  BY <1>1, <1>2, <1>4, <1>5, EnqueueOrBuryGood
<1>7. Landed(r, j)
  BY <1>1, <1>2, <1>4, <1>5, EnqueueOrBuryEnds
<1>8. Requeued(j) /\ (pq' \/ q'.job[j].state # "ready")
  BY <1>2, <1>4, <1>6, <1>7, RequeuedJob DEF ServerFrame
<1>9. conn'[c] = n /\ Alone(c)
  BY <1>1, Facts DEF Alone
<1>10. Loses(c, j)
  BY <1>4, <1>8, <1>9 DEF Loses, SameWait, ServerFrame
<1>11. HandsOn
  <2>1. CASE pq'
    BY <2>1 DEF HandsOn
  <2>2. CASE q'.job[j].state # "ready"
    BY <1>2, <1>8, <2>2, CalmHandsOn DEF ServerFrame, Requeued
  <2> QED
    BY <1>8, <2>1, <2>2
<1> QED
  BY <1>1, <1>2, <1>9, <1>10, <1>11 DEF Kind, ConnKind, ServerFrame

\* The iterations of enqueue_reserved_jobs and the end of connclose.
LEMMA CloseLoopKinds ==
    ASSUME SInv, enqueue_reserved_jobs \/ close_end
    PROVE  Kind
<1> DEFINE c == task.conn
<1>0. IInv /\ task.op = "close" /\ ~pq
  BY DEF SInv, enqueue_reserved_jobs, close_end, Closing
<1>1. /\ c \in Conns /\ q \in Store /\ conn[c] \in ConnRec
      /\ q.reserved_jobs[c] \in Seq(Ids) /\ conn[c].state = "closing"
      /\ conn[c].out_job = Nil
  <2>1. c \in Conns /\ conn[c].state = "closing" /\ q \in Store
    BY <1>0, Facts DEF IInv, TaskServes, SInv, Busy
  <2> QED
    BY <1>0, <2>1, Facts DEF SInv, OutOnlyWhenSending, Store
<1>2. TimerKept
  BY <1>0, TimerFree
<1>3. CASE enqueue_reserved_jobs
  <2> DEFINE j == q.reserved_jobs[c][1]
  <2>1. j \in Range(q.reserved_jobs[c]) /\ j \in Ids
    <3>1. 1 \in DOMAIN q.reserved_jobs[c]
      BY <1>1, <1>3 DEF enqueue_reserved_jobs
    <3> QED
      BY <1>1, <3>1, RangeInIds DEF Range
  <2>2. PICK r \in EnqueueOrBury(remove_this_reserved_job(q, c, j), j, 0, FALSE) :
            q' = r.q /\ pq' = r.pq
    BY <1>3 DEF enqueue_reserved_jobs
  <2>3. conn' = [conn EXCEPT ![c] = Forgets(c)] /\ task' = task /\ ServerFrame
    BY <1>3 DEF enqueue_reserved_jobs
  <2>4. /\ Forgets(c).state = conn[c].state /\ Forgets(c).watch = conn[c].watch
        /\ Forgets(c).waiting = conn[c].waiting /\ Forgets(c).out_job = Nil
    BY <1>0, <1>1, ForgetsKeeps
  <2>5. Forgets(c).out_job \in
            IF conn[c].out_job = j THEN Copies ELSE {conn[c].out_job}
    BY <1>1, <2>1, <2>4 DEF Ids, Nil
  <2>6. Busy'
    BY <1>0, <1>1, <2>3, <2>4, Facts DEF Busy
  <2> HIDE DEF j, c
  <2> QED
    BY <1>0, <1>1, <1>2, <2>1, <2>2, <2>3, <2>4, <2>5, <2>6, LosesKind
<1>4. CASE close_end
  <2>1. conn' = [conn EXCEPT ![c] = ClosedConn] /\ task' = Tick /\ JobFrame
        /\ pause' = pause
    BY <1>4 DEF close_end, EndHandler
  <2>2. /\ ClosedConn.state = "closed" /\ ClosedConn.out_job = Nil
        /\ ClosedConn.waiting = FALSE
    BY DEF ClosedConn, NewConn
  <2> QED
    BY <1>0, <1>1, <2>1, <2>2, BeginsKind
<1> QED
  BY <1>3, <1>4

\* conn_timeout starts on c, or goes on with it.
LEMMA RescheduledKind ==
    ASSUME SInv, NEW c \in Conns, NEW n, conn' = [conn EXCEPT ![c] = n],
           n.state = conn[c].state, n.watch = conn[c].watch,
           n.waiting = conn[c].waiting, n.out_job = conn[c].out_job,
           q' = q, waiting_conns' = waiting_conns, next_id' = next_id,
           clock' = clock, pause' = pause, ~pq,
           task'.op \notin {"kick", "close"}, TimerKept,
           InTimeout(c)' \/ ~TimedWait(c)'
    PROVE  Kind
<1>1. conn'[c] = n /\ Alone(c)
  BY Facts DEF Alone, SInv
<1>2. NoJob
  BY DEF NoJob
<1>3. Rescheduled(c)
  BY <1>1, <1>2 DEF Rescheduled, SameWait
<1>4. Busy'
  BY DEF Busy
<1>5. HandsOn
  BY <1>2, CalmHandsOn
<1>6. clock' >= clock
  BY Facts DEF SInv, RestOK
<1> QED
  BY <1>1, <1>3, <1>4, <1>5, <1>6 DEF Kind, ConnKind

\* The iterations of prottick.
LEMMA TickKinds ==
    ASSUME SInv, tick_delayed \/ tick_unpause \/ tick_conn \/ tick_end
    PROVE  Kind
<1>1. /\ IInv /\ q \in Store /\ Whole(q) /\ ~q.wal_use /\ clock \in Nat /\ task \in Task
      /\ task.op = "tick" /\ ~pq /\ pq \in BOOLEAN
  BY Facts DEF SInv, RestOK, tick_delayed, tick_unpause, tick_conn, tick_end, Ticking
<1>2. TimerKept
  BY <1>1, TimerFree
<1>3. CASE tick_delayed
  <2>1. PICK j \in DueJobs(task.now) :
            \E r \in EnqueueOrBury(remove_delayed_job(q, j), j, 0, FALSE) :
                q' = r.q /\ pq' = r.pq
    BY <1>3 DEF tick_delayed
  <2>2. j \in Ids /\ q.job[j].state = "delayed"
    <3>1. PICK t \in Tubes : j \in q.delay[t]
      BY DEF DueJobs, Delayed
    <3>2. j \in Ids
      BY <1>1, <3>1 DEF Store
    <3> QED
      BY <1>1, <3>1, <3>2 DEF Whole, Placed
  <2> DEFINE s == remove_delayed_job(q, j)
  <2>3. s \in Store /\ Floating(s, j) /\ Near(s, q, j)
    BY <1>1, <2>2, StoreSteps, DelayedFloats, RemoveNear
  <2>4. PICK r \in EnqueueOrBury(s, j, 0, FALSE) : q' = r.q /\ pq' = r.pq
    BY <2>1
  <2>5. ~s.wal_use
    BY <1>1, <2>3 DEF Near
  <2> HIDE DEF s
  <2>6. Near(r.q, s, j)
    BY <1>1, <2>2, <2>3, <2>4, <2>5, EnqueueOrBuryGood
  <2>7. Landed(r, j)
    BY <1>1, <2>2, <2>3, <2>5, EnqueueOrBuryEnds
  <2>8. conn' = conn /\ task' = task /\ ServerFrame
    BY <1>3 DEF tick_delayed
  <2> QED
    BY <1>1, <2>2, <2>3, <2>4, <2>6, <2>7, <2>8, PromotedKind
<1>4. CASE tick_unpause
  <2>1. /\ q' = q /\ conn' = conn /\ waiting_conns' = waiting_conns
        /\ next_id' = next_id /\ pq' = TRUE /\ clock' = clock /\ task' = task
    BY <1>4 DEF tick_unpause
  <2>2. Busy' /\ clock' >= clock
    BY <1>1, <2>1 DEF Busy
  <2> QED
    BY <1>1, <1>2, <2>1, <2>2, QuietKind
<1>5. CASE tick_conn
  <2>1. PICK c \in Conns :
            /\ conn' = [conn EXCEPT ![c].in_conns = FALSE]
            /\ task'.op = "timeout" /\ task'.conn = c
    BY <1>1, <1>5 DEF tick_conn, DueConns, DueRoots, Task
  <2> DEFINE n == [conn[c] EXCEPT !.in_conns = FALSE]
  <2>2. conn[c] \in ConnRec
    BY <1>1, Facts
  <2>3. conn' = [conn EXCEPT ![c] = n]
    BY <2>1
  <2>4. /\ n.state = conn[c].state /\ n.watch = conn[c].watch
        /\ n.waiting = conn[c].waiting /\ n.out_job = conn[c].out_job
    BY <2>2 DEF ConnRec
  <2> HIDE DEF n
  <2>5. /\ q' = q /\ waiting_conns' = waiting_conns /\ next_id' = next_id
        /\ clock' = clock /\ pause' = pause
    BY <1>5 DEF tick_conn, JobFrame
  <2>6. InTimeout(c)'
    BY <2>1 DEF InTimeout
  <2> QED
    BY <1>1, <1>2, <2>1, <2>3, <2>4, <2>5, <2>6, RescheduledKind
<1>6. CASE tick_end
  <2>1. /\ q' = q /\ conn' = conn /\ waiting_conns' = waiting_conns
        /\ next_id' = next_id /\ pq' = pq /\ clock' = clock /\ pause' = pause
        /\ task'.op = "socknext"
    BY <1>6 DEF tick_end, JobFrame, Socknext
  <2>2. Busy' /\ clock' >= clock
    BY <1>1, <2>1 DEF Busy
  <2> QED
    BY <1>1, <1>2, <2>1, <2>2, QuietKind
<1> QED
  BY <1>3, <1>4, <1>5, <1>6

\* The iterations of conn_timeout and its end.
LEMMA TimeoutKinds ==
    ASSUME SInv, timeout_job \/ timeout_resched \/ timeout_end
    PROVE  Kind
<1>c. PICK c : c = task.conn
  OBVIOUS
<1> DEFINE k == connsoonestjob(q, c, conn[c])
<1>0. IInv /\ ~pq /\ task.op \in {"timeout", "resched"}
  BY DEF SInv, timeout_job, timeout_resched, timeout_end, TimingOut
<1>1. /\ c \in Conns /\ task \in Task /\ q \in Store /\ clock \in Nat
      /\ conn[c] \in ConnRec /\ Held(q, c, conn[c])
  BY <1>0, <1>c, Facts DEF RestOK, IInv, TaskServes
<1>2. /\ k \in Ids \cup {Nil}
      /\ k # Nil => k \in Range(q.reserved_jobs[c])
  BY <1>1, SoonestType
<1>3. CASE timeout_job
  <2>1. PICK r \in EnqueueOrBury(remove_this_reserved_job(q, c, k), k, 0, FALSE) :
            q' = r.q /\ pq' = r.pq
    BY <1>c, <1>3 DEF timeout_job
  <2>2. k # Nil /\ q.job[k].deadline_at < clock
    BY <1>c, <1>3 DEF timeout_job, Expired
  <2> DEFINE f == Forgets(c)
  <2>0. PICK copy \in Copies :
            conn' = [conn EXCEPT ![c] =
                        [f EXCEPT !.out_job = IF @ = k THEN copy ELSE @]]
    BY <1>c, <1>3 DEF timeout_job, Copies
  <2> DEFINE o == IF f.out_job = k THEN copy ELSE f.out_job
             n == [f EXCEPT !.out_job = o]
  <2>3. /\ f \in ConnRec /\ f.state = conn[c].state /\ f.watch = conn[c].watch
        /\ f.waiting = conn[c].waiting /\ f.out_job = conn[c].out_job
    BY <1>0, <1>1, ForgetsKeeps
  <2>4. conn' = [conn EXCEPT ![c] = n] /\ ServerFrame
        /\ task' = [task EXCEPT !.op = "resched"]
    BY <1>c, <1>3, <2>0, <2>3 DEF timeout_job, ConnRec
  <2>5. task'.op = "resched" /\ task'.conn = c
    BY <1>c, <1>1, <2>4 DEF Task
  <2>6. o \in IF conn[c].out_job = k THEN Copies ELSE {conn[c].out_job}
    BY <2>3
  <2> HIDE DEF f, o, k
  <2>7. /\ n.state = conn[c].state /\ n.watch = conn[c].watch
        /\ n.waiting = conn[c].waiting /\ n.out_job = o
    BY <2>3 DEF ConnRec
  <2> HIDE DEF n
  <2>8. InTimeout(c)' /\ Busy' /\ TimerKept
    BY <1>c, <2>5 DEF InTimeout, Busy, TimerKept
  <2> QED
    BY <1>0, <1>1, <1>2, <2>1, <2>2, <2>4, <2>6, <2>7, <2>8, LosesKind
<1>4. CASE timeout_resched
  <2> DEFINE n == connsched(q, c, conn[c])
  <2>1. /\ n.state = conn[c].state /\ n.watch = conn[c].watch
        /\ n.waiting = conn[c].waiting /\ n.out_job = conn[c].out_job
    BY <1>1, SchedKeeps
  <2>2. /\ q' = q /\ waiting_conns' = waiting_conns /\ next_id' = next_id
        /\ clock' = clock /\ pause' = pause
        /\ conn' = [conn EXCEPT ![c] = n]
        /\ task' = [task EXCEPT !.op = "timeout"]
    BY <1>c, <1>4 DEF timeout_resched, JobFrame
  <2>3. task'.op = "timeout" /\ task'.conn = c
    BY <1>c, <1>1, <2>2 DEF Task
  <2> HIDE DEF n
  <2>4. InTimeout(c)' /\ TimerKept
    BY <1>c, <2>3 DEF InTimeout, TimerKept
  <2> QED
    BY <1>0, <1>1, <2>1, <2>2, <2>3, <2>4, RescheduledKind
<1>5. CASE timeout_end
  <2> DEFINE cr == [conn[c] EXCEPT !.soonest_job = k]
  <2> HIDE DEF k
  <2>1. /\ cr \in ConnRec /\ cr.state = conn[c].state /\ cr.watch = conn[c].watch
        /\ cr.waiting = conn[c].waiting /\ cr.out_job = conn[c].out_job
        /\ cr.pending_timeout = conn[c].pending_timeout
    BY <1>1, <1>2 DEF ConnRec
  <2>2. task'.op = "tick"
    BY <1>1, <1>5 DEF timeout_end, Task
  <2>3. next_id' = next_id /\ pause' = pause /\ clock' = clock
    BY <1>5 DEF timeout_end
  <2>4. ASSUME NEW m \in ConnRec, NEW msg, StopWaiting(c, m, msg),
               m.waiting = conn[c].waiting, m.watch = conn[c].watch,
               m.out_job = conn[c].out_job
        PROVE  Kind
    <3>1. /\ Alone(c) /\ Stops(c) /\ ~TimedWait(c)' /\ NoJob
          /\ \A t \in Tubes : waiting_conns'[t] \subseteq waiting_conns[t]
      BY <1>0, <1>1, <2>3, <2>4, StopWaitingKeeps
    <3>2. Busy' /\ TimerKept
      BY <1>c, <2>2, <3>1 DEF Busy, TimerKept, InTimeout
    <3>3. HandsOn
      BY <1>0, <2>3, <3>1, CalmHandsOn
    <3> QED
      BY <1>1, <2>3, <3>1, <3>2, <3>3 DEF Kind, ConnKind
  <2>5. CASE StopWaiting(c, cr, "DEADLINE_SOON")
    BY <2>1, <2>4, <2>5
  <2>6. CASE StopWaiting(c, [cr EXCEPT !.pending_timeout = -1], "TIMED_OUT")
    <3>1. PICK i \in Int : i = -1
      OBVIOUS
    <3> DEFINE ct == [cr EXCEPT !.pending_timeout = i]
    <3>2. StopWaiting(c, ct, "TIMED_OUT")
      BY <2>6, <3>1
    <3> HIDE DEF cr
    <3>3. /\ ct \in ConnRec /\ ct.waiting = cr.waiting /\ ct.watch = cr.watch
          /\ ct.out_job = cr.out_job
      BY <2>1 DEF ConnRec
    <3> HIDE DEF ct
    <3> QED
      BY <2>1, <2>4, <3>2, <3>3
  <2>7. CASE /\ conn' = [conn EXCEPT ![c] = cr] /\ q' = q
             /\ waiting_conns' = waiting_conns
             /\ ~(cr.waiting /\ cr.pending_timeout >= 0)
    <3> HIDE DEF cr
    <3>1. conn'[c] = cr
      BY <1>0, <1>1, <2>7, Facts
    <3>2. ~TimedWait(c)'
      BY <2>7, <3>1 DEF TimedWait
    <3>3. TimerKept
      BY <1>c, <3>2 DEF TimerKept, InTimeout
    <3> QED
      BY <1>0, <1>1, <2>1, <2>2, <2>3, <2>7, <3>2, <3>3, RescheduledKind
  <2> QED
    BY <1>c, <1>5, <2>5, <2>6, <2>7 DEF timeout_end, k
<1> QED
  BY <1>3, <1>4, <1>5

\* The clock, the wake-up of socknext and SIGUSR1.
LEMMA ClockKinds ==
    ASSUME SInv, Wake \/ AdvanceClock \/ enter_drain_mode
    PROVE  Kind
<1>1. /\ q' = q /\ conn' = conn /\ waiting_conns' = waiting_conns
      /\ next_id' = next_id /\ pause' = pause /\ pq' = pq
  BY DEF Wake, AdvanceClock, enter_drain_mode, JobFrame
<1>2. clock \in Nat /\ pq \in BOOLEAN
  BY Facts DEF SInv, RestOK
<1>3. clock' >= clock
  BY <1>2 DEF Wake, AdvanceClock, enter_drain_mode, JobFrame
<1>4. Busy' /\ TimerKept
  <2>1. CASE Wake
    BY <2>1, TickBusy, TimerFree DEF Wake, Listening, EndHandler
  <2>2. CASE task' = task
    BY <1>1, <2>2 DEF Busy, TimerKept, InTimeout, SInv
  <2> QED
    BY <2>1, <2>2 DEF AdvanceClock, enter_drain_mode
<1> QED
  BY <1>1, <1>2, <1>3, <1>4, QuietKind

\* Every step of the server is a step of one of the kinds.
LEMMA Kinds ==
    ASSUME SInv, Next
    PROVE  Kind
<1>1. CASE ServerStep
  BY <1>1, ProcessQueueKind, KickLoopKinds, CloseLoopKinds, TickKinds,
     TimeoutKinds, ClockKinds DEF ServerStep
<1>2. ASSUME NEW c \in Conns, ClientStep(c) PROVE Kind
  <2>1. CASE \/ h_accept(c) \/ conn_want_command(c) \/ hangup(c) \/ connclose(c)
             \/ refuse(c) \/ inspect(c) \/ enqueue_incoming_job(c)
    BY <2>1, AcceptKinds, HangupKind, CloseKind, LookKinds, IncomingKind
  <2>2. CASE \E p \in Pris, d \in Delays, ttr \in Ttrs : put(c, p, d, ttr)
    BY <2>2, PutKind
  <2>3. CASE \E timeout \in Timeouts \cup {-1} : reserve(c, timeout)
    BY <2>3, ReserveKind
  <2>4. CASE \E j \in Ids : reserve_job(c, j) \/ delete(c, j) \/ touch(c, j)
                            \/ kick_job(c, j)
    BY <2>4, ReserveJobKind, DeleteKind, TouchKind, KickJobKind
  <2>5. CASE \E j \in Ids : \E p \in Pris : bury(c, j, p)
    BY <2>5, BuryKind
  <2>6. CASE \E j \in Ids : \E p \in Pris, d \in Delays : release(c, j, p, d)
    BY <2>6, ReleaseKind
  <2>7. CASE \E n \in KickBounds : kick(c, n)
    BY <2>7, KickKind
  <2>8. CASE \E t \in Tubes : \/ use(c, t) \/ watch(c, t) \/ ignore(c, t)
                              \/ \E d \in Delays : pause_tube(c, t, d)
    BY <2>8, TubeKinds
  <2> QED
    BY <1>2, <2>1, <2>2, <2>3, <2>4, <2>5, <2>6, <2>7, <2>8 DEF ClientStep
<1>3. CASE enter_drain_mode \/ AdvanceClock
  BY <1>3, ClockKinds
<1> QED
  BY <1>1, <1>2, <1>3 DEF Next

=============================================================================
