-------------------------------- MODULE Broker --------------------------------
(***************************************************************************)
(* The in-memory job server of beanstalkd: the commands of prot.c, the     *)
(* connections of conn.c, the tubes, and the event loop of serv.c.         *)
(*                                                                         *)
(* The server is one thread.  srvserve alternates between prottick (due    *)
(* timers) and one socket event.  `task' is where that thread is: waiting  *)
(* in socknext, inside prottick, or in the middle of a handler that loops  *)
(* (conn_timeout, connclose, kick).  `pq' says that the thread is inside   *)
(* the loop of process_queue, which runs to its end before anything else.  *)
(* Every iteration of such a loop is one step; no other handler can run in *)
(* between, because every other action needs task.op = "socknext".         *)
(*                                                                         *)
(* The heaps of jobs are sets ordered by job_pri_less and job_delay_less   *)
(* (module Heap has the arrays).  The heap of connections holds those with *)
(* in_conns until it breaks: heapremove drops another connection on a tie  *)
(* (run HeapConns), and connsched ignores a failed heapinsert.  From then  *)
(* on conns_broken is TRUE and prottick may miss any connection and find   *)
(* any other.  waiting_conns is a set from which ms_take takes any member  *)
(* (module Ms has the cursor).  Tubes are never freed here.                *)
(***************************************************************************)
EXTENDS Integers, Sequences, FiniteSets, Functions

CONSTANTS
    Conns,          \* connection slots (a slot is reused after a close)
    NoConn,         \* the NULL of Job.reserver
    Tubes,          \* tube names
    Default,        \* the tube named "default"
    MaxId,          \* bound: job ids are 1..MaxId
    Pris,           \* priorities clients use
    Delays,         \* delays of put, release and pause-tube, in seconds
    Ttrs,           \* values of ttr, at least 1 (dispatch_cmd raises 0 to 1)
    Timeouts,       \* timeouts of reserve-with-timeout
    KickBounds,     \* bounds given to kick
    UrgentThreshold,
    SafetyMargin,   \* SAFETY_MARGIN of conn.c, one second
    MaxTime,        \* bound: the clock stops here
    Commands,       \* the commands the clients of this instance send
    HeapMayFail,    \* heapinsert can run out of memory
    WalMayFail,     \* a binlog is in use, on a disk that can fill up or fail
    CopyMayFail,    \* job_copy can run out of memory
    MaxLag          \* bound: how late the thread is for a due timer, and how
                    \* long prottick runs

Ids == 1..MaxId
Nil == 0            \* a NULL job pointer
Copy == -1          \* an out_job made by job_copy or do_stats
NoCopy == -2        \* the NULL that job_copy left in out_job for want of memory

ASSUME ConstantsOK ==
    /\ NoConn \notin Conns
    /\ Default \in Tubes
    /\ MaxId \in Nat /\ MaxTime \in Nat
    /\ Pris \subseteq Nat /\ Delays \subseteq Nat
    /\ Ttrs \subseteq Nat \ {0}
    /\ Timeouts \subseteq Nat
    /\ KickBounds \subseteq Nat
    /\ UrgentThreshold \in Nat /\ SafetyMargin \in Nat
    /\ HeapMayFail \in BOOLEAN /\ WalMayFail \in BOOLEAN
    /\ CopyMayFail \in BOOLEAN
    /\ MaxLag \in Nat

\* A server has finitely many file descriptors.
ASSUME ConnsFinite == IsFiniteSet(Conns)

VARIABLES
    q,              \* the jobs, the containers that hold them, the counters
    conn,           \* struct Conn of every slot
    waiting_conns,  \* per tube: connections waiting for one of its jobs
    pause,          \* per tube: is it paused (t->pause nonzero)
    unpause_at,
    next_id,
    drain_mode,
    clock,          \* what nanoseconds() returns
    task,           \* where the server thread is
    pq,             \* is process_queue looping
    conns_broken    \* has srv->conns ever ceased to hold exactly the
                    \* connections with in_conns

vars == <<q, conn, waiting_conns, pause, unpause_at, next_id, drain_mode,
          clock, task, pq, conns_broken>>

-----------------------------------------------------------------------------
(* Jobs and their containers                                               *)

JobStates == {"none", "invalid", "ready", "reserved", "buried", "delayed"}
Counters == {"ready", "urgent", "reserved", "buried", "waiting"}

JobRec == [state: JobStates, tube: Tubes, pri: Nat, delay: Nat, ttr: Nat,
           deadline_at: Nat, reserver: Conns \cup {NoConn}]

\* "none": job_find has nothing under this id (not yet made, or freed).
FreeJob == [state |-> "none", tube |-> Default, pri |-> 0, delay |-> 0,
            ttr |-> 0, deadline_at |-> 0, reserver |-> NoConn]

make_job(p, d, ttr, t) ==
    [FreeJob EXCEPT !.state = "invalid", !.tube = t, !.pri = p, !.delay = d,
                    !.ttr = ttr]

Store == [job: [Ids -> JobRec],
          ready: [Tubes -> SUBSET Ids], delay: [Tubes -> SUBSET Ids],
          buried: [Tubes -> Seq(Ids)], reserved_jobs: [Conns -> Seq(Ids)],
          ct: [Counters -> Int], tct: [Tubes -> [Counters -> Int]],
          wal_use: BOOLEAN]

\* Add n to a counter of global_stat and to the same counter of tube t.
Count(s, f, t, n) == [s EXCEPT !.ct[f] = @ + n, !.tct[t][f] = @ + n]

UrgentOf(s, j) == IF s.job[j].pri < UrgentThreshold THEN 1 ELSE 0

\* Faulty variant: the newest job of a priority first.
job_pri_less_newest(s, a, b) ==
    \/ s.job[a].pri < s.job[b].pri
    \/ s.job[a].pri = s.job[b].pri /\ a > b

job_pri_less(s, a, b) ==
    \/ s.job[a].pri < s.job[b].pri
    \/ s.job[a].pri = s.job[b].pri /\ a < b

job_delay_less(s, a, b) ==
    \/ s.job[a].deadline_at < s.job[b].deadline_at
    \/ s.job[a].deadline_at = s.job[b].deadline_at /\ a < b

\* x leaves the list; the others keep their order.
job_list_remove(l, x) ==
    LET i == CHOOSE i \in DOMAIN l : l[i] = x
    IN  [k \in 1..(Len(l) - 1) |-> IF k < i THEN l[k] ELSE l[k + 1]]

\* Faulty variant: the job stays in the hash.
job_free_unhashed(s, j) == [s EXCEPT !.job[j].state = "invalid"]

job_free(s, j) == [s EXCEPT !.job[j] = FreeJob]

\* Faulty variant: the urgent counter of the tube is forgotten.
remove_ready_job_urgent(s, j) ==
    LET t == s.job[j].tube
    IN  [s EXCEPT !.ready[t] = @ \ {j}, !.ct["ready"] = @ - 1,
                  !.ct["urgent"] = @ - UrgentOf(s, j)]

remove_ready_job(s, j) ==
    LET t == s.job[j].tube
    IN  Count([s EXCEPT !.ready[t] = @ \ {j}, !.ct["ready"] = @ - 1],
              "urgent", t, -UrgentOf(s, j))

remove_delayed_job(s, j) == [s EXCEPT !.delay[s.job[j].tube] = @ \ {j}]

remove_buried_job(s, j) ==
    LET t == s.job[j].tube
    IN  Count([s EXCEPT !.buried[t] = job_list_remove(@, j)], "buried", t, -1)

remove_this_reserved_job(s, c, j) ==
    Count([s EXCEPT !.reserved_jobs[c] = job_list_remove(@, j),
                    !.job[j].reserver = NoConn],
          "reserved", s.job[j].tube, -1)

\* Faulty variant: delayed jobs are forgotten.
UnqueueNotDelayed(s, j) ==
    CASE s.job[j].state = "ready"   -> remove_ready_job(s, j)
      [] s.job[j].state = "buried"  -> remove_buried_job(s, j)
      [] OTHER                      -> s

\* The job leaves the container of its state.
Unqueue(s, j) ==
    CASE s.job[j].state = "ready"   -> remove_ready_job(s, j)
      [] s.job[j].state = "delayed" -> remove_delayed_job(s, j)
      [] s.job[j].state = "buried"  -> remove_buried_job(s, j)
      [] OTHER                      -> s

bury_job(s, j) ==
    LET t == s.job[j].tube
    IN  Count([s EXCEPT !.buried[t] = Append(@, j),
                        !.job[j] = [@ EXCEPT !.state = "buried",
                                             !.reserver = NoConn]],
              "buried", t, 1)

\* What enqueue_job writes before its heapinsert.
Stamp(s, j, d) ==
    LET at == IF d = 0 THEN s.job[j].deadline_at ELSE clock + d
    IN  [s EXCEPT !.job[j] = [@ EXCEPT !.reserver = NoConn, !.deadline_at = at]]

EnqueueReady(s, j) ==
    LET t == s.job[j].tube
    IN  Count([s EXCEPT !.ready[t] = @ \cup {j}, !.ct["ready"] = @ + 1,
                        !.job[j].state = "ready"],
              "urgent", t, UrgentOf(s, j))

EnqueueDelayed(s, j) ==
    [s EXCEPT !.delay[s.job[j].tube] = @ \cup {j}, !.job[j].state = "delayed"]

enqueue_job(s, j, d) ==
    IF d = 0 THEN EnqueueReady(Stamp(s, j, d), j)
             ELSE EnqueueDelayed(Stamp(s, j, d), j)

\* A failed walwrite disables the binlog; walwrite then takes no action.
WalFailed(s) == IF s.wal_use THEN {[s EXCEPT !.wal_use = FALSE]} ELSE {}

\* The states in which enqueue_job returns 0: no memory for the heap, or
\* (when it must write the binlog) a failed walwrite after the insertion.
EnqueueFailures(s, j, d, update_store) ==
    (IF HeapMayFail THEN {Stamp(s, j, d)} ELSE {})
    \cup (IF update_store THEN WalFailed(enqueue_job(s, j, d)) ELSE {})

\* Faulty variant: enqueue_job does not call process_queue.
EnqueueQuietly(s, j, d, update_store) ==
    {[q |-> enqueue_job(s, j, d), pq |-> FALSE, ok |-> TRUE]}

\* enqueue_job, and the bury_job its callers fall back on.  process_queue
\* runs only when enqueue_job succeeds.
EnqueueOrBury(s, j, d, update_store) ==
    {[q |-> enqueue_job(s, j, d), pq |-> TRUE, ok |-> TRUE]}
    \cup {[q |-> bury_job(f, j), pq |-> FALSE, ok |-> FALSE] :
              f \in EnqueueFailures(s, j, d, update_store)}

\* walresvupdate returned 0: the callers that test it change nothing more.
Refused(s) ==
    IF s.wal_use THEN {[q |-> s, pq |-> FALSE, ok |-> FALSE]} ELSE {}

kick_buried_job(s, j) ==
    Refused(s) \cup EnqueueOrBury(remove_buried_job(s, j), j, 0, TRUE)

\* A delayed job that cannot be made ready is delayed again, else buried.
kick_delayed_job(s, j) ==
    LET s1 == remove_delayed_job(s, j)
    IN  Refused(s)
        \cup {[q |-> enqueue_job(s1, j, 0), pq |-> TRUE, ok |-> TRUE]}
        \cup UNION {{[r EXCEPT !.ok = FALSE] :
                        r \in EnqueueOrBury(f, j, s.job[j].delay, FALSE)} :
                    f \in EnqueueFailures(s1, j, 0, TRUE)}

-----------------------------------------------------------------------------
(* Connections                                                             *)

ConnStates == {"closed", "want_command", "want_data", "send_job", "send_word",
               "wait", "closing"}
Replies == {"none", "WORD", "RESERVED", "DEADLINE_SOON", "TIMED_OUT"}

ConnRec == [state: ConnStates, use: Tubes, watch: SUBSET Tubes,
            waiting: BOOLEAN, pending_timeout: Int, soonest_job: Ids \cup {Nil},
            tickat: Int, in_conns: BOOLEAN, in_job: Ids \cup {Nil},
            out_job: Ids \cup {Nil, Copy, NoCopy}, reply: Replies,
            until: Nat]     \* when the present wait is to time out (history)

\* What make_conn builds.
NewConn == [state |-> "want_command", use |-> Default, watch |-> {Default},
            waiting |-> FALSE, pending_timeout |-> -1, soonest_job |-> Nil,
            tickat |-> 0, in_conns |-> FALSE, in_job |-> Nil, out_job |-> Nil,
            reply |-> "none", until |-> 0]

ClosedConn == [NewConn EXCEPT !.state = "closed", !.watch = {}]

\* The first job of list l with the earliest deadline.
EarliestOf(s, l) ==
    LET first == {i \in DOMAIN l : \A k \in DOMAIN l :
                    s.job[l[i]].deadline_at <= s.job[l[k]].deadline_at}
    IN  l[CHOOSE i \in first : \A k \in first : i <= k]

\* connsoonestjob trusts the cached value when there is one.
connsoonestjob(s, c, cr) ==
    IF cr.soonest_job # Nil \/ s.reserved_jobs[c] = <<>>
    THEN cr.soonest_job
    ELSE EarliestOf(s, s.reserved_jobs[c])

conndeadlinesoon(s, c, cr) ==
    LET j == connsoonestjob(s, c, cr)
    IN  j # Nil /\ clock >= s.job[j].deadline_at - SafetyMargin

conn_ready(s, cr) == \E t \in cr.watch : s.ready[t] # {}

\* Faulty variants: no early tick for a waiting connection; no tick for the
\* timeout of a reserve.
TickTimesNoMargin(s, c, cr) ==
    (IF s.reserved_jobs[c] # <<>>
     THEN {s.job[connsoonestjob(s, c, cr)].deadline_at} ELSE {})
    \cup (IF cr.pending_timeout >= 0 THEN {clock + cr.pending_timeout} ELSE {})

TickTimesNoTimeout(s, c, cr) ==
    IF s.reserved_jobs[c] # <<>>
    THEN {s.job[connsoonestjob(s, c, cr)].deadline_at
          - IF cr.waiting THEN SafetyMargin ELSE 0}
    ELSE {}

\* When c must tick: its soonest reservation (early by the margin when it is
\* waiting) or its reserve timeout; {} stands for the 0 that means never.
TickTimes(s, c, cr) ==
    LET margin == IF cr.waiting THEN SafetyMargin ELSE 0
    IN  (IF s.reserved_jobs[c] # <<>>
         THEN {s.job[connsoonestjob(s, c, cr)].deadline_at - margin} ELSE {})
        \cup (IF cr.pending_timeout >= 0
              THEN {clock + cr.pending_timeout} ELSE {})

\* connsched: leave the conns heap, recompute tickat, enter it again.
connsched(s, c, cr) ==
    LET ts == TickTimes(s, c, cr)
        r  == IF s.reserved_jobs[c] = <<>> THEN cr
              ELSE [cr EXCEPT !.soonest_job = connsoonestjob(s, c, cr)]
    IN  IF ts = {} THEN [r EXCEPT !.tickat = 0, !.in_conns = FALSE]
        ELSE [r EXCEPT !.tickat = CHOOSE t \in ts : \A u \in ts : t <= u,
                       !.in_conns = TRUE]

\* c and another connection of the conns heap tick at the same time.
Tied(c) ==
    /\ conn[c].in_conns
    /\ \E d \in Conns \ {c} : conn[d].in_conns /\ conn[d].tickat = conn[c].tickat

\* The heapremove and the heapinsert of connsched or connclose for c.  When the
\* last cell of the heap is c and its parent is tied with it, c stays and the
\* parent is cut off.
MovesInHeap(c) ==
    conns_broken' \in {conns_broken}
        \cup IF Tied(c) \/ (HeapMayFail /\ conn'[c].in_conns) THEN {TRUE} ELSE {}

\* reply: epollq_add (which calls connsched), the line, the state.
reply(s, c, cr, msg, st) ==
    [connsched(s, c, cr) EXCEPT !.reply = msg, !.state = st]

reply_msg(s, c, cr, msg) == reply(s, c, cr, msg, "send_word")

reply_job(s, c, cr, j, msg) ==
    reply(s, c, [cr EXCEPT !.out_job = j], msg, "send_job")

\* Faulty variant: the ttr is subtracted.
ReserveForPast(s, c, j) ==
    Count([s EXCEPT !.job[j] = [@ EXCEPT !.deadline_at = clock - s.job[j].ttr,
                                         !.state = "reserved",
                                         !.reserver = c],
                    !.reserved_jobs[c] = Append(@, j)],
          "reserved", s.job[j].tube, 1)

\* The job's half of conn_reserve_job, with the global counter its callers add.
ReserveFor(s, c, j) ==
    Count([s EXCEPT !.job[j] = [@ EXCEPT !.deadline_at = clock + s.job[j].ttr,
                                         !.state = "reserved",
                                         !.reserver = c],
                    !.reserved_jobs[c] = Append(@, j)],
          "reserved", s.job[j].tube, 1)

\* The connection's half: s is the store after ReserveFor.
Granted(s, cr, j) ==
    [cr EXCEPT !.pending_timeout = -1,
               !.soonest_job =
                    IF @ = Nil \/ s.job[j].deadline_at < s.job[@].deadline_at
                    THEN j ELSE @]

\* The sets and counters of enqueue_waiting_conn and remove_waiting_conn.
Enlisted(w, c, ts) == [t \in Tubes |-> IF t \in ts THEN w[t] \cup {c} ELSE w[t]]

\* Faulty variant: remove_waiting_conn stops at the first tube.
DelistedOnce(w, c, ts) ==
    LET u == CHOOSE u \in ts : TRUE
    IN  [w EXCEPT ![u] = @ \ {c}]

Delisted(w, c, ts) == [t \in Tubes |-> IF t \in ts THEN w[t] \ {c} ELSE w[t]]

CountWaiting(s, ts, n) ==
    [s EXCEPT !.ct["waiting"] = @ + n,
              !.tct = [t \in Tubes |->
                        [s.tct[t] EXCEPT !["waiting"] =
                            IF t \in ts THEN @ + n ELSE @]]]

\* c stops waiting and is told msg; a no-op on the sets if it was not waiting.
StopWaiting(c, cr, msg) ==
    LET s == IF cr.waiting THEN CountWaiting(q, cr.watch, -1) ELSE q
    IN  /\ q' = s
        /\ waiting_conns' = IF cr.waiting
                            THEN Delisted(waiting_conns, c, cr.watch)
                            ELSE waiting_conns
        /\ conn' = [conn EXCEPT ![c] =
                        reply_msg(s, c, [cr EXCEPT !.waiting = FALSE,
                                                   !.until = 0], msg)]
        /\ MovesInHeap(c)

-----------------------------------------------------------------------------
(* The server thread                                                       *)

TaskOps == {"socknext", "dispatch", "tick", "timeout", "resched", "close",
            "kick"}
Task == [op: TaskOps, conn: Conns \cup {NoConn}, now: Nat, soon: BOOLEAN,
         left: Nat, buried: BOOLEAN]

Socknext == [op |-> "socknext", conn |-> NoConn, now |-> 0, soon |-> FALSE,
             left |-> 0, buried |-> FALSE]

\* A handler has returned: srvserve calls prottick, which reads the clock.
Tick == [Socknext EXCEPT !.op = "tick", !.now = clock]

EndHandler == task' = Tick

Init ==
    /\ q = [job |-> [j \in Ids |-> FreeJob],
            ready |-> [t \in Tubes |-> {}], delay |-> [t \in Tubes |-> {}],
            buried |-> [t \in Tubes |-> <<>>],
            reserved_jobs |-> [c \in Conns |-> <<>>],
            ct |-> [f \in Counters |-> 0],
            tct |-> [t \in Tubes |-> [f \in Counters |-> 0]],
            wal_use |-> WalMayFail]
    /\ conn = [c \in Conns |-> ClosedConn]
    /\ waiting_conns = [t \in Tubes |-> {}]
    /\ pause = [t \in Tubes |-> FALSE]
    /\ unpause_at = [t \in Tubes |-> 0]
    /\ next_id = 1
    /\ drain_mode = FALSE
    /\ clock = 1
    /\ task = Socknext
    /\ pq = FALSE
    /\ conns_broken = FALSE

\* A socket event can be handled.
Listening == task.op = "socknext" /\ ~pq

\* The thread can work on c: an event of c arrives, or c's handler goes on
\* with what was already read from its socket (h_conn's loop on cmd_data_ready,
\* fill_extra_data) before prottick runs again.
Serving(c) == \/ Listening
              \/ task.op = "dispatch" /\ task.conn = c /\ ~pq

\* The handler of c returns, or goes on with pipelined input.
EndOrGoOn(c) ==
    \/ EndHandler
    \/ /\ "pipeline" \in Commands
       /\ task' = [Socknext EXCEPT !.op = "dispatch", !.conn = c]

\* A complete command line of c is read and dispatch_cmd switches on it.
Command(c, cmd) ==
    Serving(c) /\ conn[c].state = "want_command" /\ cmd \in Commands

(***************************************************************************)
(* One iteration of process_queue.  Tubes whose pause is over are          *)
(* unpaused; the best ready job some connection waits for goes to one of   *)
(* the connections waiting on its tube.  When no job is awaited the loop   *)
(* ends.  A heap top that is not in state ready is left there and the loop *)
(* goes round again ("job not ready").                                     *)
(***************************************************************************)
Unpaused(t) == ~pause[t] \/ unpause_at[t] <= clock

Awaited == UNION {q.ready[t] : t \in {u \in Tubes : Unpaused(u)
                                                  /\ waiting_conns[u] # {}}}

HandOver(j, c) ==
    LET cr == conn[c]
        s  == ReserveFor(CountWaiting(remove_ready_job(q, j), cr.watch, -1),
                         c, j)
    IN  /\ q' = s
        /\ waiting_conns' = Delisted(waiting_conns, c, cr.watch)
        /\ conn' = [conn EXCEPT ![c] =
                reply_job(s, c, Granted(s, [cr EXCEPT !.waiting = FALSE,
                                                      !.until = 0], j),
                          j, "RESERVED")]
        /\ MovesInHeap(c)

process_queue ==
    /\ pq
    /\ pause' = [t \in Tubes |-> pause[t] /\ ~Unpaused(t)]
    /\ \/ /\ Awaited = {}
          /\ pq' = FALSE
          /\ UNCHANGED <<q, conn, waiting_conns, conns_broken>>
       \/ \E j \in Awaited :
            /\ \A k \in Awaited \ {j} : job_pri_less(q, j, k)
            /\ \/ /\ q.job[j].state = "ready"
                  /\ \E c \in waiting_conns[q.job[j].tube] : HandOver(j, c)
               \/ /\ q.job[j].state # "ready"
                  /\ UNCHANGED <<q, conn, waiting_conns, conns_broken>>
            /\ UNCHANGED pq
    /\ UNCHANGED <<unpause_at, next_id, drain_mode, clock, task>>

-----------------------------------------------------------------------------
(* Commands that put and take jobs                                         *)

\* What a command about jobs leaves alone.
ServerFrame == UNCHANGED <<waiting_conns, pause, unpause_at, next_id,
                           drain_mode, clock>>

\* c's record becomes cr with a reply, and the handler of c ends.
Answer(s, c, cr, msg) ==
    /\ conn' = [conn EXCEPT ![c] = reply_msg(s, c, cr, msg)]
    /\ MovesInHeap(c)
    /\ EndHandler

\* put: the job gets its id before its body is read.
put(c, p, d, ttr) ==
    /\ Command(c, "put")
    /\ next_id \in Ids
    /\ q' = [q EXCEPT !.job[next_id] = make_job(p, d, ttr, conn[c].use)]
    /\ conn' = [conn EXCEPT ![c].in_job = next_id, ![c].state = "want_data"]
    /\ next_id' = next_id + 1
    /\ EndOrGoOn(c)
    /\ UNCHANGED <<waiting_conns, pause, unpause_at, drain_mode, clock, pq,
                   conns_broken>>

\* The body is complete.  Without its trailer, or when draining, the job is
\* freed; when walresvput finds no space it stays in the hash with no owner.
enqueue_incoming_job(c) ==
    LET j  == conn[c].in_job
        cr == [conn[c] EXCEPT !.in_job = Nil]
    IN  /\ Serving(c) /\ conn[c].state = "want_data"
        /\ \/ \* no trailer
              q' = job_free(q, j) /\ UNCHANGED pq
           \/ /\ drain_mode
              /\ q' = job_free(q, j) /\ UNCHANGED pq
           \/ /\ ~drain_mode
              /\ \E r \in Refused(q) \cup EnqueueOrBury(q, j, q.job[j].delay,
                                                        TRUE) :
                    q' = r.q /\ pq' = r.pq
        /\ Answer(q', c, cr, "WORD")
        /\ ServerFrame

wait_for_job(c, timeout) ==
    LET cr == [conn[c] EXCEPT !.state = "wait", !.waiting = TRUE,
                              !.pending_timeout = timeout,
                              !.until = IF timeout < 0 THEN 0
                                        ELSE clock + timeout]
    IN  /\ q' = CountWaiting(q, cr.watch, 1)
        /\ waiting_conns' = Enlisted(waiting_conns, c, cr.watch)
        /\ conn' = [conn EXCEPT ![c] = connsched(q, c, cr)]
        /\ MovesInHeap(c)

\* reserve and reserve-with-timeout; timeout = -1 for the former.
reserve(c, timeout) ==
    /\ Command(c, "reserve")
    /\ \/ /\ conndeadlinesoon(q, c, conn[c]) /\ ~conn_ready(q, conn[c])
          /\ Answer(q, c, conn[c], "DEADLINE_SOON")
          /\ UNCHANGED <<q, waiting_conns, pq>>
       \/ /\ ~(conndeadlinesoon(q, c, conn[c]) /\ ~conn_ready(q, conn[c]))
          /\ wait_for_job(c, timeout)
          /\ pq' = TRUE
          /\ EndHandler
    /\ UNCHANGED <<pause, unpause_at, next_id, drain_mode, clock>>

reserve_job(c, j) ==
    /\ Command(c, "reserve_job")
    /\ q.job[j].state \in {"ready", "buried", "delayed"}
    /\ q' = ReserveFor(Unqueue(q, j), c, j)
    /\ conn' = [conn EXCEPT ![c] =
                    reply_job(q', c, Granted(q', conn[c], j), j, "RESERVED")]
    /\ MovesInHeap(c)
    /\ EndHandler
    /\ ServerFrame /\ UNCHANGED pq

is_job_reserved_by_conn(c, j) ==
    q.job[j].state = "reserved" /\ q.job[j].reserver = c

\* Faulty variant: soonest_job is not reset.
ForgetsNothing(c) == conn[c]

\* c's record once remove_this_reserved_job has run.
Forgets(c) == [conn[c] EXCEPT !.soonest_job = Nil]

delete(c, j) ==
    /\ Command(c, "delete")
    /\ \/ /\ is_job_reserved_by_conn(c, j)
          /\ \E s \in {remove_this_reserved_job(q, c, j)} :
                \E w \in {s} \cup WalFailed(s) : q' = job_free(w, j)
          /\ Answer(q', c, Forgets(c), "WORD")
       \/ /\ q.job[j].state \in {"ready", "buried", "delayed"}
          /\ \E s \in {Unqueue(q, j)} :
                \E w \in {s} \cup WalFailed(s) : q' = job_free(w, j)
          /\ Answer(q', c, conn[c], "WORD")
    /\ ServerFrame /\ UNCHANGED pq

\* A release with a delay reserves binlog space after it took the job.
release(c, j, p, d) ==
    LET s == remove_this_reserved_job(q, c, j)
    IN  /\ Command(c, "release")
        /\ is_job_reserved_by_conn(c, j)
        /\ \E r \in (IF d > 0 THEN Refused(s) ELSE {}) \cup
                    EnqueueOrBury([s EXCEPT !.job[j] = [@ EXCEPT !.pri = p,
                                                           !.delay = d]],
                                  j, d, d > 0) :
                q' = r.q /\ pq' = r.pq
        /\ Answer(q', c, Forgets(c), "WORD")
        /\ ServerFrame

\* bury_job with update_store = 1.
bury(c, j, p) ==
    LET s == [remove_this_reserved_job(q, c, j) EXCEPT !.job[j].pri = p]
        b == bury_job(s, j)
    IN  /\ Command(c, "bury")
        /\ is_job_reserved_by_conn(c, j)
        /\ \/ q' \in {b} \cup WalFailed(b)
           \/ \E r \in Refused(s) : q' = r.q
        /\ Answer(q', c, Forgets(c), "WORD")
        /\ ServerFrame /\ UNCHANGED pq

touch(c, j) ==
    /\ Command(c, "touch")
    /\ is_job_reserved_by_conn(c, j)
    /\ q' = [q EXCEPT !.job[j].deadline_at = clock + q.job[j].ttr]
    /\ Answer(q', c, Forgets(c), "WORD")
    /\ ServerFrame /\ UNCHANGED pq

kick_job(c, j) ==
    /\ Command(c, "kick_job")
    /\ \E r \in CASE q.job[j].state = "buried"  -> kick_buried_job(q, j)
                  [] q.job[j].state = "delayed" -> kick_delayed_job(q, j)
                  [] OTHER                      -> {} :
            q' = r.q /\ pq' = r.pq
    /\ Answer(q', c, conn[c], "WORD")
    /\ ServerFrame

\* kick_jobs looks once for buried jobs, then loops on one of the queues.
kick(c, n) ==
    /\ Command(c, "kick")
    /\ task' = [Socknext EXCEPT !.op = "kick", !.conn = c, !.left = n,
                                !.buried = q.buried[conn[c].use] # <<>>]
    /\ ServerFrame /\ UNCHANGED <<q, conn, pq, conns_broken>>

\* The jobs of tube t that the loop of kick_jobs could kick next.
Kickable(t) ==
    IF task.buried
    THEN {q.buried[t][i] : i \in {1} \cap DOMAIN q.buried[t]}
    ELSE {j \in q.delay[t] : \A k \in q.delay[t] \ {j} : job_delay_less(q, j, k)}

Kicking == task.op = "kick" /\ ~pq

kick_jobs ==
    /\ Kicking /\ task.left > 0
    /\ \E j \in Kickable(conn[task.conn].use) :
            \E r \in IF task.buried THEN kick_buried_job(q, j)
                                    ELSE kick_delayed_job(q, j) :
                q' = r.q /\ pq' = r.pq
    /\ task' = [task EXCEPT !.left = @ - 1]
    /\ ServerFrame /\ UNCHANGED <<conn, conns_broken>>

kick_end ==
    /\ Kicking
    /\ task.left = 0 \/ Kickable(conn[task.conn].use) = {}
    /\ Answer(q, task.conn, conn[task.conn], "WORD")
    /\ ServerFrame /\ UNCHANGED <<q, pq>>

-----------------------------------------------------------------------------
(* Commands about tubes, and the ones that only look                       *)

\* What a command that moves no job leaves alone.
JobFrame == UNCHANGED <<q, waiting_conns, next_id, drain_mode, clock, pq>>

use(c, t) ==
    /\ Command(c, "use")
    /\ Answer(q, c, [conn[c] EXCEPT !.use = t], "WORD")
    /\ JobFrame /\ UNCHANGED <<pause, unpause_at>>

watch(c, t) ==
    /\ Command(c, "watch")
    /\ Answer(q, c, [conn[c] EXCEPT !.watch = @ \cup {t}], "WORD")
    /\ JobFrame /\ UNCHANGED <<pause, unpause_at>>

\* The last watched tube cannot be ignored.
ignore(c, t) ==
    /\ Command(c, "ignore")
    /\ t \in conn[c].watch => Cardinality(conn[c].watch) >= 2
    /\ Answer(q, c, [conn[c] EXCEPT !.watch = @ \ {t}], "WORD")
    /\ JobFrame /\ UNCHANGED <<pause, unpause_at>>

\* pause-tube: a delay of 0 becomes one nanosecond, here one tick.
pause_tube(c, t, d) ==
    /\ Command(c, "pause_tube")
    /\ pause' = [pause EXCEPT ![t] = TRUE]
    /\ unpause_at' = [unpause_at EXCEPT ![t] = clock + IF d = 0 THEN 1 ELSE d]
    /\ Answer(q, c, conn[c], "WORD")
    /\ JobFrame

\* peek*, stats* and list-tubes*: the answer is a copy of a job, or a made-up
\* job that carries the text.
inspect(c) ==
    /\ Command(c, "inspect")
    /\ conn' = [conn EXCEPT ![c] = reply_job(q, c, conn[c], Copy, "WORD")]
    /\ MovesInHeap(c)
    /\ EndHandler
    /\ JobFrame /\ UNCHANGED <<pause, unpause_at>>

\* Every command that is answered with an error line and changes nothing:
\* NOT_FOUND, NOT_IGNORED, BAD_FORMAT, JOB_TOO_BIG, UNKNOWN_COMMAND...
refuse(c) ==
    /\ Serving(c) /\ conn[c].state = "want_command"
    /\ Answer(q, c, conn[c], "WORD")
    /\ JobFrame /\ UNCHANGED <<pause, unpause_at>>

-----------------------------------------------------------------------------
(* Connections come, write and go                                          *)

\* A client connects.  When make_conn or the first sockwant fails the socket is
\* closed at once and no event of it will ever come.
h_accept(c) ==
    /\ Listening /\ conn[c].state = "closed"
    /\ \/ conn' = [conn EXCEPT ![c] = NewConn]
       \/ "sockwant" \in Commands /\ UNCHANGED conn
    /\ EndHandler
    /\ JobFrame /\ UNCHANGED <<pause, unpause_at, conns_broken>>

\* Faulty variant: out_job is kept.
conn_want_command_keeps(c) ==
    /\ Listening /\ conn[c].state \in {"send_word", "send_job"}
    /\ conn' = [conn EXCEPT ![c] =
                    [connsched(q, c, conn[c]) EXCEPT !.reply = "none",
                                                     !.state = "want_command"]]
    /\ MovesInHeap(c)
    /\ EndOrGoOn(c)
    /\ JobFrame /\ UNCHANGED <<pause, unpause_at>>

\* The reply (and its job) is written out; conn_want_command reschedules the
\* connection and drops its copy.  STATE_SEND_JOB reads through out_job: with
\* the NULL of a failed copy the process ends there, and so does the behaviour.
conn_want_command(c) ==
    /\ Listening /\ conn[c].state \in {"send_word", "send_job"}
    /\ ~(conn[c].state = "send_job" /\ conn[c].out_job = NoCopy)
    /\ conn' = [conn EXCEPT ![c] =
                    [connsched(q, c, conn[c]) EXCEPT !.out_job = Nil,
                        !.reply = "none", !.state = "want_command"]]
    /\ MovesInHeap(c)
    /\ EndOrGoOn(c)
    /\ JobFrame /\ UNCHANGED <<pause, unpause_at>>

\* The client of a waiting connection hangs up its sending side.
hangup(c) ==
    /\ Listening /\ conn[c].state = "wait" /\ "hangup" \in Commands
    /\ StopWaiting(c, [conn[c] EXCEPT !.pending_timeout = -1], "TIMED_OUT")
    /\ EndHandler
    /\ UNCHANGED <<pause, unpause_at, next_id, drain_mode, clock, pq>>

\* connclose up to enqueue_reserved_jobs.  A connection is closed on end of
\* file, on an error of its socket or by quit; when it waits, only because
\* sockwant failed.
connclose(c) ==
    LET cr == conn[c]
        s  == IF cr.in_job = Nil THEN q ELSE job_free(q, cr.in_job)
    IN  /\ Serving(c) /\ "close" \in Commands
        /\ \/ cr.state \in {"want_command", "want_data", "send_word", "send_job"}
           \/ cr.state = "wait" /\ "sockwant" \in Commands
        /\ q' = IF cr.waiting THEN CountWaiting(s, cr.watch, -1) ELSE s
        /\ waiting_conns' = IF cr.waiting
                            THEN Delisted(waiting_conns, c, cr.watch)
                            ELSE waiting_conns
        /\ conn' = [conn EXCEPT ![c] =
                        [cr EXCEPT !.in_job = Nil, !.out_job = Nil,
                                   !.waiting = FALSE, !.until = 0,
                                   !.state = "closing"]]
        /\ task' = [Socknext EXCEPT !.op = "close", !.conn = c]
        /\ UNCHANGED <<pause, unpause_at, next_id, drain_mode, clock, pq,
                       conns_broken>>

Closing == task.op = "close" /\ ~pq

\* One iteration of its loop.  (The reserved counters go down after the
\* process_queue in enqueue_job, which does not read them.)
enqueue_reserved_jobs ==
    LET c == task.conn
        j == q.reserved_jobs[c][1]
    IN  /\ Closing /\ q.reserved_jobs[c] # <<>>
        /\ \E r \in EnqueueOrBury(remove_this_reserved_job(q, c, j), j, 0,
                                  FALSE) :
                q' = r.q /\ pq' = r.pq
        /\ conn' = [conn EXCEPT ![c] = Forgets(c)]
        /\ ServerFrame /\ UNCHANGED <<task, conns_broken>>

close_end ==
    /\ Closing /\ q.reserved_jobs[task.conn] = <<>>
    /\ conn' = [conn EXCEPT ![task.conn] = ClosedConn]
    /\ MovesInHeap(task.conn)
    /\ EndHandler
    /\ JobFrame /\ UNCHANGED <<pause, unpause_at>>

\* The handler of SIGUSR1 can run between any two steps.
enter_drain_mode ==
    /\ "drain" \in Commands /\ ~drain_mode
    /\ drain_mode' = TRUE
    /\ UNCHANGED <<q, conn, waiting_conns, pause, unpause_at, next_id, clock,
                   task, pq, conns_broken>>

-----------------------------------------------------------------------------
(* prottick                                                                *)

Delayed == UNION {q.delay[t] : t \in Tubes}
DueJobs(now) == {j \in Delayed : q.job[j].deadline_at <= now}
DueTubes(now) == {t \in Tubes : pause[t] /\ unpause_at[t] <= now}
DueConns(now) == {c \in Conns : conn[c].in_conns /\ conn[c].tickat <= now}

\* Faulty variant: prottick sleeps without looking at the delayed jobs.
NothingDueButJobs(now) ==
    DueTubes(now) = {} /\ (conns_broken \/ DueConns(now) = {})

\* prottick finds nothing to do, or misses the connections of a broken heap.
NothingDue(now) ==
    /\ DueJobs(now) = {} /\ DueTubes(now) = {}
    /\ conns_broken \/ DueConns(now) = {}

Ticking == task.op = "tick" /\ ~pq

\* The least of its own delay heap, and no other heap has an earlier one.
soonest_delayed_job(j) ==
    \A k \in Delayed \ {j} :
        IF q.job[k].tube = q.job[j].tube THEN job_delay_less(q, j, k)
        ELSE q.job[j].deadline_at <= q.job[k].deadline_at

tick_delayed ==
    /\ Ticking
    /\ \E j \in DueJobs(task.now) :
        /\ soonest_delayed_job(j)
        /\ \E r \in EnqueueOrBury(remove_delayed_job(q, j), j, 0, FALSE) :
                q' = r.q /\ pq' = r.pq
    /\ ServerFrame /\ UNCHANGED <<conn, task, conns_broken>>

tick_unpause ==
    /\ Ticking /\ DueJobs(task.now) = {}
    /\ \E t \in DueTubes(task.now) : pause' = [pause EXCEPT ![t] = FALSE]
    /\ pq' = TRUE
    /\ UNCHANGED <<q, conn, waiting_conns, unpause_at, next_id, drain_mode,
                   clock, task, conns_broken>>

\* Faulty variant: whether or not the client is waiting.
should_timeout_any(c) == conndeadlinesoon(q, c, conn[c])

\* The client waits for a job and must be warned of one it holds.
should_timeout(c) == conn[c].waiting /\ conndeadlinesoon(q, c, conn[c])

tick_end ==
    /\ Ticking /\ NothingDue(task.now)
    /\ task' = Socknext
    /\ JobFrame /\ UNCHANGED <<conn, pause, unpause_at, conns_broken>>

\* Faulty variant: off by one.
ExpiredEarly(c) ==
    LET j == connsoonestjob(q, c, conn[c])
    IN  j # Nil /\ q.job[j].deadline_at <= clock

\* Has the soonest reservation of c run out of time?
Expired(c) ==
    LET j == connsoonestjob(q, c, conn[c])
    IN  j # Nil /\ q.job[j].deadline_at < clock

\* The connections that may be at the root of the conns heap and due: the least
\* one; in a broken heap any of them, and one that was left in it by mistake (it
\* matters only when conn_timeout has something to do for it).
DueRoots(now) ==
    IF conns_broken
    THEN DueConns(now) \cup
         {c \in Conns : conn[c].tickat <= now /\ (Expired(c) \/ should_timeout(c))}
    ELSE {c \in DueConns(now) :
            \A d \in DueConns(now) : conn[c].tickat <= conn[d].tickat}

\* The root of the conns heap is taken out, which no tie disturbs; conn_timeout
\* starts.
tick_conn ==
    /\ Ticking /\ DueJobs(task.now) = {} /\ DueTubes(task.now) = {}
    /\ \E c \in DueRoots(task.now) :
        /\ conn' = [conn EXCEPT ![c].in_conns = FALSE]
        /\ task' = [task EXCEPT !.op = "timeout", !.conn = c,
                                         !.soon = should_timeout(c)]
    /\ JobFrame /\ UNCHANGED <<pause, unpause_at, conns_broken>>

-----------------------------------------------------------------------------
(* conn_timeout                                                            *)

TimingOut == task.op = "timeout" /\ ~pq

\* One iteration of the loop over expired reservations.  A job that is being
\* written out is replaced by a copy first, or by NULL when job_copy fails.
timeout_job ==
    LET c == task.conn
        j == connsoonestjob(q, c, conn[c])
    IN  /\ TimingOut /\ Expired(c)
        /\ \E r \in EnqueueOrBury(remove_this_reserved_job(q, c, j), j, 0,
                                  FALSE) :
                q' = r.q /\ pq' = r.pq
        /\ \E copy \in {Copy} \cup IF CopyMayFail THEN {NoCopy} ELSE {} :
                conn' = [conn EXCEPT ![c] =
                            [Forgets(c) EXCEPT !.out_job =
                                IF @ = j THEN copy ELSE @]]
        /\ task' = [task EXCEPT !.op = "resched"]
        /\ ServerFrame /\ UNCHANGED conns_broken

\* The connsched at the end of an iteration, after enqueue_job's process_queue.
timeout_resched ==
    /\ task.op = "resched" /\ ~pq
    /\ conn' = [conn EXCEPT ![task.conn] =
                    connsched(q, task.conn, conn[task.conn])]
    /\ MovesInHeap(task.conn)
    /\ task' = [task EXCEPT !.op = "timeout"]
    /\ JobFrame /\ UNCHANGED <<pause, unpause_at>>

\* After the loop: tell a waiting client, and go on with prottick.
timeout_end ==
    LET c  == task.conn
        cr == [conn[c] EXCEPT !.soonest_job = connsoonestjob(q, c, conn[c])]
    IN  /\ TimingOut /\ ~Expired(c)
        /\ \/ /\ task.soon
              /\ StopWaiting(c, cr, "DEADLINE_SOON")
           \/ /\ ~task.soon /\ cr.waiting /\ cr.pending_timeout >= 0
              /\ StopWaiting(c, [cr EXCEPT !.pending_timeout = -1], "TIMED_OUT")
           \/ /\ ~task.soon /\ ~(cr.waiting /\ cr.pending_timeout >= 0)
              /\ conn' = [conn EXCEPT ![c] = cr]
              /\ UNCHANGED <<q, waiting_conns, conns_broken>>
        /\ task' = [task EXCEPT !.op = "tick", !.conn = NoConn, !.soon = FALSE]
        /\ UNCHANGED <<pause, unpause_at, next_id, drain_mode, clock, pq>>

-----------------------------------------------------------------------------
(* Time, and the whole server                                              *)

\* socknext returns when the period that prottick computed has passed; a broken
\* heap can make that any time.
Wake ==
    /\ Listening
    /\ conns_broken \/ ~NothingDue(clock)
    /\ EndHandler
    /\ JobFrame /\ UNCHANGED <<conn, pause, unpause_at, conns_broken>>

\* Time passes while the thread waits, and between two calls of nanoseconds()
\* in prottick and conn_timeout.
AdvanceClock ==
    /\ clock < MaxTime
    /\ \/ Listening /\ NothingDue(clock - MaxLag)
       \/ (Ticking \/ TimingOut) /\ clock < task.now + MaxLag
    /\ clock' = clock + 1
    /\ UNCHANGED <<q, conn, waiting_conns, pause, unpause_at, next_id,
                   drain_mode, task, pq, conns_broken>>

\* The steps the server thread takes by itself once it has begun.
ServerStep ==
    \/ process_queue
    \/ kick_jobs \/ kick_end
    \/ enqueue_reserved_jobs \/ close_end
    \/ tick_delayed \/ tick_unpause \/ tick_conn \/ tick_end
    \/ timeout_job \/ timeout_resched \/ timeout_end
    \/ Wake

\* What the client on connection c makes the server do.
ClientStep(c) ==
    \/ h_accept(c) \/ conn_want_command(c) \/ hangup(c) \/ connclose(c)
    \/ refuse(c) \/ inspect(c)
    \/ \E p \in Pris, d \in Delays, ttr \in Ttrs : put(c, p, d, ttr)
    \/ enqueue_incoming_job(c)
    \/ \E timeout \in Timeouts \cup {-1} : reserve(c, timeout)
    \/ \E j \in Ids : \/ reserve_job(c, j) \/ delete(c, j) \/ touch(c, j)
                      \/ kick_job(c, j)
                      \/ \E p \in Pris : bury(c, j, p)
                      \/ \E p \in Pris, d \in Delays : release(c, j, p, d)
    \/ \E n \in KickBounds : kick(c, n)
    \/ \E t \in Tubes : \/ use(c, t) \/ watch(c, t) \/ ignore(c, t)
                        \/ \E d \in Delays : pause_tube(c, t, d)

Next == \/ ServerStep
        \/ \E c \in Conns : ClientStep(c)
        \/ enter_drain_mode
        \/ AdvanceClock

Spec == Init /\ [][Next]_vars

\* The thread runs (srvserve never blocks while something is due), and time
\* passes however busy the clients keep the server.
FairSpec == Spec /\ WF_vars(ServerStep) /\ SF_vars(AdvanceClock)

-----------------------------------------------------------------------------
(* Properties                                                              *)

\* The variables keep their types (the structs of dat.h).
TypeOK ==
    /\ q \in Store
    /\ conn \in [Conns -> ConnRec]
    /\ waiting_conns \in [Tubes -> SUBSET Conns]
    /\ pause \in [Tubes -> BOOLEAN]
    /\ unpause_at \in [Tubes -> Nat]
    /\ next_id \in 1..(MaxId + 1)
    /\ drain_mode \in BOOLEAN
    /\ clock \in Nat
    /\ task \in Task
    /\ pq \in BOOLEAN
    /\ conns_broken \in BOOLEAN

\* Job j is in the container that its state, tube and reserver name, and in
\* no other.
Placed(s, j) ==
    LET r == s.job[j]
    IN  /\ \A t \in Tubes :
            /\ j \in s.ready[t] <=> r.state = "ready" /\ r.tube = t
            /\ j \in s.delay[t] <=> r.state = "delayed" /\ r.tube = t
            /\ j \in Range(s.buried[t]) <=> r.state = "buried" /\ r.tube = t
        /\ \A c \in Conns :
            j \in Range(s.reserved_jobs[c]) <=> r.state = "reserved"
                                                /\ r.reserver = c
        /\ r.reserver # NoConn <=> r.state = "reserved"

\* No job is twice in a buried list or in a list of reserved jobs.
NoDuplicates(s) ==
    /\ \A t \in Tubes : IsInjective(s.buried[t])
    /\ \A c \in Conns : IsInjective(s.reserved_jobs[c])

\* Every job is in exactly one place: one heap or list, or the connection that
\* uploads it.  It takes every remove_*_job, enqueue_job, bury_job and
\* conn_reserve_job of prot.c and conn.c to keep it so.
JobPlacement ==
    /\ \A j \in Ids : Placed(q, j)
    /\ NoDuplicates(q)
    /\ \A c \in Conns : conn[c].in_job # Nil =>
            q.job[conn[c].in_job].state = "invalid"
    /\ \A c, d \in Conns : conn[c].in_job = conn[d].in_job =>
            c = d \/ conn[c].in_job = Nil

\* The statistics agree with the containers (global_stat, ready_ct, t->stat):
\* each is kept by increments spread over a dozen functions.
CountersExact ==
    LET Jobs(st) == {j \in Ids : q.job[j].state = st}
        In(t, st) == {j \in Jobs(st) : q.job[j].tube = t}
        Urgent == {j \in Jobs("ready") : q.job[j].pri < UrgentThreshold}
    IN  /\ q.ct["ready"] = Cardinality(Jobs("ready"))
        /\ q.ct["urgent"] = Cardinality(Urgent)
        /\ q.ct["reserved"] = Cardinality(Jobs("reserved"))
        /\ q.ct["buried"] = Cardinality(Jobs("buried"))
        /\ q.ct["waiting"] = Cardinality({c \in Conns : conn[c].waiting})
        /\ \A t \in Tubes :
            /\ q.tct[t]["urgent"] = Cardinality(In(t, "ready") \cap Urgent)
            /\ q.tct[t]["reserved"] = Cardinality(In(t, "reserved"))
            /\ q.tct[t]["buried"] = Cardinality(In(t, "buried"))
            /\ q.tct[t]["waiting"] = Cardinality(waiting_conns[t])

\* A connection is in waiting_conns of exactly the tubes it watches while it
\* waits, and of none otherwise (enqueue_waiting_conn, remove_waiting_conn).
WaitingSetsAgree ==
    \A c \in Conns :
        /\ conn[c].waiting <=> conn[c].state = "wait"
        /\ \A t \in Tubes : c \in waiting_conns[t] <=>
                conn[c].waiting /\ t \in conn[c].watch

\* Whenever the server thread is done with its queues, no ready job of an
\* unpaused tube has a connection waiting for it: every place that makes a job
\* ready, a tube unpaused or a connection wait goes through process_queue.
NoMissedHandoff ==
    ~pq => \A t \in Tubes :
        pause[t] \/ q.ready[t] = {} \/ waiting_conns[t] = {}

\* soonest_job, the cache of conn.c, is never a job the connection no longer
\* holds: every path that takes a job away resets it.
SoonestJobHeld ==
    \A c \in Conns : conn[c].soonest_job # Nil =>
        conn[c].soonest_job \in Range(q.reserved_jobs[c])

\* The job a connection is writing out is a copy or is reserved by that same
\* connection, so that nobody can free it meanwhile (the comment in
\* conn_timeout); and there is one whenever the state says so, unless job_copy
\* found no memory.
OutJobSafe ==
    \A c \in Conns :
        /\ conn[c].state = "send_job" => conn[c].out_job # Nil
        /\ conn[c].out_job = NoCopy => CopyMayFail
        /\ conn[c].out_job \notin {Nil, Copy, NoCopy} =>
                conn[c].out_job \in Range(q.reserved_jobs[c])

\* While the conns heap is whole, a connection that waits with a timeout is in
\* it, with a tick no later than the end of the timeout it asked for, and no
\* later than the margin of the job that connsoonestjob names: connsched, which
\* counts the timeout from the present time again, is not called while the
\* connection waits (conntickat, connsched, wait_for_job).
WaiterArmed ==
    Listening /\ ~conns_broken => \A c \in Conns :
        conn[c].waiting /\ conn[c].pending_timeout >= 0 =>
            LET j == connsoonestjob(q, c, conn[c])
            IN  /\ conn[c].in_conns
                /\ conn[c].tickat <= conn[c].until
                /\ j # Nil =>
                    conn[c].tickat <= q.job[j].deadline_at - SafetyMargin

\* A reservation ends only by a command of the connection that holds it, by
\* the close of that connection, or after its deadline has passed.
LeaseEnds ==
    [][\A j \in Ids, c \in Conns :
        /\ is_job_reserved_by_conn(c, j)
        /\ ~(q'.job[j].state = "reserved" /\ q'.job[j].reserver = c)
        => \/ q.job[j].deadline_at < clock
           \/ conn[c].state = "closing"
           \/ conn[c].state = "want_command" /\ conn'[c].state = "send_word"
      ]_vars

\* A connection that waits is given the job with the least priority and then
\* the least id among all ready jobs of the tubes it watches that are not
\* paused, although process_queue looks for jobs and not for connections.
BestJobFirst ==
    [][\A c \in Conns :
        conn[c].state = "wait" /\ conn'[c].state = "send_job" =>
            LET j == conn'[c].out_job
            IN  \A t \in conn[c].watch : \A k \in q.ready[t] :
                    \/ q.job[j].pri < q.job[k].pri
                    \/ q.job[j].pri = q.job[k].pri /\ j <= k
                    \/ pause[t] /\ clock < unpause_at[t]
      ]_vars

\* process_queue has found a heap top that is not in state ready: it finds it
\* again in every iteration, for ever.  It takes a walwrite that failed after the
\* heapinsert of enqueue_job.
Spinning ==
    pq /\ \E j \in Awaited : /\ q.job[j].state # "ready"
                            /\ \A k \in Awaited \ {j} : job_pri_less(q, j, k)

\* A reserve with a timeout is answered: the connection does not wait for
\* ever, whatever the others do, unless the conns heap breaks or process_queue
\* spins (conntickat, prottick, conn_timeout).
WaiterAnswered ==
    \A c \in Conns :
        conn[c].waiting /\ conn[c].pending_timeout >= 0
            /\ conn[c].until <= MaxTime
        ~> ~conn[c].waiting \/ conns_broken \/ Spinning

\* A delayed job does not stay delayed once its delay is over, unless
\* process_queue spins.
DelayEnds ==
    \A j \in Ids :
        q.job[j].state = "delayed" /\ q.job[j].deadline_at <= MaxTime
        ~> q.job[j].state # "delayed" \/ Spinning

\* protocol.txt on put: "If the worker does not delete, release, or bury the
\* job within <ttr> seconds, the job will time out and the server will release
\* the job."
LeaseExpires ==
    \A j \in Ids :
        q.job[j].state = "reserved" /\ q.job[j].deadline_at < MaxTime
        ~> q.job[j].state # "reserved" \/ q.job[j].deadline_at >= MaxTime

\* c's conn_timeout goes on after it has handed a job to c itself: c waited when
\* should_timeout was computed, and the process_queue of its loop served it.
ServedInTimeout(c) ==
    /\ task.op = "timeout" /\ task.conn = c /\ conn[c].out_job \in Ids
    /\ LET r == q.job[conn[c].out_job] IN r.deadline_at >= task.now + r.ttr

\* protocol.txt on reserve names three answers, DEADLINE_SOON, TIMED_OUT and
\* "Otherwise" RESERVED: a client that is being told RESERVED is told nothing
\* else before that answer is written or its connection ends.  There is one
\* exception, which it takes a server that is late by SAFETY_MARGIN to meet.
OneAnswer ==
    [][\A c \in Conns :
        conn[c].reply = "RESERVED" =>
            \/ conn'[c].reply = "RESERVED"
            \/ conn'[c].state \in {"want_command", "closed"}
            \/ ServedInTimeout(c)
      ]_vars

\* The life of an id, as JobLifecycle names it: a freed id is a deleted job.
LifeOf(j) ==
    CASE q.job[j].state = "none"    -> IF j < next_id THEN "deleted" ELSE "none"
      [] q.job[j].state = "invalid" -> "incoming"
      [] OTHER                      -> q.job[j].state

Lifecycle == INSTANCE JobLifecycle WITH
    life   <- [j \in Ids |-> LifeOf(j)],
    holder <- [j \in Ids |-> q.job[j].reserver],
    fresh  <- next_id

\* The server implements the life cycle: every step of every handler and timer
\* moves at most one job, along one edge.
ImplementsLifecycle == Lifecycle!Spec

=============================================================================
