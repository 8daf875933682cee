-------------------------------- MODULE ConnIO --------------------------------
(***************************************************************************)
(* The connection state machine of prot.c (conn_process_io, h_conn,        *)
(* fill_extra_data, the bit bucket) over the list epollq and the interest  *)
(* it sets in the kernel (sockwant, socknext).                             *)
(*                                                                         *)
(* A byte stream is a sequence of tokens.  The first token of a line names *)
(* the command, "R" and "N" are its CR and LF, any token can be in a body. *)
(* Clients send all their requests at once; a read returns any part of     *)
(* what is left, a write takes any part of what is offered.  Commands      *)
(* other than put, reserve and quit differ only in their one-line answer   *)
(* and are one here; what they do is in module Broker.                     *)
(***************************************************************************)
EXTENDS Integers, Sequences, FiniteSets, SequencesExt

CONSTANTS
    Conns,
    LINE_BUF_SIZE,
    BUCKET_BUF_SIZE,
    job_data_size_limit,
    PutSize,        \* the <bytes> argument of each put line, by its first token
    MaxFaults,      \* bound: clients that shut or reset their connection, and
                    \* sockets that the kernel refuses to watch
    Scripts         \* what the clients may send: requests of each connection

VARIABLES
    script,     \* the choice made from Scripts
    inp,        \* what each client sent and the server did not read
    got,        \* what each client received
    cli,        \* "open", "shut" (its writing half), or "reset"
    want,       \* the interest of each socket in the kernel, "none" when it is
                \* closed; "lost", for good, when epoll_ctl failed
    s,          \* the server: connections, epollq, ready jobs
    task        \* where the thread is

vars == <<script, inp, got, cli, want, s, task>>

Nil == "nil"

\* Tokens are strings; a pointer is to a connection or Nil.
ASSUME ConnConstants ==
    /\ Nil \notin Conns
    /\ LINE_BUF_SIZE \in Nat /\ BUCKET_BUF_SIZE \in Nat
    /\ job_data_size_limit \in Nat
    /\ \A word \in DOMAIN PutSize : PutSize[word] \in Nat
    /\ Scripts \subseteq [Conns -> Seq([line: Seq(STRING), body: Seq(STRING)])]

Tokens(req) == req.line \o req.body

\* The bytes of the requests of one client.
Stream(reqs) == FlattenSeq([i \in 1..Len(reqs) |-> Tokens(reqs[i])])

NoJob == [size |-> 0, body |-> <<>>]

FreshConn ==
    [state |-> "WANT_COMMAND", cmd |-> <<>>, cmd_len |-> 0,
     in_job |-> NoJob, in_job_read |-> 0,
     reply |-> <<>>, reply_sent |-> 0, out_job |-> <<>>, out_job_sent |-> 0,
     rw |-> "r", next |-> Nil, halfclosed |-> FALSE,
     timed |-> FALSE, reserved_jobs |-> {}]

\* A connection with nothing to say is not made.
FirstState(reqs) == IF reqs = <<>> THEN "GONE" ELSE "WANT_COMMAND"

Init ==
    /\ script \in Scripts
    /\ inp = [c \in Conns |-> Stream(script[c])]
    /\ got = [c \in Conns |-> <<>>]
    /\ cli = [c \in Conns |-> "open"]
    /\ want = [c \in Conns |-> "r"]
    /\ s = [conn |-> [c \in Conns |-> [FreshConn EXCEPT !.state = FirstState(script[c])]],
            epollq |-> Nil, newhead |-> Nil, ready |-> {}]
    /\ task = [at |-> "socknext", conn |-> Nil]

Open(c) == s.conn[c].state # "GONE"

Upto(x, n) == SubSeq(x, 1, n)

From(x, n) == SubSeq(x, n, Len(x))

Least(a, b) == IF a < b THEN a ELSE b

-----------------------------------------------------------------------------
(* epollq                                                                  *)

\* The next pointer is overwritten even if c is in the list already.
epollq_add(st, c, rw) ==
    [st EXCEPT !.conn[c].rw = rw, !.conn[c].next = st.epollq, !.epollq = c]

-----------------------------------------------------------------------------
(* Replies and the job queue                                               *)

Line(word) == <<word, "N">>

reply(st, c, line, state) ==
    [epollq_add(st, c, "w") EXCEPT
        !.conn[c].reply = line,
        !.conn[c].reply_sent = 0,
        !.conn[c].state = state]

reply_msg(st, c, word) == reply(st, c, Line(word), "SEND_WORD")

reply_job(st, c, j) ==
    reply([st EXCEPT !.conn[c].out_job = j, !.conn[c].out_job_sent = 0],
          c, Line("RESERVED"), "SEND_JOB")

Waiting(st) == {c \in Conns : st.conn[c].state = "WAIT"}

conn_reserve_job(st, c, j) ==
    [st EXCEPT !.ready = @ \ {j},
               !.conn[c].reserved_jobs = @ \cup {j},
               !.conn[c].timed = FALSE]

\* One round of the loop: a job was just added, or a connection just began to
\* wait, so that there is never a second one.
process_queue(st) ==
    IF st.ready = {} \/ Waiting(st) = {} THEN {st}
    ELSE {reply_job(conn_reserve_job(st, c, j), c, j) : c \in Waiting(st), j \in st.ready}

\* Faulty variant: those who wait are not looked for.
enqueue_job_quietly(st, j) == {[st EXCEPT !.ready = @ \cup {j}]}

\* enqueue_job of a job without delay.
enqueue_job(st, j) == process_queue([st EXCEPT !.ready = @ \cup {j}])

-----------------------------------------------------------------------------
(* The command buffer                                                      *)

\* Faulty variant: the CR may be the last byte, and LF is not looked at.
scan_line_end_cr(x) ==
    LET crs == {i \in 1..Len(x) : x[i] = "R"} IN
    IF crs = {} THEN 0 ELSE (CHOOSE i \in crs : \A k \in crs : i <= k) + 1

\* The length of the first line, 0 if its end is not there.
scan_line_end(x) ==
    LET crs == {i \in 1..(Len(x) - 1) : x[i] = "R"} IN
    IF crs = {} THEN 0
    ELSE LET i == CHOOSE i \in crs : \A k \in crs : i <= k IN
         IF x[i + 1] = "N" THEN i + 1 ELSE 0

\* Faulty variant: the bytes to throw away stay in the buffer.
fill_extra_data_kept(k) ==
    IF k.cmd_len = 0 THEN k
    ELSE LET extra == From(k.cmd, k.cmd_len + 1)
             n == Least(Len(extra), k.in_job.size)
         IN [k EXCEPT !.in_job.body = IF k.in_job # NoJob THEN Upto(extra, n) ELSE @,
                      !.in_job_read = IF k.in_job # NoJob THEN n ELSE @,
                      !.cmd = From(extra, n + 1),
                      !.cmd_len = 0]

\* What follows the line goes into the job or the bit bucket, then to the
\* front of the buffer.
fill_extra_data(k) ==
    IF k.cmd_len = 0 THEN k
    ELSE LET extra == From(k.cmd, k.cmd_len + 1)
             n == Least(Len(extra), IF k.in_job # NoJob THEN k.in_job.size
                                    ELSE k.in_job_read)
         IN [k EXCEPT !.in_job.body = IF k.in_job # NoJob THEN Upto(extra, n) ELSE @,
                      !.in_job_read = IF k.in_job # NoJob THEN n ELSE @ - n,
                      !.cmd = From(extra, n + 1),
                      !.cmd_len = 0]

FillExtra(st, c) == [st EXCEPT !.conn[c] = fill_extra_data(@)]

skip(st, c, n, word) ==
    LET filled == FillExtra([st EXCEPT !.conn[c].in_job = NoJob,
                                       !.conn[c].in_job_read = n], c)
    IN IF filled.conn[c].in_job_read = 0 THEN reply_msg(filled, c, word)
       ELSE [filled EXCEPT !.conn[c].reply = Line(word),
                           !.conn[c].reply_sent = 0,
                           !.conn[c].state = "BITBUCKET"]

\* process_queue comes first, the answer to the client that put after it.  The
\* job that is not ready is buried; DRAINING, OUT_OF_MEMORY and INTERNAL_ERROR
\* are answers of one line like BURIED.
enqueue_incoming_job(st, c) ==
    LET j == st.conn[c].in_job.body
        owned == [st EXCEPT !.conn[c].in_job = NoJob, !.conn[c].in_job_read = 0]
    IN IF From(j, Len(j) - 1) # <<"R", "N">> THEN {reply_msg(owned, c, "EXPECTED_CRLF")}
       ELSE {reply_msg(owned, c, "BURIED")} \cup
            {reply_msg(t, c, "INSERTED") : t \in enqueue_job(owned, j)}

maybe_enqueue_incoming_job(st, c) ==
    IF st.conn[c].in_job_read = st.conn[c].in_job.size
    THEN enqueue_incoming_job(st, c)
    ELSE {[st EXCEPT !.conn[c].state = "WANT_DATA"]}

\* Faulty variant: the interest stays in writing.
conn_want_command_silent(st, c) ==
    [st EXCEPT
        !.conn[c].out_job = <<>>,
        !.conn[c].reply_sent = 0,
        !.conn[c].state = "WANT_COMMAND"]

conn_want_command(st, c) ==
    [epollq_add(st, c, "r") EXCEPT
        !.conn[c].out_job = <<>>,
        !.conn[c].reply_sent = 0,
        !.conn[c].state = "WANT_COMMAND"]

-----------------------------------------------------------------------------
(* conn_process_io, one action per state                                   *)

\* The kernel reports a closed half always, readability and writability if
\* they are wanted.
Event(c) ==
    /\ task.at = "socknext"
    /\ Open(c)
    /\ \/ cli[c] # "open"
       \/ want[c] = "r" /\ inp[c] # <<>>
       \/ want[c] = "w"

\* socknext returns 'h' for a closed half even if there is data.
Noted(c) == [s EXCEPT !.conn[c].halfclosed = @ \/ cli[c] # "open"]

GoOn(c) == task' = [at |-> "h_conn", conn |-> c]

\* read() returns n of at most room bytes.
Reads(c, room, n) ==
    /\ cli[c] # "reset"
    /\ n <= room /\ n <= Len(inp[c])
    /\ inp' = [inp EXCEPT ![c] = From(@, n + 1)]
    /\ UNCHANGED <<script, got, cli, want>>

\* The client receives the sequence x.
Writes(c, x) ==
    /\ cli[c] # "reset"
    /\ got' = [got EXCEPT ![c] = @ \o x]
    /\ UNCHANGED <<script, inp, cli, want>>

read_command(c) ==
    /\ Event(c)
    /\ s.conn[c].state = "WANT_COMMAND"
    /\ \E n \in 1..Len(inp[c]) :
        LET buf == s.conn[c].cmd \o Upto(inp[c], n)
            st == [Noted(c) EXCEPT !.conn[c].cmd = buf]
        IN /\ Reads(c, LINE_BUF_SIZE - Len(s.conn[c].cmd), n)
           /\ s' = IF scan_line_end(buf) = 0 /\ Len(buf) = LINE_BUF_SIZE
                   THEN [st EXCEPT !.conn[c].cmd = <<>>,
                                   !.conn[c].state = "WANT_ENDLINE"]
                   ELSE st
    /\ GoOn(c)

read_endline(c) ==
    /\ Event(c)
    /\ s.conn[c].state = "WANT_ENDLINE"
    /\ \E n \in 1..Len(inp[c]) :
        LET buf == s.conn[c].cmd \o Upto(inp[c], n)
            st == [Noted(c) EXCEPT !.conn[c].cmd = buf]
            len == scan_line_end(buf)
        IN /\ Reads(c, LINE_BUF_SIZE - Len(s.conn[c].cmd), n)
           /\ s' = IF len > 0
                   THEN FillExtra(reply_msg([st EXCEPT !.conn[c].cmd_len = len],
                                            c, "BAD_FORMAT"), c)
                   ELSE IF Len(buf) = LINE_BUF_SIZE THEN [st EXCEPT !.conn[c].cmd = <<>>]
                   ELSE st
    /\ GoOn(c)

read_bucket(c) ==
    /\ Event(c)
    /\ s.conn[c].state = "BITBUCKET"
    /\ \E n \in 1..Len(inp[c]) :
        LET st == [Noted(c) EXCEPT !.conn[c].in_job_read = @ - n] IN
        /\ Reads(c, Least(s.conn[c].in_job_read, BUCKET_BUF_SIZE), n)
        /\ s' = IF st.conn[c].in_job_read = 0
                THEN reply(st, c, st.conn[c].reply, "SEND_WORD")
                ELSE st
    /\ GoOn(c)

read_data(c) ==
    /\ Event(c)
    /\ s.conn[c].state = "WANT_DATA"
    /\ \E n \in 1..Len(inp[c]) :
        /\ Reads(c, s.conn[c].in_job.size - s.conn[c].in_job_read, n)
        /\ s' \in maybe_enqueue_incoming_job(
                    [Noted(c) EXCEPT !.conn[c].in_job.body = @ \o Upto(inp[c], n),
                                     !.conn[c].in_job_read = @ + n], c)
    /\ GoOn(c)

send_word(c) ==
    /\ Event(c)
    /\ s.conn[c].state = "SEND_WORD"
    /\ LET k == s.conn[c] IN
       \E n \in 1..(Len(k.reply) - k.reply_sent) :
        LET st == [Noted(c) EXCEPT !.conn[c].reply_sent = @ + n] IN
        /\ Writes(c, Upto(From(k.reply, k.reply_sent + 1), n))
        /\ s' = IF k.reply_sent + n = Len(k.reply) THEN conn_want_command(st, c) ELSE st
    /\ GoOn(c)

\* reply_sent and out_job_sent after writev took n bytes.
Progress(k, n) ==
    IF k.reply_sent + n >= Len(k.reply)
    THEN [k EXCEPT !.out_job_sent = @ + (k.reply_sent + n - Len(k.reply)),
                   !.reply_sent = Len(k.reply)]
    ELSE [k EXCEPT !.reply_sent = @ + n]

send_job(c) ==
    /\ Event(c)
    /\ s.conn[c].state = "SEND_JOB"
    /\ LET k == s.conn[c]
           offered == From(k.reply, k.reply_sent + 1) \o From(k.out_job, k.out_job_sent + 1)
       IN \E n \in 1..Len(offered) :
            LET st == [Noted(c) EXCEPT !.conn[c] = Progress(@, n)] IN
            /\ Writes(c, Upto(offered, n))
            /\ s' = IF st.conn[c].out_job_sent = Len(k.out_job)
                    THEN conn_want_command(st, c) ELSE st
    /\ GoOn(c)

wait_hangup(c) ==
    /\ Event(c)
    /\ s.conn[c].state = "WAIT"
    /\ Noted(c).conn[c].halfclosed
    /\ s' = reply_msg([Noted(c) EXCEPT !.conn[c].timed = FALSE], c, "TIMED_OUT")
    /\ GoOn(c)
    /\ UNCHANGED <<script, inp, got, cli, want>>

\* read() or write() fails, or there is nothing more to read.
io_fails(c) ==
    /\ Event(c)
    /\ s.conn[c].state # "WAIT"
    /\ \/ cli[c] = "reset"
       \/ /\ cli[c] = "shut"
          /\ inp[c] = <<>>
          /\ s.conn[c].state \notin {"SEND_WORD", "SEND_JOB"}
    /\ s' = [Noted(c) EXCEPT !.conn[c].state = "CLOSE"]
    /\ GoOn(c)
    /\ UNCHANGED <<script, inp, got, cli, want>>

-----------------------------------------------------------------------------
(* h_conn: the loop over buffered commands                                 *)

CmdReady(c) ==
    /\ task = [at |-> "h_conn", conn |-> c]
    /\ s.conn[c].state = "WANT_COMMAND"
    /\ scan_line_end(s.conn[c].cmd) > 0

Scanned(c) == [s EXCEPT !.conn[c].cmd_len = scan_line_end(s.conn[c].cmd)]

Command(c) == s.conn[c].cmd[1]

Unread == UNCHANGED <<script, inp, got, cli, want, task>>

dispatch_put(c) ==
    /\ CmdReady(c)
    /\ Command(c) \in DOMAIN PutSize
    /\ LET size == PutSize[Command(c)] + 2
           made == [Scanned(c) EXCEPT !.conn[c].in_job = [size |-> size, body |-> <<>>]]
       IN \/ /\ size - 2 > job_data_size_limit
             /\ s' = FillExtra(skip(Scanned(c), c, size, "JOB_TOO_BIG"), c)
          \/ /\ size - 2 <= job_data_size_limit
             /\ \/ s' = FillExtra(skip(Scanned(c), c, size, "OUT_OF_MEMORY"), c)
                \/ \E st \in maybe_enqueue_incoming_job(FillExtra(made, c), c) :
                      s' = FillExtra(st, c)
    /\ Unread

\* With a job in its safety margin the client does not wait, unless a job is
\* ready.
dispatch_reserve(c) ==
    /\ CmdReady(c)
    /\ Command(c) \in {"reserve", "reserve-with-timeout"}
    /\ \/ /\ s.conn[c].reserved_jobs # {} /\ s.ready = {}
          /\ s' = FillExtra(reply_msg(Scanned(c), c, "DEADLINE_SOON"), c)
       \/ \E st \in process_queue(epollq_add(
                [Scanned(c) EXCEPT
                    !.conn[c].state = "WAIT",
                    !.conn[c].timed = Command(c) = "reserve-with-timeout"], c, "h")) :
             s' = FillExtra(st, c)
    /\ Unread

dispatch_quit(c) ==
    /\ CmdReady(c)
    /\ Command(c) = "quit"
    /\ s' = FillExtra([Scanned(c) EXCEPT !.conn[c].state = "CLOSE"], c)
    /\ Unread

dispatch_other(c) ==
    /\ CmdReady(c)
    /\ Command(c) \notin DOMAIN PutSize \cup {"reserve", "reserve-with-timeout", "quit"}
    /\ s' = FillExtra(reply_msg(Scanned(c), c, "UNKNOWN_COMMAND"), c)
    /\ Unread

h_conn_end(c) ==
    /\ task = [at |-> "h_conn", conn |-> c]
    /\ ~CmdReady(c)
    /\ task' = IF s.conn[c].state = "CLOSE" THEN [at |-> "epollq_rmconn", conn |-> c]
               ELSE [at |-> "epollq_apply", conn |-> Nil]
    /\ UNCHANGED <<script, inp, got, cli, want, s>>

\* Faulty variant: the new list gets c, too.
epollq_rmconn_not(c) ==
    /\ task = [at |-> "epollq_rmconn", conn |-> c]
    /\ \/ \E x \in Conns :
            /\ x = s.epollq
            /\ s' = [s EXCEPT !.epollq = s.conn[x].next,
                              !.conn[x].next = s.newhead,
                              !.newhead = x]
            /\ UNCHANGED task
       \/ /\ s.epollq = Nil
          /\ s' = [s EXCEPT !.epollq = s.newhead, !.newhead = Nil]
          /\ task' = [at |-> "connclose", conn |-> c]
    /\ UNCHANGED <<script, inp, got, cli, want>>

\* One iteration: a connection other than c goes on the new list; or the end.
epollq_rmconn(c) ==
    /\ task = [at |-> "epollq_rmconn", conn |-> c]
    /\ \/ \E x \in Conns :
            /\ x = s.epollq
            /\ s' = [s EXCEPT !.epollq = s.conn[x].next,
                              !.conn[x].next = IF x = c THEN Nil ELSE s.newhead,
                              !.newhead = IF x = c THEN @ ELSE x]
            /\ UNCHANGED task
       \/ /\ s.epollq = Nil
          /\ s' = [s EXCEPT !.epollq = s.newhead, !.newhead = Nil]
          /\ task' = [at |-> "connclose", conn |-> c]
    /\ UNCHANGED <<script, inp, got, cli, want>>

\* One iteration of enqueue_reserved_jobs, or the end of connclose.
connclose(c) ==
    /\ task = [at |-> "connclose", conn |-> c]
    /\ want' = [want EXCEPT ![c] = IF @ = "lost" THEN @ ELSE "none"]
    /\ \/ /\ s.conn[c].reserved_jobs # {}
          /\ \E j \in s.conn[c].reserved_jobs :
                s' \in enqueue_job([s EXCEPT !.conn[c].reserved_jobs = @ \ {j}], j)
          /\ UNCHANGED task
       \/ /\ s.conn[c].reserved_jobs = {}
          /\ s' = [s EXCEPT !.conn[c] = [FreshConn EXCEPT !.state = "GONE"]]
          /\ task' = [at |-> "epollq_apply", conn |-> Nil]
    /\ UNCHANGED <<script, inp, got, cli>>

-----------------------------------------------------------------------------
(* prottick and epollq_apply                                               *)

\* A client that waits is told of the margin or of its timeout; a job of one
\* that does not wait runs out and goes to another.
conn_timeout(c) ==
    /\ task.at \in {"socknext", "prottick"}
    /\ Open(c)
    /\ \/ /\ c \in Waiting(s) /\ s.conn[c].reserved_jobs # {}
          /\ s' = reply_msg(s, c, "DEADLINE_SOON")
       \/ /\ c \in Waiting(s) /\ s.conn[c].timed
          /\ s' = reply_msg([s EXCEPT !.conn[c].timed = FALSE], c, "TIMED_OUT")
       \/ /\ c \notin Waiting(s)
          /\ \E j \in s.conn[c].reserved_jobs :
                s' \in enqueue_job([s EXCEPT !.conn[c].reserved_jobs = @ \ {j}], j)
    /\ task' = [at |-> "prottick", conn |-> Nil]
    /\ UNCHANGED <<script, inp, got, cli, want>>

prottick_end ==
    /\ task.at = "prottick"
    /\ task' = [at |-> "epollq_apply", conn |-> Nil]
    /\ UNCHANGED <<script, inp, got, cli, want, s>>

\* The bound is not reached.
MayFail == Cardinality({c \in Conns : cli[c] # "open" \/ want[c] = "lost"}) < MaxFaults

\* One iteration, or the end of the loop.  A connection whose sockwant fails is
\* closed without epollq_rmconn, wherever else in the list it is (connclose
\* takes it off the waiting ones, which is what its state is set for).
epollq_apply ==
    /\ task.at = "epollq_apply"
    /\ \/ \E c \in Conns :
            /\ c = s.epollq /\ Open(c)
            /\ s' = [s EXCEPT !.epollq = s.conn[c].next, !.conn[c].next = Nil]
            /\ want' = [want EXCEPT ![c] = s.conn[c].rw]
            /\ UNCHANGED task
       \/ \E c \in Conns :
            /\ c = s.epollq /\ Open(c) /\ MayFail
            /\ s' = [s EXCEPT !.epollq = s.conn[c].next, !.conn[c].next = Nil,
                              !.conn[c].state = "CLOSE"]
            /\ want' = [want EXCEPT ![c] = "lost"]
            /\ task' = [at |-> "connclose", conn |-> c]
       \/ /\ s.epollq = Nil
          /\ task' = [at |-> "socknext", conn |-> Nil]
          /\ UNCHANGED <<s, want>>
    /\ UNCHANGED <<script, inp, got, cli>>

-----------------------------------------------------------------------------
(* Clients                                                                 *)

\* What a client does is seen at the next event: it may as well happen then.
shutdown(c) ==
    /\ task.at = "socknext" /\ MayFail
    /\ Open(c) /\ cli[c] = "open"
    /\ cli' = [cli EXCEPT ![c] = "shut"]
    /\ UNCHANGED <<script, inp, got, want, s, task>>

reset(c) ==
    /\ task.at = "socknext" /\ MayFail
    /\ Open(c) /\ cli[c] = "open"
    /\ cli' = [cli EXCEPT ![c] = "reset"]
    /\ inp' = [inp EXCEPT ![c] = <<>>]
    /\ UNCHANGED <<script, got, want, s, task>>

conn_process_io(c) ==
    \/ read_command(c) \/ read_endline(c) \/ read_bucket(c) \/ read_data(c)
    \/ send_word(c) \/ send_job(c) \/ wait_hangup(c) \/ io_fails(c)

dispatch_cmd(c) ==
    dispatch_put(c) \/ dispatch_reserve(c) \/ dispatch_quit(c) \/ dispatch_other(c)

Serve ==
    \/ \E c \in Conns : \/ conn_process_io(c) \/ dispatch_cmd(c) \/ h_conn_end(c)
                        \/ epollq_rmconn(c) \/ connclose(c)
    \/ prottick_end
    \/ epollq_apply

Next ==
    \/ Serve
    \/ \E c \in Conns : conn_timeout(c) \/ shutdown(c) \/ reset(c)

Spec == Init /\ [][Next]_vars

\* srvserve goes on as long as a socket is ready; clients read their answers.
FairSpec == Spec /\ WF_vars(Serve)

-----------------------------------------------------------------------------
(* Properties                                                              *)

HasTrailer(body) == From(body, Len(body) - 1) = <<"R", "N">>

Requests == UNION {ToSet(f[c]) : f \in Scripts, c \in Conns}

\* The bodies that may become jobs.
Jobs ==
    {r.body : r \in {r \in Requests :
        /\ r.line[1] \in DOMAIN PutSize
        /\ PutSize[r.line[1]] <= job_data_size_limit
        /\ HasTrailer(r.body)}}

\* The fields of struct Conn and of epollq keep their types: the command buffer
\* and the body of a job are never overrun, in_job_read is never negative, and no
\* ready job is left while a connection waits.
TypeOK ==
    /\ \A c \in Conns :
        /\ s.conn[c].state \in {"WANT_COMMAND", "WANT_ENDLINE", "BITBUCKET", "WANT_DATA",
                                "SEND_WORD", "SEND_JOB", "WAIT", "CLOSE", "GONE"}
        /\ Len(s.conn[c].cmd) \in 0..LINE_BUF_SIZE
        /\ s.conn[c].in_job_read \in Nat
        /\ s.conn[c].in_job # NoJob =>
                /\ s.conn[c].in_job_read = Len(s.conn[c].in_job.body)
                /\ s.conn[c].in_job_read <= s.conn[c].in_job.size
        /\ cli[c] \in {"open", "shut", "reset"}
        /\ want[c] \in {"r", "w", "h", "none", "lost"}
    /\ s.epollq \in Conns \cup {Nil}
    /\ s.ready = {} \/ Waiting(s) = {}

\* The answers a request may get: this is what the protocol says of a whole
\* request, whatever its bytes look like.
Answers(req) ==
    LET first == req.line[1] IN
    IF Len(req.line) > LINE_BUF_SIZE THEN {Line("BAD_FORMAT")}
    ELSE IF first \in {"reserve", "reserve-with-timeout"}
    THEN {Line("RESERVED") \o j : j \in Jobs} \cup {Line("TIMED_OUT"), Line("DEADLINE_SOON")}
    ELSE IF first \notin DOMAIN PutSize THEN {Line("UNKNOWN_COMMAND")}
    ELSE IF PutSize[first] > job_data_size_limit THEN {Line("JOB_TOO_BIG")}
    ELSE {Line("OUT_OF_MEMORY")} \cup
         {Line(word) : word \in IF HasTrailer(req.body) THEN {"INSERTED", "BURIED"}
                                ELSE {"EXPECTED_CRLF"}}

\* What can be left of the received streams rs once req is answered.
AfterAnswer(rs, req) ==
    IF req.line[1] = "quit" THEN rs \cap {<<>>}
    ELSE UNION {{From(r, Len(a) + 1) : a \in {x \in Answers(req) : IsPrefix(x, r)}} :
                r \in rs}

\* The same when the stream may end within the answer.
AfterAnswerOrEnd(rs, req) ==
    AfterAnswer(rs, req) \cup
    {<<>> : r \in {x \in rs : \E a \in Answers(req) : IsPrefix(x, a)}}

\* STATE_WANT_ENDLINE looks for the CR in the first LINE_BUF_SIZE - 1 bytes and
\* then drops the whole buffer: a CR in the last byte is not seen.
EndHidden(req) ==
    Len(req.line) > LINE_BUF_SIZE /\ (Len(req.line) - 1) % LINE_BUF_SIZE = 0

\* The requests before the first one whose end is not seen.
Visible(reqs) ==
    LET hidden == {i \in DOMAIN reqs : EndHidden(reqs[i])}
    IN  IF hidden = {} THEN reqs ELSE Upto(reqs, Min(hidden) - 1)

\* Each client receives answers to its requests, in their order, one for each,
\* and job bodies byte for byte, however reads and writes split the streams: no
\* body is taken for commands, no command for a body, and no reply is cut or
\* overwritten by another.  A job is a body that was sent.  What follows a line
\* whose end is hidden is an exception (see EveryLineAnswered).
Framed ==
    /\ task.at = "socknext" =>
        \A c \in Conns :
            LET rest == FoldLeft(AfterAnswerOrEnd, {got[c]}, Visible(script[c]))
            IN  IF Visible(script[c]) = script[c] THEN <<>> \in rest ELSE rest # {}
    /\ s.ready \cup UNION {s.conn[c].reserved_jobs : c \in Conns} \subseteq Jobs

\* A line that is too long is thrown away up to its end and answered with
\* BAD_FORMAT, and the next request has its own answer (prot.c: "discards the
\* command line until the end line is found").  It fails for a line whose end is
\* hidden: the following line is thrown away with it, and the body of a put is
\* then read as commands.
EveryLineAnswered ==
    task.at = "socknext" =>
        \A c \in Conns : <<>> \in FoldLeft(AfterAnswerOrEnd, {got[c]}, script[c])

\* When the thread goes back to socknext the kernel watches each socket for
\* what its connection needs next, whatever epollq went through.
InterestMatches ==
    task.at = "socknext" =>
        \A c \in Conns : Open(c) =>
            want[c] = CASE s.conn[c].state \in {"SEND_WORD", "SEND_JOB"} -> "w"
                        [] s.conn[c].state = "WAIT" -> "h"
                        [] OTHER -> "r"

\* A connection that connclose freed is not reached through epollq any more:
\* neither the list nor a connection points to it.  One that epollq_apply itself
\* closed is an exception: it may be in the list twice.
NoFreedConn ==
    \A c \in Conns : ~Open(c) /\ want[c] # "lost" =>
        /\ s.epollq # c
        /\ \A d \in Conns : s.conn[d].next # c

Answered(c) == <<>> \in FoldLeft(AfterAnswer, {got[c]}, script[c])

\* Undefined behaviour: epollq_apply visits a freed connection.  It is not
\* followed.
Undefined == task.at = "epollq_apply" /\ s.epollq \in Conns /\ ~Open(s.epollq)

\* A client that stays gets all its answers or waits for a job: no request is
\* left in a buffer or a socket that nothing will look at again.  Clients that
\* send a line whose end is hidden are an exception: nothing may come after it.
EveryRequestAnswered ==
    \A c \in Conns :
        []<>(\/ Answered(c) \/ cli[c] # "open" \/ ~Open(c) \/ c \in Waiting(s)
             \/ Visible(script[c]) # script[c] \/ Undefined)
=============================================================================
