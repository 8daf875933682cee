# A TLA+ model of beanstalkd

beanstalkd is a work queue: clients put jobs into named tubes, workers reserve
them for a limited time and delete, release or bury them. The server is one
thread around an event loop. What makes it hard is not parallelism but the
number of events that can touch the same job (commands of several connections,
three kinds of timers, half-done uploads and downloads, connections that close,
memory and disk that run out) and a habit of the code: `enqueue_job` runs
`process_queue`, which hands jobs to waiting connections and writes their
replies, from inside whatever handler happened to make a job ready.

## The parts of the system

| Part | State | Operations | Talks to |
|---|---|---|---|
| Commands and queues, `prot.c` | per tube: heaps `ready` and `delay`, list `buried`, set `waiting_conns`, `pause`, counters; `drain_mode` | the commands of `dispatch_cmd`; `enqueue_job`, `bury_job`, `process_queue`, the `remove_*_job` and `kick_*` functions | jobs, connections, heap, ms, binlog |
| Connections, `conn.c` | `state`, `use`, `watch`, `reserved_jobs`, `soonest_job`, `pending_timeout`, `tickat`, `in_conns`, `in_job`, `out_job`, the reply | `make_conn`, `connsched`, `conn_reserve_job`, `connsoonestjob`, `connclose` | jobs, the `conns` heap |
| Jobs, `job.c` | hash of all jobs by id, `next_id` | make, find, free, copy; the two orders; linked lists | tubes (reference) |
| Tubes, `tube.c` | the set of tubes, reference counts | find or make, incref, decref | ms |
| Event loop, `serv.c`, `prottick` | heap `conns` of connections by `tickat`; list `epollq` | `srvserve`: `prottick`, then one socket event; `conn_timeout` | everything |
| Heap, `heap.c` | array; every item knows its index | insert, remove by index | used by tubes and server |
| Multiset, `ms.c` | array, cursor | append, remove, take | used by tubes and watch lists |
| Binlog, `walg.c`, `file.c` | list of files, reserved and free space, jobs of each file | reserve, write, compact, sync; replay at start | called by the commands |
| Sockets, start-up, `linux.c`, `darwin.c`, `sunos.c`, `net.c`, `main.c`, `util.c` | descriptors, options | `socknext`, `sockwant` | the event loop |

The behaviours that are hard to test, with the properties that watch them, are
the `hazards` of `PROJECT.json`. In short:

* the nested `process_queue`: a handler computes something, makes a job ready,
  and goes on with values that the nested loop may have made stale;
* the timers of a connection are one number, `tickat`, recomputed by every
  `connsched`: the reservation deadlines, the safety margin of a waiting client
  and the timeout of its reserve all have to survive in it;
* `soonest_job` and `out_job` are pointers kept across events;
* `heapinsert` and the binlog can fail between two halves of a move;
* the two containers under everything (`heap.c`, `ms.c`) move items behind
  the backs of those who remember their positions;
* requests are pipelined and reads end anywhere: the same bytes are a command,
  a body or rubbish depending on what came before, and input already read
  raises no event;
* the binlog promises a delete record for every job before it accepts the job,
  keeps that promise while files fill up, rewrites old jobs to get rid of old
  files, and can be interrupted anywhere;
* tubes live as long as something points to them, and nothing checks the count.

## The modules

**Broker** is the core: `prot.c`, `conn.c`, the timers and the event loop.

| Model | Code |
|---|---|
| `q.job[j]` | `struct Job`; state `none` = `job_find` returns NULL, `invalid` = made by `put`, body not yet stored |
| `q.ready`, `q.delay` (sets), `q.buried`, `q.reserved_jobs` (sequences) | the two heaps and the two linked lists |
| `q.ct`, `q.tct` | `ready_ct` and `global_stat`; `t->stat` |
| `q.wal_use` | `wal.use` |
| `conn[c]` | `struct Conn`; `waiting` is `CONN_TYPE_WAITING`; `reply` is which answer is in the reply buffer |
| `waiting_conns`, `pause`, `unpause_at`, `next_id`, `drain_mode` | as in the code |
| `clock` | `nanoseconds()`, in seconds |
| `task` | where the thread is: `socknext` (waiting for an event), `dispatch` (going on with input already read), `tick` (in `prottick`, which read the time `now`), `timeout` / `resched` (in the loop of `conn_timeout`, before and after its `enqueue_job`), `close` (in `enqueue_reserved_jobs`), `kick` |
| `pq` | the thread is in the loop of `process_queue` |
| `conns_broken` | the heap `conns` has ceased to hold exactly the connections with `in_conns` |
| `conn[c].until` | history: when the present wait is to time out, as the client asked |

Each command is one action. A loop takes one step per iteration, and `task` and
`pq` keep every other handler out meanwhile: that is how the model has the
nested `process_queue`, which runs to its end before the handler that caused it
goes on. Where the nested loop cannot affect what the handler does afterwards
(the reply to the client that sent `put`, which is not waiting), the rest of
the handler is in the same step. Input already in the buffer can be handled
before `prottick` runs again (`EndOrGoOn`).

Operators on the store have the names of the functions they stand for and
return the new store. A function that may fail returns the set of its outcomes
(`EnqueueOrBury`, `kick_buried_job`, `kick_delayed_job`): success, no memory
(`HeapMayFail`), or a binlog that refuses space or whose write fails
(`WalMayFail`). A write that fails does so after the heap was changed, and the
caller buries the job all the same, as in the code. `job_copy` may find no memory
(`CopyMayFail`); the NULL it leaves in `out_job` is `NoCopy`, and the process
ends where `STATE_SEND_JOB` reads through it.

`connsched` and `connclose` take a connection out of the heap `conns` by its
index. A tie with another connection, or a `heapinsert` without memory whose
result `connsched` ignores, can leave the heap without somebody who is due
(`MovesInHeap`). From then on `conns_broken` is TRUE, `prottick` may miss any
connection and find any other, and `Wake` can come at any time. Which
connection is lost depends on the array, which is module Heap.

What is abstracted: command lines are not parsed, and all answers that change
nothing are one action, `refuse`; jobs have no bodies; a reply leaves in one
write and a body arrives in one read, the partial ones being ConnIO's; heaps are
ordered sets, `waiting_conns` is a set from which any member can be taken; tubes
are a fixed set (TubeRefs has their lives, and the failing `ms_append` of
`enqueue_waiting_conn`); the clock does not go backwards.

**JobLifecycle** is what the server promises about a job, without queues, tubes
or time: ids are given in order, each step moves one job along one edge, one
holder at a time, a deleted job stays deleted. `Broker!ImplementsLifecycle` is
the refinement.

**Heap** has the array of `heap.c` at the grain of one loop iteration. It
justifies the sets of jobs in Broker; for the connections it shows what
`conns_broken` stands for: see `HeapConns`.

**Ms** has the operations of `ms.c` as operators on a record of the array and
the cursor, and **TubeRefs** uses them for all three kinds of multiset: the
array of tubes, the watch lists and `waiting_conns`.

| TubeRefs | Code |
|---|---|
| `s.tube[t]` | `struct Tube` at an address; an address is not used again, so that a pointer to a freed tube is seen |
| `s.tubes`, `s.conn[c].watch`, `s.tube[t].waiting_conns` | the multisets, order and cursor included |
| `s.conn[c].in_job`, `.out_job`, `s.job[j]` | the tube pointer of a job being read, of a copy being written, of a stored job |
| `s.freed`, `s.wild` | the tubes that were freed, and whether one was written to |
| `s.unlisted` | the pairs for which `ms_append` in `enqueue_waiting_conn` failed |
| `s.closing` | the connection that `connclose` is at work on: `connclose` gives its jobs back, `ms_clear` takes the tubes off its watch list one by one, `conn_free` is the rest. The thread does nothing else meanwhile |

The references held by the local variables of `dispatch_cmd` (`use`, `watch`)
are counted up and down inside the action, because the order matters: `use`
drops the old tube before it takes the new one, which may be the same. Any
append may fail, whether or not the array is full.

**ConnIO** is how bytes become commands and answers: `conn_process_io`,
`h_conn`, `fill_extra_data`, the bit bucket, `epollq`, and the interest that
`sockwant` leaves in the kernel.

| ConnIO | Code |
|---|---|
| `script`, `inp`, `got` | what the clients send (chosen once), what is not yet read, what they received |
| `cli` | a client is open, has shut its writing half, or is gone |
| `want[c]` | the events the kernel watches for, set by `sockwant`; `lost`, for good, when `epoll_ctl` failed |
| `s.conn[c]` | `struct Conn`: the buffer `cmd`, `in_job` with `in_job_read` (also the bytes left for the bit bucket), `reply`/`reply_sent`, `out_job`/`out_job_sent`, `rw`, `next` |
| `s.epollq`, `s.conn[c].next` | the list, with pointers as they are: a connection added twice overwrites its own |
| `s.newhead` | the list that `epollq_rmconn` builds |
| `task` | in `socknext`, in the loop of `h_conn`, in `epollq_rmconn` (one connection of the list per step), in `connclose`, in `prottick`, in `epollq_apply` |

A byte stream is a sequence of tokens: the word of a command is one token, CR
and LF are one each, and a body may hold any of them. Each state of
`conn_process_io` is an action that reads or writes any non-empty part of what
it may. Queues are reduced to one set of ready jobs, and time to the freedom of
`conn_timeout`. Commands other than `put`, `reserve` and `quit` have the same
control (a one-line answer) and are one; so are the one-line answers to a `put`
that is not stored or not ready (`BURIED` stands for `DRAINING`, `OUT_OF_MEMORY`
and `INTERNAL_ERROR`).

A `sockwant` that fails in `epollq_apply` closes the connection without
`epollq_rmconn`. Handing out its jobs can put it among others in the list, and
it may have been there twice: a pointer to it can be left in `epollq` and in
`conns`. The visit of a freed connection is undefined behaviour and is not
followed: the behaviour ends there.

**Wal** is the binlog: `walg.c`, `file.c`, the start-up in `srv_acquire_wal` and
`prot_replay`.

| Wal | Code |
|---|---|
| `m` | the memory of the process: `struct Wal`, its `File`s (numbered; the list is `head..tail`), and of each job its state, `file`, `walused` and size |
| `disk[f]` | file `binlog.f`: is it there, its version, its records |
| `pc` | where the thread is: between commands, in the loop of `balance`, in `balancerest`, before or between the writes of a record, in `walcompact`, or in start-up, one record per step |
| `logged`, `rewriting`, `spent` | history: each job as its last complete record has it; jobs whose full record is dropped or half written; how many crashes, updates and `heapinsert`s without memory there were, and what the last ones left behind |

A record has an id, a state, a size, and a body that is whole or, until
`filewrjobfull` writes it, the zeros of `rawfalloc`. `makenextfile` and every
write may fail at any time. `Crash` ends the process between any two steps,
also between the creation of a file and its header; what was written stays. A
`write` of the header that fails (`filewopen`) leaves the same file behind, which
is only seen after a restart, so it has no action of its own. One step does
what one record causes: the write, `usenext`'s close, and the unlinks of `walgc`.
A crash between two of these unlinks leaves the later files. That is safe because
they go in ascending order: a file with the full record of a job goes before the
ones that have its short records, which replay then ignores. This is argued, not
checked.

`NoMemory` is the `heapinsert` of `enqueue_job` that fails after `walresvput` or
`walresvupdate` has reserved: the job is buried and no record is written. What
this leaves in the code is in `spent`:

* `spare`: bytes that stay reserved. After a kick or a release they are a whole
  short record; after a put they are a full one;
* `unlogged`: a job that `put` answered with `BURIED`. It has no `file`, so that
  its next record, also that of a delete, is a full one;
* `freed`: such a job after its delete. `filewrjobfull` puts it on the list of the
  current file, `filermjob` is not called, and `job_free` frees it there. A later
  step that touches its links (its neighbours in the list, `moveone`) is
  undefined behaviour and is not followed (`Intact`);
* `unread`: jobs with records behind that of such a delete. `readrec` does not read
  the body of a record in state `Invalid`, so `fileread` takes the body for the
  next record and stops (`HidesRest`).

A write of more than is reserved, which such a job can cause, makes `resv`
negative, and `filewclose` may cut the record off: it is not followed either
(`Followed`). A put that is refused has used an id in the code; the model gives
it again.
Start-up reads the files in order and keeps going as `walread` does. `Init` has
two cases: an empty directory, and one with a file of version 5, whose times are
in microseconds.

**MCBroker** gives Broker its model values and the symmetry of connections,
**MCTubeRefs** the symmetry of connections and jobs, **MCConnIO** the scripts.
Definitions introduced as a faulty variant are bugs that the properties must
find; no specification uses them.

The proofs are in modules of their own: **BrokerProofs** (the store),
**BrokerSteps** (the kinds of step), **BrokerSafety** (what follows from them)
and **BrokerCounts** (the statistics), each extending the one before;
**HeapProofs**; **TubeProofs**; **ConnProofs**; **WalProofs**. `tlapm BrokerCounts.tla` checks only the proofs
of that module, so each is checked by itself.

## The runs

| Run | What it checks |
|---|---|
| BrokerQueues | two connections, two jobs, two priorities, all job commands, out of memory, pipelining, drain mode, failing `sockwant`: `JobPlacement`, `CountersExact`, `NoMissedHandoff`, `SoonestJobHeld` (with two jobs on one list), `ImplementsLifecycle`, `TypeOK` |
| BrokerTime | the clock runs to 4 with a ttr of 2, a margin of 1, a delay of 2 and reserve timeouts of 1 and 2, late by up to the margin, over a binlog that refuses and fails, a `job_copy` without memory and ties in `conns`: `SoonestJobHeld`, `OutJobSafe`, `WaiterArmed`, `LeaseEnds`, `OneAnswer`; liveness: `WaiterAnswered`, `DelayEnds` |
| BrokerTubes | two tubes, use, watch, ignore, pause: `WaitingSetsAgree`, `NoMissedHandoff`, `BestJobFirst` |
| HeapJobs | the heap holds what its users believe; its root is least |
| TubeRefs | reference counts, `using_ct` and `watching_ct` are exact (`RefsExact`); no freed tube is used (`NoDangling`); a name has one tube and the array has every live one (`OneTubePerName`); `waiting_conns` and its cursor lose nobody (`WaitersListed`); no counter wraps (`TypeOK`) |
| Wal | what is recovered is what was last written (`RecoveryExact`); the counts by which files are unlinked (`RefsExact`); one delete record reserved per job, whole in one file, between commands (`SpaceCovers`); no file overcommitted while bytes move (`NoOverrun`); a write finds its space (`WriteFits`) |
| ConnIO | answers match requests byte for byte (`Framed`); interest matches state (`InterestMatches`); no closed connection in `epollq` (`NoFreedConn`); liveness: `EveryRequestAnswered` |

Some of these properties name exceptions, each a thing the code does. Where it is
not said otherwise the run reaches it: without the exception the property fails.

| Property | Exception |
|---|---|
| `OneAnswer` | `ServedInTimeout`: `conn_timeout` served, from its own loop, the connection it is about to answer (below) |
| `OutJobSafe` | `NoCopy`: `job_copy` found no memory |
| `WaiterAnswered` | `conns_broken`: a tie or a failed `heapinsert` has spoiled the heap of connections. `WaiterArmed` has it, too, because `in_conns` then no longer means to be in the heap |
| `WaiterAnswered` | `Spinning`: `process_queue` goes round for ever after a failed `walwrite` (below). `DelayEnds` has it, too; there it takes two jobs, and BrokerTime has one |
| `SpaceCovers`, `RefsExact` | the `spare` bytes and the `freed` jobs of `NoMemory`; `NoOverrun`, `WriteFits` and the divisibility in `SpaceCovers` hold until a put is buried without a record |
| `RecoveryExact` | jobs in `rewriting` (the finding of WalLost), and jobs whose records are `unread` |
| `Framed` | what follows, on the same connection, a line whose end is hidden (the finding of ConnIOLongLine) |
| `NoFreedConn` | the connection whose `sockwant` failed in `epollq_apply` |
| `EveryRequestAnswered` | clients that shut or broke their connection, waiting without a job, lines whose end is hidden, and the ends of `Undefined` |

The other runs end in a counterexample, each a disagreement between the code
and what the repository says of it (`findings` in `PROJECT.json`):

* **BrokerLostTtr**: `prottick` takes a connection out of `conns` when
  `tickat <= now`; `conn_timeout` expires a job only when `deadline_at < now`.
  A tick at the very deadline (to the microsecond of `gettimeofday`) does
  nothing, and no timer is left. The job stays reserved until the client sends
  something or goes away. In the counterexample the clock is fair.
* **HeapConns**: `conn_less` does not break ties. `heapremove` of the last cell,
  when its parent has the same key, keeps the removed connection and cuts off
  the parent.
* **WalLost**: `moveone` calls `filermjob` before `walwrite`. When the moved job
  was the last one of the head file, that file is unlinked before the job is
  written again; a crash in between loses an acknowledged job. After a crash
  within the second write the job comes back with a body of zeros.
* **ConnIOLongLine**: a full buffer without a line end is dropped whole, and with it
  a CR in its last byte. The shortest line that is too long (225 bytes) ends like
  that: the search goes on to the end of the next line, which is a request of its
  own, and one `BAD_FORMAT` answers both. If that request is a
  `put`, its body is read as commands.
* **WalSizeLimit**: `put` compares the size without the line end with
  `job_data_size_limit`, `readrec` the size with it. A job at the limit is
  refused at replay, together with every later record of its file.

Other facts met while modelling have no run, because no line of the repository
clearly denies them or because they are another face of a finding:

* `should_timeout` is computed before `conn_timeout`'s loop. If the thread is
  late by the safety margin, the loop can expire a job, hand it to the same, still
  waiting, connection, and `DEADLINE_SOON` then overwrites `RESERVED`: the client
  holds a job it was not told of. Nothing in the code bounds how late it can be.
  BrokerTime is late enough, and `OneAnswer` has this as its only exception.
* `DEADLINE_SOON` does not clear `pending_timeout`. The connection is then armed
  for a reserve that was answered, and unarmed after that tick although it holds
  a job: a second way to the loss of BrokerLostTtr.
* `conn_set_soonestjob` takes a NULL cache `soonest_job` for "holds no job",
  although `remove_this_reserved_job` leaves it NULL for "not known". When
  `conn_timeout` expires a job of a waiting connection that holds another one,
  and `process_queue` hands the job to the same connection, the cache names the
  new reservation, although the comment on `connsoonestjob` promises the one with
  the earliest deadline; that one has no timer until the cached job goes. A
  waiting connection is warned one margin before a deadline, so this takes a
  thread that is late by the margin (`MaxLag` at least `SafetyMargin`).
  `WaiterArmed` is therefore about the job that `connsoonestjob` names.
* A `release` with a delay takes the job from its connection before it asks the
  binlog for space. Refused, it leaves a job in state reserved that nobody holds.
* `reserve-job` does not look at `pause`.
* After a failed `walwrite` in `enqueue_job` a job is both in the ready heap and
  in the buried list, and `process_queue` then goes round for ever on a heap top
  that is not ready.
* `kick` counts jobs whose kick failed.
* The comment in `ms_take` names one exception to oldest-first where there are
  others (append a and b, take a, append c: the next take gives c).
* `job_copy` in `conn_timeout` may return NULL. `STATE_SEND_JOB` then reads
  through it and the process ends.
* A tie in `conns` (the finding of HeapConns) can leave a waiting connection
  without a timer: its reserve is not answered until something else happens to it.
* If `sockwant` fails in `epollq_apply`, `connclose` does not take the
  connection out of `epollq`; handing out its jobs may have put others there,
  and a connection that is twice in the list is visited after it was freed.
* A put that was answered `BURIED` for want of memory is not in the log. Its delete
  writes a full record in state `Invalid` and leaves a freed job in the list of a
  file; replay stops at that record (see `NoMemory` above).
* `walg.c` says of an empty head file "can't happen"; a file without a header,
  left by a crash, is one. After a `walwrite` that failed inside `walcompact` the
  loop goes on, and drops and unlinks without writing, because `reserve` and
  `walwrite` of a log not in use succeed.
* `balance` says that its loop "will run at most once" and that after a failure
  "`w->tail` is not updated". Neither holds when a file is not much larger than
  a job (`-s` near `-z`): the loop can take a second turn, `needfree` can make a
  file in the first and fail in the second, and `reserve` then takes `n` bytes
  back from a tail that does not have them. It takes nine live jobs after a
  restart, more than the run Wal has; found while proving, see `RoomyFiles`.
* A `release` without delay and a `reserve-job` write nothing to the log: a
  buried job that was reserved by id and released is buried again after a
  restart.
* A tube whose insertion into the array fails is never freed; the pause of a
  tube ends when the tube is freed.

### Bounds

Broker: two connections are enough for every interference of a pair (holder and
waiter, waiter and waiter); two jobs give an order and a second reservation next
to the one that runs out. `MaxId` bounds the puts of a run. Time is discrete:
what matters is how deadlines, margins and timeouts are ordered, so ttr 2,
margin 1 and timeouts 1 and 2 put the end of a reserve at and after the margin
of a job in BrokerTime; `MaxTime` 4 lets a reservation run out and the job be
handed out again. `MaxLag` 1 is how late the thread can be for a due timer and how
long `prottick` runs. It equals the margin, so that a connection can be served
from its own `conn_timeout`. BrokerTime has one job, which is handed around between two
connections; `SoonestJobHeld` over a list of two is in BrokerQueues, and over any
number in its theorem. BrokerQueues lets the clock reach 1, for its delays, so that
all commands and failures fit; BrokerTubes has one priority (ties by id, pauses),
BrokerQueues two. Deadlock is checked: a `hangup` of a waiting client is always
possible in the runs where all clients may wait.

Heap: six items make three levels, a last level that is partly filled included;
keys of two values give ties between any two.

TubeRefs: two connections, two jobs, the default tube and one name that can be
made twice more (`MaxTubes` 3): a tube is freed and its name made again while
the other connection goes on. Deadlock is checked.

Wal: records of 3 and 6 with a short record of 2 in files of 10 make files that
end with 0, 1 or more bytes free, so that balancing meets remainders; three jobs
and an update fill up to five files, `MaxSeq`, after which the disk is full;
compaction and the removal of several files at once happen. `MaxFaults` 2 gives a
crash during the recovery from the first, two jobs without a record, or one and
a crash after it. `job_data_size_limit` is large enough
for the jobs used, except in WalSizeLimit. Deadlock is not checked: a server
whose log failed does nothing more that this module has, and one that cannot
make its first file exits.

ConnIO: a buffer of 6 tokens and a bucket of 2 make lines longer than one and
longer than two buffers, and bodies that take several reads; every split of a
read or write is possible. There is one fault (`MaxFaults`), of a client or of a
`sockwant`. The scripts are those in which something follows the request under
test. Deadlock is not
checked: in the end everybody has been answered or has gone.

### Fairness

`FairSpec` has weak fairness of the steps the server thread takes by itself
(`srvserve` does not block while something is due: the period `prottick`
returns ends `socknext`) and strong fairness of the clock, which passes whatever
the clients do, although each handler keeps the model's clock still. Clients
have no fairness: they may stop for ever. A busy thread cannot starve its
timers because `prottick` runs between any two socket events.

ConnIO's `FairSpec` has weak fairness of `Serve`, the steps of the thread when
some socket is ready or a handler is not done: `srvserve` goes on as long as it
has work, and clients read their answers, so that a socket stays writable. Which
socket comes first is left open; scripts are finite, so nobody starves. Timers
are not fair there, and a client that waits for a job may do so for ever.

## The proofs

The theorems hold for any number of connections, tubes, jobs, names and items,
and for every value of the constants that satisfies the assumptions of the
modules (`ConstantsOK`, `ConnsFinite`; `HeapConstants`; `BoundAssumption`,
`FiniteAssumption`; `ConnConstants`; `WalConstants`). The bounds of the models
(`MaxId`, `MaxTime`, `MaxLag`, `MaxTubes`, `MaxSeq`, `MaxFaults`, `MaxUpdates`) are
among these constants: they may be as large as one likes.

| Theorem | Says | Hypothesis |
|---|---|---|
| `Invariance`, `TypeCorrect`, `JobsPlaced`, `SoonestJobIsHeld` (BrokerProofs) | `IInv`, `TypeOK`, `JobPlacement`, `SoonestJobHeld` | `~WalMayFail` |
| `SInvariance`, `WaitersListed`, `OutJobIsSafe`, `HandoffNotMissed`, `WaitersArmed` (BrokerSafety) | `SInv`, `WaitingSetsAgree`, `OutJobSafe`, `NoMissedHandoff`, `WaiterArmed` | `~WalMayFail` |
| `LeasesEndRightly`, `BestJobIsFirst` (BrokerSafety) | the action properties `LeaseEnds`, `BestJobFirst` | `~WalMayFail` |
| `LifecycleImplemented` (BrokerSafety) | Broker implements JobLifecycle | `~WalMayFail` |
| `CountersAreExact` (BrokerCounts) | `CountersExact` | `~WalMayFail` |
| `HeapInvariance`, `JobsInHeap`, `RootFirstInHeap` (HeapProofs) | `HInv`, `HeapHoldsMembers`, `RootIsLeast` | `TieBreak` |
| `TInvariance`, `TypesKept`, `CountsAreExact`, `NoUseAfterFree`, `NamesAreUnique`, `WaitersAreListed` (TubeProofs) | `TInv`, `TypeOK`, `RefsExact`, `NoDangling`, `OneTubePerName`, `WaitersListed` | none |
| `Inductive`, `TypeCorrect`, `Interest`, `NoDangling` (ConnProofs) | `IInv`, `TypeOK`, `InterestMatches`, `NoFreedConn` | none |
| `Inductive`, `TypeCorrect`, `References`, `Space`, `Overrun`, `Fits` (WalProofs) | `WInv`, `TypeOK`, `RefsExact`, `SpaceCovers`, `NoOverrun`, `WriteFits` | `RoomyFiles`, and `[]Recorded` in the behaviour |

The hypotheses are needed. `WalMayFail` lets a binlog refuse space or fail in
a write; `JobPlacement` is then false, as said above. All other failures
(`HeapMayFail`, `CopyMayFail`, a failing `sockwant`, a broken `conns` heap, appends
without memory in TubeRefs) are allowed, with the exceptions that the properties
name. Without `TieBreak` (the heap of connections) `HeapHoldsMembers` is
false: the run HeapConns shows it.

`RoomyFiles` says that two jobs and three delete records fit in a file. The
defaults (files of 10 MB, jobs of at most 64 kB) satisfy it by a factor of
seventy; options can violate it, and the invariant is then false (see `balance`
above). The run Wal does the opposite: its files of 10 units hold no two jobs of
6, so that every remainder, balance and failure occurs within five files, and
with three jobs the second turn of the loop is out of reach. The run and the
theorems therefore speak of different sizes: small files and few jobs, and
roomy files with any number of jobs, files, crashes and failures.

`Recorded` says that no put was buried without a record (`spent.unlogged` is
empty). The theorems of WalProofs have the form `Spec /\ []Recorded => []P`: they
speak of behaviours in which it stays so, with any number of kicks and releases
whose `heapinsert` fails. After such a put a file has reserved bytes that are not
whole delete records, the invariant of `balance` is false, and the run Wal shows
that `NoOverrun` and `WriteFits` are, too.

### Where every job is

`IInv` is `TypeOK` and

* `Whole(q)`: every job is in its container and no list has duplicates. This is
  most of `JobPlacement`, and is what each operation needs in order to remove a
  job from the container its state names;
* `Owners(q, conn)`: what a connection points to is its own: `soonest_job` is on
  its list, `in_job` is `invalid` and no other connection's, and a connection in
  the state that reads a body has one. Without it `connclose` could free a
  queued job;
* `FreshIds`: an id that was not given yet has no job, so that `put` does not
  overwrite one;
* `TaskServes`: a handler in progress has a connection;
* `~q.wal_use`, which keeps the failure branches of the binlog out.

The argument is about one job at a time: `remove_*_job` makes it `Floating`
(in no container, all others placed), `enqueue_job`, `bury_job`,
`conn_reserve_job` and `job_free` make a store with a floating job `Whole`, and
none of them touches another job (`Near`). `MoveStep` and `StayStep` carry this
from the store to the connections; then there is one lemma per action.

### What connections, timers and clients see

`SInv` is `IInv`, `WaitingSetsAgree`, `OutJobSafe`, `NoMissedHandoff` and

* `Busy`: the connection that `kick_jobs` or `connclose` works for is in the
  middle of its command, or half closed;
* `OutOnlyWhenSending`: a connection that does not write has no `out_job`, so
  that whoever takes a job from it cannot free it under a write;
* `Armed`: what `WaiterArmed` says between events, at every step and for every
  connection but the one `conn_timeout` is working on. The bound is `until`, fixed
  when the wait begins: `connsched`, which counts the timeout from the present
  time again, is called for a waiting connection only by those that end its wait.

Broker has some thirty actions but a dozen kinds of step: an answer, an upload,
the begin and the end of a wait, a reservation, a handing over by
`process_queue`, a reservation taken back, a close, and so on. A kind says what
becomes of the records of the jobs, of one connection and of the waiting sets,
and nothing about containers, which `JobPlacement` has settled. Lemma `Kinds`
shows that every action is a step of some kind; the invariants, `LeaseEnds`,
`BestJobFirst` and the refinement are then proved kind by kind.

`NoMissedHandoff` rests on the code's own argument: whatever makes a pair of a
ready job and a waiting connection (a job made ready, a wait begun, a pause
ended) leaves the thread in `process_queue`, and that loop ends only when
`next_awaited_job` finds nothing.

### The statistics

`Exact(s, X)` says that each counter is the number of jobs of the set `X` that
have its state. Taking job `j` out of its container makes the counters exact
over `Ids \ {j}`, putting it into one makes them exact over `Ids`; in between the
record of `j` may change. `Shift` says by how much an operation moves the
counters; it is shown once per operation of the store. The waiting counters go
with the waiting sets. A cardinality changes by one element at a time
(`FS_AddElement`, `FS_RemoveElement`), so that no sum is needed.

### The heap

`HInv` says of each moment of `siftdown` and `siftup` at cell `k`: all cells
other than `k` and its children come after their parents, and the parent of `k`
comes before the children of `k`; `Told`, every item is where it was told it is;
`len` is the number of items. A swap moves the hole to the parent or a child. The
root is the least: of the cells that come before it take the one with the least
index; its parent comes before the root too, a contradiction.

### The reference counts

`TInv` is `Exact(s)`. The first half, `Sound(s)`, has the types; that tubes freed
or not yet made are blank and nothing points to them; that the array lists
exactly the tubes with a positive count, under different names; and that the
waiting sets and watch lists are what the connections say. The second half says
that `Off`, `OffUse` and `OffWatch`, the distances between a counter and the
number of pointers it stands for, are zero.

Inside a command they are not: the pointer is changed before or after the count,
and a local variable of `dispatch_cmd` has a reference of its own. Each operation
has a lemma that says how it shifts the distances (`TakeRef`, `DropRef`,
`ConnSet`, `JobSet`, `CountUsing`, `Grown`, `WaitChange`), and a command is a
chain of them that ends at zero. `DropRef` is only used where the count is one
too high, so the tube is freed exactly when nothing points to it any more. That
is the argument that `use` needs when the new tube is the old one, and
`ms_clear` when a connection closes with the last reference.

### The event list and the connection machine

`epollq_add` does not look whether the connection is in the list already. One
that is added twice in one event (`connclose` hands a job to somebody who was
just told to wait, a reply follows another) gets its `next` overwritten. `IInv`
says why nobody is lost all the same and nothing dangles:

* `Queued`: a walk along the pointers visits exactly the connections of a set
  `M`, each once, and ends at Nil or, if `cyc`, is back at the first; the others
  have no `next`. Only the last connection of a list, or the only one, is ever
  added again: that closes the list to a ring, from which nothing falls out.
  Taking the first one from a ring makes it the last one of a list, so that
  `epollq_apply` visits it twice and comes to an end;
* `Links`: a connection outside `M` has told the kernel what its state needs
  (`Heard`), and one inside has its interest in `rw` and is not freed, or it is one
  whose `sockwant` failed (`lost`);
* `Phase`: which lists each handler can meet. `socknext` finds the list empty;
  `prottick` and `connclose` find one with nobody who waits, so that whoever is
  handed a job is new in the list or its last one; a command begins, and
  `epollq_rmconn` runs, with at most the connection itself in the list. Where
  somebody in the list waits it is alone in it (`WaitAlone`): that is why the
  `connclose` of a failed `sockwant`, in the middle of `epollq_apply`, does not
  hand its jobs to one that is already listed. The connection being closed is
  not in the list, unless it is lost;
* `Closing`: only the connection being closed is in state `CLOSE`;
* `Good`: the buffers of every connection (`Sane`), and no ready job while
  somebody waits (`Matched`);
* `World`: the types of what is outside the server.

`epollq_rmconn` is a loop over a second list, one connection per step, so that
the proof needs no fold.

### The binlog

`WInv` is about the memory, the place of the thread, and the disk.

* `Book`: the list of files is `head..tail`; the references of a file are the
  length of its job list, plus one while it is open and one while it is read;
  a job is in the list of `j->file` and in no other, once. A file outside the
  list has nothing.
* `Ledger`: `alive` is the sum of `walused` over all jobs, hence not negative.
* `Room`: before `cur` and after `tail` nothing is reserved; files after `cur`
  have not been written; one strictly between `cur` and `tail` has so much
  reserved that no reservation needs a further file (`Heavy`).
* `Arranged`: between commands every file has whole delete records, the current
  one the `n` bytes of the record that is due besides (`Even`). While `balance`
  and `balancerest` run, it says which file has the `n` bytes now, which lacks
  them, and what is still missing to a whole record (`Balancing`, `Resting`):
  the states that the comments of these functions pass over. It follows that
  `needfree` can fail only while the `n` bytes are in the tail, where `reserve`
  takes them back, and that the loop of `balance` takes one turn, if files are
  roomy.
* `w.resv = Claims(w) + Extra`: a delete record for each live job and the `spare`
  bytes of `NoMemory`, with what the command in progress has added or, during
  replay, still has to reserve. `spare` is a multiple of `Z` while `Recorded`
  holds, and zero during start-up (`Bare`).
* `Loading`: start-up has no current file and nothing reserved; `Broken`: a log
  not in use goes on only inside `walcompact`.
* `Stable`: the types of what is on disk; a full record has the size of a job.

A sum over files or jobs is a sequence of partial sums (`Partial`, `IsSum`): it
exists, is unique, and changes by `d` when one summand does. The lemmas show
this by a least counterexample, which well-foundedness of the naturals gives
without an induction theorem. Products and remainders of `Z` are kept inside
`Mult` (a multiple of `Z`), about which a few lemmas say all that is needed.

### Only model-checked

* Liveness (`WaiterAnswered`, `DelayEnds`, `EveryRequestAnswered`) and `ENABLED`:
  out of the prover's reach.
* `OneAnswer`: when its exception applies is a relation between the deadline of
  the job just handed out, the time `prottick` read, and what `conn_timeout` has
  left to do, over several steps.
* `RecoveryExact` of Wal: what the server has in memory after start-up against
  what it wrote before the crash. That start-up reads one record per step is no
  obstacle, but between the crash and its end the claim is about the records not
  yet read, of all files: an induction over the contents of the disk.
* `Framed` of ConnIO: a fold over a whole script, also induction over data.
* Wal with files that are not roomy, or after a put that was buried without a
  record; Broker with a failing binlog; the heap of connections.

## What is not modelled

* The hash table of `job.c` and its rehash: `job_find` is a function of the id.
* Parsing of command lines (`which_cmd`, the number and name readers) and the
  texts of the `stats` and `list-tubes` answers.
* `walsync`: a crash of the machine, which loses what was not synced, is not
  modelled, only one of the process. `waldirlock`: one server per directory is
  assumed.
* The bytes of a record, and errors in them; `readfull`'s short reads.
* `darwin.c` and `sunos.c`; `net.c`, `main.c`, `util.c`, `time.c`: system calls,
  options, logging, without protocol state.
* Which connection is lost from the conns heap, and which is found by mistake,
  when a tie or a failed `heapinsert` breaks it: Broker says that it may be any,
  Heap has the array, and they are not composed. A connection that was freed while
  the heap still has it is undefined behaviour and is not followed.
* What a process does after undefined behaviour: a freed connection in `epollq`, a
  freed job in the list of a binlog file, a NULL `out_job`.
* A crash between two unlinks of one `walgc`, and between the write of a delete
  record and the unlinks it causes.
* Liveness of the binlog (compaction catches up): TLC has to evaluate the
  fairness on more than a million states.

## State of the project

Modelled, with their runs: Broker, JobLifecycle, Heap, Ms, TubeRefs, ConnIO, Wal.
Proved: every safety invariant and action property of Broker but `OneAnswer`,
the refinement of JobLifecycle, the invariants of Heap (ties broken), of
TubeRefs, of ConnIO but `Framed`, and of Wal (roomy files, `Recorded`) but
`RecoveryExact`.

What could follow: a composition of the conns heap with Broker's `connsched`;
the hash table of `job.c`; a proof of `OneAnswer`.
