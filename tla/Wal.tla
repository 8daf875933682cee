---------------------------------- MODULE Wal ----------------------------------
(***************************************************************************)
(* The binlog of beanstalkd: the files of file.c, the space reservation,   *)
(* writing and compaction of walg.c, and the replay at start-up.           *)
(*                                                                         *)
(* The server thread runs one command at a time, and a command writes one  *)
(* record: put a full one, bury, kick and a release with a delay a short   *)
(* one, delete a short one in state Invalid.  `pc' is where that thread is *)
(* inside reserve, walwrite, walmaint or start-up.  A crash of the process *)
(* can come between any two steps; what was written to a file stays (loss  *)
(* of unsynced pages is not modelled).  Files are numbered in the order of *)
(* their creation and leave the list only at its head, so the list is      *)
(* head..tail, and `f->next' is f + 1.                                     *)
(***************************************************************************)
EXTENDS Integers, Sequences, FiniteSets, FiniteSetsExt, Functions

CONSTANTS
    MaxId,          \* bound: job ids are 1..MaxId
    MaxSeq,         \* bound: the disk is full after binlog.MaxSeq
    Z,              \* size of a short record: sizeof(int) + sizeof(Jobrec)
    FullSizes,      \* sizes of full records: Z, the tube name and the body
    HeaderSize,     \* sizeof(int), the version
    FileSize,       \* w->filesize
    job_data_size_limit,
    MaxFaults,      \* bound: crashes and heapinserts that find no memory
    MaxUpdates      \* bound: bury, kick and release commands

Ids == 1..MaxId
Seqs == 1..MaxSeq
Nil == 0            \* a NULL File or Job pointer
Trailer == 1        \* size of the line end that is stored with a body

\* A file has room for a job and its delete record (the default is 10 MB for
\* jobs of at most 64 kB).
ASSUME WalConstants ==
    /\ MaxId \in Nat \ {0} /\ MaxSeq \in Nat \ {0} /\ MaxFaults \in Nat
    /\ MaxUpdates \in Nat
    /\ Z \in Nat \ {0} /\ HeaderSize \in Nat /\ FileSize \in Nat
    /\ FullSizes \subseteq Nat /\ FullSizes # {} /\ job_data_size_limit \in Nat
    /\ \A n \in FullSizes : Z < n /\ n + Z <= FileSize - HeaderSize

VARIABLES
    m,              \* the memory of the process: struct Wal, its Files, the Jobs
    disk,           \* the files binlog.N
    pc,             \* where the server thread is
    logged,         \* history: each job as its last complete record has it
    rewriting,      \* history: jobs whose full record is dropped or half written
    spent           \* history: how many crashes, updates and heapinserts without
                    \* memory there were, and what the last ones left behind:
                    \* spare: bytes reserved for records that were not written
                    \* unlogged: jobs that put buried without a record
                    \* freed: jobs that delete freed in the list of a file
                    \* unread: jobs with records that start-up does not reach

vars == <<m, disk, pc, logged, rewriting, spent>>

-----------------------------------------------------------------------------
(* Files, jobs, records                                                    *)

\* What a restart finds of a job: its state, whether the body is the one the
\* client sent, and a time of its Jobrec, in nanoseconds.  (Delayed jobs are
\* logged and replayed like ready ones.)
LiveStates == {"ready", "buried"}
Bodies == {"whole", "zeros"}
Absent == [state |-> "none", body |-> "whole", at |-> 0]
Views == {Absent} \cup [state: LiveStates, body: Bodies, at: Nat]

JobRec == [state: LiveStates \cup {"none", "invalid"}, body: Bodies, at: Nat,
           file: Seqs \cup {Nil}, walused: Nat, size: FullSizes \cup {0}]
NoJob == [state |-> "none", body |-> "whole", at |-> 0, file |-> Nil,
          walused |-> 0, size |-> 0]

FileRec == [refs: Nat, iswopen: BOOLEAN, free: Int, resv: Int,
            jlist: Seq(Ids)]
NoFile == [refs |-> 0, iswopen |-> FALSE, free |-> 0, resv |-> 0,
           jlist |-> <<>>]

Record == [id: Ids, full: BOOLEAN, state: LiveStates \cup {"invalid"},
           body: Bodies, at: Nat, size: FullSizes \cup {Z}]

\* A file on disk; its version is 0 until the header is written.  Files of
\* version 5, left by an older server, have times in microseconds.
Walver == 7
Walver5 == 5
Image == [there: BOOLEAN, version: {0, Walver5, Walver}, recs: Seq(Record)]
NoImage == [there |-> FALSE, version |-> 0, recs |-> <<>>]
EmptyImage == [there |-> TRUE, version |-> Walver, recs |-> <<>>]

OldRecord == [id |-> 1, full |-> TRUE, state |-> "ready", body |-> "whole",
              at |-> 1, size |-> Min(FullSizes)]
OldImage == [there |-> TRUE, version |-> Walver5, recs |-> <<OldRecord>>]

Memory == [use: BOOLEAN, head: Seqs \cup {Nil}, cur: Seqs \cup {Nil},
           tail: Seqs \cup {Nil}, next: Nat, resv: Int, alive: Nat,
           file: [Seqs -> FileRec], job: [Ids -> JobRec], next_id: Nat]

FreshMemory ==
    [use |-> TRUE, head |-> Nil, cur |-> Nil, tail |-> Nil, next |-> 1,
     resv |-> 0, alive |-> 0, file |-> [f \in Seqs |-> NoFile],
     job |-> [j \in Ids |-> NoJob], next_id |-> 1]

\* The list from w->head to w->tail.
Files(w) == IF w.head = Nil THEN {} ELSE w.head..w.tail
Nfile(w) == Cardinality(Files(w))

\* walgc is the only one to take files off the list, and unlinks them.
Unlink(d, w, w1) ==
    [f \in Seqs |-> IF f \in Files(w) \ Files(w1)
                    THEN NoImage ELSE d[f]]

View(j) == [state |-> m.job[j].state, body |-> m.job[j].body, at |-> m.job[j].at]

-----------------------------------------------------------------------------
(* file.c: references and jobs of a file                                   *)

\* Faulty variant: a file that is not written any more goes although one job
\* needs it.
walgc_early(w) ==
    LET live == {f \in Files(w) : w.file[f].refs > 1 \/ w.file[f].iswopen}
        head == IF live = {} THEN Nil ELSE Min(live)
    IN  [w EXCEPT !.head = head, !.tail = IF live = {} THEN Nil ELSE @]

\* The files before the first one that has references go, in the order of their
\* numbers: one that holds a job's full record before those with later ones.
\* That a crash may come between two of the unlinks is left out.
walgc(w) ==
    LET live == {f \in Files(w) : w.file[f].refs > 0}
        head == IF live = {} THEN Nil ELSE Min(live)
    IN  [w EXCEPT !.head = head, !.tail = IF live = {} THEN Nil ELSE @,
                  !.file = [f \in Seqs |-> IF f \in Files(w) /\
                                              (f < head \/ head = Nil)
                                           THEN NoFile ELSE w.file[f]]]

fileincref(w, f) == [w EXCEPT !.file[f].refs = @ + 1]

filedecref(w, f) ==
    LET w1 == [w EXCEPT !.file[f].refs = @ - 1]
    IN  IF w1.file[f].refs < 1 THEN walgc(w1) ELSE w1

fileaddjob(w, f, j) ==
    fileincref([w EXCEPT !.file[f].jlist = Append(@, j), !.job[j].file = f], f)

\* The list l without job j.
Without(l, j) ==
    LET i == CHOOSE i \in DOMAIN l : l[i] = j
    IN  [k \in 1..(Len(l) - 1) |-> IF k < i THEN l[k] ELSE l[k + 1]]

\* The jobs whose links fileaddjob and filermjob change.
Last(l) == IF l = <<>> THEN {} ELSE {l[Len(l)]}
Beside(l, j) == {l[i] : i \in {k \in DOMAIN l : \/ k > 1 /\ l[k - 1] = j
                                                \/ k < Len(l) /\ l[k + 1] = j}}

\* Undefined behaviour: the links of a job that was freed.  It is not followed.
Intact(jobs) == jobs \cap spent.freed = {}

filermjob(w, j) ==
    LET f == w.job[j].file
    IN  IF f = Nil THEN w
        ELSE filedecref(
                [w EXCEPT !.file[f].jlist = Without(@, j),
                          !.job[j].file = Nil, !.job[j].walused = 0,
                          !.alive = @ - w.job[j].walused], f)

\* filewclose also cuts the unused end off the file.
filewclose(w, f) ==
    IF w.file[f].iswopen
    THEN filedecref([w EXCEPT !.file[f].iswopen = FALSE], f)
    ELSE w

fileadd(w, f) ==
    [w EXCEPT !.tail = f, !.head = IF @ = Nil THEN f ELSE @]

\* It does nothing when there is no next file.
usenext(w) ==
    IF w.cur < w.tail THEN filewclose([w EXCEPT !.cur = @ + 1], w.cur) ELSE w

-----------------------------------------------------------------------------
(* walg.c: reserving space                                                 *)

\* The outcomes of an operation that can fail.
Ok(w) == [ok |-> TRUE, w |-> w]
Failed(w) == [ok |-> FALSE, w |-> w]

NewFile == [refs |-> 1, iswopen |-> TRUE, free |-> FileSize - HeaderSize,
            resv |-> 0, jlist |-> <<>>]

\* A new file at the tail, or none: no memory, or no space on the disk.
makenextfile(w) ==
    {Failed(w)} \cup
    {Ok(fileadd([w EXCEPT !.next = @ + 1, !.file[f] = NewFile], f)) :
        f \in {w.next} \cap Seqs}

needfree(w, n) == IF w.file[w.tail].free >= n THEN {Ok(w)} ELSE makenextfile(w)

moveresv(w, to, from, n) ==
    [w EXCEPT !.file[from].resv = @ - n, !.file[from].free = @ + n,
              !.file[to].resv = @ + n, !.file[to].free = @ - n]

\* n bytes of file f and of the log become reserved (n < 0: are given back).
take(w, f, n) ==
    [w EXCEPT !.resv = @ + n, !.file[f].resv = @ + n, !.file[f].free = @ - n]

\* One iteration of the loop of balance: what is reserved in cur moves to the
\* tail, and the next file becomes cur.
balance(w) ==
    {IF x.ok THEN Ok(usenext(moveresv(x.w, x.w.tail, w.cur, w.file[w.cur].resv)))
     ELSE x : x \in needfree(w, w.file[w.cur].resv)}

\* The remainder of C, with the sign of a.
remainder(a) == IF a >= 0 THEN a % Z ELSE -((-a) % Z)

\* Faulty variant: the file that takes bytes from the tail is not asked
\* whether it has room for them.
balancerest_full(w, b, n) ==
    LET r == remainder(w.file[b].resv - n)
        c == Z - r
    IN  IF r = 0 THEN {Ok(w)}
        ELSE IF w.file[w.tail].resv >= c
        THEN {Ok(moveresv(w, b, w.tail, c))}
        ELSE {IF x.ok THEN Ok(moveresv(x.w, x.w.tail, b, r)) ELSE x :
                x \in needfree(w, r)}

\* Faulty variant: nothing is balanced.
balancerest_none(w, b, n) == {Ok(w)}

\* balancerest for one file b.
balancerest(w, b, n) ==
    LET r == remainder(w.file[b].resv - n)
        c == Z - r
    IN  IF r = 0 THEN {Ok(w)}
        ELSE IF w.file[w.tail].resv >= c /\ w.file[b].free >= c
        THEN {Ok(moveresv(w, b, w.tail, c))}
        ELSE {IF x.ok THEN Ok(moveresv(x.w, x.w.tail, b, r)) ELSE x :
                x \in needfree(w, r)}

-----------------------------------------------------------------------------
(* The server thread                                                       *)

\* op: the command (or migrate, replay) that reserves or writes; j: its job;
\* to: the state the job gets; n: bytes to reserve; b: the file that
\* balancerest is at, or the one being read; r: migrations left, or the
\* record to read.
PC(at, op, j, to, n, b, r) ==
    [at |-> at, op |-> op, j |-> j, to |-> to, n |-> n, b |-> b, r |-> r]

Idle == PC("idle", "none", Nil, "none", 0, Nil, 0)
Down == PC("down", "none", Nil, "none", 0, Nil, 0)

\* The bound is not reached.
Faulty == spent.crashes + spent.ooms < MaxFaults

PCs == [at: {"idle", "down", "balance", "rest", "write", "body", "compact",
             "read", "first", "replay"},
        op: {"none", "put", "update", "delete", "migrate", "replay"},
        j: Ids \cup {Nil}, to: LiveStates \cup {"none", "invalid"}, n: Nat,
        b: Seqs \cup {Nil}, r: Nat]

Init ==
    /\ m = FreshMemory
    /\ \/ disk = [f \in Seqs |-> NoImage] /\ logged = [j \in Ids |-> Absent]
       \/ /\ disk = [f \in Seqs |-> IF f = 1 THEN OldImage ELSE NoImage]
          /\ logged = [j \in Ids |-> IF j = 1
                         THEN [state |-> "ready", body |-> "whole", at |-> 1000]
                         ELSE Absent]
    /\ pc = Down
    /\ rewriting = {}
    /\ spent = [crashes |-> 0, updates |-> 0, ooms |-> 0, spare |-> 0,
                unlogged |-> {}, freed |-> {}, unread |-> {}]

\* The disk when the memory becomes w: a file that joins the list is created,
\* one that leaves it is unlinked.
DiskFor(w) ==
    [f \in Seqs |-> IF f \in Files(w) \ Files(m) THEN EmptyImage
                    ELSE Unlink(disk, m, w)[f]]

Become(w) == m' = w /\ disk' = DiskFor(w)

\* Record rec goes to the end of file f.
Logged(w, f, rec) ==
    /\ m' = w
    /\ disk' = [Unlink(disk, m, w) EXCEPT ![f].recs = Append(@, rec)]

History == <<logged, rewriting, spent>>

\* The migrations that walcompact tries.
ratio(w) ==
    LET d == w.alive + w.resv
    IN  IF d = 0 THEN 0 ELSE (Nfile(w) * FileSize - d) \div d

\* Faulty variant: the loop ends only at 1.
walmaint_on(r) ==
    IF r # 1 THEN PC("compact", "migrate", Nil, "none", 0, Nil, r) ELSE Idle

\* walmaint with r migrations left.
walmaint(r) ==
    IF r >= 2 THEN PC("compact", "migrate", Nil, "none", 0, Nil, r) ELSE Idle

-----------------------------------------------------------------------------
(* Reserving                                                               *)

\* reserve has succeeded, with memory w.  moveone takes the job off the head,
\* which may remove that file, before it writes the job again.
Reserved(w, p) ==
    IF p.op = "migrate"
    THEN /\ Become(filermjob(w, p.j))
         /\ pc' = [p EXCEPT !.at = "write"]
         /\ rewriting' = rewriting \cup {p.j}
    ELSE /\ Become(w)
         /\ pc' = [p EXCEPT !.at = IF p.op = "replay" THEN "replay" ELSE "write"]
         /\ UNCHANGED rewriting

\* reserve has failed: the command is refused, the migration is put off, a
\* server that is starting exits.
NotReserved(w, p) ==
    /\ m' = IF p.op = "replay" THEN FreshMemory ELSE w
    /\ disk' = DiskFor(w)
    /\ pc' = CASE p.op = "migrate" -> walmaint(p.r - 1)
               [] p.op = "replay"  -> Down
               [] OTHER            -> Idle
    /\ UNCHANGED rewriting

\* reserve, up to its call of balance.
reserve(p) ==
    IF ~m.use THEN Reserved(m, p)
    ELSE IF m.file[m.cur].free >= p.n THEN Reserved(take(m, m.cur, p.n), p)
    ELSE \E x \in needfree(m, p.n) :
            IF x.ok
            THEN /\ Become(take(x.w, x.w.tail, p.n))
                 /\ pc' = [p EXCEPT !.at = "balance"]
                 /\ UNCHANGED rewriting
            ELSE NotReserved(x.w, p)

\* Faulty variant: nothing is given back.
Undone_not(w) == w

\* What reserve gives back when balance fails: w->tail is read again.
Undone(w) == take(w, w.tail, -pc.n)

\* Invariant 1 of balance.
Balance ==
    /\ pc.at = "balance"
    /\ IF m.file[m.cur].resv < pc.n
       THEN \E x \in balance(m) :
               IF x.ok THEN Become(x.w) /\ UNCHANGED <<pc, rewriting>>
               ELSE NotReserved(Undone(x.w), pc)
       ELSE /\ pc' = [pc EXCEPT !.at = "rest", !.b = m.cur]
            /\ UNCHANGED <<m, disk, rewriting>>
    /\ UNCHANGED <<logged, spent>>

\* Invariants 2 and 3 of balance, one file at a time.
BalanceRest ==
    /\ pc.at = "rest"
    /\ \E x \in balancerest(m, pc.b, IF pc.b = m.cur THEN pc.n ELSE 0) :
          IF ~x.ok THEN NotReserved(Undone(x.w), [pc EXCEPT !.b = Nil])
          ELSE IF pc.b = x.w.tail THEN Reserved(x.w, [pc EXCEPT !.b = Nil])
          ELSE /\ Become(x.w)
               /\ pc' = [pc EXCEPT !.b = @ + 1]
               /\ UNCHANGED rewriting
    /\ UNCHANGED <<logged, spent>>

-----------------------------------------------------------------------------
(* Commands                                                                *)

\* A delete is not over before its job_free.
Serving == pc = Idle /\ m.use /\ \A j \in Ids : m.job[j].state # "invalid"

InLog == {j \in Ids : m.job[j].state \in LiveStates}

\* put: walresvput, then enqueue_job.  The limit is on the body as the client
\* counts it.
put(size) ==
    /\ Serving /\ m.next_id <= MaxId
    /\ size - Z - Trailer <= job_data_size_limit
    /\ reserve(PC("write", "put", m.next_id, "ready", size + Z, Nil, 0))
    /\ UNCHANGED <<logged, spent>>

\* bury, kick and release with a delay: walresvupdate, then a record of the
\* new state (a delayed job that is kicked or released stays "ready").
update(j, s) ==
    /\ Serving /\ j \in InLog /\ {s, m.job[j].state} # {"buried"}
    /\ spent.updates < MaxUpdates
    /\ spent' = [spent EXCEPT !.updates = @ + 1]
    /\ reserve(PC("write", "update", j, s, Z, Nil, 0))
    /\ UNCHANGED logged

\* delete reserves nothing: put did it.
delete(j) ==
    /\ Serving /\ j \in InLog
    /\ pc' = PC("write", "delete", j, "invalid", 0, Nil, 0)
    /\ UNCHANGED <<m, disk, rewriting, logged, spent>>

-----------------------------------------------------------------------------
(* Writing                                                                 *)

filewrite(w, j, n) ==
    [w EXCEPT !.resv = @ - n, !.alive = @ + n, !.file[w.cur].resv = @ - n,
              !.job[j].walused = @ + n]

\* The memory in which walwrite writes; none when there is no next file.
WriteIn == IF m.file[m.cur].resv > 0 THEN {m}
           ELSE IF m.cur < m.tail THEN {usenext(m)} ELSE {}

\* The job the record is of, as the command has it.
JobToWrite ==
    IF pc.op = "put"
    THEN [NoJob EXCEPT !.state = pc.to, !.at = 1, !.size = pc.n - Z]
    ELSE [m.job[pc.j] EXCEPT !.state = pc.to]

\* The bytes of the record, and whether they are reserved.
Needed == IF m.job[pc.j].file = Nil THEN JobToWrite.size ELSE Z
Fitting(w) == w.file[w.cur].resv >= Needed

\* A write of more than is reserved, after a job was left without a record, is
\* not followed: resv becomes negative, and filewclose may cut the record off.
Followed(w) == spent.unlogged = {} \/ Fitting(w)

RecordOf(full, body) ==
    [id |-> pc.j, full |-> full, state |-> pc.to, body |-> body,
     at |-> JobToWrite.at, size |-> IF full THEN JobToWrite.size ELSE Z]

\* A short record; the delete record lets the job's file go (in one step: the
\* files that walgc then unlinks are not followed one by one).
filewrjobshort(w) ==
    LET w1 == filewrite([w EXCEPT !.job[pc.j] = JobToWrite], pc.j, Z)
    IN  IF pc.to = "invalid"
        THEN [filermjob(w1, pc.j) EXCEPT !.job[pc.j] = NoJob]
        ELSE w1

addtocur(w) ==
    fileaddjob([w EXCEPT !.job[pc.j] = JobToWrite,
                         !.next_id = IF pc.op = "put" THEN @ + 1 ELSE @],
               w.cur, pc.j)

\* A full record, up to the job struct.
filewrjobfull(w) == filewrite(addtocur(w), pc.j, Z)

\* The caller of walwrite goes on, with memory w.
AfterWrite(w) ==
    pc' = IF pc.op = "migrate" THEN walmaint(pc.r - 1) ELSE walmaint(ratio(w))

\* heapinsert of enqueue_job, before the record is written, finds no memory:
\* the job is buried (a delayed one that is kicked may go back to its heap), and
\* no record is written for the bytes that are reserved.
NoMemory ==
    /\ pc.at = "write" /\ m.use /\ Faulty
    /\ \/ /\ pc.op = "put"
          /\ m' = [m EXCEPT !.job[pc.j] = [JobToWrite EXCEPT !.state = "buried"],
                            !.next_id = @ + 1]
          /\ spent' = [spent EXCEPT !.ooms = @ + 1, !.spare = @ + pc.n - Z,
                                    !.unlogged = @ \cup {pc.j}]
       \/ /\ pc.op = "update" /\ pc.to = "ready"
          /\ \E s \in {"buried", m.job[pc.j].state} : m' = [m EXCEPT !.job[pc.j].state = s]
          /\ spent' = [spent EXCEPT !.ooms = @ + 1, !.spare = @ + Z]
    /\ pc' = Idle
    /\ UNCHANGED <<disk, logged, rewriting>>

WriteShort ==
    /\ pc.at = "write" /\ m.use /\ m.job[pc.j].file # Nil
    /\ pc.to = "invalid" => Intact(Beside(m.file[m.job[pc.j].file].jlist, pc.j))
    /\ \E w \in WriteIn :
        LET w1 == filewrjobshort(w)
        IN  /\ Followed(w)
            /\ Logged(w1, w.cur, RecordOf(FALSE, m.job[pc.j].body))
            /\ AfterWrite(w1)
            /\ logged' = [logged EXCEPT ![pc.j] =
                            IF pc.to = "invalid" THEN Absent
                            ELSE [@ EXCEPT !.state = pc.to]]
    /\ UNCHANGED <<rewriting, spent>>

\* Also the update or the delete of a job without a record: its bytes are those
\* that put reserved.
WriteFull ==
    /\ pc.at = "write" /\ m.use /\ m.job[pc.j].file = Nil
    /\ \E w \in WriteIn : /\ Followed(w) /\ Intact(Last(w.file[w.cur].jlist))
                          /\ Logged(filewrjobfull(w), w.cur, RecordOf(TRUE, "zeros"))
    /\ pc' = [pc EXCEPT !.at = "body"]
    /\ rewriting' = rewriting \cup {pc.j}
    /\ spent' = IF pc.op \in {"update", "delete"}
                THEN [spent EXCEPT !.spare = @ + Z - JobToWrite.size] ELSE spent
    /\ UNCHANGED logged

\* The body, over the zeros that rawfalloc left.  A delete that writes it does
\* not take the job out of the file's list.
WriteBody ==
    LET w1 == filewrite(m, pc.j, m.job[pc.j].size - Z)
        last == Len(disk[m.cur].recs)
    IN  /\ pc.at = "body"
        /\ m' = w1
        /\ disk' = [disk EXCEPT ![m.cur].recs[last].body = m.job[pc.j].body]
        /\ AfterWrite(w1)
        /\ logged' = [logged EXCEPT ![pc.j] =
                        IF pc.to = "invalid" THEN Absent ELSE View(pc.j)]
        /\ rewriting' = rewriting \ {pc.j}
        /\ UNCHANGED spent

\* walwrite fails: the system call does (a full record has by then been added
\* to the jobs of its file), or there is no file to write to.  The log is not
\* used any more, but walcompact goes on.
WriteFails ==
    /\ pc.at \in {"write", "body"} /\ m.use
    /\ \E w \in IF pc.at = "body" \/ WriteIn = {} THEN {m}
                ELSE IF m.job[pc.j].file # Nil THEN WriteIn
                ELSE {addtocur(u) : u \in {v \in WriteIn : Intact(Last(v.file[v.cur].jlist))}} :
          Become([filewclose(w, w.cur) EXCEPT !.use = FALSE])
    /\ pc' = IF pc.op = "migrate" THEN walmaint(pc.r - 1) ELSE Idle
    /\ UNCHANGED History

\* walwrite of a log that is not used takes no action.
WriteNothing ==
    /\ pc.at = "write" /\ ~m.use
    /\ AfterWrite(m)
    /\ UNCHANGED <<m, disk, logged, rewriting, spent>>

\* The end of the delete of a job that had no record.
job_free(j) ==
    /\ pc = Idle /\ m.job[j].state = "invalid"
    /\ m' = [m EXCEPT !.job[j] = NoJob]
    /\ spent' = [spent EXCEPT !.freed = @ \cup {j}]
    /\ UNCHANGED <<disk, pc, logged, rewriting>>

-----------------------------------------------------------------------------
(* Compaction                                                              *)

\* Is there a job for moveone to move?  Not when the head is the current file
\* or the one before it.
Movable == /\ m.head \notin {m.cur, m.cur - 1}
           /\ m.file[m.head].jlist # <<>>

\* moveone, up to its walwrite.
moveone ==
    /\ pc.at = "compact" /\ Movable
    /\ LET j == Head(m.file[m.head].jlist)
       IN  /\ Intact({j} \cup Beside(m.file[m.head].jlist, j))
           /\ reserve(PC("write", "migrate", j, m.job[j].state, m.job[j].size, Nil, pc.r))
    /\ UNCHANGED <<logged, spent>>

\* No job to move: the remaining calls of moveone change nothing.
walcompact_end ==
    /\ pc.at = "compact" /\ ~Movable
    /\ pc' = Idle
    /\ UNCHANGED <<m, disk, logged, rewriting, spent>>

-----------------------------------------------------------------------------
(* Crash and start-up                                                      *)

\* The next reservation may need a new file.
Grows == \/ pc.at = "first"
         \/ /\ pc.at = "idle" /\ m.use /\ m.next_id <= MaxId
            /\ \E n \in FullSizes : /\ m.file[m.cur].free < n + Z
                                    /\ m.file[m.tail].free < n + Z

\* The process dies, perhaps while it creates a file.
Crash ==
    /\ pc # Down /\ Faulty
    /\ spent' = [spent EXCEPT !.crashes = @ + 1, !.spare = 0, !.unlogged = {}, !.freed = {}]
    /\ m' = FreshMemory
    /\ pc' = Down
    /\ \/ disk' = disk
       \/ /\ Grows /\ m.next \in Seqs
          /\ disk' = [disk EXCEPT ![m.next] = [EmptyImage EXCEPT !.version = 0]]
    /\ UNCHANGED <<logged, rewriting>>

Present == {f \in Seqs : disk[f].there}

\* Start to read file f, when there is one.
ReadFrom(w, f) ==
    pc' = IF f < w.next THEN PC("read", "none", Nil, "none", 0, f, 0)
          ELSE PC("first", "none", Nil, "none", 0, Nil, 0)

\* walinit: walscandir.
walscandir ==
    LET w == [m EXCEPT !.next = IF Present = {} THEN 1 ELSE Max(Present) + 1]
    IN  /\ pc = Down
        /\ m' = w
        /\ ReadFrom(w, IF Present = {} THEN w.next ELSE Min(Present))
        /\ UNCHANGED <<disk, logged, rewriting, spent>>

\* walread opens the next file.  One without a version is left in the list
\* with no reference.
fileread ==
    LET w == fileadd(m, pc.b)
    IN  /\ pc.at = "read" /\ pc.r = 0
        /\ IF disk[pc.b].version \in {Walver, Walver5}
           THEN m' = fileincref(w, pc.b) /\ pc' = [pc EXCEPT !.r = 1]
           ELSE m' = w /\ ReadFrom(w, pc.b + 1)
        /\ UNCHANGED <<disk, logged, rewriting, spent>>

make_job_with_id(w, id, size) ==
    [w EXCEPT !.job[id] = [NoJob EXCEPT !.size = size],
              !.next_id = IF id >= @ THEN id + 1 ELSE @]

\* Faulty variant: a full record leaves the job with the earlier file, too.
readrec_twice(w, f, rec) ==
    LET j == rec.id
        known == w.job[j].state # "none"
        w1 == IF known THEN w ELSE make_job_with_id(w, j, rec.size)
        w2 == [w1 EXCEPT !.job[j].state = rec.state, !.job[j].at = rec.at]
        w3 == IF rec.full
              THEN fileaddjob([w2 EXCEPT !.job[j].body = rec.body], f, j)
              ELSE w2
    IN  IF ~known /\ ~rec.full THEN w
        ELSE IF rec.state = "invalid"
        THEN [filermjob(w, j) EXCEPT !.job[j] = NoJob]
        ELSE [w3 EXCEPT !.job[j].walused = @ + rec.size, !.alive = @ + rec.size]

\* One record of file f.  A short one of an unknown job is ignored; a full one
\* moves the job to this file.
readrec(w, f, rec) ==
    LET j == rec.id
        known == w.job[j].state # "none"
        w1 == IF known THEN w ELSE make_job_with_id(w, j, rec.size)
        w2 == [w1 EXCEPT !.job[j].state = rec.state, !.job[j].at = rec.at]
        w3 == IF rec.full
              THEN fileaddjob(filermjob([w2 EXCEPT !.job[j].body = rec.body], j), f, j)
              ELSE w2
    IN  IF ~known /\ ~rec.full THEN w
        ELSE IF rec.state = "invalid"
        THEN [filermjob(w, j) EXCEPT !.job[j] = NoJob]
        ELSE [w3 EXCEPT !.job[j].walused = @ + rec.size, !.alive = @ + rec.size]

\* The same with times in microseconds.
readrec5(w, f, rec) == readrec(w, f, [rec EXCEPT !.at = 1000 * @])

\* readrec refuses a new job whose body, with its line end, is above the limit,
\* and with it the rest of the file.
TooBig(rec) ==
    /\ m.job[rec.id].state = "none" /\ rec.full /\ rec.state # "invalid"
    /\ rec.size - Z > job_data_size_limit

\* readrec does not read the body of a full record in state Invalid: fileread
\* takes it for the next record, and stops there.
HidesRest(rec) == rec.full /\ rec.state = "invalid"

\* The loop of fileread.
ReadRecord ==
    /\ pc.at = "read" /\ pc.r > 0
    /\ LET recs == disk[pc.b].recs
       IN  IF pc.r <= Len(recs) /\ ~TooBig(recs[pc.r])
           THEN /\ m' = IF disk[pc.b].version = Walver THEN readrec(m, pc.b, recs[pc.r])
                        ELSE readrec5(m, pc.b, recs[pc.r])
                /\ IF HidesRest(recs[pc.r])
                   THEN /\ pc' = [pc EXCEPT !.r = Len(recs) + 1]
                        /\ spent' = [spent EXCEPT !.unread = @ \cup
                                       {recs[i].id : i \in (pc.r + 1)..Len(recs)}]
                   ELSE pc' = [pc EXCEPT !.r = @ + 1] /\ UNCHANGED spent
           ELSE m' = filedecref(m, pc.b) /\ ReadFrom(m, pc.b + 1) /\ UNCHANGED spent
    /\ disk' = Unlink(disk, m, m')
    /\ UNCHANGED <<logged, rewriting>>

\* walinit: the first writable file, without which the server exits.
FirstFile ==
    /\ pc.at = "first"
    /\ \E x \in makenextfile(m) :
        IF x.ok
        THEN /\ Become([x.w EXCEPT !.cur = x.w.tail])
             /\ pc' = PC("replay", "replay", Nil, "none", Z, Nil, Cardinality(InLog))
        ELSE m' = FreshMemory /\ pc' = Down /\ UNCHANGED disk
    /\ UNCHANGED History

\* prot_replay reserves a delete record for every job.
prot_replay ==
    /\ pc.at = "replay" /\ pc.r > 0
    /\ reserve([pc EXCEPT !.r = @ - 1])
    /\ UNCHANGED <<logged, spent>>

replay_end ==
    /\ pc.at = "replay" /\ pc.r = 0
    /\ pc' = Idle
    /\ logged' = [j \in Ids |-> View(j)]
    /\ rewriting' = {}
    /\ spent' = [spent EXCEPT !.unread = {}]
    /\ UNCHANGED <<m, disk>>

Next ==
    \/ \E size \in FullSizes : put(size)
    \/ \E j \in Ids, s \in LiveStates : update(j, s)
    \/ \E j \in Ids : delete(j)
    \/ Balance \/ BalanceRest
    \/ NoMemory \/ (\E j \in Ids : job_free(j))
    \/ WriteShort \/ WriteFull \/ WriteBody \/ WriteFails \/ WriteNothing
    \/ moveone \/ walcompact_end
    \/ Crash
    \/ walscandir \/ fileread \/ ReadRecord \/ FirstFile \/ prot_replay \/ replay_end

Spec == Init /\ [][Next]_vars

-----------------------------------------------------------------------------
(* Properties                                                              *)

\* struct Wal, its files and jobs keep their types; no reference count wraps
\* (refs is unsigned in file.c), no loop of walcompact outlives its count.
TypeOK ==
    /\ m \in Memory
    /\ disk \in [Seqs -> Image]
    /\ pc \in PCs
    /\ logged \in [Ids -> Views]
    /\ rewriting \subseteq Ids
    /\ spent \in [crashes: 0..MaxFaults, updates: 0..MaxUpdates, ooms: 0..MaxFaults,
                 spare: Nat, unlogged: SUBSET Ids, freed: SUBSET Ids, unread: SUBSET Ids]

\* What walread finds is what was last written of every job, whichever files
\* walgc removed and wherever the process died: no job is lost, no deleted job
\* comes back, no older state wins (doc/beanstalkd.ronn: "Upon startup,
\* beanstalkd will recover any binlog that is present").  Left out are jobs whose
\* full record was dropped or half written at that moment (see Durable), and
\* those behind the delete of a job without a record (see HidesRest).  It
\* fails when FullSizes has a job that put accepts and TooBig refuses.
RecoveryExact ==
    pc.at = "replay" => \A j \in Ids \ (rewriting \cup spent.unread) : View(j) = logged[j]

\* The same for every job whose put was answered.  It fails: moveone lets the
\* old record go before it writes the new one.
Durable ==
    pc.at = "replay" =>
        \A j \in Ids : logged[j] # Absent => View(j) = logged[j]

\* The reference count on which walgc relies is the number of jobs whose full
\* record is in the file, plus one while it is open for writing and one while
\* fileread reads it; and the job list of a file agrees with j->file.  Jobs
\* that job_free left in a list are counted there, but are no jobs any more.
RefsExact ==
    \A f \in Files(m) :
        /\ m.file[f].refs = Len(m.file[f].jlist)
                            + (IF m.file[f].iswopen THEN 1 ELSE 0)
                            + (IF pc.at = "read" /\ pc.b = f /\ pc.r > 0 THEN 1 ELSE 0)
        /\ \A j \in Ids \ spent.freed : m.job[j].file = f <=> j \in Range(m.file[f].jlist)

WriteFiles == IF m.cur = Nil THEN {} ELSE m.cur..m.tail

\* What is reserved in the files 1..f.
ResvUpto[f \in 0..MaxSeq] == IF f = 0 THEN 0 ELSE ResvUpto[f - 1] + m.file[f].resv

\* Between commands one delete record is reserved per job, and beyond them
\* exactly what NoMemory left, all of it in the files from cur on, none of which
\* holds part of a record (the invariants in the comments of balance and
\* balancerest; a body that was not written breaks this part), whatever
\* reservations failed on the way.
SpaceCovers ==
    pc = Idle /\ m.use =>
        /\ spent.unlogged = {} => \A f \in WriteFiles : m.file[f].resv % Z = 0
        /\ \A f \in Seqs \ WriteFiles : m.file[f].resv = 0
        /\ m.resv = ResvUpto[MaxSeq]
        /\ m.resv = Z * Cardinality(InLog) + spent.spare

\* No file is promised more than it has, also while balance moves reserved
\* bytes between files.  The spare bytes of a kick or a release are moved like
\* any others; those of a put that was not logged are an exception, as they are
\* not whole delete records.
NoOverrun ==
    spent.unlogged = {} => \A f \in Files(m) : m.file[f].free >= 0 /\ m.file[f].resv >= 0

\* walwrite finds the bytes of its record reserved in the current file, or in
\* the next one: walg.c says that it "should never fail because of a full
\* disk", and delete makes no reservation of its own.  The exception is again a
\* put that was not logged: the delete of its job writes a full record.
WriteFits ==
    pc.at = "write" /\ m.use /\ spent.unlogged = {} =>
        \E w \in WriteIn : Fitting(w)
=============================================================================
