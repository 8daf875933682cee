------------------------------- MODULE TubeRefs -------------------------------
(***************************************************************************)
(* The life of tubes: tube.c, TUBE_ASSIGN and the watch callbacks of       *)
(* conn.c.  A tube is made when a command names it and freed when the last *)
(* reference goes: one for each connection that uses it, each that watches *)
(* it, each job and each copy of a job.  The array `tubes' holds none.     *)
(*                                                                         *)
(* A tube is an address here: a name that comes back after its tube was    *)
(* freed is another tube.  Of jobs only the tube pointer is kept, and      *)
(* a job may become ready at any time (module Broker has the queues).      *)
(***************************************************************************)
EXTENDS Integers, Sequences, FiniteSets, Ms

CONSTANTS
    Conns,
    Names,          \* tube names other than "default"
    Jobs,           \* places for jobs
    MaxTubes        \* bound: tubes made in a run, the default one included

ASSUME BoundAssumption == MaxTubes \in Nat \ {0}

\* A server has finitely many file descriptors, and memory for so many jobs.
ASSUME FiniteAssumption == IsFiniteSet(Conns) /\ IsFiniteSet(Jobs)

VARIABLES s

Tubes == 1..MaxTubes

Nil == 0

Default == 1

NoTube ==
    [name |-> "none", refs |-> 0, using_ct |-> 0, watching_ct |-> 0,
     waiting_conns |-> ms_init, waiting_ct |-> 0]

NoConn == [open |-> FALSE, use |-> Nil, watch |-> ms_init, waiting |-> FALSE,
           in_job |-> Nil, out_job |-> Nil]

\* prot_init: the server itself keeps a reference to the default tube.
Init ==
    s = [tube |-> [t \in Tubes |-> IF t = Default
                                   THEN [NoTube EXCEPT !.name = "default", !.refs = 1]
                                   ELSE NoTube],
         made |-> 1,                    \* tubes 1..made exist or have existed
         freed |-> {},
         tubes |-> ms_append(ms_init, Default),
         conn |-> [c \in Conns |-> NoConn],
         job |-> [j \in Jobs |-> Nil],  \* j->tube of a stored job
         unlisted |-> {},               \* failed appends to waiting_conns
         closing |-> {},                \* the connection ms_clear works for
         wild |-> FALSE]                \* a freed tube was written to

-----------------------------------------------------------------------------
(* tube.c                                                                  *)

\* A write to the tube at address t, which must be there still.
Touch(st, t, rec) ==
    IF t \in st.freed THEN [st EXCEPT !.wild = TRUE] ELSE [st EXCEPT !.tube[t] = rec]

tube_free(st, t) ==
    [st EXCEPT !.tubes = ms_remove(@, t), !.tube[t] = NoTube, !.freed = @ \cup {t}]

tube_dref(st, t) ==
    IF t = Nil THEN st
    ELSE IF st.tube[t].refs < 1 THEN Touch(st, t, st.tube[t])
    ELSE LET one_less == Touch(st, t, [st.tube[t] EXCEPT !.refs = @ - 1]) IN
         IF one_less.tube[t].refs < 1 THEN tube_free(one_less, t) ELSE one_less

tube_iref(st, t) ==
    IF t = Nil THEN st ELSE Touch(st, t, [st.tube[t] EXCEPT !.refs = @ + 1])

\* The count of a TUBE_ASSIGN of new to a pointer that is old.
TUBE_ASSIGN(st, old, new) == tube_iref(tube_dref(st, old), new)

\* Faulty variant: the last cell is not looked at.
tube_find_short(st, a, n) ==
    LET found == {t \in ToSet(SubSeq(a.items, 1, Len(a.items) - 1)) : st.tube[t].name = n}
    IN IF found = {} THEN Nil ELSE CHOOSE t \in found : TRUE

\* The address of the tube with name n in the array a.
tube_find(st, a, n) ==
    LET found == {t \in ToSet(a.items) : st.tube[t].name = n} IN
    IF found = {} THEN Nil ELSE CHOOSE t \in found : TRUE

\* Outcomes: the array has room or grows; it does not grow, and the new tube,
\* whose count is 0, is not freed; there is no memory for a tube.
make_and_insert_tube(st, n) ==
    LET t == st.made + 1
        new == [st EXCEPT !.made = t, !.tube[t].name = n]
    IN {[st |-> [new EXCEPT !.tubes = ms_append(@, t)], t |-> t],
        [st |-> new, t |-> Nil],
        [st |-> st, t |-> Nil]}

tube_find_or_make(st, n) ==
    LET t == tube_find(st, st.tubes, n) IN
    IF t # Nil THEN {[st |-> st, t |-> t]} ELSE make_and_insert_tube(st, n)

-----------------------------------------------------------------------------
(* Watch lists and waiting connections                                     *)

on_watch(st, t) ==
    LET st1 == tube_iref(st, t) IN
    Touch(st1, t, [st1.tube[t] EXCEPT !.watching_ct = @ + 1])

\* Faulty variant: the reference is dropped first.
on_ignore_late(st, t) ==
    LET st1 == tube_dref(st, t) IN
    Touch(st1, t, [st1.tube[t] EXCEPT !.watching_ct = @ - 1])

on_ignore(st, t) ==
    tube_dref(Touch(st, t, [st.tube[t] EXCEPT !.watching_ct = @ - 1]), t)

\* Outcomes of ms_append(&c->watch, t).
Watch(st, c, t) ==
    {on_watch([st EXCEPT !.conn[c].watch = ms_append(@, t)], t), st}

\* Faulty variant: only the first watched tube is told.
remove_waiting_conn_first(st, c) ==
    IF ~st.conn[c].waiting THEN st
    ELSE [st EXCEPT !.conn[c].waiting = FALSE,
             !.unlisted = {p \in st.unlisted : p[1] # c},
             !.tube = [t \in Tubes |->
                 IF t = st.conn[c].watch.items[1]
                 THEN [st.tube[t] EXCEPT !.waiting_conns = ms_remove(@, c), !.waiting_ct = @ - 1]
                 ELSE st.tube[t]]]

\* Faulty variant: a connection that does not wait is counted out, too.
remove_waiting_conn_always(st, c) ==
    [st EXCEPT !.conn[c].waiting = FALSE,
        !.unlisted = {p \in st.unlisted : p[1] # c},
        !.tube = [t \in Tubes |->
            IF ms_contains(st.conn[c].watch, t)
            THEN [st.tube[t] EXCEPT !.waiting_conns = ms_remove(@, c), !.waiting_ct = @ - 1]
            ELSE st.tube[t]]]

remove_waiting_conn(st, c) ==
    IF ~st.conn[c].waiting THEN st
    ELSE [st EXCEPT !.conn[c].waiting = FALSE,
             !.unlisted = {p \in st.unlisted : p[1] # c},
             !.tube = [t \in Tubes |->
                 IF ms_contains(st.conn[c].watch, t)
                 THEN [st.tube[t] EXCEPT !.waiting_conns = ms_remove(@, c), !.waiting_ct = @ - 1]
                 ELSE st.tube[t]]]

\* The appends to the waiting_conns of the tubes in F fail, unnoticed.
enqueue_waiting_conn(st, c, F) ==
    [st EXCEPT !.conn[c].waiting = TRUE,
        !.unlisted = st.unlisted \cup {<<c, t>> : t \in F},
        !.tube = [t \in Tubes |->
            IF ms_contains(st.conn[c].watch, t)
            THEN [st.tube[t] EXCEPT !.waiting_conns = IF t \in F THEN @ ELSE ms_append(@, c),
                              !.waiting_ct = @ + 1]
            ELSE st.tube[t]]]

-----------------------------------------------------------------------------
(* The commands                                                            *)

\* A connection that reads commands: it does not wait, read a body or write.
Idle(c) ==
    /\ s.conn[c].open /\ ~s.conn[c].waiting
    /\ s.conn[c].in_job = Nil /\ s.conn[c].out_job = Nil

CanMake(n) == tube_find(s, s.tubes, n) # Nil \/ s.made < MaxTubes

AnyName == Names \cup {"default"}

\* make_conn: without memory for the watch list there is no connection.
make_conn(c) ==
    /\ s.conn[c] = NoConn
    /\ \E st \in Watch(s, c, Default) :
        LET used == TUBE_ASSIGN(st, Nil, Default) IN
        /\ ms_contains(st.conn[c].watch, Default)
        /\ s' = [used EXCEPT !.conn[c].open = TRUE,
                             !.conn[c].use = Default,
                             !.tube[Default].using_ct = @ + 1]

\* The local variable of dispatch_cmd holds a reference meanwhile.
Use(st, c, t) ==
    LET held == tube_iref(st, t)
        old == st.conn[c].use
        less == Touch(held, old, [held.tube[old] EXCEPT !.using_ct = @ - 1])
        moved == tube_dref(TUBE_ASSIGN([less EXCEPT !.conn[c].use = t], old, t), t)
    IN Touch(moved, t, [moved.tube[t] EXCEPT !.using_ct = @ + 1])

use(c, n) ==
    /\ Idle(c) /\ CanMake(n)
    /\ \E o \in tube_find_or_make(s, n) :
        s' = IF o.t = Nil THEN o.st ELSE Use(o.st, c, o.t)

\* A tube that was made for a watch that failed goes with the local reference.
watch(c, n) ==
    /\ Idle(c) /\ CanMake(n)
    /\ \E o \in tube_find_or_make(s, n) :
        IF o.t = Nil THEN s' = o.st
        ELSE LET held == tube_iref(o.st, o.t) IN
             \E st \in IF ms_contains(s.conn[c].watch, o.t) THEN {held}
                       ELSE Watch(held, c, o.t) :
                s' = tube_dref(st, o.t)

\* The last watched tube is not ignored.
ignore(c, n) ==
    LET t == tube_find(s, s.conn[c].watch, n) IN
    /\ Idle(c)
    /\ t # Nil
    /\ Len(s.conn[c].watch.items) >= 2
    /\ s' = on_ignore([s EXCEPT !.conn[c].watch = ms_remove(@, t)], t)

\* make_job for a put whose body is still to come.
put(c) ==
    /\ Idle(c)
    /\ s' = TUBE_ASSIGN([s EXCEPT !.conn[c].in_job = s.conn[c].use], Nil, s.conn[c].use)

enqueue_incoming_job(c, j) ==
    /\ s.conn[c].in_job # Nil
    /\ s.job[j] = Nil
    /\ s' = [s EXCEPT !.job[j] = s.conn[c].in_job, !.conn[c].in_job = Nil]

\* A body without its trailer: job_free.
bad_trailer(c) ==
    /\ s.conn[c].in_job # Nil
    /\ s' = tube_dref([s EXCEPT !.conn[c].in_job = Nil], s.conn[c].in_job)

delete(c, j) ==
    /\ Idle(c)
    /\ s.job[j] # Nil
    /\ s' = tube_dref([s EXCEPT !.job[j] = Nil], s.job[j])

\* Faulty variant: memcpy takes the pointer and no reference.
job_copy_plain(st, c, j) == [st EXCEPT !.conn[c].out_job = st.job[j]]

job_copy(st, c, j) ==
    TUBE_ASSIGN([st EXCEPT !.conn[c].out_job = st.job[j]], Nil, st.job[j])

peek(c, j) ==
    /\ Idle(c)
    /\ s.job[j] # Nil
    /\ s' = job_copy(s, c, j)

\* The copy has been sent.
conn_want_command(c) ==
    /\ s.conn[c].out_job # Nil
    /\ s' = tube_dref([s EXCEPT !.conn[c].out_job = Nil], s.conn[c].out_job)

reserve(c) ==
    /\ Idle(c)
    /\ \E F \in SUBSET ToSet(s.conn[c].watch.items) :
        s' = enqueue_waiting_conn(s, c, F)

\* process_queue, when a job of tube t is ready.
process_queue(t) ==
    /\ \E j \in Jobs : s.job[j] = t
    /\ s.tube[t].waiting_conns.items # <<>>
    /\ LET c == ms_taken(s.tube[t].waiting_conns) IN
       s' = remove_waiting_conn([s EXCEPT !.tube[t].waiting_conns = ms_take(@)], c)

\* A timeout, or the client hung up its half.
conn_timeout(c) ==
    /\ s.conn[c].waiting
    /\ s' = remove_waiting_conn(s, c)

\* The jobs being read and copied, and the waiting sets.
connclose(c) ==
    LET k == s.conn[c]
        freed == tube_dref([s EXCEPT !.conn[c].in_job = Nil], k.in_job)
        both == tube_dref([freed EXCEPT !.conn[c].out_job = Nil], k.out_job)
    IN /\ k.open
       /\ s' = [remove_waiting_conn(both, c) EXCEPT !.closing = {c}]

\* One iteration of ms_clear on the watch list: on_ignore is called when the
\* item is out of the array.
ms_clear(c) ==
    LET items == s.conn[c].watch.items IN
    /\ items # <<>>
    /\ s' = on_ignore([s EXCEPT !.conn[c].watch = ms_delete(@, 0)], items[1])

\* The end of connclose: the tube in use, and the connection itself.
conn_free(c) ==
    LET t == s.conn[c].use
        less == Touch(s, t, [s.tube[t] EXCEPT !.using_ct = @ - 1])
    IN /\ s.conn[c].watch.items = <<>>
       /\ s' = tube_dref([less EXCEPT !.conn[c] = NoConn, !.closing = {}], t)

Command ==
    \/ \E c \in Conns :
        \/ make_conn(c) \/ put(c) \/ bad_trailer(c) \/ conn_want_command(c)
        \/ reserve(c) \/ conn_timeout(c) \/ connclose(c)
        \/ \E n \in AnyName : use(c, n) \/ watch(c, n) \/ ignore(c, n)
        \/ \E j \in Jobs : enqueue_incoming_job(c, j) \/ delete(c, j) \/ peek(c, j)
    \/ \E t \in Tubes : process_queue(t)

\* The server has one thread: nothing happens before connclose is done.
Next ==
    \/ s.closing = {} /\ Command
    \/ \E c \in s.closing : ms_clear(c) \/ conn_free(c)

Spec == Init /\ [][Next]_s

-----------------------------------------------------------------------------
(* Properties                                                              *)

MsType(a, X) == ToSet(a.items) \subseteq X /\ a.last \in Nat

\* struct Tube, struct Conn and Ms keep their types: no unsigned counter of a
\* tube wraps below zero.
TypeOK ==
    /\ \A t \in Tubes :
        /\ s.tube[t].name \in AnyName \cup {"none"}
        /\ {s.tube[t].refs, s.tube[t].using_ct, s.tube[t].watching_ct,
            s.tube[t].waiting_ct} \subseteq Nat
        /\ MsType(s.tube[t].waiting_conns, Conns)
    /\ MsType(s.tubes, Tubes)
    /\ \A c \in Conns :
        /\ {s.conn[c].use, s.conn[c].in_job, s.conn[c].out_job} \subseteq Tubes \cup {Nil}
        /\ MsType(s.conn[c].watch, Tubes)
    /\ \A j \in Jobs : s.job[j] \in Tubes \cup {Nil}

UsedBy(st, t) == {c \in Conns : st.conn[c].use = t}

WatchedBy(st, t) == {c \in Conns : ms_contains(st.conn[c].watch, t)}

JobsOf(st, t) == {j \in Jobs : st.job[j] = t}

ReadBy(st, t) == {c \in Conns : st.conn[c].in_job = t}

CopiedBy(st, t) == {c \in Conns : st.conn[c].out_job = t}

\* Everything that points to tube t, the server's default_tube included.
References(st, t) ==
    Cardinality(UsedBy(st, t)) + Cardinality(WatchedBy(st, t)) + Cardinality(JobsOf(st, t))
    + Cardinality(ReadBy(st, t)) + Cardinality(CopiedBy(st, t))
    + (IF t = Default THEN 1 ELSE 0)

\* The three counts of a tube agree with the pointers to it, through every
\* order of use, watch, ignore, put, peek, delete and close, and through
\* commands that ran out of memory half-way.
RefsExact ==
    \A t \in Tubes :
        /\ s.tube[t].refs = References(s, t)
        /\ s.tube[t].using_ct = Cardinality(UsedBy(s, t))
        /\ s.tube[t].watching_ct = Cardinality(WatchedBy(s, t))

\* No freed tube is written to, and none is pointed to by a connection, a job
\* or the array of tubes.
NoDangling ==
    /\ ~s.wild
    /\ \A t \in s.freed : References(s, t) = 0 /\ ~ms_contains(s.tubes, t)

\* The array has each tube that is referred to exactly once, and no two of the
\* same name: a job put under a name is found by those who watch that name.
OneTubePerName ==
    /\ \A t \in Tubes : ms_contains(s.tubes, t) <=> References(s, t) > 0
    /\ \A i, k \in 1..Len(s.tubes.items) :
        i # k => s.tube[s.tubes.items[i]].name # s.tube[s.tubes.items[k]].name

\* waiting_conns has exactly the connections that wait and watch the tube, each
\* once, whatever holes were filled, unless an append failed; waiting_ct counts
\* those too.
WaitersListed ==
    \A t \in Tubes :
        LET waits == {c \in WatchedBy(s, t) : s.conn[c].waiting}
            items == s.tube[t].waiting_conns.items
        IN /\ ToSet(items) = {c \in waits : <<c, t>> \notin s.unlisted}
           /\ Len(items) = Cardinality(ToSet(items))
           /\ s.tube[t].waiting_ct = Cardinality(waits)
=============================================================================
