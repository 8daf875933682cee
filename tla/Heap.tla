--------------------------------- MODULE Heap ---------------------------------
(***************************************************************************)
(* The binary heap of heap.c: an array that serves the ready and delay     *)
(* queues of the tubes (ordered by job_pri_less and job_delay_less, which  *)
(* break ties by id) and the heap of connections (ordered by conn_less,    *)
(* which does not).  An item carries its own index (setpos: heap_index of  *)
(* a job, tickpos of a connection), and its owner removes it by that index.*)
(*                                                                         *)
(* siftdown and siftup are loops; one iteration is one step.  `pc' says    *)
(* which of them runs and at which index.                                  *)
(***************************************************************************)
EXTENDS Naturals, FiniteSets

CONSTANTS
    N,          \* items are 1..N
    MaxKey,     \* keys (priorities, deadlines, tick times) are 0..MaxKey
    TieBreak    \* does `less' break ties by id (jobs) or not (connections)?

ASSUME HeapConstants == N \in Nat \ {0} /\ MaxKey \in Nat /\ TieBreak \in BOOLEAN

Items == 1..N
Slots == 0..(N - 1)
Free == 0           \* what an array cell holds before its first use

VARIABLES
    data,       \* the array; what is behind len is never read again
    len,
    pos,        \* the index each item was told by setpos
    key,        \* what h->less compares; fixed while an item is in the heap
    member,     \* the items whose owner believes they are in the heap
    pc          \* the loop that runs, its index, and the one it began with

vars == <<data, len, pos, key, member, pc>>

Idle == [op |-> "idle", k |-> 0, from |-> 0]

Init ==
    /\ data = [i \in Slots |-> Free]
    /\ len = 0
    /\ pos = [x \in Items |-> 0]
    /\ key \in [Items -> 0..MaxKey]
    /\ member = {}
    /\ pc = Idle

\* h->less of two array cells: job_pri_less, job_delay_less, conn_less.
less(a, b) ==
    LET x == data[a]
        y == data[b]
    IN  \/ key[x] < key[y]
        \/ TieBreak /\ key[x] = key[y] /\ x < y

\* set for one cell.
set(k, x) ==
    /\ data' = [data EXCEPT ![k] = x]
    /\ pos' = [pos EXCEPT ![x] = k]

\* Faulty variant: only one of the two items is told its new index.
swap_half_told(a, b) ==
    /\ data' = [data EXCEPT ![a] = data[b], ![b] = data[a]]
    /\ pos' = [pos EXCEPT ![data[b]] = a]

\* Two calls of set; a and b differ.
swap(a, b) ==
    /\ data' = [data EXCEPT ![a] = data[b], ![b] = data[a]]
    /\ pos' = [pos EXCEPT ![data[b]] = a, ![data[a]] = b]

parent(k) == (k - 1) \div 2

\* The new item goes to the end of the array and moves towards the root.
heapinsert(x) ==
    /\ pc = Idle /\ x \notin member /\ len < N
    /\ member' = member \cup {x}
    /\ set(len, x)
    /\ len' = len + 1
    /\ pc' = [op |-> "insert", k |-> len, from |-> len]
    /\ UNCHANGED key

\* The owner of x removes the cell x was told; the last item fills it.  (When
\* that cell is behind len heapremove returns 0: HeapHoldsMembers excludes it.)
heapremove(x) ==
    /\ pc = Idle /\ x \in member /\ pos[x] < len
    /\ member' = member \ {x}
    /\ len' = len - 1
    /\ set(pos[x], data[len - 1])
    /\ pc' = [op |-> "remove", k |-> pos[x], from |-> pos[x]]
    /\ UNCHANGED key

\* One iteration of siftdown.  heapremove goes on with siftup at the index it
\* began with.
siftdown ==
    LET k == pc.k
    IN  /\ pc.op \in {"insert", "remove"}
        /\ IF k = 0 \/ less(parent(k), k)
           THEN /\ pc' = IF pc.op = "insert" THEN Idle
                         ELSE [pc EXCEPT !.op = "siftup", !.k = pc.from]
                /\ UNCHANGED <<data, pos>>
           ELSE /\ swap(k, parent(k))
                /\ pc' = [pc EXCEPT !.k = parent(k)]
        /\ UNCHANGED <<len, key, member>>

\* Faulty variant: the right child is not looked at.
smallest_left(k) ==
    LET l == 2 * k + 1
    IN  IF l < len /\ less(l, k) THEN l ELSE k

\* The smallest of cell k and its children.
smallest(k) ==
    LET l == 2 * k + 1
        r == 2 * k + 2
        s == IF l < len /\ less(l, k) THEN l ELSE k
    IN  IF r < len /\ less(r, s) THEN r ELSE s

\* heapremove is done: the cells behind len, and the indices of the items that
\* are out, are never read again.
Settle ==
    /\ data' = [i \in Slots |-> IF i < len THEN data[i] ELSE Free]
    /\ pos' = [x \in Items |-> IF x \in member THEN pos[x] ELSE 0]

\* One iteration of siftup.
siftup ==
    LET k == pc.k
        s == smallest(k)
    IN  /\ pc.op = "siftup"
        /\ IF s = k
           THEN pc' = Idle /\ Settle
           ELSE swap(k, s) /\ pc' = [pc EXCEPT !.k = s]
        /\ UNCHANGED <<len, key, member>>

Next ==
    \/ \E x \in Items : heapinsert(x)
    \/ \E x \in Items : heapremove(x)
    \/ siftdown
    \/ siftup

Spec == Init /\ [][Next]_vars

-----------------------------------------------------------------------------
(* Properties                                                              *)

Cells == {i \in Slots : i < len}

\* The array holds exactly the items whose owner believes so, each once and at
\* the index it was told: heapremove by a stored index is right (dat.h says of
\* in_conns: "1 if the conn is in srv->conns heap, 0 otherwise").
HeapHoldsMembers ==
    pc = Idle =>
        /\ {data[i] : i \in Cells} = member
        /\ \A x \in member : pos[x] < len /\ data[pos[x]] = x
        /\ len = Cardinality(member)

\* The root is a least item, as process_queue, soonest_delayed_job and
\* prottick take for granted when they look at data[0] only.
RootIsLeast ==
    pc = Idle => \A i \in Cells : i > 0 => ~less(i, 0)
=============================================================================
