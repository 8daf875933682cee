----------------------------- MODULE BrokerProofs -----------------------------
(***************************************************************************)
(* Proofs about module Broker, for every number of connections, tubes and  *)
(* jobs, every set of parameters, and with or without memory for the heaps *)
(* (HeapMayFail), when no binlog can fail (~WalMayFail): with one that can *)
(* a job may be in a heap and in the buried list (walwrite in enqueue_job).*)
(*                                                                         *)
(* IInv is the inductive invariant (part `The inductive invariant').        *)
(* The argument: an operation first takes a job out of its                 *)
(* container, which leaves it Floating (in no container, every other job   *)
(* in its own), then puts it in one, which makes the store Whole again; it *)
(* changes nothing about other jobs (Near).  MoveStep and StayStep lift    *)
(* this from the store to the state, and there is one lemma per action.    *)
(***************************************************************************)
EXTENDS Broker, TLAPS, SequenceTheorems, WellFoundedInduction

-----------------------------------------------------------------------------
(* Numbers, lists and records                                              *)

\* A nonempty set of natural numbers has a least element.
LEMMA LeastNat ==
    ASSUME NEW T, T \subseteq Nat, T # {}
    PROVE  \E x \in T : \A y \in T : x <= y
<1>1. \E x \in T : \A y \in T : ~(<<y, x>> \in OpToRel(<, Nat))
  BY NatLessThanWellFounded, WFMin
<1>2. PICK x \in T : \A y \in T : ~(<<y, x>> \in OpToRel(<, Nat))
  BY <1>1
<1>3. ASSUME NEW y \in T PROVE x <= y
  <2>1. x \in Nat /\ y \in Nat
    OBVIOUS
  <2>2. ~(y < x)
    BY <2>1, <1>2 DEF OpToRel
  <2> QED
    BY <2>1, <2>2
<1> QED
  BY <1>3

\* job_list_remove keeps a list of jobs one.
LEMMA RemoveType ==
    ASSUME NEW l \in Seq(Ids), NEW x
    PROVE  job_list_remove(l, x) \in Seq(Ids)
<1> DEFINE n == IF Len(l) = 0 THEN 0 ELSE Len(l) - 1
<1>1. n \in Nat /\ 1..(Len(l) - 1) = 1..n
  OBVIOUS
<1>2. job_list_remove(l, x) \in [1..n -> Ids]
  BY <1>1 DEF job_list_remove
<1> QED
  BY <1>1, <1>2, SeqDef

\* It takes out x and nothing else, and makes no duplicates.
LEMMA RemoveRange ==
    ASSUME NEW l \in Seq(Ids), NEW x \in Range(l), IsInjective(l)
    PROVE  /\ Range(job_list_remove(l, x)) = Range(l) \ {x}
           /\ IsInjective(job_list_remove(l, x))
<1> DEFINE i == CHOOSE i \in DOMAIN l : l[i] = x
           r == job_list_remove(l, x)
<1>1. i \in 1..Len(l) /\ l[i] = x /\ DOMAIN l = 1..Len(l) /\ Len(l) \in Nat
  BY DEF Range
<1>2. \A a, b \in 1..Len(l) : l[a] = l[b] => a = b
  BY <1>1 DEF IsInjective
<1>3. /\ DOMAIN r = 1..(Len(l) - 1)
      /\ \A k \in 1..(Len(l) - 1) : r[k] = IF k < i THEN l[k] ELSE l[k + 1]
  BY DEF job_list_remove
<1> HIDE DEF i, r
<1>4. ASSUME NEW y \in Range(r) PROVE y \in Range(l) \ {x}
  <2>1. PICK k \in 1..(Len(l) - 1) : y = r[k]
    BY <1>3 DEF Range
  <2>2. PICK m \in 1..Len(l) : y = l[m] /\ m # i
    BY <2>1, <1>1, <1>3
  <2> QED
    BY <2>2, <1>1, <1>2 DEF Range
<1>5. ASSUME NEW y \in Range(l) \ {x} PROVE y \in Range(r)
  <2>1. PICK m \in 1..Len(l) : y = l[m] /\ m # i
    BY <1>1 DEF Range
  <2>2. \E k \in 1..(Len(l) - 1) : y = r[k]
    <3>1. CASE m < i
      BY <3>1, <2>1, <1>1, <1>3
    <3>2. CASE m > i
      <4>1. m - 1 \in 1..(Len(l) - 1) /\ ~(m - 1 < i) /\ (m - 1) + 1 = m
        BY <3>2, <1>1
      <4> QED
        BY <4>1, <2>1, <1>3
    <3> QED
      BY <3>1, <3>2, <2>1, <1>1
  <2> QED
    BY <2>2, <1>3 DEF Range
<1>6. ASSUME NEW a \in DOMAIN r, NEW b \in DOMAIN r, r[a] = r[b] PROVE a = b
  <2>1. a \in 1..(Len(l) - 1) /\ b \in 1..(Len(l) - 1)
    BY <1>3
  <2> DEFINE P(k) == IF k < i THEN k ELSE k + 1
  <2>2. P(a) \in 1..Len(l) /\ P(b) \in 1..Len(l)
    BY <2>1, <1>1
  <2>3. l[P(a)] = l[P(b)]
    BY <1>6, <2>1, <1>3
  <2>4. P(a) = P(b)
    BY <2>2, <2>3, <1>2
  <2> QED
    BY <2>4, <2>1, <1>1
<1>7. IsInjective(r)
  BY <1>6 DEF IsInjective
<1> QED
  BY <1>4, <1>5, <1>7 DEF r

\* What appending x to a list of jobs does: job_list_insert at the tail.
LEMMA AppendRange ==
    ASSUME NEW l \in Seq(Ids), NEW x \in Ids
    PROVE  /\ Append(l, x) \in Seq(Ids)
           /\ Range(Append(l, x)) = Range(l) \cup {x}
           /\ x \notin Range(l) /\ IsInjective(l) => IsInjective(Append(l, x))
<1>1. /\ Append(l, x) \in Seq(Ids)
      /\ DOMAIN Append(l, x) = 1..(Len(l) + 1) /\ DOMAIN l = 1..Len(l)
      /\ Len(l) \in Nat
      /\ \A k \in 1..Len(l) : Append(l, x)[k] = l[k]
      /\ Append(l, x)[Len(l) + 1] = x
  OBVIOUS
<1>2. Range(Append(l, x)) = Range(l) \cup {x}
  <2>1. ASSUME NEW y \in Range(Append(l, x)) PROVE y \in Range(l) \cup {x}
    BY <1>1 DEF Range
  <2>2. ASSUME NEW y \in Range(l) PROVE y \in Range(Append(l, x))
    <3>1. PICK k \in 1..Len(l) : y = l[k]
      BY <1>1 DEF Range
    <3>2. k \in 1..(Len(l) + 1) /\ Append(l, x)[k] = y
      BY <3>1, <1>1
    <3> QED
      BY <3>2, <1>1 DEF Range
  <2>3. x \in Range(Append(l, x))
    <3>1. Len(l) + 1 \in 1..(Len(l) + 1)
      BY <1>1
    <3> QED
      BY <3>1, <1>1 DEF Range
  <2> QED
    BY <2>1, <2>2, <2>3
<1>3. ASSUME x \notin Range(l), IsInjective(l) PROVE IsInjective(Append(l, x))
  <2>1. \A k \in 1..Len(l) : l[k] # x
    BY <1>1, <1>3 DEF Range
  <2>2. \A a, b \in 1..Len(l) : l[a] = l[b] => a = b
    BY <1>1, <1>3 DEF IsInjective
  <2>3. ASSUME NEW a \in 1..(Len(l) + 1), NEW b \in 1..(Len(l) + 1),
               Append(l, x)[a] = Append(l, x)[b]
        PROVE  a = b
    <3>1. (a \in 1..Len(l) \/ a = Len(l) + 1) /\ (b \in 1..Len(l) \/ b = Len(l) + 1)
      BY <1>1
    <3> QED
      BY <3>1, <2>1, <2>2, <2>3, <1>1
  <2> QED
    BY <2>3, <1>1 DEF IsInjective
<1> QED
  BY <1>1, <1>2, <1>3

-----------------------------------------------------------------------------
(* The operations on the store keep its type                               *)

\* Adding to a counter keeps the store a store.
LEMMA CountType ==
    ASSUME NEW s \in Store, NEW f \in Counters, NEW t \in Tubes, NEW n \in Int
    PROVE  Count(s, f, t, n) \in Store
<1> DEFINE a == [s.ct EXCEPT ![f] = @ + n]
           b == [s.tct EXCEPT ![t] = [s.tct[t] EXCEPT ![f] = @ + n]]
<1>1. a \in [Counters -> Int] /\ b \in [Tubes -> [Counters -> Int]]
  BY DEF Store
<1>2. Count(s, f, t, n) = [s EXCEPT !.ct = a, !.tct = b]
  BY DEF Count, Store
<1> HIDE DEF a, b
<1>3. [s EXCEPT !.ct = a, !.tct = b] \in Store
  BY <1>1 DEF Store
<1> QED
  BY <1>2, <1>3

\* The record of an id that job_find does not know is a job record.
LEMMA FreeJobType == FreeJob \in JobRec
BY ConstantsOK DEF FreeJob, JobRec, JobStates

\* Every field of a job record can be given a value of its type.
LEMMA JobRecEdit ==
    ASSUME NEW r \in JobRec, NEW st \in JobStates, NEW d \in Nat,
           NEW c \in Conns \cup {NoConn}
    PROVE  /\ [r EXCEPT !.state = st] \in JobRec
           /\ [r EXCEPT !.reserver = c] \in JobRec
           /\ [r EXCEPT !.state = st, !.reserver = c] \in JobRec
           /\ [r EXCEPT !.reserver = c, !.deadline_at = d] \in JobRec
           /\ [r EXCEPT !.deadline_at = d, !.state = st, !.reserver = c] \in JobRec
           /\ [r EXCEPT !.pri = d] \in JobRec
           /\ [r EXCEPT !.deadline_at = d] \in JobRec
<1>1. [r EXCEPT !.state = st] \in JobRec
  BY DEF JobRec
<1>2. [r EXCEPT !.reserver = c] \in JobRec
  BY DEF JobRec
<1>3. [r EXCEPT !.state = st, !.reserver = c] \in JobRec
  BY DEF JobRec
<1>4. [r EXCEPT !.reserver = c, !.deadline_at = d] \in JobRec
  BY DEF JobRec
<1>5. [r EXCEPT !.deadline_at = d, !.state = st, !.reserver = c] \in JobRec
  BY DEF JobRec
<1>6. [r EXCEPT !.pri = d] \in JobRec
  BY DEF JobRec
<1>7. [r EXCEPT !.deadline_at = d] \in JobRec
  BY DEF JobRec
<1> QED
  BY <1>1, <1>2, <1>3, <1>4, <1>5, <1>6, <1>7

\* Giving one id another job record keeps the store a store.
LEMMA StoreEdit ==
    ASSUME NEW s \in Store, NEW g \in [Ids -> JobRec],
           NEW a \in [Tubes -> SUBSET Ids], NEW n \in [Counters -> Int]
    PROVE  /\ [s EXCEPT !.job = g] \in Store
           /\ [s EXCEPT !.ready = a, !.ct = n] \in Store
           /\ [s EXCEPT !.ready = a, !.ct = n, !.job = g] \in Store
           /\ [s EXCEPT !.delay = a, !.job = g] \in Store
BY DEF Store

\* The fields of a job of the store have their types.
LEMMA JobOf ==
    ASSUME NEW s \in Store, NEW j \in Ids
    PROVE  /\ s.job[j] \in JobRec /\ s.job[j].tube \in Tubes
           /\ UrgentOf(s, j) \in Int /\ -UrgentOf(s, j) \in Int
BY DEF Store, JobRec, UrgentOf

\* job_free, the remove_*_job functions, bury_job and their likes keep the
\* store a store.
LEMMA StoreSteps ==
    ASSUME NEW s \in Store, NEW j \in Ids
    PROVE  /\ job_free(s, j) \in Store
           /\ remove_ready_job(s, j) \in Store
           /\ remove_delayed_job(s, j) \in Store
           /\ remove_buried_job(s, j) \in Store
           /\ \A c \in Conns : remove_this_reserved_job(s, c, j) \in Store
           /\ Unqueue(s, j) \in Store
           /\ bury_job(s, j) \in Store
<1> DEFINE t == s.job[j].tube
<1>0. s.job[j] \in JobRec /\ t \in Tubes /\ -UrgentOf(s, j) \in Int
  BY JobOf
<1>1. job_free(s, j) \in Store
  BY FreeJobType DEF job_free, Store
<1>2. remove_ready_job(s, j) \in Store
  <2> DEFINE r == [s EXCEPT !.ready[t] = @ \ {j}, !.ct["ready"] = @ - 1]
  <2>1. r \in Store
    <3> DEFINE a == [s.ready EXCEPT ![t] = @ \ {j}]
               b == [s.ct EXCEPT !["ready"] = @ - 1]
    <3>1. a \in [Tubes -> SUBSET Ids] /\ b \in [Counters -> Int]
      BY <1>0 DEF Store, Counters
    <3>2. r = [s EXCEPT !.ready = a, !.ct = b]
      BY DEF Store
    <3> HIDE DEF a, b
    <3> QED
      BY <3>1, <3>2 DEF Store
  <2>2. "urgent" \in Counters
    BY DEF Counters
  <2> HIDE DEF r
  <2>3. Count(r, "urgent", t, -UrgentOf(s, j)) \in Store
    BY <1>0, <2>1, <2>2, CountType
  <2> QED
    BY <2>3 DEF remove_ready_job, r
<1>3. remove_delayed_job(s, j) \in Store
  BY <1>0 DEF remove_delayed_job, Store
<1>4. remove_buried_job(s, j) \in Store
  <2> DEFINE r == [s EXCEPT !.buried[t] = job_list_remove(@, j)]
  <2>1. job_list_remove(s.buried[t], j) \in Seq(Ids)
    BY <1>0, RemoveType DEF Store
  <2>2. r \in Store
    BY <2>1, <1>0 DEF Store
  <2>3. "buried" \in Counters /\ -1 \in Int
    BY DEF Counters
  <2> HIDE DEF r
  <2> QED
    BY <1>0, <2>2, <2>3, CountType DEF remove_buried_job, r
<1>5. ASSUME NEW c \in Conns PROVE remove_this_reserved_job(s, c, j) \in Store
  <2> DEFINE r == [s EXCEPT !.reserved_jobs[c] = job_list_remove(@, j),
                            !.job[j].reserver = NoConn]
             e == [s.job[j] EXCEPT !.reserver = NoConn]
  <2>1. job_list_remove(s.reserved_jobs[c], j) \in Seq(Ids)
    BY RemoveType DEF Store
  <2>2. r \in Store
    <3>1. e \in JobRec
      BY <1>0 DEF JobRec
    <3>2. r = [s EXCEPT !.reserved_jobs[c] = job_list_remove(@, j), !.job[j] = e]
      BY DEF Store
    <3> HIDE DEF e
    <3> QED
      BY <2>1, <3>1, <3>2 DEF Store
  <2>3. "reserved" \in Counters /\ -1 \in Int
    BY DEF Counters
  <2> HIDE DEF r
  <2> QED
    BY <1>0, <2>2, <2>3, CountType DEF remove_this_reserved_job, r
<1>6. Unqueue(s, j) \in Store
  BY <1>2, <1>3, <1>4 DEF Unqueue
<1>7. bury_job(s, j) \in Store
  <2> DEFINE e == [s.job[j] EXCEPT !.state = "buried", !.reserver = NoConn]
             r == [s EXCEPT !.buried[t] = Append(@, j), !.job[j] = e]
  <2>1. Append(s.buried[t], j) \in Seq(Ids)
    BY <1>0, AppendRange DEF Store
  <2>2. e \in JobRec
    BY <1>0 DEF JobRec, JobStates
  <2>22. r \in Store
    <3> HIDE DEF e
    <3> QED
      BY <2>1, <2>2, <1>0 DEF Store
  <2>3. "buried" \in Counters /\ 1 \in Int
    BY DEF Counters
  <2> HIDE DEF r
  <2> QED
    BY <1>0, <2>22, <2>3, CountType DEF bury_job, r
<1> QED
  BY <1>1, <1>2, <1>3, <1>4, <1>5, <1>6, <1>7

\* So do enqueue_job and its failures.
LEMMA EnqueueType ==
    ASSUME NEW s \in Store, NEW j \in Ids, NEW d \in Nat, clock \in Nat
    PROVE  Stamp(s, j, d) \in Store /\ enqueue_job(s, j, d) \in Store
<1>1. ASSUME NEW r \in Store PROVE EnqueueReady(r, j) \in Store
  <2> DEFINE t == r.job[j].tube
             x == [r EXCEPT !.ready[t] = @ \cup {j}, !.ct["ready"] = @ + 1,
                            !.job[j].state = "ready"]
  <2>1. r.job[j] \in JobRec /\ t \in Tubes /\ UrgentOf(r, j) \in Int
    BY JobOf
  <2>2. x \in Store
    <3> DEFINE e == [r.job[j] EXCEPT !.state = "ready"]
               a == [r.ct EXCEPT !["ready"] = @ + 1]
               b == [r.ready EXCEPT ![t] = @ \cup {j}]
               g == [r.job EXCEPT ![j] = e]
    <3>1. e \in JobRec
      BY <2>1, JobRecEdit DEF JobStates
    <3>2. g \in [Ids -> JobRec]
      BY <3>1 DEF Store
    <3>3. a \in [Counters -> Int]
      BY DEF Store, Counters
    <3>4. b \in [Tubes -> SUBSET Ids]
      BY <2>1 DEF Store
    <3>5. x = [r EXCEPT !.ready = b, !.ct = a, !.job = g]
      BY DEF Store
    <3> HIDE DEF a, b, g
    <3> QED
      BY <3>2, <3>3, <3>4, <3>5, StoreEdit
  <2>3. "urgent" \in Counters
    BY DEF Counters
  <2> HIDE DEF x
  <2> QED
    BY <2>1, <2>2, <2>3, CountType DEF EnqueueReady, x
<1>2. ASSUME NEW r \in Store PROVE EnqueueDelayed(r, j) \in Store
  <2> DEFINE e == [r.job[j] EXCEPT !.state = "delayed"]
             a == [r.delay EXCEPT ![r.job[j].tube] = @ \cup {j}]
             g == [r.job EXCEPT ![j] = e]
  <2>1. e \in JobRec
    BY JobOf, JobRecEdit DEF JobStates
  <2>2. a \in [Tubes -> SUBSET Ids]
    BY JobOf DEF Store
  <2>3. g \in [Ids -> JobRec]
    BY <2>1 DEF Store
  <2>4. EnqueueDelayed(r, j) = [r EXCEPT !.delay = a, !.job = g]
    BY DEF EnqueueDelayed, Store
  <2> HIDE DEF g, a
  <2> QED
    BY <2>2, <2>3, <2>4 DEF Store
<1>3. Stamp(s, j, d) \in Store
  <2> DEFINE v == IF d = 0 THEN s.job[j].deadline_at ELSE clock + d
             e == [s.job[j] EXCEPT !.reserver = NoConn, !.deadline_at = v]
  <2>0. v \in Nat /\ s.job[j] \in JobRec
    BY JobOf DEF JobRec
  <2>1. e \in JobRec
    BY <2>0, JobRecEdit DEF JobStates
  <2>2. Stamp(s, j, d) = [s EXCEPT !.job[j] = e]
    BY DEF Stamp
  <2> HIDE DEF e
  <2> QED
    BY <2>1, <2>2 DEF Store
<1> QED
  BY <1>1, <1>2, <1>3 DEF enqueue_job

\* So does conn_reserve_job.
LEMMA ReserveForType ==
    ASSUME NEW s \in Store, NEW j \in Ids, NEW c \in Conns, clock \in Nat
    PROVE  ReserveFor(s, c, j) \in Store
<1> DEFINE t == s.job[j].tube
           v == clock + s.job[j].ttr
           e == [s.job[j] EXCEPT !.deadline_at = v, !.state = "reserved",
                                 !.reserver = c]
           r == [s EXCEPT !.job[j] = e, !.reserved_jobs[c] = Append(@, j)]
<1>1. s.job[j] \in JobRec /\ t \in Tubes
  BY JobOf
<1>2. Append(s.reserved_jobs[c], j) \in Seq(Ids)
  BY AppendRange DEF Store
<1>3. r \in Store
  <2>1. v \in Nat
    BY <1>1 DEF JobRec
  <2>2. e \in JobRec
    BY <1>1, <2>1, JobRecEdit DEF JobStates
  <2> HIDE DEF e
  <2> QED
    BY <1>2, <2>2 DEF Store
<1>4. "reserved" \in Counters /\ 1 \in Int
  BY DEF Counters
<1> HIDE DEF r
<1> QED
  BY <1>1, <1>3, <1>4, CountType DEF ReserveFor, r

\* So do the waiting counters of enqueue_waiting_conn and
\* remove_waiting_conn.
LEMMA CountWaitingType ==
    ASSUME NEW s \in Store, NEW ts \in SUBSET Tubes, NEW n \in Int
    PROVE  CountWaiting(s, ts, n) \in Store
<1> DEFINE a == [s.ct EXCEPT !["waiting"] = @ + n]
           b == [t \in Tubes |-> [s.tct[t] EXCEPT !["waiting"] =
                                    IF t \in ts THEN @ + n ELSE @]]
<1>1. a \in [Counters -> Int] /\ b \in [Tubes -> [Counters -> Int]]
  BY DEF Store, Counters
<1>2. CountWaiting(s, ts, n) = [s EXCEPT !.ct = a, !.tct = b]
  BY DEF CountWaiting, Store
<1> HIDE DEF a, b
<1> QED
  BY <1>1, <1>2 DEF Store

-----------------------------------------------------------------------------
(* Connections                                                             *)

\* The cached soonest job is one the connection holds.
Held(s, c, cr) ==
    cr.soonest_job # Nil => cr.soonest_job \in Range(s.reserved_jobs[c])

\* What connsched and the replies leave alone.
SameInput(r, cr) == r.in_job = cr.in_job

\* The members of a list of jobs are job ids.
LEMMA RangeInIds ==
    ASSUME NEW l \in Seq(Ids)
    PROVE  Range(l) \subseteq Ids
BY DEF Range

\* The scan of connsoonestjob over a nonempty list finds a member of it with
\* the earliest deadline.
LEMMA EarliestInList ==
    ASSUME NEW s \in Store, NEW l \in Seq(Ids), l # <<>>
    PROVE  /\ EarliestOf(s, l) \in Range(l)
           /\ \A k \in Range(l) :
                s.job[EarliestOf(s, l)].deadline_at <= s.job[k].deadline_at
<1> DEFINE D == {s.job[l[i]].deadline_at : i \in DOMAIN l}
           first == {i \in DOMAIN l : \A k \in DOMAIN l :
                        s.job[l[i]].deadline_at <= s.job[l[k]].deadline_at}
<1>1. DOMAIN l = 1..Len(l) /\ Len(l) \in Nat /\ 1 \in DOMAIN l
  OBVIOUS
<1>2. \A i \in DOMAIN l : s.job[l[i]].deadline_at \in Nat
  BY <1>1, JobOf DEF JobRec
<1>3. D \subseteq Nat /\ D # {}
  BY <1>1, <1>2
<1>4. PICK d \in D : \A e \in D : d <= e
  BY <1>3, LeastNat
<1>5. PICK m \in DOMAIN l : d = s.job[l[m]].deadline_at
  OBVIOUS
<1>6. m \in first
  BY <1>4, <1>5
<1>7. first \subseteq Nat /\ first # {} /\ first \subseteq DOMAIN l
  <2>1. first \subseteq DOMAIN l
    OBVIOUS
  <2>2. DOMAIN l \subseteq Nat
    BY <1>1
  <2> HIDE DEF first
  <2> QED
    BY <2>1, <2>2, <1>6
<1>8. \E i \in first : \A k \in first : i <= k
  <2> HIDE DEF first
  <2> QED
    BY <1>7, LeastNat
<1> DEFINE i == CHOOSE i \in first : \A k \in first : i <= k
<1>9. i \in DOMAIN l /\ i \in first
  <2> HIDE DEF first
  <2> QED
    BY <1>7, <1>8
<1>10. EarliestOf(s, l) = l[i]
  BY DEF EarliestOf
<1>11. \A k \in DOMAIN l : s.job[l[i]].deadline_at <= s.job[l[k]].deadline_at
  BY <1>9
<1> HIDE DEF i
<1> QED
  BY <1>9, <1>10, <1>11 DEF Range

\* connsoonestjob returns NULL or a job the connection holds.
LEMMA SoonestType ==
    ASSUME NEW s \in Store, NEW c \in Conns, NEW cr \in ConnRec, Held(s, c, cr)
    PROVE  /\ connsoonestjob(s, c, cr) \in Ids \cup {Nil}
           /\ connsoonestjob(s, c, cr) # Nil =>
                connsoonestjob(s, c, cr) \in Range(s.reserved_jobs[c])
           /\ s.reserved_jobs[c] # <<>> =>
                connsoonestjob(s, c, cr) \in Ids
<1>1. s.reserved_jobs[c] \in Seq(Ids) /\ cr.soonest_job \in Ids \cup {Nil}
  BY DEF Store, ConnRec
<1>2. Range(s.reserved_jobs[c]) \subseteq Ids
  BY <1>1, RangeInIds
<1>3. s.reserved_jobs[c] # <<>> =>
            EarliestOf(s, s.reserved_jobs[c]) \in Range(s.reserved_jobs[c])
  BY <1>1, EarliestInList
<1> QED
  BY <1>1, <1>2, <1>3 DEF connsoonestjob, Held

\* connsched keeps a connection's record well typed and its soonest_job one
\* that it holds, and changes nothing else that the invariant is about.
LEMMA ConnSched ==
    ASSUME NEW s \in Store, NEW c \in Conns, NEW cr \in ConnRec,
           Held(s, c, cr), clock \in Nat
    PROVE  /\ connsched(s, c, cr) \in ConnRec
           /\ Held(s, c, connsched(s, c, cr))
           /\ SameInput(connsched(s, c, cr), cr)
<1> DEFINE j == connsoonestjob(s, c, cr)
           ts == TickTimes(s, c, cr)
           r == IF s.reserved_jobs[c] = <<>> THEN cr
                ELSE [cr EXCEPT !.soonest_job = j]
<1>1. /\ j \in Ids \cup {Nil}
      /\ j # Nil => j \in Range(s.reserved_jobs[c])
      /\ s.reserved_jobs[c] # <<>> => j \in Ids
  BY SoonestType
<1> HIDE DEF j
<1>2. r \in ConnRec /\ Held(s, c, r) /\ SameInput(r, cr)
  BY <1>1 DEF ConnRec, Held, SameInput
<1>3. \E A, B : /\ ts = A \cup B
                /\ A = {} \/ \E a \in Int : A = {a}
                /\ B = {} \/ \E b \in Int : B = {b}
  <2>1. s.reserved_jobs[c] # <<>> =>
            \A m \in {0, SafetyMargin} : s.job[j].deadline_at - m \in Int
    BY <1>1, JobOf, ConstantsOK DEF JobRec
  <2>2. cr.pending_timeout >= 0 => clock + cr.pending_timeout \in Int
    BY DEF ConnRec
  <2> QED
    BY <2>1, <2>2 DEF TickTimes, j
<1>4. ts = {} \/ ((CHOOSE t \in ts : \A u \in ts : t <= u) \in Int)
  <2>1. PICK A, B : /\ ts = A \cup B
                    /\ A = {} \/ \E a \in Int : A = {a}
                    /\ B = {} \/ \E b \in Int : B = {b}
    BY <1>3
  <2> HIDE DEF ts
  <2>2. CASE A = {} /\ B = {}
    BY <2>1, <2>2
  <2>3. CASE \E a \in Int : ts = {a}
    BY <2>3
  <2>4. CASE \E a, b \in Int : ts = {a, b}
    BY <2>4
  <2> QED
    BY <2>1, <2>2, <2>3, <2>4
<1> DEFINE t == CHOOSE t \in ts : \A u \in ts : t <= u
<1>5. connsched(s, c, cr) = IF ts = {} THEN [r EXCEPT !.tickat = 0, !.in_conns = FALSE]
                            ELSE [r EXCEPT !.tickat = t, !.in_conns = TRUE]
  BY DEF connsched, j
<1> HIDE DEF ts, r, t
<1>6. CASE ts = {}
  <2>1. connsched(s, c, cr) = [r EXCEPT !.tickat = 0, !.in_conns = FALSE]
    BY <1>5, <1>6
  <2>2. ASSUME NEW n \in Int, NEW b \in BOOLEAN
        PROVE  [r EXCEPT !.tickat = n, !.in_conns = b] \in ConnRec
    BY <1>2 DEF ConnRec
  <2>20. connsched(s, c, cr) \in ConnRec
    <3>1. 0 \in Int /\ FALSE \in BOOLEAN
      OBVIOUS
    <3> QED
      BY <2>1, <2>2, <3>1, Zenon
  <2>3. /\ connsched(s, c, cr).soonest_job = r.soonest_job
        /\ connsched(s, c, cr).in_job = r.in_job
    BY <1>2, <2>1 DEF ConnRec
  <2> QED
    BY <1>2, <2>20, <2>3 DEF Held, SameInput
<1>7. CASE ts # {}
  <2>1. connsched(s, c, cr) = [r EXCEPT !.tickat = t, !.in_conns = TRUE]
    BY <1>5, <1>7
  <2>2. t \in Int
    BY <1>4, <1>7 DEF t
  <2> QED
    BY <1>2, <2>1, <2>2 DEF ConnRec, Held, SameInput
<1> QED
  BY <1>6, <1>7

\* So does a reply with a line.
LEMMA Replied ==
    ASSUME NEW s \in Store, NEW c \in Conns, NEW cr \in ConnRec,
           Held(s, c, cr), clock \in Nat, NEW msg \in Replies,
           NEW st \in ConnStates
    PROVE  /\ reply(s, c, cr, msg, st) \in ConnRec
           /\ Held(s, c, reply(s, c, cr, msg, st))
           /\ SameInput(reply(s, c, cr, msg, st), cr)
           /\ reply(s, c, cr, msg, st).state = st
BY ConnSched DEF reply, ConnRec, Held, SameInput

-----------------------------------------------------------------------------
(* Where the jobs are.  A job that has left its container and is not yet   *)
(* in the next one is floating: all others are placed.                     *)

Whole(s) == (\A k \in Ids : Placed(s, k)) /\ NoDuplicates(s)

Absent(s, j) ==
    /\ \A t \in Tubes : /\ j \notin s.ready[t] /\ j \notin s.delay[t]
                        /\ j \notin Range(s.buried[t])
    /\ \A c \in Conns : j \notin Range(s.reserved_jobs[c])

Floating(s, j) ==
    /\ \A k \in Ids \ {j} : Placed(s, k)
    /\ NoDuplicates(s)
    /\ Absent(s, j)
    /\ s.job[j].reserver = NoConn

\* r is s but for the counters.
SamePlaces(r, s) ==
    /\ r.job = s.job /\ r.ready = s.ready /\ r.delay = s.delay
    /\ r.buried = s.buried /\ r.reserved_jobs = s.reserved_jobs
    /\ r.wal_use = s.wal_use

\* Adding to a counter moves no job.
LEMMA CountPlaces ==
    ASSUME NEW s \in Store, NEW f, NEW t, NEW n
    PROVE  SamePlaces(Count(s, f, t, n), s)
BY DEF Count, SamePlaces, Store

\* Counting a waiting connection moves no job.
LEMMA CountWaitingPlaces ==
    ASSUME NEW s \in Store, NEW ts, NEW n
    PROVE  SamePlaces(CountWaiting(s, ts, n), s)
BY DEF CountWaiting, SamePlaces, Store

\* Placement depends on the jobs and the containers only.
LEMMA SamePlacesKeep ==
    ASSUME NEW r, NEW s, SamePlaces(r, s)
    PROVE  /\ Whole(s) => Whole(r)
           /\ \A j \in Ids : Floating(s, j) => Floating(r, j)
BY DEF SamePlaces, Whole, Floating, Placed, NoDuplicates, Absent

\* A job that is not in a container floats already.
LEMMA LooseFloats ==
    ASSUME NEW s \in Store, NEW j \in Ids, Whole(s),
           s.job[j].state \in {"none", "invalid"}
    PROVE  Floating(s, j)
BY DEF Whole, Floating, Placed, Absent

\* remove_ready_job takes a ready job out of the only container it is in.
LEMMA ReadyFloats ==
    ASSUME NEW s \in Store, NEW j \in Ids, Whole(s), s.job[j].state = "ready"
    PROVE  Floating(remove_ready_job(s, j), j)
<1> DEFINE r == remove_ready_job(s, j)
<1>1. /\ r.job = s.job /\ r.delay = s.delay /\ r.buried = s.buried
      /\ r.ready = [s.ready EXCEPT ![s.job[j].tube] = @ \ {j}]
      /\ r.reserved_jobs = s.reserved_jobs
  BY DEF remove_ready_job, Count, Store
<1>2. s.ready \in [Tubes -> SUBSET Ids] /\ s.job[j].tube \in Tubes
  BY JobOf DEF Store
<1> HIDE DEF r
<1> QED
  BY <1>1, <1>2 DEF Whole, Floating, Placed, NoDuplicates, Absent, r

\* remove_delayed_job does so for a delayed job.
LEMMA DelayedFloats ==
    ASSUME NEW s \in Store, NEW j \in Ids, Whole(s), s.job[j].state = "delayed"
    PROVE  Floating(remove_delayed_job(s, j), j)
<1> DEFINE r == remove_delayed_job(s, j)
<1>1. /\ r.job = s.job /\ r.ready = s.ready /\ r.buried = s.buried
      /\ r.delay = [s.delay EXCEPT ![s.job[j].tube] = @ \ {j}]
      /\ r.reserved_jobs = s.reserved_jobs
  BY DEF remove_delayed_job, Store
<1>2. s.delay \in [Tubes -> SUBSET Ids] /\ s.job[j].tube \in Tubes
  BY JobOf DEF Store
<1> HIDE DEF r
<1> QED
  BY <1>1, <1>2 DEF Whole, Floating, Placed, NoDuplicates, Absent, r

\* remove_buried_job does so for a buried job.
LEMMA BuriedFloats ==
    ASSUME NEW s \in Store, NEW j \in Ids, Whole(s), s.job[j].state = "buried"
    PROVE  Floating(remove_buried_job(s, j), j)
<1> DEFINE r == remove_buried_job(s, j)
           t == s.job[j].tube
           l == s.buried[t]
           m == job_list_remove(l, j)
<1>1. /\ r.job = s.job /\ r.ready = s.ready /\ r.delay = s.delay
      /\ r.buried = [s.buried EXCEPT ![t] = m]
      /\ r.reserved_jobs = s.reserved_jobs
  BY DEF remove_buried_job, Count, Store
<1>2. s.buried \in [Tubes -> Seq(Ids)] /\ t \in Tubes
  BY JobOf DEF Store
<1>3. l \in Seq(Ids) /\ j \in Range(l) /\ IsInjective(l)
  BY <1>2 DEF Whole, Placed, NoDuplicates
<1>4. Range(m) = Range(l) \ {j} /\ IsInjective(m)
  BY <1>3, RemoveRange
<1>5. /\ r.buried[t] = m
      /\ \A u \in Tubes \ {t} : r.buried[u] = s.buried[u]
  BY <1>1, <1>2
<1> HIDE DEF r, m
<1>6. \A u \in Tubes : /\ Range(r.buried[u]) = Range(s.buried[u]) \ {j}
                       /\ IsInjective(r.buried[u])
  BY <1>4, <1>5 DEF Whole, Placed, NoDuplicates
<1> QED
  BY <1>1, <1>6 DEF Whole, Floating, Placed, NoDuplicates, Absent, r

\* remove_this_reserved_job does so for a reserved job.
LEMMA ReservedFloats ==
    ASSUME NEW s \in Store, NEW j \in Ids, NEW c \in Conns, Whole(s),
           s.job[j].state = "reserved", s.job[j].reserver = c
    PROVE  Floating(remove_this_reserved_job(s, c, j), j)
<1> DEFINE r == remove_this_reserved_job(s, c, j)
           l == s.reserved_jobs[c]
           m == job_list_remove(l, j)
<1>1. /\ r.job = [s.job EXCEPT ![j].reserver = NoConn]
      /\ r.ready = s.ready /\ r.delay = s.delay /\ r.buried = s.buried
      /\ r.reserved_jobs = [s.reserved_jobs EXCEPT ![c] = m]
  BY DEF remove_this_reserved_job, Count, Store
<1>2. s.reserved_jobs \in [Conns -> Seq(Ids)]
  BY DEF Store
<1>3. l \in Seq(Ids) /\ j \in Range(l) /\ IsInjective(l)
  BY <1>2 DEF Whole, Placed, NoDuplicates
<1>4. Range(m) = Range(l) \ {j} /\ IsInjective(m)
  BY <1>3, RemoveRange
<1>5. /\ r.reserved_jobs[c] = m
      /\ \A d \in Conns \ {c} : r.reserved_jobs[d] = s.reserved_jobs[d]
  BY <1>1, <1>2
<1>6. /\ \A k \in Ids \ {j} : r.job[k] = s.job[k]
      /\ r.job[j].reserver = NoConn
  BY <1>1, JobOf DEF Store, JobRec
<1> HIDE DEF r, m
<1>7. \A d \in Conns : /\ Range(r.reserved_jobs[d]) = Range(s.reserved_jobs[d]) \ {j}
                       /\ IsInjective(r.reserved_jobs[d])
  BY <1>4, <1>5 DEF Whole, Placed, NoDuplicates
<1> QED
  BY <1>1, <1>6, <1>7 DEF Whole, Floating, Placed, NoDuplicates, Absent, r

\* r differs from s in job j only, and in where j is.
Near(r, s, j) ==
    /\ r.wal_use = s.wal_use
    /\ \A k \in Ids \ {j} : r.job[k] = s.job[k]
    /\ \A c \in Conns : \A k \in Range(s.reserved_jobs[c]) :
            k = j \/ k \in Range(r.reserved_jobs[c])

\* Changes near job j compose.
LEMMA NearTrans ==
    ASSUME NEW a, NEW b, NEW s, NEW j, Near(a, b, j), Near(b, s, j)
    PROVE  Near(a, s, j)
BY DEF Near

\* Taking job j out of its container changes nothing about other jobs.
LEMMA RemoveNear ==
    ASSUME NEW s \in Store, NEW j \in Ids, Whole(s)
    PROVE  /\ Near(Unqueue(s, j), s, j)
           /\ Near(remove_buried_job(s, j), s, j)
           /\ Near(remove_delayed_job(s, j), s, j)
           /\ \A c \in Conns : s.job[j].state = "reserved" /\ s.job[j].reserver = c
                => Near(remove_this_reserved_job(s, c, j), s, j)
<1>0. \A c \in Conns : s.job[j].state = "reserved" /\ s.job[j].reserver = c
            => Near(remove_this_reserved_job(s, c, j), s, j)
  <2> SUFFICES ASSUME NEW c \in Conns, s.job[j].state = "reserved",
                      s.job[j].reserver = c
               PROVE  Near(remove_this_reserved_job(s, c, j), s, j)
    OBVIOUS
  <2> DEFINE r == remove_this_reserved_job(s, c, j)
             l == s.reserved_jobs[c]
             m == job_list_remove(l, j)
  <2>1. /\ r.job = [s.job EXCEPT ![j].reserver = NoConn]
        /\ r.wal_use = s.wal_use
        /\ r.reserved_jobs = [s.reserved_jobs EXCEPT ![c] = m]
    BY DEF remove_this_reserved_job, Count, Store
  <2>2. l \in Seq(Ids) /\ j \in Range(l) /\ IsInjective(l)
    BY DEF Whole, Placed, NoDuplicates, Store
  <2>3. Range(m) = Range(l) \ {j}
    BY <2>2, RemoveRange
  <2>4. /\ r.reserved_jobs[c] = m
        /\ \A d \in Conns \ {c} : r.reserved_jobs[d] = s.reserved_jobs[d]
        /\ \A k \in Ids \ {j} : r.job[k] = s.job[k]
    BY <2>1 DEF Store
  <2> HIDE DEF r, m
  <2> QED
    BY <2>1, <2>3, <2>4 DEF Near, r
<1>1. Near(remove_ready_job(s, j), s, j)
  BY DEF Near, remove_ready_job, Count, Store
<1>2. Near(remove_delayed_job(s, j), s, j)
  BY DEF Near, remove_delayed_job, Store
<1>3. Near(remove_buried_job(s, j), s, j)
  BY DEF Near, remove_buried_job, Count, Store
<1>4. Near(s, s, j)
  BY DEF Near
<1> QED
  BY <1>0, <1>1, <1>2, <1>3, <1>4 DEF Unqueue

\* delete and reserve-job take the job from whatever queue its state names.
LEMMA UnqueueFloats ==
    ASSUME NEW s \in Store, NEW j \in Ids, Whole(s),
           s.job[j].state \in {"ready", "buried", "delayed"}
    PROVE  Floating(Unqueue(s, j), j)
BY ReadyFloats, BuriedFloats, DelayedFloats DEF Unqueue

\* job_free and a change of a floating job's record.
LEMMA FreeWhole ==
    ASSUME NEW s \in Store, NEW j \in Ids, Floating(s, j)
    PROVE  Whole(job_free(s, j)) /\ Near(job_free(s, j), s, j)
<1> DEFINE r == job_free(s, j)
<1>1. /\ r.ready = s.ready /\ r.delay = s.delay /\ r.buried = s.buried
      /\ r.reserved_jobs = s.reserved_jobs /\ r.wal_use = s.wal_use
      /\ \A k \in Ids \ {j} : r.job[k] = s.job[k]
      /\ r.job[j] = FreeJob
  BY DEF job_free, Store
<1>2. FreeJob.state = "none" /\ FreeJob.reserver = NoConn
  BY DEF FreeJob
<1>3. FreeJob.state \notin {"ready", "delayed", "buried", "reserved"}
  BY <1>2
<1> HIDE DEF r
<1> QED
  BY <1>1, <1>2, <1>3 DEF Whole, Floating, Placed, NoDuplicates, Absent, Near, r

\* Changing the record of a floating job leaves it floating.
LEMMA EditFloats ==
    ASSUME NEW s \in Store, NEW j \in Ids, NEW e \in JobRec, Floating(s, j),
           e.reserver = NoConn
    PROVE  /\ [s EXCEPT !.job[j] = e] \in Store
           /\ Floating([s EXCEPT !.job[j] = e], j)
           /\ Near([s EXCEPT !.job[j] = e], s, j)
           /\ [s EXCEPT !.job[j] = e].job[j] = e
<1> DEFINE r == [s EXCEPT !.job[j] = e]
<1>1. /\ r \in Store
      /\ r.ready = s.ready /\ r.delay = s.delay /\ r.buried = s.buried
      /\ r.reserved_jobs = s.reserved_jobs /\ r.wal_use = s.wal_use
      /\ \A k \in Ids \ {j} : r.job[k] = s.job[k]
      /\ r.job[j] = e
  BY DEF Store
<1> HIDE DEF r
<1>2. Floating(r, j) /\ Near(r, s, j)
  BY <1>1 DEF Floating, Placed, NoDuplicates, Absent, Near
<1> QED
  BY <1>1, <1>2 DEF r

\* bury_job puts a floating job in its place.
LEMMA BuryWhole ==
    ASSUME NEW s \in Store, NEW j \in Ids, Floating(s, j)
    PROVE  Whole(bury_job(s, j)) /\ Near(bury_job(s, j), s, j)
<1> DEFINE t == s.job[j].tube
           r == bury_job(s, j)
           m == Append(s.buried[t], j)
           e == [s.job[j] EXCEPT !.state = "buried", !.reserver = NoConn]
<1>1. s.job[j] \in JobRec /\ t \in Tubes /\ s.buried[t] \in Seq(Ids)
  BY JobOf DEF Store
<1>2. /\ Range(m) = Range(s.buried[t]) \cup {j} /\ IsInjective(m)
  BY <1>1, AppendRange DEF Floating, Absent, NoDuplicates
<1>3. e.state = "buried" /\ e.reserver = NoConn /\ e.tube = t
  BY <1>1 DEF JobRec
<1>4. /\ r.ready = s.ready /\ r.delay = s.delay
      /\ r.buried = [s.buried EXCEPT ![t] = m]
      /\ r.job = [s.job EXCEPT ![j] = e]
      /\ r.reserved_jobs = s.reserved_jobs /\ r.wal_use = s.wal_use
  BY DEF bury_job, Count, Store
<1> HIDE DEF r, m, e, t
<1>5. /\ r.buried[t] = m
      /\ \A u \in Tubes \ {t} : r.buried[u] = s.buried[u]
      /\ r.job[j] = e /\ \A k \in Ids \ {j} : r.job[k] = s.job[k]
  BY <1>1, <1>4 DEF Store
<1>6. \A k \in Ids \ {j} : Placed(r, k)
  BY <1>2, <1>4, <1>5 DEF Floating, Placed
<1>7. Placed(r, j)
  <2>1. \A u \in Tubes : j \in Range(r.buried[u]) <=> u = t
    BY <1>2, <1>5 DEF Floating, Absent
  <2> QED
    BY <2>1, <1>3, <1>4, <1>5 DEF Floating, Absent, Placed
<1>8. NoDuplicates(r)
  BY <1>2, <1>4, <1>5 DEF Floating, NoDuplicates
<1> QED
  BY <1>4, <1>5, <1>6, <1>7, <1>8 DEF Whole, Near, r

\* What enqueue_job writes before its heapinsert leaves the job floating, so
\* that the caller can still bury it.
LEMMA StampFloats ==
    ASSUME NEW s \in Store, NEW j \in Ids, NEW d \in Nat, clock \in Nat,
           Floating(s, j)
    PROVE  /\ Floating(Stamp(s, j, d), j) /\ Near(Stamp(s, j, d), s, j)
           /\ Stamp(s, j, d) \in Store
<1> DEFINE v == IF d = 0 THEN s.job[j].deadline_at ELSE clock + d
           e == [s.job[j] EXCEPT !.reserver = NoConn, !.deadline_at = v]
<1>1. s.job[j] \in JobRec /\ v \in Nat
  BY JobOf DEF JobRec
<1>2. e \in JobRec /\ e.reserver = NoConn
  <2>1. e \in JobRec
    BY <1>1, JobRecEdit DEF JobStates
  <2> QED
    BY <2>1, <1>1 DEF JobRec
<1>3. Stamp(s, j, d) = [s EXCEPT !.job[j] = e]
  BY DEF Stamp
<1> HIDE DEF e
<1> QED
  BY <1>2, <1>3, EditFloats

\* enqueue_job puts a floating job in its place.
LEMMA EnqueueWhole ==
    ASSUME NEW s \in Store, NEW j \in Ids, NEW d \in Nat, clock \in Nat,
           Floating(s, j)
    PROVE  Whole(enqueue_job(s, j, d)) /\ Near(enqueue_job(s, j, d), s, j)
<1>1. ASSUME NEW x \in Store, Floating(x, j)
      PROVE  Whole(EnqueueReady(x, j)) /\ Near(EnqueueReady(x, j), x, j)
  <2> DEFINE t == x.job[j].tube
             r == EnqueueReady(x, j)
             a == x.ready[t] \cup {j}
             e == [x.job[j] EXCEPT !.state = "ready"]
  <2>1. x.job[j] \in JobRec /\ t \in Tubes
    BY JobOf
  <2>2. e.state = "ready" /\ e.reserver = NoConn /\ e.tube = t
    BY <2>1, <1>1 DEF JobRec, Floating
  <2>3. /\ r.ready = [x.ready EXCEPT ![t] = a]
        /\ r.delay = x.delay /\ r.buried = x.buried
        /\ r.job = [x.job EXCEPT ![j] = e]
        /\ r.reserved_jobs = x.reserved_jobs /\ r.wal_use = x.wal_use
    BY DEF EnqueueReady, Count, Store
  <2> HIDE DEF r, e, t
  <2>4. /\ r.ready[t] = a
        /\ \A u \in Tubes \ {t} : r.ready[u] = x.ready[u]
        /\ r.job[j] = e /\ \A k \in Ids \ {j} : r.job[k] = x.job[k]
    BY <2>1, <2>3 DEF Store
  <2>5. \A k \in Ids : Placed(r, k)
    BY <1>1, <2>1, <2>2, <2>3, <2>4 DEF Floating, Placed, Absent
  <2> QED
    BY <1>1, <2>3, <2>4, <2>5 DEF Whole, Near, r, Floating, NoDuplicates
<1>2. ASSUME NEW x \in Store, Floating(x, j)
      PROVE  Whole(EnqueueDelayed(x, j)) /\ Near(EnqueueDelayed(x, j), x, j)
  <2> DEFINE t == x.job[j].tube
             r == EnqueueDelayed(x, j)
             a == x.delay[t] \cup {j}
             e == [x.job[j] EXCEPT !.state = "delayed"]
  <2>1. x.job[j] \in JobRec /\ t \in Tubes
    BY JobOf
  <2>2. e.state = "delayed" /\ e.reserver = NoConn /\ e.tube = t
    BY <2>1, <1>2 DEF JobRec, Floating
  <2>3. /\ r.delay = [x.delay EXCEPT ![t] = a]
        /\ r.ready = x.ready /\ r.buried = x.buried
        /\ r.job = [x.job EXCEPT ![j] = e]
        /\ r.reserved_jobs = x.reserved_jobs /\ r.wal_use = x.wal_use
    BY DEF EnqueueDelayed, Store
  <2> HIDE DEF r, e, t
  <2>4. /\ r.delay[t] = a
        /\ \A u \in Tubes \ {t} : r.delay[u] = x.delay[u]
        /\ r.job[j] = e /\ \A k \in Ids \ {j} : r.job[k] = x.job[k]
    BY <2>1, <2>3 DEF Store
  <2>5. \A k \in Ids : Placed(r, k)
    BY <1>2, <2>1, <2>2, <2>3, <2>4 DEF Floating, Placed, Absent
  <2> QED
    BY <1>2, <2>3, <2>4, <2>5 DEF Whole, Near, r, Floating, NoDuplicates
<1>3. Floating(Stamp(s, j, d), j) /\ Near(Stamp(s, j, d), s, j)
      /\ Stamp(s, j, d) \in Store
  BY StampFloats
<1> QED
  BY <1>1, <1>2, <1>3, NearTrans DEF enqueue_job

\* conn_reserve_job puts a floating job in its place.
LEMMA ReserveWhole ==
    ASSUME NEW s \in Store, NEW j \in Ids, NEW c \in Conns, Floating(s, j)
    PROVE  /\ Whole(ReserveFor(s, c, j)) /\ Near(ReserveFor(s, c, j), s, j)
           /\ j \in Range(ReserveFor(s, c, j).reserved_jobs[c])
<1> DEFINE r == ReserveFor(s, c, j)
           m == Append(s.reserved_jobs[c], j)
           v == clock + s.job[j].ttr
           e == [s.job[j] EXCEPT !.deadline_at = v, !.state = "reserved",
                                 !.reserver = c]
<1>1. s.job[j] \in JobRec /\ s.reserved_jobs[c] \in Seq(Ids)
  BY JobOf DEF Store
<1>2. /\ Range(m) = Range(s.reserved_jobs[c]) \cup {j} /\ IsInjective(m)
  BY <1>1, AppendRange DEF Floating, Absent, NoDuplicates
<1>3. e.state = "reserved" /\ e.reserver = c /\ c # NoConn
  BY <1>1, ConstantsOK DEF JobRec
<1>4. /\ r.ready = s.ready /\ r.delay = s.delay /\ r.buried = s.buried
      /\ r.job = [s.job EXCEPT ![j] = e]
      /\ r.reserved_jobs = [s.reserved_jobs EXCEPT ![c] = m]
      /\ r.wal_use = s.wal_use
  BY DEF ReserveFor, Count, Store
<1> HIDE DEF r, m, e
<1>5. /\ r.reserved_jobs[c] = m
      /\ \A d \in Conns \ {c} : r.reserved_jobs[d] = s.reserved_jobs[d]
      /\ r.job[j] = e /\ \A k \in Ids \ {j} : r.job[k] = s.job[k]
  BY <1>1, <1>4 DEF Store
<1>6. \A k \in Ids \ {j} : Placed(r, k)
  BY <1>2, <1>4, <1>5 DEF Floating, Placed
<1>7. Placed(r, j)
  <2>1. \A d \in Conns : j \in Range(r.reserved_jobs[d]) <=> d = c
    BY <1>2, <1>5 DEF Floating, Absent
  <2> QED
    BY <2>1, <1>3, <1>4, <1>5 DEF Floating, Absent, Placed
<1>8. NoDuplicates(r)
  BY <1>2, <1>4, <1>5 DEF Floating, NoDuplicates
<1> QED
  BY <1>2, <1>4, <1>5, <1>6, <1>7, <1>8 DEF Whole, Near, r

\* enqueue_job and the fall back on bury_job: the job ends up in one place.
LEMMA EnqueueOrBuryGood ==
    ASSUME NEW s \in Store, NEW j \in Ids, NEW d \in Nat, NEW u, clock \in Nat,
           Floating(s, j), ~s.wal_use, NEW r \in EnqueueOrBury(s, j, d, u)
    PROVE  r.q \in Store /\ Whole(r.q) /\ Near(r.q, s, j) /\ r.pq \in BOOLEAN
<1>1. CASE r = [q |-> enqueue_job(s, j, d), pq |-> TRUE, ok |-> TRUE]
  BY <1>1, EnqueueType, EnqueueWhole
<1>2. ASSUME NEW f \in EnqueueFailures(s, j, d, u),
             r = [q |-> bury_job(f, j), pq |-> FALSE, ok |-> FALSE]
      PROVE  r.q \in Store /\ Whole(r.q) /\ Near(r.q, s, j) /\ r.pq \in BOOLEAN
  <2>1. Near(enqueue_job(s, j, d), s, j)
    BY EnqueueWhole
  <2>2. f = Stamp(s, j, d)
    BY <1>2, <2>1 DEF EnqueueFailures, WalFailed, Near
  <2>3. f \in Store /\ Floating(f, j) /\ Near(f, s, j)
    BY <2>2, StampFloats
  <2> QED
    BY <1>2, <2>3, StoreSteps, BuryWhole, NearTrans
<1> QED
  BY <1>1, <1>2 DEF EnqueueOrBury

\* kick_buried_job and kick_delayed_job, their fall backs included.
LEMMA KickGood ==
    ASSUME NEW s \in Store, NEW j \in Ids, clock \in Nat, Whole(s), ~s.wal_use,
           NEW r,
           \/ s.job[j].state = "buried" /\ r \in kick_buried_job(s, j)
           \/ s.job[j].state = "delayed" /\ r \in kick_delayed_job(s, j)
    PROVE  r.q \in Store /\ Whole(r.q) /\ Near(r.q, s, j) /\ r.pq \in BOOLEAN
<1>0. Refused(s) = {}
  BY DEF Refused
<1>1. CASE s.job[j].state = "buried" /\ r \in kick_buried_job(s, j)
  <2> DEFINE x == remove_buried_job(s, j)
  <2>1. x \in Store /\ Floating(x, j) /\ Near(x, s, j)
    BY <1>1, StoreSteps, BuriedFloats, RemoveNear
  <2>2. ~x.wal_use /\ r \in EnqueueOrBury(x, j, 0, TRUE)
    BY <2>1, <1>0, <1>1 DEF Near, kick_buried_job
  <2> QED
    BY <2>1, <2>2, EnqueueOrBuryGood, NearTrans
<1>2. CASE s.job[j].state = "delayed" /\ r \in kick_delayed_job(s, j)
  <2> DEFINE x == remove_delayed_job(s, j)
             d == s.job[j].delay
  <2>1. x \in Store /\ Floating(x, j) /\ Near(x, s, j) /\ d \in Nat
    BY <1>2, StoreSteps, DelayedFloats, RemoveNear, JobOf DEF JobRec
  <2>2. ~x.wal_use
    BY <2>1 DEF Near
  <2> HIDE DEF x
  <2>3. CASE r = [q |-> enqueue_job(x, j, 0), pq |-> TRUE, ok |-> TRUE]
    BY <2>1, <2>3, EnqueueType, EnqueueWhole, NearTrans
  <2>4. ASSUME NEW f \in EnqueueFailures(x, j, 0, TRUE),
               NEW b \in EnqueueOrBury(f, j, d, FALSE),
               r = [b EXCEPT !.ok = FALSE]
        PROVE  r.q \in Store /\ Whole(r.q) /\ Near(r.q, s, j) /\ r.pq \in BOOLEAN
    <3>1. Near(enqueue_job(x, j, 0), x, j)
      BY <2>1, EnqueueWhole
    <3>2. f = Stamp(x, j, 0)
      BY <2>2, <2>4, <3>1 DEF EnqueueFailures, WalFailed, Near
    <3>3. f \in Store /\ Floating(f, j) /\ Near(f, x, j)
      BY <2>1, <3>2, StampFloats
    <3>4. ~f.wal_use
      BY <2>2, <3>3 DEF Near
    <3>5. b.q \in Store /\ Whole(b.q) /\ Near(b.q, f, j) /\ b.pq \in BOOLEAN
      BY <2>1, <3>3, <3>4, EnqueueOrBuryGood
    <3>6. r.q = b.q /\ r.pq = b.pq
      BY <2>4 DEF EnqueueOrBury
    <3> QED
      BY <2>1, <3>3, <3>5, <3>6, NearTrans
  <2> QED
    BY <1>0, <1>2, <2>3, <2>4 DEF kick_delayed_job, x
<1> QED
  BY <1>1, <1>2

-----------------------------------------------------------------------------
(* The inductive invariant                                                 *)

\* What each connection owns: its cached soonest job and the job it uploads.
Owners(s, cn) ==
    /\ \A c \in Conns : Held(s, c, cn[c])
    /\ \A c \in Conns : cn[c].state = "want_data" => cn[c].in_job # Nil
    /\ \A c \in Conns : cn[c].in_job # Nil => s.job[cn[c].in_job].state = "invalid"
    /\ \A c, d \in Conns : cn[c].in_job = cn[d].in_job => c = d \/ cn[c].in_job = Nil

\* Ids not yet given have no job.
FreshIds(s, n) == \A k \in Ids : k >= n => s.job[k].state = "none"

\* The thread works for a connection when its handler needs one.
TaskServes(k) ==
    k.op \in {"dispatch", "timeout", "resched", "close", "kick"} => k.conn \in Conns

\* TypeOK and JobPlacement, with what makes them inductive.
IInv ==
    /\ TypeOK
    /\ Whole(q)
    /\ Owners(q, conn)
    /\ FreshIds(q, next_id)
    /\ TaskServes(task)
    /\ ~q.wal_use

\* A step that moves job j for connection c keeps what connections own.
LEMMA OwnersKept ==
    ASSUME NEW s \in Store, NEW r \in Store, Whole(s), NEW j \in Ids, Near(r, s, j),
           NEW cn \in [Conns -> ConnRec], NEW dn \in [Conns -> ConnRec],
           Owners(s, cn), NEW c,
           \A d \in Conns \ {c} : dn[d] = cn[d],
           s.job[j].state = "reserved" => s.job[j].reserver = c,
           s.job[j].state = "invalid" =>
                c \in Conns /\ cn[c].in_job = j /\ dn[c].in_job = Nil,
           c \in Conns => /\ Held(r, c, dn[c])
                          /\ dn[c].in_job \in {cn[c].in_job, Nil}
                          /\ dn[c].state = "want_data" => dn[c].in_job # Nil
    PROVE  Owners(r, dn)
<1>1. \A d \in Conns : Held(r, d, dn[d])
  <2> SUFFICES ASSUME NEW d \in Conns, d # c PROVE Held(r, d, dn[d])
    OBVIOUS
  <2>1. j \notin Range(s.reserved_jobs[d])
    BY DEF Whole, Placed
  <2>2. dn[d] = cn[d] /\ Held(s, d, cn[d])
    BY DEF Owners
  <2> QED
    BY <2>1, <2>2 DEF Held, Near
<1>2. \A d \in Conns : dn[d].state = "want_data" => dn[d].in_job # Nil
  BY DEF Owners
<1>3. \A d \in Conns : dn[d].in_job # Nil => r.job[dn[d].in_job].state = "invalid"
  <2> SUFFICES ASSUME NEW d \in Conns, dn[d].in_job # Nil
               PROVE  r.job[dn[d].in_job].state = "invalid"
    OBVIOUS
  <2>1. dn[d].in_job = cn[d].in_job /\ dn[d].in_job \in Ids
    BY DEF ConnRec
  <2>2. s.job[cn[d].in_job].state = "invalid"
    BY <2>1 DEF Owners
  <2>3. cn[d].in_job # j
    BY <2>1, <2>2 DEF Owners
  <2> QED
    BY <2>1, <2>2, <2>3 DEF Near
<1>4. \A d, e \in Conns : dn[d].in_job = dn[e].in_job => d = e \/ dn[d].in_job = Nil
  BY DEF Owners
<1> QED
  BY <1>1, <1>2, <1>3, <1>4 DEF Owners

\* So does a step that moves no job.
LEMMA OwnersSame ==
    ASSUME NEW s, NEW r, SamePlaces(r, s),
           NEW cn \in [Conns -> ConnRec], NEW dn \in [Conns -> ConnRec],
           Owners(s, cn), NEW c,
           \A d \in Conns \ {c} : dn[d] = cn[d],
           c \in Conns => /\ Held(r, c, dn[c])
                          /\ dn[c].in_job \in {cn[c].in_job, Nil}
                          /\ dn[c].state = "want_data" => dn[c].in_job # Nil
    PROVE  Owners(r, dn)
BY DEF Owners, SamePlaces, Held

\* Ids not yet given stay unused when job j, already given, moves.
LEMMA FreshKept ==
    ASSUME NEW s, NEW r, NEW n, FreshIds(s, n),
           SamePlaces(r, s) \/ \E j \in Ids : Near(r, s, j) /\ s.job[j].state # "none"
    PROVE  FreshIds(r, n)
BY DEF FreshIds, SamePlaces, Near

\* The places where the server thread can be between two steps are tasks.
LEMMA TaskTypes ==
    ASSUME clock \in Nat
    PROVE  /\ Tick \in Task /\ TaskServes(Tick)
           /\ Socknext \in Task /\ TaskServes(Socknext)
           /\ \A c \in Conns :
                LET k == [Socknext EXCEPT !.op = "dispatch", !.conn = c]
                IN  k \in Task /\ TaskServes(k)
           /\ \A c \in Conns :
                LET k == [Socknext EXCEPT !.op = "close", !.conn = c]
                IN  k \in Task /\ TaskServes(k)
BY DEF Tick, Socknext, Task, TaskOps, TaskServes

\* The types of the variables that hold no job.
RestOK ==
    /\ waiting_conns \in [Tubes -> SUBSET Conns]
    /\ pause \in [Tubes -> BOOLEAN]
    /\ unpause_at \in [Tubes -> Nat]
    /\ drain_mode \in BOOLEAN
    /\ clock \in Nat
    /\ task \in Task /\ TaskServes(task)
    /\ pq \in BOOLEAN
    /\ conns_broken \in BOOLEAN

\* Whatever the conns heap does, the flag that says so is a truth value.
LEMMA FlagType ==
    ASSUME conns_broken \in BOOLEAN, NEW c, MovesInHeap(c)
    PROVE  conns_broken' \in BOOLEAN
BY DEF MovesInHeap

\* A step that moves job j, on behalf of connection c (or of none).
LEMMA MoveStep ==
    ASSUME IInv, NEW j \in Ids, NEW c,
           q' \in Store, Whole(q'), Near(q', q, j),
           q.job[j].state # "none",
           q.job[j].state = "reserved" => q.job[j].reserver = c,
           conn' \in [Conns -> ConnRec],
           \A d \in Conns \ {c} : conn'[d] = conn[d],
           q.job[j].state = "invalid" =>
                c \in Conns /\ conn[c].in_job = j /\ conn'[c].in_job = Nil,
           c \in Conns => /\ Held(q', c, conn'[c])
                          /\ conn'[c].in_job \in {conn[c].in_job, Nil}
                          /\ conn'[c].state = "want_data" => conn'[c].in_job # Nil,
           next_id' = next_id, RestOK'
    PROVE  IInv'
<1>1. Owners(q', conn')
  BY OwnersKept DEF IInv, TypeOK
<1>2. FreshIds(q', next_id')
  BY FreshKept DEF IInv
<1>3. ~q'.wal_use
  BY DEF IInv, Near
<1> QED
  BY <1>1, <1>2, <1>3 DEF IInv, TypeOK, RestOK

\* A step that moves no job.
LEMMA StayStep ==
    ASSUME IInv, NEW c, q' \in Store, SamePlaces(q', q),
           conn' \in [Conns -> ConnRec],
           \A d \in Conns \ {c} : conn'[d] = conn[d],
           c \in Conns => /\ Held(q', c, conn'[c])
                          /\ conn'[c].in_job \in {conn[c].in_job, Nil}
                          /\ conn'[c].state = "want_data" => conn'[c].in_job # Nil,
           next_id' = next_id, RestOK'
    PROVE  IInv'
<1>1. Owners(q', conn')
  BY OwnersSame DEF IInv, TypeOK
<1>2. FreshIds(q', next_id')
  BY FreshKept DEF IInv
<1>3. ~q'.wal_use /\ Whole(q')
  BY SamePlacesKeep DEF IInv, SamePlaces
<1> QED
  BY <1>1, <1>2, <1>3 DEF IInv, TypeOK, RestOK

\* What the invariant gives about the state before a step.
LEMMA Facts ==
    ASSUME IInv
    PROVE  /\ q \in Store /\ Whole(q) /\ ~q.wal_use
           /\ conn \in [Conns -> ConnRec]
           /\ RestOK
           /\ \A c \in Conns : conn[c] \in ConnRec /\ Held(q, c, conn[c])
           /\ \A c \in Conns : conn[c].watch \in SUBSET Tubes /\ conn[c].use \in Tubes
           /\ next_id \in 1..(MaxId + 1)
           /\ SamePlaces(q, q)
BY DEF IInv, TypeOK, RestOK, Owners, ConnRec, SamePlaces

\* A command that moves job j and answers c with a line.
LEMMA AnswerMove ==
    ASSUME IInv, NEW j \in Ids, NEW c \in Conns, NEW cr \in ConnRec,
           q' \in Store, Whole(q'), Near(q', q, j),
           q.job[j].state # "none",
           q.job[j].state = "reserved" => q.job[j].reserver = c,
           q.job[j].state = "invalid" => conn[c].in_job = j /\ cr.in_job = Nil,
           Held(q', c, cr), cr.in_job \in {conn[c].in_job, Nil},
           Answer(q', c, cr, "WORD"), pq' \in BOOLEAN, ServerFrame
    PROVE  IInv'
<1> DEFINE n == reply(q', c, cr, "WORD", "send_word")
<1>1. n \in ConnRec /\ Held(q', c, n) /\ n.in_job = cr.in_job /\ n.state = "send_word"
  BY Replied, Facts DEF RestOK, Replies, ConnStates, SameInput
<1>2. conn' = [conn EXCEPT ![c] = n] /\ task' = Tick
  BY DEF Answer, reply_msg, EndHandler
<1> HIDE DEF n
<1>3. conn' \in [Conns -> ConnRec] /\ conn'[c] = n /\ \A d \in Conns \ {c} : conn'[d] = conn[d]
  BY <1>1, <1>2, Facts
<1>4. conns_broken' \in BOOLEAN
  BY Facts, FlagType DEF Answer, RestOK
<1>5. RestOK' /\ next_id' = next_id
  BY <1>2, <1>4, Facts, TaskTypes DEF RestOK, ServerFrame
<1> QED
  BY <1>1, <1>3, <1>5, MoveStep

\* A command that changes no store and answers c with a line.
LEMMA AnswerStay ==
    ASSUME IInv, NEW c \in Conns, NEW cr \in ConnRec, q' = q,
           Held(q, c, cr), cr.in_job = conn[c].in_job, NEW msg \in Replies,
           Answer(q, c, cr, msg), next_id' = next_id,
           waiting_conns' = waiting_conns, pause' \in [Tubes -> BOOLEAN],
           unpause_at' \in [Tubes -> Nat], drain_mode' = drain_mode,
           clock' = clock, pq' = pq
    PROVE  IInv'
<1> DEFINE n == reply(q, c, cr, msg, "send_word")
<1>1. n \in ConnRec /\ Held(q, c, n) /\ n.in_job = cr.in_job /\ n.state = "send_word"
  <2>1. q \in Store /\ clock \in Nat /\ "send_word" \in ConnStates
    BY Facts DEF RestOK, ConnStates
  <2> QED
    BY <2>1, Replied DEF SameInput
<1>2. conn' = [conn EXCEPT ![c] = n] /\ task' = Tick
  BY DEF Answer, reply_msg, EndHandler
<1> HIDE DEF n
<1>3. conn' \in [Conns -> ConnRec] /\ conn'[c] = n /\ \A d \in Conns \ {c} : conn'[d] = conn[d]
  BY <1>1, <1>2, Facts
<1>4. RestOK'
  <2>1. conns_broken' \in BOOLEAN
    BY Facts, FlagType DEF Answer, RestOK
  <2> QED
    BY <1>2, <2>1, Facts, TaskTypes DEF RestOK
<1>5. q' \in Store /\ SamePlaces(q', q) /\ Held(q', c, n)
  BY <1>1, Facts
<1> QED
  BY <1>1, <1>3, <1>4, <1>5, StayStep

\* A connection record once it has forgotten its soonest job.
LEMMA ForgetsType ==
    ASSUME IInv, NEW c \in Conns
    PROVE  /\ Forgets(c) \in ConnRec /\ Forgets(c).in_job = conn[c].in_job
           /\ \A s : Held(s, c, Forgets(c))
<1>1. conn[c] \in ConnRec
  BY Facts
<1>2. Forgets(c) = [conn[c] EXCEPT !.soonest_job = Nil]
  BY DEF Forgets
<1>3. Forgets(c) \in ConnRec /\ Forgets(c).in_job = conn[c].in_job
      /\ Forgets(c).soonest_job = Nil
  BY <1>1, <1>2 DEF ConnRec
<1> QED
  BY <1>3 DEF Held

\* A reservation of c, when c gives it up.
LEMMA GivenUp ==
    ASSUME IInv, NEW c \in Conns, NEW j \in Ids, is_job_reserved_by_conn(c, j)
    PROVE  LET s == remove_this_reserved_job(q, c, j)
           IN  /\ s \in Store /\ Floating(s, j) /\ Near(s, q, j) /\ ~s.wal_use
               /\ q.job[j].state = "reserved" /\ q.job[j].reserver = c
<1> DEFINE s == remove_this_reserved_job(q, c, j)
<1>1. q \in Store /\ Whole(q) /\ ~q.wal_use
  BY Facts
<1>2. q.job[j].state = "reserved" /\ q.job[j].reserver = c
  BY DEF is_job_reserved_by_conn
<1>3. s \in Store /\ Floating(s, j) /\ Near(s, q, j)
  BY <1>1, <1>2, StoreSteps, ReservedFloats, RemoveNear
<1>4. ~s.wal_use
  BY <1>1, <1>3 DEF Near
<1> QED
  BY <1>2, <1>3, <1>4

\* make_job builds a job record.
LEMMA NewJobType ==
    ASSUME NEW u \in Tubes, NEW p \in Nat, NEW d \in Nat, NEW ttr \in Nat
    PROVE  /\ make_job(p, d, ttr, u) \in JobRec
           /\ make_job(p, d, ttr, u).state = "invalid"
           /\ make_job(p, d, ttr, u).reserver = NoConn
<1>1. FreeJob \in JobRec /\ FreeJob.reserver = NoConn
  BY FreeJobType DEF FreeJob
<1>2. "invalid" \in JobStates
  BY DEF JobStates
<1> QED
  BY <1>1, <1>2 DEF JobRec, make_job

\* put keeps the invariant: the new id is in no container.
LEMMA PutStep ==
    ASSUME IInv, NEW c \in Conns, NEW p \in Pris, NEW d \in Delays,
           NEW ttr \in Ttrs, put(c, p, d, ttr)
    PROVE  IInv'
<1> DEFINE j == next_id
           e == make_job(p, d, ttr, conn[c].use)
           n == [conn[c] EXCEPT !.in_job = j, !.state = "want_data"]
<1>1. j \in Ids /\ q \in Store /\ Whole(q) /\ q.job[j].state = "none"
  BY Facts DEF put, IInv, FreshIds
<1>2. e \in JobRec /\ e.state = "invalid" /\ e.reserver = NoConn
  <2>1. p \in Nat /\ d \in Nat /\ ttr \in Nat /\ conn[c].use \in Tubes
    BY Facts, ConstantsOK
  <2> QED
    BY <2>1, NewJobType
<1>3. Floating(q, j)
  BY <1>1, LooseFloats
<1>4. q' = [q EXCEPT !.job[j] = e]
  BY DEF put
<1> HIDE DEF e
<1>5. q' \in Store /\ Floating(q', j) /\ Near(q', q, j) /\ q'.job[j] = e
  BY <1>1, <1>2, <1>3, <1>4, EditFloats
<1>6. Whole(q')
  <2>1. e.state \notin {"ready", "delayed", "buried", "reserved"}
    BY <1>2
  <2>2. Placed(q', j)
    BY <1>2, <1>5, <2>1 DEF Floating, Absent, Placed
  <2> QED
    BY <1>5, <2>2 DEF Whole, Floating
<1>7. /\ n \in ConnRec /\ n.in_job = j /\ n.soonest_job = conn[c].soonest_job
      /\ conn' = [conn EXCEPT ![c] = n]
  <2>1. conn[c] \in ConnRec /\ "want_data" \in ConnStates
    BY Facts DEF ConnStates
  <2>2. conn' = [conn EXCEPT ![c].in_job = j, ![c].state = "want_data"]
    BY DEF put
  <2> QED
    BY <1>1, <2>1, <2>2, Facts DEF ConnRec
<1> HIDE DEF n
<1>8. conn' \in [Conns -> ConnRec] /\ conn'[c] = n /\ \A b \in Conns \ {c} : conn'[b] = conn[b]
  BY <1>7, Facts
<1>9. Owners(q', conn')
  <2>1. \A b \in Conns : conn[b].in_job # j
    BY <1>1 DEF IInv, Owners, Nil, Ids
  <2>2. \A b \in Conns : Held(q', b, conn'[b])
    <3> SUFFICES ASSUME NEW b \in Conns PROVE Held(q', b, conn'[b])
      OBVIOUS
    <3>1. Held(q, b, conn[b]) /\ conn'[b].soonest_job = conn[b].soonest_job
      BY <1>7, <1>8, Facts
    <3>2. j \notin Range(q.reserved_jobs[b])
      BY <1>3 DEF Floating, Absent
    <3> QED
      BY <3>1, <3>2, <1>5 DEF Held, Near
  <2>3. \A b \in Conns : conn'[b].state = "want_data" => conn'[b].in_job # Nil
    BY <1>1, <1>7, <1>8 DEF IInv, Owners, Nil, Ids
  <2>4. \A b \in Conns : conn'[b].in_job # Nil =>
                            q'.job[conn'[b].in_job].state = "invalid"
    <3> SUFFICES ASSUME NEW b \in Conns, conn'[b].in_job # Nil
                 PROVE  q'.job[conn'[b].in_job].state = "invalid"
      OBVIOUS
    <3>1. CASE b = c
      BY <3>1, <1>2, <1>5, <1>7, <1>8
    <3>2. CASE b # c
      <4>1. conn'[b] = conn[b] /\ conn[b].in_job \in Ids \ {j}
        BY <3>2, <1>8, <2>1, Facts DEF ConnRec
      <4> QED
        BY <4>1, <1>5 DEF IInv, Owners, Near
    <3> QED
      BY <3>1, <3>2
  <2>5. \A a, b \in Conns : conn'[a].in_job = conn'[b].in_job =>
                                a = b \/ conn'[a].in_job = Nil
    BY <2>1, <1>7, <1>8 DEF IInv, Owners
  <2> QED
    BY <2>2, <2>3, <2>4, <2>5 DEF Owners
<1>10. next_id' \in 1..(MaxId + 1) /\ FreshIds(q', next_id')
  <2>1. next_id' = next_id + 1 /\ next_id \in 1..MaxId
    BY <1>1 DEF put, Ids
  <2>2. MaxId \in Nat
    BY ConstantsOK
  <2> QED
    BY <2>1, <2>2, <1>5 DEF IInv, FreshIds, Near, Ids
<1>11. RestOK'
  BY Facts, TaskTypes DEF RestOK, put, EndOrGoOn, EndHandler
<1>12. ~q'.wal_use
  BY <1>5, Facts DEF Near
<1> QED
  BY <1>5, <1>6, <1>8, <1>9, <1>10, <1>11, <1>12 DEF IInv, TypeOK, RestOK

\* enqueue_incoming_job keeps it, with or without trailer and in drain mode.
LEMMA IncomingStep ==
    ASSUME IInv, NEW c \in Conns, enqueue_incoming_job(c)
    PROVE  IInv'
<1> DEFINE j == conn[c].in_job
           cr == [conn[c] EXCEPT !.in_job = Nil]
<1>1. /\ j \in Ids /\ q.job[j].state = "invalid" /\ q \in Store /\ Whole(q)
      /\ ~q.wal_use /\ clock \in Nat /\ pq \in BOOLEAN
  BY Facts DEF enqueue_incoming_job, IInv, Owners, ConnRec, RestOK
<1>2. Floating(q, j) /\ q.job[j].delay \in Nat
  BY <1>1, LooseFloats, JobOf DEF JobRec
<1>3. /\ cr \in ConnRec /\ cr.in_job = Nil
      /\ cr.soonest_job = conn[c].soonest_job
  BY Facts DEF ConnRec
<1>4. q' \in Store /\ Whole(q') /\ Near(q', q, j) /\ pq' \in BOOLEAN
  <2>1. CASE q' = job_free(q, j) /\ pq' = pq
    BY <2>1, <1>1, <1>2, StoreSteps, FreeWhole
  <2>2. CASE \E r \in Refused(q) \cup EnqueueOrBury(q, j, q.job[j].delay, TRUE) :
                q' = r.q /\ pq' = r.pq
    <3>1. Refused(q) = {}
      BY <1>1 DEF Refused
    <3>2. PICK r \in EnqueueOrBury(q, j, q.job[j].delay, TRUE) :
                q' = r.q /\ pq' = r.pq
      BY <2>2, <3>1
    <3> QED
      BY <3>2, <1>1, <1>2, EnqueueOrBuryGood
  <2> QED
    BY <2>1, <2>2 DEF enqueue_incoming_job
<1>5. Held(q', c, cr)
  <2>1. Held(q, c, conn[c]) /\ j \notin Range(q.reserved_jobs[c])
    BY <1>2, Facts DEF Floating, Absent
  <2> QED
    BY <2>1, <1>3, <1>4 DEF Held, Near
<1>6. Answer(q', c, cr, "WORD") /\ ServerFrame
  BY DEF enqueue_incoming_job
<1> HIDE DEF cr
<1> QED
  BY <1>1, <1>3, <1>4, <1>5, <1>6, AnswerMove

\* Held is about soonest_job only, and survives a change of another job.
LEMMA HeldNear ==
    ASSUME NEW s, NEW r, NEW j, NEW c \in Conns, NEW cr, Held(s, c, cr),
           Near(r, s, j), j \notin Range(s.reserved_jobs[c])
    PROVE  Held(r, c, cr)
BY DEF Held, Near

\* A job that is not reserved is on no list of reserved jobs.
LEMMA NotReserved ==
    ASSUME NEW s, Whole(s), NEW j \in Ids, s.job[j].state # "reserved"
    PROVE  \A c \in Conns : j \notin Range(s.reserved_jobs[c])
BY DEF Whole, Placed

\* The connection's record after conn_reserve_job, when it holds j.
LEMMA GrantedType ==
    ASSUME NEW s \in Store, NEW c \in Conns, NEW cr \in ConnRec, NEW j \in Ids,
           Held(s, c, cr), j \in Range(s.reserved_jobs[c])
    PROVE  /\ Granted(s, cr, j) \in ConnRec
           /\ Held(s, c, Granted(s, cr, j))
           /\ Granted(s, cr, j).in_job = cr.in_job
<1> DEFINE k == IF cr.soonest_job = Nil
                   \/ s.job[j].deadline_at < s.job[cr.soonest_job].deadline_at
                THEN j ELSE cr.soonest_job
<1>1. k \in Ids \cup {Nil} /\ (k # Nil => k \in Range(s.reserved_jobs[c]))
  BY DEF Held, ConnRec
<1>2. Granted(s, cr, j) = [cr EXCEPT !.pending_timeout = -1, !.soonest_job = k]
  BY DEF Granted, ConnRec
<1> HIDE DEF k
<1>3. PICK n \in Int : n = -1
  OBVIOUS
<1>5. Granted(s, cr, j) = [cr EXCEPT !.pending_timeout = n, !.soonest_job = k]
  BY <1>2, <1>3
<1>6. /\ Granted(s, cr, j) \in ConnRec /\ Granted(s, cr, j).soonest_job = k
      /\ Granted(s, cr, j).in_job = cr.in_job
  BY <1>1, <1>5 DEF ConnRec
<1> QED
  BY <1>1, <1>6 DEF Held

\* A reply that carries job j.
LEMMA RepliedJob ==
    ASSUME NEW s \in Store, NEW c \in Conns, NEW cr \in ConnRec,
           Held(s, c, cr), clock \in Nat, NEW j \in Ids \cup {Nil, Copy},
           NEW msg \in Replies
    PROVE  /\ reply_job(s, c, cr, j, msg) \in ConnRec
           /\ Held(s, c, reply_job(s, c, cr, j, msg))
           /\ reply_job(s, c, cr, j, msg).in_job = cr.in_job
           /\ reply_job(s, c, cr, j, msg).state = "send_job"
<1> DEFINE o == [cr EXCEPT !.out_job = j]
<1>1. o \in ConnRec /\ Held(s, c, o) /\ o.in_job = cr.in_job
  BY DEF ConnRec, Held
<1>2. "send_job" \in ConnStates
  BY DEF ConnStates
<1>3. reply_job(s, c, cr, j, msg) = reply(s, c, o, msg, "send_job")
  BY DEF reply_job
<1> HIDE DEF o
<1>4. /\ reply(s, c, o, msg, "send_job") \in ConnRec
      /\ Held(s, c, reply(s, c, o, msg, "send_job"))
      /\ reply(s, c, o, msg, "send_job").in_job = o.in_job
      /\ reply(s, c, o, msg, "send_job").state = "send_job"
  BY <1>1, <1>2, Replied DEF SameInput
<1> QED
  BY <1>1, <1>3, <1>4

\* reserve-job keeps it.
LEMMA ReserveJobStep ==
    ASSUME IInv, NEW c \in Conns, NEW j \in Ids, reserve_job(c, j)
    PROVE  IInv'
<1> DEFINE x == Unqueue(q, j)
           g == Granted(q', conn[c], j)
           n == reply_job(q', c, g, j, "RESERVED")
<1>1. /\ q \in Store /\ Whole(q) /\ clock \in Nat
      /\ q.job[j].state \in {"ready", "buried", "delayed"}
      /\ conn[c] \in ConnRec /\ Held(q, c, conn[c])
  BY Facts DEF reserve_job, RestOK
<1>2. x \in Store /\ Floating(x, j) /\ Near(x, q, j)
  BY <1>1, StoreSteps, UnqueueFloats, RemoveNear
<1>3. q' = ReserveFor(x, c, j)
  BY DEF reserve_job
<1> HIDE DEF x
<1>4. /\ q' \in Store /\ Whole(q') /\ Near(q', q, j)
      /\ j \in Range(q'.reserved_jobs[c])
  BY <1>1, <1>2, <1>3, ReserveForType, ReserveWhole, NearTrans
<1>5. Held(q', c, conn[c])
  BY <1>1, <1>4, HeldNear, NotReserved
<1>6. g \in ConnRec /\ Held(q', c, g) /\ g.in_job = conn[c].in_job
  BY <1>1, <1>4, <1>5, GrantedType
<1> HIDE DEF g
<1>7. n \in ConnRec /\ Held(q', c, n) /\ n.in_job = conn[c].in_job
      /\ n.state = "send_job"
  BY <1>1, <1>4, <1>6, RepliedJob DEF Replies
<1>8. conn' = [conn EXCEPT ![c] = n] /\ task' = Tick
  BY DEF reserve_job, EndHandler, g
<1> HIDE DEF n
<1>9. conn' \in [Conns -> ConnRec] /\ conn'[c] = n /\ \A d \in Conns \ {c} : conn'[d] = conn[d]
  BY <1>7, <1>8, Facts
<1>10. RestOK' /\ next_id' = next_id
  <2>1. conns_broken' \in BOOLEAN
    BY Facts, FlagType DEF reserve_job, RestOK
  <2> QED
    BY <1>8, <2>1, Facts, TaskTypes DEF RestOK, ServerFrame, reserve_job
<1> QED
  BY <1>1, <1>4, <1>7, <1>9, <1>10, MoveStep

\* delete keeps it, for a reserved and for a queued job.
LEMMA DeleteStep ==
    ASSUME IInv, NEW c \in Conns, NEW j \in Ids, delete(c, j)
    PROVE  IInv'
<1>1. q \in Store /\ Whole(q) /\ ~q.wal_use /\ ServerFrame /\ pq' \in BOOLEAN
  BY Facts DEF delete, RestOK
<1>2. CASE is_job_reserved_by_conn(c, j) /\ Answer(q', c, Forgets(c), "WORD")
           /\ \E s \in {remove_this_reserved_job(q, c, j)} :
                \E w \in {s} \cup WalFailed(s) : q' = job_free(w, j)
  <2> DEFINE s == remove_this_reserved_job(q, c, j)
  <2>1. /\ s \in Store /\ Floating(s, j) /\ Near(s, q, j) /\ ~s.wal_use
        /\ q.job[j].state = "reserved" /\ q.job[j].reserver = c
    BY <1>2, GivenUp
  <2>2. q' = job_free(s, j)
    BY <1>2, <2>1 DEF WalFailed
  <2> HIDE DEF s
  <2>3. q' \in Store /\ Whole(q') /\ Near(q', q, j)
    BY <2>1, <2>2, StoreSteps, FreeWhole, NearTrans
  <2> QED
    BY <1>1, <1>2, <2>1, <2>3, ForgetsType, AnswerMove
<1>3. CASE q.job[j].state \in {"ready", "buried", "delayed"}
           /\ Answer(q', c, conn[c], "WORD")
           /\ \E s \in {Unqueue(q, j)} :
                \E w \in {s} \cup WalFailed(s) : q' = job_free(w, j)
  <2> DEFINE s == Unqueue(q, j)
  <2>1. s \in Store /\ Floating(s, j) /\ Near(s, q, j)
    BY <1>1, <1>3, StoreSteps, UnqueueFloats, RemoveNear
  <2>2. q' = job_free(s, j)
    BY <1>1, <1>3, <2>1 DEF WalFailed, Near
  <2> HIDE DEF s
  <2>3. q' \in Store /\ Whole(q') /\ Near(q', q, j)
    BY <2>1, <2>2, StoreSteps, FreeWhole, NearTrans
  <2>4. conn[c] \in ConnRec /\ Held(q', c, conn[c])
    BY <1>1, <1>3, <2>3, Facts, HeldNear, NotReserved
  <2> QED
    BY <1>1, <1>3, <2>3, <2>4, AnswerMove
<1> QED
  BY <1>2, <1>3 DEF delete

\* release keeps it.
LEMMA ReleaseStep ==
    ASSUME IInv, NEW c \in Conns, NEW j \in Ids, NEW p \in Pris, NEW d \in Delays,
           release(c, j, p, d)
    PROVE  IInv'
<1> DEFINE s == remove_this_reserved_job(q, c, j)
           e == [s.job[j] EXCEPT !.pri = p, !.delay = d]
           x == [s EXCEPT !.job[j] = e]
<1>1. /\ s \in Store /\ Floating(s, j) /\ Near(s, q, j) /\ ~s.wal_use
      /\ q.job[j].state = "reserved" /\ q.job[j].reserver = c
  BY GivenUp DEF release
<1>2. p \in Nat /\ d \in Nat /\ clock \in Nat
  BY ConstantsOK, Facts DEF RestOK
<1>3. e \in JobRec /\ e.reserver = NoConn
  BY <1>1, <1>2, JobOf DEF JobRec, Floating
<1>4. PICK r \in EnqueueOrBury(x, j, d, d > 0) : q' = r.q /\ pq' = r.pq
  BY <1>1 DEF release, Refused
<1> HIDE DEF s, e
<1>5. x \in Store /\ Floating(x, j) /\ Near(x, s, j)
  BY <1>1, <1>3, EditFloats
<1>6. ~x.wal_use
  BY <1>1, <1>5 DEF Near
<1> HIDE DEF x
<1>7. q' \in Store /\ Whole(q') /\ Near(q', x, j) /\ pq' \in BOOLEAN
  BY <1>2, <1>4, <1>5, <1>6, EnqueueOrBuryGood
<1>8. Near(q', q, j)
  BY <1>1, <1>5, <1>7, NearTrans
<1>9. Answer(q', c, Forgets(c), "WORD") /\ ServerFrame
  BY DEF release
<1> QED
  BY <1>1, <1>7, <1>8, <1>9, ForgetsType, AnswerMove

\* bury keeps it.
LEMMA BuryStep ==
    ASSUME IInv, NEW c \in Conns, NEW j \in Ids, NEW p \in Pris, bury(c, j, p)
    PROVE  IInv'
<1> DEFINE s == remove_this_reserved_job(q, c, j)
           e == [s.job[j] EXCEPT !.pri = p]
           x == [s EXCEPT !.job[j] = e]
<1>1. /\ s \in Store /\ Floating(s, j) /\ Near(s, q, j) /\ ~s.wal_use
      /\ q.job[j].state = "reserved" /\ q.job[j].reserver = c
  BY GivenUp DEF bury
<1>2. p \in Nat
  BY ConstantsOK
<1>3. e \in JobRec /\ e.reserver = NoConn
  BY <1>1, <1>2, JobOf DEF JobRec, Floating
<1>4. \/ q' \in {bury_job(x, j)} \cup WalFailed(bury_job(x, j))
      \/ \E r \in Refused(x) : q' = r.q
  BY DEF bury
<1> HIDE DEF s, e
<1>5. x \in Store /\ Floating(x, j) /\ Near(x, s, j)
  BY <1>1, <1>3, EditFloats
<1> HIDE DEF x
<1>6. bury_job(x, j) \in Store /\ Whole(bury_job(x, j)) /\ Near(bury_job(x, j), x, j)
  BY <1>5, StoreSteps, BuryWhole
<1>7. q' = bury_job(x, j)
  BY <1>1, <1>4, <1>5, <1>6 DEF Near, WalFailed, Refused
<1>8. q' \in Store /\ Whole(q') /\ Near(q', q, j)
  BY <1>1, <1>5, <1>6, <1>7, NearTrans
<1>9. Answer(q', c, Forgets(c), "WORD") /\ ServerFrame /\ pq' \in BOOLEAN
  BY Facts DEF bury, RestOK
<1> QED
  BY <1>1, <1>8, <1>9, ForgetsType, AnswerMove

\* touch keeps it.
LEMMA TouchStep ==
    ASSUME IInv, NEW c \in Conns, NEW j \in Ids, touch(c, j)
    PROVE  IInv'
<1> DEFINE v == clock + q.job[j].ttr
           e == [q.job[j] EXCEPT !.deadline_at = v]
<1>1. /\ q \in Store /\ Whole(q) /\ clock \in Nat /\ q.job[j] \in JobRec
      /\ q.job[j].state = "reserved" /\ q.job[j].reserver = c
  BY Facts, JobOf DEF RestOK, touch, is_job_reserved_by_conn
<1>2. v \in Nat
  BY <1>1 DEF JobRec
<1>3. /\ e \in JobRec /\ e.state = "reserved" /\ e.reserver = c
      /\ e.tube = q.job[j].tube
  BY <1>1, <1>2 DEF JobRec
<1>4. q' = [q EXCEPT !.job[j] = e]
  BY DEF touch
<1> HIDE DEF e
<1>5. /\ q' \in Store
      /\ q'.ready = q.ready /\ q'.delay = q.delay /\ q'.buried = q.buried
      /\ q'.reserved_jobs = q.reserved_jobs /\ q'.wal_use = q.wal_use
      /\ q'.job[j] = e /\ \A k \in Ids \ {j} : q'.job[k] = q.job[k]
  BY <1>1, <1>3, <1>4 DEF Store
<1>6. Whole(q') /\ Near(q', q, j)
  BY <1>1, <1>3, <1>5 DEF Whole, Placed, NoDuplicates, Near
<1>7. Answer(q', c, Forgets(c), "WORD") /\ ServerFrame /\ pq' \in BOOLEAN
  BY Facts DEF touch, RestOK
<1> QED
  BY <1>1, <1>5, <1>6, <1>7, ForgetsType, AnswerMove

\* kick-job keeps it.
LEMMA KickJobStep ==
    ASSUME IInv, NEW c \in Conns, NEW j \in Ids, kick_job(c, j)
    PROVE  IInv'
<1>1. /\ q \in Store /\ Whole(q) /\ ~q.wal_use /\ clock \in Nat
      /\ conn[c] \in ConnRec /\ Held(q, c, conn[c])
  BY Facts DEF RestOK
<1>2. PICK r : /\ \/ q.job[j].state = "buried" /\ r \in kick_buried_job(q, j)
                  \/ q.job[j].state = "delayed" /\ r \in kick_delayed_job(q, j)
               /\ q' = r.q /\ pq' = r.pq
  BY DEF kick_job
<1>3. q' \in Store /\ Whole(q') /\ Near(q', q, j) /\ pq' \in BOOLEAN
  BY <1>1, <1>2, KickGood
<1>4. q.job[j].state \in {"buried", "delayed"}
  BY <1>2
<1>5. Held(q', c, conn[c])
  BY <1>1, <1>3, <1>4, HeldNear, NotReserved
<1>6. Answer(q', c, conn[c], "WORD") /\ ServerFrame
  BY DEF kick_job
<1> QED
  BY <1>1, <1>3, <1>4, <1>5, <1>6, AnswerMove

\* A step of the server that moves a queued job for no connection.
LEMMA ServerMove ==
    ASSUME IInv, NEW j \in Ids, q' \in Store, Whole(q'), Near(q', q, j),
           q.job[j].state \in {"ready", "buried", "delayed"},
           pq' \in BOOLEAN, conn' = conn, task' \in Task, TaskServes(task'),
           ServerFrame, conns_broken' = conns_broken
    PROVE  IInv'
<1>1. RestOK' /\ next_id' = next_id
  BY Facts DEF RestOK, ServerFrame
<1>2. NoConn \notin Conns
  BY ConstantsOK
<1>3. conn' \in [Conns -> ConnRec] /\ \A d \in Conns \ {NoConn} : conn'[d] = conn[d]
  BY Facts
<1> QED
  BY <1>1, <1>2, <1>3, MoveStep

\* The iterations and the end of kick_jobs keep it.
LEMMA KickLoopSteps ==
    ASSUME IInv, kick_jobs \/ kick_end
    PROVE  IInv'
<1>1. /\ q \in Store /\ Whole(q) /\ ~q.wal_use /\ clock \in Nat
      /\ task.conn \in Conns /\ conn[task.conn].use \in Tubes
      /\ task \in Task
  BY Facts DEF RestOK, IInv, TaskServes, kick_jobs, kick_end, Kicking
<1>2. CASE kick_jobs
  <2> DEFINE t == conn[task.conn].use
  <2>1. PICK j \in Kickable(t) :
            \E r \in IF task.buried THEN kick_buried_job(q, j)
                                    ELSE kick_delayed_job(q, j) :
                q' = r.q /\ pq' = r.pq
    BY <1>2 DEF kick_jobs
  <2>2. PICK r \in IF task.buried THEN kick_buried_job(q, j)
                                  ELSE kick_delayed_job(q, j) :
                q' = r.q /\ pq' = r.pq
    BY <2>1
  <2>3. /\ j \in Ids
        /\ IF task.buried THEN q.job[j].state = "buried" ELSE q.job[j].state = "delayed"
    <3>1. CASE task.buried
      <4>1. j = q.buried[t][1] /\ 1 \in DOMAIN q.buried[t]
        BY <3>1 DEF Kickable
      <4>2. j \in Range(q.buried[t]) /\ q.buried[t] \in Seq(Ids)
        BY <1>1, <4>1 DEF Range, Store
      <4>3. j \in Ids
        BY <4>2, RangeInIds
      <4> QED
        BY <1>1, <3>1, <4>2, <4>3 DEF Whole, Placed
    <3>2. CASE ~task.buried
      <4>1. j \in q.delay[t] /\ j \in Ids
        BY <1>1, <3>2 DEF Kickable, Store
      <4> QED
        BY <1>1, <3>2, <4>1 DEF Whole, Placed
    <3> QED
      BY <3>1, <3>2
  <2>4. q' \in Store /\ Whole(q') /\ Near(q', q, j) /\ pq' \in BOOLEAN
    BY <1>1, <2>2, <2>3, KickGood
  <2>5. task' \in Task /\ TaskServes(task')
    <3> DEFINE n == task.left - 1
    <3>1. task' = [task EXCEPT !.left = n] /\ n \in Nat
      BY <1>1, <1>2 DEF kick_jobs, Task
    <3> HIDE DEF n
    <3> QED
      BY <1>1, <3>1 DEF Task, TaskServes
  <2>6. conn' = conn /\ ServerFrame /\ conns_broken' = conns_broken
    BY <1>2 DEF kick_jobs
  <2> QED
    BY <2>3, <2>4, <2>5, <2>6, ServerMove
<1>3. CASE kick_end
  <2>1. /\ Answer(q, task.conn, conn[task.conn], "WORD") /\ q' = q /\ pq' = pq
        /\ ServerFrame
    BY <1>3 DEF kick_end
  <2>2. /\ pause' \in [Tubes -> BOOLEAN] /\ unpause_at' \in [Tubes -> Nat]
        /\ next_id' = next_id /\ waiting_conns' = waiting_conns
        /\ drain_mode' = drain_mode /\ clock' = clock
        /\ conn[task.conn] \in ConnRec /\ Held(q, task.conn, conn[task.conn])
        /\ "WORD" \in Replies
    BY <1>1, <2>1, Facts DEF ServerFrame, RestOK, Replies
  <2> QED
    BY <1>1, <2>1, <2>2, AnswerStay
<1> QED
  BY <1>2, <1>3

\* The start of kick keeps it.
LEMMA KickStep ==
    ASSUME IInv, NEW c \in Conns, NEW n \in KickBounds, kick(c, n)
    PROVE  IInv'
<1> DEFINE b == q.buried[conn[c].use] # <<>>
<1>1. n \in Nat /\ b \in BOOLEAN
  BY ConstantsOK
<1>2. task' = [Socknext EXCEPT !.op = "kick", !.conn = c, !.left = n, !.buried = b]
  BY DEF kick
<1> HIDE DEF b
<1>3. task' \in Task /\ TaskServes(task')
  BY <1>1, <1>2 DEF Socknext, Task, TaskOps, TaskServes
<1>4. RestOK' /\ next_id' = next_id /\ q' = q /\ conn' = conn
  BY <1>3, Facts DEF RestOK, kick, ServerFrame
<1>5. NoConn \notin Conns
  BY ConstantsOK
<1>6. /\ q' \in Store /\ SamePlaces(q', q) /\ conn' \in [Conns -> ConnRec]
      /\ \A d \in Conns \ {NoConn} : conn'[d] = conn[d]
  BY <1>4, Facts
<1> QED
  BY <1>4, <1>5, <1>6, StayStep

\* reserve and reserve-with-timeout keep it.
LEMMA ReserveStep ==
    ASSUME IInv, NEW c \in Conns, NEW timeout \in Timeouts \cup {-1},
           reserve(c, timeout)
    PROVE  IInv'
<1>1. /\ q \in Store /\ conn[c] \in ConnRec /\ Held(q, c, conn[c]) /\ clock \in Nat
      /\ timeout \in Int
  BY Facts, ConstantsOK DEF RestOK
<1>2. CASE Answer(q, c, conn[c], "DEADLINE_SOON") /\ q' = q
           /\ waiting_conns' = waiting_conns /\ pq' = pq
  <2>1. /\ pause' \in [Tubes -> BOOLEAN] /\ unpause_at' \in [Tubes -> Nat]
        /\ next_id' = next_id /\ drain_mode' = drain_mode /\ clock' = clock
        /\ "DEADLINE_SOON" \in Replies
    BY Facts DEF reserve, RestOK, Replies
  <2> QED
    BY <1>1, <1>2, <2>1, AnswerStay
<1>3. CASE wait_for_job(c, timeout) /\ pq' = TRUE /\ EndHandler
  <2> DEFINE w == IF timeout < 0 THEN 0 ELSE clock + timeout
             cr == [conn[c] EXCEPT !.state = "wait", !.waiting = TRUE,
                                   !.pending_timeout = timeout, !.until = w]
             n == connsched(q, c, cr)
  <2>0. w \in Nat
    BY <1>1
  <2>1. /\ cr \in ConnRec /\ Held(q, c, cr) /\ cr.in_job = conn[c].in_job
        /\ cr.state = "wait" /\ cr.watch \in SUBSET Tubes
    <3> HIDE DEF w
    <3> QED
      BY <1>1, <2>0 DEF ConnRec, ConnStates, Held
  <2>2. /\ q' = CountWaiting(q, cr.watch, 1) /\ conn' = [conn EXCEPT ![c] = n]
        /\ waiting_conns' = Enlisted(waiting_conns, c, cr.watch)
    BY <1>3 DEF wait_for_job
  <2> HIDE DEF cr, w
  <2>3. n \in ConnRec /\ Held(q, c, n) /\ n.in_job = cr.in_job /\ n.state = "wait"
    <3>1. n.state = cr.state
      BY <2>1 DEF connsched, ConnRec
    <3> QED
      BY <1>1, <2>1, <3>1, ConnSched DEF SameInput
  <2> HIDE DEF n
  <2>4. conn' \in [Conns -> ConnRec] /\ conn'[c] = n /\ \A d \in Conns \ {c} : conn'[d] = conn[d]
    BY <2>2, <2>3, Facts
  <2>5. q' \in Store /\ SamePlaces(q', q)
    BY <1>1, <2>1, <2>2, CountWaitingType, CountWaitingPlaces
  <2>6. Held(q', c, n)
    BY <2>3, <2>5 DEF Held, SamePlaces
  <2>7. RestOK' /\ next_id' = next_id
    <3>1. waiting_conns' \in [Tubes -> SUBSET Conns]
      BY <2>2, Facts DEF Enlisted, RestOK
    <3>2. conns_broken' \in BOOLEAN
      BY <1>3, Facts, FlagType DEF wait_for_job, RestOK
    <3> QED
      BY <1>3, <3>1, <3>2, Facts, TaskTypes DEF RestOK, reserve, EndHandler
  <2> QED
    BY <2>1, <2>3, <2>4, <2>5, <2>6, <2>7, StayStep
<1> QED
  BY <1>2, <1>3 DEF reserve

\* The hand-over of a ready job to a waiting connection keeps it.
LEMMA HandOverStep ==
    ASSUME IInv, NEW j \in Ids, NEW c \in Conns, q.job[j].state = "ready",
           HandOver(j, c), pause' \in [Tubes -> BOOLEAN], pq' = pq,
           unpause_at' = unpause_at, next_id' = next_id,
           drain_mode' = drain_mode, clock' = clock, task' = task
    PROVE  IInv'
<1> DEFINE x == remove_ready_job(q, j)
           y == CountWaiting(x, conn[c].watch, -1)
           s == ReserveFor(y, c, j)
           cr == [conn[c] EXCEPT !.waiting = FALSE, !.until = 0]
           g == Granted(s, cr, j)
           n == reply_job(s, c, g, j, "RESERVED")
<1>1. /\ q \in Store /\ Whole(q) /\ clock \in Nat /\ conn[c] \in ConnRec
      /\ Held(q, c, conn[c]) /\ conn[c].watch \in SUBSET Tubes
  BY Facts DEF RestOK
<1>2. x \in Store /\ Floating(x, j) /\ Near(x, q, j)
  <2>1. x = Unqueue(q, j)
    BY DEF Unqueue
  <2> QED
    BY <1>1, <2>1, StoreSteps, ReadyFloats, RemoveNear
<1> HIDE DEF x
<1>3. y \in Store /\ SamePlaces(y, x)
  BY <1>1, <1>2, CountWaitingType, CountWaitingPlaces
<1>4. Floating(y, j) /\ Near(y, q, j)
  BY <1>2, <1>3, SamePlacesKeep DEF Near, SamePlaces
<1>5. q' = s /\ conn' = [conn EXCEPT ![c] = n]
      /\ waiting_conns' = Delisted(waiting_conns, c, conn[c].watch)
  BY DEF HandOver, x
<1> HIDE DEF y
<1>6. s \in Store /\ Whole(s) /\ Near(s, q, j) /\ j \in Range(s.reserved_jobs[c])
  BY <1>1, <1>3, <1>4, ReserveForType, ReserveWhole, NearTrans
<1> HIDE DEF s
<1>7. cr \in ConnRec /\ cr.in_job = conn[c].in_job /\ cr.soonest_job = conn[c].soonest_job
  BY <1>1 DEF ConnRec
<1>8. Held(s, c, cr)
  <2>1. Held(s, c, conn[c])
    BY <1>1, <1>6, HeldNear, NotReserved
  <2> QED
    BY <2>1, <1>7 DEF Held
<1> HIDE DEF cr
<1>9. g \in ConnRec /\ Held(s, c, g) /\ g.in_job = conn[c].in_job
  BY <1>6, <1>7, <1>8, GrantedType
<1> HIDE DEF g
<1>10. n \in ConnRec /\ Held(s, c, n) /\ n.in_job = conn[c].in_job /\ n.state = "send_job"
  BY <1>1, <1>6, <1>9, RepliedJob DEF Replies
<1> HIDE DEF n
<1>11. conn' \in [Conns -> ConnRec] /\ conn'[c] = n /\ \A d \in Conns \ {c} : conn'[d] = conn[d]
  BY <1>5, <1>10, Facts
<1>12. RestOK'
  <2>1. waiting_conns' \in [Tubes -> SUBSET Conns]
    BY <1>5, Facts DEF Delisted, RestOK
  <2>2. conns_broken' \in BOOLEAN
    BY Facts, FlagType DEF HandOver, RestOK
  <2> QED
    BY <2>1, <2>2, Facts DEF RestOK
<1> QED
  BY <1>5, <1>6, <1>10, <1>11, <1>12, MoveStep

\* A step that leaves the store and the connections alone.
LEMMA IdleStep ==
    ASSUME IInv, q' = q, conn' = conn, next_id' = next_id, RestOK'
    PROVE  IInv'
<1>1. NoConn \notin Conns
  BY ConstantsOK
<1>2. /\ q' \in Store /\ SamePlaces(q', q) /\ conn' \in [Conns -> ConnRec]
      /\ \A d \in Conns \ {NoConn} : conn'[d] = conn[d]
  BY Facts
<1> QED
  BY <1>1, <1>2, StayStep

\* An iteration of process_queue keeps it.
LEMMA ProcessQueueStep ==
    ASSUME IInv, process_queue
    PROVE  IInv'
<1>1. pause' \in [Tubes -> BOOLEAN]
  BY DEF process_queue
<1>2. /\ unpause_at' = unpause_at /\ next_id' = next_id /\ drain_mode' = drain_mode
      /\ clock' = clock /\ task' = task
  BY DEF process_queue
<1>3. CASE pq' \in BOOLEAN /\ q' = q /\ conn' = conn /\ waiting_conns' = waiting_conns
           /\ conns_broken' = conns_broken
  <2>1. RestOK'
    BY <1>1, <1>2, <1>3, Facts DEF RestOK
  <2> QED
    BY <1>2, <1>3, <2>1, IdleStep
<1>4. ASSUME NEW j \in Awaited, NEW c \in waiting_conns[q.job[j].tube],
             q.job[j].state = "ready", HandOver(j, c), pq' = pq
      PROVE  IInv'
  <2>1. q \in Store /\ waiting_conns \in [Tubes -> SUBSET Conns]
    BY Facts DEF RestOK
  <2>2. j \in Ids
    BY <1>4, <2>1 DEF Awaited, Store
  <2>3. c \in Conns
    BY <2>1, <2>2, JobOf
  <2> QED
    BY <1>1, <1>2, <1>4, <2>2, <2>3, HandOverStep
<1>5. pq \in BOOLEAN
  BY Facts DEF RestOK
<1> QED
  BY <1>3, <1>4, <1>5 DEF process_queue

\* use, watch, ignore and pause-tube keep it.
LEMMA TubeSteps ==
    ASSUME IInv, NEW c \in Conns, NEW t \in Tubes,
           \/ use(c, t) \/ watch(c, t) \/ ignore(c, t)
           \/ \E d \in Delays : pause_tube(c, t, d)
    PROVE  IInv'
<1>1. /\ q \in Store /\ conn[c] \in ConnRec /\ Held(q, c, conn[c]) /\ clock \in Nat
      /\ pause \in [Tubes -> BOOLEAN] /\ unpause_at \in [Tubes -> Nat]
      /\ "WORD" \in Replies
  BY Facts DEF RestOK, Replies
<1>2. /\ q' = q /\ waiting_conns' = waiting_conns /\ next_id' = next_id
      /\ drain_mode' = drain_mode /\ clock' = clock /\ pq' = pq
  BY DEF use, watch, ignore, pause_tube, JobFrame
<1>3. ASSUME NEW u \in Tubes, NEW w \in SUBSET Tubes
      PROVE  /\ [conn[c] EXCEPT !.use = u] \in ConnRec
             /\ [conn[c] EXCEPT !.watch = w] \in ConnRec
             /\ Held(q, c, [conn[c] EXCEPT !.use = u])
             /\ Held(q, c, [conn[c] EXCEPT !.watch = w])
             /\ [conn[c] EXCEPT !.use = u].in_job = conn[c].in_job
             /\ [conn[c] EXCEPT !.watch = w].in_job = conn[c].in_job
  BY <1>1 DEF ConnRec, Held
<1>4. CASE use(c, t)
  <2>1. Answer(q, c, [conn[c] EXCEPT !.use = t], "WORD")
        /\ pause' = pause /\ unpause_at' = unpause_at
    BY <1>4 DEF use
  <2> QED
    BY <1>1, <1>2, <1>3, <2>1, AnswerStay
<1>5. CASE watch(c, t) \/ ignore(c, t)
  <2>1. PICK w \in SUBSET Tubes : Answer(q, c, [conn[c] EXCEPT !.watch = w], "WORD")
    <3>1. /\ conn[c].watch \cup {t} \in SUBSET Tubes
          /\ conn[c].watch \ {t} \in SUBSET Tubes
      BY <1>1 DEF ConnRec
    <3> QED
      BY <1>5, <3>1 DEF watch, ignore
  <2>2. pause' = pause /\ unpause_at' = unpause_at
    BY <1>5 DEF watch, ignore
  <2> QED
    BY <1>1, <1>2, <1>3, <2>1, <2>2, AnswerStay
<1>6. ASSUME NEW d \in Delays, pause_tube(c, t, d) PROVE IInv'
  <2>1. Answer(q, c, conn[c], "WORD")
    BY <1>6 DEF pause_tube
  <2>2. clock + (IF d = 0 THEN 1 ELSE d) \in Nat
    BY <1>1, ConstantsOK
  <2>3. pause' \in [Tubes -> BOOLEAN] /\ unpause_at' \in [Tubes -> Nat]
    BY <1>1, <1>6, <2>2 DEF pause_tube
  <2> QED
    BY <1>1, <1>2, <2>1, <2>3, AnswerStay
<1> QED
  BY <1>4, <1>5, <1>6

\* The commands that only look, or are refused, keep it.
LEMMA LookSteps ==
    ASSUME IInv, NEW c \in Conns, refuse(c) \/ inspect(c)
    PROVE  IInv'
<1>1. /\ q \in Store /\ conn[c] \in ConnRec /\ Held(q, c, conn[c]) /\ clock \in Nat
      /\ pause \in [Tubes -> BOOLEAN] /\ unpause_at \in [Tubes -> Nat]
      /\ "WORD" \in Replies
  BY Facts DEF RestOK, Replies
<1>2. /\ q' = q /\ waiting_conns' = waiting_conns /\ next_id' = next_id
      /\ drain_mode' = drain_mode /\ clock' = clock /\ pq' = pq
      /\ pause' = pause /\ unpause_at' = unpause_at
  BY DEF refuse, inspect, JobFrame
<1>3. CASE refuse(c)
  <2>1. Answer(q, c, conn[c], "WORD")
    BY <1>3 DEF refuse
  <2> QED
    BY <1>1, <1>2, <2>1, AnswerStay
<1>4. CASE inspect(c)
  <2> DEFINE n == reply_job(q, c, conn[c], Copy, "WORD")
  <2>1. n \in ConnRec /\ Held(q, c, n) /\ n.in_job = conn[c].in_job /\ n.state = "send_job"
    BY <1>1, RepliedJob
  <2>2. conn' = [conn EXCEPT ![c] = n] /\ task' = Tick
    BY <1>4 DEF inspect, EndHandler
  <2> HIDE DEF n
  <2>3. conn' \in [Conns -> ConnRec] /\ conn'[c] = n /\ \A d \in Conns \ {c} : conn'[d] = conn[d]
    BY <2>1, <2>2, Facts
  <2>4. RestOK' /\ q' \in Store /\ SamePlaces(q', q) /\ Held(q', c, n)
    <3>1. conns_broken' \in BOOLEAN
      BY <1>4, Facts, FlagType DEF inspect, RestOK
    <3> QED
      BY <1>2, <2>1, <2>2, <3>1, Facts, TaskTypes DEF RestOK
  <2> QED
    BY <1>2, <2>1, <2>3, <2>4, StayStep
<1> QED
  BY <1>3, <1>4

\* A step that changes the record of c only, to n.
LEMMA ConnStep ==
    ASSUME IInv, NEW c \in Conns, NEW n \in ConnRec, q' = q,
           conn' = [conn EXCEPT ![c] = n], Held(q, c, n),
           n.in_job \in {conn[c].in_job, Nil}, n.state # "want_data",
           next_id' = next_id, RestOK'
    PROVE  IInv'
<1>1. conn' \in [Conns -> ConnRec] /\ conn'[c] = n /\ \A d \in Conns \ {c} : conn'[d] = conn[d]
  BY Facts
<1>2. q' \in Store /\ SamePlaces(q', q) /\ Held(q', c, n)
  BY Facts
<1> QED
  BY <1>1, <1>2, StayStep

\* make_conn builds a connection record that owns nothing.
LEMMA NewConnType ==
    /\ NewConn \in ConnRec /\ NewConn.in_job = Nil /\ NewConn.soonest_job = Nil
    /\ NewConn.state = "want_command"
    /\ ClosedConn \in ConnRec /\ ClosedConn.in_job = Nil
    /\ ClosedConn.soonest_job = Nil /\ ClosedConn.state = "closed"
<1>1. PICK m \in Int : m = -1
  OBVIOUS
<1>2. Default \in Tubes /\ {Default} \in SUBSET Tubes /\ {} \in SUBSET Tubes
  BY ConstantsOK
<1>3. NewConn = [state |-> "want_command", use |-> Default, watch |-> {Default},
            waiting |-> FALSE, pending_timeout |-> m, soonest_job |-> Nil,
            tickat |-> 0, in_conns |-> FALSE, in_job |-> Nil, out_job |-> Nil,
            reply |-> "none", until |-> 0]
  BY <1>1 DEF NewConn
<1>4. NewConn \in ConnRec
  BY <1>2, <1>3 DEF ConnRec, ConnStates, Replies
<1>5. NewConn.in_job = Nil /\ NewConn.soonest_job = Nil /\ NewConn.state = "want_command"
  BY <1>3
<1>6. ClosedConn \in ConnRec
  BY <1>2, <1>4 DEF ClosedConn, ConnRec, ConnStates
<1>7. ClosedConn.in_job = Nil /\ ClosedConn.soonest_job = Nil /\ ClosedConn.state = "closed"
  BY <1>4, <1>5 DEF ClosedConn, ConnRec
<1> QED
  BY <1>4, <1>5, <1>6, <1>7

\* h_accept keeps it.
LEMMA AcceptStep ==
    ASSUME IInv, NEW c \in Conns, h_accept(c)
    PROVE  IInv'
<1>1. q' = q /\ next_id' = next_id
  BY DEF h_accept, JobFrame
<1>2. RestOK'
  BY Facts, TaskTypes DEF h_accept, JobFrame, EndHandler, RestOK
<1>3. NewConn \in ConnRec /\ Held(q, c, NewConn) /\ NewConn.in_job = Nil
      /\ NewConn.state # "want_data"
  BY NewConnType DEF Held
<1>4. CASE conn' = [conn EXCEPT ![c] = NewConn]
  BY <1>1, <1>2, <1>3, <1>4, ConnStep
<1>5. CASE conn' = conn
  BY <1>1, <1>2, <1>5, IdleStep
<1> QED
  BY <1>4, <1>5 DEF h_accept

\* conn_want_command keeps it.
LEMMA WantCommandStep ==
    ASSUME IInv, NEW c \in Conns, conn_want_command(c)
    PROVE  IInv'
<1> DEFINE m == connsched(q, c, conn[c])
           n == [m EXCEPT !.out_job = Nil, !.reply = "none",
                          !.state = "want_command"]
<1>1. q \in Store /\ conn[c] \in ConnRec /\ Held(q, c, conn[c]) /\ clock \in Nat
  BY Facts DEF RestOK
<1>2. m \in ConnRec /\ Held(q, c, m) /\ m.in_job = conn[c].in_job
  BY <1>1, ConnSched DEF SameInput
<1>3. q' = q /\ next_id' = next_id /\ conn' = [conn EXCEPT ![c] = n]
  BY DEF conn_want_command, JobFrame
<1> HIDE DEF m
<1>4. n \in ConnRec /\ Held(q, c, n) /\ n.in_job = conn[c].in_job
      /\ n.state # "want_data"
  BY <1>2 DEF ConnRec, ConnStates, Replies, Held
<1> HIDE DEF n
<1>5. RestOK'
  <2>1. conns_broken' \in BOOLEAN
    BY Facts, FlagType DEF conn_want_command, RestOK
  <2> QED
    BY <2>1, Facts, TaskTypes DEF conn_want_command, JobFrame, EndOrGoOn,
       EndHandler, RestOK
<1> QED
  BY <1>3, <1>4, <1>5, ConnStep

\* remove_waiting_conn and the answer that follows it.
LEMMA StopWaitingStep ==
    ASSUME IInv, NEW c \in Conns, NEW cr \in ConnRec, Held(q, c, cr),
           cr.in_job = conn[c].in_job, NEW msg \in Replies,
           StopWaiting(c, cr, msg), next_id' = next_id, pause' = pause,
           unpause_at' = unpause_at, drain_mode' = drain_mode, clock' = clock,
           task' \in Task, TaskServes(task'), pq' = pq
    PROVE  IInv'
<1> DEFINE s == IF cr.waiting THEN CountWaiting(q, cr.watch, -1) ELSE q
           cw == [cr EXCEPT !.waiting = FALSE, !.until = 0]
           n == reply(s, c, cw, msg, "send_word")
<1>1. q \in Store /\ clock \in Nat /\ cr.watch \in SUBSET Tubes /\ SamePlaces(q, q)
  BY Facts DEF RestOK, ConnRec
<1>2. s \in Store /\ SamePlaces(s, q)
  BY <1>1, CountWaitingType, CountWaitingPlaces
<1>3. q' = s /\ conn' = [conn EXCEPT ![c] = n]
  BY DEF StopWaiting, reply_msg
<1>4. waiting_conns' \in [Tubes -> SUBSET Conns]
  BY Facts DEF StopWaiting, Delisted, RestOK
<1> HIDE DEF s
<1>5. cw \in ConnRec /\ Held(s, c, cw) /\ cw.in_job = conn[c].in_job
  BY <1>2 DEF ConnRec, Held, SamePlaces
<1> HIDE DEF cw
<1>6. n \in ConnRec /\ Held(s, c, n) /\ n.in_job = conn[c].in_job /\ n.state = "send_word"
  <2>1. "send_word" \in ConnStates
    BY DEF ConnStates
  <2> QED
    BY <1>1, <1>2, <1>5, <2>1, Replied DEF SameInput
<1> HIDE DEF n
<1>7. conn' \in [Conns -> ConnRec] /\ conn'[c] = n /\ \A d \in Conns \ {c} : conn'[d] = conn[d]
  BY <1>3, <1>6, Facts
<1>8. RestOK'
  <2>1. conns_broken' \in BOOLEAN
    BY Facts, FlagType DEF StopWaiting, RestOK
  <2> QED
    BY <1>4, <2>1, Facts DEF RestOK
<1> QED
  BY <1>2, <1>3, <1>6, <1>7, <1>8, StayStep

\* A hang-up of a waiting client keeps it.
LEMMA HangupStep ==
    ASSUME IInv, NEW c \in Conns, hangup(c)
    PROVE  IInv'
<1>1. PICK m \in Int : m = -1
  OBVIOUS
<1> DEFINE cr == [conn[c] EXCEPT !.pending_timeout = m]
<1>2. conn[c] \in ConnRec /\ Held(q, c, conn[c]) /\ clock \in Nat
  BY Facts DEF RestOK
<1>3. cr \in ConnRec /\ Held(q, c, cr) /\ cr.in_job = conn[c].in_job
  BY <1>2 DEF ConnRec, Held
<1>4. StopWaiting(c, cr, "TIMED_OUT")
  BY <1>1 DEF hangup
<1> HIDE DEF cr
<1>5. /\ next_id' = next_id /\ pause' = pause /\ unpause_at' = unpause_at
      /\ drain_mode' = drain_mode /\ clock' = clock /\ pq' = pq /\ task' = Tick
      /\ "TIMED_OUT" \in Replies
  BY DEF hangup, EndHandler, Replies
<1>6. task' \in Task /\ TaskServes(task')
  BY <1>2, <1>5, TaskTypes
<1> QED
  BY <1>3, <1>4, <1>5, <1>6, StopWaitingStep

\* The first part of connclose keeps it; the job being uploaded is freed.
LEMMA CloseStep ==
    ASSUME IInv, NEW c \in Conns, connclose(c)
    PROVE  IInv'
<1> DEFINE cr == conn[c]
           j == cr.in_job
           s == IF j = Nil THEN q ELSE job_free(q, j)
           n == [cr EXCEPT !.in_job = Nil, !.out_job = Nil, !.waiting = FALSE,
                           !.until = 0, !.state = "closing"]
<1>1. /\ q \in Store /\ Whole(q) /\ clock \in Nat /\ cr \in ConnRec /\ Held(q, c, cr)
      /\ cr.watch \in SUBSET Tubes /\ SamePlaces(q, q)
  BY Facts DEF RestOK
<1>2. /\ n \in ConnRec /\ n.in_job = Nil /\ n.soonest_job = cr.soonest_job
      /\ n.state = "closing"
  BY <1>1 DEF ConnRec, ConnStates
<1>3. /\ conn' = [conn EXCEPT ![c] = n]
      /\ q' = IF cr.waiting THEN CountWaiting(s, cr.watch, -1) ELSE s
      /\ next_id' = next_id
  BY DEF connclose
<1>4. RestOK'
  <2>1. waiting_conns' \in [Tubes -> SUBSET Conns]
    BY Facts DEF connclose, Delisted, RestOK
  <2>2. task' = [Socknext EXCEPT !.op = "close", !.conn = c]
    BY DEF connclose
  <2>3. task' \in Task /\ TaskServes(task')
    BY <1>1, <2>2, TaskTypes
  <2> QED
    BY <2>1, <2>3, Facts DEF connclose, RestOK
<1> HIDE DEF n
<1>5. conn' \in [Conns -> ConnRec] /\ conn'[c] = n /\ \A d \in Conns \ {c} : conn'[d] = conn[d]
  BY <1>2, <1>3, Facts
<1>6. CASE j = Nil
  <2>1. q' \in Store /\ SamePlaces(q', q)
    BY <1>1, <1>3, <1>6, CountWaitingType, CountWaitingPlaces
  <2>2. Held(q', c, n)
    BY <1>1, <1>2, <2>1 DEF Held, SamePlaces
  <2> QED
    BY <1>2, <1>3, <1>4, <1>5, <2>1, <2>2, StayStep
<1>7. CASE j # Nil
  <2>1. j \in Ids /\ q.job[j].state = "invalid"
    BY <1>1, <1>7 DEF ConnRec, IInv, Owners
  <2>2. Floating(q, j)
    BY <1>1, <2>1, LooseFloats
  <2>3. s \in Store /\ Whole(s) /\ Near(s, q, j)
    BY <1>1, <1>7, <2>1, <2>2, StoreSteps, FreeWhole
  <2> HIDE DEF s, j, cr
  <2>4. q' \in Store /\ (q' = s \/ SamePlaces(q', s))
    BY <1>1, <1>3, <2>3, CountWaitingType, CountWaitingPlaces
  <2>5. Whole(q') /\ Near(q', q, j)
    BY <2>3, <2>4, SamePlacesKeep DEF Near, SamePlaces
  <2>6. Held(q', c, n)
    <3>1. Held(q', c, cr)
      BY <1>1, <2>1, <2>5, HeldNear, NotReserved
    <3> QED
      BY <3>1, <1>2 DEF Held
  <2>7. conn[c].in_job = j
    BY DEF j, cr
  <2> QED
    BY <1>2, <1>3, <1>4, <1>5, <2>1, <2>4, <2>5, <2>6, <2>7, MoveStep
<1> QED
  BY <1>6, <1>7

\* A reservation of c that the server takes back (close, timeout).
LEMMA TakenBack ==
    ASSUME IInv, NEW c \in Conns, NEW j \in Range(q.reserved_jobs[c]),
           NEW r \in EnqueueOrBury(remove_this_reserved_job(q, c, j), j, 0, FALSE),
           q' = r.q, pq' = r.pq, NEW n \in ConnRec,
           conn' = [conn EXCEPT ![c] = n], n.soonest_job = Nil,
           n.in_job = conn[c].in_job, n.state = conn[c].state,
           task' \in Task, TaskServes(task'), ServerFrame,
           conns_broken' = conns_broken
    PROVE  IInv'
<1> DEFINE s == remove_this_reserved_job(q, c, j)
<1>1. q \in Store /\ Whole(q) /\ clock \in Nat /\ q.reserved_jobs[c] \in Seq(Ids)
  BY Facts DEF RestOK, Store
<1>2. j \in Ids
  BY <1>1, RangeInIds
<1>3. is_job_reserved_by_conn(c, j)
  BY <1>1, <1>2 DEF is_job_reserved_by_conn, Whole, Placed
<1>4. /\ s \in Store /\ Floating(s, j) /\ Near(s, q, j) /\ ~s.wal_use
      /\ q.job[j].state = "reserved" /\ q.job[j].reserver = c
  BY <1>2, <1>3, GivenUp
<1>5. r \in EnqueueOrBury(s, j, 0, FALSE)
  OBVIOUS
<1> HIDE DEF s
<1>6. q' \in Store /\ Whole(q') /\ Near(q', s, j) /\ pq' \in BOOLEAN
  BY <1>1, <1>2, <1>4, <1>5, EnqueueOrBuryGood
<1>7. Near(q', q, j)
  BY <1>4, <1>6, NearTrans
<1>8. conn' \in [Conns -> ConnRec] /\ conn'[c] = n /\ \A d \in Conns \ {c} : conn'[d] = conn[d]
  BY Facts
<1>9. Held(q', c, n) /\ (n.state = "want_data" => n.in_job # Nil)
  BY DEF Held, IInv, Owners
<1>10. RestOK' /\ next_id' = next_id
  BY <1>6, Facts DEF RestOK, ServerFrame
<1> QED
  BY <1>2, <1>4, <1>6, <1>7, <1>8, <1>9, <1>10, MoveStep

\* The iterations of enqueue_reserved_jobs and the end of connclose keep it.
LEMMA CloseLoopSteps ==
    ASSUME IInv, enqueue_reserved_jobs \/ close_end
    PROVE  IInv'
<1> DEFINE c == task.conn
<1>1. /\ c \in Conns /\ task \in Task /\ TaskServes(task) /\ q \in Store
      /\ conn[c] \in ConnRec /\ q.reserved_jobs[c] \in Seq(Ids)
  BY Facts DEF RestOK, IInv, TaskServes, enqueue_reserved_jobs, close_end,
               Closing, Store
<1>2. CASE enqueue_reserved_jobs
  <2> DEFINE j == q.reserved_jobs[c][1]
  <2>1. j \in Range(q.reserved_jobs[c])
    <3>1. 1 \in DOMAIN q.reserved_jobs[c]
      BY <1>1, <1>2 DEF enqueue_reserved_jobs
    <3> QED
      BY <3>1 DEF Range
  <2>2. PICK r \in EnqueueOrBury(remove_this_reserved_job(q, c, j), j, 0, FALSE) :
            q' = r.q /\ pq' = r.pq
    BY <1>2 DEF enqueue_reserved_jobs
  <2>3. /\ conn' = [conn EXCEPT ![c] = Forgets(c)] /\ task' = task /\ ServerFrame
        /\ conns_broken' = conns_broken
    BY <1>2 DEF enqueue_reserved_jobs
  <2>4. /\ Forgets(c) \in ConnRec /\ Forgets(c).soonest_job = Nil
        /\ Forgets(c).in_job = conn[c].in_job /\ Forgets(c).state = conn[c].state
    BY <1>1 DEF Forgets, ConnRec
  <2> HIDE DEF j, c
  <2> QED
    BY <1>1, <2>1, <2>2, <2>3, <2>4, TakenBack
<1>3. CASE close_end
  <2>1. q' = q /\ next_id' = next_id /\ conn' = [conn EXCEPT ![c] = ClosedConn]
    BY <1>3 DEF close_end, JobFrame
  <2>2. RestOK'
    <3>1. conns_broken' \in BOOLEAN
      BY <1>3, Facts, FlagType DEF close_end, RestOK
    <3> QED
      BY <1>3, <3>1, Facts, TaskTypes DEF close_end, JobFrame, EndHandler, RestOK
  <2>3. /\ ClosedConn \in ConnRec /\ Held(q, c, ClosedConn)
        /\ ClosedConn.in_job = Nil /\ ClosedConn.state # "want_data"
    BY NewConnType DEF Held
  <2> QED
    BY <1>1, <2>1, <2>2, <2>3, ConnStep
<1> QED
  BY <1>2, <1>3

\* The iterations of prottick keep it.
LEMMA TickSteps ==
    ASSUME IInv, tick_delayed \/ tick_unpause \/ tick_conn \/ tick_end
    PROVE  IInv'
<1>1. /\ q \in Store /\ Whole(q) /\ ~q.wal_use /\ clock \in Nat /\ task \in Task
      /\ TaskServes(task)
  BY Facts DEF RestOK
<1>2. CASE tick_delayed
  <2>1. PICK j \in DueJobs(task.now) :
            \E r \in EnqueueOrBury(remove_delayed_job(q, j), j, 0, FALSE) :
                q' = r.q /\ pq' = r.pq
    BY <1>2 DEF tick_delayed
  <2>2. j \in Ids /\ q.job[j].state = "delayed"
    <3>1. PICK t \in Tubes : j \in q.delay[t]
      BY DEF DueJobs, Delayed
    <3>2. j \in Ids
      BY <1>1, <3>1 DEF Store
    <3> QED
      BY <1>1, <3>1, <3>2 DEF Whole, Placed
  <2> DEFINE s == remove_delayed_job(q, j)
  <2>3. s \in Store /\ Floating(s, j) /\ Near(s, q, j)
    BY <1>1, <2>2, StoreSteps, DelayedFloats, RemoveNear
  <2>4. PICK r \in EnqueueOrBury(s, j, 0, FALSE) : q' = r.q /\ pq' = r.pq
    BY <2>1
  <2>5. ~s.wal_use
    BY <1>1, <2>3 DEF Near
  <2> HIDE DEF s
  <2>6. q' \in Store /\ Whole(q') /\ Near(q', s, j) /\ pq' \in BOOLEAN
    BY <1>1, <2>2, <2>3, <2>4, <2>5, EnqueueOrBuryGood
  <2>7. Near(q', q, j)
    BY <2>3, <2>6, NearTrans
  <2>8. conn' = conn /\ task' = task /\ ServerFrame /\ conns_broken' = conns_broken
    BY <1>2 DEF tick_delayed
  <2> QED
    BY <1>1, <2>2, <2>6, <2>7, <2>8, ServerMove
<1>3. CASE tick_unpause
  <2>1. pause' \in [Tubes -> BOOLEAN]
    BY <1>3, Facts DEF tick_unpause, RestOK
  <2>2. RestOK' /\ q' = q /\ conn' = conn /\ next_id' = next_id
    BY <1>3, <2>1, Facts DEF tick_unpause, RestOK
  <2> QED
    BY <2>2, IdleStep
<1>4. CASE tick_conn
  <2>1. PICK c \in Conns :
            /\ conn' = [conn EXCEPT ![c].in_conns = FALSE]
            /\ task' = [task EXCEPT !.op = "timeout", !.conn = c,
                            !.soon = conn[c].waiting
                                     /\ conndeadlinesoon(q, c, conn[c])]
    BY <1>4 DEF tick_conn, DueConns, DueRoots, should_timeout
  <2> DEFINE n == [conn[c] EXCEPT !.in_conns = FALSE]
             b == conn[c].waiting /\ conndeadlinesoon(q, c, conn[c])
  <2>2. conn[c] \in ConnRec /\ Held(q, c, conn[c])
    BY Facts
  <2>3. conn' = [conn EXCEPT ![c] = n]
    BY <2>1
  <2>4. /\ n \in ConnRec /\ Held(q, c, n) /\ n.in_job = conn[c].in_job
        /\ n.state = conn[c].state
    BY <2>2 DEF ConnRec, Held
  <2>5. b \in BOOLEAN /\ task' = [task EXCEPT !.op = "timeout", !.conn = c, !.soon = b]
    BY <2>1, <2>2 DEF ConnRec
  <2> HIDE DEF n, b
  <2>6. task' \in Task /\ TaskServes(task')
    BY <1>1, <2>5 DEF Task, TaskOps, TaskServes
  <2>7. RestOK' /\ q' = q /\ next_id' = next_id
    BY <1>4, <2>6, Facts DEF tick_conn, JobFrame, RestOK
  <2>8. n.state = "want_data" => n.in_job # Nil
    BY <2>4 DEF IInv, Owners
  <2>9. conn' \in [Conns -> ConnRec] /\ conn'[c] = n /\ \A d \in Conns \ {c} : conn'[d] = conn[d]
    BY <2>3, <2>4, Facts
  <2>10. q' \in Store /\ SamePlaces(q', q) /\ Held(q', c, n)
    BY <2>4, <2>7, Facts
  <2> QED
    BY <2>4, <2>7, <2>8, <2>9, <2>10, StayStep
<1>5. CASE tick_end
  <2>1. RestOK' /\ q' = q /\ conn' = conn /\ next_id' = next_id
    BY <1>5, Facts, TaskTypes DEF tick_end, JobFrame, RestOK
  <2> QED
    BY <2>1, IdleStep
<1> QED
  BY <1>2, <1>3, <1>4, <1>5

\* The iterations of conn_timeout and its end keep it.
LEMMA TimeoutSteps ==
    ASSUME IInv, timeout_job \/ timeout_resched \/ timeout_end
    PROVE  IInv'
<1> DEFINE c == task.conn
           k == connsoonestjob(q, c, conn[c])
<1>1. /\ c \in Conns /\ task \in Task /\ q \in Store /\ clock \in Nat
      /\ conn[c] \in ConnRec /\ Held(q, c, conn[c])
  BY Facts DEF RestOK, IInv, TaskServes, timeout_job, timeout_resched,
               timeout_end, TimingOut
<1>2. /\ k \in Ids \cup {Nil}
      /\ k # Nil => k \in Range(q.reserved_jobs[c])
  BY <1>1, SoonestType
<1>3. CASE timeout_job
  <2>1. PICK r \in EnqueueOrBury(remove_this_reserved_job(q, c, k), k, 0, FALSE) :
            q' = r.q /\ pq' = r.pq
    BY <1>3 DEF timeout_job
  <2>2. k # Nil
    BY <1>3 DEF timeout_job, Expired
  <2> DEFINE f == Forgets(c)
  <2>0. PICK copy \in {Copy, NoCopy} :
            conn' = [conn EXCEPT ![c] =
                        [f EXCEPT !.out_job = IF @ = k THEN copy ELSE @]]
    BY <1>3 DEF timeout_job
  <2> DEFINE o == IF f.out_job = k THEN copy ELSE f.out_job
             n == [f EXCEPT !.out_job = o]
  <2>3. /\ f \in ConnRec /\ f.soonest_job = Nil
        /\ f.in_job = conn[c].in_job /\ f.state = conn[c].state
    BY <1>1 DEF Forgets, ConnRec
  <2>4. conn' = [conn EXCEPT ![c] = n] /\ ServerFrame
        /\ task' = [task EXCEPT !.op = "resched"] /\ conns_broken' = conns_broken
    BY <1>3, <2>0, <2>3 DEF timeout_job, ConnRec
  <2>5. o \in Ids \cup {Nil, Copy, NoCopy}
    BY <2>3 DEF ConnRec
  <2> HIDE DEF f, o
  <2>6. /\ n \in ConnRec /\ n.soonest_job = Nil
        /\ n.in_job = conn[c].in_job /\ n.state = conn[c].state
    BY <2>3, <2>5 DEF ConnRec
  <2>7. task' \in Task /\ TaskServes(task')
    BY <1>1, <2>4 DEF Task, TaskOps, TaskServes
  <2> HIDE DEF n, c, k
  <2> QED
    BY <1>1, <1>2, <2>1, <2>2, <2>4, <2>6, <2>7, TakenBack
<1>4. CASE timeout_resched
  <2> DEFINE n == connsched(q, c, conn[c])
  <2>1. n \in ConnRec /\ Held(q, c, n) /\ n.in_job = conn[c].in_job
    BY <1>1, ConnSched DEF SameInput
  <2>2. n.state = conn[c].state
    BY <1>1 DEF connsched, ConnRec
  <2>3. /\ q' = q /\ next_id' = next_id /\ conn' = [conn EXCEPT ![c] = n]
        /\ task' = [task EXCEPT !.op = "timeout"]
    BY <1>4 DEF timeout_resched, JobFrame
  <2>4. task' \in Task /\ TaskServes(task')
    BY <1>1, <2>3 DEF Task, TaskOps, TaskServes
  <2> HIDE DEF n
  <2>5. RestOK'
    <3>1. conns_broken' \in BOOLEAN
      BY <1>4, Facts, FlagType DEF timeout_resched, RestOK
    <3> QED
      BY <1>4, <2>4, <3>1, Facts DEF timeout_resched, JobFrame, RestOK
  <2>6. conn' \in [Conns -> ConnRec] /\ conn'[c] = n /\ \A d \in Conns \ {c} : conn'[d] = conn[d]
    BY <1>1, <2>1, <2>3, Facts
  <2>7. /\ q' \in Store /\ SamePlaces(q', q) /\ Held(q', c, n)
        /\ n.state = "want_data" => n.in_job # Nil
    BY <1>1, <2>1, <2>2, <2>3, Facts DEF IInv, Owners
  <2> HIDE DEF c
  <2> QED
    BY <1>1, <2>1, <2>3, <2>5, <2>6, <2>7, StayStep
<1>5. CASE timeout_end
  <2> DEFINE cr == [conn[c] EXCEPT !.soonest_job = k]
  <2> HIDE DEF k
  <2>1. /\ cr \in ConnRec /\ Held(q, c, cr) /\ cr.in_job = conn[c].in_job
        /\ cr.state = conn[c].state
    BY <1>1, <1>2 DEF ConnRec, Held
  <2>2. task' = [task EXCEPT !.op = "tick", !.conn = NoConn, !.soon = FALSE]
    BY <1>5 DEF timeout_end
  <2>3. task' \in Task /\ TaskServes(task')
    BY <1>1, <2>2 DEF Task, TaskOps, TaskServes
  <2>4. /\ next_id' = next_id /\ pause' = pause /\ unpause_at' = unpause_at
        /\ drain_mode' = drain_mode /\ clock' = clock /\ pq' = pq
        /\ "DEADLINE_SOON" \in Replies /\ "TIMED_OUT" \in Replies
    BY <1>5 DEF timeout_end, Replies
  <2>5. CASE StopWaiting(c, cr, "DEADLINE_SOON")
    <3> HIDE DEF c, cr
    <3> QED
      BY <1>1, <2>1, <2>3, <2>4, <2>5, StopWaitingStep
  <2>6. CASE StopWaiting(c, [cr EXCEPT !.pending_timeout = -1], "TIMED_OUT")
    <3>1. PICK m \in Int : m = -1
      OBVIOUS
    <3> DEFINE ct == [cr EXCEPT !.pending_timeout = m]
    <3>2. StopWaiting(c, ct, "TIMED_OUT")
      BY <2>6, <3>1
    <3> HIDE DEF cr
    <3>3. ct \in ConnRec /\ Held(q, c, ct) /\ ct.in_job = conn[c].in_job
      BY <2>1 DEF ConnRec, Held
    <3> HIDE DEF c, ct
    <3> QED
      BY <1>1, <2>3, <2>4, <3>2, <3>3, StopWaitingStep
  <2>7. CASE conn' = [conn EXCEPT ![c] = cr] /\ q' = q /\ waiting_conns' = waiting_conns
             /\ conns_broken' = conns_broken
    <3> HIDE DEF cr
    <3>1. RestOK'
      BY <2>3, <2>4, <2>7, Facts DEF RestOK
    <3>2. conn' \in [Conns -> ConnRec] /\ conn'[c] = cr /\ \A d \in Conns \ {c} : conn'[d] = conn[d]
      BY <1>1, <2>1, <2>7, Facts
    <3>3. /\ q' \in Store /\ SamePlaces(q', q) /\ Held(q', c, cr)
          /\ cr.state = "want_data" => cr.in_job # Nil
      BY <1>1, <2>1, <2>7, Facts DEF IInv, Owners
    <3> HIDE DEF c
    <3> QED
      BY <1>1, <2>1, <2>4, <3>1, <3>2, <3>3, StayStep
  <2> QED
    BY <1>5, <2>5, <2>6, <2>7 DEF timeout_end, k
<1> QED
  BY <1>3, <1>4, <1>5

\* The clock, the wake-up of socknext and SIGUSR1 keep it.
LEMMA ClockSteps ==
    ASSUME IInv, Wake \/ AdvanceClock \/ enter_drain_mode
    PROVE  IInv'
<1>1. q' = q /\ conn' = conn /\ next_id' = next_id
  BY DEF Wake, AdvanceClock, enter_drain_mode, JobFrame
<1>2. CASE Wake
  <2>1. RestOK'
    BY <1>2, Facts, TaskTypes DEF Wake, JobFrame, EndHandler, RestOK
  <2> QED
    BY <1>1, <2>1, IdleStep
<1>3. CASE AdvanceClock
  <2>1. RestOK'
    BY <1>3, Facts DEF AdvanceClock, RestOK
  <2> QED
    BY <1>1, <2>1, IdleStep
<1>4. CASE enter_drain_mode
  <2>1. RestOK'
    BY <1>4, Facts DEF enter_drain_mode, RestOK
  <2> QED
    BY <1>1, <2>1, IdleStep
<1> QED
  BY <1>2, <1>3, <1>4

-----------------------------------------------------------------------------
(* The theorems                                                            *)

\* A store without jobs has every job in its place.
LEMMA EmptyLists ==
    ASSUME NEW s, \A j \in Ids : s.job[j] = FreeJob,
           \A t \in Tubes : s.ready[t] = {} /\ s.delay[t] = {} /\ s.buried[t] = <<>>,
           \A c \in Conns : s.reserved_jobs[c] = <<>>
    PROVE  Whole(s)
<1>1. Range(<<>>) = {} /\ IsInjective(<<>>)
  BY DEF Range, IsInjective
<1>2. FreeJob.state = "none" /\ FreeJob.reserver = NoConn
  BY DEF FreeJob
<1>3. FreeJob.state \notin {"ready", "delayed", "buried", "reserved"}
  BY <1>2
<1>4. \A j \in Ids : Placed(s, j)
  BY <1>1, <1>2, <1>3 DEF Placed
<1> QED
  BY <1>1, <1>4 DEF Whole, NoDuplicates

\* The server starts in the invariant.
LEMMA Initially ==
    ASSUME ~WalMayFail, Init
    PROVE  IInv
<1>1. q \in Store
  <2> DEFINE J == [j \in Ids |-> FreeJob]
             E == [t \in Tubes |-> {}]
             B == [t \in Tubes |-> <<>>]
             R == [c \in Conns |-> <<>>]
             N == [f \in Counters |-> 0]
             T == [t \in Tubes |-> N]
  <2>1. /\ J \in [Ids -> JobRec] /\ E \in [Tubes -> SUBSET Ids]
        /\ B \in [Tubes -> Seq(Ids)] /\ R \in [Conns -> Seq(Ids)]
        /\ N \in [Counters -> Int]
    BY FreeJobType
  <2>2. T \in [Tubes -> [Counters -> Int]]
    BY <2>1
  <2>3. q = [job |-> J, ready |-> E, delay |-> E, buried |-> B,
             reserved_jobs |-> R, ct |-> N, tct |-> T, wal_use |-> WalMayFail]
    BY DEF Init
  <2> HIDE DEF J, E, B, R, N, T
  <2> QED
    BY <2>1, <2>2, <2>3, ConstantsOK DEF Store
<1>2. /\ \A j \in Ids : q.job[j] = FreeJob
      /\ \A t \in Tubes : q.ready[t] = {} /\ q.delay[t] = {} /\ q.buried[t] = <<>>
      /\ \A c \in Conns : q.reserved_jobs[c] = <<>>
      /\ ~q.wal_use
  BY DEF Init
<1>3. Whole(q)
  BY <1>2, EmptyLists
<1>4. conn \in [Conns -> ConnRec] /\ \A c \in Conns : conn[c] = ClosedConn
  BY NewConnType DEF Init
<1>5. Owners(q, conn)
  <2>1. \A c \in Conns : /\ conn[c].in_job = Nil /\ conn[c].soonest_job = Nil
                         /\ conn[c].state = "closed"
    BY <1>4, NewConnType
  <2> QED
    BY <2>1 DEF Owners, Held
<1>6. FreshIds(q, next_id)
  BY <1>2 DEF FreshIds, FreeJob
<1>7. task \in Task /\ TaskServes(task) /\ clock \in Nat
  <2>1. clock \in Nat
    BY DEF Init
  <2> QED
    BY <2>1, TaskTypes DEF Init
<1>8. /\ waiting_conns \in [Tubes -> SUBSET Conns] /\ pause \in [Tubes -> BOOLEAN]
      /\ unpause_at \in [Tubes -> Nat] /\ next_id \in 1..(MaxId + 1)
      /\ drain_mode \in BOOLEAN /\ pq \in BOOLEAN /\ conns_broken \in BOOLEAN
  <2>1. next_id \in 1..(MaxId + 1)
    BY ConstantsOK DEF Init
  <2>2. drain_mode \in BOOLEAN /\ pq \in BOOLEAN /\ conns_broken \in BOOLEAN
    BY DEF Init
  <2>3. waiting_conns \in [Tubes -> SUBSET Conns] /\ pause \in [Tubes -> BOOLEAN]
    BY DEF Init
  <2>4. unpause_at \in [Tubes -> Nat]
    BY DEF Init
  <2> QED
    BY <2>1, <2>2, <2>3, <2>4
<1> QED
  BY <1>1, <1>2, <1>3, <1>4, <1>5, <1>6, <1>7, <1>8 DEF IInv, TypeOK

\* Every step of every action of the server keeps the invariant.
LEMMA Inductive ==
    ASSUME IInv, [Next]_vars
    PROVE  IInv'
<1>1. CASE UNCHANGED vars
  BY <1>1 DEF vars, IInv, TypeOK
<1>2. CASE ServerStep
  BY <1>2, ProcessQueueStep, KickLoopSteps, CloseLoopSteps, TickSteps,
     TimeoutSteps, ClockSteps DEF ServerStep
<1>3. ASSUME NEW c \in Conns, ClientStep(c) PROVE IInv'
  <2>1. CASE \/ h_accept(c) \/ conn_want_command(c) \/ hangup(c) \/ connclose(c)
             \/ refuse(c) \/ inspect(c) \/ enqueue_incoming_job(c)
    BY <2>1, AcceptStep, WantCommandStep, HangupStep, CloseStep, LookSteps,
       IncomingStep
  <2>2. CASE \E p \in Pris, d \in Delays, ttr \in Ttrs : put(c, p, d, ttr)
    BY <2>2, PutStep
  <2>3. CASE \E timeout \in Timeouts \cup {-1} : reserve(c, timeout)
    BY <2>3, ReserveStep
  <2>4. CASE \E j \in Ids : reserve_job(c, j) \/ delete(c, j) \/ touch(c, j)
                            \/ kick_job(c, j)
    BY <2>4, ReserveJobStep, DeleteStep, TouchStep, KickJobStep
  <2>5. CASE \E j \in Ids : \E p \in Pris : bury(c, j, p)
    BY <2>5, BuryStep
  <2>6. CASE \E j \in Ids : \E p \in Pris, d \in Delays : release(c, j, p, d)
    BY <2>6, ReleaseStep
  <2>7. CASE \E n \in KickBounds : kick(c, n)
    BY <2>7, KickStep
  <2>8. CASE \E t \in Tubes : \/ use(c, t) \/ watch(c, t) \/ ignore(c, t)
                              \/ \E d \in Delays : pause_tube(c, t, d)
    BY <2>8, TubeSteps
  <2> QED
    BY <1>3, <2>1, <2>2, <2>3, <2>4, <2>5, <2>6, <2>7, <2>8 DEF ClientStep
<1>4. CASE enter_drain_mode \/ AdvanceClock
  BY <1>4, ClockSteps
<1> QED
  BY <1>1, <1>2, <1>3, <1>4 DEF Next

\* Without a binlog that can fail, IInv holds of every reachable state.
THEOREM Invariance ==
    ASSUME ~WalMayFail
    PROVE  Spec => []IInv
<1>1. Init => IInv
  BY Initially
<1>2. IInv /\ [Next]_vars => IInv'
  BY Inductive
<1> QED
  BY <1>1, <1>2, PTL DEF Spec

\* The variables keep the types of the structs of dat.h, whatever the clients
\* send, the timers do and heapinsert refuses.
THEOREM TypeCorrect ==
    ASSUME ~WalMayFail
    PROVE  Spec => []TypeOK
<1>1. IInv => TypeOK
  BY DEF IInv
<1> QED
  BY <1>1, Invariance, PTL

\* Every job is in exactly one container, the one its state, tube and reserver
\* name, for any number of connections, tubes and jobs: what enqueue_job,
\* bury_job, conn_reserve_job and the remove_*_job functions keep together.
THEOREM JobsPlaced ==
    ASSUME ~WalMayFail
    PROVE  Spec => []JobPlacement
<1>1. IInv => JobPlacement
  BY DEF IInv, Whole, Owners, JobPlacement
<1> QED
  BY <1>1, Invariance, PTL

\* The cache conn->soonest_job never names a job that another connection or a
\* queue has: every path that takes a job from a connection resets it.
THEOREM SoonestJobIsHeld ==
    ASSUME ~WalMayFail
    PROVE  Spec => []SoonestJobHeld
<1>1. IInv => SoonestJobHeld
  BY DEF IInv, Owners, Held, SoonestJobHeld
<1> QED
  BY <1>1, Invariance, PTL

=============================================================================
