------------------------------ MODULE BrokerCounts ------------------------------
(***************************************************************************)
(* The statistics of the server agree with its queues: CountersExact, for  *)
(* any number of connections, tubes and jobs, when no binlog can fail.     *)
(*                                                                         *)
(* The counters are exact over a set X of jobs (Exact).  Taking job j out  *)
(* of its container makes them exact over the other jobs; putting it in    *)
(* one makes them exact over all again.  In between the record of j may    *)
(* change.  A counter may change only by the weight of j (Shift), which is *)
(* shown once for every operation on the store.  The waiting counters go   *)
(* with the sets of waiting connections, of which SInv gives the meaning.  *)
(***************************************************************************)
EXTENDS BrokerSafety, FiniteSetTheorems

-----------------------------------------------------------------------------
(* Counting jobs                                                           *)

\* Does a job with record e count for counter f?
Has(e, f) ==
    CASE f = "urgent"  -> e.state = "ready" /\ e.pri < UrgentThreshold
      [] f = "waiting" -> FALSE
      [] OTHER         -> e.state = f

JobCounters == {"ready", "urgent", "reserved", "buried"}

Counted(s, f, X) == {k \in X : Has(s.job[k], f)}
TubeCounted(s, t, f, X) == {k \in X : Has(s.job[k], f) /\ s.job[k].tube = t}

\* The counters are those of the jobs X.  (No tube counts its ready jobs.)
Exact(s, X) ==
    /\ \A f \in JobCounters : s.ct[f] = Cardinality(Counted(s, f, X))
    /\ \A t \in Tubes, f \in JobCounters \ {"ready"} :
            s.tct[t][f] = Cardinality(TubeCounted(s, t, f, X))

\* From s to r the counters change by n for a job with record e.
Shift(r, s, e, n) ==
    /\ \A f \in Counters : r.ct[f] = s.ct[f] + IF Has(e, f) THEN n ELSE 0
    /\ \A t \in Tubes, f \in Counters \ {"ready"} :
            r.tct[t][f] = s.tct[t][f] + IF Has(e, f) /\ e.tube = t THEN n ELSE 0

Others(r, s, j) == \A k \in Ids \ {j} : r.job[k] = s.job[k]

SameCounters(r, s) == r.ct = s.ct /\ r.tct = s.tct

SameWaiting(r, s) ==
    /\ r.ct["waiting"] = s.ct["waiting"]
    /\ \A t \in Tubes : r.tct[t]["waiting"] = s.tct[t]["waiting"]

\* A set of ids is finite, and so is its number of elements.
LEMMA IdSets ==
    ASSUME NEW X, X \subseteq Ids
    PROVE  IsFiniteSet(X) /\ Cardinality(X) \in Nat
<1>1. IsFiniteSet(Ids)
  BY FS_Interval, ConstantsOK DEF Ids
<1>2. IsFiniteSet(X)
  BY <1>1, FS_Subset
<1> QED
  BY <1>2, FS_CardinalityType

\* One element more or less.
LEMMA OneLess ==
    ASSUME NEW X, X \subseteq Ids, NEW Y, Y \subseteq Ids, NEW j \in Ids,
           \A k \in Ids \ {j} : k \in X <=> k \in Y, j \notin Y
    PROVE  Cardinality(X) = Cardinality(Y) + IF j \in X THEN 1 ELSE 0
<1>1. IsFiniteSet(X) /\ Cardinality(X) \in Nat /\ IsFiniteSet(Y) /\ Cardinality(Y) \in Nat
  BY IdSets
<1>2. CASE j \in X
  <2>1. X = Y \cup {j}
    BY <1>2
  <2>2. Cardinality(Y \cup {j}) = Cardinality(Y) + 1
    BY <1>1, FS_AddElement
  <2> QED
    BY <1>2, <2>1, <2>2
<1>3. CASE j \notin X
  <2>1. X = Y
    BY <1>3
  <2> QED
    BY <1>1, <1>3, <2>1
<1> QED
  BY <1>2, <1>3

\* Taking job j out, and leaving its weight, keeps the counters exact.
LEMMA TakeOut ==
    ASSUME NEW s, NEW r, NEW j \in Ids, Exact(s, Ids), Others(r, s, j),
           Shift(r, s, s.job[j], -1)
    PROVE  Exact(r, Ids \ {j})
<1>1. ASSUME NEW f \in JobCounters
      PROVE  r.ct[f] = Cardinality(Counted(r, f, Ids \ {j}))
  <2> DEFINE X == Counted(s, f, Ids)
             Y == Counted(r, f, Ids \ {j})
  <2>1. /\ X \subseteq Ids /\ Y \subseteq Ids /\ j \notin Y
        /\ \A k \in Ids \ {j} : k \in X <=> k \in Y
        /\ j \in X <=> Has(s.job[j], f)
    BY DEF Counted, Others
  <2> HIDE DEF X, Y
  <2>2. Cardinality(X) = Cardinality(Y) + IF j \in X THEN 1 ELSE 0
    BY <2>1, OneLess
  <2>3. Cardinality(X) \in Nat /\ Cardinality(Y) \in Nat
    BY <2>1, IdSets
  <2>4. s.ct[f] = Cardinality(X)
    BY DEF Exact, X
  <2>5. r.ct[f] = s.ct[f] + IF Has(s.job[j], f) THEN -1 ELSE 0
    BY DEF Shift, Counters, JobCounters
  <2>6. r.ct[f] = Cardinality(Y)
    BY <2>1, <2>2, <2>3, <2>4, <2>5
  <2> QED
    BY <2>6 DEF Y
<1>2. ASSUME NEW t \in Tubes, NEW f \in JobCounters \ {"ready"}
      PROVE  r.tct[t][f] = Cardinality(TubeCounted(r, t, f, Ids \ {j}))
  <2> DEFINE X == TubeCounted(s, t, f, Ids)
             Y == TubeCounted(r, t, f, Ids \ {j})
  <2>1. /\ X \subseteq Ids /\ Y \subseteq Ids /\ j \notin Y
        /\ \A k \in Ids \ {j} : k \in X <=> k \in Y
        /\ j \in X <=> Has(s.job[j], f) /\ s.job[j].tube = t
    BY DEF TubeCounted, Others
  <2> HIDE DEF X, Y
  <2>2. Cardinality(X) = Cardinality(Y) + IF j \in X THEN 1 ELSE 0
    BY <2>1, OneLess
  <2>3. Cardinality(X) \in Nat /\ Cardinality(Y) \in Nat
    BY <2>1, IdSets
  <2>4. s.tct[t][f] = Cardinality(X)
    BY DEF Exact, X
  <2>5. r.tct[t][f] = s.tct[t][f] + IF Has(s.job[j], f) /\ s.job[j].tube = t
                                    THEN -1 ELSE 0
    BY DEF Shift, Counters, JobCounters
  <2>6. r.tct[t][f] = Cardinality(Y)
    BY <2>1, <2>2, <2>3, <2>4, <2>5
  <2> QED
    BY <2>6 DEF Y
<1> QED
  BY <1>1, <1>2 DEF Exact

\* Putting job j in, with its weight, makes them exact over all jobs.
LEMMA PutIn ==
    ASSUME NEW s, NEW r, NEW j \in Ids, Exact(s, Ids \ {j}), Others(r, s, j),
           Shift(r, s, r.job[j], 1)
    PROVE  Exact(r, Ids)
<1>1. ASSUME NEW f \in JobCounters
      PROVE  r.ct[f] = Cardinality(Counted(r, f, Ids))
  <2> DEFINE X == Counted(r, f, Ids)
             Y == Counted(s, f, Ids \ {j})
  <2>1. /\ X \subseteq Ids /\ Y \subseteq Ids /\ j \notin Y
        /\ \A k \in Ids \ {j} : k \in X <=> k \in Y
        /\ j \in X <=> Has(r.job[j], f)
    BY DEF Counted, Others
  <2> HIDE DEF X, Y
  <2>2. Cardinality(X) = Cardinality(Y) + IF j \in X THEN 1 ELSE 0
    BY <2>1, OneLess
  <2>3. s.ct[f] = Cardinality(Y)
    BY DEF Exact, Y
  <2>4. r.ct[f] = s.ct[f] + IF Has(r.job[j], f) THEN 1 ELSE 0
    BY DEF Shift, Counters, JobCounters
  <2>5. r.ct[f] = Cardinality(X)
    BY <2>1, <2>2, <2>3, <2>4
  <2> QED
    BY <2>5 DEF X
<1>2. ASSUME NEW t \in Tubes, NEW f \in JobCounters \ {"ready"}
      PROVE  r.tct[t][f] = Cardinality(TubeCounted(r, t, f, Ids))
  <2> DEFINE X == TubeCounted(r, t, f, Ids)
             Y == TubeCounted(s, t, f, Ids \ {j})
  <2>1. /\ X \subseteq Ids /\ Y \subseteq Ids /\ j \notin Y
        /\ \A k \in Ids \ {j} : k \in X <=> k \in Y
        /\ j \in X <=> Has(r.job[j], f) /\ r.job[j].tube = t
    BY DEF TubeCounted, Others
  <2> HIDE DEF X, Y
  <2>2. Cardinality(X) = Cardinality(Y) + IF j \in X THEN 1 ELSE 0
    BY <2>1, OneLess
  <2>3. s.tct[t][f] = Cardinality(Y)
    BY DEF Exact, Y
  <2>4. r.tct[t][f] = s.tct[t][f] + IF Has(r.job[j], f) /\ r.job[j].tube = t
                                    THEN 1 ELSE 0
    BY DEF Shift, Counters, JobCounters
  <2>5. r.tct[t][f] = Cardinality(X)
    BY <2>1, <2>2, <2>3, <2>4
  <2> QED
    BY <2>5 DEF X
<1> QED
  BY <1>1, <1>2 DEF Exact

\* A shift leaves the waiting counters alone.
LEMMA ShiftWaits ==
    ASSUME NEW r \in Store, NEW s \in Store, NEW e, NEW n, Shift(r, s, e, n)
    PROVE  SameWaiting(r, s)
<1>1. ~Has(e, "waiting")
  BY DEF Has
<1>2. "waiting" \in Counters /\ "waiting" \in Counters \ {"ready"}
  BY DEF Counters
<1>3. s.ct["waiting"] \in Int /\ \A t \in Tubes : s.tct[t]["waiting"] \in Int
  BY <1>2 DEF Store
<1> QED
  BY <1>1, <1>2, <1>3 DEF Shift, SameWaiting

\* A change of the record of a job that does not count.
LEMMA EditCounts ==
    ASSUME NEW s, NEW r, NEW j \in Ids, Others(r, s, j), SameCounters(r, s),
           Exact(s, Ids \ {j})
    PROVE  Exact(r, Ids \ {j})
<1>1. \A f : Counted(r, f, Ids \ {j}) = Counted(s, f, Ids \ {j})
  BY DEF Counted, Others
<1>2. \A f, t : TubeCounted(r, t, f, Ids \ {j}) = TubeCounted(s, t, f, Ids \ {j})
  BY DEF TubeCounted, Others
<1> QED
  BY <1>1, <1>2 DEF Exact, SameCounters

\* A job that is in no counted state has no weight.
LEMMA NoWeight ==
    ASSUME NEW s, NEW j \in Ids, s.job[j].state \in {"none", "invalid", "delayed"}
    PROVE  Exact(s, Ids) <=> Exact(s, Ids \ {j})
<1>1. \A f \in JobCounters : ~Has(s.job[j], f)
  BY DEF Has, JobCounters
<1>2. \A f \in JobCounters : Counted(s, f, Ids \ {j}) = Counted(s, f, Ids)
  BY <1>1 DEF Counted
<1>3. \A f \in JobCounters, t \in Tubes :
            TubeCounted(s, t, f, Ids \ {j}) = TubeCounted(s, t, f, Ids)
  BY <1>1 DEF TubeCounted
<1> QED
  BY <1>2, <1>3 DEF Exact

-----------------------------------------------------------------------------
(* The operations on the store count what they move                        *)

\* What Count adds.
LEMMA CountAdds ==
    ASSUME NEW s \in Store, NEW f \in Counters, NEW t \in Tubes, NEW n \in Int
    PROVE  LET r == Count(s, f, t, n)
           IN  /\ \A g \in Counters : r.ct[g] = s.ct[g] + IF g = f THEN n ELSE 0
               /\ \A u \in Tubes, g \in Counters :
                    r.tct[u][g] = s.tct[u][g] + IF u = t /\ g = f THEN n ELSE 0
               /\ r.job = s.job
<1> DEFINE r == Count(s, f, t, n)
           a == [s.ct EXCEPT ![f] = @ + n]
           b == [s.tct EXCEPT ![t] = [s.tct[t] EXCEPT ![f] = @ + n]]
<1>1. r.ct = a /\ r.tct = b /\ r.job = s.job
  BY DEF Count, Store
<1>2. s.ct \in [Counters -> Int] /\ s.tct \in [Tubes -> [Counters -> Int]]
  BY DEF Store
<1>3. \A g \in Counters : a[g] = s.ct[g] + IF g = f THEN n ELSE 0
  BY <1>2
<1>4. \A u \in Tubes, g \in Counters :
            b[u][g] = s.tct[u][g] + IF u = t /\ g = f THEN n ELSE 0
  BY <1>2
<1> HIDE DEF r, a, b
<1> QED
  BY <1>1, <1>3, <1>4 DEF r

\* remove_ready_job.
LEMMA RemoveReadyShifts ==
    ASSUME NEW s \in Store, NEW j \in Ids, s.job[j].state = "ready"
    PROVE  /\ Shift(remove_ready_job(s, j), s, s.job[j], -1)
           /\ Others(remove_ready_job(s, j), s, j)
<1> DEFINE t == s.job[j].tube
           u == -UrgentOf(s, j)
           x == [s EXCEPT !.ready[t] = @ \ {j}, !.ct["ready"] = @ - 1]
           r == Count(x, "urgent", t, u)
<1>1. t \in Tubes /\ u \in Int /\ "urgent" \in Counters /\ "ready" \in Counters
  BY JobOf DEF Counters
<1>2. x \in Store
  <2> DEFINE a == [s.ready EXCEPT ![t] = @ \ {j}]
             n == [s.ct EXCEPT !["ready"] = @ - 1]
  <2>1. a \in [Tubes -> SUBSET Ids] /\ n \in [Counters -> Int]
    BY <1>1 DEF Store
  <2>2. x = [s EXCEPT !.ready = a, !.ct = n]
    BY DEF Store
  <2> HIDE DEF a, n
  <2> QED
    BY <2>1, <2>2 DEF Store
<1>3. /\ x.job = s.job /\ x.tct = s.tct
      /\ \A g \in Counters : x.ct[g] = s.ct[g] + IF g = "ready" THEN -1 ELSE 0
  BY <1>1 DEF Store
<1>4. /\ \A g \in Counters : s.ct[g] \in Int
      /\ \A v \in Tubes, g \in Counters : s.tct[v][g] \in Int
  BY DEF Store
<1>5. remove_ready_job(s, j) = r
  BY DEF remove_ready_job
<1> HIDE DEF x
<1>6. /\ \A g \in Counters : r.ct[g] = x.ct[g] + IF g = "urgent" THEN u ELSE 0
      /\ \A v \in Tubes, g \in Counters :
            r.tct[v][g] = x.tct[v][g] + IF v = t /\ g = "urgent" THEN u ELSE 0
      /\ r.job = x.job
  BY <1>1, <1>2, CountAdds
<1>7. \A g \in Counters : Has(s.job[j], g) <=> g = "ready" \/ (g = "urgent" /\ u = -1)
  BY DEF Has, Counters, UrgentOf
<1>8. u = 0 \/ u = -1
  <2>1. UrgentOf(s, j) = 0 \/ UrgentOf(s, j) = 1
    BY DEF UrgentOf
  <2> QED
    BY <2>1
<1> HIDE DEF r, u, t
<1>9. \A g \in Counters : r.ct[g] = s.ct[g] + IF Has(s.job[j], g) THEN -1 ELSE 0
  BY <1>3, <1>4, <1>6, <1>7, <1>8
<1>10. \A v \in Tubes, g \in Counters \ {"ready"} :
            r.tct[v][g] = s.tct[v][g] + IF Has(s.job[j], g) /\ t = v THEN -1 ELSE 0
  BY <1>3, <1>4, <1>6, <1>7, <1>8
<1> QED
  BY <1>3, <1>5, <1>6, <1>9, <1>10 DEF Shift, Others, t

\* remove_buried_job.
LEMMA RemoveBuriedShifts ==
    ASSUME NEW s \in Store, NEW j \in Ids, s.job[j].state = "buried"
    PROVE  /\ Shift(remove_buried_job(s, j), s, s.job[j], -1)
           /\ Others(remove_buried_job(s, j), s, j)
<1> DEFINE t == s.job[j].tube
           x == [s EXCEPT !.buried[t] = job_list_remove(@, j)]
           r == Count(x, "buried", t, -1)
<1>1. t \in Tubes /\ "buried" \in Counters /\ s.buried[t] \in Seq(Ids) /\ -1 \in Int
  <2>1. -1 \in Int
    OBVIOUS
  <2>2. t \in Tubes
    BY JobOf
  <2> QED
    BY <2>1, <2>2 DEF Counters, Store
<1>2. x \in Store /\ x.job = s.job /\ x.ct = s.ct /\ x.tct = s.tct
  <2>1. job_list_remove(s.buried[t], j) \in Seq(Ids)
    BY <1>1, RemoveType
  <2> QED
    BY <1>1, <2>1 DEF Store
<1>3. remove_buried_job(s, j) = r
  BY DEF remove_buried_job
<1> HIDE DEF x
<1>4. /\ \A g \in Counters : r.ct[g] = x.ct[g] + IF g = "buried" THEN -1 ELSE 0
      /\ \A v \in Tubes, g \in Counters :
            r.tct[v][g] = x.tct[v][g] + IF v = t /\ g = "buried" THEN -1 ELSE 0
      /\ r.job = x.job
  BY <1>1, <1>2, CountAdds
<1>5. \A g \in Counters : Has(s.job[j], g) <=> g = "buried"
  BY DEF Has, Counters
<1> HIDE DEF r, t
<1> QED
  BY <1>2, <1>3, <1>4, <1>5 DEF Shift, Others, t

\* remove_this_reserved_job.
LEMMA RemoveReservedShifts ==
    ASSUME NEW s \in Store, NEW j \in Ids, NEW c \in Conns, s.job[j].state = "reserved"
    PROVE  /\ Shift(remove_this_reserved_job(s, c, j), s, s.job[j], -1)
           /\ Others(remove_this_reserved_job(s, c, j), s, j)
<1> DEFINE t == s.job[j].tube
           e == [s.job[j] EXCEPT !.reserver = NoConn]
           x == [s EXCEPT !.reserved_jobs[c] = job_list_remove(@, j),
                          !.job[j].reserver = NoConn]
           r == Count(x, "reserved", t, -1)
<1>1. t \in Tubes /\ "reserved" \in Counters /\ s.reserved_jobs[c] \in Seq(Ids) /\ -1 \in Int
  <2>1. -1 \in Int
    OBVIOUS
  <2>2. t \in Tubes
    BY JobOf
  <2> QED
    BY <2>1, <2>2 DEF Counters, Store
<1>2. x \in Store /\ x.job = [s.job EXCEPT ![j] = e] /\ x.ct = s.ct /\ x.tct = s.tct
  <2> DEFINE m == job_list_remove(s.reserved_jobs[c], j)
             g == [s.job EXCEPT ![j] = e]
             l == [s.reserved_jobs EXCEPT ![c] = m]
  <2>1. m \in Seq(Ids)
    BY <1>1, RemoveType
  <2>2. e \in JobRec
    BY JobOf, JobRecEdit DEF JobStates
  <2> HIDE DEF m, e
  <2>3. l \in [Conns -> Seq(Ids)] /\ g \in [Ids -> JobRec]
    BY <2>1, <2>2 DEF Store
  <2>4. x = [s EXCEPT !.reserved_jobs = l, !.job = g]
    BY DEF Store, e, m
  <2> HIDE DEF l, g
  <2>5. /\ [s EXCEPT !.reserved_jobs = l, !.job = g] \in Store
        /\ [s EXCEPT !.reserved_jobs = l, !.job = g].job = g
        /\ [s EXCEPT !.reserved_jobs = l, !.job = g].ct = s.ct
        /\ [s EXCEPT !.reserved_jobs = l, !.job = g].tct = s.tct
    BY <2>3 DEF Store
  <2> QED
    BY <2>4, <2>5 DEF g
<1>3. remove_this_reserved_job(s, c, j) = r
  BY DEF remove_this_reserved_job
<1> HIDE DEF x, e
<1>4. /\ \A g \in Counters : r.ct[g] = x.ct[g] + IF g = "reserved" THEN -1 ELSE 0
      /\ \A v \in Tubes, g \in Counters :
            r.tct[v][g] = x.tct[v][g] + IF v = t /\ g = "reserved" THEN -1 ELSE 0
      /\ r.job = x.job
  BY <1>1, <1>2, CountAdds
<1>5. \A g \in Counters : Has(s.job[j], g) <=> g = "reserved"
  BY DEF Has, Counters
<1>6. \A k \in Ids \ {j} : x.job[k] = s.job[k]
  BY <1>2 DEF Store
<1> HIDE DEF r, t
<1> QED
  BY <1>2, <1>3, <1>4, <1>5, <1>6 DEF Shift, Others, t

\* remove_delayed_job counts nothing.
LEMMA RemoveDelayedCounts ==
    ASSUME NEW s \in Store, NEW j \in Ids
    PROVE  SameCounters(remove_delayed_job(s, j), s) /\ remove_delayed_job(s, j).job = s.job
BY DEF remove_delayed_job, SameCounters, Store

\* bury_job.
LEMMA BuryShifts ==
    ASSUME NEW s \in Store, NEW j \in Ids
    PROVE  /\ Shift(bury_job(s, j), s, bury_job(s, j).job[j], 1)
           /\ Others(bury_job(s, j), s, j)
<1> DEFINE t == s.job[j].tube
           e == [s.job[j] EXCEPT !.state = "buried", !.reserver = NoConn]
           m == Append(s.buried[t], j)
           x == [s EXCEPT !.buried[t] = m, !.job[j] = e]
           r == Count(x, "buried", t, 1)
<1>1. t \in Tubes /\ "buried" \in Counters /\ 1 \in Int
  BY JobOf DEF Counters
<1>2. e \in JobRec /\ m \in Seq(Ids)
  <2>1. e \in JobRec
    BY JobOf, JobRecEdit DEF JobStates
  <2>2. s.buried[t] \in Seq(Ids)
    BY <1>1 DEF Store
  <2> QED
    BY <2>1, <2>2, AppendRange
<1>3. e.state = "buried" /\ e.tube = t
  BY JobOf DEF JobRec
<1>4. bury_job(s, j) = r
  BY DEF bury_job
<1> HIDE DEF e, m
<1>5. x \in Store /\ x.job = [s.job EXCEPT ![j] = e] /\ x.ct = s.ct /\ x.tct = s.tct
  BY <1>1, <1>2 DEF Store
<1> HIDE DEF x
<1>6. /\ \A g \in Counters : r.ct[g] = x.ct[g] + IF g = "buried" THEN 1 ELSE 0
      /\ \A v \in Tubes, g \in Counters :
            r.tct[v][g] = x.tct[v][g] + IF v = t /\ g = "buried" THEN 1 ELSE 0
      /\ r.job = x.job
  BY <1>1, <1>5, CountAdds
<1>7. \A g \in Counters : Has(e, g) <=> g = "buried"
  BY <1>3 DEF Has, Counters
<1>8. x.job[j] = e /\ \A k \in Ids \ {j} : x.job[k] = s.job[k]
  BY <1>5 DEF Store
<1> HIDE DEF r, t
<1> QED
  BY <1>3, <1>4, <1>5, <1>6, <1>7, <1>8 DEF Shift, Others

\* conn_reserve_job, with the global counter of its callers.
LEMMA ReserveShifts ==
    ASSUME NEW s \in Store, NEW j \in Ids, NEW c \in Conns, clock \in Nat
    PROVE  /\ Shift(ReserveFor(s, c, j), s, ReserveFor(s, c, j).job[j], 1)
           /\ Others(ReserveFor(s, c, j), s, j)
<1> DEFINE t == s.job[j].tube
           v == clock + s.job[j].ttr
           e == [s.job[j] EXCEPT !.deadline_at = v, !.state = "reserved", !.reserver = c]
           m == Append(s.reserved_jobs[c], j)
           x == [s EXCEPT !.job[j] = e, !.reserved_jobs[c] = m]
           r == Count(x, "reserved", t, 1)
<1>1. t \in Tubes /\ "reserved" \in Counters /\ 1 \in Int
  BY JobOf DEF Counters
<1>2. e \in JobRec /\ m \in Seq(Ids)
  <2>1. s.job[j] \in JobRec /\ v \in Nat
    BY JobOf DEF JobRec
  <2>2. e \in JobRec
    BY <2>1, JobRecEdit DEF JobStates
  <2>3. s.reserved_jobs[c] \in Seq(Ids)
    BY DEF Store
  <2> QED
    BY <2>2, <2>3, AppendRange
<1>3. e.state = "reserved" /\ e.tube = t
  BY JobOf DEF JobRec
<1>4. ReserveFor(s, c, j) = r
  BY DEF ReserveFor
<1> HIDE DEF e, m
<1>5. x \in Store /\ x.job = [s.job EXCEPT ![j] = e] /\ x.ct = s.ct /\ x.tct = s.tct
  BY <1>1, <1>2 DEF Store
<1> HIDE DEF x
<1>6. /\ \A g \in Counters : r.ct[g] = x.ct[g] + IF g = "reserved" THEN 1 ELSE 0
      /\ \A u \in Tubes, g \in Counters :
            r.tct[u][g] = x.tct[u][g] + IF u = t /\ g = "reserved" THEN 1 ELSE 0
      /\ r.job = x.job
  BY <1>1, <1>5, CountAdds
<1>7. \A g \in Counters : Has(e, g) <=> g = "reserved"
  BY <1>3 DEF Has, Counters
<1>8. x.job[j] = e /\ \A k \in Ids \ {j} : x.job[k] = s.job[k]
  BY <1>5 DEF Store
<1> HIDE DEF r, t
<1> QED
  BY <1>3, <1>4, <1>5, <1>6, <1>7, <1>8 DEF Shift, Others

\* enqueue_job into the ready heap.
LEMMA EnqueueReadyShifts ==
    ASSUME NEW s \in Store, NEW j \in Ids
    PROVE  /\ Shift(EnqueueReady(s, j), s, EnqueueReady(s, j).job[j], 1)
           /\ Others(EnqueueReady(s, j), s, j)
<1> DEFINE t == s.job[j].tube
           u == UrgentOf(s, j)
           e == [s.job[j] EXCEPT !.state = "ready"]
           a == [s.ready EXCEPT ![t] = @ \cup {j}]
           n == [s.ct EXCEPT !["ready"] = @ + 1]
           h == [s.job EXCEPT ![j] = e]
           x == [s EXCEPT !.ready = a, !.ct = n, !.job = h]
           r == Count(x, "urgent", t, u)
<1>1. t \in Tubes /\ u \in Int /\ "urgent" \in Counters /\ "ready" \in Counters
  BY JobOf DEF Counters
<1>2. e \in JobRec /\ e.state = "ready" /\ e.tube = t /\ e.pri = s.job[j].pri
  <2>1. s.job[j] \in JobRec
    BY JobOf
  <2>2. e \in JobRec
    BY <2>1, JobRecEdit DEF JobStates
  <2> QED
    BY <2>1, <2>2 DEF JobRec
<1>3. EnqueueReady(s, j) = r
  BY DEF EnqueueReady, Store
<1>4. /\ a \in [Tubes -> SUBSET Ids] /\ n \in [Counters -> Int]
      /\ \A g \in Counters : n[g] = s.ct[g] + IF g = "ready" THEN 1 ELSE 0
  BY <1>1 DEF Store
<1> HIDE DEF a, n, e
<1>5. h \in [Ids -> JobRec] /\ h[j] = e /\ \A k \in Ids \ {j} : h[k] = s.job[k]
  BY <1>2 DEF Store
<1> HIDE DEF h
<1>6. x \in Store /\ x.job = h /\ x.ct = n /\ x.tct = s.tct
  BY <1>4, <1>5 DEF Store
<1> HIDE DEF x
<1>7. /\ \A g \in Counters : s.ct[g] \in Int
      /\ \A v \in Tubes, g \in Counters : s.tct[v][g] \in Int
  BY DEF Store
<1>8. /\ \A g \in Counters : r.ct[g] = x.ct[g] + IF g = "urgent" THEN u ELSE 0
      /\ \A v \in Tubes, g \in Counters :
            r.tct[v][g] = x.tct[v][g] + IF v = t /\ g = "urgent" THEN u ELSE 0
      /\ r.job = x.job
  BY <1>1, <1>6, CountAdds
<1>9. u = 0 \/ u = 1
  BY DEF UrgentOf
<1>10. \A g \in Counters : Has(e, g) <=> g = "ready" \/ (g = "urgent" /\ u = 1)
  BY <1>2 DEF Has, Counters, UrgentOf
<1> HIDE DEF r, u, t
<1>11. \A g \in Counters : r.ct[g] = s.ct[g] + IF Has(e, g) THEN 1 ELSE 0
  BY <1>4, <1>6, <1>7, <1>8, <1>9, <1>10
<1>12. \A v \in Tubes, g \in Counters \ {"ready"} :
            r.tct[v][g] = s.tct[v][g] + IF Has(e, g) /\ e.tube = v THEN 1 ELSE 0
  BY <1>2, <1>6, <1>7, <1>8, <1>9, <1>10
<1> QED
  BY <1>3, <1>5, <1>6, <1>8, <1>11, <1>12 DEF Shift, Others

\* A job that floats, the counters being exact for the others.
Loose(s, j) == s \in Store /\ Floating(s, j) /\ Exact(s, Ids \ {j})

\* The counters are exact and the waiting counters those of s.
Settled(r, s) == r \in Store /\ Exact(r, Ids) /\ SameWaiting(r, s)

\* A change of the record of a loose job.
LEMMA LooseEdit ==
    ASSUME NEW s, NEW j \in Ids, Loose(s, j), NEW e \in JobRec, e.reserver = NoConn
    PROVE  LET r == [s EXCEPT !.job[j] = e]
           IN  Loose(r, j) /\ SameWaiting(r, s) /\ r.job[j] = e /\ SameCounters(r, s)
<1> DEFINE r == [s EXCEPT !.job[j] = e]
<1>1. r \in Store /\ Floating(r, j) /\ r.job[j] = e
  BY EditFloats DEF Loose
<1>2. Others(r, s, j) /\ SameCounters(r, s)
  BY DEF Loose, Store, Others, SameCounters
<1> HIDE DEF r
<1>3. Exact(r, Ids \ {j})
  BY <1>2, EditCounts DEF Loose
<1>4. SameWaiting(r, s)
  BY <1>2 DEF SameCounters, SameWaiting
<1> QED
  BY <1>1, <1>2, <1>3, <1>4 DEF Loose, r

\* bury_job settles a loose job.
LEMMA BurySettles ==
    ASSUME NEW s, NEW j \in Ids, Loose(s, j)
    PROVE  Settled(bury_job(s, j), s)
<1>1. s \in Store /\ bury_job(s, j) \in Store
  BY StoreSteps DEF Loose
<1>2. Exact(bury_job(s, j), Ids)
  BY <1>1, BuryShifts, PutIn DEF Loose
<1> QED
  BY <1>1, <1>2, BuryShifts, ShiftWaits DEF Settled

\* So does conn_reserve_job.
LEMMA ReserveSettles ==
    ASSUME NEW s, NEW j \in Ids, NEW c \in Conns, Loose(s, j), clock \in Nat
    PROVE  Settled(ReserveFor(s, c, j), s)
<1>1. s \in Store /\ ReserveFor(s, c, j) \in Store
  BY ReserveForType DEF Loose
<1>2. Exact(ReserveFor(s, c, j), Ids)
  BY <1>1, ReserveShifts, PutIn DEF Loose
<1> QED
  BY <1>1, <1>2, ReserveShifts, ShiftWaits DEF Settled

\* So does job_free.
LEMMA FreeSettles ==
    ASSUME NEW s, NEW j \in Ids, Loose(s, j)
    PROVE  Settled(job_free(s, j), s)
<1>1. FreeJob \in JobRec /\ FreeJob.reserver = NoConn /\ FreeJob.state = "none"
  BY FreeJobType DEF FreeJob
<1> DEFINE r == [s EXCEPT !.job[j] = FreeJob]
<1>2. Loose(r, j) /\ SameWaiting(r, s) /\ r.job[j] = FreeJob
  BY <1>1, LooseEdit
<1> HIDE DEF r
<1>3. Exact(r, Ids)
  BY <1>1, <1>2, NoWeight DEF Loose
<1> QED
  BY <1>2, <1>3 DEF Settled, job_free, r, Loose

\* What enqueue_job writes first.
LEMMA StampLoose ==
    ASSUME NEW s, NEW j \in Ids, NEW d \in Nat, clock \in Nat, Loose(s, j)
    PROVE  Loose(Stamp(s, j, d), j) /\ SameWaiting(Stamp(s, j, d), s)
<1> DEFINE v == IF d = 0 THEN s.job[j].deadline_at ELSE clock + d
           e == [s.job[j] EXCEPT !.reserver = NoConn, !.deadline_at = v]
<1>1. s.job[j] \in JobRec /\ v \in Nat
  BY JobOf DEF JobRec, Loose
<1>2. e \in JobRec
  BY <1>1, JobRecEdit DEF JobStates
<1>3. e.reserver = NoConn
  BY <1>1 DEF JobRec
<1>4. Stamp(s, j, d) = [s EXCEPT !.job[j] = e]
  BY DEF Stamp
<1> HIDE DEF e
<1> QED
  BY <1>2, <1>3, <1>4, LooseEdit

\* So does enqueue_job.
LEMMA EnqueueSettles ==
    ASSUME NEW s, NEW j \in Ids, NEW d \in Nat, clock \in Nat, Loose(s, j)
    PROVE  Settled(enqueue_job(s, j, d), s)
<1> DEFINE x == Stamp(s, j, d)
<1>1. Loose(x, j) /\ SameWaiting(x, s) /\ x \in Store
  BY StampLoose DEF Loose
<1>2. enqueue_job(s, j, d) \in Store
  BY EnqueueType DEF Loose
<1>3. enqueue_job(s, j, d) = IF d = 0 THEN EnqueueReady(x, j) ELSE EnqueueDelayed(x, j)
  BY DEF enqueue_job
<1> HIDE DEF x
<1>4. CASE d = 0
  <2> DEFINE r == EnqueueReady(x, j)
  <2>1. Shift(r, x, r.job[j], 1) /\ Others(r, x, j)
    BY <1>1, EnqueueReadyShifts
  <2>2. r \in Store
    BY <1>2, <1>3, <1>4
  <2> HIDE DEF r
  <2>3. Exact(r, Ids) /\ SameWaiting(r, x)
    BY <1>1, <2>1, <2>2, PutIn, ShiftWaits DEF Loose
  <2> QED
    BY <1>1, <1>3, <1>4, <2>2, <2>3 DEF Settled, SameWaiting, r
<1>5. CASE d # 0
  <2> DEFINE r == EnqueueDelayed(x, j)
             e == [x.job[j] EXCEPT !.state = "delayed"]
  <2>1. e.state = "delayed"
    BY <1>1, JobOf DEF JobRec
  <2>2. SameCounters(r, x) /\ r.job = [x.job EXCEPT ![j] = e]
    BY <1>1 DEF EnqueueDelayed, SameCounters, Store
  <2>3. r \in Store
    BY <1>2, <1>3, <1>5
  <2> HIDE DEF r, e
  <2>4. Others(r, x, j) /\ r.job[j].state = "delayed"
    BY <1>1, <2>1, <2>2 DEF Others, Store
  <2>5. Exact(r, Ids)
    BY <1>1, <2>2, <2>4, EditCounts, NoWeight DEF Loose
  <2>6. SameWaiting(r, s)
    BY <1>1, <2>2 DEF SameCounters, SameWaiting
  <2> QED
    BY <1>3, <1>5, <2>3, <2>5, <2>6 DEF Settled, r
<1> QED
  BY <1>4, <1>5

\* Taking a job out of the container that has it makes it loose.
LEMMA RemovedLoose ==
    ASSUME NEW s \in Store, NEW j \in Ids, Whole(s), Exact(s, Ids)
    PROVE  /\ s.job[j].state = "ready" => Loose(remove_ready_job(s, j), j)
                                          /\ SameWaiting(remove_ready_job(s, j), s)
           /\ s.job[j].state = "buried" => Loose(remove_buried_job(s, j), j)
                                           /\ SameWaiting(remove_buried_job(s, j), s)
           /\ s.job[j].state = "delayed" => Loose(remove_delayed_job(s, j), j)
                                            /\ SameWaiting(remove_delayed_job(s, j), s)
           /\ \A c \in Conns : s.job[j].state = "reserved" /\ s.job[j].reserver = c =>
                    /\ Loose(remove_this_reserved_job(s, c, j), j)
                    /\ SameWaiting(remove_this_reserved_job(s, c, j), s)
           /\ s.job[j].state \in {"none", "invalid"} => Loose(s, j)
<1>1. ASSUME NEW r \in Store, Shift(r, s, s.job[j], -1), Others(r, s, j), Floating(r, j)
      PROVE  Loose(r, j) /\ SameWaiting(r, s)
  BY <1>1, TakeOut, ShiftWaits DEF Loose
<1>2. CASE s.job[j].state = "ready"
  <2>1. remove_ready_job(s, j) \in Store /\ Floating(remove_ready_job(s, j), j)
    BY <1>2, StoreSteps, ReadyFloats
  <2>2. Shift(remove_ready_job(s, j), s, s.job[j], -1) /\ Others(remove_ready_job(s, j), s, j)
    BY <1>2, RemoveReadyShifts
  <2> QED
    BY <1>1, <1>2, <2>1, <2>2
<1>3. CASE s.job[j].state = "buried"
  <2>1. remove_buried_job(s, j) \in Store /\ Floating(remove_buried_job(s, j), j)
    BY <1>3, StoreSteps, BuriedFloats
  <2>2. Shift(remove_buried_job(s, j), s, s.job[j], -1) /\ Others(remove_buried_job(s, j), s, j)
    BY <1>3, RemoveBuriedShifts
  <2> QED
    BY <1>1, <1>3, <2>1, <2>2
<1>4. CASE s.job[j].state = "delayed"
  <2> DEFINE r == remove_delayed_job(s, j)
  <2>1. r \in Store /\ Floating(r, j)
    BY <1>4, StoreSteps, DelayedFloats
  <2>2. SameCounters(r, s) /\ r.job = s.job
    BY RemoveDelayedCounts
  <2> HIDE DEF r
  <2>3. Exact(s, Ids \ {j}) /\ Others(r, s, j)
    BY <1>4, <2>2, NoWeight DEF Others
  <2>4. Exact(r, Ids \ {j}) /\ SameWaiting(r, s)
    BY <2>2, <2>3, EditCounts DEF SameCounters, SameWaiting
  <2> QED
    BY <1>4, <2>1, <2>4 DEF Loose, r
<1>5. ASSUME NEW c \in Conns, s.job[j].state = "reserved", s.job[j].reserver = c
      PROVE  /\ Loose(remove_this_reserved_job(s, c, j), j)
             /\ SameWaiting(remove_this_reserved_job(s, c, j), s)
  <2> DEFINE r == remove_this_reserved_job(s, c, j)
  <2>1. r \in Store /\ Floating(r, j)
    BY <1>5, StoreSteps, ReservedFloats
  <2>2. Shift(r, s, s.job[j], -1) /\ Others(r, s, j)
    BY <1>5, RemoveReservedShifts
  <2> HIDE DEF r
  <2>3. Loose(r, j) /\ SameWaiting(r, s)
    BY <1>1, <2>1, <2>2
  <2> QED
    BY <2>3 DEF r
<1>6. CASE s.job[j].state \in {"none", "invalid"}
  BY <1>6, LooseFloats, NoWeight DEF Loose
<1> QED
  BY <1>2, <1>3, <1>4, <1>5, <1>6

\* The waiting counters of three stores.
LEMMA SettledTrans ==
    ASSUME NEW r, NEW s, NEW p, Settled(r, s), SameWaiting(s, p)
    PROVE  Settled(r, p)
BY DEF Settled, SameWaiting

\* enqueue_job with the fall back on bury_job settles a loose job.
LEMMA EnqueueOrBurySettles ==
    ASSUME NEW s, NEW j \in Ids, NEW d \in Nat, NEW u, clock \in Nat,
           Loose(s, j), ~s.wal_use, NEW r \in EnqueueOrBury(s, j, d, u)
    PROVE  Settled(r.q, s)
<1>1. CASE r = [q |-> enqueue_job(s, j, d), pq |-> TRUE, ok |-> TRUE]
  BY <1>1, EnqueueSettles
<1>2. ASSUME NEW f \in EnqueueFailures(s, j, d, u),
             r = [q |-> bury_job(f, j), pq |-> FALSE, ok |-> FALSE]
      PROVE  Settled(r.q, s)
  <2>1. Near(enqueue_job(s, j, d), s, j)
    BY EnqueueWhole DEF Loose
  <2>2. f = Stamp(s, j, d)
    BY <1>2, <2>1 DEF EnqueueFailures, WalFailed, Near
  <2>3. Loose(f, j) /\ SameWaiting(f, s)
    BY <2>2, StampLoose
  <2> QED
    BY <1>2, <2>3, BurySettles, SettledTrans
<1> QED
  BY <1>1, <1>2 DEF EnqueueOrBury

\* kick_buried_job and kick_delayed_job, with their fall backs.
LEMMA KickSettles ==
    ASSUME NEW s \in Store, NEW j \in Ids, clock \in Nat, Whole(s), ~s.wal_use,
           Exact(s, Ids), NEW r,
           \/ s.job[j].state = "buried" /\ r \in kick_buried_job(s, j)
           \/ s.job[j].state = "delayed" /\ r \in kick_delayed_job(s, j)
    PROVE  Settled(r.q, s)
<1>0. Refused(s) = {}
  BY DEF Refused
<1>1. CASE s.job[j].state = "buried" /\ r \in kick_buried_job(s, j)
  <2> DEFINE x == remove_buried_job(s, j)
  <2>1. Loose(x, j) /\ SameWaiting(x, s) /\ Near(x, s, j)
    BY <1>1, RemovedLoose, RemoveNear
  <2>2. ~x.wal_use /\ r \in EnqueueOrBury(x, j, 0, TRUE)
    BY <2>1, <1>0, <1>1 DEF Near, kick_buried_job
  <2> HIDE DEF x
  <2>3. Settled(r.q, x)
    BY <2>1, <2>2, EnqueueOrBurySettles
  <2> QED
    BY <2>1, <2>3, SettledTrans
<1>2. CASE s.job[j].state = "delayed" /\ r \in kick_delayed_job(s, j)
  <2> DEFINE x == remove_delayed_job(s, j)
             d == s.job[j].delay
  <2>1. Loose(x, j) /\ SameWaiting(x, s) /\ Near(x, s, j) /\ d \in Nat
    BY <1>2, RemovedLoose, RemoveNear, JobOf DEF JobRec
  <2>2. ~x.wal_use /\ x \in Store /\ Floating(x, j)
    BY <2>1 DEF Near, Loose
  <2> HIDE DEF x
  <2>3. CASE r = [q |-> enqueue_job(x, j, 0), pq |-> TRUE, ok |-> TRUE]
    BY <2>1, <2>3, EnqueueSettles, SettledTrans
  <2>4. ASSUME NEW f \in EnqueueFailures(x, j, 0, TRUE),
               NEW b \in EnqueueOrBury(f, j, d, FALSE),
               r = [b EXCEPT !.ok = FALSE]
        PROVE  Settled(r.q, s)
    <3>1. Near(enqueue_job(x, j, 0), x, j)
      BY <2>2, EnqueueWhole
    <3>2. f = Stamp(x, j, 0)
      BY <2>2, <2>4, <3>1 DEF EnqueueFailures, WalFailed, Near
    <3>3. Loose(f, j) /\ SameWaiting(f, x)
      BY <2>1, <3>2, StampLoose
    <3>4. ~f.wal_use
      <4>1. Near(f, x, j)
        BY <2>2, <3>2, StampFloats
      <4> QED
        BY <2>2, <4>1 DEF Near
    <3>5. Settled(b.q, f)
      BY <2>1, <3>3, <3>4, EnqueueOrBurySettles
    <3>6. r.q = b.q
      BY <2>4 DEF EnqueueOrBury
    <3>7. Settled(r.q, x)
      BY <3>3, <3>5, <3>6, SettledTrans
    <3> QED
      BY <2>1, <3>7, SettledTrans
  <2> QED
    BY <1>0, <1>2, <2>3, <2>4 DEF kick_delayed_job, x
<1> QED
  BY <1>1, <1>2

-----------------------------------------------------------------------------
(* Every action keeps the tally                                            *)

Waiters == {c \in Conns : conn[c].waiting}

\* The waiting counters are those of the waiting connections.
WaitCounts ==
    /\ q.ct["waiting"] = Cardinality(Waiters)
    /\ \A t \in Tubes : q.tct[t]["waiting"] = Cardinality(waiting_conns[t])

\* The inductive invariant.
CInv == SInv /\ Exact(q, Ids) /\ WaitCounts

\* Nobody begins or stops to wait; one connection does.
WaitKept ==
    /\ SameWaiting(q', q) /\ waiting_conns' = waiting_conns
    /\ \A c \in Conns : conn'[c].waiting = conn[c].waiting

WaitAdds(ts, n) ==
    /\ q'.ct["waiting"] = q.ct["waiting"] + n
    /\ \A t \in Tubes :
            q'.tct[t]["waiting"] = q.tct[t]["waiting"] + IF t \in ts THEN n ELSE 0

WaitLeft(c) ==
    /\ Alone(c) /\ conn[c].waiting = TRUE /\ conn'[c].waiting = FALSE
    /\ waiting_conns' = Delisted(waiting_conns, c, conn[c].watch)
    /\ WaitAdds(conn[c].watch, -1)

WaitJoined(c) ==
    /\ Alone(c) /\ conn[c].state = "want_command" /\ conn'[c].waiting = TRUE
    /\ waiting_conns' = Enlisted(waiting_conns, c, conn[c].watch)
    /\ WaitAdds(conn[c].watch, 1)

Tallied ==
    /\ Exact(q', Ids)
    /\ WaitKept \/ \E c \in Conns : WaitLeft(c) \/ WaitJoined(c)

\* A step that changes at most the record of c, which waits as before.
LEMMA OneTallied ==
    ASSUME NEW c, Settled(q', q), waiting_conns' = waiting_conns,
           \A d \in Conns \ {c} : conn'[d] = conn[d],
           c \in Conns => conn'[c].waiting = conn[c].waiting
    PROVE  Tallied
BY DEF Tallied, Settled, WaitKept

\* A step that leaves the jobs alone settles nothing.
LEMMA StillSettled ==
    ASSUME SInv, Exact(q, Ids), q' = q
    PROVE  Settled(q', q)
BY Facts DEF SInv, Settled, SameWaiting

\* An answer with a line.
LEMMA AnswerTallied ==
    ASSUME SInv, NEW c \in Conns, NEW cr \in ConnRec, NEW s \in Store, NEW msg,
           cr.waiting = conn[c].waiting, cr.out_job = conn[c].out_job,
           Answer(s, c, cr, msg), waiting_conns' = waiting_conns, Settled(q', q)
    PROVE  Tallied
<1>1. Alone(c) /\ SameWait(c)
  BY AnswerLine DEF SInv
<1> QED
  BY <1>1, OneTallied DEF Alone, SameWait

\* The commands that give a job away or take it back.
LEMMA CommandsTallied ==
    ASSUME SInv, Exact(q, Ids), NEW c \in Conns, NEW j \in Ids,
           \/ delete(c, j) \/ touch(c, j) \/ kick_job(c, j)
           \/ \E p \in Pris : bury(c, j, p)
           \/ \E p \in Pris, d \in Delays : release(c, j, p, d)
    PROVE  Tallied
<1>0. /\ IInv /\ q \in Store /\ Whole(q) /\ ~q.wal_use /\ conn[c] \in ConnRec
      /\ clock \in Nat
      /\ Forgets(c) \in ConnRec /\ Forgets(c).waiting = conn[c].waiting
      /\ Forgets(c).out_job = conn[c].out_job
  BY Facts, ForgetsKeeps DEF SInv, RestOK
<1>1. SUFFICES Settled(q', q)
  <2>1. waiting_conns' = waiting_conns
    BY DEF delete, touch, kick_job, bury, release, ServerFrame
  <2>2. Answer(q', c, Forgets(c), "WORD") \/ Answer(q', c, conn[c], "WORD")
    BY DEF delete, touch, kick_job, bury, release
  <2>3. ASSUME Settled(q', q) PROVE q' \in Store
    BY <2>3 DEF Settled
  <2> QED
    BY <1>0, <2>1, <2>2, <2>3, AnswerTallied
<1> DEFINE s == remove_this_reserved_job(q, c, j)
<1>2. ASSUME is_job_reserved_by_conn(c, j)
      PROVE  Loose(s, j) /\ SameWaiting(s, q) /\ ~s.wal_use
  <2>1. ~s.wal_use
    BY <1>0, <1>2, GivenUp
  <2> QED
    BY <1>0, <1>2, <2>1, RemovedLoose DEF is_job_reserved_by_conn
<1>3. CASE delete(c, j)
  <2>1. CASE is_job_reserved_by_conn(c, j)
             /\ \E x \in {s} : \E w \in {x} \cup WalFailed(x) : q' = job_free(w, j)
    <3>1. q' = job_free(s, j)
      BY <1>2, <2>1 DEF WalFailed
    <3> HIDE DEF s
    <3> QED
      BY <1>2, <2>1, <3>1, FreeSettles, SettledTrans
  <2>2. CASE q.job[j].state \in {"ready", "buried", "delayed"}
             /\ \E x \in {Unqueue(q, j)} :
                  \E w \in {x} \cup WalFailed(x) : q' = job_free(w, j)
    <3> DEFINE x == Unqueue(q, j)
    <3>1. Near(x, q, j)
      BY <1>0, RemoveNear
    <3>2. q' = job_free(x, j)
      BY <1>0, <2>2, <3>1 DEF WalFailed, Near
    <3>3. Loose(x, j) /\ SameWaiting(x, q)
      BY <1>0, <2>2, RemovedLoose DEF Unqueue
    <3> HIDE DEF x
    <3> QED
      BY <3>2, <3>3, FreeSettles, SettledTrans
  <2> QED
    BY <1>3, <2>1, <2>2 DEF delete
<1>4. ASSUME NEW p \in Pris, NEW d \in Delays, release(c, j, p, d)
      PROVE  Settled(q', q)
  <2> DEFINE e == [s.job[j] EXCEPT !.pri = p, !.delay = d]
             x == [s EXCEPT !.job[j] = e]
  <2>1. Loose(s, j) /\ SameWaiting(s, q) /\ ~s.wal_use
    BY <1>2, <1>4 DEF release
  <2>2. p \in Nat /\ d \in Nat
    BY ConstantsOK
  <2>3. PICK r \in EnqueueOrBury(x, j, d, d > 0) : q' = r.q
    BY <1>4, <2>1 DEF release, Refused
  <2> HIDE DEF s
  <2>4. e \in JobRec /\ e.reserver = NoConn
    BY <2>1, <2>2, JobOf DEF Loose, Floating, JobRec
  <2> HIDE DEF e
  <2>5. Loose(x, j) /\ SameWaiting(x, s)
    BY <2>1, <2>4, LooseEdit
  <2>6. ~x.wal_use
    BY <2>1 DEF Loose, Store
  <2> HIDE DEF x
  <2>7. Settled(q', x)
    BY <1>0, <2>2, <2>3, <2>5, <2>6, EnqueueOrBurySettles
  <2> QED
    BY <2>1, <2>5, <2>7, SettledTrans
<1>5. ASSUME NEW p \in Pris, bury(c, j, p) PROVE Settled(q', q)
  <2> DEFINE e == [s.job[j] EXCEPT !.pri = p]
             x == [s EXCEPT !.job[j] = e]
             b == bury_job(x, j)
  <2>1. Loose(s, j) /\ SameWaiting(s, q) /\ ~s.wal_use
    BY <1>2, <1>5 DEF bury
  <2>2. p \in Nat
    BY ConstantsOK
  <2>3. q' \in {b} \cup WalFailed(b) \/ \E r \in Refused(x) : q' = r.q
    BY <1>5 DEF bury
  <2> HIDE DEF s
  <2>4. e \in JobRec /\ e.reserver = NoConn
    BY <2>1, <2>2, JobOf DEF Loose, Floating, JobRec
  <2> HIDE DEF e
  <2>5. Loose(x, j) /\ SameWaiting(x, s)
    BY <2>1, <2>4, LooseEdit
  <2>6. ~x.wal_use
    BY <2>1 DEF Loose, Store
  <2> HIDE DEF x
  <2>7. ~b.wal_use
    BY <2>5, <2>6, BuryWhole DEF Loose, Near
  <2>8. q' = b
    BY <2>3, <2>6, <2>7 DEF WalFailed, Refused
  <2>9. Settled(q', x)
    BY <2>5, <2>8, BurySettles
  <2> QED
    BY <2>1, <2>5, <2>9, SettledTrans
<1>6. CASE touch(c, j)
  <2> DEFINE v == clock + q.job[j].ttr
             e == [q.job[j] EXCEPT !.deadline_at = v]
  <2>1. q' = [q EXCEPT !.job[j] = e]
    BY <1>0, <1>6 DEF touch, Store
  <2>2. q.job[j] \in JobRec /\ v \in Nat
    BY <1>0, JobOf DEF JobRec
  <2>3. /\ e \in JobRec /\ e.state = q.job[j].state /\ e.tube = q.job[j].tube
        /\ e.pri = q.job[j].pri
    <3>1. e \in JobRec
      BY <2>2, JobRecEdit DEF JobStates
    <3> QED
      BY <2>2, <3>1 DEF JobRec
  <2> HIDE DEF e
  <2>4. /\ q' \in Store /\ SameCounters(q', q)
        /\ q'.job[j] = e /\ \A k \in Ids \ {j} : q'.job[k] = q.job[k]
    BY <1>0, <2>1, <2>3 DEF Store, SameCounters
  <2>5. \A k \in Ids, f \in JobCounters : /\ Has(q'.job[k], f) <=> Has(q.job[k], f)
                                          /\ q'.job[k].tube = q.job[k].tube
    BY <2>3, <2>4 DEF Has
  <2>6. \A f \in JobCounters : Counted(q', f, Ids) = Counted(q, f, Ids)
    BY <2>5 DEF Counted
  <2>7. \A t \in Tubes, f \in JobCounters : TubeCounted(q', t, f, Ids) = TubeCounted(q, t, f, Ids)
    BY <2>5 DEF TubeCounted
  <2> QED
    BY <2>4, <2>6, <2>7 DEF Settled, Exact, SameCounters, SameWaiting
<1>7. CASE kick_job(c, j)
  <2>1. PICK r : /\ \/ q.job[j].state = "buried" /\ r \in kick_buried_job(q, j)
                    \/ q.job[j].state = "delayed" /\ r \in kick_delayed_job(q, j)
                 /\ q' = r.q
    BY <1>7 DEF kick_job
  <2> QED
    BY <1>0, <2>1, KickSettles
<1> QED
  BY <1>3, <1>4, <1>5, <1>6, <1>7

\* A step that gives c the record n, which waits as before.
LEMMA RecordTallied ==
    ASSUME SInv, NEW c \in Conns, NEW n, conn' = [conn EXCEPT ![c] = n],
           n.waiting = conn[c].waiting, Settled(q', q), waiting_conns' = waiting_conns
    PROVE  Tallied
<1>1. conn'[c] = n /\ \A d \in Conns \ {c} : conn'[d] = conn[d]
  BY Facts DEF SInv
<1> QED
  BY <1>1, OneTallied

\* A step that leaves the connections alone.
LEMMA ServerTallied ==
    ASSUME Settled(q', q), conn' = conn, waiting_conns' = waiting_conns
    PROVE  Tallied
BY DEF Tallied, Settled, WaitKept

\* put makes a job that does not count yet.
LEMMA PutTallied ==
    ASSUME SInv, Exact(q, Ids), NEW c \in Conns, NEW p \in Pris, NEW d \in Delays,
           NEW ttr \in Ttrs, put(c, p, d, ttr)
    PROVE  Tallied
<1> DEFINE j == next_id
           e == make_job(p, d, ttr, conn[c].use)
<1>1. /\ j \in Ids /\ q \in Store /\ IInv /\ conn[c] \in ConnRec
      /\ conn \in [Conns -> ConnRec]
  BY Facts DEF put, SInv
<1>2. e \in JobRec /\ e.state = "invalid" /\ e.reserver = NoConn
  <2>1. p \in Nat /\ d \in Nat /\ ttr \in Nat /\ conn[c].use \in Tubes
    BY <1>1, Facts, ConstantsOK
  <2> QED
    BY <2>1, NewJobType
<1>3. q.job[j].state = "none"
  BY <1>1, ConstantsOK DEF IInv, FreshIds, Ids
<1>4. q' = [q EXCEPT !.job[j] = e]
  BY DEF put
<1> HIDE DEF e
<1>5. /\ q' \in Store /\ SameCounters(q', q) /\ q'.job[j] = e
      /\ \A k \in Ids \ {j} : q'.job[k] = q.job[k]
  BY <1>1, <1>2, <1>4 DEF Store, SameCounters
<1>6. Exact(q, Ids \ {j})
  BY <1>1, <1>3, NoWeight
<1>7. Exact(q', Ids)
  BY <1>1, <1>2, <1>5, <1>6, EditCounts, NoWeight DEF Others
<1>8. Settled(q', q)
  BY <1>5, <1>7 DEF Settled, SameWaiting, SameCounters
<1>9. /\ \A x \in Conns \ {c} : conn'[x] = conn[x]
      /\ conn'[c].waiting = conn[c].waiting /\ waiting_conns' = waiting_conns
  <2>1. conn' = [conn EXCEPT ![c].in_job = j, ![c].state = "want_data"]
        /\ waiting_conns' = waiting_conns
    BY DEF put
  <2> QED
    BY <1>1, <2>1 DEF ConnRec
<1> QED
  BY <1>8, <1>9, OneTallied

\* The end of an upload.
LEMMA IncomingTallied ==
    ASSUME SInv, Exact(q, Ids), NEW c \in Conns, enqueue_incoming_job(c)
    PROVE  Tallied
<1> DEFINE j == conn[c].in_job
           cr == [conn[c] EXCEPT !.in_job = Nil]
<1>0. IInv /\ conn[c].state = "want_data"
  BY DEF SInv, enqueue_incoming_job
<1>1. /\ j \in Ids /\ q.job[j].state = "invalid" /\ q \in Store /\ Whole(q)
      /\ ~q.wal_use /\ clock \in Nat
  BY <1>0, Facts DEF IInv, Owners, ConnRec, RestOK
<1>2. Loose(q, j) /\ q.job[j].delay \in Nat
  BY <1>1, RemovedLoose, JobOf DEF JobRec
<1>3. cr \in ConnRec /\ cr.waiting = conn[c].waiting /\ cr.out_job = conn[c].out_job
  BY <1>0, Facts DEF ConnRec
<1>4. Answer(q', c, cr, "WORD") /\ waiting_conns' = waiting_conns
  BY DEF enqueue_incoming_job, ServerFrame
<1> HIDE DEF cr
<1>5. ASSUME q' = job_free(q, j) PROVE Settled(q', q)
  BY <1>1, <1>2, <1>5, FreeSettles
<1>6. ASSUME \E r \in Refused(q) \cup EnqueueOrBury(q, j, q.job[j].delay, TRUE) : q' = r.q
      PROVE  Settled(q', q)
  <2>1. PICK r \in EnqueueOrBury(q, j, q.job[j].delay, TRUE) : q' = r.q
    BY <1>1, <1>6 DEF Refused
  <2> QED
    BY <1>1, <1>2, <2>1, EnqueueOrBurySettles
<1>7. Settled(q', q)
  BY <1>5, <1>6 DEF enqueue_incoming_job
<1>8. q' \in Store
  BY <1>7 DEF Settled
<1> QED
  BY <1>3, <1>4, <1>7, <1>8, AnswerTallied

\* reserve-job.
LEMMA ReserveJobTallied ==
    ASSUME SInv, Exact(q, Ids), NEW c \in Conns, NEW j \in Ids, reserve_job(c, j)
    PROVE  Tallied
<1> DEFINE x == Unqueue(q, j)
           g == Granted(q', conn[c], j)
           n == reply_job(q', c, g, j, "RESERVED")
<1>0. /\ IInv /\ waiting_conns' = waiting_conns
      /\ q.job[j].state \in {"ready", "buried", "delayed"}
  BY DEF SInv, reserve_job, ServerFrame
<1>1. /\ q \in Store /\ Whole(q) /\ clock \in Nat
      /\ conn[c] \in ConnRec /\ Held(q, c, conn[c])
  BY <1>0, Facts DEF RestOK
<1>2. /\ x \in Store /\ Floating(x, j) /\ Near(x, q, j) /\ Loose(x, j)
      /\ SameWaiting(x, q)
  <2>1. x \in Store /\ Floating(x, j) /\ Near(x, q, j)
    BY <1>0, <1>1, StoreSteps, UnqueueFloats, RemoveNear
  <2>2. Loose(x, j) /\ SameWaiting(x, q)
    BY <1>0, <1>1, RemovedLoose DEF Unqueue
  <2> QED
    BY <2>1, <2>2
<1>3. q' = ReserveFor(x, c, j)
  BY DEF reserve_job
<1> HIDE DEF x
<1>4. q' \in Store /\ Near(q', q, j) /\ j \in Range(q'.reserved_jobs[c])
  BY <1>1, <1>2, <1>3, ReserveForType, ReserveWhole, NearTrans
<1>5. Held(q', c, conn[c])
  BY <1>0, <1>1, <1>4, HeldNear, NotReserved
<1>6. g \in ConnRec /\ g.waiting = conn[c].waiting
  <2>1. g \in ConnRec
    BY <1>1, <1>4, <1>5, GrantedType
  <2>2. g.waiting = conn[c].waiting
    BY <1>1, <1>2, <1>3, ReserveEnds
  <2> QED
    BY <2>1, <2>2
<1> HIDE DEF g
<1>7. n.waiting = conn[c].waiting
  BY <1>4, <1>6, ReplyJobKeeps
<1>8. conn' = [conn EXCEPT ![c] = n]
  BY DEF reserve_job, g
<1> HIDE DEF n
<1>9. Settled(q', q)
  BY <1>1, <1>2, <1>3, ReserveSettles, SettledTrans
<1> QED
  BY <1>0, <1>7, <1>8, <1>9, RecordTallied

\* The commands about tubes, and the ones that only look.
LEMMA TubesTallied ==
    ASSUME SInv, Exact(q, Ids), NEW c \in Conns,
           \/ \E t \in Tubes : \/ use(c, t) \/ watch(c, t) \/ ignore(c, t)
                               \/ \E d \in Delays : pause_tube(c, t, d)
           \/ refuse(c) \/ inspect(c)
    PROVE  Tallied
<1>1. q' = q /\ waiting_conns' = waiting_conns
  BY DEF use, watch, ignore, pause_tube, refuse, inspect, JobFrame
<1>2. q \in Store /\ conn[c] \in ConnRec /\ Settled(q', q)
  BY <1>1, Facts, StillSettled DEF SInv
<1>3. ASSUME NEW u \in Tubes, NEW w \in SUBSET Tubes
      PROVE  /\ [conn[c] EXCEPT !.use = u] \in ConnRec
             /\ [conn[c] EXCEPT !.watch = w] \in ConnRec
             /\ [conn[c] EXCEPT !.use = u].waiting = conn[c].waiting
             /\ [conn[c] EXCEPT !.watch = w].waiting = conn[c].waiting
             /\ [conn[c] EXCEPT !.use = u].out_job = conn[c].out_job
             /\ [conn[c] EXCEPT !.watch = w].out_job = conn[c].out_job
  BY <1>2 DEF ConnRec
<1>4. ASSUME NEW t \in Tubes, use(c, t) PROVE Tallied
  <2>1. Answer(q, c, [conn[c] EXCEPT !.use = t], "WORD")
    BY <1>4 DEF use
  <2> QED
    BY <1>1, <1>2, <1>3, <2>1, AnswerTallied
<1>5. ASSUME NEW t \in Tubes, watch(c, t) \/ ignore(c, t) PROVE Tallied
  <2>1. PICK w \in SUBSET Tubes : Answer(q, c, [conn[c] EXCEPT !.watch = w], "WORD")
    <3>1. /\ conn[c].watch \cup {t} \in SUBSET Tubes
          /\ conn[c].watch \ {t} \in SUBSET Tubes
      BY <1>2 DEF ConnRec
    <3> QED
      BY <1>5, <3>1 DEF watch, ignore
  <2> QED
    BY <1>1, <1>2, <1>3, <2>1, AnswerTallied
<1>6. CASE refuse(c) \/ \E t \in Tubes, d \in Delays : pause_tube(c, t, d)
  <2>1. Answer(q, c, conn[c], "WORD")
    BY <1>6 DEF pause_tube, refuse
  <2> QED
    BY <1>1, <1>2, <2>1, AnswerTallied
<1>7. CASE inspect(c)
  <2> DEFINE n == reply_job(q, c, conn[c], Copy, "WORD")
  <2>1. n.waiting = conn[c].waiting
    BY <1>2, ReplyJobKeeps
  <2>2. conn' = [conn EXCEPT ![c] = n]
    BY <1>7 DEF inspect
  <2> HIDE DEF n
  <2> QED
    BY <1>1, <1>2, <2>1, <2>2, RecordTallied
<1> QED
  BY <1>4, <1>5, <1>6, <1>7

\* h_accept, conn_want_command and the end of connclose: not waiting before,
\* not waiting after.
LEMMA BeginsTallied ==
    ASSUME SInv, Exact(q, Ids),
           close_end \/ \E c \in Conns : h_accept(c) \/ conn_want_command(c)
    PROVE  Tallied
<1>1. IInv /\ q \in Store /\ q' = q /\ waiting_conns' = waiting_conns
  BY Facts DEF SInv, h_accept, conn_want_command, close_end, JobFrame
<1>2. Settled(q', q)
  BY <1>1, StillSettled
<1>3. ASSUME NEW c \in Conns, conn[c].state # "wait" PROVE conn[c].waiting = FALSE
  BY <1>1, <1>3, Facts DEF SInv, WaitingSetsAgree, ConnRec
<1>4. ASSUME NEW c \in Conns, h_accept(c) PROVE Tallied
  <2>1. conn[c].waiting = FALSE /\ NewConn.waiting = FALSE
    BY <1>3, <1>4 DEF h_accept, NewConn
  <2>2. CASE conn' = [conn EXCEPT ![c] = NewConn]
    BY <1>1, <1>2, <2>1, <2>2, RecordTallied
  <2>3. CASE conn' = conn
    BY <1>1, <1>2, <2>3, ServerTallied
  <2> QED
    BY <1>4, <2>2, <2>3 DEF h_accept
<1>5. ASSUME NEW c \in Conns, conn_want_command(c) PROVE Tallied
  <2> DEFINE m == connsched(q, c, conn[c])
             n == [m EXCEPT !.out_job = Nil, !.reply = "none",
                            !.state = "want_command"]
  <2>1. conn[c] \in ConnRec /\ Held(q, c, conn[c]) /\ clock \in Nat
    BY <1>1, Facts DEF RestOK
  <2>2. m \in ConnRec /\ m.waiting = conn[c].waiting
    BY <1>1, <2>1, ConnSched, SchedKeeps
  <2>3. conn' = [conn EXCEPT ![c] = n]
    BY <1>5 DEF conn_want_command
  <2> HIDE DEF m
  <2>4. n.waiting = conn[c].waiting
    BY <2>2 DEF ConnRec
  <2> HIDE DEF n
  <2> QED
    BY <1>1, <1>2, <2>3, <2>4, RecordTallied
<1>6. CASE close_end
  <2>1. task.conn \in Conns /\ conn[task.conn].state = "closing"
    BY <1>1, <1>6, Facts DEF IInv, TaskServes, SInv, Busy, close_end, Closing
  <2>2. conn[task.conn].waiting = FALSE /\ ClosedConn.waiting = FALSE
    BY <1>3, <2>1 DEF ClosedConn, NewConn
  <2>3. conn' = [conn EXCEPT ![task.conn] = ClosedConn]
    BY <1>6 DEF close_end
  <2> QED
    BY <1>1, <1>2, <2>1, <2>2, <2>3, RecordTallied
<1> QED
  BY <1>4, <1>5, <1>6

\* The steps that touch neither jobs nor connections.
LEMMA StillTallied ==
    ASSUME SInv, Exact(q, Ids),
           \/ tick_unpause \/ tick_end \/ Wake \/ AdvanceClock \/ enter_drain_mode
           \/ \E c \in Conns, n \in KickBounds : kick(c, n)
    PROVE  Tallied
<1>1. q' = q /\ conn' = conn /\ waiting_conns' = waiting_conns
  BY DEF tick_unpause, tick_end, Wake, AdvanceClock, enter_drain_mode, kick,
         JobFrame, ServerFrame
<1> QED
  BY <1>1, StillSettled, ServerTallied

\* The loop of kick.
LEMMA KickTallied ==
    ASSUME SInv, Exact(q, Ids), kick_jobs \/ kick_end
    PROVE  Tallied
<1>1. /\ q \in Store /\ Whole(q) /\ ~q.wal_use /\ clock \in Nat /\ IInv
      /\ task.conn \in Conns /\ conn[task.conn].use \in Tubes
      /\ conn[task.conn] \in ConnRec
  BY Facts DEF RestOK, SInv, IInv, TaskServes, kick_jobs, kick_end, Kicking
<1>2. CASE kick_jobs
  <2> DEFINE t == conn[task.conn].use
  <2>1. PICK j \in Kickable(t) :
            \E r \in IF task.buried THEN kick_buried_job(q, j)
                                    ELSE kick_delayed_job(q, j) : q' = r.q
    BY <1>2 DEF kick_jobs
  <2>2. PICK r \in IF task.buried THEN kick_buried_job(q, j)
                                  ELSE kick_delayed_job(q, j) : q' = r.q
    BY <2>1
  <2>3. /\ j \in Ids
        /\ IF task.buried THEN q.job[j].state = "buried" ELSE q.job[j].state = "delayed"
    BY <1>1, KickableJobs
  <2>4. Settled(q', q)
    BY <1>1, <2>2, <2>3, KickSettles
  <2>5. conn' = conn /\ waiting_conns' = waiting_conns
    BY <1>2 DEF kick_jobs, ServerFrame
  <2> QED
    BY <2>4, <2>5, ServerTallied
<1>3. CASE kick_end
  <2>1. /\ Answer(q, task.conn, conn[task.conn], "WORD") /\ q' = q
        /\ waiting_conns' = waiting_conns
    BY <1>3 DEF kick_end, ServerFrame
  <2> QED
    BY <1>1, <2>1, StillSettled, AnswerTallied
<1> QED
  BY <1>2, <1>3

\* The server takes back a reservation of c.
LEMMA LosesTallied ==
    ASSUME SInv, Exact(q, Ids), NEW c \in Conns, NEW j \in Range(q.reserved_jobs[c]),
           NEW r \in EnqueueOrBury(remove_this_reserved_job(q, c, j), j, 0, FALSE),
           q' = r.q, NEW n, conn' = [conn EXCEPT ![c] = n],
           n.waiting = conn[c].waiting, waiting_conns' = waiting_conns
    PROVE  Tallied
<1> DEFINE s == remove_this_reserved_job(q, c, j)
<1>1. IInv /\ q \in Store /\ Whole(q) /\ clock \in Nat /\ q.reserved_jobs[c] \in Seq(Ids)
  BY Facts DEF SInv, RestOK, Store
<1>2. j \in Ids
  BY <1>1, RangeInIds
<1>3. q.job[j].state = "reserved" /\ q.job[j].reserver = c
  BY <1>1, <1>2 DEF Whole, Placed
<1>4. Loose(s, j) /\ SameWaiting(s, q) /\ ~s.wal_use
  <2>1. ~s.wal_use
    BY <1>1, <1>2, <1>3, GivenUp DEF is_job_reserved_by_conn
  <2> QED
    BY <1>1, <1>2, <1>3, <2>1, RemovedLoose
<1>5. r \in EnqueueOrBury(s, j, 0, FALSE)
  OBVIOUS
<1> HIDE DEF s
<1>6. Settled(q', s)
  BY <1>1, <1>2, <1>4, <1>5, EnqueueOrBurySettles
<1>7. Settled(q', q)
  BY <1>4, <1>6, SettledTrans
<1> QED
  BY <1>7, RecordTallied

\* The loop of connclose, and that of conn_timeout.
LEMMA TakesBackTallied ==
    ASSUME SInv, Exact(q, Ids), enqueue_reserved_jobs \/ timeout_job
    PROVE  Tallied
<1>c. PICK c : c = task.conn
  OBVIOUS
<1>1. /\ IInv /\ c \in Conns /\ q \in Store /\ conn[c] \in ConnRec
      /\ Held(q, c, conn[c]) /\ q.reserved_jobs[c] \in Seq(Ids)
      /\ waiting_conns' = waiting_conns
  <2>1. IInv /\ c \in Conns /\ q \in Store /\ waiting_conns' = waiting_conns
    BY <1>c, Facts DEF SInv, IInv, TaskServes, enqueue_reserved_jobs, timeout_job,
                       Closing, TimingOut, ServerFrame
  <2> QED
    BY <2>1, Facts DEF Store
<1> DEFINE f == Forgets(c)
<1>2. f \in ConnRec /\ f.waiting = conn[c].waiting
  BY <1>1, ForgetsKeeps
<1>3. CASE enqueue_reserved_jobs
  <2> DEFINE j == q.reserved_jobs[c][1]
  <2>1. j \in Range(q.reserved_jobs[c])
    <3>1. 1 \in DOMAIN q.reserved_jobs[c]
      BY <1>c, <1>1, <1>3 DEF enqueue_reserved_jobs
    <3> QED
      BY <3>1 DEF Range
  <2>2. PICK r \in EnqueueOrBury(remove_this_reserved_job(q, c, j), j, 0, FALSE) :
            q' = r.q
    BY <1>c, <1>3 DEF enqueue_reserved_jobs
  <2>3. conn' = [conn EXCEPT ![c] = f]
    BY <1>c, <1>3 DEF enqueue_reserved_jobs
  <2> HIDE DEF j, f
  <2> QED
    BY <1>1, <1>2, <2>1, <2>2, <2>3, LosesTallied
<1>4. CASE timeout_job
  <2> DEFINE k == connsoonestjob(q, c, conn[c])
  <2>1. PICK r \in EnqueueOrBury(remove_this_reserved_job(q, c, k), k, 0, FALSE) :
            q' = r.q
    BY <1>c, <1>4 DEF timeout_job
  <2>2. k # Nil
    BY <1>c, <1>4 DEF timeout_job, Expired
  <2>3. k \in Range(q.reserved_jobs[c])
    BY <1>1, <2>2, SoonestType
  <2>4. PICK o : conn' = [conn EXCEPT ![c] = [f EXCEPT !.out_job = o]]
    <3>1. PICK copy : conn' = [conn EXCEPT ![c] =
                                [f EXCEPT !.out_job = IF @ = k THEN copy ELSE @]]
      BY <1>c, <1>4 DEF timeout_job
    <3>2. conn' = [conn EXCEPT ![c] =
                    [f EXCEPT !.out_job = IF f.out_job = k THEN copy ELSE f.out_job]]
      BY <1>2, <3>1 DEF ConnRec
    <3> QED
      BY <3>2
  <2> DEFINE n == [f EXCEPT !.out_job = o]
  <2>6. conn' = [conn EXCEPT ![c] = n]
    BY <2>4
  <2> HIDE DEF f, k
  <2>5. n.waiting = conn[c].waiting
    BY <1>2 DEF ConnRec
  <2> HIDE DEF n
  <2> QED
    BY <1>1, <2>1, <2>3, <2>5, <2>6, LosesTallied
<1> QED
  BY <1>3, <1>4

\* The other iterations of prottick and conn_timeout.
LEMMA TickTallied ==
    ASSUME SInv, Exact(q, Ids), tick_delayed \/ tick_conn \/ timeout_resched
    PROVE  Tallied
<1>1. /\ IInv /\ q \in Store /\ Whole(q) /\ ~q.wal_use /\ clock \in Nat
      /\ waiting_conns' = waiting_conns
  BY Facts DEF SInv, RestOK, tick_delayed, tick_conn, timeout_resched, ServerFrame,
               JobFrame
<1>2. CASE tick_delayed
  <2>1. PICK j \in DueJobs(task.now) :
            \E r \in EnqueueOrBury(remove_delayed_job(q, j), j, 0, FALSE) : q' = r.q
    BY <1>2 DEF tick_delayed
  <2>2. j \in Ids /\ q.job[j].state = "delayed"
    <3>1. PICK t \in Tubes : j \in q.delay[t]
      BY DEF DueJobs, Delayed
    <3>2. j \in Ids
      BY <1>1, <3>1 DEF Store
    <3> QED
      BY <1>1, <3>1, <3>2 DEF Whole, Placed
  <2> DEFINE s == remove_delayed_job(q, j)
  <2>3. Near(s, q, j) /\ Loose(s, j) /\ SameWaiting(s, q)
    BY <1>1, <2>2, RemoveNear, RemovedLoose
  <2>4. PICK r \in EnqueueOrBury(s, j, 0, FALSE) : q' = r.q
    BY <2>1
  <2>5. ~s.wal_use
    BY <1>1, <2>3 DEF Near
  <2> HIDE DEF s
  <2>6. Settled(q', s)
    BY <1>1, <2>2, <2>3, <2>4, <2>5, EnqueueOrBurySettles
  <2>7. Settled(q', q) /\ conn' = conn
    BY <1>2, <2>3, <2>6, SettledTrans DEF tick_delayed
  <2> QED
    BY <1>1, <2>7, ServerTallied
<1>3. CASE tick_conn
  <2>1. PICK c \in Conns : conn' = [conn EXCEPT ![c].in_conns = FALSE]
    BY <1>3 DEF tick_conn, DueConns, DueRoots
  <2> DEFINE n == [conn[c] EXCEPT !.in_conns = FALSE]
  <2>2. n.waiting = conn[c].waiting /\ conn' = [conn EXCEPT ![c] = n]
    <3>1. conn[c] \in ConnRec
      BY <1>1, Facts
    <3> QED
      BY <2>1, <3>1 DEF ConnRec
  <2> HIDE DEF n
  <2>3. Settled(q', q)
    BY <1>3, StillSettled DEF tick_conn, JobFrame
  <2> QED
    BY <1>1, <2>2, <2>3, RecordTallied
<1>4. CASE timeout_resched
  <2> DEFINE c == task.conn
             n == connsched(q, c, conn[c])
  <2>1. c \in Conns
    BY <1>1, <1>4 DEF IInv, TaskServes, timeout_resched
  <2>2. n.waiting = conn[c].waiting
    BY <1>1, <2>1, Facts, SchedKeeps
  <2>3. conn' = [conn EXCEPT ![c] = n]
    BY <1>4 DEF timeout_resched
  <2>4. Settled(q', q)
    BY <1>4, StillSettled DEF timeout_resched, JobFrame
  <2> HIDE DEF n, c
  <2> QED
    BY <1>1, <2>1, <2>2, <2>3, <2>4, RecordTallied
<1> QED
  BY <1>2, <1>3, <1>4

-----------------------------------------------------------------------------
(* The steps in which a connection begins or stops to wait                 *)

\* From s to r one connection more (n = 1) or less waits for the tubes ts.
WaitShift(r, s, ts, n) ==
    /\ r.job = s.job
    /\ r.ct["waiting"] = s.ct["waiting"] + n
    /\ \A f \in JobCounters : r.ct[f] = s.ct[f]
    /\ \A t \in Tubes : r.tct[t]["waiting"]
                         = s.tct[t]["waiting"] + IF t \in ts THEN n ELSE 0
    /\ \A t \in Tubes, f \in JobCounters : r.tct[t][f] = s.tct[t][f]

\* CountWaiting counts it.
LEMMA CountWaitingAdds ==
    ASSUME NEW s \in Store, NEW ts \in SUBSET Tubes, NEW n \in Int
    PROVE  WaitShift(CountWaiting(s, ts, n), s, ts, n)
<1> DEFINE r == CountWaiting(s, ts, n)
           a == [s.ct EXCEPT !["waiting"] = @ + n]
           b == [t \in Tubes |-> [s.tct[t] EXCEPT !["waiting"] =
                                    IF t \in ts THEN @ + n ELSE @]]
<1>1. r.ct = a /\ r.tct = b
  BY DEF CountWaiting, Store
<1>2. r.job = s.job
  BY CountWaitingPlaces DEF SamePlaces
<1>3. s.ct \in [Counters -> Int] /\ s.tct \in [Tubes -> [Counters -> Int]]
      /\ "waiting" \in Counters /\ JobCounters \subseteq Counters \ {"waiting"}
  BY DEF Store, Counters, JobCounters
<1>4. a["waiting"] = s.ct["waiting"] + n /\ \A f \in JobCounters : a[f] = s.ct[f]
  BY <1>3
<1>5. \A t \in Tubes :
        /\ b[t]["waiting"] = s.tct[t]["waiting"] + IF t \in ts THEN n ELSE 0
        /\ \A f \in JobCounters : b[t][f] = s.tct[t][f]
  BY <1>3
<1> HIDE DEF a, b, r
<1>6. WaitShift(r, s, ts, n)
  BY <1>1, <1>2, <1>4, <1>5 DEF WaitShift
<1> QED
  BY <1>6 DEF r

\* It does not count jobs.
LEMMA CountWaitingExact ==
    ASSUME NEW s \in Store, NEW ts \in SUBSET Tubes, NEW n \in Int, NEW X, Exact(s, X)
    PROVE  Exact(CountWaiting(s, ts, n), X)
<1> DEFINE r == CountWaiting(s, ts, n)
<1>1. WaitShift(r, s, ts, n)
  BY CountWaitingAdds
<1> HIDE DEF r
<1>2. Exact(r, X)
  BY <1>1 DEF Exact, Counted, TubeCounted, WaitShift
<1> QED
  BY <1>2 DEF r

\* The waiting branch of reserve.
LEMMA ReserveTallied ==
    ASSUME SInv, Exact(q, Ids), NEW c \in Conns, NEW timeout \in Timeouts \cup {-1},
           reserve(c, timeout)
    PROVE  Tallied
<1>0. IInv /\ conn[c].state = "want_command"
  BY DEF SInv, reserve, Command
<1>1. /\ q \in Store /\ conn[c] \in ConnRec /\ timeout \in Int /\ 1 \in Int
      /\ conn[c].watch \in SUBSET Tubes
  BY <1>0, Facts, ConstantsOK DEF ConnRec
<1>2. CASE Answer(q, c, conn[c], "DEADLINE_SOON") /\ q' = q
           /\ waiting_conns' = waiting_conns
  BY <1>1, <1>2, StillSettled, AnswerTallied
<1>3. CASE wait_for_job(c, timeout)
  <2> DEFINE w == IF timeout < 0 THEN 0 ELSE clock + timeout
             cr == [conn[c] EXCEPT !.state = "wait", !.waiting = TRUE,
                                   !.pending_timeout = timeout, !.until = w]
             n == connsched(q, c, cr)
  <2>0. w \in Nat
    BY <1>0, <1>1, Facts DEF RestOK
  <2>1. cr \in ConnRec /\ cr.waiting = TRUE /\ cr.watch = conn[c].watch
    <3> HIDE DEF w
    <3> QED
      BY <1>1, <2>0 DEF ConnRec, ConnStates
  <2>2. /\ q' = CountWaiting(q, conn[c].watch, 1) /\ conn' = [conn EXCEPT ![c] = n]
        /\ waiting_conns' = Enlisted(waiting_conns, c, conn[c].watch)
    BY <1>3, <2>1 DEF wait_for_job
  <2> HIDE DEF cr
  <2>3. n.waiting = TRUE
    BY <1>1, <2>1, SchedKeeps
  <2> HIDE DEF n
  <2>4. conn'[c] = n /\ Alone(c)
    BY <1>0, <2>2, Facts DEF Alone
  <2>5. WaitAdds(conn[c].watch, 1)
    <3>1. WaitShift(q', q, conn[c].watch, 1)
      BY <1>1, <2>2, CountWaitingAdds
    <3> QED
      BY <3>1 DEF WaitAdds, WaitShift
  <2>6. Exact(q', Ids)
    BY <1>1, <2>2, CountWaitingExact
  <2>7. WaitJoined(c)
    BY <1>0, <2>2, <2>3, <2>4, <2>5 DEF WaitJoined
  <2> QED
    BY <2>6, <2>7 DEF Tallied
<1> QED
  BY <1>2, <1>3 DEF reserve

\* c stops waiting and is told so.
LEMMA StopsTallied ==
    ASSUME SInv, Exact(q, Ids), NEW c \in Conns, NEW cr \in ConnRec,
           cr.waiting = conn[c].waiting, cr.watch = conn[c].watch,
           cr.out_job = conn[c].out_job, NEW msg, StopWaiting(c, cr, msg),
           next_id' = next_id
    PROVE  Tallied
<1>1. /\ IInv /\ q \in Store /\ conn[c].watch \in SUBSET Tubes
      /\ conn[c].waiting \in BOOLEAN
  BY Facts DEF SInv, ConnRec
<1>2. Alone(c) /\ Unlisted(c)
  BY <1>1, StopWaitingKeeps DEF Stops
<1>3. -1 \in Int
  OBVIOUS
<1>4. q' = IF conn[c].waiting THEN CountWaiting(q, conn[c].watch, -1) ELSE q
  BY DEF StopWaiting
<1>5. CASE conn[c].waiting = TRUE
  <2>1. q' = CountWaiting(q, conn[c].watch, -1)
    BY <1>4, <1>5
  <2>2. WaitAdds(conn[c].watch, -1)
    <3>1. WaitShift(q', q, conn[c].watch, -1)
      BY <1>1, <1>3, <2>1, CountWaitingAdds
    <3> QED
      BY <3>1 DEF WaitAdds, WaitShift
  <2>3. Exact(q', Ids)
    BY <1>1, <1>3, <2>1, CountWaitingExact
  <2>4. WaitLeft(c)
    BY <1>2, <1>5, <2>2 DEF WaitLeft, Unlisted
  <2> QED
    BY <2>3, <2>4 DEF Tallied
<1>6. CASE conn[c].waiting = FALSE
  <2>1. q' = q /\ waiting_conns' = waiting_conns /\ conn'[c].waiting = conn[c].waiting
    BY <1>2, <1>4, <1>6 DEF Unlisted
  <2> QED
    BY <1>2, <2>1, StillSettled, OneTallied DEF Alone
<1> QED
  BY <1>1, <1>5, <1>6

\* A hang-up, and the end of conn_timeout.
LEMMA EndsTallied ==
    ASSUME SInv, Exact(q, Ids), timeout_end \/ \E c \in Conns : hangup(c)
    PROVE  Tallied
<1>0. IInv /\ q \in Store
  BY Facts DEF SInv
<1>m. PICK m \in Int : m = -1
  OBVIOUS
<1>1. ASSUME NEW c \in Conns, hangup(c) PROVE Tallied
  <2> DEFINE cr == [conn[c] EXCEPT !.pending_timeout = m]
  <2>1. conn[c] \in ConnRec
    BY <1>0, Facts
  <2>2. /\ cr \in ConnRec /\ cr.waiting = conn[c].waiting /\ cr.watch = conn[c].watch
        /\ cr.out_job = conn[c].out_job
    BY <2>1 DEF ConnRec
  <2>3. StopWaiting(c, cr, "TIMED_OUT") /\ next_id' = next_id
    BY <1>1, <1>m DEF hangup
  <2> HIDE DEF cr
  <2> QED
    BY <2>2, <2>3, StopsTallied
<1>2. CASE timeout_end
  <2>c. PICK c : c = task.conn
    OBVIOUS
  <2> DEFINE k == connsoonestjob(q, c, conn[c])
             cr == [conn[c] EXCEPT !.soonest_job = k]
             ct == [cr EXCEPT !.pending_timeout = m]
  <2>1. c \in Conns /\ next_id' = next_id
    BY <2>c, <1>0, <1>2 DEF IInv, TaskServes, timeout_end, TimingOut
  <2>2. conn[c] \in ConnRec /\ k \in Ids \cup {Nil}
    BY <1>0, <2>1, Facts, SoonestType
  <2>3. \/ StopWaiting(c, cr, "DEADLINE_SOON")
        \/ StopWaiting(c, ct, "TIMED_OUT")
        \/ /\ conn' = [conn EXCEPT ![c] = cr] /\ q' = q
           /\ waiting_conns' = waiting_conns
    BY <1>m, <1>2, <2>c DEF timeout_end
  <2> HIDE DEF k
  <2>4. /\ cr \in ConnRec /\ cr.waiting = conn[c].waiting /\ cr.watch = conn[c].watch
        /\ cr.out_job = conn[c].out_job
    BY <2>2 DEF ConnRec
  <2> HIDE DEF cr
  <2>5. /\ ct \in ConnRec /\ ct.waiting = conn[c].waiting /\ ct.watch = conn[c].watch
        /\ ct.out_job = conn[c].out_job
    BY <2>4 DEF ConnRec
  <2> HIDE DEF ct
  <2>6. CASE StopWaiting(c, cr, "DEADLINE_SOON") \/ StopWaiting(c, ct, "TIMED_OUT")
    BY <2>1, <2>4, <2>5, <2>6, StopsTallied
  <2>7. CASE /\ conn' = [conn EXCEPT ![c] = cr] /\ q' = q
             /\ waiting_conns' = waiting_conns
    BY <2>1, <2>4, <2>7, StillSettled, RecordTallied
  <2> QED
    BY <2>3, <2>6, <2>7
<1> QED
  BY <1>1, <1>2

\* The waiting counters over three stores.
LEMMA WaitAddsFrom ==
    ASSUME NEW x, NEW y, NEW z, NEW w, NEW ts, NEW n, SameWaiting(x, w),
           WaitShift(y, x, ts, n), SameWaiting(z, y)
    PROVE  /\ z.ct["waiting"] = w.ct["waiting"] + n
           /\ \A t \in Tubes :
                z.tct[t]["waiting"] = w.tct[t]["waiting"] + IF t \in ts THEN n ELSE 0
BY DEF SameWaiting, WaitShift

\* A hand-over: the job is counted again, the connection no more.
LEMMA HandOverTallied ==
    ASSUME SInv, Exact(q, Ids), NEW j \in Ids, NEW c \in Conns,
           q.job[j].state = "ready", c \in waiting_conns[q.job[j].tube],
           HandOver(j, c)
    PROVE  Tallied
<1> DEFINE x == remove_ready_job(q, j)
           y == CountWaiting(x, conn[c].watch, -1)
           s == ReserveFor(y, c, j)
           cr == [conn[c] EXCEPT !.waiting = FALSE, !.until = 0]
           g == Granted(s, cr, j)
           n == reply_job(s, c, g, j, "RESERVED")
<1>0. IInv /\ q \in Store /\ Whole(q) /\ clock \in Nat /\ q.job[j].tube \in Tubes
  BY Facts, JobOf DEF SInv, RestOK
<1>1. -1 \in Int
  OBVIOUS
<1>2. /\ conn[c] \in ConnRec /\ Held(q, c, conn[c]) /\ conn[c].watch \in SUBSET Tubes
      /\ conn[c].waiting = TRUE
  BY <1>0, Facts DEF SInv, WaitingSetsAgree, ConnRec
<1>3. Loose(x, j) /\ SameWaiting(x, q) /\ Near(x, q, j)
  <2>1. x = Unqueue(q, j)
    BY DEF Unqueue
  <2> QED
    BY <1>0, <2>1, RemovedLoose, RemoveNear
<1> HIDE DEF x
<1>4. /\ y \in Store /\ SamePlaces(y, x) /\ WaitShift(y, x, conn[c].watch, -1)
      /\ Exact(y, Ids \ {j})
  BY <1>1, <1>2, <1>3, CountWaitingType, CountWaitingPlaces, CountWaitingAdds,
     CountWaitingExact DEF Loose
<1>5. Floating(y, j) /\ Near(y, q, j)
  BY <1>3, <1>4, SamePlacesKeep DEF Near, SamePlaces, Loose
<1>6. q' = s /\ conn' = [conn EXCEPT ![c] = n]
      /\ waiting_conns' = Delisted(waiting_conns, c, conn[c].watch)
  BY DEF HandOver, x
<1> HIDE DEF y
<1>7. Settled(s, y)
  BY <1>0, <1>4, <1>5, ReserveSettles DEF Loose
<1>8. s \in Store /\ Near(s, q, j) /\ j \in Range(s.reserved_jobs[c])
  BY <1>0, <1>4, <1>5, ReserveForType, ReserveWhole, NearTrans
<1>9. cr \in ConnRec /\ cr.waiting = FALSE /\ cr.soonest_job = conn[c].soonest_job
  BY <1>2 DEF ConnRec
<1>10. Held(s, c, cr)
  <2>1. Held(s, c, conn[c])
    BY <1>0, <1>2, <1>8, HeldNear, NotReserved
  <2> QED
    BY <2>1, <1>9 DEF Held
<1> HIDE DEF cr
<1>11. g \in ConnRec /\ g.waiting = FALSE
  <2>1. g.waiting = cr.waiting
    BY <1>4, <1>9, ReserveEnds
  <2> HIDE DEF s
  <2>2. g \in ConnRec
    BY <1>8, <1>9, <1>10, GrantedType
  <2> QED
    BY <1>9, <2>1, <2>2
<1> HIDE DEF s, g
<1>12. n.waiting = FALSE
  BY <1>8, <1>11, ReplyJobKeeps
<1> HIDE DEF n
<1>13. conn'[c] = n /\ Alone(c)
  BY <1>0, <1>6, Facts DEF Alone
<1>14. WaitAdds(conn[c].watch, -1)
  BY <1>3, <1>4, <1>6, <1>7, WaitAddsFrom DEF WaitAdds, Settled
<1>15. WaitLeft(c)
  BY <1>2, <1>6, <1>12, <1>13, <1>14 DEF WaitLeft
<1> QED
  BY <1>6, <1>7, <1>15 DEF Tallied, Settled

\* An iteration of process_queue, and its end.
LEMMA ProcessQueueTallied ==
    ASSUME SInv, Exact(q, Ids), process_queue
    PROVE  Tallied
<1>1. CASE q' = q /\ conn' = conn /\ waiting_conns' = waiting_conns
  BY <1>1, StillSettled, ServerTallied
<1>2. ASSUME NEW j \in Awaited, NEW c \in waiting_conns[q.job[j].tube],
             q.job[j].state = "ready", HandOver(j, c)
      PROVE  Tallied
  <2>1. q \in Store /\ waiting_conns \in [Tubes -> SUBSET Conns]
    BY Facts DEF SInv, RestOK
  <2>2. j \in Ids
    BY <2>1 DEF Awaited, Store
  <2>3. c \in Conns
    BY <2>1, <2>2, JobOf
  <2> QED
    BY <1>2, <2>2, <2>3, HandOverTallied
<1> QED
  BY <1>1, <1>2 DEF process_queue

\* The first part of connclose.
LEMMA CloseTallied ==
    ASSUME SInv, Exact(q, Ids), NEW c \in Conns, connclose(c)
    PROVE  Tallied
<1> DEFINE cr == conn[c]
           j == cr.in_job
           s == IF j = Nil THEN q ELSE job_free(q, j)
           n == [cr EXCEPT !.in_job = Nil, !.out_job = Nil, !.waiting = FALSE,
                           !.until = 0, !.state = "closing"]
<1>1. /\ IInv /\ q \in Store /\ Whole(q) /\ clock \in Nat /\ cr \in ConnRec
      /\ cr.watch \in SUBSET Tubes /\ cr.waiting \in BOOLEAN
  BY Facts DEF SInv, RestOK, ConnRec
<1>2. n.waiting = FALSE
  BY <1>1 DEF ConnRec
<1>3. /\ conn' = [conn EXCEPT ![c] = n]
      /\ q' = IF cr.waiting THEN CountWaiting(s, cr.watch, -1) ELSE s
      /\ waiting_conns' = IF cr.waiting THEN Delisted(waiting_conns, c, cr.watch)
                          ELSE waiting_conns
  BY DEF connclose
<1> HIDE DEF n
<1>4. conn'[c] = n /\ Alone(c)
  BY <1>1, <1>3, Facts DEF Alone
<1>5. Settled(s, q)
  <2>1. CASE j = Nil
    BY <1>1, <2>1 DEF Settled, SameWaiting
  <2>2. CASE j # Nil
    <3>1. j \in Ids /\ q.job[j].state = "invalid"
      BY <1>1, <2>2 DEF ConnRec, IInv, Owners
    <3>2. Loose(q, j)
      BY <1>1, <3>1, RemovedLoose
    <3> QED
      BY <2>2, <3>1, <3>2, FreeSettles
  <2> QED
    BY <2>1, <2>2
<1> HIDE DEF s
<1>6. -1 \in Int /\ s \in Store
  <2>1. -1 \in Int
    OBVIOUS
  <2> QED
    BY <1>5, <2>1 DEF Settled
<1>7. CASE cr.waiting = TRUE
  <2>1. /\ q' = CountWaiting(s, cr.watch, -1)
        /\ waiting_conns' = Delisted(waiting_conns, c, cr.watch)
    BY <1>3, <1>7
  <2>2. Exact(q', Ids) /\ WaitShift(q', s, cr.watch, -1)
    BY <1>1, <1>5, <1>6, <2>1, CountWaitingAdds, CountWaitingExact DEF Settled
  <2>3. SameWaiting(q', q') /\ SameWaiting(s, q)
    BY <1>5 DEF SameWaiting, Settled
  <2>4. WaitAdds(cr.watch, -1)
    BY <2>2, <2>3, WaitAddsFrom DEF WaitAdds
  <2>5. WaitLeft(c)
    BY <1>2, <1>4, <1>7, <2>1, <2>4 DEF WaitLeft
  <2> QED
    BY <2>2, <2>5 DEF Tallied
<1>8. CASE cr.waiting = FALSE
  <2>1. q' = s /\ waiting_conns' = waiting_conns
    BY <1>3, <1>8
  <2> QED
    BY <1>2, <1>4, <1>5, <1>8, <2>1, OneTallied DEF Alone
<1> QED
  BY <1>1, <1>7, <1>8

\* Every step keeps the tally.
LEMMA TallySteps ==
    ASSUME SInv, Exact(q, Ids), Next
    PROVE  Tallied
<1>1. CASE ServerStep
  BY <1>1, ProcessQueueTallied, KickTallied, TakesBackTallied, BeginsTallied,
     TickTallied, StillTallied, EndsTallied DEF ServerStep
<1>2. ASSUME NEW c \in Conns, ClientStep(c) PROVE Tallied
  <2>1. CASE \/ h_accept(c) \/ conn_want_command(c) \/ hangup(c) \/ connclose(c)
             \/ refuse(c) \/ inspect(c) \/ enqueue_incoming_job(c)
    BY <2>1, BeginsTallied, EndsTallied, CloseTallied, TubesTallied, IncomingTallied
  <2>2. CASE \E p \in Pris, d \in Delays, ttr \in Ttrs : put(c, p, d, ttr)
    BY <2>2, PutTallied
  <2>3. CASE \E timeout \in Timeouts \cup {-1} : reserve(c, timeout)
    BY <2>3, ReserveTallied
  <2>4. CASE \E j \in Ids : reserve_job(c, j) \/ delete(c, j) \/ touch(c, j)
                            \/ kick_job(c, j)
    BY <2>4, ReserveJobTallied, CommandsTallied
  <2>5. CASE \E j \in Ids : \E p \in Pris : bury(c, j, p)
    BY <2>5, CommandsTallied
  <2>6. CASE \E j \in Ids : \E p \in Pris, d \in Delays : release(c, j, p, d)
    BY <2>6, CommandsTallied
  <2>7. CASE \E n \in KickBounds : kick(c, n)
    BY <2>7, StillTallied
  <2>8. CASE \E t \in Tubes : \/ use(c, t) \/ watch(c, t) \/ ignore(c, t)
                              \/ \E d \in Delays : pause_tube(c, t, d)
    BY <2>8, TubesTallied
  <2> QED
    BY <1>2, <2>1, <2>2, <2>3, <2>4, <2>5, <2>6, <2>7, <2>8 DEF ClientStep
<1>3. CASE enter_drain_mode \/ AdvanceClock
  BY <1>3, StillTallied
<1> QED
  BY <1>1, <1>2, <1>3 DEF Next

\* One waiting connection less, or more, in a set of them.
LEMMA ConnSets ==
    ASSUME NEW X, X \subseteq Conns, NEW c
    PROVE  /\ Cardinality(X) \in Nat
           /\ Cardinality(X \ {c}) = Cardinality(X) - IF c \in X THEN 1 ELSE 0
           /\ Cardinality(X \cup {c}) = Cardinality(X) + IF c \in X THEN 0 ELSE 1
<1>1. IsFiniteSet(X)
  BY ConnsFinite, FS_Subset
<1>2. Cardinality(X) \in Nat
  BY <1>1, FS_CardinalityType
<1>3. Cardinality(X \ {c}) = Cardinality(X) - IF c \in X THEN 1 ELSE 0
  <2>1. CASE c \in X
    BY <1>1, <2>1, FS_RemoveElement
  <2>2. CASE c \notin X
    <3>1. X \ {c} = X
      BY <2>2
    <3> QED
      BY <1>2, <2>2, <3>1
  <2> QED
    BY <2>1, <2>2
<1>4. Cardinality(X \cup {c}) = Cardinality(X) + IF c \in X THEN 0 ELSE 1
  <2>1. CASE c \notin X
    BY <1>1, <2>1, FS_AddElement
  <2>2. CASE c \in X
    <3>1. X \cup {c} = X
      BY <2>2
    <3> QED
      BY <1>2, <2>2, <3>1
  <2> QED
    BY <2>1, <2>2
<1> QED
  BY <1>2, <1>3, <1>4

\* A tallied step keeps the waiting counters exact.
LEMMA WaitCountsKept ==
    ASSUME CInv, SInv', Tallied
    PROVE  WaitCounts'
<1>1. /\ IInv /\ waiting_conns \in [Tubes -> SUBSET Conns]
      /\ conn \in [Conns -> ConnRec] /\ \A c \in Conns : conn[c].waiting \in BOOLEAN
      /\ WaitingSetsAgree
  BY Facts DEF CInv, SInv, RestOK, ConnRec
<1>2. \A c \in Conns : conn'[c].waiting \in BOOLEAN
  <2>1. conn' \in [Conns -> ConnRec]
    BY DEF SInv, IInv, TypeOK
  <2> QED
    BY <2>1 DEF ConnRec
<1>3. /\ q.ct["waiting"] = Cardinality(Waiters)
      /\ \A t \in Tubes : q.tct[t]["waiting"] = Cardinality(waiting_conns[t])
      /\ Waiters \subseteq Conns /\ \A t \in Tubes : waiting_conns[t] \subseteq Conns
  BY <1>1 DEF CInv, WaitCounts, Waiters
<1>4. CASE WaitKept
  <2>1. Waiters' = Waiters
    BY <1>4 DEF WaitKept, Waiters
  <2> QED
    BY <1>3, <1>4, <2>1 DEF WaitKept, WaitCounts, SameWaiting
<1>5. ASSUME NEW c \in Conns, WaitLeft(c) PROVE WaitCounts'
  <2>1. Waiters' = Waiters \ {c} /\ c \in Waiters
    BY <1>1, <1>2, <1>5 DEF WaitLeft, Waiters, Alone
  <2>2. ASSUME NEW t \in Tubes
        PROVE  /\ t \in conn[c].watch => c \in waiting_conns[t]
                                         /\ waiting_conns'[t] = waiting_conns[t] \ {c}
               /\ t \notin conn[c].watch => waiting_conns'[t] = waiting_conns[t]
    BY <1>1, <1>5 DEF WaitLeft, WaitingSetsAgree, Delisted
  <2>3. q'.ct["waiting"] = Cardinality(Waiters')
    <3>1. q'.ct["waiting"] = q.ct["waiting"] + (-1)
      BY <1>5 DEF WaitLeft, WaitAdds
    <3>2. Cardinality(Waiters \ {c}) = Cardinality(Waiters) - 1
          /\ Cardinality(Waiters) \in Nat
      BY <1>3, <2>1, ConnSets
    <3> QED
      BY <1>3, <2>1, <3>1, <3>2
  <2>4. ASSUME NEW t \in Tubes
        PROVE  q'.tct[t]["waiting"] = Cardinality(waiting_conns'[t])
    <3>1. q'.tct[t]["waiting"] = q.tct[t]["waiting"] + IF t \in conn[c].watch THEN -1 ELSE 0
      BY <1>5 DEF WaitLeft, WaitAdds
    <3>2. /\ Cardinality(waiting_conns[t]) \in Nat
          /\ c \in waiting_conns[t] =>
                Cardinality(waiting_conns[t] \ {c}) = Cardinality(waiting_conns[t]) - 1
      BY <1>3, ConnSets
    <3>3. q.tct[t]["waiting"] = Cardinality(waiting_conns[t])
      BY <1>3
    <3>4. CASE t \in conn[c].watch
      BY <2>2, <3>1, <3>2, <3>3, <3>4
    <3>5. CASE t \notin conn[c].watch
      BY <2>2, <3>1, <3>2, <3>3, <3>5
    <3> QED
      BY <3>4, <3>5
  <2> QED
    BY <2>3, <2>4 DEF WaitCounts
<1>6. ASSUME NEW c \in Conns, WaitJoined(c) PROVE WaitCounts'
  <2>1. Waiters' = Waiters \cup {c} /\ c \notin Waiters
    BY <1>1, <1>2, <1>6 DEF WaitJoined, Waiters, Alone, WaitingSetsAgree
  <2>2. ASSUME NEW t \in Tubes
        PROVE  /\ t \in conn[c].watch => c \notin waiting_conns[t]
                                         /\ waiting_conns'[t] = waiting_conns[t] \cup {c}
               /\ t \notin conn[c].watch => waiting_conns'[t] = waiting_conns[t]
    BY <1>1, <1>6 DEF WaitJoined, WaitingSetsAgree, Enlisted
  <2>3. q'.ct["waiting"] = Cardinality(Waiters')
    <3>1. q'.ct["waiting"] = q.ct["waiting"] + 1
      BY <1>6 DEF WaitJoined, WaitAdds
    <3>2. Cardinality(Waiters \cup {c}) = Cardinality(Waiters) + 1
      BY <1>3, <2>1, ConnSets
    <3> QED
      BY <1>3, <2>1, <3>1, <3>2
  <2>4. ASSUME NEW t \in Tubes
        PROVE  q'.tct[t]["waiting"] = Cardinality(waiting_conns'[t])
    <3>1. q'.tct[t]["waiting"] = q.tct[t]["waiting"] + IF t \in conn[c].watch THEN 1 ELSE 0
      BY <1>6 DEF WaitJoined, WaitAdds
    <3>2. /\ Cardinality(waiting_conns[t]) \in Nat
          /\ c \notin waiting_conns[t] =>
                Cardinality(waiting_conns[t] \cup {c}) = Cardinality(waiting_conns[t]) + 1
      BY <1>3, ConnSets
    <3>3. q.tct[t]["waiting"] = Cardinality(waiting_conns[t])
      BY <1>3
    <3>4. CASE t \in conn[c].watch
      BY <2>2, <3>1, <3>2, <3>3, <3>4
    <3>5. CASE t \notin conn[c].watch
      BY <2>2, <3>1, <3>2, <3>3, <3>5
    <3> QED
      BY <3>4, <3>5
  <2> QED
    BY <2>3, <2>4 DEF WaitCounts
<1> QED
  BY <1>4, <1>5, <1>6 DEF Tallied

-----------------------------------------------------------------------------
(* The theorem                                                             *)

\* Nothing is counted at the start.
LEMMA CInitially ==
    ASSUME ~WalMayFail, Init
    PROVE  CInv
<1>1. SInv
  BY SInitially
<1>2. Cardinality({}) = 0
  BY FS_EmptySet
<1>3. /\ \A f \in Counters : q.ct[f] = 0
      /\ \A t \in Tubes, f \in Counters : q.tct[t][f] = 0
      /\ \A k \in Ids : q.job[k].state = "none"
  BY DEF Init, FreeJob
<1>4. \A k \in Ids, f \in JobCounters : ~Has(q.job[k], f)
  BY <1>3 DEF Has, JobCounters
<1>5. /\ \A f \in JobCounters : Counted(q, f, Ids) = {}
      /\ \A t \in Tubes, f \in JobCounters : TubeCounted(q, t, f, Ids) = {}
  BY <1>4 DEF Counted, TubeCounted
<1>6. Exact(q, Ids)
  BY <1>2, <1>3, <1>5 DEF Exact, JobCounters, Counters
<1>7. Waiters = {} /\ \A t \in Tubes : waiting_conns[t] = {}
  BY DEF Init, Waiters, ClosedConn, NewConn
<1>8. WaitCounts
  BY <1>2, <1>3, <1>7 DEF WaitCounts, Counters
<1> QED
  BY <1>1, <1>6, <1>8 DEF CInv

\* Every step keeps the invariant.
LEMMA CInductive ==
    ASSUME CInv, [Next]_vars
    PROVE  CInv'
<1>1. SInv /\ Exact(q, Ids) /\ WaitCounts
  BY DEF CInv
<1>2. SInv'
  BY <1>1, SInductive
<1>3. CASE Next
  <2>1. Tallied
    BY <1>1, <1>3, TallySteps
  <2>2. WaitCounts'
    BY <1>2, <2>1, WaitCountsKept
  <2>3. Exact(q', Ids)
    BY <2>1 DEF Tallied
  <2> QED
    BY <1>2, <2>2, <2>3 DEF CInv
<1>4. CASE UNCHANGED vars
  BY <1>1, <1>2, <1>4 DEF vars, CInv, WaitCounts, Waiters
<1> QED
  BY <1>3, <1>4

\* The counters of CountersExact are these.
LEMMA CountersFromCInv ==
    ASSUME CInv
    PROVE  CountersExact
<1> DEFINE Jobs(st) == {j \in Ids : q.job[j].state = st}
           In(t, st) == {j \in Jobs(st) : q.job[j].tube = t}
           Urgent == {j \in Jobs("ready") : q.job[j].pri < UrgentThreshold}
<1>1. /\ Counted(q, "ready", Ids) = Jobs("ready")
      /\ Counted(q, "urgent", Ids) = Urgent
      /\ Counted(q, "reserved", Ids) = Jobs("reserved")
      /\ Counted(q, "buried", Ids) = Jobs("buried")
  BY DEF Counted, Has
<1>2. \A t \in Tubes : /\ TubeCounted(q, t, "urgent", Ids) = In(t, "ready") \cap Urgent
                       /\ TubeCounted(q, t, "reserved", Ids) = In(t, "reserved")
                       /\ TubeCounted(q, t, "buried", Ids) = In(t, "buried")
  BY DEF TubeCounted, Has
<1>3. /\ \A f \in JobCounters : q.ct[f] = Cardinality(Counted(q, f, Ids))
      /\ \A t \in Tubes, f \in JobCounters \ {"ready"} :
            q.tct[t][f] = Cardinality(TubeCounted(q, t, f, Ids))
      /\ q.ct["waiting"] = Cardinality({c \in Conns : conn[c].waiting})
      /\ \A t \in Tubes : q.tct[t]["waiting"] = Cardinality(waiting_conns[t])
  BY DEF CInv, Exact, WaitCounts, Waiters
<1>4. {"ready", "urgent", "reserved", "buried"} \subseteq JobCounters
      /\ {"urgent", "reserved", "buried"} \subseteq JobCounters \ {"ready"}
  BY DEF JobCounters
<1> HIDE DEF Jobs, In, Urgent
<1>5. /\ q.ct["ready"] = Cardinality(Jobs("ready"))
      /\ q.ct["urgent"] = Cardinality(Urgent)
      /\ q.ct["reserved"] = Cardinality(Jobs("reserved"))
      /\ q.ct["buried"] = Cardinality(Jobs("buried"))
  BY <1>1, <1>3, <1>4
<1>6. \A t \in Tubes :
        /\ q.tct[t]["urgent"] = Cardinality(In(t, "ready") \cap Urgent)
        /\ q.tct[t]["reserved"] = Cardinality(In(t, "reserved"))
        /\ q.tct[t]["buried"] = Cardinality(In(t, "buried"))
  BY <1>2, <1>3, <1>4
<1> QED
  BY <1>3, <1>5, <1>6 DEF CountersExact, Jobs, In, Urgent

\* The counters that the stats commands print (global_stat, ready_ct, t->stat)
\* are the sizes of the queues, whatever the clients do, however many there are,
\* and whether or not a heapinsert fails.
THEOREM CountersAreExact ==
    ASSUME ~WalMayFail
    PROVE  Spec => []CountersExact
<1>1. Init => CInv
  BY CInitially
<1>2. CInv /\ [Next]_vars => CInv'
  BY CInductive
<1>3. CInv => CountersExact
  BY CountersFromCInv
<1> QED
  BY <1>1, <1>2, <1>3, PTL DEF Spec

=============================================================================
