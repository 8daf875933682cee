------------------------------ MODULE WalProofs ------------------------------
(***************************************************************************)
(* Proofs about the binlog: the reference counts of its files, and the     *)
(* bytes reserved in them.                                                 *)
(*                                                                         *)
(* The argument about space follows the comments of balance and            *)
(* balancerest.  Between commands each file from cur on has whole delete   *)
(* records reserved.  reserve adds n bytes to the tail; balance passes     *)
(* over at most one file to one that has n bytes, and balancerest moves    *)
(* less than a delete record between that file, the one that got the n     *)
(* bytes, and the tail.  A kick or a release that finds no memory leaves a *)
(* whole delete record reserved, which fits the argument; a put leaves the *)
(* bytes of a body, which do not.  The theorems are about behaviours in    *)
(* which no put is buried for lack of memory (Recorded).                   *)
(***************************************************************************)
EXTENDS Wal, TLAPS, NaturalsInduction, WellFoundedInduction, FiniteSetTheorems

-----------------------------------------------------------------------------
(* The inductive invariant                                                 *)

Cap == FileSize - HeaderSize

\* What reserve is asked for: a delete record, a full record, or both.
Amounts == {Z} \cup FullSizes \cup {n + Z : n \in FullSizes}

\* Two jobs and three delete records fit in a file.
RoomyFiles == \A a, b \in FullSizes : a + b + 3 * Z <= Cap

Mult(x) == \E q \in Int : x = Z * q

\* The sum of g[1], ..., g[n] is t.
Partial(n, g, p) ==
    /\ p \in [0..n -> Int]
    /\ p[0] = 0
    /\ \A i \in 1..n : p[i] = p[i - 1] + g[i]

IsSum(n, g, t) == \E p : Partial(n, g, p) /\ t = p[n]

Rs(w) == [f \in Seqs |-> w.file[f].resv]
Fr(w) == [f \in Seqs |-> w.file[f].free]
Used(w) == [j \in Ids |-> w.job[j].walused]
Live(w) == {j \in Ids : w.job[j].state \in LiveStates}

\* A delete record for every job, and what NoMemory left reserved.
Claims(w) == Z * Cardinality(Live(w)) + spent.spare

\* Types in which the counters may be negative.
FileI == [refs: Int, iswopen: BOOLEAN, free: Int, resv: Int, jlist: Seq(Ids)]

Memo == [use: BOOLEAN, head: Seqs \cup {Nil}, cur: Seqs \cup {Nil},
         tail: Seqs \cup {Nil}, next: Nat, resv: Int, alive: Int,
         file: [Seqs -> FileI], job: [Ids -> JobRec], next_id: Nat \ {0}]

\* The list of files.
Chain(w) ==
    /\ \/ w.head = Nil /\ w.tail = Nil
       \/ w.head \in Seqs /\ w.tail \in Seqs /\ w.head <= w.tail
    /\ w.next \in 1..(MaxSeq + 1)
    /\ w.tail < w.next

\* The references of file f are counted; rd is the file that is read.
Counted(w, f, rd) ==
    w.file[f].refs = Len(w.file[f].jlist) + (IF w.file[f].iswopen THEN 1 ELSE 0)
                     + (IF f = rd THEN 1 ELSE 0)

\* The jobs of file f.
Holds(w, f) ==
    /\ IsInjective(w.file[f].jlist)
    /\ \A j \in Ids : w.job[j].file = f <=> j \in Range(w.file[f].jlist)

Gone(w, f, rd) == f \notin Files(w) => w.file[f] = NoFile /\ f # rd

Book(w, rd) ==
    /\ Chain(w)
    /\ \A f \in Seqs : Counted(w, f, rd) /\ Holds(w, f) /\ Gone(w, f, rd)

\* A job is unknown or alive.
JobOk(w, j) ==
    LET k == w.job[j] IN
    /\ k.state = "none" => k = NoJob
    /\ k.state # "none" => k.state \in LiveStates /\ k.size \in FullSizes
    /\ k.file = Nil => k.walused = 0
    /\ j >= w.next_id => k.state = "none"

Ledger(w) == IsSum(MaxId, Used(w), w.alive) /\ \A j \in Ids : JobOk(w, j)

NonNeg(w) == \A f \in Seqs : w.file[f].free >= 0 /\ w.file[f].resv >= 0

\* A file between the current one and the last has room for any reservation.
Heavy(rs, f) == \A n \in Amounts : rs[f] >= n

HeavyPlus(rs, f) == \A n \in Amounts : rs[f] >= n + Z

\* Space is reserved only from the current file on, and nothing is written
\* after it.
Room(cur, tail, fr, rs) ==
    /\ cur \in Seqs /\ tail \in Seqs /\ cur <= tail
    /\ fr \in [Seqs -> Int] /\ rs \in [Seqs -> Int]
    /\ \A f \in Seqs : fr[f] >= 0 /\ rs[f] >= 0 /\ fr[f] + rs[f] <= Cap
    /\ \A f \in Seqs : f < cur \/ tail < f => rs[f] = 0
    /\ \A f \in Seqs : cur < f /\ f <= tail => fr[f] + rs[f] = Cap
    /\ \A f \in Seqs : cur < f /\ f < tail => Heavy(rs, f)

\* Only the current file has more than delete records, n bytes.
Even(cur, rs, n) ==
    /\ Mult(rs[cur] - n)
    /\ \A f \in Seqs \ {cur} : Mult(rs[f])

\* While balance runs, n bytes are in file T.
Lent(T, rs, n) ==
    /\ rs[T] >= n /\ Mult(rs[T] - n)
    /\ \A f \in Seqs \ {T} : Mult(rs[f])

\* T is the tail, or the new tail has room.
Behind(T, tail, fr, rs) == T = tail \/ (fr[tail] >= Z /\ HeavyPlus(rs, T))

Balancing(cur, tail, fr, rs, n) ==
    \E T \in Seqs :
        /\ cur <= T /\ T <= tail
        /\ Lent(T, rs, n)
        /\ \/ T = tail /\ cur < T
           \/ rs[cur] >= n /\ (T = cur \/ Behind(T, tail, fr, rs))

\* balancerest is at file b.  The current file has the n bytes, or file T has
\* them, or both and the tail lacks them.
Resting(cur, tail, fr, rs, n, b) ==
    /\ b \in Seqs /\ cur <= b /\ b <= tail
    /\ rs[cur] >= n
    /\ \/ Even(cur, rs, n)
       \/ \E T \in Seqs : /\ b = cur /\ cur < T /\ T <= tail
                          /\ Lent(T, rs, n) /\ Behind(T, tail, fr, rs)
       \/ \E T \in Seqs, e \in 0..(Z - 1) :
            /\ cur < b /\ b <= T /\ T < tail
            /\ Mult(n - e) /\ fr[tail] >= e /\ HeavyPlus(rs, T)
            /\ Mult(rs[cur] - n) /\ Mult(rs[T] - n) /\ Mult(rs[tail] + n)
            /\ \A f \in Seqs \ {cur, T, tail} : Mult(rs[f])

\* The bytes of the record that the thread is about to write.
Due(p, w) == IF p.at = "body" THEN w.job[p.j].size - Z
             ELSE IF p.at = "write" THEN p.n ELSE 0

Arranged(p, w) ==
    CASE p.at = "balance" -> Balancing(w.cur, w.tail, Fr(w), Rs(w), p.n)
      [] p.at = "rest"    -> Resting(w.cur, w.tail, Fr(w), Rs(w), p.n, p.b)
      [] OTHER            -> Even(w.cur, Rs(w), Due(p, w)) /\ Rs(w)[w.cur] >= Due(p, w)

\* The bytes reserved beyond one delete record per job.
Extra(p, w) ==
    IF p.op = "replay"
    THEN IF p.at = "replay" THEN -Z * p.r ELSE p.n - Z * (p.r + 1)
    ELSE IF p.at \in {"balance", "rest"} THEN p.n ELSE Due(p, w)

\* The command that reserves or writes.
Command(p, w) ==
    /\ p.at = "idle" => p = Idle
    /\ p.at = "compact" => p.op = "migrate"
    /\ p.at = "replay" => p.op = "replay"
    /\ p.at \in {"balance", "rest"} => p.op \in {"put", "update", "migrate", "replay"}
    /\ p.at = "write" => p.op \in {"put", "update", "delete", "migrate"}
    /\ p.at = "body" => p.op \in {"put", "migrate"} /\ p.j \in Live(w)
                        /\ w.job[p.j].file = w.cur /\ w.job[p.j].state = p.to
    /\ p.at \in {"balance", "rest", "write"} =>
        /\ p.op = "put" => p.j \in Ids /\ p.j = w.next_id /\ p.to = "ready" /\ p.n - Z \in FullSizes
        /\ p.op = "update" => p.j \in Live(w) /\ p.to \in LiveStates /\ p.n = Z
        /\ p.op = "delete" => p.j \in Live(w) /\ p.to = "invalid" /\ p.n = 0
        /\ p.op = "migrate" => p.j \in Live(w) /\ p.to = w.job[p.j].state
                               /\ p.n = w.job[p.j].size
    /\ p.op = "replay" => p.n = Z

\* A job that is moved has no file until it is written again.
Moving(p) == IF p.at = "write" /\ p.op = "migrate" THEN {p.j} ELSE {}

Working(p, w) ==
    /\ w.tail = w.next - 1
    /\ \A f \in Seqs : w.file[f].iswopen <=> w.cur <= f /\ f <= w.tail
    /\ Room(w.cur, w.tail, Fr(w), Rs(w))
    /\ IsSum(MaxSeq, Rs(w), w.resv)
    /\ spent.spare \in Nat /\ w.resv = Claims(w) + Extra(p, w)
    /\ Arranged(p, w)
    /\ \A j \in Live(w) : w.job[j].file = Nil <=> j \in Moving(p)

\* walcompact goes on after a write has failed.
Broken(p, w) ==
    /\ p.at \in {"idle", "compact", "write"}
    /\ p.at \in {"compact", "write"} =>
            p.op = "migrate" /\ \E j \in Ids : w.job[j].file = w.cur

Loading(p, w) ==
    /\ w.use /\ w.cur = Nil /\ w.resv = 0
    /\ \A f \in Seqs : w.file[f].resv = 0 /\ w.file[f].free = 0 /\ ~w.file[f].iswopen
    /\ \A j \in Live(w) : w.job[j].file # Nil
    /\ p.op = "none"
    /\ p.at = "read" =>
        /\ p.b \in Seqs /\ p.b < w.next
        /\ IF p.r = 0 THEN w.head = Nil \/ w.tail = p.b - 1 ELSE w.head # Nil /\ w.tail = p.b
    /\ p.at = "first" => w.head = Nil \/ w.tail = w.next - 1

Reading(p) == IF p.at = "read" /\ p.r > 0 THEN p.b ELSE Nil

\* The memory and the thread.
Process(w, p) ==
    /\ w \in Memo /\ p \in PCs
    /\ Book(w, Reading(p)) /\ Ledger(w) /\ NonNeg(w)
    /\ IF p.at = "down" THEN p = Down /\ w = FreshMemory
       ELSE IF p.at \in {"read", "first"} THEN Loading(p, w)
       ELSE w.cur \in Seqs /\ Command(p, w) /\ IF w.use THEN Working(p, w) ELSE Broken(p, w)

\* A full record is one of a job.
Images == {d \in [Seqs -> Image] :
            \A f \in Seqs : \A i \in 1..Len(d[f].recs) :
                d[f].recs[i].full => d[f].recs[i].size \in FullSizes}

\* What the history counts.
Spents == [crashes: 0..MaxFaults, updates: 0..MaxUpdates, ooms: 0..MaxFaults, spare: Nat,
           unlogged: SUBSET Ids, freed: SUBSET Ids, unread: SUBSET Ids]

Stable ==
    /\ disk \in Images
    /\ logged \in [Ids -> Views]
    /\ rewriting \subseteq Ids
    /\ spent \in Spents

WInv == Process(m, pc) /\ Stable

-----------------------------------------------------------------------------
(* Numbers, sums and lists                                                 *)

\* A nonempty set of natural numbers has a least element.
LEMMA LeastNat ==
    ASSUME NEW T, T \subseteq Nat, T # {}
    PROVE  \E x \in T : \A y \in T : x <= y
<1>1. \E x \in T : \A y \in T : ~(<<y, x>> \in OpToRel(<, Nat))
  BY NatLessThanWellFounded, WFMin
<1>2. PICK x \in T : \A y \in T : ~(<<y, x>> \in OpToRel(<, Nat))
  BY <1>1
<1>3. ASSUME NEW y \in T PROVE x <= y
  <2>1. x \in Nat /\ y \in Nat
    OBVIOUS
  <2>2. ~(y < x)
    BY <1>2, <2>1 DEF OpToRel
  <2> QED
    BY <2>1, <2>2
<1> QED
  BY <1>3

LEMMA MinOf ==
    ASSUME NEW T, T \subseteq Nat, T # {}
    PROVE  Min(T) \in T /\ \A y \in T : Min(T) <= y
<1>1. \E x \in T : \A y \in T : x <= y
  BY LeastNat
<1> QED
  BY <1>1 DEF Min

\* A nonempty set of file numbers has a greatest element.
LEMMA MaxOf ==
    ASSUME NEW T, T \subseteq Seqs, T # {}
    PROVE  Max(T) \in T /\ \A y \in T : y <= Max(T)
<1> DEFINE U == {MaxSeq - x : x \in T}
<1>1. MaxSeq \in Nat /\ \A x \in T : x \in Nat /\ MaxSeq - x \in Nat
  BY WalConstants DEF Seqs
<1>2. U \subseteq Nat /\ U # {}
  BY <1>1
<1>3. PICK u \in U : \A y \in U : u <= y
  BY <1>2, LeastNat
<1>4. PICK x \in T : u = MaxSeq - x
  OBVIOUS
<1>5. \A y \in T : y <= x
  BY <1>1, <1>3, <1>4
<1> QED
  BY <1>5 DEF Max

LEMMA Euclid ==
    ASSUME NEW z \in Nat \ {0}, NEW a \in Int
    PROVE  a % z \in Nat /\ a % z < z /\ a \div z \in Int
OBVIOUS

LEMMA EuclidSum ==
    ASSUME NEW z \in Nat \ {0}, NEW a \in Int
    PROVE  a = z * (a \div z) + (a % z)
OBVIOUS

LEMMA EuclidPos ==
    ASSUME NEW z \in Nat \ {0}, NEW a \in Nat
    PROVE  a \div z >= 0
OBVIOUS

LEMMA EuclidNone ==
    ASSUME NEW z \in Nat \ {0}, NEW q \in Int
    PROVE  (z * q) % z = 0
OBVIOUS

LEMMA EuclidMult ==
    ASSUME NEW z \in Nat \ {0}, NEW q \in Nat
    PROVE  z * q \in Nat
OBVIOUS

LEMMA ModOf ==
    ASSUME NEW a \in Int, NEW r, r = a % Z
    PROVE  /\ r \in Nat /\ r < Z /\ Mult(a - r)
           /\ a >= 0 => r <= a
           /\ Mult(a) <=> r = 0
<1>1. Z \in Nat \ {0}
  BY WalConstants
<1>2. PICK q : q = a \div Z
  OBVIOUS
<1>3. r \in Nat /\ r < Z /\ q \in Int
  BY <1>1, <1>2, Euclid
<1>4. a = Z * q + r
  BY <1>1, <1>2, EuclidSum
<1>5. PICK y \in Int : y = Z * q
  BY <1>1, <1>3
<1>6. a - r = Z * q
  BY <1>3, <1>4, <1>5
<1>7. Mult(a - r)
  BY <1>3, <1>6 DEF Mult
<1>8. ASSUME a >= 0 PROVE r <= a
  <2>1. q \in Nat
    BY <1>1, <1>2, <1>3, <1>8, EuclidPos
  <2>2. Z * q \in Nat
    BY <1>1, <2>1, EuclidMult
  <2> QED
    BY <1>3, <1>4, <2>2
<1>9. ASSUME Mult(a) PROVE r = 0
  <2>1. PICK x \in Int : a = Z * x
    BY <1>9 DEF Mult
  <2>2. (Z * x) % Z = 0
    BY <1>1, EuclidNone
  <2> QED
    BY <1>2, <2>1, <2>2
<1>10. ASSUME r = 0 PROVE Mult(a)
  <2>1. a - r = a
    BY <1>10
  <2> QED
    BY <1>7, <2>1
<1> QED
  BY <1>3, <1>7, <1>8, <1>9, <1>10

LEMMA MultOf ==
    ASSUME NEW a \in Int, NEW b \in Int, Mult(a), Mult(b)
    PROVE  Mult(a + b) /\ Mult(a - b)
<1>1. PICK q \in Int : a = Z * q
  BY DEF Mult
<1>2. PICK r \in Int : b = Z * r
  BY DEF Mult
<1>3. a + b = Z * (q + r) /\ a - b = Z * (q - r)
  BY <1>1, <1>2, WalConstants
<1> QED
  BY <1>3 DEF Mult

LEMMA MultZ == Mult(0) /\ Mult(Z)
<1>1. 0 = Z * 0 /\ Z = Z * 1
  BY WalConstants
<1> QED
  BY <1>1 DEF Mult

LEMMA MultPos ==
    ASSUME NEW a \in Int, Mult(a), a > 0
    PROVE  a >= Z
<1>1. PICK q \in Int : a = Z * q
  BY DEF Mult
<1>2. q > 0
  <2> SUFFICES ASSUME q <= 0 PROVE FALSE
    OBVIOUS
  <2>1. Z * q <= 0
    BY WalConstants
  <2> QED
    BY <1>1, <2>1
<1>3. Z * q >= Z * 1
  BY <1>2, WalConstants
<1> QED
  BY <1>1, <1>3, WalConstants

\* Two residues of one number are equal.
LEMMA MultOne ==
    ASSUME NEW a \in Int, NEW b \in Int, Mult(a - b), 0 <= a, a < Z, 0 <= b, b < Z
    PROVE  a = b
<1>1. Z \in Int
  BY WalConstants
<1>2. Mult(b - a)
  <2>1. Mult(0 - (a - b))
    BY MultOf, MultZ
  <2> QED
    BY <2>1
<1>3. ~(a - b > 0)
  BY <1>1, MultPos
<1>4. ~(b - a > 0)
  BY <1>1, <1>2, MultPos
<1> QED
  BY <1>3, <1>4

LEMMA SumNone ==
    ASSUME NEW n \in Nat, NEW g, \A i \in 1..n : g[i] = 0
    PROVE  IsSum(n, g, 0)
<1> DEFINE p == [i \in 0..n |-> 0]
<1>1. Partial(n, g, p) /\ p[n] = 0
  BY DEF Partial
<1> QED
  BY <1>1 DEF IsSum

\* One of the numbers changes by d.
LEMMA SumChange ==
    ASSUME NEW n \in Nat, NEW g, NEW h, NEW t, IsSum(n, g, t), NEW j \in 1..n,
           NEW d \in Int, \A i \in 1..n : g[i] \in Int, h[j] = g[j] + d,
           \A i \in 1..n : i # j => h[i] = g[i]
    PROVE  IsSum(n, h, t + d)
<1>1. PICK p : Partial(n, g, p) /\ t = p[n]
  BY DEF IsSum
<1>2. PICK q : q = [i \in 0..n |-> IF i < j THEN p[i] ELSE p[i] + d]
  OBVIOUS
<1>3. p \in [0..n -> Int] /\ p[0] = 0
  BY <1>1 DEF Partial
<1>4. q \in [0..n -> Int] /\ q[0] = 0 /\ q[n] = t + d
  BY <1>1, <1>2, <1>3
<1>5. ASSUME NEW i \in 1..n PROVE q[i] = q[i - 1] + h[i]
  <2>1. p[i] \in Int /\ p[i - 1] \in Int /\ p[i] = p[i - 1] + g[i] /\ i - 1 \in 0..n /\ i \in 0..n
    BY <1>1, <1>3 DEF Partial
  <2>2. q[i] = (IF i < j THEN p[i] ELSE p[i] + d)
        /\ q[i - 1] = (IF i - 1 < j THEN p[i - 1] ELSE p[i - 1] + d)
    BY <1>2, <2>1
  <2>3. CASE i < j
    BY <2>1, <2>2, <2>3
  <2>4. CASE i = j
    BY <2>1, <2>2, <2>4
  <2>5. CASE i > j
    BY <2>1, <2>2, <2>5
  <2> QED
    BY <2>3, <2>4, <2>5
<1>6. Partial(n, h, q)
  BY <1>4, <1>5 DEF Partial
<1> QED
  BY <1>4, <1>6 DEF IsSum

\* There is only one sum.
LEMMA SumOne ==
    ASSUME NEW n \in Nat, NEW g, NEW p, NEW q, Partial(n, g, p), Partial(n, g, q)
    PROVE  p[n] = q[n]
<1> DEFINE B == {i \in 0..n : p[i] # q[i]}
<1> SUFFICES ASSUME B # {} PROVE FALSE
  OBVIOUS
<1>1. B \subseteq Nat
  OBVIOUS
<1>2. PICK x \in B : \A y \in B : x <= y
  BY <1>1, LeastNat
<1>3. x # 0
  BY <1>2 DEF Partial
<1>4. x \in 1..n /\ x - 1 \in 0..n /\ x - 1 \notin B
  BY <1>2, <1>3
<1>5. p[x - 1] = q[x - 1]
  BY <1>4
<1> QED
  BY <1>2, <1>4, <1>5 DEF Partial

\* Numbers that are not negative have a sum that is at least each of them.
LEMMA SumBound ==
    ASSUME NEW n \in Nat, NEW g, NEW t, IsSum(n, g, t),
           \A i \in 1..n : g[i] \in Int /\ g[i] >= 0
    PROVE  t \in Int /\ t >= 0 /\ \A j \in 1..n : g[j] <= t
<1>1. PICK p : Partial(n, g, p) /\ t = p[n]
  BY DEF IsSum
<1>2. p \in [0..n -> Int] /\ p[0] = 0 /\ \A i \in 1..n : p[i] = p[i - 1] + g[i]
  BY <1>1 DEF Partial
<1> DEFINE B == {i \in 0..n : p[i] < 0 \/ \E j \in 1..i : p[i] < g[j]}
<1>3. B = {}
  <2> SUFFICES ASSUME B # {} PROVE FALSE
    OBVIOUS
  <2>1. B \subseteq Nat
    OBVIOUS
  <2>2. PICK x \in B : \A y \in B : x <= y
    BY <2>1, LeastNat
  <2>3. x # 0
    BY <1>2, <2>2
  <2>4. x \in 1..n /\ x - 1 \in 0..n /\ x - 1 \notin B
    BY <2>2, <2>3
  <2>5. p[x - 1] \in Int /\ p[x - 1] >= 0 /\ \A j \in 1..(x - 1) : p[x - 1] >= g[j]
    <3>1. p[x - 1] \in Int /\ ~(p[x - 1] < 0)
      BY <1>2, <2>4
    <3>2. ASSUME NEW j \in 1..(x - 1) PROVE p[x - 1] >= g[j]
      <4>1. ~(p[x - 1] < g[j])
        BY <2>4
      <4>2. j \in 1..n
        BY <2>4
      <4>3. g[j] \in Int
        BY <4>2
      <4> QED
        BY <3>1, <4>1, <4>3
    <3> QED
      BY <3>1, <3>2
  <2>6. p[x] = p[x - 1] + g[x] /\ g[x] >= 0 /\ g[x] \in Int
    BY <1>2, <2>4
  <2>7. p[x] >= 0 /\ p[x] >= g[x]
    BY <2>5, <2>6
  <2>8. ASSUME NEW j \in 1..x PROVE p[x] >= g[j]
    <3>1. CASE j = x
      BY <2>7, <3>1
    <3>2. CASE j # x
      <4>1. j \in 1..(x - 1) /\ j \in 1..n
        BY <2>4, <3>2
      <4> QED
        BY <2>5, <2>6, <4>1
    <3> QED
      BY <3>1, <3>2
  <2> QED
    BY <2>2, <2>4, <2>5, <2>6, <2>7, <2>8
<1>4. n \notin B /\ n \in 0..n
  BY <1>3
<1> QED
  BY <1>1, <1>2, <1>4

\* A sum with one number that is not 0 is that number.
LEMMA SumOnly ==
    ASSUME NEW n \in Nat, NEW g, NEW t, IsSum(n, g, t), NEW j \in 1..n, g[j] \in Int,
           \A i \in 1..n : i # j => g[i] = 0
    PROVE  t = g[j]
<1>1. PICK p : Partial(n, g, p) /\ t = p[n]
  BY DEF IsSum
<1>2. PICK q : q = [i \in 0..n |-> IF i < j THEN 0 ELSE g[j]]
  OBVIOUS
<1>3. q \in [0..n -> Int] /\ q[0] = 0 /\ q[n] = g[j]
  BY <1>2
<1>4. \A i \in 1..n : q[i] = q[i - 1] + g[i]
  BY <1>2
<1>5. Partial(n, g, q)
  BY <1>3, <1>4 DEF Partial
<1>6. p[n] = q[n]
  BY <1>1, <1>5, SumOne
<1> QED
  BY <1>1, <1>3, <1>6

\* filermjob takes the job out of the list of its file and nothing else.
LEMMA WithoutOf ==
    ASSUME NEW l \in Seq(Ids), NEW x \in Range(l), IsInjective(l), NEW r, r = Without(l, x)
    PROVE  /\ r \in Seq(Ids) /\ Len(r) = Len(l) - 1
           /\ Range(r) = Range(l) \ {x} /\ IsInjective(r)
<1> DEFINE i == CHOOSE i \in DOMAIN l : l[i] = x
<1>1. i \in 1..Len(l) /\ l[i] = x /\ DOMAIN l = 1..Len(l) /\ Len(l) \in Nat
  BY DEF Range
<1>2. \A a, b \in 1..Len(l) : l[a] = l[b] => a = b
  BY <1>1 DEF IsInjective
<1>3. /\ DOMAIN r = 1..(Len(l) - 1)
      /\ \A k \in 1..(Len(l) - 1) : r[k] = IF k < i THEN l[k] ELSE l[k + 1]
  BY DEF Without
<1>4. r \in Seq(Ids) /\ Len(r) = Len(l) - 1
  <2>1. Len(l) - 1 \in Nat
    BY <1>1
  <2>2. r \in [1..(Len(l) - 1) -> Ids]
    BY <1>1 DEF Without
  <2> QED
    BY <2>1, <2>2
<1> HIDE DEF i
<1>5. ASSUME NEW y \in Range(r) PROVE y \in Range(l) \ {x}
  <2>1. PICK k \in 1..(Len(l) - 1) : y = r[k]
    BY <1>3 DEF Range
  <2>2. PICK a \in 1..Len(l) : y = l[a] /\ a # i
    BY <1>1, <1>3, <2>1
  <2> QED
    BY <1>1, <1>2, <2>2 DEF Range
<1>6. ASSUME NEW y \in Range(l) \ {x} PROVE y \in Range(r)
  <2>1. PICK a \in 1..Len(l) : y = l[a] /\ a # i
    BY <1>1 DEF Range
  <2>2. \E k \in 1..(Len(l) - 1) : y = r[k]
    <3>1. CASE a < i
      BY <1>1, <1>3, <2>1, <3>1
    <3>2. CASE a > i
      <4>1. a - 1 \in 1..(Len(l) - 1) /\ ~(a - 1 < i) /\ (a - 1) + 1 = a
        BY <1>1, <3>2
      <4> QED
        BY <1>3, <2>1, <4>1
    <3> QED
      BY <1>1, <2>1, <3>1, <3>2
  <2> QED
    BY <1>3, <2>2 DEF Range
<1>7. ASSUME NEW a \in DOMAIN r, NEW b \in DOMAIN r, r[a] = r[b] PROVE a = b
  <2>1. a \in 1..(Len(l) - 1) /\ b \in 1..(Len(l) - 1)
    BY <1>3
  <2> DEFINE P(k) == IF k < i THEN k ELSE k + 1
  <2>2. P(a) \in 1..Len(l) /\ P(b) \in 1..Len(l)
    BY <1>1, <2>1
  <2>3. l[P(a)] = l[P(b)]
    BY <1>3, <1>7, <2>1
  <2>4. P(a) = P(b)
    BY <1>2, <2>2, <2>3
  <2> QED
    BY <1>1, <2>1, <2>4
<1> QED
  BY <1>4, <1>5, <1>6, <1>7 DEF IsInjective

\* fileaddjob puts it at the end.
LEMMA AppendOf ==
    ASSUME NEW l \in Seq(Ids), NEW x \in Ids, x \notin Range(l), IsInjective(l),
           NEW r, r = Append(l, x)
    PROVE  /\ r \in Seq(Ids) /\ Len(r) = Len(l) + 1
           /\ Range(r) = Range(l) \cup {x} /\ IsInjective(r)
<1>1. /\ r \in Seq(Ids) /\ Len(r) = Len(l) + 1
      /\ DOMAIN r = 1..(Len(l) + 1) /\ DOMAIN l = 1..Len(l)
      /\ Len(l) \in Nat
      /\ \A k \in 1..Len(l) : r[k] = l[k]
      /\ r[Len(l) + 1] = x
  OBVIOUS
<1>2. Range(r) = Range(l) \cup {x}
  <2>1. ASSUME NEW y \in Range(r) PROVE y \in Range(l) \cup {x}
    BY <1>1 DEF Range
  <2>2. ASSUME NEW y \in Range(l) PROVE y \in Range(r)
    <3>1. PICK k \in 1..Len(l) : y = l[k]
      BY <1>1 DEF Range
    <3>2. k \in 1..(Len(l) + 1) /\ r[k] = y
      BY <1>1, <3>1
    <3> QED
      BY <1>1, <3>2 DEF Range
  <2>3. x \in Range(r)
    <3>1. Len(l) + 1 \in 1..(Len(l) + 1)
      BY <1>1
    <3> QED
      BY <1>1, <3>1 DEF Range
  <2> QED
    BY <2>1, <2>2, <2>3
<1>3. IsInjective(r)
  <2>1. \A k \in 1..Len(l) : l[k] # x
    BY <1>1 DEF Range
  <2>2. \A a, b \in 1..Len(l) : l[a] = l[b] => a = b
    BY <1>1 DEF IsInjective
  <2>3. ASSUME NEW a \in 1..(Len(l) + 1), NEW b \in 1..(Len(l) + 1), r[a] = r[b]
        PROVE  a = b
    BY <1>1, <2>1, <2>2, <2>3
  <2> QED
    BY <1>1, <2>3 DEF IsInjective
<1> QED
  BY <1>1, <1>2, <1>3

-----------------------------------------------------------------------------
(* Moving reserved bytes between files                                     *)

\* k bytes move from one file to another.
Shift(fr, rs, fr2, rs2, to, from, k) ==
    /\ fr2 \in [Seqs -> Int] /\ rs2 \in [Seqs -> Int]
    /\ \A f \in Seqs \ {to, from} : fr2[f] = fr[f] /\ rs2[f] = rs[f]
    /\ to = from => fr2[to] = fr[to] /\ rs2[to] = rs[to]
    /\ to # from => /\ rs2[from] = rs[from] - k /\ fr2[from] = fr[from] + k
                    /\ rs2[to] = rs[to] + k /\ fr2[to] = fr[to] - k

\* k bytes of file f are reserved.
Adds(fr, rs, fr2, rs2, f, k) ==
    /\ fr2 \in [Seqs -> Int] /\ rs2 \in [Seqs -> Int]
    /\ \A g \in Seqs \ {f} : fr2[g] = fr[g] /\ rs2[g] = rs[g]
    /\ rs2[f] = rs[f] + k /\ fr2[f] = fr[f] - k

\* File f is new.
Grows1(fr, fr2, f) ==
    /\ fr2 \in [Seqs -> Int] /\ fr2[f] = Cap
    /\ \A g \in Seqs \ {f} : fr2[g] = fr[g]

LEMMA SeqsNat == Seqs \subseteq Nat /\ Cap \in Int /\ Z \in Nat /\ Z > 0 /\ MaxSeq \in Nat
BY WalConstants DEF Seqs, Cap

LEMMA AmountNat == \A n \in Amounts : n \in Nat /\ n >= Z /\ n > 0
BY WalConstants DEF Amounts

\* Roomy files have room for two reservations and a delete record.
LEMMA TwoFit ==
    ASSUME RoomyFiles, NEW a \in Amounts, NEW b \in Amounts
    PROVE  a + b + Z <= Cap
<1>1. \A n \in FullSizes : n \in Nat
  BY WalConstants
<1>2. ASSUME NEW k \in Amounts PROVE \E x \in FullSizes : k <= x + Z
  <2>1. PICK y \in FullSizes : TRUE
    BY WalConstants
  <2>2. CASE k = Z
    BY <1>1, <2>1, <2>2, SeqsNat
  <2>3. CASE k \in FullSizes
    BY <1>1, <2>3, SeqsNat
  <2>4. CASE \E x \in FullSizes : k = x + Z
    BY <1>1, <2>4, SeqsNat
  <2> QED
    BY <2>2, <2>3, <2>4 DEF Amounts
<1>3. PICK x \in FullSizes : a <= x + Z
  BY <1>2
<1>5. PICK y \in FullSizes : b <= y + Z
  BY <1>2
<1>4. x + y + 3 * Z <= Cap
  BY DEF RoomyFiles
<1> QED
  BY <1>1, <1>3, <1>4, <1>5, AmountNat, SeqsNat

\* A file that cannot take one more reservation has a lot of them.
LEMMA HeavyOf ==
    ASSUME RoomyFiles, NEW f, NEW fr, NEW rs, fr[f] \in Int, rs[f] \in Int,
           fr[f] + rs[f] = Cap, NEW n \in Amounts, fr[f] < n
    PROVE  HeavyPlus(rs, f) /\ Heavy(rs, f)
<1>1. ASSUME NEW k \in Amounts PROVE rs[f] >= k + Z
  BY TwoFit, AmountNat, SeqsNat
<1>2. ASSUME NEW k \in Amounts PROVE rs[f] >= k
  BY <1>1, AmountNat, SeqsNat
<1> QED
  BY <1>1, <1>2 DEF HeavyPlus, Heavy

LEMMA RoomAdds ==
    ASSUME NEW cur, NEW tail, NEW fr, NEW rs, Room(cur, tail, fr, rs), NEW fr2, NEW rs2,
           NEW f \in Seqs, f = cur \/ f = tail, NEW k \in Int, Adds(fr, rs, fr2, rs2, f, k),
           rs[f] + k >= 0, fr[f] - k >= 0
    PROVE  Room(cur, tail, fr2, rs2)
<1>1. /\ cur \in Nat /\ tail \in Nat /\ cur \in Seqs /\ tail \in Seqs /\ cur <= tail
      /\ \A g \in Seqs : g \in Nat /\ fr[g] \in Int /\ rs[g] \in Int /\ fr2[g] \in Int /\ rs2[g] \in Int
  BY SeqsNat DEF Room, Adds
<1>2. ASSUME NEW g \in Seqs
      PROVE  /\ fr2[g] >= 0 /\ rs2[g] >= 0 /\ fr2[g] + rs2[g] <= Cap
             /\ g < cur \/ tail < g => rs2[g] = 0
             /\ cur < g /\ g <= tail => fr2[g] + rs2[g] = Cap
             /\ cur < g /\ g < tail => Heavy(rs2, g)
  <2>1. /\ fr[g] >= 0 /\ rs[g] >= 0 /\ fr[g] + rs[g] <= Cap
        /\ g < cur \/ tail < g => rs[g] = 0
        /\ cur < g /\ g <= tail => fr[g] + rs[g] = Cap
        /\ cur < g /\ g < tail => Heavy(rs, g)
    BY DEF Room
  <2>2. CASE g = f
    BY <1>1, <2>1, <2>2, SeqsNat DEF Adds
  <2>3. CASE g # f
    <3>1. fr2[g] = fr[g] /\ rs2[g] = rs[g]
      BY <2>3 DEF Adds
    <3> QED
      BY <2>1, <3>1 DEF Heavy
  <2> QED
    BY <2>2, <2>3
<1> QED
  BY <1>1, <1>2 DEF Room, Adds

LEMMA RoomShift ==
    ASSUME NEW cur, NEW tail, NEW fr, NEW rs, Room(cur, tail, fr, rs), NEW fr2, NEW rs2,
           NEW to \in Seqs, NEW from \in Seqs, cur <= to, to <= tail, cur <= from, from <= tail,
           NEW k \in Nat, Shift(fr, rs, fr2, rs2, to, from, k),
           rs[from] >= k, fr[to] >= k,
           cur < from /\ from < tail => Heavy(rs2, from)
    PROVE  Room(cur, tail, fr2, rs2)
<1>1. /\ cur \in Nat /\ tail \in Nat /\ cur \in Seqs /\ tail \in Seqs /\ cur <= tail
      /\ \A g \in Seqs : g \in Nat /\ fr[g] \in Int /\ rs[g] \in Int /\ fr2[g] \in Int /\ rs2[g] \in Int
  BY SeqsNat DEF Room, Shift
<1>2. ASSUME NEW g \in Seqs
      PROVE  /\ fr2[g] >= 0 /\ rs2[g] >= 0 /\ fr2[g] + rs2[g] <= Cap
             /\ g < cur \/ tail < g => rs2[g] = 0
             /\ cur < g /\ g <= tail => fr2[g] + rs2[g] = Cap
             /\ cur < g /\ g < tail => Heavy(rs2, g)
  <2>1. /\ fr[g] >= 0 /\ rs[g] >= 0 /\ fr[g] + rs[g] <= Cap
        /\ g < cur \/ tail < g => rs[g] = 0
        /\ cur < g /\ g <= tail => fr[g] + rs[g] = Cap
        /\ cur < g /\ g < tail => Heavy(rs, g)
    BY DEF Room
  <2>2. CASE g = from /\ from # to
    BY <1>1, <2>1, <2>2, SeqsNat DEF Shift
  <2>3. CASE g = to /\ from # to
    <3>1. rs2[g] = rs[g] + k /\ fr2[g] = fr[g] - k
      BY <2>3 DEF Shift
    <3>2. Heavy(rs, g) => Heavy(rs2, g)
      BY <1>1, <3>1, AmountNat DEF Heavy
    <3> QED
      BY <1>1, <2>1, <2>3, <3>1, <3>2, SeqsNat
  <2>4. CASE (g # to /\ g # from) \/ from = to
    <3>1. fr2[g] = fr[g] /\ rs2[g] = rs[g]
      BY <2>4 DEF Shift
    <3> QED
      BY <2>1, <3>1 DEF Heavy
  <2> QED
    BY <2>2, <2>3, <2>4
<1> QED
  BY <1>1, <1>2 DEF Room, Shift

\* A new file at the tail.
LEMMA RoomGrow ==
    ASSUME NEW cur, NEW tail, NEW fr, NEW rs, Room(cur, tail, fr, rs), NEW fr2,
           tail + 1 \in Seqs, Grows1(fr, fr2, tail + 1), tail = cur \/ Heavy(rs, tail), Cap >= 0
    PROVE  Room(cur, tail + 1, fr2, rs) /\ rs[tail + 1] = 0
<1>1. /\ cur \in Nat /\ tail \in Nat /\ cur \in Seqs /\ tail \in Seqs /\ cur <= tail
      /\ \A g \in Seqs : g \in Nat /\ fr[g] \in Int /\ rs[g] \in Int /\ fr2[g] \in Int
  BY SeqsNat DEF Room, Grows1
<1>2. ASSUME NEW g \in Seqs
      PROVE  /\ fr2[g] >= 0 /\ rs[g] >= 0 /\ fr2[g] + rs[g] <= Cap
             /\ g < cur \/ tail + 1 < g => rs[g] = 0
             /\ cur < g /\ g <= tail + 1 => fr2[g] + rs[g] = Cap
             /\ cur < g /\ g < tail + 1 => Heavy(rs, g)
  <2>1. /\ fr[g] >= 0 /\ rs[g] >= 0 /\ fr[g] + rs[g] <= Cap
        /\ g < cur \/ tail < g => rs[g] = 0
        /\ cur < g /\ g <= tail => fr[g] + rs[g] = Cap
        /\ cur < g /\ g < tail => Heavy(rs, g)
    BY DEF Room
  <2>2. CASE g = tail + 1
    BY <1>1, <2>1, <2>2, SeqsNat DEF Grows1
  <2>3. CASE g # tail + 1
    BY <1>1, <2>1, <2>3, SeqsNat DEF Grows1
  <2> QED
    BY <2>2, <2>3
<1>3. rs[tail + 1] = 0
  BY <1>1 DEF Room
<1> QED
  BY <1>1, <1>2, <1>3 DEF Room, Grows1

\* The next file becomes the current one.
LEMMA RoomNext ==
    ASSUME NEW cur, NEW tail, NEW fr, NEW rs, Room(cur, tail, fr, rs), cur < tail, rs[cur] = 0
    PROVE  Room(cur + 1, tail, fr, rs)
<1>1. cur \in Nat /\ tail \in Nat /\ cur \in Seqs /\ tail \in Seqs /\ cur <= tail /\ cur + 1 \in Seqs
  BY WalConstants DEF Room, Seqs
<1>2. \A g \in Seqs : g \in Nat
  BY SeqsNat
<1>3. \A g \in Seqs : g < cur + 1 => g < cur \/ g = cur
  BY <1>1, <1>2
<1>4. \A g \in Seqs : cur + 1 < g => cur < g
  BY <1>1, <1>2
<1> QED
  BY <1>1, <1>3, <1>4 DEF Room

\* Bytes that were reserved in the current file are written.
LEMMA RoomWrite ==
    ASSUME NEW cur, NEW tail, NEW fr, NEW rs, Room(cur, tail, fr, rs), NEW rs2, NEW k \in Nat,
           rs2 = [rs EXCEPT ![cur] = @ - k], rs[cur] >= k
    PROVE  Room(cur, tail, fr, rs2)
<1>1. /\ cur \in Nat /\ tail \in Nat /\ cur \in Seqs /\ tail \in Seqs /\ cur <= tail
      /\ rs \in [Seqs -> Int] /\ fr \in [Seqs -> Int]
  BY SeqsNat DEF Room
<1>2. /\ rs2 \in [Seqs -> Int] /\ rs2[cur] = rs[cur] - k
      /\ \A g \in Seqs : g # cur => rs2[g] = rs[g]
  BY <1>1
<1>3. ASSUME NEW g \in Seqs
      PROVE  /\ fr[g] >= 0 /\ rs2[g] >= 0 /\ fr[g] + rs2[g] <= Cap
             /\ g < cur \/ tail < g => rs2[g] = 0
             /\ cur < g /\ g <= tail => fr[g] + rs2[g] = Cap
             /\ cur < g /\ g < tail => Heavy(rs2, g)
  <2>1. /\ fr[g] >= 0 /\ rs[g] >= 0 /\ fr[g] + rs[g] <= Cap
        /\ g < cur \/ tail < g => rs[g] = 0
        /\ cur < g /\ g <= tail => fr[g] + rs[g] = Cap
        /\ cur < g /\ g < tail => Heavy(rs, g)
    BY DEF Room
  <2>2. CASE g = cur
    BY <1>1, <1>2, <2>1, <2>2, SeqsNat
  <2>3. CASE g # cur
    BY <1>2, <2>1, <2>3 DEF Heavy
  <2> QED
    BY <2>2, <2>3
<1> QED
  BY <1>1, <1>2, <1>3 DEF Room

LEMMA MultSum ==
    ASSUME NEW a \in Int, NEW b \in Int, NEW c, Mult(a), Mult(b), c = a + b
    PROVE  Mult(c)
BY MultOf

LEMMA MultDiff ==
    ASSUME NEW a \in Int, NEW b \in Int, NEW c, Mult(a), Mult(b), c = a - b
    PROVE  Mult(c)
BY MultOf

\* What a state of the files is made of.
LEMMA RoomType ==
    ASSUME NEW cur, NEW tail, NEW fr, NEW rs, Room(cur, tail, fr, rs)
    PROVE  /\ cur \in Nat /\ tail \in Nat /\ cur \in Seqs /\ tail \in Seqs /\ cur <= tail
           /\ \A g \in Seqs : g \in Nat /\ fr[g] \in Int /\ rs[g] \in Int /\ fr[g] >= 0 /\ rs[g] >= 0
           /\ \A g \in Seqs : cur < g /\ g <= tail => fr[g] + rs[g] = Cap
           /\ \A g \in Seqs : tail < g => rs[g] = 0
BY SeqsNat DEF Room

\* reserve finds room in the current file.
LEMMA TakeCur ==
    ASSUME NEW cur, NEW tail, NEW fr, NEW rs, Room(cur, tail, fr, rs), Even(cur, rs, 0),
           NEW n \in Amounts, fr[cur] >= n, NEW fr2, NEW rs2, Adds(fr, rs, fr2, rs2, cur, n)
    PROVE  Room(cur, tail, fr2, rs2) /\ Even(cur, rs2, n) /\ rs2[cur] >= n
<1>1. n \in Nat /\ n \in Int /\ cur \in Seqs /\ rs[cur] \in Int /\ fr[cur] \in Int /\ rs[cur] >= 0
  BY AmountNat, RoomType
<1>2. rs2[cur] = rs[cur] + n /\ \A g \in Seqs \ {cur} : rs2[g] = rs[g]
  BY DEF Adds
<1>3. Room(cur, tail, fr2, rs2)
  BY <1>1, RoomAdds
<1>4. rs2[cur] - n = rs[cur] - 0
  BY <1>1, <1>2
<1>5. Even(cur, rs2, n)
  BY <1>2, <1>4 DEF Even
<1> QED
  BY <1>1, <1>2, <1>3, <1>5

\* reserve finds room in the tail.
LEMMA TakeTail ==
    ASSUME NEW cur, NEW tail, NEW fr, NEW rs, Room(cur, tail, fr, rs), Even(cur, rs, 0),
           NEW n \in Amounts, fr[cur] < n, fr[tail] >= n,
           NEW fr2, NEW rs2, Adds(fr, rs, fr2, rs2, tail, n)
    PROVE  Room(cur, tail, fr2, rs2) /\ Balancing(cur, tail, fr2, rs2, n)
<1>1. n \in Nat /\ n \in Int /\ cur \in Nat /\ cur \in Seqs /\ tail \in Nat /\ tail \in Seqs
      /\ cur <= tail /\ rs[tail] \in Int /\ fr[tail] \in Int /\ rs[tail] >= 0 /\ rs[cur] \in Int
      /\ fr[cur] \in Int
  BY AmountNat, RoomType
<1>2. rs2[tail] = rs[tail] + n /\ \A g \in Seqs \ {tail} : rs2[g] = rs[g]
  BY DEF Adds
<1>3. Room(cur, tail, fr2, rs2)
  BY <1>1, RoomAdds
<1>4. cur < tail
  BY <1>1
<1>5. Mult(rs[cur]) /\ \A g \in Seqs : Mult(rs[g])
  <2>1. rs[cur] - 0 = rs[cur]
    BY <1>1
  <2> QED
    BY <2>1 DEF Even
<1>6. rs2[tail] - n = rs[tail] /\ rs2[tail] >= n
  BY <1>1, <1>2
<1>7. Lent(tail, rs2, n)
  BY <1>1, <1>2, <1>5, <1>6 DEF Lent
<1> QED
  BY <1>1, <1>3, <1>4, <1>7 DEF Balancing

\* reserve makes a file.
LEMMA TakeNew ==
    ASSUME RoomyFiles, NEW cur, NEW tail, NEW fr, NEW rs, Room(cur, tail, fr, rs),
           Even(cur, rs, 0), NEW n \in Amounts, fr[cur] < n, fr[tail] < n,
           NEW new \in Seqs, new = tail + 1, NEW fr1, Grows1(fr, fr1, new),
           NEW fr2, NEW rs2, Adds(fr1, rs, fr2, rs2, new, n)
    PROVE  Room(cur, new, fr2, rs2) /\ Balancing(cur, new, fr2, rs2, n)
<1>1. n \in Nat /\ n >= Z /\ cur \in Nat /\ cur \in Seqs /\ tail \in Nat /\ tail \in Seqs
      /\ cur <= tail /\ rs[tail] \in Int /\ fr[tail] \in Int
      /\ (cur < tail => fr[tail] + rs[tail] = Cap) /\ fr[cur] \in Int
  BY AmountNat, RoomType
<1>2. tail = cur \/ Heavy(rs, tail)
  <2> SUFFICES ASSUME tail # cur PROVE Heavy(rs, tail)
    OBVIOUS
  <2>1. fr[tail] + rs[tail] = Cap
    BY <1>1
  <2> QED
    BY <1>1, <2>1, HeavyOf
<1>3. n <= Cap /\ Cap >= 0
  BY <1>1, TwoFit, SeqsNat
<1>4. Room(cur, new, fr1, rs)
  BY <1>2, <1>3, RoomGrow
<1>5. fr1[cur] < n /\ fr1[new] >= n
  BY <1>1, <1>3 DEF Grows1
<1> QED
  BY <1>4, <1>5, TakeTail

\* balance has found the n bytes in the current file.
LEMMA RestStart ==
    ASSUME NEW cur, NEW tail, NEW fr, NEW rs, Room(cur, tail, fr, rs), NEW n \in Amounts,
           Balancing(cur, tail, fr, rs, n), rs[cur] >= n
    PROVE  Resting(cur, tail, fr, rs, n, cur)
<1>1. cur \in Nat /\ cur \in Seqs /\ tail \in Nat /\ tail \in Seqs /\ cur <= tail
      /\ \A g \in Seqs : g \in Nat
  BY RoomType
<1>2. PICK T \in Seqs :
        /\ cur <= T /\ T <= tail
        /\ Lent(T, rs, n)
        /\ \/ T = tail /\ cur < T
           \/ rs[cur] >= n /\ (T = cur \/ Behind(T, tail, fr, rs))
  BY DEF Balancing
<1>3. CASE T = cur
  <2>1. Even(cur, rs, n)
    BY <1>2, <1>3 DEF Even, Lent
  <2> QED
    BY <1>1, <2>1 DEF Resting
<1>4. CASE T # cur
  <2>1. cur < T /\ Behind(T, tail, fr, rs)
    BY <1>1, <1>2, <1>4 DEF Behind
  <2> QED
    BY <1>1, <1>2, <2>1 DEF Resting
<1> QED
  BY <1>3, <1>4

\* The current file has too little: the n bytes are in the tail.
LEMMA LentTail ==
    ASSUME NEW cur, NEW tail, NEW fr, NEW rs, Room(cur, tail, fr, rs), NEW n \in Amounts,
           Balancing(cur, tail, fr, rs, n), rs[cur] < n
    PROVE  cur < tail /\ Lent(tail, rs, n) /\ Mult(rs[cur]) /\ cur # tail
<1>1. cur \in Nat /\ cur \in Seqs /\ tail \in Nat /\ tail \in Seqs /\ rs[cur] \in Int /\ n \in Int
  BY RoomType, AmountNat
<1>2. PICK T \in Seqs :
        /\ cur <= T /\ T <= tail
        /\ Lent(T, rs, n)
        /\ \/ T = tail /\ cur < T
           \/ rs[cur] >= n /\ (T = cur \/ Behind(T, tail, fr, rs))
  BY DEF Balancing
<1>3. T = tail /\ cur < tail
  BY <1>1, <1>2
<1> QED
  BY <1>1, <1>2, <1>3 DEF Lent

\* balance passes over the current file, whose bytes go to the tail.
LEMMA BalanceMove ==
    ASSUME NEW cur, NEW tail, NEW fr, NEW rs, Room(cur, tail, fr, rs), NEW n \in Amounts,
           Balancing(cur, tail, fr, rs, n), rs[cur] < n, fr[tail] >= rs[cur],
           NEW fr2, NEW rs2, Shift(fr, rs, fr2, rs2, tail, cur, rs[cur])
    PROVE  /\ Room(cur, tail, fr2, rs2) /\ cur < tail /\ rs2[cur] = 0
           /\ Room(cur + 1, tail, fr2, rs2) /\ Balancing(cur + 1, tail, fr2, rs2, n)
<1>1. cur \in Nat /\ cur \in Seqs /\ tail \in Nat /\ tail \in Seqs /\ cur <= tail
      /\ rs[cur] \in Int /\ rs[tail] \in Int /\ n \in Nat /\ rs[cur] >= 0 /\ rs[cur] \in Nat
      /\ fr[tail] \in Int
  BY RoomType, AmountNat
<1>2. cur < tail /\ Lent(tail, rs, n) /\ Mult(rs[cur]) /\ cur # tail
  BY LentTail
<1>3. /\ rs2[cur] = 0 /\ rs2[tail] = rs[tail] + rs[cur]
      /\ \A g \in Seqs \ {cur, tail} : rs2[g] = rs[g]
  BY <1>1, <1>2 DEF Shift
<1>4. Room(cur, tail, fr2, rs2)
  BY <1>1, RoomShift
<1>5. Room(cur + 1, tail, fr2, rs2)
  BY <1>2, <1>3, <1>4, RoomNext
<1>6. Lent(tail, rs2, n)
  <2>1. rs2[tail] - n = (rs[tail] - n) + rs[cur] /\ rs2[tail] >= n
    BY <1>1, <1>2, <1>3 DEF Lent
  <2>2. Mult(rs2[tail] - n)
    BY <1>1, <1>2, <2>1, MultSum DEF Lent
  <2>3. \A g \in Seqs \ {tail} : Mult(rs2[g])
    BY <1>2, <1>3, MultZ DEF Lent
  <2> QED
    BY <2>1, <2>2, <2>3 DEF Lent
<1>7. Balancing(cur + 1, tail, fr2, rs2, n)
  <2>1. cur + 1 <= tail /\ tail <= tail
    BY <1>1, <1>2
  <2>2. cur + 1 < tail \/ (cur + 1 = tail /\ rs2[cur + 1] >= n)
    BY <1>1, <1>6, <2>1 DEF Lent
  <2> QED
    BY <1>1, <1>6, <2>1, <2>2 DEF Balancing
<1> QED
  BY <1>2, <1>3, <1>4, <1>5, <1>7

\* The same, to a new file.
LEMMA BalanceNew ==
    ASSUME RoomyFiles, NEW cur, NEW tail, NEW fr, NEW rs, Room(cur, tail, fr, rs),
           NEW n \in Amounts, Balancing(cur, tail, fr, rs, n), rs[cur] < n, fr[tail] < rs[cur],
           NEW new \in Seqs, new = tail + 1, NEW fr1, Grows1(fr, fr1, new),
           NEW fr2, NEW rs2, Shift(fr1, rs, fr2, rs2, new, cur, rs[cur])
    PROVE  /\ Room(cur, new, fr2, rs2) /\ cur < new /\ rs2[cur] = 0
           /\ Room(cur + 1, new, fr2, rs2) /\ Balancing(cur + 1, new, fr2, rs2, n)
<1>1. cur \in Nat /\ cur \in Seqs /\ tail \in Nat /\ tail \in Seqs /\ cur <= tail
      /\ rs[cur] \in Int /\ rs[tail] \in Int /\ n \in Nat /\ n >= Z /\ rs[cur] >= 0
      /\ rs[cur] \in Nat /\ fr[tail] \in Int /\ new \in Nat
  BY RoomType, AmountNat
<1>2. cur < tail /\ Lent(tail, rs, n) /\ Mult(rs[cur]) /\ cur # tail
  BY LentTail
<1>3. HeavyPlus(rs, tail) /\ Heavy(rs, tail)
  <2>1. fr[tail] < n /\ fr[tail] + rs[tail] = Cap
    BY <1>1, <1>2, RoomType
  <2> QED
    BY <1>1, <2>1, HeavyOf
<1>4. n + n + Z <= Cap /\ Cap >= 0 /\ Cap \in Int /\ Z \in Nat
  BY <1>1, TwoFit, SeqsNat
<1>5. Room(cur, new, fr1, rs) /\ rs[new] = 0
  BY <1>3, <1>4, RoomGrow
<1>6. fr1[new] = Cap
  BY DEF Grows1
<1>7. /\ rs2[cur] = 0 /\ rs2[new] = rs[cur] /\ fr2[new] = Cap - rs[cur]
      /\ \A g \in Seqs \ {cur, new} : rs2[g] = rs[g]
  BY <1>1, <1>2, <1>5, <1>6 DEF Shift
<1>8. Room(cur, new, fr2, rs2)
  BY <1>1, <1>4, <1>5, <1>6, RoomShift
<1>9. cur < new /\ Room(cur + 1, new, fr2, rs2)
  BY <1>1, <1>2, <1>7, <1>8, RoomNext
<1>10. rs2[tail] = rs[tail] /\ tail # new
  BY <1>1, <1>2, <1>7
<1>11. Lent(tail, rs2, n)
  BY <1>2, <1>7, <1>10, MultZ DEF Lent
<1>12. Behind(tail, new, fr2, rs2)
  <2>1. fr2[new] >= Z
    BY <1>1, <1>4, <1>7
  <2> QED
    BY <1>3, <1>10, <2>1 DEF Behind, HeavyPlus
<1>13. cur + 1 <= tail /\ tail <= new /\ cur + 1 \in Seqs
  BY <1>1, <1>2, <1>9 DEF Room
<1>14. rs2[cur + 1] >= n
  <2>1. Heavy(rs, cur + 1)
    BY <1>1, <1>3, <1>13 DEF Room
  <2>2. rs2[cur + 1] = rs[cur + 1]
    BY <1>1, <1>7, <1>13
  <2> QED
    BY <2>1, <2>2 DEF Heavy
<1>15. Balancing(cur + 1, new, fr2, rs2, n)
  BY <1>1, <1>11, <1>12, <1>13, <1>14 DEF Balancing
<1> QED
  BY <1>7, <1>8, <1>9, <1>15

\* reserve takes the n bytes back from the tail.
LEMMA Undo ==
    ASSUME NEW cur, NEW tail, NEW fr, NEW rs, Room(cur, tail, fr, rs), NEW n \in Amounts,
           Lent(tail, rs, n), cur # tail, NEW fr2, NEW rs2, NEW k, k = -n,
           Adds(fr, rs, fr2, rs2, tail, k)
    PROVE  Room(cur, tail, fr2, rs2) /\ Even(cur, rs2, 0)
<1>1. cur \in Seqs /\ tail \in Seqs /\ rs[cur] \in Int /\ rs[tail] \in Int /\ n \in Nat
      /\ fr[tail] \in Int /\ fr[tail] >= 0 /\ k \in Int /\ rs[tail] >= n
  BY RoomType, AmountNat DEF Lent
<1>2. rs2[tail] = rs[tail] - n /\ rs2[cur] = rs[cur] /\ \A g \in Seqs \ {tail} : rs2[g] = rs[g]
  BY <1>1 DEF Adds
<1>3. Room(cur, tail, fr2, rs2)
  <2>1. rs[tail] + k >= 0 /\ fr[tail] - k >= 0
    BY <1>1
  <2> QED
    BY <1>1, <2>1, RoomAdds
<1>4. \A g \in Seqs : Mult(rs2[g])
  BY <1>2 DEF Lent
<1>5. rs2[cur] - 0 = rs2[cur]
  BY <1>1, <1>2
<1> QED
  BY <1>1, <1>3, <1>4, <1>5 DEF Even

\* balancerest has dealt with file b.
Rested(cur, tail, fr, rs, n, b) ==
    IF b = tail THEN Even(cur, rs, n) /\ rs[cur] >= n
    ELSE Resting(cur, tail, fr, rs, n, b + 1)

\* r bytes are too many in the current file b, file T has the n bytes.
Early(cur, tail, fr, rs, n, b, r, T) ==
    /\ b = cur /\ T \in Seqs /\ cur < T /\ T <= tail
    /\ Lent(T, rs, n) /\ Behind(T, tail, fr, rs)
    /\ Mult(n + r) /\ Mult(rs[cur]) /\ rs[cur] >= n + r

\* r bytes are too many in file b, which had the n bytes that cur now has.
Late(cur, tail, fr, rs, n, b, r) ==
    /\ cur < b /\ b < tail /\ rs[cur] >= n
    /\ Mult(n - r) /\ fr[tail] >= r /\ HeavyPlus(rs, b)
    /\ Mult(rs[cur] - n) /\ Mult(rs[b] - n) /\ Mult(rs[tail] + n)
    /\ \A f \in Seqs \ {cur, b, tail} : Mult(rs[f])

\* All files are even.
LEMMA RestedEven ==
    ASSUME NEW cur, NEW tail, NEW fr, NEW rs, Room(cur, tail, fr, rs), NEW n \in Amounts,
           Even(cur, rs, n), NEW b \in Seqs, cur <= b, b <= tail, rs[cur] >= n
    PROVE  Rested(cur, tail, fr, rs, n, b)
<1>1. cur \in Nat /\ b \in Nat /\ tail \in Nat /\ tail \in 1..MaxSeq /\ b \in 1..MaxSeq /\ MaxSeq \in Nat
  BY RoomType, SeqsNat DEF Seqs
<1>2. b # tail => b + 1 \in Seqs /\ cur <= b + 1 /\ b + 1 <= tail
  BY <1>1 DEF Seqs
<1> QED
  BY <1>2 DEF Rested, Resting

\* The two cases in which a file has bytes that balancerest must move.
LEMMA RestCases ==
    ASSUME NEW cur, NEW tail, NEW fr, NEW rs, Room(cur, tail, fr, rs), NEW n \in Amounts,
           NEW b, Resting(cur, tail, fr, rs, n, b), NEW x, x = (IF b = cur THEN n ELSE 0),
           NEW r, r = (rs[b] - x) % Z, r # 0
    PROVE  /\ b \in Seqs /\ cur <= b /\ b < tail
           /\ r \in Nat /\ 0 < r /\ r < Z
           /\ \/ \E T \in Seqs : Early(cur, tail, fr, rs, n, b, r, T)
              \/ Late(cur, tail, fr, rs, n, b, r)
<1>1. cur \in Nat /\ cur \in Seqs /\ tail \in Nat /\ tail \in Seqs /\ cur <= tail /\ n \in Nat
      /\ b \in Seqs /\ b \in Nat /\ cur <= b /\ b <= tail /\ rs[cur] >= n
      /\ \A g \in Seqs : g \in Nat /\ rs[g] \in Int /\ rs[g] >= 0
  BY RoomType, AmountNat, SeqsNat DEF Resting
<1>2. rs[b] - x \in Int /\ rs[b] - x >= 0
  BY <1>1
<1>3. r \in Nat /\ 0 < r /\ r < Z /\ r <= rs[b] - x /\ ~Mult(rs[b] - x) /\ Mult((rs[b] - x) - r)
  BY <1>2, ModOf
<1>4. ~Even(cur, rs, n)
  <2> SUFFICES ASSUME Even(cur, rs, n) PROVE FALSE
    OBVIOUS
  <2>1. CASE b = cur
    BY <1>3, <2>1 DEF Even
  <2>2. CASE b # cur
    <3>1. rs[b] - x = rs[b]
      BY <1>1, <2>2
    <3> QED
      BY <1>1, <1>3, <2>2, <3>1 DEF Even
  <2> QED
    BY <2>1, <2>2
<1>5. CASE \E T \in Seqs : /\ b = cur /\ cur < T /\ T <= tail
                           /\ Lent(T, rs, n) /\ Behind(T, tail, fr, rs)
  <2>1. PICK T \in Seqs : /\ b = cur /\ cur < T /\ T <= tail
                          /\ Lent(T, rs, n) /\ Behind(T, tail, fr, rs)
    BY <1>5
  <2>2. cur # T /\ T \in Nat /\ x = n
    BY <1>1, <2>1
  <2>3. Mult(rs[cur])
    BY <1>1, <2>1, <2>2 DEF Lent
  <2>9. PICK y : y = (rs[b] - x) - r
    OBVIOUS
  <2>4. y \in Int /\ Mult(y) /\ n + r = rs[cur] - y /\ rs[cur] \in Int
    BY <1>1, <1>3, <2>1, <2>2, <2>9
  <2>5. Mult(n + r)
    BY <2>3, <2>4, MultDiff
  <2>6. rs[cur] >= n + r
    BY <1>1, <1>3, <2>1, <2>2
  <2>7. Early(cur, tail, fr, rs, n, b, r, T)
    BY <2>1, <2>3, <2>5, <2>6 DEF Early
  <2>8. b < tail
    BY <1>1, <2>1, <2>2
  <2> QED
    BY <1>1, <1>3, <2>7, <2>8
<1>6. CASE \E T \in Seqs, e \in 0..(Z - 1) :
            /\ cur < b /\ b <= T /\ T < tail
            /\ Mult(n - e) /\ fr[tail] >= e /\ HeavyPlus(rs, T)
            /\ Mult(rs[cur] - n) /\ Mult(rs[T] - n) /\ Mult(rs[tail] + n)
            /\ \A f \in Seqs \ {cur, T, tail} : Mult(rs[f])
  <2>1. PICK T \in Seqs, e \in 0..(Z - 1) :
            /\ cur < b /\ b <= T /\ T < tail
            /\ Mult(n - e) /\ fr[tail] >= e /\ HeavyPlus(rs, T)
            /\ Mult(rs[cur] - n) /\ Mult(rs[T] - n) /\ Mult(rs[tail] + n)
            /\ \A f \in Seqs \ {cur, T, tail} : Mult(rs[f])
    BY <1>6
  <2>2. b # cur /\ b < tail /\ T \in Nat /\ x = 0 /\ rs[b] - x = rs[b] /\ e \in Int /\ 0 <= e /\ e < Z
    BY <1>1, <2>1, SeqsNat
  <2>3. b = T
    <3> SUFFICES ASSUME b # T PROVE FALSE
      OBVIOUS
    <3>1. Mult(rs[b])
      BY <1>1, <2>1, <2>2
    <3> QED
      BY <1>3, <2>2, <3>1
  <2>4. n - r = (rs[b] - r) - (rs[b] - n)
    BY <1>1, <1>3
  <2>5. Mult(rs[b] - r) /\ Mult(rs[b] - n)
    BY <1>3, <2>1, <2>2, <2>3
  <2>6. Mult(n - r)
    BY <1>1, <1>3, <2>4, <2>5, MultDiff
  <2>7. e - r = (n - r) - (n - e)
    BY <1>1, <1>3, <2>2
  <2>8. Mult(e - r)
    BY <1>1, <1>3, <2>1, <2>2, <2>6, <2>7, MultDiff
  <2>9. e = r
    BY <1>3, <2>2, <2>8, MultOne
  <2>10. Late(cur, tail, fr, rs, n, b, r)
    BY <1>1, <2>1, <2>2, <2>3, <2>6, <2>9 DEF Late
  <2> QED
    BY <1>1, <1>3, <2>2, <2>10
<1> QED
  BY <1>4, <1>5, <1>6 DEF Resting

\* File b has no bytes to move.
LEMMA RestNone ==
    ASSUME NEW cur, NEW tail, NEW fr, NEW rs, Room(cur, tail, fr, rs), NEW n \in Amounts,
           NEW b, Resting(cur, tail, fr, rs, n, b), NEW x, x = (IF b = cur THEN n ELSE 0),
           (rs[b] - x) % Z = 0
    PROVE  Rested(cur, tail, fr, rs, n, b)
<1>1. cur \in Nat /\ cur \in Seqs /\ tail \in Nat /\ tail \in Seqs /\ cur <= tail /\ n \in Nat
      /\ b \in Seqs /\ b \in Nat /\ cur <= b /\ b <= tail /\ rs[cur] >= n
      /\ \A g \in Seqs : g \in Nat /\ rs[g] \in Int /\ rs[g] >= 0
  BY RoomType, AmountNat, SeqsNat DEF Resting
<1>2. rs[b] - x \in Int
  BY <1>1
<1>3. Mult(rs[b] - x)
  BY <1>2, ModOf
<1>4. CASE Even(cur, rs, n)
  BY <1>1, <1>4, RestedEven
<1>5. CASE \E T \in Seqs : /\ b = cur /\ cur < T /\ T <= tail
                           /\ Lent(T, rs, n) /\ Behind(T, tail, fr, rs)
  <2>1. PICK T \in Seqs : /\ b = cur /\ cur < T /\ T <= tail
                          /\ Lent(T, rs, n) /\ Behind(T, tail, fr, rs)
    BY <1>5
  <2>2. cur # T /\ T \in Nat /\ x = n
    BY <1>1, <2>1
  <2>3. Mult(rs[cur]) /\ Mult(rs[cur] - n) /\ Mult(rs[T] - n)
    BY <1>1, <1>3, <2>1, <2>2 DEF Lent
  <2>4. PICK y : y = rs[cur] - n
    OBVIOUS
  <2>5. y \in Int /\ Mult(y) /\ n = rs[cur] - y /\ rs[cur] \in Int
    BY <1>1, <2>3, <2>4
  <2>6. Mult(n)
    BY <2>3, <2>5, MultDiff
  <2>7. PICK z : z = rs[T] - n
    OBVIOUS
  <2>8. z \in Int /\ Mult(z) /\ rs[T] = z + n
    BY <1>1, <2>3, <2>7
  <2>9. Mult(rs[T])
    BY <1>1, <2>6, <2>8, MultSum
  <2>10. Even(cur, rs, n)
    BY <2>1, <2>3, <2>9 DEF Even, Lent
  <2> QED
    BY <1>1, <2>10, RestedEven
<1>6. CASE \E T \in Seqs, e \in 0..(Z - 1) :
            /\ cur < b /\ b <= T /\ T < tail
            /\ Mult(n - e) /\ fr[tail] >= e /\ HeavyPlus(rs, T)
            /\ Mult(rs[cur] - n) /\ Mult(rs[T] - n) /\ Mult(rs[tail] + n)
            /\ \A f \in Seqs \ {cur, T, tail} : Mult(rs[f])
  <2>1. PICK T \in Seqs, e \in 0..(Z - 1) :
            /\ cur < b /\ b <= T /\ T < tail
            /\ Mult(n - e) /\ fr[tail] >= e /\ HeavyPlus(rs, T)
            /\ Mult(rs[cur] - n) /\ Mult(rs[T] - n) /\ Mult(rs[tail] + n)
            /\ \A f \in Seqs \ {cur, T, tail} : Mult(rs[f])
    BY <1>6
  <2>2. b # cur /\ b < tail /\ T \in Nat /\ rs[b] - x = rs[b]
    BY <1>1, <2>1
  <2>3. CASE b = T
    <3>1. PICK y : y = rs[b] - n
      OBVIOUS
    <3>2. y \in Int /\ Mult(y) /\ n = rs[b] - y /\ Mult(rs[b]) /\ rs[b] \in Int
      BY <1>1, <1>3, <2>1, <2>2, <2>3, <3>1
    <3>3. Mult(n)
      BY <3>2, MultDiff
    <3>4. PICK z : z = rs[tail] + n
      OBVIOUS
    <3>5. z \in Int /\ Mult(z) /\ rs[tail] = z - n
      BY <1>1, <2>1, <3>4
    <3>6. Mult(rs[tail])
      BY <1>1, <3>3, <3>5, MultDiff
    <3>7. Even(cur, rs, n)
      BY <2>1, <2>3, <3>2, <3>6 DEF Even
    <3> QED
      BY <1>1, <3>7, RestedEven
  <2>4. CASE b # T
    <3>1. b + 1 \in Seqs
      BY <1>1, <2>2, SeqsNat DEF Seqs
    <3>2. cur <= b + 1 /\ b + 1 <= tail /\ cur < b + 1 /\ b + 1 <= T
      BY <1>1, <2>1, <2>2, <2>4
    <3>3. Resting(cur, tail, fr, rs, n, b + 1)
      BY <1>1, <2>1, <3>1, <3>2 DEF Resting
    <3> QED
      BY <1>1, <2>2, <3>3 DEF Rested
  <2> QED
    BY <2>3, <2>4
<1> QED
  BY <1>4, <1>5, <1>6 DEF Resting

\* The current file has its n bytes; what is left to do is in T and the tail.
LEMMA AfterEarly ==
    ASSUME NEW cur, NEW tail, NEW fr, NEW rs, Room(cur, tail, fr, rs), NEW n \in Amounts,
           NEW r \in Nat, 0 < r, r < Z, NEW T \in Seqs, cur < T, T <= tail,
           Mult(n + r), Mult(rs[cur] - n), rs[cur] >= n,
           \A f \in Seqs \ {cur, T, tail} : Mult(rs[f]),
           T = tail => Mult(rs[T]),
           T # tail => /\ Mult(rs[T] - n) /\ Mult(rs[tail] + n) /\ HeavyPlus(rs, T)
                       /\ fr[tail] >= Z - r
    PROVE  Rested(cur, tail, fr, rs, n, cur)
<1>1. cur \in Nat /\ cur \in Seqs /\ tail \in Nat /\ tail \in Seqs /\ cur <= tail /\ n \in Nat
      /\ T \in Nat /\ Z \in Nat
  BY RoomType, AmountNat, SeqsNat
<1>2. CASE T = tail
  <2>1. Even(cur, rs, n)
    BY <1>1, <1>2 DEF Even
  <2> QED
    BY <1>1, <2>1, RestedEven
<1>3. CASE T # tail
  <2>1. PICK e : e = Z - r
    OBVIOUS
  <2>2. PICK y : y = n + r
    OBVIOUS
  <2>8. PICK d : d = n - e
    OBVIOUS
  <2>3. e \in 0..(Z - 1) /\ y \in Int /\ Mult(y) /\ d = y - Z /\ fr[tail] >= e /\ Z \in Int
    BY <1>1, <1>3, <2>1, <2>2, <2>8
  <2>9. Mult(d)
    BY <2>3, MultZ, MultDiff
  <2>4. Mult(n - e)
    BY <2>8, <2>9
  <2>5. cur + 1 \in Seqs
    BY <1>1, SeqsNat DEF Seqs
  <2>6. cur <= cur + 1 /\ cur + 1 <= tail /\ cur < cur + 1 /\ cur + 1 <= T /\ T < tail /\ cur # tail
    BY <1>1, <1>3
  <2>7. Resting(cur, tail, fr, rs, n, cur + 1)
    BY <1>3, <2>3, <2>4, <2>5, <2>6 DEF Resting
  <2> QED
    BY <2>6, <2>7 DEF Rested
<1> QED
  BY <1>2, <1>3

\* Bytes of the tail move back to file b.
LEMMA RestBack ==
    ASSUME NEW cur, NEW tail, NEW fr, NEW rs, Room(cur, tail, fr, rs), NEW n \in Amounts,
           NEW b, Resting(cur, tail, fr, rs, n, b), NEW x, x = (IF b = cur THEN n ELSE 0),
           NEW r, r = (rs[b] - x) % Z, r # 0, NEW c, c = Z - r, rs[tail] >= c, fr[b] >= c,
           NEW fr2, NEW rs2, Shift(fr, rs, fr2, rs2, b, tail, c)
    PROVE  Room(cur, tail, fr2, rs2) /\ Rested(cur, tail, fr2, rs2, n, b)
<1>1. /\ b \in Seqs /\ cur <= b /\ b < tail
      /\ r \in Nat /\ 0 < r /\ r < Z
      /\ \/ \E T \in Seqs : Early(cur, tail, fr, rs, n, b, r, T)
         \/ Late(cur, tail, fr, rs, n, b, r)
  BY RestCases
<1>2. cur \in Nat /\ cur \in Seqs /\ tail \in Nat /\ tail \in Seqs /\ cur <= tail /\ n \in Nat
      /\ b \in Nat /\ Z \in Nat /\ c \in Nat /\ c \in Int /\ b # tail
      /\ \A g \in Seqs : g \in Nat /\ rs[g] \in Int /\ fr[g] \in Int
  BY <1>1, RoomType, AmountNat, SeqsNat
<1>3. /\ rs2[tail] = rs[tail] - c /\ fr2[tail] = fr[tail] + c /\ rs2[b] = rs[b] + c
      /\ \A g \in Seqs \ {b, tail} : rs2[g] = rs[g]
  BY <1>1, <1>2 DEF Shift
<1>4. Room(cur, tail, fr2, rs2)
  BY <1>1, <1>2, RoomShift
<1>5. ASSUME NEW T \in Seqs, Early(cur, tail, fr, rs, n, b, r, T) PROVE Rested(cur, tail, fr2, rs2, n, b)
  <2>1. /\ b = cur /\ T \in Seqs /\ cur < T /\ T <= tail
        /\ Lent(T, rs, n) /\ Behind(T, tail, fr, rs)
        /\ Mult(n + r) /\ Mult(rs[cur]) /\ rs[cur] >= n + r
    BY <1>5 DEF Early
  <2>2. PICK y : y = n + r
    OBVIOUS
  <2>3. y \in Int /\ Mult(y)
    BY <1>1, <1>2, <2>1, <2>2
  <2>4. rs2[cur] >= n /\ T \in Nat /\ T # cur /\ cur # tail
    BY <1>1, <1>2, <1>3, <2>1
  <2>5. Mult(rs2[cur] - n)
    <3>1. PICK u : u = Z - y
      OBVIOUS
    <3>2. u \in Int /\ Mult(u)
      BY <1>2, <2>3, <3>1, MultZ, MultDiff
    <3>3. PICK d : d = rs2[cur] - n
      OBVIOUS
    <3>4. d = rs[cur] + u /\ rs[cur] \in Int
      BY <1>1, <1>2, <1>3, <2>1, <2>2, <3>1, <3>3
    <3>5. Mult(d)
      BY <2>1, <3>2, <3>4, MultSum
    <3> QED
      BY <3>3, <3>5
  <2>6. \A f \in Seqs \ {cur, T, tail} : Mult(rs2[f])
    BY <1>3, <2>1 DEF Lent
  <2>7. ASSUME T = tail PROVE Mult(rs2[T])
    <3>1. PICK u : u = rs[tail] - n
      OBVIOUS
    <3>2. u \in Int /\ Mult(u)
      BY <1>2, <2>1, <2>7, <3>1 DEF Lent
    <3>3. PICK v : v = u + y
      OBVIOUS
    <3>4. v \in Int /\ Mult(v)
      BY <2>3, <3>2, <3>3, MultSum
    <3>5. rs2[T] = v - Z /\ Z \in Int
      BY <1>1, <1>2, <1>3, <2>2, <2>7, <3>1, <3>3
    <3> QED
      BY <3>4, <3>5, MultZ, MultDiff
  <2>8. ASSUME T # tail
        PROVE  Mult(rs2[T] - n) /\ Mult(rs2[tail] + n) /\ HeavyPlus(rs2, T) /\ fr2[tail] >= Z - r
    <3>1. rs2[T] = rs[T]
      BY <1>3, <2>1, <2>4, <2>8
    <3>2. HeavyPlus(rs2, T) /\ fr2[tail] >= Z - r
      BY <1>1, <1>2, <1>3, <2>1, <2>8, <3>1 DEF Behind, HeavyPlus
    <3>3. PICK u : u = y - Z
      OBVIOUS
    <3>4. u \in Int /\ Mult(u)
      BY <1>2, <2>3, <3>3, MultZ, MultDiff
    <3>8. PICK d : d = rs2[tail] + n
      OBVIOUS
    <3>9. d = rs[tail] + u /\ rs[tail] \in Int
      BY <1>1, <1>2, <1>3, <2>2, <3>3, <3>8
    <3>5. Mult(rs[tail])
      BY <1>2, <2>1, <2>8 DEF Lent
    <3>6. Mult(rs2[tail] + n)
      BY <3>4, <3>5, <3>8, <3>9, MultSum
    <3>7. Mult(rs2[T] - n)
      BY <2>1, <3>1 DEF Lent
    <3> QED
      BY <3>2, <3>6, <3>7
  <2> QED
    BY <1>1, <1>4, <2>1, <2>4, <2>5, <2>6, <2>7, <2>8, AfterEarly
<1>6. CASE Late(cur, tail, fr, rs, n, b, r)
  <2>1. /\ cur < b /\ b < tail /\ rs[cur] >= n
        /\ Mult(n - r) /\ fr[tail] >= r /\ HeavyPlus(rs, b)
        /\ Mult(rs[cur] - n) /\ Mult(rs[b] - n) /\ Mult(rs[tail] + n)
        /\ \A f \in Seqs \ {cur, b, tail} : Mult(rs[f])
    BY <1>6 DEF Late
  <2>2. rs2[cur] = rs[cur] /\ cur # b /\ cur # tail
    BY <1>2, <1>3, <2>1
  <2>3. PICK y : y = n - r
    OBVIOUS
  <2>4. y \in Int /\ Mult(y)
    BY <1>1, <1>2, <2>1, <2>3
  <2>5. PICK u : u = rs[b] - n
    OBVIOUS
  <2>6. u \in Int /\ Mult(u)
    BY <1>1, <1>2, <2>1, <2>5
  <2>7. Mult(rs2[b])
    <3>1. PICK v : v = u + y
      OBVIOUS
    <3>2. v \in Int /\ Mult(v)
      BY <2>4, <2>6, <3>1, MultSum
    <3>3. rs2[b] = v + Z /\ Z \in Int
      BY <1>1, <1>2, <1>3, <2>3, <2>5, <3>1
    <3> QED
      BY <3>2, <3>3, MultZ, MultSum
  <2>8. Mult(rs2[tail])
    <3>1. PICK v : v = rs[tail] + n
      OBVIOUS
    <3>2. v \in Int /\ Mult(v)
      BY <1>2, <2>1, <3>1
    <3>3. PICK q : q = v - y
      OBVIOUS
    <3>4. q \in Int /\ Mult(q)
      BY <2>4, <3>2, <3>3, MultDiff
    <3>5. rs2[tail] = q - Z /\ Z \in Int
      BY <1>1, <1>2, <1>3, <2>3, <3>1, <3>3
    <3> QED
      BY <3>4, <3>5, MultZ, MultDiff
  <2>9. Even(cur, rs2, n) /\ rs2[cur] >= n
    BY <1>3, <2>1, <2>2, <2>7, <2>8 DEF Even
  <2>10. b <= tail
    BY <1>1, <1>2
  <2> QED
    BY <1>1, <1>4, <2>9, <2>10, RestedEven
<1> QED
  BY <1>1, <1>4, <1>5, <1>6

\* Bytes of file b move on to the tail.
LEMMA RestOn ==
    ASSUME NEW cur, NEW tail, NEW fr, NEW rs, Room(cur, tail, fr, rs), NEW n \in Amounts,
           NEW b, Resting(cur, tail, fr, rs, n, b), NEW x, x = (IF b = cur THEN n ELSE 0),
           NEW r, r = (rs[b] - x) % Z, r # 0, fr[tail] >= r,
           NEW fr2, NEW rs2, Shift(fr, rs, fr2, rs2, tail, b, r)
    PROVE  Room(cur, tail, fr2, rs2) /\ Rested(cur, tail, fr2, rs2, n, b)
<1>1. /\ b \in Seqs /\ cur <= b /\ b < tail
      /\ r \in Nat /\ 0 < r /\ r < Z
      /\ \/ \E T \in Seqs : Early(cur, tail, fr, rs, n, b, r, T)
         \/ Late(cur, tail, fr, rs, n, b, r)
  BY RestCases
<1>2. cur \in Nat /\ cur \in Seqs /\ tail \in Nat /\ tail \in Seqs /\ cur <= tail /\ n \in Nat
      /\ b \in Nat /\ Z \in Nat /\ b # tail
      /\ \A g \in Seqs : g \in Nat /\ rs[g] \in Int /\ fr[g] \in Int
  BY <1>1, RoomType, AmountNat, SeqsNat
<1>3. /\ rs2[tail] = rs[tail] + r /\ fr2[tail] = fr[tail] - r /\ rs2[b] = rs[b] - r
      /\ \A g \in Seqs \ {b, tail} : rs2[g] = rs[g]
  BY <1>1, <1>2 DEF Shift
<1>4. ASSUME NEW T \in Seqs, Early(cur, tail, fr, rs, n, b, r, T)
      PROVE  Room(cur, tail, fr2, rs2) /\ Rested(cur, tail, fr2, rs2, n, b)
  <2>1. /\ b = cur /\ T \in Seqs /\ cur < T /\ T <= tail
        /\ Lent(T, rs, n) /\ Behind(T, tail, fr, rs)
        /\ Mult(n + r) /\ Mult(rs[cur]) /\ rs[cur] >= n + r
    BY <1>4 DEF Early
  <2>2. Room(cur, tail, fr2, rs2)
    <3>1. rs[b] >= r /\ ~(cur < b) /\ b <= tail
      BY <1>1, <1>2, <2>1
    <3> QED
      BY <1>1, <1>2, <3>1, RoomShift
  <2>3. PICK y : y = n + r
    OBVIOUS
  <2>4. y \in Int /\ Mult(y)
    BY <1>1, <1>2, <2>1, <2>3
  <2>5. rs2[cur] >= n /\ T \in Nat /\ T # cur /\ cur # tail
    BY <1>1, <1>2, <1>3, <2>1
  <2>6. Mult(rs2[cur] - n)
    <3>1. PICK d : d = rs2[cur] - n
      OBVIOUS
    <3>2. d = rs[cur] - y /\ rs[cur] \in Int
      BY <1>1, <1>2, <1>3, <2>1, <2>3, <3>1
    <3> QED
      BY <2>1, <2>4, <3>1, <3>2, MultDiff
  <2>7. \A f \in Seqs \ {cur, T, tail} : Mult(rs2[f])
    BY <1>3, <2>1 DEF Lent
  <2>8. ASSUME T = tail PROVE Mult(rs2[T])
    <3>1. PICK u : u = rs[tail] - n
      OBVIOUS
    <3>2. u \in Int /\ Mult(u) /\ rs2[T] = u + y
      BY <1>1, <1>2, <1>3, <2>1, <2>3, <2>8, <3>1 DEF Lent
    <3> QED
      BY <2>4, <3>2, MultSum
  <2>9. ASSUME T # tail
        PROVE  Mult(rs2[T] - n) /\ Mult(rs2[tail] + n) /\ HeavyPlus(rs2, T) /\ fr2[tail] >= Z - r
    <3>1. rs2[T] = rs[T]
      BY <1>3, <2>1, <2>5, <2>9
    <3>2. HeavyPlus(rs2, T) /\ fr2[tail] >= Z - r
      BY <1>1, <1>2, <1>3, <2>1, <2>9, <3>1 DEF Behind, HeavyPlus
    <3>3. PICK d : d = rs2[tail] + n
      OBVIOUS
    <3>4. d = rs[tail] + y /\ Mult(rs[tail]) /\ rs[tail] \in Int
      BY <1>1, <1>2, <1>3, <2>1, <2>3, <2>9, <3>3 DEF Lent
    <3>5. Mult(rs2[tail] + n)
      BY <2>4, <3>3, <3>4, MultSum
    <3>6. Mult(rs2[T] - n)
      BY <2>1, <3>1 DEF Lent
    <3> QED
      BY <3>2, <3>5, <3>6
  <2> QED
    BY <1>1, <2>1, <2>2, <2>5, <2>6, <2>7, <2>8, <2>9, AfterEarly
<1>5. CASE Late(cur, tail, fr, rs, n, b, r)
  <2>1. /\ cur < b /\ b < tail /\ rs[cur] >= n
        /\ Mult(n - r) /\ fr[tail] >= r /\ HeavyPlus(rs, b)
        /\ Mult(rs[cur] - n) /\ Mult(rs[b] - n) /\ Mult(rs[tail] + n)
        /\ \A f \in Seqs \ {cur, b, tail} : Mult(rs[f])
    BY <1>5 DEF Late
  <2>2. rs2[cur] = rs[cur] /\ cur # b /\ cur # tail
    BY <1>2, <1>3, <2>1
  <2>3. PICK y : y = n - r
    OBVIOUS
  <2>4. y \in Int /\ Mult(y)
    BY <1>1, <1>2, <2>1, <2>3
  <2>5. Heavy(rs2, b) /\ rs[b] >= r
    <3>1. \A k \in Amounts : rs[b] >= k + Z /\ k \in Nat
      BY <2>1, AmountNat DEF HeavyPlus
    <3>2. \A k \in Amounts : rs2[b] >= k
      BY <1>1, <1>2, <1>3, <3>1
    <3>3. rs[b] >= r
      BY <1>1, <1>2, <3>1
    <3> QED
      BY <3>2, <3>3 DEF Heavy
  <2>6. Room(cur, tail, fr2, rs2)
    <3>1. b <= tail
      BY <1>1, <1>2
    <3> QED
      BY <1>1, <1>2, <2>5, <3>1, RoomShift
  <2>7. Mult(rs2[b])
    <3>1. PICK u : u = rs[b] - n
      OBVIOUS
    <3>2. u \in Int /\ Mult(u) /\ rs2[b] = u + y
      BY <1>1, <1>2, <1>3, <2>1, <2>3, <3>1
    <3> QED
      BY <2>4, <3>2, MultSum
  <2>8. Mult(rs2[tail])
    <3>1. PICK v : v = rs[tail] + n
      OBVIOUS
    <3>2. v \in Int /\ Mult(v) /\ rs2[tail] = v - y
      BY <1>1, <1>2, <1>3, <2>1, <2>3, <3>1
    <3> QED
      BY <2>4, <3>2, MultDiff
  <2>9. Even(cur, rs2, n) /\ rs2[cur] >= n
    BY <1>3, <2>1, <2>2, <2>7, <2>8 DEF Even
  <2>10. b <= tail
    BY <1>1, <1>2
  <2> QED
    BY <1>1, <2>6, <2>9, <2>10, RestedEven
<1> QED
  BY <1>1, <1>4, <1>5

\* The tail has no room for less than a delete record: it has the n bytes.
LEMMA RestTail ==
    ASSUME RoomyFiles, NEW cur, NEW tail, NEW fr, NEW rs, Room(cur, tail, fr, rs),
           NEW n \in Amounts, NEW b, Resting(cur, tail, fr, rs, n, b),
           NEW x, x = (IF b = cur THEN n ELSE 0),
           NEW r, r = (rs[b] - x) % Z, r # 0, fr[tail] < r
    PROVE  /\ b = cur /\ cur < tail /\ Lent(tail, rs, n) /\ r \in Nat /\ 0 < r /\ r < Z
           /\ Early(cur, tail, fr, rs, n, b, r, tail) /\ HeavyPlus(rs, tail) /\ Heavy(rs, tail)
<1>1. /\ b \in Seqs /\ cur <= b /\ b < tail
      /\ r \in Nat /\ 0 < r /\ r < Z
      /\ \/ \E T \in Seqs : Early(cur, tail, fr, rs, n, b, r, T)
         \/ Late(cur, tail, fr, rs, n, b, r)
  BY RestCases
<1>2. cur \in Nat /\ tail \in Nat /\ tail \in Seqs /\ Z \in Nat /\ fr[tail] \in Int /\ rs[tail] \in Int
      /\ b \in Nat
  BY <1>1, RoomType, SeqsNat
<1>3. ~Late(cur, tail, fr, rs, n, b, r)
  BY <1>1, <1>2 DEF Late
<1>4. PICK T \in Seqs : Early(cur, tail, fr, rs, n, b, r, T)
  BY <1>1, <1>3
<1>5. T = tail
  BY <1>1, <1>2, <1>4 DEF Early, Behind
<1>6. b = cur /\ cur < tail /\ Lent(tail, rs, n)
  BY <1>4, <1>5 DEF Early
<1>7. fr[tail] < Z /\ fr[tail] + rs[tail] = Cap /\ Z \in Amounts
  BY <1>1, <1>2, <1>6, RoomType DEF Amounts
<1>8. HeavyPlus(rs, tail) /\ Heavy(rs, tail)
  BY <1>2, <1>7, HeavyOf
<1> QED
  BY <1>1, <1>4, <1>5, <1>6, <1>8

\* Bytes of the current file move to a new one.
LEMMA RestNew ==
    ASSUME RoomyFiles, NEW cur, NEW tail, NEW fr, NEW rs, Room(cur, tail, fr, rs),
           NEW n \in Amounts, NEW b, Resting(cur, tail, fr, rs, n, b),
           NEW x, x = (IF b = cur THEN n ELSE 0),
           NEW r, r = (rs[b] - x) % Z, r # 0, fr[tail] < r,
           NEW new \in Seqs, new = tail + 1, NEW fr1, Grows1(fr, fr1, new),
           NEW fr2, NEW rs2, Shift(fr1, rs, fr2, rs2, new, b, r)
    PROVE  Room(cur, new, fr2, rs2) /\ Rested(cur, new, fr2, rs2, n, b)
<1>1. /\ b = cur /\ cur < tail /\ r \in Nat /\ 0 < r /\ r < Z
      /\ Early(cur, tail, fr, rs, n, b, r, tail) /\ HeavyPlus(rs, tail) /\ Heavy(rs, tail)
  BY RestTail
<1>2. cur \in Nat /\ cur \in Seqs /\ tail \in Nat /\ tail \in Seqs /\ n \in Nat
      /\ Z \in Nat /\ new \in Nat /\ new # cur /\ new # tail /\ tail # cur
      /\ \A g \in Seqs : g \in Nat /\ rs[g] \in Int /\ fr[g] \in Int
  BY <1>1, RoomType, AmountNat, SeqsNat
<1>3. n + n + Z <= Cap /\ Cap >= 0 /\ Cap \in Int /\ Cap >= Z
  BY <1>2, TwoFit, SeqsNat
<1>4. Room(cur, new, fr1, rs) /\ rs[new] = 0
  BY <1>1, <1>3, RoomGrow
<1>5. Lent(tail, rs, n) /\ Mult(n + r) /\ Mult(rs[cur]) /\ rs[cur] >= n + r
  BY <1>1 DEF Early
<1>6. fr1[new] = Cap
  BY DEF Grows1
<1>7. /\ rs2[new] = r /\ fr2[new] = Cap - r /\ rs2[cur] = rs[cur] - r
      /\ \A g \in Seqs \ {cur, new} : rs2[g] = rs[g]
  BY <1>1, <1>2, <1>4, <1>6 DEF Shift
<1>8. Room(cur, new, fr2, rs2)
  <2>1. rs[b] >= r /\ ~(cur < b) /\ b <= new /\ fr1[new] >= r /\ cur <= new /\ cur <= b
    BY <1>1, <1>2, <1>3, <1>5, <1>6
  <2> QED
    BY <1>1, <1>2, <1>4, <2>1, RoomShift
<1>9. rs2[tail] = rs[tail] /\ cur < tail /\ tail <= new /\ rs2[cur] >= n /\ fr2[new] >= Z - r
  BY <1>1, <1>2, <1>3, <1>5, <1>7
<1>10. HeavyPlus(rs2, tail) /\ Mult(rs2[tail] - n)
  BY <1>1, <1>5, <1>9 DEF HeavyPlus, Lent
<1>11. Mult(rs2[new] + n)
  <2>1. rs2[new] + n = n + r
    BY <1>1, <1>2, <1>7
  <2> QED
    BY <1>5, <2>1
<1>12. Mult(rs2[cur] - n)
  <2>1. PICK d : d = rs2[cur] - n
    OBVIOUS
  <2>2. PICK y : y = n + r
    OBVIOUS
  <2>3. d = rs[cur] - y /\ rs[cur] \in Int /\ y \in Int /\ Mult(y)
    BY <1>1, <1>2, <1>5, <1>7, <2>1, <2>2
  <2> QED
    BY <1>5, <2>1, <2>3, MultDiff
<1>13. \A f \in Seqs \ {cur, tail, new} : Mult(rs2[f])
  BY <1>5, <1>7 DEF Lent
<1>14. Rested(cur, new, fr2, rs2, n, cur)
  BY <1>1, <1>2, <1>5, <1>8, <1>9, <1>10, <1>11, <1>12, <1>13, AfterEarly
<1> QED
  BY <1>1, <1>8, <1>14

-----------------------------------------------------------------------------
(* The operations on the memory                                            *)

LEMMA MemoType ==
    ASSUME NEW w \in Memo
    PROVE  /\ w.use \in BOOLEAN /\ w.head \in Seqs \cup {Nil} /\ w.cur \in Seqs \cup {Nil}
           /\ w.tail \in Seqs \cup {Nil} /\ w.next \in Nat /\ w.resv \in Int /\ w.alive \in Int
           /\ w.next_id \in Nat \ {0}
           /\ w.file \in [Seqs -> FileI] /\ w.job \in [Ids -> JobRec]
BY DEF Memo

LEMMA FileType ==
    ASSUME NEW w \in Memo, NEW f \in Seqs
    PROVE  /\ w.file[f] \in FileI /\ w.file[f].refs \in Int /\ w.file[f].iswopen \in BOOLEAN
           /\ w.file[f].free \in Int /\ w.file[f].resv \in Int /\ w.file[f].jlist \in Seq(Ids)
<1>1. w.file[f] \in FileI
  BY MemoType
<1> QED
  BY <1>1 DEF FileI

LEMMA JobType ==
    ASSUME NEW w \in Memo, NEW j \in Ids
    PROVE  /\ w.job[j] \in JobRec /\ w.job[j].file \in Seqs \cup {Nil} /\ w.job[j].walused \in Nat
           /\ w.job[j].size \in FullSizes \cup {0} /\ w.job[j].at \in Nat /\ w.job[j].body \in Bodies
           /\ w.job[j].state \in LiveStates \cup {"none", "invalid"}
<1>1. w.job[j] \in JobRec
  BY MemoType
<1> QED
  BY <1>1 DEF JobRec

\* The fields of struct Wal but the space.
SameTop(w, t) ==
    /\ t.use = w.use /\ t.cur = w.cur /\ t.next_id = w.next_id

SameChain(w, t) == t.head = w.head /\ t.tail = w.tail /\ t.next = w.next

SameJobs(w, t) == t.job = w.job /\ t.alive = w.alive /\ t.next_id = w.next_id

\* What a file is needed for.
SameFile(k, h) == h.refs = k.refs /\ h.iswopen = k.iswopen /\ h.jlist = k.jlist

SetFile(w, f, k) == [w EXCEPT !.file[f] = k]

LEMMA SetFileOf ==
    ASSUME NEW w \in Memo, NEW f \in Seqs, NEW k \in FileI, NEW t, t = SetFile(w, f, k)
    PROVE  /\ t \in Memo /\ SameTop(w, t) /\ SameChain(w, t) /\ SameJobs(w, t) /\ t.resv = w.resv
           /\ t.file[f] = k /\ \A g \in Seqs \ {f} : t.file[g] = w.file[g]
<1>1. t.file = [w.file EXCEPT ![f] = k]
  BY DEF SetFile, Memo
<1>2. t.file \in [Seqs -> FileI] /\ t.file[f] = k /\ \A g \in Seqs \ {f} : t.file[g] = w.file[g]
  BY <1>1, MemoType
<1>3. t \in Memo
  BY <1>2 DEF SetFile, Memo
<1>4. SameTop(w, t) /\ SameChain(w, t) /\ SameJobs(w, t) /\ t.resv = w.resv
  BY DEF SetFile, Memo, SameTop, SameChain, SameJobs
<1> QED
  BY <1>2, <1>3, <1>4

\* A file with other numbers.
Numbers(k, free, resv) == [k EXCEPT !.free = free, !.resv = resv]

LEMMA NumbersOf ==
    ASSUME NEW k \in FileI, NEW free \in Int, NEW resv \in Int, NEW h, h = Numbers(k, free, resv)
    PROVE  h \in FileI /\ SameFile(k, h) /\ h.free = free /\ h.resv = resv
BY DEF FileI, Numbers, SameFile

SetResv(w, n) == [w EXCEPT !.resv = n]

LEMMA SetResvOf ==
    ASSUME NEW w \in Memo, NEW n \in Int, NEW t, t = SetResv(w, n)
    PROVE  /\ t \in Memo /\ SameTop(w, t) /\ SameChain(w, t) /\ SameJobs(w, t)
           /\ t.resv = n /\ t.file = w.file
BY DEF Memo, SetResv, SameTop, SameChain, SameJobs

\* The files are needed for the same.
SameFiles(w, t) == \A g \in Seqs : SameFile(w.file[g], t.file[g])

LEMMA TakeOf ==
    ASSUME NEW w \in Memo, NEW f \in Seqs, NEW n \in Int, NEW t, t = take(w, f, n)
    PROVE  /\ t \in Memo /\ SameTop(w, t) /\ SameChain(w, t) /\ SameJobs(w, t)
           /\ t.resv = w.resv + n /\ SameFiles(w, t)
           /\ \A g \in Seqs \ {f} : t.file[g] = w.file[g]
           /\ Adds(Fr(w), Rs(w), Fr(t), Rs(t), f, n)
<1>1. PICK free : free = w.file[f].free - n
  OBVIOUS
<1>2. PICK resv : resv = w.file[f].resv + n
  OBVIOUS
<1>3. PICK total : total = w.resv + n
  OBVIOUS
<1>4. free \in Int /\ resv \in Int /\ total \in Int /\ w.file[f] \in FileI
  BY <1>1, <1>2, <1>3, FileType, MemoType
<1>5. PICK k : k = Numbers(w.file[f], free, resv)
  OBVIOUS
<1>6. k \in FileI /\ SameFile(w.file[f], k) /\ k.free = free /\ k.resv = resv
  BY <1>4, <1>5, NumbersOf
<1>7. PICK u : u = SetFile(w, f, k)
  OBVIOUS
<1>8. /\ u \in Memo /\ SameTop(w, u) /\ SameChain(w, u) /\ SameJobs(w, u)
      /\ u.file[f] = k /\ \A g \in Seqs \ {f} : u.file[g] = w.file[g]
  BY <1>6, <1>7, SetFileOf
<1>9. t = SetResv(u, total)
  BY <1>1, <1>2, <1>3, <1>5, <1>7 DEF take, SetResv, SetFile, Numbers, Memo, FileI
<1>10. /\ t \in Memo /\ SameTop(u, t) /\ SameChain(u, t) /\ SameJobs(u, t)
       /\ t.resv = total /\ t.file = u.file
  BY <1>4, <1>8, <1>9, SetResvOf
<1>11. SameTop(w, t) /\ SameChain(w, t) /\ SameJobs(w, t)
  BY <1>8, <1>10 DEF SameTop, SameChain, SameJobs
<1>12. SameFiles(w, t)
  BY <1>6, <1>8, <1>10 DEF SameFiles, SameFile
<1>13. Adds(Fr(w), Rs(w), Fr(t), Rs(t), f, n)
  <2>1. Fr(t) \in [Seqs -> Int] /\ Rs(t) \in [Seqs -> Int]
    BY <1>10, FileType DEF Fr, Rs
  <2> QED
    BY <1>1, <1>2, <1>6, <1>8, <1>10, <2>1 DEF Adds, Fr, Rs
<1> QED
  BY <1>3, <1>8, <1>10, <1>11, <1>12, <1>13

Gain(w, f, n) == [w EXCEPT !.file[f].resv = @ + n, !.file[f].free = @ - n]

Give(w, f, n) == [w EXCEPT !.file[f].resv = @ - n, !.file[f].free = @ + n]

\* File f has other numbers.
Renumbered(w, t, f, free, resv) ==
    /\ t \in Memo /\ SameTop(w, t) /\ SameChain(w, t) /\ SameJobs(w, t)
    /\ t.resv = w.resv /\ SameFile(w.file[f], t.file[f])
    /\ t.file[f].free = free /\ t.file[f].resv = resv
    /\ \A g \in Seqs \ {f} : t.file[g] = w.file[g]

LEMMA GainOf ==
    ASSUME NEW w \in Memo, NEW f \in Seqs, NEW n \in Int, NEW t, t = Gain(w, f, n)
    PROVE  Renumbered(w, t, f, w.file[f].free - n, w.file[f].resv + n)
<1>1. PICK free : free = w.file[f].free - n
  OBVIOUS
<1>2. PICK resv : resv = w.file[f].resv + n
  OBVIOUS
<1>3. free \in Int /\ resv \in Int /\ w.file[f] \in FileI
  BY <1>1, <1>2, FileType
<1>4. PICK k : k = Numbers(w.file[f], free, resv)
  OBVIOUS
<1>5. k \in FileI /\ SameFile(w.file[f], k) /\ k.free = free /\ k.resv = resv
  BY <1>3, <1>4, NumbersOf
<1>6. t = SetFile(w, f, k)
  BY <1>1, <1>2, <1>4 DEF Gain, SetFile, Numbers, Memo, FileI
<1>7. /\ t \in Memo /\ SameTop(w, t) /\ SameChain(w, t) /\ SameJobs(w, t) /\ t.resv = w.resv
      /\ t.file[f] = k /\ \A g \in Seqs \ {f} : t.file[g] = w.file[g]
  BY <1>5, <1>6, SetFileOf
<1> QED
  BY <1>1, <1>2, <1>5, <1>7 DEF Renumbered

LEMMA GiveOf ==
    ASSUME NEW w \in Memo, NEW f \in Seqs, NEW n \in Int, NEW t, t = Give(w, f, n)
    PROVE  Renumbered(w, t, f, w.file[f].free + n, w.file[f].resv - n)
<1>1. PICK free : free = w.file[f].free + n
  OBVIOUS
<1>2. PICK resv : resv = w.file[f].resv - n
  OBVIOUS
<1>3. free \in Int /\ resv \in Int /\ w.file[f] \in FileI
  BY <1>1, <1>2, FileType
<1>4. PICK k : k = Numbers(w.file[f], free, resv)
  OBVIOUS
<1>5. k \in FileI /\ SameFile(w.file[f], k) /\ k.free = free /\ k.resv = resv
  BY <1>3, <1>4, NumbersOf
<1>6. t = SetFile(w, f, k)
  BY <1>1, <1>2, <1>4 DEF Give, SetFile, Numbers, Memo, FileI
<1>7. /\ t \in Memo /\ SameTop(w, t) /\ SameChain(w, t) /\ SameJobs(w, t) /\ t.resv = w.resv
      /\ t.file[f] = k /\ \A g \in Seqs \ {f} : t.file[g] = w.file[g]
  BY <1>5, <1>6, SetFileOf
<1> QED
  BY <1>1, <1>2, <1>5, <1>7 DEF Renumbered

LEMMA MoveOf ==
    ASSUME NEW w \in Memo, NEW to \in Seqs, NEW from \in Seqs, to # from, NEW n \in Int,
           NEW t, t = moveresv(w, to, from, n)
    PROVE  /\ t \in Memo /\ SameTop(w, t) /\ SameChain(w, t) /\ SameJobs(w, t)
           /\ t.resv = w.resv /\ SameFiles(w, t)
           /\ \A g \in Seqs \ {to, from} : t.file[g] = w.file[g]
           /\ Shift(Fr(w), Rs(w), Fr(t), Rs(t), to, from, n)
<1>1. PICK u : u = Give(w, from, n)
  OBVIOUS
<1>2. Renumbered(w, u, from, w.file[from].free + n, w.file[from].resv - n)
  BY <1>1, GiveOf
<1>3. moveresv(w, to, from, n) = Gain(Give(w, from, n), to, n)
  BY DEF moveresv, Gain, Give, Memo
<1>4. t = Gain(u, to, n) /\ u \in Memo
  BY <1>1, <1>2, <1>3 DEF Renumbered
<1>5. Renumbered(u, t, to, u.file[to].free - n, u.file[to].resv + n)
  BY <1>4, GainOf
<1>6. u.file[to] = w.file[to] /\ t.file[from] = u.file[from]
  BY <1>2, <1>5 DEF Renumbered
<1>7. t \in Memo /\ SameTop(w, t) /\ SameChain(w, t) /\ SameJobs(w, t) /\ t.resv = w.resv
  BY <1>2, <1>5 DEF Renumbered, SameTop, SameChain, SameJobs
<1>8. \A g \in Seqs \ {to, from} : t.file[g] = w.file[g]
  BY <1>2, <1>5 DEF Renumbered
<1>9. SameFile(w.file[from], t.file[from]) /\ SameFile(w.file[to], t.file[to])
  BY <1>2, <1>5, <1>6 DEF Renumbered
<1>10. SameFiles(w, t)
  BY <1>8, <1>9 DEF SameFiles, SameFile
<1>11. /\ t.file[from].free = w.file[from].free + n /\ t.file[from].resv = w.file[from].resv - n
       /\ t.file[to].free = w.file[to].free - n /\ t.file[to].resv = w.file[to].resv + n
  BY <1>2, <1>5, <1>6 DEF Renumbered
<1>12. Shift(Fr(w), Rs(w), Fr(t), Rs(t), to, from, n)
  <2>1. Fr(t) \in [Seqs -> Int] /\ Rs(t) \in [Seqs -> Int]
    BY <1>7, FileType DEF Fr, Rs
  <2> QED
    BY <1>8, <1>11, <2>1 DEF Shift, Fr, Rs
<1> QED
  BY <1>7, <1>8, <1>10, <1>12

\* What makenextfile does when it makes a file.
Grown(w) == fileadd([w EXCEPT !.next = @ + 1, !.file[w.next] = NewFile], w.next)

LEMMA GrownOf ==
    ASSUME NEW w \in Memo, w.next \in Seqs, NEW t, t = Grown(w)
    PROVE  /\ t \in Memo /\ SameTop(w, t) /\ SameJobs(w, t) /\ t.resv = w.resv
           /\ t.next = w.next + 1 /\ t.tail = w.next
           /\ t.head = (IF w.head = Nil THEN w.next ELSE w.head)
           /\ t.file[w.next] = NewFile /\ \A g \in Seqs \ {w.next} : t.file[g] = w.file[g]
<1>1. NewFile \in FileI
  <2>1. PICK free : free = FileSize - HeaderSize
    OBVIOUS
  <2>2. free \in Int
    BY <2>1, WalConstants
  <2>3. NewFile = [refs |-> 1, iswopen |-> TRUE, free |-> free, resv |-> 0, jlist |-> <<>>]
    BY <2>1 DEF NewFile
  <2> QED
    BY <2>2, <2>3 DEF FileI
<1>2. PICK k \in FileI : k = NewFile
  BY <1>1
<1>3. PICK u : u = SetFile(w, w.next, k)
  OBVIOUS
<1>4. /\ u \in Memo /\ SameTop(w, u) /\ SameChain(w, u) /\ SameJobs(w, u) /\ u.resv = w.resv
      /\ u.file[w.next] = k /\ \A g \in Seqs \ {w.next} : u.file[g] = w.file[g]
  BY <1>2, <1>3, SetFileOf
<1>5. PICK next \in Nat : next = w.next + 1
  BY MemoType
<1>6. PICK head \in Seqs : head = IF w.head = Nil THEN w.next ELSE w.head
  BY MemoType
<1>7. PICK tail \in Seqs : tail = w.next
  OBVIOUS
<1>8. t = [u EXCEPT !.next = next, !.head = head, !.tail = tail]
  BY <1>2, <1>3, <1>5, <1>6, <1>7 DEF Grown, fileadd, SetFile, Memo
<1>9. /\ t \in Memo /\ SameTop(u, t) /\ SameJobs(u, t) /\ t.resv = u.resv
      /\ t.next = next /\ t.head = head /\ t.tail = tail /\ t.file = u.file
  BY <1>4, <1>8 DEF Memo, SameTop, SameJobs
<1>10. SameTop(w, t) /\ SameJobs(w, t)
  BY <1>4, <1>9 DEF SameTop, SameJobs
<1> QED
  BY <1>2, <1>4, <1>5, <1>6, <1>7, <1>9, <1>10

-----------------------------------------------------------------------------
(* References and files that go                                            *)

LEMMA NoFileType == NoFile \in FileI /\ NoFile.refs = 0 /\ NoFile.iswopen = FALSE
                    /\ NoFile.free = 0 /\ NoFile.resv = 0 /\ NoFile.jlist = <<>>
BY DEF NoFile, FileI

LEMMA FilesOf ==
    ASSUME NEW w \in Memo, Chain(w)
    PROVE  /\ Files(w) \subseteq Seqs
           /\ \A f \in Seqs : f \in Files(w) <=> w.head # Nil /\ w.head <= f /\ f <= w.tail
           /\ w.head # Nil => w.head \in Files(w) /\ w.tail \in Files(w) /\ w.tail \in Seqs
           /\ w.head = Nil => w.tail = Nil
<1>1. w.head = Nil \/ (w.head \in 1..MaxSeq /\ w.tail \in 1..MaxSeq /\ w.head <= w.tail /\ w.head # Nil)
  BY SeqsNat DEF Chain, Seqs, Nil
<1>2. MaxSeq \in Nat
  BY SeqsNat
<1> QED
  BY <1>1, <1>2, SeqsNat DEF Files, Chain, Seqs, Nil

\* Files that nothing refers to have left the list at its head.
Trimmed(u, t) ==
    /\ t \in Memo /\ SameTop(u, t) /\ SameJobs(u, t) /\ t.resv = u.resv /\ t.next = u.next
    /\ Chain(t) /\ Files(t) \subseteq Files(u)
    /\ \A g \in Seqs : IF g \in Files(u) \ Files(t)
                       THEN u.file[g].refs <= 0 /\ t.file[g] = NoFile
                       ELSE t.file[g] = u.file[g]
    /\ t.tail = u.tail \/ Files(t) = {}

LEMMA TrimNone ==
    ASSUME NEW u \in Memo, Chain(u)
    PROVE  Trimmed(u, u)
BY DEF Trimmed, SameTop, SameJobs

LEMMA GcOf ==
    ASSUME NEW u \in Memo, Chain(u), NEW t, t = walgc(u)
    PROVE  Trimmed(u, t)
<1> DEFINE live == {f \in Files(u) : u.file[f].refs > 0}
           head == IF live = {} THEN Nil ELSE Min(live)
           tail == IF live = {} THEN Nil ELSE u.tail
           file == [f \in Seqs |-> IF f \in Files(u) /\ (f < head \/ head = Nil)
                                   THEN NoFile ELSE u.file[f]]
<1>1. t = [u EXCEPT !.head = head, !.tail = tail, !.file = file]
  BY DEF walgc, Memo
<1>2. Files(u) \subseteq Seqs /\ Seqs \subseteq Nat /\ live \subseteq Nat
  BY FilesOf, SeqsNat
<1>3. live # {} => head \in live /\ \A y \in live : head <= y
  BY <1>2, MinOf
<1>4. live = {} => head = Nil /\ tail = Nil
  OBVIOUS
<1>5. live # {} => tail = u.tail
  OBVIOUS
<1>6. \A g \in Files(u) : u.file[g].refs > 0 <=> g \in live
  OBVIOUS
<1>7. file \in [Seqs -> FileI]
  BY NoFileType, MemoType
<1>8. \A g \in Seqs : file[g] = IF g \in Files(u) /\ (g < head \/ head = Nil) THEN NoFile ELSE u.file[g]
  OBVIOUS
<1>9. head \in Seqs \cup {Nil} /\ tail \in Seqs \cup {Nil}
  BY <1>2, <1>3, <1>4, <1>5, MemoType
<1>10. live \subseteq Files(u)
  OBVIOUS
<1> HIDE DEF live, head, tail, file
<1>11. /\ t \in Memo /\ SameTop(u, t) /\ SameJobs(u, t) /\ t.resv = u.resv /\ t.next = u.next
       /\ t.head = head /\ t.tail = tail /\ t.file = file
  BY <1>1, <1>7, <1>9 DEF Memo, SameTop, SameJobs
<1>12. u.head \in Nat /\ u.tail \in Nat /\ head \in Nat /\ tail \in Nat /\ u.next \in Nat /\ MaxSeq \in Nat
       /\ Nil = 0 /\ \A g \in Seqs : g \in Nat /\ g >= 1
  BY <1>9, MemoType, SeqsNat DEF Nil, Seqs
<1>13. CASE live = {}
  <2>1. Chain(t)
    BY <1>4, <1>11, <1>12, <1>13 DEF Chain, Nil
  <2>2. Files(t) = {}
    BY <1>4, <1>11, <1>13 DEF Files
  <2>3. \A g \in Files(u) : u.file[g].refs <= 0 /\ file[g] = NoFile
    <3>1. \A g \in Files(u) : u.file[g].refs \in Int
      BY <1>2, FileType
    <3> QED
      BY <1>2, <1>4, <1>6, <1>8, <1>13, <3>1
  <2> QED
    BY <1>8, <1>11, <2>1, <2>2, <2>3 DEF Trimmed
<1>14. CASE live # {}
  <2>1. head \in Files(u) /\ head \in Seqs /\ head # Nil
    BY <1>2, <1>3, <1>10, <1>12, <1>14
  <2>2. u.head # Nil /\ u.head <= head /\ head <= u.tail /\ u.tail \in Seqs
    BY <2>1, FilesOf
  <2>3. Chain(t)
    BY <1>5, <1>11, <1>14, <2>1, <2>2 DEF Chain
  <2>4. \A g \in Seqs : g \in Files(t) <=> head <= g /\ g <= u.tail
    BY <1>5, <1>11, <1>14, <2>1, <2>3, FilesOf
  <2>5. \A g \in Seqs : g \in Files(u) <=> u.head <= g /\ g <= u.tail
    BY <2>2, FilesOf
  <2>6. Files(t) \subseteq Files(u)
    <3>1. Files(t) \subseteq Seqs
      BY <1>11, <2>3, FilesOf
    <3> QED
      BY <1>12, <2>2, <2>4, <2>5, <3>1
  <2>7. ASSUME NEW g \in Seqs
        PROVE  IF g \in Files(u) \ Files(t)
               THEN u.file[g].refs <= 0 /\ t.file[g] = NoFile
               ELSE t.file[g] = u.file[g]
    <3>1. CASE g \in Files(u) \ Files(t)
      <4>1. g < head
        BY <1>12, <2>4, <2>5, <3>1
      <4>2. g \notin live /\ u.file[g].refs \in Int
        BY <1>3, <1>12, <1>14, <4>1, FileType
      <4> QED
        BY <1>6, <1>8, <1>11, <3>1, <4>1, <4>2
    <3>2. CASE g \notin Files(u) \ Files(t)
      <4>1. g \in Files(u) => ~(g < head)
        BY <1>12, <2>4, <3>2
      <4> QED
        BY <1>8, <1>11, <2>1, <3>2, <4>1
    <3> QED
      BY <3>1, <3>2
  <2>8. t.tail = u.tail
    BY <1>5, <1>11, <1>14
  <2> QED
    BY <1>11, <2>3, <2>6, <2>7, <2>8 DEF Trimmed
<1> QED
  BY <1>13, <1>14

SetRefs(k, n) == [k EXCEPT !.refs = n]

LEMMA SetRefsOf ==
    ASSUME NEW k \in FileI, NEW n \in Int, NEW h, h = SetRefs(k, n)
    PROVE  /\ h \in FileI /\ h.refs = n /\ h.iswopen = k.iswopen /\ h.jlist = k.jlist
           /\ h.free = k.free /\ h.resv = k.resv
BY DEF FileI, SetRefs

\* File f has one reference less.
Less(w, u, f) ==
    /\ u \in Memo /\ SameTop(w, u) /\ SameChain(w, u) /\ SameJobs(w, u) /\ u.resv = w.resv
    /\ u.file[f].refs = w.file[f].refs - 1
    /\ u.file[f].iswopen = w.file[f].iswopen /\ u.file[f].jlist = w.file[f].jlist
    /\ u.file[f].free = w.file[f].free /\ u.file[f].resv = w.file[f].resv
    /\ \A g \in Seqs \ {f} : u.file[g] = w.file[g]

LEMMA DecOf ==
    ASSUME NEW w \in Memo, Chain(w), NEW f \in Seqs, NEW t, t = filedecref(w, f)
    PROVE  \E u : Less(w, u, f) /\ Trimmed(u, t)
<1>1. PICK n : n = w.file[f].refs - 1
  OBVIOUS
<1>2. n \in Int /\ w.file[f] \in FileI
  BY <1>1, FileType
<1>3. PICK k : k = SetRefs(w.file[f], n)
  OBVIOUS
<1>4. /\ k \in FileI /\ k.refs = n /\ k.iswopen = w.file[f].iswopen /\ k.jlist = w.file[f].jlist
      /\ k.free = w.file[f].free /\ k.resv = w.file[f].resv
  BY <1>2, <1>3, SetRefsOf
<1>5. PICK u : u = SetFile(w, f, k)
  OBVIOUS
<1>6. /\ u \in Memo /\ SameTop(w, u) /\ SameChain(w, u) /\ SameJobs(w, u) /\ u.resv = w.resv
      /\ u.file[f] = k /\ \A g \in Seqs \ {f} : u.file[g] = w.file[g]
  BY <1>4, <1>5, SetFileOf
<1>7. Less(w, u, f)
  BY <1>1, <1>4, <1>6 DEF Less
<1>8. u = [w EXCEPT !.file[f].refs = @ - 1]
  BY <1>1, <1>3, <1>5 DEF SetFile, SetRefs, Memo, FileI
<1>9. t = u \/ t = walgc(u)
  BY <1>8 DEF filedecref
<1>10. Chain(u)
  BY <1>6 DEF Chain, SameChain
<1>11. Trimmed(u, t)
  BY <1>6, <1>9, <1>10, GcOf, TrimNone
<1> QED
  BY <1>7, <1>11

LEMMA EmptyList ==
    ASSUME NEW l \in Seq(Ids), Len(l) = 0
    PROVE  l = <<>>
OBVIOUS

LEMMA EmptyRange == Range(<<>>) = {} /\ IsInjective(<<>>) /\ Len(<<>>) = 0
BY DEF Range, IsInjective

LEMMA ListLen ==
    ASSUME NEW l \in Seq(Ids)
    PROVE  Len(l) \in Nat
OBVIOUS

\* A file with no reference has no jobs and is not open.
LEMMA Unused ==
    ASSUME NEW w \in Memo, NEW f \in Seqs, NEW rd, Counted(w, f, rd), w.file[f].refs <= 0
    PROVE  w.file[f].jlist = <<>> /\ ~w.file[f].iswopen /\ f # rd
<1>1. w.file[f].refs \in Int /\ w.file[f].jlist \in Seq(Ids) /\ Len(w.file[f].jlist) \in Nat
  BY FileType, ListLen
<1>2. Len(w.file[f].jlist) = 0 /\ ~w.file[f].iswopen /\ f # rd
  <2>1. PICK a : a = IF w.file[f].iswopen THEN 1 ELSE 0
    OBVIOUS
  <2>2. PICK b : b = IF f = rd THEN 1 ELSE 0
    OBVIOUS
  <2>3. w.file[f].refs = Len(w.file[f].jlist) + a + b
    BY <2>1, <2>2 DEF Counted
  <2>4. a \in Nat /\ b \in Nat
    BY <2>1, <2>2
  <2>5. Len(w.file[f].jlist) = 0 /\ a = 0 /\ b = 0
    BY <1>1, <2>3, <2>4
  <2> QED
    BY <2>1, <2>2, <2>5
<1> QED
  BY <1>1, <1>2, EmptyList

LEMMA TrimBook ==
    ASSUME NEW u \in Memo, NEW t, NEW rd, Book(u, rd), Trimmed(u, t)
    PROVE  Book(t, rd)
<1>1. \A f \in Seqs : Counted(u, f, rd) /\ Holds(u, f) /\ Gone(u, f, rd)
  BY DEF Book
<1>2. t.job = u.job /\ Chain(t)
  BY DEF Trimmed, SameJobs
<1>3. ASSUME NEW f \in Seqs PROVE Counted(t, f, rd) /\ Holds(t, f) /\ Gone(t, f, rd)
  <2>1. CASE f \in Files(u) \ Files(t)
    <3>1. u.file[f].refs <= 0 /\ t.file[f] = NoFile
      BY <2>1 DEF Trimmed
    <3>2. u.file[f].jlist = <<>> /\ f # rd
      BY <1>1, <3>1, Unused
    <3>3. Counted(t, f, rd)
      BY <3>1, <3>2, NoFileType, EmptyRange DEF Counted
    <3>4. Holds(t, f)
      <4>1. t.file[f].jlist = u.file[f].jlist
        BY <3>1, <3>2, NoFileType
      <4> QED
        BY <1>1, <1>2, <4>1 DEF Holds
    <3> QED
      BY <3>1, <3>2, <3>3, <3>4 DEF Gone
  <2>2. CASE f \notin Files(u) \ Files(t)
    <3>1. t.file[f] = u.file[f]
      BY <2>2 DEF Trimmed
    <3>2. f \in Files(t) <=> f \in Files(u)
      BY <2>2 DEF Trimmed
    <3>3. Counted(t, f, rd)
      BY <1>1, <3>1 DEF Counted
    <3>4. Holds(t, f)
      BY <1>1, <1>2, <3>1 DEF Holds
    <3>5. Gone(t, f, rd)
      BY <1>1, <3>1, <3>2 DEF Gone
    <3> QED
      BY <3>3, <3>4, <3>5
  <2> QED
    BY <2>1, <2>2
<1> QED
  BY <1>2, <1>3 DEF Book

\* File f has one reference too many.
Over(w, f, rd) ==
    /\ Chain(w) /\ f \in Files(w)
    /\ w.file[f].refs = Len(w.file[f].jlist) + (IF w.file[f].iswopen THEN 1 ELSE 0)
                        + (IF f = rd THEN 1 ELSE 0) + 1
    /\ \A g \in Seqs : (g # f => Counted(w, g, rd)) /\ Holds(w, g) /\ Gone(w, g, rd)

LEMMA LessBook ==
    ASSUME NEW w \in Memo, NEW f \in Seqs, NEW rd, Over(w, f, rd), NEW u, Less(w, u, f)
    PROVE  u \in Memo /\ Book(u, rd) /\ Files(u) = Files(w)
<1>1. Files(u) = Files(w) /\ Chain(u)
  BY DEF Less, SameChain, Files, Chain, Over
<1>2. u.job = w.job
  BY DEF Less, SameJobs
<1>3. ASSUME NEW g \in Seqs PROVE Counted(u, g, rd) /\ Holds(u, g) /\ Gone(u, g, rd)
  <2>1. Holds(w, g) /\ Gone(w, g, rd) /\ (g # f => Counted(w, g, rd))
    BY DEF Over
  <2>2. CASE g = f
    <3>1. u.file[f].jlist = w.file[f].jlist /\ u.file[f].iswopen = w.file[f].iswopen
          /\ u.file[f].refs = w.file[f].refs - 1
      BY DEF Less
    <3>2. Len(w.file[f].jlist) \in Nat
      BY FileType, ListLen
    <3>3. Counted(u, f, rd)
      BY <3>1, <3>2 DEF Over, Counted
    <3>4. Holds(u, f)
      BY <1>2, <2>1, <2>2, <3>1 DEF Holds
    <3>5. Gone(u, f, rd)
      BY <1>1 DEF Gone, Over
    <3> QED
      BY <2>2, <3>3, <3>4, <3>5
  <2>3. CASE g # f
    <3>1. u.file[g] = w.file[g]
      BY <2>3 DEF Less
    <3> QED
      BY <1>1, <1>2, <2>1, <2>3, <3>1 DEF Counted, Holds, Gone
  <2> QED
    BY <2>2, <2>3
<1> QED
  BY <1>1, <1>3 DEF Book, Less

\* The files that are open are the ones from the current file on.
Opened(w) == \A f \in Seqs : w.file[f].iswopen <=> w.cur <= f /\ f <= w.tail

\* Files from the current one on stay, whatever goes.
LEMMA TrimSpace ==
    ASSUME NEW u \in Memo, NEW rd, Book(u, rd), NEW t, Trimmed(u, t), Opened(u),
           Room(u.cur, u.tail, Fr(u), Rs(u))
    PROVE  /\ t.tail = u.tail /\ t.cur = u.cur /\ t.next = u.next /\ Opened(t)
           /\ Rs(t) = Rs(u) /\ Fr(t)[u.tail] = Fr(u)[u.tail]
           /\ Room(t.cur, t.tail, Fr(t), Rs(t))
<1>1. u.cur \in Seqs /\ u.tail \in Seqs /\ u.cur \in Nat /\ u.tail \in Nat /\ u.cur <= u.tail
      /\ \A g \in Seqs : g \in Nat
  BY RoomType, SeqsNat
<1>2. t \in Memo /\ t.cur = u.cur /\ t.next = u.next
  BY DEF Trimmed, SameTop
<1>3. ASSUME NEW g \in Seqs, g \in Files(u) \ Files(t)
      PROVE  t.file[g] = NoFile /\ ~u.file[g].iswopen /\ g < u.cur /\ u.file[g].resv = 0
  <2>1. t.file[g] = NoFile /\ u.file[g].refs <= 0
    BY <1>3 DEF Trimmed
  <2>2. ~u.file[g].iswopen
    BY <2>1, Unused DEF Book
  <2>3. g < u.cur
    <3>1. Chain(u)
      BY DEF Book
    <3>2. g <= u.tail
      BY <1>3, <3>1, FilesOf
    <3> QED
      BY <1>1, <2>2, <3>2 DEF Opened
  <2>4. u.file[g].resv = 0
    BY <2>3 DEF Room, Rs
  <2> QED
    BY <2>1, <2>2, <2>3, <2>4
<1>4. ASSUME NEW g \in Seqs, g \notin Files(u) \ Files(t) PROVE t.file[g] = u.file[g]
  BY <1>4 DEF Trimmed
<1>5. u.tail \in Files(t)
  <2>1. u.file[u.tail].iswopen
    BY <1>1 DEF Opened
  <2>2. u.tail \in Files(u)
    BY <1>1, <2>1, NoFileType DEF Book, Gone
  <2> QED
    BY <1>1, <1>3, <2>1, <2>2
<1>6. t.tail = u.tail
  BY <1>5 DEF Trimmed
<1>7. Opened(t)
  <2>1. ASSUME NEW g \in Seqs PROVE t.file[g].iswopen <=> u.cur <= g /\ g <= u.tail
    <3>1. CASE g \in Files(u) \ Files(t)
      BY <1>1, <1>3, <3>1, NoFileType
    <3>2. CASE g \notin Files(u) \ Files(t)
      BY <1>4, <3>2 DEF Opened
    <3> QED
      BY <3>1, <3>2
  <2> QED
    BY <1>2, <1>6, <2>1 DEF Opened
<1>8. \A g \in Seqs : t.file[g].resv = u.file[g].resv
  BY <1>3, <1>4, NoFileType
<1>9. Rs(t) = Rs(u)
  BY <1>8 DEF Rs
<1>10. \A g \in Seqs : Fr(t)[g] = Fr(u)[g] \/ (Fr(t)[g] = 0 /\ g < u.cur)
  BY <1>3, <1>4, NoFileType DEF Fr
<1>11. Fr(t)[u.tail] = Fr(u)[u.tail]
  BY <1>1, <1>10
<1>12. Room(u.cur, u.tail, Fr(t), Rs(u))
  <2>1. Fr(t) \in [Seqs -> Int]
    BY <1>2, FileType DEF Fr
  <2>2. ASSUME NEW g \in Seqs
        PROVE  /\ Fr(t)[g] >= 0 /\ Fr(t)[g] + Rs(u)[g] <= Cap
               /\ u.cur < g /\ g <= u.tail => Fr(t)[g] + Rs(u)[g] = Cap
    <3>1. CASE Fr(t)[g] = Fr(u)[g]
      BY <3>1 DEF Room
    <3>2. CASE Fr(t)[g] = 0 /\ g < u.cur
      <4>1. Rs(u)[g] = 0 /\ Cap >= 0
        <5>1. Fr(u)[u.cur] \in Int /\ Rs(u)[u.cur] \in Int /\ Fr(u)[u.cur] >= 0 /\ Rs(u)[u.cur] >= 0
              /\ Fr(u)[u.cur] + Rs(u)[u.cur] <= Cap
          BY <1>1 DEF Room
        <5>2. Cap >= 0
          BY <5>1, SeqsNat
        <5> QED
          BY <3>2, <5>2 DEF Room
      <4> QED
        BY <1>1, <3>2, <4>1
    <3> QED
      BY <1>10, <3>1, <3>2
  <2> QED
    BY <2>1, <2>2 DEF Room
<1> QED
  BY <1>2, <1>6, <1>7, <1>9, <1>11, <1>12

LEMMA TrimNonNeg ==
    ASSUME NEW u, NEW t, NonNeg(u), Trimmed(u, t)
    PROVE  NonNeg(t)
<1>1. ASSUME NEW f \in Seqs PROVE t.file[f].free >= 0 /\ t.file[f].resv >= 0
  <2>1. t.file[f] = u.file[f] \/ t.file[f] = NoFile
    BY DEF Trimmed
  <2> QED
    BY <2>1, NoFileType DEF NonNeg
<1> QED
  BY <1>1 DEF NonNeg

Shut(k) == [k EXCEPT !.iswopen = FALSE]

LEMMA ShutOf ==
    ASSUME NEW k \in FileI, NEW h, h = Shut(k)
    PROVE  /\ h \in FileI /\ h.iswopen = FALSE /\ h.refs = k.refs /\ h.jlist = k.jlist
           /\ h.free = k.free /\ h.resv = k.resv
BY DEF FileI, Shut

\* File f is not open any more.
Closed(w, u, f) ==
    /\ u \in Memo /\ SameTop(w, u) /\ SameChain(w, u) /\ SameJobs(w, u) /\ u.resv = w.resv
    /\ u.file[f].iswopen = FALSE /\ u.file[f].jlist = w.file[f].jlist
    /\ u.file[f].free = w.file[f].free /\ u.file[f].resv = w.file[f].resv
    /\ \A g \in Seqs \ {f} : u.file[g] = w.file[g]

LEMMA CloseOf ==
    ASSUME NEW w \in Memo, NEW rd, Book(w, rd), NEW f \in Seqs, w.file[f].iswopen,
           NEW t, t = filewclose(w, f)
    PROVE  \E u : Closed(w, u, f) /\ Book(u, rd) /\ Trimmed(u, t)
<1>1. w.file[f] \in FileI /\ w.file[f].jlist \in Seq(Ids) /\ Len(w.file[f].jlist) \in Nat
  BY FileType, ListLen
<1>2. PICK k : k = Shut(w.file[f])
  OBVIOUS
<1>3. /\ k \in FileI /\ k.iswopen = FALSE /\ k.refs = w.file[f].refs /\ k.jlist = w.file[f].jlist
      /\ k.free = w.file[f].free /\ k.resv = w.file[f].resv
  BY <1>1, <1>2, ShutOf
<1>4. PICK v : v = SetFile(w, f, k)
  OBVIOUS
<1>5. /\ v \in Memo /\ SameTop(w, v) /\ SameChain(w, v) /\ SameJobs(w, v) /\ v.resv = w.resv
      /\ v.file[f] = k /\ \A g \in Seqs \ {f} : v.file[g] = w.file[g]
  BY <1>3, <1>4, SetFileOf
<1>6. v = [w EXCEPT !.file[f].iswopen = FALSE]
  BY <1>2, <1>4 DEF SetFile, Shut, Memo, FileI
<1>7. t = filedecref(v, f)
  BY <1>6 DEF filewclose
<1>8. Chain(v) /\ Files(v) = Files(w) /\ v.job = w.job
  BY <1>5 DEF SameChain, SameJobs, Chain, Files, Book
<1>9. PICK u : Less(v, u, f) /\ Trimmed(u, t)
  BY <1>5, <1>7, <1>8, DecOf
<1>10. f \in Files(w)
  BY NoFileType DEF Book, Gone
<1>11. Over(v, f, rd)
  <2>1. v.file[f].refs = Len(v.file[f].jlist) + (IF v.file[f].iswopen THEN 1 ELSE 0)
                         + (IF f = rd THEN 1 ELSE 0) + 1
    <3>1. PICK b : b = IF f = rd THEN 1 ELSE 0
      OBVIOUS
    <3>2. w.file[f].refs = Len(w.file[f].jlist) + 1 + b /\ b \in Nat
      BY <3>1 DEF Book, Counted
    <3>3. v.file[f].refs = Len(v.file[f].jlist) + 0 + b + 1
      BY <1>1, <1>3, <1>5, <3>2
    <3> QED
      BY <1>3, <1>5, <3>1, <3>3
  <2>2. ASSUME NEW g \in Seqs
        PROVE  (g # f => Counted(v, g, rd)) /\ Holds(v, g) /\ Gone(v, g, rd)
    <3>1. Counted(w, g, rd) /\ Holds(w, g) /\ Gone(w, g, rd)
      BY DEF Book
    <3>2. v.file[g].jlist = w.file[g].jlist
      BY <1>3, <1>5
    <3>3. Holds(v, g)
      BY <1>8, <3>1, <3>2 DEF Holds
    <3>4. Gone(v, g, rd)
      BY <1>5, <1>8, <1>10, <3>1 DEF Gone
    <3>5. g # f => Counted(v, g, rd)
      BY <1>5, <3>1 DEF Counted
    <3> QED
      BY <3>3, <3>4, <3>5
  <2> QED
    BY <1>8, <1>10, <2>1, <2>2 DEF Over
<1>12. u \in Memo /\ Book(u, rd)
  BY <1>5, <1>9, <1>11, LessBook
<1>13. Closed(w, u, f)
  BY <1>3, <1>5, <1>9 DEF Closed, Less, SameTop, SameChain, SameJobs
<1> QED
  BY <1>9, <1>12, <1>13

SetCur(w, c) == [w EXCEPT !.cur = c]

LEMMA SetCurOf ==
    ASSUME NEW w \in Memo, NEW c \in Seqs, NEW t, t = SetCur(w, c)
    PROVE  /\ t \in Memo /\ t.use = w.use /\ t.cur = c /\ SameChain(w, t) /\ SameJobs(w, t)
           /\ t.resv = w.resv /\ t.file = w.file
BY DEF Memo, SetCur, SameChain, SameJobs

\* The books do not depend on which file is the current one.
LEMMA CurBook ==
    ASSUME NEW w, NEW rd, Book(w, rd), NEW t, SameChain(w, t), t.file = w.file, t.job = w.job
    PROVE  Book(t, rd)
<1>1. Chain(t) /\ Files(t) = Files(w)
  BY DEF Book, Chain, Files, SameChain
<1>2. ASSUME NEW f \in Seqs PROVE Counted(t, f, rd) /\ Holds(t, f) /\ Gone(t, f, rd)
  <2>1. Counted(w, f, rd) /\ Holds(w, f) /\ Gone(w, f, rd)
    BY DEF Book
  <2>2. Counted(t, f, rd)
    BY <2>1 DEF Counted
  <2>3. Holds(t, f)
    BY <2>1 DEF Holds
  <2>4. Gone(t, f, rd)
    BY <1>1, <2>1 DEF Gone
  <2> QED
    BY <2>2, <2>3, <2>4
<1> QED
  BY <1>1, <1>2 DEF Book

LEMMA NextOf ==
    ASSUME NEW w \in Memo, Book(w, Nil), Opened(w), NonNeg(w),
           Room(w.cur, w.tail, Fr(w), Rs(w)), w.cur < w.tail, Rs(w)[w.cur] = 0,
           NEW t, t = usenext(w)
    PROVE  /\ t \in Memo /\ Book(t, Nil) /\ NonNeg(t) /\ SameJobs(w, t) /\ t.use = w.use
           /\ t.cur = w.cur + 1 /\ t.tail = w.tail /\ t.next = w.next /\ t.resv = w.resv
           /\ Opened(t) /\ Rs(t) = Rs(w) /\ Fr(t)[w.tail] = Fr(w)[w.tail]
           /\ Room(t.cur, t.tail, Fr(t), Rs(t))
<1>1. w.cur \in Seqs /\ w.tail \in Seqs /\ w.cur \in Nat /\ w.tail \in Nat
      /\ \A g \in Seqs : g \in Nat
  BY RoomType
<1>2. PICK c : c = w.cur + 1
  OBVIOUS
<1>3. c \in Seqs /\ c \in Nat
  BY <1>1, <1>2, SeqsNat DEF Seqs
<1>4. PICK v : v = SetCur(w, c)
  OBVIOUS
<1>5. /\ v \in Memo /\ v.use = w.use /\ v.cur = c /\ SameChain(w, v) /\ SameJobs(w, v)
      /\ v.resv = w.resv /\ v.file = w.file
  BY <1>3, <1>4, SetCurOf
<1>6. t = filewclose(v, w.cur)
  BY <1>2, <1>4 DEF usenext, SetCur
<1>7. Book(v, Nil)
  BY <1>5, CurBook DEF SameJobs
<1>8. v.file[w.cur].iswopen
  BY <1>1, <1>5 DEF Opened
<1>9. PICK u : Closed(v, u, w.cur) /\ Book(u, Nil) /\ Trimmed(u, t)
  BY <1>1, <1>5, <1>6, <1>7, <1>8, CloseOf
<1>10. u \in Memo /\ u.cur = c /\ u.tail = w.tail /\ u.next = w.next /\ u.use = w.use
       /\ u.resv = w.resv /\ SameJobs(w, u)
  BY <1>5, <1>9 DEF Closed, SameTop, SameChain, SameJobs
<1>11. /\ \A g \in Seqs : u.file[g].free = w.file[g].free /\ u.file[g].resv = w.file[g].resv
       /\ u.file[w.cur].iswopen = FALSE
       /\ \A g \in Seqs \ {w.cur} : u.file[g].iswopen = w.file[g].iswopen
  BY <1>5, <1>9 DEF Closed
<1>12. Fr(u) = Fr(w) /\ Rs(u) = Rs(w)
  BY <1>11 DEF Fr, Rs
<1>13. Opened(u)
  <2>1. ASSUME NEW g \in Seqs PROVE u.file[g].iswopen <=> c <= g /\ g <= w.tail
    <3>1. CASE g = w.cur
      BY <1>1, <1>2, <1>11, <3>1
    <3>2. CASE g # w.cur
      <4>1. c <= g <=> w.cur <= g
        BY <1>1, <1>2, <3>2
      <4> QED
        BY <1>11, <3>2, <4>1 DEF Opened
    <3> QED
      BY <3>1, <3>2
  <2> QED
    BY <1>10, <2>1 DEF Opened
<1>14. Room(u.cur, u.tail, Fr(u), Rs(u))
  BY <1>2, <1>10, <1>12, RoomNext
<1>15. /\ t.tail = u.tail /\ t.cur = u.cur /\ t.next = u.next /\ Opened(t)
       /\ Rs(t) = Rs(u) /\ Fr(t)[u.tail] = Fr(u)[u.tail]
       /\ Room(t.cur, t.tail, Fr(t), Rs(t))
  BY <1>9, <1>10, <1>13, <1>14, TrimSpace
<1>16. Book(t, Nil)
  BY <1>9, <1>10, TrimBook
<1>17. NonNeg(t)
  <2>1. NonNeg(u)
    BY <1>11 DEF NonNeg
  <2> QED
    BY <1>9, <2>1, TrimNonNeg
<1>18. t \in Memo /\ t.use = w.use /\ t.resv = w.resv /\ SameJobs(w, t)
  BY <1>9, <1>10 DEF Trimmed, SameTop, SameJobs
<1> QED
  BY <1>2, <1>10, <1>12, <1>15, <1>16, <1>17, <1>18

-----------------------------------------------------------------------------
(* The jobs of a file                                                      *)

SetJob(w, j, k) == [w EXCEPT !.job[j] = k]

LEMMA SetJobOf ==
    ASSUME NEW w \in Memo, NEW j \in Ids, NEW k \in JobRec, NEW t, t = SetJob(w, j, k)
    PROVE  /\ t \in Memo /\ SameTop(w, t) /\ SameChain(w, t) /\ t.resv = w.resv
           /\ t.alive = w.alive /\ t.file = w.file
           /\ t.job[j] = k /\ \A i \in Ids \ {j} : t.job[i] = w.job[i]
<1>1. t.job = [w.job EXCEPT ![j] = k]
  BY DEF SetJob, Memo
<1>2. t.job \in [Ids -> JobRec] /\ t.job[j] = k /\ \A i \in Ids \ {j} : t.job[i] = w.job[i]
  BY <1>1, MemoType
<1>3. t \in Memo
  BY <1>2 DEF SetJob, Memo
<1>4. SameTop(w, t) /\ SameChain(w, t) /\ t.resv = w.resv /\ t.alive = w.alive /\ t.file = w.file
  BY DEF SetJob, Memo, SameTop, SameChain
<1> QED
  BY <1>2, <1>3, <1>4

SetAlive(w, n) == [w EXCEPT !.alive = n]

LEMMA SetAliveOf ==
    ASSUME NEW w \in Memo, NEW n \in Int, NEW t, t = SetAlive(w, n)
    PROVE  /\ t \in Memo /\ SameTop(w, t) /\ SameChain(w, t) /\ t.resv = w.resv
           /\ t.alive = n /\ t.file = w.file /\ t.job = w.job
BY DEF Memo, SetAlive, SameTop, SameChain

SetList(k, l) == [k EXCEPT !.jlist = l]

LEMMA SetListOf ==
    ASSUME NEW k \in FileI, NEW l \in Seq(Ids), NEW h, h = SetList(k, l)
    PROVE  /\ h \in FileI /\ h.iswopen = k.iswopen /\ h.refs = k.refs /\ h.jlist = l
           /\ h.free = k.free /\ h.resv = k.resv
BY DEF FileI, SetList

\* A job without file.
Loose(k) == [k EXCEPT !.file = Nil, !.walused = 0]

LEMMA LooseOf ==
    ASSUME NEW k \in JobRec, NEW h, h = Loose(k)
    PROVE  /\ h \in JobRec /\ h.file = Nil /\ h.walused = 0 /\ h.state = k.state
           /\ h.size = k.size /\ h.at = k.at /\ h.body = k.body
BY DEF JobRec, Loose

\* The numbers and the openness of the files stay.
SameSpace(w, u) ==
    \A g \in Seqs : /\ u.file[g].iswopen = w.file[g].iswopen
                    /\ u.file[g].free = w.file[g].free /\ u.file[g].resv = w.file[g].resv

\* The record of job j is k, and the bytes of the log have changed by d.
Changed(w, u, j, k, d) ==
    /\ u \in Memo /\ SameTop(w, u) /\ u.next = w.next /\ u.resv = w.resv
    /\ u.alive = w.alive + d
    /\ u.job[j] = k /\ \A i \in Ids \ {j} : u.job[i] = w.job[i]

LEMMA RemoveOf ==
    ASSUME NEW w \in Memo, NEW rd, Book(w, rd), NEW j \in Ids, w.job[j].file # Nil,
           NEW t, t = filermjob(w, j)
    PROVE  \E u : /\ Changed(w, u, j, Loose(w.job[j]), -w.job[j].walused) /\ SameChain(w, u)
                  /\ SameSpace(w, u) /\ Book(u, rd) /\ Trimmed(u, t)
<1>1. PICK f \in Seqs : f = w.job[j].file
  BY JobType
<1>2. PICK l : l = w.file[f].jlist
  OBVIOUS
<1>3. l \in Seq(Ids) /\ Len(l) \in Nat /\ w.file[f] \in FileI
  BY <1>2, FileType, ListLen
<1>4. j \in Range(l) /\ IsInjective(l)
  BY <1>1, <1>2 DEF Book, Holds
<1>5. PICK r : r = Without(l, j)
  OBVIOUS
<1>6. r \in Seq(Ids) /\ Len(r) = Len(l) - 1 /\ Range(r) = Range(l) \ {j} /\ IsInjective(r)
  BY <1>3, <1>4, <1>5, WithoutOf
<1>7. PICK h : h = SetList(w.file[f], r)
  OBVIOUS
<1>8. /\ h \in FileI /\ h.iswopen = w.file[f].iswopen /\ h.refs = w.file[f].refs /\ h.jlist = r
      /\ h.free = w.file[f].free /\ h.resv = w.file[f].resv
  BY <1>3, <1>6, <1>7, SetListOf
<1>9. PICK k : k = Loose(w.job[j])
  OBVIOUS
<1>10. k \in JobRec /\ k.file = Nil /\ w.job[j].walused \in Nat
  BY <1>9, LooseOf, JobType
<1>11. PICK a : a = SetFile(w, f, h)
  OBVIOUS
<1>12. /\ a \in Memo /\ SameTop(w, a) /\ SameChain(w, a) /\ SameJobs(w, a) /\ a.resv = w.resv
       /\ a.file[f] = h /\ \A g \in Seqs \ {f} : a.file[g] = w.file[g]
  BY <1>8, <1>11, SetFileOf
<1>13. PICK b : b = SetJob(a, j, k)
  OBVIOUS
<1>14. /\ b \in Memo /\ SameTop(a, b) /\ SameChain(a, b) /\ b.resv = a.resv
       /\ b.alive = a.alive /\ b.file = a.file
       /\ b.job[j] = k /\ \A i \in Ids \ {j} : b.job[i] = a.job[i]
  BY <1>10, <1>12, <1>13, SetJobOf
<1>15. PICK n : n = w.alive - w.job[j].walused
  OBVIOUS
<1>16. n \in Int
  BY <1>10, <1>15, MemoType
<1>17. PICK v : v = SetAlive(b, n)
  OBVIOUS
<1>18. /\ v \in Memo /\ SameTop(b, v) /\ SameChain(b, v) /\ v.resv = b.resv
       /\ v.alive = n /\ v.file = b.file /\ v.job = b.job
  BY <1>14, <1>16, <1>17, SetAliveOf
<1>19. t = filedecref(v, f)
  <2>1. v = [w EXCEPT !.file[f].jlist = Without(@, j), !.job[j].file = Nil,
                      !.job[j].walused = 0, !.alive = @ - w.job[j].walused]
    <3>1. r = Without(w.file[f].jlist, j)
      BY <1>2, <1>5
    <3> QED
      BY <1>7, <1>9, <1>11, <1>13, <1>15, <1>17, <3>1, ZenonT(40)
      DEF SetAlive, SetJob, SetFile, SetList, Loose, Memo, FileI, JobRec
  <2> QED
    BY <1>1, <2>1 DEF filermjob
<1>20. SameChain(w, v) /\ SameTop(w, v) /\ v.resv = w.resv
  BY <1>12, <1>14, <1>18 DEF SameChain, SameTop
<1>21. /\ v.file[f] = h /\ \A g \in Seqs \ {f} : v.file[g] = w.file[g]
       /\ v.job[j] = k /\ \A i \in Ids \ {j} : v.job[i] = w.job[i]
  BY <1>12, <1>14, <1>18 DEF SameJobs
<1>22. Chain(v) /\ Files(v) = Files(w)
  BY <1>20 DEF SameChain, Chain, Files, Book
<1>23. f \in Files(w)
  BY <1>2, <1>4, NoFileType, EmptyRange DEF Book, Gone
<1>24. Over(v, f, rd)
  <2>1. v.file[f].refs = Len(v.file[f].jlist) + (IF v.file[f].iswopen THEN 1 ELSE 0)
                         + (IF f = rd THEN 1 ELSE 0) + 1
    <3>1. PICK x : x = IF w.file[f].iswopen THEN 1 ELSE 0
      OBVIOUS
    <3>2. PICK y : y = IF f = rd THEN 1 ELSE 0
      OBVIOUS
    <3>3. w.file[f].refs = Len(l) + x + y /\ x \in Nat /\ y \in Nat
      BY <1>2, <3>1, <3>2 DEF Book, Counted
    <3>4. h.refs = Len(r) + x + y + 1
      BY <1>3, <1>6, <1>8, <3>3
    <3> QED
      BY <1>8, <1>21, <3>1, <3>2, <3>4
  <2>2. ASSUME NEW g \in Seqs
        PROVE  (g # f => Counted(v, g, rd)) /\ Holds(v, g) /\ Gone(v, g, rd)
    <3>1. Counted(w, g, rd) /\ Holds(w, g) /\ Gone(w, g, rd)
      BY DEF Book
    <3>2. Gone(v, g, rd)
      BY <1>21, <1>22, <1>23, <3>1 DEF Gone
    <3>3. g # f => Counted(v, g, rd)
      BY <1>21, <3>1 DEF Counted
    <3>4. Holds(v, g)
      <4>1. CASE g = f
        <5>1. IsInjective(v.file[g].jlist) /\ Range(v.file[g].jlist) = Range(w.file[g].jlist) \ {j}
          BY <1>2, <1>6, <1>8, <1>21, <4>1
        <5>2. ASSUME NEW i \in Ids PROVE v.job[i].file = g <=> i \in Range(v.file[g].jlist)
          <6>1. CASE i = j
            BY <1>10, <1>21, <5>1, <6>1, SeqsNat DEF Nil, Seqs
          <6>2. CASE i # j
            BY <1>21, <3>1, <5>1, <6>2 DEF Holds
          <6> QED
            BY <6>1, <6>2
        <5> QED
          BY <5>1, <5>2 DEF Holds
      <4>2. CASE g # f
        <5>1. v.file[g] = w.file[g]
          BY <1>21, <4>2
        <5>2. ASSUME NEW i \in Ids PROVE v.job[i].file = g <=> i \in Range(w.file[g].jlist)
          <6>1. CASE i = j
            <7>1. w.job[j].file # g /\ g # Nil
              BY <1>1, <4>2, SeqsNat DEF Nil, Seqs
            <7> QED
              BY <1>10, <1>21, <3>1, <6>1, <7>1 DEF Holds
          <6>2. CASE i # j
            BY <1>21, <3>1, <6>2 DEF Holds
          <6> QED
            BY <6>1, <6>2
        <5> QED
          BY <3>1, <5>1, <5>2 DEF Holds
      <4> QED
        BY <4>1, <4>2
    <3> QED
      BY <3>2, <3>3, <3>4
  <2> QED
    BY <1>22, <1>23, <2>1, <2>2 DEF Over
<1>25. PICK u : Less(v, u, f) /\ Trimmed(u, t)
  BY <1>18, <1>19, <1>22, DecOf
<1>26. u \in Memo /\ Book(u, rd)
  BY <1>18, <1>24, <1>25, LessBook
<1>27. SameSpace(w, u)
  BY <1>8, <1>21, <1>25 DEF SameSpace, Less
<1>28. SameChain(w, u) /\ SameTop(w, u) /\ u.resv = w.resv /\ u.job = v.job /\ u.alive = v.alive
  BY <1>20, <1>25 DEF Less, SameChain, SameTop, SameJobs
<1>29. Changed(w, u, j, Loose(w.job[j]), -w.job[j].walused)
  <2>1. u.alive = w.alive + (-w.job[j].walused)
    BY <1>10, <1>15, <1>18, <1>28, MemoType
  <2> QED
    BY <1>9, <1>21, <1>26, <1>28, <2>1 DEF Changed, SameChain
<1> QED
  BY <1>25, <1>26, <1>27, <1>28, <1>29

\* A job in file f.
Placed(k, f) == [k EXCEPT !.file = f]

LEMMA PlacedOf ==
    ASSUME NEW k \in JobRec, NEW f \in Seqs, NEW h, h = Placed(k, f)
    PROVE  /\ h \in JobRec /\ h.file = f /\ h.walused = k.walused /\ h.state = k.state
           /\ h.size = k.size /\ h.at = k.at /\ h.body = k.body
BY DEF JobRec, Placed

\* File f has one reference more.
More(w, u, f) ==
    /\ u \in Memo /\ SameTop(w, u) /\ SameChain(w, u) /\ SameJobs(w, u) /\ u.resv = w.resv
    /\ u.file[f].refs = w.file[f].refs + 1
    /\ u.file[f].iswopen = w.file[f].iswopen /\ u.file[f].jlist = w.file[f].jlist
    /\ u.file[f].free = w.file[f].free /\ u.file[f].resv = w.file[f].resv
    /\ \A g \in Seqs \ {f} : u.file[g] = w.file[g]

LEMMA IncOf ==
    ASSUME NEW w \in Memo, NEW f \in Seqs, NEW t, t = fileincref(w, f)
    PROVE  More(w, t, f)
<1>1. PICK n : n = w.file[f].refs + 1
  OBVIOUS
<1>2. n \in Int /\ w.file[f] \in FileI
  BY <1>1, FileType
<1>3. PICK k : k = SetRefs(w.file[f], n)
  OBVIOUS
<1>4. /\ k \in FileI /\ k.refs = n /\ k.iswopen = w.file[f].iswopen /\ k.jlist = w.file[f].jlist
      /\ k.free = w.file[f].free /\ k.resv = w.file[f].resv
  BY <1>2, <1>3, SetRefsOf
<1>5. t = SetFile(w, f, k)
  BY <1>1, <1>3 DEF SetFile, SetRefs, Memo, FileI, fileincref
<1>6. /\ t \in Memo /\ SameTop(w, t) /\ SameChain(w, t) /\ SameJobs(w, t) /\ t.resv = w.resv
      /\ t.file[f] = k /\ \A g \in Seqs \ {f} : t.file[g] = w.file[g]
  BY <1>4, <1>5, SetFileOf
<1> QED
  BY <1>1, <1>4, <1>6 DEF More

LEMMA AddOf ==
    ASSUME NEW w \in Memo, NEW rd, Book(w, rd), NEW f \in Seqs, f \in Files(w), NEW j \in Ids,
           w.job[j].file = Nil, NEW t, t = fileaddjob(w, f, j)
    PROVE  /\ Changed(w, t, j, Placed(w.job[j], f), 0) /\ SameChain(w, t)
           /\ SameSpace(w, t) /\ Book(t, rd)
<1>1. PICK l : l = w.file[f].jlist
  OBVIOUS
<1>2. l \in Seq(Ids) /\ Len(l) \in Nat /\ w.file[f] \in FileI /\ w.file[f].refs \in Int
  BY <1>1, FileType, ListLen
<1>3. j \notin Range(l) /\ IsInjective(l)
  <2>1. f # Nil
    BY SeqsNat DEF Seqs, Nil
  <2> QED
    BY <1>1, <2>1 DEF Book, Holds
<1>4. PICK r : r = Append(l, j)
  OBVIOUS
<1>5. r \in Seq(Ids) /\ Len(r) = Len(l) + 1 /\ Range(r) = Range(l) \cup {j} /\ IsInjective(r)
  BY <1>2, <1>3, <1>4, AppendOf
<1>6. r \in Seq(Ids)
  BY <1>5
<1>7. PICK h : h = SetList(w.file[f], r)
  OBVIOUS
<1>8. /\ h \in FileI /\ h.iswopen = w.file[f].iswopen /\ h.refs = w.file[f].refs /\ h.jlist = r
      /\ h.free = w.file[f].free /\ h.resv = w.file[f].resv
  BY <1>2, <1>6, <1>7, SetListOf
<1>9. PICK k : k = Placed(w.job[j], f)
  OBVIOUS
<1>10. k \in JobRec /\ k.file = f
  BY <1>9, PlacedOf, JobType
<1>11. PICK a : a = SetFile(w, f, h)
  OBVIOUS
<1>12. /\ a \in Memo /\ SameTop(w, a) /\ SameChain(w, a) /\ SameJobs(w, a) /\ a.resv = w.resv
       /\ a.file[f] = h /\ \A g \in Seqs \ {f} : a.file[g] = w.file[g]
  BY <1>8, <1>11, SetFileOf
<1>13. PICK b : b = SetJob(a, j, k)
  OBVIOUS
<1>14. /\ b \in Memo /\ SameTop(a, b) /\ SameChain(a, b) /\ b.resv = a.resv
       /\ b.alive = a.alive /\ b.file = a.file
       /\ b.job[j] = k /\ \A i \in Ids \ {j} : b.job[i] = a.job[i]
  BY <1>10, <1>12, <1>13, SetJobOf
<1>15. More(b, t, f)
  <2>1. r = Append(w.file[f].jlist, j)
    BY <1>1, <1>4
  <2>2. b = [w EXCEPT !.file[f].jlist = Append(@, j), !.job[j].file = f]
    BY <1>7, <1>9, <1>11, <1>13, <2>1
    DEF SetJob, SetFile, SetList, Placed, Memo, FileI, JobRec
  <2>3. t = fileincref(b, f)
    BY <2>2 DEF fileaddjob
  <2> QED
    BY <1>14, <2>3, IncOf
<1>16. t \in Memo /\ SameTop(w, t) /\ SameChain(w, t) /\ t.resv = w.resv /\ t.alive = w.alive
  BY <1>12, <1>14, <1>15 DEF SameTop, SameChain, SameJobs, More
<1>17. /\ t.file[f].refs = h.refs + 1 /\ t.file[f].jlist = r
       /\ t.file[f].iswopen = w.file[f].iswopen
       /\ t.file[f].free = w.file[f].free /\ t.file[f].resv = w.file[f].resv
       /\ \A g \in Seqs \ {f} : t.file[g] = w.file[g]
       /\ t.job[j] = k /\ \A i \in Ids \ {j} : t.job[i] = w.job[i]
  BY <1>8, <1>12, <1>14, <1>15 DEF SameJobs, More
<1>18. Chain(t) /\ Files(t) = Files(w)
  BY <1>16 DEF SameChain, Chain, Files, Book
<1>19. ASSUME NEW g \in Seqs PROVE Counted(t, g, rd) /\ Holds(t, g) /\ Gone(t, g, rd)
  <2>1. Counted(w, g, rd) /\ Holds(w, g) /\ Gone(w, g, rd)
    BY DEF Book
  <2>2. Gone(t, g, rd)
    BY <1>17, <1>18, <2>1 DEF Gone
  <2>3. CASE g = f
    <3>1. Counted(t, f, rd)
      <4>1. PICK x : x = IF w.file[f].iswopen THEN 1 ELSE 0
        OBVIOUS
      <4>2. PICK y : y = IF f = rd THEN 1 ELSE 0
        OBVIOUS
      <4>3. w.file[f].refs = Len(l) + x + y /\ x \in Nat /\ y \in Nat
        BY <1>1, <2>1, <2>3, <4>1, <4>2 DEF Counted
      <4>4. t.file[f].refs = Len(r) + x + y
        BY <1>2, <1>5, <1>8, <1>17, <4>3
      <4> QED
        BY <1>17, <4>1, <4>2, <4>4 DEF Counted
    <3>2. Range(t.file[f].jlist) = Range(w.file[f].jlist) \cup {j} /\ IsInjective(t.file[f].jlist)
      BY <1>1, <1>5, <1>17
    <3>3. ASSUME NEW i \in Ids PROVE t.job[i].file = f <=> i \in Range(t.file[f].jlist)
      <4>1. CASE i = j
        BY <1>10, <1>17, <3>2, <4>1
      <4>2. CASE i # j
        BY <1>17, <2>1, <2>3, <3>2, <4>2 DEF Holds
      <4> QED
        BY <4>1, <4>2
    <3> QED
      BY <2>2, <2>3, <3>1, <3>2, <3>3 DEF Holds
  <2>4. CASE g # f
    <3>1. t.file[g] = w.file[g] /\ g # Nil
      BY <1>17, <2>4, SeqsNat DEF Seqs, Nil
    <3>2. Counted(t, g, rd)
      BY <2>1, <3>1 DEF Counted
    <3>3. ASSUME NEW i \in Ids PROVE t.job[i].file = g <=> i \in Range(w.file[g].jlist)
      <4>1. CASE i = j
        BY <1>10, <1>17, <2>1, <2>4, <3>1, <4>1 DEF Holds
      <4>2. CASE i # j
        BY <1>17, <2>1, <4>2 DEF Holds
      <4> QED
        BY <4>1, <4>2
    <3>4. Holds(t, g)
      BY <2>1, <3>1, <3>3 DEF Holds
    <3> QED
      BY <2>2, <3>2, <3>4
  <2> QED
    BY <2>3, <2>4
<1>20. Book(t, rd)
  BY <1>18, <1>19 DEF Book
<1>21. SameSpace(w, t)
  BY <1>17 DEF SameSpace
<1>22. Changed(w, t, j, Placed(w.job[j], f), 0)
  <2>1. t.alive = w.alive + 0
    BY <1>16, MemoType
  <2> QED
    BY <1>9, <1>16, <1>17, <2>1 DEF Changed, SameChain
<1> QED
  BY <1>16, <1>20, <1>21, <1>22

\* The log has the bytes of one job more or less.
LEMMA LedgerChange ==
    ASSUME NEW w \in Memo, NEW u \in Memo, Ledger(w), NEW j \in Ids, NEW d \in Int,
           u.job[j].walused = w.job[j].walused + d, u.alive = w.alive + d,
           \A i \in Ids \ {j} : u.job[i] = w.job[i],
           u.next_id >= w.next_id, JobOk(u, j)
    PROVE  Ledger(u)
<1>1. Ids = 1..MaxId /\ MaxId \in Nat
  BY WalConstants DEF Ids
<1>2. Used(u)[j] = Used(w)[j] + d /\ \A i \in Ids : i # j => Used(u)[i] = Used(w)[i]
  BY DEF Used
<1>3. \A i \in Ids : Used(w)[i] \in Int
  BY JobType DEF Used
<1>4. IsSum(MaxId, Used(w), w.alive)
  BY DEF Ledger
<1>5. IsSum(MaxId, Used(u), w.alive + d)
  BY <1>1, <1>2, <1>3, <1>4, SumChange
<1>6. ASSUME NEW i \in Ids PROVE JobOk(u, i)
  <2>1. CASE i = j
    BY <2>1
  <2>2. CASE i # j
    <3>1. JobOk(w, i) /\ u.job[i] = w.job[i]
      BY <2>2 DEF Ledger
    <3>2. u.next_id \in Nat /\ w.next_id \in Nat /\ i \in Nat
      BY <1>1, MemoType
    <3>3. i >= u.next_id => i >= w.next_id
      BY <3>2
    <3> QED
      BY <3>1, <3>3 DEF JobOk
  <2> QED
    BY <2>1, <2>2
<1> QED
  BY <1>5, <1>6 DEF Ledger

\* Nothing changes for the jobs.
LEMMA LedgerSame ==
    ASSUME NEW w \in Memo, NEW u, Ledger(w), SameJobs(w, u)
    PROVE  Ledger(u)
<1>1. u.job = w.job /\ u.alive = w.alive /\ u.next_id = w.next_id
  BY DEF SameJobs
<1>2. Used(u) = Used(w)
  BY <1>1 DEF Used
<1>3. \A j \in Ids : JobOk(u, j)
  BY <1>1 DEF Ledger, JobOk
<1> QED
  BY <1>1, <1>2, <1>3 DEF Ledger

\* The books are about references, lists and the files of jobs.
LEMMA BookSame ==
    ASSUME NEW w, NEW rd, Book(w, rd), NEW t, SameChain(w, t), SameFiles(w, t),
           \A g \in Seqs : g \notin Files(w) => t.file[g] = w.file[g],
           \A j \in Ids : t.job[j].file = w.job[j].file
    PROVE  Book(t, rd)
<1>1. Chain(t) /\ Files(t) = Files(w)
  BY DEF Book, Chain, Files, SameChain
<1>2. ASSUME NEW f \in Seqs PROVE Counted(t, f, rd) /\ Holds(t, f) /\ Gone(t, f, rd)
  <2>1. Counted(w, f, rd) /\ Holds(w, f) /\ Gone(w, f, rd)
    BY DEF Book
  <2>2. SameFile(w.file[f], t.file[f])
    BY DEF SameFiles
  <2>3. Counted(t, f, rd)
    BY <2>1, <2>2 DEF Counted, SameFile
  <2>4. Holds(t, f)
    BY <2>1, <2>2 DEF Holds, SameFile
  <2>5. Gone(t, f, rd)
    BY <1>1, <2>1 DEF Gone
  <2> QED
    BY <2>3, <2>4, <2>5
<1> QED
  BY <1>1, <1>2 DEF Book

LEMMA GrownBook ==
    ASSUME NEW w \in Memo, NEW rd, Book(w, rd), w.next \in Seqs,
           w.head = Nil \/ w.tail = w.next - 1, NEW t, t = Grown(w)
    PROVE  /\ Book(t, rd) /\ Files(t) = Files(w) \cup {w.next} /\ w.next \notin Files(w)
           /\ w.file[w.next] = NoFile
<1>1. /\ t \in Memo /\ SameJobs(w, t)
      /\ t.next = w.next + 1 /\ t.tail = w.next
      /\ t.head = (IF w.head = Nil THEN w.next ELSE w.head)
      /\ t.file[w.next] = NewFile /\ \A g \in Seqs \ {w.next} : t.file[g] = w.file[g]
  BY GrownOf
<1>2. /\ w.next \in Nat /\ w.next >= 1 /\ w.next <= MaxSeq /\ MaxSeq \in Nat /\ w.tail \in Nat
      /\ w.head \in Nat /\ Nil = 0 /\ \A g \in Seqs : g \in Nat /\ g >= 1
  BY MemoType, SeqsNat DEF Seqs, Nil
<1>3. Chain(w) /\ w.tail < w.next
  BY DEF Book, Chain
<1>4. Chain(t)
  <2>1. t.head \in Seqs /\ t.head <= t.tail
    BY <1>1, <1>2, <1>3, MemoType DEF Chain
  <2> QED
    BY <1>1, <1>2, <2>1 DEF Chain
<1>5. \A g \in Seqs : g \in Files(w) <=> w.head # Nil /\ w.head <= g /\ g <= w.tail
  BY <1>3, FilesOf
<1>6. \A g \in Seqs : g \in Files(t) <=> t.head # Nil /\ t.head <= g /\ g <= t.tail
  BY <1>1, <1>4, FilesOf
<1>7. w.next \notin Files(w) /\ \A g \in Seqs : g \in Files(t) <=> g \in Files(w) \/ g = w.next
  BY <1>1, <1>2, <1>3, <1>5, <1>6 DEF Chain
<1>8. Files(t) = Files(w) \cup {w.next}
  BY <1>1, <1>3, <1>4, <1>7, FilesOf
<1>9. w.file[w.next] = NoFile /\ w.next # rd
  BY <1>7 DEF Book, Gone
<1>10. t.job = w.job
  BY <1>1 DEF SameJobs
<1>11. ASSUME NEW g \in Seqs PROVE Counted(t, g, rd) /\ Holds(t, g) /\ Gone(t, g, rd)
  <2>1. Counted(w, g, rd) /\ Holds(w, g) /\ Gone(w, g, rd)
    BY DEF Book
  <2>2. CASE g = w.next
    <3>1. t.file[g].refs = 1 /\ t.file[g].iswopen = TRUE /\ t.file[g].jlist = <<>>
      BY <1>1, <2>2 DEF NewFile
    <3>2. Counted(t, g, rd)
      BY <1>9, <2>2, <3>1, EmptyRange DEF Counted
    <3>3. w.file[g].jlist = t.file[g].jlist
      BY <1>9, <2>2, <3>1, NoFileType
    <3>4. Holds(t, g)
      BY <1>10, <2>1, <3>3 DEF Holds
    <3>5. Gone(t, g, rd)
      BY <1>7, <2>2 DEF Gone
    <3> QED
      BY <3>2, <3>4, <3>5
  <2>3. CASE g # w.next
    <3>1. t.file[g] = w.file[g]
      BY <1>1, <2>3
    <3>2. Counted(t, g, rd)
      BY <2>1, <3>1 DEF Counted
    <3>3. Holds(t, g)
      BY <1>10, <2>1, <3>1 DEF Holds
    <3>4. Gone(t, g, rd)
      BY <1>7, <2>1, <2>3, <3>1 DEF Gone
    <3> QED
      BY <3>2, <3>3, <3>4
  <2> QED
    BY <2>2, <2>3
<1> QED
  BY <1>4, <1>7, <1>8, <1>9, <1>11 DEF Book

\* A job with n bytes more in the log.
Heavier(k, n) == [k EXCEPT !.walused = n]

LEMMA HeavierOf ==
    ASSUME NEW k \in JobRec, NEW n \in Nat, NEW h, h = Heavier(k, n)
    PROVE  /\ h \in JobRec /\ h.file = k.file /\ h.walused = n /\ h.state = k.state
           /\ h.size = k.size /\ h.at = k.at /\ h.body = k.body
BY DEF JobRec, Heavier

LEMMA WriteOf ==
    ASSUME NEW w \in Memo, w.cur \in Seqs, NEW j \in Ids, NEW n \in Nat,
           NEW t, t = filewrite(w, j, n)
    PROVE  /\ t \in Memo /\ SameTop(w, t) /\ SameChain(w, t) /\ SameFiles(w, t)
           /\ t.resv = w.resv - n /\ t.alive = w.alive + n
           /\ \A g \in Seqs \ {w.cur} : t.file[g] = w.file[g]
           /\ Fr(t) = Fr(w) /\ Rs(t) = [Rs(w) EXCEPT ![w.cur] = @ - n]
           /\ t.job[j] = Heavier(w.job[j], w.job[j].walused + n)
           /\ \A i \in Ids \ {j} : t.job[i] = w.job[i]
<1>1. PICK f \in Seqs : f = w.cur
  OBVIOUS
<1>2. PICK resv : resv = w.file[f].resv - n
  OBVIOUS
<1>3. PICK free : free = w.file[f].free
  OBVIOUS
<1>4. resv \in Int /\ free \in Int /\ w.file[f] \in FileI /\ w.resv \in Int /\ w.alive \in Int
  BY <1>2, <1>3, FileType, MemoType
<1>5. PICK h : h = Numbers(w.file[f], free, resv)
  OBVIOUS
<1>6. h \in FileI /\ SameFile(w.file[f], h) /\ h.free = free /\ h.resv = resv
  BY <1>4, <1>5, NumbersOf
<1>7. PICK u : u = w.job[j].walused + n
  OBVIOUS
<1>8. u \in Nat /\ w.job[j] \in JobRec
  BY <1>7, JobType
<1>9. PICK k : k = Heavier(w.job[j], u)
  OBVIOUS
<1>10. k \in JobRec
  BY <1>8, <1>9, HeavierOf
<1>11. PICK a : a = SetFile(w, f, h)
  OBVIOUS
<1>12. /\ a \in Memo /\ SameTop(w, a) /\ SameChain(w, a) /\ SameJobs(w, a) /\ a.resv = w.resv
       /\ a.file[f] = h /\ \A g \in Seqs \ {f} : a.file[g] = w.file[g]
  BY <1>6, <1>11, SetFileOf
<1>13. PICK b : b = SetJob(a, j, k)
  OBVIOUS
<1>14. /\ b \in Memo /\ SameTop(a, b) /\ SameChain(a, b) /\ b.resv = a.resv
       /\ b.alive = a.alive /\ b.file = a.file
       /\ b.job[j] = k /\ \A i \in Ids \ {j} : b.job[i] = a.job[i]
  BY <1>10, <1>12, <1>13, SetJobOf
<1>15. PICK y \in Int : y = w.alive + n
  BY <1>4
<1>16. PICK c : c = SetAlive(b, y)
  OBVIOUS
<1>17. /\ c \in Memo /\ SameTop(b, c) /\ SameChain(b, c) /\ c.resv = b.resv
       /\ c.alive = y /\ c.file = b.file /\ c.job = b.job
  BY <1>14, <1>16, SetAliveOf
<1>18. PICK z \in Int : z = w.resv - n
  BY <1>4
<1>19. t = SetResv(c, z)
  <2>1. h = [w.file[f] EXCEPT !.resv = @ - n]
    BY <1>2, <1>3, <1>4, <1>5 DEF Numbers, FileI
  <2> QED
    BY <1>1, <1>7, <1>9, <1>11, <1>13, <1>15, <1>16, <1>18, <2>1
    DEF filewrite, SetResv, SetAlive, SetJob, SetFile, Heavier, Memo, FileI, JobRec
<1>20. /\ t \in Memo /\ SameTop(c, t) /\ SameChain(c, t) /\ SameJobs(c, t)
       /\ t.resv = z /\ t.file = c.file
  BY <1>17, <1>19, SetResvOf
<1>21. SameTop(w, t) /\ SameChain(w, t)
  BY <1>12, <1>14, <1>17, <1>20 DEF SameTop, SameChain
<1>22. t.file[f] = h /\ \A g \in Seqs \ {f} : t.file[g] = w.file[g]
  BY <1>12, <1>14, <1>17, <1>20
<1>23. SameFiles(w, t)
  BY <1>6, <1>22 DEF SameFiles, SameFile
<1>24. t.job[j] = k /\ \A i \in Ids \ {j} : t.job[i] = w.job[i]
  BY <1>12, <1>14, <1>17, <1>20 DEF SameJobs
<1>25. Fr(t) = Fr(w) /\ Rs(t) = [Rs(w) EXCEPT ![f] = @ - n]
  BY <1>2, <1>3, <1>6, <1>22 DEF Fr, Rs
<1>26. t.resv = w.resv - n /\ t.alive = w.alive + n
  BY <1>15, <1>17, <1>18, <1>20 DEF SameJobs
<1> QED
  BY <1>1, <1>7, <1>9, <1>20, <1>21, <1>22, <1>23, <1>24, <1>25, <1>26

-----------------------------------------------------------------------------
(* A log that is in use                                                    *)

\* The log has x bytes reserved beyond the delete records; the jobs without a
\* file are those of mv.
Yard(w, x, mv) ==
    /\ w \in Memo /\ Book(w, Nil) /\ Ledger(w)
    /\ w.use /\ w.tail = w.next - 1
    /\ Opened(w)
    /\ Room(w.cur, w.tail, Fr(w), Rs(w))
    /\ IsSum(MaxSeq, Rs(w), w.resv)
    /\ spent.spare \in Nat /\ w.resv = Claims(w) + x
    /\ \A j \in Live(w) : w.job[j].file = Nil <=> j \in mv

LEMMA LiveFinite ==
    ASSUME NEW w
    PROVE  IsFiniteSet(Live(w)) /\ Cardinality(Live(w)) \in Nat /\ Z * Cardinality(Live(w)) \in Nat
<1>1. IsFiniteSet(Ids)
  BY WalConstants, FS_Interval DEF Ids
<1>2. IsFiniteSet(Live(w))
  BY <1>1, FS_Subset DEF Live
<1>3. Cardinality(Live(w)) \in Nat /\ Z \in Nat \ {0}
  BY <1>2, FS_CardinalityType, WalConstants
<1> QED
  BY <1>2, <1>3, EuclidMult

LEMMA ClaimsType ==
    ASSUME spent.spare \in Nat, NEW w
    PROVE  Claims(w) \in Nat
<1>1. PICK c \in Nat : c = Z * Cardinality(Live(w))
  BY LiveFinite
<1> QED
  BY <1>1 DEF Claims

LEMMA ClaimsSame ==
    ASSUME NEW w, NEW t, Live(t) = Live(w)
    PROVE  Claims(t) = Claims(w)
BY DEF Claims

LEMMA SpaceType ==
    ASSUME NEW w \in Memo
    PROVE  /\ Fr(w) \in [Seqs -> Int] /\ Rs(w) \in [Seqs -> Int]
           /\ \A f \in Seqs : Fr(w)[f] = w.file[f].free /\ Rs(w)[f] = w.file[f].resv
<1>1. \A f \in Seqs : w.file[f].free \in Int /\ w.file[f].resv \in Int
  BY FileType
<1> QED
  BY <1>1 DEF Fr, Rs

LEMMA YardNonNeg ==
    ASSUME NEW w, NEW x, NEW mv, Yard(w, x, mv)
    PROVE  NonNeg(w) /\ w.cur \in Seqs /\ w.tail \in Seqs /\ w.cur <= w.tail
           /\ w.cur \in Nat /\ w.tail \in Nat /\ w \in Memo
           /\ Room(w.cur, w.tail, Fr(w), Rs(w))
<1>1. w \in Memo /\ Room(w.cur, w.tail, Fr(w), Rs(w))
  BY DEF Yard
<1>2. \A f \in Seqs : Fr(w)[f] >= 0 /\ Rs(w)[f] >= 0
  BY <1>1 DEF Room
<1>3. NonNeg(w)
  BY <1>1, <1>2, SpaceType DEF NonNeg
<1>4. w.cur \in Seqs /\ w.tail \in Seqs /\ w.cur <= w.tail /\ w.cur \in Nat /\ w.tail \in Nat
  BY <1>1, RoomType
<1> QED
  BY <1>1, <1>3, <1>4

\* The files of the list.
LEMMA YardFiles ==
    ASSUME NEW w, NEW x, NEW mv, Yard(w, x, mv)
    PROVE  /\ \A f \in Seqs : w.cur <= f /\ f <= w.tail => f \in Files(w)
           /\ w.cur \in Files(w) /\ w.tail \in Files(w) /\ w.head # Nil
<1>1. w \in Memo /\ Book(w, Nil) /\ Opened(w)
  BY DEF Yard
<1>2. ASSUME NEW f \in Seqs, w.cur <= f, f <= w.tail PROVE f \in Files(w)
  <2>1. w.file[f].iswopen
    BY <1>1, <1>2 DEF Opened
  <2>2. Gone(w, f, Nil)
    BY <1>1 DEF Book
  <2>3. w.file[f] # NoFile
    BY <2>1 DEF NoFile
  <2> QED
    BY <2>2, <2>3 DEF Gone
<1>3. w.cur \in Seqs /\ w.tail \in Seqs /\ w.cur <= w.tail /\ w.cur \in Nat /\ w.tail \in Nat
  BY YardNonNeg
<1>4. w.cur \in Files(w) /\ w.tail \in Files(w)
  BY <1>2, <1>3
<1>5. w.head # Nil
  BY <1>4 DEF Files
<1> QED
  BY <1>2, <1>4, <1>5

\* Which jobs are alive, and how many, depends on the jobs alone.
LEMMA LiveSame ==
    ASSUME NEW w, NEW t, t.job = w.job
    PROVE  Live(t) = Live(w)
BY DEF Live

\* Nothing changes in the other files.
Elsewhere(w, t, F) == \A g \in Seqs \ F : t.file[g] = w.file[g]

LEMMA TakeElse ==
    ASSUME NEW w \in Memo, NEW f \in Seqs, NEW n \in Int, NEW t, t = take(w, f, n)
    PROVE  Elsewhere(w, t, {f})
BY TakeOf DEF Elsewhere

LEMMA YardTake ==
    ASSUME NEW w, NEW x, NEW mv, Yard(w, x, mv), x \in Int, NEW f \in Seqs, f = w.cur \/ f = w.tail,
           NEW n \in Int, Rs(w)[f] + n >= 0, Fr(w)[f] - n >= 0,
           NEW t, t = take(w, f, n), NEW y, y = x + n
    PROVE  /\ Yard(t, y, mv) /\ SameTop(w, t) /\ SameChain(w, t) /\ SameJobs(w, t)
           /\ Adds(Fr(w), Rs(w), Fr(t), Rs(t), f, n)
<1>1. w \in Memo /\ Book(w, Nil) /\ Ledger(w) /\ w.use /\ w.tail = w.next - 1 /\ Opened(w)
  BY DEF Yard
<1>2. /\ t \in Memo /\ SameTop(w, t) /\ SameChain(w, t) /\ SameJobs(w, t)
      /\ t.resv = w.resv + n /\ SameFiles(w, t)
      /\ Adds(Fr(w), Rs(w), Fr(t), Rs(t), f, n)
  BY <1>1, TakeOf
<1>20. Elsewhere(w, t, {f})
  BY <1>1, TakeElse
<1>3. t.cur = w.cur /\ t.tail = w.tail /\ t.next = w.next /\ t.use = w.use /\ t.job = w.job
  BY <1>2 DEF SameTop, SameChain, SameJobs
<1>4. f \in Files(w)
  BY YardFiles
<1>5. Book(t, Nil)
  <2>1. \A g \in Seqs : g \notin Files(w) => t.file[g] = w.file[g]
    BY <1>20, <1>4 DEF Elsewhere
  <2> QED
    BY <1>1, <1>2, <1>3, <2>1, BookSame
<1>6. Ledger(t)
  BY <1>1, <1>2, LedgerSame
<1>7. Opened(t)
  BY <1>1, <1>2, <1>3 DEF Opened, SameFiles, SameFile
<1>8. Room(t.cur, t.tail, Fr(t), Rs(t))
  <2>1. Room(w.cur, w.tail, Fr(w), Rs(w))
    BY DEF Yard
  <2>2. Room(w.cur, w.tail, Fr(t), Rs(t))
    BY <1>2, <2>1, RoomAdds
  <2> QED
    BY <1>3, <2>2
<1>9. IsSum(MaxSeq, Rs(t), t.resv)
  <2>1. IsSum(MaxSeq, Rs(w), w.resv) /\ MaxSeq \in Nat /\ Seqs = 1..MaxSeq
    BY WalConstants DEF Yard, Seqs
  <2>2. \A g \in Seqs : Rs(w)[g] \in Int
    BY <1>1, SpaceType
  <2>3. Rs(t)[f] = Rs(w)[f] + n /\ \A g \in Seqs : g # f => Rs(t)[g] = Rs(w)[g]
    BY <1>2 DEF Adds
  <2>4. IsSum(MaxSeq, Rs(t), w.resv + n)
    BY <2>1, <2>2, <2>3, SumChange
  <2> QED
    BY <1>2, <2>4
<1>10. t.resv = Claims(t) + y
  <2>1. PICK c \in Nat : c = Claims(w)
    BY ClaimsType DEF Yard
  <2>2. w.resv = c + x /\ Live(t) = Live(w) /\ w.resv \in Int
    BY <1>1, <1>3, <2>1, LiveSame, MemoType DEF Yard
  <2>3. Claims(t) = c
    BY <2>1, <2>2, ClaimsSame
  <2> QED
    BY <1>2, <2>1, <2>2, <2>3
<1>11. \A j \in Live(t) : t.job[j].file = Nil <=> j \in mv
  BY <1>3, LiveSame DEF Yard
<1>12. Yard(t, y, mv)
  <2>1. t.use /\ t.tail = t.next - 1
    BY <1>1, <1>3
  <2> QED
    BY <1>2, <1>5, <1>6, <1>7, <1>8, <1>9, <1>10, <1>11, <2>1 DEF Yard
<1> QED
  BY <1>2, <1>12

\* The jobs stay the same.
LEMMA YardSame ==
    ASSUME NEW w, NEW x, NEW mv, Yard(w, x, mv), NEW t \in Memo, Book(t, Nil), SameJobs(w, t),
           t.use = w.use, t.tail = t.next - 1, Opened(t), Room(t.cur, t.tail, Fr(t), Rs(t)),
           IsSum(MaxSeq, Rs(t), t.resv), t.resv = w.resv
    PROVE  Yard(t, x, mv)
<1>1. t.job = w.job /\ Live(t) = Live(w)
  BY LiveSame DEF SameJobs
<1>2. Ledger(t)
  BY LedgerSame DEF Yard
<1>3. t.resv = Claims(t) + x
  BY <1>1, ClaimsSame DEF Yard
<1>4. \A j \in Live(t) : t.job[j].file = Nil <=> j \in mv
  BY <1>1 DEF Yard
<1>5. t.use
  BY DEF Yard
<1> QED
  BY <1>2, <1>3, <1>4, <1>5 DEF Yard

LEMMA YardGrow ==
    ASSUME NEW w, NEW x, NEW mv, Yard(w, x, mv), w.next \in Seqs,
           w.tail = w.cur \/ Heavy(Rs(w), w.tail), NEW t, t = Grown(w)
    PROVE  /\ Yard(t, x, mv) /\ SameTop(w, t) /\ SameJobs(w, t) /\ Rs(t) = Rs(w)
           /\ t.tail = w.tail + 1 /\ t.tail = w.next /\ t.tail \in Seqs
           /\ Grows1(Fr(w), Fr(t), t.tail)
<1>1. w \in Memo /\ Book(w, Nil) /\ w.tail = w.next - 1 /\ Opened(w)
      /\ Room(w.cur, w.tail, Fr(w), Rs(w)) /\ IsSum(MaxSeq, Rs(w), w.resv)
  BY DEF Yard
<1>2. w.tail \in Nat /\ w.next \in Nat /\ w.cur \in Nat /\ w.cur <= w.tail
  BY <1>1, RoomType, MemoType
<1>3. /\ t \in Memo /\ SameTop(w, t) /\ SameJobs(w, t) /\ t.resv = w.resv
      /\ t.next = w.next + 1 /\ t.tail = w.next /\ t.file[w.next] = NewFile
  BY <1>1, GrownOf
<1>4. Elsewhere(w, t, {w.next})
  BY <1>1, GrownOf DEF Elsewhere
<1>5. Book(t, Nil) /\ w.file[w.next] = NoFile
  BY <1>1, GrownBook
<1>6. t.cur = w.cur /\ t.use = w.use
  BY <1>3 DEF SameTop
<1>7. t.tail = w.tail + 1 /\ t.tail = t.next - 1
  BY <1>1, <1>2, <1>3
<1>8. NewFile.resv = 0 /\ NewFile.free = Cap /\ NewFile.iswopen = TRUE
  BY DEF NewFile, Cap
<1>9. \A f \in Seqs : t.file[f].resv = w.file[f].resv
  <2>1. t.file[w.next].resv = 0 /\ w.file[w.next].resv = 0
    BY <1>3, <1>5, <1>8, NoFileType
  <2> QED
    BY <1>4, <2>1 DEF Elsewhere
<1>10. Rs(t) = Rs(w)
  BY <1>9 DEF Rs
<1>11. Grows1(Fr(w), Fr(t), w.next)
  <2>1. Fr(t) \in [Seqs -> Int] /\ \A f \in Seqs : Fr(t)[f] = t.file[f].free
    BY <1>3, SpaceType
  <2>2. \A f \in Seqs : Fr(w)[f] = w.file[f].free
    BY <1>1, SpaceType
  <2>3. Fr(t)[w.next] = Cap
    BY <1>3, <1>8, <2>1
  <2>4. \A f \in Seqs \ {w.next} : Fr(t)[f] = Fr(w)[f]
    BY <1>4, <2>1, <2>2 DEF Elsewhere
  <2> QED
    BY <2>1, <2>3, <2>4 DEF Grows1
<1>12. Room(t.cur, t.tail, Fr(t), Rs(t))
  <2>1. Cap >= 0
    <3>1. PICK n : n \in FullSizes
      BY WalConstants
    <3> QED
      BY <3>1, WalConstants DEF Cap
  <2>2. Grows1(Fr(w), Fr(t), w.tail + 1) /\ w.tail + 1 \in Seqs
    BY <1>3, <1>7, <1>11
  <2>3. Room(w.cur, w.tail + 1, Fr(t), Rs(w))
    BY <1>1, <2>1, <2>2, RoomGrow
  <2> QED
    BY <1>6, <1>7, <1>10, <2>3
<1>13. Opened(t)
  <2> SUFFICES ASSUME NEW f \in Seqs
               PROVE  t.file[f].iswopen <=> t.cur <= f /\ f <= t.tail
    BY DEF Opened
  <2>1. f \in Nat
    BY SeqsNat
  <2>2. CASE f = w.next
    <3>1. t.file[f].iswopen = TRUE
      BY <1>3, <1>8, <2>2
    <3>2. t.cur <= f /\ f <= t.tail
      BY <1>1, <1>2, <1>3, <1>6, <2>2
    <3> QED
      BY <3>1, <3>2
  <2>3. CASE f # w.next
    <3>1. t.file[f].iswopen = w.file[f].iswopen
      BY <1>4, <2>3 DEF Elsewhere
    <3>2. w.file[f].iswopen <=> w.cur <= f /\ f <= w.tail
      BY <1>1 DEF Opened
    <3>3. f <= w.tail <=> f <= t.tail
      BY <1>1, <1>2, <1>3, <2>1, <2>3
    <3> QED
      BY <1>6, <3>1, <3>2, <3>3
  <2> QED
    BY <2>2, <2>3
<1>14. Yard(t, x, mv)
  <2>1. IsSum(MaxSeq, Rs(t), t.resv)
    BY <1>1, <1>3, <1>10
  <2> QED
    BY <1>3, <1>5, <1>6, <1>7, <1>12, <1>13, <2>1, YardSame
<1> QED
  BY <1>3, <1>7, <1>10, <1>11, <1>14

LEMMA MoveElse ==
    ASSUME NEW w \in Memo, NEW to \in Seqs, NEW from \in Seqs, to # from, NEW n \in Int,
           NEW t, t = moveresv(w, to, from, n)
    PROVE  Elsewhere(w, t, {to, from})
BY MoveOf DEF Elsewhere

\* What moves from one file to another stays in the sum.
LEMMA SumShift ==
    ASSUME NEW fr, NEW rs, NEW fr2, NEW rs2, NEW to \in Seqs, NEW from \in Seqs, to # from,
           NEW k \in Int, Shift(fr, rs, fr2, rs2, to, from, k), rs \in [Seqs -> Int],
           NEW t \in Int, IsSum(MaxSeq, rs, t)
    PROVE  IsSum(MaxSeq, rs2, t)
<1>1. MaxSeq \in Nat /\ Seqs = 1..MaxSeq
  BY WalConstants DEF Seqs
<1>2. PICK g : g = [rs EXCEPT ![from] = @ - k]
  OBVIOUS
<1>3. g \in [Seqs -> Int] /\ g[from] = rs[from] + (-k) /\ g[to] = rs[to] /\ -k \in Int
      /\ \A i \in Seqs : i # from => g[i] = rs[i]
  BY <1>2
<1>4. \A i \in Seqs : rs[i] \in Int /\ g[i] \in Int
  BY <1>3
<1>5. IsSum(MaxSeq, g, t + (-k))
  BY <1>1, <1>3, <1>4, SumChange
<1>6. rs2[to] = g[to] + k /\ \A i \in Seqs : i # to => rs2[i] = g[i]
  <2>1. rs2[from] = rs[from] - k /\ rs2[to] = rs[to] + k
        /\ \A f \in Seqs \ {to, from} : rs2[f] = rs[f]
    BY DEF Shift
  <2> QED
    BY <1>3, <1>4, <2>1
<1>7. PICK u \in Int : u = t + (-k)
  OBVIOUS
<1>8. IsSum(MaxSeq, rs2, u + k)
  BY <1>1, <1>4, <1>5, <1>6, <1>7, SumChange
<1> QED
  BY <1>7, <1>8

LEMMA YardMove ==
    ASSUME NEW w, NEW x, NEW mv, Yard(w, x, mv), NEW to \in Seqs, NEW from \in Seqs, to # from,
           w.cur <= to, to <= w.tail, w.cur <= from, from <= w.tail, NEW k \in Int,
           NEW t, t = moveresv(w, to, from, k), Room(w.cur, w.tail, Fr(t), Rs(t))
    PROVE  Yard(t, x, mv) /\ SameTop(w, t) /\ SameChain(w, t) /\ SameJobs(w, t)
           /\ Shift(Fr(w), Rs(w), Fr(t), Rs(t), to, from, k)
<1>1. w \in Memo /\ Book(w, Nil) /\ w.tail = w.next - 1 /\ Opened(w)
      /\ IsSum(MaxSeq, Rs(w), w.resv)
  BY DEF Yard
<1>2. /\ t \in Memo /\ SameTop(w, t) /\ SameChain(w, t) /\ SameJobs(w, t)
      /\ t.resv = w.resv /\ SameFiles(w, t)
      /\ Shift(Fr(w), Rs(w), Fr(t), Rs(t), to, from, k)
  BY <1>1, MoveOf
<1>3. Elsewhere(w, t, {to, from})
  BY <1>1, MoveElse
<1>4. t.cur = w.cur /\ t.tail = w.tail /\ t.next = w.next /\ t.use = w.use /\ t.job = w.job
  BY <1>2 DEF SameTop, SameChain, SameJobs
<1>5. to \in Files(w) /\ from \in Files(w)
  BY YardFiles
<1>6. Book(t, Nil)
  <2>1. \A g \in Seqs : g \notin Files(w) => t.file[g] = w.file[g]
    BY <1>3, <1>5 DEF Elsewhere
  <2> QED
    BY <1>1, <1>2, <1>4, <2>1, BookSame
<1>7. Opened(t)
  BY <1>1, <1>2, <1>4 DEF Opened, SameFiles, SameFile
<1>8. IsSum(MaxSeq, Rs(t), t.resv)
  <2>1. Rs(w) \in [Seqs -> Int] /\ w.resv \in Int
    BY <1>1, SpaceType, MemoType
  <2> QED
    BY <1>1, <1>2, <2>1, SumShift
<1>9. Room(t.cur, t.tail, Fr(t), Rs(t)) /\ t.tail = t.next - 1
  BY <1>1, <1>4
<1>10. Yard(t, x, mv)
  BY <1>2, <1>4, <1>6, <1>7, <1>8, <1>9, YardSame
<1> QED
  BY <1>2, <1>10

LEMMA YardNext ==
    ASSUME NEW w, NEW x, NEW mv, Yard(w, x, mv), w.cur < w.tail, Rs(w)[w.cur] = 0,
           NEW t, t = usenext(w)
    PROVE  /\ Yard(t, x, mv) /\ SameJobs(w, t) /\ t.cur = w.cur + 1 /\ t.tail = w.tail
           /\ Rs(t) = Rs(w) /\ Fr(t)[w.tail] = Fr(w)[w.tail] /\ t.use = w.use
<1>1. w \in Memo /\ Book(w, Nil) /\ w.tail = w.next - 1 /\ Opened(w)
      /\ IsSum(MaxSeq, Rs(w), w.resv) /\ Room(w.cur, w.tail, Fr(w), Rs(w))
  BY DEF Yard
<1>2. NonNeg(w)
  BY YardNonNeg
<1>3. /\ t \in Memo /\ Book(t, Nil) /\ SameJobs(w, t) /\ t.use = w.use
      /\ t.cur = w.cur + 1 /\ t.tail = w.tail /\ t.next = w.next /\ t.resv = w.resv
      /\ Opened(t) /\ Rs(t) = Rs(w) /\ Fr(t)[w.tail] = Fr(w)[w.tail]
      /\ Room(t.cur, t.tail, Fr(t), Rs(t))
  BY <1>1, <1>2, NextOf
<1>4. IsSum(MaxSeq, Rs(t), t.resv) /\ t.tail = t.next - 1
  BY <1>1, <1>3
<1>5. Yard(t, x, mv)
  BY <1>3, <1>4, YardSame
<1> QED
  BY <1>3, <1>5

\* The fields that commands do not set.
SameFrame(w, t) ==
    t.use = w.use /\ t.cur = w.cur /\ t.tail = w.tail /\ t.next = w.next

\* Nothing changes for the other jobs.
Others(w, t, j) == \A i \in Ids \ {j} : t.job[i] = w.job[i]

\* What holds of the files of a log that is in use.
Shelf(w) ==
    /\ w \in Memo /\ Book(w, Nil) /\ Opened(w) /\ Room(w.cur, w.tail, Fr(w), Rs(w))

\* filermjob changes no space from the current file on.
LEMMA RemoveSpace ==
    ASSUME NEW w, Shelf(w), NEW j \in Ids, w.job[j].file # Nil, NEW t, t = filermjob(w, j)
    PROVE  /\ Shelf(t) /\ SameFrame(w, t) /\ Rs(t) = Rs(w) /\ t.resv = w.resv
           /\ t.next_id = w.next_id /\ t.alive = w.alive - w.job[j].walused
           /\ t.job[j] = Loose(w.job[j]) /\ Others(w, t, j)
<1>1. w \in Memo /\ Book(w, Nil) /\ Opened(w) /\ Room(w.cur, w.tail, Fr(w), Rs(w))
  BY DEF Shelf
<1>2. PICK u : /\ Changed(w, u, j, Loose(w.job[j]), -w.job[j].walused) /\ SameChain(w, u)
               /\ SameSpace(w, u) /\ Book(u, Nil) /\ Trimmed(u, t)
  BY <1>1, RemoveOf
<1>3. u \in Memo /\ u.use = w.use /\ u.cur = w.cur /\ u.next_id = w.next_id /\ u.resv = w.resv
      /\ u.tail = w.tail /\ u.next = w.next /\ u.job[j] = Loose(w.job[j]) /\ Others(w, u, j)
  BY <1>2 DEF Changed, SameTop, SameChain, Others
<1>4. u.alive = w.alive - w.job[j].walused
  <2>1. w.job[j].walused \in Nat /\ w.alive \in Int
    BY <1>1, JobType, MemoType
  <2> QED
    BY <1>2, <2>1 DEF Changed
<1>5. Fr(u) = Fr(w) /\ Rs(u) = Rs(w)
  BY <1>2 DEF SameSpace, Fr, Rs
<1>6. Opened(u)
  BY <1>1, <1>2, <1>3 DEF Opened, SameSpace
<1>7. Room(u.cur, u.tail, Fr(u), Rs(u))
  BY <1>1, <1>3, <1>5
<1>8. /\ t.tail = u.tail /\ t.cur = u.cur /\ t.next = u.next /\ Opened(t)
      /\ Rs(t) = Rs(u) /\ Room(t.cur, t.tail, Fr(t), Rs(t))
  BY <1>2, <1>3, <1>6, <1>7, TrimSpace
<1>9. t \in Memo /\ t.use = u.use /\ t.next_id = u.next_id /\ t.job = u.job /\ t.alive = u.alive
      /\ t.resv = u.resv
  BY <1>2 DEF Trimmed, SameTop, SameJobs
<1>10. Book(t, Nil)
  BY <1>2, <1>3, TrimBook
<1>11. Others(w, t, j)
  BY <1>3, <1>9 DEF Others
<1> QED
  BY <1>3, <1>4, <1>5, <1>8, <1>9, <1>10, <1>11 DEF Shelf, SameFrame

LEMMA YardShelf ==
    ASSUME NEW w, NEW x, NEW mv, Yard(w, x, mv)
    PROVE  Shelf(w)
BY DEF Yard, Shelf

\* The job stays alive while it has no file.
LEMMA YardRemove ==
    ASSUME NEW w, NEW x, NEW mv, Yard(w, x, mv), NEW j \in Live(w), w.job[j].file # Nil,
           NEW t, t = filermjob(w, j)
    PROVE  /\ Yard(t, x, mv \cup {j}) /\ SameFrame(w, t) /\ Rs(t) = Rs(w)
           /\ t.next_id = w.next_id /\ t.job[j] = Loose(w.job[j]) /\ Others(w, t, j)
           /\ Live(t) = Live(w)
<1>1. w \in Memo /\ Ledger(w) /\ w.use /\ w.tail = w.next - 1 /\ Shelf(w)
      /\ IsSum(MaxSeq, Rs(w), w.resv) /\ spent.spare \in Nat /\ w.resv = Claims(w) + x
  BY YardShelf DEF Yard
<1>2. j \in Ids /\ w.job[j].state \in LiveStates
  BY DEF Live
<1>3. /\ Shelf(t) /\ SameFrame(w, t) /\ Rs(t) = Rs(w) /\ t.resv = w.resv
      /\ t.next_id = w.next_id /\ t.alive = w.alive - w.job[j].walused
      /\ t.job[j] = Loose(w.job[j]) /\ Others(w, t, j)
  BY <1>1, <1>2, RemoveSpace
<1>4. t \in Memo /\ w.job[j] \in JobRec /\ w.job[j].walused \in Nat /\ w.alive \in Int
      /\ w.next_id \in Nat
  BY <1>1, <1>2, <1>3, JobType, MemoType DEF Shelf
<1>5. /\ t.job[j].file = Nil /\ t.job[j].walused = 0 /\ t.job[j].state = w.job[j].state
      /\ t.job[j].size = w.job[j].size
  BY <1>3, <1>4, LooseOf
<1>6. Live(t) = Live(w)
  BY <1>3, <1>5 DEF Live, Others
<1>7. Ledger(t)
  <2>1. JobOk(w, j)
    BY <1>1, <1>2 DEF Ledger
  <2>2. w.job[j].state # "none" /\ ~(j >= w.next_id)
    BY <1>2, <2>1 DEF LiveStates, JobOk
  <2>3. JobOk(t, j)
    BY <1>3, <1>5, <2>1, <2>2 DEF JobOk
  <2>4. PICK d \in Int : d = -w.job[j].walused
    BY <1>4
  <2>5. t.job[j].walused = w.job[j].walused + d /\ t.alive = w.alive + d
    BY <1>3, <1>4, <1>5, <2>4
  <2>6. t.next_id >= w.next_id /\ \A i \in Ids \ {j} : t.job[i] = w.job[i]
    BY <1>3, <1>4 DEF Others
  <2> QED
    BY <1>1, <1>2, <1>4, <2>3, <2>5, <2>6, LedgerChange
<1>8. \A i \in Live(t) : t.job[i].file = Nil <=> i \in mv \cup {j}
  <2> SUFFICES ASSUME NEW i \in Live(w) PROVE t.job[i].file = Nil <=> i \in mv \cup {j}
    BY <1>6
  <2>1. CASE i = j
    BY <1>5, <2>1
  <2>2. CASE i # j
    <3>1. t.job[i] = w.job[i]
      BY <1>3, <2>2 DEF Others, Live
    <3>2. w.job[i].file = Nil <=> i \in mv
      BY DEF Yard
    <3> QED
      BY <2>2, <3>1, <3>2
  <2> QED
    BY <2>1, <2>2
<1>9. Yard(t, x, mv \cup {j})
  <2>1. t.use /\ t.tail = t.next - 1
    BY <1>1, <1>3 DEF SameFrame
  <2>2. t \in Memo /\ Book(t, Nil) /\ Opened(t) /\ Room(t.cur, t.tail, Fr(t), Rs(t))
    BY <1>3 DEF Shelf
  <2>3. IsSum(MaxSeq, Rs(t), t.resv) /\ t.resv = Claims(t) + x
    BY <1>1, <1>3, <1>6, ClaimsSame
  <2> QED
    BY <1>7, <1>8, <2>1, <2>2, <2>3 DEF Yard
<1> QED
  BY <1>3, <1>6, <1>9

\* Writing takes bytes that are reserved.
LEMMA WriteSpace ==
    ASSUME NEW w, Shelf(w), NEW j \in Ids, NEW n \in Nat, Rs(w)[w.cur] >= n,
           IsSum(MaxSeq, Rs(w), w.resv), NEW t, t = filewrite(w, j, n)
    PROVE  /\ Shelf(t) /\ SameFrame(w, t) /\ Rs(t) = [Rs(w) EXCEPT ![w.cur] = @ - n]
           /\ t.resv = w.resv - n /\ t.next_id = w.next_id /\ t.alive = w.alive + n
           /\ t.job[j] = Heavier(w.job[j], w.job[j].walused + n) /\ Others(w, t, j)
           /\ IsSum(MaxSeq, Rs(t), t.resv)
<1>1. w \in Memo /\ Book(w, Nil) /\ Opened(w) /\ Room(w.cur, w.tail, Fr(w), Rs(w))
  BY DEF Shelf
<1>2. w.cur \in Seqs /\ w.cur \in Nat /\ w.tail \in Nat /\ w.cur <= w.tail
  BY <1>1, RoomType
<1>3. /\ t \in Memo /\ SameTop(w, t) /\ SameChain(w, t) /\ SameFiles(w, t)
      /\ t.resv = w.resv - n /\ t.alive = w.alive + n
      /\ Fr(t) = Fr(w) /\ Rs(t) = [Rs(w) EXCEPT ![w.cur] = @ - n]
      /\ t.job[j] = Heavier(w.job[j], w.job[j].walused + n)
  BY <1>1, <1>2, WriteOf
<1>4. Others(w, t, j) /\ Elsewhere(w, t, {w.cur})
  BY <1>1, <1>2, WriteOf DEF Others, Elsewhere
<1>5. SameFrame(w, t) /\ t.next_id = w.next_id
  BY <1>3 DEF SameTop, SameChain, SameFrame
<1>6. w.cur \in Files(w)
  <2>1. w.file[w.cur].iswopen
    BY <1>1, <1>2 DEF Opened
  <2>2. Gone(w, w.cur, Nil)
    BY <1>1, <1>2 DEF Book
  <2>3. w.file[w.cur] # NoFile
    BY <2>1 DEF NoFile
  <2> QED
    BY <2>2, <2>3 DEF Gone
<1>7. Book(t, Nil)
  <2>1. \A g \in Seqs : g \notin Files(w) => t.file[g] = w.file[g]
    BY <1>4, <1>6 DEF Elsewhere
  <2>2. t.job[j].file = w.job[j].file
    <3>1. w.job[j] \in JobRec /\ w.job[j].walused + n \in Nat
      BY <1>1, JobType
    <3> QED
      BY <1>3, <3>1, HeavierOf, SMTT(40)
  <2>3. \A i \in Ids : t.job[i].file = w.job[i].file
    BY <1>4, <2>2 DEF Others
  <2> QED
    BY <1>1, <1>3, <2>1, <2>3, BookSame
<1>8. Opened(t)
  BY <1>1, <1>3, <1>5 DEF Opened, SameFiles, SameFile, SameFrame
<1>9. Room(t.cur, t.tail, Fr(t), Rs(t))
  <2>1. Room(w.cur, w.tail, Fr(w), Rs(t))
    BY <1>1, <1>3, RoomWrite
  <2> QED
    BY <1>3, <1>5, <2>1 DEF SameFrame
<1>10. IsSum(MaxSeq, Rs(t), t.resv)
  <2>1. MaxSeq \in Nat /\ Seqs = 1..MaxSeq
    BY WalConstants DEF Seqs
  <2>2. PICK d \in Int : d = -n
    OBVIOUS
  <2>3. Rs(w) \in [Seqs -> Int] /\ w.resv \in Int
    BY <1>1, SpaceType, MemoType
  <2>4. \A i \in Seqs : Rs(w)[i] \in Int
    BY <2>3
  <2>5. Rs(t)[w.cur] = Rs(w)[w.cur] + d /\ \A i \in Seqs : i # w.cur => Rs(t)[i] = Rs(w)[i]
    BY <1>2, <1>3, <2>2, <2>3
  <2>6. IsSum(MaxSeq, Rs(t), w.resv + d)
    BY <1>2, <2>1, <2>4, <2>5, SumChange, ZenonT(40)
  <2> QED
    BY <1>3, <2>2, <2>3, <2>6
<1> QED
  BY <1>3, <1>4, <1>5, <1>7, <1>8, <1>9, <1>10 DEF Shelf

\* A record of a job with a file is written.
LEMMA YardWrite ==
    ASSUME NEW w, NEW x \in Int, NEW mv, Yard(w, x, mv), NEW j \in Live(w), w.job[j].file # Nil,
           NEW n \in Nat, Rs(w)[w.cur] >= n, NEW t, t = filewrite(w, j, n), NEW y, y = x - n
    PROVE  /\ Yard(t, y, mv) /\ SameFrame(w, t) /\ Rs(t) = [Rs(w) EXCEPT ![w.cur] = @ - n]
           /\ t.next_id = w.next_id /\ Others(w, t, j) /\ Live(t) = Live(w)
           /\ t.job[j] = Heavier(w.job[j], w.job[j].walused + n)
<1>1. w \in Memo /\ Ledger(w) /\ w.use /\ w.tail = w.next - 1 /\ Shelf(w)
      /\ IsSum(MaxSeq, Rs(w), w.resv) /\ spent.spare \in Nat /\ w.resv = Claims(w) + x
  BY YardShelf DEF Yard
<1>2. j \in Ids /\ w.job[j].state \in LiveStates
  BY DEF Live
<1>3. /\ Shelf(t) /\ SameFrame(w, t) /\ Rs(t) = [Rs(w) EXCEPT ![w.cur] = @ - n]
      /\ t.resv = w.resv - n /\ t.next_id = w.next_id /\ t.alive = w.alive + n
      /\ t.job[j] = Heavier(w.job[j], w.job[j].walused + n) /\ Others(w, t, j)
      /\ IsSum(MaxSeq, Rs(t), t.resv)
  BY <1>1, <1>2, WriteSpace
<1>4. t \in Memo /\ w.job[j] \in JobRec /\ w.job[j].walused \in Nat /\ w.alive \in Int
      /\ w.next_id \in Nat /\ w.resv \in Int
  BY <1>1, <1>2, <1>3, JobType, MemoType DEF Shelf
<1>5. /\ t.job[j].file = w.job[j].file /\ t.job[j].walused = w.job[j].walused + n
      /\ t.job[j].state = w.job[j].state /\ t.job[j].size = w.job[j].size
  <2>1. PICK q \in Nat : q = w.job[j].walused + n
    BY <1>4
  <2>2. t.job[j] = Heavier(w.job[j], q)
    BY <1>3, <2>1
  <2> QED
    <3>1. PICK k \in JobRec : k = w.job[j]
      BY <1>4
    <3>2. PICK h : h = Heavier(k, q)
      OBVIOUS
    <3>3. /\ h.file = k.file /\ h.walused = q /\ h.state = k.state /\ h.size = k.size
      BY <3>2, HeavierOf
    <3> QED
      BY <2>1, <2>2, <3>1, <3>2, <3>3
<1>6. Live(t) = Live(w)
  BY <1>3, <1>5 DEF Live, Others
<1>7. Ledger(t)
  <2>1. JobOk(w, j)
    BY <1>1, <1>2 DEF Ledger
  <2>2. w.job[j].state # "none" /\ ~(j >= w.next_id)
    BY <1>2, <2>1 DEF LiveStates, JobOk
  <2>3. JobOk(t, j)
    BY <1>3, <1>5, <2>1, <2>2 DEF JobOk
  <2>4. t.next_id >= w.next_id /\ \A i \in Ids \ {j} : t.job[i] = w.job[i]
    BY <1>3, <1>4 DEF Others
  <2> QED
    BY <1>1, <1>2, <1>3, <1>4, <1>5, <2>3, <2>4, LedgerChange
<1>8. \A i \in Live(t) : t.job[i].file = Nil <=> i \in mv
  <2> SUFFICES ASSUME NEW i \in Live(w) PROVE t.job[i].file = Nil <=> i \in mv
    BY <1>6
  <2>1. t.job[i].file = w.job[i].file
    BY <1>3, <1>5 DEF Others, Live
  <2>2. w.job[i].file = Nil <=> i \in mv
    BY DEF Yard
  <2> QED
    BY <2>1, <2>2
<1>9. t.resv = Claims(t) + y
  <2>1. PICK c \in Nat : c = Claims(w)
    BY <1>1, ClaimsType
  <2>2. Claims(t) = c
    BY <1>6, <2>1, ClaimsSame
  <2> QED
    BY <1>1, <1>3, <2>1, <2>2
<1>10. Yard(t, y, mv)
  <2>1. t.use /\ t.tail = t.next - 1
    BY <1>1, <1>3 DEF SameFrame
  <2>2. t \in Memo /\ Book(t, Nil) /\ Opened(t) /\ Room(t.cur, t.tail, Fr(t), Rs(t))
    BY <1>3 DEF Shelf
  <2> QED
    BY <1>3, <1>7, <1>8, <1>9, <2>1, <2>2 DEF Yard
<1> QED
  BY <1>3, <1>6, <1>10

\* The files do not know the state of a job.
LEMMA JobShelf ==
    ASSUME NEW w, Shelf(w), NEW j \in Ids, NEW t \in Memo, SameChain(w, t), t.cur = w.cur,
           t.file = w.file, Others(w, t, j), t.job[j].file = w.job[j].file
    PROVE  Shelf(t) /\ Rs(t) = Rs(w) /\ Fr(t) = Fr(w)
<1>1. Fr(t) = Fr(w) /\ Rs(t) = Rs(w)
  BY DEF Fr, Rs
<1>2. Book(t, Nil)
  <2>1. SameFiles(w, t)
    BY DEF SameFiles, SameFile
  <2>2. \A i \in Ids : t.job[i].file = w.job[i].file
    BY DEF Others
  <2> QED
    BY <2>1, <2>2, BookSame DEF Shelf
<1>3. Opened(t) /\ Room(t.cur, t.tail, Fr(t), Rs(t))
  BY <1>1 DEF Shelf, Opened, SameChain
<1> QED
  BY <1>1, <1>2, <1>3 DEF Shelf

LEMMA SetJobElse ==
    ASSUME NEW w \in Memo, NEW j \in Ids, NEW k \in JobRec, NEW t, t = SetJob(w, j, k)
    PROVE  Others(w, t, j)
BY SetJobOf DEF Others

\* A job gets another state.
LEMMA YardState ==
    ASSUME NEW w, NEW x, NEW mv, Yard(w, x, mv), NEW j \in Live(w), NEW s \in LiveStates,
           NEW k \in JobRec, k.state = s, k.file = w.job[j].file, k.walused = w.job[j].walused,
           k.size = w.job[j].size, NEW t, t = SetJob(w, j, k)
    PROVE  /\ Yard(t, x, mv) /\ SameFrame(w, t) /\ Rs(t) = Rs(w) /\ t.next_id = w.next_id
           /\ t.job[j] = k /\ Others(w, t, j) /\ Live(t) = Live(w)
<1>1. w \in Memo /\ Ledger(w) /\ w.use /\ w.tail = w.next - 1 /\ Shelf(w)
      /\ IsSum(MaxSeq, Rs(w), w.resv) /\ spent.spare \in Nat /\ w.resv = Claims(w) + x
  BY YardShelf DEF Yard
<1>2. j \in Ids /\ w.job[j].state \in LiveStates
  BY DEF Live
<1>3. /\ t \in Memo /\ SameTop(w, t) /\ SameChain(w, t) /\ t.resv = w.resv
      /\ t.alive = w.alive /\ t.file = w.file /\ t.job[j] = k
  BY <1>1, <1>2, SetJobOf
<1>4. Others(w, t, j)
  BY <1>1, <1>2, SetJobElse
<1>5. SameFrame(w, t) /\ t.next_id = w.next_id /\ t.cur = w.cur
  BY <1>3 DEF SameTop, SameChain, SameFrame
<1>6. Shelf(t) /\ Rs(t) = Rs(w)
  BY <1>1, <1>2, <1>3, <1>4, <1>5, JobShelf
<1>7. Live(t) = Live(w)
  BY <1>2, <1>3, <1>4 DEF Live, Others
<1>8. Ledger(t)
  <2>1. JobOk(w, j)
    BY <1>1, <1>2 DEF Ledger
  <2>2. w.job[j].state # "none" /\ ~(j >= w.next_id) /\ k.state # "none"
    BY <1>2, <2>1 DEF LiveStates, JobOk
  <2>3. JobOk(t, j)
    BY <1>3, <1>5, <2>1, <2>2 DEF JobOk
  <2>4. w.next_id \in Nat /\ w.alive \in Int /\ w.job[j].walused \in Nat
    BY <1>1, <1>2, MemoType, JobType
  <2>5. t.next_id >= w.next_id /\ \A i \in Ids \ {j} : t.job[i] = w.job[i]
    BY <1>4, <1>5, <2>4 DEF Others
  <2>6. t.job[j].walused = w.job[j].walused + 0 /\ t.alive = w.alive + 0
    BY <1>3, <2>4
  <2> QED
    BY <1>1, <1>2, <1>3, <2>3, <2>5, <2>6, LedgerChange
<1>9. \A i \in Live(t) : t.job[i].file = Nil <=> i \in mv
  <2> SUFFICES ASSUME NEW i \in Live(w) PROVE t.job[i].file = Nil <=> i \in mv
    BY <1>7
  <2>1. t.job[i].file = w.job[i].file
    BY <1>3, <1>4 DEF Others, Live
  <2>2. w.job[i].file = Nil <=> i \in mv
    BY DEF Yard
  <2> QED
    BY <2>1, <2>2
<1>10. Yard(t, x, mv)
  <2>1. t.use /\ t.tail = t.next - 1
    BY <1>1, <1>5 DEF SameFrame
  <2>2. t \in Memo /\ Book(t, Nil) /\ Opened(t) /\ Room(t.cur, t.tail, Fr(t), Rs(t))
    BY <1>6 DEF Shelf
  <2>3. IsSum(MaxSeq, Rs(t), t.resv) /\ t.resv = Claims(t) + x
    BY <1>1, <1>3, <1>6, <1>7, ClaimsSame
  <2> QED
    BY <1>8, <1>9, <2>1, <2>2, <2>3 DEF Yard
<1> QED
  BY <1>3, <1>4, <1>5, <1>6, <1>7, <1>10

\* One job more or less.
LEMMA LiveMore ==
    ASSUME spent.spare \in Nat, NEW w, NEW t, NEW j, j \notin Live(w), Live(t) = Live(w) \cup {j}
    PROVE  Claims(t) = Claims(w) + Z
<1>1. IsFiniteSet(Live(w)) /\ Cardinality(Live(w)) \in Nat
  BY LiveFinite
<1>2. Cardinality(Live(t)) = Cardinality(Live(w)) + 1
  BY <1>1, FS_AddElement
<1>3. PICK a \in Nat : a = Cardinality(Live(w)) /\ Cardinality(Live(t)) = a + 1
  BY <1>1, <1>2
<1>4. Z * (a + 1) = Z * a + Z /\ Z * a \in Nat /\ Z \in Nat
  BY WalConstants
<1>5. PICK b \in Nat : b = Z * a
  BY <1>4
<1> QED
  BY <1>3, <1>4, <1>5 DEF Claims

SetNew(w, j, k) == [w EXCEPT !.job[j] = k, !.next_id = @ + 1]

LEMMA SetNewOf ==
    ASSUME NEW w \in Memo, NEW j \in Ids, NEW k \in JobRec, NEW t, t = SetNew(w, j, k)
    PROVE  /\ t \in Memo /\ SameChain(w, t) /\ t.resv = w.resv /\ t.cur = w.cur /\ t.use = w.use
           /\ t.alive = w.alive /\ t.file = w.file /\ t.next_id = w.next_id + 1
           /\ t.job[j] = k /\ Others(w, t, j)
<1>1. PICK u : u = SetJob(w, j, k)
  OBVIOUS
<1>2. /\ u \in Memo /\ SameTop(w, u) /\ SameChain(w, u) /\ u.resv = w.resv
      /\ u.alive = w.alive /\ u.file = w.file /\ u.job[j] = k /\ Others(w, u, j)
  BY <1>1, SetJobOf, SetJobElse
<1>3. PICK n \in Nat \ {0} : n = w.next_id + 1
  BY MemoType
<1>4. t = [u EXCEPT !.next_id = n]
  BY <1>1, <1>3 DEF SetJob, SetNew, Memo
<1>5. /\ t \in Memo /\ SameChain(u, t) /\ t.resv = u.resv /\ t.cur = u.cur /\ t.use = u.use
      /\ t.alive = u.alive /\ t.file = u.file /\ t.next_id = n /\ t.job = u.job
  BY <1>2, <1>4 DEF Memo, SameChain
<1> QED
  BY <1>2, <1>3, <1>5 DEF SameTop, SameChain, Others

NextJob(w, j) == j \in Ids /\ j = w.next_id

\* put has made a job.
LEMMA YardNew ==
    ASSUME NEW w, NEW x \in Int, Yard(w, x, {}), NEW j \in Ids, NextJob(w, j), NEW k \in JobRec,
           k.state \in LiveStates, k.size \in FullSizes, k.file = Nil, k.walused = 0,
           NEW t, t = SetNew(w, j, k), NEW y, y = x - Z
    PROVE  /\ Yard(t, y, {j}) /\ SameFrame(w, t) /\ Rs(t) = Rs(w) /\ t.next_id = w.next_id + 1
           /\ t.job[j] = k /\ Others(w, t, j) /\ j \in Live(t)
<1> PICK mv : mv = {}
  OBVIOUS
<1>20. Yard(w, x, mv)
  OBVIOUS
<1>1. w \in Memo /\ Ledger(w) /\ w.use /\ w.tail = w.next - 1 /\ Shelf(w)
      /\ IsSum(MaxSeq, Rs(w), w.resv) /\ spent.spare \in Nat /\ w.resv = Claims(w) + x
  <2>1. w \in Memo /\ Ledger(w) /\ w.use /\ w.tail = w.next - 1
      /\ IsSum(MaxSeq, Rs(w), w.resv) /\ spent.spare \in Nat /\ w.resv = Claims(w) + x
    BY <1>20 DEF Yard
  <2>2. Shelf(w)
    BY <1>20, YardShelf
  <2> QED
    BY <2>1, <2>2
<1>2. /\ t \in Memo /\ SameChain(w, t) /\ t.resv = w.resv /\ t.cur = w.cur /\ t.use = w.use
      /\ t.alive = w.alive /\ t.file = w.file /\ t.next_id = w.next_id + 1
      /\ t.job[j] = k /\ Others(w, t, j)
  <2>1. w \in Memo
    BY <1>1
  <2>2. /\ t \in Memo /\ SameChain(w, t) /\ t.resv = w.resv /\ t.cur = w.cur /\ t.use = w.use
        /\ t.alive = w.alive
    BY <2>1, SetNewOf
  <2>3. /\ t.file = w.file /\ t.next_id = w.next_id + 1
    BY <2>1, SetNewOf
  <2>4. t.job[j] = k
    BY <2>1, SetNewOf
  <2>5. Others(w, t, j)
    BY <2>1, SetNewOf
  <2> QED
    BY <2>2, <2>3, <2>4, <2>5
<1>3. w.job[j] = NoJob
  <2>1. JobOk(w, j)
    BY <1>1 DEF Ledger
  <2>2. j >= w.next_id
    BY WalConstants DEF Ids, NextJob
  <2> QED
    BY <2>1, <2>2 DEF JobOk
<1>4. NoJob.file = Nil /\ NoJob.walused = 0 /\ NoJob.state = "none"
  BY DEF NoJob
<1>5. Shelf(t) /\ Rs(t) = Rs(w)
  BY <1>1, <1>2, <1>3, <1>4, JobShelf
<1>6. j \notin Live(w) /\ Live(t) = Live(w) \cup {j}
  BY <1>2, <1>3, <1>4 DEF Live, Others, LiveStates
<1>7. Ledger(t)
  <2>1. w.next_id \in Nat /\ w.alive \in Int
    BY <1>1, MemoType
  <2>2. ~(j >= t.next_id) /\ k.state # "none"
    BY <1>2, <2>1 DEF LiveStates, NextJob
  <2>3. JobOk(t, j)
    BY <1>2, <2>2 DEF JobOk
  <2>5. t.next_id >= w.next_id /\ \A i \in Ids \ {j} : t.job[i] = w.job[i]
    BY <1>2, <2>1 DEF Others
  <2>6. t.job[j].walused = w.job[j].walused + 0 /\ t.alive = w.alive + 0
    BY <1>2, <1>3, <1>4, <2>1
  <2> QED
    BY <1>1, <1>2, <2>3, <2>5, <2>6, LedgerChange
<1>8. \A i \in Live(t) : t.job[i].file = Nil <=> i \in {j}
  <2> SUFFICES ASSUME NEW i \in Live(t) PROVE t.job[i].file = Nil <=> i = j
    OBVIOUS
  <2>1. CASE i = j
    BY <1>2, <2>1
  <2>2. CASE i # j
    <3>1. i \in Live(w) /\ t.job[i] = w.job[i]
      BY <1>2, <1>6, <2>2 DEF Others, Live
    <3>2. w.job[i].file # Nil
      BY <3>1 DEF Yard
    <3> QED
      BY <2>2, <3>1, <3>2
  <2> QED
    BY <2>1, <2>2
<1>9. t.resv = Claims(t) + y
  <2>1. PICK c \in Nat : c = Claims(w)
    BY <1>1, ClaimsType
  <2>3. Claims(t) = Claims(w) + Z
    BY <1>1, <1>6, LiveMore
  <2>2. Claims(t) = c + Z /\ Z \in Int
    BY <2>1, <2>3, WalConstants
  <2> QED
    BY <1>1, <1>2, <2>1, <2>2
<1>10. SameFrame(w, t)
  BY <1>2 DEF SameChain, SameFrame
<1>11. Yard(t, y, {j})
  <2>1. t.use /\ t.tail = t.next - 1
    BY <1>1, <1>10 DEF SameFrame
  <2>2. t \in Memo /\ Book(t, Nil) /\ Opened(t) /\ Room(t.cur, t.tail, Fr(t), Rs(t))
    BY <1>5 DEF Shelf
  <2>3. IsSum(MaxSeq, Rs(t), t.resv)
    BY <1>1, <1>2, <1>5
  <2> QED
    BY <1>7, <1>8, <1>9, <2>1, <2>2, <2>3 DEF Yard
<1> QED
  BY <1>2, <1>5, <1>6, <1>10, <1>11

\* The full record of a job goes to the current file.
LEMMA YardAdd ==
    ASSUME NEW w, NEW x, NEW j \in Live(w), Yard(w, x, {j}), NEW t, t = fileaddjob(w, w.cur, j)
    PROVE  /\ Yard(t, x, {}) /\ SameFrame(w, t) /\ Rs(t) = Rs(w) /\ t.next_id = w.next_id
           /\ t.job[j] = Placed(w.job[j], w.cur) /\ Others(w, t, j) /\ Live(t) = Live(w)
<1> PICK mv : mv = {j}
  OBVIOUS
<1>0. Yard(w, x, mv)
  OBVIOUS
<1>1. w \in Memo /\ Ledger(w) /\ w.use /\ w.tail = w.next - 1
      /\ IsSum(MaxSeq, Rs(w), w.resv) /\ spent.spare \in Nat /\ w.resv = Claims(w) + x
      /\ Book(w, Nil) /\ Opened(w) /\ Room(w.cur, w.tail, Fr(w), Rs(w))
  BY <1>0 DEF Yard
<1>2. j \in Ids /\ w.job[j].state \in LiveStates
  BY DEF Live
<1>3. w.job[j].file = Nil
  BY <1>0 DEF Yard
<1>4. w.cur \in Seqs /\ w.cur \in Files(w)
  BY <1>0, YardFiles, YardNonNeg
<1>5. PICK f : f = w.cur
  OBVIOUS
<1>6. /\ Changed(w, t, j, Placed(w.job[j], f), 0) /\ SameChain(w, t)
      /\ SameSpace(w, t) /\ Book(t, Nil)
  <2>1. t = fileaddjob(w, f, j) /\ f \in Seqs /\ f \in Files(w)
    BY <1>4, <1>5
  <2> QED
    BY <1>1, <1>2, <1>3, <2>1, AddOf
<1>7. /\ t \in Memo /\ SameTop(w, t) /\ t.resv = w.resv /\ t.alive = w.alive + 0
      /\ t.job[j] = Placed(w.job[j], f)
  BY <1>6 DEF Changed
<1>8. Others(w, t, j)
  BY <1>6 DEF Changed, Others
<1>9. SameFrame(w, t) /\ t.next_id = w.next_id
  BY <1>6, <1>7 DEF SameTop, SameChain, SameFrame
<1>10. Fr(t) = Fr(w) /\ Rs(t) = Rs(w) /\ Opened(t)
  BY <1>1, <1>6, <1>9 DEF SameSpace, Fr, Rs, Opened, SameFrame
<1>11. Room(t.cur, t.tail, Fr(t), Rs(t))
  BY <1>1, <1>9, <1>10 DEF SameFrame
<1>12. w.job[j] \in JobRec /\ w.job[j].walused \in Nat /\ w.alive \in Int /\ w.next_id \in Nat
  BY <1>1, <1>2, JobType, MemoType
<1>13. /\ t.job[j].file = f /\ t.job[j].walused = w.job[j].walused
       /\ t.job[j].state = w.job[j].state /\ t.job[j].size = w.job[j].size
  <2>1. f \in Seqs
    BY <1>4, <1>5
  <2>2. PICK k \in JobRec : k = w.job[j]
    BY <1>12
  <2>3. PICK h : h = Placed(k, f)
    OBVIOUS
  <2>4. h.file = f /\ h.walused = k.walused /\ h.state = k.state /\ h.size = k.size
    BY <2>1, <2>3, PlacedOf
  <2> QED
    BY <1>7, <2>2, <2>3, <2>4
<1>14. Live(t) = Live(w)
  BY <1>2, <1>8, <1>13 DEF Live, Others
<1>15. f # Nil
  BY <1>4, <1>5, SeqsNat, WalConstants DEF Seqs, Nil
<1>16. Ledger(t)
  <2>1. JobOk(w, j)
    BY <1>1, <1>2 DEF Ledger
  <2>2. w.job[j].state # "none" /\ ~(j >= w.next_id)
    BY <1>2, <2>1 DEF LiveStates, JobOk
  <2>3. JobOk(t, j)
    BY <1>9, <1>13, <1>15, <2>1, <2>2 DEF JobOk
  <2>4. t.next_id >= w.next_id /\ \A i \in Ids \ {j} : t.job[i] = w.job[i]
    BY <1>8, <1>9, <1>12 DEF Others
  <2>5. t.job[j].walused = w.job[j].walused + 0
    BY <1>12, <1>13
  <2> QED
    BY <1>1, <1>2, <1>7, <2>3, <2>4, <2>5, LedgerChange
<1>17. \A i \in Live(t) : t.job[i].file = Nil <=> i \in {}
  <2> SUFFICES ASSUME NEW i \in Live(w) PROVE t.job[i].file # Nil
    BY <1>14
  <2>1. CASE i = j
    BY <1>13, <1>15, <2>1
  <2>2. CASE i # j
    <3>1. t.job[i] = w.job[i]
      BY <1>8, <2>2 DEF Others, Live
    <3>2. w.job[i].file # Nil
      BY <1>0, <2>2 DEF Yard
    <3> QED
      BY <3>1, <3>2
  <2> QED
    BY <2>1, <2>2
<1>18. Yard(t, x, {})
  <2>1. t.use /\ t.tail = t.next - 1
    BY <1>1, <1>9 DEF SameFrame
  <2>2. IsSum(MaxSeq, Rs(t), t.resv) /\ t.resv = Claims(t) + x
    BY <1>1, <1>7, <1>10, <1>14, ClaimsSame
  <2> QED
    BY <1>6, <1>7, <1>10, <1>11, <1>16, <1>17, <2>1, <2>2 DEF Yard
<1> QED
  BY <1>5, <1>7, <1>8, <1>9, <1>10, <1>14, <1>18

LEMMA NoJobType == NoJob \in JobRec /\ NoJob.file = Nil /\ NoJob.walused = 0
                   /\ NoJob.state = "none" /\ NoJob.size = 0
BY DEF NoJob, JobRec, Bodies

\* The delete record of a job is written, and the job goes.
LEMMA YardDelete ==
    ASSUME NEW w, NEW x \in Int, NEW mv, mv = {}, Yard(w, x, mv), NEW j \in Live(w), Rs(w)[w.cur] >= Z,
           NEW k \in JobRec, k.file = w.job[j].file, k.walused = w.job[j].walused,
           NEW w1, w1 = SetJob(w, j, k), NEW w2, w2 = filewrite(w1, j, Z),
           NEW w3, w3 = filermjob(w2, j), NEW t, t = SetJob(w3, j, NoJob)
    PROVE  /\ Yard(t, x, mv) /\ SameFrame(w, t) /\ Rs(t) = [Rs(w) EXCEPT ![w.cur] = @ - Z]
           /\ t.next_id = w.next_id
<1>1. w \in Memo /\ Ledger(w) /\ w.use /\ w.tail = w.next - 1 /\ Shelf(w)
      /\ IsSum(MaxSeq, Rs(w), w.resv) /\ spent.spare \in Nat /\ w.resv = Claims(w) + x
  BY YardShelf DEF Yard
<1>2. j \in Ids /\ w.job[j].state \in LiveStates /\ Z \in Nat
  BY WalConstants DEF Live
<1>3. w.job[j].file # Nil
  BY DEF Yard
<1>4. w.alive \in Int /\ w.job[j].walused \in Nat /\ w.resv \in Int /\ w.next_id \in Nat
      /\ k.walused \in Nat
  BY <1>1, <1>2, MemoType, JobType
<1>5. /\ w1 \in Memo /\ SameTop(w, w1) /\ SameChain(w, w1) /\ w1.resv = w.resv
      /\ w1.alive = w.alive /\ w1.file = w.file /\ w1.job[j] = k
  BY <1>1, <1>2, SetJobOf
<1>6. Others(w, w1, j)
  BY <1>1, <1>2, SetJobElse
<1>7. SameFrame(w, w1) /\ w1.cur = w.cur /\ w1.next_id = w.next_id
  BY <1>5 DEF SameTop, SameChain, SameFrame
<1>8. Shelf(w1) /\ Rs(w1) = Rs(w)
  BY <1>1, <1>2, <1>5, <1>6, <1>7, JobShelf
<1>9. /\ Shelf(w2) /\ SameFrame(w1, w2) /\ Rs(w2) = [Rs(w1) EXCEPT ![w1.cur] = @ - Z]
      /\ w2.resv = w1.resv - Z /\ w2.next_id = w1.next_id /\ w2.alive = w1.alive + Z
      /\ w2.job[j] = Heavier(w1.job[j], w1.job[j].walused + Z) /\ Others(w1, w2, j)
      /\ IsSum(MaxSeq, Rs(w2), w2.resv)
  <2>1. Rs(w1)[w1.cur] >= Z /\ IsSum(MaxSeq, Rs(w1), w1.resv)
    BY <1>1, <1>5, <1>7, <1>8
  <2> QED
    BY <1>2, <1>8, <2>1, WriteSpace
<1>10. w2.job[j].file # Nil /\ w2.job[j].walused = w.job[j].walused + Z
  <2>1. PICK q \in Nat : q = k.walused + Z
    BY <1>2, <1>4
  <2>2. PICK h : h = Heavier(k, q)
    OBVIOUS
  <2>3. h.file = k.file /\ h.walused = q
    BY <2>2, HeavierOf
  <2>4. w2.job[j] = h
    BY <1>5, <1>9, <2>1, <2>2
  <2> QED
    BY <1>3, <2>1, <2>3, <2>4
<1>11. /\ Shelf(w3) /\ SameFrame(w2, w3) /\ Rs(w3) = Rs(w2) /\ w3.resv = w2.resv
       /\ w3.next_id = w2.next_id /\ w3.alive = w2.alive - w2.job[j].walused
       /\ w3.job[j] = Loose(w2.job[j]) /\ Others(w2, w3, j)
  BY <1>2, <1>9, <1>10, RemoveSpace
<1>12. w3 \in Memo /\ w2.job[j] \in JobRec
  BY <1>2, <1>9, <1>11, JobType DEF Shelf
<1>13. w3.job[j].file = Nil
  BY <1>11, <1>12, LooseOf
<1>14. /\ t \in Memo /\ SameTop(w3, t) /\ SameChain(w3, t) /\ t.resv = w3.resv
       /\ t.alive = w3.alive /\ t.file = w3.file /\ t.job[j] = NoJob
  BY <1>2, <1>12, NoJobType, SetJobOf
<1>15. Others(w3, t, j)
  BY <1>2, <1>12, NoJobType, SetJobElse
<1>16. SameFrame(w3, t) /\ t.cur = w3.cur /\ t.next_id = w3.next_id
  BY <1>14 DEF SameTop, SameChain, SameFrame
<1>17. Shelf(t) /\ Rs(t) = Rs(w3)
  BY <1>2, <1>11, <1>13, <1>14, <1>15, <1>16, NoJobType, JobShelf
<1>18. SameFrame(w, t) /\ t.next_id = w.next_id
  BY <1>7, <1>9, <1>11, <1>16 DEF SameFrame
<1>19. Others(w, t, j)
  BY <1>6, <1>9, <1>11, <1>15 DEF Others
<1>20. Rs(t) = [Rs(w) EXCEPT ![w.cur] = @ - Z]
  BY <1>7, <1>8, <1>9, <1>11, <1>17
<1>21. t.resv = w.resv - Z /\ t.alive = w.alive - w.job[j].walused
  <2>1. t.alive = (w.alive + Z) - (w.job[j].walused + Z)
    BY <1>5, <1>9, <1>10, <1>11, <1>14
  <2> QED
    BY <1>2, <1>4, <1>5, <1>9, <1>11, <1>14, <2>1
<1>22. j \notin Live(t) /\ Live(w) = Live(t) \cup {j}
  BY <1>2, <1>14, <1>19, NoJobType DEF Live, Others, LiveStates
<1>23. Ledger(t)
  <2>3. JobOk(t, j)
    BY <1>14, NoJobType DEF JobOk
  <2>4. t.next_id >= w.next_id /\ \A i \in Ids \ {j} : t.job[i] = w.job[i]
    BY <1>4, <1>18, <1>19 DEF Others
  <2>5. PICK d \in Int : d = -w.job[j].walused
    BY <1>4
  <2>6. t.job[j].walused = w.job[j].walused + d /\ t.alive = w.alive + d
    BY <1>4, <1>14, <1>21, <2>5, NoJobType
  <2> QED
    BY <1>1, <1>2, <1>14, <2>3, <2>4, <2>6, LedgerChange
<1>24. \A i \in Live(t) : t.job[i].file = Nil <=> i \in mv
  <2> SUFFICES ASSUME NEW i \in Live(t) PROVE t.job[i].file = Nil <=> i \in mv
    OBVIOUS
  <2>1. i \in Live(w) /\ i # j
    BY <1>22
  <2>2. t.job[i] = w.job[i]
    BY <1>19, <2>1 DEF Others, Live
  <2>3. w.job[i].file = Nil <=> i \in mv
    BY <2>1 DEF Yard
  <2> QED
    BY <2>2, <2>3
<1>25. t.resv = Claims(t) + x
  <2>1. PICK c \in Nat : c = Claims(t)
    BY <1>1, ClaimsType
  <2>2. Claims(w) = Claims(t) + Z
    BY <1>1, <1>22, LiveMore
  <2> QED
    BY <1>1, <1>2, <1>21, <2>1, <2>2
<1>26. Yard(t, x, mv)
  <2>1. t.use /\ t.tail = t.next - 1
    BY <1>1, <1>18 DEF SameFrame
  <2>2. t \in Memo /\ Book(t, Nil) /\ Opened(t) /\ Room(t.cur, t.tail, Fr(t), Rs(t))
    BY <1>17 DEF Shelf
  <2>3. IsSum(MaxSeq, Rs(t), t.resv)
    BY <1>9, <1>11, <1>14, <1>17
  <2> QED
    BY <1>23, <1>24, <1>25, <2>1, <2>2, <2>3 DEF Yard
<1> QED
  BY <1>18, <1>20, <1>26

-----------------------------------------------------------------------------
(* Writing what is reserved                                                *)

\* k of the n bytes are written.
LEMMA EvenWrite ==
    ASSUME NEW cur \in Seqs, NEW rs \in [Seqs -> Int], NEW n \in Int, NEW k \in Int,
           Even(cur, rs, n), rs[cur] >= n, NEW rs2, rs2 = [rs EXCEPT ![cur] = @ - k],
           NEW y, y = n - k
    PROVE  Even(cur, rs2, y) /\ rs2[cur] >= y
<1>1. rs[cur] \in Int
  OBVIOUS
<1>2. rs2[cur] = rs[cur] - k /\ \A f \in Seqs \ {cur} : rs2[f] = rs[f]
  OBVIOUS
<1>3. rs2[cur] - y = rs[cur] - n /\ rs2[cur] >= y
  BY <1>1, <1>2
<1>4. Mult(rs2[cur] - y)
  BY <1>3 DEF Even
<1>5. \A f \in Seqs \ {cur} : Mult(rs2[f])
  BY <1>2 DEF Even
<1> QED
  BY <1>3, <1>4, <1>5 DEF Even

\* Whole delete records can be counted for any file.
LEMMA EvenAll ==
    ASSUME NEW cur \in Seqs, NEW c \in Seqs, NEW rs \in [Seqs -> Int], NEW n \in Int, Mult(n),
           Even(cur, rs, n)
    PROVE  Even(c, rs, 0) /\ \A f \in Seqs : Mult(rs[f])
<1>1. \A f \in Seqs : rs[f] \in Int /\ rs[f] - 0 = rs[f]
  OBVIOUS
<1>2. Mult(rs[cur])
  <2>1. PICK a \in Int : a = rs[cur] - n
    BY <1>1
  <2>2. rs[cur] = a + n
    BY <1>1, <2>1
  <2>3. Mult(a)
    BY <2>1 DEF Even
  <2> QED
    BY <2>2, <2>3, MultSum
<1>3. \A f \in Seqs : Mult(rs[f])
  BY <1>2 DEF Even
<1>4. Mult(rs[c] - 0)
  BY <1>1, <1>3
<1> QED
  BY <1>3, <1>4 DEF Even

\* A delete record is written.
LEMMA EvenDelete ==
    ASSUME NEW cur \in Seqs, NEW rs \in [Seqs -> Int], Even(cur, rs, 0), rs[cur] >= Z,
           NEW rs2, rs2 = [rs EXCEPT ![cur] = @ - Z]
    PROVE  Even(cur, rs2, 0) /\ rs2[cur] >= 0 /\ rs2 \in [Seqs -> Int]
<1>1. Z \in Int /\ rs[cur] \in Int
  BY WalConstants
<1>2. rs2 \in [Seqs -> Int] /\ rs2[cur] = rs[cur] - Z /\ \A f \in Seqs \ {cur} : rs2[f] = rs[f]
  BY <1>1
<1>3. Mult(rs[cur])
  BY MultZ, EvenAll
<1>4. Mult(rs2[cur])
  BY <1>1, <1>2, <1>3, MultZ, MultDiff
<1>5. rs2[cur] - 0 = rs2[cur] /\ rs2[cur] >= 0
  BY <1>1, <1>2
<1>6. Mult(rs2[cur] - 0)
  BY <1>4, <1>5
<1>7. \A f \in Seqs \ {cur} : Mult(rs2[f])
  BY <1>2 DEF Even
<1> QED
  BY <1>2, <1>5, <1>6, <1>7 DEF Even

\* delete finds its record in the next file when the current one has none.
LEMMA NextCovers ==
    ASSUME NEW w, NEW x, x = 0, NEW mv, Yard(w, x, mv), NEW j \in Live(w), Even(w.cur, Rs(w), 0),
           Rs(w)[w.cur] = 0
    PROVE  /\ w.cur < w.tail /\ w.cur + 1 \in Seqs /\ Rs(w)[w.cur + 1] >= Z
           /\ Even(w.cur + 1, Rs(w), 0)
<1>1. w \in Memo /\ Room(w.cur, w.tail, Fr(w), Rs(w)) /\ IsSum(MaxSeq, Rs(w), w.resv)
      /\ spent.spare \in Nat /\ w.resv = Claims(w) + x
  BY DEF Yard
<1>2. w.resv >= Z /\ w.resv \in Int
  <2>1. IsFiniteSet(Live(w)) /\ Cardinality(Live(w)) \in Nat
    BY LiveFinite
  <2>2. Cardinality(Live(w)) # 0
    BY <2>1, FS_EmptySet
  <2>3. PICK c \in Nat : c = Cardinality(Live(w)) /\ c >= 1
    BY <2>1, <2>2
  <2>4. Z * c >= Z * 1 /\ Z * c \in Int
    BY <2>3, WalConstants
  <2>5. PICK k \in Int : k = Z * c /\ k >= Z
    BY <2>4, WalConstants
  <2>6. Claims(w) = k + spent.spare
    BY <2>3, <2>5 DEF Claims
  <2> QED
    BY <1>1, <2>5, <2>6, MemoType, WalConstants
<1>3. /\ w.cur \in Nat /\ w.tail \in Nat /\ w.cur \in Seqs /\ w.tail \in Seqs /\ w.cur <= w.tail
      /\ \A g \in Seqs : g \in Nat /\ Rs(w)[g] \in Int /\ Rs(w)[g] >= 0
      /\ \A g \in Seqs : w.tail < g => Rs(w)[g] = 0
  BY <1>1, RoomType
<1>4. \A g \in Seqs : g < w.cur => Rs(w)[g] = 0
  BY <1>1 DEF Room
<1>5. MaxSeq \in Nat /\ Seqs = 1..MaxSeq /\ Z \in Nat /\ Z > 0
  BY WalConstants DEF Seqs
<1>6. w.cur < w.tail
  <2> SUFFICES ASSUME w.cur = w.tail PROVE FALSE
    BY <1>3
  <2>1. \A g \in Seqs : g # w.cur => Rs(w)[g] = 0
    BY <1>3, <1>4
  <2>2. w.resv = Rs(w)[w.cur]
    BY <1>1, <1>3, <1>5, <2>1, SumOnly
  <2> QED
    BY <1>2, <1>5, <2>2
<1>7. w.cur + 1 \in Seqs /\ w.cur + 1 <= w.tail
  BY <1>3, <1>5, <1>6
<1>8. Rs(w)[w.cur + 1] >= Z
  <2>1. CASE w.cur + 1 < w.tail
    <3>1. Heavy(Rs(w), w.cur + 1)
      <4>1. w.cur < w.cur + 1
        BY <1>3
      <4> QED
        BY <1>1, <1>7, <2>1, <4>1 DEF Room
    <3> QED
      BY <3>1 DEF Heavy, Amounts
  <2>2. CASE w.cur + 1 = w.tail
    <3>1. \A g \in Seqs : g # w.tail => Rs(w)[g] = 0
      <4> SUFFICES ASSUME NEW g \in Seqs, g # w.tail PROVE Rs(w)[g] = 0
        OBVIOUS
      <4>1. g < w.cur \/ g = w.cur \/ w.tail < g
        BY <1>3, <2>2
      <4> QED
        BY <1>3, <1>4, <4>1
    <3>2. w.resv = Rs(w)[w.tail]
      BY <1>1, <1>3, <1>5, <3>1, SumOnly
    <3> QED
      BY <1>2, <2>2, <3>2
  <2> QED
    BY <1>3, <1>7, <2>1, <2>2
<1>9. Even(w.cur + 1, Rs(w), 0)
  <2>1. Rs(w) \in [Seqs -> Int]
    BY <1>1, SpaceType
  <2> QED
    BY <1>3, <1>7, <2>1, MultZ, EvenAll
<1> QED
  BY <1>6, <1>7, <1>8, <1>9

-----------------------------------------------------------------------------
(* The thread                                                              *)

LEMMA PCType ==
    ASSUME NEW p \in PCs
    PROVE  /\ p.j \in Ids \cup {Nil} /\ p.to \in LiveStates \cup {"none", "invalid"}
           /\ p.n \in Nat /\ p.b \in Seqs \cup {Nil} /\ p.r \in Nat
BY DEF PCs

\* Where the server thread has a log with a current file.
Upright(p) == p.at \notin {"down", "read", "first"}

LEMMA ProcessUse ==
    ASSUME NEW w, NEW p, Process(w, p), Upright(p), w.use
    PROVE  p \in PCs /\ Yard(w, Extra(p, w), Moving(p)) /\ Command(p, w) /\ Arranged(p, w)
<1>1. Reading(p) = Nil
  BY DEF Upright, Reading
<1>2. Working(p, w) /\ Command(p, w)
  BY DEF Process, Upright
<1>3. w \in Memo /\ p \in PCs /\ Book(w, Nil) /\ Ledger(w)
  BY <1>1 DEF Process
<1> QED
  BY <1>2, <1>3 DEF Working, Yard, Opened

LEMMA ProcessWorks ==
    ASSUME NEW w, NEW p \in PCs, NEW x, NEW mv, Yard(w, x, mv), Upright(p), x = Extra(p, w),
           mv = Moving(p), Command(p, w), Arranged(p, w)
    PROVE  Process(w, p)
<1>1. Reading(p) = Nil
  BY DEF Upright, Reading
<1>2. NonNeg(w) /\ w.cur \in Seqs /\ w.use
  BY YardNonNeg DEF Yard
<1>3. Working(p, w)
  BY DEF Yard, Working, Opened
<1>4. w \in Memo /\ Book(w, Reading(p)) /\ Ledger(w)
  BY <1>1 DEF Yard
<1> QED
  BY <1>2, <1>3, <1>4 DEF Process, Upright

\* One delete record per job, and nothing else.
Settled(w) == Yard(w, 0, {}) /\ Even(w.cur, Rs(w), 0)

LEMMA IdleType == Idle \in PCs /\ Idle.at = "idle" /\ Idle.op = "none"
BY DEF Idle, PC, PCs, LiveStates

LEMMA CompactType ==
    ASSUME NEW r \in Nat, NEW p, p = PC("compact", "migrate", Nil, "none", 0, Nil, r)
    PROVE  p \in PCs /\ p.at = "compact" /\ p.op = "migrate"
BY DEF PC, PCs, LiveStates

LEMMA SettledIdle ==
    ASSUME NEW w, Settled(w), NEW p \in PCs, p = Idle \/ (p.at = "compact" /\ p.op = "migrate")
    PROVE  Process(w, p)
<1>1. Upright(p) /\ p.op # "replay" /\ p.at \notin {"body", "write", "balance", "rest"}
      /\ (p.at = "idle" => p = Idle) /\ (p.at = "compact" => p.op = "migrate")
      /\ p.at # "replay"
  BY IdleType DEF Upright
<1>2. Due(p, w) = 0 /\ Extra(p, w) = 0 /\ Moving(p) = {}
  BY <1>1 DEF Due, Extra, Moving
<1>3. Command(p, w)
  BY <1>1 DEF Command
<1>4. Yard(w, 0, {}) /\ Even(w.cur, Rs(w), 0)
  BY DEF Settled
<1>5. Rs(w)[w.cur] >= 0
  BY <1>4, YardNonNeg DEF Room
<1>6. Arranged(p, w)
  BY <1>1, <1>2, <1>4, <1>5 DEF Arranged
<1> QED
  BY <1>1, <1>2, <1>3, <1>4, <1>6, ProcessWorks

LEMMA WalmaintOf ==
    ASSUME NEW r \in Int, NEW p, p = walmaint(r)
    PROVE  p \in PCs /\ (p = Idle \/ (p.at = "compact" /\ p.op = "migrate"))
<1>1. CASE r >= 2
  <2>1. r \in Nat /\ p = PC("compact", "migrate", Nil, "none", 0, Nil, r)
    BY <1>1 DEF walmaint
  <2> QED
    BY <2>1, CompactType
<1>2. CASE ~(r >= 2)
  BY <1>2, IdleType DEF walmaint
<1> QED
  BY <1>1, <1>2

\* A log that has no file has correct books.
LEMMA EmptyBook ==
    ASSUME NEW w \in Memo, w.head = Nil, w.tail = Nil, w.next \in 1..(MaxSeq + 1),
           \A f \in Seqs : w.file[f] = NoFile, \A j \in Ids : w.job[j] = NoJob
    PROVE  Book(w, Nil)
<1>1. Chain(w)
  BY WalConstants DEF Chain, Nil
<1>2. ASSUME NEW f \in Seqs PROVE Counted(w, f, Nil) /\ Holds(w, f) /\ Gone(w, f, Nil)
  <2>1. w.file[f] = NoFile /\ f # Nil
    BY WalConstants DEF Seqs, Nil
  <2>2. Counted(w, f, Nil)
    BY <2>1, NoFileType, EmptyRange DEF Counted
  <2>3. Holds(w, f)
    <3>1. \A j \in Ids : w.job[j].file # f
      BY <2>1, NoJobType
    <3>2. IsInjective(w.file[f].jlist) /\ Range(w.file[f].jlist) = {}
      BY <2>1, NoFileType, EmptyRange
    <3> QED
      BY <3>1, <3>2 DEF Holds
  <2>4. Gone(w, f, Nil)
    BY <2>1 DEF Gone
  <2> QED
    BY <2>2, <2>3, <2>4
<1> QED
  BY <1>1, <1>2 DEF Book

LEMMA EmptyLedger ==
    ASSUME NEW w \in Memo, \A j \in Ids : w.job[j] = NoJob, w.alive = 0
    PROVE  Ledger(w)
<1>1. \A j \in Ids : JobOk(w, j)
  BY NoJobType DEF JobOk
<1>2. \A j \in 1..MaxId : Used(w)[j] = 0
  BY NoJobType DEF Used, Ids
<1>3. MaxId \in Nat
  BY WalConstants
<1>4. IsSum(MaxId, Used(w), 0)
  BY <1>2, <1>3, SumNone
<1> QED
  BY <1>1, <1>4 DEF Ledger

LEMMA FreshOf == Process(FreshMemory, Down) /\ FreshMemory.next \in 1..(MaxSeq + 1)
<1> PICK w : w = FreshMemory
  OBVIOUS
<1>1. /\ w.use = TRUE /\ w.head = Nil /\ w.cur = Nil /\ w.tail = Nil /\ w.next = 1 /\ w.resv = 0
      /\ w.alive = 0 /\ w.next_id = 1
      /\ w.file = [f \in Seqs |-> NoFile] /\ w.job = [j \in Ids |-> NoJob]
  BY DEF FreshMemory
<1>2. w.file \in [Seqs -> FileI] /\ w.job \in [Ids -> JobRec]
  BY <1>1, NoFileType, NoJobType
<1>3. w \in Memo
  BY <1>2, WalConstants DEF FreshMemory, Memo
<1>4. w.next \in 1..(MaxSeq + 1)
  BY <1>1, WalConstants
<1>5. Book(w, Nil)
  BY <1>1, <1>3, <1>4, EmptyBook
<1>6. Ledger(w)
  BY <1>1, <1>3, EmptyLedger
<1>7. NonNeg(w)
  BY <1>1, NoFileType DEF NonNeg
<1>8. Down \in PCs /\ Down.at = "down"
  BY DEF Down, PC, PCs, LiveStates
<1>9. Reading(Down) = Nil
  BY <1>8 DEF Reading
<1> QED
  BY <1>3, <1>4, <1>5, <1>6, <1>7, <1>8, <1>9 DEF Process

\* What reserve is called with.
Asks(p, w) ==
    /\ p \in PCs /\ p.n \in Amounts
    /\ p.op \in {"put", "update", "migrate", "replay"}
    /\ p.op = "put" => p.j \in Ids /\ p.j = w.next_id /\ p.to = "ready" /\ p.n - Z \in FullSizes
    /\ p.op = "update" => p.j \in Live(w) /\ p.to \in LiveStates /\ p.n = Z
    /\ p.op = "migrate" => p.j \in Live(w) /\ p.to = w.job[p.j].state /\ p.n = w.job[p.j].size
    /\ p.op = "replay" => p.n = Z

\* prot_replay has not yet reserved for all the jobs.
Owed(p) == IF p.op = "replay" THEN -Z * (p.r + 1) ELSE 0

\* It is asked for the same when the jobs are the same.
LEMMA AsksSame ==
    ASSUME NEW p, NEW w, NEW t, Asks(p, w), SameJobs(w, t)
    PROVE  Asks(p, t)
BY DEF Asks, SameJobs, Live

\* Only the place of the thread changes.
SameAsk(p, q) == q.op = p.op /\ q.j = p.j /\ q.to = p.to /\ q.n = p.n /\ q.r = p.r

LEMMA OwedInt ==
    ASSUME NEW p, NEW w, Asks(p, w)
    PROVE  /\ Owed(p) \in Int /\ p.n \in Nat /\ p.n > 0 /\ p.r \in Nat
           /\ p.op = "replay" => Owed(p) + p.n = -Z * p.r
           /\ p.op # "replay" => Owed(p) = 0
<1>1. p.n \in Nat /\ p.n > 0 /\ p.r \in Nat
  BY PCType, AmountNat DEF Asks
<1>2. Z \in Int
  BY WalConstants
<1>3. -Z * (p.r + 1) \in Int
  BY <1>1, <1>2
<1>4. Owed(p) \in Int
  BY <1>3 DEF Owed
<1>5. ASSUME p.op = "replay" PROVE Owed(p) + p.n = -Z * p.r
  <2>1. p.n = Z /\ Owed(p) = -Z * (p.r + 1)
    BY <1>5 DEF Asks, Owed
  <2>2. -Z * (p.r + 1) = -Z * p.r - Z
    BY <1>1, <1>2
  <2>3. -Z * p.r \in Int
    BY <1>1, <1>2
  <2>4. PICK c \in Int : c = -Z * p.r
    BY <2>3
  <2> QED
    BY <1>2, <2>1, <2>2, <2>4
<1> QED
  BY <1>1, <1>4, <1>5 DEF Owed

LEMMA AskBalancing ==
    ASSUME NEW w, NEW p, Asks(p, w), NEW x, x = Owed(p) + p.n, NEW mv, mv = {}, Yard(w, x, mv),
           NEW q \in PCs, SameAsk(p, q), q.at \in {"balance", "rest"}, Arranged(q, w)
    PROVE  Process(w, q)
<1>1. Upright(q) /\ q.at \notin {"idle", "compact", "replay", "write", "body"}
  BY DEF Upright
<1>2. Command(q, w)
  BY <1>1 DEF Command, Asks, SameAsk
<1>3. Moving(q) = mv
  BY <1>1 DEF Moving
<1>4. Extra(q, w) = x
  <2>1. CASE p.op = "replay"
    <3>1. Extra(q, w) = q.n - Z * (q.r + 1) /\ Owed(p) = -Z * (p.r + 1)
      BY <1>1, <2>1 DEF Extra, SameAsk, Owed
    <3>2. q.n = p.n /\ q.r = p.r /\ p.n \in Nat /\ p.r \in Nat /\ Z \in Int
      BY OwedInt, WalConstants DEF SameAsk
    <3>3. -Z * (p.r + 1) = -(Z * (p.r + 1)) /\ Z * (p.r + 1) \in Int
      BY <3>2
    <3>4. PICK c \in Int : c = Z * (p.r + 1)
      BY <3>3
    <3> QED
      BY <3>1, <3>2, <3>3, <3>4
  <2>2. CASE p.op # "replay"
    <3>1. Owed(p) = 0 /\ p.n \in Nat
      BY <2>2, OwedInt
    <3>2. Extra(q, w) = p.n
      BY <1>1, <2>2 DEF Extra, SameAsk
    <3> QED
      BY <3>1, <3>2
  <2> QED
    BY <2>1, <2>2
<1> QED
  BY <1>1, <1>2, <1>3, <1>4, ProcessWorks

\* The thread while balance runs.
LEMMA AskedBalancing ==
    ASSUME NEW w, NEW p, Process(w, p), p.at \in {"balance", "rest"}
    PROVE  /\ Asks(p, w) /\ Arranged(p, w) /\ p \in PCs /\ w.use
           /\ \E x, mv : x = Owed(p) + p.n /\ mv = {} /\ Yard(w, x, mv)
<1>1. Upright(p) /\ p.at \notin {"idle", "compact", "replay", "write", "body"}
  BY DEF Upright
<1>2. w.use
  BY <1>1 DEF Process, Broken, Upright
<1>3. p \in PCs /\ Yard(w, Extra(p, w), Moving(p)) /\ Command(p, w) /\ Arranged(p, w)
  BY <1>1, <1>2, ProcessUse
<1>4. Moving(p) = {}
  BY <1>1 DEF Moving
<1>5. /\ p.op \in {"put", "update", "migrate", "replay"}
      /\ p.op = "put" => p.j \in Ids /\ p.j = w.next_id /\ p.to = "ready" /\ p.n - Z \in FullSizes
      /\ p.op = "update" => p.j \in Live(w) /\ p.to \in LiveStates /\ p.n = Z
      /\ p.op = "migrate" => p.j \in Live(w) /\ p.to = w.job[p.j].state /\ p.n = w.job[p.j].size
      /\ p.op = "replay" => p.n = Z
  BY <1>3 DEF Command
<1>6. p.n \in Amounts
  <2>1. CASE p.op = "put"
    <3>1. PICK a \in FullSizes : a = p.n - Z
      BY <1>5, <2>1
    <3>2. p.n = a + Z
      BY <1>3, <3>1, PCType, WalConstants
    <3> QED
      BY <3>2 DEF Amounts
  <2>2. CASE p.op = "migrate"
    <3>1. JobOk(w, p.j) /\ w.job[p.j].state # "none"
      BY <1>3, <1>5, <2>2 DEF Yard, Ledger, Live, LiveStates
    <3> QED
      BY <1>5, <2>2, <3>1 DEF Amounts, JobOk
  <2>3. CASE p.op \in {"update", "replay"}
    BY <1>5, <2>3 DEF Amounts
  <2> QED
    BY <1>5, <2>1, <2>2, <2>3
<1>7. Asks(p, w)
  BY <1>3, <1>5, <1>6 DEF Asks
<1>8. Extra(p, w) = Owed(p) + p.n
  <2>1. CASE p.op = "replay"
    <3>1. Extra(p, w) = p.n - Z * (p.r + 1) /\ Owed(p) = -Z * (p.r + 1)
      BY <1>1, <2>1 DEF Extra, Owed
    <3>2. p.n \in Nat /\ p.r \in Nat /\ Z \in Int
      BY <1>7, OwedInt, WalConstants
    <3>3. -Z * (p.r + 1) = -(Z * (p.r + 1)) /\ Z * (p.r + 1) \in Int
      BY <3>2
    <3>4. PICK c \in Int : c = Z * (p.r + 1)
      BY <3>3
    <3> QED
      BY <3>1, <3>2, <3>3, <3>4
  <2>2. CASE p.op # "replay"
    <3>1. Owed(p) = 0 /\ p.n \in Nat
      BY <1>7, <2>2, OwedInt
    <3>2. Extra(p, w) = p.n
      BY <1>1, <2>2 DEF Extra
    <3> QED
      BY <3>1, <3>2
  <2> QED
    BY <2>1, <2>2
<1> QED
  BY <1>2, <1>3, <1>4, <1>7, <1>8

\* reserve has succeeded in a log that is in use.
LEMMA ReservedWorks ==
    ASSUME NEW w, NEW p, Asks(p, w), NEW x, x = Owed(p) + p.n, NEW mv, mv = {}, Yard(w, x, mv),
           Even(w.cur, Rs(w), p.n), Rs(w)[w.cur] >= p.n, NEW q \in PCs, SameAsk(p, q),
           q.at = (IF p.op = "replay" THEN "replay" ELSE "write"),
           NEW t, t = (IF p.op = "migrate" THEN filermjob(w, p.j) ELSE w)
    PROVE  Process(t, q)
<1>1. Upright(q) /\ q.at \notin {"idle", "compact", "balance", "rest", "body"}
  BY DEF Upright
<1>2. q.op = p.op /\ q.j = p.j /\ q.to = p.to /\ q.n = p.n /\ q.r = p.r
  BY DEF SameAsk
<1>3. p.n \in Nat /\ p.op \in {"put", "update", "migrate", "replay"}
  BY OwedInt DEF Asks
<1>4. CASE p.op = "replay"
  <2>1. t = w /\ q.at = "replay" /\ q.op = "replay" /\ p.n = Z
    BY <1>2, <1>4 DEF Asks
  <2>2. x = -Z * q.r
    BY <1>2, <1>4, OwedInt
  <2>3. Extra(q, w) = x /\ Moving(q) = mv /\ Due(q, w) = 0
    BY <2>1, <2>2 DEF Extra, Moving, Due
  <2>4. Command(q, w)
    BY <1>2, <2>1 DEF Command
  <2>5. Arranged(q, w)
    <3>1. w.cur \in Seqs /\ Rs(w) \in [Seqs -> Int]
      BY YardNonNeg, SpaceType
    <3>2. Even(w.cur, Rs(w), 0)
      BY <1>3, <2>1, <3>1, MultZ, EvenAll
    <3>3. Rs(w)[w.cur] >= 0
      BY YardNonNeg DEF Room
    <3> QED
      BY <2>1, <2>3, <3>2, <3>3 DEF Arranged
  <2> QED
    BY <1>1, <2>1, <2>3, <2>4, <2>5, ProcessWorks
<1>5. CASE p.op \in {"put", "update"}
  <2>1. t = w /\ q.at = "write" /\ q.op # "migrate" /\ q.op # "replay"
    BY <1>2, <1>5
  <2>2. Owed(p) = 0
    BY <1>5, OwedInt
  <2>3. Extra(q, w) = x /\ Moving(q) = mv /\ Due(q, w) = p.n
    BY <1>2, <1>3, <2>1, <2>2 DEF Extra, Moving, Due
  <2>4. Command(q, w)
    BY <1>2, <1>5, <2>1 DEF Command, Asks
  <2>5. Arranged(q, w)
    BY <2>1, <2>3 DEF Arranged
  <2> QED
    BY <1>1, <2>1, <2>3, <2>4, <2>5, ProcessWorks
<1>6. CASE p.op = "migrate"
  <2>1. t = filermjob(w, p.j) /\ q.at = "write" /\ q.op = "migrate"
    BY <1>2, <1>6
  <2>2. Owed(p) = 0
    BY <1>6, OwedInt
  <2>3. p.j \in Live(w) /\ p.to = w.job[p.j].state /\ p.n = w.job[p.j].size
    BY <1>6 DEF Asks
  <2>4. w.job[p.j].file # Nil /\ w \in Memo /\ p.j \in Ids
    BY <2>3 DEF Yard, Live
  <2>5. /\ Yard(t, x, mv \cup {p.j}) /\ SameFrame(w, t) /\ Rs(t) = Rs(w)
        /\ t.job[p.j] = Loose(w.job[p.j]) /\ Live(t) = Live(w)
    BY <2>1, <2>3, <2>4, YardRemove
  <2>6. t.job[p.j].state = w.job[p.j].state /\ t.job[p.j].size = w.job[p.j].size
    BY <2>4, <2>5, LooseOf, JobType
  <2>7. Extra(q, t) = x /\ Moving(q) = mv \cup {p.j} /\ Due(q, t) = p.n
    BY <1>2, <1>3, <2>1, <2>2 DEF Extra, Moving, Due
  <2>8. Command(q, t)
    BY <1>2, <2>1, <2>3, <2>5, <2>6 DEF Command
  <2>9. Arranged(q, t)
    BY <2>1, <2>5, <2>7 DEF Arranged, SameFrame
  <2> QED
    BY <1>1, <2>5, <2>7, <2>8, <2>9, ProcessWorks
<1> QED
  BY <1>3, <1>4, <1>5, <1>6

\* reserve has failed.
LEMMA NotReservedWorks ==
    ASSUME NEW w, NEW p, Asks(p, w), NEW x, x = Owed(p), NEW mv, mv = {}, Yard(w, x, mv),
           Even(w.cur, Rs(w), 0),
           NEW q, q = (CASE p.op = "migrate" -> walmaint(p.r - 1)
                         [] p.op = "replay"  -> Down
                         [] OTHER            -> Idle),
           NEW t, t = (IF p.op = "replay" THEN FreshMemory ELSE w)
    PROVE  Process(t, q)
<1>1. CASE p.op = "replay"
  BY <1>1, FreshOf
<1>2. CASE p.op # "replay"
  <2>1. Owed(p) = 0 /\ t = w /\ p.r \in Nat
    BY <1>2, OwedInt
  <2>2. Settled(t)
    BY <2>1 DEF Settled
  <2>3. q \in PCs /\ (q = Idle \/ (q.at = "compact" /\ q.op = "migrate"))
    <3>1. CASE p.op = "migrate"
      <4>1. PICK r \in Int : r = p.r - 1
        BY <2>1
      <4>2. q = walmaint(r)
        BY <3>1, <4>1
      <4> QED
        BY <4>2, WalmaintOf
    <3>2. CASE p.op # "migrate"
      BY <1>2, <3>2, IdleType
    <3> QED
      BY <3>1, <3>2
  <2> QED
    BY <2>2, <2>3, SettledIdle
<1> QED
  BY <1>1, <1>2

-----------------------------------------------------------------------------
(* The disk                                                                *)

\* The records of a file.
Kept(k) == k \in Image /\ \A i \in 1..Len(k.recs) : k.recs[i].full => k.recs[i].size \in FullSizes

LEMMA ImagesOf ==
    ASSUME NEW d
    PROVE  d \in Images <=> d = [f \in Seqs |-> d[f]] /\ \A f \in Seqs : Kept(d[f])
BY DEF Images, Kept

LEMMA EmptyImages ==
    Kept(NoImage) /\ Kept(EmptyImage) /\ Kept([EmptyImage EXCEPT !.version = 0])
<1>1. <<>> \in Seq(Record) /\ Len(<<>>) = 0
  OBVIOUS
<1>2. NoImage \in Image /\ NoImage.recs = <<>>
  BY <1>1 DEF NoImage, Image
<1>3. EmptyImage \in Image /\ EmptyImage.recs = <<>>
  BY <1>1 DEF EmptyImage, Image, Walver
<1>4. PICK k : k = [EmptyImage EXCEPT !.version = 0]
  OBVIOUS
<1>5. k \in Image /\ k.recs = <<>>
  BY <1>3, <1>4 DEF Image
<1> QED
  BY <1>1, <1>2, <1>3, <1>4, <1>5 DEF Kept

LEMMA UnlinkOf ==
    ASSUME NEW d \in Images, NEW w, NEW t, NEW e, e = Unlink(d, w, t)
    PROVE  e \in Images
<1>1. \A f \in Seqs : Kept(d[f])
  BY ImagesOf
<1>2. e = [f \in Seqs |-> IF f \in Files(w) \ Files(t) THEN NoImage ELSE d[f]]
  BY DEF Unlink
<1>3. \A f \in Seqs : Kept(e[f])
  BY <1>1, <1>2, EmptyImages
<1>4. e = [f \in Seqs |-> e[f]]
  BY <1>2
<1> QED
  BY <1>3, <1>4, ImagesOf

LEMMA DiskOf ==
    ASSUME disk \in Images, NEW w, NEW e, e = DiskFor(w)
    PROVE  e \in Images
<1>1. PICK d : d = Unlink(disk, m, w)
  OBVIOUS
<1>2. d \in Images
  BY <1>1, UnlinkOf
<1>3. e = [f \in Seqs |-> IF f \in Files(w) \ Files(m) THEN EmptyImage ELSE d[f]]
  BY <1>1 DEF DiskFor
<1>4. \A f \in Seqs : Kept(d[f])
  BY <1>2, ImagesOf
<1>5. \A f \in Seqs : Kept(e[f])
  BY <1>3, <1>4, EmptyImages
<1>6. e = [f \in Seqs |-> e[f]]
  BY <1>3
<1> QED
  BY <1>5, <1>6, ImagesOf

-----------------------------------------------------------------------------
(* The steps of reserve                                                    *)

Places == {"idle", "down", "balance", "rest", "write", "body", "compact", "read", "first",
           "replay"}

\* The thread is at another place, and at file b.
Moved(p, a, b) == [p EXCEPT !.at = a, !.b = b]

LEMMA MovedOf ==
    ASSUME NEW p \in PCs, NEW a \in Places, NEW b \in Seqs \cup {Nil}, NEW q, q = Moved(p, a, b)
    PROVE  q \in PCs /\ SameAsk(p, q) /\ q.at = a /\ q.b = b
BY DEF PCs, Moved, SameAsk, Places

LEMMA AsksMoved ==
    ASSUME NEW p, NEW w, Asks(p, w), NEW q \in PCs, SameAsk(p, q)
    PROVE  Asks(q, w) /\ Owed(q) = Owed(p) /\ q.n = p.n
BY DEF Asks, SameAsk, Owed

LEMMA AtOf ==
    ASSUME NEW p \in PCs, NEW a \in Places, NEW q, q = [p EXCEPT !.at = a]
    PROVE  q = Moved(p, a, p.b) /\ q \in PCs /\ SameAsk(p, q) /\ q.at = a /\ q.b = p.b
BY DEF PCs, Moved, SameAsk, Places

LEMMA BOf ==
    ASSUME NEW p \in PCs, NEW b \in Seqs \cup {Nil}, NEW q, q = [p EXCEPT !.b = b]
    PROVE  q = Moved(p, p.at, b) /\ q \in PCs /\ SameAsk(p, q) /\ q.at = p.at /\ q.b = b
BY DEF PCs, Moved, SameAsk, Places

\* A step that keeps the invariant.
Holding == Process(m', pc') /\ disk' \in Images /\ rewriting' \subseteq Ids

\* What is left reserved without need stays the same.
LEMMA ProcessNext ==
    ASSUME Process(m', pc'), spent'.spare = spent.spare
    PROVE  Process(m, pc)'
BY DEF Process, Working, Claims

\* A step of a command, of which the history is known.
LEMMA HoldingInv ==
    ASSUME Stable, Holding, logged' \in [Ids -> Views],
           spent' \in Spents, spent'.spare = spent.spare
    PROVE  WInv'
<1>1. Process(m, pc)'
  BY ProcessNext DEF Holding
<1> QED
  BY <1>1 DEF WInv, Stable, Holding

\* The state in which reserve has the bytes.
Granted(w, p) ==
    /\ Asks(p, w) /\ Yard(w, Owed(p) + p.n, {})
    /\ Even(w.cur, Rs(w), p.n) /\ Rs(w)[w.cur] >= p.n

LEMMA ReservedStep ==
    ASSUME Stable, NEW w, NEW p, Granted(w, p), Reserved(w, p)
    PROVE  Holding
<1>1. Asks(p, w) /\ Yard(w, Owed(p) + p.n, {})
      /\ Even(w.cur, Rs(w), p.n) /\ Rs(w)[w.cur] >= p.n /\ p \in PCs
  BY DEF Granted, Asks
<1>2. disk \in Images /\ rewriting \subseteq Ids
  BY DEF Stable
<1>3. PICK x, mv : x = Owed(p) + p.n /\ mv = {}
  OBVIOUS
<1>4. PICK t : t = (IF p.op = "migrate" THEN filermjob(w, p.j) ELSE w)
  OBVIOUS
<1>5. PICK a : a = (IF p.op = "replay" THEN "replay" ELSE "write")
  OBVIOUS
<1>6. a \in Places
  BY <1>5 DEF Places
<1>7. PICK q : q = [p EXCEPT !.at = a]
  OBVIOUS
<1>8. m' = t /\ disk' = DiskFor(t) /\ pc' = q
      /\ rewriting' = (IF p.op = "migrate" THEN rewriting \cup {p.j} ELSE rewriting)
  <2>1. CASE p.op = "migrate"
    BY <1>4, <1>5, <1>7, <2>1 DEF Reserved, Become
  <2>2. CASE p.op # "migrate"
    BY <1>4, <1>5, <1>7, <2>2 DEF Reserved, Become
  <2> QED
    BY <2>1, <2>2
<1>9. q \in PCs /\ SameAsk(p, q) /\ q.at = a
  BY <1>1, <1>6, <1>7, AtOf
<1>10. Process(t, q)
  BY <1>1, <1>3, <1>4, <1>5, <1>9, ReservedWorks
<1>11. disk' \in Images
  BY <1>2, <1>8, DiskOf
<1>12. rewriting' \subseteq Ids
  <2>1. p.op = "migrate" => p.j \in Ids
    BY <1>1 DEF Asks, Live
  <2> QED
    BY <1>2, <1>8, <2>1
<1> QED
  BY <1>8, <1>10, <1>11, <1>12 DEF Holding

\* The state before reserve, or after it has given back what it took.
Refused(w, p) == Asks(p, w) /\ Yard(w, Owed(p), {}) /\ Even(w.cur, Rs(w), 0)

LEMMA NotReservedStep ==
    ASSUME Stable, NEW w, NEW p, Refused(w, p), NotReserved(w, p)
    PROVE  Holding
<1>1. Asks(p, w) /\ Yard(w, Owed(p), {}) /\ Even(w.cur, Rs(w), 0)
  BY DEF Refused
<1>2. disk \in Images /\ rewriting \subseteq Ids
  BY DEF Stable
<1>3. PICK x, mv : x = Owed(p) /\ mv = {}
  OBVIOUS
<1>4. PICK q : q = (CASE p.op = "migrate" -> walmaint(p.r - 1)
                      [] p.op = "replay"  -> Down
                      [] OTHER            -> Idle)
  OBVIOUS
<1>5. PICK t : t = (IF p.op = "replay" THEN FreshMemory ELSE w)
  OBVIOUS
<1>6. m' = t /\ disk' = DiskFor(w) /\ pc' = q /\ rewriting' = rewriting
  BY <1>4, <1>5 DEF NotReserved
<1>7. Process(t, q)
  BY <1>1, <1>3, <1>4, <1>5, NotReservedWorks
<1>8. disk' \in Images
  BY <1>2, <1>6, DiskOf
<1> QED
  BY <1>2, <1>6, <1>7, <1>8 DEF Holding

\* The outcomes of needfree.
LEMMA NeedFree ==
    ASSUME NEW w, NEW n, NEW x \in needfree(w, n)
    PROVE  \/ w.file[w.tail].free >= n /\ x.ok /\ x.w = w
           \/ ~(w.file[w.tail].free >= n) /\ ~x.ok /\ x.w = w
           \/ ~(w.file[w.tail].free >= n) /\ x.ok /\ w.next \in Seqs /\ x.w = Grown(w)
<1>1. CASE w.file[w.tail].free >= n
  BY <1>1 DEF needfree, Ok
<1>2. CASE ~(w.file[w.tail].free >= n)
  <2>1. x \in makenextfile(w)
    BY <1>2 DEF needfree
  <2>2. CASE x = Failed(w)
    BY <1>2, <2>2 DEF Failed
  <2>3. CASE x # Failed(w)
    <3>1. PICK f \in {w.next} \cap Seqs :
             x = Ok(fileadd([w EXCEPT !.next = @ + 1, !.file[f] = NewFile], f))
      BY <2>1, <2>3 DEF makenextfile
    <3>2. f = w.next /\ w.next \in Seqs
      OBVIOUS
    <3>3. x = Ok(Grown(w))
      BY <3>1, <3>2 DEF Grown
    <3> QED
      BY <1>2, <3>2, <3>3 DEF Ok
  <2> QED
    BY <2>2, <2>3
<1> QED
  BY <1>1, <1>2

\* reserve in a log that is in use.
LEMMA ReserveStep ==
    ASSUME RoomyFiles, Stable, m.use, NEW p, Refused(m, p), reserve(p)
    PROVE  Holding
<1>1. Asks(p, m) /\ Yard(m, Owed(p), {}) /\ Even(m.cur, Rs(m), 0) /\ p \in PCs
      /\ p.n \in Amounts /\ disk \in Images /\ rewriting \subseteq Ids
  BY DEF Refused, Asks, Stable
<1>2. Owed(p) \in Int /\ p.n \in Nat /\ p.n > 0
  BY <1>1, OwedInt
<1>3. PICK x, y, mv : x = Owed(p) /\ y = Owed(p) + p.n /\ mv = {}
  OBVIOUS
<1>4. Yard(m, x, mv) /\ x \in Int /\ y = x + p.n
  BY <1>1, <1>2, <1>3
<1>5. m \in Memo /\ m.cur \in Seqs /\ m.tail \in Seqs /\ m.cur <= m.tail /\ m.cur \in Nat
      /\ m.tail \in Nat /\ Room(m.cur, m.tail, Fr(m), Rs(m))
  BY <1>4, YardNonNeg
<1>6. /\ \A f \in Seqs : Fr(m)[f] = m.file[f].free /\ Rs(m)[f] \in Int /\ Fr(m)[f] \in Int
      /\ \A f \in Seqs : Rs(m)[f] >= 0 /\ Fr(m)[f] >= 0
  BY <1>5, SpaceType DEF Room
<1>7. CASE m.file[m.cur].free >= p.n
  <2>1. PICK t : t = take(m, m.cur, p.n)
    OBVIOUS
  <2>2. Reserved(t, p)
    BY <1>7, <2>1 DEF reserve
  <2>3. Fr(m)[m.cur] >= p.n
    BY <1>5, <1>6, <1>7
  <2>4. Rs(m)[m.cur] + p.n >= 0 /\ Fr(m)[m.cur] - p.n >= 0
    BY <1>2, <1>5, <1>6, <2>3
  <2>5. /\ Yard(t, y, mv) /\ SameTop(m, t) /\ SameChain(m, t) /\ SameJobs(m, t)
        /\ Adds(Fr(m), Rs(m), Fr(t), Rs(t), m.cur, p.n)
    BY <1>2, <1>4, <1>5, <2>1, <2>4, YardTake
  <2>6. t.cur = m.cur
    BY <2>5 DEF SameTop
  <2>7. Even(m.cur, Rs(t), p.n) /\ Rs(t)[m.cur] >= p.n
    BY <1>1, <1>5, <2>3, <2>5, TakeCur
  <2>8. Asks(p, t)
    BY <1>1, <2>5, AsksSame
  <2>9. Granted(t, p)
    BY <1>3, <2>5, <2>6, <2>7, <2>8 DEF Granted
  <2> QED
    BY <2>2, <2>9, ReservedStep
<1>8. CASE ~(m.file[m.cur].free >= p.n)
  <2>1. PICK o \in needfree(m, p.n) :
          IF o.ok
          THEN /\ Become(take(o.w, o.w.tail, p.n))
               /\ pc' = [p EXCEPT !.at = "balance"]
               /\ UNCHANGED rewriting
          ELSE NotReserved(o.w, p)
    BY <1>8 DEF reserve
  <2>2. Fr(m)[m.cur] < p.n
    BY <1>2, <1>5, <1>6, <1>8
  <2>3. ASSUME NEW u, NEW t, o.w = u, o.ok, t = take(u, u.tail, p.n), Yard(t, y, mv),
               SameJobs(m, t), Balancing(t.cur, t.tail, Fr(t), Rs(t), p.n)
        PROVE  Holding
    <3>1. PICK a : a = "balance"
      OBVIOUS
    <3>2. PICK q : q = [p EXCEPT !.at = a]
      OBVIOUS
    <3>3. m' = t /\ disk' = DiskFor(t) /\ pc' = q /\ rewriting' = rewriting
      BY <2>1, <2>3, <3>1, <3>2 DEF Become
    <3>4. q \in PCs /\ SameAsk(p, q) /\ q.at = "balance"
      BY <1>1, <3>1, <3>2, AtOf DEF Places
    <3>5. Asks(p, t)
      BY <1>1, <2>3, AsksSame
    <3>6. Arranged(q, t)
      BY <2>3, <3>4 DEF Arranged, SameAsk
    <3>7. Process(t, q)
      BY <1>3, <2>3, <3>4, <3>5, <3>6, AskBalancing
    <3>8. disk' \in Images
      BY <1>1, <3>3, DiskOf
    <3> QED
      BY <1>1, <3>3, <3>7, <3>8 DEF Holding
  <2>4. CASE m.file[m.tail].free >= p.n /\ o.ok /\ o.w = m
    <3>1. PICK t : t = take(m, m.tail, p.n)
      OBVIOUS
    <3>2. Fr(m)[m.tail] >= p.n
      BY <1>5, <1>6, <2>4
    <3>3. Rs(m)[m.tail] + p.n >= 0 /\ Fr(m)[m.tail] - p.n >= 0
      BY <1>2, <1>5, <1>6, <3>2
    <3>4. /\ Yard(t, y, mv) /\ SameTop(m, t) /\ SameChain(m, t) /\ SameJobs(m, t)
          /\ Adds(Fr(m), Rs(m), Fr(t), Rs(t), m.tail, p.n)
      BY <1>2, <1>4, <1>5, <3>1, <3>3, YardTake
    <3>5. t.cur = m.cur /\ t.tail = m.tail
      BY <3>4 DEF SameTop, SameChain
    <3>6. Balancing(m.cur, m.tail, Fr(t), Rs(t), p.n)
      BY <1>1, <1>5, <2>2, <3>2, <3>4, TakeTail
    <3> QED
      BY <2>3, <2>4, <3>1, <3>4, <3>5, <3>6
  <2>5. CASE ~o.ok /\ o.w = m
    <3>1. NotReserved(m, p)
      BY <2>1, <2>5
    <3> QED
      BY <3>1, NotReservedStep
  <2>6. CASE ~(m.file[m.tail].free >= p.n) /\ o.ok /\ m.next \in Seqs /\ o.w = Grown(m)
    <3>1. PICK u : u = Grown(m)
      OBVIOUS
    <3>2. PICK t : t = take(u, u.tail, p.n)
      OBVIOUS
    <3>3. Fr(m)[m.tail] < p.n
      BY <1>2, <1>5, <1>6, <2>6
    <3>4. m.tail = m.cur \/ Heavy(Rs(m), m.tail)
      <4> SUFFICES ASSUME m.tail # m.cur PROVE Heavy(Rs(m), m.tail)
        OBVIOUS
      <4>1. Fr(m)[m.tail] + Rs(m)[m.tail] = Cap
        BY <1>5, RoomType
      <4> QED
        BY <1>1, <1>5, <1>6, <3>3, <4>1, HeavyOf
    <3>5. /\ Yard(u, x, mv) /\ SameTop(m, u) /\ SameJobs(m, u) /\ Rs(u) = Rs(m)
          /\ u.tail = m.tail + 1 /\ u.tail \in Seqs /\ Grows1(Fr(m), Fr(u), u.tail)
      BY <1>4, <2>6, <3>1, <3>4, YardGrow
    <3>6. Rs(u)[u.tail] = 0 /\ Fr(u)[u.tail] = Cap /\ Cap >= p.n
      <4>1. m.tail < u.tail
        BY <1>5, <3>5
      <4>2. Rs(m)[u.tail] = 0
        BY <1>5, <3>5, <4>1, RoomType
      <4>3. p.n + Z + Z <= Cap /\ Cap \in Int /\ Z \in Nat
        BY <1>1, TwoFit, SeqsNat DEF Amounts
      <4> QED
        BY <1>2, <3>5, <4>2, <4>3 DEF Grows1
    <3>7. Rs(u)[u.tail] + p.n >= 0 /\ Fr(u)[u.tail] - p.n >= 0
      BY <1>2, <3>6, SeqsNat
    <3>8. /\ Yard(t, y, mv) /\ SameTop(u, t) /\ SameChain(u, t) /\ SameJobs(u, t)
          /\ Adds(Fr(u), Rs(u), Fr(t), Rs(t), u.tail, p.n)
      BY <1>2, <1>4, <3>2, <3>5, <3>7, YardTake
    <3>9. t.cur = m.cur /\ t.tail = u.tail /\ SameJobs(m, t)
      BY <3>5, <3>8 DEF SameTop, SameChain, SameJobs
    <3>10. Balancing(m.cur, u.tail, Fr(t), Rs(t), p.n)
      BY <1>1, <1>5, <2>2, <3>3, <3>5, <3>8, TakeNew
    <3> QED
      BY <2>3, <2>6, <3>1, <3>2, <3>8, <3>9, <3>10
  <2> QED
    BY <2>4, <2>5, <2>6, NeedFree
<1> QED
  BY <1>7, <1>8

-----------------------------------------------------------------------------
(* The steps of balance                                                    *)

\* reserve takes back what it took.
LEMMA UndoneOf ==
    ASSUME NEW y, NEW mv, mv = {}, y = Owed(pc) + pc.n, Asks(pc, m), Yard(m, y, mv), m.cur # m.tail,
           Lent(m.tail, Rs(m), pc.n), NEW t, t = Undone(m)
    PROVE  Refused(t, pc)
<1>1. Owed(pc) \in Int /\ pc.n \in Nat /\ pc.n \in Amounts
  BY OwedInt DEF Asks
<1>2. PICK k \in Int : k = -pc.n
  BY <1>1
<1>3. PICK x : x = Owed(pc)
  OBVIOUS
<1>4. y \in Int /\ x \in Int /\ x = y + k
  BY <1>1, <1>2, <1>3
<1>5. t = take(m, m.tail, k)
  BY <1>2 DEF Undone
<1>6. m \in Memo /\ m.tail \in Seqs /\ Room(m.cur, m.tail, Fr(m), Rs(m))
  BY YardNonNeg
<1>7. Rs(m)[m.tail] + k >= 0 /\ Fr(m)[m.tail] - k >= 0
  <2>1. Rs(m)[m.tail] >= pc.n
    BY DEF Lent
  <2>2. Rs(m)[m.tail] \in Int /\ Fr(m)[m.tail] \in Int /\ Fr(m)[m.tail] >= 0
    BY <1>6, RoomType
  <2> QED
    BY <1>1, <1>2, <2>1, <2>2
<1>8. /\ Yard(t, x, mv) /\ SameTop(m, t) /\ SameChain(m, t) /\ SameJobs(m, t)
      /\ Adds(Fr(m), Rs(m), Fr(t), Rs(t), m.tail, k)
  BY <1>4, <1>5, <1>6, <1>7, YardTake
<1>9. Even(m.cur, Rs(t), 0)
  BY <1>1, <1>2, <1>6, <1>8, Undo
<1>10. t.cur = m.cur
  BY <1>8 DEF SameTop
<1>11. Asks(pc, t)
  BY <1>8, AsksSame
<1> QED
  BY <1>3, <1>8, <1>9, <1>10, <1>11 DEF Refused

\* Of the free bytes only those of the tail matter.
LEMMA BalancingFree ==
    ASSUME NEW cur, NEW tail, NEW fr, NEW fr2, NEW rs, NEW n, Balancing(cur, tail, fr, rs, n),
           fr2[tail] = fr[tail]
    PROVE  Balancing(cur, tail, fr2, rs, n)
BY DEF Balancing, Behind

\* The outcomes of an iteration of balance.
LEMMA BalanceCases ==
    ASSUME NEW w, NEW o \in balance(w), NEW k, k = w.file[w.cur].resv
    PROVE  \/ /\ w.file[w.tail].free >= k /\ o.ok
              /\ o.w = usenext(moveresv(w, w.tail, w.cur, k))
           \/ ~o.ok /\ o.w = w
           \/ /\ ~(w.file[w.tail].free >= k) /\ o.ok /\ w.next \in Seqs
              /\ \E u : u = Grown(w) /\ o.w = usenext(moveresv(u, u.tail, w.cur, k))
<1>1. PICK x \in needfree(w, k) :
        o = IF x.ok THEN Ok(usenext(moveresv(x.w, x.w.tail, w.cur, k))) ELSE x
  BY DEF balance
<1>2. x.ok => o = Ok(usenext(moveresv(x.w, x.w.tail, w.cur, k)))
  BY <1>1
<1>3. CASE w.file[w.tail].free >= k /\ x.ok /\ x.w = w
  <2>1. o = Ok(usenext(moveresv(w, w.tail, w.cur, k)))
    BY <1>2, <1>3
  <2> QED
    BY <1>3, <2>1 DEF Ok
<1>4. CASE ~x.ok /\ x.w = w
  BY <1>1, <1>4
<1>5. CASE ~(w.file[w.tail].free >= k) /\ x.ok /\ w.next \in Seqs /\ x.w = Grown(w)
  <2>1. PICK u : u = Grown(w)
    OBVIOUS
  <2>2. o = Ok(usenext(moveresv(u, u.tail, w.cur, k)))
    BY <1>2, <1>5, <2>1
  <2>3. o.ok /\ o.w = usenext(moveresv(u, u.tail, w.cur, k))
    BY <2>2 DEF Ok
  <2> QED
    BY <1>5, <2>1, <2>3
<1> QED
  BY <1>3, <1>4, <1>5, NeedFree

\* The current file gives its bytes to the tail and is passed over.
LEMMA PassOver ==
    ASSUME NEW u, NEW x, NEW mv, Yard(u, x, mv), NEW k \in Int, u.cur # u.tail, NEW v,
           v = moveresv(u, u.tail, u.cur, k), Room(u.cur, u.tail, Fr(v), Rs(v)), Rs(v)[u.cur] = 0,
           NEW t, t = usenext(v)
    PROVE  /\ Yard(t, x, mv) /\ SameJobs(u, t) /\ t.cur = u.cur + 1 /\ t.tail = u.tail
           /\ Rs(t) = Rs(v) /\ Fr(t)[u.tail] = Fr(v)[u.tail]
<1>1. u.cur \in Seqs /\ u.tail \in Seqs /\ u.cur <= u.tail /\ u.cur \in Nat /\ u.tail \in Nat
  BY YardNonNeg
<1>2. Yard(v, x, mv) /\ SameTop(u, v) /\ SameChain(u, v) /\ SameJobs(u, v)
  BY <1>1, YardMove
<1>3. v.cur = u.cur /\ v.tail = u.tail
  BY <1>2 DEF SameTop, SameChain
<1>4. v.cur < v.tail /\ Rs(v)[v.cur] = 0
  BY <1>1, <1>3
<1>5. /\ Yard(t, x, mv) /\ SameJobs(v, t) /\ t.cur = v.cur + 1 /\ t.tail = v.tail
      /\ Rs(t) = Rs(v) /\ Fr(t)[v.tail] = Fr(v)[v.tail]
  BY <1>2, <1>4, YardNext
<1> QED
  BY <1>2, <1>3, <1>5 DEF SameJobs

LEMMA BalanceStep ==
    ASSUME RoomyFiles, WInv, Balance
    PROVE  Holding
<1>1. Stable /\ Process(m, pc) /\ pc.at = "balance" /\ disk \in Images /\ rewriting \subseteq Ids
  BY DEF WInv, Balance, Stable
<1>2. /\ Asks(pc, m) /\ Arranged(pc, m) /\ pc \in PCs /\ m.use
      /\ \E x, mv : x = Owed(pc) + pc.n /\ mv = {} /\ Yard(m, x, mv)
  BY <1>1, AskedBalancing
<1>3. PICK y, mv : y = Owed(pc) + pc.n /\ mv = {} /\ Yard(m, y, mv)
  BY <1>2
<1>4. Balancing(m.cur, m.tail, Fr(m), Rs(m), pc.n)
  BY <1>1, <1>2 DEF Arranged
<1>5. m \in Memo /\ m.cur \in Seqs /\ m.tail \in Seqs /\ m.cur <= m.tail /\ m.cur \in Nat
      /\ m.tail \in Nat /\ Room(m.cur, m.tail, Fr(m), Rs(m))
  BY <1>3, YardNonNeg
<1>6. pc.n \in Amounts /\ pc.n \in Nat
  BY <1>2, OwedInt DEF Asks
<1>7. PICK k : k = Rs(m)[m.cur]
  OBVIOUS
<1>8. k \in Int /\ k = m.file[m.cur].resv /\ m.file[m.tail].free = Fr(m)[m.tail]
      /\ Fr(m)[m.tail] \in Int
  BY <1>5, <1>7, SpaceType
<1>9. CASE ~(k < pc.n)
  <2>1. PICK q : q = Moved(pc, "rest", m.cur)
    OBVIOUS
  <2>2. pc' = [pc EXCEPT !.at = "rest", !.b = m.cur] /\ m' = m /\ disk' = disk
        /\ rewriting' = rewriting
    BY <1>8, <1>9 DEF Balance
  <2>3. pc' = q
    BY <2>1, <2>2 DEF Moved
  <2>4. PICK a : a = "rest"
    OBVIOUS
  <2>5. a \in Places /\ q = Moved(pc, a, m.cur)
    BY <2>1, <2>4 DEF Places
  <2>6. q \in PCs /\ SameAsk(pc, q) /\ q.at = a /\ q.b = m.cur
    BY <1>2, <1>5, <2>5, MovedOf
  <2>7. Rs(m)[m.cur] >= pc.n
    BY <1>6, <1>7, <1>8, <1>9
  <2>8. Resting(m.cur, m.tail, Fr(m), Rs(m), pc.n, m.cur)
    BY <1>4, <1>5, <1>6, <2>7, RestStart
  <2>9. Arranged(q, m)
    BY <2>4, <2>6, <2>8 DEF Arranged, SameAsk
  <2>10. Process(m, q)
    BY <1>2, <1>3, <2>4, <2>6, <2>9, AskBalancing
  <2> QED
    BY <1>1, <2>2, <2>3, <2>10 DEF Holding
<1>10. CASE k < pc.n
  <2>1. PICK o \in balance(m) :
          IF o.ok THEN Become(o.w) /\ UNCHANGED <<pc, rewriting>>
          ELSE NotReserved(Undone(o.w), pc)
    BY <1>8, <1>10 DEF Balance
  <2>2. Rs(m)[m.cur] < pc.n
    BY <1>7, <1>10
  <2>3. m.cur < m.tail /\ Lent(m.tail, Rs(m), pc.n) /\ m.cur # m.tail
    BY <1>4, <1>5, <1>6, <2>2, LentTail
  <2>4. ASSUME NEW t, o.w = t, o.ok, Yard(t, y, mv), SameJobs(m, t),
               Balancing(t.cur, t.tail, Fr(t), Rs(t), pc.n)
        PROVE  Holding
    <3>1. m' = t /\ disk' = DiskFor(t) /\ pc' = pc /\ rewriting' = rewriting
      BY <2>1, <2>4 DEF Become
    <3>2. Asks(pc, t)
      BY <1>2, <2>4, AsksSame
    <3>3. Arranged(pc, t)
      BY <1>1, <2>4 DEF Arranged
    <3>4. SameAsk(pc, pc) /\ pc.at \in {"balance", "rest"}
      BY <1>1 DEF SameAsk
    <3>5. Process(t, pc)
      BY <1>2, <1>3, <2>4, <3>2, <3>3, <3>4, AskBalancing
    <3>6. disk' \in Images
      BY <1>1, <3>1, DiskOf
    <3> QED
      BY <1>1, <3>1, <3>5, <3>6 DEF Holding
  <2>5. CASE ~o.ok /\ o.w = m
    <3>1. PICK t : t = Undone(m)
      OBVIOUS
    <3>2. NotReserved(t, pc)
      BY <2>1, <2>5, <3>1
    <3>3. Refused(t, pc)
      BY <1>2, <1>3, <2>3, <3>1, UndoneOf
    <3> QED
      BY <1>1, <3>2, <3>3, NotReservedStep
  <2>6. CASE /\ m.file[m.tail].free >= k /\ o.ok
             /\ o.w = usenext(moveresv(m, m.tail, m.cur, k))
    <3>1. PICK v : v = moveresv(m, m.tail, m.cur, k)
      OBVIOUS
    <3>2. PICK t : t = usenext(v)
      OBVIOUS
    <3>3. Shift(Fr(m), Rs(m), Fr(v), Rs(v), m.tail, m.cur, k)
      BY <1>5, <1>8, <2>3, <3>1, MoveOf
    <3>4. Fr(m)[m.tail] >= Rs(m)[m.cur]
      BY <1>7, <1>8, <2>6
    <3>5. /\ Room(m.cur, m.tail, Fr(v), Rs(v)) /\ Rs(v)[m.cur] = 0
          /\ Balancing(m.cur + 1, m.tail, Fr(v), Rs(v), pc.n)
      BY <1>4, <1>5, <1>6, <1>7, <2>2, <3>3, <3>4, BalanceMove
    <3>6. /\ Yard(t, y, mv) /\ SameJobs(m, t) /\ t.cur = m.cur + 1 /\ t.tail = m.tail
          /\ Rs(t) = Rs(v) /\ Fr(t)[m.tail] = Fr(v)[m.tail]
      BY <1>3, <1>8, <2>3, <3>1, <3>2, <3>5, PassOver
    <3>7. Balancing(m.cur + 1, m.tail, Fr(t), Rs(v), pc.n)
      BY <3>5, <3>6, BalancingFree
    <3> QED
      BY <2>4, <2>6, <3>1, <3>2, <3>6, <3>7
  <2>7. CASE /\ ~(m.file[m.tail].free >= k) /\ o.ok /\ m.next \in Seqs
             /\ \E u : u = Grown(m) /\ o.w = usenext(moveresv(u, u.tail, m.cur, k))
    <3>1. PICK u : u = Grown(m) /\ o.w = usenext(moveresv(u, u.tail, m.cur, k))
      BY <2>7
    <3>2. Fr(m)[m.tail] < Rs(m)[m.cur] /\ Fr(m)[m.tail] < pc.n
      BY <1>6, <1>7, <1>8, <1>10, <2>7
    <3>3. Heavy(Rs(m), m.tail)
      <4>1. Fr(m)[m.tail] + Rs(m)[m.tail] = Cap /\ Rs(m)[m.tail] \in Int
        BY <1>5, <2>3, RoomType
      <4> QED
        BY <1>6, <1>8, <3>2, <4>1, HeavyOf
    <3>4. /\ Yard(u, y, mv) /\ SameTop(m, u) /\ SameJobs(m, u) /\ Rs(u) = Rs(m)
          /\ u.tail = m.tail + 1 /\ u.tail \in Seqs /\ Grows1(Fr(m), Fr(u), u.tail)
      BY <1>3, <2>7, <3>1, <3>3, YardGrow
    <3>5. u.cur = m.cur /\ u.cur # u.tail /\ u \in Memo /\ u.cur \in Seqs
      BY <1>5, <2>3, <3>4 DEF SameTop, Yard
    <3>6. PICK v : v = moveresv(u, u.tail, u.cur, k)
      OBVIOUS
    <3>7. PICK t : t = usenext(v)
      OBVIOUS
    <3>8. Shift(Fr(u), Rs(u), Fr(v), Rs(v), u.tail, u.cur, k)
      BY <1>8, <3>4, <3>5, <3>6, MoveOf
    <3>9. Shift(Fr(u), Rs(m), Fr(v), Rs(v), u.tail, m.cur, Rs(m)[m.cur])
      BY <1>7, <3>4, <3>5, <3>8
    <3>10. /\ Room(m.cur, u.tail, Fr(v), Rs(v)) /\ Rs(v)[m.cur] = 0
           /\ Balancing(m.cur + 1, u.tail, Fr(v), Rs(v), pc.n)
      <4>1. PICK new : new = u.tail
        OBVIOUS
      <4>2. PICK fr1 : fr1 = Fr(u)
        OBVIOUS
      <4>3. new \in Seqs /\ new = m.tail + 1 /\ Grows1(Fr(m), fr1, new)
            /\ Shift(fr1, Rs(m), Fr(v), Rs(v), new, m.cur, Rs(m)[m.cur])
        BY <3>4, <3>9, <4>1, <4>2
      <4>4. Fr(m)[m.tail] < Rs(m)[m.cur]
        BY <3>2
      <4>5. /\ Room(m.cur, new, Fr(v), Rs(v)) /\ Rs(v)[m.cur] = 0
            /\ Balancing(m.cur + 1, new, Fr(v), Rs(v), pc.n)
        <5>1. PICK fr, rs, fr2, rs2 : fr = Fr(m) /\ rs = Rs(m) /\ fr2 = Fr(v) /\ rs2 = Rs(v)
          OBVIOUS
        <5>2. PICK cur, tail, n : cur = m.cur /\ tail = m.tail /\ n = pc.n
          OBVIOUS
        <5>3. /\ Room(cur, tail, fr, rs) /\ n \in Amounts /\ Balancing(cur, tail, fr, rs, n)
              /\ rs[cur] < n /\ fr[tail] < rs[cur] /\ new = tail + 1 /\ Grows1(fr, fr1, new)
              /\ Shift(fr1, rs, fr2, rs2, new, cur, rs[cur]) /\ new \in Seqs
          BY <1>4, <1>5, <1>6, <2>2, <4>3, <4>4, <5>1, <5>2
        <5>4. /\ Room(cur, new, fr2, rs2) /\ rs2[cur] = 0
              /\ Balancing(cur + 1, new, fr2, rs2, n)
          BY <5>3, BalanceNew
        <5> QED
          BY <5>1, <5>2, <5>4
      <4> QED
        BY <4>1, <4>5
    <3>11. /\ Yard(t, y, mv) /\ SameJobs(u, t) /\ t.cur = u.cur + 1 /\ t.tail = u.tail
           /\ Rs(t) = Rs(v) /\ Fr(t)[u.tail] = Fr(v)[u.tail]
      <4>1. Room(u.cur, u.tail, Fr(v), Rs(v)) /\ Rs(v)[u.cur] = 0
        BY <3>5, <3>10
      <4> QED
        BY <1>8, <3>4, <3>5, <3>6, <3>7, <4>1, PassOver
    <3>12. Balancing(m.cur + 1, u.tail, Fr(t), Rs(v), pc.n)
      BY <3>10, <3>11, BalancingFree
    <3>13. SameJobs(m, t) /\ t.cur = m.cur + 1
      BY <3>4, <3>5, <3>11 DEF SameJobs
    <3>14. o.w = t
      BY <3>1, <3>5, <3>6, <3>7
    <3> QED
      BY <2>4, <2>7, <3>11, <3>12, <3>13, <3>14
  <2> QED
    BY <1>8, <2>5, <2>6, <2>7, BalanceCases
<1> QED
  BY <1>9, <1>10

\* The outcomes of balancerest for a file.
LEMMA RestOutcomes ==
    ASSUME NEW w, NEW b, NEW k, NEW o \in balancerest(w, b, k),
           NEW r, r = remainder(w.file[b].resv - k), NEW c, c = Z - r
    PROVE  \/ r = 0 /\ o.ok /\ o.w = w
           \/ /\ r # 0 /\ o.ok /\ w.file[w.tail].resv >= c /\ w.file[b].free >= c
              /\ o.w = moveresv(w, b, w.tail, c)
           \/ /\ r # 0 /\ o.ok /\ w.file[w.tail].free >= r /\ o.w = moveresv(w, w.tail, b, r)
           \/ r # 0 /\ ~(w.file[w.tail].free >= r) /\ ~o.ok /\ o.w = w
           \/ /\ r # 0 /\ ~(w.file[w.tail].free >= r) /\ o.ok /\ w.next \in Seqs
              /\ \E u : u = Grown(w) /\ o.w = moveresv(u, u.tail, b, r)
<1>1. CASE r = 0
  <2>1. o = Ok(w)
    BY <1>1 DEF balancerest
  <2> QED
    BY <1>1, <2>1 DEF Ok
<1>2. CASE r # 0 /\ w.file[w.tail].resv >= c /\ w.file[b].free >= c
  <2>1. o = Ok(moveresv(w, b, w.tail, c))
    BY <1>2 DEF balancerest
  <2> QED
    BY <1>2, <2>1 DEF Ok
<1>3. CASE r # 0 /\ ~(w.file[w.tail].resv >= c /\ w.file[b].free >= c)
  <2>1. PICK x \in needfree(w, r) :
          o = IF x.ok THEN Ok(moveresv(x.w, x.w.tail, b, r)) ELSE x
    BY <1>3 DEF balancerest
  <2>2. x.ok => o = Ok(moveresv(x.w, x.w.tail, b, r))
    BY <2>1
  <2>3. CASE w.file[w.tail].free >= r /\ x.ok /\ x.w = w
    <3>1. o = Ok(moveresv(w, w.tail, b, r))
      BY <2>2, <2>3
    <3> QED
      BY <1>3, <2>3, <3>1 DEF Ok
  <2>4. CASE ~(w.file[w.tail].free >= r) /\ ~x.ok /\ x.w = w
    BY <1>3, <2>1, <2>4
  <2>5. CASE ~(w.file[w.tail].free >= r) /\ x.ok /\ w.next \in Seqs /\ x.w = Grown(w)
    <3>1. PICK u : u = Grown(w)
      OBVIOUS
    <3>2. o = Ok(moveresv(u, u.tail, b, r))
      BY <2>2, <2>5, <3>1
    <3>3. o.ok /\ o.w = moveresv(u, u.tail, b, r)
      BY <3>2 DEF Ok
    <3> QED
      BY <1>3, <2>5, <3>1, <3>3
  <2> QED
    BY <2>3, <2>4, <2>5, NeedFree
<1> QED
  BY <1>1, <1>2, <1>3

\* balancerest has dealt with a file.
LEMMA RestedStep ==
    ASSUME Stable, pc \in PCs, NEW t, Asks(pc, t), pc.at = "rest", NEW y, NEW mv,
           y = Owed(pc) + pc.n, mv = {}, Yard(t, y, mv),
           Rested(t.cur, t.tail, Fr(t), Rs(t), pc.n, pc.b),
           IF pc.b = t.tail THEN Reserved(t, [pc EXCEPT !.b = Nil])
           ELSE /\ Become(t)
                /\ pc' = [pc EXCEPT !.b = @ + 1]
                /\ UNCHANGED rewriting
    PROVE  Holding
<1>1. disk \in Images /\ rewriting \subseteq Ids
  BY DEF Stable
<1>2. CASE pc.b = t.tail
  <2>1. PICK q : q = [pc EXCEPT !.b = Nil]
    OBVIOUS
  <2>2. Reserved(t, q)
    BY <1>2, <2>1
  <2>3. q \in PCs /\ SameAsk(pc, q)
    <3>1. PICK b : b = Nil
      OBVIOUS
    <3> QED
      BY <2>1, <3>1, BOf
  <2>4. Asks(q, t) /\ Owed(q) = Owed(pc) /\ q.n = pc.n
    BY <2>3, AsksMoved
  <2>5. Even(t.cur, Rs(t), pc.n) /\ Rs(t)[t.cur] >= pc.n
    BY <1>2 DEF Rested
  <2>6. Granted(t, q)
    BY <2>4, <2>5 DEF Granted
  <2> QED
    BY <2>2, <2>6, ReservedStep
<1>3. CASE pc.b # t.tail
  <2>1. PICK b : b = pc.b + 1
    OBVIOUS
  <2>2. Resting(t.cur, t.tail, Fr(t), Rs(t), pc.n, b)
    BY <1>3, <2>1 DEF Rested
  <2>3. b \in Seqs
    BY <2>2 DEF Resting
  <2>4. PICK q : q = [pc EXCEPT !.b = b]
    OBVIOUS
  <2>5. m' = t /\ disk' = DiskFor(t) /\ pc' = q /\ rewriting' = rewriting
    BY <1>3, <2>1, <2>4 DEF Become
  <2>6. q \in PCs /\ SameAsk(pc, q) /\ q.at = "rest" /\ q.b = b
    BY <2>3, <2>4, BOf
  <2>7. Arranged(q, t)
    BY <2>2, <2>6 DEF Arranged, SameAsk
  <2>8. Process(t, q)
    BY <2>6, <2>7, AskBalancing
  <2>9. disk' \in Images
    BY <1>1, <2>5, DiskOf
  <2> QED
    BY <1>1, <2>5, <2>8, <2>9 DEF Holding
<1> QED
  BY <1>2, <1>3

LEMMA BalanceRestStep ==
    ASSUME RoomyFiles, WInv, BalanceRest
    PROVE  Holding
<1>1. Stable /\ Process(m, pc) /\ pc.at = "rest" /\ disk \in Images /\ rewriting \subseteq Ids
  BY DEF WInv, BalanceRest, Stable
<1>2. /\ Asks(pc, m) /\ Arranged(pc, m) /\ pc \in PCs /\ m.use
      /\ \E x, mv : x = Owed(pc) + pc.n /\ mv = {} /\ Yard(m, x, mv)
  BY <1>1, AskedBalancing
<1>3. PICK y, mv : y = Owed(pc) + pc.n /\ mv = {} /\ Yard(m, y, mv)
  BY <1>2
<1>4. PICK cur, tail, fr, rs, n, b :
         /\ cur = m.cur /\ tail = m.tail /\ fr = Fr(m) /\ rs = Rs(m) /\ n = pc.n /\ b = pc.b
  OBVIOUS
<1>5. Resting(cur, tail, fr, rs, n, b)
  BY <1>1, <1>2, <1>4 DEF Arranged
<1>6. m \in Memo /\ cur \in Seqs /\ tail \in Seqs /\ cur <= tail /\ cur \in Nat
      /\ tail \in Nat /\ Room(cur, tail, fr, rs)
  BY <1>3, <1>4, YardNonNeg
<1>7. n \in Amounts /\ n \in Nat
  BY <1>2, <1>4, OwedInt DEF Asks
<1>8. PICK k : k = (IF b = cur THEN n ELSE 0)
  OBVIOUS
<1>9. PICK r : r = (rs[b] - k) % Z
  OBVIOUS
<1>10. PICK c : c = Z - r
  OBVIOUS
<1>11. b \in Seqs /\ cur <= b /\ b <= tail
  BY <1>5 DEF Resting
<1>12. /\ \A f \in Seqs : rs[f] = m.file[f].resv /\ fr[f] = m.file[f].free
       /\ \A f \in Seqs : rs[f] \in Int /\ fr[f] \in Int
  BY <1>4, <1>6, SpaceType
<1>13. r = remainder(m.file[b].resv - k)
  <2>1. rs[b] >= k
    <3>1. CASE b = cur
      BY <1>5, <1>8, <3>1 DEF Resting
    <3>2. CASE b # cur
      BY <1>6, <1>8, <1>11, <3>2 DEF Room
    <3> QED
      BY <3>1, <3>2
  <2>2. PICK a \in Int : a = m.file[b].resv - k /\ a >= 0 /\ a = rs[b] - k
    BY <1>7, <1>8, <1>11, <1>12, <2>1
  <2> QED
    BY <1>9, <2>2 DEF remainder
<1>14. PICK o \in balancerest(m, b, k) :
          IF ~o.ok THEN NotReserved(Undone(o.w), [pc EXCEPT !.b = Nil])
          ELSE IF pc.b = o.w.tail THEN Reserved(o.w, [pc EXCEPT !.b = Nil])
          ELSE /\ Become(o.w)
               /\ pc' = [pc EXCEPT !.b = @ + 1]
               /\ UNCHANGED rewriting
  BY <1>4, <1>8 DEF BalanceRest
<1>15. ASSUME NEW t, o.w = t, o.ok, Yard(t, y, mv), SameJobs(m, t),
              Rested(t.cur, t.tail, Fr(t), Rs(t), n, b)
       PROVE  Holding
  <2>1. IF pc.b = t.tail THEN Reserved(t, [pc EXCEPT !.b = Nil])
        ELSE /\ Become(t)
             /\ pc' = [pc EXCEPT !.b = @ + 1]
             /\ UNCHANGED rewriting
    BY <1>14, <1>15
  <2>2. Asks(pc, t)
    BY <1>2, <1>15, AsksSame
  <2>3. Rested(t.cur, t.tail, Fr(t), Rs(t), pc.n, pc.b)
    BY <1>4, <1>15
  <2> QED
    BY <1>1, <1>2, <1>3, <1>15, <2>1, <2>2, <2>3, RestedStep
<1>16. r # 0 => b < tail /\ b # tail /\ r \in Nat /\ 0 < r /\ r < Z /\ c \in Nat
  <2> SUFFICES ASSUME r # 0
               PROVE  b < tail /\ b # tail /\ r \in Nat /\ 0 < r /\ r < Z /\ c \in Nat
    OBVIOUS
  <2>1. b < tail /\ r \in Nat /\ 0 < r /\ r < Z
    BY <1>5, <1>6, <1>7, <1>8, <1>9, RestCases
  <2>2. b \in Nat /\ Z \in Nat
    BY <1>11, SeqsNat
  <2> QED
    BY <1>6, <1>10, <2>1, <2>2
<1>17. CASE r = 0 /\ o.ok /\ o.w = m
  <2>1. (rs[b] - k) % Z = 0
    BY <1>9, <1>17
  <2>2. Rested(cur, tail, fr, rs, n, b)
    BY <1>5, <1>6, <1>7, <1>8, <2>1, RestNone
  <2>3. SameJobs(m, m)
    BY DEF SameJobs
  <2> QED
    BY <1>3, <1>4, <1>15, <1>17, <2>2, <2>3
<1>18. CASE /\ r # 0 /\ o.ok /\ m.file[m.tail].resv >= c /\ m.file[b].free >= c
            /\ o.w = moveresv(m, b, m.tail, c)
  <2>1. PICK t : t = moveresv(m, b, tail, c)
    OBVIOUS
  <2>2. b # tail /\ c \in Int /\ c = Z - r
    BY <1>10, <1>16, <1>18
  <2>3. Shift(Fr(m), Rs(m), Fr(t), Rs(t), b, tail, c)
    BY <1>6, <1>11, <2>1, <2>2, MoveOf
  <2>4. Shift(fr, rs, Fr(t), Rs(t), b, tail, c)
    BY <1>4, <2>3
  <2>5. rs[tail] >= c /\ fr[b] >= c
    BY <1>4, <1>6, <1>11, <1>12, <1>18
  <2>6. Room(cur, tail, Fr(t), Rs(t)) /\ Rested(cur, tail, Fr(t), Rs(t), n, b)
    BY <1>5, <1>6, <1>7, <1>8, <1>9, <1>18, <2>2, <2>4, <2>5, RestBack
  <2>7. m.cur <= b /\ b <= m.tail /\ m.cur <= tail /\ tail <= m.tail
        /\ Room(m.cur, m.tail, Fr(t), Rs(t))
    BY <1>4, <1>6, <1>11, <2>6
  <2>8. Yard(t, y, mv) /\ SameTop(m, t) /\ SameChain(m, t) /\ SameJobs(m, t)
    BY <1>3, <1>6, <1>11, <2>1, <2>2, <2>7, YardMove
  <2>9. t.cur = cur /\ t.tail = tail
    BY <1>4, <2>8 DEF SameTop, SameChain
  <2> QED
    BY <1>4, <1>15, <1>18, <2>1, <2>6, <2>8, <2>9
<1>19. CASE r # 0 /\ o.ok /\ m.file[m.tail].free >= r /\ o.w = moveresv(m, m.tail, b, r)
  <2>1. PICK t : t = moveresv(m, tail, b, r)
    OBVIOUS
  <2>2. tail # b /\ r \in Int
    BY <1>16, <1>19
  <2>3. Shift(Fr(m), Rs(m), Fr(t), Rs(t), tail, b, r)
    BY <1>6, <1>11, <2>1, <2>2, MoveOf
  <2>4. Shift(fr, rs, Fr(t), Rs(t), tail, b, r)
    BY <1>4, <2>3
  <2>5. fr[tail] >= r
    BY <1>4, <1>6, <1>12, <1>19
  <2>6. Room(cur, tail, Fr(t), Rs(t)) /\ Rested(cur, tail, Fr(t), Rs(t), n, b)
    BY <1>5, <1>6, <1>7, <1>8, <1>9, <1>19, <2>4, <2>5, RestOn
  <2>7. m.cur <= b /\ b <= m.tail /\ m.cur <= tail /\ tail <= m.tail
        /\ Room(m.cur, m.tail, Fr(t), Rs(t))
    BY <1>4, <1>6, <1>11, <2>6
  <2>8. Yard(t, y, mv) /\ SameTop(m, t) /\ SameChain(m, t) /\ SameJobs(m, t)
    BY <1>3, <1>6, <1>11, <2>1, <2>2, <2>7, YardMove
  <2>9. t.cur = cur /\ t.tail = tail
    BY <1>4, <2>8 DEF SameTop, SameChain
  <2> QED
    BY <1>4, <1>15, <1>19, <2>1, <2>6, <2>8, <2>9
<1>20. CASE r # 0 /\ ~(m.file[m.tail].free >= r) /\ ~o.ok /\ o.w = m
  <2>1. fr[tail] < r
    BY <1>4, <1>6, <1>12, <1>16, <1>20
  <2>2. cur < tail /\ Lent(tail, rs, n)
    BY <1>5, <1>6, <1>7, <1>8, <1>9, <1>20, <2>1, RestTail
  <2>3. PICK t : t = Undone(m)
    OBVIOUS
  <2>4. PICK q : q = [pc EXCEPT !.b = Nil]
    OBVIOUS
  <2>5. NotReserved(t, q)
    BY <1>14, <1>20, <2>3, <2>4
  <2>6. m.cur # m.tail /\ Lent(m.tail, Rs(m), pc.n)
    BY <1>4, <1>6, <2>2
  <2>7. Refused(t, pc)
    BY <1>2, <1>3, <2>3, <2>6, UndoneOf
  <2>8. q \in PCs /\ SameAsk(pc, q)
    <3>1. PICK d : d = Nil
      OBVIOUS
    <3> QED
      BY <1>2, <2>4, <3>1, BOf
  <2>9. Refused(t, q)
    <3>1. Asks(pc, t)
      BY <2>7 DEF Refused
    <3>2. Asks(q, t) /\ Owed(q) = Owed(pc)
      BY <2>8, <3>1, AsksMoved
    <3> QED
      BY <2>7, <3>2 DEF Refused
  <2> QED
    BY <1>1, <2>5, <2>9, NotReservedStep
<1>21. CASE /\ r # 0 /\ ~(m.file[m.tail].free >= r) /\ o.ok /\ m.next \in Seqs
            /\ \E u : u = Grown(m) /\ o.w = moveresv(u, u.tail, b, r)
  <2>1. PICK u : u = Grown(m) /\ o.w = moveresv(u, u.tail, b, r)
    BY <1>21
  <2>2. fr[tail] < r
    BY <1>4, <1>6, <1>12, <1>16, <1>21
  <2>3. Heavy(rs, tail)
    BY <1>5, <1>6, <1>7, <1>8, <1>9, <1>21, <2>2, RestTail
  <2>4. /\ Yard(u, y, mv) /\ SameTop(m, u) /\ SameJobs(m, u) /\ Rs(u) = Rs(m)
        /\ u.tail = m.tail + 1 /\ u.tail \in Seqs /\ Grows1(Fr(m), Fr(u), u.tail)
    <3>1. Heavy(Rs(m), m.tail)
      BY <1>4, <2>3
    <3> QED
      BY <1>3, <1>21, <2>1, <3>1, YardGrow
  <2>5. PICK new, fr1 : new = u.tail /\ fr1 = Fr(u)
    OBVIOUS
  <2>6. new \in Seqs /\ new = tail + 1 /\ Grows1(fr, fr1, new) /\ u \in Memo /\ new # b
        /\ new \in Nat /\ u.cur = cur /\ b <= new /\ cur <= new
    <3>1. u \in Memo /\ u.cur = m.cur
      BY <2>4 DEF Yard, SameTop
    <3>2. b \in Nat /\ b < tail
      BY <1>11, <1>16, <1>21, SeqsNat
    <3>3. new \in Seqs /\ new = tail + 1 /\ Grows1(fr, fr1, new)
      BY <1>4, <2>4, <2>5
    <3> QED
      BY <1>4, <1>6, <3>1, <3>2, <3>3
  <2>7. PICK t : t = moveresv(u, new, b, r)
    OBVIOUS
  <2>8. r \in Int
    BY <1>16, <1>21
  <2>9. Shift(Fr(u), Rs(u), Fr(t), Rs(t), new, b, r)
    BY <1>11, <2>6, <2>7, <2>8, MoveOf
  <2>10. PICK fr2, rs2 : fr2 = Fr(t) /\ rs2 = Rs(t)
    OBVIOUS
  <2>11. Shift(fr1, rs, fr2, rs2, new, b, r)
    BY <1>4, <2>4, <2>5, <2>9, <2>10
  <2>12. Room(cur, new, fr2, rs2) /\ Rested(cur, new, fr2, rs2, n, b)
    <3>1. r # 0 /\ new \in Seqs /\ new = tail + 1 /\ Grows1(fr, fr1, new)
      BY <1>21, <2>6
    <3> QED
      BY <1>5, <1>6, <1>7, <1>8, <1>9, <2>2, <2>11, <3>1, RestNew
  <2>13. Room(u.cur, u.tail, Fr(t), Rs(t)) /\ u.cur <= b /\ b <= u.tail /\ u.cur <= new
         /\ new <= u.tail
    BY <1>11, <2>5, <2>6, <2>10, <2>12
  <2>14. Yard(t, y, mv) /\ SameTop(u, t) /\ SameChain(u, t) /\ SameJobs(u, t)
    BY <1>11, <2>4, <2>6, <2>7, <2>8, <2>13, YardMove
  <2>15. t.cur = cur /\ t.tail = new /\ SameJobs(m, t)
    BY <2>4, <2>5, <2>6, <2>14 DEF SameTop, SameChain, SameJobs
  <2> QED
    BY <1>15, <1>21, <2>1, <2>5, <2>7, <2>10, <2>12, <2>14, <2>15
<1> QED
  BY <1>10, <1>13, <1>17, <1>18, <1>19, <1>20, <1>21, RestOutcomes

-----------------------------------------------------------------------------
(* The steps of walwrite                                                   *)

LEMMA FilesFinite ==
    ASSUME NEW w \in Memo
    PROVE  Nfile(w) \in Nat
<1>1. w.head \in Nat /\ w.tail \in Nat
  <2>1. w.head \in Seqs \cup {Nil} /\ w.tail \in Seqs \cup {Nil}
    BY MemoType
  <2>2. \A f \in Seqs \cup {Nil} : f \in Nat
    BY SeqsNat DEF Nil
  <2> QED
    BY <2>1, <2>2
<1>2. IsFiniteSet(w.head..w.tail) /\ IsFiniteSet({})
  BY <1>1, FS_Interval, FS_EmptySet
<1>3. IsFiniteSet(Files(w))
  BY <1>2 DEF Files
<1> QED
  BY <1>3, FS_CardinalityType DEF Nfile

LEMMA LedgerNat ==
    ASSUME NEW w \in Memo, Ledger(w)
    PROVE  w.alive \in Nat
<1>1. MaxId \in Nat /\ IsSum(MaxId, Used(w), w.alive)
  BY WalConstants DEF Ledger
<1>2. \A i \in 1..MaxId : Used(w)[i] \in Int /\ Used(w)[i] >= 0
  <2> SUFFICES ASSUME NEW i \in Ids PROVE Used(w)[i] \in Int /\ Used(w)[i] >= 0
    BY DEF Ids
  <2>1. w.job[i].walused \in Nat
    BY JobType
  <2> QED
    BY <2>1 DEF Used
<1>3. w.alive \in Int /\ w.alive >= 0
  BY <1>1, <1>2, SumBound
<1> QED
  BY <1>3

\* walmaint divides by what is alive and reserved.
LEMMA RatioInt ==
    ASSUME NEW w, NEW x, NEW mv, Yard(w, x, mv)
    PROVE  ratio(w) \in Int
<1>1. w \in Memo /\ Ledger(w) /\ IsSum(MaxSeq, Rs(w), w.resv)
      /\ Room(w.cur, w.tail, Fr(w), Rs(w))
  BY DEF Yard
<1>2. w.alive \in Nat
  BY <1>1, LedgerNat
<1>3. w.resv \in Nat
  <2>1. \A i \in 1..MaxSeq : Rs(w)[i] \in Int /\ Rs(w)[i] >= 0
    BY <1>1, RoomType DEF Seqs
  <2>2. w.resv \in Int /\ w.resv >= 0
    BY <1>1, <2>1, SumBound, SeqsNat
  <2> QED
    BY <2>2
<1>4. PICK d : d = w.alive + w.resv
  OBVIOUS
<1>5. PICK a : a = Nfile(w) * FileSize - d
  OBVIOUS
<1>6. a \in Int /\ d \in Nat
  BY <1>1, <1>2, <1>3, <1>4, <1>5, FilesFinite, WalConstants
<1>7. ratio(w) = (IF d = 0 THEN 0 ELSE a \div d)
  BY <1>4, <1>5 DEF ratio
<1>8. d # 0 => a \div d \in Int
  BY <1>6, Euclid
<1> QED
  BY <1>7, <1>8

LEMMA AfterWriteOf ==
    ASSUME NEW w, Settled(w), pc \in PCs, AfterWrite(w)
    PROVE  Process(w, pc')
<1>1. PICK r : r = (IF pc.op = "migrate" THEN pc.r - 1 ELSE ratio(w))
  OBVIOUS
<1>2. pc' = walmaint(r)
  BY <1>1 DEF AfterWrite
<1>3. r \in Int
  <2>1. ratio(w) \in Int
    BY RatioInt DEF Settled
  <2>2. pc.r \in Nat
    BY PCType
  <2> QED
    BY <1>1, <2>1, <2>2
<1>4. pc' \in PCs /\ (pc' = Idle \/ (pc'.at = "compact" /\ pc'.op = "migrate"))
  BY <1>2, <1>3, WalmaintOf
<1> QED
  BY <1>4, SettledIdle

\* The thread is about to write.
LEMMA WritingOf ==
    ASSUME Process(m, pc), pc.at = "write", m.use
    PROVE  /\ pc \in PCs /\ Yard(m, pc.n, Moving(pc)) /\ Even(m.cur, Rs(m), pc.n)
           /\ Rs(m)[m.cur] >= pc.n /\ pc.op \in {"put", "update", "delete", "migrate"}
           /\ pc.op = "put" => /\ pc.j \in Ids /\ pc.j = m.next_id /\ pc.to = "ready"
                               /\ pc.n - Z \in FullSizes /\ m.job[pc.j] = NoJob
                               /\ Moving(pc) = {}
           /\ pc.op = "update" => /\ pc.j \in Live(m) /\ pc.to \in LiveStates /\ pc.n = Z
                                  /\ m.job[pc.j].file # Nil /\ Moving(pc) = {}
           /\ pc.op = "delete" => /\ pc.j \in Live(m) /\ pc.to = "invalid" /\ pc.n = 0
                                  /\ m.job[pc.j].file # Nil /\ Moving(pc) = {}
           /\ pc.op = "migrate" => /\ pc.j \in Live(m) /\ pc.to = m.job[pc.j].state
                                   /\ pc.n = m.job[pc.j].size /\ pc.n \in FullSizes
                                   /\ m.job[pc.j].file = Nil /\ Moving(pc) = {pc.j}
<1>1. Upright(pc)
  BY DEF Upright
<1>2. pc \in PCs /\ Yard(m, Extra(pc, m), Moving(pc)) /\ Command(pc, m) /\ Arranged(pc, m)
  BY <1>1, ProcessUse
<1>3. /\ pc.op \in {"put", "update", "delete", "migrate"}
      /\ pc.op = "put" => pc.j \in Ids /\ pc.j = m.next_id /\ pc.to = "ready" /\ pc.n - Z \in FullSizes
      /\ pc.op = "update" => pc.j \in Live(m) /\ pc.to \in LiveStates /\ pc.n = Z
      /\ pc.op = "delete" => pc.j \in Live(m) /\ pc.to = "invalid" /\ pc.n = 0
      /\ pc.op = "migrate" => pc.j \in Live(m) /\ pc.to = m.job[pc.j].state
                              /\ pc.n = m.job[pc.j].size
  BY <1>2 DEF Command
<1>4. Due(pc, m) = pc.n /\ Extra(pc, m) = pc.n
  BY <1>3 DEF Due, Extra
<1>5. Even(m.cur, Rs(m), pc.n) /\ Rs(m)[m.cur] >= pc.n
  BY <1>2, <1>4 DEF Arranged
<1>6. Moving(pc) = IF pc.op = "migrate" THEN {pc.j} ELSE {}
  BY DEF Moving
<1>7. Yard(m, pc.n, Moving(pc))
  BY <1>2, <1>4
<1>8. \A j \in Live(m) : m.job[j].file = Nil <=> j \in Moving(pc)
  BY <1>7 DEF Yard
<1>9. pc.op = "put" => m.job[pc.j] = NoJob
  <2> SUFFICES ASSUME pc.op = "put" PROVE m.job[pc.j] = NoJob
    OBVIOUS
  <2>1. JobOk(m, pc.j)
    BY <1>3, <1>7 DEF Yard, Ledger
  <2>2. pc.j >= m.next_id
    BY <1>3, WalConstants DEF Ids
  <2> QED
    BY <2>1, <2>2 DEF JobOk
<1>10. pc.op = "migrate" => pc.n \in FullSizes
  <2> SUFFICES ASSUME pc.op = "migrate" PROVE pc.n \in FullSizes
    OBVIOUS
  <2>1. JobOk(m, pc.j) /\ m.job[pc.j].state # "none"
    BY <1>3, <1>7 DEF Yard, Ledger, Live, LiveStates
  <2> QED
    BY <1>3, <2>1 DEF JobOk
<1> QED
  BY <1>2, <1>3, <1>5, <1>6, <1>7, <1>8, <1>9, <1>10

\* The file that walwrite writes to has what it needs.
LEMMA WriteInOf ==
    ASSUME Process(m, pc), pc.at = "write", m.use
    PROVE  \E w : /\ WriteIn = {w} /\ Yard(w, pc.n, Moving(pc)) /\ SameJobs(m, w)
                  /\ Even(w.cur, Rs(w), pc.n) /\ Rs(w)[w.cur] >= pc.n
                  /\ pc.op = "delete" => Rs(w)[w.cur] >= Z
                  /\ pc.op # "delete" => w = m
<1>1. /\ pc \in PCs /\ Yard(m, pc.n, Moving(pc)) /\ Even(m.cur, Rs(m), pc.n)
      /\ Rs(m)[m.cur] >= pc.n /\ pc.op \in {"put", "update", "delete", "migrate"}
      /\ pc.op = "put" => pc.n - Z \in FullSizes
      /\ pc.op = "update" => pc.n = Z
      /\ pc.op = "delete" => pc.j \in Live(m) /\ pc.n = 0 /\ Moving(pc) = {}
      /\ pc.op = "migrate" => pc.n \in FullSizes
  BY WritingOf
<1>2. m \in Memo /\ m.cur \in Seqs /\ m.tail \in Seqs /\ m.cur \in Nat /\ m.tail \in Nat
      /\ Room(m.cur, m.tail, Fr(m), Rs(m))
  BY <1>1, YardNonNeg
<1>3. m.file[m.cur].resv = Rs(m)[m.cur] /\ Rs(m)[m.cur] \in Int /\ Rs(m) \in [Seqs -> Int]
      /\ Rs(m)[m.cur] >= 0
  BY <1>2, SpaceType DEF Room
<1>4. SameJobs(m, m)
  BY DEF SameJobs
<1>5. CASE pc.op # "delete"
  <2>1. pc.n > 0 /\ pc.n \in Nat
    <3>1. pc.n \in Nat /\ Z \in Nat /\ Z > 0 /\ \A a \in FullSizes : a \in Nat /\ a > Z
      BY <1>1, PCType, WalConstants
    <3> QED
      BY <1>1, <1>5, <3>1
  <2>2. m.file[m.cur].resv > 0
    BY <1>1, <1>3, <2>1
  <2>3. WriteIn = {m}
    BY <2>2 DEF WriteIn
  <2> QED
    BY <1>1, <1>4, <1>5, <2>3
<1>6. CASE pc.op = "delete" /\ Rs(m)[m.cur] > 0
  <2>1. WriteIn = {m}
    BY <1>3, <1>6 DEF WriteIn
  <2>2. Mult(Rs(m)[m.cur])
    BY <1>1, <1>2, <1>3, <1>6, MultZ, EvenAll
  <2>3. Rs(m)[m.cur] >= Z
    BY <1>3, <1>6, <2>2, MultPos
  <2> QED
    BY <1>1, <1>4, <1>6, <2>1, <2>3
<1>7. CASE pc.op = "delete" /\ Rs(m)[m.cur] = 0
  <2>1. PICK x, mv : x = 0 /\ mv = {} /\ Yard(m, x, mv) /\ pc.n = x /\ Moving(pc) = mv
    BY <1>1, <1>7
  <2>2. /\ m.cur < m.tail /\ m.cur + 1 \in Seqs /\ Rs(m)[m.cur + 1] >= Z
        /\ Even(m.cur + 1, Rs(m), 0)
    BY <1>1, <1>7, <2>1, NextCovers
  <2>3. PICK w : w = usenext(m)
    OBVIOUS
  <2>4. WriteIn = {w}
    BY <1>3, <1>7, <2>2, <2>3 DEF WriteIn
  <2>5. Yard(w, x, mv) /\ SameJobs(m, w) /\ w.cur = m.cur + 1 /\ Rs(w) = Rs(m)
    BY <1>7, <2>1, <2>2, <2>3, YardNext
  <2>6. Rs(w)[w.cur] >= Z /\ Even(w.cur, Rs(w), 0)
    BY <2>2, <2>5
  <2>7. Rs(w)[w.cur] >= 0
    BY <2>5, YardNonNeg DEF Room
  <2> QED
    BY <1>7, <2>1, <2>4, <2>5, <2>6, <2>7
<1> QED
  BY <1>3, <1>5, <1>6, <1>7

\* Record rec goes to the end of a file.
LEMMA AppendRecord ==
    ASSUME NEW d \in Images, NEW f \in Seqs, NEW rec \in Record, rec.full => rec.size \in FullSizes,
           NEW e, e = [d EXCEPT ![f].recs = Append(@, rec)]
    PROVE  e \in Images
<1>1. \A g \in Seqs : Kept(d[g])
  BY ImagesOf
<1>2. PICK k : k = d[f]
  OBVIOUS
<1>3. k \in Image /\ k.recs \in Seq(Record)
      /\ \A i \in 1..Len(k.recs) : k.recs[i].full => k.recs[i].size \in FullSizes
  BY <1>1, <1>2 DEF Kept, Image
<1>4. PICK l : l = Append(k.recs, rec)
  OBVIOUS
<1>5. /\ l \in Seq(Record) /\ Len(l) = Len(k.recs) + 1 /\ Len(k.recs) \in Nat
      /\ l[Len(k.recs) + 1] = rec /\ \A i \in 1..Len(k.recs) : l[i] = k.recs[i]
  BY <1>3, <1>4
<1>6. \A i \in 1..Len(l) : l[i].full => l[i].size \in FullSizes
  BY <1>3, <1>5
<1>7. PICK h : h = [k EXCEPT !.recs = l]
  OBVIOUS
<1>8. h \in Image /\ h.recs = l
  BY <1>3, <1>5, <1>7 DEF Image
<1>9. Kept(h)
  BY <1>6, <1>8 DEF Kept
<1>10. d \in [Seqs -> Image]
  BY DEF Images
<1>11. e = [d EXCEPT ![f] = h]
  BY <1>2, <1>4, <1>7, <1>10
<1>12. e = [g \in Seqs |-> IF g = f THEN h ELSE d[g]]
  BY <1>10, <1>11
<1>13. \A g \in Seqs : Kept(e[g])
  BY <1>1, <1>9, <1>12
<1>14. e = [g \in Seqs |-> e[g]]
  BY <1>12
<1> QED
  BY <1>13, <1>14, ImagesOf

LEMMA JobRecState ==
    ASSUME NEW k \in JobRec, NEW s \in LiveStates \cup {"none", "invalid"},
           NEW h, h = [k EXCEPT !.state = s]
    PROVE  /\ h \in JobRec /\ h.state = s /\ h.file = k.file /\ h.walused = k.walused
           /\ h.size = k.size /\ h.at = k.at /\ h.body = k.body
BY DEF JobRec

\* JobToWrite of a job that is known.
LEMMA KnownJob ==
    ASSUME m \in Memo, pc \in PCs, pc.op # "put", pc.j \in Ids, NEW k, k = JobToWrite
    PROVE  /\ k \in JobRec /\ k.state = pc.to /\ k.file = m.job[pc.j].file
           /\ k.walused = m.job[pc.j].walused /\ k.size = m.job[pc.j].size
           /\ k.at = m.job[pc.j].at /\ k.body = m.job[pc.j].body
<1>1. PICK h \in JobRec : h = m.job[pc.j]
  BY JobType
<1>2. PICK s \in LiveStates \cup {"none", "invalid"} : s = pc.to
  BY PCType
<1>3. k = [h EXCEPT !.state = s]
  BY <1>1, <1>2 DEF JobToWrite
<1>4. /\ k \in JobRec /\ k.state = s /\ k.file = h.file /\ k.walused = h.walused
      /\ k.size = h.size /\ k.at = h.at /\ k.body = h.body
  BY <1>3, JobRecState
<1> QED
  BY <1>1, <1>2, <1>4

\* JobToWrite of a job that put makes.
LEMMA NewJob ==
    ASSUME pc.op = "put", pc.to = "ready", pc.n - Z \in FullSizes, NEW k, k = JobToWrite
    PROVE  /\ k \in JobRec /\ k.state = pc.to /\ k.state \in LiveStates /\ k.file = Nil
           /\ k.walused = 0 /\ k.size = pc.n - Z /\ k.at \in Nat
<1>1. PICK a \in FullSizes : a = pc.n - Z
  OBVIOUS
<1>2. k = [NoJob EXCEPT !.state = pc.to, !.at = 1, !.size = a]
  BY <1>1 DEF JobToWrite
<1>3. NoJob \in JobRec /\ NoJob.file = Nil /\ NoJob.walused = 0
  BY NoJobType
<1>4. k \in JobRec
  <2>1. PICK s \in LiveStates : s = pc.to
    BY DEF LiveStates
  <2>2. PICK o \in Nat : o = 1
    OBVIOUS
  <2>3. PICK h \in JobRec : h = NoJob
    BY <1>3
  <2>4. k = [h EXCEPT !.state = s, !.at = o, !.size = a]
    BY <1>2, <2>1, <2>2, <2>3
  <2> QED
    BY <2>4 DEF JobRec
<1>5. k.state = pc.to /\ k.file = Nil /\ k.walused = 0 /\ k.size = a /\ k.at = 1
  BY <1>2, <1>3 DEF JobRec
<1> QED
  BY <1>1, <1>4, <1>5 DEF LiveStates

\* What a record of a job is.
LEMMA RecordType ==
    ASSUME pc.j \in Ids, pc.to \in LiveStates \cup {"invalid"}, NEW full \in BOOLEAN,
           NEW body \in Bodies, NEW k, k = JobToWrite, k.at \in Nat, full => k.size \in FullSizes,
           NEW rec, rec = RecordOf(full, body)
    PROVE  rec \in Record /\ (rec.full => rec.size \in FullSizes)
<1>1. PICK n : n = (IF full THEN k.size ELSE Z)
  OBVIOUS
<1>2. n \in FullSizes \cup {Z} /\ (full => n \in FullSizes)
  BY <1>1
<1>3. rec = [id |-> pc.j, full |-> full, state |-> pc.to, body |-> body, at |-> k.at, size |-> n]
  BY <1>1 DEF RecordOf
<1> QED
  BY <1>2, <1>3 DEF Record

LEMMA ViewRec ==
    ASSUME NEW s \in LiveStates, NEW b \in Bodies, NEW a \in Nat
    PROVE  [state |-> s, body |-> b, at |-> a] \in Views
BY DEF Views

LEMMA ViewsOf ==
    ASSUME NEW v \in Views, NEW s \in LiveStates, NEW u, u = [v EXCEPT !.state = s]
    PROVE  u \in Views
<1>1. CASE v = Absent
  <2>1. u = [state |-> s, body |-> "whole", at |-> 0]
    BY <1>1 DEF Absent
  <2>2. PICK b \in Bodies : b = "whole"
    BY DEF Bodies
  <2>3. u = [state |-> s, body |-> b, at |-> 0]
    BY <2>1, <2>2
  <2>4. PICK a \in Nat : a = 0
    OBVIOUS
  <2>5. [state |-> s, body |-> b, at |-> a] \in Views
    BY ViewRec
  <2>6. u = [state |-> s, body |-> b, at |-> a]
    BY <2>3, <2>4
  <2> QED
    BY <2>5, <2>6, Zenon
<1>2. CASE v \in [state: LiveStates, body: Bodies, at: Nat]
  <2>1. u \in [state: LiveStates, body: Bodies, at: Nat]
    BY <1>2
  <2> QED
    BY <2>1 DEF Views
<1> QED
  BY <1>1, <1>2 DEF Views

\* The record of a state, or of a delete.
LEMMA ShortOf ==
    ASSUME Process(m, pc), pc.at = "write", m.use, m.job[pc.j].file # Nil, NEW w \in WriteIn,
           NEW t, t = filewrjobshort(w)
    PROVE  /\ Settled(t) /\ pc.op \in {"update", "delete"} /\ pc.j \in Live(m) /\ w.cur \in Seqs
           /\ pc.to = "invalid" \/ pc.to \in LiveStates
<1>1. /\ pc \in PCs /\ pc.op \in {"put", "update", "delete", "migrate"}
      /\ pc.op = "put" => m.job[pc.j] = NoJob
      /\ pc.op = "update" => /\ pc.j \in Live(m) /\ pc.to \in LiveStates /\ pc.n = Z
                             /\ Moving(pc) = {}
      /\ pc.op = "delete" => /\ pc.j \in Live(m) /\ pc.to = "invalid" /\ pc.n = 0
                             /\ Moving(pc) = {}
      /\ pc.op = "migrate" => m.job[pc.j].file = Nil
  BY WritingOf
<1>2. pc.op \in {"update", "delete"} /\ pc.j \in Live(m) /\ Moving(pc) = {} /\ pc.j \in Ids
  BY <1>1, NoJobType DEF Live
<1>3. /\ Yard(w, pc.n, Moving(pc)) /\ SameJobs(m, w) /\ Even(w.cur, Rs(w), pc.n)
      /\ Rs(w)[w.cur] >= pc.n /\ (pc.op = "delete" => Rs(w)[w.cur] >= Z)
  BY WriteInOf
<1>4. PICK mv, x : mv = {} /\ x = pc.n
  OBVIOUS
<1>5. Yard(w, x, mv) /\ x \in Int
  BY <1>1, <1>2, <1>3, <1>4, PCType
<1>6. m \in Memo /\ w.job = m.job /\ Live(w) = Live(m) /\ w \in Memo /\ w.cur \in Seqs
  BY <1>3, <1>5, LiveSame, YardNonNeg DEF Process, SameJobs
<1>7. PICK j : j = pc.j
  OBVIOUS
<1>8. PICK k : k = JobToWrite
  OBVIOUS
<1>9. /\ k \in JobRec /\ k.state = pc.to /\ k.file = w.job[j].file
      /\ k.walused = w.job[j].walused /\ k.size = w.job[j].size
  <2>1. pc.op # "put"
    BY <1>2
  <2> QED
    BY <1>1, <1>2, <1>6, <1>7, <1>8, <2>1, KnownJob
<1>10. PICK u : u = SetJob(w, j, k)
  OBVIOUS
<1>11. PICK v : v = filewrite(u, j, Z)
  OBVIOUS
<1>12. j \in Live(w) /\ w.job[j].file # Nil /\ j \in Ids
  BY <1>2, <1>6, <1>7
<1>13. t = IF pc.to = "invalid" THEN [filermjob(v, j) EXCEPT !.job[j] = NoJob] ELSE v
  BY <1>7, <1>8, <1>10, <1>11 DEF filewrjobshort, SetJob
<1>14. Rs(w) \in [Seqs -> Int] /\ Z \in Nat
  BY <1>6, SpaceType, SeqsNat
<1>15. CASE pc.op = "update"
  <2>1. pc.to \in LiveStates /\ x = Z /\ t = v
    BY <1>1, <1>4, <1>13, <1>15 DEF LiveStates
  <2>2. /\ Yard(u, x, mv) /\ SameFrame(w, u) /\ Rs(u) = Rs(w)
        /\ u.job[j] = k /\ Live(u) = Live(w)
    BY <1>5, <1>9, <1>10, <1>12, <2>1, YardState
  <2>3. u.cur = w.cur /\ Rs(u)[u.cur] >= Z /\ u.job[j].file # Nil /\ j \in Live(u)
    BY <1>3, <1>4, <1>9, <1>12, <2>1, <2>2 DEF SameFrame
  <2>4. PICK y : y = x - Z
    OBVIOUS
  <2>5. y = 0
    BY <1>14, <2>1, <2>4
  <2>6. /\ Yard(v, y, mv) /\ SameFrame(u, v) /\ Rs(v) = [Rs(u) EXCEPT ![u.cur] = @ - Z]
    BY <1>5, <1>11, <1>14, <2>2, <2>3, <2>4, YardWrite
  <2>7. Even(w.cur, Rs(v), y)
    <3>1. Even(w.cur, Rs(w), x) /\ Rs(w)[w.cur] >= x /\ Rs(v) = [Rs(w) EXCEPT ![w.cur] = @ - Z]
      BY <1>3, <1>4, <2>2, <2>3, <2>6
    <3>2. PICK rs, rs2, c : rs = Rs(w) /\ rs2 = Rs(v) /\ c = w.cur
      OBVIOUS
    <3>3. PICK k1 \in Int : k1 = Z
      BY <1>14
    <3>4. c \in Seqs /\ rs \in [Seqs -> Int] /\ Even(c, rs, x) /\ rs[c] >= x
          /\ rs2 = [rs EXCEPT ![c] = @ - k1] /\ y = x - k1
      BY <1>6, <1>14, <2>4, <3>1, <3>2, <3>3
    <3>5. Even(c, rs2, y)
      BY <1>5, <3>4, EvenWrite
    <3> QED
      BY <3>2, <3>5
  <2>8. v.cur = w.cur
    BY <2>3, <2>6 DEF SameFrame
  <2>9. Settled(t)
    BY <1>4, <2>1, <2>5, <2>6, <2>7, <2>8 DEF Settled
  <2> QED
    BY <1>2, <1>6, <2>1, <2>9
<1>16. CASE pc.op = "delete"
  <2>1. pc.to = "invalid" /\ x = 0
    BY <1>1, <1>4, <1>16
  <2>2. PICK z : z = filermjob(v, j)
    OBVIOUS
  <2>3. t = SetJob(z, j, NoJob)
    BY <1>13, <2>1, <2>2 DEF SetJob
  <2>4. Rs(w)[w.cur] >= Z
    BY <1>3, <1>16
  <2>5. /\ Yard(t, x, mv) /\ SameFrame(w, t) /\ Rs(t) = [Rs(w) EXCEPT ![w.cur] = @ - Z]
    BY <1>4, <1>5, <1>9, <1>10, <1>11, <1>12, <2>2, <2>3, <2>4, YardDelete
  <2>6. Even(w.cur, Rs(t), 0)
    <3>1. Even(w.cur, Rs(w), 0)
      BY <1>3, <1>4, <2>1
    <3> QED
      BY <1>6, <1>14, <2>4, <2>5, <3>1, EvenDelete
  <2>7. t.cur = w.cur
    BY <2>5 DEF SameFrame
  <2>8. Settled(t)
    BY <1>4, <2>1, <2>5, <2>6, <2>7 DEF Settled
  <2> QED
    BY <1>2, <1>6, <2>1, <2>8
<1> QED
  BY <1>2, <1>15, <1>16

LEMMA LoggedOf ==
    ASSUME disk \in Images, NEW t, NEW f \in Seqs, NEW rec \in Record,
           rec.full => rec.size \in FullSizes, Logged(t, f, rec)
    PROVE  m' = t /\ disk' \in Images
<1>1. PICK d : d = Unlink(disk, m, t)
  OBVIOUS
<1>2. d \in Images
  BY <1>1, UnlinkOf
<1>3. PICK e : e = [d EXCEPT ![f].recs = Append(@, rec)]
  OBVIOUS
<1>4. e \in Images
  BY <1>2, <1>3, AppendRecord
<1>5. m' = t /\ disk' = e
  BY <1>1, <1>3 DEF Logged
<1> QED
  BY <1>4, <1>5

LEMMA WriteShortStep ==
    ASSUME WInv, WriteShort
    PROVE  WInv'
<1>1. Process(m, pc) /\ Stable /\ disk \in Images /\ pc.at = "write" /\ m.use
      /\ m.job[pc.j].file # Nil /\ logged \in [Ids -> Views]
  BY DEF WInv, Stable, WriteShort
<1>2. PICK w \in WriteIn :
        /\ Logged(filewrjobshort(w), w.cur, RecordOf(FALSE, m.job[pc.j].body))
        /\ AfterWrite(filewrjobshort(w))
        /\ logged' = [logged EXCEPT ![pc.j] = IF pc.to = "invalid" THEN Absent
                                              ELSE [@ EXCEPT !.state = pc.to]]
  BY DEF WriteShort
<1>3. PICK t : t = filewrjobshort(w)
  OBVIOUS
<1>4. /\ Settled(t) /\ pc.op \in {"update", "delete"} /\ pc.j \in Live(m) /\ w.cur \in Seqs
      /\ pc.to = "invalid" \/ pc.to \in LiveStates
  BY <1>1, <1>3, ShortOf
<1>5. m \in Memo /\ pc \in PCs /\ pc.j \in Ids
  BY <1>1, <1>4 DEF Process, Live
<1>6. PICK body \in Bodies : body = m.job[pc.j].body
  BY <1>5, JobType
<1>7. PICK rec : rec = RecordOf(FALSE, body)
  OBVIOUS
<1>8. rec \in Record /\ (rec.full => rec.size \in FullSizes)
  <2>1. PICK k : k = JobToWrite
    OBVIOUS
  <2>2. k.at \in Nat
    <3>1. pc.op # "put"
      BY <1>4
    <3> QED
      BY <1>5, <2>1, <3>1, KnownJob, JobType
  <2>3. pc.to \in LiveStates \cup {"invalid"}
    BY <1>4
  <2>4. PICK full \in BOOLEAN : full = FALSE
    OBVIOUS
  <2>5. rec = RecordOf(full, body) /\ (full => k.size \in FullSizes)
    BY <1>7, <2>4
  <2> QED
    BY <1>5, <2>1, <2>2, <2>3, <2>5, RecordType
<1>9. Logged(t, w.cur, rec) /\ AfterWrite(t)
  BY <1>2, <1>3, <1>6, <1>7
<1>10. m' = t /\ disk' \in Images
  BY <1>1, <1>4, <1>8, <1>9, LoggedOf
<1>11. Process(t, pc')
  BY <1>4, <1>5, <1>9, AfterWriteOf
<1>12. logged' \in [Ids -> Views]
  <2>1. logged[pc.j] \in Views
    BY <1>1, <1>5
  <2>2. Absent \in Views
    BY DEF Views
  <2>3. PICK v : v = (IF pc.to = "invalid" THEN Absent ELSE [logged[pc.j] EXCEPT !.state = pc.to])
    OBVIOUS
  <2>4. v \in Views
    <3>1. CASE pc.to = "invalid"
      BY <2>2, <2>3, <3>1
    <3>2. CASE pc.to # "invalid"
      <4>1. v = [logged[pc.j] EXCEPT !.state = pc.to] /\ pc.to \in LiveStates
        BY <1>4, <2>3, <3>2
      <4> QED
        BY <2>1, <4>1, ViewsOf
    <3> QED
      BY <3>1, <3>2
  <2>5. logged' = [logged EXCEPT ![pc.j] = v]
    BY <1>2, <2>3
  <2> QED
    BY <1>1, <2>4, <2>5
<1>13. rewriting' = rewriting /\ spent' = spent
  BY DEF WriteShort
<1> QED
  BY <1>1, <1>10, <1>11, <1>12, <1>13, HoldingInv DEF Stable, Holding

\* Whole delete records more or less do not matter.
LEMMA EvenLess ==
    ASSUME NEW cur \in Seqs, NEW rs \in [Seqs -> Int], NEW n \in Int, Even(cur, rs, n),
           NEW y, y = n - Z
    PROVE  Even(cur, rs, y) /\ y \in Int
<1>1. PICK a \in Int : a = rs[cur] - n
  OBVIOUS
<1>2. Mult(a) /\ Z \in Int
  BY <1>1, WalConstants DEF Even
<1>3. Mult(a + Z)
  BY <1>2, MultZ, MultOf
<1>4. rs[cur] - y = a + Z /\ y \in Int
  BY <1>1, <1>2
<1>5. Mult(rs[cur] - y)
  BY <1>3, <1>4
<1> QED
  BY <1>4, <1>5 DEF Even

\* The job is in the current file, its record is still to be written.
LEMMA AddToCurOf ==
    ASSUME Process(m, pc), pc.at = "write", m.use, m.job[pc.j].file = Nil,
           NEW t, t = addtocur(m)
    PROVE  /\ pc.op \in {"put", "migrate"} /\ pc.j \in Ids /\ pc \in PCs
           /\ \E y \in Int, a \in FullSizes, mv \in SUBSET Ids :
                /\ mv = {} /\ Yard(t, y, mv) /\ y = a
                /\ Even(t.cur, Rs(t), y) /\ Rs(t)[t.cur] >= y
                /\ pc.j \in Live(t) /\ t.job[pc.j].file = t.cur /\ t.job[pc.j].state = pc.to
                /\ t.job[pc.j].size = a
           /\ t.cur = m.cur /\ WriteIn = {m}
           /\ JobToWrite.at \in Nat /\ JobToWrite.size \in FullSizes
           /\ pc.to \in LiveStates
<1>1. /\ pc \in PCs /\ Yard(m, pc.n, Moving(pc)) /\ Even(m.cur, Rs(m), pc.n)
      /\ Rs(m)[m.cur] >= pc.n /\ pc.op \in {"put", "update", "delete", "migrate"}
      /\ pc.op = "put" => /\ pc.j \in Ids /\ pc.j = m.next_id /\ pc.to = "ready"
                          /\ pc.n - Z \in FullSizes /\ Moving(pc) = {}
      /\ pc.op = "update" => m.job[pc.j].file # Nil
      /\ pc.op = "delete" => m.job[pc.j].file # Nil
      /\ pc.op = "migrate" => /\ pc.j \in Live(m) /\ pc.to = m.job[pc.j].state
                              /\ pc.n = m.job[pc.j].size /\ pc.n \in FullSizes
                              /\ Moving(pc) = {pc.j}
  BY WritingOf
<1>2. pc.op \in {"put", "migrate"}
  BY <1>1
<1>3. pc.j \in Ids /\ pc.n \in Nat /\ m \in Memo
  BY <1>1, <1>2, PCType DEF Live, Yard
<1>4. PICK x, j, k : x = pc.n /\ j = pc.j /\ k = JobToWrite
  OBVIOUS
<1>5. m.cur \in Seqs /\ Rs(m) \in [Seqs -> Int] /\ x \in Int /\ Z \in Nat
  BY <1>1, <1>3, <1>4, YardNonNeg, SpaceType, SeqsNat
<1>6. WriteIn = {m}
  <2>1. pc.op # "delete"
    BY <1>2
  <2> QED
    BY <2>1, WriteInOf
<1>7. CASE pc.op = "put"
  <2>1. /\ k \in JobRec /\ k.state = pc.to /\ k.state \in LiveStates /\ k.file = Nil
        /\ k.walused = 0 /\ k.size = pc.n - Z /\ k.at \in Nat
    BY <1>1, <1>4, <1>7, NewJob
  <2>2. PICK a \in FullSizes : a = x - Z
    BY <1>1, <1>4, <1>7
  <2>3. PICK y : y = x - Z
    OBVIOUS
  <2>4. PICK u : u = SetNew(m, j, k)
    OBVIOUS
  <2>5. t = fileaddjob(u, m.cur, j)
    BY <1>4, <1>7, <2>4 DEF addtocur, SetNew
  <2>6. NextJob(m, j) /\ Yard(m, x, {}) /\ j \in Ids
    BY <1>1, <1>4, <1>7 DEF NextJob
  <2>7. k.size \in FullSizes /\ k.size = a
    BY <1>4, <2>1, <2>2
  <2>8. /\ Yard(u, y, {j}) /\ SameFrame(m, u) /\ Rs(u) = Rs(m) /\ u.job[j] = k /\ j \in Live(u)
    <3>1. PICK w : w = m
      OBVIOUS
    <3>2. NextJob(w, j) /\ Yard(w, x, {}) /\ j \in Ids /\ u = SetNew(w, j, k) /\ x \in Int
          /\ k \in JobRec /\ k.state \in LiveStates /\ k.size \in FullSizes /\ k.file = Nil
          /\ k.walused = 0 /\ y = x - Z
      BY <1>5, <2>1, <2>3, <2>4, <2>6, <2>7, <3>1
    <3>3. /\ Yard(u, y, {j}) /\ SameFrame(w, u) /\ Rs(u) = Rs(w) /\ u.job[j] = k /\ j \in Live(u)
      BY <3>2, YardNew
    <3> QED
      BY <3>1, <3>3
  <2>9. u.cur = m.cur /\ t = fileaddjob(u, u.cur, j)
    BY <2>5, <2>8 DEF SameFrame
  <2>10. /\ Yard(t, y, {}) /\ SameFrame(u, t) /\ Rs(t) = Rs(u)
         /\ t.job[j] = Placed(u.job[j], u.cur) /\ Live(t) = Live(u)
    BY <2>8, <2>9, YardAdd
  <2>11. t.cur = m.cur /\ Rs(t) = Rs(m) /\ t.job[j] = Placed(k, m.cur) /\ j \in Live(t)
    BY <2>8, <2>9, <2>10 DEF SameFrame
  <2>12. t.job[j].file = m.cur /\ t.job[j].state = pc.to /\ t.job[j].size = a
    BY <1>5, <2>1, <2>7, <2>11, PlacedOf
  <2>13. Even(m.cur, Rs(m), y) /\ y \in Int
    <3>1. Even(m.cur, Rs(m), x)
      BY <1>1, <1>4
    <3> QED
      BY <1>5, <2>3, <3>1, EvenLess
  <2>14. Rs(m)[m.cur] >= y
    <3>1. Rs(m)[m.cur] >= x /\ Rs(m)[m.cur] \in Int
      BY <1>1, <1>4, <1>5
    <3> QED
      BY <1>5, <2>3, <3>1
  <2>15. /\ Yard(t, y, {}) /\ y = a /\ Even(t.cur, Rs(t), y) /\ Rs(t)[t.cur] >= y
         /\ pc.j \in Live(t) /\ t.job[pc.j].file = t.cur /\ t.job[pc.j].state = pc.to
         /\ t.job[pc.j].size = a
    BY <1>4, <2>2, <2>3, <2>10, <2>11, <2>12, <2>13, <2>14
  <2>16. JobToWrite.at \in Nat /\ JobToWrite.size \in FullSizes /\ pc.to \in LiveStates
    BY <1>4, <2>1, <2>7
  <2> QED
    BY <1>1, <1>2, <1>3, <1>6, <2>11, <2>13, <2>15, <2>16
<1>8. CASE pc.op = "migrate"
  <2>1. PICK a \in FullSizes : a = x
    BY <1>1, <1>4, <1>8
  <2>2. /\ k \in JobRec /\ k.state = pc.to /\ k.size = m.job[j].size /\ k.at = m.job[j].at
    BY <1>1, <1>3, <1>4, <1>8, KnownJob
  <2>3. j \in Live(m) /\ m.job[j].size = a /\ m.job[j].state = pc.to /\ m.job[j] \in JobRec
        /\ pc.to \in LiveStates /\ m.job[j].at \in Nat
    BY <1>1, <1>3, <1>4, <1>8, <2>1, JobType DEF Live
  <2>4. k = m.job[j]
    <3>1. k = [m.job[j] EXCEPT !.state = m.job[j].state]
      BY <1>4, <1>8, <2>3 DEF JobToWrite
    <3> QED
      BY <2>3, <3>1 DEF JobRec
  <2>5. [m EXCEPT !.job[j] = k, !.next_id = m.next_id] = m
    BY <1>3, <2>4 DEF Memo
  <2>6. t = fileaddjob(m, m.cur, j)
    <3>1. addtocur(m) = fileaddjob([m EXCEPT !.job[j] = k, !.next_id = m.next_id], m.cur, j)
      BY <1>4, <1>8 DEF addtocur
    <3> QED
      BY <2>5, <3>1
  <2>7. Yard(m, x, {j})
    BY <1>1, <1>4, <1>8
  <2>8. /\ Yard(t, x, {}) /\ SameFrame(m, t) /\ Rs(t) = Rs(m)
        /\ t.job[j] = Placed(m.job[j], m.cur) /\ Live(t) = Live(m)
    BY <2>3, <2>6, <2>7, YardAdd
  <2>9. t.cur = m.cur
    BY <2>8 DEF SameFrame
  <2>10. t.job[j].file = m.cur /\ t.job[j].state = pc.to /\ t.job[j].size = a
    BY <1>5, <2>3, <2>8, PlacedOf
  <2>11. /\ Yard(t, x, {}) /\ x = a /\ Even(t.cur, Rs(t), x) /\ Rs(t)[t.cur] >= x
         /\ pc.j \in Live(t) /\ t.job[pc.j].file = t.cur /\ t.job[pc.j].state = pc.to
         /\ t.job[pc.j].size = a
    BY <1>1, <1>4, <2>1, <2>3, <2>8, <2>9, <2>10
  <2>12. JobToWrite.at \in Nat /\ JobToWrite.size \in FullSizes
    BY <1>4, <2>3, <2>4
  <2> QED
    BY <1>1, <1>2, <1>3, <1>5, <1>6, <2>3, <2>9, <2>11, <2>12
<1> QED
  BY <1>2, <1>7, <1>8

\* The current file and its bytes after a write.
LEMMA EvenAfter ==
    ASSUME NEW w, NEW t, NEW x \in Int, NEW n \in Nat, w.cur \in Seqs, Rs(w) \in [Seqs -> Int],
           Even(w.cur, Rs(w), x), Rs(w)[w.cur] >= x, Rs(t) = [Rs(w) EXCEPT ![w.cur] = @ - n],
           SameFrame(w, t), NEW y, y = x - n
    PROVE  Even(t.cur, Rs(t), y) /\ Rs(t)[t.cur] >= y
<1>1. PICK rs, rs2, c : rs = Rs(w) /\ rs2 = Rs(t) /\ c = w.cur
  OBVIOUS
<1>2. t.cur = c
  BY <1>1 DEF SameFrame
<1>3. c \in Seqs /\ rs \in [Seqs -> Int] /\ Even(c, rs, x) /\ rs[c] >= x
      /\ rs2 = [rs EXCEPT ![c] = @ - n] /\ n \in Int
  BY <1>1
<1>4. Even(c, rs2, y) /\ rs2[c] >= y
  BY <1>3, EvenWrite
<1> QED
  BY <1>1, <1>2, <1>4

LEMMA WriteFullStep ==
    ASSUME WInv, WriteFull
    PROVE  WInv'
<1>1. Process(m, pc) /\ Stable /\ disk \in Images /\ pc.at = "write" /\ m.use
      /\ m.job[pc.j].file = Nil /\ rewriting \subseteq Ids
  BY DEF WInv, Stable, WriteFull
<1>2. PICK v, j : v = addtocur(m) /\ j = pc.j
  OBVIOUS
<1>3. /\ pc.op \in {"put", "migrate"} /\ pc.j \in Ids /\ pc \in PCs
      /\ \E y \in Int, a \in FullSizes, mv \in SUBSET Ids :
           /\ mv = {} /\ Yard(v, y, mv) /\ y = a
           /\ Even(v.cur, Rs(v), y) /\ Rs(v)[v.cur] >= y
           /\ pc.j \in Live(v) /\ v.job[pc.j].file = v.cur /\ v.job[pc.j].state = pc.to
           /\ v.job[pc.j].size = a
      /\ v.cur = m.cur /\ WriteIn = {m}
      /\ JobToWrite.at \in Nat /\ JobToWrite.size \in FullSizes
      /\ pc.to \in LiveStates
  BY <1>1, <1>2, AddToCurOf
<1>4. PICK y \in Int, a \in FullSizes, mv \in SUBSET Ids :
           /\ mv = {} /\ Yard(v, y, mv) /\ y = a
           /\ Even(v.cur, Rs(v), y) /\ Rs(v)[v.cur] >= y
           /\ j \in Live(v) /\ v.job[j].file = v.cur /\ v.job[j].state = pc.to
           /\ v.job[j].size = a
  BY <1>2, <1>3
<1>5. PICK t : t = filewrite(v, j, Z)
  OBVIOUS
<1>6. PICK rec : rec = RecordOf(TRUE, "zeros")
  OBVIOUS
<1>7. Logged(t, m.cur, rec)
  BY <1>2, <1>3, <1>5, <1>6 DEF WriteFull, filewrjobfull
<1>8. rec \in Record /\ (rec.full => rec.size \in FullSizes)
  <2>1. PICK body \in Bodies : body = "zeros"
    BY DEF Bodies
  <2>2. PICK full \in BOOLEAN : full = TRUE
    OBVIOUS
  <2>3. PICK k : k = JobToWrite
    OBVIOUS
  <2>4. rec = RecordOf(full, body) /\ k.at \in Nat /\ (full => k.size \in FullSizes)
    BY <1>3, <1>6, <2>1, <2>2, <2>3
  <2>5. pc.to \in LiveStates \cup {"invalid"}
    BY <1>3
  <2> QED
    BY <1>3, <2>3, <2>4, <2>5, RecordType
<1>9. v \in Memo /\ v.cur \in Seqs /\ Rs(v) \in [Seqs -> Int] /\ Z \in Nat /\ a > Z /\ a \in Nat
      /\ v.cur # Nil
  BY <1>4, YardNonNeg, SpaceType, WalConstants DEF Seqs, Nil
<1>10. m' = t /\ disk' \in Images
  BY <1>1, <1>3, <1>7, <1>8, <1>9, LoggedOf
<1>11. PICK x : x = y - Z
  OBVIOUS
<1>12. Rs(v)[v.cur] >= Z /\ v.job[j].file # Nil
  <2>1. Rs(v)[v.cur] \in Int
    BY <1>9
  <2> QED
    BY <1>4, <1>9, <2>1
<1>13. /\ Yard(t, x, mv) /\ SameFrame(v, t) /\ Rs(t) = [Rs(v) EXCEPT ![v.cur] = @ - Z]
       /\ Live(t) = Live(v) /\ t.job[j] = Heavier(v.job[j], v.job[j].walused + Z)
  BY <1>4, <1>5, <1>9, <1>11, <1>12, YardWrite
<1>14. t.job[j].file = v.job[j].file /\ t.job[j].state = v.job[j].state
       /\ t.job[j].size = v.job[j].size
  <2>1. PICK h \in JobRec : h = v.job[j]
    BY <1>3, <1>2, <1>9, JobType
  <2>2. PICK q : q = v.job[j].walused + Z
    OBVIOUS
  <2>3. q \in Nat
    BY <1>2, <1>3, <1>9, <2>2, JobType
  <2>4. PICK g : g = Heavier(h, q)
    OBVIOUS
  <2>5. g.file = h.file /\ g.state = h.state /\ g.size = h.size
    BY <2>3, <2>4, HeavierOf
  <2> QED
    BY <1>13, <2>1, <2>2, <2>4, <2>5
<1>15. Even(t.cur, Rs(t), x) /\ Rs(t)[t.cur] >= x
  BY <1>4, <1>9, <1>11, <1>13, EvenAfter
<1>16. PICK p : p = [pc EXCEPT !.at = "body"]
  OBVIOUS
<1>17. p \in PCs /\ SameAsk(pc, p) /\ p.at = "body"
  <2>1. PICK b : b = "body"
    OBVIOUS
  <2> QED
    BY <1>3, <1>16, <2>1, AtOf DEF Places
<1>18. p.op = pc.op /\ p.j = j /\ p.to = pc.to
  BY <1>2, <1>17 DEF SameAsk
<1>19. Due(p, t) = x /\ Extra(p, t) = x /\ Moving(p) = mv /\ Upright(p)
  <2>1. Due(p, t) = a - Z
    BY <1>4, <1>14, <1>17, <1>18 DEF Due
  <2>2. x = a - Z
    BY <1>4, <1>11
  <2> QED
    BY <1>3, <1>4, <1>17, <1>18, <2>1, <2>2 DEF Extra, Moving, Upright
<1>20. Command(p, t)
  <2>1. p.op \in {"put", "migrate"} /\ p.j \in Live(t) /\ t.job[p.j].file = t.cur
        /\ t.job[p.j].state = p.to
    BY <1>3, <1>4, <1>13, <1>14, <1>18 DEF SameFrame
  <2> QED
    BY <1>17, <2>1 DEF Command
<1>21. Arranged(p, t)
  BY <1>15, <1>17, <1>19 DEF Arranged
<1>22. Process(t, p)
  BY <1>13, <1>17, <1>19, <1>20, <1>21, ProcessWorks
<1>23. pc' = p /\ rewriting' = rewriting \cup {pc.j} /\ logged' = logged /\ spent' = spent
  BY <1>3, <1>16 DEF WriteFull
<1>24. rewriting' \subseteq Ids
  BY <1>1, <1>3, <1>23
<1> QED
  BY <1>1, <1>10, <1>22, <1>23, <1>24, HoldingInv DEF Stable, Holding

\* The body of the last record is written over.
LEMMA BodyOf ==
    ASSUME NEW d \in Images, NEW f \in Seqs, NEW b \in Bodies, NEW n, n = Len(d[f].recs),
           NEW e, e = [d EXCEPT ![f].recs[n].body = b]
    PROVE  e \in Images
<1>1. \A g \in Seqs : Kept(d[g])
  BY ImagesOf
<1>2. PICK k : k = d[f]
  OBVIOUS
<1>3. k \in Image /\ k.recs \in Seq(Record)
      /\ \A i \in 1..Len(k.recs) : k.recs[i].full => k.recs[i].size \in FullSizes
  BY <1>1, <1>2 DEF Kept, Image
<1>4. PICK l : l = k.recs
  OBVIOUS
<1>5. PICK r : r = [l EXCEPT ![n].body = b]
  OBVIOUS
<1>6. l \in Seq(Record) /\ n = Len(l) /\ n \in Nat
  BY <1>2, <1>3, <1>4
<1>7. r \in Seq(Record) /\ Len(r) = n
      /\ \A i \in 1..n : r[i].full = l[i].full /\ r[i].size = l[i].size
  <2>1. l \in [1..n -> Record]
    BY <1>6
  <2>2. r = [i \in 1..n |-> IF i = n THEN [l[i] EXCEPT !.body = b] ELSE l[i]]
    BY <1>5, <2>1
  <2>3. ASSUME NEW i \in 1..n
        PROVE  r[i] \in Record /\ r[i].full = l[i].full /\ r[i].size = l[i].size
    <3>1. l[i] \in Record
      BY <2>1
    <3>2. PICK h : h = [l[i] EXCEPT !.body = b]
      OBVIOUS
    <3>3. h \in Record /\ h.full = l[i].full /\ h.size = l[i].size
      BY <3>1, <3>2 DEF Record
    <3> QED
      BY <2>2, <3>1, <3>2, <3>3
  <2>4. r \in [1..n -> Record]
    BY <2>2, <2>3
  <2> QED
    BY <1>6, <2>3, <2>4
<1>8. \A i \in 1..Len(r) : r[i].full => r[i].size \in FullSizes
  BY <1>3, <1>4, <1>6, <1>7
<1>9. PICK h : h = [k EXCEPT !.recs = r]
  OBVIOUS
<1>10. h \in Image /\ h.recs = r
  BY <1>3, <1>7, <1>9 DEF Image
<1>11. Kept(h)
  BY <1>8, <1>10 DEF Kept
<1>12. d \in [Seqs -> Image]
  BY DEF Images
<1>13. e = [d EXCEPT ![f] = h]
  BY <1>2, <1>4, <1>5, <1>9, <1>12
<1>14. e = [g \in Seqs |-> IF g = f THEN h ELSE d[g]]
  BY <1>12, <1>13
<1>15. \A g \in Seqs : Kept(e[g])
  BY <1>1, <1>11, <1>14
<1>16. e = [g \in Seqs |-> e[g]]
  BY <1>14
<1> QED
  BY <1>15, <1>16, ImagesOf

\* The body is still to be written.
LEMMA AtBody ==
    ASSUME Process(m, pc), pc.at = "body"
    PROVE  /\ pc \in PCs /\ m.use /\ pc.op \in {"put", "migrate"} /\ pc.j \in Live(m)
           /\ m.job[pc.j].file = m.cur /\ m.cur \in Seqs /\ m.job[pc.j].file # Nil
           /\ pc.to # "invalid"
           /\ \E x \in Nat, mv \in SUBSET Ids : /\ mv = {} /\ x = m.job[pc.j].size - Z /\ Yard(m, x, mv)
                                 /\ Even(m.cur, Rs(m), x) /\ Rs(m)[m.cur] >= x
<1>1. Upright(pc)
  BY DEF Upright
<1>2. m.use
  BY DEF Process, Broken
<1>3. pc \in PCs /\ Yard(m, Extra(pc, m), Moving(pc)) /\ Command(pc, m) /\ Arranged(pc, m)
  BY <1>1, <1>2, ProcessUse
<1>4. /\ pc.op \in {"put", "migrate"} /\ pc.j \in Live(m) /\ m.job[pc.j].file = m.cur
      /\ m.job[pc.j].state = pc.to
  BY <1>3 DEF Command
<1>10. pc.to # "invalid"
  BY <1>4 DEF Live, LiveStates
<1>5. m.cur \in Seqs /\ m.cur # Nil /\ Ledger(m) /\ m \in Memo
  <2>1. m.cur \in Seqs
    BY <1>3, YardNonNeg
  <2> QED
    BY <1>3, <2>1, SeqsNat DEF Yard, Seqs, Nil
<1>6. pc.j \in Ids /\ m.job[pc.j].size \in FullSizes
  BY <1>4, <1>5 DEF Ledger, JobOk, Live, LiveStates
<1>7. m.job[pc.j].size - Z \in Nat
  BY <1>6, WalConstants
<1>8. Due(pc, m) = m.job[pc.j].size - Z /\ Extra(pc, m) = m.job[pc.j].size - Z /\ Moving(pc) = {}
  BY <1>4 DEF Due, Extra, Moving
<1>9. Even(m.cur, Rs(m), Due(pc, m)) /\ Rs(m)[m.cur] >= Due(pc, m)
  BY <1>3 DEF Arranged
<1> QED
  BY <1>2, <1>3, <1>4, <1>5, <1>7, <1>8, <1>9, <1>10

LEMMA WriteBodyStep ==
    ASSUME WInv, WriteBody
    PROVE  WInv'
<1>1. Process(m, pc) /\ Stable /\ disk \in Images /\ pc.at = "body"
      /\ rewriting \subseteq Ids /\ logged \in [Ids -> Views]
  BY DEF WInv, Stable, WriteBody
<1>2. /\ pc \in PCs /\ m.use /\ pc.op \in {"put", "migrate"} /\ pc.j \in Live(m)
      /\ m.job[pc.j].file = m.cur /\ m.cur \in Seqs /\ m.job[pc.j].file # Nil
      /\ pc.to # "invalid"
  BY <1>1, AtBody
<1>3. PICK x \in Nat, mv \in SUBSET Ids : /\ mv = {} /\ x = m.job[pc.j].size - Z /\ Yard(m, x, mv)
                           /\ Even(m.cur, Rs(m), x) /\ Rs(m)[m.cur] >= x
  BY <1>1, AtBody
<1>4. PICK t : t = filewrite(m, pc.j, x)
  OBVIOUS
<1>5. PICK y : y = x - x
  OBVIOUS
<1>6. /\ Yard(t, y, mv) /\ SameFrame(m, t) /\ Rs(t) = [Rs(m) EXCEPT ![m.cur] = @ - x]
  BY <1>2, <1>3, <1>4, <1>5, YardWrite
<1>7. m \in Memo /\ Rs(m) \in [Seqs -> Int] /\ pc.j \in Ids
  BY <1>2, <1>3, YardNonNeg, SpaceType DEF Live
<1>8. Even(t.cur, Rs(t), y)
  <2>1. PICK n \in Nat : n = x
    OBVIOUS
  <2>2. PICK e \in Int : e = x
    OBVIOUS
  <2>3. y = e - n /\ Even(m.cur, Rs(m), e) /\ Rs(m)[m.cur] >= e
        /\ Rs(t) = [Rs(m) EXCEPT ![m.cur] = @ - n]
    BY <1>3, <1>5, <1>6, <2>1, <2>2
  <2> QED
    BY <1>2, <1>6, <1>7, <2>3, EvenAfter
<1>9. Settled(t)
  <2>1. y = 0
    BY <1>5
  <2> QED
    BY <1>3, <1>6, <1>8, <2>1 DEF Settled
<1>10. m' = t /\ AfterWrite(t)
  BY <1>3, <1>4 DEF WriteBody
<1>11. Process(t, pc')
  BY <1>2, <1>9, <1>10, AfterWriteOf
<1>12. PICK b \in Bodies : b = m.job[pc.j].body
  BY <1>7, JobType
<1>13. disk' \in Images
  <2>1. PICK n : n = Len(disk[m.cur].recs)
    OBVIOUS
  <2>2. disk' = [disk EXCEPT ![m.cur].recs[n].body = b]
    BY <1>12, <2>1 DEF WriteBody
  <2> QED
    BY <1>1, <1>2, <2>1, <2>2, BodyOf
<1>14. logged' \in [Ids -> Views]
  <2>1. PICK v : v = View(pc.j)
    OBVIOUS
  <2>2. PICK s \in LiveStates : s = m.job[pc.j].state
    BY <1>2 DEF Live
  <2>3. PICK a \in Nat : a = m.job[pc.j].at
    BY <1>7, JobType
  <2>4. v = [state |-> s, body |-> b, at |-> a]
    BY <1>12, <2>1, <2>2, <2>3 DEF View
  <2>5. v \in Views
    BY <2>4, ViewRec
  <2>6. logged' = [logged EXCEPT ![pc.j] = v]
    BY <1>2, <2>1 DEF WriteBody
  <2> QED
    BY <1>1, <1>7, <2>5, <2>6
<1>15. rewriting' \subseteq Ids /\ spent' = spent
  BY <1>1 DEF WriteBody
<1> QED
  BY <1>1, <1>10, <1>11, <1>13, <1>14, <1>15, HoldingInv DEF Stable, Holding

\* The log is not used any more.
Unusable(w) == [w EXCEPT !.use = FALSE]

LEMMA UnusableOf ==
    ASSUME NEW w \in Memo, NEW t, t = Unusable(w)
    PROVE  /\ t \in Memo /\ t.use = FALSE /\ t.cur = w.cur /\ SameChain(w, t) /\ SameJobs(w, t)
           /\ t.resv = w.resv /\ t.file = w.file
BY DEF Unusable, Memo, SameChain, SameJobs

\* A write to the current file has failed.
LEMMA BreakOf ==
    ASSUME NEW w, NEW x, NEW mv, Yard(w, x, mv), NEW u, u = filewclose(w, w.cur),
           NEW t, t = Unusable(u)
    PROVE  /\ t \in Memo /\ Book(t, Nil) /\ Ledger(t) /\ NonNeg(t) /\ t.cur \in Seqs
           /\ ~t.use /\ t.cur = w.cur /\ t.job = w.job
<1>1. w \in Memo /\ Book(w, Nil) /\ Ledger(w) /\ NonNeg(w) /\ w.cur \in Seqs /\ w.cur <= w.tail
      /\ w.cur \in Nat
  BY YardNonNeg DEF Yard
<1>2. w.file[w.cur].iswopen
  BY <1>1 DEF Yard, Opened
<1>3. PICK c : Closed(w, c, w.cur) /\ Book(c, Nil) /\ Trimmed(c, u)
  BY <1>1, <1>2, CloseOf
<1>4. c \in Memo /\ NonNeg(c) /\ SameJobs(w, c) /\ c.cur = w.cur
  BY <1>1, <1>3 DEF Closed, NonNeg, SameTop
<1>5. Book(u, Nil) /\ NonNeg(u)
  BY <1>3, <1>4, TrimBook, TrimNonNeg
<1>6. u \in Memo /\ SameJobs(w, u) /\ u.cur = w.cur
  BY <1>3, <1>4 DEF Trimmed, SameJobs, SameTop
<1>7. /\ t \in Memo /\ t.use = FALSE /\ t.cur = u.cur /\ SameChain(u, t) /\ SameJobs(u, t)
      /\ t.file = u.file
  BY <1>6, UnusableOf
<1>8. Ledger(t)
  <2>1. SameJobs(w, t)
    BY <1>6, <1>7 DEF SameJobs
  <2> QED
    BY <1>1, <2>1, LedgerSame
<1>9. Book(t, Nil)
  BY <1>5, <1>7, CurBook DEF SameJobs
<1> QED
  BY <1>1, <1>5, <1>6, <1>7, <1>8, <1>9 DEF NonNeg, SameJobs

\* walcompact goes on in a log that is not used any more.
LEMMA BrokenWorks ==
    ASSUME NEW w \in Memo, Book(w, Nil), Ledger(w), NonNeg(w), w.cur \in Seqs, ~w.use,
           NEW p \in PCs, p = Idle \/ (p.at = "compact" /\ p.op = "migrate"),
           p.at = "compact" => \E j \in Ids : w.job[j].file = w.cur
    PROVE  Process(w, p)
<1>1. p.at \in {"idle", "compact"} /\ (p.at = "idle" => p = Idle) /\ (p.at = "compact" => p.op = "migrate")
      /\ (p.op = "replay" => p.at = "compact" /\ p.op = "migrate")
  BY IdleType
<1>2. Reading(p) = Nil
  BY <1>1 DEF Reading
<1>3. Command(p, w)
  BY <1>1 DEF Command
<1>4. Broken(p, w)
  BY <1>1 DEF Broken
<1> QED
  BY <1>1, <1>2, <1>3, <1>4 DEF Process

\* walwrite fails in memory w; a job that is moved is in the current file.
LEMMA FailsIn ==
    ASSUME Process(m, pc), pc.at \in {"write", "body"}, m.use,
           NEW w, w \in (IF pc.at = "body" \/ WriteIn = {} THEN {m}
                         ELSE IF m.job[pc.j].file # Nil THEN WriteIn
                         ELSE {addtocur(u) : u \in {v \in WriteIn : Intact(Last(v.file[v.cur].jlist))}})
    PROVE  /\ \E x, mv : Yard(w, x, mv)
           /\ pc \in PCs
           /\ pc.op = "migrate" => \E j \in Ids : w.job[j].file = w.cur
<1>1. CASE pc.at = "body"
  <2>1. w = m
    BY <1>1
  <2>2. pc \in PCs /\ pc.j \in Ids /\ m.job[pc.j].file = m.cur /\ \E x, mv : Yard(m, x, mv)
    BY <1>1, AtBody DEF Live
  <2> QED
    BY <2>1, <2>2
<1>2. CASE pc.at = "write"
  <2>1. PICK v : /\ WriteIn = {v} /\ Yard(v, pc.n, Moving(pc))
    BY <1>2, WriteInOf
  <2>2. pc \in PCs /\ (pc.op = "migrate" => m.job[pc.j].file = Nil)
    BY <1>2, WritingOf
  <2>3. CASE m.job[pc.j].file # Nil
    BY <1>2, <2>1, <2>2, <2>3
  <2>4. CASE m.job[pc.j].file = Nil
    <3>1. PICK t : t = addtocur(m)
      OBVIOUS
    <3>2. WriteIn = {m} /\ pc.j \in Ids
          /\ \E y \in Int, a \in FullSizes, mv \in SUBSET Ids :
               /\ mv = {} /\ Yard(t, y, mv) /\ y = a
               /\ Even(t.cur, Rs(t), y) /\ Rs(t)[t.cur] >= y
               /\ pc.j \in Live(t) /\ t.job[pc.j].file = t.cur /\ t.job[pc.j].state = pc.to
               /\ t.job[pc.j].size = a
      BY <1>2, <2>4, <3>1, AddToCurOf
    <3>3. w = t
      BY <1>2, <2>4, <3>1, <3>2
    <3> QED
      BY <2>2, <3>2, <3>3
  <2> QED
    BY <2>3, <2>4
<1> QED
  BY <1>1, <1>2

LEMMA WriteFailsStep ==
    ASSUME WInv, WriteFails
    PROVE  WInv'
<1>1. Process(m, pc) /\ Stable /\ disk \in Images /\ pc.at \in {"write", "body"} /\ m.use
  BY DEF WInv, Stable, WriteFails
<1>2. PICK w : /\ w \in (IF pc.at = "body" \/ WriteIn = {} THEN {m}
                         ELSE IF m.job[pc.j].file # Nil THEN WriteIn
                         ELSE {addtocur(u) : u \in {v \in WriteIn : Intact(Last(v.file[v.cur].jlist))}})
               /\ Become([filewclose(w, w.cur) EXCEPT !.use = FALSE])
  BY DEF WriteFails
<1>3. /\ pc \in PCs /\ (pc.op = "migrate" => \E j \in Ids : w.job[j].file = w.cur)
      /\ \E x, mv : Yard(w, x, mv)
  BY <1>1, <1>2, FailsIn
<1>4. PICK x, mv : Yard(w, x, mv)
  BY <1>3
<1>5. PICK u : u = filewclose(w, w.cur)
  OBVIOUS
<1>6. PICK t : t = Unusable(u)
  OBVIOUS
<1>7. /\ t \in Memo /\ Book(t, Nil) /\ Ledger(t) /\ NonNeg(t) /\ t.cur \in Seqs
      /\ ~t.use /\ t.cur = w.cur /\ t.job = w.job
  BY <1>4, <1>5, <1>6, BreakOf
<1>8. Become(t)
  BY <1>2, <1>5, <1>6 DEF Unusable
<1>9. m' = t /\ disk' \in Images
  <2>1. m' = t /\ disk' = DiskFor(t)
    BY <1>8 DEF Become
  <2> QED
    BY <1>1, <2>1, DiskOf
<1>10. PICK p : p = pc'
  OBVIOUS
<1>11. p = IF pc.op = "migrate" THEN walmaint(pc.r - 1) ELSE Idle
  BY <1>10 DEF WriteFails
<1>12. p \in PCs /\ (p = Idle \/ (p.at = "compact" /\ p.op = "migrate"))
       /\ (p.at = "compact" => pc.op = "migrate")
  <2>1. CASE pc.op = "migrate"
    <3>1. PICK r \in Int : r = pc.r - 1
      BY <1>3, PCType
    <3>2. p = walmaint(r)
      BY <1>11, <2>1, <3>1
    <3> QED
      BY <2>1, <3>2, WalmaintOf
  <2>2. CASE pc.op # "migrate"
    BY <1>11, <2>2, IdleType
  <2> QED
    BY <2>1, <2>2
<1>13. Process(t, p)
  <2>1. p.at = "compact" => \E j \in Ids : t.job[j].file = t.cur
    BY <1>3, <1>7, <1>12
  <2> QED
    BY <1>7, <1>12, <2>1, BrokenWorks
<1>14. logged' = logged /\ rewriting' = rewriting /\ spent' = spent
  BY DEF WriteFails, History
<1> QED
  BY <1>1, <1>9, <1>10, <1>13, <1>14, HoldingInv DEF Stable, Holding

\* What is known of the memory when the log is not used any more.
LEMMA BrokenOf ==
    ASSUME NEW w, NEW p, Process(w, p), ~w.use
    PROVE  /\ w \in Memo /\ p \in PCs /\ Book(w, Nil) /\ Ledger(w) /\ NonNeg(w) /\ w.cur \in Seqs
           /\ p.at \in {"idle", "compact", "write"}
           /\ p.at \in {"compact", "write"} => p.op = "migrate" /\ \E j \in Ids : w.job[j].file = w.cur
<1>1. p.at # "down"
  BY DEF Process, FreshMemory
<1>2. p.at \notin {"read", "first"}
  BY DEF Process, Loading
<1>3. w.cur \in Seqs /\ Broken(p, w) /\ w \in Memo /\ p \in PCs /\ Ledger(w) /\ NonNeg(w)
      /\ Book(w, Reading(p))
  BY <1>1, <1>2 DEF Process
<1>4. Reading(p) = Nil
  BY <1>2 DEF Reading
<1> QED
  BY <1>3, <1>4 DEF Broken

LEMMA WriteNothingStep ==
    ASSUME WInv, WriteNothing
    PROVE  WInv'
<1>1. Process(m, pc) /\ Stable /\ pc.at = "write" /\ ~m.use /\ AfterWrite(m)
  BY DEF WInv, WriteNothing
<1>2. /\ m \in Memo /\ pc \in PCs /\ Book(m, Nil) /\ Ledger(m) /\ NonNeg(m) /\ m.cur \in Seqs
      /\ pc.op = "migrate" /\ \E j \in Ids : m.job[j].file = m.cur
  BY <1>1, BrokenOf
<1>3. PICK p : p = pc'
  OBVIOUS
<1>4. PICK r \in Int : r = pc.r - 1
  BY <1>2, PCType
<1>5. p = walmaint(r)
  BY <1>1, <1>2, <1>3, <1>4 DEF AfterWrite
<1>6. p \in PCs /\ (p = Idle \/ (p.at = "compact" /\ p.op = "migrate"))
  BY <1>5, WalmaintOf
<1>7. Process(m, p)
  BY <1>1, <1>2, <1>6, BrokenWorks
<1>8. m' = m /\ disk' = disk /\ logged' = logged /\ rewriting' = rewriting /\ spent' = spent
  BY DEF WriteNothing
<1> QED
  BY <1>1, <1>3, <1>7, <1>8, HoldingInv DEF Stable, Holding

-----------------------------------------------------------------------------
(* The commands                                                            *)

Operations == {"none", "put", "update", "delete", "migrate", "replay"}

LEMMA PCOf ==
    ASSUME NEW a \in Places, NEW op \in Operations, NEW j \in Ids \cup {Nil},
           NEW to \in LiveStates \cup {"none", "invalid"}, NEW n \in Nat,
           NEW b \in Seqs \cup {Nil}, NEW r \in Nat, NEW p, p = PC(a, op, j, to, n, b, r)
    PROVE  p \in PCs /\ p.at = a /\ p.op = op /\ p.j = j /\ p.to = to /\ p.n = n /\ p.b = b /\ p.r = r
BY DEF PC, PCs, Places, Operations

\* Between commands, and between two moves of walcompact.
LEMMA AtRest ==
    ASSUME NEW w, NEW p, Process(w, p), w.use, p.at \in {"idle", "compact"}
    PROVE  Settled(w)
<1>1. Upright(p)
  BY DEF Upright
<1>2. Yard(w, Extra(p, w), Moving(p)) /\ Command(p, w) /\ Arranged(p, w)
  BY <1>1, ProcessUse
<1>3. p.op # "replay" /\ p.at \notin {"balance", "rest", "write", "body", "replay"}
  BY <1>2, IdleType DEF Command
<1>4. Due(p, w) = 0 /\ Extra(p, w) = 0 /\ Moving(p) = {}
  BY <1>3 DEF Due, Extra, Moving
<1>5. Even(w.cur, Rs(w), 0)
  BY <1>2, <1>3, <1>4 DEF Arranged
<1> QED
  BY <1>2, <1>4, <1>5 DEF Settled

LEMMA SettledRefused ==
    ASSUME NEW w, Settled(w), NEW p, Asks(p, w), p.op # "replay"
    PROVE  Refused(w, p)
BY DEF Settled, Refused, Owed

LEMMA PutStep ==
    ASSUME RoomyFiles, WInv, NEW size \in FullSizes, put(size)
    PROVE  WInv'
<1>1. Process(m, pc) /\ Stable /\ pc = Idle /\ m.use /\ m.next_id <= MaxId
  BY DEF WInv, put, Serving
<1>2. Settled(m)
  BY <1>1, AtRest, IdleType
<1>3. m \in Memo /\ m.next_id \in Nat \ {0}
  BY <1>1, MemoType DEF Process
<1>4. PICK j \in Ids : j = m.next_id
  BY <1>1, <1>3, WalConstants DEF Ids
<1>5. PICK n \in Nat : n = size + Z
  BY WalConstants
<1>6. n \in Amounts /\ n - Z = size
  BY <1>5, WalConstants DEF Amounts
<1>7. PICK p : p = PC("write", "put", j, "ready", n, Nil, 0)
  OBVIOUS
<1>8. p \in PCs /\ p.op = "put" /\ p.j = j /\ p.to = "ready" /\ p.n = n
  <2>1. PICK a \in Places, op \in Operations, to \in LiveStates \cup {"none", "invalid"} :
            a = "write" /\ op = "put" /\ to = "ready"
    BY DEF Places, Operations, LiveStates
  <2>2. PICK b \in Seqs \cup {Nil}, r \in Nat : b = Nil /\ r = 0
    OBVIOUS
  <2>3. p = PC(a, op, j, to, n, b, r)
    BY <1>7, <2>1, <2>2
  <2> QED
    BY <2>1, <2>3, PCOf
<1>9. Asks(p, m) /\ p.op # "replay"
  BY <1>4, <1>6, <1>8 DEF Asks
<1>10. Refused(m, p)
  BY <1>2, <1>9, SettledRefused
<1>11. reserve(p)
  BY <1>4, <1>5, <1>7 DEF put
<1>12. Holding
  BY <1>1, <1>10, <1>11, ReserveStep
<1>13. logged' = logged /\ spent' = spent
  BY DEF put
<1> QED
  BY <1>1, <1>12, <1>13, HoldingInv DEF Stable

\* An update is counted.
LEMMA SpentOf ==
    ASSUME spent \in Spents, spent.updates < MaxUpdates,
           NEW u, u = [spent EXCEPT !.updates = @ + 1]
    PROVE  u \in Spents /\ u.spare = spent.spare
BY WalConstants DEF Spents

LEMMA UpdateStep ==
    ASSUME RoomyFiles, WInv, NEW i \in Ids, NEW s \in LiveStates, update(i, s)
    PROVE  WInv'
<1>1. Process(m, pc) /\ Stable /\ pc = Idle /\ m.use /\ i \in InLog
  BY DEF WInv, update, Serving
<1>2. Settled(m)
  BY <1>1, AtRest, IdleType
<1>3. i \in Live(m)
  BY <1>1 DEF InLog, Live
<1>4. PICK j \in Ids \cup {Nil} : j = i
  OBVIOUS
<1>5. PICK n \in Nat : n = Z
  BY WalConstants
<1>6. PICK p : p = PC("write", "update", j, s, n, Nil, 0)
  OBVIOUS
<1>7. p \in PCs /\ p.op = "update" /\ p.j = j /\ p.to = s /\ p.n = n
  <2>1. PICK a \in Places, op \in Operations, to \in LiveStates \cup {"none", "invalid"} :
            a = "write" /\ op = "update" /\ to = s
    BY DEF Places, Operations
  <2>2. PICK b \in Seqs \cup {Nil}, r \in Nat : b = Nil /\ r = 0
    OBVIOUS
  <2>3. p = PC(a, op, j, to, n, b, r)
    BY <1>6, <2>1, <2>2
  <2> QED
    BY <2>1, <2>3, PCOf
<1>8. Asks(p, m) /\ p.op # "replay"
  BY <1>3, <1>4, <1>5, <1>7 DEF Asks, Amounts
<1>9. Refused(m, p)
  BY <1>2, <1>8, SettledRefused
<1>10. reserve(p)
  BY <1>4, <1>5, <1>6 DEF update
<1>11. Holding
  BY <1>1, <1>9, <1>10, ReserveStep
<1>12. logged' = logged /\ spent' = [spent EXCEPT !.updates = @ + 1] /\ spent.updates < MaxUpdates
  BY DEF update
<1>13. logged' \in [Ids -> Views] /\ spent' \in Spents /\ spent'.spare = spent.spare
  BY <1>1, <1>12, SpentOf DEF Stable
<1> QED
  BY <1>1, <1>11, <1>13, HoldingInv

LEMMA DeleteStep ==
    ASSUME WInv, NEW i \in Ids, delete(i)
    PROVE  WInv'
<1>1. Process(m, pc) /\ Stable /\ pc = Idle /\ m.use /\ i \in InLog
  BY DEF WInv, delete, Serving
<1>2. Settled(m)
  BY <1>1, AtRest, IdleType
<1>3. i \in Live(m)
  BY <1>1 DEF InLog, Live
<1>4. PICK p : p = PC("write", "delete", i, "invalid", 0, Nil, 0)
  OBVIOUS
<1>5. p \in PCs /\ p.at = "write" /\ p.op = "delete" /\ p.j = i /\ p.to = "invalid" /\ p.n = 0
  <2>1. PICK a \in Places, op \in Operations, to \in LiveStates \cup {"none", "invalid"} :
            a = "write" /\ op = "delete" /\ to = "invalid"
    BY DEF Places, Operations
  <2>2. PICK b \in Seqs \cup {Nil}, r \in Nat : b = Nil /\ r = 0
    OBVIOUS
  <2>3. PICK j \in Ids \cup {Nil} : j = i
    OBVIOUS
  <2>4. p = PC(a, op, j, to, r, b, r)
    BY <1>4, <2>1, <2>2, <2>3
  <2> QED
    BY <2>1, <2>2, <2>3, <2>4, PCOf
<1>6. Due(p, m) = 0 /\ Extra(p, m) = 0 /\ Moving(p) = {} /\ Upright(p)
  BY <1>5 DEF Due, Extra, Moving, Upright
<1>7. Yard(m, 0, {}) /\ Even(m.cur, Rs(m), 0)
  BY <1>2 DEF Settled
<1>8. PICK x \in Nat, mv \in SUBSET Ids : x = 0 /\ mv = {}
  OBVIOUS
<1>9. Yard(m, x, mv)
  BY <1>7, <1>8
<1>10. Rs(m)[m.cur] >= 0
  BY <1>9, YardNonNeg, SpaceType DEF NonNeg
<1>11. Arranged(p, m)
  BY <1>5, <1>6, <1>7, <1>10 DEF Arranged
<1>12. Command(p, m)
  BY <1>3, <1>5 DEF Command
<1>13. Process(m, p)
  BY <1>5, <1>6, <1>8, <1>9, <1>11, <1>12, ProcessWorks
<1>14. pc' = p /\ m' = m /\ disk' = disk /\ rewriting' = rewriting /\ logged' = logged /\ spent' = spent
  BY <1>4 DEF delete
<1> QED
  BY <1>1, <1>13, <1>14, HoldingInv DEF Stable, Holding

\* A file has gone, or has the space it had.
Vacant(w, t) ==
    \A g \in Seqs : \/ t.file[g] = NoFile
                    \/ /\ t.file[g].iswopen = w.file[g].iswopen
                       /\ t.file[g].free = w.file[g].free /\ t.file[g].resv = w.file[g].resv

LEMMA VacantNonNeg ==
    ASSUME NEW w, NEW t, NonNeg(w), Vacant(w, t)
    PROVE  NonNeg(t)
BY NoFileType DEF NonNeg, Vacant

\* filermjob, whether or not the log is in use.
LEMMA DropOf ==
    ASSUME NEW w \in Memo, NEW rd, Book(w, rd), Ledger(w), NonNeg(w), NEW j \in Ids,
           w.job[j].file # Nil, NEW t, t = filermjob(w, j)
    PROVE  /\ t \in Memo /\ Book(t, rd) /\ Ledger(t) /\ NonNeg(t) /\ Vacant(w, t)
           /\ SameTop(w, t) /\ t.next = w.next /\ t.resv = w.resv
           /\ t.tail = w.tail \/ Files(t) = {}
           /\ t.job[j] = Loose(w.job[j]) /\ Others(w, t, j) /\ Live(t) = Live(w) /\ j \in Live(w)
<1>1. PICK u : /\ Changed(w, u, j, Loose(w.job[j]), -w.job[j].walused) /\ SameChain(w, u)
               /\ SameSpace(w, u) /\ Book(u, rd) /\ Trimmed(u, t)
  BY RemoveOf
<1>2. /\ u \in Memo /\ SameTop(w, u) /\ u.next = w.next /\ u.resv = w.resv
      /\ u.alive = w.alive + (-w.job[j].walused)
      /\ u.job[j] = Loose(w.job[j]) /\ Others(w, u, j)
  BY <1>1 DEF Changed, Others
<1>3. /\ t \in Memo /\ SameTop(u, t) /\ SameJobs(u, t) /\ t.resv = u.resv /\ t.next = u.next
      /\ t.tail = u.tail \/ Files(t) = {}
  BY <1>1 DEF Trimmed
<1>4. Vacant(w, t)
  BY <1>1 DEF Trimmed, SameSpace, Vacant
<1>5. Book(t, rd)
  BY <1>1, <1>2, TrimBook
<1>6. SameTop(w, t) /\ t.next = w.next /\ t.resv = w.resv /\ (t.tail = w.tail \/ Files(t) = {})
  BY <1>1, <1>2, <1>3 DEF SameTop, SameChain
<1>7. t.job[j] = Loose(w.job[j]) /\ Others(w, t, j) /\ t.alive = w.alive + (-w.job[j].walused)
  BY <1>2, <1>3 DEF SameJobs, Others
<1>8. w.job[j] \in JobRec /\ w.job[j].walused \in Nat /\ w.alive \in Int /\ w.next_id \in Nat
      /\ t.next_id = w.next_id
  BY <1>6, JobType, MemoType DEF SameTop
<1>9. /\ t.job[j].file = Nil /\ t.job[j].walused = 0 /\ t.job[j].state = w.job[j].state
      /\ t.job[j].size = w.job[j].size
  BY <1>7, <1>8, LooseOf
<1>10. JobOk(w, j)
  BY DEF Ledger
<1>11. w.job[j].state # "none" /\ ~(j >= w.next_id) /\ w.job[j].state \in LiveStates
  BY <1>10, NoJobType DEF JobOk
<1>12. Live(t) = Live(w) /\ j \in Live(w)
  BY <1>7, <1>9, <1>11 DEF Live, Others
<1>13. Ledger(t)
  <2>1. JobOk(t, j)
    BY <1>8, <1>9, <1>10, <1>11 DEF JobOk
  <2>2. PICK d \in Int : d = -w.job[j].walused
    BY <1>8
  <2>3. t.job[j].walused = w.job[j].walused + d /\ t.alive = w.alive + d
    BY <1>7, <1>8, <1>9, <2>2
  <2>4. t.next_id >= w.next_id /\ \A i \in Ids \ {j} : t.job[i] = w.job[i]
    BY <1>7, <1>8 DEF Others
  <2> QED
    BY <1>3, <2>1, <2>3, <2>4, LedgerChange
<1> QED
  BY <1>3, <1>4, <1>5, <1>6, <1>7, <1>12, <1>13, VacantNonNeg

LEMMA HeadOf ==
    ASSUME NEW l \in Seq(Ids), l # <<>>
    PROVE  Head(l) \in Range(l) /\ Head(l) \in Ids
<1>1. 1 \in DOMAIN l /\ Head(l) = l[1]
  BY SMTT(40)
<1> QED
  BY <1>1 DEF Range

\* The job that moveone takes.
LEMMA MovableOf ==
    ASSUME NEW w, Book(w, Nil), Ledger(w), w \in Memo, w.head # Nil,
           w.file[w.head].jlist # <<>>, NEW j, j = Head(w.file[w.head].jlist)
    PROVE  /\ j \in Ids /\ w.job[j].file = w.head /\ j \in Live(w)
           /\ w.job[j].size \in FullSizes
<1>1. w.head \in Seqs
  BY MemoType
<1>2. w.file[w.head].jlist \in Seq(Ids)
  BY <1>1, FileType
<1>3. j \in Range(w.file[w.head].jlist) /\ j \in Ids
  BY <1>2, HeadOf
<1>4. w.job[j].file = w.head
  BY <1>1, <1>3 DEF Book, Holds
<1>5. JobOk(w, j)
  BY <1>3, SMTT(40) DEF Ledger
<1>6. w.job[j].state # "none" /\ w.job[j].state \in LiveStates /\ w.job[j].size \in FullSizes
  BY <1>4, <1>5, NoJobType DEF JobOk
<1> QED
  BY <1>3, <1>4, <1>6 DEF Live

\* A file with a job is in the list.
LEMMA JobListed ==
    ASSUME NEW w \in Memo, Book(w, Nil), NEW f \in Seqs, NEW j \in Ids, w.job[j].file = f
    PROVE  w.head # Nil /\ f \in Files(w)
<1>1. j \in Range(w.file[f].jlist)
  BY DEF Book, Holds
<1>2. w.file[f] # NoFile
  BY <1>1, NoFileType, EmptyRange
<1>3. f \in Files(w)
  BY <1>2 DEF Book, Gone
<1> QED
  BY <1>3 DEF Files

\* moveone in a log that is not used any more: the job loses its file.
LEMMA MoveBroken ==
    ASSUME Stable, Process(m, pc), ~m.use, pc.at = "compact", NEW p \in PCs, p.op = "migrate",
           p.at = "write", p.j \in Ids, m.job[p.j].file # Nil, m.job[p.j].file # m.cur,
           p.to = m.job[p.j].state, p.n = m.job[p.j].size, Reserved(m, p)
    PROVE  Holding
<1>1. /\ m \in Memo /\ Book(m, Nil) /\ Ledger(m) /\ NonNeg(m) /\ m.cur \in Seqs
      /\ \E i \in Ids : m.job[i].file = m.cur
  BY BrokenOf
<1>2. PICK i \in Ids : m.job[i].file = m.cur
  BY <1>1
<1>3. PICK j \in Ids : j = p.j
  OBVIOUS
<1>4. PICK t : t = filermjob(m, j)
  OBVIOUS
<1>5. /\ t \in Memo /\ Book(t, Nil) /\ Ledger(t) /\ NonNeg(t) /\ SameTop(m, t)
      /\ t.job[j] = Loose(m.job[j]) /\ Others(m, t, j) /\ Live(t) = Live(m) /\ j \in Live(m)
  BY <1>1, <1>3, <1>4, DropOf
<1>6. t.job[j].state = m.job[j].state /\ t.job[j].size = m.job[j].size
  BY <1>1, <1>5, JobType, LooseOf
<1>7. t.job[i].file = t.cur /\ t.cur \in Seqs /\ ~t.use
  BY <1>1, <1>2, <1>3, <1>5 DEF Others, SameTop
<1>8. Command(p, t)
  <2>1. p.j \in Live(t) /\ p.to = t.job[p.j].state /\ p.n = t.job[p.j].size
    BY <1>3, <1>5, <1>6
  <2> QED
    BY <2>1 DEF Command
<1>9. Broken(p, t)
  BY <1>7 DEF Broken
<1>10. Reading(p) = Nil
  BY DEF Reading
<1>11. Process(t, p)
  BY <1>5, <1>7, <1>8, <1>9, <1>10 DEF Process
<1>12. m' = t /\ disk' = DiskFor(t) /\ rewriting' = rewriting \cup {j}
       /\ pc' = [p EXCEPT !.at = "write"]
  BY <1>3, <1>4 DEF Reserved, Become
<1>13. pc' = p
  BY <1>12 DEF PCs
<1>14. disk' \in Images /\ rewriting' \subseteq Ids
  BY <1>12, DiskOf DEF Stable
<1> QED
  BY <1>11, <1>12, <1>13, <1>14 DEF Holding

LEMMA MoveoneStep ==
    ASSUME RoomyFiles, WInv, moveone
    PROVE  WInv'
<1>1. Process(m, pc) /\ Stable /\ pc.at = "compact" /\ Movable
  BY DEF WInv, moveone
<1>2. m \in Memo /\ pc \in PCs /\ Book(m, Nil) /\ Ledger(m)
  <2>1. Reading(pc) = Nil
    BY <1>1 DEF Reading
  <2> QED
    BY <1>1, <2>1 DEF Process
<1>3. m.head # Nil
  <2>1. CASE m.use
    <3>1. PICK x, mv : x = 0 /\ mv = {}
      OBVIOUS
    <3>2. Yard(m, x, mv)
      BY <1>1, <2>1, <3>1, AtRest DEF Settled
    <3> QED
      BY <3>2, YardFiles
  <2>2. CASE ~m.use
    <3>1. m.cur \in Seqs /\ \E i \in Ids : m.job[i].file = m.cur
      BY <1>1, <2>2, BrokenOf
    <3> QED
      BY <1>2, <3>1, JobListed
  <2> QED
    BY <2>1, <2>2
<1>4. PICK j : j = Head(m.file[m.head].jlist)
  OBVIOUS
<1>5. j \in Ids /\ m.job[j].file = m.head /\ j \in Live(m) /\ m.job[j].size \in FullSizes
      /\ m.head # m.cur
  BY <1>1, <1>2, <1>3, <1>4, MovableOf DEF Movable
<1>6. PICK n \in Nat : n = m.job[j].size
  BY <1>5, WalConstants
<1>7. PICK s \in LiveStates : s = m.job[j].state
  BY <1>5 DEF Live
<1>8. PICK r \in Nat : r = pc.r
  BY <1>2, PCType
<1>9. PICK p : p = PC("write", "migrate", j, s, n, Nil, r)
  OBVIOUS
<1>10. p \in PCs /\ p.at = "write" /\ p.op = "migrate" /\ p.j = j /\ p.to = s /\ p.n = n
  <2>1. PICK a \in Places, op \in Operations, to \in LiveStates \cup {"none", "invalid"} :
            a = "write" /\ op = "migrate" /\ to = s
    BY DEF Places, Operations
  <2>2. PICK b \in Seqs \cup {Nil}, i \in Ids \cup {Nil} : b = Nil /\ i = j
    BY <1>5
  <2>3. p = PC(a, op, i, to, n, b, r)
    BY <1>9, <2>1, <2>2
  <2>4. p \in PCs /\ p.at = a /\ p.op = op /\ p.j = i /\ p.to = to /\ p.n = n
    BY <2>3, SMTT(40) DEF PC, PCs, Places, Operations
  <2> QED
    BY <2>1, <2>2, <2>4
<1>11. reserve(p)
  BY <1>4, <1>6, <1>7, <1>8, <1>9 DEF moveone
<1>12. Holding
  <2>1. CASE m.use
    <3>1. Settled(m)
      BY <1>1, <2>1, AtRest
    <3>2. Asks(p, m) /\ p.op # "replay"
      BY <1>5, <1>6, <1>7, <1>10 DEF Asks, Amounts
    <3>3. Refused(m, p)
      BY <3>1, <3>2, SettledRefused
    <3> QED
      BY <1>1, <1>11, <2>1, <3>3, ReserveStep
  <2>2. CASE ~m.use
    <3>1. Reserved(m, p)
      BY <1>11, <2>2 DEF reserve
    <3> QED
      BY <1>1, <1>3, <1>5, <1>6, <1>7, <1>10, <2>2, <3>1, MoveBroken
  <2> QED
    BY <2>1, <2>2
<1>13. logged' = logged /\ spent' = spent
  BY DEF moveone
<1> QED
  BY <1>1, <1>12, <1>13, HoldingInv DEF Stable

LEMMA CompactEndStep ==
    ASSUME WInv, walcompact_end
    PROVE  WInv'
<1>1. Process(m, pc) /\ Stable /\ pc.at = "compact"
  BY DEF WInv, walcompact_end
<1>2. PICK p : p = Idle
  OBVIOUS
<1>3. p \in PCs /\ p.at = "idle"
  BY <1>2, IdleType
<1>4. Process(m, p)
  <2>1. CASE m.use
    BY <1>1, <1>2, <1>3, <2>1, AtRest, SettledIdle
  <2>2. CASE ~m.use
    BY <1>1, <1>2, <1>3, <2>2, BrokenOf, BrokenWorks
  <2> QED
    BY <2>1, <2>2
<1>5. pc' = p /\ m' = m /\ disk' = disk /\ logged' = logged /\ rewriting' = rewriting
      /\ spent' = spent
  BY <1>2 DEF walcompact_end
<1> QED
  BY <1>1, <1>4, <1>5, HoldingInv DEF Stable, Holding

-----------------------------------------------------------------------------
(* Crash and start-up                                                      *)

\* prot_replay has r jobs left.
LEMMA Replaying ==
    ASSUME Process(m, pc), pc.at = "replay"
    PROVE  /\ pc \in PCs /\ m.use /\ pc.op = "replay" /\ pc.n = Z /\ pc.r \in Nat
           /\ Even(m.cur, Rs(m), 0)
           /\ \E x \in Int, mv \in SUBSET Ids : x = -Z * pc.r /\ mv = {} /\ Yard(m, x, mv)
<1>1. Upright(pc)
  BY DEF Upright
<1>2. m.use
  BY BrokenOf
<1>3. pc \in PCs /\ Yard(m, Extra(pc, m), Moving(pc)) /\ Command(pc, m) /\ Arranged(pc, m)
  BY <1>1, <1>2, ProcessUse
<1>4. pc.op = "replay" /\ pc.n = Z
  BY <1>3 DEF Command
<1>5. Due(pc, m) = 0 /\ Extra(pc, m) = -Z * pc.r /\ Moving(pc) = {}
  BY <1>4 DEF Due, Extra, Moving
<1>6. Even(m.cur, Rs(m), 0)
  BY <1>3, <1>5 DEF Arranged
<1>7. pc.r \in Nat /\ -Z * pc.r \in Int
  BY <1>3, PCType, WalConstants
<1> QED
  BY <1>2, <1>3, <1>4, <1>5, <1>6, <1>7

LEMMA ReplayStep ==
    ASSUME RoomyFiles, WInv, prot_replay
    PROVE  WInv'
<1>1. Process(m, pc) /\ Stable /\ pc.at = "replay" /\ pc.r > 0
  BY DEF WInv, prot_replay
<1>2. /\ pc \in PCs /\ m.use /\ pc.op = "replay" /\ pc.n = Z /\ pc.r \in Nat
      /\ Even(m.cur, Rs(m), 0)
      /\ \E x \in Int, mv \in SUBSET Ids : x = -Z * pc.r /\ mv = {} /\ Yard(m, x, mv)
  BY <1>1, Replaying
<1>3. PICK x \in Int, mv \in SUBSET Ids : x = -Z * pc.r /\ mv = {} /\ Yard(m, x, mv)
  BY <1>2
<1>4. PICK r \in Nat : r = pc.r - 1
  BY <1>1, <1>2
<1>5. PICK p : p = [pc EXCEPT !.r = r]
  OBVIOUS
<1>6. p \in PCs /\ p.op = "replay" /\ p.n = Z /\ p.r = r
  BY <1>2, <1>5 DEF PCs
<1>7. Asks(p, m)
  BY <1>6 DEF Asks, Amounts
<1>8. Owed(p) = x
  <2>1. r + 1 = pc.r
    BY <1>2, <1>4
  <2> QED
    BY <1>3, <1>6, <2>1 DEF Owed
<1>9. Refused(m, p)
  BY <1>2, <1>3, <1>7, <1>8 DEF Refused
<1>10. reserve(p)
  BY <1>2, <1>4, <1>5 DEF prot_replay, PCs
<1>11. Holding
  BY <1>1, <1>2, <1>9, <1>10, ReserveStep
<1>12. logged' = logged /\ spent' = spent
  BY DEF prot_replay
<1> QED
  BY <1>1, <1>11, <1>12, HoldingInv DEF Stable

\* What a restart finds of a job that is unknown or alive.
LEMMA ViewType ==
    ASSUME m \in Memo, Ledger(m), NEW j \in Ids, NEW v, v = View(j)
    PROVE  v \in Views
<1>1. JobOk(m, j)
  BY DEF Ledger
<1>2. CASE m.job[j].state = "none"
  <2>1. m.job[j] = NoJob
    BY <1>1, <1>2 DEF JobOk
  <2>2. v = Absent
    BY <2>1 DEF View, Absent, NoJob
  <2> QED
    BY <2>2 DEF Views
<1>3. CASE m.job[j].state # "none"
  <2>1. PICK s \in LiveStates : s = m.job[j].state
    BY <1>1, <1>3 DEF JobOk
  <2>2. PICK b \in Bodies, a \in Nat : b = m.job[j].body /\ a = m.job[j].at
    BY JobType
  <2>3. v = [state |-> s, body |-> b, at |-> a]
    BY <2>1, <2>2 DEF View
  <2> QED
    BY <2>3, ViewRec
<1> QED
  BY <1>2, <1>3

LEMMA ReplayEndStep ==
    ASSUME WInv, replay_end
    PROVE  WInv'
<1>1. Process(m, pc) /\ Stable /\ pc.at = "replay" /\ pc.r = 0
  BY DEF WInv, replay_end
<1>2. Even(m.cur, Rs(m), 0) /\ \E x \in Int, mv \in SUBSET Ids : x = -Z * pc.r /\ mv = {} /\ Yard(m, x, mv)
  BY <1>1, Replaying
<1>3. PICK x \in Int, mv \in SUBSET Ids : x = -Z * pc.r /\ mv = {} /\ Yard(m, x, mv)
  BY <1>2
<1>4. x = 0
  <2>1. -Z * 0 = 0
    BY WalConstants
  <2> QED
    BY <1>1, <1>3, <2>1
<1>5. Settled(m)
  BY <1>2, <1>3, <1>4 DEF Settled
<1>6. PICK p : p = Idle
  OBVIOUS
<1>7. Process(m, p)
  BY <1>5, <1>6, IdleType, SettledIdle
<1>8. m \in Memo /\ Ledger(m)
  BY <1>1 DEF Process
<1>9. logged' \in [Ids -> Views]
  <2>1. logged' = [j \in Ids |-> View(j)]
    BY DEF replay_end
  <2>2. ASSUME NEW j \in Ids PROVE View(j) \in Views
    BY <1>8, ViewType
  <2> QED
    BY <2>1, <2>2
<1>10. pc' = p /\ m' = m /\ disk' = disk /\ rewriting' = {}
       /\ spent' = [spent EXCEPT !.unread = {}]
  BY <1>6 DEF replay_end
<1>11. spent' \in Spents /\ spent'.spare = spent.spare
  BY <1>1, <1>10 DEF Stable, Spents
<1> QED
  BY <1>1, <1>7, <1>9, <1>10, <1>11, HoldingInv DEF Stable, Holding

LEMMA CrashStep ==
    ASSUME WInv, Crash
    PROVE  WInv'
<1>1. Stable /\ disk \in Images
  BY DEF WInv, Stable
<1>2. m' = FreshMemory /\ pc' = Down /\ logged' = logged /\ rewriting' = rewriting
      /\ Faulty /\ spent' = [spent EXCEPT !.crashes = @ + 1, !.spare = 0, !.unlogged = {},
                                           !.freed = {}]
  BY DEF Crash
<1>3. Process(m, pc)'
  <2>1. Process(m', pc') /\ pc'.at = "down"
    BY <1>2, FreshOf DEF Down, PC
  <2> QED
    BY <2>1 DEF Process
<1>4. disk' \in Images
  <2>1. CASE disk' = disk
    BY <1>1, <2>1
  <2>2. CASE disk' # disk
    <3>1. PICK k : k = [EmptyImage EXCEPT !.version = 0]
      OBVIOUS
    <3>2. Kept(k)
      BY <3>1, EmptyImages
    <3>3. m.next \in Seqs /\ disk' = [disk EXCEPT ![m.next] = k]
      BY <2>2, <3>1 DEF Crash
    <3>4. disk = [f \in Seqs |-> disk[f]] /\ \A f \in Seqs : Kept(disk[f])
      BY <1>1, ImagesOf
    <3>5. PICK d : d = [disk EXCEPT ![m.next] = k]
      OBVIOUS
    <3>6. d = [f \in Seqs |-> IF f = m.next THEN k ELSE disk[f]]
      BY <3>3, <3>4, <3>5
    <3>7. d = [f \in Seqs |-> d[f]] /\ \A f \in Seqs : Kept(d[f])
      BY <3>2, <3>4, <3>6
    <3>8. d \in Images
      BY <3>7, ImagesOf
    <3> QED
      BY <3>3, <3>5, <3>8
  <2> QED
    BY <2>1, <2>2
<1>5. spent' \in Spents
  <2>1. spent.crashes + 1 \in 0..MaxFaults /\ {} \in SUBSET Ids /\ 0 \in Nat
    BY <1>1, <1>2, WalConstants DEF Stable, Spents, Faulty
  <2> QED
    BY <1>1, <1>2, <2>1 DEF Stable, Spents
<1> QED
  BY <1>1, <1>2, <1>3, <1>4, <1>5 DEF WInv, Stable

\* No file has space.
Blank(w) ==
    \A f \in Seqs : w.file[f].resv = 0 /\ w.file[f].free = 0 /\ ~w.file[f].iswopen

\* The memory while the files are read; rd is the one that is being read.
Base(w, rd) ==
    /\ w \in Memo /\ Book(w, rd) /\ Ledger(w) /\ Blank(w)
    /\ w.use /\ w.cur = Nil /\ w.resv = 0

Loaded(w, rd) == Base(w, rd) /\ \A j \in Live(w) : w.job[j].file # Nil

LEMMA BlankNonNeg ==
    ASSUME NEW w, Blank(w)
    PROVE  NonNeg(w)
BY DEF Blank, NonNeg

LEMMA LoadedOf ==
    ASSUME NEW w, NEW p, Process(w, p), p.at \in {"read", "first"}
    PROVE  /\ Loaded(w, Reading(p)) /\ p \in PCs /\ p.op = "none"
           /\ p.at = "read" =>
                /\ p.b \in Seqs /\ p.b < w.next
                /\ p.r = 0 => w.head = Nil \/ w.tail = p.b - 1
                /\ p.r # 0 => w.head # Nil /\ w.tail = p.b
           /\ p.at = "first" => w.head = Nil \/ w.tail = w.next - 1
<1>1. Loading(p, w) /\ w \in Memo /\ p \in PCs /\ Book(w, Reading(p)) /\ Ledger(w)
  BY DEF Process
<1>2. /\ w.use /\ w.cur = Nil /\ w.resv = 0 /\ Blank(w) /\ p.op = "none"
      /\ \A j \in Live(w) : w.job[j].file # Nil
  BY <1>1 DEF Loading, Blank
<1>3. Loaded(w, Reading(p))
  BY <1>1, <1>2 DEF Loaded, Base
<1> QED
  BY <1>1, <1>2, <1>3 DEF Loading

LEMMA LoadedWorks ==
    ASSUME NEW w, NEW p \in PCs, NEW rd, rd = Reading(p), Loaded(w, rd), p.at \in {"read", "first"},
           p.op = "none",
           p.at = "read" => /\ p.b \in Seqs /\ p.b < w.next
                            /\ p.r = 0 => w.head = Nil \/ w.tail = p.b - 1
                            /\ p.r # 0 => w.head # Nil /\ w.tail = p.b,
           p.at = "first" => w.head = Nil \/ w.tail = w.next - 1
    PROVE  Process(w, p)
<1>1. /\ w \in Memo /\ Book(w, rd) /\ Ledger(w) /\ Blank(w)
      /\ w.use /\ w.cur = Nil /\ w.resv = 0 /\ \A j \in Live(w) : w.job[j].file # Nil
  BY DEF Loaded, Base
<1>2. Loading(p, w)
  BY <1>1 DEF Loading, Blank
<1>3. NonNeg(w)
  BY <1>1, BlankNonNeg
<1> QED
  BY <1>1, <1>2, <1>3 DEF Process

\* walread goes to the next file, or has read them all.
LEMMA ReadFromOf ==
    ASSUME NEW w, Loaded(w, Nil), NEW v, v.next = w.next, NEW f \in Nat \ {0}, f <= w.next,
           w.head = Nil \/ w.tail = f - 1, ReadFrom(v, f)
    PROVE  Process(w, pc')
<1>1. w \in Memo /\ w.next \in 1..(MaxSeq + 1) /\ w.next \in Nat
  BY MemoType DEF Loaded, Base, Book, Chain
<1>2. PICK p : p = pc'
  OBVIOUS
<1>3. CASE f < w.next
  <2>1. f \in Seqs
    BY <1>1, <1>3, WalConstants DEF Seqs
  <2>2. p = PC("read", "none", Nil, "none", 0, f, 0)
    BY <1>2, <1>3 DEF ReadFrom
  <2>3. p \in PCs /\ p.at = "read" /\ p.op = "none" /\ p.b = f /\ p.r = 0
    BY <2>1, <2>2 DEF PC, PCs
  <2>4. Reading(p) = Nil
    BY <2>3 DEF Reading
  <2> QED
    BY <1>2, <1>3, <2>1, <2>3, <2>4, LoadedWorks
<1>4. CASE ~(f < w.next)
  <2>1. f = w.next
    BY <1>1, <1>4
  <2>2. p = PC("first", "none", Nil, "none", 0, Nil, 0)
    BY <1>2, <1>4 DEF ReadFrom
  <2>3. p \in PCs /\ p.at = "first" /\ p.op = "none"
    BY <2>2 DEF PC, PCs
  <2>4. Reading(p) = Nil
    BY <2>3 DEF Reading
  <2> QED
    BY <1>2, <2>1, <2>3, <2>4, LoadedWorks
<1> QED
  BY <1>3, <1>4

SetNext(w, n) == [w EXCEPT !.next = n]

LEMMA ScanOf ==
    ASSUME NEW n \in 1..(MaxSeq + 1), NEW t, t = SetNext(FreshMemory, n)
    PROVE  Loaded(t, Nil) /\ t.next = n /\ t.head = Nil
<1>1. FreshMemory \in Memo /\ Process(FreshMemory, Down)
  BY FreshOf DEF Process
<1>2. n \in Nat
  BY WalConstants
<1>3. /\ t \in Memo /\ t.next = n /\ t.head = Nil /\ t.tail = Nil /\ t.use /\ t.cur = Nil
      /\ t.resv = 0 /\ t.alive = 0 /\ t.file = [f \in Seqs |-> NoFile] /\ t.job = [j \in Ids |-> NoJob]
  <2>1. t \in Memo
    BY <1>1, <1>2 DEF SetNext, Memo
  <2> QED
    BY <2>1 DEF SetNext, FreshMemory
<1>4. (\A f \in Seqs : t.file[f] = NoFile) /\ \A j \in Ids : t.job[j] = NoJob
  BY <1>3
<1>5. Book(t, Nil)
  BY <1>3, <1>4, EmptyBook
<1>6. Ledger(t)
  BY <1>3, <1>4, EmptyLedger
<1>7. Blank(t)
  BY <1>4, NoFileType DEF Blank
<1>8. Live(t) = {}
  BY <1>4, NoJobType DEF Live, LiveStates
<1> QED
  BY <1>3, <1>5, <1>6, <1>7, <1>8 DEF Loaded, Base

LEMMA ScandirStep ==
    ASSUME WInv, walscandir
    PROVE  WInv'
<1>1. Process(m, pc) /\ Stable /\ pc = Down
  BY DEF WInv, walscandir
<1>2. m = FreshMemory
  BY <1>1 DEF Process, Down, PC
<1>3. PICK P : P = Present
  OBVIOUS
<1>4. P \subseteq Seqs /\ P \subseteq Nat
  BY <1>3, SeqsNat DEF Present
<1>5. PICK n : n = IF P = {} THEN 1 ELSE Max(P) + 1
  OBVIOUS
<1>6. PICK f : f = IF P = {} THEN n ELSE Min(P)
  OBVIOUS
<1>7. n \in 1..(MaxSeq + 1) /\ f \in Nat \ {0} /\ f <= n
  <2>1. CASE P = {}
    BY <1>5, <1>6, <2>1, WalConstants
  <2>2. CASE P # {}
    <3>1. Max(P) \in P /\ \A y \in P : y <= Max(P)
      BY <1>4, <2>2, MaxOf
    <3>2. Min(P) \in P
      BY <1>4, <2>2, MinOf
    <3>3. PICK a \in Seqs, b \in Seqs : a = Max(P) /\ b = Min(P) /\ b <= a
      BY <1>4, <3>1, <3>2
    <3>4. n = a + 1 /\ f = b
      BY <1>5, <1>6, <2>2, <3>3
    <3> QED
      BY <3>3, <3>4, WalConstants DEF Seqs
  <2> QED
    BY <2>1, <2>2
<1>8. PICK t : t = SetNext(FreshMemory, n)
  OBVIOUS
<1>9. m' = t
  BY <1>2, <1>3, <1>5, <1>8 DEF walscandir, SetNext
<1>10. Loaded(t, Nil) /\ t.next = n /\ t.head = Nil
  BY <1>7, <1>8, ScanOf
<1>11. ReadFrom(t, f)
  <2>1. t = [m EXCEPT !.next = IF Present = {} THEN 1 ELSE Max(Present) + 1]
    BY <1>2, <1>3, <1>5, <1>8 DEF SetNext
  <2>2. ReadFrom(t, IF Present = {} THEN t.next ELSE Min(Present))
    BY <2>1 DEF walscandir
  <2>3. f = IF Present = {} THEN t.next ELSE Min(Present)
    BY <1>3, <1>6, <1>10
  <2> QED
    BY <2>2, <2>3
<1>12. Process(t, pc')
  BY <1>7, <1>10, <1>11, ReadFromOf
<1>13. disk' = disk /\ logged' = logged /\ rewriting' = rewriting /\ spent' = spent
  BY DEF walscandir
<1> QED
  BY <1>1, <1>9, <1>12, <1>13, HoldingInv DEF Stable, Holding

\* A file that is read joins the list.
LEMMA FileAddOf ==
    ASSUME NEW w, Loaded(w, Nil), NEW b \in Seqs, b < w.next, w.head = Nil \/ w.tail = b - 1,
           NEW t, t = fileadd(w, b)
    PROVE  Loaded(t, Nil) /\ t.next = w.next /\ t.tail = b /\ t.head # Nil
<1>1. /\ w \in Memo /\ Book(w, Nil) /\ Ledger(w) /\ Blank(w) /\ w.use /\ w.cur = Nil /\ w.resv = 0
      /\ Chain(w)
  BY DEF Loaded, Base, Book
<1>2. PICK h : h = IF w.head = Nil THEN b ELSE w.head
  OBVIOUS
<1>3. h \in Seqs /\ h <= b
  <2>1. w.head \in Seqs \cup {Nil} /\ b \in Nat
    BY <1>1, MemoType, SeqsNat
  <2>2. CASE w.head = Nil
    BY <1>2, <2>1, <2>2
  <2>3. CASE w.head # Nil
    <3>1. w.head \in Seqs /\ w.tail \in Seqs /\ w.head <= w.tail /\ w.tail = b - 1
      BY <1>1, <2>3 DEF Chain
    <3> QED
      BY <1>2, <2>1, <2>3, <3>1, SeqsNat
  <2> QED
    BY <2>2, <2>3
<1>4. t = [w EXCEPT !.tail = b, !.head = h]
  BY <1>1, <1>2 DEF fileadd, Memo
<1>5. /\ t \in Memo /\ t.tail = b /\ t.head = h /\ t.next = w.next /\ t.use = w.use /\ t.cur = w.cur
      /\ t.resv = w.resv /\ t.file = w.file /\ SameJobs(w, t)
  BY <1>1, <1>3, <1>4 DEF Memo, SameJobs
<1>6. h # Nil /\ h \in Nat /\ b \in Nat
  BY <1>3 DEF Seqs, Nil
<1>7. Chain(t)
  BY <1>1, <1>3, <1>5 DEF Chain
<1>8. Files(w) \subseteq Files(t)
  <2>1. \A f \in Seqs : f \in Files(w) <=> w.head # Nil /\ w.head <= f /\ f <= w.tail
    BY <1>1, FilesOf
  <2>2. \A f \in Seqs : f \in Files(t) <=> t.head # Nil /\ t.head <= f /\ f <= t.tail
    BY <1>5, <1>7, FilesOf
  <2>3. Files(w) \subseteq Seqs
    BY <1>1, FilesOf
  <2>4. ASSUME NEW f \in Files(w) PROVE f \in Files(t)
    <3>1. f \in Seqs /\ w.head # Nil /\ w.head <= f /\ f <= w.tail
      BY <2>1, <2>3
    <3>2. w.tail = b - 1 /\ h = w.head /\ f \in Nat
      BY <1>2, <3>1, SeqsNat
    <3> QED
      BY <1>5, <1>6, <2>2, <3>1, <3>2
  <2> QED
    BY <2>4
<1>9. Book(t, Nil)
  <2>1. ASSUME NEW f \in Seqs PROVE Counted(t, f, Nil) /\ Holds(t, f) /\ Gone(t, f, Nil)
    <3>1. Counted(w, f, Nil) /\ Holds(w, f) /\ Gone(w, f, Nil)
      BY <1>1 DEF Book
    <3>2. t.file[f] = w.file[f] /\ t.job = w.job
      BY <1>5 DEF SameJobs
    <3>3. Counted(t, f, Nil)
      BY <3>1, <3>2 DEF Counted
    <3>4. Holds(t, f)
      BY <3>1, <3>2 DEF Holds
    <3>5. Gone(t, f, Nil)
      BY <1>8, <3>1, <3>2 DEF Gone
    <3> QED
      BY <3>3, <3>4, <3>5
  <2> QED
    BY <1>7, <2>1 DEF Book
<1>10. Ledger(t) /\ Live(t) = Live(w)
  BY <1>1, <1>5, LedgerSame, LiveSame DEF SameJobs
<1>11. Blank(t)
  BY <1>1, <1>5 DEF Blank
<1>12. \A j \in Live(t) : t.job[j].file # Nil
  BY <1>5, <1>10 DEF Loaded, SameJobs
<1> QED
  BY <1>1, <1>5, <1>6, <1>9, <1>10, <1>11, <1>12 DEF Loaded, Base

\* fileread holds the file.
LEMMA HoldOf ==
    ASSUME NEW w, Loaded(w, Nil), NEW b \in Seqs, w.tail = b, w.head # Nil,
           NEW t, t = fileincref(w, b)
    PROVE  Loaded(t, b) /\ t.next = w.next /\ t.tail = b /\ t.head # Nil
<1>1. /\ w \in Memo /\ Book(w, Nil) /\ Ledger(w) /\ Blank(w) /\ w.use /\ w.cur = Nil /\ w.resv = 0
      /\ Chain(w)
  BY DEF Loaded, Base, Book
<1>2. More(w, t, b)
  BY <1>1, IncOf
<1>3. /\ t \in Memo /\ SameTop(w, t) /\ SameChain(w, t) /\ SameJobs(w, t) /\ t.resv = w.resv
      /\ t.file[b].refs = w.file[b].refs + 1
      /\ t.file[b].iswopen = w.file[b].iswopen /\ t.file[b].jlist = w.file[b].jlist
      /\ t.file[b].free = w.file[b].free /\ t.file[b].resv = w.file[b].resv
      /\ \A g \in Seqs \ {b} : t.file[g] = w.file[g]
  BY <1>2 DEF More
<1>4. Files(t) = Files(w) /\ b \in Files(w) /\ Chain(t)
  BY <1>1, <1>3, FilesOf DEF Files, SameChain, Chain
<1>5. ASSUME NEW f \in Seqs PROVE Counted(t, f, b) /\ Holds(t, f) /\ Gone(t, f, b)
  <2>1. Counted(w, f, Nil) /\ Holds(w, f) /\ Gone(w, f, Nil) /\ f # Nil
    BY <1>1 DEF Book, Seqs, Nil
  <2>2. Gone(t, f, b) /\ Holds(t, f)
    BY <1>3, <1>4, <2>1 DEF Gone, Holds, SameJobs
  <2>3. CASE f = b
    <3>1. w.file[b].refs \in Int /\ Len(w.file[b].jlist) \in Nat
      BY <1>1, FileType, ListLen
    <3>2. w.file[b].refs = Len(w.file[b].jlist) + (IF w.file[b].iswopen THEN 1 ELSE 0) + 0
      BY <2>1, <2>3 DEF Counted
    <3>3. ~w.file[b].iswopen
      BY <1>1 DEF Blank
    <3>4. t.file[b].refs = Len(t.file[b].jlist) + 1 /\ ~t.file[b].iswopen
      BY <1>3, <3>1, <3>2, <3>3
    <3>5. Counted(t, f, b)
      <4>1. Len(t.file[b].jlist) + (IF t.file[b].iswopen THEN 1 ELSE 0) + (IF f = b THEN 1 ELSE 0)
              = Len(t.file[b].jlist) + 1
        BY <1>3, <2>3, <3>1, <3>4
      <4> QED
        BY <2>3, <3>4, <4>1 DEF Counted
    <3> QED
      BY <2>2, <3>5
  <2>4. CASE f # b
    BY <1>3, <2>1, <2>2, <2>4 DEF Counted
  <2> QED
    BY <2>3, <2>4
<1>6. Book(t, b)
  BY <1>4, <1>5 DEF Book
<1>7. Ledger(t) /\ Live(t) = Live(w)
  BY <1>1, <1>3, LedgerSame, LiveSame DEF SameJobs
<1>8. Blank(t)
  BY <1>1, <1>3 DEF Blank
<1>9. \A j \in Live(t) : t.job[j].file # Nil
  BY <1>3, <1>7 DEF Loaded, SameJobs
<1> QED
  BY <1>1, <1>3, <1>6, <1>7, <1>8, <1>9 DEF Loaded, Base, SameTop, SameChain

LEMMA FilereadStep ==
    ASSUME WInv, fileread
    PROVE  WInv'
<1>1. Process(m, pc) /\ Stable /\ pc.at = "read" /\ pc.r = 0
  BY DEF WInv, fileread
<1>2. Reading(pc) = Nil
  BY <1>1 DEF Reading
<1>3. /\ Loaded(m, Nil) /\ pc \in PCs /\ pc.op = "none" /\ pc.b \in Seqs /\ pc.b < m.next
      /\ m.head = Nil \/ m.tail = pc.b - 1
  BY <1>1, <1>2, LoadedOf
<1>4. PICK b \in Seqs : b = pc.b
  BY <1>3
<1>5. PICK w : w = fileadd(m, b)
  OBVIOUS
<1>6. Loaded(w, Nil) /\ w.next = m.next /\ w.tail = b /\ w.head # Nil
  BY <1>3, <1>4, <1>5, FileAddOf
<1>7. Process(m', pc')
  <2>1. CASE disk[pc.b].version \in {Walver, Walver5}
    <3>1. PICK t : t = fileincref(w, b)
      OBVIOUS
    <3>2. Loaded(t, b) /\ t.next = w.next /\ t.tail = b /\ t.head # Nil
      BY <1>6, <3>1, HoldOf
    <3>3. PICK p : p = [pc EXCEPT !.r = 1]
      OBVIOUS
    <3>4. p \in PCs /\ p.at = "read" /\ p.op = "none" /\ p.b = b /\ p.r = 1
      BY <1>1, <1>3, <1>4, <3>3 DEF PCs
    <3>5. Reading(p) = b
      BY <3>4 DEF Reading
    <3>6. Process(t, p)
      BY <1>3, <1>4, <1>6, <3>2, <3>4, <3>5, LoadedWorks
    <3>7. m' = t /\ pc' = p
      BY <1>4, <1>5, <2>1, <3>1, <3>3 DEF fileread
    <3> QED
      BY <3>6, <3>7
  <2>2. CASE disk[pc.b].version \notin {Walver, Walver5}
    <3>1. PICK f : f = b + 1
      OBVIOUS
    <3>2. m' = w /\ ReadFrom(w, f)
      BY <1>4, <1>5, <2>2, <3>1 DEF fileread
    <3>3. w.next \in Nat /\ b \in Nat
      BY <1>6, MemoType, SeqsNat DEF Loaded, Base
    <3>4. f \in Nat \ {0} /\ f <= w.next /\ w.tail = f - 1
      BY <1>3, <1>4, <1>6, <3>1, <3>3
    <3> QED
      BY <1>6, <3>2, <3>4, ReadFromOf
  <2> QED
    BY <2>1, <2>2
<1>8. disk' = disk /\ logged' = logged /\ rewriting' = rewriting /\ spent' = spent
  BY DEF fileread
<1> QED
  BY <1>1, <1>7, <1>8, HoldingInv DEF Stable, Holding

\* The record of job j, the next id and the bytes of the log.
Entered(w, j, k, n, a) == [w EXCEPT !.job[j] = k, !.next_id = n, !.alive = a]

LEMMA EnteredOf ==
    ASSUME NEW w \in Memo, NEW j \in Ids, NEW k \in JobRec, NEW n \in Nat \ {0}, NEW a \in Int,
           NEW t, t = Entered(w, j, k, n, a)
    PROVE  /\ t \in Memo /\ SameChain(w, t) /\ t.resv = w.resv /\ t.cur = w.cur /\ t.use = w.use
           /\ t.file = w.file /\ t.next_id = n /\ t.alive = a
           /\ t.job[j] = k /\ Others(w, t, j)
<1>1. PICK u : u = SetJob(w, j, k)
  OBVIOUS
<1>2. /\ u \in Memo /\ SameTop(w, u) /\ SameChain(w, u) /\ u.resv = w.resv
      /\ u.file = w.file /\ u.job[j] = k /\ Others(w, u, j)
  BY <1>1, SetJobOf, SetJobElse
<1>3. t = [u EXCEPT !.next_id = n, !.alive = a]
  BY <1>1 DEF SetJob, Entered, Memo
<1>4. /\ t \in Memo /\ SameChain(u, t) /\ t.resv = u.resv /\ t.cur = u.cur /\ t.use = u.use
      /\ t.file = u.file /\ t.next_id = n /\ t.alive = a /\ t.job = u.job
  BY <1>2, <1>3 DEF Memo, SameChain
<1> QED
  BY <1>2, <1>4 DEF SameTop, SameChain, Others

\* A job that the log may hold.
Fine(k, j, n) ==
    \/ k = NoJob
    \/ /\ k.state \in LiveStates /\ k.size \in FullSizes /\ j < n
       /\ k.file = Nil => k.walused = 0

LEMMA BaseEnter ==
    ASSUME NEW w, NEW rd, Base(w, rd), NEW j \in Ids, NEW k \in JobRec, NEW n \in Nat \ {0},
           n >= w.next_id, k.file = w.job[j].file, NEW d \in Int, k.walused = w.job[j].walused + d,
           Fine(k, j, n), NEW a, a = w.alive + d, NEW t, t = Entered(w, j, k, n, a)
    PROVE  /\ Base(t, rd) /\ SameChain(w, t) /\ t.next_id = n /\ t.alive = a
           /\ t.job[j] = k /\ Others(w, t, j)
<1>1. /\ w \in Memo /\ Book(w, rd) /\ Ledger(w) /\ Blank(w) /\ w.use /\ w.cur = Nil /\ w.resv = 0
  BY DEF Base
<1>2. w.alive \in Int /\ a \in Int
  BY <1>1, MemoType
<1>3. /\ t \in Memo /\ SameChain(w, t) /\ t.resv = w.resv /\ t.cur = w.cur /\ t.use = w.use
      /\ t.file = w.file /\ t.next_id = n /\ t.alive = a
      /\ t.job[j] = k /\ Others(w, t, j)
  <2>1. PICK c \in Int : c = a
    BY <1>2
  <2>2. PICK v \in Memo : v = w
    BY <1>1
  <2>3. PICK s : s = t
    OBVIOUS
  <2>4. s = Entered(v, j, k, n, c)
    BY <2>1, <2>2, <2>3
  <2>5. /\ s \in Memo /\ SameChain(v, s) /\ s.resv = v.resv /\ s.cur = v.cur /\ s.use = v.use
        /\ s.file = v.file /\ s.next_id = n /\ s.alive = c
        /\ s.job[j] = k /\ Others(v, s, j)
    BY <2>4, EnteredOf
  <2> QED
    BY <2>1, <2>2, <2>3, <2>5
<1>4. Book(t, rd)
  <2>1. SameFiles(w, t)
    BY <1>3 DEF SameFiles, SameFile
  <2>2. ASSUME NEW i \in Ids PROVE t.job[i].file = w.job[i].file
    BY <1>3 DEF Others
  <2>3. \A g \in Seqs : g \notin Files(w) => t.file[g] = w.file[g]
    BY <1>3
  <2> QED
    BY <1>1, <1>3, <2>1, <2>2, <2>3, BookSame
<1>5. JobOk(t, j)
  <2>1. CASE k = NoJob
    BY <1>3, <2>1, NoJobType DEF JobOk
  <2>2. CASE k # NoJob
    <3>1. k.state \in LiveStates /\ k.size \in FullSizes /\ j < n /\ (k.file = Nil => k.walused = 0)
      BY <2>2 DEF Fine
    <3>2. k.state # "none" /\ ~(j >= n)
      BY <3>1 DEF LiveStates, Ids
    <3> QED
      BY <1>3, <3>1, <3>2 DEF JobOk
  <2> QED
    BY <2>1, <2>2
<1>6. Ledger(t)
  <2>1. \A i \in Ids \ {j} : t.job[i] = w.job[i]
    BY <1>3 DEF Others
  <2>2. t.job[j].walused = w.job[j].walused + d /\ t.alive = w.alive + d /\ t.next_id >= w.next_id
    BY <1>3
  <2> QED
    BY <1>1, <1>3, <1>5, <2>1, <2>2, LedgerChange
<1>7. Blank(t)
  BY <1>1, <1>3 DEF Blank
<1> QED
  BY <1>1, <1>3, <1>4, <1>6, <1>7 DEF Base

\* The job has no file, or nothing changes for it.
LEMMA BaseDrop ==
    ASSUME NEW w, NEW rd, Base(w, rd), NEW j \in Ids, NEW t, t = filermjob(w, j)
    PROVE  /\ Base(t, rd) /\ t.next = w.next /\ t.next_id = w.next_id
           /\ t.tail = w.tail \/ Files(t) = {}
           /\ t.job[j].file = Nil /\ t.job[j].walused = 0 /\ Others(w, t, j)
           /\ t.job[j].state = w.job[j].state /\ t.job[j].size = w.job[j].size
<1>1. /\ w \in Memo /\ Book(w, rd) /\ Ledger(w) /\ Blank(w) /\ w.use /\ w.cur = Nil /\ w.resv = 0
      /\ NonNeg(w)
  BY BlankNonNeg DEF Base
<1>2. CASE w.job[j].file = Nil
  <2>1. t = w
    BY <1>2 DEF filermjob
  <2>2. w.job[j].walused = 0
    BY <1>1, <1>2 DEF Ledger, JobOk
  <2> QED
    BY <1>2, <2>1, <2>2 DEF Others
<1>3. CASE w.job[j].file # Nil
  <2>1. /\ t \in Memo /\ Book(t, rd) /\ Ledger(t) /\ Vacant(w, t)
        /\ SameTop(w, t) /\ t.next = w.next /\ t.resv = w.resv
        /\ t.tail = w.tail \/ Files(t) = {}
        /\ t.job[j] = Loose(w.job[j]) /\ Others(w, t, j)
    BY <1>1, <1>3, DropOf
  <2>2. Blank(t)
    BY <1>1, <2>1, NoFileType DEF Blank, Vacant
  <2>3. Base(t, rd) /\ t.next_id = w.next_id
    BY <1>1, <2>1, <2>2 DEF Base, SameTop
  <2>4. w.job[j] \in JobRec
    BY <1>1, JobType
  <2>5. /\ t.job[j].file = Nil /\ t.job[j].walused = 0
        /\ t.job[j].state = w.job[j].state /\ t.job[j].size = w.job[j].size
    BY <2>1, <2>4, LooseOf
  <2> QED
    BY <2>1, <2>3, <2>5
<1> QED
  BY <1>2, <1>3

LEMMA BaseAdd ==
    ASSUME NEW w, NEW f \in Seqs, Base(w, f), NEW j \in Ids, w.job[j].file = Nil,
           w.job[j].state \in LiveStates, NEW t, t = fileaddjob(w, f, j)
    PROVE  /\ Base(t, f) /\ SameChain(w, t) /\ t.next_id = w.next_id
           /\ t.job[j].file = f /\ t.job[j].walused = 0 /\ Others(w, t, j)
           /\ t.job[j].state = w.job[j].state /\ t.job[j].size = w.job[j].size
<1>1. /\ w \in Memo /\ Book(w, f) /\ Ledger(w) /\ Blank(w) /\ w.use /\ w.cur = Nil /\ w.resv = 0
  BY DEF Base
<1>2. f \in Files(w)
  BY <1>1 DEF Book, Gone
<1>3. /\ Changed(w, t, j, Placed(w.job[j], f), 0) /\ SameChain(w, t)
      /\ SameSpace(w, t) /\ Book(t, f)
  BY <1>1, <1>2, AddOf
<1>4. /\ t \in Memo /\ SameTop(w, t) /\ t.resv = w.resv /\ t.alive = w.alive + 0
      /\ t.job[j] = Placed(w.job[j], f) /\ Others(w, t, j)
  BY <1>3 DEF Changed, Others
<1>5. w.job[j] \in JobRec /\ w.alive \in Int /\ w.next_id \in Nat
  BY <1>1, JobType, MemoType
<1>6. JobOk(w, j)
  BY <1>1 DEF Ledger
<1>7. /\ t.job[j].file = f /\ t.job[j].walused = w.job[j].walused
      /\ t.job[j].state = w.job[j].state /\ t.job[j].size = w.job[j].size
  BY <1>4, <1>5, PlacedOf
<1>8. w.job[j].walused = 0 /\ w.job[j].state # "none" /\ f # Nil
  BY <1>6 DEF JobOk, LiveStates, Seqs, Nil
<1>9. t.next_id = w.next_id
  BY <1>4 DEF SameTop
<1>10. JobOk(t, j)
  BY <1>6, <1>7, <1>8, <1>9 DEF JobOk
<1>11. Ledger(t)
  <2>1. PICK d \in Int : d = 0
    OBVIOUS
  <2>2. t.job[j].walused = w.job[j].walused + d /\ t.alive = w.alive + d
    BY <1>4, <1>5, <1>7, <1>8, <2>1
  <2>3. t.next_id >= w.next_id /\ \A i \in Ids \ {j} : t.job[i] = w.job[i]
    BY <1>4, <1>5, <1>9 DEF Others
  <2> QED
    BY <1>1, <1>4, <1>10, <2>2, <2>3, LedgerChange
<1>12. Blank(t)
  BY <1>1, <1>3 DEF Blank, SameSpace
<1> QED
  BY <1>1, <1>3, <1>4, <1>7, <1>8, <1>9, <1>11, <1>12 DEF Base, SameTop

LEMMA EnterTwice ==
    ASSUME NEW w \in Memo, NEW j \in Ids, NEW k, NEW n, NEW a, NEW h, NEW o, NEW c,
           NEW u, u = Entered(w, j, k, n, a), NEW t, t = Entered(u, j, h, o, c)
    PROVE  t = Entered(w, j, h, o, c)
BY DEF Entered, Memo

\* A job with another state and time.
Told(k, s, a) == [k EXCEPT !.state = s, !.at = a]

LEMMA ToldOf ==
    ASSUME NEW k \in JobRec, NEW s \in LiveStates, NEW a \in Nat, NEW h, h = Told(k, s, a)
    PROVE  /\ h \in JobRec /\ h.state = s /\ h.at = a /\ h.file = k.file /\ h.walused = k.walused
           /\ h.size = k.size
BY DEF Told, JobRec

\* A job with another body.
Filled(k, b) == [k EXCEPT !.body = b]

LEMMA FilledOf ==
    ASSUME NEW k \in JobRec, NEW b \in Bodies, NEW h, h = Filled(k, b)
    PROVE  /\ h \in JobRec /\ h.state = k.state /\ h.file = k.file /\ h.walused = k.walused
           /\ h.size = k.size
BY DEF Filled, JobRec

LEMMA EnterFilled ==
    ASSUME NEW w \in Memo, NEW j \in Ids, NEW b
    PROVE  [w EXCEPT !.job[j].body = b] = Entered(w, j, Filled(w.job[j], b), w.next_id, w.alive)
BY DEF Entered, Memo, Filled

LEMMA EnterHeavier ==
    ASSUME NEW w \in Memo, NEW j \in Ids, NEW s
    PROVE  [w EXCEPT !.job[j].walused = @ + s, !.alive = @ + s]
             = Entered(w, j, Heavier(w.job[j], w.job[j].walused + s), w.next_id, w.alive + s)
BY DEF Entered, Memo, Heavier

\* A job of which only the size is known.
Sized(s) == [NoJob EXCEPT !.size = s]

LEMMA SizedOf ==
    ASSUME NEW s \in FullSizes, NEW h, h = Sized(s)
    PROVE  h \in JobRec /\ h.file = Nil /\ h.walused = 0 /\ h.size = s
BY DEF Sized, NoJob, JobRec, Bodies

LEMMA EnterSized ==
    ASSUME NEW w \in Memo, NEW j \in Ids, NEW s, NEW n, n = IF j >= w.next_id THEN j + 1 ELSE w.next_id
    PROVE  make_job_with_id(w, j, s) = Entered(w, j, Sized(s), n, w.alive)
BY DEF Entered, Memo, Sized, make_job_with_id

\* The job as the record has it, before it is moved to the file.
Noted(w, rec) ==
    LET w1 == IF w.job[rec.id].state # "none" THEN w ELSE make_job_with_id(w, rec.id, rec.size)
        w2 == [w1 EXCEPT !.job[rec.id].state = rec.state, !.job[rec.id].at = rec.at]
    IN  IF rec.full THEN [w2 EXCEPT !.job[rec.id].body = rec.body] ELSE w2

LEMMA NotedOf ==
    ASSUME NEW w, NEW rd, Base(w, rd), NEW rec \in Record, rec.full => rec.size \in FullSizes,
           rec.state \in LiveStates, rec.full \/ w.job[rec.id].state # "none",
           NEW j, j = rec.id, NEW t, t = Noted(w, rec)
    PROVE  /\ Base(t, rd) /\ SameChain(w, t) /\ t.job[j].file = w.job[j].file /\ Others(w, t, j)
           /\ t.job[j].state \in LiveStates /\ j \in Ids
<1>1. w \in Memo /\ Ledger(w)
  BY DEF Base
<1>2. j \in Ids /\ rec.at \in Nat /\ rec.body \in Bodies
  BY DEF Record
<1>3. PICK w1 : w1 = IF w.job[j].state # "none" THEN w ELSE make_job_with_id(w, j, rec.size)
  OBVIOUS
<1>4. PICK n : n = IF w.job[j].state # "none" THEN w.next_id
                   ELSE IF j >= w.next_id THEN j + 1 ELSE w.next_id
  OBVIOUS
<1>5. w.next_id \in Nat \ {0} /\ j \in Nat /\ w.alive \in Int
  BY <1>1, <1>2, MemoType DEF Ids
<1>6. JobOk(w, j)
  BY <1>1, <1>2 DEF Ledger
<1>7. n \in Nat \ {0} /\ n >= w.next_id /\ j < n
  <2>1. w.job[j].state # "none" => ~(j >= w.next_id)
    BY <1>6 DEF JobOk
  <2> QED
    BY <1>4, <1>5, <2>1
<1>8. PICK k : k = IF w.job[j].state # "none" THEN w.job[j] ELSE Sized(rec.size)
  OBVIOUS
<1>9. k \in JobRec /\ k.file = w.job[j].file /\ k.walused = w.job[j].walused /\ k.size \in FullSizes
      /\ (k.file = Nil => k.walused = 0)
  <2>1. CASE w.job[j].state # "none"
    <3>1. k = w.job[j] /\ w.job[j] \in JobRec
      BY <1>1, <1>2, <1>8, <2>1, JobType
    <3> QED
      BY <1>6, <2>1, <3>1 DEF JobOk
  <2>2. CASE w.job[j].state = "none"
    <3>1. w.job[j] = NoJob /\ rec.size \in FullSizes /\ k = Sized(rec.size)
      BY <1>6, <1>8, <2>2 DEF JobOk
    <3>2. PICK s \in FullSizes : s = rec.size
      BY <3>1
    <3>3. k = Sized(s)
      BY <3>1, <3>2
    <3>4. k \in JobRec /\ k.file = Nil /\ k.walused = 0 /\ k.size = s
      BY <3>3, SizedOf
    <3> QED
      BY <3>1, <3>2, <3>4, NoJobType
  <2> QED
    BY <2>1, <2>2
<1>10. w1 = Entered(w, j, k, n, w.alive)
  <2>1. CASE w.job[j].state # "none"
    <3>1. w1 = w /\ k = w.job[j] /\ n = w.next_id
      BY <1>3, <1>4, <1>8, <2>1
    <3>2. Entered(w, j, w.job[j], w.next_id, w.alive) = w
      BY <1>1, <1>2 DEF Entered, Memo
    <3> QED
      BY <3>1, <3>2
  <2>2. CASE w.job[j].state = "none"
    <3>1. w1 = make_job_with_id(w, j, rec.size) /\ k = Sized(rec.size)
          /\ n = IF j >= w.next_id THEN j + 1 ELSE w.next_id
      BY <1>3, <1>4, <1>8, <2>2
    <3> QED
      BY <1>1, <1>2, <3>1, EnterSized
  <2> QED
    BY <2>1, <2>2
<1>11. w1 \in Memo /\ w1.next_id = n /\ w1.alive = w.alive /\ w1.job[j] = k
  BY <1>1, <1>2, <1>5, <1>7, <1>9, <1>10, EnteredOf
<1>12. PICK h : h = Told(k, rec.state, rec.at)
  OBVIOUS
<1>13. h \in JobRec /\ h.state = rec.state /\ h.file = k.file /\ h.walused = k.walused
       /\ h.size = k.size
  BY <1>2, <1>9, <1>12, ToldOf
<1>14. PICK w2 : w2 = [w1 EXCEPT !.job[j].state = rec.state, !.job[j].at = rec.at]
  OBVIOUS
<1>15. w2 = Entered(w1, j, h, n, w.alive)
  <2>1. PICK s, a : s = rec.state /\ a = rec.at
    OBVIOUS
  <2>2. w2 = [w1 EXCEPT !.job[j].state = s, !.job[j].at = a] /\ h = Told(k, s, a)
    BY <1>12, <1>14, <2>1
  <2>3. w2 = Entered(w1, j, Told(w1.job[j], s, a), w1.next_id, w1.alive)
    BY <1>2, <1>11, <2>2 DEF Entered, Memo, Told
  <2> QED
    BY <1>11, <2>2, <2>3
<1>16. w2 = Entered(w, j, h, n, w.alive)
  BY <1>1, <1>2, <1>10, <1>15, EnterTwice
<1>17. w2 \in Memo /\ w2.next_id = n /\ w2.alive = w.alive /\ w2.job[j] = h
  BY <1>1, <1>2, <1>5, <1>7, <1>13, <1>16, EnteredOf
<1>18. PICK g : g = IF rec.full THEN Filled(h, rec.body) ELSE h
  OBVIOUS
<1>19. g \in JobRec /\ g.state = h.state /\ g.file = h.file /\ g.walused = h.walused
       /\ g.size = h.size
  BY <1>2, <1>13, <1>18, FilledOf
<1>20. t = Entered(w, j, g, n, w.alive)
  <2>1. CASE rec.full
    <3>1. t = [w2 EXCEPT !.job[j].body = rec.body]
      BY <1>3, <1>14, <2>1 DEF Noted
    <3>2. t = Entered(w2, j, g, n, w.alive)
      BY <1>2, <1>17, <1>18, <2>1, <3>1, EnterFilled, SMTT(40)
    <3> QED
      BY <1>1, <1>2, <1>16, <3>2, EnterTwice, SMTT(40)
  <2>2. CASE ~rec.full
    BY <1>3, <1>14, <1>16, <1>18, <2>2 DEF Noted
  <2> QED
    BY <2>1, <2>2
<1>21. Fine(g, j, n)
  BY <1>7, <1>9, <1>13, <1>19 DEF Fine
<1>22. PICK d \in Int : d = 0
  OBVIOUS
<1>23. PICK a \in Int : a = w.alive
  BY <1>5
<1>24. g.walused = w.job[j].walused + d /\ a = w.alive + d /\ t = Entered(w, j, g, n, a)
       /\ g.file = w.job[j].file
  <2>1. w.job[j].walused \in Nat
    BY <1>1, <1>2, JobType
  <2> QED
    BY <1>5, <1>9, <1>13, <1>19, <1>20, <1>22, <1>23, <2>1
<1>25. Base(t, rd) /\ SameChain(w, t) /\ t.job[j] = g /\ Others(w, t, j)
  BY <1>2, <1>7, <1>19, <1>21, <1>24, BaseEnter
<1> QED
  BY <1>2, <1>13, <1>19, <1>24, <1>25

\* The bytes of the record are counted.
LEMMA CountOf ==
    ASSUME NEW w, NEW rd, Base(w, rd), NEW j \in Ids, w.job[j].file # Nil, NEW s \in Nat,
           NEW t, t = [w EXCEPT !.job[j].walused = @ + s, !.alive = @ + s]
    PROVE  /\ Base(t, rd) /\ SameChain(w, t) /\ t.job[j].file = w.job[j].file /\ Others(w, t, j)
<1>1. w \in Memo /\ Ledger(w)
  BY DEF Base
<1>2. w.next_id \in Nat \ {0} /\ w.alive \in Int /\ w.job[j] \in JobRec /\ w.job[j].walused \in Nat
      /\ j \in Nat
  BY <1>1, MemoType, JobType DEF Ids
<1>3. PICK n \in Nat \ {0} : n = w.next_id
  BY <1>2
<1>4. PICK a : a = w.alive + s
  OBVIOUS
<1>5. PICK x \in Nat : x = w.job[j].walused + s
  BY <1>2
<1>6. PICK k : k = Heavier(w.job[j], x)
  OBVIOUS
<1>7. k \in JobRec /\ k.file = w.job[j].file /\ k.walused = x /\ k.state = w.job[j].state
      /\ k.size = w.job[j].size
  <2>1. PICK h \in JobRec : h = w.job[j]
    BY <1>2
  <2>2. k = Heavier(h, x)
    BY <1>6, <2>1
  <2>3. k \in JobRec /\ k.file = h.file /\ k.walused = x /\ k.state = h.state /\ k.size = h.size
    BY <2>2, HeavierOf
  <2> QED
    BY <2>1, <2>3
<1>8. JobOk(w, j)
  BY <1>1 DEF Ledger
<1>9. w.job[j].state # "none" /\ w.job[j].state \in LiveStates /\ w.job[j].size \in FullSizes
      /\ ~(j >= n)
  BY <1>3, <1>8, NoJobType DEF JobOk
<1>10. Fine(k, j, n)
  BY <1>2, <1>7, <1>9 DEF Fine
<1>11. t = Entered(w, j, k, n, a)
  <2>1. t = Entered(w, j, Heavier(w.job[j], w.job[j].walused + s), w.next_id, w.alive + s)
    BY <1>1, EnterHeavier
  <2> QED
    BY <1>3, <1>4, <1>5, <1>6, <2>1
<1>12. PICK d \in Int : d = s
  OBVIOUS
<1>13. n >= w.next_id /\ k.walused = w.job[j].walused + d /\ a = w.alive + d
  BY <1>2, <1>3, <1>4, <1>5, <1>7, <1>12
<1>14. Base(t, rd) /\ SameChain(w, t) /\ t.job[j] = k /\ Others(w, t, j)
  <2>1. PICK h \in JobRec : h = k
    BY <1>7
  <2>4. PICK v, u : v = w /\ u = t
    OBVIOUS
  <2>2. /\ Base(v, rd) /\ n >= v.next_id /\ h.file = v.job[j].file
        /\ h.walused = v.job[j].walused + d /\ Fine(h, j, n) /\ a = v.alive + d
        /\ u = Entered(v, j, h, n, a)
    BY <1>7, <1>10, <1>11, <1>13, <2>1, <2>4
  <2>3. Base(u, rd) /\ SameChain(v, u) /\ u.job[j] = h /\ Others(v, u, j)
    BY <2>2, BaseEnter
  <2> QED
    BY <2>1, <2>3, <2>4
<1> QED
  BY <1>7, <1>14

\* The list stays, or loses all its files.
SameEnd(w, t) == t.next = w.next /\ (t.tail = w.tail \/ Files(t) = {})

LEMMA ChainEnd ==
    ASSUME NEW w, NEW t, SameChain(w, t)
    PROVE  SameEnd(w, t) /\ Files(t) = Files(w)
BY DEF SameChain, SameEnd, Files

\* A record of a job that is deleted.
LEMMA ReadDeleted ==
    ASSUME NEW w, NEW rd, Loaded(w, rd), NEW j \in Ids, NEW t,
           t = [filermjob(w, j) EXCEPT !.job[j] = NoJob]
    PROVE  Loaded(t, rd) /\ SameEnd(w, t)
<1>1. Base(w, rd) /\ \A i \in Live(w) : w.job[i].file # Nil
  BY DEF Loaded
<1>2. PICK u : u = filermjob(w, j)
  OBVIOUS
<1>3. /\ Base(u, rd) /\ SameEnd(w, u)
      /\ u.job[j].file = Nil /\ u.job[j].walused = 0 /\ Others(w, u, j)
  BY <1>1, <1>2, BaseDrop DEF SameEnd
<1>4. u \in Memo
  BY <1>3 DEF Base
<1>5. PICK n \in Nat \ {0}, a \in Int : n = u.next_id /\ a = u.alive
  BY <1>4, MemoType
<1>6. PICK s : s = t
  OBVIOUS
<1>7. PICK k \in JobRec : k = NoJob
  BY NoJobType
<1>8. s = Entered(u, j, k, n, a)
  BY <1>2, <1>4, <1>5, <1>6, <1>7 DEF Entered, Memo
<1>9. PICK d \in Int : d = 0
  OBVIOUS
<1>10. n >= u.next_id /\ k.file = u.job[j].file /\ k.walused = u.job[j].walused + d
       /\ Fine(k, j, n) /\ a = u.alive + d
  BY <1>3, <1>5, <1>7, <1>9, NoJobType DEF Fine
<1>11. Base(s, rd) /\ SameChain(u, s) /\ s.job[j] = k /\ Others(u, s, j)
  BY <1>3, <1>8, <1>10, BaseEnter
<1>12. SameEnd(w, s)
  <2>1. Files(s) = Files(u) /\ s.next = u.next /\ s.tail = u.tail
    BY <1>11, ChainEnd DEF SameChain
  <2> QED
    BY <1>3, <2>1 DEF SameEnd
<1>13. ASSUME NEW i \in Live(s) PROVE s.job[i].file # Nil
  <2>1. i \in Ids /\ s.job[i].state \in LiveStates
    BY DEF Live
  <2>2. i # j
    BY <1>7, <1>11, <2>1, NoJobType DEF LiveStates
  <2>3. s.job[i] = w.job[i]
    BY <1>3, <1>11, <2>1, <2>2 DEF Others
  <2>4. i \in Live(w)
    BY <2>1, <2>3 DEF Live
  <2> QED
    BY <1>1, <2>3, <2>4
<1>14. Loaded(s, rd)
  BY <1>11, <1>13 DEF Loaded
<1> QED
  BY <1>6, <1>12, <1>14

\* The job is in a file and its bytes are counted.
LEMMA ReadLive ==
    ASSUME NEW w, NEW rd, Loaded(w, rd), NEW u, Base(u, rd), NEW j \in Ids, Others(w, u, j),
           u.job[j].file # Nil, SameEnd(w, u), NEW s \in Nat,
           NEW t, t = [u EXCEPT !.job[j].walused = @ + s, !.alive = @ + s]
    PROVE  Loaded(t, rd) /\ SameEnd(w, t)
<1>1. Base(t, rd) /\ SameChain(u, t) /\ t.job[j].file = u.job[j].file /\ Others(u, t, j)
  BY CountOf, ZenonT(40)
<1>2. SameEnd(w, t)
  <2>1. Files(t) = Files(u) /\ t.next = u.next /\ t.tail = u.tail
    BY <1>1, ChainEnd DEF SameChain
  <2> QED
    BY <2>1 DEF SameEnd
<1>3. ASSUME NEW i \in Live(t) PROVE t.job[i].file # Nil
  <2>1. i \in Ids /\ t.job[i].state \in LiveStates
    BY DEF Live
  <2>2. CASE i = j
    BY <1>1, <2>2
  <2>3. CASE i # j
    <3>1. t.job[i] = w.job[i]
      BY <1>1, <2>1, <2>3 DEF Others
    <3>2. i \in Live(w)
      BY <2>1, <3>1 DEF Live
    <3> QED
      BY <3>1, <3>2 DEF Loaded
  <2> QED
    BY <2>2, <2>3
<1> QED
  BY <1>1, <1>2, <1>3 DEF Loaded

LEMMA ReadrecOf ==
    ASSUME NEW w, NEW f \in Seqs, Loaded(w, f), NEW rec \in Record,
           rec.full => rec.size \in FullSizes, NEW t, t = readrec(w, f, rec)
    PROVE  Loaded(t, f) /\ SameEnd(w, t)
<1>1. Base(w, f) /\ \A i \in Live(w) : w.job[i].file # Nil
  BY DEF Loaded
<1>2. PICK j : j = rec.id
  OBVIOUS
<1>3. j \in Ids /\ rec.size \in Nat /\ rec.full \in BOOLEAN /\ rec.state \in LiveStates \cup {"invalid"}
  BY <1>2, WalConstants DEF Record
<1>4. CASE ~rec.full /\ w.job[j].state = "none"
  <2>1. t = w
    BY <1>2, <1>4 DEF readrec
  <2> QED
    BY <2>1 DEF SameEnd
<1>5. CASE ~(~rec.full /\ w.job[j].state = "none") /\ rec.state = "invalid"
  <2>1. t = [filermjob(w, j) EXCEPT !.job[j] = NoJob]
    BY <1>2, <1>5 DEF readrec
  <2> QED
    BY <1>3, <2>1, ReadDeleted
<1>6. CASE ~(~rec.full /\ w.job[j].state = "none") /\ rec.state # "invalid"
  <2>1. rec.state \in LiveStates /\ (rec.full \/ w.job[rec.id].state # "none")
    BY <1>2, <1>3, <1>6
  <2>2. PICK u : u = Noted(w, rec)
    OBVIOUS
  <2>3. /\ Base(u, f) /\ SameChain(w, u) /\ u.job[j].file = w.job[j].file /\ Others(w, u, j)
        /\ u.job[j].state \in LiveStates
    BY <1>1, <1>2, <2>1, <2>2, NotedOf
  <2>4. PICK s \in Nat : s = rec.size
    BY <1>3
  <2>5. CASE rec.full
    <3>1. PICK v : v = filermjob(u, j)
      OBVIOUS
    <3>2. /\ Base(v, f) /\ SameEnd(u, v) /\ v.job[j].file = Nil /\ Others(u, v, j)
          /\ v.job[j].state = u.job[j].state
      BY <1>3, <2>3, <3>1, BaseDrop DEF SameEnd
    <3>3. PICK x : x = fileaddjob(v, f, j)
      OBVIOUS
    <3>4. /\ Base(x, f) /\ SameChain(v, x) /\ x.job[j].file = f /\ Others(v, x, j)
      BY <1>3, <2>3, <3>2, <3>3, BaseAdd, SMTT(40)
    <3>5. t = [x EXCEPT !.job[j].walused = @ + s, !.alive = @ + s]
      <4>1. u = [[(IF w.job[j].state # "none" THEN w ELSE make_job_with_id(w, j, rec.size))
                    EXCEPT !.job[j].state = rec.state, !.job[j].at = rec.at]
                   EXCEPT !.job[j].body = rec.body]
        BY <1>2, <2>2, <2>5 DEF Noted
      <4> QED
        BY <1>2, <1>6, <2>4, <2>5, <3>1, <3>3, <4>1 DEF readrec
    <3>6. x.job[j].file # Nil /\ Others(w, x, j) /\ SameEnd(w, x)
      <4>1. x.job[j].file # Nil
        BY <3>4 DEF Seqs, Nil
      <4>2. Others(w, x, j)
        BY <2>3, <3>2, <3>4 DEF Others
      <4>3. Files(x) = Files(v) /\ x.next = v.next /\ x.tail = v.tail
        BY <3>4, ChainEnd DEF SameChain
      <4>4. u.next = w.next /\ u.tail = w.tail
        BY <2>3 DEF SameChain
      <4> QED
        BY <3>2, <4>1, <4>2, <4>3, <4>4 DEF SameEnd
    <3> QED
      <4>1. PICK rd : rd = f
        OBVIOUS
      <4>2. /\ Loaded(w, rd) /\ Base(x, rd) /\ j \in Ids /\ Others(w, x, j) /\ x.job[j].file # Nil
            /\ SameEnd(w, x) /\ t = [x EXCEPT !.job[j].walused = @ + s, !.alive = @ + s]
        BY <1>3, <3>4, <3>5, <3>6, <4>1
      <4>3. Loaded(t, rd) /\ SameEnd(w, t)
        BY <4>2, ReadLive
      <4> QED
        BY <4>1, <4>3
  <2>6. CASE ~rec.full
    <3>1. t = [u EXCEPT !.job[j].walused = @ + s, !.alive = @ + s]
      <4>1. u = [(IF w.job[j].state # "none" THEN w ELSE make_job_with_id(w, j, rec.size))
                    EXCEPT !.job[j].state = rec.state, !.job[j].at = rec.at]
        BY <1>2, <2>2, <2>6 DEF Noted
      <4> QED
        BY <1>2, <1>6, <2>4, <2>6, <4>1 DEF readrec
    <3>2. SameEnd(w, u)
      BY <2>3, ChainEnd
    <3>3. w.job[j].file # Nil
      <4>1. JobOk(w, j)
        BY <1>1, <1>3 DEF Base, Ledger
      <4>2. j \in Live(w)
        BY <1>2, <1>3, <2>1, <2>6, <4>1 DEF JobOk, Live
      <4> QED
        BY <1>1, <4>2
    <3> QED
      BY <1>3, <2>3, <3>1, <3>2, <3>3, ReadLive, ZenonT(40)
  <2> QED
    BY <1>3, <2>5, <2>6
<1> QED
  BY <1>3, <1>4, <1>5, <1>6

\* A file that is read stays in the list.
LEMMA ReadListed ==
    ASSUME NEW w, NEW t, NEW b \in Seqs, Loaded(t, b), SameEnd(w, t), w.tail = b
    PROVE  t.head # Nil /\ t.tail = b /\ t.next = w.next
<1>1. Book(t, b)
  BY DEF Loaded, Base
<1>2. b \in Files(t)
  BY <1>1 DEF Book, Gone
<1> QED
  BY <1>2 DEF SameEnd, Files

\* fileread lets the file go.
LEMMA ReadOver ==
    ASSUME NEW w, NEW b \in Seqs, Loaded(w, b), w.tail = b, NEW t, t = filedecref(w, b)
    PROVE  /\ Loaded(t, Nil) /\ t.next = w.next
           /\ t.head = Nil \/ t.tail = b
<1>1. /\ w \in Memo /\ Book(w, b) /\ Ledger(w) /\ Blank(w) /\ w.use /\ w.cur = Nil /\ w.resv = 0
      /\ Chain(w)
  BY DEF Loaded, Base, Book
<1>2. b # Nil /\ b \in Files(w)
  BY <1>1 DEF Book, Gone, Seqs, Nil
<1>3. Over(w, b, Nil)
  <2>1. Counted(w, b, b)
    BY <1>1 DEF Book
  <2>2. w.file[b].refs = Len(w.file[b].jlist) + (IF w.file[b].iswopen THEN 1 ELSE 0) + 1
    BY <2>1 DEF Counted
  <2>3. Len(w.file[b].jlist) \in Nat /\ ~w.file[b].iswopen
    BY <1>1, FileType, ListLen DEF Blank
  <2>4. w.file[b].refs = Len(w.file[b].jlist) + (IF w.file[b].iswopen THEN 1 ELSE 0)
                         + (IF b = Nil THEN 1 ELSE 0) + 1
    <3>1. w.file[b].refs = Len(w.file[b].jlist) + 0 + 1
      BY <2>2, <2>3
    <3> QED
      BY <1>2, <2>3, <3>1
  <2>5. ASSUME NEW g \in Seqs
        PROVE  (g # b => Counted(w, g, Nil)) /\ Holds(w, g) /\ Gone(w, g, Nil)
    <3>1. Counted(w, g, b) /\ Holds(w, g) /\ Gone(w, g, b) /\ g # Nil
      BY <1>1 DEF Book, Seqs, Nil
    <3>2. g # b => Counted(w, g, Nil)
      BY <3>1 DEF Counted
    <3> QED
      BY <3>1, <3>2 DEF Gone
  <2> QED
    BY <1>1, <1>2, <2>4, <2>5 DEF Over
<1>4. PICK u : Less(w, u, b) /\ Trimmed(u, t)
  BY <1>1, DecOf
<1>5. u \in Memo /\ Book(u, Nil)
  BY <1>1, <1>3, <1>4, LessBook
<1>6. /\ SameTop(w, u) /\ SameChain(w, u) /\ SameJobs(w, u) /\ u.resv = w.resv
      /\ u.file[b].iswopen = w.file[b].iswopen
      /\ u.file[b].free = w.file[b].free /\ u.file[b].resv = w.file[b].resv
      /\ \A g \in Seqs \ {b} : u.file[g] = w.file[g]
  BY <1>4 DEF Less
<1>7. /\ t \in Memo /\ SameTop(u, t) /\ SameJobs(u, t) /\ t.resv = u.resv /\ t.next = u.next
      /\ Chain(t) /\ (t.tail = u.tail \/ Files(t) = {})
  BY <1>4 DEF Trimmed
<1>8. Book(t, Nil)
  BY <1>4, <1>5, TrimBook
<1>9. Blank(t)
  <2>1. Blank(u)
    BY <1>1, <1>6 DEF Blank
  <2> QED
    BY <1>4, <2>1, NoFileType DEF Trimmed, Blank
<1>10. SameJobs(w, t) /\ t.use = w.use /\ t.cur = w.cur /\ t.resv = w.resv /\ t.next = w.next
  BY <1>6, <1>7 DEF SameJobs, SameTop, SameChain
<1>11. Ledger(t) /\ Live(t) = Live(w)
  BY <1>1, <1>10, LedgerSame, LiveSame DEF SameJobs
<1>12. \A j \in Live(t) : t.job[j].file # Nil
  BY <1>10, <1>11 DEF Loaded, SameJobs
<1>13. t.head = Nil \/ t.tail = b
  <2>1. t.head # Nil => t.head \in Files(t)
    BY <1>7, FilesOf
  <2> QED
    BY <1>6, <1>7, <2>1 DEF SameChain
<1> QED
  BY <1>1, <1>7, <1>8, <1>9, <1>10, <1>11, <1>12, <1>13 DEF Loaded, Base

LEMMA RecordTime ==
    ASSUME NEW rec \in Record, NEW h, h = [rec EXCEPT !.at = 1000 * @]
    PROVE  h \in Record /\ h.full = rec.full /\ h.size = rec.size
<1>1. PICK a \in Nat : a = 1000 * rec.at
  BY DEF Record
<1>2. h = [rec EXCEPT !.at = a]
  BY <1>1 DEF Record
<1> QED
  BY <1>2 DEF Record

LEMMA ReadRecordStep ==
    ASSUME WInv, ReadRecord
    PROVE  WInv'
<1>1. Process(m, pc) /\ Stable /\ disk \in Images /\ pc.at = "read" /\ pc.r > 0
  BY DEF WInv, Stable, ReadRecord
<1>2. pc \in PCs /\ pc.r \in Nat /\ pc.r # 0
  <2>1. pc \in PCs
    BY <1>1 DEF Process
  <2> QED
    BY <1>1, <2>1, PCType
<1>3. Reading(pc) = pc.b
  BY <1>1 DEF Reading
<1>4. /\ Loaded(m, pc.b) /\ pc.op = "none" /\ pc.b \in Seqs /\ pc.b < m.next
      /\ m.head # Nil /\ m.tail = pc.b
  BY <1>1, <1>2, <1>3, LoadedOf
<1>5. PICK b \in Seqs : b = pc.b
  BY <1>4
<1>6. Process(m', pc')
  <2>1. CASE pc.r <= Len(disk[pc.b].recs) /\ ~TooBig(disk[pc.b].recs[pc.r])
    <3>1. PICK rec : rec = disk[b].recs[pc.r]
      OBVIOUS
    <3>2. rec \in Record /\ (rec.full => rec.size \in FullSizes)
      <4>1. Kept(disk[b])
        BY <1>1, ImagesOf
      <4>2. disk[b].recs \in Seq(Record) /\ pc.r \in 1..Len(disk[b].recs)
        BY <1>2, <1>5, <2>1, <4>1 DEF Kept, Image
      <4> QED
        BY <3>1, <4>1, <4>2 DEF Kept
    <3>3. PICK t : t = m'
      OBVIOUS
    <3>4. Loaded(t, b) /\ SameEnd(m, t)
      <4>1. CASE disk[b].version = Walver
        <5>1. t = readrec(m, b, rec)
          BY <1>5, <2>1, <3>1, <3>3, <4>1 DEF ReadRecord
        <5> QED
          BY <1>4, <1>5, <3>2, <5>1, ReadrecOf
      <4>2. CASE disk[b].version # Walver
        <5>1. PICK h : h = [rec EXCEPT !.at = 1000 * @]
          BY ZenonT(40)
        <5>2. t = readrec(m, b, h)
          BY <1>5, <2>1, <3>1, <3>3, <4>2, <5>1 DEF ReadRecord, readrec5
        <5>3. h \in Record /\ (h.full => h.size \in FullSizes)
          BY <3>2, <5>1, RecordTime
        <5> QED
          BY <1>4, <1>5, <5>2, <5>3, ReadrecOf
      <4> QED
        BY <4>1, <4>2
    <3>5. t.head # Nil /\ t.tail = b /\ t.next = m.next
      BY <1>4, <1>5, <3>4, ReadListed
    <3>6. PICK r \in Nat : /\ r = (IF HidesRest(rec) THEN Len(disk[b].recs) + 1 ELSE pc.r + 1)
                           /\ r > 0 /\ r # 0
      <4>1. Len(disk[b].recs) \in Nat
        <5>1. Kept(disk[b])
          BY <1>1, ImagesOf
        <5>2. disk[b].recs \in Seq(Record)
          BY <5>1 DEF Kept, Image
        <5> QED
          BY <5>2
      <4>2. Len(disk[b].recs) + 1 \in Nat \ {0} /\ pc.r + 1 \in Nat \ {0}
        BY <1>2, <4>1
      <4>3. CASE HidesRest(rec)
        BY <4>2, <4>3
      <4>4. CASE ~HidesRest(rec)
        BY <4>2, <4>4
      <4> QED
        BY <4>3, <4>4
    <3>7. PICK p : p = [pc EXCEPT !.r = r]
      OBVIOUS
    <3>8. p \in PCs /\ p.at = "read" /\ p.op = "none" /\ p.b = b /\ p.r = r
      BY <1>1, <1>2, <1>4, <1>5, <3>7 DEF PCs
    <3>9. Reading(p) = b
      BY <3>6, <3>8 DEF Reading
    <3>10. Process(t, p)
      BY <1>4, <1>5, <3>4, <3>5, <3>6, <3>8, <3>9, LoadedWorks
    <3>11. pc' = p
      <4>1. pc' = IF HidesRest(rec) THEN [pc EXCEPT !.r = Len(disk[b].recs) + 1]
                  ELSE [pc EXCEPT !.r = pc.r + 1]
        BY <1>2, <1>5, <2>1, <3>1 DEF ReadRecord, PCs
      <4> QED
        BY <3>6, <3>7, <4>1
    <3> QED
      BY <3>3, <3>10, <3>11
  <2>2. CASE ~(pc.r <= Len(disk[pc.b].recs) /\ ~TooBig(disk[pc.b].recs[pc.r]))
    <3>1. PICK f : f = b + 1
      OBVIOUS
    <3>2. PICK t : t = filedecref(m, b)
      OBVIOUS
    <3>3. m' = t /\ ReadFrom(m, f)
      BY <1>5, <2>2, <3>1, <3>2 DEF ReadRecord
    <3>4. Loaded(t, Nil) /\ t.next = m.next /\ (t.head = Nil \/ t.tail = b)
      BY <1>4, <1>5, <3>2, ReadOver
    <3>5. t.next \in Nat /\ b \in Nat
      BY <3>4, MemoType, SeqsNat DEF Loaded, Base
    <3>6. f \in Nat \ {0} /\ f <= t.next /\ (t.head = Nil \/ t.tail = f - 1)
      BY <1>4, <1>5, <3>1, <3>4, <3>5
    <3> QED
      BY <3>3, <3>4, <3>6, ReadFromOf
  <2> QED
    BY <2>1, <2>2
<1>7. disk' \in Images
  <2>1. disk' = Unlink(disk, m, m')
    BY DEF ReadRecord
  <2> QED
    BY <1>1, <2>1, UnlinkOf
<1>8. logged' = logged /\ rewriting' = rewriting
  BY DEF ReadRecord
<1>9. spent' \in Spents /\ spent'.spare = spent.spare
  <2>1. PICK S : S = {disk[pc.b].recs[i].id : i \in (pc.r + 1)..Len(disk[pc.b].recs)}
    OBVIOUS
  <2>2. S \subseteq Ids
    <3>1. Kept(disk[b])
      BY <1>1, ImagesOf
    <3>2. PICK l : l = disk[b].recs
      OBVIOUS
    <3>3. l \in Seq(Record) /\ pc.r \in Nat /\ Len(l) \in Nat
      BY <1>2, <3>1, <3>2 DEF Kept, Image
    <3>4. ASSUME NEW i \in (pc.r + 1)..Len(l) PROVE l[i].id \in Ids
      <4>1. i \in 1..Len(l)
        BY <3>3
      <4>2. l[i] \in Record
        BY <3>3, <4>1
      <4> QED
        BY <4>2 DEF Record
    <3> QED
      BY <1>5, <2>1, <3>2, <3>4
  <2>3. spent' = spent \/ spent' = [spent EXCEPT !.unread = @ \cup S]
    BY <2>1 DEF ReadRecord
  <2>4. spent \in Spents
    BY <1>1 DEF Stable
  <2>5. CASE spent' = [spent EXCEPT !.unread = @ \cup S]
    BY <2>2, <2>4, <2>5 DEF Spents
  <2> QED
    BY <2>3, <2>4, <2>5
<1> QED
  BY <1>1, <1>6, <1>7, <1>8, <1>9, HoldingInv DEF Stable, Holding

LEMMA CapPos == Cap \in Nat
<1>1. PICK n \in FullSizes : TRUE
  BY WalConstants
<1> QED
  BY <1>1, WalConstants DEF Cap

\* The first file that can be written to.
LEMMA FirstOf ==
    ASSUME NEW w, Loaded(w, Nil), w.head = Nil \/ w.tail = w.next - 1, w.next \in Seqs,
           NEW g, g = Grown(w), NEW t, t = SetCur(g, g.tail),
           NEW x, x = -Z * Cardinality(Live(w)), NEW mv, mv = {}, spent.spare = 0
    PROVE  Yard(t, x, mv) /\ Even(t.cur, Rs(t), 0) /\ Rs(t)[t.cur] >= 0 /\ Live(t) = Live(w)
<1>1. /\ w \in Memo /\ Book(w, Nil) /\ Ledger(w) /\ Blank(w) /\ w.use /\ w.cur = Nil /\ w.resv = 0
  BY DEF Loaded, Base
<1>2. /\ g \in Memo /\ SameTop(w, g) /\ SameJobs(w, g) /\ g.resv = w.resv
      /\ g.next = w.next + 1 /\ g.tail = w.next
      /\ g.file[w.next] = NewFile /\ \A f \in Seqs \ {w.next} : g.file[f] = w.file[f]
  BY <1>1, GrownOf
<1>3. Book(g, Nil)
  BY <1>1, GrownBook
<1>4. PICK c \in Seqs : c = w.next
  OBVIOUS
<1>5. /\ t \in Memo /\ t.use = g.use /\ t.cur = c /\ SameChain(g, t) /\ SameJobs(g, t)
      /\ t.resv = g.resv /\ t.file = g.file
  BY <1>2, <1>4, SetCurOf
<1>6. Book(t, Nil)
  BY <1>3, <1>5, CurBook DEF SameJobs
<1>7. SameJobs(w, t) /\ t.use /\ t.resv = 0 /\ t.tail = c /\ t.next = c + 1 /\ c \in Nat
  BY <1>1, <1>2, <1>4, <1>5, SeqsNat DEF SameJobs, SameChain, SameTop
<1>8. Ledger(t) /\ Live(t) = Live(w) /\ t.job = w.job
  BY <1>1, <1>7, LedgerSame, LiveSame DEF SameJobs
<1>9. /\ t.file[c].iswopen /\ t.file[c].free = Cap /\ t.file[c].resv = 0
      /\ \A f \in Seqs \ {c} : ~t.file[f].iswopen /\ t.file[f].free = 0 /\ t.file[f].resv = 0
  BY <1>1, <1>2, <1>4, <1>5 DEF NewFile, Blank, Cap
<1>10. Opened(t)
  <2>1. \A f \in Seqs : f \in Nat
    BY SeqsNat
  <2>2. ASSUME NEW f \in Seqs PROVE t.file[f].iswopen <=> (t.cur <= f /\ f <= t.tail)
    <3>1. (t.cur <= f /\ f <= t.tail) <=> f = c
      BY <1>5, <1>7, <2>1
    <3> QED
      BY <1>9, <3>1
  <2> QED
    BY <2>2 DEF Opened
<1>11. Fr(t) \in [Seqs -> Int] /\ Rs(t) \in [Seqs -> Int]
       /\ \A f \in Seqs : Fr(t)[f] = t.file[f].free /\ Rs(t)[f] = t.file[f].resv
  BY <1>5, SpaceType
<1>12. \A f \in Seqs : Rs(t)[f] = 0
  BY <1>9, <1>11
<1>13. Room(t.cur, t.tail, Fr(t), Rs(t))
  <2>1. \A f \in Seqs : Fr(t)[f] >= 0 /\ Rs(t)[f] >= 0 /\ Fr(t)[f] + Rs(t)[f] <= Cap
    BY <1>9, <1>11, <1>12, CapPos
  <2>2. \A f \in Seqs : ~(c < f /\ f <= c)
    BY <1>7, SeqsNat
  <2>3. \A f \in Seqs : ~(c < f /\ f < c)
    BY <1>7, SeqsNat
  <2> QED
    BY <1>5, <1>7, <1>11, <1>12, <2>1, <2>2, <2>3 DEF Room
<1>14. IsSum(MaxSeq, Rs(t), t.resv)
  <2>1. IsSum(MaxSeq, Rs(t), 0)
    BY <1>12, SumNone, WalConstants DEF Seqs
  <2> QED
    BY <1>7, <2>1
<1>15. t.resv = Claims(t) + x
  <2>1. PICK n \in Nat : n = Cardinality(Live(w))
    BY LiveFinite
  <2>2. Z * n + (-Z * n) = 0 /\ Z * n \in Int
    BY WalConstants
  <2>3. PICK k \in Int : k = Z * n
    BY <2>2
  <2>4. Claims(t) = k
    BY <1>8, <2>1, <2>3 DEF Claims
  <2> QED
    BY <1>7, <2>1, <2>2, <2>3, <2>4
<1>16. \A j \in Live(t) : t.job[j].file = Nil <=> j \in mv
  BY <1>8 DEF Loaded
<1>17. Yard(t, x, mv)
  <2>1. t.tail = t.next - 1
    BY <1>7
  <2> QED
    BY <1>5, <1>6, <1>7, <1>8, <1>10, <1>13, <1>14, <1>15, <1>16, <2>1 DEF Yard
<1>18. Even(t.cur, Rs(t), 0)
  <2>1. Mult(0) /\ 0 - 0 = 0
    BY MultZ
  <2>2. Rs(t)[t.cur] - 0 = 0
    BY <1>5, <1>12
  <2> QED
    BY <1>12, <2>1, <2>2 DEF Even
<1> QED
  BY <1>5, <1>8, <1>12, <1>17, <1>18

LEMMA FirstFileStep ==
    ASSUME WInv, spent.spare = 0, FirstFile
    PROVE  WInv'
<1>1. Process(m, pc) /\ Stable /\ disk \in Images /\ pc.at = "first"
  BY DEF WInv, Stable, FirstFile
<1>2. Reading(pc) = Nil
  BY <1>1 DEF Reading
<1>3. Loaded(m, Nil) /\ (m.head = Nil \/ m.tail = m.next - 1)
  BY <1>1, <1>2, LoadedOf
<1>4. PICK o \in makenextfile(m) :
        IF o.ok
        THEN /\ Become([o.w EXCEPT !.cur = o.w.tail])
             /\ pc' = PC("replay", "replay", Nil, "none", Z, Nil, Cardinality(InLog))
        ELSE m' = FreshMemory /\ pc' = Down /\ UNCHANGED disk
  BY DEF FirstFile
<1>5. Process(m', pc') /\ disk' \in Images
  <2>1. CASE o.ok
    <3>1. m.next \in Seqs /\ o.w = Grown(m)
      <4>1. o # Failed(m)
        BY <2>1 DEF Failed
      <4>2. PICK f \in {m.next} \cap Seqs :
               o = Ok(fileadd([m EXCEPT !.next = @ + 1, !.file[f] = NewFile], f))
        BY <4>1 DEF makenextfile
      <4>3. o = Ok(Grown(m)) /\ m.next \in Seqs
        BY <4>2 DEF Grown
      <4> QED
        BY <4>3 DEF Ok
    <3>2. PICK g : g = Grown(m)
      OBVIOUS
    <3>3. PICK t : t = SetCur(g, g.tail)
      OBVIOUS
    <3>4. Become(t)
      BY <1>4, <2>1, <3>1, <3>2, <3>3 DEF SetCur
    <3>5. PICK x, mv : x = -Z * Cardinality(Live(m)) /\ mv = {}
      OBVIOUS
    <3>6. Yard(t, x, mv) /\ Even(t.cur, Rs(t), 0) /\ Rs(t)[t.cur] >= 0 /\ Live(t) = Live(m)
      BY <1>3, <3>1, <3>2, <3>3, <3>5, FirstOf
    <3>7. PICK r \in Nat : r = Cardinality(Live(m))
      BY LiveFinite
    <3>8. PICK p : p = PC("replay", "replay", Nil, "none", Z, Nil, r)
      OBVIOUS
    <3>9. pc' = p
      <4>1. InLog = Live(m)
        BY DEF InLog, Live
      <4> QED
        BY <1>4, <2>1, <3>7, <3>8, <4>1
    <3>10. p \in PCs /\ p.at = "replay" /\ p.op = "replay" /\ p.n = Z /\ p.r = r
      BY <3>8, WalConstants DEF PC, PCs
    <3>11. Upright(p) /\ Extra(p, t) = x /\ Moving(p) = mv /\ Due(p, t) = 0
      BY <3>5, <3>7, <3>10 DEF Upright, Extra, Moving, Due
    <3>12. Command(p, t)
      BY <3>10 DEF Command
    <3>13. Arranged(p, t)
      BY <3>6, <3>10, <3>11 DEF Arranged
    <3>14. Process(t, p)
      BY <3>6, <3>10, <3>11, <3>12, <3>13, ProcessWorks
    <3>15. m' = t /\ disk' = DiskFor(t)
      BY <3>4 DEF Become
    <3>16. disk' \in Images
      BY <1>1, <3>15, DiskOf
    <3> QED
      BY <3>9, <3>14, <3>15, <3>16
  <2>2. CASE ~o.ok
    <3>1. m' = FreshMemory /\ pc' = Down /\ disk' = disk
      BY <1>4, <2>2
    <3> QED
      BY <1>1, <3>1, FreshOf
  <2> QED
    BY <2>1, <2>2
<1>6. logged' = logged /\ rewriting' = rewriting /\ spent' = spent
  BY DEF FirstFile, History
<1> QED
  BY <1>1, <1>5, <1>6, HoldingInv DEF Stable, Holding

-----------------------------------------------------------------------------
(* The theorems                                                            *)

LEMMA OldKept == Kept(OldImage)
<1>1. FullSizes \subseteq Nat /\ FullSizes # {}
  BY WalConstants
<1>2. PICK n \in FullSizes : n = Min(FullSizes)
  BY <1>1, MinOf
<1>3. PICK rec : rec = OldRecord
  OBVIOUS
<1>4. rec \in Record /\ rec.size \in FullSizes
  <2>1. PICK j \in Ids : j = 1
    BY WalConstants DEF Ids
  <2>2. rec = [id |-> j, full |-> TRUE, state |-> "ready", body |-> "whole", at |-> 1, size |-> n]
    BY <1>2, <1>3, <2>1 DEF OldRecord
  <2> QED
    BY <2>2 DEF Record, LiveStates, Bodies
<1>5. PICK l : l = <<rec>>
  OBVIOUS
<1>6. l \in Seq(Record) /\ Len(l) = 1 /\ l[1] = rec
  BY <1>4, <1>5
<1>7. OldImage = [there |-> TRUE, version |-> Walver5, recs |-> l]
  BY <1>3, <1>5 DEF OldImage
<1>8. OldImage \in Image /\ OldImage.recs = l
  BY <1>6, <1>7 DEF Image
<1>9. \A i \in 1..Len(l) : i = 1
  BY <1>6
<1> QED
  BY <1>4, <1>6, <1>8, <1>9 DEF Kept

LEMMA InitInv ==
    ASSUME Init
    PROVE  WInv
<1>1. Process(m, pc)
  BY FreshOf DEF Init
<1>2. disk \in Images
  <2>1. PICK k : k = disk[1] /\ (disk = [f \in Seqs |-> NoImage]
                                 \/ disk = [f \in Seqs |-> IF f = 1 THEN OldImage ELSE NoImage])
    BY DEF Init
  <2>2. disk = [f \in Seqs |-> disk[f]] /\ \A f \in Seqs : Kept(disk[f])
    BY <2>1, OldKept, EmptyImages
  <2> QED
    BY <2>2, ImagesOf
<1>3. logged \in [Ids -> Views]
  <2>1. Absent \in Views
    BY DEF Views
  <2>2. PICK v : v = [state |-> "ready", body |-> "whole", at |-> 1000]
    BY ZenonT(40)
  <2>3. v \in Views
    BY <2>2 DEF Views, LiveStates, Bodies
  <2>4. logged = [j \in Ids |-> Absent] \/ logged = [j \in Ids |-> IF j = 1 THEN v ELSE Absent]
    BY <2>2 DEF Init
  <2> QED
    BY <2>1, <2>3, <2>4
<1>4. rewriting \subseteq Ids
  BY DEF Init
<1>5. spent \in Spents
  BY WalConstants DEF Init, Spents
<1> QED
  BY <1>1, <1>2, <1>3, <1>4, <1>5 DEF WInv, Stable

\* Every put has found memory, or its job is in the log of an earlier process.
Recorded == spent.unlogged = {}

\* A kick or a release without memory keeps what it reserved.
LEMMA NoMemoryStep ==
    ASSUME WInv, Recorded', NoMemory
    PROVE  WInv'
<1>1. Process(m, pc) /\ Stable /\ pc.at = "write" /\ m.use /\ Faulty /\ spent \in Spents
  BY DEF WInv, Stable, NoMemory
<1>2. /\ pc \in PCs /\ Yard(m, pc.n, Moving(pc)) /\ Even(m.cur, Rs(m), pc.n)
      /\ Rs(m)[m.cur] >= pc.n
      /\ pc.op = "update" => /\ pc.j \in Live(m) /\ pc.n = Z /\ Moving(pc) = {}
  BY <1>1, WritingOf
<1>3. pc.op = "update"
      /\ (\E s \in {"buried", m.job[pc.j].state} : m' = [m EXCEPT !.job[pc.j].state = s])
      /\ spent' = [spent EXCEPT !.ooms = @ + 1, !.spare = @ + Z]
  <2>1. CASE spent' = [spent EXCEPT !.ooms = @ + 1, !.spare = @ + pc.n - Z,
                                    !.unlogged = @ \cup {pc.j}]
    <3>1. pc.j \in spent'.unlogged
      BY <1>1, <2>1 DEF Spents
    <3> QED
      BY <3>1 DEF Recorded
  <2> QED
    BY <2>1 DEF NoMemory
<1>4. PICK j \in Live(m) : j = pc.j
  BY <1>2, <1>3
<1>5. PICK s : s \in {"buried", m.job[j].state} /\ m' = [m EXCEPT !.job[j].state = s]
  BY <1>3, <1>4
<1>6. s \in LiveStates /\ j \in Ids
  BY <1>4, <1>5 DEF Live, LiveStates
<1>7. PICK k : k = [m.job[j] EXCEPT !.state = s]
  OBVIOUS
<1>8. m \in Memo /\ m.job[j] \in JobRec /\ m.job \in [Ids -> JobRec]
  BY <1>2, <1>6, JobType, MemoType DEF Yard
<1>9. k \in JobRec /\ k.state = s /\ k.file = m.job[j].file /\ k.walused = m.job[j].walused
      /\ k.size = m.job[j].size
  BY <1>6, <1>7, <1>8 DEF JobRec
<1>10. PICK t : t = SetJob(m, j, k)
  OBVIOUS
<1>11. m' = t
  BY <1>5, <1>7, <1>10 DEF SetJob
<1>12. PICK x \in Nat, mv \in SUBSET Ids : x = Z /\ mv = {} /\ Yard(m, x, mv)
  BY <1>2, <1>3, WalConstants
<1>13. Yard(t, x, mv) /\ SameFrame(m, t) /\ Rs(t) = Rs(m)
  BY <1>4, <1>6, <1>9, <1>10, <1>12, YardState
<1>14. PICK p : p = Idle
  OBVIOUS
<1>15. /\ p \in PCs /\ p.at = "idle" /\ p.op = "none"
       /\ Due(p, t) = 0 /\ Extra(p, t) = 0 /\ Moving(p) = {} /\ Reading(p) = Nil
       /\ Command(p, t)
  BY <1>14, IdleType DEF Due, Extra, Moving, Reading, Command
<1>16. /\ t \in Memo /\ t.cur \in Seqs /\ NonNeg(t) /\ Rs(t) \in [Seqs -> Int]
       /\ Rs(t)[t.cur] >= 0
  <2>1. t \in Memo /\ t.cur \in Seqs /\ NonNeg(t)
    BY <1>13, YardNonNeg
  <2>2. Rs(t) \in [Seqs -> Int] /\ Rs(t)[t.cur] = t.file[t.cur].resv
    BY <2>1, SpaceType
  <2> QED
    BY <2>1, <2>2 DEF NonNeg
<1>17. Even(t.cur, Rs(t), 0)
  <2>1. PICK a \in Int : a = Rs(t)[t.cur]
    BY <1>16
  <2>2. Mult(a - Z)
    BY <1>2, <1>3, <1>13, <2>1 DEF Even, SameFrame
  <2>3. PICK q \in Int : a - Z = Z * q
    BY <2>2 DEF Mult
  <2>4. Z * (q + 1) = Z * q + Z /\ Z * q \in Int /\ Z \in Int
    BY WalConstants
  <2>5. a - 0 = Z * (q + 1)
    BY <2>3, <2>4
  <2>6. Mult(Rs(t)[t.cur] - 0)
    BY <2>1, <2>5 DEF Mult
  <2> QED
    BY <1>2, <1>13, <2>6 DEF Even, SameFrame
<1>18. Arranged(p, t)
  BY <1>15, <1>16, <1>17 DEF Arranged
<1>19. spent' \in Spents /\ spent'.spare = spent.spare + Z /\ spent.spare \in Nat /\ Z \in Nat
  <2>1. spent.ooms + 1 \in 0..MaxFaults /\ spent.spare + Z \in Nat
    BY <1>1, WalConstants DEF Faulty, Spents
  <2> QED
    BY <1>1, <1>3, <2>1, WalConstants DEF Spents
<1>20. pc' = p /\ disk' = disk /\ logged' = logged /\ rewriting' = rewriting
  BY <1>14 DEF NoMemory
<1>21. /\ Book(t, Nil) /\ Ledger(t) /\ t.use /\ t.tail = t.next - 1 /\ Opened(t)
       /\ Room(t.cur, t.tail, Fr(t), Rs(t)) /\ IsSum(MaxSeq, Rs(t), t.resv)
       /\ t.resv = Claims(t) + x
       /\ \A i \in Live(t) : t.job[i].file = Nil <=> i \in mv
  BY <1>13 DEF Yard
<1>22. t.resv = Z * Cardinality(Live(t)) + spent'.spare + 0
  <2>1. PICK c \in Nat : c = Z * Cardinality(Live(t))
    BY LiveFinite
  <2> QED
    BY <1>12, <1>19, <1>21, <2>1 DEF Claims
<1>23. Working(pc, m)'
  <2>1. \A i \in Live(t) : t.job[i].file = Nil <=> i \in Moving(p)
    BY <1>12, <1>15, <1>21
  <2>2. \A i \in Seqs : t.file[i].iswopen <=> t.cur <= i /\ i <= t.tail
    BY <1>21 DEF Opened
  <2>3. spent'.spare \in Nat /\ t.resv = Z * Cardinality(Live(t)) + spent'.spare + Extra(p, t)
    BY <1>15, <1>19, <1>22
  <2> QED
    BY <1>11, <1>18, <1>20, <1>21, <2>1, <2>2, <2>3 DEF Working, Claims
<1>24. Process(m, pc)'
  BY <1>11, <1>15, <1>16, <1>20, <1>21, <1>23 DEF Process
<1> QED
  BY <1>1, <1>19, <1>20, <1>24 DEF WInv, Stable

\* Nothing is left reserved without need when the server starts.
Starting(p) == p.at \in {"down", "read", "first"} \/ p.op = "replay"

Bare == Starting(pc) => spent.spare = 0

LEMMA WalmaintStart ==
    ASSUME NEW r, NEW p, p = walmaint(r) \/ p = Idle
    PROVE  ~Starting(p)
BY DEF walmaint, Idle, PC, Starting

LEMMA ReserveStart ==
    ASSUME NEW p \in PCs, p.op # "replay",
           \/ reserve(p)
           \/ \E w : Reserved(w, p)
           \/ \E w : NotReserved(w, p)
    PROVE  ~Starting(pc')
<1>1. ASSUME NEW a \in {"write", "balance"}, pc' = [p EXCEPT !.at = a]
      PROVE  ~Starting(pc')
  BY <1>1 DEF Starting, PCs
<1>2. ASSUME NEW w, Reserved(w, p)
      PROVE  ~Starting(pc')
  <2>1. pc' = [p EXCEPT !.at = "write"]
    BY <1>2 DEF Reserved
  <2> QED
    BY <1>1, <2>1
<1>3. ASSUME NEW w, NotReserved(w, p)
      PROVE  ~Starting(pc')
  <2>1. pc' = walmaint(p.r - 1) \/ pc' = Idle
    BY <1>3 DEF NotReserved
  <2> QED
    BY <2>1, WalmaintStart
<1>4. CASE reserve(p)
  <2>1. CASE \E w : Reserved(w, p)
    BY <1>2, <2>1
  <2>2. CASE \E w : NotReserved(w, p)
    BY <1>3, <2>2
  <2>3. CASE pc' = [p EXCEPT !.at = "balance"]
    BY <1>1, <2>3
  <2> QED
    BY <1>4, <2>1, <2>2, <2>3 DEF reserve
<1> QED
  BY <1>2, <1>3, <1>4

LEMMA BareNext ==
    ASSUME WInv, Bare, [Next]_vars
    PROVE  Bare'
<1>1. pc \in PCs /\ Process(m, pc) /\ spent \in Spents
  BY DEF WInv, Process, Stable
<1>2. CASE Starting(pc) /\ spent'.spare = spent.spare
  BY <1>2 DEF Bare
<1>3. CASE ~Starting(pc')
  BY <1>3 DEF Bare
<1>4. CASE UNCHANGED vars
  BY <1>4 DEF vars, Bare, Starting
<1>5. ASSUME NEW p \in PCs, p.op # "replay", reserve(p)
      PROVE  Bare'
  BY <1>3, <1>5, ReserveStart
<1>6. CASE \E size \in FullSizes : put(size)
  <2>1. PICK size \in FullSizes : put(size)
    BY <1>6
  <2>2. PICK p : p = PC("write", "put", m.next_id, "ready", size + Z, Nil, 0)
    OBVIOUS
  <2>3. m.next_id \in Ids /\ size + Z \in Nat /\ pc = Idle
    <3>1. m.next_id \in Nat \ {0} /\ m.next_id <= MaxId
      BY <1>1, <2>1, MemoType DEF Process, put
    <3> QED
      BY <2>1, <3>1, WalConstants DEF Ids, put, Serving
  <2>4. p \in PCs /\ p.op # "replay"
    BY <2>2, <2>3 DEF PC, PCs, LiveStates
  <2>5. reserve(p)
    BY <2>1, <2>2 DEF put
  <2> QED
    BY <1>5, <2>4, <2>5
<1>7. CASE \E j \in Ids, s \in LiveStates : update(j, s)
  <2>1. PICK j \in Ids, s \in LiveStates : update(j, s)
    BY <1>7
  <2>2. PICK p : p = PC("write", "update", j, s, Z, Nil, 0)
    OBVIOUS
  <2>3. p \in PCs /\ p.op # "replay"
    BY <2>2, WalConstants DEF PC, PCs, LiveStates
  <2>4. reserve(p)
    BY <2>1, <2>2 DEF update
  <2> QED
    BY <1>5, <2>3, <2>4
<1>8. CASE \E j \in Ids : delete(j)
  <2>1. PICK j \in Ids : pc' = PC("write", "delete", j, "invalid", 0, Nil, 0)
    BY <1>8 DEF delete
  <2>2. ~Starting(pc')
    BY <2>1 DEF PC, Starting
  <2> QED
    BY <1>3, <2>2
<1>9. CASE Balance
  <2>1. CASE pc.op = "replay"
    BY <1>2, <1>9, <2>1 DEF Balance, Starting
  <2>2. CASE pc.op # "replay"
    <3>1. CASE pc' = pc \/ pc' = [pc EXCEPT !.at = "rest", !.b = m.cur]
      <4>1. ~Starting(pc')
        BY <1>1, <1>9, <2>2, <3>1 DEF Balance, Starting, PCs
      <4> QED
        BY <1>3, <4>1
    <3>2. CASE \E w : NotReserved(w, pc)
      BY <1>1, <1>3, <2>2, <3>2, ReserveStart
    <3> QED
      BY <1>9, <3>1, <3>2 DEF Balance
  <2> QED
    BY <2>1, <2>2
<1>10. CASE BalanceRest
  <2>1. CASE pc.op = "replay"
    BY <1>2, <1>10, <2>1 DEF BalanceRest, Starting
  <2>2. CASE pc.op # "replay"
    <3>1. PICK p : p = [pc EXCEPT !.b = Nil]
      OBVIOUS
    <3>2. p \in PCs /\ p.op # "replay"
      BY <1>1, <2>2, <3>1 DEF PCs
    <3>3. CASE pc' = [pc EXCEPT !.b = @ + 1]
      <4>1. ~Starting(pc')
        BY <1>1, <1>10, <2>2, <3>3 DEF BalanceRest, Starting, PCs
      <4> QED
        BY <1>3, <4>1
    <3>4. CASE (\E w : NotReserved(w, p)) \/ (\E w : Reserved(w, p))
      BY <1>3, <3>2, <3>4, ReserveStart
    <3> QED
      BY <1>10, <3>1, <3>3, <3>4 DEF BalanceRest
  <2> QED
    BY <2>1, <2>2
<1>11. CASE moveone
  <2>1. CASE pc.op = "replay"
    BY <1>2, <1>11, <2>1 DEF moveone, Starting
  <2>2. CASE pc.op # "replay"
    <3>1. PICK j : j = Head(m.file[m.head].jlist)
      OBVIOUS
    <3>2. reserve(PC("write", "migrate", j, m.job[j].state, m.job[j].size, Nil, pc.r))
      BY <1>11, <3>1 DEF moveone
    <3>3. PICK p : p = PC("write", "migrate", j, m.job[j].state, m.job[j].size, Nil, pc.r)
      OBVIOUS
    <3>4. p.op = "migrate" /\ \A a : [p EXCEPT !.at = a] = PC(a, "migrate", p.j, p.to, p.n, p.b, p.r)
      BY <3>3 DEF PC
    <3>5. \/ pc' = PC("write", "migrate", p.j, p.to, p.n, p.b, p.r)
          \/ pc' = PC("balance", "migrate", p.j, p.to, p.n, p.b, p.r)
          \/ pc' = walmaint(p.r - 1)
      <4>1. CASE \E w : Reserved(w, p)
        BY <3>4, <4>1 DEF Reserved
      <4>2. CASE \E w : NotReserved(w, p)
        BY <3>4, <4>2 DEF NotReserved
      <4>3. CASE pc' = [p EXCEPT !.at = "balance"]
        BY <3>4, <4>3
      <4> QED
        BY <3>2, <3>3, <4>1, <4>2, <4>3 DEF reserve
    <3>6. ~Starting(pc')
      BY <3>5, WalmaintStart DEF PC, Starting
    <3> QED
      BY <1>3, <3>6
  <2> QED
    BY <2>1, <2>2
<1>12. CASE NoMemory \/ WriteShort \/ WriteBody \/ WriteFails \/ WriteNothing \/ walcompact_end
            \/ replay_end
  <2>1. (\E r : pc' = walmaint(r)) \/ pc' = Idle
    BY <1>12 DEF NoMemory, WriteShort, WriteBody, WriteFails, WriteNothing, walcompact_end,
       replay_end, AfterWrite
  <2> QED
    BY <1>3, <2>1, WalmaintStart
<1>13. CASE WriteFull
  <2>1. pc.at = "write" /\ m.use /\ pc' = [pc EXCEPT !.at = "body"]
    BY <1>13 DEF WriteFull
  <2>2. pc.op \in {"put", "update", "delete", "migrate"}
    BY <1>1, <2>1, WritingOf
  <2>3. ~Starting(pc')
    BY <1>1, <2>1, <2>2 DEF Starting, PCs
  <2> QED
    BY <1>3, <2>3
<1>14. CASE Crash
  <2>1. spent'.spare = 0
    BY <1>1, <1>14 DEF Crash, Spents
  <2> QED
    BY <2>1 DEF Bare
<1>15. CASE walscandir \/ fileread \/ FirstFile
  BY <1>2, <1>15 DEF walscandir, fileread, FirstFile, History, Down, PC, Starting
<1>16. CASE ReadRecord
  <2>1. Starting(pc)
    BY <1>16 DEF ReadRecord, Starting
  <2>2. PICK S : spent' = spent \/ spent' = [spent EXCEPT !.unread = @ \cup S]
    BY <1>16 DEF ReadRecord
  <2>3. spent'.spare = spent.spare
    BY <1>1, <2>2 DEF Spents
  <2> QED
    BY <1>2, <2>1, <2>3
<1>17. CASE prot_replay
  <2>1. CASE Starting(pc)
    BY <1>2, <1>17, <2>1 DEF prot_replay
  <2>2. CASE ~Starting(pc)
    <3>1. Command(pc, m)
      BY <1>1, <1>17, <2>2 DEF Process, prot_replay
    <3> QED
      BY <1>17, <2>2, <3>1 DEF Command, Starting, prot_replay
  <2> QED
    BY <2>1, <2>2
<1>18. CASE \E j \in Ids : job_free(j)
  <2>1. pc' = Idle
    BY <1>18 DEF job_free
  <2> QED
    BY <1>3, <2>1, WalmaintStart
<1> QED
  BY <1>4, <1>6, <1>7, <1>8, <1>9, <1>10, <1>11, <1>12, <1>13, <1>14, <1>15, <1>16, <1>17, <1>18
     DEF Next

LEMMA NextInv ==
    ASSUME RoomyFiles, WInv, Bare, Recorded', [Next]_vars
    PROVE  WInv'
<1>1. CASE UNCHANGED vars
  <2>1. m' = m /\ disk' = disk /\ pc' = pc /\ logged' = logged /\ rewriting' = rewriting
        /\ spent' = spent
    BY <1>1 DEF vars
  <2>2. Process(m, pc)'
    BY <2>1, ProcessNext DEF WInv
  <2> QED
    BY <2>1, <2>2 DEF WInv, Stable
<1>2. CASE \E size \in FullSizes : put(size)
  BY <1>2, PutStep
<1>3. CASE \E j \in Ids, s \in LiveStates : update(j, s)
  BY <1>3, UpdateStep
<1>4. CASE \E j \in Ids : delete(j)
  BY <1>4, DeleteStep
<1>5. CASE Balance
  <2>1. Stable /\ Holding /\ logged' = logged /\ spent' = spent
    BY <1>5, BalanceStep DEF WInv, Balance
  <2> QED
    BY <2>1, HoldingInv DEF Stable
<1>6. CASE BalanceRest
  <2>1. Stable /\ Holding /\ logged' = logged /\ spent' = spent
    BY <1>6, BalanceRestStep DEF WInv, BalanceRest
  <2> QED
    BY <2>1, HoldingInv DEF Stable
<1>7. CASE WriteShort
  BY <1>7, WriteShortStep
<1>8. CASE WriteFull
  BY <1>8, WriteFullStep
<1>9. CASE WriteBody
  BY <1>9, WriteBodyStep
<1>10. CASE WriteFails
  BY <1>10, WriteFailsStep
<1>11. CASE WriteNothing
  BY <1>11, WriteNothingStep
<1>12. CASE moveone
  BY <1>12, MoveoneStep
<1>13. CASE walcompact_end
  BY <1>13, CompactEndStep
<1>14. CASE Crash
  BY <1>14, CrashStep
<1>15. CASE walscandir
  BY <1>15, ScandirStep
<1>16. CASE fileread
  BY <1>16, FilereadStep
<1>17. CASE ReadRecord
  BY <1>17, ReadRecordStep
<1>18. CASE FirstFile
  <2>1. spent.spare = 0
    BY <1>18 DEF FirstFile, Bare, Starting
  <2> QED
    BY <1>18, <2>1, FirstFileStep
<1>19. CASE prot_replay
  BY <1>19, ReplayStep
<1>20. CASE replay_end
  BY <1>20, ReplayEndStep
<1>21. CASE NoMemory
  BY <1>21, NoMemoryStep
<1>22. CASE \E j \in Ids : job_free(j)
  <2>1. PICK j \in Ids : m.job[j].state = "invalid"
    BY <1>22 DEF job_free
  <2>2. JobOk(m, j)
    BY DEF WInv, Process, Ledger
  <2> QED
    BY <2>1, <2>2 DEF JobOk, LiveStates
<1> QED
  BY <1>21, <1>22, <1>1, <1>2, <1>3, <1>4, <1>5, <1>6, <1>7, <1>8, <1>9, <1>10, <1>11, <1>12, <1>13, <1>14,
     <1>15, <1>16, <1>17, <1>18, <1>19, <1>20 DEF Next

\* The inductive invariant: the list of files, the reference counts, the bytes
\* of every job and the bytes reserved in every file agree with where the
\* server thread is in reserve, balance, walwrite, walcompact or start-up, as
\* long as no put is buried without a record because heapinsert has no memory.
THEOREM Inductive ==
    ASSUME RoomyFiles
    PROVE  Spec /\ []Recorded => []WInv
<1>1. Init => WInv /\ Bare
  <2>1. Init => Bare
    BY DEF Init, Bare
  <2> QED
    BY <2>1, InitInv
<1>2. WInv /\ Bare /\ Recorded' /\ [Next]_vars => WInv' /\ Bare'
  BY NextInv, BareNext
<1> QED
  BY <1>1, <1>2, PTL DEF Spec

LEMMA InvType ==
    ASSUME WInv
    PROVE  TypeOK
<1>1. m \in Memo /\ pc \in PCs /\ Book(m, Reading(pc)) /\ Ledger(m) /\ Stable
  BY DEF WInv, Process
<1>2. ASSUME NEW f \in Seqs PROVE m.file[f] \in FileRec
  <2>1. m.file[f] \in FileI /\ m.file[f].jlist \in Seq(Ids) /\ m.file[f].refs \in Int
    BY <1>1, FileType
  <2>2. Counted(m, f, Reading(pc))
    BY <1>1 DEF Book
  <2>3. Len(m.file[f].jlist) \in Nat
    BY <2>1, ListLen
  <2>4. PICK a \in Nat, b \in Nat : a = (IF m.file[f].iswopen THEN 1 ELSE 0)
                                    /\ b = (IF f = Reading(pc) THEN 1 ELSE 0)
    OBVIOUS
  <2>5. m.file[f].refs = Len(m.file[f].jlist) + a + b
    BY <2>2, <2>4 DEF Counted
  <2>6. m.file[f].refs \in Nat
    <3>1. \A l \in Nat : l + a + b \in Nat
      OBVIOUS
    <3>2. Len(m.file[f].jlist) + a + b \in Nat
      BY <2>3, <3>1, Zenon
    <3> QED
      BY <2>5, <3>2, Zenon
  <2> QED
    BY <2>1, <2>6 DEF FileI, FileRec
<1>3. m.file \in [Seqs -> FileRec]
  <2>1. m.file \in [Seqs -> FileI]
    BY <1>1, MemoType
  <2> QED
    BY <1>2, <2>1
<1>4. m.alive \in Nat
  BY <1>1, LedgerNat
<1>5. m \in Memory
  BY <1>1, <1>3, <1>4 DEF Memo, Memory
<1>6. disk \in [Seqs -> Image]
  BY <1>1 DEF Stable, Images
<1> QED
  BY <1>1, <1>5, <1>6 DEF Stable, Spents, TypeOK

LEMMA InvRefs ==
    ASSUME WInv
    PROVE  RefsExact
<1>1. m \in Memo /\ pc \in PCs /\ Book(m, Reading(pc)) /\ Chain(m)
  BY DEF WInv, Process, Book
<1>2. Files(m) \subseteq Seqs
  BY <1>1, FilesOf
<1>3. ASSUME NEW f \in Files(m)
      PROVE  /\ m.file[f].refs = Len(m.file[f].jlist) + (IF m.file[f].iswopen THEN 1 ELSE 0)
                            + (IF pc.at = "read" /\ pc.b = f /\ pc.r > 0 THEN 1 ELSE 0)
             /\ \A j \in Ids : m.job[j].file = f <=> j \in Range(m.file[f].jlist)
  <2>1. f \in Seqs /\ f # Nil
    BY <1>2 DEF Seqs, Nil
  <2>2. Counted(m, f, Reading(pc)) /\ Holds(m, f)
    BY <1>1, <2>1 DEF Book
  <2>3. f = Reading(pc) <=> pc.at = "read" /\ pc.b = f /\ pc.r > 0
    BY <2>1 DEF Reading
  <2> QED
    BY <2>2, <2>3 DEF Counted, Holds
<1> QED
  BY <1>3 DEF RefsExact

LEMMA InvOverrun ==
    ASSUME WInv
    PROVE  NoOverrun
<1>1. m \in Memo /\ NonNeg(m) /\ Chain(m)
  BY DEF WInv, Process, Book
<1>2. Files(m) \subseteq Seqs
  BY <1>1, FilesOf
<1> QED
  BY <1>1, <1>2 DEF NoOverrun, NonNeg

LEMMA InvFits ==
    ASSUME WInv
    PROVE  WriteFits
<1> SUFFICES ASSUME pc.at = "write", m.use
             PROVE  \E w \in WriteIn : w.file[w.cur].resv >=
                        IF m.job[pc.j].file = Nil THEN JobToWrite.size ELSE Z
  BY DEF WriteFits, Fitting, Needed
<1>1. Process(m, pc) /\ m \in Memo
  BY DEF WInv, Process
<1>2. PICK w : /\ WriteIn = {w} /\ Yard(w, pc.n, Moving(pc)) /\ SameJobs(m, w)
               /\ Even(w.cur, Rs(w), pc.n) /\ Rs(w)[w.cur] >= pc.n
               /\ pc.op = "delete" => Rs(w)[w.cur] >= Z
               /\ pc.op # "delete" => w = m
  BY <1>1, WriteInOf
<1>3. /\ pc \in PCs /\ pc.op \in {"put", "update", "delete", "migrate"}
      /\ pc.op = "put" => /\ pc.j \in Ids /\ pc.to = "ready"
                          /\ pc.n - Z \in FullSizes /\ m.job[pc.j] = NoJob
      /\ pc.op = "update" => pc.n = Z /\ m.job[pc.j].file # Nil
      /\ pc.op = "delete" => m.job[pc.j].file # Nil
      /\ pc.op = "migrate" => pc.j \in Live(m) /\ pc.n = m.job[pc.j].size /\ m.job[pc.j].file = Nil
  BY <1>1, WritingOf
<1>4. w \in Memo /\ w.cur \in Seqs /\ pc.n \in Nat
  BY <1>2, <1>3, YardNonNeg, PCType
<1>5. Rs(w)[w.cur] = w.file[w.cur].resv /\ w.file[w.cur].resv \in Int
  BY <1>4, SpaceType, FileType
<1>6. w.file[w.cur].resv >= IF m.job[pc.j].file = Nil THEN JobToWrite.size ELSE Z
  <2>1. CASE pc.op = "put"
    <3>1. PICK k : k = JobToWrite
      OBVIOUS
    <3>2. k.size = pc.n - Z /\ m.job[pc.j].file = Nil
      BY <1>3, <2>1, <3>1, NewJob, NoJobType
    <3>3. w.file[w.cur].resv >= pc.n - Z
      BY <1>2, <1>4, <1>5, WalConstants
    <3> QED
      BY <3>1, <3>2, <3>3
  <2>2. CASE pc.op = "update"
    BY <1>2, <1>3, <1>5, <2>2
  <2>3. CASE pc.op = "delete"
    BY <1>2, <1>3, <1>5, <2>3
  <2>4. CASE pc.op = "migrate"
    <3>1. PICK k : k = JobToWrite
      OBVIOUS
    <3>2. pc.op # "put" /\ pc.j \in Ids
      BY <1>3, <2>4 DEF Live
    <3>3. k.size = pc.n
      BY <1>1, <1>3, <2>4, <3>1, <3>2, KnownJob
    <3> QED
      BY <1>2, <1>3, <1>5, <2>4, <3>1, <3>3
  <2> QED
    BY <1>3, <2>1, <2>2, <2>3, <2>4
<1> QED
  BY <1>2, <1>6

\* What the recursion computes is the sum of the reservations.
LEMMA UptoSum ==
    ASSUME NEW t, m \in Memo, IsSum(MaxSeq, Rs(m), t)
    PROVE  t = ResvUpto[MaxSeq]
<1>1. MaxSeq \in Nat
  BY WalConstants
<1>2. PICK p : Partial(MaxSeq, Rs(m), p) /\ t = p[MaxSeq]
  BY DEF IsSum
<1>3. /\ p \in [0..MaxSeq -> Int] /\ p[0] = 0
      /\ \A i \in 1..MaxSeq : p[i] = p[i - 1] + Rs(m)[i]
  BY <1>2 DEF Partial
<1>4. \A i \in 1..MaxSeq : Rs(m)[i] = m.file[i].resv
  BY SpaceType DEF Seqs
<1> DEFINE IsIt(g) == g = [f \in 0..MaxSeq |-> IF f = 0 THEN 0 ELSE g[f - 1] + m.file[f].resv]
<1>5. IsIt(p)
  <2>1. ASSUME NEW f \in 0..MaxSeq
        PROVE  p[f] = IF f = 0 THEN 0 ELSE p[f - 1] + m.file[f].resv
    <3>1. CASE f = 0
      BY <1>3, <3>1
    <3>2. CASE f # 0
      <4>1. f \in 1..MaxSeq
        BY <1>1, <3>2
      <4> QED
        BY <1>3, <1>4, <3>2, <4>1
    <3> QED
      BY <3>1, <3>2
  <2> QED
    BY <1>3, <2>1
<1>6. ResvUpto = CHOOSE g : IsIt(g)
  BY DEF ResvUpto
<1>7. IsIt(ResvUpto)
  <2> HIDE DEF IsIt
  <2> QED
    BY <1>5, <1>6
<1>8. PICK g : g = ResvUpto
  OBVIOUS
<1>9. \A f \in 0..MaxSeq : g[f] = IF f = 0 THEN 0 ELSE g[f - 1] + m.file[f].resv
  BY <1>7, <1>8
<1> DEFINE B == {i \in 0..MaxSeq : p[i] # g[i]}
<1>10. B = {}
  <2> SUFFICES ASSUME B # {} PROVE FALSE
    OBVIOUS
  <2>1. B \subseteq Nat
    OBVIOUS
  <2>2. PICK x \in B : \A y \in B : x <= y
    BY <2>1, LeastNat
  <2>3. x # 0
    BY <1>1, <1>3, <1>9, <2>2
  <2>4. x \in 1..MaxSeq /\ x \in 0..MaxSeq /\ x - 1 \in 0..MaxSeq /\ x - 1 \notin B
    BY <1>1, <2>2, <2>3
  <2>5. p[x - 1] = g[x - 1]
    BY <2>4
  <2>6. p[x] = p[x - 1] + m.file[x].resv
    BY <1>3, <1>4, <2>4
  <2>7. g[x] = g[x - 1] + m.file[x].resv
    BY <1>9, <2>3, <2>4
  <2> QED
    BY <2>2, <2>5, <2>6, <2>7
<1> QED
  BY <1>1, <1>2, <1>8, <1>10

LEMMA InvCovers ==
    ASSUME WInv
    PROVE  SpaceCovers
<1> SUFFICES ASSUME pc = Idle, m.use
             PROVE  /\ \A f \in WriteFiles : m.file[f].resv % Z = 0
                    /\ \A f \in Seqs \ WriteFiles : m.file[f].resv = 0
                    /\ m.resv = ResvUpto[MaxSeq]
                    /\ m.resv = Z * Cardinality(InLog) + spent.spare
  BY DEF SpaceCovers
<1>1. Process(m, pc) /\ pc.at = "idle"
  BY IdleType DEF WInv
<1>2. Settled(m)
  BY <1>1, AtRest
<1>3. /\ m \in Memo /\ Room(m.cur, m.tail, Fr(m), Rs(m)) /\ Even(m.cur, Rs(m), 0)
      /\ IsSum(MaxSeq, Rs(m), m.resv) /\ spent.spare \in Nat /\ m.resv = Claims(m) + 0
  BY <1>2 DEF Settled, Yard
<1>4. /\ m.cur \in Seqs /\ m.tail \in Seqs /\ m.cur <= m.tail
      /\ \A f \in Seqs : f < m.cur \/ m.tail < f => Rs(m)[f] = 0
  BY <1>3 DEF Room
<1>5. /\ m.cur \in Nat /\ m.tail \in Nat /\ m.cur # Nil
      /\ Rs(m) \in [Seqs -> Int] /\ \A f \in Seqs : Rs(m)[f] = m.file[f].resv
  BY <1>3, <1>4, SeqsNat, SpaceType DEF Seqs, Nil
<1>6. WriteFiles = m.cur..m.tail
  BY <1>5 DEF WriteFiles
<1>7. ASSUME NEW f \in WriteFiles PROVE m.file[f].resv % Z = 0
  <2>1. f \in Seqs
    <3>1. f \in m.cur..m.tail /\ m.cur >= 1 /\ m.tail <= MaxSeq
      BY <1>4, <1>6 DEF Seqs
    <3> QED
      BY <1>5, <3>1, SeqsNat DEF Seqs
  <2>2. PICK a \in Int : a = m.file[f].resv /\ a = Rs(m)[f]
    BY <1>5, <2>1
  <2>3. Mult(a)
    <3>1. CASE f = m.cur
      <4>1. Mult(Rs(m)[m.cur] - 0)
        BY <1>3 DEF Even
      <4>2. Rs(m)[m.cur] - 0 = a
        BY <2>2, <3>1
      <4> QED
        BY <4>1, <4>2
    <3>2. CASE f # m.cur
      BY <1>3, <2>1, <2>2, <3>2 DEF Even
    <3> QED
      BY <3>1, <3>2
  <2>4. PICK r : r = a % Z
    OBVIOUS
  <2>5. r = 0
    BY <2>3, <2>4, ModOf
  <2> QED
    BY <2>2, <2>4, <2>5
<1>8. ASSUME NEW f \in Seqs \ WriteFiles PROVE m.file[f].resv = 0
  <2>1. f \in Seqs /\ f \in Nat /\ f \notin m.cur..m.tail
    BY <1>6, SeqsNat
  <2>2. f < m.cur \/ m.tail < f
    BY <1>5, <2>1
  <2> QED
    BY <1>4, <1>5, <2>1, <2>2
<1>9. m.resv = ResvUpto[MaxSeq]
  BY <1>3, UptoSum
<1>10. m.resv = Z * Cardinality(InLog) + spent.spare
  <2>1. InLog = Live(m)
    BY DEF InLog, Live
  <2>2. PICK c \in Nat : c = Claims(m)
    BY <1>3, ClaimsType
  <2>3. m.resv = c
    BY <1>3, <2>2
  <2> QED
    BY <2>1, <2>2, <2>3 DEF Claims
<1> QED
  BY <1>7, <1>8, <1>9, <1>10

-----------------------------------------------------------------------------
(* The properties, for any number of files and jobs                        *)

\* The memory of the server, the program counter and the disk keep their
\* types; no reference count of a file and no amount of live bytes (w->alive)
\* is negative (filedecref, filermjob).  It is said of the behaviours in which
\* enqueue_job finds memory for every put.
THEOREM TypeCorrect ==
    ASSUME RoomyFiles
    PROVE  Spec /\ []Recorded => []TypeOK
<1>1. WInv => TypeOK
  BY InvType
<1>2. Spec /\ []Recorded => []WInv
  BY Inductive
<1> QED
  BY <1>1, <1>2, PTL

\* The references of a binlog file are the jobs whose full record it holds,
\* plus one while it is open for writing and one while fileread reads it
\* (fileincref and filedecref), and its job list agrees with j->file, also in
\* the middle of compaction, after a failed write, after a kick without memory
\* and while start-up reads.  It is said of the behaviours in which enqueue_job
\* finds memory for every put: the delete of a job that put buried without a
\* record leaves a freed job in a list.
THEOREM References ==
    ASSUME RoomyFiles
    PROVE  Spec /\ []Recorded => []RefsExact
<1>1. WInv => RefsExact
  BY InvRefs
<1>2. Spec /\ []Recorded => []WInv
  BY Inductive
<1> QED
  BY <1>1, <1>2, PTL

\* Between commands the files from cur on hold one delete record per job, and
\* one for each kick or release that found no memory after walresvupdate, all
\* whole, and w->resv is their sum, whatever reservations and writes failed
\* before (reserve, balance and their undo).  It is said of the behaviours in
\* which enqueue_job finds memory for every put.
THEOREM Space ==
    ASSUME RoomyFiles
    PROVE  Spec /\ []Recorded => []SpaceCovers
<1>1. WInv => SpaceCovers
  BY InvCovers
<1>2. Spec /\ []Recorded => []WInv
  BY Inductive
<1> QED
  BY <1>1, <1>2, PTL

\* No file is promised more than it has: free and resv are never negative,
\* also while balance moves reserved bytes between files, those that a kick
\* without memory left included.  It is said of the behaviours in which
\* enqueue_job finds memory for every put.
THEOREM Overrun ==
    ASSUME RoomyFiles
    PROVE  Spec /\ []Recorded => []NoOverrun
<1>1. WInv => NoOverrun
  BY InvOverrun
<1>2. Spec /\ []Recorded => []WInv
  BY Inductive
<1> QED
  BY <1>1, <1>2, PTL

\* walwrite finds the bytes of its record reserved in the current file or in
\* the next, for a delete too, which reserves nothing itself.  It is said of
\* the behaviours in which enqueue_job finds memory for every put.
THEOREM Fits ==
    ASSUME RoomyFiles
    PROVE  Spec /\ []Recorded => []WriteFits
<1>1. WInv => WriteFits
  BY InvFits
<1>2. Spec /\ []Recorded => []WInv
  BY Inductive
<1> QED
  BY <1>1, <1>2, PTL

=============================================================================
