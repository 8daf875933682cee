------------------------------ MODULE HeapProofs ------------------------------
(***************************************************************************)
(* The heap of jobs (less breaks ties by id) is a heap, for any number of  *)
(* items and keys: it holds exactly the items whose owner believes so, each*)
(* at the index it was told, and its root is the least.                    *)
(*                                                                         *)
(* While siftdown or siftup runs, the array is a heap except around one    *)
(* cell k: cell k need not come after its parent, nor before its children, *)
(* but the parent of k comes before the children of k.  The root is least  *)
(* because a least cell that came before it would have a parent that does. *)
(***************************************************************************)
EXTENDS Heap, FiniteSetTheorems, WellFoundedInduction, TLAPS

-----------------------------------------------------------------------------
(* The order of items and the shape of the array                           *)

\* The order of job_pri_less and job_delay_less, f being the keys.
Before(f, x, y) == f[x] < f[y] \/ (f[x] = f[y] /\ x < y)

\* Cell i of the array d comes after its parent.
Sorted(f, d, i) == Before(f, d[parent(i)], d[i])

\* What holds of the first n cells of d around cell k.
SortedElsewhere(f, d, n, k) ==
    \A i \in 1..(n - 1) : i # k /\ parent(i) # k => Sorted(f, d, i)
ParentFirst(f, d, n, k) ==
    k > 0 => \A i \in 1..(n - 1) : parent(i) = k => Before(f, d[parent(k)], d[i])
ChildrenAfter(f, d, n, k) ==
    \A i \in 1..(n - 1) : parent(i) = k => Sorted(f, d, i)
SortedAt(f, d, n, k) == k \in 1..(n - 1) => Sorted(f, d, k)

AllSorted(f, d, n) == \A i \in 1..(n - 1) : Sorted(f, d, i)

\* The first n cells of d hold the items m, each at the index p tells it.
Told(d, n, p, m) ==
    /\ \A i \in 0..(n - 1) : d[i] \in m /\ p[d[i]] = i
    /\ \A x \in m : p[x] \in 0..(n - 1) /\ d[p[x]] = x

\* Exchange of cells a and b.
Swapped(d, a, b) == [d EXCEPT ![a] = d[b], ![b] = d[a]]

\* A nonempty set of naturals has a least element.
LEMMA LeastOf ==
    ASSUME NEW T, T \subseteq Nat, T # {}
    PROVE  \E m \in T : \A k \in T : m <= k
<1> DEFINE R == OpToRel(<, Nat)
<1>1. IsWellFoundedOn(R, Nat)
  BY NatLessThanWellFounded
<1>2. \A x \in Nat, y \in Nat : <<y, x>> \in R <=> y < x
  BY DEF OpToRel
<1> HIDE DEF R
<1>3. PICK x \in T : \A y \in T : ~ (<<y, x>> \in R)
  BY <1>1, WFMin
<1>4. \A y \in T : ~(y < x) /\ x \in Nat /\ y \in Nat
  BY <1>2, <1>3
<1> QED
  BY <1>3, <1>4

\* Cell i > 0 has a parent before it; cells 2k + 1 and 2k + 2 are those below k.
LEMMA Parents ==
    ASSUME NEW i \in Nat, i > 0
    PROVE  /\ parent(i) \in Nat /\ parent(i) < i
           /\ \A k \in Nat : parent(i) = k <=> i = 2 * k + 1 \/ i = 2 * k + 2
BY DEF parent

\* Before is a strict total order.
LEMMA Ordered ==
    ASSUME NEW f \in [Items -> Nat], NEW x \in Items, NEW y \in Items, NEW z \in Items
    PROVE  /\ ~Before(f, x, x)
           /\ Before(f, x, y) => ~Before(f, y, x)
           /\ x # y => Before(f, x, y) \/ Before(f, y, x)
           /\ Before(f, x, y) /\ Before(f, y, z) => Before(f, x, z)
<1>1. f[x] \in Nat /\ f[y] \in Nat /\ f[z] \in Nat /\ x \in Nat /\ y \in Nat /\ z \in Nat
  BY HeapConstants DEF Items
<1> QED
  BY <1>1 DEF Before

\* No cell of a sorted array comes before the root.
LEMMA RootFirst ==
    ASSUME NEW f \in [Items -> Nat], NEW d, NEW n \in Nat,
           \A i \in 0..(n - 1) : d[i] \in Items,
           AllSorted(f, d, n)
    PROVE  \A i \in 1..(n - 1) : ~Before(f, d[i], d[0])
<1> DEFINE T == {i \in 1..(n - 1) : Before(f, d[i], d[0])}
<1>1. SUFFICES ASSUME T # {} PROVE FALSE
  OBVIOUS
<1>2. T \subseteq Nat
  OBVIOUS
<1>3. PICK m \in T : \A k \in T : m <= k
  <2> HIDE DEF T
  <2> QED
    BY <1>1, <1>2, LeastOf
<1>4. m \in 1..(n - 1) /\ m \in Nat /\ m > 0 /\ Before(f, d[m], d[0])
  OBVIOUS
<1>5. parent(m) \in Nat /\ parent(m) < m
  BY <1>4, Parents
<1>6. parent(m) \notin T
  BY <1>3, <1>4, <1>5
<1>7. Before(f, d[parent(m)], d[m])
  BY <1>4 DEF AllSorted, Sorted
<1>8. d[m] \in Items /\ d[parent(m)] \in Items /\ d[0] \in Items
  BY <1>4, <1>5
<1>9. Before(f, d[parent(m)], d[0])
  BY <1>4, <1>7, <1>8, Ordered
<1>10. parent(m) # 0
  BY <1>8, <1>9, Ordered
<1> QED
  BY <1>4, <1>5, <1>6, <1>9, <1>10

-----------------------------------------------------------------------------
(* One iteration of the loops                                              *)

Array == [Slots -> Items \cup {Free}]

\* The first n cells of d hold different items.
Distinct(d, n) ==
    /\ \A i \in 0..(n - 1) : d[i] \in Items
    /\ \A i, j \in 0..(n - 1) : d[i] = d[j] => i = j

\* siftdown: cell k, which comes before its parent, changes places with it.
LEMMA SwapUp ==
    ASSUME NEW f \in [Items -> Nat], NEW d \in Array, NEW n \in 0..N, Distinct(d, n),
           NEW k \in 1..(n - 1), ~Sorted(f, d, k),
           SortedElsewhere(f, d, n, k), ParentFirst(f, d, n, k)
    PROVE  LET e == Swapped(d, k, parent(k))
           IN  /\ SortedElsewhere(f, e, n, parent(k)) /\ ParentFirst(f, e, n, parent(k))
               /\ ChildrenAfter(f, e, n, parent(k))
<1> DEFINE p == parent(k)
           e == Swapped(d, k, p)
<1>1. /\ k \in Nat /\ k > 0 /\ p \in Nat /\ p < k /\ n \in Nat /\ N \in Nat
      /\ k \in 0..(n - 1) /\ p \in 0..(n - 1) /\ k \in Slots /\ p \in Slots /\ k # p
  BY HeapConstants, Parents DEF Slots
<1>2. e[k] = d[p] /\ e[p] = d[k] /\ \A i \in Slots \ {k, p} : e[i] = d[i]
  BY <1>1 DEF Swapped, Array
<1>3. \A i \in 1..(n - 1) : /\ i \in Nat /\ i > 0 /\ parent(i) \in Nat /\ parent(i) < i
                            /\ i \in 0..(n - 1) /\ parent(i) \in 0..(n - 1)
                            /\ i \in Slots /\ parent(i) \in Slots
  BY <1>1, Parents DEF Slots
<1>4. \A i \in 0..(n - 1) : d[i] \in Items
  BY DEF Distinct
<1>5. Before(f, d[k], d[p])
  <2>1. d[k] # d[p]
    BY <1>1 DEF Distinct
  <2> QED
    BY <1>1, <1>4, <2>1, Ordered DEF Sorted
<1> HIDE DEF e
<1>6. ASSUME NEW i \in 1..(n - 1), i # k, parent(i) # k PROVE Before(f, d[parent(i)], d[i])
  BY <1>6 DEF SortedElsewhere, Sorted
<1>7. ASSUME NEW i \in 1..(n - 1), parent(i) = k PROVE Before(f, d[p], d[i])
  BY <1>1, <1>7 DEF ParentFirst
<1> HIDE DEF p
<1>8. SortedElsewhere(f, e, n, p)
  <2> SUFFICES ASSUME NEW i \in 1..(n - 1), i # p, parent(i) # p
               PROVE  Before(f, e[parent(i)], e[i])
    BY DEF SortedElsewhere, Sorted
  <2>0. i # k
    BY DEF p
  <2>1. e[i] = d[i]
    BY <1>2, <1>3, <2>0
  <2>2. CASE parent(i) = k
    BY <1>2, <1>7, <2>1, <2>2
  <2>3. CASE parent(i) # k
    BY <1>2, <1>3, <1>6, <2>0, <2>1, <2>3
  <2> QED
    BY <2>2, <2>3
<1>9. ChildrenAfter(f, e, n, p)
  <2> SUFFICES ASSUME NEW i \in 1..(n - 1), parent(i) = p
               PROVE  Before(f, e[p], e[i])
    BY DEF ChildrenAfter, Sorted
  <2>1. CASE i = k
    BY <1>2, <1>5, <2>1
  <2>2. CASE i # k
    <3>1. e[i] = d[i] /\ Before(f, d[p], d[i])
      BY <1>1, <1>2, <1>3, <1>6, <2>2
    <3> QED
      BY <1>1, <1>2, <1>3, <1>4, <1>5, <3>1, Ordered
  <2> QED
    BY <2>1, <2>2
<1>10. ParentFirst(f, e, n, p)
  <2> SUFFICES ASSUME p > 0, NEW i \in 1..(n - 1), parent(i) = p
               PROVE  Before(f, e[parent(p)], e[i])
    BY DEF ParentFirst
  <2> DEFINE g == parent(p)
  <2>1. p \in 1..(n - 1) /\ g \in 0..(n - 1) /\ g < p /\ g \in Slots /\ g # k
    BY <1>1, <1>3
  <2>2. Before(f, d[g], d[p]) /\ e[g] = d[g]
    BY <1>1, <1>2, <1>6, <2>1
  <2>3. CASE i = k
    BY <1>2, <2>2, <2>3
  <2>4. CASE i # k
    <3>1. e[i] = d[i] /\ Before(f, d[p], d[i])
      BY <1>1, <1>2, <1>3, <1>6, <2>4
    <3> QED
      BY <1>1, <1>3, <1>4, <2>1, <2>2, <3>1, Ordered
  <2> QED
    BY <2>3, <2>4
<1> QED
  BY <1>8, <1>9, <1>10 DEF e, p

\* siftup: cell k changes places with its first child s.
LEMMA SwapDown ==
    ASSUME NEW f \in [Items -> Nat], NEW d \in Array, NEW n \in 0..N, Distinct(d, n),
           NEW k \in 0..(n - 1), NEW s \in 1..(n - 1), parent(s) = k, ~Sorted(f, d, s),
           \A i \in 1..(n - 1) : parent(i) = k => ~Before(f, d[i], d[s]),
           SortedElsewhere(f, d, n, k), ParentFirst(f, d, n, k), SortedAt(f, d, n, k)
    PROVE  LET e == Swapped(d, k, s)
           IN  SortedElsewhere(f, e, n, s) /\ ParentFirst(f, e, n, s) /\ SortedAt(f, e, n, s)
<1> DEFINE e == Swapped(d, k, s)
<1>1. /\ k \in Nat /\ s \in Nat /\ s > 0 /\ k < s /\ n \in Nat /\ N \in Nat
      /\ s \in 0..(n - 1) /\ k \in Slots /\ s \in Slots /\ k # s
  BY HeapConstants, Parents DEF Slots
<1>2. e[k] = d[s] /\ e[s] = d[k] /\ \A i \in Slots \ {k, s} : e[i] = d[i]
  BY <1>1 DEF Swapped, Array
<1>3. \A i \in 1..(n - 1) : /\ i \in Nat /\ i > 0 /\ parent(i) \in Nat /\ parent(i) < i
                            /\ i \in 0..(n - 1) /\ parent(i) \in 0..(n - 1)
                            /\ i \in Slots /\ parent(i) \in Slots
  BY <1>1, Parents DEF Slots
<1>4. \A i \in 0..(n - 1) : d[i] \in Items
  BY DEF Distinct
<1>5. Before(f, d[s], d[k])
  <2>1. d[k] # d[s]
    BY <1>1 DEF Distinct
  <2> QED
    BY <1>1, <1>4, <2>1, Ordered DEF Sorted
<1> HIDE DEF e
<1>6. ASSUME NEW i \in 1..(n - 1), parent(i) # k PROVE Before(f, d[parent(i)], d[i])
  BY <1>6 DEF SortedElsewhere, SortedAt, Sorted
<1>7. ASSUME NEW i \in 1..(n - 1), parent(i) = k, k > 0 PROVE Before(f, d[parent(k)], d[i])
  BY <1>7 DEF ParentFirst
<1>8. SortedElsewhere(f, e, n, s)
  <2> SUFFICES ASSUME NEW i \in 1..(n - 1), i # s, parent(i) # s
               PROVE  Before(f, e[parent(i)], e[i])
    BY DEF SortedElsewhere, Sorted
  <2>1. CASE i = k
    <3>1. k > 0 /\ e[parent(k)] = d[parent(k)]
      BY <1>2, <1>3, <2>1
    <3> QED
      BY <1>2, <1>7, <2>1, <3>1
  <2>2. CASE parent(i) = k
    <3>1. e[i] = d[i] /\ ~Before(f, d[i], d[s]) /\ d[i] # d[s]
      BY <1>1, <1>2, <1>3, <2>2 DEF Distinct
    <3> QED
      BY <1>1, <1>2, <1>3, <1>4, <2>2, <3>1, Ordered
  <2>3. CASE i # k /\ parent(i) # k
    BY <1>2, <1>3, <1>6, <2>3
  <2> QED
    BY <2>1, <2>2, <2>3
<1>9. SortedAt(f, e, n, s)
  BY <1>2, <1>5 DEF SortedAt, Sorted
<1>10. ParentFirst(f, e, n, s)
  <2> SUFFICES ASSUME NEW i \in 1..(n - 1), parent(i) = s
               PROVE  Before(f, e[k], e[i])
    BY DEF ParentFirst
  <2>1. i # s /\ i # k /\ e[i] = d[i]
    BY <1>1, <1>2, <1>3
  <2> QED
    BY <1>1, <1>2, <1>6, <2>1
<1> QED
  BY <1>8, <1>9, <1>10 DEF e

\* An exchange keeps every item told.
LEMMA SwapTold ==
    ASSUME NEW d \in Array, NEW n \in 0..N, NEW p \in [Items -> Slots],
           NEW m \in SUBSET Items, Told(d, n, p, m),
           NEW a \in 0..(n - 1), NEW b \in 0..(n - 1), a # b
    PROVE  /\ Told(Swapped(d, a, b), n, [p EXCEPT ![d[b]] = a, ![d[a]] = b], m)
           /\ Swapped(d, a, b) \in Array
           /\ [p EXCEPT ![d[b]] = a, ![d[a]] = b] \in [Items -> Slots]
<1> DEFINE e == Swapped(d, a, b)
           r == [p EXCEPT ![d[b]] = a, ![d[a]] = b]
           x == d[a]
           y == d[b]
<1>1. a \in Slots /\ b \in Slots /\ n \in Nat /\ 0..(n - 1) \subseteq Slots
  BY HeapConstants DEF Slots
<1>2. x \in m /\ y \in m /\ x \in Items /\ y \in Items /\ p[x] = a /\ p[y] = b /\ x # y
  BY DEF Told
<1>3. e[a] = y /\ e[b] = x /\ \A i \in Slots \ {a, b} : e[i] = d[i]
  BY <1>1 DEF Swapped, Array
<1>4. r[x] = b /\ r[y] = a /\ \A z \in Items \ {x, y} : r[z] = p[z]
  BY <1>2
<1>5. e \in Array /\ r \in [Items -> Slots]
  <2>1. e \in Array
    BY <1>1 DEF Swapped, Array
  <2> QED
    BY <1>1, <2>1
<1> HIDE DEF e, r, x, y
<1>6. \A i \in 0..(n - 1) : e[i] \in m /\ r[e[i]] = i
  <2> SUFFICES ASSUME NEW i \in 0..(n - 1) PROVE e[i] \in m /\ r[e[i]] = i
    OBVIOUS
  <2>1. CASE i \in {a, b}
    BY <1>2, <1>3, <1>4, <2>1
  <2>2. CASE i \notin {a, b}
    <3>1. e[i] = d[i] /\ d[i] \in m /\ p[d[i]] = i
      BY <1>1, <1>3, <2>2 DEF Told
    <3>2. d[i] # x /\ d[i] # y /\ d[i] \in Items
      BY <1>2, <2>2, <3>1
    <3> QED
      BY <1>4, <3>1, <3>2
  <2> QED
    BY <2>1, <2>2
<1>7. \A z \in m : r[z] \in 0..(n - 1) /\ e[r[z]] = z
  <2> SUFFICES ASSUME NEW z \in m PROVE r[z] \in 0..(n - 1) /\ e[r[z]] = z
    OBVIOUS
  <2>1. CASE z \in {x, y}
    BY <1>2, <1>3, <1>4, <2>1
  <2>2. CASE z \notin {x, y}
    <3>1. r[z] = p[z] /\ p[z] \in 0..(n - 1) /\ d[p[z]] = z
      BY <1>4, <2>2 DEF Told
    <3>2. p[z] # a /\ p[z] # b
      BY <2>2, <3>1 DEF x, y
    <3> QED
      BY <1>1, <1>3, <3>1, <3>2
  <2> QED
    BY <2>1, <2>2
<1>8. Told(e, n, r, m)
  BY <1>6, <1>7 DEF Told
<1> QED
  BY <1>5, <1>8 DEF e, r

-----------------------------------------------------------------------------
(* The inductive invariant                                                 *)

HeapType ==
    /\ data \in Array
    /\ len \in 0..N
    /\ pos \in [Items -> Slots]
    /\ key \in [Items -> 0..MaxKey]
    /\ member \in SUBSET Items
    /\ pc \in [op : {"idle", "insert", "remove", "siftup"}, k : Slots, from : Slots]

\* The array is a heap but for the cell the running loop is at.  heapremove of
\* the last cell leaves its loops at cell len, where they do nothing.
Shape ==
    LET k == pc.k
    IN  /\ pc.op = "idle" => pc = Idle /\ AllSorted(key, data, len)
        /\ pc.op # "idle" => SortedElsewhere(key, data, len, k) /\ ParentFirst(key, data, len, k)
        /\ pc.op = "insert" => k < len /\ ChildrenAfter(key, data, len, k)
        /\ pc.op = "remove" =>
              /\ k <= len /\ pc.from <= len
              /\ k = pc.from \/ ChildrenAfter(key, data, len, k)
              /\ k = len => k = pc.from /\ (k = 0 \/ Sorted(key, data, k))
        /\ pc.op = "siftup" => k <= len /\ SortedAt(key, data, len, k)

HInv ==
    /\ HeapType
    /\ Told(data, len, pos, member)
    /\ len = Cardinality(member)
    /\ Shape

\* Sorted elsewhere, at k and below k is sorted; and what is sorted is sorted
\* around every cell.
LEMMA SortedAround ==
    ASSUME NEW f \in [Items -> Nat], NEW d, NEW n \in Nat, NEW k \in Nat,
           \A i \in 0..(n - 1) : d[i] \in Items
    PROVE  /\ SortedElsewhere(f, d, n, k) /\ SortedAt(f, d, n, k) /\ ChildrenAfter(f, d, n, k)
                => AllSorted(f, d, n)
           /\ AllSorted(f, d, n) =>
                /\ SortedElsewhere(f, d, n, k) /\ SortedAt(f, d, n, k)
                /\ ParentFirst(f, d, n, k) /\ ChildrenAfter(f, d, n, k)
<1>1. SortedElsewhere(f, d, n, k) /\ SortedAt(f, d, n, k) /\ ChildrenAfter(f, d, n, k)
         => AllSorted(f, d, n)
  BY DEF SortedElsewhere, SortedAt, ChildrenAfter, AllSorted
<1>2. ASSUME AllSorted(f, d, n)
      PROVE  SortedElsewhere(f, d, n, k) /\ SortedAt(f, d, n, k) /\ ChildrenAfter(f, d, n, k)
  BY <1>2 DEF SortedElsewhere, SortedAt, ChildrenAfter, AllSorted
<1>3. ASSUME AllSorted(f, d, n), k > 0, NEW i \in 1..(n - 1), parent(i) = k
      PROVE  Before(f, d[parent(k)], d[i])
  <2>1. k < i /\ k \in 1..(n - 1) /\ parent(k) \in Nat /\ parent(k) < k
    BY <1>3, Parents
  <2>2. Before(f, d[parent(k)], d[k]) /\ Before(f, d[k], d[i])
    BY <1>3, <2>1 DEF AllSorted, Sorted
  <2> QED
    BY <2>1, <2>2, Ordered
<1> QED
  BY <1>1, <1>2, <1>3 DEF ParentFirst

\* No cell before n is below a cell at or behind n.
LEMMA NoChildren ==
    ASSUME NEW n \in Nat, NEW k \in Nat, n <= k + 1
    PROVE  \A i \in 1..(n - 1) : parent(i) # k
BY Parents

\* less of two cells that hold items is the order of the items.
LEMMA LessIsBefore ==
    ASSUME TieBreak
    PROVE  \A a, b : less(a, b) <=> Before(key, data[a], data[b])
BY DEF less, Before

\* The facts about a state that the steps below use.
LEMMA HeapFacts ==
    ASSUME HInv
    PROVE  /\ N \in Nat /\ len \in Nat /\ len <= N /\ 0..(len - 1) \subseteq Slots
           /\ key \in [Items -> Nat] /\ IsFiniteSet(member)
           /\ \A i \in 0..(len - 1) : data[i] \in Items
           /\ Distinct(data, len)
           /\ pc.k \in Nat /\ pc.from \in Nat
           /\ pc.op = "idle" => pc = Idle
<1>1. N \in Nat /\ len \in Nat /\ len <= N /\ 0..(len - 1) \subseteq Slots /\ Slots \subseteq Nat
  BY HeapConstants DEF HInv, HeapType, Slots
<1>2. key \in [Items -> Nat]
  BY HeapConstants DEF HInv, HeapType
<1>3. IsFiniteSet(member)
  <2>1. IsFiniteSet(Items)
    BY <1>1, FS_Interval DEF Items
  <2> QED
    BY <2>1, FS_Subset DEF HInv, HeapType
<1>4. \A i \in 0..(len - 1) : data[i] \in Items
  BY DEF HInv, HeapType, Told
<1>5. Distinct(data, len)
  BY <1>4 DEF HInv, Told, Distinct
<1>6. pc.k \in Nat /\ pc.from \in Nat
  BY <1>1 DEF HInv, HeapType
<1>7. pc.op = "idle" => pc = Idle
  BY DEF HInv, Shape
<1> QED
  BY <1>1, <1>2, <1>3, <1>4, <1>5, <1>6, <1>7

-----------------------------------------------------------------------------
(* The steps                                                               *)

\* A new item at the end of the array disturbs no other cell.
LEMMA InsertKeeps ==
    ASSUME TieBreak, HInv, NEW x \in Items, heapinsert(x)
    PROVE  HInv'
<1> DEFINE n == len + 1
<1>1. /\ N \in Nat /\ len \in Nat /\ n \in Nat /\ n <= N /\ len \in Slots
      /\ 0..(len - 1) \subseteq Slots /\ 0..(n - 1) \subseteq Slots
  BY HeapFacts, HeapConstants DEF heapinsert, Slots
<1>2. pc = Idle /\ x \notin member /\ len' = n /\ member' = member \cup {x} /\ key' = key
      /\ pc' = [op |-> "insert", k |-> len, from |-> len]
  BY DEF heapinsert
<1>3. data' = [data EXCEPT ![len] = x] /\ pos' = [pos EXCEPT ![x] = len]
  BY DEF heapinsert, set
<1>4. data \in Array /\ pos \in [Items -> Slots] /\ Told(data, len, pos, member)
      /\ AllSorted(key, data, len) /\ member \in SUBSET Items
  BY <1>2 DEF HInv, HeapType, Shape, Idle
<1>5. HeapType'
  <2>1. data' \in Array
    BY <1>1, <1>3, <1>4 DEF Array
  <2>2. pos' \in [Items -> Slots]
    BY <1>1, <1>3, <1>4
  <2>3. pc'.op = "insert" /\ pc' \in [op : {"idle", "insert", "remove", "siftup"}, k : Slots, from : Slots]
    BY <1>1, <1>2
  <2> QED
    BY <1>1, <1>2, <1>4, <2>1, <2>2, <2>3 DEF HeapType, HInv
<1>6. data'[len] = x /\ \A i \in 0..(len - 1) : data'[i] = data[i]
  BY <1>1, <1>3, <1>4 DEF Array
<1>7. pos'[x] = len /\ \A y \in member : pos'[y] = pos[y]
  BY <1>2, <1>3, <1>4
<1>8. Told(data', n, pos', member')
  <2>1. ASSUME NEW i \in 0..(n - 1) PROVE data'[i] \in member' /\ pos'[data'[i]] = i
    <3>1. CASE i = len
      BY <1>2, <1>6, <1>7, <3>1
    <3>2. CASE i # len
      <4>1. i \in 0..(len - 1)
        BY <1>1, <3>2
      <4> QED
        BY <1>2, <1>4, <1>6, <1>7, <4>1 DEF Told
    <3> QED
      BY <3>1, <3>2
  <2>2. ASSUME NEW y \in member' PROVE pos'[y] \in 0..(n - 1) /\ data'[pos'[y]] = y
    <3>1. CASE y = x
      BY <1>1, <1>6, <1>7, <3>1
    <3>2. CASE y \in member
      <4>1. pos'[y] \in 0..(len - 1) /\ data[pos'[y]] = y
        BY <1>4, <1>7, <3>2 DEF Told
      <4> QED
        BY <1>1, <1>6, <4>1
    <3> QED
      BY <1>2, <3>1, <3>2
  <2> QED
    BY <2>1, <2>2 DEF Told
<1>9. len' = Cardinality(member')
  BY <1>1, <1>2, HeapFacts, FS_AddElement DEF HInv
<1>10. \A i \in 1..(n - 1) : parent(i) # len
  <2>1. n <= len + 1
    BY <1>1
  <2> HIDE DEF n
  <2> QED
    BY <1>1, <2>1, NoChildren
<1>11. SortedElsewhere(key, data', n, len)
  <2> SUFFICES ASSUME NEW i \in 1..(n - 1), i # len
               PROVE  Before(key, data'[parent(i)], data'[i])
    BY DEF SortedElsewhere, Sorted
  <2>1. i \in 1..(len - 1) /\ i \in 0..(len - 1) /\ parent(i) \in 0..(len - 1)
    BY <1>1, Parents
  <2> QED
    BY <1>4, <1>6, <2>1 DEF AllSorted, Sorted
<1>12. ParentFirst(key, data', n, len) /\ ChildrenAfter(key, data', n, len)
  BY <1>10 DEF ParentFirst, ChildrenAfter
<1>13. Shape'
  <2>1. pc'.op = "insert" /\ pc'.k = len
    BY <1>2
  <2>2. len < len'
    BY <1>1, <1>2
  <2> QED
    BY <1>2, <1>11, <1>12, <2>1, <2>2 DEF Shape
<1> QED
  BY <1>2, <1>5, <1>8, <1>9, <1>13 DEF HInv

\* The last item fills the cell of the one that leaves, and the array is a heap
\* but for that cell.
LEMMA RemoveKeeps ==
    ASSUME TieBreak, HInv, NEW x \in Items, heapremove(x)
    PROVE  HInv'
<1> DEFINE n == len - 1
           p == pos[x]
           z == data[n]
<1>1. pc = Idle /\ x \in member /\ len' = n /\ member' = member \ {x} /\ key' = key
      /\ pc' = [op |-> "remove", k |-> p, from |-> p] /\ p < len
      /\ data' = [data EXCEPT ![p] = z] /\ pos' = [pos EXCEPT ![z] = p]
  BY DEF heapremove, set
<1>2. data \in Array /\ pos \in [Items -> Slots] /\ Told(data, len, pos, member)
      /\ AllSorted(key, data, len) /\ member \in SUBSET Items /\ key \in [Items -> Nat]
  BY <1>1, HeapFacts DEF HInv, HeapType, Shape, Idle
<1>3. p \in 0..(len - 1) /\ data[p] = x
  BY <1>1, <1>2 DEF Told
<1>4. /\ N \in Nat /\ len \in Nat /\ n \in Nat /\ p \in Nat /\ n <= N /\ p <= n /\ p \in Slots
      /\ 0..(len - 1) \subseteq Slots /\ n \in 0..(len - 1)
  BY <1>3, HeapFacts, HeapConstants DEF Slots
<1>5. z \in member /\ pos[z] = n /\ z \in Items
  BY <1>2, <1>4 DEF Told
<1> HIDE DEF p, z
<1>6. HeapType'
  <2>1. data' \in Array
    BY <1>1, <1>2, <1>4, <1>5 DEF Array
  <2>2. pos' \in [Items -> Slots]
    BY <1>1, <1>2, <1>4, <1>5
  <2>3. pc' \in [op : {"idle", "insert", "remove", "siftup"}, k : Slots, from : Slots]
    BY <1>1, <1>4
  <2> QED
    BY <1>1, <1>2, <1>4, <2>1, <2>2, <2>3 DEF HeapType, HInv
<1>7. data'[p] = z /\ \A i \in 0..(len - 1) : i # p => data'[i] = data[i]
  BY <1>1, <1>2, <1>4 DEF Array
<1>8. pos'[z] = p /\ \A y \in member : y # z => pos'[y] = pos[y]
  BY <1>1, <1>2, <1>5
<1>9. Told(data', n, pos', member')
  <2>1. ASSUME NEW i \in 0..(n - 1) PROVE data'[i] \in member' /\ pos'[data'[i]] = i
    <3>1. i \in 0..(len - 1) /\ i # n
      BY <1>4
    <3>2. CASE i = p
      <4>1. z # x
        BY <1>3, <1>5, <3>1, <3>2 DEF p
      <4> QED
        BY <1>1, <1>5, <1>7, <1>8, <3>2, <4>1
    <3>3. CASE i # p
      <4>1. data'[i] = data[i] /\ data[i] \in member /\ pos[data[i]] = i
        BY <1>2, <1>7, <3>1, <3>3 DEF Told
      <4>2. data[i] # x /\ data[i] # z
        BY <1>5, <3>1, <3>3, <4>1 DEF p
      <4> QED
        BY <1>1, <1>8, <4>1, <4>2
    <3> QED
      BY <3>2, <3>3
  <2>2. ASSUME NEW y \in member' PROVE pos'[y] \in 0..(n - 1) /\ data'[pos'[y]] = y
    <3>1. y \in member /\ y # x /\ pos[y] \in 0..(len - 1) /\ data[pos[y]] = y
      BY <1>1, <1>2 DEF Told
    <3>2. pos[y] # p
      BY <1>3, <3>1
    <3>3. CASE y = z
      BY <1>4, <1>5, <1>7, <1>8, <3>2, <3>3
    <3>4. CASE y # z
      <4>1. pos[y] # n
        BY <3>1, <3>4 DEF z
      <4> QED
        BY <1>4, <1>7, <1>8, <3>1, <3>2, <3>4, <4>1
    <3> QED
      BY <3>3, <3>4
  <2> QED
    BY <2>1, <2>2 DEF Told
<1>10. len' = Cardinality(member')
  BY <1>1, HeapFacts, FS_RemoveElement DEF HInv
<1>11. SortedElsewhere(key, data', n, p)
  <2> SUFFICES ASSUME NEW i \in 1..(n - 1), i # p, parent(i) # p
               PROVE  Before(key, data'[parent(i)], data'[i])
    BY DEF SortedElsewhere, Sorted
  <2>1. i \in 1..(len - 1) /\ i \in 0..(len - 1) /\ parent(i) \in 0..(len - 1)
    BY <1>4, Parents
  <2> QED
    BY <1>2, <1>7, <2>1 DEF AllSorted, Sorted
<1>12. ParentFirst(key, data', n, p)
  <2> SUFFICES ASSUME p > 0, NEW i \in 1..(n - 1), parent(i) = p
               PROVE  Before(key, data'[parent(p)], data'[i])
    BY DEF ParentFirst
  <2>1. /\ i \in 1..(len - 1) /\ i \in 0..(len - 1) /\ i # p
        /\ parent(p) \in 0..(len - 1) /\ parent(p) # p
    BY <1>4, Parents
  <2>2. ParentFirst(key, data, len, p)
    BY <1>2, <1>4, HeapFacts, SortedAround
  <2> QED
    BY <1>7, <2>1, <2>2 DEF ParentFirst
<1>13. p = n => p = 0 \/ Sorted(key, data', p)
  <2> SUFFICES ASSUME p = n, p # 0 PROVE Sorted(key, data', p)
    OBVIOUS
  <2>1. data' = data
    BY <1>1, <1>2, <1>4 DEF z, Array
  <2>2. Before(key, data[parent(p)], data[p])
    BY <1>2, <1>4 DEF AllSorted, Sorted
  <2> QED
    BY <2>1, <2>2 DEF Sorted
<1>14. Shape'
  <2>1. pc'.op = "remove" /\ pc'.k = p /\ pc'.from = p
    BY <1>1
  <2> QED
    BY <1>1, <1>4, <1>11, <1>12, <1>13, <2>1 DEF Shape
<1> QED
  BY <1>1, <1>6, <1>9, <1>10, <1>14 DEF HInv

\* siftdown ends where the cell comes after its parent, or moves the cell up.
LEMMA SiftdownKeeps ==
    ASSUME TieBreak, HInv, siftdown
    PROVE  HInv'
<1> DEFINE k == pc.k
           q == parent(k)
<1>1. /\ pc.op \in {"insert", "remove"} /\ len' = len /\ key' = key /\ member' = member
      /\ pc \in [op : {"idle", "insert", "remove", "siftup"}, k : Slots, from : Slots]
      /\ k \in Nat /\ k \in Slots /\ pc.from \in Nat /\ pc.from \in Slots /\ len \in Nat /\ k <= len
      /\ len \in 0..N /\ key \in [Items -> Nat]
  BY HeapFacts DEF siftdown, HInv, HeapType, Shape
<1>2. /\ data \in Array /\ pos \in [Items -> Slots] /\ member \in SUBSET Items
      /\ Told(data, len, pos, member) /\ Distinct(data, len)
      /\ \A i \in 0..(len - 1) : data[i] \in Items
  BY HeapFacts DEF HInv, HeapType
<1>3. SortedElsewhere(key, data, len, k) /\ ParentFirst(key, data, len, k)
      /\ (pc.op = "insert" => k < len)
      /\ ((k = pc.from /\ pc.op = "remove") \/ ChildrenAfter(key, data, len, k))
      /\ (k = len => k = pc.from /\ (k = 0 \/ Sorted(key, data, k)))
      /\ (pc.op = "remove" => pc.from <= len)
  BY <1>1 DEF HInv, Shape
<1>4. less(q, k) <=> Sorted(key, data, k)
  BY LessIsBefore DEF Sorted
<1>5. CASE k = 0 \/ Sorted(key, data, k)
  <2>1. /\ data' = data /\ pos' = pos
        /\ pc' = IF pc.op = "insert" THEN Idle ELSE [pc EXCEPT !.op = "siftup", !.k = pc.from]
    BY <1>4, <1>5 DEF siftdown
  <2>2. SortedAt(key, data, len, k)
    BY <1>5 DEF SortedAt
  <2>3. CASE pc.op = "insert"
    <3>1. AllSorted(key, data, len)
      BY <1>1, <1>2, <1>3, <2>2, <2>3, SortedAround
    <3>2. pc' = Idle /\ pc'.op = "idle" /\ 0 \in Slots
      BY <1>1, <2>1, <2>3, HeapConstants DEF Idle, Slots
    <3>3. HeapType'
      BY <1>1, <2>1, <3>2 DEF HInv, HeapType, Idle
    <3>4. Shape'
      BY <1>1, <2>1, <3>1, <3>2 DEF Shape, Idle
    <3> QED
      BY <1>1, <2>1, <3>3, <3>4 DEF HInv
  <2>4. CASE pc.op = "remove"
    <3> DEFINE g == pc.from
    <3>1. pc'.op = "siftup" /\ pc'.k = g /\ g <= len
          /\ pc' \in [op : {"idle", "insert", "remove", "siftup"}, k : Slots, from : Slots]
      BY <1>1, <1>3, <2>1, <2>4
    <3>2. SortedElsewhere(key, data, len, g) /\ ParentFirst(key, data, len, g)
          /\ SortedAt(key, data, len, g)
      <4>1. CASE k = g
        BY <1>3, <2>2, <4>1
      <4>2. CASE k # g
        <5>1. AllSorted(key, data, len)
          BY <1>1, <1>2, <1>3, <2>2, <4>2, SortedAround
        <5> QED
          BY <1>1, <1>2, <5>1, SortedAround
      <4> QED
        BY <4>1, <4>2
    <3>3. HeapType'
      BY <1>1, <2>1, <3>1 DEF HInv, HeapType
    <3>4. Shape'
      BY <1>1, <2>1, <3>1, <3>2 DEF Shape
    <3> QED
      BY <1>1, <2>1, <3>3, <3>4 DEF HInv
  <2> QED
    BY <1>1, <2>3, <2>4
<1>6. CASE k # 0 /\ ~Sorted(key, data, k)
  <2>1. /\ data' = Swapped(data, k, q) /\ pos' = [pos EXCEPT ![data[q]] = k, ![data[k]] = q]
        /\ pc' = [pc EXCEPT !.k = q]
    BY <1>4, <1>6 DEF siftdown, swap, Swapped
  <2>2. k \in 1..(len - 1) /\ k \in 0..(len - 1) /\ q \in 0..(len - 1) /\ q < k /\ q \in Nat /\ k # q
        /\ q \in Slots /\ q < len
    BY <1>1, <1>3, <1>6, Parents, HeapFacts
  <2> HIDE DEF q, k
  <2>3. Told(data', len, pos', member) /\ data' \in Array /\ pos' \in [Items -> Slots]
    BY <1>1, <1>2, <2>1, <2>2, SwapTold
  <2>4. SortedElsewhere(key, data', len, q) /\ ParentFirst(key, data', len, q)
        /\ ChildrenAfter(key, data', len, q)
    BY <1>1, <1>2, <1>3, <1>6, <2>1, <2>2, SwapUp DEF q
  <2>5. pc'.op = pc.op /\ pc'.k = q /\ pc'.from = pc.from
        /\ pc' \in [op : {"idle", "insert", "remove", "siftup"}, k : Slots, from : Slots]
    BY <1>1, <2>1, <2>2
  <2>6. HeapType'
    BY <1>1, <2>3, <2>5 DEF HInv, HeapType
  <2>7. Shape'
    BY <1>1, <1>3, <2>2, <2>4, <2>5 DEF Shape
  <2> QED
    BY <1>1, <2>3, <2>6, <2>7 DEF HInv
<1> QED
  BY <1>5, <1>6

\* siftup ends where the cell comes before its children, or moves it down.
LEMMA SiftupKeeps ==
    ASSUME TieBreak, HInv, siftup
    PROVE  HInv'
<1> DEFINE k == pc.k
           s == smallest(k)
           l == 2 * k + 1
           r == 2 * k + 2
<1>1. /\ pc.op = "siftup" /\ len' = len /\ key' = key /\ member' = member
      /\ pc \in [op : {"idle", "insert", "remove", "siftup"}, k : Slots, from : Slots]
      /\ k \in Nat /\ k \in Slots /\ len \in Nat /\ k <= len
      /\ len \in 0..N /\ key \in [Items -> Nat] /\ 0..(len - 1) \subseteq Slots
  BY HeapFacts DEF siftup, HInv, HeapType, Shape
<1>2. /\ data \in Array /\ pos \in [Items -> Slots] /\ member \in SUBSET Items
      /\ Told(data, len, pos, member) /\ Distinct(data, len)
      /\ \A i \in 0..(len - 1) : data[i] \in Items
  BY HeapFacts DEF HInv, HeapType
<1>3. SortedElsewhere(key, data, len, k) /\ ParentFirst(key, data, len, k)
      /\ SortedAt(key, data, len, k)
  BY <1>1 DEF HInv, Shape
<1>4. \A i \in 1..(len - 1) : parent(i) = k <=> i = l \/ i = r
  BY <1>1, Parents
<1>5. \A a, b : less(a, b) <=> Before(key, data[a], data[b])
  BY LessIsBefore
<1>6. CASE s = k
  <2>1. pc' = Idle /\ Settle
    BY <1>6 DEF siftup
  <2>2. ~(l < len /\ less(l, k)) /\ ~(r < len /\ less(r, k))
    BY <1>1, <1>6 DEF smallest
  <2>3. ChildrenAfter(key, data, len, k)
    <3> SUFFICES ASSUME NEW i \in 1..(len - 1), parent(i) = k
                 PROVE  Before(key, data[k], data[i])
      BY DEF ChildrenAfter, Sorted
    <3>1. i < len /\ i \in 0..(len - 1) /\ k \in 0..(len - 1) /\ k # i
      BY <1>1, <1>4
    <3>2. ~Before(key, data[i], data[k])
      BY <1>4, <1>5, <2>2, <3>1
    <3>3. data[i] # data[k]
      BY <1>2, <3>1 DEF Distinct
    <3> QED
      BY <1>1, <1>2, <3>1, <3>2, <3>3, Ordered
  <2>4. AllSorted(key, data, len)
    BY <1>1, <1>2, <1>3, <2>3, SortedAround
  <2>5. \A i \in 0..(len - 1) : data'[i] = data[i]
    BY <1>1, <2>1 DEF Settle
  <2>6. \A x \in member : pos'[x] = pos[x]
    BY <1>2, <2>1 DEF Settle
  <2>7. AllSorted(key, data', len)
    <3> SUFFICES ASSUME NEW i \in 1..(len - 1) PROVE Before(key, data'[parent(i)], data'[i])
      BY DEF AllSorted, Sorted
    <3>1. i \in 0..(len - 1) /\ parent(i) \in 0..(len - 1)
      BY <1>1, Parents
    <3> QED
      BY <2>4, <2>5, <3>1 DEF AllSorted, Sorted
  <2>8. Told(data', len, pos', member)
    BY <1>2, <2>5, <2>6 DEF Told
  <2>9. 0 \in Slots /\ pc'.op = "idle"
        /\ pc' \in [op : {"idle", "insert", "remove", "siftup"}, k : Slots, from : Slots]
    BY <1>1, <2>1 DEF Idle, Slots
  <2>10. data' \in Array /\ pos' \in [Items -> Slots]
    BY <1>1, <1>2, <2>1, <2>9 DEF Settle, Array
  <2>11. HeapType'
    BY <1>1, <2>9, <2>10 DEF HInv, HeapType
  <2>12. Shape'
    BY <1>1, <2>1, <2>7, <2>9 DEF Shape, Idle
  <2> QED
    BY <1>1, <2>8, <2>11, <2>12 DEF HInv
<1>7. CASE s # k
  <2>1. /\ data' = Swapped(data, k, s) /\ pos' = [pos EXCEPT ![data[s]] = k, ![data[k]] = s]
        /\ pc' = [pc EXCEPT !.k = s]
    BY <1>7 DEF siftup, swap, Swapped
  <2>2. /\ s \in 1..(len - 1) /\ s \in 0..(len - 1) /\ k \in 0..(len - 1) /\ s \in Slots
        /\ s < len /\ k # s /\ (s = l \/ s = r)
    BY <1>1, <1>7 DEF smallest
  <2>3. parent(s) = k
    BY <1>4, <2>2
  <2>4. k < len /\ data[k] \in Items /\ data[s] \in Items
        /\ (l < len => data[l] \in Items) /\ (r < len => data[r] \in Items)
    BY <1>1, <1>2, <2>2
  <2>5. Before(key, data[s], data[k])
    <3>1. CASE s = l
      BY <1>1, <1>5, <1>7, <3>1 DEF smallest
    <3>2. CASE s = r /\ l < len /\ less(l, k)
      <4>1. less(r, l) /\ r < len
        BY <1>1, <1>7, <3>2 DEF smallest
      <4> QED
        BY <1>1, <1>5, <2>4, <3>2, <4>1, Ordered
    <3>3. CASE s = r /\ ~(l < len /\ less(l, k))
      BY <1>1, <1>5, <1>7, <3>3 DEF smallest
    <3> QED
      BY <2>2, <3>1, <3>2, <3>3
  <2>6. ASSUME NEW i \in 1..(len - 1), parent(i) = k
        PROVE  ~Before(key, data[i], data[s])
    <3>1. (i = l \/ i = r) /\ i < len /\ data[i] \in Items
      BY <1>1, <1>2, <1>4, <2>6
    <3>2. CASE i = s
      BY <1>1, <3>1, <3>2, Ordered
    <3>3. CASE i = l /\ s = r /\ less(l, k)
      <4>1. less(r, l)
        BY <1>1, <3>1, <3>3 DEF smallest
      <4> QED
        BY <1>1, <1>5, <2>4, <3>1, <3>3, <4>1, Ordered
    <3>4. CASE i = l /\ s = r /\ ~less(l, k)
      <4>1. less(r, k)
        BY <1>5, <2>5, <3>4
      <4>2. ~Before(key, data[l], data[k]) /\ Before(key, data[r], data[k])
        BY <1>5, <3>4, <4>1
      <4> QED
        BY <1>1, <2>4, <3>1, <3>4, <4>2, Ordered
    <3>5. CASE i = r /\ s = l
      <4>1. ~less(r, l)
        BY <1>1, <3>1, <3>5 DEF smallest
      <4> QED
        BY <1>5, <3>5, <4>1
    <3> QED
      BY <2>2, <3>1, <3>2, <3>3, <3>4, <3>5
  <2>7. ~Sorted(key, data, s)
    BY <1>1, <2>3, <2>4, <2>5, Ordered DEF Sorted
  <2> HIDE DEF k, s
  <2>8. Told(data', len, pos', member) /\ data' \in Array /\ pos' \in [Items -> Slots]
    BY <1>1, <1>2, <2>1, <2>2, SwapTold
  <2>9. SortedElsewhere(key, data', len, s) /\ ParentFirst(key, data', len, s)
        /\ SortedAt(key, data', len, s)
    BY <1>1, <1>2, <1>3, <2>1, <2>2, <2>3, <2>6, <2>7, SwapDown
  <2>10. pc'.op = "siftup" /\ pc'.k = s
         /\ pc' \in [op : {"idle", "insert", "remove", "siftup"}, k : Slots, from : Slots]
    BY <1>1, <2>1, <2>2
  <2>11. HeapType'
    BY <1>1, <2>8, <2>10 DEF HInv, HeapType
  <2>12. Shape'
    BY <1>1, <2>2, <2>9, <2>10 DEF Shape
  <2> QED
    BY <1>1, <2>8, <2>11, <2>12 DEF HInv
<1> QED
  BY <1>6, <1>7

-----------------------------------------------------------------------------
(* The theorems                                                            *)

\* HInv holds initially, and every step of heapinsert, heapremove and their
\* loops keeps it.
LEMMA HeapInductive ==
    ASSUME TieBreak
    PROVE  /\ Init => HInv
           /\ HInv /\ [Next]_vars => HInv'
<1>1. ASSUME Init PROVE HInv
  <2>1. 0 \in Slots /\ 0 \in 0..N /\ len = 0 /\ member = {} /\ pc = Idle
    BY <1>1, HeapConstants DEF Init, Slots
  <2>2. HeapType
    BY <1>1, <2>1 DEF Init, HeapType, Array, Idle
  <2>3. Told(data, len, pos, member)
    BY <2>1 DEF Told
  <2>4. Shape
    BY <2>1 DEF Shape, Idle, AllSorted
  <2> QED
    BY <2>1, <2>2, <2>3, <2>4, FS_EmptySet DEF HInv
<1>2. ASSUME HInv, [Next]_vars PROVE HInv'
  <2>1. CASE UNCHANGED vars
    BY <1>2, <2>1 DEF vars, HInv, HeapType, Shape
  <2>2. ASSUME NEW x \in Items, heapinsert(x) PROVE HInv'
    BY <1>2, <2>2, InsertKeeps
  <2>3. ASSUME NEW x \in Items, heapremove(x) PROVE HInv'
    BY <1>2, <2>3, RemoveKeeps
  <2>4. CASE siftdown
    BY <1>2, <2>4, SiftdownKeeps
  <2>5. CASE siftup
    BY <1>2, <2>5, SiftupKeeps
  <2> QED
    BY <1>2, <2>1, <2>2, <2>3, <2>4, <2>5 DEF Next
<1> QED
  BY <1>1, <1>2

\* In every state of the heap of jobs the array is a heap around the cell the
\* running loop is at, and holds every item where the item was told it is.
THEOREM HeapInvariance ==
    ASSUME TieBreak
    PROVE  Spec => []HInv
<1>1. Init => HInv
  BY HeapInductive
<1>2. HInv /\ [Next]_vars => HInv'
  BY HeapInductive
<1> QED
  BY <1>1, <1>2, PTL DEF Spec

\* heapinsert and heapremove leave exactly the items in the array whose owner
\* believes so, each at its own index: removal of a job by heap_index is right.
THEOREM JobsInHeap ==
    ASSUME TieBreak
    PROVE  Spec => []HeapHoldsMembers
<1>1. HInv => HeapHoldsMembers
  <2> SUFFICES ASSUME HInv, pc = Idle
               PROVE  /\ {data[i] : i \in Cells} = member
                      /\ \A x \in member : pos[x] < len /\ data[pos[x]] = x
                      /\ len = Cardinality(member)
    BY DEF HeapHoldsMembers
  <2>1. Cells = 0..(len - 1)
    BY HeapFacts DEF Cells, Slots
  <2>2. len \in Nat /\ Told(data, len, pos, member) /\ len = Cardinality(member)
    BY HeapFacts DEF HInv
  <2>3. \A x \in member : pos[x] \in 0..(len - 1) /\ pos[x] < len /\ data[pos[x]] = x
    BY <2>2 DEF Told
  <2>4. {data[i] : i \in Cells} = member
    BY <2>1, <2>2, <2>3 DEF Told
  <2> QED
    BY <2>2, <2>3, <2>4
<1> QED
  BY <1>1, HeapInvariance, PTL

\* No cell comes before the root of the heap of jobs: process_queue and
\* soonest_delayed_job may look at data[0] only.
THEOREM RootFirstInHeap ==
    ASSUME TieBreak
    PROVE  Spec => []RootIsLeast
<1>1. HInv => RootIsLeast
  <2> SUFFICES ASSUME HInv, pc = Idle, NEW i \in Cells, i > 0
               PROVE  ~less(i, 0)
    BY DEF RootIsLeast
  <2>1. i \in 1..(len - 1) /\ len \in Nat
    BY HeapFacts DEF Cells, Slots
  <2>2. AllSorted(key, data, len)
    BY DEF HInv, Shape, Idle
  <2>3. ~Before(key, data[i], data[0])
    BY <2>1, <2>2, HeapFacts, RootFirst
  <2> QED
    BY <2>3, LessIsBefore
<1> QED
  BY <1>1, HeapInvariance, PTL

=============================================================================
