------------------------------ MODULE TubeProofs ------------------------------
(***************************************************************************)
(* The counts of tube.c are exact and no freed tube is used, for any number*)
(* of connections, jobs, names and tubes.                                  *)
(*                                                                         *)
(* Between commands the count of a tube is the number of pointers to it.   *)
(* Inside a command it is off by the pointers that were changed and not yet*)
(* counted, and by the reference of a local variable.  Each operation on   *)
(* the store is shown to change how far the counts are off (Off, OffUse,   *)
(* OffWatch) by what its comment in the code says, and a reference is only *)
(* dropped when the count is one too high: the tube is then freed exactly  *)
(* when nothing points to it.                                              *)
(***************************************************************************)
EXTENDS TubeRefs, FiniteSetTheorems, TLAPS

-----------------------------------------------------------------------------
(* Multisets                                                               *)

MsOf(X) == [items : Seq(X), last : Nat]

\* No item is in the array twice.
Single(a) == \A i, k \in 1..Len(a.items) : a.items[i] = a.items[k] => i = k

\* ms_append adds one item.
LEMMA MsAppend ==
    ASSUME NEW X, NEW a \in MsOf(X), NEW x \in X
    PROVE  /\ ms_append(a, x) \in MsOf(X)
           /\ \A y : ms_contains(ms_append(a, x), y) <=> ms_contains(a, y) \/ y = x
           /\ Single(a) /\ ~ms_contains(a, x) => Single(ms_append(a, x))
<1> DEFINE b == ms_append(a, x)
           n == Len(a.items)
<1>1. a.items \in Seq(X) /\ n \in Nat /\ a.last \in Nat
  BY DEF MsOf
<1>2. /\ b.items = Append(a.items, x) /\ b.last = a.last /\ b = [items |-> b.items, last |-> b.last]
      /\ Len(b.items) = n + 1 /\ b.items \in Seq(X)
      /\ b.items[n + 1] = x /\ \A i \in 1..n : b.items[i] = a.items[i]
  <2>1. b.items = Append(a.items, x) /\ b.last = a.last /\ b = [items |-> b.items, last |-> b.last]
    <3> DEFINE z == Append(a.items, x)
    <3>1. b = [a EXCEPT !.items = z]
      BY DEF ms_append
    <3> HIDE DEF z, b
    <3>2. b = [items |-> z, last |-> a.last]
      BY <3>1 DEF MsOf
    <3> QED
      BY <3>2 DEF z
  <2> HIDE DEF b
  <2> QED
    BY <1>1, <2>1
<1>3. b \in MsOf(X)
  BY <1>1, <1>2 DEF MsOf
<1> HIDE DEF b
<1>4. \A y : ms_contains(b, y) <=> ms_contains(a, y) \/ y = x
  <2> SUFFICES ASSUME NEW y PROVE ms_contains(b, y) <=> ms_contains(a, y) \/ y = x
    OBVIOUS
  <2>1. ASSUME NEW i \in 1..(n + 1), b.items[i] = y PROVE ms_contains(a, y) \/ y = x
    BY <1>1, <1>2, <2>1 DEF ms_contains, Contains
  <2>2. ASSUME NEW i \in 1..n, a.items[i] = y PROVE ms_contains(b, y)
    BY <1>1, <1>2, <2>2 DEF ms_contains, Contains
  <2>3. ASSUME y = x PROVE ms_contains(b, y)
    BY <1>1, <1>2, <2>3 DEF ms_contains, Contains
  <2> QED
    BY <1>2, <2>1, <2>2, <2>3 DEF ms_contains, Contains
<1>5. ASSUME Single(a), ~ms_contains(a, x) PROVE Single(b)
  <2> SUFFICES ASSUME NEW i \in 1..(n + 1), NEW k \in 1..(n + 1), b.items[i] = b.items[k]
               PROVE  i = k
    BY <1>2 DEF Single
  <2>1. \A h \in 1..n : a.items[h] # x
    BY <1>5 DEF ms_contains, Contains
  <2> QED
    BY <1>1, <1>2, <1>5, <2>1 DEF Single
<1> QED
  BY <1>3, <1>4, <1>5 DEF b

\* ms_delete removes the item of one cell, although it moves another.
LEMMA MsDelete ==
    ASSUME NEW X, NEW a \in MsOf(X), NEW i \in 0..(Len(a.items) - 1), Single(a)
    PROVE  /\ ms_delete(a, i) \in MsOf(X)
           /\ ms_delete(a, i).last = a.last
           /\ \A y : ms_contains(ms_delete(a, i), y) <=> ms_contains(a, y) /\ y # a.items[i + 1]
           /\ Single(ms_delete(a, i))
<1> DEFINE b == ms_delete(a, i)
           n == Len(a.items)
<1>1. a.items \in Seq(X) /\ n \in Nat /\ a.last \in Nat /\ i \in Nat /\ i + 1 \in 1..n /\ n - 1 \in Nat
      /\ \A k \in 1..n : a.items[k] \in X
  BY DEF MsOf
<1>2. /\ b.items = [k \in 1..(n - 1) |-> IF k = i + 1 THEN a.items[n] ELSE a.items[k]]
      /\ b.last = a.last /\ b = [items |-> b.items, last |-> b.last]
  BY DEF MsOf, ms_delete
<1>3. /\ Len(b.items) = n - 1 /\ b.items \in Seq(X)
      /\ \A k \in 1..(n - 1) : b.items[k] = IF k = i + 1 THEN a.items[n] ELSE a.items[k]
  BY <1>1, <1>2
<1>4. b \in MsOf(X)
  BY <1>1, <1>2, <1>3 DEF MsOf
<1> HIDE DEF b
<1>5. \A y : ms_contains(b, y) <=> ms_contains(a, y) /\ y # a.items[i + 1]
  <2>1. ASSUME NEW k \in 1..(n - 1) PROVE ms_contains(a, b.items[k]) /\ b.items[k] # a.items[i + 1]
    BY <1>1, <1>3 DEF ms_contains, Contains, Single
  <2>2. ASSUME NEW k \in 1..n, a.items[k] # a.items[i + 1] PROVE ms_contains(b, a.items[k])
    <3>1. CASE k = n
      <4>1. i + 1 \in 1..(n - 1)
        BY <1>1, <2>2, <3>1
      <4> QED
        BY <1>3, <3>1, <4>1 DEF ms_contains, Contains
    <3>2. CASE k # n
      <4>1. k \in 1..(n - 1) /\ k # i + 1
        BY <1>1, <2>2, <3>2
      <4> QED
        BY <1>3, <4>1 DEF ms_contains, Contains
    <3> QED
      BY <3>1, <3>2
  <2> QED
    BY <1>3, <2>1, <2>2 DEF ms_contains, Contains
<1>6. Single(b)
  <2> SUFFICES ASSUME NEW j \in 1..(n - 1), NEW k \in 1..(n - 1), b.items[j] = b.items[k]
               PROVE  j = k
    BY <1>3 DEF Single
  <2> DEFINE g(h) == IF h = i + 1 THEN n ELSE h
  <2>1. g(j) \in 1..n /\ g(k) \in 1..n
    BY <1>1
  <2>3. b.items[j] = a.items[g(j)] /\ b.items[k] = a.items[g(k)]
    BY <1>3
  <2>2. g(j) = g(k)
    BY <2>1, <2>3 DEF Single
  <2> QED
    BY <1>1, <2>2
<1> QED
  BY <1>2, <1>4, <1>5, <1>6 DEF b

\* ms_remove removes its item, if it is there, and no other.
LEMMA MsRemove ==
    ASSUME NEW X, NEW a \in MsOf(X), NEW x, Single(a)
    PROVE  /\ ms_remove(a, x) \in MsOf(X)
           /\ \A y : ms_contains(ms_remove(a, x), y) <=> ms_contains(a, y) /\ y # x
           /\ Single(ms_remove(a, x))
<1>1. CASE ~ms_contains(a, x)
  <2>1. ms_remove(a, x) = a
    BY <1>1 DEF ms_remove
  <2> QED
    BY <1>1, <2>1
<1>2. CASE ms_contains(a, x)
  <2> DEFINE P(i) == a.items[i] = x /\ \A h \in 1..(i - 1) : a.items[h] # x
             i == CHOOSE i \in 1..Len(a.items) : P(i)
  <2>1. Len(a.items) \in Nat
    BY DEF MsOf
  <2>2. PICK k \in 1..Len(a.items) : a.items[k] = x
    BY <1>2 DEF ms_contains, Contains
  <2>3. P(k)
    BY <2>1, <2>2 DEF Single
  <2>4. i \in 1..Len(a.items) /\ a.items[i] = x
    BY <2>3
  <2>5. ms_remove(a, x) = ms_delete(a, i - 1)
    BY <1>2 DEF ms_remove
  <2> HIDE DEF i
  <2>6. i - 1 \in 0..(Len(a.items) - 1) /\ a.items[(i - 1) + 1] = x
    BY <2>1, <2>4
  <2> QED
    BY <2>5, <2>6, MsDelete
<1> QED
  BY <1>1, <1>2

\* ms_take takes one of the items, wherever the cursor was.
LEMMA MsTake ==
    ASSUME NEW X, NEW a \in MsOf(X), a.items # <<>>, Single(a)
    PROVE  /\ ms_take(a) \in MsOf(X)
           /\ ms_taken(a) \in X /\ ms_contains(a, ms_taken(a))
           /\ \A y : ms_contains(ms_take(a), y) <=> ms_contains(a, y) /\ y # ms_taken(a)
           /\ Single(ms_take(a))
<1> DEFINE n == Len(a.items)
           i == Cursor(a)
           b == ms_delete(a, i)
<1>1. a.items \in Seq(X) /\ n \in Nat /\ n > 0 /\ a.last \in Nat
  BY DEF MsOf
<1>2. i \in 0..(n - 1)
  BY <1>1 DEF Cursor
<1> HIDE DEF i, n
<1>3. ms_taken(a) \in X /\ ms_contains(a, ms_taken(a)) /\ ms_taken(a) = a.items[i + 1]
  BY <1>1, <1>2 DEF ms_taken, ms_contains, Contains, i, n
<1>4. /\ b \in MsOf(X) /\ Single(b)
      /\ \A y : ms_contains(b, y) <=> ms_contains(a, y) /\ y # a.items[i + 1]
  BY <1>2, MsDelete DEF n
<1>5. ms_take(a) = [b EXCEPT !.last = i + 1]
  BY DEF ms_take, i
<1> HIDE DEF b
<1>6. ms_take(a) \in MsOf(X) /\ ms_take(a).items = b.items
  BY <1>2, <1>4, <1>5 DEF MsOf
<1> QED
  BY <1>3, <1>4, <1>6 DEF ms_contains, Single

\* The first item is one of them.
LEMMA MsFirst ==
    ASSUME NEW X, NEW a \in MsOf(X), a.items # <<>>
    PROVE  0 \in 0..(Len(a.items) - 1) /\ a.items[1] \in X /\ ms_contains(a, a.items[1])
<1>1. Len(a.items) \in Nat /\ Len(a.items) > 0 /\ a.items \in Seq(X)
  BY DEF MsOf
<1> QED
  BY <1>1 DEF ms_contains, Contains

-----------------------------------------------------------------------------
(* The store                                                               *)

TubeRec == [name : AnyName \cup {"none"}, refs : Int, using_ct : Int, watching_ct : Int,
            waiting_conns : MsOf(Conns), waiting_ct : Int]

ConnRec == [open : BOOLEAN, use : Tubes \cup {Nil}, watch : MsOf(Tubes), waiting : BOOLEAN,
            in_job : Tubes \cup {Nil}, out_job : Tubes \cup {Nil}]

Store == [tube : [Tubes -> TubeRec], made : 1..MaxTubes, freed : SUBSET Tubes,
          tubes : MsOf(Tubes), conn : [Conns -> ConnRec], job : [Jobs -> Tubes \cup {Nil}],
          unlisted : SUBSET (Conns \X Tubes), closing : SUBSET Conns, wild : BOOLEAN]

\* Freed tubes are blank, and so are those to come.
Blank(st) == \A t \in Tubes : /\ (t \in st.freed \/ t > st.made) => st.tube[t] = NoTube
                              /\ t \in st.freed => t <= st.made

\* The array has the tubes with references, each once, under different names.
Listed(st) ==
    /\ Single(st.tubes)
    /\ \A t \in Tubes : ms_contains(st.tubes, t) <=> st.tube[t].refs > 0
    /\ \A t, u \in Tubes : /\ ms_contains(st.tubes, t) /\ ms_contains(st.tubes, u)
                           /\ st.tube[t].name = st.tube[u].name
                           => t = u

\* What holds of a connection, whether it is closing or not.
ConnOK(k, closing) ==
    /\ Single(k.watch)
    /\ k.open = TRUE => k.use \in Tubes
    /\ closing => k.open = TRUE /\ k.waiting = FALSE /\ k.in_job = Nil /\ k.out_job = Nil

Waits(st, c, t) == ms_contains(st.conn[c].watch, t) /\ st.conn[c].waiting = TRUE

Waiters(st, t) == {c \in Conns : Waits(st, c, t)}

\* The tubes know who waits for them, but for appends that failed.
WaitOK(st) ==
    /\ \A t \in Tubes :
        /\ Single(st.tube[t].waiting_conns)
        /\ st.tube[t].waiting_ct = Cardinality(Waiters(st, t))
        /\ \A c \in Conns : ms_contains(st.tube[t].waiting_conns, c)
                                <=> Waits(st, c, t) /\ <<c, t>> \notin st.unlisted
    /\ \A c \in Conns, t \in Tubes : <<c, t>> \in st.unlisted => st.conn[c].waiting = TRUE

Sound(st) ==
    /\ st \in Store
    /\ st.wild = FALSE
    /\ Blank(st)
    /\ Listed(st)
    /\ \A c \in Conns : ConnOK(st.conn[c], c \in st.closing)
    /\ WaitOK(st)

\* How far the counts of tube t are off.
Off(st, t) == st.tube[t].refs - References(st, t)
OffUse(st, t) == st.tube[t].using_ct - Cardinality(UsedBy(st, t))
OffWatch(st, t) == st.tube[t].watching_ct - Cardinality(WatchedBy(st, t))

One(b) == IF b THEN 1 ELSE 0

\* Between commands the counts are right.
Exact(st) ==
    /\ Sound(st)
    /\ \A t \in Tubes : Off(st, t) = 0 /\ OffUse(st, t) = 0 /\ OffWatch(st, t) = 0

\* The inductive invariant.
TInv == Exact(s)

\* Nil is no tube; the default tube is one.
LEMMA TubeNumbers ==
    /\ Nil \notin Tubes /\ Default \in Tubes
    /\ \A t \in Tubes : t \in Nat /\ t # 0
BY BoundAssumption DEF Tubes, Nil, Default

\* Counts of finite sets are naturals.
LEMMA RefTypes ==
    ASSUME NEW st, NEW t
    PROVE  /\ Cardinality(UsedBy(st, t)) \in Nat /\ Cardinality(WatchedBy(st, t)) \in Nat
           /\ Cardinality(JobsOf(st, t)) \in Nat /\ Cardinality(ReadBy(st, t)) \in Nat
           /\ Cardinality(CopiedBy(st, t)) \in Nat /\ Cardinality(Waiters(st, t)) \in Nat
           /\ References(st, t) \in Nat
           /\ (t = Default => References(st, t) > 0)
<1>1. \A S : S \subseteq Conns \/ S \subseteq Jobs => Cardinality(S) \in Nat
  BY FiniteAssumption, FS_Subset, FS_CardinalityType
<1>2. /\ UsedBy(st, t) \subseteq Conns /\ WatchedBy(st, t) \subseteq Conns
      /\ JobsOf(st, t) \subseteq Jobs /\ ReadBy(st, t) \subseteq Conns
      /\ CopiedBy(st, t) \subseteq Conns /\ Waiters(st, t) \subseteq Conns
  BY DEF UsedBy, WatchedBy, JobsOf, ReadBy, CopiedBy, Waiters
<1>3. /\ Cardinality(UsedBy(st, t)) \in Nat /\ Cardinality(WatchedBy(st, t)) \in Nat
      /\ Cardinality(JobsOf(st, t)) \in Nat /\ Cardinality(ReadBy(st, t)) \in Nat
      /\ Cardinality(CopiedBy(st, t)) \in Nat /\ Cardinality(Waiters(st, t)) \in Nat
  BY <1>1, <1>2
<1> QED
  BY <1>3 DEF References

\* Two sets that differ in one element at most.
LEMMA OneDiffers ==
    ASSUME NEW S, IsFiniteSet(S), NEW c \in S, NEW X, X \subseteq S, NEW Y, Y \subseteq S,
           \A x \in S \ {c} : x \in X <=> x \in Y
    PROVE  Cardinality(Y) = Cardinality(X) + One(c \in Y) - One(c \in X)
<1>1. IsFiniteSet(X) /\ IsFiniteSet(Y) /\ Cardinality(X) \in Nat /\ Cardinality(Y) \in Nat
  BY FS_Subset, FS_CardinalityType
<1>2. CASE c \in X <=> c \in Y
  <2>1. X = Y
    BY <1>2
  <2> QED
    BY <1>1, <2>1 DEF One
<1>3. CASE c \in Y /\ c \notin X
  <2>1. Y = X \cup {c}
    BY <1>3
  <2>2. Cardinality(X \cup {c}) = Cardinality(X) + 1
    BY <1>1, <1>3, FS_AddElement
  <2> QED
    BY <1>1, <1>3, <2>1, <2>2 DEF One
<1>4. CASE c \in X /\ c \notin Y
  <2>1. X = Y \cup {c}
    BY <1>4
  <2>2. Cardinality(Y \cup {c}) = Cardinality(Y) + 1
    BY <1>1, <1>4, FS_AddElement
  <2> QED
    BY <1>1, <1>4, <2>1, <2>2 DEF One
<1> QED
  BY <1>2, <1>3, <1>4

-----------------------------------------------------------------------------
(* References taken and dropped                                            *)

\* The pointers are the same in both stores.
SamePointers(r, st) ==
    r.conn = st.conn /\ r.job = st.job /\ r.closing = st.closing /\ r.unlisted = st.unlisted

\* From st to r the counts of tube t, and no others, move away by these numbers.
Shifted(r, st, t, refs, using, watching) ==
    \A x \in Tubes :
        /\ Off(r, x) = Off(st, x) + (IF x = t THEN refs ELSE 0)
        /\ OffUse(r, x) = OffUse(st, x) + (IF x = t THEN using ELSE 0)
        /\ OffWatch(r, x) = OffWatch(st, x) + (IF x = t THEN watching ELSE 0)

Counted(e, refs, using, watching) ==
    [e EXCEPT !.refs = @ + refs, !.using_ct = @ + using, !.watching_ct = @ + watching]

\* The counts of t changed, and nothing else.
Recounted(r, st, t, refs, using, watching) ==
    /\ Sound(r) /\ SamePointers(r, st) /\ Shifted(r, st, t, refs, using, watching)
    /\ r.tubes = st.tubes /\ r.made = st.made
    /\ \A x \in Tubes : /\ r.tube[x].refs = st.tube[x].refs + (IF x = t THEN refs ELSE 0)
                         /\ r.tube[x].name = st.tube[x].name

\* What points to a tube depends on the pointers only.
LEMMA SameReferences ==
    ASSUME NEW r, NEW st, SamePointers(r, st), NEW t
    PROVE  /\ References(r, t) = References(st, t)
           /\ UsedBy(r, t) = UsedBy(st, t) /\ WatchedBy(r, t) = WatchedBy(st, t)
           /\ Waiters(r, t) = Waiters(st, t)
<1>1. /\ UsedBy(r, t) = UsedBy(st, t) /\ WatchedBy(r, t) = WatchedBy(st, t)
      /\ JobsOf(r, t) = JobsOf(st, t) /\ ReadBy(r, t) = ReadBy(st, t)
      /\ CopiedBy(r, t) = CopiedBy(st, t) /\ Waiters(r, t) = Waiters(st, t)
  BY DEF SamePointers, UsedBy, WatchedBy, JobsOf, ReadBy, CopiedBy, Waiters, Waits
<1> QED
  BY <1>1 DEF References

\* A tube with references is there.
LEMMA Present ==
    ASSUME NEW st, Sound(st), NEW t \in Tubes, st.tube[t].refs > 0
    PROVE  t \notin st.freed /\ t <= st.made /\ ms_contains(st.tubes, t)
<1>1. st.tube[t] # NoTube
  BY DEF NoTube
<1>2. t \in Nat /\ st.made \in Nat
  BY BoundAssumption, TubeNumbers DEF Sound, Store
<1> QED
  BY <1>1, <1>2 DEF Sound, Blank, Listed

\* The counts of a tube that keeps a reference change.
LEMMA CountStep ==
    ASSUME NEW st, Sound(st), NEW t \in Tubes, st.tube[t].refs > 0,
           NEW a \in Int, NEW b \in Int, NEW d \in Int, st.tube[t].refs + a > 0,
           NEW r, r = [st EXCEPT !.tube[t] = Counted(st.tube[t], a, b, d)]
    PROVE  Recounted(r, st, t, a, b, d)
<1> DEFINE e == Counted(st.tube[t], a, b, d)
<1>0. st \in Store /\ st.tube[t] \in TubeRec /\ st.tube \in [Tubes -> TubeRec]
  BY DEF Sound, Store
<1>1. /\ e \in TubeRec /\ e.name = st.tube[t].name /\ e.waiting_conns = st.tube[t].waiting_conns
      /\ e.waiting_ct = st.tube[t].waiting_ct /\ e.refs = st.tube[t].refs + a
      /\ e.using_ct = st.tube[t].using_ct + b /\ e.watching_ct = st.tube[t].watching_ct + d
  <2> DEFINE f == st.tube[t]
  <2>1. f \in TubeRec
    BY <1>0
  <2> HIDE DEF f
  <2> DEFINE x == f.refs + a
             y == f.using_ct + b
             z == f.watching_ct + d
  <2>3. x \in Int /\ y \in Int /\ z \in Int
    BY <2>1 DEF TubeRec
  <2>4. Counted(f, a, b, d) = [f EXCEPT !.refs = x, !.using_ct = y, !.watching_ct = z]
    <3>1. [f EXCEPT !.refs = x].using_ct = f.using_ct
      BY <2>1 DEF TubeRec
    <3>2. [f EXCEPT !.refs = x, !.using_ct = y].watching_ct = f.watching_ct
      BY <2>1 DEF TubeRec
    <3> QED
      BY <3>1, <3>2 DEF Counted
  <2> HIDE DEF x, y, z
  <2>5. Counted(f, a, b, d) \in TubeRec
    BY <2>1, <2>3, <2>4 DEF TubeRec
  <2>6. /\ Counted(f, a, b, d).name = f.name /\ Counted(f, a, b, d).waiting_conns = f.waiting_conns
        /\ Counted(f, a, b, d).waiting_ct = f.waiting_ct /\ Counted(f, a, b, d).refs = x
        /\ Counted(f, a, b, d).using_ct = y /\ Counted(f, a, b, d).watching_ct = z
    BY <2>1, <2>4 DEF TubeRec
  <2> QED
    BY <2>5, <2>6 DEF f, x, y, z
<1> HIDE DEF e
<1>2. r = [st EXCEPT !.tube[t] = e]
  BY DEF e
<1>3. /\ r \in Store /\ r.tube = [st.tube EXCEPT ![t] = e]
      /\ r.conn = st.conn /\ r.job = st.job /\ r.closing = st.closing /\ r.unlisted = st.unlisted
      /\ r.tubes = st.tubes /\ r.made = st.made /\ r.freed = st.freed /\ r.wild = st.wild
  BY <1>0, <1>1, <1>2 DEF Store
<1>4. r.tube[t] = e /\ \A x \in Tubes : x # t => r.tube[x] = st.tube[x]
  BY <1>0, <1>3
<1>5. SamePointers(r, st)
  BY <1>3 DEF SamePointers
<1>6. Blank(r)
  <2>1. t \notin st.freed /\ t <= st.made /\ t \in Nat /\ st.made \in Nat
    BY <1>0, BoundAssumption, Present, TubeNumbers DEF Store
  <2> QED
    BY <1>3, <1>4, <2>1 DEF Sound, Blank
<1>7. Listed(r)
  <2>1. ms_contains(st.tubes, t) /\ e.refs > 0
    BY <1>1, Present
  <2>2. \A x \in Tubes : r.tube[x].name = st.tube[x].name
    BY <1>1, <1>4
  <2>3. \A x \in Tubes : ms_contains(r.tubes, x) <=> r.tube[x].refs > 0
    BY <1>3, <1>4, <2>1 DEF Sound, Listed
  <2> QED
    BY <1>3, <2>2, <2>3 DEF Sound, Listed
<1>8. WaitOK(r)
  <2>1. \A x \in Tubes : /\ r.tube[x].waiting_conns = st.tube[x].waiting_conns
                         /\ r.tube[x].waiting_ct = st.tube[x].waiting_ct
                         /\ Waiters(r, x) = Waiters(st, x)
    BY <1>1, <1>4, <1>5, SameReferences
  <2> QED
    BY <1>3, <2>1 DEF Sound, WaitOK, Waits
<1>9. Sound(r)
  BY <1>3, <1>6, <1>7, <1>8 DEF Sound
<1>10. \A x \in Tubes : /\ r.tube[x].refs = st.tube[x].refs + (IF x = t THEN a ELSE 0)
                         /\ r.tube[x].name = st.tube[x].name
  BY <1>0, <1>1, <1>4 DEF TubeRec
<1>11. Shifted(r, st, t, a, b, d)
  <2> SUFFICES ASSUME NEW x \in Tubes
               PROVE  /\ Off(r, x) = Off(st, x) + (IF x = t THEN a ELSE 0)
                      /\ OffUse(r, x) = OffUse(st, x) + (IF x = t THEN b ELSE 0)
                      /\ OffWatch(r, x) = OffWatch(st, x) + (IF x = t THEN d ELSE 0)
    BY DEF Shifted
  <2>1. /\ References(r, x) = References(st, x) /\ References(st, x) \in Nat
        /\ UsedBy(r, x) = UsedBy(st, x) /\ Cardinality(UsedBy(st, x)) \in Nat
        /\ WatchedBy(r, x) = WatchedBy(st, x) /\ Cardinality(WatchedBy(st, x)) \in Nat
    BY <1>5, SameReferences, RefTypes
  <2>2. st.tube[x].refs \in Int /\ st.tube[x].using_ct \in Int /\ st.tube[x].watching_ct \in Int
    BY <1>0 DEF TubeRec
  <2>3. CASE x = t
    BY <1>1, <1>4, <2>1, <2>2, <2>3 DEF Off, OffUse, OffWatch
  <2>4. CASE x # t
    BY <1>4, <2>1, <2>2, <2>4 DEF Off, OffUse, OffWatch
  <2> QED
    BY <2>3, <2>4
<1> QED
  BY <1>3, <1>5, <1>9, <1>10, <1>11 DEF Recounted

\* tube_iref, and the counters using_ct and watching_ct.
LEMMA Counting ==
    ASSUME NEW st, Sound(st), NEW t \in Tubes, st.tube[t].refs > 0
    PROVE  /\ tube_iref(st, t) = [st EXCEPT !.tube[t] = Counted(st.tube[t], 1, 0, 0)]
           /\ Touch(st, t, [st.tube[t] EXCEPT !.refs = @ - 1])
                = [st EXCEPT !.tube[t] = Counted(st.tube[t], -1, 0, 0)]
           /\ Touch(st, t, [st.tube[t] EXCEPT !.using_ct = @ + 1])
                = [st EXCEPT !.tube[t] = Counted(st.tube[t], 0, 1, 0)]
           /\ Touch(st, t, [st.tube[t] EXCEPT !.using_ct = @ - 1])
                = [st EXCEPT !.tube[t] = Counted(st.tube[t], 0, -1, 0)]
           /\ Touch(st, t, [st.tube[t] EXCEPT !.watching_ct = @ + 1])
                = [st EXCEPT !.tube[t] = Counted(st.tube[t], 0, 0, 1)]
           /\ Touch(st, t, [st.tube[t] EXCEPT !.watching_ct = @ - 1])
                = [st EXCEPT !.tube[t] = Counted(st.tube[t], 0, 0, -1)]
<1> DEFINE e == st.tube[t]
<1>1. t \notin st.freed /\ t # Nil /\ e \in TubeRec
  BY Present, TubeNumbers DEF Sound, Store
<1> HIDE DEF e
<1>2. /\ [e EXCEPT !.refs = @ + 1] = Counted(e, 1, 0, 0)
      /\ [e EXCEPT !.refs = @ - 1] = Counted(e, -1, 0, 0)
      /\ [e EXCEPT !.using_ct = @ + 1] = Counted(e, 0, 1, 0)
      /\ [e EXCEPT !.using_ct = @ - 1] = Counted(e, 0, -1, 0)
      /\ [e EXCEPT !.watching_ct = @ + 1] = Counted(e, 0, 0, 1)
      /\ [e EXCEPT !.watching_ct = @ - 1] = Counted(e, 0, 0, -1)
  <2>1. e = [name |-> e.name, refs |-> e.refs, using_ct |-> e.using_ct,
             watching_ct |-> e.watching_ct, waiting_conns |-> e.waiting_conns,
             waiting_ct |-> e.waiting_ct]
    BY <1>1 DEF TubeRec
  <2>2. e.refs \in Int /\ e.using_ct \in Int /\ e.watching_ct \in Int
    BY <1>1 DEF TubeRec
  <2>3. e.refs + 0 = e.refs /\ e.using_ct + 0 = e.using_ct /\ e.watching_ct + 0 = e.watching_ct
        /\ e.refs + (-1) = e.refs - 1
        /\ e.using_ct + (-1) = e.using_ct - 1 /\ e.watching_ct + (-1) = e.watching_ct - 1
    BY <2>2
  <2> QED
    BY <2>1, <2>3 DEF Counted
<1> QED
  BY <1>1, <1>2 DEF e, tube_iref, Touch

\* A tube is taken while it has a reference.
LEMMA TakeRef ==
    ASSUME NEW st, Sound(st), NEW t \in Tubes, st.tube[t].refs > 0
    PROVE  Recounted(tube_iref(st, t), st, t, 1, 0, 0)
<1>1. tube_iref(st, t) = [st EXCEPT !.tube[t] = Counted(st.tube[t], 1, 0, 0)]
  BY Counting
<1>2. st.tube[t].refs + 1 > 0 /\ 0 \in Int /\ 1 \in Int
  BY DEF Sound, Store, TubeRec
<1> QED
  BY <1>1, <1>2, CountStep

\* The distances are numbers, and a tube that something points to is there.
LEMMA Distances ==
    ASSUME NEW st, Sound(st), NEW t \in Tubes
    PROVE  /\ Off(st, t) \in Int /\ OffUse(st, t) \in Int /\ OffWatch(st, t) \in Int
           /\ st.tube[t].refs = Off(st, t) + References(st, t)
<1>1. st.tube[t].refs \in Int /\ st.tube[t].using_ct \in Int /\ st.tube[t].watching_ct \in Int
  BY DEF Sound, Store, TubeRec
<1> QED
  BY <1>1, RefTypes DEF Off, OffUse, OffWatch

\* The references of one connection to tube t.
Weight(k, t) ==
    One(k.use = t) + One(ms_contains(k.watch, t)) + One(k.in_job = t) + One(k.out_job = t)

\* Whatever points to a tube is counted.
LEMMA Pointed ==
    ASSUME NEW st, NEW t,
           \/ \E c \in Conns : Weight(st.conn[c], t) > 0
           \/ \E j \in Jobs : st.job[j] = t
           \/ t = Default
    PROVE  References(st, t) > 0
<1>1. /\ Cardinality(UsedBy(st, t)) \in Nat /\ Cardinality(WatchedBy(st, t)) \in Nat
      /\ Cardinality(JobsOf(st, t)) \in Nat /\ Cardinality(ReadBy(st, t)) \in Nat
      /\ Cardinality(CopiedBy(st, t)) \in Nat
  BY RefTypes
<1>2. \A S : (S \subseteq Conns \/ S \subseteq Jobs) /\ Cardinality(S) = 0 => S = {}
  BY FiniteAssumption, FS_Subset, FS_EmptySet
<1>3. ASSUME NEW c \in Conns, Weight(st.conn[c], t) > 0
      PROVE  c \in UsedBy(st, t) \/ c \in WatchedBy(st, t) \/ c \in ReadBy(st, t) \/ c \in CopiedBy(st, t)
  BY <1>3 DEF Weight, One, UsedBy, WatchedBy, ReadBy, CopiedBy
<1>4. ASSUME NEW j \in Jobs, st.job[j] = t PROVE j \in JobsOf(st, t)
  BY <1>4 DEF JobsOf
<1>5. /\ UsedBy(st, t) \subseteq Conns /\ WatchedBy(st, t) \subseteq Conns
      /\ JobsOf(st, t) \subseteq Jobs /\ ReadBy(st, t) \subseteq Conns
      /\ CopiedBy(st, t) \subseteq Conns
  BY DEF UsedBy, WatchedBy, JobsOf, ReadBy, CopiedBy
<1>6. References(st, t) \in Nat /\ (t = Default => References(st, t) > 0)
  BY RefTypes
<1>7. ASSUME References(st, t) = 0
      PROVE  /\ UsedBy(st, t) = {} /\ WatchedBy(st, t) = {} /\ JobsOf(st, t) = {}
             /\ ReadBy(st, t) = {} /\ CopiedBy(st, t) = {} /\ t # Default
  <2>1. /\ Cardinality(UsedBy(st, t)) = 0 /\ Cardinality(WatchedBy(st, t)) = 0
        /\ Cardinality(JobsOf(st, t)) = 0 /\ Cardinality(ReadBy(st, t)) = 0
        /\ Cardinality(CopiedBy(st, t)) = 0
    BY <1>1, <1>7 DEF References
  <2> QED
    BY <1>2, <1>5, <1>6, <1>7, <2>1
<1> QED
  BY <1>3, <1>4, <1>6, <1>7

-----------------------------------------------------------------------------
(* Pointers that change                                                    *)

\* A connection's fields change, those about waiting apart: the references it
\* had are counted still, and those it has now are not yet.
Repointed(r, st, c, k) ==
    /\ Sound(r)
    /\ r.tube = st.tube /\ r.tubes = st.tubes /\ r.made = st.made /\ r.freed = st.freed
    /\ r.job = st.job /\ r.closing = st.closing /\ r.unlisted = st.unlisted
    /\ r.conn = [st.conn EXCEPT ![c] = k]
    /\ \A x \in Tubes :
        /\ Off(r, x) = Off(st, x) + Weight(st.conn[c], x) - Weight(k, x)
        /\ OffUse(r, x) = OffUse(st, x) + One(st.conn[c].use = x) - One(k.use = x)
        /\ OffWatch(r, x) = OffWatch(st, x) + One(ms_contains(st.conn[c].watch, x))
                                            - One(ms_contains(k.watch, x))

LEMMA ConnSet ==
    ASSUME NEW st, Sound(st), NEW c \in Conns, NEW k \in ConnRec, ConnOK(k, c \in st.closing),
           k.waiting = st.conn[c].waiting, k.watch = st.conn[c].watch \/ k.waiting = FALSE,
           NEW r, r = [st EXCEPT !.conn[c] = k]
    PROVE  Repointed(r, st, c, k)
<1>0. st \in Store /\ st.conn \in [Conns -> ConnRec] /\ IsFiniteSet(Conns)
  BY FiniteAssumption DEF Sound, Store
<1>1. /\ r \in Store /\ r.conn = [st.conn EXCEPT ![c] = k]
      /\ r.tube = st.tube /\ r.tubes = st.tubes /\ r.made = st.made /\ r.freed = st.freed
      /\ r.job = st.job /\ r.closing = st.closing /\ r.unlisted = st.unlisted /\ r.wild = st.wild
  BY <1>0 DEF Store
<1>2. r.conn[c] = k /\ \A d \in Conns : d # c => r.conn[d] = st.conn[d]
  BY <1>0, <1>1
<1>3. \A d \in Conns, t \in Tubes : Waits(r, d, t) <=> Waits(st, d, t)
  <2> SUFFICES ASSUME NEW d \in Conns, NEW t \in Tubes PROVE Waits(r, d, t) <=> Waits(st, d, t)
    OBVIOUS
  <2>1. CASE d = c
    BY <1>2, <2>1 DEF Waits
  <2>2. CASE d # c
    BY <1>2, <2>2 DEF Waits
  <2> QED
    BY <2>1, <2>2
<1>4. WaitOK(r)
  <2>1. \A t \in Tubes : Waiters(r, t) = Waiters(st, t)
    BY <1>3 DEF Waiters
  <2>2. \A d \in Conns : r.conn[d].waiting = st.conn[d].waiting
    BY <1>2
  <2> QED
    BY <1>1, <1>3, <2>1, <2>2 DEF Sound, WaitOK
<1>5. Sound(r)
  <2>1. \A d \in Conns : ConnOK(r.conn[d], d \in r.closing)
    BY <1>1, <1>2 DEF Sound
  <2>2. Blank(r) /\ Listed(r)
    BY <1>1 DEF Sound, Blank, Listed
  <2> QED
    BY <1>1, <1>4, <2>1, <2>2 DEF Sound
<1>6. ASSUME NEW x \in Tubes
      PROVE  /\ Off(r, x) = Off(st, x) + Weight(st.conn[c], x) - Weight(k, x)
             /\ OffUse(r, x) = OffUse(st, x) + One(st.conn[c].use = x) - One(k.use = x)
             /\ OffWatch(r, x) = OffWatch(st, x) + One(ms_contains(st.conn[c].watch, x))
                                                 - One(ms_contains(k.watch, x))
  <2>1. Cardinality(UsedBy(r, x)) = Cardinality(UsedBy(st, x)) + One(k.use = x) - One(st.conn[c].use = x)
    <3>1. UsedBy(r, x) \subseteq Conns /\ UsedBy(st, x) \subseteq Conns
      BY DEF UsedBy
    <3>2. \A d \in Conns \ {c} : d \in UsedBy(st, x) <=> d \in UsedBy(r, x)
      BY <1>2 DEF UsedBy
    <3>3. (c \in UsedBy(r, x) <=> k.use = x) /\ (c \in UsedBy(st, x) <=> st.conn[c].use = x)
      BY <1>2 DEF UsedBy
    <3>4. Cardinality(UsedBy(r, x)) = Cardinality(UsedBy(st, x)) + One(c \in UsedBy(r, x)) - One(c \in UsedBy(st, x))
      BY <1>0, <3>1, <3>2, OneDiffers
    <3> QED
      BY <3>3, <3>4 DEF One
  <2>2. Cardinality(WatchedBy(r, x)) = Cardinality(WatchedBy(st, x))
                + One(ms_contains(k.watch, x)) - One(ms_contains(st.conn[c].watch, x))
    <3>1. WatchedBy(r, x) \subseteq Conns /\ WatchedBy(st, x) \subseteq Conns
      BY DEF WatchedBy
    <3>2. \A d \in Conns \ {c} : d \in WatchedBy(st, x) <=> d \in WatchedBy(r, x)
      BY <1>2 DEF WatchedBy
    <3>3. /\ c \in WatchedBy(r, x) <=> ms_contains(k.watch, x)
          /\ c \in WatchedBy(st, x) <=> ms_contains(st.conn[c].watch, x)
      BY <1>2 DEF WatchedBy
    <3>4. Cardinality(WatchedBy(r, x)) = Cardinality(WatchedBy(st, x)) + One(c \in WatchedBy(r, x)) - One(c \in WatchedBy(st, x))
      BY <1>0, <3>1, <3>2, OneDiffers
    <3> QED
      BY <3>3, <3>4 DEF One
  <2>3. Cardinality(ReadBy(r, x)) = Cardinality(ReadBy(st, x)) + One(k.in_job = x) - One(st.conn[c].in_job = x)
    <3>1. ReadBy(r, x) \subseteq Conns /\ ReadBy(st, x) \subseteq Conns
      BY DEF ReadBy
    <3>2. \A d \in Conns \ {c} : d \in ReadBy(st, x) <=> d \in ReadBy(r, x)
      BY <1>2 DEF ReadBy
    <3>3. (c \in ReadBy(r, x) <=> k.in_job = x) /\ (c \in ReadBy(st, x) <=> st.conn[c].in_job = x)
      BY <1>2 DEF ReadBy
    <3>4. Cardinality(ReadBy(r, x)) = Cardinality(ReadBy(st, x)) + One(c \in ReadBy(r, x)) - One(c \in ReadBy(st, x))
      BY <1>0, <3>1, <3>2, OneDiffers
    <3> QED
      BY <3>3, <3>4 DEF One
  <2>4. Cardinality(CopiedBy(r, x)) = Cardinality(CopiedBy(st, x)) + One(k.out_job = x) - One(st.conn[c].out_job = x)
    <3>1. CopiedBy(r, x) \subseteq Conns /\ CopiedBy(st, x) \subseteq Conns
      BY DEF CopiedBy
    <3>2. \A d \in Conns \ {c} : d \in CopiedBy(st, x) <=> d \in CopiedBy(r, x)
      BY <1>2 DEF CopiedBy
    <3>3. (c \in CopiedBy(r, x) <=> k.out_job = x) /\ (c \in CopiedBy(st, x) <=> st.conn[c].out_job = x)
      BY <1>2 DEF CopiedBy
    <3>4. Cardinality(CopiedBy(r, x)) = Cardinality(CopiedBy(st, x)) + One(c \in CopiedBy(r, x)) - One(c \in CopiedBy(st, x))
      BY <1>0, <3>1, <3>2, OneDiffers
    <3> QED
      BY <3>3, <3>4 DEF One
  <2>5. JobsOf(r, x) = JobsOf(st, x)
    BY <1>1 DEF JobsOf
  <2>6. /\ Cardinality(UsedBy(st, x)) \in Nat /\ Cardinality(WatchedBy(st, x)) \in Nat
        /\ Cardinality(JobsOf(st, x)) \in Nat /\ Cardinality(ReadBy(st, x)) \in Nat
        /\ Cardinality(CopiedBy(st, x)) \in Nat
    BY RefTypes
  <2>7. \A b : One(b) \in Int
    BY DEF One
  <2>8. st.tube[x].refs \in Int /\ st.tube[x].using_ct \in Int /\ st.tube[x].watching_ct \in Int
    BY DEF Sound, Store, TubeRec
  <2>9. References(r, x) = References(st, x) - Weight(st.conn[c], x) + Weight(k, x)
    <3> DEFINE u1 == One(st.conn[c].use = x)
               u2 == One(k.use = x)
               w1 == One(ms_contains(st.conn[c].watch, x))
               w2 == One(ms_contains(k.watch, x))
               i1 == One(st.conn[c].in_job = x)
               i2 == One(k.in_job = x)
               o1 == One(st.conn[c].out_job = x)
               o2 == One(k.out_job = x)
               y == IF x = Default THEN 1 ELSE 0
    <3>1. u1 \in Int /\ u2 \in Int /\ w1 \in Int /\ w2 \in Int /\ i1 \in Int /\ i2 \in Int
          /\ o1 \in Int /\ o2 \in Int /\ y \in Int
      BY <2>7
    <3>2. /\ Cardinality(UsedBy(r, x)) = Cardinality(UsedBy(st, x)) + u2 - u1
          /\ Cardinality(WatchedBy(r, x)) = Cardinality(WatchedBy(st, x)) + w2 - w1
          /\ Cardinality(ReadBy(r, x)) = Cardinality(ReadBy(st, x)) + i2 - i1
          /\ Cardinality(CopiedBy(r, x)) = Cardinality(CopiedBy(st, x)) + o2 - o1
      BY <2>1, <2>2, <2>3, <2>4
    <3>3. Weight(st.conn[c], x) = u1 + w1 + i1 + o1 /\ Weight(k, x) = u2 + w2 + i2 + o2
      BY DEF Weight
    <3>4. /\ References(r, x) = Cardinality(UsedBy(r, x)) + Cardinality(WatchedBy(r, x))
                + Cardinality(JobsOf(r, x)) + Cardinality(ReadBy(r, x)) + Cardinality(CopiedBy(r, x)) + y
          /\ References(st, x) = Cardinality(UsedBy(st, x)) + Cardinality(WatchedBy(st, x))
                + Cardinality(JobsOf(st, x)) + Cardinality(ReadBy(st, x)) + Cardinality(CopiedBy(st, x)) + y
      BY DEF References
    <3> HIDE DEF u1, u2, w1, w2, i1, i2, o1, o2, y
    <3> QED
      BY <2>5, <2>6, <3>1, <3>2, <3>3, <3>4
  <2>10. Weight(st.conn[c], x) \in Int /\ Weight(k, x) \in Int /\ References(st, x) \in Int
    BY <2>7, RefTypes DEF Weight
  <2> QED
    BY <1>1, <2>1, <2>2, <2>6, <2>7, <2>8, <2>9, <2>10 DEF Off, OffUse, OffWatch
<1> QED
  BY <1>1, <1>5, <1>6 DEF Repointed

\* The tube of a stored job changes.
Rejobbed(r, st, j, v) ==
    /\ Sound(r)
    /\ r.tube = st.tube /\ r.tubes = st.tubes /\ r.made = st.made /\ r.freed = st.freed
    /\ r.conn = st.conn /\ r.closing = st.closing /\ r.unlisted = st.unlisted
    /\ r.job = [st.job EXCEPT ![j] = v]
    /\ \A x \in Tubes :
        /\ Off(r, x) = Off(st, x) + One(st.job[j] = x) - One(v = x)
        /\ OffUse(r, x) = OffUse(st, x) /\ OffWatch(r, x) = OffWatch(st, x)

LEMMA JobSet ==
    ASSUME NEW st, Sound(st), NEW j \in Jobs, NEW v \in Tubes \cup {Nil},
           NEW r, r = [st EXCEPT !.job[j] = v]
    PROVE  Rejobbed(r, st, j, v)
<1>0. st \in Store /\ st.job \in [Jobs -> Tubes \cup {Nil}] /\ IsFiniteSet(Jobs)
  BY FiniteAssumption DEF Sound, Store
<1>1. /\ r \in Store /\ r.job = [st.job EXCEPT ![j] = v]
      /\ r.tube = st.tube /\ r.tubes = st.tubes /\ r.made = st.made /\ r.freed = st.freed
      /\ r.conn = st.conn /\ r.closing = st.closing /\ r.unlisted = st.unlisted /\ r.wild = st.wild
  BY <1>0 DEF Store
<1>2. r.job[j] = v /\ \A i \in Jobs : i # j => r.job[i] = st.job[i]
  BY <1>0, <1>1
<1>3. Sound(r)
  <2>1. Blank(r) /\ Listed(r)
    BY <1>1 DEF Sound, Blank, Listed
  <2>2. WaitOK(r)
    BY <1>1 DEF Sound, WaitOK, Waiters, Waits
  <2> QED
    BY <1>1, <2>1, <2>2 DEF Sound
<1>4. ASSUME NEW x \in Tubes
      PROVE  /\ Off(r, x) = Off(st, x) + One(st.job[j] = x) - One(v = x)
             /\ OffUse(r, x) = OffUse(st, x) /\ OffWatch(r, x) = OffWatch(st, x)
  <2>1. /\ UsedBy(r, x) = UsedBy(st, x) /\ WatchedBy(r, x) = WatchedBy(st, x)
        /\ ReadBy(r, x) = ReadBy(st, x) /\ CopiedBy(r, x) = CopiedBy(st, x)
    BY <1>1 DEF UsedBy, WatchedBy, ReadBy, CopiedBy
  <2>2. Cardinality(JobsOf(r, x)) = Cardinality(JobsOf(st, x)) + One(v = x) - One(st.job[j] = x)
    <3>1. JobsOf(r, x) \subseteq Jobs /\ JobsOf(st, x) \subseteq Jobs
      BY DEF JobsOf
    <3>2. \A i \in Jobs \ {j} : i \in JobsOf(st, x) <=> i \in JobsOf(r, x)
      BY <1>2 DEF JobsOf
    <3>3. (j \in JobsOf(r, x) <=> v = x) /\ (j \in JobsOf(st, x) <=> st.job[j] = x)
      BY <1>2 DEF JobsOf
    <3>4. Cardinality(JobsOf(r, x)) = Cardinality(JobsOf(st, x)) + One(j \in JobsOf(r, x)) - One(j \in JobsOf(st, x))
      BY <1>0, <3>1, <3>2, OneDiffers
    <3> QED
      BY <3>3, <3>4 DEF One
  <2>3. /\ Cardinality(UsedBy(st, x)) \in Nat /\ Cardinality(WatchedBy(st, x)) \in Nat
        /\ Cardinality(JobsOf(st, x)) \in Nat /\ Cardinality(ReadBy(st, x)) \in Nat
        /\ Cardinality(CopiedBy(st, x)) \in Nat
    BY RefTypes
  <2>4. \A b : One(b) \in Int
    BY DEF One
  <2>5. References(r, x) = References(st, x) + One(v = x) - One(st.job[j] = x)
    BY <2>1, <2>2, <2>3, <2>4 DEF References
  <2>6. st.tube[x].refs \in Int /\ References(st, x) \in Nat
    BY RefTypes DEF Sound, Store, TubeRec
  <2> QED
    BY <1>1, <2>1, <2>4, <2>5, <2>6 DEF Off, OffUse, OffWatch
<1> QED
  BY <1>1, <1>3, <1>4 DEF Rejobbed

\* A reference that is one too many goes.  With the last one the tube is freed,
\* and then nothing points to it, waits for it or is counted by it.
Dropped(r, st, t) ==
    Sound(r) /\ SamePointers(r, st) /\ Shifted(r, st, t, -1, 0, 0)

LEMMA DropRef ==
    ASSUME NEW st, Sound(st), NEW t \in Tubes, Off(st, t) = 1,
           References(st, t) = 0 => OffUse(st, t) = 0 /\ OffWatch(st, t) = 0
    PROVE  Dropped(tube_dref(st, t), st, t)
<1> DEFINE one_less == Touch(st, t, [st.tube[t] EXCEPT !.refs = @ - 1])
           r == tube_dref(st, t)
<1>0. st \in Store /\ st.tube \in [Tubes -> TubeRec] /\ st.tube[t] \in TubeRec
  BY DEF Sound, Store
<1>1. /\ References(st, t) \in Nat /\ st.tube[t].refs = 1 + References(st, t)
      /\ st.tube[t].refs > 0 /\ ~(st.tube[t].refs < 1) /\ t # Nil /\ t \in Nat
  <2>1. References(st, t) \in Nat /\ st.tube[t].refs = 1 + References(st, t)
    BY Distances, RefTypes
  <2> QED
    BY <2>1, TubeNumbers
<1>2. r = IF one_less.tube[t].refs < 1 THEN tube_free(one_less, t) ELSE one_less
  BY <1>1 DEF tube_dref
<1>3. one_less = [st EXCEPT !.tube[t] = Counted(st.tube[t], -1, 0, 0)]
  BY <1>1, Counting
<1>4. one_less = [st EXCEPT !.tube[t] = [st.tube[t] EXCEPT !.refs = @ - 1]]
  <2>1. t \notin st.freed
    BY <1>1, Present
  <2> QED
    BY <2>1 DEF Touch
<1> HIDE DEF one_less, r
<1>5. one_less.tube[t].refs = st.tube[t].refs - 1
  BY <1>0, <1>4 DEF Store, TubeRec
<1>6. CASE References(st, t) > 0
  <2>1. r = one_less
    BY <1>1, <1>2, <1>5, <1>6
  <2>2. Recounted(one_less, st, t, -1, 0, 0)
    <3>1. st.tube[t].refs + (-1) > 0 /\ -1 \in Int /\ 0 \in Int
      BY <1>1, <1>6
    <3> QED
      BY <1>1, <1>3, <3>1, CountStep
  <2> QED
    BY <2>1, <2>2 DEF Recounted, Dropped, r
<1>7. CASE References(st, t) = 0
  <2>1. r = tube_free(one_less, t)
    BY <1>1, <1>2, <1>5, <1>7
  <2> DEFINE e == [st.tube[t] EXCEPT !.refs = @ - 1]
  <2>2. e \in TubeRec /\ NoTube \in TubeRec
    <3>1. st.tube[t].refs - 1 \in Int
      BY <1>0 DEF TubeRec
    <3>2. ms_init \in MsOf(Conns)
      BY DEF ms_init, MsOf
    <3> QED
      BY <1>0, <3>1, <3>2 DEF TubeRec, NoTube
  <2> HIDE DEF e
  <2>3. /\ one_less \in Store /\ one_less.tube = [st.tube EXCEPT ![t] = e]
        /\ one_less.conn = st.conn /\ one_less.job = st.job /\ one_less.closing = st.closing
        /\ one_less.unlisted = st.unlisted /\ one_less.tubes = st.tubes
        /\ one_less.made = st.made /\ one_less.freed = st.freed /\ one_less.wild = st.wild
    BY <1>0, <1>4, <2>2 DEF Store, e
  <2>4. /\ ms_remove(st.tubes, t) \in MsOf(Tubes) /\ Single(ms_remove(st.tubes, t))
        /\ \A y : ms_contains(ms_remove(st.tubes, t), y) <=> ms_contains(st.tubes, y) /\ y # t
    <3>1. st.tubes \in MsOf(Tubes) /\ Single(st.tubes)
      BY DEF Sound, Store, Listed
    <3> QED
      BY <3>1, MsRemove
  <2> DEFINE m == ms_remove(st.tubes, t)
  <2> HIDE DEF m
  <2>5. /\ r \in Store /\ r.tube = [st.tube EXCEPT ![t] = NoTube]
        /\ r.conn = st.conn /\ r.job = st.job /\ r.closing = st.closing /\ r.unlisted = st.unlisted
        /\ r.tubes = m /\ r.made = st.made /\ r.freed = st.freed \cup {t} /\ r.wild = st.wild
    <3>1. m \in MsOf(Tubes)
      BY <2>4 DEF m
    <3>2. r = [one_less EXCEPT !.tubes = m, !.tube[t] = NoTube, !.freed = @ \cup {t}]
      BY <2>1, <2>3 DEF tube_free, m
    <3>3. [one_less.tube EXCEPT ![t] = NoTube] = [st.tube EXCEPT ![t] = NoTube]
      BY <1>0, <2>3
    <3>4. one_less.tube \in [Tubes -> TubeRec] /\ one_less.freed \in SUBSET Tubes
      BY <2>3 DEF Store
    <3> QED
      BY <2>2, <2>3, <3>1, <3>2, <3>3, <3>4 DEF Store
  <2>6. r.tube[t] = NoTube /\ \A x \in Tubes : x # t => r.tube[x] = st.tube[x]
    BY <1>0, <2>5
  <2>7. SamePointers(r, st)
    BY <2>5 DEF SamePointers
  <2>8. /\ Cardinality(UsedBy(st, t)) = 0 /\ Cardinality(WatchedBy(st, t)) = 0
        /\ \A c \in Conns : ~ms_contains(st.conn[c].watch, t)
        /\ Waiters(st, t) = {}
    <3>1. /\ Cardinality(UsedBy(st, t)) = 0 /\ Cardinality(WatchedBy(st, t)) = 0
      <4>1. /\ Cardinality(UsedBy(st, t)) \in Nat /\ Cardinality(WatchedBy(st, t)) \in Nat
            /\ Cardinality(JobsOf(st, t)) \in Nat /\ Cardinality(ReadBy(st, t)) \in Nat
            /\ Cardinality(CopiedBy(st, t)) \in Nat
        BY RefTypes
      <4> QED
        BY <1>7, <4>1 DEF References
    <3>2. WatchedBy(st, t) = {}
      <4>1. IsFiniteSet(WatchedBy(st, t))
        BY FiniteAssumption, FS_Subset DEF WatchedBy
      <4> QED
        BY <3>1, <4>1, FS_EmptySet
    <3> QED
      BY <3>1, <3>2 DEF WatchedBy, Waiters, Waits
  <2>9. Blank(r)
    <3>1. t <= st.made
      BY <1>1, Present
    <3> QED
      BY <2>5, <2>6, <3>1 DEF Sound, Blank
  <2>10. Listed(r)
    <3>1. \A x \in Tubes : ms_contains(r.tubes, x) <=> r.tube[x].refs > 0
      BY <2>4, <2>5, <2>6 DEF Sound, Listed, NoTube, m
    <3>2. Single(r.tubes)
      BY <2>4, <2>5 DEF m
    <3>3. \A x \in Tubes : ms_contains(r.tubes, x) => ms_contains(st.tubes, x) /\ r.tube[x].name = st.tube[x].name
      BY <2>4, <2>5, <2>6 DEF m
    <3> QED
      BY <3>1, <3>2, <3>3 DEF Sound, Listed
  <2>11. WaitOK(r)
    <3>1. \A x \in Tubes : Waiters(r, x) = Waiters(st, x)
      BY <2>7, SameReferences
    <3>2. \A c \in Conns, x \in Tubes : Waits(r, c, x) <=> Waits(st, c, x)
      BY <2>5 DEF Waits
    <3>3. /\ Single(NoTube.waiting_conns) /\ NoTube.waiting_ct = 0 /\ Cardinality({}) = 0
          /\ \A c : ~ms_contains(NoTube.waiting_conns, c)
      BY FS_EmptySet DEF NoTube, ms_init, Single, ms_contains, Contains
    <3>4. \A x \in Tubes :
            /\ Single(r.tube[x].waiting_conns)
            /\ r.tube[x].waiting_ct = Cardinality(Waiters(r, x))
            /\ \A c \in Conns : ms_contains(r.tube[x].waiting_conns, c)
                                    <=> Waits(r, c, x) /\ <<c, x>> \notin r.unlisted
      <4> SUFFICES ASSUME NEW x \in Tubes
                   PROVE  /\ Single(r.tube[x].waiting_conns)
                          /\ r.tube[x].waiting_ct = Cardinality(Waiters(r, x))
                          /\ \A c \in Conns : ms_contains(r.tube[x].waiting_conns, c)
                                    <=> Waits(r, c, x) /\ <<c, x>> \notin r.unlisted
        OBVIOUS
      <4>1. CASE x = t
        BY <2>6, <2>8, <3>1, <3>2, <3>3, <4>1 DEF Waits
      <4>2. CASE x # t
        BY <2>5, <2>6, <3>1, <3>2, <4>2 DEF Sound, WaitOK
      <4> QED
        BY <4>1, <4>2
    <3> QED
      BY <2>5, <3>4 DEF Sound, WaitOK
  <2>12. Sound(r)
    BY <2>5, <2>9, <2>10, <2>11 DEF Sound
  <2>13. Shifted(r, st, t, -1, 0, 0)
    <3> SUFFICES ASSUME NEW x \in Tubes
                 PROVE  /\ Off(r, x) = Off(st, x) + (IF x = t THEN -1 ELSE 0)
                        /\ OffUse(r, x) = OffUse(st, x) + (IF x = t THEN 0 ELSE 0)
                        /\ OffWatch(r, x) = OffWatch(st, x) + (IF x = t THEN 0 ELSE 0)
      BY DEF Shifted
    <3>1. /\ References(r, x) = References(st, x)
          /\ UsedBy(r, x) = UsedBy(st, x) /\ WatchedBy(r, x) = WatchedBy(st, x)
      BY <2>7, SameReferences
    <3>2. Off(st, x) \in Int /\ OffUse(st, x) \in Int /\ OffWatch(st, x) \in Int
      BY Distances
    <3>3. CASE x = t
      BY <1>7, <2>6, <2>8, <3>1, <3>3 DEF Off, OffUse, OffWatch, NoTube
    <3>4. CASE x # t
      <4>1. Off(r, x) = Off(st, x) /\ OffUse(r, x) = OffUse(st, x) /\ OffWatch(r, x) = OffWatch(st, x)
        BY <2>6, <3>1, <3>4 DEF Off, OffUse, OffWatch
      <4> QED
        BY <3>2, <3>4, <4>1
    <3> QED
      BY <3>3, <3>4
  <2> QED
    BY <2>7, <2>12, <2>13 DEF Dropped, r
<1> QED
  BY <1>1, <1>6, <1>7

-----------------------------------------------------------------------------
(* Tubes found and made                                                    *)

\* tube_find returns a tube of that name, or there is none.
LEMMA TubeFind ==
    ASSUME NEW st, NEW a \in MsOf(Tubes), NEW n
    PROVE  /\ tube_find(st, a, n) = Nil => \A t \in Tubes : ms_contains(a, t) => st.tube[t].name # n
           /\ tube_find(st, a, n) # Nil => /\ tube_find(st, a, n) \in Tubes
                                           /\ ms_contains(a, tube_find(st, a, n))
                                           /\ st.tube[tube_find(st, a, n)].name = n
<1> DEFINE found == {t \in ToSet(a.items) : st.tube[t].name = n}
<1>1. \A t : t \in ToSet(a.items) <=> ms_contains(a, t)
  BY DEF MsOf, ToSet, ms_contains, Contains
<1>2. \A t : ms_contains(a, t) => t \in Tubes
  BY DEF MsOf, ms_contains, Contains
<1>3. tube_find(st, a, n) = IF found = {} THEN Nil ELSE CHOOSE t \in found : TRUE
  BY DEF tube_find
<1>4. CASE found = {}
  BY <1>1, <1>3, <1>4
<1>5. CASE found # {}
  <2>1. (CHOOSE t \in found : TRUE) \in found
    BY <1>5
  <2> QED
    BY <1>1, <1>2, <1>3, <1>5, <2>1, TubeNumbers
<1> QED
  BY <1>4, <1>5

\* The counts are right but for the reference of a local variable to t.
Held(st, t) ==
    /\ Sound(st)
    /\ \A x \in Tubes : Off(st, x) = One(x = t) /\ OffUse(st, x) = 0 /\ OffWatch(st, x) = 0

\* From st to r the tube e is made at address t, and is in the array if it is
\* referred to.
Grows(r, st, t, e) ==
    /\ r \in Store /\ SamePointers(r, st) /\ r.freed = st.freed /\ r.wild = st.wild
    /\ t > st.made /\ r.made = t /\ r.tube = [st.tube EXCEPT ![t] = e]
    /\ e.refs \in {0, 1} /\ e.using_ct = 0 /\ e.watching_ct = 0
    /\ e.waiting_conns = ms_init /\ e.waiting_ct = 0
    /\ Single(r.tubes)
    /\ \A x : ms_contains(r.tubes, x) <=> ms_contains(st.tubes, x) \/ (x = t /\ e.refs = 1)
    /\ \A x \in Tubes : ms_contains(st.tubes, x) => st.tube[x].name # e.name

LEMMA Grown ==
    ASSUME NEW st, Exact(st), NEW t \in Tubes, NEW r, NEW e, Grows(r, st, t, e)
    PROVE  /\ Sound(r)
           /\ \A x \in Tubes : /\ Off(r, x) = IF x = t THEN e.refs ELSE 0
                               /\ OffUse(r, x) = 0 /\ OffWatch(r, x) = 0
<1> USE DEF Grows
<1>0. st \in Store /\ st.tube \in [Tubes -> TubeRec] /\ st.made \in Nat /\ Sound(st) /\ t \in Nat
  BY BoundAssumption, TubeNumbers DEF Exact, Sound, Store
<1>1. t \notin st.freed /\ st.tube[t] = NoTube
  BY <1>0 DEF Sound, Blank
<1>2. r.tube[t] = e /\ \A x \in Tubes : x # t => r.tube[x] = st.tube[x]
  BY <1>0
<1>3. ~ms_contains(st.tubes, t)
  BY <1>0, <1>1 DEF Sound, Listed, NoTube
<1>4. Blank(r)
  <2> SUFFICES ASSUME NEW x \in Tubes
               PROVE  /\ (x \in r.freed \/ x > r.made) => r.tube[x] = NoTube
                      /\ x \in r.freed => x <= r.made
    BY DEF Blank
  <2>1. x \in Nat
    BY TubeNumbers
  <2>2. x \in st.freed => x <= st.made /\ st.tube[x] = NoTube
    BY <1>0 DEF Sound, Blank
  <2>3. x > t => x > st.made
    BY <1>0, <2>1
  <2>4. x > st.made => st.tube[x] = NoTube
    BY <1>0 DEF Sound, Blank
  <2>5. ASSUME x \in r.freed \/ x > r.made PROVE x # t /\ st.tube[x] = NoTube
    <3>1. ~(t > t)
      BY <1>0
    <3> QED
      BY <1>1, <2>2, <2>3, <2>4, <2>5, <3>1
  <2>6. x <= st.made => x <= t
    BY <1>0, <2>1
  <2> QED
    BY <1>2, <2>2, <2>5, <2>6
<1>5. Listed(r)
  <2>1. \A x \in Tubes : ms_contains(r.tubes, x) /\ x # t =>
            /\ ms_contains(st.tubes, x) /\ r.tube[x].name = st.tube[x].name
            /\ r.tube[x].name # e.name
    BY <1>2
  <2>2. \A x \in Tubes : ms_contains(r.tubes, x) <=> r.tube[x].refs > 0
    <3> SUFFICES ASSUME NEW x \in Tubes PROVE ms_contains(r.tubes, x) <=> r.tube[x].refs > 0
      OBVIOUS
    <3>1. CASE x = t
      BY <1>2, <1>3, <3>1
    <3>2. CASE x # t
      BY <1>0, <1>2, <3>2 DEF Sound, Listed
    <3> QED
      BY <3>1, <3>2
  <2>3. ASSUME NEW x \in Tubes, NEW y \in Tubes, ms_contains(r.tubes, x), ms_contains(r.tubes, y),
               r.tube[x].name = r.tube[y].name
        PROVE  x = y
    <3>1. CASE x = t /\ y # t
      BY <1>2, <2>1, <2>3, <3>1
    <3>2. CASE y = t /\ x # t
      BY <1>2, <2>1, <2>3, <3>2
    <3>3. CASE x # t /\ y # t
      <4>1. st.tube[x].name = st.tube[y].name /\ ms_contains(st.tubes, x) /\ ms_contains(st.tubes, y)
        BY <2>1, <2>3, <3>3
      <4> QED
        BY <1>0, <4>1 DEF Sound, Listed
    <3> QED
      BY <3>1, <3>2, <3>3
  <2> QED
    BY <2>2, <2>3 DEF Listed
<1>6. WaitOK(r)
  <2>1. \A x \in Tubes :
            /\ r.tube[x].waiting_conns = st.tube[x].waiting_conns
            /\ r.tube[x].waiting_ct = st.tube[x].waiting_ct
            /\ Waiters(r, x) = Waiters(st, x)
    <3> SUFFICES ASSUME NEW x \in Tubes
                 PROVE  /\ r.tube[x].waiting_conns = st.tube[x].waiting_conns
                        /\ r.tube[x].waiting_ct = st.tube[x].waiting_ct
                        /\ Waiters(r, x) = Waiters(st, x)
      OBVIOUS
    <3>1. Waiters(r, x) = Waiters(st, x)
      BY SameReferences
    <3>2. CASE x = t
      <4>1. st.tube[t].waiting_conns = ms_init /\ st.tube[t].waiting_ct = 0
        BY <1>1 DEF NoTube
      <4> QED
        BY <1>2, <3>1, <3>2, <4>1
    <3>3. CASE x # t
      BY <1>2, <3>1, <3>3
    <3> QED
      BY <3>2, <3>3
  <2>2. \A c \in Conns, x \in Tubes : Waits(r, c, x) <=> Waits(st, c, x)
    BY DEF Waits, SamePointers
  <2>3. r.conn = st.conn /\ r.unlisted = st.unlisted /\ WaitOK(st)
    BY <1>0 DEF SamePointers, Sound
  <2> QED
    BY <2>1, <2>2, <2>3 DEF WaitOK
<1>7. Sound(r)
  <2>1. r.conn = st.conn /\ r.closing = st.closing
    BY DEF SamePointers
  <2> QED
    BY <1>0, <1>4, <1>5, <1>6, <2>1 DEF Sound
<1>8. ASSUME NEW x \in Tubes
      PROVE  /\ Off(r, x) = IF x = t THEN e.refs ELSE 0
             /\ OffUse(r, x) = 0 /\ OffWatch(r, x) = 0
  <2>1. /\ References(r, x) = References(st, x)
        /\ UsedBy(r, x) = UsedBy(st, x) /\ WatchedBy(r, x) = WatchedBy(st, x)
    BY SameReferences
  <2>2. /\ st.tube[x].refs - References(st, x) = 0
        /\ st.tube[x].using_ct - Cardinality(UsedBy(st, x)) = 0
        /\ st.tube[x].watching_ct - Cardinality(WatchedBy(st, x)) = 0
    BY DEF Exact, Off, OffUse, OffWatch
  <2>3. /\ References(st, x) \in Nat /\ Cardinality(UsedBy(st, x)) \in Nat
        /\ Cardinality(WatchedBy(st, x)) \in Nat
    BY RefTypes
  <2>4. CASE x = t
    <3>1. References(st, x) = 0 /\ Cardinality(UsedBy(st, x)) = 0 /\ Cardinality(WatchedBy(st, x)) = 0
      <4>1. st.tube[x].refs = 0 /\ st.tube[x].using_ct = 0 /\ st.tube[x].watching_ct = 0
        BY <1>1, <2>4 DEF NoTube
      <4>2. \A y \in Nat : 0 - y = 0 => y = 0
        OBVIOUS
      <4> QED
        BY <2>2, <2>3, <4>1, <4>2
    <3> QED
      BY <1>2, <2>1, <2>4, <3>1 DEF Off, OffUse, OffWatch
  <2>5. CASE x # t
    BY <1>2, <2>1, <2>2, <2>5 DEF Off, OffUse, OffWatch
  <2> QED
    BY <2>4, <2>5
<1> QED
  BY <1>7, <1>8

\* A tube that was made gets its first reference from the local variable.
LEMMA NewTube ==
    ASSUME NEW st, Exact(st), NEW n \in AnyName, st.made < MaxTubes,
           \A x \in Tubes : ms_contains(st.tubes, x) => st.tube[x].name # n,
           NEW t, t = st.made + 1,
           NEW new, new = [st EXCEPT !.made = t, !.tube[t].name = n],
           NEW r, r = tube_iref([new EXCEPT !.tubes = ms_append(@, t)], t)
    PROVE  /\ t \in Tubes
           /\ Exact(new) /\ SamePointers(new, st)
           /\ Held(r, t) /\ SamePointers(r, st)
<1> DEFINE e == [NoTube EXCEPT !.name = n]
           f == [e EXCEPT !.refs = 1]
           m == ms_append(st.tubes, t)
<1>0. st \in Store /\ st.tube \in [Tubes -> TubeRec] /\ st.made \in Nat /\ Sound(st)
  BY BoundAssumption DEF Exact, Sound, Store
<1>1. t \in Tubes /\ t > st.made /\ t # Nil /\ t \notin st.freed /\ st.tube[t] = NoTube /\ t \in Nat /\ t <= MaxTubes
  <2>1. t \in Tubes /\ t > st.made /\ t # Nil /\ t \in Nat /\ t <= MaxTubes
    BY <1>0, BoundAssumption DEF Tubes, Nil
  <2> QED
    BY <1>0, <2>1 DEF Sound, Blank
<1>2. /\ e \in TubeRec /\ e.name = n /\ e.refs = 0 /\ e.using_ct = 0 /\ e.watching_ct = 0
      /\ e.waiting_conns = ms_init /\ e.waiting_ct = 0
  <2>1. ms_init \in MsOf(Conns)
    BY DEF ms_init, MsOf
  <2> QED
    BY <2>1 DEF NoTube, TubeRec
<1>14. /\ f \in TubeRec /\ f.name = n /\ f.refs = 1 /\ f.using_ct = 0 /\ f.watching_ct = 0
       /\ f.waiting_conns = ms_init /\ f.waiting_ct = 0
  <2> HIDE DEF e
  <2> QED
    BY <1>2 DEF TubeRec
<1>15. f = [e EXCEPT !.refs = @ + 1]
  <2> HIDE DEF e
  <2>1. e.refs + 1 = 1
    BY <1>2
  <2> QED
    BY <2>1
<1>3. /\ m \in MsOf(Tubes) /\ Single(m) /\ \A y : ms_contains(m, y) <=> ms_contains(st.tubes, y) \/ y = t
      /\ ~ms_contains(st.tubes, t)
  <2>1. st.tubes \in MsOf(Tubes) /\ Single(st.tubes) /\ ~ms_contains(st.tubes, t)
    BY <1>0, <1>1 DEF Store, Sound, Listed, NoTube
  <2> QED
    BY <1>1, <2>1, MsAppend
<1>4. /\ new \in Store /\ new.tube = [st.tube EXCEPT ![t] = e] /\ new.made = t
      /\ new.conn = st.conn /\ new.job = st.job /\ new.closing = st.closing /\ new.unlisted = st.unlisted
      /\ new.tubes = st.tubes /\ new.freed = st.freed /\ new.wild = st.wild
  <2> HIDE DEF e
  <2>1. new = [st EXCEPT !.made = t, !.tube[t] = e]
    BY <1>0, <1>1 DEF e, Store
  <2>2. t \in 1..MaxTubes
    BY <1>1 DEF Tubes
  <2>3. [st.tube EXCEPT ![t] = e] \in [Tubes -> TubeRec]
    BY <1>0, <1>1, <1>2
  <2> QED
    BY <1>0, <2>1, <2>2, <2>3 DEF Store
<1>5. /\ r \in Store /\ r.tube = [st.tube EXCEPT ![t] = f] /\ r.made = t
      /\ r.conn = st.conn /\ r.job = st.job /\ r.closing = st.closing /\ r.unlisted = st.unlisted
      /\ r.tubes = m /\ r.freed = st.freed /\ r.wild = st.wild
  <2> DEFINE q == [new EXCEPT !.tubes = m]
  <2>1. /\ q \in Store /\ q.tube = new.tube /\ q.made = t /\ q.conn = st.conn /\ q.job = st.job
        /\ q.closing = st.closing /\ q.unlisted = st.unlisted /\ q.tubes = m /\ q.freed = st.freed
        /\ q.wild = st.wild
    <3> HIDE DEF m, e
    <3> QED
      BY <1>3, <1>4 DEF Store
  <2>2. q.tube[t] = e
    BY <1>0, <1>1, <1>4, <2>1
  <2>3. r = tube_iref(q, t)
    BY <1>4
  <2> HIDE DEF q, m
  <2>4. r = [q EXCEPT !.tube[t] = f]
    <3>1. r = Touch(q, t, [q.tube[t] EXCEPT !.refs = @ + 1])
      BY <1>1, <2>3 DEF tube_iref
    <3> QED
      BY <1>1, <1>15, <2>1, <2>2, <3>1 DEF Touch
  <2> HIDE DEF e, f
  <2>5. [new.tube EXCEPT ![t] = f] = [st.tube EXCEPT ![t] = f]
    BY <1>0, <1>4
  <2> QED
    BY <1>14, <1>4, <2>1, <2>4, <2>5 DEF Store
<1> HIDE DEF e, f, m
<1>6. SamePointers(new, st) /\ SamePointers(r, st)
  BY <1>4, <1>5 DEF SamePointers
<1>7. Exact(new)
  <2>1. Single(new.tubes) /\ e.refs \in {0, 1}
    BY <1>0, <1>2, <1>4 DEF Sound, Listed
  <2>2. \A x : ms_contains(new.tubes, x) <=> ms_contains(st.tubes, x) \/ (x = t /\ e.refs = 1)
    BY <1>2, <1>4
  <2>3. Sound(new) /\ \A x \in Tubes : /\ Off(new, x) = IF x = t THEN e.refs ELSE 0
                                       /\ OffUse(new, x) = 0 /\ OffWatch(new, x) = 0
    <3>1. \A x \in Tubes : ms_contains(st.tubes, x) => st.tube[x].name # e.name
      BY <1>2
    <3>2. /\ e.using_ct = 0 /\ e.watching_ct = 0 /\ e.waiting_conns = ms_init /\ e.waiting_ct = 0
          /\ t \in Tubes /\ t > st.made /\ new \in Store /\ new.freed = st.freed /\ new.wild = st.wild
          /\ new.made = t /\ new.tube = [st.tube EXCEPT ![t] = e]
      BY <1>1, <1>2, <1>4
    <3>3. Grows(new, st, t, e)
      BY <1>6, <2>1, <2>2, <3>1, <3>2 DEF Grows
    <3> QED
      BY <3>2, <3>3, Grown
  <2> QED
    BY <1>2, <2>3 DEF Exact
<1>8. Held(r, t)
  <2>1. Single(r.tubes) /\ f.refs \in {0, 1}
    BY <1>3, <1>5, <1>14
  <2>2. \A x : ms_contains(r.tubes, x) <=> ms_contains(st.tubes, x) \/ (x = t /\ f.refs = 1)
    BY <1>3, <1>5, <1>14
  <2>3. Sound(r) /\ \A x \in Tubes : /\ Off(r, x) = IF x = t THEN f.refs ELSE 0
                                     /\ OffUse(r, x) = 0 /\ OffWatch(r, x) = 0
    <3>1. \A x \in Tubes : ms_contains(st.tubes, x) => st.tube[x].name # f.name
      BY <1>14
    <3>2. /\ f.using_ct = 0 /\ f.watching_ct = 0 /\ f.waiting_conns = ms_init /\ f.waiting_ct = 0
          /\ t \in Tubes /\ t > st.made /\ r \in Store /\ r.freed = st.freed /\ r.wild = st.wild
          /\ r.made = t /\ r.tube = [st.tube EXCEPT ![t] = f]
      BY <1>1, <1>14, <1>5
    <3>3. Grows(r, st, t, f)
      BY <1>6, <2>1, <2>2, <3>1, <3>2 DEF Grows
    <3> QED
      BY <3>2, <3>3, Grown
  <2> QED
    BY <1>14, <2>3 DEF Held, One
<1> QED
  BY <1>1, <1>6, <1>7, <1>8

\* tube_find_or_make, with the reference that dispatch_cmd takes of the result.
LEMMA FindOrMake ==
    ASSUME NEW st, Exact(st), NEW n \in AnyName,
           tube_find(st, st.tubes, n) # Nil \/ st.made < MaxTubes,
           NEW o \in tube_find_or_make(st, n)
    PROVE  /\ o.t = Nil => Exact(o.st) /\ SamePointers(o.st, st)
           /\ o.t # Nil => /\ o.t \in Tubes /\ SamePointers(o.st, st)
                           /\ Held(tube_iref(o.st, o.t), o.t)
                           /\ SamePointers(tube_iref(o.st, o.t), st)
<1> DEFINE f == tube_find(st, st.tubes, n)
<1>0. st.tubes \in MsOf(Tubes) /\ Sound(st)
  BY DEF Exact, Sound, Store
<1>1. CASE f # Nil
  <2>1. o = [st |-> st, t |-> f]
    BY <1>1 DEF tube_find_or_make
  <2>2. f \in Tubes /\ ms_contains(st.tubes, f)
    BY <1>0, <1>1, TubeFind
  <2>3. st.tube[f].refs > 0
    BY <1>0, <2>2 DEF Sound, Listed
  <2> HIDE DEF f
  <2>4. Recounted(tube_iref(st, f), st, f, 1, 0, 0)
    BY <1>0, <2>2, <2>3, TakeRef
  <2>5. Held(tube_iref(st, f), f) /\ SamePointers(tube_iref(st, f), st)
    BY <2>4 DEF Recounted, Shifted, Exact, Held, One
  <2>6. SamePointers(st, st)
    BY DEF SamePointers
  <2> QED
    BY <1>1, <2>1, <2>2, <2>5, <2>6
<1>2. CASE f = Nil
  <2> DEFINE t == st.made + 1
             new == [st EXCEPT !.made = t, !.tube[t].name = n]
             in == [new EXCEPT !.tubes = ms_append(@, t)]
  <2>1. o \in {[st |-> in, t |-> t], [st |-> new, t |-> Nil], [st |-> st, t |-> Nil]}
    BY <1>2 DEF tube_find_or_make, make_and_insert_tube
  <2>2. \A x \in Tubes : ms_contains(st.tubes, x) => st.tube[x].name # n
    BY <1>0, <1>2, TubeFind
  <2>3. /\ t \in Tubes /\ Exact(new) /\ SamePointers(new, st)
        /\ Held(tube_iref(in, t), t) /\ SamePointers(tube_iref(in, t), st)
    BY <1>2, <2>2, NewTube
  <2>4. SamePointers(in, st)
    BY <2>3 DEF SamePointers
  <2>5. SamePointers(st, st)
    BY DEF SamePointers
  <2> HIDE DEF t, new, in
  <2> QED
    BY <2>1, <2>3, <2>4, <2>5, TubeNumbers
<1> QED
  BY <1>1, <1>2

-----------------------------------------------------------------------------
(* Connections that wait                                                   *)

\* From st to r connection c begins to wait (by is 1) or ends (by is -1), and
\* the tubes it watches are told.
Rewaits(r, st, c, by) ==
    /\ r \in Store
    /\ r.tubes = st.tubes /\ r.made = st.made /\ r.freed = st.freed /\ r.job = st.job
    /\ r.closing = st.closing /\ r.wild = st.wild
    /\ r.conn = [st.conn EXCEPT ![c] = [@ EXCEPT !.waiting = (by = 1)]]
    /\ st.conn[c].waiting = (by = -1)
    /\ by = 1 => c \notin st.closing
    /\ \A x \in Tubes :
        /\ r.tube[x].name = st.tube[x].name /\ r.tube[x].refs = st.tube[x].refs
        /\ r.tube[x].using_ct = st.tube[x].using_ct
        /\ r.tube[x].watching_ct = st.tube[x].watching_ct
        /\ ~ms_contains(st.conn[c].watch, x) => r.tube[x] = st.tube[x]
        /\ ms_contains(st.conn[c].watch, x) =>
            /\ r.tube[x].waiting_ct = st.tube[x].waiting_ct + by
            /\ Single(r.tube[x].waiting_conns)
            /\ \A d \in Conns \ {c} : ms_contains(r.tube[x].waiting_conns, d)
                                        <=> ms_contains(st.tube[x].waiting_conns, d)
            /\ ms_contains(r.tube[x].waiting_conns, c) <=> by = 1 /\ <<c, x>> \notin r.unlisted
        /\ \A d \in Conns \ {c} : <<d, x>> \in r.unlisted <=> <<d, x>> \in st.unlisted
        /\ <<c, x>> \in r.unlisted => by = 1

LEMMA WaitChange ==
    ASSUME NEW st, Exact(st), NEW c \in Conns, NEW by \in {1, -1}, NEW r, Rewaits(r, st, c, by)
    PROVE  Exact(r)
<1>0. /\ st \in Store /\ st.conn \in [Conns -> ConnRec] /\ st.conn[c] \in ConnRec /\ Sound(st)
      /\ st.tube \in [Tubes -> TubeRec] /\ r \in Store
  BY DEF Exact, Sound, Store, Rewaits
<1>1. /\ r.conn[c].watch = st.conn[c].watch /\ r.conn[c].use = st.conn[c].use
      /\ r.conn[c].in_job = st.conn[c].in_job /\ r.conn[c].out_job = st.conn[c].out_job
      /\ r.conn[c].open = st.conn[c].open
      /\ r.conn[c].waiting = (by = 1)
      /\ \A d \in Conns : d # c => r.conn[d] = st.conn[d]
  <2> DEFINE k == [st.conn[c] EXCEPT !.waiting = (by = 1)]
  <2>1. r.conn = [st.conn EXCEPT ![c] = k]
    BY DEF Rewaits
  <2>2. /\ k.watch = st.conn[c].watch /\ k.use = st.conn[c].use /\ k.in_job = st.conn[c].in_job
        /\ k.out_job = st.conn[c].out_job /\ k.open = st.conn[c].open /\ k.waiting = (by = 1)
    BY <1>0 DEF ConnRec
  <2> HIDE DEF k
  <2> QED
    BY <1>0, <2>1, <2>2
<1>2. \A d \in Conns : /\ r.conn[d].watch = st.conn[d].watch /\ r.conn[d].use = st.conn[d].use
                       /\ r.conn[d].in_job = st.conn[d].in_job /\ r.conn[d].out_job = st.conn[d].out_job
                       /\ r.conn[d].open = st.conn[d].open
  BY <1>1
<1>3. ASSUME NEW x
      PROVE  /\ References(r, x) = References(st, x)
             /\ UsedBy(r, x) = UsedBy(st, x) /\ WatchedBy(r, x) = WatchedBy(st, x)
  <2>1. /\ UsedBy(r, x) = UsedBy(st, x) /\ WatchedBy(r, x) = WatchedBy(st, x)
        /\ JobsOf(r, x) = JobsOf(st, x) /\ ReadBy(r, x) = ReadBy(st, x)
        /\ CopiedBy(r, x) = CopiedBy(st, x)
    BY <1>2 DEF UsedBy, WatchedBy, JobsOf, ReadBy, CopiedBy, Rewaits
  <2> QED
    BY <2>1 DEF References
<1>4. \A x \in Tubes : Off(r, x) = 0 /\ OffUse(r, x) = 0 /\ OffWatch(r, x) = 0
  <2> SUFFICES ASSUME NEW x \in Tubes
               PROVE  Off(r, x) = 0 /\ OffUse(r, x) = 0 /\ OffWatch(r, x) = 0
    OBVIOUS
  <2>1. /\ r.tube[x].refs = st.tube[x].refs /\ r.tube[x].using_ct = st.tube[x].using_ct
        /\ r.tube[x].watching_ct = st.tube[x].watching_ct
    BY DEF Rewaits
  <2>2. Off(st, x) = 0 /\ OffUse(st, x) = 0 /\ OffWatch(st, x) = 0
    BY DEF Exact
  <2> QED
    BY <1>3, <2>1, <2>2 DEF Off, OffUse, OffWatch
<1>5. \A x \in Tubes : ms_contains(st.conn[c].watch, x) => x \notin st.freed /\ ~(x > st.made)
  <2> SUFFICES ASSUME NEW x \in Tubes, ms_contains(st.conn[c].watch, x)
               PROVE  x \notin st.freed /\ ~(x > st.made)
    OBVIOUS
  <2>1. Weight(st.conn[c], x) > 0
    BY DEF Weight, One
  <2>2. References(st, x) > 0 /\ References(st, x) \in Nat
    BY <2>1, Pointed, RefTypes
  <2>3. st.tube[x].refs > 0
    BY <1>0, <2>2, Distances DEF Exact
  <2>4. x \in Nat /\ st.made \in Nat
    BY <1>0, BoundAssumption, TubeNumbers DEF Store
  <2> QED
    BY <1>0, <2>3, <2>4, Present
<1>6. Blank(r)
  BY <1>0, <1>5 DEF Sound, Blank, Rewaits
<1>7. Listed(r)
  BY <1>0 DEF Sound, Listed, Rewaits
<1>8. \A d \in Conns : ConnOK(r.conn[d], d \in r.closing)
  <2> SUFFICES ASSUME NEW d \in Conns PROVE ConnOK(r.conn[d], d \in r.closing)
    OBVIOUS
  <2>1. ConnOK(st.conn[d], d \in st.closing) /\ r.closing = st.closing
    BY <1>0 DEF Sound, Rewaits
  <2>2. CASE d # c
    BY <1>1, <2>1, <2>2
  <2>3. CASE d = c
    <3>1. c \in st.closing => r.conn[c].waiting = FALSE
      BY <1>1 DEF Rewaits
    <3> QED
      BY <1>1, <2>1, <2>3, <3>1 DEF ConnOK
  <2> QED
    BY <2>2, <2>3
<1>9. WaitOK(r)
  <2>1. \A d \in Conns, x \in Tubes : d # c => (Waits(r, d, x) <=> Waits(st, d, x))
    BY <1>1 DEF Waits
  <2>2. \A x \in Tubes : Waits(r, c, x) <=> ms_contains(st.conn[c].watch, x) /\ by = 1
    BY <1>1 DEF Waits
  <2>3. \A x \in Tubes : Waits(st, c, x) <=> ms_contains(st.conn[c].watch, x) /\ by = -1
    BY DEF Waits, Rewaits
  <2>4. \A d \in Conns, x \in Tubes : <<d, x>> \in r.unlisted => r.conn[d].waiting = TRUE
    <3> SUFFICES ASSUME NEW d \in Conns, NEW x \in Tubes, <<d, x>> \in r.unlisted
                 PROVE  r.conn[d].waiting = TRUE
      OBVIOUS
    <3>1. CASE d = c
      BY <1>1, <3>1 DEF Rewaits
    <3>2. CASE d # c
      <4>1. <<d, x>> \in st.unlisted
        BY <3>2 DEF Rewaits
      <4> QED
        BY <1>0, <1>1, <3>2, <4>1 DEF Sound, WaitOK
    <3> QED
      BY <3>1, <3>2
  <2>5. ASSUME NEW x \in Tubes
        PROVE  /\ Single(r.tube[x].waiting_conns)
               /\ \A d \in Conns : ms_contains(r.tube[x].waiting_conns, d)
                                        <=> Waits(r, d, x) /\ <<d, x>> \notin r.unlisted
    <3>1. /\ Single(st.tube[x].waiting_conns)
          /\ \A d \in Conns : ms_contains(st.tube[x].waiting_conns, d)
                                <=> Waits(st, d, x) /\ <<d, x>> \notin st.unlisted
      BY <1>0 DEF Sound, WaitOK
    <3>2. \A d \in Conns : d # c => (<<d, x>> \in r.unlisted <=> <<d, x>> \in st.unlisted)
      BY DEF Rewaits
    <3>3. CASE ms_contains(st.conn[c].watch, x)
      <4>1. /\ Single(r.tube[x].waiting_conns)
            /\ \A d \in Conns \ {c} : ms_contains(r.tube[x].waiting_conns, d)
                                        <=> ms_contains(st.tube[x].waiting_conns, d)
            /\ ms_contains(r.tube[x].waiting_conns, c) <=> by = 1 /\ <<c, x>> \notin r.unlisted
        BY <3>3 DEF Rewaits
      <4> QED
        BY <2>1, <2>2, <3>1, <3>2, <3>3, <4>1
    <3>4. CASE ~ms_contains(st.conn[c].watch, x)
      <4>1. r.tube[x] = st.tube[x]
        BY <3>4 DEF Rewaits
      <4> QED
        BY <2>1, <2>2, <2>3, <3>1, <3>2, <3>4, <4>1
    <3> QED
      BY <3>3, <3>4
  <2>6. ASSUME NEW x \in Tubes
        PROVE  r.tube[x].waiting_ct = Cardinality(Waiters(r, x))
    <3>1. st.tube[x].waiting_ct = Cardinality(Waiters(st, x)) /\ Cardinality(Waiters(st, x)) \in Nat
      BY <1>0, RefTypes DEF Sound, WaitOK
    <3>2. Waiters(st, x) \subseteq Conns /\ Waiters(r, x) \subseteq Conns
          /\ \A d \in Conns \ {c} : d \in Waiters(st, x) <=> d \in Waiters(r, x)
      BY <2>1 DEF Waiters
    <3>3. Cardinality(Waiters(r, x)) = Cardinality(Waiters(st, x)) + One(c \in Waiters(r, x)) - One(c \in Waiters(st, x))
      BY <3>2, FiniteAssumption, OneDiffers
    <3>4. (c \in Waiters(r, x) <=> ms_contains(st.conn[c].watch, x) /\ by = 1)
          /\ (c \in Waiters(st, x) <=> ms_contains(st.conn[c].watch, x) /\ by = -1)
      BY <2>2, <2>3 DEF Waiters
    <3>5. CASE ms_contains(st.conn[c].watch, x)
      <4>1. r.tube[x].waiting_ct = st.tube[x].waiting_ct + by
        BY <3>5 DEF Rewaits
      <4>2. CASE by = 1
        <5>1. c \in Waiters(r, x) /\ c \notin Waiters(st, x)
          BY <3>4, <3>5, <4>2
        <5> QED
          BY <3>1, <3>3, <4>1, <4>2, <5>1 DEF One
      <4>3. CASE by = -1
        <5>1. c \notin Waiters(r, x) /\ c \in Waiters(st, x)
          BY <3>4, <3>5, <4>3
        <5> QED
          BY <3>1, <3>3, <4>1, <4>3, <5>1 DEF One
      <4> QED
        BY <4>2, <4>3
    <3>6. CASE ~ms_contains(st.conn[c].watch, x)
      <4>1. r.tube[x] = st.tube[x]
        BY <3>6 DEF Rewaits
      <4>2. c \notin Waiters(r, x) /\ c \notin Waiters(st, x)
        BY <3>4, <3>6
      <4> QED
        BY <3>1, <3>3, <4>1, <4>2 DEF One
    <3> QED
      BY <3>5, <3>6
  <2> QED
    BY <2>4, <2>5, <2>6 DEF WaitOK
<1>10. Sound(r)
  <2>1. r.wild = FALSE
    BY <1>0 DEF Sound, Rewaits
  <2> QED
    BY <1>0, <1>6, <1>7, <1>8, <1>9, <2>1 DEF Sound
<1> QED
  BY <1>4, <1>10 DEF Exact

\* The store q is st but for the waiting_conns of tubes that c watches, which may
\* have lost c already.
Taken(q, st, c, wc) ==
    /\ st.conn[c].waiting = TRUE
    /\ wc \in [Tubes -> MsOf(Conns)]
    /\ \A x \in Tubes :
        /\ ~ms_contains(st.conn[c].watch, x) => wc[x] = st.tube[x].waiting_conns
        /\ Single(wc[x])
        /\ \A d \in Conns \ {c} : ms_contains(wc[x], d)
                                     <=> ms_contains(st.tube[x].waiting_conns, d)
    /\ q = [st EXCEPT !.tube = [x \in Tubes |-> [st.tube[x] EXCEPT !.waiting_conns = wc[x]]]]

\* remove_waiting_conn tells every tube that c watches.
LEMMA Unwait ==
    ASSUME NEW st, Exact(st), NEW c \in Conns, NEW wc, NEW q, Taken(q, st, c, wc)
    PROVE  /\ Exact(remove_waiting_conn(q, c))
           /\ remove_waiting_conn(q, c).conn = [st.conn EXCEPT ![c] = [@ EXCEPT !.waiting = FALSE]]
           /\ remove_waiting_conn(q, c).closing = st.closing
<1> DEFINE r == remove_waiting_conn(q, c)
           e(x) == [st.tube[x] EXCEPT !.waiting_conns = wc[x]]
           g(x) == [e(x) EXCEPT !.waiting_conns = ms_remove(@, c), !.waiting_ct = @ - 1]
           T == [x \in Tubes |-> IF ms_contains(st.conn[c].watch, x) THEN g(x) ELSE e(x)]
           k == [st.conn[c] EXCEPT !.waiting = FALSE]
           U == {p \in st.unlisted : p[1] # c}
<1> USE DEF Taken
<1>0. /\ st \in Store /\ st.conn \in [Conns -> ConnRec] /\ st.conn[c] \in ConnRec /\ Sound(st)
      /\ st.tube \in [Tubes -> TubeRec] /\ st.unlisted \in SUBSET (Conns \X Tubes)
  BY DEF Exact, Sound, Store
<1>1. /\ q.tube = [x \in Tubes |-> e(x)] /\ q.conn = st.conn /\ q.unlisted = st.unlisted
      /\ q.made = st.made /\ q.freed = st.freed /\ q.tubes = st.tubes /\ q.job = st.job
      /\ q.closing = st.closing /\ q.wild = st.wild
      /\ q = [tube |-> q.tube, made |-> q.made, freed |-> q.freed, tubes |-> q.tubes, conn |-> q.conn,
              job |-> q.job, unlisted |-> q.unlisted, closing |-> q.closing, wild |-> q.wild]
  <2> DEFINE y == [x \in Tubes |-> e(x)]
  <2>1. q = [st EXCEPT !.tube = y]
    OBVIOUS
  <2> HIDE DEF y
  <2>2. /\ q.tube = y /\ q.conn = st.conn /\ q.unlisted = st.unlisted
      /\ q.made = st.made /\ q.freed = st.freed /\ q.tubes = st.tubes /\ q.job = st.job
      /\ q.closing = st.closing /\ q.wild = st.wild
      /\ q = [tube |-> q.tube, made |-> q.made, freed |-> q.freed, tubes |-> q.tubes, conn |-> q.conn,
              job |-> q.job, unlisted |-> q.unlisted, closing |-> q.closing, wild |-> q.wild]
    BY <1>0, <2>1 DEF Store
  <2> QED
    BY <2>2 DEF y
<1>2. /\ r.conn = [st.conn EXCEPT ![c] = k] /\ r.unlisted = U /\ r.tube = T
      /\ r.made = st.made /\ r.freed = st.freed /\ r.tubes = st.tubes /\ r.job = st.job
      /\ r.closing = st.closing /\ r.wild = st.wild
      /\ r = [tube |-> r.tube, made |-> r.made, freed |-> r.freed, tubes |-> r.tubes, conn |-> r.conn,
              job |-> r.job, unlisted |-> r.unlisted, closing |-> r.closing, wild |-> r.wild]
  <2> DEFINE C1 == [q.conn EXCEPT ![c].waiting = FALSE]
             U1 == {p \in q.unlisted : p[1] # c}
             T1 == [t \in Tubes |->
                 IF ms_contains(q.conn[c].watch, t)
                 THEN [q.tube[t] EXCEPT !.waiting_conns = ms_remove(@, c), !.waiting_ct = @ - 1]
                 ELSE q.tube[t]]
  <2>1. r = [q EXCEPT !.conn = C1, !.unlisted = U1, !.tube = T1]
    BY <1>1 DEF remove_waiting_conn
  <2>2. T1 = T
    BY <1>1
  <2>3. C1 = [st.conn EXCEPT ![c] = k]
    BY <1>1
  <2>4. U1 = U
    BY <1>1
  <2> HIDE DEF T1, C1, U1, r
  <2>5. /\ r.conn = C1 /\ r.unlisted = U1 /\ r.tube = T1
        /\ r.made = q.made /\ r.freed = q.freed /\ r.tubes = q.tubes /\ r.job = q.job
        /\ r.closing = q.closing /\ r.wild = q.wild
        /\ r = [tube |-> r.tube, made |-> r.made, freed |-> r.freed, tubes |-> r.tubes, conn |-> r.conn,
                job |-> r.job, unlisted |-> r.unlisted, closing |-> r.closing, wild |-> r.wild]
    BY <1>1, <2>1
  <2> HIDE DEF T, k, U
  <2> QED
    BY <1>1, <2>2, <2>3, <2>4, <2>5
<1>3. ASSUME NEW x \in Tubes
      PROVE  /\ ms_remove(wc[x], c) \in MsOf(Conns) /\ Single(ms_remove(wc[x], c))
             /\ \A y : ms_contains(ms_remove(wc[x], c), y) <=> ms_contains(wc[x], y) /\ y # c
  <2>1. wc[x] \in MsOf(Conns) /\ Single(wc[x])
    OBVIOUS
  <2> QED
    BY <2>1, MsRemove
<1>4. ASSUME NEW x \in Tubes
      PROVE  /\ e(x) \in TubeRec /\ e(x).name = st.tube[x].name /\ e(x).refs = st.tube[x].refs
             /\ e(x).using_ct = st.tube[x].using_ct /\ e(x).watching_ct = st.tube[x].watching_ct
             /\ e(x).waiting_ct = st.tube[x].waiting_ct /\ e(x).waiting_conns = wc[x]
             /\ ~ms_contains(st.conn[c].watch, x) => e(x) = st.tube[x]
  <2>1. wc[x] \in MsOf(Conns) /\ st.tube[x] \in TubeRec
    BY <1>0
  <2> QED
    BY <2>1 DEF TubeRec
<1>5. ASSUME NEW x \in Tubes
      PROVE  /\ g(x) \in TubeRec /\ g(x).name = st.tube[x].name /\ g(x).refs = st.tube[x].refs
             /\ g(x).using_ct = st.tube[x].using_ct /\ g(x).watching_ct = st.tube[x].watching_ct
             /\ g(x).waiting_ct = st.tube[x].waiting_ct - 1
             /\ g(x).waiting_conns = ms_remove(wc[x], c)
  <2> DEFINE f == e(x)
  <2>1. f \in TubeRec /\ f.waiting_conns = wc[x] /\ f.waiting_ct = st.tube[x].waiting_ct
    BY <1>4
  <2>2. g(x) = [f EXCEPT !.waiting_conns = ms_remove(@, c), !.waiting_ct = @ - 1]
    OBVIOUS
  <2> HIDE DEF f, e, g
  <2> DEFINE m == ms_remove(wc[x], c)
             z == f.waiting_ct - 1
  <2>3. m \in MsOf(Conns) /\ z \in Int
    BY <1>3, <2>1 DEF TubeRec
  <2>4. g(x) = [f EXCEPT !.waiting_conns = m, !.waiting_ct = z]
    <3>1. [f EXCEPT !.waiting_conns = m].waiting_ct = f.waiting_ct
      BY <2>1 DEF TubeRec
    <3> QED
      BY <2>1, <2>2, <3>1
  <2> HIDE DEF m, z
  <2>5. /\ g(x) \in TubeRec /\ g(x).name = f.name /\ g(x).refs = f.refs
        /\ g(x).using_ct = f.using_ct /\ g(x).watching_ct = f.watching_ct
        /\ g(x).waiting_ct = z /\ g(x).waiting_conns = m
    BY <2>1, <2>3, <2>4 DEF TubeRec
  <2> QED
    BY <1>4, <2>1, <2>5 DEF f, m, z
<1> HIDE DEF e, g
<1>6. k \in ConnRec
  BY <1>0 DEF ConnRec
<1>7. r \in Store
  <2>1. T \in [Tubes -> TubeRec]
    BY <1>4, <1>5
  <2>2. U \in SUBSET (Conns \X Tubes)
    BY <1>0
  <2>3. [st.conn EXCEPT ![c] = k] \in [Conns -> ConnRec]
    BY <1>0, <1>6
  <2> HIDE DEF T, U, k, r
  <2> QED
    BY <1>0, <1>2, <2>1, <2>2, <2>3 DEF Store
<1> HIDE DEF r
<1>8. ASSUME NEW x \in Tubes
      PROVE  /\ r.tube[x].name = st.tube[x].name /\ r.tube[x].refs = st.tube[x].refs
             /\ r.tube[x].using_ct = st.tube[x].using_ct
             /\ r.tube[x].watching_ct = st.tube[x].watching_ct
             /\ ~ms_contains(st.conn[c].watch, x) => r.tube[x] = st.tube[x]
             /\ ms_contains(st.conn[c].watch, x) =>
                 /\ r.tube[x].waiting_ct = st.tube[x].waiting_ct + (-1)
                 /\ Single(r.tube[x].waiting_conns)
                 /\ \A d \in Conns \ {c} : ms_contains(r.tube[x].waiting_conns, d)
                                             <=> ms_contains(st.tube[x].waiting_conns, d)
                 /\ ~ms_contains(r.tube[x].waiting_conns, c)
  <2>0. r.tube[x] = IF ms_contains(st.conn[c].watch, x) THEN g(x) ELSE e(x)
    BY <1>2
  <2>1. CASE ms_contains(st.conn[c].watch, x)
    <3>1. r.tube[x] = g(x)
      BY <2>0, <2>1
    <3>2. st.tube[x].waiting_ct - 1 = st.tube[x].waiting_ct + (-1)
      BY <1>0 DEF TubeRec
    <3> QED
      BY <1>3, <1>5, <2>1, <3>1, <3>2
  <2>2. CASE ~ms_contains(st.conn[c].watch, x)
    BY <1>4, <2>0, <2>2
  <2> QED
    BY <2>1, <2>2
<1>9. ASSUME NEW x \in Tubes
      PROVE  /\ \A d \in Conns \ {c} : <<d, x>> \in r.unlisted <=> <<d, x>> \in st.unlisted
             /\ <<c, x>> \notin r.unlisted
  BY <1>2
<1>10. Rewaits(r, st, c, -1)
  <2>1. r.conn = [st.conn EXCEPT ![c] = [@ EXCEPT !.waiting = (-1 = 1)]]
    <3>1. (-1 = 1) = FALSE
      OBVIOUS
    <3> QED
      BY <1>2, <3>1
  <2>2. -1 # 1
    OBVIOUS
  <2>3. st.conn[c].waiting = (-1 = -1)
    <3>1. (-1 = -1) = TRUE
      OBVIOUS
    <3> QED
      BY <3>1
  <2> HIDE DEF T, U, k
  <2> QED
    BY <1>2, <1>7, <1>8, <1>9, <2>1, <2>2, <2>3 DEF Rewaits
<1> QED
  BY <1>2, <1>10, WaitChange DEF r

LEMMA RemoveWaiting ==
    ASSUME NEW st, Exact(st), NEW c \in Conns
    PROVE  /\ Exact(remove_waiting_conn(st, c))
           /\ remove_waiting_conn(st, c).conn = [st.conn EXCEPT ![c] = [@ EXCEPT !.waiting = FALSE]]
           /\ remove_waiting_conn(st, c).closing = st.closing
<1>0. /\ st \in Store /\ st.conn \in [Conns -> ConnRec] /\ st.conn[c] \in ConnRec /\ Sound(st)
      /\ st.tube \in [Tubes -> TubeRec]
  BY DEF Exact, Sound, Store
<1>1. CASE st.conn[c].waiting = FALSE
  <2>1. remove_waiting_conn(st, c) = st
    BY <1>1 DEF remove_waiting_conn
  <2>2. [st.conn[c] EXCEPT !.waiting = FALSE] = st.conn[c]
    BY <1>0, <1>1 DEF ConnRec
  <2>3. [st.conn EXCEPT ![c] = [@ EXCEPT !.waiting = FALSE]] = st.conn
    BY <1>0, <2>2
  <2> QED
    BY <2>1, <2>3
<1>2. CASE st.conn[c].waiting = TRUE
  <2> DEFINE wc == [x \in Tubes |-> st.tube[x].waiting_conns]
             T == [x \in Tubes |-> [st.tube[x] EXCEPT !.waiting_conns = wc[x]]]
  <2>1. wc \in [Tubes -> MsOf(Conns)]
    BY <1>0 DEF TubeRec
  <2>2. T = st.tube
    <3>1. \A x \in Tubes : [st.tube[x] EXCEPT !.waiting_conns = wc[x]] = st.tube[x]
      BY <1>0 DEF TubeRec
    <3> QED
      BY <1>0, <3>1
  <2>3. st = [st EXCEPT !.tube = T]
    BY <1>0, <2>2 DEF Store
  <2>4. \A x \in Tubes : wc[x] = st.tube[x].waiting_conns /\ Single(wc[x])
    BY <1>0 DEF Sound, WaitOK
  <2>5. Taken(st, st, c, wc)
    <3> HIDE DEF wc
    <3> QED
      BY <1>2, <2>1, <2>3, <2>4 DEF Taken
  <2> QED
    BY <2>5, Unwait
<1> QED
  BY <1>0, <1>1, <1>2 DEF ConnRec

\* process_queue takes a waiter of t before it tells its tubes.
LEMMA TakeWaiting ==
    ASSUME NEW st, Exact(st), NEW t \in Tubes, st.tube[t].waiting_conns.items # <<>>,
           NEW c, c = ms_taken(st.tube[t].waiting_conns)
    PROVE  Exact(remove_waiting_conn([st EXCEPT !.tube[t].waiting_conns = ms_take(@)], c))
<1> DEFINE a == st.tube[t].waiting_conns
           wc == [x \in Tubes |-> IF x = t THEN ms_take(a) ELSE st.tube[x].waiting_conns]
           T == [x \in Tubes |-> [st.tube[x] EXCEPT !.waiting_conns = wc[x]]]
           q == [st EXCEPT !.tube[t].waiting_conns = ms_take(@)]
<1>0. /\ st \in Store /\ st.conn \in [Conns -> ConnRec] /\ Sound(st)
      /\ st.tube \in [Tubes -> TubeRec] /\ a \in MsOf(Conns) /\ Single(a)
  BY DEF Exact, Sound, Store, TubeRec, WaitOK
<1>1. /\ ms_take(a) \in MsOf(Conns) /\ c \in Conns /\ ms_contains(a, c) /\ Single(ms_take(a))
      /\ \A y : ms_contains(ms_take(a), y) <=> ms_contains(a, y) /\ y # c
  BY <1>0, MsTake
<1>2. Waits(st, c, t)
  BY <1>0, <1>1 DEF Sound, WaitOK
<1>3. wc \in [Tubes -> MsOf(Conns)]
  BY <1>0, <1>1 DEF TubeRec
<1>4. \A x \in Tubes :
         /\ ~ms_contains(st.conn[c].watch, x) => wc[x] = st.tube[x].waiting_conns
         /\ Single(wc[x])
         /\ \A d \in Conns \ {c} : ms_contains(wc[x], d)
                                      <=> ms_contains(st.tube[x].waiting_conns, d)
  <2> SUFFICES ASSUME NEW x \in Tubes
               PROVE  /\ ~ms_contains(st.conn[c].watch, x) => wc[x] = st.tube[x].waiting_conns
                      /\ Single(wc[x])
                      /\ \A d \in Conns \ {c} : ms_contains(wc[x], d)
                                      <=> ms_contains(st.tube[x].waiting_conns, d)
    OBVIOUS
  <2>1. CASE x = t
    BY <1>1, <1>2, <2>1 DEF Waits
  <2>2. CASE x # t
    BY <1>0, <2>2 DEF Sound, WaitOK
  <2> QED
    BY <2>1, <2>2
<1>5. q = [st EXCEPT !.tube = T]
  <2> DEFINE Q == [st.tube EXCEPT ![t].waiting_conns = ms_take(a)]
  <2>1. q = [st EXCEPT !.tube = Q]
    BY <1>0 DEF Store
  <2>2. Q = T
    <3>1. \A x \in Tubes : x # t => [st.tube[x] EXCEPT !.waiting_conns = wc[x]] = st.tube[x]
      BY <1>0 DEF TubeRec
    <3>2. Q = [x \in Tubes |-> IF x = t THEN [st.tube[t] EXCEPT !.waiting_conns = ms_take(a)] ELSE st.tube[x]]
      BY <1>0
    <3> QED
      BY <3>1, <3>2
  <2> QED
    BY <2>1, <2>2
<1>7. Taken(q, st, c, wc)
  <2> HIDE DEF wc, q
  <2> QED
    BY <1>2, <1>3, <1>4, <1>5 DEF Taken, Waits
<1> HIDE DEF wc, q
<1>6. Exact(remove_waiting_conn(q, c))
  BY <1>1, <1>7, Unwait
<1> QED
  BY <1>6 DEF q

\* enqueue_waiting_conn, with failed appends to the tubes in F.
LEMMA EnqueueWaiting ==
    ASSUME NEW st, Exact(st), NEW c \in Conns, st.conn[c].waiting = FALSE, c \notin st.closing,
           NEW F, F \subseteq Tubes, \A x \in F : ms_contains(st.conn[c].watch, x)
    PROVE  Exact(enqueue_waiting_conn(st, c, F))
<1> DEFINE r == enqueue_waiting_conn(st, c, F)
           g(x) == [st.tube[x] EXCEPT
                       !.waiting_conns = IF x \in F THEN @ ELSE ms_append(@, c), !.waiting_ct = @ + 1]
           T == [x \in Tubes |-> IF ms_contains(st.conn[c].watch, x) THEN g(x) ELSE st.tube[x]]
           k == [st.conn[c] EXCEPT !.waiting = TRUE]
           C == [st.conn EXCEPT ![c] = k]
           U == st.unlisted \cup {<<c, x>> : x \in F}
<1>0. /\ st \in Store /\ st.conn \in [Conns -> ConnRec] /\ st.conn[c] \in ConnRec /\ Sound(st)
      /\ st.tube \in [Tubes -> TubeRec] /\ st.unlisted \in SUBSET (Conns \X Tubes)
  BY DEF Exact, Sound, Store
<1>1. \A x \in Tubes : <<c, x>> \notin st.unlisted /\ ~ms_contains(st.tube[x].waiting_conns, c)
  <2>1. \A x \in Tubes : ~Waits(st, c, x)
    BY DEF Waits
  <2> QED
    BY <1>0, <2>1 DEF Sound, WaitOK
<1>2. k \in ConnRec
  BY <1>0 DEF ConnRec
<1>3. ASSUME NEW x \in Tubes
      PROVE  /\ g(x) \in TubeRec /\ g(x).name = st.tube[x].name /\ g(x).refs = st.tube[x].refs
             /\ g(x).using_ct = st.tube[x].using_ct /\ g(x).watching_ct = st.tube[x].watching_ct
             /\ g(x).waiting_ct = st.tube[x].waiting_ct + 1
             /\ Single(g(x).waiting_conns)
             /\ \A d : ms_contains(g(x).waiting_conns, d)
                            <=> ms_contains(st.tube[x].waiting_conns, d) \/ (d = c /\ x \notin F)
  <2> DEFINE f == st.tube[x]
             m == IF x \in F THEN f.waiting_conns ELSE ms_append(f.waiting_conns, c)
             z == f.waiting_ct + 1
  <2>1. f \in TubeRec /\ f.waiting_conns \in MsOf(Conns) /\ Single(f.waiting_conns)
        /\ ~ms_contains(f.waiting_conns, c) /\ z \in Int
    <3>1. st.tube[x] \in TubeRec
      BY <1>0
    <3>2. Single(st.tube[x].waiting_conns)
      BY <1>0 DEF Sound, WaitOK
    <3>3. ~ms_contains(st.tube[x].waiting_conns, c)
      BY <1>1
    <3>4. st.tube[x].waiting_conns \in MsOf(Conns) /\ st.tube[x].waiting_ct + 1 \in Int
      BY <3>1 DEF TubeRec
    <3> QED
      BY <3>1, <3>2, <3>3, <3>4
  <2> HIDE DEF f, z
  <2>2. /\ m \in MsOf(Conns) /\ Single(m)
        /\ \A d : ms_contains(m, d) <=> ms_contains(f.waiting_conns, d) \/ (d = c /\ x \notin F)
    <3>1. CASE x \in F
      BY <2>1, <3>1
    <3>2. CASE x \notin F
      BY <2>1, <3>2, MsAppend
    <3> QED
      BY <3>1, <3>2
  <2>3. g(x) = [f EXCEPT !.waiting_conns = m, !.waiting_ct = z]
    <3>1. [f EXCEPT !.waiting_conns = m].waiting_ct = f.waiting_ct
      BY <2>1 DEF TubeRec
    <3> QED
      BY <3>1 DEF f, z
  <2> HIDE DEF m, g
  <2>4. /\ g(x) \in TubeRec /\ g(x).name = f.name /\ g(x).refs = f.refs
        /\ g(x).using_ct = f.using_ct /\ g(x).watching_ct = f.watching_ct
        /\ g(x).waiting_ct = z /\ g(x).waiting_conns = m
    BY <2>1, <2>2, <2>3 DEF TubeRec
  <2> QED
    BY <2>2, <2>4 DEF f, z
<1>4. r = [st EXCEPT !.conn = C, !.unlisted = U, !.tube = T]
  <2>1. [st EXCEPT !.conn = C].unlisted = st.unlisted
    BY <1>0 DEF Store
  <2> QED
    BY <2>1 DEF enqueue_waiting_conn
<1> HIDE DEF g
<1>5. T \in [Tubes -> TubeRec] /\ U \in SUBSET (Conns \X Tubes) /\ C \in [Conns -> ConnRec]
  <2>1. T \in [Tubes -> TubeRec]
    BY <1>0, <1>3
  <2>2. U \in SUBSET (Conns \X Tubes)
    BY <1>0
  <2>3. C \in [Conns -> ConnRec]
    BY <1>0, <1>2
  <2> QED
    BY <2>1, <2>2, <2>3
<1>6. /\ r \in Store /\ r.conn = C /\ r.unlisted = U /\ r.tube = T
      /\ r.made = st.made /\ r.freed = st.freed /\ r.tubes = st.tubes /\ r.job = st.job
      /\ r.closing = st.closing /\ r.wild = st.wild
  <2> HIDE DEF T, U, C, r
  <2> QED
    BY <1>0, <1>4, <1>5 DEF Store
<1> HIDE DEF r
<1>7. ASSUME NEW x \in Tubes
      PROVE  /\ r.tube[x].name = st.tube[x].name /\ r.tube[x].refs = st.tube[x].refs
             /\ r.tube[x].using_ct = st.tube[x].using_ct
             /\ r.tube[x].watching_ct = st.tube[x].watching_ct
             /\ ~ms_contains(st.conn[c].watch, x) => r.tube[x] = st.tube[x]
             /\ ms_contains(st.conn[c].watch, x) =>
                 /\ r.tube[x].waiting_ct = st.tube[x].waiting_ct + 1
                 /\ Single(r.tube[x].waiting_conns)
                 /\ \A d \in Conns \ {c} : ms_contains(r.tube[x].waiting_conns, d)
                                             <=> ms_contains(st.tube[x].waiting_conns, d)
                 /\ ms_contains(r.tube[x].waiting_conns, c) <=> x \notin F
  <2>0. r.tube[x] = IF ms_contains(st.conn[c].watch, x) THEN g(x) ELSE st.tube[x]
    BY <1>6
  <2>1. CASE ms_contains(st.conn[c].watch, x)
    <3>1. r.tube[x] = g(x)
      BY <2>0, <2>1
    <3> QED
      BY <1>1, <1>3, <2>1, <3>1
  <2>2. CASE ~ms_contains(st.conn[c].watch, x)
    BY <2>0, <2>2
  <2> QED
    BY <2>1, <2>2
<1>8. ASSUME NEW x \in Tubes
      PROVE  /\ \A d \in Conns \ {c} : <<d, x>> \in r.unlisted <=> <<d, x>> \in st.unlisted
             /\ <<c, x>> \in r.unlisted <=> x \in F
  BY <1>1, <1>6
<1>9. Rewaits(r, st, c, 1)
  <2>1. r.conn = [st.conn EXCEPT ![c] = [@ EXCEPT !.waiting = (1 = 1)]]
    <3>1. (1 = 1) = TRUE
      OBVIOUS
    <3> QED
      BY <1>6, <3>1
  <2>2. st.conn[c].waiting = (1 = -1)
    <3>1. (1 = -1) = FALSE
      OBVIOUS
    <3> QED
      BY <3>1
  <2> HIDE DEF T, U, C
  <2> QED
    BY <1>6, <1>7, <1>8, <2>1, <2>2 DEF Rewaits
<1> QED
  BY <1>9, WaitChange DEF r

-----------------------------------------------------------------------------
(* The commands                                                            *)

\* The counters of users and watchers.
LEMMA CountUsing ==
    ASSUME NEW st, Sound(st), NEW t \in Tubes, st.tube[t].refs > 0
    PROVE  /\ Recounted(Touch(st, t, [st.tube[t] EXCEPT !.using_ct = @ + 1]), st, t, 0, 1, 0)
           /\ Recounted(Touch(st, t, [st.tube[t] EXCEPT !.using_ct = @ - 1]), st, t, 0, -1, 0)
           /\ Recounted(Touch(st, t, [st.tube[t] EXCEPT !.watching_ct = @ + 1]), st, t, 0, 0, 1)
           /\ Recounted(Touch(st, t, [st.tube[t] EXCEPT !.watching_ct = @ - 1]), st, t, 0, 0, -1)
<1>1. st.tube[t].refs + 0 > 0 /\ 0 \in Int /\ 1 \in Int /\ -1 \in Int
  BY DEF Sound, Store, TubeRec
<1> DEFINE r(b, d) == [st EXCEPT !.tube[t] = Counted(st.tube[t], 0, b, d)]
<1>2. \A b, d \in Int : Recounted(r(b, d), st, t, 0, b, d)
  BY <1>1, CountStep
<1>3. /\ Touch(st, t, [st.tube[t] EXCEPT !.using_ct = @ + 1]) = r(1, 0)
      /\ Touch(st, t, [st.tube[t] EXCEPT !.using_ct = @ - 1]) = r(-1, 0)
      /\ Touch(st, t, [st.tube[t] EXCEPT !.watching_ct = @ + 1]) = r(0, 1)
      /\ Touch(st, t, [st.tube[t] EXCEPT !.watching_ct = @ - 1]) = r(0, -1)
  BY Counting
<1> HIDE DEF r
<1>4. /\ Recounted(r(1, 0), st, t, 0, 1, 0) /\ Recounted(r(-1, 0), st, t, 0, -1, 0)
      /\ Recounted(r(0, 1), st, t, 0, 0, 1) /\ Recounted(r(0, -1), st, t, 0, 0, -1)
  BY <1>1, <1>2
<1> QED
  BY <1>3, <1>4

\* A tube that is referred to has a count.
LEMMA Counted1 ==
    ASSUME NEW st, Sound(st), NEW t \in Tubes, References(st, t) > 0, Off(st, t) >= 0
    PROVE  st.tube[t].refs > 0
BY Distances, RefTypes

\* A tube that a connection or a job points to is there.
LEMMA PointedThere ==
    ASSUME NEW st, Exact(st), NEW t \in Tubes,
           \/ \E c \in Conns : Weight(st.conn[c], t) > 0
           \/ \E j \in Jobs : st.job[j] = t
           \/ t = Default
    PROVE  References(st, t) > 0 /\ st.tube[t].refs > 0
<1>1. References(st, t) > 0
  BY Pointed
<1>2. Sound(st) /\ Off(st, t) >= 0
  BY DEF Exact
<1> QED
  BY <1>1, <1>2, Counted1

\* The record k of a connection is old but for the job pointers.
SameUse(k, old) ==
    /\ k \in ConnRec
    /\ k.use = old.use /\ k.watch = old.watch /\ k.waiting = old.waiting /\ k.open = old.open

\* A job is made or copied: the connection gets a pointer to its tube, which is
\* there, and then the reference is counted.
LEMMA TakeJob ==
    ASSUME NEW st, Exact(st), NEW c \in Conns, NEW k, SameUse(k, st.conn[c]), c \notin st.closing,
           NEW t \in Tubes, st.tube[t].refs > 0,
           \A x \in Tubes : Weight(k, x) = Weight(st.conn[c], x) + One(x = t),
           NEW r, r = [st EXCEPT !.conn[c] = k]
    PROVE  Exact(TUBE_ASSIGN(r, Nil, t))
<1>0. Sound(st) /\ ConnOK(st.conn[c], c \in st.closing) /\ k \in ConnRec
  BY DEF Exact, Sound, SameUse
<1>1. ConnOK(k, c \in st.closing)
  BY <1>0 DEF ConnOK, SameUse
<1>2. Repointed(r, st, c, k)
  BY <1>0, <1>1, ConnSet DEF SameUse
<1>3. r.tube[t].refs > 0 /\ Sound(r)
  BY <1>2 DEF Repointed
<1>4. Recounted(tube_iref(r, t), r, t, 1, 0, 0)
  BY <1>3, TakeRef
<1>5. TUBE_ASSIGN(r, Nil, t) = tube_iref(r, t)
  BY DEF TUBE_ASSIGN, tube_dref
<1>6. ASSUME NEW x \in Tubes
      PROVE  Off(tube_iref(r, t), x) = 0 /\ OffUse(tube_iref(r, t), x) = 0 /\ OffWatch(tube_iref(r, t), x) = 0
  <2>1. Off(st, x) = 0 /\ OffUse(st, x) = 0 /\ OffWatch(st, x) = 0
    BY DEF Exact
  <2>2. Weight(st.conn[c], x) \in Int
    BY DEF Weight, One
  <2>3. Off(r, x) = 0 + Weight(st.conn[c], x) - (Weight(st.conn[c], x) + One(x = t))
    BY <1>2, <2>1 DEF Repointed
  <2>4. OffUse(r, x) = 0 + One(st.conn[c].use = x) - One(st.conn[c].use = x)
        /\ OffWatch(r, x) = 0 + One(ms_contains(st.conn[c].watch, x)) - One(ms_contains(st.conn[c].watch, x))
    BY <1>2, <2>1 DEF Repointed, SameUse
  <2>5. Off(r, x) = (IF x = t THEN -1 ELSE 0) /\ OffUse(r, x) = 0 /\ OffWatch(r, x) = 0
    BY <2>2, <2>3, <2>4 DEF One
  <2> QED
    BY <1>4, <2>5 DEF Recounted, Shifted
<1> QED
  BY <1>4, <1>5, <1>6 DEF Exact, Recounted

\* A job is freed: the pointer goes, and then the reference.
LEMMA DropJob ==
    ASSUME NEW st, Exact(st), NEW c \in Conns, NEW k, SameUse(k, st.conn[c]), c \notin st.closing,
           NEW t \in Tubes \cup {Nil},
           \A x \in Tubes : Weight(st.conn[c], x) = Weight(k, x) + One(x = t),
           NEW r, r = [st EXCEPT !.conn[c] = k]
    PROVE  Exact(tube_dref(r, t)) /\ SamePointers(tube_dref(r, t), r) /\ Repointed(r, st, c, k)
<1>0. Sound(st) /\ ConnOK(st.conn[c], c \in st.closing) /\ k \in ConnRec
  BY DEF Exact, Sound, SameUse
<1>1. ConnOK(k, c \in st.closing)
  BY <1>0 DEF ConnOK, SameUse
<1>2. Repointed(r, st, c, k)
  BY <1>0, <1>1, ConnSet DEF SameUse
<1>3. ASSUME NEW x \in Tubes
      PROVE  Off(r, x) = (IF x = t THEN 1 ELSE 0) /\ OffUse(r, x) = 0 /\ OffWatch(r, x) = 0
  <2>1. Off(st, x) = 0 /\ OffUse(st, x) = 0 /\ OffWatch(st, x) = 0
    BY DEF Exact
  <2>2. Weight(k, x) \in Int
    BY DEF Weight, One
  <2>3. Off(r, x) = 0 + (Weight(k, x) + One(x = t)) - Weight(k, x)
    BY <1>2, <2>1 DEF Repointed
  <2>4. OffUse(r, x) = 0 + One(st.conn[c].use = x) - One(st.conn[c].use = x)
        /\ OffWatch(r, x) = 0 + One(ms_contains(st.conn[c].watch, x)) - One(ms_contains(st.conn[c].watch, x))
    BY <1>2, <2>1 DEF Repointed, SameUse
  <2> QED
    BY <2>2, <2>3, <2>4 DEF One
<1>4. Sound(r)
  BY <1>2 DEF Repointed
<1>5. CASE t = Nil
  <2>1. tube_dref(r, t) = r
    BY <1>5 DEF tube_dref
  <2>2. \A x \in Tubes : x # t
    BY <1>5, TubeNumbers
  <2>3. Exact(r) /\ SamePointers(r, r)
    BY <1>3, <1>4, <2>2 DEF Exact, SamePointers
  <2> QED
    BY <1>2, <2>1, <2>3
<1>6. CASE t \in Tubes
  <2>1. Dropped(tube_dref(r, t), r, t)
    BY <1>3, <1>4, <1>6, DropRef
  <2>2. Exact(tube_dref(r, t))
    BY <1>3, <2>1 DEF Dropped, Shifted, Exact
  <2> QED
    BY <1>2, <2>1, <2>2 DEF Dropped
<1> QED
  BY <1>5, <1>6

\* The record k of a connection is old, with a job pointer new in the place of gone.
JobPointer(k, old, new, gone) ==
    /\ SameUse(k, old)
    /\ \A x \in Tubes :
        /\ Weight(old, x) \in Int
        /\ Weight(k, x) = Weight(old, x) + One(x = new) - One(x = gone)

LEMMA JobPointers ==
    ASSUME NEW old \in ConnRec, NEW v \in Tubes \cup {Nil}
    PROVE  /\ JobPointer([old EXCEPT !.in_job = v], old, v, old.in_job)
           /\ JobPointer([old EXCEPT !.out_job = v], old, v, old.out_job)
<1> DEFINE k == [old EXCEPT !.in_job = v]
           h == [old EXCEPT !.out_job = v]
<1>1. /\ k \in ConnRec /\ k.use = old.use /\ k.watch = old.watch /\ k.waiting = old.waiting
      /\ k.open = old.open /\ k.in_job = v /\ k.out_job = old.out_job
  BY DEF ConnRec
<1>2. /\ h \in ConnRec /\ h.use = old.use /\ h.watch = old.watch /\ h.waiting = old.waiting
      /\ h.open = old.open /\ h.out_job = v /\ h.in_job = old.in_job
  BY DEF ConnRec
<1> HIDE DEF k, h
<1>3. ASSUME NEW x \in Tubes
      PROVE  /\ Weight(old, x) \in Int
             /\ Weight(k, x) = Weight(old, x) + One(x = v) - One(x = old.in_job)
             /\ Weight(h, x) = Weight(old, x) + One(x = v) - One(x = old.out_job)
  <2> DEFINE a == One(old.use = x)
             b == One(ms_contains(old.watch, x))
             i == One(old.in_job = x)
             o == One(old.out_job = x)
             n == One(v = x)
  <2>1. a \in Int /\ b \in Int /\ i \in Int /\ o \in Int /\ n \in Int
    BY DEF One
  <2>2. Weight(old, x) = a + b + i + o /\ Weight(k, x) = a + b + n + o /\ Weight(h, x) = a + b + i + n
    BY <1>1, <1>2 DEF Weight
  <2>3. One(x = v) = n /\ One(x = old.in_job) = i /\ One(x = old.out_job) = o
    BY DEF One
  <2> HIDE DEF a, b, i, o, n
  <2> QED
    BY <2>1, <2>2, <2>3
<1>4. SameUse(k, old) /\ SameUse(h, old)
  BY <1>1, <1>2 DEF SameUse
<1>5. JobPointer(k, old, v, old.in_job) /\ JobPointer(h, old, v, old.out_job)
  BY <1>3, <1>4 DEF JobPointer
<1> QED
  BY <1>5 DEF k, h

\* A connection that reads commands has a tube in use that is there.
LEMMA UseThere ==
    ASSUME NEW st, Exact(st), NEW c \in Conns, st.conn[c].open = TRUE
    PROVE  st.conn[c].use \in Tubes /\ st.tube[st.conn[c].use].refs > 0
           /\ References(st, st.conn[c].use) > 0
<1>1. st.conn[c].use \in Tubes
  BY DEF Exact, Sound, ConnOK
<1>2. Weight(st.conn[c], st.conn[c].use) > 0
  BY DEF Weight, One
<1> QED
  BY <1>1, <1>2, PointedThere

LEMMA PutStep ==
    ASSUME TInv, s.closing = {}, NEW c \in Conns, put(c)
    PROVE  TInv'
<1> DEFINE old == s.conn[c]
           k == [old EXCEPT !.in_job = old.use]
           r == [s EXCEPT !.conn[c] = k]
<1>1. /\ old \in ConnRec /\ old.open = TRUE /\ old.in_job = Nil /\ Exact(s)
      /\ s' = TUBE_ASSIGN([s EXCEPT !.conn[c].in_job = old.use], Nil, old.use)
  BY DEF TInv, Exact, Sound, Store, ConnRec, put, Idle
<1>2. old.use \in Tubes /\ s.tube[old.use].refs > 0
  BY <1>1, UseThere
<1>3. s' = TUBE_ASSIGN(r, Nil, old.use)
  BY <1>1
<1>4. SameUse(k, old) /\ \A x \in Tubes : Weight(k, x) = Weight(old, x) + One(x = old.use)
  <2>1. SameUse(k, old) /\ \A x \in Tubes : /\ Weight(old, x) \in Int
                                           /\ Weight(k, x) = Weight(old, x) + One(x = old.use) - One(x = Nil)
    <3>1. JobPointer(k, old, old.use, old.in_job)
      BY <1>1, <1>2, JobPointers
    <3> QED
      BY <1>1, <3>1 DEF JobPointer
  <2>2. \A x \in Tubes : One(x = Nil) = 0 /\ One(x = old.use) \in Int
    BY TubeNumbers DEF One
  <2> HIDE DEF k, old
  <2> QED
    BY <2>1, <2>2
<1> HIDE DEF k
<1>5. Exact(TUBE_ASSIGN(r, Nil, old.use))
  BY <1>1, <1>2, <1>4, TakeJob
<1> QED
  BY <1>3, <1>5 DEF TInv, Exact

LEMMA PeekStep ==
    ASSUME TInv, s.closing = {}, NEW c \in Conns, NEW j \in Jobs, peek(c, j)
    PROVE  TInv'
<1> DEFINE old == s.conn[c]
           t == s.job[j]
           k == [old EXCEPT !.out_job = t]
           r == [s EXCEPT !.conn[c] = k]
<1>1. /\ old \in ConnRec /\ old.out_job = Nil /\ Exact(s) /\ t \in Tubes
      /\ s' = TUBE_ASSIGN([s EXCEPT !.conn[c].out_job = t], Nil, t)
  BY DEF TInv, Exact, Sound, Store, ConnRec, peek, Idle, job_copy
<1>2. s.tube[t].refs > 0
  BY <1>1, PointedThere
<1>3. s' = TUBE_ASSIGN(r, Nil, t)
  BY <1>1
<1>4. SameUse(k, old) /\ \A x \in Tubes : Weight(k, x) = Weight(old, x) + One(x = t)
  <2>1. SameUse(k, old) /\ \A x \in Tubes : /\ Weight(old, x) \in Int
                                           /\ Weight(k, x) = Weight(old, x) + One(x = t) - One(x = Nil)
    <3>1. JobPointer(k, old, t, old.out_job)
      BY <1>1, JobPointers
    <3> QED
      BY <1>1, <3>1 DEF JobPointer
  <2>2. \A x \in Tubes : One(x = Nil) = 0 /\ One(x = t) \in Int
    BY TubeNumbers DEF One
  <2> HIDE DEF k, old, t
  <2> QED
    BY <2>1, <2>2
<1> HIDE DEF k, t
<1>5. Exact(TUBE_ASSIGN(r, Nil, t))
  BY <1>1, <1>2, <1>4, TakeJob
<1> QED
  BY <1>3, <1>5 DEF TInv, Exact

\* The job a connection reads is freed, or the copy it sends.
LEMMA FreeJobs ==
    ASSUME NEW st, Exact(st), st.closing = {}, NEW c \in Conns
    PROVE  /\ Exact(tube_dref([st EXCEPT !.conn[c].in_job = Nil], st.conn[c].in_job))
           /\ SamePointers(tube_dref([st EXCEPT !.conn[c].in_job = Nil], st.conn[c].in_job),
                           [st EXCEPT !.conn[c].in_job = Nil])
           /\ Exact(tube_dref([st EXCEPT !.conn[c].out_job = Nil], st.conn[c].out_job))
           /\ SamePointers(tube_dref([st EXCEPT !.conn[c].out_job = Nil], st.conn[c].out_job),
                           [st EXCEPT !.conn[c].out_job = Nil])
<1> DEFINE old == st.conn[c]
           k == [old EXCEPT !.in_job = Nil]
           h == [old EXCEPT !.out_job = Nil]
<1>1. old \in ConnRec /\ old.in_job \in Tubes \cup {Nil} /\ old.out_job \in Tubes \cup {Nil} /\ Nil \in Tubes \cup {Nil}
  BY DEF Exact, Sound, Store, ConnRec
<1>2. /\ SameUse(k, old) /\ SameUse(h, old)
      /\ \A x \in Tubes : /\ Weight(old, x) = Weight(k, x) + One(x = old.in_job)
                          /\ Weight(old, x) = Weight(h, x) + One(x = old.out_job)
  <2>1. /\ SameUse(k, old) /\ SameUse(h, old)
        /\ \A x \in Tubes :
            /\ Weight(old, x) \in Int
            /\ Weight(k, x) = Weight(old, x) + One(x = Nil) - One(x = old.in_job)
            /\ Weight(h, x) = Weight(old, x) + One(x = Nil) - One(x = old.out_job)
    <3>1. JobPointer(k, old, Nil, old.in_job) /\ JobPointer(h, old, Nil, old.out_job)
      BY <1>1, JobPointers
    <3> HIDE DEF k, h, old
    <3> QED
      BY <3>1 DEF JobPointer
  <2>2. \A x \in Tubes : One(x = Nil) = 0 /\ One(x = old.in_job) \in Int /\ One(x = old.out_job) \in Int
    BY TubeNumbers DEF One
  <2> HIDE DEF k, h, old
  <2> QED
    BY <2>1, <2>2
<1>3. /\ [st EXCEPT !.conn[c].in_job = Nil] = [st EXCEPT !.conn[c] = k]
      /\ [st EXCEPT !.conn[c].out_job = Nil] = [st EXCEPT !.conn[c] = h]
  OBVIOUS
<1> HIDE DEF k, h
<1>4. /\ Exact(tube_dref([st EXCEPT !.conn[c] = k], old.in_job))
      /\ SamePointers(tube_dref([st EXCEPT !.conn[c] = k], old.in_job), [st EXCEPT !.conn[c] = k])
  BY <1>1, <1>2, DropJob
<1>5. /\ Exact(tube_dref([st EXCEPT !.conn[c] = h], old.out_job))
      /\ SamePointers(tube_dref([st EXCEPT !.conn[c] = h], old.out_job), [st EXCEPT !.conn[c] = h])
  BY <1>1, <1>2, DropJob
<1> QED
  BY <1>3, <1>4, <1>5

LEMMA BadTrailerStep ==
    ASSUME TInv, s.closing = {}, NEW c \in Conns, bad_trailer(c)
    PROVE  TInv'
<1>1. Exact(tube_dref([s EXCEPT !.conn[c].in_job = Nil], s.conn[c].in_job))
  BY FreeJobs DEF TInv
<1>2. s' = tube_dref([s EXCEPT !.conn[c].in_job = Nil], s.conn[c].in_job)
  BY DEF bad_trailer
<1> QED
  BY <1>1, <1>2 DEF TInv, Exact

LEMMA CopySentStep ==
    ASSUME TInv, s.closing = {}, NEW c \in Conns, conn_want_command(c)
    PROVE  TInv'
<1>1. Exact(tube_dref([s EXCEPT !.conn[c].out_job = Nil], s.conn[c].out_job))
  BY FreeJobs DEF TInv
<1>2. s' = tube_dref([s EXCEPT !.conn[c].out_job = Nil], s.conn[c].out_job)
  BY DEF conn_want_command
<1> QED
  BY <1>1, <1>2 DEF TInv, Exact

\* The reference goes from the connection to the stored job.
LEMMA StoreJobStep ==
    ASSUME TInv, s.closing = {}, NEW c \in Conns, NEW j \in Jobs, enqueue_incoming_job(c, j)
    PROVE  TInv'
<1> DEFINE old == s.conn[c]
           v == old.in_job
           k == [old EXCEPT !.in_job = Nil]
           q == [s EXCEPT !.job[j] = v]
           r == [q EXCEPT !.conn[c] = k]
<1>1. old \in ConnRec /\ v \in Tubes /\ Exact(s) /\ Sound(s) /\ s.job[j] = Nil /\ Nil \in Tubes \cup {Nil}
  BY DEF TInv, Exact, Sound, Store, ConnRec, enqueue_incoming_job
<1>2. Rejobbed(q, s, j, v)
  BY <1>1, JobSet
<1>3. Sound(q) /\ q.conn[c] = old /\ q.closing = s.closing
  BY <1>2 DEF Rejobbed
<1>4. s' = r
  <2>1. s' = [s EXCEPT !.job[j] = v, !.conn[c].in_job = Nil]
    BY DEF enqueue_incoming_job
  <2> QED
    BY <1>3, <2>1
<1>5. JobPointer(k, old, Nil, v)
  BY <1>1, JobPointers
<1> HIDE DEF k, q
<1>6. Repointed(r, q, c, k)
  <2>1. ConnOK(k, c \in q.closing) /\ k \in ConnRec /\ k.waiting = old.waiting /\ k.watch = old.watch
    <3>1. ConnOK(old, c \in s.closing)
      BY <1>1 DEF Sound
    <3>2. SameUse(k, old) /\ c \notin q.closing
      BY <1>3, <1>5 DEF JobPointer
    <3> QED
      BY <3>1, <3>2 DEF ConnOK, SameUse
  <2> QED
    BY <1>3, <2>1, ConnSet
<1>7. ASSUME NEW x \in Tubes
      PROVE  Off(r, x) = 0 /\ OffUse(r, x) = 0 /\ OffWatch(r, x) = 0
  <2>1. Off(s, x) = 0 /\ OffUse(s, x) = 0 /\ OffWatch(s, x) = 0
    BY <1>1 DEF Exact
  <2>2. One(s.job[j] = x) = 0 /\ One(x = Nil) = 0 /\ One(v = x) = One(x = v) /\ One(x = v) \in Int
    BY <1>1, TubeNumbers DEF One
  <2>3. Off(q, x) = 0 + One(s.job[j] = x) - One(v = x) /\ OffUse(q, x) = 0 /\ OffWatch(q, x) = 0
    BY <1>2, <2>1 DEF Rejobbed
  <2>4. Weight(old, x) \in Int /\ Weight(k, x) = Weight(old, x) + One(x = Nil) - One(x = v)
    BY <1>5 DEF JobPointer
  <2>5. /\ Off(r, x) = Off(q, x) + Weight(old, x) - Weight(k, x)
        /\ OffUse(r, x) = OffUse(q, x) + One(old.use = x) - One(old.use = x)
        /\ OffWatch(r, x) = OffWatch(q, x) + One(ms_contains(old.watch, x)) - One(ms_contains(old.watch, x))
    BY <1>3, <1>5, <1>6 DEF Repointed, JobPointer, SameUse
  <2>6. One(old.use = x) \in Int /\ One(ms_contains(old.watch, x)) \in Int
    BY DEF One
  <2>7. OffUse(r, x) = 0 /\ OffWatch(r, x) = 0
    BY <2>3, <2>5, <2>6
  <2>8. Off(r, x) = 0
    BY <2>2, <2>3, <2>4, <2>5
  <2> QED
    BY <2>7, <2>8
<1>8. Exact(r)
  BY <1>6, <1>7 DEF Repointed, Exact
<1> QED
  BY <1>4, <1>8 DEF TInv, Exact

LEMMA DeleteStep ==
    ASSUME TInv, s.closing = {}, NEW c \in Conns, NEW j \in Jobs, delete(c, j)
    PROVE  TInv'
<1> DEFINE t == s.job[j]
           r == [s EXCEPT !.job[j] = Nil]
<1>1. t \in Tubes /\ Exact(s) /\ Sound(s) /\ Nil \in Tubes \cup {Nil}
  BY DEF TInv, Exact, Sound, Store, delete
<1>2. Rejobbed(r, s, j, Nil)
  BY <1>1, JobSet
<1>3. s' = tube_dref(r, t)
  BY DEF delete
<1> HIDE DEF r
<1>4. \A x \in Tubes : Off(r, x) = (IF x = t THEN 1 ELSE 0) /\ OffUse(r, x) = 0 /\ OffWatch(r, x) = 0
  <2> SUFFICES ASSUME NEW x \in Tubes
               PROVE  Off(r, x) = (IF x = t THEN 1 ELSE 0) /\ OffUse(r, x) = 0 /\ OffWatch(r, x) = 0
    OBVIOUS
  <2>1. Off(s, x) = 0 /\ OffUse(s, x) = 0 /\ OffWatch(s, x) = 0
    BY <1>1 DEF Exact
  <2>2. One(Nil = x) = 0 /\ One(t = x) = IF x = t THEN 1 ELSE 0
    BY TubeNumbers DEF One
  <2>3. Off(r, x) = 0 + One(t = x) - One(Nil = x) /\ OffUse(r, x) = 0 /\ OffWatch(r, x) = 0
    BY <1>2, <2>1 DEF Rejobbed
  <2> QED
    BY <2>2, <2>3
<1>5. Sound(r)
  BY <1>2 DEF Rejobbed
<1> HIDE DEF t
<1>6. Dropped(tube_dref(r, t), r, t)
  BY <1>1, <1>4, <1>5, DropRef
<1>7. Exact(tube_dref(r, t))
  BY <1>4, <1>6 DEF Dropped, Shifted, Exact
<1> QED
  BY <1>3, <1>7 DEF TInv, Exact

LEMMA ReserveStep ==
    ASSUME TInv, s.closing = {}, NEW c \in Conns, reserve(c)
    PROVE  TInv'
<1>0. s.conn[c].watch \in MsOf(Tubes) /\ s.conn[c].waiting = FALSE /\ Exact(s)
  BY DEF TInv, Exact, Sound, Store, ConnRec, reserve, Idle
<1>1. PICK F \in SUBSET ToSet(s.conn[c].watch.items) : s' = enqueue_waiting_conn(s, c, F)
  BY DEF reserve
<1>2. \A x \in F : x \in Tubes /\ ms_contains(s.conn[c].watch, x)
  BY <1>0 DEF MsOf, ToSet, ms_contains, Contains
<1>3. Exact(enqueue_waiting_conn(s, c, F))
  BY <1>0, <1>2, EnqueueWaiting
<1> QED
  BY <1>1, <1>3 DEF TInv, Exact

LEMMA TimeoutStep ==
    ASSUME TInv, NEW c \in Conns, conn_timeout(c)
    PROVE  TInv'
<1>1. Exact(remove_waiting_conn(s, c)) /\ s' = remove_waiting_conn(s, c)
  BY RemoveWaiting DEF TInv, conn_timeout
<1> QED
  BY <1>1 DEF TInv, Exact

LEMMA ProcessQueueStep ==
    ASSUME TInv, NEW t \in Tubes, process_queue(t)
    PROVE  TInv'
<1> DEFINE c == ms_taken(s.tube[t].waiting_conns)
<1>1. Exact(remove_waiting_conn([s EXCEPT !.tube[t].waiting_conns = ms_take(@)], c))
  BY TakeWaiting DEF TInv, process_queue
<1>2. s' = remove_waiting_conn([s EXCEPT !.tube[t].waiting_conns = ms_take(@)], c)
  BY DEF process_queue
<1> HIDE DEF c
<1> QED
  BY <1>1, <1>2 DEF TInv, Exact

\* The connection whose watch list is being cleared is another.
LEMMA SetClosing ==
    ASSUME NEW st, Exact(st), NEW K \in SUBSET Conns, \A c \in Conns : ConnOK(st.conn[c], c \in K)
    PROVE  Exact([st EXCEPT !.closing = K])
<1> DEFINE r == [st EXCEPT !.closing = K]
<1>1. /\ r \in Store /\ r.conn = st.conn /\ r.job = st.job /\ r.tube = st.tube /\ r.tubes = st.tubes
      /\ r.made = st.made /\ r.freed = st.freed /\ r.unlisted = st.unlisted /\ r.wild = st.wild
      /\ r.closing = K
  BY DEF Exact, Sound, Store
<1> HIDE DEF r
<1>2. Blank(r) /\ Listed(r) /\ WaitOK(r)
  <2>1. Blank(r)
    BY <1>1 DEF Exact, Sound, Blank
  <2>2. Listed(r)
    BY <1>1 DEF Exact, Sound, Listed
  <2>3. WaitOK(r)
    BY <1>1 DEF Exact, Sound, WaitOK, Waiters, Waits
  <2> QED
    BY <2>1, <2>2, <2>3
<1>3. Sound(r)
  BY <1>1, <1>2 DEF Exact, Sound
<1>4. ASSUME NEW x \in Tubes PROVE Off(r, x) = 0 /\ OffUse(r, x) = 0 /\ OffWatch(r, x) = 0
  <2>1. Off(r, x) = Off(st, x) /\ OffUse(r, x) = OffUse(st, x) /\ OffWatch(r, x) = OffWatch(st, x)
    BY <1>1 DEF Off, OffUse, OffWatch, References, UsedBy, WatchedBy, JobsOf, ReadBy, CopiedBy
  <2> QED
    BY <2>1 DEF Exact
<1> QED
  BY <1>3, <1>4 DEF Exact, r

LEMMA ConncloseStep ==
    ASSUME TInv, s.closing = {}, NEW c \in Conns, connclose(c)
    PROVE  TInv'
<1> DEFINE p == [s EXCEPT !.conn[c].in_job = Nil]
           freed == tube_dref(p, s.conn[c].in_job)
           u == [freed EXCEPT !.conn[c].out_job = Nil]
           both == tube_dref(u, s.conn[c].out_job)
           r == remove_waiting_conn(both, c)
<1>0. s.conn \in [Conns -> ConnRec] /\ s.conn[c] \in ConnRec /\ Exact(s) /\ s.conn[c].open = TRUE /\ s \in Store
  BY DEF TInv, Exact, Sound, Store, ConnRec, connclose
<1>1. s' = [r EXCEPT !.closing = {c}]
  BY DEF connclose
<1>2. Exact(freed) /\ SamePointers(freed, p)
  BY <1>0, FreeJobs
<1>3. /\ p.conn = [s.conn EXCEPT ![c] = [@ EXCEPT !.in_job = Nil]] /\ p.closing = s.closing
  BY <1>0 DEF Store
<1>4. freed.conn = [s.conn EXCEPT ![c] = [@ EXCEPT !.in_job = Nil]] /\ freed.closing = {}
  BY <1>2, <1>3 DEF SamePointers
<1>5. /\ freed.conn[c].out_job = s.conn[c].out_job /\ freed.conn[c].in_job = Nil
      /\ freed.conn[c].open = TRUE /\ freed.conn \in [Conns -> ConnRec] /\ freed \in Store
  <2>1. freed \in Store /\ freed.conn \in [Conns -> ConnRec]
    BY <1>2 DEF Exact, Sound, Store
  <2> DEFINE k == [s.conn[c] EXCEPT !.in_job = Nil]
  <2>2. k.out_job = s.conn[c].out_job /\ k.in_job = Nil /\ k.open = TRUE
    BY <1>0 DEF ConnRec
  <2> HIDE DEF k, freed
  <2>3. freed.conn[c] = k
    BY <1>0, <1>4 DEF k
  <2> QED
    BY <2>1, <2>2, <2>3
<1> HIDE DEF freed
<1>6. both = tube_dref(u, freed.conn[c].out_job)
  BY <1>5
<1>7. Exact(both) /\ SamePointers(both, u)
  BY <1>2, <1>4, <1>6, FreeJobs
<1>8. u.conn = [freed.conn EXCEPT ![c] = [@ EXCEPT !.out_job = Nil]] /\ u.closing = {}
  BY <1>4, <1>5 DEF Store
<1>9. /\ both.conn[c].in_job = Nil /\ both.conn[c].out_job = Nil /\ both.conn[c].open = TRUE
      /\ both.conn \in [Conns -> ConnRec] /\ both.closing = {}
  <2>1. both.conn \in [Conns -> ConnRec] /\ both.conn = u.conn /\ both.closing = {}
    BY <1>7, <1>8 DEF Exact, Sound, Store, SamePointers
  <2> DEFINE k == [freed.conn[c] EXCEPT !.out_job = Nil]
  <2>2. k.out_job = Nil /\ k.in_job = Nil /\ k.open = TRUE
    BY <1>5 DEF ConnRec
  <2>3. u.conn[c] = k
    BY <1>5, <1>8
  <2> HIDE DEF k, both, u
  <2> QED
    BY <2>1, <2>2, <2>3
<1> HIDE DEF both
<1>10. /\ Exact(r) /\ r.conn = [both.conn EXCEPT ![c] = [@ EXCEPT !.waiting = FALSE]] /\ r.closing = {}
  BY <1>7, <1>9, RemoveWaiting
<1>11. /\ r.conn[c].in_job = Nil /\ r.conn[c].out_job = Nil /\ r.conn[c].open = TRUE
       /\ r.conn[c].waiting = FALSE
  <2> DEFINE k == [both.conn[c] EXCEPT !.waiting = FALSE]
  <2>1. k.out_job = Nil /\ k.in_job = Nil /\ k.open = TRUE /\ k.waiting = FALSE
    BY <1>9 DEF ConnRec
  <2>2. r.conn[c] = k
    BY <1>9, <1>10
  <2> HIDE DEF k, r
  <2> QED
    BY <2>1, <2>2
<1> HIDE DEF r
<1>12. \A d \in Conns : ConnOK(r.conn[d], d \in {c})
  <2>1. \A d \in Conns : ConnOK(r.conn[d], FALSE)
    <3>1. \A d \in Conns : ConnOK(r.conn[d], d \in r.closing)
      BY <1>10 DEF Exact, Sound
    <3> QED
      BY <1>10, <3>1 DEF ConnOK
  <2> QED
    BY <1>11, <2>1 DEF ConnOK
<1>13. Exact([r EXCEPT !.closing = {c}])
  BY <1>10, <1>12, SetClosing
<1> QED
  BY <1>1, <1>13 DEF TInv, Exact

\* The record k of a connection is old but for its watch list, and it does not wait.
SameJobs(k, old) ==
    /\ k \in ConnRec
    /\ k.use = old.use /\ k.in_job = old.in_job /\ k.out_job = old.out_job /\ k.open = old.open
    /\ k.waiting = FALSE /\ old.waiting = FALSE

\* How the counts are off when a watch list changes.
LEMMA WatchWeight ==
    ASSUME NEW st, NEW c, NEW r, NEW k, SameJobs(k, st.conn[c]), Repointed(r, st, c, k), Sound(st),
           NEW x \in Tubes
    PROVE  /\ Off(r, x) = Off(st, x) + One(ms_contains(st.conn[c].watch, x)) - One(ms_contains(k.watch, x))
           /\ OffUse(r, x) = OffUse(st, x)
           /\ OffWatch(r, x) = OffWatch(st, x) + One(ms_contains(st.conn[c].watch, x)) - One(ms_contains(k.watch, x))
<1> DEFINE old == st.conn[c]
           a == One(old.use = x)
           b == One(ms_contains(old.watch, x))
           d == One(ms_contains(k.watch, x))
           i == One(old.in_job = x)
           o == One(old.out_job = x)
<1>1. a \in Int /\ b \in Int /\ d \in Int /\ i \in Int /\ o \in Int
  BY DEF One
<1>2. Weight(old, x) = a + b + i + o /\ Weight(k, x) = a + d + i + o
  BY DEF Weight, SameJobs
<1>3. /\ Off(r, x) = Off(st, x) + Weight(old, x) - Weight(k, x)
      /\ OffUse(r, x) = OffUse(st, x) + a - a
      /\ OffWatch(r, x) = OffWatch(st, x) + b - d
  BY DEF Repointed, SameJobs
<1>4. Off(st, x) \in Int /\ OffUse(st, x) \in Int /\ OffWatch(st, x) \in Int
  BY Distances
<1> HIDE DEF a, b, d, i, o, old
<1>5. /\ Off(r, x) = Off(st, x) + b - d /\ OffUse(r, x) = OffUse(st, x)
      /\ OffWatch(r, x) = OffWatch(st, x) + b - d
  BY <1>1, <1>2, <1>3, <1>4
<1> QED
  BY <1>5 DEF b, d, old

\* A tube leaves a watch list: on_ignore counts it out and drops the reference.
LEMMA Unwatch ==
    ASSUME NEW st, Exact(st), NEW c \in Conns, NEW k, SameJobs(k, st.conn[c]), Single(k.watch),
           NEW t \in Tubes, ms_contains(st.conn[c].watch, t),
           \A x \in Tubes : ms_contains(k.watch, x) <=> ms_contains(st.conn[c].watch, x) /\ x # t,
           NEW r, r = [st EXCEPT !.conn[c] = k]
    PROVE  Exact(on_ignore(r, t))
<1> DEFINE q == Touch(r, t, [r.tube[t] EXCEPT !.watching_ct = @ - 1])
<1>0. Sound(st) /\ ConnOK(st.conn[c], c \in st.closing)
  BY DEF Exact, Sound
<1>1. Repointed(r, st, c, k)
  <2>1. ConnOK(k, c \in st.closing)
    BY <1>0 DEF ConnOK, SameJobs
  <2> QED
    BY <1>0, <2>1, ConnSet DEF SameJobs
<1>2. \A x \in Tubes : /\ Off(r, x) = (IF x = t THEN 1 ELSE 0) /\ OffUse(r, x) = 0
                       /\ OffWatch(r, x) = (IF x = t THEN 1 ELSE 0)
  <2> SUFFICES ASSUME NEW x \in Tubes
               PROVE  /\ Off(r, x) = (IF x = t THEN 1 ELSE 0) /\ OffUse(r, x) = 0
                      /\ OffWatch(r, x) = (IF x = t THEN 1 ELSE 0)
    OBVIOUS
  <2>1. Off(st, x) = 0 /\ OffUse(st, x) = 0 /\ OffWatch(st, x) = 0
    BY DEF Exact
  <2>2. One(ms_contains(st.conn[c].watch, x)) - One(ms_contains(k.watch, x)) = (IF x = t THEN 1 ELSE 0)
        /\ 0 + One(ms_contains(st.conn[c].watch, x)) - One(ms_contains(k.watch, x)) = (IF x = t THEN 1 ELSE 0)
    BY DEF One
  <2>3. /\ Off(r, x) = 0 + One(ms_contains(st.conn[c].watch, x)) - One(ms_contains(k.watch, x))
        /\ OffUse(r, x) = 0
        /\ OffWatch(r, x) = 0 + One(ms_contains(st.conn[c].watch, x)) - One(ms_contains(k.watch, x))
    BY <1>0, <1>1, <2>1, WatchWeight
  <2> QED
    BY <2>2, <2>3
<1>3. Sound(r) /\ r.tube[t].refs > 0
  <2>1. Weight(st.conn[c], t) > 0
    BY DEF Weight, One
  <2>2. st.tube[t].refs > 0
    BY <2>1, PointedThere
  <2> QED
    BY <1>1, <2>2 DEF Repointed
<1>4. Recounted(q, r, t, 0, 0, -1)
  BY <1>3, CountUsing
<1>5. on_ignore(r, t) = tube_dref(q, t)
  BY DEF on_ignore
<1> HIDE DEF q
<1>6. Sound(q) /\ \A x \in Tubes : /\ Off(q, x) = (IF x = t THEN 1 ELSE 0)
                                   /\ OffUse(q, x) = 0 /\ OffWatch(q, x) = 0
  BY <1>2, <1>4 DEF Recounted, Shifted
<1>7. Dropped(tube_dref(q, t), q, t)
  BY <1>6, DropRef
<1>8. Exact(tube_dref(q, t))
  BY <1>6, <1>7 DEF Dropped, Shifted, Exact
<1> QED
  BY <1>5, <1>8

LEMMA IgnoreStep ==
    ASSUME TInv, NEW c \in Conns, NEW n \in AnyName, ignore(c, n)
    PROVE  TInv'
<1> DEFINE old == s.conn[c]
           t == tube_find(s, old.watch, n)
           m == ms_remove(old.watch, t)
           k == [old EXCEPT !.watch = m]
           r == [s EXCEPT !.conn[c] = k]
<1>0. /\ Exact(s) /\ old \in ConnRec /\ old.watch \in MsOf(Tubes) /\ Single(old.watch)
      /\ old.waiting = FALSE
  BY DEF TInv, Exact, Sound, Store, ConnRec, ConnOK, ignore, Idle
<1>1. t \in Tubes /\ ms_contains(old.watch, t)
  BY <1>0, TubeFind DEF ignore
<1>2. m \in MsOf(Tubes) /\ Single(m) /\ \A x : ms_contains(m, x) <=> ms_contains(old.watch, x) /\ x # t
  BY <1>0, MsRemove
<1>3. s' = on_ignore(r, t)
  BY DEF ignore
<1> HIDE DEF t, m
<1>4. SameJobs(k, old) /\ k.watch = m
  BY <1>0, <1>2 DEF SameJobs, ConnRec
<1> HIDE DEF k
<1>5. Exact(on_ignore(r, t))
  <2>1. Single(k.watch) /\ \A x \in Tubes : ms_contains(k.watch, x) <=> ms_contains(old.watch, x) /\ x # t
    BY <1>2, <1>4
  <2> QED
    BY <1>0, <1>1, <1>4, <2>1, Unwatch
<1> QED
  BY <1>3, <1>5 DEF TInv, Exact

LEMMA ClearStep ==
    ASSUME TInv, NEW c \in s.closing, ms_clear(c)
    PROVE  TInv'
<1> DEFINE old == s.conn[c]
           t == old.watch.items[1]
           m == ms_delete(old.watch, 0)
           k == [old EXCEPT !.watch = m]
           r == [s EXCEPT !.conn[c] = k]
<1>9. c \in Conns
  BY DEF TInv, Exact, Sound, Store
<1>0. /\ Exact(s) /\ old \in ConnRec /\ old.watch \in MsOf(Tubes) /\ Single(old.watch)
      /\ old.waiting = FALSE
  BY <1>9 DEF TInv, Exact, Sound, Store, ConnRec, ConnOK
<1>1. t \in Tubes /\ ms_contains(old.watch, t) /\ 0 \in 0..(Len(old.watch.items) - 1)
  BY <1>0, MsFirst DEF ms_clear
<1>2. m \in MsOf(Tubes) /\ Single(m) /\ \A x : ms_contains(m, x) <=> ms_contains(old.watch, x) /\ x # t
  <2>1. /\ m \in MsOf(Tubes) /\ Single(m)
        /\ \A x : ms_contains(m, x) <=> ms_contains(old.watch, x) /\ x # old.watch.items[0 + 1]
    BY <1>0, <1>1, MsDelete
  <2> QED
    BY <2>1
<1>3. s' = on_ignore(r, t)
  BY DEF ms_clear
<1> HIDE DEF t, m
<1>4. SameJobs(k, old) /\ k.watch = m
  BY <1>0, <1>2 DEF SameJobs, ConnRec
<1> HIDE DEF k
<1>5. Exact(on_ignore(r, t))
  <2>1. Single(k.watch) /\ \A x \in Tubes : ms_contains(k.watch, x) <=> ms_contains(old.watch, x) /\ x # t
    BY <1>2, <1>4
  <2> QED
    BY <1>0, <1>1, <1>4, <1>9, <2>1, Unwatch
<1> QED
  BY <1>3, <1>5 DEF TInv, Exact

\* A tube that is held joins a watch list: the counts are as far off as before.
LEMMA NewWatch ==
    ASSUME NEW st, Sound(st), NEW c \in Conns, NEW k, SameJobs(k, st.conn[c]), Single(k.watch),
           NEW t \in Tubes, st.tube[t].refs > 0, ~ms_contains(st.conn[c].watch, t),
           \A x \in Tubes : ms_contains(k.watch, x) <=> ms_contains(st.conn[c].watch, x) \/ x = t,
           NEW r, r = [st EXCEPT !.conn[c] = k]
    PROVE  /\ Sound(on_watch(r, t)) /\ on_watch(r, t).tube[t].refs > 0
           /\ SamePointers(on_watch(r, t), r) /\ Repointed(r, st, c, k)
           /\ \A x \in Tubes : /\ Off(on_watch(r, t), x) = Off(st, x)
                               /\ OffUse(on_watch(r, t), x) = OffUse(st, x)
                               /\ OffWatch(on_watch(r, t), x) = OffWatch(st, x)
<1> DEFINE q == tube_iref(r, t)
           p == on_watch(r, t)
<1>0. ConnOK(st.conn[c], c \in st.closing)
  BY DEF Sound
<1>1. Repointed(r, st, c, k)
  <2>1. ConnOK(k, c \in st.closing)
    BY <1>0 DEF ConnOK, SameJobs
  <2> QED
    BY <1>0, <2>1, ConnSet DEF SameJobs
<1>3. Sound(r) /\ r.tube[t].refs > 0
  BY <1>1 DEF Repointed
<1>4. Recounted(q, r, t, 1, 0, 0)
  BY <1>3, TakeRef
<1>5. Sound(q) /\ q.tube[t].refs > 0 /\ SamePointers(q, r)
  <2>1. q.tube[t].refs = r.tube[t].refs + 1 /\ Sound(q) /\ SamePointers(q, r)
    BY <1>4 DEF Recounted
  <2>2. r.tube[t].refs \in Int
    BY <1>3 DEF Sound, Store, TubeRec
  <2> HIDE DEF q
  <2> QED
    BY <1>3, <2>1, <2>2
<1>6. p = Touch(q, t, [q.tube[t] EXCEPT !.watching_ct = @ + 1])
  BY DEF on_watch
<1> HIDE DEF q
<1>7. Recounted(p, q, t, 0, 0, 1)
  BY <1>5, <1>6, CountUsing
<1> HIDE DEF p
<1>8. p.tube[t].refs = q.tube[t].refs /\ q.tube[t].refs + 0 = q.tube[t].refs
  <2>1. p.tube[t].refs = q.tube[t].refs + 0 /\ q.tube[t].refs \in Int
    BY <1>5, <1>7 DEF Recounted, Sound, Store, TubeRec
  <2> QED
    BY <2>1
<1>9. ASSUME NEW x \in Tubes
      PROVE  Off(p, x) = Off(st, x) /\ OffUse(p, x) = OffUse(st, x) /\ OffWatch(p, x) = OffWatch(st, x)
  <2>1. Off(st, x) \in Int /\ OffUse(st, x) \in Int /\ OffWatch(st, x) \in Int
    BY Distances
  <2>2. One(ms_contains(st.conn[c].watch, x)) - One(ms_contains(k.watch, x)) = (IF x = t THEN -1 ELSE 0)
        /\ One(ms_contains(st.conn[c].watch, x)) \in Int /\ One(ms_contains(k.watch, x)) \in Int
    BY DEF One
  <2>3. /\ Off(r, x) = Off(st, x) + One(ms_contains(st.conn[c].watch, x)) - One(ms_contains(k.watch, x))
        /\ OffUse(r, x) = OffUse(st, x)
        /\ OffWatch(r, x) = OffWatch(st, x) + One(ms_contains(st.conn[c].watch, x)) - One(ms_contains(k.watch, x))
    BY <1>1, WatchWeight
  <2>4. /\ Off(r, x) = Off(st, x) + (IF x = t THEN -1 ELSE 0)
        /\ OffWatch(r, x) = OffWatch(st, x) + (IF x = t THEN -1 ELSE 0)
    BY <2>1, <2>2, <2>3
  <2>5. /\ Off(q, x) = Off(r, x) + (IF x = t THEN 1 ELSE 0)
        /\ OffUse(q, x) = OffUse(r, x) + (IF x = t THEN 0 ELSE 0)
        /\ OffWatch(q, x) = OffWatch(r, x) + (IF x = t THEN 0 ELSE 0)
    BY <1>4 DEF Recounted, Shifted
  <2>6. /\ Off(p, x) = Off(q, x) + (IF x = t THEN 0 ELSE 0)
        /\ OffUse(p, x) = OffUse(q, x) + (IF x = t THEN 0 ELSE 0)
        /\ OffWatch(p, x) = OffWatch(q, x) + (IF x = t THEN 1 ELSE 0)
    BY <1>7 DEF Recounted, Shifted
  <2> QED
    BY <2>1, <2>3, <2>4, <2>5, <2>6
<1>10. Sound(p) /\ SamePointers(p, r)
  BY <1>5, <1>7 DEF Recounted, SamePointers
<1> QED
  BY <1>1, <1>5, <1>8, <1>9, <1>10 DEF p

\* The watch list of a connection that does not wait gets tube t.
Watches(k, old, t) ==
    /\ SameJobs(k, old) /\ Single(k.watch)
    /\ \A x \in Tubes : ms_contains(k.watch, x) <=> ms_contains(old.watch, x) \/ x = t

LEMMA WatchAppend ==
    ASSUME NEW st, Sound(st), NEW c \in Conns, st.conn[c].waiting = FALSE,
           NEW t \in Tubes, ~ms_contains(st.conn[c].watch, t),
           NEW k, k = [st.conn[c] EXCEPT !.watch = ms_append(@, t)]
    PROVE  Watches(k, st.conn[c], t)
<1> DEFINE old == st.conn[c]
           m == ms_append(old.watch, t)
<1>1. old \in ConnRec /\ old.watch \in MsOf(Tubes) /\ Single(old.watch)
  BY DEF Sound, Store, ConnRec, ConnOK
<1>2. m \in MsOf(Tubes) /\ Single(m) /\ \A y : ms_contains(m, y) <=> ms_contains(old.watch, y) \/ y = t
  BY <1>1, MsAppend
<1>3. k = [old EXCEPT !.watch = m]
  OBVIOUS
<1> HIDE DEF m
<1>4. SameJobs(k, old) /\ k.watch = m
  BY <1>1, <1>2, <1>3 DEF SameJobs, ConnRec
<1> QED
  BY <1>2, <1>4 DEF Watches

LEMMA WatchStep ==
    ASSUME TInv, NEW c \in Conns, NEW n \in AnyName, watch(c, n)
    PROVE  TInv'
<1>0. Exact(s) /\ s.conn[c].waiting = FALSE /\ CanMake(n)
  BY DEF TInv, Exact, Sound, Store, ConnRec, watch, Idle
<1>1. PICK o \in tube_find_or_make(s, n) :
        IF o.t = Nil THEN s' = o.st
        ELSE \E st \in IF ms_contains(s.conn[c].watch, o.t) THEN {tube_iref(o.st, o.t)}
                       ELSE Watch(tube_iref(o.st, o.t), c, o.t) :
                s' = tube_dref(st, o.t)
  BY DEF watch
<1>2. /\ o.t = Nil => Exact(o.st) /\ SamePointers(o.st, s)
      /\ o.t # Nil => /\ o.t \in Tubes /\ SamePointers(o.st, s)
                      /\ Held(tube_iref(o.st, o.t), o.t)
                      /\ SamePointers(tube_iref(o.st, o.t), s)
  BY <1>0, FindOrMake DEF CanMake
<1>3. CASE o.t = Nil
  BY <1>1, <1>2, <1>3 DEF TInv, Exact
<1>4. CASE o.t # Nil
  <2> DEFINE t == o.t
             held == tube_iref(o.st, t)
  <2>1. t \in Tubes /\ Held(held, t) /\ held.conn = s.conn
    BY <1>2, <1>4 DEF SamePointers
  <2>2. PICK st \in IF ms_contains(s.conn[c].watch, t) THEN {held} ELSE Watch(held, c, t) :
            s' = tube_dref(st, t)
    BY <1>1, <1>4
  <2> HIDE DEF t, held
  <2>3. Sound(held) /\ held.tube[t].refs > 0
    <3>1. Sound(held) /\ Off(held, t) = 1
      BY <2>1 DEF Held, One
    <3> QED
      BY <2>1, <3>1, Distances, RefTypes
  <2>4. Held(st, t)
    <3>1. CASE st = held
      BY <2>1, <3>1
    <3>2. CASE st # held
      <4> DEFINE k == [held.conn[c] EXCEPT !.watch = ms_append(@, t)]
                 r == [held EXCEPT !.conn[c] = k]
      <4>1. ~ms_contains(held.conn[c].watch, t) /\ st = on_watch(r, t)
        BY <2>1, <2>2, <3>2 DEF Watch
      <4>2. /\ SameJobs(k, held.conn[c]) /\ Single(k.watch)
            /\ \A x \in Tubes : ms_contains(k.watch, x) <=> ms_contains(held.conn[c].watch, x) \/ x = t
        <5>1. held.conn[c].waiting = FALSE
          BY <1>0, <2>1
        <5>2. Watches(k, held.conn[c], t)
          BY <2>1, <2>3, <4>1, <5>1, WatchAppend
        <5> HIDE DEF k
        <5> QED
          BY <5>2 DEF Watches
      <4> HIDE DEF k
      <4>3. /\ Sound(on_watch(r, t))
            /\ \A x \in Tubes : /\ Off(on_watch(r, t), x) = Off(held, x)
                                /\ OffUse(on_watch(r, t), x) = OffUse(held, x)
                                /\ OffWatch(on_watch(r, t), x) = OffWatch(held, x)
        BY <2>1, <2>3, <4>1, <4>2, NewWatch
      <4> QED
        BY <2>1, <4>1, <4>3 DEF Held
    <3> QED
      BY <3>1, <3>2
  <2>5. Sound(st) /\ \A x \in Tubes : /\ Off(st, x) = (IF x = t THEN 1 ELSE 0)
                                      /\ OffUse(st, x) = 0 /\ OffWatch(st, x) = 0
    BY <2>4 DEF Held, One
  <2>6. Dropped(tube_dref(st, t), st, t)
    BY <2>1, <2>5, DropRef
  <2>7. Exact(tube_dref(st, t))
    BY <2>5, <2>6 DEF Dropped, Shifted, Exact
  <2> QED
    BY <2>2, <2>7 DEF TInv, Exact
<1> QED
  BY <1>3, <1>4

\* use: the old tube loses a user and a reference, the new one gets both.
LEMMA UseMoves ==
    ASSUME NEW st, NEW c \in Conns, NEW t \in Tubes, Held(tube_iref(st, t), t),
           SamePointers(tube_iref(st, t), st), st.conn[c].open = TRUE, c \notin st.closing
    PROVE  Exact(Use(st, c, t))
<1> DEFINE held == tube_iref(st, t)
           old == st.conn[c].use
           less == Touch(held, old, [held.tube[old] EXCEPT !.using_ct = @ - 1])
           k == [less.conn[c] EXCEPT !.use = t]
           a == [less EXCEPT !.conn[c] = k]
           b == tube_dref(a, old)
           d == tube_iref(b, t)
           moved == tube_dref(d, t)
           done == Touch(moved, t, [moved.tube[t] EXCEPT !.using_ct = @ + 1])
<1>0. Use(st, c, t) = done
  BY DEF Use, TUBE_ASSIGN
<1>1. /\ Sound(held) /\ held.conn = st.conn /\ held.closing = st.closing /\ old \in Tubes
      /\ \A x \in Tubes : Off(held, x) = One(x = t) /\ OffUse(held, x) = 0 /\ OffWatch(held, x) = 0
  <2>1. /\ Sound(held) /\ held.conn = st.conn /\ held.closing = st.closing
        /\ \A x \in Tubes : Off(held, x) = One(x = t) /\ OffUse(held, x) = 0 /\ OffWatch(held, x) = 0
    BY DEF Held, SamePointers
  <2> HIDE DEF held
  <2> QED
    BY <2>1 DEF Sound, ConnOK
<1> HIDE DEF held
<1>2. held.tube[old].refs > 0
  <2>1. Weight(held.conn[c], old) > 0
    BY <1>1 DEF Weight, One
  <2>2. References(held, old) > 0
    BY <1>1, <2>1, Pointed
  <2>3. Off(held, old) >= 0
    BY <1>1 DEF One
  <2> QED
    BY <1>1, <2>2, <2>3, Counted1
<1>3. Recounted(less, held, old, 0, -1, 0)
  BY <1>1, <1>2, CountUsing
<1> HIDE DEF less
<1>4. /\ Sound(less) /\ less.conn = st.conn /\ less.closing = st.closing
      /\ \A x \in Tubes : Off(less, x) = One(x = t) /\ OffUse(less, x) = -One(x = old) /\ OffWatch(less, x) = 0
  <2>1. Sound(less) /\ less.conn = st.conn /\ less.closing = st.closing
    BY <1>1, <1>3 DEF Recounted, SamePointers
  <2>2. ASSUME NEW x \in Tubes
        PROVE  Off(less, x) = One(x = t) /\ OffUse(less, x) = -One(x = old) /\ OffWatch(less, x) = 0
    <3>1. /\ Off(less, x) = One(x = t) + (IF x = old THEN 0 ELSE 0)
          /\ OffUse(less, x) = 0 + (IF x = old THEN -1 ELSE 0)
          /\ OffWatch(less, x) = 0 + (IF x = old THEN 0 ELSE 0)
      BY <1>1, <1>3 DEF Recounted, Shifted
    <3> QED
      BY <3>1 DEF One
  <2> QED
    BY <2>1, <2>2
<1>5. /\ k \in ConnRec /\ k.use = t /\ k.watch = st.conn[c].watch /\ k.waiting = st.conn[c].waiting
      /\ k.open = TRUE /\ k.in_job = st.conn[c].in_job /\ k.out_job = st.conn[c].out_job
  <2>1. less.conn[c] \in ConnRec
    BY <1>4 DEF Sound, Store
  <2> QED
    BY <1>4, <2>1 DEF ConnRec
<1> HIDE DEF k
<1>6. Repointed(a, less, c, k)
  <2>1. ConnOK(st.conn[c], c \in less.closing)
    BY <1>4 DEF Sound
  <2>2. ConnOK(k, c \in less.closing)
    BY <1>4, <1>5, <2>1 DEF ConnOK
  <2>3. k.waiting = less.conn[c].waiting /\ k.watch = less.conn[c].watch
    BY <1>4, <1>5
  <2> QED
    BY <1>4, <1>5, <2>2, <2>3, ConnSet
<1> HIDE DEF a
<1>7. /\ Sound(a) /\ a.conn[c].use = t
      /\ \A x \in Tubes : Off(a, x) = One(x = old) /\ OffUse(a, x) = -One(x = t) /\ OffWatch(a, x) = 0
  <2>1. Sound(a) /\ a.conn = [st.conn EXCEPT ![c] = k]
    BY <1>4, <1>6 DEF Repointed
  <2>2. a.conn[c] = k
    <3>1. less.conn \in [Conns -> ConnRec]
      BY <1>4 DEF Sound, Store
    <3> QED
      BY <1>4, <2>1, <3>1
  <2>3. ASSUME NEW x \in Tubes
        PROVE  Off(a, x) = One(x = old) /\ OffUse(a, x) = -One(x = t) /\ OffWatch(a, x) = 0
    <3> DEFINE w == One(ms_contains(st.conn[c].watch, x))
               i == One(st.conn[c].in_job = x)
               o == One(st.conn[c].out_job = x)
               u == One(x = old)
               v == One(x = t)
    <3>1. w \in Int /\ i \in Int /\ o \in Int /\ u \in Int /\ v \in Int
      BY DEF One
    <3>2. One(old = x) = u /\ One(t = x) = v
      BY DEF One
    <3>3. Weight(st.conn[c], x) = u + w + i + o /\ Weight(k, x) = v + w + i + o
      BY <1>5, <3>2 DEF Weight
    <3>4. /\ Off(a, x) = v + Weight(st.conn[c], x) - Weight(k, x)
          /\ OffUse(a, x) = -u + One(old = x) - One(k.use = x)
          /\ OffWatch(a, x) = 0 + w - w
      BY <1>4, <1>5, <1>6 DEF Repointed
    <3>5. One(k.use = x) = v
      BY <1>5, <3>2
    <3> HIDE DEF w, i, o, u, v
    <3>6. Off(a, x) = u /\ OffUse(a, x) = -v /\ OffWatch(a, x) = 0
      BY <3>1, <3>2, <3>3, <3>4, <3>5
    <3> QED
      BY <3>6 DEF u, v
  <2> QED
    BY <1>5, <2>1, <2>2, <2>3
<1>8. References(a, t) > 0
  <2>1. Weight(a.conn[c], t) > 0
    BY <1>7 DEF Weight, One
  <2> QED
    BY <2>1, Pointed
<1>9. Dropped(b, a, old)
  <2>1. Off(a, old) = 1
    BY <1>1, <1>7 DEF One
  <2>2. References(a, old) = 0 => OffUse(a, old) = 0 /\ OffWatch(a, old) = 0
    <3>1. ASSUME References(a, old) = 0 PROVE OffUse(a, old) = 0 /\ OffWatch(a, old) = 0
      <4>1. old # t
        BY <1>8, <3>1
      <4> QED
        BY <1>1, <1>7, <4>1 DEF One
    <3> QED
      BY <3>1
  <2> QED
    BY <1>1, <1>7, <2>1, <2>2, DropRef
<1> HIDE DEF b, old
<1>10. /\ Sound(b) /\ References(b, t) > 0
       /\ \A x \in Tubes : Off(b, x) = 0 /\ OffUse(b, x) = -One(x = t) /\ OffWatch(b, x) = 0
  <2>1. Sound(b) /\ References(b, t) > 0
    BY <1>8, <1>9, SameReferences DEF Dropped
  <2>2. ASSUME NEW x \in Tubes
        PROVE  Off(b, x) = 0 /\ OffUse(b, x) = -One(x = t) /\ OffWatch(b, x) = 0
    <3>1. /\ Off(b, x) = One(x = old) + (IF x = old THEN -1 ELSE 0)
          /\ OffUse(b, x) = -One(x = t) + (IF x = old THEN 0 ELSE 0)
          /\ OffWatch(b, x) = 0 + (IF x = old THEN 0 ELSE 0)
      BY <1>7, <1>9 DEF Dropped, Shifted
    <3> QED
      BY <3>1 DEF One
  <2> QED
    BY <2>1, <2>2
<1>11. Recounted(d, b, t, 1, 0, 0)
  <2>1. b.tube[t].refs > 0
    <3>1. Off(b, t) >= 0
      BY <1>10
    <3> QED
      BY <1>10, <3>1, Counted1
  <2> QED
    BY <1>10, <2>1, TakeRef
<1> HIDE DEF d
<1>12. /\ Sound(d) /\ References(d, t) > 0
       /\ \A x \in Tubes : Off(d, x) = One(x = t) /\ OffUse(d, x) = -One(x = t) /\ OffWatch(d, x) = 0
  <2>1. Sound(d) /\ References(d, t) > 0
    BY <1>10, <1>11, SameReferences DEF Recounted
  <2>2. ASSUME NEW x \in Tubes
        PROVE  Off(d, x) = One(x = t) /\ OffUse(d, x) = -One(x = t) /\ OffWatch(d, x) = 0
    <3>1. /\ Off(d, x) = 0 + (IF x = t THEN 1 ELSE 0)
          /\ OffUse(d, x) = -One(x = t) + (IF x = t THEN 0 ELSE 0)
          /\ OffWatch(d, x) = 0 + (IF x = t THEN 0 ELSE 0)
      BY <1>10, <1>11 DEF Recounted, Shifted
    <3> QED
      BY <3>1 DEF One
  <2> QED
    BY <2>1, <2>2
<1>13. Dropped(moved, d, t)
  <2>1. Off(d, t) = 1 /\ References(d, t) # 0
    BY <1>12 DEF One
  <2> QED
    BY <1>12, <2>1, DropRef
<1> HIDE DEF moved
<1>14. /\ Sound(moved) /\ References(moved, t) > 0
       /\ \A x \in Tubes : Off(moved, x) = 0 /\ OffUse(moved, x) = -One(x = t) /\ OffWatch(moved, x) = 0
  <2>1. Sound(moved) /\ References(moved, t) > 0
    BY <1>12, <1>13, SameReferences DEF Dropped
  <2>2. ASSUME NEW x \in Tubes
        PROVE  Off(moved, x) = 0 /\ OffUse(moved, x) = -One(x = t) /\ OffWatch(moved, x) = 0
    <3>1. /\ Off(moved, x) = One(x = t) + (IF x = t THEN -1 ELSE 0)
          /\ OffUse(moved, x) = -One(x = t) + (IF x = t THEN 0 ELSE 0)
          /\ OffWatch(moved, x) = 0 + (IF x = t THEN 0 ELSE 0)
      BY <1>12, <1>13 DEF Dropped, Shifted
    <3> QED
      BY <3>1 DEF One
  <2> QED
    BY <2>1, <2>2
<1>15. Recounted(done, moved, t, 0, 1, 0)
  <2>1. moved.tube[t].refs > 0
    <3>1. Off(moved, t) >= 0
      BY <1>14
    <3> QED
      BY <1>14, <3>1, Counted1
  <2> QED
    BY <1>14, <2>1, CountUsing
<1> HIDE DEF done
<1>16. Exact(done)
  <2>2. ASSUME NEW x \in Tubes
        PROVE  Off(done, x) = 0 /\ OffUse(done, x) = 0 /\ OffWatch(done, x) = 0
    <3>1. /\ Off(done, x) = 0 + (IF x = t THEN 0 ELSE 0)
          /\ OffUse(done, x) = -One(x = t) + (IF x = t THEN 1 ELSE 0)
          /\ OffWatch(done, x) = 0 + (IF x = t THEN 0 ELSE 0)
      BY <1>14, <1>15 DEF Recounted, Shifted
    <3> QED
      BY <3>1 DEF One
  <2> QED
    BY <1>15, <2>2 DEF Recounted, Exact
<1> QED
  BY <1>0, <1>16

LEMMA UseStep ==
    ASSUME TInv, s.closing = {}, NEW c \in Conns, NEW n \in AnyName, use(c, n)
    PROVE  TInv'
<1>0. Exact(s) /\ s.conn[c].open = TRUE /\ CanMake(n)
  BY DEF TInv, Exact, Sound, Store, ConnRec, use, Idle
<1>1. PICK o \in tube_find_or_make(s, n) : s' = IF o.t = Nil THEN o.st ELSE Use(o.st, c, o.t)
  BY DEF use
<1>2. /\ o.t = Nil => Exact(o.st) /\ SamePointers(o.st, s)
      /\ o.t # Nil => /\ o.t \in Tubes /\ SamePointers(o.st, s)
                      /\ Held(tube_iref(o.st, o.t), o.t)
                      /\ SamePointers(tube_iref(o.st, o.t), s)
  BY <1>0, FindOrMake DEF CanMake
<1>3. CASE o.t = Nil
  BY <1>1, <1>2, <1>3 DEF TInv, Exact
<1>4. CASE o.t # Nil
  <2>1. Exact(Use(o.st, c, o.t))
    <3>1. /\ o.t \in Tubes /\ Held(tube_iref(o.st, o.t), o.t) /\ SamePointers(tube_iref(o.st, o.t), o.st)
          /\ o.st.conn[c].open = TRUE /\ c \notin o.st.closing
      BY <1>0, <1>2, <1>4 DEF SamePointers
    <3> QED
      BY <3>1, UseMoves
  <2> QED
    BY <1>1, <1>4, <2>1 DEF TInv, Exact
<1> QED
  BY <1>3, <1>4

\* A new connection watches and uses the default tube.
LEMMA MakeConnStep ==
    ASSUME TInv, s.closing = {}, NEW c \in Conns, make_conn(c)
    PROVE  TInv'
<1> DEFINE k == [s.conn[c] EXCEPT !.watch = ms_append(@, Default)]
           r == [s EXCEPT !.conn[c] = k]
           a == on_watch(r, Default)
           b == tube_iref(a, Default)
           h == [b.conn[c] EXCEPT !.open = TRUE, !.use = Default]
           d == [b EXCEPT !.conn[c] = h]
           done == Touch(d, Default, [d.tube[Default] EXCEPT !.using_ct = @ + 1])
<1>0. Exact(s) /\ Sound(s) /\ s.conn[c] = NoConn /\ Default \in Tubes /\ Default # Nil
  BY TubeNumbers DEF TInv, Exact, make_conn
<1>1. /\ NoConn.open = FALSE /\ NoConn.use = Nil /\ NoConn.watch = ms_init /\ NoConn.waiting = FALSE
      /\ NoConn.in_job = Nil /\ NoConn.out_job = Nil
  BY DEF NoConn
<1>2. \A x : ~ms_contains(ms_init, x)
  BY DEF ms_contains, Contains, ms_init
<1>3. s.tube[Default].refs > 0
  BY <1>0, PointedThere
<1>4. s' = [b EXCEPT !.conn[c].open = TRUE, !.conn[c].use = Default, !.tube[Default].using_ct = @ + 1]
  <2>1. PICK st \in Watch(s, c, Default) :
            /\ ms_contains(st.conn[c].watch, Default)
            /\ s' = [TUBE_ASSIGN(st, Nil, Default) EXCEPT !.conn[c].open = TRUE, !.conn[c].use = Default,
                                                          !.tube[Default].using_ct = @ + 1]
    BY DEF make_conn
  <2>2. st # s
    BY <1>0, <1>1, <1>2, <2>1
  <2>3. st = a
    BY <2>1, <2>2 DEF Watch
  <2>4. TUBE_ASSIGN(st, Nil, Default) = b
    BY <2>3 DEF TUBE_ASSIGN, tube_dref
  <2> HIDE DEF b
  <2> QED
    BY <2>1, <2>4
<1>5. Watches(k, s.conn[c], Default)
  <2>1. s.conn[c].waiting = FALSE /\ ~ms_contains(s.conn[c].watch, Default)
    BY <1>0, <1>1, <1>2
  <2> QED
    BY <1>0, <2>1, WatchAppend
<1> HIDE DEF k
<1>6. /\ Sound(a) /\ a.tube[Default].refs > 0 /\ SamePointers(a, r) /\ Repointed(r, s, c, k)
      /\ \A x \in Tubes : Off(a, x) = 0 /\ OffUse(a, x) = 0 /\ OffWatch(a, x) = 0
  <2>1. /\ Sound(a) /\ a.tube[Default].refs > 0 /\ SamePointers(a, r) /\ Repointed(r, s, c, k)
        /\ \A x \in Tubes : Off(a, x) = Off(s, x) /\ OffUse(a, x) = OffUse(s, x) /\ OffWatch(a, x) = OffWatch(s, x)
    <3>1. /\ SameJobs(k, s.conn[c]) /\ Single(k.watch) /\ ~ms_contains(s.conn[c].watch, Default)
          /\ \A x \in Tubes : ms_contains(k.watch, x) <=> ms_contains(s.conn[c].watch, x) \/ x = Default
      BY <1>0, <1>1, <1>2, <1>5 DEF Watches
    <3> QED
      BY <1>0, <1>3, <3>1, NewWatch
  <2> QED
    BY <1>0, <2>1 DEF Exact
<1>7. a.conn[c] = k /\ a.closing = {} /\ k.use = Nil /\ k \in ConnRec
  <2>1. a.conn = [s.conn EXCEPT ![c] = k] /\ a.closing = {}
    BY <1>6 DEF SamePointers, Repointed
  <2>2. s.conn \in [Conns -> ConnRec]
    BY <1>0 DEF Sound, Store
  <2> QED
    BY <1>0, <1>1, <1>5, <2>1, <2>2 DEF Watches, SameJobs
<1> HIDE DEF r, a
<1>8. Recounted(b, a, Default, 1, 0, 0)
  BY <1>0, <1>6, TakeRef
<1> HIDE DEF b
<1>9. /\ Sound(b) /\ b.conn[c] = k /\ b.closing = {} /\ b.tube[Default].refs > 0
      /\ \A x \in Tubes : Off(b, x) = One(x = Default) /\ OffUse(b, x) = 0 /\ OffWatch(b, x) = 0
  <2>1. Sound(b) /\ b.conn[c] = k /\ b.closing = {}
    BY <1>7, <1>8 DEF Recounted, SamePointers
  <2>2. b.tube[Default].refs > 0
    <3>1. b.tube[Default].refs = a.tube[Default].refs + 1 /\ a.tube[Default].refs \in Int
      BY <1>0, <1>6, <1>8 DEF Recounted, Sound, Store, TubeRec
    <3> QED
      BY <1>6, <3>1
  <2>3. ASSUME NEW x \in Tubes
        PROVE  Off(b, x) = One(x = Default) /\ OffUse(b, x) = 0 /\ OffWatch(b, x) = 0
    <3>1. /\ Off(b, x) = 0 + (IF x = Default THEN 1 ELSE 0)
          /\ OffUse(b, x) = 0 + (IF x = Default THEN 0 ELSE 0)
          /\ OffWatch(b, x) = 0 + (IF x = Default THEN 0 ELSE 0)
      BY <1>6, <1>8 DEF Recounted, Shifted
    <3> QED
      BY <3>1 DEF One
  <2> QED
    BY <2>1, <2>2, <2>3
<1>10. /\ h \in ConnRec /\ h.open = TRUE /\ h.use = Default /\ h.watch = k.watch /\ h.waiting = k.waiting
       /\ h.in_job = k.in_job /\ h.out_job = k.out_job
  BY <1>0, <1>7, <1>9 DEF ConnRec
<1>11. s' = done
  <2> DEFINE e == [b.tube[Default] EXCEPT !.using_ct = @ + 1]
  <2>1. b \in Store /\ Default \notin b.freed
    BY <1>0, <1>9, Present DEF Sound
  <2>2. d \in Store /\ d.tube = b.tube /\ d.freed = b.freed
    <3> HIDE DEF h
    <3> QED
      BY <1>10, <2>1 DEF Store
  <2>3. done = [d EXCEPT !.tube[Default] = e]
    BY <2>1, <2>2 DEF Touch
  <2>4. s' = [b EXCEPT !.conn[c] = h, !.tube[Default] = e]
    <3>1. s' = [b EXCEPT !.conn[c].open = TRUE, !.conn[c].use = Default, !.tube[Default].using_ct = @ + 1]
      BY <1>4
    <3>2. b.conn \in [Conns -> ConnRec] /\ b.tube \in [Tubes -> TubeRec]
      BY <2>1 DEF Store
    <3>3. [b EXCEPT !.conn[c].open = TRUE, !.conn[c].use = Default] = d
      BY <2>1, <3>2 DEF Store
    <3> HIDE DEF d
    <3>4. s' = [d EXCEPT !.tube[Default].using_ct = @ + 1]
      BY <3>1, <3>3
    <3>5. s' = [d EXCEPT !.tube[Default] = e]
      BY <2>2, <3>4
    <3> QED
      BY <3>5 DEF d
  <2> QED
    BY <2>3, <2>4
<1> HIDE DEF h
<1>12. Repointed(d, b, c, h)
  <2>1. ConnOK(k, c \in b.closing)
    BY <1>9 DEF Sound
  <2>2. ConnOK(h, c \in b.closing)
    BY <1>0, <1>9, <1>10, <2>1 DEF ConnOK
  <2> QED
    BY <1>9, <1>10, <2>2, ConnSet
<1> HIDE DEF d
<1>13. /\ Sound(d) /\ d.tube[Default].refs > 0
       /\ \A x \in Tubes : Off(d, x) = 0 /\ OffUse(d, x) = -One(x = Default) /\ OffWatch(d, x) = 0
  <2>1. Sound(d) /\ d.tube[Default].refs > 0
    BY <1>9, <1>12 DEF Repointed
  <2>2. ASSUME NEW x \in Tubes
        PROVE  Off(d, x) = 0 /\ OffUse(d, x) = -One(x = Default) /\ OffWatch(d, x) = 0
    <3> DEFINE w == One(ms_contains(k.watch, x))
               i == One(k.in_job = x)
               o == One(k.out_job = x)
               v == One(x = Default)
    <3>1. w \in Int /\ i \in Int /\ o \in Int /\ v \in Int
      BY DEF One
    <3>2. One(k.use = x) = 0 /\ One(h.use = x) = v
      BY <1>7, <1>10, TubeNumbers DEF One
    <3>3. Weight(k, x) = 0 + w + i + o /\ Weight(h, x) = v + w + i + o
      BY <1>10, <3>2 DEF Weight
    <3>4. /\ Off(d, x) = v + Weight(k, x) - Weight(h, x)
          /\ OffUse(d, x) = 0 + One(k.use = x) - One(h.use = x)
          /\ OffWatch(d, x) = 0 + w - w
      BY <1>9, <1>10, <1>12 DEF Repointed
    <3> HIDE DEF w, i, o, v
    <3>5. Off(d, x) = 0 /\ OffUse(d, x) = -v /\ OffWatch(d, x) = 0
      BY <3>1, <3>2, <3>3, <3>4
    <3> QED
      BY <3>5 DEF v
  <2> QED
    BY <2>1, <2>2
<1>14. Recounted(done, d, Default, 0, 1, 0)
  BY <1>0, <1>13, CountUsing
<1> HIDE DEF done
<1>15. Exact(done)
  <2>1. ASSUME NEW x \in Tubes
        PROVE  Off(done, x) = 0 /\ OffUse(done, x) = 0 /\ OffWatch(done, x) = 0
    <3>1. /\ Off(done, x) = 0 + (IF x = Default THEN 0 ELSE 0)
          /\ OffUse(done, x) = -One(x = Default) + (IF x = Default THEN 1 ELSE 0)
          /\ OffWatch(done, x) = 0 + (IF x = Default THEN 0 ELSE 0)
      BY <1>13, <1>14 DEF Recounted, Shifted
    <3> QED
      BY <3>1 DEF One
  <2> QED
    BY <1>14, <2>1 DEF Recounted, Exact
<1> QED
  BY <1>11, <1>15 DEF TInv, Exact

\* The end of connclose: the connection goes with its use of a tube.
LEMMA ConnFreeStep ==
    ASSUME TInv, NEW c \in s.closing, conn_free(c)
    PROVE  TInv'
<1> DEFINE old == s.conn[c]
           t == old.use
           a == [s EXCEPT !.closing = {}]
           b == Touch(a, t, [a.tube[t] EXCEPT !.using_ct = @ - 1])
           d == [b EXCEPT !.conn[c] = NoConn]
<1>0. /\ Exact(s) /\ Sound(s) /\ s \in Store /\ c \in Conns /\ old \in ConnRec
      /\ old.open = TRUE /\ old.waiting = FALSE /\ old.in_job = Nil /\ old.out_job = Nil /\ t \in Tubes
      /\ old.watch.items = <<>>
  <2>1. Exact(s) /\ Sound(s) /\ s \in Store /\ c \in Conns
    BY DEF TInv, Exact, Sound, Store
  <2>2. ConnOK(old, c \in s.closing) /\ old \in ConnRec
    BY <2>1 DEF Sound, Store
  <2> QED
    BY <2>1, <2>2 DEF ConnOK, conn_free
<1>1. \A x : ~ms_contains(old.watch, x)
  BY <1>0 DEF ms_contains, Contains
<1>2. s.tube[t].refs > 0 /\ t \notin s.freed
  BY <1>0, UseThere, Present
<1>3. Exact(a) /\ a.conn = s.conn /\ a.tube = s.tube /\ a.freed = s.freed /\ a.closing = {}
  <2>1. \A e \in Conns : ConnOK(s.conn[e], FALSE)
    <3>1. \A e \in Conns : ConnOK(s.conn[e], e \in s.closing)
      BY <1>0 DEF Sound
    <3> QED
      BY <3>1 DEF ConnOK
  <2>2. \A e \in Conns : ConnOK(s.conn[e], e \in {})
    BY <2>1 DEF ConnOK
  <2>3. Exact(a)
    BY <1>0, <2>2, SetClosing
  <2>4. a.conn = s.conn /\ a.tube = s.tube /\ a.freed = s.freed /\ a.closing = {}
    BY <1>0 DEF Store
  <2> QED
    BY <2>3, <2>4
<1>4. s' = tube_dref(d, t)
  <2> DEFINE e == [s.tube[t] EXCEPT !.using_ct = @ - 1]
             less == Touch(s, t, e)
  <2>1. s' = tube_dref([less EXCEPT !.conn[c] = NoConn, !.closing = {}], t)
    BY DEF conn_free
  <2>2. less = [s EXCEPT !.tube[t] = e] /\ b = [a EXCEPT !.tube[t] = e]
    BY <1>2, <1>3 DEF Touch
  <2> HIDE DEF e
  <2> DEFINE T == [s.tube EXCEPT ![t] = e]
             C == [s.conn EXCEPT ![c] = NoConn]
  <2>3. [less EXCEPT !.conn[c] = NoConn, !.closing = {}] = d
    <3>1. less = [s EXCEPT !.tube = T] /\ b = [a EXCEPT !.tube = T]
      BY <1>3, <2>2
    <3> HIDE DEF T, less, b
    <3>2. less.conn = s.conn /\ b.conn = s.conn
      BY <1>0, <3>1 DEF Store
    <3>3. [less EXCEPT !.conn[c] = NoConn, !.closing = {}] = [less EXCEPT !.conn = C, !.closing = {}]
          /\ d = [b EXCEPT !.conn = C]
      BY <3>2
    <3> HIDE DEF C, d
    <3> QED
      BY <1>0, <3>1, <3>3 DEF Store
  <2> QED
    BY <2>1, <2>3
<1> HIDE DEF a
<1>5. Sound(a) /\ a.tube[t].refs > 0
  BY <1>2, <1>3 DEF Exact
<1>6. Recounted(b, a, t, 0, -1, 0)
  BY <1>0, <1>5, CountUsing
<1> HIDE DEF b
<1>7. /\ Sound(b) /\ b.conn = s.conn /\ b.closing = {}
      /\ \A x \in Tubes : Off(b, x) = 0 /\ OffUse(b, x) = -One(x = t) /\ OffWatch(b, x) = 0
  <2>1. Sound(b) /\ b.conn = s.conn /\ b.closing = {}
    BY <1>3, <1>6 DEF Recounted, SamePointers
  <2>2. ASSUME NEW x \in Tubes
        PROVE  Off(b, x) = 0 /\ OffUse(b, x) = -One(x = t) /\ OffWatch(b, x) = 0
    <3>1. Off(a, x) = 0 /\ OffUse(a, x) = 0 /\ OffWatch(a, x) = 0
      BY <1>3 DEF Exact
    <3>2. /\ Off(b, x) = 0 + (IF x = t THEN 0 ELSE 0)
          /\ OffUse(b, x) = 0 + (IF x = t THEN -1 ELSE 0)
          /\ OffWatch(b, x) = 0 + (IF x = t THEN 0 ELSE 0)
      BY <1>6, <3>1 DEF Recounted, Shifted
    <3> QED
      BY <3>2 DEF One
  <2> QED
    BY <2>1, <2>2
<1>8. /\ NoConn \in ConnRec /\ NoConn.open = FALSE /\ NoConn.use = Nil /\ NoConn.watch = ms_init
      /\ NoConn.waiting = FALSE /\ NoConn.in_job = Nil /\ NoConn.out_job = Nil
      /\ Single(ms_init) /\ \A x : ~ms_contains(ms_init, x)
  <2>1. ms_init \in MsOf(Tubes) /\ Single(ms_init) /\ \A x : ~ms_contains(ms_init, x)
    BY DEF ms_init, MsOf, Single, ms_contains, Contains
  <2> QED
    BY <2>1 DEF NoConn, ConnRec
<1>9. Repointed(d, b, c, NoConn)
  <2>1. ConnOK(NoConn, c \in b.closing)
    BY <1>7, <1>8 DEF ConnOK
  <2> QED
    BY <1>0, <1>7, <1>8, <2>1, ConnSet
<1> HIDE DEF d
<1>10. /\ Sound(d)
       /\ \A x \in Tubes : Off(d, x) = (IF x = t THEN 1 ELSE 0) /\ OffUse(d, x) = 0 /\ OffWatch(d, x) = 0
  <2>1. ASSUME NEW x \in Tubes
        PROVE  Off(d, x) = (IF x = t THEN 1 ELSE 0) /\ OffUse(d, x) = 0 /\ OffWatch(d, x) = 0
    <3>1. /\ One(NoConn.use = x) = 0 /\ One(ms_contains(NoConn.watch, x)) = 0
          /\ One(NoConn.in_job = x) = 0 /\ One(NoConn.out_job = x) = 0
          /\ One(ms_contains(old.watch, x)) = 0
          /\ One(old.in_job = x) = 0 /\ One(old.out_job = x) = 0 /\ One(t = x) = One(x = t)
      BY <1>0, <1>1, <1>8, TubeNumbers DEF One
    <3>2. Weight(old, x) = One(x = t) + 0 + 0 + 0 /\ Weight(NoConn, x) = 0 + 0 + 0 + 0
      BY <3>1 DEF Weight
    <3>3. /\ Off(d, x) = 0 + Weight(old, x) - Weight(NoConn, x)
          /\ OffUse(d, x) = -One(x = t) + One(x = t) - 0
          /\ OffWatch(d, x) = 0 + 0 - 0
      BY <1>7, <1>9, <3>1 DEF Repointed
    <3> QED
      BY <3>2, <3>3 DEF One
  <2> QED
    BY <1>9, <2>1 DEF Repointed
<1> HIDE DEF t
<1>11. Dropped(tube_dref(d, t), d, t)
  BY <1>0, <1>10, DropRef
<1>12. Exact(tube_dref(d, t))
  BY <1>10, <1>11 DEF Dropped, Shifted, Exact
<1> QED
  BY <1>4, <1>12 DEF TInv, Exact

\* prot_init: one tube, with the server's own reference, and no connection.
LEMMA InitExact == Init => TInv
<1> SUFFICES ASSUME Init PROVE TInv
  OBVIOUS
<1> DEFINE e == [NoTube EXCEPT !.name = "default", !.refs = 1]
           m == ms_append(ms_init, Default)
           T == [t \in Tubes |-> IF t = Default THEN e ELSE NoTube]
           C == [c \in Conns |-> NoConn]
           J == [j \in Jobs |-> Nil]
<1>1. s = [tube |-> T, made |-> 1, freed |-> {}, tubes |-> m, conn |-> C, job |-> J,
           unlisted |-> {}, closing |-> {}, wild |-> FALSE]
  BY DEF Init
<1>2. \A X : ms_init \in MsOf(X) /\ Single(ms_init) /\ \A x : ~ms_contains(ms_init, x)
  BY DEF ms_init, MsOf, Single, ms_contains, Contains
<1>3. NoTube \in TubeRec /\ NoTube.refs = 0 /\ NoTube.using_ct = 0 /\ NoTube.watching_ct = 0
      /\ NoTube.waiting_ct = 0 /\ NoTube.waiting_conns = ms_init
  BY <1>2 DEF NoTube, TubeRec
<1>4. e \in TubeRec /\ e.refs = 1 /\ e.using_ct = 0 /\ e.watching_ct = 0
      /\ e.waiting_ct = 0 /\ e.waiting_conns = ms_init
  <2>1. "default" \in AnyName
    BY DEF AnyName
  <2> DEFINE f == [NoTube EXCEPT !.name = "default"]
  <2>2. f \in TubeRec /\ f.using_ct = 0 /\ f.watching_ct = 0 /\ f.waiting_ct = 0 /\ f.waiting_conns = ms_init
    <3>1. "default" \in AnyName \cup {"none"}
      BY <2>1
    <3> QED
      BY <1>3, <3>1 DEF TubeRec
  <2>3. e = [f EXCEPT !.refs = 1]
    OBVIOUS
  <2> HIDE DEF f, e
  <2> QED
    BY <2>2, <2>3 DEF TubeRec
<1>5. m \in MsOf(Tubes) /\ Single(m) /\ \A x : ms_contains(m, x) <=> x = Default
  BY <1>2, MsAppend, TubeNumbers
<1>6. /\ NoConn \in ConnRec /\ NoConn.open = FALSE /\ NoConn.use = Nil /\ NoConn.watch = ms_init
      /\ NoConn.waiting = FALSE /\ NoConn.in_job = Nil /\ NoConn.out_job = Nil
  BY <1>2 DEF NoConn, ConnRec
<1> HIDE DEF e, m
<1>7. T \in [Tubes -> TubeRec] /\ C \in [Conns -> ConnRec] /\ J \in [Jobs -> Tubes \cup {Nil}]
  BY <1>3, <1>4, <1>6
<1>8. s \in Store
  <2> HIDE DEF T, C, J
  <2>1. 1 \in 1..MaxTubes
    BY BoundAssumption
  <2> QED
    BY <1>1, <1>5, <1>7, <2>1 DEF Store
<1>9. /\ \A t \in Tubes : s.tube[t] = IF t = Default THEN e ELSE NoTube
      /\ \A c \in Conns : s.conn[c] = NoConn
      /\ \A j \in Jobs : s.job[j] = Nil
      /\ s.made = 1 /\ s.freed = {} /\ s.tubes = m /\ s.unlisted = {} /\ s.closing = {} /\ s.wild = FALSE
  BY <1>1
<1>10. Blank(s)
  <2>1. \A t \in Tubes : t > 1 => t # Default
    BY TubeNumbers DEF Default
  <2> QED
    BY <1>9, <2>1 DEF Blank
<1>11. Listed(s)
  <2>1. \A t \in Tubes : ms_contains(s.tubes, t) <=> s.tube[t].refs > 0
    BY <1>3, <1>4, <1>5, <1>9
  <2> QED
    BY <1>5, <1>9, <2>1 DEF Listed
<1>12. \A c \in Conns : ConnOK(s.conn[c], c \in s.closing)
  BY <1>2, <1>6, <1>9 DEF ConnOK
<1>13. \A t \in Tubes : Waiters(s, t) = {}
  BY <1>6, <1>9 DEF Waiters, Waits
<1>14. Cardinality({}) = 0
  BY FS_EmptySet
<1>15. WaitOK(s)
  <2>1. \A t \in Tubes : s.tube[t].waiting_conns = ms_init /\ s.tube[t].waiting_ct = 0
    BY <1>3, <1>4, <1>9
  <2>2. \A c \in Conns, t \in Tubes : ~Waits(s, c, t)
    BY <1>6, <1>9 DEF Waits
  <2> QED
    BY <1>2, <1>9, <1>13, <1>14, <2>1, <2>2 DEF WaitOK
<1>16. Sound(s)
  BY <1>8, <1>9, <1>10, <1>11, <1>12, <1>15 DEF Sound
<1>17. ASSUME NEW t \in Tubes PROVE Off(s, t) = 0 /\ OffUse(s, t) = 0 /\ OffWatch(s, t) = 0
  <2>1. UsedBy(s, t) = {} /\ JobsOf(s, t) = {} /\ ReadBy(s, t) = {} /\ CopiedBy(s, t) = {}
    BY <1>6, <1>9, TubeNumbers DEF UsedBy, JobsOf, ReadBy, CopiedBy
  <2>2. WatchedBy(s, t) = {}
    BY <1>2, <1>6, <1>9 DEF WatchedBy
  <2>3. References(s, t) = IF t = Default THEN 1 ELSE 0
    BY <1>14, <2>1, <2>2 DEF References
  <2> QED
    BY <1>3, <1>4, <1>9, <1>14, <2>1, <2>2, <2>3 DEF Off, OffUse, OffWatch
<1> QED
  BY <1>16, <1>17 DEF TInv, Exact

\* Every step keeps the counts exact.
LEMMA NextExact == TInv /\ [Next]_s => TInv'
<1> SUFFICES ASSUME TInv, [Next]_s PROVE TInv'
  OBVIOUS
<1>1. CASE UNCHANGED s
  BY <1>1 DEF TInv, Exact
<1>2. CASE s.closing = {} /\ Command
  <2>1. ASSUME NEW c \in Conns,
               \/ make_conn(c) \/ put(c) \/ bad_trailer(c) \/ conn_want_command(c)
               \/ reserve(c) \/ conn_timeout(c) \/ connclose(c)
        PROVE  TInv'
    BY <1>2, <2>1, MakeConnStep, PutStep, BadTrailerStep, CopySentStep, ReserveStep,
       TimeoutStep, ConncloseStep
  <2>2. ASSUME NEW c \in Conns, NEW n \in AnyName, use(c, n) \/ watch(c, n) \/ ignore(c, n)
        PROVE  TInv'
    BY <1>2, <2>2, UseStep, WatchStep, IgnoreStep
  <2>3. ASSUME NEW c \in Conns, NEW j \in Jobs,
               enqueue_incoming_job(c, j) \/ delete(c, j) \/ peek(c, j)
        PROVE  TInv'
    BY <1>2, <2>3, StoreJobStep, DeleteStep, PeekStep
  <2>4. ASSUME NEW t \in Tubes, process_queue(t) PROVE TInv'
    BY <2>4, ProcessQueueStep
  <2> QED
    BY <1>2, <2>1, <2>2, <2>3, <2>4 DEF Command
<1>3. CASE \E c \in s.closing : ms_clear(c) \/ conn_free(c)
  BY <1>3, ClearStep, ConnFreeStep
<1> QED
  BY <1>1, <1>2, <1>3 DEF Next

-----------------------------------------------------------------------------
(* The theorems                                                            *)

\* The inductive invariant of tube.c and the watch lists of conn.c: between two
\* steps every count is the number of pointers.
THEOREM TInvariance == Spec => []TInv
<1>1. Init => TInv
  BY InitExact
<1>2. TInv /\ [Next]_s => TInv'
  BY NextExact
<1> QED
  BY <1>1, <1>2, PTL DEF Spec

\* An array without repetition has as many cells as items.
LEMMA Cells ==
    ASSUME NEW X, NEW a \in MsOf(X), Single(a)
    PROVE  Len(a.items) = Cardinality(ToSet(a.items))
<1> DEFINE n == Len(a.items)
           S == ToSet(a.items)
<1>1. a.items \in Seq(X) /\ n \in Nat /\ DOMAIN a.items = 1..n
  BY DEF MsOf
<1>2. S = {a.items[i] : i \in 1..n}
  BY <1>1 DEF ToSet
<1>3. a.items \in [1..n -> S]
  BY <1>1, <1>2
<1>4. a.items \in Bijection(1..n, S)
  BY <1>2, <1>3 DEF Single, Bijection, Injection, Surjection, IsInjective
<1>5. ExistsBijection(1..n, S)
  BY <1>4 DEF ExistsBijection
<1> QED
  BY <1>1, <1>5, FS_CountingElements

\* What the multisets of the store hold.
LEMMA MsTypes ==
    ASSUME NEW X, NEW a \in MsOf(X)
    PROVE  MsType(a, X) /\ \A x : x \in ToSet(a.items) <=> ms_contains(a, x)
<1>1. a.items \in Seq(X) /\ Len(a.items) \in Nat /\ DOMAIN a.items = 1..Len(a.items) /\ a.last \in Nat
  BY DEF MsOf
<1>2. ToSet(a.items) = {a.items[i] : i \in 1..Len(a.items)}
  BY <1>1 DEF ToSet
<1>3. \A x : x \in ToSet(a.items) <=> ms_contains(a, x)
  BY <1>2 DEF ms_contains, Contains
<1> QED
  BY <1>1, <1>2, <1>3 DEF MsType

\* The counts are those of the pointers.
LEMMA ExactCounts ==
    ASSUME TInv, NEW t \in Tubes
    PROVE  /\ s.tube[t].refs = References(s, t) /\ References(s, t) \in Nat
           /\ s.tube[t].using_ct = Cardinality(UsedBy(s, t)) /\ Cardinality(UsedBy(s, t)) \in Nat
           /\ s.tube[t].watching_ct = Cardinality(WatchedBy(s, t)) /\ Cardinality(WatchedBy(s, t)) \in Nat
<1>1. /\ s.tube[t].refs - References(s, t) = 0
      /\ s.tube[t].using_ct - Cardinality(UsedBy(s, t)) = 0
      /\ s.tube[t].watching_ct - Cardinality(WatchedBy(s, t)) = 0
  BY DEF TInv, Exact, Off, OffUse, OffWatch
<1>2. s.tube[t].refs \in Int /\ s.tube[t].using_ct \in Int /\ s.tube[t].watching_ct \in Int
  BY DEF TInv, Exact, Sound, Store, TubeRec
<1>3. /\ References(s, t) \in Nat /\ Cardinality(UsedBy(s, t)) \in Nat
      /\ Cardinality(WatchedBy(s, t)) \in Nat
  BY RefTypes
<1>4. \A x \in Int, y \in Nat : x - y = 0 => x = y
  OBVIOUS
<1> QED
  BY <1>1, <1>2, <1>3, <1>4

\* struct Tube, struct Conn and Ms keep their types, whatever the numbers of
\* connections, jobs and tubes: no unsigned counter wraps.
THEOREM TypesKept == Spec => []TypeOK
<1>1. TInv => TypeOK
  <2> SUFFICES ASSUME TInv PROVE TypeOK
    OBVIOUS
  <2>0. s \in Store /\ Sound(s)
    BY DEF TInv, Exact, Sound
  <2>1. ASSUME NEW t \in Tubes
        PROVE  /\ s.tube[t].name \in AnyName \cup {"none"}
               /\ {s.tube[t].refs, s.tube[t].using_ct, s.tube[t].watching_ct,
                   s.tube[t].waiting_ct} \subseteq Nat
               /\ MsType(s.tube[t].waiting_conns, Conns)
    <3>1. s.tube[t] \in TubeRec
      BY <2>0 DEF Store
    <3>2. s.tube[t].waiting_ct \in Nat
      BY <2>0, RefTypes DEF Sound, WaitOK
    <3>3. s.tube[t].name \in AnyName \cup {"none"} /\ s.tube[t].waiting_conns \in MsOf(Conns)
      BY <3>1 DEF TubeRec
    <3> QED
      BY <3>2, <3>3, ExactCounts, MsTypes
  <2>2. MsType(s.tubes, Tubes)
    BY <2>0, MsTypes DEF Store
  <2>3. ASSUME NEW c \in Conns
        PROVE  /\ {s.conn[c].use, s.conn[c].in_job, s.conn[c].out_job} \subseteq Tubes \cup {Nil}
               /\ MsType(s.conn[c].watch, Tubes)
    <3>1. s.conn[c] \in ConnRec
      BY <2>0 DEF Store
    <3>2. /\ s.conn[c].use \in Tubes \cup {Nil} /\ s.conn[c].in_job \in Tubes \cup {Nil}
          /\ s.conn[c].out_job \in Tubes \cup {Nil} /\ s.conn[c].watch \in MsOf(Tubes)
      BY <3>1 DEF ConnRec
    <3> QED
      BY <3>2, MsTypes
  <2>4. \A j \in Jobs : s.job[j] \in Tubes \cup {Nil}
    BY <2>0 DEF Store
  <2> QED
    BY <2>1, <2>2, <2>3, <2>4 DEF TypeOK
<1> QED
  BY <1>1, TInvariance, PTL

\* Every tube has as many references, users and watchers as tube_iref, tube_dref,
\* TUBE_ASSIGN, on_watch and on_ignore have counted.
THEOREM CountsAreExact == Spec => []RefsExact
<1>1. TInv => RefsExact
  BY ExactCounts DEF RefsExact
<1> QED
  BY <1>1, TInvariance, PTL

\* tube_dref frees a tube only when no connection, job or array points to it,
\* and nothing writes to a freed one.
THEOREM NoUseAfterFree == Spec => []NoDangling
<1>1. TInv => NoDangling
  <2> SUFFICES ASSUME TInv PROVE NoDangling
    OBVIOUS
  <2>0. s \in Store /\ Sound(s)
    BY DEF TInv, Exact, Sound
  <2>1. ASSUME NEW t \in s.freed PROVE References(s, t) = 0 /\ ~ms_contains(s.tubes, t)
    <3>1. t \in Tubes
      BY <2>0 DEF Store
    <3>2. s.tube[t].refs = 0
      BY <2>0, <3>1 DEF Sound, Blank, NoTube
    <3>3. References(s, t) = 0
      BY <3>1, <3>2, ExactCounts
    <3>4. ~ms_contains(s.tubes, t)
      BY <2>0, <3>1, <3>2 DEF Sound, Listed
    <3> QED
      BY <3>3, <3>4
  <2> QED
    BY <2>0, <2>1 DEF NoDangling, Sound
<1> QED
  BY <1>1, TInvariance, PTL

\* tube_find_or_make never makes a second tube of a name, and tube_free takes
\* out of the array the tube that it frees.
THEOREM NamesAreUnique == Spec => []OneTubePerName
<1>1. TInv => OneTubePerName
  <2> SUFFICES ASSUME TInv PROVE OneTubePerName
    OBVIOUS
  <2>0. s.tubes \in MsOf(Tubes) /\ Sound(s)
    BY DEF TInv, Exact, Sound, Store
  <2>1. \A t \in Tubes : ms_contains(s.tubes, t) <=> References(s, t) > 0
    BY <2>0, ExactCounts DEF Sound, Listed
  <2>2. ASSUME NEW i \in 1..Len(s.tubes.items), NEW k \in 1..Len(s.tubes.items), i # k
        PROVE  s.tube[s.tubes.items[i]].name # s.tube[s.tubes.items[k]].name
    <3> DEFINE t == s.tubes.items[i]
               u == s.tubes.items[k]
    <3>1. ms_contains(s.tubes, t) /\ ms_contains(s.tubes, u)
      BY DEF ms_contains, Contains
    <3>2. t \in Tubes /\ u \in Tubes
      BY <2>0 DEF MsOf
    <3>3. t # u
      BY <2>0, <2>2 DEF Sound, Listed, Single
    <3> HIDE DEF t, u
    <3>4. s.tube[t].name # s.tube[u].name
      BY <2>0, <3>1, <3>2, <3>3 DEF Sound, Listed
    <3> QED
      BY <3>4 DEF t, u
  <2> QED
    BY <2>1, <2>2 DEF OneTubePerName
<1> QED
  BY <1>1, TInvariance, PTL

\* enqueue_waiting_conn, remove_waiting_conn and ms_take keep every waiting set:
\* nobody who waits is lost, however the holes of the arrays were filled.
THEOREM WaitersAreListed == Spec => []WaitersListed
<1>1. TInv => WaitersListed
  <2> SUFFICES ASSUME TInv, NEW t \in Tubes
               PROVE  LET waits == {c \in WatchedBy(s, t) : s.conn[c].waiting}
                          items == s.tube[t].waiting_conns.items
                      IN /\ ToSet(items) = {c \in waits : <<c, t>> \notin s.unlisted}
                         /\ Len(items) = Cardinality(ToSet(items))
                         /\ s.tube[t].waiting_ct = Cardinality(waits)
    BY DEF WaitersListed
  <2> DEFINE a == s.tube[t].waiting_conns
             waits == {c \in WatchedBy(s, t) : s.conn[c].waiting}
  <2>0. Sound(s) /\ a \in MsOf(Conns) /\ Single(a) /\ s.conn \in [Conns -> ConnRec]
    BY DEF TInv, Exact, Sound, Store, TubeRec, WaitOK
  <2>1. \A c \in Conns : s.conn[c].waiting \in BOOLEAN
    BY <2>0 DEF ConnRec
  <2>2. waits = Waiters(s, t)
    BY <2>1 DEF WatchedBy, Waiters, Waits
  <2>3. s.tube[t].waiting_ct = Cardinality(waits)
    BY <2>0, <2>2 DEF Sound, WaitOK
  <2>4. ToSet(a.items) = {c \in waits : <<c, t>> \notin s.unlisted}
    <3>1. \A c : c \in ToSet(a.items) <=> ms_contains(a, c)
      BY <2>0, MsTypes
    <3>2. ToSet(a.items) \subseteq Conns
      BY <2>0, MsTypes DEF MsType
    <3>3. \A c \in Conns : ms_contains(a, c) <=> c \in Waiters(s, t) /\ <<c, t>> \notin s.unlisted
      BY <2>0 DEF Sound, WaitOK, Waiters
    <3>4. Waiters(s, t) \subseteq Conns
      BY DEF Waiters
    <3> HIDE DEF a, waits
    <3> QED
      BY <2>2, <3>1, <3>2, <3>3, <3>4
  <2>5. Len(a.items) = Cardinality(ToSet(a.items))
    BY <2>0, Cells
  <2> QED
    BY <2>3, <2>4, <2>5
<1> QED
  BY <1>1, TInvariance, PTL

=============================================================================
