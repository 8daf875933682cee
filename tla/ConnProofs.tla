------------------------------ MODULE ConnProofs ------------------------------
(***************************************************************************)
(* The list epollq and the connection state machine, for any number of     *)
(* connections and any requests: when the thread waits in socknext the     *)
(* kernel watches every socket for what its connection needs, no pointer   *)
(* leads to a connection that h_conn closed, and no buffer is overrun.     *)
(*                                                                         *)
(* A connection may be added to epollq twice, which overwrites its next    *)
(* pointer.  The list is then a ring, and stays one only because the       *)
(* connection was the last one or the only one: `Queued' says which        *)
(* connections a walk along the pointers visits.                           *)
(***************************************************************************)
EXTENDS ConnIO, WellFoundedInduction, TLAPS

-----------------------------------------------------------------------------
(* Numbers and sequences                                                   *)

\* A set of naturals has a least element.
LEMMA LeastOf ==
    ASSUME NEW T, T \subseteq Nat, T # {}
    PROVE  \E m \in T : \A k \in T : m <= k
<1> DEFINE R == OpToRel(<, Nat)
<1>1. IsWellFoundedOn(R, Nat)
  BY NatLessThanWellFounded
<1>2. \A x \in Nat, y \in Nat : <<y, x>> \in R <=> y < x
  BY DEF OpToRel
<1> HIDE DEF R
<1>3. PICK x \in T : \A y \in T : ~ (<<y, x>> \in R)
  BY <1>1, WFMin
<1>4. \A y \in T : ~(y < x) /\ x \in Nat /\ y \in Nat
  BY <1>2, <1>3
<1> QED
  BY <1>3, <1>4

\* Sequences put end to end are a sequence.
LEMMA Flat ==
    ASSUME NEW T, NEW ss \in Seq(Seq(T))
    PROVE  FlattenSeq(ss) \in Seq(T)
<1> DEFINE N == Len(ss)
           flatten[i \in 1..N] == IF i = 1 THEN ss[i] ELSE flatten[i - 1] \o ss[i]
<1>1. N \in Nat /\ \A i \in 1..N : ss[i] \in Seq(T)
  OBVIOUS
<1>2. CASE N = 0
  <2>1. FlattenSeq(ss) = <<>>
    BY <1>2 DEF FlattenSeq
  <2> QED
    BY <2>1
<1>3. CASE N > 0
  <2> DEFINE Flattened(f, k) == /\ f \in [1..k -> Seq(T)]
                           /\ \A i \in 1..k : f[i] = IF i = 1 THEN ss[i] ELSE f[i - 1] \o ss[i]
             Bad == {k \in 1..N : ~\E f : Flattened(f, k)}
  <2>1. Bad = {}
    <3>1. SUFFICES ASSUME Bad # {} PROVE FALSE
      OBVIOUS
    <3>2. PICK k \in Bad : \A h \in Bad : k <= h
      <4>1. Bad \subseteq Nat
        OBVIOUS
      <4> HIDE DEF Bad
      <4> QED
        BY <3>1, <4>1, LeastOf
    <3>3. k \in 1..N /\ ~\E f : Flattened(f, k)
      OBVIOUS
    <3>4. CASE k = 1
      <4>1. Flattened([i \in 1..k |-> ss[1]], k)
        BY <1>1, <1>3, <3>4
      <4> QED
        BY <3>3, <4>1
    <3>5. CASE k # 1
      <4>1. k - 1 \in 1..N /\ ~(k <= k - 1) /\ k \in Nat
        BY <1>1, <3>3, <3>5
      <4>2. PICK f : Flattened(f, k - 1)
        <5>1. k - 1 \notin Bad
          BY <3>2, <4>1
        <5> QED
          BY <4>1, <5>1
      <4> DEFINE g == [i \in 1..k |-> IF i < k THEN f[i] ELSE f[k - 1] \o ss[k]]
      <4>3. f[k - 1] \in Seq(T) /\ ss[k] \in Seq(T)
        BY <1>1, <3>3, <4>1, <4>2
      <4>4. f[k - 1] \o ss[k] \in Seq(T)
        BY <4>3
      <4>5. g \in [1..k -> Seq(T)]
        BY <1>1, <3>3, <4>2, <4>4
      <4>6. \A i \in 1..k : g[i] = IF i = 1 THEN ss[i] ELSE g[i - 1] \o ss[i]
        <5> SUFFICES ASSUME NEW i \in 1..k
                     PROVE  g[i] = IF i = 1 THEN ss[i] ELSE g[i - 1] \o ss[i]
          OBVIOUS
        <5>1. CASE i < k
          <6>1. i \in 1..(k - 1) /\ g[i] = f[i] /\ (i # 1 => i - 1 \in 1..k /\ i - 1 < k)
            BY <1>1, <3>3, <5>1
          <6>2. i # 1 => g[i - 1] = f[i - 1]
            BY <6>1
          <6>3. f[i] = IF i = 1 THEN ss[i] ELSE f[i - 1] \o ss[i]
            BY <4>2, <6>1
          <6> QED
            BY <6>1, <6>2, <6>3
        <5>2. CASE i = k
          <6>1. g[k] = f[k - 1] \o ss[k] /\ g[k - 1] = f[k - 1]
            <7>1. k \in 1..k /\ ~(k < k) /\ k - 1 \in 1..k /\ k - 1 < k
              BY <1>1, <3>3, <4>1
            <7> QED
              BY <7>1
          <6> QED
            BY <3>5, <5>2, <6>1
        <5> QED
          BY <1>1, <3>3, <5>1, <5>2
      <4> HIDE DEF g
      <4> QED
        BY <3>3, <4>5, <4>6
    <3> QED
      BY <3>4, <3>5
  <2>2. PICK f : Flattened(f, N)
    <3>1. N \in 1..N
      BY <1>1, <1>3
    <3> QED
      BY <2>1, <3>1
  <2>3. f = [i \in 1..N |-> IF i = 1 THEN ss[i] ELSE f[i - 1] \o ss[i]]
    BY <2>2
  <2>4. flatten = [i \in 1..N |-> IF i = 1 THEN ss[i] ELSE flatten[i - 1] \o ss[i]]
    BY <2>3
  <2>5. FlattenSeq(ss) = flatten[N]
    BY <1>3 DEF FlattenSeq
  <2> HIDE DEF flatten
  <2> DEFINE Odd == {k \in 1..N : flatten[k] \notin Seq(T)}
  <2>6. Odd = {}
    <3>1. SUFFICES ASSUME Odd # {} PROVE FALSE
      OBVIOUS
    <3>2. PICK k \in Odd : \A h \in Odd : k <= h
      <4>1. Odd \subseteq Nat
        OBVIOUS
      <4> HIDE DEF Odd
      <4> QED
        BY <3>1, <4>1, LeastOf
    <3>3. k \in 1..N /\ flatten[k] \notin Seq(T)
      OBVIOUS
    <3>4. flatten[k] = IF k = 1 THEN ss[k] ELSE flatten[k - 1] \o ss[k]
      BY <2>4, <3>3
    <3>5. k # 1 => flatten[k - 1] \in Seq(T)
      BY <1>1, <3>2, <3>3
    <3>6. ss[k] \in Seq(T)
      BY <1>1, <3>3
    <3> HIDE DEF Odd
    <3>7. k # 1 => flatten[k - 1] \o ss[k] \in Seq(T)
      BY <3>5, <3>6
    <3> QED
      BY <3>3, <3>4, <3>6, <3>7
  <2>7. N \in 1..N
    BY <1>1, <1>3
  <2> QED
    BY <2>5, <2>6, <2>7
<1> QED
  BY <1>1, <1>2, <1>3

\* The two parts of a sequence.
LEMMA Cut ==
    ASSUME NEW x \in Seq(STRING), NEW n \in 0..Len(x)
    PROVE  /\ Upto(x, n) \in Seq(STRING) /\ Len(Upto(x, n)) = n
           /\ From(x, n + 1) \in Seq(STRING) /\ Len(From(x, n + 1)) = Len(x) - n
<1>1. Len(x) \in Nat
  OBVIOUS
<1>2. Upto(x, n) \in Seq(STRING) /\ Len(Upto(x, n)) = n
  BY <1>1 DEF Upto
<1>3. From(x, n + 1) \in Seq(STRING) /\ Len(From(x, n + 1)) = Len(x) - n
  BY <1>1 DEF From
<1> QED
  BY <1>2, <1>3

\* A line found in the buffer is not longer than the buffer.
LEMMA Scan ==
    ASSUME NEW x \in Seq(STRING)
    PROVE  scan_line_end(x) \in 0..Len(x)
<1> DEFINE crs == {i \in 1..(Len(x) - 1) : x[i] = "R"}
<1>1. Len(x) \in Nat /\ crs \subseteq 1..(Len(x) - 1) /\ crs \subseteq Nat
  OBVIOUS
<1>2. CASE crs = {}
  BY <1>1, <1>2 DEF scan_line_end
<1>3. CASE crs # {}
  <2> DEFINE m == CHOOSE i \in crs : \A k \in crs : i <= k
  <2>1. scan_line_end(x) = IF x[m + 1] = "N" THEN m + 1 ELSE 0
    BY <1>3 DEF scan_line_end
  <2> HIDE DEF crs
  <2>2. \E i \in crs : \A k \in crs : i <= k
    BY <1>1, <1>3, LeastOf
  <2>3. m \in crs
    BY <2>2
  <2> HIDE DEF m
  <2>4. m \in 1..(Len(x) - 1)
    BY <1>1, <2>3
  <2> QED
    BY <1>1, <2>1, <2>4
<1> QED
  BY <1>2, <1>3

-----------------------------------------------------------------------------
(* Lists by next pointers                                                  *)

\* From hd the pointers nx lead through l[1], ..., l[n], each once, and then
\* back to l[1] (cyc) or nowhere.
Ring(nx, hd, n, l, cyc) ==
    /\ n \in Nat /\ l \in [1..n -> Conns]
    /\ \A i, k \in 1..n : l[i] = l[k] => i = k
    /\ hd = IF n = 0 THEN Nil ELSE l[1]
    /\ \A i \in 1..n : nx[l[i]] = IF i < n THEN l[i + 1] ELSE IF cyc THEN l[1] ELSE Nil

\* The walk from hd visits the connections M; the others point nowhere.
Queued(nx, hd, M, cyc) ==
    /\ nx \in [Conns -> Conns \cup {Nil}]
    /\ \E n, l : Ring(nx, hd, n, l, cyc) /\ M = {l[i] : i \in 1..n}
    /\ \A c \in Conns \ M : nx[c] = Nil

\* A new connection in front.
LEMMA QueueNew ==
    ASSUME NEW nx, NEW hd, NEW M, Queued(nx, hd, M, FALSE), NEW x \in Conns \ M
    PROVE  Queued([nx EXCEPT ![x] = hd], x, M \cup {x}, FALSE)
<1>1. PICK n, l : Ring(nx, hd, n, l, FALSE) /\ M = {l[i] : i \in 1..n}
  BY DEF Queued
<1> DEFINE k == [i \in 1..(n + 1) |-> IF i = 1 THEN x ELSE l[i - 1]]
           ny == [nx EXCEPT ![x] = hd]
<1>2. n \in Nat /\ l \in [1..n -> Conns] /\ nx \in [Conns -> Conns \cup {Nil}]
  BY <1>1 DEF Ring, Queued
<1>3. ny \in [Conns -> Conns \cup {Nil}]
  BY <1>1, <1>2 DEF Ring
<1>4. k \in [1..(n + 1) -> Conns]
  BY <1>2
<1>5. \A i, h \in 1..(n + 1) : k[i] = k[h] => i = h
  BY <1>1, <1>2 DEF Ring
<1>6. \A i \in 1..(n + 1) : ny[k[i]] = IF i < n + 1 THEN k[i + 1] ELSE Nil
  <2> SUFFICES ASSUME NEW i \in 1..(n + 1)
               PROVE  ny[k[i]] = IF i < n + 1 THEN k[i + 1] ELSE Nil
    OBVIOUS
  <2>1. CASE i = 1
    BY <1>1, <1>2, <2>1 DEF Ring
  <2>2. CASE i # 1
    <3>1. i - 1 \in 1..n /\ k[i] = l[i - 1] /\ l[i - 1] \in M
      BY <1>1, <1>2, <2>2
    <3>2. ny[k[i]] = nx[l[i - 1]]
      BY <1>2, <3>1
    <3>3. nx[l[i - 1]] = IF i - 1 < n THEN l[i] ELSE Nil
      BY <1>1, <1>2, <3>1 DEF Ring
    <3> QED
      BY <1>2, <2>2, <3>2, <3>3
  <2> QED
    BY <2>1, <2>2
<1>7. Ring(ny, x, n + 1, k, FALSE)
  <2>1. n + 1 \in Nat /\ n + 1 # 0 /\ k[1] = x
    BY <1>2
  <2> HIDE DEF k, ny
  <2> QED
    BY <1>4, <1>5, <1>6, <2>1 DEF Ring
<1>8. M \cup {x} = {k[i] : i \in 1..(n + 1)}
  <2>1. ASSUME NEW i \in 1..n PROVE l[i] = k[i + 1] /\ i + 1 \in 1..(n + 1)
    BY <1>2
  <2>2. ASSUME NEW i \in 1..(n + 1) PROVE k[i] \in M \cup {x}
    BY <1>1, <1>2
  <2>3. x = k[1] /\ 1 \in 1..(n + 1)
    BY <1>2
  <2> HIDE DEF k
  <2> QED
    BY <1>1, <2>1, <2>2, <2>3
<1>9. \A c \in Conns \ (M \cup {x}) : ny[c] = Nil
  BY <1>2 DEF Queued
<1> HIDE DEF k, ny
<1>10. Queued(ny, x, M \cup {x}, FALSE)
  <2>1. \E p, q : Ring(ny, x, p, q, FALSE) /\ M \cup {x} = {q[i] : i \in 1..p}
    BY <1>7, <1>8
  <2> QED
    BY <1>3, <1>9, <2>1 DEF Queued
<1> QED
  BY <1>10 DEF ny

\* The last one of a list in front again: the list is a ring.
LEMMA QueueLast ==
    ASSUME NEW nx, NEW hd, NEW M, Queued(nx, hd, M, FALSE), NEW x \in M, nx[x] = Nil,
           Nil \notin Conns
    PROVE  Queued([nx EXCEPT ![x] = hd], x, M, TRUE)
<1>1. PICK n, l : Ring(nx, hd, n, l, FALSE) /\ M = {l[i] : i \in 1..n}
  BY DEF Queued
<1> DEFINE k == [i \in 1..n |-> IF i = 1 THEN x ELSE l[i - 1]]
           ny == [nx EXCEPT ![x] = hd]
<1>2. n \in Nat /\ l \in [1..n -> Conns] /\ nx \in [Conns -> Conns \cup {Nil}]
  BY <1>1 DEF Ring, Queued
<1>3. n > 0 /\ x = l[n] /\ x \in Conns
  <2>1. PICK i \in 1..n : x = l[i]
    BY <1>1
  <2>2. i < n => nx[x] = l[i + 1] /\ l[i + 1] \in Conns
    BY <1>1, <1>2, <2>1 DEF Ring
  <2> QED
    BY <1>2, <2>1, <2>2
<1>4. ny \in [Conns -> Conns \cup {Nil}] /\ hd = l[1]
  BY <1>1, <1>2, <1>3 DEF Ring
<1>5. k \in [1..n -> Conns]
  BY <1>2, <1>3
<1>6. \A i, h \in 1..n : l[i] = l[h] => i = h
  BY <1>1 DEF Ring
<1>7. \A i, h \in 1..n : k[i] = k[h] => i = h
  BY <1>2, <1>3, <1>6
<1>8. \A i \in 1..n : ny[k[i]] = IF i < n THEN k[i + 1] ELSE k[1]
  <2> SUFFICES ASSUME NEW i \in 1..n
               PROVE  ny[k[i]] = IF i < n THEN k[i + 1] ELSE k[1]
    OBVIOUS
  <2>1. CASE i = 1
    BY <1>2, <1>3, <1>4, <2>1
  <2>2. CASE i # 1
    <3>1. i - 1 \in 1..n /\ k[i] = l[i - 1] /\ i - 1 # n /\ i - 1 < n /\ k[1] = x
      BY <1>2, <2>2
    <3>2. ny[k[i]] = nx[l[i - 1]]
      BY <1>2, <1>3, <1>6, <3>1
    <3>3. nx[l[i - 1]] = l[i]
      BY <1>1, <1>2, <3>1 DEF Ring
    <3> QED
      BY <1>2, <1>3, <2>2, <3>1, <3>2, <3>3
  <2> QED
    BY <2>1, <2>2
<1>9. Ring(ny, x, n, k, TRUE)
  <2>1. k[1] = x
    BY <1>2, <1>3
  <2> HIDE DEF k, ny
  <2> QED
    BY <1>2, <1>3, <1>5, <1>7, <1>8, <2>1 DEF Ring
<1>10. M = {k[i] : i \in 1..n}
  <2>1. ASSUME NEW i \in 1..n PROVE \E h \in 1..n : l[i] = k[h]
    <3>1. CASE i = n
      <4>1. k[1] = l[i] /\ 1 \in 1..n
        BY <1>2, <1>3, <3>1
      <4> QED
        BY <4>1
    <3>2. CASE i # n
      <4>1. k[i + 1] = l[i] /\ i + 1 \in 1..n
        BY <1>2, <3>2
      <4> QED
        BY <4>1
    <3> QED
      BY <3>1, <3>2
  <2>2. ASSUME NEW i \in 1..n PROVE k[i] \in M
    BY <1>1, <1>2
  <2> HIDE DEF k
  <2> QED
    BY <1>1, <2>1, <2>2
<1>11. \A c \in Conns \ M : ny[c] = Nil
  BY <1>2 DEF Queued
<1> HIDE DEF k, ny
<1>12. Queued(ny, x, M, TRUE)
  <2>1. \E p, q : Ring(ny, x, p, q, TRUE) /\ M = {q[i] : i \in 1..p}
    BY <1>9, <1>10
  <2> QED
    BY <1>4, <1>11, <2>1 DEF Queued
<1> QED
  BY <1>12 DEF ny

\* The only one in front again.
LEMMA QueueOnly ==
    ASSUME NEW nx, NEW hd, NEW x \in Conns, NEW cyc, Queued(nx, hd, {x}, cyc)
    PROVE  Queued([nx EXCEPT ![x] = hd], x, {x}, TRUE)
<1>1. PICK n, l : Ring(nx, hd, n, l, cyc) /\ {x} = {l[i] : i \in 1..n}
  BY DEF Queued
<1>2. n \in Nat /\ l \in [1..n -> Conns] /\ nx \in [Conns -> Conns \cup {Nil}]
  BY <1>1 DEF Ring, Queued
<1>3. n > 0 /\ \A i \in 1..n : l[i] = x
  BY <1>1, <1>2
<1>4. n = 1
  <2>1. 1 \in 1..n /\ n \in 1..n /\ l[1] = l[n]
    BY <1>2, <1>3
  <2> QED
    BY <1>1, <2>1 DEF Ring
<1>5. hd = x
  BY <1>1, <1>3, <1>4 DEF Ring
<1> DEFINE ny == [nx EXCEPT ![x] = hd]
<1>6. Ring(ny, x, n, l, TRUE) /\ ny \in [Conns -> Conns \cup {Nil}]
  BY <1>1, <1>2, <1>3, <1>4, <1>5 DEF Ring
<1>7. \A c \in Conns \ {x} : ny[c] = Nil
  BY <1>2 DEF Queued
<1> HIDE DEF ny
<1>8. Queued(ny, x, {x}, TRUE)
  <2>1. \E p, q : Ring(ny, x, p, q, TRUE) /\ {x} = {q[i] : i \in 1..p}
    BY <1>1, <1>6
  <2> QED
    BY <1>6, <1>7, <2>1 DEF Queued
<1> QED
  BY <1>8 DEF ny

\* What the list and the connections point to is in the list.
LEMMA QueuePointers ==
    ASSUME NEW nx, NEW hd, NEW M, NEW cyc, Queued(nx, hd, M, cyc), Nil \notin Conns
    PROVE  /\ M \subseteq Conns
           /\ hd \in M \cup {Nil}
           /\ hd = Nil <=> M = {}
           /\ \A c \in Conns : nx[c] \in M \cup {Nil}
<1>1. PICK n, l : Ring(nx, hd, n, l, cyc) /\ M = {l[i] : i \in 1..n}
  BY DEF Queued
<1>2. n \in Nat /\ l \in [1..n -> Conns]
  BY <1>1 DEF Ring
<1>3. n > 0 => hd = l[1] /\ hd \in M /\ hd \in Conns
  <2>1. n > 0 => 1 \in 1..n
    BY <1>2
  <2> QED
    BY <1>1, <1>2, <2>1 DEF Ring
<1>4. n = 0 => hd = Nil /\ M = {}
  BY <1>1, <1>2 DEF Ring
<1>5. ASSUME NEW i \in 1..n PROVE nx[l[i]] \in M \cup {Nil}
  <2>1. i < n => i + 1 \in 1..n
    BY <1>2
  <2>2. 1 \in 1..n
    BY <1>2
  <2> QED
    BY <1>1, <1>2, <2>1, <2>2 DEF Ring
<1>6. \A c \in Conns : nx[c] \in M \cup {Nil}
  BY <1>1, <1>5 DEF Queued
<1> QED
  BY <1>1, <1>2, <1>3, <1>4, <1>6

\* A list of one ends with it.
LEMMA OnlyLast ==
    ASSUME NEW nx, NEW hd, NEW x \in Conns, Queued(nx, hd, {x}, FALSE)
    PROVE  nx[x] = Nil
<1>1. PICK n, l : Ring(nx, hd, n, l, FALSE) /\ {x} = {l[i] : i \in 1..n}
  BY DEF Queued
<1>2. n \in Nat /\ l \in [1..n -> Conns]
  BY <1>1 DEF Ring
<1>3. n > 0 /\ n \in 1..n
  BY <1>1, <1>2
<1>4. l[n] = x
  BY <1>1, <1>3
<1> QED
  BY <1>1, <1>2, <1>3, <1>4 DEF Ring

\* The first one leaves the list; in a ring it comes at the end.
LEMMA QueuePop ==
    ASSUME NEW nx, NEW hd, NEW M, NEW cyc \in BOOLEAN, Queued(nx, hd, M, cyc), hd # Nil,
           Nil \notin Conns
    PROVE  Queued([nx EXCEPT ![hd] = Nil], nx[hd], IF cyc THEN M ELSE M \ {hd}, FALSE)
<1>1. PICK n, l : Ring(nx, hd, n, l, cyc) /\ M = {l[i] : i \in 1..n}
  BY DEF Queued
<1>2. n \in Nat /\ l \in [1..n -> Conns] /\ nx \in [Conns -> Conns \cup {Nil}]
  BY <1>1 DEF Ring, Queued
<1>3. n > 0 /\ hd = l[1] /\ hd \in Conns /\ 1 \in 1..n
  <2>1. n > 0
    BY <1>1, <1>2 DEF Ring
  <2> QED
    BY <1>1, <1>2, <2>1 DEF Ring
<1>4. \A i, h \in 1..n : l[i] = l[h] => i = h
  BY <1>1 DEF Ring
<1>5. \A i \in 1..n : nx[l[i]] = IF i < n THEN l[i + 1] ELSE IF cyc THEN l[1] ELSE Nil
  BY <1>1 DEF Ring
<1> DEFINE ny == [nx EXCEPT ![hd] = Nil]
<1>6. ny \in [Conns -> Conns \cup {Nil}]
  BY <1>2
<1>7. \A i \in 2..n : i \in 1..n /\ ny[l[i]] = nx[l[i]] /\ l[i] # hd
  BY <1>2, <1>3, <1>4
<1>8. CASE cyc = FALSE
  <2> DEFINE k == [i \in 1..(n - 1) |-> l[i + 1]]
  <2>1. n - 1 \in Nat /\ k \in [1..(n - 1) -> Conns]
    BY <1>2, <1>3
  <2>2. \A i, h \in 1..(n - 1) : k[i] = k[h] => i = h
    BY <1>2, <1>4
  <2>3. nx[hd] = IF n - 1 = 0 THEN Nil ELSE k[1]
    BY <1>2, <1>3, <1>5, <1>8
  <2>4. ASSUME NEW i \in 1..(n - 1) PROVE ny[k[i]] = IF i < n - 1 THEN k[i + 1] ELSE Nil
    <3>1. i + 1 \in 2..n /\ k[i] = l[i + 1]
      BY <1>2
    <3>2. ny[k[i]] = IF i + 1 < n THEN l[i + 2] ELSE Nil
      BY <1>2, <1>5, <1>7, <1>8, <3>1
    <3> QED
      BY <1>2, <3>2
  <2>5. M \ {hd} = {k[i] : i \in 1..(n - 1)}
    <3>1. ASSUME NEW i \in 1..n, l[i] # hd PROVE i - 1 \in 1..(n - 1) /\ k[i - 1] = l[i]
      BY <1>2, <1>3, <3>1
    <3>2. ASSUME NEW i \in 1..(n - 1) PROVE k[i] \in M /\ k[i] # hd
      BY <1>1, <1>2, <1>3, <1>4
    <3> HIDE DEF k
    <3> QED
      BY <1>1, <3>1, <3>2
  <2>6. \A c \in Conns \ (M \ {hd}) : ny[c] = Nil
    BY <1>2, <1>3 DEF Queued
  <2> HIDE DEF k, ny
  <2>7. Ring(ny, nx[hd], n - 1, k, FALSE)
    BY <2>1, <2>2, <2>3, <2>4 DEF Ring
  <2>8. Queued(ny, nx[hd], M \ {hd}, FALSE)
    <3>1. \E p, q : Ring(ny, nx[hd], p, q, FALSE) /\ M \ {hd} = {q[i] : i \in 1..p}
      BY <2>5, <2>7
    <3> QED
      BY <1>6, <2>6, <3>1 DEF Queued
  <2> QED
    BY <1>8, <2>8 DEF ny
<1>9. CASE cyc = TRUE
  <2> DEFINE k == [i \in 1..n |-> IF i < n THEN l[i + 1] ELSE l[1]]
  <2>1. k \in [1..n -> Conns]
    BY <1>2, <1>3
  <2>2. \A i, h \in 1..n : k[i] = k[h] => i = h
    BY <1>2, <1>3, <1>4
  <2>3. nx[hd] = k[1]
    BY <1>2, <1>3, <1>5, <1>9
  <2>4. ASSUME NEW i \in 1..n PROVE ny[k[i]] = IF i < n THEN k[i + 1] ELSE Nil
    <3>1. CASE i = n
      BY <1>2, <1>3, <3>1
    <3>2. CASE i # n
      <4>1. i + 1 \in 2..n /\ k[i] = l[i + 1]
        BY <1>2, <3>2
      <4>2. ny[k[i]] = IF i + 1 < n THEN l[i + 2] ELSE l[1]
        BY <1>2, <1>5, <1>7, <1>9, <4>1
      <4> QED
        BY <1>2, <3>2, <4>2
    <3> QED
      BY <3>1, <3>2
  <2>5. M = {k[i] : i \in 1..n}
    <3>1. ASSUME NEW i \in 1..n PROVE \E h \in 1..n : l[i] = k[h]
      <4>1. CASE i = 1
        <5>1. n \in 1..n /\ k[n] = l[1]
          BY <1>2, <1>3
        <5> QED
          BY <4>1, <5>1
      <4>2. CASE i # 1
        <5>1. i - 1 \in 1..n /\ k[i - 1] = l[i]
          BY <1>2, <4>2
        <5> QED
          BY <5>1
      <4> QED
        BY <4>1, <4>2
    <3>2. ASSUME NEW i \in 1..n PROVE k[i] \in M
      BY <1>1, <1>2, <1>3
    <3> HIDE DEF k
    <3> QED
      BY <1>1, <3>1, <3>2
  <2>6. \A c \in Conns \ M : ny[c] = Nil
    BY <1>2, <1>3 DEF Queued
  <2> HIDE DEF k, ny
  <2>7. Ring(ny, nx[hd], n, k, FALSE)
    BY <1>2, <1>3, <2>1, <2>2, <2>3, <2>4 DEF Ring
  <2>8. Queued(ny, nx[hd], M, FALSE)
    <3>1. \E p, q : Ring(ny, nx[hd], p, q, FALSE) /\ M = {q[i] : i \in 1..p}
      BY <2>5, <2>7
    <3> QED
      BY <1>6, <2>6, <3>1 DEF Queued
  <2> QED
    BY <1>9, <2>8 DEF ny
<1> QED
  BY <1>8, <1>9

\* An empty list.
LEMMA QueueNone ==
    ASSUME NEW nx, nx = [c \in Conns |-> Nil]
    PROVE  Queued(nx, Nil, {}, FALSE)
<1> DEFINE k == [i \in 1..0 |-> Nil]
<1>1. k \in [1..0 -> Conns] /\ {k[i] : i \in 1..0} = {}
  OBVIOUS
<1>2. Ring(nx, Nil, 0, k, FALSE)
  BY <1>1 DEF Ring
<1> HIDE DEF k
<1>3. \E n, l : Ring(nx, Nil, n, l, FALSE) /\ {} = {l[i] : i \in 1..n}
  BY <1>1, <1>2
<1> QED
  BY <1>3 DEF Queued

-----------------------------------------------------------------------------
(* The inductive invariant                                                 *)

Text == Seq(STRING)

Words == {"RESERVED", "INSERTED", "BURIED", "EXPECTED_CRLF", "BAD_FORMAT", "JOB_TOO_BIG",
          "OUT_OF_MEMORY", "DEADLINE_SOON", "TIMED_OUT", "UNKNOWN_COMMAND"}

\* The lines that reply_msg and reply_job send.
Replies == {Line(word) : word \in Words} \cup {<<>>}

States == {"WANT_COMMAND", "WANT_ENDLINE", "BITBUCKET", "WANT_DATA",
           "SEND_WORD", "SEND_JOB", "WAIT", "CLOSE", "GONE"}

ConnRec ==
    [state: States, cmd: Text, cmd_len: Nat,
     in_job: [size: Nat, body: Text], in_job_read: Nat,
     reply: Replies, reply_sent: Nat, out_job: Text, out_job_sent: Nat,
     rw: {"r", "w", "h"}, next: Conns \cup {Nil}, halfclosed: BOOLEAN,
     timed: BOOLEAN, reserved_jobs: SUBSET Text]

Store ==
    [conn: [Conns -> ConnRec], epollq: Conns \cup {Nil}, newhead: Conns \cup {Nil},
     ready: SUBSET Text]

\* What a connection waits for.
Need(state) ==
    IF state \in {"SEND_WORD", "SEND_JOB"} THEN "w" ELSE IF state = "WAIT" THEN "h" ELSE "r"

\* A job being read holds what was read of it; a bit bucket has no job.
Sane(k) ==
    /\ Len(k.cmd) <= LINE_BUF_SIZE
    /\ k.in_job # NoJob => k.in_job_read = Len(k.in_job.body) /\ k.in_job_read <= k.in_job.size
    /\ k.state = "BITBUCKET" => k.in_job = NoJob

\* A job and a connection that waits for one are not kept apart.
Matched(st) == st.ready = {} \/ Waiting(st) = {}

Good(st) ==
    /\ st \in Store
    /\ \A c \in Conns : Sane(st.conn[c])
    /\ Matched(st)
    /\ st.newhead = Nil

Nx(st) == [c \in Conns |-> st.conn[c].next]

\* What connection c needs is in the kernel, or will be once epollq is applied.
Heard(k, listed, w) ==
    /\ listed => k.state # "GONE" \/ w = "lost"
    /\ k.state \notin {"GONE", "CLOSE"} =>
            IF listed THEN k.rw = Need(k.state) ELSE w = Need(k.state)

Links(st, w, M, cyc) ==
    /\ Queued(Nx(st), st.epollq, M, cyc)
    /\ \A c \in Conns : Heard(st.conn[c], c \in M, w[c])

\* None of those listed waits for a job.
NoneWaits(st, M) == \A c \in M : st.conn[c].state # "WAIT"

\* Or one does, and is the only one.
WaitAlone(st, M) == \A c, d \in M : st.conn[c].state = "WAIT" => c = d

\* Before a command is read, c may be the only one listed.
AtMost(c, M, cyc) == M \subseteq {c} /\ cyc = FALSE

Busy == {"h_conn", "epollq_rmconn", "connclose"}

Ats == Busy \cup {"socknext", "prottick", "epollq_apply"}

\* What is known of the list at each place of the thread.
Phase(t, st, w, M, cyc) ==
    /\ t.at = "socknext" => M = {} /\ cyc = FALSE
    /\ t.at = "prottick" => cyc = FALSE /\ NoneWaits(st, M)
    /\ t.at \in {"h_conn", "epollq_apply"} => WaitAlone(st, M)
    /\ t.at = "h_conn" /\ st.conn[t.conn].state \in {"WANT_COMMAND", "CLOSE"} =>
            AtMost(t.conn, M, cyc)
    /\ t.at = "epollq_rmconn" => AtMost(t.conn, M, cyc)
    /\ t.at = "connclose" => /\ cyc = FALSE /\ NoneWaits(st, M)
                             /\ t.conn \notin M \/ w[t.conn] = "lost"
                             /\ st.conn[t.conn].next = Nil

\* Who is being closed.
Closing(t, st) ==
    /\ t.at \in Busy => t.conn \in Conns /\ st.conn[t.conn].state # "GONE"
    /\ t.at \in {"epollq_rmconn", "connclose"} => st.conn[t.conn].state = "CLOSE"
    /\ \A c \in Conns : st.conn[c].state = "CLOSE" => t.at \in Busy /\ c = t.conn

Interests == {"r", "w", "h", "none", "lost"}

World ==
    /\ inp \in [Conns -> Text]
    /\ cli \in [Conns -> {"open", "shut", "reset"}]
    /\ want \in [Conns -> Interests]
    /\ task \in [at: Ats, conn: Conns \cup {Nil}]

IInv ==
    /\ World
    /\ Good(s)
    /\ Closing(task, s)
    /\ \E M \in SUBSET Conns, cyc \in BOOLEAN :
            Links(s, want, M, cyc) /\ Phase(task, s, want, M, cyc)

-----------------------------------------------------------------------------
(* What the operators do to the store                                      *)

\* Only connection c and the head of the list change.
Rest(st, t, c) ==
    /\ t \in Store /\ t.newhead = st.newhead
    /\ \A d \in Conns \ {c} : t.conn[d] = st.conn[d]

\* c was put in front of the list with the interest it needs.
Added(st, t, c) ==
    /\ Rest(st, t, c)
    /\ t.epollq = c /\ t.conn[c].next = st.epollq
    /\ t.conn[c].state \notin {"GONE", "CLOSE"}
    /\ t.conn[c].rw = Need(t.conn[c].state)

\* The list stays.
Kept(st, t, c) ==
    /\ Rest(st, t, c)
    /\ t.epollq = st.epollq /\ t.conn[c].next = st.conn[c].next
    /\ t.conn[c].rw = st.conn[c].rw

\* The part of a connection that reading a request is about.
SameInput(k, m) ==
    /\ k.cmd = m.cmd /\ k.cmd_len = m.cmd_len
    /\ k.in_job = m.in_job /\ k.in_job_read = m.in_job_read

LEMMA AddOf ==
    ASSUME NEW st \in Store, NEW c \in Conns, NEW rw \in {"r", "w", "h"}
    PROVE  LET t == epollq_add(st, c, rw) IN
           /\ Rest(st, t, c)
           /\ t.epollq = c /\ t.ready = st.ready
           /\ t.conn[c] = [st.conn[c] EXCEPT !.rw = rw, !.next = st.epollq]
<1> DEFINE t == epollq_add(st, c, rw)
           k == [st.conn[c] EXCEPT !.rw = rw, !.next = st.epollq]
<1>1. k \in ConnRec
  <2>1. st.conn[c] \in ConnRec /\ st.epollq \in Conns \cup {Nil}
    BY DEF Store
  <2> QED
    BY <2>1 DEF ConnRec
<1>2. t = [st EXCEPT !.conn = [st.conn EXCEPT ![c] = k], !.epollq = c]
  BY DEF epollq_add, Store, ConnRec
<1> HIDE DEF k, t
<1>3. t \in Store /\ t.newhead = st.newhead /\ t.epollq = c /\ t.ready = st.ready
      /\ t.conn = [st.conn EXCEPT ![c] = k]
  BY <1>1, <1>2 DEF Store
<1>4. t.conn[c] = k /\ \A d \in Conns \ {c} : t.conn[d] = st.conn[d]
  BY <1>3 DEF Store
<1> QED
  BY <1>3, <1>4 DEF Rest, k, t

LEMMA ReplyOf ==
    ASSUME NEW st \in Store, NEW c \in Conns, NEW line \in Replies,
           NEW state \in {"SEND_WORD", "SEND_JOB"}, NEW t, t = reply(st, c, line, state)
    PROVE  /\ Added(st, t, c)
           /\ t.ready = st.ready
           /\ t.conn[c].state = state
           /\ SameInput(t.conn[c], st.conn[c])
           /\ t.conn[c].reserved_jobs = st.conn[c].reserved_jobs
<1> DEFINE u == epollq_add(st, c, "w")
           k == [u.conn[c] EXCEPT !.reply = line, !.reply_sent = 0, !.state = state]
<1>1. /\ Rest(st, u, c)
      /\ u.epollq = c /\ u.ready = st.ready
      /\ u.conn[c] = [st.conn[c] EXCEPT !.rw = "w", !.next = st.epollq]
  BY AddOf
<1>2. u \in Store /\ st.conn[c] \in ConnRec
  BY <1>1 DEF Rest, Store
<1>3. t = [u EXCEPT !.conn[c].reply = line, !.conn[c].reply_sent = 0, !.conn[c].state = state]
  BY DEF reply
<1> HIDE DEF u
<1>4. k \in ConnRec
  <2>1. u.conn[c] \in ConnRec /\ state \in States
    BY <1>2 DEF Store, States
  <2> QED
    BY <2>1 DEF ConnRec
<1>5. t = [u EXCEPT !.conn = [u.conn EXCEPT ![c] = k]]
  BY <1>2, <1>3 DEF Store, ConnRec
<1>6. /\ k.rw = "w" /\ k.next = st.epollq /\ k.state = state
      /\ SameInput(k, st.conn[c]) /\ k.reserved_jobs = st.conn[c].reserved_jobs
  BY <1>1, <1>2 DEF ConnRec, SameInput
<1> HIDE DEF k
<1>7. t \in Store /\ t.newhead = u.newhead /\ t.epollq = u.epollq /\ t.ready = u.ready
      /\ t.conn = [u.conn EXCEPT ![c] = k]
  BY <1>2, <1>4, <1>5 DEF Store
<1>8. t.conn[c] = k /\ \A d \in Conns \ {c} : t.conn[d] = u.conn[d]
  BY <1>2, <1>7 DEF Store
<1> QED
  BY <1>1, <1>6, <1>7, <1>8 DEF Rest, Added, Need

SetConn(st, c, k) == [st EXCEPT !.conn = [st.conn EXCEPT ![c] = k]]

LEMMA SetOf ==
    ASSUME NEW st \in Store, NEW c \in Conns, NEW k \in ConnRec, NEW t,
           t = SetConn(st, c, k)
    PROVE  /\ Rest(st, t, c)
           /\ t.epollq = st.epollq /\ t.ready = st.ready
           /\ t.conn[c] = k
<1>1. t \in Store /\ t.newhead = st.newhead /\ t.epollq = st.epollq /\ t.ready = st.ready
      /\ t.conn = [st.conn EXCEPT ![c] = k]
  BY DEF Store, SetConn
<1>2. t.conn[c] = k /\ \A d \in Conns \ {c} : t.conn[d] = st.conn[d]
  BY <1>1 DEF Store
<1> QED
  BY <1>1, <1>2 DEF Rest

LEMMA FirstKept ==
    ASSUME NEW st, NEW t, NEW u, NEW c, Kept(st, t, c)
    PROVE  /\ Kept(t, u, c) => Kept(st, u, c)
           /\ Added(t, u, c) => Added(st, u, c)
BY DEF Kept, Added, Rest

LEMMA ThenKept ==
    ASSUME NEW st, NEW t, NEW u, NEW c, Added(st, t, c), Kept(t, u, c),
           u.conn[c].state = t.conn[c].state
    PROVE  Added(st, u, c)
BY DEF Kept, Added, Rest

\* fill_extra_data moves what it took from the buffer, and never more than fits.
LEMMA FillRec ==
    ASSUME NEW k \in ConnRec, k.cmd_len <= Len(k.cmd), Len(k.cmd) <= LINE_BUF_SIZE,
           LINE_BUF_SIZE \in Nat,
           k.state = "BITBUCKET" => k.in_job = NoJob,
           k.cmd_len = 0 => Sane(k)
    PROVE  LET m == fill_extra_data(k) IN
           /\ m \in ConnRec /\ Sane(m)
           /\ m.cmd_len = 0
           /\ m.state = k.state /\ m.rw = k.rw /\ m.next = k.next
           /\ m.reserved_jobs = k.reserved_jobs
           /\ k.in_job = NoJob => m.in_job = NoJob
<1> DEFINE m == fill_extra_data(k)
<1>1. CASE k.cmd_len = 0
  <2>1. m = k
    BY <1>1 DEF fill_extra_data
  <2> QED
    BY <1>1, <2>1
<1>2. CASE k.cmd_len # 0
  <2> DEFINE extra == From(k.cmd, k.cmd_len + 1)
             n == Least(Len(extra), IF k.in_job # NoJob THEN k.in_job.size ELSE k.in_job_read)
             body == IF k.in_job # NoJob THEN Upto(extra, n) ELSE k.in_job.body
             read == IF k.in_job # NoJob THEN n ELSE k.in_job_read - n
             job == [k.in_job EXCEPT !.body = body]
  <2>1. m = [k EXCEPT !.in_job = job, !.in_job_read = read,
                      !.cmd = From(extra, n + 1), !.cmd_len = 0]
    BY <1>2 DEF fill_extra_data, ConnRec
  <2>2. k.cmd \in Seq(STRING) /\ k.cmd_len \in Nat /\ k.in_job_read \in Nat
        /\ k.in_job \in [size: Nat, body: Text]
    BY DEF ConnRec, Text
  <2>3. k.cmd_len \in 0..Len(k.cmd) /\ Len(k.cmd) \in Nat
    BY <2>2
  <2>4. extra \in Seq(STRING) /\ Len(extra) = Len(k.cmd) - k.cmd_len
    BY <2>2, <2>3, Cut
  <2> HIDE DEF extra
  <2>5. /\ n \in 0..Len(extra) /\ Len(extra) \in Nat
        /\ IF k.in_job # NoJob THEN n <= k.in_job.size ELSE n <= k.in_job_read
    BY <2>2, <2>3, <2>4 DEF Least
  <2> HIDE DEF n
  <2>6. /\ Upto(extra, n) \in Text /\ Len(Upto(extra, n)) = n
        /\ From(extra, n + 1) \in Text /\ Len(From(extra, n + 1)) = Len(extra) - n
    BY <2>4, <2>5, Cut DEF Text
  <2>7. body \in Text /\ read \in Nat
    BY <2>2, <2>5, <2>6
  <2>8. job \in [size: Nat, body: Text] /\ job.size = k.in_job.size /\ job.body = body
        /\ (k.in_job = NoJob => job = NoJob)
    BY <2>2, <2>7 DEF NoJob
  <2>9. m \in ConnRec /\ m.cmd_len = 0 /\ m.state = k.state /\ m.rw = k.rw /\ m.next = k.next
        /\ m.reserved_jobs = k.reserved_jobs /\ m.in_job = job /\ m.in_job_read = read
        /\ m.cmd = From(extra, n + 1)
    <3> HIDE DEF body, read, job, m
    <3> QED
      BY <2>1, <2>6, <2>7, <2>8 DEF ConnRec
  <2>10. Sane(m)
    <3> HIDE DEF m
    <3>1. Len(m.cmd) <= LINE_BUF_SIZE
      BY <2>3, <2>4, <2>5, <2>6, <2>9
    <3>2. m.in_job # NoJob => m.in_job_read = Len(m.in_job.body)
                              /\ m.in_job_read <= m.in_job.size
      BY <2>5, <2>6, <2>8, <2>9
    <3>3. m.state = "BITBUCKET" => m.in_job = NoJob
      BY <2>8, <2>9
    <3> QED
      BY <3>1, <3>2, <3>3 DEF Sane
  <2> HIDE DEF m
  <2> QED
    BY <2>8, <2>9, <2>10 DEF m
<1> QED
  BY <1>1, <1>2

LEMMA FillOf ==
    ASSUME NEW st \in Store, NEW c \in Conns,
           st.conn[c].cmd_len <= Len(st.conn[c].cmd), Len(st.conn[c].cmd) <= LINE_BUF_SIZE,
           st.conn[c].state = "BITBUCKET" => st.conn[c].in_job = NoJob,
           st.conn[c].cmd_len = 0 => Sane(st.conn[c])
    PROVE  LET t == FillExtra(st, c) IN
           /\ Kept(st, t, c)
           /\ t.ready = st.ready
           /\ Sane(t.conn[c]) /\ t.conn[c].cmd_len = 0
           /\ t.conn[c].state = st.conn[c].state
           /\ t.conn[c].reserved_jobs = st.conn[c].reserved_jobs
           /\ st.conn[c].in_job = NoJob => t.conn[c].in_job = NoJob
<1> DEFINE t == FillExtra(st, c)
           m == fill_extra_data(st.conn[c])
<1>1. st.conn[c] \in ConnRec
  BY DEF Store
<1>2. /\ m \in ConnRec /\ Sane(m)
      /\ m.cmd_len = 0
      /\ m.state = st.conn[c].state /\ m.rw = st.conn[c].rw /\ m.next = st.conn[c].next
      /\ m.reserved_jobs = st.conn[c].reserved_jobs
      /\ st.conn[c].in_job = NoJob => m.in_job = NoJob
  BY <1>1, ConnConstants, FillRec
<1>3. t = SetConn(st, c, m)
  BY DEF FillExtra, SetConn, Store
<1> HIDE DEF m, t
<1>4. Rest(st, t, c) /\ t.epollq = st.epollq /\ t.ready = st.ready /\ t.conn[c] = m
  BY <1>2, <1>3, SetOf
<1> QED
  BY <1>2, <1>4 DEF Kept, t

\* A step that leaves all connections but c alone keeps the store good if c is.
LEMMA GoodStep ==
    ASSUME NEW st, NEW t, NEW c \in Conns, Good(st), Rest(st, t, c), Sane(t.conn[c]),
           t.ready \subseteq st.ready, t.conn[c].state = "WAIT" => st.conn[c].state = "WAIT"
    PROVE  Good(t)
<1>1. Waiting(t) \subseteq Waiting(st)
  BY DEF Waiting, Rest
<1>2. Matched(t)
  BY <1>1 DEF Good, Matched
<1> QED
  BY <1>2 DEF Good, Rest

\* Either nothing can be given, or a waiting connection gets a ready job.
LEMMA ProcessOf ==
    ASSUME NEW st \in Store, NEW t \in process_queue(st)
    PROVE  \/ t = st /\ Matched(st)
           \/ \E b \in Waiting(st), j \in st.ready :
                /\ Added(st, t, b)
                /\ t.conn[b].state = "SEND_JOB"
                /\ SameInput(t.conn[b], st.conn[b])
                /\ t.ready = st.ready \ {j}
<1>1. CASE st.ready = {} \/ Waiting(st) = {}
  <2>1. process_queue(st) = {st}
    BY <1>1 DEF process_queue
  <2> QED
    BY <1>1, <2>1 DEF Matched
<1>2. CASE ~(st.ready = {} \/ Waiting(st) = {})
  <2>1. PICK b \in Waiting(st), j \in st.ready :
            t = reply_job(conn_reserve_job(st, b, j), b, j)
    BY <1>2 DEF process_queue
  <2> DEFINE u == conn_reserve_job(st, b, j)
             v == [u EXCEPT !.conn[b].out_job = j, !.conn[b].out_job_sent = 0]
             m == [st.conn[b] EXCEPT !.reserved_jobs = @ \cup {j}, !.timed = FALSE]
             k == [m EXCEPT !.out_job = j, !.out_job_sent = 0]
  <2>2. b \in Conns /\ j \in Text /\ st.conn[b] \in ConnRec
    BY DEF Waiting, Store
  <2>3. m \in ConnRec /\ k \in ConnRec /\ k.state = st.conn[b].state /\ k.rw = st.conn[b].rw
        /\ k.next = st.conn[b].next /\ SameInput(k, st.conn[b])
    BY <2>2 DEF ConnRec, SameInput
  <2>4. v = [st EXCEPT !.ready = st.ready \ {j}, !.conn = [st.conn EXCEPT ![b] = k]]
    <3>1. u = [st EXCEPT !.ready = st.ready \ {j}, !.conn = [st.conn EXCEPT ![b] = m]]
      BY <2>2 DEF conn_reserve_job, Store, ConnRec
    <3> HIDE DEF m, u
    <3>2. u \in Store /\ u.conn[b] = m
      BY <2>2, <2>3, <3>1 DEF Store
    <3>3. v = [u EXCEPT !.conn = [u.conn EXCEPT ![b] = k]]
      BY <2>2, <3>2 DEF Store, ConnRec
    <3> HIDE DEF v, k
    <3> QED
      BY <2>2, <3>1, <3>3 DEF Store
  <2>5. t = reply(v, b, Line("RESERVED"), "SEND_JOB")
    BY <2>1 DEF reply_job
  <2> HIDE DEF u, v, m, k
  <2>6. v \in Store /\ v.newhead = st.newhead /\ v.epollq = st.epollq
        /\ v.ready = st.ready \ {j} /\ v.conn = [st.conn EXCEPT ![b] = k]
    BY <2>3, <2>4 DEF Store
  <2>7. v.conn[b] = k /\ \A d \in Conns \ {b} : v.conn[d] = st.conn[d]
    BY <2>2, <2>6 DEF Store
  <2>8. Kept(st, v, b)
    BY <2>3, <2>6, <2>7 DEF Kept, Rest
  <2>9. Line("RESERVED") \in Replies
    BY DEF Replies, Words
  <2>10. /\ Added(v, t, b) /\ t.ready = v.ready /\ t.conn[b].state = "SEND_JOB"
         /\ SameInput(t.conn[b], v.conn[b])
    <3>1. PICK z, line : z = "SEND_JOB" /\ line = Line("RESERVED")
      OBVIOUS
    <3>2. z \in {"SEND_WORD", "SEND_JOB"} /\ t = reply(v, b, line, z) /\ line \in Replies
          /\ v \in Store /\ b \in Conns
      BY <2>2, <2>5, <2>6, <2>9, <3>1
    <3>3. /\ Added(v, t, b) /\ t.ready = v.ready /\ t.conn[b].state = z
          /\ SameInput(t.conn[b], v.conn[b])
      BY <3>2, ReplyOf
    <3> QED
      BY <3>1, <3>3
  <2>11. Added(st, t, b)
    BY <2>8, <2>10, FirstKept
  <2>12. SameInput(t.conn[b], st.conn[b])
    BY <2>3, <2>7, <2>10 DEF SameInput
  <2> QED
    BY <2>6, <2>10, <2>11, <2>12
<1> QED
  BY <1>1, <1>2

\* Nothing but the ready jobs changes, or one that waited is told of a job.
Given(st, t) ==
    \/ t.conn = st.conn /\ t.epollq = st.epollq
    \/ \E b \in Waiting(st) : Added(st, t, b) /\ t.conn[b].state = "SEND_JOB"

LEMMA EnqueueOf ==
    ASSUME NEW st, Good(st), NEW j \in Text, NEW t \in enqueue_job(st, j)
    PROVE  Good(t) /\ Given(st, t)
<1> DEFINE u == [st EXCEPT !.ready = @ \cup {j}]
<1>1. t \in process_queue(u)
  BY DEF enqueue_job
<1>2. st \in Store
  BY DEF Good
<1>3. u \in Store /\ u.conn = st.conn /\ u.epollq = st.epollq /\ u.newhead = st.newhead
      /\ u.ready = st.ready \cup {j}
  BY <1>2 DEF Store
<1> HIDE DEF u
<1>4. Waiting(u) = Waiting(st)
  BY <1>3 DEF Waiting
<1>5. CASE t = u /\ Matched(u)
  BY <1>3, <1>5 DEF Good, Given
<1>6. ASSUME NEW b \in Waiting(u), NEW i \in u.ready, Added(u, t, b),
             t.conn[b].state = "SEND_JOB", SameInput(t.conn[b], u.conn[b]),
             t.ready = u.ready \ {i}
      PROVE  Good(t) /\ Given(st, t)
  <2>1. st.ready = {} /\ t.ready = {}
    BY <1>3, <1>4, <1>6 DEF Good, Matched
  <2>2. Added(st, t, b) /\ b \in Conns
    BY <1>3, <1>6 DEF Added, Rest, Waiting
  <2>3. Sane(t.conn[b])
    BY <1>3, <1>6, <2>2 DEF Good, Sane, SameInput
  <2>4. Good(t)
    BY <1>3, <2>1, <2>2, <2>3 DEF Good, Matched, Added, Rest
  <2> QED
    BY <1>4, <1>6, <2>2, <2>4 DEF Given
<1> QED
  BY <1>1, <1>3, <1>5, <1>6, ProcessOf

\* An answer of one line.
LEMMA MsgOf ==
    ASSUME NEW st \in Store, NEW c \in Conns, NEW word \in Words, NEW t,
           t = reply_msg(st, c, word)
    PROVE  /\ Added(st, t, c)
           /\ t.ready = st.ready
           /\ t.conn[c].state = "SEND_WORD"
           /\ SameInput(t.conn[c], st.conn[c])
           /\ t.conn[c].reserved_jobs = st.conn[c].reserved_jobs
<1>1. PICK z, line : z = "SEND_WORD" /\ line = Line(word)
  OBVIOUS
<1>2. z \in {"SEND_WORD", "SEND_JOB"} /\ t = reply(st, c, line, z) /\ line \in Replies
  BY <1>1 DEF reply_msg, Replies
<1> QED
  BY <1>1, <1>2, ReplyOf

LEMMA LinksKept ==
    ASSUME NEW st \in Store, NEW t, NEW c \in Conns, NEW w, NEW M, NEW cyc,
           Links(st, w, M, cyc), Kept(st, t, c),
           \/ t.conn[c].state = "CLOSE"
           \/ /\ st.conn[c].state \notin {"GONE", "CLOSE"}
              /\ t.conn[c].state # "GONE"
              /\ Need(t.conn[c].state) = Need(st.conn[c].state)
    PROVE  Links(t, w, M, cyc)
<1>1. Nx(t) = Nx(st)
  BY DEF Nx, Kept, Rest
<1>2. ASSUME NEW d \in Conns PROVE Heard(t.conn[d], d \in M, w[d])
  <2>1. Heard(st.conn[d], d \in M, w[d])
    BY DEF Links
  <2>2. CASE d = c
    BY <2>1, <2>2 DEF Heard, Kept
  <2>3. CASE d # c
    BY <2>1, <2>3 DEF Kept, Rest
  <2> QED
    BY <2>2, <2>3
<1> QED
  BY <1>1, <1>2 DEF Links, Kept

\* The pointers after c was added.
LEMMA NxAdded ==
    ASSUME NEW st \in Store, NEW t, NEW c \in Conns, Added(st, t, c)
    PROVE  Nx(t) = [Nx(st) EXCEPT ![c] = st.epollq]
BY DEF Nx, Added, Rest

LEMMA HeardAdded ==
    ASSUME NEW st \in Store, NEW t, NEW c \in Conns, NEW w, NEW M, NEW cyc,
           Links(st, w, M, cyc), Added(st, t, c), NEW d \in Conns
    PROVE  Heard(t.conn[d], d \in M \cup {c}, w[d])
<1>1. Heard(st.conn[d], d \in M, w[d])
  BY DEF Links
<1>2. CASE d = c
  BY <1>2 DEF Heard, Added
<1>3. CASE d # c
  BY <1>1, <1>3 DEF Added, Rest, Heard
<1> QED
  BY <1>2, <1>3

LEMMA LinksNew ==
    ASSUME NEW st \in Store, NEW t, NEW c \in Conns, NEW w, NEW M,
           Links(st, w, M, FALSE), Added(st, t, c), c \notin M
    PROVE  Links(t, w, M \cup {c}, FALSE)
<1>1. Queued(Nx(st), st.epollq, M, FALSE)
  BY DEF Links
<1>2. Queued([Nx(st) EXCEPT ![c] = st.epollq], c, M \cup {c}, FALSE)
  BY <1>1, QueueNew
<1>3. Queued(Nx(t), t.epollq, M \cup {c}, FALSE)
  BY <1>2, NxAdded DEF Added
<1>4. \A d \in Conns : Heard(t.conn[d], d \in M \cup {c}, w[d])
  BY HeardAdded
<1> QED
  BY <1>3, <1>4 DEF Links

LEMMA LinksLast ==
    ASSUME NEW st \in Store, NEW t, NEW c \in Conns, NEW w, NEW M,
           Links(st, w, M, FALSE), Added(st, t, c), c \in M, st.conn[c].next = Nil
    PROVE  Links(t, w, M, TRUE)
<1>1. Queued(Nx(st), st.epollq, M, FALSE) /\ Nx(st)[c] = Nil
  BY DEF Links, Nx
<1>2. Queued([Nx(st) EXCEPT ![c] = st.epollq], c, M, TRUE)
  BY <1>1, QueueLast, ConnConstants
<1>3. Queued(Nx(t), t.epollq, M, TRUE)
  BY <1>2, NxAdded DEF Added
<1>4. \A d \in Conns : Heard(t.conn[d], d \in M \cup {c}, w[d])
  BY HeardAdded
<1>5. M \cup {c} = M
  OBVIOUS
<1> QED
  BY <1>3, <1>4, <1>5 DEF Links

LEMMA LinksOnly ==
    ASSUME NEW st \in Store, NEW t, NEW c \in Conns, NEW w, NEW cyc,
           Links(st, w, {c}, cyc), Added(st, t, c)
    PROVE  Links(t, w, {c}, TRUE)
<1>1. Queued(Nx(st), st.epollq, {c}, cyc)
  BY DEF Links
<1>2. Queued([Nx(st) EXCEPT ![c] = st.epollq], c, {c}, TRUE)
  BY <1>1, QueueOnly
<1>3. Queued(Nx(t), t.epollq, {c}, TRUE)
  BY <1>2, NxAdded DEF Added
<1>4. \A d \in Conns : Heard(t.conn[d], d \in {c} \cup {c}, w[d])
  BY HeardAdded
<1>5. {c} \cup {c} = {c}
  OBVIOUS
<1> QED
  BY <1>3, <1>4, <1>5 DEF Links

-----------------------------------------------------------------------------
(* Steps of conn_process_io and dispatch_cmd                               *)

\* What such a step may do to the list: leave it, add c, add c and before it c
\* or one that waited.
IoStep(st, t, c) ==
    \/ /\ Kept(st, t, c)
       /\ \/ t.conn[c].state = "CLOSE"
          \/ t.conn[c].state # "GONE" /\ Need(t.conn[c].state) = Need(st.conn[c].state)
    \/ /\ Added(st, t, c)
       /\ t.conn[c].state = "WANT_COMMAND" => st.epollq = Nil
    \/ /\ t.conn[c].state \notin {"WANT_COMMAND", "WAIT"}
       /\ \E v, u \in Store :
            /\ Kept(st, v, c) /\ v.conn[c].state = st.conn[c].state
            /\ Added(u, t, c)
            /\ \/ Added(v, u, c)
               \/ \E b \in Waiting(st) \ {c} :
                    Added(v, u, b) /\ u.conn[b].state = "SEND_JOB"

LEMMA IoLinks ==
    ASSUME NEW st \in Store, NEW t, NEW c \in Conns, NEW w,
           st.conn[c].state \notin {"GONE", "CLOSE"}, IoStep(st, t, c),
           NEW M \in SUBSET Conns, NEW cyc \in BOOLEAN, Links(st, w, M, cyc), AtMost(c, M, cyc)
    PROVE  \E N \in SUBSET Conns, cy \in BOOLEAN :
                /\ Links(t, w, N, cy) /\ WaitAlone(t, N)
                /\ t.conn[c].state \in {"WANT_COMMAND", "CLOSE"} => AtMost(c, N, cy)
<1>0. ASSUME NEW N, N \subseteq {c} PROVE WaitAlone(t, N)
  BY <1>0 DEF WaitAlone
<1>1. Links(st, w, M, FALSE) /\ M \subseteq {c} /\ cyc = FALSE
  BY DEF AtMost
<1>2. CASE /\ Kept(st, t, c)
           /\ \/ t.conn[c].state = "CLOSE"
              \/ t.conn[c].state # "GONE" /\ Need(t.conn[c].state) = Need(st.conn[c].state)
  <2>1. Links(t, w, M, FALSE)
    BY <1>1, <1>2, LinksKept
  <2> QED
    BY <1>0, <1>1, <2>1 DEF AtMost
<1>3. ASSUME NEW u, u \in Store, Added(st, u, c)
      PROVE  \/ M = {} /\ Links(u, w, {c}, FALSE)
             \/ M = {c} /\ Links(u, w, {c}, TRUE)
  <2>1. CASE M = {}
    <3>1. Links(u, w, M \cup {c}, FALSE)
      BY <1>1, <1>3, <2>1, LinksNew
    <3>2. M \cup {c} = {c}
      BY <2>1
    <3> QED
      BY <2>1, <3>1, <3>2
  <2>2. CASE M = {c}
    BY <1>1, <1>3, <2>2, LinksOnly
  <2> QED
    BY <1>1, <2>1, <2>2
<1>4. CASE Added(st, t, c) /\ (t.conn[c].state = "WANT_COMMAND" => st.epollq = Nil)
  <2>1. t \in Store /\ t.conn[c].state # "CLOSE"
    BY <1>4 DEF Added, Rest
  <2>2. CASE M = {} /\ Links(t, w, {c}, FALSE)
    BY <1>0, <2>2 DEF AtMost
  <2>3. CASE M = {c} /\ Links(t, w, {c}, TRUE)
    <3>1. st.epollq # Nil
      BY <1>1, <2>3, QueuePointers, ConnConstants DEF Links
    <3> QED
      BY <1>0, <1>4, <2>1, <2>3, <3>1
  <2> QED
    BY <1>3, <1>4, <2>1, <2>2, <2>3
<1>5. ASSUME NEW u, u \in Store, Added(u, t, c), Added(st, u, c)
      PROVE  \E N \in SUBSET Conns, cy \in BOOLEAN : Links(t, w, N, cy) /\ WaitAlone(t, N)
  <2>1. PICK cy \in BOOLEAN : Links(u, w, {c}, cy)
    BY <1>3, <1>5
  <2>2. Links(t, w, {c}, TRUE)
    BY <1>5, <2>1, LinksOnly
  <2> QED
    BY <1>0, <2>2
<1>6. ASSUME NEW v, NEW u, v \in Store, u \in Store, Kept(st, v, c),
             v.conn[c].state = st.conn[c].state, Added(u, t, c),
             NEW b \in Waiting(st) \ {c}, Added(v, u, b), u.conn[b].state = "SEND_JOB",
             t.conn[c].state # "WAIT"
      PROVE  \E N \in SUBSET Conns, cy \in BOOLEAN : Links(t, w, N, cy) /\ WaitAlone(t, N)
  <2>0. WaitAlone(t, M \cup {b}) /\ WaitAlone(t, (M \cup {b}) \cup {c})
    <3>1. t.conn[b].state = "SEND_JOB"
      BY <1>6 DEF Added, Rest, Waiting
    <3> QED
      BY <1>1, <1>6, <3>1 DEF WaitAlone
  <2>1. b \in Conns /\ b \notin M
    BY <1>1 DEF Waiting
  <2>2. Links(v, w, M, FALSE)
    BY <1>1, <1>6, LinksKept
  <2>3. Links(u, w, M \cup {b}, FALSE)
    BY <1>6, <2>1, <2>2, LinksNew
  <2>4. CASE c \in M
    <3>1. M = {c} /\ u.conn[c] = v.conn[c]
      BY <1>1, <1>6, <2>4 DEF Added, Rest
    <3>2. v.conn[c].next = Nil
      <4>1. Queued(Nx(v), v.epollq, {c}, FALSE)
        BY <2>2, <3>1 DEF Links
      <4>2. Nx(v)[c] = Nil
        BY <4>1, OnlyLast
      <4> QED
        BY <4>2 DEF Nx
    <3>3. Links(t, w, M \cup {b}, TRUE)
      BY <1>6, <2>3, <2>4, <3>1, <3>2, LinksLast
    <3> QED
      BY <2>0, <2>1, <3>3
  <2>5. CASE c \notin M
    <3>1. Links(t, w, (M \cup {b}) \cup {c}, FALSE)
      BY <1>6, <2>3, <2>5, LinksNew
    <3> QED
      BY <2>0, <2>1, <3>1
  <2> QED
    BY <2>4, <2>5
<1>7. CASE /\ t.conn[c].state \notin {"WANT_COMMAND", "WAIT"}
           /\ \E v, u \in Store :
                /\ Kept(st, v, c) /\ v.conn[c].state = st.conn[c].state
                /\ Added(u, t, c)
                /\ \/ Added(v, u, c)
                   \/ \E b \in Waiting(st) \ {c} :
                        Added(v, u, b) /\ u.conn[b].state = "SEND_JOB"
  <2>1. t.conn[c].state # "CLOSE"
    BY <1>7 DEF Added
  <2>2. \A v, u \in Store : Kept(st, v, c) /\ Added(v, u, c) => Added(st, u, c)
    BY FirstKept
  <2>3. \E N \in SUBSET Conns, cy \in BOOLEAN : Links(t, w, N, cy) /\ WaitAlone(t, N)
    BY <1>5, <1>6, <1>7, <2>2
  <2> QED
    BY <1>7, <2>1, <2>3
<1> QED
  BY <1>2, <1>4, <1>7 DEF IoStep

\* Nobody else is closed on the way.
LEMMA IoOthers ==
    ASSUME NEW st \in Store, NEW t, NEW c \in Conns, IoStep(st, t, c),
           \A d \in Conns : st.conn[d].state # "CLOSE"
    PROVE  /\ t.conn[c].state # "GONE"
           /\ \A d \in Conns : t.conn[d].state = "CLOSE" => d = c
BY DEF IoStep, Added, Kept, Rest

\* c, which is not being closed, is served and the thread stays with it.
LEMMA IoInv ==
    ASSUME IInv, NEW c \in Conns, s.conn[c].state \notin {"GONE", "CLOSE"},
           task.at = "socknext" \/ task = [at |-> "h_conn", conn |-> c],
           task.at = "h_conn" => s.conn[c].state = "WANT_COMMAND",
           IoStep(s, s', c), Good(s'), World', want' = want,
           task' = [at |-> "h_conn", conn |-> c]
    PROVE  IInv'
<1>1. s \in Store /\ World
  BY DEF IInv, Good
<1>2. PICK M \in SUBSET Conns, cyc \in BOOLEAN : Links(s, want, M, cyc) /\ Phase(task, s, want, M, cyc)
  BY DEF IInv
<1>3. AtMost(c, M, cyc)
  BY <1>2 DEF Phase, AtMost
<1>4. PICK N \in SUBSET Conns, cy \in BOOLEAN :
            /\ Links(s', want, N, cy) /\ WaitAlone(s', N)
            /\ s'.conn[c].state \in {"WANT_COMMAND", "CLOSE"} => AtMost(c, N, cy)
  BY <1>1, <1>2, <1>3, IoLinks
<1>5. \A d \in Conns : s.conn[d].state # "CLOSE"
  BY DEF IInv, Closing, Busy
<1>6. s'.conn[c].state # "GONE" /\ \A d \in Conns : s'.conn[d].state = "CLOSE" => d = c
  BY <1>1, <1>5, IoOthers
<1>7. task'.at = "h_conn" /\ task'.conn = c
  OBVIOUS
<1>8. Closing(task', s')
  BY <1>6, <1>7 DEF Closing, Busy
<1>9. Phase(task', s', want', N, cy)
  BY <1>4, <1>7 DEF Phase
<1>10. Links(s', want', N, cy)
  BY <1>4
<1> QED
  BY <1>8, <1>9, <1>10 DEF IInv

SameOutput(k, m) ==
    /\ k.reply = m.reply /\ k.reply_sent = m.reply_sent
    /\ k.out_job = m.out_job /\ k.out_job_sent = m.out_job_sent

\* Noting a closed half changes nothing else.
LEMMA NotedOf ==
    ASSUME Good(s), NEW c \in Conns
    PROVE  /\ Good(Noted(c)) /\ Kept(s, Noted(c), c)
           /\ Noted(c).ready = s.ready
           /\ Noted(c).conn[c].state = s.conn[c].state
           /\ SameInput(Noted(c).conn[c], s.conn[c])
           /\ SameOutput(Noted(c).conn[c], s.conn[c])
           /\ Noted(c).conn[c].reserved_jobs = s.conn[c].reserved_jobs
<1>1. s \in Store /\ s.conn[c] \in ConnRec
  BY DEF Good, Store
<1>2. PICK h \in BOOLEAN : h = (s.conn[c].halfclosed \/ cli[c] # "open")
  OBVIOUS
<1> DEFINE k == [s.conn[c] EXCEPT !.halfclosed = h]
           t == Noted(c)
<1>3. k \in ConnRec /\ k.state = s.conn[c].state /\ k.rw = s.conn[c].rw
      /\ k.next = s.conn[c].next /\ k.reserved_jobs = s.conn[c].reserved_jobs
      /\ SameInput(k, s.conn[c]) /\ SameOutput(k, s.conn[c])
  BY <1>1 DEF ConnRec, SameInput, SameOutput
<1>4. t = SetConn(s, c, k)
  BY <1>1, <1>2 DEF Noted, SetConn, Store, ConnRec
<1> HIDE DEF k, t
<1>5. Rest(s, t, c) /\ t.epollq = s.epollq /\ t.ready = s.ready /\ t.conn[c] = k
  BY <1>1, <1>3, <1>4, SetOf
<1>6. Kept(s, t, c)
  BY <1>3, <1>5 DEF Kept
<1>7. Sane(t.conn[c])
  BY <1>3, <1>5 DEF Good, Sane, SameInput
<1>8. Good(t)
  BY <1>3, <1>5, <1>7, GoodStep
<1> QED
  BY <1>3, <1>5, <1>6, <1>8 DEF t

LEMMA ReadsOf ==
    ASSUME World, NEW c \in Conns, NEW room \in Int, NEW n \in 1..Len(inp[c]), Reads(c, room, n)
    PROVE  /\ inp' \in [Conns -> Text] /\ cli' = cli /\ want' = want
           /\ n \in Nat /\ n > 0 /\ n <= room
           /\ Upto(inp[c], n) \in Text /\ Len(Upto(inp[c], n)) = n
<1>1. inp[c] \in Seq(STRING) /\ inp \in [Conns -> Text]
  BY DEF World, Text
<1>2. n \in 0..Len(inp[c]) /\ Len(inp[c]) \in Nat /\ n \in Nat /\ n > 0
  BY <1>1
<1>3. /\ Upto(inp[c], n) \in Text /\ Len(Upto(inp[c], n)) = n
      /\ From(inp[c], n + 1) \in Text
  BY <1>1, <1>2, Cut DEF Text
<1>4. inp' = [inp EXCEPT ![c] = From(inp[c], n + 1)]
  BY DEF Reads
<1>5. inp' \in [Conns -> Text]
  BY <1>1, <1>3, <1>4
<1> QED
  BY <1>2, <1>3, <1>5 DEF Reads

\* One thing of what an I/O step needs: everything but the store.
LEMMA IoWorld ==
    ASSUME World, NEW c \in Conns, inp' \in [Conns -> Text], cli' = cli, want' = want,
           task' = [at |-> "h_conn", conn |-> c]
    PROVE  World'
<1>1. task' \in [at: Ats, conn: Conns \cup {Nil}]
  BY DEF Ats, Busy
<1> QED
  BY <1>1 DEF World

LEMMA Fields ==
    ASSUME NEW st \in Store, NEW c \in Conns
    PROVE  /\ st.conn[c] \in ConnRec
           /\ st.conn[c].cmd \in Seq(STRING) /\ Len(st.conn[c].cmd) \in Nat
           /\ st.conn[c].in_job \in [size: Nat, body: Seq(STRING)]
           /\ Len(st.conn[c].in_job.body) \in Nat
           /\ st.conn[c].in_job_read \in Nat
           /\ st.conn[c].reply \in Replies
           /\ st.conn[c].reply_sent \in Nat /\ st.conn[c].out_job_sent \in Nat
           /\ st.conn[c].out_job \in Seq(STRING)
           /\ st.conn[c].reserved_jobs \subseteq Text
<1>1. st.conn[c] \in ConnRec
  BY DEF Store
<1>2. /\ st.conn[c].cmd \in Seq(STRING)
      /\ st.conn[c].in_job \in [size: Nat, body: Seq(STRING)]
      /\ st.conn[c].out_job \in Seq(STRING)
  BY <1>1 DEF ConnRec, Text
<1>3. Len(st.conn[c].cmd) \in Nat /\ Len(st.conn[c].in_job.body) \in Nat
  BY <1>2
<1>4. /\ st.conn[c].in_job_read \in Nat
      /\ st.conn[c].reply \in Replies
      /\ st.conn[c].reply_sent \in Nat /\ st.conn[c].out_job_sent \in Nat
      /\ st.conn[c].reserved_jobs \subseteq Text
  BY <1>1 DEF ConnRec
<1> QED
  BY <1>1, <1>2, <1>3, <1>4

\* c keeps its place and needs what it needed, or is to be closed.
LEMMA IoKept ==
    ASSUME NEW st, NEW t, NEW c, Kept(st, t, c),
           \/ t.conn[c].state = "CLOSE"
           \/ t.conn[c].state # "GONE" /\ Need(t.conn[c].state) = Need(st.conn[c].state)
    PROVE  IoStep(st, t, c)
BY DEF IoStep

LEMMA EditGood ==
    ASSUME NEW st, Good(st), NEW c \in Conns, NEW k \in ConnRec, Sane(k),
           k.rw = st.conn[c].rw, k.next = st.conn[c].next,
           k.state = "WAIT" => st.conn[c].state = "WAIT",
           NEW t, t = SetConn(st, c, k)
    PROVE  Good(t) /\ Kept(st, t, c) /\ t.conn[c] = k /\ t.ready = st.ready
<1>1. st \in Store
  BY DEF Good
<1>2. Rest(st, t, c) /\ t.epollq = st.epollq /\ t.ready = st.ready /\ t.conn[c] = k
  BY <1>1, SetOf
<1>3. Good(t)
  BY <1>2, GoodStep
<1> QED
  BY <1>2, <1>3 DEF Kept

\* An answer keeps the store good, whatever is done with the rest of the line.
LEMMA MsgGood ==
    ASSUME NEW st, Good(st), NEW c \in Conns, NEW word \in Words, NEW t,
           t = reply_msg(st, c, word)
    PROVE  Good(t) /\ Added(st, t, c) /\ t.conn[c].state = "SEND_WORD" /\ t.ready = st.ready
           /\ SameInput(t.conn[c], st.conn[c])
<1>1. st \in Store
  BY DEF Good
<1>2. /\ Added(st, t, c) /\ t.ready = st.ready
      /\ t.conn[c].state = "SEND_WORD"
      /\ SameInput(t.conn[c], st.conn[c])
  BY <1>1, MsgOf
<1>3. Sane(t.conn[c])
  BY <1>2 DEF Good, Sane, SameInput
<1>4. Rest(st, t, c)
  BY <1>2 DEF Added
<1>5. Good(t)
  BY <1>2, <1>3, <1>4, GoodStep
<1> QED
  BY <1>2, <1>5

LEMMA FillGood ==
    ASSUME NEW st, Good(st), NEW c \in Conns, st.conn[c].cmd_len <= Len(st.conn[c].cmd), NEW t,
           t = FillExtra(st, c)
    PROVE  Good(t) /\ Kept(st, t, c) /\ t.conn[c].state = st.conn[c].state /\ t.ready = st.ready
           /\ t.conn[c].cmd_len = 0
           /\ (st.conn[c].in_job = NoJob => t.conn[c].in_job = NoJob)
<1>1. st \in Store /\ Sane(st.conn[c])
  BY DEF Good
<1>2. /\ Kept(st, t, c) /\ t.ready = st.ready
      /\ Sane(t.conn[c]) /\ t.conn[c].cmd_len = 0
      /\ t.conn[c].state = st.conn[c].state
      /\ (st.conn[c].in_job = NoJob => t.conn[c].in_job = NoJob)
  BY <1>1, FillOf DEF Sane
<1>3. Rest(st, t, c)
  BY <1>2 DEF Kept
<1>4. Good(t)
  BY <1>2, <1>3, GoodStep
<1> QED
  BY <1>2, <1>4

LEMMA MsgFill ==
    ASSUME NEW st, Good(st), NEW c \in Conns, st.conn[c].cmd_len <= Len(st.conn[c].cmd),
           NEW word \in Words, NEW t, t = FillExtra(reply_msg(st, c, word), c)
    PROVE  Good(t) /\ Added(st, t, c) /\ t.conn[c].state = "SEND_WORD"
<1>1. PICK u : u = reply_msg(st, c, word)
  OBVIOUS
<1>2. Good(u) /\ Added(st, u, c) /\ u.conn[c].state = "SEND_WORD"
      /\ SameInput(u.conn[c], st.conn[c])
  BY <1>1, MsgGood
<1>3. u.conn[c].cmd_len <= Len(u.conn[c].cmd)
  BY <1>2 DEF SameInput
<1>4. Good(t) /\ Kept(u, t, c) /\ t.conn[c].state = u.conn[c].state
  BY <1>1, <1>2, <1>3, FillGood
<1> QED
  BY <1>2, <1>4, ThenKept

\* read() into the command buffer.
LEMMA Buffer ==
    ASSUME World, Good(s), NEW c \in Conns, NEW n \in 1..Len(inp[c]), NEW buf,
           buf = s.conn[c].cmd \o Upto(inp[c], n),
           Reads(c, LINE_BUF_SIZE - Len(s.conn[c].cmd), n)
    PROVE  /\ inp' \in [Conns -> Text] /\ cli' = cli /\ want' = want
           /\ buf \in Text /\ Len(buf) <= LINE_BUF_SIZE
<1>1. s \in Store
  BY DEF Good
<1>2. s.conn[c].cmd \in Seq(STRING) /\ Len(s.conn[c].cmd) \in Nat
  BY <1>1, Fields
<1>3. LINE_BUF_SIZE - Len(s.conn[c].cmd) \in Int
  BY <1>2, ConnConstants
<1>4. /\ inp' \in [Conns -> Text] /\ cli' = cli /\ want' = want /\ n \in Nat
      /\ n <= LINE_BUF_SIZE - Len(s.conn[c].cmd)
      /\ Upto(inp[c], n) \in Text /\ Len(Upto(inp[c], n)) = n
  BY <1>3, ReadsOf
<1>5. PICK x, y : x = s.conn[c].cmd /\ y = Upto(inp[c], n)
  OBVIOUS
<1>6. x \in Seq(STRING) /\ y \in Seq(STRING) /\ Len(y) = n
  BY <1>2, <1>4, <1>5 DEF Text
<1>7. x \o y \in Seq(STRING) /\ Len(x \o y) = Len(x) + n
  BY <1>6
<1> QED
  BY <1>2, <1>4, <1>5, <1>7, ConnConstants DEF Text

WithCmd(st, c, buf) == [st EXCEPT !.conn[c].cmd = buf]

LEMMA Buffered ==
    ASSUME Good(s), NEW c \in Conns, NEW buf \in Text, Len(buf) <= LINE_BUF_SIZE, NEW t,
           t = WithCmd(Noted(c), c, buf)
    PROVE  /\ Good(t) /\ Kept(s, t, c) /\ t.conn[c].state = s.conn[c].state
           /\ t.conn[c].cmd = buf
<1> DEFINE st == Noted(c)
           k == [st.conn[c] EXCEPT !.cmd = buf]
<1>1. Good(st) /\ Kept(s, st, c) /\ st.conn[c].state = s.conn[c].state
  BY NotedOf
<1>2. t = WithCmd(st, c, buf)
  OBVIOUS
<1> HIDE DEF st
<1>3. st \in Store /\ st.conn[c] \in ConnRec
  BY <1>1, Fields DEF Good
<1>4. t = SetConn(st, c, k)
  BY <1>2, <1>3 DEF WithCmd, SetConn, Store, ConnRec
<1>5. k \in ConnRec /\ k.cmd = buf /\ k.in_job = st.conn[c].in_job
      /\ k.in_job_read = st.conn[c].in_job_read
      /\ k.state = st.conn[c].state /\ k.rw = st.conn[c].rw /\ k.next = st.conn[c].next
  BY <1>3 DEF ConnRec
<1> HIDE DEF k
<1>6. Sane(k)
  BY <1>1, <1>5 DEF Sane, Good
<1>7. Good(t) /\ Kept(st, t, c) /\ t.conn[c] = k
  BY <1>1, <1>4, <1>5, <1>6, EditGood
<1>8. Kept(s, t, c)
  BY <1>1, <1>7, FirstKept
<1> QED
  BY <1>1, <1>5, <1>7, <1>8

\* A line that does not fit is dropped.
Drop(st, c, state) == [st EXCEPT !.conn[c].cmd = <<>>, !.conn[c].state = state]

LEMMA Dropped ==
    ASSUME NEW st, Good(st), NEW c \in Conns, NEW state \in States, state \notin {"WAIT", "BITBUCKET"},
           NEW t, t = Drop(st, c, state)
    PROVE  Good(t) /\ Kept(st, t, c) /\ t.conn[c].state = state
<1> DEFINE k == [st.conn[c] EXCEPT !.cmd = <<>>, !.state = state]
<1>1. st \in Store /\ st.conn[c] \in ConnRec
  BY Fields DEF Good
<1>2. t = SetConn(st, c, k)
  BY <1>1 DEF Drop, SetConn, Store, ConnRec
<1>3. <<>> \in Text /\ Len(<<>>) = 0
  BY DEF Text
<1>4. k \in ConnRec /\ k.cmd = <<>> /\ k.in_job = st.conn[c].in_job
      /\ k.in_job_read = st.conn[c].in_job_read
      /\ k.state = state /\ k.rw = st.conn[c].rw /\ k.next = st.conn[c].next
  BY <1>1, <1>3 DEF ConnRec
<1> HIDE DEF k
<1>5. Sane(k)
  BY <1>3, <1>4, ConnConstants DEF Sane, Good
<1>6. Good(t) /\ Kept(st, t, c) /\ t.conn[c] = k
  BY <1>2, <1>4, <1>5, EditGood
<1> QED
  BY <1>4, <1>6

\* What the rest of the state needs after a step of conn_process_io.
Io == inp' \in [Conns -> Text] /\ cli' = cli /\ want' = want

LEMMA read_command_Step ==
    ASSUME World, Good(s), NEW c \in Conns, read_command(c)
    PROVE  Io /\ Good(s') /\ IoStep(s, s', c)
<1>1. PICK n \in 1..Len(inp[c]) :
        LET buf == s.conn[c].cmd \o Upto(inp[c], n)
            st == [Noted(c) EXCEPT !.conn[c].cmd = buf]
        IN /\ Reads(c, LINE_BUF_SIZE - Len(s.conn[c].cmd), n)
           /\ s' = IF scan_line_end(buf) = 0 /\ Len(buf) = LINE_BUF_SIZE
                   THEN [st EXCEPT !.conn[c].cmd = <<>>, !.conn[c].state = "WANT_ENDLINE"]
                   ELSE st
  BY DEF read_command
<1>2. s.conn[c].state = "WANT_COMMAND"
  BY DEF read_command
<1> DEFINE buf == s.conn[c].cmd \o Upto(inp[c], n)
           st == [Noted(c) EXCEPT !.conn[c].cmd = buf]
<1>3. Io /\ buf \in Text /\ Len(buf) <= LINE_BUF_SIZE
  BY <1>1, Buffer DEF Io
<1>4. Good(st) /\ Kept(s, st, c) /\ st.conn[c].state = s.conn[c].state
  <2> HIDE DEF buf
  <2> QED
    BY <1>3, Buffered DEF WithCmd
<1>5. \/ s' = st
      \/ s' = [st EXCEPT !.conn[c].cmd = <<>>, !.conn[c].state = "WANT_ENDLINE"]
  BY <1>1
<1> HIDE DEF st, buf
<1>6. CASE s' = st
  BY <1>2, <1>3, <1>4, <1>6, IoKept
<1>7. CASE s' = [st EXCEPT !.conn[c].cmd = <<>>, !.conn[c].state = "WANT_ENDLINE"]
  <2>1. PICK e : e = "WANT_ENDLINE"
    OBVIOUS
  <2>2. e \in States /\ e \notin {"WAIT", "BITBUCKET"}
    BY <2>1 DEF States
  <2>3. s' = Drop(st, c, e)
    BY <1>7, <2>1 DEF Drop
  <2>4. Good(s') /\ Kept(st, s', c) /\ s'.conn[c].state = e
    BY <1>4, <2>2, <2>3, Dropped
  <2>5. Kept(s, s', c)
    BY <1>4, <2>4, FirstKept
  <2>6. s'.conn[c].state # "GONE" /\ Need(s'.conn[c].state) = Need(s.conn[c].state)
    BY <1>2, <2>1, <2>4 DEF Need
  <2> QED
    BY <1>3, <2>4, <2>5, <2>6, IoKept
<1> QED
  BY <1>5, <1>6, <1>7

ScanTo(st, c, len) == [st EXCEPT !.conn[c].cmd_len = len]

LEMMA ScannedGood ==
    ASSUME NEW st, Good(st), NEW c \in Conns, NEW len, len \in 0..Len(st.conn[c].cmd), NEW t,
           t = ScanTo(st, c, len)
    PROVE  /\ Good(t) /\ Kept(st, t, c) /\ t.conn[c].state = st.conn[c].state
           /\ t.conn[c].cmd = st.conn[c].cmd /\ t.conn[c].cmd_len = len
           /\ t.conn[c].in_job = st.conn[c].in_job /\ t.ready = st.ready
           /\ t.conn[c].reserved_jobs = st.conn[c].reserved_jobs
<1> DEFINE k == [st.conn[c] EXCEPT !.cmd_len = len]
<1>1. st \in Store /\ st.conn[c] \in ConnRec /\ Len(st.conn[c].cmd) \in Nat
  BY Fields DEF Good
<1>2. t = SetConn(st, c, k)
  BY <1>1 DEF ScanTo, SetConn, Store, ConnRec
<1>3. len \in Nat
  BY <1>1
<1>4. k \in ConnRec /\ k.cmd = st.conn[c].cmd /\ k.cmd_len = len
      /\ k.in_job = st.conn[c].in_job /\ k.in_job_read = st.conn[c].in_job_read
      /\ k.state = st.conn[c].state /\ k.rw = st.conn[c].rw /\ k.next = st.conn[c].next
      /\ k.reserved_jobs = st.conn[c].reserved_jobs
  BY <1>1, <1>3 DEF ConnRec
<1> HIDE DEF k
<1>5. Sane(k)
  BY <1>4 DEF Sane, Good
<1>6. Good(t) /\ Kept(st, t, c) /\ t.conn[c] = k /\ t.ready = st.ready
  BY <1>2, <1>4, <1>5, EditGood
<1> QED
  BY <1>4, <1>6

LEMMA IoThen ==
    ASSUME NEW st, NEW t, NEW u, NEW c, IoStep(st, t, c), Kept(t, u, c),
           u.conn[c].state = t.conn[c].state
    PROVE  IoStep(st, u, c)
<1>1. ASSUME NEW v, Added(v, t, c) PROVE Added(v, u, c)
  BY <1>1, ThenKept
<1>2. Kept(st, t, c) => Kept(st, u, c)
  BY FirstKept
<1> QED
  BY <1>1, <1>2 DEF IoStep

LEMMA IoFirst ==
    ASSUME NEW st, NEW t, NEW u, NEW c \in Conns, Kept(st, t, c),
           t.conn[c].state = st.conn[c].state, IoStep(t, u, c)
    PROVE  IoStep(st, u, c)
<1>1. Kept(t, u, c) => Kept(st, u, c)
  BY FirstKept
<1>2. Added(t, u, c) => Added(st, u, c)
  BY FirstKept
<1>3. \A v : Kept(t, v, c) => Kept(st, v, c)
  BY FirstKept
<1>4. Waiting(t) = Waiting(st) /\ t.epollq = st.epollq
  BY DEF Waiting, Kept, Rest
<1> QED
  BY <1>1, <1>2, <1>3, <1>4 DEF IoStep

LEMMA IoAdded ==
    ASSUME NEW st, NEW t, NEW c, Added(st, t, c), t.conn[c].state # "WANT_COMMAND"
    PROVE  IoStep(st, t, c)
BY DEF IoStep

LEMMA read_endline_Step ==
    ASSUME World, Good(s), NEW c \in Conns, read_endline(c)
    PROVE  Io /\ Good(s') /\ IoStep(s, s', c)
<1>1. PICK n \in 1..Len(inp[c]) :
        LET buf == s.conn[c].cmd \o Upto(inp[c], n)
            st == [Noted(c) EXCEPT !.conn[c].cmd = buf]
            len == scan_line_end(buf)
        IN /\ Reads(c, LINE_BUF_SIZE - Len(s.conn[c].cmd), n)
           /\ s' = IF len > 0
                   THEN FillExtra(reply_msg([st EXCEPT !.conn[c].cmd_len = len],
                                            c, "BAD_FORMAT"), c)
                   ELSE IF Len(buf) = LINE_BUF_SIZE THEN [st EXCEPT !.conn[c].cmd = <<>>]
                   ELSE st
  BY DEF read_endline
<1>2. s.conn[c].state = "WANT_ENDLINE"
  BY DEF read_endline
<1> DEFINE buf == s.conn[c].cmd \o Upto(inp[c], n)
           st == [Noted(c) EXCEPT !.conn[c].cmd = buf]
           len == scan_line_end(buf)
           scanned == [st EXCEPT !.conn[c].cmd_len = len]
<1>3. Io /\ buf \in Text /\ Len(buf) <= LINE_BUF_SIZE
  BY <1>1, Buffer DEF Io
<1>4. Good(st) /\ Kept(s, st, c) /\ st.conn[c].state = s.conn[c].state /\ st.conn[c].cmd = buf
  <2> HIDE DEF buf
  <2> QED
    BY <1>3, Buffered DEF WithCmd
<1>5. \/ s' = st
      \/ s' = [st EXCEPT !.conn[c].cmd = <<>>]
      \/ s' = FillExtra(reply_msg(scanned, c, "BAD_FORMAT"), c)
  BY <1>1
<1>6. len \in 0..Len(buf)
  BY <1>3, Scan DEF Text
<1> HIDE DEF st, buf, len
<1>7. st \in Store /\ st.conn[c] \in ConnRec
  BY <1>4, Fields DEF Good
<1>8. CASE s' = st
  BY <1>2, <1>3, <1>4, <1>8, IoKept
<1>9. CASE s' = [st EXCEPT !.conn[c].cmd = <<>>]
  <2>1. PICK e : e = "WANT_ENDLINE"
    OBVIOUS
  <2>2. e \in States /\ e \notin {"WAIT", "BITBUCKET"} /\ st.conn[c].state = e
    BY <1>2, <1>4, <2>1 DEF States
  <2>3. s' = Drop(st, c, e)
    BY <1>7, <1>9, <2>2 DEF Drop, Store, ConnRec
  <2>4. Good(s') /\ Kept(st, s', c) /\ s'.conn[c].state = e
    BY <1>4, <2>2, <2>3, Dropped
  <2>5. Kept(s, s', c)
    BY <1>4, <2>4, FirstKept
  <2>6. s'.conn[c].state # "GONE" /\ Need(s'.conn[c].state) = Need(s.conn[c].state)
    BY <1>2, <2>1, <2>4 DEF Need
  <2> QED
    BY <1>3, <2>4, <2>5, <2>6, IoKept
<1>10. CASE s' = FillExtra(reply_msg(scanned, c, "BAD_FORMAT"), c)
  <2>0. scanned = ScanTo(st, c, len)
    BY DEF ScanTo
  <2> HIDE DEF scanned
  <2>1. Good(scanned) /\ Kept(st, scanned, c) /\ scanned.conn[c].state = st.conn[c].state
        /\ scanned.conn[c].cmd = buf /\ scanned.conn[c].cmd_len = len
    BY <1>4, <1>6, <2>0, ScannedGood
  <2>2. PICK word : word = "BAD_FORMAT"
    OBVIOUS
  <2>3. word \in Words /\ s' = FillExtra(reply_msg(scanned, c, word), c)
    BY <1>10, <2>2 DEF Words
  <2>4. scanned.conn[c].cmd_len <= Len(scanned.conn[c].cmd)
    BY <1>6, <2>1
  <2>5. Good(s') /\ Added(scanned, s', c) /\ s'.conn[c].state = "SEND_WORD"
    BY <2>1, <2>3, <2>4, MsgFill
  <2>6. Kept(s, scanned, c)
    BY <1>4, <2>1, FirstKept
  <2>7. Added(s, s', c)
    BY <2>5, <2>6, FirstKept
  <2> QED
    BY <1>3, <2>5, <2>7, IoAdded
<1> QED
  BY <1>5, <1>8, <1>9, <1>10

\* One more answer, after the bit bucket has taken what was to be skipped.
LEMMA read_bucket_Step ==
    ASSUME World, Good(s), NEW c \in Conns, read_bucket(c)
    PROVE  Io /\ Good(s') /\ IoStep(s, s', c)
<1>1. PICK n \in 1..Len(inp[c]) :
        LET st == [Noted(c) EXCEPT !.conn[c].in_job_read = @ - n] IN
        /\ Reads(c, Least(s.conn[c].in_job_read, BUCKET_BUF_SIZE), n)
        /\ s' = IF st.conn[c].in_job_read = 0
                THEN reply(st, c, st.conn[c].reply, "SEND_WORD")
                ELSE st
  BY DEF read_bucket
<1>2. s.conn[c].state = "BITBUCKET" /\ s \in Store
  BY DEF read_bucket, Good
<1> DEFINE nt == Noted(c)
           st == [nt EXCEPT !.conn[c].in_job_read = @ - n]
           k == [nt.conn[c] EXCEPT !.in_job_read = nt.conn[c].in_job_read - n]
<1>3. Good(nt) /\ Kept(s, nt, c) /\ nt.conn[c].state = s.conn[c].state
      /\ SameInput(nt.conn[c], s.conn[c])
  BY NotedOf
<1>4. \/ s' = st
      \/ s' = reply(st, c, st.conn[c].reply, "SEND_WORD")
  BY <1>1
<1> HIDE DEF nt
<1>5. nt \in Store /\ nt.conn[c] \in ConnRec /\ nt.conn[c].in_job_read \in Nat
      /\ s.conn[c].in_job_read \in Nat
  BY <1>2, <1>3, Fields DEF Good
<1>6. Io /\ n \in Nat /\ n <= nt.conn[c].in_job_read
  <2>1. Least(s.conn[c].in_job_read, BUCKET_BUF_SIZE) \in Int
        /\ Least(s.conn[c].in_job_read, BUCKET_BUF_SIZE) <= s.conn[c].in_job_read
    BY <1>5, ConnConstants DEF Least
  <2>2. Reads(c, Least(s.conn[c].in_job_read, BUCKET_BUF_SIZE), n)
    BY <1>1
  <2>3. Io /\ n \in Nat /\ n <= Least(s.conn[c].in_job_read, BUCKET_BUF_SIZE)
    BY <2>1, <2>2, ReadsOf DEF Io
  <2>4. nt.conn[c].in_job_read = s.conn[c].in_job_read
    BY <1>3 DEF SameInput
  <2> QED
    BY <1>5, <2>1, <2>3, <2>4
<1>7. st = SetConn(nt, c, k)
  BY <1>5 DEF SetConn, Store, ConnRec
<1>8. nt.conn[c].in_job_read - n \in Nat
  BY <1>5, <1>6
<1>9. k \in ConnRec /\ k.cmd = nt.conn[c].cmd /\ k.in_job = nt.conn[c].in_job
      /\ k.state = nt.conn[c].state /\ k.rw = nt.conn[c].rw /\ k.next = nt.conn[c].next
  BY <1>5, <1>8 DEF ConnRec
<1> HIDE DEF k, st
<1>10. Sane(k)
  <2>1. Sane(nt.conn[c]) /\ nt.conn[c].state = "BITBUCKET"
    BY <1>2, <1>3 DEF Good
  <2> QED
    BY <1>9, <2>1 DEF Sane
<1>11. Good(st) /\ Kept(nt, st, c) /\ st.conn[c] = k
  BY <1>3, <1>7, <1>9, <1>10, EditGood
<1>12. Kept(s, st, c) /\ st.conn[c].state = s.conn[c].state
  BY <1>3, <1>9, <1>11, FirstKept
<1>13. CASE s' = st
  BY <1>2, <1>6, <1>11, <1>12, <1>13, IoKept
<1>14. CASE s' = reply(st, c, st.conn[c].reply, "SEND_WORD")
  <2>1. PICK e, line : e = "SEND_WORD" /\ line = st.conn[c].reply
    OBVIOUS
  <2>2. st \in Store
    BY <1>11 DEF Good
  <2>3. line \in Replies /\ e \in {"SEND_WORD", "SEND_JOB"} /\ s' = reply(st, c, line, e)
    BY <1>14, <2>1, <2>2, Fields
  <2>4. Added(st, s', c) /\ s'.ready = st.ready /\ s'.conn[c].state = e
        /\ SameInput(s'.conn[c], st.conn[c])
    BY <2>2, <2>3, ReplyOf
  <2>5. Sane(s'.conn[c])
    BY <1>11, <2>1, <2>4 DEF Good, Sane, SameInput
  <2>6. Rest(st, s', c)
    BY <2>4 DEF Added
  <2>7. Good(s')
    BY <1>11, <2>1, <2>4, <2>5, <2>6, GoodStep
  <2>8. Added(s, s', c)
    BY <1>12, <2>4, FirstKept
  <2>9. s'.conn[c].state # "WANT_COMMAND"
    BY <2>1, <2>4
  <2> QED
    BY <1>6, <2>7, <2>8, <2>9, IoAdded
<1> QED
  BY <1>4, <1>13, <1>14

\* The job is complete, or c goes on waiting for the rest of it.
LEMMA MaybeOf ==
    ASSUME NEW st, Good(st), NEW c \in Conns, st.conn[c].state \in {"WANT_DATA", "WANT_COMMAND"},
           NEW t, t \in maybe_enqueue_incoming_job(st, c)
    PROVE  Good(t) /\ IoStep(st, t, c) /\ t.conn[c].cmd_len = st.conn[c].cmd_len
           /\ t.conn[c].cmd = st.conn[c].cmd
<1>1. st \in Store /\ st.conn[c] \in ConnRec
  BY Fields DEF Good
<1>2. CASE st.conn[c].in_job_read # st.conn[c].in_job.size
  <2> DEFINE k == [st.conn[c] EXCEPT !.state = "WANT_DATA"]
  <2>1. t = [st EXCEPT !.conn[c].state = "WANT_DATA"]
    BY <1>2 DEF maybe_enqueue_incoming_job
  <2>2. t = SetConn(st, c, k)
    BY <1>1, <2>1 DEF SetConn, Store, ConnRec
  <2>3. k \in ConnRec /\ k.cmd = st.conn[c].cmd /\ k.cmd_len = st.conn[c].cmd_len
        /\ k.in_job = st.conn[c].in_job /\ k.in_job_read = st.conn[c].in_job_read
        /\ k.state = "WANT_DATA" /\ k.rw = st.conn[c].rw /\ k.next = st.conn[c].next
    <3>1. "WANT_DATA" \in States
      BY DEF States
    <3> QED
      BY <1>1, <3>1 DEF ConnRec
  <2> HIDE DEF k
  <2>4. Sane(k)
    BY <2>3 DEF Good, Sane
  <2>5. Good(t) /\ Kept(st, t, c) /\ t.conn[c] = k
    BY <2>2, <2>3, <2>4, EditGood
  <2>6. t.conn[c].state # "GONE" /\ Need(t.conn[c].state) = Need(st.conn[c].state)
    BY <2>3, <2>5 DEF Need
  <2>7. IoStep(st, t, c)
    BY <2>5, <2>6, IoKept
  <2> QED
    BY <2>3, <2>5, <2>7
<1>3. CASE st.conn[c].in_job_read = st.conn[c].in_job.size
  <2> DEFINE j == st.conn[c].in_job.body
             owned == [st EXCEPT !.conn[c].in_job = NoJob, !.conn[c].in_job_read = 0]
             k == [st.conn[c] EXCEPT !.in_job = NoJob, !.in_job_read = 0]
  <2>1. t \in enqueue_incoming_job(st, c)
    BY <1>3 DEF maybe_enqueue_incoming_job
  <2>2. \/ t = reply_msg(owned, c, "EXPECTED_CRLF")
        \/ t = reply_msg(owned, c, "BURIED")
        \/ \E u \in enqueue_job(owned, j) : t = reply_msg(u, c, "INSERTED")
    BY <2>1 DEF enqueue_incoming_job
  <2>3. owned = SetConn(st, c, k)
    BY <1>1 DEF SetConn, Store, ConnRec
  <2>4. k \in ConnRec /\ k.cmd = st.conn[c].cmd /\ k.cmd_len = st.conn[c].cmd_len
        /\ k.in_job = NoJob /\ k.in_job_read = 0
        /\ k.state = st.conn[c].state /\ k.rw = st.conn[c].rw /\ k.next = st.conn[c].next
    <3>1. NoJob \in [size: Nat, body: Text]
      BY DEF NoJob, Text
    <3> QED
      BY <1>1, <3>1 DEF ConnRec
  <2>5. j \in Text
    BY <1>1 DEF ConnRec
  <2> HIDE DEF k, owned, j
  <2>6. Sane(k)
    BY <2>4 DEF Good, Sane
  <2>7. Good(owned) /\ Kept(st, owned, c) /\ owned.conn[c] = k /\ owned.conn[c].state = st.conn[c].state
    BY <2>3, <2>4, <2>6, EditGood
  <2>8. CASE t = reply_msg(owned, c, "EXPECTED_CRLF") \/ t = reply_msg(owned, c, "BURIED")
    <3>1. PICK word \in {"EXPECTED_CRLF", "BURIED"} : t = reply_msg(owned, c, word)
      BY <2>8
    <3>2. word \in Words /\ t = reply_msg(owned, c, word)
      BY <3>1 DEF Words
    <3>3. Good(t) /\ Added(owned, t, c) /\ t.conn[c].state = "SEND_WORD"
          /\ SameInput(t.conn[c], owned.conn[c])
      BY <2>7, <3>2, MsgGood
    <3>4. Added(st, t, c)
      BY <2>7, <3>3, FirstKept
    <3>5. IoStep(st, t, c)
      BY <3>3, <3>4, IoAdded
    <3> QED
      BY <2>4, <2>7, <3>3, <3>5 DEF SameInput
  <2>9. ASSUME NEW u \in enqueue_job(owned, j), t = reply_msg(u, c, "INSERTED")
        PROVE  Good(t) /\ IoStep(st, t, c) /\ t.conn[c].cmd_len = st.conn[c].cmd_len
               /\ t.conn[c].cmd = st.conn[c].cmd
    <3>1. PICK word : word = "INSERTED"
      OBVIOUS
    <3>2. word \in Words /\ t = reply_msg(u, c, word)
      BY <2>9, <3>1 DEF Words
    <3>3. Good(u) /\ Given(owned, u)
      BY <2>5, <2>7, EnqueueOf
    <3>4. Good(t) /\ Added(u, t, c) /\ t.conn[c].state = "SEND_WORD"
          /\ SameInput(t.conn[c], u.conn[c])
      BY <3>2, <3>3, MsgGood
    <3>5. CASE u.conn = owned.conn /\ u.epollq = owned.epollq
      <4>1. Kept(owned, u, c)
        BY <2>7, <3>3, <3>5 DEF Kept, Rest, Good
      <4>2. Kept(st, u, c)
        BY <2>7, <4>1, FirstKept
      <4>3. Added(st, t, c)
        BY <3>4, <4>2, FirstKept
      <4>4. IoStep(st, t, c)
        BY <3>4, <4>3, IoAdded
      <4> QED
        BY <2>4, <2>7, <3>4, <3>5, <4>4 DEF SameInput
    <3>6. ASSUME NEW b \in Waiting(owned), Added(owned, u, b), u.conn[b].state = "SEND_JOB"
          PROVE  IoStep(st, t, c) /\ u.conn[c] = owned.conn[c]
      <4>1. b \in Waiting(st) \ {c}
        BY <2>7 DEF Waiting, Kept, Rest
      <4>2. owned \in Store /\ u \in Store
        BY <2>7, <3>3 DEF Good
      <4>3. u.conn[c] = owned.conn[c]
        BY <3>6, <4>1 DEF Added, Rest
      <4>4. IoStep(st, t, c)
        BY <2>7, <3>4, <3>6, <4>1, <4>2 DEF IoStep
      <4> QED
        BY <4>3, <4>4
    <3> QED
      BY <2>4, <2>7, <3>3, <3>4, <3>5, <3>6 DEF Given, SameInput
  <2> QED
    BY <2>2, <2>8, <2>9
<1> QED
  BY <1>2, <1>3

LEMMA read_data_Step ==
    ASSUME World, Good(s), NEW c \in Conns, read_data(c)
    PROVE  Io /\ Good(s') /\ IoStep(s, s', c)
<1> DEFINE nt == Noted(c)
<1>1. PICK n \in 1..Len(inp[c]) :
        /\ Reads(c, s.conn[c].in_job.size - s.conn[c].in_job_read, n)
        /\ s' \in maybe_enqueue_incoming_job(
                    [nt EXCEPT !.conn[c].in_job.body = @ \o Upto(inp[c], n),
                               !.conn[c].in_job_read = @ + n], c)
  BY DEF read_data
<1>2. s.conn[c].state = "WANT_DATA" /\ s \in Store
  BY DEF read_data, Good
<1>3. Good(nt) /\ Kept(s, nt, c) /\ nt.conn[c].state = s.conn[c].state
      /\ SameInput(nt.conn[c], s.conn[c])
  BY NotedOf
<1> HIDE DEF nt
<1>4. nt \in Store /\ nt.conn[c] \in ConnRec /\ nt.conn[c].in_job_read \in Nat
      /\ nt.conn[c].in_job \in [size: Nat, body: Seq(STRING)]
      /\ s.conn[c].in_job_read \in Nat /\ s.conn[c].in_job \in [size: Nat, body: Seq(STRING)]
  BY <1>2, <1>3, Fields DEF Good
<1>5. Io /\ n \in Nat /\ n > 0 /\ n <= nt.conn[c].in_job.size - nt.conn[c].in_job_read
      /\ Upto(inp[c], n) \in Text /\ Len(Upto(inp[c], n)) = n
  <2>1. s.conn[c].in_job.size - s.conn[c].in_job_read \in Int
    BY <1>4
  <2>2. Reads(c, s.conn[c].in_job.size - s.conn[c].in_job_read, n)
    BY <1>1
  <2>3. Io /\ n \in Nat /\ n > 0 /\ n <= s.conn[c].in_job.size - s.conn[c].in_job_read
        /\ Upto(inp[c], n) \in Text /\ Len(Upto(inp[c], n)) = n
    BY <2>1, <2>2, ReadsOf DEF Io
  <2> QED
    BY <1>3, <2>3 DEF SameInput
<1> DEFINE st == [nt EXCEPT !.conn[c].in_job.body = @ \o Upto(inp[c], n),
                            !.conn[c].in_job_read = @ + n]
           body == nt.conn[c].in_job.body \o Upto(inp[c], n)
           job == [nt.conn[c].in_job EXCEPT !.body = body]
           read == nt.conn[c].in_job_read + n
           k == [nt.conn[c] EXCEPT !.in_job = job, !.in_job_read = read]
<1>6. body \in Seq(STRING) /\ Len(body) = Len(nt.conn[c].in_job.body) + n
  <2>1. PICK x, y : x = nt.conn[c].in_job.body /\ y = Upto(inp[c], n)
    OBVIOUS
  <2>2. x \in Seq(STRING) /\ y \in Seq(STRING) /\ Len(y) = n
    BY <1>4, <1>5, <2>1 DEF Text
  <2>3. x \o y \in Seq(STRING) /\ Len(x \o y) = Len(x) + n
    BY <2>2
  <2> QED
    BY <2>1, <2>3
<1>7. job \in [size: Nat, body: Text] /\ job.body = body /\ job.size = nt.conn[c].in_job.size
  BY <1>4, <1>6 DEF Text
<1>8. read \in Nat /\ read <= job.size
  BY <1>4, <1>5, <1>7
<1>9. st = SetConn(nt, c, k)
  BY <1>4 DEF SetConn, Store, ConnRec
<1> HIDE DEF job, read
<1>10. k \in ConnRec /\ k.cmd = nt.conn[c].cmd /\ k.in_job = job /\ k.in_job_read = read
       /\ k.state = nt.conn[c].state /\ k.rw = nt.conn[c].rw /\ k.next = nt.conn[c].next
  BY <1>4, <1>7, <1>8 DEF ConnRec
<1> HIDE DEF k, st, body
<1>11. Sane(k)
  <2>1. Sane(nt.conn[c])
    BY <1>3 DEF Good
  <2>2. nt.conn[c].in_job # NoJob
    BY <1>4, <1>5 DEF NoJob
  <2>3. read = Len(job.body)
    BY <1>6, <1>7, <2>1, <2>2 DEF Sane, read
  <2> QED
    BY <1>2, <1>3, <1>8, <1>10, <2>1, <2>3 DEF Sane
<1>12. Good(st) /\ Kept(nt, st, c) /\ st.conn[c].state = nt.conn[c].state
  BY <1>3, <1>9, <1>10, <1>11, EditGood
<1>13. s' \in maybe_enqueue_incoming_job(st, c)
  BY <1>1 DEF st
<1>14. Good(s') /\ IoStep(st, s', c)
  BY <1>2, <1>3, <1>12, <1>13, MaybeOf
<1>15. Kept(s, st, c) /\ st.conn[c].state = s.conn[c].state
  BY <1>3, <1>12, FirstKept
<1>16. IoStep(s, s', c)
  BY <1>14, <1>15, IoFirst
<1> QED
  BY <1>5, <1>14, <1>16

LEMMA WantOf ==
    ASSUME NEW st, Good(st), NEW c \in Conns, NEW t, t = conn_want_command(st, c)
    PROVE  Good(t) /\ Added(st, t, c) /\ t.conn[c].state = "WANT_COMMAND"
<1> DEFINE u == epollq_add(st, c, "r")
           k == [u.conn[c] EXCEPT !.out_job = <<>>, !.reply_sent = 0, !.state = "WANT_COMMAND"]
<1>0. st \in Store
  BY DEF Good
<1>1. /\ Rest(st, u, c)
      /\ u.epollq = c /\ u.ready = st.ready
      /\ u.conn[c] = [st.conn[c] EXCEPT !.rw = "r", !.next = st.epollq]
  BY <1>0, AddOf
<1>2. u \in Store /\ u.conn[c] \in ConnRec /\ st.conn[c] \in ConnRec
  BY <1>0, <1>1, Fields DEF Rest
<1>3. u.conn[c].rw = "r" /\ u.conn[c].next = st.epollq /\ SameInput(u.conn[c], st.conn[c])
  BY <1>1, <1>2 DEF ConnRec, SameInput
<1>4. t = [u EXCEPT !.conn[c].out_job = <<>>, !.conn[c].reply_sent = 0,
                    !.conn[c].state = "WANT_COMMAND"]
  BY DEF conn_want_command
<1> HIDE DEF u
<1>5. t = SetConn(u, c, k)
  BY <1>2, <1>4 DEF SetConn, Store, ConnRec
<1>6. k \in ConnRec /\ k.cmd = u.conn[c].cmd /\ k.in_job = u.conn[c].in_job
      /\ k.in_job_read = u.conn[c].in_job_read
      /\ k.state = "WANT_COMMAND" /\ k.rw = u.conn[c].rw /\ k.next = u.conn[c].next
  <2>1. <<>> \in Text /\ "WANT_COMMAND" \in States
    BY DEF Text, States
  <2> QED
    BY <1>2, <2>1 DEF ConnRec
<1> HIDE DEF k
<1>7. Rest(u, t, c) /\ t.epollq = u.epollq /\ t.ready = u.ready /\ t.conn[c] = k
  BY <1>2, <1>5, <1>6, SetOf
<1>8. Rest(st, t, c)
  BY <1>1, <1>7 DEF Rest
<1>9. Sane(t.conn[c])
  BY <1>3, <1>6, <1>7 DEF Good, Sane, SameInput
<1>10. Good(t)
  BY <1>1, <1>6, <1>7, <1>8, <1>9, GoodStep
<1>11. Added(st, t, c)
  BY <1>1, <1>3, <1>6, <1>7, <1>8 DEF Added, Need
<1> QED
  BY <1>6, <1>7, <1>10, <1>11

\* The answer goes out, a part of it or the rest.
LEMMA SendOf ==
    ASSUME Good(s), s.epollq = Nil, NEW c \in Conns,
           s.conn[c].state \in {"SEND_WORD", "SEND_JOB"}, NEW k \in ConnRec,
           SameInput(k, Noted(c).conn[c]), k.state = Noted(c).conn[c].state,
           k.rw = Noted(c).conn[c].rw, k.next = Noted(c).conn[c].next,
           NEW st, st = SetConn(Noted(c), c, k),
           NEW t, t \in {st, conn_want_command(st, c)}
    PROVE  Good(t) /\ IoStep(s, t, c)
<1> DEFINE nt == Noted(c)
<1>1. Good(nt) /\ Kept(s, nt, c) /\ nt.conn[c].state = s.conn[c].state
  BY NotedOf
<1>2. k.state = nt.conn[c].state /\ SameInput(k, nt.conn[c]) /\ st = SetConn(nt, c, k)
      /\ k.rw = nt.conn[c].rw /\ k.next = nt.conn[c].next
  OBVIOUS
<1> HIDE DEF nt
<1>3. Sane(k)
  BY <1>1, <1>2 DEF Good, Sane, SameInput
<1>4. Good(st) /\ Kept(nt, st, c) /\ st.conn[c] = k
  BY <1>1, <1>2, <1>3, EditGood
<1>5. Kept(s, st, c) /\ st.conn[c].state = s.conn[c].state
  BY <1>1, <1>2, <1>4, FirstKept
<1>6. CASE t = st
  BY <1>4, <1>5, <1>6, IoKept
<1>7. CASE t = conn_want_command(st, c)
  <2>1. Good(t) /\ Added(st, t, c) /\ t.conn[c].state = "WANT_COMMAND"
    BY <1>4, <1>7, WantOf
  <2>2. Added(s, t, c)
    BY <1>5, <2>1, FirstKept
  <2> QED
    BY <2>1, <2>2 DEF IoStep
<1> QED
  BY <1>6, <1>7

LEMMA send_word_Step ==
    ASSUME World, Good(s), s.epollq = Nil, NEW c \in Conns, send_word(c)
    PROVE  Io /\ Good(s') /\ IoStep(s, s', c)
<1> DEFINE nt == Noted(c)
<1>1. PICK n \in 1..(Len(s.conn[c].reply) - s.conn[c].reply_sent) :
        LET st == [nt EXCEPT !.conn[c].reply_sent = @ + n] IN
        /\ Writes(c, Upto(From(s.conn[c].reply, s.conn[c].reply_sent + 1), n))
        /\ s' = IF s.conn[c].reply_sent + n = Len(s.conn[c].reply)
                THEN conn_want_command(st, c) ELSE st
  BY DEF send_word
<1>2. s.conn[c].state = "SEND_WORD"
  BY DEF send_word
<1>3. Io
  BY <1>1 DEF Writes, Io, World
<1>4. Good(nt)
  BY NotedOf
<1> HIDE DEF nt
<1>5. nt \in Store /\ nt.conn[c] \in ConnRec /\ nt.conn[c].reply_sent \in Nat
  BY <1>4, Fields DEF Good
<1> DEFINE st == [nt EXCEPT !.conn[c].reply_sent = @ + n]
           sent == nt.conn[c].reply_sent + n
           k == [nt.conn[c] EXCEPT !.reply_sent = sent]
<1>6. sent \in Nat
  BY <1>5
<1>7. st = SetConn(nt, c, k)
  BY <1>5 DEF SetConn, Store, ConnRec
<1>8. s' \in {st, conn_want_command(st, c)}
  BY <1>1
<1> HIDE DEF sent, st
<1>9. k \in ConnRec /\ SameInput(k, nt.conn[c]) /\ k.state = nt.conn[c].state
      /\ k.rw = nt.conn[c].rw /\ k.next = nt.conn[c].next
  BY <1>5, <1>6 DEF ConnRec, SameInput
<1> HIDE DEF k
<1>10. Good(s') /\ IoStep(s, s', c)
  BY <1>2, <1>7, <1>8, <1>9, SendOf DEF nt
<1> QED
  BY <1>3, <1>10

LEMMA RepliesLen ==
    ASSUME NEW r \in Replies
    PROVE  Len(r) \in Nat
<1>1. CASE r = <<>>
  BY <1>1
<1>2. CASE \E word \in Words : r = <<word, "N">>
  BY <1>2
<1> QED
  BY <1>1, <1>2 DEF Replies, Line

LEMMA ProgressOf ==
    ASSUME NEW k \in ConnRec, NEW n \in Nat, NEW m, m = Progress(k, n)
    PROVE  m \in ConnRec /\ SameInput(m, k) /\ m.state = k.state
           /\ m.rw = k.rw /\ m.next = k.next
<1>1. k.reply_sent \in Nat /\ k.out_job_sent \in Nat /\ k.reply \in Replies
  BY DEF ConnRec
<1>2. Len(k.reply) \in Nat
  BY <1>1, RepliesLen
<1>3. CASE k.reply_sent + n >= Len(k.reply)
  <2> DEFINE sent == k.out_job_sent + (k.reply_sent + n - Len(k.reply))
             len == Len(k.reply)
  <2>1. sent \in Nat /\ len \in Nat
    BY <1>1, <1>2, <1>3
  <2>2. m = [k EXCEPT !.out_job_sent = sent, !.reply_sent = len]
    BY <1>3 DEF Progress, ConnRec
  <2> HIDE DEF sent, len
  <2> QED
    BY <2>1, <2>2 DEF ConnRec, SameInput
<1>4. CASE ~(k.reply_sent + n >= Len(k.reply))
  <2> DEFINE sent == k.reply_sent + n
  <2>1. sent \in Nat
    BY <1>1
  <2>2. m = [k EXCEPT !.reply_sent = sent]
    BY <1>4 DEF Progress, ConnRec
  <2> HIDE DEF sent
  <2> QED
    BY <2>1, <2>2 DEF ConnRec, SameInput
<1> QED
  BY <1>3, <1>4

LEMMA send_job_Step ==
    ASSUME World, Good(s), s.epollq = Nil, NEW c \in Conns, send_job(c)
    PROVE  Io /\ Good(s') /\ IoStep(s, s', c)
<1> DEFINE nt == Noted(c)
           offered == From(s.conn[c].reply, s.conn[c].reply_sent + 1)
                        \o From(s.conn[c].out_job, s.conn[c].out_job_sent + 1)
<1>1. PICK n \in 1..Len(offered) :
        LET st == [nt EXCEPT !.conn[c] = Progress(@, n)] IN
        /\ Writes(c, Upto(offered, n))
        /\ s' = IF st.conn[c].out_job_sent = Len(s.conn[c].out_job)
                THEN conn_want_command(st, c) ELSE st
  BY DEF send_job
<1>2. s.conn[c].state = "SEND_JOB" /\ n \in Nat
  BY DEF send_job
<1>3. Io
  BY <1>1 DEF Writes, Io, World
<1>4. Good(nt)
  BY NotedOf
<1> HIDE DEF nt
<1>5. nt \in Store /\ nt.conn[c] \in ConnRec
  BY <1>4, Fields DEF Good
<1> DEFINE st == [nt EXCEPT !.conn[c] = Progress(@, n)]
           k == Progress(nt.conn[c], n)
<1>6. st = SetConn(nt, c, k)
  BY <1>5 DEF SetConn, Store
<1>7. s' \in {st, conn_want_command(st, c)}
  BY <1>1
<1> HIDE DEF st, offered
<1>8. k \in ConnRec /\ SameInput(k, nt.conn[c]) /\ k.state = nt.conn[c].state
      /\ k.rw = nt.conn[c].rw /\ k.next = nt.conn[c].next
  BY <1>2, <1>5, ProgressOf
<1> HIDE DEF k
<1>9. Good(s') /\ IoStep(s, s', c)
  BY <1>2, <1>6, <1>7, <1>8, SendOf DEF nt
<1> QED
  BY <1>3, <1>9

NoTimeout(st, c) == [st EXCEPT !.conn[c].timed = FALSE]

LEMMA NoTimeoutOf ==
    ASSUME NEW st, Good(st), NEW c \in Conns, NEW t, t = NoTimeout(st, c)
    PROVE  Good(t) /\ Kept(st, t, c) /\ t.conn[c].state = st.conn[c].state
<1> DEFINE k == [st.conn[c] EXCEPT !.timed = FALSE]
<1>1. st \in Store /\ st.conn[c] \in ConnRec
  BY Fields DEF Good
<1>2. t = SetConn(st, c, k)
  BY <1>1 DEF NoTimeout, SetConn, Store, ConnRec
<1>3. k \in ConnRec /\ k.state = st.conn[c].state /\ k.rw = st.conn[c].rw
      /\ k.next = st.conn[c].next /\ SameInput(k, st.conn[c])
  BY <1>1 DEF ConnRec, SameInput
<1> HIDE DEF k
<1>4. Sane(k)
  BY <1>3 DEF Good, Sane, SameInput
<1>5. Good(t) /\ Kept(st, t, c) /\ t.conn[c] = k
  BY <1>2, <1>3, <1>4, EditGood
<1> QED
  BY <1>3, <1>5

LEMMA wait_hangup_Step ==
    ASSUME World, Good(s), NEW c \in Conns, wait_hangup(c)
    PROVE  Io /\ Good(s') /\ IoStep(s, s', c)
<1> DEFINE nt == Noted(c)
           st == [nt EXCEPT !.conn[c].timed = FALSE]
<1>1. s' = reply_msg(st, c, "TIMED_OUT") /\ Io
  BY DEF wait_hangup, Io, World
<1>2. Good(nt) /\ Kept(s, nt, c)
  BY NotedOf
<1> HIDE DEF nt
<1>3. st = NoTimeout(nt, c)
  BY DEF NoTimeout
<1> HIDE DEF st
<1>4. Good(st) /\ Kept(nt, st, c)
  BY <1>2, <1>3, NoTimeoutOf
<1>5. PICK word : word = "TIMED_OUT"
  OBVIOUS
<1>6. word \in Words /\ s' = reply_msg(st, c, word)
  BY <1>1, <1>5 DEF Words
<1>7. Good(s') /\ Added(st, s', c) /\ s'.conn[c].state = "SEND_WORD"
  BY <1>4, <1>6, MsgGood
<1>8. Added(s, s', c)
  BY <1>2, <1>4, <1>7, FirstKept
<1> QED
  BY <1>1, <1>7, <1>8, IoAdded

CloseIt(st, c) == [st EXCEPT !.conn[c].state = "CLOSE"]

LEMMA CloseOf ==
    ASSUME NEW st, Good(st), NEW c \in Conns, NEW t, t = CloseIt(st, c)
    PROVE  Good(t) /\ Kept(st, t, c) /\ t.conn[c].state = "CLOSE"
           /\ SameInput(t.conn[c], st.conn[c])
<1> DEFINE k == [st.conn[c] EXCEPT !.state = "CLOSE"]
<1>1. st \in Store /\ st.conn[c] \in ConnRec /\ "CLOSE" \in States
  BY Fields DEF Good, States
<1>2. t = SetConn(st, c, k)
  BY <1>1 DEF CloseIt, SetConn, Store, ConnRec
<1>3. k \in ConnRec /\ k.state = "CLOSE" /\ k.rw = st.conn[c].rw
      /\ k.next = st.conn[c].next /\ SameInput(k, st.conn[c])
  BY <1>1 DEF ConnRec, SameInput
<1> HIDE DEF k
<1>4. Sane(k)
  BY <1>3 DEF Good, Sane, SameInput
<1>5. Good(t) /\ Kept(st, t, c) /\ t.conn[c] = k
  BY <1>2, <1>3, <1>4, EditGood
<1> QED
  BY <1>3, <1>5

LEMMA io_fails_Step ==
    ASSUME World, Good(s), NEW c \in Conns, io_fails(c)
    PROVE  Io /\ Good(s') /\ IoStep(s, s', c)
<1> DEFINE nt == Noted(c)
<1>1. s' = CloseIt(nt, c) /\ Io
  BY DEF io_fails, CloseIt, Io, World
<1>2. Good(nt) /\ Kept(s, nt, c)
  BY NotedOf
<1> HIDE DEF nt
<1>3. Good(s') /\ Kept(nt, s', c) /\ s'.conn[c].state = "CLOSE"
  BY <1>1, <1>2, CloseOf
<1>4. Kept(s, s', c)
  BY <1>2, <1>3, FirstKept
<1> QED
  BY <1>1, <1>3, <1>4, IoKept

LEMMA conn_process_io_Inv ==
    ASSUME IInv, NEW c \in Conns, conn_process_io(c)
    PROVE  IInv'
<1>1. World /\ Good(s)
  BY DEF IInv
<1>2. task.at = "socknext" /\ s.conn[c].state # "GONE" /\ task' = [at |-> "h_conn", conn |-> c]
  BY DEF conn_process_io, read_command, read_endline, read_bucket, read_data, send_word,
         send_job, wait_hangup, io_fails, Event, Open, GoOn
<1>3. s.conn[c].state # "CLOSE"
  BY <1>2 DEF IInv, Closing, Busy
<1>4. s.epollq = Nil
  <2>1. PICK M \in SUBSET Conns, cyc \in BOOLEAN :
            Links(s, want, M, cyc) /\ Phase(task, s, want, M, cyc)
    BY DEF IInv
  <2>2. M = {}
    BY <1>2, <2>1 DEF Phase
  <2> QED
    BY <2>1, <2>2, QueuePointers, ConnConstants DEF Links
<1>5. Io /\ Good(s') /\ IoStep(s, s', c)
  BY <1>1, <1>4, read_command_Step, read_endline_Step, read_bucket_Step, read_data_Step,
     send_word_Step, send_job_Step, wait_hangup_Step, io_fails_Step DEF conn_process_io
<1>6. World'
  BY <1>1, <1>2, <1>5, IoWorld DEF Io
<1> QED
  BY <1>2, <1>3, <1>5, <1>6, IoInv DEF Io

-----------------------------------------------------------------------------
(* Steps of dispatch_cmd                                                   *)

LEMMA ScannedOf ==
    ASSUME Good(s), NEW c \in Conns
    PROVE  /\ Good(Scanned(c)) /\ Kept(s, Scanned(c), c)
           /\ Scanned(c).conn[c].state = s.conn[c].state /\ Scanned(c).ready = s.ready
           /\ Scanned(c).conn[c].cmd_len <= Len(Scanned(c).conn[c].cmd)
           /\ Scanned(c).conn[c].cmd_len = scan_line_end(s.conn[c].cmd)
<1> DEFINE st == Scanned(c)
           len == scan_line_end(s.conn[c].cmd)
<1>1. s.conn[c].cmd \in Seq(STRING)
  BY Fields DEF Good
<1>2. len \in 0..Len(s.conn[c].cmd)
  BY <1>1, Scan
<1>3. st = ScanTo(s, c, len)
  BY DEF ScanTo, Scanned
<1> HIDE DEF st, len
<1>4. /\ Good(st) /\ Kept(s, st, c) /\ st.conn[c].state = s.conn[c].state /\ st.ready = s.ready
      /\ st.conn[c].cmd = s.conn[c].cmd /\ st.conn[c].cmd_len = len
  BY <1>2, <1>3, ScannedGood
<1>5. st.conn[c].cmd_len <= Len(st.conn[c].cmd)
  BY <1>2, <1>4
<1> QED
  BY <1>4, <1>5 DEF st, len

Bucket(st, c, n) == [st EXCEPT !.conn[c].in_job = NoJob, !.conn[c].in_job_read = n]

LEMMA BucketOf ==
    ASSUME NEW st, Good(st), NEW c \in Conns, NEW n \in Nat, NEW t, t = Bucket(st, c, n)
    PROVE  /\ Good(t) /\ Kept(st, t, c) /\ t.conn[c].state = st.conn[c].state
           /\ t.conn[c].in_job = NoJob
           /\ t.conn[c].cmd = st.conn[c].cmd /\ t.conn[c].cmd_len = st.conn[c].cmd_len
<1> DEFINE k == [st.conn[c] EXCEPT !.in_job = NoJob, !.in_job_read = n]
<1>1. st \in Store /\ st.conn[c] \in ConnRec /\ NoJob \in [size: Nat, body: Text]
  BY Fields DEF Good, NoJob, Text
<1>2. t = SetConn(st, c, k)
  BY <1>1 DEF Bucket, SetConn, Store, ConnRec
<1>3. k \in ConnRec /\ k.state = st.conn[c].state /\ k.rw = st.conn[c].rw
      /\ k.next = st.conn[c].next /\ k.cmd = st.conn[c].cmd
      /\ k.cmd_len = st.conn[c].cmd_len /\ k.in_job = NoJob
  BY <1>1 DEF ConnRec
<1> HIDE DEF k
<1>4. Sane(k)
  BY <1>3 DEF Good, Sane
<1>5. Good(t) /\ Kept(st, t, c) /\ t.conn[c] = k
  BY <1>2, <1>3, <1>4, EditGood
<1> QED
  BY <1>3, <1>5

ToBucket(st, c, line) ==
    [st EXCEPT !.conn[c].reply = line, !.conn[c].reply_sent = 0, !.conn[c].state = "BITBUCKET"]

LEMMA ToBucketOf ==
    ASSUME NEW st, Good(st), NEW c \in Conns, NEW line \in Replies, st.conn[c].in_job = NoJob,
           NEW t, t = ToBucket(st, c, line)
    PROVE  /\ Good(t) /\ Kept(st, t, c) /\ t.conn[c].state = "BITBUCKET"
           /\ t.conn[c].cmd = st.conn[c].cmd /\ t.conn[c].cmd_len = st.conn[c].cmd_len
<1> DEFINE k == [st.conn[c] EXCEPT !.reply = line, !.reply_sent = 0, !.state = "BITBUCKET"]
<1>1. st \in Store /\ st.conn[c] \in ConnRec /\ "BITBUCKET" \in States
  BY Fields DEF Good, States
<1>2. t = SetConn(st, c, k)
  BY <1>1 DEF ToBucket, SetConn, Store, ConnRec
<1>3. k \in ConnRec /\ k.state = "BITBUCKET" /\ k.rw = st.conn[c].rw
      /\ k.next = st.conn[c].next /\ SameInput(k, st.conn[c])
  BY <1>1 DEF ConnRec, SameInput
<1> HIDE DEF k
<1>4. Sane(k)
  BY <1>3 DEF Good, Sane, SameInput
<1>5. Good(t) /\ Kept(st, t, c) /\ t.conn[c] = k
  BY <1>2, <1>3, <1>4, EditGood
<1> QED
  BY <1>3, <1>5 DEF SameInput

\* A request is refused: its body goes to the bit bucket.
LEMMA SkipOf ==
    ASSUME NEW st, Good(st), NEW c \in Conns, st.conn[c].state = "WANT_COMMAND",
           st.conn[c].cmd_len <= Len(st.conn[c].cmd), NEW n \in Nat, NEW word \in Words,
           NEW t, t = FillExtra(skip(st, c, n, word), c)
    PROVE  Good(t) /\ IoStep(st, t, c)
<1>1. PICK u, f, v : u = Bucket(st, c, n) /\ f = FillExtra(u, c) /\ v = skip(st, c, n, word)
  OBVIOUS
<1>2. v = IF f.conn[c].in_job_read = 0 THEN reply_msg(f, c, word)
          ELSE ToBucket(f, c, Line(word))
  <2>1. skip(st, c, n, word) =
          LET filled == FillExtra(Bucket(st, c, n), c) IN
          IF filled.conn[c].in_job_read = 0 THEN reply_msg(filled, c, word)
          ELSE ToBucket(filled, c, Line(word))
    BY Zenon DEF skip, Bucket, ToBucket
  <2> QED
    BY <1>1, <2>1
<1>3. t = FillExtra(v, c)
  BY <1>1
<1>4. /\ Good(u) /\ Kept(st, u, c) /\ u.conn[c].state = st.conn[c].state
      /\ u.conn[c].in_job = NoJob
      /\ u.conn[c].cmd = st.conn[c].cmd /\ u.conn[c].cmd_len = st.conn[c].cmd_len
  BY <1>1, BucketOf
<1>5. Good(f) /\ Kept(u, f, c) /\ f.conn[c].state = u.conn[c].state
      /\ f.conn[c].cmd_len = 0 /\ f.conn[c].in_job = NoJob
  BY <1>1, <1>4, FillGood
<1>6. Kept(st, f, c)
  BY <1>4, <1>5, FirstKept
<1>7. Good(v) /\ IoStep(st, v, c) /\ v.conn[c].cmd_len = 0
  <2>1. CASE v = reply_msg(f, c, word)
    <3>1. Good(v) /\ Added(f, v, c) /\ v.conn[c].state = "SEND_WORD"
          /\ SameInput(v.conn[c], f.conn[c])
      BY <1>5, <2>1, MsgGood
    <3>2. Added(st, v, c)
      BY <1>6, <3>1, FirstKept
    <3>3. IoStep(st, v, c)
      BY <3>1, <3>2, IoAdded
    <3> QED
      BY <1>5, <3>1, <3>3 DEF SameInput
  <2>2. CASE v = ToBucket(f, c, Line(word))
    <3>1. PICK line : line = Line(word)
      OBVIOUS
    <3>2. line \in Replies /\ v = ToBucket(f, c, line)
      BY <2>2, <3>1 DEF Replies
    <3>3. /\ Good(v) /\ Kept(f, v, c) /\ v.conn[c].state = "BITBUCKET"
          /\ v.conn[c].cmd_len = f.conn[c].cmd_len
      BY <1>5, <3>2, ToBucketOf
    <3>4. Kept(st, v, c)
      BY <1>6, <3>3, FirstKept
    <3>5. v.conn[c].state # "GONE" /\ Need(v.conn[c].state) = Need(st.conn[c].state)
      BY <3>3 DEF Need
    <3>6. IoStep(st, v, c)
      BY <3>4, <3>5, IoKept
    <3> QED
      BY <1>5, <3>3, <3>6
  <2> QED
    BY <1>2, <2>1, <2>2
<1>8. v.conn[c].cmd_len <= Len(v.conn[c].cmd)
  <2>1. v \in Store
    BY <1>7 DEF Good
  <2>2. Len(v.conn[c].cmd) \in Nat
    BY <2>1, Fields
  <2> QED
    BY <1>7, <2>2
<1>9. Good(t) /\ Kept(v, t, c) /\ t.conn[c].state = v.conn[c].state
  BY <1>3, <1>7, <1>8, FillGood
<1>10. IoStep(st, t, c)
  BY <1>7, <1>9, IoThen
<1> QED
  BY <1>9, <1>10

WithJob(st, c, size) == [st EXCEPT !.conn[c].in_job = [size |-> size, body |-> <<>>]]

\* A job is made and takes what is there of its body.
LEMMA PutOf ==
    ASSUME NEW st, Good(st), NEW c \in Conns, st.conn[c].state = "WANT_COMMAND",
           st.conn[c].cmd_len <= Len(st.conn[c].cmd), st.conn[c].cmd_len > 0,
           NEW size \in Nat, NEW u,
           u \in maybe_enqueue_incoming_job(FillExtra(WithJob(st, c, size), c), c),
           NEW t, t = FillExtra(u, c)
    PROVE  Good(t) /\ IoStep(st, t, c)
<1> DEFINE job == [size |-> size, body |-> <<>>]
           k == [st.conn[c] EXCEPT !.in_job = job]
<1>1. PICK m, f : m = WithJob(st, c, size) /\ f = FillExtra(m, c)
  OBVIOUS
<1>2. st \in Store /\ st.conn[c] \in ConnRec /\ job \in [size: Nat, body: Text]
  <2>1. <<>> \in Text
    BY DEF Text
  <2> QED
    BY <2>1, Fields DEF Good
<1>3. m = SetConn(st, c, k)
  BY <1>1, <1>2 DEF WithJob, SetConn, Store, ConnRec
<1> HIDE DEF job
<1>4. k \in ConnRec /\ k.state = st.conn[c].state /\ k.rw = st.conn[c].rw
      /\ k.next = st.conn[c].next /\ k.cmd = st.conn[c].cmd
      /\ k.cmd_len = st.conn[c].cmd_len
  BY <1>2 DEF ConnRec
<1> HIDE DEF k
<1>5. Rest(st, m, c) /\ m.epollq = st.epollq /\ m.ready = st.ready /\ m.conn[c] = k
  BY <1>2, <1>3, <1>4, SetOf
<1>6. Kept(st, m, c) /\ m \in Store
  BY <1>4, <1>5 DEF Kept, Rest
<1>7. /\ m.conn[c].cmd_len <= Len(m.conn[c].cmd) /\ Len(m.conn[c].cmd) <= LINE_BUF_SIZE
      /\ m.conn[c].state = "WANT_COMMAND" /\ m.conn[c].cmd_len # 0
  <2>1. st.conn[c].cmd_len \in Nat
    BY <1>2 DEF ConnRec
  <2> QED
    BY <1>4, <1>5, <2>1 DEF Good, Sane
<1>8. /\ Kept(m, f, c) /\ f.ready = m.ready /\ Sane(f.conn[c]) /\ f.conn[c].cmd_len = 0
      /\ f.conn[c].state = m.conn[c].state
  BY <1>1, <1>6, <1>7, FillOf
<1>9. Kept(st, f, c) /\ f.conn[c].state = st.conn[c].state
  BY <1>6, <1>7, <1>8, FirstKept
<1>10. Good(f)
  <2>1. Rest(st, f, c) /\ f.ready \subseteq st.ready
    BY <1>5, <1>8, <1>9 DEF Kept
  <2> QED
    BY <1>8, <1>9, <2>1, GoodStep
<1>11. u \in maybe_enqueue_incoming_job(f, c)
  BY <1>1
<1>12. Good(u) /\ IoStep(f, u, c) /\ u.conn[c].cmd_len = 0
  BY <1>8, <1>9, <1>10, <1>11, MaybeOf
<1>13. u.conn[c].cmd_len <= Len(u.conn[c].cmd)
  <2>1. u \in Store
    BY <1>12 DEF Good
  <2>2. Len(u.conn[c].cmd) \in Nat
    BY <2>1, Fields
  <2> QED
    BY <1>12, <2>2
<1>14. Good(t) /\ Kept(u, t, c) /\ t.conn[c].state = u.conn[c].state
  BY <1>12, <1>13, FillGood
<1>15. IoStep(f, t, c)
  BY <1>12, <1>14, IoThen
<1>16. IoStep(st, t, c)
  BY <1>9, <1>15, IoFirst
<1> QED
  BY <1>14, <1>16

LEMMA dispatch_put_Step ==
    ASSUME Good(s), NEW c \in Conns, dispatch_put(c)
    PROVE  Good(s') /\ IoStep(s, s', c)
<1> DEFINE st == Scanned(c)
           size == PutSize[Command(c)] + 2
<1>1. \/ s' = FillExtra(skip(st, c, size, "JOB_TOO_BIG"), c)
      \/ s' = FillExtra(skip(st, c, size, "OUT_OF_MEMORY"), c)
      \/ \E u \in maybe_enqueue_incoming_job(FillExtra(WithJob(st, c, size), c), c) :
            s' = FillExtra(u, c)
  BY DEF dispatch_put, WithJob
<1>2. s.conn[c].state = "WANT_COMMAND" /\ scan_line_end(s.conn[c].cmd) > 0
  BY DEF dispatch_put, CmdReady
<1>3. size \in Nat
  BY ConnConstants DEF dispatch_put
<1>4. /\ Good(st) /\ Kept(s, st, c) /\ st.conn[c].state = s.conn[c].state
      /\ st.conn[c].cmd_len <= Len(st.conn[c].cmd)
      /\ st.conn[c].cmd_len = scan_line_end(s.conn[c].cmd)
  BY ScannedOf
<1> HIDE DEF st, size
<1>5. ASSUME NEW word \in Words, s' = FillExtra(skip(st, c, size, word), c)
      PROVE  Good(s') /\ IoStep(st, s', c)
  BY <1>2, <1>3, <1>4, <1>5, SkipOf
<1>6. ASSUME NEW u \in maybe_enqueue_incoming_job(FillExtra(WithJob(st, c, size), c), c),
             s' = FillExtra(u, c)
      PROVE  Good(s') /\ IoStep(st, s', c)
  BY <1>2, <1>3, <1>4, <1>6, PutOf
<1>7. PICK w1, w2 \in Words : w1 = "JOB_TOO_BIG" /\ w2 = "OUT_OF_MEMORY"
  BY DEF Words
<1>8. Good(s') /\ IoStep(st, s', c)
  BY <1>1, <1>5, <1>6, <1>7
<1>9. IoStep(s, s', c)
  BY <1>4, <1>8, IoFirst
<1> QED
  BY <1>8, <1>9

WaitFor(st, c, timed) ==
    epollq_add([st EXCEPT !.conn[c].state = "WAIT", !.conn[c].timed = timed], c, "h")

LEMMA WaitForOf ==
    ASSUME NEW st \in Store, NEW c \in Conns, NEW timed \in BOOLEAN,
           NEW t, t = WaitFor(st, c, timed)
    PROVE  Added(st, t, c) /\ t.ready = st.ready /\ t.conn[c].state = "WAIT"
           /\ SameInput(t.conn[c], st.conn[c])
<1> DEFINE u == [st EXCEPT !.conn[c].state = "WAIT", !.conn[c].timed = timed]
           k == [st.conn[c] EXCEPT !.state = "WAIT", !.timed = timed]
<1>1. st.conn[c] \in ConnRec /\ "WAIT" \in States
  BY Fields DEF States
<1>2. u = SetConn(st, c, k)
  BY <1>1 DEF SetConn, Store, ConnRec
<1>3. k \in ConnRec /\ k.state = "WAIT" /\ k.next = st.conn[c].next /\ SameInput(k, st.conn[c])
  BY <1>1 DEF ConnRec, SameInput
<1>4. t = epollq_add(u, c, "h")
  BY DEF WaitFor
<1> HIDE DEF u, k
<1>5. Rest(st, u, c) /\ u.epollq = st.epollq /\ u.ready = st.ready /\ u.conn[c] = k
  BY <1>2, <1>3, SetOf
<1>6. u \in Store
  BY <1>5 DEF Rest
<1>7. PICK z : z = epollq_add(u, c, "h")
  OBVIOUS
<1>8. /\ Rest(u, z, c) /\ z.epollq = c /\ z.ready = u.ready
      /\ z.conn[c] = [u.conn[c] EXCEPT !.rw = "h", !.next = u.epollq]
  BY <1>6, <1>7, AddOf
<1>9. /\ Rest(u, t, c) /\ t.epollq = c /\ t.ready = u.ready
      /\ t.conn[c] = [u.conn[c] EXCEPT !.rw = "h", !.next = u.epollq]
  BY <1>4, <1>7, <1>8
<1>10. /\ t.conn[c].rw = "h" /\ t.conn[c].next = u.epollq /\ t.conn[c].state = "WAIT"
       /\ SameInput(t.conn[c], k)
  BY <1>3, <1>5, <1>9 DEF ConnRec, SameInput
<1>11. Rest(st, t, c)
  BY <1>5, <1>9 DEF Rest
<1>12. t.conn[c].rw = Need(t.conn[c].state)
  BY <1>10 DEF Need
<1> QED
  BY <1>3, <1>5, <1>9, <1>10, <1>11, <1>12 DEF Added, SameInput

\* The connection waits, or gets a job at once: then nobody else waited.
LEMMA ReserveOf ==
    ASSUME NEW st, Good(st), NEW c \in Conns, st.conn[c].state = "WANT_COMMAND",
           st.conn[c].cmd_len <= Len(st.conn[c].cmd), NEW timed \in BOOLEAN,
           NEW u, u \in process_queue(WaitFor(st, c, timed)), NEW t, t = FillExtra(u, c)
    PROVE  Good(t) /\ IoStep(st, t, c)
<1>1. PICK v : v = WaitFor(st, c, timed)
  OBVIOUS
<1>2. st \in Store
  BY DEF Good
<1>3. Added(st, v, c) /\ v.ready = st.ready /\ v.conn[c].state = "WAIT"
      /\ SameInput(v.conn[c], st.conn[c])
  BY <1>1, <1>2, WaitForOf
<1>4. v \in Store /\ u \in process_queue(v)
  BY <1>1, <1>3 DEF Added, Rest
<1>5. Sane(v.conn[c])
  BY <1>3 DEF Good, Sane, SameInput
<1>6. Good(u) /\ IoStep(st, u, c) /\ SameInput(u.conn[c], st.conn[c])
  <2>1. CASE u = v /\ Matched(v)
    <3>1. Good(v)
      BY <1>3, <1>4, <1>5, <2>1 DEF Good, Added, Rest
    <3>2. IoStep(st, v, c)
      BY <1>3, IoAdded
    <3> QED
      BY <1>3, <2>1, <3>1, <3>2
  <2>2. ASSUME NEW b \in Waiting(v), NEW j \in v.ready, Added(v, u, b),
               u.conn[b].state = "SEND_JOB", SameInput(u.conn[b], v.conn[b]),
               u.ready = v.ready \ {j}
        PROVE  Good(u) /\ IoStep(st, u, c) /\ SameInput(u.conn[c], st.conn[c])
    <3>1. Waiting(st) = {}
      BY <1>3 DEF Good, Matched
    <3>2. b = c
      BY <1>3, <3>1 DEF Waiting, Added, Rest
    <3>3. SameInput(u.conn[c], st.conn[c]) /\ Added(v, u, c) /\ u.conn[c].state = "SEND_JOB"
      BY <1>3, <2>2, <3>2 DEF SameInput
    <3>4. Sane(u.conn[c])
      BY <3>3 DEF Good, Sane, SameInput
    <3>5. Rest(st, u, c)
      BY <1>3, <3>3 DEF Added, Rest
    <3>6. Good(u)
      BY <1>3, <2>2, <3>3, <3>4, <3>5, GoodStep
    <3>7. Kept(st, st, c)
      BY <1>2 DEF Kept, Rest
    <3>8. IoStep(st, u, c)
      BY <1>2, <1>3, <1>4, <3>3, <3>7 DEF IoStep
    <3> QED
      BY <3>3, <3>6, <3>8
  <2> QED
    BY <1>4, <2>1, <2>2, ProcessOf
<1>7. u.conn[c].cmd_len <= Len(u.conn[c].cmd)
  BY <1>6 DEF SameInput
<1>8. Good(t) /\ Kept(u, t, c) /\ t.conn[c].state = u.conn[c].state
  BY <1>6, <1>7, FillGood
<1>9. IoStep(st, t, c)
  BY <1>6, <1>8, IoThen
<1> QED
  BY <1>8, <1>9

LEMMA dispatch_reserve_Step ==
    ASSUME Good(s), NEW c \in Conns, dispatch_reserve(c)
    PROVE  Good(s') /\ IoStep(s, s', c)
<1> DEFINE st == Scanned(c)
<1>1. PICK timed \in BOOLEAN : timed = (Command(c) = "reserve-with-timeout")
  OBVIOUS
<1>2. \/ s' = FillExtra(reply_msg(st, c, "DEADLINE_SOON"), c)
      \/ \E u \in process_queue(WaitFor(st, c, timed)) : s' = FillExtra(u, c)
  BY <1>1 DEF dispatch_reserve, WaitFor
<1>3. s.conn[c].state = "WANT_COMMAND"
  BY DEF dispatch_reserve, CmdReady
<1>4. /\ Good(st) /\ Kept(s, st, c) /\ st.conn[c].state = s.conn[c].state
      /\ st.conn[c].cmd_len <= Len(st.conn[c].cmd)
  BY ScannedOf
<1> HIDE DEF st
<1>5. ASSUME NEW word \in Words, s' = FillExtra(reply_msg(st, c, word), c)
      PROVE  Good(s') /\ IoStep(st, s', c)
  <2>1. Good(s') /\ Added(st, s', c) /\ s'.conn[c].state = "SEND_WORD"
    BY <1>4, <1>5, MsgFill
  <2> QED
    BY <2>1, IoAdded
<1>6. ASSUME NEW u \in process_queue(WaitFor(st, c, timed)), s' = FillExtra(u, c)
      PROVE  Good(s') /\ IoStep(st, s', c)
  BY <1>3, <1>4, <1>6, ReserveOf
<1>7. PICK word \in Words : word = "DEADLINE_SOON"
  BY DEF Words
<1>8. Good(s') /\ IoStep(st, s', c)
  BY <1>2, <1>5, <1>6, <1>7
<1> QED
  BY <1>4, <1>8, IoFirst

LEMMA dispatch_quit_Step ==
    ASSUME Good(s), NEW c \in Conns, dispatch_quit(c)
    PROVE  Good(s') /\ IoStep(s, s', c)
<1> DEFINE st == Scanned(c)
           u == CloseIt(st, c)
<1>1. s' = FillExtra(u, c)
  BY DEF dispatch_quit, CloseIt
<1>2. /\ Good(st) /\ Kept(s, st, c) /\ st.conn[c].state = s.conn[c].state
      /\ st.conn[c].cmd_len <= Len(st.conn[c].cmd)
  BY ScannedOf
<1> HIDE DEF st
<1>3. Good(u) /\ Kept(st, u, c) /\ u.conn[c].state = "CLOSE" /\ SameInput(u.conn[c], st.conn[c])
  BY <1>2, CloseOf
<1> HIDE DEF u
<1>4. u.conn[c].cmd_len <= Len(u.conn[c].cmd)
  BY <1>2, <1>3 DEF SameInput
<1>5. Good(s') /\ Kept(u, s', c) /\ s'.conn[c].state = u.conn[c].state
  BY <1>1, <1>3, <1>4, FillGood
<1>6. Kept(s, s', c)
  BY <1>2, <1>3, <1>5, FirstKept
<1> QED
  BY <1>3, <1>5, <1>6, IoKept

LEMMA dispatch_other_Step ==
    ASSUME Good(s), NEW c \in Conns, dispatch_other(c)
    PROVE  Good(s') /\ IoStep(s, s', c)
<1> DEFINE st == Scanned(c)
<1>1. PICK word \in Words : word = "UNKNOWN_COMMAND"
  BY DEF Words
<1>2. s' = FillExtra(reply_msg(st, c, word), c)
  BY <1>1 DEF dispatch_other
<1>3. /\ Good(st) /\ Kept(s, st, c) /\ st.conn[c].cmd_len <= Len(st.conn[c].cmd)
  BY ScannedOf
<1> HIDE DEF st
<1>4. Good(s') /\ Added(st, s', c) /\ s'.conn[c].state = "SEND_WORD"
  BY <1>2, <1>3, MsgFill
<1>5. Added(s, s', c)
  BY <1>3, <1>4, FirstKept
<1> QED
  BY <1>4, <1>5, IoAdded

LEMMA dispatch_cmd_Inv ==
    ASSUME IInv, NEW c \in Conns, dispatch_cmd(c)
    PROVE  IInv'
<1>1. World /\ Good(s)
  BY DEF IInv
<1>2. CmdReady(c) /\ Unread
  BY DEF dispatch_cmd, dispatch_put, dispatch_reserve, dispatch_quit, dispatch_other
<1>3. Good(s') /\ IoStep(s, s', c)
  BY <1>1, dispatch_put_Step, dispatch_reserve_Step, dispatch_quit_Step, dispatch_other_Step
     DEF dispatch_cmd
<1>4. World' /\ want' = want /\ task' = [at |-> "h_conn", conn |-> c]
  BY <1>1, <1>2 DEF CmdReady, Unread, World
<1>5. task = [at |-> "h_conn", conn |-> c] /\ s.conn[c].state = "WANT_COMMAND"
  BY <1>2 DEF CmdReady
<1> QED
  BY <1>3, <1>4, <1>5, IoInv

-----------------------------------------------------------------------------
(* The other steps of the thread                                           *)

LEMMA h_conn_end_Inv ==
    ASSUME IInv, NEW c \in Conns, h_conn_end(c)
    PROVE  IInv'
<1>1. /\ task.at = "h_conn" /\ task.conn = c
      /\ s' = s /\ want' = want /\ inp' = inp /\ cli' = cli
      /\ \/ s.conn[c].state = "CLOSE" /\ task' = [at |-> "epollq_rmconn", conn |-> c]
         \/ s.conn[c].state # "CLOSE" /\ task' = [at |-> "epollq_apply", conn |-> Nil]
  BY DEF h_conn_end
<1>2. PICK M \in SUBSET Conns, cyc \in BOOLEAN : Links(s, want, M, cyc) /\ Phase(task, s, want, M, cyc)
  BY DEF IInv
<1>3. World'
  BY <1>1 DEF IInv, World, Ats, Busy
<1>4. Closing(task', s')
  BY <1>1 DEF IInv, Closing, Busy
<1>5. Phase(task', s', want', M, cyc)
  BY <1>1, <1>2 DEF Phase
<1>6. Good(s') /\ Links(s', want', M, cyc)
  BY <1>1, <1>2 DEF IInv
<1> QED
  BY <1>3, <1>4, <1>5, <1>6 DEF IInv

\* The first connection of the list is taken off.
Pop(st, x) == [st EXCEPT !.epollq = st.conn[x].next, !.conn[x].next = Nil]

LEMMA PopOf ==
    ASSUME NEW st, Good(st), NEW x \in Conns, NEW t, t = Pop(st, x)
    PROVE  /\ Good(t) /\ Rest(st, t, x) /\ t.epollq = st.conn[x].next
           /\ t.conn[x].next = Nil /\ t.conn[x].state = st.conn[x].state
           /\ t.conn[x].rw = st.conn[x].rw
<1> DEFINE k == [st.conn[x] EXCEPT !.next = Nil]
<1>1. st \in Store /\ st.conn[x] \in ConnRec
  BY Fields DEF Good
<1>2. st.conn[x].next \in Conns \cup {Nil}
  BY <1>1 DEF ConnRec
<1> DEFINE e == st.conn[x].next
<1>3. t = [st EXCEPT !.epollq = e, !.conn = [st.conn EXCEPT ![x] = k]]
  BY <1>1 DEF Pop, Store, ConnRec
<1>4. k \in ConnRec /\ k.next = Nil /\ k.state = st.conn[x].state /\ k.rw = st.conn[x].rw
      /\ SameInput(k, st.conn[x])
  BY <1>1 DEF ConnRec, SameInput
<1> HIDE DEF k
<1>5. t \in Store /\ t.epollq = st.conn[x].next /\ t.ready = st.ready
      /\ t.newhead = st.newhead /\ t.conn = [st.conn EXCEPT ![x] = k]
  <2>1. e \in Conns \cup {Nil}
    BY <1>2
  <2> HIDE DEF e
  <2>2. t \in Store /\ t.epollq = e /\ t.ready = st.ready
        /\ t.newhead = st.newhead /\ t.conn = [st.conn EXCEPT ![x] = k]
    <3> DEFINE f == [st.conn EXCEPT ![x] = k]
    <3>1. f \in [Conns -> ConnRec] /\ t = [st EXCEPT !.epollq = e, !.conn = f]
      BY <1>1, <1>3, <1>4 DEF Store
    <3> HIDE DEF f
    <3>2. t \in Store /\ t.epollq = e /\ t.ready = st.ready
          /\ t.newhead = st.newhead /\ t.conn = f
      BY <1>1, <2>1, <3>1 DEF Store
    <3> QED
      BY <3>2 DEF f
  <2> QED
    BY <2>2 DEF e
<1>6. t.conn[x] = k /\ \A d \in Conns \ {x} : t.conn[d] = st.conn[d]
  BY <1>1, <1>5 DEF Store
<1>7. Rest(st, t, x)
  BY <1>5, <1>6 DEF Rest
<1>8. Sane(t.conn[x])
  BY <1>4, <1>6 DEF Good, Sane, SameInput
<1>9. Good(t)
  BY <1>4, <1>5, <1>6, <1>7, <1>8, GoodStep
<1> QED
  BY <1>4, <1>5, <1>6, <1>7, <1>9

\* A cycle at the end of the list leaves its last connection in it.
Left(M, cyc, x) == IF cyc THEN M ELSE M \ {x}

\* The kernel is told the interest of x, unless x is being closed.
Told(st, w, v, x) ==
    /\ \A d \in Conns \ {x} : v[d] = w[d]
    /\ st.conn[x].state # "GONE"
    /\ st.conn[x].state = "CLOSE" \/ v[x] = st.conn[x].rw

LEMMA LinksPop ==
    ASSUME NEW st, Good(st), NEW w, NEW v, NEW M, NEW cyc \in BOOLEAN, Links(st, w, M, cyc),
           NEW x \in Conns, x = st.epollq, NEW t, t = Pop(st, x),
           Told(st, w, v, x)
    PROVE  Links(t, v, Left(M, cyc, x), FALSE)
<1> DEFINE N == Left(M, cyc, x)
<1>1. /\ Rest(st, t, x) /\ t.epollq = st.conn[x].next
      /\ t.conn[x].next = Nil /\ t.conn[x].state = st.conn[x].state
      /\ t.conn[x].rw = st.conn[x].rw
  BY PopOf
<1>2. Queued(Nx(st), x, M, cyc) /\ x # Nil /\ x \in M
  BY QueuePointers, ConnConstants DEF Links
<1>3. Queued([Nx(st) EXCEPT ![x] = Nil], Nx(st)[x], N, FALSE)
  BY <1>2, QueuePop, ConnConstants DEF Left
<1>4. Nx(t) = [Nx(st) EXCEPT ![x] = Nil] /\ t.epollq = Nx(st)[x]
  BY <1>1 DEF Nx, Rest
<1>5. Queued(Nx(t), t.epollq, N, FALSE)
  BY <1>3, <1>4
<1>6. ASSUME NEW d \in Conns PROVE Heard(t.conn[d], d \in N, v[d])
  <2>1. Heard(st.conn[d], d \in M, w[d])
    BY DEF Links
  <2>2. CASE d = x
    BY <1>1, <1>2, <2>1, <2>2 DEF Heard, Told, Left
  <2>3. CASE d # x
    <3>1. (d \in N) = (d \in M) /\ t.conn[d] = st.conn[d] /\ v[d] = w[d]
      BY <1>1, <2>3 DEF Rest, Told, Left
    <3> QED
      BY <2>1, <3>1
  <2> QED
    BY <2>2, <2>3
<1> QED
  BY <1>5, <1>6 DEF Links

\* epollq_rmconn finds at most the connection that is closed.
LEMMA epollq_rmconn_Inv ==
    ASSUME IInv, NEW c \in Conns, epollq_rmconn(c)
    PROVE  IInv'
<1>1. task.at = "epollq_rmconn" /\ task.conn = c /\ want' = want /\ inp' = inp /\ cli' = cli
  BY DEF epollq_rmconn
<1>2. PICK M \in SUBSET Conns, cyc \in BOOLEAN : Links(s, want, M, cyc) /\ Phase(task, s, want, M, cyc)
  BY DEF IInv
<1>3. M \subseteq {c} /\ cyc = FALSE
  BY <1>1, <1>2 DEF Phase, AtMost
<1>4. Good(s) /\ s \in Store /\ s.newhead = Nil /\ s.conn[c].state = "CLOSE" /\ World
      /\ Closing(task, s)
  BY <1>1 DEF IInv, Good, Closing
<1>5. CASE c = s.epollq
  <2>1. s' = [s EXCEPT !.epollq = s.conn[c].next, !.conn[c].next = Nil,
                       !.newhead = s.newhead] /\ task' = task
    BY <1>5, ConnConstants DEF epollq_rmconn
  <2>2. s' = Pop(s, c)
    BY <1>4, <2>1 DEF Pop, Store
  <2>3. Good(s') /\ Rest(s, s', c) /\ s'.conn[c].state = s.conn[c].state
    BY <1>4, <2>2, PopOf
  <2>4. Told(s, want, want, c)
    BY <1>4 DEF Told
  <2>5. Links(s', want, Left(M, cyc, c), FALSE)
    BY <1>2, <1>4, <1>5, <2>2, <2>4, LinksPop
  <2>6. M \ {c} = {} /\ Left(M, cyc, c) = M \ {c}
    BY <1>3 DEF Left
  <2>7. Links(s', want', {}, FALSE)
    BY <1>1, <2>5, <2>6
  <2>8. Phase(task', s', want', {}, FALSE)
    BY <1>1, <2>1 DEF Phase, AtMost
  <2>9. Closing(task', s')
    BY <1>1, <1>4, <2>1, <2>3 DEF Closing, Rest
  <2>10. World'
    BY <1>1, <1>4, <2>1 DEF World
  <2> QED
    BY <2>3, <2>7, <2>8, <2>9, <2>10 DEF IInv
<1>6. CASE s.epollq = Nil
  <2>1. s' = [s EXCEPT !.epollq = s.newhead, !.newhead = Nil]
        /\ task' = [at |-> "connclose", conn |-> c]
    BY <1>6, ConnConstants DEF epollq_rmconn
  <2>2. s' = s
    BY <1>4, <1>6, <2>1 DEF Store
  <2>3. M = {}
    BY <1>2, <1>6, QueuePointers, ConnConstants DEF Links
  <2>4. Phase(task', s', want', M, FALSE)
    <3>1. s'.conn[c].next = Nil
      BY <1>2, <2>2, <2>3 DEF Links, Queued, Nx
    <3> QED
      BY <2>1, <2>3, <3>1 DEF Phase, NoneWaits
  <2>5. Links(s', want', M, FALSE) /\ Good(s')
    BY <1>1, <1>2, <1>3, <1>4, <2>2
  <2>6. Closing(task', s')
    BY <1>1, <1>4, <2>1, <2>2 DEF Closing, Busy
  <2>7. World'
    BY <1>1, <1>4, <2>1 DEF World, Ats, Busy
  <2> QED
    BY <2>4, <2>5, <2>6, <2>7 DEF IInv
<1>7. s.epollq \in M \cup {Nil}
  BY <1>2, QueuePointers, ConnConstants DEF Links
<1> QED
  BY <1>3, <1>5, <1>6, <1>7

\* Only those who waited are told of a job; the others keep their places.
Unheld(st, t) ==
    /\ \A d \in Conns :
        \/ t.conn[d].state = st.conn[d].state
        \/ st.conn[d].state = "WAIT" /\ t.conn[d].state = "SEND_JOB"
    /\ \A d \in Conns : st.conn[d].state # "WAIT" => t.conn[d].next = st.conn[d].next

\* A job that is given to one that waited adds only that one to the list.
LEMMA GivenLinks ==
    ASSUME NEW st, Good(st), NEW t, Good(t), NEW w, NEW M \in SUBSET Conns,
           Links(st, w, M, FALSE), NoneWaits(st, M), Given(st, t)
    PROVE  /\ \E N \in SUBSET Conns :
                /\ Links(t, w, N, FALSE) /\ NoneWaits(t, N)
                /\ \A d \in N \ M : st.conn[d].state = "WAIT"
           /\ Unheld(st, t)
<1>1. CASE t.conn = st.conn /\ t.epollq = st.epollq
  <2>1. Links(t, w, M, FALSE)
    BY <1>1 DEF Links, Nx
  <2>2. NoneWaits(t, M) /\ Unheld(st, t)
    BY <1>1 DEF NoneWaits, Unheld
  <2> QED
    BY <1>1, <2>1, <2>2
<1>2. ASSUME NEW b \in Waiting(st), Added(st, t, b), t.conn[b].state = "SEND_JOB"
      PROVE  /\ \E N \in SUBSET Conns :
                  /\ Links(t, w, N, FALSE) /\ NoneWaits(t, N)
                  /\ \A d \in N \ M : st.conn[d].state = "WAIT"
             /\ Unheld(st, t)
  <2>1. b \in Conns /\ b \notin M /\ st \in Store /\ st.conn[b].state = "WAIT"
    BY DEF Waiting, NoneWaits, Good
  <2>2. Links(t, w, M \cup {b}, FALSE)
    BY <1>2, <2>1, LinksNew
  <2>3. NoneWaits(t, M \cup {b})
    BY <1>2, <2>1 DEF NoneWaits, Added, Rest
  <2>4. M \cup {b} \in SUBSET Conns /\ \A d \in (M \cup {b}) \ M : st.conn[d].state = "WAIT"
    BY <2>1
  <2>5. Unheld(st, t)
    BY <1>2, <2>1 DEF Added, Rest, Unheld
  <2> QED
    BY <2>2, <2>3, <2>4, <2>5
<1> QED
  BY <1>1, <1>2 DEF Given

\* A job is taken from its reserver.
Release(st, c, j) == [st EXCEPT !.conn[c].reserved_jobs = @ \ {j}]

LEMMA ReleaseOf ==
    ASSUME NEW st, Good(st), NEW c \in Conns, NEW j, NEW t, t = Release(st, c, j)
    PROVE  Good(t) /\ Kept(st, t, c) /\ t.conn[c].state = st.conn[c].state
<1> DEFINE k == [st.conn[c] EXCEPT !.reserved_jobs = @ \ {j}]
<1>1. st \in Store /\ st.conn[c] \in ConnRec
  BY Fields DEF Good
<1>2. t = SetConn(st, c, k)
  BY <1>1 DEF Release, SetConn, Store, ConnRec
<1>3. k \in ConnRec /\ k.state = st.conn[c].state /\ k.rw = st.conn[c].rw
      /\ k.next = st.conn[c].next /\ SameInput(k, st.conn[c])
  BY <1>1 DEF ConnRec, SameInput
<1> HIDE DEF k
<1>4. Sane(k)
  BY <1>3 DEF Good, Sane, SameInput
<1>5. Good(t) /\ Kept(st, t, c) /\ t.conn[c] = k
  BY <1>2, <1>3, <1>4, EditGood
<1> QED
  BY <1>3, <1>5

\* The same with the job given away: those who waited get an answer, and only
\* they are added to the list.
Listed(st, w, M) == M \in SUBSET Conns /\ Links(st, w, M, FALSE) /\ NoneWaits(st, M)

Passed(st, t, w, M) ==
    /\ Good(t)
    /\ \E N \in SUBSET Conns :
        /\ Links(t, w, N, FALSE) /\ NoneWaits(t, N)
        /\ \A d \in N \ M : st.conn[d].state = "WAIT"
    /\ Unheld(st, t)

LEMMA PassOn ==
    ASSUME NEW st, Good(st), NEW c \in Conns, NEW w, NEW M, Listed(st, w, M),
           st.conn[c].state # "GONE",
           NEW j \in st.conn[c].reserved_jobs, NEW t, t \in enqueue_job(Release(st, c, j), j)
    PROVE  Passed(st, t, w, M)
<1>0. M \in SUBSET Conns /\ Links(st, w, M, FALSE) /\ NoneWaits(st, M)
  BY DEF Listed
<1>1. PICK u : u = Release(st, c, j)
  OBVIOUS
<1>2. st \in Store /\ j \in Text
  BY Fields DEF Good
<1>3. Good(u) /\ Kept(st, u, c) /\ u.conn[c].state = st.conn[c].state
  BY <1>1, ReleaseOf
<1>4. \A d \in Conns : u.conn[d].state = st.conn[d].state /\ u.conn[d].next = st.conn[d].next
  BY <1>3 DEF Kept, Rest
<1>5. Links(u, w, M, FALSE)
  BY <1>0, <1>2, <1>3, LinksKept DEF Good
<1>6. NoneWaits(u, M)
  BY <1>0, <1>4 DEF NoneWaits
<1>7. Good(t) /\ Given(u, t)
  BY <1>1, <1>2, <1>3, EnqueueOf
<1>8. /\ \E N \in SUBSET Conns :
            /\ Links(t, w, N, FALSE) /\ NoneWaits(t, N)
            /\ \A d \in N \ M : u.conn[d].state = "WAIT"
      /\ Unheld(u, t)
  BY <1>0, <1>3, <1>5, <1>6, <1>7, GivenLinks
<1>9. Unheld(st, t)
  BY <1>4, <1>8 DEF Unheld
<1> QED
  BY <1>0, <1>4, <1>7, <1>8, <1>9 DEF Passed

\* The interest of one that is closed or not listed does not matter.
LEMMA LinksForget ==
    ASSUME NEW st, NEW w, NEW v, NEW M, NEW cyc, Links(st, w, M, cyc), NEW c \in Conns,
           st.conn[c].state = "CLOSE", \A d \in Conns \ {c} : v[d] = w[d]
    PROVE  Links(st, v, M, cyc)
<1>1. ASSUME NEW d \in Conns PROVE Heard(st.conn[d], d \in M, v[d])
  <2>1. Heard(st.conn[d], d \in M, w[d])
    BY DEF Links
  <2> QED
    BY <2>1 DEF Heard
<1> QED
  BY <1>1 DEF Links

LEMMA FreshType ==
    FreshConn \in ConnRec /\ FreshConn.next = Nil /\ FreshConn.cmd = <<>>
    /\ FreshConn.in_job = NoJob /\ FreshConn.state = "WANT_COMMAND"
<1>1. <<>> \in Text /\ <<>> \in Replies /\ "WANT_COMMAND" \in States
  BY DEF Text, Replies, States
<1>2. NoJob \in [size: Nat, body: Text]
  BY <1>1 DEF NoJob
<1>3. {} \in SUBSET Text
  OBVIOUS
<1> QED
  BY <1>1, <1>2, <1>3 DEF FreshConn, ConnRec

FreeConn(st, c) == [st EXCEPT !.conn[c] = [FreshConn EXCEPT !.state = "GONE"]]

LEMMA FreeOf ==
    ASSUME NEW st, Good(st), NEW c \in Conns, NEW t, t = FreeConn(st, c)
    PROVE  /\ Good(t) /\ Rest(st, t, c) /\ t.epollq = st.epollq
           /\ t.conn[c].state = "GONE" /\ t.conn[c].next = Nil
<1> DEFINE k == [FreshConn EXCEPT !.state = "GONE"]
<1>1. st \in Store
  BY DEF Good
<1>2. t = SetConn(st, c, k)
  BY <1>1 DEF FreeConn, SetConn, Store
<1>3. k \in ConnRec /\ k.state = "GONE" /\ k.next = Nil /\ Sane(k)
  <2>1. FreshConn \in ConnRec /\ FreshConn.next = Nil /\ FreshConn.cmd = <<>>
        /\ FreshConn.in_job = NoJob
    BY FreshType
  <2>2. "GONE" \in States
    BY DEF States
  <2>3. k \in ConnRec /\ k.state = "GONE" /\ k.next = Nil /\ k.cmd = <<>> /\ k.in_job = NoJob
    BY <2>1, <2>2 DEF ConnRec
  <2>4. Len(<<>>) = 0
    OBVIOUS
  <2> HIDE DEF k
  <2> QED
    BY <2>3, <2>4, ConnConstants DEF Sane
<1> HIDE DEF k
<1>4. Rest(st, t, c) /\ t.epollq = st.epollq /\ t.ready = st.ready /\ t.conn[c] = k
  BY <1>1, <1>2, <1>3, SetOf
<1>5. Good(t)
  BY <1>3, <1>4, GoodStep
<1> QED
  BY <1>3, <1>4, <1>5

LEMMA connclose_Inv ==
    ASSUME IInv, NEW c \in Conns, connclose(c)
    PROVE  IInv'
<1>1. task = [at |-> "connclose", conn |-> c]
      /\ want' = [want EXCEPT ![c] = IF @ = "lost" THEN @ ELSE "none"]
      /\ inp' = inp /\ cli' = cli
  BY DEF connclose
<1>2. PICK M \in SUBSET Conns, cyc \in BOOLEAN : Links(s, want, M, cyc) /\ Phase(task, s, want, M, cyc)
  BY DEF IInv
<1>3. cyc = FALSE /\ NoneWaits(s, M) /\ (c \notin M \/ want[c] = "lost")
      /\ s.conn[c].next = Nil
  BY <1>1, <1>2 DEF Phase
<1>4. Good(s) /\ s.conn[c].state = "CLOSE" /\ World
      /\ \A d \in Conns : s.conn[d].state = "CLOSE" => d = c
  BY <1>1 DEF IInv, Closing
<1>5. /\ want' \in [Conns -> Interests] /\ \A d \in Conns \ {c} : want'[d] = want[d]
      /\ c \notin M \/ want'[c] = "lost"
  BY <1>1, <1>3, <1>4 DEF World, Interests
<1>6. Links(s, want', M, FALSE)
  BY <1>2, <1>3, <1>4, <1>5, LinksForget
<1>7. ASSUME NEW j \in s.conn[c].reserved_jobs, s' \in enqueue_job(Release(s, c, j), j),
             task' = task
      PROVE  IInv'
  <2>a. Listed(s, want', M) /\ s.conn[c].state # "GONE"
    BY <1>3, <1>4, <1>6 DEF Listed
  <2>b. Passed(s, s', want', M)
    BY <1>4, <1>7, <2>a, PassOn
  <2>1. /\ Good(s')
        /\ \E N \in SUBSET Conns :
                /\ Links(s', want', N, FALSE) /\ NoneWaits(s', N)
                /\ \A d \in N \ M : s.conn[d].state = "WAIT"
        /\ \A d \in Conns :
                \/ s'.conn[d].state = s.conn[d].state
                \/ s.conn[d].state = "WAIT" /\ s'.conn[d].state = "SEND_JOB"
        /\ s'.conn[c].next = Nil
    BY <1>3, <1>4, <2>b DEF Passed, Unheld
  <2>2. PICK N \in SUBSET Conns : /\ Links(s', want', N, FALSE) /\ NoneWaits(s', N)
                                  /\ \A d \in N \ M : s.conn[d].state = "WAIT"
    BY <2>1
  <2>3. Phase(task', s', want', N, FALSE)
    <3>1. c \notin N \/ want'[c] = "lost"
      BY <1>4, <1>5, <2>2
    <3> QED
      BY <1>1, <1>7, <2>1, <2>2, <3>1 DEF Phase
  <2>4. Closing(task', s')
    BY <1>1, <1>4, <1>7, <2>1 DEF Closing, Busy
  <2>5. World'
    BY <1>1, <1>4, <1>5, <1>7 DEF World
  <2> QED
    BY <2>1, <2>2, <2>3, <2>4, <2>5 DEF IInv
<1>8. ASSUME s' = FreeConn(s, c), task' = [at |-> "epollq_apply", conn |-> Nil]
      PROVE  IInv'
  <2>1. /\ Good(s') /\ Rest(s, s', c) /\ s'.epollq = s.epollq
        /\ s'.conn[c].state = "GONE" /\ s'.conn[c].next = Nil
    BY <1>4, <1>8, FreeOf
  <2>2. Nx(s)[c] = Nil
    BY <1>3 DEF Nx
  <2>3. Nx(s') = Nx(s)
    BY <2>1, <2>2 DEF Nx, Rest
  <2>4. ASSUME NEW d \in Conns PROVE Heard(s'.conn[d], d \in M, want'[d])
    <3>1. Heard(s.conn[d], d \in M, want'[d])
      BY <1>6 DEF Links
    <3> QED
      BY <1>5, <2>1, <3>1 DEF Heard, Rest
  <2>5. Links(s', want', M, FALSE)
    BY <1>6, <2>1, <2>3, <2>4 DEF Links
  <2>6. Phase(task', s', want', M, FALSE)
    <3>1. NoneWaits(s', M)
      BY <1>3, <2>1 DEF NoneWaits, Rest
    <3> QED
      BY <1>8, <3>1 DEF Phase, NoneWaits, WaitAlone
  <2>7. Closing(task', s')
    BY <1>4, <1>8, <2>1 DEF Closing, Busy, Rest
  <2>8. World'
    BY <1>1, <1>4, <1>5, <1>8 DEF World, Ats
  <2> QED
    BY <2>1, <2>5, <2>6, <2>7, <2>8 DEF IInv
<1> QED
  BY <1>7, <1>8 DEF connclose, Release, FreeConn

LEMMA conn_timeout_Inv ==
    ASSUME IInv, NEW c \in Conns, conn_timeout(c)
    PROVE  IInv'
<1>1. task.at \in {"socknext", "prottick"} /\ s.conn[c].state # "GONE"
      /\ task' = [at |-> "prottick", conn |-> Nil]
      /\ want' = want /\ inp' = inp /\ cli' = cli
  BY DEF conn_timeout, Open
<1>2. PICK M \in SUBSET Conns, cyc \in BOOLEAN : Links(s, want, M, cyc) /\ Phase(task, s, want, M, cyc)
  BY DEF IInv
<1>3. cyc = FALSE /\ NoneWaits(s, M)
  BY <1>1, <1>2 DEF Phase, NoneWaits
<1>4. Good(s) /\ s \in Store /\ World /\ \A d \in Conns : s.conn[d].state # "CLOSE"
  BY <1>1 DEF IInv, Closing, Busy, Good
<1>5. World'
  BY <1>1, <1>4 DEF World, Ats
<1>6. ASSUME NEW N \in SUBSET Conns, Links(s', want, N, FALSE), NoneWaits(s', N), Good(s'),
             \A d \in Conns : s'.conn[d].state # "CLOSE"
      PROVE  IInv'
  <2>1. Phase(task', s', want', N, FALSE)
    BY <1>1, <1>6 DEF Phase
  <2>2. Closing(task', s')
    BY <1>1, <1>6 DEF Closing, Busy
  <2> QED
    BY <1>1, <1>5, <1>6, <2>1, <2>2 DEF IInv
<1>7. ASSUME NEW st, Good(st), Kept(s, st, c), st.conn[c].state = s.conn[c].state,
             c \in Waiting(s), NEW word \in Words, s' = reply_msg(st, c, word)
      PROVE  IInv'
  <2>1. Good(s') /\ Added(st, s', c) /\ s'.conn[c].state = "SEND_WORD"
    BY <1>7, MsgGood
  <2>2. Added(s, s', c)
    BY <1>7, <2>1, FirstKept
  <2>3. c \notin M
    BY <1>3, <1>7 DEF NoneWaits, Waiting
  <2>4. Links(s', want, M \cup {c}, FALSE)
    BY <1>2, <1>3, <1>4, <2>2, <2>3, LinksNew
  <2>5. NoneWaits(s', M \cup {c}) /\ \A d \in Conns : s'.conn[d].state # "CLOSE"
    BY <1>3, <1>4, <2>1, <2>2 DEF NoneWaits, Added, Rest
  <2> QED
    BY <1>6, <2>1, <2>4, <2>5
<1>8. CASE c \in Waiting(s) /\ s' = reply_msg(s, c, "DEADLINE_SOON")
  <2>1. PICK word \in Words : word = "DEADLINE_SOON"
    BY DEF Words
  <2>2. Kept(s, s, c) /\ s' = reply_msg(s, c, word)
    BY <1>4, <1>8, <2>1 DEF Kept, Rest
  <2> QED
    BY <1>4, <1>7, <1>8, <2>2
<1>9. CASE c \in Waiting(s) /\ s' = reply_msg([s EXCEPT !.conn[c].timed = FALSE], c, "TIMED_OUT")
  <2>1. PICK word \in Words : word = "TIMED_OUT"
    BY DEF Words
  <2>2. PICK st : st = NoTimeout(s, c)
    OBVIOUS
  <2>3. s' = reply_msg(st, c, word)
    BY <1>9, <2>1, <2>2 DEF NoTimeout
  <2>4. Good(st) /\ Kept(s, st, c) /\ st.conn[c].state = s.conn[c].state
    BY <1>4, <2>2, NoTimeoutOf
  <2> QED
    BY <1>7, <1>9, <2>3, <2>4
<1>10. ASSUME NEW j \in s.conn[c].reserved_jobs, s' \in enqueue_job(Release(s, c, j), j)
       PROVE  IInv'
  <2>a. Listed(s, want, M) /\ s.conn[c].state # "GONE"
    BY <1>1, <1>2, <1>3 DEF Listed
  <2>b. Passed(s, s', want, M)
    BY <1>4, <1>10, <2>a, PassOn
  <2>1. /\ Good(s')
        /\ \E N \in SUBSET Conns :
                /\ Links(s', want, N, FALSE) /\ NoneWaits(s', N)
                /\ \A d \in N \ M : s.conn[d].state = "WAIT"
        /\ \A d \in Conns :
                \/ s'.conn[d].state = s.conn[d].state
                \/ s.conn[d].state = "WAIT" /\ s'.conn[d].state = "SEND_JOB"
    BY <2>b DEF Passed, Unheld
  <2>2. \A d \in Conns : s'.conn[d].state # "CLOSE"
    BY <1>4, <2>1
  <2> QED
    BY <1>6, <2>1, <2>2
<1> QED
  BY <1>8, <1>9, <1>10 DEF conn_timeout, Release

LEMMA prottick_end_Inv ==
    ASSUME IInv, prottick_end
    PROVE  IInv'
<1>1. task.at = "prottick" /\ task' = [at |-> "epollq_apply", conn |-> Nil]
      /\ s' = s /\ want' = want /\ inp' = inp /\ cli' = cli
  BY DEF prottick_end
<1>2. PICK M \in SUBSET Conns, cyc \in BOOLEAN : Links(s, want, M, cyc) /\ Phase(task, s, want, M, cyc)
  BY DEF IInv
<1>3. World'
  BY <1>1 DEF IInv, World, Ats
<1>4. Closing(task', s')
  BY <1>1 DEF IInv, Closing, Busy
<1>5. Phase(task', s', want', M, cyc) /\ Links(s', want', M, cyc) /\ Good(s')
  BY <1>1, <1>2 DEF Phase, NoneWaits, WaitAlone, IInv
<1> QED
  BY <1>3, <1>4, <1>5 DEF IInv

LEMMA epollq_apply_Inv ==
    ASSUME IInv, epollq_apply
    PROVE  IInv'
<1>1. task.at = "epollq_apply" /\ inp' = inp /\ cli' = cli
  BY DEF epollq_apply
<1>2. PICK M \in SUBSET Conns, cyc \in BOOLEAN : Links(s, want, M, cyc) /\ Phase(task, s, want, M, cyc)
  BY DEF IInv
<1>3. Good(s) /\ World /\ \A d \in Conns : s.conn[d].state # "CLOSE"
  BY <1>1 DEF IInv, Closing, Busy
<1>4. ASSUME NEW c \in Conns, c = s.epollq, Open(c), s' = Pop(s, c),
             want' = [want EXCEPT ![c] = s.conn[c].rw], task' = task
      PROVE  IInv'
  <2>1. /\ Good(s') /\ Rest(s, s', c) /\ s'.conn[c].state = s.conn[c].state
    BY <1>3, <1>4, PopOf
  <2>2. s.conn[c].rw \in {"r", "w", "h"}
    BY <1>3 DEF Good, Store, ConnRec
  <2>3. want' \in [Conns -> Interests] /\ want'[c] = s.conn[c].rw
        /\ \A d \in Conns \ {c} : want'[d] = want[d]
    BY <1>3, <1>4, <2>2 DEF World, Interests
  <2>4. Links(s', want', Left(M, cyc, c), FALSE)
    <3>1. Told(s, want, want', c)
      BY <1>4, <2>3 DEF Told, Open
    <3> QED
      BY <1>2, <1>3, <1>4, <3>1, LinksPop
  <2>5. Phase(task', s', want', Left(M, cyc, c), FALSE)
    <3>1. WaitAlone(s, M) /\ Left(M, cyc, c) \subseteq M
      BY <1>1, <1>2 DEF Phase, Left
    <3>2. WaitAlone(s', Left(M, cyc, c))
      BY <2>1, <3>1 DEF WaitAlone, Rest
    <3> QED
      BY <1>1, <1>4, <3>2 DEF Phase
  <2>6. Closing(task', s')
    BY <1>1, <1>3, <1>4, <2>1 DEF Closing, Busy, Rest
  <2>7. World'
    BY <1>1, <1>3, <1>4, <2>3 DEF World
  <2>8. Left(M, cyc, c) \in SUBSET Conns
    BY DEF Left
  <2> QED
    BY <2>1, <2>4, <2>5, <2>6, <2>7, <2>8 DEF IInv
<1>5. ASSUME s.epollq = Nil, task' = [at |-> "socknext", conn |-> Nil], s' = s, want' = want
      PROVE  IInv'
  <2>1. M = {}
    BY <1>2, <1>5, QueuePointers, ConnConstants DEF Links
  <2>2. Nx(s) = [c \in Conns |-> Nil]
    BY <1>2, <2>1 DEF Links, Queued, Nx
  <2>3. Links(s', want', {}, FALSE)
    BY <1>2, <1>5, <2>1, <2>2, QueueNone DEF Links
  <2>4. Phase(task', s', want', {}, FALSE)
    BY <1>5 DEF Phase
  <2>5. Closing(task', s') /\ World' /\ Good(s')
    BY <1>1, <1>3, <1>5 DEF Closing, Busy, World, Ats
  <2> QED
    BY <2>3, <2>4, <2>5 DEF IInv
<1>6. ASSUME NEW c \in Conns, c = s.epollq, Open(c), s' = CloseIt(Pop(s, c), c),
             want' = [want EXCEPT ![c] = "lost"], task' = [at |-> "connclose", conn |-> c]
      PROVE  IInv'
  <2>1. PICK p, v, N : /\ p = Pop(s, c) /\ v = [want EXCEPT ![c] = s.conn[c].rw]
                       /\ N = Left(M, cyc, c)
    OBVIOUS
  <2>2. Good(p) /\ Rest(s, p, c) /\ p.conn[c].state = s.conn[c].state /\ p.conn[c].next = Nil
    BY <1>3, <1>6, <2>1, PopOf
  <2>3. Told(s, want, v, c)
    BY <1>3, <1>6, <2>1 DEF Told, Open, World
  <2>4. Links(p, v, N, FALSE)
    BY <1>2, <1>3, <1>6, <2>1, <2>3, LinksPop
  <2>5. Good(s') /\ Kept(p, s', c) /\ s'.conn[c].state = "CLOSE"
    BY <1>6, <2>1, <2>2, CloseOf
  <2>6. Links(s', v, N, FALSE)
    BY <2>2, <2>4, <2>5, LinksKept DEF Good
  <2>7. want' \in [Conns -> Interests] /\ want'[c] = "lost"
        /\ \A d \in Conns \ {c} : want'[d] = v[d]
    BY <1>3, <1>6, <2>1 DEF World, Interests
  <2>8. Links(s', want', N, FALSE)
    BY <2>5, <2>6, <2>7, LinksForget
  <2>9. Phase(task', s', want', N, FALSE)
    <3>1. WaitAlone(s, M) /\ N \subseteq M /\ c \in M
      <4>1. c \in M
        BY <1>2, <1>6, QueuePointers, ConnConstants DEF Links
      <4> QED
        BY <1>1, <1>2, <2>1, <4>1 DEF Phase, Left
    <3>2. NoneWaits(s', N)
      BY <2>2, <2>5, <3>1 DEF WaitAlone, NoneWaits, Kept, Rest
    <3>3. s'.conn[c].next = Nil
      BY <2>2, <2>5 DEF Kept
    <3> QED
      BY <1>6, <2>7, <3>2, <3>3 DEF Phase
  <2>10. Closing(task', s')
    BY <1>3, <1>6, <2>2, <2>5 DEF Closing, Busy, Kept, Rest
  <2>11. World'
    BY <1>1, <1>3, <1>6, <2>7 DEF World, Ats, Busy
  <2>12. N \in SUBSET Conns
    BY <2>1 DEF Left
  <2> QED
    BY <2>5, <2>8, <2>9, <2>10, <2>11, <2>12 DEF IInv
<1>7. ASSUME NEW c \in Conns, s' = [s EXCEPT !.epollq = s.conn[c].next, !.conn[c].next = Nil,
                                             !.conn[c].state = "CLOSE"]
      PROVE  s' = CloseIt(Pop(s, c), c)
  BY <1>3, <1>7 DEF CloseIt, Pop, Good, Store
<1> QED
  BY <1>4, <1>5, <1>6, <1>7 DEF epollq_apply, Pop

LEMMA Client_Inv ==
    ASSUME IInv, NEW c \in Conns, shutdown(c) \/ reset(c)
    PROVE  IInv'
<1>1. s' = s /\ want' = want /\ task' = task
  BY DEF shutdown, reset
<1>2. World'
  <2>1. <<>> \in Text
    BY DEF Text
  <2> QED
    BY <1>1, <2>1 DEF IInv, World, shutdown, reset
<1> QED
  BY <1>1, <1>2 DEF IInv

\* What a client sends is text.
LEMMA StreamType ==
    ASSUME NEW reqs \in Seq([line: Seq(STRING), body: Seq(STRING)])
    PROVE  Stream(reqs) \in Text
<1> DEFINE ss == [i \in 1..Len(reqs) |-> Tokens(reqs[i])]
<1>1. Len(reqs) \in Nat
      /\ \A i \in 1..Len(reqs) : reqs[i] \in [line: Seq(STRING), body: Seq(STRING)]
  <2>1. PICK R : R = [line: Seq(STRING), body: Seq(STRING)]
    OBVIOUS
  <2>2. reqs \in Seq(R)
    BY <2>1
  <2>3. Len(reqs) \in Nat /\ \A i \in 1..Len(reqs) : reqs[i] \in R
    BY <2>2
  <2> QED
    BY <2>1, <2>3
<1>2. \A i \in 1..Len(reqs) : Tokens(reqs[i]) \in Text
  BY <1>1 DEF Tokens, Text
<1>3. ss \in Seq(Text)
  BY <1>1, <1>2
<1> HIDE DEF ss
<1>4. FlattenSeq(ss) \in Text
  BY <1>3, Flat DEF Text
<1> QED
  BY <1>4 DEF Stream, ss

LEMMA InitInv ==
    ASSUME Init
    PROVE  IInv
<1>1. script \in Scripts /\ inp = [c \in Conns |-> Stream(script[c])]
      /\ cli = [c \in Conns |-> "open"] /\ want = [c \in Conns |-> "r"]
      /\ task = [at |-> "socknext", conn |-> Nil]
  BY DEF Init
<1>2. \A c \in Conns : Stream(script[c]) \in Text
  BY <1>1, StreamType, ConnConstants
<1>3. World
  BY <1>1, <1>2 DEF World, Ats, Interests
<1> DEFINE first(c) == [FreshConn EXCEPT !.state = FirstState(script[c])]
<1>4. ASSUME NEW c \in Conns
      PROVE  /\ first(c) \in ConnRec /\ Sane(first(c)) /\ first(c).next = Nil
             /\ first(c).state \in {"GONE", "WANT_COMMAND"}
  <2>1. FirstState(script[c]) \in {"GONE", "WANT_COMMAND"}
    BY DEF FirstState
  <2>2. {"GONE", "WANT_COMMAND"} \subseteq States
    BY DEF States
  <2>3. FreshConn \in ConnRec /\ FreshConn.next = Nil /\ FreshConn.cmd = <<>>
        /\ FreshConn.in_job = NoJob
    BY FreshType
  <2>4. PICK state \in States : state = FirstState(script[c])
    BY <2>1, <2>2
  <2>5. PICK k : k = [FreshConn EXCEPT !.state = state]
    OBVIOUS
  <2>6. k \in ConnRec /\ k.state = state /\ k.next = Nil /\ k.cmd = <<>> /\ k.in_job = NoJob
    BY <2>3, <2>5 DEF ConnRec
  <2>7. Sane(k)
    <3>1. Len(<<>>) = 0
      OBVIOUS
    <3> QED
      BY <2>1, <2>4, <2>6, <3>1, ConnConstants DEF Sane
  <2>8. k = first(c)
    BY <2>4, <2>5
  <2> QED
    BY <2>1, <2>4, <2>6, <2>7, <2>8
<1> HIDE DEF first
<1>5. s = [conn |-> [c \in Conns |-> first(c)], epollq |-> Nil, newhead |-> Nil, ready |-> {}]
  BY DEF Init, first
<1>6. s \in Store /\ s.epollq = Nil /\ s.newhead = Nil /\ s.ready = {}
      /\ \A c \in Conns : s.conn[c] = first(c)
  <2>1. [c \in Conns |-> first(c)] \in [Conns -> ConnRec]
    BY <1>4
  <2>2. PICK k \in [Conns -> ConnRec] : k = [c \in Conns |-> first(c)]
    BY <2>1
  <2>3. s = [conn |-> k, epollq |-> Nil, newhead |-> Nil, ready |-> {}]
    BY <1>5, <2>2
  <2>4. \A c \in Conns : k[c] = first(c)
    BY <2>2
  <2> QED
    BY <2>3, <2>4 DEF Store
<1>7. Good(s)
  BY <1>4, <1>6 DEF Good, Matched
<1>8. Closing(task, s)
  BY <1>1, <1>4, <1>6 DEF Closing, Busy
<1>9. Links(s, want, {}, FALSE)
  <2>1. Nx(s) = [c \in Conns |-> Nil]
    BY <1>4, <1>6 DEF Nx
  <2>2. Queued(Nx(s), Nil, {}, FALSE)
    BY <2>1, QueueNone
  <2>3. \A c \in Conns : Heard(s.conn[c], c \in {}, want[c])
    BY <1>1, <1>4, <1>6 DEF Heard, Need
  <2> QED
    BY <1>6, <2>2, <2>3 DEF Links
<1>10. Phase(task, s, want, {}, FALSE)
  BY <1>1 DEF Phase
<1> QED
  BY <1>3, <1>7, <1>8, <1>9, <1>10 DEF IInv

LEMMA NextInv ==
    ASSUME IInv, [Next]_vars
    PROVE  IInv'
<1>1. ASSUME NEW c \in Conns, conn_process_io(c) PROVE IInv'
  BY <1>1, conn_process_io_Inv
<1>2. ASSUME NEW c \in Conns, dispatch_cmd(c) PROVE IInv'
  BY <1>2, dispatch_cmd_Inv
<1>3. ASSUME NEW c \in Conns, h_conn_end(c) PROVE IInv'
  BY <1>3, h_conn_end_Inv
<1>4. ASSUME NEW c \in Conns, epollq_rmconn(c) PROVE IInv'
  BY <1>4, epollq_rmconn_Inv
<1>5. ASSUME NEW c \in Conns, connclose(c) PROVE IInv'
  BY <1>5, connclose_Inv
<1>6. CASE prottick_end
  BY <1>6, prottick_end_Inv
<1>7. CASE epollq_apply
  BY <1>7, epollq_apply_Inv
<1>8. ASSUME NEW c \in Conns, conn_timeout(c) PROVE IInv'
  BY <1>8, conn_timeout_Inv
<1>9. ASSUME NEW c \in Conns, shutdown(c) \/ reset(c) PROVE IInv'
  BY <1>9, Client_Inv
<1>10. CASE UNCHANGED vars
  BY <1>10 DEF vars, IInv, World
<1> QED
  BY <1>1, <1>2, <1>3, <1>4, <1>5, <1>6, <1>7, <1>8, <1>9, <1>10 DEF Next, Serve

-----------------------------------------------------------------------------
(* The theorems                                                            *)

\* The invariant holds in every state of the connection machine of prot.c, for
\* any number of connections, buffer sizes and requests.
THEOREM Inductive == Spec => []IInv
<1>1. Init => IInv
  BY InitInv
<1>2. IInv /\ [Next]_vars => IInv'
  BY NextInv
<1> QED
  BY <1>1, <1>2, PTL DEF Spec

\* The command buffer and the body of a job are never overrun, in_job_read is
\* never negative, and no ready job is left while a connection waits, however
\* conn_process_io, h_conn, connclose and prottick follow each other.
THEOREM TypeCorrect == Spec => []TypeOK
<1>1. IInv => TypeOK
  <2> SUFFICES ASSUME IInv PROVE TypeOK
    OBVIOUS
  <2>1. Good(s) /\ World
    BY DEF IInv
  <2>2. s \in Store
    BY <2>1 DEF Good
  <2>3. s.epollq \in Conns \cup {Nil} /\ (s.ready = {} \/ Waiting(s) = {})
    BY <2>1, <2>2 DEF Store, Good, Matched
  <2>4. ASSUME NEW c \in Conns
        PROVE  /\ s.conn[c].state \in States
               /\ Len(s.conn[c].cmd) \in 0..LINE_BUF_SIZE
               /\ s.conn[c].in_job_read \in Nat
               /\ s.conn[c].in_job # NoJob =>
                    /\ s.conn[c].in_job_read = Len(s.conn[c].in_job.body)
                    /\ s.conn[c].in_job_read <= s.conn[c].in_job.size
    <3>1. s.conn[c] \in ConnRec /\ Sane(s.conn[c])
      BY <2>1, <2>2 DEF Store, Good
    <3>2. PICK k : k = s.conn[c]
      OBVIOUS
    <3>3. k.cmd \in Text /\ k.state \in States /\ k.in_job_read \in Nat
      BY <3>1, <3>2 DEF ConnRec
    <3>4. Len(k.cmd) \in Nat
      BY <3>3 DEF Text
    <3> QED
      BY <3>1, <3>2, <3>3, <3>4, ConnConstants DEF Sane
  <2>5. ASSUME NEW c \in Conns
        PROVE  cli[c] \in {"open", "shut", "reset"} /\ want[c] \in {"r", "w", "h", "none", "lost"}
    BY <2>1 DEF World, Interests
  <2> QED
    BY <2>3, <2>4, <2>5 DEF TypeOK, States
<1> QED
  BY <1>1, Inductive, PTL

\* Whatever epollq went through (a connection added twice, to itself, or taken
\* out), the kernel watches each socket for what its connection needs when the
\* thread goes back to socknext: no connection is forgotten.
THEOREM Interest == Spec => []InterestMatches
<1>1. IInv => InterestMatches
  <2> SUFFICES ASSUME IInv, task.at = "socknext", NEW c \in Conns, Open(c)
               PROVE  want[c] = Need(s.conn[c].state)
    BY DEF InterestMatches, Need
  <2>1. PICK M \in SUBSET Conns, cyc \in BOOLEAN :
            Links(s, want, M, cyc) /\ Phase(task, s, want, M, cyc)
    BY DEF IInv
  <2>2. M = {}
    BY <2>1 DEF Phase
  <2>3. Heard(s.conn[c], c \in M, want[c])
    BY <2>1 DEF Links
  <2>4. s.conn[c].state \notin {"GONE", "CLOSE"}
    BY DEF IInv, Closing, Busy, Open
  <2> QED
    BY <2>2, <2>3, <2>4 DEF Heard
<1> QED
  BY <1>1, Inductive, PTL

\* No pointer of epollq is left to a connection that h_conn closed (epollq_rmconn
\* and connclose), also while a failing sockwant closes others in the middle of
\* epollq_apply.  Those that epollq_apply closes are not covered: they may be
\* freed while they are still in the list.
THEOREM NoDangling == Spec => []NoFreedConn
<1>1. IInv => NoFreedConn
  <2> SUFFICES ASSUME IInv, NEW c \in Conns, ~Open(c), want[c] # "lost"
               PROVE  s.epollq # c /\ \A d \in Conns : s.conn[d].next # c
    BY DEF NoFreedConn
  <2>1. PICK M \in SUBSET Conns, cyc \in BOOLEAN : Links(s, want, M, cyc)
    BY DEF IInv
  <2>2. Queued(Nx(s), s.epollq, M, cyc) /\ Heard(s.conn[c], c \in M, want[c])
    BY <2>1 DEF Links
  <2>3. c \notin M /\ c # Nil
    BY <2>2, ConnConstants DEF Heard, Open
  <2>4. s.epollq \in M \cup {Nil} /\ \A d \in Conns : Nx(s)[d] \in M \cup {Nil}
    BY <2>2, QueuePointers, ConnConstants
  <2> QED
    BY <2>3, <2>4 DEF Nx
<1> QED
  BY <1>1, Inductive, PTL

=============================================================================
