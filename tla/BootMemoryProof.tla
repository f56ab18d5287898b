--------------------------- MODULE BootMemoryProof --------------------------
(***************************************************************************)
(* Proofs about BootMemory, for every page size, page table length and map *)
(* of the boot loader: the map and the area made of it are right, and so   *)
(* are the page tables built in them.                                      *)
(***************************************************************************)
EXTENDS BootMemory, FiniteSets, SequenceTheorems, WellFoundedInduction, TLAPS

-----------------------------------------------------------------------------
(* Runs *)

\* Some numbers have a least one, which stands for an induction.
LEMMA Least ==
  ASSUME NEW T, T \subseteq Nat, T # {}
  PROVE  \E m \in T : \A k \in T : m <= k
<1> DEFINE R0 == OpToRel(<, Nat)
<1>1. IsWellFoundedOn(R0, Nat)
  BY NatLessThanWellFounded
<1>2. \A a, b \in Nat : a < b => <<a, b>> \in R0
  BY DEF OpToRel
<1> HIDE DEF R0
<1>3. PICK m \in T : \A k \in T : ~(<<k, m>> \in R0)
  BY <1>1, WFMin
<1>4. \A k \in T : ~(k < m)
  BY <1>2, <1>3
<1> QED
  BY <1>3, <1>4

\* u begins with d and goes on by the function g, n times
Runs(u, n, d, g) == u[0] = d /\ \A i \in 1 .. n : u[i] = g[u[i - 1]][i]

\* There is such a run.
LEMMA RunExists ==
  ASSUME NEW n \in Nat, NEW D, NEW d \in D, NEW g,
         \A e \in D : \A i \in 1 .. n : g[e][i] \in D
  PROVE  \E u \in [0 .. n -> D] : Runs(u, n, d, g)
<1> DEFINE Has(m) == \E u \in [0 .. m -> D] : Runs(u, m, d, g)
           T == {m \in 0 .. n : ~Has(m)}
<1>1. CASE T = {}
  <2>1. n \in 0 .. n
    OBVIOUS
  <2> HIDE DEF Has
  <2>2. Has(n)
    BY <1>1, <2>1
  <2> QED
    BY <2>2 DEF Has
<1>2. CASE T # {}
  <2>1. T \subseteq Nat
    OBVIOUS
  <2> HIDE DEF T
  <2>2. PICK m \in T : \A k \in T : m <= k
    BY <1>2, <2>1, Least
  <2>3. m \in 0 .. n /\ ~Has(m)
    BY DEF T
  <2> HIDE DEF Has
  <2>4. CASE m = 0
    <3> DEFINE u == [i \in 0 .. 0 |-> d]
    <3>1. Runs(u, 0, d, g) /\ u \in [0 .. 0 -> D]
      BY DEF Runs
    <3> QED
      BY <2>3, <2>4, <3>1 DEF Has
  <2>5. CASE m # 0
    <3>1. m - 1 \in 0 .. n /\ m - 1 \notin T /\ m \in 1 .. n
      BY <2>2, <2>3, <2>5
    <3>2. Has(m - 1)
      BY <3>1 DEF T
    <3>3. PICK v \in [0 .. m - 1 -> D] : Runs(v, m - 1, d, g)
      BY <3>2 DEF Has
    <3> DEFINE u == [i \in 0 .. m |-> IF i = m THEN g[v[m - 1]][m] ELSE v[i]]
    <3>4. u \in [0 .. m -> D]
      <4>1. v[m - 1] \in D
        BY <3>1
      <4>2. g[v[m - 1]][m] \in D
        BY <3>1, <4>1
      <4>3. \A i \in 0 .. m : i # m => i \in 0 .. m - 1
        BY <3>1
      <4> QED
        BY <4>2, <4>3
    <3>5. u[0] = d
      BY <2>3, <2>5, <3>3 DEF Runs
    <3>6. ASSUME NEW i \in 1 .. m PROVE u[i] = g[u[i - 1]][i]
      <4>1. i \in 0 .. m /\ i - 1 \in 0 .. m /\ i - 1 # m
        BY <2>3
      <4>2. u[i - 1] = v[i - 1]
        BY <4>1
      <4>3. CASE i = m
        BY <4>1, <4>2, <4>3
      <4>4. CASE i # m
        <5>1. i \in 1 .. m - 1
          BY <2>3, <4>4
        <5> QED
          BY <3>3, <4>1, <4>2, <4>4, <5>1 DEF Runs
      <4> QED
        BY <4>3, <4>4
    <3> HIDE DEF u
    <3> QED
      BY <2>3, <3>4, <3>5, <3>6 DEF Has, Runs
  <2> QED
    BY <2>4, <2>5
<1> QED
  BY <1>1, <1>2

-----------------------------------------------------------------------------
(* The heap *)

\* The arrays of n entries.
Arrays(n) == [1 .. n -> Entry]

\* c is a child of i.
Child(i, c) == c = 2 * i + 1 \/ c = 2 * i + 2

\* From lo on, no entry below end is less than its children.
Heap(a, lo, end) ==
  \A i, c \in 0 .. end - 1 : i >= lo /\ Child(i, c) => Base(a, c) <= Base(a, i)

\* As much is true save at s.root, whose parent is not less than its children.
NearHeap(s, lo, end) ==
  /\ \A i, c \in 0 .. end - 1 :
       i >= lo /\ i # s.root /\ Child(i, c) => Base(s.a, c) <= Base(s.a, i)
  /\ \A i, c \in 0 .. end - 1 :
       i >= lo /\ Child(i, s.root) /\ Child(s.root, c) => Base(s.a, c) <= Base(s.a, i)

\* b has the entries of a below end, and is a from there on.
Moved(a, b, end, n) ==
  /\ \A i \in end .. n - 1 : b[i + 1] = a[i + 1]
  /\ \A i \in 0 .. end - 1 : \E j \in 0 .. end - 1 : b[i + 1] = a[j + 1]
  /\ \A i \in 0 .. end - 1 : \E j \in 0 .. end - 1 : a[i + 1] = b[j + 1]

LEMMA MovedTrans ==
  ASSUME NEW n \in Nat, NEW end \in 0 .. n, NEW a, NEW b, NEW c,
         Moved(a, b, end, n), Moved(b, c, end, n)
  PROVE  Moved(a, c, end, n)
<1>1. ASSUME NEW i \in end .. n - 1 PROVE c[i + 1] = a[i + 1]
  BY DEF Moved
<1>2. ASSUME NEW i \in 0 .. end - 1 PROVE \E j \in 0 .. end - 1 : c[i + 1] = a[j + 1]
  <2>1. PICK j \in 0 .. end - 1 : c[i + 1] = b[j + 1]
    BY DEF Moved
  <2>2. PICK k \in 0 .. end - 1 : b[j + 1] = a[k + 1]
    BY DEF Moved
  <2> QED
    BY <2>1, <2>2
<1>3. ASSUME NEW i \in 0 .. end - 1 PROVE \E j \in 0 .. end - 1 : a[i + 1] = c[j + 1]
  <2>1. PICK j \in 0 .. end - 1 : a[i + 1] = b[j + 1]
    BY DEF Moved
  <2>2. PICK k \in 0 .. end - 1 : b[j + 1] = c[k + 1]
    BY DEF Moved
  <2> QED
    BY <2>1, <2>2
<1> QED
  BY <1>1, <1>2, <1>3 DEF Moved

LEMMA SwapAt ==
  ASSUME NEW n \in Nat, NEW a \in Arrays(n), NEW i \in 0 .. n - 1, NEW j \in 0 .. n - 1
  PROVE  /\ Swap(a, i, j) \in Arrays(n)
         /\ \A k \in 0 .. n - 1 :
              Swap(a, i, j)[k + 1] = IF k = j THEN a[i + 1]
                                     ELSE IF k = i THEN a[j + 1] ELSE a[k + 1]
<1>1. i + 1 \in 1 .. n /\ j + 1 \in 1 .. n
  OBVIOUS
<1>2. \A k \in 0 .. n - 1 : k + 1 \in 1 .. n /\ (k + 1 = i + 1 <=> k = i) /\ (k + 1 = j + 1 <=> k = j)
  OBVIOUS
<1> QED
  BY <1>1, <1>2 DEF Swap, Arrays

LEMMA SwapMoved ==
  ASSUME NEW n \in Nat, NEW end \in 0 .. n, NEW a \in Arrays(n),
         NEW i \in 0 .. end - 1, NEW j \in 0 .. end - 1
  PROVE  Moved(a, Swap(a, i, j), end, n)
<1> DEFINE b == Swap(a, i, j)
<1>1. \A k \in 0 .. n - 1 : b[k + 1] = IF k = j THEN a[i + 1]
                                     ELSE IF k = i THEN a[j + 1] ELSE a[k + 1]
  BY SwapAt
<1>2. \A k \in 0 .. end - 1 : k \in 0 .. n - 1
  OBVIOUS
<1>3. \A k \in end .. n - 1 : k \in 0 .. n - 1 /\ k # i /\ k # j
  OBVIOUS
<1> HIDE DEF b
<1>4. b[i + 1] = a[j + 1] /\ b[j + 1] = a[i + 1]
  BY <1>1, <1>2
<1>5. \A k \in 0 .. end - 1 : \E l \in 0 .. end - 1 : b[k + 1] = a[l + 1]
  BY <1>1, <1>2
<1>6. \A k \in 0 .. end - 1 : \E l \in 0 .. end - 1 : a[k + 1] = b[l + 1]
  BY <1>1, <1>2, <1>4
<1>7. Moved(a, b, end, n)
  BY <1>1, <1>3, <1>5, <1>6 DEF Moved
<1> QED
  BY <1>7 DEF b

\* The states of the loop that repairs a heap.
Sifts(n) == [a : Arrays(n), root : Nat]

LEMMA SiftStep ==
  ASSUME NEW n \in Nat, NEW end \in 0 .. n, NEW lo \in Nat, NEW s \in Sifts(n),
         NearHeap(s, lo, end)
  PROVE  LET t == Sift(s, end)
         IN /\ t \in Sifts(n)
            /\ NearHeap(t, lo, end)
            /\ Moved(s.a, t.a, end, n)
            /\ t = s => Heap(s.a, lo, end)
            /\ t # s => t.root > s.root
<1> DEFINE left == s.root * 2 + 1
           child == IF left + 1 < end /\ Base(s.a, left) < Base(s.a, left + 1)
                    THEN left + 1 ELSE left
           t == Sift(s, end)
           b == Swap(s.a, s.root, child)
<1>1. s.a \in Arrays(n) /\ s.root \in Nat
  BY DEF Sifts
<1>2. \A i \in 0 .. n - 1 : Base(s.a, i) \in Nat /\ Base(s.a, i) = s.a[i + 1].base
  <2> SUFFICES ASSUME NEW i \in 0 .. n - 1 PROVE s.a[i + 1].base \in Nat
    BY DEF Base
  <2>1. s.a[i + 1] \in Entry
    BY <1>1 DEF Arrays
  <2> QED
    BY <2>1 DEF Entry
<1>3. Moved(s.a, s.a, end, n)
  BY DEF Moved
<1>4. CASE left >= end \/ Base(s.a, s.root) >= Base(s.a, child)
  <2>1. t = s
    BY <1>4 DEF Sift
  <2>2. ASSUME NEW i \in 0 .. end - 1, NEW c \in 0 .. end - 1, i >= lo, Child(i, c)
        PROVE  Base(s.a, c) <= Base(s.a, i)
    <3>1. CASE i # s.root
      BY <2>2, <3>1 DEF NearHeap
    <3>2. CASE i = s.root
      <4>1. i \in 0 .. n - 1 /\ c \in 0 .. n - 1
        OBVIOUS
      <4>2. left < end /\ left \in 0 .. n - 1 /\ (c = left \/ c = left + 1)
        BY <1>1, <2>2, <3>2 DEF Child
      <4>3. Base(s.a, child) <= Base(s.a, i)
        <5>1. child \in 0 .. n - 1
          BY <4>2
        <5> HIDE DEF child
        <5> QED
          BY <1>2, <1>4, <3>2, <4>1, <4>2, <5>1
      <4>4. Base(s.a, c) <= Base(s.a, child)
        <5>1. Base(s.a, c) \in Nat /\ Base(s.a, left) \in Nat
          BY <1>2, <4>1, <4>2
        <5>2. CASE c = left
          <6>1. CASE left + 1 < end /\ Base(s.a, left) < Base(s.a, left + 1)
            <7>1. left + 1 \in 0 .. n - 1
              BY <4>2, <6>1
            <7>2. Base(s.a, left + 1) \in Nat
              BY <1>2, <7>1
            <7> QED
              BY <5>1, <5>2, <6>1, <7>2
          <6>2. CASE ~(left + 1 < end /\ Base(s.a, left) < Base(s.a, left + 1))
            BY <5>1, <5>2, <6>2
          <6> QED
            BY <6>1, <6>2
        <5>3. CASE c = left + 1
          <6>1. left + 1 < end
            BY <5>3
          <6>2. CASE Base(s.a, left) < Base(s.a, left + 1)
            BY <5>1, <5>3, <6>1, <6>2
          <6>3. CASE ~(Base(s.a, left) < Base(s.a, left + 1))
            BY <5>1, <5>3, <6>1, <6>3
          <6> QED
            BY <6>2, <6>3
        <5> QED
          BY <4>2, <5>2, <5>3
      <4>5. child \in 0 .. n - 1
        BY <4>2
      <4> HIDE DEF child
      <4> QED
        BY <1>2, <4>1, <4>3, <4>4, <4>5
    <3> QED
      BY <3>1, <3>2
  <2>3. Heap(s.a, lo, end)
    BY <2>2 DEF Heap
  <2> HIDE DEF t
  <2>4. t \in Sifts(n) /\ NearHeap(t, lo, end) /\ Moved(s.a, t.a, end, n)
    BY <1>3, <2>1
  <2> QED
    BY <2>1, <2>3, <2>4 DEF t
<1>5. CASE ~(left >= end \/ Base(s.a, s.root) >= Base(s.a, child))
  <2>1. t = [a |-> b, root |-> child]
    BY <1>5 DEF Sift
  <2>2. left < end /\ child \in 0 .. end - 1 /\ Child(s.root, child) /\ child > s.root
        /\ s.root \in 0 .. end - 1
    BY <1>1, <1>5 DEF Child
  <2>3. \A c \in 0 .. end - 1 : Child(s.root, c) => Base(s.a, c) <= Base(s.a, child)
    <3> SUFFICES ASSUME NEW c \in 0 .. end - 1, Child(s.root, c)
                 PROVE  Base(s.a, c) <= Base(s.a, child)
      OBVIOUS
    <3>1. c = left \/ c = left + 1
      BY <1>1 DEF Child
    <3>2. Base(s.a, c) \in Nat /\ Base(s.a, left) \in Nat
      BY <1>1, <1>2, <2>2
    <3>3. left + 1 < end => Base(s.a, left + 1) \in Nat
      BY <1>1, <1>2, <2>2
    <3>4. CASE left + 1 < end /\ Base(s.a, left) < Base(s.a, left + 1)
      <4>1. child = left + 1
        BY <3>4
      <4> HIDE DEF child, left
      <4> QED
        BY <3>1, <3>2, <3>3, <3>4, <4>1
    <3>5. CASE ~(left + 1 < end /\ Base(s.a, left) < Base(s.a, left + 1))
      <4>1. child = left
        BY <3>5
      <4>2. c = left + 1 => left + 1 < end
        BY <3>1
      <4> HIDE DEF child, left
      <4> QED
        BY <3>1, <3>2, <3>3, <3>5, <4>1, <4>2
    <3> QED
      BY <3>4, <3>5
  <2>4. Base(s.a, s.root) < Base(s.a, child)
    <3>1. child \in 0 .. n - 1 /\ s.root \in 0 .. n - 1
      BY <2>2
    <3> HIDE DEF child
    <3> QED
      BY <1>2, <1>5, <3>1
  <2> HIDE DEF child, left
  <2>5. b \in Arrays(n) /\ Moved(s.a, b, end, n)
    <3>1. child \in 0 .. n - 1 /\ s.root \in 0 .. n - 1
      BY <2>2
    <3> QED
      BY <1>1, <2>2, <3>1, SwapAt, SwapMoved
  <2>6. \A k \in 0 .. end - 1 :
          Base(b, k) = IF k = child THEN Base(s.a, s.root)
                       ELSE IF k = s.root THEN Base(s.a, child) ELSE Base(s.a, k)
    <3>1. child \in 0 .. n - 1 /\ s.root \in 0 .. n - 1
      BY <2>2
    <3>2. \A k \in 0 .. n - 1 :
              b[k + 1] = IF k = child THEN s.a[s.root + 1]
                         ELSE IF k = s.root THEN s.a[child + 1] ELSE s.a[k + 1]
      <4> DEFINE q == s.a
                 r == s.root
      <4>1. q \in Arrays(n) /\ r \in 0 .. n - 1
        BY <1>1, <3>1
      <4> HIDE DEF q, r
      <4>2. \A k \in 0 .. n - 1 :
              Swap(q, r, child)[k + 1] = IF k = child THEN q[r + 1]
                         ELSE IF k = r THEN q[child + 1] ELSE q[k + 1]
        BY <3>1, <4>1, SwapAt
      <4> QED
        BY <4>2 DEF q, r
    <3> HIDE DEF b
    <3> QED
      BY <3>2 DEF Base
  <2> HIDE DEF b
  <2>7. \A i \in 0 .. end - 1 : Base(s.a, i) \in Nat
    BY <1>2
  <2>8. \A i, c, d \in 0 .. end - 1 : Child(i, c) /\ Child(d, c) => i = d
    BY DEF Child
  <2>9. \A i, c \in 0 .. end - 1 : Child(i, c) => c > i
    BY DEF Child
  <2>10. ASSUME NEW i \in 0 .. end - 1, NEW c \in 0 .. end - 1,
                i >= lo, i # child, Child(i, c)
         PROVE  Base(b, c) <= Base(b, i)
    <3>1. CASE i = s.root
      <4>1. c # s.root
        BY <2>9, <2>10, <3>1
      <4>2. Base(b, i) = Base(s.a, child)
        BY <2>6, <2>10, <3>1
      <4>3. CASE c = child
        BY <2>2, <2>4, <2>6, <2>7, <4>2, <4>3
      <4>4. CASE c # child
        BY <2>3, <2>6, <2>10, <3>1, <4>1, <4>2, <4>4
      <4> QED
        BY <4>3, <4>4
    <3>2. CASE i # s.root
      <4>1. c # child
        BY <2>2, <2>8, <2>10, <3>2
      <4>2. Base(b, i) = Base(s.a, i)
        BY <2>6, <2>10, <3>2
      <4>3. CASE c = s.root
        <5>1. Base(s.a, child) <= Base(s.a, i)
          BY <2>2, <2>10, <4>3 DEF NearHeap
        <5> QED
          BY <2>6, <4>1, <4>2, <4>3, <5>1
      <4>4. CASE c # s.root
        BY <2>6, <2>10, <3>2, <4>1, <4>2, <4>4 DEF NearHeap
      <4> QED
        BY <4>3, <4>4
    <3> QED
      BY <3>1, <3>2
  <2>11. ASSUME NEW i \in 0 .. end - 1, NEW c \in 0 .. end - 1,
                i >= lo, Child(i, child), Child(child, c)
         PROVE  Base(b, c) <= Base(b, i)
    <3>1. i = s.root /\ c # child /\ c # s.root
      BY <2>2, <2>8, <2>9, <2>11
    <3>2. Base(s.a, c) <= Base(s.a, child)
      BY <2>2, <2>11, <3>1 DEF NearHeap
    <3> QED
      BY <2>2, <2>6, <3>1, <3>2
  <2>12. t \in Sifts(n)
    BY <2>1, <2>2, <2>5 DEF Sifts
  <2>13. t.a = b /\ t.root = child
    BY <2>1
  <2> HIDE DEF t
  <2>14. NearHeap(t, lo, end)
    BY <2>10, <2>11, <2>13 DEF NearHeap
  <2>15. t # s /\ t.root > s.root
    BY <2>2, <2>13
  <2> QED
    BY <2>5, <2>12, <2>13, <2>14, <2>15 DEF t
<1> QED
  BY <1>4, <1>5

\* What holds of 0, and of i when it holds of i - 1, holds up to n.
LEMMA Induct ==
  ASSUME NEW n \in Nat, NEW T, 0 \in T, \A i \in 1 .. n : i - 1 \in T => i \in T
  PROVE  \A i \in 0 .. n : i \in T
<1> DEFINE S == {i \in 0 .. n : i \notin T}
<1>1. S \subseteq Nat
  OBVIOUS
<1>2. CASE S # {}
  <2> HIDE DEF S
  <2>1. PICK m \in S : \A k \in S : m <= k
    BY <1>1, <1>2, Least
  <2>2. m \in 0 .. n /\ m \notin T
    BY DEF S
  <2>3. m \in 1 .. n /\ m - 1 \in 0 .. n /\ ~(m <= m - 1)
    BY <2>2
  <2>4. m - 1 \in T
    BY <2>1, <2>3 DEF S
  <2> QED
    BY <2>2, <2>3, <2>4
<1> QED
  BY <1>2

-----------------------------------------------------------------------------
(* sort() *)

LEMMA RepairOK ==
  ASSUME NEW n \in Nat, NEW end \in 0 .. n, NEW lo \in Nat, NEW a \in Arrays(n),
         NEW root \in Nat, NearHeap([a |-> a, root |-> root], lo, end)
  PROVE  LET b == Repair(a, root, end)
         IN b \in Arrays(n) /\ Heap(b, lo, end) /\ Moved(a, b, end, n)
<1> DEFINE d == [a |-> a, root |-> root]
           g == [s \in Sifts(n) |-> [i \in 1 .. end |-> Sift(s, end)]]
           P(p) == [k \in 0 .. end |-> IF k = 0 THEN d ELSE Sift(p[k - 1], end)]
           r == CHOOSE p : p = P(p)
           D == {s \in Sifts(n) : NearHeap(s, lo, end)}
<1>1. Repair(a, root, end) = r[end].a
  BY DEF Repair
<1>2. d \in D /\ d.a = a /\ d.root = root
  BY DEF Sifts
<1>3. \A s \in D : Sift(s, end) \in D
  BY SiftStep
<1> HIDE DEF d
<1>4. PICK u \in [0 .. end -> D] : u = P(u)
  <2> DEFINE h == [s \in D |-> [i \in 1 .. end |-> Sift(s, end)]]
  <2>1. \A s \in D : \A i \in 1 .. end : h[s][i] = Sift(s, end) /\ h[s][i] \in D
    BY <1>3
  <2> HIDE DEF h, D
  <2>2. PICK u \in [0 .. end -> D] : Runs(u, end, d, h)
    <3>1. end \in Nat /\ d \in D
      BY <1>2
    <3> QED
      BY <2>1, <3>1, RunExists
  <2>3. ASSUME NEW i \in 0 .. end, i # 0 PROVE u[i] = Sift(u[i - 1], end)
    <3>1. i \in 1 .. end /\ i - 1 \in 0 .. end
      BY <2>3
    <3> QED
      BY <2>1, <2>2, <3>1 DEF Runs
  <2>4. u = P(u)
    BY <2>2, <2>3 DEF Runs
  <2> QED
    BY <2>4
<1> HIDE DEF P
<1>5. r = P(r)
  BY <1>4
<1> HIDE DEF r
<1>6. r[0] = d /\ \A i \in 1 .. end : r[i] = Sift(r[i - 1], end)
  BY <1>5 DEF P
<1> DEFINE T == {i \in 0 .. end : /\ r[i] \in D /\ Moved(a, r[i].a, end, n)
                                 /\ \/ r[i].root >= i
                                    \/ /\ Heap(r[i].a, lo, end)
                                       /\ i < end => r[i + 1] = r[i]}
<1>7. \A i \in 0 .. end : i \in T
  <2>1. 0 \in T
    <3>1. Moved(a, a, end, n)
      BY DEF Moved
    <3> QED
      BY <1>2, <1>6, <3>1
  <2>2. ASSUME NEW i \in 1 .. end, i - 1 \in T PROVE i \in T
    <3> DEFINE s == r[i - 1]
               t == r[i]
    <3>1. s \in D /\ Moved(a, s.a, end, n) /\ t = Sift(s, end)
          /\ (s.root >= i - 1 \/ (Heap(s.a, lo, end) /\ t = s))
      BY <1>6, <2>2
    <3>2. /\ t \in Sifts(n) /\ NearHeap(t, lo, end) /\ Moved(s.a, t.a, end, n)
          /\ t = s => Heap(s.a, lo, end)
          /\ t # s => t.root > s.root
      <4> HIDE DEF s, t
      <4> QED
        BY <3>1, SiftStep
    <3>3. Moved(a, t.a, end, n)
      <4> HIDE DEF s, t
      <4> QED
        BY <3>1, <3>2, MovedTrans
    <3>4. t.root >= i \/ (Heap(t.a, lo, end) /\ t = s)
      <4>1. s.root \in Nat /\ t.root \in Nat
        BY <3>1, <3>2 DEF Sifts
      <4> HIDE DEF s, t
      <4> QED
        BY <3>1, <3>2, <4>1
    <3>5. i < end /\ t = s => r[i + 1] = r[i]
      <4> SUFFICES ASSUME i < end, t = s PROVE r[i + 1] = r[i]
        OBVIOUS
      <4>1. i + 1 \in 1 .. end /\ (i + 1) - 1 = i
        OBVIOUS
      <4>2. r[i + 1] = Sift(r[i], end)
        BY <1>6, <4>1
      <4> QED
        BY <3>1, <4>2
    <3> QED
      BY <3>2, <3>3, <3>4, <3>5
  <2> HIDE DEF T
  <2> QED
    BY <2>1, <2>2, Induct
<1>8. end \in T
  BY <1>7
<1>9. Heap(r[end].a, lo, end)
  <2>1. CASE r[end].root >= end
    <3> DEFINE s == r[end]
    <3>1. s \in Sifts(n) /\ NearHeap(s, lo, end)
      BY <1>8
    <3> HIDE DEF s
    <3>2. s.root \in Nat /\ s.root * 2 + 1 >= end
      BY <2>1, <3>1 DEF Sifts, s
    <3>3. Sift(s, end) = s
      BY <3>2 DEF Sift
    <3>4. Heap(s.a, lo, end)
      BY <3>1, <3>3, SiftStep
    <3> QED
      BY <3>4 DEF s
  <2> QED
    BY <1>8, <2>1
<1>10. r[end].a \in Arrays(n) /\ Moved(a, r[end].a, end, n)
  BY <1>8 DEF Sifts
<1> QED
  BY <1>1, <1>9, <1>10

\* Every entry of the one array is in the other.
Shuffled(a, b, n) == Moved(a, b, n, n)

LEMMA RepairType ==
  ASSUME NEW n \in Nat, NEW end \in 0 .. n, NEW a \in Arrays(n), NEW root \in Nat
  PROVE  Repair(a, root, end) \in Arrays(n) /\ Moved(a, Repair(a, root, end), end, n)
<1>1. NearHeap([a |-> a, root |-> root], end, end)
  BY DEF NearHeap
<1> QED
  BY <1>1, RepairOK

LEMMA HeapifyOK ==
  ASSUME NEW n \in Nat, NEW a \in Arrays(n)
  PROVE  LET b == Heapify(a)
         IN b \in Arrays(n) /\ Heap(b, 0, n) /\ Shuffled(a, b, n)
<1> DEFINE m == n \div 2
           h == [b \in Arrays(n) |-> [k \in 1 .. m |-> Repair(b, m - k, n)]]
           P(p) == [k \in 0 .. m |-> IF k = 0 THEN a ELSE Repair(p[k - 1], m - k, n)]
           r == CHOOSE p : p = P(p)
<1>1. Len(a) = n
  BY DEF Arrays
<1>2. Heapify(a) = r[m]
  BY <1>1 DEF Heapify
<1>3. m \in Nat /\ m <= n /\ 2 * m + 1 >= n
  OBVIOUS
<1> HIDE DEF m, P
<1>4. \A b \in Arrays(n) : \A k \in 1 .. m : h[b][k] = Repair(b, m - k, n) /\ h[b][k] \in Arrays(n)
  <2> SUFFICES ASSUME NEW b \in Arrays(n), NEW k \in 1 .. m
               PROVE  Repair(b, m - k, n) \in Arrays(n)
    OBVIOUS
  <2>1. m - k \in Nat /\ n \in 0 .. n
    BY <1>3
  <2> QED
    BY <2>1, RepairType
<1> HIDE DEF h
<1>5. PICK u \in [0 .. m -> Arrays(n)] : Runs(u, m, a, h)
  BY <1>3, <1>4, RunExists
<1>6. u = P(u)
  <2>1. ASSUME NEW k \in 0 .. m, k # 0 PROVE u[k] = Repair(u[k - 1], m - k, n)
    <3>1. k \in 1 .. m /\ k - 1 \in 0 .. m
      BY <1>3, <2>1
    <3> QED
      BY <1>4, <1>5, <3>1 DEF Runs
  <2> QED
    BY <1>5, <2>1 DEF P, Runs
<1>7. r = P(r)
  BY <1>6
<1> HIDE DEF r
<1>8. r[0] = a /\ \A k \in 1 .. m : r[k] = Repair(r[k - 1], m - k, n)
  BY <1>3, <1>7 DEF P
<1> DEFINE T == {k \in 0 .. m : r[k] \in Arrays(n) /\ Heap(r[k], m - k, n) /\ Shuffled(a, r[k], n)}
<1>9. \A k \in 0 .. m : k \in T
  <2>1. 0 \in T
    <3>1. Heap(a, m, n)
      BY <1>3 DEF Heap, Child
    <3>2. Shuffled(a, a, n)
      BY DEF Shuffled, Moved
    <3> QED
      BY <1>3, <1>8, <3>1, <3>2
  <2>2. ASSUME NEW k \in 1 .. m, k - 1 \in T PROVE k \in T
    <3> DEFINE b == r[k - 1]
               c == r[k]
               lo == m - k
    <3>1. b \in Arrays(n) /\ Heap(b, m - (k - 1), n) /\ Shuffled(a, b, n) /\ c = Repair(b, lo, n)
      BY <1>8, <2>2
    <3>2. lo \in Nat /\ m - (k - 1) = lo + 1 /\ n \in 0 .. n
      BY <1>3
    <3> HIDE DEF b, c, lo
    <3>3. NearHeap([a |-> b, root |-> lo], lo, n)
      <4>1. \A i, d \in 0 .. n - 1 : i >= lo /\ i # lo /\ Child(i, d) => Base(b, d) <= Base(b, i)
        BY <3>1, <3>2 DEF Heap
      <4>2. \A i \in 0 .. n - 1 : i >= lo => ~Child(i, lo)
        BY <3>2 DEF Child
      <4> QED
        BY <4>1, <4>2 DEF NearHeap
    <3>4. c \in Arrays(n) /\ Heap(c, lo, n) /\ Moved(b, c, n, n)
      BY <3>1, <3>2, <3>3, RepairOK
    <3>5. Shuffled(a, c, n)
      BY <3>1, <3>2, <3>4, MovedTrans DEF Shuffled
    <3> QED
      BY <3>4, <3>5 DEF c, lo
  <2> HIDE DEF T
  <2> QED
    BY <1>3, <2>1, <2>2, Induct
<1>10. m \in T
  BY <1>3, <1>9
<1>11. m - m = 0
  BY <1>3
<1> QED
  BY <1>2, <1>10, <1>11

\* The first entry of a heap is the greatest.
LEMMA HeapTop ==
  ASSUME NEW n \in Nat, NEW end \in 1 .. n, NEW a \in Arrays(n), Heap(a, 0, end)
  PROVE  \A i \in 0 .. end - 1 : Base(a, i) <= Base(a, 0)
<1>1. \A i \in 0 .. end - 1 : Base(a, i) \in Nat
  <2> SUFFICES ASSUME NEW i \in 0 .. end - 1 PROVE Base(a, i) \in Nat
    OBVIOUS
  <2>1. a[i + 1] \in Entry
    BY DEF Arrays
  <2> QED
    BY <2>1 DEF Base, Entry
<1> DEFINE S == {i \in 0 .. end - 1 : ~(Base(a, i) <= Base(a, 0))}
<1>2. CASE S # {}
  <2>1. S \subseteq Nat
    OBVIOUS
  <2> HIDE DEF S
  <2>2. PICK m \in S : \A k \in S : m <= k
    BY <1>2, <2>1, Least
  <2>3. m \in 0 .. end - 1 /\ ~(Base(a, m) <= Base(a, 0))
    BY DEF S
  <2>4. m # 0
    BY <1>1, <2>3
  <2>5. PICK p \in 0 .. m - 1 : Child(p, m)
    <3> DEFINE p == (m - 1) \div 2
    <3>1. p \in 0 .. m - 1 /\ Child(p, m)
      BY <2>3, <2>4 DEF Child
    <3> QED
      BY <3>1
  <2>6. p \in 0 .. end - 1 /\ p >= 0 /\ ~(m <= p)
    BY <2>3
  <2>7. Base(a, m) <= Base(a, p)
    BY <2>3, <2>5, <2>6 DEF Heap
  <2>8. Base(a, p) <= Base(a, 0)
    BY <2>2, <2>6 DEF S
  <2>9. 0 \in 0 .. end - 1
    OBVIOUS
  <2>10. \A x, y, z \in Nat : x <= y /\ y <= z => x <= z
    OBVIOUS
  <2> QED
    BY <1>1, <2>3, <2>6, <2>7, <2>8, <2>9, <2>10
<1> QED
  BY <1>2

\* The entries from end on are in order, and none below end is greater.
SortedFrom(a, end, n) == \A i, j \in 0 .. n - 1 : end <= j /\ i <= j => Base(a, i) <= Base(a, j)

LEMMA MovedWider ==
  ASSUME NEW n \in Nat, NEW end \in 0 .. n, NEW a, NEW b, Moved(a, b, end, n)
  PROVE  Moved(a, b, n, n)
<1>1. ASSUME NEW i \in 0 .. n - 1 PROVE \E j \in 0 .. n - 1 : b[i + 1] = a[j + 1]
  <2>1. CASE i \in 0 .. end - 1
    <3>1. PICK j \in 0 .. end - 1 : b[i + 1] = a[j + 1]
      BY <2>1 DEF Moved
    <3> QED
      BY <3>1
  <2>2. CASE i \in end .. n - 1
    BY <2>2 DEF Moved
  <2> QED
    BY <2>1, <2>2
<1>2. ASSUME NEW i \in 0 .. n - 1 PROVE \E j \in 0 .. n - 1 : a[i + 1] = b[j + 1]
  <2>1. CASE i \in 0 .. end - 1
    <3>1. PICK j \in 0 .. end - 1 : a[i + 1] = b[j + 1]
      BY <2>1 DEF Moved
    <3> QED
      BY <3>1
  <2>2. CASE i \in end .. n - 1
    <3>1. a[i + 1] = b[i + 1]
      BY <2>2 DEF Moved
    <3> QED
      BY <3>1
  <2> QED
    BY <2>1, <2>2
<1> QED
  BY <1>1, <1>2 DEF Moved

LEMMA BaseNat ==
  ASSUME NEW n \in Nat, NEW a \in Arrays(n), NEW i \in 0 .. n - 1
  PROVE  Base(a, i) \in Nat
<1>1. a[i + 1] \in Entry
  BY DEF Arrays
<1> QED
  BY <1>1 DEF Base, Entry

\* One turn that takes the greatest entry off the heap.
LEMMA PopStep ==
  ASSUME NEW n \in Nat, NEW end \in 1 .. n - 1, NEW a \in Arrays(n),
         Heap(a, 0, end + 1), SortedFrom(a, end + 1, n)
  PROVE  LET b == Repair(Swap(a, end, 0), 0, end)
         IN b \in Arrays(n) /\ Heap(b, 0, end) /\ SortedFrom(b, end, n) /\ Shuffled(a, b, n)
<1> DEFINE w == Swap(a, end, 0)
           b == Repair(w, 0, end)
<1>1. end \in 0 .. n - 1 /\ 0 \in 0 .. n - 1 /\ end \in 0 .. n /\ n \in 0 .. n /\ 0 \in Nat
      /\ end + 1 \in 1 .. n /\ end # 0
  OBVIOUS
<1>2. w \in Arrays(n) /\ Moved(a, w, n, n)
  BY <1>1, SwapAt, SwapMoved
<1>3. \A k \in 0 .. n - 1 : Base(w, k) = IF k = 0 THEN Base(a, end)
                                       ELSE IF k = end THEN Base(a, 0) ELSE Base(a, k)
  <2>1. \A k \in 0 .. n - 1 : w[k + 1] = IF k = 0 THEN a[end + 1]
                                       ELSE IF k = end THEN a[0 + 1] ELSE a[k + 1]
    BY <1>1, SwapAt
  <2> HIDE DEF w
  <2> QED
    BY <2>1 DEF Base
<1> HIDE DEF w
<1>4. NearHeap([a |-> w, root |-> 0], 0, end)
  <2>1. ASSUME NEW i \in 0 .. end - 1, NEW c \in 0 .. end - 1, i # 0, Child(i, c)
        PROVE  Base(w, c) <= Base(w, i)
    <3>1. i \in 0 .. (end + 1) - 1 /\ c \in 0 .. (end + 1) - 1 /\ i >= 0 /\ c # 0 /\ c # end /\ i # end
          /\ i \in 0 .. n - 1 /\ c \in 0 .. n - 1
      BY <2>1 DEF Child
    <3>2. Base(a, c) <= Base(a, i)
      BY <2>1, <3>1 DEF Heap
    <3> QED
      BY <1>3, <2>1, <3>1, <3>2
  <2>2. \A i \in 0 .. end - 1 : ~Child(i, 0)
    BY DEF Child
  <2> QED
    BY <2>1, <2>2 DEF NearHeap
<1>5. b \in Arrays(n) /\ Heap(b, 0, end) /\ Moved(w, b, end, n)
  BY <1>1, <1>2, <1>4, RepairOK
<1> HIDE DEF b
<1>6. Shuffled(a, b, n)
  <2>1. Moved(w, b, n, n)
    BY <1>1, <1>5, MovedWider
  <2> QED
    BY <1>1, <1>2, <2>1, MovedTrans DEF Shuffled
<1>7. ASSUME NEW l \in 0 .. end, NEW j \in 0 .. n - 1, end <= j
      PROVE  Base(a, l) <= Base(w, j)
  <2>1. l \in 0 .. (end + 1) - 1 /\ l \in 0 .. n - 1
    OBVIOUS
  <2>2. CASE j = end
    <3>1. Base(a, l) <= Base(a, 0)
      BY <1>1, <2>1, HeapTop
    <3> QED
      BY <1>1, <1>3, <2>2, <3>1
  <2>3. CASE j # end
    <3>1. end + 1 <= j /\ l <= j /\ j # 0
      BY <1>7, <2>3
    <3>2. Base(a, l) <= Base(a, j)
      BY <2>1, <3>1 DEF SortedFrom
    <3> QED
      BY <1>3, <2>3, <3>1, <3>2
  <2> QED
    BY <2>2, <2>3
<1>8. \A j \in 0 .. n - 1 : end <= j => Base(b, j) = Base(w, j)
  BY <1>5 DEF Moved, Base
<1>9. ASSUME NEW i \in 0 .. n - 1, NEW j \in 0 .. n - 1, end <= j, i <= j
      PROVE  Base(b, i) <= Base(b, j)
  <2>1. CASE i < end
    <3>1. PICK l \in 0 .. end - 1 : b[i + 1] = w[l + 1]
      BY <2>1, <1>5 DEF Moved
    <3>2. Base(b, i) = Base(w, l) /\ l \in 0 .. n - 1 /\ l # end
      BY <1>1, <3>1 DEF Base
    <3>3. \E q \in 0 .. end : Base(w, l) = Base(a, q)
      BY <1>3, <3>2
    <3> QED
      BY <1>7, <1>8, <1>9, <3>2, <3>3
  <2>2. CASE i = end
    <3>1. Base(b, i) = Base(w, end) /\ Base(w, end) = Base(a, 0) /\ 0 \in 0 .. end
      BY <1>1, <1>3, <1>8, <2>2
    <3> QED
      BY <1>7, <1>8, <1>9, <3>1
  <2>3. CASE i > end
    <3>1. i # 0 /\ i # end /\ j # 0 /\ j # end /\ end + 1 <= j
      BY <1>9, <2>3
    <3>2. Base(a, i) <= Base(a, j)
      BY <1>9, <3>1 DEF SortedFrom
    <3> QED
      BY <1>3, <1>8, <1>9, <2>3, <3>1, <3>2
  <2> QED
    BY <2>1, <2>2, <2>3
<1>10. SortedFrom(b, end, n)
  BY <1>9 DEF SortedFrom
<1> QED
  BY <1>5, <1>6, <1>10 DEF b, w

\* sort() leaves the entries it was given, in ascending order.
LEMMA SortOK ==
  ASSUME NEW n \in Nat, NEW a \in Arrays(n)
  PROVE  LET b == Sort(a)
         IN /\ b \in Arrays(n) /\ Shuffled(a, b, n)
            /\ \A i, j \in 0 .. n - 1 : i <= j => Base(b, i) <= Base(b, j)
<1> DEFINE m == n - 1
           G(b, k) == Repair(Swap(b, n - k, 0), 0, n - k)
           h == [b \in Arrays(n) |-> [k \in 1 .. m |-> G(b, k)]]
           P(p) == [k \in 0 .. m |-> IF k = 0 THEN Heapify(a) ELSE G(p[k - 1], k)]
           r == CHOOSE p : p = P(p)
<1>1. Len(a) = n
  BY DEF Arrays
<1>2. CASE n = 0
  <2>1. Sort(a) = a
    BY <1>1, <1>2 DEF Sort
  <2>2. Shuffled(a, a, n)
    BY DEF Shuffled, Moved
  <2> QED
    BY <1>2, <2>1, <2>2
<1>3. CASE n # 0
  <2>1. Sort(a) = r[m]
    BY <1>1, <1>3 DEF Sort
  <2>2. m \in Nat /\ \A k \in 1 .. m : n - k \in 1 .. n - 1 /\ n - k \in 0 .. n
                                     /\ n - (k - 1) = (n - k) + 1
    BY <1>3
  <2> HIDE DEF P
  <2>3. \A b \in Arrays(n) : \A k \in 1 .. m : h[b][k] = G(b, k) /\ h[b][k] \in Arrays(n)
    <3> SUFFICES ASSUME NEW b \in Arrays(n), NEW k \in 1 .. m PROVE G(b, k) \in Arrays(n)
      OBVIOUS
    <3> DEFINE w == Swap(b, n - k, 0)
    <3>1. n - k \in 0 .. n - 1 /\ 0 \in 0 .. n - 1 /\ n - k \in 0 .. n /\ 0 \in Nat
      BY <2>2
    <3>2. w \in Arrays(n)
      BY <3>1, SwapAt
    <3> HIDE DEF w
    <3>3. Repair(w, 0, n - k) \in Arrays(n)
      BY <3>1, <3>2, RepairType
    <3> QED
      BY <3>3 DEF w
  <2> HIDE DEF h, G
  <2>4. Heapify(a) \in Arrays(n) /\ Heap(Heapify(a), 0, n) /\ Shuffled(a, Heapify(a), n)
    BY HeapifyOK
  <2> HIDE DEF m
  <2>5. PICK u \in [0 .. m -> Arrays(n)] : Runs(u, m, Heapify(a), h)
    <3> DEFINE d == Heapify(a)
    <3>1. d \in Arrays(n)
      BY <2>4
    <3> HIDE DEF d
    <3>2. \E u \in [0 .. m -> Arrays(n)] : Runs(u, m, d, h)
      BY <2>2, <2>3, <3>1, RunExists
    <3> QED
      BY <3>2 DEF d
  <2>6. u = P(u)
    <3>1. ASSUME NEW k \in 0 .. m, k # 0 PROVE u[k] = G(u[k - 1], k)
      <4>1. k \in 1 .. m /\ k - 1 \in 0 .. m
        BY <2>2, <3>1
      <4> QED
        BY <2>3, <2>5, <4>1 DEF Runs
    <3> QED
      BY <2>5, <3>1 DEF P, Runs
  <2>7. r = P(r)
    BY <2>6
  <2> HIDE DEF r
  <2>8. r[0] = Heapify(a) /\ \A k \in 1 .. m : r[k] = G(r[k - 1], k)
    BY <2>2, <2>7 DEF P
  <2> DEFINE T == {k \in 0 .. m : /\ r[k] \in Arrays(n) /\ Heap(r[k], 0, n - k)
                                  /\ Shuffled(a, r[k], n) /\ SortedFrom(r[k], n - k, n)}
  <2>9. \A k \in 0 .. m : k \in T
    <3>1. 0 \in T
      <4>1. SortedFrom(Heapify(a), n, n)
        BY DEF SortedFrom
      <4>2. n - 0 = n /\ 0 \in 0 .. m
        BY <2>2
      <4> QED
        BY <2>4, <2>8, <4>1, <4>2
    <3>2. ASSUME NEW k \in 1 .. m, k - 1 \in T PROVE k \in T
      <4> DEFINE b == r[k - 1]
                 c == r[k]
                 e == n - k
      <4>1. /\ b \in Arrays(n) /\ Heap(b, 0, n - (k - 1)) /\ Shuffled(a, b, n)
            /\ SortedFrom(b, n - (k - 1), n) /\ c = Repair(Swap(b, e, 0), 0, e)
        BY <2>8, <3>2 DEF G
      <4>2. e \in 1 .. n - 1 /\ n - (k - 1) = e + 1 /\ n \in 0 .. n
        BY <2>2
      <4> HIDE DEF b, c, e
      <4>3. c \in Arrays(n) /\ Heap(c, 0, e) /\ SortedFrom(c, e, n) /\ Shuffled(b, c, n)
        BY <4>1, <4>2, PopStep
      <4>4. Shuffled(a, c, n)
        BY <4>1, <4>2, <4>3, MovedTrans DEF Shuffled
      <4>5. k \in 0 .. m
        BY <2>2
      <4> QED
        BY <4>3, <4>4, <4>5 DEF c, e
    <3> HIDE DEF T
    <3> QED
      BY <2>2, <3>1, <3>2, Induct
  <2>10. m \in T /\ n - m = 1
    <3>1. n - m = 1
      BY DEF m
    <3> QED
      BY <2>2, <2>9, <3>1
  <2> DEFINE b == Sort(a)
  <2>11. b \in Arrays(n) /\ Shuffled(a, b, n) /\ SortedFrom(b, 1, n)
    BY <2>1, <2>10
  <2> HIDE DEF b
  <2>12. ASSUME NEW i \in 0 .. n - 1, NEW j \in 0 .. n - 1, i <= j
         PROVE  Base(b, i) <= Base(b, j)
    <3>1. CASE j = 0
      <4>1. i = j /\ Base(b, i) \in Nat
        BY <2>11, <2>12, <3>1, BaseNat
      <4> QED
        BY <4>1
    <3>2. CASE j # 0
      <4>1. 1 <= j
        BY <3>2
      <4> QED
        BY <2>11, <2>12, <4>1 DEF SortedFrom
    <3> QED
      BY <3>1, <3>2
  <2> QED
    BY <2>11, <2>12 DEF b
<1> QED
  BY <1>2, <1>3

-----------------------------------------------------------------------------
(* Pages *)

LEMMA DivMod ==
  ASSUME NEW a \in Nat, NEW n \in Nat, n >= 1
  PROVE  /\ a \div n \in Nat /\ a % n \in Nat
         /\ a = n * (a \div n) + (a % n)
         /\ a % n < n
<1>1. a \div n \in Nat /\ a % n \in Nat
  OBVIOUS
<1>2. a = n * (a \div n) + (a % n)
  OBVIOUS
<1>3. a % n < n
  OBVIOUS
<1> QED
  BY <1>1, <1>2, <1>3

LEMMA Times ==
  ASSUME NEW n \in Nat, NEW x \in Nat, NEW y \in Nat, x < y
  PROVE  n * x + n <= n * y
<1>1. PICK d \in Nat : y = x + 1 + d
  <2>1. y - x - 1 \in Nat
    OBVIOUS
  <2> QED
    BY <2>1
<1>2. n * (x + 1 + d) = n * x + n + n * d
  OBVIOUS
<1>3. n * d \in Nat /\ n * x \in Nat
  OBVIOUS
<1> QED
  BY <1>1, <1>2, <1>3

\* The address of a page.
Addr(p) == PageSize * p

LEMMA Addresses ==
  /\ PageSize \in Nat /\ PageSize >= 1
  /\ \A p \in Nat : Addr(p) \in Nat /\ Addr(p) = p * PageSize
  /\ \A p, q \in Nat : p < q => Addr(p) + PageSize <= Addr(q)
  /\ \A p, q \in Nat : Addr(p + q) = Addr(p) + Addr(q)
  /\ \A p \in Nat : Addr(p) \div PageSize = p
<1>1. PageSize \in Nat /\ PageSize >= 1
  BY LayoutAssumption
<1>2. \A p \in Nat : Addr(p) \in Nat /\ Addr(p) = p * PageSize
  BY <1>1 DEF Addr
<1>3. \A p, q \in Nat : p < q => Addr(p) + PageSize <= Addr(q)
  BY <1>1, Times DEF Addr
<1>4. \A p, q \in Nat : Addr(p + q) = Addr(p) + Addr(q)
  BY <1>1 DEF Addr
<1>5. ASSUME NEW p \in Nat PROVE Addr(p) \div PageSize = p
  <2> DEFINE q == Addr(p) \div PageSize
             r == Addr(p) % PageSize
  <2>1. q \in Nat /\ r \in Nat /\ r < PageSize
    BY <1>1, <1>2, DivMod
  <2>2. Addr(p) = PageSize * q + r
    BY <1>1, <1>2, DivMod
  <2> HIDE DEF q, r
  <2>3. Addr(p) = Addr(q) + r
    BY <2>2 DEF Addr
  <2>4. Addr(p) \in Nat /\ Addr(q) \in Nat
    BY <1>2, <2>1
  <2>5. ~(p < q)
    BY <1>1, <1>3, <2>1, <2>3, <2>4
  <2>6. ~(q < p)
    BY <1>1, <1>3, <2>1, <2>3, <2>4
  <2>7. p = q
    BY <2>1, <2>5, <2>6
  <2> QED
    BY <2>7 DEF q
<1> QED
  BY <1>1, <1>2, <1>3, <1>4, <1>5

LEMMA AddrOrder ==
  ASSUME NEW p \in Nat, NEW q \in Nat
  PROVE  /\ p < q <=> Addr(p) < Addr(q)
         /\ p <= q <=> Addr(p) <= Addr(q)
<1>1. Addr(p) \in Nat /\ Addr(q) \in Nat /\ PageSize \in Nat /\ PageSize >= 1
  BY Addresses
<1>2. p < q => Addr(p) + PageSize <= Addr(q)
  BY Addresses
<1>3. q < p => Addr(q) + PageSize <= Addr(p)
  BY Addresses
<1> QED
  BY <1>1, <1>2, <1>3

LEMMA RoundDownPage ==
  ASSUME NEW x \in Nat
  PROVE  \E q \in Nat : /\ RoundDown(x) = Addr(q) /\ q = x \div PageSize
                        /\ Addr(q) <= x /\ x < Addr(q) + PageSize
                        /\ \A p \in Nat : p < q <=> Addr(p) + PageSize <= x
<1> DEFINE q == x \div PageSize
           r == x % PageSize
<1>1. q \in Nat /\ r \in Nat /\ r < PageSize /\ PageSize \in Nat
  BY Addresses, DivMod
<1>2. x = Addr(q) + r
  BY Addresses, DivMod DEF Addr
<1>3. RoundDown(x) = q * PageSize
  BY DEF RoundDown
<1>4. q = x \div PageSize
  OBVIOUS
<1> HIDE DEF q, r
<1>5. RoundDown(x) = Addr(q) /\ Addr(q) \in Nat
  BY <1>1, <1>3, Addresses
<1>6. ASSUME NEW p \in Nat PROVE p < q <=> Addr(p) + PageSize <= x
  <2>1. Addr(p) \in Nat
    BY Addresses
  <2>2. p < q => Addr(p) + PageSize <= Addr(q)
    BY <1>1, Addresses
  <2>3. ~(p < q) => Addr(q) <= Addr(p)
    BY <1>1, AddrOrder
  <2> QED
    BY <1>1, <1>2, <1>5, <2>1, <2>2, <2>3
<1> QED
  BY <1>1, <1>2, <1>4, <1>5, <1>6

LEMMA RoundUpPage ==
  ASSUME NEW x \in Nat
  PROVE  \E q \in Nat : RoundUp(x) = Addr(q) /\ \A p \in Nat : q <= p <=> x <= Addr(p)
<1> DEFINE y == x + PageSize - 1
<1>1. PageSize \in Nat /\ PageSize >= 1 /\ y \in Nat
  BY Addresses
<1>2. RoundUp(x) = RoundDown(y)
  BY DEF RoundUp
<1>3. \A z \in Nat : z + PageSize <= y <=> z < x
  BY <1>1
<1> HIDE DEF y
<1>4. PICK q \in Nat : /\ RoundDown(y) = Addr(q)
                       /\ \A p \in Nat : p < q <=> Addr(p) + PageSize <= y
  BY <1>1, RoundDownPage
<1>5. ASSUME NEW p \in Nat PROVE q <= p <=> x <= Addr(p)
  <2>1. Addr(p) \in Nat
    BY Addresses
  <2>2. p < q <=> Addr(p) < x
    BY <1>3, <1>4, <2>1
  <2> QED
    BY <2>1, <2>2
<1> QED
  BY <1>2, <1>4, <1>5

-----------------------------------------------------------------------------
(* The cuts of construct_mmap_dyn *)

MinPage == Minimum \div PageSize

LEMMA MinPageAt == MinPage \in Nat /\ Minimum = Addr(MinPage) /\ Minimum \in Nat
<1>1. Minimum \in Nat /\ Minimum % PageSize = 0 /\ PageSize \in Nat /\ PageSize >= 1
  BY LayoutAssumption
<1>2. MinPage \in Nat /\ Minimum = PageSize * MinPage + (Minimum % PageSize)
  BY <1>1, DivMod DEF MinPage
<1> QED
  BY <1>1, <1>2, Addresses DEF Addr

\* Runs of pages, and their pages.
PageRun == {[base |-> Addr(b), len |-> Addr(l)] : b \in Nat, l \in Nat \ {0}}
FirstOf(r) == r.base \div PageSize
Count(r) == r.len \div PageSize
Past(r) == FirstOf(r) + Count(r)

LEMMA RunPages ==
  ASSUME NEW b \in Nat, NEW l \in Nat \ {0}
  PROVE  LET r == [base |-> Addr(b), len |-> Addr(l)]
         IN r \in PageRun /\ FirstOf(r) = b /\ Count(r) = l /\ Past(r) = b + l
<1>1. Addr(b) \div PageSize = b /\ Addr(l) \div PageSize = l
  BY Addresses
<1> QED
  BY <1>1 DEF PageRun, FirstOf, Count, Past

LEMMA RunAt ==
  ASSUME NEW r \in PageRun
  PROVE  /\ FirstOf(r) \in Nat /\ Count(r) \in Nat /\ Count(r) >= 1
         /\ Past(r) \in Nat /\ Past(r) = FirstOf(r) + Count(r)
         /\ r.base = Addr(FirstOf(r)) /\ r.len = Addr(Count(r))
         /\ r.base + r.len = Addr(Past(r))
         /\ r \in [base : Nat, len : Nat]
<1>1. PICK b \in Nat, l \in Nat \ {0} : r = [base |-> Addr(b), len |-> Addr(l)]
  BY DEF PageRun
<1>2. FirstOf(r) = b /\ Count(r) = l /\ Past(r) = b + l
  BY <1>1, RunPages
<1>3. Addr(b) \in Nat /\ Addr(l) \in Nat /\ Addr(b + l) = Addr(b) + Addr(l)
  BY Addresses
<1> QED
  BY <1>1, <1>2, <1>3

Covers(r, p) == FirstOf(r) <= p /\ p < Past(r)
Covered(out, p) == \E k \in DOMAIN out : Covers(out[k], p)

\* The runs are above the minimum, in order and apart.
Apart(out) ==
  /\ out \in Seq(PageRun)
  /\ \A k \in DOMAIN out : MinPage <= FirstOf(out[k])
  /\ \A k, l \in DOMAIN out : k < l => Past(out[k]) <= FirstOf(out[l])

\* The page behind the last run.
Limit(out) == IF out = <<>> THEN MinPage ELSE Past(Last(out))

\* From x on, every page below the limit is in a run.
Reaches(out, x) ==
  \A p \in Nat : x <= Addr(p) /\ MinPage <= p /\ p < Limit(out) => Covered(out, p)

\* The page lies whole in e, which is available.
UsableIn(e, p) ==
  e.available /\ MinPage <= p /\ e.base <= Addr(p) /\ Addr(p) + PageSize <= e.base + e.len

LEMMA LimitAt ==
  ASSUME NEW out, Apart(out)
  PROVE  /\ Limit(out) \in Nat /\ MinPage <= Limit(out)
         /\ Addr(Limit(out)) = IF out = <<>> THEN Minimum ELSE Last(out).base + Last(out).len
         /\ \A k \in DOMAIN out : Past(out[k]) <= Limit(out)
<1>1. out \in Seq(PageRun) /\ Len(out) \in Nat /\ DOMAIN out = 1 .. Len(out)
      /\ \A k \in DOMAIN out : out[k] \in PageRun
  BY LenProperties, ElementOfSeq DEF Apart
<1>2. CASE out = <<>>
  BY <1>1, <1>2, MinPageAt DEF Limit
<1>3. CASE out # <<>>
  <2>1. Len(out) \in DOMAIN out /\ Last(out) = out[Len(out)]
    BY <1>1, <1>3, EmptySeq DEF Last
  <2> DEFINE r == Last(out)
  <2>2. r \in PageRun /\ Limit(out) = Past(r)
    BY <1>1, <1>3, <2>1 DEF Limit
  <2>3. MinPage <= FirstOf(r)
    BY <2>1 DEF Apart
  <2>4. ASSUME NEW k \in DOMAIN out PROVE Past(out[k]) <= Past(r)
    <3>1. CASE k = Len(out)
      BY <2>1, <2>2, <3>1, RunAt
    <3>2. CASE k # Len(out)
      <4>1. k < Len(out) /\ out[k] \in PageRun
        BY <1>1, <3>2
      <4>2. Past(out[k]) <= FirstOf(r)
        BY <2>1, <4>1 DEF Apart
      <4> HIDE DEF r
      <4> QED
        BY <2>2, <4>1, <4>2, RunAt
    <3> QED
      BY <3>1, <3>2
  <2> HIDE DEF r
  <2>5. Past(r) \in Nat /\ MinPage <= Past(r) /\ r.base + r.len = Addr(Past(r))
    BY <2>2, <2>3, MinPageAt, RunAt
  <2> QED
    BY <1>3, <2>2, <2>4, <2>5 DEF r
<1> QED
  BY <1>2, <1>3

\* One more entry, which begins where the entry before it begins or later.
LEMMA CutStep ==
  ASSUME NEW out, Apart(out), NEW e \in Entry, NEW x \in Nat, x <= e.base, Reaches(out, x)
  PROVE  LET new == Cut(out, e)
         IN /\ Apart(new)
            /\ Reaches(new, e.base)
            /\ \A p \in Nat : Covered(new, p) <=> Covered(out, p) \/ UsableIn(e, p)
<1> DEFINE lim == Limit(out)
           end == RoundDown(e.base + e.len)
           start == Start(out, e.base)
<1>1. e.base \in Nat /\ e.len \in Nat /\ e.base + e.len \in Nat /\ e.available \in BOOLEAN
  BY DEF Entry
<1>2. PICK up \in Nat : RoundUp(e.base) = Addr(up) /\ \A p \in Nat : up <= p <=> e.base <= Addr(p)
  BY <1>1, RoundUpPage
<1>3. PICK last \in Nat : end = Addr(last) /\ \A p \in Nat : p < last <=> Addr(p) + PageSize <= e.base + e.len
  BY <1>1, RoundDownPage
<1>4. lim \in Nat /\ MinPage <= lim /\ MinPage \in Nat
      /\ \A k \in DOMAIN out : Past(out[k]) <= lim
  BY LimitAt, MinPageAt
<1>5. PICK b \in Nat : start = Addr(b) /\ b = IF up < lim THEN lim ELSE up
  <2>1. (IF out = <<>> THEN Minimum ELSE Last(out).base + Last(out).len) = Addr(lim)
    BY LimitAt
  <2>2. start = IF Addr(up) < Addr(lim) THEN Addr(lim) ELSE Addr(up)
    BY <1>2, <2>1 DEF Start
  <2> HIDE DEF lim, start
  <2> QED
    BY <1>2, <1>4, <2>2, AddrOrder
<1>6. \A p \in Nat : UsableIn(e, p) <=> e.available /\ MinPage <= p /\ up <= p /\ p < last
  BY <1>2, <1>3 DEF UsableIn
<1>7. start >= end <=> last <= b
  <2>1. Addr(b) \in Nat /\ Addr(last) \in Nat
    BY Addresses
  <2> HIDE DEF start, end
  <2> QED
    BY <1>3, <1>5, <2>1, AddrOrder
<1>8. \A p \in Nat : e.base <= Addr(p) /\ MinPage <= p /\ p < lim => Covered(out, p)
  <2> SUFFICES ASSUME NEW p \in Nat, e.base <= Addr(p), MinPage <= p, p < lim
               PROVE  Covered(out, p)
    OBVIOUS
  <2>1. x <= Addr(p)
    <3>1. Addr(p) \in Nat
      BY Addresses
    <3> QED
      BY <1>1, <3>1
  <2> QED
    BY <2>1 DEF Reaches
<1>9. CASE ~e.available \/ last <= b
  <2>1. Cut(out, e) = out
    BY <1>7, <1>9 DEF Cut
  <2>2. Reaches(out, e.base)
    BY <1>8 DEF Reaches
  <2>3. ASSUME NEW p \in Nat, UsableIn(e, p) PROVE Covered(out, p)
    <3>1. MinPage <= p /\ up <= p /\ p < last /\ last <= b
      BY <1>6, <1>9, <2>3
    <3>2. p < lim
      <4> HIDE DEF lim
      <4> QED
        BY <1>4, <1>5, <3>1
    <3> QED
      BY <1>2, <1>8, <3>1, <3>2
  <2> QED
    BY <2>1, <2>2, <2>3
<1>10. CASE ~(~e.available \/ last <= b)
  <2> DEFINE r == [base |-> start, len |-> end - start]
             new == Append(out, r)
             n == Len(out)
  <2>1. Cut(out, e) = new
    BY <1>7, <1>10 DEF Cut
  <2>2. r \in PageRun /\ FirstOf(r) = b /\ Past(r) = last
    <3> DEFINE l == last - b
    <3>1. l \in Nat \ {0} /\ b + l = last
      BY <1>10
    <3>2. Addr(b) \in Nat /\ Addr(l) \in Nat /\ Addr(last) = Addr(b) + Addr(l)
      <4> HIDE DEF l
      <4> QED
        BY <3>1, Addresses
    <3> HIDE DEF l, start, end
    <3>3. end - start = Addr(l)
      BY <1>3, <1>5, <3>2
    <3>4. r = [base |-> Addr(b), len |-> Addr(l)]
      BY <1>5, <3>3
    <3> QED
      BY <3>1, <3>4, RunPages
  <2> HIDE DEF r
  <2>3. /\ out \in Seq(PageRun) /\ n \in Nat /\ DOMAIN out = 1 .. n
        /\ new \in Seq(PageRun) /\ DOMAIN new = 1 .. n + 1
        /\ new[n + 1] = r /\ \A k \in 1 .. n : new[k] = out[k]
    BY <2>2, LenProperties, AppendProperties DEF Apart
  <2>4. b >= lim /\ b >= MinPage /\ b < last /\ b >= up /\ (b = lim \/ b = up)
    <3> HIDE DEF lim
    <3> QED
      BY <1>4, <1>5, <1>10
  <2>5. Last(new) = r /\ new # <<>> /\ Limit(new) = last
    <3>1. Len(new) = n + 1
      BY <2>3, LenProperties
    <3> HIDE DEF new
    <3>2. Last(new) = r
      BY <2>3, <3>1 DEF Last
    <3>3. new # <<>>
      BY <2>3, <3>1
    <3> QED
      BY <2>2, <3>2, <3>3 DEF Limit
  <2> HIDE DEF new, n, lim
  <2>6. \A p \in Nat : Covered(new, p) <=> Covered(out, p) \/ (b <= p /\ p < last)
    <3>1. \A p \in Nat : Covers(r, p) <=> b <= p /\ p < last
      BY <2>2 DEF Covers
    <3>2. n + 1 \in 1 .. n + 1 /\ \A k \in 1 .. n : k \in 1 .. n + 1
      BY <2>3
    <3>3. \A k \in 1 .. n + 1 : k = n + 1 \/ k \in 1 .. n
      BY <2>3
    <3> QED
      BY <2>3, <3>1, <3>2, <3>3 DEF Covered
  <2>7. Apart(new)
    <3>1. \A k \in 1 .. n + 1 : k = n + 1 \/ k \in 1 .. n
      BY <2>3
    <3>2. ASSUME NEW k \in DOMAIN new PROVE MinPage <= FirstOf(new[k])
      <4>1. CASE k = n + 1
        BY <2>2, <2>3, <2>4, <4>1
      <4>2. CASE k \in 1 .. n
        BY <2>3, <4>2 DEF Apart
      <4> QED
        BY <2>3, <3>1, <4>1, <4>2
    <3>3. ASSUME NEW k \in DOMAIN new, NEW l \in DOMAIN new, k < l
          PROVE  Past(new[k]) <= FirstOf(new[l])
      <4>1. k \in 1 .. n
        BY <2>3, <3>3
      <4>2. CASE l = n + 1
        <5>1. Past(out[k]) <= lim /\ new[k] = out[k] /\ new[l] = r
          BY <1>4, <2>3, <4>1, <4>2
        <5>2. Past(out[k]) \in Nat
          BY <2>3, <4>1, RunAt, ElementOfSeq
        <5> QED
          BY <1>4, <2>2, <2>4, <5>1, <5>2
      <4>3. CASE l \in 1 .. n
        BY <2>3, <3>3, <4>1, <4>3 DEF Apart
      <4> QED
        BY <2>3, <3>1, <4>2, <4>3
    <3> QED
      BY <2>3, <3>2, <3>3 DEF Apart
  <2>8. \A p \in Nat : e.base <= Addr(p) /\ MinPage <= p /\ p < last => Covered(new, p)
    <3> SUFFICES ASSUME NEW p \in Nat, e.base <= Addr(p), MinPage <= p, p < last
                 PROVE  Covered(new, p)
      OBVIOUS
    <3>1. up <= p
      BY <1>2
    <3>2. b <= p \/ p < lim
      BY <1>4, <2>4, <3>1
    <3> QED
      BY <1>8, <2>6, <3>2
  <2>9. Reaches(new, e.base)
    BY <2>5, <2>8 DEF Reaches
  <2>10. ASSUME NEW p \in Nat
         PROVE  Covered(new, p) <=> Covered(out, p) \/ UsableIn(e, p)
    <3>1. UsableIn(e, p) => Covered(new, p)
      BY <1>2, <1>6, <2>8
    <3>2. b <= p /\ p < last => UsableIn(e, p)
      BY <1>4, <1>6, <1>10, <2>4
    <3> QED
      BY <2>6, <3>1, <3>2
  <2> QED
    BY <2>1, <2>7, <2>9, <2>10
<1> QED
  BY <1>9, <1>10

\* What construct_mmap_dyn leaves has the pages of the available entries.
LEMMA DynIs ==
  ASSUME NEW entries \in Seq(Entry)
  PROVE  LET out == ConstructMmapDyn(entries)
         IN /\ Apart(out)
            /\ \A p \in Nat :
                 Covered(out, p) <=> \E j \in DOMAIN entries : UsableIn(entries[j], p)
<1> DEFINE n == Len(entries)
           a == Sort(entries)
           P(s) == [i \in 0 .. n |-> IF i = 0 THEN <<>> ELSE Cut(s[i - 1], a[i])]
           r == CHOOSE s : s = P(s)
           D == Seq([base : Nat, len : Nat])
<1>1. n \in Nat /\ entries \in Arrays(n) /\ DOMAIN entries = 1 .. n
  BY LenProperties DEF Arrays
<1>2. a \in Arrays(n) /\ Shuffled(entries, a, n)
      /\ \A i, j \in 0 .. n - 1 : i <= j => Base(a, i) <= Base(a, j)
  BY <1>1, SortOK
<1> HIDE DEF a
<1>3. Len(a) = n /\ \A i \in 1 .. n : a[i] \in Entry
  BY <1>1, <1>2 DEF Arrays
<1>4. ConstructMmapDyn(entries) = r[n]
  BY <1>3 DEF ConstructMmapDyn, a
<1> HIDE DEF n, P
<1>5. \A i, j \in 1 .. n : i <= j => a[i].base <= a[j].base
  <2> SUFFICES ASSUME NEW i \in 1 .. n, NEW j \in 1 .. n, i <= j PROVE a[i].base <= a[j].base
    OBVIOUS
  <2>1. i - 1 \in 0 .. n - 1 /\ j - 1 \in 0 .. n - 1 /\ i - 1 <= j - 1
        /\ (i - 1) + 1 = i /\ (j - 1) + 1 = j
    BY <1>1
  <2>2. Base(a, i - 1) <= Base(a, j - 1)
    BY <1>2, <2>1
  <2> QED
    BY <2>1, <2>2 DEF Base
<1>6. r = P(r)
  <2> DEFINE h == [out \in D |-> [i \in 1 .. n |-> Cut(out, a[i])]]
  <2>1. \A out \in D : \A i \in 1 .. n : h[out][i] = Cut(out, a[i]) /\ h[out][i] \in D
    <3> SUFFICES ASSUME NEW out \in D, NEW i \in 1 .. n PROVE Cut(out, a[i]) \in D
      OBVIOUS
    <3> DEFINE e == a[i]
               end == RoundDown(e.base + e.len)
               start == Start(out, e.base)
    <3>1. e \in Entry /\ out \in Seq([base : Nat, len : Nat])
      BY <1>3
    <3> HIDE DEF e
    <3>2. e.base \in Nat /\ e.base + e.len \in Nat
      BY <3>1 DEF Entry
    <3>3. end \in Nat /\ RoundUp(e.base) \in Nat
      <4>1. \A q \in Nat : Addr(q) \in Nat
        BY Addresses
      <4>2. PICK q \in Nat : end = Addr(q)
        BY <3>2, RoundDownPage
      <4>3. PICK p \in Nat : RoundUp(e.base) = Addr(p)
        BY <3>2, RoundUpPage
      <4> QED
        BY <4>1, <4>2, <4>3
    <3>4. start \in Nat
      <4>1. out # <<>> => Last(out) \in [base : Nat, len : Nat]
        <5>1. Len(out) \in Nat /\ DOMAIN out = 1 .. Len(out) /\ (out # <<>> => Len(out) # 0)
          BY <3>1, LenProperties, EmptySeq
        <5>2. out # <<>> => Len(out) \in 1 .. Len(out)
          BY <5>1
        <5> QED
          BY <3>1, <5>1, <5>2, ElementOfSeq DEF Last
      <4>2. Minimum \in Nat
        BY MinPageAt
      <4> QED
        BY <3>3, <4>1, <4>2 DEF Start
    <3> HIDE DEF start, end
    <3>5. ~(start >= end) => [base |-> start, len |-> end - start] \in [base : Nat, len : Nat]
      BY <3>3, <3>4
    <3>6. ~(start >= end) =>
            Append(out, [base |-> start, len |-> end - start]) \in Seq([base : Nat, len : Nat])
      BY <3>1, <3>5, AppendProperties
    <3>7. Cut(out, e) = IF ~e.available \/ start >= end THEN out
                        ELSE Append(out, [base |-> start, len |-> end - start])
      BY DEF Cut, start, end
    <3>8. Cut(out, e) \in Seq([base : Nat, len : Nat])
      BY <3>1, <3>6, <3>7
    <3> QED
      BY <3>8 DEF e
  <2>2. <<>> \in D
    BY EmptySeq
  <2> HIDE DEF h, D
  <2>3. PICK u \in [0 .. n -> D] : Runs(u, n, <<>>, h)
    <3> DEFINE d == <<>>
    <3>1. d \in D
      BY <2>2
    <3> HIDE DEF d
    <3>2. \E u \in [0 .. n -> D] : Runs(u, n, d, h)
      BY <1>1, <2>1, <3>1, RunExists
    <3> QED
      BY <3>2 DEF d
  <2>4. ASSUME NEW i \in 0 .. n, i # 0 PROVE u[i] = Cut(u[i - 1], a[i])
    <3>1. i \in 1 .. n /\ i - 1 \in 0 .. n
      BY <1>1, <2>4
    <3> QED
      BY <2>1, <2>3, <3>1 DEF Runs
  <2>5. u = P(u)
    BY <2>3, <2>4 DEF P, Runs
  <2> QED
    BY <2>5
<1> HIDE DEF r, D
<1>7. r[0] = <<>> /\ \A i \in 1 .. n : r[i] = Cut(r[i - 1], a[i])
  BY <1>1, <1>6 DEF P
<1> DEFINE at(i) == IF i = 0 THEN 0 ELSE a[i].base
           T == {i \in 0 .. n : /\ Apart(r[i]) /\ Reaches(r[i], at(i))
                                /\ \A p \in Nat : Covered(r[i], p) <=>
                                     \E j \in 1 .. i : UsableIn(a[j], p)}
<1>8. \A i \in 0 .. n : at(i) \in Nat /\ (i # 0 => at(i - 1) <= at(i) /\ at(i) = a[i].base)
  <2> SUFFICES ASSUME NEW i \in 0 .. n
               PROVE  at(i) \in Nat /\ (i # 0 => at(i - 1) <= at(i) /\ at(i) = a[i].base)
    OBVIOUS
  <2>1. \A j \in 1 .. n : a[j].base \in Nat
    BY <1>3 DEF Entry
  <2>2. i # 0 => i \in 1 .. n /\ i - 1 \in 0 .. n /\ (i - 1 # 0 => i - 1 \in 1 .. n /\ i - 1 <= i)
    BY <1>1
  <2>3. i # 0 /\ i - 1 # 0 => a[i - 1].base <= a[i].base
    BY <1>5, <2>2
  <2> QED
    BY <2>1, <2>2, <2>3
<1>9. \A i \in 0 .. n : i \in T
  <2>1. 0 \in T
    <3>1. Apart(<<>>) /\ Limit(<<>>) = MinPage /\ \A p \in Nat : ~Covered(<<>>, p)
      BY DEF Apart, Limit, Covered
    <3>2. Reaches(<<>>, 0)
      BY <3>1, MinPageAt DEF Reaches
    <3>3. \A p \in Nat : Covered(<<>>, p) <=> \E j \in 1 .. 0 : UsableIn(a[j], p)
      BY <3>1
    <3> QED
      BY <1>1, <1>7, <3>1, <3>2, <3>3
  <2>2. ASSUME NEW i \in 1 .. n, i - 1 \in T PROVE i \in T
    <3> DEFINE out == r[i - 1]
               e == a[i]
               x == at(i - 1)
    <3>1. Apart(out) /\ Reaches(out, x) /\ e \in Entry
          /\ \A p \in Nat : Covered(out, p) <=> \E j \in 1 .. i - 1 : UsableIn(a[j], p)
      BY <1>3, <2>2
    <3>2. x \in Nat /\ x <= e.base /\ at(i) = e.base /\ i \in 0 .. n
      BY <1>1, <1>8, <2>2
    <3>3. r[i] = Cut(out, e)
      BY <1>7
    <3> HIDE DEF out, x, e, at
    <3>4. /\ Apart(r[i]) /\ Reaches(r[i], at(i))
          /\ \A p \in Nat : Covered(r[i], p) <=> Covered(out, p) \/ UsableIn(e, p)
      BY <3>1, <3>2, <3>3, CutStep
    <3>5. \A j \in 1 .. i : j = i \/ j \in 1 .. i - 1
      OBVIOUS
    <3>6. \A j \in 1 .. i - 1 : j \in 1 .. i
      OBVIOUS
    <3>7. \A p \in Nat : Covered(r[i], p) <=> \E j \in 1 .. i : UsableIn(a[j], p)
      BY <3>1, <3>4, <3>5, <3>6 DEF e
    <3> QED
      BY <3>2, <3>4, <3>7
  <2> HIDE DEF T
  <2> QED
    BY <1>1, <2>1, <2>2, Induct
<1>10. n \in T
  BY <1>1, <1>9
<1>11. \A p \in Nat : (\E j \in 1 .. n : UsableIn(a[j], p)) <=>
                      \E j \in 1 .. n : UsableIn(entries[j], p)
  <2>1. \A i \in 1 .. n : \E j \in 1 .. n : a[i] = entries[j]
    <3> SUFFICES ASSUME NEW i \in 1 .. n PROVE \E j \in 1 .. n : a[i] = entries[j]
      OBVIOUS
    <3>1. i - 1 \in 0 .. n - 1 /\ (i - 1) + 1 = i
      BY <1>1
    <3>2. PICK j \in 0 .. n - 1 : a[(i - 1) + 1] = entries[j + 1]
      BY <1>2, <3>1 DEF Shuffled, Moved
    <3> QED
      BY <1>1, <3>1, <3>2
  <2>2. \A i \in 1 .. n : \E j \in 1 .. n : entries[i] = a[j]
    <3> SUFFICES ASSUME NEW i \in 1 .. n PROVE \E j \in 1 .. n : entries[i] = a[j]
      OBVIOUS
    <3>1. i - 1 \in 0 .. n - 1 /\ (i - 1) + 1 = i
      BY <1>1
    <3>2. PICK j \in 0 .. n - 1 : entries[(i - 1) + 1] = a[j + 1]
      BY <1>2, <3>1 DEF Shuffled, Moved
    <3> QED
      BY <1>1, <3>1, <3>2
  <2> QED
    BY <2>1, <2>2
<1> QED
  BY <1>1, <1>4, <1>10, <1>11

-----------------------------------------------------------------------------
(* The virtual area *)

LEMMA DynAt ==
  ASSUME Apart(dyn)
  PROVE  /\ Len(dyn) \in Nat /\ DOMAIN dyn = 1 .. Len(dyn)
         /\ \A k \in 1 .. Len(dyn) : dyn[k] \in PageRun
BY LenProperties, ElementOfSeq DEF Apart

LEMMA Sums ==
  ASSUME Apart(dyn)
  PROVE  /\ Sum(0) = 0
         /\ \A k \in 0 .. Len(dyn) : Sum(k) \in Nat
         /\ \A k \in 1 .. Len(dyn) : Sum(k) = Sum(k - 1) + Count(dyn[k])
<1> DEFINE n == Len(dyn)
           P(s) == [k \in 0 .. n |-> IF k = 0 THEN 0 ELSE s[k - 1] + dyn[k].len]
           r == CHOOSE s : s = P(s)
           h == [x \in Nat |-> [k \in 1 .. n |-> x + dyn[k].len]]
<1>1. n \in Nat /\ \A k \in 1 .. n : dyn[k] \in PageRun
  BY DynAt
<1>2. \A k : Sum(k) = r[k] \div PageSize
  BY DEF Sum
<1> HIDE DEF n, P
<1>3. \A x \in Nat : \A k \in 1 .. n : h[x][k] = x + dyn[k].len /\ h[x][k] \in Nat
  <2>1. \A k \in 1 .. n : dyn[k].len \in Nat
    BY <1>1, RunAt
  <2> QED
    BY <2>1
<1> HIDE DEF h
<1>4. PICK u \in [0 .. n -> Nat] : Runs(u, n, 0, h)
  BY <1>1, <1>3, RunExists
<1>5. u = P(u)
  <2>1. ASSUME NEW k \in 0 .. n, k # 0 PROVE u[k] = u[k - 1] + dyn[k].len
    <3>1. k \in 1 .. n /\ k - 1 \in 0 .. n /\ u[k - 1] \in Nat
      BY <1>1, <2>1
    <3> QED
      BY <1>3, <1>4, <3>1 DEF Runs
  <2> QED
    BY <1>4, <2>1 DEF P, Runs
<1>6. r = P(r)
  BY <1>5
<1> HIDE DEF r
<1>7. r[0] = 0 /\ \A k \in 1 .. n : r[k] = r[k - 1] + dyn[k].len
  BY <1>1, <1>6 DEF P
<1> DEFINE T == {k \in 0 .. n : \E q \in Nat : r[k] = Addr(q)}
<1>8. \A k \in 0 .. n : k \in T
  <2>1. 0 \in T
    <3>1. Addr(0) = 0
      BY Addresses DEF Addr
    <3> QED
      BY <1>1, <1>7, <3>1
  <2>2. ASSUME NEW k \in 1 .. n, k - 1 \in T PROVE k \in T
    <3>1. PICK q \in Nat : r[k - 1] = Addr(q)
      BY <2>2
    <3> DEFINE l == Count(dyn[k])
    <3>2. dyn[k].len = Addr(l) /\ l \in Nat
      BY <1>1, RunAt
    <3> HIDE DEF l
    <3>3. Addr(q + l) = Addr(q) + Addr(l) /\ q + l \in Nat
      BY <3>2, Addresses
    <3>4. r[k] = Addr(q + l)
      BY <1>7, <3>1, <3>2, <3>3
    <3> QED
      BY <1>1, <3>3, <3>4
  <2> HIDE DEF T
  <2> QED
    BY <1>1, <2>1, <2>2, Induct
<1>9. ASSUME NEW k \in 0 .. n PROVE Sum(k) \in Nat /\ r[k] = Addr(Sum(k))
  <2>1. PICK q \in Nat : r[k] = Addr(q)
    BY <1>8
  <2> QED
    BY <1>2, <2>1, Addresses
<1>10. ASSUME NEW k \in 1 .. n PROVE Sum(k) = Sum(k - 1) + Count(dyn[k])
  <2> DEFINE q == Sum(k - 1)
             l == Count(dyn[k])
  <2>1. k - 1 \in 0 .. n /\ k \in 0 .. n
    BY <1>1
  <2>2. q \in Nat /\ r[k - 1] = Addr(q) /\ dyn[k].len = Addr(l) /\ l \in Nat
    BY <1>1, <1>9, <2>1, RunAt
  <2> HIDE DEF q, l
  <2>3. r[k] = Addr(q + l) /\ q + l \in Nat
    <3>1. Addr(q + l) = Addr(q) + Addr(l) /\ q + l \in Nat
      BY <2>2, Addresses
    <3> QED
      BY <1>7, <2>2, <3>1
  <2>4. Sum(k) = q + l
    BY <1>2, <2>3, Addresses
  <2> QED
    BY <2>4 DEF q, l
<1>11. Sum(0) = 0
  <2>1. 0 \in Nat /\ Addr(0) = 0
    BY Addresses DEF Addr
  <2>2. Addr(0) \div PageSize = 0
    BY <2>1, Addresses
  <2> QED
    BY <1>2, <1>7, <2>1, <2>2
<1> QED
  BY <1>9, <1>10, <1>11 DEF n

LEMMA SumOrder ==
  ASSUME Apart(dyn), NEW k \in 0 .. Len(dyn), NEW l \in 0 .. Len(dyn), k <= l
  PROVE  Sum(k) <= Sum(l)
<1> DEFINE n == Len(dyn)
           m == n - k
           T == {i \in 0 .. m : Sum(k) <= Sum(k + i)}
<1>1. n \in Nat /\ k \in 0 .. n /\ l \in 0 .. n /\ m \in Nat
  BY DynAt
<1>2. \A i \in 0 .. m : k + i \in 0 .. n
  BY <1>1
<1>3. 0 \in T
  BY <1>1, Sums
<1>4. ASSUME NEW i \in 1 .. m, i - 1 \in T PROVE i \in T
  <2> DEFINE j == k + i
  <2>1. j \in 1 .. n /\ j - 1 \in 0 .. n /\ j \in 0 .. n /\ j - 1 = k + (i - 1) /\ i \in 0 .. m
    BY <1>1
  <2>2. Sum(j) = Sum(j - 1) + Count(dyn[j]) /\ Sum(j - 1) \in Nat /\ Sum(k) \in Nat
    BY <1>1, <2>1, Sums
  <2>3. Count(dyn[j]) \in Nat
    BY <2>1, DynAt, RunAt
  <2>4. Sum(k) <= Sum(j - 1)
    BY <1>4, <2>1
  <2> HIDE DEF j
  <2>5. Sum(k) <= Sum(j)
    BY <2>2, <2>3, <2>4
  <2> QED
    BY <2>1, <2>5 DEF j
<1> HIDE DEF T
<1>5. \A i \in 0 .. m : i \in T
  BY <1>1, <1>3, <1>4, Induct
<1>6. l - k \in 0 .. m /\ k + (l - k) = l
  BY <1>1
<1> QED
  BY <1>5, <1>6 DEF T

\* Page v of the area is in run k.
InRun(k, v) == k \in DOMAIN dyn /\ v < Sum(k) /\ v >= Sum(k - 1)

LEMMA RunFound ==
  ASSUME Apart(dyn), NEW v \in 0 .. Total - 1
  PROVE  \E k \in DOMAIN dyn : InRun(k, v)
<1> DEFINE n == Len(dyn)
           S == {k \in 0 .. n : v < Sum(k)}
<1>1. n \in Nat /\ DOMAIN dyn = 1 .. n /\ Total = Sum(n) /\ Sum(0) = 0
      /\ \A k \in 0 .. n : Sum(k) \in Nat
  BY DynAt, Sums DEF Total
<1> HIDE DEF n
<1>2. n \in S
  BY <1>1
<1>3. S \subseteq Nat
  OBVIOUS
<1> HIDE DEF S
<1>4. PICK k \in S : \A l \in S : k <= l
  BY <1>2, <1>3, Least
<1>5. k \in 0 .. n /\ v < Sum(k) /\ k # 0
  BY <1>1 DEF S
<1>6. k \in 1 .. n /\ k - 1 \in 0 .. n /\ k - 1 \notin S
  BY <1>1, <1>4, <1>5
<1>7. v >= Sum(k - 1)
  BY <1>1, <1>6 DEF S
<1> QED
  BY <1>1, <1>5, <1>6, <1>7 DEF InRun

LEMMA RunUnique ==
  ASSUME Apart(dyn), NEW v \in Nat, NEW k, NEW l, InRun(k, v), InRun(l, v)
  PROVE  k = l
<1> DEFINE n == Len(dyn)
<1>1. n \in Nat /\ k \in 1 .. n /\ l \in 1 .. n /\ k - 1 \in 0 .. n /\ l - 1 \in 0 .. n
      /\ k \in 0 .. n /\ l \in 0 .. n
  BY DynAt DEF InRun
<1>2. Sum(k) \in Nat /\ Sum(l) \in Nat /\ Sum(k - 1) \in Nat /\ Sum(l - 1) \in Nat
  BY <1>1, Sums
<1>3. ~(k <= l - 1)
  BY <1>1, <1>2, SumOrder DEF InRun
<1>4. ~(l <= k - 1)
  BY <1>1, <1>2, SumOrder DEF InRun
<1> QED
  BY <1>1, <1>3, <1>4

LEMMA VirtToPhysIn ==
  ASSUME Apart(dyn), NEW v \in Nat, NEW k, InRun(k, v)
  PROVE  /\ VirtToPhys(v) = FirstOf(dyn[k]) + (v - Sum(k - 1))
         /\ VirtToPhys(v) \in Nat /\ Covers(dyn[k], VirtToPhys(v))
<1> DEFINE i == CHOOSE l \in DOMAIN dyn : v < Sum(l) /\ v >= Sum(l - 1)
           r == dyn[k]
<1>1. k \in DOMAIN dyn /\ v < Sum(k) /\ v >= Sum(k - 1)
  BY DEF InRun
<1>2. i \in DOMAIN dyn /\ v < Sum(i) /\ v >= Sum(i - 1)
  BY <1>1
<1>3. VirtToPhys(v) = dyn[i].base \div PageSize + (v - Sum(i - 1))
  <2>1. dyn[i].base \div PageSize \in Int /\ Sum(i - 1) \in Nat
    <3>1. i \in 1 .. Len(dyn) /\ i - 1 \in 0 .. Len(dyn)
      BY <1>2, DynAt
    <3>2. dyn[i] \in PageRun
      BY <3>1, DynAt
    <3> HIDE DEF i
    <3>3. FirstOf(dyn[i]) \in Nat
      BY <3>2, RunAt
    <3> QED
      BY <3>1, <3>3, Sums DEF FirstOf
  <2> HIDE DEF i
  <2>2. VirtToPhys(v) = dyn[i].base \div PageSize + v - Sum(i - 1)
    BY DEF VirtToPhys, i
  <2> QED
    BY <2>1, <2>2
<1> HIDE DEF i
<1>4. i = k
  BY <1>2, RunUnique DEF InRun
<1>5. k \in 1 .. Len(dyn) /\ k - 1 \in 0 .. Len(dyn) /\ k \in 0 .. Len(dyn)
  BY <1>1, DynAt
<1>6. Sum(k) = Sum(k - 1) + Count(r) /\ Sum(k - 1) \in Nat /\ r \in PageRun
  BY <1>5, Sums, DynAt
<1> HIDE DEF r
<1>7. FirstOf(r) \in Nat /\ Count(r) \in Nat /\ Past(r) = FirstOf(r) + Count(r)
  BY <1>6, RunAt
<1>8. VirtToPhys(v) = FirstOf(r) + (v - Sum(k - 1))
  BY <1>3, <1>4 DEF FirstOf, r
<1>9. VirtToPhys(v) \in Nat /\ Covers(r, VirtToPhys(v))
  BY <1>1, <1>6, <1>7, <1>8 DEF Covers
<1> QED
  BY <1>8, <1>9 DEF r

\* The pages of the area are those of the runs, in ascending order.
LEMMA AreaIs ==
  ASSUME Apart(dyn)
  PROVE  /\ Total \in Nat
         /\ \A v \in 0 .. Total - 1 : VirtToPhys(v) \in Nat /\ MinPage <= VirtToPhys(v)
                                      /\ Covered(dyn, VirtToPhys(v))
         /\ \A v, w \in 0 .. Total - 1 : v < w => VirtToPhys(v) < VirtToPhys(w)
         /\ \A p \in Nat : Covered(dyn, p) => \E v \in 0 .. Total - 1 : VirtToPhys(v) = p
         /\ \A v \in 0 .. Total - 1 : PhysToVirt(VirtToPhys(v)) = v
<1> DEFINE n == Len(dyn)
<1>1. n \in Nat /\ DOMAIN dyn = 1 .. n /\ Total = Sum(n) /\ Sum(0) = 0
      /\ \A k \in 0 .. n : Sum(k) \in Nat
  BY DynAt, Sums DEF Total
<1>2. Total \in Nat
  BY <1>1
<1> HIDE DEF n
<1>3. \A k \in 1 .. n : /\ dyn[k] \in PageRun /\ k - 1 \in 0 .. n /\ k \in 0 .. n
                        /\ FirstOf(dyn[k]) \in Nat /\ Past(dyn[k]) \in Nat
                        /\ Count(dyn[k]) \in Nat
                        /\ Past(dyn[k]) = FirstOf(dyn[k]) + Count(dyn[k])
                        /\ Sum(k) = Sum(k - 1) + Count(dyn[k])
  <2> SUFFICES ASSUME NEW k \in 1 .. n
               PROVE  /\ dyn[k] \in PageRun /\ k - 1 \in 0 .. n /\ k \in 0 .. n
                      /\ FirstOf(dyn[k]) \in Nat /\ Past(dyn[k]) \in Nat
                      /\ Count(dyn[k]) \in Nat
                      /\ Past(dyn[k]) = FirstOf(dyn[k]) + Count(dyn[k])
                      /\ Sum(k) = Sum(k - 1) + Count(dyn[k])
    OBVIOUS
  <2>1. dyn[k] \in PageRun /\ k - 1 \in 0 .. n /\ k \in 0 .. n
    BY <1>1, DynAt DEF n
  <2>2. Sum(k) = Sum(k - 1) + Count(dyn[k])
    BY Sums DEF n
  <2> QED
    BY <2>1, <2>2, RunAt
<1>4. ASSUME NEW v \in 0 .. Total - 1
      PROVE  VirtToPhys(v) \in Nat /\ MinPage <= VirtToPhys(v) /\ Covered(dyn, VirtToPhys(v))
  <2>1. PICK k \in DOMAIN dyn : InRun(k, v)
    BY RunFound
  <2>2. v \in Nat
    BY <1>2
  <2>3. VirtToPhys(v) \in Nat /\ Covers(dyn[k], VirtToPhys(v))
    BY <2>1, <2>2, VirtToPhysIn
  <2>4. MinPage <= FirstOf(dyn[k]) /\ FirstOf(dyn[k]) \in Nat /\ MinPage \in Nat
    BY <1>1, <1>3, MinPageAt DEF Apart
  <2> QED
    BY <2>3, <2>4 DEF Covers, Covered
<1>5. ASSUME NEW v \in 0 .. Total - 1, NEW w \in 0 .. Total - 1, v < w
      PROVE  VirtToPhys(v) < VirtToPhys(w)
  <2>1. PICK k \in DOMAIN dyn : InRun(k, v)
    BY RunFound
  <2>2. PICK l \in DOMAIN dyn : InRun(l, w)
    BY RunFound
  <2>3. v \in Nat /\ w \in Nat /\ k \in 1 .. n /\ l \in 1 .. n
    BY <1>1, <1>2
  <2>4. VirtToPhys(v) \in Nat /\ Covers(dyn[k], VirtToPhys(v))
        /\ VirtToPhys(v) = FirstOf(dyn[k]) + (v - Sum(k - 1))
    BY <2>1, <2>3, VirtToPhysIn
  <2>5. VirtToPhys(w) \in Nat /\ Covers(dyn[l], VirtToPhys(w))
        /\ VirtToPhys(w) = FirstOf(dyn[l]) + (w - Sum(l - 1))
    BY <2>2, <2>3, VirtToPhysIn
  <2>6. CASE k = l
    <3>1. VirtToPhys(w) = FirstOf(dyn[k]) + (w - Sum(k - 1))
      BY <2>5, <2>6
    <3>2. FirstOf(dyn[k]) \in Nat /\ Sum(k - 1) \in Nat
      BY <1>1, <1>3, <2>3
    <3> HIDE DEF n
    <3> QED
      BY <1>5, <2>3, <2>4, <3>1, <3>2
  <2>7. CASE k < l
    <3>1. Past(dyn[k]) <= FirstOf(dyn[l])
      BY <2>7 DEF Apart
    <3> QED
      BY <1>3, <2>3, <2>4, <2>5, <3>1 DEF Covers
  <2>8. CASE l < k
    <3>1. l <= k - 1 /\ k - 1 \in 0 .. n /\ l \in 0 .. n
      BY <1>3, <2>3, <2>8
    <3>2. Sum(l) <= Sum(k - 1)
      BY <3>1, SumOrder DEF n
    <3> QED
      BY <1>1, <1>5, <2>1, <2>2, <2>3, <3>1, <3>2 DEF InRun
  <2> QED
    BY <2>3, <2>6, <2>7, <2>8
<1>6. ASSUME NEW p \in Nat, Covered(dyn, p) PROVE \E v \in 0 .. Total - 1 : VirtToPhys(v) = p
  <2>1. PICK k \in 1 .. n : FirstOf(dyn[k]) <= p /\ p < Past(dyn[k])
    BY <1>1, <1>6 DEF Covered, Covers
  <2> DEFINE s == Sum(k - 1)
             v == s + (p - FirstOf(dyn[k]))
  <2>2. s \in Nat /\ Sum(k) \in Nat /\ Sum(k) = s + Count(dyn[k])
    BY <1>1, <1>3
  <2>3. v \in Nat /\ s <= v /\ v < Sum(k) /\ v - s = p - FirstOf(dyn[k])
    <3> HIDE DEF s
    <3> QED
      BY <1>3, <2>1, <2>2
  <2>4. n \in 0 .. n /\ k \in 0 .. n /\ k <= n
    BY <1>1
  <2>5. Sum(k) <= Total
    BY <1>1, <2>4, SumOrder DEF n
  <2>6. v \in 0 .. Total - 1
    <3> HIDE DEF v
    <3> QED
      BY <1>2, <2>2, <2>3, <2>5
  <2>7. InRun(k, v)
    BY <1>1, <2>3 DEF InRun
  <2>8. VirtToPhys(v) = FirstOf(dyn[k]) + (v - s)
    <3> HIDE DEF v
    <3> QED
      BY <2>3, <2>7, VirtToPhysIn
  <2>9. VirtToPhys(v) = p
    <3> HIDE DEF v, s
    <3> QED
      BY <1>3, <2>3, <2>8
  <2> QED
    BY <2>6, <2>9
<1>7. ASSUME NEW v \in 0 .. Total - 1 PROVE PhysToVirt(VirtToPhys(v)) = v
  <2> DEFINE p == VirtToPhys(v)
             At0(l) == dyn[l].base <= p * PageSize /\ p * PageSize < dyn[l].base + dyn[l].len
             i == CHOOSE l \in DOMAIN dyn : At0(l)
  <2>1. PICK k \in DOMAIN dyn : InRun(k, v)
    BY RunFound
  <2>2. v \in Nat /\ k \in 1 .. n
    BY <1>1, <1>2
  <2>3. p \in Nat /\ Covers(dyn[k], p) /\ p = FirstOf(dyn[k]) + (v - Sum(k - 1))
    BY <2>1, <2>2, VirtToPhysIn
  <2>4. PhysToVirt(p) = Sum(i - 1) + p - dyn[i].base \div PageSize
    BY DEF PhysToVirt
  <2> HIDE DEF p
  <2>5. \A l \in 1 .. n : At0(l) <=> Covers(dyn[l], p)
    <3> SUFFICES ASSUME NEW l \in 1 .. n PROVE At0(l) <=> Covers(dyn[l], p)
      OBVIOUS
    <3> DEFINE b == FirstOf(dyn[l])
               e == Past(dyn[l])
    <3>1. b \in Nat /\ e \in Nat /\ dyn[l].base = Addr(b) /\ dyn[l].base + dyn[l].len = Addr(e)
      BY <1>3, RunAt
    <3>2. p * PageSize = Addr(p)
      BY <2>3, Addresses
    <3> HIDE DEF b, e
    <3>3. At0(l) <=> b <= p /\ p < e
      BY <2>3, <3>1, <3>2, AddrOrder
    <3> QED
      BY <3>3 DEF b, e, Covers
  <2> HIDE DEF At0
  <2>6. i \in 1 .. n /\ Covers(dyn[i], p)
    BY <1>1, <2>2, <2>3, <2>5
  <2> HIDE DEF i
  <2>7. i = k
    <3>1. i < k => Past(dyn[i]) <= FirstOf(dyn[k])
      BY <1>1, <2>2, <2>6 DEF Apart
    <3>2. k < i => Past(dyn[k]) <= FirstOf(dyn[i])
      BY <1>1, <2>2, <2>6 DEF Apart
    <3> QED
      BY <1>3, <2>2, <2>3, <2>6, <3>1, <3>2 DEF Covers
  <2>8. PhysToVirt(p) = Sum(k - 1) + p - FirstOf(dyn[k])
    BY <2>4, <2>7 DEF FirstOf
  <2>9. FirstOf(dyn[k]) \in Nat /\ Sum(k - 1) \in Nat
    BY <1>1, <1>3, <2>2
  <2>10. PhysToVirt(p) = v
    BY <2>2, <2>3, <2>8, <2>9
  <2> QED
    BY <2>10 DEF p
<1> QED
  BY <1>2, <1>4, <1>5, <1>6, <1>7

-----------------------------------------------------------------------------
(* The factory, whatever its memory holds *)

\* The factory but for its memory.
Reasons == {"no", "page_fault", "out_of_bound"}
Factories(m) == [next : Nat, tables : [1 .. 3 -> Nat], indices : [0 .. 3 -> 0 .. Len4],
                 metapages : Nat, first3 : Seq(Nat), mem : {m}, stopped : Reasons]
Typed(s) == s \in Factories(s.mem)

\* What Begin and Finish make of the factory.
Halted(s, why) == [s EXCEPT !.stopped = why]
Opened(s, l, page) == [s EXCEPT !.mem = SetTable(@, page, Filled(Nil)),
                                !.tables[l] = s.next, !.indices[l] = 0,
                                !.next = @ + 1, !.metapages = @ + 1]
Entered(s, l, to, addr) == [s EXCEPT !.mem = Put(@, to, s.indices[l], addr), !.indices[l] = @ + 1]

With(x, l, v) == [x EXCEPT ![l] = v]

LEMMA WithAt ==
  ASSUME NEW D, NEW R, NEW x \in [D -> R], NEW l \in D, NEW v \in R
  PROVE  With(x, l, v) \in [D -> R] /\ \A j \in D : With(x, l, v)[j] = IF j = l THEN v ELSE x[j]
BY DEF With

LEMMA IndexAt ==
  ASSUME NEW a \in [0 .. 3 -> 0 .. Len4], NEW i \in 0 .. 3, NEW v \in 0 .. Len4
  PROVE  /\ With(a, i, v) \in [0 .. 3 -> 0 .. Len4]
         /\ \A k \in 0 .. 3 : With(a, i, v)[k] = IF k = i THEN v ELSE a[k]
BY DEF With

LEMMA Len4Is == Len4 \in Nat /\ Len4 >= 5 /\ Len4 \div 2 \in Nat /\ Len4 \div 2 < Len4
                /\ Len4 \div 2 >= 2
BY LayoutAssumption

LEMMA TypedIs ==
  ASSUME NEW s, Typed(s)
  PROVE  /\ s.next \in Nat /\ s.metapages \in Nat /\ s.stopped \in Reasons
         /\ s.first3 \in Seq(Nat) /\ s.tables \in [1 .. 3 -> Nat]
         /\ s.indices \in [0 .. 3 -> 0 .. Len4]
         /\ \A l \in 0 .. 3 : s.indices[l] \in 0 .. Len4 /\ s.indices[l] \in Nat
<1>1. /\ s.next \in Nat /\ s.metapages \in Nat /\ s.stopped \in Reasons
      /\ s.first3 \in Seq(Nat) /\ s.tables \in [1 .. 3 -> Nat]
      /\ s.indices \in [0 .. 3 -> 0 .. Len4]
  BY DEF Typed, Factories
<1>2. \A i \in 0 .. Len4 : i \in Nat
  BY Len4Is
<1> QED
  BY <1>1, <1>2

LEMMA HaltedIs ==
  ASSUME NEW s, Typed(s), NEW why \in Reasons
  PROVE  LET t == Halted(s, why)
         IN /\ Typed(t) /\ t.stopped = why /\ t.next = s.next /\ t.tables = s.tables
            /\ t.indices = s.indices /\ t.metapages = s.metapages
            /\ t.first3 = s.first3 /\ t.mem = s.mem
BY DEF Halted, Typed, Factories

LEMMA OpenedIs ==
  ASSUME NEW s, Typed(s), NEW l \in 1 .. 3, NEW page
  PROVE  LET t == Opened(s, l, page)
         IN /\ Typed(t) /\ t.stopped = s.stopped /\ t.next = s.next + 1
            /\ t.tables = With(s.tables, l, s.next)
            /\ t.indices = With(s.indices, l, 0) /\ t.metapages = s.metapages + 1
            /\ t.first3 = s.first3 /\ t.mem = SetTable(s.mem, page, Filled(Nil))
<1> DEFINE t == Opened(s, l, page)
<1>1. /\ t.stopped = s.stopped /\ t.next = s.next + 1
      /\ t.tables = With(s.tables, l, s.next)
      /\ t.indices = With(s.indices, l, 0) /\ t.metapages = s.metapages + 1
      /\ t.first3 = s.first3 /\ t.mem = SetTable(s.mem, page, Filled(Nil))
  BY DEF Opened, Typed, Factories, With
<1>2. With(s.tables, l, s.next) \in [1 .. 3 -> Nat]
      /\ With(s.indices, l, 0) \in [0 .. 3 -> 0 .. Len4]
      /\ s.next + 1 \in Nat /\ s.metapages + 1 \in Nat
  <2> DEFINE x == s.indices
             y == s.tables
             z == s.next
  <2>1. x \in [0 .. 3 -> 0 .. Len4] /\ y \in [1 .. 3 -> Nat] /\ z \in Nat
        /\ z + 1 \in Nat /\ s.metapages + 1 \in Nat /\ l \in 1 .. 3 /\ 0 \in 0 .. Len4
    BY Len4Is, TypedIs
  <2> HIDE DEF x, y, z
  <2>2. With(y, l, z) \in [1 .. 3 -> Nat]
    BY <2>1, WithAt
  <2>3. With(x, l, 0) \in [0 .. 3 -> 0 .. Len4]
    BY <2>1, WithAt
  <2> QED
    BY <2>1, <2>2, <2>3 DEF x, y, z
<1>3. t \in [next : {t.next}, tables : {t.tables}, indices : {t.indices},
             metapages : {t.metapages}, first3 : {t.first3}, mem : {t.mem}, stopped : {t.stopped}]
  BY DEF Opened, Typed, Factories, With
<1> HIDE DEF t
<1>4. Typed(t)
  BY <1>1, <1>2, <1>3 DEF Typed, Factories
<1> QED
  BY <1>1, <1>4 DEF t

LEMMA EnteredIs ==
  ASSUME NEW s, Typed(s), NEW l \in 0 .. 3, s.indices[l] < Len4, NEW to, NEW addr
  PROVE  LET t == Entered(s, l, to, addr)
         IN /\ Typed(t) /\ t.stopped = s.stopped /\ t.next = s.next
            /\ t.tables = s.tables
            /\ t.indices = With(s.indices, l, s.indices[l] + 1)
            /\ t.metapages = s.metapages
            /\ t.first3 = s.first3 /\ t.mem = Put(s.mem, to, s.indices[l], addr)
<1> DEFINE t == Entered(s, l, to, addr)
<1>1. /\ t.stopped = s.stopped /\ t.next = s.next /\ t.tables = s.tables
      /\ t.indices = With(s.indices, l, s.indices[l] + 1)
      /\ t.metapages = s.metapages
      /\ t.first3 = s.first3 /\ t.mem = Put(s.mem, to, s.indices[l], addr)
  BY DEF Entered, Typed, Factories, With
<1>2. With(s.indices, l, s.indices[l] + 1) \in [0 .. 3 -> 0 .. Len4]
  <2>1. s.indices[l] + 1 \in 0 .. Len4
    BY Len4Is, TypedIs
  <2> DEFINE x == s.indices
             z == x[l] + 1
  <2>2. x \in [0 .. 3 -> 0 .. Len4] /\ z \in 0 .. Len4
    BY <2>1, TypedIs
  <2> HIDE DEF x, z
  <2>3. With(x, l, z) \in [0 .. 3 -> 0 .. Len4]
    BY <2>2, WithAt
  <2> QED
    BY <2>3 DEF x, z
<1>3. t \in [next : {t.next}, tables : {t.tables}, indices : {t.indices},
             metapages : {t.metapages}, first3 : {t.first3}, mem : {t.mem}, stopped : {t.stopped}]
  BY DEF Entered, Typed, Factories, With
<1>4. s.next \in Nat /\ s.tables \in [1 .. 3 -> Nat] /\ s.metapages \in Nat
      /\ s.first3 \in Seq(Nat) /\ s.stopped \in Reasons
  BY DEF Typed, Factories
<1> HIDE DEF t
<1>5. Typed(t)
  BY <1>1, <1>2, <1>3, <1>4 DEF Typed, Factories
<1> QED
  BY <1>1, <1>5 DEF t

LEMMA BeginIs ==
  ASSUME NEW s, NEW l \in 0 .. 3
  PROVE  LET page == Walk(s.mem, Indices(s.next))
             t == Begin(s, l)
         IN \/ l = 0 /\ s.indices[0] >= Len4 \div 2 /\ t = Halted(s, "out_of_bound")
            \/ /\ l = 0 => ~(s.indices[0] >= Len4 \div 2)
               /\ \/ ~Full(s, l) /\ t = s
                  \/ Full(s, l) /\ page \in {Nil, Junk} /\ t = Halted(s, "page_fault")
                  \/ Full(s, l) /\ page \notin {Nil, Junk} /\ t = Opened(s, l, page)
BY DEF Begin, Halted, Opened

LEMMA FinishIs ==
  ASSUME NEW s, NEW l \in 0 .. 3, NEW addr
  PROVE  LET to == TablePage(s, l)
             t == Finish(s, l, addr)
         IN \/ ~Going(s) /\ t = s
            \/ Going(s) /\ to \in {Nil, Junk} /\ t = Halted(s, "page_fault")
            \/ Going(s) /\ to \notin {Nil, Junk} /\ t = Entered(s, l, to, addr)
BY DEF Finish, Halted, Entered

\* The state in which a table is written to, and the call that writes it.
Middle1(s) == IF Full(s, 1) /\ Going(Begin(s, 1))
              THEN NextRecur0(Begin(s, 1), VirtToPhys(s.next) % Wrap) ELSE Begin(s, 1)
Middle2(s) == IF Full(s, 2) /\ Going(Begin(s, 2))
              THEN NextRecur1(Begin(s, 2), VirtToPhys(s.next) % Wrap) ELSE Begin(s, 2)
Middle3(s) == IF Full(s, 3) /\ Going(Begin(s, 3))
              THEN NextRecur2(Begin(s, 3), VirtToPhys(s.next) % Wrap) ELSE Begin(s, 3)

LEMMA Calls ==
  ASSUME NEW s, NEW addr
  PROVE  /\ NextRecur1(s, addr) = Finish(Middle1(s), 1, addr)
         /\ NextRecur2(s, addr) = Finish(Middle2(s), 2, addr)
         /\ NextRecur(s, addr) = Finish(Middle3(s), 3, addr)
BY DEF NextRecur1, NextRecur2, NextRecur, Recur, Middle1, Middle2, Middle3

\* Every page table costs four, every entry of a table that is open one.
Cost(s) == 4 * s.metapages + s.indices[1] + s.indices[2] + s.indices[3]

\* What a call for level l leaves: no more than one entry more, none above.
Grown(s, t, l, p) ==
  /\ Typed(t) /\ t.first3 = s.first3
  /\ Cost(t) <= Cost(s) + 1 /\ t.metapages <= p + 1 /\ s.metapages <= t.metapages
  /\ \A j \in 1 .. 3 : j > l => t.indices[j] = s.indices[j]

LEMMA CostNat ==
  ASSUME NEW s, Typed(s)
  PROVE  Cost(s) \in Nat
<1>1. s.indices[1] \in Nat /\ s.indices[2] \in Nat /\ s.indices[3] \in Nat /\ s.metapages \in Nat
  BY TypedIs
<1> QED
  BY <1>1 DEF Cost

LEMMA Grown0 ==
  ASSUME NEW s, Typed(s), NEW p \in Nat, s.metapages <= p + 1, NEW addr
  PROVE  Grown(s, NextRecur0(s, addr), 0, p)
<1> DEFINE b == Begin(s, 0)
           t == Finish(b, 0, addr)
<1>1. NextRecur0(s, addr) = t
  BY DEF NextRecur0
<1>2. ~Full(s, 0) \/ s.indices[0] >= Len4 \div 2
  BY Len4Is, TypedIs DEF Full
<1>3. (b = s /\ s.indices[0] < Len4) \/ b = Halted(s, "out_of_bound")
  <2> HIDE DEF b
  <2> QED
    BY <1>2, BeginIs, Len4Is, TypedIs DEF b, Full
<1>4. Typed(b) /\ b.indices = s.indices /\ b.metapages = s.metapages /\ b.first3 = s.first3
      /\ (Going(b) => b.indices[0] < Len4)
  BY <1>3, HaltedIs DEF Going, Reasons
<1> HIDE DEF b
<1>5. PICK i \in 0 .. Len4 : /\ Typed(t) /\ t.indices = With(s.indices, 0, i)
                             /\ t.metapages = s.metapages /\ t.first3 = s.first3
  <2>1. s.indices = With(s.indices, 0, s.indices[0]) /\ s.indices[0] \in 0 .. Len4
    <3> DEFINE x == s.indices
    <3>1. x \in [0 .. 3 -> 0 .. Len4] /\ 0 \in 0 .. 3
      BY TypedIs
    <3> HIDE DEF x
    <3>2. x = With(x, 0, x[0]) /\ x[0] \in 0 .. Len4
      BY <3>1 DEF With
    <3> QED
      BY <3>2 DEF x
  <2>2. CASE t = b
    BY <1>4, <2>1, <2>2
  <2>3. CASE t = Halted(b, "page_fault")
    BY <1>4, <2>1, <2>3, HaltedIs DEF Reasons
  <2>4. CASE Going(b) /\ t = Entered(b, 0, TablePage(b, 0), addr)
    <3>1. s.indices[0] + 1 \in 0 .. Len4
      BY <1>4, <2>4, Len4Is, TypedIs
    <3>2. b.indices[0] < Len4 /\ Typed(b)
      BY <1>4, <2>4
    <3>3. /\ Typed(t) /\ t.indices = With(b.indices, 0, b.indices[0] + 1)
          /\ t.metapages = b.metapages /\ t.first3 = b.first3
      <4> DEFINE to == TablePage(b, 0)
                 e == Entered(b, 0, to, addr)
      <4>1. t = e
        BY <2>4
      <4> HIDE DEF to, t
      <4>3. /\ Typed(e) /\ e.indices = With(b.indices, 0, b.indices[0] + 1)
            /\ e.metapages = b.metapages /\ e.first3 = b.first3
        BY <3>2, EnteredIs
      <4> QED
        BY <4>1, <4>3
    <3> HIDE DEF t
    <3> QED
      BY <1>4, <3>1, <3>3
  <2> QED
    BY <2>2, <2>3, <2>4, FinishIs
<1> HIDE DEF t
<1>6. \A j \in 1 .. 3 : t.indices[j] = s.indices[j]
  <2> DEFINE x == s.indices
  <2>1. x \in [0 .. 3 -> 0 .. Len4] /\ 0 \in 0 .. 3 /\ \A j \in 1 .. 3 : j \in 0 .. 3 /\ j # 0
    BY TypedIs
  <2> HIDE DEF x
  <2>2. \A j \in 0 .. 3 : With(x, 0, i)[j] = IF j = 0 THEN i ELSE x[j]
    BY <2>1, IndexAt
  <2>3. \A j \in 1 .. 3 : With(x, 0, i)[j] = x[j]
    BY <2>1, <2>2
  <2> QED
    BY <1>5, <2>3 DEF x
<1>7. Cost(t) = Cost(s) /\ Cost(s) \in Nat
  <2>1. t.indices[1] = s.indices[1] /\ t.indices[2] = s.indices[2] /\ t.indices[3] = s.indices[3]
    BY <1>6
  <2> QED
    BY <1>5, <2>1, CostNat DEF Cost
<1>8. s.metapages <= t.metapages
  <2>1. s.metapages \in Nat
    BY TypedIs
  <2> QED
    BY <1>5, <2>1
<1> QED
  BY <1>1, <1>5, <1>6, <1>7, <1>8 DEF Grown

\* A table that is full costs more than the entries it had allow.
LEMMA OpenCost ==
  ASSUME NEW s, Typed(s), NEW l \in 1 .. 3, Full(s, l), NEW page,
         NEW p \in Nat, p >= 3, Cost(s) <= p + 15, s.metapages <= p + 1
  PROVE  LET t == Opened(s, l, page)
         IN /\ Typed(t) /\ t.first3 = s.first3 /\ s.metapages <= t.metapages
            /\ Cost(t) + 1 <= Cost(s) /\ t.metapages <= p + 1
            /\ t.indices[l] = 0
            /\ \A j \in 1 .. 3 : j # l => t.indices[j] = s.indices[j]
<1> DEFINE t == Opened(s, l, page)
<1>1. Typed(t) /\ t.first3 = s.first3 /\ t.metapages = s.metapages + 1
      /\ t.indices = With(s.indices, l, 0)
  BY OpenedIs
<1> HIDE DEF t
<1>2. \A j \in 1 .. 3 : t.indices[j] = IF j = l THEN 0 ELSE s.indices[j]
  <2> DEFINE x == s.indices
  <2>1. x \in [0 .. 3 -> 0 .. Len4] /\ l \in 0 .. 3 /\ 0 \in 0 .. Len4
        /\ \A j \in 1 .. 3 : j \in 0 .. 3
    BY TypedIs, Len4Is
  <2> HIDE DEF x
  <2>2. \A j \in 0 .. 3 : With(x, l, 0)[j] = IF j = l THEN 0 ELSE x[j]
    BY <2>1 DEF With
  <2> QED
    BY <1>1, <2>1, <2>2 DEF x
<1>3. /\ s.indices[1] \in Nat /\ s.indices[2] \in Nat /\ s.indices[3] \in Nat
      /\ s.metapages \in Nat /\ s.indices[l] >= 5
  BY TypedIs, Len4Is DEF Full
<1>4. Cost(t) + 1 <= Cost(s) /\ t.metapages <= p + 1
  <2>1. CASE l = 1
    BY <1>1, <1>2, <1>3, <2>1 DEF Cost
  <2>2. CASE l = 2
    BY <1>1, <1>2, <1>3, <2>2 DEF Cost
  <2>3. CASE l = 3
    BY <1>1, <1>2, <1>3, <2>3 DEF Cost
  <2> QED
    BY <2>1, <2>2, <2>3
<1>5. s.metapages <= t.metapages
  BY <1>1, <1>3
<1> QED
  BY <1>1, <1>2, <1>4, <1>5 DEF t

\* One level: Begin, the call for the level above in m, Finish.
LEMMA GrownUp ==
  ASSUME NEW s, Typed(s), NEW l \in 1 .. 3, NEW addr, NEW m,
         NEW p \in Nat, p >= 3, Cost(s) <= p + 15, s.metapages <= p + 1,
         IF Full(s, l) /\ Going(Begin(s, l))
           THEN Typed(Begin(s, l)) /\ Cost(Begin(s, l)) <= p + 15
                /\ Begin(s, l).metapages <= p + 1 => Grown(Begin(s, l), m, l - 1, p)
           ELSE m = Begin(s, l)
  PROVE  Grown(s, Finish(m, l, addr), l, p)
<1> DEFINE b == Begin(s, l)
           t == Finish(m, l, addr)
<1>1. Cost(s) \in Nat
  BY CostNat
<1>2. /\ Typed(m) /\ m.first3 = s.first3 /\ Cost(m) <= Cost(s) /\ m.metapages <= p + 1
      /\ s.metapages <= m.metapages
      /\ \A j \in 1 .. 3 : j > l => m.indices[j] = s.indices[j]
      /\ Going(m) => m.indices[l] < Len4
  <2>1. CASE ~Full(s, l) /\ b = s
    <3>1. m = s
      BY <2>1
    <3>2. s.indices[l] < Len4
      BY <2>1, TypedIs, Len4Is DEF Full
    <3>3. s.metapages \in Nat
      BY TypedIs
    <3> QED
      BY <1>1, <3>1, <3>2, <3>3
  <2>2. CASE b = Halted(s, "page_fault")
    <3>1. /\ Typed(b) /\ ~Going(b) /\ b.indices = s.indices /\ b.metapages = s.metapages
          /\ b.first3 = s.first3
      BY <2>2, HaltedIs DEF Going, Reasons
    <3>2. m = b
      BY <3>1
    <3> HIDE DEF b
    <3>3. Cost(m) = Cost(s)
      BY <3>1, <3>2 DEF Cost
    <3>4. s.metapages \in Nat
      BY TypedIs
    <3> QED
      BY <1>1, <3>1, <3>2, <3>3, <3>4
  <2>3. CASE Full(s, l) /\ \E page : b = Opened(s, l, page)
    <3>1. PICK page : b = Opened(s, l, page)
      BY <2>3
    <3>2. /\ Typed(b) /\ b.first3 = s.first3 /\ s.metapages <= b.metapages
          /\ Cost(b) + 1 <= Cost(s) /\ b.metapages <= p + 1
          /\ b.indices[l] = 0
          /\ \A j \in 1 .. 3 : j # l => b.indices[j] = s.indices[j]
      BY <2>3, <3>1, OpenCost
    <3>3. Cost(b) \in Nat
      BY <3>2, CostNat
    <3>4. m = b \/ Grown(b, m, l - 1, p)
      <4>1. Cost(b) <= p + 15
        <5> HIDE DEF b
        <5> QED
          BY <1>1, <3>2, <3>3
      <4> QED
        BY <2>3, <3>2, <4>1
    <3> HIDE DEF b
    <3>5. CASE m = b
      BY <1>1, <3>2, <3>3, <3>5, Len4Is
    <3>6. CASE Grown(b, m, l - 1, p)
      <4>1. /\ Typed(m) /\ m.first3 = b.first3 /\ Cost(m) <= Cost(b) + 1 /\ m.metapages <= p + 1
            /\ b.metapages <= m.metapages
            /\ \A j \in 1 .. 3 : j > l - 1 => m.indices[j] = b.indices[j]
        BY <3>6 DEF Grown
      <4>2. Cost(m) \in Nat
        BY <4>1, CostNat
      <4>3. \A j \in 1 .. 3 : j > l => m.indices[j] = s.indices[j]
        BY <3>2, <4>1
      <4>4. m.indices[l] = 0
        BY <3>2, <4>1
      <4>5. s.metapages \in Nat /\ b.metapages \in Nat /\ m.metapages \in Nat
        BY <3>2, <4>1, TypedIs
      <4>6. s.metapages <= m.metapages
        BY <3>2, <4>1, <4>5
      <4> QED
        BY <1>1, <3>2, <3>3, <4>1, <4>2, <4>3, <4>4, <4>6, Len4Is
    <3> QED
      BY <3>4, <3>5, <3>6
  <2>4. l \in 0 .. 3 /\ l # 0
    OBVIOUS
  <2> QED
    BY <2>1, <2>2, <2>3, <2>4, BeginIs
<1> HIDE DEF b
<1>3. Cost(m) \in Nat
  BY <1>2, CostNat
<1>4. l \in 0 .. 3
  OBVIOUS
<1>5. CASE t = m
  BY <1>1, <1>2, <1>3, <1>5 DEF Grown
<1>6. CASE t = Halted(m, "page_fault")
  <2>1. /\ Typed(t) /\ t.indices = m.indices /\ t.metapages = m.metapages /\ t.first3 = m.first3
    BY <1>2, <1>6, HaltedIs DEF Reasons
  <2> HIDE DEF t
  <2>2. Cost(t) = Cost(m)
    BY <2>1 DEF Cost
  <2> QED
    BY <1>1, <1>2, <1>3, <2>1, <2>2 DEF Grown, t
<1>7. CASE Going(m) /\ \E to : t = Entered(m, l, to, addr)
  <2>1. PICK to : t = Entered(m, l, to, addr)
    BY <1>7
  <2>2. m.indices[l] < Len4
    BY <1>2, <1>7
  <2> HIDE DEF t
  <2>3. /\ Typed(t) /\ t.indices = With(m.indices, l, m.indices[l] + 1)
        /\ t.metapages = m.metapages /\ t.first3 = m.first3
    BY <1>2, <1>4, <2>1, <2>2, EnteredIs
  <2>4. \A j \in 1 .. 3 : t.indices[j] = IF j = l THEN m.indices[l] + 1 ELSE m.indices[j]
    <3> DEFINE x == m.indices
               z == x[l] + 1
    <3>1. x \in [0 .. 3 -> 0 .. Len4] /\ z \in 0 .. Len4 /\ \A j \in 1 .. 3 : j \in 0 .. 3
      <4>1. x \in [0 .. 3 -> 0 .. Len4] /\ x[l] \in 0 .. Len4
        BY <1>2, <1>4, TypedIs
      <4>2. x[l] < Len4
        BY <2>2
      <4> HIDE DEF x
      <4> QED
        BY <4>1, <4>2, Len4Is
    <3> HIDE DEF x, z
    <3>2. \A j \in 0 .. 3 : With(x, l, z)[j] = IF j = l THEN z ELSE x[j]
      BY <1>4, <3>1 DEF With
    <3> QED
      BY <2>3, <3>1, <3>2 DEF x, z
  <2>5. m.indices[1] \in Nat /\ m.indices[2] \in Nat /\ m.indices[3] \in Nat /\ m.metapages \in Nat
    BY <1>2, TypedIs
  <2>6. Cost(t) = Cost(m) + 1
    <3>1. /\ t.indices[1] = IF 1 = l THEN m.indices[l] + 1 ELSE m.indices[1]
          /\ t.indices[2] = IF 2 = l THEN m.indices[l] + 1 ELSE m.indices[2]
          /\ t.indices[3] = IF 3 = l THEN m.indices[l] + 1 ELSE m.indices[3]
      BY <2>4
    <3>2. Cost(t) = 4 * m.metapages + t.indices[1] + t.indices[2] + t.indices[3]
      BY <2>3 DEF Cost
    <3>3. CASE l = 1
      BY <2>5, <3>1, <3>2, <3>3 DEF Cost
    <3>4. CASE l = 2
      BY <2>5, <3>1, <3>2, <3>4 DEF Cost
    <3>5. CASE l = 3
      BY <2>5, <3>1, <3>2, <3>5 DEF Cost
    <3> QED
      BY <3>3, <3>4, <3>5
  <2> QED
    BY <1>1, <1>2, <1>3, <2>3, <2>4, <2>6 DEF Grown, t
<1> QED
  BY <1>4, <1>5, <1>6, <1>7, FinishIs

LEMMA Grown1 ==
  ASSUME NEW s, Typed(s), NEW addr,
         NEW p \in Nat, p >= 3, Cost(s) <= p + 15, s.metapages <= p + 1
  PROVE  Grown(s, NextRecur1(s, addr), 1, p)
<1>1. \A y, c : Typed(y) /\ y.metapages <= p + 1 => Grown(y, NextRecur0(y, c), 1 - 1, p)
  BY Grown0
<1> DEFINE m == Middle1(s)
<1>2. IF Full(s, 1) /\ Going(Begin(s, 1))
         THEN Typed(Begin(s, 1)) /\ Cost(Begin(s, 1)) <= p + 15
              /\ Begin(s, 1).metapages <= p + 1 => Grown(Begin(s, 1), m, 1 - 1, p)
         ELSE m = Begin(s, 1)
  BY <1>1 DEF Middle1
<1> HIDE DEF m
<1>3. Grown(s, Finish(m, 1, addr), 1, p)
  BY <1>2, GrownUp
<1> QED
  BY <1>3, Calls DEF m

LEMMA Grown2 ==
  ASSUME NEW s, Typed(s), NEW addr,
         NEW p \in Nat, p >= 3, Cost(s) <= p + 15, s.metapages <= p + 1
  PROVE  Grown(s, NextRecur2(s, addr), 2, p)
<1> DEFINE m == Middle2(s)
<1>1. 2 - 1 = 1
  OBVIOUS
<1>2. IF Full(s, 2) /\ Going(Begin(s, 2))
         THEN Typed(Begin(s, 2)) /\ Cost(Begin(s, 2)) <= p + 15
              /\ Begin(s, 2).metapages <= p + 1 => Grown(Begin(s, 2), m, 2 - 1, p)
         ELSE m = Begin(s, 2)
  BY <1>1, Grown1 DEF Middle2
<1> HIDE DEF m
<1>3. Grown(s, Finish(m, 2, addr), 2, p)
  BY <1>2, GrownUp
<1> QED
  BY <1>3, Calls DEF m

\* The whole call, for the page that comes after p pages.
LEMMA GrownAll ==
  ASSUME NEW s, Typed(s), NEW addr,
         NEW p \in Nat, p >= 3, Cost(s) <= p + 15, s.metapages <= p + 1
  PROVE  Grown(s, NextRecur(s, addr), 3, p)
<1> DEFINE m == Middle3(s)
<1>1. 3 - 1 = 2
  OBVIOUS
<1>2. IF Full(s, 3) /\ Going(Begin(s, 3))
         THEN Typed(Begin(s, 3)) /\ Cost(Begin(s, 3)) <= p + 15
              /\ Begin(s, 3).metapages <= p + 1 => Grown(Begin(s, 3), m, 3 - 1, p)
         ELSE m = Begin(s, 3)
  BY <1>1, Grown2 DEF Middle3
<1> HIDE DEF m
<1>3. Grown(s, Finish(m, 3, addr), 3, p)
  BY <1>2, GrownUp
<1> QED
  BY <1>3, Calls DEF m

-----------------------------------------------------------------------------
(* MapOK *)

\* The pages the factory has been given, and what it made of them.
Counted ==
  /\ map \in Maps /\ dyn = ConstructMmapDyn(map)
  /\ pages \in 0 .. Total /\ Typed(f)
  /\ \/ /\ Len(f.first3) < 3 /\ pages = Len(f.first3)
        /\ f = [Factory EXCEPT !.first3 = f.first3]
     \/ Len(f.first3) = 3 /\ pages >= 3 /\ Cost(f) <= pages + 15 /\ f.metapages <= pages

LEMMA MapIs ==
  ASSUME map \in Maps, dyn = ConstructMmapDyn(map)
  PROVE  /\ Apart(dyn) /\ dyn \in Seq([base : Nat, len : Nat])
         /\ \A p \in Nat : Covered(dyn, p) <=> p \in Usable
         /\ Usable \subseteq Nat
<1>1. map \in Seq(Entry)
  BY LayoutAssumption
<1>2. /\ Apart(dyn)
      /\ \A p \in Nat : Covered(dyn, p) <=> \E j \in DOMAIN map : UsableIn(map[j], p)
  BY <1>1, DynIs
<1>3. dyn \in Seq([base : Nat, len : Nat])
  <2>1. PageRun \subseteq [base : Nat, len : Nat]
    BY Addresses DEF PageRun
  <2> DEFINE R == [base : Nat, len : Nat]
             n == Len(dyn)
  <2> HIDE DEF R
  <2>2. dyn \in Seq(PageRun)
    BY <1>2 DEF Apart
  <2>3. n \in Nat /\ dyn = [k \in 1 .. n |-> dyn[k]] /\ \A k \in 1 .. n : dyn[k] \in R
    BY <2>1, <2>2 DEF R
  <2> HIDE DEF n
  <2>4. [k \in 1 .. n |-> dyn[k]] \in Seq(R)
    BY <2>3
  <2> QED
    BY <2>3, <2>4 DEF R
<1>4. MinPage \in Nat
  BY MinPageAt
<1>5. ToSet(map) = {map[j] : j \in DOMAIN map} /\ \A j \in DOMAIN map : map[j] \in Entry
  BY <1>1 DEF ToSet
<1> DEFINE Of(e) == {p \in MinPage .. (e.base + e.len) \div PageSize - 1 : e.base <= p * PageSize}
<1>6. ASSUME NEW e \in Entry
      PROVE  Of(e) = {p \in Nat : MinPage <= p /\ e.base <= Addr(p)
                                  /\ Addr(p) + PageSize <= e.base + e.len}
  <2>1. e.base + e.len \in Nat
    BY DEF Entry
  <2>2. (e.base + e.len) \div PageSize \in Nat
        /\ \A p \in Nat : p < (e.base + e.len) \div PageSize
                          <=> Addr(p) + PageSize <= e.base + e.len
    BY <2>1, RoundDownPage
  <2> DEFINE q == (e.base + e.len) \div PageSize
  <2> HIDE DEF q
  <2>3. q \in Nat /\ \A p \in Nat : p \in MinPage .. q - 1 <=> MinPage <= p /\ p < q
    BY <1>4, <2>2 DEF q
  <2>4. MinPage .. q - 1 \subseteq Nat
    BY <1>4, <2>3
  <2>5. \A p \in Nat : p * PageSize = Addr(p)
    BY Addresses
  <2>6. \A p \in Nat : p < q <=> Addr(p) + PageSize <= e.base + e.len
    BY <2>2 DEF q
  <2>7. Of(e) = {p \in MinPage .. q - 1 : e.base <= p * PageSize}
    BY DEF q
  <2> HIDE DEF Of
  <2> QED
    BY <2>3, <2>4, <2>5, <2>6, <2>7
<1>7. Usable = UNION {Of(e) : e \in {x \in ToSet(map) : x.available}}
  BY DEF Usable, MinPage
<1> HIDE DEF Of
<1>8. \A p \in Nat : p \in Usable <=> \E j \in DOMAIN map : UsableIn(map[j], p)
  <2> TAKE p \in Nat
  <2>1. p \in Usable <=> \E j \in DOMAIN map : map[j].available /\ p \in Of(map[j])
    BY <1>5, <1>7
  <2>2. \A j \in DOMAIN map : map[j].available /\ p \in Of(map[j]) <=> UsableIn(map[j], p)
    BY <1>5, <1>6 DEF UsableIn
  <2> QED
    BY <2>1, <2>2
<1>9. Usable \subseteq Nat
  BY <1>5, <1>6, <1>7
<1> QED
  BY <1>2, <1>3, <1>8, <1>9

LEMMA FactoryIs ==
  /\ Typed(Factory) /\ Factory.first3 = <<>> /\ Factory.metapages = 0
  /\ Factory.indices = [l \in 0 .. 3 |-> <<1, 1, 2, 3>>[l + 1]] /\ Going(Factory)
<1>1. [l \in 0 .. 3 |-> <<1, 1, 2, 3>>[l + 1]] \in [0 .. 3 -> 0 .. Len4]
  <2>1. \A l \in 0 .. 3 : <<1, 1, 2, 3>>[l + 1] \in {1, 2, 3}
    OBVIOUS
  <2>2. {1, 2, 3} \subseteq 0 .. Len4
    BY Len4Is
  <2> QED
    BY <2>1, <2>2
<1>2. [l \in 1 .. 3 |-> l - 1] \in [1 .. 3 -> Nat]
  OBVIOUS
<1>3. <<>> \in Seq(Nat)
  OBVIOUS
<1> QED
  BY <1>1, <1>2, <1>3 DEF Factory, Typed, Factories, Reasons, Going

LEMMA CountedMapOK ==
  ASSUME Counted
  PROVE  MapOK
<1>1. /\ Apart(dyn) /\ dyn \in Seq([base : Nat, len : Nat])
      /\ \A p \in Nat : Covered(dyn, p) <=> p \in Usable
      /\ Usable \subseteq Nat
  BY MapIs DEF Counted
<1>2. /\ Total \in Nat
      /\ \A v \in 0 .. Total - 1 : VirtToPhys(v) \in Nat /\ Covered(dyn, VirtToPhys(v))
      /\ \A v, w \in 0 .. Total - 1 : v < w => VirtToPhys(v) < VirtToPhys(w)
      /\ \A p \in Nat : Covered(dyn, p) => \E v \in 0 .. Total - 1 : VirtToPhys(v) = p
      /\ \A v \in 0 .. Total - 1 : PhysToVirt(VirtToPhys(v)) = v
  BY <1>1, AreaIs
<1>3. TypeOK
  <2>1. f.metapages \in 0 .. Total
    <3>1. CASE Len(f.first3) < 3 /\ f = [Factory EXCEPT !.first3 = f.first3]
      <4>1. f.metapages = 0
        BY <3>1 DEF Factory
      <4> QED
        BY <1>2, <4>1
    <3>2. CASE f.metapages <= pages
      BY <1>2, <3>2, TypedIs DEF Counted
    <3> QED
      BY <3>1, <3>2 DEF Counted
  <2>2. f.stopped \in Reasons /\ \A l \in 0 .. 3 : f.indices[l] \in 0 .. Len4
    BY TypedIs DEF Counted
  <2> QED
    BY <1>1, <2>1, <2>2 DEF Counted, TypeOK, Reasons
<1> DEFINE phys == [v \in 0 .. Total - 1 |-> VirtToPhys(v)]
<1>4. \A v \in 0 .. Total - 1 : phys[v] = VirtToPhys(v)
  OBVIOUS
<1> HIDE DEF phys
<1>5. \A v \in 1 .. Total - 1 : phys[v - 1] < phys[v]
  <2> TAKE v \in 1 .. Total - 1
  <2>1. v \in 0 .. Total - 1 /\ v - 1 \in 0 .. Total - 1 /\ v - 1 < v
    BY <1>2
  <2> QED
    BY <1>2, <1>4, <2>1
<1>6. {phys[v] : v \in 0 .. Total - 1} = Usable
  <2> DEFINE V == 0 .. Total - 1
  <2>1. \A v \in V : phys[v] \in Usable
    BY <1>1, <1>2, <1>4
  <2>2. \A p \in Usable : \E v \in V : phys[v] = p
    BY <1>1, <1>2, <1>4
  <2> HIDE DEF V
  <2>3. {phys[v] : v \in V} = Usable
    BY <2>1, <2>2
  <2> QED
    BY <2>3 DEF V
<1>7. \A v \in 0 .. Total - 1 : PhysToVirt(phys[v]) = v
  BY <1>2, <1>4
<1> QED
  BY <1>3, <1>5, <1>6, <1>7 DEF MapOK, phys

\* Before the third page is known, the factory only remembers them.
LEMMA Remembered ==
  ASSUME NEW s, s = [Factory EXCEPT !.first3 = s.first3], s.first3 \in Seq(Nat)
  PROVE  /\ s.metapages = 0 /\ s.indices = Factory.indices /\ s.mem = Factory.mem
         /\ s.next = 3 /\ s.tables = Factory.tables /\ s.stopped = "no"
         /\ \A q : [s EXCEPT !.first3 = q] = [Factory EXCEPT !.first3 = q]
BY DEF Factory

LEMMA CountedInit ==
  ASSUME Init
  PROVE  Counted
<1>1. map \in Maps /\ dyn = ConstructMmapDyn(map) /\ pages = 0 /\ f = Factory
  BY DEF Init
<1>2. Total \in Nat
  BY <1>1, MapIs, AreaIs
<1>3. Len(f.first3) = 0 /\ f = [Factory EXCEPT !.first3 = f.first3]
  BY <1>1, FactoryIs DEF Factory
<1> QED
  BY <1>1, <1>2, <1>3, FactoryIs DEF Counted

\* Memory when the factory is made.
Blank == [q \in {Root} |-> Filled(Nil)]

\* The factory before it has its first three pages.
Early(s, n) ==
  /\ Len(s.first3) = n /\ n < 3
  /\ s.mem = Blank /\ s.next = 3 /\ s.stopped = "no"
  /\ s.tables = Factory.tables /\ s.indices = Factory.indices

\* One page more, and the tables the third one lays.
Gathered(s, g) == [s EXCEPT !.first3 = g]
Laid(s, g, m) == [s EXCEPT !.first3 = g, !.metapages = 3, !.mem = m]

LEMMA EarlyIs ==
  ASSUME NEW s, NEW n, s = [Factory EXCEPT !.first3 = s.first3], s.first3 \in Seq(Nat),
         Len(s.first3) = n, n < 3
  PROVE  Early(s, n)
<1>1. Factory.mem = Blank
  BY DEF Factory, Blank
<1> QED
  BY <1>1, Remembered DEF Early

LEMMA GatheredIs ==
  ASSUME NEW s, Typed(s), NEW g
  PROVE  Gathered(s, g).first3 = g
BY DEF Typed, Factories, Gathered

LEMMA LaidIs ==
  ASSUME NEW s, Typed(s), NEW g \in Seq(Nat), NEW m
  PROVE  LET u == Laid(s, g, m)
         IN /\ u.first3 = g /\ u.metapages = 3 /\ u.mem = m /\ u.next = s.next
            /\ u.tables = s.tables /\ u.indices = s.indices /\ u.stopped = s.stopped
            /\ Typed(u)
BY DEF Typed, Factories, Laid

\* FactoryNext by the number of pages at hand.
LEMMA FirstSteps ==
  ASSUME NEW n \in Nat, Early(f, n), Typed(f), NEW addr \in Nat
  PROVE  LET g == Append(f.first3, addr)
         IN /\ g \in [1 .. n + 1 -> Nat] /\ g \in Seq(Nat) /\ Len(g) = n + 1
            /\ \A i \in 1 .. n : g[i] = f.first3[i]
            /\ g[n + 1] = addr
            /\ FactoryNext(addr) = IF n + 1 < 3 THEN Gathered(f, g)
                                   ELSE Laid(f, g, ConstructDyn3(f.mem, g))
<1> DEFINE old == f.first3
           g == Append(old, addr)
<1>1. old \in Seq(Nat)
  BY TypedIs
<1>2. Len(old) = n /\ n < 3
  BY DEF Early
<1> HIDE DEF old
<1>3. g \in Seq(Nat) /\ Len(g) = n + 1 /\ (\A i \in 1 .. n : g[i] = old[i]) /\ g[n + 1] = addr
  BY <1>1, <1>2
<1>4. g \in [1 .. n + 1 -> Nat]
  <2> HIDE DEF g
  <2>1. g \in [1 .. Len(g) -> Nat]
    BY <1>3
  <2> QED
    BY <1>3, <2>1
<1>5. FactoryNext(addr) = IF Len(old) = 3 THEN NextRecur(f, addr)
                          ELSE IF Len(g) < 3 THEN Gathered(f, g)
                          ELSE Laid(f, g, ConstructDyn3(f.mem, g))
  <2>1. f.first3 = old
    BY DEF old
  <2>2. [f EXCEPT !.first3 = g, !.metapages = 3, !.mem = ConstructDyn3(@, g)]
          = Laid(f, g, ConstructDyn3(f.mem, g))
    <3> HIDE DEF g
    <3> QED
      BY DEF Typed, Factories, Laid
  <2> QED
    BY <2>1, <2>2, Zenon DEF FactoryNext, Gathered
<1> HIDE DEF g
<1>6. FactoryNext(addr) = IF n + 1 < 3 THEN Gathered(f, g)
                          ELSE Laid(f, g, ConstructDyn3(f.mem, g))
  <2>1. Len(old) # 3
    BY <1>2
  <2>2. Len(g) = n + 1
    BY <1>3
  <2> QED
    BY <1>5, <2>1, <2>2, Zenon
<1> QED
  BY <1>3, <1>4, <1>6 DEF g, old

\* What Counted says of the factory while it has not three pages, and then.
Gathering(s, n) == /\ Len(s.first3) < 3 /\ n = Len(s.first3)
                   /\ s = [Factory EXCEPT !.first3 = s.first3]
Counting(s, n) == Len(s.first3) = 3 /\ n >= 3 /\ Cost(s) <= n + 15 /\ s.metapages <= n

LEMMA CountedFirst ==
  ASSUME NEW n \in Nat, Gathering(f, n), Typed(f), NEW addr \in Nat
  PROVE  /\ Typed(FactoryNext(addr))
         /\ Gathering(FactoryNext(addr), n + 1) \/ Counting(FactoryNext(addr), n + 1)
<1> DEFINE t == FactoryNext(addr)
           first == Append(f.first3, addr)
<1>1. f.first3 \in Seq(Nat)
  BY TypedIs
<1>2. n < 3 /\ Early(f, n)
  BY <1>1, EarlyIs DEF Gathering
<1>3. /\ first \in Seq(Nat) /\ Len(first) = n + 1
      /\ t = IF n + 1 < 3 THEN Gathered(f, first) ELSE Laid(f, first, ConstructDyn3(f.mem, first))
  BY <1>2, FirstSteps
<1>4. \A q : Gathered(f, q) = [Factory EXCEPT !.first3 = q]
  BY <1>1, Remembered DEF Gathered, Gathering
<1> HIDE DEF t, first
<1>5. Typed(t) /\ (Gathering(t, n + 1) \/ Counting(t, n + 1))
  <2>1. CASE n + 1 < 3
    <3>1. t = Gathered(f, first)
      BY <1>3, <2>1
    <3>2. t.first3 = first
      BY <3>1, GatheredIs
    <3>3. t = [Factory EXCEPT !.first3 = first]
      BY <1>4, <3>1
    <3>4. Typed(t)
      BY <1>3, <3>3, FactoryIs DEF Typed, Factories, Factory
    <3>5. Gathering(t, n + 1)
      BY <1>3, <2>1, <3>2, <3>3 DEF Gathering
    <3> QED
      BY <3>4, <3>5
  <2>2. CASE ~(n + 1 < 3)
    <3>1. n + 1 = 3
      BY <1>2, <2>2
    <3> DEFINE m == ConstructDyn3(f.mem, first)
    <3>2. t = Laid(f, first, m)
      BY <1>3, <2>2
    <3> HIDE DEF m
    <3>3. first \in Seq(Nat)
      BY <1>3
    <3>4. t.first3 = first /\ t.metapages = 3 /\ t.indices = f.indices /\ Typed(t)
      BY ONLY Typed(f), <3>2, <3>3, LaidIs
    <3>5. t.indices[1] = 1 /\ t.indices[2] = 2 /\ t.indices[3] = 3
      BY <1>2, <3>4, FactoryIs DEF Early
    <3>6. Cost(t) = 18
      BY <3>4, <3>5 DEF Cost
    <3>7. Counting(t, n + 1)
      <4>1. Len(first) = n + 1
        BY <1>3
      <4>2. Len(t.first3) = 3
        BY <3>1, <3>4, <4>1
      <4>3. n + 1 >= 3 /\ 18 <= (n + 1) + 15 /\ 3 <= n + 1
        BY <3>1
      <4>4. Cost(t) <= (n + 1) + 15 /\ t.metapages <= n + 1
        BY <3>4, <3>6, <4>3
      <4> QED
        BY <4>2, <4>3, <4>4, Zenon DEF Counting
    <3> QED
      BY <3>4, <3>7
  <2> QED
    BY <2>1, <2>2
<1> QED
  BY <1>5 DEF t

LEMMA CountedStep ==
  ASSUME Counted, [NextPage]_vars
  PROVE  Counted'
<1>1. CASE UNCHANGED vars
  <2>1. map' = map /\ dyn' = dyn /\ pages' = pages /\ f' = f
    BY <1>1 DEF vars
  <2>2. Total' = Total
    BY <2>1 DEF Total, Sum
  <2> QED
    BY <2>1, <2>2 DEF Counted
<1>2. CASE NextPage
  <2>1. /\ map' = map /\ dyn' = dyn /\ pages' = pages + 1 /\ pages < Total
        /\ f' = FactoryNext(VirtToPhys(pages)) /\ Going(f)
    BY <1>2 DEF NextPage
  <2>2. Total' = Total
    BY <2>1 DEF Total, Sum
  <2>3. /\ map \in Maps /\ dyn = ConstructMmapDyn(map) /\ pages \in 0 .. Total /\ Typed(f)
    BY DEF Counted
  <2>4. Total \in Nat /\ VirtToPhys(pages) \in Nat
    <3>1. Apart(dyn)
      BY <2>3, MapIs
    <3>2. Total \in Nat
      BY <3>1, AreaIs
    <3>3. pages \in 0 .. Total - 1
      BY <2>1, <2>3, <3>2
    <3> QED
      BY <3>1, <3>2, <3>3, AreaIs
  <2>5. pages' \in 0 .. Total' /\ pages \in Nat
    BY <2>1, <2>2, <2>3, <2>4
  <2> DEFINE addr == VirtToPhys(pages)
             t == FactoryNext(addr)
  <2>6. addr \in Nat
    BY <2>4
  <2> HIDE DEF addr
  <2>7. Typed(t) /\ (Gathering(t, pages + 1) \/ Counting(t, pages + 1))
    <3>1. CASE Gathering(f, pages)
      BY <2>3, <2>5, <2>6, <3>1, CountedFirst
    <3>2. CASE Counting(f, pages)
      <4>1. t = NextRecur(f, addr)
        <5>1. Len(f.first3) = 3
          BY <3>2, Zenon DEF Counting
        <5> QED
          BY <5>1, Zenon DEF FactoryNext
      <4>2. f.metapages <= pages + 1 /\ Cost(f) \in Nat
        BY <2>3, <2>5, <3>2, TypedIs, CostNat DEF Counting
      <4> HIDE DEF t
      <4> DEFINE s == f
                 p == pages
      <4>3. Typed(s) /\ p \in Nat /\ p >= 3 /\ Cost(s) <= p + 15 /\ s.metapages <= p + 1
        BY <2>3, <2>5, <3>2, <4>2 DEF Counting
      <4> HIDE DEF s, p
      <4>4. Grown(s, NextRecur(s, addr), 3, p)
        BY <4>3, GrownAll
      <4>5. Typed(t) /\ t.first3 = f.first3 /\ Cost(t) <= Cost(f) + 1 /\ t.metapages <= pages + 1
        BY <4>1, <4>4 DEF Grown, s, p
      <4>6. Cost(t) \in Nat
        BY <4>5, CostNat
      <4> QED
        BY <2>5, <3>2, <4>2, <4>5, <4>6 DEF Counting
    <3> QED
      BY <3>1, <3>2 DEF Counted, Gathering, Counting
  <2>8. f' = t
    BY <2>1 DEF addr
  <2> HIDE DEF t
  <2> QED
    BY <2>1, <2>2, <2>3, <2>5, <2>7, <2>8 DEF Counted, Gathering, Counting
<1> QED
  BY <1>1, <1>2

\* The dynamic memory map and the area made of it are right in every
\* state, whatever map the boot loader passes, and the factory's counters
\* stay in their tables (sort, construct_mmap_dyn, virt_to_phys_dynmem,
\* phys_to_virt_dynmem).
THEOREM MapAlwaysOK == Spec => []MapOK
<1>1. Init => Counted
  BY CountedInit
<1>2. Counted /\ [NextPage]_vars => Counted'
  BY CountedStep
<1>3. Counted => MapOK
  BY CountedMapOK
<1> QED
  BY <1>1, <1>2, <1>3, PTL DEF Spec

-----------------------------------------------------------------------------
(* Numbers of tables and of entries: entry e of a level leads to table e of *)
(* the next one, and lies in table e \div Len4 of its own.                  *)

\* The first entry of table k.
Num(k) == Len4 * k

LEMMA NumIs ==
  /\ \A k \in Nat : Num(k) \in Nat /\ Num(k + 1) = Num(k) + Len4
  /\ \A j, k \in Nat : j < k => Num(j) + Len4 <= Num(k)
  /\ Num(0) = 0 /\ Num(1) = Len4
  /\ \A e \in Nat : /\ e \div Len4 \in Nat /\ e % Len4 \in 0 .. Len4 - 1
                    /\ e = Num(e \div Len4) + (e % Len4)
<1>1. Len4 \in Nat /\ Len4 >= 1
  BY Len4Is
<1>2. \A k \in Nat : Num(k) \in Nat /\ Num(k + 1) = Num(k) + Len4
  BY <1>1 DEF Num
<1>3. \A j, k \in Nat : j < k => Num(j) + Len4 <= Num(k)
  BY <1>1, Times DEF Num
<1>4. Num(0) = 0 /\ Num(1) = Len4
  BY <1>1 DEF Num
<1>5. ASSUME NEW e \in Nat
      PROVE  /\ e \div Len4 \in Nat /\ e % Len4 \in 0 .. Len4 - 1
             /\ e = Num(e \div Len4) + (e % Len4)
  BY <1>1, DivMod DEF Num
<1> QED
  BY <1>2, <1>3, <1>4, <1>5

LEMMA NumAt ==
  ASSUME NEW k \in Nat, NEW i \in 0 .. Len4 - 1
  PROVE  (Num(k) + i) \div Len4 = k /\ (Num(k) + i) % Len4 = i
<1> DEFINE e == Num(k) + i
           q == e \div Len4
           r == e % Len4
<1>1. Len4 \in Nat /\ Len4 >= 1 /\ Num(k) \in Nat /\ i \in Nat
  <2>1. Len4 \in Nat /\ Len4 >= 1
    BY Len4Is
  <2>2. Num(k) \in Nat
    BY NumIs
  <2> QED
    BY <2>1, <2>2
<1>2. e \in Nat
  BY <1>1
<1> HIDE DEF e
<1>3. q \in Nat /\ r \in 0 .. Len4 - 1 /\ e = Num(q) + r
  BY <1>2, NumIs
<1> HIDE DEF q, r
<1>4. e = Num(k) + i
  BY DEF e
<1>5. Num(q) \in Nat
  BY <1>3, NumIs
<1>6. k < q => Num(k) + Len4 <= Num(q)
  BY <1>3, NumIs
<1>7. q < k => Num(q) + Len4 <= Num(k)
  BY <1>3, NumIs
<1>8. ~(k < q) /\ ~(q < k)
  BY <1>1, <1>3, <1>4, <1>5, <1>6, <1>7
<1>9. q = k
  BY <1>3, <1>8
<1>10. r = i
  BY <1>1, <1>3, <1>4, <1>9
<1> QED
  BY <1>9, <1>10 DEF q, r, e

\* Entries before the first one of table k, and up to some of its own.
LEMMA NumBefore ==
  ASSUME NEW e \in Nat, NEW k \in Nat
  PROVE  /\ e < Num(k) <=> e \div Len4 < k
         /\ \A i \in 0 .. Len4 : e < Num(k) + i => e \div Len4 <= k
<1> DEFINE q == e \div Len4
           r == e % Len4
<1>1. q \in Nat /\ r \in 0 .. Len4 - 1 /\ e = Num(q) + r /\ Len4 \in Nat /\ Len4 >= 1
  <2>1. Len4 \in Nat /\ Len4 >= 1
    BY Len4Is
  <2>2. q \in Nat /\ r \in 0 .. Len4 - 1 /\ e = Num(q) + r
    BY NumIs
  <2> QED
    BY <2>1, <2>2
<1> HIDE DEF q, r
<1>2. Num(q) \in Nat /\ Num(k) \in Nat
  BY <1>1, NumIs
<1>3. (k < q => Num(k) + Len4 <= Num(q)) /\ (q < k => Num(q) + Len4 <= Num(k))
  BY <1>1, NumIs
<1>4. q = k => Num(q) = Num(k)
  OBVIOUS
<1>5. e < Num(k) <=> q < k
  BY <1>1, <1>2, <1>3, <1>4
<1>6. \A i \in 0 .. Len4 : e < Num(k) + i => q <= k
  BY <1>1, <1>2, <1>3
<1> QED
  BY <1>5, <1>6 DEF q

-----------------------------------------------------------------------------
(* Memory *)

\* Every table in memory has its entries.
Shaped(m) == \A p \in DOMAIN m : DOMAIN m[p] = 0 .. Len4 - 1

LEMMA AtShaped ==
  ASSUME NEW m, Shaped(m), NEW p
  PROVE  DOMAIN At(m, p) = 0 .. Len4 - 1
BY DEF At, Shaped, Filled

LEMMA SetTableIs ==
  ASSUME NEW m, Shaped(m), NEW p, NEW x
  PROVE  LET t == SetTable(m, p, Filled(x))
         IN Shaped(t) /\ DOMAIN t = DOMAIN m \cup {p}
<1> DEFINE t == SetTable(m, p, Filled(x))
<1>1. DOMAIN t = DOMAIN m \cup {p}
      /\ \A q \in DOMAIN t : t[q] = IF q = p THEN Filled(x) ELSE m[q]
  BY DEF SetTable
<1>2. DOMAIN Filled(x) = 0 .. Len4 - 1
  BY DEF Filled
<1> HIDE DEF t
<1>3. Shaped(t)
  BY <1>1, <1>2 DEF Shaped
<1> QED
  BY <1>1, <1>3 DEF t

LEMMA SetTableAt ==
  ASSUME NEW m, NEW p, NEW x, NEW q, NEW i \in 0 .. Len4 - 1
  PROVE  At(SetTable(m, p, Filled(x)), q)[i] = IF q = p THEN x ELSE At(m, q)[i]
<1> DEFINE t == SetTable(m, p, Filled(x))
<1>1. DOMAIN t = DOMAIN m \cup {p}
      /\ \A y \in DOMAIN t : t[y] = IF y = p THEN Filled(x) ELSE m[y]
  BY DEF SetTable
<1>2. Filled(x)[i] = x
  BY DEF Filled
<1> HIDE DEF t
<1>3. At(t, q)[i] = IF q = p THEN x ELSE At(m, q)[i]
  <2>1. CASE q = p
    BY <1>1, <1>2, <2>1 DEF At
  <2>2. CASE q # p
    BY <1>1, <2>2 DEF At
  <2> QED
    BY <2>1, <2>2
<1> QED
  BY <1>3 DEF t

LEMMA PutIs ==
  ASSUME NEW m, Shaped(m), NEW p, NEW k \in 0 .. Len4 - 1, NEW x
  PROVE  LET t == Put(m, p, k, x)
         IN Shaped(t) /\ DOMAIN t = DOMAIN m \cup {p}
<1> DEFINE t == Put(m, p, k, x)
           a == At(m, p)
           b == [a EXCEPT ![k] = x]
<1>1. DOMAIN t = DOMAIN m \cup {p}
      /\ \A q \in DOMAIN t : t[q] = IF q = p THEN b ELSE m[q]
  BY DEF Put, SetTable
<1>2. DOMAIN a = 0 .. Len4 - 1
  BY AtShaped
<1> HIDE DEF t, a
<1>3. DOMAIN b = 0 .. Len4 - 1
  BY <1>2
<1> HIDE DEF b
<1>4. Shaped(t)
  BY <1>1, <1>3 DEF Shaped
<1> QED
  BY <1>1, <1>4 DEF t

LEMMA PutAt ==
  ASSUME NEW m, Shaped(m), NEW p, NEW k \in 0 .. Len4 - 1, NEW x,
         NEW q, NEW i \in 0 .. Len4 - 1
  PROVE  At(Put(m, p, k, x), q)[i] = IF q = p /\ i = k THEN x ELSE At(m, q)[i]
<1> DEFINE t == Put(m, p, k, x)
           a == At(m, p)
           b == [a EXCEPT ![k] = x]
<1>1. DOMAIN t = DOMAIN m \cup {p}
      /\ \A y \in DOMAIN t : t[y] = IF y = p THEN b ELSE m[y]
  BY DEF Put, SetTable
<1>2. DOMAIN a = 0 .. Len4 - 1
  BY AtShaped
<1> HIDE DEF t, a
<1>3. b[i] = IF i = k THEN x ELSE a[i]
  BY <1>2
<1> HIDE DEF b
<1>4. At(t, q)[i] = IF q = p /\ i = k THEN x ELSE At(m, q)[i]
  <2>1. CASE q = p
    BY <1>1, <1>3, <2>1 DEF At, a
  <2>2. CASE q # p
    BY <1>1, <2>2 DEF At
  <2> QED
    BY <2>1, <2>2
<1> QED
  BY <1>4 DEF t

-----------------------------------------------------------------------------
(* The tree of page tables *)

\* The first entry of a level that is used.
First(l) == IF l = 2 THEN 1 ELSE IF l = 3 THEN Len4 ELSE 0

\* T[l] is the table of level l that is being filled; entries up to this one
\* have been written.
Entries(s, T, l) == Num(T[l]) + s.indices[l]
Written(s, T, l, e) == First(l) <= e /\ e < Entries(s, T, l)
Table(T, l, k) == IF l = 0 THEN k = 0 ELSE First(l - 1) <= k /\ k <= T[l]

\* Table k of level l is at page g[<<l, k>>], and the pages of the area are
\* the tables of level 4.
Slot(m, g, l, e) == At(m, g[<<l, e \div Len4>>])[e % Len4]
Known(s) == {VirtToPhys(v) : v \in 0 .. s.metapages - 1}

\* A table of level l is the last one that level l - 1 leads to, or it is new
\* and the next one.
Linked(s, T, l) == T[l] + 1 = Entries(s, T, l - 1)
Pending(s, T, l) == T[l] = Entries(s, T, l - 1) /\ s.indices[l] = 0

Counters(s, T) ==
  /\ Typed(s) /\ T \in [0 .. 3 -> Nat] /\ T[0] = 0
  /\ s.next = s.metapages /\ s.metapages <= Total /\ s.indices[0] <= Len4 \div 2
  /\ \A l \in 1 .. 3 : First(l - 1) <= T[l] /\ (Linked(s, T, l) \/ Pending(s, T, l))

Places(s, g, T) ==
  /\ g[<<0, 0>>] = Root
  /\ \A l \in 1 .. 3 : s.tables[l] < s.metapages /\ VirtToPhys(s.tables[l]) = g[<<l, T[l]>>]
  /\ \A e \in Nat : e >= Len4 => g[<<4, e>>] = VirtToPhys(e - Len4)
  /\ \A l \in 1 .. 3 : \A k \in Nat : Table(T, l, k) => g[<<l, k>>] \in Known(s)
  /\ \A l, m \in 0 .. 3 : \A k, j \in Nat :
       Table(T, l, k) /\ Table(T, m, j) /\ g[<<l, k>>] = g[<<m, j>>] => l = m /\ k = j

Contents(s, g, T) ==
  /\ Shaped(s.mem) /\ DOMAIN s.mem = {Root, Tmp} \cup Known(s)
  /\ \A l \in 0 .. 3 : \A e \in Nat : Table(T, l, e \div Len4) =>
       IF Written(s, T, l, e) THEN Slot(s.mem, g, l, e) = g[<<l + 1, e>>]
                              ELSE Slot(s.mem, g, l, e) \in {Nil, Junk}

Tree(s, g, T) == Counters(s, T) /\ Places(s, g, T) /\ Contents(s, g, T)

LEMMA FirstIs ==
  /\ \A l \in 0 .. 3 : First(l) \in Nat
  /\ First(0) = 0 /\ First(1) = 0 /\ First(2) = 1 /\ First(3) = Len4
BY Len4Is DEF First

LEMMA FirstUp ==
  ASSUME NEW l \in 1 .. 3, NEW e \in Nat, First(l) <= e
  PROVE  First(l - 1) <= e \div Len4
<1>1. e \div Len4 \in Nat
  BY NumIs
<1>2. CASE l = 3
  <2>1. Len4 <= e
    BY <1>2, FirstIs
  <2>2. ~(e < Num(1)) /\ 1 \in Nat
    BY <2>1, NumIs, Len4Is
  <2>3. ~(e \div Len4 < 1)
    BY <2>2, NumBefore
  <2> HIDE DEF First
  <2>4. First(l - 1) = 1
    BY <1>2, FirstIs
  <2> QED
    BY <1>1, <2>3, <2>4
<1>3. CASE l # 3
  <2>1. First(l - 1) = 0
    BY <1>3 DEF First
  <2> QED
    BY <1>1, <2>1
<1> QED
  BY <1>2, <1>3

LEMMA CountersIs ==
  ASSUME NEW s, NEW T, Counters(s, T)
  PROVE  /\ \A l \in 0 .. 3 : /\ T[l] \in Nat /\ Num(T[l]) \in Nat /\ s.indices[l] \in 0 .. Len4
                              /\ Entries(s, T, l) \in Nat
                              /\ Entries(s, T, l) = Num(T[l]) + s.indices[l]
         /\ Entries(s, T, 0) = s.indices[0]
<1>1. \A l \in 0 .. 3 : T[l] \in Nat /\ s.indices[l] \in 0 .. Len4 /\ s.indices[l] \in Nat
  BY TypedIs DEF Counters
<1>2. \A l \in 0 .. 3 : Num(T[l]) \in Nat
  BY <1>1, NumIs
<1>3. \A l \in 0 .. 3 : Entries(s, T, l) \in Nat
  BY <1>1, <1>2 DEF Entries
<1>4. Num(T[0]) = 0
  BY NumIs DEF Counters
<1> QED
  BY <1>1, <1>2, <1>3, <1>4 DEF Entries

\* The entry of a level above that leads to an entry is written before it.
LEMMA Up ==
  ASSUME NEW s, NEW T, Counters(s, T), NEW l \in 1 .. 3, NEW e \in Nat, Written(s, T, l, e)
  PROVE  Written(s, T, l - 1, e \div Len4)
<1> DEFINE k == T[l]
           q == e \div Len4
           i == s.indices[l]
           x == Entries(s, T, l - 1)
<1>1. l \in 0 .. 3 /\ l - 1 \in 0 .. 3
  OBVIOUS
<1>2. k \in Nat /\ i \in 0 .. Len4 /\ x \in Nat /\ q \in Nat /\ Num(k) \in Nat
  BY <1>1, CountersIs, NumIs
<1>3. First(l) <= e /\ e < Num(k) + i
  BY <1>1, CountersIs DEF Written
<1>4. First(l - 1) <= q
  BY <1>3, FirstUp
<1>5. k + 1 = x \/ (k = x /\ i = 0)
  BY DEF Counters, Linked, Pending
<1> HIDE DEF k, q, i, x
<1>6. q <= k
  BY <1>2, <1>3, NumBefore DEF q
<1>7. i = 0 => q < k
  <2> SUFFICES ASSUME i = 0 PROVE q < k
    OBVIOUS
  <2>1. e < Num(k)
    BY <1>2, <1>3
  <2> QED
    BY <1>2, <2>1, NumBefore DEF q
<1>8. q < x
  BY <1>2, <1>5, <1>6, <1>7
<1> QED
  BY <1>4, <1>8 DEF Written, q, x

LEMMA KnownNat ==
  ASSUME Apart(dyn), NEW s, s.metapages \in Nat, s.metapages <= Total
  PROVE  /\ Known(s) \subseteq Nat
         /\ \A p \in Known(s) : p \notin {Root, Tmp, Nil, Junk}
<1>1. \A v \in 0 .. Total - 1 : VirtToPhys(v) \in Nat
  BY AreaIs
<1>2. Total \in Nat
  BY AreaIs
<1>3. \A v \in 0 .. s.metapages - 1 : v \in 0 .. Total - 1
  BY <1>2
<1>4. Known(s) \subseteq Nat
  BY <1>1, <1>3 DEF Known
<1> QED
  BY <1>4 DEF Root, Tmp, Nil, Junk

\* One turn of a walk.
LEMMA Down ==
  ASSUME Apart(dyn), NEW s, NEW g, NEW T, Tree(s, g, T),
         NEW l \in 0 .. 3, NEW e \in Nat, Table(T, l, e \div Len4)
  PROVE  LET y == Enter(s.mem, g[<<l, e \div Len4>>], e % Len4)
         IN \/ /\ Written(s, T, l, e) /\ y = g[<<l + 1, e>>]
               /\ l < 3 => Table(T, l + 1, e)
            \/ ~Written(s, T, l, e) /\ y \in {Nil, Junk}
<1> DEFINE q == e \div Len4
           x == g[<<l, q>>]
           y == Enter(s.mem, x, e % Len4)
<1>1. q \in Nat
  BY NumIs
<1>2. x \notin {Nil, Junk}
  <2>1. CASE l = 0
    <3>1. q = 0
      BY <2>1 DEF Table
    <3> HIDE DEF q
    <3>2. x = Root
      BY <2>1, <3>1 DEF Tree, Places
    <3> QED
      BY <3>2 DEF Root, Nil, Junk
  <2>2. CASE l \in 1 .. 3
    <3>1. x \in Known(s)
      BY <1>1, <2>2 DEF Tree, Places
    <3>2. s.metapages \in Nat /\ s.metapages <= Total
      BY TypedIs DEF Tree, Counters
    <3> QED
      BY <3>1, <3>2, KnownNat
  <2> QED
    BY <2>1, <2>2
<1>3. y = Slot(s.mem, g, l, e)
  BY <1>2 DEF Enter, Slot
<1> HIDE DEF x, y
<1>4. IF Written(s, T, l, e) THEN y = g[<<l + 1, e>>] ELSE y \in {Nil, Junk}
  BY <1>3 DEF Tree, Contents
<1>5. ASSUME Written(s, T, l, e), l < 3
      PROVE  Table(T, l + 1, e)
  <2>1. l + 1 \in 1 .. 3 /\ (l + 1) - 1 = l /\ l + 1 # 0
    BY <1>5
  <2>2. Linked(s, T, l + 1) \/ Pending(s, T, l + 1)
    BY <2>1 DEF Tree, Counters
  <2>3. T[l + 1] + 1 = Entries(s, T, l) \/ T[l + 1] = Entries(s, T, l)
    BY <2>1, <2>2 DEF Linked, Pending
  <2>4. First(l) <= e /\ e < Entries(s, T, l)
    BY <1>5 DEF Written
  <2>5. T[l + 1] \in Nat /\ Entries(s, T, l) \in Nat
    BY <2>1, CountersIs DEF Tree
  <2>6. e <= T[l + 1]
    BY <2>3, <2>4, <2>5
  <2> QED
    BY <2>1, <2>4, <2>6 DEF Table
<1> QED
  BY <1>4, <1>5 DEF x, y

\* A walk along the indices of a virtual page finds the page, or nothing.
LEMMA WalkIs ==
  ASSUME Apart(dyn), NEW s, NEW g, NEW T, Tree(s, g, T), NEW v \in Nat,
         (((v + Len4) \div Len4) \div Len4) \div Len4 < Len4
  PROVE  LET x == Walk(s.mem, Indices(v))
         IN IF Written(s, T, 3, v + Len4) THEN x = VirtToPhys(v) ELSE x \in {Nil, Junk}
<1> DEFINE e3 == v + Len4
           e2 == e3 \div Len4
           e1 == e2 \div Len4
           e0 == e1 \div Len4
           m == s.mem
           x1 == Enter(m, Root, e0)
           x2 == Enter(m, x1, e1 % Len4)
           x3 == Enter(m, x2, e2 % Len4)
           x4 == Enter(m, x3, e3 % Len4)
<1>1. Walk(m, Indices(v)) = x4
  BY DEF Walk, Indices
<1>2. e3 \in Nat /\ e3 >= Len4 /\ e3 - Len4 = v
  BY Len4Is
<1>3. e2 \in Nat
  <2> HIDE DEF e3
  <2> QED
    BY <1>2, NumIs
<1>4. e1 \in Nat
  <2> HIDE DEF e2
  <2> QED
    BY <1>3, NumIs
<1>5. e0 \in Nat
  <2> HIDE DEF e1
  <2> QED
    BY <1>4, NumIs
<1>6. e0 < Len4
  OBVIOUS
<1> HIDE DEF e0, e1, e2, e3
<1>7. e0 \div Len4 = 0 /\ e0 % Len4 = e0
  <2>1. 0 \in Nat /\ e0 \in 0 .. Len4 - 1 /\ Num(0) = 0
    BY <1>5, <1>6, Len4Is, NumIs
  <2>2. (Num(0) + e0) \div Len4 = 0 /\ (Num(0) + e0) % Len4 = e0
    BY <2>1, NumAt
  <2>3. Num(0) + e0 = e0
    BY <2>1
  <2> QED
    BY <2>2, <2>3
<1>8. g[<<0, 0>>] = Root /\ g[<<4, e3>>] = VirtToPhys(v) /\ Counters(s, T)
  BY <1>2 DEF Tree, Places
<1>9. Table(T, 0, e0 \div Len4)
  BY <1>7 DEF Table
<1>10. \/ Written(s, T, 0, e0) /\ x1 = g[<<1, e0>>] /\ Table(T, 1, e0)
       \/ ~Written(s, T, 0, e0) /\ x1 \in {Nil, Junk}
  <2>1. 0 \in 0 .. 3 /\ 0 + 1 = 1 /\ 0 < 3
    OBVIOUS
  <2>2. x1 = Enter(s.mem, g[<<0, e0 \div Len4>>], e0 % Len4)
    BY <1>7, <1>8
  <2> HIDE DEF x1
  <2> QED
    BY <1>5, <1>9, <2>1, <2>2, Down
<1>11. \/ Written(s, T, 0, e0) /\ Written(s, T, 1, e1) /\ x2 = g[<<2, e1>>] /\ Table(T, 2, e1)
       \/ ~Written(s, T, 1, e1) /\ x2 \in {Nil, Junk}
  <2>1. Written(s, T, 1, e1) => Written(s, T, 0, e0)
    <3>1. 1 \in 1 .. 3 /\ 1 - 1 = 0
      OBVIOUS
    <3> QED
      BY <1>4, <1>8, <3>1, Up DEF e0
  <2>2. CASE x1 \in {Nil, Junk} /\ ~Written(s, T, 0, e0)
    BY <2>1, <2>2 DEF Enter
  <2>3. CASE Written(s, T, 0, e0) /\ x1 = g[<<1, e0>>] /\ Table(T, 1, e0)
    <3>1. 1 \in 0 .. 3 /\ 1 + 1 = 2 /\ 1 < 3
      OBVIOUS
    <3>2. x2 = Enter(s.mem, g[<<1, e1 \div Len4>>], e1 % Len4) /\ Table(T, 1, e1 \div Len4)
      BY <2>3 DEF e0
    <3> HIDE DEF x1, x2
    <3> QED
      BY <1>4, <2>3, <3>1, <3>2, Down
  <2> QED
    BY <1>10, <2>2, <2>3
<1>12. \/ Written(s, T, 2, e2) /\ x3 = g[<<3, e2>>] /\ Table(T, 3, e2)
       \/ ~Written(s, T, 2, e2) /\ x3 \in {Nil, Junk}
  <2>1. Written(s, T, 2, e2) => Written(s, T, 1, e1)
    <3>1. 2 \in 1 .. 3 /\ 2 - 1 = 1
      OBVIOUS
    <3> QED
      BY <1>3, <1>8, <3>1, Up DEF e1
  <2>2. CASE x2 \in {Nil, Junk} /\ ~Written(s, T, 1, e1)
    BY <2>1, <2>2 DEF Enter
  <2>3. CASE Written(s, T, 1, e1) /\ x2 = g[<<2, e1>>] /\ Table(T, 2, e1)
    <3>1. 2 \in 0 .. 3 /\ 2 + 1 = 3 /\ 2 < 3
      OBVIOUS
    <3>2. x3 = Enter(s.mem, g[<<2, e2 \div Len4>>], e2 % Len4) /\ Table(T, 2, e2 \div Len4)
      BY <2>3 DEF e1
    <3> HIDE DEF x1, x2, x3
    <3> QED
      BY <1>3, <2>3, <3>1, <3>2, Down
  <2> QED
    BY <1>11, <2>2, <2>3
<1>13. \/ Written(s, T, 3, e3) /\ x4 = g[<<4, e3>>]
       \/ ~Written(s, T, 3, e3) /\ x4 \in {Nil, Junk}
  <2>1. Written(s, T, 3, e3) => Written(s, T, 2, e2)
    <3>1. 3 \in 1 .. 3 /\ 3 - 1 = 2
      OBVIOUS
    <3> QED
      BY <1>2, <1>8, <3>1, Up DEF e2
  <2>2. CASE x3 \in {Nil, Junk} /\ ~Written(s, T, 2, e2)
    BY <2>1, <2>2 DEF Enter
  <2>3. CASE Written(s, T, 2, e2) /\ x3 = g[<<3, e2>>] /\ Table(T, 3, e2)
    <3>1. 3 \in 0 .. 3 /\ 3 + 1 = 4
      OBVIOUS
    <3>2. x4 = Enter(s.mem, g[<<3, e3 \div Len4>>], e3 % Len4) /\ Table(T, 3, e3 \div Len4)
      BY <2>3 DEF e2
    <3> HIDE DEF x1, x2, x3, x4
    <3> QED
      BY <1>2, <2>3, <3>1, <3>2, Down
  <2> QED
    BY <1>12, <2>2, <2>3
<1> HIDE DEF x4
<1> QED
  BY <1>1, <1>8, <1>13 DEF e3

\* A page whose entry is written is mapped.
LEMMA Mapped ==
  ASSUME Apart(dyn), NEW s, NEW g, NEW T, Tree(s, g, T), NEW v \in Nat,
         v + Len4 < Entries(s, T, 3)
  PROVE  Walk(s.mem, Indices(v)) = VirtToPhys(v)
<1> DEFINE e3 == v + Len4
           e2 == e3 \div Len4
           e1 == e2 \div Len4
           e0 == e1 \div Len4
<1>1. e3 \in Nat /\ First(3) <= e3 /\ Counters(s, T)
  BY Len4Is, FirstIs DEF Tree
<1>2. Written(s, T, 3, e3)
  BY <1>1 DEF Written
<1> HIDE DEF e3
<1>3. e2 \in Nat /\ Written(s, T, 2, e2)
  <2>1. 3 \in 1 .. 3 /\ 3 - 1 = 2
    OBVIOUS
  <2> QED
    BY <1>1, <1>2, <2>1, Up, NumIs
<1> HIDE DEF e2
<1>4. e1 \in Nat /\ Written(s, T, 1, e1)
  <2>1. 2 \in 1 .. 3 /\ 2 - 1 = 1
    OBVIOUS
  <2> QED
    BY <1>1, <1>3, <2>1, Up, NumIs
<1> HIDE DEF e1
<1>5. e0 \in Nat /\ Written(s, T, 0, e0)
  <2>1. 1 \in 1 .. 3 /\ 1 - 1 = 0
    OBVIOUS
  <2> QED
    BY <1>1, <1>4, <2>1, Up, NumIs
<1> HIDE DEF e0
<1>6. e0 < Len4
  <2>1. Entries(s, T, 0) = s.indices[0] /\ s.indices[0] \in 0 .. Len4
    BY <1>1, CountersIs
  <2>2. s.indices[0] <= Len4 \div 2
    BY <1>1 DEF Counters
  <2> QED
    BY <1>5, <2>1, <2>2, Len4Is DEF Written
<1>7. (((v + Len4) \div Len4) \div Len4) \div Len4 < Len4
  BY <1>6 DEF e0, e1, e2, e3
<1> QED
  BY <1>2, <1>7, WalkIs DEF e3

-----------------------------------------------------------------------------
(* What a step of the factory does to the tree *)

\* Table k of level l is put at page p.
Place(g, l, k, p) == [x \in (0 .. 4) \X Nat |-> IF x = <<l, k>> THEN p ELSE g[x]]

LEMMA PlaceAt ==
  ASSUME NEW g, NEW l, NEW k, NEW p, NEW j \in 0 .. 4, NEW i \in Nat
  PROVE  Place(g, l, k, p)[<<j, i>>] = IF j = l /\ i = k THEN p ELSE g[<<j, i>>]
BY DEF Place

\* Pages of the area are different pages.
LEMMA PagesDiffer ==
  ASSUME Apart(dyn), NEW v \in 0 .. Total - 1, NEW w \in 0 .. Total - 1,
         VirtToPhys(v) = VirtToPhys(w)
  PROVE  v = w
<1>1. v < w => VirtToPhys(v) < VirtToPhys(w)
  BY AreaIs
<1>2. w < v => VirtToPhys(w) < VirtToPhys(v)
  BY AreaIs
<1>3. VirtToPhys(v) \in Nat /\ VirtToPhys(w) \in Nat /\ Total \in Nat
  BY AreaIs
<1> QED
  BY <1>1, <1>2, <1>3

LEMMA CountersOpened ==
  ASSUME NEW s, NEW T, Counters(s, T), NEW l \in 1 .. 3, s.indices[l] = Len4,
         Linked(s, T, l), s.metapages < Total, Total \in Nat, NEW page
  PROVE  LET t == Opened(s, l, page)
             U == With(T, l, T[l] + 1)
         IN /\ Counters(t, U) /\ Pending(t, U, l)
            /\ \A j \in 0 .. 3 : Entries(t, U, j) = Entries(s, T, j)
            /\ \A j \in 0 .. 3 : U[j] = IF j = l THEN T[l] + 1 ELSE T[j]
            /\ \A j \in 0 .. 3 : t.indices[j] = IF j = l THEN 0 ELSE s.indices[j]
            /\ \A j \in 1 .. 3 : t.tables[j] = IF j = l THEN s.next ELSE s.tables[j]
<1> DEFINE t == Opened(s, l, page)
           U == With(T, l, T[l] + 1)
<1>1. Typed(s) /\ T \in [0 .. 3 -> Nat] /\ T[0] = 0 /\ s.next = s.metapages
      /\ s.metapages \in Nat /\ s.indices[0] <= Len4 \div 2
  BY TypedIs DEF Counters
<1>2. /\ Typed(t) /\ t.next = s.next + 1 /\ t.tables = With(s.tables, l, s.next)
      /\ t.indices = With(s.indices, l, 0) /\ t.metapages = s.metapages + 1
  BY <1>1, OpenedIs
<1> HIDE DEF t
<1>3. l \in 0 .. 3 /\ T[l] + 1 \in Nat
  BY <1>1
<1>4. U \in [0 .. 3 -> Nat] /\ \A j \in 0 .. 3 : U[j] = IF j = l THEN T[l] + 1 ELSE T[j]
  <2> DEFINE z == T[l] + 1
  <2>1. z \in Nat
    BY <1>3
  <2> HIDE DEF z
  <2>2. With(T, l, z) \in [0 .. 3 -> Nat]
        /\ \A j \in 0 .. 3 : With(T, l, z)[j] = IF j = l THEN z ELSE T[j]
    BY <1>1, <1>3, <2>1 DEF With
  <2> QED
    BY <2>2 DEF z
<1>5. \A j \in 0 .. 3 : t.indices[j] = IF j = l THEN 0 ELSE s.indices[j]
  <2> DEFINE x == s.indices
  <2>1. x \in [0 .. 3 -> 0 .. Len4]
    BY <1>1, TypedIs
  <2> HIDE DEF x
  <2>2. \A j \in 0 .. 3 : With(x, l, 0)[j] = IF j = l THEN 0 ELSE x[j]
    BY <1>3, <2>1 DEF With
  <2> QED
    BY <1>2, <2>2 DEF x
<1>6. \A j \in 1 .. 3 : t.tables[j] = IF j = l THEN s.next ELSE s.tables[j]
  <2> DEFINE x == s.tables
             z == s.next
  <2>1. x \in [1 .. 3 -> Nat]
    BY <1>1, TypedIs
  <2> HIDE DEF x, z
  <2>2. \A j \in 1 .. 3 : With(x, l, z)[j] = IF j = l THEN z ELSE x[j]
    BY <2>1 DEF With
  <2> QED
    BY <1>2, <2>2 DEF x, z
<1> HIDE DEF U
<1>7. \A j \in 0 .. 3 : Entries(t, U, j) = Entries(s, T, j)
  <2> TAKE j \in 0 .. 3
  <2>1. CASE j = l
    <3>1. T[l] \in Nat
      BY <1>1, <1>3
    <3>2. Num(T[l] + 1) = Num(T[l]) + Len4 /\ Num(T[l]) \in Nat
      BY <3>1, NumIs
    <3>3. U[j] = T[l] + 1 /\ t.indices[j] = 0
      BY <1>4, <1>5, <2>1
    <3> QED
      BY <2>1, <3>2, <3>3, Len4Is DEF Entries
  <2>2. CASE j # l
    BY <1>4, <1>5, <2>2 DEF Entries
  <2> QED
    BY <2>1, <2>2
<1>8. T[l] + 1 = Entries(s, T, l - 1) /\ l - 1 \in 0 .. 3
  BY DEF Linked
<1>9. Pending(t, U, l)
  BY <1>3, <1>4, <1>5, <1>7, <1>8 DEF Pending
<1>10. ASSUME NEW j \in 1 .. 3
       PROVE  First(j - 1) <= U[j] /\ (Linked(t, U, j) \/ Pending(t, U, j))
  <2>1. First(j - 1) <= T[j] /\ (Linked(s, T, j) \/ Pending(s, T, j))
    BY DEF Counters
  <2>2. j \in 0 .. 3 /\ j - 1 \in 0 .. 3
    OBVIOUS
  <2>3. First(j - 1) \in Nat /\ T[j] \in Nat
    BY <1>1, <2>2, FirstIs
  <2>4. CASE j = l
    <3>1. U[j] = T[j] + 1
      BY <1>4, <2>2, <2>4
    <3> QED
      BY <1>9, <2>1, <2>3, <2>4, <3>1
  <2>5. CASE j # l
    <3>1. U[j] = T[j] /\ t.indices[j] = s.indices[j] /\ Entries(t, U, j - 1) = Entries(s, T, j - 1)
      BY <1>4, <1>5, <1>7, <2>2, <2>5
    <3> QED
      BY <2>1, <3>1 DEF Linked, Pending
  <2> QED
    BY <2>4, <2>5
<1>11. /\ U[0] = 0 /\ t.next = t.metapages /\ t.metapages <= Total /\ t.indices[0] <= Len4 \div 2
  <2>1. 0 \in 0 .. 3 /\ 0 # l
    OBVIOUS
  <2>2. U[0] = 0 /\ t.indices[0] = s.indices[0]
    BY <1>1, <1>4, <1>5, <2>1
  <2>3. t.next = t.metapages
    BY <1>1, <1>2
  <2>4. t.metapages <= Total
    BY <1>1, <1>2
  <2> QED
    BY <1>1, <2>2, <2>3, <2>4
<1> QED
  BY <1>2, <1>4, <1>5, <1>6, <1>7, <1>9, <1>10, <1>11 DEF Counters, t, U

\* The next page of the area becomes a table of level l.
LEMMA TreeOpened ==
  ASSUME Apart(dyn), NEW s, NEW g, NEW T, Tree(s, g, T), NEW l \in 1 .. 3,
         s.indices[l] = Len4, Linked(s, T, l), s.metapages < Total
  PROVE  LET page == VirtToPhys(s.next)
             t == Opened(s, l, page)
             U == With(T, l, T[l] + 1)
             h == Place(g, l, T[l] + 1, page)
         IN Tree(t, h, U)
<1> DEFINE page == VirtToPhys(s.next)
           t == Opened(s, l, page)
           U == With(T, l, T[l] + 1)
           n == T[l] + 1
           h == Place(g, l, n, page)
<1>1. Counters(s, T) /\ Total \in Nat /\ l \in 0 .. 3
  BY AreaIs DEF Tree
<1>2. /\ Counters(t, U)
      /\ \A j \in 0 .. 3 : Entries(t, U, j) = Entries(s, T, j)
      /\ \A j \in 0 .. 3 : U[j] = IF j = l THEN T[l] + 1 ELSE T[j]
      /\ \A j \in 1 .. 3 : t.tables[j] = IF j = l THEN s.next ELSE s.tables[j]
  BY <1>1, CountersOpened
<1>3. t.metapages = s.metapages + 1 /\ t.mem = SetTable(s.mem, page, Filled(Nil))
  BY <1>1, OpenedIs DEF Counters
<1>4. s.metapages \in Nat /\ s.next = s.metapages
  BY <1>1, TypedIs DEF Counters
<1> HIDE DEF t, U
<1>5. \A j \in 0 .. 3 : T[j] \in Nat
  BY <1>1, CountersIs
<1>6. n \in Nat /\ n = Entries(s, T, l - 1)
  BY <1>1, <1>5 DEF Linked
<1>7. \A j \in 0 .. 4 : \A k \in Nat : h[<<j, k>>] = IF j = l /\ k = n THEN page ELSE g[<<j, k>>]
  BY PlaceAt
<1>8. Known(t) = Known(s) \cup {page}
  <2>1. \A v : v \in 0 .. t.metapages - 1 <=> v \in 0 .. s.metapages - 1 \/ v = s.next
    BY <1>3, <1>4
  <2> QED
    BY <2>1 DEF Known
<1>9. page \notin Known(s) /\ page \in Nat
  <2>1. s.next \in 0 .. Total - 1
    BY <1>1, <1>4
  <2>2. page \in Nat
    BY <2>1, AreaIs
  <2>3. ASSUME NEW v \in 0 .. s.metapages - 1
        PROVE  VirtToPhys(v) # page
    <3>1. v \in 0 .. Total - 1 /\ v # s.next
      BY <1>1, <1>4
    <3> QED
      BY <2>1, <3>1, PagesDiffer
  <2> QED
    BY <2>2, <2>3 DEF Known
<1>10. Known(s) \subseteq Nat /\ \A p \in Known(t) : p \notin {Root, Tmp}
  BY <1>1, <1>4, <1>8, <1>9, KnownNat DEF Root, Tmp
<1> HIDE DEF page, n, h
<1>11. \A j \in 0 .. 3 : \A k \in Nat :
         Table(U, j, k) <=> Table(T, j, k) \/ (j = l /\ k = n)
  <2> TAKE j \in 0 .. 3
  <2> TAKE k \in Nat
  <2>1. CASE j = l
    <3>1. U[j] = n /\ n = T[l] + 1 /\ T[l] \in Nat /\ j # 0
      BY <1>1, <1>2, <1>5, <2>1 DEF n
    <3>2. First(j - 1) \in Nat /\ First(j - 1) <= T[l]
      BY <1>1, <2>1, FirstIs DEF Counters
    <3> QED
      BY <2>1, <3>1, <3>2 DEF Table
  <2>2. CASE j # l
    BY <1>2, <2>2 DEF Table
  <2> QED
    BY <2>1, <2>2
<1>12. ~Table(T, l, n)
  BY <1>1, <1>5, <1>6 DEF Table, n
\* the tables that were there are where they were
<1>13. \A j \in 0 .. 3 : \A k \in Nat :
         Table(T, j, k) => h[<<j, k>>] = g[<<j, k>>] /\ g[<<j, k>>] # page
  <2> TAKE j \in 0 .. 3
  <2> TAKE k \in Nat
  <2> HAVE Table(T, j, k)
  <2>1. h[<<j, k>>] = g[<<j, k>>]
    BY <1>7, <1>12
  <2>2. CASE j = 0
    <3>1. k = 0
      BY <2>2 DEF Table
    <3>2. g[<<j, k>>] = Root
      BY <2>2, <3>1 DEF Tree, Places
    <3> QED
      BY <1>9, <2>1, <3>2 DEF Root
  <2>3. CASE j \in 1 .. 3
    <3>1. g[<<j, k>>] \in Known(s)
      BY <2>3 DEF Tree, Places
    <3> QED
      BY <1>9, <2>1, <3>1
  <2> QED
    BY <2>2, <2>3
<1>14. h[<<l, n>>] = page
  BY <1>1, <1>6, <1>7
<1>15. Places(t, h, U)
  <2>1. h[<<0, 0>>] = Root
    <3>1. 0 \in 0 .. 3 /\ 0 \in Nat /\ Table(T, 0, 0)
      BY DEF Table
    <3> QED
      BY <1>13, <3>1 DEF Tree, Places
  <2>2. ASSUME NEW j \in 1 .. 3
        PROVE  t.tables[j] < t.metapages /\ VirtToPhys(t.tables[j]) = h[<<j, U[j]>>]
    <3>1. CASE j = l
      <4>1. t.tables[j] = s.next /\ U[j] = n
        BY <1>1, <1>2, <3>1 DEF n
      <4> QED
        BY <1>3, <1>4, <1>14, <3>1, <4>1 DEF page
    <3>2. CASE j # l
      <4>1. t.tables[j] = s.tables[j] /\ U[j] = T[j] /\ j \in 0 .. 3
        BY <1>2, <3>2
      <4>2. s.tables[j] < s.metapages /\ VirtToPhys(s.tables[j]) = g[<<j, T[j]>>]
        BY DEF Tree, Places
      <4>3. s.tables[j] \in Nat
        BY <1>1, TypedIs DEF Counters
      <4>4. h[<<j, T[j]>>] = g[<<j, T[j]>>]
        BY <1>5, <1>7, <3>2, <4>1
      <4> QED
        BY <1>3, <1>4, <4>1, <4>2, <4>3, <4>4
    <3> QED
      BY <3>1, <3>2
  <2>3. \A e \in Nat : e >= Len4 => h[<<4, e>>] = VirtToPhys(e - Len4)
    <3>1. 4 \in 0 .. 4 /\ 4 # l
      OBVIOUS
    <3>2. \A e \in Nat : h[<<4, e>>] = g[<<4, e>>]
      BY <1>7, <3>1, Zenon
    <3> QED
      BY <3>2 DEF Tree, Places
  <2>4. \A j \in 1 .. 3 : \A k \in Nat : Table(U, j, k) => h[<<j, k>>] \in Known(t)
    <3> TAKE j \in 1 .. 3
    <3> TAKE k \in Nat
    <3>1. j \in 0 .. 3
      OBVIOUS
    <3>2. Table(T, j, k) => h[<<j, k>>] = g[<<j, k>>] /\ g[<<j, k>>] \in Known(s)
      BY <1>13, <3>1 DEF Tree, Places
    <3> QED
      BY <1>8, <1>11, <1>14, <3>1, <3>2
  <2>5. \A i, j \in 0 .. 3 : \A k, m \in Nat :
          Table(U, i, k) /\ Table(U, j, m) /\ h[<<i, k>>] = h[<<j, m>>] => i = j /\ k = m
    <3> TAKE i, j \in 0 .. 3
    <3> TAKE k, m \in Nat
    <3> HAVE Table(U, i, k) /\ Table(U, j, m) /\ h[<<i, k>>] = h[<<j, m>>]
    <3>1. (Table(T, i, k) \/ (i = l /\ k = n)) /\ (Table(T, j, m) \/ (j = l /\ m = n))
      BY <1>11
    <3>2. Table(T, i, k) => h[<<i, k>>] = g[<<i, k>>] /\ g[<<i, k>>] # page
      BY <1>13
    <3>3. Table(T, j, m) => h[<<j, m>>] = g[<<j, m>>] /\ g[<<j, m>>] # page
      BY <1>13
    <3>4. Table(T, i, k) /\ Table(T, j, m) /\ g[<<i, k>>] = g[<<j, m>>] => i = j /\ k = m
      BY DEF Tree, Places
    <3> QED
      BY <1>14, <3>1, <3>2, <3>3, <3>4
  <2> QED
    BY <2>1, <2>2, <2>3, <2>4, <2>5 DEF Places
<1>16. Contents(t, h, U)
  <2>1. Shaped(s.mem) /\ DOMAIN s.mem = {Root, Tmp} \cup Known(s)
    BY DEF Tree, Contents
  <2> DEFINE m == s.mem
             w == t.mem
  <2>6. Shaped(m) /\ w = SetTable(m, page, Filled(Nil)) /\ w = t.mem /\ m = s.mem
    BY <1>3, <2>1
  <2> HIDE DEF m, w
  <2>2. /\ Shaped(w) /\ DOMAIN w = DOMAIN m \cup {page}
        /\ \A q : \A i \in 0 .. Len4 - 1 : At(w, q)[i] = IF q = page THEN Nil ELSE At(m, q)[i]
    <3>1. /\ Shaped(SetTable(m, page, Filled(Nil)))
          /\ DOMAIN SetTable(m, page, Filled(Nil)) = DOMAIN m \cup {page}
      BY <2>6, SetTableIs
    <3>2. ASSUME NEW q, NEW i \in 0 .. Len4 - 1
          PROVE  At(SetTable(m, page, Filled(Nil)), q)[i] = IF q = page THEN Nil ELSE At(m, q)[i]
      BY SetTableAt
    <3> QED
      BY <2>6, <3>1, <3>2
  <2>3. DOMAIN w = {Root, Tmp} \cup Known(t)
    BY <1>8, <2>1, <2>2, <2>6
  <2>4. ASSUME NEW j \in 0 .. 3, NEW e \in Nat, Table(U, j, e \div Len4)
        PROVE  IF Written(t, U, j, e) THEN Slot(w, h, j, e) = h[<<j + 1, e>>]
                                      ELSE Slot(w, h, j, e) \in {Nil, Junk}
    <3> DEFINE q == e \div Len4
               i == e % Len4
    <3>1. q \in Nat /\ i \in 0 .. Len4 - 1 /\ e = Num(q) + i
      BY NumIs
    <3>2. Written(t, U, j, e) <=> Written(s, T, j, e)
      BY <1>2 DEF Written
    <3>3. Slot(w, h, j, e) = At(w, h[<<j, q>>])[i] /\ Slot(m, g, j, e) = At(m, g[<<j, q>>])[i]
      BY DEF Slot
    <3> HIDE DEF q, i
    <3>4. CASE Table(T, j, q)
      <4>1. h[<<j, q>>] = g[<<j, q>>] /\ g[<<j, q>>] # page
        BY <1>13, <3>1, <3>4
      <4>2. Slot(w, h, j, e) = Slot(m, g, j, e)
        <5> DEFINE x == g[<<j, q>>]
        <5>1. At(w, x)[i] = At(m, x)[i]
          <6>1. x # page
            BY <4>1
          <6> HIDE DEF x
          <6> QED
            BY <2>2, <3>1, <6>1
        <5> QED
          BY <3>3, <4>1, <5>1
      <4>3. IF Written(s, T, j, e) THEN Slot(m, g, j, e) = g[<<j + 1, e>>]
                                   ELSE Slot(m, g, j, e) \in {Nil, Junk}
        BY <3>4 DEF Tree, Contents, m, q
      <4>4. Written(s, T, j, e) => h[<<j + 1, e>>] = g[<<j + 1, e>>]
        <5> SUFFICES ASSUME Written(s, T, j, e) PROVE h[<<j + 1, e>>] = g[<<j + 1, e>>]
          OBVIOUS
        <5>1. j + 1 \in 0 .. 4
          OBVIOUS
        <5>2. CASE j + 1 = l
          <6>1. l - 1 = j /\ e < Entries(s, T, j) /\ Entries(s, T, j) \in Nat
            BY <1>1, <5>2, CountersIs DEF Written
          <6>2. e # n
            BY <1>6, <6>1
          <6> QED
            BY <1>7, <5>1, <6>2
        <5>3. CASE j + 1 # l
          BY <1>7, <5>1, <5>3
        <5> QED
          BY <5>2, <5>3
      <4> QED
        BY <3>2, <4>2, <4>3, <4>4
    <3>5. CASE j = l /\ q = n
      <4>1. Slot(w, h, j, e) = Nil
        BY <1>14, <2>2, <3>1, <3>3, <3>5
      <4>2. ~Written(s, T, j, e)
        <5>1. Entries(s, T, l) = Num(T[l]) + Len4 /\ Num(T[l]) \in Nat
          BY <1>1, CountersIs
        <5>2. Num(n) = Num(T[l]) + Len4
          BY <1>1, <1>5, NumIs DEF n
        <5>3. e >= Num(n)
          <6>1. Num(n) \in Nat
            BY <1>6, NumIs
          <6> QED
            BY <3>1, <3>5, <6>1, Len4Is
        <5> QED
          BY <3>5, <5>1, <5>2, <5>3, Len4Is DEF Written
      <4> QED
        BY <3>2, <4>1, <4>2
    <3> QED
      BY <1>11, <2>4, <3>1, <3>4, <3>5 DEF q
  <2> QED
    BY <2>2, <2>3, <2>4 DEF Contents, w
<1> QED
  BY <1>2, <1>15, <1>16 DEF Tree, t, U, h, n, page

LEMMA CountersEntered ==
  ASSUME NEW s, NEW T, Counters(s, T), NEW l \in 0 .. 3, s.indices[l] < Len4,
         l = 0 => s.indices[0] < Len4 \div 2,
         l > 0 => Linked(s, T, l), l < 3 => Pending(s, T, l + 1), NEW to, NEW addr
  PROVE  LET t == Entered(s, l, to, addr)
         IN /\ Counters(t, T)
            /\ \A j \in 0 .. 3 : Entries(t, T, j) = Entries(s, T, j) + (IF j = l THEN 1 ELSE 0)
            /\ \A j \in 0 .. 3 : t.indices[j] = s.indices[j] + (IF j = l THEN 1 ELSE 0)
            /\ l < 3 => Linked(t, T, l + 1)
            /\ \A j \in 1 .. 3 : Linked(s, T, j) => Linked(t, T, j)
            /\ \A j \in 1 .. 3 : Pending(s, T, j) /\ j # l + 1 => Pending(t, T, j)
<1> DEFINE t == Entered(s, l, to, addr)
<1>1. Typed(s) /\ T \in [0 .. 3 -> Nat] /\ T[0] = 0 /\ s.next = s.metapages
      /\ s.metapages \in Nat /\ s.metapages <= Total /\ s.indices[0] <= Len4 \div 2
  BY TypedIs DEF Counters
<1>2. /\ Typed(t) /\ t.next = s.next /\ t.tables = s.tables
      /\ t.indices = With(s.indices, l, s.indices[l] + 1) /\ t.metapages = s.metapages
  BY <1>1, EnteredIs
<1> HIDE DEF t
<1>3. \A j \in 0 .. 3 : s.indices[j] \in Nat
  BY <1>1, TypedIs
<1>4. \A j \in 0 .. 3 : t.indices[j] = s.indices[j] + (IF j = l THEN 1 ELSE 0)
  <2> DEFINE x == s.indices
             z == x[l] + 1
  <2>1. x \in [0 .. 3 -> 0 .. Len4]
    BY <1>1, TypedIs
  <2> HIDE DEF x, z
  <2>2. \A j \in 0 .. 3 : With(x, l, z)[j] = IF j = l THEN z ELSE x[j]
    BY <2>1 DEF With
  <2>3. \A j \in 0 .. 3 : t.indices[j] = IF j = l THEN s.indices[l] + 1 ELSE s.indices[j]
    BY <1>2, <2>2 DEF x, z
  <2> QED
    BY <1>3, <2>3
<1>5. \A j \in 0 .. 3 : Num(T[j]) \in Nat /\ T[j] \in Nat
  BY <1>1, NumIs
<1>6. \A j \in 0 .. 3 : Entries(t, T, j) = Entries(s, T, j) + (IF j = l THEN 1 ELSE 0)
  BY <1>3, <1>4, <1>5 DEF Entries
<1>7. \A j \in 0 .. 3 : Entries(s, T, j) \in Nat
  BY CountersIs
<1>8. l < 3 => Linked(t, T, l + 1)
  <2> SUFFICES ASSUME l < 3 PROVE Linked(t, T, l + 1)
    OBVIOUS
  <2>1. T[l + 1] = Entries(s, T, l) /\ (l + 1) - 1 = l
    BY DEF Pending
  <2>2. Entries(t, T, l) = Entries(s, T, l) + 1
    BY <1>6
  <2> QED
    BY <2>1, <2>2 DEF Linked
<1>9. ASSUME NEW j \in 1 .. 3, j # l + 1
      PROVE  /\ Linked(s, T, j) => Linked(t, T, j)
             /\ Pending(s, T, j) => Pending(t, T, j)
  <2>1. j \in 0 .. 3 /\ j - 1 \in 0 .. 3 /\ j - 1 # l
    BY <1>9
  <2>2. Entries(t, T, j - 1) = Entries(s, T, j - 1)
    BY <1>6, <1>7, <2>1
  <2>3. Linked(s, T, j) => Linked(t, T, j)
    BY <2>2 DEF Linked
  <2>4. Pending(s, T, j) => Pending(t, T, j)
    <3>1. CASE j = l
      <4>1. T[j] + 1 = Entries(s, T, j - 1)
        BY <3>1 DEF Linked
      <4> QED
        BY <1>5, <2>1, <4>1 DEF Pending
    <3>2. CASE j # l
      <4>1. t.indices[j] = s.indices[j]
        BY <1>3, <1>4, <2>1, <3>2
      <4> QED
        BY <2>2, <4>1 DEF Pending
    <3> QED
      BY <3>1, <3>2
  <2> QED
    BY <2>3, <2>4
<1>10. \A j \in 1 .. 3 : Linked(s, T, j) => Linked(t, T, j)
  <2> TAKE j \in 1 .. 3
  <2>1. CASE j = l + 1
    <3>1. l < 3 /\ Linked(t, T, l + 1)
      BY <1>8, <2>1
    <3> QED
      BY <2>1, <3>1
  <2>2. CASE j # l + 1
    BY <1>9, <2>2
  <2> QED
    BY <2>1, <2>2
<1>11. ASSUME NEW j \in 1 .. 3
       PROVE  First(j - 1) <= T[j] /\ (Linked(t, T, j) \/ Pending(t, T, j))
  <2>1. First(j - 1) <= T[j] /\ (Linked(s, T, j) \/ Pending(s, T, j))
    BY DEF Counters
  <2>2. CASE j = l + 1
    <3>1. l < 3 /\ Linked(t, T, l + 1)
      BY <1>8, <2>2
    <3> QED
      BY <2>1, <2>2, <3>1
  <2>3. CASE j # l + 1
    BY <1>9, <2>1, <2>3
  <2> QED
    BY <2>2, <2>3
<1>12. t.indices[0] <= Len4 \div 2
  <2>1. t.indices[0] = s.indices[0] + (IF 0 = l THEN 1 ELSE 0) /\ s.indices[0] \in Nat
    BY <1>3, <1>4
  <2>2. Len4 \div 2 \in Nat
    BY Len4Is
  <2> QED
    BY <1>1, <2>1, <2>2
<1>13. Counters(t, T)
  BY <1>1, <1>2, <1>11, <1>12 DEF Counters
<1> QED
  BY <1>4, <1>6, <1>8, <1>9, <1>10, <1>13 DEF t

\* The next entry of a table leads to the table or the page that is next.
LEMMA TreeEntered ==
  ASSUME Apart(dyn), NEW s, NEW g, NEW T, Tree(s, g, T), NEW l \in 0 .. 3,
         s.indices[l] < Len4, l = 0 => s.indices[0] < Len4 \div 2,
         l > 0 => Linked(s, T, l), l < 3 => Pending(s, T, l + 1)
  PROVE  Tree(Entered(s, l, g[<<l, T[l]>>], g[<<l + 1, Entries(s, T, l)>>]), g, T)
<1> DEFINE to == g[<<l, T[l]>>]
           z == Entries(s, T, l)
           addr == g[<<l + 1, z>>]
           i == s.indices[l]
           t == Entered(s, l, to, addr)
<1>1. Counters(s, T) /\ Typed(s)
  BY DEF Tree, Counters
<1>2. /\ Counters(t, T)
      /\ \A j \in 0 .. 3 : Entries(t, T, j) = Entries(s, T, j) + (IF j = l THEN 1 ELSE 0)
  BY <1>1, CountersEntered
<1>3. t.metapages = s.metapages /\ t.tables = s.tables /\ t.mem = Put(s.mem, to, i, addr)
  BY <1>1, EnteredIs
<1> HIDE DEF t
<1>4. Known(t) = Known(s)
  BY <1>3 DEF Known
<1>5. Places(t, g, T)
  BY <1>3, <1>4 DEF Tree, Places
<1>6. T[l] \in Nat /\ i \in 0 .. Len4 - 1 /\ z = Num(T[l]) + i /\ z \in Nat
  <2>1. T[l] \in Nat /\ i \in 0 .. Len4 /\ z = Num(T[l]) + i /\ z \in Nat
    BY <1>1, CountersIs
  <2>2. i < Len4
    OBVIOUS
  <2> HIDE DEF i, z
  <2> QED
    BY <2>1, <2>2, Len4Is
<1>7. z \div Len4 = T[l] /\ z % Len4 = i
  <2> HIDE DEF i, z
  <2> QED
    BY <1>6, NumAt
<1>8. Table(T, l, T[l])
  BY <1>1, <1>6 DEF Counters, Table
<1>9. First(l) <= z
  <2>1. CASE l < 3
    <3>1. l + 1 \in 1 .. 3 /\ (l + 1) - 1 = l
      BY <2>1
    <3>2. T[l + 1] = z /\ First((l + 1) - 1) <= T[l + 1]
      BY <1>1, <2>1, <3>1 DEF Pending, Counters
    <3> QED
      BY <3>1, <3>2
  <2>2. CASE l = 3
    <3>1. First(2) <= T[3]
      BY <1>1 DEF Counters
    <3>2. 1 <= T[3] /\ T[3] \in Nat
      BY <1>6, <2>2, <3>1, FirstIs
    <3>3. Num(1) <= Num(T[3])
      <4>1. 1 < T[3] => Num(1) + Len4 <= Num(T[3])
        BY <3>2, NumIs
      <4>2. Num(1) \in Nat /\ Num(T[3]) \in Nat
        BY <3>2, NumIs
      <4>3. 1 = T[3] \/ 1 < T[3]
        BY <3>2
      <4> QED
        BY <4>1, <4>2, <4>3, Len4Is
    <3>4. Num(1) = Len4 /\ Num(T[3]) \in Nat /\ First(3) = Len4
      BY <3>2, NumIs, FirstIs
    <3> HIDE DEF z
    <3> QED
      BY <1>6, <2>2, <3>3, <3>4, Len4Is
  <2> QED
    BY <2>1, <2>2
<1> HIDE DEF i, z, to, addr
<1>10. \A j \in 0 .. 3 : \A e \in Nat :
         Written(t, T, j, e) <=> Written(s, T, j, e) \/ (j = l /\ e = z)
  <2> TAKE j \in 0 .. 3
  <2> TAKE e \in Nat
  <2>1. Entries(t, T, j) = Entries(s, T, j) + (IF j = l THEN 1 ELSE 0) /\ Entries(s, T, j) \in Nat
    BY <1>1, <1>2, CountersIs
  <2>2. First(j) \in Nat
    BY FirstIs
  <2>3. j = l => Entries(s, T, j) = z
    BY DEF z
  <2> QED
    BY <1>6, <1>9, <2>1, <2>2, <2>3 DEF Written
<1>11. Shaped(s.mem) /\ DOMAIN s.mem = {Root, Tmp} \cup Known(s)
  BY DEF Tree, Contents
<1>12. to \in {Root} \cup Known(s)
  <2>1. CASE l = 0
    <3>1. T[l] = 0
      BY <1>1, <2>1 DEF Counters
    <3>2. to = Root
      BY <2>1, <3>1 DEF to, Tree, Places
    <3> QED
      BY <3>2
  <2>2. CASE l \in 1 .. 3
    <3>1. to \in Known(s)
      BY <1>6, <1>8, <2>2 DEF to, Tree, Places
    <3> QED
      BY <3>1
  <2> QED
    BY <2>1, <2>2
<1>13. Contents(t, g, T)
  <2> DEFINE m == s.mem
             w == t.mem
  <2>1. Shaped(m) /\ w = Put(m, to, i, addr) /\ w = t.mem /\ m = s.mem
    BY <1>3, <1>11
  <2> HIDE DEF m, w
  <2>2. Shaped(w) /\ DOMAIN w = DOMAIN m \cup {to}
    <3>1. Shaped(m) /\ i \in 0 .. Len4 - 1
      BY <1>6, <2>1
    <3>2. Shaped(Put(m, to, i, addr)) /\ DOMAIN Put(m, to, i, addr) = DOMAIN m \cup {to}
      BY <3>1, PutIs
    <3> QED
      BY <2>1, <3>2
  <2>3. DOMAIN w = {Root, Tmp} \cup Known(t)
    BY <1>4, <1>11, <1>12, <2>1, <2>2
  <2>4. ASSUME NEW j \in 0 .. 3, NEW e \in Nat, Table(T, j, e \div Len4)
        PROVE  IF Written(t, T, j, e) THEN Slot(w, g, j, e) = g[<<j + 1, e>>]
                                      ELSE Slot(w, g, j, e) \in {Nil, Junk}
    <3> DEFINE q == e \div Len4
               r == e % Len4
               x == g[<<j, q>>]
    <3>1. q \in Nat /\ r \in 0 .. Len4 - 1 /\ e = Num(q) + r
      BY NumIs
    <3>2. Slot(w, g, j, e) = At(w, x)[r] /\ Slot(m, g, j, e) = At(m, x)[r]
      BY DEF Slot
    <3>3. Table(T, j, q)
      BY <2>4
    <3> HIDE DEF q, r
    <3>4. x = to <=> j = l /\ q = T[l]
      BY <1>6, <1>8, <3>1, <3>3 DEF Tree, Places, to
    <3> HIDE DEF x
    <3>5. At(w, x)[r] = IF x = to /\ r = i THEN addr ELSE At(m, x)[r]
      <4>1. At(Put(m, to, i, addr), x)[r] = IF x = to /\ r = i THEN addr ELSE At(m, x)[r]
        <5>1. Shaped(m) /\ i \in 0 .. Len4 - 1 /\ r \in 0 .. Len4 - 1
          BY <1>6, <2>1, <3>1
        <5> QED
          BY <5>1, PutAt
      <4> QED
        BY <2>1, <4>1
    <3>6. j = l /\ e = z <=> x = to /\ r = i
      <4>1. j = l /\ e = z => q = T[l] /\ r = i
        BY <1>7 DEF q, r
      <4> QED
        BY <1>6, <3>1, <3>4, <4>1
    <3>7. IF Written(s, T, j, e) THEN Slot(m, g, j, e) = g[<<j + 1, e>>]
                                 ELSE Slot(m, g, j, e) \in {Nil, Junk}
      BY <2>1, <3>3 DEF Tree, Contents, q
    <3>8. CASE j = l /\ e = z
      <4>1. Written(t, T, j, e) /\ Slot(w, g, j, e) = addr
        BY <1>10, <3>2, <3>5, <3>6, <3>8
      <4> QED
        BY <3>8, <4>1 DEF addr
    <3>9. CASE ~(j = l /\ e = z)
      BY <1>10, <3>2, <3>5, <3>6, <3>7, <3>9
    <3> QED
      BY <3>8, <3>9
  <2> QED
    BY <2>1, <2>2, <2>3, <2>4 DEF Contents
<1> QED
  BY <1>2, <1>5, <1>13 DEF Tree, t, to, addr, z

-----------------------------------------------------------------------------
(* One call of dynpage_factory_next_recur                                  *)

\* Before the call for level l that gives page p: the tables from level l + 1
\* on are new, the others have entries.
Ready(s, g, T, l, p) ==
  /\ Tree(s, g, T) /\ Going(s)
  /\ p \in Nat /\ 3 <= p /\ p < Total /\ Entries(s, T, 3) = p + Len4
  /\ s.metapages <= p /\ Cost(s) <= p + 12 + l
  /\ \A j \in 1 .. 3 : IF j <= l THEN Linked(s, T, j) /\ s.indices[j] >= 1 ELSE Pending(s, T, j)

\* What the next entry of level l is to lead to.
Goal(s, g, T, l) == g[<<l + 1, Entries(s, T, l)>>]

\* After it: the entry is there, or every table was full.
Gained(s, T, t, U, l) ==
  /\ Going(t) /\ Entries(t, U, l) = Entries(s, T, l) + 1
  /\ \A j \in 1 .. 3 : IF j <= l + 1 THEN Linked(t, U, j) ELSE Pending(t, U, j)
  /\ \A j \in 1 .. 3 : j <= l => t.indices[j] >= 1
Brim(s, T, t, U, l) ==
  /\ t.stopped = "out_of_bound" /\ s.indices[0] = Len4 \div 2
  /\ \A j \in 1 .. 3 : j <= l => s.indices[j] = Len4
  /\ \A j \in 0 .. 3 : Entries(t, U, j) = Entries(s, T, j)
Kept(s, g, T, t, h, U, l) ==
  \A j \in 1 .. 3 : j > l => /\ U[j] = T[j] /\ t.indices[j] = s.indices[j]
                             /\ h[<<j, U[j]>>] = g[<<j, T[j]>>]
Done(s, g, T, t, h, U, l, p) ==
  /\ Tree(t, h, U) /\ t.metapages <= p /\ Kept(s, g, T, t, h, U, l)
  /\ Gained(s, T, t, U, l) \/ Brim(s, T, t, U, l)

\* The call for level l with the address c leads from s to t, if all tables
\* lie where 32 bits reach.
Low(t) == \A v \in 0 .. t.metapages - 1 : VirtToPhys(v) < Wrap
Leads(s, t, c, l, p) ==
  \A g, T : Ready(s, g, T, l, p) =>
    /\ Typed(t) /\ s.metapages <= t.metapages
    /\ Low(t) /\ c = Goal(s, g, T, l) => \E h, U : Done(s, g, T, t, h, U, l, p)

LEMMA TreeHalted ==
  ASSUME NEW s, NEW g, NEW T, Tree(s, g, T), NEW why \in Reasons
  PROVE  LET t == Halted(s, why)
         IN /\ Tree(t, g, T) /\ t.stopped = why /\ t.metapages = s.metapages
            /\ t.indices = s.indices /\ \A j \in 0 .. 3 : Entries(t, T, j) = Entries(s, T, j)
<1> DEFINE t == Halted(s, why)
<1>1. Typed(s)
  BY DEF Tree, Counters
<1>2. /\ Typed(t) /\ t.stopped = why /\ t.next = s.next /\ t.tables = s.tables
      /\ t.indices = s.indices /\ t.metapages = s.metapages /\ t.mem = s.mem
  BY <1>1, HaltedIs
<1> HIDE DEF t
<1>3. \A j \in 0 .. 3 : Entries(t, T, j) = Entries(s, T, j)
  BY <1>2 DEF Entries
<1>4. \A j \in 1 .. 3 : /\ Linked(s, T, j) => Linked(t, T, j)
                        /\ Pending(s, T, j) => Pending(t, T, j)
  <2> TAKE j \in 1 .. 3
  <2>1. Entries(t, T, j - 1) = Entries(s, T, j - 1)
    BY <1>2 DEF Entries
  <2> QED
    BY <1>2, <2>1 DEF Linked, Pending
<1>5. Counters(t, T)
  BY <1>2, <1>4 DEF Tree, Counters
<1>6. Known(t) = Known(s)
  BY <1>2 DEF Known
<1>7. Places(t, g, T)
  BY <1>2, <1>6 DEF Tree, Places
<1>8. \A j \in 0 .. 3 : \A e \in Nat : Written(t, T, j, e) <=> Written(s, T, j, e)
  BY <1>3 DEF Written
<1>9. Contents(t, g, T)
  BY <1>2, <1>6, <1>8 DEF Tree, Contents
<1> QED
  BY <1>2, <1>3, <1>5, <1>7, <1>9 DEF Tree, t

\* The table to write to is where the factory looks for it.
LEMMA TableFound ==
  ASSUME Apart(dyn), NEW s, NEW g, NEW T, Tree(s, g, T), NEW l \in 0 .. 3,
         NEW p \in Nat, Entries(s, T, 3) = p + Len4, s.metapages <= p
  PROVE  TablePage(s, l) = g[<<l, T[l]>>] /\ TablePage(s, l) \notin {Nil, Junk}
<1>1. CASE l = 0
  <2>1. T[l] = 0 /\ g[<<0, 0>>] = Root
    BY <1>1 DEF Tree, Counters, Places
  <2>2. TablePage(s, l) = Root
    BY <1>1 DEF TablePage
  <2> QED
    BY <1>1, <2>1, <2>2 DEF Root, Nil, Junk
<1>2. CASE l \in 1 .. 3
  <2> DEFINE v == s.tables[l]
  <2>1. Typed(s) /\ s.metapages <= Total
    BY DEF Tree, Counters
  <2>2. v \in Nat /\ s.metapages \in Nat
    BY <1>2, <2>1, TypedIs
  <2>3. v < s.metapages /\ VirtToPhys(v) = g[<<l, T[l]>>]
    BY <1>2 DEF Tree, Places
  <2>4. TablePage(s, l) = Walk(s.mem, Indices(v))
    BY <1>2 DEF TablePage
  <2> HIDE DEF v
  <2>5. v + Len4 < Entries(s, T, 3)
    BY <2>2, <2>3, Len4Is
  <2>6. Walk(s.mem, Indices(v)) = VirtToPhys(v)
    BY <2>2, <2>5, Mapped
  <2>7. VirtToPhys(v) \in Known(s)
    <3>1. v \in 0 .. s.metapages - 1
      BY <2>2, <2>3
    <3> QED
      BY <3>1 DEF Known
  <2>8. VirtToPhys(v) \notin {Nil, Junk}
    BY <2>1, <2>2, <2>7, KnownNat
  <2> QED
    BY <2>3, <2>4, <2>6, <2>8
<1> QED
  BY <1>1, <1>2

\* The call's last part, when the table is open and has room.
LEMMA Gain ==
  ASSUME Apart(dyn), NEW s, NEW g, NEW T, Tree(s, g, T), Going(s), NEW l \in 0 .. 3,
         s.indices[l] < Len4, l = 0 => s.indices[0] < Len4 \div 2,
         \A j \in 1 .. 3 : IF j <= l THEN Linked(s, T, j) ELSE Pending(s, T, j),
         NEW p \in Nat, Entries(s, T, 3) = p + Len4, s.metapages <= p,
         NEW addr, addr = Goal(s, g, T, l)
  PROVE  LET t == Finish(s, l, addr)
         IN /\ Tree(t, g, T) /\ Going(t) /\ t.metapages = s.metapages
            /\ \A j \in 0 .. 3 : Entries(t, T, j) = Entries(s, T, j) + (IF j = l THEN 1 ELSE 0)
            /\ \A j \in 0 .. 3 : t.indices[j] = s.indices[j] + (IF j = l THEN 1 ELSE 0)
            /\ \A j \in 1 .. 3 : IF j <= l + 1 THEN Linked(t, T, j) ELSE Pending(t, T, j)
<1> DEFINE to == g[<<l, T[l]>>]
           t == Finish(s, l, addr)
<1>1. TablePage(s, l) = to /\ TablePage(s, l) \notin {Nil, Junk}
  BY TableFound
<1>2. t = Entered(s, l, to, addr)
  BY <1>1, FinishIs
<1>3. Counters(s, T) /\ Typed(s)
  BY DEF Tree, Counters
<1>4. (l > 0 => Linked(s, T, l)) /\ (l < 3 => Pending(s, T, l + 1))
  <2>1. l > 0 => l \in 1 .. 3 /\ l <= l
    OBVIOUS
  <2>2. l < 3 => l + 1 \in 1 .. 3 /\ ~(l + 1 <= l)
    OBVIOUS
  <2> QED
    BY <2>1, <2>2
<1>5. Tree(t, g, T)
  <2>1. Tree(Entered(s, l, g[<<l, T[l]>>], g[<<l + 1, Entries(s, T, l)>>]), g, T)
    BY <1>4, TreeEntered
  <2> HIDE DEF t
  <2> QED
    BY <1>2, <2>1 DEF Goal
<1> HIDE DEF t, to
<1>6. t.stopped = s.stopped /\ t.metapages = s.metapages
  BY <1>2, <1>3, EnteredIs
<1>7. /\ \A j \in 0 .. 3 : Entries(t, T, j) = Entries(s, T, j) + (IF j = l THEN 1 ELSE 0)
      /\ \A j \in 0 .. 3 : t.indices[j] = s.indices[j] + (IF j = l THEN 1 ELSE 0)
      /\ l < 3 => Linked(t, T, l + 1)
      /\ \A j \in 1 .. 3 : Linked(s, T, j) => Linked(t, T, j)
      /\ \A j \in 1 .. 3 : Pending(s, T, j) /\ j # l + 1 => Pending(t, T, j)
  BY <1>2, <1>3, <1>4, CountersEntered
<1>8. \A j \in 1 .. 3 : IF j <= l + 1 THEN Linked(t, T, j) ELSE Pending(t, T, j)
  <2> TAKE j \in 1 .. 3
  <2>1. CASE j <= l
    BY <1>7, <2>1
  <2>2. CASE j = l + 1
    BY <1>7, <2>2
  <2>3. CASE j > l + 1
    BY <1>7, <2>3
  <2> QED
    BY <2>1, <2>2, <2>3
<1>9. Going(t)
  BY <1>6 DEF Going
<1> QED
  BY <1>5, <1>6, <1>7, <1>8, <1>9 DEF t

\* The root is entered, or it is full.
LEMMA Leads0 ==
  ASSUME Apart(dyn), NEW s, NEW addr, NEW p
  PROVE  Leads(s, NextRecur0(s, addr), addr, 0, p)
<1> DEFINE b == Begin(s, 0)
           t == Finish(b, 0, addr)
<1> SUFFICES ASSUME NEW g, NEW T, Ready(s, g, T, 0, p)
             PROVE  /\ Typed(t) /\ s.metapages <= t.metapages
                    /\ addr = Goal(s, g, T, 0) => \E h, U : Done(s, g, T, t, h, U, 0, p)
  BY DEF Leads, NextRecur0
<1>1. /\ Tree(s, g, T) /\ Counters(s, T) /\ Typed(s) /\ Going(s) /\ p \in Nat
      /\ Entries(s, T, 3) = p + Len4 /\ s.metapages <= p /\ s.metapages \in Nat
      /\ \A j \in 1 .. 3 : Pending(s, T, j)
  <2>1. Tree(s, g, T) /\ Counters(s, T) /\ Typed(s)
    BY DEF Ready, Tree, Counters
  <2>2. \A j \in 1 .. 3 : ~(j <= 0)
    OBVIOUS
  <2> QED
    BY <2>1, <2>2, TypedIs DEF Ready
<1>2. s.indices[0] \in Nat /\ s.indices[0] <= Len4 \div 2 /\ s.indices[0] < Len4
  <2>1. s.indices[0] \in Nat /\ s.indices[0] <= Len4 \div 2
    BY <1>1, TypedIs DEF Counters
  <2> QED
    BY <2>1, Len4Is
<1>3. (s.indices[0] < Len4 \div 2 /\ b = s)
      \/ (s.indices[0] = Len4 \div 2 /\ b = Halted(s, "out_of_bound"))
  <2>1. ~Full(s, 0)
    BY <1>2, Len4Is DEF Full
  <2>2. CASE s.indices[0] < Len4 \div 2
    <3>1. ~(s.indices[0] >= Len4 \div 2)
      BY <1>2, <2>2, Len4Is
    <3> HIDE DEF b
    <3> QED
      BY <2>1, <2>2, <3>1, BeginIs DEF b
  <2>3. CASE s.indices[0] = Len4 \div 2
    <3>1. s.indices[0] >= Len4 \div 2
      BY <2>3, Len4Is
    <3>2. b = Halted(s, "out_of_bound")
      BY <3>1 DEF Begin, Halted
    <3> QED
      BY <2>3, <3>2
  <2> QED
    BY <1>2, <2>2, <2>3, Len4Is
<1>4. Grown(s, t, 0, p)
  <2>1. Grown(s, NextRecur0(s, addr), 0, p)
    <3>1. s.metapages <= p + 1
      BY <1>1
    <3> QED
      BY <1>1, <3>1, Grown0
  <2> QED
    BY <2>1 DEF NextRecur0
<1>5. CASE s.indices[0] < Len4 \div 2 /\ b = s
  <2>1. t = Finish(s, 0, addr)
    BY <1>5
  <2> HIDE DEF t
  <2>2. Typed(t) /\ s.metapages <= t.metapages
    BY <1>4 DEF Grown
  <2>3. ASSUME addr = Goal(s, g, T, 0)
        PROVE  Done(s, g, T, t, g, T, 0, p)
    <3>1. \A j \in 1 .. 3 : IF j <= 0 THEN Linked(s, T, j) ELSE Pending(s, T, j)
      BY <1>1
    <3>2. /\ Tree(t, g, T) /\ Going(t) /\ t.metapages = s.metapages
          /\ \A j \in 0 .. 3 : Entries(t, T, j) = Entries(s, T, j) + (IF j = 0 THEN 1 ELSE 0)
          /\ \A j \in 0 .. 3 : t.indices[j] = s.indices[j] + (IF j = 0 THEN 1 ELSE 0)
          /\ \A j \in 1 .. 3 : IF j <= 0 + 1 THEN Linked(t, T, j) ELSE Pending(t, T, j)
      BY <1>1, <1>2, <1>5, <2>1, <2>3, <3>1, Gain
    <3>3. Entries(t, T, 0) = Entries(s, T, 0) + 1
      BY <3>2
    <3>4. Gained(s, T, t, T, 0)
      BY <3>2, <3>3 DEF Gained
    <3>5. Kept(s, g, T, t, g, T, 0)
      <4>1. \A j \in 1 .. 3 : t.indices[j] = s.indices[j]
        <5> TAKE j \in 1 .. 3
        <5>1. j \in 0 .. 3 /\ j # 0
          OBVIOUS
        <5>2. t.indices[j] = s.indices[j] + 0 /\ s.indices[j] \in Nat
          BY <1>1, <3>2, <5>1, TypedIs
        <5> QED
          BY <5>2
      <4> QED
        BY <4>1 DEF Kept
    <3> QED
      BY <1>1, <3>2, <3>4, <3>5 DEF Done
  <2> QED
    BY <1>1, <2>2, <2>3
<1>6. CASE s.indices[0] = Len4 \div 2 /\ b = Halted(s, "out_of_bound")
  <2> DEFINE why == "out_of_bound"
  <2>1. why \in Reasons
    BY DEF Reasons
  <2>2. /\ Tree(b, g, T) /\ b.stopped = why /\ b.metapages = s.metapages
        /\ b.indices = s.indices /\ \A j \in 0 .. 3 : Entries(b, T, j) = Entries(s, T, j)
    <3> HIDE DEF b
    <3> QED
      BY <1>1, <1>6, <2>1, TreeHalted
  <2> HIDE DEF b
  <2>3. ~Going(b)
    BY <2>2 DEF Going
  <2>4. t = b
    BY <2>3, FinishIs
  <2> HIDE DEF t
  <2>5. Brim(s, T, t, T, 0)
    BY <1>6, <2>2, <2>4 DEF Brim
  <2>6. Kept(s, g, T, t, g, T, 0)
    BY <2>2, <2>4 DEF Kept
  <2>7. Done(s, g, T, t, g, T, 0, p)
    BY <1>1, <2>2, <2>4, <2>5, <2>6 DEF Done
  <2>8. Typed(t) /\ s.metapages <= t.metapages
    BY <1>4 DEF Grown
  <2> QED
    BY <2>7, <2>8
<1> QED
  BY <1>3, <1>5, <1>6

\* The next page of the area is opened for level l.
Opening(s, g, T, l, p, b, k, V) ==
  /\ Ready(b, k, V, l - 1, p) /\ Goal(b, k, V, l - 1) = VirtToPhys(s.next)
  /\ VirtToPhys(s.next) \in Nat /\ b.metapages = s.next + 1 /\ s.next \in Nat
  /\ \A j \in 0 .. 3 : Entries(b, V, j) = Entries(s, T, j)
  /\ \A j \in 0 .. 3 : V[j] = IF j = l THEN T[l] + 1 ELSE T[j]
  /\ \A j \in 0 .. 3 : b.indices[j] = IF j = l THEN 0 ELSE s.indices[j]
  /\ \A j \in 0 .. 3 : \A i \in Nat : j # l => k[<<j, i>>] = g[<<j, i>>]

\* A table that is full is followed by the next page, which is mapped by now.
LEMMA Opens ==
  ASSUME Apart(dyn), NEW s, NEW g, NEW T, NEW l \in 1 .. 3, NEW p, Ready(s, g, T, l, p), Full(s, l)
  PROVE  \E k, V : Opening(s, g, T, l, p, Begin(s, l), k, V)
<1> DEFINE page == VirtToPhys(s.next)
           b == Begin(s, l)
           n == T[l] + 1
           k == Place(g, l, n, page)
           V == With(T, l, n)
<1>1. /\ Tree(s, g, T) /\ Counters(s, T) /\ Typed(s) /\ Going(s) /\ p \in Nat /\ p >= 3
      /\ p < Total /\ Entries(s, T, 3) = p + Len4 /\ s.metapages <= p /\ Cost(s) <= p + 12 + l
      /\ s.metapages \in Nat /\ s.next = s.metapages /\ Total \in Nat /\ Linked(s, T, l)
  <2>1. Tree(s, g, T) /\ Counters(s, T) /\ Typed(s) /\ s.next = s.metapages
    BY DEF Ready, Tree, Counters
  <2>2. Linked(s, T, l)
    <3>1. l <= l
      OBVIOUS
    <3> QED
      BY <3>1 DEF Ready
  <2>3. Going(s) /\ p \in Nat /\ p >= 3 /\ p < Total
    BY DEF Ready
  <2>4. Entries(s, T, 3) = p + Len4 /\ s.metapages <= p /\ Cost(s) <= p + 12 + l
    BY DEF Ready
  <2> QED
    BY <2>1, <2>2, <2>3, <2>4, TypedIs, AreaIs
<1>2. /\ \A j \in 0 .. 3 : s.indices[j] \in Nat
      /\ s.indices[l] = Len4
  <2>1. \A j \in 0 .. 3 : s.indices[j] \in 0 .. Len4 /\ s.indices[j] \in Nat
    BY <1>1, TypedIs
  <2>2. s.indices[l] \in 0 .. Len4 /\ s.indices[l] >= Len4
    BY <2>1 DEF Full
  <2>3. s.indices[l] = Len4
    BY <2>2, Len4Is
  <2> QED
    BY <2>1, <2>3
<1>3. \A j \in 1 .. 3 : j <= l => Linked(s, T, j) /\ s.indices[j] >= 1
  BY DEF Ready
<1>4. 4 * s.metapages + Len4 + (l - 1) <= Cost(s)
  <2>1. Cost(s) = 4 * s.metapages + s.indices[1] + s.indices[2] + s.indices[3]
    BY DEF Cost
  <2>2. s.indices[1] \in Nat /\ s.indices[2] \in Nat /\ s.indices[3] \in Nat /\ Len4 \in Nat
    BY <1>2, Len4Is
  <2>3. CASE l = 1
    BY <1>1, <1>2, <2>1, <2>2, <2>3
  <2>4. CASE l = 2
    <3>1. s.indices[1] >= 1
      BY <1>3, <2>4
    <3> QED
      BY <1>1, <1>2, <2>1, <2>2, <2>4, <3>1
  <2>5. CASE l = 3
    <3>1. s.indices[1] >= 1 /\ s.indices[2] >= 1
      BY <1>3, <2>5
    <3> QED
      BY <1>1, <1>2, <2>1, <2>2, <2>5, <3>1
  <2> QED
    BY <2>3, <2>4, <2>5
<1>5. s.metapages < p
  <2>1. Cost(s) \in Nat
    BY <1>1, CostNat
  <2>2. 4 * s.metapages + 5 + (l - 1) <= p + 12 + l
    BY <1>1, <1>4, <2>1, Len4Is
  <2> QED
    BY <1>1, <2>2
<1>6. page \in Nat
  <2>1. s.next \in 0 .. Total - 1
    BY <1>1, <1>5
  <2> QED
    BY <2>1, AreaIs
<1>7. Walk(s.mem, Indices(s.next)) = page
  <2>1. s.next \in Nat /\ s.next + Len4 < Entries(s, T, 3)
    BY <1>1, <1>5, Len4Is
  <2> QED
    BY <1>1, <2>1, Mapped
<1>8. b = Opened(s, l, page)
  <2>1. l \in 0 .. 3 /\ l # 0
    OBVIOUS
  <2>2. page \notin {Nil, Junk}
    BY <1>6 DEF Nil, Junk
  <2> HIDE DEF b, page
  <2> QED
    BY <1>7, <2>1, <2>2, BeginIs DEF b
<1>9. Tree(b, k, V)
  <2>1. s.metapages < Total
    BY <1>1, <1>5
  <2>2. Tree(Opened(s, l, VirtToPhys(s.next)), Place(g, l, T[l] + 1, VirtToPhys(s.next)),
             With(T, l, T[l] + 1))
    BY <1>1, <1>2, <2>1, TreeOpened
  <2> HIDE DEF b
  <2> QED
    BY <1>8, <2>2
<1> HIDE DEF page, b
<1>10. /\ Typed(b) /\ b.stopped = s.stopped /\ b.metapages = s.metapages + 1
  BY <1>1, <1>8, OpenedIs
<1>11. /\ Pending(b, V, l)
       /\ \A j \in 0 .. 3 : Entries(b, V, j) = Entries(s, T, j)
       /\ \A j \in 0 .. 3 : V[j] = IF j = l THEN n ELSE T[j]
       /\ \A j \in 0 .. 3 : b.indices[j] = IF j = l THEN 0 ELSE s.indices[j]
  <2>1. s.metapages < Total
    BY <1>1, <1>5
  <2> QED
    BY <1>1, <1>2, <1>8, <2>1, CountersOpened
<1> HIDE DEF V, k, n
<1>12. Cost(b) <= p + 12 + (l - 1)
  <2>1. Full(s, l) /\ s.metapages <= p + 1 /\ Cost(s) <= p + 15
    <3>1. Cost(s) \in Nat
      BY <1>1, CostNat
    <3> QED
      BY <1>1, <3>1
  <2>2. Cost(b) + 1 <= Cost(s)
    BY <1>1, <1>8, <2>1, OpenCost
  <2>3. Cost(b) \in Nat /\ Cost(s) \in Nat
    BY <1>1, <1>10, CostNat
  <2> QED
    BY <1>1, <2>2, <2>3
<1>13. ASSUME NEW j \in 1 .. 3
       PROVE  IF j <= l - 1 THEN Linked(b, V, j) /\ b.indices[j] >= 1 ELSE Pending(b, V, j)
  <2>1. j \in 0 .. 3 /\ j - 1 \in 0 .. 3
    OBVIOUS
  <2>2. CASE j <= l - 1
    <3>1. j <= l /\ j # l
      BY <2>2
    <3>2. V[j] = T[j] /\ b.indices[j] = s.indices[j] /\ Entries(b, V, j - 1) = Entries(s, T, j - 1)
      BY <1>11, <2>1, <3>1
    <3> QED
      BY <1>3, <2>2, <3>1, <3>2 DEF Linked
  <2>3. CASE j = l
    BY <1>11, <2>3
  <2>4. CASE j > l
    <3>1. ~(j <= l) /\ j # l
      BY <2>4
    <3>2. V[j] = T[j] /\ b.indices[j] = s.indices[j] /\ Entries(b, V, j - 1) = Entries(s, T, j - 1)
      BY <1>11, <2>1, <3>1
    <3>3. Pending(s, T, j)
      BY <3>1 DEF Ready
    <3>4. Pending(b, V, j)
      BY <3>2, <3>3 DEF Pending
    <3> QED
      BY <2>4, <3>4
  <2> QED
    BY <2>2, <2>3, <2>4
<1>14. Entries(b, V, 3) = p + Len4 /\ b.metapages <= p /\ Going(b)
  BY <1>1, <1>5, <1>10, <1>11 DEF Going
<1>15. Ready(b, k, V, l - 1, p)
  BY <1>1, <1>9, <1>12, <1>13, <1>14 DEF Ready
<1>16. Goal(b, k, V, l - 1) = page
  <2>1. (l - 1) + 1 = l /\ l \in 0 .. 4 /\ l \in 0 .. 3
    OBVIOUS
  <2>2. V[l] = Entries(b, V, l - 1)
    BY <1>11 DEF Pending
  <2>3. V[l] = n
    BY <1>11, <2>1
  <2>4. n \in Nat
    <3>1. T[l] \in Nat
      BY <1>1, <2>1, CountersIs
    <3> QED
      BY <3>1 DEF n
  <2>5. k[<<l, n>>] = page
    BY <2>1, <2>4, PlaceAt DEF k
  <2> QED
    BY <2>1, <2>2, <2>3, <2>5 DEF Goal
<1>17. \A j \in 0 .. 3 : \A i \in Nat : j # l => k[<<j, i>>] = g[<<j, i>>]
  <2> TAKE j \in 0 .. 3
  <2> TAKE i \in Nat
  <2> HAVE j # l
  <2>1. j \in 0 .. 4
    OBVIOUS
  <2> QED
    BY <2>1, PlaceAt DEF k
<1>18. Opening(s, g, T, l, p, b, k, V)
  BY <1>1, <1>6, <1>10, <1>11, <1>15, <1>16, <1>17 DEF Opening, page, n
<1>19. \E y, z : Opening(s, g, T, l, p, b, y, z)
  BY <1>18
<1> QED
  BY <1>19 DEF b

\* One level: Begin, the call for the level above it, which leads to m, Finish.
LEMMA LeadsUp ==
  ASSUME Apart(dyn), NEW s, NEW l \in 1 .. 3, NEW addr, NEW p, NEW m,
         IF Full(s, l) /\ Going(Begin(s, l))
           THEN Leads(Begin(s, l), m, VirtToPhys(s.next) % Wrap, l - 1, p)
           ELSE m = Begin(s, l),
         \A g, T : Ready(s, g, T, l, p) => Grown(s, Finish(m, l, addr), l, p)
  PROVE  Leads(s, Finish(m, l, addr), addr, l, p)
<1> DEFINE b == Begin(s, l)
           t == Finish(m, l, addr)
<1> SUFFICES ASSUME NEW g, NEW T, Ready(s, g, T, l, p)
             PROVE  /\ Typed(t) /\ s.metapages <= t.metapages
                    /\ Low(t) /\ addr = Goal(s, g, T, l) => \E h, U : Done(s, g, T, t, h, U, l, p)
  BY DEF Leads
<1>1. Typed(t) /\ s.metapages <= t.metapages
  BY DEF Grown
<1> SUFFICES ASSUME Low(t), addr = Goal(s, g, T, l)
             PROVE  \E h, U : Done(s, g, T, t, h, U, l, p)
  BY <1>1
<1>2. /\ Tree(s, g, T) /\ Counters(s, T) /\ Typed(s) /\ Going(s) /\ p \in Nat
      /\ Entries(s, T, 3) = p + Len4 /\ s.metapages <= p /\ s.metapages \in Nat
      /\ \A j \in 1 .. 3 : IF j <= l THEN Linked(s, T, j) ELSE Pending(s, T, j)
      /\ \A j \in 1 .. 3 : j <= l => s.indices[j] >= 1
      /\ \A j \in 0 .. 3 : s.indices[j] \in Nat
      /\ l \in 0 .. 3 /\ l # 0
  <2>1. Tree(s, g, T) /\ Counters(s, T) /\ Typed(s)
    BY DEF Ready, Tree, Counters
  <2> QED
    BY <2>1, TypedIs DEF Ready
<1>3. CASE ~Full(s, l)
  <2>1. b = s
    <3> HIDE DEF b
    <3> QED
      BY <1>2, <1>3, BeginIs DEF b
  <2>2. m = s
    BY <1>3, <2>1
  <2>3. s.indices[l] < Len4
    BY <1>2, <1>3, Len4Is DEF Full
  <2>4. /\ Tree(t, g, T) /\ Going(t) /\ t.metapages = s.metapages
        /\ \A j \in 0 .. 3 : Entries(t, T, j) = Entries(s, T, j) + (IF j = l THEN 1 ELSE 0)
        /\ \A j \in 0 .. 3 : t.indices[j] = s.indices[j] + (IF j = l THEN 1 ELSE 0)
        /\ \A j \in 1 .. 3 : IF j <= l + 1 THEN Linked(t, T, j) ELSE Pending(t, T, j)
    BY <1>2, <2>2, <2>3, Gain
  <2> HIDE DEF t
  <2>5. \A j \in 1 .. 3 : (j <= l => t.indices[j] >= 1) /\ (j > l => t.indices[j] = s.indices[j])
    <3> TAKE j \in 1 .. 3
    <3>1. j \in 0 .. 3
      OBVIOUS
    <3>2. t.indices[j] = s.indices[j] + (IF j = l THEN 1 ELSE 0) /\ s.indices[j] \in Nat
      BY <1>2, <2>4, <3>1
    <3>3. j <= l => s.indices[j] >= 1
      BY <1>2
    <3> QED
      BY <3>2, <3>3
  <2>6. Entries(t, T, l) = Entries(s, T, l) + 1
    BY <1>2, <2>4
  <2>7. Gained(s, T, t, T, l)
    BY <2>4, <2>5, <2>6 DEF Gained
  <2>8. Kept(s, g, T, t, g, T, l)
    BY <2>5 DEF Kept
  <2>9. Done(s, g, T, t, g, T, l, p)
    BY <1>2, <2>4, <2>7, <2>8 DEF Done
  <2> QED
    BY <2>9
<1>4. CASE Full(s, l)
  <2> DEFINE page == VirtToPhys(s.next)
  <2>1. PICK k, V : Opening(s, g, T, l, p, b, k, V)
    BY <1>4, Opens
  <2> HIDE DEF page, b
  <2>2. /\ Ready(b, k, V, l - 1, p) /\ Goal(b, k, V, l - 1) = page
        /\ page \in Nat /\ b.metapages = s.next + 1 /\ s.next \in Nat
        /\ \A j \in 0 .. 3 : Entries(b, V, j) = Entries(s, T, j)
        /\ \A j \in 0 .. 3 : V[j] = IF j = l THEN T[l] + 1 ELSE T[j]
        /\ \A j \in 0 .. 3 : b.indices[j] = IF j = l THEN 0 ELSE s.indices[j]
        /\ \A j \in 0 .. 3 : \A i \in Nat : j # l => k[<<j, i>>] = g[<<j, i>>]
    BY <2>1 DEF Opening, page
  <2>3. Going(b)
    BY <2>2 DEF Ready
  <2>4. Leads(b, m, page % Wrap, l - 1, p)
    BY <1>4, <2>3 DEF b, page
  <2>5. Typed(m) /\ b.metapages <= m.metapages
    BY <2>2, <2>4 DEF Leads
  <2>6. t.metapages = m.metapages
    <3> DEFINE to == TablePage(m, l)
    <3>1. \/ t = m \/ t = Halted(m, "page_fault") \/ t = Entered(m, l, to, addr)
      <4> HIDE DEF t, to
      <4> QED
        BY <1>2, FinishIs DEF t, to
    <3> HIDE DEF t, to
    <3>2. CASE t = Halted(m, "page_fault")
      BY <2>5, <3>2, HaltedIs DEF Reasons
    <3>3. CASE t = Entered(m, l, to, addr)
      BY <2>5, <3>3 DEF Entered, Typed, Factories
    <3> QED
      BY <3>1, <3>2, <3>3
  <2>7. Low(m)
    BY <2>6 DEF Low
  <2>8. page % Wrap = page
    <3>1. m.metapages \in Nat
      BY <2>5, TypedIs
    <3>2. s.next \in 0 .. m.metapages - 1
      BY <2>2, <2>5, <3>1
    <3>3. page < Wrap
      BY <2>7, <3>2 DEF Low, page
    <3>4. Wrap \in Nat
      BY LayoutAssumption
    <3> QED
      BY <2>2, <3>3, <3>4
  <2>9. PICK h, U : Done(b, k, V, m, h, U, l - 1, p)
    BY <2>2, <2>4, <2>7, <2>8 DEF Leads
  <2>10. /\ Tree(m, h, U) /\ m.metapages <= p
         /\ \A j \in 1 .. 3 : j > l - 1 => /\ U[j] = V[j] /\ m.indices[j] = b.indices[j]
                                           /\ h[<<j, U[j]>>] = k[<<j, V[j]>>]
         /\ Gained(b, V, m, U, l - 1) \/ Brim(b, V, m, U, l - 1)
    BY <2>9 DEF Done, Kept
  \* the tables above are where they were
  <2>11. \A j \in 1 .. 3 : j > l => /\ U[j] = T[j] /\ m.indices[j] = s.indices[j]
                                    /\ h[<<j, U[j]>>] = g[<<j, T[j]>>]
    <3> TAKE j \in 1 .. 3
    <3> HAVE j > l
    <3>1. j \in 0 .. 3 /\ j # l /\ j > l - 1
      OBVIOUS
    <3>2. U[j] = V[j] /\ m.indices[j] = b.indices[j] /\ h[<<j, U[j]>>] = k[<<j, V[j]>>]
      BY <2>10, <3>1
    <3>3. V[j] = T[j] /\ b.indices[j] = s.indices[j]
      BY <2>2, <3>1
    <3>4. T[j] \in Nat
      BY <1>2, <3>1, CountersIs
    <3> QED
      BY <2>2, <3>1, <3>2, <3>3, <3>4
  <2>12. CASE Brim(b, V, m, U, l - 1)
    <3>1. ~Going(m)
      BY <2>12 DEF Brim, Going
    <3>2. t = m
      BY <1>2, <3>1, FinishIs
    <3> HIDE DEF t
    <3>3. m.stopped = "out_of_bound" /\ b.indices[0] = Len4 \div 2
          /\ (\A j \in 1 .. 3 : j <= l - 1 => b.indices[j] = Len4)
          /\ \A j \in 0 .. 3 : Entries(m, U, j) = Entries(b, V, j)
      BY <2>12 DEF Brim
    <3>4. s.indices[0] = Len4 \div 2
      <4>1. 0 \in 0 .. 3 /\ 0 # l
        OBVIOUS
      <4> QED
        BY <2>2, <3>3, <4>1
    <3>5. \A j \in 1 .. 3 : j <= l => s.indices[j] = Len4
      <4> TAKE j \in 1 .. 3
      <4> HAVE j <= l
      <4>1. j \in 0 .. 3
        OBVIOUS
      <4>2. CASE j = l
        <5>1. s.indices[l] \in 0 .. Len4
          BY <1>2, TypedIs
        <5>2. s.indices[l] >= Len4
          BY <1>4 DEF Full
        <5>3. s.indices[l] = Len4
          BY <5>1, <5>2, Len4Is
        <5> QED
          BY <4>2, <5>3
      <4>3. CASE j # l
        <5>1. j <= l - 1
          BY <4>3
        <5> QED
          BY <2>2, <3>3, <4>1, <4>3, <5>1
      <4> QED
        BY <4>2, <4>3
    <3>6. Brim(s, T, t, U, l)
      BY <2>2, <3>2, <3>3, <3>4, <3>5 DEF Brim
    <3>7. Done(s, g, T, t, h, U, l, p)
      BY <2>10, <2>11, <3>2, <3>6 DEF Done, Kept
    <3> QED
      BY <3>7
  <2>13. CASE Gained(b, V, m, U, l - 1)
    <3>1. /\ Going(m)
          /\ \A j \in 1 .. 3 : IF j <= l THEN Linked(m, U, j) ELSE Pending(m, U, j)
          /\ \A j \in 1 .. 3 : j <= l - 1 => m.indices[j] >= 1
      <4>1. (l - 1) + 1 = l
        OBVIOUS
      <4> QED
        BY <2>13, <4>1 DEF Gained
    <3>2. U[l] = T[l] + 1 /\ m.indices[l] = 0
      <4>1. l > l - 1
        OBVIOUS
      <4> QED
        BY <1>2, <2>2, <2>10, <4>1
    <3>3. Entries(m, U, l) = Entries(s, T, l)
      <4>1. Entries(b, V, l) = Entries(s, T, l) /\ V[l] = T[l] + 1 /\ b.indices[l] = 0
        BY <1>2, <2>2
      <4> QED
        BY <3>2, <4>1 DEF Entries
    <3>4. Entries(m, U, 3) = p + Len4
      <4>1. CASE l = 3
        BY <1>2, <3>3, <4>1
      <4>2. CASE l # 3
        <5>1. 3 > l
          BY <4>2
        <5>2. U[3] = T[3] /\ m.indices[3] = s.indices[3]
          BY <2>11, <5>1
        <5> QED
          BY <1>2, <5>2 DEF Entries
      <4> QED
        BY <4>1, <4>2
    <3>5. addr = Goal(m, h, U, l)
      <4> DEFINE e == Entries(s, T, l)
      <4>1. e \in Nat
        BY <1>2, CountersIs
      <4>2. CASE l = 3
        <5>1. e >= Len4
          BY <1>2, <4>2, Len4Is
        <5>2. h[<<4, e>>] = VirtToPhys(e - Len4)
          BY <2>10, <4>1, <5>1 DEF Tree, Places
        <5>3. g[<<4, e>>] = VirtToPhys(e - Len4)
          BY <1>2, <4>1, <5>1 DEF Tree, Places
        <5> HIDE DEF e
        <5>4. l + 1 = 4
          BY <4>2
        <5> QED
          BY <3>3, <5>2, <5>3, <5>4 DEF Goal, e
      <4>3. CASE l # 3
        <5>1. l + 1 \in 1 .. 3 /\ l + 1 > l /\ ~(l + 1 <= l) /\ (l + 1) - 1 = l
          BY <4>3
        <5>2. T[l + 1] = e
          BY <1>2, <5>1 DEF Pending
        <5>3. U[l + 1] = T[l + 1] /\ h[<<l + 1, U[l + 1]>>] = g[<<l + 1, T[l + 1]>>]
          BY <2>11, <5>1
        <5> QED
          BY <3>3, <5>2, <5>3 DEF Goal
      <4> QED
        BY <4>2, <4>3
    <3>6. m.indices[l] < Len4
      BY <3>2, Len4Is
    <3>7. /\ Tree(t, h, U) /\ Going(t) /\ t.metapages = m.metapages
          /\ \A j \in 0 .. 3 : Entries(t, U, j) = Entries(m, U, j) + (IF j = l THEN 1 ELSE 0)
          /\ \A j \in 0 .. 3 : t.indices[j] = m.indices[j] + (IF j = l THEN 1 ELSE 0)
          /\ \A j \in 1 .. 3 : IF j <= l + 1 THEN Linked(t, U, j) ELSE Pending(t, U, j)
      BY <1>2, <2>10, <3>1, <3>4, <3>5, <3>6, Gain
    <3> HIDE DEF t
    <3>8. \A j \in 1 .. 3 : (j <= l => t.indices[j] >= 1) /\ (j > l => t.indices[j] = m.indices[j])
      <4> TAKE j \in 1 .. 3
      <4>1. j \in 0 .. 3
        OBVIOUS
      <4>2. t.indices[j] = m.indices[j] + (IF j = l THEN 1 ELSE 0) /\ m.indices[j] \in Nat
        BY <2>5, <3>7, <4>1, TypedIs
      <4>3. j <= l - 1 => m.indices[j] >= 1
        BY <3>1
      <4> QED
        BY <4>2, <4>3
    <3>9. Gained(s, T, t, U, l)
      <4>1. Entries(t, U, l) = Entries(s, T, l) + 1
        BY <1>2, <3>3, <3>7
      <4> QED
        BY <3>7, <3>8, <4>1 DEF Gained
    <3>10. Kept(s, g, T, t, h, U, l)
      BY <2>11, <3>8 DEF Kept
    <3>11. Done(s, g, T, t, h, U, l, p)
      BY <2>10, <3>7, <3>9, <3>10 DEF Done
    <3> QED
      BY <3>11
  <2> QED
    BY <2>10, <2>12, <2>13
<1> QED
  BY <1>3, <1>4

\* What Grown asks for.
LEMMA ReadyIs ==
  ASSUME NEW s, NEW g, NEW T, NEW l \in 0 .. 3, NEW p, Ready(s, g, T, l, p)
  PROVE  Typed(s) /\ p \in Nat /\ p >= 3 /\ Cost(s) <= p + 15 /\ s.metapages <= p + 1
<1>1. Typed(s) /\ p \in Nat /\ p >= 3 /\ s.metapages <= p /\ Cost(s) <= p + 12 + l
  BY DEF Ready, Tree, Counters
<1>2. s.metapages \in Nat /\ Cost(s) \in Nat
  BY <1>1, TypedIs, CostNat
<1> QED
  BY <1>1, <1>2

LEMMA Leads1 ==
  ASSUME Apart(dyn), NEW s, NEW addr, NEW p
  PROVE  Leads(s, NextRecur1(s, addr), addr, 1, p)
<1> DEFINE m == Middle1(s)
<1>1. IF Full(s, 1) /\ Going(Begin(s, 1))
        THEN Leads(Begin(s, 1), m, VirtToPhys(s.next) % Wrap, 1 - 1, p)
        ELSE m = Begin(s, 1)
  <2>1. 1 - 1 = 0
    OBVIOUS
  <2> QED
    BY <2>1, Leads0 DEF Middle1
<1> HIDE DEF m
<1>2. NextRecur1(s, addr) = Finish(m, 1, addr)
  BY Calls DEF m
<1>3. \A g, T : Ready(s, g, T, 1, p) => Grown(s, Finish(m, 1, addr), 1, p)
  <2> TAKE g, T
  <2> HAVE Ready(s, g, T, 1, p)
  <2>1. Grown(s, NextRecur1(s, addr), 1, p)
    BY ReadyIs, Grown1
  <2> QED
    BY <1>2, <2>1
<1>4. Leads(s, Finish(m, 1, addr), addr, 1, p)
  BY <1>1, <1>3, LeadsUp
<1> QED
  BY <1>2, <1>4

LEMMA Leads2 ==
  ASSUME Apart(dyn), NEW s, NEW addr, NEW p
  PROVE  Leads(s, NextRecur2(s, addr), addr, 2, p)
<1> DEFINE m == Middle2(s)
<1>1. IF Full(s, 2) /\ Going(Begin(s, 2))
        THEN Leads(Begin(s, 2), m, VirtToPhys(s.next) % Wrap, 2 - 1, p)
        ELSE m = Begin(s, 2)
  <2>1. 2 - 1 = 1
    OBVIOUS
  <2> QED
    BY <2>1, Leads1 DEF Middle2
<1> HIDE DEF m
<1>2. NextRecur2(s, addr) = Finish(m, 2, addr)
  BY Calls DEF m
<1>3. \A g, T : Ready(s, g, T, 2, p) => Grown(s, Finish(m, 2, addr), 2, p)
  <2> TAKE g, T
  <2> HAVE Ready(s, g, T, 2, p)
  <2>1. Grown(s, NextRecur2(s, addr), 2, p)
    BY ReadyIs, Grown2
  <2> QED
    BY <1>2, <2>1
<1>4. Leads(s, Finish(m, 2, addr), addr, 2, p)
  BY <1>1, <1>3, LeadsUp
<1> QED
  BY <1>2, <1>4

\* The whole call.
LEMMA LeadsAll ==
  ASSUME Apart(dyn), NEW s, NEW addr, NEW p
  PROVE  Leads(s, NextRecur(s, addr), addr, 3, p)
<1> DEFINE m == Middle3(s)
<1>1. IF Full(s, 3) /\ Going(Begin(s, 3))
        THEN Leads(Begin(s, 3), m, VirtToPhys(s.next) % Wrap, 3 - 1, p)
        ELSE m = Begin(s, 3)
  <2>1. 3 - 1 = 2
    OBVIOUS
  <2> QED
    BY <2>1, Leads2 DEF Middle3
<1> HIDE DEF m
<1>2. NextRecur(s, addr) = Finish(m, 3, addr)
  BY Calls DEF m
<1>3. \A g, T : Ready(s, g, T, 3, p) => Grown(s, Finish(m, 3, addr), 3, p)
  <2> TAKE g, T
  <2> HAVE Ready(s, g, T, 3, p)
  <2>1. Grown(s, NextRecur(s, addr), 3, p)
    BY ReadyIs, GrownAll
  <2> QED
    BY <1>2, <2>1
<1>4. Leads(s, Finish(m, 3, addr), addr, 3, p)
  BY <1>1, <1>3, LeadsUp
<1> QED
  BY <1>2, <1>4

-----------------------------------------------------------------------------
(* The first three pages                                                   *)

\* The first three pages are found through the table that stands for itself.
LEMMA SelfMapped ==
  ASSUME NEW p \in [1 .. 3 -> Nat]
  PROVE  \E mem :
           /\ Shaped(mem) /\ DOMAIN mem = {Root, Tmp}
           /\ \A i \in 0 .. Len4 - 1 : At(mem, Root)[i] = IF i = 1 THEN Tmp ELSE Nil
           /\ ConstructDyn3(Blank, p) =
                Put(Put(Put(Put(Put(Put(Put(mem, Root, 0, p[1]), p[1], 0, p[2]), p[2], 1, p[3]),
                                p[3], 0, p[1]), p[3], 1, p[2]), p[3], 2, p[3]), Root, 1, Nil)
<1> DEFINE tmp == [[[[[Filled(Junk) EXCEPT ![0] = Tmp] EXCEPT ![1] = Tmp]
                      EXCEPT ![2] = p[1]] EXCEPT ![3] = p[2]] EXCEPT ![4] = p[3]]
           y == Put(Blank, Root, 1, Tmp)
           mem == SetTable(y, Tmp, tmp)
           pdpt0 == Walk(mem, <<1, 0, 1, 2>>)
           pdt0 == Walk(mem, <<1, 0, 1, 3>>)
           pt0 == Walk(mem, <<1, 0, 1, 4>>)
<1>1. 0 \in 0 .. Len4 - 1 /\ 1 \in 0 .. Len4 - 1 /\ 2 \in 0 .. Len4 - 1
      /\ 3 \in 0 .. Len4 - 1 /\ 4 \in 0 .. Len4 - 1
  BY Len4Is
<1>2. /\ DOMAIN tmp = 0 .. Len4 - 1
      /\ tmp[0] = Tmp /\ tmp[1] = Tmp /\ tmp[2] = p[1] /\ tmp[3] = p[2] /\ tmp[4] = p[3]
  <2> DEFINE a == Filled(Junk)
             b == With(a, 0, Tmp)
             c == With(b, 1, Tmp)
             d == With(c, 2, p[1])
             e == With(d, 3, p[2])
             z == With(e, 4, p[3])
  <2>1. DOMAIN a = 0 .. Len4 - 1
    BY DEF Filled
  <2> HIDE DEF a
  <2>2. DOMAIN b = 0 .. Len4 - 1 /\ \A i \in 0 .. Len4 - 1 : b[i] = IF i = 0 THEN Tmp ELSE a[i]
    BY <1>1, <2>1 DEF With
  <2> HIDE DEF b
  <2>3. DOMAIN c = 0 .. Len4 - 1 /\ \A i \in 0 .. Len4 - 1 : c[i] = IF i = 1 THEN Tmp ELSE b[i]
    BY <1>1, <2>2 DEF With
  <2> HIDE DEF c
  <2>4. DOMAIN d = 0 .. Len4 - 1 /\ \A i \in 0 .. Len4 - 1 : d[i] = IF i = 2 THEN p[1] ELSE c[i]
    BY <1>1, <2>3 DEF With
  <2> HIDE DEF d
  <2>5. DOMAIN e = 0 .. Len4 - 1 /\ \A i \in 0 .. Len4 - 1 : e[i] = IF i = 3 THEN p[2] ELSE d[i]
    BY <1>1, <2>4 DEF With
  <2> HIDE DEF e
  <2>6. DOMAIN z = 0 .. Len4 - 1 /\ \A i \in 0 .. Len4 - 1 : z[i] = IF i = 4 THEN p[3] ELSE e[i]
    BY <1>1, <2>5 DEF With
  <2>7. z = tmp
    BY DEF a, b, c, d, e, With
  <2> HIDE DEF z, tmp
  <2>8. z[0] = Tmp /\ z[1] = Tmp /\ z[2] = p[1] /\ z[3] = p[2] /\ z[4] = p[3]
    BY <1>1, <2>2, <2>3, <2>4, <2>5, <2>6
  <2> QED
    BY <2>6, <2>7, <2>8
<1> HIDE DEF tmp
<1>3. Shaped(Blank) /\ DOMAIN Blank = {Root} /\ \A i \in 0 .. Len4 - 1 : At(Blank, Root)[i] = Nil
  BY DEF Shaped, Filled, At, Blank
<1>4. Shaped(y) /\ DOMAIN y = {Root}
  <2>1. Shaped(Blank) /\ 1 \in 0 .. Len4 - 1
    BY <1>1, <1>3
  <2>2. Shaped(y) /\ DOMAIN y = DOMAIN Blank \cup {Root}
    BY <2>1, PutIs
  <2> HIDE DEF y
  <2> QED
    BY <1>3, <2>2
<1>5. \A i \in 0 .. Len4 - 1 : At(y, Root)[i] = IF i = 1 THEN Tmp ELSE Nil
  <2> TAKE i \in 0 .. Len4 - 1
  <2>1. At(y, Root)[i] = IF Root = Root /\ i = 1 THEN Tmp ELSE At(Blank, Root)[i]
    BY <1>1, <1>3, PutAt
  <2> QED
    BY <1>3, <2>1
<1> HIDE DEF y
<1>6. Root # Tmp
  BY DEF Root, Tmp
<1>7. /\ DOMAIN mem = {Root, Tmp}
      /\ \A q \in DOMAIN mem : mem[q] = IF q = Tmp THEN tmp ELSE y[q]
  BY <1>4, <1>6 DEF SetTable
<1> HIDE DEF mem
<1>8. Shaped(mem)
  BY <1>2, <1>4, <1>7 DEF Shaped
<1>9. At(mem, Tmp) = tmp /\ At(mem, Root) = At(y, Root)
  BY <1>4, <1>6, <1>7 DEF At
<1>10. /\ Enter(mem, Root, 1) = Tmp /\ Enter(mem, Tmp, 0) = Tmp /\ Enter(mem, Tmp, 1) = Tmp
       /\ Enter(mem, Tmp, 2) = p[1] /\ Enter(mem, Tmp, 3) = p[2] /\ Enter(mem, Tmp, 4) = p[3]
  <2>1. Root \notin {Nil, Junk} /\ Tmp \notin {Nil, Junk}
    BY DEF Root, Tmp, Nil, Junk
  <2> QED
    BY <1>1, <1>2, <1>5, <1>9, <2>1 DEF Enter
<1>11. pdpt0 = p[1] /\ pdt0 = p[2] /\ pt0 = p[3]
  BY <1>10 DEF Walk
<1> DEFINE m1(a, b, c) == Put(Put(Put(mem, Root, 0, p[1]), a, 0, p[2]), b, 1, p[3])
           m2(a, b, c) == Put(Put(Put(m1(a, b, c), c, 0, p[1]), c, 1, p[2]), c, 2, p[3])
<1>12. ConstructDyn3(Blank, p) = Put(m2(pdpt0, pdt0, pt0), Root, 1, Nil)
  BY DEF ConstructDyn3, mem, y, tmp
<1>13. ConstructDyn3(Blank, p) = Put(m2(p[1], p[2], p[3]), Root, 1, Nil)
  BY <1>11, <1>12
<1> QED
  BY <1>5, <1>7, <1>8, <1>9, <1>13

\* Memory t is memory m with x at index k of the table at p.
Changed(m, t, p, k, x) ==
  /\ Shaped(t) /\ DOMAIN t = DOMAIN m \cup {p}
  /\ \A q : \A i \in 0 .. Len4 - 1 :
       At(t, q)[i] = IF q = p /\ i = k THEN x ELSE At(m, q)[i]

LEMMA PutChanges ==
  ASSUME NEW m, Shaped(m), NEW p, NEW k \in 0 .. Len4 - 1, NEW x
  PROVE  Changed(m, Put(m, p, k, x), p, k, x)
<1> DEFINE t == Put(m, p, k, x)
<1>1. Shaped(t) /\ DOMAIN t = DOMAIN m \cup {p}
  BY PutIs
<1>2. ASSUME NEW q, NEW i \in 0 .. Len4 - 1
      PROVE  At(t, q)[i] = IF q = p /\ i = k THEN x ELSE At(m, q)[i]
  BY PutAt
<1> HIDE DEF t
<1>3. Changed(m, t, p, k, x)
  BY <1>1, <1>2 DEF Changed
<1> QED
  BY <1>3 DEF t

\* The root and the tables in the first three pages, one above the other.
Three(m, p) ==
  /\ Shaped(m) /\ DOMAIN m = {Root, Tmp, p[1], p[2], p[3]}
  /\ \A i \in 0 .. Len4 - 1 :
       /\ At(m, Root)[i] = IF i = 0 THEN p[1] ELSE Nil
       /\ At(m, p[1])[i] = IF i = 0 THEN p[2] ELSE Junk
       /\ At(m, p[2])[i] = IF i = 1 THEN p[3] ELSE Junk
       /\ At(m, p[3])[i] = IF i \in 0 .. 2 THEN p[i + 1] ELSE Junk

LEMMA Constructed ==
  ASSUME NEW p \in [1 .. 3 -> Nat],
         p[1] # p[2], p[1] # p[3], p[2] # p[3]
  PROVE  Three(ConstructDyn3(Blank, p), p)
<1> DEFINE a == p[1]
           b == p[2]
           c == p[3]
           zero == 0
           one == 1
           two == 2
<1>1. PICK m0 :
           /\ Shaped(m0) /\ DOMAIN m0 = {Root, Tmp}
           /\ \A i \in 0 .. Len4 - 1 : At(m0, Root)[i] = IF i = 1 THEN Tmp ELSE Nil
           /\ ConstructDyn3(Blank, p) =
                Put(Put(Put(Put(Put(Put(Put(m0, Root, 0, a), a, 0, b), b, 1, c),
                                c, 0, a), c, 1, b), c, 2, c), Root, 1, Nil)
  BY SelfMapped
<1> DEFINE m1 == Put(m0, Root, zero, a)
           m2 == Put(m1, a, zero, b)
           m3 == Put(m2, b, one, c)
           m4 == Put(m3, c, zero, a)
           m5 == Put(m4, c, one, b)
           m6 == Put(m5, c, two, c)
           m == Put(m6, Root, one, Nil)
<1>2. ConstructDyn3(Blank, p) = m
  BY <1>1
<1>3. zero \in 0 .. Len4 - 1 /\ one \in 0 .. Len4 - 1 /\ two \in 0 .. Len4 - 1
  BY Len4Is
<1>4. a \in Nat /\ b \in Nat /\ c \in Nat /\ a # b /\ a # c /\ b # c
  OBVIOUS
<1>5. \A x \in Nat : x # Root /\ x # Tmp
  BY DEF Root, Tmp
<1> HIDE DEF zero, one, two, a, b, c
<1>6. Changed(m0, m1, Root, zero, a)
  <2>1. Shaped(m0)
    BY <1>1 DEF Changed
  <2> QED
    BY <1>3, <2>1, PutChanges
<1> HIDE DEF m1
<1>7. Changed(m1, m2, a, zero, b)
  <2>1. Shaped(m1)
    BY <1>6 DEF Changed
  <2> QED
    BY <1>3, <2>1, PutChanges
<1> HIDE DEF m2
<1>8. Changed(m2, m3, b, one, c)
  <2>1. Shaped(m2)
    BY <1>7 DEF Changed
  <2> QED
    BY <1>3, <2>1, PutChanges
<1> HIDE DEF m3
<1>9. Changed(m3, m4, c, zero, a)
  <2>1. Shaped(m3)
    BY <1>8 DEF Changed
  <2> QED
    BY <1>3, <2>1, PutChanges
<1> HIDE DEF m4
<1>10. Changed(m4, m5, c, one, b)
  <2>1. Shaped(m4)
    BY <1>9 DEF Changed
  <2> QED
    BY <1>3, <2>1, PutChanges
<1> HIDE DEF m5
<1>11. Changed(m5, m6, c, two, c)
  <2>1. Shaped(m5)
    BY <1>10 DEF Changed
  <2> QED
    BY <1>3, <2>1, PutChanges
<1> HIDE DEF m6
<1>12. Changed(m6, m, Root, one, Nil)
  <2>1. Shaped(m6)
    BY <1>11 DEF Changed
  <2> QED
    BY <1>3, <2>1, PutChanges
<1> HIDE DEF m
<1>13. Shaped(m) /\ DOMAIN m = {Root, Tmp, a, b, c}
  BY <1>1, <1>6, <1>7, <1>8, <1>9, <1>10, <1>11, <1>12 DEF Changed
<1>14. \A q \in {a, b, c} : \A i \in 0 .. Len4 - 1 : At(m0, q)[i] = Junk
  BY <1>1, <1>4, <1>5 DEF At, Filled
<1>15. zero = 0 /\ one = 1 /\ two = 2
  BY DEF zero, one, two
<1>16. ASSUME NEW i \in 0 .. Len4 - 1
       PROVE  /\ At(m, Root)[i] = IF i = 0 THEN a ELSE Nil
              /\ At(m, a)[i] = IF i = 0 THEN b ELSE Junk
              /\ At(m, b)[i] = IF i = 1 THEN c ELSE Junk
              /\ At(m, c)[i] = IF i = 0 THEN a ELSE IF i = 1 THEN b ELSE IF i = 2 THEN c ELSE Junk
  <2>1. \A q : At(m, q)[i] = IF q = Root /\ i = one THEN Nil ELSE
               IF q = c /\ i = two THEN c ELSE IF q = c /\ i = one THEN b ELSE
               IF q = c /\ i = zero THEN a ELSE IF q = b /\ i = one THEN c ELSE
               IF q = a /\ i = zero THEN b ELSE IF q = Root /\ i = zero THEN a ELSE At(m0, q)[i]
    <3> TAKE q
    <3>1. At(m1, q)[i] = IF q = Root /\ i = zero THEN a ELSE At(m0, q)[i]
      BY <1>6 DEF Changed
    <3>2. At(m2, q)[i] = IF q = a /\ i = zero THEN b ELSE At(m1, q)[i]
      BY <1>7 DEF Changed
    <3>3. At(m3, q)[i] = IF q = b /\ i = one THEN c ELSE At(m2, q)[i]
      BY <1>8 DEF Changed
    <3>4. At(m4, q)[i] = IF q = c /\ i = zero THEN a ELSE At(m3, q)[i]
      BY <1>9 DEF Changed
    <3>5. At(m5, q)[i] = IF q = c /\ i = one THEN b ELSE At(m4, q)[i]
      BY <1>10 DEF Changed
    <3>6. At(m6, q)[i] = IF q = c /\ i = two THEN c ELSE At(m5, q)[i]
      BY <1>11 DEF Changed
    <3>7. At(m, q)[i] = IF q = Root /\ i = one THEN Nil ELSE At(m6, q)[i]
      BY <1>12 DEF Changed
    <3> QED
      BY <3>1, <3>2, <3>3, <3>4, <3>5, <3>6, <3>7
  <2>2. a # Root /\ b # Root /\ c # Root
    BY <1>4, <1>5
  <2>3. At(m0, Root)[i] = (IF i = 1 THEN Tmp ELSE Nil)
        /\ At(m0, a)[i] = Junk /\ At(m0, b)[i] = Junk /\ At(m0, c)[i] = Junk
    BY <1>1, <1>14
  <2>4. At(m, Root)[i] = IF i = 0 THEN a ELSE Nil
    BY <1>15, <2>1, <2>2, <2>3
  <2>5. At(m, a)[i] = IF i = 0 THEN b ELSE Junk
    BY <1>4, <1>15, <2>1, <2>2, <2>3
  <2>6. At(m, b)[i] = IF i = 1 THEN c ELSE Junk
    BY <1>4, <1>15, <2>1, <2>2, <2>3
  <2>7. At(m, c)[i] = IF i = 0 THEN a ELSE IF i = 1 THEN b ELSE IF i = 2 THEN c ELSE Junk
    BY <1>4, <1>15, <2>1, <2>2, <2>3
  <2> QED
    BY <2>4, <2>5, <2>6, <2>7
<1>17. ASSUME NEW i \in 0 .. Len4 - 1
       PROVE  /\ At(m, Root)[i] = IF i = 0 THEN p[1] ELSE Nil
              /\ At(m, p[1])[i] = IF i = 0 THEN p[2] ELSE Junk
              /\ At(m, p[2])[i] = IF i = 1 THEN p[3] ELSE Junk
              /\ At(m, p[3])[i] = IF i \in 0 .. 2 THEN p[i + 1] ELSE Junk
  <2>1. i = 0 \/ i = 1 \/ i = 2 \/ ~(i \in 0 .. 2)
    OBVIOUS
  <2>2. a = p[1] /\ b = p[2] /\ c = p[3]
    BY DEF a, b, c
  <2>3. At(m, c)[i] = IF i \in 0 .. 2 THEN p[i + 1] ELSE Junk
    BY <1>16, <2>1, <2>2
  <2> QED
    BY <1>16, <2>2, <2>3
<1>18. a = p[1] /\ b = p[2] /\ c = p[3]
  BY DEF a, b, c
<1>19. Three(m, p)
  BY <1>13, <1>17, <1>18 DEF Three
<1> QED
  BY <1>2, <1>19

\* The tree that the first three pages make.
LEMMA Planted ==
  ASSUME Apart(dyn), Total >= 3, NEW t, Typed(t), t.next = 3, t.metapages = 3,
         t.tables = Factory.tables, t.indices = Factory.indices,
         NEW p \in [1 .. 3 -> Nat], \A i \in 1 .. 3 : p[i] = VirtToPhys(i - 1),
         t.mem = ConstructDyn3(Blank, p)
  PROVE  \E g, T : /\ Tree(t, g, T) /\ Entries(t, T, 3) = 3 + Len4
                   /\ \A j \in 1 .. 3 : Linked(t, T, j) /\ t.indices[j] >= 1
<1> DEFINE T == [l \in 0 .. 3 |-> IF l = 3 THEN 1 ELSE 0]
           G(l, k) == IF l = 0 THEN Root ELSE IF l = 4 THEN VirtToPhys(k - Len4) ELSE p[l]
           g == [x \in (0 .. 4) \X Nat |-> G(x[1], x[2])]
           m == t.mem
<1>1. Total \in Nat /\ 0 \in 0 .. Total - 1 /\ 1 \in 0 .. Total - 1 /\ 2 \in 0 .. Total - 1
  BY AreaIs
<1>2. p[1] = VirtToPhys(0) /\ p[2] = VirtToPhys(1) /\ p[3] = VirtToPhys(2)
  <2>1. p[1] = VirtToPhys(1 - 1) /\ p[2] = VirtToPhys(2 - 1) /\ p[3] = VirtToPhys(3 - 1)
    OBVIOUS
  <2>2. 1 - 1 = 0 /\ 2 - 1 = 1 /\ 3 - 1 = 2
    OBVIOUS
  <2> QED
    BY <2>1, <2>2
<1>3. p[1] # p[2] /\ p[1] # p[3] /\ p[2] # p[3]
  <2>1. 0 # 1 /\ 0 # 2 /\ 1 # 2
    OBVIOUS
  <2> QED
    BY <1>1, <1>2, <2>1, PagesDiffer
<1>4. p[1] \in Nat /\ p[2] \in Nat /\ p[3] \in Nat
  OBVIOUS
<1>5. /\ Shaped(m) /\ DOMAIN m = {Root, Tmp, p[1], p[2], p[3]}
      /\ \A i \in 0 .. Len4 - 1 :
           /\ At(m, Root)[i] = IF i = 0 THEN p[1] ELSE Nil
           /\ At(m, p[1])[i] = IF i = 0 THEN p[2] ELSE Junk
           /\ At(m, p[2])[i] = IF i = 1 THEN p[3] ELSE Junk
           /\ At(m, p[3])[i] = IF i \in 0 .. 2 THEN p[i + 1] ELSE Junk
  <2>1. Three(m, p)
    BY <1>3, Constructed
  <2> HIDE DEF m
  <2> QED
    BY <2>1 DEF Three
<1> HIDE DEF m
<1>6. T \in [0 .. 3 -> Nat] /\ T[0] = 0 /\ T[1] = 0 /\ T[2] = 0 /\ T[3] = 1
  OBVIOUS
<1>7. /\ t.indices[0] = 1 /\ t.indices[1] = 1 /\ t.indices[2] = 2 /\ t.indices[3] = 3
      /\ t.tables[1] = 0 /\ t.tables[2] = 1 /\ t.tables[3] = 2
  <2>1. Factory.tables = [l \in 1 .. 3 |-> l - 1]
    BY DEF Factory
  <2>2. t.tables[1] = 0 /\ t.tables[2] = 1 /\ t.tables[3] = 2
    BY <2>1
  <2>3. t.indices[0] = 1 /\ t.indices[1] = 1 /\ t.indices[2] = 2 /\ t.indices[3] = 3
    BY FactoryIs
  <2> QED
    BY <2>2, <2>3
<1>8. \A l \in 0 .. 4 : \A k \in Nat : g[<<l, k>>] = G(l, k)
  OBVIOUS
<1> HIDE DEF T, g
<1>9. /\ Entries(t, T, 0) = 1 /\ Entries(t, T, 1) = 1 /\ Entries(t, T, 2) = 2
      /\ Entries(t, T, 3) = 3 + Len4
  <2>1. Num(0) = 0 /\ Num(1) = Len4
    BY NumIs
  <2>2. Len4 + 3 = 3 + Len4
    BY Len4Is
  <2> QED
    BY <1>6, <1>7, <2>1, <2>2 DEF Entries
<1>10. \A j \in 1 .. 3 : Linked(t, T, j) /\ t.indices[j] >= 1 /\ First(j - 1) <= T[j]
  <2> TAKE j \in 1 .. 3
  <2>1. CASE j = 1
    <3>1. j - 1 = 0 /\ First(0) = 0
      BY <2>1, FirstIs
    <3> QED
      BY <1>6, <1>7, <1>9, <2>1, <3>1 DEF Linked
  <2>2. CASE j = 2
    <3>1. j - 1 = 1 /\ First(1) = 0
      BY <2>2, FirstIs
    <3> QED
      BY <1>6, <1>7, <1>9, <2>2, <3>1 DEF Linked
  <2>3. CASE j = 3
    <3>1. j - 1 = 2 /\ First(2) = 1
      BY <2>3, FirstIs
    <3> QED
      BY <1>6, <1>7, <1>9, <2>3, <3>1 DEF Linked
  <2> QED
    BY <2>1, <2>2, <2>3
<1>11. Counters(t, T)
  <2>1. t.next = t.metapages /\ t.metapages <= Total
    BY <1>1
  <2>2. t.indices[0] <= Len4 \div 2
    BY <1>7, Len4Is
  <2> QED
    BY <1>6, <1>10, <2>1, <2>2 DEF Counters
<1>12. Known(t) = {p[1], p[2], p[3]}
  <2>1. 0 .. t.metapages - 1 = {0, 1, 2}
    <3>1. 0 .. 3 - 1 = {0, 1, 2}
      OBVIOUS
    <3> QED
      BY <3>1
  <2> QED
    BY <1>2, <2>1 DEF Known
<1>13. \A l \in 0 .. 3 : \A k \in Nat : Table(T, l, k) <=> k = IF l = 3 THEN 1 ELSE 0
  <2> TAKE l \in 0 .. 3
  <2> TAKE k \in Nat
  <2>1. CASE l = 0
    BY <2>1 DEF Table
  <2>2. CASE l = 1
    <3>1. l - 1 = 0 /\ First(0) = 0
      BY <2>2, FirstIs
    <3> QED
      BY <1>6, <2>2, <3>1 DEF Table
  <2>3. CASE l = 2
    <3>1. l - 1 = 1 /\ First(1) = 0
      BY <2>3, FirstIs
    <3> QED
      BY <1>6, <2>3, <3>1 DEF Table
  <2>4. CASE l = 3
    <3>1. l - 1 = 2 /\ First(2) = 1
      BY <2>4, FirstIs
    <3> QED
      BY <1>6, <2>4, <3>1 DEF Table
  <2> QED
    BY <2>1, <2>2, <2>3, <2>4
<1>14. \A l \in 1 .. 3 : \A k \in Nat : g[<<l, k>>] = p[l]
  <2> TAKE l \in 1 .. 3
  <2> TAKE k \in Nat
  <2>1. l \in 0 .. 4 /\ l # 0 /\ l # 4
    OBVIOUS
  <2> QED
    BY <1>8, <2>1
<1>15. (\A k \in Nat : g[<<0, k>>] = Root) /\ \A k \in Nat : g[<<4, k>>] = VirtToPhys(k - Len4)
  <2>1. 0 \in 0 .. 4 /\ 4 \in 0 .. 4 /\ 4 # 0
    OBVIOUS
  <2> QED
    BY <1>8, <2>1
<1>16. Places(t, g, T)
  <2>1. \A l \in 1 .. 3 : t.tables[l] < t.metapages /\ VirtToPhys(t.tables[l]) = g[<<l, T[l]>>]
    <3> TAKE l \in 1 .. 3
    <3>1. T[l] \in Nat
      BY <1>6
    <3>2. g[<<l, T[l]>>] = p[l]
      BY <1>14, <3>1
    <3>3. l = 1 \/ l = 2 \/ l = 3
      OBVIOUS
    <3>4. t.tables[l] < 3 /\ VirtToPhys(t.tables[l]) = p[l]
      BY <1>2, <1>7, <3>3
    <3> QED
      BY <3>2, <3>4
  <2>2. \A l \in 1 .. 3 : \A k \in Nat : g[<<l, k>>] \in Known(t)
    <3> TAKE l \in 1 .. 3
    <3>1. l = 1 \/ l = 2 \/ l = 3
      OBVIOUS
    <3> QED
      BY <1>12, <1>14, <3>1
  <2>3. \A l, j \in 0 .. 3 : \A k, i \in Nat : g[<<l, k>>] = g[<<j, i>>] => l = j
    <3> TAKE l, j \in 0 .. 3
    <3> TAKE k, i \in Nat
    <3> HAVE g[<<l, k>>] = g[<<j, i>>]
    <3>1. (l = 0 /\ g[<<l, k>>] = Root) \/ (l \in 1 .. 3 /\ g[<<l, k>>] = p[l])
      BY <1>14, <1>15
    <3>2. (j = 0 /\ g[<<j, i>>] = Root) \/ (j \in 1 .. 3 /\ g[<<j, i>>] = p[j])
      BY <1>14, <1>15
    <3>3. \A x \in Nat : x # Root
      BY DEF Root
    <3>4. \A x, y \in 1 .. 3 : p[x] = p[y] => x = y
      <4> TAKE x, y \in 1 .. 3
      <4>1. (x = 1 \/ x = 2 \/ x = 3) /\ (y = 1 \/ y = 2 \/ y = 3)
        OBVIOUS
      <4> QED
        BY <1>3, <4>1
    <3>5. \A x \in 1 .. 3 : p[x] # Root
      BY <3>3
    <3> QED
      BY <3>1, <3>2, <3>4, <3>5
  <2>4. g[<<0, 0>>] = Root
    BY <1>15
  <2>5. \A l, j \in 0 .. 3 : \A k, i \in Nat :
          Table(T, l, k) /\ Table(T, j, i) /\ g[<<l, k>>] = g[<<j, i>>] => l = j /\ k = i
    BY <1>13, <2>3
  <2> QED
    BY <1>15, <2>1, <2>2, <2>4, <2>5 DEF Places
<1>17. Contents(t, g, T)
  <2>1. DOMAIN m = {Root, Tmp} \cup Known(t)
    BY <1>5, <1>12
  <2>2. ASSUME NEW l \in 0 .. 3, NEW e \in Nat, Table(T, l, e \div Len4)
        PROVE  IF Written(t, T, l, e) THEN Slot(m, g, l, e) = g[<<l + 1, e>>]
                                      ELSE Slot(m, g, l, e) \in {Nil, Junk}
    <3> DEFINE q == e \div Len4
               i == e % Len4
    <3>1. q \in Nat /\ i \in 0 .. Len4 - 1 /\ e = Num(q) + i /\ i \in Nat
      <4>1. q \in Nat /\ i \in 0 .. Len4 - 1 /\ e = Num(q) + i
        BY NumIs
      <4> QED
        BY <4>1
    <3>2. q = IF l = 3 THEN 1 ELSE 0
      <4>1. Table(T, l, q)
        BY <2>2
      <4> HIDE DEF q
      <4> QED
        BY <1>13, <3>1, <4>1
    <3>3. Slot(m, g, l, e) = At(m, g[<<l, q>>])[i]
      BY DEF Slot
    <3> HIDE DEF q, i
    <3>4. e = IF l = 3 THEN Len4 + i ELSE i
      <4>1. Num(0) = 0 /\ Num(1) = Len4
        BY NumIs
      <4> QED
        BY <3>1, <3>2, <4>1
    <3>5. CASE l = 0
      <4>1. g[<<l, q>>] = Root /\ At(m, Root)[i] = IF i = 0 THEN p[1] ELSE Nil
        BY <1>5, <1>15, <3>1, <3>5
      <4>2. Written(t, T, l, e) <=> i = 0
        <5>1. e = i /\ First(l) = 0 /\ Entries(t, T, l) = 1
          BY <1>9, <3>4, <3>5, FirstIs
        <5> QED
          BY <3>1, <5>1 DEF Written
      <4>3. g[<<l + 1, e>>] = p[1]
        <5>1. l + 1 = 1 /\ 1 \in 1 .. 3
          BY <3>5
        <5> QED
          BY <1>14, <5>1
      <4> QED
        BY <3>3, <4>1, <4>2, <4>3
    <3>6. CASE l = 1
      <4>1. g[<<l, q>>] = p[1] /\ At(m, p[1])[i] = IF i = 0 THEN p[2] ELSE Junk
        BY <1>5, <1>14, <3>1, <3>6
      <4>2. Written(t, T, l, e) <=> i = 0
        <5>1. e = i /\ First(l) = 0 /\ Entries(t, T, l) = 1
          BY <1>9, <3>4, <3>6, FirstIs
        <5> QED
          BY <3>1, <5>1 DEF Written
      <4>3. g[<<l + 1, e>>] = p[2]
        <5>1. l + 1 = 2 /\ 2 \in 1 .. 3
          BY <3>6
        <5> QED
          BY <1>14, <5>1
      <4> QED
        BY <3>3, <4>1, <4>2, <4>3
    <3>7. CASE l = 2
      <4>1. g[<<l, q>>] = p[2] /\ At(m, p[2])[i] = IF i = 1 THEN p[3] ELSE Junk
        BY <1>5, <1>14, <3>1, <3>7
      <4>2. Written(t, T, l, e) <=> i = 1
        <5>1. e = i /\ First(l) = 1 /\ Entries(t, T, l) = 2
          BY <1>9, <3>4, <3>7, FirstIs
        <5> QED
          BY <3>1, <5>1 DEF Written
      <4>3. g[<<l + 1, e>>] = p[3]
        <5>1. l + 1 = 3 /\ 3 \in 1 .. 3
          BY <3>7
        <5> QED
          BY <1>14, <5>1
      <4> QED
        BY <3>3, <4>1, <4>2, <4>3
    <3>8. CASE l = 3
      <4>1. g[<<l, q>>] = p[3] /\ At(m, p[3])[i] = IF i \in 0 .. 2 THEN p[i + 1] ELSE Junk
        BY <1>5, <1>14, <3>1, <3>8
      <4>2. e = Len4 + i /\ First(l) = Len4 /\ Entries(t, T, l) = 3 + Len4
        BY <1>9, <3>4, <3>8, FirstIs
      <4>3. Written(t, T, l, e) <=> i \in 0 .. 2
        BY <3>1, <4>2, Len4Is DEF Written
      <4>4. g[<<l + 1, e>>] = VirtToPhys(i)
        <5>1. l + 1 = 4
          BY <3>8
        <5>2. e - Len4 = i
          BY <3>1, <4>2, Len4Is
        <5> QED
          BY <1>15, <5>1, <5>2
      <4>5. i \in 0 .. 2 => p[i + 1] = VirtToPhys(i)
        <5> SUFFICES ASSUME i \in 0 .. 2 PROVE p[i + 1] = VirtToPhys(i)
          OBVIOUS
        <5>1. i + 1 \in 1 .. 3 /\ (i + 1) - 1 = i
          OBVIOUS
        <5> QED
          BY <5>1
      <4> QED
        BY <3>3, <4>1, <4>3, <4>4, <4>5
    <3> QED
      BY <3>5, <3>6, <3>7, <3>8
  <2> QED
    BY <1>5, <2>1, <2>2 DEF Contents, m
<1>18. Tree(t, g, T)
  BY <1>11, <1>16, <1>17 DEF Tree
<1> QED
  BY <1>9, <1>10, <1>18

-----------------------------------------------------------------------------
(* TablesOK                                                                *)

\* The tree after n pages: they are all mapped, or the area had no room.
Rooted(s, g, T, n) ==
  /\ Tree(s, g, T)
  /\ \/ /\ Going(s) /\ Entries(s, T, 3) = n + Len4
        /\ \A j \in 1 .. 3 : Linked(s, T, j) /\ s.indices[j] >= 1
     \/ s.stopped = "out_of_bound" /\ n = Area + 1 /\ Entries(s, T, 3) = Area + Len4

\* The first three pages are remembered in their order, and make the tree.
Built ==
  /\ \A i \in 1 .. Len(f.first3) : f.first3[i] = VirtToPhys(i - 1)
  /\ Len(f.first3) = 3 /\ TablesLow =>
       \E s, g, T, n : s = f /\ n = pages /\ Rooted(s, g, T, n)

LEMMA AreaAt ==
  /\ Len4 \div 2 \in Nat /\ Area + Len4 = Num(Num(Num(Len4 \div 2))) /\ Area \in Int
<1> DEFINE h == Len4 \div 2
           x == Len4 * h
           y == Len4 * x
           z == Len4 * y
<1>1. h \in Nat /\ Len4 \in Nat
  BY Len4Is
<1> HIDE DEF h
<1>2. x \in Nat /\ h * Len4 = x
  BY <1>1
<1>3. Num(h) = x
  BY DEF Num
<1> HIDE DEF x
<1>4. y \in Nat /\ x * Len4 = y
  BY <1>1, <1>2
<1>5. Num(x) = y
  BY DEF Num
<1> HIDE DEF y
<1>6. z \in Nat /\ y * Len4 = z
  BY <1>1, <1>4
<1>7. Num(y) = z
  BY DEF Num
<1> HIDE DEF z
<1>8. Area = ((h * Len4) * Len4) * Len4 - Len4
  BY DEF Area, h
<1>9. Area = z - Len4
  BY <1>2, <1>4, <1>6, <1>8
<1> QED
  BY <1>1, <1>3, <1>5, <1>6, <1>7, <1>9 DEF h

\* Every table is full when every index is at its end.
LEMMA BrimArea ==
  ASSUME NEW s, NEW T, Counters(s, T), s.indices[0] = Len4 \div 2,
         \A j \in 1 .. 3 : Linked(s, T, j) /\ s.indices[j] = Len4
  PROVE  Entries(s, T, 3) = Area + Len4
<1>1. \A l \in 0 .. 3 : /\ T[l] \in Nat /\ Num(T[l]) \in Nat /\ s.indices[l] \in 0 .. Len4
                        /\ Entries(s, T, l) \in Nat
                        /\ Entries(s, T, l) = Num(T[l]) + s.indices[l]
  BY CountersIs
<1>2. ASSUME NEW j \in 1 .. 3
      PROVE  Entries(s, T, j) = Num(Entries(s, T, j - 1))
  <2> DEFINE k == T[j]
  <2>1. j \in 0 .. 3
    OBVIOUS
  <2>2. k \in Nat /\ k + 1 = Entries(s, T, j - 1) /\ s.indices[j] = Len4
        /\ Entries(s, T, j) = Num(k) + s.indices[j]
    BY <1>1, <2>1 DEF Linked
  <2> HIDE DEF k
  <2>3. Num(k + 1) = Num(k) + Len4
    BY <2>2, NumIs
  <2> QED
    BY <2>2, <2>3
<1>3. Entries(s, T, 0) = Len4 \div 2
  BY CountersIs
<1>4. Entries(s, T, 1) = Num(Entries(s, T, 0))
  <2>1. 1 \in 1 .. 3 /\ 1 - 1 = 0
    OBVIOUS
  <2> QED
    BY <1>2, <2>1
<1>5. Entries(s, T, 2) = Num(Entries(s, T, 1))
  <2>1. 2 \in 1 .. 3 /\ 2 - 1 = 1
    OBVIOUS
  <2> QED
    BY <1>2, <2>1
<1>6. Entries(s, T, 3) = Num(Entries(s, T, 2))
  <2>1. 3 \in 1 .. 3 /\ 3 - 1 = 2
    OBVIOUS
  <2> QED
    BY <1>2, <2>1
<1> QED
  BY <1>3, <1>4, <1>5, <1>6, AreaAt

LEMMA BuiltTablesOK ==
  ASSUME Counted, Built
  PROVE  TablesOK
<1> SUFFICES ASSUME TablesLow
             PROVE  /\ f.stopped # "page_fault"
                    /\ f.stopped = "out_of_bound" => pages = Area + 1
                    /\ f.metapages > 0 => \A v \in 0 .. Area - 1 :
                         Walk(f.mem, Indices(v)) \in
                           IF v < pages THEN {VirtToPhys(v)} ELSE {Nil, Junk}
                    /\ DOMAIN f.mem \ {Root, Tmp} = {VirtToPhys(v) : v \in 0 .. f.metapages - 1}
  BY DEF TablesOK
<1>1. Apart(dyn) /\ Typed(f) /\ pages \in 0 .. Total /\ Total \in Nat
  BY MapIs, AreaIs DEF Counted
<1>2. CASE f = [Factory EXCEPT !.first3 = f.first3]
  <2>1. f.metapages = 0 /\ f.mem = Factory.mem /\ f.stopped = "no"
    <3>1. f.first3 \in Seq(Nat)
      BY <1>1, TypedIs
    <3> QED
      BY <1>2, <3>1, Remembered
  <2>2. DOMAIN f.mem = {Root}
    BY <2>1 DEF Factory
  <2>3. {VirtToPhys(v) : v \in 0 .. f.metapages - 1} = {}
    <3>1. 0 .. f.metapages - 1 = {}
      BY <2>1
    <3> QED
      BY <3>1
  <2>4. DOMAIN f.mem \ {Root, Tmp} = {}
    BY <2>2
  <2>5. ~(f.metapages > 0)
    BY <2>1
  <2> QED
    BY <2>1, <2>3, <2>4, <2>5
<1>3. CASE Len(f.first3) = 3
  <2>1. PICK g, T : Rooted(f, g, T, pages)
    BY <1>3 DEF Built
  <2> DEFINE s == f
  <2>2. Tree(s, g, T) /\ s = f
    BY <2>1 DEF Rooted
  <2>3. \/ Going(s) /\ Entries(s, T, 3) = pages + Len4
        \/ s.stopped = "out_of_bound" /\ pages = Area + 1 /\ Entries(s, T, 3) = Area + Len4
    BY <2>1 DEF Rooted
  <2>4. s.metapages \in Nat /\ s.metapages <= Total
    BY <2>2, TypedIs DEF Tree, Counters
  <2> HIDE DEF s
  <2>5. s.stopped # "page_fault" /\ (s.stopped = "out_of_bound" => pages = Area + 1)
    BY <2>3 DEF Going
  <2>6. ASSUME NEW v \in 0 .. Area - 1
        PROVE  Walk(s.mem, Indices(v)) \in IF v < pages THEN {VirtToPhys(v)} ELSE {Nil, Junk}
    <3> DEFINE h == Len4 \div 2
               e3 == v + Len4
               e2 == e3 \div Len4
               e1 == e2 \div Len4
               e0 == e1 \div Len4
    <3>1. h \in Nat /\ Area + Len4 = Num(Num(Num(h))) /\ Area \in Int
      BY AreaAt
    <3>2. v \in Nat /\ v < Area /\ e3 \in Nat /\ e3 < Area + Len4 /\ h < Len4
      BY <3>1, Len4Is
    <3> HIDE DEF h, e3
    <3>3. Num(h) \in Nat
      BY <3>1, NumIs
    <3>4. Num(Num(h)) \in Nat
      BY <3>3, NumIs
    <3>5. e2 \in Nat /\ e2 < Num(Num(h))
      <4>1. e3 < Num(Num(Num(h)))
        BY <3>1, <3>2
      <4> QED
        BY <3>2, <3>4, <4>1, NumBefore, NumIs
    <3> HIDE DEF e2
    <3>6. e1 \in Nat /\ e1 < Num(h)
      BY <3>3, <3>5, NumBefore, NumIs
    <3> HIDE DEF e1
    <3>7. e0 \in Nat /\ e0 < h
      BY <3>1, <3>6, NumBefore, NumIs
    <3> HIDE DEF e0
    <3>8. e0 < Len4
      BY <3>1, <3>2, <3>7, Len4Is
    <3>9. (((v + Len4) \div Len4) \div Len4) \div Len4 < Len4
      BY <3>8 DEF e0, e1, e2, e3
    <3>10. IF Written(s, T, 3, v + Len4) THEN Walk(s.mem, Indices(v)) = VirtToPhys(v)
                                         ELSE Walk(s.mem, Indices(v)) \in {Nil, Junk}
      BY <1>1, <2>2, <3>2, <3>9, WalkIs
    <3>11. Written(s, T, 3, v + Len4) <=> v < pages
      <4>1. First(3) = Len4
        BY FirstIs
      <4>2. First(3) <= v + Len4
        BY <3>2, <4>1, Len4Is
      <4>3. v + Len4 < Entries(s, T, 3) <=> v < pages
        <5>1. CASE Entries(s, T, 3) = pages + Len4
          BY <1>1, <3>2, <5>1, Len4Is
        <5>2. CASE pages = Area + 1 /\ Entries(s, T, 3) = Area + Len4
          BY <3>1, <3>2, <5>2, Len4Is
        <5> QED
          BY <2>3, <5>1, <5>2
      <4> QED
        BY <4>2, <4>3 DEF Written
    <3> QED
      BY <3>10, <3>11
  <2>7. DOMAIN s.mem \ {Root, Tmp} = Known(s)
    <3>1. DOMAIN s.mem = {Root, Tmp} \cup Known(s)
      BY <2>2 DEF Tree, Contents
    <3>2. \A p \in Known(s) : p \notin {Root, Tmp, Nil, Junk}
      BY <1>1, <2>4, KnownNat
    <3> QED
      BY <3>1, <3>2
  <2> QED
    BY <2>2, <2>5, <2>6, <2>7 DEF Known
<1> QED
  BY <1>2, <1>3 DEF Counted

\* The area does not change, and so a tree stays one.
LEMMA SameArea ==
  ASSUME dyn' = dyn
  PROVE  /\ Total' = Total /\ \A v : VirtToPhys(v)' = VirtToPhys(v)
         /\ \A s, g, T, n : Rooted(s, g, T, n) => Rooted(s, g, T, n)'
<1>1. Total' = Total
  BY DEF Total, Sum
<1>2. \A v : VirtToPhys(v)' = VirtToPhys(v)
  BY DEF VirtToPhys, Sum
<1>3. \A s : Known(s)' = Known(s)
  <2> TAKE s
  <2>1. Known(s)' = {VirtToPhys(v)' : v \in 0 .. s.metapages - 1}
    BY DEF Known
  <2> QED
    BY <1>2, <2>1 DEF Known
<1>4. ASSUME NEW s, NEW g, NEW T, Tree(s, g, T)
      PROVE  Tree(s, g, T)'
  <2>1. Counters(s, T)'
    BY <1>1, <1>4 DEF Tree, Counters
  <2>2. Places(s, g, T)'
    BY <1>2, <1>3, <1>4 DEF Tree, Places
  <2>3. Contents(s, g, T)'
    BY <1>3, <1>4 DEF Tree, Contents
  <2> QED
    BY <2>1, <2>2, <2>3 DEF Tree
<1>5. ASSUME NEW s, NEW g, NEW T, NEW n, Rooted(s, g, T, n)
      PROVE  Rooted(s, g, T, n)'
  BY <1>4, <1>5 DEF Rooted
<1> QED
  BY <1>1, <1>2, <1>5

\* What Built says of the factory after n pages.
Rising(s, n) ==
  /\ \A i \in 1 .. Len(s.first3) : s.first3[i] = VirtToPhys(i - 1)
  /\ Len(s.first3) = 3 /\ Low(s) => \E g, T : Rooted(s, g, T, n)

LEMMA BuiltRises ==
  ASSUME Built
  PROVE  Rising(f, pages)
BY DEF Built, Rising, Low, TablesLow

\* The first three pages.
LEMMA RisingFirst ==
  ASSUME Counted, Rising(f, pages), pages < Total, Early(f, pages)
  PROVE  Rising(FactoryNext(VirtToPhys(pages)), pages + 1)
<1> DEFINE n == pages
           addr == VirtToPhys(n)
           first == Append(f.first3, addr)
           t == FactoryNext(addr)
<1>1. Apart(dyn) /\ Typed(f) /\ Total \in Nat /\ n \in Nat /\ n \in 0 .. Total - 1
  <2>1. Apart(dyn) /\ Typed(f) /\ pages \in 0 .. Total
    BY MapIs DEF Counted
  <2>2. Total \in Nat
    BY <2>1, AreaIs
  <2> QED
    BY <2>1, <2>2
<1>2. addr \in Nat
  BY <1>1, AreaIs
<1>3. \A i \in 1 .. n : f.first3[i] = VirtToPhys(i - 1)
  BY DEF Rising, Early
<1>4. Early(f, n) /\ n < 3
  BY DEF Early
<1> HIDE DEF n, addr
<1>5. /\ first \in [1 .. n + 1 -> Nat] /\ first \in Seq(Nat) /\ Len(first) = n + 1
      /\ \A i \in 1 .. n : first[i] = f.first3[i]
      /\ first[n + 1] = addr
      /\ t = IF n + 1 < 3 THEN Gathered(f, first) ELSE Laid(f, first, ConstructDyn3(f.mem, first))
  BY <1>1, <1>2, <1>4, FirstSteps
<1> HIDE DEF first, t
<1>6. \A i \in 1 .. n + 1 : first[i] = VirtToPhys(i - 1)
  <2> TAKE i \in 1 .. n + 1
  <2>1. CASE i = n + 1
    <3>1. i - 1 = n
      BY <1>1, <2>1
    <3> QED
      BY <1>5, <2>1, <3>1 DEF addr
  <2>2. CASE i # n + 1
    <3>1. i \in 1 .. n
      BY <1>1, <2>2
    <3> QED
      BY <1>3, <1>5, <3>1
  <2> QED
    BY <2>1, <2>2
<1>7. Len(first) = n + 1
  BY <1>5
<1>8. Rising(t, n + 1)
  <2>1. CASE n + 1 < 3
    <3>1. t.first3 = first
      <4>1. t = Gathered(f, first)
        BY <1>5, <2>1
      <4> QED
        BY <1>1, <4>1, GatheredIs
    <3>2. n + 1 # 3
      BY <1>1, <2>1
    <3>3. Len(t.first3) = n + 1
      BY <1>7, <3>1
    <3>4. \A i \in 1 .. Len(t.first3) : t.first3[i] = VirtToPhys(i - 1)
      BY <1>6, <3>1, <3>3
    <3> QED
      BY <3>2, <3>3, <3>4 DEF Rising
  <2>2. CASE ~(n + 1 < 3)
    <3>1. n + 1 = 3
      BY <1>1, <1>4, <2>2
    <3> DEFINE m == ConstructDyn3(f.mem, first)
    <3>2. t = Laid(f, first, m)
      BY <1>5, <2>2
    <3>3. m = ConstructDyn3(Blank, first)
      BY <1>4 DEF Early
    <3> HIDE DEF m
    <3>4. first \in Seq(Nat)
      BY <1>5
    <3>5. /\ t.first3 = first /\ t.metapages = 3 /\ t.mem = m /\ t.next = f.next
          /\ t.tables = f.tables /\ t.indices = f.indices /\ t.stopped = f.stopped
          /\ Typed(t)
      <4>1. Typed(f)
        BY <1>1
      <4> QED
        BY ONLY <3>2, <3>4, <4>1, LaidIs
    <3>6. t.next = 3 /\ t.tables = Factory.tables /\ t.indices = Factory.indices /\ t.stopped = "no"
      BY <1>4, <3>5 DEF Early
    <3>7. first \in [1 .. 3 -> Nat] /\ \A i \in 1 .. 3 : first[i] = VirtToPhys(i - 1)
      BY <1>5, <1>6, <3>1
    <3>8. Total >= 3
      BY <1>1, <3>1
    <3>9. PICK g, T : /\ Tree(t, g, T) /\ Entries(t, T, 3) = 3 + Len4
                      /\ \A j \in 1 .. 3 : Linked(t, T, j) /\ t.indices[j] >= 1
      BY <1>1, <3>3, <3>5, <3>6, <3>7, <3>8, Planted
    <3>10. Rooted(t, g, T, n + 1)
      BY <3>1, <3>6, <3>9 DEF Rooted, Going
    <3>11. \A i \in 1 .. Len(t.first3) : t.first3[i] = VirtToPhys(i - 1)
      BY <1>6, <1>7, <3>5
    <3> QED
      BY <3>10, <3>11 DEF Rising
  <2> QED
    BY <2>1, <2>2
<1> QED
  BY <1>8 DEF n, addr, t

\* Every page after them.
LEMMA RisingNext ==
  ASSUME Counted, Rising(f, pages), pages < Total, Going(f),
         Len(f.first3) = 3, pages >= 3, Cost(f) <= pages + 15, f.metapages <= pages
  PROVE  Rising(FactoryNext(VirtToPhys(pages)), pages + 1)
<1> DEFINE s == f
           p == pages
           addr == VirtToPhys(p)
           t == NextRecur(s, addr)
<1>1. Apart(dyn) /\ Typed(s) /\ p \in Nat /\ p < Total /\ p >= 3 /\ Len(s.first3) = 3
      /\ Going(s) /\ Cost(s) <= p + 15 /\ s.metapages <= p /\ Rising(s, p)
  BY MapIs DEF Counted
<1>2. FactoryNext(addr) = t
  BY DEF FactoryNext
<1>3. s.metapages \in Nat /\ Cost(s) \in Nat
  BY <1>1, TypedIs, CostNat
<1> HIDE DEF s, addr, t
<1> HIDE DEF p
<1>4. Grown(s, t, 3, p)
  <2>1. s.metapages <= p + 1
    BY <1>1, <1>3
  <2> QED
    BY <1>1, <2>1, GrownAll DEF t
<1>5. Typed(t) /\ t.first3 = s.first3 /\ s.metapages <= t.metapages /\ t.metapages \in Nat
  <2>1. Typed(t) /\ t.first3 = s.first3 /\ s.metapages <= t.metapages
    BY <1>4 DEF Grown
  <2> QED
    BY <2>1, TypedIs
<1>6. ASSUME Low(t)
      PROVE  \E h, U : Rooted(t, h, U, p + 1)
  <2>1. Low(s)
    <3>1. \A v \in 0 .. s.metapages - 1 : v \in 0 .. t.metapages - 1
      BY <1>3, <1>5
    <3> QED
      BY <1>6, <3>1 DEF Low
  <2>2. PICK g, T : Rooted(s, g, T, p)
    BY <1>1, <2>1 DEF Rising
  <2>3. /\ Tree(s, g, T) /\ Entries(s, T, 3) = p + Len4
        /\ \A j \in 1 .. 3 : Linked(s, T, j) /\ s.indices[j] >= 1
    BY <1>1, <2>2 DEF Rooted, Going
  <2>4. Ready(s, g, T, 3, p)
    <3>1. \A j \in 1 .. 3 : IF j <= 3 THEN Linked(s, T, j) /\ s.indices[j] >= 1 ELSE Pending(s, T, j)
      BY <2>3
    <3>2. Cost(s) <= p + 12 + 3
      BY <1>1, <1>3
    <3> QED
      BY <1>1, <2>3, <3>1, <3>2 DEF Ready
  <2>5. addr = Goal(s, g, T, 3)
    <3> DEFINE e == p + Len4
    <3>1. e \in Nat /\ e >= Len4 /\ e - Len4 = p /\ e = p + Len4
      BY <1>1, Len4Is
    <3> HIDE DEF e
    <3>2. g[<<4, e>>] = VirtToPhys(e - Len4)
      BY <2>3, <3>1 DEF Tree, Places
    <3>3. Goal(s, g, T, 3) = g[<<4, e>>]
      BY <2>3, <3>1 DEF Goal
    <3> QED
      BY <3>1, <3>2, <3>3 DEF addr
  <2>6. Leads(s, t, addr, 3, p)
    BY <1>1, LeadsAll DEF t
  <2>7. PICK h, U : Done(s, g, T, t, h, U, 3, p)
    BY <1>6, <2>4, <2>5, <2>6 DEF Leads
  <2>8. Tree(t, h, U) /\ (Gained(s, T, t, U, 3) \/ Brim(s, T, t, U, 3))
    BY <2>7 DEF Done
  <2>9. CASE Gained(s, T, t, U, 3)
    <3>1. Going(t) /\ Entries(t, U, 3) = (p + 1) + Len4
      <4>1. Going(t) /\ Entries(t, U, 3) = (p + Len4) + 1
        BY <2>3, <2>9 DEF Gained
      <4> QED
        BY <1>1, <4>1, Len4Is
    <3>2. \A j \in 1 .. 3 : Linked(t, U, j) /\ t.indices[j] >= 1
      <4>1. \A j \in 1 .. 3 : j <= 3 /\ j <= 3 + 1
        OBVIOUS
      <4> QED
        BY <2>9, <4>1 DEF Gained
    <3>3. Rooted(t, h, U, p + 1)
      BY <2>8, <3>1, <3>2 DEF Rooted
    <3> QED
      BY <3>3
  <2>10. CASE Brim(s, T, t, U, 3)
    <3>1. t.stopped = "out_of_bound" /\ Entries(t, U, 3) = Entries(s, T, 3)
      BY <2>10 DEF Brim
    <3>2. s.indices[0] = Len4 \div 2 /\ \A j \in 1 .. 3 : s.indices[j] = Len4
      BY <2>10 DEF Brim
    <3>3. Entries(s, T, 3) = Area + Len4
      <4>1. Counters(s, T) /\ \A j \in 1 .. 3 : Linked(s, T, j) /\ s.indices[j] = Len4
        BY <2>3, <3>2 DEF Tree
      <4> QED
        BY <3>2, <4>1, BrimArea
    <3>4. p = Area
      BY <1>1, <2>3, <3>3, AreaAt, Len4Is
    <3>5. Rooted(t, h, U, p + 1)
      BY <2>8, <3>1, <3>3, <3>4 DEF Rooted
    <3> QED
      BY <3>5
  <2> QED
    BY <2>8, <2>9, <2>10
<1>7. \A i \in 1 .. Len(t.first3) : t.first3[i] = VirtToPhys(i - 1)
  BY <1>1, <1>5 DEF Rising
<1>8. Rising(t, p + 1)
  BY <1>6, <1>7 DEF Rising
<1> QED
  BY <1>2, <1>8 DEF addr, p

LEMMA BuiltInit ==
  ASSUME Init
  PROVE  Built
<1>1. Len(f.first3) = 0
  BY FactoryIs DEF Init
<1> QED
  BY <1>1 DEF Built

LEMMA BuiltStep ==
  ASSUME Counted, Built, [NextPage]_vars
  PROVE  Built'
<1> PICK t : t = f'
  OBVIOUS
<1> PICK n : n = pages'
  OBVIOUS
<1>1. dyn' = dyn
  BY DEF NextPage, vars
<1>2. Rising(t, n)
  <2>1. CASE UNCHANGED vars
    BY <2>1, BuiltRises DEF vars
  <2>2. CASE NextPage
    <3>1. /\ pages < Total /\ Going(f) /\ t = FactoryNext(VirtToPhys(pages)) /\ n = pages + 1
      BY <2>2 DEF NextPage
    <3>2. Rising(f, pages)
      BY BuiltRises
    <3>3. CASE /\ Len(f.first3) < 3 /\ pages = Len(f.first3)
               /\ f = [Factory EXCEPT !.first3 = f.first3]
      <4>1. f.first3 \in Seq(Nat)
        BY TypedIs DEF Counted
      <4>2. Len(f.first3) = pages /\ pages < 3
        BY <3>3, Zenon
      <4>3. Early(f, pages)
        BY <3>3, <4>1, <4>2, EarlyIs
      <4> QED
        BY <3>1, <3>2, <4>3, RisingFirst
    <3>4. CASE /\ Len(f.first3) = 3 /\ pages >= 3 /\ Cost(f) <= pages + 15
               /\ f.metapages <= pages
      BY <3>1, <3>2, <3>4, RisingNext
    <3> QED
      BY <3>3, <3>4 DEF Counted
  <2> QED
    BY <2>1, <2>2
<1>3. /\ \A v : VirtToPhys(v)' = VirtToPhys(v)
      /\ \A s, g, T, k : Rooted(s, g, T, k) => Rooted(s, g, T, k)'
  BY <1>1, SameArea
<1>4. \A i \in 1 .. Len(f'.first3) : f'.first3[i] = VirtToPhys(i - 1)'
  BY <1>2, <1>3 DEF Rising
<1>5. ASSUME Len(f'.first3) = 3, TablesLow'
      PROVE  \E s, g, T, k : s = f' /\ k = pages' /\ Rooted(s, g, T, k)'
  <2>1. Low(t)
    BY <1>3, <1>5 DEF Low, TablesLow
  <2>2. PICK g, T : Rooted(t, g, T, n)
    BY <1>2, <1>5, <2>1 DEF Rising
  <2>3. Rooted(t, g, T, n)'
    BY <1>3, <2>2
  <2> QED
    BY <2>3
<1> QED
  BY <1>4, <1>5 DEF Built

\* Once three pages are known, every page given so far is mapped where it
\* belongs, nothing else is, and no fault occurs, for every memory map and
\* every size of table, as long as the tables lie where 32 bits reach
\* (pagetable_construct_dyn, dynpage_factory_next_recur).
THEOREM TablesAlwaysOK == Spec => []TablesOK
<1>1. Init => Counted /\ Built
  BY CountedInit, BuiltInit
<1>2. Counted /\ Built /\ [NextPage]_vars => (Counted /\ Built)'
  <2>1. Counted /\ [NextPage]_vars => Counted'
    BY CountedStep
  <2>2. Counted /\ Built /\ [NextPage]_vars => Built'
    BY BuiltStep
  <2> QED
    BY <2>1, <2>2
<1>3. Counted /\ Built => TablesOK
  BY BuiltTablesOK
<1> QED
  BY <1>1, <1>2, <1>3, PTL DEF Spec
=============================================================================
