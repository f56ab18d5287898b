------------------------------ MODULE SlabProof ------------------------------
(***************************************************************************)
(* Proofs about Slab, for any number of pages and of slots in a page.      *)
(***************************************************************************)
EXTENDS Slab, FiniteSetTheorems, SequenceTheorems, TLAPS

PageType == [free_index : 0..Slots, alloc_count : 0..Slots,
             slots : [Slot -> [magic : {"empty", "object"}, next : 0..Slots,
                               redzone : BOOLEAN, unused : BOOLEAN]]]

-----------------------------------------------------------------------------
(* The free list of a page *)

\* The free list of page pg visits exactly the slots in F, each once.
Threads(pg, F) ==
  \E n \in Nat : \E q \in [1..n -> Slot] :
    IsFreeList(pg, q) /\ {q[i] : i \in 1..n} = F

\* A free list in terms of its length.
LEMMA FreeListDef ==
  ASSUME NEW pg, NEW n \in Nat, NEW q \in [1..n -> Slot]
  PROVE  IsFreeList(pg, q) <=>
           /\ pg.free_index = IF n = 0 THEN 0 ELSE q[1]
           /\ \A i \in 1..n : pg.slots[q[i]].next = IF i < n THEN q[i + 1] ELSE 0
           /\ \A i, j \in 1..n : q[i] = q[j] => i = j
<1>1. q \in Seq(Slot) /\ Len(q) = n
  OBVIOUS
<1>2. q = <<>> <=> n = 0
  BY <1>1, EmptySeq
<1> QED
  BY <1>1, <1>2 DEF IsFreeList

\* A list is no longer than the page has slots.
LEMMA ShortList ==
  ASSUME NEW n \in Nat, NEW q \in [1..n -> Slot], \A i, j \in 1..n : q[i] = q[j] => i = j
  PROVE  n \in 0..Slots
<1>1. q \in Injection(1..n, Slot)
  BY DEF Injection, IsInjective
<1>2. IsFiniteSet(Slot) /\ Cardinality(Slot) = Slots
  BY SlabAssumption, FS_Interval DEF Slot
<1>3. Cardinality(1..n) = n
  BY FS_Interval
<1>4. n <= Slots
  BY <1>1, <1>2, <1>3, FS_Injection
<1> QED
  BY <1>4, SlabAssumption

\* The list is empty exactly when there is no free slot, else it starts with
\* one.
LEMMA ThreadsHead ==
  ASSUME NEW pg, NEW F \in SUBSET Slot, Threads(pg, F)
  PROVE  /\ pg.free_index = 0 <=> F = {}
         /\ pg.free_index # 0 => pg.free_index \in F
<1>1. PICK n \in Nat : \E q \in [1..n -> Slot] :
             IsFreeList(pg, q) /\ {q[i] : i \in 1..n} = F
  BY DEF Threads
<1>2. PICK q \in [1..n -> Slot] : IsFreeList(pg, q) /\ {q[i] : i \in 1..n} = F
  BY <1>1
<1>3. pg.free_index = IF n = 0 THEN 0 ELSE q[1]
  BY <1>2, FreeListDef
<1>4. CASE n = 0
  BY <1>2, <1>3, <1>4
<1>5. CASE n # 0
  <2>1. 1 \in 1..n
    BY <1>5
  <2>2. q[1] \in F /\ q[1] # 0
    BY <1>2, <2>1 DEF Slot
  <2> QED
    BY <1>3, <1>5, <2>2
<1> QED
  BY <1>4, <1>5

\* Only the links matter, and only those of the slots that are free.
LEMMA ThreadsSame ==
  ASSUME NEW pg, NEW to, NEW F, Threads(pg, F),
         to.free_index = pg.free_index,
         \A s \in F : to.slots[s].next = pg.slots[s].next
  PROVE  Threads(to, F)
<1>1. PICK n \in Nat : \E q \in [1..n -> Slot] :
             IsFreeList(pg, q) /\ {q[i] : i \in 1..n} = F
  BY DEF Threads
<1>2. PICK q \in [1..n -> Slot] : IsFreeList(pg, q) /\ {q[i] : i \in 1..n} = F
  BY <1>1
<1>3. \A i \in 1..n : to.slots[q[i]].next = pg.slots[q[i]].next
  BY <1>2
<1>4. /\ pg.free_index = IF n = 0 THEN 0 ELSE q[1]
      /\ \A i \in 1..n : pg.slots[q[i]].next = IF i < n THEN q[i + 1] ELSE 0
      /\ \A i, j \in 1..n : q[i] = q[j] => i = j
  BY <1>2, FreeListDef
<1>5. /\ to.free_index = IF n = 0 THEN 0 ELSE q[1]
      /\ \A i \in 1..n : to.slots[q[i]].next = IF i < n THEN q[i + 1] ELSE 0
  BY <1>3, <1>4
<1>6. IsFreeList(to, q)
  BY <1>4, <1>5, FreeListDef
<1> QED
  BY <1>2, <1>6 DEF Threads

\* Without its first slot the list goes on with the slot that one named.
LEMMA ThreadsPop ==
  ASSUME NEW pg, NEW to, NEW F \in SUBSET Slot, Threads(pg, F),
         pg.free_index # 0,
         to.free_index = pg.slots[pg.free_index].next,
         \A s \in F \ {pg.free_index} : to.slots[s].next = pg.slots[s].next
  PROVE  Threads(to, F \ {pg.free_index})
<1>1. PICK n \in Nat : \E q \in [1..n -> Slot] :
             IsFreeList(pg, q) /\ {q[i] : i \in 1..n} = F
  BY DEF Threads
<1>2. PICK q \in [1..n -> Slot] : IsFreeList(pg, q) /\ {q[i] : i \in 1..n} = F
  BY <1>1
<1>3. /\ pg.free_index = IF n = 0 THEN 0 ELSE q[1]
      /\ \A i \in 1..n : pg.slots[q[i]].next = IF i < n THEN q[i + 1] ELSE 0
      /\ \A i, j \in 1..n : q[i] = q[j] => i = j
  BY <1>2, FreeListDef
<1>4. n # 0 /\ pg.free_index = q[1] /\ n - 1 \in Nat /\ 1 \in 1..n
  BY <1>3
<1> DEFINE r == [i \in 1..(n - 1) |-> q[i + 1]]
<1>5. \A i \in 1..(n - 1) : i + 1 \in 1..n /\ i + 1 # 1
  BY <1>4
<1>6. r \in [1..(n - 1) -> Slot]
  BY <1>5
<1>7. {r[i] : i \in 1..(n - 1)} = F \ {q[1]}
  <2>1. \A i \in 1..(n - 1) : r[i] \in F /\ r[i] # q[1]
    BY <1>2, <1>3, <1>4, <1>5
  <2>2. ASSUME NEW s \in F, s # q[1] PROVE \E i \in 1..(n - 1) : r[i] = s
    <3>1. PICK i \in 1..n : q[i] = s
      BY <1>2
    <3>2. i # 1 /\ i - 1 \in 1..(n - 1) /\ (i - 1) + 1 = i
      BY <1>4, <2>2, <3>1
    <3> QED
      BY <3>1, <3>2
  <2> HIDE DEF r
  <2> QED
    BY <2>1, <2>2
<1>8. IsFreeList(to, r)
  <2>1. \A i \in 1..(n - 1) : r[i] = q[i + 1]
    OBVIOUS
  <2> HIDE DEF r
  <2>2. to.free_index = IF n - 1 = 0 THEN 0 ELSE r[1]
    BY <1>3, <1>4, <2>1
  <2>3. \A i, j \in 1..(n - 1) : r[i] = r[j] => i = j
    <3> SUFFICES ASSUME NEW i \in 1..(n - 1), NEW j \in 1..(n - 1), r[i] = r[j] PROVE i = j
      OBVIOUS
    <3>1. i + 1 = j + 1
      BY <1>3, <1>5, <2>1
    <3> QED
      BY <3>1
  <2>4. ASSUME NEW i \in 1..(n - 1)
        PROVE  to.slots[r[i]].next = IF i < n - 1 THEN r[i + 1] ELSE 0
    <3>1. r[i] \in F \ {q[1]}
      BY <1>7
    <3>2. to.slots[r[i]].next = pg.slots[q[i + 1]].next
      BY <1>4, <2>1, <3>1
    <3>3. pg.slots[q[i + 1]].next = IF i + 1 < n THEN q[(i + 1) + 1] ELSE 0
      BY <1>3, <1>5
    <3>4. CASE i < n - 1
      <4>1. i + 1 \in 1..(n - 1) /\ i + 1 < n
        BY <1>4, <3>4
      <4> QED
        BY <2>1, <3>2, <3>3, <3>4, <4>1
    <3>5. CASE ~(i < n - 1)
      <4>1. ~(i + 1 < n)
        BY <1>4, <3>5
      <4> QED
        BY <3>2, <3>3, <3>5, <4>1
    <3> QED
      BY <3>4, <3>5
  <2> QED
    BY <1>4, <1>6, <2>2, <2>3, <2>4, FreeListDef
<1> QED
  BY <1>4, <1>6, <1>7, <1>8 DEF Threads

\* A slot that comes back is put before the others.
LEMMA ThreadsPush ==
  ASSUME NEW pg, NEW to, NEW F \in SUBSET Slot, NEW s \in Slot \ F, Threads(pg, F),
         to.free_index = s,
         to.slots[s].next = pg.free_index,
         \A t \in F : to.slots[t].next = pg.slots[t].next
  PROVE  Threads(to, F \cup {s})
<1>1. PICK n \in Nat : \E q \in [1..n -> Slot] :
             IsFreeList(pg, q) /\ {q[i] : i \in 1..n} = F
  BY DEF Threads
<1>2. PICK q \in [1..n -> Slot] : IsFreeList(pg, q) /\ {q[i] : i \in 1..n} = F
  BY <1>1
<1>3. /\ pg.free_index = IF n = 0 THEN 0 ELSE q[1]
      /\ \A i \in 1..n : pg.slots[q[i]].next = IF i < n THEN q[i + 1] ELSE 0
      /\ \A i, j \in 1..n : q[i] = q[j] => i = j
  BY <1>2, FreeListDef
<1> DEFINE m == n + 1
           r == [i \in 1..m |-> IF i = 1 THEN s ELSE q[i - 1]]
<1>4. /\ m \in Nat /\ m # 0 /\ 1 \in 1..m
      /\ \A i \in 1..m : i # 1 => i - 1 \in 1..n
  OBVIOUS
<1>5. r \in [1..m -> Slot]
  BY <1>4
<1>6. r[1] = s /\ \A i \in 1..m : i # 1 => r[i] = q[i - 1]
  BY <1>4
<1> HIDE DEF r
<1>7. {r[i] : i \in 1..m} = F \cup {s}
  <2>1. \A i \in 1..m : r[i] \in F \cup {s}
    BY <1>2, <1>4, <1>6
  <2>2. ASSUME NEW t \in F PROVE \E i \in 1..m : r[i] = t
    <3>1. PICK i \in 1..n : q[i] = t
      BY <1>2
    <3>2. i + 1 \in 1..m /\ i + 1 # 1 /\ (i + 1) - 1 = i
      OBVIOUS
    <3> QED
      BY <1>6, <3>1, <3>2
  <2> QED
    BY <1>4, <1>6, <2>1, <2>2
<1>8. IsFreeList(to, r)
  <2>1. to.free_index = IF m = 0 THEN 0 ELSE r[1]
    BY <1>4, <1>6
  <2>2. \A i, j \in 1..m : r[i] = r[j] => i = j
    <3> SUFFICES ASSUME NEW i \in 1..m, NEW j \in 1..m, r[i] = r[j] PROVE i = j
      OBVIOUS
    <3>1. \A k \in 1..n : q[k] # s
      BY <1>2
    <3>2. CASE i = 1 \/ j = 1
      BY <1>4, <1>6, <3>1, <3>2
    <3>3. CASE i # 1 /\ j # 1
      <4>1. i - 1 = j - 1
        BY <1>3, <1>4, <1>6, <3>3
      <4> QED
        BY <4>1
    <3> QED
      BY <3>2, <3>3
  <2>3. ASSUME NEW i \in 1..m
        PROVE  to.slots[r[i]].next = IF i < m THEN r[i + 1] ELSE 0
    <3>1. CASE i = 1
      <4>1. n # 0 => r[2] = q[1]
        BY <1>6
      <4> QED
        BY <1>3, <1>6, <3>1, <4>1
    <3>2. CASE i # 1
      <4>1. i - 1 \in 1..n /\ r[i] = q[i - 1] /\ q[i - 1] \in F
        BY <1>2, <1>4, <1>6, <3>2
      <4>2. to.slots[r[i]].next = IF i - 1 < n THEN q[(i - 1) + 1] ELSE 0
        BY <1>3, <4>1
      <4>3. i < m => i + 1 \in 1..m /\ i + 1 # 1 /\ (i + 1) - 1 = (i - 1) + 1 /\ i - 1 < n
        OBVIOUS
      <4>4. ~(i < m) => ~(i - 1 < n)
        OBVIOUS
      <4> QED
        BY <1>6, <4>2, <4>3, <4>4
    <3> QED
      BY <3>1, <3>2
  <2> QED
    BY <1>4, <1>5, <2>1, <2>2, <2>3, FreeListDef
<1> QED
  BY <1>4, <1>5, <1>7, <1>8 DEF Threads

\* page_init links every slot to the next one.
LEMMA InitThreads == Threads(PageInit, Slot)
<1> DEFINE q == [i \in 1..Slots |-> i]
<1>1. Slots \in Nat /\ Slots # 0 /\ q \in [1..Slots -> Slot]
  BY SlabAssumption DEF Slot
<1>2. {q[i] : i \in 1..Slots} = Slot
  BY DEF Slot
<1>3. IsFreeList(PageInit, q)
  <2>1. PageInit.free_index = IF Slots = 0 THEN 0 ELSE q[1]
    BY <1>1 DEF PageInit
  <2>2. \A i \in 1..Slots : PageInit.slots[q[i]].next = IF i < Slots THEN q[i + 1] ELSE 0
    BY <1>1 DEF PageInit, EmptySlot, Slot
  <2>3. \A i, j \in 1..Slots : q[i] = q[j] => i = j
    OBVIOUS
  <2> HIDE DEF q
  <2> QED
    BY <1>1, <2>1, <2>2, <2>3, FreeListDef
<1> HIDE DEF q
<1> QED
  BY <1>1, <1>2, <1>3 DEF Threads

-----------------------------------------------------------------------------
(* The partial list *)

\* list links exactly the pages in S, each once.
Links(list, S) ==
  /\ {list[i] : i \in 1..Len(list)} = S
  /\ \A i, j \in 1..Len(list) : list[i] = list[j] => i = j

LEMMA LinksAppend ==
  ASSUME NEW list \in Seq(Pages), NEW S, NEW p \in Pages \ S, Links(list, S)
  PROVE  Append(list, p) \in Seq(Pages) /\ Links(Append(list, p), S \cup {p})
<1> DEFINE n == Len(list)
           to == Append(list, p)
<1>1. /\ n \in Nat /\ to \in Seq(Pages) /\ Len(to) = n + 1
      /\ to[n + 1] = p /\ \A i \in 1..n : to[i] = list[i]
  OBVIOUS
<1>2. \A i \in 1..n : list[i] \in S /\ list[i] # p
  BY DEF Links
<1>3. \A x \in S : \E i \in 1..n : list[i] = x
  BY DEF Links
<1> HIDE DEF n, to
<1>4. 1..(n + 1) = 1..n \cup {n + 1}
  BY <1>1
<1>5. {to[i] : i \in 1..Len(to)} = S \cup {p}
  <2>1. ASSUME NEW i \in 1..Len(to) PROVE to[i] \in S \cup {p}
    <3>1. i \in 1..n \/ i = n + 1
      BY <1>1, <1>4
    <3> QED
      BY <1>1, <1>2, <3>1
  <2>2. ASSUME NEW x \in S \cup {p} PROVE \E i \in 1..Len(to) : to[i] = x
    <3>1. CASE x = p
      <4>1. n + 1 \in 1..Len(to)
        BY <1>1
      <4> QED
        BY <1>1, <3>1, <4>1
    <3>2. CASE x \in S
      <4>1. PICK i \in 1..n : list[i] = x
        BY <1>3, <3>2
      <4>2. i \in 1..Len(to)
        BY <1>1
      <4> QED
        BY <1>1, <4>1, <4>2
    <3> QED
      BY <3>1, <3>2
  <2> QED
    BY <2>1, <2>2
<1>6. \A i, j \in 1..Len(to) : to[i] = to[j] => i = j
  BY <1>1, <1>2, <1>4 DEF Links, n
<1> QED
  BY <1>1, <1>5, <1>6 DEF Links, to

\* linkedlist_remove of a page that is linked.
LEMMA LinksRemove ==
  ASSUME NEW list \in Seq(Pages), NEW S, NEW p \in S, Links(list, S)
  PROVE  Unlink(list, p) \in Seq(Pages) /\ Links(Unlink(list, p), S \ {p})
<1> DEFINE n == Len(list)
           k == CHOOSE m \in 1..Len(list) : list[m] = p
           a == SubSeq(list, 1, k - 1)
           b == SubSeq(list, k + 1, n)
           to == Unlink(list, p)
<1>1. k \in 1..n /\ list[k] = p /\ n \in Nat
  BY DEF Links
<1>2. to = a \o b
  BY DEF Unlink
<1> HIDE DEF k, to
<1>3. /\ a \in Seq(Pages) /\ Len(a) = k - 1
      /\ \A i \in 1..(k - 1) : a[i] = list[i]
  BY <1>1
<1>4. /\ b \in Seq(Pages) /\ Len(b) = n - k
      /\ \A i \in 1..(n - k) : b[i] = list[k + i]
  BY <1>1
<1> HIDE DEF a, b
<1> HIDE DEF n
<1>5. to \in Seq(Pages) /\ Len(to) = n - 1
  <2>1. to \in Seq(Pages) /\ Len(to) = Len(a) + Len(b)
    BY <1>2, <1>3, <1>4, ConcatProperties
  <2>2. Len(to) = n - 1
    BY <1>1, <1>3, <1>4, <2>1
  <2> QED
    BY <2>1, <2>2
<1>6. \A i \in 1..(n - 1) : to[i] = IF i < k THEN list[i] ELSE list[i + 1]
  <2> SUFFICES ASSUME NEW i \in 1..(n - 1)
               PROVE  to[i] = IF i < k THEN list[i] ELSE list[i + 1]
    OBVIOUS
  <2>1. CASE i < k
    BY <1>1, <1>2, <1>3, <1>4, <2>1
  <2>2. CASE ~(i < k)
    <3>1. i - (k - 1) \in 1..(n - k) /\ k + (i - (k - 1)) = i + 1
      BY <1>1, <2>2
    <3>2. to[i] = b[i - (k - 1)]
      BY <1>1, <1>2, <1>3, <1>4, <2>2, <3>1
    <3> QED
      BY <1>4, <2>2, <3>1, <3>2
  <2> QED
    BY <2>1, <2>2
<1>7. \A i, j \in 1..n : list[i] = list[j] => i = j
  BY DEF Links, n
<1>8. {list[i] : i \in 1..n} = S
  BY DEF Links, n
<1>9. \A i, j \in 1..(n - 1) : to[i] = to[j] => i = j
  BY <1>1, <1>6, <1>7
<1>10. {to[i] : i \in 1..(n - 1)} = S \ {p}
  <2>1. \A i \in 1..(n - 1) : to[i] \in S \ {p}
    BY <1>1, <1>6, <1>7, <1>8
  <2>2. ASSUME NEW x \in S, x # p PROVE \E i \in 1..(n - 1) : to[i] = x
    <3>1. PICK i \in 1..n : list[i] = x
      BY <1>8
    <3>2. CASE i < k
      BY <1>1, <1>6, <3>1, <3>2
    <3>3. CASE i > k
      <4>1. i - 1 \in 1..(n - 1) /\ ~(i - 1 < k) /\ (i - 1) + 1 = i
        BY <1>1, <3>3
      <4> QED
        BY <1>6, <3>1, <4>1
    <3> QED
      BY <1>1, <2>2, <3>1, <3>2, <3>3
  <2> QED
    BY <2>1, <2>2
<1> QED
  BY <1>5, <1>9, <1>10 DEF Links, to

-----------------------------------------------------------------------------
(* What an allocation and a deallocation do to a page *)

SlotType == [magic : {"empty", "object"}, next : 0..Slots,
             redzone : BOOLEAN, unused : BOOLEAN]

LEMMA PopShape ==
  ASSUME NEW pg \in PageType, pg.free_index \in Slot, pg.alloc_count < Slots
  PROVE  LET f == pg.free_index
             to == PopFront(pg)
         IN  /\ to \in PageType
             /\ to.free_index = pg.slots[f].next
             /\ to.alloc_count = pg.alloc_count + 1
             /\ to.slots[f] = [pg.slots[f] EXCEPT !.next = 0]
             /\ \A t \in Slot \ {f} : to.slots[t] = pg.slots[t]
<1> DEFINE f == pg.free_index
           to == PopFront(pg)
           c == pg.alloc_count + 1
           n == pg.slots[f].next
           sl == [pg.slots EXCEPT ![f].next = 0]
<1>1. /\ pg.slots \in [Slot -> SlotType] /\ n \in 0..Slots
      /\ c \in 0..Slots
  BY SlabAssumption DEF PageType, SlotType
<1>2. /\ sl \in [Slot -> SlotType]
      /\ sl[f] = [pg.slots[f] EXCEPT !.next = 0]
      /\ \A t \in Slot \ {f} : sl[t] = pg.slots[t]
  <2>1. [pg.slots[f] EXCEPT !.next = 0] \in SlotType
    BY <1>1, SlabAssumption DEF SlotType
  <2> QED
    BY <1>1, <2>1
<1>3. to = [pg EXCEPT !.free_index = n, !.slots = sl, !.alloc_count = c]
  BY DEF PopFront, PageType
<1> HIDE DEF to, c, n, sl
<1>4. /\ to.free_index = n /\ to.slots = sl /\ to.alloc_count = c
      /\ to = [free_index |-> n, alloc_count |-> c, slots |-> sl]
  BY <1>3 DEF PageType
<1>5. to \in PageType
  BY <1>1, <1>2, <1>4 DEF PageType, SlotType
<1> QED
  BY <1>2, <1>4, <1>5 DEF to, c, n

LEMMA PushShape ==
  ASSUME NEW pg \in PageType, NEW s \in Slot, pg.alloc_count > 0
  PROVE  LET to == PushFront(pg, s)
         IN  /\ to \in PageType
             /\ to.free_index = s
             /\ to.alloc_count = pg.alloc_count - 1
             /\ to.slots[s] = [pg.slots[s] EXCEPT !.next = pg.free_index]
             /\ \A t \in Slot \ {s} : to.slots[t] = pg.slots[t]
<1> DEFINE f == pg.free_index
           to == PushFront(pg, s)
           c == pg.alloc_count - 1
           sl == [pg.slots EXCEPT ![s].next = f]
<1>1. /\ pg.slots \in [Slot -> SlotType] /\ f \in 0..Slots
      /\ c \in 0..Slots
  BY SlabAssumption DEF PageType, SlotType
<1>2. /\ sl \in [Slot -> SlotType]
      /\ sl[s] = [pg.slots[s] EXCEPT !.next = f]
      /\ \A t \in Slot \ {s} : sl[t] = pg.slots[t]
  <2>1. [pg.slots[s] EXCEPT !.next = f] \in SlotType
    BY <1>1, SlabAssumption DEF SlotType
  <2> QED
    BY <1>1, <2>1
<1>3. to = [pg EXCEPT !.slots = sl, !.free_index = s, !.alloc_count = c]
  BY DEF PushFront, PageType
<1> HIDE DEF to, c, sl
<1>4. /\ to.free_index = s /\ to.slots = sl /\ to.alloc_count = c
      /\ to = [free_index |-> s, alloc_count |-> c, slots |-> sl]
  BY <1>3 DEF PageType
<1>5. to \in PageType
  BY <1>1, <1>2, <1>4, SlabAssumption DEF PageType, SlotType, Slot
<1> QED
  BY <1>2, <1>4, <1>5 DEF to, c

\* The magic number and the payload of one slot change, nothing else.
LEMMA MarkShape ==
  ASSUME NEW pg \in PageType, NEW s \in Slot
  PROVE  /\ OnAlloc(pg, s) \in PageType
         /\ OnAlloc(pg, s).free_index = pg.free_index
         /\ OnAlloc(pg, s).alloc_count = pg.alloc_count
         /\ OnAlloc(pg, s).slots[s] = [pg.slots[s] EXCEPT !.magic = "object", !.unused = FALSE]
         /\ \A t \in Slot \ {s} : OnAlloc(pg, s).slots[t] = pg.slots[t]
         /\ OnDealloc(pg, s) \in PageType
         /\ OnDealloc(pg, s).free_index = pg.free_index
         /\ OnDealloc(pg, s).alloc_count = pg.alloc_count
         /\ OnDealloc(pg, s).slots[s] = [pg.slots[s] EXCEPT !.magic = "empty", !.unused = TRUE]
         /\ \A t \in Slot \ {s} : OnDealloc(pg, s).slots[t] = pg.slots[t]
<1>1. pg.slots \in [Slot -> SlotType] /\ pg.slots[s] \in SlotType
  BY DEF PageType, SlotType
<1> DEFINE a == [pg.slots[s] EXCEPT !.magic = "object", !.unused = FALSE]
           d == [pg.slots[s] EXCEPT !.magic = "empty", !.unused = TRUE]
<1>2. a \in SlotType /\ d \in SlotType
  BY <1>1 DEF SlotType
<1> DEFINE sa == [pg.slots EXCEPT ![s] = a]
           sd == [pg.slots EXCEPT ![s] = d]
<1>3. OnAlloc(pg, s) = [pg EXCEPT !.slots = sa]
  BY <1>1 DEF OnAlloc, PageType
<1>4. OnDealloc(pg, s) = [pg EXCEPT !.slots = sd]
  BY <1>1 DEF OnDealloc, PageType
<1> HIDE DEF a, d
<1>5. /\ sa \in [Slot -> SlotType] /\ sd \in [Slot -> SlotType]
      /\ sa[s] = a /\ sd[s] = d
      /\ \A t \in Slot \ {s} : sa[t] = pg.slots[t] /\ sd[t] = pg.slots[t]
  BY <1>1, <1>2
<1> HIDE DEF sa, sd
<1>6. /\ [pg EXCEPT !.slots = sa] \in PageType
      /\ [pg EXCEPT !.slots = sd] \in PageType
  BY <1>5 DEF PageType, SlotType
<1>7. /\ [pg EXCEPT !.slots = sa].slots = sa
      /\ [pg EXCEPT !.slots = sa].free_index = pg.free_index
      /\ [pg EXCEPT !.slots = sa].alloc_count = pg.alloc_count
      /\ [pg EXCEPT !.slots = sd].slots = sd
      /\ [pg EXCEPT !.slots = sd].free_index = pg.free_index
      /\ [pg EXCEPT !.slots = sd].alloc_count = pg.alloc_count
  BY DEF PageType
<1> QED
  BY <1>3, <1>4, <1>5, <1>6, <1>7 DEF a, d

\* Page pg is as it should be when the slots in L are out.
PageGood(pg, L) ==
  /\ pg \in PageType
  /\ Threads(pg, Slot \ L)
  /\ pg.alloc_count = Cardinality(L)
  /\ \A s \in Slot : /\ pg.slots[s].magic = "object" <=> s \in L
                     /\ s \in L => pg.slots[s].next = 0

LEMMA SlotFinite ==
  ASSUME NEW L \in SUBSET Slot
  PROVE  /\ IsFiniteSet(L) /\ Cardinality(L) \in 0..Slots
         /\ Cardinality(L) = 0 <=> L = {}
         /\ L # Slot => Cardinality(L) < Slots
<1>1. IsFiniteSet(Slot) /\ Cardinality(Slot) = Slots
  BY SlabAssumption, FS_Interval DEF Slot
<1>2. /\ IsFiniteSet(L) /\ Cardinality(L) <= Slots
      /\ Cardinality(Slot) = Cardinality(L) => Slot = L
  BY <1>1, FS_Subset
<1>3. Cardinality(L) \in Nat
  BY <1>2, FS_CardinalityType
<1>4. Cardinality(L) = 0 <=> L = {}
  BY <1>2, FS_EmptySet
<1> QED
  BY <1>1, <1>2, <1>3, <1>4, SlabAssumption

\* A new page is as it should be with no object out.
LEMMA NewPageGood ==
  /\ PageGood(PageInit, {})
  /\ \A s \in Slot : PageInit.slots[s].redzone /\ PageInit.slots[s].unused
<1>1. PageInit \in PageType
  BY SlabAssumption DEF PageInit, EmptySlot, PageType, Slot
<1>2. \A s \in Slot : PageInit.slots[s].magic = "empty"
  BY DEF PageInit, EmptySlot
<1>3. Threads(PageInit, Slot \ {})
  <2>1. Slot \ {} = Slot
    OBVIOUS
  <2> QED
    BY <2>1, InitThreads
<1>4. PageInit.alloc_count = Cardinality({})
  BY FS_EmptySet DEF PageInit
<1>5. \A s \in Slot : PageInit.slots[s].redzone /\ PageInit.slots[s].unused
  BY DEF PageInit, EmptySlot
<1> QED
  BY <1>1, <1>2, <1>3, <1>4, <1>5 DEF PageGood

\* page_pop_front and slot_on_alloc on a page that has a free slot.
LEMMA TakeSlot ==
  ASSUME NEW pg, NEW L \in SUBSET Slot, L # Slot, PageGood(pg, L)
  PROVE  LET s == pg.free_index
             popped == PopFront(pg)
             to == OnAlloc(popped, s)
         IN  /\ s \in Slot \ L
             /\ popped \in PageType
             /\ popped.free_index = 0 <=> L \cup {s} = Slot
             /\ Allocable(popped.slots[s]) <=> pg.slots[s].redzone /\ pg.slots[s].unused
             /\ PageGood(to, L \cup {s})
             /\ to.slots[s].redzone = pg.slots[s].redzone
             /\ \A t \in Slot \ {s} : to.slots[t] = pg.slots[t]
<1> DEFINE s == pg.free_index
           popped == PopFront(pg)
           to == OnAlloc(popped, s)
           F == Slot \ L
<1>1. pg \in PageType /\ Threads(pg, F) /\ pg.alloc_count = Cardinality(L)
  BY DEF PageGood
<1>2. s \in F
  BY <1>1, ThreadsHead
<1>3. pg.alloc_count < Slots
  BY <1>1, SlotFinite
<1>4. /\ popped \in PageType
      /\ popped.free_index = pg.slots[s].next
      /\ popped.alloc_count = pg.alloc_count + 1
      /\ popped.slots[s] = [pg.slots[s] EXCEPT !.next = 0]
      /\ \A t \in Slot \ {s} : popped.slots[t] = pg.slots[t]
  BY <1>1, <1>2, <1>3, PopShape
<1> HIDE DEF popped
<1>5. /\ to \in PageType
      /\ to.free_index = popped.free_index
      /\ to.alloc_count = popped.alloc_count
      /\ to.slots[s] = [popped.slots[s] EXCEPT !.magic = "object", !.unused = FALSE]
      /\ \A t \in Slot \ {s} : to.slots[t] = popped.slots[t]
  BY <1>2, <1>4, MarkShape
<1> HIDE DEF to
<1>6. pg.slots[s] \in SlotType
  BY <1>1, <1>2 DEF PageType, SlotType
<1>7. /\ popped.slots[s].magic = pg.slots[s].magic /\ popped.slots[s].next = 0
      /\ popped.slots[s].redzone = pg.slots[s].redzone
      /\ popped.slots[s].unused = pg.slots[s].unused
      /\ to.slots[s].magic = "object" /\ to.slots[s].next = 0
      /\ to.slots[s].redzone = pg.slots[s].redzone
  BY <1>4, <1>5, <1>6 DEF SlotType
<1>8. pg.slots[s].magic = "empty"
  BY <1>2, <1>6 DEF PageGood, SlotType
<1>9. Threads(popped, F \ {s}) /\ Threads(to, F \ {s})
  BY <1>1, <1>2, <1>4, <1>5, ThreadsPop, SlabAssumption DEF Slot
<1>10. F \ {s} = Slot \ (L \cup {s})
  OBVIOUS
<1>11. popped.free_index = 0 <=> L \cup {s} = Slot
  <2>1. popped.free_index = 0 <=> F \ {s} = {}
    BY <1>9, ThreadsHead
  <2> QED
    BY <1>2, <2>1
<1>12. to.alloc_count = Cardinality(L \cup {s})
  BY <1>1, <1>2, <1>4, <1>5, SlotFinite, FS_AddElement
<1>13. \A t \in Slot : /\ to.slots[t].magic = "object" <=> t \in L \cup {s}
                       /\ t \in L \cup {s} => to.slots[t].next = 0
  <2> SUFFICES ASSUME NEW t \in Slot
               PROVE  /\ to.slots[t].magic = "object" <=> t \in L \cup {s}
                      /\ t \in L \cup {s} => to.slots[t].next = 0
    OBVIOUS
  <2>1. CASE t = s
    BY <1>7, <2>1
  <2>2. CASE t # s
    <3>1. to.slots[t] = pg.slots[t]
      BY <1>4, <1>5, <2>2
    <3> QED
      BY <2>2, <3>1 DEF PageGood
  <2> QED
    BY <2>1, <2>2
<1>14. PageGood(to, L \cup {s})
  BY <1>5, <1>9, <1>10, <1>12, <1>13 DEF PageGood
<1>15. Allocable(popped.slots[s]) <=> pg.slots[s].redzone /\ pg.slots[s].unused
  BY <1>7, <1>8 DEF Allocable
<1> QED
  BY <1>2, <1>4, <1>5, <1>7, <1>11, <1>14, <1>15 DEF popped, to

\* slot_on_dealloc and page_push_front on a page, for one of its objects.
LEMMA ReturnSlot ==
  ASSUME NEW pg, NEW L \in SUBSET Slot, NEW s \in L, PageGood(pg, L)
  PROVE  LET freed == PushFront(OnDealloc(pg, s), s)
         IN  /\ pg.free_index = 0 <=> L = Slot
             /\ PageGood(freed, L \ {s})
             /\ freed.alloc_count = 0 <=> L \ {s} = {}
             /\ freed.slots[s].redzone = pg.slots[s].redzone
             /\ freed.slots[s].unused
             /\ \A t \in Slot \ {s} : freed.slots[t] = pg.slots[t]
<1> DEFINE mid == OnDealloc(pg, s)
           freed == PushFront(mid, s)
           F == Slot \ L
<1>1. /\ pg \in PageType /\ Threads(pg, F) /\ pg.alloc_count = Cardinality(L)
      /\ s \in Slot \ F
  BY DEF PageGood
<1>2. pg.alloc_count > 0
  BY <1>1, SlotFinite
<1>3. /\ mid \in PageType /\ mid.free_index = pg.free_index
      /\ mid.alloc_count = pg.alloc_count
      /\ mid.slots[s] = [pg.slots[s] EXCEPT !.magic = "empty", !.unused = TRUE]
      /\ \A t \in Slot \ {s} : mid.slots[t] = pg.slots[t]
  BY <1>1, MarkShape
<1> HIDE DEF mid
<1>4. /\ freed \in PageType /\ freed.free_index = s
      /\ freed.alloc_count = mid.alloc_count - 1
      /\ freed.slots[s] = [mid.slots[s] EXCEPT !.next = mid.free_index]
      /\ \A t \in Slot \ {s} : freed.slots[t] = mid.slots[t]
  BY <1>1, <1>2, <1>3, PushShape
<1> HIDE DEF freed
<1>5. pg.slots[s] \in SlotType
  BY <1>1 DEF PageType, SlotType
<1>6. /\ freed.slots[s].magic = "empty" /\ freed.slots[s].next = pg.free_index
      /\ freed.slots[s].redzone = pg.slots[s].redzone
      /\ freed.slots[s].unused
  BY <1>3, <1>4, <1>5 DEF SlotType
<1>7. \A t \in Slot \ {s} : freed.slots[t] = pg.slots[t]
  BY <1>3, <1>4
<1>8. Threads(freed, F \cup {s})
  <2>1. \A t \in F : freed.slots[t].next = pg.slots[t].next
    BY <1>1, <1>7
  <2>2. F \in SUBSET Slot
    OBVIOUS
  <2>3. /\ s \in Slot \ F /\ Threads(pg, F)
        /\ freed.free_index = s
        /\ freed.slots[s].next = pg.free_index
    BY <1>1, <1>4, <1>6
  <2> HIDE DEF F
  <2> QED
    BY <2>1, <2>2, <2>3, ThreadsPush
<1>9. F \cup {s} = Slot \ (L \ {s})
  BY <1>1
<1>10. freed.alloc_count = Cardinality(L \ {s})
  BY <1>1, <1>3, <1>4, SlotFinite, FS_RemoveElement
<1>11. freed.alloc_count = 0 <=> L \ {s} = {}
  BY <1>10, SlotFinite
<1>12. \A t \in Slot : /\ freed.slots[t].magic = "object" <=> t \in L \ {s}
                       /\ t \in L \ {s} => freed.slots[t].next = 0
  BY <1>6, <1>7 DEF PageGood
<1>13. PageGood(freed, L \ {s})
  BY <1>4, <1>8, <1>9, <1>10, <1>12 DEF PageGood
<1>14. pg.free_index = 0 <=> L = Slot
  BY <1>1, ThreadsHead
<1> QED
  BY <1>6, <1>7, <1>11, <1>13, <1>14 DEF mid, freed

-----------------------------------------------------------------------------
(* The inductive invariant, page by page *)

Partial == {p \in owned : LiveIn(p) # Slot}

PagesGood ==
  ~panicked => /\ \A p \in owned : PageGood(mem[p], LiveIn(p)) /\ LiveIn(p) # {}
               /\ Links(partial, Partial)

ByPage ==
  /\ TypeOK
  /\ PagesGood
  /\ \A o \in objs : o[1] \in owned
  /\ panicked => misused
  /\ Undamaged

LEMMA LiveInType == \A p : LiveIn(p) \in SUBSET Slot
BY DEF LiveIn

\* The free list as the property states it is never longer than the page.
LEMMA BoundedList ==
  ASSUME NEW pg, NEW F
  PROVE  Threads(pg, F) <=> \E n \in 0..Slots : \E q \in [1..n -> Slot] :
                              IsFreeList(pg, q) /\ {q[i] : i \in 1..n} = F
<1>1. \A n \in 0..Slots : n \in Nat
  BY SlabAssumption
<1>2. ASSUME NEW n \in Nat, NEW q \in [1..n -> Slot], IsFreeList(pg, q) PROVE n \in 0..Slots
  <2>1. Len(q) = n
    OBVIOUS
  <2>2. \A i, j \in 1..n : q[i] = q[j] => i = j
    BY <1>2, <2>1 DEF IsFreeList
  <2> QED
    BY <2>2, ShortList
<1> QED
  BY <1>1, <1>2 DEF Threads

LEMMA ByPageIsIInv == IInv <=> ByPage
<1> DEFINE Listed(pg, F) == \E n \in 0..Slots : \E q \in [1..n -> Slot] :
                              IsFreeList(pg, q) /\ {q[i] : i \in 1..n} = F
           Headers(pg, L) == \A s \in Slot : /\ pg.slots[s].magic = "object" <=> s \in L
                                             /\ s \in L => pg.slots[s].next = 0
<1>1. FreeListOK <=> TypeOK /\ (~panicked => \A p \in owned :
                       Listed(mem[p], Slot \ LiveIn(p)) /\ Headers(mem[p], LiveIn(p)))
  <2>1. \A p : Headers(mem[p], LiveIn(p)) <=>
                \A s \in Slot : /\ mem[p].slots[s].magic = "object" <=> <<p, s>> \in objs
                                /\ <<p, s>> \in objs => mem[p].slots[s].next = 0
    BY DEF LiveIn
  <2> HIDE DEF Headers
  <2> QED
    BY <2>1 DEF FreeListOK
<1>2. \A pg, F : Listed(pg, F) <=> Threads(pg, F)
  BY BoundedList
<1> HIDE DEF Listed, Headers
<1>3. ASSUME TypeOK, NEW p \in owned
      PROVE  PageGood(mem[p], LiveIn(p)) <=>
               /\ Listed(mem[p], Slot \ LiveIn(p))
               /\ Headers(mem[p], LiveIn(p))
               /\ mem[p].alloc_count = Cardinality(LiveIn(p))
  <2> DEFINE pg == mem[p]
             L == LiveIn(p)
  <2>1. pg \in PageType
    BY <1>3 DEF TypeOK, PageType
  <2> HIDE DEF pg, L
  <2>2. PageGood(pg, L) <=> Threads(pg, Slot \ L) /\ pg.alloc_count = Cardinality(L) /\ Headers(pg, L)
    <3>1. Headers(pg, L) <=> \A s \in Slot : /\ pg.slots[s].magic = "object" <=> s \in L
                                             /\ s \in L => pg.slots[s].next = 0
      BY Zenon DEF Headers
    <3> QED
      BY <2>1, <3>1 DEF PageGood
  <2>3. Listed(pg, Slot \ L) <=> Threads(pg, Slot \ L)
    BY <1>2
  <2>4. PageGood(pg, L) <=> Listed(pg, Slot \ L) /\ Headers(pg, L) /\ pg.alloc_count = Cardinality(L)
    BY <2>2, <2>3
  <2> QED
    BY <2>4 DEF pg, L
<1>4. PagesOK <=> /\ \A o \in objs : o[1] \in owned
                  /\ ~panicked => /\ \A p \in owned : /\ LiveIn(p) # {}
                                                      /\ mem[p].alloc_count = Cardinality(LiveIn(p))
                                  /\ Links(partial, Partial)
  BY DEF PagesOK, Links, Partial
<1>5. FreeListOK /\ PagesOK <=> TypeOK /\ PagesGood /\ \A o \in objs : o[1] \in owned
  BY <1>1, <1>3, <1>4 DEF PagesGood
<1>6. ASSUME ByPage, ~panicked, partial # <<>> PROVE mem[Head(partial)].free_index # 0
  <2> DEFINE p == Head(partial)
             pg == mem[p]
             L == LiveIn(p)
  <2>1. partial \in Seq(Pages) /\ Links(partial, Partial)
    BY <1>6 DEF ByPage, TypeOK, PagesGood
  <2>2. 1 \in 1..Len(partial) /\ p = partial[1]
    BY <1>6, <2>1
  <2>3. p \in Partial
    BY <2>1, <2>2 DEF Links
  <2>4. PageGood(pg, L) /\ L # Slot /\ L \in SUBSET Slot
    BY <1>6, <2>3 DEF ByPage, PagesGood, Partial, LiveIn
  <2> HIDE DEF pg, L
  <2>5. pg.free_index \in Slot
    BY <2>4, TakeSlot
  <2> QED
    BY <2>5 DEF pg, Slot
<1>7. IInv => ByPage
  BY <1>5 DEF IInv, NoFalseAlarm, ByPage
<1>8. ByPage => IInv
  BY <1>5, <1>6 DEF IInv, NoFalseAlarm, ByPage
<1> QED
  BY <1>7, <1>8

-----------------------------------------------------------------------------
(* Every operation preserves it *)

LEMMA InitByPage == Init => ByPage
<1> SUFFICES ASSUME Init PROVE ByPage
  OBVIOUS
<1>1. TypeOK
  <2>1. PageInit \in PageType
    BY NewPageGood DEF PageGood
  <2>2. mem \in [Pages -> PageType]
    BY <2>1 DEF Init
  <2>3. partial \in Seq(Pages)
    BY DEF Init
  <2> QED
    BY <2>2, <2>3 DEF Init, TypeOK, PageType
<1>2. PagesGood
  BY DEF Init, PagesGood, Links, Partial
<1> QED
  BY <1>1, <1>2 DEF Init, ByPage, Undamaged

\* A page with a free slot, in the partial list or new, gives one up; list is
\* the partial list with this page in it.
LEMMA TakeFromByPage ==
  ASSUME ByPage, ~panicked, NEW p \in Pages, NEW pg, NEW list \in Seq(Pages),
         PageGood(pg, LiveIn(p)), LiveIn(p) # Slot,
         ~misused => \A t \in Slot : pg.slots[t].redzone /\ (t \notin LiveIn(p) => pg.slots[t].unused),
         Links(list, Partial \cup {p}),
         TakeFrom(p, pg, list), owned' = owned \cup {p}, misused' = misused
  PROVE  /\ ByPage'
         /\ ret' # Null => ret' \notin objs
<1> DEFINE L == LiveIn(p)
           s == pg.free_index
           popped == PopFront(pg)
           to == OnAlloc(popped, s)
           S == Partial \cup {p}
           next == IF popped.free_index = 0 THEN Unlink(list, p) ELSE list
<1>0. L \in SUBSET Slot
  BY LiveInType
<1>1. /\ s \in Slot \ L
      /\ popped \in PageType
      /\ popped.free_index = 0 <=> L \cup {s} = Slot
      /\ Allocable(popped.slots[s]) <=> pg.slots[s].redzone /\ pg.slots[s].unused
      /\ PageGood(to, L \cup {s})
      /\ to.slots[s].redzone = pg.slots[s].redzone
      /\ \A t \in Slot \ {s} : to.slots[t] = pg.slots[t]
  BY <1>0, TakeSlot
<1>2. <<p, s>> \notin objs
  BY <1>1 DEF LiveIn
<1>3. /\ next \in Seq(Pages)
      /\ Links(next, IF L \cup {s} = Slot THEN S \ {p} ELSE S)
  <2>1. Unlink(list, p) \in Seq(Pages) /\ Links(Unlink(list, p), S \ {p})
    BY LinksRemove
  <2> HIDE DEF popped, s, L, S
  <2> QED
    BY <1>1, <2>1 DEF S
<1>4. /\ partial' = next
      /\ \/ /\ Allocable(popped.slots[s])
            /\ mem' = [mem EXCEPT ![p] = to]
            /\ objs' = objs \cup {<<p, s>>}
            /\ ret' = <<p, s>>
            /\ panicked' = panicked
         \/ /\ ~Allocable(popped.slots[s])
            /\ mem' = [mem EXCEPT ![p] = popped]
            /\ panicked' = TRUE
            /\ objs' = objs /\ ret' = Null
  BY DEF TakeFrom, Panic
<1> HIDE DEF L, s, popped, to, next
<1>5. /\ owned \subseteq Pages /\ mem \in [Pages -> PageType] /\ objs \subseteq Object
      /\ ret \in Object \cup {Null} /\ misused \in BOOLEAN /\ panicked \in BOOLEAN
  BY DEF ByPage, TypeOK, PageType
<1>6. CASE ~Allocable(popped.slots[s])
  <2>1. mem' = [mem EXCEPT ![p] = popped] /\ panicked' /\ objs' = objs /\ ret' = Null
    BY <1>4, <1>6
  <2>2. misused /\ misused'
    BY <1>1, <1>6 DEF L
  <2>3. mem' \in [Pages -> PageType]
    BY <1>1, <1>5, <2>1
  <2>4. TypeOK'
    BY <1>3, <1>4, <1>5, <2>1, <2>3 DEF TypeOK, PageType
  <2>5. \A o \in objs' : o[1] \in owned'
    BY <2>1 DEF ByPage
  <2> QED
    BY <2>1, <2>2, <2>4, <2>5 DEF ByPage, PagesGood, Undamaged
<1>7. CASE Allocable(popped.slots[s])
  <2>1. /\ mem' = [mem EXCEPT ![p] = to] /\ objs' = objs \cup {<<p, s>>}
        /\ ret' = <<p, s>> /\ panicked' = panicked
    BY <1>4, <1>7
  <2>2. to \in PageType
    BY <1>1 DEF PageGood
  <2>3. mem' \in [Pages -> PageType] /\ mem'[p] = to /\ \A q \in Pages \ {p} : mem'[q] = mem[q]
    BY <1>5, <2>1, <2>2
  <2>4. <<p, s>> \in Object
    BY <1>1 DEF Object
  <2>5. TypeOK'
    BY <1>3, <1>4, <1>5, <2>1, <2>3, <2>4 DEF TypeOK, PageType
  <2>6. LiveIn(p)' = L \cup {s} /\ \A q \in Pages \ {p} : LiveIn(q)' = LiveIn(q)
    <3>1. LiveIn(p)' = L \cup {s}
      BY <1>1, <2>1 DEF LiveIn, L
    <3>2. \A q \in Pages \ {p} : \A t \in Slot : <<q, t>> \in objs' <=> <<q, t>> \in objs
      BY <2>1
    <3> QED
      BY <3>1, <3>2 DEF LiveIn
  <2>7. Partial' = IF L \cup {s} = Slot THEN S \ {p} ELSE S
    <3>1. \A q \in Pages \ {p} : q \in Partial' <=> q \in Partial
      BY <2>6 DEF Partial
    <3>2. p \in Partial' <=> L \cup {s} # Slot
      BY <2>6 DEF Partial
    <3>3. Partial \subseteq Pages /\ Partial' \subseteq Pages
      BY <1>5 DEF Partial
    <3> QED
      BY <3>1, <3>2, <3>3 DEF S
  <2>8. PagesGood'
    <3>1. \A q \in owned' : PageGood(mem'[q], LiveIn(q)') /\ LiveIn(q)' # {}
      <4> SUFFICES ASSUME NEW q \in owned' PROVE PageGood(mem'[q], LiveIn(q)') /\ LiveIn(q)' # {}
        OBVIOUS
      <4>1. CASE q = p
        BY <1>1, <2>3, <2>6, <4>1
      <4>2. CASE q # p
        <5>1. q \in owned /\ q \in Pages \ {p}
          BY <1>5, <4>2
        <5>2. PageGood(mem[q], LiveIn(q)) /\ LiveIn(q) # {}
          BY <5>1 DEF ByPage, PagesGood
        <5> QED
          BY <2>3, <2>6, <5>1, <5>2
      <4> QED
        BY <4>1, <4>2
    <3>2. Links(partial', Partial')
      BY <1>3, <1>4, <2>7
    <3> QED
      BY <3>1, <3>2 DEF PagesGood
  <2>9. \A o \in objs' : o[1] \in owned'
    BY <2>1 DEF ByPage
  <2>10. Undamaged'
    <3> SUFFICES ASSUME ~misused, NEW q \in owned', NEW t \in Slot
                 PROVE  /\ mem'[q].slots[t].redzone
                        /\ <<q, t>> \notin objs' => mem'[q].slots[t].unused
      BY DEF Undamaged
    <3>1. CASE q # p
      BY <1>5, <2>1, <2>3, <3>1 DEF ByPage, Undamaged
    <3>2. CASE q = p /\ t = s
      BY <1>1, <2>1, <2>3, <3>2
    <3>3. CASE q = p /\ t # s
      <4>1. mem'[q].slots[t] = pg.slots[t]
        BY <1>1, <2>3, <3>3
      <4> QED
        BY <2>1, <3>3, <4>1 DEF LiveIn
    <3> QED
      BY <3>1, <3>2, <3>3
  <2> QED
    BY <1>2, <2>1, <2>5, <2>8, <2>9, <2>10 DEF ByPage
<1> QED
  BY <1>6, <1>7

LEMMA AllocPartialByPage ==
  ASSUME ByPage, AllocPartial
  PROVE  /\ ByPage'
         /\ ret' # Null => ret' \notin objs
<1> DEFINE p == Head(partial)
           pg == mem[p]
<1>1. /\ ~panicked /\ partial # <<>> /\ TakeFrom(p, pg, partial)
      /\ owned' = owned /\ misused' = misused
  BY DEF AllocPartial
<1>2. partial \in Seq(Pages) /\ Links(partial, Partial)
  BY <1>1 DEF ByPage, TypeOK, PagesGood
<1>3. 1 \in 1..Len(partial) /\ p = partial[1] /\ p \in Pages
  BY <1>1, <1>2
<1>4. p \in Partial
  BY <1>2, <1>3 DEF Links
<1> HIDE DEF p
<1>5. /\ PageGood(pg, LiveIn(p)) /\ LiveIn(p) # Slot
      /\ Partial \cup {p} = Partial /\ owned \cup {p} = owned
  BY <1>1, <1>4 DEF ByPage, PagesGood, Partial
<1>6. ~misused => \A t \in Slot : pg.slots[t].redzone /\ (t \notin LiveIn(p) => pg.slots[t].unused)
  BY <1>4 DEF ByPage, Undamaged, Partial, LiveIn
<1> HIDE DEF pg
<1>7. Links(partial, Partial \cup {p}) /\ owned' = owned \cup {p}
  BY <1>1, <1>2, <1>5
<1> QED
  BY <1>1, <1>2, <1>3, <1>5, <1>6, <1>7, TakeFromByPage

LEMMA AllocNewPageByPage ==
  ASSUME ByPage, NEW p \in Pages, AllocNewPage(p)
  PROVE  /\ ByPage'
         /\ ret' # Null => ret' \notin objs
<1>1. /\ ~panicked /\ partial = <<>> /\ p \notin owned
      /\ owned' = owned \cup {p} /\ misused' = misused
      /\ TakeFrom(p, PageInit, <<p>>)
  BY DEF AllocNewPage
<1>2. LiveIn(p) = {}
  BY <1>1 DEF LiveIn, ByPage
<1>3. LiveIn(p) # Slot
  BY <1>2, SlabAssumption DEF Slot
<1>4. <<p>> \in Seq(Pages) /\ Links(<<p>>, Partial \cup {p})
  <2>1. Partial = {}
    BY <1>1 DEF ByPage, PagesGood, Links
  <2>2. Len(<<p>>) = 1 /\ <<p>>[1] = p /\ <<p>> \in Seq(Pages)
    OBVIOUS
  <2> QED
    BY <2>1, <2>2 DEF Links
<1>5. /\ PageGood(PageInit, LiveIn(p))
      /\ \A t \in Slot : PageInit.slots[t].redzone /\ PageInit.slots[t].unused
  BY <1>2, NewPageGood
<1> QED
  BY <1>1, <1>3, <1>4, <1>5, TakeFromByPage

LEMMA DeallocByPage ==
  ASSUME ByPage, NEW p \in owned, NEW s \in Slot, Dealloc(p, s)
  PROVE  ByPage' /\ ret' = Null
<1> DEFINE pg == mem[p]
           L == LiveIn(p)
           freed == PushFront(OnDealloc(pg, s), s)
<1>0. /\ ~panicked /\ PageGood(pg, L) /\ L \in SUBSET Slot
      /\ Links(partial, Partial)
  BY LiveInType DEF Dealloc, ByPage, PagesGood
<1>1. s \in L <=> <<p, s>> \in objs
  BY DEF LiveIn
<1>2. /\ owned \subseteq Pages /\ mem \in [Pages -> PageType] /\ objs \subseteq Object
      /\ ret \in Object \cup {Null} /\ misused \in BOOLEAN /\ panicked \in BOOLEAN
      /\ partial \in Seq(Pages)
  BY DEF ByPage, TypeOK, PageType
<1>3. misused' = (misused \/ <<p, s>> \notin objs)
  BY DEF Dealloc
<1>4. CASE DeallocPanics(p, s)
  <2>1. /\ ~Deallocable(pg.slots[s]) /\ panicked' = TRUE
        /\ ret' = Null
        /\ UNCHANGED <<owned, mem, partial, objs>>
    BY <1>4 DEF DeallocPanics, Panic
  <2>2. misused'
    <3> SUFFICES ASSUME ~misused, s \in L PROVE FALSE
      BY <1>1, <1>2, <1>3
    <3>1. pg.slots[s].magic = "object" /\ pg.slots[s].next = 0
      BY <1>0 DEF PageGood
    <3>2. pg.slots[s].redzone
      BY DEF ByPage, Undamaged
    <3> QED
      BY <2>1, <3>1, <3>2 DEF Deallocable
  <2>3. misused' \in BOOLEAN
    BY <1>2, <1>3
  <2> QED
    BY <1>2, <2>1, <2>2, <2>3 DEF ByPage, TypeOK, PagesGood, Undamaged
<1>5. CASE DeallocObject(p, s)
  <2>1. /\ Deallocable(pg.slots[s])
        /\ mem' = [mem EXCEPT ![p] = freed]
        /\ objs' = objs \ {<<p, s>>}
        /\ \/ /\ freed.alloc_count = 0
              /\ partial' = IF pg.free_index = 0 THEN partial ELSE Unlink(partial, p)
              /\ owned' = owned \ {p}
           \/ /\ freed.alloc_count # 0
              /\ partial' = IF pg.free_index = 0 THEN Append(partial, p) ELSE partial
              /\ owned' = owned
        /\ panicked' = panicked /\ ret' = Null
    BY <1>5 DEF DeallocObject
  <2>2. s \in L
    BY <1>0, <2>1 DEF PageGood, Deallocable
  <2> HIDE DEF L
  <2>3. /\ pg.free_index = 0 <=> L = Slot
        /\ PageGood(freed, L \ {s})
        /\ freed.alloc_count = 0 <=> L \ {s} = {}
        /\ freed.slots[s].redzone = pg.slots[s].redzone
        /\ freed.slots[s].unused
        /\ \A t \in Slot \ {s} : freed.slots[t] = pg.slots[t]
    <3> HIDE DEF pg
    <3> QED
      BY <1>0, <2>2, ReturnSlot
  <2> HIDE DEF freed
  <2>4. freed \in PageType
    BY <2>3 DEF PageGood
  <2>5. mem' \in [Pages -> PageType] /\ mem'[p] = freed /\ \A q \in Pages \ {p} : mem'[q] = mem[q]
    BY <1>2, <2>1, <2>4
  <2>6. LiveIn(p)' = L \ {s} /\ \A q \in Pages \ {p} : LiveIn(q)' = LiveIn(q)
    <3>1. LiveIn(p)' = L \ {s}
      BY <2>1 DEF LiveIn, L
    <3>2. \A q \in Pages \ {p} : \A t \in Slot : <<q, t>> \in objs' <=> <<q, t>> \in objs
      BY <2>1
    <3> QED
      BY <3>1, <3>2 DEF LiveIn
  <2>7. owned' = IF L \ {s} = {} THEN owned \ {p} ELSE owned
    BY <2>1, <2>3
  <2>8. partial' \in Seq(Pages) /\ Links(partial', Partial')
    <3>1. p \in Partial <=> L # Slot
      BY DEF Partial, L
    <3>2. p \in Partial' <=> L \ {s} # {}
      BY <2>2, <2>6, <2>7 DEF Partial
    <3>3. \A q \in Pages \ {p} : q \in Partial' <=> q \in Partial
      BY <2>6, <2>7 DEF Partial
    <3>4. Partial \subseteq Pages /\ Partial' \subseteq Pages
      BY <1>2, <2>7 DEF Partial
    <3>5. CASE L \ {s} = {} /\ L # Slot
      <4>1. Partial' = Partial \ {p} /\ p \in Partial
        BY <3>1, <3>2, <3>3, <3>4, <3>5
      <4>2. partial' = Unlink(partial, p)
        BY <2>1, <2>3, <3>5
      <4> QED
        BY <1>0, <1>2, <4>1, <4>2, LinksRemove
    <3>6. CASE L \ {s} # {} /\ L = Slot
      <4>1. Partial' = Partial \cup {p} /\ p \in Pages \ Partial
        BY <1>2, <3>1, <3>2, <3>3, <3>4, <3>6
      <4>2. partial' = Append(partial, p)
        BY <2>1, <2>3, <3>6
      <4> QED
        BY <1>0, <1>2, <4>1, <4>2, LinksAppend
    <3>7. CASE (L \ {s} = {}) <=> (L = Slot)
      <4>1. Partial' = Partial
        BY <3>1, <3>2, <3>3, <3>4, <3>7
      <4>2. partial' = partial
        BY <2>1, <2>3, <3>7
      <4> QED
        BY <1>0, <1>2, <4>1, <4>2
    <3> QED
      BY <3>5, <3>6, <3>7
  <2>9. PagesGood'
    <3> SUFFICES ASSUME NEW q \in owned' PROVE PageGood(mem'[q], LiveIn(q)') /\ LiveIn(q)' # {}
      BY <2>8 DEF PagesGood
    <3>1. CASE q = p
      BY <2>3, <2>5, <2>6, <2>7, <3>1
    <3>2. CASE q # p
      <4>1. q \in owned /\ q \in Pages \ {p}
        BY <1>2, <2>7, <3>2
      <4>2. PageGood(mem[q], LiveIn(q)) /\ LiveIn(q) # {}
        BY <1>0, <4>1 DEF ByPage, PagesGood
      <4> QED
        BY <2>5, <2>6, <4>1, <4>2
    <3> QED
      BY <3>1, <3>2
  <2>10. misused' = misused
    BY <1>1, <1>2, <1>3, <2>2 DEF L
  <2>11. TypeOK'
    BY <1>2, <2>1, <2>5, <2>7, <2>8, <2>10 DEF TypeOK, PageType
  <2>12. \A o \in objs' : o[1] \in owned'
    <3> SUFFICES ASSUME NEW o \in objs' PROVE o[1] \in owned'
      OBVIOUS
    <3>1. PICK q \in Pages, t \in Slot : o = <<q, t>>
      BY <1>2, <2>1 DEF Object
    <3>2. o[1] = q /\ q \in owned /\ t \in LiveIn(q)'
      BY <2>1, <3>1 DEF ByPage, LiveIn
    <3> QED
      BY <2>6, <2>7, <3>2
  <2>13. Undamaged'
    <3> SUFFICES ASSUME ~misused, NEW q \in owned', NEW t \in Slot
                 PROVE  /\ mem'[q].slots[t].redzone
                        /\ <<q, t>> \notin objs' => mem'[q].slots[t].unused
      BY <2>10 DEF Undamaged
    <3>1. q \in owned /\ q \in Pages
      BY <1>2, <2>7
    <3>2. mem[q].slots[t].redzone /\ (<<q, t>> \notin objs => mem[q].slots[t].unused)
      BY <3>1 DEF ByPage, Undamaged
    <3>3. CASE q # p
      BY <2>1, <2>5, <3>1, <3>2, <3>3
    <3>4. CASE q = p /\ t = s
      BY <2>3, <2>5, <3>2, <3>4
    <3>5. CASE q = p /\ t # s
      BY <2>1, <2>3, <2>5, <3>2, <3>5
    <3> QED
      BY <3>3, <3>4, <3>5
  <2>14. panicked' => misused'
    BY <1>0, <2>1
  <2> QED
    BY <2>1, <2>9, <2>11, <2>12, <2>13, <2>14 DEF ByPage
<1> QED
  BY <1>4, <1>5 DEF Dealloc

\* A caller that writes where it must not spoils a fill pattern, but neither a
\* link nor a magic number.
LEMMA SpoiledPage ==
  ASSUME NEW pg, NEW L \in SUBSET Slot, PageGood(pg, L), NEW s \in Slot
  PROVE  /\ PageGood([pg EXCEPT !.slots = [pg.slots EXCEPT ![s] = [pg.slots[s] EXCEPT !.redzone = FALSE]]], L)
         /\ PageGood([pg EXCEPT !.slots = [pg.slots EXCEPT ![s] = [pg.slots[s] EXCEPT !.unused = FALSE]]], L)
<1>1. pg \in PageType /\ pg.slots \in [Slot -> SlotType]
  BY DEF PageGood, PageType, SlotType
<1>2. ASSUME NEW sl \in [Slot -> SlotType],
             \A t \in Slot : sl[t].magic = pg.slots[t].magic /\ sl[t].next = pg.slots[t].next
      PROVE  PageGood([pg EXCEPT !.slots = sl], L)
  <2> DEFINE to == [pg EXCEPT !.slots = sl]
  <2>1. /\ to \in PageType /\ to.slots = sl
        /\ to.free_index = pg.free_index /\ to.alloc_count = pg.alloc_count
    BY <1>1 DEF PageType, SlotType
  <2> HIDE DEF to
  <2>2. Threads(to, Slot \ L)
    <3> DEFINE F == Slot \ L
    <3>1. Threads(pg, F) /\ \A t \in F : to.slots[t].next = pg.slots[t].next
      BY <1>2, <2>1 DEF PageGood
    <3> HIDE DEF F
    <3>2. Threads(to, F)
      BY <2>1, <3>1, ThreadsSame
    <3> QED
      BY <3>2 DEF F
  <2>3. PageGood(to, L)
    BY <1>2, <2>1, <2>2 DEF PageGood
  <2> QED
    BY <2>3 DEF to
<1>3. /\ [pg.slots[s] EXCEPT !.redzone = FALSE] \in SlotType
      /\ [pg.slots[s] EXCEPT !.redzone = FALSE].magic = pg.slots[s].magic
      /\ [pg.slots[s] EXCEPT !.redzone = FALSE].next = pg.slots[s].next
      /\ [pg.slots[s] EXCEPT !.unused = FALSE] \in SlotType
      /\ [pg.slots[s] EXCEPT !.unused = FALSE].magic = pg.slots[s].magic
      /\ [pg.slots[s] EXCEPT !.unused = FALSE].next = pg.slots[s].next
  BY <1>1 DEF SlotType
<1> QED
  BY <1>1, <1>2, <1>3

LEMMA SpoilByPage ==
  ASSUME ByPage, ~panicked, NEW p \in owned, NEW to, PageGood(to, LiveIn(p)),
         mem' = [mem EXCEPT ![p] = to], misused' = TRUE,
         ret' = Null, UNCHANGED <<owned, partial, panicked, objs>>
  PROVE  ByPage'
<1>1. /\ owned \subseteq Pages /\ mem \in [Pages -> PageType] /\ to \in PageType
  BY DEF ByPage, TypeOK, PageType, PageGood
<1>2. mem' \in [Pages -> PageType] /\ mem'[p] = to /\ \A q \in Pages \ {p} : mem'[q] = mem[q]
  BY <1>1
<1>3. Partial' = Partial /\ \A q : LiveIn(q)' = LiveIn(q)
  BY DEF Partial, LiveIn
<1>4. PagesGood'
  <2> SUFFICES ASSUME NEW q \in owned PROVE PageGood(mem'[q], LiveIn(q)) /\ LiveIn(q) # {}
    BY <1>3 DEF PagesGood, ByPage
  <2>1. PageGood(mem[q], LiveIn(q)) /\ LiveIn(q) # {}
    BY DEF ByPage, PagesGood
  <2>2. CASE q = p
    BY <1>2, <2>1, <2>2
  <2>3. CASE q # p
    BY <1>1, <1>2, <2>1, <2>3
  <2> QED
    BY <2>2, <2>3
<1>5. TypeOK'
  BY <1>2 DEF ByPage, TypeOK, PageType
<1> QED
  BY <1>4, <1>5 DEF ByPage, Undamaged

LEMMA OverrunByPage ==
  ASSUME ByPage, NEW p \in owned, NEW s \in Slot, Overrun(p, s) \/ UseAfterFree(p, s)
  PROVE  ByPage' /\ ret' = Null
<1> DEFINE pg == mem[p]
           a == [pg EXCEPT !.slots = [pg.slots EXCEPT ![s] = [pg.slots[s] EXCEPT !.redzone = FALSE]]]
           b == [pg EXCEPT !.slots = [pg.slots EXCEPT ![s] = [pg.slots[s] EXCEPT !.unused = FALSE]]]
<1>1. ~panicked /\ misused' = TRUE /\ ret' = Null
      /\ UNCHANGED <<owned, partial, panicked, objs>>
  BY DEF Overrun, UseAfterFree
<1>2. /\ p \in Pages /\ mem \in [Pages -> PageType] /\ pg \in PageType
      /\ pg.slots \in [Slot -> SlotType] /\ pg.slots[s] \in SlotType
  BY DEF ByPage, TypeOK, PageType, SlotType
<1>3. mem' = [mem EXCEPT ![p] = a] \/ mem' = [mem EXCEPT ![p] = b]
  BY <1>2 DEF Overrun, UseAfterFree
<1>4. PageGood(pg, LiveIn(p)) /\ LiveIn(p) \in SUBSET Slot
  BY <1>1, LiveInType DEF ByPage, PagesGood
<1> HIDE DEF pg
<1>5. PageGood(a, LiveIn(p)) /\ PageGood(b, LiveIn(p))
  BY <1>4, SpoiledPage
<1> HIDE DEF a, b
<1> QED
  BY <1>1, <1>3, <1>5, SpoilByPage

LEMMA NextByPage ==
  ASSUME ByPage, [Next]_vars
  PROVE  /\ ByPage'
         /\ [ret' # Null => ret' \notin objs]_vars
<1>1. CASE AllocPartial
  BY <1>1, AllocPartialByPage
<1>2. ASSUME NEW p \in Pages, AllocNewPage(p)
      PROVE  ByPage' /\ (ret' # Null => ret' \notin objs)
  BY <1>2, AllocNewPageByPage
<1>3. CASE AllocNull
  <2>1. ret' = Null /\ UNCHANGED <<owned, mem, partial, panicked, objs, misused>>
    BY <1>3 DEF AllocNull
  <2> QED
    BY <2>1 DEF ByPage, TypeOK, PagesGood, Partial, LiveIn, Undamaged
<1>4. ASSUME NEW p \in owned, NEW s \in Slot, Dealloc(p, s) \/ Overrun(p, s) \/ UseAfterFree(p, s)
      PROVE  ByPage' /\ ret' = Null
  BY <1>4, DeallocByPage, OverrunByPage
<1>5. CASE UNCHANGED vars
  BY <1>5 DEF vars, ByPage, TypeOK, PagesGood, Partial, LiveIn, Undamaged
<1> QED
  BY <1>1, <1>2, <1>3, <1>4, <1>5 DEF Next

-----------------------------------------------------------------------------
(* The theorems *)

\* The inductive invariant holds in every reachable state of the slab.
THEOREM Inductive == Spec => []ByPage
<1>1. Init => ByPage
  BY InitByPage
<1>2. ByPage /\ [Next]_vars => ByPage'
  BY NextByPage
<1> QED
  BY <1>1, <1>2, PTL DEF Spec

\* In whatever order objects come back, the free list of a page visits every
\* slot that is not out exactly once, and the header of a slot tells whether
\* its object is out.
THEOREM FreeLists == Spec => []FreeListOK
<1>1. ByPage => FreeListOK
  BY ByPageIsIInv DEF IInv
<1> QED
  BY <1>1, Inductive, PTL

\* A page is owned exactly as long as it holds an object, and partial_list
\* links exactly the owned pages with a free slot, once each.
THEOREM PagesLinked == Spec => []PagesOK
<1>1. ByPage => PagesOK
  BY ByPageIsIInv DEF IInv
<1> QED
  BY <1>1, Inductive, PTL

\* An assertion of slot_on_alloc or slot_on_dealloc fails only after a caller
\* has written where it must not or freed what it does not hold; that of
\* page_pop_front never fails.
THEOREM AssertionsHold == Spec => []NoFalseAlarm
<1>1. ByPage => NoFalseAlarm
  BY ByPageIsIInv DEF IInv
<1> QED
  BY <1>1, Inductive, PTL

\* slab_alloc never returns an object that is out, be it the one it returned
\* just before or another, also after misuse.
THEOREM NeverTwice == Spec => FreshObject
<1>1. ByPage /\ [Next]_vars => [ret' # Null => ret' \notin objs]_vars
  BY NextByPage
<1> QED
  BY <1>1, Inductive, PTL DEF Spec, FreshObject
=============================================================================
