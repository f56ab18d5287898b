----------------------------- MODULE BuddyProof -----------------------------
(***************************************************************************)
(* Proofs about module Buddy, for every layout LayoutAssumption allows.    *)
(***************************************************************************)
EXTENDS Buddy, FiniteSetTheorems, WellFoundedInduction, TLAPS

-----------------------------------------------------------------------------
(* Arithmetic of blocks *)

\* A non-empty set of natural numbers has a least element: the form in which
\* induction over levels is used below.
LEMMA LeastNat ==
  ASSUME NEW T \in SUBSET Nat, T # {}
  PROVE  \E m \in T : \A k \in T : m <= k
<1> DEFINE R == OpToRel(<, Nat)
<1>1. IsWellFoundedOn(R, Nat)
  BY NatLessThanWellFounded
<1>2. \A y, x \in Nat : y < x => <<y, x>> \in R
  BY DEF OpToRel
<1> HIDE DEF R
<1>3. PICK x \in T : \A y \in T : ~(<<y, x>> \in R)
  BY <1>1, WFMin
<1>4. \A y \in T : ~(y < x)
  BY <1>2, <1>3
<1>5. QED
  BY <1>4

\* A block is never empty.
LEMMA BlockLenPositive == \A l \in 0..Levels : BlockLen[l] \in Nat \ {0}
<1> DEFINE T == {l \in 0..Levels : BlockLen[l] = 0}
<1>1. ASSUME T # {} PROVE FALSE
  <2>1. T \in SUBSET Nat
    BY LayoutAssumption
  <2>2. PICK m \in T : \A k \in T : m <= k
    BY <1>1, <2>1, LeastNat
  <2>3. m # 0
    BY <2>2, LayoutAssumption
  <2>4. m - 1 \in Level /\ BlockLen[m] = 2 * BlockLen[m - 1]
    BY <2>2, <2>3, LayoutAssumption DEF Level
  <2>5. m - 1 \in 0..Levels /\ BlockLen[m - 1] \in Nat
    BY <2>4, LayoutAssumption DEF Level
  <2>6. BlockLen[m - 1] = 0
    BY <2>2, <2>4, <2>5
  <2>7. QED
    BY <2>2, <2>5, <2>6
<1>2. QED
  BY <1>1, LayoutAssumption

\* The fields of a block's slice are numbers, and no block is empty.
LEMMA SliceType ==
  ASSUME NEW l \in Level, NEW i \in Nat
  PROVE  /\ Slice(l, i) \in [ptr : Nat, length : Nat]
         /\ Slice(l, i).ptr = i * BlockLen[l]
         /\ Slice(l, i).ptr \in Nat
         /\ Slice(l, i).length = BlockLen[l]
         /\ BlockLen[l] \in Nat \ {0}
<1>1. BlockLen[l] \in Nat \ {0}
  BY BlockLenPositive, LayoutAssumption DEF Level
<1>2. i * BlockLen[l] \in Nat
  BY <1>1
<1>3. QED
  BY <1>1, <1>2 DEF Slice

\* The two halves of a block.
LEMMA Halves ==
  ASSUME NEW l \in Level, l + 1 \in Level, NEW i \in Nat
  PROVE  /\ Slice(l + 1, i).length = 2 * BlockLen[l]
         /\ Slice(l, 2 * i).ptr = Slice(l + 1, i).ptr
         /\ Slice(l, 2 * i + 1).ptr = Slice(l + 1, i).ptr + BlockLen[l]
<1> DEFINE n == BlockLen[l]
<1>1. n \in Nat /\ BlockLen[l + 1] = 2 * n
  BY LayoutAssumption, BlockLenPositive DEF Level
<1> HIDE DEF n
<1>2. /\ (2 * i) * n = i * (2 * n)
      /\ (2 * i + 1) * n = i * (2 * n) + n
  BY <1>1
<1>3. QED
  BY <1>1, <1>2 DEF Slice, n

\* A block and its buddy make up their parent.
LEMMA BuddyHalves ==
  ASSUME NEW i \in Nat
  PROVE  /\ BuddyIndex(i) \in Nat
         /\ BuddyIndex(i) # i
         /\ i \div 2 \in Nat
         /\ \/ i = 2 * (i \div 2) /\ BuddyIndex(i) = 2 * (i \div 2) + 1
            \/ i = 2 * (i \div 2) + 1 /\ BuddyIndex(i) = 2 * (i \div 2)
BY DEF BuddyIndex

\* Two blocks of one level are the same block or share no unit.
LEMMA SameLevelApart ==
  ASSUME NEW l \in Level, NEW i \in Nat, NEW j \in Nat, i # j
  PROVE  Apart(Slice(l, i), Slice(l, j))
<1> DEFINE n == BlockLen[l]
<1>1. n \in Nat \ {0}
  BY BlockLenPositive, LayoutAssumption DEF Level
<1>2. ASSUME NEW a \in Nat, NEW b \in Nat, a < b PROVE a * n + n <= b * n
  <2> HIDE DEF n
  <2>1. PICK d \in Nat : b = a + 1 + d
    <3>1. b - a - 1 \in Nat /\ b = a + 1 + (b - a - 1)
      BY <1>2
    <3>2. QED
      BY <3>1
  <2>2. b * n = a * n + n + d * n
    BY <1>1, <2>1
  <2>3. d * n \in Nat /\ a * n \in Nat
    BY <1>1
  <2>4. QED
    BY <1>1, <2>2, <2>3
<1>3. QED
  BY <1>1, <1>2 DEF Slice, Apart

\* The requests in units.
LEMMA RequestUnits ==
  ASSUME NEW len \in 1..MaxLen
  PROVE  DivCeil(len, Unit) \in 1..DivCeil(MaxLen, Unit)
<1>1. Unit \in Nat \ {0} /\ MaxLen \in Nat /\ len \in Nat /\ 1 <= len /\ len <= MaxLen
  BY LayoutAssumption
<1> DEFINE q == (len + Unit - 1) \div Unit
           r == (MaxLen + Unit - 1) \div Unit
<1>2. /\ q \in Int /\ Unit * q <= len + Unit - 1 /\ len + Unit - 1 < Unit * (q + 1)
      /\ r \in Int /\ Unit * r <= MaxLen + Unit - 1 /\ MaxLen + Unit - 1 < Unit * (r + 1)
  BY <1>1
<1> HIDE DEF q, r
<1>3. ASSUME NEW a \in Int, NEW b \in Int, a < b PROVE Unit * (a + 1) <= Unit * b
  <2>1. PICK d \in Nat : b = a + 1 + d
    <3>1. b - a - 1 \in Nat /\ b = a + 1 + (b - a - 1)
      BY <1>3
    <3>2. QED
      BY <3>1
  <2>2. Unit * b = Unit * (a + 1) + Unit * d /\ Unit * d \in Nat
    BY <1>1, <2>1
  <2>3. QED
    BY <1>1, <2>2
<1>4. 1 <= q
  <2>1. q < 1 => Unit * (q + 1) <= Unit * 1
    BY <1>2, <1>3
  <2>2. QED
    BY <1>1, <1>2, <2>1
<1>5. q <= r
  <2>1. r < q => Unit * (r + 1) <= Unit * q
    BY <1>2, <1>3
  <2>2. QED
    BY <1>1, <1>2, <2>1
<1>6. QED
  BY <1>2, <1>4, <1>5 DEF DivCeil, q, r

-----------------------------------------------------------------------------
(* Bitmaps *)

\* set_1 and set_0 keep the cached count equal to the number of 1 bits.
LEMMA SetBits ==
  ASSUME NEW b \in [bits : SUBSET Nat, count : Nat], NEW i \in Nat,
         IsFiniteSet(b.bits), b.count = Cardinality(b.bits)
  PROVE  /\ Set1(b, i) \in [bits : SUBSET Nat, count : Nat]
         /\ Set1(b, i).bits = b.bits \cup {i}
         /\ IsFiniteSet(Set1(b, i).bits)
         /\ Set1(b, i).count = Cardinality(Set1(b, i).bits)
         /\ Set0(b, i) \in [bits : SUBSET Nat, count : Nat]
         /\ Set0(b, i).bits = b.bits \ {i}
         /\ IsFiniteSet(Set0(b, i).bits)
         /\ Set0(b, i).count = Cardinality(Set0(b, i).bits)
<1>1. /\ IsFiniteSet(b.bits \cup {i})
      /\ Cardinality(b.bits \cup {i}) =
           IF i \in b.bits THEN Cardinality(b.bits) ELSE Cardinality(b.bits) + 1
  BY FS_AddElement
<1>2. /\ IsFiniteSet(b.bits \ {i})
      /\ Cardinality(b.bits \ {i}) =
           IF i \in b.bits THEN Cardinality(b.bits) - 1 ELSE Cardinality(b.bits)
  BY FS_RemoveElement
<1>3. Cardinality(b.bits \ {i}) \in Nat /\ Cardinality(b.bits \cup {i}) \in Nat
  BY <1>1, <1>2, FS_CardinalityType
<1>4. QED
  BY <1>1, <1>2, <1>3 DEF Set1, Set0

\* The free slices are the slices of the 1 bits.
LEMMA FreeSlicesDef ==
  \A s : s \in FreeSlices <=>
           \E l \in Level : \E i \in bitmaps[l].bits : s = Slice(l, i)
BY DEF FreeSlices

\* Every 1 bit lies in its level's bitmap.
LEMMA BitsInRange ==
  ASSUME InBounds, NEW l \in Level
  PROVE  /\ BlockCount[l] \in Nat
         /\ \A i \in bitmaps[l].bits : i \in Nat /\ i < BlockCount[l]
<1>1. BlockCount[l] \in Nat
  BY LayoutAssumption
<1>2. bitmaps[l].bits \subseteq 0..(BlockCount[l] - 1)
  BY DEF InBounds
<1>3. QED
  BY <1>1, <1>2

\* The effect on the free slices of setting one more bit, of a block that
\* overlaps no free one.
LEMMA AddFree ==
  ASSUME NEW k \in Level, NEW i \in Nat, FreeApart,
         \A l \in Level : bitmaps'[l].bits = IF l = k THEN bitmaps[k].bits \cup {i}
                                                      ELSE bitmaps[l].bits,
         \A s \in FreeSlices : Apart(Slice(k, i), s)
  PROVE  /\ FreeApart'
         /\ FreeSlices' = FreeSlices \cup {Slice(k, i)}
<1>1. \A l \in Level : \A j \in bitmaps[l].bits : Apart(Slice(k, i), Slice(l, j))
  BY DEF FreeSlices
<1>2. \A l \in Level : \A j \in bitmaps[l].bits : Apart(Slice(l, j), Slice(k, i))
  BY <1>1 DEF Apart
<1>3. FreeApart'
  <2> SUFFICES ASSUME NEW l \in Level, NEW m \in Level,
                      NEW a \in bitmaps'[l].bits, NEW b \in bitmaps'[m].bits,
                      l # m \/ a # b
               PROVE  Apart(Slice(l, a), Slice(m, b))
    BY DEF FreeApart
  <2>1. CASE a \in bitmaps[l].bits /\ b \in bitmaps[m].bits
    BY <2>1 DEF FreeApart
  <2>2. CASE a \notin bitmaps[l].bits /\ b \in bitmaps[m].bits
    BY <2>2, <1>1
  <2>3. CASE a \in bitmaps[l].bits /\ b \notin bitmaps[m].bits
    BY <2>3, <1>2
  <2>4. CASE a \notin bitmaps[l].bits /\ b \notin bitmaps[m].bits
    BY <2>4
  <2>5. QED
    BY <2>1, <2>2, <2>3, <2>4
<1>4. FreeSlices' = FreeSlices \cup {Slice(k, i)}
  <2>1. ASSUME NEW s \in FreeSlices' PROVE s \in FreeSlices \cup {Slice(k, i)}
    BY <2>1 DEF FreeSlices
  <2>2. ASSUME NEW s \in FreeSlices PROVE s \in FreeSlices'
    <3>1. PICK l \in Level : \E j \in bitmaps[l].bits : s = Slice(l, j)
      BY <2>2 DEF FreeSlices
    <3>2. PICK j \in bitmaps'[l].bits : s = Slice(l, j)
      BY <3>1
    <3>3. QED
      BY <3>1, <3>2 DEF FreeSlices
  <2>3. Slice(k, i) \in FreeSlices'
    BY DEF FreeSlices
  <2>4. QED
    BY <2>1, <2>2, <2>3
<1>5. QED
  BY <1>3, <1>4

\* The effect on the free slices of clearing one bit.
LEMMA RemoveFree ==
  ASSUME NEW k \in Level, NEW i \in bitmaps[k].bits, FreeApart,
         \A l \in Level : bitmaps'[l].bits = IF l = k THEN bitmaps[k].bits \ {i}
                                                      ELSE bitmaps[l].bits
  PROVE  /\ FreeApart'
         /\ Slice(k, i) \in FreeSlices
         /\ FreeSlices' \subseteq FreeSlices
         /\ FreeSlices \subseteq FreeSlices' \cup {Slice(k, i)}
         /\ \A s \in FreeSlices' : Apart(Slice(k, i), s)
<1>1. FreeApart'
  BY DEF FreeApart
<1>2. Slice(k, i) \in FreeSlices
  BY DEF FreeSlices
<1>3. ASSUME NEW s \in FreeSlices' PROVE s \in FreeSlices /\ Apart(Slice(k, i), s)
  <2>1. PICK m \in Level : \E j \in bitmaps'[m].bits : s = Slice(m, j)
    BY <1>3 DEF FreeSlices
  <2>2. PICK j \in bitmaps'[m].bits : s = Slice(m, j)
    BY <2>1
  <2>3. j \in bitmaps[m].bits /\ (k # m \/ i # j)
    BY <2>2
  <2>4. QED
    BY <2>2, <2>3 DEF FreeApart, FreeSlices
<1>4. ASSUME NEW s \in FreeSlices, s # Slice(k, i) PROVE s \in FreeSlices'
  <2>1. PICK m \in Level : \E j \in bitmaps[m].bits : s = Slice(m, j)
    BY <1>4 DEF FreeSlices
  <2>2. PICK j \in bitmaps[m].bits : s = Slice(m, j)
    BY <2>1
  <2>3. j \in bitmaps'[m].bits
    BY <1>4, <2>2
  <2>4. QED
    BY <2>2, <2>3 DEF FreeSlices
<1>5. QED
  BY <1>1, <1>2, <1>3, <1>4

-----------------------------------------------------------------------------
(* The inductive invariant: one lemma per action *)

\* When buddy_init starts its loop, all memory is in its hand and no bit is set.
LEMMA InitIInv == Init => IInv
<1> SUFFICES ASSUME Init PROVE IInv
  OBVIOUS
<1>1. \A l \in Level : bitmaps[l] = [bits |-> {}, count |-> 0]
  BY DEF Init
<1>2. Hand = {[ptr |-> 0, length |-> Units]}
  BY LayoutAssumption DEF Init, Hand, Level
<1>3. FreeSlices = {}
  BY <1>1 DEF FreeSlices
<1>4. TypeOK
  BY LayoutAssumption DEF Init, TypeOK, Level, NoSlice
<1>5. NoOverlap
  BY <1>1, <1>3 DEF NoOverlap, FreeApart, Init
<1>6. NoLeak
  <2> SUFFICES ASSUME NEW u \in 0..(Units - 1)
               PROVE  \E s \in Hand : s.ptr <= u /\ u < s.ptr + s.length
    BY DEF NoLeak
  <2>1. QED
    BY <1>2, LayoutAssumption
<1>7. InBounds
  BY <1>1 DEF InBounds, Init
<1>8. CountsAgree
  BY <1>1, FS_EmptySet DEF CountsAgree
<1>9. Coalesced
  BY <1>1 DEF Coalesced
<1>10. LoopOK
  BY <1>1, LayoutAssumption DEF LoopOK, Init, Level
<1>11. QED
  BY <1>4, <1>5, <1>6, <1>7, <1>8, <1>9, <1>10 DEF IInv

\* buddy_alloc_slice moves a block from the bitmaps into its hand.
LEMMA TakeIInv ==
  ASSUME IInv, NEW len \in 1..MaxLen, AllocTake(len)
  PROVE  IInv'
<1> USE DEF IInv
<1>1. PICK f \in Level, k \in Level, i \in Nat :
        /\ k >= f
        /\ i \in bitmaps[k].bits
        /\ Fits(f, DivCeil(len, Unit))
        /\ bitmaps' = [bitmaps EXCEPT ![k] = Set0(@, i)]
        /\ lvl' = k
        /\ blk' = i
        /\ fit' = f
        /\ ptr' = i * BlockLen[k]
  <2>1. \A f \in Level : \A k \in f..(Levels - 1) : k \in Level /\ k >= f
    BY LayoutAssumption DEF Level
  <2>2. \A k \in Level : \A i \in bitmaps[k].bits : i \in Nat
    BY DEF TypeOK
  <2>3. QED
    BY <2>1, <2>2 DEF AllocTake
<1>3. /\ pc = "idle" /\ pc' = "split" /\ used' = used /\ live' = live /\ ret' = ret
      /\ need' = DivCeil(len, Unit) /\ asked' = asked
  BY DEF AllocTake
<1>4. i < BlockCount[k]
  BY <1>1, BitsInRange
<1>5. /\ Set0(bitmaps[k], i) \in [bits : SUBSET Nat, count : Nat]
      /\ Set0(bitmaps[k], i).bits = bitmaps[k].bits \ {i}
      /\ IsFiniteSet(Set0(bitmaps[k], i).bits)
      /\ Set0(bitmaps[k], i).count = Cardinality(Set0(bitmaps[k], i).bits)
  BY <1>4, SetBits DEF TypeOK, CountsAgree
<1>6. \A l \in Level : bitmaps'[l] = IF l = k THEN Set0(bitmaps[k], i) ELSE bitmaps[l]
  BY <1>1, <1>4 DEF TypeOK
<1>7. \A l \in Level : bitmaps'[l].bits = IF l = k THEN bitmaps[k].bits \ {i}
                                                   ELSE bitmaps[l].bits
  BY <1>5, <1>6
<1>8. Hand' = {Slice(k, i)} /\ Hand = {}
  BY <1>1, <1>3 DEF Hand
<1>9. /\ FreeApart'
      /\ Slice(k, i) \in FreeSlices
      /\ FreeSlices' \subseteq FreeSlices
      /\ FreeSlices \subseteq FreeSlices' \cup {Slice(k, i)}
      /\ \A s \in FreeSlices' : Apart(Slice(k, i), s)
  BY <1>1, <1>7, RemoveFree DEF NoOverlap
<1>10. TypeOK'
  <2>1. bitmaps' \in [Level -> [bits : SUBSET Nat, count : Nat]]
    BY <1>1, <1>5 DEF TypeOK
  <2>2. ptr' \in Nat
    BY <1>1, <1>4, SliceType
  <2>3. need' \in Nat
    BY <1>3, RequestUnits
  <2>4. QED
    BY <1>1, <1>3, <1>4, <2>1, <2>2, <2>3 DEF TypeOK
<1>11. NoOverlap'
  <2>1. \A s \in live : Apart(Slice(k, i), s)
    BY <1>9 DEF NoOverlap, Apart
  <2>2. QED
    BY <1>3, <1>8, <1>9, <2>1 DEF NoOverlap
<1>12. NoLeak'
  BY <1>3, <1>8, <1>9 DEF NoLeak
<1>13. InBounds'
  BY <1>1, <1>3, <1>4, <1>7 DEF InBounds
<1>14. CountsAgree'
  BY <1>5, <1>6 DEF CountsAgree
<1>15. Coalesced'
  BY <1>7 DEF Coalesced
<1>16. LoopOK'
  BY <1>1, <1>3, <1>4, SliceType, RequestUnits DEF LoopOK
<1>17. QED
  BY <1>10, <1>11, <1>12, <1>13, <1>14, <1>15, <1>16

\* A part of a block is apart from whatever the block is apart from.
LEMMA ApartHalves ==
  ASSUME NEW l \in Level, l + 1 \in Level, NEW i \in Nat,
         NEW s \in [ptr : Nat, length : Nat], Apart(Slice(l + 1, i), s)
  PROVE  Apart(Slice(l, 2 * i), s) /\ Apart(Slice(l, 2 * i + 1), s)
<1>1. /\ Slice(l, 2 * i).length = BlockLen[l]
      /\ Slice(l, 2 * i + 1).length = BlockLen[l]
      /\ BlockLen[l] \in Nat
      /\ Slice(l + 1, i).ptr \in Nat
  BY SliceType
<1>2. /\ Slice(l + 1, i).length = 2 * BlockLen[l]
      /\ Slice(l, 2 * i).ptr = Slice(l + 1, i).ptr
      /\ Slice(l, 2 * i + 1).ptr = Slice(l + 1, i).ptr + BlockLen[l]
  BY Halves
<1>3. QED
  BY <1>1, <1>2 DEF Apart

\* The free slices have numeric fields.
LEMMA FreeSlicesType ==
  ASSUME TypeOK
  PROVE  FreeSlices \subseteq [ptr : Nat, length : Nat]
<1>1. \A l \in Level : \A i \in bitmaps[l].bits : Slice(l, i) \in [ptr : Nat, length : Nat]
  BY SliceType DEF TypeOK
<1>2. QED
  BY <1>1 DEF FreeSlices

\* An iteration of the split loop gives the upper half of the block in hand to
\* the bitmap below, where its buddy, the lower half, is not free.
LEMMA SplitIInv ==
  ASSUME IInv, Split
  PROVE  IInv'
<1> USE DEF IInv
<1> DEFINE l == lvl - 1
           up == 2 * blk + 1
<1>1. /\ pc = "split" /\ pc' = "split"
      /\ used' = used /\ live' = live /\ ret' = ret /\ fit' = fit /\ ptr' = ptr
      /\ need' = need /\ asked' = asked
      /\ lvl' = l /\ blk' = 2 * blk
      /\ bitmaps' = [bitmaps EXCEPT ![l] = Set1(@, up)]
  BY DEF Split
<1>2. /\ l \in Level /\ l + 1 \in Level /\ l + 1 = lvl /\ l >= fit
      /\ blk \in Nat /\ 2 * blk \in Nat /\ up \in Nat
  BY LayoutAssumption DEF Split, TypeOK, Level
<1>3. /\ blk < BlockCount[lvl]
      /\ BlockCount[l + 1] = BlockCount[l] \div 2
      /\ BlockCount[l] \in Nat
  BY <1>1, <1>2, LayoutAssumption DEF InBounds
<1>4. up < BlockCount[l] /\ 2 * blk < BlockCount[l]
  BY <1>2, <1>3
<1> HIDE DEF l, up
<1>5. /\ Set1(bitmaps[l], up) \in [bits : SUBSET Nat, count : Nat]
      /\ Set1(bitmaps[l], up).bits = bitmaps[l].bits \cup {up}
      /\ IsFiniteSet(Set1(bitmaps[l], up).bits)
      /\ Set1(bitmaps[l], up).count = Cardinality(Set1(bitmaps[l], up).bits)
  BY <1>2, SetBits DEF TypeOK, CountsAgree
<1>6. \A m \in Level : bitmaps'[m] = IF m = l THEN Set1(bitmaps[l], up) ELSE bitmaps[m]
  BY <1>1, <1>2 DEF TypeOK
<1>7. \A m \in Level : bitmaps'[m].bits = IF m = l THEN bitmaps[l].bits \cup {up}
                                                   ELSE bitmaps[m].bits
  BY <1>5, <1>6
<1>8. Hand = {Slice(l + 1, blk)} /\ Hand' = {Slice(l, 2 * blk)}
  BY <1>1, <1>2 DEF Hand
<1>9. \A s \in live \cup FreeSlices : Apart(Slice(l, 2 * blk), s) /\ Apart(Slice(l, up), s)
  <2>1. \A s \in live \cup FreeSlices : s \in [ptr : Nat, length : Nat]
    BY FreeSlicesType DEF TypeOK
  <2>2. \A s \in live \cup FreeSlices : Apart(Slice(l + 1, blk), s)
    BY <1>8 DEF NoOverlap
  <2>3. QED
    BY <1>2, <2>1, <2>2, ApartHalves DEF up
<1>10. FreeApart' /\ FreeSlices' = FreeSlices \cup {Slice(l, up)}
  BY <1>2, <1>7, <1>9, AddFree DEF NoOverlap
<1>11. TypeOK'
  <2>1. bitmaps' \in [Level -> [bits : SUBSET Nat, count : Nat]]
    BY <1>1, <1>5 DEF TypeOK
  <2>2. QED
    BY <1>1, <1>2, <2>1 DEF TypeOK
<1>12. NoOverlap'
  <2>1. Apart(Slice(l, 2 * blk), Slice(l, up))
    BY <1>2, SameLevelApart DEF up
  <2>2. \A s \in live : Apart(s, Slice(l, up))
    BY <1>9 DEF Apart
  <2>3. QED
    BY <1>1, <1>8, <1>9, <1>10, <2>1, <2>2 DEF NoOverlap
<1>13. NoLeak'
  <2> SUFFICES ASSUME NEW u \in 0..(Units - 1)
               PROVE  \E s \in live \cup FreeSlices' \cup Hand' :
                        s.ptr <= u /\ u < s.ptr + s.length
    BY <1>1 DEF NoLeak
  <2>1. PICK s \in live \cup FreeSlices \cup Hand : s.ptr <= u /\ u < s.ptr + s.length
    BY DEF NoLeak
  <2>2. CASE s \in live \cup FreeSlices
    BY <1>10, <2>1, <2>2
  <2>3. CASE s = Slice(l + 1, blk)
    <3>1. /\ Slice(l, 2 * blk).length = BlockLen[l]
          /\ Slice(l, up).length = BlockLen[l]
          /\ BlockLen[l] \in Nat
          /\ Slice(l + 1, blk).ptr \in Nat
      BY <1>2, SliceType
    <3>2. \/ Slice(l, 2 * blk).ptr <= u /\ u < Slice(l, 2 * blk).ptr + Slice(l, 2 * blk).length
          \/ Slice(l, up).ptr <= u /\ u < Slice(l, up).ptr + Slice(l, up).length
      <4>1. /\ Slice(l + 1, blk).length = 2 * BlockLen[l]
            /\ Slice(l, 2 * blk).ptr = Slice(l + 1, blk).ptr
            /\ Slice(l, up).ptr = Slice(l + 1, blk).ptr + BlockLen[l]
        BY <1>2, Halves DEF up
      <4>2. QED
        BY <2>1, <2>3, <3>1, <4>1
    <3>3. QED
      BY <1>8, <1>10, <3>2
  <2>4. QED
    BY <1>8, <2>1, <2>2, <2>3
<1>14. InBounds'
  <2>1. \A m \in Level : bitmaps'[m].bits \subseteq 0..(BlockCount[m] - 1)
    BY <1>2, <1>3, <1>4, <1>7 DEF InBounds
  <2>2. QED
    BY <1>1, <1>4, <2>1 DEF InBounds
<1>15. CountsAgree'
  BY <1>5, <1>6 DEF CountsAgree
<1>16. Coalesced'
  <2>1. 2 * blk \notin bitmaps[l].bits
    <3>1. \A s \in FreeSlices : s # Slice(l, 2 * blk)
      BY <1>2, <1>9, SliceType DEF Apart
    <3>2. QED
      BY <1>2, <3>1 DEF FreeSlices
  <2>2. BuddyIndex(up) = 2 * blk
    BY <1>2 DEF BuddyIndex, up
  <2>3. \A i \in bitmaps[l].bits : i \in Nat /\ BuddyIndex(i) # up
    <3> SUFFICES ASSUME NEW i \in bitmaps[l].bits, BuddyIndex(i) = up
                 PROVE  FALSE
      BY <1>2 DEF TypeOK
    <3>1. i \in Nat /\ i = 2 * blk
      BY <1>2 DEF TypeOK, BuddyIndex, up
    <3>2. QED
      BY <2>1, <3>1
  <2>4. QED
    BY <1>2, <1>7, <2>1, <2>2, <2>3, BuddyHalves DEF Coalesced
<1>17. LoopOK'
  BY <1>1, <1>2, Halves DEF LoopOK
<1>18. QED
  BY <1>11, <1>12, <1>13, <1>14, <1>15, <1>16, <1>17

\* Longer blocks have higher levels.
LEMMA BlockLenMonotone ==
  \A m \in 0..Levels : \A l \in 0..(m - 1) : BlockLen[l] < BlockLen[m]
<1> DEFINE T == {m \in 0..Levels : \E l \in 0..(m - 1) : ~(BlockLen[l] < BlockLen[m])}
<1>1. ASSUME T # {} PROVE FALSE
  <2>1. T \in SUBSET Nat
    BY LayoutAssumption
  <2>2. PICK m \in T : \A k \in T : m <= k
    BY <1>1, <2>1, LeastNat
  <2>3. PICK l \in 0..(m - 1) : ~(BlockLen[l] < BlockLen[m])
    BY <2>2
  <2>4. /\ m \in 1..Levels /\ m - 1 \in 0..Levels /\ m - 1 \in Level
        /\ l \in 0..Levels
    BY <2>2, <2>3, LayoutAssumption DEF Level
  <2>5. BlockLen[m] = 2 * BlockLen[m - 1]
    <3>1. (m - 1) + 1 = m
      BY <2>4
    <3>2. BlockLen[(m - 1) + 1] = 2 * BlockLen[m - 1]
      BY <2>4, LayoutAssumption
    <3>3. QED
      BY <3>1, <3>2
  <2>6. BlockLen[m - 1] \in Nat \ {0} /\ BlockLen[m - 1] < BlockLen[m]
    BY <2>4, <2>5, BlockLenPositive
  <2>7. l # m - 1
    BY <2>3, <2>6
  <2>8. l \in 0..(m - 1 - 1) /\ m - 1 \notin T
    BY <2>2, <2>3, <2>4, <2>7
  <2>9. BlockLen[l] < BlockLen[m - 1]
    BY <2>4, <2>8
  <2>10. QED
    BY <2>3, <2>4, <2>6, <2>9, BlockLenPositive
<1>2. QED
  BY <1>1

\* bitmap_index_for_size has one answer.
LEMMA FitsUnique ==
  ASSUME NEW l \in Level, NEW m \in Level, NEW n \in Int, Fits(l, n), Fits(m, n)
  PROVE  l = m
<1>1. CASE l < m
  <2>1. l \in 0..(m - 1)
    BY <1>1 DEF Level
  <2>2. n <= BlockLen[l] /\ BlockLen[l] < n
    BY <2>1 DEF Fits
  <2>3. QED
    BY <2>2, LayoutAssumption DEF Level
<1>2. CASE m < l
  <2>1. m \in 0..(l - 1)
    BY <1>2 DEF Level
  <2>2. n <= BlockLen[m] /\ BlockLen[m] < n
    BY <2>1 DEF Fits
  <2>3. QED
    BY <2>2, LayoutAssumption DEF Level
<1>3. QED
  BY <1>1, <1>2, LayoutAssumption DEF Level

\* Levels are told apart by their block length.
LEMMA BlockLenInjective ==
  ASSUME NEW l \in Level, NEW m \in Level, BlockLen[l] = BlockLen[m]
  PROVE  l = m
<1>1. l \in 0..Levels /\ m \in 0..Levels
  BY LayoutAssumption DEF Level
<1>2. BlockLen[l] \in Nat /\ BlockLen[m] \in Nat
  BY <1>1, BlockLenPositive
<1>3. ~(l < m) /\ ~(m < l)
  <2>1. l < m => l \in 0..(m - 1)
    BY <1>1
  <2>2. m < l => m \in 0..(l - 1)
    BY <1>1
  <2>3. QED
    BY <1>1, <1>2, <2>1, <2>2, BlockLenMonotone
<1>4. QED
  BY <1>1, <1>3

\* The block index of a position that is a multiple of the block length.
LEMMA IndexOfMultiple ==
  ASSUME NEW n \in Nat \ {0}, NEW i \in Nat
  PROVE  (i * n) \div n = i
<1> DEFINE q == (i * n) \div n
<1>1. i * n \in Nat
  OBVIOUS
<1>2. q \in Int /\ n * q <= i * n /\ i * n < n * (q + 1)
  BY <1>1
<1> HIDE DEF q
<1>3. ~(q < i)
  <2>1. ASSUME q < i PROVE n * (q + 1) <= i * n
    <3>1. PICK d \in Nat : i = q + 1 + d
      <4>1. i - q - 1 \in Nat /\ i = q + 1 + (i - q - 1)
        BY <1>2, <2>1
      <4>2. QED
        BY <4>1
    <3>2. i * n = n * (q + 1) + d * n /\ d * n \in Nat
      BY <1>2, <3>1
    <3>3. QED
      BY <1>2, <3>2
  <2>2. QED
    BY <1>1, <1>2, <2>1
<1>4. ~(i < q)
  <2>1. ASSUME i < q PROVE i * n + n <= n * q
    <3>1. PICK d \in Nat : q = i + 1 + d
      <4>1. q - i - 1 \in Nat /\ q = i + 1 + (q - i - 1)
        BY <1>2, <2>1
      <4>2. QED
        BY <4>1
    <3>2. n * q = i * n + n + d * n /\ d * n \in Nat
      BY <1>2, <3>1
    <3>3. QED
      BY <1>1, <3>2
  <2>2. QED
    BY <1>1, <1>2, <2>1
<1>5. QED
  BY <1>2, <1>3, <1>4 DEF q

\* Callers hold blocks, and neither they nor free blocks are empty.
LEMMA AreaType ==
  ASSUME TypeOK, InBounds
  PROVE  \A s \in live \cup FreeSlices :
           /\ s \in [ptr : Nat, length : Nat]
           /\ s.ptr \in Nat
           /\ s.length \in Nat \ {0}
<1>1. \A l \in Level : \A i \in Nat : /\ Slice(l, i) \in [ptr : Nat, length : Nat]
                                      /\ Slice(l, i).ptr \in Nat
                                      /\ Slice(l, i).length \in Nat \ {0}
  BY SliceType
<1>2. \A s \in live : \E l \in Level : \E i \in Nat : s = Slice(l, i)
  <2>1. \A l \in Level : 0..(BlockCount[l] - 1) \subseteq Nat
    BY LayoutAssumption
  <2>2. QED
    BY <2>1 DEF InBounds
<1>3. \A s \in FreeSlices : \E l \in Level : \E i \in Nat : s = Slice(l, i)
  BY DEF FreeSlices, TypeOK
<1>4. QED
  BY <1>1, <1>2, <1>3

\* buddy_alloc_slice moves the block from its hand to the caller.
LEMMA ReturnIInv ==
  ASSUME IInv, AllocReturn
  PROVE  IInv'
<1> USE DEF IInv
<1> DEFINE s == Slice(lvl, blk)
<1>1. /\ pc = "split" /\ pc' = "idle" /\ bitmaps' = bitmaps
      /\ lvl' = 0 /\ blk' = 0 /\ fit' = 0 /\ ptr' = 0 /\ need' = 0 /\ asked' = need
      /\ used' = used + BlockLen[fit]
      /\ ret' = [ptr |-> ptr, length |-> BlockLen[fit]]
      /\ live' = live \cup {ret'}
  BY DEF AllocReturn, Return
<1>2. lvl = fit /\ lvl \in Level /\ blk \in Nat /\ blk < BlockCount[lvl]
  BY <1>1, LayoutAssumption DEF AllocReturn, TypeOK, LoopOK, InBounds, Level
<1>3. ret' = s /\ BlockLen[fit] \in Nat
  BY <1>1, <1>2, SliceType DEF LoopOK, Slice
<1>4. s \in [ptr : Nat, length : Nat]
  BY <1>2, SliceType
<1>5. Hand = {s} /\ Hand' = {} /\ FreeSlices' = FreeSlices
  BY <1>1 DEF Hand, FreeSlices
<1> HIDE DEF s
<1>6. TypeOK'
  <2>1. 0 \in Level
    BY LayoutAssumption DEF Level
  <2>2. used' \in Int
    BY <1>1, <1>3 DEF TypeOK
  <2>3. QED
    BY <1>1, <1>3, <1>4, <2>1, <2>2 DEF TypeOK
<1>7. NoOverlap'
  <2>1. \A t \in live \cup FreeSlices : Apart(s, t) /\ Apart(t, s)
    BY <1>5 DEF NoOverlap, Apart
  <2>2. FreeApart'
    BY <1>1 DEF NoOverlap, FreeApart
  <2>3. QED
    BY <1>1, <1>3, <1>5, <2>1, <2>2 DEF NoOverlap
<1>8. NoLeak'
  BY <1>1, <1>3, <1>5 DEF NoLeak
<1>9. InBounds'
  <2>1. blk \in 0..(BlockCount[lvl] - 1)
    BY <1>2, LayoutAssumption
  <2>2. QED
    BY <1>1, <1>2, <1>3, <2>1 DEF InBounds, s
<1>10. CountsAgree' /\ Coalesced' /\ LoopOK'
  BY <1>1 DEF CountsAgree, Coalesced, LoopOK
<1>11. QED
  BY <1>6, <1>7, <1>8, <1>9, <1>10

\* buddy_dealloc recovers the level and the index of the slice it is given, and
\* moves it from the caller into its hand.
LEMMA GiveBackIInv ==
  ASSUME IInv, GiveBack
  PROVE  IInv'
<1> USE DEF IInv
<1>1. PICK s \in live, addr \in 0..(Unit * Units - 1), len \in 1..MaxLen :
        /\ GivesBack(s, addr, len)
        /\ Dealloc(addr, len)
        /\ live' = live \ {s}
  BY DEF GiveBack
<1> DEFINE n == AlignedLen(addr, len)
<1>2. PICK f \in Level : /\ Fits(f, n)
                         /\ fit' = f
                         /\ lvl' = f
                         /\ blk' = AlignedAddr(addr) \div BlockLen[f]
  BY <1>1 DEF Dealloc
<1>3. /\ pc = "idle" /\ pc' = "merge" /\ bitmaps' = bitmaps
      /\ used' = used /\ ptr' = ptr /\ ret' = ret /\ need' = need /\ asked' = asked
  BY <1>1 DEF Dealloc
<1>4. s.ptr = AlignedAddr(addr) /\ s.length = BlockLen[f]
  <2>1. n \in Int
    BY LayoutAssumption, <1>1 DEF AlignedLen, AlignedAddr, DivCeil
  <2> HIDE DEF n
  <2>2. PICK l \in Level : s.length = BlockLen[l] /\ Fits(l, n)
    BY <1>1 DEF GivesBack, n
  <2>3. l = f
    BY <1>2, <2>1, <2>2, FitsUnique
  <2>4. QED
    BY <1>1, <2>2, <2>3 DEF GivesBack
<1>5. PICK i \in Nat : i < BlockCount[f] /\ s = Slice(f, i)
  <2>1. PICK m \in Level : \E i \in 0..(BlockCount[m] - 1) : s = Slice(m, i)
    BY <1>1 DEF InBounds
  <2>2. PICK i \in 0..(BlockCount[m] - 1) : s = Slice(m, i)
    BY <2>1
  <2>3. i \in Nat /\ i < BlockCount[m]
    BY <2>2, LayoutAssumption
  <2>4. s.length = BlockLen[m]
    BY <2>2, <2>3, SliceType
  <2>5. m = f
    BY <1>4, <2>4, BlockLenInjective
  <2>6. QED
    BY <2>2, <2>3, <2>5
<1>6. blk' = i
  <2>1. s.ptr = i * BlockLen[f] /\ BlockLen[f] \in Nat \ {0}
    BY <1>5, SliceType
  <2>2. QED
    BY <1>2, <1>4, <2>1, IndexOfMultiple
<1>7. Hand = {} /\ Hand' = {s} /\ FreeSlices' = FreeSlices
  BY <1>2, <1>3, <1>5, <1>6 DEF Hand, FreeSlices
<1>8. TypeOK'
  BY <1>1, <1>2, <1>3, <1>6 DEF TypeOK
<1>9. NoOverlap'
  <2>1. FreeApart'
    BY <1>3 DEF NoOverlap, FreeApart
  <2>2. \A t \in (live \ {s}) \cup FreeSlices : Apart(s, t)
    BY <1>1 DEF NoOverlap
  <2>3. QED
    BY <1>1, <1>7, <2>1, <2>2 DEF NoOverlap
<1>10. NoLeak'
  BY <1>1, <1>7 DEF NoLeak
<1>11. InBounds'
  BY <1>1, <1>2, <1>3, <1>5, <1>6 DEF InBounds
<1>12. CountsAgree' /\ Coalesced'
  BY <1>3 DEF CountsAgree, Coalesced
<1>13. LoopOK'
  BY <1>2, <1>3 DEF LoopOK, Level
<1>14. QED
  BY <1>8, <1>9, <1>10, <1>11, <1>12, <1>13

\* What is apart from both halves of a block is apart from the block.
LEMMA JoinApart ==
  ASSUME NEW l \in Level, l + 1 \in Level, NEW i \in Nat,
         NEW s, s.ptr \in Nat, s.length \in Nat \ {0},
         Apart(Slice(l, 2 * i), s), Apart(Slice(l, 2 * i + 1), s)
  PROVE  Apart(Slice(l + 1, i), s)
<1>1. /\ Slice(l, 2 * i).length = BlockLen[l]
      /\ Slice(l, 2 * i + 1).length = BlockLen[l]
      /\ BlockLen[l] \in Nat
      /\ Slice(l + 1, i).ptr \in Nat
  BY SliceType
<1>2. /\ Slice(l + 1, i).length = 2 * BlockLen[l]
      /\ Slice(l, 2 * i).ptr = Slice(l + 1, i).ptr
      /\ Slice(l, 2 * i + 1).ptr = Slice(l + 1, i).ptr + BlockLen[l]
  BY Halves
<1>3. QED
  BY <1>1, <1>2 DEF Apart

\* The assertion of buddy_dealloc's loop follows from NoOverlap: the block in
\* hand is not a free block.
LEMMA HandNotFree ==
  ASSUME IInv, pc \in {"split", "merge"}
  PROVE  blk \notin bitmaps[lvl].bits
<1>1. lvl \in Level /\ blk \in Nat
  BY DEF IInv, TypeOK
<1>2. /\ Slice(lvl, blk).ptr \in Nat
      /\ Slice(lvl, blk).length \in Nat \ {0}
  BY <1>1, SliceType
<1>3. Slice(lvl, blk) \notin FreeSlices
  <2>1. Hand = {Slice(lvl, blk)}
    BY DEF Hand
  <2>2. \A s \in FreeSlices : Apart(Slice(lvl, blk), s)
    BY <2>1 DEF IInv, NoOverlap
  <2>3. QED
    BY <1>2, <2>2 DEF Apart
<1>4. QED
  BY <1>1, <1>3 DEF FreeSlices

\* An iteration of the merge loop joins the block in hand with its free buddy.
LEMMA MergeUpIInv ==
  ASSUME IInv, MergeUp
  PROVE  IInv'
<1> USE DEF IInv
<1> DEFINE b == BuddyIndex(blk)
           marked == Set1(bitmaps[lvl], blk)
           half == Set0(marked, b)
           new == Set0(half, blk)
           p == blk \div 2
<1>1. /\ pc = "merge" /\ pc' = "merge"
      /\ used' = used /\ live' = live /\ ret' = ret /\ fit' = fit /\ ptr' = ptr
      /\ need' = need /\ asked' = asked
      /\ blk \notin bitmaps[lvl].bits
      /\ b \in marked.bits
      /\ lvl + 1 < Levels
      /\ lvl' = lvl + 1
      /\ blk' = p
      /\ bitmaps' = [bitmaps EXCEPT ![lvl] = new]
  BY DEF MergeUp
<1>2. /\ lvl \in Level /\ lvl + 1 \in Level /\ lvl + 1 >= fit /\ blk \in Nat
  BY <1>1, LayoutAssumption DEF TypeOK, LoopOK, Level
<1>3. /\ b \in Nat /\ b # blk /\ p \in Nat
      /\ \/ blk = 2 * p /\ b = 2 * p + 1
         \/ blk = 2 * p + 1 /\ b = 2 * p
  BY <1>2, BuddyHalves
<1>4. /\ marked \in [bits : SUBSET Nat, count : Nat]
      /\ marked.bits = bitmaps[lvl].bits \cup {blk}
      /\ IsFiniteSet(marked.bits)
      /\ marked.count = Cardinality(marked.bits)
  BY <1>2, SetBits DEF TypeOK, CountsAgree
<1> HIDE DEF b, p, marked
<1>5. /\ half \in [bits : SUBSET Nat, count : Nat]
      /\ half.bits = marked.bits \ {b}
      /\ IsFiniteSet(half.bits)
      /\ half.count = Cardinality(half.bits)
  BY <1>3, <1>4, SetBits
<1> HIDE DEF half
<1>6. /\ new \in [bits : SUBSET Nat, count : Nat]
      /\ new.bits = half.bits \ {blk}
      /\ IsFiniteSet(new.bits)
      /\ new.count = Cardinality(new.bits)
  BY <1>2, <1>5, SetBits
<1> HIDE DEF new
<1>7. b \in bitmaps[lvl].bits /\ new.bits = bitmaps[lvl].bits \ {b}
  BY <1>1, <1>3, <1>4, <1>5, <1>6
<1>8. \A m \in Level : bitmaps'[m] = IF m = lvl THEN new ELSE bitmaps[m]
  BY <1>1, <1>2 DEF TypeOK
<1>9. \A m \in Level : bitmaps'[m].bits = IF m = lvl THEN bitmaps[lvl].bits \ {b}
                                                     ELSE bitmaps[m].bits
  BY <1>7, <1>8
<1>10. Hand = {Slice(lvl, blk)} /\ Hand' = {Slice(lvl + 1, p)}
  BY <1>1 DEF Hand
<1>11. /\ FreeApart'
       /\ Slice(lvl, b) \in FreeSlices
       /\ FreeSlices' \subseteq FreeSlices
       /\ FreeSlices \subseteq FreeSlices' \cup {Slice(lvl, b)}
       /\ \A s \in FreeSlices' : Apart(Slice(lvl, b), s)
  BY <1>2, <1>7, <1>9, RemoveFree DEF NoOverlap
<1>12. blk < BlockCount[lvl] /\ b < BlockCount[lvl]
  BY <1>1, <1>2, <1>7, BitsInRange DEF InBounds
<1>13. TypeOK'
  <2>1. bitmaps' \in [Level -> [bits : SUBSET Nat, count : Nat]]
    BY <1>1, <1>6 DEF TypeOK
  <2>2. QED
    BY <1>1, <1>2, <1>3, <2>1 DEF TypeOK
<1>14. NoOverlap'
  <2>1. \A s \in live \cup FreeSlices' : Apart(Slice(lvl, blk), s) /\ Apart(Slice(lvl, b), s)
    <3>1. \A s \in live : Apart(Slice(lvl, b), s)
      BY <1>11 DEF NoOverlap, Apart
    <3>2. QED
      BY <1>10, <1>11, <3>1 DEF NoOverlap
  <2>2. \A s \in live \cup FreeSlices' : /\ Apart(Slice(lvl, 2 * p), s)
                                         /\ Apart(Slice(lvl, 2 * p + 1), s)
    BY <1>3, <2>1
  <2>3. \A s \in live \cup FreeSlices' : s.ptr \in Nat /\ s.length \in Nat \ {0}
    BY <1>11, AreaType
  <2>4. \A s \in live \cup FreeSlices' : Apart(Slice(lvl + 1, p), s)
    BY <1>2, <1>3, <2>2, <2>3, JoinApart
  <2>5. QED
    BY <1>1, <1>10, <1>11, <2>4 DEF NoOverlap
<1>15. NoLeak'
  <2> SUFFICES ASSUME NEW u \in 0..(Units - 1)
               PROVE  \E s \in live \cup FreeSlices' \cup Hand' :
                        s.ptr <= u /\ u < s.ptr + s.length
    BY <1>1 DEF NoLeak
  <2>1. PICK s \in live \cup FreeSlices \cup Hand : s.ptr <= u /\ u < s.ptr + s.length
    BY DEF NoLeak
  <2>2. CASE s \in live \cup FreeSlices'
    BY <2>1, <2>2
  <2>3. CASE s = Slice(lvl, 2 * p) \/ s = Slice(lvl, 2 * p + 1)
    <3>1. /\ Slice(lvl, 2 * p).length = BlockLen[lvl]
          /\ Slice(lvl, 2 * p + 1).length = BlockLen[lvl]
          /\ BlockLen[lvl] \in Nat
          /\ Slice(lvl + 1, p).ptr \in Nat
      BY <1>2, <1>3, SliceType
    <3>2. /\ Slice(lvl + 1, p).length = 2 * BlockLen[lvl]
          /\ Slice(lvl, 2 * p).ptr = Slice(lvl + 1, p).ptr
          /\ Slice(lvl, 2 * p + 1).ptr = Slice(lvl + 1, p).ptr + BlockLen[lvl]
      BY <1>2, <1>3, Halves
    <3>3. Slice(lvl + 1, p).ptr <= u /\ u < Slice(lvl + 1, p).ptr + Slice(lvl + 1, p).length
      BY <2>1, <2>3, <3>1, <3>2
    <3>4. QED
      BY <1>10, <3>3
  <2>4. QED
    BY <1>3, <1>10, <1>11, <2>1, <2>2, <2>3
<1>16. InBounds'
  <2>1. p < BlockCount[lvl + 1]
    <3>1. BlockCount[lvl] \in Nat /\ BlockCount[lvl + 1] = BlockCount[lvl] \div 2
      BY <1>2, LayoutAssumption
    <3>2. QED
      BY <1>3, <1>12, <3>1
  <2>2. \A m \in Level : bitmaps'[m].bits \subseteq 0..(BlockCount[m] - 1)
    BY <1>9 DEF InBounds
  <2>3. QED
    BY <1>1, <2>1, <2>2 DEF InBounds
<1>17. CountsAgree'
  BY <1>6, <1>8 DEF CountsAgree
<1>18. Coalesced'
  BY <1>9 DEF Coalesced
<1>19. LoopOK'
  BY <1>1, <1>2 DEF LoopOK
<1>20. QED
  BY <1>13, <1>14, <1>15, <1>16, <1>17, <1>18, <1>19

\* The last iteration of the merge loop frees the block in hand, whose buddy is
\* not free.
LEMMA MergeStopIInv ==
  ASSUME IInv, MergeStop
  PROVE  IInv'
<1> USE DEF IInv
<1> DEFINE marked == Set1(bitmaps[lvl], blk)
<1>1. /\ pc = "merge" /\ pc' = "idle"
      /\ live' = live /\ ret' = ret /\ asked' = asked
      /\ lvl' = 0 /\ blk' = 0 /\ fit' = 0 /\ ptr' = 0 /\ need' = 0
      /\ used' = used - BlockLen[fit]
      /\ BuddyIndex(blk) \notin marked.bits \/ lvl + 1 >= Levels
      /\ bitmaps' = [bitmaps EXCEPT ![lvl] = marked]
  BY DEF MergeStop, Return
<1>2. lvl \in Level /\ blk \in Nat /\ blk < BlockCount[lvl] /\ BlockCount[lvl] \in Nat
  BY <1>1, BitsInRange DEF TypeOK, InBounds
<1>3. /\ marked \in [bits : SUBSET Nat, count : Nat]
      /\ marked.bits = bitmaps[lvl].bits \cup {blk}
      /\ IsFiniteSet(marked.bits)
      /\ marked.count = Cardinality(marked.bits)
  BY <1>2, SetBits DEF TypeOK, CountsAgree
<1> HIDE DEF marked
<1>4. \A m \in Level : bitmaps'[m] = IF m = lvl THEN marked ELSE bitmaps[m]
  BY <1>1, <1>2 DEF TypeOK
<1>5. \A m \in Level : bitmaps'[m].bits = IF m = lvl THEN bitmaps[lvl].bits \cup {blk}
                                                     ELSE bitmaps[m].bits
  BY <1>3, <1>4
<1>6. Hand = {Slice(lvl, blk)} /\ Hand' = {}
  BY <1>1 DEF Hand
<1>7. \A s \in live \cup FreeSlices : Apart(Slice(lvl, blk), s)
  BY <1>6 DEF NoOverlap
<1>8. FreeApart' /\ FreeSlices' = FreeSlices \cup {Slice(lvl, blk)}
  BY <1>2, <1>5, <1>7, AddFree DEF NoOverlap
<1>9. TypeOK'
  <2>1. bitmaps' \in [Level -> [bits : SUBSET Nat, count : Nat]]
    BY <1>1, <1>3 DEF TypeOK
  <2>2. 0 \in Level
    BY LayoutAssumption DEF Level
  <2>3. used' \in Int
    <3>1. BlockLen[fit] \in Nat
      BY SliceType DEF TypeOK
    <3>2. QED
      BY <1>1, <3>1 DEF TypeOK
  <2>4. QED
    BY <1>1, <2>1, <2>2, <2>3 DEF TypeOK
<1>10. NoOverlap'
  <2>1. \A s \in live : Apart(s, Slice(lvl, blk))
    BY <1>7 DEF Apart
  <2>2. QED
    BY <1>1, <1>6, <1>8, <2>1 DEF NoOverlap
<1>11. NoLeak'
  BY <1>1, <1>6, <1>8 DEF NoLeak
<1>12. InBounds'
  <2>1. \A m \in Level : bitmaps'[m].bits \subseteq 0..(BlockCount[m] - 1)
    BY <1>2, <1>5 DEF InBounds
  <2>2. QED
    BY <1>1, <2>1 DEF InBounds
<1>13. CountsAgree'
  BY <1>3, <1>4 DEF CountsAgree
<1>14. Coalesced'
  <2>1. BuddyIndex(blk) \in Nat /\ BuddyIndex(blk) # blk
    BY <1>2, BuddyHalves
  <2>2. BuddyIndex(blk) \notin bitmaps[lvl].bits
    <3>1. CASE lvl + 1 >= Levels
      <4>1. lvl = Levels - 1
        BY <1>2, <3>1, LayoutAssumption DEF Level
      <4>2. BlockCount[lvl] = 1
        BY <4>1, LayoutAssumption
      <4>3. BuddyIndex(blk) = 1
        BY <1>2, <4>2 DEF BuddyIndex
      <4>4. QED
        BY <1>2, <4>2, <4>3, BitsInRange
    <3>2. QED
      BY <1>1, <1>3, <3>1
  <2>3. \A i \in bitmaps[lvl].bits : BuddyIndex(i) # blk
    <3> SUFFICES ASSUME NEW i \in bitmaps[lvl].bits, BuddyIndex(i) = blk
                 PROVE  FALSE
      OBVIOUS
    <3>1. i \in Nat
      BY <1>2 DEF TypeOK
    <3>2. BuddyIndex(blk) = i
      BY <1>2, <3>1 DEF BuddyIndex
    <3>3. QED
      BY <2>2, <3>2
  <2>4. QED
    BY <1>2, <1>5, <2>1, <2>2, <2>3 DEF Coalesced
<1>15. LoopOK'
  BY <1>1 DEF LoopOK
<1>16. QED
  BY <1>9, <1>10, <1>11, <1>12, <1>13, <1>14, <1>15

\* An iteration of buddy_init frees the last block of an odd level and keeps
\* the rest in hand as blocks of the next level.
LEMMA InitLevelIInv ==
  ASSUME IInv, InitLevel
  PROVE  IInv'
<1> USE DEF IInv
<1> DEFINE n == BlockLen[lvl]
           new == IF blk % 2 # 0 THEN [bits |-> {blk - 1}, count |-> 1]
                                 ELSE [bits |-> {}, count |-> 0]
<1>1. /\ pc = "init" /\ used' = used /\ live' = live /\ ret' = ret /\ asked' = asked
      /\ bitmaps' = [bitmaps EXCEPT ![lvl] = new]
  BY DEF InitLevel
<1>2. /\ lvl \in Level /\ blk \in Nat /\ blk = BlockCount[lvl] /\ live = {}
      /\ fit \in Level /\ ptr \in Nat /\ need \in Nat
      /\ \A l \in lvl..(Levels - 1) : bitmaps[l].bits = {}
  BY <1>1 DEF LoopOK, TypeOK
<1>3. bitmaps[lvl].bits = {} /\ n \in Nat \ {0}
  <2>1. lvl \in lvl..(Levels - 1)
    BY <1>2, LayoutAssumption DEF Level
  <2>2. QED
    BY <1>2, <2>1, SliceType
<1>4. /\ blk > 0
      /\ blk \div 2 # 0 => lvl + 1 \in Level /\ BlockCount[lvl + 1] = blk \div 2
                           /\ BlockLen[lvl + 1] = 2 * n
  <2>1. CASE lvl + 1 \in Level
    BY <1>2, <2>1, LayoutAssumption
  <2>2. CASE lvl + 1 \notin Level
    <3>1. lvl = Levels - 1
      <4>1. Levels \in Nat
        BY LayoutAssumption
      <4>2. QED
        BY <1>2, <2>2, <4>1 DEF Level
    <3>2. QED
      BY <1>2, <3>1, LayoutAssumption
  <2>3. QED
    BY <2>1, <2>2
<1>5. /\ new \in [bits : SUBSET Nat, count : Nat]
      /\ new.bits = IF blk % 2 # 0 THEN {blk - 1} ELSE {}
      /\ IsFiniteSet(new.bits)
      /\ new.count = Cardinality(new.bits)
  <2>1. CASE blk % 2 # 0
    <3>1. new = [bits |-> {blk - 1}, count |-> 1] /\ blk - 1 \in Nat
      BY <1>2, <1>4, <2>1
    <3>2. IsFiniteSet({blk - 1}) /\ Cardinality({blk - 1}) = 1
      BY FS_Singleton
    <3>3. QED
      BY <2>1, <3>1, <3>2
  <2>2. CASE blk % 2 = 0
    BY <2>2, FS_EmptySet
  <2>3. QED
    BY <2>1, <2>2
<1> HIDE DEF new, n
<1>6. \A l \in Level : bitmaps'[l] = IF l = lvl THEN new ELSE bitmaps[l]
  BY <1>1, <1>2 DEF TypeOK
<1>7. \/ /\ blk \div 2 # 0 /\ pc' = "init" /\ lvl' = lvl + 1 /\ blk' = blk \div 2
         /\ fit' = fit /\ ptr' = ptr /\ need' = need
      \/ /\ blk \div 2 = 0 /\ pc' = "idle" /\ lvl' = 0 /\ blk' = 0
         /\ fit' = 0 /\ ptr' = 0 /\ need' = 0
  BY DEF InitLevel, Return
<1>8. Hand = {[ptr |-> 0, length |-> blk * n]} /\ blk * n \in Nat
  BY <1>1, <1>2, <1>3 DEF Hand, n
<1>9. \A s \in FreeSlices : s.ptr \in Nat /\ s.length \in Nat \ {0} /\ blk * n <= s.ptr
  <2>1. \A s \in FreeSlices : s.ptr \in Nat /\ s.length \in Nat \ {0}
    BY AreaType
  <2>2. \A s \in FreeSlices : Apart([ptr |-> 0, length |-> blk * n], s)
    BY <1>8 DEF NoOverlap
  <2>3. QED
    BY <1>8, <2>1, <2>2 DEF Apart
\* The slice that becomes free, if any, is cut off the end of what is in hand.
<1>10. ASSUME blk % 2 # 0 PROVE NoOverlap' /\ NoLeak'
  <2>1. \A l \in Level : bitmaps'[l].bits = IF l = lvl THEN bitmaps[lvl].bits \cup {blk - 1}
                                                       ELSE bitmaps[l].bits
    BY <1>3, <1>5, <1>6, <1>10
  <2>2. blk - 1 \in Nat /\ Slice(lvl, blk - 1).ptr = (blk - 1) * n
        /\ Slice(lvl, blk - 1).length = n
    BY <1>2, <1>4, SliceType DEF n
  <2>3. (blk - 1) * n \in Nat /\ (blk - 1) * n + n = blk * n
    BY <1>2, <1>3, <2>2
  <2>4. \A s \in FreeSlices : Apart(Slice(lvl, blk - 1), s)
    BY <1>3, <1>9, <2>2, <2>3 DEF Apart
  <2>5. FreeApart' /\ FreeSlices' = FreeSlices \cup {Slice(lvl, blk - 1)}
    BY <1>2, <2>1, <2>2, <2>4, AddFree DEF NoOverlap
  <2>6. \/ Hand' = {[ptr |-> 0, length |-> (blk - 1) * n]}
        \/ Hand' = {} /\ (blk - 1) * n = 0
    <3>1. CASE blk \div 2 # 0
      <4>1. Hand' = {[ptr |-> 0, length |-> (blk \div 2) * (2 * n)]}
        BY <1>4, <1>7, <3>1 DEF Hand
      <4>2. blk - 1 = 2 * (blk \div 2)
        BY <1>2, <1>10
      <4>3. (2 * (blk \div 2)) * n = (blk \div 2) * (2 * n)
        BY <1>2, <1>3
      <4>4. QED
        BY <4>1, <4>2, <4>3
    <3>2. CASE blk \div 2 = 0
      BY <1>2, <1>3, <1>4, <1>7, <3>2 DEF Hand
    <3>3. QED
      BY <3>1, <3>2
  <2>7. NoOverlap'
    <3>1. \A s \in FreeSlices' : s.ptr \in Nat /\ (blk - 1) * n <= s.ptr
      BY <1>3, <1>8, <1>9, <2>2, <2>3, <2>5
    <3>2. \A s \in FreeSlices' : Apart([ptr |-> 0, length |-> (blk - 1) * n], s)
      BY <2>3, <3>1 DEF Apart
    <3>3. QED
      BY <1>1, <1>2, <2>5, <2>6, <3>2 DEF NoOverlap
  <2>8. NoLeak'
    <3> SUFFICES ASSUME NEW u \in 0..(Units - 1)
                 PROVE  \E s \in FreeSlices' \cup Hand' :
                          s.ptr <= u /\ u < s.ptr + s.length
      BY DEF NoLeak
    <3>0. u \in Nat
      BY LayoutAssumption
    <3>1. PICK s \in FreeSlices \cup Hand : s.ptr <= u /\ u < s.ptr + s.length
      BY <1>2 DEF NoLeak
    <3>2. CASE s \in FreeSlices
      BY <2>5, <3>1, <3>2
    <3>3. CASE s \in Hand /\ u < (blk - 1) * n
      <4>1. Hand' = {[ptr |-> 0, length |-> (blk - 1) * n]}
        BY <2>6, <3>0, <3>3
      <4>2. QED
        <5> DEFINE r == [ptr |-> 0, length |-> (blk - 1) * n]
        <5>1. r.ptr = 0 /\ r.length = (blk - 1) * n /\ r \in Hand'
          BY <4>1
        <5>2. r.ptr <= u /\ u < r.ptr + r.length
          BY <2>3, <3>0, <3>3, <5>1
        <5>3. QED
          BY <5>1, <5>2
    <3>4. CASE s \in Hand /\ ~(u < (blk - 1) * n)
      <4>1. u < blk * n
        BY <1>8, <3>0, <3>1, <3>4
      <4>2. QED
        BY <1>3, <1>8, <2>2, <2>3, <2>5, <3>0, <3>4, <4>1
    <3>5. QED
      BY <3>1, <3>2, <3>3, <3>4
  <2>9. QED
    BY <2>7, <2>8
<1>11. ASSUME blk % 2 = 0 PROVE NoOverlap' /\ NoLeak'
  <2>1. \A l \in Level : bitmaps'[l].bits = bitmaps[l].bits
    BY <1>3, <1>5, <1>6, <1>11
  <2>2. FreeSlices' = FreeSlices
    <3>1. \A s : s \in FreeSlices' <=> s \in FreeSlices
      BY <2>1 DEF FreeSlices
    <3>2. QED
      BY <3>1
  <2>3. FreeApart'
    BY <2>1 DEF NoOverlap, FreeApart
  <2>4. Hand' = Hand
    <3>1. blk \div 2 # 0 /\ blk = 2 * (blk \div 2) /\ blk \div 2 \in Nat
      BY <1>2, <1>4, <1>11
    <3>2. Hand' = {[ptr |-> 0, length |-> (blk \div 2) * (2 * n)]}
      BY <1>4, <1>7, <3>1 DEF Hand
    <3>3. (2 * (blk \div 2)) * n = (blk \div 2) * (2 * n)
      BY <1>3, <3>1
    <3>4. QED
      BY <1>8, <3>1, <3>2, <3>3
  <2>5. QED
    BY <1>1, <2>2, <2>3, <2>4 DEF NoOverlap, NoLeak
<1>12. TypeOK'
  <2>1. bitmaps' \in [Level -> [bits : SUBSET Nat, count : Nat]]
    BY <1>1, <1>5 DEF TypeOK
  <2>2. 0 \in Level
    BY LayoutAssumption DEF Level
  <2>3. blk \div 2 \in Nat
    BY <1>2
  <2>4. QED
    BY <1>1, <1>2, <1>4, <1>7, <2>1, <2>2, <2>3 DEF TypeOK
<1>13. InBounds'
  <2>1. \A l \in Level : bitmaps'[l].bits \subseteq 0..(BlockCount[l] - 1)
    <3>1. new.bits \subseteq 0..(BlockCount[lvl] - 1)
      BY <1>2, <1>4, <1>5
    <3>2. QED
      BY <1>6, <3>1 DEF InBounds
  <2>2. QED
    BY <1>1, <1>2, <1>7, <2>1 DEF InBounds
<1>14. CountsAgree'
  BY <1>5, <1>6 DEF CountsAgree
<1>15. Coalesced'
  <2>1. \A i \in new.bits : BuddyIndex(i) \notin new.bits
    BY <1>2, <1>4, <1>5 DEF BuddyIndex
  <2>2. QED
    BY <1>6, <2>1 DEF Coalesced
<1>16. LoopOK'
  <2>1. CASE blk \div 2 = 0
    BY <1>7, <2>1 DEF LoopOK
  <2>2. CASE blk \div 2 # 0
    <3>1. \A l \in (lvl + 1)..(Levels - 1) : l \in Level /\ l # lvl /\ l \in lvl..(Levels - 1)
      BY <1>2, LayoutAssumption DEF Level
    <3>2. \A l \in (lvl + 1)..(Levels - 1) : bitmaps'[l].bits = {}
      BY <1>2, <1>6, <3>1
    <3>3. QED
      BY <1>1, <1>2, <1>4, <1>7, <2>2, <3>2 DEF LoopOK
  <2>3. QED
    BY <2>1, <2>2
<1>17. QED
  <2>1. blk % 2 = 0 \/ blk % 2 # 0
    OBVIOUS
  <2>2. QED
    BY <1>10, <1>11, <1>12, <1>13, <1>14, <1>15, <1>16, <2>1

\* An allocation that returns NULL changes only the history of it.
LEMMA NullIInv ==
  ASSUME IInv, NEW len \in 1..MaxLen, AllocTooLarge(len) \/ AllocNoMemory(len)
  PROVE  IInv'
<1>1. /\ ret' = NoSlice
      /\ asked' = DivCeil(len, Unit)
      /\ UNCHANGED <<pc, bitmaps, used, lvl, blk, need, fit, ptr, live>>
  BY DEF AllocTooLarge, AllocNoMemory
<1>2. asked' \in Nat
  BY <1>1, RequestUnits
<1>3. QED
  BY <1>1, <1>2 DEF IInv, TypeOK, NoOverlap, FreeApart, NoLeak, InBounds, CountsAgree,
              Coalesced, LoopOK, FreeSlices, Hand

\* A step that changes no variable keeps the invariant.
LEMMA StutterIInv ==
  ASSUME IInv, UNCHANGED vars
  PROVE  IInv'
BY DEF vars, IInv, TypeOK, NoOverlap, FreeApart, NoLeak, InBounds, CountsAgree,
       Coalesced, LoopOK, FreeSlices, Hand

\* The inductive invariant holds in every reachable state of the allocator.
THEOREM Inductive == Spec => []IInv
<1>1. Init => IInv
  BY InitIInv
<1>2. IInv /\ [Next]_vars => IInv'
  <2> SUFFICES ASSUME IInv, [Next]_vars PROVE IInv'
    OBVIOUS
  <2>1. CASE InitLevel
    BY <2>1, InitLevelIInv
  <2>2. CASE Split
    BY <2>2, SplitIInv
  <2>3. CASE AllocReturn
    BY <2>3, ReturnIInv
  <2>4. CASE MergeUp
    BY <2>4, MergeUpIInv
  <2>5. CASE MergeStop
    BY <2>5, MergeStopIInv
  <2>6. CASE Alloc
    BY <2>6, NullIInv, TakeIInv DEF Alloc
  <2>7. CASE GiveBack
    BY <2>7, GiveBackIInv
  <2>8. CASE UNCHANGED vars
    BY <2>8, StutterIInv
  <2>9. QED
    BY <2>1, <2>2, <2>3, <2>4, <2>5, <2>6, <2>7, <2>8 DEF Next, Step
<1>3. QED
  BY <1>1, <1>2, PTL DEF Spec

\* Every variable keeps its type, whatever the layout and the requests.
THEOREM TypeCorrect == Spec => []TypeOK
<1>1. IInv => TypeOK
  BY DEF IInv
<1>2. QED
  BY <1>1, Inductive, PTL

\* No unit of memory is ever in two slices at once, at any loop iteration of
\* buddy_init, buddy_alloc_slice and buddy_dealloc: callers' slices, free
\* blocks and the block in hand are pairwise disjoint.
THEOREM Partition == Spec => []NoOverlap
<1>1. IInv => NoOverlap
  BY DEF IInv
<1>2. QED
  BY <1>1, Inductive, PTL

\* No unit of memory is lost, not even between two iterations of the split or
\* the merge loop: a caller holds it, a bitmap shows it, or it is in hand.
THEOREM NothingLost == Spec => []NoLeak
<1>1. IInv => NoLeak
  BY DEF IInv
<1>2. QED
  BY <1>1, Inductive, PTL

\* The bitmaps are accessed within their bounds and agree with their cached
\* counts.
THEOREM BitmapsSound == Spec => [](InBounds /\ CountsAgree)
<1>1. IInv => InBounds /\ CountsAgree
  BY DEF IInv
<1>2. QED
  BY <1>1, Inductive, PTL

\* Two buddies are never both free: the loop of buddy_dealloc merges as far as
\* it can, also when it is looked at in the middle.
THEOREM FullyMerged == Spec => []Coalesced
<1>1. IInv => Coalesced
  BY DEF IInv
<1>2. QED
  BY <1>1, Inductive, PTL

\* The assertion in the loop of buddy_dealloc never fails.
THEOREM NoFalseAlarm == Spec => []MergeAssertHolds
<1>1. IInv => MergeAssertHolds
  BY HandNotFree DEF MergeAssertHolds
<1>2. QED
  BY <1>1, Inductive, PTL

-----------------------------------------------------------------------------
(* The allocator implements PageAllocator *)

\* Slice s lies in slice t.
Inside(s, t) == t.ptr <= s.ptr /\ s.ptr + s.length <= t.ptr + t.length

\* Blocks are nested: a block of a higher level contains a lower one or
\* shares no unit with it.
LEMMA Nesting ==
  \A d \in Nat : \A m \in Level : \A i, j \in Nat :
    m - d \in Level => \/ Inside(Slice(m - d, i), Slice(m, j))
                       \/ Apart(Slice(m - d, i), Slice(m, j))
<1> DEFINE T == {d \in Nat : \E m \in Level : \E i, j \in Nat :
                   /\ m - d \in Level
                   /\ ~Inside(Slice(m - d, i), Slice(m, j))
                   /\ ~Apart(Slice(m - d, i), Slice(m, j))}
<1>1. ASSUME T # {} PROVE FALSE
  <2>1. T \in SUBSET Nat
    OBVIOUS
  <2>2. PICK d \in T : \A k \in T : d <= k
    BY <1>1, <2>1, LeastNat
  <2>3. PICK m \in Level, i \in Nat, j \in Nat :
          /\ m - d \in Level
          /\ ~Inside(Slice(m - d, i), Slice(m, j))
          /\ ~Apart(Slice(m - d, i), Slice(m, j))
    BY <2>2
  <2>4. d \in Nat /\ m \in Nat /\ m \in Int
    BY <2>2, LayoutAssumption DEF Level
  <2>5. d # 0
    <3> SUFFICES ASSUME d = 0 PROVE FALSE
      OBVIOUS
    <3>1. m - d = m
      BY <2>4
    <3>2. i = j
      BY <2>3, <3>1, SameLevelApart
    <3>3. Inside(Slice(m, i), Slice(m, j))
      <4>1. Slice(m, j).ptr \in Nat /\ Slice(m, j).length \in Nat
        BY <2>3, SliceType
      <4>2. QED
        BY <3>2, <4>1 DEF Inside
    <3>4. QED
      BY <2>3, <3>1, <3>3
  <2>6. /\ d - 1 \in Nat /\ d - 1 \notin T
        /\ m - (d - 1) \in Level /\ m - (d - 1) = (m - d) + 1
    <3>1. d - 1 \in Nat /\ ~(d <= d - 1) /\ m - (d - 1) = (m - d) + 1
      BY <2>4, <2>5
    <3>2. d - 1 \notin T
      BY <2>2, <3>1
    <3>3. m - (d - 1) \in Level
      <4>1. Levels \in Nat
        BY LayoutAssumption
      <4>2. QED
        BY <2>3, <2>4, <2>5, <4>1 DEF Level
    <3>4. QED
      BY <3>1, <3>2, <3>3
  <2> DEFINE l == m - d
             p == i \div 2
             par == Slice(l + 1, p)
             b == Slice(m, j)
             c == Slice(l, i)
  <2>7. l \in Level /\ l + 1 \in Level /\ p \in Nat /\ (i = 2 * p \/ i = 2 * p + 1)
    BY <2>3, <2>6
  <2>8. Inside(par, b) \/ Apart(par, b)
    BY <2>3, <2>6, <2>7
  <2>9. /\ par.length = 2 * BlockLen[l] /\ c.length = BlockLen[l]
        /\ c.ptr = par.ptr \/ c.ptr = par.ptr + BlockLen[l]
        /\ BlockLen[l] \in Nat /\ par.ptr \in Nat
    <3>1. c.length = BlockLen[l] /\ BlockLen[l] \in Nat /\ par.ptr \in Nat
      BY <2>3, <2>7, SliceType
    <3>2. /\ Slice(l + 1, p).length = 2 * BlockLen[l]
          /\ Slice(l, 2 * p).ptr = Slice(l + 1, p).ptr
          /\ Slice(l, 2 * p + 1).ptr = Slice(l + 1, p).ptr + BlockLen[l]
      BY <2>7, Halves
    <3>3. QED
      BY <2>7, <3>1, <3>2
  <2>10. b.ptr \in Nat /\ b.length \in Nat
    BY <2>3, SliceType
  <2>11. ~Inside(c, b) /\ ~Apart(c, b)
    BY <2>3
  <2> HIDE DEF l, p, par, b, c
  <2>12. QED
    BY <2>8, <2>9, <2>10, <2>11 DEF Inside, Apart
<1>2. QED
  BY <1>1

\* Between operations every vacant block lies inside a free block: merging
\* leaves nothing that would fit a request but is recorded only in pieces.
LEMMA FullyCoalesced ==
  ASSUME IInv, pc = "idle"
  PROVE  \A l \in Level : \A i \in 0..(BlockCount[l] - 1) :
           (\A s \in live : Apart(Slice(l, i), s)) =>
             \E m \in Level : \E j \in bitmaps[m].bits :
               m >= l /\ Inside(Slice(l, i), Slice(m, j))
<1> DEFINE Recorded(l, i) == \E m \in Level : \E j \in bitmaps[m].bits :
                               m >= l /\ Inside(Slice(l, i), Slice(m, j))
           IsVacant(l, i) == \A s \in live : Apart(Slice(l, i), s)
           T == {l \in Level : \E i \in 0..(BlockCount[l] - 1) :
                   IsVacant(l, i) /\ ~Recorded(l, i)}
<1>1. ASSUME T # {} PROVE FALSE
  <2>1. T \in SUBSET Nat
    BY LayoutAssumption DEF Level
  <2>2. PICK l \in T : \A k \in T : l <= k
    <3> HIDE DEF T
    <3>1. QED
      BY <1>1, <2>1, LeastNat
  <2>3. PICK i \in 0..(BlockCount[l] - 1) : IsVacant(l, i) /\ ~Recorded(l, i)
    BY <2>2
  <2>4. /\ l \in Level /\ l \in Nat /\ i \in Nat /\ i < BlockCount[l]
    BY <2>2, <2>3, LayoutAssumption DEF Level
  <2>5. CASE l = 0
    <3>1. Slice(l, i).ptr = i /\ Slice(l, i).length = 1 /\ i \in 0..(Units - 1)
      <4>1. BlockLen[0] = 1 /\ BlockCount[0] = Units /\ Units \in Nat
        BY LayoutAssumption
      <4>2. Slice(l, i).ptr = i * BlockLen[l] /\ Slice(l, i).length = BlockLen[l]
        BY <2>4, SliceType
      <4>3. QED
        BY <2>4, <2>5, <4>1, <4>2
    <3>2. Hand = {}
      BY DEF Hand
    <3>3. PICK s \in live \cup FreeSlices : s.ptr <= i /\ i < s.ptr + s.length
      BY <3>1, <3>2 DEF IInv, NoLeak
    <3>4. s.ptr \in Nat /\ s.length \in Nat
      BY <3>3, AreaType DEF IInv
    <3>5. s \notin live
      BY <2>3, <2>4, <3>1, <3>3, <3>4 DEF Apart
    <3>6. PICK m \in Level : \E j \in bitmaps[m].bits : s = Slice(m, j)
      BY <3>3, <3>5 DEF FreeSlices
    <3>7. Inside(Slice(l, i), s)
      BY <2>4, <3>1, <3>3, <3>4 DEF Inside
    <3>8. m >= l
      BY <2>5, <3>6, LayoutAssumption DEF Level
    <3>9. QED
      BY <2>3, <3>6, <3>7, <3>8
  <2>6. CASE l # 0
    <3> DEFINE k == l - 1
    <3>1. k \in Level /\ k + 1 = l /\ k + 1 \in Level /\ ~(l <= k)
      <4>1. Levels \in Nat
        BY LayoutAssumption
      <4>2. QED
        BY <2>4, <2>6, <4>1 DEF Level
    <3>2. k \notin T
      <4> HIDE DEF T, k
      <4>1. QED
        BY <2>2, <3>1
    <3> HIDE DEF k
    <3>3. /\ BlockCount[k] \in Nat
          /\ 2 * i \in 0..(BlockCount[k] - 1)
          /\ 2 * i + 1 \in 0..(BlockCount[k] - 1)
      <4>1. BlockCount[k] \in Nat /\ BlockCount[k + 1] = BlockCount[k] \div 2
        BY <3>1, LayoutAssumption
      <4>2. QED
        BY <2>4, <3>1, <4>1
    <3>4. IsVacant(k, 2 * i) /\ IsVacant(k, 2 * i + 1)
      <4>1. \A s \in live : s \in [ptr : Nat, length : Nat]
        BY AreaType DEF IInv
      <4>2. QED
        BY <2>3, <2>4, <3>1, <4>1, ApartHalves
    <3>5. Recorded(k, 2 * i) /\ Recorded(k, 2 * i + 1)
      BY <3>1, <3>2, <3>3, <3>4
    <3>6. ASSUME NEW h \in {2 * i, 2 * i + 1} PROVE h \in bitmaps[k].bits
      <4>1. PICK m \in Level : \E j \in bitmaps[m].bits :
                                 m >= k /\ Inside(Slice(k, h), Slice(m, j))
        BY <3>5, <3>6
      <4>2. PICK j \in bitmaps[m].bits : m >= k /\ Inside(Slice(k, h), Slice(m, j))
        BY <4>1
      <4>3. j \in Nat /\ h \in Nat
        BY <2>4, <4>1, <4>2 DEF IInv, TypeOK
      <4>4. /\ Slice(k, h).ptr \in Nat /\ Slice(k, h).length \in Nat \ {0}
            /\ Slice(m, j).ptr \in Nat /\ Slice(m, j).length \in Nat
        BY <3>1, <4>1, <4>3, SliceType
      <4>5. ~Apart(Slice(k, h), Slice(m, j))
        BY <4>2, <4>4 DEF Apart, Inside
      <4>6. m = k
        <5> SUFFICES ASSUME m # k PROVE FALSE
          OBVIOUS
        <5>1. m - l \in Nat /\ m - (m - l) = l /\ m >= l
          BY <2>4, <3>1, <4>1, <4>2, LayoutAssumption DEF Level
        <5>2. Inside(Slice(l, i), Slice(m, j)) \/ Apart(Slice(l, i), Slice(m, j))
          BY <2>4, <4>1, <4>3, <5>1, Nesting
        <5>3. ~Inside(Slice(l, i), Slice(m, j))
          BY <2>3, <4>1, <4>2, <5>1
        <5>4. Slice(m, j) \in [ptr : Nat, length : Nat]
          BY <4>1, <4>3, SliceType
        <5>5. Apart(Slice(k, 2 * i), Slice(m, j)) /\ Apart(Slice(k, 2 * i + 1), Slice(m, j))
          BY <2>4, <3>1, <5>2, <5>3, <5>4, ApartHalves
        <5>6. QED
          BY <4>5, <5>5
      <4>7. h = j
        BY <3>1, <4>3, <4>5, <4>6, SameLevelApart
      <4>8. QED
        BY <4>2, <4>6, <4>7
    <3>7. BuddyIndex(2 * i) = 2 * i + 1
      BY <2>4 DEF BuddyIndex
    <3>8. QED
      BY <3>1, <3>6, <3>7 DEF IInv, Coalesced
  <2>7. QED
    BY <2>5, <2>6
<1>2. QED
  BY <1>1

\* The size class of n units in the terms of PageAllocator.
LEMMA FittingBlocks ==
  ASSUME NEW f \in Level, NEW n \in Int, Fits(f, n)
  PROVE  /\ \A i \in 0..(BlockCount[f] - 1) : Slice(f, i) \in Abs!Fitting(n)
         /\ \A b \in Abs!Fitting(n) : \E i \in 0..(BlockCount[f] - 1) : b = Slice(f, i)
<1>1. \A b : b \in AllBlocks <=> \E l \in Level : \E i \in 0..(BlockCount[l] - 1) : b = Slice(l, i)
  BY DEF AllBlocks
<1>2. \A l \in Level : \A i \in 0..(BlockCount[l] - 1) : Slice(l, i).length = BlockLen[l]
  <2>1. \A l \in Level : \A i \in 0..(BlockCount[l] - 1) : i \in Nat
    BY LayoutAssumption
  <2>2. QED
    BY <2>1, SliceType
<1>3. \A l \in Level : BlockLen[l] \in Nat /\ l \in Nat /\ l \in 0..Levels
  BY BlockLenPositive, LayoutAssumption DEF Level
<1>4. \A l \in Level : n <= BlockLen[l] => BlockLen[f] <= BlockLen[l] /\ (l # f => BlockLen[f] < BlockLen[l])
  <2> SUFFICES ASSUME NEW l \in Level, n <= BlockLen[l], l # f
               PROVE  BlockLen[f] < BlockLen[l]
    BY <1>3
  <2>1. ~(l < f)
    <3>1. l < f => l \in 0..(f - 1)
      BY <1>3
    <3>2. QED
      BY <1>3, <3>1 DEF Fits
  <2>2. f \in 0..(l - 1)
    BY <1>3, <2>1
  <2>3. QED
    BY <1>3, <2>2, BlockLenMonotone
<1>5. ASSUME NEW i \in 0..(BlockCount[f] - 1) PROVE Slice(f, i) \in Abs!Fitting(n)
  <2>1. Slice(f, i) \in AllBlocks /\ Slice(f, i).length = BlockLen[f]
    BY <1>1, <1>2, <1>5
  <2>2. \A c \in AllBlocks : n <= c.length => BlockLen[f] <= c.length
    BY <1>1, <1>2, <1>4
  <2>3. QED
    BY <2>1, <2>2 DEF Abs!Fitting, Fits
<1>6. ASSUME NEW b \in Abs!Fitting(n)
      PROVE  \E i \in 0..(BlockCount[f] - 1) : b = Slice(f, i)
  <2>1. PICK l \in Level : \E i \in 0..(BlockCount[l] - 1) : b = Slice(l, i)
    BY <1>1, <1>6 DEF Abs!Fitting
  <2>2. b.length = BlockLen[l] /\ n <= BlockLen[l]
    BY <1>2, <1>6, <2>1 DEF Abs!Fitting
  <2>3. BlockLen[l] <= BlockLen[f]
    <3>1. 0 \in 0..(BlockCount[f] - 1)
      <4>1. BlockCount[f] \in Nat /\ BlockCount[f] > 0
        <5>1. CASE f + 1 \in Level
          BY <5>1, LayoutAssumption
        <5>2. CASE f + 1 \notin Level
          <6>1. Levels \in Nat
            BY LayoutAssumption
          <6>2. f = Levels - 1
            BY <5>2, <6>1 DEF Level
          <6>3. QED
            BY <6>2, LayoutAssumption
        <5>3. QED
          BY <5>1, <5>2
      <4>2. QED
        BY <4>1
    <3>2. Slice(f, 0) \in AllBlocks /\ Slice(f, 0).length = BlockLen[f]
      BY <1>1, <1>2, <3>1
    <3>3. QED
      BY <1>6, <2>2, <3>2 DEF Abs!Fitting, Fits
  <2>4. l = f
    BY <1>3, <1>4, <2>2, <2>3
  <2>5. QED
    BY <2>1, <2>4
<1>7. QED
  BY <1>5, <1>6

\* Every step of the allocator is a step of PageAllocator or changes nothing
\* there.  The step that needs the invariant most is the NULL of
\* buddy_alloc_slice, which is justified only because merging is complete.
LEMMA StepImplements ==
  ASSUME IInv, [Next]_vars
  PROVE  [Abs!Next]_(Abs!vars)
<1> USE DEF Abs!vars
<1>1. CASE InitLevel
  BY <1>1 DEF InitLevel, Return, UsedByCallers
<1>2. CASE Split
  BY <1>2 DEF Split, UsedByCallers
<1>3. CASE AllocReturn
  <2> DEFINE b == Slice(lvl, blk)
  <2>1. /\ pc = "split" /\ pc' = "idle" /\ used' = used + BlockLen[fit] /\ asked' = need
        /\ ret' = [ptr |-> ptr, length |-> BlockLen[fit]]
        /\ live' = live \cup {ret'}
    BY <1>3 DEF AllocReturn, Return
  <2>2. lvl = fit /\ lvl \in Level /\ blk \in 0..(BlockCount[lvl] - 1)
    <3>1. lvl = fit /\ lvl \in Level /\ blk \in Nat /\ blk < BlockCount[lvl]
      BY <1>3, <2>1, LayoutAssumption DEF AllocReturn, IInv, TypeOK, LoopOK, InBounds, Level
    <3>2. QED
      BY <3>1, LayoutAssumption
  <2>3. ret' = b /\ b.length = BlockLen[fit]
    BY <2>1, <2>2 DEF IInv, LoopOK, Slice
  <2>4. need \in 1..DivCeil(MaxLen, Unit) /\ Fits(fit, need)
    BY <2>1 DEF IInv, LoopOK
  <2>5. b \in Abs!Fitting(need)
    <3>1. need \in Int
      BY DEF IInv, TypeOK
    <3>2. QED
      BY <2>2, <2>4, <3>1, FittingBlocks
  <2>6. Abs!Vacant(b)
    <3>1. Hand = {b}
      BY <2>1 DEF Hand
    <3>2. \A s \in live : Apart(b, s)
      BY <3>1 DEF IInv, NoOverlap
    <3>3. QED
      BY <3>2 DEF Abs!Vacant, Abs!Apart, Apart
  <2> HIDE DEF b
  <2>7. UsedByCallers' = UsedByCallers + b.length
    BY <2>1, <2>3 DEF UsedByCallers
  <2>8. Abs!Alloc(need)
    BY <2>1, <2>3, <2>5, <2>6, <2>7 DEF Abs!Alloc
  <2>9. QED
    BY <2>4, <2>8 DEF Abs!Next
<1>4. CASE MergeUp
  BY <1>4 DEF MergeUp, UsedByCallers
<1>5. CASE MergeStop
  BY <1>5 DEF MergeStop, Return, UsedByCallers
<1>6. ASSUME NEW len \in 1..MaxLen, AllocTooLarge(len) PROVE [Abs!Next]_(Abs!vars)
  <2> DEFINE n == DivCeil(len, Unit)
  <2>1. n \in 1..DivCeil(MaxLen, Unit)
    BY <1>6, RequestUnits
  <2>2. \A l \in Level : BlockLen[l] < n
    BY <1>6 DEF AllocTooLarge
  <2>3. ret' = NoSlice /\ asked' = n /\ UNCHANGED <<pc, used, fit, live>>
    BY <1>6 DEF AllocTooLarge
  <2> HIDE DEF n
  <2>4. Abs!Fitting(n) = {}
    <3> SUFFICES ASSUME NEW b \in Abs!Fitting(n) PROVE FALSE
      OBVIOUS
    <3>1. PICK l \in Level : \E i \in 0..(BlockCount[l] - 1) : b = Slice(l, i)
      BY DEF Abs!Fitting, AllBlocks
    <3>2. b.length = BlockLen[l] /\ BlockLen[l] \in Nat
      <4>1. \A i \in 0..(BlockCount[l] - 1) : i \in Nat
        BY <3>1, LayoutAssumption
      <4>2. QED
        BY <3>1, <4>1, SliceType
    <3>3. QED
      BY <2>1, <2>2, <3>2 DEF Abs!Fitting
  <2>5. Abs!AllocNull(n)
    BY <2>3, <2>4 DEF Abs!AllocNull, UsedByCallers, NoSlice, Abs!NoSlice
  <2>6. QED
    BY <2>1, <2>5 DEF Abs!Next
<1>7. ASSUME NEW len \in 1..MaxLen, AllocNoMemory(len) PROVE [Abs!Next]_(Abs!vars)
  <2> DEFINE n == DivCeil(len, Unit)
  <2>1. n \in 1..DivCeil(MaxLen, Unit) /\ n \in Int
    BY <1>7, RequestUnits
  <2>2. PICK f \in Level : /\ Fits(f, n)
                           /\ \A k \in f..(Levels - 1) : bitmaps[k].count = 0
    BY <1>7 DEF AllocNoMemory
  <2>3. ret' = NoSlice /\ asked' = n /\ UNCHANGED <<pc, used, fit, live>> /\ pc = "idle"
    BY <1>7 DEF AllocNoMemory
  <2> HIDE DEF n
  <2>4. \A m \in Level : m >= f => bitmaps[m].bits = {}
    <3> SUFFICES ASSUME NEW m \in Level, m >= f PROVE bitmaps[m].bits = {}
      OBVIOUS
    <3>1. m \in f..(Levels - 1)
      BY LayoutAssumption DEF Level
    <3>2. IsFiniteSet(bitmaps[m].bits) /\ Cardinality(bitmaps[m].bits) = 0
      BY <2>2, <3>1 DEF IInv, CountsAgree
    <3>3. QED
      BY <3>2, FS_EmptySet
  <2>5. \A b \in Abs!Fitting(n) : ~Abs!Vacant(b)
    <3> SUFFICES ASSUME NEW b \in Abs!Fitting(n), Abs!Vacant(b) PROVE FALSE
      OBVIOUS
    <3>1. PICK i \in 0..(BlockCount[f] - 1) : b = Slice(f, i)
      BY <2>1, <2>2, FittingBlocks
    <3>2. \A s \in live : Apart(Slice(f, i), s)
      BY <3>1 DEF Abs!Vacant, Abs!Apart, Apart
    <3>3. PICK m \in Level : m >= f /\ bitmaps[m].bits # {}
      BY <2>2, <2>3, <3>1, <3>2, FullyCoalesced
    <3>4. QED
      BY <2>4, <3>3
  <2>6. Abs!AllocNull(n)
    BY <2>3, <2>5 DEF Abs!AllocNull, UsedByCallers, NoSlice, Abs!NoSlice
  <2>7. QED
    BY <2>1, <2>6 DEF Abs!Next
<1>8. ASSUME NEW len \in 1..MaxLen, AllocTake(len) PROVE [Abs!Next]_(Abs!vars)
  BY <1>8 DEF AllocTake, UsedByCallers
<1>9. CASE GiveBack
  <2>1. PICK s \in live, addr \in 0..(Unit * Units - 1), len \in 1..MaxLen :
          /\ GivesBack(s, addr, len)
          /\ Dealloc(addr, len)
          /\ live' = live \ {s}
    BY <1>9 DEF GiveBack
  <2> DEFINE n == AlignedLen(addr, len)
  <2>2. PICK f \in Level : Fits(f, n) /\ fit' = f
    BY <2>1 DEF Dealloc
  <2>3. pc = "idle" /\ pc' = "merge" /\ used' = used /\ ret' = ret /\ asked' = asked
    BY <2>1 DEF Dealloc
  <2>4. s.length = BlockLen[f]
    <3>1. n \in Int
      BY LayoutAssumption, <2>1 DEF AlignedLen, AlignedAddr, DivCeil
    <3> HIDE DEF n
    <3>2. PICK l \in Level : s.length = BlockLen[l] /\ Fits(l, n)
      BY <2>1 DEF GivesBack, n
    <3>3. QED
      BY <2>2, <3>1, <3>2, FitsUnique
  <2>5. Abs!Dealloc(s)
    BY <2>1, <2>2, <2>3, <2>4 DEF Abs!Dealloc, UsedByCallers
  <2>6. QED
    BY <2>1, <2>5 DEF Abs!Next
<1>10. CASE UNCHANGED vars
  BY <1>10 DEF vars, UsedByCallers
<1>11. QED
  BY <1>1, <1>2, <1>3, <1>4, <1>5, <1>6, <1>7, <1>8, <1>9, <1>10
     DEF Next, Step, Alloc

\* Every layout and every request: the buddy allocator implements
\* PageAllocator.
THEOREM Implements == Spec => AbsSpec
<1>1. Init => Abs!Init
  BY DEF Init, Abs!Init, UsedByCallers, NoSlice, Abs!NoSlice
<1>2. QED
  BY <1>1, StepImplements, Inductive, PTL DEF Spec, AbsSpec, Abs!Spec

-----------------------------------------------------------------------------
(* Nothing remains of past fragmentation *)

\* The units that callers hold.
UnitsOf(s) == s.ptr..(s.ptr + s.length - 1)
Held == {u \in Nat : \E s \in live : u \in UnitsOf(s)}

\* used, less what is being merged, counts the units that callers hold.
Accounting == IsFiniteSet(Held) /\ UsedByCallers = Cardinality(Held)

LEMMA UnitsType ==
  ASSUME NEW s \in [ptr : Nat, length : Nat]
  PROVE  /\ UnitsOf(s) \subseteq Nat
         /\ IsFiniteSet(UnitsOf(s))
         /\ Cardinality(UnitsOf(s)) = s.length
<1>1. s.ptr \in Nat /\ s.length \in Nat
  OBVIOUS
<1>2. s.ptr \in Int /\ s.ptr + s.length - 1 \in Int
  BY <1>1
<1>3. /\ IsFiniteSet(UnitsOf(s))
      /\ Cardinality(UnitsOf(s)) =
           IF s.ptr > s.ptr + s.length - 1 THEN 0 ELSE (s.ptr + s.length - 1) - s.ptr + 1
  BY <1>2, FS_Interval DEF UnitsOf
<1>4. QED
  BY <1>1, <1>3 DEF UnitsOf

LEMMA UnitsApart ==
  ASSUME NEW s \in [ptr : Nat, length : Nat], NEW t \in [ptr : Nat, length : Nat],
         Apart(s, t)
  PROVE  UnitsOf(s) \cap UnitsOf(t) = {}
<1>1. s.ptr \in Nat /\ s.length \in Nat /\ t.ptr \in Nat /\ t.length \in Nat
  OBVIOUS
<1>2. QED
  BY <1>1 DEF UnitsOf, Apart

\* Sets without a common element.
LEMMA DisjointUnion ==
  ASSUME NEW S, NEW T, IsFiniteSet(S), IsFiniteSet(T), S \cap T = {}
  PROVE  /\ IsFiniteSet(S \cup T)
         /\ Cardinality(S \cup T) = Cardinality(S) + Cardinality(T)
<1>1. /\ IsFiniteSet(S \cup T)
      /\ Cardinality(S \cup T) = Cardinality(S) + Cardinality(T) - Cardinality(S \cap T)
  BY FS_Union
<1>2. Cardinality(S \cap T) = 0
  BY FS_EmptySet
<1>3. Cardinality(S) \in Nat /\ Cardinality(T) \in Nat
  BY FS_CardinalityType
<1>4. QED
  BY <1>1, <1>2, <1>3

LEMMA AccountingStep ==
  ASSUME IInv, IInv', Accounting, [Abs!Next]_(Abs!vars)
  PROVE  Accounting'
<1>1. /\ live \subseteq [ptr : Nat, length : Nat]
      /\ live' \subseteq [ptr : Nat, length : Nat]
  BY DEF IInv, TypeOK
<1>2. CASE live' = live /\ UsedByCallers' = UsedByCallers
  BY <1>2 DEF Accounting, Held
<1>3. ASSUME NEW n, Abs!Alloc(n) PROVE Accounting'
  <2>1. PICK b : /\ Abs!Vacant(b)
                 /\ live' = live \cup {b}
                 /\ UsedByCallers' = UsedByCallers + b.length
    BY <1>3 DEF Abs!Alloc
  <2>2. b \in [ptr : Nat, length : Nat]
    BY <1>1, <2>1
  <2>3. \A s \in live : Apart(b, s)
    BY <2>1 DEF Abs!Vacant, Abs!Apart, Apart
  <2>4. Held \cap UnitsOf(b) = {}
    BY <1>1, <2>2, <2>3, UnitsApart DEF Held
  <2>5. Held' = Held \cup UnitsOf(b)
    BY <2>1, <2>2, UnitsType DEF Held
  <2>6. QED
    BY <2>1, <2>2, <2>4, <2>5, UnitsType, DisjointUnion DEF Accounting
<1>4. ASSUME NEW s \in live, Abs!Dealloc(s) PROVE Accounting'
  <2>1. live' = live \ {s} /\ UsedByCallers' = UsedByCallers - s.length
    BY <1>4 DEF Abs!Dealloc
  <2>2. s \in [ptr : Nat, length : Nat] /\ s.length \in Nat
    BY <1>1
  <2>3. \A t \in live' : Apart(s, t)
    BY <2>1 DEF IInv, NoOverlap
  <2>4. Held' \cap UnitsOf(s) = {}
    BY <1>1, <2>2, <2>3, UnitsApart DEF Held
  <2>5. Held = Held' \cup UnitsOf(s)
    BY <2>1, <2>2, UnitsType DEF Held
  <2>6. IsFiniteSet(Held')
    BY <2>5, FS_Subset DEF Accounting
  <2>7. Cardinality(Held) = Cardinality(Held') + s.length /\ Cardinality(Held') \in Nat
    BY <2>2, <2>4, <2>5, <2>6, UnitsType, DisjointUnion, FS_CardinalityType
  <2>8. QED
    BY <2>1, <2>2, <2>6, <2>7 DEF Accounting
<1>5. CASE \E n : Abs!AllocNull(n)
  BY <1>2, <1>5 DEF Abs!AllocNull
<1>6. CASE UNCHANGED Abs!vars
  BY <1>2, <1>6 DEF Abs!vars
<1>7. QED
  BY <1>3, <1>4, <1>5, <1>6 DEF Abs!Next

\* (q \div 2) blocks of twice the length are no longer than q blocks.
LEMMA HalvedArea ==
  ASSUME NEW c \in Nat, NEW n \in Nat
  PROVE  (c \div 2) * (2 * n) <= c * n
<1> DEFINE q == c \div 2
<1>1. q \in Nat /\ (c = 2 * q \/ c = 2 * q + 1)
  OBVIOUS
<1> HIDE DEF q
<1>2. q * n \in Nat
  BY <1>1
<1>3. q * (2 * n) = 2 * (q * n)
  BY <1>1
<1>4. CASE c = 2 * q
  <2>1. c * n = 2 * (q * n)
    BY <1>1, <1>4
  <2>2. QED
    BY <1>2, <1>3, <2>1 DEF q
<1>5. CASE c = 2 * q + 1
  <2>1. c * n = 2 * (q * n) + n
    BY <1>1, <1>5
  <2>2. QED
    BY <1>2, <1>3, <2>1 DEF q
<1>6. QED
  BY <1>1, <1>4, <1>5

\* The blocks of a level cover no more than those of any level below it.
LEMMA AreaShrinks ==
  \A m \in Level : \A k \in 0..m :
    BlockCount[m] * BlockLen[m] <= BlockCount[k] * BlockLen[k]
<1> DEFINE Area(l) == BlockCount[l] * BlockLen[l]
           T == {m \in Level : \E k \in 0..m : ~(Area(m) <= Area(k))}
<1>1. \A l \in Level : Area(l) \in Nat
  BY LayoutAssumption, BlockLenPositive DEF Level
<1>2. ASSUME T # {} PROVE FALSE
  <2>1. T \in SUBSET Nat
    BY LayoutAssumption DEF Level
  <2>2. PICK m \in T : \A k \in T : m <= k
    BY <1>2, <2>1, LeastNat
  <2>3. PICK k \in 0..m : ~(Area(m) <= Area(k))
    BY <2>2
  <2>4. m \in Level /\ m \in Nat /\ Levels \in Nat /\ k \in Nat
    BY <2>2, LayoutAssumption DEF Level
  <2>5. k # m
    BY <1>1, <2>3, <2>4
  <2>6. m - 1 \in Level /\ m - 1 \in Nat /\ k \in 0..(m - 1) /\ k \in Level
    BY <2>3, <2>4, <2>5 DEF Level
  <2>7. m - 1 \notin T
    <3>1. ~(m <= m - 1)
      BY <2>4
    <3>2. QED
      BY <2>2, <3>1
  <2>8. Area(m - 1) <= Area(k)
    BY <2>6, <2>7
  <2>9. Area(m) <= Area(m - 1)
    <3>1. (m - 1) + 1 = m
      BY <2>4
    <3>2. BlockCount[m] = BlockCount[m - 1] \div 2 /\ BlockLen[m] = 2 * BlockLen[m - 1]
      BY <2>4, <2>6, <3>1, LayoutAssumption
    <3>3. BlockCount[m - 1] \in Nat /\ BlockLen[m - 1] \in Nat
      <4>1. m - 1 \in 0..Levels
        BY <2>4, <2>6 DEF Level
      <4>2. QED
        BY <2>6, <4>1, LayoutAssumption
    <3>4. QED
      BY <3>2, <3>3, HalvedArea
  <2> HIDE DEF Area
  <2>10. QED
    BY <1>1, <2>3, <2>4, <2>6, <2>8, <2>9
<1>3. QED
  BY <1>2

\* When no slice is out and no operation runs, the only free block of a level
\* is its last one, if that has no buddy.
LEMMA OnlyTails ==
  ASSUME IInv, pc = "idle", live = {}, NEW l \in Level
  PROVE  bitmaps[l].bits = IF BlockCount[l] % 2 = 1 THEN {BlockCount[l] - 1} ELSE {}
<1> DEFINE n == BlockCount[l]
           B == bitmaps[l].bits
<1>1. n \in Nat /\ \A i \in B : i \in Nat /\ i < n
  BY BitsInRange DEF IInv
<1>2. \A i \in 0..(n - 1) : \E m \in Level : \E j \in bitmaps[m].bits :
        m >= l /\ Inside(Slice(l, i), Slice(m, j))
  BY FullyCoalesced
<1>3. \A m \in Level : \A j \in bitmaps[m].bits : j \in Nat /\ j < BlockCount[m]
  BY BitsInRange DEF IInv
<1>4. BlockLen[l] \in Nat \ {0} /\ l \in Nat /\ Levels \in Nat
  BY LayoutAssumption, BlockLenPositive DEF Level
<1> HIDE DEF n, B
<1>5. \A i, j \in Nat : Inside(Slice(l, i), Slice(l, j)) => i = j
  <2> SUFFICES ASSUME NEW i \in Nat, NEW j \in Nat,
                      Inside(Slice(l, i), Slice(l, j)), i # j
               PROVE  FALSE
    OBVIOUS
  <2>1. Apart(Slice(l, i), Slice(l, j))
    BY SameLevelApart
  <2>2. /\ Slice(l, i).ptr \in Nat /\ Slice(l, i).length \in Nat \ {0}
        /\ Slice(l, j).ptr \in Nat /\ Slice(l, j).length \in Nat \ {0}
    BY <1>4, SliceType
  <2>3. QED
    BY <2>1, <2>2 DEF Apart, Inside
<1>6. ASSUME NEW i \in B, ~(n % 2 = 1 /\ i = n - 1) PROVE FALSE
  <2> DEFINE b == BuddyIndex(i)
             p == i \div 2
  <2>1. i \in Nat /\ i < n
    BY <1>1, <1>6
  <2>2. b \in Nat /\ b < n /\ p \in Nat /\ ((i = 2 * p /\ b = 2 * p + 1) \/ (i = 2 * p + 1 /\ b = 2 * p))
    BY <1>1, <1>6, <2>1 DEF BuddyIndex
  <2>3. b \notin B
    BY <1>6 DEF IInv, Coalesced, B
  <2> HIDE DEF b, p
  <2>4. b \in 0..(n - 1)
    BY <1>1, <2>2
  <2>5. PICK m, j : /\ m \in Level /\ j \in bitmaps[m].bits
                     /\ m >= l /\ Inside(Slice(l, b), Slice(m, j))
    BY <1>2, <2>4
  <2>6. j \in Nat /\ m \in Nat
    BY <1>3, <2>5, LayoutAssumption DEF Level
  <2>7. m # l
    BY <1>5, <2>2, <2>3, <2>5, <2>6 DEF B
  <2>8. l + 1 \in Level /\ m - (l + 1) \in Nat /\ m - (m - (l + 1)) = l + 1
    BY <1>4, <2>5, <2>6, <2>7 DEF Level
  <2>9. \/ Inside(Slice(l + 1, p), Slice(m, j))
        \/ Apart(Slice(l + 1, p), Slice(m, j))
    BY <2>2, <2>5, <2>6, <2>8, Nesting
  <2>10. /\ Slice(l + 1, p).length = 2 * BlockLen[l]
         /\ Slice(l, 2 * p).ptr = Slice(l + 1, p).ptr
         /\ Slice(l, 2 * p + 1).ptr = Slice(l + 1, p).ptr + BlockLen[l]
    BY <2>2, <2>8, Halves
  <2>11. /\ Slice(l, i).length = BlockLen[l] /\ Slice(l, b).length = BlockLen[l]
         /\ Slice(l + 1, p).ptr \in Nat
         /\ Slice(m, j).ptr \in Nat /\ Slice(m, j).length \in Nat
    BY <2>1, <2>2, <2>5, <2>6, <2>8, SliceType
  <2>12. Apart(Slice(l, i), Slice(m, j))
    BY <1>6, <2>5, <2>7 DEF IInv, NoOverlap, FreeApart, B
  <2>13. QED
    BY <1>4, <2>2, <2>5, <2>9, <2>10, <2>11, <2>12 DEF Inside, Apart
<1>7. ASSUME n % 2 = 1 PROVE n - 1 \in B
  <2>1. n - 1 \in 0..(n - 1) /\ n - 1 \in Nat
    BY <1>1, <1>7
  <2>2. PICK m, j : /\ m \in Level /\ j \in bitmaps[m].bits
                     /\ m >= l /\ Inside(Slice(l, n - 1), Slice(m, j))
    BY <1>2, <2>1
  <2>3. j \in Nat /\ j < BlockCount[m] /\ BlockCount[m] \in Nat /\ m \in Nat
    <3>1. BlockCount[m] \in Nat /\ m \in Nat
      BY <1>4, <2>2, LayoutAssumption DEF Level
    <3>2. QED
      BY <1>3, <2>2, <3>1
  <2>4. CASE m = l
    BY <1>5, <2>1, <2>2, <2>3, <2>4 DEF B
  <2>5. ASSUME m > l PROVE FALSE
    <3>1. l + 1 \in Level /\ l + 1 \in 0..m
      BY <1>4, <2>2, <2>3, <2>5 DEF Level
    <3> DEFINE q == n \div 2
               c == BlockLen[l]
               d == BlockLen[m]
    <3>2. BlockCount[l + 1] = q /\ BlockLen[l + 1] = 2 * c
      BY <3>1, LayoutAssumption DEF n
    <3>3. n - 1 = 2 * q /\ q \in Nat
      BY <1>1, <1>7
    <3>4. BlockCount[m] * d <= q * (2 * c)
      BY <2>2, <3>1, <3>2, AreaShrinks
    <3>5. Slice(m, j).ptr = j * d /\ Slice(m, j).length = d /\ d \in Nat
      BY <2>2, <2>3, SliceType
    <3>6. Slice(l, n - 1).ptr = (2 * q) * c /\ Slice(l, n - 1).length = c /\ c \in Nat \ {0}
      BY <1>4, <2>1, <3>3, SliceType
    <3> HIDE DEF q, c, d
    <3>7. (j + 1) * d <= BlockCount[m] * d
      <4>1. PICK e \in Nat : BlockCount[m] = (j + 1) + e
        <5>1. BlockCount[m] - (j + 1) \in Nat /\ BlockCount[m] = (j + 1) + (BlockCount[m] - (j + 1))
          BY <2>3
        <5>2. QED
          BY <5>1
      <4>2. BlockCount[m] * d = (j + 1) * d + e * d /\ e * d \in Nat /\ (j + 1) * d \in Nat
        BY <2>3, <3>5, <4>1
      <4>3. QED
        BY <4>2
    <3>8. (j + 1) * d = j * d + d /\ q * (2 * c) = (2 * q) * c /\ j * d \in Nat
          /\ (2 * q) * c \in Nat /\ BlockCount[m] * d \in Nat
      BY <2>3, <3>3, <3>5, <3>6
    <3>9. QED
      BY <2>2, <3>4, <3>5, <3>6, <3>7, <3>8 DEF Inside
  <2>6. QED
    BY <1>4, <2>2, <2>3, <2>4, <2>5
<1>8. QED
  BY <1>6, <1>7 DEF n, B

\* After any history of allocations and deallocations: once every slice has
\* come back, the bitmaps are those buddy_init made, and used is 0.
THEOREM FreshAgain == Spec => []FreshWhenEmpty
<1>1. Init => Accounting
  <2> SUFFICES ASSUME Init PROVE Accounting
    OBVIOUS
  <2>1. Held = {} /\ UsedByCallers = 0
    BY DEF Init, Held, UsedByCallers
  <2>2. QED
    BY <2>1, FS_EmptySet DEF Accounting
<1>2. IInv /\ IInv' /\ Accounting /\ [Next]_vars => Accounting'
  BY StepImplements, AccountingStep
<1>3. IInv /\ Accounting => FreshWhenEmpty
  <2> SUFFICES ASSUME IInv, Accounting, pc = "idle", live = {}
               PROVE  /\ used = 0
                      /\ \A l \in Level : bitmaps[l].bits =
                           IF BlockCount[l] % 2 = 1 THEN {BlockCount[l] - 1} ELSE {}
    BY DEF FreshWhenEmpty
  <2>1. Held = {} /\ UsedByCallers = used
    BY DEF Held, UsedByCallers
  <2>2. used = 0
    BY <2>1, FS_EmptySet DEF Accounting
  <2>3. QED
    BY <2>2, OnlyTails
<1>4. QED
  BY <1>1, <1>2, <1>3, Inductive, PTL DEF Spec
=============================================================================
