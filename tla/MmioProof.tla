------------------------------ MODULE MmioProof ------------------------------
(***************************************************************************)
(* Proofs about Mmio, for an area and page tables of any size, any number  *)
(* of free-list nodes and any requests.                                    *)
(***************************************************************************)
EXTENDS Mmio, SequenceTheorems, FiniteSetTheorems, WellFoundedInduction, TLAPS

-----------------------------------------------------------------------------
(* Pages and their places in the tables *)

LEMMA Sizes == /\ PageSize \in Nat /\ PageSize >= 1 /\ PtLen \in Nat /\ PtLen >= 1
               /\ PdLen \in Nat /\ PdLen >= 1 /\ Pdpts \in Nat /\ Pdpts >= 1
               /\ Nodes \in Nat /\ Nodes >= 1
BY SizeAssumption

LEMMA DivMod ==
  ASSUME NEW a \in Nat, NEW n \in Nat, n >= 1
  PROVE  /\ a \div n \in Nat /\ a % n \in Nat
         /\ a = n * (a \div n) + (a % n)
         /\ a % n < n
<1>1. a \div n \in Nat /\ a % n \in Nat
  OBVIOUS
<1>2. a = n * (a \div n) + (a % n)
  OBVIOUS
<1>3. a % n < n
  OBVIOUS
<1> QED
  BY <1>1, <1>2, <1>3

LEMMA Times ==
  ASSUME NEW n \in Nat, NEW x \in Nat, NEW y \in Nat, x < y
  PROVE  n * x + n <= n * y
<1>1. PICK d \in Nat : y = x + 1 + d
  <2>1. y - x - 1 \in Nat
    OBVIOUS
  <2> QED
    BY <2>1
<1>2. n * (x + 1 + d) = n * x + n + n * d
  OBVIOUS
<1>3. n * d \in Nat /\ n * x \in Nat
  OBVIOUS
<1> QED
  BY <1>1, <1>2, <1>3

LEMMA DivUnique ==
  ASSUME NEW n \in Nat, NEW q \in Nat, NEW r \in Nat, NEW a \in Nat, NEW b \in Nat,
         n * q + r = n * a + b, r < n, b < n
  PROVE  q = a /\ r = b
<1>1. n * q \in Nat /\ n * a \in Nat
  OBVIOUS
<1>2. ~(q < a)
  BY <1>1, Times
<1>3. ~(a < q)
  BY <1>1, Times
<1>4. q = a
  BY <1>2, <1>3
<1> QED
  BY <1>1, <1>4

LEMMA DivLess ==
  ASSUME NEW n \in Nat, n >= 1, NEW m \in Nat, NEW a \in Nat, a < m * n
  PROVE  a \div n < m
<1> DEFINE q == a \div n
           r == a % n
<1>1. q \in Nat /\ r \in Nat /\ a = n * q + r
  BY DivMod
<1> HIDE DEF q, r
<1>2. ASSUME ~(q < m) PROVE FALSE
  <2>1. q = m \/ m < q
    BY <1>1, <1>2
  <2>2. n * m <= n * q
    <3>1. CASE q = m
      BY <3>1
    <3>2. CASE m < q
      <4>1. n * m + n <= n * q
        BY <1>1, <3>2, Times
      <4>2. n * m \in Nat /\ n * q \in Nat
        BY <1>1
      <4> QED
        BY <4>1, <4>2
    <3> QED
      BY <2>1, <3>1, <3>2
  <2>3. n * m = m * n /\ n * m \in Nat /\ n * q \in Nat
    BY <1>1
  <2> QED
    BY <1>1, <2>2, <2>3
<1> QED
  BY <1>2 DEF q

\* the pages of one page table, or of one huge page
Block(v) == v \div PtLen

LEMMA Place ==
  ASSUME NEW v \in Pages
  PROVE  /\ v \in Nat /\ v < Area /\ Area \in Nat
         /\ Block(v) \in Nat
         /\ Pdpi(v) \in 0 .. Pdpts - 1 /\ Pdti(v) \in 0 .. PdLen - 1 /\ Ptei(v) \in 0 .. PtLen - 1
         /\ v = PtLen * Block(v) + Ptei(v)
         /\ Block(v) = PdLen * Pdpi(v) + Pdti(v)
<1> DEFINE b == Block(v)
           m == Pdpts * PdLen
<1>1. m \in Nat /\ Area = m * PtLen
  BY Sizes DEF Area
<1>2. m * PtLen \in Nat
  BY <1>1, Sizes
<1>3. v \in Nat /\ v < Area /\ Area \in Nat
  BY <1>1, <1>2 DEF Pages
<1>4. b \in Nat /\ Ptei(v) \in Nat /\ v = PtLen * b + Ptei(v) /\ Ptei(v) < PtLen
  BY <1>3, Sizes, DivMod DEF Block, Ptei
<1>5. b < m
  BY <1>1, <1>3, Sizes, DivLess DEF Block
<1> HIDE DEF b, m
<1>6. b \div PdLen \in Nat /\ b % PdLen \in Nat /\ b % PdLen < PdLen
      /\ b = PdLen * (b \div PdLen) + (b % PdLen)
  BY <1>4, Sizes, DivMod
<1>7. b \div PdLen < Pdpts
  BY <1>4, <1>5, Sizes, DivLess DEF m
<1>8. Pdpi(v) = b \div PdLen /\ Pdti(v) = b % PdLen
  BY DEF Pdpi, Pdti, Block, b
<1>9. Pdpi(v) \in 0 .. Pdpts - 1 /\ Pdti(v) \in 0 .. PdLen - 1
  <2> DEFINE x == b \div PdLen
             y == b % PdLen
  <2>1. x \in Nat /\ y \in Nat /\ x < Pdpts /\ y < PdLen
    BY <1>6, <1>7
  <2> HIDE DEF x, y
  <2>2. x \in 0 .. Pdpts - 1 /\ y \in 0 .. PdLen - 1
    BY <2>1, Sizes
  <2> QED
    BY <1>8, <2>2 DEF x, y
<1>10. Ptei(v) \in 0 .. PtLen - 1
  BY <1>4, Sizes
<1> QED
  BY <1>3, <1>4, <1>6, <1>8, <1>9, <1>10 DEF b

LEMMA SamePlace ==
  ASSUME NEW u \in Pages, NEW v \in Pages
  PROVE  /\ Block(u) = Block(v) <=> Pdpi(u) = Pdpi(v) /\ Pdti(u) = Pdti(v)
         /\ Block(u) = Block(v) /\ Ptei(u) = Ptei(v) => u = v
<1>1. Block(u) = Block(v) => Pdpi(u) = Pdpi(v) /\ Pdti(u) = Pdti(v)
  BY DEF Block, Pdpi, Pdti
<1>2. /\ Block(u) = PdLen * Pdpi(u) + Pdti(u) /\ Block(v) = PdLen * Pdpi(v) + Pdti(v)
      /\ u = PtLen * Block(u) + Ptei(u) /\ v = PtLen * Block(v) + Ptei(v)
  BY Place
<1> QED
  BY <1>1, <1>2

\* The block of a page that begins one has the PtLen pages from it on.
LEMMA BlockIs ==
  ASSUME NEW v \in Pages, Ptei(v) = 0, NEW u \in Pages
  PROVE  /\ Block(u) = Block(v) <=> v <= u /\ u < v + PtLen
         /\ Block(u) = Block(v) => Ptei(u) = u - v
<1> DEFINE b == Block(v)
           c == Block(u)
           k == Ptei(u)
           x == PtLen * b
           y == PtLen * c
<1>1. /\ b \in Nat /\ c \in Nat /\ k \in 0 .. PtLen - 1 /\ v \in Nat /\ u \in Nat
      /\ v = PtLen * b + 0 /\ u = PtLen * c + k
  BY Place
<1> HIDE DEF b, c, k
<1>2. x \in Nat /\ y \in Nat
  BY <1>1, Sizes
<1>3. v = x /\ u = y + k /\ k \in Nat /\ k < PtLen
  BY <1>1, <1>2, Sizes
<1>4. b = c => x = y
  OBVIOUS
<1>5. b < c => x + PtLen <= y
  BY <1>1, Sizes, Times
<1>6. c < b => y + PtLen <= x
  BY <1>1, Sizes, Times
<1> HIDE DEF x, y
<1>7. (c = b <=> v <= u /\ u < v + PtLen) /\ (c = b => k = u - v)
  BY <1>1, <1>2, <1>3, <1>4, <1>5, <1>6, Sizes
<1> QED
  BY <1>7 DEF b, c, k

\* A page that does not begin its block is behind another page of it.
LEMMA BlockBefore ==
  ASSUME NEW v \in Pages, Ptei(v) # 0
  PROVE  v - 1 \in Pages /\ Block(v - 1) = Block(v) /\ Ptei(v - 1) = Ptei(v) - 1
<1> DEFINE b == Block(v)
           k == Ptei(v)
           x == PtLen * b
<1>1. b \in Nat /\ k \in 0 .. PtLen - 1 /\ v = PtLen * b + k /\ v \in Nat /\ v < Area /\ Area \in Nat
  BY Place
<1>2. x \in Nat
  BY <1>1, Sizes
<1> HIDE DEF b, k, x
<1>3. v = x + k /\ k >= 1 /\ k - 1 \in Nat /\ k - 1 < PtLen /\ v - 1 \in Nat /\ v - 1 < Area
  BY <1>1, <1>2, Sizes DEF x, k
<1>4. v - 1 \in Pages
  BY <1>1, <1>3 DEF Pages
<1> DEFINE c == Block(v - 1)
           l == Ptei(v - 1)
           y == PtLen * c
<1>5. c \in Nat /\ l \in 0 .. PtLen - 1 /\ v - 1 = PtLen * c + l
  BY <1>4, Place
<1> HIDE DEF c, l
<1>6. PtLen * b + (k - 1) = PtLen * c + l
  <2>1. y \in Nat /\ v - 1 = y + l
    BY <1>5, Sizes
  <2> HIDE DEF y
  <2>2. x + (k - 1) = y + l
    BY <1>1, <1>2, <1>3, <1>5, <2>1
  <2> QED
    BY <2>2 DEF x, y
<1>7. l \in Nat /\ l < PtLen
  BY <1>5, Sizes
<1>8. b = c /\ k - 1 = l
  BY <1>1, <1>3, <1>5, <1>6, <1>7, Sizes, DivUnique
<1> QED
  BY <1>4, <1>8 DEF b, c, k, l

-----------------------------------------------------------------------------
(* Directories and page tables *)

PtSet == [0 .. PtLen - 1 -> Nat \union {Nil}]
Entries == {None} \union {Huge(p) : p \in Nat} \union {Table(t) : t \in PtSet}
PdSet == [0 .. PdLen - 1 -> Entries]
Dirs == [0 .. Pdpts - 1 -> {None} \union {Table(t) : t \in PdSet}]

LEMMA Kinds ==
  /\ None.kind = "none"
  /\ \A p : Huge(p).kind = "huge" /\ Huge(p).phys = p /\ Huge(p) # None
  /\ \A t : Table(t).kind = "table" /\ Table(t).pt = t /\ Table(t) # None
BY DEF None, Huge, Table

LEMMA EntryKinds ==
  ASSUME NEW e \in Entries
  PROVE  /\ e = None <=> e.kind = "none"
         /\ e.kind \in {"none", "huge", "table"}
         /\ e.kind = "huge" => e.phys \in Nat /\ e = Huge(e.phys)
         /\ e.kind = "table" => e.pt \in PtSet /\ e = Table(e.pt)
BY Kinds DEF Entries

\* entry j of directory i, and that of page v
Ent(d, i, j) == IF d[i] = None THEN None ELSE d[i].pt[j]
E(d, v) == Ent(d, Pdpi(v), Pdti(v))

\* what the tables make of page v
Tr(d, v) == IF E(d, v) = None THEN Nil
            ELSE IF E(d, v).kind = "huge" THEN E(d, v).phys + Ptei(v) ELSE E(d, v).pt[Ptei(v)]

IsHuge(d, v) == E(d, v).kind = "huge"

LEMMA DirIs ==
  ASSUME NEW d \in Dirs, NEW i \in 0 .. Pdpts - 1
  PROVE  /\ d[i] # None => d[i].pt \in PdSet /\ d[i] = Table(d[i].pt)
         /\ \A j \in 0 .. PdLen - 1 : Ent(d, i, j) \in Entries
<1>1. d[i] # None => \E t \in PdSet : d[i] = Table(t)
  BY DEF Dirs
<1>2. d[i] # None => d[i].pt \in PdSet /\ d[i] = Table(d[i].pt)
  BY <1>1, Kinds
<1>3. ASSUME NEW j \in 0 .. PdLen - 1 PROVE Ent(d, i, j) \in Entries
  <2>1. None \in Entries
    BY DEF Entries
  <2>2. d[i] # None => d[i].pt[j] \in Entries
    BY <1>2 DEF PdSet
  <2> QED
    BY <2>1, <2>2 DEF Ent
<1> QED
  BY <1>2, <1>3

LEMMA EType ==
  ASSUME NEW d \in Dirs, NEW v \in Pages
  PROVE  E(d, v) \in Entries
BY Place, DirIs DEF E

\* the directories with one of them replaced, with entry j of directory i, and
\* with entry k of its page table
PutDir(d, i, x) == [d EXCEPT ![i] = x]
PutEntry(d, i, j, x) == [d EXCEPT ![i].pt[j] = x]
PutPage(d, i, j, k, z) == [d EXCEPT ![i].pt[j].pt[k] = z]

LEMMA PutEntryIs ==
  ASSUME NEW d \in Dirs, NEW i \in 0 .. Pdpts - 1, NEW j \in 0 .. PdLen - 1, NEW x \in Entries,
         d[i] # None
  PROVE  LET e == PutEntry(d, i, j, x)
         IN /\ e \in Dirs
            /\ \A k \in 0 .. Pdpts - 1 : e[k] = None <=> d[k] = None
            /\ \A k \in 0 .. Pdpts - 1 : \A l \in 0 .. PdLen - 1 :
                  Ent(e, k, l) = IF k = i /\ l = j THEN x ELSE Ent(d, k, l)
<1> DEFINE e == PutEntry(d, i, j, x)
           p == d[i].pt
           q == [p EXCEPT ![j] = x]
<1>1. p \in PdSet /\ d[i] = Table(p)
  BY DirIs
<1> HIDE DEF p
<1>2. q \in PdSet /\ q[j] = x /\ \A l \in 0 .. PdLen - 1 : l # j => q[l] = p[l]
  BY <1>1 DEF PdSet
<1> HIDE DEF q
<1>3. e = [d EXCEPT ![i] = Table(q)]
  <2>1. e = [d EXCEPT ![i] = [d[i] EXCEPT !.pt = [d[i].pt EXCEPT ![j] = x]]]
    BY DEF PutEntry
  <2>2. [d[i].pt EXCEPT ![j] = x] = q
    BY DEF p, q
  <2>3. [Table(p) EXCEPT !.pt = q] = Table(q)
    BY DEF Table
  <2> QED
    BY <1>1, <2>1, <2>2, <2>3
<1> HIDE DEF e
<1>6. e[i] = Table(q) /\ \A k \in 0 .. Pdpts - 1 : k # i => e[k] = d[k]
  BY <1>3 DEF Dirs
<1>7. e \in Dirs
  <2>1. Table(q) \in {Table(t) : t \in PdSet}
    BY <1>2
  <2> QED
    BY <1>3, <2>1 DEF Dirs
<1>8. \A k \in 0 .. Pdpts - 1 : e[k] = None <=> d[k] = None
  BY <1>6, Kinds
<1>9. ASSUME NEW k \in 0 .. Pdpts - 1, NEW l \in 0 .. PdLen - 1
      PROVE  Ent(e, k, l) = IF k = i /\ l = j THEN x ELSE Ent(d, k, l)
  <2>1. CASE k # i
    BY <1>6, <2>1 DEF Ent
  <2>2. CASE k = i
    <3>1. Ent(e, k, l) = q[l]
      BY <1>6, <2>2, Kinds DEF Ent
    <3>2. Ent(d, k, l) = p[l]
      BY <1>1, <2>2, Kinds DEF Ent
    <3> QED
      BY <1>2, <2>2, <3>1, <3>2
  <2> QED
    BY <2>1, <2>2
<1> QED
  BY <1>7, <1>8, <1>9 DEF e

\* A directory that is made or freed has no entries.
LEMMA MakeDirIs ==
  ASSUME NEW d \in Dirs, NEW i \in 0 .. Pdpts - 1, d[i] = None
  PROVE  LET e == PutDir(d, i, Table(EmptyPd))
         IN /\ e \in Dirs /\ e[i] # None
            /\ \A k \in 0 .. Pdpts - 1 : k # i => e[k] = d[k]
            /\ \A k \in 0 .. Pdpts - 1 : \A l \in 0 .. PdLen - 1 : Ent(e, k, l) = Ent(d, k, l)
<1> DEFINE e == PutDir(d, i, Table(EmptyPd))
<1>1. EmptyPd \in PdSet /\ \A l \in 0 .. PdLen - 1 : EmptyPd[l] = None
  BY DEF EmptyPd, PdSet, Entries
<1>2. Table(EmptyPd) \in {Table(t) : t \in PdSet}
  BY <1>1
<1> HIDE DEF EmptyPd
<1>3. e[i] = Table(EmptyPd) /\ \A k \in 0 .. Pdpts - 1 : k # i => e[k] = d[k]
  BY DEF Dirs, PutDir
<1>4. e \in Dirs
  BY <1>2 DEF Dirs, PutDir
<1> HIDE DEF e
<1> QED
  BY <1>1, <1>3, <1>4, Kinds DEF Ent, e

LEMMA DropDirIs ==
  ASSUME NEW d \in Dirs, NEW i \in 0 .. Pdpts - 1, \A j \in 0 .. PdLen - 1 : Ent(d, i, j) = None
  PROVE  LET e == PutDir(d, i, None)
         IN /\ e \in Dirs /\ e[i] = None
            /\ \A k \in 0 .. Pdpts - 1 : k # i => e[k] = d[k]
            /\ \A k \in 0 .. Pdpts - 1 : \A l \in 0 .. PdLen - 1 : Ent(e, k, l) = Ent(d, k, l)
<1> DEFINE e == PutDir(d, i, None)
<1>1. e[i] = None /\ \A k \in 0 .. Pdpts - 1 : k # i => e[k] = d[k]
  BY DEF Dirs, PutDir
<1>2. e \in Dirs
  BY DEF Dirs, PutDir
<1> HIDE DEF e
<1> QED
  BY <1>1, <1>2 DEF Ent, e

-----------------------------------------------------------------------------
(* Counting tables *)

DirSet(d) == {i \in DOMAIN d : d[i] # None}
TableSet(d) == {ij \in (DOMAIN d) \X (0 .. PdLen - 1) :
                  /\ d[ij[1]] # None
                  /\ d[ij[1]].pt[ij[2]].kind = "table"}
Counts(d) == Cardinality(DirSet(d)) + Cardinality(TableSet(d))

LEMMA Finite ==
  ASSUME NEW d \in Dirs
  PROVE  /\ IsFiniteSet(DirSet(d)) /\ IsFiniteSet(TableSet(d))
         /\ Cardinality(DirSet(d)) \in 0 .. Pdpts
         /\ Cardinality(TableSet(d)) \in 0 .. Pdpts * PdLen
         /\ DirSet(d) = {i \in 0 .. Pdpts - 1 : d[i] # None}
         /\ TableSet(d) = {ij \in (0 .. Pdpts - 1) \X (0 .. PdLen - 1) : Ent(d, ij[1], ij[2]).kind = "table"}
<1> DEFINE I1 == 0 .. Pdpts - 1
           J1 == 0 .. PdLen - 1
<1>1. DOMAIN d = I1
  BY DEF Dirs
<1>2. DirSet(d) = {i \in I1 : d[i] # None}
  BY <1>1 DEF DirSet
<1>3. TableSet(d) = {ij \in I1 \X J1 : Ent(d, ij[1], ij[2]).kind = "table"}
  <2>1. ASSUME NEW ij \in I1 \X J1
        PROVE  d[ij[1]] # None /\ d[ij[1]].pt[ij[2]].kind = "table" <=> Ent(d, ij[1], ij[2]).kind = "table"
    BY Kinds DEF Ent
  <2> QED
    BY <1>1, <2>1 DEF TableSet
<1>4. IsFiniteSet(I1) /\ Cardinality(I1) = Pdpts /\ IsFiniteSet(J1) /\ Cardinality(J1) = PdLen
  <2>1. 0 \in Int /\ Pdpts - 1 \in Int /\ PdLen - 1 \in Int
        /\ (Pdpts - 1) - 0 + 1 = Pdpts /\ (PdLen - 1) - 0 + 1 = PdLen
        /\ ~(0 > Pdpts - 1) /\ ~(0 > PdLen - 1)
    BY Sizes
  <2> QED
    BY <2>1, FS_Interval
<1>5. IsFiniteSet(I1 \X J1) /\ Cardinality(I1 \X J1) = Pdpts * PdLen
  <2> HIDE DEF I1, J1
  <2>1. IsFiniteSet(I1 \X J1) /\ Cardinality(I1 \X J1) = Cardinality(I1) * Cardinality(J1)
    BY <1>4, FS_Product
  <2> QED
    BY <1>4, <2>1
<1>6. DirSet(d) \subseteq I1 /\ TableSet(d) \subseteq I1 \X J1
  BY <1>2, <1>3
<1> HIDE DEF I1, J1
<1>7. /\ IsFiniteSet(DirSet(d)) /\ Cardinality(DirSet(d)) <= Pdpts
      /\ IsFiniteSet(TableSet(d)) /\ Cardinality(TableSet(d)) <= Pdpts * PdLen
  BY <1>4, <1>5, <1>6, FS_Subset
<1>8. Cardinality(DirSet(d)) \in Nat /\ Cardinality(TableSet(d)) \in Nat /\ Pdpts * PdLen \in Nat
  BY <1>7, FS_CardinalityType, Sizes
<1> QED
  BY <1>2, <1>3, <1>7, <1>8, Sizes DEF I1, J1

\* A directory more or less counts one.
LEMMA DirCounts ==
  ASSUME NEW d \in Dirs, NEW e \in Dirs, NEW i \in 0 .. Pdpts - 1, d[i] = None, e[i] # None,
         \A k \in 0 .. Pdpts - 1 : k # i => e[k] = d[k],
         \A k \in 0 .. Pdpts - 1 : \A l \in 0 .. PdLen - 1 : Ent(e, k, l) = Ent(d, k, l)
  PROVE  Counts(e) = Counts(d) + 1
<1>1. DirSet(e) = DirSet(d) \union {i} /\ i \notin DirSet(d)
  BY Finite
<1>2. TableSet(e) = TableSet(d)
  <2>1. \A ij \in (0 .. Pdpts - 1) \X (0 .. PdLen - 1) :
           Ent(e, ij[1], ij[2]) = Ent(d, ij[1], ij[2])
    OBVIOUS
  <2> DEFINE IJ == (0 .. Pdpts - 1) \X (0 .. PdLen - 1)
             F(x, ij) == Ent(x, ij[1], ij[2]).kind
  <2>2. /\ TableSet(d) = {ij \in IJ : F(d, ij) = "table"}
        /\ TableSet(e) = {ij \in IJ : F(e, ij) = "table"}
    BY Finite
  <2>3. \A ij \in IJ : F(e, ij) = F(d, ij)
    BY <2>1
  <2> HIDE DEF IJ, F
  <2> QED
    BY <2>2, <2>3
<1>3. Cardinality(DirSet(e)) = Cardinality(DirSet(d)) + 1
  BY <1>1, Finite, FS_AddElement
<1>4. Cardinality(DirSet(d)) \in Nat /\ Cardinality(TableSet(d)) \in Nat
  BY Finite, FS_CardinalityType
<1> QED
  BY <1>2, <1>3, <1>4 DEF Counts

\* So does a page table.
LEMMA TableCounts ==
  ASSUME NEW d \in Dirs, NEW e \in Dirs, NEW i \in 0 .. Pdpts - 1, NEW j \in 0 .. PdLen - 1,
         \A k \in 0 .. Pdpts - 1 : e[k] = None <=> d[k] = None,
         \A k \in 0 .. Pdpts - 1 : \A l \in 0 .. PdLen - 1 :
            ~(k = i /\ l = j) => Ent(e, k, l) = Ent(d, k, l)
  PROVE  /\ (Ent(d, i, j).kind = "table" <=> Ent(e, i, j).kind = "table") => Counts(e) = Counts(d)
         /\ Ent(d, i, j).kind # "table" /\ Ent(e, i, j).kind = "table" => Counts(e) = Counts(d) + 1
         /\ Ent(d, i, j).kind = "table" /\ Ent(e, i, j).kind # "table" => Counts(e) = Counts(d) - 1
<1>1. DirSet(e) = DirSet(d)
  BY Finite
<1>2. ASSUME NEW ij \in (0 .. Pdpts - 1) \X (0 .. PdLen - 1), ij # <<i, j>>
      PROVE  Ent(e, ij[1], ij[2]) = Ent(d, ij[1], ij[2])
  <2>1. ~(ij[1] = i /\ ij[2] = j)
    BY <1>2
  <2> QED
    BY <2>1
<1> DEFINE p == <<i, j>>
<1>3. p \in (0 .. Pdpts - 1) \X (0 .. PdLen - 1) /\ p[1] = i /\ p[2] = j
  OBVIOUS
<1> HIDE DEF p
<1>4. /\ p \in TableSet(d) <=> Ent(d, i, j).kind = "table"
      /\ p \in TableSet(e) <=> Ent(e, i, j).kind = "table"
      /\ TableSet(e) \ {p} = TableSet(d) \ {p}
  BY <1>2, <1>3, Finite DEF p
<1>5. /\ Cardinality(DirSet(d)) \in Nat /\ Cardinality(TableSet(d)) \in Nat
      /\ IsFiniteSet(TableSet(d)) /\ IsFiniteSet(TableSet(e))
  BY Finite, FS_CardinalityType
<1>6. CASE Ent(d, i, j).kind = "table" <=> Ent(e, i, j).kind = "table"
  <2>1. TableSet(e) = TableSet(d)
    BY <1>4, <1>6
  <2> QED
    BY <1>1, <1>6, <2>1 DEF Counts
<1>7. CASE Ent(d, i, j).kind # "table" /\ Ent(e, i, j).kind = "table"
  <2>1. TableSet(e) = TableSet(d) \union {p} /\ p \notin TableSet(d)
    BY <1>4, <1>7
  <2>2. Cardinality(TableSet(e)) = Cardinality(TableSet(d)) + 1
    BY <1>5, <2>1, FS_AddElement
  <2> QED
    BY <1>1, <1>5, <1>7, <2>2 DEF Counts
<1>8. CASE Ent(d, i, j).kind = "table" /\ Ent(e, i, j).kind # "table"
  <2>1. TableSet(e) = TableSet(d) \ {p} /\ p \in TableSet(d)
    BY <1>4, <1>8
  <2>2. Cardinality(TableSet(e)) = Cardinality(TableSet(d)) - 1
    BY <1>5, <2>1, FS_RemoveElement
  <2> QED
    BY <1>1, <1>5, <1>8, <2>2 DEF Counts
<1> QED
  BY <1>6, <1>7, <1>8

-----------------------------------------------------------------------------
(* One turn of the walks *)

W(d, n, a) == [dirs |-> d, tables |-> n, at |-> a]

LEMMA WIs ==
  ASSUME NEW d, NEW n, NEW a
  PROVE  W(d, n, a).dirs = d /\ W(d, n, a).tables = n /\ W(d, n, a).at = a
BY DEF W

SetTables(s, e, m) == [s EXCEPT !.dirs = e, !.tables = m]
SetAt(s, e, b) == [s EXCEPT !.dirs = e, !.at = b]

LEMMA WTables ==
  ASSUME NEW d, NEW n, NEW a, NEW e, NEW m
  PROVE  SetTables(W(d, n, a), e, m) = W(e, m, a)
<1> DEFINE s == W(d, n, a)
           one == [s EXCEPT !.dirs = e]
<1>1. one = [dirs |-> e, tables |-> n, at |-> a]
  BY DEF W
<1>2. SetTables(s, e, m) = [one EXCEPT !.tables = m]
  BY DEF SetTables
<1> HIDE DEF one
<1> QED
  BY <1>1, <1>2 DEF W

LEMMA WAt ==
  ASSUME NEW d, NEW n, NEW a, NEW e, NEW b
  PROVE  SetAt(W(d, n, a), e, b) = W(e, n, b)
<1> DEFINE s == W(d, n, a)
           one == [s EXCEPT !.dirs = e]
<1>1. one = [dirs |-> e, tables |-> n, at |-> a]
  BY DEF W
<1>2. SetAt(s, e, b) = [one EXCEPT !.at = b]
  BY DEF SetAt
<1> HIDE DEF one
<1> QED
  BY <1>1, <1>2 DEF W

\* an entry put at the place of page v: its whole block gets it
LEMMA PutAt ==
  ASSUME NEW d \in Dirs, NEW v \in Pages, d[Pdpi(v)] # None, NEW x \in Entries
  PROVE  LET e == PutEntry(d, Pdpi(v), Pdti(v), x)
         IN /\ e \in Dirs
            /\ \A k \in 0 .. Pdpts - 1 : e[k] = None <=> d[k] = None
            /\ \A u \in Pages : E(e, u) = IF Block(u) = Block(v) THEN x ELSE E(d, u)
            /\ (E(d, v).kind = "table" <=> x.kind = "table") => Counts(e) = Counts(d)
            /\ E(d, v).kind # "table" /\ x.kind = "table" => Counts(e) = Counts(d) + 1
            /\ E(d, v).kind = "table" /\ x.kind # "table" => Counts(e) = Counts(d) - 1
<1> DEFINE i == Pdpi(v)
           j == Pdti(v)
           e == PutEntry(d, i, j, x)
<1>1. i \in 0 .. Pdpts - 1 /\ j \in 0 .. PdLen - 1 /\ d[i] # None /\ E(d, v) = Ent(d, i, j)
  BY Place DEF E
<1>2. /\ e \in Dirs
      /\ \A k \in 0 .. Pdpts - 1 : e[k] = None <=> d[k] = None
      /\ \A k \in 0 .. Pdpts - 1 : \A l \in 0 .. PdLen - 1 :
            Ent(e, k, l) = IF k = i /\ l = j THEN x ELSE Ent(d, k, l)
  <2> HIDE DEF i, j
  <2> QED
    BY <1>1, PutEntryIs
<1>3. ASSUME NEW u \in Pages PROVE E(e, u) = IF Block(u) = Block(v) THEN x ELSE E(d, u)
  <2>1. Pdpi(u) \in 0 .. Pdpts - 1 /\ Pdti(u) \in 0 .. PdLen - 1
    BY Place
  <2>2. Block(u) = Block(v) <=> Pdpi(u) = i /\ Pdti(u) = j
    BY SamePlace
  <2> HIDE DEF e, i, j
  <2> QED
    BY <1>2, <2>1, <2>2 DEF E
<1>4. Ent(e, i, j) = x
  BY <1>1, <1>2
<1> HIDE DEF e, i, j
<1>5. /\ (Ent(d, i, j).kind = "table" <=> Ent(e, i, j).kind = "table") => Counts(e) = Counts(d)
      /\ Ent(d, i, j).kind # "table" /\ Ent(e, i, j).kind = "table" => Counts(e) = Counts(d) + 1
      /\ Ent(d, i, j).kind = "table" /\ Ent(e, i, j).kind # "table" => Counts(e) = Counts(d) - 1
  BY <1>1, <1>2, TableCounts
<1> QED
  BY <1>1, <1>2, <1>3, <1>4, <1>5 DEF e, i, j

\* a page put into its page table: no other page is mapped otherwise
LEMMA PutPageAt ==
  ASSUME NEW d \in Dirs, NEW v \in Pages, E(d, v).kind = "table", NEW z \in Nat \union {Nil}
  PROVE  LET e == PutPage(d, Pdpi(v), Pdti(v), Ptei(v), z)
         IN /\ e \in Dirs /\ Counts(e) = Counts(d)
            /\ E(e, v).kind = "table" /\ e[Pdpi(v)] # None
            /\ \A u \in Pages : Tr(e, u) = IF u = v THEN z ELSE Tr(d, u)
            /\ \A u \in Pages : IsHuge(e, u) => IsHuge(d, u)
<1> DEFINE i == Pdpi(v)
           j == Pdti(v)
           k == Ptei(v)
           t == E(d, v).pt
           q == [t EXCEPT ![k] = z]
           e == PutPage(d, i, j, k, z)
<1>1. i \in 0 .. Pdpts - 1 /\ j \in 0 .. PdLen - 1 /\ k \in 0 .. PtLen - 1
  BY Place
<1>2. d[i] # None /\ E(d, v) = d[i].pt[j]
  BY Kinds DEF E, Ent
<1>3. t \in PtSet /\ d[i].pt[j] = Table(t) /\ E(d, v) = Table(t)
  BY <1>2, EType, EntryKinds
<1>4. q \in PtSet /\ q[k] = z /\ \A l \in 0 .. PtLen - 1 : l # k => q[l] = t[l]
  <2> HIDE DEF t, k
  <2> QED
    BY <1>1, <1>3 DEF PtSet
<1>5. Table(q) \in Entries
  BY <1>4 DEF Entries
<1> HIDE DEF t, q
<1>6. e = PutEntry(d, i, j, Table(q))
  <2>1. e = PutEntry(d, i, j, [d[i].pt[j] EXCEPT !.pt = [d[i].pt[j].pt EXCEPT ![k] = z]])
    BY DEF PutPage, PutEntry
  <2>2. d[i].pt[j].pt = t
    BY <1>3, Kinds
  <2>3. [Table(t) EXCEPT !.pt = q] = Table(q)
    BY DEF Table
  <2> HIDE DEF e, i, j, k
  <2>4. [d[i].pt[j].pt EXCEPT ![k] = z] = q
    BY <2>2 DEF q
  <2> QED
    BY <1>3, <2>1, <2>3, <2>4
<1> HIDE DEF e
<1>7. /\ e \in Dirs
      /\ \A l \in 0 .. Pdpts - 1 : e[l] = None <=> d[l] = None
      /\ \A u \in Pages : E(e, u) = IF Block(u) = Block(v) THEN Table(q) ELSE E(d, u)
      /\ Counts(e) = Counts(d)
  BY <1>2, <1>5, <1>6, Kinds, PutAt
<1>8. ASSUME NEW u \in Pages
      PROVE  Tr(e, u) = (IF u = v THEN z ELSE Tr(d, u)) /\ (IsHuge(e, u) => IsHuge(d, u))
  <2>1. CASE Block(u) # Block(v)
    BY <1>7, <2>1 DEF Tr, IsHuge
  <2>2. CASE Block(u) = Block(v)
    <3>1. E(e, u) = Table(q)
      BY <1>7, <2>2
    <3>2. E(d, u) = Table(t)
      BY <1>3, <2>2, SamePlace DEF E
    <3>3. Tr(e, u) = q[Ptei(u)] /\ Tr(d, u) = t[Ptei(u)] /\ ~IsHuge(e, u)
      BY <3>1, <3>2, Kinds DEF Tr, IsHuge
    <3>4. Ptei(u) \in 0 .. PtLen - 1 /\ (Ptei(u) = k => u = v)
      BY <2>2, Place, SamePlace
    <3> QED
      BY <1>4, <3>3, <3>4
  <2> QED
    BY <2>1, <2>2
<1>9. E(e, v).kind = "table" /\ e[i] # None
  BY <1>1, <1>2, <1>7, Kinds
<1> QED
  BY <1>7, <1>8, <1>9 DEF e, i, j, k

LEMMA WithDirIs ==
  ASSUME NEW d \in Dirs, NEW v \in Pages, NEW a
  PROVE  \E e \in Dirs :
            /\ WithDir(W(d, Counts(d), a), Pdpi(v)) = W(e, Counts(e), a)
            /\ e[Pdpi(v)] # None
            /\ \A u \in Pages : E(e, u) = E(d, u)
<1> DEFINE i == Pdpi(v)
           e == PutDir(d, i, Table(EmptyPd))
           s == W(d, Counts(d), a)
<1>1. i \in 0 .. Pdpts - 1
  BY Place
<1>2. s.dirs = d /\ s.tables = Counts(d)
  BY WIs
<1>3. CASE d[i] # None
  BY <1>2, <1>3 DEF WithDir
<1>4. CASE d[i] = None
  <2>1. /\ e \in Dirs /\ e[i] # None
        /\ \A k \in 0 .. Pdpts - 1 : k # i => e[k] = d[k]
        /\ \A k \in 0 .. Pdpts - 1 : \A l \in 0 .. PdLen - 1 : Ent(e, k, l) = Ent(d, k, l)
    BY <1>1, <1>4, MakeDirIs
  <2>2. WithDir(s, i) = [s EXCEPT !.dirs[i] = Table(EmptyPd), !.tables = Counts(d) + 1]
    BY <1>2, <1>4 DEF WithDir
  <2>3. WithDir(s, i) = W(e, Counts(d) + 1, a)
    <3>1. WithDir(s, i) = SetTables(s, PutDir(s.dirs, i, Table(EmptyPd)), Counts(d) + 1)
      BY <2>2 DEF SetTables, PutDir
    <3> QED
      BY <1>2, <3>1, WTables
  <2> HIDE DEF e, i
  <2>4. Counts(e) = Counts(d) + 1
    BY <1>1, <1>4, <2>1, DirCounts
  <2>5. \A u \in Pages : E(e, u) = E(d, u)
    BY <2>1, Place DEF E
  <2> QED
    BY <2>1, <2>3, <2>4, <2>5 DEF i
<1> QED
  BY <1>3, <1>4

LEMMA WithPtIs ==
  ASSUME NEW d \in Dirs, NEW v \in Pages, NEW a, d[Pdpi(v)] # None, ~IsHuge(d, v)
  PROVE  \E e \in Dirs :
            /\ WithPt(W(d, Counts(d), a), v) = W(e, Counts(e), a)
            /\ E(e, v).kind = "table"
            /\ \A u \in Pages : Tr(e, u) = Tr(d, u)
            /\ \A u \in Pages : IsHuge(e, u) => IsHuge(d, u)
<1> DEFINE i == Pdpi(v)
           j == Pdti(v)
           e == PutEntry(d, i, j, Table(EmptyPt))
           s == W(d, Counts(d), a)
<1>1. s.dirs = d /\ s.tables = Counts(d) /\ E(d, v) = d[i].pt[j]
  BY WIs DEF E, Ent
<1>2. CASE E(d, v) # None
  <2>1. E(d, v).kind = "table"
    BY <1>2, EType, EntryKinds DEF IsHuge
  <2> QED
    BY <1>1, <1>2, <2>1 DEF WithPt
<1>3. CASE E(d, v) = None
  <2>1. EmptyPt \in PtSet /\ \A k \in 0 .. PtLen - 1 : EmptyPt[k] = Nil
    BY DEF EmptyPt, PtSet
  <2> HIDE DEF EmptyPt
  <2>2. Table(EmptyPt) \in Entries
    BY <2>1 DEF Entries
  <2>3. /\ e \in Dirs
        /\ \A u \in Pages : E(e, u) = IF Block(u) = Block(v) THEN Table(EmptyPt) ELSE E(d, u)
        /\ Counts(e) = Counts(d) + 1
    BY <1>3, <2>2, Kinds, PutAt
  <2>4. WithPt(s, v) = [s EXCEPT !.dirs[i].pt[j] = Table(EmptyPt), !.tables = Counts(d) + 1]
    BY <1>1, <1>3 DEF WithPt
  <2>5. WithPt(s, v) = W(e, Counts(d) + 1, a)
    <3>1. WithPt(s, v) = SetTables(s, PutEntry(s.dirs, i, j, Table(EmptyPt)), Counts(d) + 1)
      BY <2>4 DEF SetTables, PutEntry
    <3> QED
      BY <1>1, <3>1, WTables
  <2> HIDE DEF e
  <2>6. ASSUME NEW u \in Pages PROVE Tr(e, u) = Tr(d, u) /\ (IsHuge(e, u) => IsHuge(d, u))
    <3>1. CASE Block(u) # Block(v)
      BY <2>3, <3>1 DEF Tr, IsHuge
    <3>2. CASE Block(u) = Block(v)
      <4>1. E(e, u) = Table(EmptyPt)
        BY <2>3, <3>2
      <4>2. E(d, u) = None
        BY <1>3, <3>2, SamePlace DEF E
      <4>3. Tr(e, u) = Nil /\ Tr(d, u) = Nil /\ ~IsHuge(e, u)
        BY <2>1, <4>1, <4>2, Place, Kinds DEF Tr, IsHuge
      <4> QED
        BY <4>3
    <3> QED
      BY <3>1, <3>2
  <2>7. E(e, v).kind = "table"
    BY <2>3, Kinds
  <2> QED
    BY <2>3, <2>5, <2>6, <2>7
<1> QED
  BY <1>2, <1>3

\* What page v may have when nothing is mapped there.
LEMMA Unmapped ==
  ASSUME NEW d \in Dirs, NEW v \in Pages
  PROVE  /\ Tr(d, v) \in Nat \union {Nil}
         /\ Tr(d, v) = Nil => ~IsHuge(d, v)
         /\ E(d, v) = None => Tr(d, v) = Nil /\ ~IsHuge(d, v)
         /\ Tr(d, v) # Nil /\ ~IsHuge(d, v) => E(d, v).kind = "table"
<1>1. E(d, v) \in Entries /\ Ptei(v) \in 0 .. PtLen - 1
  BY EType, Place
<1>2. CASE E(d, v).kind = "none"
  BY <1>1, <1>2, EntryKinds DEF Tr, IsHuge
<1>3. CASE E(d, v).kind = "huge"
  <2>1. E(d, v).phys \in Nat /\ E(d, v) # None
    BY <1>1, <1>3, EntryKinds, Kinds
  <2>2. Tr(d, v) = E(d, v).phys + Ptei(v)
    BY <1>3, <2>1 DEF Tr
  <2>3. Tr(d, v) \in Nat
    BY <1>1, <2>1, <2>2
  <2> QED
    BY <1>3, <2>1, <2>3 DEF Nil, IsHuge
<1>4. CASE E(d, v).kind = "table"
  <2>1. E(d, v).pt \in PtSet /\ E(d, v) # None
    BY <1>1, <1>4, EntryKinds, Kinds
  <2>2. Tr(d, v) = E(d, v).pt[Ptei(v)]
    BY <1>4, <2>1 DEF Tr
  <2> QED
    BY <1>1, <1>4, <2>1, <2>2 DEF PtSet, IsHuge
<1> QED
  BY <1>1, <1>2, <1>3, <1>4, EntryKinds

\* what one turn leaves: pages v up to a map to what M gives, the others as
\* before, and a huge page that is new lies before end
Turned(d, e, v, a, end, offset) ==
    /\ \A u \in Pages : Tr(e, u) = IF v <= u /\ u < a THEN offset + u ELSE Tr(d, u)
    /\ \A u \in Pages : IsHuge(e, u) =>
          IsHuge(d, u) \/ \A q \in Pages : Block(q) = Block(u) => v <= q /\ q < end

\* A turn of pagetable_mmio_map maps the pages of one entry.
LEMMA MapStep ==
  ASSUME NEW d \in Dirs, NEW v \in Pages, NEW end \in Nat, v < end, end <= Area,
         NEW offset \in Int, offset + v \in Nat, Tr(d, v) = Nil
  PROVE  \E e \in Dirs : \E a \in v + 1 .. end :
            /\ MapOne(W(d, Counts(d), v), end, offset) = W(e, Counts(e), a)
            /\ Turned(d, e, v, a, end, offset)
<1> DEFINE i == Pdpi(v)
           j == Pdti(v)
           k == Ptei(v)
           s0 == W(d, Counts(d), v)
<1>1. PICK d1 \in Dirs : /\ WithDir(s0, i) = W(d1, Counts(d1), v)
                         /\ d1[i] # None
                         /\ \A u \in Pages : E(d1, u) = E(d, u)
  BY WithDirIs
<1> DEFINE s == W(d1, Counts(d1), v)
<1>2. /\ s0.at = v /\ s.dirs = d1 /\ s.tables = Counts(d1)
      /\ E(d1, v) = d1[i].pt[j] /\ ~IsHuge(d1, v)
      /\ \A u \in Pages : Tr(d1, u) = Tr(d, u) /\ (IsHuge(d1, u) <=> IsHuge(d, u))
  <2>1. s0.at = v /\ s.dirs = d1 /\ s.tables = Counts(d1)
    BY WIs
  <2>2. E(d1, v) = d1[i].pt[j]
    BY <1>1 DEF E, Ent
  <2>3. \A u \in Pages : Tr(d1, u) = Tr(d, u) /\ (IsHuge(d1, u) <=> IsHuge(d, u))
    BY <1>1 DEF Tr, IsHuge
  <2>4. ~IsHuge(d1, v)
    BY <2>3, Unmapped
  <2> QED
    BY <2>1, <2>2, <2>3, <2>4
<1>3. v \in Nat /\ k \in 0 .. PtLen - 1 /\ i \in 0 .. Pdpts - 1 /\ j \in 0 .. PdLen - 1
  BY Place
<1>4. CASE HugeFits(s, v, end)
  <2> DEFINE x == Huge(offset + v)
             e == PutEntry(d1, i, j, x)
             a == v + PtLen
  <2>1. E(d1, v) = None /\ k = 0 /\ end - v >= PtLen
    BY <1>2, <1>4 DEF HugeFits
  <2>2. a \in v + 1 .. end /\ a <= Area
    BY <1>3, <2>1, Sizes, Place
  <2>3. x \in Entries /\ x.kind = "huge" /\ x.phys = offset + v /\ x # None
    BY Kinds DEF Entries
  <2>4. MapOne(s0, end, offset) = [s EXCEPT !.dirs[i].pt[j] = x, !.at = a]
    <3>1. ~(v >= end)
      BY <1>3
    <3>2. MapOne(s0, end, offset) = IF v >= end THEN s0
             ELSE IF HugeFits(s, v, end)
             THEN [s EXCEPT !.dirs[i].pt[j] = Huge(offset + v), !.at = v + PtLen]
             ELSE [WithPt(s, v) EXCEPT !.dirs[i].pt[j].pt[k] = offset + v, !.at = v + 1]
      BY <1>1, <1>2 DEF MapOne
    <3> HIDE DEF s
    <3> QED
      BY <1>4, <3>1, <3>2
  <2> HIDE DEF x, a
  <2>5. MapOne(s0, end, offset) = SetAt(s, PutEntry(s.dirs, i, j, x), a)
    BY <2>4 DEF SetAt, PutEntry
  <2>6. MapOne(s0, end, offset) = W(e, Counts(d1), a)
    BY <1>2, <2>5, WAt
  <2>7. /\ e \in Dirs
        /\ \A u \in Pages : E(e, u) = IF Block(u) = Block(v) THEN x ELSE E(d1, u)
        /\ Counts(e) = Counts(d1)
    BY <1>1, <2>1, <2>3, Kinds, PutAt
  <2> HIDE DEF e
  <2>8. ASSUME NEW u \in Pages
        PROVE  /\ Tr(e, u) = IF v <= u /\ u < a THEN offset + u ELSE Tr(d, u)
               /\ IsHuge(e, u) =>
                    IsHuge(d, u) \/ \A q \in Pages : Block(q) = Block(u) => v <= q /\ q < end
    <3>1. (Block(u) = Block(v) <=> v <= u /\ u < a) /\ (Block(u) = Block(v) => Ptei(u) = u - v)
      BY <2>1, BlockIs DEF a
    <3>2. CASE Block(u) = Block(v)
      <4>1. E(e, u) = x
        BY <2>7, <3>2
      <4>2. Tr(e, u) = x.phys + Ptei(u)
        BY <2>3, <4>1 DEF Tr
      <4>3. u \in Nat
        BY Place
      <4>4. Tr(e, u) = offset + u
        BY <1>3, <2>3, <3>1, <3>2, <4>2, <4>3
      <4>5. ASSUME NEW q \in Pages, Block(q) = Block(u) PROVE v <= q /\ q < end
        <5>1. v <= q /\ q < v + PtLen
          BY <2>1, <3>2, <4>5, BlockIs
        <5>2. q \in Nat
          BY Place
        <5> QED
          BY <1>3, <2>1, <5>1, <5>2, Sizes
      <4> QED
        BY <3>1, <3>2, <4>4, <4>5
    <3>3. CASE Block(u) # Block(v)
      <4>1. E(e, u) = E(d1, u)
        BY <2>7, <3>3
      <4>2. Tr(e, u) = Tr(d1, u) /\ (IsHuge(e, u) <=> IsHuge(d1, u))
        BY <4>1 DEF Tr, IsHuge
      <4> QED
        BY <1>2, <3>1, <3>3, <4>2
    <3> QED
      BY <3>2, <3>3
  <2> QED
    BY <2>2, <2>6, <2>7, <2>8 DEF Turned
<1>5. CASE ~HugeFits(s, v, end)
  <2>1. PICK d2 \in Dirs : /\ WithPt(s, v) = W(d2, Counts(d2), v)
                           /\ E(d2, v).kind = "table"
                           /\ \A u \in Pages : Tr(d2, u) = Tr(d1, u)
                           /\ \A u \in Pages : IsHuge(d2, u) => IsHuge(d1, u)
    BY <1>1, <1>2, WithPtIs
  <2> DEFINE t == W(d2, Counts(d2), v)
             z == offset + v
             e == PutPage(d2, i, j, k, z)
             a == v + 1
  <2>2. MapOne(s0, end, offset) = [t EXCEPT !.dirs[i].pt[j].pt[k] = z, !.at = a]
    BY <1>1, <1>2, <1>3, <1>5, <2>1 DEF MapOne
  <2>3. z \in Nat /\ a \in v + 1 .. end /\ a = v + 1
    BY <1>3
  <2>4. t.dirs = d2
    BY WIs
  <2>5. MapOne(s0, end, offset) = SetAt(t, PutPage(t.dirs, i, j, k, z), a)
    <3> HIDE DEF t, z, a
    <3> QED
      BY <2>2 DEF SetAt, PutPage
  <2>6. MapOne(s0, end, offset) = W(e, Counts(d2), a)
    BY <2>4, <2>5, WAt
  <2> HIDE DEF z, a
  <2>7. /\ e \in Dirs /\ Counts(e) = Counts(d2)
        /\ \A u \in Pages : Tr(e, u) = IF u = v THEN z ELSE Tr(d2, u)
        /\ \A u \in Pages : IsHuge(e, u) => IsHuge(d2, u)
    BY <2>1, <2>3, PutPageAt
  <2> HIDE DEF e
  <2>8. ASSUME NEW u \in Pages
        PROVE  /\ Tr(e, u) = IF v <= u /\ u < a THEN offset + u ELSE Tr(d, u)
               /\ IsHuge(e, u) => IsHuge(d, u)
    <3>1. v <= u /\ u < a <=> u = v
      BY <1>3, <2>3, Place
    <3> QED
      BY <1>2, <2>1, <2>7, <3>1 DEF z
  <2> QED
    BY <2>3, <2>6, <2>7, <2>8 DEF Turned
<1> QED
  BY <1>4, <1>5

\* A page table is freed only when it maps nothing.
LEMMA FreePtIs ==
  ASSUME NEW d \in Dirs, NEW v \in Pages, NEW a, NEW next, d[Pdpi(v)] # None,
         E(d, v).kind = "table" \/ ~(Ptei(v) > Ptei(next))
  PROVE  \E e \in Dirs :
            /\ FreePt(W(d, Counts(d), a), v, next) = W(e, Counts(e), a)
            /\ e[Pdpi(v)] # None
            /\ \A u \in Pages : Tr(e, u) = Tr(d, u)
            /\ \A u \in Pages : IsHuge(e, u) => IsHuge(d, u)
<1> DEFINE i == Pdpi(v)
           j == Pdti(v)
           e == PutEntry(d, i, j, None)
           s == W(d, Counts(d), a)
           t == d[i].pt[j].pt
           frees == Ptei(v) > Ptei(next) /\ PtIsEmpty(t)
<1>1. s.dirs = d /\ s.tables = Counts(d) /\ E(d, v) = d[i].pt[j]
  BY WIs DEF E, Ent
<1>2. FreePt(s, v, next) = IF frees THEN [s EXCEPT !.dirs[i].pt[j] = None, !.tables = Counts(d) - 1]
                           ELSE s
  BY <1>1 DEF FreePt
<1>3. CASE ~frees
  <2> HIDE DEF frees
  <2>1. FreePt(s, v, next) = s
    BY <1>2, <1>3
  <2> QED
    BY <2>1
<1>4. CASE frees
  <2>1. E(d, v).kind = "table" /\ t \in PtSet /\ E(d, v) = Table(t)
    BY <1>1, <1>4, EType, EntryKinds
  <2>2. \A k \in 0 .. PtLen - 1 : t[k] = Nil
    BY <1>4, <2>1 DEF PtIsEmpty, PtSet
  <2>3. FreePt(s, v, next) = [s EXCEPT !.dirs[i].pt[j] = None, !.tables = Counts(d) - 1]
    <3> HIDE DEF frees
    <3> QED
      BY <1>2, <1>4
  <2>4. FreePt(s, v, next) = SetTables(s, PutEntry(s.dirs, i, j, None), Counts(d) - 1)
    BY <2>3 DEF SetTables, PutEntry
  <2>5. FreePt(s, v, next) = W(e, Counts(d) - 1, a)
    BY <1>1, <2>4, WTables
  <2>6. None \in Entries /\ None.kind # "table"
    BY Kinds DEF Entries
  <2>7. /\ e \in Dirs
        /\ \A l \in 0 .. Pdpts - 1 : e[l] = None <=> d[l] = None
        /\ \A u \in Pages : E(e, u) = IF Block(u) = Block(v) THEN None ELSE E(d, u)
        /\ Counts(e) = Counts(d) - 1
    <3> DEFINE x == None
    <3>1. x \in Entries /\ x.kind # "table"
      BY <2>6
    <3> HIDE DEF x
    <3>2. LET f == PutEntry(d, i, j, x)
          IN /\ f \in Dirs
             /\ \A l \in 0 .. Pdpts - 1 : f[l] = None <=> d[l] = None
             /\ \A u \in Pages : E(f, u) = IF Block(u) = Block(v) THEN x ELSE E(d, u)
             /\ Counts(f) = Counts(d) - 1
      BY <2>1, <3>1, PutAt
    <3> QED
      BY <3>2 DEF x
  <2> HIDE DEF e, t, frees
  <2>8. ASSUME NEW u \in Pages PROVE Tr(e, u) = Tr(d, u) /\ (IsHuge(e, u) => IsHuge(d, u))
    <3>1. CASE Block(u) # Block(v)
      BY <2>7, <3>1 DEF Tr, IsHuge
    <3>2. CASE Block(u) = Block(v)
      <4>1. E(e, u) = None
        BY <2>7, <3>2
      <4>2. E(d, u) = Table(t)
        BY <2>1, <3>2, SamePlace DEF E
      <4>3. Tr(d, u) = Nil
        BY <2>2, <4>2, Place, Kinds DEF Tr
      <4> QED
        BY <2>7, <4>1, <4>3, Unmapped
    <3> QED
      BY <3>1, <3>2
  <2>9. e[i] # None
    BY <2>7, Place
  <2> QED
    BY <2>5, <2>7, <2>8, <2>9
<1> QED
  BY <1>3, <1>4

\* A directory is freed only when it has no entries.
LEMMA FreePdIs ==
  ASSUME NEW d \in Dirs, NEW v \in Pages, NEW a, NEW next, d[Pdpi(v)] # None
  PROVE  \E e \in Dirs :
            /\ FreePd(W(d, Counts(d), a), v, next) = W(e, Counts(e), a)
            /\ \A u \in Pages : Tr(e, u) = Tr(d, u)
            /\ \A u \in Pages : IsHuge(e, u) => IsHuge(d, u)
<1> DEFINE i == Pdpi(v)
           e == PutDir(d, i, None)
           s == W(d, Counts(d), a)
           p == d[i].pt
           frees == Pdti(v) > Pdti(next) /\ PdIsEmpty(p)
<1>1. s.dirs = d /\ s.tables = Counts(d) /\ i \in 0 .. Pdpts - 1
  BY WIs, Place
<1>2. FreePd(s, v, next) = IF frees THEN [s EXCEPT !.dirs[i] = None, !.tables = Counts(d) - 1] ELSE s
  BY <1>1 DEF FreePd
<1>3. CASE ~frees
  <2> HIDE DEF frees
  <2>1. FreePd(s, v, next) = s
    BY <1>2, <1>3
  <2> QED
    BY <2>1
<1>4. CASE frees
  <2>1. p \in PdSet
    BY <1>1, DirIs
  <2>2. \A j \in 0 .. PdLen - 1 : Ent(d, i, j) = None
    BY <1>4, <2>1 DEF PdIsEmpty, PdSet, Ent
  <2>3. FreePd(s, v, next) = [s EXCEPT !.dirs[i] = None, !.tables = Counts(d) - 1]
    <3> HIDE DEF frees
    <3> QED
      BY <1>2, <1>4
  <2>4. FreePd(s, v, next) = SetTables(s, PutDir(s.dirs, i, None), Counts(d) - 1)
    BY <2>3 DEF SetTables, PutDir
  <2>5. FreePd(s, v, next) = W(e, Counts(d) - 1, a)
    BY <1>1, <2>4, WTables
  <2>6. /\ e \in Dirs /\ e[i] = None
        /\ \A k \in 0 .. Pdpts - 1 : k # i => e[k] = d[k]
        /\ \A k \in 0 .. Pdpts - 1 : \A l \in 0 .. PdLen - 1 : Ent(e, k, l) = Ent(d, k, l)
    <3> HIDE DEF i
    <3> QED
      BY <1>1, <2>2, DropDirIs
  <2> HIDE DEF e, p, frees
  <2>7. Counts(d) = Counts(e) + 1
    <3> HIDE DEF i
    <3>1. d[i] # None
      BY DEF i
    <3>2. /\ \A k \in 0 .. Pdpts - 1 : k # i => d[k] = e[k]
          /\ \A k \in 0 .. Pdpts - 1 : \A l \in 0 .. PdLen - 1 : Ent(d, k, l) = Ent(e, k, l)
      BY <2>6
    <3> QED
      BY <1>1, <2>6, <3>1, <3>2, DirCounts
  <2>8. Counts(e) = Counts(d) - 1
    <3>1. Counts(e) \in Nat
      BY <2>6, Finite, FS_CardinalityType DEF Counts
    <3> QED
      BY <2>7, <3>1
  <2>9. \A u \in Pages : E(e, u) = E(d, u)
    BY <2>6, Place DEF E
  <2>10. \A u \in Pages : Tr(e, u) = Tr(d, u) /\ (IsHuge(e, u) => IsHuge(d, u))
    BY <2>9 DEF Tr, IsHuge
  <2> QED
    BY <2>5, <2>6, <2>8, <2>10
<1> QED
  BY <1>3, <1>4

\* A turn of pagetable_mmio_unmap unmaps one entry's pages.
LEMMA UnmapStep ==
  ASSUME NEW d \in Dirs, NEW v \in Pages, NEW end \in Nat, v < end, end <= Area,
         Tr(d, v) # Nil, IsHuge(d, v) => Ptei(v) = 0 /\ v + PtLen <= end
  PROVE  \E e \in Dirs : \E a \in v + 1 .. end :
            /\ UnmapOne(W(d, Counts(d), v), end) = W(e, Counts(e), a)
            /\ \A u \in Pages : Tr(e, u) = IF v <= u /\ u < a THEN Nil ELSE Tr(d, u)
            /\ \A u \in Pages : IsHuge(e, u) => IsHuge(d, u)
<1> DEFINE i == Pdpi(v)
           j == Pdti(v)
           k == Ptei(v)
           s == W(d, Counts(d), v)
<1>1. s.at = v /\ s.dirs = d /\ s.tables = Counts(d)
  BY WIs
<1>2. v \in Nat /\ k \in 0 .. PtLen - 1 /\ i \in 0 .. Pdpts - 1 /\ j \in 0 .. PdLen - 1
  BY Place
<1>3. E(d, v) # None
  BY Unmapped
<1>4. d[i] # None /\ E(d, v) = d[i].pt[j]
  BY <1>3 DEF E, Ent
<1>5. ~(v >= end)
  BY <1>2
<1>6. UnmapOne(s, end) =
        IF v >= end THEN s
        ELSE IF IsHuge(d, v)
        THEN FreeTables([s EXCEPT !.dirs[i].pt[j] = None, !.at = v + PtLen], v, v + PtLen)
        ELSE FreeTables([s EXCEPT !.dirs[i].pt[j].pt[k] = Nil, !.at = v + 1], v, v + 1)
  BY <1>1, <1>4 DEF UnmapOne, IsHuge
<1>7. ASSUME NEW e \in Dirs, NEW a, NEW next, e[i] # None,
             E(e, v).kind = "table" \/ ~(Ptei(v) > Ptei(next))
      PROVE  \E f \in Dirs :
                /\ FreeTables(W(e, Counts(e), a), v, next) = W(f, Counts(f), a)
                /\ \A u \in Pages : Tr(f, u) = Tr(e, u)
                /\ \A u \in Pages : IsHuge(f, u) => IsHuge(e, u)
  <2>1. PICK g \in Dirs : /\ FreePt(W(e, Counts(e), a), v, next) = W(g, Counts(g), a)
                          /\ g[i] # None
                          /\ \A u \in Pages : Tr(g, u) = Tr(e, u)
                          /\ \A u \in Pages : IsHuge(g, u) => IsHuge(e, u)
    BY <1>7, FreePtIs
  <2>2. PICK f \in Dirs : /\ FreePd(W(g, Counts(g), a), v, next) = W(f, Counts(f), a)
                          /\ \A u \in Pages : Tr(f, u) = Tr(g, u)
                          /\ \A u \in Pages : IsHuge(f, u) => IsHuge(g, u)
    BY <2>1, FreePdIs
  <2> QED
    BY <2>1, <2>2 DEF FreeTables
<1>8. CASE IsHuge(d, v)
  <2> DEFINE e == PutEntry(d, i, j, None)
             a == v + PtLen
             c == [s EXCEPT !.dirs[i].pt[j] = None, !.at = a]
  <2>1. k = 0 /\ a \in v + 1 .. end /\ a <= Area
    BY <1>2, <1>8, Sizes, Place
  <2>2. UnmapOne(s, end) = FreeTables(c, v, a)
    <3> HIDE DEF s
    <3> QED
      BY <1>5, <1>6, <1>8
  <2>3. c = W(e, Counts(d), a)
    <3> HIDE DEF a
    <3>1. c = SetAt(s, PutEntry(s.dirs, i, j, None), a)
      BY DEF SetAt, PutEntry
    <3> QED
      BY <1>1, <3>1, WAt
  <2>4. /\ e \in Dirs
        /\ \A l \in 0 .. Pdpts - 1 : e[l] = None <=> d[l] = None
        /\ \A u \in Pages : E(e, u) = IF Block(u) = Block(v) THEN None ELSE E(d, u)
        /\ Counts(e) = Counts(d)
    <3> DEFINE x == None
    <3>1. x \in Entries /\ x.kind # "table"
      BY Kinds DEF Entries
    <3>2. E(d, v).kind # "table"
      BY <1>8 DEF IsHuge
    <3> HIDE DEF x
    <3>3. LET f == PutEntry(d, i, j, x)
          IN /\ f \in Dirs
             /\ \A l \in 0 .. Pdpts - 1 : f[l] = None <=> d[l] = None
             /\ \A u \in Pages : E(f, u) = IF Block(u) = Block(v) THEN x ELSE E(d, u)
             /\ Counts(f) = Counts(d)
      BY <1>4, <3>1, <3>2, PutAt
    <3> QED
      BY <3>3 DEF x
  <2> HIDE DEF c, e
  <2>5. ~(Ptei(v) > Ptei(a))
    <3>1. Ptei(a) \in Nat
      BY <1>2, Sizes, DivMod DEF Ptei
    <3> HIDE DEF a
    <3> QED
      BY <2>1, <3>1
  <2>6. e[i] # None
    BY <1>2, <1>4, <2>4
  <2> HIDE DEF a
  <2>7. PICK f \in Dirs :
                /\ FreeTables(W(e, Counts(e), a), v, a) = W(f, Counts(f), a)
                /\ \A u \in Pages : Tr(f, u) = Tr(e, u)
                /\ \A u \in Pages : IsHuge(f, u) => IsHuge(e, u)
    BY <1>7, <2>4, <2>5, <2>6
  <2>8. ASSUME NEW u \in Pages
        PROVE  /\ Tr(e, u) = IF v <= u /\ u < a THEN Nil ELSE Tr(d, u)
               /\ IsHuge(e, u) => IsHuge(d, u)
    <3>1. Block(u) = Block(v) <=> v <= u /\ u < a
      BY <2>1, BlockIs DEF a
    <3>2. CASE Block(u) = Block(v)
      <4>1. E(e, u) = None
        BY <2>4, <3>2
      <4> QED
        BY <2>4, <3>1, <3>2, <4>1, Unmapped
    <3>3. CASE Block(u) # Block(v)
      <4>1. E(e, u) = E(d, u)
        BY <2>4, <3>3
      <4>2. Tr(e, u) = Tr(d, u) /\ (IsHuge(e, u) <=> IsHuge(d, u))
        BY <4>1 DEF Tr, IsHuge
      <4> QED
        BY <3>1, <3>3, <4>2
    <3> QED
      BY <3>2, <3>3
  <2> QED
    BY <2>1, <2>2, <2>3, <2>4, <2>7, <2>8
<1>9. CASE ~IsHuge(d, v)
  <2> DEFINE e == PutPage(d, i, j, k, Nil)
             a == v + 1
             c == [s EXCEPT !.dirs[i].pt[j].pt[k] = Nil, !.at = a]
  <2>1. a \in v + 1 .. end /\ E(d, v).kind = "table"
    BY <1>2, <1>9, Unmapped
  <2>2. UnmapOne(s, end) = FreeTables(c, v, a)
    <3> HIDE DEF s
    <3> QED
      BY <1>5, <1>6, <1>9
  <2>3. c = W(e, Counts(d), a)
    <3> HIDE DEF a
    <3>1. c = SetAt(s, PutPage(s.dirs, i, j, k, Nil), a)
      BY DEF SetAt, PutPage
    <3> QED
      BY <1>1, <3>1, WAt
  <2>4. /\ e \in Dirs /\ Counts(e) = Counts(d)
        /\ E(e, v).kind = "table" /\ e[i] # None
        /\ \A u \in Pages : Tr(e, u) = IF u = v THEN Nil ELSE Tr(d, u)
        /\ \A u \in Pages : IsHuge(e, u) => IsHuge(d, u)
    <3> DEFINE z == Nil
    <3>1. z \in Nat \union {Nil}
      OBVIOUS
    <3> HIDE DEF z
    <3>2. LET f == PutPage(d, i, j, k, z)
          IN /\ f \in Dirs /\ Counts(f) = Counts(d)
             /\ E(f, v).kind = "table" /\ f[i] # None
             /\ \A u \in Pages : Tr(f, u) = IF u = v THEN z ELSE Tr(d, u)
             /\ \A u \in Pages : IsHuge(f, u) => IsHuge(d, u)
      BY <2>1, <3>1, PutPageAt
    <3> QED
      BY <3>2 DEF z
  <2> HIDE DEF c, e
  <2>5. ASSUME NEW u \in Pages PROVE v <= u /\ u < a <=> u = v
    BY <1>2, Place
  <2> HIDE DEF a
  <2>6. PICK f \in Dirs :
                /\ FreeTables(W(e, Counts(e), a), v, a) = W(f, Counts(f), a)
                /\ \A u \in Pages : Tr(f, u) = Tr(e, u)
                /\ \A u \in Pages : IsHuge(f, u) => IsHuge(e, u)
    BY <1>7, <2>4
  <2> QED
    BY <2>1, <2>2, <2>3, <2>4, <2>5, <2>6
<1> QED
  BY <1>8, <1>9

-----------------------------------------------------------------------------
(* The walks *)

\* Some numbers have a least one, which stands for an induction.
LEMMA Least ==
  ASSUME NEW T, T \subseteq Nat, T # {}
  PROVE  \E m \in T : \A k \in T : m <= k
<1> DEFINE R0 == OpToRel(<, Nat)
<1>1. IsWellFoundedOn(R0, Nat)
  BY NatLessThanWellFounded
<1>2. \A a, b \in Nat : a < b => <<a, b>> \in R0
  BY DEF OpToRel
<1> HIDE DEF R0
<1>3. PICK m \in T : \A k \in T : ~(<<k, m>> \in R0)
  BY <1>1, WFMin
<1>4. \A k \in T : ~(k < m)
  BY <1>2, <1>3
<1> QED
  BY <1>3, <1>4

\* u begins with d and goes on by the function g, n times
Runs(u, n, d, g) == u[0] = d /\ \A i \in 1 .. n : u[i] = g[u[i - 1]][i]

\* There is such a run.
LEMMA RunExists ==
  ASSUME NEW n \in Nat, NEW D, NEW d \in D, NEW g,
         \A e \in D : \A i \in 1 .. n : g[e][i] \in D
  PROVE  \E u \in [0 .. n -> D] : Runs(u, n, d, g)
<1> DEFINE Has(m) == \E u \in [0 .. m -> D] : Runs(u, m, d, g)
           T == {m \in 0 .. n : ~Has(m)}
<1>1. CASE T = {}
  <2>1. n \in 0 .. n
    OBVIOUS
  <2> HIDE DEF Has
  <2>2. Has(n)
    BY <1>1, <2>1
  <2> QED
    BY <2>2 DEF Has
<1>2. CASE T # {}
  <2>1. T \subseteq Nat
    OBVIOUS
  <2> HIDE DEF T
  <2>2. PICK m \in T : \A k \in T : m <= k
    BY <1>2, <2>1, Least
  <2>3. m \in 0 .. n /\ ~Has(m)
    BY DEF T
  <2> HIDE DEF Has
  <2>4. CASE m = 0
    <3> DEFINE u == [i \in 0 .. 0 |-> d]
    <3>1. Runs(u, 0, d, g) /\ u \in [0 .. 0 -> D]
      BY DEF Runs
    <3> QED
      BY <2>3, <2>4, <3>1 DEF Has
  <2>5. CASE m # 0
    <3>1. m - 1 \in 0 .. n /\ m - 1 \notin T /\ m \in 1 .. n
      BY <2>2, <2>3, <2>5
    <3>2. Has(m - 1)
      BY <3>1 DEF T
    <3>3. PICK v \in [0 .. m - 1 -> D] : Runs(v, m - 1, d, g)
      BY <3>2 DEF Has
    <3> DEFINE u == [i \in 0 .. m |-> IF i = m THEN g[v[m - 1]][m] ELSE v[i]]
    <3>4. u \in [0 .. m -> D]
      <4>1. v[m - 1] \in D
        BY <3>1
      <4>2. g[v[m - 1]][m] \in D
        BY <3>1, <4>1
      <4>3. \A i \in 0 .. m : i # m => i \in 0 .. m - 1
        BY <3>1
      <4> QED
        BY <4>2, <4>3
    <3>5. u[0] = d
      BY <2>3, <2>5, <3>3 DEF Runs
    <3>6. ASSUME NEW i \in 1 .. m PROVE u[i] = g[u[i - 1]][i]
      <4>1. i \in 0 .. m /\ i - 1 \in 0 .. m /\ i - 1 # m
        BY <2>3
      <4>2. u[i - 1] = v[i - 1]
        BY <4>1
      <4>3. CASE i = m
        BY <4>1, <4>2, <4>3
      <4>4. CASE i # m
        <5>1. i \in 1 .. m - 1
          BY <2>3, <4>4
        <5> QED
          BY <3>3, <4>1, <4>2, <4>4, <5>1 DEF Runs
      <4> QED
        BY <4>3, <4>4
    <3> HIDE DEF u
    <3> QED
      BY <2>3, <3>4, <3>5, <3>6 DEF Has, Runs
  <2> QED
    BY <2>4, <2>5
<1> QED
  BY <1>1, <1>2

LEMMA BlockEnd ==
  ASSUME NEW v \in Pages, Ptei(v) = 0
  PROVE  v + PtLen - 1 \in Pages /\ Block(v + PtLen - 1) = Block(v)
<1> DEFINE b == Block(v)
           m == Pdpts * PdLen
           x == PtLen * b
           y == PtLen * m
<1>1. m \in Nat /\ Area = m * PtLen
  BY Sizes DEF Area
<1>2. b \in Nat /\ v \in Nat /\ v < Area /\ Area \in Nat /\ v = PtLen * b + 0
  BY Place
<1>3. b < m
  BY <1>1, <1>2, Sizes, DivLess DEF Block
<1> HIDE DEF b, m
<1>4. x + PtLen <= y
  BY <1>1, <1>2, <1>3, Sizes, Times
<1>5. x \in Nat /\ y \in Nat /\ Area = y /\ v = x
  BY <1>1, <1>2, Sizes
<1> HIDE DEF x, y
<1>6. v + PtLen - 1 \in 0 .. Area - 1 /\ v <= v + PtLen - 1 /\ v + PtLen - 1 < v + PtLen
  BY <1>4, <1>5, <1>2, Sizes
<1>7. v + PtLen - 1 \in Pages
  BY <1>6 DEF Pages
<1> DEFINE u == v + PtLen - 1
<1>8. u \in Pages /\ v <= u /\ u < v + PtLen
  BY <1>6, <1>7
<1> HIDE DEF u
<1>9. Block(u) = Block(v)
  BY <1>8, BlockIs
<1> QED
  BY <1>8, <1>9 DEF u

\* pagetable_mmio_map maps the pages asked for, and no other page.
LEMMA MapWalk ==
  ASSUME dirs \in Dirs, tables = Counts(dirs), NEW b \in Nat, NEW end \in Nat, b < end, end <= Area,
         NEW phys \in Nat, \A u \in b .. end - 1 : Tr(dirs, u) = Nil
  PROVE  \E e \in Dirs :
            /\ MapPages(b, end, phys) = W(e, Counts(e), end)
            /\ Turned(dirs, e, b, end, end, phys - b)
<1> DEFINE n == end - b
           offset == phys - b
           d0 == W(dirs, tables, b)
           At(a) == {W(e, Counts(e), a) : e \in {f \in Dirs : Turned(dirs, f, b, a, end, offset)}}
           D == UNION {At(a) : a \in b .. end}
           P(w) == [i \in 0 .. n |-> IF i = 0 THEN d0 ELSE MapOne(w[i - 1], end, offset)]
           r == CHOOSE w : w = P(w)
           g == [s \in D |-> [i \in 1 .. n |-> MapOne(s, end, offset)]]
<1>1. n \in Nat /\ offset \in Int /\ b \in b .. end /\ end \in b .. end /\ b + n = end
  OBVIOUS
<1>2. MapPages(b, end, phys) = r[n]
  BY DEF MapPages, W
<1>3. ASSUME NEW s \in D
      PROVE  \E a \in b .. end : \E e \in Dirs : s = W(e, Counts(e), a) /\ Turned(dirs, e, b, a, end, offset)
  OBVIOUS
<1>4. ASSUME NEW a \in b .. end, NEW e \in Dirs, Turned(dirs, e, b, a, end, offset)
      PROVE  W(e, Counts(e), a) \in D
  <2>1. W(e, Counts(e), a) \in At(a)
    BY <1>4
  <2> HIDE DEF At
  <2> QED
    BY <2>1
<1>5. d0 \in D /\ d0.at = b
  <2>1. Turned(dirs, dirs, b, b, end, offset)
    <3>1. \A u \in Pages : ~(b <= u /\ u < b)
      BY Place
    <3> QED
      BY <3>1 DEF Turned
  <2> HIDE DEF D
  <2> QED
    BY <1>1, <1>4, <2>1, WIs
<1> HIDE DEF D, n, offset, d0
<1>6. ASSUME NEW s \in D
      PROVE  LET t == MapOne(s, end, offset)
             IN t \in D /\ s.at \in b .. end /\ (t.at = end \/ t.at >= s.at + 1)
  <2>1. PICK a \in b .. end, e \in Dirs : s = W(e, Counts(e), a) /\ Turned(dirs, e, b, a, end, offset)
    BY <1>3
  <2>2. s.at = a
    BY <2>1, WIs
  <2>3. CASE a >= end
    <3>1. MapOne(s, end, offset) = s
      BY <2>2, <2>3 DEF MapOne
    <3>2. a = end
      BY <1>1, <2>3
    <3> QED
      BY <2>2, <3>1, <3>2
  <2>4. CASE ~(a >= end)
    <3>1. a \in Nat /\ a < end /\ a \in b .. end - 1
      BY <1>1, <2>4
    <3>2. a \in Pages
      BY <3>1, Sizes DEF Pages, Area
    <3>3. Tr(e, a) = Nil
      BY <2>1, <3>1, <3>2 DEF Turned
    <3>4. offset + a \in Nat
      BY <3>1 DEF offset
    <3>5. PICK f \in Dirs, c \in a + 1 .. end :
            /\ MapOne(W(e, Counts(e), a), end, offset) = W(f, Counts(f), c)
            /\ Turned(e, f, a, c, end, offset)
      BY <1>1, <3>1, <3>2, <3>3, <3>4, MapStep
    <3>6. Turned(dirs, f, b, c, end, offset)
      <4>1. ASSUME NEW u \in Pages
            PROVE  Tr(f, u) = IF b <= u /\ u < c THEN offset + u ELSE Tr(dirs, u)
        <5>1. u \in Nat
          BY Place
        <5>2. Tr(f, u) = IF a <= u /\ u < c THEN offset + u ELSE Tr(e, u)
          BY <3>5 DEF Turned
        <5>3. Tr(e, u) = IF b <= u /\ u < a THEN offset + u ELSE Tr(dirs, u)
          BY <2>1 DEF Turned
        <5> QED
          BY <3>1, <5>1, <5>2, <5>3
      <4>2. ASSUME NEW u \in Pages, IsHuge(f, u)
            PROVE  IsHuge(dirs, u) \/ \A q \in Pages : Block(q) = Block(u) => b <= q /\ q < end
        <5>1. IsHuge(e, u) \/ \A q \in Pages : Block(q) = Block(u) => a <= q /\ q < end
          BY <3>5, <4>2 DEF Turned
        <5>2. ASSUME NEW q \in Pages, a <= q PROVE b <= q
          BY <3>1, <5>2, Place
        <5>3. CASE IsHuge(e, u)
          BY <2>1, <5>3 DEF Turned
        <5> QED
          BY <5>1, <5>2, <5>3
      <4> QED
        BY <4>1, <4>2 DEF Turned
    <3>7. c \in b .. end
      BY <3>1
    <3>8. MapOne(s, end, offset) \in D /\ MapOne(s, end, offset).at = c
      BY <1>4, <2>1, <3>5, <3>6, <3>7, WIs
    <3> QED
      BY <2>2, <3>1, <3>8
  <2> QED
    BY <2>3, <2>4
<1>7. \A s \in D : \A i \in 1 .. n : g[s][i] = MapOne(s, end, offset) /\ g[s][i] \in D
  BY <1>6
<1> HIDE DEF g
<1>8. PICK u \in [0 .. n -> D] : Runs(u, n, d0, g)
  BY <1>1, <1>5, <1>7, RunExists
<1>9. u = P(u)
  <2>1. ASSUME NEW i \in 0 .. n, i # 0 PROVE u[i] = MapOne(u[i - 1], end, offset)
    <3>1. i \in 1 .. n /\ i - 1 \in 0 .. n
      BY <1>1, <2>1
    <3> QED
      BY <1>7, <1>8, <3>1 DEF Runs
  <2> QED
    BY <1>8, <2>1 DEF Runs
<1> HIDE DEF P
<1>10. r = P(r)
  BY <1>9
<1> HIDE DEF r
<1> DEFINE Has(i) == r[i] \in D /\ (r[i].at = end \/ r[i].at >= b + i)
<1>11. Has(0)
  <2>1. r[0] = d0
    BY <1>1, <1>10 DEF P
  <2> QED
    BY <1>5, <2>1
<1>12. ASSUME NEW i \in 1 .. n, Has(i - 1) PROVE Has(i)
  <2>1. r[i] = MapOne(r[i - 1], end, offset)
    <3>1. i \in 0 .. n /\ i # 0
      BY <1>1
    <3> QED
      BY <1>10, <3>1 DEF P
  <2>2. /\ r[i] \in D /\ r[i - 1].at \in b .. end
        /\ r[i].at = end \/ r[i].at >= r[i - 1].at + 1
    BY <1>6, <1>12, <2>1
  <2>3. r[i].at \in b .. end
    BY <1>6, <2>2
  <2> QED
    BY <1>1, <1>12, <2>2, <2>3
<1>13. Has(n)
  <2> DEFINE T == {m \in 0 .. n : ~Has(m)}
  <2>1. CASE T = {}
    <3>1. n \in 0 .. n
      BY <1>1
    <3> HIDE DEF Has
    <3> QED
      BY <2>1, <3>1
  <2>2. CASE T # {}
    <3>1. T \subseteq Nat
      OBVIOUS
    <3> HIDE DEF T, Has
    <3>2. PICK m \in T : \A k \in T : m <= k
      BY <2>2, <3>1, Least
    <3>3. m \in 0 .. n /\ ~Has(m)
      BY DEF T
    <3>4. m # 0
      BY <1>11, <3>3
    <3>5. m - 1 \in 0 .. n /\ m - 1 \notin T /\ m \in 1 .. n
      BY <1>1, <3>2, <3>3, <3>4
    <3>6. Has(m - 1)
      BY <3>5 DEF T
    <3> QED
      BY <1>12, <3>3, <3>5, <3>6
  <2> QED
    BY <2>1, <2>2
<1>14. r[n] \in D /\ r[n].at = end
  <2>1. r[n] \in D /\ r[n].at \in b .. end
    BY <1>6, <1>13
  <2> QED
    BY <1>1, <1>13, <2>1
<1>15. PICK a \in b .. end, e \in Dirs : r[n] = W(e, Counts(e), a) /\ Turned(dirs, e, b, a, end, offset)
  BY <1>3, <1>14
<1>16. a = end
  BY <1>14, <1>15, WIs
<1> QED
  BY <1>2, <1>15, <1>16 DEF offset

\* what a walk of pagetable_mmio_unmap from b on leaves when it has come to a
Cleared(d, e, b, a) ==
    /\ \A u \in Pages : Tr(e, u) = IF b <= u /\ u < a THEN Nil ELSE Tr(d, u)
    /\ \A u \in Pages : IsHuge(e, u) => IsHuge(d, u)

\* pagetable_mmio_unmap unmaps the pages of a mapping, and no other page.
LEMMA UnmapWalk ==
  ASSUME dirs \in Dirs, tables = Counts(dirs), NEW b \in Nat, NEW end \in Nat, b < end, end <= Area,
         \A u \in b .. end - 1 : Tr(dirs, u) # Nil,
         \A u \in b .. end - 1 : IsHuge(dirs, u) =>
            \A q \in Pages : Block(q) = Block(u) => b <= q /\ q < end
  PROVE  \E e \in Dirs :
            /\ UnmapPages(b, end) = W(e, Counts(e), end)
            /\ Cleared(dirs, e, b, end)
<1> DEFINE n == end - b
           d0 == W(dirs, tables, b)
           At(a) == {W(e, Counts(e), a) : e \in {f \in Dirs : Cleared(dirs, f, b, a)}}
           D == UNION {At(a) : a \in b .. end}
           P(w) == [i \in 0 .. n |-> IF i = 0 THEN d0 ELSE UnmapOne(w[i - 1], end)]
           r == CHOOSE w : w = P(w)
           g == [s \in D |-> [i \in 1 .. n |-> UnmapOne(s, end)]]
<1>1. n \in Nat /\ b \in b .. end /\ end \in b .. end /\ b + n = end
  OBVIOUS
<1>2. UnmapPages(b, end) = r[n]
  BY DEF UnmapPages, W
<1>3. ASSUME NEW s \in D
      PROVE  \E a \in b .. end : \E e \in Dirs : s = W(e, Counts(e), a) /\ Cleared(dirs, e, b, a)
  OBVIOUS
<1>4. ASSUME NEW a \in b .. end, NEW e \in Dirs, Cleared(dirs, e, b, a)
      PROVE  W(e, Counts(e), a) \in D
  <2>1. W(e, Counts(e), a) \in At(a)
    BY <1>4
  <2> HIDE DEF At
  <2> QED
    BY <2>1
<1>5. d0 \in D /\ d0.at = b
  <2>1. Cleared(dirs, dirs, b, b)
    <3>1. \A u \in Pages : ~(b <= u /\ u < b)
      BY Place
    <3> QED
      BY <3>1 DEF Cleared
  <2> HIDE DEF D
  <2> QED
    BY <1>1, <1>4, <2>1, WIs
<1> HIDE DEF D, n, d0
<1>6. ASSUME NEW s \in D
      PROVE  LET t == UnmapOne(s, end)
             IN t \in D /\ s.at \in b .. end /\ (t.at = end \/ t.at >= s.at + 1)
  <2>1. PICK a \in b .. end, e \in Dirs : s = W(e, Counts(e), a) /\ Cleared(dirs, e, b, a)
    BY <1>3
  <2>2. s.at = a
    BY <2>1, WIs
  <2>3. CASE a >= end
    <3>1. UnmapOne(s, end) = s
      BY <2>2, <2>3 DEF UnmapOne
    <3>2. a = end
      BY <1>1, <2>3
    <3> QED
      BY <2>2, <3>1, <3>2
  <2>4. CASE ~(a >= end)
    <3>1. a \in Nat /\ a < end /\ a \in b .. end - 1
      BY <1>1, <2>4
    <3>2. a \in Pages
      BY <3>1, Sizes DEF Pages, Area
    <3>3. Tr(e, a) = Tr(dirs, a) /\ Tr(e, a) # Nil
      BY <1>1, <2>1, <3>1, <3>2 DEF Cleared
    <3>4. ASSUME IsHuge(e, a) PROVE Ptei(a) = 0 /\ a + PtLen <= end
      <4>1. \A q \in Pages : Block(q) = Block(a) => b <= q /\ q < end
        BY <1>1, <2>1, <3>1, <3>2, <3>4 DEF Cleared
      <4>2. ASSUME Ptei(a) # 0 PROVE FALSE
        <5>1. a - 1 \in Pages /\ Block(a - 1) = Block(a)
          BY <3>2, <4>2, BlockBefore
        <5>2. b <= a - 1 /\ a - 1 < a
          BY <3>1, <4>1, <5>1
        <5>3. Tr(e, a - 1) = Nil
          BY <2>1, <5>1, <5>2 DEF Cleared
        <5>4. E(e, a - 1) = E(e, a)
          BY <3>2, <5>1, SamePlace DEF E
        <5>5. IsHuge(e, a - 1)
          BY <3>4, <5>4 DEF IsHuge
        <5> QED
          BY <5>1, <5>3, <5>5, Unmapped
      <4>3. a + PtLen - 1 \in Pages /\ Block(a + PtLen - 1) = Block(a)
        BY <3>2, <4>2, BlockEnd
      <4>4. a + PtLen - 1 < end
        BY <4>1, <4>3
      <4> QED
        BY <3>1, <4>2, <4>4, Sizes
    <3>5. PICK f \in Dirs, c \in a + 1 .. end :
            /\ UnmapOne(W(e, Counts(e), a), end) = W(f, Counts(f), c)
            /\ \A u \in Pages : Tr(f, u) = IF a <= u /\ u < c THEN Nil ELSE Tr(e, u)
            /\ \A u \in Pages : IsHuge(f, u) => IsHuge(e, u)
      BY <1>1, <3>1, <3>2, <3>3, <3>4, UnmapStep
    <3>6. Cleared(dirs, f, b, c)
      <4>1. ASSUME NEW u \in Pages
            PROVE  Tr(f, u) = IF b <= u /\ u < c THEN Nil ELSE Tr(dirs, u)
        <5>1. u \in Nat
          BY Place
        <5>2. Tr(f, u) = IF a <= u /\ u < c THEN Nil ELSE Tr(e, u)
          BY <3>5
        <5>3. Tr(e, u) = IF b <= u /\ u < a THEN Nil ELSE Tr(dirs, u)
          BY <2>1 DEF Cleared
        <5> QED
          BY <3>1, <5>1, <5>2, <5>3
      <4>2. \A u \in Pages : IsHuge(f, u) => IsHuge(dirs, u)
        BY <2>1, <3>5 DEF Cleared
      <4> QED
        BY <4>1, <4>2 DEF Cleared
    <3>7. c \in b .. end
      BY <3>1
    <3>8. UnmapOne(s, end) \in D /\ UnmapOne(s, end).at = c
      BY <1>4, <2>1, <3>5, <3>6, <3>7, WIs
    <3> QED
      BY <2>2, <3>1, <3>8
  <2> QED
    BY <2>3, <2>4
<1>7. \A s \in D : \A i \in 1 .. n : g[s][i] = UnmapOne(s, end) /\ g[s][i] \in D
  BY <1>6
<1> HIDE DEF g
<1>8. PICK u \in [0 .. n -> D] : Runs(u, n, d0, g)
  BY <1>1, <1>5, <1>7, RunExists
<1>9. u = P(u)
  <2>1. ASSUME NEW i \in 0 .. n, i # 0 PROVE u[i] = UnmapOne(u[i - 1], end)
    <3>1. i \in 1 .. n /\ i - 1 \in 0 .. n
      BY <1>1, <2>1
    <3> QED
      BY <1>7, <1>8, <3>1 DEF Runs
  <2> QED
    BY <1>8, <2>1 DEF Runs
<1> HIDE DEF P
<1>10. r = P(r)
  BY <1>9
<1> HIDE DEF r
<1> DEFINE Has(i) == r[i] \in D /\ (r[i].at = end \/ r[i].at >= b + i)
<1>11. Has(0)
  <2>1. r[0] = d0
    BY <1>1, <1>10 DEF P
  <2> QED
    BY <1>5, <2>1
<1>12. ASSUME NEW i \in 1 .. n, Has(i - 1) PROVE Has(i)
  <2>1. r[i] = UnmapOne(r[i - 1], end)
    <3>1. i \in 0 .. n /\ i # 0
      BY <1>1
    <3> QED
      BY <1>10, <3>1 DEF P
  <2>2. /\ r[i] \in D /\ r[i - 1].at \in b .. end
        /\ r[i].at = end \/ r[i].at >= r[i - 1].at + 1
    BY <1>6, <1>12, <2>1
  <2>3. r[i].at \in b .. end
    BY <1>6, <2>2
  <2> QED
    BY <1>1, <1>12, <2>2, <2>3
<1>13. Has(n)
  <2> DEFINE T == {m \in 0 .. n : ~Has(m)}
  <2>1. CASE T = {}
    <3>1. n \in 0 .. n
      BY <1>1
    <3> HIDE DEF Has
    <3> QED
      BY <2>1, <3>1
  <2>2. CASE T # {}
    <3>1. T \subseteq Nat
      OBVIOUS
    <3> HIDE DEF T, Has
    <3>2. PICK m \in T : \A k \in T : m <= k
      BY <2>2, <3>1, Least
    <3>3. m \in 0 .. n /\ ~Has(m)
      BY DEF T
    <3>4. m # 0
      BY <1>11, <3>3
    <3>5. m - 1 \in 0 .. n /\ m - 1 \notin T /\ m \in 1 .. n
      BY <1>1, <3>2, <3>3, <3>4
    <3>6. Has(m - 1)
      BY <3>5 DEF T
    <3> QED
      BY <1>12, <3>3, <3>5, <3>6
  <2> QED
    BY <2>1, <2>2
<1>14. r[n] \in D /\ r[n].at = end
  <2>1. r[n] \in D /\ r[n].at \in b .. end
    BY <1>6, <1>13
  <2> QED
    BY <1>1, <1>13, <2>1
<1>15. PICK a \in b .. end, e \in Dirs : r[n] = W(e, Counts(e), a) /\ Cleared(dirs, e, b, a)
  BY <1>3, <1>14
<1>16. a = end
  BY <1>14, <1>15, WIs
<1> QED
  BY <1>2, <1>15, <1>16

-----------------------------------------------------------------------------
(* The inductive invariant *)

\* the page v is in a free area, in a mapping
Covers(f, v) == \E i \in 1 .. Len(f) : v \in Span(f[i])
Mapped(v) == \E r \in live : v \in Span(r)

Mapping == {r \in [b : Nat, e : Nat, phys : Nat] : r.b < r.e /\ r.e <= Area}

\* free areas in their order, none empty and no two touching
Listed(f) ==
    /\ f \in Seq(Interval)
    /\ \A i \in 1 .. Len(f) : f[i].b < f[i].e
    /\ \A i \in 1 .. Len(f) - 1 : f[i].e < f[i + 1].b

LiveOK ==
    /\ live \subseteq Mapping /\ IsFiniteSet(live)
    /\ \A q, r \in live : \A v \in Pages : v \in Span(q) /\ v \in Span(r) => q = r

\* Every page is either free or mapped.
SharedOut == \A v \in Pages : Covers(free, v) <=> ~Mapped(v)

TreeOK ==
    /\ dirs \in Dirs /\ tables = Counts(dirs)
    /\ \A r \in live : \A v \in Span(r) : Tr(dirs, v) = r.phys + v - r.b
    /\ \A v \in Pages : ~Mapped(v) => Tr(dirs, v) = Nil

\* No huge page goes over the end of its mapping: unmapping takes whole blocks.
HugeWhole ==
    \A p \in Pages : IsHuge(dirs, p) =>
       \E r \in live : \A q \in Pages : Block(q) = Block(p) => q \in Span(r)

Halts ==
    /\ halted \in {"no", "run_out", "invalid_address", "fragmented"}
    /\ NoFalseAlarm

IInv == /\ Listed(free) /\ Len(free) <= Nodes
        /\ LiveOK /\ SharedOut /\ TreeOK /\ HugeWhole /\ Halts

-----------------------------------------------------------------------------
(* The free list *)

LEMMA AreaNat == Area \in Nat
<1>1. Pdpts * PdLen \in Nat
  BY Sizes
<1> QED
  BY <1>1, Sizes DEF Area

LEMMA IntervalIs ==
  ASSUME NEW x \in Interval
  PROVE  x.b \in 0 .. Area /\ x.e \in 0 .. Area /\ x = I(x.b, x.e)
BY DEF Interval, I

LEMMA IIs ==
  ASSUME NEW b \in 0 .. Area, NEW e \in 0 .. Area
  PROVE  I(b, e) \in Interval /\ I(b, e).b = b /\ I(b, e).e = e
BY DEF Interval, I

LEMMA SpanIs ==
  ASSUME NEW x, x.b \in Nat, x.e \in Nat, NEW v \in Int
  PROVE  v \in Span(x) <=> x.b <= v /\ v < x.e
BY DEF Span

LEMMA RemoveAtIs ==
  ASSUME NEW S, NEW f \in Seq(S), NEW i \in 1 .. Len(f)
  PROVE  /\ RemoveAt(f, i) \in Seq(S) /\ Len(RemoveAt(f, i)) = Len(f) - 1
         /\ \A k \in 1 .. Len(f) - 1 : RemoveAt(f, i)[k] = IF k < i THEN f[k] ELSE f[k + 1]
<1> DEFINE n == Len(f)
           s == SubSeq(f, 1, i - 1)
           t == SubSeq(f, i + 1, n)
<1>1. n \in Nat /\ i \in 1 .. n /\ i \in Int
  BY LenProperties
<1>2. s \in Seq(S) /\ Len(s) = i - 1 /\ \A k \in 1 .. i - 1 : s[k] = f[k]
  BY <1>1, SubSeqProperties
<1>3. t \in Seq(S) /\ Len(t) = n - i /\ \A k \in 1 .. n - i : t[k] = f[i + k]
  BY <1>1, SubSeqProperties
<1>4. RemoveAt(f, i) = s \o t
  BY DEF RemoveAt
<1> HIDE DEF n, s, t
<1>5. s \o t \in Seq(S) /\ Len(s \o t) = n - 1
  <2>1. s \o t \in Seq(S) /\ Len(s \o t) = Len(s) + Len(t)
    BY <1>2, <1>3, ConcatProperties
  <2> QED
    BY <1>1, <1>2, <1>3, <2>1
<1>6. ASSUME NEW k \in 1 .. n - 1
      PROVE  (s \o t)[k] = IF k < i THEN f[k] ELSE f[k + 1]
  <2>1. k \in 1 .. Len(s) + Len(t) /\ (s \o t)[k] = IF k <= Len(s) THEN s[k] ELSE t[k - Len(s)]
    BY <1>1, <1>2, <1>3, ConcatProperties
  <2>2. CASE k < i
    BY <1>1, <1>2, <2>1, <2>2
  <2>3. CASE ~(k < i)
    <3> DEFINE l == k - (i - 1)
    <3>1. l \in 1 .. n - i /\ i + l = k + 1 /\ ~(k <= i - 1)
      BY <1>1, <2>3
    <3>2. (s \o t)[k] = t[l]
      BY <1>2, <2>1, <3>1
    <3> HIDE DEF l
    <3> QED
      BY <1>3, <2>3, <3>1, <3>2
  <2> QED
    BY <2>2, <2>3
<1> QED
  BY <1>4, <1>5, <1>6 DEF n

LEMMA InsertAtIs ==
  ASSUME NEW S, NEW f \in Seq(S), NEW i \in 1 .. Len(f), NEW x \in S
  PROVE  /\ InsertAt(f, i, x) \in Seq(S) /\ Len(InsertAt(f, i, x)) = Len(f) + 1
         /\ \A k \in 1 .. Len(f) + 1 :
               InsertAt(f, i, x)[k] = IF k < i THEN f[k] ELSE IF k = i THEN x ELSE f[k - 1]
<1> DEFINE n == Len(f)
           s == SubSeq(f, 1, i - 1)
           m == <<x>>
           t == SubSeq(f, i, n)
           u == s \o m
<1>1. n \in Nat /\ i \in 1 .. n /\ i \in Int
  BY LenProperties
<1>2. s \in Seq(S) /\ Len(s) = i - 1 /\ \A k \in 1 .. i - 1 : s[k] = f[k]
  BY <1>1, SubSeqProperties
<1>3. t \in Seq(S) /\ Len(t) = n - i + 1 /\ \A k \in 1 .. n - i + 1 : t[k] = f[i + k - 1]
  BY <1>1, SubSeqProperties
<1>4. m \in Seq(S) /\ Len(m) = 1 /\ m[1] = x
  OBVIOUS
<1>5. InsertAt(f, i, x) = u \o t
  BY DEF InsertAt
<1> HIDE DEF n, s, t, m
<1>6. u \in Seq(S) /\ Len(u) = i /\ u[i] = x /\ \A k \in 1 .. i - 1 : u[k] = f[k]
  <2>1. u \in Seq(S) /\ Len(u) = i
    <3>1. u \in Seq(S) /\ Len(u) = Len(s) + Len(m)
      BY <1>2, <1>4, ConcatProperties
    <3> QED
      BY <1>1, <1>2, <1>4, <3>1
  <2>2. ASSUME NEW k \in 1 .. i PROVE u[k] = IF k <= i - 1 THEN s[k] ELSE m[k - (i - 1)]
    BY <1>1, <1>2, <1>4, ConcatProperties
  <2>3. u[i] = x
    <3>1. i \in 1 .. i /\ ~(i <= i - 1) /\ i - (i - 1) = 1
      BY <1>1
    <3> QED
      BY <1>4, <2>2, <3>1
  <2>4. ASSUME NEW k \in 1 .. i - 1 PROVE u[k] = f[k]
    BY <1>1, <1>2, <2>2
  <2> QED
    BY <2>1, <2>3, <2>4
<1> HIDE DEF u
<1>7. u \o t \in Seq(S) /\ Len(u \o t) = n + 1
  <2>1. u \o t \in Seq(S) /\ Len(u \o t) = Len(u) + Len(t)
    BY <1>3, <1>6, ConcatProperties
  <2> QED
    BY <1>1, <1>3, <1>6, <2>1
<1>8. ASSUME NEW k \in 1 .. n + 1
      PROVE  (u \o t)[k] = IF k < i THEN f[k] ELSE IF k = i THEN x ELSE f[k - 1]
  <2>1. (u \o t)[k] = IF k <= Len(u) THEN u[k] ELSE t[k - Len(u)]
    BY <1>1, <1>3, <1>6, ConcatProperties
  <2>2. CASE k <= i
    BY <1>1, <1>6, <2>1, <2>2
  <2>3. CASE ~(k <= i)
    <3> DEFINE l == k - i
    <3>1. l \in 1 .. n - i + 1 /\ i + l - 1 = k - 1 /\ ~(k <= i) /\ ~(k < i) /\ k # i
      BY <1>1, <2>3
    <3>2. (u \o t)[k] = t[l]
      BY <1>6, <2>1, <3>1
    <3> HIDE DEF l
    <3> QED
      BY <1>3, <3>1, <3>2
  <2> QED
    BY <2>2, <2>3
<1> QED
  BY <1>5, <1>7, <1>8 DEF n

\* The areas of the list are apart, not only neighbours.
LEMMA Apart ==
  ASSUME NEW f, Listed(f), NEW i \in 1 .. Len(f), NEW j \in 1 .. Len(f), i < j
  PROVE  f[i].e < f[j].b
<1> DEFINE n == Len(f)
           T == {k \in i + 1 .. n : ~(f[i].e < f[k].b)}
<1>1. n \in Nat /\ \A k \in 1 .. n : f[k] \in Interval
  BY LenProperties, ElementOfSeq DEF Listed
<1>2. \A k \in 1 .. n : f[k].b \in Nat /\ f[k].e \in Nat /\ f[k].b < f[k].e
  BY <1>1, AreaNat, IntervalIs DEF Listed
<1>3. \A k \in 1 .. n - 1 : f[k].e < f[k + 1].b
  BY DEF Listed
<1> HIDE DEF n
<1>4. ASSUME T # {} PROVE FALSE
  <2>1. T \subseteq Nat
    BY <1>1
  <2> HIDE DEF T
  <2>2. PICK m \in T : \A k \in T : m <= k
    BY <1>4, <2>1, Least
  <2>3. m \in i + 1 .. n /\ ~(f[i].e < f[m].b)
    BY DEF T
  <2>4. m # i + 1
    BY <1>1, <1>3, <2>3 DEF n
  <2>5. m - 1 \in i + 1 .. n /\ m - 1 \notin T /\ m - 1 \in 1 .. n - 1 /\ m \in 1 .. n /\ m - 1 + 1 = m
    BY <1>1, <2>2, <2>3, <2>4
  <2>6. f[i].e < f[m - 1].b
    BY <2>5 DEF T
  <2>7. f[m - 1].e < f[m].b
    BY <1>3, <2>5
  <2>8. f[m - 1].b < f[m - 1].e /\ f[m - 1].b \in Nat /\ f[m - 1].e \in Nat /\ f[m].b \in Nat /\ f[i].e \in Nat
    BY <1>1, <1>2, <2>5 DEF n
  <2>9. \A p, q, r, s \in Nat : p < q /\ q < r /\ r < s => p < s
    OBVIOUS
  <2> QED
    BY <2>3, <2>6, <2>7, <2>8, <2>9
<1>5. j \in i + 1 .. n /\ j \notin T
  BY <1>1, <1>4 DEF n
<1> QED
  BY <1>5

LEMMA ListIs ==
  ASSUME NEW f, Listed(f)
  PROVE  /\ Len(f) \in Nat /\ f \in Seq(Interval) /\ DOMAIN f = 1 .. Len(f)
         /\ \A k \in 1 .. Len(f) : /\ f[k] \in Interval /\ f[k].b \in Nat /\ f[k].e \in Nat
                                   /\ f[k].b < f[k].e /\ f[k].e <= Area
         /\ \A i, j \in 1 .. Len(f) : i < j => f[i].e < f[j].b
<1>1. Len(f) \in Nat /\ f \in Seq(Interval) /\ DOMAIN f = 1 .. Len(f)
  BY LenProperties DEF Listed
<1>2. ASSUME NEW k \in 1 .. Len(f)
      PROVE  /\ f[k] \in Interval /\ f[k].b \in Nat /\ f[k].e \in Nat
             /\ f[k].b < f[k].e /\ f[k].e <= Area
  <2>1. f[k] \in Interval
    BY <1>1, ElementOfSeq
  <2>2. f[k].b < f[k].e
    BY DEF Listed
  <2> QED
    BY <2>1, <2>2, AreaNat, IntervalIs
<1>3. \A i, j \in 1 .. Len(f) : i < j => f[i].e < f[j].b
  BY Apart
<1> QED
  BY <1>1, <1>2, <1>3

\* the pages the areas of a list have
LEMMA CoversIs ==
  ASSUME NEW f, Listed(f), NEW v \in Pages
  PROVE  Covers(f, v) <=> \E k \in 1 .. Len(f) : f[k].b <= v /\ v < f[k].e
<1>1. v \in Int
  BY Place
<1>2. \A k \in 1 .. Len(f) : v \in Span(f[k]) <=> f[k].b <= v /\ v < f[k].e
  BY <1>1, ListIs, SpanIs
<1> QED
  BY <1>2 DEF Covers

\* area i of the list with other bounds
Put(f, i, x) == [f EXCEPT ![i] = x]

LEMMA PutIs ==
  ASSUME NEW f \in Seq(Interval), NEW i \in 1 .. Len(f), NEW x \in Interval
  PROVE  /\ Put(f, i, x) \in Seq(Interval) /\ Len(Put(f, i, x)) = Len(f)
         /\ \A k \in 1 .. Len(f) : Put(f, i, x)[k] = IF k = i THEN x ELSE f[k]
BY ExceptSeq DEF Put

\* area i of the list with another beginning, with another end
PutB(f, i, w) == [f EXCEPT ![i].b = w]
PutE(f, i, w) == [f EXCEPT ![i].e = w]

LEMMA PutBound ==
  ASSUME NEW f \in Seq(Interval), NEW i \in 1 .. Len(f), NEW w \in 0 .. Area
  PROVE  /\ PutB(f, i, w) = Put(f, i, I(w, f[i].e))
         /\ PutE(f, i, w) = Put(f, i, I(f[i].b, w))
<1>1. f[i] = [b |-> f[i].b, e |-> f[i].e]
  BY ElementOfSeq, IntervalIs DEF I
<1>2. [f[i] EXCEPT !.b = w] = I(w, f[i].e) /\ [f[i] EXCEPT !.e = w] = I(f[i].b, w)
  BY <1>1 DEF I
<1>3. [f EXCEPT ![i].b = w] = [f EXCEPT ![i] = [f[i] EXCEPT !.b = w]]
      /\ [f EXCEPT ![i].e = w] = [f EXCEPT ![i] = [f[i] EXCEPT !.e = w]]
  OBVIOUS
<1> QED
  BY <1>2, <1>3 DEF Put, PutB, PutE

\* An area given bounds that stay apart from its neighbours leaves a list.
LEMMA PutListed ==
  ASSUME NEW f, Listed(f), NEW i \in 1 .. Len(f), NEW x \in Interval, x.b < x.e,
         i > 1 => f[i - 1].e < x.b, i < Len(f) => x.e < f[i + 1].b
  PROVE  /\ Listed(Put(f, i, x)) /\ Len(Put(f, i, x)) = Len(f)
         /\ \A v \in Pages : Covers(Put(f, i, x), v) <=>
               (x.b <= v /\ v < x.e) \/ \E k \in 1 .. Len(f) : k # i /\ f[k].b <= v /\ v < f[k].e
<1> DEFINE n == Len(f)
           g == Put(f, i, x)
<1>1. n \in Nat /\ f \in Seq(Interval)
  BY ListIs
<1>2. g \in Seq(Interval) /\ Len(g) = n /\ \A k \in 1 .. n : g[k] = IF k = i THEN x ELSE f[k]
  BY <1>1, PutIs
<1>3. \A k \in 1 .. n : f[k].b < f[k].e
  BY ListIs
<1>4. \A k \in 1 .. n - 1 : f[k].e < f[k + 1].b
  BY DEF Listed
<1>5. i \in 1 .. n /\ (i < n => x.e < f[i + 1].b)
  OBVIOUS
<1> HIDE DEF n, g
<1>6. \A k \in 1 .. n : g[k].b < g[k].e
  BY <1>2, <1>3
<1>7. ASSUME NEW k \in 1 .. n - 1 PROVE g[k].e < g[k + 1].b
  <2>1. k \in 1 .. n /\ k + 1 \in 1 .. n /\ k # k + 1 /\ k + 1 - 1 = k
    BY <1>1
  <2>2. g[k] = (IF k = i THEN x ELSE f[k]) /\ g[k + 1] = IF k + 1 = i THEN x ELSE f[k + 1]
    BY <1>2, <2>1
  <2>3. CASE k = i
    BY <1>1, <1>5, <2>1, <2>2, <2>3
  <2>4. CASE k + 1 = i
    BY <1>1, <1>5, <2>1, <2>2, <2>4
  <2>5. CASE k # i /\ k + 1 # i
    BY <1>4, <2>2, <2>5
  <2> QED
    BY <2>3, <2>4, <2>5
<1>8. Listed(g)
  BY <1>2, <1>6, <1>7 DEF Listed
<1>9. ASSUME NEW v \in Pages
      PROVE  Covers(g, v) <=> (x.b <= v /\ v < x.e) \/ \E k \in 1 .. n : k # i /\ f[k].b <= v /\ v < f[k].e
  <2>1. Covers(g, v) <=> \E k \in 1 .. n : g[k].b <= v /\ v < g[k].e
    BY <1>2, <1>8, CoversIs
  <2>2. \A k \in 1 .. n : k # i => g[k] = f[k]
    BY <1>2
  <2>3. g[i] = x
    BY <1>2, <1>5
  <2> QED
    BY <1>5, <2>1, <2>2, <2>3
<1> QED
  BY <1>2, <1>8, <1>9 DEF n, g

\* An area taken out leaves a list.
LEMMA RemoveListed ==
  ASSUME NEW f, Listed(f), NEW i \in 1 .. Len(f)
  PROVE  /\ Listed(RemoveAt(f, i)) /\ Len(RemoveAt(f, i)) = Len(f) - 1
         /\ \A v \in Pages : Covers(RemoveAt(f, i), v) <=>
               \E k \in 1 .. Len(f) : k # i /\ f[k].b <= v /\ v < f[k].e
<1> DEFINE n == Len(f)
           g == RemoveAt(f, i)
<1>1. n \in Nat /\ f \in Seq(Interval) /\ i \in 1 .. n
  BY ListIs
<1>2. g \in Seq(Interval) /\ Len(g) = n - 1
      /\ \A k \in 1 .. n - 1 : g[k] = IF k < i THEN f[k] ELSE f[k + 1]
  BY <1>1, RemoveAtIs
<1>3. \A k \in 1 .. n : f[k].b < f[k].e
  BY ListIs
<1>4. \A k, l \in 1 .. n : k < l => f[k].e < f[l].b
  BY ListIs
<1> HIDE DEF n, g
<1>5. \A k \in 1 .. n - 1 : g[k].b < g[k].e
  <2>1. \A k \in 1 .. n - 1 : k \in 1 .. n /\ k + 1 \in 1 .. n
    BY <1>1
  <2> QED
    BY <1>2, <1>3, <2>1
<1>6. ASSUME NEW k \in 1 .. (n - 1) - 1 PROVE g[k].e < g[k + 1].b
  <2>1. k \in 1 .. n - 1 /\ k + 1 \in 1 .. n - 1 /\ k \in 1 .. n /\ k + 1 \in 1 .. n /\ k + 1 + 1 \in 1 .. n
        /\ k < k + 1 /\ k < k + 1 + 1 /\ k + 1 < k + 1 + 1
    BY <1>1
  <2>2. g[k] = (IF k < i THEN f[k] ELSE f[k + 1])
        /\ g[k + 1] = IF k + 1 < i THEN f[k + 1] ELSE f[k + 1 + 1]
    BY <1>2, <2>1
  <2>3. k + 1 < i => k < i
    BY <1>1
  <2> QED
    BY <1>4, <2>1, <2>2, <2>3
<1>7. Listed(g)
  BY <1>2, <1>5, <1>6 DEF Listed
<1>8. ASSUME NEW v \in Pages
      PROVE  Covers(g, v) <=> \E k \in 1 .. n : k # i /\ f[k].b <= v /\ v < f[k].e
  <2>1. Covers(g, v) <=> \E k \in 1 .. n - 1 : g[k].b <= v /\ v < g[k].e
    BY <1>2, <1>7, CoversIs
  <2>2. ASSUME NEW k \in 1 .. n - 1, g[k].b <= v /\ v < g[k].e
        PROVE  \E l \in 1 .. n : l # i /\ f[l].b <= v /\ v < f[l].e
    <3>1. k \in 1 .. n /\ k + 1 \in 1 .. n /\ (k < i => k # i) /\ (~(k < i) => k + 1 # i)
      BY <1>1
    <3> QED
      BY <1>2, <2>2, <3>1
  <2>3. ASSUME NEW l \in 1 .. n, l # i /\ f[l].b <= v /\ v < f[l].e
        PROVE  \E k \in 1 .. n - 1 : g[k].b <= v /\ v < g[k].e
    <3>1. CASE l < i
      <4>1. l \in 1 .. n - 1
        BY <1>1, <3>1
      <4> QED
        BY <1>2, <2>3, <3>1, <4>1
    <3>2. CASE ~(l < i)
      <4>1. l - 1 \in 1 .. n - 1 /\ ~(l - 1 < i) /\ l - 1 + 1 = l
        BY <1>1, <2>3, <3>2
      <4>2. g[l - 1] = f[l]
        BY <1>2, <4>1
      <4> QED
        BY <2>3, <4>1, <4>2
    <3> QED
      BY <3>1, <3>2
  <2> QED
    BY <2>1, <2>2, <2>3
<1> QED
  BY <1>2, <1>7, <1>8 DEF n, g

\* An area put between two, apart from both, leaves a list.
LEMMA InsertListed ==
  ASSUME NEW f, Listed(f), NEW i \in 1 .. Len(f), NEW x \in Interval, x.b < x.e,
         i > 1 => f[i - 1].e < x.b, x.e < f[i].b
  PROVE  /\ Listed(InsertAt(f, i, x)) /\ Len(InsertAt(f, i, x)) = Len(f) + 1
         /\ \A v \in Pages : Covers(InsertAt(f, i, x), v) <=> Covers(f, v) \/ (x.b <= v /\ v < x.e)
<1> DEFINE n == Len(f)
           g == InsertAt(f, i, x)
<1>1. n \in Nat /\ f \in Seq(Interval) /\ i \in 1 .. n
  BY ListIs
<1>2. g \in Seq(Interval) /\ Len(g) = n + 1
      /\ \A k \in 1 .. n + 1 : g[k] = IF k < i THEN f[k] ELSE IF k = i THEN x ELSE f[k - 1]
  BY <1>1, InsertAtIs
<1>3. \A k \in 1 .. n : f[k].b < f[k].e
  BY ListIs
<1>4. \A k \in 1 .. n - 1 : f[k].e < f[k + 1].b
  BY DEF Listed
<1> HIDE DEF n, g
<1>5. ASSUME NEW k \in 1 .. n + 1 PROVE g[k].b < g[k].e
  <2>1. (k < i => k \in 1 .. n) /\ (~(k < i) /\ k # i => k - 1 \in 1 .. n)
    BY <1>1
  <2> QED
    BY <1>2, <1>3, <2>1
<1>6. ASSUME NEW k \in 1 .. (n + 1) - 1 PROVE g[k].e < g[k + 1].b
  <2>1. k \in 1 .. n + 1 /\ k + 1 \in 1 .. n + 1 /\ k + 1 - 1 = k
    BY <1>1
  <2>2. /\ g[k] = IF k < i THEN f[k] ELSE IF k = i THEN x ELSE f[k - 1]
        /\ g[k + 1] = IF k + 1 < i THEN f[k + 1] ELSE IF k + 1 = i THEN x ELSE f[k]
    <3>1. g[k + 1] = IF k + 1 < i THEN f[k + 1] ELSE IF k + 1 = i THEN x ELSE f[k + 1 - 1]
      BY <1>2, <2>1
    <3> QED
      BY <1>2, <2>1, <3>1
  <2>3. CASE k + 1 < i
    <3>1. k < i /\ k \in 1 .. n - 1
      BY <1>1, <2>3
    <3> QED
      BY <1>4, <2>2, <2>3, <3>1
  <2>4. CASE k + 1 = i
    <3>1. k < i /\ i > 1 /\ i - 1 = k /\ ~(k + 1 < i)
      BY <1>1, <2>4
    <3> QED
      BY <2>2, <2>4, <3>1
  <2>5. CASE k = i
    <3>1. ~(k + 1 < i) /\ k + 1 # i /\ ~(k < i)
      BY <1>1, <2>5
    <3> QED
      BY <2>2, <2>5, <3>1
  <2>6. CASE k > i
    <3>1. ~(k + 1 < i) /\ k + 1 # i /\ ~(k < i) /\ k # i /\ k - 1 \in 1 .. n - 1 /\ k - 1 + 1 = k
      BY <1>1, <2>6
    <3> QED
      BY <1>4, <2>2, <3>1
  <2>7. k + 1 < i \/ k + 1 = i \/ k = i \/ k > i
    BY <1>1
  <2> QED
    BY <2>3, <2>4, <2>5, <2>6, <2>7
<1>7. Listed(g)
  BY <1>2, <1>5, <1>6 DEF Listed
<1>8. ASSUME NEW v \in Pages
      PROVE  Covers(g, v) <=> Covers(f, v) \/ (x.b <= v /\ v < x.e)
  <2>1. Covers(g, v) <=> \E k \in 1 .. n + 1 : g[k].b <= v /\ v < g[k].e
    BY <1>2, <1>7, CoversIs
  <2>2. Covers(f, v) <=> \E k \in 1 .. n : f[k].b <= v /\ v < f[k].e
    BY CoversIs DEF n
  <2>3. i \in 1 .. n + 1 /\ g[i] = x
    <3>1. i \in 1 .. n + 1 /\ ~(i < i)
      BY <1>1
    <3> QED
      BY <1>2, <3>1
  <2>4. ASSUME NEW k \in 1 .. n + 1, k # i PROVE \E l \in 1 .. n : g[k] = f[l]
    <3>1. (k < i => k \in 1 .. n) /\ (~(k < i) => k - 1 \in 1 .. n)
      BY <1>1, <2>4
    <3> QED
      BY <1>2, <2>4, <3>1
  <2>5. ASSUME NEW l \in 1 .. n PROVE \E k \in 1 .. n + 1 : g[k] = f[l]
    <3>1. CASE l < i
      <4>1. l \in 1 .. n + 1
        BY <1>1
      <4> QED
        BY <1>2, <3>1, <4>1
    <3>2. CASE ~(l < i)
      <4>1. l + 1 \in 1 .. n + 1 /\ ~(l + 1 < i) /\ l + 1 # i /\ l + 1 - 1 = l
        BY <1>1, <3>2
      <4>2. g[l + 1] = f[l]
        BY <1>2, <4>1
      <4> QED
        BY <4>1, <4>2
    <3> QED
      BY <3>1, <3>2
  <2> QED
    BY <2>1, <2>2, <2>3, <2>4, <2>5
<1> QED
  BY <1>2, <1>7, <1>8 DEF n, g

\* The list when the first n pages of area i are taken.
LEMMA TakenFrom ==
  ASSUME NEW f, Listed(f), NEW i \in 1 .. Len(f), NEW n \in Nat, n >= 1, f[i].e - f[i].b >= n
  PROVE  LET g == IF f[i].e - f[i].b = n THEN RemoveAt(f, i) ELSE [f EXCEPT ![i].b = f[i].b + n]
         IN /\ Listed(g) /\ Len(g) <= Len(f)
            /\ \A v \in Pages : Covers(g, v) <=> Covers(f, v) /\ ~(f[i].b <= v /\ v < f[i].b + n)
<1> DEFINE w == f[i].b + n
           x == I(w, f[i].e)
           p == RemoveAt(f, i)
           q == Put(f, i, x)
<1>1. /\ Len(f) \in Nat /\ f \in Seq(Interval)
      /\ f[i].b \in Nat /\ f[i].e \in Nat /\ f[i].b < f[i].e /\ f[i].e <= Area
      /\ \A k \in 1 .. Len(f) : f[k].b \in Nat /\ f[k].e \in Nat
      /\ \A k, l \in 1 .. Len(f) : k < l => f[k].e < f[l].b
  BY ListIs
<1>2. w \in 0 .. Area /\ w <= f[i].e /\ f[i].b <= w
  BY <1>1, AreaNat
<1>3. \A k \in 1 .. Len(f) : \A v \in Int :
         k # i /\ f[k].b <= v /\ v < f[k].e => ~(f[i].b <= v /\ v < f[i].e)
  <2>1. ASSUME NEW k \in 1 .. Len(f), NEW v \in Int, k # i, f[k].b <= v, v < f[k].e,
               f[i].b <= v, v < f[i].e
        PROVE  FALSE
    <3>1. f[k].b \in Nat /\ f[k].e \in Nat /\ f[i].b \in Nat /\ f[i].e \in Nat
      BY <1>1
    <3>2. f[k].e < f[i].b \/ f[i].e < f[k].b
      <4>1. k < i \/ i < k
        BY <1>1, <2>1
      <4> QED
        BY <1>1, <4>1
    <3>3. \A a, b, c, d \in Nat : a <= v /\ v < b /\ c <= v /\ v < d => ~(b < c) /\ ~(d < a)
      OBVIOUS
    <3> QED
      BY <2>1, <3>1, <3>2, <3>3
  <2> QED
    BY <2>1
<1>4. \A v \in Pages : v \in Int
  BY Place
<1>5. CASE f[i].e - f[i].b = n
  <2>1. w = f[i].e
    BY <1>1, <1>5
  <2>2. Listed(p) /\ Len(p) = Len(f) - 1
        /\ \A v \in Pages : Covers(p, v) <=> \E k \in 1 .. Len(f) : k # i /\ f[k].b <= v /\ v < f[k].e
    BY RemoveListed
  <2> HIDE DEF w, x, p, q
  <2>3. ASSUME NEW v \in Pages PROVE Covers(p, v) <=> Covers(f, v) /\ ~(f[i].b <= v /\ v < w)
    <3>1. Covers(f, v) <=> \E k \in 1 .. Len(f) : f[k].b <= v /\ v < f[k].e
      BY CoversIs
    <3> QED
      BY <1>3, <1>4, <2>1, <2>2, <3>1
  <2>4. Len(p) <= Len(f)
    BY <1>1, <2>2
  <2> QED
    BY <1>5, <2>2, <2>3, <2>4 DEF p, w
<1>6. CASE f[i].e - f[i].b # n
  <2>1. w < f[i].e
    <3>1. \A a, b \in Nat : a - b >= n /\ a - b # n => b + n < a
      OBVIOUS
    <3> QED
      BY <1>1, <1>6, <3>1
  <2>2. x \in Interval /\ x.b = w /\ x.e = f[i].e
    BY <1>1, <1>2, IIs
  <2>3. [f EXCEPT ![i].b = w] = q
    <3>1. PutB(f, i, w) = q
      BY <1>1, <1>2, PutBound
    <3> QED
      BY <3>1 DEF PutB
  <2>4. i > 1 => f[i - 1].e < w
    <3>1. ASSUME i > 1 PROVE f[i - 1].e < w
      <4>1. i - 1 \in 1 .. Len(f) /\ i - 1 < i
        BY <1>1, <3>1
      <4>2. f[i - 1].e < f[i].b /\ f[i - 1].e \in Nat
        BY <1>1, <4>1
      <4>3. \A a, b \in Nat : a < b => a < b + n
        OBVIOUS
      <4> QED
        BY <1>1, <4>2, <4>3
    <3> QED
      BY <3>1
  <2>5. i < Len(f) => f[i].e < f[i + 1].b
    BY <1>1
  <2> HIDE DEF w, x, q
  <2>6. Listed(q) /\ Len(q) = Len(f)
        /\ \A v \in Pages : Covers(q, v) <=>
              (x.b <= v /\ v < x.e) \/ \E k \in 1 .. Len(f) : k # i /\ f[k].b <= v /\ v < f[k].e
    BY <2>1, <2>2, <2>4, <2>5, PutListed DEF q
  <2>7. ASSUME NEW v \in Pages PROVE Covers(q, v) <=> Covers(f, v) /\ ~(f[i].b <= v /\ v < w)
    <3>1. Covers(f, v) <=> \E k \in 1 .. Len(f) : f[k].b <= v /\ v < f[k].e
      BY CoversIs
    <3>2. v \in Int
      BY <1>4
    <3>3. (w <= v /\ v < f[i].e) <=> (f[i].b <= v /\ v < f[i].e) /\ ~(f[i].b <= v /\ v < w)
      BY <1>1, <1>2, <3>2
    <3>4. (f[i].b <= v /\ v < w) => (f[i].b <= v /\ v < f[i].e)
      BY <1>1, <1>2, <3>2
    <3> QED
      BY <1>3, <2>2, <2>6, <3>1, <3>2, <3>3, <3>4
  <2>8. Len(q) <= Len(f)
    BY <1>1, <2>6
  <2> QED
    BY <1>6, <2>3, <2>6, <2>7, <2>8 DEF w
<1> QED
  BY <1>5, <1>6

\* The list when an area fills the gap between two others.
LEMMA MergeListed ==
  ASSUME NEW f, Listed(f), NEW i \in 1 .. Len(f), i > 1, NEW y \in Interval
  PROVE  LET x == I(f[i - 1].b, f[i].e)
             g == RemoveAt(Put(Put(f, i, y), i - 1, x), i)
         IN /\ Listed(g) /\ Len(g) <= Len(f)
            /\ \A v \in Pages : Covers(g, v) <=> Covers(f, v) \/ (f[i - 1].e <= v /\ v < f[i].b)
<1> DEFINE n == Len(f)
           j == i - 1
           x == I(f[j].b, f[i].e)
           h == Put(f, i, y)
           h2 == Put(h, j, x)
           g == RemoveAt(h2, i)
<1>1. /\ n \in Nat /\ f \in Seq(Interval) /\ i \in 1 .. n /\ j \in 1 .. n /\ j \in Int /\ i = j + 1
      /\ \A k \in 1 .. n : /\ f[k].b \in Nat /\ f[k].e \in Nat /\ f[k].b < f[k].e /\ f[k].e <= Area
      /\ \A k, l \in 1 .. n : k < l => f[k].e < f[l].b
  BY ListIs
<1>2. f[j].e < f[i].b /\ f[j].b < f[j].e /\ f[i].b < f[i].e /\ f[i].e <= Area
      /\ f[j].b \in Nat /\ f[j].e \in Nat /\ f[i].b \in Nat /\ f[i].e \in Nat
  <2>1. j < i
    BY <1>1
  <2> QED
    BY <1>1, <2>1
<1>3. x \in Interval /\ x.b = f[j].b /\ x.e = f[i].e
  BY <1>2, AreaNat, IIs
<1>4. h \in Seq(Interval) /\ Len(h) = n /\ \A k \in 1 .. n : h[k] = IF k = i THEN y ELSE f[k]
  <2>1. f \in Seq(Interval) /\ i \in 1 .. Len(f)
    BY <1>1
  <2> QED
    BY <2>1, PutIs
<1> HIDE DEF x, h, n, j
<1>5. h2 \in Seq(Interval) /\ Len(h2) = n /\ \A k \in 1 .. n : h2[k] = IF k = j THEN x ELSE h[k]
  <2>1. j \in 1 .. Len(h)
    BY <1>1, <1>4
  <2> QED
    BY <1>3, <1>4, <2>1, PutIs
<1> HIDE DEF h2
<1>6. g \in Seq(Interval) /\ Len(g) = n - 1
      /\ \A k \in 1 .. n - 1 : g[k] = IF k < i THEN h2[k] ELSE h2[k + 1]
  <2>1. i \in 1 .. Len(h2)
    BY <1>1, <1>5
  <2> QED
    BY <1>5, <2>1, RemoveAtIs
<1> HIDE DEF g
<1>7. ASSUME NEW k \in 1 .. n - 1 PROVE g[k] = IF k < j THEN f[k] ELSE IF k = j THEN x ELSE f[k + 1]
  <2>1. k \in 1 .. n /\ k + 1 \in 1 .. n
    BY <1>1
  <2>2. CASE k < j
    <3>1. k < i /\ k # j /\ k # i
      BY <1>1, <2>2
    <3> QED
      BY <1>4, <1>5, <1>6, <2>1, <2>2, <3>1
  <2>3. CASE k = j
    <3>1. k < i /\ ~(k < j)
      BY <1>1, <2>3
    <3> QED
      BY <1>5, <1>6, <2>1, <2>3, <3>1
  <2>4. CASE k > j
    <3>1. ~(k < i) /\ k + 1 # j /\ k + 1 # i /\ ~(k < j) /\ k # j
      BY <1>1, <2>4
    <3>2. g[k] = h2[k + 1]
      BY <1>6, <3>1
    <3>3. h2[k + 1] = h[k + 1] /\ h[k + 1] = f[k + 1]
      BY <1>4, <1>5, <2>1, <3>1
    <3> QED
      BY <3>1, <3>2, <3>3
  <2> QED
    BY <1>1, <2>2, <2>3, <2>4
<1>8. ASSUME NEW k \in 1 .. n - 1 PROVE g[k].b < g[k].e
  <2>1. k \in 1 .. n /\ k + 1 \in 1 .. n
    BY <1>1
  <2>2. x.b < x.e
    <3>1. \A p, q, r, t \in Nat : p < q /\ q < r /\ r < t => p < t
      OBVIOUS
    <3> QED
      BY <1>2, <1>3, <3>1
  <2>3. f[k].b < f[k].e /\ f[k + 1].b < f[k + 1].e
    BY <1>1, <2>1
  <2> QED
    BY <1>7, <2>2, <2>3
<1>9. ASSUME NEW k \in 1 .. (n - 1) - 1 PROVE g[k].e < g[k + 1].b
  <2>1. k \in 1 .. n - 1 /\ k + 1 \in 1 .. n - 1 /\ k \in 1 .. n /\ k + 1 \in 1 .. n /\ k + 1 + 1 \in 1 .. n
        /\ k < k + 1 /\ k < k + 1 + 1 /\ k + 1 < k + 1 + 1
    BY <1>1
  <2>2. g[k] = (IF k < j THEN f[k] ELSE IF k = j THEN x ELSE f[k + 1])
        /\ g[k + 1] = IF k + 1 < j THEN f[k + 1] ELSE IF k + 1 = j THEN x ELSE f[k + 1 + 1]
    BY <1>7, <2>1
  <2>3. f[k].e < f[k + 1].b /\ f[k].e < f[k + 1 + 1].b /\ f[k + 1].e < f[k + 1 + 1].b
    BY <1>1, <2>1
  <2>4. CASE k + 1 < j
    <3>1. k < j
      BY <1>1, <2>4
    <3> QED
      BY <2>2, <2>3, <2>4, <3>1
  <2>5. CASE k + 1 = j
    <3>1. k < j /\ ~(k + 1 < j)
      BY <1>1, <2>5
    <3>2. g[k] = f[k] /\ g[k + 1] = x /\ x.b = f[k + 1].b
      BY <1>3, <2>2, <2>5, <3>1
    <3> QED
      BY <2>3, <3>2
  <2>6. CASE k = j
    <3>1. ~(k < j) /\ ~(k + 1 < j) /\ k + 1 # j
      BY <1>1, <2>6
    <3>2. g[k] = x /\ g[k + 1] = f[k + 1 + 1] /\ x.e = f[k + 1].e
      BY <1>1, <1>3, <2>2, <2>6, <3>1
    <3> QED
      BY <2>3, <3>2
  <2>7. CASE k > j
    <3>1. ~(k < j) /\ k # j /\ ~(k + 1 < j) /\ k + 1 # j
      BY <1>1, <2>7
    <3> QED
      BY <2>2, <2>3, <3>1
  <2>8. k + 1 < j \/ k + 1 = j \/ k = j \/ k > j
    BY <1>1
  <2> QED
    BY <2>4, <2>5, <2>6, <2>7, <2>8
<1>10. Listed(g)
  BY <1>6, <1>8, <1>9 DEF Listed
<1>11. ASSUME NEW v \in Pages
       PROVE  Covers(g, v) <=> Covers(f, v) \/ (f[j].e <= v /\ v < f[i].b)
  <2>1. Covers(g, v) <=> \E k \in 1 .. n - 1 : g[k].b <= v /\ v < g[k].e
    BY <1>6, <1>10, CoversIs
  <2>2. Covers(f, v) <=> \E k \in 1 .. n : f[k].b <= v /\ v < f[k].e
    BY CoversIs DEF n
  <2>3. v \in Int
    BY Place
  <2>4. (x.b <= v /\ v < x.e) <=>
           (f[j].b <= v /\ v < f[j].e) \/ (f[j].e <= v /\ v < f[i].b) \/ (f[i].b <= v /\ v < f[i].e)
    <3>1. \A p, q, r, t \in Nat : p < q /\ q < r /\ r < t =>
             ((p <= v /\ v < t) <=>
                (p <= v /\ v < q) \/ (q <= v /\ v < r) \/ (r <= v /\ v < t))
      BY <2>3
    <3> QED
      BY <1>2, <1>3, <3>1
  <2>5. ASSUME NEW k \in 1 .. n - 1, g[k].b <= v /\ v < g[k].e
        PROVE  (x.b <= v /\ v < x.e) \/ \E l \in 1 .. n : f[l].b <= v /\ v < f[l].e
    <3>1. k \in 1 .. n /\ k + 1 \in 1 .. n
      BY <1>1
    <3> QED
      BY <1>7, <2>5, <3>1
  <2>6. j \in 1 .. n - 1 /\ g[j] = x
    <3>1. j \in 1 .. n - 1 /\ ~(j < j)
      BY <1>1
    <3> QED
      BY <1>7, <3>1
  <2>7. ASSUME NEW l \in 1 .. n, f[l].b <= v /\ v < f[l].e
        PROVE  (x.b <= v /\ v < x.e) \/ \E k \in 1 .. n - 1 : g[k].b <= v /\ v < g[k].e
    <3>1. CASE l < j
      <4>1. l \in 1 .. n - 1
        BY <1>1, <3>1
      <4> QED
        BY <1>7, <2>7, <3>1, <4>1
    <3>2. CASE l = j \/ l = i
      BY <2>4, <2>7, <3>2
    <3>3. CASE l > i
      <4>1. l - 1 \in 1 .. n - 1 /\ ~(l - 1 < j) /\ l - 1 # j /\ l - 1 + 1 = l
        BY <1>1, <3>3
      <4>2. g[l - 1] = f[l]
        BY <1>7, <4>1
      <4> QED
        BY <2>7, <4>1, <4>2
    <3>4. l < j \/ l = j \/ l = i \/ l > i
      BY <1>1
    <3> QED
      BY <3>1, <3>2, <3>3, <3>4
  <2> QED
    BY <1>1, <2>1, <2>2, <2>4, <2>5, <2>6, <2>7
<1>12. Len(g) <= n
  BY <1>1, <1>6
<1> QED
  BY <1>10, <1>11, <1>12 DEF g, h2, h, x, j, n

\* The list when the area b up to e is given back: before area i, and not
\* before the end of the one before it.
LEMMA GivenBackIs ==
  ASSUME Listed(free), NEW i \in 1 .. Len(free), NEW b \in Nat, NEW e \in Nat, b < e,
         e <= free[i].b, i > 1 => free[i - 1].e <= b
  PROVE  LET g == GivenBack(b, e, i)
         IN /\ Listed(g) /\ Len(g) <= Len(free) + 1
            /\ Touches(b, e, i) => Len(g) <= Len(free)
            /\ \A v \in Pages : Covers(g, v) <=> Covers(free, v) \/ (b <= v /\ v < e)
<1> DEFINE n == Len(free)
           j == i - 1
           g == GivenBack(b, e, i)
           fb == free[i].b
           fe == free[i].e
<1>1. /\ n \in Nat /\ free \in Seq(Interval) /\ i \in 1 .. n /\ i \in Int /\ i = j + 1
      /\ \A k \in 1 .. n : /\ free[k].b \in Nat /\ free[k].e \in Nat
                           /\ free[k].b < free[k].e /\ free[k].e <= Area
      /\ \A k, l \in 1 .. n : k < l => free[k].e < free[l].b
  <2>1. n \in Nat /\ free \in Seq(Interval)
        /\ \A k \in 1 .. n : /\ free[k].b \in Nat /\ free[k].e \in Nat
                             /\ free[k].b < free[k].e /\ free[k].e <= Area
    BY ListIs
  <2>2. \A k, l \in 1 .. n : k < l => free[k].e < free[l].b
    BY ListIs
  <2>3. i \in 1 .. n /\ i \in Int /\ i = j + 1
    BY <2>1
  <2> QED
    BY <2>1, <2>2, <2>3
<1>2. fb \in Nat /\ fe \in Nat /\ fb < fe /\ fe <= Area /\ e <= fb
  BY <1>1
<1>3. b \in 0 .. Area /\ e \in 0 .. Area /\ b < fe /\ e < fe
  BY <1>2, AreaNat
<1>4. i > 1 => j \in 1 .. n /\ j < i /\ j # i
  BY <1>1
<1>5. i > 1 => /\ free[j].b \in Nat /\ free[j].e \in Nat
               /\ free[j].b < free[j].e /\ free[j].e < fb /\ free[j].e <= b
  BY <1>1, <1>4
<1>6. ASSUME NEW v \in Pages
      PROVE  v \in Int /\ (Covers(free, v) <=> \E k \in 1 .. n : free[k].b <= v /\ v < free[k].e)
  <2>1. v \in Int
    BY Place
  <2>2. Covers(free, v) <=> \E k \in 1 .. Len(free) : free[k].b <= v /\ v < free[k].e
    BY CoversIs
  <2> QED
    BY <2>1, <2>2
<1>7. CASE e = fb
  <2> DEFINE x == I(b, fe)
             h == Put(free, i, x)
  <2>1. x \in Interval /\ x.b = b /\ x.e = fe /\ [free EXCEPT ![i].b = b] = h
    <3>1. fe \in 0 .. Area
      BY <1>2, AreaNat
    <3>2. x \in Interval /\ x.b = b /\ x.e = fe
      BY <1>3, <3>1, IIs
    <3>3. [free EXCEPT ![i].b = b] = h
      <4>1. PutB(free, i, b) = h
        BY <1>1, <1>3, PutBound
      <4> QED
        BY <4>1 DEF PutB
    <3> QED
      BY <3>2, <3>3
  <2>2. g = Joined(h, i)
    BY <1>7, <2>1 DEF GivenBack
  <2>3. h \in Seq(Interval) /\ Len(h) = n /\ \A k \in 1 .. n : h[k] = IF k = i THEN x ELSE free[k]
    <3>1. free \in Seq(Interval) /\ i \in 1 .. Len(free) /\ x \in Interval
      BY <1>1, <2>1
    <3> HIDE DEF x
    <3> DEFINE P == Put(free, i, x)
    <3>2. P \in Seq(Interval) /\ Len(P) = Len(free)
      BY <3>1, PutIs
    <3>3. \A k \in 1 .. Len(free) : P[k] = IF k = i THEN x ELSE free[k]
      BY <3>1, PutIs
    <3> HIDE DEF P
    <3> QED
      BY <3>2, <3>3 DEF P
  <2>4. h[i] = x /\ (i > 1 => h[j] = free[j])
    BY <1>1, <1>4, <2>3
  <2>5. CASE i > 1 /\ free[j].e = b
    <3> DEFINE y == I(free[j].b, fe)
    <3>1. g = RemoveAt([h EXCEPT ![j].e = fe], i)
      BY <2>1, <2>2, <2>4, <2>5 DEF Joined
    <3>2. [h EXCEPT ![j].e = fe] = Put(h, j, I(h[j].b, fe))
      <4>1. fe \in 0 .. Area
        BY <1>2, AreaNat
      <4>2. h \in Seq(Interval) /\ j \in 1 .. Len(h)
        BY <1>4, <2>3, <2>5
      <4> HIDE DEF h, j
      <4>3. PutE(h, j, fe) = Put(h, j, I(h[j].b, fe))
        BY <4>1, <4>2, PutBound
      <4> QED
        BY <4>3 DEF PutE
    <3>3. g = RemoveAt(Put(Put(free, i, x), j, y), i)
      BY <2>4, <2>5, <3>1, <3>2
    <3> DEFINE r == RemoveAt(Put(Put(free, i, x), j, y), i)
    <3>4. Listed(r) /\ Len(r) <= n
          /\ \A v \in Pages : Covers(r, v) <=> Covers(free, v) \/ (free[j].e <= v /\ v < fb)
      BY <2>1, <2>5, MergeListed
    <3> HIDE DEF r
    <3>5. g = r
      BY <3>3 DEF r
    <3>6. Len(g) <= n /\ Len(g) <= n + 1
      BY <1>1, <3>4, <3>5, ListIs
    <3> HIDE DEF g, n
    <3> QED
      BY <1>7, <2>5, <3>4, <3>5, <3>6 DEF g, n
  <2>6. CASE ~(i > 1 /\ free[j].e = b)
    <3>1. i > 1 => free[j].e < b
      BY <1>5, <2>6
    <3>2. i < n => fe < free[i + 1].b
      BY <1>1
    <3>3. g = h
      BY <2>1, <2>2, <2>4, <2>6 DEF Joined
    <3>4. Listed(h) /\ Len(h) = n
          /\ \A v \in Pages : Covers(h, v) <=>
                (b <= v /\ v < fe) \/ \E k \in 1 .. n : k # i /\ free[k].b <= v /\ v < free[k].e
      BY <1>3, <2>1, <3>1, <3>2, PutListed
    <3> HIDE DEF h, x, g
    <3>5. ASSUME NEW v \in Pages PROVE Covers(h, v) <=> Covers(free, v) \/ (b <= v /\ v < e)
      <4>1. (b <= v /\ v < fe) <=> (b <= v /\ v < e) \/ (fb <= v /\ v < fe)
        BY <1>2, <1>6, <1>7
      <4> QED
        BY <1>1, <1>6, <3>4, <4>1
    <3>6. Len(g) <= n /\ Len(g) <= n + 1
      BY <1>1, <3>3, <3>4
    <3> QED
      BY <3>3, <3>4, <3>5, <3>6 DEF g
  <2> QED
    BY <2>5, <2>6
<1>8. CASE e # fb /\ i > 1 /\ free[j].e = b
  <2> DEFINE x == I(free[j].b, e)
             h == Put(free, j, x)
  <2>1. free[j].b \in 0 .. Area
    BY <1>1, <1>3, <1>4, <1>5, <1>8, AreaNat
  <2>2. x \in Interval /\ x.b = free[j].b /\ x.e = e /\ [free EXCEPT ![j].e = e] = h
    <3>1. x \in Interval /\ x.b = free[j].b /\ x.e = e
      BY <1>3, <2>1, IIs
    <3>2. free \in Seq(Interval) /\ j \in 1 .. Len(free)
      BY <1>1, <1>4, <1>8
    <3>3. [free EXCEPT ![j].e = e] = h
      <4>1. PutE(free, j, e) = h
        BY <1>3, <3>2, PutBound
      <4> QED
        BY <4>1 DEF PutE
    <3> QED
      BY <3>1, <3>3
  <2>3. g = Joined(h, i)
    BY <1>8, <2>2 DEF GivenBack
  <2>4. h \in Seq(Interval) /\ Len(h) = n /\ \A k \in 1 .. n : h[k] = IF k = j THEN x ELSE free[k]
    <3>1. free \in Seq(Interval) /\ j \in 1 .. Len(free) /\ x \in Interval
      BY <1>1, <1>4, <1>8, <2>2
    <3> HIDE DEF x, j
    <3> DEFINE P == Put(free, j, x)
    <3>2. P \in Seq(Interval) /\ Len(P) = Len(free)
      BY <3>1, PutIs
    <3>3. \A k \in 1 .. Len(free) : P[k] = IF k = j THEN x ELSE free[k]
      BY <3>1, PutIs
    <3> HIDE DEF P
    <3> QED
      BY <3>2, <3>3 DEF P
  <2>5. h[j] = x /\ h[i] = free[i]
    BY <1>1, <1>4, <1>8, <2>4
  <2>6. g = h
    BY <1>8, <2>2, <2>3, <2>5 DEF Joined
  <2>7. x.b < x.e
    BY <1>5, <1>8, <2>2
  <2>8. j > 1 => free[j - 1].e < x.b
    <3>1. ASSUME j > 1 PROVE free[j - 1].e < free[j].b
      <4>1. j - 1 \in 1 .. n /\ j \in 1 .. n /\ j - 1 < j
        BY <1>1, <1>4, <1>8, <3>1
      <4> QED
        BY <1>1, <4>1
    <3> QED
      BY <2>2, <3>1
  <2>9. x.e < free[j + 1].b
    BY <1>1, <1>2, <1>8, <2>2
  <2>10. j \in 1 .. n
    BY <1>4, <1>8
  <2> HIDE DEF x, h, g, j
  <2>11. Listed(h) /\ Len(h) = n
         /\ \A v \in Pages : Covers(h, v) <=>
               (x.b <= v /\ v < x.e) \/ \E k \in 1 .. n : k # j /\ free[k].b <= v /\ v < free[k].e
    BY <2>2, <2>7, <2>8, <2>9, <2>10, PutListed DEF h
  <2>12. ASSUME NEW v \in Pages PROVE Covers(h, v) <=> Covers(free, v) \/ (b <= v /\ v < e)
    <3>1. (x.b <= v /\ v < x.e) <=> (free[j].b <= v /\ v < free[j].e) \/ (b <= v /\ v < e)
      BY <1>5, <1>6, <1>8, <2>2
    <3> QED
      BY <1>6, <2>10, <2>11, <3>1
  <2>13. Len(g) <= n /\ Len(g) <= n + 1
    BY <1>1, <2>6, <2>11
  <2> QED
    BY <2>6, <2>11, <2>12, <2>13 DEF g
<1>9. CASE ~(e = fb) /\ ~(i > 1 /\ free[j].e = b)
  <2> DEFINE x == I(b, e)
  <2>1. x \in Interval /\ x.b = b /\ x.e = e
    BY <1>3, IIs
  <2>2. g = InsertAt(free, i, x)
    BY <1>9 DEF GivenBack
  <2>3. i > 1 => free[j].e < x.b
    BY <1>5, <1>9, <2>1
  <2>4. x.e < fb
    BY <1>2, <1>9, <2>1
  <2> HIDE DEF x, g
  <2>5. Listed(g) /\ Len(g) = n + 1
        /\ \A v \in Pages : Covers(g, v) <=> Covers(free, v) \/ (x.b <= v /\ v < x.e)
    BY <2>1, <2>2, <2>3, <2>4, InsertListed
  <2>6. ~Touches(b, e, i)
    BY <1>9 DEF Touches
  <2>7. Len(g) <= n + 1
    BY <1>1, <2>5
  <2> QED
    BY <2>1, <2>5, <2>6, <2>7 DEF g
<1> QED
  BY <1>7, <1>8, <1>9

-----------------------------------------------------------------------------
(* The steps *)

LEMMA TranslateIs == ASSUME NEW v PROVE Translate(v) = Tr(dirs, v)
BY DEF Translate, Tr, E, Ent

\* A request has pages.
LEMMA CountIs ==
  ASSUME NEW begin \in Nat, NEW end \in Nat, begin < end
  PROVE  First(begin) \in Nat /\ Count(begin, end) \in Nat /\ Count(begin, end) >= 1
<1> DEFINE p == PageSize
           f == First(begin)
           k == begin % p
           m == end - f * p + p - 1
           q == m \div p
           r == m % p
<1>1. p \in Nat /\ p >= 1
  BY Sizes
<1>2. f \in Nat /\ k \in Nat /\ begin = p * f + k
  BY <1>1, DivMod DEF First
<1> HIDE DEF p, f, k
<1>3. p * f = f * p /\ f * p \in Nat
  BY <1>1, <1>2
<1>4. m \in Nat /\ m >= p
  BY <1>1, <1>2, <1>3
<1> HIDE DEF m
<1>5. q \in Nat /\ r \in Nat /\ m = p * q + r /\ r < p
  BY <1>1, <1>4, DivMod
<1>6. q # 0
  BY <1>1, <1>4, <1>5
<1>7. q >= 1
  BY <1>5, <1>6
<1> QED
  BY <1>2, <1>5, <1>7 DEF Count, q, m, p, f

LEMMA Start == Init => IInv
<1> SUFFICES ASSUME Init PROVE IInv
  OBVIOUS
<1> DEFINE x == I(0, Area)
<1>1. Area \in Nat /\ Area >= 1
  <2> DEFINE m == Pdpts * PdLen
  <2>1. m \in Nat /\ m >= 1
    <3>1. Pdpts * 0 + Pdpts <= Pdpts * PdLen
      <4>1. 0 < PdLen /\ 0 \in Nat /\ PdLen \in Nat /\ Pdpts \in Nat
        BY Sizes
      <4> QED
        BY <4>1, Times
    <3> QED
      BY <3>1, Sizes
  <2>2. Area = m * PtLen
    BY DEF Area
  <2> HIDE DEF m
  <2>3. m * 0 + m <= m * PtLen
    <3>1. 0 < PtLen /\ 0 \in Nat /\ PtLen \in Nat
      BY Sizes
    <3> QED
      BY <2>1, <3>1, Times
  <2> QED
    BY <2>1, <2>2, <2>3, AreaNat
<1>2. x \in Interval /\ x.b = 0 /\ x.e = Area
  BY <1>1, IIs
<1>3. free = <<x>>
  BY DEF Init
<1> HIDE DEF x
<1>4. free \in Seq(Interval) /\ Len(free) = 1 /\ free[1] = x
  BY <1>2, <1>3
<1>5. Listed(free) /\ Len(free) <= Nodes
  BY <1>1, <1>2, <1>4, Sizes DEF Listed
<1>6. LiveOK
  BY FS_EmptySet DEF Init, LiveOK
<1>7. SharedOut
  <2>1. ASSUME NEW v \in Pages PROVE Covers(free, v)
    <3>1. v \in Nat /\ v < Area
      BY Place
    <3>2. 1 \in 1 .. Len(free) /\ free[1].b <= v /\ v < free[1].e
      BY <1>2, <1>4, <3>1
    <3> QED
      BY <1>5, <3>2, CoversIs
  <2> QED
    BY <2>1 DEF Init, SharedOut, Mapped
<1>8. dirs = [i \in 0 .. Pdpts - 1 |-> None]
  BY DEF Init
<1>9. dirs \in Dirs /\ \A i \in 0 .. Pdpts - 1 : dirs[i] = None
  BY <1>8 DEF Dirs
<1>10. tables = Counts(dirs)
  <2>1. DirSet(dirs) = {} /\ TableSet(dirs) = {}
    BY <1>8 DEF DirSet, TableSet
  <2>2. Cardinality({}) = 0 /\ tables = 0
    BY FS_EmptySet DEF Init
  <2>3. Counts(dirs) = 0 + 0
    BY <2>1, <2>2 DEF Counts
  <2> QED
    BY <2>2, <2>3
<1>11. \A v \in Pages : Tr(dirs, v) = Nil /\ ~IsHuge(dirs, v)
  <2>1. ASSUME NEW v \in Pages PROVE E(dirs, v) = None
    BY <1>9, Place DEF E, Ent
  <2> QED
    BY <1>9, <2>1, Unmapped
<1>12. TreeOK /\ HugeWhole
  BY <1>9, <1>10, <1>11 DEF TreeOK, HugeWhole, Init
<1>13. Halts
  BY DEF Halts, NoFalseAlarm, Init
<1> QED
  BY <1>5, <1>6, <1>7, <1>12, <1>13 DEF IInv

LEMMA MapIs ==
  ASSUME LiveOK, NEW r \in live
  PROVE  /\ r.b \in Nat /\ r.e \in Nat /\ r.phys \in Nat /\ r.b < r.e /\ r.e <= Area /\ Area \in Nat
         /\ \A v \in Int : v \in Span(r) <=> r.b <= v /\ v < r.e
         /\ Span(r) \subseteq Pages
<1>1. r.b \in Nat /\ r.e \in Nat /\ r.phys \in Nat /\ r.b < r.e /\ r.e <= Area /\ Area \in Nat
  BY AreaNat DEF LiveOK, Mapping
<1>2. \A v \in Int : v \in Span(r) <=> r.b <= v /\ v < r.e
  BY <1>1, SpanIs
<1>3. Span(r) \subseteq Pages
  BY <1>1 DEF Span, Pages
<1> QED
  BY <1>1, <1>2, <1>3

\* A halt changes nothing else.
LEMMA HaltStep ==
  ASSUME IInv, NEW why, Halt(why),
         why \in {"run_out", "invalid_address", "fragmented"},
         why = "invalid_address" => free = <<>> \/ Last(free).e < Area,
         why = "fragmented" => Len(free) = Nodes /\ Cardinality(live) > Nodes
  PROVE  IInv'
<1>1. Listed(free)' /\ (Len(free) <= Nodes)' /\ LiveOK' /\ SharedOut' /\ TreeOK' /\ HugeWhole'
  BY DEF Halt, IInv, Listed, LiveOK, SharedOut, TreeOK, HugeWhole, Covers, Mapped
<1>2. Halts'
  BY DEF Halt, Halts, NoFalseAlarm
<1> QED
  BY <1>1, <1>2 DEF IInv

\* mmio_alloc_mapping
LEMMA AllocStep ==
  ASSUME IInv, NEW begin \in Nat, NEW end \in Nat, begin < end, MmioAllocMapping(begin, end)
  PROVE  IInv'
<1> DEFINE n == Count(begin, end)
           fits == Fits(n)
           i == Min(fits)
           v == free[i].b
           w == v + n
           s == MapPages(v, w, First(begin))
           m == [b |-> v, e |-> w, phys |-> First(begin)]
<1>1. n \in Nat /\ n >= 1 /\ First(begin) \in Nat
  BY CountIs
<1>2. IInv
  OBVIOUS
<1>3. Listed(free) /\ Len(free) <= Nodes /\ LiveOK /\ SharedOut /\ TreeOK /\ HugeWhole /\ Halts
  BY DEF IInv
<1>4. fits = {} => Halt("run_out")
  BY DEF MmioAllocMapping
<1>7. halted = "no" /\ MmioAllocMapping(begin, end)
  BY DEF MmioAllocMapping
<1>5. CASE fits = {}
  BY <1>2, <1>4, <1>5, HaltStep
<1>6. CASE fits # {}
  <2>1. i \in fits
    <3>1. fits \subseteq Nat
      BY <1>3, ListIs DEF Fits
    <3> HIDE DEF fits
    <3>2. \E k \in fits : \A l \in fits : k <= l
      BY <1>6, <3>1, Least
    <3> QED
      BY <3>2 DEF Min
  <2>2. i \in 1 .. Len(free) /\ free[i].e - free[i].b >= n
    <3> HIDE DEF i
    <3> QED
      BY <1>3, <2>1, ListIs DEF Fits
  <2> HIDE DEF i, n
  <2>3. v \in Nat /\ w \in Nat /\ v < w /\ w <= free[i].e /\ w <= Area /\ Area \in Nat /\ free[i].e \in Nat
    <3>1. v \in Nat /\ free[i].e \in Nat /\ free[i].e <= Area
      BY <1>3, <2>2, ListIs
    <3> HIDE DEF v
    <3>2. free[i].e - v >= n
      BY <2>2 DEF v
    <3> QED
      BY <1>1, <3>1, <3>2, AreaNat
  <2>4. ASSUME NEW u \in Int, v <= u, u < w PROVE u \in Pages /\ Covers(free, u) /\ ~Mapped(u)
    <3>1. u \in Pages
      BY <2>3, <2>4 DEF Pages
    <3>2. free[i].b <= u /\ u < free[i].e
      BY <2>3, <2>4
    <3>3. Covers(free, u)
      BY <1>3, <2>2, <3>1, <3>2, CoversIs
    <3> QED
      BY <1>3, <3>1, <3>3 DEF SharedOut
  <2>5. \A u \in v .. w - 1 : Tr(dirs, u) = Nil
    <3>1. ASSUME NEW u \in v .. w - 1 PROVE Tr(dirs, u) = Nil
      <4>1. u \in Int /\ v <= u /\ u < w
        BY <2>3
      <4> QED
        BY <1>3, <2>4, <4>1 DEF TreeOK
    <3> QED
      BY <3>1
  <2>6. ~ \E p \in v .. v + n - 1 : Translate(p) # Nil
    <3>1. v + n - 1 = w - 1
      BY <1>1, <2>3
    <3> QED
      BY <2>5, <3>1, TranslateIs
  <2>7. /\ free' = IF free[i].e - v = n THEN RemoveAt(free, i) ELSE [free EXCEPT ![i].b = w]
        /\ dirs' = s.dirs /\ tables' = s.tables
        /\ live' = live \union {m}
        /\ halted' = "no"
    <3>1. dirs' = s.dirs /\ tables' = s.tables /\ live' = live \union {m} /\ halted' = halted
      BY <1>6, <1>7, <2>6 DEF MmioAllocMapping, i, n
    <3>2. free' = IF free[i].e - v = n THEN RemoveAt(free, i) ELSE [free EXCEPT ![i].b = w]
      BY <1>6, <1>7, <2>6, Zenon DEF MmioAllocMapping, i, n
    <3> QED
      BY <1>7, <3>1, <3>2
  <2>8. Listed(free') /\ Len(free') <= Len(free)
        /\ \A u \in Pages : Covers(free', u) <=> Covers(free, u) /\ ~(v <= u /\ u < w)
    BY <1>1, <1>3, <2>2, <2>7, TakenFrom
  <2> DEFINE phys == First(begin)
  <2>9. phys \in Nat /\ dirs \in Dirs /\ tables = Counts(dirs)
    BY <1>1, <1>3 DEF TreeOK
  <2> HIDE DEF v, w, phys
  <2>10. PICK d \in Dirs : MapPages(v, w, phys) = W(d, Counts(d), w) /\ Turned(dirs, d, v, w, w, phys - v)
    BY <2>3, <2>5, <2>9, MapWalk
  <2>11. dirs' = d /\ tables' = Counts(d)
    BY <2>7, <2>10, WIs DEF phys
  <2>12. m = [b |-> v, e |-> w, phys |-> phys] /\ m.b = v /\ m.e = w /\ m.phys = phys /\ m \in Mapping
    BY <2>3, <2>9 DEF Mapping, phys
  <2> HIDE DEF m
  <2>13. \A u \in Int : u \in Span(m) <=> v <= u /\ u < w
    BY <2>3, <2>12, SpanIs
  <2>14. \A u \in Pages : u \in Int
    BY Place
  <2>15. \A u \in Pages : Mapped(u)' <=> Mapped(u) \/ (v <= u /\ u < w)
    BY <2>7, <2>13, <2>14 DEF Mapped
  <2>16. LiveOK'
    <3>1. live' \subseteq Mapping /\ IsFiniteSet(live')
      BY <1>3, <2>7, <2>12, FS_AddElement DEF LiveOK
    <3>2. ASSUME NEW q \in live', NEW r \in live', NEW u \in Pages, u \in Span(q), u \in Span(r)
          PROVE  q = r
      <4>1. u \in Span(m) => ~Mapped(u)
        BY <2>4, <2>13, <2>14
      <4>2. q = m \/ q \in live
        BY <2>7
      <4>3. r = m \/ r \in live
        BY <2>7
      <4> QED
        BY <1>3, <3>2, <4>1, <4>2, <4>3 DEF LiveOK, Mapped
    <3> QED
      BY <3>1, <3>2 DEF LiveOK
  <2>17. SharedOut'
    <3>1. ASSUME NEW u \in Pages PROVE Covers(free', u) <=> ~Mapped(u)'
      <4>1. v <= u /\ u < w => Covers(free, u) /\ ~Mapped(u)
        BY <2>4, <2>14
      <4>2. Covers(free, u) <=> ~Mapped(u)
        BY <1>3 DEF SharedOut
      <4> QED
        BY <2>8, <2>15, <4>1, <4>2
    <3> QED
      BY <3>1 DEF SharedOut
  <2>18. \A u \in Pages : Tr(d, u) = IF v <= u /\ u < w THEN phys - v + u ELSE Tr(dirs, u)
    BY <2>10 DEF Turned
  <2>19. TreeOK'
    <3>1. ASSUME NEW r \in live', NEW u \in Span(r) PROVE Tr(d, u) = r.phys + u - r.b
      <4>1. CASE r = m
        <5>1. u \in Int
          BY <2>3, <2>12, <4>1 DEF Span
        <5>2. v <= u /\ u < w /\ u \in Pages
          BY <2>4, <2>13, <4>1, <5>1
        <5>3. Tr(d, u) = phys - v + u
          BY <2>18, <5>2
        <5>4. phys - v + u = phys + u - v
          BY <2>3, <2>9, <5>1
        <5> QED
          BY <2>12, <4>1, <5>3, <5>4
      <4>2. CASE r \in live
        <5>1. u \in Pages
          BY <1>3, <4>2, MapIs
        <5>2. Mapped(u)
          BY <4>2 DEF Mapped
        <5>3. ~(v <= u /\ u < w)
          BY <2>4, <2>14, <5>1, <5>2
        <5>4. Tr(d, u) = Tr(dirs, u)
          BY <2>18, <5>1, <5>3
        <5> QED
          BY <1>3, <4>2, <5>4 DEF TreeOK
      <4> QED
        BY <2>7, <4>1, <4>2
    <3>2. ASSUME NEW u \in Pages, ~Mapped(u)' PROVE Tr(d, u) = Nil
      <4>1. ~Mapped(u) /\ ~(v <= u /\ u < w)
        BY <2>15, <3>2
      <4> QED
        BY <1>3, <2>18, <4>1 DEF TreeOK
    <3> QED
      BY <2>10, <2>11, <3>1, <3>2 DEF TreeOK
  <2>20. HugeWhole'
    <3>1. ASSUME NEW p \in Pages, IsHuge(d, p)
          PROVE  \E r \in live' : \A q \in Pages : Block(q) = Block(p) => q \in Span(r)
      <4>1. IsHuge(dirs, p) \/ \A q \in Pages : Block(q) = Block(p) => v <= q /\ q < w
        BY <2>10, <3>1 DEF Turned
      <4>2. CASE IsHuge(dirs, p)
        BY <1>3, <2>7, <4>2 DEF HugeWhole
      <4>3. CASE \A q \in Pages : Block(q) = Block(p) => v <= q /\ q < w
        <5>1. m \in live'
          BY <2>7
        <5> QED
          BY <2>13, <2>14, <4>3, <5>1
      <4> QED
        BY <4>1, <4>2, <4>3
    <3> QED
      BY <2>11, <3>1 DEF HugeWhole
  <2>21. Halts'
    BY <2>7 DEF Halts, NoFalseAlarm
  <2>22. (Len(free) <= Nodes)'
    <3>1. Len(free) \in Nat /\ Len(free') \in Nat /\ Nodes \in Nat
      BY <1>3, <2>8, ListIs, Sizes
    <3> QED
      BY <1>3, <2>8, <3>1
  <2> QED
    BY <2>8, <2>16, <2>17, <2>19, <2>20, <2>21, <2>22 DEF IInv
<1> QED
  BY <1>5, <1>6

\* What lies between two pages of a mapping is in it.
LEMMA Between ==
  ASSUME LiveOK, NEW q \in live, NEW u \in Int, NEW w \in Int, NEW x \in Int,
         u \in Span(q), w \in Span(q), u <= x, x <= w
  PROVE  x \in Span(q) /\ x \in Pages
<1>1. q.b \in Nat /\ q.e \in Nat /\ (\A v \in Int : v \in Span(q) <=> q.b <= v /\ v < q.e)
      /\ Span(q) \subseteq Pages
  BY MapIs
<1>2. q.b <= x /\ x < q.e
  BY <1>1
<1> QED
  BY <1>1, <1>2

\* With every node in use, and the mapping r apart from the free areas on both
\* sides of it, there are more mappings than nodes: one behind each free area
\* but the last, r, and one right before area i.
LEMMA NoNode ==
  ASSUME IInv, NEW r \in live, NEW i \in 1 .. Len(free), Len(free) = Nodes,
         r.e < free[i].b, i > 1 => free[i - 1].e < r.b
  PROVE  Cardinality(live) > Nodes
<1> DEFINE n == Nodes
           z == free[i].b - 1
           p == [k \in 1 .. n + 1 |-> IF k < n THEN free[k].e ELSE IF k = n THEN r.b ELSE z]
           h == [k \in 1 .. n + 1 |-> CHOOSE q \in live : p[k] \in Span(q)]
<1>1. Listed(free) /\ LiveOK /\ SharedOut
  BY DEF IInv
<1>2. n \in Nat /\ n >= 1 /\ Len(free) = n /\ i \in 1 .. n
  BY Sizes
<1>3. /\ \A k \in 1 .. n : /\ free[k].b \in Nat /\ free[k].e \in Nat
                           /\ free[k].b < free[k].e /\ free[k].e <= Area
      /\ \A k, l \in 1 .. n : k < l => free[k].e < free[l].b
  BY <1>1, <1>2, ListIs
<1>4. /\ r.b \in Nat /\ r.e \in Nat /\ r.b < r.e /\ r.e <= Area /\ Area \in Nat
      /\ \A v \in Int : v \in Span(r) <=> r.b <= v /\ v < r.e
      /\ Span(r) \subseteq Pages
  BY <1>1, MapIs
<1> HIDE DEF n
<1>5. free[i].b \in Nat /\ free[i].e \in Nat /\ free[i].b < free[i].e /\ free[i].e <= Area /\ r.e < free[i].b
  BY <1>2, <1>3
<1>6. z \in Nat /\ r.e <= z /\ z < Area /\ z < free[i].b /\ free[i].b = z + 1
  <2>1. free[i].b \in Nat /\ free[i].e \in Nat /\ Area \in Nat /\ r.e \in Nat
    BY <1>4, <1>5
  <2>2. \A x1, x2, x3, x4 \in Nat : x1 < x2 /\ x2 < x3 /\ x3 <= x4 =>
           /\ x2 - 1 \in Nat /\ x1 <= x2 - 1 /\ x2 - 1 < x4 /\ x2 - 1 < x2 /\ x2 = x2 - 1 + 1
    OBVIOUS
  <2> QED
    BY <1>5, <2>1, <2>2
<1>7. ASSUME NEW k \in 1 .. n, k < i PROVE free[k].e < r.b
  <2>1. i > 1 /\ i - 1 \in 1 .. n /\ (k = i - 1 \/ k < i - 1) /\ free[i - 1].e < r.b
    BY <1>2, <1>7
  <2>2. CASE k = i - 1
    BY <2>1, <2>2
  <2>3. CASE k < i - 1
    <3>1. free[k].e < free[i - 1].b /\ free[i - 1].b < free[i - 1].e
          /\ free[k].e \in Nat /\ free[i - 1].b \in Nat /\ free[i - 1].e \in Nat
      BY <1>3, <2>1, <2>3
    <3>2. \A x1, x2, x3, x4 \in Nat : x1 < x2 /\ x2 < x3 /\ x3 < x4 => x1 < x4
      OBVIOUS
    <3> QED
      BY <1>4, <2>1, <3>1, <3>2
  <2> QED
    BY <2>1, <2>2, <2>3
<1>8. ASSUME NEW k \in 1 .. n, ~(k < i) PROVE free[i].b <= free[k].b
  <2>1. k = i \/ i < k
    BY <1>2, <1>8
  <2>2. CASE i < k
    <3>1. free[i].e < free[k].b /\ free[k].b \in Nat
      BY <1>2, <1>3, <2>2
    <3> QED
      BY <1>5, <3>1
  <2> QED
    BY <1>5, <2>1, <2>2
\* what is free is not mapped
<1>9. ASSUME NEW k \in 1 .. n, NEW q \in live, free[k].b \in Span(q) PROVE FALSE
  <2>1. free[k].b \in Pages
    BY <1>1, <1>9, MapIs
  <2>2. free[k].b <= free[k].b /\ free[k].b < free[k].e
    BY <1>3
  <2>3. Covers(free, free[k].b)
    BY <1>1, <1>2, <2>1, <2>2, CoversIs
  <2> QED
    BY <1>1, <1>9, <2>1, <2>3 DEF SharedOut, Mapped
<1> HIDE DEF z
<1>10. ASSUME NEW k \in 1 .. n, k < n PROVE free[k].e \in Pages /\ Mapped(free[k].e)
  <2>1. k + 1 \in 1 .. n /\ k < k + 1
    BY <1>2, <1>10
  <2>2. free[k].e \in Pages
    <3>1. free[k].e < free[k + 1].b /\ free[k + 1].b < free[k + 1].e /\ free[k + 1].e <= Area
          /\ free[k + 1].b \in Nat /\ free[k + 1].e \in Nat /\ free[k].e \in Nat
      BY <1>3, <2>1
    <3>2. \A x1, x2, x3, x4 \in Nat : x1 < x2 /\ x2 < x3 /\ x3 <= x4 => x1 \in 0 .. x4 - 1
      OBVIOUS
    <3> QED
      BY <1>4, <3>1, <3>2 DEF Pages
  <2>3. ASSUME NEW l \in 1 .. n, free[l].b <= free[k].e, free[k].e < free[l].e PROVE FALSE
    <3>1. free[k].b \in Nat /\ free[k].e \in Nat /\ free[l].b \in Nat /\ free[l].e \in Nat
          /\ free[k].b < free[k].e
      BY <1>3
    <3>2. k = l \/ free[k].e < free[l].b \/ free[l].e < free[k].b
      <4>1. k = l \/ k < l \/ l < k
        BY <1>2
      <4> QED
        BY <1>3, <4>1
    <3>3. \A x1, x2, y1, y2 \in Nat : x1 < x2 /\ y1 <= x2 /\ x2 < y2 => ~(x2 < y1) /\ ~(y2 < x1) /\ x2 # y2
      OBVIOUS
    <3> QED
      BY <2>3, <3>1, <3>2, <3>3
  <2>4. ~Covers(free, free[k].e)
    BY <1>1, <1>2, <2>2, <2>3, CoversIs
  <2> QED
    BY <1>1, <2>2, <2>4 DEF SharedOut
<1>11. z \in Pages /\ Mapped(z)
  <2>1. z \in Pages
    BY <1>4, <1>6 DEF Pages
  <2>2. ASSUME NEW l \in 1 .. n, free[l].b <= z, z < free[l].e PROVE FALSE
    <3>1. free[l].b \in Nat /\ free[l].e \in Nat
      BY <1>3
    <3>2. CASE l < i
      <4>1. free[l].e < r.b
        BY <1>7, <3>2
      <4> QED
        BY <1>4, <1>6, <2>2, <3>1, <4>1
    <3>3. CASE ~(l < i)
      <4>1. free[i].b <= free[l].b
        BY <1>8, <3>3
      <4> QED
        BY <1>5, <1>6, <2>2, <3>1, <4>1
    <3> QED
      BY <3>2, <3>3
  <2>3. ~Covers(free, z)
    BY <1>1, <1>2, <2>1, <2>2, CoversIs
  <2> QED
    BY <1>1, <2>1, <2>3 DEF SharedOut
<1>12. r.b \in Span(r)
  BY <1>4
<1>13. ASSUME NEW k \in 1 .. n + 1
       PROVE  /\ p[k] = IF k < n THEN free[k].e ELSE IF k = n THEN r.b ELSE z
              /\ p[k] \in Int /\ Mapped(p[k])
  <2>1. p[k] = IF k < n THEN free[k].e ELSE IF k = n THEN r.b ELSE z
    OBVIOUS
  <2>2. CASE k < n
    <3>1. k \in 1 .. n
      BY <1>2, <2>2
    <3> QED
      BY <1>3, <1>10, <2>1, <2>2, <3>1
  <2>3. CASE k = n
    <3>1. ~(k < n)
      BY <1>2, <2>3
    <3> QED
      BY <1>4, <1>12, <2>1, <2>3, <3>1 DEF Mapped
  <2>4. CASE ~(k < n) /\ k # n
    BY <1>6, <1>11, <2>1, <2>4
  <2> QED
    BY <2>1, <2>2, <2>3, <2>4
<1> HIDE DEF p
<1>14. ASSUME NEW k \in 1 .. n + 1 PROVE h[k] \in live /\ p[k] \in Span(h[k])
  <2>1. h[k] = CHOOSE q \in live : p[k] \in Span(q)
    OBVIOUS
  <2>2. \E q \in live : p[k] \in Span(q)
    BY <1>13 DEF Mapped
  <2> HIDE DEF h
  <2> QED
    BY <2>1, <2>2
<1>15. \A q \in live : r.b \in Span(q) => q = r
  BY <1>1, <1>4, <1>12 DEF LiveOK
<1>16. h \in [1 .. n + 1 -> live]
  BY <1>14
<1> HIDE DEF h
<1>17. ASSUME NEW k \in 1 .. n + 1, NEW l \in 1 .. n + 1, k < l, h[k] = h[l] PROVE FALSE
  <2> DEFINE q == h[k]
  <2>1. q \in live /\ p[k] \in Span(q) /\ p[l] \in Span(q) /\ p[k] \in Int /\ p[l] \in Int
    BY <1>13, <1>14, <1>17
  <2> HIDE DEF q
  <2>2. k \in 1 .. n
    BY <1>2, <1>17
  <2>3. CASE l < n
    <3>1. l \in 1 .. n /\ k < n
      BY <1>2, <1>17, <2>3
    <3>2. p[k] = free[k].e /\ p[l] = free[l].e
      BY <1>13, <2>3, <3>1
    <3>3. free[k].e <= free[l].b /\ free[l].b <= free[l].e /\ free[l].b \in Int
      BY <1>3, <1>17, <2>2, <3>1
    <3>4. free[l].b \in Span(q)
      BY <1>1, <2>1, <3>2, <3>3, Between
    <3> QED
      BY <1>9, <2>1, <3>1, <3>4
  <2>4. CASE l = n
    <3>1. k < n /\ ~(l < n)
      BY <1>2, <1>17, <2>4
    <3>2. p[k] = free[k].e /\ p[l] = r.b
      BY <1>13, <2>4, <3>1
    <3>3. q = r
      BY <1>15, <2>1, <3>2
    <3>4. r.b <= free[k].e /\ free[k].e < r.e /\ free[k].e \in Nat /\ free[k].b \in Nat /\ free[k].b < free[k].e
      BY <1>3, <1>4, <2>1, <2>2, <3>2, <3>3
    <3>5. CASE k < i
      <4>1. free[k].e < r.b
        BY <1>7, <2>2, <3>5
      <4> QED
        BY <1>4, <3>4, <4>1
    <3>6. CASE ~(k < i)
      <4>1. free[i].b <= free[k].b
        BY <1>8, <2>2, <3>6
      <4>2. \A x1, x2, x3, x4 \in Nat :
               x1 < x2 /\ x2 <= x3 /\ x3 < x4 => ~(x4 < x1)
        OBVIOUS
      <4> QED
        BY <1>4, <1>5, <3>4, <4>1, <4>2
    <3> QED
      BY <3>5, <3>6
  <2>5. CASE l = n + 1
    <3>1. ~(l < n) /\ l # n
      BY <1>2, <2>5
    <3>2. p[l] = z
      BY <1>13, <3>1
    <3>3. q # r
      BY <1>4, <1>6, <2>1, <3>2
    <3>4. CASE k = n
      <4>1. p[k] = r.b
        <5>1. ~(k < n)
          BY <1>2, <3>4
        <5> QED
          BY <1>13, <3>4, <5>1
      <4> QED
        BY <1>15, <2>1, <3>3, <4>1
    <3>5. CASE k < n
      <4>1. p[k] = free[k].e
        BY <1>13, <3>5
      <4>2. free[k].e \in Nat /\ free[k].b \in Nat /\ free[k].b < free[k].e
        BY <1>3, <2>2
      <4>3. CASE k < i
        <5>1. free[k].e < r.b
          BY <1>7, <2>2, <4>3
        <5>2. free[k].e <= r.b /\ r.b <= z /\ r.b \in Int
          <6>1. \A x1, x2, x3, x4 \in Nat : x1 < x2 /\ x2 < x3 /\ x3 <= x4 => x1 <= x2 /\ x2 <= x4
            OBVIOUS
          <6> QED
            BY <1>4, <1>6, <4>2, <5>1, <6>1
        <5>3. r.b \in Span(q)
          BY <1>1, <2>1, <3>2, <4>1, <5>2, Between
        <5> QED
          BY <1>15, <2>1, <3>3, <5>3
      <4>4. CASE ~(k < i)
        <5>1. free[i].b <= free[k].b
          BY <1>8, <2>2, <4>4
        <5>2. z <= free[i].b /\ free[i].b <= free[k].e /\ free[i].b \in Int
          BY <1>5, <1>6, <4>2, <5>1
        <5>3. free[i].b \in Span(q)
          BY <1>1, <2>1, <3>2, <4>1, <5>2, Between
        <5> QED
          BY <1>2, <1>9, <2>1, <5>3
      <4> QED
        BY <4>3, <4>4
    <3> QED
      BY <1>2, <2>2, <3>4, <3>5
  <2> QED
    BY <1>2, <2>3, <2>4, <2>5
<1>18. h \in Injection(1 .. n + 1, live)
  <2>1. ASSUME NEW k \in 1 .. n + 1, NEW l \in 1 .. n + 1, h[k] = h[l] PROVE k = l
    <3>1. k < l \/ l < k \/ k = l
      BY <1>2
    <3> QED
      BY <1>17, <2>1, <3>1
  <2> QED
    BY <1>16, <2>1 DEF Injection, IsInjective
<1>19. Cardinality(1 .. n + 1) <= Cardinality(live)
  BY <1>1, <1>18, FS_Injection DEF LiveOK
<1>20. Cardinality(1 .. n + 1) = n + 1
  <2>1. 1 \in Int /\ n + 1 \in Int /\ ~(1 > n + 1) /\ n + 1 - 1 + 1 = n + 1
    BY <1>2
  <2> QED
    BY <2>1, FS_Interval
<1>21. Cardinality(live) \in Nat
  BY <1>1, FS_CardinalityType DEF LiveOK
<1> QED
  BY <1>2, <1>19, <1>20, <1>21 DEF n

\* mmio_dealloc_mapping
LEMMA DeallocStep ==
  ASSUME IInv, NEW r \in live, MmioDeallocMapping(r)
  PROVE  IInv'
<1> DEFINE i == Min(After(r.b))
           beforeEnd == IF i > 1 THEN free[i - 1].e ELSE 0
           s == UnmapPages(r.b, r.e)
<1>1. IInv /\ halted = "no" /\ MmioDeallocMapping(r)
  BY DEF MmioDeallocMapping
<1>2. Listed(free) /\ Len(free) <= Nodes /\ LiveOK /\ SharedOut /\ TreeOK /\ HugeWhole /\ Halts
  BY DEF IInv
<1>3. /\ r.b \in Nat /\ r.e \in Nat /\ r.phys \in Nat /\ r.b < r.e /\ r.e <= Area /\ Area \in Nat
      /\ \A v \in Int : v \in Span(r) <=> r.b <= v /\ v < r.e
      /\ Span(r) \subseteq Pages
  BY <1>2, MapIs
<1>4. /\ Len(free) \in Nat /\ DOMAIN free = 1 .. Len(free)
      /\ \A k \in 1 .. Len(free) : /\ free[k].b \in Nat /\ free[k].e \in Nat
                                   /\ free[k].b < free[k].e /\ free[k].e <= Area
  BY <1>2, ListIs
\* no area has a page of r
<1>5. ASSUME NEW k \in 1 .. Len(free), NEW v \in Int, r.b <= v, v < r.e, free[k].b <= v, v < free[k].e
      PROVE  FALSE
  <2>1. v \in Span(r) /\ v \in Pages
    BY <1>3, <1>5
  <2>2. Covers(free, v)
    BY <1>2, <1>5, <2>1, CoversIs
  <2> QED
    BY <1>2, <2>1, <2>2 DEF SharedOut, Mapped
<1>6. ASSUME NEW k \in 1 .. Len(free), free[k].b <= r.b PROVE free[k].e <= r.b
  <2>1. r.b \in Int /\ r.b <= r.b /\ free[k].e \in Nat
    BY <1>3, <1>4
  <2>2. ~(r.b < free[k].e)
    BY <1>3, <1>5, <1>6, <2>1
  <2> QED
    BY <1>3, <2>1, <2>2
<1>7. CASE After(r.b) = {}
  <2>1. Halt("invalid_address")
    BY <1>1, <1>7 DEF MmioDeallocMapping
  <2>2. free # <<>> => Last(free).e < Area
    <3>1. ASSUME free # <<>> PROVE Last(free).e < Area
      <4>1. Len(free) \in 1 .. Len(free)
        <5>1. Len(free) # 0
          BY <1>2, <3>1, EmptySeq DEF Listed
        <5> QED
          BY <1>4, <5>1
      <4> DEFINE k == Len(free)
      <4>2. k \in 1 .. Len(free)
        BY <4>1
      <4>3. ~(r.b < free[k].b)
        BY <1>4, <1>7, <4>2 DEF After
      <4> HIDE DEF k
      <4>4. free[k].b <= r.b
        BY <1>3, <1>4, <4>2, <4>3
      <4>5. free[k].e <= r.b /\ free[k].e \in Nat
        BY <1>4, <1>6, <4>2, <4>4
      <4>6. free[k].e < Area
        BY <1>3, <4>5
      <4> QED
        BY <4>6 DEF Last, k
    <3> QED
      BY <3>1
  <2> QED
    BY <1>1, <2>1, <2>2, HaltStep
<1>8. CASE After(r.b) # {}
  <2>1. i \in After(r.b) /\ \A l \in After(r.b) : i <= l
    <3>1. After(r.b) \subseteq Nat
      BY <1>4 DEF After
    <3>2. \E k \in After(r.b) : \A l \in After(r.b) : k <= l
      BY <1>8, <3>1, Least
    <3> QED
      BY <3>2 DEF Min
  <2> HIDE DEF i
  <2>2. i \in 1 .. Len(free) /\ r.b < free[i].b
    BY <1>4, <2>1 DEF After
  <2>3. free[i].b \in Nat /\ free[i].e \in Nat /\ free[i].b < free[i].e
    BY <1>4, <2>2
  <2>4. r.e <= free[i].b
    <3>1. free[i].b \in Int /\ free[i].b <= free[i].b /\ r.b <= free[i].b
      BY <1>3, <2>2, <2>3
    <3>2. ~(free[i].b < r.e)
      BY <1>5, <2>2, <2>3, <3>1
    <3> QED
      BY <1>3, <2>3, <3>2
  <2>5. i > 1 => free[i - 1].e <= r.b
    <3>1. ASSUME i > 1 PROVE free[i - 1].e <= r.b
      <4>1. i - 1 \in 1 .. Len(free) /\ ~(i <= i - 1)
        BY <1>4, <2>2, <3>1
      <4>2. ~(r.b < free[i - 1].b)
        BY <1>4, <2>1, <4>1 DEF After
      <4>3. free[i - 1].b <= r.b
        BY <1>3, <1>4, <4>1, <4>2
      <4> QED
        BY <1>6, <4>1, <4>3
    <3> QED
      BY <3>1
  <2>6. beforeEnd <= r.b /\ r.e <= free[i].b
    BY <1>3, <2>4, <2>5
  <2>7. CASE ~Touches(r.b, r.e, i) /\ Len(free) = Nodes
    <3>1. Halt("fragmented")
      BY <1>1, <1>8, <2>6, <2>7 DEF MmioDeallocMapping, i
    <3>2. r.e < free[i].b
      BY <1>3, <2>3, <2>4, <2>7 DEF Touches
    <3>3. i > 1 => free[i - 1].e < r.b
      <4>1. ASSUME i > 1 PROVE free[i - 1].e < r.b
        <5>1. i - 1 \in 1 .. Len(free) /\ free[i - 1].e # r.b
          BY <1>4, <2>2, <2>7, <4>1 DEF Touches
        <5>2. free[i - 1].e \in Nat
          BY <1>4, <5>1
        <5> QED
          BY <1>3, <2>5, <4>1, <5>1, <5>2
      <4> QED
        BY <4>1
    <3>4. Cardinality(live) > Nodes
      BY <1>1, <2>2, <2>7, <3>2, <3>3, NoNode
    <3> QED
      BY <1>1, <2>7, <3>1, <3>4, HaltStep
  <2>8. CASE ~(~Touches(r.b, r.e, i) /\ Len(free) = Nodes)
    <3>1. /\ free' = GivenBack(r.b, r.e, i)
          /\ dirs' = s.dirs /\ tables' = s.tables
          /\ live' = live \ {r}
          /\ halted' = "no"
      <4>1. /\ free' = GivenBack(r.b, r.e, i)
            /\ dirs' = s.dirs /\ tables' = s.tables
            /\ live' = live \ {r}
            /\ halted' = halted
        BY <1>1, <1>8, <2>6, <2>8 DEF MmioDeallocMapping, i
      <4> QED
        BY <1>1, <4>1
    <3> DEFINE b == r.b
               e == r.e
    <3>2. b \in Nat /\ e \in Nat /\ b < e /\ e <= Area /\ e <= free[i].b /\ (i > 1 => free[i - 1].e <= b)
          /\ free' = GivenBack(b, e, i)
          /\ \A v \in Int : v \in Span(r) <=> b <= v /\ v < e
      BY <1>3, <2>4, <2>5, <3>1
    <3>3. s = UnmapPages(b, e)
      OBVIOUS
    <3>4. ~(~Touches(b, e, i) /\ Len(free) = Nodes)
      BY <2>8
    <3> HIDE DEF b, e, s
    <3>5. Listed(free') /\ Len(free') <= Len(free) + 1
          /\ (Touches(b, e, i) => Len(free') <= Len(free))
          /\ \A v \in Pages : Covers(free', v) <=> Covers(free, v) \/ (b <= v /\ v < e)
      BY <1>2, <2>2, <3>2, GivenBackIs
    <3>6. Len(free') <= Nodes
      <4>1. Len(free') \in Nat /\ Nodes \in Nat
        BY <3>5, ListIs, Sizes
      <4> QED
        BY <1>2, <1>4, <3>4, <3>5, <4>1
    <3>7. \A u \in b .. e - 1 : u \in Span(r) /\ u \in Pages
      <4>1. ASSUME NEW u \in b .. e - 1 PROVE u \in Span(r)
        <5>1. u \in Int /\ b <= u /\ u < e
          BY <3>2
        <5> QED
          BY <3>2, <5>1
      <4> QED
        BY <1>3, <4>1
    <3>8. \A u \in Pages : u \in Int
      BY Place
    <3>9. \A u \in b .. e - 1 : Tr(dirs, u) # Nil
      <4>1. ASSUME NEW u \in b .. e - 1 PROVE Tr(dirs, u) # Nil
        <5>1. Tr(dirs, u) = r.phys + u - r.b
          BY <1>2, <3>7 DEF TreeOK
        <5>2. r.phys + u - r.b >= 0
          BY <1>3, <3>2 DEF b
        <5> QED
          BY <1>3, <5>1, <5>2 DEF Nil
      <4> QED
        BY <4>1
    <3>10. \A u \in b .. e - 1 : IsHuge(dirs, u) =>
              \A q \in Pages : Block(q) = Block(u) => b <= q /\ q < e
      <4>1. ASSUME NEW u \in b .. e - 1, IsHuge(dirs, u), NEW q \in Pages, Block(q) = Block(u)
            PROVE  b <= q /\ q < e
        <5>1. u \in Pages /\ u \in Span(r)
          BY <3>7
        <5>2. PICK m \in live : \A x \in Pages : Block(x) = Block(u) => x \in Span(m)
          BY <1>2, <4>1, <5>1 DEF HugeWhole
        <5>3. u \in Span(m) /\ q \in Span(m)
          BY <4>1, <5>1, <5>2
        <5>4. m = r
          BY <1>2, <5>1, <5>2, <5>3 DEF LiveOK
        <5> QED
          BY <3>2, <3>8, <5>3, <5>4
      <4> QED
        BY <4>1
    <3>11. dirs \in Dirs /\ tables = Counts(dirs)
      BY <1>2 DEF TreeOK
    <3>12. PICK d \in Dirs : UnmapPages(b, e) = W(d, Counts(d), e) /\ Cleared(dirs, d, b, e)
      BY <3>2, <3>9, <3>10, <3>11, UnmapWalk
    <3>13. dirs' = d /\ tables' = Counts(d)
      BY <3>1, <3>3, <3>12, WIs
    <3>14. /\ \A u \in Pages : Tr(d, u) = IF b <= u /\ u < e THEN Nil ELSE Tr(dirs, u)
           /\ \A u \in Pages : IsHuge(d, u) => IsHuge(dirs, u)
      BY <3>12 DEF Cleared
    <3>15. \A q \in live : \A u \in Pages : q # r /\ u \in Span(q) => ~(b <= u /\ u < e)
      BY <1>2, <3>2, <3>8 DEF LiveOK
    <3>16. \A u \in Pages : Mapped(u)' <=> Mapped(u) /\ ~(b <= u /\ u < e)
      <4>1. ASSUME NEW u \in Pages, Mapped(u)' PROVE Mapped(u) /\ ~(b <= u /\ u < e)
        BY <3>1, <3>15, <4>1 DEF Mapped
      <4>2. ASSUME NEW u \in Pages, Mapped(u), ~(b <= u /\ u < e) PROVE Mapped(u)'
        BY <3>1, <3>2, <3>8, <4>2 DEF Mapped
      <4> QED
        BY <4>1, <4>2
    <3>17. LiveOK'
      <4>1. live' \subseteq live /\ IsFiniteSet(live')
        BY <1>2, <3>1, FS_RemoveElement DEF LiveOK
      <4> QED
        BY <1>2, <4>1 DEF LiveOK
    <3>18. SharedOut'
      <4>1. ASSUME NEW u \in Pages PROVE Covers(free', u) <=> ~Mapped(u)'
        <5>1. Covers(free, u) <=> ~Mapped(u)
          BY <1>2 DEF SharedOut
        <5> QED
          BY <3>5, <3>16, <5>1
      <4> QED
        BY <4>1 DEF SharedOut
    <3>19. TreeOK'
      <4>1. ASSUME NEW m \in live', NEW u \in Span(m) PROVE Tr(d, u) = m.phys + u - m.b
        <5>1. m \in live /\ m # r
          BY <3>1
        <5>2. u \in Pages
          BY <1>2, <5>1, MapIs
        <5>3. Tr(d, u) = Tr(dirs, u)
          BY <3>14, <3>15, <5>1, <5>2
        <5> QED
          BY <1>2, <5>1, <5>3 DEF TreeOK
      <4>2. ASSUME NEW u \in Pages, ~Mapped(u)' PROVE Tr(d, u) = Nil
        <5>1. ~Mapped(u) \/ (b <= u /\ u < e)
          BY <3>16, <4>2
        <5> QED
          BY <1>2, <3>14, <5>1 DEF TreeOK
      <4> QED
        BY <3>12, <3>13, <4>1, <4>2 DEF TreeOK
    <3>20. HugeWhole'
      <4>1. ASSUME NEW p \in Pages, IsHuge(d, p)
            PROVE  \E m \in live' : \A q \in Pages : Block(q) = Block(p) => q \in Span(m)
        <5>1. PICK m \in live : \A q \in Pages : Block(q) = Block(p) => q \in Span(m)
          BY <1>2, <3>14, <4>1 DEF HugeWhole
        <5>2. Tr(d, p) # Nil
          BY <3>12, <4>1, Unmapped
        <5>3. ~(b <= p /\ p < e)
          BY <3>14, <5>2
        <5>4. p \in Span(m)
          BY <5>1
        <5>5. m # r
          BY <3>2, <3>8, <5>3, <5>4
        <5> QED
          BY <3>1, <5>1, <5>5
      <4> QED
        BY <3>13, <4>1 DEF HugeWhole
    <3>21. Halts'
      BY <3>1 DEF Halts, NoFalseAlarm
    <3> QED
      BY <3>5, <3>6, <3>17, <3>18, <3>19, <3>20, <3>21 DEF IInv
  <2> QED
    BY <2>7, <2>8
<1> QED
  BY <1>7, <1>8

LEMMA Inductive == IInv /\ [Next]_vars => IInv'
<1> SUFFICES ASSUME IInv, [Next]_vars PROVE IInv'
  OBVIOUS
<1>1. CASE \E q \in Requests : MmioAllocMapping(q[1], q[2])
  <2>1. PICK q \in Requests : MmioAllocMapping(q[1], q[2])
    BY <1>1
  <2>2. q[1] \in Nat /\ q[2] \in Nat /\ q[1] < q[2]
    BY RequestAssumption
  <2> QED
    BY <2>1, <2>2, AllocStep
<1>2. CASE \E r \in live : MmioDeallocMapping(r)
  BY <1>2, DeallocStep
<1>3. CASE UNCHANGED vars
  BY <1>3 DEF vars, IInv, Listed, LiveOK, SharedOut, TreeOK, HugeWhole, Halts, NoFalseAlarm, Covers, Mapped
<1> QED
  BY <1>1, <1>2, <1>3 DEF Next

LEMMA Invariant == Spec => []IInv
BY Start, Inductive, PTL DEF Spec

-----------------------------------------------------------------------------
(* What the invariant says *)

LEMMA ListRight == IInv => FreeListOK
<1> SUFFICES ASSUME IInv PROVE FreeListOK
  OBVIOUS
<1>1. Listed(free) /\ Len(free) <= Nodes /\ LiveOK /\ SharedOut /\ TreeOK /\ Halts
  BY DEF IInv
<1>2. /\ Len(free) \in Nat /\ free \in Seq(Interval) /\ DOMAIN free = 1 .. Len(free)
      /\ \A i \in 1 .. Len(free) : /\ free[i].b \in Nat /\ free[i].e \in Nat /\ free[i].b < free[i].e
      /\ \A i, j \in 1 .. Len(free) : i < j => free[i].e < free[j].b
  BY <1>1, ListIs
<1>3. tables \in 0 .. Pdpts * (PdLen + 1)
  <2> DEFINE a == Cardinality(DirSet(dirs))
             b == Cardinality(TableSet(dirs))
             m == Pdpts * PdLen
  <2>1. a \in 0 .. Pdpts /\ b \in 0 .. m /\ tables = a + b
    BY <1>1, Finite DEF TreeOK, Counts
  <2>2. Pdpts \in Nat /\ PdLen \in Nat /\ m \in Nat /\ Pdpts * (PdLen + 1) = m + Pdpts
    BY Sizes
  <2> HIDE DEF a, b, m
  <2> QED
    BY <2>1, <2>2
<1>4. TypeOK
  BY <1>1, <1>2, <1>3 DEF TypeOK, Halts
<1>5. \A i \in 1 .. Len(free) - 1 : free[i].e < free[i + 1].b
  BY <1>1 DEF Listed
<1>6. ASSUME NEW v \in Pages
      PROVE  Cardinality({i \in DOMAIN free : v \in Span(free[i])})
               + Cardinality({r \in live : v \in Span(r)}) = 1
  <2> DEFINE A == {i \in DOMAIN free : v \in Span(free[i])}
             B == {r \in live : v \in Span(r)}
  <2>1. v \in Int
    BY Place
  <2>2. Covers(free, v) <=> A # {}
    BY <1>2 DEF Covers
  <2>3. Mapped(v) <=> B # {}
    BY DEF Mapped
  <2>4. Covers(free, v) <=> ~Mapped(v)
    BY <1>1 DEF SharedOut
  <2>5. ASSUME NEW i \in A, NEW j \in A PROVE i = j
    <3>1. i \in 1 .. Len(free) /\ j \in 1 .. Len(free) /\ v \in Span(free[i]) /\ v \in Span(free[j])
      BY <1>2, <2>5
    <3>2. /\ free[i].b <= v /\ v < free[i].e /\ free[j].b <= v /\ v < free[j].e
          /\ free[i].b \in Nat /\ free[i].e \in Nat /\ free[j].b \in Nat /\ free[j].e \in Nat
      BY <1>2, <2>1, <3>1, SpanIs
    <3>3. ~(free[i].e < free[j].b) /\ ~(free[j].e < free[i].b)
      BY <2>1, <3>2
    <3>4. ~(i < j) /\ ~(j < i)
      BY <1>2, <3>1, <3>3
    <3> QED
      BY <1>2, <3>1, <3>4
  <2>6. ASSUME NEW q \in B, NEW r \in B PROVE q = r
    BY <1>1, <2>6 DEF LiveOK
  <2> HIDE DEF A, B
  <2>7. Cardinality({}) = 0 /\ \A x : Cardinality({x}) = 1
    BY FS_EmptySet, FS_Singleton
  <2>8. CASE Covers(free, v)
    <3>1. PICK i \in A : TRUE
      BY <2>2, <2>8
    <3>2. A = {i} /\ B = {}
      BY <2>3, <2>4, <2>5, <2>8, <3>1
    <3>3. Cardinality(A) = 1 /\ Cardinality(B) = 0
      BY <2>7, <3>2, Zenon
    <3>4. Cardinality(A) + Cardinality(B) = 1
      BY <3>3
    <3> QED
      BY <3>4, Zenon DEF A, B
  <2>9. CASE ~Covers(free, v)
    <3>1. PICK r \in B : TRUE
      BY <2>3, <2>4, <2>9
    <3>2. B = {r} /\ A = {}
      BY <2>2, <2>6, <2>9, <3>1
    <3>3. Cardinality(A) = 0 /\ Cardinality(B) = 1
      BY <2>7, <3>2, Zenon
    <3>4. Cardinality(A) + Cardinality(B) = 1
      BY <3>3
    <3> QED
      BY <3>4, Zenon DEF A, B
  <2> QED
    BY <2>8, <2>9
<1> QED
  BY <1>2, <1>4, <1>5, <1>6 DEF FreeListOK

LEMMA MapsAreRight == IInv => MapsRight
<1> SUFFICES ASSUME IInv PROVE MapsRight
  OBVIOUS
<1>1. LiveOK /\ TreeOK
  BY DEF IInv
<1>2. ASSUME NEW v \in Pages
      PROVE  Translate(v) = IF \E r \in live : v \in Span(r)
                            THEN LET r == CHOOSE q \in live : v \in Span(q)
                                 IN r.phys + v - r.b
                            ELSE Nil
  <2> DEFINE r == CHOOSE q \in live : v \in Span(q)
  <2>1. Translate(v) = Tr(dirs, v)
    BY TranslateIs
  <2>2. CASE \E q \in live : v \in Span(q)
    <3>1. r \in live /\ v \in Span(r)
      BY <2>2
    <3> HIDE DEF r
    <3>2. Tr(dirs, v) = r.phys + v - r.b
      BY <1>1, <3>1 DEF TreeOK
    <3> QED
      BY <2>1, <2>2, <3>2 DEF r
  <2>3. CASE ~ \E q \in live : v \in Span(q)
    BY <1>1, <2>1, <2>3 DEF TreeOK, Mapped
  <2> QED
    BY <2>2, <2>3
<1>3. tables = Cardinality(DirSet(dirs)) + Cardinality(TableSet(dirs))
  BY <1>1 DEF TreeOK, Counts
<1> QED
  BY <1>2, <1>3 DEF MapsRight, DirSet, TableSet

\* The free list is in order, without empty areas and without two that touch,
\* and each page of the area is in exactly one free area or one mapping, however
\* mmio_alloc_mapping and mmio_dealloc_mapping are called: what is given back is
\* joined with its neighbours and can be had again.
THEOREM ListStays == Spec => []FreeListOK
BY Invariant, ListRight, PTL

\* Whatever mixture of small and huge pages pagetable_mmio_map has chosen and
\* whatever tables pagetable_mmio_unmap has freed, each page of a mapping is
\* translated to its physical page, no other page is translated at all, and the
\* pages taken from dynmem are those of the tables that are there.
THEOREM MapsStay == Spec => []MapsRight
BY Invariant, MapsAreRight, PTL

\* A mapping that was handed out can be given back: the assertions on the
\* address only fail when no free area is left behind it, the panic for want of
\* a node takes more mappings than nodes, and pagetable_mmio_map never finds a
\* page present.
THEOREM AlarmsAreTrue == Spec => []NoFalseAlarm
<1>1. IInv => NoFalseAlarm
  BY DEF IInv, Halts
<1> QED
  BY <1>1, Invariant, PTL
=============================================================================
