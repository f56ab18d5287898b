----------------------------- MODULE BootMemory -----------------------------
(***************************************************************************)
(* What memory_init does before the buddy allocator starts: the memory map *)
(* of the boot loader is sorted and cut into whole pages                   *)
(* (construct_mmap_dyn), and one virtual area is made of them, page after  *)
(* page, by page tables that live in the first pages of that very area     *)
(* (pagetable_construct_dyn).  One step gives one page to dynpage_factory. *)
(*                                                                         *)
(* Virtual pages of the area are numbered from DYNMEM_START_VIRT.  Memory  *)
(* nothing was written to holds junk, which the processor may take for a   *)
(* present entry.                                                          *)
(***************************************************************************)
EXTENDS Integers, Sequences, SequencesExt

CONSTANTS
    PageSize,   \* bytes of a page
    Len4,       \* PAGETABLE_LENGTH
    Minimum,    \* DYNMEM_START_PHYS_MINIMUM
    Wrap,       \* the number of pages 32 bits can address
    Maps        \* the memory maps a boot loader may pass

Entry == [base : Nat, len : Nat, available : BOOLEAN]

ASSUME LayoutAssumption ==
    /\ PageSize \in Nat \ {0} /\ Wrap \in Nat
    /\ Len4 \in Nat /\ Len4 >= 5
    /\ Minimum \in Nat /\ Minimum % PageSize = 0
    /\ Maps \subseteq Seq(Entry)

-----------------------------------------------------------------------------
(* sort(): heapsort, of the entries 0 to n - 1                             *)

Swap(a, i, j) == [a EXCEPT ![i + 1] = a[j + 1], ![j + 1] = a[i + 1]]
Base(a, i) == a[i + 1].base

\* one turn of the loop that repairs the heap; its last one changes nothing
Sift(s, end) ==
    LET left == s.root * 2 + 1
        child == IF left + 1 < end /\ Base(s.a, left) < Base(s.a, left + 1)
                 THEN left + 1 ELSE left
    IN IF left >= end \/ Base(s.a, s.root) >= Base(s.a, child) THEN s
       ELSE [a |-> Swap(s.a, s.root, child), root |-> child]

Repair(a, root, end) ==
    LET turn[k \in 0 .. end] ==
          IF k = 0 THEN [a |-> a, root |-> root] ELSE Sift(turn[k - 1], end)
    IN turn[end].a

\* the turns of the outer loop that bring start down to 0
Heapify(a) ==
    LET start == Len(a) \div 2
        turn[k \in 0 .. start] ==
          IF k = 0 THEN a ELSE Repair(turn[k - 1], start - k, Len(a))
    IN turn[start]

\* the turns that bring end down to 1
Sort(a) ==
    LET n == Len(a)
        turn[k \in 0 .. n - 1] ==
          IF k = 0 THEN Heapify(a) ELSE Repair(Swap(turn[k - 1], n - k, 0), 0, n - k)
    IN IF n = 0 THEN a ELSE turn[n - 1]

-----------------------------------------------------------------------------
(* construct_mmap_dyn                                                      *)

RoundDown(x) == (x \div PageSize) * PageSize
RoundUp(x) == RoundDown(x + PageSize - 1)

\* one entry, after what the entries before it left in out
FromPrev(out, base) ==  \* starts may lie before the end of the last (a fault)
    RoundUp(base)
Start(out, base) ==
    LET aligned == RoundUp(base)
        prevEnd == IF out = <<>> THEN Minimum ELSE Last(out).base + Last(out).len
    IN IF aligned < prevEnd THEN prevEnd ELSE aligned

Cut(out, e) ==
    LET start == Start(out, e.base)
        end == RoundDown(e.base + e.len)
    IN IF ~e.available \/ start >= end THEN out
       ELSE Append(out, [base |-> start, len |-> end - start])

ConstructMmapDyn(entries) ==
    LET a == Sort(entries)
        out[i \in 0 .. Len(a)] == IF i = 0 THEN <<>> ELSE Cut(out[i - 1], a[i])
    IN out[Len(a)]

VARIABLES
    map,     \* bootinfo_get()->mmap
    dyn,     \* g_mmap_dyn
    pages,   \* pages given to the factory
    f        \* the factory, and the memory that it writes

vars == <<map, dyn, pages, f>>

\* pages of the entries up to i
Sum(i) ==
    LET sum[k \in 0 .. Len(dyn)] == IF k = 0 THEN 0 ELSE sum[k - 1] + dyn[k].len
    IN sum[i] \div PageSize

\* virt_to_phys_dynmem
VirtToPhys(v) ==
    LET i == CHOOSE k \in DOMAIN dyn : v < Sum(k) /\ v >= Sum(k - 1)
    IN dyn[i].base \div PageSize + v - Sum(i - 1)

\* phys_to_virt_dynmem
PhysToVirt(p) ==
    LET i == CHOOSE k \in DOMAIN dyn : /\ dyn[k].base <= p * PageSize
                                       /\ p * PageSize < dyn[k].base + dyn[k].len
    IN Sum(i - 1) + p - dyn[i].base \div PageSize

Total == Sum(Len(dyn))

-----------------------------------------------------------------------------
(* Page tables in memory                                                   *)

Nil == -1
Junk == -2
Root == -3
Tmp == -4

Filled(x) == [k \in 0 .. Len4 - 1 |-> x]
At(mem, p) == IF p \in DOMAIN mem THEN mem[p] ELSE Filled(Junk)
SetTable(mem, p, table) ==
    [q \in DOMAIN mem \cup {p} |-> IF q = p THEN table ELSE mem[q]]
Put(mem, p, k, x) == SetTable(mem, p, [At(mem, p) EXCEPT ![k] = x])

\* the walk of the processor along four indices
Enter(mem, p, k) == IF p \in {Nil, Junk} THEN p ELSE At(mem, p)[k]
Walk(mem, ix) ==
    Enter(mem, Enter(mem, Enter(mem, Enter(mem, Root, ix[1]), ix[2]), ix[3]), ix[4])

\* the indices of a virtual page; the area begins at the second page table
Indices(v) ==
    LET n == v + Len4
        pt == n \div Len4
        pdt == pt \div Len4
    IN <<pdt \div Len4, pdt % Len4, pt % Len4, n % Len4>>

\* pagetable_construct_dyn_3: the first three pages through a table that
\* stands for itself at two levels
ConstructDyn3(mem0, p) ==
    LET tmp == [[[[[Filled(Junk) EXCEPT ![0] = Tmp] EXCEPT ![1] = Tmp]
                  EXCEPT ![2] = p[1]] EXCEPT ![3] = p[2]] EXCEPT ![4] = p[3]]
        mem == SetTable(Put(mem0, Root, 1, Tmp), Tmp, tmp)
        pdpt0 == Walk(mem, <<1, 0, 1, 2>>)
        pdt0 == Walk(mem, <<1, 0, 1, 3>>)
        pt0 == Walk(mem, <<1, 0, 1, 4>>)
        m1 == Put(Put(Put(mem, Root, 0, p[1]), pdpt0, 0, p[2]), pdt0, 1, p[3])
        m2 == Put(Put(Put(m1, pt0, 0, p[1]), pt0, 1, p[2]), pt0, 2, p[3])
    IN Put(m2, Root, 1, Nil)

\* the table of a level: the root, or a virtual page of the area
TablePage(s, level) == IF level = 0 THEN Root ELSE Walk(s.mem, Indices(s.tables[level]))

\* dynpage_factory_next_recur, up to the recursive call: a table that is full
\* is followed by the next page of the area
Full(s, level) == s.indices[level] >= Len4
Going(s) == s.stopped = "no"
Begin(s, level) ==
    LET page == Walk(s.mem, Indices(s.next))
    IN IF level = 0 /\ s.indices[0] >= Len4 \div 2 THEN [s EXCEPT !.stopped = "out_of_bound"]
       ELSE IF ~Full(s, level) THEN s
       ELSE IF page \in {Nil, Junk} THEN [s EXCEPT !.stopped = "page_fault"]
       ELSE [s EXCEPT !.mem = SetTable(@, page, Filled(Nil)),
                      !.tables[level] = s.next, !.indices[level] = 0,
                      !.next = @ + 1, !.metapages = @ + 1]

\* ... and after it: the address is entered into the table
Finish(s, level, addr) ==
    LET to == TablePage(s, level)
    IN IF ~Going(s) THEN s
       ELSE IF to \in {Nil, Junk} THEN [s EXCEPT !.stopped = "page_fault"]
       ELSE [s EXCEPT !.mem = Put(@, to, s.indices[level], addr), !.indices[level] = @ + 1]

Recur(Above(_, _), s, level, addr) ==
    LET t == Begin(s, level)
    IN Finish(IF Full(s, level) /\ Going(t) THEN Above(t, VirtToPhys(s.next) % Wrap) ELSE t,
              level, addr)

\* level 0 is never full: the assertion comes before
NextRecur0(s, addr) == Finish(Begin(s, 0), 0, addr)
NextRecur1(s, addr) == Recur(NextRecur0, s, 1, addr)
NextRecur2(s, addr) == Recur(NextRecur1, s, 2, addr)
NextRecur(s, addr) == Recur(NextRecur2, s, 3, addr)

\* dynpage_factory_create
FactoryOneOff == [next |-> 3, tables |-> [l \in 1 .. 3 |-> l - 1],
                     indices |-> [l \in 0 .. 3 |-> <<1, 1, 1, 3>>[l + 1]], metapages |-> 0,
                     first3 |-> <<>>, mem |-> [p \in {Root} |-> Filled(Nil)],
                     stopped |-> "no"]  \* an index one off (a fault)
Factory == [next |-> 3, tables |-> [l \in 1 .. 3 |-> l - 1],
            indices |-> [l \in 0 .. 3 |-> <<1, 1, 2, 3>>[l + 1]], metapages |-> 0,
            first3 |-> <<>>, mem |-> [p \in {Root} |-> Filled(Nil)], stopped |-> "no"]

\* dynpage_factory_next
FactoryNext(addr) ==
    LET first == Append(f.first3, addr)
    IN IF Len(f.first3) = 3 THEN NextRecur(f, addr)
       ELSE IF Len(first) < 3 THEN [f EXCEPT !.first3 = first]
       ELSE [f EXCEPT !.first3 = first, !.metapages = 3, !.mem = ConstructDyn3(@, first)]

\* the loop of pagetable_construct_dyn
NextPage ==
    /\ pages < Total /\ Going(f)
    /\ f' = FactoryNext(VirtToPhys(pages))
    /\ pages' = pages + 1
    /\ UNCHANGED <<map, dyn>>

Init ==
    /\ map \in Maps
    /\ dyn = ConstructMmapDyn(map)
    /\ pages = 0
    /\ f = Factory

Spec == Init /\ [][NextPage]_vars

-----------------------------------------------------------------------------
\* Every variable has its type.
TypeOK ==
    /\ map \in Maps /\ dyn \in Seq([base : Nat, len : Nat])
    /\ pages \in 0 .. Total
    /\ f.stopped \in {"no", "page_fault", "out_of_bound"}
    /\ f.metapages \in 0 .. Total
    /\ \A l \in 0 .. 3 : f.indices[l] \in 0 .. Len4

\* pages that lie whole in one available entry
Usable == UNION {{p \in Minimum \div PageSize .. (e.base + e.len) \div PageSize - 1 :
                     e.base <= p * PageSize} : e \in {x \in ToSet(map) : x.available}}

\* The dynamic memory map is in order, has no page twice, and has exactly the
\* pages above the minimum that lie whole in one available entry, however the
\* boot loader's entries are ordered, aligned and nested.  (sort and the cuts
\* of construct_mmap_dyn.)
MapOK ==
    LET phys == [v \in 0 .. Total - 1 |-> VirtToPhys(v)]
    IN /\ TypeOK
       /\ \A v \in 1 .. Total - 1 : phys[v - 1] < phys[v]
       /\ {phys[v] : v \in 0 .. Total - 1} = Usable
       /\ \A v \in 0 .. Total - 1 : PhysToVirt(phys[v]) = v

\* the pages of the lower half of the root table, from the second page table on
Area == (Len4 \div 2) * Len4 * Len4 * Len4 - Len4

\* the page tables below address 2^32
TablesLow == \A v \in 0 .. f.metapages - 1 : VirtToPhys(v) < Wrap

\* Once three pages are known, every page given so far is mapped to its
\* place, without a fault, and nothing else is mapped, save by what happened
\* to be in the first three tables; the tables are the first pages of the
\* area, which the buddy allocator is told to leave alone.  The tables have
\* to lie where 32 bits reach.  (The factory maps the pages of its own next
\* tables before it needs them.)
TablesOK ==
    TablesLow => /\ f.stopped # "page_fault"
                 /\ f.stopped = "out_of_bound" => pages = Area + 1
                 /\ f.metapages > 0 => \A v \in 0 .. Area - 1 :
                      Walk(f.mem, Indices(v)) \in
                        IF v < pages THEN {VirtToPhys(v)} ELSE {Nil, Junk}
                 /\ DOMAIN f.mem \ {Root, Tmp} = {VirtToPhys(v) : v \in 0 .. f.metapages - 1}
=============================================================================
