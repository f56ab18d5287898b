-------------------------------- MODULE Mmio --------------------------------
(***************************************************************************)
(* The virtual memory for I/O: mmio_alloc_mapping and mmio_dealloc_mapping *)
(* (kernel/src/memory.c), with the page tables that pagetable_mmio_map and *)
(* pagetable_mmio_unmap build and free (arch/x86_64/memory.c).  Both hold  *)
(* the meminfo lock with interrupts off, so each call is one step.         *)
(*                                                                         *)
(* Virtual pages are numbered from IOMAP_START_VIRT.  The page directory   *)
(* pointer table of the area is the kernel's own; it is never empty and    *)
(* never freed.                                                            *)
(***************************************************************************)
EXTENDS Integers, Sequences, FiniteSets, SequencesExt

CONSTANTS
    PageSize,       \* bytes of a page
    PtLen, PdLen,   \* PAGETABLE_LENGTH, of page tables and of directories
    Pdpts,          \* directories the area spans
    Nodes,          \* the nodes of the free list
    Requests        \* the [begin, end) physical addresses drivers ask for

ASSUME SizeAssumption == {PageSize, PtLen, PdLen, Pdpts, Nodes} \subseteq Nat \ {0}
\* no driver maps an empty area
ASSUME RequestAssumption == \A q \in Requests : q \in Nat \X Nat /\ q[1] < q[2]

VARIABLES
    free,    \* mmio_freelist.list, as intervals of pages
    dirs,    \* the directories, by their place in the pointer table
    tables,  \* the pages taken from dynmem for directories and page tables
    live,    \* history: the mappings handed out and not given back
    halted   \* why the kernel panicked, or "no"

vars == <<free, dirs, tables, live, halted>>

Area == Pdpts * PdLen * PtLen
Pages == 0 .. Area - 1

I(b, e) == [b |-> b, e |-> e]

Nil == -1
None == [kind |-> "none"]
Huge(phys) == [kind |-> "huge", phys |-> phys]
Table(pt) == [kind |-> "table", pt |-> pt]
EmptyPt == [k \in 0 .. PtLen - 1 |-> Nil]
EmptyPd == [j \in 0 .. PdLen - 1 |-> None]

\* page_iterator_from_virt; the iterator carries like the page number does
Pdpi(v) == (v \div PtLen) \div PdLen
Pdti(v) == (v \div PtLen) % PdLen
Ptei(v) == v % PtLen

-----------------------------------------------------------------------------
(* The page tables; s has the directories, the number of pages taken for   *)
(* them, and the page a walk has come to                                   *)

WithDir(s, i) ==
    IF s.dirs[i] = None THEN [s EXCEPT !.dirs[i] = Table(EmptyPd), !.tables = @ + 1] ELSE s

\* the entry of page v in its directory, made a page table if it was not present
WithPt(s, v) ==
    IF s.dirs[Pdpi(v)].pt[Pdti(v)] = None
    THEN [s EXCEPT !.dirs[Pdpi(v)].pt[Pdti(v)] = Table(EmptyPt), !.tables = @ + 1]
    ELSE s

HugeFits(s, v, end) ==
    s.dirs[Pdpi(v)].pt[Pdti(v)] = None /\ Ptei(v) = 0 /\ end - v >= PtLen

\* one turn of pagetable_mmio_map; page v goes to offset + v
MapOne(s0, end, offset) ==
    LET v == s0.at
        s == WithDir(s0, Pdpi(v))
        t == WithPt(s, v)
    IN IF v >= end THEN s0
       ELSE IF HugeFits(s, v, end)
       THEN [s EXCEPT !.dirs[Pdpi(v)].pt[Pdti(v)] = Huge(offset + v), !.at = v + PtLen]
       ELSE [t EXCEPT !.dirs[Pdpi(v)].pt[Pdti(v)].pt[Ptei(v)] = offset + v, !.at = v + 1]

\* pagetable_mmio_map; there are at most as many turns as pages
MapPages(b, end, phys) ==
    LET w[i \in 0 .. end - b] ==
            IF i = 0 THEN [dirs |-> dirs, tables |-> tables, at |-> b]
            ELSE MapOne(w[i - 1], end, phys - b)
    IN w[end - b]

\* pagetable_is_empty
PtIsEmpty(pt) == \A k \in DOMAIN pt : pt[k] = Nil
PdIsEmpty(pd) == \A j \in DOMAIN pd : pd[j] = None

\* the tables that are freed when the iterator goes from v to next
FreePt(s, v, next) ==
    IF Ptei(v) > Ptei(next) /\ PtIsEmpty(s.dirs[Pdpi(v)].pt[Pdti(v)].pt)
    THEN [s EXCEPT !.dirs[Pdpi(v)].pt[Pdti(v)] = None, !.tables = @ - 1]
    ELSE s
FreePtKeepEntry(s, v, next) ==  \* the entry left in the directory (a fault)
    IF Ptei(v) > Ptei(next) /\ PtIsEmpty(s.dirs[Pdpi(v)].pt[Pdti(v)].pt)
    THEN [s EXCEPT !.tables = @ - 1] ELSE s
FreePd(s, v, next) ==
    IF Pdti(v) > Pdti(next) /\ PdIsEmpty(s.dirs[Pdpi(v)].pt)
    THEN [s EXCEPT !.dirs[Pdpi(v)] = None, !.tables = @ - 1]
    ELSE s

FreeTablesKeepEntry(s, v, next) == FreePd(FreePtKeepEntry(s, v, next), v, next)
FreeTables(s, v, next) == FreePd(FreePt(s, v, next), v, next)

\* one turn of pagetable_mmio_unmap
UnmapOne(s, end) ==
    LET v == s.at
        huge == s.dirs[Pdpi(v)].pt[Pdti(v)].kind = "huge"
        next == IF huge THEN v + PtLen ELSE v + 1
        cleared == IF huge THEN [s EXCEPT !.dirs[Pdpi(v)].pt[Pdti(v)] = None, !.at = next]
                   ELSE [s EXCEPT !.dirs[Pdpi(v)].pt[Pdti(v)].pt[Ptei(v)] = Nil, !.at = next]
    IN IF v >= end THEN s ELSE FreeTables(cleared, v, next)

\* pagetable_mmio_unmap
UnmapPages(b, end) ==
    LET w[i \in 0 .. end - b] ==
            IF i = 0 THEN [dirs |-> dirs, tables |-> tables, at |-> b]
            ELSE UnmapOne(w[i - 1], end)
    IN w[end - b]

\* what the tables make of page v
Translate(v) ==
    LET d == dirs[Pdpi(v)]
        e == d.pt[Pdti(v)]
    IN IF d = None \/ e = None THEN Nil
       ELSE IF e.kind = "huge" THEN e.phys + Ptei(v) ELSE e.pt[Ptei(v)]

-----------------------------------------------------------------------------
(* The free list                                                           *)

Halt(why) == halted' = why /\ UNCHANGED <<free, dirs, tables, live>>

\* the pages of the physical addresses begin up to end
First(begin) == begin \div PageSize
Count(begin, end) == (end - First(begin) * PageSize + PageSize - 1) \div PageSize

Fits(n) == {i \in DOMAIN free : free[i].e - free[i].b >= n}

\* the first node with room takes the request
MmioAllocMapping(begin, end) ==
    LET n == Count(begin, end)
        i == Min(Fits(n))
        v == free[i].b
        s == MapPages(v, v + n, First(begin))
    IN /\ halted = "no"
       /\ IF Fits(n) = {} THEN Halt("run_out")
          ELSE IF \E p \in v .. v + n - 1 : Translate(p) # Nil THEN Halt("present")
          ELSE /\ free' = IF free[i].e - v = n THEN RemoveAt(free, i)
                          ELSE [free EXCEPT ![i].b = v + n]
               /\ dirs' = s.dirs /\ tables' = s.tables
               /\ live' = live \union {[b |-> v, e |-> v + n, phys |-> First(begin)]}
               /\ UNCHANGED halted

NotJoined(f, i) == f  \* (a fault)

\* the free list with a gap before node i closed
Joined(f, i) ==
    IF i > 1 /\ f[i - 1].e = f[i].b
    THEN RemoveAt([f EXCEPT ![i - 1].e = f[i].e], i) ELSE f

\* the area b up to e goes before node i
GivenBack(b, e, i) ==
    IF e = free[i].b THEN Joined([free EXCEPT ![i].b = b], i)
    ELSE IF i > 1 /\ free[i - 1].e = b THEN Joined([free EXCEPT ![i - 1].e = e], i)
    ELSE InsertAt(free, i, I(b, e))

Touches(b, e, i) == e = free[i].b \/ (i > 1 /\ free[i - 1].e = b)

After(v) == {i \in DOMAIN free : v < free[i].b}

MmioDeallocMapping(r) ==
    LET i == Min(After(r.b))
        beforeEnd == IF i > 1 THEN free[i - 1].e ELSE 0
        s == UnmapPages(r.b, r.e)
    IN /\ halted = "no"
       /\ IF After(r.b) = {} THEN Halt("invalid_address")
          ELSE IF ~(beforeEnd <= r.b /\ r.e <= free[i].b) THEN Halt("invalid_address")
          ELSE IF ~Touches(r.b, r.e, i) /\ Len(free) = Nodes THEN Halt("fragmented")
          ELSE /\ free' = GivenBack(r.b, r.e, i)
               /\ dirs' = s.dirs /\ tables' = s.tables
               /\ live' = live \ {r}
               /\ UNCHANGED halted

Init ==
    /\ free = <<I(0, Area)>>
    /\ dirs = [i \in 0 .. Pdpts - 1 |-> None]
    /\ tables = 0
    /\ live = {}
    /\ halted = "no"

Next == \/ \E q \in Requests : MmioAllocMapping(q[1], q[2])
        \/ \E r \in live : MmioDeallocMapping(r)

Spec == Init /\ [][Next]_vars

-----------------------------------------------------------------------------
Interval == [b : 0 .. Area, e : 0 .. Area]

TypeOK ==
    /\ free \in Seq(Interval) /\ Len(free) <= Nodes
    /\ tables \in 0 .. Pdpts * (PdLen + 1)
    /\ halted \in {"no", "run_out", "invalid_address", "fragmented"}

Span(r) == r.b .. r.e - 1

\* The free list has its areas in order, none empty and no two touching, and
\* every page is in exactly one free area or one mapping: what is given back
\* can be had again, and in one piece.  (The first fit and the three ways of
\* joining an area with its neighbours.)
FreeListOK ==
    /\ TypeOK
    /\ \A i \in DOMAIN free : free[i].b < free[i].e
    /\ \A i \in 1 .. Len(free) - 1 : free[i].e < free[i + 1].b
    /\ \A v \in Pages :
         Cardinality({i \in DOMAIN free : v \in Span(free[i])})
           + Cardinality({r \in live : v \in Span(r)}) = 1

\* The tables map each page of a mapping to its physical page and no other
\* page at all, through any mixture of small and huge pages, and never more
\* pages than were taken from dynmem.  (Carrying of the page iterator,
\* splitting into huge pages, and freeing of empty tables.)
MapsRight ==
    /\ \A v \in Pages :
         Translate(v) = IF \E r \in live : v \in Span(r)
                        THEN LET r == CHOOSE q \in live : v \in Span(q)
                             IN r.phys + v - r.b
                        ELSE Nil
    /\ tables = Cardinality({i \in DOMAIN dirs : dirs[i] # None})
                + Cardinality({ij \in (DOMAIN dirs) \X (0 .. PdLen - 1) :
                                 /\ dirs[ij[1]] # None
                                 /\ dirs[ij[1]].pt[ij[2]].kind = "table"})

\* Giving back what was handed out only panics for want of a node, which
\* takes more mappings than there are nodes, or when no free area reaches to
\* the end of the whole area: nothing free is behind it then.  (The two
\* assertions on the address, and the panic of mmio_freelist_newnode.)
NoFalseAlarm ==
    /\ halted = "invalid_address" => free = <<>> \/ Last(free).e < Area
    /\ halted = "fragmented" => Len(free) = Nodes /\ Cardinality(live) > Nodes
    /\ halted # "present"

\* Every huge page begins at a multiple of its size, as the processor wants
\* it.  (pagetable_mmio_map, for which the header only wants addresses that
\* are multiples of the page size.)
HugeAligned ==
    \A i \in DOMAIN dirs : dirs[i] # None =>
        \A j \in 0 .. PdLen - 1 :
            dirs[i].pt[j].kind = "huge" => dirs[i].pt[j].phys % PtLen = 0
=============================================================================
