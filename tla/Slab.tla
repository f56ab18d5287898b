-------------------------------- MODULE Slab --------------------------------
(***************************************************************************)
(* The slab allocator of libslab/src/slab.c: objects of one size in pages  *)
(* taken from a page allocator one by one.  Each page threads its free     *)
(* slots through their headers; pages with a free slot are linked into     *)
(* partial_list; a page is given back as soon as its last object is.       *)
(*                                                                         *)
(* Slots are numbered from 1 instead of by offset, 0 is the null index.  A *)
(* redzone or an unused payload is represented by whether it still holds   *)
(* its fill pattern.  The page allocator (dynmem_alloc in the kernel) is   *)
(* external: it gives any page that it has, or NULL.                       *)
(***************************************************************************)
EXTENDS Integers, Sequences, FiniteSets

CONSTANTS
  Pages,       \* the pages the page allocator has
  Slots        \* the slots page_init makes of a page

ASSUME SlabAssumption == IsFiniteSet(Pages) /\ Slots \in Nat \ {0}

VARIABLES
  owned,       \* the pages the slab has taken and not given back
  mem,         \* mem[p]: struct page and the slots of page p
  partial,     \* slab->partial_list, from head to tail
  panicked,    \* an assertion has failed
  objs,        \* history: the objects that are out
  misused,     \* history: a caller has broken its part of the contract
  ret          \* history: the object slab_alloc has just returned, or Null

vars == <<owned, mem, partial, panicked, objs, misused, ret>>

Slot == 1..Slots
Object == Pages \X Slot
Null == <<>>

-----------------------------------------------------------------------------
(* Slots and pages *)

EmptySlot(next) ==
  [magic |-> "empty", next |-> next, redzone |-> TRUE, unused |-> TRUE]

\* Fault: the last slot is linked to the first one.
PageInitCyclic ==
  [free_index |-> 1, alloc_count |-> 0,
   slots |-> [s \in Slot |-> EmptySlot(IF s < Slots THEN s + 1 ELSE 1)]]

\* page_init
PageInit ==
  [free_index |-> 1, alloc_count |-> 0,
   slots |-> [s \in Slot |-> EmptySlot(IF s < Slots THEN s + 1 ELSE 0)]]

\* page_pop_front takes slot free_index; the page is full if none is left.
PopFront(pg) ==
  [pg EXCEPT !.free_index = pg.slots[pg.free_index].next,
             !.slots[pg.free_index].next = 0,
             !.alloc_count = @ + 1]

\* Fault: the slot is not linked to the rest of the list.
PushFrontUnlinked(pg, s) ==
  [pg EXCEPT !.free_index = s, !.alloc_count = @ - 1]

\* page_push_front
PushFront(pg, s) ==
  [pg EXCEPT !.slots[s].next = pg.free_index,
             !.free_index = s,
             !.alloc_count = @ - 1]

\* The assertions of slot_on_alloc and slot_on_dealloc ...
Allocable(slot) ==
  slot.magic = "empty" /\ slot.next = 0 /\ slot.redzone /\ slot.unused

Deallocable(slot) ==
  slot.magic = "object" /\ slot.next = 0 /\ slot.redzone

\* ... and what they do to the slot.
OnAlloc(pg, s) == [pg EXCEPT !.slots[s].magic = "object", !.slots[s].unused = FALSE]

OnDealloc(pg, s) == [pg EXCEPT !.slots[s].magic = "empty", !.slots[s].unused = TRUE]

\* linkedlist_remove
Unlink(list, p) ==
  LET i == CHOOSE n \in 1..Len(list) : list[n] = p
  IN  SubSeq(list, 1, i - 1) \o SubSeq(list, i + 1, Len(list))

-----------------------------------------------------------------------------
(* The operations *)

\* slab_init
Init ==
  /\ owned = {}
  /\ mem = [p \in Pages |-> PageInit]
  /\ partial = <<>>
  /\ panicked = FALSE
  /\ objs = {}
  /\ misused = FALSE
  /\ ret = Null

Panic ==
  /\ panicked' = TRUE
  /\ ret' = Null
  /\ UNCHANGED objs

\* slab_alloc from page pg at p, once the page is found: list is the partial
\* list with p in it.
TakeFrom(p, pg, list) ==
  LET s == pg.free_index
      popped == PopFront(pg)
  IN  /\ s # 0                                                    \* assert
      /\ partial' = IF popped.free_index = 0 THEN Unlink(list, p) ELSE list
      /\ \/ /\ Allocable(popped.slots[s])
            /\ mem' = [mem EXCEPT ![p] = OnAlloc(popped, s)]
            /\ objs' = objs \cup {<<p, s>>}
            /\ ret' = <<p, s>>
            /\ UNCHANGED panicked
         \/ /\ ~Allocable(popped.slots[s])
            /\ mem' = [mem EXCEPT ![p] = popped]
            /\ Panic

\* slab_alloc with a page in the partial list.
AllocPartial ==
  /\ ~panicked
  /\ partial # <<>>
  /\ TakeFrom(Head(partial), mem[Head(partial)], partial)
  /\ UNCHANGED <<owned, misused>>

\* slab_alloc with a new page.
AllocNewPage(p) ==
  /\ ~panicked
  /\ partial = <<>>
  /\ p \notin owned
  /\ owned' = owned \cup {p}
  /\ TakeFrom(p, PageInit, <<p>>)
  /\ UNCHANGED misused

\* slab_alloc returns NULL: the page allocator has no page.
AllocNull ==
  /\ ~panicked
  /\ partial = <<>>
  /\ ret' = Null
  /\ UNCHANGED <<owned, mem, partial, panicked, objs, misused>>

\* Fault: a page that was full is not linked in again.
DeallocForgetsPage(p, s) ==
  LET pg == mem[p]
      freed == PushFront(OnDealloc(pg, s), s)
      was_full == pg.free_index = 0
  IN  /\ Deallocable(pg.slots[s])
      /\ mem' = [mem EXCEPT ![p] = freed]
      /\ objs' = objs \ {<<p, s>>}
      /\ \/ /\ freed.alloc_count = 0
            /\ partial' = IF was_full THEN partial ELSE Unlink(partial, p)
            /\ owned' = owned \ {p}
         \/ /\ freed.alloc_count # 0
            /\ UNCHANGED <<owned, partial>>
      /\ ret' = Null
      /\ UNCHANGED panicked

\* Fault: a page given back stays linked.
DeallocKeepsLink(p, s) ==
  LET pg == mem[p]
      freed == PushFront(OnDealloc(pg, s), s)
      was_full == pg.free_index = 0
  IN  /\ Deallocable(pg.slots[s])
      /\ mem' = [mem EXCEPT ![p] = freed]
      /\ objs' = objs \ {<<p, s>>}
      /\ partial' = IF was_full THEN Append(partial, p) ELSE partial
      /\ owned' = IF freed.alloc_count = 0 THEN owned \ {p} ELSE owned
      /\ ret' = Null
      /\ UNCHANGED panicked

\* slab_dealloc of the object in slot s of page p.
DeallocObject(p, s) ==
  LET pg == mem[p]
      freed == PushFront(OnDealloc(pg, s), s)
      was_full == pg.free_index = 0
  IN  /\ Deallocable(pg.slots[s])
      /\ mem' = [mem EXCEPT ![p] = freed]
      /\ objs' = objs \ {<<p, s>>}
      /\ \/ /\ freed.alloc_count = 0
            /\ partial' = IF was_full THEN partial ELSE Unlink(partial, p)
            /\ owned' = owned \ {p}
         \/ /\ freed.alloc_count # 0
            /\ partial' = IF was_full THEN Append(partial, p) ELSE partial
            /\ UNCHANGED owned
      /\ ret' = Null
      /\ UNCHANGED panicked

\* slab_dealloc finds the slot not allocated or its redzone damaged.
DeallocPanics(p, s) ==
  /\ ~Deallocable(mem[p].slots[s])
  /\ Panic
  /\ UNCHANGED <<owned, mem, partial>>

Dealloc(p, s) ==
  /\ ~panicked
  /\ DeallocObject(p, s) \/ DeallocPanics(p, s)
  /\ misused' = (misused \/ <<p, s>> \notin objs)

-----------------------------------------------------------------------------
(* The callers (external) *)

\* A caller writes beyond the end of its object.
Overrun(p, s) ==
  /\ ~panicked
  /\ <<p, s>> \in objs
  /\ mem' = [mem EXCEPT ![p].slots[s].redzone = FALSE]
  /\ misused' = TRUE
  /\ ret' = Null
  /\ UNCHANGED <<owned, partial, panicked, objs>>

\* A caller writes to an object it has given back.
UseAfterFree(p, s) ==
  /\ ~panicked
  /\ <<p, s>> \notin objs
  /\ mem' = [mem EXCEPT ![p].slots[s].unused = FALSE]
  /\ misused' = TRUE
  /\ ret' = Null
  /\ UNCHANGED <<owned, partial, panicked, objs>>

Next ==
  \/ AllocPartial
  \/ \E p \in Pages : AllocNewPage(p)
  \/ AllocNull
  \/ \E p \in owned, s \in Slot : Dealloc(p, s) \/ Overrun(p, s) \/ UseAfterFree(p, s)

Spec == Init /\ [][Next]_vars

-----------------------------------------------------------------------------
(* Properties *)

\* Every variable has its type.
TypeOK ==
  /\ owned \subseteq Pages
  /\ mem \in [Pages -> [free_index : 0..Slots, alloc_count : 0..Slots,
                        slots : [Slot -> [magic : {"empty", "object"}, next : 0..Slots,
                                          redzone : BOOLEAN, unused : BOOLEAN]]]]
  /\ partial \in Seq(Pages)
  /\ panicked \in BOOLEAN
  /\ objs \subseteq Object
  /\ misused \in BOOLEAN
  /\ ret \in Object \cup {Null}

LiveIn(p) == {s \in Slot : <<p, s>> \in objs}

\* The slots in q, in this order, are what page pg threads from free_index.
IsFreeList(pg, q) ==
  /\ pg.free_index = IF q = <<>> THEN 0 ELSE q[1]
  /\ \A i \in 1..Len(q) : pg.slots[q[i]].next = IF i < Len(q) THEN q[i + 1] ELSE 0
  /\ \A i, j \in 1..Len(q) : q[i] = q[j] => i = j

\* The free list of a page visits every slot that is not out exactly once,
\* in whatever order objects came back: no cycle, no slot lost, no slot that
\* is still out.  The header of a slot says whether its object is out, so that
\* freeing an object twice is always caught while its page is owned.
FreeListOK ==
  /\ TypeOK
  /\ ~panicked => \A p \in owned :
       /\ \E n \in 0..Slots : \E q \in [1..n -> Slot] :
            /\ IsFreeList(mem[p], q)
            /\ {q[i] : i \in 1..n} = Slot \ LiveIn(p)
       /\ \A s \in Slot :
            /\ mem[p].slots[s].magic = "object" <=> <<p, s>> \in objs
            /\ <<p, s>> \in objs => mem[p].slots[s].next = 0

\* A page is owned exactly as long as it holds an object, and counts them: it
\* is given back with its last object and never earlier.  partial_list links
\* exactly the owned pages that have a free slot, once each, so slab_alloc asks
\* for a new page only when every slot is out.
PagesOK ==
  /\ \A o \in objs : o[1] \in owned
  /\ ~panicked =>
       /\ \A p \in owned : LiveIn(p) # {} /\ mem[p].alloc_count = Cardinality(LiveIn(p))
       /\ {partial[i] : i \in 1..Len(partial)} = {p \in owned : LiveIn(p) # Slot}
       /\ \A i, j \in 1..Len(partial) : partial[i] = partial[j] => i = j

\* No assertion of the allocator fails unless a caller wrote where it must
\* not, or freed what it does not hold; that of page_pop_front never does.
NoFalseAlarm ==
  /\ panicked => misused
  /\ ~panicked /\ partial # <<>> => mem[Head(partial)].free_index # 0

\* Until a caller breaks its part of the contract, redzones and the payloads
\* of free slots keep their fill patterns.
Undamaged ==
  ~misused => \A p \in owned, s \in Slot :
                /\ mem[p].slots[s].redzone
                /\ <<p, s>> \notin objs => mem[p].slots[s].unused

\* The inductive invariant of the proofs.
IInv ==
  /\ FreeListOK
  /\ PagesOK
  /\ NoFalseAlarm
  /\ Undamaged

\* slab_alloc never returns an object that is still out, neither the one it
\* returned just before nor any other, also after misuse.  (Every step but a
\* slab_alloc that returns an object sets ret to Null.)
FreshObject == [][ret' # Null => ret' \notin objs]_vars

=============================================================================
