-------------------------------- MODULE Buddy --------------------------------
(***************************************************************************)
(* The buddy allocator of libbuddy/src/buddy.c, at the granularity of one  *)
(* loop iteration per step: buddy_init fills one bitmap per step,          *)
(* buddy_alloc_slice splits the block it took one level per step and       *)
(* buddy_dealloc merges one level per step.  The kernel calls it under     *)
(* g_meminfo.lock, so one operation runs at a time.                        *)
(*                                                                         *)
(* Addresses are offsets from data_addr.  Arguments of the operations are  *)
(* in bytes, everything else in units of BUDDY_UNIT bytes.  A bitmap is    *)
(* the set of the indices of its 1 bits with the cached count of them.     *)
(***************************************************************************)
EXTENDS Integers, FiniteSets, FiniteSetsExt

CONSTANTS
  Unit,        \* BUDDY_UNIT
  Units,       \* buddy->units
  Levels,      \* buddy->levels, which is also buddy->bitmaps_len
  BlockLen,    \* BlockLen[l] = 1 << l, the units in a block of level l
  BlockCount,  \* BlockCount[l], the bits of the bitmap of level l
  MaxLen       \* bound: the largest length, in bytes, a caller asks for

VARIABLES
  pc,          \* the loop that is running, or "idle" between operations
  bitmaps,     \* buddy->bitmaps
  used,        \* buddy->used
  lvl,         \* idx of buddy_init, below + 1 of the split loop, current
  blk,         \* block_count of buddy_init, (below_)block_index
  need,        \* aligned_len of buddy_alloc_slice
  fit,         \* bitmap_idx_fit
  ptr,         \* the ptr of the slice buddy_alloc_slice will return
  live,        \* history: the slices the callers hold
  asked,       \* history: the units the last allocation to return had needed
  ret          \* history: the slice it returned

vars == <<pc, bitmaps, used, lvl, blk, need, fit, ptr, live, asked, ret>>

Level == 0..(Levels - 1)

(***************************************************************************)
(* What buddy_info_calc_metadata leaves behind.  Its loop starts with one  *)
(* block per unit, halves block_count, and stops at the level with exactly *)
(* one block.  With at most 19 levels the int expression BUDDY_UNIT <<     *)
(* level and the uint32_t allocated_len hold a block's length exactly.     *)
(***************************************************************************)
ASSUME LayoutAssumption ==
  /\ Unit \in Nat \ {0}
  /\ Units \in Nat \ {0}
  /\ Levels \in 1..19
  /\ MaxLen \in Nat
  /\ BlockLen \in [0..Levels -> Nat]
  /\ BlockLen[0] = 1
  /\ \A l \in Level : BlockLen[l + 1] = 2 * BlockLen[l]
  /\ BlockCount \in [Level -> Nat]
  /\ BlockCount[0] = Units
  /\ \A l \in Level : l + 1 \in Level => /\ BlockCount[l] > 1
                                         /\ BlockCount[l + 1] = BlockCount[l] \div 2
  /\ BlockCount[Levels - 1] = 1

-----------------------------------------------------------------------------
(* Blocks and slices *)

NoSlice == [ptr |-> -1, length |-> 0]

\* The slice of block i of level l.
Slice(l, i) == [ptr |-> i * BlockLen[l], length |-> BlockLen[l]]

Apart(s, t) == s.ptr + s.length <= t.ptr \/ t.ptr + t.length <= s.ptr

DivCeil(n, d) == (n + d - 1) \div d

\* bitmap_index_for_size: l is the first level whose blocks hold n units.
Fits(l, n) == n <= BlockLen[l] /\ \A k \in 0..(l - 1) : BlockLen[k] < n

\* Fault: the buddy of a block taken for the block after it.
BuddyIndexFault(i) == i + 1

\* block_index ^ 1
BuddyIndex(i) == IF i % 2 = 0 THEN i + 1 ELSE i - 1

\* Fault: the cached count is not kept.
Set0Fault(b, i) == [bits |-> b.bits \ {i}, count |-> b.count]

\* set_1 and set_0, which keep the cached count of the 1 bits.
Set1(b, i) == [bits  |-> b.bits \cup {i},
               count |-> IF i \in b.bits THEN b.count ELSE b.count + 1]

Set0(b, i) == [bits  |-> b.bits \ {i},
               count |-> IF i \in b.bits THEN b.count - 1 ELSE b.count]

\* get_first_1: i is the lowest 1 bit of b.
IsFirst1(b, i) == i \in b.bits /\ \A j \in b.bits : i <= j

-----------------------------------------------------------------------------
(* The operations *)

Init ==
  /\ pc = "init"
  /\ bitmaps = [l \in Level |-> [bits |-> {}, count |-> 0]]
  /\ used = 0
  /\ lvl = 0
  /\ blk = Units
  /\ need = 0
  /\ fit = 0
  /\ ptr = 0
  /\ live = {}
  /\ asked = 0
  /\ ret = NoSlice

\* The operation returns to its caller and its locals are gone.
Return ==
  /\ pc' = "idle"
  /\ lvl' = 0
  /\ blk' = 0
  /\ need' = 0
  /\ fit' = 0
  /\ ptr' = 0

(* Faulty variants of the operations below (no part of Next): each makes a  *)
(* property of this module fail, which shows that the property can fail.    *)

\* Fault: the last block of an odd level is forgotten.
InitLevelLosesTail ==
  /\ pc = "init"
  /\ IF blk \div 2 # 0
       THEN /\ lvl' = lvl + 1
            /\ blk' = blk \div 2
            /\ UNCHANGED <<pc, need, fit, ptr>>
       ELSE Return
  /\ UNCHANGED <<bitmaps, used, live, asked, ret>>

\* Fault: only the fitting level is searched.
AllocNoMemoryOneLevel(len) ==
  /\ pc = "idle"
  /\ len # 0
  /\ \E f \in Level :
       /\ Fits(f, DivCeil(len, Unit))
       /\ bitmaps[f].count = 0
  /\ asked' = DivCeil(len, Unit)
  /\ ret' = NoSlice
  /\ UNCHANGED <<pc, bitmaps, used, lvl, blk, need, fit, ptr, live>>

\* Fault: the loop goes on below the fitting level.
SplitTooFar ==
  /\ pc = "split"
  /\ lvl >= fit
  /\ bitmaps' = [bitmaps EXCEPT ![lvl - 1] = Set1(@, 2 * blk + 1)]
  /\ lvl' = lvl - 1
  /\ blk' = 2 * blk
  /\ UNCHANGED <<pc, used, need, fit, ptr, live, asked, ret>>

\* Fault: the loop variable is not decremented.
SplitStuck ==
  /\ pc = "split"
  /\ lvl > fit
  /\ bitmaps' = [bitmaps EXCEPT ![lvl - 1] = Set1(@, 2 * blk + 1)]
  /\ UNCHANGED <<pc, used, lvl, blk, need, fit, ptr, live, asked, ret>>

\* Fault: the merged block's own bit stays set.
MergeUpKeepsBit ==
  /\ pc = "merge"
  /\ blk \notin bitmaps[lvl].bits
  /\ LET marked == Set1(bitmaps[lvl], blk)
     IN  /\ BuddyIndex(blk) \in marked.bits
         /\ lvl + 1 < Levels
         /\ bitmaps' = [bitmaps EXCEPT ![lvl] = Set0(marked, BuddyIndex(blk))]
  /\ lvl' = lvl + 1
  /\ blk' = blk \div 2
  /\ UNCHANGED <<pc, used, need, fit, ptr, live, asked, ret>>

\* Fault: merging stops one level too early.
MergeStopEarly ==
  /\ pc = "merge"
  /\ blk \notin bitmaps[lvl].bits
  /\ LET marked == Set1(bitmaps[lvl], blk)
     IN  /\ BuddyIndex(blk) \notin marked.bits \/ lvl + 2 >= Levels
         /\ bitmaps' = [bitmaps EXCEPT ![lvl] = marked]
  /\ used' = used - BlockLen[fit]
  /\ Return
  /\ UNCHANGED <<live, asked, ret>>

\* One iteration of the do-while loop of buddy_init: the last block of a
\* level with an odd number of blocks belongs to no larger block.
InitLevel ==
  /\ pc = "init"
  /\ bitmaps' = [bitmaps EXCEPT ![lvl] =
       IF blk % 2 # 0 THEN [bits |-> {blk - 1}, count |-> 1]
                      ELSE [bits |-> {}, count |-> 0]]
  /\ IF blk \div 2 # 0
       THEN /\ lvl' = lvl + 1
            /\ blk' = blk \div 2
            /\ UNCHANGED <<pc, need, fit, ptr>>
       ELSE Return
  /\ UNCHANGED <<used, live, asked, ret>>

\* buddy_alloc_slice returns NULL: requested memory is too large.
AllocTooLarge(len) ==
  /\ pc = "idle"
  /\ len # 0
  /\ \A l \in Level : BlockLen[l] < DivCeil(len, Unit)
  /\ asked' = DivCeil(len, Unit)
  /\ ret' = NoSlice
  /\ UNCHANGED <<pc, bitmaps, used, lvl, blk, need, fit, ptr, live>>

\* buddy_alloc_slice returns NULL: there is no memory to allocate.
AllocNoMemory(len) ==
  /\ pc = "idle"
  /\ len # 0
  /\ \E f \in Level :
       /\ Fits(f, DivCeil(len, Unit))
       /\ \A k \in f..(Levels - 1) : bitmaps[k].count = 0
  /\ asked' = DivCeil(len, Unit)
  /\ ret' = NoSlice
  /\ UNCHANGED <<pc, bitmaps, used, lvl, blk, need, fit, ptr, live>>

\* buddy_alloc_slice takes the first free block of the first level from the
\* fitting one up that has any.
AllocTake(len) ==
  /\ pc = "idle"
  /\ len # 0
  /\ \E f \in Level : \E k \in f..(Levels - 1) : \E i \in bitmaps[k].bits :
       /\ Fits(f, DivCeil(len, Unit))
       /\ bitmaps[k].count # 0
       /\ \A j \in f..(k - 1) : bitmaps[j].count = 0
       /\ IsFirst1(bitmaps[k], i)
       /\ bitmaps' = [bitmaps EXCEPT ![k] = Set0(@, i)]
       /\ lvl' = k
       /\ blk' = i
       /\ fit' = f
       /\ ptr' = i * BlockLen[k]
  /\ need' = DivCeil(len, Unit)
  /\ pc' = "split"
  /\ UNCHANGED <<used, live, asked, ret>>

\* One iteration of the split loop: the upper half becomes free.
Split ==
  /\ pc = "split"
  /\ lvl > fit
  /\ bitmaps' = [bitmaps EXCEPT ![lvl - 1] = Set1(@, 2 * blk + 1)]
  /\ lvl' = lvl - 1
  /\ blk' = 2 * blk
  /\ UNCHANGED <<pc, used, need, fit, ptr, live, asked, ret>>

\* buddy_alloc_slice accounts for the block and returns it.
AllocReturn ==
  /\ pc = "split"
  /\ ~(lvl > fit)
  /\ used' = used + BlockLen[fit]
  /\ asked' = need
  /\ ret' = [ptr |-> ptr, length |-> BlockLen[fit]]
  /\ live' = live \cup {ret'}
  /\ Return
  /\ UNCHANGED bitmaps

\* Rounding of buddy_dealloc's arguments, in units.
AlignedAddr(addr) == addr \div Unit
AlignedLen(addr, len) == DivCeil(addr + len, Unit) - AlignedAddr(addr)

\* The caller's part of the contract: rounded to units, [addr, addr + len)
\* starts where slice s does and has its size class, as when a caller gives
\* back (ptr, len) with the len it had asked for.
GivesBack(s, addr, len) ==
  /\ s.ptr = AlignedAddr(addr)
  /\ \E l \in Level : s.length = BlockLen[l] /\ Fits(l, AlignedLen(addr, len))

\* buddy_dealloc up to its loop.  With len = 0 it returns at once and
\* changes nothing, which is a stuttering step.
Dealloc(addr, len) ==
  /\ pc = "idle"
  /\ len # 0
  /\ AlignedAddr(addr) < Units
  /\ AlignedAddr(addr) + AlignedLen(addr, len) <= Units
  /\ \E f \in Level :
       /\ Fits(f, AlignedLen(addr, len))
       /\ fit' = f
       /\ lvl' = f
       /\ blk' = AlignedAddr(addr) \div BlockLen[f]
  /\ pc' = "merge"
  /\ UNCHANGED <<bitmaps, used, need, ptr, asked, ret>>

\* One iteration of the loop of buddy_dealloc that goes on: the buddy is
\* free too, both bits are cleared and the parent block is next.
MergeUp ==
  /\ pc = "merge"
  /\ blk \notin bitmaps[lvl].bits                                 \* assert
  /\ LET marked == Set1(bitmaps[lvl], blk)
     IN  /\ BuddyIndex(blk) \in marked.bits
         /\ lvl + 1 < Levels
         /\ bitmaps' = [bitmaps EXCEPT ![lvl] =
                          Set0(Set0(marked, BuddyIndex(blk)), blk)]
  /\ lvl' = lvl + 1
  /\ blk' = blk \div 2
  /\ UNCHANGED <<pc, used, need, fit, ptr, live, asked, ret>>

\* The iteration that leaves the loop, and the accounting after it.
MergeStop ==
  /\ pc = "merge"
  /\ blk \notin bitmaps[lvl].bits                                 \* assert
  /\ LET marked == Set1(bitmaps[lvl], blk)
     IN  /\ BuddyIndex(blk) \notin marked.bits \/ lvl + 1 >= Levels
         /\ bitmaps' = [bitmaps EXCEPT ![lvl] = marked]
  /\ used' = used - BlockLen[fit]
  /\ Return
  /\ UNCHANGED <<live, asked, ret>>

-----------------------------------------------------------------------------
(* The allocator with callers that keep their part of the contract *)

Alloc ==
  \E len \in 1..MaxLen : AllocTooLarge(len) \/ AllocNoMemory(len) \/ AllocTake(len)

GiveBack ==
  \E s \in live, addr \in 0..(Unit * Units - 1), len \in 1..MaxLen :
    /\ GivesBack(s, addr, len)
    /\ Dealloc(addr, len)
    /\ live' = live \ {s}

Step == InitLevel \/ Split \/ AllocReturn \/ MergeUp \/ MergeStop

Next == Step \/ Alloc \/ GiveBack

Spec == Init /\ [][Next]_vars

\* The processor keeps executing the operation that was called.
FairSpec == Spec /\ WF_vars(Step)

-----------------------------------------------------------------------------
(* Properties *)

\* Every variable has its type (used is an Int here: that it never falls
\* below zero follows from AbsSpec).
TypeOK ==
  /\ pc \in {"init", "idle", "split", "merge"}
  /\ bitmaps \in [Level -> [bits : SUBSET Nat, count : Nat]]
  /\ used \in Int
  /\ lvl \in Level
  /\ blk \in Nat
  /\ need \in Nat
  /\ fit \in Level
  /\ ptr \in Nat
  /\ live \subseteq [ptr : Nat, length : Nat]
  /\ asked \in Nat
  /\ ret \in [ptr : Nat, length : Nat] \cup {NoSlice}

\* The slice the running operation holds: what buddy_init has not yet
\* distributed, or the block being split or merged.
Hand ==
  CASE pc = "init" -> {[ptr |-> 0, length |-> blk * BlockLen[lvl]]}
    [] pc \in {"split", "merge"} -> {Slice(lvl, blk)}
    [] OTHER -> {}

FreeSlices == UNION {{Slice(l, i) : i \in bitmaps[l].bits} : l \in Level}

\* Different free blocks overlap nowhere.
FreeApart ==
  \A l, m \in Level : \A i \in bitmaps[l].bits, j \in bitmaps[m].bits :
    l # m \/ i # j => Apart(Slice(l, i), Slice(m, j))

\* No unit is in two places: slices that callers hold, free blocks and the
\* block in hand overlap nowhere, after any sequence of splits and merges.
NoOverlap ==
  /\ \A s, t \in live : s # t => Apart(s, t)
  /\ FreeApart
  /\ \A s \in live, t \in FreeSlices : Apart(s, t)
  /\ \A h \in Hand, s \in live \cup FreeSlices : Apart(h, s)

\* No unit is lost: each one is held by a caller, free or in hand.
NoLeak ==
  \A u \in 0..(Units - 1) : \E s \in live \cup FreeSlices \cup Hand :
    s.ptr <= u /\ u < s.ptr + s.length

\* Every bit that is read or written lies in its level's bitmap, and every
\* slice that is out is a block of the data area.
InBounds ==
  /\ \A l \in Level : bitmaps[l].bits \subseteq 0..(BlockCount[l] - 1)
  /\ pc \in {"split", "merge"} => blk < BlockCount[lvl]
  /\ \A s \in live : \E l \in Level :
       \E i \in 0..(BlockCount[l] - 1) : s = Slice(l, i)

\* The cached count that is_empty consults is the number of 1 bits, so the
\* search of get_first_1 always ends on a bit of the level it was sent to.
CountsAgree ==
  \A l \in Level : /\ IsFiniteSet(bitmaps[l].bits)
                   /\ bitmaps[l].count = Cardinality(bitmaps[l].bits)

\* Merging is complete: two buddies are never both free, so a free block is
\* always recorded at the highest level it can be.
Coalesced ==
  \A l \in Level : \A i \in bitmaps[l].bits : BuddyIndex(i) \notin bitmaps[l].bits

\* Control and locals agree: buddy_init visits exactly the levels there are
\* (its final assertions), the split loop starts at or above the fitting
\* level, which is the request's, and the pointer to return is where the
\* block in hand begins.
LoopOK ==
  /\ pc = "init" => /\ blk = BlockCount[lvl]
                    /\ live = {}
                    /\ \A l \in lvl..(Levels - 1) : bitmaps[l].bits = {}
  /\ pc = "split" => /\ lvl >= fit
                     /\ ptr = Slice(lvl, blk).ptr
                     /\ need \in 1..DivCeil(MaxLen, Unit)
                     /\ Fits(fit, need)
  /\ pc = "merge" => lvl >= fit

\* No assertion of buddy_dealloc fails for a caller that gives back what it
\* holds: at every level the bit about to be set is still 0.
MergeAssertHolds == pc = "merge" => blk \notin bitmaps[lvl].bits

\* The inductive invariant of the proofs.
IInv ==
  /\ TypeOK
  /\ NoOverlap
  /\ NoLeak
  /\ InBounds
  /\ CountsAgree
  /\ Coalesced
  /\ LoopOK

\* Nothing remains of past fragmentation: when every slice has come back,
\* the bitmaps are what buddy_init made of them, and nothing is counted as
\* used (dynmem_print reports it).
FreshWhenEmpty ==
  pc = "idle" /\ live = {} => used = 0 /\
    \A l \in Level :
      bitmaps[l].bits = IF BlockCount[l] % 2 = 1 THEN {BlockCount[l] - 1} ELSE {}

\* The refinement mapping: the blocks of every level may be handed out, an
\* allocation takes effect when it returns, a deallocation when it is called.
AllBlocks == UNION {{Slice(l, i) : i \in 0..(BlockCount[l] - 1)} : l \in Level}

UsedByCallers == IF pc = "merge" THEN used - BlockLen[fit] ELSE used

Abs == INSTANCE PageAllocator WITH
  Blocks   <- AllBlocks,
  Requests <- 1..DivCeil(MaxLen, Unit),
  used     <- UsedByCallers

\* The allocator implements PageAllocator: in particular it returns NULL only
\* when no block of the request's size class is vacant, however fragmented
\* the memory was before.
AbsSpec == Abs!Spec

\* Every operation returns: the split and merge loops end.
Returns == pc # "idle" ~> pc = "idle"
=============================================================================
