---------------------------- MODULE PageAllocator ----------------------------
(***************************************************************************)
(* What the dynamic-memory allocator promises its callers (dynmem_alloc    *)
(* and dynmem_dealloc of kernel/src/memory.c), whatever data structure is  *)
(* behind it: a slice that is handed out overlaps no other slice that is   *)
(* out; it is a block of the smallest size class that holds the request;   *)
(* NULL is returned only when every block of that size class is (partly)   *)
(* in use; and `used' is charged by exactly the length of the slice.       *)
(* Module Buddy is shown to implement this specification.                  *)
(*                                                                         *)
(* Positions and lengths are counted in units (BUDDY_UNIT bytes) from the  *)
(* start of the data area.                                                 *)
(***************************************************************************)
EXTENDS Integers

CONSTANTS
  Blocks,    \* the slices that may be handed out, [ptr, length] records
  Requests   \* the lengths, in units, that may be requested

VARIABLES
  live,      \* the slices that are out
  used,      \* the number of units that are out
  asked,     \* the units the last allocation needed
  ret        \* what it returned

vars == <<live, used, asked, ret>>

\* The slice { .ptr = NULL, .length = 0 }.
NoSlice == [ptr |-> -1, length |-> 0]

\* Slices s and t share no unit.
Apart(s, t) == s.ptr + s.length <= t.ptr \/ t.ptr + t.length <= s.ptr

\* The blocks of the smallest size class that holds n units.
Fitting(n) ==
  {b \in Blocks : /\ n <= b.length
                  /\ \A c \in Blocks : n <= c.length => b.length <= c.length}

Vacant(b) == \A s \in live : Apart(b, s)

Init ==
  /\ live = {}
  /\ used = 0
  /\ asked = 0
  /\ ret = NoSlice

Alloc(n) ==
  \E b \in Fitting(n) :
    /\ Vacant(b)
    /\ live' = live \cup {b}
    /\ used' = used + b.length
    /\ asked' = n
    /\ ret' = b

AllocNull(n) ==
  /\ \A b \in Fitting(n) : ~Vacant(b)
  /\ asked' = n
  /\ ret' = NoSlice
  /\ UNCHANGED <<live, used>>

Dealloc(s) ==
  /\ live' = live \ {s}
  /\ used' = used - s.length
  /\ UNCHANGED <<asked, ret>>

Next ==
  \/ \E n \in Requests : Alloc(n) \/ AllocNull(n)
  \/ \E s \in live : Dealloc(s)

Spec == Init /\ [][Next]_vars
=============================================================================
