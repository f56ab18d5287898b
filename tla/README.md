# rubberos: TLA+ specifications and proofs

Specifications of the core of the rubberos kernel, checked with TLC on small
instances and proved with TLAPS for every value of the constants. Paths below
are those of the repository.

## The system

rubberos is a single-processor x86-64 kernel written in C. It boots with
interrupts disabled, builds its page tables and its dynamic memory, opens a few
windows, and then lives in the loop of `kmain`: sleep, take the input messages
that interrupt handlers queued, handle them, repaint. There are no threads;
the only concurrency is between `kmain` and the two device interrupts.

| part | state | operations | talks to |
|---|---|---|---|
| buddy allocator (`libbuddy`) | one bitmap per level with a cached count, `used` | init, alloc_slice, dealloc | called through `dynmem_*` under the meminfo lock |
| slab allocator (`libslab`) | partial list of pages; per page a free list in the slot headers and a count; per slot magic, redzones, fill | init, alloc, dealloc | takes pages from `dynmem_*`; used for windows |
| ring buffer (`libcoll`) | head, tail, count | push_index, pop_index | interrupt queue |
| main loop, interrupt queue, handlers (`kmain.c`, `interrupt.c`, `ps2_hid.c`, `pic.c`) | interrupt flag, queue, controller state | try_pop / push, dispatch, repaint, EOI | hardware; decoders; window manager |
| start-up of the PS/2 devices (`ps2_hid.c`) | port flags, registered handlers, interrupt mask | hid_init, interrupt_device_enable | PS/2 controller, keyboard, mouse |
| kernel memory (`kernel/src/memory.c`) | meminfo: boot and dynamic map, MMIO free list (24 nodes), buddy | dynmem_alloc/dealloc, mmio_alloc/dealloc_mapping, array list allocator | page tables, buddy |
| paging (`arch/x86_64/memory.c`) | 4-level tables, page supply | map, unmap, dynamic area factory | kernel memory |
| locks (`spinlock.c`) | flag, saved interrupt flag | acquire, release | everything; no nesting of one lock |
| window manager (`gui/`) | window list, damage rectangles, focus, mouse, capture | new, draw_all, mouse and key events | slab, graphics, tty window |
| tty, tty window | ring of text lines, view | putc/puts, paint | serial port, window manager |
| decoders (`drivers/`) | scan-code state, modifier keys, mouse packet | put_byte, process_keyevent | main loop |
| libcoll lists, array list, rb-tree; libfreec | data structures | pure algorithms | kernel memory, gui |

What is hard in it, and the properties that make each part correct:

* *Long sequences of legal calls* (both allocators). Memory must stay a
  partition into handed-out and free pieces, freed neighbours must merge, a page
  must be given back exactly with its last object, and an assertion must fail
  only for a caller that breaks the contract.
* *Interrupts between any two steps of kmain.* The consumer of the queue frees
  a slot before it reads it; the loop decides to sleep after it has looked at
  the queue; two handlers share one I/O port; an acknowledgement that is
  forgotten silences a line for ever; a full queue drops bytes.
* *Boundaries*: levels with an odd number of blocks, wrap-around of the ring,
  pages with a single slot, integer widths of block sizes.
* *Devices that lose bytes, answer late, or do not answer*: the decoders see what
  the full queue let through, and `hid_init` polls a controller while the user
  may already type.
* *Tables that describe memory while they are built in it*: the page tables of
  the dynamic area lie in that area; those of the I/O area are freed while a
  mapping is taken down; their supply of free-list nodes is fixed.
* *Damage bookkeeping*: messages record what must be painted, and one drawing
  uses it all up; what is forgotten stays wrong on the screen. A drag keeps its
  state in four variables of two files.

`PROJECT.json` lists these hazards line by line with the properties for each.

## Modules

| module | models | role |
|---|---|---|
| `PageAllocator` | what `dynmem_alloc`/`dynmem_dealloc` promise | abstract specification |
| `Buddy` | `libbuddy/src/buddy.c` | detailed specification |
| `BuddyProof` | | proofs about `Buddy`, implementation of `PageAllocator` |
| `RingBuffer` | `libcoll/src/ringbuffer.c` | operators |
| `LossyQueue` | what the interrupt queue promises | abstract specification |
| `KernelLoop` | `kmain`, interrupt queue, handlers, PIC, interrupt flag | composition, extends `RingBuffer` |
| `KernelLoopProof` | | proofs about `KernelLoop`, implementation of `LossyQueue` |
| `Slab` | `libslab/src/slab.c` | detailed specification |
| `SlabProof` | | proofs about `Slab` |
| `RbTree` | `libcoll/src/rbtree.c` | algorithm, every sequence of operations |
| `Hid` | `drivers/ps2_keyboard.c`, `ps2_mouse.c`, `hid.c` behind the lossy queue | decoders and their input |
| `HidInit` | `hid_init` in `arch/x86_64/drivers/ps2_hid.c`, handler registration in `interrupt.c` | protocol with controller and devices |
| `HidProof` | | proofs about `Hid` and `HidInit` |
| `Mmio` | MMIO free list of `memory.c` with the page tables of `arch/x86_64/memory.c` | composition |
| `MmioProof` | | proofs about `Mmio` |
| `BootMemory` | `construct_mmap_dyn`, `sort` (libfreec), `pagetable_construct_dyn` | composition |
| `BootMemoryProof` | | proofs about `BootMemory` |
| `Shapes` | `gui/shapes.c` | operators |
| `Window` | `gui/window.c`, `evt.c`, what is painted by `graphic.c` | composition, extends `Shapes` |
| `WindowProof` | | proofs about `Shapes` and `Window` |
| `TtyWindow` | `gui/tty_window.c`, `tty_puts` | detailed specification, extends `Shapes` |
| `TtyWindowProof` | | proofs about `TtyWindow` |
| `MCBuddy`, `MCHid`, `MCMmio`, `MCBootMemory`, `MCWindow` | | instances for TLC |

Operators whose comment begins with "Fault", or ends with "(a fault)", are deliberately wrong variants of the
definition that follows them. They are no part of any specification: replacing
the definition by its faulty variant makes a property fail, which shows that
the property is able to fail. `PROJECT.json` ("mutants") pairs them up.

### Buddy

A state is one point between two loop iterations of one operation (the kernel
serialises operations with a lock). `bitmaps[l]` is the set of 1 bits of level
`l` with the cached count; `pc` names the loop that runs, `lvl`, `blk`, `need`,
`fit` and `ptr` are its locals. `InitLevel` is an iteration of `buddy_init`;
`AllocTooLarge`, `AllocNoMemory` and `AllocTake` are the three outcomes of the
search in `buddy_alloc_slice`, `Split` an iteration of its inner loop and
`AllocReturn` its end; `Dealloc`, `MergeUp` and `MergeStop` are
`buddy_dealloc`. Requests are in bytes and are rounded as in the code;
addresses are offsets from the data area. Three history variables record what
callers hold (`live`), and what the last allocation to return had asked for
(`asked`) and returned (`ret`): with `asked`, `PageAllocator` allows a NULL, or
a block of a given size, only for the request that was really made. Callers keep the
contract `GivesBack`: rounded to units, what they give back begins where the
slice does and has its size class (the unaligned ends that the unit test
`unaligned_dealloc` exercises are included).

The layout (`LayoutAssumption`) is what `buddy_info_calc_metadata` computes; it
limits the number of levels to 19, because the code's `BUDDY_UNIT << level` is
an `int` and overflows beyond.

### KernelLoop

`pc` walks through `kmain`: `sleep` (before `sti; hlt`), `hlt`, `cli` (top of
the inner loop), `pop`, `read` (slot freed, not yet copied), `sti`, `dispatch`,
`draw`. A step is a piece of code that no interrupt can divide or that touches
nothing a handler touches. `Halt` is one step because `sti` takes effect after
the following instruction. A handler runs in three steps: `IsrRead` (`in8`),
`IsrPush` (`intr_queue_push` and its ignored failure), `IsrEoi` (`pic_send_eoi`
and `iretq`). `kmain` does not move while a handler runs, and no handler
interrupts a handler, because all gates are interrupt gates and nothing in a
handler executes `sti`: this is not built into the guards alone, `Discipline`, a
part of the proved invariant, states it, and the mutant of `Fifo` breaks it.

External parts, modelled from how the code uses them: the PS/2 controller has
one output buffer and loads the next byte only when the last one was read; it
raises line 1 or 12; the 8259 pair delivers a line only when no line of the
same or a higher priority is in service, and the slave's lines come in at
line 2. A byte is represented by its position in the order in which bytes were
sent, so that loss, duplication, reordering and wrong tagging are visible.
Handling a message is abstracted to recording it; `gui_draw_all` to recording
that the screen reflects all messages handled so far. `Answered` promises the
screen under `Pause`: after some time the devices send nothing. `kmain` draws only
when it has found its queue empty, so that without a pause it may handle
messages for ever and never draw.

### Slab

`mem[p]` is page `p`: `free_index`, `alloc_count`, and for each slot its magic
number, its `next` link, and whether redzones and unused fill are intact.
`AllocPartial`, `AllocNewPage` and `AllocNull` are the paths of `slab_alloc`,
`Dealloc` is `slab_dealloc` with its assertions. The free list is kept as links,
as in the code, and not as a sequence; `FreeListOK` says what the links thread.
`Overrun` and `UseAfterFree` are callers that write where they must not, and
`Dealloc` may be called for an object that is not out: the model shows that
the assertions stop the machine for such callers and for no others. `ret` is what
`slab_alloc` has just returned, and `Null` after every other step, so that
`FreshObject` judges every allocation, also one that returns the object of the
one before. Freeing an
object of a page that was already given back is outside the model, since the
memory is somebody else's by then.

### RbTree

A node is its key. Mirrored branches of the code are one definition over a side
(`kid[n][s]`, `Other(s)`). `InsertNode` and `RemoveNode` are whole calls:
search, linking, recolouring and rotations. `SpecKept` leaves out the removals in
which the parent that `rbtree_remove` read early is no longer the parent when it
is used (`ParentKept`); the run `rbtree_stale` shows what those do, see
Findings.

### Hid

The environment presses and releases keys and moves the mouse; each act appends
its bytes to the queue as messages, and `Lose` drops any of them, which is what
a full queue does to new ones. `OnKeyboard` and `OnMouse` are the handlers that
`kmain` dispatches: one byte through the state machine of the decoder, the
modifier flags, and the translation to a character or a raw key. Histories
record what was typed and what came out; they are only compared while nothing
was lost. After a loss, `Resync` counts whole key strokes since the last torn
one, and `MousePhase` says that the mouse decoder is out of phase by exactly
the bytes lost: no byte of a packet is checked, so that it does not find its way
back by itself.

### HidInit

`pc` is the next exchange of `hid_init` with the controller, in the order of the
code, early returns included. An answer is a short sequence of bytes; reading
when there is none gives the last byte again, as the port does, because
`wait_for_output` gives up silently. Devices are good, mute or odd; the
controller may find port 2 or not; the user may touch a device as soon as it
reports, and the firmware may have left any port open. `MaxTouch` bounds the
touches, `Retries` stands for the 10 attempts of the code.

### Mmio and BootMemory

`Mmio` has one action for `mmio_alloc_mapping` and one for
`mmio_dealloc_mapping`, each with the page-table walk it ends in, page by page:
choice of huge pages, the iterator's carry, and freeing of tables that became
empty. Both run under the meminfo lock with interrupts off. Failed assertions
and panics stop the machine (`halted`). Only the directories and page tables of
the I/O area are there; tables that become empty without the iterator leaving
them stay, as in the code, and are used again.

`BootMemory` begins with a map from the boot loader. The initial states have it
sorted and cut into pages; each step gives one page to `dynpage_factory`, whose
tables lie in the pages that were given first. Memory that nothing was written
to holds junk, which a reader of the tables may take for an entry. `Wrap` stands
for the 32 bits in which the code keeps the address of the next table;
`TablesOK` assumes that the tables, the lowest usable pages, lie below it.

### Window and TtyWindow

`Window` keeps the fields of `g_winman` and of each window, and two pictures:
the back buffer and the frame buffer. A pixel is what is painted at it: the
desktop, a place of a window, the pointer, and whether the outline of a drag
inverts it. The tty window shows one bit at one place of its client area, which
stands for its text and cursor, and above it the red box, left of and above the
point `box` (the static `rp` of its procedure). `DrawAll` is
`gui_draw_all`; `GuiOnMouse` and `GuiOnKeyboard` are the messages, with
everything they call: clamping, target, bringing to the front, starting, moving
and ending a drag, the procedure of the tty window (`Changes` for a character,
`MoveBox` for the mouse). Nothing else runs meanwhile, so each is one step.
`smeared` is a history of pixels that were painted over by a window below.
`ScreenOK` lets a pixel stay wrong in two cases, which only the tty window makes
(see Findings), and says what it shows then: in `Trail` the red box, at a place
where the tty window is seen, and all else right; in `Smear` a place of the tty
window below what covers it. The comment at `window.c:274` says that windows at negative coordinates are not drawn
correctly; the run has such windows and `ScreenOK` holds for them.

`TtyWindow` looks inside the tty window at the scale of characters: the buffer,
the cursor, scrolling, and which lines are reported for painting by texts, keys
and the red box. `tty_window_init` does not clear the cursor; it lies in
`kmain`'s frame near the top of a stack in `.bss`, and the model starts it at
zero.

## Runs

| run | instance | shows |
|---|---|---|
| `buddy` | 7 units, 3 levels, units of 2 bytes, requests up to 9 bytes; 21,213 states | memory is a partition at every step (`NoOverlap`, `NoLeak`), counts exact, merging complete, no trace of fragmentation when all is returned, no assertion fails, `PageAllocator` is implemented, every call returns |
| `kernel_loop` | queue of 2, 6 bytes from two devices; 106,028 states | order and integrity of messages, each byte read by its own handler, no halt with work left, `LossyQueue` is implemented, once the devices pause every byte is shown or was dropped on a full queue |
| `slab` | 2 pages of 3 slots; 47,054 states | free lists and headers (`FreeListOK`), partial list and page ownership (`PagesOK`) agree with the objects out; assertions fire on misuse only; no allocation returns an object that is out (`FreshObject`) |
| `rbtree` | 11 nodes, removals with a parent that is still right; 39,942 states | iteration, balance and search are right after every sequence |
| `rbtree_stale` | 4 nodes, all removals; expects a violation | a removed node is still found |
| `hid` | 9 keys, 2 movements, 4 acts, up to 3 lost messages; 2.3 million states | without loss events and characters are those typed; after loss the keyboard decoder is back in phase within two keys, the mouse decoder by whole packets only |
| `hid_init` | 3 attempts, 2 touches, all devices and firmware states; 16,413 states | every set-up ends, with handlers, masks and controller in agreement; good untouched devices are accepted |
| `mmio` | 12 pages, tables of 2 entries, 3 nodes; 377,308 states | no page lost or given twice, every page mapped where it should be and no other, tables counted; when the kernel panics |
| `mmio_huge` | the same; expects a violation | a huge page that begins inside one |
| `boot_memory` | maps of three entries, maps that fill the tables, tables of 5 entries; 41,915 states | the pages are exactly the usable ones, in order, without overlap; each page of the area is mapped to its page and nothing beyond |
| `window` | 2 by 4 pixels, two windows, three movements, two messages between drawings; 166,831 states | what the screen shows wrongly is going to be painted, or is the trail of the red box or the tty window over what covers it; the parts of a drag agree; no window is lost |
| `tty_window` | 2 lines of 2 characters, texts of up to 5 in pieces of up to 3; 209,999 states | the buffer holds the last lines of the text; every cell that changed is in an area to be painted, save those the box has left |

Every module has a type invariant, checked in its run: where it is not listed by its
name it is the first part of another invariant (`FreeListOK` of `Slab` and `Mmio`,
`Balanced`, `Faithful`, `Consistent`, `MapOK`, `ScreenOK`, `LastLines`).

Why the bounds are enough. 7 units give an odd count at every level (7, 3, 1)
and blocks that belong to no larger one; the largest request exceeds the largest
block; all orders of splitting and merging occur. A queue of 2 with 6 bytes
fills, overflows, wraps several times and drains between bursts. Two pages of
three slots allow full, partly full and empty pages in every order of return,
and both pages in the partial list at once. 11 nodes give trees of five levels,
in which every case of both balancings occurs; 4 are the fewest for the stale
parent. The keys of `hid` have one of each class: both prefixes, the two-byte
and six-byte codes, modifiers, locks, numpad; four acts are enough for a torn key
and the whole ones after it. Areas of one, two and three pages over tables of
two entries make small, huge and mixed mappings that begin and end anywhere
and empty any level of table; three nodes run out. Maps of three entries have all
pairs of neighbours (nested, overlapping, touching, apart, below the minimum);
the large ones cross from one table to the next at every level and reach the limit.
The screen of `window` is smaller than a window with border, title and client
area. Its movements keep the pointer on the diagonal, at three points: one is on the
title bar of each window or in the client area of window 1 as they lie, and both
ends let a window be dropped over an edge, one at negative coordinates and one where
the pointer is beyond the last pixel; at the ends the pointer stays where it is.
The client area is large enough for the red box to be seen at two places,
so that it leaves a trail: without `Trail`, or without `Smear`, the run finds
`ScreenOK` violated. Two messages between drawings are the least that let damage
of one be forgotten by the other. Two lines of two characters wrap, scroll and do
both at once. The theorems do not depend on these bounds.

Fairness. `Buddy!FairSpec` assumes that the processor goes on executing the
operation that was called. `KernelLoop!FairSpec` assumes the same of `kmain`
and of a handler, and that an interrupt that stays deliverable is delivered.
Nothing is assumed about devices in `FairSpec`; `Answered` alone has a condition on
them, `Pause`, which the bound `MaxBytes` makes true of every behaviour of the
run, so that the run says nothing about input that never stops. Weak fairness of delivery is enough
although `kmain` disables interrupts again and again: without deliveries it
drains the queue and reaches `hlt`, where delivery stays enabled.
`StartUp`, the specification of `HidInit`, assumes that `hid_init` goes on: it polls with a limit, so that
no device can hold it up. The other modules state no liveness.

Deadlock is not checked in `kernel_loop` (a machine without input sleeps),
`slab` and `mmio` (a failed assertion stops the machine), `hid_init` and
`boot_memory` (the procedure ends), `hid` and `tty_window` (the bound on acts and
text is reached).

## Findings

* `rbtree_remove` (`libcoll/src/rbtree.c:162`) reads the parent of a node with two
  children, then removes its successor, whose balancing may rotate the node to
  another parent. The link from there is never changed: the removed node stays
  in the tree (run `rbtree_stale`). The kernel itself uses no red-black tree.
* `pagetable_mmio_map` (`arch/x86_64/memory.c:280`) makes huge pages without looking
  at the physical address; `memory.h:58` only asks callers for addresses aligned
  to `PAGE_SIZE` (run `mmio_huge`). The frame buffer, the one caller, is aligned
  to more on usual machines.

What the properties allow because the code does it and nothing says otherwise:

* `mmio_dealloc_mapping` fails its assertion for a valid address when no free area
  lies behind it (`NoFalseAlarm` of `Mmio` names the case).
* While messages come as fast as `kmain` handles them, the screen is not drawn again
  (`kmain.c:57-68`; `Answered` asks for a pause).
* Text that comes to the tty window while it is covered is painted over what covers
  it until something else paints that place (`window.c:163`; `Smear` in `Window`).
* When the red box moves, only its new place is damaged: the box stays on the screen
  where it was until something else paints that place (`tty_window.c:115-121`; `Trail`
  in `Window`, and the cells that `ChangesPainted` leaves out in `TtyWindow`).
* The two control keys are one key to the kernel, so that releasing one of them
  releases both (`Typed`).
* A mouse that fails its reset takes the keyboard with it, since `ms_init` then
  disables port 1 (`Accepted` asks nothing of that case; `Consistent` does).
* The address of a new page table is kept in 32 bits (`TablesOK` assumes tables below
  4 GiB).

## Proofs

All theorems are proved from the assumptions on the constants alone:
`LayoutAssumption`, `QueueAssumption`, those of `Slab`, `Window` and `TtyWindow`,
`SizeAssumption` and `RequestAssumption` of `Mmio` (no size is zero, no driver maps
an empty area), `LayoutAssumption` of `BootMemory` (a page has a size, the minimum is a
whole number of pages, a page table has at least the five entries that the code fills
by their numbers, and the boot loader's maps are sequences of entries, of any length and
in any order), `RetriesAssumption` and `MaxTouchAssumption` of `HidInit` (natural
numbers), and for `Hid`
`BoundsAssumption`, `KeysAssumption` (the keys are among those whose codes the
driver's tables hold) and `MovesAssumption` (a packet holds nine bits of each
displacement).

`BuddyProof`: `Inductive` proves that `IInv` holds in every reachable state.
`IInv` consists of the checked invariants themselves, strengthened by
`InBounds` (no bit beyond the last block of a level), by `Hand`, the memory the running operation holds between two iterations (without it
memory is not a partition while a loop runs), and `LoopOK`, which ties the
loop variables to that block. Each action has a lemma; those about splitting
and merging rest on `Halves` and `BuddyHalves` (a block is the disjoint union
of its two children, which are buddies), `AddFree` and `RemoveFree` (what
setting or clearing a bit does to the free slices). From it follow
`TypeCorrect`, `Partition`, `NothingLost`, `FullyMerged`, `BitmapsSound` and
`NoFalseAlarm`. `Implements`
proves that every step is a step of `PageAllocator` or changes nothing it
sees. The interesting case is a NULL result: if every bitmap from the fitting
level up is empty, no block of that level can be vacant, because by
`FullyCoalesced` a vacant block would be free at its level or inside a larger
free block. That argument is an induction over levels, done through the least
counterexample (`LeastNat`). `FreshAgain` adds that `used` counts the units
callers hold, and that memory without holders and without two free buddies can
only be cut the way `buddy_init` cut it: the free blocks at or above a level
cover what the blocks of that level cover, level by level.

`KernelLoopProof`: the invariant consists of `RingOK` (the indices agree),
`Fifo`, `Discipline`, `OwnByte`, `Intact`, `Fresh` (the order of the bytes
recorded, in a handler and in the controller) and the emptiness of the queue
while `kmain` paints and falls asleep. The key to the queue is that a message
counts as waiting until it is copied, so that a slot already given away by
`pop_index` is still part of `Contents`; `Discipline` excludes a push in that
window. Theorems: `TypeCorrect`, `InOrder`, `NoMixUp`, `BytesIntact`,
`NoLostWakeup`, and `Implements` (the queue is a `LossyQueue` of any size).

`SlabProof`: the invariant speaks of one page at a time (`ByPage`). Of the free
list of a page it says that the slots of the page are split between the list,
once each, and the objects that are out, and that an object that is out has its
mark and no link; of the partial list that it holds each page with a free slot
once. `FreeLists`, `PagesLinked`, `AssertionsHold` (the two panics are reached by
a caller's misuse only) and `NeverTwice`, the action property that whatever a call
returns was held by no caller, follow for any pages with any number of slots.

`HidProof` is about the two decoders behind the queue that drops messages. Its
invariant has four parts. `Way` is the run of the decoders through the messages
that wait: it gives, for every position of the queue, the state a decoder will
be in when it comes there. `Placed` puts the messages into blocks, one per key
stroke or movement, with what is missing of each; a keyboard decoder that starts
between two keys is between two keys after each whole block, a mouse decoder
counts its bytes modulo three. `Marks` ties the marks of `hid.c` (shift, control,
alt, the locks) to the events reported, each of which was reported with the right
character. From it: `DecodersFaithful` (as long as nothing is dropped every
stroke and movement is reported once, in order and unaltered), `RightCharacters`,
`KeyboardResyncs` (two whole keys after any loss the keyboard is in step again)
and `MouseStaysShifted` (the mouse never is, unless three bytes are lost). The same module
has the proof about `HidInit`: its `IInv` says at each step of `hid_init` which of the
clock, the interrupt bit and the handler each port already has, from what the controller
answered. `AgreeAtEnd` is `Consistent`.

`MmioProof`: the invariant says that every page is either in a free area or in a
mapping (`SharedOut`), that the free areas are in order and apart (`Listed`), that
the tables hold the pages of the mappings and no others and are counted (`TreeOK`).
It needs one thing that no run checks by itself, `HugeWhole`: a huge page lies in
one mapping with all its pages. Without it `pagetable_mmio_unmap` would clear pages
of a neighbour, and would pass the end it was given. `MapWalk` and `UnmapWalk` prove
what the two walks do, page by page, as an induction over their turns (`MapStep`,
`UnmapStep`): a table is made only where none is, and freed only when it is empty, so
that neither changes what any other page maps to. `GivenBackIs` has the three ways
in which an area joins its neighbours. `NoNode` counts the mappings when the nodes
are used up: one behind each free area but the last, the one given back, and one
more beside it. From it follow `ListStays` (`FreeListOK`), `MapsStay` (`MapsRight`)
and `AlarmsAreTrue` (`NoFalseAlarm`).

`WindowProof`: the inductive invariant is `TypeOK`, `DragOK` and `Reachable`
together. That no window is lost (`NoWindowLost`) rests on a fact about drags:
`sizing_pt` is a place of the title bar of the captured window, which moves with
the pointer (`TitleMoves`), and the pointer is clamped to the screen. `DragSafe`
needs that a captured window is the target of every message (`TargetIn`) and
that bringing a window to the front keeps the list a list of all windows
(`ToFrontOK`); that a window under the pointer exists whenever one is looked for
is `TopmostIn`, by the least counterexample again. `OnScreenAssumption` says that
the windows of `kmain` begin with their titles on the screen. `ClippingExact`
proves, for areas and rectangles anywhere, that clipping lets exactly the
visible places through: no drawing writes beyond the frame buffer, and none
leaves out what it should show. `UnionCovers` proves that joining damage
rectangles loses no pixel.

`ScreenRight` proves `ScreenOK` from a second invariant, `SInv`, with three parts.
The frame buffer is a copy of the back buffer, because what `gui_draw_all` copies,
the union of all damage, holds everything it has painted (`UnionOfAll`).
`DamageOK` says what may be damaged between two drawings: everything, before the
first; afterwards a window other than the tty window only if it was brought to the
front, and then all of it and of what has been raised above it since is damaged.
`PixelOK` says that a pixel outside all damage shows its topmost window, and the
outline and the pointer only where they are, or else one of the two things the tty
window leaves. Of these, `Trail` begins where the box leaves a place that was right
(`InkKept`, `SameSeen`), and `Smear` where the tty window alone is painted at a pixel
(`OnlyTtySmears`: where another window is painted, so is what is above it); both
stay what they are until their pixel is damaged. The drawing itself (`PaintedScreen`)
is an induction along the list of windows, from the back to the front: what a
window paints over a pixel is painted over again by all that is above it.

`TtyWindowProof`: the invariant says that the buffer and the cursor show the end
of `Paper`, the lines of all that was written on paper without end. `WriteOneShows`
proves it for one character in each of its cases (inside a line, at its end, a new
line, in the last row or not), `WriteShows` for a text by an induction over its
characters. Between two characters every cell that differs from what it was before
the text is damaged or among the lines to report (`WriteOneStep`); at the end
`write` turns the lines into damage. `TextRight` is `LastLines`, `ChangesShown` is
`ChangesPainted`, which leaves out the cells that the box has left.

`BootMemoryProof`: the invariant is `Counted` and `Built` together. `Counted` says that the
dynamic map is what `construct_mmap_dyn` makes of the boot loader's map, and bounds
the counters of the factory: `Cost`, four for each table and one for each entry of the
newest tables, is never more than fifteen above the pages given, so that no more tables
are made than pages were given. The map itself is proved pass by pass: that the heap sort
of libfreec leaves the entries it was given, in ascending order, is an induction over
its sifts (`Moved`, `Heap`), and every cut leaves runs of pages that are apart and cover
what the entries so far have to offer (`Covered`). `MapAlwaysOK` follows: the map has
exactly the usable pages, and the translations between a page and its place in the area
invert each other.

`Built` says that the memory of the factory is a tree (`Tree`): the tables of each level
hold the places of those one level below in order, the tables lie in the first pages, no
two in one page, and beyond the entries written there is nothing, or the junk of the first
three. `Planted` proves it of the three tables that
`pagetable_construct_dyn` fills by hand through a table that stands for itself.
`dynpage_factory_next_recur` calls itself to have a table mapped before it uses it, so a
step is proved level by level: `Ready` says what a call at a level finds, `Done` what it
leaves, and `LeadsUp` that a level keeps it when the level above does. Where the tables
are full, `Brim` says so, and the area is used up (`BrimArea`). `TablesAlwaysOK` is `TablesOK`: the
walk of the processor leads every page given so far to its place and no other, which a
missed table or an entry one off would break only at the first page of a new table.

The recursion of `Union`, of `Write`, of the walks of `Mmio` and of the sort and the cuts of
`BootMemory` is a recursive function, that of the page factory one definition for each of
the four levels. What they compute is proved where it is used, by an induction along the
domain; nothing is proved about arbitrary recursive definitions, which no installed prover
can do.

Model-checked only: `RbTree` (`InOrder`, `Balanced`, `FindOK`), whose operators are
inductions over trees; `HugeAligned` and `Gone`, which the code does not keep; and liveness
(`Returns`, `Answered`, `Accepted`, `Ends`), which is beyond the proof system.

## Not modelled

* Array list (`libcoll/src/arraylist.c`, `arraylist_*` in `memory.c`) and
  `dynmem_test_seq`: nothing in the kernel calls them. `arraylist_shrink` would
  give back the tail of a slice that is one block to the buddy allocator, which
  breaks the contract `GivesBack` of `Buddy`.
* Locks: with one thread and handlers that take none, each section under a lock is
  a step. The case that is left is a panic while `g_winman.lock` is held, which
  panics again in the tty window's `write`.
* `window_redraw`, `flush` and the rest of a panic; windows opened later, or without
  memory: `kmain` opens all windows before it draws.
* The memory that a page table cannot be had for: `page_get_or_alloc` then clears the
  page at address 0 and panics in `virt_to_phys_dynmem`.
* Integer widths beyond those named above: levels from 19 on in `buddy.c`.
* `snprintf.c`, `string.c`, font, colours, serial port: wording and data.
* Boot assembly, `boot.c`, descriptor tables, processor exceptions: straight-line
  set-up and panics. The unused test task in `hid.c`.
* Unit tests, build files and scripts.

## Plan

Every safety property that the runs check and the code keeps is proved, but for those of
`RbTree`, which stay with the model checker: what its balancing does is an induction over
trees. Next would be the width of block sizes from level 19 on in `buddy.c`, and the panic
under `g_winman.lock`, once their callers exist.
