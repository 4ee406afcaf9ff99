---------------------------- MODULE HeapAllocator ----------------------------
(***************************************************************************)
(* The heap of the security monitor (core/heap_allocator): a linked list   *)
(* of free regions, first fit, no merging.  All control data of the        *)
(* monitor (VM records, request queues, page tokens) lives on it.  Sizes   *)
(* and addresses are in bytes; Word is the size of a machine word, which   *)
(* is also the alignment of a list node, and a node is two words.          *)
(* Every operation runs under the allocator's spin lock and is one step.   *)
(***************************************************************************)
EXTENDS Integers, Sequences

CONSTANTS
  Word,      \* size_of::<usize>()
  HeapSize,  \* bytes given to init_heap
  Layouts    \* the sizes and alignments callers ask for

Node == 2 * Word
Layout == [size : Nat \ {0}, align : Nat \ {0}]

\* GlobalAlloc is only called with layouts of a size other than zero and an
\* alignment that is a power of two, as a word and a node are: it divides a word
\* or is a multiple of a node.
ASSUME HeapAssumption ==
  /\ Word \in Nat \ {0}
  /\ HeapSize \in Nat
  /\ Layouts \subseteq Layout
  /\ \A layout \in Layouts : Word % layout.align = 0 \/ layout.align % Node = 0

VARIABLES
  free,       \* the list from head.next on: start and size of each region
  allocated,  \* the live blocks: start, bytes taken and the caller's layout
  lost,       \* the bytes left out between the start of a region and an aligned block
  panicked    \* the reason of a panic, or "no"

vars == <<free, allocated, lost, panicked>>

Bytes(start, size) == start .. (start + size - 1)

RoundUp(n, a) == ((n + a - 1) \div a) * a
Larger(m, n) == IF m < n THEN n ELSE m

Init ==
  /\ free = <<[start |-> 0, size |-> HeapSize]>>
  /\ allocated = {}
  /\ lost = {}
  /\ panicked = "no"

------------------------------------------------------------------------------

\* Faulty variant: the size is not padded to the alignment.
align_to_NoPad(layout) ==
  [size |-> Larger(layout.size, Node), align |-> Larger(layout.align, Word)]

\* FreeMemoryRegion::align_to: the bytes and the alignment a layout really takes.
align_to(layout) ==
  LET align == Larger(layout.align, Word)
  IN [size |-> Larger(RoundUp(layout.size, align), Node), align |-> align]

\* alloc widens small layouts before alloc_dynamic aligns them.
alloc_layout(layout) ==
  align_to([layout EXCEPT !.size = Larger(layout.size, Node)])

\* Faulty variant: the end of the region is not looked at.
try_allocation_Unbounded(region, l) ==
  LET alloc_start == RoundUp(region.start, l.align)
      alloc_end == alloc_start + l.size
  IN [ok |-> TRUE, start |-> alloc_start, end |-> alloc_end,
      left |-> region.start + region.size - alloc_end]

\* ptr_align and ptr_byte_add_mut refuse a pointer at or past the region's end,
\* so that some bytes are always left; they must have room for a node.
try_allocation(region, l) ==
  LET end == region.start + region.size
      alloc_start == RoundUp(region.start, l.align)
      alloc_end == alloc_start + l.size
  IN [ok |-> /\ alloc_start < end
             /\ alloc_end < end
             /\ end - alloc_end = 0 \/ end - alloc_end >= Node,
      start |-> alloc_start, end |-> alloc_end, left |-> end - alloc_end]

\* The regions of the list an allocation can be made from; the first is taken.
Fitting(l) == {i \in DOMAIN free : try_allocation(free[i], l).ok}

\* Faulty variant: the region an allocation is made from stays in the list.
Unlinked_Kept(i) == free

\* find_free_memory_region takes the region out of the list.
Unlinked(i) == SubSeq(free, 1, i - 1) \o SubSeq(free, i + 1, Len(free))

\* add_free_memory_region asserts the alignment of the node and its room, then
\* makes it the first of the list.
AddPanics(start, size) ==
  IF start % Word # 0 THEN "misaligned"
  ELSE IF 0 < size /\ size < Node THEN "Memory leak?"
  ELSE "no"

add_free_memory_region(list, start, size) ==
  /\ panicked' = AddPanics(start, size)
  /\ free' = IF panicked' = "no" THEN <<[start |-> start, size |-> size]>> \o list
                                 ELSE list

\* alloc -> try_alloc -> alloc_dynamic
alloc(layout) ==
  /\ panicked = "no"
  /\ LET l == alloc_layout(layout) IN
     \E i \in Fitting(l) :
        LET a == try_allocation(free[i], l) IN
        /\ \A j \in Fitting(l) : i <= j
        /\ add_free_memory_region(Unlinked(i), a.end, a.left)
        /\ allocated' = allocated \cup {[start |-> a.start, taken |-> l.size,
                                         layout |-> layout]}
        /\ lost' = lost \cup Bytes(free[i].start, a.start - free[i].start)

out_of_memory(layout) ==
  /\ panicked = "no"
  /\ Fitting(alloc_layout(layout)) = {}
  /\ panicked' = "Out of memory"
  /\ UNCHANGED <<free, allocated, lost>>

\* Faulty variant: the caller's size is given back, not the size that was taken.
dealloc_CallerSize(b) ==
  /\ panicked = "no"
  /\ add_free_memory_region(free, b.start, b.layout.size)
  /\ allocated' = allocated \ {b}
  /\ UNCHANGED lost

dealloc(b) ==
  /\ panicked = "no"
  /\ add_free_memory_region(free, b.start, align_to(b.layout).size)
  /\ allocated' = allocated \ {b}
  /\ UNCHANGED lost

Next ==
  \/ \E layout \in Layouts : alloc(layout) \/ out_of_memory(layout)
  \/ \E b \in allocated : dealloc(b)

Spec == Init /\ [][Next]_vars

------------------------------------------------------------------------------
(* Properties *)

\* Type invariant.
TypeOK ==
  /\ free \in Seq([start : 0 .. HeapSize, size : 0 .. HeapSize])
  /\ \A b \in allocated : b.start \in 0 .. HeapSize /\ b.layout \in Layouts
  /\ lost \subseteq Bytes(0, HeapSize)
  /\ panicked \in {"no", "Out of memory", "misaligned", "Memory leak?"}

FreeBytes(i) == Bytes(free[i].start, free[i].size)
BlockBytes(b) == Bytes(b.start, b.taken)

\* No byte of the heap belongs to two blocks, to two free regions or to a block
\* and a free region, all lie in the heap, and a block has the alignment and the
\* size its caller asked for, whatever the order of allocations and
\* deallocations (try_allocation, add_free_memory_region).
BlocksAreSound ==
  /\ \A i, j \in DOMAIN free : i # j => FreeBytes(i) \cap FreeBytes(j) = {}
  /\ \A b, c \in allocated : b # c => BlockBytes(b) \cap BlockBytes(c) = {}
  /\ \A i \in DOMAIN free, b \in allocated : FreeBytes(i) \cap BlockBytes(b) = {}
  /\ \A i \in DOMAIN free : FreeBytes(i) \subseteq Bytes(0, HeapSize)
  /\ \A b \in allocated : /\ BlockBytes(b) \subseteq Bytes(0, HeapSize)
                          /\ b.start % b.layout.align = 0 /\ b.layout.size <= b.taken

\* The assertions of add_free_memory_region never fail: a list node always has
\* room and alignment where a rest or a returned block begins, although alloc
\* and dealloc round the layout along different paths.
NodesAlwaysFit == panicked \in {"no", "Out of memory"}

\* Memory only disappears as padding in front of an aligned block: every other
\* byte of the heap is in a free region or in a block, and a block gives back all
\* the bytes it took.
HeapIsConserved ==
  Bytes(0, HeapSize) \ lost = (UNION {FreeBytes(i) : i \in DOMAIN free})
                                \cup (UNION {BlockBytes(b) : b \in allocated})
=============================================================================
