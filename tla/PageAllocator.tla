---------------------------- MODULE PageAllocator ----------------------------
(***************************************************************************)
(* The page allocator of the security monitor (core/page_allocator): the   *)
(* free page tokens of the confidential memory, kept in one vector per     *)
(* page size, and the life of a token once it is acquired.  An address is  *)
(* counted in smallest pages: every address the code computes here is a    *)
(* multiple of 4 KiB, apart from the last byte of a page, which            *)
(* can_create_page compares with an end that is such a multiple.           *)
(*                                                                         *)
(* Every operation runs under the write lock of PAGE_ALLOCATOR and is one  *)
(* step.  The boot hart builds the tokens one loop iteration at a time.    *)
(***************************************************************************)
EXTENDS Integers, Sequences

CONSTANTS
  Top,         \* index of the largest page size; 0 is PageSize::smallest()
  InBytes,     \* the size of a page of each size, in smallest pages
  MaxAddress,  \* bound on the end of the confidential memory
  Starts,      \* where the memory given to the allocator may start
  Ends,        \* where the confidential memory may end
  Counts,      \* how many pages a caller asks for at once
  Owners       \* the confidential VMs (and hart stacks) that hold pages

PageSizes == 0 .. Top
Addresses == 0 .. MaxAddress
None == -1

\* A larger page is an exact multiple, larger than one, of the next smaller one.
ASSUME PageSizesAssumption ==
  /\ Top \in Nat
  /\ InBytes \in [PageSizes -> Nat \ {0}]
  /\ InBytes[0] = 1
  /\ \A s \in 1 .. Top : /\ InBytes[s] % InBytes[s - 1] = 0
                         /\ InBytes[s - 1] < InBytes[s]

ASSUME MemoryAssumption ==
  /\ MaxAddress \in Nat
  /\ Starts \subseteq Addresses
  /\ Ends \subseteq Addresses

ASSUME CallersAssumption ==
  /\ Counts \subseteq Nat \ {0}
  /\ {"boot", "zero"} \cap Owners = {}

VARIABLES
  start, end,      \* the region given to the allocator
  memory_address,  \* add_memory_region's cursor; None once the region is added
  page_size,       \* add_memory_region's current page size
  map,             \* the free tokens: page size -> addresses, in vector order
  held,            \* the groups of tokens acquired together and not yet returned
  leaked,          \* the groups dropped by a failed copy, never returned
  content          \* what a frame was last filled with

vars == <<start, end, memory_address, page_size, map, held, leaked, content>>

Booted == memory_address = None

Group == [owner : Owners, size : PageSizes, pages : Seq(Addresses),
          state : {"UnAllocated", "Allocated"}]

\* The frames of a page, and those of a group of pages.
Frames(a, s) == a .. (a + InBytes[s] - 1)
FramesOf(g) == UNION {Frames(g.pages[i], g.size) : i \in DOMAIN g.pages}

------------------------------------------------------------------------------
(* Adding the memory region *)

Init ==
  /\ start \in Starts
  /\ end \in Ends
  /\ start < end
  /\ memory_address = start
  /\ page_size = 0
  /\ map = [s \in PageSizes |-> <<>>]
  /\ held = {}
  /\ leaked = {}
  /\ content = [f \in Addresses |-> "boot"]

is_address_page_aligned(a, s) == a % InBytes[s] = 0

\* MemoryLayout compares with the end of the confidential memory, which is
\* also the end of the region initialize is given.
can_create_page(a, s) == a + (InBytes[s] - 1) < end

\* The first inner loop: grow while the next larger size is aligned.
LargestAlignedSize(a, s) ==
  CHOOSE t \in s .. Top :
    /\ \A u \in (s + 1) .. t : is_address_page_aligned(a, u)
    /\ t < Top => ~is_address_page_aligned(a, t + 1)

\* The second inner loop: shrink while the next smaller size does not fit.
ShrunkSize(a, s) ==
  CHOOSE t \in 0 .. s :
    /\ \A u \in t .. (s - 1) : ~can_create_page(a, u)
    /\ t > 0 => can_create_page(a, t - 1)

SizeAt(a, s) == ShrunkSize(a, LargestAlignedSize(a, s))

\* Faulty variant: the end of the memory is not looked at.
NextAddress_Unbounded(a, s) == a + InBytes[s]

NextAddress(a, s) == IF a + InBytes[s] < end THEN a + InBytes[s] ELSE None

\* Faulty variant: the last page is created without checking that it fits.
add_memory_region_Unchecked ==
  /\ ~Booted
  /\ LET s == SizeAt(memory_address, page_size)
     IN /\ page_size' = s
        /\ memory_address' = NextAddress(memory_address, s)
        /\ map' = [map EXCEPT ![s] = Append(@, memory_address)]
  /\ UNCHANGED <<start, end, held, leaked, content>>

\* Faulty variant: the cursor only moves past a page that could be created.
add_memory_region_Stay ==
  /\ ~Booted
  /\ LET s == SizeAt(memory_address, page_size)
     IN /\ page_size' = s
        /\ IF can_create_page(memory_address, s)
           THEN /\ memory_address' = NextAddress(memory_address, s)
                /\ map' = [map EXCEPT ![s] = Append(@, memory_address)]
           ELSE UNCHANGED <<memory_address, map>>
  /\ UNCHANGED <<start, end, held, leaked, content>>

\* One iteration of the outer loop.
add_memory_region ==
  /\ ~Booted
  /\ LET s == SizeAt(memory_address, page_size)
     IN /\ page_size' = s
        /\ memory_address' = NextAddress(memory_address, s)
        /\ map' = IF memory_address' # None \/ can_create_page(memory_address, s)
                  THEN [map EXCEPT ![s] = Append(@, memory_address)]
                  ELSE map
  /\ UNCHANGED <<start, end, held, leaked, content>>

------------------------------------------------------------------------------
(* Acquiring pages *)

\* Faulty variant: contiguity is taken for granted.
is_memory_region_continous_Assumed(pages, s, i, n) == TRUE

\* The n pages from index i on follow each other in memory.
is_memory_region_continous(pages, s, i, n) ==
  \A k \in i .. (i + n - 2) : pages[k] + InBytes[s] = pages[k + 1]

\* The indices find() accepts.  The code tries 0 .. len - n - 1, counted from
\* zero, and so never the group that ends with the last token.
Candidates(pages, s, n) ==
  {i \in 1 .. (Len(pages) - n) : is_memory_region_continous(pages, s, i, n)}

First(S) == CHOOSE i \in S : \A j \in S : i <= j

\* Faulty variant: one token too few is removed from the vector.
Without_OneLess(pages, i, n) ==
  SubSeq(pages, 1, i - 1) \o SubSeq(pages, i + n - 1, Len(pages))

\* Vec::remove of the n tokens from index i on.
Without(pages, i, n) == SubSeq(pages, 1, i - 1) \o SubSeq(pages, i + n, Len(pages))

\* Faulty variant: the last of the smaller pages is forgotten.
divide_OneLess(a, s) ==
  [i \in 1 .. ((InBytes[s + 1] \div InBytes[s]) - 1) |-> a + (i - 1) * InBytes[s]]

\* Page::divide: the pages of size s that make up the page of size s + 1 at a.
divide(a, s) ==
  [i \in 1 .. (InBytes[s + 1] \div InBytes[s]) |-> a + (i - 1) * InBytes[s]]

\* The page sizes divide_pages can start from: larger ones that have a token.
Divisible(m, s) == {t \in (s + 1) .. Top : m[t] # <<>>}

\* divide_page pops the last token of a size and appends its parts to the next
\* smaller size, whose last token is then the last part.  divide_pages climbs
\* to the first size t that has a token, then divides on the way down to s.
divide_pages(m, s) ==
  IF Divisible(m, s) = {}
  THEN m
  ELSE LET t == First(Divisible(m, s))
           page == m[t][Len(m[t])]
           \* the page of size u that is divided on the way down
           Divided(u) == page + InBytes[t] - InBytes[u]
           Added(u) == m[u] \o divide(Divided(u + 1), u)
       IN [u \in PageSizes |->
             IF u = s THEN Added(u)
             ELSE IF u \in (s + 1) .. (t - 1) THEN SubSeq(Added(u), 1, Len(Added(u)) - 1)
             ELSE IF u = t THEN SubSeq(m[t], 1, Len(m[t]) - 1)
             ELSE m[u]]

\* acquire divides larger pages only when the first search finds nothing.
Searched(m, s, n) == IF Candidates(m[s], s, n) = {} THEN divide_pages(m, s) ELSE m

\* acquire_continous_pages found its pages ...
acquire_continous_pages(o, n, s) ==
  /\ Booted
  /\ LET m == Searched(map, s, n)
         i == First(Candidates(m[s], s, n))
     IN /\ Candidates(m[s], s, n) # {}
        /\ map' = [m EXCEPT ![s] = Without(@, i, n)]
        /\ held' = held \cup {[owner |-> o, size |-> s, state |-> "UnAllocated",
                               pages |-> SubSeq(m[s], i, i + n - 1)]}
  /\ UNCHANGED <<start, end, memory_address, page_size, leaked, content>>

\* ... or returns OutOfPages.  Pages divided on the way stay divided.
out_of_pages(n, s) ==
  /\ Booted
  /\ Candidates(Searched(map, s, n)[s], s, n) = {}
  /\ map' = Searched(map, s, n)
  /\ UNCHANGED <<start, end, memory_address, page_size, held, leaked, content>>

------------------------------------------------------------------------------
(* The life of an acquired group of pages *)

Filled(g, what) == [f \in Addresses |-> IF f \in FramesOf(g) THEN what ELSE content[f]]

Become(g, state) == held' = (held \ {g}) \cup {[g EXCEPT !.state = state]}

\* Faulty variant: the page is handed over as it is.
zeroize_NoClear(g) ==
  /\ g.state = "UnAllocated"
  /\ Become(g, "Allocated")
  /\ UNCHANGED <<start, end, memory_address, page_size, map, leaked, content>>

zeroize(g) ==
  /\ g.state = "UnAllocated"
  /\ Become(g, "Allocated")
  /\ content' = Filled(g, "zero")
  /\ UNCHANGED <<start, end, memory_address, page_size, map, leaked>>

copy_from_non_confidential_memory(g) ==
  /\ g.state = "UnAllocated"
  /\ Become(g, "Allocated")
  /\ content' = Filled(g, g.owner)
  /\ UNCHANGED <<start, end, memory_address, page_size, map, leaked>>

\* The source leaves the non-confidential memory after some frames were copied.
\* The tokens of the group are dropped: Page has no destructor.
copy_fails(g) ==
  /\ g.state = "UnAllocated"
  /\ \E k \in Addresses : \* the frames below k were reached
       content' = [f \in Addresses |->
                     IF f \in FramesOf(g) /\ f < k THEN g.owner ELSE content[f]]
  /\ held' = held \ {g}
  /\ leaked' = leaked \cup {g}
  /\ UNCHANGED <<start, end, memory_address, page_size, map>>

\* The owner writes to its allocated pages.
write(g) ==
  /\ g.state = "Allocated"
  /\ content' = Filled(g, g.owner)
  /\ UNCHANGED <<start, end, memory_address, page_size, map, held, leaked>>

\* Faulty variant: the tokens return without being cleared.
release_pages_NoClear(g) ==
  /\ g.state = "Allocated"
  /\ held' = held \ {g}
  /\ map' = [map EXCEPT ![g.size] = @ \o g.pages]
  /\ UNCHANGED <<start, end, memory_address, page_size, leaked, content>>

\* Page::deallocate clears every page of the group, release_pages pushes the
\* tokens at the end of their vector.
release_pages(g) ==
  /\ g.state = "Allocated"
  /\ held' = held \ {g}
  /\ map' = [map EXCEPT ![g.size] = @ \o g.pages]
  /\ content' = Filled(g, "zero")
  /\ UNCHANGED <<start, end, memory_address, page_size, leaked>>

acquire ==
  \E n \in Counts, s \in PageSizes :
    \/ \E o \in Owners : acquire_continous_pages(o, n, s)
    \/ out_of_pages(n, s)

Next ==
  \/ add_memory_region
  \/ acquire
  \/ \E g \in held : \/ zeroize(g)
                     \/ copy_from_non_confidential_memory(g)
                     \/ copy_fails(g)
                     \/ write(g)
                     \/ release_pages(g)

Spec == Init /\ [][Next]_vars
\* The boot hart runs add_memory_region alone and to its end.
FairSpec == Spec /\ WF_vars(add_memory_region)

------------------------------------------------------------------------------
(* Properties *)

\* Type invariant.
TypeOK ==
  /\ start \in Addresses /\ end \in Addresses
  /\ memory_address \in Addresses \cup {None}
  /\ page_size \in PageSizes
  /\ map \in [PageSizes -> Seq(Addresses)]
  /\ held \subseteq Group /\ leaked \subseteq Group
  /\ content \in [Addresses -> Owners \cup {"boot", "zero"}]

\* Where a token can be: at an index of a vector of the map, or in a group.
Free == UNION {{<<s, i>> : i \in DOMAIN map[s]} : s \in PageSizes}
FreeFrames(x) == Frames(map[x[1]][x[2]], x[1])
Groups == held \cup leaked

\* "It guarantees that a physical page is not allocated twice": no frame of the
\* confidential memory belongs to two page tokens, wherever they are: free in
\* the allocator, held by an owner or dropped (page_allocator.rs).
PageTokensAreDisjoint ==
  /\ held \cap leaked = {}
  /\ \A x, y \in Free : x # y => FreeFrames(x) \cap FreeFrames(y) = {}
  /\ \A x \in Free, g \in Groups : FreeFrames(x) \cap FramesOf(g) = {}
  /\ \A g, h \in Groups : g # h => FramesOf(g) \cap FramesOf(h) = {}
  /\ \A g \in Groups : \A i, j \in DOMAIN g.pages :
       i # j => Frames(g.pages[i], g.size) \cap Frames(g.pages[j], g.size) = {}

WellPlaced(a, s) == /\ a % InBytes[s] = 0
                    /\ start <= a /\ a + InBytes[s] <= end

\* Every token describes a page aligned to its size, as RISC-V requires, that
\* lies inside the region the allocator owns; the unwrap in Page::divide and
\* the writes of Page::clear rely on it.
PageTokensAreWellPlaced ==
  /\ \A x \in Free : WellPlaced(map[x[1]][x[2]], x[1])
  /\ \A g \in Groups : \A i \in DOMAIN g.pages : WellPlaced(g.pages[i], g.size)

\* acquire_continous_pages returns pages that follow each other in memory, in
\* order: PageTableMemory indexes them as one array (resolve_index).
AcquiredPagesAreContinous ==
  \A g \in Groups : \A i \in 1 .. (Len(g.pages) - 1) :
    g.pages[i + 1] = g.pages[i] + InBytes[g.size]

\* An allocated page shows its owner only zeros and the owner's own data, never
\* what the frame held before (zeroize and copy_from_non_confidential_memory
\* are the only ways from UnAllocated to Allocated).
NoResidualData ==
  \A g \in held : g.state = "Allocated" =>
    \A f \in FramesOf(g) : content[f] \in {"zero", g.owner}

\* A page that went back to the allocator carries no data of an owner: it was
\* cleared on its way, and dropped pages never come back.
FreePagesAreScrubbed ==
  \A x \in Free : \A f \in FreeFrames(x) : content[f] \notin Owners

TokenFrames == UNION ({FreeFrames(x) : x \in Free} \cup {FramesOf(g) : g \in Groups})

\* Once the region is added, no operation creates memory or loses it: every
\* frame that had a token has one after dividing, acquiring and releasing.
MemoryIsConserved == [][Booted => TokenFrames' = TokenFrames]_vars

\* add_memory_region's loop ends: "we will increment the memory_address in each
\* loop so that it eventually passes the end of the given memory region".
RegionIsAdded == <>Booted
=============================================================================
