-------------------------- MODULE MemoryProtector --------------------------
(***************************************************************************)
(* The memory of confidential VMs as the hardware sees it: the second      *)
(* level page tables that the monitor rebuilds in confidential memory, the *)
(* shared pages it maps into them, and the PMP, hgatp and TLB of the       *)
(* hardware harts that run the VMs.                                        *)
(*                                                                         *)
(* A page table is indexed by paths: <<i1, ..., ik>> is entry ik of the    *)
(* table that the pointer entry <<i1, ..., ik-1>> names; <<>> is the root. *)
(* A path of length Levels is also a guest page address, the sequence of   *)
(* the indices the hardware uses.  A table or a page occupies one token of *)
(* the page allocator, whatever its size: a leaf above the last level is a *)
(* huge page.  A shared page always has the smallest size.                 *)
(***************************************************************************)
EXTENDS Naturals, Sequences, FiniteSets

CONSTANTS
    Vms,            \* confidential VMs
    Harts,          \* hardware harts
    ConfidentialHarts,  \* how many confidential harts a VM has
    Pages,          \* page tokens of the confidential memory
    SharedPages,    \* pages of the non-confidential memory that the hypervisor may share
    Unchecked,      \* memory behind a shared page, which SharedPage::new did not look at
    Host,           \* an address in the page tables that the hypervisor wrote
    Levels,         \* levels of the page table
    RootEntries,    \* entries of the root table
    VpnRange,       \* values of the root index that PagingSystem::vpn computes
    Entries         \* entries of every other table

ASSUME LevelsAssumption == Levels \in Nat \ {0, 1}
ASSUME EntriesAssumption == /\ RootEntries \in Nat \ {0} /\ Entries \in 1..RootEntries
                            /\ VpnRange \in 1..RootEntries
ASSUME ConfidentialHartsAssumption == ConfidentialHarts \in Nat \ {0}

None == "None"

ASSUME VmsAssumption == None \notin Vms

\* PagingSystem::entries: the root table is larger than the others.
TableSize(table) == IF table = <<>> THEN RootEntries ELSE Entries

PathsOf(k) == {p \in [1..k -> 0..(RootEntries - 1)] : \A i \in 2..k : p[i] < Entries}

Paths == UNION {PathsOf(k) : k \in 1..Levels}

Addresses == PathsOf(Levels)

Table(p) == SubSeq(p, 1, Len(p) - 1)

Index(p) == p[Len(p)]

\* Faulty variant: the last index is cut like the root's.
vpn_Cut(a) == [i \in 1..Levels |-> a[i] % VpnRange]

\* PagingSystem::vpn for every level: the path along which the monitor walks.
vpn(a) == [i \in 1..Levels |-> IF i = 1 THEN a[1] % VpnRange ELSE a[i]]

Entry == [kind: {"NotValid"}, page: {None}]
         \cup [kind: {"Pointer", "Leaf"}, page: Pages \cup {Host}]
         \cup [kind: {"Shared"}, page: SharedPages]

\* What a TLB may hold of an address.
Cached == Entry \cup [kind: {"Shared"}, page: {Unchecked}]

NotValid == [kind |-> "NotValid", page |-> None]

VARIABLES
    free,       \* page tokens in the page allocator
    leaked,     \* page tokens that were dropped without being released
    phase,      \* None, "copying" or "ready"
    cursor,     \* the entry that the recursive copy handles next
    tokens,     \* the page_table_memory of every table: path of the table -> token
    entries,    \* PageTable::entries, the monitor's view
    memory,     \* the raw entries in the tables' memory, the hardware's view
    running,    \* the VM (or None: the hypervisor) that runs on each hardware hart
    pmp,        \* the PMP entry of the confidential memory: its mode and permissions
    tlb,        \* cached translations of each hart: <<address, entry>>
    stale,      \* history: pages that the VM on each hart gave back since the hart's last fence
    used        \* history: the harts that have run a confidential VM

vars == <<free, leaked, phase, cursor, tokens, entries, memory, running, pmp, tlb, stale, used>>

table_vars == <<free, leaked, phase, cursor, tokens, entries, memory>>

hart_vars == <<running, pmp, tlb, stale, used>>

Empty == [p \in Paths |-> NotValid]

NoTokens == [t \in {} |-> None]

\* The variables stay in their ranges: in particular the copy never indexes past the
\* entries of the table it is in (PageTableMemory::indices).
TypeOK ==
    /\ free \subseteq Pages /\ leaked \subseteq Pages
    /\ phase \in [Vms -> {None, "copying", "ready"}]
    /\ \A v \in Vms : cursor[v] # <<>> =>
          Table(cursor[v]) \in Paths \cup {<<>>} /\ Index(cursor[v]) \in 0..TableSize(Table(cursor[v]))
    /\ \A v \in Vms : DOMAIN tokens[v] \subseteq Paths \cup {<<>>} /\ \A t \in DOMAIN tokens[v] : tokens[v][t] \in Pages
    /\ entries \in [Vms -> [Paths -> Entry]]
    /\ memory \in [Vms -> [Paths -> Entry]]
    /\ running \in [Harts -> Vms \cup {None}]
    /\ pmp \in [Harts -> [tor : BOOLEAN, rwx : BOOLEAN]]
    /\ \A h \in Harts : \A t \in tlb[h] : t[1] \in Addresses /\ t[2] \in Cached
    /\ stale \in [Harts -> SUBSET Pages] /\ used \subseteq Harts

Init ==
    /\ free = Pages /\ leaked = {}
    /\ phase = [v \in Vms |-> None]
    /\ cursor = [v \in Vms |-> <<>>]
    /\ tokens = [v \in Vms |-> NoTokens]
    /\ entries = [v \in Vms |-> Empty]
    /\ memory = [v \in Vms |-> Empty]
    /\ running = [h \in Harts |-> None]
    /\ pmp = [h \in Harts |-> [tor |-> FALSE, rwx |-> FALSE]]
    /\ tlb = [h \in Harts |-> {}]
    /\ stale = [h \in Harts |-> {}] /\ used = {}

(***************************************************************************)
(* Copying the page table of a VM that is promoted.                        *)
(***************************************************************************)

\* What the hypervisor may have written in the table, read once into the table's own
\* confidential memory.  A last level pointer and a huge page are legal words too; all words
\* whose valid bit is clear are one, because the hardware does not look further.
RawEntries(table) ==
    [0..(TableSize(table) - 1) -> {NotValid} \cup [kind: {"Pointer", "Leaf"}, page: {Host}]]

\* PageTableMemory::copy_from_non_confidential_memory: a token for the table, filled
\* with the hypervisor's entries; its entries are then handled one by one.
copy_table(v, table) ==
    /\ \E page \in free, raw \in RawEntries(table) :
          /\ free' = free \ {page}
          /\ tokens' = [tokens EXCEPT ![v] = [t \in DOMAIN tokens[v] \cup {table} |-> IF t = table THEN page ELSE tokens[v][t]]]
          /\ memory' = [memory EXCEPT ![v] = [p \in Paths |-> IF Table(p) = table THEN raw[Index(p)] ELSE memory[v][p]]]
    /\ cursor' = [cursor EXCEPT ![v] = Append(table, 0)]
    /\ UNCHANGED <<leaked, entries, hart_vars>>

\* promote_to_confidential_vm: the copy starts with the root.
copy_mmu_configuration(v) ==
    /\ phase[v] = None
    /\ phase' = [phase EXCEPT ![v] = "copying"]
    /\ copy_table(v, <<>>)

\* The copy of the root itself fails: a token that was acquired for it is dropped.
copy_root_fails(v) ==
    /\ phase[v] = None
    /\ \E page \in free : free' = free \ {page} /\ leaked' = leaked \cup {page}
    /\ UNCHANGED <<phase, cursor, tokens, entries, memory, hart_vars>>

Sibling(p) == [p EXCEPT ![Len(p)] = @ + 1]

InTable(v) == phase[v] = "copying" /\ Index(cursor[v]) < TableSize(Table(cursor[v]))

\* Faulty variant: the raw entry stays as the hypervisor wrote it.
set_entry_Logical(v, entry) ==
    /\ entries' = [entries EXCEPT ![v][cursor[v]] = entry]
    /\ memory' = memory
    /\ cursor' = [cursor EXCEPT ![v] = Sibling(@)]

\* The entry that the cursor is at becomes the given one, in both views; an entry that
\* encodes to 0 is not written.
set_entry(v, entry) ==
    /\ entries' = [entries EXCEPT ![v][cursor[v]] = entry]
    /\ memory' = IF entry = NotValid THEN memory ELSE [memory EXCEPT ![v][cursor[v]] = entry]
    /\ cursor' = [cursor EXCEPT ![v] = Sibling(@)]

copy_not_valid(v) ==
    /\ InTable(v)
    /\ memory[v][cursor[v]].kind = "NotValid"
    /\ set_entry(v, NotValid)
    /\ UNCHANGED <<free, leaked, phase, tokens, hart_vars>>

copy_leaf(v) ==
    /\ InTable(v)
    /\ memory[v][cursor[v]].kind = "Leaf"
    /\ \E page \in free : free' = free \ {page} /\ set_entry(v, [kind |-> "Leaf", page |-> page])
    /\ UNCHANGED <<leaked, phase, tokens, hart_vars>>

copy_pointer(v) ==
    /\ InTable(v)
    /\ memory[v][cursor[v]].kind = "Pointer"
    /\ Len(cursor[v]) < Levels
    /\ copy_table(v, cursor[v])
    /\ UNCHANGED phase

\* The recursive call returns: the pointer entry in the table above is set.
copy_returns(v) ==
    /\ phase[v] = "copying"
    /\ ~InTable(v)
    /\ LET table == Table(cursor[v])
           entry == [kind |-> "Pointer", page |-> tokens[v][table]]
       IN IF table = <<>>
          THEN /\ phase' = [phase EXCEPT ![v] = "ready"]
               /\ cursor' = [cursor EXCEPT ![v] = <<>>]
               /\ UNCHANGED <<entries, memory>>
          ELSE /\ entries' = [entries EXCEPT ![v][table] = entry]
               /\ memory' = [memory EXCEPT ![v][table] = entry]
               /\ cursor' = [cursor EXCEPT ![v] = Sibling(table)]
               /\ UNCHANGED phase
    /\ UNCHANGED <<free, leaked, tokens, hart_vars>>

\* The tables whose entries are still being collected: their PageTable does not exist yet.
Unfinished(v) == {SubSeq(cursor[v], 1, k) : k \in 0..(Len(cursor[v]) - 1)}

\* Faulty variant: every entry is taken to own a page.
LeavesIn_AnyEntry(v, S) == {entries[v][p].page : p \in {q \in Paths : Table(q) \in S}}

LeavesIn(v, S) == {entries[v][p].page : p \in {q \in Paths : entries[v][q].kind = "Leaf" /\ Table(q) \in S}}

TableTokens(v) == {tokens[v][t] : t \in DOMAIN tokens[v]}

\* An error anywhere in the copy (no page left, an address outside the non-confidential
\* memory, a pointer in the last level, a failed copy of a page) drops everything built
\* so far.  Every page_table_memory is released and so are the pages of finished
\* tables; the pages in the vector of an unfinished table, and the page being
\* copied, have no destructor.
copy_fails(v) ==
    /\ InTable(v)
    /\ memory[v][cursor[v]].kind # "NotValid"
    /\ \E dropped \in {{}} \cup {{page} : page \in free} :
          LET lost == LeavesIn(v, Unfinished(v)) \cup dropped
          IN /\ leaked' = leaked \cup lost
             /\ free' = (free \cup TableTokens(v) \cup LeavesIn(v, DOMAIN tokens[v])) \ lost
    /\ phase' = [phase EXCEPT ![v] = None]
    /\ cursor' = [cursor EXCEPT ![v] = <<>>]
    /\ tokens' = [tokens EXCEPT ![v] = NoTokens]
    /\ entries' = [entries EXCEPT ![v] = Empty]
    /\ memory' = [memory EXCEPT ![v] = Empty]
    /\ UNCHANGED hart_vars

(***************************************************************************)
(* Running confidential VMs.                                               *)
(***************************************************************************)

open_access_to_confidential_memory(h) ==
    pmp' = [pmp EXCEPT ![h] = [tor |-> TRUE, rwx |-> TRUE]]

\* Clears the permissions and leaves the mode of the entry alone.
close_access_to_confidential_memory(h) == pmp' = [pmp EXCEPT ![h].rwx = FALSE]

\* The fences reach the hart that executes them and no other one.
tlb_shutdown(h) == tlb' = [tlb EXCEPT ![h] = {}]

\* The pages that other harts may still have cached when hart h has given some back and
\* flushed its own translations.
GivenBack(h, pages) ==
    [g \in Harts |-> IF g = h THEN {} ELSE IF running[g] = running[h] THEN stale[g] \cup pages ELSE stale[g]]

\* ConfidentialVmMemoryProtector::enable on the hart that resumes the VM: PMP opened,
\* hgatp set, translations of this hart flushed.
enable(h, v) ==
    /\ running' = [running EXCEPT ![h] = v]
    /\ open_access_to_confidential_memory(h)
    /\ tlb_shutdown(h)
    /\ stale' = [stale EXCEPT ![h] = {}]
    /\ used' = used \cup {h}

resume(h, v) ==
    /\ running[h] = None
    /\ phase[v] = "ready"
    /\ Cardinality({g \in Harts : running[g] = v}) < ConfidentialHarts
    /\ enable(h, v)
    /\ UNCHANGED table_vars

\* HypervisorMemoryProtector::enable on the way back to the hypervisor.
enable_hypervisor(h) ==
    /\ running' = [running EXCEPT ![h] = None]
    /\ close_access_to_confidential_memory(h)
    /\ tlb_shutdown(h)
    /\ stale' = [stale EXCEPT ![h] = {}]
    /\ UNCHANGED used

exit(h) ==
    /\ running[h] # None
    /\ enable_hypervisor(h)
    /\ UNCHANGED table_vars

\* The entry at which a walk along a path ends: the first one that is not a pointer.
EndOfWalk(view, path) ==
    LET depth == CHOOSE k \in 1..Levels :
                    /\ view[SubSeq(path, 1, k)].kind # "Pointer" \/ k = Levels
                    /\ \A j \in 1..(k - 1) : view[SubSeq(path, 1, j)].kind = "Pointer"
    IN SubSeq(path, 1, depth)

\* What the hardware finds at an address.  Every index below the end of the walk is part of
\* the offset in the page, so a shared page in a huge entry is found only where these
\* indices are zero (and only if it is aligned: a misaligned one faults).
HardwareWalk(v, a) ==
    LET p == EndOfWalk(memory[v], a)
    IN IF memory[v][p].kind = "Shared" /\ \E i \in (Len(p) + 1)..Levels : a[i] # 0
       THEN [kind |-> "Shared", page |-> Unchecked]
       ELSE memory[v][p]

\* The VM on the hart accesses an address: the hardware walks the tables and caches.
access(h, a) ==
    /\ running[h] # None
    /\ HardwareWalk(running[h], a).kind \in {"Leaf", "Shared"}
    /\ tlb' = [tlb EXCEPT ![h] = @ \cup {<<a, HardwareWalk(running[h], a)>>}]
    /\ UNCHANGED <<table_vars, running, pmp, stale, used>>

\* Faulty variant: the page of the replaced leaf is not returned.
map_shared_page_NoRelease(h, a, page) ==
    /\ running[h] # None
    /\ LET v == running[h]
           p == EndOfWalk(entries[v], vpn(a))
           entry == [kind |-> "Shared", page |-> page]
       IN /\ entries[v][p].kind \in {"Leaf", "Shared"} \/ Len(p) = Levels
          /\ entries' = [entries EXCEPT ![v][p] = entry]
          /\ memory' = [memory EXCEPT ![v][p] = entry]
          /\ free' = free
          /\ stale' = GivenBack(h, IF entries[v][p].kind = "Leaf" THEN {entries[v][p].page} ELSE {})
    /\ tlb_shutdown(h)
    /\ UNCHANGED <<leaked, phase, cursor, tokens, running, pmp, used>>

\* A share page request of the VM on the hart, answered by the hypervisor with a page of
\* non-confidential memory (SharedPage::new refuses any other).  The walk ends at a
\* mapped entry, of any size, or at a last level entry, which is replaced; a replaced
\* leaf's page returns to the allocator; the TLB of this hart is flushed.  The hypervisor
\* runs on the hart between request and answer, so that enable has flushed it as well.
map_shared_page(h, a, page) ==
    /\ running[h] # None
    /\ LET v == running[h]
           p == EndOfWalk(entries[v], vpn(a))
           entry == [kind |-> "Shared", page |-> page]
           replaced == IF entries[v][p].kind = "Leaf" THEN {entries[v][p].page} ELSE {}
       IN /\ entries[v][p].kind \in {"Leaf", "Shared"} \/ Len(p) = Levels
          /\ entries' = [entries EXCEPT ![v][p] = entry]
          /\ memory' = [memory EXCEPT ![v][p] = entry]
          /\ free' = free \cup replaced
          /\ stale' = GivenBack(h, replaced)
    /\ tlb_shutdown(h)
    /\ UNCHANGED <<leaked, phase, cursor, tokens, running, pmp, used>>

\* The walk ends at an invalid entry above the last level: PageTable::empty makes a
\* table without entries, so that the recursive call fails, and drops it again.  The
\* error is returned before the fences.
map_shared_page_fails(h, a) ==
    /\ running[h] # None
    /\ LET v == running[h]
           p == EndOfWalk(entries[v], vpn(a))
       IN entries[v][p].kind = "NotValid" /\ Len(p) < Levels
    /\ UNCHANGED vars

\* The hypervisor's answer to a share page request.  An error code, or an address that
\* SharedPage::new refuses, changes nothing.
share_page_result(h, a) ==
    \/ \E page \in SharedPages : map_shared_page(h, a, page)
    \/ map_shared_page_fails(h, a)

\* Faulty variant: the VM may still run on a hart.
remove_confidential_vm_Running(v) ==
    /\ phase[v] = "ready"
    /\ free' = free \cup TableTokens(v) \cup LeavesIn(v, DOMAIN tokens[v])
    /\ phase' = [phase EXCEPT ![v] = None]
    /\ tokens' = [tokens EXCEPT ![v] = NoTokens]
    /\ entries' = [entries EXCEPT ![v] = Empty]
    /\ memory' = [memory EXCEPT ![v] = Empty]
    /\ UNCHANGED <<leaked, cursor, hart_vars>>

\* The VM is removed once no hart runs it: the page table and its pages are released.
remove_confidential_vm(v) ==
    /\ phase[v] = "ready"
    /\ \A h \in Harts : running[h] # v
    /\ free' = free \cup TableTokens(v) \cup LeavesIn(v, DOMAIN tokens[v])
    /\ phase' = [phase EXCEPT ![v] = None]
    /\ tokens' = [tokens EXCEPT ![v] = NoTokens]
    /\ entries' = [entries EXCEPT ![v] = Empty]
    /\ memory' = [memory EXCEPT ![v] = Empty]
    /\ UNCHANGED <<leaked, cursor, hart_vars>>

Next ==
    \/ \E v \in Vms :
          \/ copy_mmu_configuration(v) \/ copy_root_fails(v) \/ copy_not_valid(v) \/ copy_leaf(v) \/ copy_pointer(v)
          \/ copy_returns(v) \/ copy_fails(v) \/ remove_confidential_vm(v)
    \/ \E h \in Harts :
          \/ exit(h)
          \/ \E v \in Vms : resume(h, v)
          \/ \E a \in Addresses :
                \/ access(h, a)
                \/ share_page_result(h, a)

Spec == Init /\ [][Next]_vars

(***************************************************************************)
(* Properties.                                                             *)
(***************************************************************************)

Leaves(v) == {p \in Paths : entries[v][p].kind = "Leaf"}

LeafPages(v) == {entries[v][p].page : p \in Leaves(v)}

Owned(v) == TableTokens(v) \cup LeafPages(v)

\* Every page of the confidential memory is in exactly one place: free, leaked, or one
\* table or leaf of one VM, through copies that fail half way, replaced leaves and
\* removed VMs (PageTable's and PageTableMemory's Drop, set_entry).
PagesHaveOneOwner ==
    /\ free \cap leaked = {}
    /\ Pages = free \cup leaked \cup UNION {Owned(v) : v \in Vms}
    /\ \A v \in Vms :
          /\ Owned(v) \cap (free \cup leaked) = {}
          /\ TableTokens(v) \cap LeafPages(v) = {}
          /\ \A t, u \in DOMAIN tokens[v] : t # u => tokens[v][t] # tokens[v][u]
          /\ \A p, q \in Leaves(v) : p # q => entries[v][p].page # entries[v][q].page
          /\ \A w \in Vms \ {v} : Owned(v) \cap Owned(w) = {}

\* "After this function executes, a valid page table configuration is in the
\* confidential memory" (PageTable::copy_from_non_confidential_memory): the raw
\* entries the hardware walks are the ones the monitor keeps in PageTable::entries,
\* so no valid entry written by the hypervisor survives in the tables of a complete VM.
MemoryMatchesEntries == \A v \in Vms : phase[v] = "ready" => memory[v] = entries[v]

\* A shared page took the place of a huge page that contains the address.
InHugeShare(v, a) == \E k \in 1..(Levels - 1) : memory[v][SubSeq(a, 1, k)].kind = "Shared"

\* ConfidentialVmMemoryProtector::enable lets a hart reach "memory regions owned by the
\* confidential VM" and "deny access to all other memory regions", and
\* HypervisorMemoryProtector::enable "denies accesses to all other memory regions" to the
\* hypervisor.  What the TLB of a hart holds is a page of the VM that runs on it or a shared
\* page, and a hart that runs the hypervisor holds nothing and its PMP entry is armed and
\* grants nothing, up to three exceptions, which are exactly these: on a hart that never
\* ran a VM the entry is still off; a page that the VM gave back on another hart stays
\* cached until this hart's next fence (tlb_shutdown is local); an address in a huge
\* page that was replaced by a shared page reaches what lies behind the shared page.
AccessStaysInOwnMemory ==
    \A h \in Harts :
        IF running[h] = None
        THEN ~pmp[h].rwx /\ tlb[h] = {} /\ (h \in used => pmp[h].tor)
        ELSE /\ pmp[h].tor /\ pmp[h].rwx
             /\ \A t \in tlb[h] :
                   \/ t[2].page \in SharedPages \cup Owned(running[h]) \cup stale[h]
                   \/ t[2].page = Unchecked /\ InHugeShare(running[h], t[1])

\* A share page request that succeeds leaves the hardware translating the requested
\* address to the page the hypervisor offered, and every other address of the VM as before
\* (RootPageTable::map_shared_page "works only for shared pages of size 4KiB").  This is
\* for addresses that vpn can compute and that no huge page maps.
ShareMapsOneAddress ==
    [][\A h \in Harts, a \in Addresses, page \in SharedPages :
         /\ map_shared_page(h, a, page)
         /\ a[1] < VpnRange
         /\ EndOfWalk(memory[running[h]], a) = a
         => /\ HardwareWalk(running[h], a)' = [kind |-> "Shared", page |-> page]
            /\ \A b \in Addresses \ {a} : HardwareWalk(running[h], b)' = HardwareWalk(running[h], b)]_vars
=============================================================================
