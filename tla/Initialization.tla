--------------------------- MODULE Initialization ---------------------------
(***************************************************************************)
(* The boot of the security monitor (core/initialization).  The boot hart  *)
(* reads the device tree, splits the memory, hands the confidential part   *)
(* to the heap and to the page allocator and allocates the state of every  *)
(* hart; every hart then installs the monitor under the hypervisor.  Until *)
(* HARTS_STATES is complete the other harts only spin, so each function of *)
(* the boot hart is one step; ace_setup_this_hart holds the mutex of       *)
(* HARTS_STATES from its first access to its return and is one step.       *)
(* The firmware around it (OpenSBI) is external: it enters a hart with its *)
(* own mscratch, and may start a hart over that the hypervisor stopped.    *)
(***************************************************************************)
EXTENDS MemoryLayout, Sequences, FiniteSets

CONSTANTS
    Harts,          \* mhartid of the physical harts
    BootHart,       \* the hart that boots cold
    Fdts,           \* the device trees the firmware may pass
    HeapPages,      \* NUMBER_OF_HEAP_PAGES
    TokenBytes,     \* size_of::<Page<UnAllocated>>()
    StackBytes      \* PageSize::Size2MiB

ASSUME BootAssumption ==
    /\ Harts \subseteq Nat /\ BootHart \in Harts
    /\ \A f \in Fdts : /\ f.readable \in BOOLEAN
                       /\ f.base \in Pointers /\ f.size \in Pointers
                       /\ f.harts \in Seq({"rv64ah", "rv64a", "rv32", "missing"})
    /\ HeapPages \in Nat /\ TokenBytes \in Nat /\ StackBytes \in Nat \ {0}

VARIABLES
    fdt,            \* the device tree; its content is trusted
    pc,             \* per hart: the next function, or where it executes
    error,          \* why init_security_monitor gave up, or "none"
    memory_layout,  \* MEMORY_LAYOUT, a sequence of at most one
    heap,           \* HEAP_ALLOCATOR: the region given to it, if any
    page_allocator, \* PAGE_ALLOCATOR: the region given to it, if any
    control_data,   \* INTERRUPT_CONTROLLER and CONTROL_DATA are complete
    harts_states,   \* HARTS_STATES, a sequence of at most one vector
    mscratch, mtvec, medeleg, pmp   \* registers of every hart

boot_vars == <<fdt, error, memory_layout, heap, page_allocator, control_data>>
registers == <<mscratch, mtvec, medeleg, pmp>>
vars == <<boot_vars, pc, harts_states, registers>>

opensbi_scratch(h) == <<"opensbi", h>>
address(i) == <<"HardwareHart", i>>
Nowhere == <<"zero", 0>>

Region(start, end) == [start |-> start, end |-> end]

Regions == [start : Pointers, end : Pointers]

\* OpenSBI programs the PMP entries from 2 on, so entries 0 and 1 are as the
\* reset left them: off.
Init ==
    /\ fdt \in Fdts
    /\ pc = [h \in Harts |-> IF h = BootHart THEN "initialize_memory_layout" ELSE "setup"]
    /\ error = "none"
    /\ memory_layout = <<>> /\ heap = <<>> /\ page_allocator = <<>>
    /\ control_data = FALSE
    /\ harts_states = <<>>
    /\ mscratch = [h \in Harts |-> opensbi_scratch(h)]
    /\ mtvec = [h \in Harts |-> "opensbi"]
    /\ medeleg = [h \in Harts |-> TRUE]
    /\ pmp = [h \in Harts |-> [start |-> 0, end |-> 0, tor |-> FALSE, rwx |-> FALSE]]

GoTo(h, where) == pc' = [pc EXCEPT ![h] = where]

\* init_security_monitor_asm only prints the error, and the firmware goes on.
gives_up(why) ==
    /\ error' = why
    /\ GoTo(BootHart, "setup")

-----------------------------------------------------------------------------
(* The boot hart                                                           *)

\* The confidential memory is as large as the region of the device tree and
\* follows it.
SplitMemory ==
    LET size == fdt.size
        end == wrapping_byte_add(fdt.base, 2 * size)
        middle == ptr_byte_add_mut(fdt.base, size, end)
    IN CASE ~fdt.readable -> Failed("FdtParsing")
         [] 2 * size >= AddressSpace -> Failed("panic")
         [] middle = Error -> Failed("MemoryBoundary")
         [] OTHER -> MemoryLayout_init(fdt.base, middle, middle, end)

initialize_memory_layout ==
    /\ pc[BootHart] = "initialize_memory_layout"
    /\ LET split == SplitMemory IN
       CASE split.outcome = "ok" ->
               /\ memory_layout' = <<split.layout>>
               /\ GoTo(BootHart, "initalize_security_monitor_state")
               /\ UNCHANGED error
         [] split.outcome = "panic" ->
               /\ GoTo(BootHart, "panic")
               /\ UNCHANGED <<memory_layout, error>>
         [] OTHER -> gives_up(split.outcome) /\ UNCHANGED memory_layout
    /\ UNCHANGED <<fdt, heap, page_allocator, control_data, harts_states, registers>>

\* The heap has room for a token of every page, besides its fixed part.
heap_pages(number_of_pages) == HeapPages + (number_of_pages * TokenBytes) \div PageBytes

page_allocator_start_address(l, bytes) ==
    confidential_address_at_offset(l, l.confidential_memory_start, bytes)

\* The heap is smaller than the memory, so the address behind it exists.
initalize_security_monitor_state ==
    LET l == memory_layout[1]
        number_of_pages == (l.confidential_memory_end - l.confidential_memory_start) \div PageBytes
        bytes == heap_pages(number_of_pages) * PageBytes
        middle == page_allocator_start_address(l, bytes)
    IN
    /\ pc[BootHart] = "initalize_security_monitor_state"
    /\ IF number_of_pages > heap_pages(number_of_pages)
       THEN /\ heap' = <<Region(l.confidential_memory_start, l.confidential_memory_start + bytes)>>
            /\ page_allocator' = <<Region(middle, l.confidential_memory_end)>>
            /\ control_data' = TRUE
            /\ GoTo(BootHart, "verify_harts")
            /\ UNCHANGED error
       ELSE gives_up("NotEnoughMemory") /\ UNCHANGED <<heap, page_allocator, control_data>>
    /\ UNCHANGED <<fdt, memory_layout, harts_states, registers>>

\* The first hart of the device tree that is not fit decides.  A hart without
\* the property riscv,isa has the empty string, whose slice panics.
verify_harts ==
    LET unfit == {i \in DOMAIN fdt.harts : fdt.harts[i] # "rv64ah"} IN
    /\ pc[BootHart] = "verify_harts"
    /\ IF unfit = {} THEN GoTo(BootHart, "prepare_harts") /\ UNCHANGED error
       ELSE IF \E i \in unfit : fdt.harts[i] = "missing" /\ \A j \in unfit : i <= j
            THEN GoTo(BootHart, "panic") /\ UNCHANGED error
       ELSE gives_up("NotSupportedHardware")
    /\ UNCHANGED <<fdt, memory_layout, heap, page_allocator, control_data, harts_states, registers>>

\* The stacks the page allocator can give: aligned pages inside its region.
StackPages ==
    {p \in Pointers : /\ p % StackBytes = 0
                      /\ page_allocator[1].start <= p
                      /\ p + StackBytes <= page_allocator[1].end}

HartAreas(n) == [0 .. n - 1 -> [stack : StackPages, previous_mscratch : {Nowhere}]]

\* Every hart takes a page of its own for its stack.
prepare_harts ==
    /\ pc[BootHart] = "prepare_harts"
    /\ \E areas \in HartAreas(Len(fdt.harts)) :
          /\ \A i, j \in DOMAIN areas : i # j => areas[i].stack # areas[j].stack
          /\ harts_states' = <<areas>>
    /\ GoTo(BootHart, "setup")
    /\ UNCHANGED <<boot_vars, registers>>

\* The page allocator may lack a page of this size even if the region has room
\* for one (PageAllocator models which tokens it has).
prepare_harts_fails ==
    /\ pc[BootHart] = "prepare_harts"
    /\ Len(fdt.harts) > 0
    /\ gives_up("OutOfPages")
    /\ UNCHANGED <<fdt, memory_layout, heap, page_allocator, control_data, harts_states, registers>>

-----------------------------------------------------------------------------
(* Every hart                                                              *)

\* setup: split_memory_into_confidential_and_non_confidential writes the two
\* address registers and clears the permissions of the entries; their mode
\* stays as it is until open_access_to_confidential_memory sets it.
setup(h) ==
    pmp' = [pmp EXCEPT ![h] =
               [start |-> memory_layout[1].confidential_memory_start,
                end |-> memory_layout[1].confidential_memory_end,
                tor |-> @.tor, rwx |-> FALSE]]

\* Faulty variant: mscratch is written before its old value is saved.
ace_setup_this_hart_NoSwap(h) ==
    /\ pc[h] = "setup"
    /\ harts_states # <<>>
    /\ h \in DOMAIN harts_states[1]
    /\ mscratch' = [mscratch EXCEPT ![h] = address(h)]
    /\ setup(h)
    /\ medeleg' = [medeleg EXCEPT ![h] = FALSE]
    /\ mtvec' = [mtvec EXCEPT ![h] = "monitor"]
    /\ GoTo(h, "hypervisor")
    /\ UNCHANGED <<boot_vars, harts_states>>

\* The return on an error of HypervisorMemoryProtector::setup is never taken: setup fails
\* only with fewer than four PMP entries, and it takes their number to be 16.
ace_setup_this_hart(h) ==
    /\ pc[h] = "setup"
    /\ harts_states # <<>>
    /\ h \in DOMAIN harts_states[1]
    /\ harts_states' = [harts_states EXCEPT ![1][h].previous_mscratch = mscratch[h]]
    /\ mscratch' = [mscratch EXCEPT ![h] = address(h)]
    /\ setup(h)
    /\ medeleg' = [medeleg EXCEPT ![h] = FALSE]
    /\ mtvec' = [mtvec EXCEPT ![h] = "monitor"]
    /\ GoTo(h, "hypervisor")
    /\ UNCHANGED boot_vars

\* The states are indexed by mhartid and counted by nodes of the device tree.
ace_setup_this_hart_panics(h) ==
    /\ pc[h] = "setup"
    /\ harts_states # <<>>
    /\ h \notin DOMAIN harts_states[1]
    /\ GoTo(h, "panic")
    /\ UNCHANGED <<boot_vars, harts_states, registers>>

swap_mscratch(h, i) ==
    /\ mscratch' = [mscratch EXCEPT ![h] = harts_states[1][i].previous_mscratch]
    /\ harts_states' = [harts_states EXCEPT ![1][i].previous_mscratch = mscratch[h]]

\* A trap of the hypervisor that the monitor passes on.  The assembly finds the
\* state of the hart at the address in mscratch.
delegate_to_opensbi(h) ==
    /\ pc[h] = "hypervisor"
    /\ swap_mscratch(h, mscratch[h][2])
    /\ GoTo(h, "sbi_trap_handler")
    /\ UNCHANGED <<boot_vars, mtvec, medeleg, pmp>>

delegate_to_opensbi_returns(h) ==
    /\ pc[h] = "sbi_trap_handler"
    /\ swap_mscratch(h, h)
    /\ GoTo(h, "hypervisor")
    /\ UNCHANGED <<boot_vars, mtvec, medeleg, pmp>>

\* The hypervisor's call stops the hart, and later another one starts it over:
\* the firmware boots it warm and never returns from its trap handler.
firmware_restarts_hart(h) ==
    /\ pc[h] = "sbi_trap_handler"
    /\ mscratch' = [mscratch EXCEPT ![h] = opensbi_scratch(h)]
    /\ mtvec' = [mtvec EXCEPT ![h] = "opensbi"]
    /\ medeleg' = [medeleg EXCEPT ![h] = TRUE]
    /\ GoTo(h, "setup")
    /\ UNCHANGED <<boot_vars, harts_states, pmp>>

-----------------------------------------------------------------------------

\* A panic ends the behaviour, as in SecurityMonitor: the panicking hart clears
\* the confidential memory, the states of all harts included.
NoPanic == \A h \in Harts : pc[h] # "panic"

BootStep ==
    \/ initialize_memory_layout
    \/ initalize_security_monitor_state
    \/ verify_harts
    \/ prepare_harts
    \/ prepare_harts_fails

Next ==
    /\ NoPanic
    /\ \/ BootStep
       \/ \E h \in Harts :
             \/ ace_setup_this_hart(h)
             \/ ace_setup_this_hart_panics(h)
             \/ delegate_to_opensbi(h)
             \/ delegate_to_opensbi_returns(h)
             \/ firmware_restarts_hart(h)

Spec == Init /\ [][Next]_vars

\* Harts execute their code; nobody has to make or to end a delegated call.
FairSpec ==
    /\ Spec
    /\ WF_vars(NoPanic /\ BootStep)
    /\ \A h \in Harts : WF_vars(NoPanic /\ ace_setup_this_hart(h))

-----------------------------------------------------------------------------
(* Properties                                                              *)

\* Type invariant.
TypeOK ==
    /\ fdt \in Fdts
    /\ pc \in [Harts -> {"initialize_memory_layout", "initalize_security_monitor_state",
                         "verify_harts", "prepare_harts", "setup", "hypervisor",
                         "sbi_trap_handler", "panic"}]
    /\ \A i \in DOMAIN memory_layout : memory_layout[i] \in Layout
    /\ \A i \in DOMAIN heap : heap[i] \in Regions
    /\ \A i \in DOMAIN page_allocator : page_allocator[i] \in Regions
    /\ control_data \in BOOLEAN
    /\ mtvec \in [Harts -> {"opensbi", "monitor"}]
    /\ medeleg \in [Harts -> BOOLEAN]
    /\ pmp \in [Harts -> [start : Pointers, end : Pointers, tor : BOOLEAN, rwx : BOOLEAN]]

Bytes(r) == r.start .. r.end - 1

Confidential(l) == l.confidential_memory_start .. l.confidential_memory_end - 1

\* "Provides an interface to offset addresses that are guaranteed to remain
\* inside the same memory region" (MemoryLayout): whatever the device tree says,
\* the confidential memory consists of whole pages behind the region of the
\* device tree, heap and page allocator share it without a gap or an overlap,
\* stacks are disjoint pages of the allocator, no page shared with the
\* hypervisor touches it, and the panic handler clears exactly its words.
ConfidentialMemoryIsPartitioned ==
    \A i \in DOMAIN memory_layout :
       LET l == memory_layout[i] IN
       /\ l.confidential_memory_start % PageBytes = 0 /\ l.confidential_memory_end % PageBytes = 0
       /\ Confidential(l) \subseteq fdt.base + fdt.size .. fdt.base + 2 * fdt.size - 1
       /\ \A p \in SharedPages(l) : p .. p + PageBytes - 1 \subseteq fdt.base .. fdt.base + fdt.size - 1
       /\ ClearedWords(l) = {p \in Confidential(l) : p % WordBytes = 0}
       /\ \A j \in DOMAIN heap :
             /\ Bytes(heap[j]) \cap Bytes(page_allocator[j]) = {}
             /\ Bytes(heap[j]) \cup Bytes(page_allocator[j]) = Confidential(l)
       /\ \A j \in DOMAIN harts_states : \A a, b \in DOMAIN harts_states[j] :
             LET Stack(x) == harts_states[j][x].stack .. harts_states[j][x].stack + StackBytes - 1 IN
             /\ Stack(a) \subseteq Bytes(page_allocator[1])
             /\ a # b => Stack(a) \cap Stack(b) = {}

\* Whenever the hypervisor executes on a hart, its calls reach the monitor and
\* the monitor finds what it needs: mtvec and medeleg lead into it, mscratch
\* holds the state of this very hart, which keeps OpenSBI's mscratch for the next
\* delegated call, the statics it reads are complete, and the PMP registers hold
\* the bounds of the confidential memory with no permission.  The mode of that
\* entry is not claimed: it stays off until the first confidential hart is resumed here.
\* OpenSBI in turn always runs with its own mscratch, also after the hart was
\* started over.
HypervisorTrapsIntoMonitor ==
    \A h \in Harts :
       /\ pc[h] = "hypervisor" =>
             /\ mtvec[h] = "monitor" /\ ~medeleg[h]
             /\ mscratch[h] = address(h)
             /\ harts_states[1][h].previous_mscratch = opensbi_scratch(h)
             /\ control_data /\ error = "none"
             /\ pmp[h].start = memory_layout[1].confidential_memory_start
             /\ pmp[h].end = memory_layout[1].confidential_memory_end
             /\ ~pmp[h].rwx
       /\ pc[h] \in {"setup", "sbi_trap_handler"} => mscratch[h] = opensbi_scratch(h)

\* The whole pages of the memory behind the region of the device tree.
WholePages ==
    {k \in 0 .. AddressSpace \div PageBytes :
        /\ fdt.base + fdt.size <= k * PageBytes
        /\ (k + 1) * PageBytes <= fdt.base + 2 * fdt.size}

\* A machine ACE supports: a readable device tree with word aligned memory that
\* ends below the middle of the address space (an isize), more whole pages than
\* the heap needs, and one fit hart for every mhartid from 0.
Supported ==
    /\ fdt.readable
    /\ fdt.size > 0 /\ fdt.base + 2 * fdt.size < AddressSpace \div 2
    /\ (fdt.base + fdt.size) % WordBytes = 0
    /\ Cardinality(WholePages) > heap_pages(Cardinality(WholePages))
    /\ \A i \in DOMAIN fdt.harts : fdt.harts[i] = "rv64ah"
    /\ Harts = 0 .. Len(fdt.harts) - 1

\* On a supported machine every hart reaches the hypervisor under the monitor,
\* unless the page allocator has too few pages for the stacks: no hart spins for
\* ever on HARTS_STATES and none panics (ace_setup_this_hart waits "until the boot
\* hart initializes the security monitor's data structures").
EveryHartIsSetUp ==
    Supported => \A h \in Harts : <>(pc[h] = "hypervisor" \/ error = "OutOfPages")
=============================================================================
