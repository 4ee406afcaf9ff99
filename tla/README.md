# Verification of the ACE security monitor

The ACE security monitor (`src/security-monitor`) runs in the machine mode of a RISC-V processor. Below it
runs an untrusted hypervisor (Linux KVM); the monitor turns virtual machines of that hypervisor into
*confidential* virtual machines, whose memory and registers the hypervisor cannot reach. This directory holds
TLA+ models of the monitor, the TLC configurations that check them on small instances, and TLAPS proofs of the
central safety properties for every size of the system.

Paths below are relative to `src/security-monitor/src` unless they start with `src/`.

## 1. The system and its parts

**Hardware harts** execute the hypervisor or a confidential hart. Every trap to machine mode enters the
monitor, on all harts in parallel. The monitor has no thread of its own.

| part | code | what it does |
| --- | --- | --- |
| control data | `core/control_data/` | The confidential VMs behind a read-write lock, each behind a mutex. A VM owns its *hart tokens*, one per slot, and a queue of inter-hart requests per hart. |
| confidential flow | `confidential_flow/` | Handlers of the traps of a confidential hart. |
| non-confidential flow | `non_confidential_flow/` | Handlers of the hypervisor's calls: promote a VM, resume a hart, terminate a VM; everything else goes to OpenSBI. |
| context switch | `*/context_switch/*.S`, `core/control_data/hardware_hart.rs`, `core/architecture/riscv/hart_architectural_state.rs` | Saving and loading registers, in three rounds: general purpose registers (assembly), volatile CSRs (routers), all other CSRs (steal/return of a token). |
| transformations | `core/transformations/` | The only values that cross between the hypervisor and a confidential hart. |
| interrupt controller | `core/interrupt_controller/` | IPIs through OpenSBI. |
| page allocator | `core/page_allocator/` | Page tokens of the confidential memory. |
| heap allocator | `core/heap_allocator/` | The monitor's own heap. |
| memory layout | `core/memory_layout/`, `src/security-monitor/rust-crates/pointers_utility` | Address arithmetic and the split of the physical memory. |
| memory protector | `core/memory_protector/` | Second-level page tables (MMU), PMP, TLB, IOPMP (empty). |
| initialization | `core/initialization/` | Boot. |

How they interact: to run a confidential hart, a hardware hart *steals* its token (`steal_confidential_hart`
swaps it with a dummy that carries the hardware hart's id), switches the CSRs and the memory protection, answers
the hart's pending request from the hypervisor's registers and leaves to the guest. A trap of the guest is
either answered inside the monitor or leads back: the token returns to its slot (`return_confidential_hart`),
and a transformation shows the hypervisor what the request needs. Harts of one VM reach each other through the
queues: a request for a hart in its slot is applied at once, one for a running hart is queued and announced by
an IPI to the hardware hart named in the dummy.

`PROJECT.json` lists every part with its sources and says which are modelled, which only in part, and which
not; section 9 gives the reasons.

## 2. Modules

| module | models | composition |
| --- | --- | --- |
| `ConfidentialHart` | a hart token: lifecycle, pending request, the transformations applied to it | base of the core |
| `SecurityMonitor` | control data, both flows, all handlers, IPIs | extends `ConfidentialHart`; the composition of the core |
| `HartLifecycle` | abstract specification: which harts exist, their lifecycle, which run | implemented by `SecurityMonitor` and `MonitorLocks` |
| `MonitorLocks` | the locks: every acquisition, access and release of the handlers as a step of its own | the handlers of `SecurityMonitor` that take more than one lock or write under one, one level finer; without `unshare_page`, which panics inside its section |
| `SecurityMonitorProofs` | theorems about `SecurityMonitor`, and that it implements `HartLifecycle` | extends it and `TLAPS` |
| `MonitorLocksSteps` | the steps of every handler of `MonitorLocks` as a path that takes locks in order; the inductive invariant and the steps that keep it | extends it and `TLAPS` |
| `MonitorLocksProofs` | theorems about `MonitorLocks` | extends `MonitorLocksSteps` |
| `FaultedInstruction` | the MMIO instruction in `mtinst` and its decoding (operators only) | base of `HartContext` |
| `HartContext` | the register contents of one hardware hart across all context switches | extends `FaultedInstruction` |
| `SoftwareInterrupts` | hart masks; the VSSIP bit between queue, memory copies and the aliased `hvip`/`vsip` registers | |
| `SoftwareInterruptsProofs` | theorem about `SoftwareInterrupts` | extends it and `TLAPS` |
| `PageAllocator` | page tokens, contents of pages | |
| `PageAllocatorProofs` | theorems about `PageAllocator` | extends it and `TLAPS` |
| `HeapAllocator` | the free list, byte by byte | |
| `HeapAllocatorProofs` | theorems about `HeapAllocator` | extends it and `TLAPS` |
| `MemoryProtector` | page tables, shared pages, PMP, hgatp, TLB of all harts | |
| `MemoryProtectorProofs` | theorems about `MemoryProtector` | extends it and `TLAPS` |
| `MemoryLayout` | pointer arithmetic and the bounds of the two memories (operators only) | base of `Initialization` |
| `Initialization` | boot of all harts, and restarts of harts later | extends `MemoryLayout` |
| `InitializationProofs` | theorems about `Initialization` | extends it and `TLAPS` |
| `MC...` | the instances for TLC | |

A definition has the name of the function it models wherever TLA+ allows it; `map` in `PROJECT.json` gives the
lines of each. Operators named `..._Something` and commented "Faulty variant" are plausible mistakes in that
function; each is used to confirm that a property notices it and takes no part in any specification.

## 3. How the models correspond to the code

### The core (`ConfidentialHart`, `SecurityMonitor`)

*State.* `confidential_vms`, `confidential_harts` and `inter_hart_requests` are the fields of `ControlData` and
`ConfidentialVm`; `hardware_hart[h]` is the token in `HardwareHart::confidential_hart`; `hgatp[h]` names the VM
whose memory protection is in force; `ipi[h]` is an IPI on its way; `pc[h]` says between which critical sections
of which handler a hart is, and `removing[h]` is the VM id a shutting-down hart remembers. A token records its
ids, its lifecycle state, its pending request and `mepc_lag`: how far `mepc` is behind the instruction that comes
next once the trapped one has had its result.

*Steps.* One step is one critical section under the control data lock and the VM's mutex. What a handler does
before and after touches only the token it owns, so it belongs to the neighbouring step. A trap is merged with the
handler's first critical section. The exception is `interrupt`: `mip` is read *before* the queue is locked, which
is visible to others, so reading (`interrupt`) and draining (`interrupt_process`) are two steps. Handlers with
several critical sections keep them apart: `sbi_hsm_hart_start` (the target becomes StartPending; later the
caller leaves), shutdown (the token is given back; later the VM is removed by the remembered id), resume (the
token is stolen; later the queue is drained and the reply applied).

*Errors.* A refused resume, promotion or termination changes nothing but a result register and is a stuttering
step. A broadcast that fails stops at the failing target; earlier targets keep the request. `sbi_ipi_send_smode`
may refuse when `IpiMayFail` is TRUE.

*Choices left open.* The SSIP bit an interrupt sees is not determined by `ipi` (the hypervisor may have taken the
IPI). A broadcast selects any set of harts (`SoftwareInterrupts` computes the set from the mask). A VM is promoted with any number of harts below the limit, none
included. Ids are the code's: one more than the largest in use, so that they are reused.

*Traps.* `Exceptions` are those VS and VU mode can raise, `Delegated` the ones `ConfidentialHart::new` delegates to the
guest, `Routes` the handlers that the router has for the rest. A fetch from an unmapped guest page is neither
delegated nor routed and panics (`unrouted_trap`); so does a page fault for which `mtinst` holds no instruction, as in an
implicit access of the guest's own page table walk (`implicit_page_fault`).

*Panics.* The asserts and unwraps of the flows are the invariant `FlowGuarantee`; the panics the code reaches by
design (an unimplemented call) lead to `pc = "panic"`, after which the model stops. The handler's clearing of memory
and the missing halt of other harts (a TODO at `core/panic.rs:13`) are not followed.

### Locks (`MonitorLocks`)

The core takes a critical section for one step; `MonitorLocks` does not. `todo[h]` is the sequence of steps that the
hardware hart `h` still has to take, `held[h]` its guards. An operator such as `remove_confidential_vm` returns the steps
of the function of that name, so that the nesting of the closures is the nesting of the sequences. A step acquires a lock
(when no guard conflicts), drops the latest guard, or reads or writes shared data. An error ends the operation: what is left of
it is to drop the guards held, one after the other. The locks are the read-write lock of the control data, the mutexes of the VMs and of their queues, the
read-write locks of the interrupt controller and of the page allocator, and the mutex of the heap. Data are reduced to
what the steps depend on: slots, lifecycle states, number of queued resets. The other inter-hart requests take the
locks of a reset and change less. HartStop, HartSuspend and HartStatus are operations of their own. UnsharePage is left out: it
panics under the control data lock and the VM's mutex (section 9). Whether a page is being shared, and whether an IPI is refused, is left open.

### Registers (`FaultedInstruction`, `HartContext`, `SoftwareInterrupts`)

A register stands for a class that the code treats alike (`a0` for a0 and a1, `vsscratch` for the register through
which an MMIO exit passes the instruction, and so on); a value is `<<writer, version>>`, and a program counter moves on by
bytes. A context computes once per time slice, writing every register within its reach. `EnteredFrom...` and
`LeaveTo...` are the three rounds of saving and loading; the `apply_...` operators are the transformations of
`HardwareHart::apply`, `Answered` those of a pending request. There is one action per exit of either flow: delegation to
OpenSBI and to the hypervisor, promotion and its failure, resume and its refusal, termination, answers inside the
monitor, hypercalls, page sharing, hart start, stop and suspend, shutdown, interrupts, MMIO loads and stores and their failure.
A started hart finds what `StartPending` leaves in its dump. A page fault without an instruction in `mtinst` panics, and so does an exit
to a hypervisor whose trap vector is vectored (`apply_trap`); after a panic nobody runs. The hypervisor's calling
convention is followed: a call of the monitor carries its arguments in vs registers, and the monitor restores a6 and a7
from there (`Called`, `restore_original_gprs`). A promotion makes the calling hart the boot hart; the others begin with the state
after a reset and wait to be started. `left` and `waiting` are history
variables: the registers each context had when it last lost the processor, and the instruction it stopped at.

`FaultedInstruction` builds `mtinst` as the processor does (address fields zero, bit 1 clear for a compressed instruction)
and decodes it as the monitor does. Instructions that the decoder does not know (floating point) take the error path:
the hypervisor sees a failed call, nothing is pending and the instruction is executed again.

In `SoftwareInterrupts`, `is_hart_selected` is the code's test of a hart against mask and base, `Addressed` what the SBI
specification says of them. `vsip.SSIP` and `hvip.VSSIP` are one bit in the processor and two in memory. The order in
which steal and return store and load them decides whether an interrupt survives. Another hart may send an IPI between
the critical sections of resume and of the interrupt handler. What the handler reads of `mip.SSIP` is left open. `owed` (an IPI
was sent and not taken) and `dropped` (it was drained by a handler that saw SSIP) are history variables.

### Memory (`PageAllocator`, `HeapAllocator`, `MemoryProtector`)

`PageAllocator` counts addresses in smallest pages; every operation runs under the allocator's lock and is one step,
but the boot hart's loop in `add_memory_region` takes one step per iteration. The index arithmetic of the search, the
order of the vectors and the division of larger pages are as in the code, including what they miss (section 7).
`content` says whose data a frame holds.

`HeapAllocator` computes in bytes with a word of two bytes. `alloc` rounds the layout along one path and `dealloc`
along another, as in the code. `lost` is a history variable: the bytes that `try_allocation` leaves out in front of an
aligned block.

`MemoryProtector` addresses table entries by paths. `entries` is what the monitor keeps in `PageTable::entries`,
`memory` the raw words the hardware walks: the copy of a table starts with the hypervisor's words, chosen
nondeterministically at that moment, and the entries are rewritten one by one. A table or page is one token. A copy
may run out of pages at any point; what the drops then release and what leaks (`leaked`) is as in the code. `access`
is a hardware walk that fills the TLB. The request and the answer of a share are one step: in between, the hart runs
the hypervisor, and both switches flush its TLB. Shared pages have the smallest size: where one replaces a huge leaf, the hardware takes
the rest of the range for part of it, which is the value `Unchecked`. `stale` (pages that the VM gave back on another hart
since this hart's last fence) and `used` (harts that ran a VM) are history variables.

### Boot (`MemoryLayout`, `Initialization`)

Pointers are numbers below `AddressSpace`; what wraps in the code wraps, what panics on overflow panics. The boot
hart's functions are one step each: until they finish the other harts only spin on `HARTS_STATES`.
`ace_setup_this_hart` runs under a mutex. The device tree is any member of `Fdts`; the allocation of stacks may fail
or return any disjoint pages. OpenSBI is external: it may run a delegated call for ever, return from it, or start a hart over
(HSM stop and start), which runs `ace_setup_this_hart` again.

## 4. Runs

| run | instance | shows |
| --- | --- | --- |
| `one_vm` | 2 hardware harts, one VM of up to 2 harts, queues of 2, every trap whose handler cannot panic (RemoteFence is in `two_vms`), fairness | the type invariant; requests never overlap; a guest continues after exactly one result; queued requests are announced and processed; a system reset reaches every hart; the core implements `HartLifecycle` |
| `two_vms` | 2 hardware harts, 2 VM ids, refused IPIs, panics | tokens are unique, the flows' asserts hold, a VM is removed only when it is dead, although ids are reused |
| `reset_leaves_vm` | as `one_vm` with interrupts, hart starts and resets only | **violated**, section 7: a system reset ends with the VM removed |
| `locks` | 2 hardware harts, one VM of 2 harts, queues of 1 | no group of harts waits for each other; the VM of a running hart is not removed under it; the critical sections are atomic: the interleaved steps implement `HartLifecycle` |
| `hart_context` | 2 confidential harts and the hypervisor on one hart, 9 MMIO instructions | each context finds its registers again and continues after its instruction, with the response in the right register; of the registers that are switched the hypervisor sees only declassified ones; the trap configuration follows the context |
| `floating_point` | the same | **violated**, section 7: the floating point registers follow the context |
| `software_interrupts` | 3 confidential harts, masks of 2 bits with every base, any value of SSIP | an IPI to an addressed hart is lost on one path only and is taken otherwise |
| `lost_ipi` | the same | **violated**, section 7: no IPI is lost |
| `page_allocator` | regions of up to 7 frames, page sizes 1, 2, 4; 2 owners | tokens are disjoint, aligned, inside the region, continuous, scrubbed and conserved; the loop over the region ends |
| `heap_allocator` | 16 words, 4 layouts | blocks and free regions are disjoint and large and aligned enough; the assertions of the list hold; only padding is lost |
| `memory_protector` | 2 VMs of two harts on 2 hardware harts, 3 pages, 1 shared page, 2 levels | each page has one owner; hardware and monitor see the same tables; a VM reaches only its own and shared pages, up to three exceptions that the property names; a share changes one address |
| `boot` | 2 harts, 128 addresses, pages of 4, 540 device trees | the memory is partitioned; the hypervisor runs only above a working monitor; on a supported machine every hart gets there |

### Why the bounds are enough

*Core.* Conflicts over a token need two hardware harts; a broadcast, a start or a reset needs a second hart in the VM;
reuse of an id needs two ids. A queue of one is full at once, so `two_vms` reaches the failing broadcast; `one_vm` uses
queues of two, so that a reset finds room behind another request: a full queue makes it fail and then nothing is promised. The theorems cover every other size.
`two_vms` leaves out traps whose handlers touch one token only, and allows no deadlock check because a panic ends the model.

*Locks.* Two harts are enough for two locks taken in opposite orders, and for one hart to remove or change what the other has
checked. Longer cycles, and a writer that waits for several readers, need a third hart; the theorems of section 6 cover any number of
them. One id is enough because the VMs' mutexes are never nested; it is reused after a removal.

*Registers.* Two harts and the hypervisor are what it takes for a value of one hart to appear in another's context;
two versions of a value tell a fresh value from a stale one. The MMIO instructions are one of every kind that the decoder
tells apart. A mask narrower than the range of hart ids and bases reaches every comparison of the selection: a base above
the hart, a distance of exactly the width, the base of all ones.

*Page allocator.* Seven frames hold one page of the largest size and a misaligned rest of every smaller size, before and
behind it. *Heap.* The layouts are smaller than a word, larger than a node, unaligned, and aligned beyond a node; 16 words
reach the exact fit, the rest that is too small for a node, and exhaustion. *Page tables.* Three pages do not suffice for
two complete VMs with a table below the root, so copies fail at every point, and pages move between VMs. Two harts of one VM on two
hardware harts are what it takes for a stale translation. One root index beyond `VpnRange` covers
the difference between the two index widths. *Boot.* The device trees have every memory size up to half of the address
space from aligned, unaligned and extreme bases, and up to three harts of every fitness.

Symmetry is used for hardware harts (`two_vms`, `locks`) and for page tokens, hardware harts and VMs (`memory_protector`); no liveness property is
checked under symmetry. Deadlock is not checked where the system may stop: after a panic, and in `heap_allocator` and `boot`
when memory is exhausted or the boot gave up; in `memory_protector` when leaks leave no page for a promotion.

## 5. Fairness

* *Steps inside the monitor* are weakly fair: a hart that is in the monitor runs with interrupts off until it leaves.
* *The timer interrupt of a guest* is weakly fair: `mie` of a confidential hart enables the supervisor timer of the
  hypervisor (`core/control_data/confidential_hart.rs:81`), which the guest cannot mask.
* *The hypervisor* is an assumption, not a consequence of the code: liveness properties suppose that it resumes every hart
  that stays schedulable (strong fairness, since a hart is unschedulable while it runs). Nothing makes it call
  `terminate_confidential_vm`: the code leaves the removal of a VM that was reset to its last hart. An uncooperative hypervisor can always deny service; no safety property
  assumes anything about it.
* *Boot*: every hart executes its code; nobody has to make, or to return from, a delegated call.
* In `software_interrupts` a guest that runs again and again with the interrupt pending takes it.

## 6. Proofs

### The core

`SecurityMonitorProofs` proves, for any sets of hardware harts, VM ids and hart ids, any queue limit, any set
of traps and, but for `AnnouncementSafety`, with or without refused IPIs:

| theorem | states |
| --- | --- |
| `TypeCorrectness` | `Spec => []TypeOK`; includes that no queue exceeds its limit |
| `TokenUniqueness` | `Spec => []HartTokensAreUnique`: no hart on two hardware harts, no token lost, dummies name the right hart |
| `FlowSafety` | `Spec => []FlowGuarantee`: the asserts and unwraps of the flows hold; the memory protection belongs to the token |
| `RemovalSafety` | `Spec => OnlyDeadVmsAreRemoved` |
| `RequestSafety` | `Spec => []RequestsDoNotOverlap`: a hart that runs awaits no reply, and no awaited reply is overwritten |
| `ResultSafety` | `Spec => []OneResultPerTrap`: one result is applied per trapped instruction |
| `AnnouncementSafety` | if `IpiMayFail = FALSE`, `Spec => []QueuedRequestsAreAnnounced` |
| `LifecycleRefinement` | `Spec => ImplementsHartLifecycle`, the refinement of `HartLifecycle` |

*Assumptions.* The named `ASSUME`s of `ConfidentialHart` and `SecurityMonitor`: the limits are natural numbers,
`NoVm` is no VM id, the traps are among those the router handles. TLC evaluates them in the runs.

*Argument.* None of the first three invariants is inductive alone. To show that a returned token goes back into its own slot one
needs that the slot holds this hart's dummy (token uniqueness); that the slot still exists needs that no VM with a token
outside was removed, which follows because its dummy is a "Started" hart and so `are_all_harts_shutdown` is false; that a
hart in the monitor has a token at all needs the flow guarantee; and all of them need the types. Their conjunction `IInv`
is inductive. The proof has four kinds of steps:

1. `TransformationsKeepToken`: whatever a handler does to a token leaves its identity alone; with `TokensStayLemma`
   every step that only transforms tokens in place keeps the invariant.
2. `StealLemma` and `ReturnLemma`: a token moves between slot and hardware hart.
3. `PromoteLemma` and `RemoveLemma` (over `ReplaceVmLemma`): a VM appears or goes; `RemovableVmsAreUnassigned` is the fact about
   dummies above, and `RemovalSafety` rests on it as well.
4. `DeliverLemma`, `BroadcastLemma`, `ProcessLemma`: queues grow below their limit and are emptied.

`ConfidentialStepLemma` and `HypervisorStepLemma` split the next-state relation into its actions, and `InductiveInvariant`
combines them.

*Results and requests.* The three properties speak about running harts, but what they say depends on
what a token looked like in its slot before it was resumed. The invariant `ResultInv` therefore relates lifecycle, pending
request and position of `mepc` of every token: in a slot (`Parked`), and on a hardware hart by its position in the code
(`Positioned`). A hart awaits a result exactly when its `mepc` is at the trapped instruction, except after HartSuspend, HartStop
and a shutdown; "StartPending" goes with the request that ends it. One lemma per transformation says which shape it makes of
which, and one step per action combines them under `IInv`.

*Announcements.* The invariant is inductive over `IInv`. The sender reads the target's hardware hart
from the dummy in the slot; that the IPI goes where the token is holds because every dummy names the holder of the token. A
queue is replaced only at promotion and removal, when no token of the VM is outside. The assumption is needed: a refused
IPI leaves a request in the queue of a running hart without an IPI.

*Refinement.* `AbstractState` reads the lifecycle of a hart from its token wherever it is; `EveryHart` and
`HeldHarts` show that under `IInv` this is one place. Moving a token changes who runs and no other hart (`StealStep`,
`ReturnStep`); a handler that keeps its token begins or shuts down its own hart (`OwnTokenStep`); a broadcast shuts down the
harts found in their slots while the sender runs (`DeliverStep`); starting, stopping, suspending, promotion and removal map to the actions
of the same name. The step is proved with `IInv` before and after it.

### Locks

About `MonitorLocks` two modules prove, for any set of hardware harts, any number of VM ids and of confidential harts,
and any queue limit:

| theorem | states |
| --- | --- |
| `DeadlockFreedom` | `Spec => []NoDeadlock`: no group of harts waits for locks that its members hold |
| `UnwrapSafety` | `Spec => []UnwrapsAreSafe`: the VM of a running hart is in the map whenever a handler unwraps its look-up |
| `Atomicity` | `Spec => SectionsAreAtomic`: interleaved lock by lock, the handlers implement `HartLifecycle` |

*Assumption.* `LocksAssumption`: ids count from 0, the queue limit is a natural number, a dummy is no state of a hart.

*Argument.* What a hart will do is data here, a sequence of steps, and an invariant must speak about all of it: that the
next step takes a lock in order says nothing about the one after. `Path(w, steps, e)` therefore says that the steps lead
from the local state `w` to `e`, where a local state is the guards on the hart's stack, the confidential hart assigned, and
one fact about the control data that the hart has checked. Along a path a lock is acquired only above all locks held, in the
order control data, VM, then the queue, interrupt controller or page allocator, then the heap; data is accessed only under the
guards that protect it; and what is forgotten at the end of a section is the fact. `MonitorLocksSteps` shows this for the
steps of every function, composed as the closures are nested, and that dropping the guards one by one is a path from
anywhere. The invariant (`Inv`): what is left of each hart's operation is a path from the guards it
has to none; its fact is true and guarded; guards of two harts do not exclude each other; and a slot is empty exactly when one
hardware hart has that confidential hart. A step of one hart keeps the fact of another because the guard that the fact needs
excludes the guard that the step needs.

Freedom from deadlock follows from the ranks: in a group of waiting harts take one whose lock ranks highest; its
holder in the group waits for a lock that ranks higher still. The refinement follows from the facts: when a step
writes, the fact of its hart is the guard of the abstract action.

### Page allocator

`PageAllocatorProofs` proves, for any number of page sizes of which each is a multiple of the one below, any region and any callers,
that every property which the run `page_allocator` checks holds, except for liveness: `TypeCorrectness`,
`NoPageIsAllocatedTwice` (`PageTokensAreDisjoint`), `PagesAreWherePromised` (`PageTokensAreWellPlaced`),
`GroupsAreContinous` (`AcquiredPagesAreContinous`), `NoDataIsInherited` (`NoResidualData`), `FreePagesHoldNoData`
(`FreePagesAreScrubbed`) and `NoMemoryIsLost` (`MemoryIsConserved`).

*Assumptions.* `PageSizesAssumption`, `MemoryAssumption` and `CallersAssumption`: a larger page is a multiple of the
smaller one, regions lie in the memory, nobody asks for no page.

*Argument.* The tokens of the map, seen as frames, are separate from each other and from the groups that callers hold (`TokensInv`);
free frames hold nobody's data (`ContentInv`); and while the region is being added, the tokens lie below the cursor, which is aligned to the
current page size (`Adding`). The loop's choice of a size needs that sizes nest (`SizesNest`, `ChosenSize`). The step that divides
larger pages is a recursive function from the larger sizes down; what it does to the map is proved by well-ordering,
on the least size at which it could go wrong (`DividePages`, over `PartsFill`, `PartIsInside`, `PartsAreApart`, `PartsCover`).

### Page tables, PMP and TLB

`MemoryProtectorProofs` proves, for any number of hardware harts, VMs, pages and levels (two or more) and any sizes of the
tables, every property that the run `memory_protector` checks:

| theorem | states |
| --- | --- |
| `TypeCorrectness` | `Spec => []TypeOK` |
| `OwnershipSafety` | `Spec => []PagesHaveOneOwner`: a page is free, leaked, or one table or one leaf of one VM |
| `CopySafety` | `Spec => []MemoryMatchesEntries`: no word of the hypervisor survives in a complete table |
| `AccessSafety` | `Spec => []AccessStaysInOwnMemory`: no access, cached or not, reaches a page that the VM does not own, up to the three exceptions of the property |
| `ShareSafety` | `Spec => ShareMapsOneAddress` (an action property) |

*Assumptions.* `LevelsAssumption`, `EntriesAssumption` (no table is larger than the root table), `ConfidentialHartsAssumption`
and `VmsAssumption`. `AccessSafety` holds for any number of confidential harts per VM. Its exceptions are what the code really
leaves open (section 7): a page in `stale`, memory behind a share inside a huge page, and a PMP entry that is off on a
hart outside `used`.

*Argument.* The recursion of `copy_from_non_confidential_memory` is a cursor, a path into the tables. The invariant must say
what is true in the middle of it: `Pending(c)` is the set of entries that the recursion has not handled when it is at `c`, and
the lemmas `PendingStart`, `PendingSibling`, `PendingChild` and `PendingDone` say how it shrinks. Pending entries are the
hypervisor's in `memory` and do not exist in `entries`; on all others the two agree (`Shape`). With `Pending` empty at the end
that is `CopySafety`. Ownership (`Apart`, `AllPages`) follows per VM, by how one entry or one token more or less changes what
the VM owns (`TableAdded`, `LeafAdded`, `LeafRemoved`, `PagesKept`); a failure returns what is in the
tables and leaks what is not yet in one (`FailsStep`). `AccessSafety` adds what the TLB of a hart that runs a VM may hold (`CachedInv`): `VmSteps` and `SharePages` say which pages
a VM loses in a step, and `ReachableKept` that these are then in `stale` of the harts that run it. For `ShareSafety`, `SameWalk` says that two walks that meet the same pointers
end at the same entry.

### Boot

`InitializationProofs` proves, for every address space, page size, device tree and set of harts:

| theorem | states |
| --- | --- |
| `TypeCorrectness` | `Spec => []TypeOK`: no address computed from the device tree leaves the address space |
| `PartitionSafety` | `Spec => []ConfidentialMemoryIsPartitioned` |
| `TrapSafety` | `Spec => []HypervisorTrapsIntoMonitor`, also when OpenSBI starts a hart over in the middle of a delegated call |

*Assumptions.* `AddressAssumption` and `BootAssumption`: a page is a whole number of words and half of the address space a whole
number of pages; the values of the device tree are addresses of the machine.

*Argument.* The invariant `Inv` follows the order in which the statics are written (`Statics`, `BootStage`) and, per hart, the
swap of `mscratch` with its saved value (`HartInv`). `SplitIs` holds the arithmetic: `wrapping_byte_add` may wrap, but then a
later `ptr_byte_add_mut` fails, so a layout is written only if `base + 2 * size` stays in the address space; the
distance of two pointers overflows beyond half of it, which `Halves` excludes; and aligning up and rounding down to whole pages stays
between the two ends (`AlignUp`, `LastPage`). `SharedPagesStay`, `AllWordsAreCleared` and `StacksStay` carry this to the users of
the layout.

### Heap allocator

`HeapAllocatorProofs` proves, for any word, heap and layouts: `TypeCorrectness`, `AllocationSafety` (`BlocksAreSound`),
`AssertionSafety` (`NodesAlwaysFit`) and `Conservation` (`HeapIsConserved`).

*Assumption.* `HeapAssumption`: an alignment divides a word or is a multiple of a node. All three are powers of two in the code, and of two powers of two one divides the other.

*Argument.* That a node fits where a rest begins holds because free regions and blocks start at a word and blocks have
the size `dealloc` will compute, which the invariant `Inv` adds to the properties: regions, blocks and lost bytes partition the
heap. `RoundUpFacts` and `LayoutFacts` say what the rounding returns; `Relinked` what unlinking and pushing do to the list.

### IPIs

`SoftwareInterruptsProofs` proves `NoOtherIpiIsLost`: `OnlySsipDropsIpis` holds for any number of harts, any width of the mask,
every mask and base, and whatever the interrupt handler reads of SSIP.

*Argument.* `OnlySsipDropsIpis` is not inductive: a call answered inside the monitor reloads `hvip` from the copies in memory. The
invariant adds that what a running hart is owed, and is neither queued nor dropped, is in one of the copies (`CopiesFollow`). The step of the
broadcast rests on a lemma: `is_hart_selected` selects every hart that the SBI specification addresses.

### Only model-checked

* *Liveness* (`QueuedRequestsAreProcessed`, `SystemResetReachesEveryHart`, `IpiIsTaken`, `RegionIsAdded`, `EveryHartIsSetUp`): fairness
  and ENABLED are beyond the prover.
* *`HartContext`* (`ConfigurationFollowsContext`, `HypervisorSeesOnlyDeclassified`, `ConfidentialContextIsRestored`): its contexts
  are functions over about fifty registers, rewritten by some twenty transformations, and the expected values are computed by the same
  functions. A proof would repeat the tables of the module case by case. The registers are fixed by the code, so the run
  covers all of them; only the number of confidential harts is a bound.

Every other property that a passing run checks has a theorem.

## 7. Disagreements between the code and its comments

Three are shown by a run of their own and listed under `findings`:

* **`reset_leaves_vm`**: `confidential_flow/handlers/sbi_srst.rs:11-13` says that the last hart that shuts down removes the VM. A hart
  whose reset is queued while it is being resumed drains it in `resume_confidential_hart_execution`
  (`confidential_flow/control_flow/mod.rs:116`) and goes on to execute guest code as Shutdown, although a hart that was shut down
  "cannot" be resumed (`interrupt.rs:24-26`) and is assigned "only" when Started (`confidential_hart.rs:45-46`). When it is preempted
  with SSIP clear, the handler looks neither at the queue nor at the state and the token goes back to its slot. No hart is
  left that could run, and nobody removes the VM. A hart that calls HartStop with the reset in its queue ends the same way, as
  Stopped. What does hold is `SystemResetReachesEveryHart` (`one_vm`): the reset gets to every hart that does not stop itself first.
* **`floating_point`**: the switch "restores the remaining ... state" of the context that continues (`exit_to_confidential_hart.S:8`,
  `exit_to_hypervisor.S:8`), but the lines for the floating point registers are commented out
  (`core/architecture/riscv/hart_architectural_state.rs:212`, `:258`): both contexts find the other's values. The properties of
  `hart_context` are about all other registers (`NotSwitched`).
* **`lost_ipi`**: the interrupt handler applies a queued IPI to the `vsip` copy in memory, and the return of the token
  stores the register over that copy (`core/architecture/riscv/hart_architectural_state.rs:201`). `OnlySsipDropsIpis` shows that
  this is the only path on which an IPI is lost.

The following were met while modelling. The models do what the code does, and the properties are stated so that
they hold for it:

| place | what |
| --- | --- |
| `core/control_data/confidential_hart.rs:45-46` | Says that a hart can be assigned only in the Started state; StartPending and Suspended harts are assigned too, and a suspended one runs as Suspended, since nothing returns it to Started (`:212`). `OneResultPerTrap` excepts it: its ecall is executed again. |
| `confidential_flow/handlers/interrupt.rs:8-12` | Says that software interrupts lead back to the confidential hart; every path but shutdown leads to the hypervisor. |
| `non_confidential_flow/control_flow/mod.rs:32` | "A confidential hart must be assigned"; the assertion at line 34 demands the opposite. |
| `core/page_allocator/page_allocator.rs:125` | A tail of the region on which only smaller pages fit gets no token. |
| `core/page_allocator/page_allocator.rs:206` | The search stops one index early: an existing run at the end of the vector is not found (`:176` promises it). |
| `core/page_allocator/page_allocator.rs:199` | Assumes that vectors are sorted; released and divided tokens are appended (`:252`). Runs of pages are missed, never invented. |
| `core/heap_allocator/allocator.rs:86` | An exact fit is refused. |
| `core/memory_protector/mmu/paging_system.rs:64` | The root index is masked like the others although the root table is larger (`:51`). `ShareMapsOneAddress` covers the indices that can be computed. |
| `core/memory_protector/pmp/mod.rs:36` | The mode of the PMP entry of the confidential memory is set by the first opening only (`:31`), so the entry is off until a confidential hart has run on the hart; `hypervisor_memory_protector.rs:23` says that the region is not accessible. The mode is state of `Initialization` and `MemoryProtector` (`pmp[h].tor`); `initialization/mod.rs:225` says that the set-up enables the isolation. `AccessStaysInOwnMemory` excepts the harts that have not run a VM. |
| `core/architecture/riscv/compressed_instructions.rs:22` | The fallback for compressed instructions is never reached: the caller sets the low bits of the word (`confidential_hart.rs:335`), and `mtinst` holds the expanded form, which the first branch decodes. |
| `confidential_flow/control_flow/mod.rs:102` | The panic is called a wrong delegation; an instruction fetch from an unmapped guest page gets there with the delegation as it is. |
| `confidential_flow/handlers/guest_load_page_fault.rs:14` | A load that cannot be decoded is shown to the hypervisor as a failed call although it made none, and moves its program counter on. |
| `core/memory_protector/mmu/page_table.rs:95`, `:144` | A share below a missing table fails: the new table is created without entries. |
| `core/memory_protector/mmu/page_table.rs:110` | A share inside a huge page replaces the whole page: the entry maps a range of the huge page's size of which `SharedPage::new` (`shared_page.rs:33`) has checked 4 KiB. `AccessStaysInOwnMemory` excepts these addresses (`InHugeShare`). |
| `core/memory_protector/tlb/mod.rs:7` | Only the executing hart's TLB is flushed (a TODO). With two harts of one VM, a replaced leaf stays in the other hart's TLB until its next fence, also when the page belongs to another VM by then. `AccessStaysInOwnMemory` excepts these pages (`stale`). |
| `core/memory_layout/mod.rs:93-100` | `confidential_address_at_offset_bounded` does not use its bound. |
| `core/initialization/mod.rs:91` | A hart node without a long enough `riscv,isa` panics instead of returning the error of lines 76-78. |
| `core/panic.rs:10` | Halting the other harts is a TODO. |

## 8. Hazards

`PROJECT.json` lists the places where the order of steps, a stale value, a failure half way or a boundary could break
the code, with the properties that would notice. Those without a property have a note.

## 9. What is not modelled

* What a panicking hart leaves behind: the locks it keeps and the memory it clears. UnsharePage, which is unimplemented, panics
  under the control data lock and the VM's mutex, so that every other hart waits at its next access; the models stop at the panic.
* Numeric encodings of SBI calls, CSR fields and page table entries.
* IOPMP and measurement (empty in the code); debug output; error codes.
* OpenSBI, the hypervisor and the guests: they are the environment. Guests take any trap at any time, the
  hypervisor makes any call; OpenSBI's part is what `Initialization` marks external.
* Build files, kernel patches, the sample guest, tools.
