---------------------------- MODULE MonitorLocks ----------------------------
(***************************************************************************)
(* The locks of the security monitor, one step per acquisition, access and *)
(* release.  SecurityMonitor takes a critical section for one step; here   *)
(* the sections of several hardware harts interleave:                      *)
(*   control_data          RwLock over the map of VMs                      *)
(*   confidential_vm       Mutex of each VM                                *)
(*   inter_hart_requests   Mutex of the queue of each confidential hart    *)
(*   interrupt_controller  RwLock, only read                               *)
(*   page_allocator        RwLock, only written                            *)
(*   heap                  Mutex of the global allocator                   *)
(* An operation is the sequence of steps its handler takes.  todo[h] is    *)
(* what the hardware hart h still has to do of its operation, held[h] the  *)
(* guards on its stack.  An early return drops the guards in reverse       *)
(* order.  spin's locks are not fair, and a waiting writer does not keep   *)
(* readers out.  unshare_page is left out: it panics inside its section.   *)
(***************************************************************************)
EXTENDS Integers, Sequences, FiniteSets

CONSTANTS
    HardwareHarts,
    VmIds,          \* the ids ControlData can give out, 0 .. n
    HartIds,        \* the confidential harts of a VM, 0 .. n
    MaxRequests,    \* MAX_NUMBER_OF_REMOTE_HART_REQUESTS
    None

HartStates == {"Started", "StartPending", "Stopped", "Suspended", "Shutdown"}
AssignedHart == [vm : VmIds, hart : HartIds, state : HartStates]

ASSUME LocksAssumption ==
    /\ Cardinality(VmIds) \in Nat \ {0} /\ VmIds = 0 .. (Cardinality(VmIds) - 1)
    /\ Cardinality(HartIds) \in Nat \ {0} /\ HartIds = 0 .. (Cardinality(HartIds) - 1)
    /\ MaxRequests \in Nat
    /\ None \notin HartStates /\ None \notin AssignedHart

VARIABLES
    confidential_vms,       \* id -> the slots of the VM: a lifecycle state, or None for a dummy
    inter_hart_requests,    \* id -> the number of system resets queued for each hart
    hardware_hart,          \* the confidential hart assigned to the hardware hart, or None
    todo,                   \* the steps left of the operation in progress
    held                    \* the guards held, the latest last

data == <<confidential_vms, inter_hart_requests, hardware_hart>>
vars == <<confidential_vms, inter_hart_requests, hardware_hart, todo, held>>

Init ==
    /\ confidential_vms = <<>>
    /\ inter_hart_requests = <<>>
    /\ hardware_hart = [h \in HardwareHarts |-> None]
    /\ todo = [h \in HardwareHarts |-> <<>>]
    /\ held = [h \in HardwareHarts |-> <<>>]

-----------------------------------------------------------------------------
(* Locks.                                                                  *)

Lock(name, v, c, mode) == [name |-> name, vm |-> v, hart |-> c, mode |-> mode]

Conflict(a, b) ==
    /\ a.name = b.name /\ a.vm = b.vm /\ a.hart = b.hart
    /\ ~ (a.mode = "read" /\ b.mode = "read")

Acquire(name, mode) == [do |-> "acquire", lock |-> Lock(name, 0, 0, mode)]
AcquireVm(v) == [do |-> "acquire", lock |-> Lock("confidential_vm", v, 0, "write")]
AcquireQueue(v, c) == [do |-> "acquire", lock |-> Lock("inter_hart_requests", v, c, "write")]
Release == [do |-> "release"]
Do(step, v, c) == [do |-> step, vm |-> v, hart |-> c]

\* The harts (h itself included) that hold a guard in the way of h's next step.
Blockers(h) ==
    IF todo[h] = <<>> \/ Head(todo[h]).do # "acquire"
    THEN {}
    ELSE {g \in HardwareHarts : \E i \in DOMAIN held[g] : Conflict(held[g][i], Head(todo[h]).lock)}

-----------------------------------------------------------------------------
(* The steps of the functions that take locks.                             *)

\* try_read: the guard lives as long as the operation.
try_read(v, find, steps) ==
    <<Acquire("control_data", "read"), Do(find, v, 0)>> \o steps \o <<Release>>

\* Faulty variant: the VM's mutex is not taken.
try_confidential_vm_NoMutex(v, find, steps) == try_read(v, find, steps)

\* try_confidential_vm and try_confidential_vm_mut: both guards live as long as op.
try_confidential_vm(v, find, steps) ==
    try_read(v, find, <<AcquireVm(v)>> \o steps \o <<Release>>)

\* alloc and dealloc of the global allocator.
allocate == <<Acquire("heap", "write"), Release>>

\* acquire_continous_pages and release_pages move tokens between vectors on the heap.
acquire_continous_pages == <<Acquire("page_allocator", "write")>> \o allocate \o <<Release>>

steal_confidential_hart(v, c) ==
    try_confidential_vm(v, "find", <<Do("is_executable", v, c), Do("steal", v, c)>>)

return_confidential_hart(v, c) ==
    try_confidential_vm(v, "find_or_panic", <<Do("return", v, c)>>)

process_inter_hart_requests(v, c) ==
    try_confidential_vm(v, "find_or_panic",
        <<AcquireQueue(v, c), Do("drain", v, c), Release>>)

\* The result of share_page maps the page: page tables come from the page allocator
\* and a page that was mapped goes back to it.
map_shared_page(v) ==
    try_confidential_vm(v, "find", acquire_continous_pages \o allocate \o acquire_continous_pages)

\* For a target that runs: its queue, then the IPI under the interrupt controller's lock.
queue_request(v, c) ==
    <<AcquireQueue(v, c), Do("push", v, c)>> \o allocate \o <<Release>>
        \o <<Acquire("interrupt_controller", "read"), Do("send_ipi", v, c), Release>>

\* The targets in the order of their ids, without the sender.
Targets(sender) ==
    [i \in 1 .. (Cardinality(HartIds) - 1) |-> IF i <= sender THEN i - 1 ELSE i]

broadcast_inter_hart_request(v, sender) ==
    try_confidential_vm(v, "find",
        [i \in DOMAIN Targets(sender) |-> Do("broadcast", v, Targets(sender)[i])])

\* The VM, once out of the map, is dropped when the write guard is gone.
drop_confidential_vm == acquire_continous_pages \o allocate

\* Faulty variant: the VM is checked under a read guard, and removed later.
remove_confidential_vm_CheckThenRemove(v) ==
    try_confidential_vm(v, "find", <<Do("are_all_harts_shutdown", v, 0)>>)
        \o <<Acquire("control_data", "write"), Do("find", v, 0), Do("remove", v, 0), Release>>
        \o drop_confidential_vm

\* Faulty variant: the VM is removed from within its own critical section.
remove_confidential_vm_Nested(v) ==
    try_confidential_vm(v, "find",
        <<Do("are_all_harts_shutdown", v, 0), Acquire("control_data", "write"),
          Do("remove", v, 0), Release>>) \o drop_confidential_vm

\* remove_confidential_vm: the guard on the VM is a temporary of the check.
remove_confidential_vm(v) ==
    <<Acquire("control_data", "write"), Do("find", v, 0), AcquireVm(v),
      Do("are_all_harts_shutdown", v, 0), Release, Do("remove", v, 0)>>
        \o allocate \o <<Release>> \o drop_confidential_vm

-----------------------------------------------------------------------------
(* Operations: what a trap makes the hardware hart do.                     *)

\* h starts an operation; a hart that is in the monitor does not trap.
Call(h, steps) ==
    /\ todo[h] = <<>>
    /\ todo' = [todo EXCEPT ![h] = steps]
    /\ UNCHANGED <<data, held>>

\* The memory of the VM is copied before the map is locked.
promote_to_confidential_vm(h) ==
    /\ hardware_hart[h] = None
    /\ Call(h, acquire_continous_pages \o allocate
               \o <<Acquire("control_data", "write"), Do("insert", 0, 0)>>
               \o allocate \o <<Release>>)

terminate_confidential_vm(h, v) ==
    hardware_hart[h] = None /\ Call(h, remove_confidential_vm(v))

resume_confidential_hart(h, v, c) ==
    /\ hardware_hart[h] = None
    /\ Call(h, steal_confidential_hart(v, c) \o process_inter_hart_requests(v, c)
               \o <<Do("take_request", v, c)>>)

\* interrupt.rs, and every handler that exits to the hypervisor without more.
interrupt(h, ssip) ==
    /\ hardware_hart[h] # None
    /\ LET v == hardware_hart[h].vm
           c == hardware_hart[h].hart
       IN Call(h, IF ssip
                  THEN process_inter_hart_requests(v, c) \o <<Do("after_requests", v, c)>>
                  ELSE return_confidential_hart(v, c))

sbi_hsm_hart_start(h, target) ==
    /\ hardware_hart[h] # None
    /\ LET v == hardware_hart[h].vm IN
       Call(h, try_confidential_vm(v, "find", <<Do("transit_to_start_pending", v, target)>>)
               \o return_confidential_hart(v, hardware_hart[h].hart))

sbi_hsm_hart_stop(h) ==
    /\ hardware_hart[h] # None
    /\ LET v == hardware_hart[h].vm
           c == hardware_hart[h].hart
       IN Call(h, <<Do("transition_from_started_to_stopped", v, c)>> \o return_confidential_hart(v, c))

sbi_hsm_hart_suspend(h) ==
    /\ hardware_hart[h] # None
    /\ LET v == hardware_hart[h].vm
           c == hardware_hart[h].hart
       IN Call(h, <<Do("transition_from_started_to_suspended", v, c)>> \o return_confidential_hart(v, c))

\* The state of some hart is read in the critical section.
sbi_hsm_hart_status(h) ==
    hardware_hart[h] # None /\ Call(h, try_confidential_vm(hardware_hart[h].vm, "find", <<>>))

\* sbi_srst.rs and shutdown_confidential_hart.rs.
shutdown_confidential_hart(v, c) ==
    <<Do("transition_to_shutdown", v, c)>> \o return_confidential_hart(v, c)
        \o remove_confidential_vm(v)

sbi_srst(h) ==
    /\ hardware_hart[h] # None
    /\ LET v == hardware_hart[h].vm
           c == hardware_hart[h].hart
       IN Call(h, broadcast_inter_hart_request(v, c) \o shutdown_confidential_hart(v, c))
-----------------------------------------------------------------------------
(* One step of an operation.                                               *)

\* h is about to do the step.
At(h, step) == todo[h] # <<>> /\ Head(todo[h]).do = step

\* The rest of the operation follows, after more if the step calls for it.
Then(h, more) == todo' = [todo EXCEPT ![h] = more \o Tail(@)]

\* An error ends the operation: only the guards are left to drop.
Fail(h) == todo' = [todo EXCEPT ![h] = [i \in DOMAIN held[h] |-> Release]]

acquire(h) ==
    /\ At(h, "acquire") /\ Blockers(h) = {}
    /\ held' = [held EXCEPT ![h] = Append(@, Head(todo[h]).lock)]
    /\ Then(h, <<>>)
    /\ UNCHANGED data

release(h) ==
    /\ At(h, "release")
    /\ held' = [held EXCEPT ![h] = SubSeq(@, 1, Len(@) - 1)]
    /\ Then(h, <<>>)
    /\ UNCHANGED data

\* A step that reads shared data: go on, or return the error.
Check(h, step, ok(_, _), more) ==
    /\ At(h, step)
    /\ IF ok(Head(todo[h]).vm, Head(todo[h]).hart) THEN Then(h, more) ELSE Fail(h)
    /\ UNCHANGED <<data, held>>

Exists(v, c) == v \in DOMAIN confidential_vms

find(h) == Check(h, "find", Exists, <<>>)

\* The unwrap of into_non_confidential_flow and process_inter_hart_requests.
find_or_panic(h) ==
    /\ At(h, "find_or_panic")
    /\ todo' = [todo EXCEPT ![h] = IF Exists(Head(@).vm, 0) THEN Tail(@) ELSE <<[do |-> "panic"]>>]
    /\ UNCHANGED <<data, held>>

Executable(v, c) == confidential_vms[v][c] \in {"Started", "StartPending", "Suspended"}

is_executable(h) == Check(h, "is_executable", Executable, <<>>)

AllShutdown(v, c) == \A d \in HartIds : confidential_vms[v][d] = "Shutdown"

are_all_harts_shutdown(h) == Check(h, "are_all_harts_shutdown", AllShutdown, <<>>)

\* The steps below write shared data under the guards acquired before.
steal(h) ==
    /\ At(h, "steal")
    /\ LET v == Head(todo[h]).vm
           c == Head(todo[h]).hart
       IN /\ hardware_hart' = [hardware_hart EXCEPT ![h] =
                 [vm |-> v, hart |-> c, state |-> confidential_vms[v][c]]]
          /\ confidential_vms' = [confidential_vms EXCEPT ![v][c] = None]
    /\ Then(h, <<>>)
    /\ UNCHANGED <<inter_hart_requests, held>>

return(h) ==
    /\ At(h, "return")
    /\ confidential_vms' = [confidential_vms EXCEPT
          ![Head(todo[h]).vm][Head(todo[h]).hart] = hardware_hart[h].state]
    /\ hardware_hart' = [hardware_hart EXCEPT ![h] = None]
    /\ Then(h, <<>>)
    /\ UNCHANGED <<inter_hart_requests, held>>

drain(h) ==
    /\ At(h, "drain")
    /\ LET v == Head(todo[h]).vm
           c == Head(todo[h]).hart
       IN /\ hardware_hart' = [hardware_hart EXCEPT ![h].state =
                 IF inter_hart_requests[v][c] > 0 THEN "Shutdown" ELSE @]
          /\ inter_hart_requests' = [inter_hart_requests EXCEPT ![v][c] = 0]
    /\ Then(h, <<>>)
    /\ UNCHANGED <<confidential_vms, held>>

\* A hart that was shut down by a request leaves for good.
after_requests(h) ==
    /\ At(h, "after_requests")
    /\ LET v == Head(todo[h]).vm
           c == Head(todo[h]).hart
       IN Then(h, IF hardware_hart[h].state = "Shutdown"
                  THEN shutdown_confidential_hart(v, c)
                  ELSE return_confidential_hart(v, c))
    /\ UNCHANGED <<data, held>>

\* The pending request: a start is completed; a hart that waits for the result of
\* share_page (whether it does is left open here) has the page mapped.
take_request(h) ==
    /\ At(h, "take_request")
    /\ \/ /\ hardware_hart' = [hardware_hart EXCEPT ![h].state =
                IF @ = "StartPending" THEN "Started" ELSE @]
          /\ Then(h, <<>>)
       \/ /\ hardware_hart[h].state # "StartPending"
          /\ Then(h, map_shared_page(Head(todo[h]).vm))
          /\ UNCHANGED hardware_hart
    /\ UNCHANGED <<confidential_vms, inter_hart_requests, held>>

transition_to_shutdown(h) ==
    /\ At(h, "transition_to_shutdown")
    /\ hardware_hart' = [hardware_hart EXCEPT ![h].state = "Shutdown"]
    /\ Then(h, <<>>)
    /\ UNCHANGED <<confidential_vms, inter_hart_requests, held>>

\* Only a started hart stops or suspends itself; any other one is answered with an error.
transition_from_started(h, step, next) ==
    /\ At(h, step)
    /\ IF hardware_hart[h].state = "Started"
       THEN hardware_hart' = [hardware_hart EXCEPT ![h].state = next] /\ Then(h, <<>>)
       ELSE Fail(h) /\ UNCHANGED hardware_hart
    /\ UNCHANGED <<confidential_vms, inter_hart_requests, held>>

transition_from_started_to_stopped(h) ==
    transition_from_started(h, "transition_from_started_to_stopped", "Stopped")

transition_from_started_to_suspended(h) ==
    transition_from_started(h, "transition_from_started_to_suspended", "Suspended")

transit_to_start_pending(h) ==
    /\ At(h, "transit_to_start_pending")
    /\ LET v == Head(todo[h]).vm
           c == Head(todo[h]).hart
       IN IF confidential_vms[v][c] = "Stopped"
          THEN /\ confidential_vms' = [confidential_vms EXCEPT ![v][c] = "StartPending"]
               /\ Then(h, <<>>)
          ELSE Fail(h) /\ UNCHANGED confidential_vms
    /\ UNCHANGED <<inter_hart_requests, hardware_hart, held>>

\* A hart in its slot is shut down at once, a hart that runs gets the request queued.
broadcast(h) ==
    /\ At(h, "broadcast")
    /\ LET v == Head(todo[h]).vm
           c == Head(todo[h]).hart
       IN IF confidential_vms[v][c] = None
          THEN Then(h, queue_request(v, c)) /\ UNCHANGED confidential_vms
          ELSE /\ confidential_vms' = [confidential_vms EXCEPT ![v][c] = "Shutdown"]
               /\ Then(h, <<>>)
    /\ UNCHANGED <<inter_hart_requests, hardware_hart, held>>

push(h) ==
    /\ At(h, "push")
    /\ LET v == Head(todo[h]).vm
           c == Head(todo[h]).hart
       IN IF inter_hart_requests[v][c] < MaxRequests
          THEN /\ inter_hart_requests' = [inter_hart_requests EXCEPT ![v][c] = @ + 1]
               /\ Then(h, <<>>)
          ELSE Fail(h) /\ UNCHANGED inter_hart_requests
    /\ UNCHANGED <<confidential_vms, hardware_hart, held>>

\* OpenSBI sends the IPI or refuses to.
send_ipi(h) ==
    /\ At(h, "send_ipi")
    /\ Then(h, <<>>) \/ Fail(h)
    /\ UNCHANGED <<data, held>>

unique_id ==
    LET ids == DOMAIN confidential_vms IN
    IF ids = {} THEN 0 ELSE (CHOOSE v \in ids : \A u \in ids : u <= v) + 1

\* insert_confidential_vm: no id is left above the largest one in VmIds.
insert(h) ==
    /\ At(h, "insert")
    /\ LET ids == DOMAIN confidential_vms
           id == unique_id
       IN IF id \in VmIds
          THEN /\ confidential_vms' = [v \in ids \cup {id} |->
                     IF v = id THEN [c \in HartIds |-> IF c = 0 THEN "Started" ELSE "Stopped"]
                               ELSE confidential_vms[v]]
               /\ inter_hart_requests' = [v \in ids \cup {id} |->
                     IF v = id THEN [c \in HartIds |-> 0] ELSE inter_hart_requests[v]]
               /\ Then(h, <<>>)
          ELSE Fail(h) /\ UNCHANGED <<confidential_vms, inter_hart_requests>>
    /\ UNCHANGED <<hardware_hart, held>>

remove(h) ==
    /\ At(h, "remove")
    /\ LET left == DOMAIN confidential_vms \ {Head(todo[h]).vm} IN
       /\ confidential_vms' = [v \in left |-> confidential_vms[v]]
       /\ inter_hart_requests' = [v \in left |-> inter_hart_requests[v]]
    /\ Then(h, <<>>)
    /\ UNCHANGED <<hardware_hart, held>>

Step(h) ==
    \/ acquire(h) \/ release(h)
    \/ find(h) \/ find_or_panic(h) \/ is_executable(h) \/ are_all_harts_shutdown(h)
    \/ steal(h) \/ return(h) \/ drain(h) \/ after_requests(h) \/ take_request(h)
    \/ transition_to_shutdown(h) \/ transit_to_start_pending(h)
    \/ transition_from_started_to_stopped(h) \/ transition_from_started_to_suspended(h)
    \/ broadcast(h) \/ push(h) \/ send_ipi(h)
    \/ insert(h) \/ remove(h)

Start(h) ==
    \/ promote_to_confidential_vm(h)
    \/ \E v \in VmIds :
          \/ terminate_confidential_vm(h, v)
          \/ \E c \in HartIds : resume_confidential_hart(h, v, c)
    \/ \E ssip \in BOOLEAN : interrupt(h, ssip)
    \/ \E c \in HartIds : sbi_hsm_hart_start(h, c)
    \/ sbi_hsm_hart_stop(h) \/ sbi_hsm_hart_suspend(h) \/ sbi_hsm_hart_status(h)
    \/ sbi_srst(h)

Next == \E h \in HardwareHarts : Start(h) \/ Step(h)

Spec == Init /\ [][Next]_vars

(***************************************************************************)
(* Properties.                                                             *)
(***************************************************************************)

\* Whatever locks the harts hold and wait for, in every group of harts there is one
\* that waits for no member of the group: neither two handlers that take locks in
\* different orders nor a handler that takes a lock twice stop the monitor.
NoDeadlock ==
    \A group \in SUBSET HardwareHarts :
        group # {} => \E h \in group : Blockers(h) \cap group = {}

\* "below unwrap is safe because we are in the confidential flow that guarantees that
\* the confidential VM with the given id exists in the control data": another hart
\* never removes the VM between two critical sections of a handler.
UnwrapsAreSafe == \A h \in HardwareHarts : ~ At(h, "panic")

\* The harts on hardware harts, and the lifecycle state of every hart, which is in
\* its slot or, for a hart that runs, with its hardware hart.
AssignedHarts == {hardware_hart[h] : h \in HardwareHarts} \ {None}

RunningHarts == {<<a.vm, a.hart>> : a \in AssignedHarts}

LifecycleState ==
    [v \in VmIds |->
        IF v \in DOMAIN confidential_vms
        THEN [c \in HartIds |->
                IF confidential_vms[v][c] # None
                THEN confidential_vms[v][c]
                ELSE (CHOOSE a \in AssignedHarts : a.vm = v /\ a.hart = c).state]
        ELSE <<>>]

Lifecycle == INSTANCE HartLifecycle WITH
    vms <- DOMAIN confidential_vms, state <- LifecycleState, running <- RunningHarts

\* The critical sections are atomic: the interleaved steps implement the lifecycle
\* that SecurityMonitor, which takes a whole section for one step, implements too.
SectionsAreAtomic == Lifecycle!LifecycleSpec
=============================================================================
