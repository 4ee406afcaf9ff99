--------------------------- MODULE SecurityMonitor ---------------------------
(***************************************************************************)
(* The security monitor's finite state machine: hardware harts that move   *)
(* between the hypervisor and confidential harts, and the control data     *)
(* they share.  It composes                                                *)
(*   - core/control_data (ControlData, ConfidentialVm, HardwareHart),      *)
(*   - confidential_flow and non_confidential_flow with their handlers,    *)
(*   - core/interrupt_controller.                                          *)
(*                                                                         *)
(* One step is one critical section.  Everything done under the control    *)
(* data lock and the VM's mutex is atomic; what a handler does between two *)
(* critical sections touches only the hart token it owns, so it is part of *)
(* the step that follows or precedes it.  pc[h] says between which         *)
(* critical sections of which handler the hardware hart h is.  That the    *)
(* locks make the sections atomic is what MonitorLocks shows.              *)
(***************************************************************************)
EXTENDS ConfidentialHart, FiniteSets

CONSTANTS
    MaxRequests,    \* MAX_NUMBER_OF_REMOTE_HART_REQUESTS
    GuestTraps,     \* the traps confidential harts take, see AllGuestTraps
    IpiMayFail      \* whether OpenSBI may refuse to send an IPI

\* What decode makes of a7 and a6, as far as the router tells it apart: functions
\* with the same handler are one trap.  Those without one, the unknown functions of
\* an extension and the calls of the hypervisor, are Unrouted.
AceCalls == {"SharePage", "UnsharePage", "Unrouted"}
BaseCalls == {"Hypercall", "ProbeExtension", "Unrouted"}
IpiCalls == {"SendIpi", "Unrouted"}
RfenceCalls == {"RemoteFence", "RemoteFenceNop", "Unrouted"}
HsmCalls == {"HartStart", "HartStop", "HartStatus", "HartSuspend", "Unrouted"}
SrstCalls == {"SystemReset", "Unrouted"}

\* Every other extension is answered by invalid_call.
VsEcalls ==
    AceCalls \cup BaseCalls \cup IpiCalls \cup RfenceCalls \cup HsmCalls \cup SrstCalls
        \cup {"InvalidCall"}

\* Exceptions that a confidential hart handles itself: medeleg and hedeleg.
Delegated ==
    {"MisalignedFetch", "FetchAccess", "IllegalInstruction", "Breakpoint", "MisalignedLoad", "LoadAccess",
     "MisalignedStore", "StoreAccess", "UserEcall", "FetchPageFault", "LoadPageFault", "StorePageFault"}

\* Exceptions that code in VS or VU mode raises.
Exceptions ==
    Delegated \cup {"VirtualSupervisorEcall", "FetchGuestPageFault", "LoadGuestPageFault",
                    "VirtualInstruction", "StoreGuestPageFault"}

\* The handlers that route_confidential_flow has for an exception.  A page fault is
\* implicit when mtinst does not hold the instruction that caused it.
Routes(exception) ==
    CASE exception = "VirtualSupervisorEcall" -> VsEcalls
      [] exception = "LoadGuestPageFault"     -> {"LoadPageFault", "ImplicitPageFault"}
      [] exception = "StoreGuestPageFault"    -> {"StorePageFault", "ImplicitPageFault"}
      [] exception = "VirtualInstruction"     -> {"VirtualInstruction"}
      [] OTHER                                -> {"Unrouted"}

AllGuestTraps == {"Interrupt"} \cup UNION {Routes(e) : e \in Exceptions \ Delegated}

ASSUME ParametersAssumption ==
    /\ MaxRequests \in Nat
    /\ GuestTraps \subseteq AllGuestTraps
    /\ IpiMayFail \in BOOLEAN

VARIABLES
    confidential_vms,       \* ids of the VMs in the control data
    confidential_harts,     \* per VM: the slots holding hart tokens or dummies
    inter_hart_requests,    \* per VM and hart: the queue of requests
    hardware_hart,          \* per hardware hart: the token assigned to it
    pc,                     \* per hardware hart: what it executes
    removing,               \* per hardware hart: the VM that shutdown tries to remove
    hgatp,                  \* per hardware hart: the VM whose memory is accessible
    ipi                     \* per hardware hart: an IPI was sent to it

vars == <<confidential_vms, confidential_harts, inter_hart_requests, hardware_hart,
          pc, removing, hgatp, ipi>>

\* Positions in the code that hold a ConfidentialFlow, and those that do not.
ConfidentialFlow ==
    {"guest", "resume", "share_page_result", "interrupt", "preempted", "hart_started", "shutdown", "panic"}
NonConfidentialFlow == {"hypervisor", "remove"}

Queues == Seq(InterHartRequest)

Init ==
    /\ confidential_vms = {}
    /\ confidential_harts = [v \in VmIds |-> <<>>]
    /\ inter_hart_requests = [v \in VmIds |-> <<>>]
    /\ hardware_hart = [h \in HardwareHarts |-> dummy(h)]
    /\ pc = [h \in HardwareHarts |-> "hypervisor"]
    /\ removing = [h \in HardwareHarts |-> NoVm]
    /\ hgatp = [h \in HardwareHarts |-> NoVm]
    /\ ipi = [h \in HardwareHarts |-> FALSE]

GoTo(h, label) == pc' = [pc EXCEPT ![h] = label]

-----------------------------------------------------------------------------
(* ControlData                                                             *)

\* Faulty variant: the number of VMs as the next id.
unique_id_Count(v) == v \in VmIds /\ v = Cardinality(confidential_vms)

\* One more than the largest id in use; none when that overflows.
unique_id(v) ==
    /\ v \in VmIds
    /\ IF confidential_vms = {}
       THEN v = 0
       ELSE v - 1 \in confidential_vms /\ \A u \in confidential_vms : u < v

insert_confidential_vm(v, harts) ==
    /\ confidential_vms' = confidential_vms \cup {v}
    /\ confidential_harts' = [confidential_harts EXCEPT ![v] = harts]
    /\ inter_hart_requests' = [inter_hart_requests EXCEPT ![v] = [c \in DOMAIN harts |-> <<>>]]

\* Faulty variant: dummies of running harts are skipped.
are_all_harts_shutdown_SkipDummies(v) ==
    \A c \in DOMAIN confidential_harts[v] :
        \/ is_dummy(confidential_harts[v][c])
        \/ confidential_harts[v][c].lifecycle_state = "Shutdown"

are_all_harts_shutdown(v) ==
    \A c \in DOMAIN confidential_harts[v] : confidential_harts[v][c].lifecycle_state = "Shutdown"

\* On error the caller learns that the VM stays; on success the VM is dropped.
remove_confidential_vm(v) ==
    IF v \in confidential_vms /\ are_all_harts_shutdown(v)
    THEN /\ confidential_vms' = confidential_vms \ {v}
         /\ confidential_harts' = [confidential_harts EXCEPT ![v] = <<>>]
         /\ inter_hart_requests' = [inter_hart_requests EXCEPT ![v] = <<>>]
    ELSE UNCHANGED <<confidential_vms, confidential_harts, inter_hart_requests>>

-----------------------------------------------------------------------------
(* ConfidentialVm                                                          *)

\* Swaps the token with the dummy and switches to the VM's memory protection.
steal_confidential_hart(h, v, c) ==
    /\ c \in DOMAIN confidential_harts[v]
    /\ is_executable(confidential_harts[v][c])
    /\ hardware_hart' = [hardware_hart EXCEPT ![h] = confidential_harts[v][c]]
    /\ confidential_harts' = [confidential_harts EXCEPT ![v][c] = hardware_hart[h]]
    /\ hgatp' = [hgatp EXCEPT ![h] = v]

\* Faulty variant: the VM's memory protection stays in force.
return_confidential_hart_KeepHgatp(h, hart) ==
    LET v == hart.confidential_vm_id
        c == hart.confidential_hart_id
    IN /\ hardware_hart' = [hardware_hart EXCEPT ![h] = confidential_harts[v][c]]
       /\ confidential_harts' = [confidential_harts EXCEPT ![v][c] = hart]
       /\ UNCHANGED hgatp

\* Swaps the token, updated to hart by the handler, back into its slot.
return_confidential_hart(h, hart) ==
    LET v == hart.confidential_vm_id
        c == hart.confidential_hart_id
    IN /\ hardware_hart' = [hardware_hart EXCEPT ![h] = confidential_harts[v][c]]
       /\ confidential_harts' = [confidential_harts EXCEPT ![v][c] = hart]
       /\ hgatp' = [hgatp EXCEPT ![h] = NoVm]

\* Faulty variant: off by one at the limit of the queue.
HasRoom_OffByOne(v, c) ==
    is_dummy(confidential_harts[v][c]) => Len(inter_hart_requests[v][c]) <= MaxRequests

HasRoom(v, c) ==
    is_dummy(confidential_harts[v][c]) => Len(inter_hart_requests[v][c]) < MaxRequests

\* Faulty variant: requests are queued but no IPI is sent.
Deliver_Silently(v, request, reached, notified) ==
    /\ confidential_harts' = [confidential_harts EXCEPT ![v] =
          [c \in DOMAIN @ |-> IF c \in reached /\ ~ is_dummy(@[c])
                              THEN apply_inter_hart_request(request, @[c])
                              ELSE @[c]]]
    /\ inter_hart_requests' = [inter_hart_requests EXCEPT ![v] =
          [c \in DOMAIN @ |-> IF c \in reached /\ is_dummy(confidential_harts[v][c])
                              THEN Append(@[c], request)
                              ELSE @[c]]]
    /\ UNCHANGED ipi

\* Delivers the request to the harts in reached: at once to a hart that is in
\* its slot, through its queue to a hart that runs.  The hardware harts that
\* run the harts in notified get an IPI; the dummy in the slot names them.
Deliver(v, request, reached, notified) ==
    /\ confidential_harts' = [confidential_harts EXCEPT ![v] =
          [c \in DOMAIN @ |-> IF c \in reached /\ ~ is_dummy(@[c])
                              THEN apply_inter_hart_request(request, @[c])
                              ELSE @[c]]]
    /\ inter_hart_requests' = [inter_hart_requests EXCEPT ![v] =
          [c \in DOMAIN @ |-> IF c \in reached /\ is_dummy(confidential_harts[v][c])
                              THEN Append(@[c], request)
                              ELSE @[c]]]
    /\ ipi' = [h \in HardwareHarts |->
                 \/ ipi[h]
                 \/ \E c \in notified :
                      /\ is_dummy(confidential_harts[v][c])
                      /\ confidential_harts[v][c].confidential_hart_id = h]

\* Every selected hart gets the request.
broadcast_succeeds(v, request, selected) ==
    /\ \A c \in selected : HasRoom(v, c)
    /\ Deliver(v, request, selected, selected)

\* Harts are served in the order of their ids up to the first error: a queue
\* that is full, or an IPI that cannot be sent once the request is queued.
broadcast_fails(v, request, selected) ==
    \E failed \in selected :
        LET served == {c \in selected : c < failed} IN
        /\ \A c \in served : HasRoom(v, c)
        /\ is_dummy(confidential_harts[v][failed])
        /\ \/ /\ ~ HasRoom(v, failed)
              /\ Deliver(v, request, served, served)
           \/ /\ IpiMayFail /\ HasRoom(v, failed)
              /\ Deliver(v, request, served \cup {failed}, served)

-----------------------------------------------------------------------------
(* ConfidentialFlow: leaving a handler                                     *)

\* Leaves to the hypervisor, giving back the token.
into_non_confidential_flow(h, hart, label) ==
    /\ return_confidential_hart(h, hart)
    /\ GoTo(h, label)
    /\ UNCHANGED <<confidential_vms, inter_hart_requests, removing, ipi>>

\* Leaves to the confidential hart without touching the control data.
exit_to_confidential_hart(h, hart) ==
    /\ hardware_hart' = [hardware_hart EXCEPT ![h] = hart]
    /\ GoTo(h, "guest")
    /\ UNCHANGED <<confidential_vms, confidential_harts, inter_hart_requests, removing, hgatp, ipi>>

\* Leaves to the hypervisor with a request whose reply the hart awaits.  A hart
\* that awaits another reply gets an error instead.
request_from_hypervisor(h, hart, request) ==
    IF hart.pending_request = "None"
    THEN into_non_confidential_flow(h, set_pending_request(hart, request), "hypervisor")
    ELSE exit_to_confidential_hart(h, apply_result(hart))

\* The token of the hart assigned to h once its queue is applied to it.
Drained(h) ==
    LET hart == hardware_hart[h] IN
    apply_all(inter_hart_requests[hart.confidential_vm_id][hart.confidential_hart_id], hart)

\* Faulty variant: the queue is read but not emptied.
process_inter_hart_requests_Keep(h, hart) ==
    /\ hardware_hart' = [hardware_hart EXCEPT ![h] = hart]
    /\ UNCHANGED <<confidential_vms, confidential_harts, inter_hart_requests, removing, hgatp, ipi>>

\* Drains the queue of the hart assigned to h; hart is the hart's new token.
process_inter_hart_requests(h, hart) ==
    /\ hardware_hart' = [hardware_hart EXCEPT ![h] = hart]
    /\ inter_hart_requests' = [inter_hart_requests EXCEPT
          ![hart.confidential_vm_id][hart.confidential_hart_id] = <<>>]
    /\ UNCHANGED <<confidential_vms, confidential_harts, removing, hgatp, ipi>>

-----------------------------------------------------------------------------
(* ConfidentialFlow: handlers of traps taken by the hart that runs on h    *)

Trap(h, trap) == pc[h] = "guest" /\ trap \in GuestTraps

Trapped(h) == TrappedOnInstruction(hardware_hart[h])

\* interrupt.rs reads mip before it takes any lock.  The supervisor software
\* interrupt may be pending or not: an IPI needs OpenSBI to become visible, and
\* the hypervisor's harts interrupt each other with the same bit.
interrupt(h) ==
    /\ Trap(h, "Interrupt")
    /\ hardware_hart' = [hardware_hart EXCEPT ![h] = TrappedBetweenInstructions(@)]
    /\ \E ssip \in BOOLEAN : GoTo(h, IF ssip THEN "interrupt" ELSE "preempted")
    /\ UNCHANGED <<confidential_vms, confidential_harts, inter_hart_requests, removing, hgatp, ipi>>

\* With SSIP pending the queue is drained; a shutdown found in it is final.
interrupt_process(h) ==
    /\ pc[h] = "interrupt"
    /\ process_inter_hart_requests(h, Drained(h))
    /\ GoTo(h, IF Drained(h).lifecycle_state = "Shutdown" THEN "shutdown" ELSE "preempted")

\* An interrupt always ends at the hypervisor.
interrupt_exit(h) ==
    /\ pc[h] = "preempted"
    /\ into_non_confidential_flow(h, hardware_hart[h], "hypervisor")

\* A call that is answered without leaving the hart.
answer(h) == exit_to_confidential_hart(h, AnsweredAtOnce(hardware_hart[h]))

panic(h) ==
    /\ GoTo(h, "panic")
    /\ UNCHANGED <<confidential_vms, confidential_harts, inter_hart_requests, hardware_hart,
                   removing, hgatp, ipi>>

hypercall(h) ==
    Trap(h, "Hypercall") /\ request_from_hypervisor(h, Trapped(h), "SbiRequest")

\* A malformed request is answered with an error.
share_page(h) ==
    Trap(h, "SharePage") /\ (request_from_hypervisor(h, Trapped(h), "SharePage") \/ answer(h))

\* unmap_shared_page is unimplemented and panics.
unshare_page(h) == Trap(h, "UnsharePage") /\ (panic(h) \/ answer(h))

\* An MMIO access becomes a request to the hypervisor; a fault that cannot be
\* decoded goes to the hypervisor without one, and the access is retried.
page_fault(h, request) ==
    \/ request_from_hypervisor(h, Trapped(h), request)
    \/ into_non_confidential_flow(h, TrappedBetweenInstructions(hardware_hart[h]), "hypervisor")

guest_load_page_fault(h) == Trap(h, "LoadPageFault") /\ page_fault(h, "GuestLoadPageFault")

guest_store_page_fault(h) == Trap(h, "StorePageFault") /\ page_fault(h, "GuestStorePageFault")

\* Both requests assert that mtinst holds an instruction: a fault in the walk of the guest's
\* own page table, or a processor that leaves mtinst zero, panics.
implicit_page_fault(h) == Trap(h, "ImplicitPageFault") /\ panic(h)

sbi_probe_extension(h) == Trap(h, "ProbeExtension") /\ answer(h)

sbi_rfence_nop(h) == Trap(h, "RemoteFenceNop") /\ answer(h)

\* Reads the lifecycle state in the slot, or fails if there is no such hart.
sbi_hsm_hart_status(h) == Trap(h, "HartStatus") /\ answer(h)

invalid_call(h) == Trap(h, "InvalidCall") /\ answer(h)

\* Virtual instructions other than WFI panic.
virtual_instruction_request(h) == Trap(h, "VirtualInstruction") /\ (panic(h) \/ answer(h))

\* A trap that route_confidential_flow has no handler for.
unrouted_trap(h) == Trap(h, "Unrouted") /\ panic(h)

\* Both outcomes of the broadcast return a result to the caller.
sbi_ipi(h) ==
    LET v == hardware_hart[h].confidential_vm_id IN
    /\ \E request \in {"SbiIpi", "SbiRemoteFence"} :
         /\ Trap(h, IF request = "SbiIpi" THEN "SendIpi" ELSE "RemoteFence")
         /\ \E selected \in SUBSET DOMAIN confidential_harts[v] :
              \/ broadcast_succeeds(v, request, selected)
              \/ broadcast_fails(v, request, selected)
    /\ hardware_hart' = [hardware_hart EXCEPT ![h] = AnsweredAtOnce(@)]
    /\ UNCHANGED <<confidential_vms, pc, removing, hgatp>>

\* The target is moved to StartPending in one critical section ...
sbi_hsm_hart_start(h, target) ==
    LET v == hardware_hart[h].confidential_vm_id IN
    /\ Trap(h, "HartStart")
    /\ IF /\ target \in DOMAIN confidential_harts[v]
          /\ confidential_harts[v][target].lifecycle_state = "Stopped"
          /\ ~ is_dummy(confidential_harts[v][target])
       THEN /\ confidential_harts' = [confidential_harts EXCEPT ![v][target] =
                  transition_from_stopped_to_start_pending(@)]
            /\ hardware_hart' = [hardware_hart EXCEPT ![h] = TrappedOnInstruction(@)]
            /\ GoTo(h, "hart_started")
            /\ UNCHANGED <<confidential_vms, inter_hart_requests, removing, hgatp, ipi>>
       ELSE answer(h)

\* Faulty variant: no request is left pending for the reply.
sbi_hsm_hart_start_exit_NoRequest(h) ==
    /\ pc[h] = "hart_started"
    /\ into_non_confidential_flow(h, hardware_hart[h], "hypervisor")

\* ... and the caller returns to the hypervisor in another.
sbi_hsm_hart_start_exit(h) ==
    /\ pc[h] = "hart_started"
    /\ request_from_hypervisor(h, hardware_hart[h], "SbiHsmHartStart")

\* Faulty variant: a hart stops from any lifecycle state.
sbi_hsm_hart_stop_AnyState(h) ==
    /\ Trap(h, "HartStop")
    /\ into_non_confidential_flow(h, transition_from_started_to_stopped(Trapped(h)), "hypervisor")

sbi_hsm_hart_stop(h) ==
    /\ Trap(h, "HartStop")
    /\ IF hardware_hart[h].lifecycle_state = "Started"
       THEN into_non_confidential_flow(h, transition_from_started_to_stopped(Trapped(h)), "hypervisor")
       ELSE answer(h)

sbi_hsm_hart_suspend(h) ==
    /\ Trap(h, "HartSuspend")
    /\ IF hardware_hart[h].lifecycle_state = "Started"
       THEN into_non_confidential_flow(h, transition_from_started_to_suspended(Trapped(h)), "hypervisor")
       ELSE answer(h)

\* Faulty variant: the caller shuts down without telling the other harts.
sbi_srst_CallerOnly(h) ==
    /\ Trap(h, "SystemReset")
    /\ hardware_hart' = [hardware_hart EXCEPT ![h] = TrappedOnInstruction(@)]
    /\ GoTo(h, "shutdown")
    /\ UNCHANGED <<confidential_vms, confidential_harts, inter_hart_requests, removing, hgatp, ipi>>

\* All other harts are asked to shut down; then the caller does.
sbi_srst(h) ==
    LET v == hardware_hart[h].confidential_vm_id
        others == DOMAIN confidential_harts[v] \ {hardware_hart[h].confidential_hart_id}
    IN /\ Trap(h, "SystemReset")
       /\ \/ /\ broadcast_succeeds(v, "SbiSrstSystemReset", others)
             /\ hardware_hart' = [hardware_hart EXCEPT ![h] = TrappedOnInstruction(@)]
             /\ GoTo(h, "shutdown")
          \/ /\ broadcast_fails(v, "SbiSrstSystemReset", others)
             /\ hardware_hart' = [hardware_hart EXCEPT ![h] = AnsweredAtOnce(@)]
             /\ UNCHANGED pc
       /\ UNCHANGED <<confidential_vms, removing, hgatp>>

\* shutdown_confidential_hart.rs: the token is given back ...
shutdown_confidential_hart(h) ==
    /\ pc[h] = "shutdown"
    /\ return_confidential_hart(h, transition_to_shutdown(hardware_hart[h]))
    /\ removing' = [removing EXCEPT ![h] = hardware_hart[h].confidential_vm_id]
    /\ GoTo(h, "remove")
    /\ UNCHANGED <<confidential_vms, inter_hart_requests, ipi>>

\* ... and the VM is removed if this was its last hart.
shutdown_remove(h) ==
    /\ pc[h] = "remove"
    /\ remove_confidential_vm(removing[h])
    /\ removing' = [removing EXCEPT ![h] = NoVm]
    /\ GoTo(h, "hypervisor")
    /\ UNCHANGED <<hardware_hart, hgatp, ipi>>

\* resume_confidential_hart_execution: requests queued while the hart was away
\* are applied, then the reply of the hypervisor, then the guest runs.  The
\* reply to SharePage needs another critical section.
resume_confidential_hart_execution(h) ==
    /\ pc[h] = "resume"
    /\ IF Drained(h).pending_request = "SharePage"
       THEN /\ process_inter_hart_requests(h, set_pending_request(Drained(h), "None"))
            /\ GoTo(h, "share_page_result")
       ELSE /\ process_inter_hart_requests(h, apply_pending(Drained(h)))
            /\ GoTo(h, "guest")

\* The page is mapped, or an error is reported.
share_page_result(h) ==
    /\ pc[h] = "share_page_result"
    /\ exit_to_confidential_hart(h, apply_result(hardware_hart[h]))

-----------------------------------------------------------------------------
(* NonConfidentialFlow: calls of the hypervisor and of its VMs             *)

\* promote_to_confidential_vm.rs: the boot hart is started, the others are not.
promote_to_confidential_vm(h, v, n) ==
    /\ pc[h] = "hypervisor"
    /\ n < MaxHarts
    /\ unique_id(v)
    /\ insert_confidential_vm(v, [c \in 0 .. (n - 1) |->
          IF c = 0 THEN from_vm_hart(v, c) ELSE from_vm_hart_reset(v, c)])
    /\ UNCHANGED <<hardware_hart, pc, removing, hgatp, ipi>>

\* Any hart of any VM may be asked for; a refused request changes nothing.
resume_confidential_hart(h, v, c) ==
    /\ pc[h] = "hypervisor"
    /\ v \in confidential_vms
    /\ steal_confidential_hart(h, v, c)
    /\ GoTo(h, "resume")
    /\ UNCHANGED <<confidential_vms, inter_hart_requests, removing, ipi>>

terminate_confidential_vm(h, v) ==
    /\ pc[h] = "hypervisor"
    /\ remove_confidential_vm(v)
    /\ UNCHANGED <<hardware_hart, pc, removing, hgatp, ipi>>

\* The only call delegated to OpenSBI that matters here: the hypervisor takes
\* the software interrupt and clears it.
delegate_to_opensbi(h) ==
    /\ pc[h] = "hypervisor"
    /\ ipi[h]
    /\ ipi' = [ipi EXCEPT ![h] = FALSE]
    /\ UNCHANGED <<confidential_vms, confidential_harts, inter_hart_requests, hardware_hart,
                   pc, removing, hgatp>>

-----------------------------------------------------------------------------

\* A panic ends the behaviour.  The panicking hart clears the confidential
\* memory, where the control data live, and never returns; that the other harts
\* are not halted is left to a TODO, and what they do on cleared memory is not
\* modelled.
NoPanic == \A h \in HardwareHarts : pc[h] # "panic"

ConfidentialStep(h) ==
    \/ interrupt(h)
    \/ interrupt_process(h)
    \/ interrupt_exit(h)
    \/ hypercall(h)
    \/ share_page(h)
    \/ unshare_page(h)
    \/ guest_load_page_fault(h)
    \/ guest_store_page_fault(h)
    \/ implicit_page_fault(h)
    \/ sbi_probe_extension(h)
    \/ sbi_rfence_nop(h)
    \/ sbi_hsm_hart_status(h)
    \/ invalid_call(h)
    \/ virtual_instruction_request(h)
    \/ unrouted_trap(h)
    \/ sbi_ipi(h)
    \/ \E target \in HartIds : sbi_hsm_hart_start(h, target)
    \/ sbi_hsm_hart_start_exit(h)
    \/ sbi_hsm_hart_stop(h)
    \/ sbi_hsm_hart_suspend(h)
    \/ sbi_srst(h)
    \/ shutdown_confidential_hart(h)
    \/ shutdown_remove(h)
    \/ resume_confidential_hart_execution(h)
    \/ share_page_result(h)

HypervisorStep(h) ==
    \/ \E v \in VmIds, n \in 0 .. MaxHarts : promote_to_confidential_vm(h, v, n)
    \/ \E v \in VmIds, c \in HartIds : resume_confidential_hart(h, v, c)
    \/ \E v \in VmIds : terminate_confidential_vm(h, v)
    \/ delegate_to_opensbi(h)

Next ==
    /\ NoPanic
    /\ \E h \in HardwareHarts : ConfidentialStep(h) \/ HypervisorStep(h)

Spec == Init /\ [][Next]_vars

-----------------------------------------------------------------------------
(* Invariants                                                              *)

Assigned(h) == ~ is_dummy(hardware_hart[h])

ControlDataTypes ==
    /\ confidential_vms \subseteq VmIds
    /\ DOMAIN confidential_harts = VmIds
    /\ \A v \in VmIds :
         /\ confidential_harts[v] \in [DOMAIN confidential_harts[v] -> Hart]
         /\ DOMAIN confidential_harts[v] \subseteq HartIds
         /\ v \notin confidential_vms => DOMAIN confidential_harts[v] = {}

QueueTypes ==
    /\ DOMAIN inter_hart_requests = VmIds
    /\ \A v \in VmIds :
         /\ inter_hart_requests[v] \in [DOMAIN confidential_harts[v] -> Queues]
         /\ \A c \in DOMAIN confidential_harts[v] : Len(inter_hart_requests[v][c]) <= MaxRequests

HardwareHartTypes ==
    /\ hardware_hart \in [HardwareHarts -> Hart]
    /\ pc \in [HardwareHarts -> ConfidentialFlow \cup NonConfidentialFlow]
    /\ removing \in [HardwareHarts -> VmIds \cup {NoVm}]
    /\ hgatp \in [HardwareHarts -> VmIds \cup {NoVm}]
    /\ ipi \in [HardwareHarts -> BOOLEAN]

\* The state has the types of the Rust declarations, no queue exceeds
\* MAX_NUMBER_OF_REMOTE_HART_REQUESTS, and a VM that is not in the control data
\* has no harts.
TypeOK == ControlDataTypes /\ QueueTypes /\ HardwareHartTypes

AssignedTokensLeaveDummies ==
    \A h \in HardwareHarts : Assigned(h) =>
        LET v == hardware_hart[h].confidential_vm_id
            c == hardware_hart[h].confidential_hart_id
        IN /\ c \in DOMAIN confidential_harts[v]
           /\ confidential_harts[v][c] = dummy(h)

SlotsHoldTheirTokens ==
    \A v \in VmIds : \A c \in DOMAIN confidential_harts[v] :
        LET slot == confidential_harts[v][c] IN
        IF is_dummy(slot)
        THEN \E h \in HardwareHarts :
               /\ slot = dummy(h)
               /\ hardware_hart[h].confidential_vm_id = v
               /\ hardware_hart[h].confidential_hart_id = c
        ELSE slot.confidential_vm_id = v /\ slot.confidential_hart_id = c

\* A hart token is in exactly one place.  The token assigned to a hardware hart
\* left that hardware hart's dummy in its slot (steal_confidential_hart), every
\* dummy in a slot names the hardware hart that holds the token, and a token in
\* a slot is the one that belongs there.  No hart runs on two hardware harts,
\* no token is lost, and IPIs go to the hardware hart that runs the target.
HartTokensAreUnique == AssignedTokensLeaveDummies /\ SlotsHoldTheirTokens

\* What the asserts and unwraps of the two flows rely on.  In the confidential
\* flow a token is assigned, its VM is in the control data and only that VM's
\* memory is accessible; in the non-confidential flow the hardware hart holds
\* its own dummy under the hypervisor's memory protection.
FlowGuarantee ==
    \A h \in HardwareHarts :
        IF pc[h] \in ConfidentialFlow
        THEN /\ Assigned(h)
             /\ hardware_hart[h].confidential_vm_id \in confidential_vms
             /\ hardware_hart[h].confidential_hart_id
                   \in DOMAIN inter_hart_requests[hardware_hart[h].confidential_vm_id]
             /\ hgatp[h] = hardware_hart[h].confidential_vm_id
        ELSE /\ hardware_hart[h] = dummy(h)
             /\ hgatp[h] = NoVm

\* A hart that runs awaits no reply, so set_pending_request never fails, and
\* starting a stopped hart overwrites no request that still needs its reply.
RequestsDoNotOverlap ==
    /\ \A h \in HardwareHarts :
         pc[h] \in {"guest", "hart_started", "share_page_result"} =>
            hardware_hart[h].pending_request = "None"
    /\ \A v \in confidential_vms : \A c \in DOMAIN confidential_harts[v] :
         confidential_harts[v][c].lifecycle_state = "Stopped" =>
            confidential_harts[v][c].pending_request = "None"

\* The guest continues past the instruction that trapped after exactly one
\* result was applied to it.  The exception is HartSuspend, which leaves no
\* pending request: its ecall is executed again after the resume.
OneResultPerTrap ==
    \A h \in HardwareHarts : pc[h] = "guest" =>
        \/ hardware_hart[h].mepc_lag = 0
        \/ /\ hardware_hart[h].mepc_lag = 1
           /\ hardware_hart[h].lifecycle_state \in {"Suspended", "Shutdown"}

\* A request queued for a hart that runs was announced with an IPI to the very
\* hardware hart that runs it, and the IPI is still pending there.  A hart that
\* is being resumed needs none: it drains its queue first.
QueuedRequestsAreAnnounced ==
    \A h \in HardwareHarts : pc[h] \in ConfidentialFlow \ {"resume"} =>
        \/ ipi[h]
        \/ inter_hart_requests[hardware_hart[h].confidential_vm_id]
                              [hardware_hart[h].confidential_hart_id] = <<>>

-----------------------------------------------------------------------------
(* Action properties                                                       *)

\* The lifecycle of a hart wherever its token is.
Lifecycle(v, c) ==
    IF is_dummy(confidential_harts[v][c])
    THEN hardware_hart[confidential_harts[v][c].confidential_hart_id].lifecycle_state
    ELSE confidential_harts[v][c].lifecycle_state

\* A VM leaves the control data only when all of its harts are shut down and
\* none is assigned, also when the remover acts on an id it read earlier.
OnlyDeadVmsAreRemoved ==
    [][\A v \in confidential_vms \ confidential_vms' :
         /\ \A h \in HardwareHarts : hardware_hart[h].confidential_vm_id # v
         /\ \A c \in DOMAIN confidential_harts[v] : Lifecycle(v, c) = "Shutdown"]_vars

-----------------------------------------------------------------------------
(* Refinement                                                              *)

\* The lifecycle of every hart and the set of harts assigned, read off the
\* tokens wherever they are.
AbstractState ==
    [v \in VmIds |-> [c \in DOMAIN confidential_harts[v] |-> Lifecycle(v, c)]]

AbstractRunning ==
    {<<hardware_hart[h].confidential_vm_id, hardware_hart[h].confidential_hart_id>> :
        h \in {g \in HardwareHarts : Assigned(g)}}

Abstract == INSTANCE HartLifecycle WITH
    vms <- confidential_vms, state <- AbstractState, running <- AbstractRunning

\* Every critical section of the flows is one step of the hart lifecycle, or
\* none: a hart is scheduled on one hardware hart at a time, is started only by
\* a running hart of its VM, stops and suspends only itself, and a VM goes away
\* only when its harts have.
ImplementsHartLifecycle == Abstract!LifecycleSpec

-----------------------------------------------------------------------------
(* Liveness                                                                *)

\* The steps a hardware hart takes inside the security monitor.
MonitorStep(h) ==
    \/ interrupt_process(h)
    \/ interrupt_exit(h)
    \/ sbi_hsm_hart_start_exit(h)
    \/ shutdown_confidential_hart(h)
    \/ shutdown_remove(h)
    \/ resume_confidential_hart_execution(h)
    \/ share_page_result(h)

\* A hardware hart does not stop inside the monitor, and the hypervisor's timer
\* preempts a guest sooner or later.  The hypervisor schedules every hart that
\* stays schedulable; nothing makes it call terminate_confidential_vm.
FairSpec ==
    /\ Spec
    /\ \A h \in HardwareHarts : WF_vars(MonitorStep(h)) /\ WF_vars(interrupt(h))
    /\ \A v \in VmIds, c \in HartIds : SF_vars(\E h \in HardwareHarts : resume_confidential_hart(h, v, c))

\* The system reset that a hart of the VM called has been sent to all others: the
\* caller is about to shut down.  (A hart that shuts down at the request of another
\* one is in the state Shutdown by then.)
ResetWasSent(v) ==
    \E h \in HardwareHarts :
        /\ pc[h] = "shutdown"
        /\ hardware_hart[h].confidential_vm_id = v
        /\ hardware_hart[h].lifecycle_state # "Shutdown"

\* sbi_srst.rs sends its request "to all confidential harts": once it is sent, every hart of
\* the VM comes to rest in the state Shutdown, wherever it was and in whatever state,
\* unless it stopped itself before it saw the request.  Nothing is assumed about the
\* hypervisor but that it resumes the harts.
SystemResetReachesEveryHart ==
    \A v \in VmIds :
        ResetWasSent(v)
            ~> \/ v \notin confidential_vms
               \/ \A c \in DOMAIN confidential_harts[v] : Lifecycle(v, c) \in {"Shutdown", "Stopped"}

\* "The last confidential hart that shutdowns itself, will remove the entire confidential
\* VM from the control data" (sbi_srst.rs): once the system reset of a VM has reached
\* its other harts, the VM is removed.
SystemResetRemovesVm ==
    \A v \in VmIds : ResetWasSent(v) ~> v \notin confidential_vms

\* A request queued for a hart is processed, wherever the hart is when it is queued and
\* although its IPI may be taken by the hypervisor: the hart drains its queue at the
\* next interrupt or resume, unless it stops or shuts down before that.
QueuedRequestsAreProcessed ==
    \A v \in VmIds, c \in HartIds :
        (c \in DOMAIN inter_hart_requests[v] /\ inter_hart_requests[v][c] # <<>>)
            ~> \/ c \notin DOMAIN inter_hart_requests[v]
               \/ inter_hart_requests[v][c] = <<>>
               \/ Lifecycle(v, c) \in {"Stopped", "Shutdown"}
=============================================================================
