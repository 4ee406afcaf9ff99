-------------------------- MODULE ConfidentialHart --------------------------
(***************************************************************************)
(* The token of a confidential hart (virtual CPU) and its transformations: *)
(* core/control_data/confidential_hart.rs.                                 *)
(*                                                                         *)
(* A token is a record.  Of the architectural state only mepc matters to   *)
(* the control flow: mepc_lag is the number of instructions by which the   *)
(* saved mepc must still move before the guest may continue.  It is 1 from *)
(* the moment an instruction traps into the security monitor until its     *)
(* result is applied, and 0 otherwise.                                     *)
(***************************************************************************)
EXTENDS Integers, Sequences

CONSTANTS
    HardwareHarts,  \* physical harts of the processor
    MaxVmId,        \* largest value of a confidential VM id (usize::MAX)
    MaxHarts,       \* MAX_NUMBER_OF_HARTS_PER_VM, an exclusive bound
    NoVm            \* the None of Option<ConfidentialVmId>

VmIds == 0 .. MaxVmId
HartIds == 0 .. (MaxHarts - 1)

ASSUME ConstantsAssumption ==
    /\ MaxVmId \in Nat
    /\ MaxHarts \in Nat
    /\ NoVm \notin VmIds

HartLifecycleState == {"Started", "Stopped", "StartPending", "Suspended", "Shutdown"}

PendingRequest ==
    {"SharePage", "GuestLoadPageFault", "GuestStorePageFault",
     "SbiHsmHartStart", "SbiHsmHartStartPending", "SbiRequest"}

\* The three remote fences differ only in the fence that the target executes.
InterHartRequest == {"SbiIpi", "SbiRemoteFence", "SbiSrstSystemReset"}

Hart ==
    [confidential_vm_id   : VmIds \cup {NoVm},
     confidential_hart_id : HartIds \cup HardwareHarts,
     lifecycle_state      : HartLifecycleState,
     pending_request      : PendingRequest \cup {"None"},
     mepc_lag             : Int]

is_dummy(hart) == hart.confidential_vm_id = NoVm

is_executable(hart) ==
    /\ ~ is_dummy(hart)
    /\ hart.lifecycle_state \in {"Started", "StartPending", "Suspended"}

\* The dummy of a hardware hart carries the id of that hardware hart.
dummy(id) ==
    [confidential_vm_id   |-> NoVm,
     confidential_hart_id |-> id,
     lifecycle_state      |-> "Started",
     pending_request      |-> "None",
     mepc_lag             |-> 0]

\* The boot hart trapped on the promotion call, whose result it still awaits.
from_vm_hart(vm, id) ==
    [confidential_vm_id   |-> vm,
     confidential_hart_id |-> id,
     lifecycle_state      |-> "Started",
     pending_request      |-> "SbiRequest",
     mepc_lag             |-> 1]

from_vm_hart_reset(vm, id) ==
    [confidential_vm_id   |-> vm,
     confidential_hart_id |-> id,
     lifecycle_state      |-> "Stopped",
     pending_request      |-> "None",
     mepc_lag             |-> 0]

-----------------------------------------------------------------------------
(* Entering the security monitor.                                          *)

\* A synchronous trap saves the mepc of the instruction that trapped.
TrappedOnInstruction(hart) == [hart EXCEPT !.mepc_lag = 1]

\* An interrupt, or a fault whose instruction is retried, saves the mepc at
\* which the guest continues.
TrappedBetweenInstructions(hart) == [hart EXCEPT !.mepc_lag = 0]

set_pending_request(hart, request) == [hart EXCEPT !.pending_request = request]

-----------------------------------------------------------------------------
(* Lifecycle transitions.                                                  *)

in_state(hart, state) == [hart EXCEPT !.lifecycle_state = state]

\* The saved mepc becomes the start address, where the guest begins.
transition_from_stopped_to_start_pending(hart) ==
    set_pending_request(TrappedBetweenInstructions(in_state(hart, "StartPending")),
                        "SbiHsmHartStartPending")

transition_from_start_pending_to_started(hart) ==
    IF hart.lifecycle_state = "StartPending" THEN in_state(hart, "Started") ELSE hart

transition_from_started_to_suspended(hart) == in_state(hart, "Suspended")

transition_from_started_to_stopped(hart) == in_state(hart, "Stopped")

transition_to_shutdown(hart) == in_state(hart, "Shutdown")

-----------------------------------------------------------------------------
(* Transformations exposed to the confidential hart.                       *)

\* Every result written to the hart moves mepc past the trapped instruction.
apply_result(hart) == [hart EXCEPT !.mepc_lag = @ - 1]

\* A call that the security monitor answers without leaving the hart.
AnsweredAtOnce(hart) == apply_result(TrappedOnInstruction(hart))

\* SbiIpi and the fences touch interrupt bits and TLBs, not this record.
apply_inter_hart_request(request, hart) ==
    IF request = "SbiSrstSystemReset" THEN transition_to_shutdown(hart) ELSE hart

\* Draining a queue applies every request to the same hart.
apply_all(queue, hart) ==
    IF \E i \in DOMAIN queue : queue[i] = "SbiSrstSystemReset"
    THEN transition_to_shutdown(hart)
    ELSE hart

\* Faulty variant: the request is read but not taken.
apply_pending_NotTaken(hart) ==
    CASE hart.pending_request = "None" -> hart
      [] hart.pending_request = "SbiHsmHartStartPending" ->
            transition_from_start_pending_to_started(hart)
      [] OTHER -> apply_result(hart)

\* take_request and the transformation selected by the request taken.
apply_pending(hart) ==
    LET taken == set_pending_request(hart, "None") IN
    CASE hart.pending_request = "None" -> taken
      [] hart.pending_request = "SbiHsmHartStartPending" ->
            transition_from_start_pending_to_started(taken)
      [] OTHER -> apply_result(taken)
=============================================================================
