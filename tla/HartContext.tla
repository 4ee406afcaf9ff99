---------------------------- MODULE HartContext ----------------------------
(***************************************************************************)
(* The context switches of one hardware hart: what the registers of the    *)
(* processor hold when the hypervisor runs, when a confidential hart runs, *)
(* and what is kept in the two memory dumps (HartArchitecturalState of the *)
(* hardware hart and of the confidential harts) in between.                *)
(*                                                                         *)
(* A register value is <<writer, version>>: who produced it and which of   *)
(* the writer's values it is, so that a stale copy of a value differs from *)
(* the value.  Registers that the code always treats alike are one class:  *)
(*   zero      x0, which has a slot in the dumps like the other registers  *)
(*   a0        a0, a1 (the result registers)                               *)
(*   a2        a2 .. a5 (the other argument registers)                     *)
(*   a7        a6, a7 (the numbers of the call)                            *)
(*   gpr       the other general purpose registers                         *)
(*   mepc      the program counter of the interrupted context              *)
(*   mstatus   its status                                                  *)
(*   mtvec     mtvec, medeleg, mideleg, mie, hedeleg, hideleg, hie         *)
(*   hcsr      stvec and the other S and HS registers; the writer of a     *)
(*             vectored stvec is the mode                                  *)
(*   hstatus   sstatus, hstatus;   scounteren (scounteren, htimedelta)     *)
(*   scause    scause, stval, htval;   sepc                                *)
(*   sscratch  address of the dump the trap entry uses                     *)
(*   vsatp     vsatp, vsstatus;   vscsr (vscause, vstimecmp);              *)
(*   vstval    vstval, vsepc;   vstvec;   vsscratch;   vsie                *)
(*   fcsr, fpr the floating point status; the floating point registers     *)
(* A program counter <<writer, version>> moved n bytes on is               *)
(* <<writer, version + n>>.                                                *)
(* hvip and vsip are in SoftwareInterrupts, hgatp in SecurityMonitor.      *)
(* A panic ends the behaviour.                                             *)
(***************************************************************************)
EXTENDS FaultedInstruction

CONSTANTS Harts,            \* the confidential harts of a VM, which take turns on this hardware hart
          Boot,             \* the hart of the VM that asks for the promotion
          MmioInstructions  \* loads and stores of memory-mapped I/O that they execute

ASSUME ContextAssumption == Boot \in Harts /\ MmioInstructions \subseteq Instructions

Hypervisor == "hypervisor"

Panicked == "panic"

Versions == 0..1

GPRs == {"zero", "a0", "a2", "a7", "gpr"}

\* The class of a register of the GeneralPurposeRegister enumeration.
Class(index) == CASE index = 0           -> "zero"
                  [] index \in {10, 11}  -> "a0"
                  [] index \in 12 .. 15  -> "a2"
                  [] index \in {16, 17}  -> "a7"
                  [] OTHER               -> "gpr"

Volatile == {"mepc", "mstatus"}

VsRegisters == {"vsatp", "vscsr", "vstval", "vstvec", "vsscratch", "vsie"}

CSRs == Volatile \cup VsRegisters
            \cup {"mtvec", "hcsr", "hstatus", "scounteren", "scause", "sepc", "sscratch", "fcsr"}

Registers == GPRs \cup CSRs \cup {"fpr"}

Zero == <<"zero", 0>>

\* A result, a cause or a status that the monitor itself puts into a register.
Monitor == <<"monitor", 0>>

Advanced(pc, length) == <<pc[1], pc[2] + length>>

ECALL_INSTRUCTION_LENGTH == 4

\* What a confidential hart waits for: the PendingRequest variants, told apart by
\* where the response goes.  A load names the register that receives the datum, an
\* MMIO access the length of its instruction.
None == [kind |-> "None"]

VARIABLES running,      \* who executes outside the monitor: Hypervisor, a confidential hart or, after a panic, nobody
          registers,    \* the processor's registers
          non_confidential_hart_state,  \* the hardware hart's memory dump
          confidential_hart_state,      \* each confidential hart's memory dump
          lifecycle_state,  \* of each confidential hart: "Absent" if its VM is, "Stopped", or "Executable"
          pending_request,
          executed,     \* the running context has computed since it got the processor
          left,         \* history: the registers each context had when it last left the processor
          waiting       \* history: the instruction each confidential hart left the processor at

vars == <<running, registers, non_confidential_hart_state, confidential_hart_state, lifecycle_state, pending_request, executed,
          left, waiting>>

empty == [r \in Registers |-> Zero]

\* What is left of the instruction at which a confidential hart trapped: the bytes to
\* skip, the registers that receive its result and those that hold the datum stored.
Again == [length |-> 0, result |-> {}, data |-> {}]
Ecall == [length |-> ECALL_INSTRUCTION_LENGTH, result |-> {"a0"}, data |-> {}]
Access(i) == [length |-> Length(i),
              result |-> IF IsStore(i) THEN {} ELSE {Class(i.register)},
              data |-> IF IsStore(i) THEN {Class(i.register)} ELSE {}]

Init == /\ running = Hypervisor
        /\ registers = [r \in Registers |-> IF r = "zero" THEN Zero ELSE <<Hypervisor, 0>>]
        /\ non_confidential_hart_state = empty
        /\ confidential_hart_state = [c \in Harts |-> empty]
        /\ lifecycle_state = [c \in Harts |-> "Absent"]
        /\ pending_request = [c \in Harts |-> None]
        /\ executed = FALSE
        /\ left = [d \in Harts \cup {Hypervisor} |-> empty]
        /\ waiting = [c \in Harts |-> Again]

\* to, with the registers of the set taken from from.
Copy(to, from, set) == [r \in Registers |-> IF r \in set THEN from[r] ELSE to[r]]

\* The context switch assembly: on a trap the general purpose registers go to the
\* memory dump of the context that trapped, on the way out they come from the dump
\* of the context that continues.  It leaves the slot of x0 alone.
SwitchedGprs == GPRs \ {"zero"}

enter_from_hypervisor_or_vm_asm(dump, live) == Copy(dump, live, SwitchedGprs)

enter_from_confidential_hart_asm(dump) == Copy(dump, registers, SwitchedGprs)

exit_to_hypervisor_asm(live, dump) == Copy(live, dump, SwitchedGprs)

exit_to_confidential_hart_asm(live, dump) == Copy(live, dump, SwitchedGprs)

\* The trap entry from the hypervisor: after the assembly the router saves the
\* volatile control and status registers.
EnteredFromHypervisor(dump, live) == Copy(enter_from_hypervisor_or_vm_asm(dump, live), live, Volatile)

\* The trap entry from a confidential hart.
EnteredFromHart(dump) == Copy(enter_from_confidential_hart_asm(dump), registers, Volatile)

store_control_status_registers(dump, live) == Copy(dump, live, CSRs)

\* Faulty variant: the trap and delegation configuration stays.
load_control_status_registers_NoMtvec(live, dump) == Copy(live, dump, CSRs \ {"mtvec"})

load_control_status_registers(live, dump) == Copy(live, dump, CSRs)

\* The way out to the hypervisor: volatile registers, then the assembly's registers.
LeaveToHypervisor(live, dump) == exit_to_hypervisor_asm(Copy(live, dump, Volatile), dump)

\* ConfidentialHart::load_volatile_control_status_registers_from_main_memory also
\* points sscratch at the dump.
LeaveToHart(live, dump) ==
    exit_to_confidential_hart_asm([Copy(live, dump, Volatile) EXCEPT !["sscratch"] = <<"address", 0>>], dump)

(***************************************************************************)
(* Execution outside the monitor.  A context computes once, replacing      *)
(* every register it can write, each time it has the processor: a trap of  *)
(* a context that wrote less is a trap with older values in some registers.*)
(***************************************************************************)

\* The hypervisor (or a VM of its own) computes: every register it can write takes
\* a new value; the M-mode configuration is out of its reach.  It takes its traps
\* directly or vectored.
hypervisor_executes(v, mode) ==
    /\ running = Hypervisor
    /\ ~executed /\ executed' = TRUE
    /\ registers' = [Copy([r \in Registers |-> <<Hypervisor, v>>], registers, {"mtvec", "zero"}) EXCEPT
                        !["hcsr"] = <<mode, v>>]
    /\ UNCHANGED <<running, non_confidential_hart_state, confidential_hart_state, lifecycle_state, pending_request, left, waiting>>

\* A confidential hart computes in VS or VU mode.
confidential_hart_executes(v) ==
    /\ running \in Harts
    /\ ~executed /\ executed' = TRUE
    /\ registers' = Copy(registers, [r \in Registers |-> <<running, v>>],
                         SwitchedGprs \cup Volatile \cup VsRegisters \cup {"fcsr", "fpr"})
    /\ UNCHANGED <<running, non_confidential_hart_state, confidential_hart_state, lifecycle_state, pending_request, left, waiting>>

(***************************************************************************)
(* HardwareHart::apply: what an exit to the hypervisor changes in the      *)
(* registers (live) and in the dump that are about to be given to it.  The *)
(* processor then continues with next.                                     *)
(***************************************************************************)

State(live, dump) == [live |-> live, dump |-> dump, next |-> Hypervisor]

apply_enabled_interrupts(live, hart) == [live EXCEPT !["vsie"] = hart["vsie"]]

\* The hypervisor finds itself in its trap handler: sepc takes the resume point, mepc
\* the hypervisor's trap vector.  A vectored one panics.
apply_trap(state) ==
    [live |-> [state.live EXCEPT !["sepc"] = state.dump["mepc"], !["hstatus"] = Monitor],
     dump |-> [state.dump EXCEPT !["mepc"] = state.live["hcsr"], !["mstatus"] = Monitor],
     next |-> IF state.live["hcsr"][1] = "vectored" THEN Panicked ELSE state.next]

apply_sbi_request(state, request) ==
    apply_trap([state EXCEPT !.live["scause"] = Monitor, !.dump = Copy(@, request, {"a0", "a2", "a7"})])

\* The registers of a request that the monitor makes up: kvm_ace_register,
\* kvm_srst_system_reset, kvm_hsm_hart_stop, kvm_hsm_hart_suspend; kvm_ace_page_in and
\* kvm_hsm_hart_start take their argument from the confidential hart.
MonitorRequest == [r \in Registers |-> Monitor]
MonitorRequestAbout(hart) == [MonitorRequest EXCEPT !["a0"] = hart["a0"]]

\* A VM's own call, passed on with the registers of the VM.
apply_sbi_vm_request(state) == apply_sbi_request(state, state.dump)

apply_sbi_result(state) ==
    [state EXCEPT !.dump["a0"] = Monitor, !.dump["mepc"] = Advanced(@, ECALL_INSTRUCTION_LENGTH)]

apply_opensbi_result(state, regs) == [state EXCEPT !.dump = Copy(@, regs, {"a0", "mepc", "mstatus"})]

\* The faulting hart's mcause, mtval and mtval2 reach scause, stval and htval; mtinst
\* is passed in vsscratch.
apply_mmio_load_request(state, hart, word) ==
    apply_trap([state EXCEPT !.live["scause"] = <<hart, 2>>, !.live["vsscratch"] = <<"instruction", word>>])

apply_mmio_store_request(state, hart, word, register, datum) ==
    apply_trap([state EXCEPT !.live["scause"] = <<hart, 2>>, !.live["vsscratch"] = <<"instruction", word>>,
                             !.dump[register] = datum])

apply_interrupt_request(state) == apply_trap([state EXCEPT !.live["scause"] = Monitor])

(***************************************************************************)
(* Non-confidential flow.                                                  *)
(***************************************************************************)

\* The hypervisor's calling convention: numbers and arguments of a call of the monitor
\* replace a6, a7 and two vs registers; the former a6 and a7 are kept in vsepc and vstval.
Called == [registers EXCEPT !["a7"] = <<"call", 0>>, !["vstval"] = registers["a7"],
                            !["vstvec"] = <<"call", 0>>, !["vsscratch"] = <<"call", 0>>]

\* The registers the hypervisor has after such a call if nothing is answered in them.
Uncalled == [Called EXCEPT !["a7"] = registers["a7"]]

restore_original_gprs(dump, live) == [dump EXCEPT !["a7"] = live["vstval"]]

\* The hypervisor's dump once a call of the monitor has been routed; trap_reason
\* restores a6 and a7.
Routed == restore_original_gprs(EnteredFromHypervisor(non_confidential_hart_state, Called), Called)

\* NonConfidentialFlow::exit_to_hypervisor after the transformation has been applied.
NonConfidentialExit(state) ==
    /\ running = Hypervisor
    /\ executed /\ executed' = FALSE
    /\ non_confidential_hart_state' = state.dump
    /\ registers' = LeaveToHypervisor(state.live, state.dump)
    /\ running' = state.next

\* The state that a trap of the hypervisor, or of a VM of its own, finds.
Trapped == State(registers, EnteredFromHypervisor(non_confidential_hart_state, registers))

\* A VM's call goes on to the hypervisor.
delegate_hypercall ==
    /\ NonConfidentialExit(apply_sbi_vm_request(Trapped))
    /\ left' = [left EXCEPT ![Hypervisor] = registers]
    /\ UNCHANGED <<confidential_hart_state, lifecycle_state, pending_request, waiting>>

\* What OpenSBI gets to see of the dump.
OpensbiRequest(dump) == Copy(empty, dump, SwitchedGprs \cup Volatile)

\* OpenSBI handles an interrupt, or a call that it answers in a0 and a1.
sbi_trap_handler(regs) ==
    {regs, [regs EXCEPT !["a0"] = Monitor, !["mepc"] = Advanced(@, ECALL_INSTRUCTION_LENGTH)]}

delegate_to_opensbi ==
    /\ \E regs \in sbi_trap_handler(OpensbiRequest(Trapped.dump)) : NonConfidentialExit(apply_opensbi_result(Trapped, regs))
    /\ left' = [left EXCEPT ![Hypervisor] = registers]
    /\ UNCHANGED <<confidential_hart_state, lifecycle_state, pending_request, waiting>>

\* The hypervisor's call to terminate a confidential VM, which answers in any case.
terminate_confidential_vm ==
    /\ NonConfidentialExit(apply_sbi_result(State(Called, Routed)))
    /\ left' = [left EXCEPT ![Hypervisor] = Uncalled]
    /\ UNCHANGED <<confidential_hart_state, lifecycle_state, pending_request, waiting>>

\* ConfidentialHart::new gives every confidential hart the monitor's configuration.
\* The other S and HS registers keep the values they had in the VM.
Configured(c, dump) == Copy(dump, [r \in Registers |-> <<c, 0>>], {"mtvec", "hstatus"})

\* HartArchitecturalState::from_existing: general purpose and floating point registers
\* from the dump of the calling VM's hart, the rest from the processor.
from_existing == Copy(Trapped.dump, registers, CSRs)

\* from_vm_hart and from_vm_hart_reset: the context of the VM's hart that asks becomes
\* the boot hart, the other harts begin with the state after a reset.
NewHart(c, dump) ==
    Configured(c, IF c = Boot THEN dump ELSE Copy(empty, dump, {"mstatus", "scounteren"}))

\* A VM's hart asks for promotion: the boot confidential hart waits for the result of
\* the registration request that the hypervisor now receives as a trap, the other harts
\* wait to be started.
promote_to_confidential_vm ==
    /\ \A c \in Harts : lifecycle_state[c] = "Absent"
    /\ NonConfidentialExit(apply_sbi_request(Trapped, MonitorRequest))
    /\ left' = [d \in DOMAIN left |-> IF d = Hypervisor THEN registers ELSE NewHart(d, registers)]
    /\ lifecycle_state' = [c \in Harts |-> IF c = Boot THEN "Executable" ELSE "Stopped"]
    /\ confidential_hart_state' = [c \in Harts |-> NewHart(c, from_existing)]
    /\ pending_request' = [pending_request EXCEPT ![Boot] = [kind |-> "SbiRequest"]]
    /\ waiting' = [waiting EXCEPT ![Boot] = Ecall]

\* A promotion that fails is answered to the VM.
promotion_fails ==
    /\ NonConfidentialExit(apply_sbi_result(Trapped))
    /\ left' = [left EXCEPT ![Hypervisor] = registers]
    /\ UNCHANGED <<confidential_hart_state, lifecycle_state, pending_request, waiting>>

\* A confidential hart that cannot be resumed: the hypervisor is told to stop it.
resume_is_refused ==
    /\ NonConfidentialExit(apply_sbi_request(State(Called, Routed), MonitorRequest))
    /\ left' = [left EXCEPT ![Hypervisor] = Uncalled]
    /\ UNCHANGED <<confidential_hart_state, lifecycle_state, pending_request, waiting>>

\* ConfidentialHart::apply_sbi_result with the result that source holds in a0 and a1.
AnsweredCall(dump, source) ==
    [dump EXCEPT !["a0"] = source["a0"], !["mepc"] = Advanced(@, ECALL_INSTRUCTION_LENGTH)]

\* The datum of an MMIO load is what the hypervisor left in the register of the load.
GuestLoadPageFaultResult(dump, request, hypervisor) ==
    [dump EXCEPT !["mepc"] = Advanced(@, request.instruction_length),
                 ![Class(request.gpr)] = hypervisor[Class(request.gpr)]]

\* The response to a pending request, applied to the confidential hart's dump: what the
\* hypervisor left in its registers, or the monitor's own result.  Sharing a page
\* answers the hypervisor's error if it reports one; a hart that was started has no
\* call to be answered.
Answered(dump, request, hypervisor) ==
    CASE request.kind \in {"None", "SbiHsmHartStartPending"} -> {dump}
      [] request.kind = "SbiRequest"      -> {AnsweredCall(dump, hypervisor)}
      [] request.kind = "SharePage"       -> {AnsweredCall(dump, hypervisor), AnsweredCall(dump, MonitorRequest)}
      [] request.kind = "SbiHsmHartStart" -> {AnsweredCall(dump, MonitorRequest)}
      [] request.kind = "GuestStorePageFault" ->
            {[dump EXCEPT !["mepc"] = Advanced(@, request.instruction_length)]}
      [] request.kind = "GuestLoadPageFault" -> {GuestLoadPageFaultResult(dump, request, hypervisor)}

\* resume_confidential_hart: steal_confidential_hart stores the hypervisor's control
\* and status registers and loads the confidential hart's; the pending request is
\* answered in the dump; the volatile registers and the dump are loaded last.
resume_confidential_hart(c) ==
    /\ running = Hypervisor
    /\ executed /\ executed' = FALSE
    /\ lifecycle_state[c] = "Executable"
    /\ non_confidential_hart_state' = store_control_status_registers(Routed, Called)
    /\ \E dump \in Answered(confidential_hart_state[c], pending_request[c], non_confidential_hart_state') :
          /\ confidential_hart_state' = [confidential_hart_state EXCEPT ![c] = dump]
          /\ registers' = LeaveToHart(load_control_status_registers(Called, confidential_hart_state[c]), dump)
    /\ running' = c
    /\ pending_request' = [pending_request EXCEPT ![c] = None]
    /\ left' = [left EXCEPT ![Hypervisor] = Uncalled]
    /\ UNCHANGED <<lifecycle_state, waiting>>

(***************************************************************************)
(* Confidential flow.                                                      *)
(***************************************************************************)

\* The hart's dump after the trap entry.
Entered == EnteredFromHart(confidential_hart_state[running])

\* A call that the monitor answers, or a virtual instruction (wfi) that it skips, without
\* leaving the confidential flow.
exit_to_confidential_hart(dump) ==
    /\ running \in Harts
    /\ executed /\ executed' = FALSE
    /\ confidential_hart_state' = [confidential_hart_state EXCEPT ![running] = dump]
    /\ registers' = LeaveToHart(registers, dump)
    /\ left' = [left EXCEPT ![running] = registers]
    /\ UNCHANGED <<running, non_confidential_hart_state, lifecycle_state, pending_request>>

answer_in_monitor ==
    /\ exit_to_confidential_hart(AnsweredCall(Entered, MonitorRequest))
    /\ waiting' = [waiting EXCEPT ![running] = Ecall]

wfi_length == 4

virtual_instruction_request ==
    /\ exit_to_confidential_hart([Entered EXCEPT !["mepc"] = Advanced(@, wfi_length)])
    /\ waiting' = [waiting EXCEPT ![running] = [Again EXCEPT !.length = wfi_length]]

\* return_confidential_hart stores the confidential hart's control and status registers
\* and loads the hypervisor's.
Stored == store_control_status_registers(Entered, registers)

Returned ==
    State(apply_enabled_interrupts(load_control_status_registers(registers, non_confidential_hart_state), Stored),
          non_confidential_hart_state)

\* into_non_confidential_flow followed by exit_to_hypervisor.
exit_to_hypervisor(state) ==
    /\ running \in Harts
    /\ executed /\ executed' = FALSE
    /\ non_confidential_hart_state' = state.dump
    /\ registers' = LeaveToHypervisor(state.live, state.dump)
    /\ running' = state.next

\* The confidential hart goes back to its VM; instruction is what it stopped at.
return_confidential_hart(request, instruction) ==
    /\ confidential_hart_state' = [confidential_hart_state EXCEPT ![running] = Stored]
    /\ pending_request' = [pending_request EXCEPT ![running] = request]
    /\ left' = [left EXCEPT ![running] = registers]
    /\ waiting' = [waiting EXCEPT ![running] = instruction]

hypercall ==
    /\ exit_to_hypervisor(apply_sbi_request(Returned, Stored))
    /\ return_confidential_hart([kind |-> "SbiRequest"], Ecall)
    /\ UNCHANGED lifecycle_state

share_page ==
    /\ exit_to_hypervisor(apply_sbi_request(Returned, MonitorRequestAbout(Stored)))
    /\ return_confidential_hart([kind |-> "SharePage"], Ecall)
    /\ UNCHANGED lifecycle_state

\* transition_from_stopped_to_start_pending: the hart begins without translation and
\* interrupts at the address in the caller's a1, with its own id in a0 and the caller's
\* a2 in a1.  All else is as the hart left it, but for the bit SIE of vsstatus, which is
\* cleared and is not told apart from its class vscsr.
StartPending(dump, caller) ==
    [dump EXCEPT !["vsatp"] = Monitor, !["mstatus"] = Monitor, !["mepc"] = caller["a0"], !["a0"] = caller["a2"]]

sbi_hsm_hart_start(c) ==
    /\ lifecycle_state[c] = "Stopped"
    /\ exit_to_hypervisor(apply_sbi_request(Returned, MonitorRequestAbout(Stored)))
    /\ confidential_hart_state' = [confidential_hart_state EXCEPT ![running] = Stored, ![c] = StartPending(@, Stored)]
    /\ pending_request' = [pending_request EXCEPT ![running] = [kind |-> "SbiHsmHartStart"],
                                                 ![c] = [kind |-> "SbiHsmHartStartPending"]]
    /\ left' = [left EXCEPT ![running] = registers, ![c] = StartPending(@, registers)]
    /\ waiting' = [waiting EXCEPT ![running] = Ecall, ![c] = Again]
    /\ lifecycle_state' = [lifecycle_state EXCEPT ![c] = "Executable"]

sbi_hsm_hart_stop ==
    /\ exit_to_hypervisor(apply_sbi_request(Returned, MonitorRequest))
    /\ return_confidential_hart(None, Again)
    /\ lifecycle_state' = [lifecycle_state EXCEPT ![running] = "Stopped"]

\* A system reset: the other harts are not on a processor, so they are shut down at once
\* and the VM is removed with the hart that called.
shutdown_confidential_hart ==
    /\ exit_to_hypervisor(apply_sbi_request(Returned, MonitorRequest))
    /\ confidential_hart_state' = [c \in Harts |-> empty]
    /\ pending_request' = [c \in Harts |-> None]
    /\ left' = [d \in DOMAIN left |-> IF d = Hypervisor THEN left[d] ELSE empty]
    /\ waiting' = [c \in Harts |-> Again]
    /\ lifecycle_state' = [c \in Harts |-> "Absent"]

\* Faulty variant: the call is forwarded as it is.
sbi_hsm_hart_suspend_Forwarded ==
    /\ exit_to_hypervisor(apply_sbi_request(Returned, Stored))
    /\ return_confidential_hart(None, Again)
    /\ UNCHANGED lifecycle_state

\* A suspended hart waits for nothing and executes its call again when it is resumed.
sbi_hsm_hart_suspend ==
    /\ exit_to_hypervisor(apply_sbi_request(Returned, MonitorRequest))
    /\ return_confidential_hart(None, Again)
    /\ UNCHANGED lifecycle_state

\* A timer interrupt is injected; for any other the hypervisor's call returns.
interrupt ==
    /\ \/ exit_to_hypervisor(apply_interrupt_request(Returned))
       \/ exit_to_hypervisor(apply_sbi_result(Returned))
    /\ return_confidential_hart(None, Again)
    /\ UNCHANGED lifecycle_state

\* An instruction that cannot be decoded is reported to the hypervisor as a failed call,
\* and executed again when the hart is resumed.
guest_page_fault_fails(word) ==
    /\ has_instruction(word) /\ guest_page_fault_request(word).gpr = NoRegister
    /\ exit_to_hypervisor(apply_sbi_result(Returned))
    /\ return_confidential_hart(None, Again)
    /\ UNCHANGED lifecycle_state

\* Both requests assert that mtinst holds an instruction.
guest_page_fault_panics(word) ==
    /\ ~has_instruction(word)
    /\ running \in Harts /\ executed
    /\ running' = Panicked
    /\ UNCHANGED <<registers, non_confidential_hart_state, confidential_hart_state, lifecycle_state, pending_request,
                   executed, left, waiting>>

\* An access to memory-mapped I/O.
guest_load_page_fault(i) ==
    LET word == mtinst(i)
        request == guest_page_fault_request(word)
    IN /\ ~IsStore(i)
       /\ has_instruction(word) /\ request.gpr # NoRegister
       /\ exit_to_hypervisor(apply_mmio_load_request(Returned, running, word))
       /\ return_confidential_hart([kind |-> "GuestLoadPageFault", gpr |-> request.gpr,
                                    instruction_length |-> request.instruction_length], Access(i))
       /\ UNCHANGED lifecycle_state

guest_store_page_fault(i) ==
    LET word == mtinst(i)
        request == guest_page_fault_request(word)
    IN /\ IsStore(i)
       /\ has_instruction(word) /\ request.gpr # NoRegister
       /\ exit_to_hypervisor(apply_mmio_store_request(Returned, running, word, Class(request.gpr),
                                                      Stored[Class(request.gpr)]))
       /\ return_confidential_hart([kind |-> "GuestStorePageFault", instruction_length |-> request.instruction_length],
                                   Access(i))
       /\ UNCHANGED lifecycle_state

Next == \/ \E v \in Versions, mode \in {Hypervisor, "vectored"} : hypervisor_executes(v, mode)
        \/ \E v \in Versions : confidential_hart_executes(v)
        \/ promote_to_confidential_vm \/ promotion_fails
        \/ \E c \in Harts : resume_confidential_hart(c) \/ sbi_hsm_hart_start(c)
        \/ resume_is_refused \/ terminate_confidential_vm
        \/ delegate_hypercall \/ delegate_to_opensbi
        \/ answer_in_monitor \/ virtual_instruction_request
        \/ hypercall \/ share_page \/ sbi_hsm_hart_stop \/ sbi_hsm_hart_suspend
        \/ shutdown_confidential_hart \/ interrupt
        \/ \E i \in MmioInstructions : guest_load_page_fault(i) \/ guest_store_page_fault(i)
        \/ \E word \in {mtinst(i) : i \in MmioInstructions} \cup OtherWords :
              guest_page_fault_fails(word) \/ guest_page_fault_panics(word)

Spec == Init /\ [][Next]_vars

(***************************************************************************)
(* Properties.                                                             *)
(***************************************************************************)

\* The registers in which the hypervisor may find the confidential hart's own values
\* after an exit with the given request pending; data are the registers that the
\* hart's instruction stores.
Declassified(request, data) ==
    CASE request.kind = "SbiRequest"                      -> {"vsie", "a0", "a2", "a7"}
      [] request.kind \in {"SharePage", "SbiHsmHartStart"} -> {"vsie", "a0"}
      [] request.kind = "GuestStorePageFault"             -> {"vsie"} \cup data
      [] OTHER                                            -> {"vsie"}

\* The fault and the instruction, which an MMIO request describes to the hypervisor.
DescribesFault(r, value) ==
    \/ r = "scause" /\ value = <<running, 2>>
    \/ r = "vsscratch" /\ \E i \in MmioInstructions : value = <<"instruction", mtinst(i)>>

\* The registers that a context switch does not touch: neither the assembly nor
\* store_control_status_registers_in_main_memory and its counterpart move them.
NotSwitched == {"fpr"}

\* Every exit to the hypervisor (return_confidential_hart, then HardwareHart::apply),
\* whether its call ran a confidential hart or was answered in the monitor, gives back
\* the registers it had at the call, up to the results and causes the monitor writes.
\* The resume point is never lost: either mepc passes the call or sepc keeps it and the
\* hypervisor enters its trap handler.  A confidential hart's values appear only in the
\* registers that its request declassifies: the arguments of a call, the datum of an
\* MMIO store, the fault and the instruction of an MMIO access.  This does not hold of
\* the floating point registers, which are not switched (FloatingPointFollowsContext).
HypervisorSeesOnlyDeclassified ==
    [][(executed /\ ~executed' /\ running' = Hypervisor) =>
          LET before == left'[Hypervisor]
          IN /\ \/ registers'["mepc"] = before["hcsr"] /\ registers'["sepc"] = before["mepc"]
                \/ /\ registers'["mepc"] \in {before["mepc"], Advanced(before["mepc"], ECALL_INSTRUCTION_LENGTH)}
                   /\ registers'["sepc"] = before["sepc"]
             /\ \A r \in Registers \ (NotSwitched \cup {"mepc", "sepc"}) :
                   \/ registers'[r] = before[r]
                   \/ r \in {"a0", "a2", "a7", "scause", "mstatus", "hstatus"} /\ registers'[r] = Monitor
                   \/ /\ running \in Harts
                      /\ \/ /\ r \in Declassified(pending_request'[running], waiting'[running].data)
                            /\ registers'[r] = registers[r]
                         \/ /\ pending_request'[running].kind \in {"GuestLoadPageFault", "GuestStorePageFault"}
                            /\ DescribesFault(r, registers'[r])]_vars

\* A confidential hart continues, after a stay outside the processor
\* (steal_confidential_hart, then the pending request's handler) or a call answered in
\* the monitor, with the switched registers it had when it trapped, whatever ran in
\* between; the floating point registers are not among them.  Only the registers its
\* instruction is to write differ, and hold what the hypervisor had in the same registers
\* before it made the call or the monitor's own result.  The program counter has passed
\* the instruction by its true length, or stays when the instruction is to be executed
\* again.  A hart that stopped and was started again finds what it left but for the
\* registers that the start sets.  The slot of x0 is never written.
ConfidentialContextIsRestored ==
    [][(executed /\ ~executed' /\ running' \in Harts) =>
          LET before == left'[running']
              instruction == waiting'[running']
          IN /\ \A r \in Registers \ (NotSwitched \cup {"sscratch", "mepc"} \cup instruction.result) :
                    registers'[r] = before[r]
             /\ \A r \in instruction.result \ {"zero"} :
                    registers'[r] = Monitor \/ (running = Hypervisor /\ registers'[r] = registers[r])
             /\ registers'["mepc"] = Advanced(before["mepc"], instruction.length)
             /\ confidential_hart_state'[running']["zero"] = Zero]_vars

\* The trap and delegation configuration in force is the one of the context that runs:
\* a confidential hart never runs with the hypervisor's trap vector or delegation, nor
\* the hypervisor with a confidential hart's, and a trap from a confidential hart
\* always finds the address of its dump in sscratch.
ConfigurationFollowsContext ==
    running # Panicked =>
       /\ registers["mtvec"] = <<running, 0>>
       /\ running \in Harts => registers["sscratch"] = <<"address", 0>> /\ registers["hstatus"] = <<running, 0>>

\* "Restores the remaining confidential's hart state and eventually resumes the
\* confidential VM execution" (exit_to_confidential_hart.S), and the same of the
\* hypervisor's (exit_to_hypervisor.S), said of the floating point registers, which
\* HartArchitecturalState declares: whoever continues has those it left with.
FloatingPointFollowsContext ==
    [][(executed /\ ~executed' /\ running' # Panicked) => registers'["fpr"] = left'[running']["fpr"]]_vars
=============================================================================
