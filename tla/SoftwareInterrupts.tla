------------------------- MODULE SoftwareInterrupts -------------------------
(***************************************************************************)
(* How an IPI that one confidential hart sends becomes a software          *)
(* interrupt of another one.  The mask in the call selects the targets.    *)
(* For a target in its slot the monitor sets the VSSIP bit of the vsip     *)
(* copy in its memory dump at once; for a target that runs the request     *)
(* waits in a queue, which is drained into the same bit when the target is *)
(* resumed or interrupted.  The bit reaches the processor when the         *)
(* volatile registers are loaded.  The module follows VSSIP through the    *)
(* queues, the two memory copies (hvip, vsip) of every confidential hart   *)
(* and the hvip register of the hardware hart they share with each other   *)
(* and with the hypervisor.                                                *)
(***************************************************************************)
EXTENDS Integers

CONSTANTS
    Harts,      \* the ids of the confidential harts of a confidential VM
    Bits,       \* usize::BITS, the width of a hart mask
    Hypervisor  \* who runs when no confidential hart does

ASSUME WidthAssumption == Bits \in Nat \ {0} /\ Harts \subseteq 0 .. (2 ^ Bits - 1)
ASSUME HypervisorAssumption == Hypervisor \notin Harts

VARIABLES running,          \* whose registers the hardware hart holds
          pc,               \* where the hardware hart is: in the guest (or the hypervisor), or
                            \* between two critical sections of resume or of interrupt
          inter_hart_requests,  \* is an SbiIpi in the queue of the confidential hart?
          CSR_hvip,         \* hvip.VSSIP of the processor; vsip.SSIP is an alias of it
          hvip, vsip,       \* VSSIP in the copies in each HartArchitecturalState
          hypervisor_vsip,  \* VSSIP in the hypervisor's copy of vsip
          owed,             \* history: an IPI was sent to the hart, which has not taken it
          dropped           \* history: all that the hart is owed was in its queue when the handler of
                            \* an interrupt that saw SSIP drained it, with no interrupt pending

history == <<owed, dropped>>
vars == <<running, pc, inter_hart_requests, CSR_hvip, hvip, vsip, hypervisor_vsip, history>>

TypeOK == /\ running \in Harts \cup {Hypervisor}
          /\ pc \in {"guest", "resume", "preempted"}
          /\ inter_hart_requests \in [Harts -> BOOLEAN]
          /\ CSR_hvip \in BOOLEAN
          /\ hvip \in [Harts -> BOOLEAN]
          /\ vsip \in [Harts -> BOOLEAN]
          /\ hypervisor_vsip \in BOOLEAN
          /\ owed \in [Harts -> BOOLEAN]
          /\ dropped \in [Harts -> BOOLEAN]

Init == /\ running = Hypervisor
        /\ pc = "guest"
        /\ inter_hart_requests = [c \in Harts |-> FALSE]
        /\ CSR_hvip = FALSE
        /\ hvip = [c \in Harts |-> FALSE]
        /\ vsip = [c \in Harts |-> FALSE]
        /\ hypervisor_vsip = FALSE
        /\ owed = [c \in Harts |-> FALSE]
        /\ dropped = [c \in Harts |-> FALSE]

usize_MAX == 2 ^ Bits - 1

\* Faulty variant: the base that selects every hart is not recognised.
is_hart_selected_NoBroadcast(hart_id, hart_mask, hart_mask_base) ==
    /\ hart_id >= hart_mask_base /\ hart_id - hart_mask_base < Bits
    /\ (hart_mask \div 2 ^ (hart_id - hart_mask_base)) % 2 = 1

\* The largest base selects every hart; a hart below the base, or further above it
\* than the mask is wide, is not selected.
is_hart_selected(hart_id, hart_mask, hart_mask_base) ==
    \/ hart_mask_base = usize_MAX
    \/ /\ hart_id >= hart_mask_base /\ hart_id - hart_mask_base < Bits
       /\ (hart_mask \div 2 ^ (hart_id - hart_mask_base)) % 2 = 1

\* What SBI says of a mask: bit i stands for the hart base + i, the base -1 for all.
Addressed(hart_mask, hart_mask_base) ==
    IF hart_mask_base = usize_MAX
    THEN Harts
    ELSE {hart_mask_base + i : i \in {j \in 0 .. (Bits - 1) : (hart_mask \div 2 ^ j) % 2 = 1}} \cap Harts

\* A confidential hart (here or on another hardware hart) calls SBI send_ipi.  A target
\* that is assigned to the hardware hart gets the request queued, a target in its slot
\* gets it applied.
broadcast_inter_hart_request(hart_mask, hart_mask_base) ==
    LET selected == {c \in Harts : is_hart_selected(c, hart_mask, hart_mask_base)} IN
    /\ inter_hart_requests' = [c \in Harts |-> inter_hart_requests[c] \/ (c \in selected /\ running = c)]
    /\ vsip' = [c \in Harts |-> vsip[c] \/ (c \in selected /\ running # c)]
    /\ owed' = [c \in Harts |-> owed[c] \/ c \in Addressed(hart_mask, hart_mask_base)]
    /\ dropped' = [c \in Harts |-> dropped[c] /\ c \notin Addressed(hart_mask, hart_mask_base)]
    /\ UNCHANGED <<running, pc, CSR_hvip, hvip, hypervisor_vsip>>

\* The hypervisor prepares the interrupts it injects (or runs VMs of its own).
hypervisor_writes_hvip(injected) ==
    /\ running = Hypervisor
    /\ CSR_hvip' = injected
    /\ UNCHANGED <<running, pc, inter_hart_requests, hvip, vsip, hypervisor_vsip, history>>

\* process_inter_hart_requests, apply_sbi_ipi: the vsip copy after draining the queue.
Processed(c) == vsip[c] \/ inter_hart_requests[c]

\* Faulty variant: only the injected interrupts are loaded.
Loaded_HvipOnly(hvip_copy, vsip_copy) == hvip_copy

\* load_volatile_control_status_registers_from_main_memory.
Loaded(hvip_copy, vsip_copy) == hvip_copy \/ vsip_copy

\* resume_confidential_hart: the hypervisor's registers are stored and hvip is injected
\* in the critical section that steals the hart ...
steal_confidential_hart(c) ==
    /\ running = Hypervisor
    /\ running' = c /\ pc' = "resume"
    /\ hypervisor_vsip' = CSR_hvip
    /\ hvip' = [hvip EXCEPT ![c] = CSR_hvip]
    /\ UNCHANGED <<inter_hart_requests, CSR_hvip, vsip, history>>

\* ... the queue is drained in another, then the volatile registers are loaded.
resume_confidential_hart_execution(c) ==
    /\ running = c /\ pc = "resume"
    /\ pc' = "guest"
    /\ vsip' = [vsip EXCEPT ![c] = Processed(c)]
    /\ inter_hart_requests' = [inter_hart_requests EXCEPT ![c] = FALSE]
    /\ CSR_hvip' = Loaded(hvip[c], Processed(c))
    /\ UNCHANGED <<running, hvip, hypervisor_vsip, history>>

\* The running hart handles the software interrupt: it clears sip.SSIP.
take_software_interrupt(c) ==
    /\ running = c /\ pc = "guest" /\ CSR_hvip
    /\ CSR_hvip' = FALSE
    /\ owed' = [owed EXCEPT ![c] = inter_hart_requests[c]]
    /\ dropped' = [dropped EXCEPT ![c] = FALSE]
    /\ UNCHANGED <<running, pc, inter_hart_requests, hvip, vsip, hypervisor_vsip>>

\* The running hart raises sip.SSIP itself.
raise_software_interrupt(c) ==
    /\ running = c /\ pc = "guest"
    /\ CSR_hvip' = TRUE
    /\ UNCHANGED <<running, pc, inter_hart_requests, hvip, vsip, hypervisor_vsip, history>>

\* A call answered inside the monitor: only the volatile registers are loaded.
exit_to_confidential_hart(c) ==
    /\ running = c /\ pc = "guest"
    /\ CSR_hvip' = Loaded(hvip[c], vsip[c])
    /\ UNCHANGED <<running, pc, inter_hart_requests, hvip, vsip, hypervisor_vsip, history>>

\* return_confidential_hart: the processor's registers replace both copies, then the
\* hypervisor's vsip is loaded (hvip itself is not).
return_confidential_hart(c) ==
    /\ running' = Hypervisor /\ pc' = "guest"
    /\ hvip' = [hvip EXCEPT ![c] = CSR_hvip]
    /\ vsip' = [vsip EXCEPT ![c] = CSR_hvip]
    /\ CSR_hvip' = hypervisor_vsip
    /\ UNCHANGED hypervisor_vsip

\* An exit with a request for the hypervisor.
exit_to_hypervisor(c) ==
    /\ running = c /\ pc = "guest"
    /\ return_confidential_hart(c)
    /\ UNCHANGED <<inter_hart_requests, history>>

\* interrupt::handle: with mip.SSIP set the queue is drained first, which sets the bit in the
\* vsip copy ...  What it reads is any value: OpenSBI turns a physical IPI into SSIP (external).
interrupt(c, ssip) ==
    /\ running = c /\ pc = "guest"
    /\ pc' = "preempted"
    /\ vsip' = [vsip EXCEPT ![c] = IF ssip THEN Processed(c) ELSE @]
    /\ inter_hart_requests' = [inter_hart_requests EXCEPT ![c] = @ /\ ~ssip]
    /\ dropped' = [dropped EXCEPT ![c] = @ \/ (ssip /\ inter_hart_requests[c] /\ ~CSR_hvip)]
    /\ UNCHANGED <<running, CSR_hvip, hvip, hypervisor_vsip, owed>>

\* ... and return_confidential_hart then stores the register over it.
interrupt_exit(c) ==
    /\ running = c /\ pc = "preempted"
    /\ return_confidential_hart(c)
    /\ UNCHANGED <<inter_hart_requests, history>>

Next == \/ \E injected \in BOOLEAN : hypervisor_writes_hvip(injected)
        \/ \E hart_mask, hart_mask_base \in 0 .. usize_MAX :
              broadcast_inter_hart_request(hart_mask, hart_mask_base)
        \/ \E c \in Harts :
              \/ steal_confidential_hart(c) \/ resume_confidential_hart_execution(c)
              \/ take_software_interrupt(c) \/ raise_software_interrupt(c)
              \/ exit_to_confidential_hart(c) \/ exit_to_hypervisor(c)
              \/ \E ssip \in BOOLEAN : interrupt(c, ssip)
              \/ interrupt_exit(c)

\* The hypervisor keeps scheduling every confidential hart, its timer preempts the one
\* that runs (mie enables STIP), the monitor completes what it starts, and a hart that
\* runs with the interrupt pending again and again takes it.
FairSpec ==
    /\ Init /\ [][Next]_vars
    /\ \A c \in Harts :
          /\ SF_vars(steal_confidential_hart(c))
          /\ WF_vars(resume_confidential_hart_execution(c) \/ interrupt_exit(c))
          /\ WF_vars(\E ssip \in BOOLEAN : interrupt(c, ssip))
          /\ SF_vars(take_software_interrupt(c))

(***************************************************************************)
(* Properties.                                                             *)
(***************************************************************************)

\* An IPI to the hart is in its queue, pending in the processor while the hart runs, or
\* in the vsip copy that the next resume loads.
Pending(c) ==
    \/ inter_hart_requests[c]
    \/ running = c /\ pc # "resume" /\ CSR_hvip
    \/ (running # c \/ pc = "resume") /\ vsip[c]

\* "IPI exposes itself as supervisor-level software interrupt" (apply_sbi_ipi): it stays
\* pending until the hart that the mask addresses takes it.
IpiIsKept == \A c \in Harts : owed[c] => Pending(c)

\* Whatever the handler of the interrupts sees, an IPI stays pending until its target takes
\* it, on every path but one: interrupt::handle sees SSIP and drains the queue into
\* the vsip copy, which the exit then overwrites with the register.  An IPI that is
\* sent after that is kept again.
OnlySsipDropsIpis == \A c \in Harts : owed[c] => Pending(c) \/ dropped[c]

\* A confidential hart that the hypervisor keeps scheduling takes what is sent to it and
\* not dropped on that path: again and again it has no IPI outstanding, or it takes
\* interrupts for ever.
IpiIsTaken ==
    \A c \in Harts : []<>(~owed[c] \/ dropped[c]) \/ []<><<take_software_interrupt(c)>>_vars
=============================================================================
