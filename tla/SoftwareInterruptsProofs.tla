----------------------- MODULE SoftwareInterruptsProofs -----------------------
(***************************************************************************)
(* No IPI is lost but by an interrupt handler that sees mip.SSIP, for any  *)
(* number of confidential harts and any width of the hart mask.            *)
(* OnlySsipDropsIpis is not inductive: a call answered inside the monitor  *)
(* reloads hvip from the memory copies, so an interrupt pending in the     *)
(* processor must also be in one of them.                                  *)
(***************************************************************************)
EXTENDS SoftwareInterrupts, TLAPS

\* While a hart runs, what it is owed and is not queued is in a copy in memory.
CopiesFollow ==
    \A c \in Harts : owed[c] /\ ~dropped[c] /\ ~ inter_hart_requests[c] /\ running = c => hvip[c] \/ vsip[c]

Inv == TypeOK /\ OnlySsipDropsIpis /\ CopiesFollow

\* Every hart that SBI says a mask addresses is selected by is_hart_selected.
LEMMA AddressedAreSelected ==
    ASSUME NEW hart_mask \in 0 .. usize_MAX, NEW hart_mask_base \in 0 .. usize_MAX,
           NEW c \in Addressed(hart_mask, hart_mask_base)
    PROVE  c \in Harts /\ is_hart_selected(c, hart_mask, hart_mask_base)
<1>1. CASE hart_mask_base = usize_MAX
  BY <1>1, Zenon DEF Addressed, is_hart_selected
<1>2. CASE hart_mask_base # usize_MAX
  <2>1. PICK i \in 0 .. (Bits - 1) :
            c = hart_mask_base + i /\ (hart_mask \div 2 ^ i) % 2 = 1
    BY <1>2, Zenon DEF Addressed
  <2>2. hart_mask_base \in Int /\ i \in Int /\ Bits \in Int
    BY WidthAssumption
  <2>3. c - hart_mask_base = i /\ c >= hart_mask_base /\ i < Bits
    BY <2>1, <2>2
  <2>4. (hart_mask \div 2 ^ (c - hart_mask_base)) % 2 = 1
    BY <2>1, <2>3, Zenon
  <2>5. c \in Harts
    BY <1>2, Zenon DEF Addressed
  <2> QED BY <2>3, <2>4, <2>5, Zenon DEF is_hart_selected
<1> QED BY <1>1, <1>2, Zenon

\* Nothing is owed before the first IPI is sent.
LEMMA InitInv == Init => Inv
BY HypervisorAssumption, Zenon DEF Init, Inv, TypeOK, OnlySsipDropsIpis, Pending, CopiesFollow

\* The steps of the monitor, the harts and the hypervisor preserve the invariant.
LEMMA NextInv ==
    ASSUME Inv, [Next]_vars
    PROVE  Inv'
<1> USE HypervisorAssumption DEF Inv
<1>1. CASE UNCHANGED vars
  BY <1>1, Zenon DEF TypeOK, OnlySsipDropsIpis, Pending, CopiesFollow, vars, history
<1>2. ASSUME NEW injected \in BOOLEAN, hypervisor_writes_hvip(injected) PROVE Inv'
  BY <1>2, Zenon DEF hypervisor_writes_hvip, history, TypeOK, OnlySsipDropsIpis, Pending, CopiesFollow
<1>3. ASSUME NEW hart_mask \in 0 .. usize_MAX, NEW hart_mask_base \in 0 .. usize_MAX,
             broadcast_inter_hart_request(hart_mask, hart_mask_base)
      PROVE  Inv'
  <2> DEFINE selected == {c \in Harts : is_hart_selected(c, hart_mask, hart_mask_base)}
             addressed == Addressed(hart_mask, hart_mask_base)
  <2>1. addressed \subseteq selected
    BY AddressedAreSelected, Zenon
  <2> HIDE DEF selected, addressed
  <2>2. /\ inter_hart_requests' = [c \in Harts |-> inter_hart_requests[c] \/ (c \in selected /\ running = c)]
        /\ vsip' = [c \in Harts |-> vsip[c] \/ (c \in selected /\ running # c)]
        /\ owed' = [c \in Harts |-> owed[c] \/ c \in addressed]
        /\ dropped' = [c \in Harts |-> dropped[c] /\ c \notin addressed]
        /\ UNCHANGED <<running, pc, CSR_hvip, hvip, hypervisor_vsip>>
    BY <1>3, Zenon DEF broadcast_inter_hart_request, selected, addressed
  <2>3. TypeOK'
    BY <2>2, Zenon DEF TypeOK
  <2>4. ASSUME NEW c \in Harts
        PROVE  /\ owed'[c] <=> owed[c] \/ c \in addressed
               /\ dropped'[c] <=> dropped[c] /\ c \notin addressed
               /\ inter_hart_requests'[c] <=> inter_hart_requests[c] \/ (c \in selected /\ running = c)
               /\ vsip'[c] <=> vsip[c] \/ (c \in selected /\ running # c)
    BY <2>2, Zenon
  <2>5. OnlySsipDropsIpis'
    BY <2>1, <2>2, <2>4, Zenon DEF OnlySsipDropsIpis, Pending
  <2>6. CopiesFollow'
    BY <2>1, <2>2, <2>4, Zenon DEF CopiesFollow
  <2> QED BY <2>3, <2>5, <2>6, Zenon
<1>4. ASSUME NEW c \in Harts, steal_confidential_hart(c) PROVE Inv'
  BY <1>4, Zenon DEF steal_confidential_hart, history, TypeOK, OnlySsipDropsIpis, Pending, CopiesFollow
<1>5. ASSUME NEW c \in Harts, resume_confidential_hart_execution(c) PROVE Inv'
  BY <1>5, Zenon DEF resume_confidential_hart_execution, history, Processed, Loaded, TypeOK, OnlySsipDropsIpis, Pending, CopiesFollow
<1>6. ASSUME NEW c \in Harts, take_software_interrupt(c) PROVE Inv'
  BY <1>6, Zenon DEF take_software_interrupt, TypeOK, OnlySsipDropsIpis, Pending, CopiesFollow
<1>7. ASSUME NEW c \in Harts, raise_software_interrupt(c) PROVE Inv'
  BY <1>7, Zenon DEF raise_software_interrupt, history, TypeOK, OnlySsipDropsIpis, Pending, CopiesFollow
<1>8. ASSUME NEW c \in Harts, exit_to_confidential_hart(c) PROVE Inv'
  BY <1>8, Zenon DEF exit_to_confidential_hart, history, Loaded, TypeOK, OnlySsipDropsIpis, Pending, CopiesFollow
<1>9. ASSUME NEW c \in Harts, exit_to_hypervisor(c) PROVE Inv'
  BY <1>9, Zenon DEF exit_to_hypervisor, history, return_confidential_hart, TypeOK, OnlySsipDropsIpis, Pending, CopiesFollow
<1>10. ASSUME NEW c \in Harts, NEW ssip \in BOOLEAN, interrupt(c, ssip) PROVE Inv'
  <2>1. CASE ssip
    BY <1>10, <2>1, Zenon DEF interrupt, Processed, TypeOK, OnlySsipDropsIpis, Pending, CopiesFollow
  <2>2. CASE ~ssip
    BY <1>10, <2>2, Zenon DEF interrupt, Processed, TypeOK, OnlySsipDropsIpis, Pending, CopiesFollow
  <2> QED
    BY <2>1, <2>2, Zenon
<1>11. ASSUME NEW c \in Harts, interrupt_exit(c) PROVE Inv'
  BY <1>11, Zenon DEF interrupt_exit, history, return_confidential_hart, TypeOK, OnlySsipDropsIpis, Pending, CopiesFollow
<1> QED
  BY <1>1, <1>2, <1>3, <1>4, <1>5, <1>6, <1>7, <1>8, <1>9, <1>10, <1>11, Zenon DEF Next

\* However many harts a VM has, however wide the mask is and whatever the handler of the
\* interrupts sees, an IPI stays in the queue, the processor or the vsip copy until its
\* target takes it, unless interrupt::handle drained it because of SSIP.
THEOREM NoOtherIpiIsLost == Init /\ [][Next]_vars => []OnlySsipDropsIpis
<1>1. Inv /\ [Next]_vars => Inv'
  BY NextInv, Zenon
<1>2. Inv => OnlySsipDropsIpis
  BY Zenon DEF Inv
<1> QED BY InitInv, <1>1, <1>2, PTL
=============================================================================
