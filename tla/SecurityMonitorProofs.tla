------------------------ MODULE SecurityMonitorProofs ------------------------
(***************************************************************************)
(* Proofs about SecurityMonitor, for any number of hardware harts, VMs and *)
(* confidential harts and any bound on the queues: first the inductive     *)
(* invariant and what it implies, then the results and requests of harts   *)
(* over their life, then the refinement of HartLifecycle.                  *)
(***************************************************************************)
EXTENDS SecurityMonitor, TLAPS

-----------------------------------------------------------------------------
(* Transformations keep the identity of a token                            *)

SameToken(a, b) ==
    /\ a \in Hart
    /\ a.confidential_vm_id = b.confidential_vm_id
    /\ a.confidential_hart_id = b.confidential_hart_id

\* No transformation of confidential_hart.rs turns a token into that of another
\* hart or into a dummy.
LEMMA TransformationsKeepToken ==
    ASSUME NEW hart \in Hart
    PROVE  /\ SameToken(hart, hart)
           /\ SameToken(TrappedOnInstruction(hart), hart)
           /\ SameToken(TrappedBetweenInstructions(hart), hart)
           /\ \A request \in PendingRequest \cup {"None"} : SameToken(set_pending_request(hart, request), hart)
           /\ SameToken(transition_from_stopped_to_start_pending(hart), hart)
           /\ SameToken(transition_from_start_pending_to_started(hart), hart)
           /\ SameToken(transition_from_started_to_suspended(hart), hart)
           /\ SameToken(transition_from_started_to_stopped(hart), hart)
           /\ SameToken(transition_to_shutdown(hart), hart)
           /\ SameToken(apply_result(hart), hart)
           /\ SameToken(AnsweredAtOnce(hart), hart)
           /\ \A request : SameToken(apply_inter_hart_request(request, hart), hart)
           /\ \A queue : SameToken(apply_all(queue, hart), hart)
           /\ SameToken(apply_pending(hart), hart)
<1>1. ASSUME NEW a \in Hart, NEW state \in HartLifecycleState
      PROVE  SameToken(in_state(a, state), a)
  BY Zenon DEF SameToken, in_state, Hart
<1>2. ASSUME NEW a \in Hart, NEW request \in PendingRequest \cup {"None"}
      PROVE  SameToken(set_pending_request(a, request), a)
  BY Zenon DEF SameToken, set_pending_request, Hart
<1>3. ASSUME NEW a \in Hart
      PROVE  /\ SameToken(TrappedOnInstruction(a), a)
             /\ SameToken(TrappedBetweenInstructions(a), a)
             /\ SameToken(apply_result(a), a)
  BY DEF SameToken, TrappedOnInstruction, TrappedBetweenInstructions, apply_result, Hart
<1>4. SameToken(hart, hart)
  BY Zenon DEF SameToken
<1>5. HartLifecycleState = {"Started", "Stopped", "StartPending", "Suspended", "Shutdown"}
  BY Zenon DEF HartLifecycleState
<1>6. ASSUME NEW a \in Hart
      PROVE  /\ SameToken(transition_from_start_pending_to_started(a), a)
             /\ SameToken(transition_from_started_to_suspended(a), a)
             /\ SameToken(transition_from_started_to_stopped(a), a)
             /\ SameToken(transition_to_shutdown(a), a)
  BY <1>1, <1>5, Zenon DEF SameToken, transition_from_start_pending_to_started,
     transition_from_started_to_suspended, transition_from_started_to_stopped, transition_to_shutdown
<1>7. SameToken(transition_from_stopped_to_start_pending(hart), hart)
  <2> DEFINE a == in_state(hart, "StartPending")
             b == TrappedBetweenInstructions(a)
  <2>1. SameToken(a, hart)
    BY <1>1, <1>5, Zenon
  <2>2. SameToken(b, a)
    BY <1>3, <2>1, Zenon DEF SameToken
  <2>3. SameToken(set_pending_request(b, "SbiHsmHartStartPending"), b)
    BY <1>2, <2>2, Zenon DEF SameToken, PendingRequest
  <2> QED
    BY <2>1, <2>2, <2>3, Zenon DEF SameToken, transition_from_stopped_to_start_pending
<1>8. SameToken(AnsweredAtOnce(hart), hart)
  BY <1>3, Zenon DEF SameToken, AnsweredAtOnce
<1>9. \A request : SameToken(apply_inter_hart_request(request, hart), hart)
  BY <1>4, <1>6, Zenon DEF apply_inter_hart_request
<1>10. \A queue : SameToken(apply_all(queue, hart), hart)
  BY <1>4, <1>6, Zenon DEF apply_all
<1>11. SameToken(apply_pending(hart), hart)
  <2> DEFINE a == set_pending_request(hart, "None")
  <2>1. SameToken(a, hart)
    BY <1>2, Zenon
  <2>2. SameToken(transition_from_start_pending_to_started(a), a) /\ SameToken(apply_result(a), a)
    BY <1>3, <1>6, <2>1, Zenon DEF SameToken
  <2> HIDE DEF a
  <2>3. SameToken(CASE hart.pending_request = "None" -> a
                    [] hart.pending_request = "SbiHsmHartStartPending" ->
                          transition_from_start_pending_to_started(a)
                    [] OTHER -> apply_result(a), hart)
    BY <2>1, <2>2, Zenon DEF SameToken
  <2> QED
    BY <2>3, Zenon DEF apply_pending, a
<1> QED
  BY <1>2, <1>3, <1>4, <1>6, <1>7, <1>8, <1>9, <1>10, <1>11, Zenon

-----------------------------------------------------------------------------
(* The inductive invariant                                                 *)

IInv == TypeOK /\ HartTokensAreUnique /\ FlowGuarantee

\* A dummy is a token that names its hardware hart.
LEMMA DummiesAreHarts ==
    ASSUME NEW h \in HardwareHarts
    PROVE  /\ dummy(h) \in Hart
           /\ is_dummy(dummy(h))
           /\ dummy(h).lifecycle_state = "Started"
           /\ dummy(h).confidential_hart_id = h
BY DEF dummy, is_dummy, Hart, HartLifecycleState

\* Slots that hold dummies keep them, other slots and the hardware harts keep
\* the same tokens.
TokensStay ==
    /\ \A v \in VmIds :
         /\ DOMAIN confidential_harts'[v] = DOMAIN confidential_harts[v]
         /\ \A c \in DOMAIN confidential_harts[v] :
              IF is_dummy(confidential_harts[v][c])
              THEN confidential_harts'[v][c] = confidential_harts[v][c]
              ELSE SameToken(confidential_harts'[v][c], confidential_harts[v][c])
    /\ \A h \in HardwareHarts :
         IF Assigned(h)
         THEN SameToken(hardware_hart'[h], hardware_hart[h])
         ELSE hardware_hart'[h] = hardware_hart[h]
    /\ \A h \in HardwareHarts : pc'[h] \in ConfidentialFlow <=> pc[h] \in ConfidentialFlow
    /\ UNCHANGED <<confidential_vms, hgatp>>

\* A step that moves no token preserves the inductive invariant.
LEMMA TokensStayLemma ==
    ASSUME IInv, TypeOK', TokensStay
    PROVE  IInv'
<1> USE DEF IInv
<1>1. ASSUME NEW h \in HardwareHarts
      PROVE  /\ Assigned(h)' <=> Assigned(h)
             /\ hardware_hart'[h].confidential_vm_id = hardware_hart[h].confidential_vm_id
             /\ hardware_hart'[h].confidential_hart_id = hardware_hart[h].confidential_hart_id
  BY Zenon DEF TokensStay, SameToken, Assigned, is_dummy
<1>2. ASSUME NEW v \in VmIds, NEW c \in DOMAIN confidential_harts[v]
      PROVE  /\ is_dummy(confidential_harts'[v][c]) <=> is_dummy(confidential_harts[v][c])
             /\ confidential_harts'[v][c].confidential_vm_id = confidential_harts[v][c].confidential_vm_id
             /\ confidential_harts'[v][c].confidential_hart_id = confidential_harts[v][c].confidential_hart_id
  BY Zenon DEF TokensStay, SameToken, is_dummy
<1>3. ASSUME NEW h \in HardwareHarts, Assigned(h)
      PROVE  hardware_hart[h].confidential_vm_id \in VmIds
  BY <1>3, Zenon DEF Assigned, is_dummy, Hart, TypeOK, HardwareHartTypes
<1>4. AssignedTokensLeaveDummies'
  <2> SUFFICES ASSUME NEW h \in HardwareHarts, Assigned(h)'
               PROVE  LET v == hardware_hart'[h].confidential_vm_id
                          c == hardware_hart'[h].confidential_hart_id
                      IN /\ c \in DOMAIN confidential_harts'[v]
                         /\ confidential_harts'[v][c] = dummy(h)
    BY Zenon DEF AssignedTokensLeaveDummies
  <2> QED
    BY <1>1, <1>3, DummiesAreHarts DEF TokensStay, HartTokensAreUnique, AssignedTokensLeaveDummies
<1>5. SlotsHoldTheirTokens'
  <2> SUFFICES ASSUME NEW v \in VmIds, NEW c \in DOMAIN confidential_harts'[v]
               PROVE  IF is_dummy(confidential_harts'[v][c])
                      THEN \E h \in HardwareHarts :
                             /\ confidential_harts'[v][c] = dummy(h)
                             /\ hardware_hart'[h].confidential_vm_id = v
                             /\ hardware_hart'[h].confidential_hart_id = c
                      ELSE /\ confidential_harts'[v][c].confidential_vm_id = v
                           /\ confidential_harts'[v][c].confidential_hart_id = c
    BY Zenon DEF SlotsHoldTheirTokens
  <2>1. c \in DOMAIN confidential_harts[v]
    BY Zenon DEF TokensStay
  <2> QED
    BY <1>1, <1>2, <2>1 DEF TokensStay, HartTokensAreUnique, SlotsHoldTheirTokens
<1>6. FlowGuarantee'
  <2> SUFFICES ASSUME NEW h \in HardwareHarts
               PROVE  IF pc'[h] \in ConfidentialFlow
                      THEN /\ Assigned(h)'
                           /\ hardware_hart'[h].confidential_vm_id \in confidential_vms'
                           /\ hardware_hart'[h].confidential_hart_id
                                 \in DOMAIN inter_hart_requests'[hardware_hart'[h].confidential_vm_id]
                           /\ hgatp'[h] = hardware_hart'[h].confidential_vm_id
                      ELSE /\ hardware_hart'[h] = dummy(h)
                           /\ hgatp'[h] = NoVm
    BY Zenon DEF FlowGuarantee
  <2>1. CASE pc'[h] \in ConfidentialFlow
    <3>1. Assigned(h) /\ hardware_hart[h].confidential_vm_id \in confidential_vms
          /\ hgatp[h] = hardware_hart[h].confidential_vm_id
      BY <2>1, Zenon DEF TokensStay, FlowGuarantee
    <3>2. hardware_hart[h].confidential_hart_id
             \in DOMAIN confidential_harts'[hardware_hart[h].confidential_vm_id]
      BY <3>1, <1>3, Zenon DEF TokensStay, HartTokensAreUnique, AssignedTokensLeaveDummies
    <3>3. DOMAIN inter_hart_requests'[hardware_hart[h].confidential_vm_id]
             = DOMAIN confidential_harts'[hardware_hart[h].confidential_vm_id]
      BY <3>1, <1>3, Zenon DEF TypeOK, QueueTypes
    <3> QED
      BY <2>1, <3>1, <3>2, <3>3, <1>1, Zenon DEF TokensStay
  <2>2. CASE pc'[h] \notin ConfidentialFlow
    BY <2>2, DummiesAreHarts DEF TokensStay, FlowGuarantee, Assigned
  <2> QED
    BY <2>1, <2>2, Zenon
<1> QED
  BY <1>4, <1>5, <1>6, Zenon DEF HartTokensAreUnique

-----------------------------------------------------------------------------
(* Moving a token                                                          *)

\* Facts about the token that a hardware hart holds in the confidential flow.
LEMMA AssignedFacts ==
    ASSUME IInv, NEW h \in HardwareHarts, pc[h] \in ConfidentialFlow,
           NEW hart, SameToken(hart, hardware_hart[h])
    PROVE  /\ hart \in Hart
           /\ ~ is_dummy(hart)
           /\ hart.confidential_vm_id \in confidential_vms
           /\ hart.confidential_vm_id \in VmIds
           /\ hart.confidential_hart_id \in DOMAIN confidential_harts[hart.confidential_vm_id]
           /\ confidential_harts[hart.confidential_vm_id][hart.confidential_hart_id] = dummy(h)
           /\ DOMAIN inter_hart_requests[hart.confidential_vm_id]
                = DOMAIN confidential_harts[hart.confidential_vm_id]
BY Zenon DEF IInv, SameToken, is_dummy, Assigned, FlowGuarantee, TypeOK, ControlDataTypes, QueueTypes,
       HartTokensAreUnique, AssignedTokensLeaveDummies

\* return_confidential_hart puts the token back where its dummy is.
LEMMA ReturnLemma ==
    ASSUME IInv, NEW h \in HardwareHarts, pc[h] \in ConfidentialFlow,
           NEW hart, SameToken(hart, hardware_hart[h]),
           NEW label \in NonConfidentialFlow,
           return_confidential_hart(h, hart), GoTo(h, label),
           removing' \in [HardwareHarts -> VmIds \cup {NoVm}],
           UNCHANGED <<confidential_vms, inter_hart_requests, ipi>>
    PROVE  IInv'
<1> DEFINE v == hart.confidential_vm_id
           c == hart.confidential_hart_id
<1>1. /\ hart \in Hart /\ ~ is_dummy(hart)
      /\ v \in confidential_vms /\ v \in VmIds /\ c \in DOMAIN confidential_harts[v]
      /\ confidential_harts[v][c] = dummy(h)
      /\ hardware_hart[h].confidential_vm_id = v /\ hardware_hart[h].confidential_hart_id = c
  BY AssignedFacts, Zenon DEF SameToken
<1>2. /\ hardware_hart' = [hardware_hart EXCEPT ![h] = dummy(h)]
      /\ confidential_harts' = [confidential_harts EXCEPT ![v][c] = hart]
      /\ hgatp' = [hgatp EXCEPT ![h] = NoVm]
      /\ pc' = [pc EXCEPT ![h] = label]
  BY <1>1, Zenon DEF return_confidential_hart, GoTo
<1> HIDE DEF v, c
<1>3. TypeOK'
  <2>1. ControlDataTypes'
    BY <1>1, <1>2, Zenon DEF IInv, TypeOK, ControlDataTypes
  <2>2. QueueTypes'
    BY <1>1, <1>2, Zenon DEF IInv, TypeOK, ControlDataTypes, QueueTypes
  <2>3. HardwareHartTypes'
    BY <1>1, <1>2, DummiesAreHarts, Zenon DEF IInv, TypeOK, HardwareHartTypes
  <2> QED
    BY <2>1, <2>2, <2>3, Zenon DEF TypeOK
<1>4. \A u \in VmIds : /\ DOMAIN confidential_harts'[u] = DOMAIN confidential_harts[u]
                       /\ \A d \in DOMAIN confidential_harts[u] :
                            confidential_harts'[u][d]
                               = IF u = v /\ d = c THEN hart ELSE confidential_harts[u][d]
  BY <1>1, <1>2, Zenon DEF IInv, TypeOK, ControlDataTypes
<1>5. \A g \in HardwareHarts : hardware_hart'[g] = IF g = h THEN dummy(h) ELSE hardware_hart[g]
  BY <1>2, Zenon DEF IInv, TypeOK, HardwareHartTypes
<1>6. \A g \in HardwareHarts \ {h} :
         Assigned(g) => hardware_hart[g].confidential_vm_id # v \/ hardware_hart[g].confidential_hart_id # c
  <2> SUFFICES ASSUME NEW g \in HardwareHarts \ {h}, Assigned(g),
                      hardware_hart[g].confidential_vm_id = v, hardware_hart[g].confidential_hart_id = c
               PROVE  FALSE
    BY Zenon
  <2>1. confidential_harts[v][c] = dummy(g)
    BY Zenon DEF IInv, HartTokensAreUnique, AssignedTokensLeaveDummies
  <2> QED
    BY <1>1, <2>1, DummiesAreHarts, Zenon
<1>7. AssignedTokensLeaveDummies'
  <2> SUFFICES ASSUME NEW g \in HardwareHarts, Assigned(g)'
               PROVE  LET u == hardware_hart'[g].confidential_vm_id
                          d == hardware_hart'[g].confidential_hart_id
                      IN /\ d \in DOMAIN confidential_harts'[u]
                         /\ confidential_harts'[u][d] = dummy(g)
    BY Zenon DEF AssignedTokensLeaveDummies
  <2>1. g # h /\ hardware_hart'[g] = hardware_hart[g] /\ Assigned(g)
    BY <1>5, DummiesAreHarts, Zenon DEF Assigned
  <2>2. hardware_hart[g].confidential_vm_id \in VmIds
    BY <2>1, Zenon DEF Assigned, is_dummy, Hart, IInv, TypeOK, HardwareHartTypes
  <2> QED
    BY <1>4, <1>6, <2>1, <2>2 DEF IInv, HartTokensAreUnique, AssignedTokensLeaveDummies
<1>8. SlotsHoldTheirTokens'
  <2> SUFFICES ASSUME NEW u \in VmIds, NEW d \in DOMAIN confidential_harts'[u]
               PROVE  IF is_dummy(confidential_harts'[u][d])
                      THEN \E g \in HardwareHarts :
                             /\ confidential_harts'[u][d] = dummy(g)
                             /\ hardware_hart'[g].confidential_vm_id = u
                             /\ hardware_hart'[g].confidential_hart_id = d
                      ELSE /\ confidential_harts'[u][d].confidential_vm_id = u
                           /\ confidential_harts'[u][d].confidential_hart_id = d
    BY Zenon DEF SlotsHoldTheirTokens
  <2>1. CASE u = v /\ d = c
    BY <1>1, <1>4, <2>1, Zenon DEF v, c
  <2>2. CASE ~ (u = v /\ d = c)
    <3>1. d \in DOMAIN confidential_harts[u] /\ confidential_harts'[u][d] = confidential_harts[u][d]
      BY <1>4, <2>2, Zenon
    <3>2. CASE is_dummy(confidential_harts[u][d])
      <4>1. PICK g \in HardwareHarts : /\ confidential_harts[u][d] = dummy(g)
                                       /\ hardware_hart[g].confidential_vm_id = u
                                       /\ hardware_hart[g].confidential_hart_id = d
        BY <3>1, <3>2, Zenon DEF IInv, HartTokensAreUnique, SlotsHoldTheirTokens
      <4>2. g # h
        BY <1>1, <2>2, <4>1, Zenon
      <4> QED
        BY <1>5, <3>1, <3>2, <4>1, <4>2, Zenon
    <3>3. CASE ~ is_dummy(confidential_harts[u][d])
      BY <3>1, <3>3 DEF IInv, HartTokensAreUnique, SlotsHoldTheirTokens
    <3> QED
      BY <3>2, <3>3, Zenon
  <2> QED
    BY <2>1, <2>2, Zenon
<1>9. FlowGuarantee'
  <2>1. label \notin ConfidentialFlow
    BY Zenon DEF NonConfidentialFlow, ConfidentialFlow
  <2>2. \A g \in HardwareHarts \ {h} : /\ pc'[g] = pc[g] /\ hgatp'[g] = hgatp[g]
                                       /\ hardware_hart'[g] = hardware_hart[g]
    BY <1>2, <1>5, Zenon DEF IInv, TypeOK, HardwareHartTypes
  <2>3. pc'[h] = label /\ hgatp'[h] = NoVm /\ hardware_hart'[h] = dummy(h)
    BY <1>2, <1>5, Zenon DEF IInv, TypeOK, HardwareHartTypes
  <2> QED
    BY <2>1, <2>2, <2>3, Zenon DEF IInv, FlowGuarantee, Assigned
<1> QED
  BY <1>3, <1>7, <1>8, <1>9, Zenon DEF IInv, HartTokensAreUnique

\* steal_confidential_hart leaves the dummy of the hardware hart in the slot.
LEMMA StealLemma ==
    ASSUME IInv, NEW h \in HardwareHarts, NEW v \in VmIds, NEW c \in HartIds,
           resume_confidential_hart(h, v, c)
    PROVE  IInv'
<1> DEFINE hart == confidential_harts[v][c]
<1>1. /\ v \in confidential_vms /\ c \in DOMAIN confidential_harts[v]
      /\ ~ is_dummy(hart) /\ hart \in Hart
      /\ hart.confidential_vm_id = v /\ hart.confidential_hart_id = c
  BY DEF resume_confidential_hart, steal_confidential_hart, is_executable, IInv, TypeOK,
     ControlDataTypes, HartTokensAreUnique, SlotsHoldTheirTokens
<1>2. hardware_hart[h] = dummy(h) /\ pc[h] = "hypervisor" /\ pc[h] \notin ConfidentialFlow
  BY Zenon DEF resume_confidential_hart, IInv, FlowGuarantee, ConfidentialFlow
<1>3. /\ hardware_hart' = [hardware_hart EXCEPT ![h] = hart]
      /\ confidential_harts' = [confidential_harts EXCEPT ![v][c] = dummy(h)]
      /\ hgatp' = [hgatp EXCEPT ![h] = v]
      /\ pc' = [pc EXCEPT ![h] = "resume"]
      /\ UNCHANGED <<confidential_vms, inter_hart_requests, removing, ipi>>
  BY <1>2, Zenon DEF resume_confidential_hart, steal_confidential_hart, GoTo
<1> HIDE DEF hart
<1>4. TypeOK'
  <2>1. ControlDataTypes'
    BY <1>1, <1>3, DummiesAreHarts, Zenon DEF IInv, TypeOK, ControlDataTypes
  <2>2. QueueTypes'
    BY <1>1, <1>3, Zenon DEF IInv, TypeOK, ControlDataTypes, QueueTypes
  <2>3. HardwareHartTypes'
    BY <1>1, <1>3, Zenon DEF IInv, TypeOK, HardwareHartTypes, ConfidentialFlow
  <2> QED
    BY <2>1, <2>2, <2>3, Zenon DEF TypeOK
<1>5. \A u \in VmIds : /\ DOMAIN confidential_harts'[u] = DOMAIN confidential_harts[u]
                       /\ \A d \in DOMAIN confidential_harts[u] :
                            confidential_harts'[u][d]
                               = IF u = v /\ d = c THEN dummy(h) ELSE confidential_harts[u][d]
  BY <1>1, <1>3, Zenon DEF IInv, TypeOK, ControlDataTypes
<1>6. \A g \in HardwareHarts : hardware_hart'[g] = IF g = h THEN hart ELSE hardware_hart[g]
  BY <1>3, Zenon DEF IInv, TypeOK, HardwareHartTypes
<1>7. AssignedTokensLeaveDummies'
  <2> SUFFICES ASSUME NEW g \in HardwareHarts, Assigned(g)'
               PROVE  LET u == hardware_hart'[g].confidential_vm_id
                          d == hardware_hart'[g].confidential_hart_id
                      IN /\ d \in DOMAIN confidential_harts'[u]
                         /\ confidential_harts'[u][d] = dummy(g)
    BY Zenon DEF AssignedTokensLeaveDummies
  <2>1. CASE g = h
    BY <1>1, <1>5, <1>6, <2>1, Zenon
  <2>2. CASE g # h
    <3>1. hardware_hart'[g] = hardware_hart[g] /\ Assigned(g)
      BY <1>6, <2>2, Zenon DEF Assigned
    <3>2. hardware_hart[g].confidential_vm_id \in VmIds
      BY <3>1, Zenon DEF Assigned, is_dummy, Hart, IInv, TypeOK, HardwareHartTypes
    <3>3. /\ hardware_hart[g].confidential_hart_id \in DOMAIN confidential_harts[hardware_hart[g].confidential_vm_id]
          /\ confidential_harts[hardware_hart[g].confidential_vm_id][hardware_hart[g].confidential_hart_id] = dummy(g)
      BY <3>1, Zenon DEF IInv, HartTokensAreUnique, AssignedTokensLeaveDummies
    <3> QED
      BY <1>1, <1>5, <3>1, <3>2, <3>3, DummiesAreHarts DEF hart
  <2> QED
    BY <2>1, <2>2, Zenon
<1>8. SlotsHoldTheirTokens'
  <2> SUFFICES ASSUME NEW u \in VmIds, NEW d \in DOMAIN confidential_harts'[u]
               PROVE  IF is_dummy(confidential_harts'[u][d])
                      THEN \E g \in HardwareHarts :
                             /\ confidential_harts'[u][d] = dummy(g)
                             /\ hardware_hart'[g].confidential_vm_id = u
                             /\ hardware_hart'[g].confidential_hart_id = d
                      ELSE /\ confidential_harts'[u][d].confidential_vm_id = u
                           /\ confidential_harts'[u][d].confidential_hart_id = d
    BY Zenon DEF SlotsHoldTheirTokens
  <2>1. CASE u = v /\ d = c
    BY <1>1, <1>5, <1>6, <2>1, DummiesAreHarts, Zenon
  <2>2. CASE ~ (u = v /\ d = c)
    <3>1. d \in DOMAIN confidential_harts[u] /\ confidential_harts'[u][d] = confidential_harts[u][d]
      BY <1>5, <2>2, Zenon
    <3>2. CASE is_dummy(confidential_harts[u][d])
      <4>1. PICK g \in HardwareHarts : /\ confidential_harts[u][d] = dummy(g)
                                       /\ hardware_hart[g].confidential_vm_id = u
                                       /\ hardware_hart[g].confidential_hart_id = d
        BY <3>1, <3>2, Zenon DEF IInv, HartTokensAreUnique, SlotsHoldTheirTokens
      <4>2. g # h
        BY <1>2, <4>1, ConstantsAssumption DEF dummy
      <4> QED
        BY <1>6, <3>1, <3>2, <4>1, <4>2, Zenon
    <3>3. CASE ~ is_dummy(confidential_harts[u][d])
      BY <3>1, <3>3 DEF IInv, HartTokensAreUnique, SlotsHoldTheirTokens
    <3> QED
      BY <3>2, <3>3, Zenon
  <2> QED
    BY <2>1, <2>2, Zenon
<1>9. FlowGuarantee'
  <2>1. \A g \in HardwareHarts \ {h} : /\ pc'[g] = pc[g] /\ hgatp'[g] = hgatp[g]
                                       /\ hardware_hart'[g] = hardware_hart[g]
    BY <1>3, <1>6, Zenon DEF IInv, TypeOK, HardwareHartTypes
  <2>2. pc'[h] = "resume" /\ hgatp'[h] = v /\ hardware_hart'[h] = hart
    BY <1>3, <1>6, Zenon DEF IInv, TypeOK, HardwareHartTypes
  <2>3. c \in DOMAIN inter_hart_requests[v]
    BY <1>1, Zenon DEF IInv, TypeOK, QueueTypes
  <2> QED
    BY <1>1, <1>3, <2>1, <2>2, <2>3 DEF IInv, FlowGuarantee, Assigned, ConfidentialFlow
<1> QED
  BY <1>4, <1>7, <1>8, <1>9, Zenon DEF IInv, HartTokensAreUnique

-----------------------------------------------------------------------------
(* The set of VMs                                                          *)

\* No hardware hart holds a token of a VM that is absent from the control data
\* or whose harts are all shut down: the dummy it left is Started.
LEMMA RemovableVmsAreUnassigned ==
    ASSUME IInv, NEW v \in VmIds, v \in confidential_vms => are_all_harts_shutdown(v),
           NEW h \in HardwareHarts
    PROVE  hardware_hart[h].confidential_vm_id # v
<1> SUFFICES ASSUME hardware_hart[h].confidential_vm_id = v
             PROVE  FALSE
  BY Zenon
<1>1. Assigned(h)
  BY ConstantsAssumption, Zenon DEF Assigned, is_dummy
<1>2. /\ hardware_hart[h].confidential_hart_id \in DOMAIN confidential_harts[v]
      /\ confidential_harts[v][hardware_hart[h].confidential_hart_id] = dummy(h)
  BY <1>1, Zenon DEF IInv, HartTokensAreUnique, AssignedTokensLeaveDummies
<1> QED
  BY <1>2, DummiesAreHarts, Zenon DEF are_all_harts_shutdown, IInv, TypeOK, ControlDataTypes

\* Replacing the slots of a VM that no hardware hart runs by unassigned tokens.
LEMMA ReplaceVmLemma ==
    ASSUME IInv, NEW v \in VmIds, NEW harts,
           DOMAIN harts \subseteq HartIds,
           harts \in [DOMAIN harts -> Hart],
           \A c \in DOMAIN harts : harts[c].confidential_vm_id = v /\ harts[c].confidential_hart_id = c,
           \A h \in HardwareHarts : hardware_hart[h].confidential_vm_id # v,
           confidential_harts' = [confidential_harts EXCEPT ![v] = harts],
           confidential_vms' \subseteq VmIds,
           \A u \in VmIds \ {v} : u \in confidential_vms' <=> u \in confidential_vms,
           v \notin confidential_vms' => DOMAIN harts = {},
           QueueTypes', HardwareHartTypes',
           \A h \in HardwareHarts : pc'[h] \in ConfidentialFlow <=> pc[h] \in ConfidentialFlow,
           UNCHANGED <<hardware_hart, hgatp>>
    PROVE  IInv'
<1>1. \A u \in VmIds : confidential_harts'[u] = IF u = v THEN harts ELSE confidential_harts[u]
  BY Zenon DEF IInv, TypeOK, ControlDataTypes
<1>2. TypeOK'
  <2>1. ControlDataTypes'
    BY <1>1, Zenon DEF IInv, TypeOK, ControlDataTypes
  <2> QED
    BY <2>1, Zenon DEF TypeOK
<1>3. \A h \in HardwareHarts : Assigned(h) => hardware_hart[h].confidential_vm_id \in VmIds \ {v}
  BY DEF Assigned, is_dummy, Hart, IInv, TypeOK, HardwareHartTypes
<1>4. AssignedTokensLeaveDummies'
  BY <1>1, <1>3 DEF IInv, HartTokensAreUnique, AssignedTokensLeaveDummies, Assigned
<1>5. SlotsHoldTheirTokens'
  <2> SUFFICES ASSUME NEW u \in VmIds, NEW d \in DOMAIN confidential_harts'[u]
               PROVE  IF is_dummy(confidential_harts'[u][d])
                      THEN \E g \in HardwareHarts :
                             /\ confidential_harts'[u][d] = dummy(g)
                             /\ hardware_hart'[g].confidential_vm_id = u
                             /\ hardware_hart'[g].confidential_hart_id = d
                      ELSE /\ confidential_harts'[u][d].confidential_vm_id = u
                           /\ confidential_harts'[u][d].confidential_hart_id = d
    BY Zenon DEF SlotsHoldTheirTokens
  <2>1. CASE u = v
    BY <1>1, <2>1, ConstantsAssumption DEF is_dummy
  <2>2. CASE u # v
    BY <1>1, <2>2 DEF IInv, HartTokensAreUnique, SlotsHoldTheirTokens
  <2> QED
    BY <2>1, <2>2, Zenon
<1>6. FlowGuarantee'
  <2> SUFFICES ASSUME NEW h \in HardwareHarts
               PROVE  IF pc'[h] \in ConfidentialFlow
                      THEN /\ Assigned(h)'
                           /\ hardware_hart'[h].confidential_vm_id \in confidential_vms'
                           /\ hardware_hart'[h].confidential_hart_id
                                 \in DOMAIN inter_hart_requests'[hardware_hart'[h].confidential_vm_id]
                           /\ hgatp'[h] = hardware_hart'[h].confidential_vm_id
                      ELSE /\ hardware_hart'[h] = dummy(h)
                           /\ hgatp'[h] = NoVm
    BY Zenon DEF FlowGuarantee
  <2>1. CASE pc[h] \in ConfidentialFlow
    <3>1. Assigned(h) /\ hardware_hart[h].confidential_vm_id \in confidential_vms
          /\ hgatp[h] = hardware_hart[h].confidential_vm_id
      BY <2>1, Zenon DEF IInv, FlowGuarantee
    <3>2. hardware_hart[h].confidential_hart_id
             \in DOMAIN confidential_harts'[hardware_hart[h].confidential_vm_id]
      BY <3>1, <1>1, <1>3 DEF IInv, HartTokensAreUnique, AssignedTokensLeaveDummies
    <3> QED
      BY <2>1, <3>1, <3>2, <1>3, Zenon DEF Assigned, QueueTypes
  <2>2. CASE pc[h] \notin ConfidentialFlow
    BY <2>2, Zenon DEF IInv, FlowGuarantee
  <2> QED
    BY <2>1, <2>2, Zenon
<1> QED
  BY <1>2, <1>4, <1>5, <1>6, Zenon DEF IInv, HartTokensAreUnique

\* remove_confidential_vm drops a VM that no hardware hart runs.
LEMMA RemoveLemma ==
    ASSUME IInv, NEW v \in VmIds \cup {NoVm}, remove_confidential_vm(v),
           HardwareHartTypes',
           \A h \in HardwareHarts : pc'[h] \in ConfidentialFlow <=> pc[h] \in ConfidentialFlow,
           UNCHANGED <<hardware_hart, hgatp>>
    PROVE  IInv'
<1>1. CASE v \in confidential_vms /\ are_all_harts_shutdown(v)
  <2>1. /\ confidential_vms' = confidential_vms \ {v}
        /\ confidential_harts' = [confidential_harts EXCEPT ![v] = <<>>]
        /\ inter_hart_requests' = [inter_hart_requests EXCEPT ![v] = <<>>]
    BY <1>1, Zenon DEF remove_confidential_vm
  <2>2. v \in VmIds /\ confidential_vms' \subseteq VmIds
    BY <1>1, <2>1, Zenon DEF IInv, TypeOK, ControlDataTypes
  <2>3. DOMAIN << >> = {} /\ << >> \in [{} -> Hart] /\ << >> \in [{} -> Queues]
    OBVIOUS
  <2>4. QueueTypes'
    <3>1. \A u \in VmIds : /\ confidential_harts'[u] = IF u = v THEN <<>> ELSE confidential_harts[u]
                           /\ inter_hart_requests'[u] = IF u = v THEN <<>> ELSE inter_hart_requests[u]
      BY <2>1, <2>2, Zenon DEF IInv, TypeOK, ControlDataTypes, QueueTypes
    <3> QED
      BY <2>1, <2>2, <2>3, <3>1 DEF IInv, TypeOK, QueueTypes
  <2>5. \A h \in HardwareHarts : hardware_hart[h].confidential_vm_id # v
    BY <1>1, <2>2, RemovableVmsAreUnassigned, Zenon
  <2>6. ASSUME NEW harts, harts = << >>
        PROVE  IInv'
    <3>1. /\ DOMAIN harts \subseteq HartIds
          /\ harts \in [DOMAIN harts -> Hart]
          /\ \A c \in DOMAIN harts : harts[c].confidential_vm_id = v /\ harts[c].confidential_hart_id = c
          /\ v \notin confidential_vms' => DOMAIN harts = {}
      BY <2>3, <2>6, Zenon
    <3>2. /\ confidential_harts' = [confidential_harts EXCEPT ![v] = harts]
          /\ \A u \in VmIds \ {v} : u \in confidential_vms' <=> u \in confidential_vms
      BY <2>1, <2>6, Zenon
    <3> QED
      BY <2>2, <2>4, <2>5, <3>1, <3>2, ReplaceVmLemma, Zenon
  <2> QED
    BY <2>6, Zenon
<1>2. CASE ~ (v \in confidential_vms /\ are_all_harts_shutdown(v))
  <2>1. UNCHANGED <<confidential_vms, confidential_harts, inter_hart_requests>>
    BY <1>2, Zenon DEF remove_confidential_vm
  <2>2. TypeOK'
    BY <2>1, Zenon DEF IInv, TypeOK, ControlDataTypes, QueueTypes
  <2>3. TokensStay
    BY <2>1, Zenon DEF TokensStay, SameToken, IInv, TypeOK, ControlDataTypes, HardwareHartTypes
  <2> QED
    BY <2>2, <2>3, TokensStayLemma, Zenon
<1> QED
  BY <1>1, <1>2, Zenon

\* promote_to_confidential_vm inserts unassigned tokens under an unused id.
LEMMA PromoteLemma ==
    ASSUME IInv, NEW h \in HardwareHarts, NEW v \in VmIds, NEW n \in 0 .. MaxHarts,
           promote_to_confidential_vm(h, v, n)
    PROVE  IInv'
<1> DEFINE harts == [c \in 0 .. (n - 1) |-> IF c = 0 THEN from_vm_hart(v, c) ELSE from_vm_hart_reset(v, c)]
<1>1. v \notin confidential_vms
  BY DEF promote_to_confidential_vm, unique_id, VmIds, IInv, TypeOK, ControlDataTypes
<1>2. /\ DOMAIN harts = 0 .. (n - 1)
      /\ DOMAIN harts \subseteq HartIds
  BY ConstantsAssumption DEF promote_to_confidential_vm, HartIds
<1>3. \A c \in DOMAIN harts : /\ harts[c] \in Hart
                              /\ harts[c].confidential_vm_id = v
                              /\ harts[c].confidential_hart_id = c
  BY <1>2 DEF from_vm_hart, from_vm_hart_reset, Hart, HartLifecycleState, PendingRequest
<1>4. harts \in [DOMAIN harts -> Hart]
  BY <1>3, Zenon
<1>5. /\ confidential_vms' = confidential_vms \cup {v}
      /\ confidential_harts' = [confidential_harts EXCEPT ![v] = harts]
      /\ inter_hart_requests' = [inter_hart_requests EXCEPT ![v] = [c \in DOMAIN harts |-> <<>>]]
      /\ UNCHANGED <<hardware_hart, pc, removing, hgatp, ipi>>
  BY Zenon DEF promote_to_confidential_vm, insert_confidential_vm
<1> HIDE DEF harts
<1>6. QueueTypes'
  <2>1. \A u \in VmIds : /\ confidential_harts'[u] = IF u = v THEN harts ELSE confidential_harts[u]
                         /\ inter_hart_requests'[u] = IF u = v THEN [c \in DOMAIN harts |-> <<>>]
                                                      ELSE inter_hart_requests[u]
    BY <1>5, Zenon DEF IInv, TypeOK, ControlDataTypes, QueueTypes
  <2>2. << >> \in Queues /\ Len(<< >>) <= MaxRequests
    BY ParametersAssumption DEF Queues
  <2>3. DOMAIN inter_hart_requests' = VmIds
    BY <1>5, Zenon DEF IInv, TypeOK, QueueTypes
  <2> QED
    BY <2>1, <2>2, <2>3, Zenon DEF IInv, TypeOK, QueueTypes
<1>7. HardwareHartTypes'
  BY <1>5, Zenon DEF IInv, TypeOK, HardwareHartTypes
<1>8. \A g \in HardwareHarts : hardware_hart[g].confidential_vm_id # v
  BY <1>1, RemovableVmsAreUnassigned, Zenon
<1>9. confidential_vms' \subseteq VmIds
  BY <1>5, Zenon DEF IInv, TypeOK, ControlDataTypes
<1> QED
  BY <1>2, <1>3, <1>4, <1>5, <1>6, <1>7, <1>8, <1>9, ReplaceVmLemma, Zenon

-----------------------------------------------------------------------------
(* Steps that move no token                                                *)

\* A handler that only changes the token it owns.
LEMMA OwnTokenLemma ==
    ASSUME IInv, NEW h \in HardwareHarts, pc[h] \in ConfidentialFlow,
           NEW hart, SameToken(hart, hardware_hart[h]),
           hardware_hart' = [hardware_hart EXCEPT ![h] = hart],
           NEW label \in ConfidentialFlow, GoTo(h, label),
           QueueTypes',
           UNCHANGED <<confidential_vms, confidential_harts, removing, hgatp, ipi>>
    PROVE  IInv'
<1>1. TypeOK'
  <2>1. HardwareHartTypes'
    BY AssignedFacts, Zenon DEF GoTo, IInv, TypeOK, HardwareHartTypes
  <2>2. ControlDataTypes'
    BY Zenon DEF IInv, TypeOK, ControlDataTypes
  <2> QED
    BY <2>1, <2>2, Zenon DEF TypeOK
<1>2. TokensStay
  <2>1. \A g \in HardwareHarts : hardware_hart'[g] = IF g = h THEN hart ELSE hardware_hart[g]
    BY Zenon DEF IInv, TypeOK, HardwareHartTypes
  <2>2. \A g \in HardwareHarts : pc'[g] \in ConfidentialFlow <=> pc[g] \in ConfidentialFlow
    BY Zenon DEF GoTo, IInv, TypeOK, HardwareHartTypes
  <2>3. Assigned(h)
    BY Zenon DEF IInv, FlowGuarantee
  <2> QED
    BY <2>1, <2>2, <2>3, Zenon DEF TokensStay, SameToken, IInv, TypeOK, ControlDataTypes, HardwareHartTypes
<1> QED
  BY <1>1, <1>2, TokensStayLemma, Zenon

\* A broadcast delivers to dummies through queues and to other slots directly.
LEMMA DeliverLemma ==
    ASSUME IInv, NEW h \in HardwareHarts, pc[h] \in ConfidentialFlow,
           NEW v \in confidential_vms, NEW request \in InterHartRequest,
           NEW reached, NEW notified, \A c \in reached : HasRoom(v, c),
           Deliver(v, request, reached, notified),
           NEW hart, SameToken(hart, hardware_hart[h]),
           hardware_hart' = [hardware_hart EXCEPT ![h] = hart],
           NEW label \in ConfidentialFlow, GoTo(h, label),
           UNCHANGED <<confidential_vms, removing, hgatp>>
    PROVE  IInv'
<1>1. v \in VmIds
  BY Zenon DEF IInv, TypeOK, ControlDataTypes
<1>2. \A u \in VmIds : confidential_harts'[u] =
         IF u = v
         THEN [c \in DOMAIN confidential_harts[v] |->
                 IF c \in reached /\ ~ is_dummy(confidential_harts[v][c])
                 THEN apply_inter_hart_request(request, confidential_harts[v][c])
                 ELSE confidential_harts[v][c]]
         ELSE confidential_harts[u]
  BY <1>1, Zenon DEF Deliver, IInv, TypeOK, ControlDataTypes
<1>3. \A u \in VmIds : DOMAIN confidential_harts'[u] = DOMAIN confidential_harts[u]
  BY <1>2, Zenon
<1>4. \A u \in VmIds : \A c \in DOMAIN confidential_harts[u] :
         IF is_dummy(confidential_harts[u][c])
         THEN confidential_harts'[u][c] = confidential_harts[u][c]
         ELSE SameToken(confidential_harts'[u][c], confidential_harts[u][c])
  <2> SUFFICES ASSUME NEW u \in VmIds, NEW c \in DOMAIN confidential_harts[u]
               PROVE  IF is_dummy(confidential_harts[u][c])
                      THEN confidential_harts'[u][c] = confidential_harts[u][c]
                      ELSE SameToken(confidential_harts'[u][c], confidential_harts[u][c])
    BY Zenon
  <2>1. confidential_harts[u][c] \in Hart
    BY Zenon DEF IInv, TypeOK, ControlDataTypes
  <2>2. /\ SameToken(confidential_harts[u][c], confidential_harts[u][c])
        /\ SameToken(apply_inter_hart_request(request, confidential_harts[u][c]), confidential_harts[u][c])
    BY <2>1, TransformationsKeepToken, Zenon
  <2>3. \/ confidential_harts'[u][c] = confidential_harts[u][c]
        \/ /\ ~ is_dummy(confidential_harts[u][c])
           /\ confidential_harts'[u][c] = apply_inter_hart_request(request, confidential_harts[u][c])
    <3>1. CASE u = v
      <4> DEFINE F(d) == IF d \in reached /\ ~ is_dummy(confidential_harts[v][d])
                         THEN apply_inter_hart_request(request, confidential_harts[v][d])
                         ELSE confidential_harts[v][d]
      <4>1. confidential_harts'[v] = [d \in DOMAIN confidential_harts[v] |-> F(d)]
        BY <1>1, <1>2, Zenon
      <4> HIDE DEF F
      <4>2. confidential_harts'[v][c] = F(c)
        BY <3>1, <4>1, Zenon
      <4> QED
        BY <3>1, <4>2, Zenon DEF F
    <3>2. CASE u # v
      BY <1>2, <3>2, Zenon
    <3> QED
      BY <3>1, <3>2, Zenon
  <2> QED
    BY <2>2, <2>3, Zenon
<1>5. ControlDataTypes'
  <2>1. DOMAIN confidential_harts' = VmIds
    BY Zenon DEF Deliver, IInv, TypeOK, ControlDataTypes
  <2>2. \A u \in VmIds : confidential_harts'[u] \in [DOMAIN confidential_harts[u] -> Hart]
    <3> SUFFICES ASSUME NEW u \in VmIds
                 PROVE  confidential_harts'[u] \in [DOMAIN confidential_harts[u] -> Hart]
      BY Zenon
    <3>1. \A c \in DOMAIN confidential_harts[u] : confidential_harts'[u][c] \in Hart
      BY <1>4, Zenon DEF SameToken, IInv, TypeOK, ControlDataTypes
    <3>2. CASE u = v
      <4> DEFINE F(c) == IF c \in reached /\ ~ is_dummy(confidential_harts[v][c])
                         THEN apply_inter_hart_request(request, confidential_harts[v][c])
                         ELSE confidential_harts[v][c]
      <4>1. confidential_harts'[u] = [c \in DOMAIN confidential_harts[v] |-> F(c)]
        BY <1>2, <3>2, Zenon
      <4> HIDE DEF F
      <4> QED
        BY <3>1, <3>2, <4>1, Zenon
    <3>3. CASE u # v
      BY <1>2, <3>3, Zenon DEF IInv, TypeOK, ControlDataTypes
    <3> QED
      BY <3>2, <3>3, Zenon
  <2> QED
    BY <1>3, <2>1, <2>2, Zenon DEF IInv, TypeOK, ControlDataTypes
<1>6. QueueTypes'
  <2>1. \A u \in VmIds : inter_hart_requests'[u] =
           IF u = v
           THEN [c \in DOMAIN confidential_harts[v] |->
                   IF c \in reached /\ is_dummy(confidential_harts[v][c])
                   THEN Append(inter_hart_requests[v][c], request)
                   ELSE inter_hart_requests[v][c]]
           ELSE inter_hart_requests[u]
    BY <1>1, Zenon DEF Deliver, IInv, TypeOK, QueueTypes
  <2>2. ASSUME NEW c \in DOMAIN confidential_harts[v], c \in reached, is_dummy(confidential_harts[v][c])
        PROVE  /\ Append(inter_hart_requests[v][c], request) \in Queues
               /\ Len(Append(inter_hart_requests[v][c], request)) <= MaxRequests
    <3>1. inter_hart_requests[v][c] \in Seq(InterHartRequest) /\ Len(inter_hart_requests[v][c]) < MaxRequests
      BY <1>1, <2>2, Zenon DEF HasRoom, IInv, TypeOK, QueueTypes, Queues
    <3> QED
      BY <3>1, ParametersAssumption DEF Queues
  <2>3. DOMAIN inter_hart_requests' = VmIds
    BY Zenon DEF Deliver, IInv, TypeOK, QueueTypes
  <2>4. \A u \in VmIds : /\ DOMAIN inter_hart_requests[u] = DOMAIN confidential_harts[u]
                         /\ \A c \in DOMAIN confidential_harts[u] : /\ inter_hart_requests[u][c] \in Queues
                                                                   /\ Len(inter_hart_requests[u][c]) <= MaxRequests
    BY Zenon DEF IInv, TypeOK, QueueTypes
  <2>5. ASSUME NEW u \in VmIds
        PROVE  /\ inter_hart_requests'[u] \in [DOMAIN confidential_harts[u] -> Queues]
               /\ \A c \in DOMAIN confidential_harts[u] : Len(inter_hart_requests'[u][c]) <= MaxRequests
    <3>1. CASE u = v
      <4> DEFINE F(c) == IF c \in reached /\ is_dummy(confidential_harts[v][c])
                         THEN Append(inter_hart_requests[v][c], request)
                         ELSE inter_hart_requests[v][c]
      <4>1. inter_hart_requests'[u] = [c \in DOMAIN confidential_harts[v] |-> F(c)]
        BY <1>1, <2>1, <3>1, Zenon
      <4>2. \A c \in DOMAIN confidential_harts[v] : F(c) \in Queues /\ Len(F(c)) <= MaxRequests
        BY <1>1, <2>2, <2>4, Zenon
      <4> HIDE DEF F
      <4> QED
        BY <3>1, <4>1, <4>2, Zenon
    <3>2. CASE u # v
      BY <2>1, <3>2, Zenon DEF IInv, TypeOK, QueueTypes
    <3> QED
      BY <3>1, <3>2, Zenon
  <2> QED
    BY <1>3, <2>3, <2>5, Zenon DEF QueueTypes
<1>7. HardwareHartTypes'
  <2>1. ipi' \in [HardwareHarts -> BOOLEAN]
    BY Zenon DEF Deliver
  <2> QED
    BY <2>1, AssignedFacts, Zenon DEF GoTo, IInv, TypeOK, HardwareHartTypes
<1>8. TokensStay
  <2>1. \A g \in HardwareHarts : hardware_hart'[g] = IF g = h THEN hart ELSE hardware_hart[g]
    BY Zenon DEF IInv, TypeOK, HardwareHartTypes
  <2>2. \A g \in HardwareHarts : pc'[g] \in ConfidentialFlow <=> pc[g] \in ConfidentialFlow
    BY Zenon DEF GoTo, IInv, TypeOK, HardwareHartTypes
  <2>3. Assigned(h)
    BY Zenon DEF IInv, FlowGuarantee
  <2> QED
    BY <1>3, <1>4, <2>1, <2>2, <2>3, Zenon DEF TokensStay, SameToken, IInv, TypeOK, HardwareHartTypes
<1> QED
  BY <1>5, <1>6, <1>7, <1>8, TokensStayLemma, Zenon DEF TypeOK

-----------------------------------------------------------------------------
(* Every step preserves the inductive invariant                            *)

\* Leaving to the hypervisor, whatever the handler did to its token.
LEMMA LeaveLemma ==
    ASSUME IInv, NEW h \in HardwareHarts, pc[h] \in ConfidentialFlow,
           NEW hart, SameToken(hart, hardware_hart[h]),
           \/ into_non_confidential_flow(h, hart, "hypervisor")
           \/ exit_to_confidential_hart(h, hart)
    PROVE  IInv'
<1>1. CASE into_non_confidential_flow(h, hart, "hypervisor")
  <2>1. removing' \in [HardwareHarts -> VmIds \cup {NoVm}]
    BY <1>1, Zenon DEF into_non_confidential_flow, IInv, TypeOK, HardwareHartTypes
  <2> QED
    BY <1>1, <2>1, ReturnLemma, Zenon DEF into_non_confidential_flow, NonConfidentialFlow
<1>2. CASE exit_to_confidential_hart(h, hart)
  <2>1. QueueTypes'
    BY <1>2, Zenon DEF exit_to_confidential_hart, IInv, TypeOK, QueueTypes
  <2> QED
    BY <1>2, <2>1, OwnTokenLemma, Zenon DEF exit_to_confidential_hart, ConfidentialFlow
<1> QED
  BY <1>1, <1>2, Zenon

\* A request to the hypervisor, accepted or refused.
LEMMA RequestLemma ==
    ASSUME IInv, NEW h \in HardwareHarts, pc[h] \in ConfidentialFlow,
           NEW hart, SameToken(hart, hardware_hart[h]),
           NEW request \in PendingRequest,
           request_from_hypervisor(h, hart, request)
    PROVE  IInv'
<1>1. hart \in Hart
  BY Zenon DEF SameToken
<1>2. /\ SameToken(set_pending_request(hart, request), hart)
      /\ SameToken(apply_result(hart), hart)
  BY <1>1, TransformationsKeepToken, Zenon
<1>3. /\ SameToken(set_pending_request(hart, request), hardware_hart[h])
      /\ SameToken(apply_result(hart), hardware_hart[h])
  BY <1>2, Zenon DEF SameToken
<1> QED
  BY <1>3, LeaveLemma, Zenon DEF request_from_hypervisor

\* Draining the queue of the hart that a hardware hart holds.
LEMMA ProcessLemma ==
    ASSUME IInv, NEW h \in HardwareHarts, pc[h] \in ConfidentialFlow,
           NEW hart, SameToken(hart, hardware_hart[h]),
           process_inter_hart_requests(h, hart),
           NEW label \in ConfidentialFlow, GoTo(h, label)
    PROVE  IInv'
<1> DEFINE v == hart.confidential_vm_id
           c == hart.confidential_hart_id
<1>1. /\ v \in VmIds /\ c \in DOMAIN confidential_harts[v]
      /\ DOMAIN inter_hart_requests[v] = DOMAIN confidential_harts[v]
  BY AssignedFacts, Zenon
<1>2. /\ inter_hart_requests' = [inter_hart_requests EXCEPT ![v][c] = <<>>]
      /\ confidential_harts' = confidential_harts
  BY Zenon DEF process_inter_hart_requests
<1> HIDE DEF v, c
<1>3. QueueTypes'
  <2>1. << >> \in Queues /\ Len(<< >>) <= MaxRequests
    BY ParametersAssumption DEF Queues
  <2>2. \A u \in VmIds : \A d \in DOMAIN confidential_harts[u] :
           inter_hart_requests'[u][d] = IF u = v /\ d = c THEN <<>> ELSE inter_hart_requests[u][d]
    BY <1>1, <1>2, Zenon DEF IInv, TypeOK, QueueTypes
  <2>3. \A u \in VmIds : inter_hart_requests'[u] \in [DOMAIN confidential_harts[u] -> Queues]
    BY <1>1, <1>2, <2>1, Zenon DEF IInv, TypeOK, QueueTypes
  <2> QED
    BY <1>2, <2>1, <2>2, <2>3, Zenon DEF IInv, TypeOK, QueueTypes
<1> QED
  BY <1>3, OwnTokenLemma, Zenon DEF process_inter_hart_requests

\* The broadcasts of sbi_ipi.rs, the remote fences and sbi_srst.rs.
LEMMA BroadcastLemma ==
    ASSUME IInv, NEW h \in HardwareHarts, pc[h] \in ConfidentialFlow,
           NEW v, v = hardware_hart[h].confidential_vm_id,
           NEW request \in InterHartRequest, NEW selected,
           \/ broadcast_succeeds(v, request, selected)
           \/ broadcast_fails(v, request, selected),
           NEW hart, SameToken(hart, hardware_hart[h]),
           hardware_hart' = [hardware_hart EXCEPT ![h] = hart],
           NEW label \in ConfidentialFlow, GoTo(h, label),
           UNCHANGED <<confidential_vms, removing, hgatp>>
    PROVE  IInv'
<1>1. v \in confidential_vms
  BY Zenon DEF IInv, FlowGuarantee
<1>2. \E reached, notified : /\ \A c \in reached : HasRoom(v, c)
                             /\ Deliver(v, request, reached, notified)
  <2>1. CASE broadcast_succeeds(v, request, selected)
    BY <2>1, Zenon DEF broadcast_succeeds
  <2>2. CASE broadcast_fails(v, request, selected)
    <3>1. PICK failed \in selected :
             LET served == {c \in selected : c < failed} IN
             /\ \A c \in served : HasRoom(v, c)
             /\ \/ Deliver(v, request, served, served)
                \/ HasRoom(v, failed) /\ Deliver(v, request, served \cup {failed}, served)
      BY <2>2, Zenon DEF broadcast_fails
    <3> DEFINE served == {c \in selected : c < failed}
    <3>2. CASE Deliver(v, request, served, served)
      BY <3>1, <3>2, Zenon
    <3>3. CASE HasRoom(v, failed) /\ Deliver(v, request, served \cup {failed}, served)
      <4>1. \A c \in served \cup {failed} : HasRoom(v, c)
        BY <3>1, <3>3, Zenon
      <4> QED
        BY <3>3, <4>1, Zenon
    <3> QED
      BY <3>1, <3>2, <3>3, Zenon
  <2> QED
    BY <2>1, <2>2, Zenon
<1>3. PICK reached, notified : /\ \A c \in reached : HasRoom(v, c)
                               /\ Deliver(v, request, reached, notified)
  BY <1>2, Zenon
<1> QED
  BY <1>1, <1>3, DeliverLemma, Zenon

\* Every critical section of a hardware hart in the confidential flow.
LEMMA ConfidentialStepLemma ==
    ASSUME IInv, NEW h \in HardwareHarts, ConfidentialStep(h)
    PROVE  IInv'
<1> DEFINE hart == hardware_hart[h]
           v == hart.confidential_vm_id
<1>1. hart \in Hart
  BY Zenon DEF IInv, TypeOK, HardwareHartTypes
<1>2. ASSUME NEW next, SameToken(next, hart), NEW further, SameToken(further, next)
      PROVE  SameToken(further, hart)
  BY <1>2, Zenon DEF SameToken
<1>3. /\ SameToken(hart, hart)
      /\ SameToken(Trapped(h), hart)
      /\ SameToken(TrappedOnInstruction(hart), hart)
      /\ SameToken(TrappedBetweenInstructions(hart), hart)
      /\ SameToken(AnsweredAtOnce(hart), hart)
      /\ SameToken(transition_to_shutdown(hart), hart)
      /\ SameToken(transition_from_started_to_stopped(Trapped(h)), hart)
      /\ SameToken(transition_from_started_to_suspended(Trapped(h)), hart)
      /\ SameToken(Drained(h), hart)
      /\ SameToken(apply_pending(Drained(h)), hart)
      /\ SameToken(set_pending_request(Drained(h), "None"), hart)
      /\ SameToken(apply_result(hart), hart)
  <2>1. SameToken(Trapped(h), hart) /\ SameToken(Drained(h), hart)
    BY <1>1, TransformationsKeepToken, Zenon DEF Trapped, Drained
  <2>2. Trapped(h) \in Hart /\ Drained(h) \in Hart
    BY <2>1, Zenon DEF SameToken
  <2>3. /\ SameToken(transition_from_started_to_stopped(Trapped(h)), Trapped(h))
        /\ SameToken(transition_from_started_to_suspended(Trapped(h)), Trapped(h))
        /\ SameToken(apply_pending(Drained(h)), Drained(h))
        /\ SameToken(set_pending_request(Drained(h), "None"), Drained(h))
    BY <2>2, TransformationsKeepToken, Zenon
  <2> QED
    BY <1>1, <1>2, <2>1, <2>3, TransformationsKeepToken, Zenon
<1>4. \A trap : Trap(h, trap) => pc[h] \in ConfidentialFlow
  BY Zenon DEF Trap, ConfidentialFlow
<1>5. {"guest", "share_page_result", "interrupt", "preempted", "hart_started", "shutdown", "panic"} \subseteq ConfidentialFlow
  BY Zenon DEF ConfidentialFlow
<1>6. PendingRequest = {"SharePage", "GuestLoadPageFault", "GuestStorePageFault",
                        "SbiHsmHartStart", "SbiHsmHartStartPending", "SbiRequest"}
  BY Zenon DEF PendingRequest
<1> HIDE DEF hart, v
<1>7. CASE interrupt(h)
  <2>1. QueueTypes'
    BY <1>7, Zenon DEF interrupt, IInv, TypeOK, QueueTypes
  <2>2. PICK label \in {"interrupt", "preempted"} : GoTo(h, label)
    BY <1>7, Zenon DEF interrupt
  <2> QED
    BY <1>3, <1>4, <1>5, <1>7, <2>1, <2>2, OwnTokenLemma, Zenon DEF interrupt, hart
<1>8. CASE interrupt_process(h)
  BY <1>3, <1>5, <1>8, ProcessLemma, SMTT(30) DEF interrupt_process, hart
<1>9. CASE interrupt_exit(h)
  BY <1>3, <1>5, <1>9, LeaveLemma, SMTT(30) DEF interrupt_exit, hart
<1>answer. ASSUME NEW trap, Trap(h, trap), answer(h)
       PROVE  IInv'
  BY <1>3, <1>4, <1>answer, LeaveLemma, SMTT(30) DEF answer, hart
<1>request. ASSUME NEW trap, Trap(h, trap), NEW request \in PendingRequest,
              request_from_hypervisor(h, Trapped(h), request)
       PROVE  IInv'
  BY <1>3, <1>4, <1>request, RequestLemma, Zenon DEF hart
<1>panic. ASSUME NEW trap, Trap(h, trap), panic(h)
       PROVE  IInv'
  <2>1. QueueTypes'
    BY <1>panic, Zenon DEF panic, IInv, TypeOK, QueueTypes
  <2>2. hardware_hart' = [hardware_hart EXCEPT ![h] = hart]
    BY <1>panic, Zenon DEF panic, IInv, TypeOK, HardwareHartTypes, hart
  <2> QED
    BY <1>3, <1>4, <1>5, <1>panic, <2>1, <2>2, OwnTokenLemma, Zenon DEF panic, hart
<1>fault. ASSUME NEW trap, Trap(h, trap), NEW request \in PendingRequest, page_fault(h, request)
       PROVE  IInv'
  BY <1>3, <1>4, <1>request, <1>fault, LeaveLemma, Zenon DEF page_fault, hart
<1>10. CASE hypercall(h) \/ share_page(h) \/ unshare_page(h) \/ implicit_page_fault(h)
  BY <1>6, <1>answer, <1>request, <1>panic, <1>10, Zenon DEF hypercall, share_page, unshare_page, implicit_page_fault
<1>11. CASE guest_load_page_fault(h) \/ guest_store_page_fault(h)
  BY <1>6, <1>fault, <1>11, Zenon DEF guest_load_page_fault, guest_store_page_fault
<1>12. CASE \/ sbi_probe_extension(h)
            \/ sbi_rfence_nop(h)
            \/ sbi_hsm_hart_status(h)
            \/ invalid_call(h)
            \/ virtual_instruction_request(h)
            \/ unrouted_trap(h)
  BY <1>answer, <1>panic, <1>12, SMTT(30) DEF sbi_probe_extension, sbi_rfence_nop, sbi_hsm_hart_status, invalid_call,
     virtual_instruction_request, unrouted_trap
<1>13. CASE sbi_ipi(h)
  <2>1. PICK request \in {"SbiIpi", "SbiRemoteFence"},
             selected \in SUBSET DOMAIN confidential_harts[hardware_hart[h].confidential_vm_id] :
           /\ pc[h] = "guest"
           /\ \/ broadcast_succeeds(hardware_hart[h].confidential_vm_id, request, selected)
              \/ broadcast_fails(hardware_hart[h].confidential_vm_id, request, selected)
    BY <1>13, Zenon DEF sbi_ipi, Trap
  <2>2. /\ hardware_hart' = [hardware_hart EXCEPT ![h] = AnsweredAtOnce(hart)]
        /\ UNCHANGED <<confidential_vms, removing, hgatp>>
    BY <1>13, Zenon DEF sbi_ipi, hart
  <2>3. GoTo(h, "guest")
    BY <1>13, <2>1, Zenon DEF sbi_ipi, GoTo, IInv, TypeOK, HardwareHartTypes
  <2>4. request \in InterHartRequest
    BY Zenon DEF InterHartRequest
  <2> QED
    BY <1>3, <1>5, <2>1, <2>2, <2>3, <2>4, BroadcastLemma, Zenon DEF hart
<1>14. ASSUME NEW target \in HartIds, sbi_hsm_hart_start(h, target)
       PROVE  IInv'
  <2>1. CASE answer(h)
    BY <1>answer, <1>14, <2>1, Zenon DEF sbi_hsm_hart_start
  <2>2. CASE ~ answer(h)
    <3> DEFINE started == transition_from_stopped_to_start_pending(confidential_harts[v][target])
    <3>1. /\ pc[h] = "guest"
          /\ target \in DOMAIN confidential_harts[v]
          /\ ~ is_dummy(confidential_harts[v][target])
          /\ confidential_harts' = [confidential_harts EXCEPT ![v][target] = started]
          /\ hardware_hart' = [hardware_hart EXCEPT ![h] = TrappedOnInstruction(hart)]
          /\ GoTo(h, "hart_started")
          /\ UNCHANGED <<confidential_vms, inter_hart_requests, removing, hgatp, ipi>>
      BY <1>14, <2>2, Zenon DEF sbi_hsm_hart_start, Trap, hart, v
    <3>2. v \in VmIds /\ Assigned(h)
      BY <3>1, <1>5, Zenon DEF IInv, FlowGuarantee, TypeOK, ControlDataTypes, v, hart
    <3>3. SameToken(started, confidential_harts[v][target])
      <4>1. confidential_harts[v][target] \in Hart
        BY <3>1, <3>2, Zenon DEF IInv, TypeOK, ControlDataTypes
      <4> QED
        BY <4>1, TransformationsKeepToken, Zenon
    <3>4. started \in Hart
      BY <3>3, Zenon DEF SameToken
    <3> HIDE DEF started
    <3>5. \A u \in VmIds : /\ DOMAIN confidential_harts'[u] = DOMAIN confidential_harts[u]
                           /\ \A c \in DOMAIN confidential_harts[u] :
                                confidential_harts'[u][c]
                                   = IF u = v /\ c = target THEN started ELSE confidential_harts[u][c]
      BY <3>1, <3>2, Zenon DEF IInv, TypeOK, ControlDataTypes
    <3>6. TypeOK'
      <4>1. ControlDataTypes'
        BY <3>1, <3>2, <3>4, Zenon DEF IInv, TypeOK, ControlDataTypes
      <4>2. QueueTypes'
        BY <3>1, <3>5, Zenon DEF IInv, TypeOK, QueueTypes
      <4>3. HardwareHartTypes'
        <5>1. TrappedOnInstruction(hart) \in Hart
          BY <1>3, Zenon DEF SameToken
        <5> QED
          BY <1>5, <3>1, <5>1, Zenon DEF GoTo, IInv, TypeOK, HardwareHartTypes
      <4> QED
        BY <4>1, <4>2, <4>3, Zenon DEF TypeOK
    <3>7. TokensStay
      <4>1. \A u \in VmIds : \A c \in DOMAIN confidential_harts[u] :
               IF is_dummy(confidential_harts[u][c])
               THEN confidential_harts'[u][c] = confidential_harts[u][c]
               ELSE SameToken(confidential_harts'[u][c], confidential_harts[u][c])
        BY <3>1, <3>3, <3>5 DEF SameToken, IInv, TypeOK, ControlDataTypes
      <4>2. \A g \in HardwareHarts : /\ hardware_hart'[g] = IF g = h THEN TrappedOnInstruction(hart) ELSE hardware_hart[g]
                                     /\ hardware_hart[g] \in Hart
        BY <3>1, SMTT(30) DEF IInv, TypeOK, HardwareHartTypes
      <4>3. \A g \in HardwareHarts :
               IF Assigned(g)
               THEN SameToken(hardware_hart'[g], hardware_hart[g])
               ELSE hardware_hart'[g] = hardware_hart[g]
        BY <1>3, <3>2, <4>2, Zenon DEF SameToken, hart
      <4>4. \A g \in HardwareHarts : pc'[g] \in ConfidentialFlow <=> pc[g] \in ConfidentialFlow
        BY <1>5, <3>1, Zenon DEF GoTo, IInv, TypeOK, HardwareHartTypes
      <4> QED
        BY <3>1, <3>5, <4>1, <4>3, <4>4, Zenon DEF TokensStay
    <3> QED
      BY <3>6, <3>7, TokensStayLemma, Zenon
  <2> QED
    BY <2>1, <2>2, Zenon
<1>15. CASE sbi_hsm_hart_start_exit(h)
  BY <1>3, <1>5, <1>6, <1>15, RequestLemma, SMTT(30) DEF sbi_hsm_hart_start_exit, hart
<1>16. CASE sbi_hsm_hart_stop(h)
  BY <1>3, <1>4, <1>answer, <1>16, LeaveLemma, SMTT(30) DEF sbi_hsm_hart_stop, hart
<1>17. CASE sbi_hsm_hart_suspend(h)
  BY <1>3, <1>4, <1>answer, <1>17, LeaveLemma, Zenon DEF sbi_hsm_hart_suspend, hart
<1>18. CASE sbi_srst(h)
  <2> DEFINE others == DOMAIN confidential_harts[v] \ {hart.confidential_hart_id}
  <2>1. /\ pc[h] = "guest"
        /\ UNCHANGED <<confidential_vms, removing, hgatp>>
        /\ \/ /\ broadcast_succeeds(v, "SbiSrstSystemReset", others)
              /\ hardware_hart' = [hardware_hart EXCEPT ![h] = TrappedOnInstruction(hart)]
              /\ GoTo(h, "shutdown")
           \/ /\ broadcast_fails(v, "SbiSrstSystemReset", others)
              /\ hardware_hart' = [hardware_hart EXCEPT ![h] = AnsweredAtOnce(hart)]
              /\ UNCHANGED pc
    BY <1>18, Zenon DEF sbi_srst, Trap, hart, v
  <2>2. UNCHANGED pc => GoTo(h, "guest")
    BY <2>1, Zenon DEF GoTo, IInv, TypeOK, HardwareHartTypes
  <2>3. "SbiSrstSystemReset" \in InterHartRequest
    BY SMTT(30) DEF InterHartRequest
  <2> HIDE DEF others
  <2> QED
    BY <1>3, <1>5, <2>1, <2>2, <2>3, BroadcastLemma, Zenon DEF v, hart
<1>19. CASE shutdown_confidential_hart(h)
  <2>1. removing' \in [HardwareHarts -> VmIds \cup {NoVm}]
    BY <1>1, <1>19, SMTT(30) DEF shutdown_confidential_hart, IInv, TypeOK, HardwareHartTypes, Hart, hart
  <2> QED
    BY <1>3, <1>5, <1>19, <2>1, ReturnLemma, Zenon DEF shutdown_confidential_hart, NonConfidentialFlow, hart
<1>20. CASE shutdown_remove(h)
  <2>1. removing[h] \in VmIds \cup {NoVm}
    BY Zenon DEF IInv, TypeOK, HardwareHartTypes
  <2>2. HardwareHartTypes'
    BY <1>20, Zenon DEF shutdown_remove, GoTo, NonConfidentialFlow, IInv, TypeOK, HardwareHartTypes
  <2>3. \A g \in HardwareHarts : pc'[g] \in ConfidentialFlow <=> pc[g] \in ConfidentialFlow
    BY <1>20, Zenon DEF shutdown_remove, GoTo, ConfidentialFlow, IInv, TypeOK, HardwareHartTypes
  <2> QED
    BY <1>20, <2>1, <2>2, <2>3, RemoveLemma, Zenon DEF shutdown_remove
<1>21. CASE share_page_result(h)
  BY <1>3, <1>5, <1>21, LeaveLemma, SMTT(30) DEF share_page_result, hart
<1>22. CASE resume_confidential_hart_execution(h)
  <2>1. pc[h] \in ConfidentialFlow
    BY <1>22, Zenon DEF resume_confidential_hart_execution, ConfidentialFlow
  <2> QED
    BY <1>3, <1>5, <1>22, <2>1, ProcessLemma, Zenon DEF resume_confidential_hart_execution, hart
<1> QED
  BY <1>7, <1>8, <1>9, <1>10, <1>11, <1>12, <1>13, <1>14, <1>15, <1>16, <1>17, <1>18, <1>19,
     <1>20, <1>21, <1>22, Zenon DEF ConfidentialStep

\* Every call of the hypervisor.
LEMMA HypervisorStepLemma ==
    ASSUME IInv, NEW h \in HardwareHarts, HypervisorStep(h)
    PROVE  IInv'
<1>1. ASSUME NEW v \in VmIds, terminate_confidential_vm(h, v)
      PROVE  IInv'
  <2>1. HardwareHartTypes' /\ pc' = pc
    BY <1>1, Zenon DEF terminate_confidential_vm, IInv, TypeOK, HardwareHartTypes
  <2> QED
    BY <1>1, <2>1, RemoveLemma, Zenon DEF terminate_confidential_vm
<1>2. CASE delegate_to_opensbi(h)
  <2>1. TypeOK'
    BY <1>2, Zenon DEF delegate_to_opensbi, IInv, TypeOK, ControlDataTypes, QueueTypes, HardwareHartTypes
  <2>2. TokensStay
    BY <1>2, Zenon DEF delegate_to_opensbi, TokensStay, SameToken, IInv, TypeOK, ControlDataTypes, HardwareHartTypes
  <2> QED
    BY <2>1, <2>2, TokensStayLemma, SMTT(30)
<1> QED
  BY <1>1, <1>2, StealLemma, PromoteLemma, Zenon DEF HypervisorStep

\* The inductive invariant holds in every reachable state.
THEOREM InductiveInvariant == Spec => []IInv
<1>1. Init => IInv
  <2> SUFFICES ASSUME Init PROVE IInv
    BY Zenon
  <2>1. DOMAIN << >> = {} /\ << >> \in [{} -> Hart] /\ << >> \in [{} -> Queues]
    OBVIOUS
  <2>2. TypeOK
    BY <2>1, DummiesAreHarts, Zenon DEF Init, TypeOK, ControlDataTypes, QueueTypes, HardwareHartTypes, NonConfidentialFlow
  <2>3. HartTokensAreUnique
    BY <2>1, DummiesAreHarts, Zenon DEF Init, HartTokensAreUnique, AssignedTokensLeaveDummies, SlotsHoldTheirTokens, Assigned
  <2>4. FlowGuarantee
    BY Zenon DEF Init, FlowGuarantee, ConfidentialFlow
  <2> QED
    BY <2>2, <2>3, <2>4, Zenon DEF IInv
<1>2. IInv /\ [Next]_vars => IInv'
  <2> SUFFICES ASSUME IInv, [Next]_vars PROVE IInv'
    BY Zenon
  <2>1. CASE Next
    BY <2>1, ConfidentialStepLemma, HypervisorStepLemma, Zenon DEF Next
  <2>2. CASE UNCHANGED vars
    <3>1. TypeOK'
      BY <2>2, Zenon DEF vars, IInv, TypeOK, ControlDataTypes, QueueTypes, HardwareHartTypes
    <3>2. HartTokensAreUnique'
      BY <2>2 DEF vars, IInv, HartTokensAreUnique, AssignedTokensLeaveDummies, SlotsHoldTheirTokens, Assigned
    <3>3. FlowGuarantee'
      BY <2>2, Zenon DEF vars, IInv, FlowGuarantee, Assigned
    <3> QED
      BY <3>1, <3>2, <3>3, SMTT(30) DEF IInv
  <2> QED
    BY <2>1, <2>2, Zenon
<1> QED
  BY <1>1, <1>2, PTL DEF Spec

\* The state always has its types and no queue of requests overflows.
THEOREM TypeCorrectness == Spec => []TypeOK
<1>1. IInv => TypeOK
  BY Zenon DEF IInv
<1> QED
  BY <1>1, InductiveInvariant, PTL

\* Every hart token is in one place: no hart runs on two hardware harts.
THEOREM TokenUniqueness == Spec => []HartTokensAreUnique
<1>1. IInv => HartTokensAreUnique
  BY Zenon DEF IInv
<1> QED
  BY <1>1, InductiveInvariant, PTL

\* The asserts of ConfidentialFlow::create and NonConfidentialFlow::create and
\* the unwraps on the control data never fail, and the memory protection in
\* force is that of the flow.
THEOREM FlowSafety == Spec => []FlowGuarantee
<1>1. IInv => FlowGuarantee
  BY Zenon DEF IInv
<1> QED
  BY <1>1, InductiveInvariant, PTL

\* A VM leaves the control data only through remove_confidential_vm, which
\* finds all of its harts in their slots and shut down.
THEOREM RemovalSafety == Spec => OnlyDeadVmsAreRemoved
<1> DEFINE Removal == \A v \in confidential_vms \ confidential_vms' :
                         /\ \A h \in HardwareHarts : hardware_hart[h].confidential_vm_id # v
                         /\ \A c \in DOMAIN confidential_harts[v] : Lifecycle(v, c) = "Shutdown"
<1>1. ASSUME IInv, NEW v \in VmIds \cup {NoVm}, remove_confidential_vm(v)
      PROVE  Removal
  <2> SUFFICES ASSUME NEW u \in confidential_vms \ confidential_vms'
               PROVE  /\ \A h \in HardwareHarts : hardware_hart[h].confidential_vm_id # u
                      /\ \A c \in DOMAIN confidential_harts[u] : Lifecycle(u, c) = "Shutdown"
    BY Zenon
  <2>1. u = v /\ v \in confidential_vms /\ are_all_harts_shutdown(v) /\ v \in VmIds
    BY <1>1, Zenon DEF remove_confidential_vm, IInv, TypeOK, ControlDataTypes
  <2>2. \A h \in HardwareHarts : hardware_hart[h].confidential_vm_id # v
    BY <1>1, <2>1, RemovableVmsAreUnassigned, Zenon
  <2>3. \A c \in DOMAIN confidential_harts[v] : /\ confidential_harts[v][c].lifecycle_state = "Shutdown"
                                                /\ ~ is_dummy(confidential_harts[v][c])
    BY <1>1, <2>1, DummiesAreHarts, Zenon DEF are_all_harts_shutdown, IInv, HartTokensAreUnique, SlotsHoldTheirTokens
  <2> QED
    BY <2>1, <2>2, <2>3, Zenon DEF Lifecycle
<1>2. ASSUME NEW h \in HardwareHarts, ConfidentialStep(h) \/ HypervisorStep(h)
      PROVE  \/ confidential_vms \subseteq confidential_vms'
             \/ shutdown_remove(h)
             \/ \E v \in VmIds : terminate_confidential_vm(h, v)
  <2>1. CASE ConfidentialStep(h)
    <3> DEFINE Stay == confidential_vms \subseteq confidential_vms'
    <3>1. /\ answer(h) => Stay
          /\ panic(h) => Stay
          /\ \A hart, request : request_from_hypervisor(h, hart, request) => Stay
          /\ \A hart, label : into_non_confidential_flow(h, hart, label) => Stay
      BY SMTT(30) DEF answer, panic, request_from_hypervisor, into_non_confidential_flow, exit_to_confidential_hart
    <3>2. CASE \/ interrupt(h) \/ interrupt_process(h) \/ interrupt_exit(h) \/ sbi_ipi(h)
               \/ resume_confidential_hart_execution(h) \/ share_page_result(h)
      BY <3>1, <3>2, Zenon DEF interrupt, interrupt_process, interrupt_exit, sbi_ipi, process_inter_hart_requests,
         resume_confidential_hart_execution, share_page_result, exit_to_confidential_hart
    <3>3. CASE \/ hypercall(h) \/ share_page(h) \/ unshare_page(h) \/ guest_load_page_fault(h)
               \/ guest_store_page_fault(h) \/ implicit_page_fault(h) \/ sbi_probe_extension(h) \/ sbi_rfence_nop(h)
               \/ sbi_hsm_hart_status(h) \/ invalid_call(h) \/ virtual_instruction_request(h) \/ unrouted_trap(h)
      BY <3>1, <3>3, SMTT(30) DEF hypercall, share_page, unshare_page, guest_load_page_fault, guest_store_page_fault,
         implicit_page_fault, page_fault, sbi_probe_extension, sbi_rfence_nop, sbi_hsm_hart_status, invalid_call,
         virtual_instruction_request, unrouted_trap
    <3>4. CASE \/ \E target \in HartIds : sbi_hsm_hart_start(h, target)
               \/ sbi_hsm_hart_start_exit(h) \/ sbi_hsm_hart_stop(h) \/ sbi_hsm_hart_suspend(h)
               \/ sbi_srst(h) \/ shutdown_confidential_hart(h)
      BY <3>1, <3>4, Zenon DEF sbi_hsm_hart_start, sbi_hsm_hart_start_exit, sbi_hsm_hart_stop, sbi_hsm_hart_suspend,
         sbi_srst, shutdown_confidential_hart
    <3> QED
      BY <2>1, <3>2, <3>3, <3>4, Zenon DEF ConfidentialStep
  <2>2. CASE HypervisorStep(h)
    BY <2>2, Zenon DEF HypervisorStep, promote_to_confidential_vm, insert_confidential_vm, resume_confidential_hart,
       delegate_to_opensbi
  <2> QED
    BY <1>2, <2>1, <2>2, Zenon
<1>3. ASSUME IInv, [Next]_vars
      PROVE  [Removal]_vars
  <2>1. CASE UNCHANGED vars
    BY <2>1, Zenon
  <2>2. CASE Next
    <3>1. PICK h \in HardwareHarts : ConfidentialStep(h) \/ HypervisorStep(h)
      BY <2>2, Zenon DEF Next
    <3>2. CASE confidential_vms \subseteq confidential_vms'
      BY <3>2, Zenon
    <3>3. CASE shutdown_remove(h)
      <4>1. removing[h] \in VmIds \cup {NoVm}
        BY <1>3, Zenon DEF IInv, TypeOK, HardwareHartTypes
      <4> HIDE DEF Removal
      <4> QED
        BY <1>1, <1>3, <3>3, <4>1, Zenon DEF shutdown_remove
    <3>4. CASE \E v \in VmIds : terminate_confidential_vm(h, v)
      <4> HIDE DEF Removal
      <4> QED
        BY <1>1, <1>3, <3>4, Zenon DEF terminate_confidential_vm
    <3> QED
      BY <1>2, <3>1, <3>2, <3>3, <3>4, Zenon
  <2> QED
    BY <1>3, <2>1, <2>2, Zenon
<1> QED
  BY <1>3, InductiveInvariant, PTL DEF Spec, OnlyDeadVmsAreRemoved

(***************************************************************************)
(* A request queued for a hart that runs is announced to the hardware hart *)
(* that runs it, for any number of hardware harts, VMs and confidential    *)
(* harts.  The invariant is inductive over the one above:                  *)
(* the sender reads the hardware hart from the dummy in the target's slot, *)
(* so the IPI goes where the token is because every dummy names the holder *)
(* of the token.                                                           *)
(***************************************************************************)

\* Positions from which the queue is not drained before the guest runs again.
Late == ConfidentialFlow \ {"resume"}

\* The queue of the hart assigned to g.
QueueOf(g) ==
    inter_hart_requests[hardware_hart[g].confidential_vm_id][hardware_hart[g].confidential_hart_id]

\* A step that leaves every queue of a running hart as it is, empties it, or announces it.
LEMMA AnnouncedStep ==
    ASSUME QueuedRequestsAreAnnounced,
           \A g \in HardwareHarts : pc'[g] \in Late =>
               \/ ipi'[g]
               \/ QueueOf(g)' = <<>>
               \/ pc[g] \in Late /\ (ipi[g] => ipi'[g]) /\ QueueOf(g)' = QueueOf(g)
    PROVE  QueuedRequestsAreAnnounced'
BY Zenon DEF QueuedRequestsAreAnnounced, Late, QueueOf

\* Steps that touch no queue and clear no IPI.
LEMMA QueuesStay ==
    ASSUME IInv, QueuedRequestsAreAnnounced, NEW h \in HardwareHarts,
           NEW hart, hardware_hart' = [hardware_hart EXCEPT ![h] = hart],
           NEW label, GoTo(h, label),
           \/ label \notin Late
           \/ pc[h] \in Late /\ SameToken(hart, hardware_hart[h]),
           UNCHANGED <<inter_hart_requests, ipi>>
    PROVE  QueuedRequestsAreAnnounced'
<1>1. \A g \in HardwareHarts \ {h} : pc'[g] = pc[g] /\ hardware_hart'[g] = hardware_hart[g]
  BY Zenon DEF GoTo, IInv, TypeOK, HardwareHartTypes
<1>2. pc'[h] = label /\ hardware_hart'[h] = hart
  BY Zenon DEF GoTo, IInv, TypeOK, HardwareHartTypes
<1>3. \A g \in HardwareHarts : pc'[g] \in Late => pc[g] \in Late /\ QueueOf(g)' = QueueOf(g)
  BY <1>1, <1>2, Zenon DEF QueueOf, SameToken
<1> QED
  BY <1>3, AnnouncedStep, Zenon

\* Leaving the handler, whatever it did to its token.
LEMMA LeaveAnnounced ==
    ASSUME IInv, QueuedRequestsAreAnnounced, NEW h \in HardwareHarts, pc[h] \in Late,
           NEW hart, SameToken(hart, hardware_hart[h])
    PROVE  /\ into_non_confidential_flow(h, hart, "hypervisor") => QueuedRequestsAreAnnounced'
           /\ exit_to_confidential_hart(h, hart) => QueuedRequestsAreAnnounced'
           /\ \A request : request_from_hypervisor(h, hart, request) => QueuedRequestsAreAnnounced'
<1>1. "hypervisor" \notin Late
  BY Zenon DEF Late, ConfidentialFlow
<1>2. ASSUME NEW next, into_non_confidential_flow(h, next, "hypervisor")
      PROVE  QueuedRequestsAreAnnounced'
  BY <1>1, <1>2, QueuesStay, Zenon DEF into_non_confidential_flow, return_confidential_hart
<1>3. ASSUME NEW next, SameToken(next, hardware_hart[h]), exit_to_confidential_hart(h, next)
      PROVE  QueuedRequestsAreAnnounced'
  BY <1>3, QueuesStay, Zenon DEF exit_to_confidential_hart
<1>4. SameToken(apply_result(hart), hardware_hart[h])
  <2>1. SameToken(apply_result(hart), hart)
    BY TransformationsKeepToken, Zenon DEF SameToken
  <2> QED
    BY <2>1, Zenon DEF SameToken
<1> QED
  BY <1>2, <1>3, <1>4, Zenon DEF request_from_hypervisor

\* Draining the queue of the hart that h holds.
LEMMA ProcessAnnounced ==
    ASSUME IInv, QueuedRequestsAreAnnounced, NEW h \in HardwareHarts, pc[h] \in ConfidentialFlow,
           NEW hart, SameToken(hart, hardware_hart[h]),
           process_inter_hart_requests(h, hart), NEW label, GoTo(h, label)
    PROVE  QueuedRequestsAreAnnounced'
<1> DEFINE v == hart.confidential_vm_id
           c == hart.confidential_hart_id
<1>1. v \in VmIds /\ c \in DOMAIN inter_hart_requests[v]
  BY AssignedFacts, Zenon
<1>2. /\ inter_hart_requests' = [inter_hart_requests EXCEPT ![v][c] = <<>>]
      /\ hardware_hart' = [hardware_hart EXCEPT ![h] = hart]
      /\ UNCHANGED ipi
  BY Zenon DEF process_inter_hart_requests
<1> HIDE DEF v, c
<1>3. inter_hart_requests'[v][c] = <<>>
  BY <1>1, <1>2, Zenon DEF IInv, TypeOK, QueueTypes
<1>4. \A u, d : u # v \/ d # c => inter_hart_requests'[u][d] = inter_hart_requests[u][d]
  BY <1>1, <1>2 DEF IInv, TypeOK, QueueTypes
<1>5. QueueOf(h)' = <<>>
  BY <1>2, <1>3, SMTT(30) DEF QueueOf, v, c, IInv, TypeOK, HardwareHartTypes
<1>6. ASSUME NEW g \in HardwareHarts \ {h}
      PROVE  /\ pc'[g] = pc[g]
             /\ QueueOf(g)' = <<>> \/ QueueOf(g)' = QueueOf(g)
  <2>1. pc'[g] = pc[g] /\ hardware_hart'[g] = hardware_hart[g]
    BY <1>2, SMTT(30) DEF GoTo, IInv, TypeOK, HardwareHartTypes
  <2> QED
    BY <1>3, <1>4, <2>1 DEF QueueOf
<1> QED
  BY <1>2, <1>5, <1>6, AnnouncedStep, SMTT(30)

\* A broadcast whose IPIs are all sent: the dummy in the slot of a target that runs
\* names the hardware hart that holds its token.
LEMMA DeliverAnnounced ==
    ASSUME IInv, QueuedRequestsAreAnnounced, NEW h \in HardwareHarts, pc[h] \in Late,
           NEW v \in confidential_vms, NEW request, NEW reached,
           Deliver(v, request, reached, reached),
           NEW hart, SameToken(hart, hardware_hart[h]),
           hardware_hart' = [hardware_hart EXCEPT ![h] = hart],
           NEW label, GoTo(h, label)
    PROVE  QueuedRequestsAreAnnounced'
<1>1. v \in VmIds
  BY Zenon DEF IInv, TypeOK, ControlDataTypes
<1> SUFFICES ASSUME NEW g \in HardwareHarts, pc'[g] \in Late
             PROVE  \/ ipi'[g]
                    \/ pc[g] \in Late /\ (ipi[g] => ipi'[g]) /\ QueueOf(g)' = QueueOf(g)
  BY AnnouncedStep, Zenon
<1>2. pc[g] \in Late
  BY Zenon DEF GoTo, IInv, TypeOK, HardwareHartTypes
<1> DEFINE u == hardware_hart[g].confidential_vm_id
           d == hardware_hart[g].confidential_hart_id
<1>3. hardware_hart'[g].confidential_vm_id = u /\ hardware_hart'[g].confidential_hart_id = d
  BY SMTT(30) DEF SameToken, IInv, TypeOK, HardwareHartTypes
<1>4. /\ u \in VmIds /\ d \in DOMAIN inter_hart_requests[u]
      /\ d \in DOMAIN confidential_harts[u] /\ confidential_harts[u][d] = dummy(g)
  <2>1. SameToken(hardware_hart[g], hardware_hart[g])
    BY Zenon DEF SameToken, IInv, TypeOK, HardwareHartTypes
  <2> QED
    BY <1>2, <2>1, AssignedFacts, Zenon DEF Late
<1>5. ipi[g] => ipi'[g]
  BY Zenon DEF Deliver
<1>6. CASE u = v /\ d \in reached
  <2>1. is_dummy(confidential_harts[v][d]) /\ confidential_harts[v][d].confidential_hart_id = g
    BY <1>4, <1>6, DummiesAreHarts, SMTT(30)
  <2> QED
    BY <1>6, <2>1, SMTT(30) DEF Deliver
<1>7. CASE ~ (u = v /\ d \in reached)
  <2> DEFINE F(c) == IF c \in reached /\ is_dummy(confidential_harts[v][c])
                     THEN Append(inter_hart_requests[v][c], request)
                     ELSE inter_hart_requests[v][c]
  <2>1. inter_hart_requests' = [inter_hart_requests EXCEPT ![v] = [c \in DOMAIN inter_hart_requests[v] |-> F(c)]]
    BY SMTT(30) DEF Deliver
  <2>2. d \notin reached => F(d) = inter_hart_requests[v][d]
    BY Zenon
  <2> HIDE DEF F, u, d
  <2>3. inter_hart_requests'[u][d] = inter_hart_requests[u][d]
    BY <1>1, <1>4, <1>7, <2>1, <2>2, Zenon DEF IInv, TypeOK, QueueTypes
  <2> QED
    BY <1>2, <1>3, <1>5, <2>3, Zenon DEF QueueOf, u, d
<1> QED
  BY <1>6, <1>7, SMTT(30)

\* Both outcomes of a broadcast, when no IPI is refused.
LEMMA BroadcastAnnounced ==
    ASSUME IpiMayFail = FALSE, IInv, QueuedRequestsAreAnnounced, NEW h \in HardwareHarts, pc[h] \in Late,
           NEW v, v = hardware_hart[h].confidential_vm_id, NEW request, NEW selected,
           \/ broadcast_succeeds(v, request, selected)
           \/ broadcast_fails(v, request, selected),
           NEW hart, SameToken(hart, hardware_hart[h]),
           hardware_hart' = [hardware_hart EXCEPT ![h] = hart],
           NEW label, GoTo(h, label)
    PROVE  QueuedRequestsAreAnnounced'
<1>1. v \in confidential_vms
  BY Zenon DEF IInv, FlowGuarantee, Late
<1>2. \E reached : Deliver(v, request, reached, reached)
  BY Zenon DEF broadcast_succeeds, broadcast_fails
<1> QED
  BY <1>1, <1>2, DeliverAnnounced, Zenon

\* Promotion and removal replace the queues of a VM that no hardware hart runs.
LEMMA ReplaceAnnounced ==
    ASSUME IInv, QueuedRequestsAreAnnounced, NEW v \in VmIds,
           \A g \in HardwareHarts : hardware_hart[g].confidential_vm_id # v,
           NEW queues, inter_hart_requests' = [inter_hart_requests EXCEPT ![v] = queues],
           \A g \in HardwareHarts : pc'[g] \in Late => pc[g] \in Late,
           UNCHANGED <<hardware_hart, ipi>>
    PROVE  QueuedRequestsAreAnnounced'
<1>1. \A g \in HardwareHarts : QueueOf(g)' = QueueOf(g)
  BY DEF QueueOf, IInv, TypeOK, QueueTypes
<1> QED
  BY <1>1, AnnouncedStep, Zenon

\* remove_confidential_vm, whether it removes the VM or refuses to.
LEMMA RemoveAnnounced ==
    ASSUME IInv, QueuedRequestsAreAnnounced, NEW v \in VmIds \cup {NoVm}, remove_confidential_vm(v),
           \A g \in HardwareHarts : pc'[g] \in Late => pc[g] \in Late,
           UNCHANGED <<hardware_hart, ipi>>
    PROVE  QueuedRequestsAreAnnounced'
<1>1. CASE v \in confidential_vms /\ are_all_harts_shutdown(v)
  <2>1. v \in VmIds /\ inter_hart_requests' = [inter_hart_requests EXCEPT ![v] = <<>>]
    BY <1>1, Zenon DEF remove_confidential_vm, IInv, TypeOK, ControlDataTypes
  <2>2. \A g \in HardwareHarts : hardware_hart[g].confidential_vm_id # v
    BY <1>1, <2>1, RemovableVmsAreUnassigned, Zenon
  <2> QED
    BY <2>1, <2>2, ReplaceAnnounced, Zenon
<1>2. CASE ~ (v \in confidential_vms /\ are_all_harts_shutdown(v))
  <2>1. UNCHANGED inter_hart_requests
    BY <1>2, Zenon DEF remove_confidential_vm
  <2> QED
    BY <2>1, AnnouncedStep, Zenon DEF QueueOf
<1> QED
  BY <1>1, <1>2, Zenon

\* Every critical section of a hardware hart in the confidential flow.
LEMMA ConfidentialStepAnnounced ==
    ASSUME IpiMayFail = FALSE, IInv, QueuedRequestsAreAnnounced,
           NEW h \in HardwareHarts, ConfidentialStep(h)
    PROVE  QueuedRequestsAreAnnounced'
<1> DEFINE hart == hardware_hart[h]
           v == hart.confidential_vm_id
           Kept == QueuedRequestsAreAnnounced'
<1>1. hart \in Hart
  BY SMTT(30) DEF IInv, TypeOK, HardwareHartTypes
<1>2. /\ SameToken(hart, hart)
      /\ SameToken(Trapped(h), hart)
      /\ SameToken(TrappedOnInstruction(hart), hart)
      /\ SameToken(TrappedBetweenInstructions(hart), hart)
      /\ SameToken(AnsweredAtOnce(hart), hart)
      /\ SameToken(apply_result(hart), hart)
      /\ SameToken(Drained(h), hart)
      /\ SameToken(transition_from_started_to_stopped(Trapped(h)), hart)
      /\ SameToken(transition_from_started_to_suspended(Trapped(h)), hart)
      /\ SameToken(apply_pending(Drained(h)), hart)
      /\ SameToken(set_pending_request(Drained(h), "None"), hart)
  <2>1. SameToken(Trapped(h), hart) /\ SameToken(Drained(h), hart)
    BY <1>1, TransformationsKeepToken, Zenon DEF Trapped, Drained
  <2>2. Trapped(h) \in Hart /\ Drained(h) \in Hart
    BY <2>1, Zenon DEF SameToken
  <2>3. /\ SameToken(transition_from_started_to_stopped(Trapped(h)), Trapped(h))
        /\ SameToken(transition_from_started_to_suspended(Trapped(h)), Trapped(h))
        /\ SameToken(apply_pending(Drained(h)), Drained(h))
        /\ SameToken(set_pending_request(Drained(h), "None"), Drained(h))
    BY <2>2, TransformationsKeepToken, Zenon
  <2>4. \A next, further : SameToken(next, hart) /\ SameToken(further, next) => SameToken(further, hart)
    BY Zenon DEF SameToken
  <2> QED
    BY <1>1, <2>1, <2>3, <2>4, TransformationsKeepToken, SMTT(30)
<1>3. /\ {"guest", "interrupt", "preempted", "hart_started", "share_page_result", "shutdown"} \subseteq Late
      /\ "hypervisor" \notin Late /\ "remove" \notin Late
      /\ Late \subseteq ConfidentialFlow
      /\ "resume" \in ConfidentialFlow
  BY Zenon DEF Late, ConfidentialFlow
<1>4. \A trap : Trap(h, trap) => pc[h] \in Late
  BY <1>3, SMTT(30) DEF Trap
<1> HIDE DEF hart, v, Kept
<1>5. ASSUME pc[h] \in Late
      PROVE  /\ answer(h) => Kept
             /\ panic(h) => Kept
             /\ \A request : /\ request_from_hypervisor(h, Trapped(h), request) => Kept
                             /\ page_fault(h, request) => Kept
  <2>1. panic(h) => Kept
    BY <1>5, AnnouncedStep, Zenon DEF panic, GoTo, QueueOf, IInv, TypeOK, HardwareHartTypes, Kept
  <2>2. /\ exit_to_confidential_hart(h, AnsweredAtOnce(hart)) => Kept
        /\ into_non_confidential_flow(h, TrappedBetweenInstructions(hart), "hypervisor") => Kept
        /\ \A request : request_from_hypervisor(h, Trapped(h), request) => Kept
    BY <1>2, <1>5, LeaveAnnounced, Zenon DEF hart, Kept
  <2>3. answer(h) => Kept
    BY <2>2, Zenon DEF answer, hart
  <2>4. ASSUME NEW request PROVE page_fault(h, request) => Kept
    BY <2>2, Zenon DEF page_fault, hart
  <2> QED
    BY <2>1, <2>2, <2>3, <2>4, Zenon
<1>6. CASE interrupt(h)
  <2>1. PICK label : GoTo(h, label)
    BY <1>6, Zenon DEF interrupt
  <2> QED
    BY <1>2, <1>4, <1>6, <2>1, QueuesStay, Zenon DEF interrupt, hart
<1>7. CASE interrupt_process(h) \/ resume_confidential_hart_execution(h)
  <2>1. pc[h] \in ConfidentialFlow
    BY <1>7, SMTT(30) DEF interrupt_process, resume_confidential_hart_execution, ConfidentialFlow
  <2> QED
    BY <1>2, <1>7, <2>1, ProcessAnnounced, Zenon DEF interrupt_process, resume_confidential_hart_execution, hart
<1>8. CASE interrupt_exit(h) \/ sbi_hsm_hart_start_exit(h) \/ share_page_result(h)
  BY <1>2, <1>3, <1>8, LeaveAnnounced, Zenon DEF interrupt_exit, sbi_hsm_hart_start_exit, share_page_result, hart
<1>9. CASE \/ hypercall(h) \/ share_page(h) \/ unshare_page(h) \/ guest_load_page_fault(h)
           \/ guest_store_page_fault(h) \/ implicit_page_fault(h) \/ sbi_probe_extension(h) \/ sbi_rfence_nop(h)
           \/ sbi_hsm_hart_status(h) \/ invalid_call(h) \/ virtual_instruction_request(h) \/ unrouted_trap(h)
  BY <1>4, <1>5, <1>9, SMTT(30) DEF hypercall, share_page, unshare_page, guest_load_page_fault, guest_store_page_fault,
     implicit_page_fault, sbi_probe_extension, sbi_rfence_nop, sbi_hsm_hart_status, invalid_call, virtual_instruction_request,
     unrouted_trap, Kept
<1>10. CASE sbi_hsm_hart_stop(h) \/ sbi_hsm_hart_suspend(h)
  BY <1>2, <1>4, <1>5, <1>10, LeaveAnnounced, Zenon DEF sbi_hsm_hart_stop, sbi_hsm_hart_suspend, hart, Kept
<1>11. CASE sbi_ipi(h)
  <2>1. PICK request, selected :
           /\ pc[h] = "guest"
           /\ \/ broadcast_succeeds(v, request, selected)
              \/ broadcast_fails(v, request, selected)
    BY <1>11, Zenon DEF sbi_ipi, Trap, v, hart
  <2>2. UNCHANGED pc => GoTo(h, "guest")
    BY <2>1, Zenon DEF GoTo, IInv, TypeOK, HardwareHartTypes
  <2>3. UNCHANGED pc
    BY <1>11, Zenon DEF sbi_ipi
  <2> QED
    BY <1>2, <1>3, <1>11, <2>1, <2>2, <2>3, BroadcastAnnounced, Zenon DEF sbi_ipi, hart, v
<1>12. CASE sbi_srst(h)
  <2> DEFINE others == DOMAIN confidential_harts[v] \ {hart.confidential_hart_id}
  <2>1. /\ pc[h] = "guest"
        /\ \/ /\ broadcast_succeeds(v, "SbiSrstSystemReset", others)
              /\ hardware_hart' = [hardware_hart EXCEPT ![h] = TrappedOnInstruction(hart)]
              /\ GoTo(h, "shutdown")
           \/ /\ broadcast_fails(v, "SbiSrstSystemReset", others)
              /\ hardware_hart' = [hardware_hart EXCEPT ![h] = AnsweredAtOnce(hart)]
              /\ UNCHANGED pc
    BY <1>12, Zenon DEF sbi_srst, Trap, hart, v
  <2>2. UNCHANGED pc => GoTo(h, "guest")
    BY <2>1, Zenon DEF GoTo, IInv, TypeOK, HardwareHartTypes
  <2> HIDE DEF others
  <2> QED
    BY <1>2, <1>3, <2>1, <2>2, BroadcastAnnounced, Zenon DEF hart, v
<1>13. ASSUME NEW target \in HartIds, sbi_hsm_hart_start(h, target)
       PROVE  Kept
  <2>1. CASE answer(h)
    BY <1>4, <1>5, <1>13, <2>1, SMTT(30) DEF sbi_hsm_hart_start
  <2>2. CASE ~ answer(h)
    BY <1>2, <1>4, <1>13, <2>2, QueuesStay, SMTT(30) DEF sbi_hsm_hart_start, hart, Kept
  <2> QED
    BY <2>1, <2>2, Zenon
<1>14. CASE shutdown_confidential_hart(h)
  BY <1>3, <1>14, QueuesStay, Zenon DEF shutdown_confidential_hart, return_confidential_hart
<1>15. CASE shutdown_remove(h)
  <2>1. removing[h] \in VmIds \cup {NoVm}
    BY Zenon DEF IInv, TypeOK, HardwareHartTypes
  <2>2. \A g \in HardwareHarts : pc'[g] \in Late => pc[g] \in Late
    BY <1>3, <1>15, Zenon DEF shutdown_remove, GoTo, IInv, TypeOK, HardwareHartTypes
  <2> QED
    BY <1>15, <2>1, <2>2, RemoveAnnounced, Zenon DEF shutdown_remove
<1> QED
  BY <1>6, <1>7, <1>8, <1>9, <1>10, <1>11, <1>12, <1>13, <1>14, <1>15, Zenon DEF ConfidentialStep, Kept

\* Every call of the hypervisor.  It takes IPIs only where no confidential hart runs.
LEMMA HypervisorStepAnnounced ==
    ASSUME IInv, QueuedRequestsAreAnnounced, NEW h \in HardwareHarts, HypervisorStep(h)
    PROVE  QueuedRequestsAreAnnounced'
<1>1. ASSUME NEW v \in VmIds, NEW n \in 0 .. MaxHarts, promote_to_confidential_vm(h, v, n)
      PROVE  QueuedRequestsAreAnnounced'
  <2>1. v \notin confidential_vms
    BY <1>1 DEF promote_to_confidential_vm, unique_id, VmIds, IInv, TypeOK, ControlDataTypes
  <2>2. \A g \in HardwareHarts : hardware_hart[g].confidential_vm_id # v
    BY <2>1, RemovableVmsAreUnassigned, Zenon
  <2> QED
    BY <1>1, <2>2, ReplaceAnnounced, Zenon DEF promote_to_confidential_vm, insert_confidential_vm
<1>2. ASSUME NEW v \in VmIds, NEW c \in HartIds, resume_confidential_hart(h, v, c)
      PROVE  QueuedRequestsAreAnnounced'
  <2>1. "resume" \notin Late
    BY Zenon DEF Late
  <2> QED
    BY <1>2, <2>1, QueuesStay, Zenon DEF resume_confidential_hart, steal_confidential_hart
<1>3. ASSUME NEW v \in VmIds, terminate_confidential_vm(h, v)
      PROVE  QueuedRequestsAreAnnounced'
  BY <1>3, RemoveAnnounced, Zenon DEF terminate_confidential_vm
<1>4. CASE delegate_to_opensbi(h)
  <2>1. \A g \in HardwareHarts : pc[g] \in Late => ipi'[g] = ipi[g]
    BY <1>4, Zenon DEF delegate_to_opensbi, Late, ConfidentialFlow, IInv, TypeOK, HardwareHartTypes
  <2> QED
    BY <1>4, <2>1, AnnouncedStep, Zenon DEF delegate_to_opensbi, QueueOf
<1> QED
  BY <1>1, <1>2, <1>3, <1>4, SMTT(30) DEF HypervisorStep

\* As long as sbi_ipi_send_smode does not fail, a request in the queue of a running hart
\* has an IPI pending at the hardware hart that runs it.
THEOREM AnnouncementSafety ==
    ASSUME IpiMayFail = FALSE
    PROVE  Spec => []QueuedRequestsAreAnnounced
<1>1. Init => QueuedRequestsAreAnnounced
  BY Zenon DEF Init, QueuedRequestsAreAnnounced, ConfidentialFlow
<1>2. IInv /\ QueuedRequestsAreAnnounced /\ [Next]_vars => QueuedRequestsAreAnnounced'
  <2> SUFFICES ASSUME IInv, QueuedRequestsAreAnnounced, [Next]_vars
               PROVE  QueuedRequestsAreAnnounced'
    BY Zenon
  <2>1. CASE Next
    BY <2>1, ConfidentialStepAnnounced, HypervisorStepAnnounced, Zenon DEF Next
  <2>2. CASE UNCHANGED vars
    BY <2>2, Zenon DEF vars, QueuedRequestsAreAnnounced
  <2> QED
    BY <2>1, <2>2, Zenon
<1> QED
  BY <1>1, <1>2, InductiveInvariant, PTL DEF Spec

-----------------------------------------------------------------------------
(***************************************************************************)
(* A trapped hart gets one result, its requests do not overlap and it runs *)
(* only between start and stop, for any number of hardware harts, VMs and  *)
(* confidential harts.  The properties speak of harts that run.  What they *)
(* do when they run again is settled when their tokens are put into the    *)
(* slots, where other harts start them or shut them down: the invariant    *)
(* therefore says for every token, in its slot or at any position in the   *)
(* code, how lifecycle, pending request and mepc go together.              *)
(***************************************************************************)

\* A token that another hart may find, or that is taken to be resumed.  A hart that is
\* not suspended, stopped or shut down has a reply to come for the instruction that it
\* trapped on; one that is started has its first reply to come.
Parked(hart) ==
    /\ hart.lifecycle_state = "Stopped" => hart.pending_request = "None"
    /\ hart.lifecycle_state = "StartPending" => hart.pending_request = "SbiHsmHartStartPending"
    /\ IF hart.pending_request \in {"None", "SbiHsmHartStartPending"}
       THEN \/ hart.mepc_lag = 0
            \/ /\ hart.mepc_lag = 1
               /\ hart.pending_request = "None"
               /\ hart.lifecycle_state \in {"Suspended", "Stopped", "Shutdown"}
       ELSE hart.mepc_lag = 1

\* A hart that executes, or whose trap is being handled.
Active(hart) ==
    /\ hart.pending_request = "None"
    /\ hart.lifecycle_state \notin {"Stopped", "StartPending"}

\* The guest continues where it was, or executes its HartSuspend again.
Continues(hart) ==
    \/ hart.mepc_lag = 0
    \/ hart.mepc_lag = 1 /\ hart.lifecycle_state \in {"Suspended", "Shutdown"}

\* The token of a hardware hart by its position in the code.
Positioned(label, hart) ==
    /\ label = "guest" => Active(hart) /\ Continues(hart)
    /\ label = "resume" => Parked(hart) /\ hart.lifecycle_state # "Stopped"
    /\ label \in {"share_page_result", "hart_started"} => Active(hart) /\ hart.mepc_lag = 1
    /\ label \in {"interrupt", "preempted"} => Active(hart) /\ hart.mepc_lag = 0
    /\ label = "shutdown" => Active(hart) /\ hart.mepc_lag \in {0, 1}

SlotsAreParked ==
    \A v \in VmIds : \A c \in DOMAIN confidential_harts[v] : Parked(confidential_harts[v][c])

HartsArePositioned == \A h \in HardwareHarts : Positioned(pc[h], hardware_hart[h])

ResultInv == SlotsAreParked /\ HartsArePositioned

-----------------------------------------------------------------------------
(* Transformations                                                         *)

\* What the transformations make of a hart that executes.
LEMMA ActiveTransformations ==
    ASSUME NEW hart \in Hart, Active(hart)
    PROVE  /\ Active(TrappedOnInstruction(hart)) /\ TrappedOnInstruction(hart).mepc_lag = 1
           /\ Active(TrappedBetweenInstructions(hart)) /\ TrappedBetweenInstructions(hart).mepc_lag = 0
           /\ Active(AnsweredAtOnce(hart)) /\ AnsweredAtOnce(hart).mepc_lag = 0
           /\ hart.mepc_lag = 1 => Active(apply_result(hart)) /\ apply_result(hart).mepc_lag = 0
           /\ hart.mepc_lag = 0 => Parked(hart)
           /\ hart.mepc_lag \in {0, 1} => Parked(transition_to_shutdown(hart))
           /\ hart.mepc_lag = 1 => /\ Parked(transition_from_started_to_stopped(hart))
                                   /\ Parked(transition_from_started_to_suspended(hart))
           /\ \A queue : /\ Active(apply_all(queue, hart))
                         /\ apply_all(queue, hart).mepc_lag = hart.mepc_lag
<1> USE DEF Hart, Active
<1>1. /\ Active(TrappedOnInstruction(hart)) /\ TrappedOnInstruction(hart).mepc_lag = 1
      /\ Active(TrappedBetweenInstructions(hart)) /\ TrappedBetweenInstructions(hart).mepc_lag = 0
  BY Zenon DEF TrappedOnInstruction, TrappedBetweenInstructions
<1>2. Active(AnsweredAtOnce(hart)) /\ AnsweredAtOnce(hart).mepc_lag = 0
  BY DEF AnsweredAtOnce, apply_result, TrappedOnInstruction
<1>3. hart.mepc_lag = 1 => Active(apply_result(hart)) /\ apply_result(hart).mepc_lag = 0
  BY DEF apply_result
<1>4. /\ hart.mepc_lag = 0 => Parked(hart)
      /\ hart.mepc_lag \in {0, 1} => Parked(transition_to_shutdown(hart))
  BY Zenon DEF Parked, transition_to_shutdown, in_state
<1>5. hart.mepc_lag = 1 => /\ Parked(transition_from_started_to_stopped(hart))
                           /\ Parked(transition_from_started_to_suspended(hart))
  BY Zenon DEF Parked, transition_from_started_to_stopped, transition_from_started_to_suspended, in_state
<1>6. \A queue : /\ Active(apply_all(queue, hart))
                 /\ apply_all(queue, hart).mepc_lag = hart.mepc_lag
  BY Zenon DEF apply_all, transition_to_shutdown, in_state
<1> QED
  BY <1>1, <1>2, <1>3, <1>4, <1>5, <1>6, Zenon

\* A request of a hart that trapped parks it until the reply.
LEMMA RequestsPark ==
    ASSUME NEW hart \in Hart, Active(hart), hart.mepc_lag = 1,
           NEW request \in PendingRequest \ {"SbiHsmHartStartPending"}
    PROVE  Parked(set_pending_request(hart, request))
BY Zenon DEF Hart, Active, Parked, set_pending_request, PendingRequest

\* What other harts do to a parked one, and what is made of it when it is resumed.
LEMMA ParkedTransformations ==
    ASSUME NEW hart \in Hart, Parked(hart)
    PROVE  /\ hart.lifecycle_state = "Stopped" => Parked(transition_from_stopped_to_start_pending(hart))
           /\ \A request : Parked(apply_inter_hart_request(request, hart))
           /\ hart.lifecycle_state # "Stopped" =>
                 /\ hart.pending_request # "SharePage" => Positioned("guest", apply_pending(hart))
                 /\ hart.pending_request = "SharePage" =>
                       Positioned("share_page_result", set_pending_request(hart, "None"))
           /\ \A queue : /\ Parked(apply_all(queue, hart))
                         /\ hart.lifecycle_state # "Stopped" => apply_all(queue, hart).lifecycle_state # "Stopped"
<1> USE DEF Hart, Parked
<1>1. hart.lifecycle_state = "Stopped" => Parked(transition_from_stopped_to_start_pending(hart))
  BY Zenon DEF transition_from_stopped_to_start_pending, set_pending_request, TrappedBetweenInstructions, in_state
<1>2. \A request : Parked(apply_inter_hart_request(request, hart))
  BY Zenon DEF apply_inter_hart_request, transition_to_shutdown, in_state
<1>3. \A queue : /\ Parked(apply_all(queue, hart))
                 /\ hart.lifecycle_state # "Stopped" => apply_all(queue, hart).lifecycle_state # "Stopped"
  BY Zenon DEF apply_all, transition_to_shutdown, in_state
<1>4. ASSUME hart.lifecycle_state # "Stopped", hart.pending_request = "SharePage"
      PROVE  Positioned("share_page_result", set_pending_request(hart, "None"))
  BY <1>4, Zenon DEF Positioned, Active, set_pending_request
<1>5. ASSUME hart.lifecycle_state # "Stopped", hart.pending_request # "SharePage"
      PROVE  Positioned("guest", apply_pending(hart))
  <2> DEFINE taken == set_pending_request(hart, "None")
  <2>1. CASE hart.pending_request = "None"
    <3>1. apply_pending(hart) = taken
      BY <2>1, Zenon DEF apply_pending
    <3> QED
      BY <1>5, <2>1, <3>1, Zenon DEF Positioned, Active, Continues, set_pending_request, HartLifecycleState
  <2>2. CASE hart.pending_request = "SbiHsmHartStartPending"
    <3>1. apply_pending(hart) = transition_from_start_pending_to_started(taken)
      BY <2>2, Zenon DEF apply_pending
    <3> QED
      BY <1>5, <2>2, <3>1, Zenon DEF Positioned, Active, Continues, set_pending_request,
         transition_from_start_pending_to_started, in_state
  <2>3. CASE hart.pending_request \notin {"None", "SbiHsmHartStartPending"}
    <3>1. apply_pending(hart) = apply_result(taken)
      BY <2>3, Zenon DEF apply_pending
    <3> QED
      BY <1>5, <2>3, <3>1 DEF Positioned, Active, Continues, set_pending_request, apply_result
  <2> QED
    BY <2>1, <2>2, <2>3, Zenon
<1> QED
  BY <1>1, <1>2, <1>3, <1>4, <1>5, Zenon

-----------------------------------------------------------------------------
(* Steps                                                                   *)

\* A handler that only changes the token it owns.
LEMMA OwnTokenPositioned ==
    ASSUME IInv, ResultInv, NEW h \in HardwareHarts,
           NEW hart, hardware_hart' = [hardware_hart EXCEPT ![h] = hart],
           NEW label, GoTo(h, label), Positioned(label, hart)
    PROVE  HartsArePositioned'
BY Zenon DEF ResultInv, HartsArePositioned, GoTo, IInv, TypeOK, HardwareHartTypes

\* A token that is given back is parked in its slot.
LEMMA ReturnParks ==
    ASSUME IInv, ResultInv, NEW h \in HardwareHarts, pc[h] \in ConfidentialFlow,
           NEW hart, SameToken(hart, hardware_hart[h]), Parked(hart),
           return_confidential_hart(h, hart),
           NEW label \in NonConfidentialFlow, GoTo(h, label)
    PROVE  ResultInv'
<1> DEFINE v == hart.confidential_vm_id
           c == hart.confidential_hart_id
<1>1. v \in VmIds /\ c \in DOMAIN confidential_harts[v]
  BY AssignedFacts, Zenon
<1>2. confidential_harts' = [confidential_harts EXCEPT ![v][c] = hart]
  BY Zenon DEF return_confidential_hart
<1>3. Positioned(label, confidential_harts[v][c])
  BY Zenon DEF Positioned, NonConfidentialFlow
<1>4. HartsArePositioned'
  BY <1>3, OwnTokenPositioned, Zenon DEF return_confidential_hart
<1> HIDE DEF v, c
<1>5. SlotsAreParked'
  BY <1>1, <1>2, Zenon DEF ResultInv, SlotsAreParked, IInv, TypeOK, ControlDataTypes
<1> QED
  BY <1>4, <1>5, Zenon DEF ResultInv

\* A handler that leaves the slots alone.
LEMMA SlotsStay ==
    ASSUME IInv, ResultInv, UNCHANGED confidential_harts, HartsArePositioned'
    PROVE  ResultInv'
BY Zenon DEF ResultInv, SlotsAreParked

\* A broadcast reaches parked harts, which stay parked, and queues.
LEMMA DeliverParks ==
    ASSUME IInv, ResultInv, NEW v \in confidential_vms, NEW request, NEW reached, NEW notified,
           Deliver(v, request, reached, notified), HartsArePositioned'
    PROVE  ResultInv'
<1>1. v \in VmIds
  BY Zenon DEF IInv, TypeOK, ControlDataTypes
<1> DEFINE F(c) == IF c \in reached /\ ~ is_dummy(confidential_harts[v][c])
                   THEN apply_inter_hart_request(request, confidential_harts[v][c])
                   ELSE confidential_harts[v][c]
<1>2. confidential_harts' = [confidential_harts EXCEPT ![v] = [c \in DOMAIN confidential_harts[v] |-> F(c)]]
  BY Zenon DEF Deliver
<1>3. ASSUME NEW c \in DOMAIN confidential_harts[v]
      PROVE  Parked(F(c))
  <2>1. confidential_harts[v][c] \in Hart /\ Parked(confidential_harts[v][c])
    BY <1>1, Zenon DEF IInv, TypeOK, ControlDataTypes, ResultInv, SlotsAreParked
  <2> QED
    BY <2>1, ParkedTransformations, Zenon
<1> HIDE DEF F
<1>4. SlotsAreParked'
  BY <1>1, <1>2, <1>3, Zenon DEF ResultInv, SlotsAreParked, IInv, TypeOK, ControlDataTypes
<1> QED
  BY <1>4, Zenon DEF ResultInv

\* Both outcomes of a broadcast.
LEMMA BroadcastParks ==
    ASSUME IInv, ResultInv, NEW v \in confidential_vms, NEW request, NEW selected,
           \/ broadcast_succeeds(v, request, selected)
           \/ broadcast_fails(v, request, selected),
           HartsArePositioned'
    PROVE  ResultInv'
<1>1. \E reached, notified : Deliver(v, request, reached, notified)
  <2>1. CASE broadcast_succeeds(v, request, selected)
    BY <2>1, Zenon DEF broadcast_succeeds
  <2>2. CASE broadcast_fails(v, request, selected)
    <3>1. PICK failed \in selected :
             LET served == {c \in selected : c < failed} IN
             \/ Deliver(v, request, served, served)
             \/ Deliver(v, request, served \cup {failed}, served)
      BY <2>2, Zenon DEF broadcast_fails
    <3> QED
      BY <3>1, Zenon
  <2> QED
    BY <2>1, <2>2, Zenon
<1> QED
  BY <1>1, DeliverParks, Zenon

\* A request to the hypervisor is never refused.
LEMMA RequestResult ==
    ASSUME IInv, ResultInv, NEW h \in HardwareHarts, pc[h] \in ConfidentialFlow,
           NEW hart, SameToken(hart, hardware_hart[h]), Active(hart), hart.mepc_lag = 1,
           NEW request \in PendingRequest \ {"SbiHsmHartStartPending"},
           request_from_hypervisor(h, hart, request)
    PROVE  ResultInv'
<1>1. hart \in Hart
  BY Zenon DEF SameToken
<1>2. into_non_confidential_flow(h, set_pending_request(hart, request), "hypervisor")
  BY Zenon DEF request_from_hypervisor, Active
<1>3. SameToken(set_pending_request(hart, request), hardware_hart[h])
  <2>1. SameToken(set_pending_request(hart, request), hart)
    BY <1>1, TransformationsKeepToken, Zenon
  <2> QED
    BY <2>1, Zenon DEF SameToken
<1>4. Parked(set_pending_request(hart, request))
  BY <1>1, RequestsPark, Zenon
<1> QED
  BY <1>2, <1>3, <1>4, ReturnParks, Zenon DEF into_non_confidential_flow, NonConfidentialFlow

\* The steps of the hart that trapped, whose token is Active.
LEMMA TrapResult ==
    ASSUME IInv, ResultInv, NEW h \in HardwareHarts, pc[h] = "guest"
    PROVE  /\ answer(h) => ResultInv'
           /\ panic(h) => ResultInv'
           /\ \A request \in PendingRequest \ {"SbiHsmHartStartPending"} :
                 /\ request_from_hypervisor(h, Trapped(h), request) => ResultInv'
                 /\ page_fault(h, request) => ResultInv'
           /\ into_non_confidential_flow(h, transition_from_started_to_stopped(Trapped(h)), "hypervisor") => ResultInv'
           /\ into_non_confidential_flow(h, transition_from_started_to_suspended(Trapped(h)), "hypervisor") => ResultInv'
<1> DEFINE hart == hardware_hart[h]
<1>1. hart \in Hart /\ Active(hart) /\ pc[h] \in ConfidentialFlow
  BY Zenon DEF IInv, TypeOK, HardwareHartTypes, ResultInv, HartsArePositioned, Positioned, ConfidentialFlow
<1>2. /\ Trapped(h) \in Hart /\ SameToken(Trapped(h), hart)
      /\ Active(Trapped(h)) /\ Trapped(h).mepc_lag = 1
      /\ SameToken(TrappedBetweenInstructions(hart), hart)
      /\ Active(TrappedBetweenInstructions(hart)) /\ TrappedBetweenInstructions(hart).mepc_lag = 0
      /\ TrappedBetweenInstructions(hart) \in Hart
      /\ Active(AnsweredAtOnce(hart)) /\ AnsweredAtOnce(hart).mepc_lag = 0
  BY <1>1, TransformationsKeepToken, ActiveTransformations, Zenon DEF Trapped, SameToken
<1>3. ASSUME answer(h) PROVE ResultInv'
  <2>1. Positioned("guest", AnsweredAtOnce(hart))
    BY <1>2, Zenon DEF Positioned, Continues
  <2> QED
    BY <1>3, <2>1, OwnTokenPositioned, SlotsStay, Zenon DEF answer, exit_to_confidential_hart
<1>4. ASSUME panic(h) PROVE ResultInv'
  <2>1. Positioned("panic", hart)
    BY Zenon DEF Positioned
  <2>2. HartsArePositioned'
    BY <1>4, <2>1, Zenon DEF panic, GoTo, ResultInv, HartsArePositioned, IInv, TypeOK, HardwareHartTypes
  <2> QED
    BY <1>4, <2>2, SlotsStay, Zenon DEF panic
<1>5. ASSUME NEW request \in PendingRequest \ {"SbiHsmHartStartPending"},
             request_from_hypervisor(h, Trapped(h), request)
      PROVE  ResultInv'
  BY <1>1, <1>2, <1>5, RequestResult, Zenon
<1>6. ASSUME NEW next, SameToken(next, hart), Parked(next), into_non_confidential_flow(h, next, "hypervisor")
      PROVE  ResultInv'
  BY <1>1, <1>6, ReturnParks, Zenon DEF into_non_confidential_flow, NonConfidentialFlow
<1>7. ASSUME NEW request \in PendingRequest \ {"SbiHsmHartStartPending"}, page_fault(h, request)
      PROVE  ResultInv'
  <2>1. Parked(TrappedBetweenInstructions(hart))
    BY <1>2, ActiveTransformations, Zenon
  <2> QED
    BY <1>2, <1>5, <1>6, <1>7, <2>1, Zenon DEF page_fault
<1>8. /\ Parked(transition_from_started_to_stopped(Trapped(h)))
      /\ Parked(transition_from_started_to_suspended(Trapped(h)))
  BY <1>2, ActiveTransformations, Zenon
<1>9. /\ SameToken(transition_from_started_to_stopped(Trapped(h)), hart)
      /\ SameToken(transition_from_started_to_suspended(Trapped(h)), hart)
  BY <1>2, TransformationsKeepToken, Zenon DEF SameToken
<1> QED
  BY <1>3, <1>4, <1>5, <1>6, <1>7, <1>8, <1>9, Zenon

\* Every critical section of a hardware hart in the confidential flow.
LEMMA ConfidentialStepResult ==
    ASSUME IInv, ResultInv, NEW h \in HardwareHarts, ConfidentialStep(h)
    PROVE  ResultInv'
<1> DEFINE hart == hardware_hart[h]
           v == hart.confidential_vm_id
<1>1. hart \in Hart /\ Positioned(pc[h], hart)
  BY Zenon DEF IInv, TypeOK, HardwareHartTypes, ResultInv, HartsArePositioned
<1>2. PendingRequest \ {"SbiHsmHartStartPending"}
         = {"SharePage", "GuestLoadPageFault", "GuestStorePageFault", "SbiHsmHartStart", "SbiRequest"}
  BY Zenon DEF PendingRequest
<1>3. pc[h] = "guest" => /\ Active(hart) /\ v \in confidential_vms /\ v \in VmIds
                         /\ Positioned("guest", AnsweredAtOnce(hart))
                         /\ Positioned("shutdown", TrappedOnInstruction(hart))
                         /\ Positioned("hart_started", TrappedOnInstruction(hart))
                         /\ Positioned("interrupt", TrappedBetweenInstructions(hart))
                         /\ Positioned("preempted", TrappedBetweenInstructions(hart))
  <2> SUFFICES ASSUME pc[h] = "guest"
               PROVE  /\ Active(hart) /\ v \in confidential_vms /\ v \in VmIds
                      /\ Positioned("guest", AnsweredAtOnce(hart))
                      /\ Positioned("shutdown", TrappedOnInstruction(hart))
                      /\ Positioned("hart_started", TrappedOnInstruction(hart))
                      /\ Positioned("interrupt", TrappedBetweenInstructions(hart))
                      /\ Positioned("preempted", TrappedBetweenInstructions(hart))
    BY Zenon
  <2>1. Active(hart) /\ v \in confidential_vms /\ v \in VmIds
    BY <1>1, Zenon DEF Positioned, IInv, FlowGuarantee, ConfidentialFlow, TypeOK, ControlDataTypes
  <2> HIDE DEF hart
  <2> QED
    BY <1>1, <2>1, ActiveTransformations, Zenon DEF Positioned, Continues
<1> HIDE DEF hart, v
<1>4. CASE interrupt(h)
  <2>1. PICK label \in {"interrupt", "preempted"} : GoTo(h, label)
    BY <1>4, Zenon DEF interrupt
  <2> QED
    BY <1>3, <1>4, <2>1, OwnTokenPositioned, SlotsStay, Zenon DEF interrupt, Trap, hart
<1>5. CASE interrupt_process(h)
  <2>1. Active(hart) /\ hart.mepc_lag = 0
    BY <1>1, <1>5, Zenon DEF interrupt_process, Positioned
  <2>2. Active(Drained(h)) /\ Drained(h).mepc_lag = 0
    BY <1>1, <2>1, ActiveTransformations, Zenon DEF Drained, hart
  <2>3. Positioned("shutdown", Drained(h)) /\ Positioned("preempted", Drained(h))
    BY <2>2, Zenon DEF Positioned
  <2> QED
    BY <1>5, <2>3, OwnTokenPositioned, SlotsStay, Zenon DEF interrupt_process, process_inter_hart_requests
<1>6. CASE interrupt_exit(h)
  <2>1. Parked(hart) /\ SameToken(hart, hart) /\ pc[h] \in ConfidentialFlow
    BY <1>1, <1>6, ActiveTransformations, TransformationsKeepToken, Zenon DEF interrupt_exit, Positioned, ConfidentialFlow
  <2> QED
    BY <1>6, <2>1, ReturnParks, Zenon DEF interrupt_exit, into_non_confidential_flow, NonConfidentialFlow, hart
<1>7. CASE \/ hypercall(h) \/ share_page(h) \/ unshare_page(h) \/ guest_load_page_fault(h)
           \/ guest_store_page_fault(h) \/ implicit_page_fault(h) \/ sbi_probe_extension(h) \/ sbi_rfence_nop(h)
           \/ sbi_hsm_hart_status(h) \/ invalid_call(h) \/ virtual_instruction_request(h) \/ unrouted_trap(h)
  BY <1>2, <1>7, TrapResult, Zenon DEF Trap, hypercall, share_page, unshare_page, guest_load_page_fault,
     guest_store_page_fault, implicit_page_fault, sbi_probe_extension, sbi_rfence_nop, sbi_hsm_hart_status, invalid_call,
     virtual_instruction_request, unrouted_trap
<1>8. CASE sbi_hsm_hart_stop(h) \/ sbi_hsm_hart_suspend(h)
  BY <1>8, TrapResult, Zenon DEF Trap, sbi_hsm_hart_stop, sbi_hsm_hart_suspend
<1>9. CASE sbi_ipi(h)
  <2>1. PICK request, selected :
           /\ pc[h] = "guest"
           /\ \/ broadcast_succeeds(v, request, selected)
              \/ broadcast_fails(v, request, selected)
    BY <1>9, Zenon DEF sbi_ipi, Trap, v, hart
  <2>2. GoTo(h, "guest")
    BY <1>9, <2>1, Zenon DEF sbi_ipi, GoTo, IInv, TypeOK, HardwareHartTypes
  <2>3. HartsArePositioned'
    BY <1>3, <1>9, <2>1, <2>2, OwnTokenPositioned, Zenon DEF sbi_ipi, hart
  <2> QED
    BY <1>3, <2>1, <2>3, BroadcastParks, Zenon
<1>10. CASE sbi_srst(h)
  <2> DEFINE others == DOMAIN confidential_harts[v] \ {hart.confidential_hart_id}
  <2>1. /\ pc[h] = "guest"
        /\ \/ /\ broadcast_succeeds(v, "SbiSrstSystemReset", others)
              /\ hardware_hart' = [hardware_hart EXCEPT ![h] = TrappedOnInstruction(hart)]
              /\ GoTo(h, "shutdown")
           \/ /\ broadcast_fails(v, "SbiSrstSystemReset", others)
              /\ hardware_hart' = [hardware_hart EXCEPT ![h] = AnsweredAtOnce(hart)]
              /\ UNCHANGED pc
    BY <1>10, Zenon DEF sbi_srst, Trap, hart, v
  <2>2. UNCHANGED pc => GoTo(h, "guest")
    BY <2>1, Zenon DEF GoTo, IInv, TypeOK, HardwareHartTypes
  <2> HIDE DEF others
  <2>3. HartsArePositioned'
    BY <1>3, <2>1, <2>2, OwnTokenPositioned, Zenon
  <2> QED
    BY <1>3, <2>1, <2>3, BroadcastParks, Zenon
<1>11. ASSUME NEW target \in HartIds, sbi_hsm_hart_start(h, target)
       PROVE  ResultInv'
  <2>1. CASE answer(h)
    BY <1>11, <2>1, TrapResult, Zenon DEF sbi_hsm_hart_start, Trap
  <2>2. CASE ~ answer(h)
    <3> DEFINE slot == confidential_harts[v][target]
               started == transition_from_stopped_to_start_pending(slot)
    <3>1. /\ pc[h] = "guest"
          /\ target \in DOMAIN confidential_harts[v]
          /\ slot.lifecycle_state = "Stopped"
          /\ confidential_harts' = [confidential_harts EXCEPT ![v][target] = started]
          /\ hardware_hart' = [hardware_hart EXCEPT ![h] = TrappedOnInstruction(hart)]
          /\ GoTo(h, "hart_started")
      BY <1>11, <2>2, Zenon DEF sbi_hsm_hart_start, Trap, hart, v
    <3>2. slot \in Hart /\ Parked(slot)
      BY <1>3, <3>1, Zenon DEF IInv, TypeOK, ControlDataTypes, ResultInv, SlotsAreParked
    <3>3. Parked(started)
      BY <3>1, <3>2, ParkedTransformations, Zenon
    <3> HIDE DEF slot, started
    <3>4. SlotsAreParked'
      BY <1>3, <3>1, <3>3, Zenon DEF ResultInv, SlotsAreParked, IInv, TypeOK, ControlDataTypes
    <3>5. HartsArePositioned'
      BY <1>3, <3>1, OwnTokenPositioned, Zenon
    <3> QED
      BY <3>4, <3>5, Zenon DEF ResultInv
  <2> QED
    BY <2>1, <2>2, Zenon
<1>12. CASE sbi_hsm_hart_start_exit(h)
  <2>1. Active(hart) /\ hart.mepc_lag = 1 /\ SameToken(hart, hart) /\ pc[h] \in ConfidentialFlow
    BY <1>1, <1>12, TransformationsKeepToken, Zenon DEF sbi_hsm_hart_start_exit, Positioned, ConfidentialFlow
  <2> QED
    BY <1>2, <1>12, <2>1, RequestResult, Zenon DEF sbi_hsm_hart_start_exit, hart
<1>13. CASE shutdown_confidential_hart(h)
  <2>1. Active(hart) /\ hart.mepc_lag \in {0, 1} /\ pc[h] \in ConfidentialFlow
    BY <1>1, <1>13, Zenon DEF shutdown_confidential_hart, Positioned, ConfidentialFlow
  <2>2. Parked(transition_to_shutdown(hart)) /\ SameToken(transition_to_shutdown(hart), hart)
    BY <1>1, <2>1, ActiveTransformations, TransformationsKeepToken, Zenon
  <2> QED
    BY <1>13, <2>1, <2>2, ReturnParks, Zenon DEF shutdown_confidential_hart, NonConfidentialFlow, hart
<1>14. CASE shutdown_remove(h)
  <2>1. HartsArePositioned'
    <3>1. Positioned("hypervisor", hart)
      BY Zenon DEF Positioned
    <3> QED
      BY <1>14, <3>1, Zenon DEF shutdown_remove, GoTo, ResultInv, HartsArePositioned, IInv, TypeOK, HardwareHartTypes, hart
  <2>2. SlotsAreParked'
    BY <1>14 DEF shutdown_remove, remove_confidential_vm, ResultInv, SlotsAreParked, IInv, TypeOK, ControlDataTypes
  <2> QED
    BY <2>1, <2>2, Zenon DEF ResultInv
<1>15. CASE resume_confidential_hart_execution(h)
  <2>1. Parked(hart) /\ hart.lifecycle_state # "Stopped"
    BY <1>1, <1>15, ZenonT(60) DEF resume_confidential_hart_execution, Positioned
  <2>2. Drained(h) \in Hart /\ Parked(Drained(h)) /\ Drained(h).lifecycle_state # "Stopped"
    BY <1>1, <2>1, ParkedTransformations, TransformationsKeepToken DEF Drained, SameToken, hart
  <2>3. /\ Drained(h).pending_request # "SharePage" => Positioned("guest", apply_pending(Drained(h)))
        /\ Drained(h).pending_request = "SharePage" =>
              Positioned("share_page_result", set_pending_request(Drained(h), "None"))
    BY <2>2, ParkedTransformations, Zenon
  <2> QED
    BY <1>15, <2>3, OwnTokenPositioned, SlotsStay, Zenon DEF resume_confidential_hart_execution, process_inter_hart_requests
<1>16. CASE share_page_result(h)
  <2>1. Active(hart) /\ hart.mepc_lag = 1
    BY <1>1, <1>16, Zenon DEF share_page_result, Positioned
  <2>2. Positioned("guest", apply_result(hart))
    BY <1>1, <2>1, ActiveTransformations, Zenon DEF Positioned, Continues
  <2> QED
    BY <1>16, <2>2, OwnTokenPositioned, SlotsStay, Zenon DEF share_page_result, exit_to_confidential_hart, hart
<1> QED
  BY <1>4, <1>5, <1>6, <1>7, <1>8, <1>9, <1>10, <1>11, <1>12, <1>13, <1>14, <1>15, <1>16, Zenon DEF ConfidentialStep

\* Every call of the hypervisor: new VMs have parked harts, and the hart that is resumed
\* is executable, so not stopped.
LEMMA HypervisorStepResult ==
    ASSUME IInv, ResultInv, NEW h \in HardwareHarts, HypervisorStep(h)
    PROVE  ResultInv'
<1>1. ASSUME NEW v \in VmIds, NEW n \in 0 .. MaxHarts, promote_to_confidential_vm(h, v, n)
      PROVE  ResultInv'
  <2> DEFINE harts == [c \in 0 .. (n - 1) |-> IF c = 0 THEN from_vm_hart(v, c) ELSE from_vm_hart_reset(v, c)]
  <2>1. \A c \in DOMAIN harts : Parked(harts[c])
    BY Zenon DEF Parked, from_vm_hart, from_vm_hart_reset
  <2>2. confidential_harts' = [confidential_harts EXCEPT ![v] = harts]
    BY <1>1, Zenon DEF promote_to_confidential_vm, insert_confidential_vm
  <2> HIDE DEF harts
  <2>3. SlotsAreParked'
    BY <2>1, <2>2, Zenon DEF ResultInv, SlotsAreParked, IInv, TypeOK, ControlDataTypes
  <2> QED
    BY <1>1, <2>3, Zenon DEF promote_to_confidential_vm, ResultInv, HartsArePositioned
<1>2. ASSUME NEW v \in VmIds, NEW c \in HartIds, resume_confidential_hart(h, v, c)
      PROVE  ResultInv'
  <2>1. /\ c \in DOMAIN confidential_harts[v]
        /\ hardware_hart[h] = dummy(h)
        /\ Parked(confidential_harts[v][c])
        /\ confidential_harts[v][c].lifecycle_state # "Stopped"
    BY <1>2, Zenon DEF resume_confidential_hart, steal_confidential_hart, is_executable, IInv, FlowGuarantee,
       ConfidentialFlow, ResultInv, SlotsAreParked
  <2>2. Parked(dummy(h)) /\ Positioned("resume", confidential_harts[v][c])
    BY <2>1, Zenon DEF Parked, Positioned, dummy
  <2>3. SlotsAreParked'
    BY <1>2, <2>1, <2>2, Zenon DEF resume_confidential_hart, steal_confidential_hart, ResultInv, SlotsAreParked,
       IInv, TypeOK, ControlDataTypes
  <2>4. HartsArePositioned'
    BY <1>2, <2>2, OwnTokenPositioned, Zenon DEF resume_confidential_hart, steal_confidential_hart
  <2> QED
    BY <2>3, <2>4, Zenon DEF ResultInv
<1>3. ASSUME NEW v \in VmIds, terminate_confidential_vm(h, v)
      PROVE  ResultInv'
  BY <1>3 DEF terminate_confidential_vm, remove_confidential_vm, ResultInv, SlotsAreParked, HartsArePositioned,
     IInv, TypeOK, ControlDataTypes
<1>4. CASE delegate_to_opensbi(h)
  BY <1>4, Zenon DEF delegate_to_opensbi, ResultInv, SlotsAreParked, HartsArePositioned
<1> QED
  BY <1>1, <1>2, <1>3, <1>4, Zenon DEF HypervisorStep

\* Lifecycle, pending request and mepc of every token go together in every state.
THEOREM ResultInvariant == Spec => []ResultInv
<1>1. Init => ResultInv
  <2> SUFFICES ASSUME Init PROVE ResultInv
    BY Zenon
  <2>1. SlotsAreParked
    BY DEF Init, SlotsAreParked
  <2>2. HartsArePositioned
    BY Zenon DEF Init, HartsArePositioned, Positioned
  <2> QED
    BY <2>1, <2>2, Zenon DEF ResultInv
<1>2. IInv /\ ResultInv /\ [Next]_vars => ResultInv'
  <2> SUFFICES ASSUME IInv, ResultInv, [Next]_vars PROVE ResultInv'
    BY Zenon
  <2>1. CASE Next
    BY <2>1, ConfidentialStepResult, HypervisorStepResult, Zenon DEF Next
  <2>2. CASE UNCHANGED vars
    BY <2>2, Zenon DEF vars, ResultInv, SlotsAreParked, HartsArePositioned
  <2> QED
    BY <2>1, <2>2, Zenon
<1> QED
  BY <1>1, <1>2, InductiveInvariant, PTL DEF Spec

\* set_pending_request finds no request pending, and a hart that is started by another
\* one (transition_from_stopped_to_start_pending) loses none.
THEOREM RequestSafety == Spec => []RequestsDoNotOverlap
<1>1. IInv /\ ResultInv => RequestsDoNotOverlap
  BY Zenon DEF IInv, TypeOK, ControlDataTypes, ResultInv, SlotsAreParked, HartsArePositioned, Positioned,
     Parked, Active, RequestsDoNotOverlap
<1> QED
  BY <1>1, InductiveInvariant, ResultInvariant, PTL

\* Exactly one of the transformations that move mepc is applied between a trap and the
\* next instruction of the guest, on whichever path it is resumed.
THEOREM ResultSafety == Spec => []OneResultPerTrap
<1>1. ResultInv => OneResultPerTrap
  BY Zenon DEF ResultInv, HartsArePositioned, Positioned, Continues, OneResultPerTrap
<1> QED
  BY <1>1, ResultInvariant, PTL

(***************************************************************************)
(* SecurityMonitor implements HartLifecycle for any number of hardware     *)
(* harts, VMs and confidential harts: the initial states map to the        *)
(* initial state, and every critical section to one step or none.  The     *)
(* abstract lifecycle of a hart is read from its token; it is a function   *)
(* of the state only because every token is in exactly one place, so the   *)
(* proof works under the inductive invariant of SecurityMonitorProofs, in  *)
(* the states before and after the step.                                   *)
(***************************************************************************)

\* The hardware hart g holds the token of the hart c of the VM v.
Holds(g, v, c) ==
    /\ Assigned(g)
    /\ hardware_hart[g].confidential_vm_id = v
    /\ hardware_hart[g].confidential_hart_id = c

\* The abstract state of a hart that a hardware hart holds.
LEMMA HeldHarts ==
    ASSUME IInv, NEW g \in HardwareHarts, NEW v, NEW c, Holds(g, v, c)
    PROVE  /\ v \in VmIds /\ c \in DOMAIN confidential_harts[v]
           /\ confidential_harts[v][c] = dummy(g)
           /\ Lifecycle(v, c) = hardware_hart[g].lifecycle_state
<1>1. v \in VmIds
  BY Zenon DEF Holds, Assigned, is_dummy, Hart, IInv, TypeOK, HardwareHartTypes
<1>2. c \in DOMAIN confidential_harts[v] /\ confidential_harts[v][c] = dummy(g)
  BY Zenon DEF Holds, IInv, HartTokensAreUnique, AssignedTokensLeaveDummies
<1> QED
  BY <1>1, <1>2, DummiesAreHarts, Zenon DEF Lifecycle

\* A slot holds its token, or one hardware hart does.
LEMMA EveryHart ==
    ASSUME IInv, NEW v \in VmIds, NEW c \in DOMAIN confidential_harts[v]
    PROVE  IF is_dummy(confidential_harts[v][c])
           THEN \E g \in HardwareHarts : Holds(g, v, c)
           ELSE /\ Lifecycle(v, c) = confidential_harts[v][c].lifecycle_state
                /\ \A g \in HardwareHarts : ~ Holds(g, v, c)
<1>1. CASE is_dummy(confidential_harts[v][c])
  BY <1>1, ConstantsAssumption DEF Holds, Assigned, is_dummy, IInv, HartTokensAreUnique, SlotsHoldTheirTokens
<1>2. CASE ~ is_dummy(confidential_harts[v][c])
  BY <1>2, HeldHarts, DummiesAreHarts DEF Lifecycle
<1> QED
  BY <1>1, <1>2, Zenon

\* The harts that run are those that hardware harts hold.
LEMMA RunningHarts ==
    ASSUME NEW v, NEW c
    PROVE  <<v, c>> \in AbstractRunning <=> \E g \in HardwareHarts : Holds(g, v, c)
BY Zenon DEF AbstractRunning, Holds

\* Every pair in AbstractRunning is a pair of ids.
LEMMA RunningPairs ==
    ASSUME NEW x \in AbstractRunning
    PROVE  \E v, c : x = <<v, c>> /\ \E g \in HardwareHarts : Holds(g, v, c)
BY Zenon DEF AbstractRunning, Holds

\* Changing the lifecycle of one hart.
LEMMA OneHart ==
    ASSUME NEW v \in VmIds, NEW c \in DOMAIN confidential_harts[v], NEW next,
           \A u \in VmIds : /\ DOMAIN confidential_harts'[u] = DOMAIN confidential_harts[u]
                            /\ \A d \in DOMAIN confidential_harts[u] :
                                 Lifecycle(u, d)' = IF u = v /\ d = c THEN next ELSE Lifecycle(u, d)
    PROVE  AbstractState' = [AbstractState EXCEPT ![v][c] = next]
BY Zenon DEF AbstractState

\* Nothing changes in the abstract state.
LEMMA NoHart ==
    ASSUME \A u \in VmIds : /\ DOMAIN confidential_harts'[u] = DOMAIN confidential_harts[u]
                            /\ \A d \in DOMAIN confidential_harts[u] : Lifecycle(u, d)' = Lifecycle(u, d)
    PROVE  AbstractState' = AbstractState
BY Zenon DEF AbstractState

\* The same hardware harts hold the same tokens.
LEMMA SameRunning ==
    ASSUME \A g \in HardwareHarts : \A u, d : Holds(g, u, d)' <=> Holds(g, u, d)
    PROVE  AbstractRunning' = AbstractRunning
<1>1. ASSUME NEW x \in AbstractRunning PROVE x \in AbstractRunning'
  BY <1>1, RunningPairs DEF AbstractRunning, Holds
<1>2. ASSUME NEW x \in AbstractRunning' PROVE x \in AbstractRunning
  BY <1>2, Zenon DEF AbstractRunning, Holds
<1> QED
  BY <1>1, <1>2, Zenon

\* A step of the hart lifecycle, or none.
LifecycleStep ==
    Abstract!LifecycleNext \/ UNCHANGED <<confidential_vms, AbstractState, AbstractRunning>>

-----------------------------------------------------------------------------
(* The token that a hardware hart owns                                     *)

\* A handler that keeps the token: its hart begins, shuts down or stays as it is.
LEMMA OwnTokenStep ==
    ASSUME IInv, IInv', NEW h \in HardwareHarts, pc[h] \in ConfidentialFlow,
           NEW hart, SameToken(hart, hardware_hart[h]),
           \/ hart.lifecycle_state = hardware_hart[h].lifecycle_state
           \/ hart.lifecycle_state = "Shutdown"
           \/ hart.lifecycle_state = "Started" /\ hardware_hart[h].lifecycle_state = "StartPending",
           hardware_hart' = [hardware_hart EXCEPT ![h] = hart],
           UNCHANGED <<confidential_vms, confidential_harts>>
    PROVE  LifecycleStep
<1>0. PICK v, c : v = hardware_hart[h].confidential_vm_id /\ c = hardware_hart[h].confidential_hart_id
  BY Zenon
<1>1. Holds(h, v, c) /\ \A g \in HardwareHarts : \A u, d : Holds(g, u, d)' <=> Holds(g, u, d)
  <2>1. Assigned(h)
    BY Zenon DEF IInv, FlowGuarantee
  <2>2. \A g \in HardwareHarts : hardware_hart'[g] = IF g = h THEN hart ELSE hardware_hart[g]
    BY Zenon DEF IInv, TypeOK, HardwareHartTypes
  <2> QED
    BY <1>0, <2>1, <2>2, Zenon DEF Holds, Assigned, is_dummy, SameToken
<1>2. AbstractRunning' = AbstractRunning /\ <<v, c>> \in AbstractRunning
  BY <1>1, SameRunning, RunningHarts, Zenon
<1>3. /\ v \in VmIds /\ c \in DOMAIN confidential_harts[v] /\ c \in HartIds
      /\ Lifecycle(v, c) = hardware_hart[h].lifecycle_state
  BY <1>1, HeldHarts, Zenon DEF IInv, TypeOK, ControlDataTypes
<1>4. hardware_hart'[h] = hart /\ \A g \in HardwareHarts \ {h} : hardware_hart'[g] = hardware_hart[g]
  BY SMTT(30) DEF IInv, TypeOK, HardwareHartTypes
<1>5. Lifecycle(v, c)' = hart.lifecycle_state
  BY <1>1, <1>3, <1>4, HeldHarts, DummiesAreHarts DEF Lifecycle
<1>6. ASSUME NEW u \in VmIds, NEW d \in DOMAIN confidential_harts[u], ~ (u = v /\ d = c)
      PROVE  Lifecycle(u, d)' = Lifecycle(u, d)
  <2>1. CASE is_dummy(confidential_harts[u][d])
    <3>1. PICK g \in HardwareHarts : Holds(g, u, d)
      BY <2>1, EveryHart, Zenon
    <3>2. g # h /\ confidential_harts[u][d] = dummy(g)
      BY <1>1, <1>6, <3>1, HeldHarts DEF Holds
    <3> QED
      BY <1>4, <3>2, DummiesAreHarts DEF Lifecycle
  <2>2. CASE ~ is_dummy(confidential_harts[u][d])
    BY <2>2, Zenon DEF Lifecycle
  <2> QED
    BY <2>1, <2>2, Zenon
<1>7. AbstractState' = [AbstractState EXCEPT ![v][c] = hart.lifecycle_state]
  BY <1>3, <1>5, <1>6, OneHart
<1>8. c \in DOMAIN AbstractState[v] /\ AbstractState[v][c] = hardware_hart[h].lifecycle_state
  BY <1>3, Zenon DEF AbstractState
<1>9. CASE hart.lifecycle_state = hardware_hart[h].lifecycle_state
  <2>1. AbstractState' = AbstractState
    BY <1>3, <1>5, <1>6, <1>9, NoHart, Zenon
  <2> QED
    BY <1>2, <2>1, Zenon DEF LifecycleStep
<1>10. CASE hart.lifecycle_state = "Shutdown"
  <2>1. AbstractState' = [AbstractState EXCEPT ![v] =
           [d \in DOMAIN AbstractState[v] |-> IF d \in {c} THEN "Shutdown" ELSE AbstractState[v][d]]]
    BY <1>3, <1>7, <1>8, <1>10, Zenon DEF AbstractState
  <2>2. Abstract!Shutdown(v, {c})
    BY <1>2, <1>8, <2>1, Zenon DEF Abstract!Shutdown
  <2> QED
    BY <1>3, <2>2, Zenon DEF LifecycleStep, Abstract!LifecycleNext
<1>11. CASE hart.lifecycle_state = "Started" /\ hardware_hart[h].lifecycle_state = "StartPending"
  <2>1. Abstract!Begin(v, c)
    BY <1>2, <1>7, <1>8, <1>11, Zenon DEF Abstract!Begin
  <2> QED
    BY <1>3, <2>1, Zenon DEF LifecycleStep, Abstract!LifecycleNext
<1> QED
  BY <1>9, <1>10, <1>11, Zenon

-----------------------------------------------------------------------------
(* Moving a token                                                          *)

\* The harts of all VMs but the one whose token moves.
LEMMA OtherHarts ==
    ASSUME IInv, NEW h \in HardwareHarts, NEW v, NEW c,
           \A g \in HardwareHarts \ {h} : hardware_hart'[g] = hardware_hart[g],
           \A d, u : Holds(h, u, d) => u = v /\ d = c,
           NEW u \in VmIds, NEW d \in DOMAIN confidential_harts[u], ~ (u = v /\ d = c),
           confidential_harts'[u][d] = confidential_harts[u][d]
    PROVE  Lifecycle(u, d)' = Lifecycle(u, d)
<1>1. CASE is_dummy(confidential_harts[u][d])
  <2>1. PICK g \in HardwareHarts : Holds(g, u, d)
    BY <1>1, EveryHart, Zenon
  <2>2. g # h /\ confidential_harts[u][d] = dummy(g)
    BY <2>1, HeldHarts, Zenon
  <2> QED
    BY <2>2, DummiesAreHarts DEF Lifecycle
<1>2. CASE ~ is_dummy(confidential_harts[u][d])
  BY <1>2, SMTT(30) DEF Lifecycle
<1> QED
  BY <1>1, <1>2, Zenon

\* return_confidential_hart: the hart leaves, as it was, stopped, suspended or shut down.
LEMMA ReturnStep ==
    ASSUME IInv, IInv', NEW h \in HardwareHarts, pc[h] \in ConfidentialFlow,
           NEW hart, SameToken(hart, hardware_hart[h]),
           \/ hart.lifecycle_state = hardware_hart[h].lifecycle_state
           \/ hart.lifecycle_state = "Shutdown"
           \/ hart.lifecycle_state \in {"Stopped", "Suspended"} /\ hardware_hart[h].lifecycle_state = "Started",
           return_confidential_hart(h, hart), UNCHANGED confidential_vms
    PROVE  LifecycleStep
<1>0. PICK v, c : v = hart.confidential_vm_id /\ c = hart.confidential_hart_id
  BY SMTT(30)
<1>1. /\ v \in VmIds /\ c \in DOMAIN confidential_harts[v] /\ c \in HartIds
      /\ confidential_harts[v][c] = dummy(h)
      /\ hart \in Hart /\ ~ is_dummy(hart)
      /\ Holds(h, v, c)
      /\ Lifecycle(v, c) = hardware_hart[h].lifecycle_state
  <2>1. /\ v \in VmIds /\ c \in DOMAIN confidential_harts[v]
        /\ confidential_harts[v][c] = dummy(h)
        /\ hart \in Hart /\ ~ is_dummy(hart)
    BY <1>0, AssignedFacts, Zenon
  <2>2. Holds(h, v, c)
    BY <1>0, Zenon DEF Holds, SameToken, IInv, FlowGuarantee
  <2> QED
    BY <2>1, <2>2, HeldHarts, SMTT(30) DEF IInv, TypeOK, ControlDataTypes
<1>2. /\ hardware_hart' = [hardware_hart EXCEPT ![h] = dummy(h)]
      /\ confidential_harts' = [confidential_harts EXCEPT ![v][c] = hart]
  BY <1>0, <1>1, Zenon DEF return_confidential_hart
<1>3. /\ hardware_hart'[h] = dummy(h)
      /\ \A g \in HardwareHarts \ {h} : hardware_hart'[g] = hardware_hart[g]
  BY <1>2, Zenon DEF IInv, TypeOK, HardwareHartTypes
<1>4. \A u \in VmIds : /\ DOMAIN confidential_harts'[u] = DOMAIN confidential_harts[u]
                       /\ \A d \in DOMAIN confidential_harts[u] :
                            confidential_harts'[u][d]
                               = IF u = v /\ d = c THEN hart ELSE confidential_harts[u][d]
  BY <1>1, <1>2, SMTT(30) DEF IInv, TypeOK, ControlDataTypes
<1>5. Lifecycle(v, c)' = hart.lifecycle_state
  BY <1>1, <1>4, SMTT(30) DEF Lifecycle
<1>6. ASSUME NEW u \in VmIds, NEW d \in DOMAIN confidential_harts[u], ~ (u = v /\ d = c)
      PROVE  Lifecycle(u, d)' = Lifecycle(u, d)
  <2>1. confidential_harts'[u][d] = confidential_harts[u][d]
    BY <1>4, <1>6, Zenon
  <2>2. \A e, w : Holds(h, w, e) => w = v /\ e = c
    BY <1>1, Zenon DEF Holds
  <2> QED
    BY <1>3, <1>6, <2>1, <2>2, OtherHarts, SMTT(30)
<1>7. AbstractState' = [AbstractState EXCEPT ![v][c] = hart.lifecycle_state]
  BY <1>1, <1>4, <1>5, <1>6, OneHart, SMTT(60)
<1>8. AbstractState[v][c] = hardware_hart[h].lifecycle_state /\ <<v, c>> \in AbstractRunning
  BY <1>1, RunningHarts, SMTT(30) DEF AbstractState
<1>9. AbstractRunning' = AbstractRunning \ {<<v, c>>}
  <2>1. \A g \in HardwareHarts : \A u, d : Holds(g, u, d)' <=> Holds(g, u, d) /\ g # h
    BY <1>3, DummiesAreHarts, ZenonT(60) DEF Holds, Assigned
  <2>2. \A g \in HardwareHarts : Holds(g, v, c) => g = h
    BY <1>1, HeldHarts, DummiesAreHarts
  <2>3. ASSUME NEW x \in AbstractRunning \ {<<v, c>>} PROVE x \in AbstractRunning'
    <3>1. PICK u, d : x = <<u, d>> /\ \E g \in HardwareHarts : Holds(g, u, d)
      BY <2>3, RunningPairs, Zenon
    <3>2. PICK g \in HardwareHarts : Holds(g, u, d)
      BY <3>1, Zenon
    <3>3. g # h
      BY <1>1, <2>3, <3>1, <3>2, Zenon DEF Holds
    <3>4. Holds(g, u, d)'
      BY <2>1, <3>2, <3>3, Zenon
    <3> QED
      BY <3>1, <3>4, Zenon DEF AbstractRunning, Holds
  <2>4. ASSUME NEW x \in AbstractRunning' PROVE x \in AbstractRunning \ {<<v, c>>}
    <3>1. PICK g \in HardwareHarts :
             /\ Assigned(g)'
             /\ x = <<hardware_hart'[g].confidential_vm_id, hardware_hart'[g].confidential_hart_id>>
      BY <2>4, Zenon DEF AbstractRunning
    <3>2. PICK u, d : x = <<u, d>> /\ Holds(g, u, d)'
      BY <3>1, Zenon DEF Holds
    <3> QED
      BY <2>1, <2>2, <3>2, RunningHarts, Zenon
  <2> QED
    BY <1>8, <2>3, <2>4, SMTT(30)
<1>10. Abstract!Leave(v, c, hart.lifecycle_state)
  BY <1>7, <1>8, <1>9, SMTT(30) DEF Abstract!Leave
<1>11. hart.lifecycle_state \in {"Started", "StartPending", "Stopped", "Suspended", "Shutdown"}
  BY <1>1, Zenon DEF Hart, HartLifecycleState
<1> QED
  BY <1>1, <1>10, <1>11, Zenon DEF LifecycleStep, Abstract!LifecycleNext

\* steal_confidential_hart: the hart is scheduled.
LEMMA StealStep ==
    ASSUME IInv, IInv', NEW h \in HardwareHarts, NEW v \in VmIds, NEW c \in HartIds,
           resume_confidential_hart(h, v, c)
    PROVE  LifecycleStep
<1>0. PICK hart : hart = confidential_harts[v][c]
  BY ZenonT(60)
<1>1. /\ v \in confidential_vms /\ c \in DOMAIN confidential_harts[v]
      /\ ~ is_dummy(hart) /\ hart.lifecycle_state \in {"Started", "StartPending", "Suspended"}
      /\ hart.confidential_vm_id = v /\ hart.confidential_hart_id = c
      /\ hardware_hart[h] = dummy(h)
  BY <1>0 DEF resume_confidential_hart, steal_confidential_hart, is_executable, IInv, FlowGuarantee,
     ConfidentialFlow, HartTokensAreUnique, SlotsHoldTheirTokens
<1>2. /\ hardware_hart' = [hardware_hart EXCEPT ![h] = hart]
      /\ confidential_harts' = [confidential_harts EXCEPT ![v][c] = dummy(h)]
      /\ UNCHANGED confidential_vms
  BY <1>0, <1>1, Zenon DEF resume_confidential_hart, steal_confidential_hart
<1>3. /\ hardware_hart'[h] = hart
      /\ \A g \in HardwareHarts \ {h} : hardware_hart'[g] = hardware_hart[g]
  BY <1>2, Zenon DEF IInv, TypeOK, HardwareHartTypes
<1>4. \A u \in VmIds : /\ DOMAIN confidential_harts'[u] = DOMAIN confidential_harts[u]
                       /\ \A d \in DOMAIN confidential_harts[u] :
                            confidential_harts'[u][d]
                               = IF u = v /\ d = c THEN dummy(h) ELSE confidential_harts[u][d]
  BY <1>1, <1>2, Zenon DEF IInv, TypeOK, ControlDataTypes
<1>5. Lifecycle(v, c) = hart.lifecycle_state /\ ~ \E g \in HardwareHarts : Holds(g, v, c)
  BY <1>0, <1>1, EveryHart, SMTT(30)
<1>6. Lifecycle(v, c)' = hart.lifecycle_state
  BY <1>1, <1>3, <1>4, DummiesAreHarts DEF Lifecycle
<1>7. ASSUME NEW u \in VmIds, NEW d \in DOMAIN confidential_harts[u], ~ (u = v /\ d = c)
      PROVE  Lifecycle(u, d)' = Lifecycle(u, d)
  <2>1. confidential_harts'[u][d] = confidential_harts[u][d]
    BY <1>4, <1>7, Zenon
  <2>2. \A e, w : Holds(h, w, e) => w = v /\ e = c
    BY <1>1, DummiesAreHarts, SMTT(30) DEF Holds, Assigned
  <2> QED
    BY <1>3, <1>7, <2>1, <2>2, OtherHarts
<1>8. AbstractState' = AbstractState
  BY <1>4, <1>5, <1>6, <1>7, NoHart, SMTT(30)
<1>9. /\ c \in DOMAIN AbstractState[v] /\ AbstractState[v][c] = hart.lifecycle_state
      /\ <<v, c>> \notin AbstractRunning
  BY <1>1, <1>5, RunningHarts, Zenon DEF AbstractState
<1>10. AbstractRunning' = AbstractRunning \cup {<<v, c>>}
  <2>1. /\ Holds(h, v, c)'
        /\ \A g \in HardwareHarts \ {h} : \A u, d : Holds(g, u, d)' <=> Holds(g, u, d)
        /\ \A u, d : ~ Holds(h, u, d)
    BY <1>1, <1>3, DummiesAreHarts, Zenon DEF Holds, Assigned
  <2>2. ASSUME NEW x \in AbstractRunning \cup {<<v, c>>} PROVE x \in AbstractRunning'
    <3>1. CASE x = <<v, c>>
      BY <2>1, <3>1, Zenon DEF AbstractRunning, Holds
    <3>2. CASE x \in AbstractRunning
      <4>1. PICK u, d : x = <<u, d>> /\ \E g \in HardwareHarts : Holds(g, u, d)
        BY <3>2, RunningPairs, Zenon
      <4>2. PICK g \in HardwareHarts \ {h} : Holds(g, u, d)'
        BY <2>1, <4>1, Zenon
      <4> QED
        BY <4>1, <4>2, Zenon DEF AbstractRunning, Holds
    <3> QED
      BY <2>2, <3>1, <3>2, Zenon
  <2>3. ASSUME NEW x \in AbstractRunning' PROVE x \in AbstractRunning \cup {<<v, c>>}
    <3>1. PICK g \in HardwareHarts :
             /\ Assigned(g)'
             /\ x = <<hardware_hart'[g].confidential_vm_id, hardware_hart'[g].confidential_hart_id>>
      BY <2>3, Zenon DEF AbstractRunning
    <3>2. CASE g = h
      BY <1>1, <1>3, <3>1, <3>2, Zenon
    <3>3. CASE g # h
      <4>1. PICK u, d : x = <<u, d>> /\ Holds(g, u, d)'
        BY <3>1, Zenon DEF Holds
      <4> QED
        BY <2>1, <3>3, <4>1, RunningHarts, Zenon
    <3> QED
      BY <3>2, <3>3, Zenon
  <2> QED
    BY <2>2, <2>3, Zenon
<1>11. Abstract!Schedule(v, c)
  BY <1>1, <1>2, <1>8, <1>9, <1>10, Zenon DEF Abstract!Schedule, Abstract!Executable
<1> QED
  BY <1>11, Zenon DEF LifecycleStep, Abstract!LifecycleNext

-----------------------------------------------------------------------------
(* Harts of the same VM                                                    *)

\* A step after which the hardware harts hold the same tokens in the same lifecycle.
SameAssigned ==
    \A g \in HardwareHarts :
        /\ hardware_hart'[g].confidential_vm_id = hardware_hart[g].confidential_vm_id
        /\ hardware_hart'[g].confidential_hart_id = hardware_hart[g].confidential_hart_id
        /\ hardware_hart'[g].lifecycle_state = hardware_hart[g].lifecycle_state

\* Then no hart starts or stops running, and a slot that stays keeps its lifecycle.
LEMMA SameAssignedFacts ==
    ASSUME IInv, SameAssigned
    PROVE  /\ AbstractRunning' = AbstractRunning
           /\ \A u \in VmIds : \A d \in DOMAIN confidential_harts[u] :
                 confidential_harts'[u][d] = confidential_harts[u][d] => Lifecycle(u, d)' = Lifecycle(u, d)
<1>1. \A g \in HardwareHarts : \A u, d : Holds(g, u, d)' <=> Holds(g, u, d)
  BY Zenon DEF SameAssigned, Holds, Assigned, is_dummy
<1>2. ASSUME NEW u \in VmIds, NEW d \in DOMAIN confidential_harts[u],
             confidential_harts'[u][d] = confidential_harts[u][d]
      PROVE  Lifecycle(u, d)' = Lifecycle(u, d)
  <2>1. CASE is_dummy(confidential_harts[u][d])
    <3>1. PICK g \in HardwareHarts : confidential_harts[u][d] = dummy(g)
      BY <2>1, EveryHart, HeldHarts
    <3> QED
      BY <1>2, <3>1, DummiesAreHarts DEF SameAssigned, Lifecycle
  <2>2. CASE ~ is_dummy(confidential_harts[u][d])
    BY <1>2, <2>2, Zenon DEF Lifecycle
  <2> QED
    BY <2>1, <2>2, Zenon
<1> QED
  BY <1>1, <1>2, SameRunning, Zenon

\* A handler changes its own token and keeps its identity and lifecycle.
LEMMA OwnTokenAssigned ==
    ASSUME IInv, NEW h \in HardwareHarts, NEW hart, SameToken(hart, hardware_hart[h]),
           hart.lifecycle_state = hardware_hart[h].lifecycle_state,
           hardware_hart' = [hardware_hart EXCEPT ![h] = hart]
    PROVE  SameAssigned
BY SMTT(30) DEF SameAssigned, SameToken, IInv, TypeOK, HardwareHartTypes

\* A broadcast by the hart that h holds: a system reset shuts down the targets that are
\* in their slots, other requests leave the lifecycle alone.
LEMMA DeliverStep ==
    ASSUME IInv, SameAssigned, NEW h \in HardwareHarts, pc[h] \in ConfidentialFlow,
           NEW v, v = hardware_hart[h].confidential_vm_id,
           NEW request, NEW reached, NEW notified, Deliver(v, request, reached, notified),
           UNCHANGED confidential_vms
    PROVE  LifecycleStep
<1>1. PICK c : Holds(h, v, c)
  BY Zenon DEF Holds, IInv, FlowGuarantee
<1>2. /\ v \in VmIds /\ c \in DOMAIN confidential_harts[v]
      /\ <<v, c>> \in AbstractRunning
  BY <1>1, HeldHarts, RunningHarts, Zenon
<1>3. PICK harts : harts = {d \in DOMAIN confidential_harts[v] :
                              /\ d \in reached /\ ~ is_dummy(confidential_harts[v][d])
                              /\ request = "SbiSrstSystemReset"}
  BY Zenon
<1> DEFINE F(d) == IF d \in reached /\ ~ is_dummy(confidential_harts[v][d])
                   THEN apply_inter_hart_request(request, confidential_harts[v][d])
                   ELSE confidential_harts[v][d]
<1>4. confidential_harts' = [confidential_harts EXCEPT ![v] = [d \in DOMAIN confidential_harts[v] |-> F(d)]]
  BY Zenon DEF Deliver
<1>5. ASSUME NEW d \in DOMAIN confidential_harts[v]
      PROVE  IF d \in harts
             THEN F(d).lifecycle_state = "Shutdown" /\ ~ is_dummy(F(d))
             ELSE F(d) = confidential_harts[v][d]
  <2>1. confidential_harts[v][d] \in Hart
    BY <1>2, Zenon DEF IInv, TypeOK, ControlDataTypes
  <2> QED
    BY <1>3, <2>1, Zenon DEF apply_inter_hart_request, transition_to_shutdown, in_state, Hart, is_dummy
<1> HIDE DEF F
<1>6. \A u \in VmIds : confidential_harts'[u] =
          IF u = v THEN [d \in DOMAIN confidential_harts[v] |-> F(d)] ELSE confidential_harts[u]
  BY <1>2, <1>4, Zenon DEF IInv, TypeOK, ControlDataTypes
<1>7. ASSUME NEW d \in DOMAIN confidential_harts[v]
      PROVE  Lifecycle(v, d)' = IF d \in harts THEN "Shutdown" ELSE Lifecycle(v, d)
  <2>1. confidential_harts'[v][d] = F(d)
    BY <1>2, <1>6, Zenon
  <2>2. CASE d \in harts
    BY <1>5, <2>1, <2>2, Zenon DEF Lifecycle
  <2>3. CASE d \notin harts
    BY <1>2, <1>5, <2>1, <2>3, SameAssignedFacts, Zenon
  <2> QED
    BY <2>2, <2>3, Zenon
<1>8. \A u \in VmIds : DOMAIN confidential_harts'[u] = DOMAIN confidential_harts[u]
  BY <1>6, Zenon
<1>9. ASSUME NEW u \in VmIds, u # v, NEW d \in DOMAIN confidential_harts[u]
      PROVE  Lifecycle(u, d)' = Lifecycle(u, d)
  BY <1>6, <1>9, SameAssignedFacts, Zenon
<1>10. AbstractState' = [AbstractState EXCEPT ![v] =
          [d \in DOMAIN AbstractState[v] |-> IF d \in harts THEN "Shutdown" ELSE AbstractState[v][d]]]
  BY <1>2, <1>7, <1>8, <1>9, ZenonT(60) DEF AbstractState
<1>11. c \in DOMAIN AbstractState[v]
  BY <1>2, Zenon DEF AbstractState
<1>12. Abstract!Shutdown(v, harts)
  BY <1>2, <1>10, <1>11, SameAssignedFacts, Zenon DEF Abstract!Shutdown
<1>13. harts \in SUBSET HartIds
  BY <1>2, <1>3, SMTT(30) DEF IInv, TypeOK, ControlDataTypes
<1> QED
  BY <1>2, <1>12, <1>13, SMTT(30) DEF LifecycleStep, Abstract!LifecycleNext

\* Both outcomes of a broadcast.
LEMMA BroadcastStep ==
    ASSUME IInv, SameAssigned, NEW h \in HardwareHarts, pc[h] \in ConfidentialFlow,
           NEW v, v = hardware_hart[h].confidential_vm_id, NEW request, NEW selected,
           \/ broadcast_succeeds(v, request, selected)
           \/ broadcast_fails(v, request, selected),
           UNCHANGED confidential_vms
    PROVE  LifecycleStep
<1>1. \E reached, notified : Deliver(v, request, reached, notified)
  <2>1. CASE broadcast_succeeds(v, request, selected)
    BY <2>1, Zenon DEF broadcast_succeeds
  <2>2. CASE broadcast_fails(v, request, selected)
    <3>1. PICK failed \in selected :
             LET served == {c \in selected : c < failed} IN
             \/ Deliver(v, request, served, served)
             \/ Deliver(v, request, served \cup {failed}, served)
      BY <2>2, Zenon DEF broadcast_fails
    <3> QED
      BY <3>1, Zenon
  <2> QED
    BY <2>1, <2>2, Zenon
<1> QED
  BY <1>1, DeliverStep, SMTT(30)

\* sbi_hsm_hart_start: a running hart starts one of its VM that is in its slot.
LEMMA StartStep ==
    ASSUME IInv, SameAssigned, NEW h \in HardwareHarts, pc[h] \in ConfidentialFlow,
           NEW v, v = hardware_hart[h].confidential_vm_id,
           NEW target \in DOMAIN confidential_harts[v],
           confidential_harts[v][target].lifecycle_state = "Stopped",
           ~ is_dummy(confidential_harts[v][target]),
           confidential_harts' = [confidential_harts EXCEPT ![v][target] =
               transition_from_stopped_to_start_pending(confidential_harts[v][target])],
           UNCHANGED confidential_vms
    PROVE  LifecycleStep
<1>1. PICK c : Holds(h, v, c)
  BY Zenon DEF Holds, IInv, FlowGuarantee
<1>2. /\ v \in confidential_vms /\ v \in VmIds /\ c \in DOMAIN confidential_harts[v]
      /\ <<v, c>> \in AbstractRunning
  BY <1>1, HeldHarts, RunningHarts, Zenon DEF IInv, FlowGuarantee
<1>3. PICK started : started = transition_from_stopped_to_start_pending(confidential_harts[v][target])
  BY Zenon
<1>4. started.lifecycle_state = "StartPending" /\ ~ is_dummy(started)
  <2>1. confidential_harts[v][target] \in Hart
    BY <1>2, ZenonT(60) DEF IInv, TypeOK, ControlDataTypes
  <2> QED
    BY <1>3, <2>1, Zenon DEF transition_from_stopped_to_start_pending, set_pending_request,
       TrappedBetweenInstructions, in_state, Hart, is_dummy
<1>5. \A u \in VmIds : /\ DOMAIN confidential_harts'[u] = DOMAIN confidential_harts[u]
                       /\ \A d \in DOMAIN confidential_harts[u] :
                            confidential_harts'[u][d]
                               = IF u = v /\ d = target THEN started ELSE confidential_harts[u][d]
  BY <1>2, <1>3, SMTT(30) DEF IInv, TypeOK, ControlDataTypes
<1>6. Lifecycle(v, target)' = "StartPending"
  BY <1>2, <1>4, <1>5, ZenonT(60) DEF Lifecycle
<1>7. \A u \in VmIds : \A d \in DOMAIN confidential_harts[u] :
          ~ (u = v /\ d = target) => Lifecycle(u, d)' = Lifecycle(u, d)
  BY <1>5, SameAssignedFacts
<1>8. AbstractState' = [AbstractState EXCEPT ![v][target] = "StartPending"]
  <2>1. \A u \in VmIds : /\ DOMAIN confidential_harts'[u] = DOMAIN confidential_harts[u]
                         /\ \A d \in DOMAIN confidential_harts[u] :
                              Lifecycle(u, d)' = IF u = v /\ d = target THEN "StartPending" ELSE Lifecycle(u, d)
    BY <1>5, <1>6, <1>7, Zenon
  <2> QED
    BY <1>2, <2>1, OneHart, SMTT(60)
<1>9. Lifecycle(v, target) = "Stopped" /\ <<v, target>> \notin AbstractRunning
  BY <1>2, EveryHart, RunningHarts, Zenon
<1>10. /\ target \in DOMAIN AbstractState[v] /\ c \in DOMAIN AbstractState[v]
       /\ AbstractState[v][target] = "Stopped"
  BY <1>2, <1>9, Zenon DEF AbstractState
<1>11. Abstract!Start(v, target)
  BY <1>2, <1>8, <1>9, <1>10, SameAssignedFacts, Zenon DEF Abstract!Start
<1>12. target \in HartIds
  BY <1>2, Zenon DEF IInv, TypeOK, ControlDataTypes
<1> QED
  BY <1>2, <1>11, <1>12, Zenon DEF LifecycleStep, Abstract!LifecycleNext

-----------------------------------------------------------------------------
(* The set of VMs                                                          *)

\* Replacing the slots of one VM.
LEMMA OneVm ==
    ASSUME IInv, NEW v \in VmIds, NEW harts,
           confidential_harts' = [confidential_harts EXCEPT ![v] = harts],
           UNCHANGED hardware_hart
    PROVE  /\ AbstractRunning' = AbstractRunning
           /\ AbstractState' = [AbstractState EXCEPT ![v] = [c \in DOMAIN harts |-> Lifecycle(v, c)']]
           /\ confidential_harts'[v] = harts
<1>1. SameAssigned
  BY Zenon DEF SameAssigned
<1>2. \A u \in VmIds : confidential_harts'[u] = IF u = v THEN harts ELSE confidential_harts[u]
  BY Zenon DEF IInv, TypeOK, ControlDataTypes
<1>3. \A u \in VmIds \ {v} : \A d \in DOMAIN confidential_harts[u] : Lifecycle(u, d)' = Lifecycle(u, d)
  BY <1>1, <1>2, SameAssignedFacts, Zenon
<1>4. AbstractState' = [AbstractState EXCEPT ![v] = [c \in DOMAIN harts |-> Lifecycle(v, c)']]
  BY <1>2, <1>3, ZenonT(60) DEF AbstractState
<1> QED
  BY <1>1, <1>2, <1>4, SameAssignedFacts, Zenon

\* remove_confidential_vm: the VM goes, or nothing happens.
LEMMA RemoveStep ==
    ASSUME IInv, NEW v \in VmIds \cup {NoVm}, remove_confidential_vm(v), UNCHANGED hardware_hart
    PROVE  LifecycleStep
<1>1. CASE v \in confidential_vms /\ are_all_harts_shutdown(v)
  <2>1. /\ v \in VmIds
        /\ confidential_vms' = confidential_vms \ {v}
        /\ confidential_harts' = [confidential_harts EXCEPT ![v] = <<>>]
    BY <1>1, Zenon DEF remove_confidential_vm, IInv, TypeOK, ControlDataTypes
  <2>2. PICK harts : harts = << >>
    BY Zenon
  <2>3. /\ AbstractRunning' = AbstractRunning
        /\ AbstractState' = [AbstractState EXCEPT ![v] = [c \in DOMAIN harts |-> Lifecycle(v, c)']]
    BY <2>1, <2>2, OneVm, Zenon
  <2>4. [c \in DOMAIN harts |-> Lifecycle(v, c)'] = << >>
    BY <2>2
  <2>5. ASSUME NEW c \in DOMAIN AbstractState[v]
        PROVE  AbstractState[v][c] = "Shutdown" /\ <<v, c>> \notin AbstractRunning
    <3>1. c \in DOMAIN confidential_harts[v] /\ AbstractState[v][c] = Lifecycle(v, c)
      BY <2>1, <2>5, Zenon DEF AbstractState
    <3>2. confidential_harts[v][c].lifecycle_state = "Shutdown"
      BY <1>1, <3>1, SMTT(30) DEF are_all_harts_shutdown
    <3>3. ~ is_dummy(confidential_harts[v][c])
      BY <2>1, <3>1, <3>2, EveryHart, HeldHarts, DummiesAreHarts
    <3> QED
      BY <2>1, <3>1, <3>2, <3>3, EveryHart, RunningHarts, Zenon
  <2>6. Abstract!Remove(v)
    BY <1>1, <2>1, <2>3, <2>4, <2>5, SMTT(30) DEF Abstract!Remove
  <2> QED
    BY <2>1, <2>6, Zenon DEF LifecycleStep, Abstract!LifecycleNext
<1>2. CASE ~ (v \in confidential_vms /\ are_all_harts_shutdown(v))
  <2>1. UNCHANGED <<confidential_vms, confidential_harts>>
    BY <1>2, Zenon DEF remove_confidential_vm
  <2> QED
    BY <2>1, Zenon DEF LifecycleStep, AbstractState, AbstractRunning, Lifecycle, Assigned
<1> QED
  BY <1>1, <1>2, Zenon

\* promote_to_confidential_vm: a VM with a started boot hart.
LEMMA PromoteStep ==
    ASSUME IInv, NEW h \in HardwareHarts, NEW v \in VmIds, NEW n \in 0 .. MaxHarts,
           promote_to_confidential_vm(h, v, n)
    PROVE  LifecycleStep
<1>1. PICK harts : harts = [c \in 0 .. (n - 1) |->
                              IF c = 0 THEN from_vm_hart(v, c) ELSE from_vm_hart_reset(v, c)]
  BY Zenon
<1>2. /\ v \notin confidential_vms
      /\ confidential_vms' = confidential_vms \cup {v}
      /\ confidential_harts' = [confidential_harts EXCEPT ![v] = harts]
      /\ UNCHANGED hardware_hart
  BY <1>1 DEF promote_to_confidential_vm, insert_confidential_vm, unique_id, VmIds, IInv, TypeOK, ControlDataTypes
<1>3. /\ AbstractRunning' = AbstractRunning
      /\ AbstractState' = [AbstractState EXCEPT ![v] = [c \in DOMAIN harts |-> Lifecycle(v, c)']]
      /\ confidential_harts'[v] = harts
  BY <1>2, OneVm, Zenon
<1>4. DOMAIN harts = 0 .. (n - 1) /\ 0 .. (n - 1) \in SUBSET HartIds
  BY <1>1, ConstantsAssumption DEF promote_to_confidential_vm, HartIds
<1>5. ASSUME NEW c \in 0 .. (n - 1)
      PROVE  Lifecycle(v, c)' = IF c = 0 THEN "Started" ELSE "Stopped"
  <2>1. harts[c] = IF c = 0 THEN from_vm_hart(v, c) ELSE from_vm_hart_reset(v, c)
    BY <1>1, Zenon
  <2>2. /\ harts[c].lifecycle_state = IF c = 0 THEN "Started" ELSE "Stopped"
        /\ ~ is_dummy(harts[c])
    BY <2>1, ConstantsAssumption DEF from_vm_hart, from_vm_hart_reset, is_dummy
  <2> QED
    BY <1>3, <2>2, Zenon DEF Lifecycle
<1>6. Abstract!Create(v, 0 .. (n - 1))
  BY <1>2, <1>3, <1>4, <1>5, Zenon DEF Abstract!Create
<1> QED
  BY <1>4, <1>6, Zenon DEF LifecycleStep, Abstract!LifecycleNext

-----------------------------------------------------------------------------
(* Every critical section                                                  *)

\* What the transformations do to the lifecycle of a token.
LEMMA LifecycleOfTransformations ==
    ASSUME NEW hart \in Hart
    PROVE  /\ TrappedOnInstruction(hart).lifecycle_state = hart.lifecycle_state
           /\ TrappedBetweenInstructions(hart).lifecycle_state = hart.lifecycle_state
           /\ AnsweredAtOnce(hart).lifecycle_state = hart.lifecycle_state
           /\ apply_result(hart).lifecycle_state = hart.lifecycle_state
           /\ \A request : set_pending_request(hart, request).lifecycle_state = hart.lifecycle_state
           /\ transition_from_started_to_stopped(hart).lifecycle_state = "Stopped"
           /\ transition_from_started_to_suspended(hart).lifecycle_state = "Suspended"
           /\ transition_to_shutdown(hart).lifecycle_state = "Shutdown"
           /\ \A queue : apply_all(queue, hart).lifecycle_state \in {hart.lifecycle_state, "Shutdown"}
           /\ \/ apply_pending(hart).lifecycle_state = hart.lifecycle_state
              \/ hart.lifecycle_state = "StartPending" /\ apply_pending(hart).lifecycle_state = "Started"
<1>1. apply_pending(hart).lifecycle_state =
         IF hart.pending_request = "SbiHsmHartStartPending" /\ hart.lifecycle_state = "StartPending"
         THEN "Started" ELSE hart.lifecycle_state
  BY Zenon DEF apply_pending, set_pending_request, transition_from_start_pending_to_started, apply_result, in_state, Hart
<1> QED
  BY <1>1, Zenon DEF TrappedOnInstruction, TrappedBetweenInstructions, AnsweredAtOnce, apply_result, set_pending_request,
     transition_from_started_to_stopped, transition_from_started_to_suspended, transition_to_shutdown, in_state,
     apply_all, Hart

\* Requests applied to a token, and the reply of the hypervisor after them.
LEMMA AppliedRequests ==
    ASSUME NEW hart \in Hart
    PROVE  /\ \A queue : /\ SameToken(apply_all(queue, hart), hart)
                         /\ apply_all(queue, hart).lifecycle_state \in {hart.lifecycle_state, "Shutdown"}
           /\ SameToken(apply_pending(hart), hart)
           /\ SameToken(set_pending_request(hart, "None"), hart)
           /\ set_pending_request(hart, "None").lifecycle_state = hart.lifecycle_state
           /\ \/ apply_pending(hart).lifecycle_state = hart.lifecycle_state
              \/ hart.lifecycle_state = "StartPending" /\ apply_pending(hart).lifecycle_state = "Started"
<1>1. \A queue : SameToken(apply_all(queue, hart), hart)
  BY TransformationsKeepToken, Zenon
<1>2. SameToken(apply_pending(hart), hart) /\ SameToken(set_pending_request(hart, "None"), hart)
  BY TransformationsKeepToken, Zenon
<1> QED
  BY <1>1, <1>2, LifecycleOfTransformations

\* Steps that touch neither tokens nor VMs.
LEMMA StutterStep ==
    ASSUME UNCHANGED <<confidential_vms, confidential_harts, hardware_hart>>
    PROVE  LifecycleStep
BY Zenon DEF LifecycleStep, AbstractState, AbstractRunning, Lifecycle, Assigned

\* Leaving the handler with a token whose lifecycle is that of the hart that trapped.
LEMMA LeaveStep ==
    ASSUME IInv, IInv', NEW h \in HardwareHarts, pc[h] \in ConfidentialFlow,
           NEW hart, SameToken(hart, hardware_hart[h]),
           hart.lifecycle_state = hardware_hart[h].lifecycle_state
    PROVE  /\ into_non_confidential_flow(h, hart, "hypervisor") => LifecycleStep
           /\ exit_to_confidential_hart(h, hart) => LifecycleStep
           /\ \A request \in PendingRequest : request_from_hypervisor(h, hart, request) => LifecycleStep
<1>1. ASSUME NEW next, SameToken(next, hardware_hart[h]),
             next.lifecycle_state = hardware_hart[h].lifecycle_state
      PROVE  /\ into_non_confidential_flow(h, next, "hypervisor") => LifecycleStep
             /\ exit_to_confidential_hart(h, next) => LifecycleStep
  <2>1. into_non_confidential_flow(h, next, "hypervisor") => LifecycleStep
    BY <1>1, ReturnStep, Zenon DEF into_non_confidential_flow
  <2>2. exit_to_confidential_hart(h, next) => LifecycleStep
    BY <1>1, OwnTokenStep, Zenon DEF exit_to_confidential_hart
  <2> QED
    BY <2>1, <2>2, SMTT(30)
<1>2. hart \in Hart
  BY ZenonT(60) DEF SameToken
<1>3. ASSUME NEW request \in PendingRequest
      PROVE  /\ SameToken(set_pending_request(hart, request), hardware_hart[h])
             /\ set_pending_request(hart, request).lifecycle_state = hardware_hart[h].lifecycle_state
  <2>1. SameToken(set_pending_request(hart, request), hart)
    BY <1>2, TransformationsKeepToken, SMTT(30)
  <2> QED
    BY <1>2, <2>1, LifecycleOfTransformations, SMTT(60) DEF SameToken
<1>4. /\ SameToken(apply_result(hart), hardware_hart[h])
      /\ apply_result(hart).lifecycle_state = hardware_hart[h].lifecycle_state
  <2>1. SameToken(apply_result(hart), hart)
    BY <1>2, TransformationsKeepToken, Zenon
  <2> QED
    BY <1>2, <2>1, LifecycleOfTransformations, ZenonT(60) DEF SameToken
<1> QED
  BY <1>1, <1>3, <1>4, Zenon DEF request_from_hypervisor

\* Every critical section of a hardware hart in the confidential flow.
LEMMA ConfidentialStepRefines ==
    ASSUME IInv, IInv', NEW h \in HardwareHarts, ConfidentialStep(h)
    PROVE  LifecycleStep
<1> DEFINE hart == hardware_hart[h]
           v == hart.confidential_vm_id
           Alike(next) == SameToken(next, hart) /\ next.lifecycle_state = hart.lifecycle_state
<1>1. hart \in Hart
  BY SMTT(30) DEF IInv, TypeOK, HardwareHartTypes
<1>2. /\ Alike(hart) /\ Alike(Trapped(h)) /\ Alike(TrappedOnInstruction(hart))
      /\ Alike(TrappedBetweenInstructions(hart)) /\ Alike(AnsweredAtOnce(hart)) /\ Alike(apply_result(hart))
  BY <1>1, TransformationsKeepToken, LifecycleOfTransformations, Zenon DEF Trapped
<1>3. /\ SameToken(transition_from_started_to_stopped(Trapped(h)), hart)
      /\ transition_from_started_to_stopped(Trapped(h)).lifecycle_state = "Stopped"
      /\ SameToken(transition_from_started_to_suspended(Trapped(h)), hart)
      /\ transition_from_started_to_suspended(Trapped(h)).lifecycle_state = "Suspended"
  <2>1. Trapped(h) \in Hart /\ SameToken(Trapped(h), hart)
    BY <1>2, Zenon DEF SameToken
  <2>2. /\ SameToken(transition_from_started_to_stopped(Trapped(h)), Trapped(h))
        /\ SameToken(transition_from_started_to_suspended(Trapped(h)), Trapped(h))
    BY <2>1, TransformationsKeepToken, Zenon
  <2>3. \A next, further : SameToken(next, hart) /\ SameToken(further, next) => SameToken(further, hart)
    BY SMTT(30) DEF SameToken
  <2> QED
    BY <2>1, <2>2, <2>3, LifecycleOfTransformations, Zenon
<1>4. /\ SameToken(Drained(h), hart)
      /\ Drained(h).lifecycle_state \in {hart.lifecycle_state, "Shutdown"}
  BY <1>1, AppliedRequests, Zenon DEF Drained
<1>5. /\ SameToken(apply_pending(Drained(h)), hart)
      /\ SameToken(set_pending_request(Drained(h), "None"), hart)
      /\ set_pending_request(Drained(h), "None").lifecycle_state = Drained(h).lifecycle_state
      /\ \/ apply_pending(Drained(h)).lifecycle_state = Drained(h).lifecycle_state
         \/ Drained(h).lifecycle_state = "StartPending" /\ apply_pending(Drained(h)).lifecycle_state = "Started"
  <2>1. Drained(h) \in Hart
    BY <1>4, Zenon DEF SameToken
  <2>2. /\ SameToken(apply_pending(Drained(h)), Drained(h))
        /\ SameToken(set_pending_request(Drained(h), "None"), Drained(h))
    BY <2>1, AppliedRequests, Zenon
  <2>3. \A next, further : SameToken(next, hart) /\ SameToken(further, next) => SameToken(further, hart)
    BY Zenon DEF SameToken
  <2> QED
    BY <1>4, <2>1, <2>2, <2>3, AppliedRequests, Zenon
<1>6. \A trap : Trap(h, trap) => pc[h] \in ConfidentialFlow
  BY Zenon DEF Trap, ConfidentialFlow
<1>7. /\ {"interrupt", "preempted", "hart_started", "share_page_result", "shutdown", "resume"} \subseteq ConfidentialFlow
      /\ {"SharePage", "GuestLoadPageFault", "GuestStorePageFault", "SbiHsmHartStart", "SbiRequest"} \subseteq PendingRequest
  BY SMTT(30) DEF ConfidentialFlow, PendingRequest
<1> HIDE DEF hart, v
<1>8. ASSUME pc[h] \in ConfidentialFlow
      PROVE  /\ answer(h) => LifecycleStep
             /\ panic(h) => LifecycleStep
             /\ \A request \in PendingRequest :
                  /\ request_from_hypervisor(h, Trapped(h), request) => LifecycleStep
                  /\ page_fault(h, request) => LifecycleStep
  <2>1. panic(h) => LifecycleStep
    BY StutterStep, SMTT(30) DEF panic
  <2> QED
    BY <1>2, <1>8, <2>1, LeaveStep, Zenon DEF answer, page_fault, hart
<1>9. CASE interrupt(h)
  BY <1>2, <1>6, <1>9, OwnTokenStep, Zenon DEF interrupt, hart
<1>10. CASE interrupt_process(h)
  BY <1>4, <1>7, <1>10, OwnTokenStep, Zenon DEF interrupt_process, process_inter_hart_requests, hart
<1>11. CASE resume_confidential_hart_execution(h)
  BY <1>4, <1>5, <1>7, <1>11, OwnTokenStep, Zenon DEF resume_confidential_hart_execution, process_inter_hart_requests, hart
<1>12. CASE interrupt_exit(h) \/ sbi_hsm_hart_start_exit(h) \/ share_page_result(h)
  BY <1>2, <1>7, <1>12, LeaveStep, Zenon DEF interrupt_exit, sbi_hsm_hart_start_exit, share_page_result, hart
<1>13. CASE \/ hypercall(h) \/ share_page(h) \/ unshare_page(h) \/ guest_load_page_fault(h)
            \/ guest_store_page_fault(h) \/ implicit_page_fault(h) \/ sbi_probe_extension(h) \/ sbi_rfence_nop(h)
            \/ sbi_hsm_hart_status(h) \/ invalid_call(h) \/ virtual_instruction_request(h) \/ unrouted_trap(h)
  BY <1>6, <1>7, <1>8, <1>13, SMTT(30) DEF hypercall, share_page, unshare_page, guest_load_page_fault, guest_store_page_fault,
     implicit_page_fault, sbi_probe_extension, sbi_rfence_nop, sbi_hsm_hart_status, invalid_call, virtual_instruction_request,
     unrouted_trap
<1>14. CASE sbi_hsm_hart_stop(h) \/ sbi_hsm_hart_suspend(h)
  BY <1>3, <1>6, <1>8, <1>14, ReturnStep, ZenonT(60) DEF sbi_hsm_hart_stop, sbi_hsm_hart_suspend, into_non_confidential_flow, hart
<1>15. CASE sbi_ipi(h)
  <2>1. PICK request, selected :
           /\ pc[h] = "guest"
           /\ \/ broadcast_succeeds(v, request, selected)
              \/ broadcast_fails(v, request, selected)
    BY <1>15, SMTT(30) DEF sbi_ipi, Trap, v, hart
  <2>2. SameAssigned /\ UNCHANGED confidential_vms
    BY <1>2, <1>15, OwnTokenAssigned, Zenon DEF sbi_ipi, hart
  <2>3. pc[h] \in ConfidentialFlow
    BY <2>1, Zenon DEF ConfidentialFlow
  <2> QED
    BY <2>1, <2>2, <2>3, BroadcastStep, SMTT(60) DEF hart, v
<1>16. CASE sbi_srst(h)
  <2>1. PICK selected :
           /\ pc[h] = "guest"
           /\ \/ broadcast_succeeds(v, "SbiSrstSystemReset", selected)
              \/ broadcast_fails(v, "SbiSrstSystemReset", selected)
    BY <1>16, SMTT(30) DEF sbi_srst, Trap, v, hart
  <2>2. SameAssigned /\ UNCHANGED confidential_vms
    BY <1>2, <1>16, OwnTokenAssigned, Zenon DEF sbi_srst, hart
  <2>3. pc[h] \in ConfidentialFlow
    BY <2>1, Zenon DEF ConfidentialFlow
  <2> QED
    BY <2>1, <2>2, <2>3, BroadcastStep, SMTT(60) DEF hart, v
<1>17. ASSUME NEW target \in HartIds, sbi_hsm_hart_start(h, target)
       PROVE  LifecycleStep
  <2>1. pc[h] \in ConfidentialFlow
    BY <1>6, <1>17, Zenon DEF sbi_hsm_hart_start
  <2>2. CASE answer(h)
    BY <1>8, <2>1, <2>2, SMTT(30)
  <2>3. CASE ~ answer(h)
    <3>1. /\ target \in DOMAIN confidential_harts[v]
          /\ confidential_harts[v][target].lifecycle_state = "Stopped"
          /\ ~ is_dummy(confidential_harts[v][target])
          /\ confidential_harts' = [confidential_harts EXCEPT ![v][target] =
                transition_from_stopped_to_start_pending(confidential_harts[v][target])]
          /\ hardware_hart' = [hardware_hart EXCEPT ![h] = TrappedOnInstruction(hart)]
          /\ UNCHANGED confidential_vms
      BY <1>17, <2>3, Zenon DEF sbi_hsm_hart_start, hart, v
    <3>2. SameAssigned
      BY <1>2, <3>1, OwnTokenAssigned, Zenon DEF hart
    <3> QED
      BY <2>1, <3>1, <3>2, StartStep, Zenon DEF hart, v
  <2> QED
    BY <2>2, <2>3, Zenon
<1>18. CASE shutdown_confidential_hart(h)
  <2>1. SameToken(transition_to_shutdown(hart), hart) /\ transition_to_shutdown(hart).lifecycle_state = "Shutdown"
    BY <1>1, TransformationsKeepToken, LifecycleOfTransformations, Zenon
  <2> QED
    BY <1>7, <1>18, <2>1, ReturnStep, Zenon DEF shutdown_confidential_hart, hart
<1>19. CASE shutdown_remove(h)
  <2>1. removing[h] \in VmIds \cup {NoVm}
    BY Zenon DEF IInv, TypeOK, HardwareHartTypes
  <2> QED
    BY <1>19, <2>1, RemoveStep, Zenon DEF shutdown_remove
<1> QED
  BY <1>9, <1>10, <1>11, <1>12, <1>13, <1>14, <1>15, <1>16, <1>17, <1>18, <1>19, Zenon DEF ConfidentialStep

\* Every call of the hypervisor.
LEMMA HypervisorStepRefines ==
    ASSUME IInv, IInv', NEW h \in HardwareHarts, HypervisorStep(h)
    PROVE  LifecycleStep
<1>1. ASSUME NEW v \in VmIds, terminate_confidential_vm(h, v)
      PROVE  LifecycleStep
  BY <1>1, RemoveStep, Zenon DEF terminate_confidential_vm
<1>2. CASE delegate_to_opensbi(h)
  BY <1>2, StutterStep, Zenon DEF delegate_to_opensbi
<1> QED
  BY <1>1, <1>2, PromoteStep, StealStep, Zenon DEF HypervisorStep

\* The flows and the control data of the security monitor implement the hart lifecycle:
\* whatever hardware harts do concurrently, a hart is created, scheduled, started, begun,
\* stopped, suspended, shut down and removed only as HartLifecycle allows.
THEOREM LifecycleRefinement == Spec => ImplementsHartLifecycle
<1>1. Init => Abstract!LifecycleInit
  <2> SUFFICES ASSUME Init PROVE Abstract!LifecycleInit
    BY Zenon
  <2>1. \A h \in HardwareHarts : ~ Assigned(h)
    BY DummiesAreHarts, Zenon DEF Init, Assigned
  <2>2. AbstractRunning = {}
    BY <2>1, Zenon DEF AbstractRunning
  <2>3. \A v \in VmIds : [c \in DOMAIN confidential_harts[v] |-> Lifecycle(v, c)] = << >>
    BY DEF Init
  <2>4. AbstractState = [v \in VmIds |-> << >>]
    BY <2>3, Zenon DEF AbstractState
  <2> QED
    BY <2>2, <2>4, Zenon DEF Init, Abstract!LifecycleInit
<1>2. IInv /\ IInv' /\ [Next]_vars => [Abstract!LifecycleNext]_(Abstract!lifecycleVars)
  <2> SUFFICES ASSUME IInv, IInv', [Next]_vars
               PROVE  LifecycleStep
    BY Zenon DEF LifecycleStep, Abstract!lifecycleVars
  <2>1. CASE Next
    BY <2>1, ConfidentialStepRefines, HypervisorStepRefines, Zenon DEF Next
  <2>2. CASE UNCHANGED vars
    BY <2>2, StutterStep, Zenon DEF vars
  <2> QED
    BY <2>1, <2>2, Zenon
<1> QED
  BY <1>1, <1>2, InductiveInvariant, PTL DEF Spec, ImplementsHartLifecycle, Abstract!LifecycleSpec
==============================================================================
