------------------------- MODULE MonitorLocksProofs -------------------------
(***************************************************************************)
(* For any number of hardware harts, VMs and confidential harts the        *)
(* monitor does not deadlock, the unwraps of its handlers do not fail, and *)
(* its critical sections are atomic: MonitorLocks implements               *)
(* HartLifecycle.  The step that writes under the guards is the step of    *)
(* the lifecycle; what the hart checked before is still true then, by the  *)
(* inductive invariant.                                                    *)
(***************************************************************************)
EXTENDS MonitorLocksSteps

(* The map of the confidential VMs                                         *)

\* A step that changes the map, under its write lock.
LEMMA OnlyMap ==
    ASSUME Inv, NEW h \in HardwareHarts, Has(held[h], CdWrite),
           held' = held, hardware_hart' = hardware_hart,
           DOMAIN confidential_vms' \subseteq VmIds,
           confidential_vms' \in [DOMAIN confidential_vms' -> [HartIds -> Slots]],
           inter_hart_requests' \in [DOMAIN confidential_vms' -> [HartIds -> Nat]],
           Ownership', NEW w, NEW e, HartNow(h, w, e), NEW x, Path(x, Tail(todo[h]), e),
           x.stack = w.stack, x.own = w.own, x.fact = Nothing, Then(h, <<>>)
    PROVE  Inv'
<1>1. Types /\ Exclusion /\ hardware_hart \in [HardwareHarts -> Assignments]
      /\ held \in [HardwareHarts -> Seq(LockSet)]
  BY Zenon DEF Inv, Types
<1>2. e.stack = <<>> /\ w.stack = held[h] /\ w.own = Own(h) /\ Guarded(w)
  BY Zenon DEF HartNow
<1>3. \A g : Own(g)' = Own(g)
  BY Zenon DEF Own
<1>4. /\ HartInv(h)' /\ todo' \in [HardwareHarts -> Seq(StepSet)]
      /\ \A g \in HardwareHarts : g # h => todo'[g] = todo[g]
  <2>1. Guarded(x) /\ FactHolds(x.fact)'
    BY <1>2 DEF Guarded, FactHolds, Nothing
  <2>2. x.stack = held'[h] /\ x.own = Own(h)'
    BY <1>2, <1>3, Zenon
  <2>. QED  BY <2>1, <2>2, <1>1, <1>2, GoesOnAt
<1>5. Types'
  BY <1>1, <1>4, Zenon DEF Types
<1>6. Exclusion'
  BY <1>1, Zenon DEF Exclusion
<1>7. ASSUME NEW g \in HardwareHarts, g # h PROVE HartInv(g)'
  <2>1. HartInv(g) /\ todo'[g] = todo[g] /\ held'[g] = held[g] /\ Own(g)' = Own(g)
    BY <1>3, <1>4, <1>7, Zenon DEF Inv
  <2>2. ~HasCd(held[g])
    BY <1>1, <1>7, Excluded, Zenon
  <2>. QED  BY <2>1, <2>2, OtherMap, Zenon
<1>. QED  BY <1>4, <1>5, <1>6, <1>7, Zenon DEF Inv

\* A VM is taken out of the map: all its harts are in their slots.
LEMMA RemovePreserves ==
    ASSUME Inv, NEW h \in HardwareHarts, remove(h)
    PROVE  Inv'
<1>1. Types /\ HartInv(h) /\ Ownership
  BY Zenon DEF Inv
<1>2. PICK s : s = Head(todo[h])
  BY Zenon
<1>3. PICK v, left : v = s.vm /\ left = DOMAIN confidential_vms \ {v}
  BY Zenon
<1>4. /\ todo[h] # <<>> /\ s.do = "remove" /\ held' = held /\ hardware_hart' = hardware_hart
      /\ confidential_vms' = [u \in left |-> confidential_vms[u]]
      /\ inter_hart_requests' = [u \in left |-> inter_hart_requests[u]]
      /\ Then(h, <<>>)
  BY <1>2, <1>3, Zenon DEF remove, At
<1>5. PICK w, x, e : /\ w \in Local /\ x \in Local /\ HartNow(h, w, e) /\ s \in StepSet
                     /\ Trans(w, s, x) /\ Path(x, Tail(todo[h]), e)
  BY <1>1, <1>2, <1>4, AtStep
<1>6. Has(w.stack, CdWrite) /\ w.fact = ShutdownFact(v) /\ x = L(w.stack, w.own, Nothing)
  BY <1>3, <1>4, <1>5, Zenon DEF Trans
<1>7. Has(held[h], CdWrite) /\ FactHolds(w.fact) /\ Guarded(w)
  BY <1>5, <1>6, SMTT(30) DEF HartNow
<1>8. x.stack = w.stack /\ x.own = w.own /\ x.fact = Nothing
  <2>1. w.own \in Owner /\ Nothing \in Facts /\ Nothing.kind = "nothing"
    BY <1>5, LocalFields, Ids, AreFacts
  <2>. QED  BY <2>1, <1>5, <1>6, <1>7, NewFact, SMTT(30)
<1>9. v \in DOMAIN confidential_vms /\ \A d \in HartIds : confidential_vms[v][d] = "Shutdown"
  BY <1>6, <1>7 DEF FactHolds, ShutdownFact
<1>10. PICK A, B, H : A = confidential_vms /\ B = confidential_vms' /\ H = hardware_hart
  BY Zenon
<1>11. /\ DOMAIN B = left /\ left \subseteq DOMAIN A /\ \A u \in left : B[u] = A[u]
  BY <1>3, <1>4, <1>10, Zenon
<1>12. /\ left \subseteq VmIds /\ B \in [left -> [HartIds -> Slots]]
       /\ inter_hart_requests' \in [left -> [HartIds -> Nat]]
  BY <1>1, <1>3, <1>4, <1>10, Zenon DEF Types
<1>13. OwnershipOf(A, H)
  BY <1>1, <1>10, SMTT(30) DEF Ownership
<1>14. OwnershipOf(B, H)
  <2>1. ASSUME NEW g \in HardwareHarts, H[g] # None
        PROVE  H[g].vm \in DOMAIN B /\ B[H[g].vm][H[g].hart] = None
    <3>1. H[g].vm \in DOMAIN A /\ A[H[g].vm][H[g].hart] = None
      BY <2>1, <1>13, Zenon DEF OwnershipOf
    <3>2. H[g].hart \in HartIds
      BY <2>1, <1>1, <1>10, Zenon DEF Types, Assignments, AssignedHart
    <3>3. "Shutdown" # None
      BY NoneApart, Zenon DEF HartStates
    <3>4. H[g].vm # v
      BY <3>1, <3>2, <3>3, <1>9, <1>10, SMTT(30)
    <3>. QED  BY <3>1, <3>4, <1>3, <1>10, <1>11, SMTT(30)
  <2>2. ASSUME NEW u \in DOMAIN B, NEW c \in HartIds, B[u][c] = None
        PROVE  \E g \in HardwareHarts : H[g] # None /\ H[g].vm = u /\ H[g].hart = c
    <3>1. u \in DOMAIN A /\ A[u][c] = None
      BY <2>2, <1>11
    <3>. QED  BY <3>1, <1>13, ZenonT(60) DEF OwnershipOf
  <2>. QED  BY <2>1, <2>2, <1>13, Zenon DEF OwnershipOf
<1>15. Ownership'
  BY <1>4, <1>10, <1>14, Zenon DEF Ownership
<1>. QED  BY <1>4, <1>5, <1>7, <1>8, <1>10, <1>11, <1>12, <1>15, OnlyMap, SMTT(30)

-----------------------------------------------------------------------------
(* Waiting harts, and the steps of the lifecycle                           *)

\* The invariant holds at the start.
LEMMA Initial == Init => Inv
<1>. SUFFICES ASSUME Init PROVE Inv
  BY Zenon
<1>1. DOMAIN confidential_vms = {}
  BY DEF Init
<1>2. Types
  <2>1. confidential_vms \in [{} -> [HartIds -> Slots]]
    BY DEF Init
  <2>2. inter_hart_requests \in [{} -> [HartIds -> Nat]]
    BY DEF Init
  <2>3. hardware_hart \in [HardwareHarts -> Assignments]
    BY NoneApart, Zenon DEF Init
  <2>4. todo \in [HardwareHarts -> Seq(StepSet)] /\ held \in [HardwareHarts -> Seq(LockSet)]
    BY DEF Init
  <2>. QED  BY <2>1, <2>2, <2>3, <2>4, <1>1 DEF Types
<1>3. Ownership /\ Exclusion
  BY <1>1, Zenon DEF Init, Ownership, OwnershipOf, Exclusion
<1>4. ASSUME NEW h \in HardwareHarts PROVE HartInv(h)
  <2>1. Own(h) = NoOne /\ todo[h] = <<>> /\ held[h] = <<>> /\ NoOne \in Owner
    BY Zenon DEF Init, Own, Owner
  <2>2. PICK i : i = Idle(NoOne)
    BY Zenon
  <2>3. i \in Local /\ i.stack = <<>> /\ i.own = NoOne /\ i.fact = Nothing
    BY <2>1, <2>2, IdleFields, Zenon
  <2>4. Path(i, <<>>, i)
    BY <2>3, PathNil, Zenon
  <2>5. FactHolds(i.fact) /\ Guarded(i)
    BY <2>3 DEF FactHolds, Guarded, Ordered, Nothing
  <2>6. HartNow(h, i, i)
    BY <2>1, <2>3, <2>4, <2>5, Zenon DEF HartNow
  <2>. QED  BY <2>6, Zenon DEF HartInv
<1>. QED  BY <1>2, <1>3, <1>4, Zenon DEF Inv

\* The rank of the lock a hart waits for.
Awaited(h) == Rank(Head(todo[h]).lock)

\* It is above the ranks of the locks the hart holds: a hart that blocks another waits,
\* if at all, for a lock of higher rank.
LEMMA Waits ==
    ASSUME Inv, NEW h \in HardwareHarts, NEW g \in HardwareHarts, g \in Blockers(h)
    PROVE  /\ Awaited(h) \in 1 .. 4
           /\ Blockers(g) # {} => Awaited(h) < Awaited(g)
<1>1. ASSUME NEW k \in HardwareHarts, Blockers(k) # {}
      PROVE  /\ Head(todo[k]).lock \in LockSet
             /\ \A i \in DOMAIN held[k] : Rank(held[k][i]) < Awaited(k)
  <2>1. todo[k] # <<>> /\ Head(todo[k]).do = "acquire"
    BY <1>1, Zenon DEF Blockers
  <2>2. HartInv(k)
    BY Zenon DEF Inv
  <2>3. PICK w, x, e : /\ HartNow(k, w, e) /\ Head(todo[k]) \in StepSet
                       /\ Trans(w, Head(todo[k]), x)
    BY <2>1, <2>2, AtStep, SMTT(30)
  <2>4. Above(w.stack, Head(todo[k]).lock) /\ w.stack = held[k]
    BY <2>1, <2>3, Zenon DEF Trans, HartNow
  <2>. QED  BY <2>1, <2>3, <2>4, StepFields DEF Above, Low, Awaited
<1>2. PICK i \in DOMAIN held[g] : Conflict(held[g][i], Head(todo[h]).lock)
  BY Zenon DEF Blockers
<1>3. Rank(held[g][i]) = Awaited(h)
  BY <1>2, Zenon DEF Conflict, Rank, Awaited
<1>4. Awaited(h) \in 1 .. 4
  BY <1>1 DEF Awaited, Rank
<1>. QED  BY <1>1, <1>2, <1>3, <1>4, Zenon

\* The refinement mapping, as a function of the map A and of the assignments H.
Holds(H, g, v, c) == H[g] # None /\ H[g].vm = v /\ H[g].hart = c

AssignedOf(H) == {H[h] : h \in HardwareHarts} \ {None}

RunningOf(H) == {<<a.vm, a.hart>> : a \in AssignedOf(H)}

StateIn(A, H, v, c) ==
    IF A[v][c] # None THEN A[v][c]
    ELSE (CHOOSE a \in AssignedOf(H) : a.vm = v /\ a.hart = c).state

StateOf(A, H) ==
    [v \in VmIds |-> IF v \in DOMAIN A THEN [c \in HartIds |-> StateIn(A, H, v, c)] ELSE <<>>]

Sound(A, H) ==
    /\ DOMAIN A \subseteq VmIds /\ A \in [DOMAIN A -> [HartIds -> Slots]]
    /\ H \in [HardwareHarts -> Assignments]
    /\ OwnershipOf(A, H)

\* Between (A, H) and (B, K) nothing changes but the hart c of the VM v.
OneHartChanges(A, H, B, K, v, c) ==
    /\ v \in DOMAIN A /\ c \in HartIds /\ DOMAIN B = DOMAIN A
    /\ \A u \in DOMAIN A, d \in HartIds : u # v \/ d # c => B[u][d] = A[u][d]
    /\ \A g \in HardwareHarts :
          \/ K[g] = H[g]
          \/ (H[g] = None \/ Holds(H, g, v, c)) /\ (K[g] = None \/ Holds(K, g, v, c))

\* The mapping of the model, before and after a step.
LEMMA Mapping ==
    ASSUME Inv, Inv'
    PROVE  /\ LifecycleState = StateOf(confidential_vms, hardware_hart)
           /\ LifecycleState' = StateOf(confidential_vms', hardware_hart')
           /\ RunningHarts = RunningOf(hardware_hart)
           /\ RunningHarts' = RunningOf(hardware_hart')
           /\ Sound(confidential_vms, hardware_hart)
           /\ Sound(confidential_vms', hardware_hart')
<1>1. /\ LifecycleState = StateOf(confidential_vms, hardware_hart)
      /\ LifecycleState' = StateOf(confidential_vms', hardware_hart')
  BY Zenon DEF LifecycleState, StateOf, StateIn, AssignedHarts, AssignedOf
<1>2. RunningHarts = RunningOf(hardware_hart) /\ RunningHarts' = RunningOf(hardware_hart')
  BY Zenon DEF RunningHarts, RunningOf, AssignedHarts, AssignedOf
<1>3. Sound(confidential_vms, hardware_hart)
  BY Zenon DEF Inv, Types, Ownership, Sound
<1>4. Sound(confidential_vms', hardware_hart')
  BY Zenon DEF Inv, Types, Ownership, Sound
<1>. QED  BY <1>1, <1>2, <1>3, <1>4, Zenon

\* The harts that run.
LEMMA Running ==
    ASSUME NEW H
    PROVE  /\ \A v, c : <<v, c>> \in RunningOf(H) <=> \E g \in HardwareHarts : Holds(H, g, v, c)
           /\ \A x \in RunningOf(H) : \E v, c : x = <<v, c>>
BY Zenon DEF RunningOf, AssignedOf, Holds

\* The state of a hart is in its slot or with the hardware hart that runs it.
LEMMA StateAt ==
    ASSUME NEW A, NEW H, Sound(A, H), NEW v \in DOMAIN A, NEW c \in HartIds
    PROVE  /\ A[v][c] # None => StateIn(A, H, v, c) = A[v][c]
           /\ A[v][c] = None => \E g \in HardwareHarts : Holds(H, g, v, c)
           /\ \A g \in HardwareHarts :
                 Holds(H, g, v, c) => A[v][c] = None /\ StateIn(A, H, v, c) = H[g].state
<1>1. A[v][c] = None => \E g \in HardwareHarts : Holds(H, g, v, c)
  BY ZenonT(60) DEF Sound, OwnershipOf, Holds
<1>2. ASSUME NEW g \in HardwareHarts, Holds(H, g, v, c)
      PROVE  A[v][c] = None /\ StateIn(A, H, v, c) = H[g].state
  <2>1. H[g] # None /\ H[g].vm = v /\ H[g].hart = c
    BY <1>2, Zenon DEF Holds
  <2>2. A[v][c] = None
    BY <2>1, Zenon DEF Sound, OwnershipOf
  <2>3. PICK b : b = CHOOSE a \in AssignedOf(H) : a.vm = v /\ a.hart = c
    BY Zenon
  <2>4. H[g] \in AssignedOf(H)
    BY <2>1, Zenon DEF AssignedOf
  <2>5. b \in AssignedOf(H) /\ b.vm = v /\ b.hart = c
    BY <2>1, <2>3, <2>4, Zenon
  <2>6. PICK k \in HardwareHarts : b = H[k] /\ H[k] # None
    BY <2>5, Zenon DEF AssignedOf
  <2>7. k = g
    BY <2>1, <2>5, <2>6 DEF Sound, OwnershipOf
  <2>. QED  BY <2>2, <2>3, <2>6, <2>7, Zenon DEF StateIn
<1>3. A[v][c] # None => StateIn(A, H, v, c) = A[v][c]
  BY Zenon DEF StateIn
<1>. QED  BY <1>1, <1>2, <1>3, Zenon

\* One hart changes: the others keep their states, and run or not as before.
LEMMA OthersKeep ==
    ASSUME NEW A, NEW H, NEW B, NEW K, Sound(A, H), Sound(B, K), NEW v, NEW c,
           OneHartChanges(A, H, B, K, v, c)
    PROVE  /\ StateOf(B, K) = [StateOf(A, H) EXCEPT ![v][c] = StateIn(B, K, v, c)]
           /\ \A x : x # <<v, c>> => (x \in RunningOf(K) <=> x \in RunningOf(H))
<1>1. /\ v \in DOMAIN A /\ c \in HartIds /\ DOMAIN B = DOMAIN A
      /\ \A u \in DOMAIN A, d \in HartIds : u # v \/ d # c => B[u][d] = A[u][d]
  BY Zenon DEF OneHartChanges
<1>2. ASSUME NEW g \in HardwareHarts, NEW u, NEW d, u # v \/ d # c
      PROVE  /\ Holds(K, g, u, d) <=> Holds(H, g, u, d)
             /\ Holds(H, g, u, d) => K[g] = H[g]
  BY <1>2 DEF OneHartChanges, Holds
<1>3. ASSUME NEW u \in DOMAIN A, NEW d \in HartIds, u # v \/ d # c
      PROVE  StateIn(B, K, u, d) = StateIn(A, H, u, d)
  <2>0. B[u][d] = A[u][d] /\ u \in DOMAIN B
    BY <1>1, <1>3, Zenon
  <2>1. CASE A[u][d] # None
    BY <2>0, <2>1, StateAt
  <2>2. CASE A[u][d] = None
    <3>1. PICK g \in HardwareHarts : Holds(H, g, u, d)
      BY <2>2, StateAt, Zenon
    <3>2. Holds(K, g, u, d) /\ K[g] = H[g]
      BY <3>1, <1>2, <1>3, Zenon
    <3>3. StateIn(A, H, u, d) = H[g].state
      BY <3>1, StateAt
    <3>4. StateIn(B, K, u, d) = K[g].state
      BY <3>2, <2>0, StateAt
    <3>. QED  BY <3>2, <3>3, <3>4, Zenon
  <2>. QED  BY <2>1, <2>2, Zenon
<1>4. StateOf(B, K) = [StateOf(A, H) EXCEPT ![v][c] = StateIn(B, K, v, c)]
  <2>1. DOMAIN A \subseteq VmIds
    BY Zenon DEF Sound
  <2>2. PICK S, T, q : S = StateOf(A, H) /\ T = StateOf(B, K) /\ q = StateIn(B, K, v, c)
    BY Zenon
  <2>3. /\ S = [u \in VmIds |-> S[u]] /\ T = [u \in VmIds |-> T[u]]
        /\ \A u \in VmIds : /\ u \notin DOMAIN A => S[u] = <<>> /\ T[u] = <<>>
                            /\ u \in DOMAIN A => /\ S[u] = [d \in HartIds |-> StateIn(A, H, u, d)]
                                                 /\ T[u] = [d \in HartIds |-> StateIn(B, K, u, d)]
    BY <2>2, <1>1 DEF StateOf
  <2>4. ASSUME NEW u \in VmIds, u # v PROVE T[u] = S[u]
    <3>1. CASE u \in DOMAIN A
      <4>1. \A d \in HartIds : StateIn(B, K, u, d) = StateIn(A, H, u, d)
        BY <3>1, <2>4, <1>3, SMTT(30)
      <4>. QED  BY <4>1, <3>1, <2>3
    <3>. QED  BY <3>1, <2>3, Zenon
  <2>5. T[v] = [S[v] EXCEPT ![c] = q]
    <3>1. \A d \in HartIds : d # c => StateIn(B, K, v, d) = StateIn(A, H, v, d)
      BY <1>1, <1>3, Zenon
    <3>2. S[v] = [d \in HartIds |-> StateIn(A, H, v, d)] /\ T[v] = [d \in HartIds |-> StateIn(B, K, v, d)]
      BY <2>1, <2>3, <1>1, Zenon
    <3>. QED  BY <3>1, <3>2, <2>2, <1>1, SMTT(30)
  <2>6. T = [S EXCEPT ![v] = T[v]]
    BY <2>1, <2>3, <2>4, <1>1
  <2>7. T = [S EXCEPT ![v][c] = q]
    BY <2>5, <2>6, Zenon
  <2>. QED  BY <2>2, <2>7, Zenon
<1>5. ASSUME NEW x, x # <<v, c>> PROVE x \in RunningOf(K) <=> x \in RunningOf(H)
  <2>1. CASE \E u, d : x = <<u, d>>
    <3>1. PICK u, d : x = <<u, d>>
      BY <2>1, Zenon
    <3>2. u # v \/ d # c
      BY <3>1, <1>5, Zenon
    <3>. QED  BY <3>1, <3>2, <1>2, Running
  <2>2. CASE ~\E u, d : x = <<u, d>>
    BY <2>2, Running, Zenon
  <2>. QED  BY <2>1, <2>2, Zenon
<1>. QED  BY <1>4, <1>5, Zenon

\* In the lifecycle, the hart c of the VM v goes from the state p to the state q.
StateGoes(v, c, p, q) ==
    /\ v \in VmIds /\ c \in HartIds /\ v \in DOMAIN confidential_vms
    /\ DOMAIN confidential_vms' = DOMAIN confidential_vms
    /\ LifecycleState' = [LifecycleState EXCEPT ![v][c] = q]
    /\ LifecycleState[v][c] = p /\ DOMAIN LifecycleState[v] = HartIds
    /\ q = p => LifecycleState' = LifecycleState
    /\ \A x : x # <<v, c>> => (x \in RunningHarts' <=> x \in RunningHarts)

\* So it does when only that hart changes.
LEMMA HartChanges ==
    ASSUME Inv, Inv', NEW v, NEW c, NEW p, NEW q,
           OneHartChanges(confidential_vms, hardware_hart, confidential_vms', hardware_hart', v, c),
           p = StateIn(confidential_vms, hardware_hart, v, c),
           q = StateIn(confidential_vms', hardware_hart', v, c)
    PROVE  StateGoes(v, c, p, q)
<1>1. /\ v \in DOMAIN confidential_vms /\ c \in HartIds
      /\ DOMAIN confidential_vms' = DOMAIN confidential_vms
  BY Zenon DEF OneHartChanges
<1>2. /\ LifecycleState' = [LifecycleState EXCEPT ![v][c] = q]
      /\ \A x : x # <<v, c>> => (x \in RunningHarts' <=> x \in RunningHarts)
  BY Mapping, OthersKeep
<1>3. v \in VmIds
  BY <1>1, Zenon DEF Inv, Types
<1>4. PICK S : S = LifecycleState
  BY Zenon
<1>5. S = StateOf(confidential_vms, hardware_hart)
  BY <1>4, Mapping, Zenon
<1>6. S[v] = [d \in HartIds |-> StateIn(confidential_vms, hardware_hart, v, d)] /\ DOMAIN S = VmIds
  BY <1>1, <1>3, <1>5, Zenon DEF StateOf
<1>7. S[v][c] = p /\ DOMAIN S[v] = HartIds
  BY <1>1, <1>6, Zenon
<1>8. S = [u \in VmIds |-> S[u]] /\ S[v] = [d \in HartIds |-> S[v][d]]
  BY <1>5, <1>6, Zenon DEF StateOf
<1>9. ASSUME q = p PROVE [S EXCEPT ![v][c] = q] = S
  <2>1. [S[v] EXCEPT ![c] = p] = S[v]
    BY <1>1, <1>7, <1>8
  <2>. QED  BY <2>1, <1>3, <1>8, <1>9, Zenon
<1>. QED  BY <1>1, <1>2, <1>3, <1>4, <1>7, <1>9, SMTT(30) DEF StateGoes

\* A step of the lifecycle, or none.
LifecycleStep ==
    \/ Lifecycle!LifecycleNext
    \/ UNCHANGED <<DOMAIN confidential_vms, LifecycleState, RunningHarts>>

\* A step that changes neither the map nor the assignments.
LEMMA NoStep ==
    ASSUME Inv, Inv', confidential_vms' = confidential_vms, hardware_hart' = hardware_hart
    PROVE  LifecycleStep
<1>1. LifecycleState' = LifecycleState /\ RunningHarts' = RunningHarts
  BY Mapping, Zenon
<1>. QED  BY <1>1, Zenon DEF LifecycleStep

\* The state of the hart that h runs changes.
LEMMA RunningStep ==
    ASSUME Inv, Inv', NEW h \in HardwareHarts, NEW v \in VmIds, NEW c \in HartIds,
           Own(h) = Id(v, c), NEW q \in HartStates,
           hardware_hart' = [hardware_hart EXCEPT ![h].state = q],
           confidential_vms' = confidential_vms,
           \/ q = hardware_hart[h].state
           \/ q = "Shutdown"
           \/ hardware_hart[h].state = "StartPending" /\ q = "Started"
           \/ hardware_hart[h].state = "Started" /\ q \in {"Stopped", "Suspended"}
    PROVE  LifecycleStep
<1>1. PICK A, H, K : A = confidential_vms /\ H = hardware_hart /\ K = hardware_hart'
  BY Zenon
<1>2. Types
  BY Zenon DEF Inv
<1>3. Holds(H, h, v, c)
  BY <1>1, <1>2, OwnIs, Zenon DEF Holds
<1>4. SameOwners /\ K[h].state = q /\ \A g \in HardwareHarts : g # h => K[g] = H[g]
  BY <1>1, <1>2, <1>3, NewState, Zenon DEF Holds
<1>5. Holds(K, h, v, c)
  BY <1>1, <1>3, <1>4 DEF SameOwners, Holds
<1>6. Sound(A, H) /\ Sound(A, K)
  BY <1>1, Mapping
<1>7. v \in DOMAIN A
  BY <1>3, <1>6 DEF Sound, OwnershipOf, Holds
<1>8. StateIn(A, H, v, c) = H[h].state /\ StateIn(A, K, v, c) = q
  BY <1>3, <1>4, <1>5, <1>6, <1>7, StateAt, SMTT(30)
<1>9. OneHartChanges(A, H, A, K, v, c)
  BY <1>3, <1>4, <1>5, <1>7 DEF OneHartChanges
<1>10. StateGoes(v, c, H[h].state, q)
  BY <1>1, <1>8, <1>9, HartChanges, Zenon
<1>11. RunningHarts' = RunningHarts /\ <<v, c>> \in RunningHarts
  <2>1. <<v, c>> \in RunningHarts /\ <<v, c>> \in RunningHarts'
    BY <1>1, <1>3, <1>5, Mapping, Running, SMTT(30)
  <2>. QED  BY <2>1, <1>10 DEF StateGoes
<1>12. CASE q = H[h].state
  BY <1>10, <1>11, <1>12, Zenon DEF LifecycleStep, StateGoes
<1>13. CASE q = "Shutdown"
  <2>2. LifecycleState' = [LifecycleState EXCEPT ![v] =
           [d \in DOMAIN LifecycleState[v] |-> IF d \in {c} THEN "Shutdown" ELSE LifecycleState[v][d]]]
    BY <1>10, <1>13, Zenon DEF StateGoes
  <2>3. Lifecycle!Shutdown(v, {c})
    BY <2>2, <1>10, <1>11, Zenon DEF Lifecycle!Shutdown, StateGoes
  <2>. QED  BY <2>3, Zenon DEF LifecycleStep, Lifecycle!LifecycleNext
<1>14. CASE H[h].state = "StartPending" /\ q = "Started"
  <2>1. Lifecycle!Begin(v, c)
    BY <1>1, <1>10, <1>11, <1>14, SMTT(30) DEF Lifecycle!Begin, StateGoes
  <2>. QED  BY <2>1, Zenon DEF LifecycleStep, Lifecycle!LifecycleNext
<1>15. CASE H[h].state = "Started" /\ q \in {"Stopped", "Suspended"}
  <2>1. Lifecycle!Halt(v, c, q)
    BY <1>1, <1>10, <1>11, <1>15, SMTT(30) DEF Lifecycle!Halt, StateGoes
  <2>. QED  BY <1>15, <2>1, Zenon DEF LifecycleStep, Lifecycle!LifecycleNext
<1>. QED  BY <1>1, <1>12, <1>13, <1>14, <1>15

\* What h knows at the step s.
LEMMA Known ==
    ASSUME Inv, NEW h \in HardwareHarts, todo[h] # <<>>, NEW s, s = Head(todo[h]), s.do \in DoNames
    PROVE  /\ s.vm \in VmIds /\ s.hart \in HartIds
           /\ \E w, x : Trans(w, s, x) /\ w.own = Own(h) /\ FactHolds(w.fact)
<1>1. HartInv(h)
  BY Zenon DEF Inv
<1>2. PICK w, x, e : /\ HartNow(h, w, e) /\ s \in StepSet /\ Trans(w, s, x)
  BY <1>1, AtStep
<1>. QED  BY <1>2, StepFields, Zenon DEF HartNow

\* process_inter_hart_requests, the pending request, and a shutdown, stop or suspension.
LEMMA StateSteps ==
    ASSUME Inv, Inv', NEW h \in HardwareHarts,
           \/ drain(h) \/ take_request(h) \/ transition_to_shutdown(h)
           \/ transition_from_started_to_stopped(h) \/ transition_from_started_to_suspended(h)
    PROVE  LifecycleStep
<1>1. PICK s : s = Head(todo[h])
  BY Zenon
<1>2. /\ todo[h] # <<>> /\ s.do \in {"drain", "take_request"} \cup OwnTransitions
      /\ confidential_vms' = confidential_vms
  BY <1>1, Zenon DEF drain, take_request, transition_to_shutdown, transition_from_started_to_stopped,
     transition_from_started_to_suspended, transition_from_started, At, OwnTransitions
<1>3. PICK v, c : v = s.vm /\ c = s.hart
  BY Zenon
<1>4. v \in VmIds /\ c \in HartIds /\ \E w, x : Trans(w, s, x) /\ w.own = Own(h)
  BY <1>1, <1>2, <1>3, Known, SMTT(30) DEF DoNames, OwnTransitions
<1>5. Own(h) = Id(v, c)
  <2>1. PICK w, x : Trans(w, s, x) /\ w.own = Own(h)
    BY <1>4, Zenon
  <2>2. CASE s.do = "drain"
    BY <2>1, <2>2, <1>3, Zenon DEF Trans
  <2>3. CASE s.do = "take_request"
    BY <2>1, <2>3, <1>3, Zenon DEF Trans
  <2>4. CASE s.do \in OwnTransitions
    BY <2>1, <2>4, <1>3, Zenon DEF Trans, OwnTransitions
  <2> QED
    BY <1>2, <2>2, <2>3, <2>4, Zenon
<1>6. /\ hardware_hart \in [HardwareHarts -> Assignments] /\ hardware_hart[h] \in AssignedHart
  BY <1>4, <1>5, OwnIs DEF Inv, Types
<1>7. PICK p : p = hardware_hart[h].state
  BY Zenon
<1>8. p \in HartStates
  BY <1>6, <1>7, Zenon DEF AssignedHart
<1>9. ASSUME NEW q, \/ q = p \/ q = "Shutdown" \/ (p = "StartPending" /\ q = "Started")
                    \/ (p = "Started" /\ q \in {"Stopped", "Suspended"}),
             hardware_hart' = [hardware_hart EXCEPT ![h].state = q]
      PROVE  LifecycleStep
  <2>1. q \in HartStates
    BY <1>8, <1>9 DEF HartStates
  <2>. QED  BY <2>1, <1>2, <1>4, <1>5, <1>7, <1>9, RunningStep, Zenon
<1>10. CASE drain(h)
  <2>1. PICK q : q = IF inter_hart_requests[v][c] > 0 THEN "Shutdown" ELSE p
    BY Zenon
  <2>2. hardware_hart' = [hardware_hart EXCEPT ![h].state = q]
    BY <2>1, <1>1, <1>3, <1>6, <1>7, <1>10 DEF drain
  <2>. QED  BY <2>1, <2>2, <1>9, Zenon
<1>11. CASE take_request(h)
  <2>1. CASE hardware_hart' = hardware_hart
    BY <2>1, <1>2, NoStep
  <2>2. CASE hardware_hart' = [hardware_hart EXCEPT ![h].state =
                IF @ = "StartPending" THEN "Started" ELSE @]
    <3>1. PICK q : q = IF p = "StartPending" THEN "Started" ELSE p
      BY Zenon
    <3>2. hardware_hart' = [hardware_hart EXCEPT ![h].state = q]
      BY <3>1, <2>2, <1>6, <1>7
    <3>. QED  BY <3>1, <3>2, <1>9, Zenon
  <2>. QED  BY <2>1, <2>2, <1>11 DEF take_request
<1>12. CASE transition_to_shutdown(h)
  BY <1>9, <1>12, Zenon DEF transition_to_shutdown
<1>13. ASSUME NEW step, NEW next \in {"Stopped", "Suspended"}, transition_from_started(h, step, next)
       PROVE  LifecycleStep
  <2>1. CASE hardware_hart' = hardware_hart
    BY <2>1, <1>2, NoStep
  <2>2. CASE p = "Started" /\ hardware_hart' = [hardware_hart EXCEPT ![h].state = next]
    BY <2>2, <1>9, <1>13, Zenon
  <2>. QED  BY <1>7, <1>13, <2>1, <2>2, Zenon DEF transition_from_started
<1>14. CASE transition_from_started_to_stopped(h) \/ transition_from_started_to_suspended(h)
  BY <1>13, <1>14, Zenon DEF transition_from_started_to_stopped, transition_from_started_to_suspended
<1>. QED  BY <1>10, <1>11, <1>12, <1>14

\* steal_confidential_hart: the hart is scheduled.
LEMMA StealStep ==
    ASSUME Inv, Inv', NEW h \in HardwareHarts, steal(h)
    PROVE  LifecycleStep
<1>1. PICK s : s = Head(todo[h])
  BY Zenon
<1>2. PICK v, c : v = s.vm /\ c = s.hart
  BY Zenon
<1>3. PICK A, B, H, K : /\ A = confidential_vms /\ B = confidential_vms'
                        /\ H = hardware_hart /\ K = hardware_hart'
  BY Zenon
<1>4. PICK a : a = [vm |-> v, hart |-> c, state |-> A[v][c]]
  BY Zenon
<1>5. /\ todo[h] # <<>> /\ s.do = "steal"
      /\ K = [H EXCEPT ![h] = a] /\ B = [A EXCEPT ![v][c] = None]
  BY <1>1, <1>2, <1>3, <1>4 DEF steal, At
<1>6. /\ v \in VmIds /\ c \in HartIds
      /\ \E w, x : Trans(w, s, x) /\ w.own = Own(h) /\ FactHolds(w.fact)
  BY <1>1, <1>2, <1>5, Known, SMTT(30) DEF DoNames
<1>7. PICK w, x : Trans(w, s, x) /\ w.own = Own(h) /\ FactHolds(w.fact)
  BY <1>6, SMTT(30)
<1>8. w.fact = ExecutableFact(v, c) /\ w.own = NoOne
  BY <1>2, <1>5, <1>7, ZenonT(60) DEF Trans
<1>9. v \in DOMAIN A /\ A[v][c] \in {"Started", "StartPending", "Suspended"} /\ H[h] = None
  <2>1. v \in DOMAIN A /\ A[v][c] \in {"Started", "StartPending", "Suspended"}
    BY <1>3, <1>7, <1>8 DEF FactHolds, ExecutableFact
  <2>. QED  BY <2>1, <1>3, <1>7, <1>8, OwnIs, Zenon DEF Inv
<1>10. A[v][c] # None /\ a # None /\ a.vm = v /\ a.hart = c /\ a.state = A[v][c]
  <2>1. A[v][c] \in HartStates
    BY <1>9, Zenon DEF HartStates
  <2>2. a \in AssignedHart
    BY <2>1, <1>4, <1>6, Zenon DEF AssignedHart
  <2>. QED  BY <2>1, <2>2, <1>4, NoneApart, SMTT(30)
<1>11. Sound(A, H) /\ Sound(B, K)
  BY <1>3, Mapping, Zenon
<1>12. /\ K[h] = a /\ \A g \in HardwareHarts : g # h => K[g] = H[g]
       /\ DOMAIN B = DOMAIN A
       /\ \A u \in DOMAIN A, d \in HartIds : u # v \/ d # c => B[u][d] = A[u][d]
  BY <1>5, <1>11 DEF Sound
<1>13. Holds(K, h, v, c)
  BY <1>10, <1>12, SMTT(30) DEF Holds
<1>14. OneHartChanges(A, H, B, K, v, c)
  BY <1>6, <1>9, <1>12, <1>13, SMTT(60) DEF OneHartChanges
<1>15. StateIn(A, H, v, c) = A[v][c] /\ StateIn(B, K, v, c) = A[v][c]
  BY <1>6, <1>9, <1>10, <1>11, <1>12, <1>13, StateAt, SMTT(60)
<1>16. StateGoes(v, c, A[v][c], A[v][c])
  BY <1>3, <1>14, <1>15, HartChanges, Zenon
<1>17. <<v, c>> \notin RunningHarts /\ <<v, c>> \in RunningHarts'
  <2>1. \A g \in HardwareHarts : ~Holds(H, g, v, c)
    BY <1>6, <1>9, <1>10, <1>11, StateAt, SMTT(30)
  <2>. QED  BY <2>1, <1>3, <1>13, Mapping, Running, SMTT(60)
<1>18. RunningHarts' = RunningHarts \cup {<<v, c>>}
  BY <1>16, <1>17 DEF StateGoes
<1>19. Lifecycle!Schedule(v, c)
  BY <1>3, <1>9, <1>16, <1>17, <1>18, SMTT(60) DEF Lifecycle!Schedule, Lifecycle!Executable, StateGoes
<1>. QED  BY <1>6, <1>19 DEF LifecycleStep, Lifecycle!LifecycleNext

\* return_confidential_hart: the hart leaves the hardware hart in the state it has.
LEMMA ReturnStep ==
    ASSUME Inv, Inv', NEW h \in HardwareHarts, return(h)
    PROVE  LifecycleStep
<1>1. PICK s : s = Head(todo[h])
  BY Zenon
<1>2. PICK v, c : v = s.vm /\ c = s.hart
  BY Zenon
<1>3. PICK A, B, H, K : /\ A = confidential_vms /\ B = confidential_vms'
                        /\ H = hardware_hart /\ K = hardware_hart'
  BY Zenon
<1>4. PICK q : q = H[h].state
  BY Zenon
<1>5. /\ todo[h] # <<>> /\ s.do = "return"
      /\ K = [H EXCEPT ![h] = None] /\ B = [A EXCEPT ![v][c] = q]
  BY <1>1, <1>2, <1>3, <1>4, SMTT(30) DEF return, At
<1>6. /\ v \in VmIds /\ c \in HartIds
      /\ \E w, x : Trans(w, s, x) /\ w.own = Own(h)
  BY <1>1, <1>2, <1>5, Known, SMTT(30) DEF DoNames
<1>7. Own(h) = Id(v, c)
  BY <1>2, <1>5, <1>6, ZenonT(60) DEF Trans
<1>8. Holds(H, h, v, c) /\ H[h] \in AssignedHart
  BY <1>3, <1>6, <1>7, OwnIs, SMTT(30) DEF Inv, Holds
<1>9. q \in HartStates /\ q # None
  BY <1>4, <1>8, NoneApart, SMTT(30) DEF AssignedHart
<1>10. Sound(A, H) /\ Sound(B, K)
  BY <1>3, Mapping, Zenon
<1>11. v \in DOMAIN A
  BY <1>8, <1>10 DEF Sound, OwnershipOf, Holds
<1>12. /\ K[h] = None /\ \A g \in HardwareHarts : g # h => K[g] = H[g]
       /\ DOMAIN B = DOMAIN A /\ B[v][c] = q
       /\ \A u \in DOMAIN A, d \in HartIds : u # v \/ d # c => B[u][d] = A[u][d]
  BY <1>5, <1>6, <1>10, <1>11, SMTT(30) DEF Sound
<1>13. OneHartChanges(A, H, B, K, v, c)
  BY <1>6, <1>8, <1>11, <1>12, SMTT(30) DEF OneHartChanges
<1>14. StateIn(A, H, v, c) = q /\ StateIn(B, K, v, c) = q
  BY <1>4, <1>6, <1>8, <1>9, <1>10, <1>11, <1>12, StateAt, SMTT(60)
<1>15. StateGoes(v, c, q, q)
  BY <1>3, <1>13, <1>14, HartChanges, Zenon
<1>16. <<v, c>> \in RunningHarts /\ <<v, c>> \notin RunningHarts'
  <2>1. \A g \in HardwareHarts : ~Holds(K, g, v, c)
    BY <1>6, <1>9, <1>10, <1>11, <1>12, StateAt, SMTT(30)
  <2>. QED  BY <2>1, <1>3, <1>8, Mapping, Running, SMTT(30)
<1>17. RunningHarts' = RunningHarts \ {<<v, c>>}
  BY <1>15, <1>16, Zenon DEF StateGoes
<1>18. Lifecycle!Leave(v, c, q)
  BY <1>15, <1>16, <1>17 DEF Lifecycle!Leave, StateGoes
<1>. QED  BY <1>6, <1>9, <1>18, SMTT(30) DEF LifecycleStep, Lifecycle!LifecycleNext, HartStates

\* A hart in its slot: another hart of its VM that runs starts it or shuts it down.
LEMMA SlotSteps ==
    ASSUME Inv, Inv', NEW h \in HardwareHarts, transit_to_start_pending(h) \/ broadcast(h)
    PROVE  LifecycleStep
<1>1. PICK s : s = Head(todo[h])
  BY Zenon
<1>2. PICK v, c : v = s.vm /\ c = s.hart
  BY Zenon
<1>3. PICK A, B, H : A = confidential_vms /\ B = confidential_vms' /\ H = hardware_hart
  BY SMTT(30)
<1>4. /\ todo[h] # <<>> /\ s.do \in {"transit_to_start_pending", "broadcast"}
      /\ hardware_hart' = H
      /\ \/ B = A
         \/ A[v][c] = "Stopped" /\ B = [A EXCEPT ![v][c] = "StartPending"]
         \/ A[v][c] # None /\ B = [A EXCEPT ![v][c] = "Shutdown"]
  BY <1>1, <1>2, <1>3, Zenon DEF transit_to_start_pending, broadcast, At
<1>5. CASE B = A
  BY <1>3, <1>4, <1>5, NoStep, SMTT(30)
<1>6. ASSUME NEW q \in {"StartPending", "Shutdown"}, A[v][c] # None,
             B = [A EXCEPT ![v][c] = q],
             A[v][c] = "Stopped" \/ q = "Shutdown"
      PROVE  LifecycleStep
  <2>1. /\ v \in VmIds /\ c \in HartIds
        /\ \E w, x : Trans(w, s, x) /\ w.own = Own(h) /\ FactHolds(w.fact)
    BY <1>1, <1>2, <1>4, Known, SMTT(30) DEF DoNames
  <2>2. PICK w, x : Trans(w, s, x) /\ w.own = Own(h) /\ FactHolds(w.fact)
    BY <2>1, SMTT(30)
  <2>3. w.fact = ExistsFact(v) /\ w.own # NoOne /\ w.own.vm = v
    BY <1>2, <1>4, <2>2, Zenon DEF Trans
  <2>4. v \in DOMAIN A
    BY <1>3, <2>2, <2>3 DEF FactHolds, ExistsFact
  <2>5. PICK d \in HartIds : Holds(H, h, v, d)
    <3>1. hardware_hart[h] # None
      BY <2>2, <2>3, OwnIs, SMTT(30) DEF Inv
    <3>2. hardware_hart[h].vm = v
      BY <3>1, <2>2, <2>3, SMTT(30) DEF Own, Id
    <3>3. hardware_hart[h].hart \in HartIds
      BY <3>1 DEF Inv, Types, Assignments, AssignedHart
    <3>. QED  BY <3>1, <3>2, <3>3, <1>3, SMTT(30) DEF Holds
  <2>6. Sound(A, H) /\ Sound(B, H)
    BY <1>3, <1>4, Mapping, SMTT(30)
  <2>7. /\ DOMAIN B = DOMAIN A /\ B[v][c] = q
        /\ \A u \in DOMAIN A, e \in HartIds : u # v \/ e # c => B[u][e] = A[u][e]
    BY <1>6, <2>1, <2>4, <2>6, SMTT(30) DEF Sound
  <2>8. q # None
    BY <1>6, NoneApart, SMTT(30) DEF HartStates
  <2>9. OneHartChanges(A, H, B, H, v, c)
    BY <2>1, <2>4, <2>7, SMTT(30) DEF OneHartChanges
  <2>10. StateIn(A, H, v, c) = A[v][c] /\ StateIn(B, H, v, c) = q
    <3>1. v \in DOMAIN B /\ B[v][c] # None
      BY <2>4, <2>7, <2>8
    <3>2. StateIn(A, H, v, c) = A[v][c]
      BY <1>6, Zenon DEF StateIn
    <3>3. StateIn(B, H, v, c) = B[v][c]
      BY <3>1, Zenon DEF StateIn
    <3>. QED  BY <3>2, <3>3, <2>7
  <2>11. StateGoes(v, c, A[v][c], q)
    BY <1>3, <1>4, <2>9, <2>10, HartChanges, Zenon
  <2>12. RunningHarts' = RunningHarts /\ <<v, d>> \in RunningHarts /\ <<v, c>> \notin RunningHarts
    <3>1. \A g \in HardwareHarts : ~Holds(H, g, v, c)
      BY <1>6, <2>1, <2>4, <2>6, StateAt
    <3>. QED  BY <3>1, <1>3, <1>4, <2>5, Mapping, Running
  <2>13. CASE q = "Shutdown"
    <3>1. LifecycleState' = [LifecycleState EXCEPT ![v] =
             [e \in DOMAIN LifecycleState[v] |-> IF e \in {c} THEN "Shutdown" ELSE LifecycleState[v][e]]]
      BY <2>11, <2>13, Zenon DEF StateGoes
    <3>2. Lifecycle!Shutdown(v, {c})
      BY <3>1, <2>11, <2>12, Zenon DEF Lifecycle!Shutdown, StateGoes
    <3>. QED  BY <3>2, <2>1, Zenon DEF LifecycleStep, Lifecycle!LifecycleNext
  <2>14. CASE A[v][c] = "Stopped" /\ q = "StartPending"
    <3>1. Lifecycle!Start(v, c)
      BY <2>11, <2>12, <2>14, Zenon DEF Lifecycle!Start, StateGoes
    <3>. QED  BY <3>1, <2>1 DEF LifecycleStep, Lifecycle!LifecycleNext
  <2>. QED  BY <1>6, <2>13, <2>14, SMTT(60)
<1>7. "Stopped" # None
  BY NoneApart, Zenon DEF HartStates
<1>. QED  BY <1>4, <1>5, <1>6, <1>7

\* remove_confidential_vm: all harts of the VM are shut down and in their slots.
LEMMA RemoveStep ==
    ASSUME Inv, Inv', NEW h \in HardwareHarts, remove(h)
    PROVE  LifecycleStep
<1>1. PICK s : s = Head(todo[h])
  BY Zenon
<1>2. PICK A, B, H, v : /\ A = confidential_vms /\ B = confidential_vms' /\ H = hardware_hart
                        /\ v = s.vm
  BY Zenon
<1>3. /\ todo[h] # <<>> /\ s.do = "remove" /\ hardware_hart' = H
      /\ B = [u \in DOMAIN A \ {v} |-> A[u]]
  BY <1>1, <1>2, SMTT(30) DEF remove, At
<1>4. /\ v \in VmIds
      /\ \E w, x : Trans(w, s, x) /\ w.own = Own(h) /\ FactHolds(w.fact)
  BY <1>1, <1>2, <1>3, Known, SMTT(30) DEF DoNames
<1>5. PICK w, x : Trans(w, s, x) /\ FactHolds(w.fact)
  BY <1>4, SMTT(30)
<1>6. w.fact = ShutdownFact(v)
  BY <1>2, <1>3, <1>5, ZenonT(60) DEF Trans
<1>7. v \in DOMAIN A /\ \A c \in HartIds : A[v][c] = "Shutdown"
  BY <1>2, <1>5, <1>6, SMTT(30) DEF FactHolds, ShutdownFact
<1>8. Sound(A, H) /\ "Shutdown" # None
  BY <1>2, Mapping, NoneApart, SMTT(30) DEF HartStates
<1>9. \A c \in HartIds : StateIn(A, H, v, c) = "Shutdown" /\ \A g \in HardwareHarts : ~Holds(H, g, v, c)
  BY <1>7, <1>8, StateAt, SMTT(30)
<1>10. PICK S, T : S = StateOf(A, H) /\ T = StateOf(B, H)
  BY Zenon
<1>11. DOMAIN B = DOMAIN A \ {v} /\ \A u \in DOMAIN B : B[u] = A[u]
  BY <1>3, Zenon
<1>12. T = [S EXCEPT ![v] = <<>>]
  <2>1. S = [u \in VmIds |-> S[u]] /\ T = [u \in VmIds |-> T[u]] /\ T[v] = <<>>
    BY <1>4, <1>10, <1>11, SMTT(30) DEF StateOf
  <2>2. ASSUME NEW u \in VmIds, u # v PROVE S[u] = T[u]
    <3>1. CASE u \in DOMAIN A
      <4>1. \A c \in HartIds : StateIn(B, H, u, c) = StateIn(A, H, u, c)
        BY <2>2, <3>1, <1>11 DEF StateIn
      <4>2. /\ S[u] = [c \in HartIds |-> StateIn(A, H, u, c)]
            /\ T[u] = [c \in HartIds |-> StateIn(B, H, u, c)]
        BY <2>2, <3>1, <1>10, <1>11, SMTT(30) DEF StateOf
      <4>. QED  BY <4>1, <4>2, Zenon
    <3>2. CASE u \notin DOMAIN A
      BY <3>2, <1>10, <1>11, SMTT(30) DEF StateOf
    <3>. QED  BY <3>1, <3>2
  <2>. QED  BY <2>1, <2>2, <1>4, SMTT(30)
<1>13. S[v] = [c \in HartIds |-> StateIn(A, H, v, c)]
  BY <1>4, <1>7, <1>10, SMTT(30) DEF StateOf
<1>14. LifecycleState = S /\ LifecycleState' = T /\ RunningHarts' = RunningHarts
  BY <1>2, <1>3, <1>10, Mapping, SMTT(30)
<1>15. \A c \in HartIds : <<v, c>> \notin RunningHarts
  BY <1>2, <1>9, Mapping, Running, SMTT(30)
<1>16. \A c \in DOMAIN LifecycleState[v] : LifecycleState[v][c] = "Shutdown" /\ <<v, c>> \notin RunningHarts
  BY <1>9, <1>13, <1>14, <1>15, SMTT(30)
<1>17. Lifecycle!Remove(v)
  BY <1>2, <1>7, <1>11, <1>12, <1>14, <1>16, SMTT(30) DEF Lifecycle!Remove
<1>. QED  BY <1>4, <1>17 DEF LifecycleStep, Lifecycle!LifecycleNext

-----------------------------------------------------------------------------
(* New ids, and the theorems                                               *)

\* For the least of a set of numbers.
WF == INSTANCE WellFoundedInduction

\* unique_id: there is a largest id, and the next one is not in use.
LEMMA FreshId ==
    ASSUME DOMAIN confidential_vms \subseteq VmIds
    PROVE  unique_id \notin DOMAIN confidential_vms
<1>0. PICK ids : ids = DOMAIN confidential_vms
  BY Zenon
<1>1. CASE ids = {}
  BY <1>0, <1>1, Zenon
<1>2. CASE ids # {}
  <2>1. PICK n \in Nat : VmIds = 0 .. n
    <3>1. PICK k : k = Cardinality(VmIds)
      BY Zenon
    <3>2. k - 1 \in Nat /\ VmIds = 0 .. (k - 1)
      BY <3>1, LocksAssumption
    <3>. QED  BY <3>2, Zenon
  <2>. DEFINE Bounds == {k \in Nat : \A u \in ids : u <= k}
  <2>0. ids \subseteq Nat /\ \A u \in ids : u <= n
    BY <2>1, <1>0
  <2>2. n \in Bounds /\ Bounds \subseteq Nat
    BY <2>0, <2>1, Zenon
  <2>3. PICK m \in Bounds : \A j \in Bounds : ~(<<j, m>> \in WF!OpToRel(<, Nat))
    BY <2>2, WF!NatLessThanWellFounded, WF!WFMin, Zenon
  <2>4. m \in Nat /\ \A u \in ids : u <= m
    BY <2>3, Zenon
  <2>5. m \in ids
    <3>. SUFFICES ASSUME m \notin ids PROVE FALSE
      BY Zenon
    <3>1. \A u \in ids : u <= m - 1
      BY <2>0, <2>4
    <3>0. PICK u \in ids : TRUE
      BY <1>2, Zenon
    <3>2. m - 1 \in Nat
      BY <3>0, <3>1, <2>0, <2>4
    <3>3. m - 1 \in Bounds
      BY <3>1, <3>2, Zenon
    <3>4. <<m - 1, m>> \in WF!OpToRel(<, Nat)
      BY <3>2, <2>4 DEF WF!OpToRel
    <3>. QED  BY <3>3, <3>4, <2>3, Zenon
  <2>6. PICK k : k = CHOOSE v \in ids : \A u \in ids : u <= v
    BY Zenon
  <2>7. k \in ids /\ \A u \in ids : u <= k
    BY <2>4, <2>5, <2>6, Zenon
  <2>8. unique_id = k + 1
    BY <2>6, <1>0, <1>2, Zenon DEF unique_id
  <2>. QED  BY <2>0, <2>7, <2>8, <1>0
<1>. QED  BY <1>1, <1>2, Zenon

\* A VM is put in the map.
LEMMA InsertPreserves ==
    ASSUME Inv, NEW h \in HardwareHarts, insert(h)
    PROVE  Inv'
<1>1. Types /\ HartInv(h) /\ Ownership
  BY Zenon DEF Inv
<1>2. PICK s : s = Head(todo[h])
  BY Zenon
<1>3. PICK ids, id : ids = DOMAIN confidential_vms /\ id = unique_id
  BY Zenon
<1>4. /\ todo[h] # <<>> /\ s.do = "insert" /\ held' = held /\ hardware_hart' = hardware_hart
      /\ \/ /\ id \in VmIds /\ Then(h, <<>>)
            /\ confidential_vms' = [v \in ids \cup {id} |->
                  IF v = id THEN [c \in HartIds |-> IF c = 0 THEN "Started" ELSE "Stopped"]
                            ELSE confidential_vms[v]]
            /\ inter_hart_requests' = [v \in ids \cup {id} |->
                  IF v = id THEN [c \in HartIds |-> 0] ELSE inter_hart_requests[v]]
         \/ Fail(h) /\ UNCHANGED <<confidential_vms, inter_hart_requests>>
  BY <1>2, <1>3, Zenon DEF insert, At
<1>5. PICK w, x, e : /\ w \in Local /\ x \in Local /\ HartNow(h, w, e) /\ s \in StepSet
                     /\ Trans(w, s, x) /\ Path(x, Tail(todo[h]), e)
  BY <1>1, <1>2, <1>4, AtStep, SMTT(30)
<1>6. Has(w.stack, CdWrite) /\ w.fact = Nothing /\ x = w
  BY <1>4, <1>5, Zenon DEF Trans
<1>7. Has(held[h], CdWrite)
  BY <1>5, <1>6, Zenon DEF HartNow
<1>8. CASE Fail(h) /\ UNCHANGED <<confidential_vms, inter_hart_requests>>
  <2>1. Own(h)' = Own(h) /\ UNCHANGED <<data, held>>
    BY <1>4, <1>8, Zenon DEF Own, data
  <2>2. /\ HartInv(h)' /\ todo' \in [HardwareHarts -> Seq(StepSet)]
        /\ \A g \in HardwareHarts : g # h => todo'[g] = todo[g]
    BY <2>1, <1>1, <1>4, <1>8, Fails, SMTT(60)
  <2>. QED  BY <2>1, <2>2, OnlyTodo
<1>9. CASE ~(Fail(h) /\ UNCHANGED <<confidential_vms, inter_hart_requests>>)
  <2>1. PICK fresh, none : /\ fresh = [c \in HartIds |-> IF c = 0 THEN "Started" ELSE "Stopped"]
                           /\ none = [c \in HartIds |-> 0]
    BY Zenon
  <2>2. PICK A, B, H : A = confidential_vms /\ B = confidential_vms' /\ H = hardware_hart
    BY Zenon
  <2>3. /\ id \in VmIds /\ Then(h, <<>>)
        /\ B = [v \in ids \cup {id} |-> IF v = id THEN fresh ELSE A[v]]
        /\ inter_hart_requests' = [v \in ids \cup {id} |->
              IF v = id THEN none ELSE inter_hart_requests[v]]
    BY <2>1, <2>2, <1>4, <1>9
  <2>4. "Started" \in HartStates /\ "Stopped" \in HartStates
    BY Zenon DEF HartStates
  <2>5. /\ fresh \in [HartIds -> Slots] /\ none \in [HartIds -> Nat]
        /\ \A c \in HartIds : fresh[c] # None
    BY <2>1, <2>4, NoneApart
  <2>6. ids \subseteq VmIds /\ id \notin ids
    BY <1>1, <1>3, FreshId DEF Types
  <2>7. /\ A \in [ids -> [HartIds -> Slots]] /\ DOMAIN A = ids
        /\ inter_hart_requests \in [ids -> [HartIds -> Nat]]
    BY <2>2, <1>1, <1>3 DEF Types
  <2>8. /\ DOMAIN B = ids \cup {id} /\ B[id] = fresh
        /\ \A v \in ids : B[v] = A[v]
    BY <2>3, <2>6, Zenon
  <2>9. B \in [DOMAIN B -> [HartIds -> Slots]] /\ DOMAIN B \subseteq VmIds
    BY <2>3, <2>5, <2>6, <2>7
  <2>10. inter_hart_requests' \in [DOMAIN B -> [HartIds -> Nat]]
    BY <2>3, <2>5, <2>6, <2>7
  <2>11. OwnershipOf(A, H)
    BY <2>2, <1>1, SMTT(60) DEF Ownership
  <2>12. OwnershipOf(B, H)
    <3>1. ASSUME NEW g \in HardwareHarts, H[g] # None
          PROVE  H[g].vm \in DOMAIN B /\ B[H[g].vm][H[g].hart] = None
      <4>1. H[g].vm \in DOMAIN A /\ A[H[g].vm][H[g].hart] = None
        BY <3>1, <2>11, Zenon DEF OwnershipOf
      <4>. QED  BY <4>1, <2>7, <2>8, SMTT(60)
    <3>2. ASSUME NEW v \in DOMAIN B, NEW c \in HartIds, B[v][c] = None
          PROVE  \E g \in HardwareHarts : H[g] # None /\ H[g].vm = v /\ H[g].hart = c
      <4>1. v \in DOMAIN A /\ A[v][c] = None
        BY <3>2, <2>5, <2>7, <2>8, Zenon
      <4>. QED  BY <4>1, <2>11, Zenon DEF OwnershipOf
    <3>. QED  BY <3>1, <3>2, <2>11, Zenon DEF OwnershipOf
  <2>13. Ownership'
    BY <2>2, <2>12, <1>4, Zenon DEF Ownership
  <2>. QED  BY <2>2, <2>3, <2>9, <2>10, <2>13, <1>4, <1>5, <1>6, <1>7, OnlyMap, ZenonT(60)
<1>. QED  BY <1>8, <1>9, Zenon

\* Every step of every operation preserves it.
LEMMA Preserved == Inv /\ [Next]_vars => Inv'
<1>. SUFFICES ASSUME Inv, [Next]_vars PROVE Inv'
  BY Zenon
<1>1. CASE UNCHANGED vars
  <2>1. /\ confidential_vms' = confidential_vms /\ inter_hart_requests' = inter_hart_requests
        /\ hardware_hart' = hardware_hart /\ todo' = todo /\ held' = held
    BY <1>1, Zenon DEF vars
  <2>2. Types' /\ Ownership' /\ Exclusion'
    BY <2>1, Zenon DEF Inv, Types, Ownership, Exclusion
  <2>3. ASSUME NEW g \in HardwareHarts PROVE HartInv(g)'
    <3>1. HartInv(g) /\ Own(g)' = Own(g)
      BY <2>1, Zenon DEF Inv, Own
    <3>. QED  BY <3>1, <2>1, OtherSame, Zenon
  <2>. QED  BY <2>2, <2>3, Zenon DEF Inv
<1>2. ASSUME NEW h \in HardwareHarts, Start(h) PROVE Inv'
  BY <1>2, StartPreserves, Zenon
<1>3. ASSUME NEW h \in HardwareHarts, Step(h) PROVE Inv'
  BY <1>3, AcquirePreserves, ReleasePreserves, CheckPreserves, DecidePreserves, StatePreserves,
     MovePreserves, SlotPreserves, InsertPreserves, RemovePreserves, ZenonT(60) DEF Step
<1>. QED  BY <1>1, <1>2, <1>3, Zenon DEF Next

\* The invariant: what a hart still has to do leads, in the order of the ranks and
\* under the guards each access needs, to a state without guards.
THEOREM Invariance == Spec => []Inv
BY Initial, Preserved, PTL DEF Spec

\* Whatever locks the harts hold and wait for, in every group of harts there is one
\* that waits for no member of the group: along a chain of waiting harts the ranks of
\* the locks grow, and there are four ranks.
THEOREM DeadlockFreedom == Spec => []NoDeadlock
<1>1. Inv => NoDeadlock
  <2>. SUFFICES ASSUME Inv, NEW group \in SUBSET HardwareHarts, group # {},
                       \A h \in group : Blockers(h) \cap group # {}
                PROVE  FALSE
    BY Zenon DEF NoDeadlock
  <2>1. ASSUME NEW h \in group
        PROVE  Awaited(h) \in 1 .. 4 /\ \E g \in group : Awaited(h) < Awaited(g)
    <3>1. PICK g \in group : g \in Blockers(h)
      BY Zenon
    <3>2. Blockers(g) # {} /\ g \in HardwareHarts /\ h \in HardwareHarts
      BY Zenon
    <3>. QED  BY <3>1, <3>2, Waits, Zenon
  <2>2. PICK a \in group : TRUE
    BY Zenon
  <2>3. PICK b \in group : Awaited(a) < Awaited(b)
    BY <2>1, Zenon
  <2>4. PICK c \in group : Awaited(b) < Awaited(c)
    BY <2>1, Zenon
  <2>5. PICK d \in group : Awaited(c) < Awaited(d)
    BY <2>1, Zenon
  <2>6. PICK e \in group : Awaited(d) < Awaited(e)
    BY <2>1, Zenon
  <2>7. /\ Awaited(a) \in 1 .. 4 /\ Awaited(b) \in 1 .. 4 /\ Awaited(c) \in 1 .. 4
        /\ Awaited(d) \in 1 .. 4 /\ Awaited(e) \in 1 .. 4
    BY <2>1, Zenon
  <2>. QED  BY <2>3, <2>4, <2>5, <2>6, <2>7
<1>. QED  BY <1>1, Invariance, PTL

\* The unwraps of into_non_confidential_flow and process_inter_hart_requests: the VM of
\* a hart that runs is in the map whenever its hardware hart looks it up.
THEOREM UnwrapSafety == Spec => []UnwrapsAreSafe
<1>1. Inv => UnwrapsAreSafe
  <2>. SUFFICES ASSUME Inv, NEW h \in HardwareHarts, At(h, "panic") PROVE FALSE
    BY Zenon DEF UnwrapsAreSafe
  <2>1. todo[h] # <<>> /\ Head(todo[h]).do = "panic" /\ HartInv(h)
    BY Zenon DEF At, Inv
  <2>2. Head(todo[h]) \in StepSet
    BY <2>1, AtStep, Zenon
  <2>. QED  BY <2>1, <2>2, Zenon DEF StepSet, DoNames
<1>. QED  BY <1>1, Invariance, PTL

\* insert_confidential_vm: a VM is created with all its harts.
LEMMA InsertStep ==
    ASSUME Inv, Inv', NEW h \in HardwareHarts, insert(h)
    PROVE  LifecycleStep
<1>1. PICK A, B, H, id : /\ A = confidential_vms /\ B = confidential_vms' /\ H = hardware_hart
                         /\ id = unique_id
  BY Zenon
<1>2. PICK fresh : fresh = [c \in HartIds |-> IF c = 0 THEN "Started" ELSE "Stopped"]
  BY Zenon
<1>3. /\ hardware_hart' = H
      /\ \/ B = A
         \/ id \in VmIds /\ B = [v \in DOMAIN A \cup {id} |-> IF v = id THEN fresh ELSE A[v]]
  BY <1>1, <1>2 DEF insert
<1>4. CASE B = A
  BY <1>1, <1>3, <1>4, NoStep, SMTT(60)
<1>5. CASE id \in VmIds /\ B = [v \in DOMAIN A \cup {id} |-> IF v = id THEN fresh ELSE A[v]]
  <2>1. Sound(A, H) /\ Sound(B, H)
    BY <1>1, <1>3, Mapping, SMTT(30)
  <2>2. id \notin DOMAIN A /\ DOMAIN A \subseteq VmIds
    BY <1>1, FreshId DEF Inv, Types
  <2>3. DOMAIN B = DOMAIN A \cup {id} /\ B[id] = fresh /\ \A v \in DOMAIN A : B[v] = A[v]
    BY <1>5, <2>2
  <2>4. \A c \in HartIds : StateIn(B, H, id, c) = fresh[c]
    <3>1. \A c \in HartIds : fresh[c] # None
      BY <1>2, NoneApart DEF HartStates
    <3>. QED  BY <2>3, <3>1, Zenon DEF StateIn
  <2>5. \A v \in DOMAIN A, c \in HartIds : StateIn(B, H, v, c) = StateIn(A, H, v, c)
    BY <2>3 DEF StateIn
  <2>6. PICK S, T : S = StateOf(A, H) /\ T = StateOf(B, H)
    BY Zenon
  <2>7. /\ S = [v \in VmIds |-> S[v]] /\ T = [v \in VmIds |-> T[v]]
        /\ \A v \in VmIds : v # id => S[v] = T[v]
        /\ T[id] = fresh
    <3>1. S = [v \in VmIds |-> S[v]] /\ T = [v \in VmIds |-> T[v]]
      BY <2>6, ZenonT(60) DEF StateOf
    <3>2. ASSUME NEW v \in VmIds, v # id PROVE S[v] = T[v]
      <4>1. CASE v \in DOMAIN A
        <5>1. \A c \in HartIds : StateIn(B, H, v, c) = StateIn(A, H, v, c)
          BY <4>1, <2>5
        <5>2. /\ S[v] = [c \in HartIds |-> StateIn(A, H, v, c)]
              /\ T[v] = [c \in HartIds |-> StateIn(B, H, v, c)]
          BY <4>1, <2>3, <2>6, SMTT(60) DEF StateOf
        <5>. QED  BY <5>1, <5>2
      <4>2. CASE v \notin DOMAIN A
        BY <3>2, <4>2, <2>3, <2>6, SMTT(60) DEF StateOf
      <4>. QED  BY <4>1, <4>2, SMTT(30)
    <3>3. T[id] = [c \in HartIds |-> StateIn(B, H, id, c)]
      BY <1>5, <2>3, <2>6, SMTT(60) DEF StateOf
    <3>4. T[id] = fresh
      BY <3>3, <2>4, <1>2, SMTT(60)
    <3>. QED  BY <3>1, <3>2, <3>4, SMTT(30)
  <2>8. T = [S EXCEPT ![id] = fresh]
    BY <1>5, <2>7
  <2>9. LifecycleState = S /\ LifecycleState' = T /\ RunningHarts' = RunningHarts
    BY <1>1, <1>3, <2>6, Mapping, SMTT(60)
  <2>10. Lifecycle!Create(id, HartIds)
    BY <1>1, <1>2, <2>2, <2>3, <2>8, <2>9, SMTT(60) DEF Lifecycle!Create
  <2>. QED  BY <1>5, <2>10 DEF LifecycleStep, Lifecycle!LifecycleNext
<1>. QED  BY <1>3, <1>4, <1>5

\* The critical sections are atomic: whatever the harts interleave, the lifecycle of
\* every confidential hart changes only as HartLifecycle says.
THEOREM Atomicity == Spec => SectionsAreAtomic
<1>1. Init => Lifecycle!LifecycleInit
  <2>. SUFFICES ASSUME Init PROVE Lifecycle!LifecycleInit
    BY Zenon
  <2>1. DOMAIN confidential_vms = {}
    BY DEF Init
  <2>2. AssignedHarts = {}
    BY Zenon DEF Init, AssignedHarts
  <2>. QED  BY <2>1, <2>2 DEF Lifecycle!LifecycleInit, LifecycleState, RunningHarts
<1>2. Inv /\ Inv' /\ [Next]_vars => [Lifecycle!LifecycleNext]_(Lifecycle!lifecycleVars)
  <2>. SUFFICES ASSUME Inv, Inv', [Next]_vars PROVE LifecycleStep
    BY Zenon DEF LifecycleStep, Lifecycle!lifecycleVars
  <2>1. CASE UNCHANGED vars
    BY <2>1, NoStep, Zenon DEF vars
  <2>2. ASSUME NEW h \in HardwareHarts, Start(h) PROVE LifecycleStep
    <3>1. UNCHANGED data
      BY <2>2, Zenon DEF Start, promote_to_confidential_vm, terminate_confidential_vm,
         resume_confidential_hart, interrupt, sbi_hsm_hart_start, sbi_hsm_hart_stop, sbi_hsm_hart_suspend,
         sbi_hsm_hart_status, sbi_srst, Call
    <3>. QED  BY <3>1, NoStep, SMTT(30) DEF data
  <2>3. ASSUME NEW h \in HardwareHarts, Step(h) PROVE LifecycleStep
    <3>1. ASSUME \/ acquire(h) \/ release(h) \/ find(h) \/ find_or_panic(h) \/ is_executable(h)
                 \/ are_all_harts_shutdown(h) \/ after_requests(h) \/ push(h) \/ send_ipi(h)
          PROVE  LifecycleStep
      <4>1. confidential_vms' = confidential_vms /\ hardware_hart' = hardware_hart
        BY <3>1, Zenon DEF acquire, release, find, find_or_panic, is_executable, are_all_harts_shutdown,
           after_requests, push, send_ipi, Check, data
      <4>. QED  BY <4>1, NoStep, SMTT(30)
    <3>. QED  BY <2>3, <3>1, StateSteps, StealStep, ReturnStep, SlotSteps, InsertStep, RemoveStep,
                 ZenonT(60) DEF Step
  <2>. QED  BY <2>1, <2>2, <2>3 DEF Next
<1>. QED  BY <1>1, <1>2, Invariance, PTL DEF Spec, SectionsAreAtomic, Lifecycle!LifecycleSpec
=============================================================================
