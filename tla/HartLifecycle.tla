---------------------------- MODULE HartLifecycle ----------------------------
(***************************************************************************)
(* What the security monitor promises about confidential harts, without    *)
(* hart tokens, dummies, queues, IPIs or handlers: which harts exist, the  *)
(* lifecycle state of each (core/architecture/riscv/                       *)
(* hart_lifecycle_state.rs, after the HSM extension of SBI) and which of   *)
(* them are on a hardware hart.  SecurityMonitor and MonitorLocks, at two  *)
(* grains of atomicity, implement this specification.                      *)
(***************************************************************************)
EXTENDS Integers

CONSTANTS VmIds, HartIds

VARIABLES
    vms,        \* ids of the VMs that exist
    state,      \* per VM: the lifecycle state of each hart
    running     \* the harts assigned to a hardware hart, as <<vm, hart>>

lifecycleVars == <<vms, state, running>>

LifecycleInit ==
    /\ vms = {}
    /\ state = [v \in VmIds |-> <<>>]
    /\ running = {}

Executable == {"Started", "StartPending", "Suspended"}

\* A new VM has one started hart, its boot hart; a VM may also have no hart.
Create(v, harts) ==
    /\ v \notin vms
    /\ vms' = vms \cup {v}
    /\ state' = [state EXCEPT ![v] = [c \in harts |-> IF c = 0 THEN "Started" ELSE "Stopped"]]
    /\ UNCHANGED running

\* A hart is scheduled when it is executable and not already running.
Schedule(v, c) ==
    /\ v \in vms /\ c \in DOMAIN state[v]
    /\ <<v, c>> \notin running
    /\ state[v][c] \in Executable
    /\ running' = running \cup {<<v, c>>}
    /\ UNCHANGED <<vms, state>>

\* Another hart of the same VM that runs starts a stopped one.
Start(v, c) ==
    /\ v \in vms /\ c \in DOMAIN state[v]
    /\ state[v][c] = "Stopped"
    /\ <<v, c>> \notin running
    /\ \E d \in DOMAIN state[v] : <<v, d>> \in running
    /\ state' = [state EXCEPT ![v][c] = "StartPending"]
    /\ UNCHANGED <<vms, running>>

\* A hart that was scheduled for the first time is started.
Begin(v, c) ==
    /\ <<v, c>> \in running
    /\ state[v][c] = "StartPending"
    /\ state' = [state EXCEPT ![v][c] = "Started"]
    /\ UNCHANGED <<vms, running>>

\* A running hart that is about to leave stops or suspends itself.
Halt(v, c, next) ==
    /\ <<v, c>> \in running
    /\ next \in {"Stopped", "Suspended"} /\ state[v][c] = "Started"
    /\ state' = [state EXCEPT ![v][c] = next]
    /\ UNCHANGED <<vms, running>>

\* A running hart leaves its hardware hart; it may stop or suspend itself only
\* from Started, and it may shut down from any state.
Leave(v, c, next) ==
    /\ <<v, c>> \in running
    /\ \/ next = state[v][c]
       \/ next \in {"Stopped", "Suspended"} /\ state[v][c] = "Started"
       \/ next = "Shutdown"
    /\ state' = [state EXCEPT ![v][c] = next]
    /\ running' = running \ {<<v, c>>}
    /\ UNCHANGED vms

\* Harts are shut down only while some hart of their VM runs.
Shutdown(v, harts) ==
    /\ \E d \in DOMAIN state[v] : <<v, d>> \in running
    /\ state' = [state EXCEPT ![v] = [c \in DOMAIN @ |-> IF c \in harts THEN "Shutdown" ELSE @[c]]]
    /\ UNCHANGED <<vms, running>>

\* A VM is removed when every hart is shut down and none runs.
Remove(v) ==
    /\ v \in vms
    /\ \A c \in DOMAIN state[v] : state[v][c] = "Shutdown" /\ <<v, c>> \notin running
    /\ vms' = vms \ {v}
    /\ state' = [state EXCEPT ![v] = <<>>]
    /\ UNCHANGED running

LifecycleNext ==
    \E v \in VmIds :
        \/ \E harts \in SUBSET HartIds : Create(v, harts) \/ Shutdown(v, harts)
        \/ \E c \in HartIds :
             \/ Schedule(v, c)
             \/ Start(v, c)
             \/ Begin(v, c)
             \/ \E next \in {"Stopped", "Suspended"} : Halt(v, c, next)
             \/ \E next \in {"Started", "StartPending", "Stopped", "Suspended", "Shutdown"} : Leave(v, c, next)
        \/ Remove(v)

LifecycleSpec == LifecycleInit /\ [][LifecycleNext]_lifecycleVars
=============================================================================
