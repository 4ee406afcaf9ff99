------------------------- MODULE MonitorLocksSteps --------------------------
(***************************************************************************)
(* The sequences of steps of the handlers, as paths.  Local is what a hart *)
(* holds and knows: the guards on its stack, the confidential hart         *)
(* assigned to it and a fact about the control data that it established    *)
(* and that its guards keep true.  Trans(w, s, x) says when the step s may *)
(* be taken in w and that it leads to x: a lock is acquired only if it     *)
(* ranks above all locks held, and data is accessed only under the locks   *)
(* that protect it.  The lemmas show that every operation is a path from   *)
(* a state without guards to one, and that an error at any point of it     *)
(* drops all guards.                                                       *)
(*                                                                         *)
(* The inductive invariant of the locks, and the steps that preserve it.   *)
(* What a hart still has to do is a path from what the hart holds and      *)
(* knows now to a state without guards; what it knows is true; the guards  *)
(* of two harts do not exclude each other; and a slot of a VM is empty iff *)
(* one hardware hart has the confidential hart.                            *)
(***************************************************************************)
EXTENDS MonitorLocks, TLAPS

(* Locks and steps                                                         *)

LockNames == {"control_data", "confidential_vm", "inter_hart_requests",
              "interrupt_controller", "page_allocator", "heap"}
LockSet == [name : LockNames, vm : VmIds, hart : HartIds, mode : {"read", "write"}]

\* The order in which locks are taken.
Rank(l) == CASE l.name = "control_data" -> 1
             [] l.name = "confidential_vm" -> 2
             [] l.name = "heap" -> 4
             [] OTHER -> 3

CdRead == Lock("control_data", 0, 0, "read")
CdWrite == Lock("control_data", 0, 0, "write")
VmLock(v) == Lock("confidential_vm", v, 0, "write")

DoNames == {"find", "find_or_panic", "is_executable", "are_all_harts_shutdown",
            "steal", "return", "drain", "after_requests", "take_request",
            "transition_to_shutdown", "transition_from_started_to_stopped",
            "transition_from_started_to_suspended", "transit_to_start_pending", "broadcast",
            "push", "send_ipi", "insert", "remove"}
\* The hart that runs changes its own lifecycle state.
OwnTransitions == {"transition_to_shutdown", "transition_from_started_to_stopped",
                   "transition_from_started_to_suspended"}
StepSet == [do : {"acquire"}, lock : LockSet] \cup [do : {"release"}]
             \cup [do : DoNames, vm : VmIds, hart : HartIds]

(* What a hart holds and knows                                             *)

HartId == [vm : VmIds, hart : HartIds]
NoOne == [vm |-> -1, hart |-> -1]
Owner == {NoOne} \cup HartId
Facts == [kind : {"nothing", "exists", "executable", "shutdown"}, vm : VmIds, hart : HartIds]
Local == [stack : Seq(LockSet), own : Owner, fact : Facts]

Nothing == [kind |-> "nothing", vm |-> 0, hart |-> 0]
ExistsFact(v) == [kind |-> "exists", vm |-> v, hart |-> 0]
ExecutableFact(v, c) == [kind |-> "executable", vm |-> v, hart |-> c]
ShutdownFact(v) == [kind |-> "shutdown", vm |-> v, hart |-> 0]

L(stack, own, fact) == [stack |-> stack, own |-> own, fact |-> fact]
Id(v, c) == [vm |-> v, hart |-> c]

Has(stack, l) == \E i \in DOMAIN stack : stack[i] = l
HasCd(stack) == Has(stack, CdRead) \/ Has(stack, CdWrite)
Low(stack, rank) == \A i \in DOMAIN stack : Rank(stack[i]) < rank
Above(stack, l) == Low(stack, Rank(l))

\* The stack without its last n guards; what was known is forgotten with the last.
Dropped(w, n) ==
    L(SubSeq(w.stack, 1, Len(w.stack) - n), w.own,
      IF n < Len(w.stack) THEN w.fact ELSE Nothing)

\* The step s of a hart in w.
Trans(w, s, x) ==
    \/ /\ s.do = "acquire" /\ Above(w.stack, s.lock)
       /\ x = L(Append(w.stack, s.lock), w.own, w.fact)
    \/ /\ s.do = "release" /\ w.stack # <<>> /\ w.fact.kind # "executable"
       /\ x = Dropped(w, 1)
    \/ /\ s.do = "find" /\ HasCd(w.stack) /\ w.fact = Nothing
       /\ x = L(w.stack, w.own, ExistsFact(s.vm))
    \/ /\ s.do = "find_or_panic" /\ HasCd(w.stack) /\ w.fact = Nothing
       /\ w.own # NoOne /\ w.own.vm = s.vm
       /\ x = L(w.stack, w.own, ExistsFact(s.vm))
    \/ /\ s.do = "is_executable"
       /\ HasCd(w.stack) /\ Has(w.stack, VmLock(s.vm)) /\ w.fact = ExistsFact(s.vm)
       /\ x = L(w.stack, w.own, ExecutableFact(s.vm, s.hart))
    \/ /\ s.do = "steal"
       /\ HasCd(w.stack) /\ Has(w.stack, VmLock(s.vm)) /\ w.fact = ExecutableFact(s.vm, s.hart)
       /\ w.own = NoOne
       /\ x = L(w.stack, Id(s.vm, s.hart), ExistsFact(s.vm))
    \/ /\ s.do = "return"
       /\ HasCd(w.stack) /\ Has(w.stack, VmLock(s.vm)) /\ w.fact = ExistsFact(s.vm)
       /\ w.own = Id(s.vm, s.hart)
       /\ x = L(w.stack, NoOne, w.fact)
    \/ /\ s.do = "drain" /\ w.fact = ExistsFact(s.vm) /\ w.own = Id(s.vm, s.hart)
       /\ x = w
    \/ /\ s.do \in {"transition_to_shutdown", "transition_from_started_to_stopped",
                    "transition_from_started_to_suspended"}
       /\ w.fact = Nothing /\ w.own = Id(s.vm, s.hart)
       /\ x = w
    \/ /\ s.do = "take_request" /\ w.stack = <<>> /\ w.fact = Nothing /\ w.own = Id(s.vm, s.hart)
       /\ x = w
    \/ /\ s.do = "after_requests" /\ w.stack = <<>> /\ w.fact = Nothing
       /\ w.own = Id(s.vm, s.hart)
       /\ x = L(<<>>, NoOne, Nothing)
    \/ /\ s.do \in {"transit_to_start_pending", "broadcast"}
       /\ HasCd(w.stack) /\ Has(w.stack, VmLock(s.vm)) /\ w.fact = ExistsFact(s.vm)
       /\ w.own # NoOne /\ w.own.vm = s.vm
       /\ s.do = "broadcast" => Low(w.stack, 3)
       /\ x = w
    \/ /\ s.do \in {"push", "send_ipi"} /\ w.fact = ExistsFact(s.vm)
       /\ x = w
    \/ /\ s.do = "insert" /\ Has(w.stack, CdWrite) /\ w.fact = Nothing
       /\ x = w
    \/ /\ s.do = "are_all_harts_shutdown" /\ Has(w.stack, CdWrite) /\ w.fact = ExistsFact(s.vm)
       /\ x = L(w.stack, w.own, ShutdownFact(s.vm))
    \/ /\ s.do = "remove" /\ Has(w.stack, CdWrite) /\ w.fact = ShutdownFact(s.vm)
       /\ x = L(w.stack, w.own, Nothing)

\* The steps s lead from w to x.
Path(w, s, x) ==
    /\ s \in Seq(StepSet)
    /\ \E W \in [1 .. (Len(s) + 1) -> Local] :
          /\ W[1] = w /\ W[Len(s) + 1] = x
          /\ \A i \in 1 .. Len(s) : Trans(W[i], s[i], W[i + 1])

(* Sequences                                                               *)

\* A sequence is a function on its length.
LEMMA Lengths ==
    ASSUME NEW S, NEW s \in Seq(S)
    PROVE  Len(s) \in Nat /\ DOMAIN s = 1 .. Len(s) /\ \A i \in 1 .. Len(s) : s[i] \in S
OBVIOUS

\* Only the empty sequence has length 0.
LEMMA Empty ==
    ASSUME NEW S
    PROVE  <<>> \in Seq(S) /\ Len(<<>>) = 0 /\ \A s \in Seq(S) : s # <<>> => Len(s) \in Nat \ {0}
OBVIOUS

\* Sequences of one length with the same elements are the same.
LEMMA SameSeq ==
    ASSUME NEW S, NEW s \in Seq(S), NEW t \in Seq(S),
           Len(s) = Len(t), \A i \in 1 .. Len(s) : s[i] = t[i]
    PROVE  s = t
OBVIOUS

\* A part of a sequence.
LEMMA Part ==
    ASSUME NEW S, NEW s, NEW m \in Int, NEW n \in Int, \A i \in m .. n : s[i] \in S
    PROVE  /\ SubSeq(s, m, n) \in Seq(S)
           /\ Len(SubSeq(s, m, n)) = IF m <= n THEN n - m + 1 ELSE 0
           /\ \A i \in 1 .. (n - m + 1) : SubSeq(s, m, n)[i] = s[m + i - 1]
OBVIOUS

\* One sequence after another.
LEMMA Joined ==
    ASSUME NEW S, NEW s \in Seq(S), NEW t \in Seq(S)
    PROVE  /\ s \o t \in Seq(S) /\ Len(s \o t) = Len(s) + Len(t)
           /\ \A i \in 1 .. (Len(s) + Len(t)) :
                 (s \o t)[i] = IF i <= Len(s) THEN s[i] ELSE t[i - Len(s)]
OBVIOUS

\* One more element leaves the others where they are.
LEMMA OnTop ==
    ASSUME NEW S, NEW s \in Seq(S), NEW e \in S, NEW t, t = Append(s, e)
    PROVE  /\ t \in Seq(S) /\ t # <<>> /\ Len(t) = Len(s) + 1 /\ Len(s) \in Nat
           /\ \A i \in 1 .. Len(s) : t[i] = s[i]
           /\ t[Len(s) + 1] = e
           /\ DOMAIN t = 1 .. (Len(s) + 1) /\ DOMAIN s = 1 .. Len(s)
OBVIOUS

(* Paths                                                                   *)

\* Ids are natural numbers, and 0 is one.
LEMMA Ids ==
    /\ 0 \in VmIds /\ VmIds \subseteq Nat
    /\ 0 \in HartIds /\ HartIds \subseteq Nat
BY LocksAssumption

\* The fields of what a hart holds and knows.
LEMMA LocalFields ==
    ASSUME NEW w \in Local
    PROVE  /\ w = L(w.stack, w.own, w.fact)
           /\ w.stack \in Seq(LockSet) /\ w.own \in Owner /\ w.fact \in Facts
           /\ Len(w.stack) \in Nat /\ DOMAIN w.stack = 1 .. Len(w.stack)
<1>1. /\ w = L(w.stack, w.own, w.fact)
      /\ w.stack \in Seq(LockSet) /\ w.own \in Owner /\ w.fact \in Facts
  BY Zenon DEF Local, L
<1>. QED  BY <1>1, Lengths, Zenon

\* L builds what a hart holds and knows.
LEMMA IsLocal ==
    ASSUME NEW stack \in Seq(LockSet), NEW own \in Owner, NEW fact \in Facts
    PROVE  /\ L(stack, own, fact) \in Local
           /\ L(stack, own, fact).stack = stack
           /\ L(stack, own, fact).own = own
           /\ L(stack, own, fact).fact = fact
BY Zenon DEF L, Local

\* The facts and their fields.
LEMMA AreFacts ==
    ASSUME NEW v \in VmIds, NEW c \in HartIds
    PROVE  /\ Nothing \in Facts /\ ExistsFact(v) \in Facts
           /\ ExecutableFact(v, c) \in Facts /\ ShutdownFact(v) \in Facts
           /\ Nothing.kind = "nothing" /\ ExistsFact(v).kind = "exists"
           /\ ExecutableFact(v, c).kind = "executable" /\ ShutdownFact(v).kind = "shutdown"
           /\ ExistsFact(v).vm = v /\ ExecutableFact(v, c).vm = v /\ ShutdownFact(v).vm = v
           /\ ExecutableFact(v, c).hart = c
           /\ Id(v, c) \in HartId /\ Id(v, c).vm = v /\ Id(v, c).hart = c
BY Ids, Zenon DEF Facts, Nothing, ExistsFact, ExecutableFact, ShutdownFact, Id, HartId

\* No step: nothing changes.
LEMMA PathNil ==
    ASSUME NEW w \in Local
    PROVE  /\ Path(w, <<>>, w)
           /\ \A x : Path(w, <<>>, x) => x = w
<1>1. Len(<<>>) = 0 /\ <<>> \in Seq(StepSet)
  BY Empty, Zenon
<1>2. PICK W : W = [i \in 1 .. 1 |-> w]
  BY Zenon
<1>a. W \in [1 .. (Len(<<>>) + 1) -> Local] /\ W[1] = w /\ W[Len(<<>>) + 1] = w
  BY <1>1, <1>2
<1>b. \A i \in 1 .. Len(<<>>) : Trans(W[i], <<>>[i], W[i + 1])
  BY <1>1
<1>3. Path(w, <<>>, w)
  BY <1>1, <1>a, <1>b, Zenon DEF Path
<1>4. ASSUME NEW x, Path(w, <<>>, x) PROVE x = w
  BY <1>1, <1>4 DEF Path
<1>. QED  BY <1>3, <1>4, Zenon

\* One step.
LEMMA PathOne ==
    ASSUME NEW w \in Local, NEW x \in Local, NEW s \in StepSet, Trans(w, s, x)
    PROVE  Path(w, <<s>>, x)
<1>1. Len(<<s>>) = 1 /\ <<s>> \in Seq(StepSet) /\ <<s>>[1] = s
  OBVIOUS
<1>2. PICK t : t = <<s>>
  BY Zenon
<1>3. PICK W : W = [i \in 1 .. 2 |-> IF i = 1 THEN w ELSE x]
  BY Zenon
<1>4. W \in [1 .. (Len(t) + 1) -> Local] /\ W[1] = w /\ W[Len(t) + 1] = x
  BY <1>1, <1>2, <1>3
<1>5. \A i \in 1 .. Len(t) : Trans(W[i], t[i], W[i + 1])
  <2>1. ASSUME NEW i \in 1 .. Len(t) PROVE i = 1
    BY <1>1, <1>2
  <2>2. Trans(W[1], t[1], W[1 + 1])
    <3>1. W[1] = w /\ W[1 + 1] = x /\ t[1] = s
      BY <1>1, <1>2, <1>3
    <3>. QED  BY <3>1, Zenon
  <2>. QED  BY <2>1, <2>2, Zenon
<1>. QED  BY <1>1, <1>2, <1>4, <1>5, Zenon DEF Path

\* Steps after steps.
LEMMA PathConcat ==
    ASSUME NEW w, NEW s, NEW x, NEW t, NEW y, Path(w, s, x), Path(x, t, y)
    PROVE  Path(w, s \o t, y)
<1>1. s \in Seq(StepSet) /\ t \in Seq(StepSet)
  BY Zenon DEF Path
<1>2. PICK m, n : m = Len(s) /\ n = Len(t)
  BY Zenon
<1>3. m \in Nat /\ n \in Nat
  BY <1>1, <1>2, Lengths, Zenon
<1>4. PICK V \in [1 .. (m + 1) -> Local] :
        V[1] = w /\ V[m + 1] = x /\ \A i \in 1 .. m : Trans(V[i], s[i], V[i + 1])
  BY <1>2, Zenon DEF Path
<1>5. PICK W \in [1 .. (n + 1) -> Local] :
        W[1] = x /\ W[n + 1] = y /\ \A i \in 1 .. n : Trans(W[i], t[i], W[i + 1])
  BY <1>2, Zenon DEF Path
<1>6. PICK u : u = s \o t
  BY Zenon
<1>7. /\ u \in Seq(StepSet) /\ Len(u) = m + n
      /\ \A i \in 1 .. (m + n) : u[i] = IF i <= m THEN s[i] ELSE t[i - m]
  BY <1>1, <1>2, <1>6, Joined, Zenon
<1>8. PICK U : U = [i \in 1 .. (m + n + 1) |-> IF i <= m THEN V[i] ELSE W[i - m]]
  BY Zenon
<1>9. U \in [1 .. (m + n + 1) -> Local]
  <2>1. ASSUME NEW i \in 1 .. (m + n + 1)
        PROVE  (IF i <= m THEN V[i] ELSE W[i - m]) \in Local
    <3>1. CASE i <= m
      BY <3>1, <1>3, <1>4
    <3>2. CASE i > m
      <4>1. i - m \in 1 .. (n + 1) /\ ~(i <= m)
        BY <3>2, <1>3
      <4>. QED  BY <4>1, <1>5, Zenon
    <3>. QED  BY <3>1, <3>2, <1>3
  <2>. QED  BY <2>1, <1>8, Zenon
<1>10. \A i \in 1 .. m : U[i] = V[i]
  BY <1>3, <1>8
<1>11. \A i \in 1 .. (n + 1) : U[m + i] = W[i]
  <2>1. ASSUME NEW i \in 1 .. (n + 1)
        PROVE  U[m + i] = W[i]
    <3>1. m + i \in 1 .. (m + n + 1) /\ ~(m + i <= m) /\ (m + i) - m = i
      BY <1>3
    <3>. QED  BY <3>1, <1>8, Zenon
  <2>. QED  BY <2>1, Zenon
<1>12. U[m + 1] = V[m + 1]
  BY <1>3, <1>4, <1>5, <1>11
<1>13. U[1] = w /\ U[(m + n) + 1] = y
  <2>1. U[1] = w
    <3>1. CASE m = 0
      BY <3>1, <1>4, <1>12
    <3>2. CASE m # 0
      BY <3>2, <1>3, <1>4, <1>10
    <3>. QED  BY <3>1, <3>2, Zenon
  <2>2. (m + n) + 1 = m + (n + 1)
    BY <1>3
  <2>. QED  BY <2>1, <2>2, <1>3, <1>5, <1>11
<1>14. ASSUME NEW i \in 1 .. (m + n)
       PROVE  Trans(U[i], u[i], U[i + 1])
  <2>1. CASE i <= m
    <3>1. i \in 1 .. m
      BY <2>1, <1>3
    <3>2. U[i + 1] = V[i + 1]
      <4>1. CASE i = m
        BY <4>1, <1>12, Zenon
      <4>2. CASE i # m
        <5>1. i + 1 \in 1 .. m
          BY <3>1, <4>2, <1>3
        <5>. QED  BY <5>1, <1>10, Zenon
      <4>. QED  BY <4>1, <4>2, Zenon
    <3>3. U[i] = V[i] /\ u[i] = s[i]
      BY <2>1, <3>1, <1>7, <1>10, Zenon
    <3>. QED  BY <3>1, <3>2, <3>3, <1>4, Zenon
  <2>2. CASE i > m
    <3>1. PICK j \in 1 .. n : i = m + j
      <4>1. i - m \in 1 .. n /\ i = m + (i - m)
        BY <2>2, <1>3
      <4>. QED  BY <4>1, Zenon
    <3>2. j \in 1 .. (n + 1) /\ j + 1 \in 1 .. (n + 1) /\ i + 1 = m + (j + 1) /\ i - m = j /\ ~(i <= m)
      BY <3>1, <2>2, <1>3
    <3>3. U[i] = W[j] /\ U[i + 1] = W[j + 1]
      BY <3>1, <3>2, <1>11, Zenon
    <3>4. u[i] = t[j]
      BY <3>2, <1>7, Zenon
    <3>. QED  BY <3>1, <3>3, <3>4, <1>5, Zenon
  <2>. QED  BY <2>1, <2>2, <1>3
<1>. QED  BY <1>6, <1>7, <1>9, <1>13, <1>14, Zenon DEF Path

\* The first of several steps.
LEMMA PathHead ==
    ASSUME NEW w, NEW s, NEW y, Path(w, s, y), s # <<>>
    PROVE  /\ w \in Local /\ y \in Local
           /\ s \in Seq(StepSet) /\ Head(s) \in StepSet /\ Tail(s) \in Seq(StepSet)
           /\ \E x \in Local : Trans(w, Head(s), x) /\ Path(x, Tail(s), y)
<1>1. s \in Seq(StepSet)
  BY Zenon DEF Path
<1>2. PICK n : n = Len(s)
  BY Zenon
<1>3. n \in Nat /\ n >= 1
  BY <1>1, <1>2, Empty, Lengths
<1>4. PICK W \in [1 .. (n + 1) -> Local] :
        W[1] = w /\ W[n + 1] = y /\ \A i \in 1 .. n : Trans(W[i], s[i], W[i + 1])
  BY <1>2, Zenon DEF Path
<1>5. PICK t : t = Tail(s)
  BY Zenon
<1>6. /\ Head(s) = s[1] /\ s[1] \in StepSet
      /\ t \in Seq(StepSet) /\ Len(t) = n - 1
      /\ \A i \in 1 .. (n - 1) : t[i] = s[i + 1]
  <2>1. Head(s) = s[1] /\ s[1] \in StepSet
    BY <1>1, <1>2, <1>3, Lengths
  <2>2. t \in Seq(StepSet) /\ Len(t) = n - 1
    BY <1>1, <1>2, <1>3, <1>5
  <2>3. \A i \in 1 .. (n - 1) : t[i] = s[i + 1]
    BY <1>1, <1>2, <1>3, <1>5
  <2>. QED  BY <2>1, <2>2, <2>3, Zenon
<1>7. PICK V : V = [i \in 1 .. n |-> W[i + 1]]
  BY Zenon
<1>8. /\ V \in [1 .. ((n - 1) + 1) -> Local]
      /\ V[1] = W[2] /\ V[(n - 1) + 1] = y
  BY <1>3, <1>4, <1>7
<1>9. ASSUME NEW i \in 1 .. (n - 1) PROVE Trans(V[i], t[i], V[i + 1])
  <2>1. i + 1 \in 1 .. n /\ i \in 1 .. n
    BY <1>3
  <2>2. V[i] = W[i + 1] /\ V[i + 1] = W[(i + 1) + 1] /\ t[i] = s[i + 1]
    BY <2>1, <1>6, <1>7, Zenon
  <2>. QED  BY <2>1, <2>2, <1>4, Zenon
<1>10. Path(W[2], t, y)
  BY <1>6, <1>8, <1>9, Zenon DEF Path
<1>11. Trans(w, Head(s), W[2]) /\ W[2] \in Local /\ w \in Local /\ y \in Local
  <2>1. 1 \in 1 .. n /\ 1 + 1 = 2 /\ 2 \in 1 .. (n + 1) /\ 1 \in 1 .. (n + 1) /\ n + 1 \in 1 .. (n + 1)
    BY <1>3
  <2>2. Trans(W[1], s[1], W[1 + 1])
    BY <2>1, <1>4, Zenon
  <2>. QED  BY <2>1, <2>2, <1>4, <1>6, Zenon
<1>. QED  BY <1>1, <1>5, <1>6, <1>10, <1>11, Zenon

\* The ends of a path.
LEMMA PathEnds ==
    ASSUME NEW w, NEW s, NEW y, Path(w, s, y)
    PROVE  w \in Local /\ y \in Local /\ s \in Seq(StepSet)
<1>1. s \in Seq(StepSet)
  BY Zenon DEF Path
<1>2. Len(s) \in Nat
  BY <1>1, Lengths, Zenon
<1>3. PICK W \in [1 .. (Len(s) + 1) -> Local] : W[1] = w /\ W[Len(s) + 1] = y
  BY Zenon DEF Path
<1>. QED  BY <1>1, <1>2, <1>3

\* Steps that change nothing, as many as there are.
LEMMA PathLoop ==
    ASSUME NEW w \in Local, NEW s \in Seq(StepSet),
           \A i \in 1 .. Len(s) : Trans(w, s[i], w)
    PROVE  Path(w, s, w)
<1>1. Len(s) \in Nat
  BY Lengths, Zenon
<1>2. PICK W : W = [i \in 1 .. (Len(s) + 1) |-> w]
  BY Zenon
<1>3. W \in [1 .. (Len(s) + 1) -> Local] /\ W[1] = w /\ W[Len(s) + 1] = w
  BY <1>1, <1>2
<1>4. \A i \in 1 .. Len(s) : Trans(W[i], s[i], W[i + 1])
  <2>1. ASSUME NEW i \in 1 .. Len(s) PROVE W[i] = w /\ W[i + 1] = w
    BY <1>1, <1>2
  <2>. QED  BY <2>1, Zenon
<1>. QED  BY <1>3, <1>4, Zenon DEF Path

------------------------------------------------------------------------------
(* Dropping guards                                                         *)

\* What is left after n guards were dropped.
LEMMA DroppedLocal ==
    ASSUME NEW w \in Local, NEW n \in 1 .. Len(w.stack)
    PROVE  /\ Dropped(w, n) \in Local
           /\ Dropped(w, n).stack = SubSeq(w.stack, 1, Len(w.stack) - n)
           /\ Dropped(w, n).stack \in Seq(LockSet)
           /\ Len(Dropped(w, n).stack) = Len(w.stack) - n
           /\ \A i \in 1 .. (Len(w.stack) - n) : Dropped(w, n).stack[i] = w.stack[i]
           /\ Dropped(w, n).own = w.own
           /\ Dropped(w, n).fact = IF n < Len(w.stack) THEN w.fact ELSE Nothing
<1>1. /\ w.stack \in Seq(LockSet) /\ w.own \in Owner /\ w.fact \in Facts
      /\ Len(w.stack) \in Nat
  BY LocalFields, Zenon
<1>2. PICK k : k = SubSeq(w.stack, 1, Len(w.stack) - n)
  BY Zenon
<1>3. /\ k \in Seq(LockSet) /\ Len(k) = Len(w.stack) - n
      /\ \A i \in 1 .. (Len(w.stack) - n) : k[i] = w.stack[i]
  BY <1>1, <1>2, Part
<1>4. PICK f : f = IF n < Len(w.stack) THEN w.fact ELSE Nothing
  BY Zenon
<1>5. f \in Facts
  BY <1>1, <1>4, Ids, AreFacts, Zenon
<1>6. Dropped(w, n) = L(k, w.own, f)
  BY <1>2, <1>4, Zenon DEF Dropped
<1>7. /\ L(k, w.own, f) \in Local /\ L(k, w.own, f).stack = k
      /\ L(k, w.own, f).own = w.own /\ L(k, w.own, f).fact = f
  <2>1. k \in Seq(LockSet) /\ w.own \in Owner
    BY <1>1, <1>3, Zenon
  <2>. QED  BY <2>1, <1>5, IsLocal
<1>. QED  BY <1>2, <1>3, <1>4, <1>6, <1>7, Zenon

\* One more guard is dropped.
LEMMA DroppedMore ==
    ASSUME NEW w \in Local, NEW n \in 1 .. Len(w.stack), n + 1 <= Len(w.stack)
    PROVE  Dropped(Dropped(w, n), 1) = Dropped(w, n + 1)
<1>1. w.stack \in Seq(LockSet) /\ Len(w.stack) \in Nat
  BY LocalFields, Zenon
<1>2. PICK d : d = Dropped(w, n)
  BY Zenon
<1>3. /\ d \in Local /\ d.stack = SubSeq(w.stack, 1, Len(w.stack) - n)
      /\ d.stack \in Seq(LockSet) /\ Len(d.stack) = Len(w.stack) - n
      /\ \A i \in 1 .. (Len(w.stack) - n) : d.stack[i] = w.stack[i]
      /\ d.own = w.own /\ d.fact = w.fact
  <2>1. n < Len(w.stack)
    BY <1>1
  <2>. QED  BY <2>1, <1>2, DroppedLocal, Zenon
<1>4. PICK a, b : a = SubSeq(d.stack, 1, Len(d.stack) - 1)
                  /\ b = SubSeq(w.stack, 1, Len(w.stack) - (n + 1))
  BY Zenon
<1>5. /\ a \in Seq(LockSet) /\ Len(a) = Len(d.stack) - 1
      /\ \A i \in 1 .. (Len(d.stack) - 1) : a[i] = d.stack[i]
  BY <1>1, <1>3, <1>4, Part
<1>6. /\ b \in Seq(LockSet) /\ Len(b) = Len(w.stack) - (n + 1)
      /\ \A i \in 1 .. (Len(w.stack) - (n + 1)) : b[i] = w.stack[i]
  BY <1>1, <1>4, Part
<1>7. Len(a) = Len(b) /\ Len(a) \in Nat
  BY <1>1, <1>3, <1>5, <1>6
<1>8. ASSUME NEW i \in 1 .. Len(a) PROVE a[i] = b[i]
  <2>1. /\ i \in 1 .. (Len(d.stack) - 1) /\ i \in 1 .. (Len(w.stack) - n)
        /\ i \in 1 .. (Len(w.stack) - (n + 1))
    BY <1>1, <1>3, <1>5, <1>6
  <2>2. a[i] = d.stack[i]
    BY <2>1, <1>5, Zenon
  <2>3. d.stack[i] = w.stack[i]
    BY <2>1, <1>3, Zenon
  <2>4. b[i] = w.stack[i]
    BY <2>1, <1>6, Zenon
  <2>. QED  BY <2>2, <2>3, <2>4, Zenon
<1>9. a = b
  BY <1>5, <1>6, <1>7, <1>8, SameSeq, SMTT(60)
<1>10. (IF 1 < Len(d.stack) THEN d.fact ELSE Nothing)
       = (IF n + 1 < Len(w.stack) THEN w.fact ELSE Nothing)
  BY <1>1, <1>3
<1>. QED  BY <1>2, <1>3, <1>4, <1>9, <1>10, Zenon DEF Dropped

\* When a guard may be dropped.
LEMMA TransRelease ==
    ASSUME NEW w, NEW x
    PROVE  Trans(w, Release, x) <=> /\ w.stack # <<>> /\ w.fact.kind # "executable"
                                    /\ x = Dropped(w, 1)
<1>1. Release.do = "release"
  BY Zenon DEF Release
<1>. QED  BY <1>1, Zenon DEF Trans

\* An early return: dropping all guards.
LEMMA PathFail ==
    ASSUME NEW w \in Local, w.fact.kind # "executable"
    PROVE  \E y : y.stack = <<>> /\ Path(w, [i \in DOMAIN w.stack |-> Release], y)
<1>1. w.stack \in Seq(LockSet) /\ Len(w.stack) \in Nat /\ DOMAIN w.stack = 1 .. Len(w.stack)
  BY LocalFields, Zenon
<1>2. PICK n : n = Len(w.stack)
  BY Zenon
<1>3. PICK s : s = [i \in DOMAIN w.stack |-> Release]
  BY Zenon
<1>4. Release \in StepSet
  BY Zenon DEF Release, StepSet
<1>5. s \in Seq(StepSet) /\ Len(s) = n /\ \A i \in 1 .. n : s[i] = Release
  BY <1>1, <1>2, <1>3, <1>4
<1>6. CASE n = 0
  <2>1. w.stack = <<>> /\ s = <<>>
    BY <1>1, <1>2, <1>5, <1>6, Empty, Zenon
  <2>. QED  BY <2>1, <1>3, PathNil, ZenonT(60)
<1>7. CASE n # 0
  <2>1. PICK W : W = [i \in 1 .. (n + 1) |-> IF i = 1 THEN w ELSE Dropped(w, i - 1)]
    BY Zenon
  <2>2. ASSUME NEW i \in 1 .. n
        PROVE  /\ i + 1 \in 1 .. (n + 1) /\ i + 1 # 1 /\ (i + 1) - 1 = i
               /\ Dropped(w, i) \in Local
    BY <1>1, <1>2, DroppedLocal
  <2>3. \A i \in 1 .. n : W[i + 1] = Dropped(w, i)
    BY <2>1, <2>2, Zenon
  <2>4. W[1] = w
    BY <2>1, <1>1, <1>2
  <2>5. W \in [1 .. (n + 1) -> Local]
    <3>1. ASSUME NEW j \in 1 .. (n + 1)
          PROVE  (IF j = 1 THEN w ELSE Dropped(w, j - 1)) \in Local
      <4>1. CASE j = 1
        BY <4>1, Zenon
      <4>2. CASE j # 1
        <5>1. j - 1 \in 1 .. n
          BY <4>2, <1>1, <1>2
        <5>. QED  BY <4>2, <5>1, <2>2, Zenon
      <4>. QED  BY <4>1, <4>2, Zenon
    <3>. QED  BY <3>1, <2>1, Zenon
  <2>6. ASSUME NEW i \in 1 .. n PROVE Trans(W[i], Release, W[i + 1])
    <3>1. CASE i = 1
      <4>1. w.stack # <<>>
        BY <1>2, <1>7, Empty, Zenon
      <4>2. W[i] = w /\ W[i + 1] = Dropped(w, 1)
        BY <3>1, <2>3, <2>4, Zenon
      <4>. QED  BY <4>1, <4>2, TransRelease, Zenon
    <3>2. CASE i # 1
      <4>1. i - 1 \in 1 .. n /\ (i - 1) + 1 = i /\ i - 1 < n /\ n \in Nat
        BY <3>2, <1>1, <1>2
      <4>2. W[i] = Dropped(w, i - 1) /\ W[i + 1] = Dropped(w, i)
        BY <4>1, <2>3, Zenon
      <4>3. Dropped(Dropped(w, i - 1), 1) = Dropped(w, (i - 1) + 1)
        BY <4>1, <1>2, DroppedMore
      <4>4. /\ Dropped(w, i - 1).stack # <<>>
            /\ Dropped(w, i - 1).fact = w.fact
        <5>1. /\ Len(Dropped(w, i - 1).stack) = n - (i - 1)
              /\ Dropped(w, i - 1).fact = w.fact
          BY <4>1, <1>2, DroppedLocal, Zenon
        <5>2. n - (i - 1) # 0
          BY <4>1
        <5>. QED  BY <5>1, <5>2, Empty, Zenon
      <4>. QED  BY <4>1, <4>2, <4>3, <4>4, TransRelease, Zenon
    <3>. QED  BY <3>1, <3>2, Zenon
  <2>7. n \in 1 .. n /\ n - n = 0
    BY <1>1, <1>2, <1>7
  <2>8. Path(w, s, Dropped(w, n))
    <3>1. W[n + 1] = Dropped(w, n)
      BY <2>3, <2>7, Zenon
    <3>. QED  BY <3>1, <2>4, <2>5, <2>6, <1>5, Zenon DEF Path
  <2>9. Dropped(w, n).stack = <<>>
    <3>1. Dropped(w, n).stack \in Seq(LockSet) /\ Len(Dropped(w, n).stack) = n - n
      BY <2>7, <1>2, DroppedLocal, ZenonT(60)
    <3>. QED  BY <3>1, <2>7, Empty, Zenon
  <2>. QED  BY <2>8, <2>9, <1>3, Zenon
<1>. QED  BY <1>6, <1>7, Zenon

------------------------------------------------------------------------------
(* The paths of the operations                                             *)

\* Steps written one after the other.
LEMMA TupleOfTwo ==
    ASSUME NEW a \in StepSet, NEW b \in StepSet
    PROVE  <<a, b>> = <<a>> \o <<b>>
<1>1. PICK s, t : s = <<a, b>> /\ t = <<a>> \o <<b>>
  BY Zenon
<1>2. s \in Seq(StepSet) /\ Len(s) = 2 /\ s[1] = a /\ s[2] = b
  BY <1>1
<1>3. t \in Seq(StepSet) /\ Len(t) = 2 /\ t[1] = a /\ t[2] = b
  BY <1>1
<1>4. \A i \in 1 .. Len(s) : s[i] = t[i]
  BY <1>2, <1>3
<1>. QED  BY <1>1, <1>2, <1>3, <1>4, SameSeq, Zenon

\* The same for three steps.
LEMMA TupleOfThree ==
    ASSUME NEW a \in StepSet, NEW b \in StepSet, NEW c \in StepSet
    PROVE  <<a, b, c>> = <<a, b>> \o <<c>>
<1>1. PICK s, t : s = <<a, b, c>> /\ t = <<a, b>> \o <<c>>
  BY Zenon
<1>2. s \in Seq(StepSet) /\ Len(s) = 3 /\ s[1] = a /\ s[2] = b /\ s[3] = c
  BY <1>1
<1>3. t \in Seq(StepSet) /\ Len(t) = 3 /\ t[1] = a /\ t[2] = b /\ t[3] = c
  BY <1>1
<1>4. \A i \in 1 .. Len(s) : s[i] = t[i]
  BY <1>2, <1>3
<1>. QED  BY <1>1, <1>2, <1>3, <1>4, SameSeq, Zenon

\* A path of six steps.
LEMMA PathSix ==
    ASSUME NEW a \in StepSet, NEW b \in StepSet, NEW c \in StepSet,
           NEW d \in StepSet, NEW e \in StepSet, NEW f \in StepSet, NEW w, NEW x,
           Path(w, (<<a, b>> \o <<c, d>>) \o <<e, f>>, x)
    PROVE  Path(w, <<a, b, c, d, e, f>>, x)
<1>1. PICK s, t, u : s = <<a, b, c, d, e, f>> /\ u = <<a, b>> \o <<c, d>> /\ t = u \o <<e, f>>
  BY Zenon
<1>2. /\ s \in Seq(StepSet) /\ Len(s) = 6 /\ s[1] = a /\ s[2] = b /\ s[3] = c
      /\ s[4] = d /\ s[5] = e /\ s[6] = f
  BY <1>1
<1>3. u \in Seq(StepSet) /\ Len(u) = 4 /\ u[1] = a /\ u[2] = b /\ u[3] = c /\ u[4] = d
  BY <1>1
<1>4. /\ t \in Seq(StepSet) /\ Len(t) = 6 /\ t[1] = a /\ t[2] = b /\ t[3] = c
      /\ t[4] = d /\ t[5] = e /\ t[6] = f
  BY <1>1, <1>3
<1>5. \A i \in 1 .. Len(s) : s[i] = t[i]
  BY <1>2, <1>4
<1>6. s = t
  BY <1>2, <1>4, <1>5, SameSeq, Zenon
<1>. QED  BY <1>1, <1>6, Zenon

\* Two steps.
LEMMA PathTwo ==
    ASSUME NEW w \in Local, NEW x \in Local, NEW y \in Local,
           NEW s \in StepSet, NEW t \in StepSet, Trans(w, s, x), Trans(x, t, y)
    PROVE  Path(w, <<s, t>>, y)
<1>1. Path(w, <<s>>, x) /\ Path(x, <<t>>, y)
  BY PathOne, Zenon
<1>2. Path(w, <<s>> \o <<t>>, y)
  BY <1>1, PathConcat, Zenon
<1>3. <<s, t>> = <<s>> \o <<t>>
  BY TupleOfTwo, Zenon
<1>. QED  BY <1>2, <1>3, Zenon

\* Three steps.
LEMMA PathThree ==
    ASSUME NEW w \in Local, NEW x \in Local, NEW y \in Local, NEW z \in Local,
           NEW s \in StepSet, NEW t \in StepSet, NEW u \in StepSet,
           Trans(w, s, x), Trans(x, t, y), Trans(y, u, z)
    PROVE  Path(w, <<s, t, u>>, z)
<1>1. Path(w, <<s, t>>, y) /\ Path(y, <<u>>, z)
  BY PathOne, PathTwo, Zenon
<1>2. Path(w, <<s, t>> \o <<u>>, z)
  BY <1>1, PathConcat, Zenon
<1>3. <<s, t, u>> = <<s, t>> \o <<u>>
  BY TupleOfThree, Zenon
<1>. QED  BY <1>2, <1>3, Zenon

\* One lock more, and one less.
LEMMA Pushed ==
    ASSUME NEW stack \in Seq(LockSet), NEW l \in LockSet, NEW own \in Owner, NEW fact \in Facts
    PROVE  /\ Append(stack, l) \in Seq(LockSet) /\ Append(stack, l) # <<>>
           /\ \A y, f : /\ y = L(Append(stack, l), own, fact)
                        /\ f = IF stack = <<>> THEN Nothing ELSE fact
                        => Dropped(y, 1) = L(stack, own, f)
           /\ Has(Append(stack, l), l)
           /\ \A k : Has(stack, k) => Has(Append(stack, l), k)
<1>1. PICK st : st = Append(stack, l)
  BY Zenon
<1>2. /\ st \in Seq(LockSet) /\ Len(st) = Len(stack) + 1 /\ Len(stack) \in Nat
      /\ \A i \in 1 .. Len(stack) : st[i] = stack[i]
      /\ st[Len(stack) + 1] = l
      /\ DOMAIN st = 1 .. (Len(stack) + 1) /\ DOMAIN stack = 1 .. Len(stack)
  BY <1>1, OnTop
<1>3. st # <<>>
  BY <1>2, Empty
<1>4. Has(st, l) /\ \A k : Has(stack, k) => Has(st, k)
  BY <1>2 DEF Has
<1>5. PICK w : w = L(st, own, fact)
  BY Zenon
<1>6. w.stack = st /\ w.own = own /\ w.fact = fact
  BY <1>2, <1>5, IsLocal
<1>7. PICK k : k = SubSeq(st, 1, Len(st) - 1)
  BY Zenon
<1>8. Len(st) - 1 = Len(stack)
  BY <1>2
<1>9. /\ k \in Seq(LockSet) /\ Len(k) = Len(stack)
      /\ \A i \in 1 .. Len(stack) : k[i] = st[i]
  BY <1>2, <1>7, <1>8, Part
<1>10. k = stack
  <2>1. \A i \in 1 .. Len(k) : k[i] = stack[i]
    BY <1>2, <1>9, Zenon
  <2>2. k \in Seq(LockSet) /\ Len(k) = Len(stack)
    BY <1>9, Zenon
  <2>. QED  BY <2>1, <2>2, SameSeq, Zenon
<1>11. (1 < Len(st)) <=> (stack # <<>>)
  <2>1. stack = <<>> => Len(stack) = 0
    BY Empty, Zenon
  <2>2. stack # <<>> => Len(stack) # 0
    BY Empty, Zenon
  <2>. QED  BY <2>1, <2>2, <1>2
<1>12. Dropped(w, 1) = L(stack, own, IF 1 < Len(st) THEN fact ELSE Nothing)
  BY <1>6, <1>7, <1>10, Zenon DEF Dropped
<1>13. (IF 1 < Len(st) THEN fact ELSE Nothing) = (IF stack = <<>> THEN Nothing ELSE fact)
  BY <1>11, Zenon
<1>. QED  BY <1>1, <1>2, <1>3, <1>4, <1>5, <1>12, <1>13, Zenon

\* A hart in a state between two accesses, and the same with one guard more.
Calm(w) == w \in Local /\ w.fact.kind # "executable" /\ (w.stack = <<>> => w.fact = Nothing)
Push(w, l) == L(Append(w.stack, l), w.own, w.fact)

\* What a guard more changes.
LEMMA PushFields ==
    ASSUME NEW w \in Local, NEW l \in LockSet
    PROVE  /\ Push(w, l) \in Local /\ Push(w, l).stack \in Seq(LockSet)
           /\ Push(w, l).stack # <<>>
           /\ Push(w, l).own = w.own /\ Push(w, l).fact = w.fact
           /\ Has(Push(w, l).stack, l)
           /\ \A k : Has(w.stack, k) => Has(Push(w, l).stack, k)
<1>1. w.stack \in Seq(LockSet) /\ w.own \in Owner /\ w.fact \in Facts
  BY LocalFields, Zenon
<1>2. PICK st : st = Append(w.stack, l)
  BY Zenon
<1>3. /\ st \in Seq(LockSet) /\ st # <<>> /\ Has(st, l)
      /\ \A k : Has(w.stack, k) => Has(st, k)
  BY <1>1, <1>2, Pushed, Zenon
<1>4. Push(w, l) = L(st, w.own, w.fact)
  BY <1>2, Zenon DEF Push
<1>5. PICK p : p = L(st, w.own, w.fact)
  BY Zenon
<1>6. p \in Local /\ p.stack = st /\ p.own = w.own /\ p.fact = w.fact
  BY <1>1, <1>3, <1>5, IsLocal
<1>. QED  BY <1>3, <1>4, <1>5, <1>6, Zenon

\* The ranks of the guards, with one guard more.
LEMMA PushLow ==
    ASSUME NEW w \in Local, NEW l \in LockSet, NEW r \in Nat, NEW q \in Nat,
           Low(w.stack, r), r <= q, Rank(l) < q
    PROVE  Low(Push(w, l).stack, q)
<1>1. w.stack \in Seq(LockSet) /\ w.own \in Owner /\ w.fact \in Facts
  BY LocalFields, Zenon
<1>2. PICK st : st = Append(w.stack, l)
  BY Zenon
<1>3. /\ st \in Seq(LockSet) /\ Len(st) = Len(w.stack) + 1 /\ Len(w.stack) \in Nat
      /\ \A i \in 1 .. Len(w.stack) : st[i] = w.stack[i]
      /\ st[Len(w.stack) + 1] = l
      /\ DOMAIN st = 1 .. (Len(w.stack) + 1) /\ DOMAIN w.stack = 1 .. Len(w.stack)
  BY <1>1, <1>2, OnTop
<1>4. Push(w, l).stack = st
  <2>1. L(st, w.own, w.fact).stack = st
    BY <1>1, <1>3, IsLocal
  <2>. QED  BY <2>1, <1>2, Zenon DEF Push
<1>5. ASSUME NEW k \in LockSet PROVE Rank(k) \in Nat
  BY Zenon DEF Rank
<1>6. ASSUME NEW i \in DOMAIN st PROVE Rank(st[i]) < q
  <2>1. CASE i \in 1 .. Len(w.stack)
    <3>1. st[i] = w.stack[i] /\ w.stack[i] \in LockSet
      BY <1>1, <1>3, <2>1, Lengths, Zenon
    <3>2. Rank(w.stack[i]) < r /\ Rank(w.stack[i]) \in Nat
      BY <3>1, <2>1, <1>3, <1>5, Zenon DEF Low
    <3>. QED  BY <3>1, <3>2
  <2>2. CASE i = Len(w.stack) + 1
    BY <2>2, <1>3, Zenon
  <2>. QED  BY <2>1, <2>2, <1>3
<1>. QED  BY <1>4, <1>6, Zenon DEF Low

\* A guard is taken.
LEMMA TransAcquire ==
    ASSUME NEW w \in Local, NEW l \in LockSet, Low(w.stack, Rank(l))
    PROVE  /\ [do |-> "acquire", lock |-> l] \in StepSet
           /\ Trans(w, [do |-> "acquire", lock |-> l], Push(w, l))
<1>1. PICK a : a = [do |-> "acquire", lock |-> l]
  BY Zenon
<1>2. a.do = "acquire" /\ a.lock = l /\ a \in StepSet
  BY <1>1, Zenon DEF StepSet
<1>. QED  BY <1>1, <1>2, Zenon DEF Trans, Push, Above

\* A guard is dropped.
LEMMA TransDrop ==
    ASSUME NEW w \in Local, w.fact.kind # "executable", NEW l \in LockSet, NEW f,
           f = IF w.stack = <<>> THEN Nothing ELSE w.fact
    PROVE  /\ Release \in StepSet
           /\ Trans(Push(w, l), Release, L(w.stack, w.own, f))
<1>1. w.stack \in Seq(LockSet) /\ w.own \in Owner /\ w.fact \in Facts
  BY LocalFields, Zenon
<1>2. PICK st, o, g, p : st = w.stack /\ o = w.own /\ g = w.fact /\ p = Push(w, l)
  BY Zenon
<1>3. st \in Seq(LockSet) /\ o \in Owner /\ g \in Facts
  BY <1>1, <1>2, Zenon
<1>4. \A k, h : /\ k = L(Append(st, l), o, g)
                /\ h = IF st = <<>> THEN Nothing ELSE g
                => Dropped(k, 1) = L(st, o, h)
  BY <1>3, Pushed
<1>5. p = L(Append(st, l), o, g)
  BY <1>2, Zenon DEF Push
<1>6. Dropped(p, 1) = L(st, o, f)
  BY <1>2, <1>4, <1>5, Zenon
<1>7. p.stack # <<>> /\ p.fact = w.fact
  BY <1>2, PushFields, Zenon
<1>8. Trans(p, Release, L(st, o, f))
  BY <1>6, <1>7, TransRelease, Zenon
<1>9. Release \in StepSet
  BY Zenon DEF Release, StepSet
<1>. QED  BY <1>2, <1>8, <1>9, Zenon

\* A guard taken in a calm state is dropped.
LEMMA CalmDrop ==
    ASSUME NEW w, Calm(w), NEW l \in LockSet
    PROVE  /\ Release \in StepSet
           /\ Trans(Push(w, l), Release, w)
           /\ Calm(Push(w, l))
<1>1. w \in Local /\ w.fact.kind # "executable" /\ (w.stack = <<>> => w.fact = Nothing)
  BY Zenon DEF Calm
<1>2. w = L(w.stack, w.own, w.fact)
  BY <1>1, LocalFields, Zenon
<1>3. w.fact = IF w.stack = <<>> THEN Nothing ELSE w.fact
  BY <1>1, Zenon
<1>4. Release \in StepSet /\ Trans(Push(w, l), Release, L(w.stack, w.own, w.fact))
  BY <1>1, <1>3, TransDrop, Zenon
<1>5. Push(w, l) \in Local /\ Push(w, l).stack # <<>> /\ Push(w, l).fact = w.fact
  BY <1>1, PushFields, Zenon
<1>. QED  BY <1>1, <1>2, <1>4, <1>5, Zenon DEF Calm

\* Steps under one lock more.
LEMMA PathUnder ==
    ASSUME NEW w, Calm(w), NEW x, Calm(x), NEW l \in LockSet, Low(w.stack, Rank(l)), NEW s,
           Path(Push(w, l), s, Push(x, l))
    PROVE  Path(w, <<[do |-> "acquire", lock |-> l]>> \o s \o <<Release>>, x)
<1>1. PICK a, p, q : a = [do |-> "acquire", lock |-> l] /\ p = Push(w, l) /\ q = Push(x, l)
  BY Zenon
<1>2. w \in Local /\ x \in Local /\ p \in Local /\ q \in Local
  BY <1>1, PushFields, Zenon DEF Calm
<1>3. a \in StepSet /\ Trans(w, a, p)
  BY <1>1, <1>2, TransAcquire, Zenon
<1>4. Release \in StepSet /\ Trans(q, Release, x)
  BY <1>1, CalmDrop, Zenon
<1>5. Path(w, <<a>>, p) /\ Path(q, <<Release>>, x)
  BY <1>2, <1>3, <1>4, PathOne, Zenon
<1>6. Path(w, <<a>> \o s, q)
  BY <1>1, <1>5, PathConcat, Zenon
<1>7. Path(w, (<<a>> \o s) \o <<Release>>, x)
  BY <1>5, <1>6, PathConcat, Zenon
<1>. QED  BY <1>1, <1>7, Zenon

\* The locks, their ranks and the steps that take them.
LEMMA Locks ==
    ASSUME NEW v \in VmIds, NEW c \in HartIds
    PROVE  /\ CdRead \in LockSet /\ CdWrite \in LockSet /\ VmLock(v) \in LockSet
           /\ Rank(CdRead) = 1 /\ Rank(CdWrite) = 1 /\ Rank(VmLock(v)) = 2
           /\ \A n \in {"page_allocator", "interrupt_controller"}, m \in {"read", "write"} :
                 Lock(n, 0, 0, m) \in LockSet /\ Rank(Lock(n, 0, 0, m)) = 3
           /\ Lock("heap", 0, 0, "write") \in LockSet /\ Rank(Lock("heap", 0, 0, "write")) = 4
           /\ Lock("inter_hart_requests", v, c, "write") \in LockSet
           /\ Rank(Lock("inter_hart_requests", v, c, "write")) = 3
           /\ \A d \in DoNames : Do(d, v, c) \in StepSet
<1>1. 0 \in VmIds /\ 0 \in HartIds
  BY Ids, Zenon
<1>2. \A d \in DoNames : Do(d, v, c) \in StepSet
  BY Zenon DEF Do, StepSet
<1>. QED  BY <1>1, <1>2, Zenon DEF CdRead, CdWrite, VmLock, Lock, LockSet, LockNames, Rank

\* allocate: the heap's lock ranks above all others.
LEMMA PathAllocate ==
    ASSUME NEW w, Calm(w), Low(w.stack, 4)
    PROVE  Path(w, allocate, w)
<1>1. PICK l : l = Lock("heap", 0, 0, "write")
  BY Zenon
<1>2. l \in LockSet /\ Rank(l) = 4
  BY <1>1, Ids, Locks, Zenon
<1>3. PICK a, p : a = [do |-> "acquire", lock |-> l] /\ p = Push(w, l)
  BY Zenon
<1>4. w \in Local /\ p \in Local
  BY <1>2, <1>3, PushFields, Zenon DEF Calm
<1>5. a \in StepSet /\ Trans(w, a, p) /\ Release \in StepSet /\ Trans(p, Release, w)
  BY <1>2, <1>3, <1>4, TransAcquire, CalmDrop, Zenon
<1>6. Path(w, <<a, Release>>, w)
  BY <1>4, <1>5, PathTwo, Zenon
<1>. QED  BY <1>1, <1>3, <1>6, Zenon DEF allocate, Acquire

\* acquire_continous_pages and release_pages: the page allocator, then the heap.
LEMMA PathPages ==
    ASSUME NEW w, Calm(w), Low(w.stack, 3)
    PROVE  Path(w, acquire_continous_pages, w)
<1>1. PICK l : l = Lock("page_allocator", 0, 0, "write")
  BY Zenon
<1>2. l \in LockSet /\ Rank(l) = 3
  BY <1>1, Ids, Locks, Zenon
<1>3. PICK p : p = Push(w, l)
  BY Zenon
<1>4. Calm(p)
  BY <1>2, <1>3, CalmDrop, Zenon
<1>5. w \in Local
  BY Zenon DEF Calm
<1>6. Low(p.stack, 4)
  BY <1>2, <1>3, <1>5, PushLow
<1>7. Path(p, allocate, p)
  BY <1>4, <1>6, PathAllocate, Zenon
<1>8. Path(w, <<[do |-> "acquire", lock |-> l]>> \o allocate \o <<Release>>, w)
  BY <1>2, <1>3, <1>7, PathUnder, Zenon
<1>. QED  BY <1>1, <1>8, Zenon DEF acquire_continous_pages, Acquire

\* queue_request: a queue, and under it the heap; then the interrupt controller.
LEMMA PathQueue ==
    ASSUME NEW w, Calm(w), Low(w.stack, 3), NEW v \in VmIds, NEW c \in HartIds,
           w.fact = ExistsFact(v)
    PROVE  Path(w, queue_request(v, c), w)
<1>0. w \in Local
  BY Zenon DEF Calm
<1>1. PICK l, k : /\ l = Lock("inter_hart_requests", v, c, "write")
                  /\ k = Lock("interrupt_controller", 0, 0, "read")
  BY Zenon
<1>2. l \in LockSet /\ Rank(l) = 3 /\ k \in LockSet /\ Rank(k) = 3
  BY <1>1, Locks, Zenon
<1>3. PICK a, b, p, q : /\ a = [do |-> "acquire", lock |-> l] /\ p = Push(w, l)
                        /\ b = [do |-> "acquire", lock |-> k] /\ q = Push(w, k)
  BY Zenon
<1>4. p \in Local /\ q \in Local /\ p.fact = ExistsFact(v) /\ q.fact = ExistsFact(v)
  BY <1>0, <1>2, <1>3, PushFields, Zenon
<1>5. Trans(w, a, p) /\ Trans(w, b, q) /\ a \in StepSet /\ b \in StepSet
  BY <1>0, <1>2, <1>3, TransAcquire, Zenon
<1>6. Release \in StepSet /\ Trans(p, Release, w) /\ Trans(q, Release, w) /\ Calm(p)
  BY <1>2, <1>3, CalmDrop, Zenon
<1>7. PICK d, e : d = Do("push", v, c) /\ e = Do("send_ipi", v, c)
  BY Zenon
<1>8. d \in StepSet /\ e \in StepSet
  BY <1>7, Locks, Zenon DEF DoNames
<1>9. Trans(p, d, p) /\ Trans(q, e, q)
  <2>1. d.do = "push" /\ d.vm = v /\ e.do = "send_ipi" /\ e.vm = v
    BY <1>7, Zenon DEF Do
  <2>. QED  BY <2>1, <1>4, Zenon DEF Trans
<1>10. Low(p.stack, 4)
  BY <1>0, <1>2, <1>3, PushLow
<1>11. Path(w, <<a, d>>, p) /\ Path(p, allocate, p) /\ Path(p, <<Release>>, w)
  BY <1>0, <1>4, <1>5, <1>6, <1>8, <1>9, <1>10, PathTwo, PathAllocate, PathOne, Zenon
<1>13. Path(w, <<b, e, Release>>, w)
  BY <1>0, <1>4, <1>5, <1>6, <1>8, <1>9, PathThree, Zenon
<1>14. Path(w, <<a, d>> \o allocate, p)
  BY <1>11, PathConcat, Zenon
<1>15. Path(w, (<<a, d>> \o allocate) \o <<Release>>, w)
  BY <1>11, <1>14, PathConcat, Zenon
<1>16. Path(w, ((<<a, d>> \o allocate) \o <<Release>>) \o <<b, e, Release>>, w)
  BY <1>13, <1>15, PathConcat, Zenon
<1>. QED  BY <1>1, <1>3, <1>7, <1>16, Zenon DEF queue_request, AcquireQueue, Acquire

------------------------------------------------------------------------------
(* The paths of the critical sections                                      *)

\* A hart outside all critical sections; under the lock on the map; in the section of v.
Idle(o) == L(<<>>, o, Nothing)
Map(v, o) == L(Append(<<>>, CdRead), o, ExistsFact(v))
In(v, o) == Push(Map(v, o), VmLock(v))

\* What such a hart holds and knows.
LEMMA IdleFields ==
    ASSUME NEW o \in Owner
    PROVE  /\ Idle(o) \in Local /\ Calm(Idle(o))
           /\ Idle(o).stack = <<>> /\ Idle(o).own = o /\ Idle(o).fact = Nothing
           /\ \A r : Low(Idle(o).stack, r)
<1>1. Nothing \in Facts /\ Nothing.kind = "nothing" /\ <<>> \in Seq(LockSet)
  BY Ids, AreFacts
<1>2. PICK i, e : i = Idle(o) /\ e = <<>>
  BY Zenon
<1>3. e \in Seq(LockSet) /\ i = L(e, o, Nothing)
  BY <1>1, <1>2, Zenon DEF Idle
<1>4. i \in Local /\ i.stack = e /\ i.own = o /\ i.fact = Nothing
  BY <1>1, <1>3, IsLocal
<1>5. Calm(i)
  BY <1>1, <1>4, Zenon DEF Calm
<1>6. \A r : Low(i.stack, r)
  BY <1>2, <1>4 DEF Low
<1>. QED  BY <1>2, <1>4, <1>5, <1>6, Zenon

\* The same for a hart in a section.
LEMMA InFields ==
    ASSUME NEW o \in Owner, NEW v \in VmIds
    PROVE  /\ Map(v, o) \in Local /\ Calm(Map(v, o)) /\ Map(v, o).stack # <<>>
           /\ HasCd(Map(v, o).stack)
           /\ Map(v, o).own = o /\ Map(v, o).fact = ExistsFact(v)
           /\ Low(Map(v, o).stack, 2)
           /\ In(v, o) \in Local /\ Calm(In(v, o))
           /\ HasCd(In(v, o).stack) /\ Has(In(v, o).stack, VmLock(v))
           /\ In(v, o).own = o /\ In(v, o).fact = ExistsFact(v)
           /\ Low(In(v, o).stack, 3)
<1>1. PICK i, m, p : i = Idle(o) /\ m = Map(v, o) /\ p = Push(i, CdRead)
  BY Zenon
<1>2. /\ i \in Local /\ Calm(i) /\ i.stack = <<>> /\ i.own = o /\ \A r : Low(i.stack, r)
  BY <1>1, IdleFields, Zenon
<1>3. /\ CdRead \in LockSet /\ Rank(CdRead) = 1 /\ VmLock(v) \in LockSet /\ Rank(VmLock(v)) = 2
      /\ ExistsFact(v) \in Facts /\ ExistsFact(v).kind = "exists"
  BY Ids, Locks, AreFacts, Zenon
<1>4. /\ p \in Local /\ p.stack \in Seq(LockSet) /\ p.stack # <<>> /\ Has(p.stack, CdRead)
  BY <1>1, <1>2, <1>3, PushFields, Zenon
<1>5. Low(p.stack, 2)
  <2>1. Low(i.stack, 2)
    BY <1>2, Zenon
  <2>. QED  BY <2>1, <1>1, <1>2, <1>3, PushLow
<1>6. p.stack = Append(<<>>, CdRead)
  <2>1. PICK st : st = Append(<<>>, CdRead)
    BY Zenon
  <2>2. st \in Seq(LockSet) /\ i.fact \in Facts
    BY <2>1, <1>2, <1>3, LocalFields
  <2>3. p = L(st, i.own, i.fact)
    BY <2>1, <1>1, <1>2, Zenon DEF Push
  <2>4. p.stack = st
    BY <2>2, <2>3, <1>2, IsLocal
  <2>. QED  BY <2>1, <2>4, Zenon
<1>7. m = L(p.stack, o, ExistsFact(v))
  BY <1>1, <1>6, Zenon DEF Map
<1>8. m \in Local /\ m.stack = p.stack /\ m.own = o /\ m.fact = ExistsFact(v)
  BY <1>3, <1>4, <1>7, IsLocal
<1>9. Calm(m) /\ Low(m.stack, 2) /\ HasCd(m.stack)
  BY <1>3, <1>4, <1>5, <1>8, Zenon DEF Calm, HasCd
<1>10. PICK n : n = Push(m, VmLock(v))
  BY Zenon
<1>11. /\ n \in Local /\ Has(n.stack, VmLock(v)) /\ n.own = o /\ n.fact = ExistsFact(v)
       /\ \A k : Has(m.stack, k) => Has(n.stack, k)
  BY <1>3, <1>8, <1>10, PushFields, Zenon
<1>12. Low(n.stack, 3)
  BY <1>3, <1>8, <1>9, <1>10, PushLow
<1>13. Calm(n) /\ HasCd(n.stack)
  BY <1>3, <1>9, <1>10, <1>11, CalmDrop, Zenon DEF HasCd
<1>14. In(v, o) = n
  BY <1>1, <1>10, Zenon DEF In
<1>. QED  BY <1>1, <1>4, <1>8, <1>9, <1>11, <1>12, <1>13, <1>14, Zenon

\* The guards held in a section do not depend on the hart assigned.
LEMMA InStack ==
    ASSUME NEW v \in VmIds, NEW o \in Owner, NEW p \in Owner
    PROVE  In(v, o).stack = In(v, p).stack
<1>1. PICK st, f : st = Append(<<>>, CdRead) /\ f = ExistsFact(v)
  BY Zenon
<1>2. CdRead \in LockSet /\ VmLock(v) \in LockSet /\ f \in Facts
  BY <1>1, Ids, Locks, AreFacts, Zenon
<1>3. st \in Seq(LockSet)
  BY <1>1, <1>2
<1>4. PICK q : q = Append(st, VmLock(v))
  BY Zenon
<1>5. q \in Seq(LockSet)
  BY <1>2, <1>3, <1>4
<1>6. ASSUME NEW x \in Owner PROVE In(v, x).stack = q
  <2>1. Map(v, x) = L(st, x, f)
    BY <1>1, Zenon DEF Map
  <2>2. L(st, x, f).stack = st /\ L(st, x, f).own = x /\ L(st, x, f).fact = f
    BY <1>2, <1>3, IsLocal
  <2>3. In(v, x) = L(q, x, f)
    BY <2>1, <2>2, <1>4, Zenon DEF In, Push
  <2>4. L(q, x, f).stack = q
    BY <1>2, <1>5, IsLocal
  <2>. QED  BY <2>3, <2>4, Zenon
<1>. QED  BY <1>6, Zenon

\* Guards of rank below 3 are of rank below 4.
LEMMA LowMore ==
    ASSUME NEW w \in Local, Low(w.stack, 3)
    PROVE  Low(w.stack, 4)
<1>1. w.stack \in Seq(LockSet) /\ DOMAIN w.stack = 1 .. Len(w.stack)
  BY LocalFields, Zenon
<1>2. ASSUME NEW i \in DOMAIN w.stack PROVE Rank(w.stack[i]) < 4
  <2>1. w.stack[i] \in LockSet
    BY <1>1, <1>2, Lengths, Zenon
  <2>2. Rank(w.stack[i]) \in Nat
    BY <2>1, Zenon DEF Rank
  <2>. QED  BY <2>2 DEF Low
<1>. QED  BY <1>2, Zenon DEF Low

\* try_confidential_vm: a critical section of v.
LEMMA PathSection ==
    ASSUME NEW v \in VmIds, NEW o \in Owner, NEW o2 \in Owner,
           NEW kind \in {"find", "find_or_panic"},
           kind = "find_or_panic" => o # NoOne /\ o.vm = v,
           NEW s, Path(In(v, o), s, In(v, o2))
    PROVE  Path(Idle(o), try_confidential_vm(v, kind, s), Idle(o2))
<1>1. PICK a, d, i, j, p, m, n :
        /\ a = [do |-> "acquire", lock |-> CdRead] /\ d = Do(kind, v, 0)
        /\ i = Idle(o) /\ j = Idle(o2) /\ p = Push(i, CdRead) /\ m = Map(v, o) /\ n = Map(v, o2)
  BY Zenon
<1>2. /\ i \in Local /\ j \in Local /\ i.stack = <<>> /\ j.stack = <<>>
      /\ i.own = o /\ j.own = o2 /\ i.fact = Nothing /\ j.fact = Nothing
      /\ \A r : Low(i.stack, r)
  BY <1>1, IdleFields, Zenon
<1>3. CdRead \in LockSet /\ VmLock(v) \in LockSet /\ Rank(VmLock(v)) = 2
  BY Ids, Locks, Zenon
<1>4. d \in StepSet /\ d.do = kind /\ d.vm = v
  <2>1. kind \in DoNames /\ 0 \in HartIds
    BY Ids, Zenon DEF DoNames
  <2>. QED  BY <2>1, <1>1, Locks, Zenon DEF Do
<1>5. a \in StepSet /\ Trans(i, a, p)
  <2>1. Low(i.stack, Rank(CdRead))
    BY <1>2, Zenon
  <2>. QED  BY <2>1, <1>1, <1>2, <1>3, TransAcquire, Zenon
<1>6. /\ m \in Local /\ Calm(m) /\ Low(m.stack, 2) /\ m.fact = ExistsFact(v) /\ m.own = o
      /\ n \in Local /\ Calm(n) /\ n.fact = ExistsFact(v) /\ n.own = o2 /\ n.stack # <<>>
      /\ HasCd(m.stack)
  BY <1>1, InFields, Zenon
<1>7. PICK st : st = Append(<<>>, CdRead)
  BY Zenon
<1>8. st \in Seq(LockSet) /\ ExistsFact(v) \in Facts /\ ExistsFact(v).kind = "exists"
      /\ Nothing \in Facts
  BY <1>3, <1>7, Ids, AreFacts
<1>9. p = L(st, o, Nothing)
  BY <1>1, <1>2, <1>7, Zenon DEF Push
<1>10. m = L(st, o, ExistsFact(v)) /\ n = L(st, o2, ExistsFact(v))
  BY <1>1, <1>7, Zenon DEF Map
<1>11. /\ p \in Local /\ p.stack = st /\ p.own = o /\ p.fact = Nothing
       /\ m.stack = st /\ n.stack = st
  BY <1>8, <1>9, <1>10, IsLocal
<1>12. Trans(p, d, m)
  <2>1. HasCd(p.stack)
    BY <1>6, <1>11, Zenon
  <2>. QED  BY <2>1, <1>4, <1>10, <1>11, Zenon DEF Trans
<1>13. Path(i, <<a, d>>, m)
  BY <1>2, <1>4, <1>5, <1>6, <1>11, <1>12, PathTwo, Zenon
<1>14. Path(m, <<AcquireVm(v)>> \o s \o <<Release>>, n)
  <2>1. Path(Push(m, VmLock(v)), s, Push(n, VmLock(v)))
    BY <1>1, Zenon DEF In
  <2>2. Path(m, <<[do |-> "acquire", lock |-> VmLock(v)]>> \o s \o <<Release>>, n)
    BY <2>1, <1>3, <1>6, PathUnder, Zenon
  <2>. QED  BY <2>2, Zenon DEF AcquireVm, VmLock
<1>15. Release \in StepSet /\ Trans(n, Release, j)
  <2>3. PICK e : e = <<>>
    BY Zenon
  <2>1. PICK x : x = L(e, o2, ExistsFact(v))
    BY Zenon
  <2>2. e \in Seq(LockSet)
    BY <2>3
  <2>4. x \in Local /\ x.stack = e /\ x.own = o2 /\ x.fact = ExistsFact(v)
    BY <2>1, <2>2, <1>8, IsLocal
  <2>8. Nothing = IF x.stack = <<>> THEN Nothing ELSE x.fact
    BY <2>3, <2>4, Zenon
  <2>9. x.fact.kind # "executable"
    BY <2>4, <1>8, Zenon
  <2>5. Release \in StepSet /\ Trans(Push(x, CdRead), Release, L(x.stack, x.own, Nothing))
    BY <2>4, <2>8, <2>9, <1>3, TransDrop, Zenon
  <2>6. Push(x, CdRead) = n
    BY <2>3, <2>4, <1>7, <1>10, Zenon DEF Push
  <2>7. L(x.stack, x.own, Nothing) = j
    BY <2>3, <2>4, <1>1, Zenon DEF Idle
  <2>. QED  BY <2>5, <2>6, <2>7, Zenon
<1>16. Path(n, <<Release>>, j)
  BY <1>2, <1>6, <1>15, PathOne, Zenon
<1>17. PICK u : u = <<AcquireVm(v)>> \o s \o <<Release>>
  BY Zenon
<1>18. Path(i, <<a, d>> \o u, n)
  BY <1>13, <1>14, <1>17, PathConcat, Zenon
<1>19. Path(i, (<<a, d>> \o u) \o <<Release>>, j)
  BY <1>16, <1>18, PathConcat, Zenon
<1>20. try_confidential_vm(v, kind, s) = (<<a, d>> \o u) \o <<Release>>
  BY <1>1, <1>17, Zenon DEF try_confidential_vm, try_read, Acquire, CdRead
<1>. QED  BY <1>1, <1>19, <1>20, Zenon

\* The confidential hart c of v, assigned to a hardware hart.
LEMMA OwnerIds ==
    ASSUME NEW v \in VmIds, NEW c \in HartIds
    PROVE  NoOne \in Owner /\ Id(v, c) \in Owner /\ Id(v, c) # NoOne /\ Id(v, c).vm = v
<1>1. Id(v, c) \in HartId /\ Id(v, c).vm = v
  BY AreFacts, Zenon
<1>2. NoOne.vm # v
  BY Ids DEF NoOne
<1>. QED  BY <1>1, <1>2, Zenon DEF Owner

\* steal_confidential_hart.
LEMMA PathSteal ==
    ASSUME NEW v \in VmIds, NEW c \in HartIds
    PROVE  Path(Idle(NoOne), steal_confidential_hart(v, c), Idle(Id(v, c)))
<1>1. NoOne \in Owner /\ Id(v, c) \in Owner
  BY OwnerIds, Zenon
<1>2. PICK m, n, a, b, x :
        /\ m = In(v, NoOne) /\ n = In(v, Id(v, c)) /\ x = L(m.stack, NoOne, ExecutableFact(v, c))
        /\ a = Do("is_executable", v, c) /\ b = Do("steal", v, c)
  BY SMTT(30)
<1>3. /\ m \in Local /\ n \in Local /\ m.own = NoOne /\ n.own = Id(v, c)
      /\ m.fact = ExistsFact(v) /\ n.fact = ExistsFact(v)
      /\ HasCd(m.stack) /\ Has(m.stack, VmLock(v))
  BY <1>1, <1>2, InFields, SMTT(30)
<1>4. m.stack \in Seq(LockSet) /\ n = L(n.stack, n.own, n.fact) /\ ExecutableFact(v, c) \in Facts
  BY <1>3, LocalFields, AreFacts, Zenon
<1>5. n.stack = m.stack
  BY <1>1, <1>2, InStack, Zenon
<1>6. x \in Local /\ x.stack = m.stack /\ x.own = NoOne /\ x.fact = ExecutableFact(v, c)
  BY <1>1, <1>2, <1>4, IsLocal, SMTT(30)
<1>7. /\ a \in StepSet /\ a.do = "is_executable" /\ a.vm = v /\ a.hart = c
      /\ b \in StepSet /\ b.do = "steal" /\ b.vm = v /\ b.hart = c
  BY <1>2, Locks, Zenon DEF Do, DoNames
<1>8. Trans(m, a, x)
  BY <1>2, <1>3, <1>7, Zenon DEF Trans
<1>9. Trans(x, b, n)
  BY <1>3, <1>4, <1>5, <1>6, <1>7, Zenon DEF Trans
<1>10. Path(m, <<a, b>>, n)
  BY <1>3, <1>6, <1>7, <1>8, <1>9, PathTwo, Zenon
<1>. QED  BY <1>1, <1>2, <1>10, PathSection, Zenon DEF steal_confidential_hart

\* return_confidential_hart.
LEMMA PathReturn ==
    ASSUME NEW v \in VmIds, NEW c \in HartIds
    PROVE  Path(Idle(Id(v, c)), return_confidential_hart(v, c), Idle(NoOne))
<1>1. NoOne \in Owner /\ Id(v, c) \in Owner /\ Id(v, c) # NoOne /\ Id(v, c).vm = v
  BY OwnerIds, Zenon
<1>2. PICK m, n, a : m = In(v, Id(v, c)) /\ n = In(v, NoOne) /\ a = Do("return", v, c)
  BY Zenon
<1>3. /\ m \in Local /\ n \in Local /\ m.own = Id(v, c) /\ n.own = NoOne
      /\ m.fact = ExistsFact(v) /\ n.fact = ExistsFact(v)
      /\ HasCd(m.stack) /\ Has(m.stack, VmLock(v))
  BY <1>1, <1>2, InFields, Zenon
<1>4. n = L(n.stack, n.own, n.fact)
  BY <1>3, LocalFields, Zenon
<1>5. n.stack = m.stack
  BY <1>1, <1>2, InStack, Zenon
<1>6. a \in StepSet /\ a.do = "return" /\ a.vm = v /\ a.hart = c
  BY <1>2, Locks, Zenon DEF Do, DoNames
<1>7. Trans(m, a, n)
  BY <1>3, <1>4, <1>5, <1>6, Zenon DEF Trans
<1>8. Path(m, <<a>>, n)
  BY <1>3, <1>6, <1>7, PathOne, Zenon
<1>. QED  BY <1>1, <1>2, <1>8, PathSection, Zenon DEF return_confidential_hart

\* process_inter_hart_requests.
LEMMA PathRequests ==
    ASSUME NEW v \in VmIds, NEW c \in HartIds
    PROVE  Path(Idle(Id(v, c)), process_inter_hart_requests(v, c), Idle(Id(v, c)))
<1>1. Id(v, c) \in Owner /\ Id(v, c) # NoOne /\ Id(v, c).vm = v
  BY OwnerIds, Zenon
<1>2. PICK m, l : m = In(v, Id(v, c)) /\ l = Lock("inter_hart_requests", v, c, "write")
  BY SMTT(30)
<1>3. m \in Local /\ Calm(m) /\ m.own = Id(v, c) /\ m.fact = ExistsFact(v) /\ Low(m.stack, 3)
  BY <1>1, <1>2, InFields, Zenon
<1>4. l \in LockSet /\ Rank(l) = 3
  BY <1>2, Locks, Zenon
<1>5. PICK p, a, d : /\ p = Push(m, l) /\ a = [do |-> "acquire", lock |-> l]
                     /\ d = Do("drain", v, c)
  BY Zenon
<1>6. p \in Local /\ p.own = Id(v, c) /\ p.fact = ExistsFact(v)
  BY <1>3, <1>4, <1>5, PushFields, Zenon
<1>7. d \in StepSet /\ d.do = "drain" /\ d.vm = v /\ d.hart = c
  BY <1>5, Locks, Zenon DEF Do, DoNames
<1>8. a \in StepSet /\ Trans(m, a, p)
  BY <1>3, <1>4, <1>5, TransAcquire, Zenon
<1>9. Trans(p, d, p)
  BY <1>6, <1>7, Zenon DEF Trans
<1>10. Release \in StepSet /\ Trans(p, Release, m)
  BY <1>3, <1>4, <1>5, CalmDrop, Zenon
<1>11. Path(m, <<a, d, Release>>, m)
  BY <1>3, <1>6, <1>7, <1>8, <1>9, <1>10, PathThree, Zenon
<1>12. Path(m, <<AcquireQueue(v, c), Do("drain", v, c), Release>>, m)
  BY <1>2, <1>5, <1>11, Zenon DEF AcquireQueue
<1>. QED  BY <1>1, <1>2, <1>12, PathSection, Zenon DEF process_inter_hart_requests

\* map_shared_page.
LEMMA PathShare ==
    ASSUME NEW v \in VmIds, NEW o \in Owner
    PROVE  Path(Idle(o), map_shared_page(v), Idle(o))
<1>1. PICK m : m = In(v, o)
  BY Zenon
<1>2. m \in Local /\ Calm(m) /\ Low(m.stack, 3)
  BY <1>1, InFields, Zenon
<1>3. Low(m.stack, 4)
  BY <1>2, LowMore, Zenon
<1>4. Path(m, acquire_continous_pages, m) /\ Path(m, allocate, m)
  BY <1>2, <1>3, PathPages, PathAllocate, Zenon
<1>5. PICK s, t : s = acquire_continous_pages /\ t = allocate
  BY Zenon
<1>6. Path(m, s \o t, m)
  BY <1>4, <1>5, PathConcat, Zenon
<1>7. Path(m, (s \o t) \o s, m)
  BY <1>4, <1>5, <1>6, PathConcat, Zenon
<1>. QED  BY <1>1, <1>5, <1>7, PathSection, Zenon DEF map_shared_page

\* broadcast_inter_hart_request: as many steps as there are targets.
LEMMA PathBroadcast ==
    ASSUME NEW v \in VmIds, NEW c \in HartIds
    PROVE  Path(Idle(Id(v, c)), broadcast_inter_hart_request(v, c), Idle(Id(v, c)))
<1>1. Id(v, c) \in Owner /\ Id(v, c) # NoOne /\ Id(v, c).vm = v
  BY OwnerIds, Zenon
<1>2. PICK m, n : m = In(v, Id(v, c)) /\ n = Cardinality(HartIds) - 1
  BY SMTT(30)
<1>3. /\ m \in Local /\ m.own = Id(v, c) /\ m.fact = ExistsFact(v)
      /\ HasCd(m.stack) /\ Has(m.stack, VmLock(v)) /\ Low(m.stack, 3)
  BY <1>1, <1>2, InFields, Zenon
<1>4. n \in Nat /\ HartIds = 0 .. n /\ c \in 0 .. n
  BY <1>2, LocksAssumption
<1>5. PICK T : T = Targets(c)
  BY Zenon
<1>6. DOMAIN T = 1 .. n /\ \A i \in 1 .. n : T[i] \in HartIds
  <2>1. T = [i \in 1 .. n |-> IF i <= c THEN i - 1 ELSE i]
    BY <1>2, <1>5, Zenon DEF Targets
  <2>. QED  BY <2>1, <1>4
<1>7. PICK s : s = [i \in DOMAIN T |-> Do("broadcast", v, T[i])]
  BY Zenon
<1>8. \A i \in 1 .. n : s[i] = Do("broadcast", v, T[i]) /\ s[i] \in StepSet
  BY <1>6, <1>7, Locks, Zenon DEF DoNames
<1>9. s \in Seq(StepSet) /\ Len(s) = n
  BY <1>4, <1>6, <1>7, <1>8
<1>10. ASSUME NEW i \in 1 .. Len(s) PROVE Trans(m, s[i], m)
  <2>1. s[i].do = "broadcast" /\ s[i].vm = v
    BY <1>8, <1>9 DEF Do
  <2>. QED  BY <2>1, <1>1, <1>3, Zenon DEF Trans
<1>11. Path(m, s, m)
  BY <1>3, <1>9, <1>10, PathLoop, Zenon
<1>. QED  BY <1>1, <1>2, <1>5, <1>7, <1>11, PathSection, Zenon DEF broadcast_inter_hart_request

\* Steps under the write lock on the map.
LEMMA PathWrite ==
    ASSUME NEW fact \in Facts, fact.kind # "executable", NEW o \in Owner
    PROVE  LET w == L(Append(<<>>, CdWrite), o, fact) IN
           /\ w \in Local /\ Has(w.stack, CdWrite) /\ HasCd(w.stack) /\ Calm(w)
           /\ w.stack = Append(<<>>, CdWrite) /\ w.own = o /\ w.fact = fact
           /\ Low(w.stack, 2) /\ Low(w.stack, 4)
           /\ Path(w, allocate, w)
           /\ Path(w, <<Release>>, Idle(o))
<1>0. PICK e, st : e = <<>> /\ st = Append(e, CdWrite)
  BY Zenon
<1>1. PICK w, x : w = L(st, o, fact) /\ x = L(e, o, fact)
  BY Zenon
<1>2. CdWrite \in LockSet /\ Rank(CdWrite) = 1 /\ e \in Seq(LockSet)
  BY <1>0, Ids, Locks
<1>3. x \in Local /\ x.stack = e /\ x.own = o /\ x.fact = fact
  BY <1>1, <1>2, IsLocal
<1>4. Push(x, CdWrite) = w
  BY <1>0, <1>1, <1>3, Zenon DEF Push
<1>5. /\ w \in Local /\ w.stack \in Seq(LockSet) /\ w.stack # <<>> /\ w.own = o /\ w.fact = fact
      /\ Has(w.stack, CdWrite)
  BY <1>2, <1>3, <1>4, PushFields, Zenon
<1>6. Low(w.stack, 2) /\ Low(w.stack, 4)
  <2>1. Low(x.stack, 0)
    BY <1>0, <1>3 DEF Low
  <2>2. Low(Push(x, CdWrite).stack, 2) /\ Low(Push(x, CdWrite).stack, 4)
    BY <2>1, <1>2, <1>3, PushLow, SMTT(30)
  <2>. QED  BY <2>2, <1>4, Zenon
<1>7. Calm(w) /\ HasCd(w.stack)
  BY <1>5, Zenon DEF Calm, HasCd
<1>8. Path(w, allocate, w)
  BY <1>6, <1>7, PathAllocate, Zenon
<1>9. w.stack = st
  <2>1. st \in Seq(LockSet)
    BY <1>0, <1>2
  <2>. QED  BY <2>1, <1>1, IsLocal
<1>10. Release \in StepSet /\ Trans(w, Release, Idle(o))
  <2>1. Nothing = IF x.stack = <<>> THEN Nothing ELSE x.fact
    BY <1>0, <1>3, Zenon
  <2>2. Release \in StepSet /\ Trans(Push(x, CdWrite), Release, L(x.stack, x.own, Nothing))
    BY <2>1, <1>2, <1>3, TransDrop, Zenon
  <2>3. L(x.stack, x.own, Nothing) = Idle(o)
    BY <1>0, <1>3, Zenon DEF Idle
  <2>. QED  BY <2>2, <2>3, <1>4, Zenon
<1>11. Path(w, <<Release>>, Idle(o))
  BY <1>5, <1>10, IdleFields, PathOne, Zenon
<1>. QED  BY <1>0, <1>1, <1>5, <1>6, <1>7, <1>8, <1>9, <1>11, Zenon

\* The write lock is taken.
LEMMA PathWriteLock ==
    ASSUME NEW o \in Owner
    PROVE  /\ Acquire("control_data", "write") \in StepSet
           /\ Trans(Idle(o), Acquire("control_data", "write"),
                    L(Append(<<>>, CdWrite), o, Nothing))
<1>1. CdWrite \in LockSet
  BY Ids, Locks, Zenon
<1>2. PICK i : i = Idle(o)
  BY Zenon
<1>3. /\ i \in Local /\ i.stack = <<>> /\ i.own = o /\ i.fact = Nothing
      /\ Low(i.stack, Rank(CdWrite))
  BY <1>2, IdleFields, Zenon
<1>4. PICK a : a = [do |-> "acquire", lock |-> CdWrite]
  BY Zenon
<1>5. a \in StepSet /\ Trans(i, a, Push(i, CdWrite))
  BY <1>1, <1>3, <1>4, TransAcquire, Zenon
<1>6. Push(i, CdWrite) = L(Append(<<>>, CdWrite), o, Nothing)
  BY <1>3, Zenon DEF Push
<1>. QED  BY <1>2, <1>4, <1>5, <1>6, Zenon DEF Acquire, CdWrite

\* A removed VM is dropped outside all critical sections.
LEMMA PathDrop ==
    ASSUME NEW o \in Owner
    PROVE  Path(Idle(o), drop_confidential_vm, Idle(o))
<1>1. PICK i : i = Idle(o)
  BY Zenon
<1>2. Calm(i) /\ Low(i.stack, 3) /\ Low(i.stack, 4)
  BY <1>1, IdleFields, Zenon
<1>3. Path(i, acquire_continous_pages, i) /\ Path(i, allocate, i)
  BY <1>2, PathPages, PathAllocate, Zenon
<1>4. Path(i, acquire_continous_pages \o allocate, i)
  BY <1>3, PathConcat, Zenon
<1>. QED  BY <1>1, <1>4, Zenon DEF drop_confidential_vm

\* remove_confidential_vm.
LEMMA PathRemove ==
    ASSUME NEW v \in VmIds
    PROVE  Path(Idle(NoOne), remove_confidential_vm(v), Idle(NoOne))
<1>1. NoOne \in Owner /\ 0 \in HartIds
  BY Ids, Zenon DEF Owner
<1>2. PICK st : st = Append(<<>>, CdWrite)
  BY Zenon
<1>3. PICK i, w0, w1, w2, l :
        /\ i = Idle(NoOne) /\ l = VmLock(v)
        /\ w0 = L(st, NoOne, Nothing)
        /\ w1 = L(st, NoOne, ExistsFact(v))
        /\ w2 = L(st, NoOne, ShutdownFact(v))
  BY Zenon
<1>4. /\ Nothing \in Facts /\ ExistsFact(v) \in Facts /\ ShutdownFact(v) \in Facts
      /\ Nothing.kind = "nothing" /\ ExistsFact(v).kind = "exists"
      /\ ShutdownFact(v).kind = "shutdown"
  BY <1>1, AreFacts, Zenon
<1>5. /\ w0 \in Local /\ w0.stack = st /\ w0.own = NoOne /\ w0.fact = Nothing
      /\ Path(w0, allocate, w0) /\ Path(w0, <<Release>>, i) /\ HasCd(st) /\ Has(st, CdWrite)
  <2>1. w0 = L(Append(<<>>, CdWrite), NoOne, Nothing)
    BY <1>2, <1>3, Zenon
  <2>2. Nothing.kind # "executable"
    BY <1>4, Zenon
  <2>3. /\ w0 \in Local /\ w0.stack = Append(<<>>, CdWrite) /\ w0.own = NoOne /\ w0.fact = Nothing
        /\ Path(w0, allocate, w0) /\ Path(w0, <<Release>>, Idle(NoOne))
        /\ HasCd(w0.stack) /\ Has(w0.stack, CdWrite)
    BY <2>1, <2>2, <1>1, <1>4, PathWrite, Zenon
  <2>. QED  BY <2>3, <1>2, <1>3, Zenon
<1>6. /\ w1 \in Local /\ w1.stack = st /\ w1.own = NoOne /\ w1.fact = ExistsFact(v)
      /\ Calm(w1) /\ Low(w1.stack, 2)
  <2>1. w1 = L(Append(<<>>, CdWrite), NoOne, ExistsFact(v))
    BY <1>2, <1>3, Zenon
  <2>2. ExistsFact(v).kind # "executable"
    BY <1>4, Zenon
  <2>. QED  BY <2>1, <2>2, <1>1, <1>2, <1>4, PathWrite, Zenon
<1>7. /\ w2 \in Local /\ w2.stack = st /\ w2.own = NoOne /\ w2.fact = ShutdownFact(v)
      /\ Calm(w2)
  <2>1. w2 = L(Append(<<>>, CdWrite), NoOne, ShutdownFact(v))
    BY <1>2, <1>3, Zenon
  <2>2. ShutdownFact(v).kind # "executable"
    BY <1>4, Zenon
  <2>. QED  BY <2>1, <2>2, <1>1, <1>2, <1>4, PathWrite, Zenon
<1>8. l \in LockSet /\ Rank(l) = 2
  BY <1>1, <1>3, Locks, Zenon
<1>9. PICK p1, p2 : p1 = Push(w1, l) /\ p2 = Push(w2, l)
  BY SMTT(30)
<1>10. /\ p1 \in Local /\ p1.own = NoOne /\ p1.fact = ExistsFact(v) /\ Has(p1.stack, CdWrite)
       /\ p2 \in Local /\ p2.own = NoOne /\ p2.fact = ShutdownFact(v)
  BY <1>5, <1>6, <1>7, <1>8, <1>9, PushFields, ZenonT(60)
<1>11. p2 = L(p1.stack, NoOne, ShutdownFact(v))
  <2>1. PICK q : q = Append(st, l)
    BY Zenon
  <2>2. q \in Seq(LockSet)
    <3>1. st \in Seq(LockSet)
      BY <1>5, LocalFields, Zenon
    <3>. QED  BY <3>1, <2>1, <1>8
  <2>3. p1 = L(q, NoOne, ExistsFact(v)) /\ p2 = L(q, NoOne, ShutdownFact(v))
    BY <2>1, <1>6, <1>7, <1>9, Zenon DEF Push
  <2>4. p1.stack = q
    BY <2>2, <2>3, <1>1, <1>4, IsLocal
  <2>. QED  BY <2>3, <2>4, Zenon
<1>12. PICK a, b, c, d, e, f :
        /\ a = Acquire("control_data", "write") /\ b = Do("find", v, 0) /\ c = AcquireVm(v)
        /\ d = Do("are_all_harts_shutdown", v, 0) /\ f = Do("remove", v, 0)
        /\ e = Release
  BY SMTT(30)
<1>13. /\ b \in StepSet /\ b.do = "find" /\ b.vm = v
       /\ d \in StepSet /\ d.do = "are_all_harts_shutdown" /\ d.vm = v
       /\ f \in StepSet /\ f.do = "remove" /\ f.vm = v
  BY <1>1, <1>12, Locks, Zenon DEF Do, DoNames
<1>14. a \in StepSet /\ Trans(i, a, w0)
  BY <1>1, <1>2, <1>3, <1>12, PathWriteLock, SMTT(30)
<1>15. Trans(w0, b, w1)
  BY <1>3, <1>5, <1>13, Zenon DEF Trans
<1>16. c \in StepSet /\ Trans(w1, c, p1)
  BY <1>3, <1>6, <1>8, <1>9, <1>12, TransAcquire, SMTT(30) DEF AcquireVm, VmLock
<1>17. Trans(p1, d, p2)
  BY <1>10, <1>11, <1>13, Zenon DEF Trans
<1>18. e \in StepSet /\ Trans(p2, e, w2)
  BY <1>7, <1>8, <1>9, <1>12, CalmDrop, SMTT(30)
<1>19. Trans(w2, f, w0)
  BY <1>3, <1>5, <1>7, <1>13, Zenon DEF Trans
<1>20. i \in Local
  BY <1>1, <1>3, IdleFields, Zenon
<1>21. Path(i, <<a, b>>, w1) /\ Path(w1, <<c, d>>, p2) /\ Path(p2, <<e, f>>, w0)
  BY <1>5, <1>6, <1>7, <1>10, <1>13, <1>14, <1>15, <1>16, <1>17, <1>18, <1>19, <1>20, PathTwo, Zenon
<1>22. Path(i, <<a, b>> \o <<c, d>>, p2)
  BY <1>21, PathConcat, Zenon
<1>23. Path(i, (<<a, b>> \o <<c, d>>) \o <<e, f>>, w0)
  BY <1>21, <1>22, PathConcat, Zenon
<1>24. Path(i, <<a, b, c, d, e, f>>, w0)
  BY <1>13, <1>14, <1>16, <1>18, <1>23, PathSix, Zenon
<1>25. PICK s, t, u : /\ s = <<a, b, c, d, e, f>> /\ t = allocate
                      /\ u = drop_confidential_vm
  BY Zenon
<1>26. Path(i, s \o t, w0)
  BY <1>5, <1>24, <1>25, PathConcat, Zenon
<1>27. Path(i, (s \o t) \o <<Release>>, i)
  BY <1>5, <1>26, PathConcat, Zenon
<1>28. Path(i, ((s \o t) \o <<Release>>) \o u, i)
  BY <1>1, <1>3, <1>25, <1>27, PathDrop, PathConcat, Zenon
<1>. QED  BY <1>3, <1>12, <1>25, <1>28, Zenon DEF remove_confidential_vm

\* promote_to_confidential_vm.
LEMMA PathPromote ==
    Path(Idle(NoOne),
         acquire_continous_pages \o allocate
             \o <<Acquire("control_data", "write"), Do("insert", 0, 0)>> \o allocate \o <<Release>>,
         Idle(NoOne))
<1>1. NoOne \in Owner /\ 0 \in HartIds /\ 0 \in VmIds
  BY Ids, Zenon DEF Owner
<1>2. PICK i, w, a, b, s :
        /\ i = Idle(NoOne) /\ w = L(Append(<<>>, CdWrite), NoOne, Nothing)
        /\ a = Acquire("control_data", "write") /\ b = Do("insert", 0, 0)
        /\ s = drop_confidential_vm
  BY Zenon
<1>3. Nothing \in Facts /\ Nothing.kind # "executable"
  BY <1>1, AreFacts, Zenon
<1>4. /\ w \in Local /\ Has(w.stack, CdWrite) /\ w.fact = Nothing
      /\ Path(w, allocate, w) /\ Path(w, <<Release>>, Idle(NoOne))
  BY <1>1, <1>2, <1>3, PathWrite, Zenon
<1>5. b \in StepSet /\ b.do = "insert"
  BY <1>1, <1>2, Locks, Zenon DEF Do, DoNames
<1>6. i \in Local /\ a \in StepSet /\ Trans(i, a, w)
  BY <1>1, <1>2, PathWriteLock, IdleFields, Zenon
<1>7. Trans(w, b, w)
  BY <1>4, <1>5, Zenon DEF Trans
<1>8. Path(i, <<a, b>>, w)
  BY <1>4, <1>5, <1>6, <1>7, PathTwo, Zenon
<1>9. Path(i, s, i)
  BY <1>1, <1>2, PathDrop, Zenon
<1>10. Path(i, s \o <<a, b>>, w)
  BY <1>8, <1>9, PathConcat, Zenon
<1>11. Path(i, (s \o <<a, b>>) \o allocate, w)
  BY <1>4, <1>10, PathConcat, Zenon
<1>12. Path(i, ((s \o <<a, b>>) \o allocate) \o <<Release>>, i)
  BY <1>2, <1>4, <1>11, PathConcat, Zenon
<1>. QED  BY <1>2, <1>12, Zenon DEF drop_confidential_vm

\* One access outside all critical sections.
LEMMA TransIdle ==
    ASSUME NEW v \in VmIds, NEW c \in HartIds
    PROVE  /\ Path(Idle(Id(v, c)), <<Do("take_request", v, c)>>, Idle(Id(v, c)))
           /\ \A t \in OwnTransitions : Path(Idle(Id(v, c)), <<Do(t, v, c)>>, Idle(Id(v, c)))
           /\ Path(Idle(Id(v, c)), <<Do("after_requests", v, c)>>, Idle(NoOne))
<1>1. NoOne \in Owner /\ Id(v, c) \in Owner
  BY OwnerIds, Zenon
<1>2. PICK i, j, a, d : /\ i = Idle(Id(v, c)) /\ j = Idle(NoOne)
                        /\ a = Do("take_request", v, c)
                        /\ d = Do("after_requests", v, c)
  BY Zenon
<1>3. i \in Local /\ j \in Local /\ i.stack = <<>> /\ i.own = Id(v, c) /\ i.fact = Nothing
  BY <1>1, <1>2, IdleFields, Zenon
<1>4. /\ a \in StepSet /\ a.do = "take_request" /\ a.vm = v /\ a.hart = c
      /\ d \in StepSet /\ d.do = "after_requests" /\ d.vm = v /\ d.hart = c
  BY <1>2, Locks, Zenon DEF Do, DoNames
<1>5. Trans(i, a, i)
  BY <1>3, <1>4, Zenon DEF Trans
<1>6. Trans(i, d, j)
  BY <1>2, <1>3, <1>4, Zenon DEF Trans, Idle
<1>7. Path(i, <<a>>, i) /\ Path(i, <<d>>, j)
  BY <1>3, <1>4, <1>5, <1>6, PathOne, Zenon
<1>8. ASSUME NEW t \in OwnTransitions PROVE Path(Idle(Id(v, c)), <<Do(t, v, c)>>, Idle(Id(v, c)))
  <2>1. PICK b : b = Do(t, v, c)
    BY Zenon
  <2>2. t \in DoNames
    BY Zenon DEF OwnTransitions, DoNames
  <2>3. b \in StepSet /\ b.do = t /\ b.vm = v /\ b.hart = c
    BY <2>1, <2>2, Locks, Zenon DEF Do
  <2>4. Trans(i, b, i)
    BY <1>3, <2>3, Zenon DEF Trans, OwnTransitions
  <2>5. Path(i, <<b>>, i)
    BY <1>3, <2>3, <2>4, PathOne, Zenon
  <2>. QED  BY <1>2, <2>1, <2>5, Zenon
<1>. QED  BY <1>2, <1>7, <1>8, Zenon

\* resume_confidential_hart.
LEMMA PathResume ==
    ASSUME NEW v \in VmIds, NEW c \in HartIds
    PROVE  Path(Idle(NoOne), steal_confidential_hart(v, c) \o process_inter_hart_requests(v, c)
                                 \o <<Do("take_request", v, c)>>, Idle(Id(v, c)))
<1>1. PICK s, t : s = steal_confidential_hart(v, c) /\ t = process_inter_hart_requests(v, c)
  BY Zenon
<1>2. Path(Idle(NoOne), s, Idle(Id(v, c))) /\ Path(Idle(Id(v, c)), t, Idle(Id(v, c)))
  BY <1>1, PathSteal, PathRequests, Zenon
<1>3. Path(Idle(NoOne), s \o t, Idle(Id(v, c)))
  BY <1>2, PathConcat, Zenon
<1>4. Path(Idle(NoOne), (s \o t) \o <<Do("take_request", v, c)>>, Idle(Id(v, c)))
  BY <1>3, TransIdle, PathConcat, Zenon
<1>. QED  BY <1>1, <1>4, Zenon

\* shutdown_confidential_hart.
LEMMA PathShutdown ==
    ASSUME NEW v \in VmIds, NEW c \in HartIds
    PROVE  Path(Idle(Id(v, c)), shutdown_confidential_hart(v, c), Idle(NoOne))
<1>1. PICK d, s, t : /\ d = Do("transition_to_shutdown", v, c)
                     /\ s = return_confidential_hart(v, c) /\ t = remove_confidential_vm(v)
  BY Zenon
<1>2. /\ Path(Idle(Id(v, c)), <<d>>, Idle(Id(v, c)))
      /\ Path(Idle(Id(v, c)), s, Idle(NoOne))
      /\ Path(Idle(NoOne), t, Idle(NoOne))
  BY <1>1, TransIdle, PathReturn, PathRemove, Zenon DEF OwnTransitions
<1>3. Path(Idle(Id(v, c)), <<d>> \o s, Idle(NoOne))
  BY <1>2, PathConcat, Zenon
<1>4. Path(Idle(Id(v, c)), (<<d>> \o s) \o t, Idle(NoOne))
  BY <1>2, <1>3, PathConcat, Zenon
<1>. QED  BY <1>1, <1>4, Zenon DEF shutdown_confidential_hart

\* interrupt, with and without a software interrupt pending.
LEMMA PathInterrupt ==
    ASSUME NEW v \in VmIds, NEW c \in HartIds
    PROVE  /\ Path(Idle(Id(v, c)), process_inter_hart_requests(v, c) \o <<Do("after_requests", v, c)>>,
                   Idle(NoOne))
           /\ Path(Idle(Id(v, c)), return_confidential_hart(v, c), Idle(NoOne))
<1>1. PICK s, d : s = process_inter_hart_requests(v, c) /\ d = Do("after_requests", v, c)
  BY Zenon
<1>2. Path(Idle(Id(v, c)), s, Idle(Id(v, c))) /\ Path(Idle(Id(v, c)), <<d>>, Idle(NoOne))
  BY <1>1, TransIdle, PathRequests, Zenon
<1>3. Path(Idle(Id(v, c)), s \o <<d>>, Idle(NoOne))
  BY <1>2, PathConcat, Zenon
<1>. QED  BY <1>1, <1>3, PathReturn, Zenon

\* sbi_hsm_hart_start.
LEMMA PathHartStart ==
    ASSUME NEW v \in VmIds, NEW c \in HartIds, NEW target \in HartIds
    PROVE  Path(Idle(Id(v, c)),
                try_confidential_vm(v, "find", <<Do("transit_to_start_pending", v, target)>>)
                    \o return_confidential_hart(v, c),
                Idle(NoOne))
<1>1. Id(v, c) \in Owner /\ Id(v, c) # NoOne /\ Id(v, c).vm = v
  BY OwnerIds, Zenon
<1>2. PICK m, d, s : /\ m = In(v, Id(v, c)) /\ d = Do("transit_to_start_pending", v, target)
                     /\ s = try_confidential_vm(v, "find", <<d>>)
  BY Zenon
<1>3. /\ m \in Local /\ m.own = Id(v, c) /\ m.fact = ExistsFact(v)
      /\ HasCd(m.stack) /\ Has(m.stack, VmLock(v))
  BY <1>1, <1>2, InFields, Zenon
<1>4. d \in StepSet /\ d.do = "transit_to_start_pending" /\ d.vm = v
  BY <1>2, Locks, Zenon DEF Do, DoNames
<1>5. Trans(m, d, m)
  BY <1>1, <1>3, <1>4, Zenon DEF Trans
<1>6. Path(m, <<d>>, m)
  BY <1>3, <1>4, <1>5, PathOne, Zenon
<1>7. Path(Idle(Id(v, c)), s, Idle(Id(v, c)))
  BY <1>1, <1>2, <1>6, PathSection, Zenon
<1>8. Path(Idle(Id(v, c)), s \o return_confidential_hart(v, c), Idle(NoOne))
  BY <1>7, PathReturn, PathConcat, Zenon
<1>. QED  BY <1>2, <1>8, Zenon

\* sbi_hsm_hart_stop and sbi_hsm_hart_suspend.
LEMMA PathHalt ==
    ASSUME NEW v \in VmIds, NEW c \in HartIds, NEW t \in OwnTransitions
    PROVE  Path(Idle(Id(v, c)), <<Do(t, v, c)>> \o return_confidential_hart(v, c), Idle(NoOne))
BY TransIdle, PathReturn, PathConcat, Zenon

\* sbi_hsm_hart_status.
LEMMA PathStatus ==
    ASSUME NEW v \in VmIds, NEW c \in HartIds
    PROVE  Path(Idle(Id(v, c)), try_confidential_vm(v, "find", <<>>), Idle(Id(v, c)))
<1>1. Id(v, c) \in Owner
  BY OwnerIds, Zenon
<1>2. In(v, Id(v, c)) \in Local
  BY <1>1, InFields, Zenon
<1>3. Path(In(v, Id(v, c)), <<>>, In(v, Id(v, c)))
  BY <1>2, PathNil, Zenon
<1>. QED  BY <1>1, <1>3, PathSection, Zenon

\* sbi_srst.
LEMMA PathReset ==
    ASSUME NEW v \in VmIds, NEW c \in HartIds
    PROVE  Path(Idle(Id(v, c)),
                broadcast_inter_hart_request(v, c) \o shutdown_confidential_hart(v, c), Idle(NoOne))
BY PathBroadcast, PathShutdown, PathConcat, Zenon

(* The order of the guards                                                 *)

\* Guards are taken in the order of their ranks, and what a hart knows it knows under
\* the guards that keep it true.
Ordered(stack) == \A i, j \in DOMAIN stack : i < j => Rank(stack[i]) < Rank(stack[j])

Guarded(w) ==
    /\ Ordered(w.stack)
    /\ w.fact.kind # "nothing" => HasCd(w.stack)
    /\ w.fact.kind = "executable" => Has(w.stack, VmLock(w.fact.vm))
    /\ w.fact.kind = "shutdown" => Has(w.stack, CdWrite)

\* Ranks are positive.
LEMMA RankPositive ==
    ASSUME NEW l \in LockSet
    PROVE  Rank(l) \in Nat /\ Rank(l) >= 1
BY DEF Rank

\* The guard on the map is the last to go.
LEMMA LastToGo ==
    ASSUME NEW w \in Local, NEW n \in 1 .. Len(w.stack), Ordered(w.stack)
    PROVE  /\ Ordered(Dropped(w, n).stack)
           /\ \A l \in LockSet : Rank(l) = 1 /\ Has(w.stack, l) /\ n < Len(w.stack)
                                 => Has(Dropped(w, n).stack, l)
<1>1. w.stack \in Seq(LockSet) /\ Len(w.stack) \in Nat /\ DOMAIN w.stack = 1 .. Len(w.stack)
  BY LocalFields, Zenon
<1>2. PICK d, m : d = Dropped(w, n).stack /\ m = Len(w.stack) - n
  BY Zenon
<1>3. d \in Seq(LockSet) /\ Len(d) = m /\ \A i \in 1 .. m : d[i] = w.stack[i]
  BY <1>1, <1>2, DroppedLocal, Zenon
<1>4. DOMAIN d = 1 .. m /\ m \in Nat
  BY <1>3, Lengths, Zenon
<1>5. Ordered(d)
  <2>1. ASSUME NEW i \in 1 .. m, NEW j \in 1 .. m, i < j PROVE Rank(d[i]) < Rank(d[j])
    <3>1. i \in DOMAIN w.stack /\ j \in DOMAIN w.stack
      BY <1>1, <1>2, <1>4
    <3>2. Rank(w.stack[i]) < Rank(w.stack[j])
      BY <2>1, <3>1, Zenon DEF Ordered
    <3>. QED  BY <3>2, <1>3, Zenon
  <2>. QED  BY <2>1, <1>4, Zenon DEF Ordered
<1>6. ASSUME NEW l \in LockSet, Rank(l) = 1, Has(w.stack, l), n < Len(w.stack) PROVE Has(d, l)
  <2>1. PICK i \in DOMAIN w.stack : w.stack[i] = l
    BY <1>6, Zenon DEF Has
  <2>2. 1 \in DOMAIN w.stack /\ w.stack[1] \in LockSet /\ 1 \in 1 .. m
    BY <1>1, <1>2, <1>4, <1>6, Lengths
  <2>3. i = 1
    <3>. SUFFICES ASSUME i # 1 PROVE FALSE
      BY Zenon
    <3>1. 1 < i
      BY <1>1, <2>1
    <3>2. Rank(w.stack[1]) < 1
      BY <3>1, <2>1, <2>2, <1>6, Zenon DEF Ordered
    <3>. QED  BY <3>2, <2>2, RankPositive
  <2>4. d[1] = l
    BY <2>1, <2>2, <2>3, <1>3, SMTT(30)
  <2>. QED  BY <2>2, <2>4, <1>4, Zenon DEF Has
<1>. QED  BY <1>2, <1>5, <1>6, Zenon

\* Under a guard taken above all others the guards stay ordered.
LEMMA GuardedPush ==
    ASSUME NEW w \in Local, NEW l \in LockSet, Above(w.stack, l), Guarded(w)
    PROVE  Guarded(Push(w, l))
<1>1. w.stack \in Seq(LockSet) /\ w.own \in Owner /\ w.fact \in Facts
  BY LocalFields, Zenon
<1>2. PICK st, p : st = Append(w.stack, l) /\ p = Push(w, l)
  BY Zenon
<1>3. /\ st \in Seq(LockSet) /\ Len(st) = Len(w.stack) + 1 /\ Len(w.stack) \in Nat
      /\ \A i \in 1 .. Len(w.stack) : st[i] = w.stack[i]
      /\ st[Len(w.stack) + 1] = l
      /\ DOMAIN st = 1 .. (Len(w.stack) + 1) /\ DOMAIN w.stack = 1 .. Len(w.stack)
  BY <1>1, <1>2, OnTop
<1>4. p.stack = st
  <2>1. L(st, w.own, w.fact).stack = st
    BY <1>1, <1>3, IsLocal
  <2>. QED  BY <2>1, <1>2, Zenon DEF Push
<1>5. Ordered(st)
  <2>1. ASSUME NEW i \in DOMAIN st, NEW j \in DOMAIN st, i < j PROVE Rank(st[i]) < Rank(st[j])
    <3>1. i \in 1 .. Len(w.stack) /\ st[i] = w.stack[i] /\ i \in DOMAIN w.stack
      BY <2>1, <1>3
    <3>2. CASE j \in 1 .. Len(w.stack)
      <4>1. st[j] = w.stack[j] /\ j \in DOMAIN w.stack
        BY <3>2, <1>3, Zenon
      <4>. QED  BY <2>1, <3>1, <4>1, Zenon DEF Guarded, Ordered
    <3>3. CASE j = Len(w.stack) + 1
      <4>1. st[j] = l
        BY <3>3, <1>3, SMTT(30)
      <4>. QED  BY <3>1, <4>1, Zenon DEF Above, Low
    <3>. QED  BY <3>2, <3>3, <1>3
  <2>. QED  BY <2>1, Zenon DEF Ordered
<1>6. p.fact = w.fact /\ \A k : Has(w.stack, k) => Has(p.stack, k)
  BY <1>2, PushFields, Zenon
<1>. QED  BY <1>2, <1>4, <1>5, <1>6, Zenon DEF Guarded, HasCd

\* Guards in the order of release.
LEMMA GuardedDrop ==
    ASSUME NEW w \in Local, NEW n \in 1 .. Len(w.stack), Guarded(w), w.fact.kind # "executable"
    PROVE  Guarded(Dropped(w, n))
<1>1. PICK d : d = Dropped(w, n)
  BY Zenon
<1>2. d.fact = (IF n < Len(w.stack) THEN w.fact ELSE Nothing)
  BY <1>1, DroppedLocal, Zenon
<1>3. Nothing.kind = "nothing" /\ CdRead \in LockSet /\ CdWrite \in LockSet
      /\ Rank(CdRead) = 1 /\ Rank(CdWrite) = 1
  BY Ids, AreFacts, Locks, Zenon
<1>4. /\ Ordered(d.stack)
      /\ n < Len(w.stack) => (HasCd(w.stack) => HasCd(d.stack))
                             /\ (Has(w.stack, CdWrite) => Has(d.stack, CdWrite))
  BY <1>1, <1>3, LastToGo, SMTT(30) DEF Guarded, HasCd
<1>5. CASE n < Len(w.stack)
  BY <1>1, <1>2, <1>4, <1>5, SMTT(30) DEF Guarded
<1>6. CASE ~(n < Len(w.stack))
  BY <1>1, <1>2, <1>3, <1>4, <1>6, Zenon DEF Guarded
<1>. QED  BY <1>5, <1>6, Zenon

-----------------------------------------------------------------------------
(* The inductive invariant                                                 *)

\* The confidential hart assigned to the hardware hart h.
Own(h) ==
    IF hardware_hart[h] = None THEN NoOne ELSE Id(hardware_hart[h].vm, hardware_hart[h].hart)

\* What a hart knows is true.
FactHolds(f) ==
    /\ f.kind # "nothing" => f.vm \in DOMAIN confidential_vms
    /\ f.kind = "executable" =>
          confidential_vms[f.vm][f.hart] \in {"Started", "StartPending", "Suspended"}
    /\ f.kind = "shutdown" => \A d \in HartIds : confidential_vms[f.vm][d] = "Shutdown"

\* While the fact that a VM exists holds, the VM is in the table.
LEMMA VmExists ==
    ASSUME NEW f, NEW v, FactHolds(f), f = ExistsFact(v)
    PROVE  v \in DOMAIN confidential_vms
BY Zenon DEF FactHolds, ExistsFact

\* What is left of h's operation leads from what h holds and knows to no guard held.
HartNow(h, w, e) ==
    /\ Path(w, todo[h], e) /\ e.stack = <<>>
    /\ w.stack = held[h] /\ w.own = Own(h)
    /\ FactHolds(w.fact) /\ Guarded(w)

HartInv(h) == \E w, e : HartNow(h, w, e)

\* No two harts hold guards that exclude each other.
Exclusion ==
    \A g, h \in HardwareHarts : g # h =>
        \A i \in DOMAIN held[g], j \in DOMAIN held[h] : ~Conflict(held[g][i], held[h][j])

Slots == HartStates \cup {None}
Assignments == {None} \cup AssignedHart

Types ==
    /\ DOMAIN confidential_vms \subseteq VmIds
    /\ confidential_vms \in [DOMAIN confidential_vms -> [HartIds -> Slots]]
    /\ inter_hart_requests \in [DOMAIN confidential_vms -> [HartIds -> Nat]]
    /\ hardware_hart \in [HardwareHarts -> Assignments]
    /\ todo \in [HardwareHarts -> Seq(StepSet)]
    /\ held \in [HardwareHarts -> Seq(LockSet)]

\* A slot is empty iff one hardware hart has the confidential hart.
OwnershipOf(vms, assigned) ==
    /\ \A h \in HardwareHarts : assigned[h] # None =>
          assigned[h].vm \in DOMAIN vms /\ vms[assigned[h].vm][assigned[h].hart] = None
    /\ \A g, h \in HardwareHarts : g # h /\ assigned[g] # None /\ assigned[h] # None =>
          ~(assigned[g].vm = assigned[h].vm /\ assigned[g].hart = assigned[h].hart)
    /\ \A v \in DOMAIN vms, c \in HartIds : vms[v][c] = None =>
          \E h \in HardwareHarts :
             assigned[h] # None /\ assigned[h].vm = v /\ assigned[h].hart = c

Ownership == OwnershipOf(confidential_vms, hardware_hart)

Inv == Types /\ Ownership /\ Exclusion /\ \A h \in HardwareHarts : HartInv(h)

\* What other harts cannot hold.
LEMMA Excluded ==
    ASSUME Exclusion, NEW g \in HardwareHarts, NEW h \in HardwareHarts, g # h
    PROVE  /\ HasCd(held[h]) => ~Has(held[g], CdWrite)
           /\ \A v : Has(held[h], VmLock(v)) => ~Has(held[g], VmLock(v))
           /\ Has(held[h], CdWrite) => ~HasCd(held[g])
<1>1. ASSUME NEW a, NEW b, Has(held[g], a), Has(held[h], b) PROVE ~Conflict(a, b)
  BY <1>1, Zenon DEF Exclusion, Has
<1>2. /\ Conflict(CdWrite, CdRead) /\ Conflict(CdWrite, CdWrite) /\ Conflict(CdRead, CdWrite)
      /\ \A v : Conflict(VmLock(v), VmLock(v))
  BY Zenon DEF Conflict, CdRead, CdWrite, VmLock, Lock
<1>. QED  BY <1>1, <1>2, Zenon DEF HasCd

\* Other harts know what they knew: nothing changed that they know of.
LEMMA OtherSame ==
    ASSUME NEW g \in HardwareHarts, HartInv(g),
           todo'[g] = todo[g], held'[g] = held[g], Own(g)' = Own(g),
           confidential_vms' = confidential_vms
    PROVE  HartInv(g)'
<1>1. PICK w, e : HartNow(g, w, e)
  BY Zenon DEF HartInv
<1>2. FactHolds(w.fact)'
  BY <1>1, Zenon DEF HartNow, FactHolds
<1>3. HartNow(g, w, e)'
  BY <1>1, <1>2, Zenon DEF HartNow
<1>. QED  BY <1>3, Zenon DEF HartInv

\* A slot of the VM v changed, whose lock they do not hold.
LEMMA OtherSlot ==
    ASSUME NEW g \in HardwareHarts, HartInv(g),
           todo'[g] = todo[g], held'[g] = held[g], Own(g)' = Own(g),
           NEW v, ~Has(held[g], VmLock(v)), ~Has(held[g], CdWrite),
           DOMAIN confidential_vms' = DOMAIN confidential_vms,
           \A u \in DOMAIN confidential_vms : u # v => confidential_vms'[u] = confidential_vms[u]
    PROVE  HartInv(g)'
<1>1. PICK w, e : HartNow(g, w, e)
  BY Zenon DEF HartInv
<1>2. FactHolds(w.fact) /\ Guarded(w) /\ w.stack = held[g]
  BY <1>1, Zenon DEF HartNow
<1>3. w.fact.kind # "shutdown" /\ (w.fact.kind = "executable" => w.fact.vm # v)
  BY <1>2, Zenon DEF Guarded
<1>4. FactHolds(w.fact)'
  BY <1>2, <1>3, Zenon DEF FactHolds
<1>5. HartNow(g, w, e)'
  BY <1>1, <1>4, Zenon DEF HartNow
<1>. QED  BY <1>5, Zenon DEF HartInv

\* The map changed, whose lock they do not hold.
LEMMA OtherMap ==
    ASSUME NEW g \in HardwareHarts, HartInv(g),
           todo'[g] = todo[g], held'[g] = held[g], Own(g)' = Own(g),
           ~HasCd(held[g])
    PROVE  HartInv(g)'
<1>1. PICK w, e : HartNow(g, w, e)
  BY Zenon DEF HartInv
<1>2. w.fact.kind = "nothing"
  BY <1>1, Zenon DEF HartNow, Guarded
<1>3. FactHolds(w.fact)'
  BY <1>2, Zenon DEF FactHolds
<1>4. HartNow(g, w, e)'
  BY <1>1, <1>3, Zenon DEF HartNow
<1>. QED  BY <1>4, Zenon DEF HartInv

\* The step h is at, and the state it leads to.
LEMMA AtStep ==
    ASSUME NEW h \in HardwareHarts, HartInv(h), todo[h] # <<>>
    PROVE  \E w, x, e :
              /\ w \in Local /\ x \in Local /\ HartNow(h, w, e)
              /\ Head(todo[h]) \in StepSet /\ Tail(todo[h]) \in Seq(StepSet)
              /\ Trans(w, Head(todo[h]), x) /\ Path(x, Tail(todo[h]), e)
<1>1. PICK w, e : HartNow(h, w, e)
  BY Zenon DEF HartInv
<1>2. Path(w, todo[h], e)
  BY <1>1, Zenon DEF HartNow
<1>3. /\ w \in Local /\ Head(todo[h]) \in StepSet /\ Tail(todo[h]) \in Seq(StepSet)
      /\ \E x \in Local : Trans(w, Head(todo[h]), x) /\ Path(x, Tail(todo[h]), e)
  BY <1>2, PathHead, Zenon
<1>. QED  BY <1>1, <1>3, Zenon

\* The rest of the operation follows.
LEMMA GoesOn ==
    ASSUME Types, NEW h \in HardwareHarts, NEW x, NEW e, e.stack = <<>>,
           Path(x, Tail(todo[h]), e), NEW more, NEW y, Path(y, more, x),
           Then(h, more), y.stack = held'[h], y.own = Own(h)', FactHolds(y.fact)', Guarded(y)
    PROVE  /\ HartInv(h)'
           /\ todo' \in [HardwareHarts -> Seq(StepSet)]
           /\ \A g \in HardwareHarts : g # h => todo'[g] = todo[g]
<1>1. Path(y, more \o Tail(todo[h]), e)
  BY PathConcat, Zenon
<1>2. more \o Tail(todo[h]) \in Seq(StepSet)
  BY <1>1, PathEnds, Zenon
<1>3. /\ todo' \in [HardwareHarts -> Seq(StepSet)]
      /\ todo'[h] = more \o Tail(todo[h])
      /\ \A g \in HardwareHarts : g # h => todo'[g] = todo[g]
  <2>1. PICK s : s = more \o Tail(todo[h])
    BY Zenon
  <2>2. todo' = [todo EXCEPT ![h] = s] /\ s \in Seq(StepSet)
    BY <2>1, <1>2, Zenon DEF Then
  <2>. QED  BY <2>1, <2>2, Zenon DEF Types
<1>4. HartNow(h, y, e)'
  BY <1>1, <1>3, Zenon DEF HartNow
<1>. QED  BY <1>3, <1>4, Zenon DEF HartInv

\* The same for a step that calls for no more.
LEMMA GoesOnAt ==
    ASSUME Types, NEW h \in HardwareHarts, NEW x, NEW e, e.stack = <<>>,
           Path(x, Tail(todo[h]), e),
           Then(h, <<>>), x.stack = held'[h], x.own = Own(h)', FactHolds(x.fact)', Guarded(x)
    PROVE  /\ HartInv(h)'
           /\ todo' \in [HardwareHarts -> Seq(StepSet)]
           /\ \A g \in HardwareHarts : g # h => todo'[g] = todo[g]
<1>1. x \in Local
  BY PathEnds, Zenon
<1>2. Path(x, <<>>, x)
  BY <1>1, PathNil, Zenon
<1>. QED  BY <1>2, GoesOn, Zenon

\* An error: the guards are dropped.
LEMMA Fails ==
    ASSUME Types, NEW h \in HardwareHarts, HartInv(h), Fail(h), held' = held, Own(h)' = Own(h)
    PROVE  /\ HartInv(h)'
           /\ todo' \in [HardwareHarts -> Seq(StepSet)]
           /\ \A g \in HardwareHarts : g # h => todo'[g] = todo[g]
<1>1. PICK w, e : HartNow(h, w, e)
  BY Zenon DEF HartInv
<1>2. w \in Local /\ w.stack = held[h] /\ w.own = Own(h) /\ Ordered(w.stack)
  BY <1>1, PathEnds, Zenon DEF HartNow, Guarded
<1>3. PICK f : f = L(w.stack, w.own, Nothing)
  BY Zenon
<1>4. f \in Local /\ f.stack = held[h] /\ f.own = Own(h) /\ f.fact = Nothing
  <2>1. w.stack \in Seq(LockSet) /\ w.own \in Owner /\ Nothing \in Facts
    BY <1>2, LocalFields, Ids, AreFacts, Zenon
  <2>. QED  BY <2>1, <1>2, <1>3, IsLocal
<1>5. Nothing.kind = "nothing"
  BY Zenon DEF Nothing
<1>6. PICK y : y.stack = <<>> /\ Path(f, [i \in DOMAIN held[h] |-> Release], y)
  BY <1>4, <1>5, PathFail, Zenon
<1>7. PICK s : s = [i \in DOMAIN held[h] |-> Release]
  BY Zenon
<1>8. s \in Seq(StepSet)
  BY <1>6, <1>7, PathEnds, Zenon
<1>9. /\ todo' \in [HardwareHarts -> Seq(StepSet)] /\ todo'[h] = s
      /\ \A g \in HardwareHarts : g # h => todo'[g] = todo[g]
  BY <1>7, <1>8, Zenon DEF Fail, Types
<1>10. Guarded(f) /\ FactHolds(f.fact)'
  BY <1>2, <1>4, <1>5, Zenon DEF Guarded, FactHolds
<1>11. HartNow(h, f, y)'
  BY <1>4, <1>6, <1>7, <1>9, <1>10, Zenon DEF HartNow
<1>. QED  BY <1>9, <1>11, Zenon DEF HartInv

\* A trap: an operation begins.
LEMMA Begins ==
    ASSUME Types, NEW h \in HardwareHarts, HartInv(h), NEW steps, NEW o, o \in Owner,
           Call(h, steps), Path(Idle(Own(h)), steps, Idle(o))
    PROVE  /\ HartInv(h)'
           /\ todo' \in [HardwareHarts -> Seq(StepSet)]
           /\ \A g \in HardwareHarts : g # h => todo'[g] = todo[g]
<1>1. PICK w, e : HartNow(h, w, e)
  BY Zenon DEF HartInv
<1>2. todo[h] = <<>> /\ todo' = [todo EXCEPT ![h] = steps] /\ UNCHANGED <<data, held>>
  BY Zenon DEF Call
<1>3. w \in Local /\ w = e /\ w.stack = <<>> /\ held[h] = <<>> /\ w.own = Own(h)
  <2>1. Path(w, <<>>, e) /\ w.stack = held[h] /\ e.stack = <<>> /\ w.own = Own(h)
    BY <1>1, <1>2, Zenon DEF HartNow
  <2>2. w \in Local
    BY <2>1, PathEnds, Zenon
  <2>. QED  BY <2>1, <2>2, PathNil, Zenon
<1>4. PICK i : i = Idle(Own(h))
  BY Zenon
<1>5. Own(h) \in Owner
  BY <1>3, LocalFields, Zenon
<1>6. i.stack = <<>> /\ i.own = Own(h) /\ i.fact = Nothing /\ Idle(o).stack = <<>>
  BY <1>4, <1>5, IdleFields, Zenon
<1>7. Own(h)' = Own(h) /\ held'[h] = <<>>
  BY <1>2, <1>3, Zenon DEF Own, data
<1>8. steps \in Seq(StepSet)
  BY PathEnds, Zenon
<1>9. /\ todo' \in [HardwareHarts -> Seq(StepSet)] /\ todo'[h] = steps
      /\ \A g \in HardwareHarts : g # h => todo'[g] = todo[g]
  BY <1>2, <1>8, Zenon DEF Types
<1>10. Guarded(i) /\ FactHolds(i.fact)'
  BY <1>6 DEF Guarded, FactHolds, Nothing, Ordered
<1>11. HartNow(h, i, Idle(o))'
  BY <1>4, <1>6, <1>7, <1>9, <1>10, Zenon DEF HartNow
<1>. QED  BY <1>9, <1>11, Zenon DEF HartInv

------------------------------------------------------------------------------
(* Every step preserves the invariant                                      *)

\* A step that leaves the data and the guards alone.
LEMMA OnlyTodo ==
    ASSUME Inv, NEW h \in HardwareHarts, UNCHANGED <<data, held>>, HartInv(h)',
           todo' \in [HardwareHarts -> Seq(StepSet)],
           \A g \in HardwareHarts : g # h => todo'[g] = todo[g]
    PROVE  Inv'
<1>1. /\ confidential_vms' = confidential_vms /\ inter_hart_requests' = inter_hart_requests
      /\ hardware_hart' = hardware_hart /\ held' = held
  BY Zenon DEF data
<1>2. Types'
  BY <1>1, Zenon DEF Inv, Types
<1>3. Ownership' /\ Exclusion'
  BY <1>1, Zenon DEF Inv, Ownership, Exclusion
<1>4. ASSUME NEW g \in HardwareHarts, g # h PROVE HartInv(g)'
  <2>1. HartInv(g) /\ todo'[g] = todo[g] /\ held'[g] = held[g] /\ Own(g)' = Own(g)
    BY <1>1, <1>4, Zenon DEF Inv, Own
  <2>. QED  BY <2>1, <1>1, OtherSame, Zenon
<1>. QED  BY <1>2, <1>3, <1>4, Zenon DEF Inv

\* The fields of a step.
LEMMA StepFields ==
    ASSUME NEW s \in StepSet
    PROVE  /\ s.do = "acquire" => s.lock \in LockSet
           /\ s.do \in DoNames => s.vm \in VmIds /\ s.hart \in HartIds
           /\ s.do = "release" => s = Release
BY Zenon DEF StepSet, DoNames, Release

\* Another hart assigned, another fact known.
LEMMA NewFact ==
    ASSUME NEW w \in Local, NEW o \in Owner, NEW f \in Facts, Guarded(w),
           f.kind # "nothing" => HasCd(w.stack),
           f.kind = "executable" => Has(w.stack, VmLock(f.vm)),
           f.kind = "shutdown" => Has(w.stack, CdWrite),
           NEW x, x = L(w.stack, o, f)
    PROVE  /\ x \in Local /\ x.stack = w.stack /\ x.own = o /\ x.fact = f /\ Guarded(x)
<1>1. w.stack \in Seq(LockSet)
  BY LocalFields, Zenon
<1>2. x \in Local /\ x.stack = w.stack /\ x.own = o /\ x.fact = f
  BY <1>1, IsLocal
<1>. QED  BY <1>2, Zenon DEF Guarded

\* A trap.
LEMMA StartPreserves ==
    ASSUME Inv, NEW h \in HardwareHarts, Start(h)
    PROVE  Inv'
<1>1. Types /\ HartInv(h)
  BY Zenon DEF Inv
<1>2. ASSUME NEW steps, NEW o \in Owner, Call(h, steps), Path(Idle(Own(h)), steps, Idle(o))
      PROVE  Inv'
  <2>1. UNCHANGED <<data, held>>
    BY <1>2, Zenon DEF Call
  <2>. QED  BY <2>1, <1>1, <1>2, Begins, OnlyTodo, Zenon
<1>3. NoOne \in Owner
  BY Zenon DEF Owner
<1>4. CASE hardware_hart[h] = None
  <2>1. Own(h) = NoOne
    BY <1>4, Zenon DEF Own
  <2>2. CASE promote_to_confidential_vm(h)
    BY <2>1, <2>2, <1>2, <1>3, PathPromote, Zenon DEF promote_to_confidential_vm
  <2>3. ASSUME NEW v \in VmIds, terminate_confidential_vm(h, v) PROVE Inv'
    BY <2>1, <2>3, <1>2, <1>3, PathRemove, Zenon DEF terminate_confidential_vm
  <2>4. ASSUME NEW v \in VmIds, NEW c \in HartIds, resume_confidential_hart(h, v, c) PROVE Inv'
    <3>1. Id(v, c) \in Owner
      BY OwnerIds, Zenon
    <3>. QED  BY <2>1, <2>4, <3>1, <1>2, PathResume, Zenon DEF resume_confidential_hart
  <2>. QED  BY <2>2, <2>3, <2>4, <1>4, Zenon DEF Start, interrupt, sbi_hsm_hart_start, sbi_hsm_hart_stop,
                sbi_hsm_hart_suspend, sbi_hsm_hart_status, sbi_srst
<1>5. CASE hardware_hart[h] # None
  <2>1. PICK v, c : v = hardware_hart[h].vm /\ c = hardware_hart[h].hart
    BY Zenon
  <2>2. v \in VmIds /\ c \in HartIds /\ Own(h) = Id(v, c)
    BY <2>1, <1>1, <1>5, Zenon DEF Types, Assignments, AssignedHart, Own
  <2>3. ASSUME NEW ssip \in BOOLEAN, interrupt(h, ssip) PROVE Inv'
    <3>1. CASE ssip
      <4>1. Call(h, process_inter_hart_requests(v, c) \o <<Do("after_requests", v, c)>>)
        BY <2>1, <2>3, <3>1, Zenon DEF interrupt
      <4>. QED  BY <4>1, <2>2, <1>2, <1>3, PathInterrupt, Zenon
    <3>2. CASE ~ssip
      <4>1. Call(h, return_confidential_hart(v, c))
        BY <2>1, <2>3, <3>2, Zenon DEF interrupt
      <4>. QED  BY <4>1, <2>2, <1>2, <1>3, PathInterrupt, Zenon
    <3>. QED  BY <3>1, <3>2, Zenon
  <2>4. ASSUME NEW target \in HartIds, sbi_hsm_hart_start(h, target) PROVE Inv'
    <3>1. Call(h, try_confidential_vm(v, "find", <<Do("transit_to_start_pending", v, target)>>)
                  \o return_confidential_hart(v, c))
      BY <2>1, <2>4, Zenon DEF sbi_hsm_hart_start
    <3>. QED  BY <3>1, <2>2, <1>2, <1>3, PathHartStart, Zenon
  <2>5. CASE sbi_srst(h)
    <3>1. Call(h, broadcast_inter_hart_request(v, c) \o shutdown_confidential_hart(v, c))
      BY <2>1, <2>5, Zenon DEF sbi_srst
    <3>. QED  BY <3>1, <2>2, <1>2, <1>3, PathReset, Zenon
  <2>6. CASE sbi_hsm_hart_stop(h)
    <3>1. Call(h, <<Do("transition_from_started_to_stopped", v, c)>> \o return_confidential_hart(v, c))
      BY <2>1, <2>6, Zenon DEF sbi_hsm_hart_stop
    <3>. QED  BY <3>1, <2>2, <1>2, <1>3, PathHalt, Zenon DEF OwnTransitions
  <2>7. CASE sbi_hsm_hart_suspend(h)
    <3>1. Call(h, <<Do("transition_from_started_to_suspended", v, c)>> \o return_confidential_hart(v, c))
      BY <2>1, <2>7, Zenon DEF sbi_hsm_hart_suspend
    <3>. QED  BY <3>1, <2>2, <1>2, <1>3, PathHalt, Zenon DEF OwnTransitions
  <2>8. CASE sbi_hsm_hart_status(h)
    <3>1. Call(h, try_confidential_vm(v, "find", <<>>))
      BY <2>1, <2>8, Zenon DEF sbi_hsm_hart_status
    <3>2. Id(v, c) \in Owner
      BY <2>2, OwnerIds, Zenon
    <3>. QED  BY <3>1, <3>2, <2>2, <1>2, PathStatus, Zenon
  <2>. QED  BY <2>3, <2>4, <2>5, <2>6, <2>7, <2>8, <1>5, Zenon DEF Start, promote_to_confidential_vm,
                terminate_confidential_vm, resume_confidential_hart
<1>. QED  BY <1>4, <1>5, Zenon

\* A guard is taken: no other hart holds one that excludes it.
LEMMA AcquirePreserves ==
    ASSUME Inv, NEW h \in HardwareHarts, acquire(h)
    PROVE  Inv'
<1>1. Types /\ HartInv(h) /\ Exclusion
  BY Zenon DEF Inv
<1>2. /\ todo[h] # <<>> /\ Head(todo[h]).do = "acquire" /\ Blockers(h) = {}
      /\ held' = [held EXCEPT ![h] = Append(@, Head(todo[h]).lock)]
      /\ Then(h, <<>>) /\ UNCHANGED data
  BY Zenon DEF acquire, At
<1>3. PICK w, x, e : /\ w \in Local /\ x \in Local /\ HartNow(h, w, e) /\ Head(todo[h]) \in StepSet
                     /\ Trans(w, Head(todo[h]), x) /\ Path(x, Tail(todo[h]), e)
  BY <1>1, <1>2, AtStep, Zenon
<1>4. PICK l : l = Head(todo[h]).lock
  BY Zenon
<1>5. l \in LockSet
  BY <1>2, <1>3, <1>4, StepFields, SMTT(30)
<1>6. Above(w.stack, l) /\ x = Push(w, l)
  BY <1>2, <1>3, <1>4, Zenon DEF Trans, Push
<1>7. /\ e.stack = <<>> /\ w.stack = held[h] /\ w.own = Own(h)
      /\ FactHolds(w.fact) /\ Guarded(w)
  BY <1>3, Zenon DEF HartNow
<1>8. Guarded(x) /\ x.own = w.own /\ x.fact = w.fact
  BY <1>3, <1>5, <1>6, <1>7, GuardedPush, PushFields, Zenon
<1>9. PICK st : st = Append(held[h], l)
  BY Zenon
<1>10. x.stack = st /\ st \in Seq(LockSet)
  <2>1. w.own \in Owner /\ w.fact \in Facts /\ w.stack \in Seq(LockSet)
    BY <1>3, LocalFields, Zenon
  <2>2. st \in Seq(LockSet)
    BY <2>1, <1>5, <1>7, <1>9
  <2>3. L(st, w.own, w.fact).stack = st
    BY <2>1, <2>2, IsLocal
  <2>. QED  BY <2>2, <2>3, <1>6, <1>7, <1>9, Zenon DEF Push
<1>11. /\ held' \in [HardwareHarts -> Seq(LockSet)] /\ held'[h] = st
       /\ \A g \in HardwareHarts : g # h => held'[g] = held[g]
  <2>1. held' = [held EXCEPT ![h] = st]
    BY <1>2, <1>4, <1>9, Zenon
  <2>. QED  BY <2>1, <1>1, <1>10, Zenon DEF Types
<1>12. /\ confidential_vms' = confidential_vms /\ inter_hart_requests' = inter_hart_requests
       /\ hardware_hart' = hardware_hart
  BY <1>2, Zenon DEF data
<1>13. FactHolds(x.fact)' /\ \A g : Own(g)' = Own(g)
  BY <1>7, <1>8, <1>12, ZenonT(60) DEF FactHolds, Own
<1>14. /\ HartInv(h)' /\ todo' \in [HardwareHarts -> Seq(StepSet)]
       /\ \A g \in HardwareHarts : g # h => todo'[g] = todo[g]
  <2>1. x.stack = held'[h] /\ x.own = Own(h)'
    BY <1>7, <1>8, <1>10, <1>11, <1>13, Zenon
  <2>. QED  BY <2>1, <1>1, <1>2, <1>3, <1>7, <1>8, <1>13, GoesOnAt, SMTT(30)
<1>15. Types' /\ Ownership'
  BY <1>11, <1>12, <1>14, Zenon DEF Inv, Types, Ownership
<1>16. ASSUME NEW g \in HardwareHarts, g # h PROVE HartInv(g)'
  <2>1. HartInv(g)
    BY Zenon DEF Inv
  <2>. QED  BY <2>1, <1>11, <1>12, <1>13, <1>14, <1>16, OtherSame, Zenon
<1>17. ASSUME NEW g \in HardwareHarts, g # h, NEW i \in DOMAIN held[g] PROVE ~Conflict(held[g][i], l)
  BY <1>2, <1>4, <1>17, Zenon DEF Blockers
<1>18. ASSUME NEW g \in HardwareHarts, g # h, NEW i \in DOMAIN held[g], NEW j \in DOMAIN st
       PROVE  ~Conflict(held[g][i], st[j]) /\ ~Conflict(st[j], held[g][i])
  <2>1. /\ Len(st) = Len(held[h]) + 1 /\ Len(held[h]) \in Nat
        /\ \A k \in 1 .. Len(held[h]) : st[k] = held[h][k]
        /\ st[Len(held[h]) + 1] = l
        /\ DOMAIN st = 1 .. (Len(held[h]) + 1) /\ DOMAIN held[h] = 1 .. Len(held[h])
    <3>1. held[h] \in Seq(LockSet)
      BY <1>1, Zenon DEF Types
    <3>. QED  BY <3>1, <1>5, <1>9, <1>10, OnTop
  <2>2. ~Conflict(held[g][i], st[j])
    <3>1. CASE j \in 1 .. Len(held[h])
      <4>1. st[j] = held[h][j] /\ j \in DOMAIN held[h]
        BY <3>1, <2>1, Zenon
      <4>. QED  BY <4>1, <1>1, <1>18, Zenon DEF Exclusion
    <3>2. CASE j = Len(held[h]) + 1
      BY <3>2, <2>1, <1>17, <1>18, Zenon
    <3>. QED  BY <3>1, <3>2, <2>1
  <2>. QED  BY <2>2, Zenon DEF Conflict
<1>19. Exclusion'
  <2>. SUFFICES ASSUME NEW f \in HardwareHarts, NEW g \in HardwareHarts, f # g,
                       NEW i \in DOMAIN held'[f], NEW j \in DOMAIN held'[g]
                PROVE  ~Conflict(held'[f][i], held'[g][j])
    BY Zenon DEF Exclusion, Conflict
  <2>1. CASE f = h
    BY <2>1, <1>11, <1>18, Zenon
  <2>2. CASE g = h
    BY <2>2, <1>11, <1>18, Zenon
  <2>3. CASE f # h /\ g # h
    <3>1. held'[f] = held[f] /\ held'[g] = held[g]
      BY <2>3, <1>11, Zenon
    <3>. QED  BY <3>1, <1>1, Zenon DEF Exclusion
  <2>. QED  BY <2>1, <2>2, <2>3, Zenon
<1>. QED  BY <1>14, <1>15, <1>16, <1>19, Zenon DEF Inv

\* A guard is dropped.
LEMMA ReleasePreserves ==
    ASSUME Inv, NEW h \in HardwareHarts, release(h)
    PROVE  Inv'
<1>1. Types /\ HartInv(h) /\ Exclusion
  BY Zenon DEF Inv
<1>2. /\ todo[h] # <<>> /\ Head(todo[h]).do = "release"
      /\ held' = [held EXCEPT ![h] = SubSeq(@, 1, Len(@) - 1)]
      /\ Then(h, <<>>)
  BY Zenon DEF release, At
<1>3. /\ confidential_vms' = confidential_vms /\ inter_hart_requests' = inter_hart_requests
      /\ hardware_hart' = hardware_hart
  BY Zenon DEF release, data
<1>4. PICK w, x, e :
        /\ w \in Local /\ HartNow(h, w, e)
        /\ Head(todo[h]) \in StepSet /\ Trans(w, Head(todo[h]), x) /\ Path(x, Tail(todo[h]), e)
  BY <1>1, <1>2, AtStep, Zenon
<1>5. e.stack = <<>> /\ w.stack = held[h] /\ w.own = Own(h) /\ FactHolds(w.fact) /\ Guarded(w)
  BY <1>4, SMTT(30) DEF HartNow
<1>6. w.stack # <<>> /\ w.fact.kind # "executable" /\ x = Dropped(w, 1)
  BY <1>2, <1>4, Zenon DEF Trans
<1>7. 1 \in 1 .. Len(w.stack)
  BY <1>4, <1>6, LocalFields, Empty
<1>8. Guarded(x)
  BY <1>4, <1>5, <1>6, <1>7, GuardedDrop, Zenon
<1>9. /\ x.stack = SubSeq(w.stack, 1, Len(w.stack) - 1) /\ x.stack \in Seq(LockSet)
      /\ Len(x.stack) = Len(w.stack) - 1
      /\ \A i \in 1 .. (Len(w.stack) - 1) : x.stack[i] = w.stack[i]
      /\ x.own = w.own /\ x.fact = IF 1 < Len(w.stack) THEN w.fact ELSE Nothing
  BY <1>4, <1>6, <1>7, DroppedLocal, Zenon
<1>10. /\ held' \in [HardwareHarts -> Seq(LockSet)] /\ held'[h] = x.stack
       /\ \A g \in HardwareHarts : g # h => held'[g] = held[g]
  <2>1. PICK st : st = x.stack
    BY Zenon
  <2>2. st = SubSeq(held[h], 1, Len(held[h]) - 1) /\ st \in Seq(LockSet)
    BY <2>1, <1>5, <1>9, Zenon
  <2>3. held' = [held EXCEPT ![h] = st]
    BY <2>2, <1>2, Zenon
  <2>. QED  BY <2>1, <2>2, <2>3, <1>1, Zenon DEF Types
<1>11. FactHolds(x.fact)' /\ \A g : Own(g)' = Own(g)
  <2>1. FactHolds(w.fact)' /\ \A g : Own(g)' = Own(g)
    BY <1>3, <1>5, Zenon DEF FactHolds, Own
  <2>2. FactHolds(Nothing)'
    BY Zenon DEF FactHolds, Nothing
  <2>. QED  BY <2>1, <2>2, <1>9, Zenon
<1>12. /\ HartInv(h)' /\ todo' \in [HardwareHarts -> Seq(StepSet)]
       /\ \A g \in HardwareHarts : g # h => todo'[g] = todo[g]
  <2>1. x.stack = held'[h] /\ x.own = Own(h)'
    BY <1>5, <1>9, <1>10, <1>11, Zenon
  <2>. QED  BY <2>1, <1>1, <1>2, <1>4, <1>5, <1>8, <1>11, GoesOnAt, Zenon
<1>13. Types' /\ Ownership'
  BY <1>3, <1>10, <1>12, Zenon DEF Inv, Types, Ownership
<1>14. ASSUME NEW g \in HardwareHarts, g # h PROVE HartInv(g)'
  <2>1. HartInv(g)
    BY Zenon DEF Inv
  <2>. QED  BY <2>1, <1>3, <1>10, <1>11, <1>12, <1>14, OtherSame, ZenonT(60)
<1>15. \A j \in DOMAIN x.stack : j \in DOMAIN held[h] /\ x.stack[j] = held[h][j]
  <2>1. DOMAIN x.stack = 1 .. Len(x.stack) /\ DOMAIN w.stack = 1 .. Len(w.stack) /\ Len(w.stack) \in Nat
    BY <1>4, <1>9, LocalFields, Lengths, Zenon
  <2>. QED  BY <2>1, <1>5, <1>9
<1>16. Exclusion'
  <2>. SUFFICES ASSUME NEW f \in HardwareHarts, NEW g \in HardwareHarts, f # g,
                       NEW i \in DOMAIN held'[f], NEW j \in DOMAIN held'[g]
                PROVE  ~Conflict(held'[f][i], held'[g][j])
    BY Zenon DEF Exclusion, Conflict
  <2>1. i \in DOMAIN held[f] /\ held'[f][i] = held[f][i]
    BY <1>10, <1>15, Zenon
  <2>2. j \in DOMAIN held[g] /\ held'[g][j] = held[g][j]
    BY <1>10, <1>15, Zenon
  <2>. QED  BY <2>1, <2>2, <1>1, Zenon DEF Exclusion
<1>. QED  BY <1>12, <1>13, <1>14, <1>16, Zenon DEF Inv

\* The steps that establish a fact, or end the operation with an error.
LEMMA CheckPreserves ==
    ASSUME Inv, NEW h \in HardwareHarts,
           find(h) \/ find_or_panic(h) \/ is_executable(h) \/ are_all_harts_shutdown(h)
    PROVE  Inv'
<1>1. Types /\ HartInv(h) /\ Ownership
  BY Zenon DEF Inv
<1>2. PICK s : s = Head(todo[h])
  BY Zenon
<1>3. /\ todo[h] # <<>> /\ UNCHANGED <<data, held>>
      /\ s.do \in {"find", "find_or_panic", "is_executable", "are_all_harts_shutdown"}
  BY <1>2, Zenon DEF find, find_or_panic, is_executable, are_all_harts_shutdown, Check, At
<1>4. PICK w, x, e : /\ w \in Local /\ x \in Local /\ HartNow(h, w, e) /\ s \in StepSet
                     /\ Trans(w, s, x) /\ Path(x, Tail(todo[h]), e)
  BY <1>1, <1>2, <1>3, AtStep, Zenon
<1>5. /\ e.stack = <<>> /\ w.stack = held[h] /\ w.own = Own(h)
      /\ FactHolds(w.fact) /\ Guarded(w)
  BY <1>4, Zenon DEF HartNow
<1>6. s.vm \in VmIds /\ s.hart \in HartIds
  BY <1>3, <1>4, StepFields, Zenon DEF DoNames
<1>7. held' = held /\ Own(h)' = Own(h) /\ w.own \in Owner
  BY <1>3, <1>4, LocalFields, Zenon DEF data, Own
<1>8. ASSUME NEW f \in Facts, FactHolds(f), Then(h, <<>>), x = L(w.stack, w.own, f),
             HasCd(w.stack),
             f.kind = "executable" => Has(w.stack, VmLock(f.vm)),
             f.kind = "shutdown" => Has(w.stack, CdWrite)
      PROVE  Inv'
  <2>1. x.stack = w.stack /\ x.own = w.own /\ x.fact = f /\ Guarded(x)
    BY <1>4, <1>5, <1>7, <1>8, NewFact, SMTT(30)
  <2>2. FactHolds(x.fact)'
    BY <2>1, <1>3, <1>8, Zenon DEF FactHolds, data
  <2>3. x.stack = held'[h] /\ x.own = Own(h)'
    BY <2>1, <1>5, <1>7, SMTT(60)
  <2>4. /\ HartInv(h)' /\ todo' \in [HardwareHarts -> Seq(StepSet)]
        /\ \A g \in HardwareHarts : g # h => todo'[g] = todo[g]
    BY <2>1, <2>2, <2>3, <1>1, <1>4, <1>5, <1>8, GoesOnAt, SMTT(30)
  <2>. QED  BY <2>4, <1>3, OnlyTodo, ZenonT(60)
<1>9. ASSUME Fail(h) PROVE Inv'
  <2>1. /\ HartInv(h)' /\ todo' \in [HardwareHarts -> Seq(StepSet)]
        /\ \A g \in HardwareHarts : g # h => todo'[g] = todo[g]
    BY <1>1, <1>7, <1>9, Fails, ZenonT(60)
  <2>. QED  BY <2>1, <1>3, OnlyTodo, Zenon
<1>10. /\ ExistsFact(s.vm) \in Facts /\ ExistsFact(s.vm).kind = "exists"
       /\ ExistsFact(s.vm).vm = s.vm
       /\ ExecutableFact(s.vm, s.hart) \in Facts
       /\ ExecutableFact(s.vm, s.hart).kind = "executable"
       /\ ExecutableFact(s.vm, s.hart).vm = s.vm /\ ExecutableFact(s.vm, s.hart).hart = s.hart
       /\ ShutdownFact(s.vm) \in Facts /\ ShutdownFact(s.vm).kind = "shutdown"
       /\ ShutdownFact(s.vm).vm = s.vm
  BY <1>6, AreFacts
<1>11. CASE find(h)
  <2>1. s.do = "find" /\ IF Exists(s.vm, s.hart) THEN Then(h, <<>>) ELSE Fail(h)
    BY <1>2, <1>11, SMTT(30) DEF find, Check, At
  <2>2. x = L(w.stack, w.own, ExistsFact(s.vm)) /\ HasCd(w.stack)
    BY <2>1, <1>4, ZenonT(60) DEF Trans
  <2>3. CASE Exists(s.vm, s.hart)
    <3>1. FactHolds(ExistsFact(s.vm))
      BY <2>3, <1>10, Zenon DEF FactHolds, Exists
    <3>. QED  BY <3>1, <2>1, <2>2, <2>3, <1>8, <1>10, SMTT(30)
  <2>. QED  BY <2>1, <2>3, <1>9, Zenon
<1>12. CASE find_or_panic(h)
  <2>1. s.do = "find_or_panic"
    BY <1>2, <1>12, SMTT(30) DEF find_or_panic, At
  <2>2. /\ x = L(w.stack, w.own, ExistsFact(s.vm)) /\ HasCd(w.stack)
        /\ w.own # NoOne /\ w.own.vm = s.vm
    BY <2>1, <1>4, ZenonT(60) DEF Trans
  <2>3. s.vm \in DOMAIN confidential_vms
    <3>1. hardware_hart[h] # None /\ Own(h) = Id(hardware_hart[h].vm, hardware_hart[h].hart)
      BY <2>2, <1>5, SMTT(60) DEF Own
    <3>2. hardware_hart[h].vm = s.vm
      BY <3>1, <2>2, <1>5, SMTT(30) DEF Id
    <3>. QED  BY <3>1, <3>2, <1>1, SMTT(30) DEF Ownership, OwnershipOf
  <2>4. FactHolds(ExistsFact(s.vm))
    BY <2>3, <1>10, Zenon DEF FactHolds
  <2>5. Then(h, <<>>)
    <3>1. todo' = [todo EXCEPT ![h] = Tail(todo[h])]
      BY <2>3, <1>1, <1>2, <1>12, Zenon DEF find_or_panic, Exists, Types
    <3>2. <<>> \o Tail(todo[h]) = Tail(todo[h])
      <4>1. PICK r : r = Tail(todo[h])
        BY Zenon
      <4>2. r \in Seq(StepSet)
        BY <4>1, <1>4, PathEnds, Zenon
      <4>. QED  BY <4>1, <4>2
    <3>. QED  BY <3>1, <3>2, Zenon DEF Then
  <2>. QED  BY <2>2, <2>4, <2>5, <1>8, <1>10, ZenonT(60)
<1>13. CASE is_executable(h)
  <2>1. s.do = "is_executable" /\ IF Executable(s.vm, s.hart) THEN Then(h, <<>>) ELSE Fail(h)
    BY <1>2, <1>13, SMTT(30) DEF is_executable, Check, At
  <2>2. /\ x = L(w.stack, w.own, ExecutableFact(s.vm, s.hart))
        /\ HasCd(w.stack) /\ Has(w.stack, VmLock(s.vm)) /\ w.fact = ExistsFact(s.vm)
    BY <2>1, <1>4, ZenonT(60) DEF Trans
  <2>3. CASE Executable(s.vm, s.hart)
    <3>1. FactHolds(ExecutableFact(s.vm, s.hart))
      BY <2>2, <2>3, <1>5, <1>10, Zenon DEF FactHolds, Executable
    <3>. QED  BY <3>1, <2>1, <2>2, <2>3, <1>8, <1>10, SMTT(30)
  <2>. QED  BY <2>1, <2>3, <1>9, ZenonT(60)
<1>14. CASE are_all_harts_shutdown(h)
  <2>1. /\ s.do = "are_all_harts_shutdown"
        /\ IF AllShutdown(s.vm, s.hart) THEN Then(h, <<>>) ELSE Fail(h)
    BY <1>2, <1>14, SMTT(30) DEF are_all_harts_shutdown, Check, At
  <2>2. /\ x = L(w.stack, w.own, ShutdownFact(s.vm))
        /\ Has(w.stack, CdWrite) /\ w.fact = ExistsFact(s.vm)
    BY <2>1, <1>4, Zenon DEF Trans
  <2>3. CASE AllShutdown(s.vm, s.hart)
    <3>1. FactHolds(ShutdownFact(s.vm))
      BY <2>2, <2>3, <1>5, <1>10, Zenon DEF FactHolds, AllShutdown
    <3>2. HasCd(w.stack)
      BY <2>2, Zenon DEF HasCd
    <3>. QED  BY <3>1, <3>2, <2>1, <2>2, <2>3, <1>8, <1>10, Zenon
  <2>. QED  BY <2>1, <2>3, <1>9, Zenon
<1>. QED  BY <1>11, <1>12, <1>13, <1>14, Zenon

\* The steps that only decide what is left to do.
LEMMA DecidePreserves ==
    ASSUME Inv, NEW h \in HardwareHarts, after_requests(h) \/ send_ipi(h)
    PROVE  Inv'
<1>1. Types /\ HartInv(h)
  BY Zenon DEF Inv
<1>2. PICK s : s = Head(todo[h])
  BY Zenon
<1>3. todo[h] # <<>> /\ UNCHANGED <<data, held>> /\ s.do \in {"after_requests", "send_ipi"}
  BY <1>2, Zenon DEF after_requests, send_ipi, At
<1>4. PICK w, x, e : /\ w \in Local /\ x \in Local /\ HartNow(h, w, e) /\ s \in StepSet
                     /\ Trans(w, s, x) /\ Path(x, Tail(todo[h]), e)
  BY <1>1, <1>2, <1>3, AtStep, Zenon
<1>5. /\ e.stack = <<>> /\ w.stack = held[h] /\ w.own = Own(h)
      /\ FactHolds(w.fact) /\ Guarded(w)
  BY <1>4, Zenon DEF HartNow
<1>6. s.vm \in VmIds /\ s.hart \in HartIds
  BY <1>3, <1>4, StepFields, SMTT(30) DEF DoNames
<1>7. held' = held /\ Own(h)' = Own(h) /\ FactHolds(w.fact)'
  BY <1>3, <1>5, Zenon DEF data, Own, FactHolds
<1>8. ASSUME NEW more, Path(w, more, x), Then(h, more) PROVE Inv'
  <2>1. w.stack = held'[h] /\ w.own = Own(h)'
    BY <1>5, <1>7, SMTT(30)
  <2>2. /\ HartInv(h)' /\ todo' \in [HardwareHarts -> Seq(StepSet)]
        /\ \A g \in HardwareHarts : g # h => todo'[g] = todo[g]
    BY <2>1, <1>1, <1>4, <1>5, <1>7, <1>8, GoesOn, Zenon
  <2>. QED  BY <2>2, <1>3, OnlyTodo, Zenon
<1>9. CASE after_requests(h)
  <2>1. PICK v, c : v = s.vm /\ c = s.hart
    BY SMTT(30)
  <2>2. /\ s.do = "after_requests"
        /\ Then(h, IF hardware_hart[h].state = "Shutdown"
                   THEN shutdown_confidential_hart(v, c) ELSE return_confidential_hart(v, c))
    BY <2>1, <1>2, <1>9, Zenon DEF after_requests, At
  <2>3. /\ w.stack = <<>> /\ w.fact = Nothing /\ w.own = Id(v, c)
        /\ x = L(<<>>, NoOne, Nothing)
    BY <2>1, <2>2, <1>4, Zenon DEF Trans
  <2>4. w = Idle(Id(v, c)) /\ x = Idle(NoOne)
    BY <2>3, <1>4, LocalFields, Zenon DEF Idle
  <2>5. /\ Path(w, shutdown_confidential_hart(v, c), x)
        /\ Path(w, return_confidential_hart(v, c), x)
    BY <2>1, <2>4, <1>6, PathShutdown, PathReturn, Zenon
  <2>. QED  BY <2>2, <2>5, <1>8, Zenon
<1>10. CASE send_ipi(h)
  <2>1. s.do = "send_ipi" /\ (Then(h, <<>>) \/ Fail(h))
    BY <1>2, <1>10, SMTT(30) DEF send_ipi, At
  <2>2. x = w
    BY <2>1, <1>4, Zenon DEF Trans
  <2>3. CASE Then(h, <<>>)
    BY <2>2, <2>3, <1>4, <1>8, PathNil, Zenon
  <2>4. CASE Fail(h)
    <3>1. /\ HartInv(h)' /\ todo' \in [HardwareHarts -> Seq(StepSet)]
          /\ \A g \in HardwareHarts : g # h => todo'[g] = todo[g]
      BY <2>4, <1>1, <1>7, Fails, Zenon
    <3>. QED  BY <3>1, <1>3, OnlyTodo, Zenon
  <2>. QED  BY <2>1, <2>3, <2>4, Zenon
<1>. QED  BY <1>9, <1>10, Zenon

\* The hardware harts keep their confidential harts.
SameOwners ==
    /\ hardware_hart' \in [HardwareHarts -> Assignments]
    /\ \A g \in HardwareHarts :
          /\ (hardware_hart'[g] = None) <=> (hardware_hart[g] = None)
          /\ hardware_hart[g] # None => /\ hardware_hart'[g].vm = hardware_hart[g].vm
                                        /\ hardware_hart'[g].hart = hardware_hart[g].hart

\* The lifecycle state of a hart that runs is with its hardware hart.
LEMMA NewState ==
    ASSUME Types, NEW h \in HardwareHarts, hardware_hart[h] # None, NEW q \in HartStates,
           hardware_hart' = [hardware_hart EXCEPT ![h].state = q]
    PROVE  /\ SameOwners /\ hardware_hart'[h].state = q
           /\ \A g \in HardwareHarts : g # h => hardware_hart'[g] = hardware_hart[g]
<1>1. hardware_hart \in [HardwareHarts -> Assignments] /\ hardware_hart[h] \in AssignedHart
  BY Zenon DEF Types, Assignments
<1>2. PICK a, b : a = hardware_hart[h] /\ b = [a EXCEPT !.state = q]
  BY Zenon
<1>3. b \in AssignedHart /\ b.vm = a.vm /\ b.hart = a.hart /\ b.state = q
  BY <1>1, <1>2, Zenon DEF AssignedHart
<1>4. b # None /\ b \in Assignments
  BY <1>3, LocksAssumption, Zenon DEF Assignments
<1>5. hardware_hart' = [hardware_hart EXCEPT ![h] = b]
  BY <1>1, <1>2, Zenon
<1>6. /\ hardware_hart' \in [HardwareHarts -> Assignments] /\ hardware_hart'[h] = b
      /\ \A g \in HardwareHarts : g # h => hardware_hart'[g] = hardware_hart[g]
  BY <1>1, <1>4, <1>5, Zenon
<1>. QED  BY <1>2, <1>3, <1>4, <1>6, Zenon DEF SameOwners

\* A step that leaves the map, the guards and the assignments alone.
LEMMA OnlyState ==
    ASSUME Inv, NEW h \in HardwareHarts, SameOwners,
           confidential_vms' = confidential_vms, held' = held,
           inter_hart_requests' \in [DOMAIN confidential_vms -> [HartIds -> Nat]], HartInv(h)',
           todo' \in [HardwareHarts -> Seq(StepSet)],
           \A g \in HardwareHarts : g # h => todo'[g] = todo[g]
    PROVE  Inv'
<1>2. Types'
  BY Zenon DEF Inv, Types, SameOwners
<1>0. PICK A, H, K : A = confidential_vms /\ H = hardware_hart /\ K = hardware_hart'
  BY Zenon
<1>1. OwnershipOf(A, H) /\ \A g \in HardwareHarts :
          /\ (K[g] = None) <=> (H[g] = None)
          /\ H[g] # None => K[g].vm = H[g].vm /\ K[g].hart = H[g].hart
  BY <1>0, Zenon DEF Inv, SameOwners, Ownership
<1>3. Ownership'
  <2>1. \A g \in HardwareHarts : K[g] # None =>
           K[g].vm \in DOMAIN A /\ A[K[g].vm][K[g].hart] = None
    BY <1>1 DEF OwnershipOf
  <2>2. \A f, g \in HardwareHarts : f # g /\ K[f] # None /\ K[g] # None =>
           ~(K[f].vm = K[g].vm /\ K[f].hart = K[g].hart)
    <3>. SUFFICES ASSUME NEW f \in HardwareHarts, NEW g \in HardwareHarts,
                         f # g, K[f] # None, K[g] # None
                  PROVE  ~(K[f].vm = K[g].vm /\ K[f].hart = K[g].hart)
      BY Zenon
    <3>1. H[f] # None /\ H[g] # None
      BY <1>1, Zenon
    <3>2. ~(H[f].vm = H[g].vm /\ H[f].hart = H[g].hart)
      BY <3>1, <1>1, Zenon DEF OwnershipOf
    <3>. QED  BY <3>1, <3>2, <1>1, Zenon
  <2>3. \A v \in DOMAIN A, c \in HartIds : A[v][c] = None =>
           \E g \in HardwareHarts : K[g] # None /\ K[g].vm = v /\ K[g].hart = c
    <3>. SUFFICES ASSUME NEW v \in DOMAIN A, NEW c \in HartIds, A[v][c] = None
                  PROVE  \E g \in HardwareHarts : K[g] # None /\ K[g].vm = v /\ K[g].hart = c
      BY Zenon
    <3>1. PICK g \in HardwareHarts : H[g] # None /\ H[g].vm = v /\ H[g].hart = c
      BY <1>1, ZenonT(60) DEF OwnershipOf
    <3>. QED  BY <3>1, <1>1, Zenon
  <2>4. OwnershipOf(A, K)
    BY <2>1, <2>2, <2>3, Zenon DEF OwnershipOf
  <2>. QED  BY <2>4, <1>0, Zenon DEF Ownership
<1>4. Exclusion'
  BY Zenon DEF Inv, Exclusion
<1>5. ASSUME NEW g \in HardwareHarts, g # h PROVE HartInv(g)'
  <2>1. HartInv(g) /\ todo'[g] = todo[g] /\ held'[g] = held[g]
    BY <1>5, Zenon DEF Inv
  <2>2. Own(g)' = Own(g)
    BY SMTT(30) DEF Own, SameOwners
  <2>. QED  BY <2>1, <2>2, OtherSame, Zenon
<1>. QED  BY <1>2, <1>3, <1>4, <1>5, Zenon DEF Inv

\* The steps that change the lifecycle state of the hart that runs, or a queue.
LEMMA StatePreserves ==
    ASSUME Inv, NEW h \in HardwareHarts,
           \/ drain(h) \/ take_request(h) \/ transition_to_shutdown(h) \/ push(h)
           \/ transition_from_started_to_stopped(h) \/ transition_from_started_to_suspended(h)
    PROVE  Inv'
<1>1. Types /\ HartInv(h) /\ Ownership
  BY Zenon DEF Inv
<1>2. PICK s : s = Head(todo[h])
  BY Zenon
<1>3. /\ todo[h] # <<>> /\ held' = held /\ confidential_vms' = confidential_vms
      /\ s.do \in {"drain", "take_request", "push"} \cup OwnTransitions
  BY <1>2, Zenon DEF drain, take_request, transition_to_shutdown, transition_from_started_to_stopped,
     transition_from_started_to_suspended, transition_from_started, push, At, OwnTransitions
<1>4. PICK w, x, e : /\ w \in Local /\ x \in Local /\ HartNow(h, w, e) /\ s \in StepSet
                     /\ Trans(w, s, x) /\ Path(x, Tail(todo[h]), e)
  BY <1>1, <1>2, <1>3, AtStep, ZenonT(60)
<1>5. /\ e.stack = <<>> /\ w.stack = held[h] /\ w.own = Own(h)
      /\ FactHolds(w.fact) /\ Guarded(w)
  BY <1>4, Zenon DEF HartNow
<1>6. s.vm \in VmIds /\ s.hart \in HartIds
  BY <1>3, <1>4, StepFields, SMTT(30) DEF DoNames, OwnTransitions
<1>7. x = w /\ FactHolds(w.fact)'
  <2>1. x = w
    <3>1. CASE s.do \in {"drain", "take_request", "push"}
      BY <3>1, <1>4, Zenon DEF Trans
    <3>2. CASE s.do \in OwnTransitions
      BY <3>2, <1>4, Zenon DEF Trans, OwnTransitions
    <3>. QED  BY <3>1, <3>2, <1>3, Zenon
  <2>. QED  BY <2>1, <1>3, <1>5, SMTT(30) DEF FactHolds
<1>8. ASSUME NEW more, Path(w, more, w), Then(h, more), SameOwners,
             inter_hart_requests' \in [DOMAIN confidential_vms -> [HartIds -> Nat]]
      PROVE  Inv'
  <2>1. w.stack = held'[h] /\ w.own = Own(h)'
    BY <1>3, <1>5, <1>8, SMTT(30) DEF Own, SameOwners
  <2>2. /\ HartInv(h)' /\ todo' \in [HardwareHarts -> Seq(StepSet)]
        /\ \A g \in HardwareHarts : g # h => todo'[g] = todo[g]
    BY <2>1, <1>1, <1>4, <1>5, <1>7, <1>8, GoesOn, Zenon
  <2>. QED  BY <2>2, <1>3, <1>8, OnlyState, ZenonT(60)
<1>9. Path(w, <<>>, w)
  BY <1>4, PathNil, Zenon
<1>10. ASSUME w.own = Id(s.vm, s.hart) PROVE hardware_hart[h] # None /\ hardware_hart[h] \in AssignedHart
  <2>1. Own(h) # NoOne
    BY <1>5, <1>6, <1>10, OwnerIds
  <2>. QED  BY <2>1, <1>1, Zenon DEF Own, Types, Assignments
<1>11. inter_hart_requests \in [DOMAIN confidential_vms -> [HartIds -> Nat]]
  BY <1>1, Zenon DEF Types
<1>12. CASE drain(h)
  <2>1. PICK v, c : v = s.vm /\ c = s.hart
    BY Zenon
  <2>2. /\ s.do = "drain" /\ Then(h, <<>>)
        /\ hardware_hart' = [hardware_hart EXCEPT ![h].state =
                               IF inter_hart_requests[v][c] > 0 THEN "Shutdown" ELSE @]
        /\ inter_hart_requests' = [inter_hart_requests EXCEPT ![v][c] = 0]
    BY <2>1, <1>2, <1>12, Zenon DEF drain, At
  <2>3. w.own = Id(s.vm, s.hart)
    BY <2>2, <1>4, Zenon DEF Trans
  <2>4. inter_hart_requests' \in [DOMAIN confidential_vms -> [HartIds -> Nat]]
    BY <2>2, <1>11, Zenon
  <2>5. PICK q : q = IF inter_hart_requests[v][c] > 0 THEN "Shutdown" ELSE hardware_hart[h].state
    BY Zenon
  <2>6. hardware_hart[h] # None /\ hardware_hart[h] \in AssignedHart
    BY <2>3, <1>10, Zenon
  <2>7. q \in HartStates
    BY <2>5, <2>6, Zenon DEF AssignedHart, HartStates
  <2>8. hardware_hart' = [hardware_hart EXCEPT ![h].state = q]
    BY <2>2, <2>5, <1>1, Zenon DEF Types
  <2>9. SameOwners
    BY <2>6, <2>7, <2>8, <1>1, NewState, Zenon
  <2>. QED  BY <2>2, <2>4, <2>9, <1>8, <1>9, Zenon
<1>13. CASE take_request(h)
  <2>1. s.do = "take_request" /\ inter_hart_requests' = inter_hart_requests
    BY <1>2, <1>13, Zenon DEF take_request, At
  <2>2. w.own = Id(s.vm, s.hart) /\ w.stack = <<>> /\ w.fact = Nothing
    BY <2>1, <1>4, Zenon DEF Trans
  <2>3. hardware_hart[h] # None /\ hardware_hart[h] \in AssignedHart
    BY <2>2, <1>10, Zenon
  <2>4. CASE /\ hardware_hart' = [hardware_hart EXCEPT ![h].state =
                   IF @ = "StartPending" THEN "Started" ELSE @]
             /\ Then(h, <<>>)
    <3>1. PICK q : q = IF hardware_hart[h].state = "StartPending" THEN "Started"
                       ELSE hardware_hart[h].state
      BY Zenon
    <3>2. q \in HartStates
      BY <3>1, <2>3, Zenon DEF AssignedHart, HartStates
    <3>3. hardware_hart' = [hardware_hart EXCEPT ![h].state = q]
      BY <3>1, <2>4, <1>1, Zenon DEF Types
    <3>4. SameOwners
      BY <3>2, <3>3, <2>3, <1>1, NewState, Zenon
    <3>. QED  BY <3>4, <2>1, <2>4, <1>8, <1>9, <1>11, SMTT(30)
  <2>5. CASE Then(h, map_shared_page(s.vm)) /\ UNCHANGED hardware_hart
    <3>1. SameOwners
      BY <2>5, <1>1, Zenon DEF SameOwners, Types
    <3>2. w = Idle(w.own) /\ w.own \in Owner
      BY <2>2, <1>4, LocalFields, Zenon DEF Idle
    <3>3. Path(w, map_shared_page(s.vm), w)
      BY <3>2, <1>6, PathShare, Zenon
    <3>. QED  BY <3>1, <3>3, <2>1, <2>5, <1>8, <1>11, Zenon
  <2>. QED  BY <2>4, <2>5, <1>2, <1>13, Zenon DEF take_request
<1>14. CASE transition_to_shutdown(h)
  <2>1. /\ s.do = "transition_to_shutdown" /\ inter_hart_requests' = inter_hart_requests
        /\ Then(h, <<>>) /\ hardware_hart' = [hardware_hart EXCEPT ![h].state = "Shutdown"]
    BY <1>2, <1>14, Zenon DEF transition_to_shutdown, At
  <2>2. w.own = Id(s.vm, s.hart)
    BY <2>1, <1>4, Zenon DEF Trans
  <2>3. hardware_hart[h] # None /\ "Shutdown" \in HartStates
    BY <2>2, <1>10, Zenon DEF HartStates
  <2>4. SameOwners
    BY <2>1, <2>3, <1>1, NewState, Zenon
  <2>. QED  BY <2>1, <2>4, <1>8, <1>9, <1>11, Zenon
<1>15. CASE push(h)
  <2>1. PICK v, c : v = s.vm /\ c = s.hart
    BY Zenon
  <2>2. /\ s.do = "push" /\ hardware_hart' = hardware_hart
        /\ \/ /\ inter_hart_requests' = [inter_hart_requests EXCEPT ![v][c] = @ + 1]
              /\ Then(h, <<>>)
           \/ Fail(h) /\ inter_hart_requests' = inter_hart_requests
    BY <2>1, <1>2, <1>15, Zenon DEF push, At
  <2>3. SameOwners
    BY <2>2, <1>1, Zenon DEF SameOwners, Types
  <2>4. CASE Fail(h) /\ inter_hart_requests' = inter_hart_requests
    <3>1. Own(h)' = Own(h) /\ UNCHANGED <<data, held>>
      BY <2>2, <2>4, <1>3, Zenon DEF Own, data
    <3>2. /\ HartInv(h)' /\ todo' \in [HardwareHarts -> Seq(StepSet)]
          /\ \A g \in HardwareHarts : g # h => todo'[g] = todo[g]
      BY <3>1, <2>4, <1>1, <1>3, Fails, Zenon
    <3>. QED  BY <3>1, <3>2, OnlyTodo, Zenon
  <2>5. CASE inter_hart_requests' = [inter_hart_requests EXCEPT ![v][c] = @ + 1] /\ Then(h, <<>>)
    <3>1. w.fact = ExistsFact(v)
      BY <2>1, <2>2, <1>4, ZenonT(60) DEF Trans
    <3>2. v \in DOMAIN confidential_vms
      BY <3>1, <1>5, SMTT(30) DEF FactHolds, ExistsFact
    <3>3. inter_hart_requests' \in [DOMAIN confidential_vms -> [HartIds -> Nat]]
      BY <3>2, <2>1, <2>5, <1>6, <1>11, SMTT(30)
    <3>. QED  BY <3>3, <2>3, <2>5, <1>8, <1>9, SMTT(30)
  <2>. QED  BY <2>2, <2>4, <2>5, Zenon
<1>16. ASSUME NEW step \in OwnTransitions, NEW next \in HartStates, transition_from_started(h, step, next)
       PROVE  Inv'
  <2>1. /\ s.do = step /\ inter_hart_requests' = inter_hart_requests
        /\ \/ Then(h, <<>>) /\ hardware_hart' = [hardware_hart EXCEPT ![h].state = next]
           \/ Fail(h) /\ hardware_hart' = hardware_hart
    BY <1>2, <1>16, Zenon DEF transition_from_started, At
  <2>2. w.own = Id(s.vm, s.hart)
    BY <2>1, <1>4, Zenon DEF Trans, OwnTransitions
  <2>3. CASE Fail(h) /\ hardware_hart' = hardware_hart
    <3>1. Own(h)' = Own(h) /\ UNCHANGED <<data, held>>
      BY <2>1, <2>3, <1>3, Zenon DEF Own, data
    <3>2. /\ HartInv(h)' /\ todo' \in [HardwareHarts -> Seq(StepSet)]
          /\ \A g \in HardwareHarts : g # h => todo'[g] = todo[g]
      BY <3>1, <2>3, <1>1, <1>3, Fails, Zenon
    <3>. QED  BY <3>1, <3>2, OnlyTodo, Zenon
  <2>4. CASE Then(h, <<>>) /\ hardware_hart' = [hardware_hart EXCEPT ![h].state = next]
    <3>1. hardware_hart[h] # None
      BY <2>2, <1>10, Zenon
    <3>2. SameOwners
      BY <2>4, <3>1, <1>1, <1>16, NewState, Zenon
    <3>. QED  BY <2>1, <2>4, <3>2, <1>8, <1>9, <1>11, Zenon
  <2>. QED  BY <2>1, <2>3, <2>4, Zenon
<1>17. CASE transition_from_started_to_stopped(h) \/ transition_from_started_to_suspended(h)
  BY <1>16, <1>17, Zenon DEF transition_from_started_to_stopped, transition_from_started_to_suspended,
     OwnTransitions, HartStates
<1>. QED  BY <1>12, <1>13, <1>14, <1>15, <1>17, Zenon

\* A step that changes one slot, under the lock of its VM.
LEMMA OnlySlot ==
    ASSUME Inv, NEW h \in HardwareHarts, NEW v \in DOMAIN confidential_vms, NEW c \in HartIds,
           NEW q \in Slots, confidential_vms' = [confidential_vms EXCEPT ![v][c] = q],
           HasCd(held[h]), Has(held[h], VmLock(v)),
           inter_hart_requests' = inter_hart_requests, held' = held,
           hardware_hart' \in [HardwareHarts -> Assignments],
           \A g \in HardwareHarts : g # h => hardware_hart'[g] = hardware_hart[g],
           Ownership', HartInv(h)',
           todo' \in [HardwareHarts -> Seq(StepSet)],
           \A g \in HardwareHarts : g # h => todo'[g] = todo[g]
    PROVE  Inv'
<1>1. /\ confidential_vms \in [DOMAIN confidential_vms -> [HartIds -> Slots]]
      /\ inter_hart_requests \in [DOMAIN confidential_vms -> [HartIds -> Nat]]
      /\ held \in [HardwareHarts -> Seq(LockSet)] /\ Exclusion
      /\ DOMAIN confidential_vms \subseteq VmIds
  BY Zenon DEF Inv, Types
<1>2. /\ confidential_vms' \in [DOMAIN confidential_vms -> [HartIds -> Slots]]
      /\ DOMAIN confidential_vms' = DOMAIN confidential_vms
      /\ \A u \in DOMAIN confidential_vms : u # v => confidential_vms'[u] = confidential_vms[u]
  BY <1>1, Zenon
<1>3. Types'
  BY <1>1, <1>2, Zenon DEF Types
<1>4. Exclusion'
  BY <1>1, Zenon DEF Exclusion
<1>5. ASSUME NEW g \in HardwareHarts, g # h PROVE HartInv(g)'
  <2>1. HartInv(g) /\ todo'[g] = todo[g] /\ held'[g] = held[g] /\ Own(g)' = Own(g)
    BY <1>5, Zenon DEF Inv, Own
  <2>2. ~Has(held[g], VmLock(v)) /\ ~Has(held[g], CdWrite)
    BY <1>1, <1>5, Excluded, Zenon
  <2>. QED  BY <2>1, <2>2, <1>2, OtherSlot, Zenon
<1>. QED  BY <1>3, <1>4, <1>5, Zenon DEF Inv

\* Ownership when one slot changes.
LEMMA SlotOwnership ==
    ASSUME Types, Ownership, NEW h \in HardwareHarts,
           NEW v \in DOMAIN confidential_vms, NEW c \in HartIds, NEW q \in Slots,
           confidential_vms' = [confidential_vms EXCEPT ![v][c] = q],
           \A g \in HardwareHarts : g # h => hardware_hart'[g] = hardware_hart[g],
           \/ /\ hardware_hart[h] = None /\ confidential_vms[v][c] # None /\ q = None
              /\ hardware_hart'[h] # None
              /\ hardware_hart'[h].vm = v /\ hardware_hart'[h].hart = c
           \/ /\ hardware_hart[h] # None /\ hardware_hart[h].vm = v /\ hardware_hart[h].hart = c
              /\ q # None /\ hardware_hart'[h] = None
           \/ /\ confidential_vms[v][c] # None /\ q # None /\ hardware_hart'[h] = hardware_hart[h]
    PROVE  Ownership'
<1>1. PICK A, B, H, K : /\ A = confidential_vms /\ B = confidential_vms'
                        /\ H = hardware_hart /\ K = hardware_hart'
  BY Zenon
<1>2. /\ DOMAIN B = DOMAIN A /\ v \in DOMAIN A
      /\ B[v][c] = q
      /\ \A u \in DOMAIN A, d \in HartIds : u # v \/ d # c => B[u][d] = A[u][d]
  BY <1>1, Zenon DEF Types
<1>3. \A g \in HardwareHarts : g # h => K[g] = H[g]
  BY <1>1, Zenon
<1>4. \A g \in HardwareHarts : H[g] # None => H[g].vm \in DOMAIN A /\ H[g].hart \in HartIds
  BY <1>1, Zenon DEF Types, Ownership, OwnershipOf, Assignments, AssignedHart
<1>5. \A g \in HardwareHarts : H[g] # None => A[H[g].vm][H[g].hart] = None
  BY <1>1, Zenon DEF Ownership, OwnershipOf
<1>6. \A f, g \in HardwareHarts : f # g /\ H[f] # None /\ H[g] # None =>
         ~(H[f].vm = H[g].vm /\ H[f].hart = H[g].hart)
  BY <1>1, Zenon DEF Ownership, OwnershipOf
<1>7. \A u \in DOMAIN A, d \in HartIds : A[u][d] = None =>
         \E g \in HardwareHarts : H[g] # None /\ H[g].vm = u /\ H[g].hart = d
  BY <1>1 DEF Ownership, OwnershipOf
<1>8. \/ /\ H[h] = None /\ A[v][c] # None /\ q = None
         /\ K[h] # None /\ K[h].vm = v /\ K[h].hart = c
      \/ /\ H[h] # None /\ H[h].vm = v /\ H[h].hart = c /\ q # None /\ K[h] = None
      \/ A[v][c] # None /\ q # None /\ K[h] = H[h]
  BY <1>1, Zenon
<1>9. ASSUME NEW g \in HardwareHarts, K[g] # None
      PROVE  K[g].vm \in DOMAIN B /\ B[K[g].vm][K[g].hart] = None
  <2>1. CASE g = h
    BY <2>1, <1>2, <1>4, <1>5, <1>8, <1>9, SMTT(30)
  <2>2. CASE g # h
    <3>1. K[g] = H[g] /\ H[g] # None
      BY <2>2, <1>3, <1>9, Zenon
    <3>2. H[g].vm \in DOMAIN A /\ H[g].hart \in HartIds /\ A[H[g].vm][H[g].hart] = None
      BY <3>1, <1>4, <1>5, Zenon
    <3>3. CASE H[g].vm = v /\ H[g].hart = c
      BY <3>1, <3>2, <3>3, <2>2, <1>2, <1>6, <1>8, SMTT(60)
    <3>4. CASE ~(H[g].vm = v /\ H[g].hart = c)
      BY <3>1, <3>2, <3>4, <1>2
    <3>. QED  BY <3>3, <3>4, Zenon
  <2>. QED  BY <2>1, <2>2, Zenon
<1>10. ASSUME NEW f \in HardwareHarts, NEW g \in HardwareHarts, f # g, K[f] # None, K[g] # None,
              K[f].vm = K[g].vm, K[f].hart = K[g].hart
       PROVE  FALSE
  <2>1. CASE f # h /\ g # h
    BY <2>1, <1>3, <1>6, <1>10, SMTT(60)
  <2>2. CASE f = h
    <3>1. K[g] = H[g] /\ H[g] # None
      BY <2>2, <1>3, <1>10, SMTT(30)
    <3>. QED  BY <3>1, <2>2, <1>5, <1>6, <1>8, <1>10, SMTT(30)
  <2>3. CASE g = h
    <3>1. K[f] = H[f] /\ H[f] # None
      BY <2>3, <1>3, <1>10, Zenon
    <3>. QED  BY <3>1, <2>3, <1>5, <1>6, <1>8, <1>10, SMTT(30)
  <2>. QED  BY <2>1, <2>2, <2>3, Zenon
<1>11. ASSUME NEW u \in DOMAIN B, NEW d \in HartIds, B[u][d] = None
       PROVE  \E g \in HardwareHarts : K[g] # None /\ K[g].vm = u /\ K[g].hart = d
  <2>1. CASE u = v /\ d = c
    BY <2>1, <1>2, <1>8, <1>11, Zenon
  <2>2. CASE u # v \/ d # c
    <3>1. A[u][d] = None
      BY <2>2, <1>2, <1>11, Zenon
    <3>2. PICK g \in HardwareHarts : H[g] # None /\ H[g].vm = u /\ H[g].hart = d
      BY <3>1, <1>2, <1>7, <1>11, SMTT(30)
    <3>3. K[g] = H[g]
      BY <3>2, <2>2, <1>3, <1>8, Zenon
    <3>. QED  BY <3>2, <3>3, Zenon
  <2>. QED  BY <2>1, <2>2, Zenon
<1>12. OwnershipOf(B, K)
  BY <1>9, <1>10, <1>11, Zenon DEF OwnershipOf
<1>. QED  BY <1>1, <1>12, Zenon DEF Ownership

\* None is no lifecycle state, and no assigned hart.
LEMMA NoneApart ==
    /\ \A q \in HartStates : q # None /\ q \in Slots
    /\ None \in Slots /\ None \in Assignments
    /\ \A a \in AssignedHart : a # None /\ a \in Assignments
BY LocksAssumption, Zenon DEF Slots, Assignments

\* The assigned hart, in the state and in what the hart knows.
LEMMA OwnIs ==
    ASSUME Types, NEW h \in HardwareHarts
    PROVE  /\ Own(h) = NoOne <=> hardware_hart[h] = None
           /\ \A v \in VmIds, c \in HartIds : Own(h) = Id(v, c) =>
                 /\ hardware_hart[h] \in AssignedHart /\ hardware_hart[h] # None
                 /\ hardware_hart[h].vm = v /\ hardware_hart[h].hart = c
<1>1. hardware_hart[h] # None => hardware_hart[h] \in AssignedHart
  BY Zenon DEF Types, Assignments
<1>2. ASSUME hardware_hart[h] # None
      PROVE  Own(h) = Id(hardware_hart[h].vm, hardware_hart[h].hart) /\ Own(h) # NoOne
  <2>1. hardware_hart[h].vm \in VmIds /\ hardware_hart[h].hart \in HartIds
    BY <1>1, <1>2, Zenon DEF AssignedHart
  <2>. QED  BY <2>1, <1>2, OwnerIds, Zenon DEF Own
<1>3. hardware_hart[h] = None => Own(h) = NoOne
  BY Zenon DEF Own
<1>4. ASSUME NEW v \in VmIds, NEW c \in HartIds, Own(h) = Id(v, c)
      PROVE  /\ hardware_hart[h] # None
             /\ hardware_hart[h].vm = v /\ hardware_hart[h].hart = c
  <2>1. hardware_hart[h] # None
    BY <1>3, <1>4, OwnerIds
  <2>. QED  BY <2>1, <1>2, <1>4 DEF Id
<1>. QED  BY <1>1, <1>2, <1>3, <1>4, Zenon

\* A confidential hart moves between its slot and the hardware hart.
LEMMA MovePreserves ==
    ASSUME Inv, NEW h \in HardwareHarts, steal(h) \/ return(h)
    PROVE  Inv'
<1>1. Types /\ HartInv(h) /\ Ownership
  BY SMTT(30) DEF Inv
<1>2. PICK s : s = Head(todo[h])
  BY Zenon
<1>3. PICK v, c : v = s.vm /\ c = s.hart
  BY Zenon
<1>4. /\ todo[h] # <<>> /\ held' = held /\ inter_hart_requests' = inter_hart_requests
      /\ s.do \in {"steal", "return"} /\ Then(h, <<>>)
  BY <1>2, Zenon DEF steal, return, At
<1>5. PICK w, x, e : /\ w \in Local /\ x \in Local /\ HartNow(h, w, e) /\ s \in StepSet
                     /\ Trans(w, s, x) /\ Path(x, Tail(todo[h]), e)
  BY <1>1, <1>2, <1>4, AtStep, SMTT(60)
<1>6. /\ e.stack = <<>> /\ w.stack = held[h] /\ w.own = Own(h)
      /\ FactHolds(w.fact) /\ Guarded(w)
  BY <1>5, Zenon DEF HartNow
<1>7. v \in VmIds /\ c \in HartIds
  BY <1>3, <1>4, <1>5, StepFields, SMTT(30) DEF DoNames
<1>8. HasCd(w.stack) /\ Has(w.stack, VmLock(v))
  BY <1>3, <1>4, <1>5, ZenonT(60) DEF Trans
<1>9. /\ ExistsFact(v) \in Facts /\ ExistsFact(v).kind = "exists" /\ ExistsFact(v).vm = v
      /\ ExecutableFact(v, c).kind = "executable" /\ ExecutableFact(v, c).vm = v
      /\ ExecutableFact(v, c).hart = c
      /\ NoOne \in Owner /\ Id(v, c) \in Owner
  BY <1>7, AreFacts, OwnerIds
<1>10. confidential_vms \in [DOMAIN confidential_vms -> [HartIds -> Slots]]
       /\ hardware_hart \in [HardwareHarts -> Assignments]
  BY <1>1, Zenon DEF Types
<1>11. ASSUME v \in DOMAIN confidential_vms, NEW q \in Slots, NEW o \in Owner, NEW a \in Assignments,
              confidential_vms' = [confidential_vms EXCEPT ![v][c] = q],
              hardware_hart' = [hardware_hart EXCEPT ![h] = a],
              Own(h)' = o, x = L(w.stack, o, ExistsFact(v)),
              \/ /\ hardware_hart[h] = None /\ confidential_vms[v][c] # None /\ q = None
                 /\ a # None /\ a.vm = v /\ a.hart = c
              \/ /\ hardware_hart[h] # None /\ hardware_hart[h].vm = v /\ hardware_hart[h].hart = c
                 /\ q # None /\ a = None
       PROVE  Inv'
  <2>1. /\ hardware_hart' \in [HardwareHarts -> Assignments] /\ hardware_hart'[h] = a
        /\ \A g \in HardwareHarts : g # h => hardware_hart'[g] = hardware_hart[g]
    BY <1>10, <1>11, Zenon
  <2>2. Ownership'
    BY <2>1, <1>1, <1>7, <1>11, SlotOwnership, ZenonT(60)
  <2>3. x.stack = w.stack /\ x.own = o /\ x.fact = ExistsFact(v) /\ Guarded(x)
    BY <1>5, <1>6, <1>8, <1>9, <1>11, NewFact
  <2>4. DOMAIN confidential_vms' = DOMAIN confidential_vms
    BY <1>10, <1>11, Zenon
  <2>5. FactHolds(x.fact)'
    BY <2>3, <2>4, <1>9, <1>11, SMTT(30) DEF FactHolds
  <2>6. /\ HartInv(h)' /\ todo' \in [HardwareHarts -> Seq(StepSet)]
        /\ \A g \in HardwareHarts : g # h => todo'[g] = todo[g]
    <3>1. x.stack = held'[h] /\ x.own = Own(h)'
      BY <2>3, <1>4, <1>6, <1>11, SMTT(30)
    <3>. QED  BY <3>1, <2>3, <2>5, <1>1, <1>4, <1>5, <1>6, GoesOnAt, ZenonT(60)
  <2>7. HasCd(held[h]) /\ Has(held[h], VmLock(v))
    BY <1>6, <1>8, Zenon
  <2>. QED  BY <2>1, <2>2, <2>6, <2>7, <1>4, <1>7, <1>11, OnlySlot, ZenonT(60)
<1>12. CASE steal(h)
  <2>1. PICK a : a = [vm |-> v, hart |-> c, state |-> confidential_vms[v][c]]
    BY Zenon
  <2>2. /\ s.do = "steal" /\ hardware_hart' = [hardware_hart EXCEPT ![h] = a]
        /\ confidential_vms' = [confidential_vms EXCEPT ![v][c] = None]
    BY <2>1, <1>2, <1>3, <1>12, Zenon DEF steal, At
  <2>3. /\ w.fact = ExecutableFact(v, c) /\ w.own = NoOne
        /\ x = L(w.stack, Id(v, c), ExistsFact(v))
    BY <2>2, <1>3, <1>5, Zenon DEF Trans
  <2>4. /\ v \in DOMAIN confidential_vms
        /\ confidential_vms[v][c] \in HartStates
    BY <2>3, <1>6, <1>9, Zenon DEF FactHolds, HartStates
  <2>5. a \in AssignedHart /\ a.vm = v /\ a.hart = c
    BY <2>1, <2>4, <1>7, Zenon DEF AssignedHart
  <2>6. a # None /\ a \in Assignments /\ None \in Slots /\ confidential_vms[v][c] # None
    BY <2>4, <2>5, NoneApart, Zenon
  <2>7. hardware_hart[h] = None
    BY <2>3, <1>1, <1>6, OwnIs, Zenon
  <2>8. Own(h)' = Id(v, c)
    <3>1. hardware_hart'[h] = a
      BY <2>2, <1>10, Zenon
    <3>. QED  BY <3>1, <2>5, <2>6, Zenon DEF Own
  <2>. QED  BY <2>2, <2>3, <2>4, <2>5, <2>6, <2>7, <2>8, <1>9, <1>11, ZenonT(60)
<1>13. CASE return(h)
  <2>1. PICK q : q = hardware_hart[h].state
    BY Zenon
  <2>2. /\ s.do = "return" /\ hardware_hart' = [hardware_hart EXCEPT ![h] = None]
        /\ confidential_vms' = [confidential_vms EXCEPT ![v][c] = q]
    BY <2>1, <1>2, <1>3, <1>13, Zenon DEF return, At
  <2>3. /\ w.fact = ExistsFact(v) /\ w.own = Id(v, c)
        /\ x = L(w.stack, NoOne, ExistsFact(v))
    BY <2>2, <1>3, <1>5, Zenon DEF Trans
  <2>4. v \in DOMAIN confidential_vms
    BY <2>3, <1>6, VmExists, Zenon
  <2>5. /\ hardware_hart[h] \in AssignedHart /\ hardware_hart[h] # None
        /\ hardware_hart[h].vm = v /\ hardware_hart[h].hart = c
    BY <2>3, <1>1, <1>6, <1>7, OwnIs, Zenon
  <2>6. q \in HartStates
    BY <2>1, <2>5, Zenon DEF AssignedHart
  <2>7. q # None /\ q \in Slots /\ None \in Assignments
    BY <2>6, NoneApart, Zenon
  <2>8. Own(h)' = NoOne
    <3>1. hardware_hart'[h] = None
      BY <2>2, <1>10, SMTT(60)
    <3>. QED  BY <3>1, Zenon DEF Own
  <2>. QED  BY <2>2, <2>3, <2>4, <2>5, <2>7, <2>8, <1>9, <1>11, ZenonT(60)
<1>. QED  BY <1>12, <1>13, Zenon

\* The state of a hart in its slot changes.
LEMMA SlotPreserves ==
    ASSUME Inv, NEW h \in HardwareHarts, transit_to_start_pending(h) \/ broadcast(h)
    PROVE  Inv'
<1>1. Types /\ HartInv(h) /\ Ownership
  BY DEF Inv
<1>2. PICK s : s = Head(todo[h])
  BY Zenon
<1>3. PICK v, c : v = s.vm /\ c = s.hart
  BY Zenon
<1>4. /\ todo[h] # <<>> /\ held' = held /\ inter_hart_requests' = inter_hart_requests
      /\ hardware_hart' = hardware_hart
      /\ s.do \in {"transit_to_start_pending", "broadcast"}
  BY <1>2, SMTT(30) DEF transit_to_start_pending, broadcast, At
<1>5. PICK w, x, e : /\ w \in Local /\ x \in Local /\ HartNow(h, w, e) /\ s \in StepSet
                     /\ Trans(w, s, x) /\ Path(x, Tail(todo[h]), e)
  BY <1>1, <1>2, <1>4, AtStep, SMTT(60)
<1>6. /\ e.stack = <<>> /\ w.stack = held[h] /\ w.own = Own(h)
      /\ FactHolds(w.fact) /\ Guarded(w)
  BY <1>5, Zenon DEF HartNow
<1>7. v \in VmIds /\ c \in HartIds
  BY <1>3, <1>4, <1>5, StepFields, SMTT(30) DEF DoNames
<1>8. /\ HasCd(w.stack) /\ Has(w.stack, VmLock(v)) /\ w.fact = ExistsFact(v) /\ x = w
      /\ s.do = "broadcast" => Low(w.stack, 3)
  BY <1>3, <1>4, <1>5, Zenon DEF Trans
<1>9. ExistsFact(v).kind = "exists" /\ ExistsFact(v).vm = v
  BY <1>7, AreFacts, Zenon
<1>10. v \in DOMAIN confidential_vms
  BY <1>6, <1>8, <1>9, Zenon DEF FactHolds
<1>11. Own(h)' = Own(h)
  BY <1>4, Zenon DEF Own
<1>12. ASSUME NEW q \in HartStates, confidential_vms[v][c] # None,
              confidential_vms' = [confidential_vms EXCEPT ![v][c] = q], Then(h, <<>>)
       PROVE  Inv'
  <2>1. q # None /\ q \in Slots
    BY NoneApart, Zenon
  <2>2. Ownership'
    BY <2>1, <1>1, <1>4, <1>7, <1>10, <1>12, SlotOwnership, Zenon
  <2>3. DOMAIN confidential_vms' = DOMAIN confidential_vms
    BY <1>12, Zenon
  <2>4. FactHolds(w.fact)'
    BY <2>3, <1>8, <1>9, <1>10, Zenon DEF FactHolds
  <2>5. /\ HartInv(h)' /\ todo' \in [HardwareHarts -> Seq(StepSet)]
        /\ \A g \in HardwareHarts : g # h => todo'[g] = todo[g]
    <3>1. w.stack = held'[h] /\ w.own = Own(h)'
      BY <1>4, <1>6, <1>11, Zenon
    <3>2. Path(w, Tail(todo[h]), e)
      BY <1>5, <1>8, Zenon
    <3>. QED  BY <3>1, <3>2, <2>4, <1>1, <1>5, <1>6, <1>12, GoesOnAt, ZenonT(60)
  <2>6. HasCd(held[h]) /\ Has(held[h], VmLock(v))
    BY <1>6, <1>8, Zenon
  <2>7. hardware_hart' \in [HardwareHarts -> Assignments]
    BY <1>1, <1>4, Zenon DEF Types
  <2>. QED  BY <2>1, <2>2, <2>5, <2>6, <2>7, <1>4, <1>7, <1>10, <1>12, OnlySlot, ZenonT(60)
<1>13. CASE transit_to_start_pending(h)
  <2>1. \/ /\ confidential_vms[v][c] = "Stopped" /\ Then(h, <<>>)
           /\ confidential_vms' = [confidential_vms EXCEPT ![v][c] = "StartPending"]
        \/ Fail(h) /\ confidential_vms' = confidential_vms
    BY <1>2, <1>3, <1>13, Zenon DEF transit_to_start_pending
  <2>2. "Stopped" \in HartStates /\ "StartPending" \in HartStates
    BY Zenon DEF HartStates
  <2>3. CASE confidential_vms[v][c] = "Stopped"
             /\ confidential_vms' = [confidential_vms EXCEPT ![v][c] = "StartPending"] /\ Then(h, <<>>)
    <3>1. confidential_vms[v][c] # None
      BY <2>2, <2>3, NoneApart, Zenon
    <3>. QED  BY <3>1, <2>2, <2>3, <1>12, Zenon
  <2>4. CASE Fail(h) /\ confidential_vms' = confidential_vms
    <3>1. /\ HartInv(h)' /\ todo' \in [HardwareHarts -> Seq(StepSet)]
          /\ \A g \in HardwareHarts : g # h => todo'[g] = todo[g]
      BY <2>4, <1>1, <1>4, <1>11, Fails, Zenon
    <3>2. UNCHANGED <<data, held>>
      BY <2>4, <1>4, Zenon DEF data
    <3>. QED  BY <3>1, <3>2, OnlyTodo, Zenon
  <2>. QED  BY <2>1, <2>3, <2>4, SMTT(30)
<1>14. CASE broadcast(h)
  <2>1. /\ s.do = "broadcast"
        /\ \/ Then(h, queue_request(v, c)) /\ confidential_vms' = confidential_vms
           \/ /\ confidential_vms[v][c] # None
              /\ confidential_vms' = [confidential_vms EXCEPT ![v][c] = "Shutdown"] /\ Then(h, <<>>)
    BY <1>2, <1>3, <1>14, SMTT(60) DEF broadcast, At
  <2>2. CASE Then(h, queue_request(v, c)) /\ confidential_vms' = confidential_vms
    <3>1. Calm(w)
      <4>1. w.stack # <<>>
        BY <1>8 DEF Has
      <4>. QED  BY <4>1, <1>5, <1>8, <1>9, Zenon DEF Calm
    <3>2. Path(w, queue_request(v, c), w)
      BY <3>1, <2>1, <1>7, <1>8, PathQueue, SMTT(60)
    <3>3. FactHolds(w.fact)'
      BY <2>2, <1>6, SMTT(30) DEF FactHolds
    <3>4. /\ HartInv(h)' /\ todo' \in [HardwareHarts -> Seq(StepSet)]
          /\ \A g \in HardwareHarts : g # h => todo'[g] = todo[g]
      <4>1. w.stack = held'[h] /\ w.own = Own(h)'
        BY <1>4, <1>6, <1>11, Zenon
      <4>2. Path(w, Tail(todo[h]), e)
        BY <1>5, <1>8, Zenon
      <4>. QED  BY <4>1, <4>2, <3>2, <3>3, <2>2, <1>1, <1>6, GoesOn, Zenon
    <3>5. UNCHANGED <<data, held>>
      BY <2>2, <1>4, Zenon DEF data
    <3>. QED  BY <3>4, <3>5, OnlyTodo, Zenon
  <2>3. CASE /\ confidential_vms[v][c] # None
             /\ confidential_vms' = [confidential_vms EXCEPT ![v][c] = "Shutdown"] /\ Then(h, <<>>)
    <3>1. "Shutdown" \in HartStates
      BY Zenon DEF HartStates
    <3>. QED  BY <3>1, <2>3, <1>12, Zenon
  <2>. QED  BY <2>1, <2>2, <2>3, SMTT(60)
<1>. QED  BY <1>13, <1>14, Zenon
=============================================================================
