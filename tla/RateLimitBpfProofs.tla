------------------------- MODULE RateLimitBpfProofs --------------------------
(***************************************************************************)
(* Proofs about RateLimitBpf, for every number of CPUs, horizon and set of *)
(* limits: its type invariant, that the debt of a cgroup is bounded, that  *)
(* packets handled in turn are paced, and that a delay meets both rates.   *)
(*                                                                         *)
(* DebtBounded is not inductive: a CPU that is about to add its delay has  *)
(* passed the test already.  DebtInv reserves one delay for each of them.  *)
(***************************************************************************)
EXTENDS RateLimitBpf, FiniteSetTheorems, SequenceTheorems, TLAPS

N == Cardinality(Cpus)

Passed == [tstamp : Nat, delay : 0..MaxDelay, alone : BOOLEAN]

Pending(e) == Cardinality(Adding(e))

\* The value of an element, and a delay for every CPU about to add one, stay
\* within the bound of DebtBounded (bpf.c:97-101).
DebtInv ==
  \A e \in 1..Len(avail) :
    avail[e] + Pending(e) * MaxDelay <= now + DROP_HORIZON + N * MaxDelay

-----------------------------------------------------------------------------
\* The products that occur in the bound.
LEMMA Products ==
  ASSUME NEW d \in Nat, NEW k \in Nat, NEW n \in Nat
  PROVE  /\ k * d \in Nat
         /\ k <= n => k * d <= n * d
         /\ k + 1 <= n => k * d + d <= n * d
         /\ (k + 1) * d = k * d + d
<1>1. k * d \in Nat /\ n * d \in Nat
  OBVIOUS
<1>2. ASSUME NEW i \in Nat, NEW j \in Nat, i <= j
      PROVE  i * d <= j * d
  <2>1. (j - i) \in Nat /\ (j - i) * d \in Nat
    BY <1>2
  <2>2. (j - i) * d = j * d - i * d
    OBVIOUS
  <2>3. i * d \in Nat /\ j * d \in Nat
    OBVIOUS
  <2> QED BY <2>1, <2>2, <2>3
<1>3. (k + 1) * d = k * d + d
  OBVIOUS
<1> QED BY <1>1, <1>2, <1>3

\* The CPUs about to add are counted by a number of at most N.
LEMMA PendingBound ==
  ASSUME NEW e
  PROVE  /\ IsFiniteSet(Adding(e)) /\ Pending(e) \in Nat /\ N \in Nat /\ Pending(e) <= N
         /\ \A p \in Cpus : p \notin Adding(e) => Pending(e) + 1 <= N
<1>1. IsFiniteSet(Cpus) /\ Adding(e) \subseteq Cpus
  BY ConstantsAssumption DEF Adding
<1>2. IsFiniteSet(Adding(e)) /\ Pending(e) <= N
  BY <1>1, FS_Subset DEF Pending, N
<1>3. Pending(e) \in Nat /\ N \in Nat
  BY <1>1, <1>2, FS_CardinalityType DEF Pending, N
<1>4. ASSUME NEW p \in Cpus, p \notin Adding(e) PROVE Pending(e) + 1 <= N
  <2>1. Cardinality(Adding(e) \cup {p}) = Pending(e) + 1
    BY <1>2, <1>4, FS_AddElement DEF Pending
  <2>2. Adding(e) \cup {p} \subseteq Cpus
    BY <1>1
  <2> QED BY <1>1, <2>1, <2>2, FS_Subset DEF N
<1> QED BY <1>2, <1>3, <1>4

\* A CPU that changes its own locals, while no element disappears and the clock
\* does not go back, keeps the types of all CPUs.
LEMMA LocalsStep ==
  ASSUME TypeOK, NEW p \in Cpus, NEW r \in Locals,
         cpu' = [cpu EXCEPT ![p] = r],
         avail' \in Seq(Nat), Len(avail') >= Len(avail), now' \in Nat, now' >= now,
         r.pc \in {"load", "store", "add"} => r.elem \in 1..Len(avail'),
         r.now <= now'
  PROVE  /\ cpu' \in [Cpus -> Locals]
         /\ \A q \in Cpus : cpu'[q].pc \in {"load", "store", "add"}
                              => cpu'[q].elem \in 1..Len(avail')
         /\ \A q \in Cpus : cpu'[q].now <= now'
<1>1. cpu \in [Cpus -> Locals] /\ avail \in Seq(Nat) /\ now \in Nat
  BY DEF TypeOK
<1>2. cpu' \in [Cpus -> Locals]
  BY <1>1
<1>3. ASSUME NEW q \in Cpus
      PROVE  /\ cpu'[q].pc \in {"load", "store", "add"} => cpu'[q].elem \in 1..Len(avail')
             /\ cpu'[q].now <= now'
  <2>1. CASE q = p
    BY <1>1, <2>1
  <2>2. CASE q # p
    <3>1. cpu'[q] = cpu[q]
      BY <1>1, <2>2
    <3>2. cpu[q].elem \in Nat /\ cpu[q].now \in Nat
      BY SMTT(30), <1>1 DEF Locals
    <3>3. Len(avail) \in Nat /\ Len(avail') \in Nat
      BY <1>1
    <3> QED BY SMTT(30), <1>1, <3>1, <3>2, <3>3 DEF TypeOK
  <2> QED BY <2>1, <2>2
<1> QED BY <1>2, <1>3

\* A CPU that has finished with a packet is idle, which is a state of a CPU.
LEMMA IdleLocals == Idle \in Locals /\ Idle.pc = "idle" /\ Idle.now = 0 /\ Idle.delay = 0
BY ConstantsAssumption DEF Idle, Locals

\* The locals of a CPU, and what they point to.
LEMMA LocalsTypes ==
  ASSUME TypeOK, NEW p \in Cpus
  PROVE  /\ cpu[p] \in Locals /\ cpu[p].delay \in Nat /\ cpu[p].delay <= MaxDelay
         /\ cpu[p].elem \in Nat /\ cpu[p].now \in Nat /\ cpu[p].next \in Nat
         /\ cpu[p].now <= now
BY ConstantsAssumption DEF TypeOK, Locals

\* A CPU past the lookup points to an element.
LEMMA PointsTo ==
  ASSUME TypeOK, NEW p \in Cpus, cpu[p].pc \in {"load", "store", "add"}
  PROVE  cpu[p].elem \in 1..Len(avail) /\ avail[cpu[p].elem] \in Nat
<1>1. cpu[p].elem \in 1..Len(avail) /\ avail \in Seq(Nat)
  BY DEF TypeOK
<1> QED BY <1>1

\* Every step of the program, of the daemon and of the clock keeps the types
\* (bpf.c:72-109).
LEMMA TypeStep == TypeOK /\ [Next]_vars => TypeOK'
<1> SUFFICES ASSUME TypeOK, [Next]_vars PROVE TypeOK'
  OBVIOUS
<1> USE ConstantsAssumption
<1>t. /\ avail \in Seq(Nat) /\ Len(avail) \in Nat /\ now \in Nat
      /\ limit \in Limits \cup {NoLimit} /\ last \in Passed /\ fresh \subseteq Cpus
  BY DEF TypeOK, Passed
<1>1. ASSUME NEW p \in Cpus, Arrive(p) PROVE TypeOK'
  <2>1. PICK len \in Lens : cpu' = [cpu EXCEPT ![p] =
            [Idle EXCEPT !.pc = "lookup", !.delay = Delay(limit, len)]]
    BY <1>1 DEF Arrive
  <2>2. Delay(limit, len) \in 0..MaxDelay
    BY <1>1, <1>t, DelayAssumption DEF Arrive
  <2> DEFINE r == [Idle EXCEPT !.pc = "lookup", !.delay = Delay(limit, len)]
  <2>3. r \in Locals /\ r.pc = "lookup" /\ r.now = 0
    BY <2>2 DEF Idle, Locals
  <2>4. UNCHANGED <<limit, avail, now, last, fresh>> /\ cpu' = [cpu EXCEPT ![p] = r]
    BY <1>1, <2>1 DEF Arrive
  <2> HIDE DEF r
  <2> QED BY <1>t, <2>3, <2>4, LocalsStep DEF TypeOK, Passed
<1>2. ASSUME NEW p \in Cpus, Lookup(p) PROVE TypeOK'
  <2> DEFINE r == [cpu[p] EXCEPT !.pc = IF Found(Len(avail)) THEN "load" ELSE "create",
                                 !.elem = Len(avail), !.now = now]
  <2>1. /\ UNCHANGED <<limit, avail, now, last>> /\ cpu' = [cpu EXCEPT ![p] = r]
        /\ fresh' \subseteq Cpus
    BY <1>2, <1>t DEF Lookup, TypeOK
  <2>2. r \in Locals /\ r.elem = Len(avail) /\ r.now = now
    BY <1>t, LocalsTypes DEF Locals
  <2>3. r.pc \in {"load", "store", "add"} => Len(avail) > 0
    BY LocalsTypes DEF Locals, Found
  <2> HIDE DEF r
  <2>4. r.pc \in {"load", "store", "add"} => r.elem \in 1..Len(avail')
    BY <1>t, <2>1, <2>2, <2>3
  <2> QED BY <1>t, <2>1, <2>2, <2>4, LocalsStep DEF TypeOK, Passed
<1>3. ASSUME NEW p \in Cpus, Load(p) PROVE TypeOK'
  <2> DEFINE next == avail[cpu[p].elem]
  <2>1. cpu[p].elem \in 1..Len(avail) /\ next \in Nat
    <3>1. cpu[p].elem \in 1..Len(avail)
      BY <1>3, PointsTo DEF Load
    <3> QED BY <1>t, <3>1
  <2>2. PICK r : /\ cpu' = [cpu EXCEPT ![p] = r]
                 /\ \/ r = Idle
                    \/ r = [cpu[p] EXCEPT !.pc = "store", !.next = next]
                    \/ r = [cpu[p] EXCEPT !.pc = "add", !.next = next]
    BY <1>3 DEF Load, TypeOK
  <2>3. UNCHANGED <<limit, avail, now, last, fresh>>
    BY <1>3 DEF Load
  <2> HIDE DEF next
  <2>4. /\ r \in Locals /\ r.now <= now
        /\ r.pc \in {"load", "store", "add"} => r.elem \in 1..Len(avail)
    <3>1. CASE r = Idle
      BY <1>t, <3>1, IdleLocals
    <3>2. CASE r = [cpu[p] EXCEPT !.pc = "store", !.next = next]
      BY <2>1, <3>2, LocalsTypes DEF Locals
    <3>3. CASE r = [cpu[p] EXCEPT !.pc = "add", !.next = next]
      BY <2>1, <3>3, LocalsTypes DEF Locals
    <3> QED BY <2>2, <3>1, <3>2, <3>3
  <2> QED BY <1>t, <2>2, <2>3, <2>4, LocalsStep DEF TypeOK, Passed
<1>p. ASSUME NEW p \in Cpus, NEW t \in Nat, Pass(p, t),
             avail' \in Seq(Nat), Len(avail') >= Len(avail)
      PROVE  TypeOK'
  <2>1. /\ limit' = limit /\ now' = now /\ cpu' = [cpu EXCEPT ![p] = Idle]
        /\ last' \in Passed /\ fresh' \subseteq Cpus
    BY <1>p, LocalsTypes DEF Pass, Passed
  <2>2. Idle \in Locals /\ Idle.pc \notin {"load", "store", "add"} /\ Idle.now <= now'
    BY <1>t, <2>1, IdleLocals
  <2> QED BY <1>t, <1>p, <2>1, <2>2, LocalsStep DEF TypeOK, Passed
<1>4. ASSUME NEW p \in Cpus, Store(p) PROVE TypeOK'
  <2>1. cpu[p].elem \in 1..Len(avail) /\ FirstAvail(p) \in Nat /\ cpu[p].now \in Nat
    BY <1>4, PointsTo, LocalsTypes DEF Store, FirstAvail
  <2>2. avail' \in Seq(Nat) /\ Len(avail') = Len(avail)
    BY <1>4, <1>t, <2>1, ExceptSeq DEF Store
  <2> QED BY <1>4, <1>t, <1>p, <2>1, <2>2 DEF Store
<1>5. ASSUME NEW p \in Cpus, Add(p) PROVE TypeOK'
  <2>1. /\ cpu[p].elem \in 1..Len(avail) /\ cpu[p].next \in Nat
        /\ avail[cpu[p].elem] + cpu[p].delay \in Nat
    BY <1>5, PointsTo, LocalsTypes DEF Add
  <2>2. avail' = [avail EXCEPT ![cpu[p].elem] = avail[cpu[p].elem] + cpu[p].delay]
    BY <1>5 DEF Add
  <2>3. avail' \in Seq(Nat) /\ Len(avail') = Len(avail)
    BY <1>t, <2>1, <2>2, ExceptSeq
  <2> QED BY <1>5, <1>t, <1>p, <2>1, <2>3 DEF Add
<1>6. ASSUME NEW p \in Cpus, Create(p) PROVE TypeOK'
  <2>1. FirstAvail(p) \in Nat /\ cpu[p].now \in Nat
    BY LocalsTypes DEF FirstAvail
  <2>2. avail' \in Seq(Nat) /\ Len(avail') = Len(avail) + 1
    BY <1>6, <1>t, <2>1 DEF Create
  <2> QED BY <1>6, <1>t, <1>p, <2>1, <2>2 DEF Create
<1>7. CASE cgroup_rate_limit_set \/ cgroup_rate_limit_unset
  BY <1>7 DEF cgroup_rate_limit_set, cgroup_rate_limit_unset, TypeOK
<1>8. CASE Tick
  <2>1. \A q \in Cpus : cpu[q].now \in Nat /\ cpu[q].now <= now
    BY LocalsTypes
  <2> QED BY <1>8, <1>t, <2>1 DEF Tick, TypeOK
<1>9. CASE UNCHANGED vars
  BY <1>9 DEF vars, TypeOK
<1> QED BY <1>1, <1>2, <1>3, <1>4, <1>5, <1>6, <1>7, <1>8, <1>9 DEF Next, Run

\* The type invariant of the program (bpf.c:72-109).
THEOREM TypeCorrect == Spec => []TypeOK
<1>1. Init => TypeOK
  BY IdleLocals, ConstantsAssumption DEF Init, TypeOK, Idle, Locals
<1> QED BY <1>1, TypeStep, PTL DEF Spec

-----------------------------------------------------------------------------
(* The debt.                                                               *)

\* The bound of an element survives a step that changes neither its value nor
\* the CPUs about to add to it, and does not turn the clock back.
LEMMA SameDebt ==
  ASSUME TypeOK, DebtInv, NEW e \in 1..Len(avail),
         avail'[e] = avail[e], Adding(e)' = Adding(e), now' \in Nat, now' >= now
  PROVE  avail'[e] + Pending(e)' * MaxDelay <= now' + DROP_HORIZON + N * MaxDelay
<1>1. Pending(e)' = Pending(e)
  BY DEF Pending
<1>2. /\ avail[e] \in Nat /\ now \in Nat /\ DROP_HORIZON \in Nat
      /\ Pending(e) * MaxDelay \in Nat /\ N * MaxDelay \in Nat
  <2>1. avail[e] \in Nat /\ now \in Nat /\ DROP_HORIZON \in Nat /\ MaxDelay \in Nat
    BY ConstantsAssumption, ElementOfSeq DEF TypeOK
  <2>2. Pending(e) \in Nat /\ N \in Nat
    BY PendingBound
  <2> QED BY <2>1, <2>2, Products
<1>3. avail[e] + Pending(e) * MaxDelay <= now + DROP_HORIZON + N * MaxDelay
  BY DEF DebtInv
<1> DEFINE a == Pending(e) * MaxDelay
           b == N * MaxDelay
<1> HIDE DEF a, b
<1>4. a \in Nat /\ b \in Nat /\ avail[e] + a <= now + DROP_HORIZON + b
  BY <1>2, <1>3 DEF a, b
<1>5. avail[e] + a <= now' + DROP_HORIZON + b
  <2>1. avail[e] \in Nat /\ now \in Nat /\ DROP_HORIZON \in Nat
    BY <1>2
  <2> QED BY SMTT(30), <2>1, <1>4
<1> QED BY <1>1, <1>5 DEF a, b

\* Who is about to add, after CPU p changed its locals to r.
LEMMA AddingStep ==
  ASSUME TypeOK, NEW p \in Cpus, NEW r, cpu' = [cpu EXCEPT ![p] = r], NEW e
  PROVE  Adding(e)' = IF r.pc = "add" /\ r.elem = e THEN Adding(e) \cup {p} ELSE Adding(e) \ {p}
BY DEF Adding, TypeOK

\* Every step keeps the bound with its reserves (bpf.c:90-107).
LEMMA DebtStep == TypeOK /\ DebtInv /\ [Next]_vars => DebtInv'
<1> SUFFICES ASSUME TypeOK, DebtInv, [Next]_vars, NEW e \in 1..Len(avail')
             PROVE  avail'[e] + Pending(e)' * MaxDelay <= now' + DROP_HORIZON + N * MaxDelay
  BY DEF DebtInv, N
<1> DEFINE b == N * MaxDelay
           a == Pending(e) * MaxDelay
           Goal == avail'[e] + Pending(e)' * MaxDelay <= now' + DROP_HORIZON + b
<1>t. /\ avail \in Seq(Nat) /\ Len(avail) \in Nat /\ now \in Nat
      /\ DROP_HORIZON \in Nat /\ MaxDelay \in Nat
  BY ConstantsAssumption DEF TypeOK
<1>n. /\ IsFiniteSet(Adding(e)) /\ Pending(e) \in Nat /\ N \in Nat /\ Pending(e) <= N
      /\ \A p \in Cpus : p \notin Adding(e) => Pending(e) + 1 <= N
  BY PendingBound
<1>m. /\ a \in Nat /\ b \in Nat /\ a <= b
      /\ Pending(e) + 1 <= N => a + MaxDelay <= b
      /\ (Pending(e) + 1) * MaxDelay = a + MaxDelay
  BY <1>t, <1>n, Products
<1>l. ASSUME NEW p \in Cpus, NEW r, cpu' = [cpu EXCEPT ![p] = r],
             cpu[p].pc # "add", r.pc # "add", avail' = avail, now' = now
      PROVE  Goal
  <2>1. Adding(e)' = Adding(e)
    BY <1>l, AddingStep DEF Adding
  <2> QED BY <1>l, <1>t, <2>1, SameDebt
<1>1. ASSUME NEW p \in Cpus, Arrive(p) PROVE Goal
  <2>1. PICK d : cpu' = [cpu EXCEPT ![p] = [Idle EXCEPT !.pc = "lookup", !.delay = d]]
    BY <1>1 DEF Arrive
  <2>2. [Idle EXCEPT !.pc = "lookup", !.delay = d].pc = "lookup"
    BY DEF Idle
  <2> QED BY <1>1, <1>l, <2>1, <2>2 DEF Arrive
<1>2. ASSUME NEW p \in Cpus, Lookup(p) PROVE Goal
  <2> DEFINE r == [cpu[p] EXCEPT !.pc = IF Found(Len(avail)) THEN "load" ELSE "create",
                                 !.elem = Len(avail), !.now = now]
  <2>1. cpu' = [cpu EXCEPT ![p] = r]
    BY <1>2 DEF Lookup, TypeOK
  <2>2. r.pc # "add"
    BY LocalsTypes DEF Locals
  <2> HIDE DEF r
  <2> QED BY <1>2, <1>l, <2>1, <2>2 DEF Lookup
<1>3. ASSUME NEW p \in Cpus, Load(p) PROVE Goal
  <2> DEFINE next == avail[cpu[p].elem]
  <2>1. next \in Nat /\ cpu[p].elem \in 1..Len(avail)
    BY <1>3, PointsTo DEF Load
  <2>2. PICK r : /\ cpu' = [cpu EXCEPT ![p] = r]
                 /\ \/ r = Idle
                    \/ r = [cpu[p] EXCEPT !.pc = "store", !.next = next]
                    \/ /\ r = [cpu[p] EXCEPT !.pc = "add", !.next = next]
                       /\ ~BeyondHorizon(next, cpu[p].now)
    BY <1>3 DEF Load, TypeOK
  <2>3. avail' = avail /\ now' = now /\ cpu[p].pc = "load"
    BY <1>3 DEF Load
  <2>4. CASE r.pc # "add"
    BY <1>l, <2>2, <2>3, <2>4
  <2>5. CASE r.pc = "add"
    <3>1. r = [cpu[p] EXCEPT !.pc = "add", !.next = next] /\ ~BeyondHorizon(next, cpu[p].now)
      <4>1. r # Idle
        BY <2>5, IdleLocals
      <4>2. r # [cpu[p] EXCEPT !.pc = "store", !.next = next]
        BY <2>5, LocalsTypes DEF Locals
      <4> QED BY <2>2, <4>1, <4>2
    <3>2. r.elem = cpu[p].elem
      BY <3>1, LocalsTypes DEF Locals
    <3>3. CASE e # cpu[p].elem
      <4>1. Adding(e)' = Adding(e)
        BY <2>2, <2>3, <3>2, <3>3, AddingStep DEF Adding
      <4> QED BY <1>t, <2>3, <4>1, SameDebt
    <3>4. CASE e = cpu[p].elem
      <4>1. avail'[e] <= now + DROP_HORIZON
        <5>1. cpu[p].now \in Nat /\ cpu[p].now <= now
          BY LocalsTypes
        <5>2. avail'[e] = next
          BY <2>3, <3>4
        <5>3. ~(next > cpu[p].now + DROP_HORIZON)
          BY <3>1 DEF BeyondHorizon
        <5> HIDE DEF next
        <5> QED BY <1>t, <2>1, <5>1, <5>2, <5>3
      <4>2. Adding(e)' = Adding(e) \cup {p} /\ p \notin Adding(e)
        <5>1. p \notin Adding(e)
          BY <2>3 DEF Adding
        <5>2. cpu' = [cpu EXCEPT ![p] = r] /\ r.pc = "add" /\ r.elem = e
          BY <2>2, <2>5, <3>2, <3>4
        <5> QED BY <5>1, <5>2, AddingStep
      <4>3. Pending(e)' = Pending(e) + 1
        BY <1>n, <4>2, FS_AddElement DEF Pending
      <4>4. Pending(e)' * MaxDelay <= b /\ Pending(e)' * MaxDelay \in Nat
        BY <1>t, <1>n, <1>m, <4>2, <4>3
      <4>5. avail'[e] \in Nat
        BY <2>1, <2>3, <3>4
      <4> HIDE DEF b
      <4> QED BY SMTT(30), <1>t, <1>m, <2>3, <4>1, <4>4, <4>5
    <3> QED BY <3>3, <3>4
  <2> QED BY <2>4, <2>5
<1>p. ASSUME NEW p \in Cpus, cpu' = [cpu EXCEPT ![p] = Idle]
      PROVE  Adding(e)' = Adding(e) \ {p}
  BY <1>p, AddingStep, IdleLocals
<1>4. ASSUME NEW p \in Cpus, Store(p) PROVE Goal
  <2>1. cpu' = [cpu EXCEPT ![p] = Idle] /\ now' = now /\ cpu[p].pc = "store"
    BY <1>4 DEF Store, Pass
  <2>2. p \notin Adding(e) /\ Adding(e)' = Adding(e)
    BY <1>p, <2>1 DEF Adding
  <2>3. /\ Len(avail') = Len(avail)
        /\ avail'[e] = IF e = cpu[p].elem THEN FirstAvail(p) ELSE avail[e]
    <3>1. cpu[p].elem \in 1..Len(avail) /\ FirstAvail(p) \in Nat
      BY <2>1, PointsTo, LocalsTypes DEF FirstAvail
    <3>2. avail' = [avail EXCEPT ![cpu[p].elem] = FirstAvail(p)]
      BY <1>4 DEF Store
    <3> QED BY <1>t, <3>1, <3>2, ExceptSeq
  <2>4. CASE e # cpu[p].elem
    BY <1>t, <2>1, <2>2, <2>3, <2>4, SameDebt
  <2>5. CASE e = cpu[p].elem
    <3>1. avail'[e] \in Nat /\ avail'[e] <= now + MaxDelay
      <4>1. avail'[e] = cpu[p].now + cpu[p].delay
        BY <2>3, <2>5 DEF FirstAvail
      <4>2. /\ cpu[p].now \in Nat /\ cpu[p].now <= now
            /\ cpu[p].delay \in Nat /\ cpu[p].delay <= MaxDelay
        BY <1>t, LocalsTypes
      <4>3. now \in Nat /\ MaxDelay \in Nat
        BY <1>t, ConstantsAssumption DEF TypeOK
      <4> HIDE DEF a, b
      <4> QED BY SMTT(30), <4>1, <4>2, <4>3
    <3>2. a + MaxDelay <= b /\ Pending(e)' * MaxDelay = a
      BY <1>n, <1>m, <2>2 DEF Pending
    <3> HIDE DEF a, b
    <3> QED BY <1>t, <1>m, <2>1, <3>1, <3>2
  <2> QED BY <2>4, <2>5
<1>5. ASSUME NEW p \in Cpus, Add(p) PROVE Goal
  <2>1. cpu' = [cpu EXCEPT ![p] = Idle] /\ now' = now /\ cpu[p].pc = "add"
    BY <1>5 DEF Add, Pass
  <2>2. Adding(e)' = Adding(e) \ {p} /\ (p \in Adding(e) <=> e = cpu[p].elem)
    BY <1>p, <2>1 DEF Adding
  <2>3. /\ Len(avail') = Len(avail)
        /\ avail'[e] = IF e = cpu[p].elem THEN avail[e] + cpu[p].delay ELSE avail[e]
    <3>1. cpu[p].elem \in 1..Len(avail) /\ avail[cpu[p].elem] + cpu[p].delay \in Nat
      BY <2>1, PointsTo, LocalsTypes
    <3>2. avail' = [avail EXCEPT ![cpu[p].elem] = avail[cpu[p].elem] + cpu[p].delay]
      BY <1>5 DEF Add
    <3> QED BY <1>t, <3>1, <3>2, ExceptSeq
  <2>4. CASE e # cpu[p].elem
    <3>1. Adding(e)' = Adding(e)
      BY <2>2, <2>4
    <3> QED BY <1>t, <2>1, <2>3, <2>4, <3>1, SameDebt
  <2>5. CASE e = cpu[p].elem
    <3>1. Pending(e)' = Pending(e) - 1 /\ Pending(e)' \in Nat
      BY <1>n, <2>2, <2>5, FS_RemoveElement, FS_CardinalityType DEF Pending
    <3> DEFINE c == Pending(e)' * MaxDelay
    <3>2. c \in Nat /\ a = c + MaxDelay
      <4>1. (Pending(e)' + 1) * MaxDelay = Pending(e)' * MaxDelay + MaxDelay
        BY <1>t, <3>1, Products
      <4>2. Pending(e)' + 1 = Pending(e)
        BY <1>n, <3>1
      <4> QED BY <1>t, <3>1, <4>1, <4>2, Products
    <3>3. avail[e] \in Nat /\ avail[e] + a <= now + DROP_HORIZON + b
      <4>1. e \in 1..Len(avail)
        BY <2>3
      <4> QED BY <1>t, <4>1, ElementOfSeq DEF DebtInv
    <3>4. avail'[e] = avail[e] + cpu[p].delay /\ cpu[p].delay \in Nat /\ cpu[p].delay <= MaxDelay
      BY <2>3, <2>5, LocalsTypes
    <3> HIDE DEF a, b, c
    <3>5. avail'[e] + c <= now' + DROP_HORIZON + b
      <4>1. ASSUME NEW x \in Nat, NEW k \in Nat, NEW d \in Nat, NEW y \in Nat,
                   d <= MaxDelay, x + (k + MaxDelay) <= y
            PROVE  (x + d) + k <= y
        BY <1>t, <4>1
      <4>2. now + DROP_HORIZON + b \in Nat
        BY <1>t, <1>m
      <4>3. avail[e] + (c + MaxDelay) <= now + DROP_HORIZON + b
        BY <3>2, <3>3
      <4>4. (avail[e] + cpu[p].delay) + c <= now + DROP_HORIZON + b
        BY <3>2, <3>3, <3>4, <4>1, <4>2, <4>3
      <4> QED BY <2>1, <3>4, <4>4
    <3> QED BY <3>5 DEF c
  <2> QED BY <2>4, <2>5
<1>6. ASSUME NEW p \in Cpus, Create(p) PROVE Goal
  <2>1. cpu' = [cpu EXCEPT ![p] = Idle] /\ now' = now /\ cpu[p].pc = "create"
    BY <1>6 DEF Create, Pass
  <2>2. p \notin Adding(e) /\ Adding(e)' = Adding(e)
    BY <1>p, <2>1 DEF Adding
  <2>3. /\ Len(avail') = Len(avail) + 1
        /\ e \in 1..Len(avail) => avail'[e] = avail[e]
        /\ avail'[Len(avail) + 1] = FirstAvail(p)
    <3>1. FirstAvail(p) \in Nat
      BY LocalsTypes DEF FirstAvail
    <3> QED BY <1>6, <1>t, <3>1, AppendProperties DEF Create
  <2>4. CASE e \in 1..Len(avail)
    BY <1>t, <2>1, <2>2, <2>3, <2>4, SameDebt
  <2>5. CASE e = Len(avail) + 1
    <3>1. avail'[e] \in Nat /\ avail'[e] <= now + MaxDelay
      <4>1. avail'[e] = cpu[p].now + cpu[p].delay
        BY <2>3, <2>5 DEF FirstAvail
      <4>2. /\ cpu[p].now \in Nat /\ cpu[p].now <= now
            /\ cpu[p].delay \in Nat /\ cpu[p].delay <= MaxDelay
        BY <1>t, LocalsTypes
      <4>3. now \in Nat /\ MaxDelay \in Nat
        BY <1>t, ConstantsAssumption DEF TypeOK
      <4> HIDE DEF a, b
      <4> QED BY <4>1, <4>2, <4>3
    <3>2. a + MaxDelay <= b /\ Pending(e)' * MaxDelay = a
      BY <1>n, <1>m, <2>2 DEF Pending
    <3> HIDE DEF a, b
    <3> QED BY <1>t, <1>m, <2>1, <3>1, <3>2
  <2> QED BY <1>t, <2>3, <2>4, <2>5
<1>7. CASE cgroup_rate_limit_set \/ cgroup_rate_limit_unset \/ Tick \/ UNCHANGED vars
  <2>1. avail' = avail /\ cpu' = cpu /\ now' \in Nat /\ now' >= now
    BY <1>7, <1>t DEF cgroup_rate_limit_set, cgroup_rate_limit_unset, Tick, vars
  <2>2. Adding(e)' = Adding(e)
    BY <2>1 DEF Adding
  <2> QED BY <1>t, <2>1, <2>2, SameDebt
<1> QED BY <1>1, <1>2, <1>3, <1>4, <1>5, <1>6, <1>7 DEF Next, Run

\* The debt of a cgroup stays bounded, for every number of CPUs (bpf.c:97-101).
THEOREM DebtAlwaysBounded == Spec => []DebtBounded
<1>1. Init => DebtInv
  BY DEF Init, DebtInv
<1>2. TypeOK /\ DebtInv => DebtBounded
  <2> SUFFICES ASSUME TypeOK, DebtInv, NEW e \in 1..Len(avail)
               PROVE  avail[e] <= now + DROP_HORIZON + N * MaxDelay
    BY DEF DebtBounded, N
  <2> DEFINE a == Pending(e) * MaxDelay
             b == N * MaxDelay
  <2>1. a \in Nat /\ b \in Nat /\ avail[e] \in Nat /\ now \in Nat /\ DROP_HORIZON \in Nat
    <3>1. avail[e] \in Nat /\ now \in Nat /\ DROP_HORIZON \in Nat /\ MaxDelay \in Nat
      BY ConstantsAssumption, ElementOfSeq DEF TypeOK
    <3>2. Pending(e) \in Nat /\ N \in Nat
      BY PendingBound
    <3> QED BY <3>1, <3>2, Products
  <2>2. avail[e] + a <= now + DROP_HORIZON + b
    BY DEF DebtInv
  <2> HIDE DEF a, b
  <2>3. avail[e] <= now + DROP_HORIZON + b
    BY <2>1, <2>2
  <2> QED BY <2>3 DEF b
<1> QED BY <1>1, <1>2, DebtStep, TypeCorrect, PTL DEF Spec

-----------------------------------------------------------------------------
(* The pace.                                                               *)

\* The departure time the map holds for the next packet.
Due == IF Len(avail) = 0 THEN 0 ELSE avail[Len(avail)]

\* What a CPU whose lookup came after the last packet knows is still true.
UpToDate(p) ==
  /\ cpu[p].pc \in {"load", "store", "add"} => cpu[p].elem = Len(avail)
  /\ cpu[p].pc = "store" => Due < cpu[p].now
  /\ cpu[p].pc = "add" => Due = cpu[p].next
  /\ cpu[p].pc = "create" => Len(avail) = 0

\* The delay of a packet that was handled alone is in the map until the next
\* one is passed, and the CPUs that looked it up since then are up to date.
PaceInv ==
  /\ last.alone => last.tstamp + last.delay <= Due
  /\ \A p \in fresh : UpToDate(p)

\* A CPU that only changes its own locals leaves the others up to date.
LEMMA PaceKept ==
  ASSUME TypeOK, PaceInv, NEW p \in Cpus, NEW r, cpu' = [cpu EXCEPT ![p] = r],
         UNCHANGED <<avail, last>>, fresh' \subseteq fresh \cup {p},
         p \in fresh' => UpToDate(p)'
  PROVE  PaceInv'
<1>1. Due' = Due
  BY DEF Due
<1>2. ASSUME NEW q \in fresh', q # p PROVE UpToDate(q)'
  <2>1. q \in fresh /\ q \in Cpus /\ cpu'[q] = cpu[q]
    BY <1>2 DEF TypeOK
  <2> QED BY <1>1, <2>1 DEF PaceInv, UpToDate
<1>3. last'.alone => last'.tstamp + last'.delay <= Due'
  BY <1>1 DEF PaceInv
<1> QED BY <1>2, <1>3 DEF PaceInv

\* A packet that is passed leaves its delay in the map, if it was alone, and no
\* CPU up to date.
LEMMA PassKeeps ==
  ASSUME TypeOK, NEW p \in Cpus, NEW t \in Nat, Pass(p, t), p \in fresh => t + cpu[p].delay <= Due'
  PROVE  PaceInv'
<1>1. fresh' = {}
  BY DEF Pass
<1>2. ASSUME last'.alone PROVE last'.tstamp + last'.delay <= Due'
  <2>1. last'.tstamp = t /\ last'.delay = cpu[p].delay /\ p \in fresh
    BY <1>2 DEF Pass
  <2> QED BY <2>1
<1> QED BY <1>1, <1>2 DEF PaceInv

\* Every step keeps PaceInv and paces a packet after its predecessor
\* (bpf.c:90-107).
LEMMA PaceStep == TypeOK /\ PaceInv /\ [Next]_vars => PaceInv' /\ PacedInTurn
<1> SUFFICES ASSUME TypeOK, PaceInv, [Next]_vars PROVE PaceInv' /\ PacedInTurn
  OBVIOUS
<1>t. /\ avail \in Seq(Nat) /\ Len(avail) \in Nat /\ now \in Nat /\ cpu \in [Cpus -> Locals]
      /\ Due \in Nat /\ fresh \subseteq Cpus
      /\ last.tstamp \in Nat /\ last.delay \in Nat
  <2>1. last.tstamp \in Nat /\ last.delay \in Nat
    BY ConstantsAssumption DEF TypeOK
  <2> QED BY <2>1 DEF TypeOK, Due
<1>s. ASSUME NEW p \in Cpus, NEW r, cpu' = [cpu EXCEPT ![p] = r],
             cpu[p].pc \notin {"store", "add", "create"}
      PROVE  PacedInTurn
  <2>1. \A q \in Cpus : ~Passing(q)
    <3> SUFFICES ASSUME NEW q \in Cpus, Passing(q) PROVE FALSE
      OBVIOUS
    <3>1. q # p
      BY <1>s DEF Passing
    <3>2. cpu'[q] = cpu[q]
      BY <1>s, <1>t, <3>1
    <3> QED BY <3>2 DEF Passing
  <2> QED BY <1>t, <2>1 DEF PacedInTurn
<1>1. ASSUME NEW p \in Cpus, Arrive(p) PROVE PaceInv' /\ PacedInTurn
  <2>1. PICK d : cpu' = [cpu EXCEPT ![p] = [Idle EXCEPT !.pc = "lookup", !.delay = d]]
    BY <1>1 DEF Arrive
  <2> DEFINE r == [Idle EXCEPT !.pc = "lookup", !.delay = d]
  <2>2. cpu' = [cpu EXCEPT ![p] = r] /\ r.pc = "lookup"
    BY <2>1 DEF Idle
  <2> HIDE DEF r
  <2>3. UpToDate(p)'
    BY <1>t, <2>2 DEF UpToDate
  <2> QED BY <1>1, <1>s, <2>2, <2>3, PaceKept DEF Arrive
<1>2. ASSUME NEW p \in Cpus, Lookup(p) PROVE PaceInv' /\ PacedInTurn
  <2> DEFINE r == [cpu[p] EXCEPT !.pc = IF Found(Len(avail)) THEN "load" ELSE "create",
                                 !.elem = Len(avail), !.now = now]
  <2>1. /\ UNCHANGED <<avail, last>> /\ cpu' = [cpu EXCEPT ![p] = r] /\ cpu[p].pc = "lookup"
        /\ fresh' = fresh \cup {p}
    BY <1>2, <1>t DEF Lookup
  <2>2. r.elem = Len(avail) /\ r.pc = IF Found(Len(avail)) THEN "load" ELSE "create"
    BY LocalsTypes DEF Locals
  <2> HIDE DEF r
  <2>3. cpu'[p] = r
    BY <1>t, <2>1
  <2>4. UpToDate(p)'
    BY <1>t, <2>1, <2>2, <2>3 DEF UpToDate, Found
  <2> QED BY <1>s, <2>1, <2>4, PaceKept
<1>3. ASSUME NEW p \in Cpus, Load(p) PROVE PaceInv' /\ PacedInTurn
  <2> DEFINE next == avail[cpu[p].elem]
  <2>1. next \in Nat /\ cpu[p].elem \in 1..Len(avail) /\ cpu[p].now \in Nat
    BY <1>3, PointsTo, LocalsTypes DEF Load
  <2>2. PICK r : /\ cpu' = [cpu EXCEPT ![p] = r]
                 /\ \/ r = Idle
                    \/ r = [cpu[p] EXCEPT !.pc = "store", !.next = next] /\ next < cpu[p].now
                    \/ r = [cpu[p] EXCEPT !.pc = "add", !.next = next]
    BY <1>3 DEF Load, TypeOK
  <2>3. UNCHANGED <<avail, last, fresh>> /\ cpu[p].pc = "load"
    BY <1>3 DEF Load
  <2>4. ASSUME p \in fresh PROVE UpToDate(p)'
    <3>1. Due = next /\ Due' = Due /\ cpu[p].elem = Len(avail)
      <4>1. cpu[p].elem = Len(avail)
        BY <2>3, <2>4 DEF PaceInv, UpToDate
      <4> QED BY <1>t, <2>1, <2>3, <4>1 DEF Due
    <3>2. cpu'[p] = r
      BY <1>t, <2>2
    <3> HIDE DEF next
    <3>3. CASE r = Idle
      BY <3>2, <3>3, IdleLocals DEF UpToDate
    <3>4. CASE r = [cpu[p] EXCEPT !.pc = "store", !.next = next] /\ next < cpu[p].now
      <4>1. r.pc = "store" /\ r.elem = cpu[p].elem /\ r.now = cpu[p].now
        BY <3>4, LocalsTypes DEF Locals
      <4> QED BY <2>3, <3>1, <3>2, <3>4, <4>1 DEF UpToDate
    <3>5. CASE r = [cpu[p] EXCEPT !.pc = "add", !.next = next]
      <4>1. r.pc = "add" /\ r.elem = cpu[p].elem /\ r.next = next
        BY <3>5, LocalsTypes DEF Locals
      <4> QED BY <2>3, <3>1, <3>2, <4>1 DEF UpToDate
    <3> QED BY <2>2, <3>3, <3>4, <3>5
  <2> HIDE DEF next
  <2> QED BY <1>s, <2>2, <2>3, <2>4, PaceKept
<1>p. ASSUME NEW p \in Cpus, NEW t \in Nat, Pass(p, t), p \in fresh /\ last.alone => Due <= t
      PROVE  PacedInTurn
  <2> SUFFICES ASSUME NEW q \in fresh, Passing(q), last.alone
               PROVE  last'.tstamp >= last.tstamp + last.delay
    BY DEF PacedInTurn
  <2>1. q = p
    <3> SUFFICES ASSUME q # p PROVE FALSE
      OBVIOUS
    <3>1. cpu'[q] = cpu[q]
      BY <1>p, <1>t DEF Pass
    <3> QED BY <3>1 DEF Passing
  <2>2. last'.tstamp = t /\ Due <= t /\ last.tstamp + last.delay <= Due
    BY <1>p, <2>1 DEF Pass, PaceInv
  <2> QED BY <1>t, <1>p, <2>2
<1>4. ASSUME NEW p \in Cpus, Store(p) PROVE PaceInv' /\ PacedInTurn
  <2>1. /\ cpu[p].elem \in 1..Len(avail) /\ FirstAvail(p) \in Nat /\ cpu[p].now \in Nat
        /\ cpu[p].delay \in Nat /\ cpu[p].pc = "store" /\ Pass(p, cpu[p].now)
        /\ avail' = [avail EXCEPT ![cpu[p].elem] = FirstAvail(p)]
    BY <1>4, PointsTo, LocalsTypes DEF Store, FirstAvail
  <2>2. p \in fresh => Due < cpu[p].now /\ cpu[p].elem = Len(avail)
    BY <2>1 DEF PaceInv, UpToDate
  <2>3. p \in fresh => cpu[p].now + cpu[p].delay <= Due'
    <3>1. Len(avail') = Len(avail) /\ avail'[cpu[p].elem] = FirstAvail(p)
      BY <1>t, <2>1, ExceptSeq
    <3>2. p \in fresh => Due' = FirstAvail(p)
      BY <1>t, <2>1, <2>2, <3>1 DEF Due
    <3> QED BY <2>1, <3>2 DEF FirstAvail
  <2>4. Due <= cpu[p].now \/ p \notin fresh
    BY <1>t, <2>1, <2>2
  <2> QED BY <1>p, <2>1, <2>3, <2>4, PassKeeps
<1>5. ASSUME NEW p \in Cpus, Add(p) PROVE PaceInv' /\ PacedInTurn
  <2>1. /\ cpu[p].elem \in 1..Len(avail) /\ avail[cpu[p].elem] \in Nat /\ cpu[p].next \in Nat
        /\ cpu[p].delay \in Nat /\ cpu[p].pc = "add" /\ Pass(p, cpu[p].next)
        /\ avail' = [avail EXCEPT ![cpu[p].elem] = avail[cpu[p].elem] + cpu[p].delay]
    BY <1>5, PointsTo, LocalsTypes DEF Add
  <2>2. p \in fresh => Due = cpu[p].next /\ cpu[p].elem = Len(avail)
    BY <2>1 DEF PaceInv, UpToDate
  <2>3. p \in fresh => cpu[p].next + cpu[p].delay <= Due'
    <3>1. /\ Len(avail') = Len(avail)
          /\ avail'[cpu[p].elem] = avail[cpu[p].elem] + cpu[p].delay
      <4>1. avail[cpu[p].elem] + cpu[p].delay \in Nat
        BY <2>1
      <4> QED BY <1>t, <2>1, <4>1, ExceptSeq
    <3>2. p \in fresh => Due' = Due + cpu[p].delay
      BY <1>t, <2>1, <2>2, <3>1 DEF Due
    <3> QED BY <1>t, <2>1, <2>2, <3>2
  <2>4. Due <= cpu[p].next \/ p \notin fresh
    BY <1>t, <2>1, <2>2
  <2> QED BY <1>p, <2>1, <2>3, <2>4, PassKeeps
<1>6. ASSUME NEW p \in Cpus, Create(p) PROVE PaceInv' /\ PacedInTurn
  <2>1. /\ FirstAvail(p) \in Nat /\ cpu[p].now \in Nat /\ cpu[p].delay \in Nat
        /\ cpu[p].pc = "create" /\ Pass(p, cpu[p].now)
        /\ avail' = Append(avail, FirstAvail(p))
    BY <1>6, LocalsTypes DEF Create, FirstAvail
  <2>2. Due <= cpu[p].now \/ p \notin fresh
    BY <1>t, <2>1 DEF PaceInv, UpToDate, Due
  <2>3. cpu[p].now + cpu[p].delay <= Due'
    <3>1. Len(avail') = Len(avail) + 1 /\ avail'[Len(avail) + 1] = FirstAvail(p)
      BY <1>t, <2>1, AppendProperties
    <3>2. Due' = FirstAvail(p)
      BY <1>t, <3>1 DEF Due
    <3> QED BY <2>1, <3>2 DEF FirstAvail
  <2> QED BY <1>p, <2>1, <2>2, <2>3, PassKeeps
<1>7. CASE cgroup_rate_limit_set \/ cgroup_rate_limit_unset \/ Tick \/ UNCHANGED vars
  <2>1. UNCHANGED <<avail, cpu, last, fresh>>
    BY <1>7 DEF cgroup_rate_limit_set, cgroup_rate_limit_unset, Tick, vars
  <2>2. PaceInv'
    BY <2>1 DEF PaceInv, UpToDate, Due
  <2>3. PacedInTurn
    BY <2>1 DEF PacedInTurn, Passing
  <2> QED BY <2>2, <2>3
<1> QED BY <1>1, <1>2, <1>3, <1>4, <1>5, <1>6, <1>7 DEF Next, Run

\* On any number of CPUs, packets that are handled one after the other leave at
\* least their delays apart (bpf.c:90-107).
THEOREM PacedByDelay == Spec => PacedApart
<1>1. Init => PaceInv
  BY DEF Init, PaceInv, Due
<1>2. TypeOK /\ PaceInv /\ [Next]_vars => [PacedInTurn]_vars
  BY PaceStep
<1>3. TypeOK /\ PaceInv /\ [Next]_vars => PaceInv'
  BY PaceStep
<1> QED BY <1>1, <1>2, <1>3, TypeCorrect, PTL DEF Spec, PacedApart

-----------------------------------------------------------------------------
(* The delay of one packet meets both rates.                               *)

\* Rounded division (bpf.c:84-85): rate delays of the quotient are what units
\* need, to within half a delay.
LEMMA Nearest ==
  ASSUME NEW u \in Nat, NEW r \in Nat, r > 0
  PROVE  LET q == (u + r \div 2) \div r
         IN q \in Nat /\ 2 * (q * r) + r >= 2 * u /\ 2 * (q * r) - r <= 2 * u
<1> DEFINE h == r \div 2
           q == (u + h) \div r
<1>1. h \in Nat /\ 2 * h <= r /\ r <= 2 * h + 1
  OBVIOUS
<1> HIDE DEF h
<1>2. r * q <= u + h
  BY <1>1
<1>3. u + h < r * q + r
  BY <1>1
<1>4. q >= 0 /\ q \in Int
  BY <1>1
<1>5. q * r = r * q /\ r * q \in Int
  BY <1>4
<1> HIDE DEF q
<1>6. q \in Nat /\ 2 * (q * r) + r >= 2 * u /\ 2 * (q * r) - r <= 2 * u
  BY <1>1, <1>2, <1>3, <1>4, <1>5
<1> QED BY <1>6 DEF q, h

\* A longer delay is slower still.
LEMMA Longer ==
  ASSUME NEW d \in Nat, NEW q \in Nat, NEW r \in Nat, d >= q
  PROVE  d * r >= q * r /\ 2 * d * r = 2 * (d * r)
OBVIOUS

\* For all rates and lengths, the delay the program computes meets both rates to
\* within half a nanosecond and is not longer than one of them needs
\* (bpf.c:84-86).
THEOREM DelayMeetsRates == Spec => []RateMet
<1>1. TypeOK => RateMet
  <2> SUFFICES ASSUME TypeOK, NEW len \in Lens, limit # NoLimit, ~Blocking(limit)
               PROVE  LET d == Delay(limit, len)
                          Slow(rate, units) == rate = RATE_UNLIMITED \/ 2 * d * rate + rate >= 2 * units * NS_PER_SEC
                          Tight(rate, units) == rate # RATE_UNLIMITED /\ 2 * d * rate - rate <= 2 * units * NS_PER_SEC
                      IN /\ Slow(limit.byte_rate, len) /\ Slow(limit.packet_rate, 1)
                         /\ d = 0 \/ Tight(limit.byte_rate, len) \/ Tight(limit.packet_rate, 1)
    BY DEF RateMet
  <2> DEFINE br == limit.byte_rate
             pr == limit.packet_rate
             bu == len * NS_PER_SEC
             qb == (bu + br \div 2) \div br
             qp == (NS_PER_SEC + pr \div 2) \div pr
             b == IF br = RATE_UNLIMITED THEN 0 ELSE qb
             k == IF pr = RATE_UNLIMITED THEN 0 ELSE qp
             d == IF k > b THEN k ELSE b
  <2>1. len \in Nat /\ NS_PER_SEC \in Nat /\ br \in Nat /\ pr \in Nat /\ br > 0 /\ pr > 0
    BY ConstantsAssumption DEF TypeOK, Blocking
  <2>2. Delay(limit, len) = d
    BY DEF Delay
  <2> HIDE DEF br, pr
  <2>3. bu \in Nat /\ 2 * len * NS_PER_SEC = 2 * bu /\ 2 * 1 * NS_PER_SEC = 2 * NS_PER_SEC
    BY <2>1
  <2> HIDE DEF bu
  <2>4. qb \in Nat /\ 2 * (qb * br) + br >= 2 * bu /\ 2 * (qb * br) - br <= 2 * bu
    BY <2>1, <2>3, Nearest
  <2>5. qp \in Nat /\ 2 * (qp * pr) + pr >= 2 * NS_PER_SEC /\ 2 * (qp * pr) - pr <= 2 * NS_PER_SEC
    BY <2>1, Nearest
  <2> HIDE DEF qb, qp
  <2>6. /\ b \in Nat /\ k \in Nat /\ d \in Nat /\ d >= b /\ d >= k /\ d \in {b, k}
        /\ br # RATE_UNLIMITED => b = qb
        /\ pr # RATE_UNLIMITED => k = qp
        /\ br = RATE_UNLIMITED => b = 0
        /\ pr = RATE_UNLIMITED => k = 0
    BY <2>4, <2>5
  <2> HIDE DEF b, k, d
  <2>7. 2 * d * br = 2 * (d * br) /\ 2 * d * pr = 2 * (d * pr) /\ d * br \in Nat /\ d * pr \in Nat
    BY <2>1, <2>6
  <2>8. br = RATE_UNLIMITED \/ 2 * d * br + br >= 2 * len * NS_PER_SEC
    <3>1. br # RATE_UNLIMITED => d * br >= qb * br /\ qb * br \in Nat
      BY <2>1, <2>4, <2>6, Longer
    <3> QED BY <2>1, <2>3, <2>4, <2>7, <3>1
  <2>9. pr = RATE_UNLIMITED \/ 2 * d * pr + pr >= 2 * 1 * NS_PER_SEC
    <3>1. pr # RATE_UNLIMITED => d * pr >= qp * pr /\ qp * pr \in Nat
      BY <2>1, <2>5, <2>6, Longer
    <3> QED BY <2>1, <2>3, <2>5, <2>7, <3>1
  <2>10. \/ d = 0
         \/ br # RATE_UNLIMITED /\ 2 * d * br - br <= 2 * len * NS_PER_SEC
         \/ pr # RATE_UNLIMITED /\ 2 * d * pr - pr <= 2 * 1 * NS_PER_SEC
    <3>1. CASE d = b
      BY <2>3, <2>4, <2>6, <2>7, <3>1
    <3>2. CASE d = k
      BY <2>3, <2>5, <2>6, <2>7, <3>2
    <3> QED BY <2>6, <3>1, <3>2
  <2> QED BY <2>2, <2>8, <2>9, <2>10 DEF br, pr
<1> QED BY <1>1, TypeCorrect, PTL

=============================================================================
