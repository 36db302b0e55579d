---------------------------- MODULE RateLimitBpf -----------------------------
(***************************************************************************)
(* The BPF program cgroup_rate_limit, run by several CPUs at once for the  *)
(* packets of one cgroup, while the daemon sets and removes its limit.     *)
(* The program only gives a packet a departure time (skb->tstamp), passes  *)
(* it or drops it; the fq qdisc holds the packet until then.               *)
(*                                                                         *)
(* The steps of a CPU are its accesses to shared memory.  An entry of the  *)
(* map of departure times, once created, stays; but two CPUs may create it,*)
(* and then the first element is replaced while others still have a        *)
(* pointer to it.  So avail is the sequence of all elements the cgroup     *)
(* ever had, and the map holds the last one.                               *)
(*                                                                         *)
(* The 64-bit sums and products of the program do not wrap: lengths are    *)
(* below 2^20, and DebtBounded keeps next_avail_ts near the clock.         *)
(***************************************************************************)
EXTENDS Integers, Sequences, FiniteSets

CONSTANTS Cpus,
          NS_PER_SEC, DROP_HORIZON, RATE_UNLIMITED,
          Lens,      \* packet lengths
          Limits,    \* the struct rate_limit values the daemon stores
          MaxDelay,  \* the longest delay of one packet, see DelayAssumption
          MaxNow,    \* where the clock stops
          NoLimit    \* no entry in rate_limit_map

Delay_Truncated(rl, len) ==
  LET byte == IF rl.byte_rate = RATE_UNLIMITED THEN 0
              ELSE (len * NS_PER_SEC) \div rl.byte_rate
      pkt == IF rl.packet_rate = RATE_UNLIMITED THEN 0
             ELSE NS_PER_SEC \div rl.packet_rate
  IN IF pkt > byte THEN pkt ELSE byte

\* delay_ns of a packet: the larger of what the two rates ask for, each rounded
\* to the nearest nanosecond.
Delay(rl, len) ==
  LET byte == IF rl.byte_rate = RATE_UNLIMITED THEN 0
              ELSE (len * NS_PER_SEC + rl.byte_rate \div 2) \div rl.byte_rate
      pkt == IF rl.packet_rate = RATE_UNLIMITED THEN 0
             ELSE (NS_PER_SEC + rl.packet_rate \div 2) \div rl.packet_rate
  IN IF pkt > byte THEN pkt ELSE byte

Blocking(rl) == rl.byte_rate = 0 \/ rl.packet_rate = 0

ASSUME ConstantsAssumption ==
  /\ IsFiniteSet(Cpus) /\ NoLimit \notin Limits
  /\ NS_PER_SEC \in Nat /\ DROP_HORIZON \in Nat /\ MaxDelay \in Nat /\ MaxNow \in Nat
  /\ Lens \subseteq Nat
  /\ \A rl \in Limits : rl.byte_rate \in Nat /\ rl.packet_rate \in Nat

ASSUME DelayAssumption ==
  \A rl \in Limits, len \in Lens : ~Blocking(rl) => Delay(rl, len) \in 0..MaxDelay

VARIABLES
  limit,   \* the cgroup's entry in rate_limit_map
  avail,   \* next_avail_ts of the elements of rate_limit_priv_map
  now,     \* bpf_ktime_get_ns
  cpu,     \* where the program is on each CPU, and its locals
  last,    \* the last packet that was passed with a departure time (auxiliary)
  fresh    \* the CPUs whose lookup came after that packet (auxiliary)

vars == <<limit, avail, now, cpu, last, fresh>>

Idle == [pc |-> "idle", delay |-> 0, elem |-> 0, now |-> 0, next |-> 0]

\* The CPUs about to add to element e.
Adding(e) == {p \in Cpus : cpu[p].pc = "add" /\ cpu[p].elem = e}

Locals == [pc : {"idle", "lookup", "load", "store", "add", "create"},
           delay : 0..MaxDelay, elem : Nat, now : Nat, next : Nat]

\* The types; a CPU past the lookup has a pointer to an element (bpf.c:90), and
\* its reading of the clock is not ahead of it.
TypeOK ==
  /\ limit \in Limits \cup {NoLimit}
  /\ avail \in Seq(Nat)
  /\ now \in Nat
  /\ cpu \in [Cpus -> Locals]
  /\ \A p \in Cpus : cpu[p].pc \in {"load", "store", "add"} => cpu[p].elem \in 1..Len(avail)
  /\ \A p \in Cpus : cpu[p].now <= now
  /\ last \in [tstamp : Nat, delay : 0..MaxDelay, alone : BOOLEAN]
  /\ fresh \subseteq Cpus

Init ==
  /\ limit = NoLimit /\ avail = <<>> /\ now = 0
  /\ cpu = [p \in Cpus |-> Idle]
  /\ last = [tstamp |-> 0, delay |-> 0, alone |-> TRUE] /\ fresh = {}

-----------------------------------------------------------------------------
(* The program.                                                            *)

\* A packet passes unpaced if its cgroup has no limit and is dropped if a rate
\* is 0; neither leaves a trace.  Otherwise its delay is computed.
Arrive(p) ==
  /\ cpu[p].pc = "idle" /\ limit # NoLimit /\ ~Blocking(limit)
  /\ \E len \in Lens :
       cpu' = [cpu EXCEPT ![p] = [Idle EXCEPT !.pc = "lookup", !.delay = Delay(limit, len)]]
  /\ UNCHANGED <<limit, avail, now, last, fresh>>

Found_Always(e) == TRUE

\* bpf_map_lookup_elem returned an element.
Found(e) == e > 0

\* The lookup of the element, and the clock.
Lookup(p) ==
  /\ cpu[p].pc = "lookup"
  /\ cpu' = [cpu EXCEPT ![p] =
               [@ EXCEPT !.pc = IF Found(Len(avail)) THEN "load" ELSE "create",
                         !.elem = Len(avail), !.now = now]]
  /\ fresh' = fresh \cup {p}
  /\ UNCHANGED <<limit, avail, now, last>>

BeyondHorizon_Never(next, t) == FALSE

BeyondHorizon(next, t) == next > t + DROP_HORIZON

\* next_avail_ts is read: it is in the past, too far ahead (the packet is
\* dropped), or the departure time of the packet.
Load(p) ==
  /\ cpu[p].pc = "load"
  /\ LET next == avail[cpu[p].elem] IN
       cpu' = [cpu EXCEPT ![p] =
                 IF next < @.now THEN [@ EXCEPT !.pc = "store", !.next = next]
                 ELSE IF BeyondHorizon(next, @.now) THEN Idle
                 ELSE [@ EXCEPT !.pc = "add", !.next = next]]
  /\ UNCHANGED <<limit, avail, now, last, fresh>>

\* The packet is passed with departure time t.  It was alone if no other packet
\* was passed since its lookup.
Pass(p, t) ==
  /\ last' = [tstamp |-> t, delay |-> cpu[p].delay, alone |-> p \in fresh]
  /\ fresh' = {}
  /\ cpu' = [cpu EXCEPT ![p] = Idle]
  /\ UNCHANGED <<limit, now>>

FirstAvail_NoDelay(p) == cpu[p].now

\* Where the next packet may leave after one that leaves now.
FirstAvail(p) == cpu[p].now + cpu[p].delay

\* The plain store.
Store(p) ==
  /\ cpu[p].pc = "store"
  /\ avail' = [avail EXCEPT ![cpu[p].elem] = FirstAvail(p)]
  /\ Pass(p, cpu[p].now)

\* The atomic addition, to whatever the value is by now.
Add(p) ==
  /\ cpu[p].pc = "add"
  /\ avail' = [avail EXCEPT ![cpu[p].elem] = @ + cpu[p].delay]
  /\ Pass(p, cpu[p].next)

\* bpf_map_update_elem with BPF_ANY: a new element, in place of any other.
Create(p) ==
  /\ cpu[p].pc = "create"
  /\ avail' = Append(avail, FirstAvail(p))
  /\ Pass(p, cpu[p].now)

Run(p) == Arrive(p) \/ Lookup(p) \/ Load(p) \/ Store(p) \/ Add(p) \/ Create(p)

-----------------------------------------------------------------------------
(* The daemon and the clock.                                               *)

cgroup_rate_limit_set ==
  /\ limit' \in Limits
  /\ UNCHANGED <<avail, now, cpu, last, fresh>>

cgroup_rate_limit_unset ==
  /\ limit # NoLimit /\ limit' = NoLimit
  /\ UNCHANGED <<avail, now, cpu, last, fresh>>

Tick ==
  /\ now < MaxNow /\ now' = now + 1
  /\ UNCHANGED <<limit, avail, cpu, last, fresh>>

Next ==
  \/ \E p \in Cpus : Run(p)
  \/ cgroup_rate_limit_set \/ cgroup_rate_limit_unset \/ Tick

Spec == Init /\ [][Next]_vars

-----------------------------------------------------------------------------
(* Properties.                                                             *)

\* However many CPUs pass the test against DROP_HORIZON before any of them adds
\* its delay (bpf.c:97-101), next_avail_ts stays within the horizon plus one
\* packet per CPU: a cgroup that was dropped can send again after that time.
DebtBounded ==
  \A e \in 1..Len(avail) : avail[e] <= now + DROP_HORIZON + Cardinality(Cpus) * MaxDelay

\* CPU p passes its packet.
Passing(p) == cpu[p].pc \in {"store", "add", "create"} /\ cpu'[p].pc = "idle"

\* Of two packets in a row, on whatever CPUs, the second leaves at least the
\* delay of the first after it (bpf.c:90-107), whatever limits the daemon stores
\* in between, provided that no other packet was passed while either of them was
\* being handled; on one CPU that is always so.
PacedInTurn ==
  \A p \in fresh : Passing(p) /\ last.alone => last'.tstamp >= last.tstamp + last.delay

PacedApart == [][PacedInTurn]_vars

\* What the store of CPU p would overwrite is the value it has read or the one
\* it writes: "racy, not an issue, same value expected" (bpf.c:93).
SameValueExpected ==
  \A p \in Cpus : cpu[p].pc = "store" => avail[cpu[p].elem] \in {cpu[p].next, FirstAvail(p)}

\* Under the limit in the map, the delay of a packet of any length meets both
\* rates to within half a nanosecond, and is not longer than one of them needs
\* (bpf.c:84-86).
RateMet ==
  \A len \in Lens : limit # NoLimit /\ ~Blocking(limit) =>
    LET d == Delay(limit, len)
        Slow(rate, units) == rate = RATE_UNLIMITED \/ 2 * d * rate + rate >= 2 * units * NS_PER_SEC
        Tight(rate, units) == rate # RATE_UNLIMITED /\ 2 * d * rate - rate <= 2 * units * NS_PER_SEC
    IN /\ Slow(limit.byte_rate, len) /\ Slow(limit.packet_rate, 1)
       /\ d = 0 \/ Tight(limit.byte_rate, len) \/ Tight(limit.packet_rate, 1)
=============================================================================
