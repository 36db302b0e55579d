------------------------------- MODULE TcSetup -------------------------------
(***************************************************************************)
(* The daemon's start-up (main.c), the set-up of the interfaces it does    *)
(* over rtnetlink (tcbpf_util.c, rtnl_util.c), and what is left of it when *)
(* the daemon stops, crashes or is started again: qdiscs and filters stay  *)
(* in the kernel, sockets do not.                                          *)
(***************************************************************************)
EXTENDS Integers, Sequences

CONSTANTS Devices,   \* network interfaces
          IfaceList, \* the names in IFACES
          InitDev,   \* the states each interface may be in before the first start
          MaxRuns,   \* how often the daemon is started
          Faults     \* what may fail: "boot" (a start-up step), "send", "recv"
                     \* (no answer is read, or not all of it), "refuse" (the
                     \* kernel refuses a request it could serve)

Kinds == {"fq", "mq", "other"}

\* An interface, as far as the daemon changes it: the root qdisc; the queues that
\* have an fq qdisc under an mq root; the handles of foreign qdiscs below the root;
\* what is attached at the clsact hook, the daemon's filter there (the number of the
\* run whose program it holds, or 0), whether a filter of another kind has its
\* priority, and whether there are filters of other programs.
Device == [ queues : Nat, kind : Kinds, handle : Nat, fq : SUBSET Nat, used : SUBSET Nat,
            clsact : {"none", "ingress", "clsact"}, filter : Nat, foreign : BOOLEAN,
            others : BOOLEAN ]

ASSUME ListAssumption == IfaceList \in Seq(Devices)
ASSUME InitAssumption == InitDev \in [Devices -> SUBSET Device]
                         /\ \A d \in Devices : \A x \in InitDev[d] : x.filter = 0
ASSUME FaultsAssumption == Faults \subseteq {"boot", "send", "recv", "refuse"}

VARIABLES dev,         \* the kernel's state
          pc, run,     \* where the daemon is, and the number of this run
          k,           \* the position in IFACES
          attr,        \* struct iface_attr
          root_handle, i, nr_try,
          seq,         \* rth->seq, since rtnl_open
          answers,     \* datagrams [seq, ok] waiting on the netlink socket
          faulted      \* something has failed in this run

vars == <<dev, pc, run, k, attr, root_handle, i, nr_try, seq, answers, faulted>>

Steps == {"down", "boot", "open", "props", "root", "mq", "child", "clsact", "clsact_del",
          "filter", "filter_del", "after", "serving", "failed"}

Init ==
  /\ dev \in {f \in [Devices -> UNION {InitDev[d] : d \in Devices}] :
                \A d \in Devices : f[d] \in InitDev[d]}
  /\ pc = "down" /\ run = 0 /\ k = 1
  /\ attr = [queues |-> 0, kind |-> "other"]
  /\ root_handle = 1 /\ i = 1 /\ nr_try = 0
  /\ seq = 0 /\ answers = <<>> /\ faulted = FALSE

Cur == IfaceList[k]
Here == dev[Cur]

-----------------------------------------------------------------------------
(* rtnetlink.                                                              *)

Matches_Any(a) == TRUE

\* rtnl_talk takes an answer for its own only if the sequence number is that of the
\* request.
Matches(a) == a.seq = seq

\* rtnl_talk: a request about the current interface which the kernel carries out
\* (giving the interface the state after) if it can, and its answer.  The kernel
\* answers every request; one datagram is read, and any but the expected one is an
\* error.
Talk(can, after, rc) ==
  /\ seq' = seq + 1
  /\ \/ /\ "send" \in Faults /\ rc = "err"
        /\ faulted' = TRUE
        /\ UNCHANGED <<dev, answers>>
     \/ \E does \in {can} \cup (IF "refuse" \in Faults THEN {FALSE} ELSE {}) :
          LET queue == Append(answers, [seq |-> seq, ok |-> does]) IN
            /\ dev' = IF does THEN [dev EXCEPT ![Cur] = after] ELSE dev
            /\ \/ /\ "recv" \in Faults /\ rc = "err"
                  /\ faulted' = TRUE
                  /\ answers' \in {queue, Tail(queue)}
               \/ /\ rc = IF Matches(Head(queue)) /\ Head(queue).ok THEN "ok" ELSE "err"
                  /\ faulted' = (faulted \/ (can /\ ~does))
                  /\ answers' = Tail(queue)

-----------------------------------------------------------------------------
(* tc_setup_one_inferface.                                                 *)

\* if_nametoindex finds no such interface, or bpf_program__fd no program.
GiveUp ==
  /\ pc = "props" \/ (pc = "filter" /\ nr_try = 0)
  /\ "boot" \in Faults /\ pc' = "failed" /\ faulted' = TRUE
  /\ UNCHANGED <<dev, run, k, attr, root_handle, i, nr_try, seq, answers>>

\* get_iface_props.
GetProps ==
  /\ pc = "props"
  /\ \E rc \in {"ok", "err"} :
       /\ Talk(TRUE, Here, rc)
       /\ IF rc = "ok"
            THEN attr' = [queues |-> Here.queues, kind |-> Here.kind]
            ELSE attr' = [queues |-> 0, kind |-> "other"]
       /\ pc' = IF attr'.queues = 0 THEN "failed" ELSE IF attr'.queues = 1 THEN "root" ELSE "mq"
  /\ root_handle' = 1 /\ i' = 1 /\ nr_try' = 0
  /\ UNCHANGED <<run, k>>

\* One queue: fq becomes the root, unless it already is.
SetRoot ==
  /\ pc = "root"
  /\ IF attr.kind = "fq"
       THEN pc' = "clsact" /\ UNCHANGED <<dev, seq, answers, faulted>>
       ELSE \E rc \in {"ok", "err"} :
              /\ Talk(TRUE, [Here EXCEPT !.kind = "fq", !.handle = 0, !.used = {}], rc)
              /\ pc' = IF rc = "ok" THEN "clsact" ELSE "failed"
  /\ UNCHANGED <<run, k, attr, root_handle, i, nr_try>>

\* The kernel does not take a handle that a qdisc of another kind has, such as the
\* fq qdiscs below an mq this daemon numbered (the kernel numbers neither its own mq
\* nor what it puts below); a new root replaces everything below the old one.
HandleFree(x, h) ==
  IF x.handle = h THEN x.kind = "mq"
  ELSE h \notin x.used /\ (x.kind = "mq" /\ x.handle # 0 => \A q \in x.fq : q + x.handle # h)
NewRoot(x, h) ==
  IF x.handle = h THEN x
  ELSE [x EXCEPT !.kind = "mq", !.handle = h, !.fq = {}, !.used = {}]

\* Several queues: mq at the root, at handle 1: or else at 2:.
SetMq ==
  /\ pc = "mq"
  /\ \E rc \in {"ok", "err"} :
       /\ Talk(HandleFree(Here, root_handle), NewRoot(Here, root_handle), rc)
       /\ \/ rc = "ok" /\ pc' = "child" /\ UNCHANGED root_handle
          \/ rc = "err" /\ root_handle' = root_handle + 1
             /\ pc' = IF root_handle' > 2 THEN "failed" ELSE "mq"
  /\ UNCHANGED <<run, k, attr, i, nr_try>>

\* This queue is the last.
LastQueue == i >= attr.queues

\* ... and fq at queue i below it, one after the other.
SetChild ==
  /\ pc = "child"
  /\ \E rc \in {"ok", "err"} :
       /\ Talk(i + root_handle \notin Here.used, [Here EXCEPT !.fq = @ \cup {i}], rc)
       /\ pc' = IF rc = "err" THEN "failed" ELSE IF LastQueue THEN "clsact" ELSE "child"
  /\ i' = i + 1
  /\ UNCHANGED <<run, k, attr, root_handle, nr_try>>

Again_Never(del) == "failed"

\* A request that fails is tried again after a deletion, once.
Again(del) == IF nr_try > 0 THEN "failed" ELSE del

ClsactFits_Exclusive(x) == x.clsact = "none"

\* The request replaces a qdisc of its own kind.
ClsactFits(x) == x.clsact # "ingress"

\* A clsact qdisc at its hook, or else what is there is deleted.
SetClsact ==
  /\ pc = "clsact"
  /\ \E rc \in {"ok", "err"} :
       /\ Talk(ClsactFits(Here), [Here EXCEPT !.clsact = "clsact"], rc)
       /\ pc' = IF rc = "ok" THEN "filter" ELSE Again("clsact_del")
       /\ nr_try' = IF rc = "ok" THEN 0 ELSE nr_try
  /\ UNCHANGED <<run, k, attr, root_handle, i>>

DelClsact ==
  /\ pc = "clsact_del"
  /\ \E rc \in {"ok", "err"} :
       /\ Talk(Here.clsact # "none", [Here EXCEPT !.clsact = "none", !.filter = 0,
                                                  !.foreign = FALSE, !.others = FALSE], rc)
       /\ pc' = IF rc = "ok" THEN "clsact" ELSE "failed"
  /\ nr_try' = nr_try + 1
  /\ UNCHANGED <<run, k, attr, root_handle, i>>

\* The next name in IFACES; after the last, the netlink socket is closed.
NextIface ==
  IF k < Len(IfaceList)
    THEN k' = k + 1 /\ pc' = "props"
    ELSE UNCHANGED k /\ pc' = "after"

\* The filter request neither needs a filter of its kind to be there nor its absence.
FilterFits(x) == x.clsact = "clsact" /\ ~x.foreign

\* This run's program as the filter at the daemon's priority, in place of that of an
\* earlier run, or else the priority is cleared.
SetFilter ==
  /\ pc = "filter"
  /\ \E rc \in {"ok", "err"} :
       /\ Talk(FilterFits(Here), [Here EXCEPT !.filter = run], rc)
       /\ \/ rc = "ok" /\ NextIface
          \/ rc = "err" /\ UNCHANGED k /\ pc' = Again("filter_del")
  /\ UNCHANGED <<run, attr, root_handle, i, nr_try>>

DelFilter ==
  /\ pc = "filter_del"
  /\ \E rc \in {"ok", "err"} :
       /\ Talk(Here.foreign \/ Here.filter # 0, [Here EXCEPT !.filter = 0, !.foreign = FALSE], rc)
       /\ pc' = IF rc = "ok" THEN "filter" ELSE "failed"
  /\ nr_try' = nr_try + 1
  /\ UNCHANGED <<run, k, attr, root_handle, i>>

-----------------------------------------------------------------------------
(* main().                                                                 *)

\* The daemon is started, for the first time or after it stopped, failed or crashed.
Start ==
  /\ pc \in {"down", "failed"} /\ run < MaxRuns
  /\ run' = run + 1 /\ pc' = "boot" /\ faulted' = FALSE
  /\ UNCHANGED <<dev, k, attr, root_handle, i, nr_try, seq, answers>>

\* A step with no other effect here, that may fail.
Step(from, to) ==
  /\ pc = from
  /\ \/ pc' = to /\ UNCHANGED faulted
     \/ "boot" \in Faults /\ pc' = "failed" /\ faulted' = TRUE

\* install_signals, cg_find_unified and open_and_load_bpf_obj.
Boot == Step("boot", "open") /\ UNCHANGED <<dev, run, k, attr, root_handle, i, nr_try, seq, answers>>

\* rtnl_open, in tc_setup_inferface.  An empty IFACES is an error; one with commas
\* only names no interface and is none.
Open ==
  /\ Step("open", IF IfaceList = <<>> THEN "after" ELSE "props")
  /\ k' = 1 /\ seq' = 0 /\ answers' = <<>>
  /\ UNCHANGED <<dev, run, attr, root_handle, i, nr_try>>

\* The event loop, its signals, the bus, the listening socket and the sleep timer.
Listen == Step("after", "serving") /\ UNCHANGED <<dev, run, k, attr, root_handle, i, nr_try, seq, answers>>

\* The daemon exits when idle or asked to, or crashes at any time.
Stop ==
  /\ pc \notin {"down", "failed"}
  /\ pc' = "down"
  /\ UNCHANGED <<dev, run, k, attr, root_handle, i, nr_try, seq, answers, faulted>>

Over ==
  /\ pc \in {"down", "failed"} /\ run = MaxRuns
  /\ UNCHANGED vars

Setup == GiveUp \/ GetProps \/ SetRoot \/ SetMq \/ SetChild \/ SetClsact \/ DelClsact \/ SetFilter \/ DelFilter

Next == Start \/ Boot \/ Open \/ Setup \/ Listen \/ Stop \/ Over

Spec == Init /\ [][Next]_vars

-----------------------------------------------------------------------------
(* Properties.                                                             *)

\* Traffic of x is paced: this run's program sees every packet that leaves, and an fq
\* qdisc on every queue obeys the departure times it sets.
Limited(x) ==
  /\ x.clsact = "clsact" /\ x.filter = run
  /\ IF x.queues = 1 THEN x.kind = "fq" ELSE x.kind = "mq" /\ 1..x.queues \subseteq x.fq

\* When the daemon takes clients, every interface in IFACES is paced by the program
\* whose maps this run writes, whatever an earlier run or somebody else left behind
\* and whatever failed on the way (tcbpf_util.c:291-455, main.c:440-450).
ServingLimited == pc = "serving" => \A j \in 1..Len(IfaceList) : Limited(dev[IfaceList[j]])

\* What an earlier run left, however it ended, is no obstacle to the next: start-up
\* fails only if something does, or the interface has no queue or has foreign qdiscs
\* below its root (tcbpf_util.c:333-347, 358-378, 390-410).
FailsForCause == pc = "failed" => faulted \/ Here.queues = 0 \/ Here.used # {}

\* Unless something fails, a clsact qdisc that is already there is kept, with the
\* filters other programs have on it (tcbpf_util.c:358-378).
OthersKept ==
  [][\A d \in Devices : dev[d].clsact = "clsact" /\ dev[d].others /\ ~dev'[d].others => faulted']_vars
=============================================================================
