------------------------------ MODULE RunQueue -------------------------------
(***************************************************************************)
(* What the coroutine scheduler promises (s_task.h:55-88), without lists   *)
(* and pointers: a FIFO of ready tasks, a FIFO of waiters per event, and   *)
(* waits that return 0 when the event was set, -1 when they were cancelled.*)
(* The main program is one of the tasks; it queues itself behind the tasks *)
(* that are ready and gets control back in its turn.                       *)
(***************************************************************************)
EXTENDS Integers, Sequences, FiniteSets

CONSTANTS Tasks, Main, Events

VARIABLES run,      \* the task that has control
          ready,    \* the tasks that will have it, in order
          waits,    \* the tasks waiting for each event, in order
          told,     \* the tasks that were cancelled since they lost control
          ret       \* what the wait of the running task returned

qvars == <<run, ready, waits, told, ret>>

Init ==
  /\ run = Main /\ ready = <<>> /\ told = {} /\ ret = 0
  /\ waits = [e \in Events |-> <<>>]

Create(t) ==
  /\ run = Main
  /\ ready' = Append(ready, t)
  /\ told' = told \ {t}
  /\ UNCHANGED <<run, waits, ret>>

\* All waiters of e become ready, in the order in which they came.
Set(e) ==
  /\ run = Main
  /\ ready' = ready \o waits[e]
  /\ waits' = [waits EXCEPT ![e] = <<>>]
  /\ UNCHANGED <<run, told, ret>>

Without(s, t) ==
  IF \E i \in 1..Len(s) : s[i] = t
    THEN LET k == CHOOSE i \in 1..Len(s) : s[i] = t IN
         SubSeq(s, 1, k - 1) \o SubSeq(s, k + 1, Len(s))
    ELSE s

\* Task t leaves whatever it is in and becomes ready.
Cancel(t) ==
  /\ run = Main
  /\ ready' = Append(Without(ready, t), t)
  /\ waits' = [e \in Events |-> Without(waits[e], t)]
  /\ told' = told \cup {t}
  /\ UNCHANGED <<run, ret>>

\* The head of the queue gets control, and its wait has returned.
Resume(q) ==
  /\ q # <<>>
  /\ run' = Head(q)
  /\ ready' = Tail(q)
  /\ told' = told \ {Head(q)}
  /\ ret' = IF Head(q) \in told THEN -1 ELSE 0

Yield == run = Main /\ ready # <<>> /\ Resume(Append(ready, Main)) /\ UNCHANGED waits
Wait(e) == run # Main /\ waits' = [waits EXCEPT ![e] = Append(@, run)] /\ Resume(ready)
Exit == run # Main /\ Resume(ready) /\ UNCHANGED waits

Next ==
  \/ \E t \in Tasks : Create(t) \/ Cancel(t)
  \/ \E e \in Events : Set(e) \/ Wait(e)
  \/ Yield \/ Exit

Spec == Init /\ [][Next]_qvars
=============================================================================
