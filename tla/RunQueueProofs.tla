--------------------------- MODULE RunQueueProofs ----------------------------
(***************************************************************************)
(* The coroutine library implements RunQueue: the lists of pointers that   *)
(* STask keeps are queues, and every call of the library changes them as   *)
(* RunQueue says, for every number of tasks and every order of calls.      *)
(*                                                                         *)
(* It takes three parts.  A step of the program changes the queue s on the *)
(* ring of active_tasks, and the waiters of the events, as a step of       *)
(* RunQueue changes its variables; for that QueueInv adds to SchedInv what *)
(* the tasks in the queue are doing (Flags).  What Elements finds when it  *)
(* follows the pointers is that queue and those waiters.  The two together *)
(* make every step a step of RunQueue, or none that it sees.               *)
(***************************************************************************)
EXTENDS STaskProofs

\* The waiters of an event: its own task or nobody.
Waiting(r, e) == IF r.next[WaitList(e)] = Node(e[2]) THEN <<e[2]>> ELSE <<>>

Waiters(r) == [e \in Events |-> Waiting(r, e)]

\* Who is in the queue s has not run yet, waits for something that has happened, or
\* has ended and was cancelled since; a task that has not run yet is in the queue, and
\* nobody has cancelled it, for main lets it run before the next handler.
Flags(s, pcs, wc) ==
  /\ wc \in [Threads -> BOOLEAN]
  /\ \A t \in Tasks :
       /\ pcs[t] \in {"none", "entry", "run", "wait", "closed"}
       /\ InQueue(s, t) => pcs[t] \in {"entry", "wait"} \/ (pcs[t] = "closed" /\ wc[t])
       /\ pcs[t] = "entry" => InQueue(s, t) /\ ~wc[t] /\ pcs[Main] = "loop"

\* What RunQueue sees of the lists.
WaitSeqs == [e \in Events |-> IF e \in LiveEvents THEN TaskSeq(WaitList(e)) ELSE <<>>]

Told == {t \in Tasks : waiting_cancelled[t] /\ t # current_task}

Returned == IF Exited THEN -1 ELSE ret

\* The lists of a step are the queue s and the waiters, before it and s2 after it.
Seen(s, s2) ==
  /\ TaskSeq(Active) = s /\ WaitSeqs = Waiters(ring)
  /\ TaskSeq(Active)' = s2 /\ WaitSeqs' = Waiters(ring')

\* The head of the queue s gets control.
Switched(s, r, pcs, wc) ==
  /\ s # <<>> /\ current_task' = Head(s) /\ Queue(ring', Tail(s)) /\ Waiters(ring') = Waiters(r)
  /\ pc' = IF pcs[Head(s)] \in {"entry", "wait"} THEN [pcs EXCEPT ![Head(s)] = "run"] ELSE pcs
  /\ ret' = IF pcs[Head(s)] = "wait" /\ wc[Head(s)] THEN -1 ELSE 0
  /\ waiting_cancelled' = IF pcs[Head(s)] = "wait" THEN [wc EXCEPT ![Head(s)] = FALSE] ELSE wc

\* A queue is empty exactly if its ring is.
LEMMA EmptyQueue ==
  ASSUME NEW r, Well(r, Nodes), NEW s, Queue(r, s)
  PROVE  Alone(r, Active) <=> s = <<>>
<1>1. s \in Seq(Threads) /\ Len(s) \in Nat /\ r.next[At(s, 0)] = At(s, 0 + 1) /\ At(s, 0) = Active
  BY QueueFacts DEF Queue
<1>2. CASE s = <<>>
  BY <1>1, <1>2 DEF At, Alone
<1>3. CASE s # <<>>
  <2>1. 1 \in 1..Len(s)
    BY <1>1, <1>3
  <2> QED BY <1>1, <1>3, <2>1, QueueFacts DEF Alone
<1> QED BY <1>2, <1>3

\* s_task_call_next on rings with the queue s (s_task.c:37-60).
LEMMA GivesControl ==
  ASSUME NEW r, Shape(r), NEW s, Queue(r, s), s # <<>>, NEW pcs, NEW wc, CallNext(r, pcs, wc)
  PROVE  Switched(s, r, pcs, wc)
<1>1. ~Alone(r, Active)
  BY EmptyQueue DEF Shape
<1>2. PICK t \in Threads : /\ r.next[Active] = Node(t) /\ r.next[Active][3] = t
                           /\ Taken(s_list_detach(r, r.next[Active]), r, t)
  BY <1>1, TakeFirst
<1>3. /\ Taken(ring', r, t) /\ current_task' = t
      /\ pc' = IF pcs[t] \in {"entry", "wait"} THEN [pcs EXCEPT ![t] = "run"] ELSE pcs
      /\ ret' = IF pcs[t] = "wait" /\ wc[t] THEN -1 ELSE 0
      /\ waiting_cancelled' = IF pcs[t] = "wait" THEN [wc EXCEPT ![t] = FALSE] ELSE wc
  BY Zenon, <1>1, <1>2 DEF CallNext, s_list_is_empty, Alone
<1>4. t = Head(s) /\ Queue(ring', Tail(s))
  BY <1>3 DEF Taken
<1>5. Waiters(ring') = Waiters(r)
  BY <1>3 DEF Taken, Waiters, Waiting
<1> QED BY <1>3, <1>4, <1>5 DEF Switched

\* Nobody in the queue waits.
LEMMA WaiterNotQueued ==
  ASSUME NEW r, Well(r, Nodes), NEW s, Queue(r, s), NEW e \in Events, r.next[WaitList(e)] = Node(e[2])
  PROVE  ~InQueue(s, e[2])
<1> SUFFICES ASSUME NEW i \in 1..Len(s), s[i] = e[2] PROVE FALSE
  BY DEF InQueue
<1>1. r.prev[Node(e[2])] = At(s, i - 1) /\ i - 1 \in Nat
  BY QueueFacts
<1>2. At(s, i - 1) # WaitList(e)
  BY <1>1, QueueFacts
<1>3. WaitList(e) \in Nodes
  BY NodeFacts
<1> QED BY <1>1, <1>2, <1>3, WellFacts

\* The running task is not in the queue.
LEMMA AloneNotQueued ==
  ASSUME NEW r, Well(r, Nodes), NEW s, Queue(r, s), NEW t, Alone(r, Node(t))
  PROVE  ~InQueue(s, t)
BY SMTT(30), QueueFacts DEF InQueue

\* Who is in a queue with one task more at its end (s_list_attach, s_list.c:42-54).
LEMMA InAppend ==
  ASSUME NEW S, NEW s \in Seq(S), NEW t \in S, NEW u
  PROVE  InQueue(Append(s, t), u) <=> InQueue(s, u) \/ u = t
<1>1. /\ Len(Append(s, t)) = Len(s) + 1 /\ Len(s) \in Nat /\ Append(s, t)[Len(s) + 1] = t
      /\ \A i \in 1..Len(s) : Append(s, t)[i] = s[i]
  OBVIOUS
<1>2. ASSUME InQueue(Append(s, t), u) PROVE InQueue(s, u) \/ u = t
  <2>1. PICK i \in 1..(Len(s) + 1) : Append(s, t)[i] = u
    BY <1>1, <1>2 DEF InQueue
  <2> QED BY <1>1, <2>1 DEF InQueue
<1>3. ASSUME InQueue(s, u) \/ u = t PROVE InQueue(Append(s, t), u)
  <2>1. CASE u = t
    BY <1>1, <2>1 DEF InQueue
  <2>2. CASE InQueue(s, u)
    BY <1>1, <2>2 DEF InQueue
  <2> QED BY <1>3, <2>1, <2>2
<1> QED BY <1>2, <1>3

\* Who is in a queue whose head was taken (s_task_call_next, s_task.c:37-60).
LEMMA InTail ==
  ASSUME NEW S, NEW s \in Seq(S), s # <<>>, NEW u
  PROVE  /\ Head(s) \in S /\ Tail(s) \in Seq(S) /\ InQueue(s, Head(s))
         /\ InQueue(s, u) <=> InQueue(Tail(s), u) \/ u = Head(s)
<1>1. /\ Len(Tail(s)) = Len(s) - 1 /\ Len(s) \in Nat /\ Len(s) # 0 /\ Head(s) = s[1] /\ Head(s) \in S
      /\ Tail(s) \in Seq(S) /\ \A i \in 1..(Len(s) - 1) : Tail(s)[i] = s[i + 1]
  OBVIOUS
<1>2. ASSUME InQueue(s, u) PROVE InQueue(Tail(s), u) \/ u = Head(s)
  <2>1. PICK i \in 1..Len(s) : s[i] = u
    BY <1>2 DEF InQueue
  <2>2. CASE i = 1
    BY <1>1, <2>1, <2>2
  <2>3. CASE i # 1
    <3>1. i - 1 \in 1..Len(Tail(s)) /\ Tail(s)[i - 1] = s[(i - 1) + 1] /\ (i - 1) + 1 = i
      BY <1>1, <2>3
    <3> QED BY Zenon, <2>1, <3>1 DEF InQueue
  <2> QED BY <2>2, <2>3
<1>3. 1 \in 1..Len(s)
  BY <1>1
<1>4. InQueue(s, Head(s))
  BY <1>1, <1>3 DEF InQueue
<1>5. ASSUME InQueue(Tail(s), u) PROVE InQueue(s, u)
  <2>1. PICK i \in 1..(Len(s) - 1) : Tail(s)[i] = u
    BY <1>1, <1>5 DEF InQueue
  <2>2. i + 1 \in 1..Len(s) /\ s[i + 1] = u
    BY <1>1, <2>1
  <2> QED BY <2>2 DEF InQueue
<1> QED BY <1>1, <1>2, <1>4, <1>5

\* Who is in a queue that t was taken out of (s_list_detach, s_list.c:47-59).
LEMMA InWithout ==
  ASSUME NEW S, NEW s \in Seq(S), \A i, j \in 1..Len(s) : s[i] = s[j] => i = j, NEW t
  PROVE  /\ RQ!Without(s, t) \in Seq(S)
         /\ \A u : InQueue(RQ!Without(s, t), u) <=> InQueue(s, u) /\ u # t
<1>1. CASE ~InQueue(s, t)
  BY <1>1, Removed
<1>2. CASE InQueue(s, t)
  <2> DEFINE w == RQ!Without(s, t)
  <2>1. PICK k \in 1..Len(s) : s[k] = t
    BY <1>2 DEF InQueue
  <2>2. Dropped(w, s, k, S)
    BY <2>1, Removed
  <2> HIDE DEF w
  <2>3. /\ w \in Seq(S) /\ Len(w) = Len(s) - 1 /\ Len(s) \in Nat
        /\ \A i \in 1..(Len(s) - 1) : w[i] = IF i < k THEN s[i] ELSE s[i + 1]
    BY <2>2 DEF Dropped
  <2>4. ASSUME NEW u, InQueue(w, u) PROVE InQueue(s, u) /\ u # t
    <3>1. PICK i \in 1..(Len(s) - 1) : w[i] = u
      BY <2>3, <2>4 DEF InQueue
    <3>2. PICK j \in 1..Len(s) : j # k /\ s[j] = u
      <4>1. CASE i < k
        BY <2>3, <3>1, <4>1
      <4>2. CASE ~(i < k)
        <5>1. i + 1 \in 1..Len(s) /\ i + 1 # k /\ s[i + 1] = u
          BY <2>3, <3>1, <4>2
        <5> QED BY <5>1
      <4> QED BY <4>1, <4>2
    <3> QED BY <2>1, <3>2 DEF InQueue
  <2>5. ASSUME NEW u, InQueue(s, u), u # t PROVE InQueue(w, u)
    <3>1. PICK j \in 1..Len(s) : s[j] = u
      BY <2>5 DEF InQueue
    <3>2. j # k
      BY <2>1, <2>5, <3>1
    <3>3. CASE j < k
      <4>1. j \in 1..Len(w) /\ w[j] = u
        BY <2>3, <3>1, <3>3
      <4> QED BY <4>1 DEF InQueue
    <3>4. CASE ~(j < k)
      <4>1. j - 1 \in 1..(Len(s) - 1) /\ ~(j - 1 < k) /\ (j - 1) + 1 = j
        BY <2>3, <3>2, <3>4
      <4>2. j - 1 \in 1..Len(w) /\ w[j - 1] = u
        BY <2>3, <3>1, <4>1
      <4> QED BY <4>2 DEF InQueue
    <3> QED BY <3>3, <3>4
  <2> QED BY <2>3, <2>4, <2>5 DEF w
<1> QED BY <1>1, <1>2

\* The head of the queue gets control, and learns whether it was cancelled.
LEMMA Resumes ==
  ASSUME NEW r, NEW s, Queue(r, s), NEW P, NEW pcs \in [Threads -> P], NEW wc, Flags(s, pcs, wc),
         pcs[Main] = "loop", Switched(s, r, pcs, wc)
  PROVE  /\ Flags(Tail(s), pc', waiting_cancelled')
         /\ Told' = {t \in Tasks : wc[t]} \ {Head(s)}
         /\ Returned' = IF Head(s) \in {t \in Tasks : wc[t]} THEN -1 ELSE 0
<1> DEFINE h == Head(s)
<1>0. Main \in Threads /\ Main \notin Tasks /\ Tasks \subseteq Threads /\ wc \in [Threads -> BOOLEAN]
  BY TasksAssumption DEF Threads, Flags
<1>1. /\ s \in Seq(Threads) /\ s # <<>> /\ h \in Threads /\ InQueue(s, h)
      /\ \A u : InQueue(s, u) <=> InQueue(Tail(s), u) \/ u = h
  BY InTail DEF Queue, Switched
<1>2. ~InQueue(Tail(s), h)
  <2>1. /\ Len(s) \in Nat /\ Len(s) # 0 /\ h = s[1] /\ Len(Tail(s)) = Len(s) - 1
        /\ \A i \in 1..(Len(s) - 1) : Tail(s)[i] = s[i + 1]
    BY <1>1
  <2> SUFFICES ASSUME NEW i \in 1..(Len(s) - 1), Tail(s)[i] = h PROVE FALSE
    BY <2>1 DEF InQueue
  <2>2. i + 1 \in 1..Len(s) /\ 1 \in 1..Len(s) /\ s[i + 1] = s[1] /\ i + 1 # 1
    BY <2>1
  <2> QED BY <2>2 DEF Queue
<1>3. /\ current_task' = h
      /\ pc' = IF pcs[h] \in {"entry", "wait"} THEN [pcs EXCEPT ![h] = "run"] ELSE pcs
      /\ ret' = IF pcs[h] = "wait" /\ wc[h] THEN -1 ELSE 0
      /\ waiting_cancelled' = IF pcs[h] = "wait" THEN [wc EXCEPT ![h] = FALSE] ELSE wc
  BY DEF Switched
<1> HIDE DEF h
<1>4. /\ \A u \in Threads : pc'[u] = IF u = h /\ pcs[h] \in {"entry", "wait"} THEN "run" ELSE pcs[u]
      /\ waiting_cancelled' \in [Threads -> BOOLEAN]
      /\ \A u \in Threads : waiting_cancelled'[u] = IF u = h /\ pcs[h] = "wait" THEN FALSE ELSE wc[u]
  BY Zenon, <1>0, <1>1, <1>3
<1>5. Flags(Tail(s), pc', waiting_cancelled')
  <2>1. ASSUME NEW u \in Tasks
        PROVE  /\ pc'[u] \in {"none", "entry", "run", "wait", "closed"}
               /\ InQueue(Tail(s), u) => \/ pc'[u] \in {"entry", "wait"}
                                         \/ pc'[u] = "closed" /\ waiting_cancelled'[u]
               /\ pc'[u] = "entry" => InQueue(Tail(s), u) /\ ~waiting_cancelled'[u] /\ pc'[Main] = "loop"
    <3>1. CASE u = h
      BY <1>0, <1>1, <1>2, <1>4, <3>1 DEF Flags
    <3>2. CASE u # h
      <4>1. pc'[u] = pcs[u] /\ waiting_cancelled'[u] = wc[u] /\ (InQueue(Tail(s), u) <=> InQueue(s, u))
        BY Zenon, <1>0, <1>1, <1>4, <3>2
      <4>2. pc'[Main] = "loop"
        BY <1>0, <1>4
      <4> QED BY <4>1, <4>2 DEF Flags
    <3> QED BY <3>1, <3>2
  <2> QED BY <1>4, <2>1 DEF Flags
<1>6. Told' = {t \in Tasks : wc[t]} \ {h}
  BY <1>0, <1>3, <1>4 DEF Told
<1>7. Returned' = IF h \in {t \in Tasks : wc[t]} THEN -1 ELSE 0
  <2>1. CASE h = Main
    BY <1>0, <1>3, <2>1 DEF Returned, Exited
  <2>2. CASE h # Main
    <3>1. h \in Tasks /\ (pcs[h] \in {"entry", "wait"} \/ (pcs[h] = "closed" /\ wc[h])) /\ (pcs[h] = "entry" => ~wc[h])
      BY <1>1, <2>2 DEF Flags, Threads
    <3>2. Exited' <=> pcs[h] = "closed"
      BY <1>1, <1>3, <1>4, <2>2, <3>1 DEF Exited
    <3> QED BY <1>3, <3>1, <3>2 DEF Returned
  <2> QED BY <2>1, <2>2
<1> QED BY <1>5, <1>6, <1>7 DEF h

\* A task at the end of a queue, and not in it before, taken out again.
LEMMA LastRemoved ==
  ASSUME NEW S, NEW s \in Seq(S), NEW t \in S, ~InQueue(s, t),
         \A i, j \in 1..Len(s) : s[i] = s[j] => i = j
  PROVE  RQ!Without(Append(s, t), t) = s
<1> DEFINE a == Append(s, t)
           w == RQ!Without(a, t)
<1>1. /\ a \in Seq(S) /\ Len(a) = Len(s) + 1 /\ Len(s) \in Nat /\ a[Len(s) + 1] = t
      /\ \A i \in 1..Len(s) : a[i] = s[i]
  OBVIOUS
<1> HIDE DEF a
<1>2. \A i, j \in 1..Len(a) : a[i] = a[j] => i = j
  BY <1>1 DEF InQueue
<1>3. Dropped(w, a, Len(s) + 1, S)
  BY <1>1, <1>2, Removed
<1> HIDE DEF w
<1>4. w \in Seq(S) /\ Len(w) = Len(s) /\ \A i \in 1..Len(s) : w[i] = s[i]
  BY <1>1, <1>3 DEF Dropped
<1>5. w = s
  BY <1>4
<1> QED BY <1>5 DEF w, a

\* The waiters of an event without t.
LEMMA WaitingWithout ==
  ASSUME NEW r, NEW e \in Events, NEW t
  PROVE  RQ!Without(Waiting(r, e), t) = IF e[2] = t THEN <<>> ELSE Waiting(r, e)
<1> DEFINE w == Waiting(r, e)
<1>1. w \in Seq(Tasks) /\ \A i, j \in 1..Len(w) : w[i] = w[j] => i = j
  <2>1. <<>> \in Seq(Tasks) /\ Len(<<>>) = 0
    OBVIOUS
  <2>2. e[2] \in Tasks
    BY NodeFacts
  <2>3. <<e[2]>> \in Seq(Tasks) /\ Len(<<e[2]>>) = 1
    BY <2>2
  <2> QED BY <2>1, <2>3 DEF Waiting
<1>2. CASE ~InQueue(w, t)
  <2>1. RQ!Without(w, t) = w
    BY <1>1, <1>2, Removed
  <2>2. e[2] = t => w = <<>>
    <3> SUFFICES ASSUME e[2] = t, w = <<t>> PROVE FALSE
      BY DEF Waiting
    <3>1. 1 \in 1..Len(w) /\ w[1] = t
      OBVIOUS
    <3> HIDE DEF w
    <3> QED BY <1>2, <3>1 DEF InQueue
  <2> QED BY <2>1, <2>2
<1>3. CASE InQueue(w, t)
  <2>0. Len(<<>>) = 0
    OBVIOUS
  <2>1. w = <<e[2]>>
    <3>1. w # <<>>
      BY <1>3, <2>0 DEF InQueue
    <3> QED BY <3>1 DEF Waiting
  <2>2. Len(w) = 1 /\ w[1] = e[2]
    BY <2>1
  <2> HIDE DEF w
  <2>3. w[1] = t /\ 1 \in 1..Len(w)
    BY <1>3, <2>2 DEF InQueue
  <2>4. Dropped(RQ!Without(w, t), w, 1, Tasks)
    BY <1>1, <2>3, Removed
  <2>5. RQ!Without(w, t) \in Seq(Tasks) /\ Len(RQ!Without(w, t)) = 0
    BY <2>2, <2>4 DEF Dropped
  <2>6. RQ!Without(w, t) = <<>>
    BY <2>5
  <2> QED BY <2>2, <2>3, <2>6 DEF w
<1> QED BY <1>2, <1>3 DEF w

\* s_event_set moves the waiters to the end of the queue (s_event.c:83-101).
LEMMA SetQueue ==
  ASSUME NEW r, Shape(r), NEW e \in Events, NEW s, Queue(r, s), NEW q, q = s_event_set(r, e)
  PROVE  /\ Queue(q, s \o Waiters(r)[e])
         /\ Waiters(q) = [Waiters(r) EXCEPT ![e] = <<>>]
<1>0. /\ s \in Seq(Threads) /\ Well(r, Nodes) /\ Waiters(r)[e] = Waiting(r, e)
      /\ \A f \in Events : e[2] \in Tasks /\ Node(e[2]) # WaitList(f)
      /\ r.next[WaitList(e)] \in {WaitList(e), Node(e[2])}
      /\ e[2] \in Threads
  BY NodeFacts DEF Queue, Shape, TaskShape, Pairs, Waiters, Threads
<1>1. CASE Alone(r, WaitList(e))
  <2>1. q = r
    BY <1>1, SetWakes
  <2>2. Waiting(r, e) = <<>>
    BY <1>0, <1>1 DEF Waiting, Alone
  <2>3. s \o <<>> = s
    BY <1>0
  <2>4. Waiters(r) = [Waiters(r) EXCEPT ![e] = <<>>]
    BY <1>0, <2>2 DEF Waiters
  <2> QED BY <1>0, <2>1, <2>2, <2>3, <2>4
<1>2. CASE ~Alone(r, WaitList(e))
  <2>1. Woken(q, r, e[2], e)
    BY <1>2, SetWakes
  <2>2. r.next[WaitList(e)] = Node(e[2]) /\ Waiting(r, e) = <<e[2]>>
    BY <1>0, <1>2 DEF Waiting, Alone
  <2>3. ~InQueue(s, e[2])
    BY <1>0, <2>2, WaiterNotQueued
  <2>4. RQ!Without(s, e[2]) = s
    BY <1>0, <2>3, Removed DEF Queue
  <2>5. Queue(q, Append(s, e[2]))
    BY <2>1, <2>4 DEF Woken
  <2>6. Append(s, e[2]) = s \o <<e[2]>>
    BY <1>0
  <2>7. Waiting(q, e) = <<>> /\ \A f \in Events \ {e} : Waiting(q, f) = Waiting(r, f)
    BY <1>0, <2>1 DEF Woken, Waiting, Alone
  <2>8. Waiters(q) = [Waiters(r) EXCEPT ![e] = <<>>]
    BY Zenon, <2>7 DEF Waiters
  <2> QED BY <1>0, <2>2, <2>5, <2>6, <2>8
<1> QED BY <1>1, <1>2

\* s_task_cancel_wait moves the task to the end of the queue, from wherever it is
\* (s_task.c:183-196).
LEMMA CancelQueue ==
  ASSUME NEW r, NEW pcs, NEW st, Consistent(r, pcs, waiting_event, st), NEW t \in Tasks,
         NEW s, Queue(r, s), NEW q, q = CancelLinks(r, t)
  PROVE  /\ Queue(q, Append(RQ!Without(s, t), t))
         /\ Waiters(q) = [e \in Events |-> RQ!Without(Waiters(r)[e], t)]
<1>0. Shape(r) /\ t \in Threads /\ Base(r)
  BY DEF Consistent, Threads, Shape, Base
<1>1. ASSUME NEW f \in Events, r.next[WaitList(f)] = Node(t) PROVE waiting_event[t] = f /\ f[2] = t
  <2>1. r.next[WaitList(f)] \in {WaitList(f), Node(f[2])} /\ f[2] \in Threads
    BY <1>0, NodeFacts DEF Shape, TaskShape, Pairs, Threads
  <2>2. f[2] = t
    BY <1>0, <1>1, <2>1, NodeFacts
  <2> QED BY <1>1, <2>2 DEF Consistent
<1>2. /\ Queue(q, Append(RQ!Without(s, t), t))
      /\ \A f \in Events : Waiting(q, f) = IF f[2] = t THEN <<>> ELSE Waiting(r, f)
  <2>1. CASE waiting_event[t] = NoEvent
    <3>1. Requeued(q, r, t)
      BY <1>0, <2>1, RequeueTask DEF CancelLinks
    <3>2. ASSUME NEW f \in Events PROVE q.next[WaitList(f)] = r.next[WaitList(f)] /\ r.next[WaitList(f)] # Node(t)
      BY <1>1, <2>1, <3>1, NodeFacts DEF Requeued
    <3> QED BY <3>1, <3>2 DEF Requeued, Waiting
  <2>2. CASE waiting_event[t] # NoEvent
    <3> DEFINE e == waiting_event[t]
    <3>1. e \in Events /\ e[2] = t
      BY <2>2 DEF Consistent, Events
    <3>2. q = s_event_remove_from_waiting_list(Requeue(r, t), e)
      BY <2>2 DEF CancelLinks
    <3>3. Woken(q, r, t, e)
      BY Zenon, <1>0, <1>1, <3>1, <3>2, WakeTask
    <3> HIDE DEF e
    <3>4. ASSUME NEW f \in Events PROVE Waiting(q, f) = IF f[2] = t THEN <<>> ELSE Waiting(r, f)
      <4>1. CASE f = e
        <5>1. q.next[WaitList(f)] # Node(t)
          BY <1>0, <3>3, <4>1, NodeFacts DEF Woken, Alone
        <5> QED BY <3>1, <4>1, <5>1 DEF Waiting
      <4>2. CASE f # e
        <5>1. q.next[WaitList(f)] = r.next[WaitList(f)]
          BY <3>3, <4>2 DEF Woken
        <5>2. f[2] = t => r.next[WaitList(f)] # Node(t)
          BY <1>1, <4>2 DEF e
        <5> QED BY <5>1, <5>2 DEF Waiting
      <4> QED BY <4>1, <4>2
    <3> QED BY <3>3, <3>4 DEF Woken
  <2> QED BY <2>1, <2>2
<1>3. ASSUME NEW f \in Events PROVE Waiters(q)[f] = RQ!Without(Waiters(r)[f], t)
  <2>1. Waiters(q)[f] = Waiting(q, f) /\ Waiters(r)[f] = Waiting(r, f)
    BY DEF Waiters
  <2> QED BY <1>2, <2>1, WaitingWithout
<1>4. Waiters(q) = [f \in Events |-> Waiters(q)[f]]
  BY DEF Waiters
<1> QED BY <1>2, <1>3, <1>4

\* A step from the queue s to s2 keeps Flags and is one of RunQueue, or none.
Refines(s, s2) ==
  /\ Queue(ring', s2) /\ Flags(s2, pc', waiting_cancelled')
  /\ Seen(s, s2) => [RQ!Next]_(RQ!qvars)

\* A step that changes neither the queue nor the waiters nor who is told what.
LEMMA NothingSeen ==
  ASSUME NEW s, Flags(s, pc', waiting_cancelled'), Queue(ring', s), Waiters(ring') = Waiters(ring),
         Told' = Told, Returned' = Returned, UNCHANGED current_task
  PROVE  Refines(s, s)
<1>1. ASSUME Seen(s, s) PROVE UNCHANGED RQ!qvars
  BY <1>1 DEF Seen, RQ!qvars, WaitSeqs, Told, Returned
<1> QED BY <1>1 DEF Refines

\* On the main stack nothing is returned.
LEMMA OnMain ==
  ASSUME current_task = Main, UNCHANGED <<current_task, ret>>
  PROVE  Returned' = Returned
BY DEF Returned, Exited

\* The tasks' positions after a handler: those of pcs, and main is at n.
LEMMA MainMoves ==
  ASSUME NEW P, NEW pcs \in [Threads -> P], NEW n, pc' = [pcs EXCEPT ![Main] = n]
  PROVE  pc'[Main] = n /\ \A t \in Tasks : pc'[t] = pcs[t]
BY TasksAssumption DEF Threads

\* se_task_create is Create.
LEMMA CreateMaps ==
  ASSUME SchedInv, NEW s, Queue(ring, s), Flags(s, pc, waiting_cancelled),
         NEW t \in Tasks, se_task_create(t)
  PROVE  Refines(s, Append(s, t))
<1>0. /\ current_task = Main /\ UNCHANGED <<current_task, ret>> /\ pc[t] = "none"
      /\ pc' = [[pc EXCEPT ![t] = "entry"] EXCEPT ![Main] = "loop"]
      /\ waiting_cancelled' = [waiting_cancelled EXCEPT ![t] = FALSE]
      /\ t \in Threads /\ s \in Seq(Threads) /\ Main \in Threads /\ Main \notin Tasks
  BY TasksAssumption DEF se_task_create, Handler, ToLoop, Threads, Queue
<1>1. Queue(ring', Append(s, t)) /\ Waiters(ring') = Waiters(ring)
  BY CreateStep DEF Waiters, Waiting
<1>2. /\ pc'[Main] = "loop" /\ pc'[t] = "entry" /\ \A u \in Tasks : u # t => pc'[u] = pc[u]
      /\ waiting_cancelled' \in [Threads -> BOOLEAN] /\ ~waiting_cancelled'[t]
      /\ \A u \in Tasks : u # t => waiting_cancelled'[u] = waiting_cancelled[u]
  <2>1. /\ pc \in [Threads -> {"none", "entry", "run", "wait", "closed", "idle", "loop", "interrupt"}]
        /\ waiting_cancelled \in [Threads -> BOOLEAN] /\ Tasks \subseteq Threads
    BY DEF SchedInv, Consistent, Flags, Threads
  <2> QED BY <1>0, <2>1
<1>3. \A u : InQueue(Append(s, t), u) <=> InQueue(s, u) \/ u = t
  BY <1>0, InAppend
<1>4. Flags(Append(s, t), pc', waiting_cancelled')
  BY <1>2, <1>3 DEF Flags
<1>5. Told' = Told \ {t}
  BY <1>0, <1>2 DEF Told
<1>6. Returned' = Returned
  BY <1>0, OnMain
<1>7. ASSUME Seen(s, Append(s, t)) PROVE RQ!Create(t)
  <2>1. TaskSeq(Active)' = Append(TaskSeq(Active), t) /\ WaitSeqs' = WaitSeqs
    BY <1>1, <1>7 DEF Seen
  <2> QED BY <1>0, <1>5, <1>6, <2>1 DEF RQ!Create, WaitSeqs, Told, Returned
<1> QED BY <1>1, <1>4, <1>7 DEF Refines, RQ!Next

\* What setting an event leaves is in the queue: its waiter was waiting.
LEMMA SetFlags ==
  ASSUME Consistent(ring, pc, waiting_event, stream), NEW s, Queue(ring, s), NEW e \in Events,
         Flags(s, pc, waiting_cancelled), NEW pcs,
         pcs[Main] = "loop", \A t \in Tasks : pcs[t] = pc[t]
  PROVE  Flags(s \o Waiters(ring)[e], pcs, waiting_cancelled)
<1>0. s \in Seq(Threads) /\ Waiters(ring)[e] = Waiting(ring, e) /\ e[2] \in Threads
  BY NodeFacts DEF Queue, Waiters, Threads
<1>1. CASE ring.next[WaitList(e)] # Node(e[2])
  <2>1. s \o Waiters(ring)[e] = s
    BY <1>0, <1>1 DEF Waiting
  <2> QED BY <2>1 DEF Flags
<1>2. CASE ring.next[WaitList(e)] = Node(e[2])
  <2>1. pc[e[2]] = "wait"
    BY <1>2 DEF Consistent
  <2>2. s \o Waiters(ring)[e] = Append(s, e[2])
    BY <1>0, <1>2 DEF Waiting
  <2>3. \A u : InQueue(s \o Waiters(ring)[e], u) <=> InQueue(s, u) \/ u = e[2]
    BY <1>0, <2>2, InAppend
  <2> QED BY <2>1, <2>3 DEF Flags
<1> QED BY <1>1, <1>2

\* The event is set, nothing else happens to the queues: this is Set.
LEMMA SetSeen ==
  ASSUME SchedInv, NEW s, Queue(ring, s), Flags(s, pc, waiting_cancelled), NEW e \in Events,
         current_task = Main, UNCHANGED <<current_task, ret, waiting_cancelled>>,
         ring' = s_event_set(ring, e), ToLoop(pc)
  PROVE  Refines(s, s \o Waiters(ring)[e])
<1>0. /\ Consistent(ring, pc, waiting_event, stream) /\ Shape(ring)
      /\ pc \in [Threads -> {"none", "entry", "run", "wait", "closed", "idle", "loop", "interrupt"}]
  BY DEF SchedInv, Consistent
<1>1. /\ Queue(ring', s \o Waiters(ring)[e])
      /\ Waiters(ring') = [Waiters(ring) EXCEPT ![e] = <<>>]
  BY <1>0, SetQueue
<1>2. pc'[Main] = "loop" /\ \A t \in Tasks : pc'[t] = pc[t]
  BY Zenon, <1>0, MainMoves DEF ToLoop
<1>3. Flags(s \o Waiters(ring)[e], pc', waiting_cancelled')
  BY <1>0, <1>2, SetFlags
<1>4. Told' = Told /\ Returned' = Returned
  BY OnMain DEF Told
<1>5. ASSUME Seen(s, s \o Waiters(ring)[e]) PROVE RQ!Set(e)
  <2>1. TaskSeq(Active)' = TaskSeq(Active) \o WaitSeqs[e] /\ WaitSeqs' = [WaitSeqs EXCEPT ![e] = <<>>]
    BY <1>1, <1>5 DEF Seen
  <2> QED BY <1>4, <2>1 DEF RQ!Set, WaitSeqs, Told, Returned
<1> QED BY <1>1, <1>3, <1>5 DEF Refines, RQ!Next

\* SetEvent is Set.
LEMMA SetMaps ==
  ASSUME SchedInv, NEW s, Queue(ring, s), Flags(s, pc, waiting_cancelled),
         NEW e \in Events, SetEvent(e)
  PROVE  \E s2 : Refines(s, s2)
<1>1. /\ current_task = Main /\ UNCHANGED <<current_task, ret, waiting_cancelled>>
      /\ ring' = s_event_set(ring, e) /\ ToLoop(pc)
  BY DEF SetEvent, Handler
<1>2. Refines(s, s \o Waiters(ring)[e])
  BY <1>1, SetSeen
<1> QED BY <1>2

\* The task leaves whatever it is in, with its flag set: this is Cancel.
LEMMA CancelSeen ==
  ASSUME SchedInv, NEW s, Queue(ring, s), Flags(s, pc, waiting_cancelled), NEW t \in Tasks,
         current_task = Main, UNCHANGED <<current_task, ret>>,
         pc[Main] # "loop", pc[t] # "none", \A u \in Tasks : pc'[u] = pc[u],
         waiting_cancelled' = [waiting_cancelled EXCEPT ![t] = TRUE],
         Queue(ring', Append(RQ!Without(s, t), t)),
         Waiters(ring') = [e \in Events |-> RQ!Without(Waiters(ring)[e], t)]
  PROVE  Refines(s, Append(RQ!Without(s, t), t))
<1> DEFINE s2 == Append(RQ!Without(s, t), t)
<1>0. /\ t \in Threads /\ t # Main /\ Tasks \subseteq Threads /\ pc[t] # "run"
      /\ waiting_cancelled \in [Threads -> BOOLEAN]
  BY TasksAssumption, MainFacts DEF Threads, Flags
<1>1. \A u : InQueue(s2, u) <=> (InQueue(s, u) /\ u # t) \/ u = t
  <2>1. /\ RQ!Without(s, t) \in Seq(Threads)
        /\ \A u : InQueue(RQ!Without(s, t), u) <=> InQueue(s, u) /\ u # t
    BY InWithout DEF Queue
  <2> QED BY <1>0, <2>1, InAppend
<1>2. /\ waiting_cancelled' \in [Threads -> BOOLEAN] /\ waiting_cancelled'[t]
      /\ \A u \in Tasks : u # t => waiting_cancelled'[u] = waiting_cancelled[u]
  BY <1>0
<1> HIDE DEF s2
<1>3. Flags(s2, pc', waiting_cancelled')
  <2>1. ASSUME NEW u \in Tasks
        PROVE  /\ pc'[u] \in {"none", "run", "wait", "closed"}
               /\ InQueue(s2, u) => pc'[u] = "wait" \/ (pc'[u] = "closed" /\ waiting_cancelled'[u])
    BY <1>0, <1>1, <1>2 DEF Flags
  <2> QED BY <1>2, <2>1 DEF Flags
<1>4. Told' = Told \cup {t}
  BY <1>0, <1>2 DEF Told
<1>5. Returned' = Returned
  BY OnMain
<1>6. ASSUME Seen(s, s2) PROVE RQ!Cancel(t)
  <2>1. /\ TaskSeq(Active)' = Append(RQ!Without(TaskSeq(Active), t), t)
        /\ WaitSeqs' = [e \in Events |-> RQ!Without(WaitSeqs[e], t)]
    BY <1>6 DEF Seen, s2
  <2> QED BY <1>4, <1>5, <2>1 DEF RQ!Cancel, WaitSeqs, Told, Returned
<1>7. Refines(s, s2)
  BY <1>3, <1>6 DEF Refines, RQ!Next, s2
<1> QED BY <1>7 DEF s2

\* interrupt_task is Cancel, or Set if the task does not want to be interrupted but
\* its event was set, or nothing.
LEMMA InterruptMaps ==
  ASSUME SchedInv, NEW s, Queue(ring, s), Flags(s, pc, waiting_cancelled),
         NEW t \in Tasks, Interrupt(t)
  PROVE  \E s2 : Refines(s, s2)
<1> DEFINE e == <<"heap", t>>
           r == s_event_set(ring, e)
           w == Append(RQ!Without(s, t), t)
<1>0. /\ Handler /\ current_task = Main /\ UNCHANGED <<current_task, ret>> /\ ToLoop(pc) /\ t \in stream
      /\ interrupt_task(ring, t) \/ interrupt_task(r, t)
      /\ pc[Main] # "loop" /\ e \in Events /\ e[2] = t /\ t \in Threads
      /\ waiting_cancelled \in [Threads -> BOOLEAN]
  BY DEF Interrupt, interrupt_task, Handler, Events, Threads, Flags
<1>1. /\ Consistent(ring, pc, waiting_event, stream) /\ Shape(ring) /\ Alone(ring, Node(Main))
      /\ pc \in [Threads -> {"none", "entry", "run", "wait", "closed", "idle", "loop", "interrupt"}]
      /\ pc[t] # "none"
  BY <1>0, MainFacts DEF Consistent
<1>2. pc'[Main] = "loop" /\ \A u \in Tasks : pc'[u] = pc[u]
  BY Zenon, <1>0, <1>1, MainMoves DEF ToLoop
<1>3. CASE t \in interrupt_disabled
  <2>1. (ring' = ring \/ ring' = r) /\ UNCHANGED waiting_cancelled
    BY <1>0, <1>3 DEF interrupt_task
  <2>2. CASE ring' = r
    <3>1. Refines(s, s \o Waiters(ring)[e])
      BY <1>0, <2>1, <2>2, SetSeen
    <3> QED BY <3>1
  <2>3. CASE ring' = ring
    <3>1. Flags(s, pc', waiting_cancelled')
      BY <1>2, <2>1 DEF Flags
    <3>2. Told' = Told /\ Returned' = Returned
      BY <1>0, <2>1, OnMain DEF Told
    <3>3. Refines(s, s)
      BY <1>0, <2>3, <3>1, <3>2, NothingSeen
    <3> QED BY <3>3
  <2> QED BY <2>1, <2>2, <2>3
<1>4. CASE t \notin interrupt_disabled
  <2>1. /\ ring' = CancelLinks(ring, t) \/ ring' = CancelLinks(r, t)
        /\ waiting_cancelled' = [waiting_cancelled EXCEPT ![t] = TRUE]
    BY Zenon, <1>0, <1>4 DEF interrupt_task
  <2>2. Queue(ring', w) /\ Waiters(ring') = [f \in Events |-> RQ!Without(Waiters(ring)[f], t)]
    <3>1. CASE ring' = CancelLinks(ring, t)
      BY <1>1, <3>1, CancelQueue
    <3>2. CASE ring' = CancelLinks(r, t)
      <4>1. Consistent(r, pc, waiting_event, stream)
        BY <1>0, <1>1, SetConsistent
      <4>2. /\ Queue(r, s \o Waiters(ring)[e])
            /\ Waiters(r) = [Waiters(ring) EXCEPT ![e] = <<>>]
        BY <1>0, <1>1, SetQueue
      <4> DEFINE z == s \o Waiters(ring)[e]
      <4>3. Queue(r, z)
        BY <4>2
      <4> HIDE DEF r, e, z
      <4>4. /\ Queue(ring', Append(RQ!Without(z, t), t))
            /\ Waiters(ring') = [f \in Events |-> RQ!Without(Waiters(r)[f], t)]
        BY <3>2, <4>1, <4>3, CancelQueue
      <4>5. RQ!Without(z, t) = RQ!Without(s, t)
        <5>0. s \in Seq(Threads) /\ Waiters(ring)[e] = Waiting(ring, e)
          BY <1>0 DEF Queue, Waiters
        <5>1. CASE ring.next[WaitList(e)] # Node(e[2])
          BY <5>0, <5>1 DEF Waiting, z
        <5>2. CASE ring.next[WaitList(e)] = Node(e[2])
          <6>1. z = Append(s, t)
            BY <1>0, <5>0, <5>2 DEF Waiting, z
          <6>2. ~InQueue(s, t) /\ RQ!Without(s, t) = s
            BY Zenon, <1>0, <1>1, <5>0, <5>2, WaiterNotQueued, Removed DEF Shape, Queue
          <6>3. RQ!Without(Append(s, t), t) = s
            BY ZenonT(60), <1>0, <5>0, <6>2, LastRemoved DEF Queue
          <6> QED BY <6>1, <6>2, <6>3
        <5> QED BY <5>1, <5>2
      <4>6. ASSUME NEW f \in Events PROVE RQ!Without(Waiters(r)[f], t) = RQ!Without(Waiters(ring)[f], t)
        <5>1. Waiters(r)[f] = IF f = e THEN <<>> ELSE Waiters(ring)[f]
          BY <4>2 DEF Waiters
        <5>2. Waiters(ring)[f] = Waiting(ring, f) /\ Waiters(r)[f] = Waiting(r, f)
          BY DEF Waiters
        <5> QED BY <1>0, <5>1, <5>2, WaitingWithout
      <4> QED BY <4>4, <4>5, <4>6
    <3> QED BY <2>1, <3>1, <3>2
  <2> HIDE DEF w
  <2>3. Refines(s, w)
    BY Zenon, <1>0, <1>1, <1>2, <2>1, <2>2, CancelSeen DEF w
  <2> QED BY <2>3
<1> QED BY <1>3, <1>4

\* interrupt_all_tasks is one Cancel, or nothing, for each node it comes to.
LEMMA InterruptAllMaps ==
  ASSUME SchedInv, NEW s, Queue(ring, s), Flags(s, pc, waiting_cancelled),
         interrupt_all_tasks \/ InterruptNext
  PROVE  \E s2 : Refines(s, s2)
<1>0. /\ current_task = Main /\ UNCHANGED <<current_task, ret>> /\ pc[Main] # "loop"
      /\ waiting_cancelled \in [Threads -> BOOLEAN] /\ Tasks \subseteq Threads
  BY DEF interrupt_all_tasks, InterruptNext, interrupt_task, Handler, Flags, Threads
<1>1. /\ Consistent(ring, pc, waiting_event, stream)
      /\ pc \in [Threads -> {"none", "entry", "run", "wait", "closed", "idle", "loop", "interrupt"}]
  BY DEF SchedInv, Consistent
<1>2. ASSUME UNCHANGED <<ring, waiting_cancelled>>, \A u \in Tasks : pc'[u] = pc[u]
      PROVE  Refines(s, s)
  <2>1. Flags(s, pc', waiting_cancelled')
    BY <1>0, <1>2 DEF Flags
  <2>2. Told' = Told /\ Returned' = Returned
    BY <1>0, <1>2, OnMain DEF Told
  <2> QED BY <1>0, <1>2, <2>1, <2>2, NothingSeen
<1>3. CASE interrupt_all_tasks
  <2>1. UNCHANGED <<ring, waiting_cancelled>> /\ pc' = [pc EXCEPT ![Main] = "interrupt"]
    BY <1>3 DEF interrupt_all_tasks
  <2>2. \A u \in Tasks : pc'[u] = pc[u]
    BY Zenon, <1>1, <2>1, MainMoves
  <2> QED BY <1>2, <2>1, <2>2
<1>4. CASE InterruptNext /\ node = AllTasks
  <2>1. UNCHANGED <<ring, waiting_cancelled>> /\ pc' = [pc EXCEPT ![Main] = "loop"]
    BY <1>4 DEF InterruptNext, ToLoop
  <2>2. \A u \in Tasks : pc'[u] = pc[u]
    BY Zenon, <1>1, <2>1, MainMoves
  <2> QED BY <1>2, <2>1, <2>2
<1>5. CASE InterruptNext /\ node # AllTasks
  <2>1. UNCHANGED pc /\ interrupt_task(ring, node[3])
    BY Zenon, <1>5 DEF InterruptNext
  <2>2. PICK t \in Tasks : node = ListNode(t) /\ pc[t] # "none"
    BY <1>5 DEF SchedInv, Walk
  <2>3. interrupt_task(ring, t)
    BY <2>1, <2>2, NodeFacts
  <2>4. CASE t \in interrupt_disabled
    <3>1. UNCHANGED <<ring, waiting_cancelled>>
      BY <1>0, <2>3, <2>4 DEF interrupt_task
    <3> QED BY <1>2, <2>1, <3>1
  <2>5. CASE t \notin interrupt_disabled
    <3>1. ring' = CancelLinks(ring, t) /\ waiting_cancelled' = [waiting_cancelled EXCEPT ![t] = TRUE]
      BY Zenon, <1>0, <2>3, <2>5 DEF interrupt_task
    <3>2. /\ Queue(ring', Append(RQ!Without(s, t), t))
          /\ Waiters(ring') = [f \in Events |-> RQ!Without(Waiters(ring)[f], t)]
      BY <1>1, <3>1, CancelQueue
    <3>3. Refines(s, Append(RQ!Without(s, t), t))
      BY Zenon, <1>0, <2>1, <2>2, <3>1, <3>2, CancelSeen
    <3> QED BY <3>3
  <2> QED BY <2>4, <2>5
<1> QED BY <1>3, <1>4, <1>5

\* Freeing a task, creating an event and set_interrupt_disabled change no queue.
LEMMA QuietMaps ==
  ASSUME SchedInv, NEW s, Queue(ring, s), Flags(s, pc, waiting_cancelled), NEW t \in Tasks,
         se_task_end_handler(t) \/ TaskInitStream(t) \/ set_interrupt_disabled(t)
  PROVE  Refines(s, s)
<1>0. Shape(ring) /\ Well(ring, Nodes)
  BY DEF SchedInv, Consistent, Shape
<1>1. CASE se_task_end_handler(t)
  <2>0. /\ Handler /\ current_task = Main /\ UNCHANGED <<current_task, ret, waiting_cancelled>>
        /\ pc[Main] = "idle" /\ pc' = [[pc EXCEPT ![t] = "none"] EXCEPT ![Main] = "loop"]
        /\ ring' = s_list_detach(ring, ListNode(t))
    BY <1>1 DEF se_task_end_handler, Handler, ToLoop
  <2>1. OffAllTasks(ring', ring, t)
    BY <1>0, <2>0, UnlistTask
  <2>2. Queue(ring', s) /\ Waiters(ring') = Waiters(ring)
    BY <2>1, NodeFacts DEF OffAllTasks, Waiters, Waiting
  <2>3. s = <<>>
    BY <1>0, <2>0, EmptyQueue DEF SchedInv, Control
  <2>4. \A u : ~InQueue(s, u)
    BY <2>3 DEF InQueue
  <2>5. \A u \in Tasks : pc'[u] = IF u = t THEN "none" ELSE pc[u]
    <3>1. /\ pc \in [Threads -> {"none", "entry", "run", "wait", "closed", "idle", "loop", "interrupt"}]
          /\ Main \notin Tasks /\ Tasks \subseteq Threads /\ Main \in Threads
      BY TasksAssumption DEF SchedInv, Consistent, Threads
    <3> QED BY <2>0, <3>1
  <2>6. Flags(s, pc', waiting_cancelled')
    <3>1. waiting_cancelled' \in [Threads -> BOOLEAN]
      BY <2>0 DEF Flags
    <3>2. ASSUME NEW u \in Tasks
          PROVE  pc'[u] \in {"none", "run", "wait", "closed"}
      BY <2>4, <2>5 DEF Flags
    <3> QED BY <2>4, <3>1, <3>2 DEF Flags
  <2>7. Told' = Told /\ Returned' = Returned
    BY <2>0, OnMain DEF Told
  <2> QED BY Zenon, <2>0, <2>2, <2>6, <2>7, NothingSeen
<1>2. CASE TaskInitStream(t)
  <2>1. Runs(t) /\ <<"heap", t>> \in Events /\ <<"heap", t>>[2] = t
    BY <1>2 DEF TaskInitStream, Events
  <2>2. s_event_init(ring, <<"heap", t>>) = ring
    BY Zenon, <2>1, RunningTask, InitEvent
  <2>3. UNCHANGED <<ring, current_task, pc, waiting_cancelled, ret>>
    BY <1>2, <2>2 DEF TaskInitStream
  <2> QED BY <2>3, NothingSeen DEF Told, Returned, Exited
<1>3. CASE set_interrupt_disabled(t)
  <2>1. UNCHANGED <<ring, current_task, pc, waiting_cancelled, ret>>
    BY <1>3 DEF set_interrupt_disabled
  <2> QED BY <2>1, NothingSeen DEF Told, Returned, Exited
<1> QED BY <1>1, <1>2, <1>3

\* Main queues itself, if anybody is ready, and the first task gets control: Yield.
LEMMA MainLoopMaps ==
  ASSUME SchedInv, NEW s, Queue(ring, s), Flags(s, pc, waiting_cancelled), MainLoop
  PROVE  \E s2 : Refines(s, s2)
<1>0. /\ current_task = Main /\ pc[Main] = "loop" /\ Shape(ring) /\ Well(ring, Nodes)
      /\ Alone(ring, Node(Main)) /\ s \in Seq(Threads) /\ Main \in Threads /\ Main \notin Tasks
      /\ pc \in [Threads -> {"none", "entry", "run", "wait", "closed", "idle", "loop", "interrupt"}]
  BY Zenon, MainFacts DEF MainLoop, Consistent, Queue
<1>1. CASE s = <<>>
  <2>1. Alone(ring, Active)
    BY <1>0, <1>1, EmptyQueue
  <2>2. pc' = [pc EXCEPT ![Main] = "idle"] /\ UNCHANGED <<ring, current_task, waiting_cancelled, ret>>
    BY <2>1 DEF MainLoop, s_list_is_empty, Alone
  <2>3. \A u \in Tasks : pc'[u] = pc[u]
    BY <1>0, <2>2, MainMoves
  <2>4. \A u : ~InQueue(s, u)
    BY <1>1 DEF InQueue
  <2>5. Flags(s, pc', waiting_cancelled')
    BY <2>2, <2>3, <2>4 DEF Flags
  <2>6. Told' = Told /\ Returned' = Returned
    BY <1>0, <2>2, OnMain DEF Told
  <2>7. Refines(s, s)
    BY Zenon, <2>2, <2>5, <2>6, NothingSeen
  <2> QED BY <2>7
<1>2. CASE s # <<>>
  <2> DEFINE r == s_list_attach(ring, Active, Node(Main))
             a == Append(s, Main)
  <2>1. ~Alone(ring, Active)
    BY <1>0, <1>2, EmptyQueue
  <2>2. CallNext(r, pc, waiting_cancelled)
    BY <2>1 DEF MainLoop, s_list_is_empty, Alone
  <2>3. Shape(r) /\ Queue(r, a) /\ Waiters(r) = Waiters(ring)
    BY <1>0, ReadyTask DEF Waiters, Waiting
  <2>4. a # <<>>
    BY <1>0
  <2> HIDE DEF r
  <2>5. Switched(a, r, pc, waiting_cancelled)
    BY Zenon, <2>2, <2>3, <2>4, GivesControl
  <2>6. \A u \in Tasks : InQueue(a, u) <=> InQueue(s, u)
    BY <1>0, InAppend
  <2> HIDE DEF a
  <2>7. Flags(a, pc, waiting_cancelled)
    BY <2>6 DEF Flags
  <2>8. /\ Flags(Tail(a), pc', waiting_cancelled')
        /\ Told' = {t \in Tasks : waiting_cancelled[t]} \ {Head(a)}
        /\ Returned' = IF Head(a) \in {t \in Tasks : waiting_cancelled[t]} THEN -1 ELSE 0
    BY Zenon, <1>0, <2>3, <2>5, <2>7, Resumes
  <2>9. Told = {t \in Tasks : waiting_cancelled[t]}
    BY <1>0 DEF Told
  <2>10. Queue(ring', Tail(a)) /\ Waiters(ring') = Waiters(ring) /\ current_task' = Head(a)
    BY <2>3, <2>5 DEF Switched
  <2>11. ASSUME Seen(s, Tail(a)) PROVE RQ!Yield
    <3>1. /\ TaskSeq(Active) # <<>> /\ Append(TaskSeq(Active), Main) = a /\ WaitSeqs' = WaitSeqs
          /\ TaskSeq(Active)' = Tail(a)
      BY <1>2, <2>10, <2>11 DEF Seen, a
    <3> QED BY Zenon, <1>0, <2>4, <2>8, <2>9, <2>10, <3>1 DEF RQ!Yield, RQ!Resume, WaitSeqs, Told, Returned
  <2>12. Refines(s, Tail(a))
    BY <2>8, <2>10, <2>11 DEF Refines, RQ!Next
  <2> QED BY <2>12
<1> QED BY <1>1, <1>2

\* The running task waits or ends, and the head of the queue gets control.
LEMMA Leaves ==
  ASSUME SchedInv, NEW s, Queue(ring, s), Flags(s, pc, waiting_cancelled), NEW t \in Tasks, Runs(t),
         NEW r, Shape(r), Queue(r, s), ~Alone(r, Node(Main)), NEW c \in {"wait", "closed"},
         CallNext(r, [pc EXCEPT ![t] = c], [waiting_cancelled EXCEPT ![t] = FALSE])
  PROVE  /\ Queue(ring', Tail(s)) /\ Flags(Tail(s), pc', waiting_cancelled')
         /\ Waiters(ring') = Waiters(r)
         /\ TaskSeq(Active) = s /\ TaskSeq(Active)' = Tail(s) => RQ!Resume(TaskSeq(Active))
<1> DEFINE pcs == [pc EXCEPT ![t] = c]
           wc == [waiting_cancelled EXCEPT ![t] = FALSE]
           P == {"none", "entry", "run", "wait", "closed", "idle", "loop", "interrupt"}
<1>0. /\ current_task = t /\ t \in Threads /\ t # Main /\ Tasks \subseteq Threads /\ Main \in Threads
      /\ Alone(ring, Node(t)) /\ pc[Main] = "loop" /\ Well(ring, Nodes)
      /\ pc \in [Threads -> P] /\ waiting_cancelled \in [Threads -> BOOLEAN]
  BY Zenon, RunningTask DEF Runs, Threads, SchedInv, Consistent, Flags
<1>1. ~InQueue(s, t)
  BY <1>0, AloneNotQueued
<1>2. s # <<>>
  <2>1. InQueue(s, Main)
    BY <1>0, MainNotWaiting DEF Queue
  <2> QED BY <2>1 DEF InQueue
<1>3. Switched(s, r, pcs, wc)
  BY <1>2, GivesControl
<1>4. /\ pcs \in [Threads -> P] /\ pcs[Main] = "loop" /\ pcs[t] = c
      /\ \A u \in Tasks : u # t => pcs[u] = pc[u]
      /\ wc \in [Threads -> BOOLEAN] /\ ~wc[t] /\ \A u \in Tasks : u # t => wc[u] = waiting_cancelled[u]
  BY <1>0
<1> HIDE DEF pcs, wc, P
<1>5. Flags(s, pcs, wc)
  BY <1>1, <1>4 DEF Flags
<1>6. Told = {u \in Tasks : wc[u]}
  BY <1>0, <1>4 DEF Told
<1>7. /\ Flags(Tail(s), pc', waiting_cancelled')
      /\ Told' = Told \ {Head(s)} /\ Returned' = IF Head(s) \in Told THEN -1 ELSE 0
  BY <1>3, <1>4, <1>5, <1>6, Resumes
<1>8. Queue(ring', Tail(s)) /\ Waiters(ring') = Waiters(r) /\ current_task' = Head(s)
  BY <1>3 DEF Switched
<1>9. ASSUME TaskSeq(Active) = s, TaskSeq(Active)' = Tail(s) PROVE RQ!Resume(TaskSeq(Active))
  BY Zenon, <1>2, <1>7, <1>8, <1>9 DEF RQ!Resume, Told, Returned
<1> QED BY <1>7, <1>8, <1>9

\* s_event_wait is Wait, on the queue of its event.
LEMMA WaitMaps ==
  ASSUME SchedInv, NEW s, Queue(ring, s), Flags(s, pc, waiting_cancelled), NEW t \in Tasks,
         NEW e \in Events, e \in {<<"local", t>>, <<"heap", t>>}, s_event_wait(t, e)
  PROVE  Refines(s, Tail(s))
<1>0. e[2] = t /\ Runs(t) /\ current_task = t /\ t # Main
  BY TasksAssumption DEF s_event_wait, Runs
<1>1. ring.next[WaitList(e)] # Node(t) /\ ~Alone(ring, Node(Main)) /\ Main \in Threads
  BY <1>0, RunningTask
<1>2. PICK r : /\ Parked(r, ring, e)
               /\ CallNext(r, [pc EXCEPT ![t] = "wait"], [waiting_cancelled EXCEPT ![t] = FALSE])
  BY WaitStep
<1>3. Shape(r) /\ Queue(r, s) /\ ~Alone(r, Node(Main))
  BY <1>1, <1>2, NodeFacts DEF Parked
<1>4. /\ Queue(ring', Tail(s)) /\ Flags(Tail(s), pc', waiting_cancelled')
      /\ Waiters(ring') = Waiters(r)
      /\ TaskSeq(Active) = s /\ TaskSeq(Active)' = Tail(s) => RQ!Resume(TaskSeq(Active))
  BY Zenon, <1>0, <1>2, <1>3, Leaves
<1>5. Waiters(r) = [Waiters(ring) EXCEPT ![e] = <<t>>] /\ Waiters(ring)[e] = <<>>
  BY Zenon, <1>0, <1>1, <1>2 DEF Parked, Waiters, Waiting
<1>6. ASSUME Seen(s, Tail(s)) PROVE RQ!Wait(e)
  <2>1. RQ!Resume(TaskSeq(Active))
    BY <1>4, <1>6 DEF Seen
  <2>2. WaitSeqs' = [WaitSeqs EXCEPT ![e] = Append(@, t)]
    <3>1. Append(<<>>, t) = <<t>>
      OBVIOUS
    <3> QED BY Zenon, <1>4, <1>5, <1>6, <3>1 DEF Seen
  <2> QED BY <1>0, <2>1, <2>2 DEF RQ!Wait, WaitSeqs
<1> QED BY <1>4, <1>6 DEF Refines, RQ!Next

\* The end of a task is Exit.
LEMMA EndMaps ==
  ASSUME SchedInv, NEW s, Queue(ring, s), Flags(s, pc, waiting_cancelled), NEW t \in Tasks,
         s_task_context_entry(t)
  PROVE  Refines(s, Tail(s))
<1>0. Runs(t) /\ current_task = t /\ t # Main /\ <<"join", t>> \in Events /\ <<"join", t>>[2] = t
  BY TasksAssumption DEF s_task_context_entry, Runs, Events
<1>1. Shape(ring) /\ ~Alone(ring, Node(Main)) /\ Alone(ring, WaitList(<<"join", t>>))
  BY Zenon, <1>0, RunningTask
<1>2. s_event_set(ring, <<"join", t>>) = ring
  BY <1>0, <1>1, SetWakes
<1>3. CallNext(ring, [pc EXCEPT ![t] = "closed"], [waiting_cancelled EXCEPT ![t] = FALSE])
  BY <1>2 DEF s_task_context_entry
<1>4. /\ Queue(ring', Tail(s)) /\ Flags(Tail(s), pc', waiting_cancelled')
      /\ Waiters(ring') = Waiters(ring)
      /\ TaskSeq(Active) = s /\ TaskSeq(Active)' = Tail(s) => RQ!Resume(TaskSeq(Active))
  BY Zenon, <1>0, <1>1, <1>3, Leaves
<1>5. ASSUME Seen(s, Tail(s)) PROVE RQ!Exit
  <2>1. RQ!Resume(TaskSeq(Active)) /\ WaitSeqs' = WaitSeqs
    BY <1>4, <1>5 DEF Seen
  <2> QED BY <1>0, <2>1 DEF RQ!Exit, WaitSeqs
<1> QED BY <1>4, <1>5 DEF Refines, RQ!Next

\* Every step keeps Flags and is one of RunQueue, or none, as far as the lists are
\* what RunQueue sees.
LEMMA StepMaps ==
  ASSUME SchedInv, NEW s, Queue(ring, s), Flags(s, pc, waiting_cancelled), [Next]_vars
  PROVE  \E s2 : Refines(s, s2)
<1>1. CASE MainLoop
  BY <1>1, MainLoopMaps
<1>2. CASE interrupt_all_tasks \/ InterruptNext
  BY <1>2, InterruptAllMaps
<1>3. CASE Over \/ UNCHANGED vars
  <2>1. UNCHANGED <<ring, current_task, pc, waiting_cancelled, ret>>
    BY <1>3 DEF Over, vars
  <2>2. Told' = Told /\ Returned' = Returned
    BY <2>1 DEF Told, Returned, Exited
  <2>3. Refines(s, s)
    BY <2>1, <2>2, NothingSeen
  <2> QED BY <2>3
<1>4. ASSUME NEW t \in Tasks, TaskStep(t) PROVE \E s2 : Refines(s, s2)
  <2>1. <<"local", t>> \in Events /\ <<"heap", t>> \in Events
    BY DEF Events
  <2>2. CASE TaskInitStream(t) \/ set_interrupt_disabled(t)
    <3>1. Refines(s, s)
      BY <2>2, QuietMaps
    <3> QED BY <3>1
  <2>3. CASE s_event_wait(t, <<"local", t>>) \/ s_event_wait(t, <<"heap", t>>)
    <3>1. Refines(s, Tail(s))
      BY <2>1, <2>3, WaitMaps
    <3> QED BY <3>1
  <2>4. CASE s_task_context_entry(t)
    <3>1. Refines(s, Tail(s))
      BY <2>4, EndMaps
    <3> QED BY <3>1
  <2> QED BY <1>4, <2>2, <2>3, <2>4 DEF TaskStep
<1>5. ASSUME NEW t \in Tasks, se_task_create(t) PROVE \E s2 : Refines(s, s2)
  <2>1. Refines(s, Append(s, t))
    BY <1>5, CreateMaps
  <2> QED BY <2>1
<1>6. ASSUME NEW t \in Tasks, se_task_end_handler(t) PROVE \E s2 : Refines(s, s2)
  <2>1. Refines(s, s)
    BY <1>6, QuietMaps
  <2> QED BY <2>1
<1>7. ASSUME NEW t \in Tasks, Interrupt(t) PROVE \E s2 : Refines(s, s2)
  BY <1>7, InterruptMaps
<1>8. ASSUME NEW e \in Events, SetEvent(e) PROVE \E s2 : Refines(s, s2)
  BY <1>8, SetMaps
<1> QED BY <1>1, <1>2, <1>3, <1>4, <1>5, <1>6, <1>7, <1>8 DEF Next

-----------------------------------------------------------------------------
(* What Elements finds.  It is defined by recursion over the nodes left,   *)
(* and the induction is by a least counterexample.                         *)

INSTANCE FiniteSetTheorems

\* The function that Elements follows the pointers with, k of them at most.
Follows(g, r, h, k) ==
  g = [left \in 0..k |->
        [n \in DOMAIN r.next |->
           IF n = h \/ left = 0 THEN <<>> ELSE <<n>> \o g[left - 1][r.next[n]]]]

\* A set of naturals that is not empty has a least element.
LEMMA NatMin ==
  ASSUME NEW T, T \subseteq Nat, T # {}
  PROVE  \E m \in T : \A k \in T : m <= k
<1>1. PICK m \in T : \A k \in T : ~(<<k, m>> \in OpToRel(<, Nat))
  BY NatLessThanWellFounded, WFMin
<1>2. ASSUME NEW k \in T PROVE m <= k
  <2>1. k \in Nat /\ m \in Nat
    OBVIOUS
  <2>2. <<k, m>> \notin OpToRel(<, Nat)
    BY <1>1
  <2>3. ~(k < m)
    BY <2>1, <2>2 DEF OpToRel
  <2> QED BY <2>1, <2>3
<1> QED BY <1>2

\* There is such a function.
LEMMA FollowsExists ==
  ASSUME NEW r, NEW h
  PROVE  \A k \in Nat : \E g : Follows(g, r, h, k)
<1> DEFINE T == {k \in Nat : ~\E g : Follows(g, r, h, k)}
<1> SUFFICES ASSUME T # {} PROVE FALSE
  OBVIOUS
<1>1. PICK m \in T : \A k \in T : m <= k
  BY Zenon, NatMin
<1>2. m \in Nat /\ ~\E g : Follows(g, r, h, m)
  OBVIOUS
<1>3. CASE m = 0
  <2> DEFINE g == [left \in 0..0 |-> [n \in DOMAIN r.next |-> <<>>]]
  <2>1. \A left \in 0..0 : g[left] = [n \in DOMAIN r.next |->
           IF n = h \/ left = 0 THEN <<>> ELSE <<n>> \o g[left - 1][r.next[n]]]
    OBVIOUS
  <2>2. g = [left \in 0..0 |-> g[left]]
    OBVIOUS
  <2> HIDE DEF g
  <2>3. Follows(g, r, h, 0)
    BY Zenon, <2>1, <2>2 DEF Follows
  <2> QED BY <1>2, <1>3, <2>3
<1>4. CASE m # 0
  <2>1. m - 1 \in Nat /\ m - 1 \notin T
    BY <1>1, <1>2, <1>4
  <2>2. PICK f : Follows(f, r, h, m - 1)
    BY <2>1
  <2> DEFINE g == [left \in 0..m |-> [n \in DOMAIN r.next |->
         IF n = h \/ left = 0 THEN <<>> ELSE <<n>> \o f[left - 1][r.next[n]]]]
  <2>4. ASSUME NEW left \in 0..(m - 1) PROVE g[left] = f[left]
    <3>1. f[left] = [n \in DOMAIN r.next |-> IF n = h \/ left = 0 THEN <<>> ELSE <<n>> \o f[left - 1][r.next[n]]]
      BY Zenon, <2>2 DEF Follows
    <3>2. left \in 0..m
      BY <1>2
    <3> QED BY <3>1, <3>2
  <2>5. ASSUME NEW left \in 0..m
        PROVE  g[left] = [n \in DOMAIN r.next |-> IF n = h \/ left = 0 THEN <<>> ELSE <<n>> \o g[left - 1][r.next[n]]]
    <3>1. CASE left = 0
      BY <3>1
    <3>2. CASE left # 0
      <4>1. left - 1 \in 0..(m - 1)
        BY <1>2, <3>2
      <4>2. g[left - 1] = f[left - 1]
        BY Zenon, <2>4, <4>1
      <4>3. g[left] = [n \in DOMAIN r.next |-> IF n = h \/ left = 0 THEN <<>> ELSE <<n>> \o f[left - 1][r.next[n]]]
        OBVIOUS
      <4> HIDE DEF g
      <4> QED BY <4>2, <4>3
    <3> QED BY Zenon, <3>1, <3>2
  <2>6. g = [left \in 0..m |-> g[left]]
    OBVIOUS
  <2> HIDE DEF g
  <2>7. g = [left \in 0..m |-> [n \in DOMAIN r.next |-> IF n = h \/ left = 0 THEN <<>> ELSE <<n>> \o g[left - 1][r.next[n]]]]
    BY Zenon, <2>5, <2>6
  <2> QED BY Zenon, <1>2, <2>7 DEF Follows
<1> QED BY <1>3, <1>4

FoundBy(g, r, h, k) == Follows(g, r, h, k) /\ Elements(r, h) = g[k][r.next[h]]

\* Elements is what it gives for the first pointer, followed as often as there are nodes.
LEMMA ElementsFollow ==
  ASSUME NEW S, NEW r, r.next \in [S -> S], NEW h, Cardinality(S) \in Nat
  PROVE  \E g : FoundBy(g, r, h, Cardinality(S))
<1>0. DOMAIN r.next = S
  OBVIOUS
<1>1. \E g : Follows(g, r, h, Cardinality(S))
  BY FollowsExists
<1> DEFINE from == CHOOSE g : Follows(g, r, h, Cardinality(S))
<1>2. Follows(from, r, h, Cardinality(S))
  BY <1>1
<1>3. Elements(r, h) = from[Cardinality(S)][r.next[h]]
  BY <1>0 DEF Elements, Follows
<1> QED BY Zenon, <1>2, <1>3 DEF FoundBy

\* From the head h, next leads through the nodes of s and back to h.
Lists(r, h, s, S) ==
  /\ s \in Seq(S) /\ \A i \in 1..Len(s) : s[i] # h
  /\ r.next[h] = IF s = <<>> THEN h ELSE s[1]
  /\ \A i \in 1..Len(s) : r.next[s[i]] = IF i = Len(s) THEN h ELSE s[i + 1]

\* Then the nodes followed are those of s, by induction over the distance from h.
LEMMA FollowedList ==
  ASSUME NEW S, NEW r, r.next \in [S -> S], NEW h \in S, NEW s, Lists(r, h, s, S),
         NEW k \in Nat, Len(s) <= k, NEW g, Follows(g, r, h, k)
  PROVE  g[k][r.next[h]] = s
<1> DEFINE Pos(j) == IF j = 0 THEN h ELSE s[Len(s) + 1 - j]
           Rest(j) == SubSeq(s, Len(s) + 1 - j, Len(s))
           Good(j) == \A left \in j..k : g[left][Pos(j)] = Rest(j)
           T == {j \in 0..Len(s) : ~Good(j)}
<1>0. s \in Seq(S) /\ Len(s) \in Nat /\ DOMAIN r.next = S
  BY DEF Lists
<1>1. ASSUME NEW left \in 0..k, NEW n \in S
      PROVE  g[left][n] = IF n = h \/ left = 0 THEN <<>> ELSE <<n>> \o g[left - 1][r.next[n]]
  <2>1. g[left] = [m \in DOMAIN r.next |->
           IF m = h \/ left = 0 THEN <<>> ELSE <<m>> \o g[left - 1][r.next[m]]]
    BY Zenon DEF Follows
  <2> QED BY <1>0, <2>1
<1> HIDE DEF Good
<1>2. ASSUME T # {} PROVE FALSE
  <2>1. PICK j \in T : \A i \in T : j <= i
    <3>1. T \subseteq Nat
      BY <1>0
    <3> QED BY Zenon, <1>2, <3>1, NatMin
  <2>2. j \in 0..Len(s) /\ ~Good(j)
    OBVIOUS
  <2>3. PICK left \in j..k : g[left][Pos(j)] # Rest(j)
    BY Zenon, <2>2 DEF Good
  <2>4. CASE j = 0
    <3>1. left \in 0..k /\ Pos(j) = h
      BY <2>4
    <3>2. Rest(j) = <<>>
      BY <1>0, <2>4
    <3> QED BY Zenon, <1>1, <2>3, <3>1, <3>2
  <2>5. CASE j # 0
    <3>1. j - 1 \in 0..Len(s) /\ left \in 0..k /\ left # 0 /\ left - 1 \in (j - 1)..k /\ Len(s) + 1 - j \in 1..Len(s)
      BY <1>0, <2>2, <2>5
    <3>2. Good(j - 1)
      <4>1. j - 1 \notin T
        BY <2>1, <2>2, <3>1
      <4> QED BY <3>1, <4>1
    <3>3. Pos(j) = s[Len(s) + 1 - j] /\ Pos(j) \in S /\ Pos(j) # h
      BY <1>0, <2>5, <3>1 DEF Lists
    <3>4. r.next[Pos(j)] = Pos(j - 1)
      BY <1>0, <2>5, <3>1, <3>3 DEF Lists
    <3>5. g[left - 1][Pos(j - 1)] = Rest(j - 1)
      BY SMTT(30), <3>1, <3>2 DEF Good
    <3>6. <<s[Len(s) + 1 - j]>> \o Rest(j - 1) = Rest(j)
      BY <1>0, <3>1
    <3> HIDE DEF Pos, Rest
    <3>7. g[left][Pos(j)] = <<Pos(j)>> \o g[left - 1][r.next[Pos(j)]]
      BY Zenon, <1>1, <3>1, <3>3
    <3> QED BY SMTT(30), <2>3, <3>3, <3>4, <3>5, <3>6, <3>7
  <2> QED BY <2>4, <2>5
<1>3. Good(Len(s))
  BY <1>0, <1>2
<1>4. Pos(Len(s)) = r.next[h]
  BY <1>0 DEF Lists
<1>5. Rest(Len(s)) = s
  BY <1>0
<1>6. k \in Len(s)..k
  BY <1>0
<1> QED BY <1>3, <1>4, <1>5, <1>6 DEF Good

\* The list of a head is the nodes found, if they are different: there are no more
\* of them than nodes.
LEMMA ElementsAre ==
  ASSUME NEW S, IsFiniteSet(S), NEW r, r.next \in [S -> S], NEW h \in S, NEW s, Lists(r, h, s, S),
         \A i, j \in 1..Len(s) : s[i] = s[j] => i = j
  PROVE  Elements(r, h) = s
<1>1. Cardinality(S) \in Nat
  BY FS_CardinalityType
<1>2. s \in Seq(S) /\ Len(s) \in Nat
  BY DEF Lists
<1>3. Len(s) <= Cardinality(S)
  <2>1. s \in Injection(1..Len(s), S)
    <3>1. s \in [1..Len(s) -> S] /\ DOMAIN s = 1..Len(s)
      BY <1>2
    <3> QED BY <3>1 DEF Injection, IsInjective
  <2>2. Cardinality(1..Len(s)) <= Cardinality(S)
    BY <2>1, FS_Injection
  <2>3. Cardinality(1..Len(s)) = IF 1 > Len(s) THEN 0 ELSE Len(s) - 1 + 1
    BY SMTT(30), <1>2, FS_Interval
  <2> QED BY <1>1, <1>2, <2>2, <2>3
<1>4. PICK g : FoundBy(g, r, h, Cardinality(S))
  BY Zenon, <1>1, ElementsFollow
<1>5. g[Cardinality(S)][r.next[h]] = s
  BY <1>1, <1>3, <1>4, FollowedList DEF FoundBy
<1> QED BY <1>4, <1>5 DEF FoundBy

\* There are finitely many nodes.
LEMMA NodesFinite == IsFiniteSet(Nodes)
<1>1. IsFiniteSet(Tasks) /\ IsFiniteSet(Tasks \cup {Main})
  BY TasksAssumption, FS_AddElement
<1>2. IsFiniteSet(Events)
  <2>1. IsFiniteSet({"local", "heap", "join"})
    <3>1. IsFiniteSet({} \cup {"local"})
      BY FS_EmptySet, FS_AddElement
    <3>2. IsFiniteSet(({} \cup {"local"}) \cup {"heap"})
      BY <3>1, FS_AddElement
    <3>3. IsFiniteSet((({} \cup {"local"}) \cup {"heap"}) \cup {"join"})
      BY <3>2, FS_AddElement
    <3>4. (({} \cup {"local"}) \cup {"heap"}) \cup {"join"} = {"local", "heap", "join"}
      OBVIOUS
    <3> QED BY <3>3, <3>4
  <2> QED BY <1>1, <2>1, FS_Product DEF Events
<1>3. IsFiniteSet({Node(t) : t \in Tasks \cup {Main}})
  <2> DEFINE f == [t \in Tasks \cup {Main} |-> Node(t)]
  <2>1. f \in Surjection(Tasks \cup {Main}, {Node(t) : t \in Tasks \cup {Main}})
    BY DEF Surjection
  <2> QED BY <1>1, <2>1, FS_Surjection
<1>4. IsFiniteSet({ListNode(t) : t \in Tasks})
  <2> DEFINE f == [t \in Tasks |-> ListNode(t)]
  <2>1. f \in Surjection(Tasks, {ListNode(t) : t \in Tasks})
    BY DEF Surjection
  <2> QED BY <1>1, <2>1, FS_Surjection
<1>5. IsFiniteSet({WaitList(e) : e \in Events})
  <2> DEFINE f == [e \in Events |-> WaitList(e)]
  <2>1. f \in Surjection(Events, {WaitList(e) : e \in Events})
    BY DEF Surjection
  <2> QED BY <1>2, <2>1, FS_Surjection
<1>6. IsFiniteSet({Self(e) : e \in Events})
  <2> DEFINE f == [e \in Events |-> Self(e)]
  <2>1. f \in Surjection(Events, {Self(e) : e \in Events})
    BY DEF Surjection
  <2> QED BY <1>2, <2>1, FS_Surjection
<1> DEFINE A == {Node(t) : t \in Tasks \cup {Main}}
           B == {ListNode(t) : t \in Tasks}
           C == {WaitList(e) : e \in Events}
           D == {Self(e) : e \in Events}
<1>7. IsFiniteSet(A) /\ IsFiniteSet(B) /\ IsFiniteSet(C) /\ IsFiniteSet(D)
  BY <1>3, <1>4, <1>5, <1>6
<1>8. Nodes = {Active, WaitingEvents, AllTasks} \cup A \cup B \cup C \cup D
  BY DEF Nodes
<1> HIDE DEF A, B, C, D
<1>9. IsFiniteSet(A \cup B) /\ IsFiniteSet(C \cup D)
  BY Zenon, <1>7, FS_Union
<1>10. IsFiniteSet((A \cup B) \cup (C \cup D))
  BY Zenon, <1>9, FS_Union
<1>11. IsFiniteSet((A \cup B) \cup (C \cup D) \cup {Active})
  BY <1>10, FS_AddElement
<1>12. IsFiniteSet((A \cup B) \cup (C \cup D) \cup {Active} \cup {WaitingEvents})
  BY <1>11, FS_AddElement
<1>13. IsFiniteSet((A \cup B) \cup (C \cup D) \cup {Active} \cup {WaitingEvents} \cup {AllTasks})
  BY <1>12, FS_AddElement
<1>14. Nodes = (A \cup B) \cup (C \cup D) \cup {Active} \cup {WaitingEvents} \cup {AllTasks}
  BY <1>8
<1> QED BY <1>13, <1>14

\* The nodes that Elements finds on active_tasks are those of the queue.
LEMMA QueueView ==
  ASSUME NEW r, Shape(r), NEW s, Queue(r, s), NEW ns, ns = Elements(r, Active)
  PROVE  [i \in DOMAIN ns |-> ns[i][3]] = s
<1> DEFINE m == [i \in 1..Len(s) |-> Node(s[i])]
<1>1. s \in Seq(Threads) /\ Len(s) \in Nat /\ s = [i \in 1..Len(s) |-> s[i]]
  BY DEF Queue
<1>2. \A i \in 1..Len(s) : Node(s[i]) \in Nodes /\ Node(s[i]) # Active /\ Node(s[i])[3] = s[i]
  BY <1>1, NodeFacts
<1>3. /\ m \in Seq(Nodes) /\ Len(m) = Len(s) /\ DOMAIN m = 1..Len(s)
      /\ \A i \in 1..Len(s) : m[i] = Node(s[i])
  BY <1>1, <1>2
<1> HIDE DEF m
<1>4. \A i, j \in 1..Len(m) : m[i] = m[j] => i = j
  BY <1>1, <1>3, NodeFacts DEF Queue
<1>5. Lists(r, Active, m, Nodes)
  <2>1. r.next[Active] = IF m = <<>> THEN Active ELSE m[1]
    <3>1. r.next[At(s, 0)] = At(s, 0 + 1) /\ At(s, 0) = Active
      BY SMTT(30), <1>1 DEF Queue, At
    <3>2. CASE Len(s) = 0
      BY <1>3, <3>1, <3>2 DEF At
    <3>3. CASE Len(s) # 0
      <4>1. m # <<>> /\ 1 \in 1..Len(s)
        BY <1>1, <1>3, <3>3
      <4> QED BY <1>3, <3>1, <4>1 DEF At
    <3> QED BY <3>2, <3>3
  <2>2. ASSUME NEW i \in 1..Len(s) PROVE r.next[m[i]] = IF i = Len(s) THEN Active ELSE m[i + 1]
    <3>1. r.next[At(s, i)] = At(s, i + 1) /\ At(s, i) = m[i]
      BY <1>1, <1>3 DEF Queue, At
    <3>2. At(s, i + 1) = IF i = Len(s) THEN Active ELSE m[i + 1]
      BY <1>1, <1>3 DEF At
    <3> QED BY <3>1, <3>2
  <2> QED BY Zenon, <1>2, <1>3, <2>1, <2>2 DEF Lists
<1>6. r.next \in [Nodes -> Nodes] /\ Active \in Nodes
  BY NodeFacts DEF Shape, Well
<1>7. ns = m
  BY <1>4, <1>5, <1>6, NodesFinite, ElementsAre
<1>8. [i \in DOMAIN ns |-> ns[i][3]] = [i \in 1..Len(s) |-> s[i]]
  BY <1>2, <1>3, <1>7
<1> QED BY <1>1, <1>8

\* The nodes that Elements finds on the list of an event are that of its waiter.
LEMMA WaitersView ==
  ASSUME NEW r, Shape(r), NEW e \in Events, NEW ns, ns = Elements(r, WaitList(e))
  PROVE  [i \in DOMAIN ns |-> ns[i][3]] = Waiting(r, e)
<1>0. /\ r.next \in [Nodes -> Nodes] /\ WaitList(e) \in Nodes /\ Node(e[2]) \in Nodes
      /\ WaitList(e) # Node(e[2]) /\ Node(e[2])[3] = e[2]
      /\ r.next[WaitList(e)] \in {WaitList(e), Node(e[2])} /\ r.prev[WaitList(e)] = r.next[WaitList(e)]
      /\ r.next[r.prev[WaitList(e)]] = WaitList(e)
  BY NodeFacts DEF Shape, Well, TaskShape, Pairs, Threads
<1>1. CASE r.next[WaitList(e)] # Node(e[2])
  <2>0. <<>> \in Seq(Nodes) /\ Len(<<>>) = 0
    OBVIOUS
  <2>1. Lists(r, WaitList(e), <<>>, Nodes)
    BY <1>0, <1>1, <2>0 DEF Lists
  <2>2. ns = <<>>
    BY <1>0, <2>0, <2>1, NodesFinite, ElementsAre
  <2> QED BY <1>1, <2>2 DEF Waiting
<1>2. CASE r.next[WaitList(e)] = Node(e[2])
  <2> DEFINE m == <<Node(e[2])>>
  <2>1. m \in Seq(Nodes) /\ Len(m) = 1 /\ m[1] = Node(e[2]) /\ m # <<>> /\ DOMAIN m = 1..1
    BY <1>0
  <2> HIDE DEF m
  <2>2. r.next[Node(e[2])] = WaitList(e)
    BY <1>0, <1>2
  <2>3. Lists(r, WaitList(e), m, Nodes)
    BY <1>0, <1>2, <2>1, <2>2 DEF Lists
  <2>4. ns = m
    BY <1>0, <2>1, <2>3, NodesFinite, ElementsAre
  <2>5. [i \in DOMAIN ns |-> ns[i][3]] = [i \in 1..1 |-> e[2]]
    BY <1>0, <2>1, <2>4
  <2>6. [i \in 1..1 |-> e[2]] = <<e[2]>>
    OBVIOUS
  <2> QED BY <1>2, <2>5, <2>6 DEF Waiting
<1> QED BY <1>1, <1>2

\* Who waits, waits for an event in use.
LEMMA WaitedLives ==
  ASSUME NEW r, NEW pcs, NEW we, NEW st, Consistent(r, pcs, we, st), NEW e \in Events,
         r.next[WaitList(e)] = Node(e[2])
  PROVE  /\ pcs[e[2]] = "wait" /\ we[e[2]] = e
         /\ e[1] = "local" \/ (e[1] = "heap" /\ e[2] \in st)
<1>1. pcs[e[2]] = "wait" /\ we[e[2]] = e /\ e[2] \in Tasks /\ e # NoEvent
  BY NodeFacts DEF Consistent
<1>2. e \in {<<"local", e[2]>>, <<"heap", e[2]>>} /\ (e = <<"heap", e[2]>> => e[2] \in st)
  BY <1>1 DEF Consistent
<1>3. \A k, u : <<k, u>>[1] = k
  OBVIOUS
<1>4. e[1] = "local" \/ (e[1] = "heap" /\ e[2] \in st)
  BY Zenon, <1>2, <1>3
<1> QED BY <1>1, <1>4

\* The events in use, as LiveEvents has them, and what their lists hold.
InUse(live, pcs, we, st) ==
  \A e \in Events : e \in live <=> \/ e[1] = "join" /\ pcs[e[2]] # "none"
                                   \/ e[1] = "heap" /\ e[2] \in st
                                   \/ e[1] = "local" /\ pcs[e[2]] = "wait" /\ we[e[2]] = e

Holds(seq, r) == \A e \in Events : seq[e] = Waiting(r, e)

\* All lists of events, those that are not in use included.
LEMMA WaitSeqsAre ==
  ASSUME NEW r, NEW pcs, NEW we, NEW st, Consistent(r, pcs, we, st),
         NEW live, InUse(live, pcs, we, st), NEW seq, Holds(seq, r)
  PROVE  [e \in Events |-> IF e \in live THEN seq[e] ELSE <<>>] = Waiters(r)
<1>1. ASSUME NEW e \in Events, e \notin live PROVE Waiting(r, e) = <<>>
  <2>1. r.next[WaitList(e)] # Node(e[2])
    BY <1>1, WaitedLives DEF InUse
  <2> QED BY <2>1 DEF Waiting
<1> QED BY <1>1 DEF Waiters, Holds

\* Before a step RunQueue sees the queue and the waiters.
LEMMA SeenBefore ==
  ASSUME SchedInv, NEW s, Queue(ring, s)
  PROVE  TaskSeq(Active) = s /\ WaitSeqs = Waiters(ring)
<1>0. Consistent(ring, pc, waiting_event, stream) /\ Shape(ring)
  BY DEF SchedInv, Consistent
<1>1. TaskSeq(Active) = s
  BY <1>0, QueueView DEF TaskSeq
<1> DEFINE seq == [e \in Events |-> TaskSeq(WaitList(e))]
<1>2. Holds(seq, ring)
  BY <1>0, WaitersView DEF TaskSeq, Holds
<1>3. WaitSeqs = [e \in Events |-> IF e \in LiveEvents THEN seq[e] ELSE <<>>]
  BY DEF WaitSeqs
<1> HIDE DEF seq
<1>4. InUse(LiveEvents, pc, waiting_event, stream)
  BY DEF InUse, LiveEvents
<1>5. [e \in Events |-> IF e \in LiveEvents THEN seq[e] ELSE <<>>] = Waiters(ring)
  BY <1>0, <1>2, <1>4, WaitSeqsAre
<1> QED BY <1>1, <1>3, <1>5

\* After a step it sees the new queue and the new waiters.
LEMMA SeenAfter ==
  ASSUME SchedInv', NEW s, Queue(ring', s)
  PROVE  TaskSeq(Active)' = s /\ WaitSeqs' = Waiters(ring')
<1>0. Consistent(ring', pc', waiting_event', stream') /\ Shape(ring')
  BY DEF SchedInv, Consistent
<1>1. TaskSeq(Active)' = s
  BY <1>0, QueueView DEF TaskSeq
<1> DEFINE seq == [e \in Events |-> TaskSeq(WaitList(e))']
<1>2. Holds(seq, ring')
  BY <1>0, WaitersView DEF TaskSeq, Holds
<1>3. WaitSeqs' = [e \in Events |-> IF e \in LiveEvents' THEN seq[e] ELSE <<>>]
  BY DEF WaitSeqs
<1> HIDE DEF seq
<1>4. InUse(LiveEvents', pc', waiting_event', stream')
  BY DEF InUse, LiveEvents
<1>5. [e \in Events |-> IF e \in LiveEvents' THEN seq[e] ELSE <<>>] = Waiters(ring')
  BY <1>0, <1>2, <1>4, WaitSeqsAre
<1> QED BY <1>1, <1>3, <1>5

\* The invariant of the refinement: the ring of active_tasks is a queue, and its
\* tasks are where Flags says.
QueueInv == SchedInv /\ \E s : Queue(ring, s) /\ Flags(s, pc, waiting_cancelled)

\* s_task_init_system makes the empty queues of RunQueue (s_task.c:109-121).
LEMMA QueueInit == Init => QueueInv /\ RQ!Init
<1> SUFFICES ASSUME Init PROVE QueueInv /\ RQ!Init
  OBVIOUS
<1>1. SchedInv
  BY SchedInit
<1>2. Shape(ring) /\ Well(ring, Nodes) /\ Main \in Threads /\ Main \notin Tasks
  BY Zenon, <1>1, TasksAssumption DEF SchedInv, Consistent, Shape, Threads
<1>3. PICK s : Queue(ring, s)
  BY <1>2 DEF Shape, TaskShape, Queued
<1>4. \A n \in Nodes : ring.next[n] = n
  BY DEF Init
<1>5. s = <<>>
  BY <1>2, <1>3, <1>4, EmptyQueue, NodeFacts DEF Alone
<1>6. \A u : ~InQueue(s, u)
  BY <1>5 DEF InQueue
<1>7. /\ waiting_cancelled \in [Threads -> BOOLEAN] /\ \A t \in Tasks : pc[t] = "none" /\ ~waiting_cancelled[t]
      /\ current_task = Main /\ ret = 0
  BY <1>2 DEF Init, Threads
<1>8. Flags(s, pc, waiting_cancelled)
  BY <1>6, <1>7 DEF Flags
<1>9. TaskSeq(Active) = <<>> /\ WaitSeqs = Waiters(ring)
  BY <1>1, <1>3, <1>5, SeenBefore
<1>10. Waiters(ring) = [e \in Events |-> <<>>]
  <2>1. \A e \in Events : ring.next[WaitList(e)] # Node(e[2])
    BY <1>4, NodeFacts DEF Threads
  <2> QED BY <2>1 DEF Waiters, Waiting
<1>11. Told = {} /\ Returned = 0
  BY <1>7 DEF Told, Returned, Exited
<1>12. RQ!Init
  BY <1>7, <1>9, <1>10, <1>11 DEF RQ!Init, WaitSeqs, Told, Returned
<1> QED BY <1>1, <1>3, <1>8, <1>12 DEF QueueInv

\* Every step keeps the invariant, and is a step of RunQueue or changes nothing that
\* RunQueue sees.
LEMMA QueueStep == QueueInv /\ [Next]_vars => QueueInv' /\ [RQ!Next]_(RQ!qvars)
<1> SUFFICES ASSUME QueueInv, [Next]_vars PROVE QueueInv' /\ [RQ!Next]_(RQ!qvars)
  OBVIOUS
<1>1. SchedInv /\ SchedInv'
  BY SchedStep DEF QueueInv
<1>2. PICK s : Queue(ring, s) /\ Flags(s, pc, waiting_cancelled)
  BY DEF QueueInv
<1>3. PICK s2 : Refines(s, s2)
  BY <1>1, <1>2, StepMaps
<1>4. Queue(ring', s2) /\ Flags(s2, pc', waiting_cancelled')
  BY <1>3 DEF Refines
<1>5. Seen(s, s2)
  BY <1>1, <1>2, <1>4, SeenBefore, SeenAfter DEF Seen
<1>6. [RQ!Next]_(RQ!qvars)
  BY <1>3, <1>5 DEF Refines
<1>7. QueueInv'
  BY <1>1, <1>4 DEF QueueInv
<1> QED BY <1>6, <1>7

\* For every number of tasks, the lists of s_list.c, with s_task.c and s_event.c on
\* them, are the queues of RunQueue: no task is lost or queued twice, tasks run in the
\* order in which they woke, a wait returns -1 exactly if it was cancelled, and
\* s_task_call_next always finds a task (s_task.c:37-60, 183-196, s_event.c:68-101).
THEOREM ListsAreQueues == Spec => Implements
<1> QED BY QueueInit, QueueStep, PTL DEF Spec, Implements, RQ!Spec
=============================================================================
