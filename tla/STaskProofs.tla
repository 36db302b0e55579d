----------------------------- MODULE STaskProofs ------------------------------
(***************************************************************************)
(* Proofs about the lists of the coroutine scheduler, for any finite set   *)
(* of tasks.  On the rings: next and prev are inverse, nobody but its own  *)
(* task waits for an event, an event without waiters is not listed, and    *)
(* the ring of active_tasks is a queue of different tasks, which holds     *)
(* every task on some list that waits for nothing.  On the program: what   *)
(* does not exist is on no list, and waiting_event says for which event a  *)
(* task waits (SchedInv).                                                  *)
(***************************************************************************)
EXTENDS STask, TLAPS

-----------------------------------------------------------------------------
(* Rings of nodes of any set S: next and prev are inverse everywhere.      *)

Well(r, S) ==
  /\ r \in [next : [S -> S], prev : [S -> S]]
  /\ \A n \in S : r.prev[r.next[n]] = n /\ r.next[r.prev[n]] = n

Alone(r, n) == r.next[n] = n

\* What s_list_toggle_connect, s_list_detach and s_list_attach (of a node that is
\* alone) do to the pointers (s_list.c:32-59).
Toggled(q, r, a, b, S) ==
  /\ Well(q, S)
  /\ \A x \in S : /\ q.next[x] = IF x = r.prev[b] THEN a ELSE IF x = r.prev[a] THEN b
                                 ELSE r.next[x]
                  /\ q.prev[x] = IF x = b THEN r.prev[a] ELSE IF x = a THEN r.prev[b]
                                 ELSE r.prev[x]

Detached(q, r, n, S) ==
  /\ Well(q, S) /\ Alone(q, n) /\ q.prev[n] = n
  /\ \A x \in S \ {n} : /\ q.next[x] = IF r.next[x] = n THEN r.next[n] ELSE r.next[x]
                        /\ q.prev[x] = IF r.prev[x] = n THEN r.prev[n] ELSE r.prev[x]
  /\ \A x \in S : Alone(r, x) => Alone(q, x)

Attached(q, r, h, n, S) ==
  /\ Well(q, S)
  /\ q.next[n] = h /\ q.prev[h] = n /\ q.prev[n] = r.prev[h] /\ q.next[r.prev[h]] = n
  /\ \A x \in S \ {n, r.prev[h]} : q.next[x] = r.next[x]
  /\ \A x \in S \ {n, h} : q.prev[x] = r.prev[x]
  /\ \A x \in S \ {n, h} : Alone(r, x) => Alone(q, x)
  /\ \A x \in S : ~Alone(r, x) => ~Alone(q, x)

\* s_list_toggle_connect swaps two predecessors and keeps the rings well linked.
LEMMA Toggle ==
  ASSUME NEW S, NEW r, Well(r, S), NEW a \in S, NEW b \in S
  PROVE  Toggled(s_list_toggle_connect(r, a, b), r, a, b, S)
<1> DEFINE q == s_list_toggle_connect(r, a, b)
<1>1. r.next \in [S -> S] /\ r.prev \in [S -> S]
  BY DEF Well
<1>2. /\ q.next = [r.next EXCEPT ![r.prev[a]] = b, ![r.prev[b]] = a]
      /\ q.prev = [r.prev EXCEPT ![a] = r.prev[b], ![b] = r.prev[a]]
      /\ q = [next |-> q.next, prev |-> q.prev]
  BY DEF s_list_toggle_connect
<1> HIDE DEF q
<1>3. q.next \in [S -> S] /\ q.prev \in [S -> S]
  BY <1>1, <1>2
<1>4. q \in [next : [S -> S], prev : [S -> S]]
  BY <1>2, <1>3
<1>5. ASSUME NEW x \in S
      PROVE  /\ q.next[x] = IF x = r.prev[b] THEN a ELSE IF x = r.prev[a] THEN b ELSE r.next[x]
             /\ q.prev[x] = IF x = b THEN r.prev[a] ELSE IF x = a THEN r.prev[b] ELSE r.prev[x]
  BY <1>1, <1>2
<1>6. ASSUME NEW x \in S PROVE q.prev[q.next[x]] = x /\ q.next[q.prev[x]] = x
  <2>1. \A y \in S : r.next[y] \in S /\ r.prev[y] \in S /\ r.prev[r.next[y]] = y /\ r.next[r.prev[y]] = y
    BY <1>1 DEF Well
  <2>2. q.prev[q.next[x]] = x
    BY <1>5, <2>1
  <2>3. q.next[q.prev[x]] = x
    BY <1>5, <2>1
  <2> QED BY <2>2, <2>3
<1>7. Toggled(q, r, a, b, S)
  BY Zenon, <1>4, <1>5, <1>6 DEF Well, Toggled
<1> QED BY <1>7 DEF q

\* In a well linked ring the pointers stay in S and one side determines the other.
LEMMA WellFacts ==
  ASSUME NEW S, NEW r, Well(r, S), NEW n \in S
  PROVE  /\ r.next[n] \in S /\ r.prev[n] \in S
         /\ r.prev[r.next[n]] = n /\ r.next[r.prev[n]] = n
         /\ Alone(r, n) <=> r.prev[n] = n
BY DEF Well, Alone

\* s_list_detach leaves the node alone and joins its neighbours.
LEMMA Detach ==
  ASSUME NEW S, NEW r, Well(r, S), NEW n \in S
  PROVE  Detached(s_list_detach(r, n), r, n, S)
<1> DEFINE m == r.next[n]
           q == s_list_toggle_connect(r, n, m)
<1>1. \A y \in S : r.next[y] \in S /\ r.prev[y] \in S /\ r.prev[r.next[y]] = y /\ r.next[r.prev[y]] = y
  BY DEF Well
<1>2. m \in S /\ r.prev[m] = n
  BY <1>1
<1> HIDE DEF m
<1>3. Toggled(q, r, n, m, S)
  BY <1>2, Toggle
<1> HIDE DEF q
<1>4. /\ Well(q, S)
      /\ \A x \in S : /\ q.next[x] = IF x = n THEN n ELSE IF x = r.prev[n] THEN m ELSE r.next[x]
                      /\ q.prev[x] = IF x = m THEN r.prev[n] ELSE IF x = n THEN n ELSE r.prev[x]
  BY <1>2, <1>3 DEF Toggled
<1>5. Alone(q, n) /\ q.prev[n] = n
  BY <1>1, <1>4 DEF Alone, m
<1>6. \A x \in S \ {n} : /\ q.next[x] = IF r.next[x] = n THEN r.next[n] ELSE r.next[x]
                         /\ q.prev[x] = IF r.prev[x] = n THEN r.prev[n] ELSE r.prev[x]
  BY <1>1, <1>4 DEF m
<1>7. \A x \in S : Alone(r, x) => Alone(q, x)
  BY <1>5, <1>6 DEF Alone
<1>8. Detached(q, r, n, S)
  BY <1>4, <1>5, <1>6, <1>7 DEF Detached
<1> QED BY <1>8 DEF q, m, s_list_detach

\* s_list_attach puts a node that is alone before the head, at the end of the list.
LEMMA Attach ==
  ASSUME NEW S, NEW r, Well(r, S), NEW h \in S, NEW n \in S, h # n, Alone(r, n)
  PROVE  Attached(s_list_attach(r, h, n), r, h, n, S)
<1> DEFINE q == s_list_toggle_connect(r, h, n)
<1>1. \A y \in S : r.next[y] \in S /\ r.prev[y] \in S /\ r.prev[r.next[y]] = y /\ r.next[r.prev[y]] = y
  BY DEF Well
<1>2. r.prev[n] = n /\ r.next[n] = n /\ r.prev[h] # n
  BY <1>1 DEF Alone
<1>3. Toggled(q, r, h, n, S)
  BY Toggle
<1> HIDE DEF q
<1>4. /\ Well(q, S)
      /\ \A x \in S : /\ q.next[x] = IF x = n THEN h ELSE IF x = r.prev[h] THEN n ELSE r.next[x]
                      /\ q.prev[x] = IF x = n THEN r.prev[h] ELSE IF x = h THEN n ELSE r.prev[x]
  BY <1>2, <1>3 DEF Toggled
<1>5. /\ q.next[n] = h /\ q.prev[h] = n /\ q.prev[n] = r.prev[h] /\ q.next[r.prev[h]] = n
      /\ \A x \in S \ {n, r.prev[h]} : q.next[x] = r.next[x]
      /\ \A x \in S \ {n, h} : q.prev[x] = r.prev[x]
  BY <1>1, <1>2, <1>4
<1>6. \A x \in S \ {n, h} : Alone(r, x) => Alone(q, x)
  BY <1>1, <1>2, <1>4 DEF Alone
<1>7. \A x \in S : ~Alone(r, x) => ~Alone(q, x)
  BY <1>1, <1>2, <1>4 DEF Alone
<1>8. Attached(q, r, h, n, S)
  BY <1>4, <1>5, <1>6, <1>7 DEF Attached
<1> QED BY <1>8 DEF q, s_list_attach

\* Two rings with the same next pointers are the same.
LEMMA SameRing ==
  ASSUME NEW S, NEW r, Well(r, S), NEW q, Well(q, S), \A x \in S : q.next[x] = r.next[x]
  PROVE  q = r
<1>1. r.next \in [S -> S] /\ r.prev \in [S -> S] /\ q.next \in [S -> S] /\ q.prev \in [S -> S]
  BY DEF Well
<1>2. \A x \in S : q.prev[x] = r.prev[x]
  BY <1>1 DEF Well
<1>3. q.next = r.next /\ q.prev = r.prev
  BY <1>1, <1>2
<1>4. q = [next |-> q.next, prev |-> q.prev] /\ r = [next |-> r.next, prev |-> r.prev]
  BY DEF Well
<1> QED BY <1>3, <1>4

\* Initialising or unlinking a node that is alone changes nothing.
LEMMA LeftAlone ==
  ASSUME NEW S, NEW r, Well(r, S), NEW n \in S, Alone(r, n)
  PROVE  s_list_init(r, n) = r /\ s_list_detach(r, n) = r
<1>1. s_list_init(r, n) = r
  <2>1. r.prev[n] = n /\ r.next[n] = n /\ r.next \in [S -> S] /\ r.prev \in [S -> S]
    BY WellFacts DEF Alone, Well
  <2>2. [r.next EXCEPT ![n] = n] = r.next /\ [r.prev EXCEPT ![n] = n] = r.prev
    BY <2>1
  <2>3. r = [next |-> r.next, prev |-> r.prev]
    BY DEF Well
  <2> QED BY <2>2, <2>3 DEF s_list_init
<1>2. s_list_detach(r, n) = r
  <2> DEFINE q == s_list_detach(r, n)
  <2>1. /\ Well(q, S) /\ Alone(q, n)
        /\ \A x \in S \ {n} : q.next[x] = IF r.next[x] = n THEN r.next[n] ELSE r.next[x]
    BY Detach DEF Detached
  <2>2. \A x \in S : q.next[x] = r.next[x]
    BY <2>1 DEF Alone
  <2> HIDE DEF q
  <2>3. q = r
    BY <2>1, <2>2, SameRing
  <2> QED BY <2>3 DEF q
<1> QED BY <1>1, <1>2

-----------------------------------------------------------------------------
(* The nodes of the scheduler, and the shape of its rings.                 *)

Threads == Tasks \cup {Main}
TaskKind == {Active} \cup {Node(t) : t \in Threads} \cup {WaitList(e) : e \in Events}
ListKind == {AllTasks} \cup {ListNode(t) : t \in Tasks}

\* Rings of one kind do not lead to nodes of another.
Closed(r, K) == \A n \in K : r.next[n] \in K /\ r.prev[n] \in K

\* Nobody but its own task waits for an event.
Pairs(r) ==
  \A e \in Events : /\ r.next[WaitList(e)] \in {WaitList(e), Node(e[2])}
                    /\ r.prev[WaitList(e)] = r.next[WaitList(e)]

Waits(r, n) == \E e \in Events : r.prev[n] = WaitList(e)

\* The nodes that s_task_call_next will come to, one after the other, from
\* active_tasks round to it again: those of the tasks of s, of which no one is there
\* twice.  Every task whose node is linked, and that waits for nothing, is one of them.
At(s, i) == IF i \in 1..Len(s) THEN Node(s[i]) ELSE Active

InQueue(s, t) == \E i \in 1..Len(s) : s[i] = t

Queue(r, s) ==
  /\ s \in Seq(Threads)
  /\ \A i, j \in 1..Len(s) : s[i] = s[j] => i = j
  /\ \A i \in 0..Len(s) : r.next[At(s, i)] = At(s, i + 1)
  /\ \A t \in Threads : Alone(r, Node(t)) \/ Waits(r, Node(t)) \/ InQueue(s, t)

Queued(r) == \E s : Queue(r, s)

\* An event without waiters is not on waiting_events.
SelfAlone(r) == \A e \in Events : Alone(r, WaitList(e)) => Alone(r, Self(e))

TaskShape(r) == Closed(r, TaskKind) /\ Pairs(r) /\ Queued(r)

Shape(r) == Well(r, Nodes) /\ TaskShape(r) /\ Closed(r, ListKind) /\ SelfAlone(r)

\* The nodes are different objects.
LEMMA NodeFacts ==
  /\ TaskKind \subseteq Nodes /\ ListKind \subseteq Nodes /\ WaitingEvents \in Nodes
  /\ Active \in TaskKind /\ AllTasks \in ListKind /\ WaitingEvents \notin TaskKind \cup ListKind
  /\ TaskKind \cap ListKind = {}
  /\ \A t \in Threads : /\ Node(t) \in TaskKind /\ Node(t) # Active /\ Node(t)[3] = t
                        /\ \A u \in Threads : Node(t) = Node(u) => t = u
  /\ \A t \in Tasks : /\ ListNode(t) \in ListKind /\ ListNode(t) # AllTasks /\ ListNode(t)[3] = t
                      /\ \A u \in Tasks : ListNode(t) = ListNode(u) => t = u
  /\ \A e \in Events : /\ WaitList(e) \in TaskKind /\ WaitList(e) # Active
                       /\ Self(e) \in Nodes /\ Self(e) \notin TaskKind \cup ListKind
                       /\ Self(e) # WaitingEvents
                       /\ e[2] \in Tasks /\ e = <<e[1], e[2]>> /\ e # NoEvent
                       /\ \A t \in Threads : Node(t) # WaitList(e)
                       /\ \A f \in Events : WaitList(e) = WaitList(f) => e = f
                       /\ \A f \in Events : Self(e) = Self(f) => e = f
<1> USE DEF TaskKind, ListKind, Nodes, Threads, Active, AllTasks, WaitingEvents, Node, ListNode,
            WaitList, Self
<1>1. TaskKind \subseteq Nodes /\ ListKind \subseteq Nodes /\ WaitingEvents \in Nodes
  OBVIOUS
<1>2. ASSUME NEW e \in Events PROVE e[2] \in Tasks /\ e = <<e[1], e[2]>> /\ e # NoEvent /\ e[1] \in {"local", "heap", "join"}
  BY DEF Events, NoEvent
<1>3. Active \in TaskKind /\ AllTasks \in ListKind /\ WaitingEvents \notin TaskKind \cup ListKind
  BY <1>2
<1>4. TaskKind \cap ListKind = {}
  BY <1>2
<1>5. ASSUME NEW t \in Threads
      PROVE  /\ Node(t) \in TaskKind /\ Node(t) # Active /\ Node(t)[3] = t
             /\ \A u \in Threads : Node(t) = Node(u) => t = u
  OBVIOUS
<1>6. ASSUME NEW t \in Tasks
      PROVE  /\ ListNode(t) \in ListKind /\ ListNode(t) # AllTasks /\ ListNode(t)[3] = t
             /\ \A u \in Tasks : ListNode(t) = ListNode(u) => t = u
  OBVIOUS
<1>7. ASSUME NEW e \in Events
      PROVE  /\ WaitList(e) \in TaskKind /\ WaitList(e) # Active
             /\ Self(e) \in Nodes /\ Self(e) # WaitingEvents
             /\ \A t \in Threads : Node(t) # WaitList(e)
  BY <1>2
<1>8. ASSUME NEW e \in Events PROVE Self(e) \notin TaskKind \cup ListKind
  BY <1>2
<1>9. ASSUME NEW e \in Events, NEW f \in Events
      PROVE  (WaitList(e) = WaitList(f) => e = f) /\ (Self(e) = Self(f) => e = f)
  BY <1>2
<1> QED BY <1>1, <1>2, <1>3, <1>4, <1>5, <1>6, <1>7, <1>8, <1>9, Zenon

\* Rings of kind K change only where one of its nodes is linked or unlinked.
LEMMA ClosedDetach ==
  ASSUME NEW S, NEW K, K \subseteq S, NEW r, Well(r, S), Closed(r, K), NEW n \in S,
         NEW q, Detached(q, r, n, S)
  PROVE  /\ Closed(q, K)
         /\ n \notin K => \A x \in K : q.next[x] = r.next[x] /\ q.prev[x] = r.prev[x]
BY DEF Closed, Detached, Alone

\* The same for a node that is linked to another one of its kind, or of another kind.
LEMMA ClosedAttach ==
  ASSUME NEW S, NEW K, K \subseteq S, NEW r, Well(r, S), Closed(r, K),
         NEW h \in S, NEW n \in S, h \in K <=> n \in K, NEW q, Attached(q, r, h, n, S)
  PROVE  /\ Closed(q, K)
         /\ n \notin K => \A x \in K : q.next[x] = r.next[x] /\ q.prev[x] = r.prev[x]
<1>1. r.prev[h] \in S /\ r.next[r.prev[h]] = h
  BY WellFacts
<1>2. CASE n \in K
  BY <1>1, <1>2 DEF Closed, Attached
<1>3. CASE n \notin K
  <2>1. r.prev[h] \notin K
    BY <1>1, <1>3 DEF Closed
  <2>2. \A x \in K : q.next[x] = r.next[x] /\ q.prev[x] = r.prev[x]
    BY <1>3, <2>1 DEF Attached
  <2>3. Closed(q, K)
    BY <2>2 DEF Closed
  <2> QED BY <2>2, <2>3
<1> QED BY <1>2, <1>3

\* The sequence w is s without its k-th element.
Dropped(w, s, k, S) ==
  /\ w \in Seq(S) /\ Len(w) = Len(s) - 1
  /\ \A i \in 1..(Len(s) - 1) : w[i] = IF i < k THEN s[i] ELSE s[i + 1]

\* What the queue s of distinct elements is without t.
LEMMA Removed ==
  ASSUME NEW S, NEW s \in Seq(S), \A i, j \in 1..Len(s) : s[i] = s[j] => i = j, NEW t
  PROVE  /\ ~InQueue(s, t) => RQ!Without(s, t) = s
         /\ \A k \in 1..Len(s) : s[k] = t => Dropped(RQ!Without(s, t), s, k, S)
<1>1. ASSUME ~InQueue(s, t) PROVE RQ!Without(s, t) = s
  BY <1>1 DEF InQueue, RQ!Without
<1>2. ASSUME NEW k \in 1..Len(s), s[k] = t
      PROVE  RQ!Without(s, t) = SubSeq(s, 1, k - 1) \o SubSeq(s, k + 1, Len(s))
  <2>1. (CHOOSE i \in 1..Len(s) : s[i] = t) = k
    BY <1>2
  <2> QED BY Zenon, <1>2, <2>1 DEF RQ!Without
<1>3. ASSUME NEW k \in 1..Len(s), s[k] = t
      PROVE  Dropped(RQ!Without(s, t), s, k, S)
  <2> DEFINE b == SubSeq(s, 1, k - 1)
             c == SubSeq(s, k + 1, Len(s))
  <2>1. b \in Seq(S) /\ Len(b) = k - 1 /\ \A i \in 1..(k - 1) : b[i] = s[i]
    OBVIOUS
  <2>2. c \in Seq(S) /\ Len(c) = Len(s) - k /\ \A i \in 1..(Len(s) - k) : c[i] = s[i + k]
    OBVIOUS
  <2> HIDE DEF b, c
  <2>3. b \o c \in Seq(S) /\ Len(b \o c) = Len(s) - 1
    <3>0. b \in Seq(S) /\ c \in Seq(S)
      BY <2>1, <2>2
    <3>1. b \o c \in Seq(S)
      BY <3>0
    <3>2. Len(b \o c) = Len(b) + Len(c)
      BY <3>0
    <3>3. Len(s) \in Nat /\ k \in Nat
      OBVIOUS
    <3> QED BY <2>1, <2>2, <3>1, <3>2, <3>3
  <2>4. \A i \in 1..(Len(s) - 1) : (b \o c)[i] = IF i < k THEN s[i] ELSE s[i + 1]
    BY <2>1, <2>2
  <2>5. Dropped(b \o c, s, k, S)
    BY Zenon, <2>3, <2>4 DEF Dropped
  <2> QED BY Zenon, <1>2, <1>3, <2>5 DEF b, c
<1> QED BY <1>1, <1>3

\* The nodes of a queue are different; they are not alone, and nobody on it waits.
LEMMA QueueFacts ==
  ASSUME NEW r, Well(r, Nodes), NEW s, Queue(r, s)
  PROVE  /\ s \in Seq(Threads) /\ Len(s) \in Nat /\ At(s, 0) = Active /\ At(s, Len(s) + 1) = Active
         /\ \A i \in Nat : /\ At(s, i) \in TaskKind /\ At(s, i) \in Nodes
                           /\ \A e \in Events : At(s, i) # WaitList(e)
                           /\ \A t \in Threads : At(s, i) = Node(t) => i \in 1..Len(s) /\ s[i] = t
         /\ \A i \in 1..Len(s) : /\ At(s, i) = Node(s[i]) /\ s[i] \in Threads /\ At(s, i) # Active
                                 /\ ~Alone(r, Node(s[i]))
                                 /\ r.prev[Node(s[i])] = At(s, i - 1)
         /\ \A i, j \in 1..Len(s) : s[i] = s[j] => i = j
         /\ r.prev[Active] = At(s, Len(s))
<1>1. /\ s \in Seq(Threads) /\ Len(s) \in Nat /\ At(s, 0) = Active /\ At(s, Len(s) + 1) = Active
      /\ \A i \in 1..Len(s) : At(s, i) = Node(s[i]) /\ s[i] \in Threads
      /\ \A i, j \in 1..Len(s) : s[i] = s[j] => i = j
      /\ \A i \in 0..Len(s) : r.next[At(s, i)] = At(s, i + 1)
  BY DEF Queue, At
<1>2. ASSUME NEW i \in Nat
      PROVE  /\ At(s, i) \in TaskKind /\ At(s, i) \in Nodes
             /\ \A e \in Events : At(s, i) # WaitList(e)
             /\ \A t \in Threads : At(s, i) = Node(t) => i \in 1..Len(s) /\ s[i] = t
  <2>1. CASE i \in 1..Len(s)
    BY <1>1, <2>1, NodeFacts
  <2>2. CASE i \notin 1..Len(s)
    <3>1. At(s, i) = Active
      BY <2>2 DEF At
    <3> QED BY <3>1, NodeFacts
  <2> QED BY <2>1, <2>2
<1>3. ASSUME NEW i \in 1..Len(s)
      PROVE  At(s, i) # Active /\ ~Alone(r, Node(s[i])) /\ r.prev[Node(s[i])] = At(s, i - 1)
  <2>1. At(s, i) # Active
    BY <1>1, NodeFacts
  <2>2. i - 1 \in 0..Len(s) /\ i - 1 \in Nat /\ i \in 0..Len(s) /\ i + 1 \in Nat /\ (i - 1) + 1 = i
    BY <1>1
  <2>3. r.next[At(s, i - 1)] = At(s, i) /\ r.next[At(s, i)] = At(s, i + 1)
    BY <1>1, <2>2
  <2>4. At(s, i + 1) # Node(s[i])
    <3>1. At(s, i + 1) = Node(s[i]) => i + 1 \in 1..Len(s) /\ s[i + 1] = s[i]
      BY <1>1, <1>2, <2>2
    <3> QED BY <1>1, <3>1
  <2>5. r.prev[r.next[At(s, i - 1)]] = At(s, i - 1)
    BY <1>2, <2>2, WellFacts
  <2> QED BY <1>1, <2>1, <2>3, <2>4, <2>5 DEF Alone
<1>4. r.prev[Active] = At(s, Len(s))
  <2>1. Len(s) \in 0..Len(s) /\ At(s, Len(s)) \in Nodes
    BY <1>1, <1>2
  <2>2. r.next[At(s, Len(s))] = Active
    BY <1>1, <2>1
  <2> QED BY <2>1, <2>2, WellFacts
<1> QED BY <1>1, <1>2, <1>3, <1>4

\* The lists of tasks do not depend on the other nodes.
LEMMA SameTasks ==
  ASSUME NEW r, Well(r, Nodes), TaskShape(r),
         NEW q, \A x \in TaskKind : q.next[x] = r.next[x] /\ q.prev[x] = r.prev[x]
  PROVE  TaskShape(q) /\ \A s : Queue(r, s) => Queue(q, s)
<1>1. Closed(q, TaskKind)
  BY DEF TaskShape, Closed
<1>2. Pairs(q)
  BY NodeFacts DEF TaskShape, Pairs
<1>3. ASSUME NEW s, Queue(r, s) PROVE Queue(q, s)
  <2>1. \A i \in 0..Len(s) : q.next[At(s, i)] = At(s, i + 1)
    BY SMTT(30), <1>3, QueueFacts DEF Queue
  <2>2. \A t \in Threads : Alone(q, Node(t)) \/ Waits(q, Node(t)) \/ InQueue(s, t)
    BY <1>3, NodeFacts DEF Queue, Alone, Waits
  <2> QED BY <1>3, <2>1, <2>2 DEF Queue
<1> QED BY <1>1, <1>2, <1>3 DEF TaskShape, Queued

\* A task leaves the list it is on.
LEMMA DetachTask ==
  ASSUME NEW r, Well(r, Nodes), TaskShape(r), NEW t \in Threads,
         NEW q, Detached(q, r, Node(t), Nodes)
  PROVE  TaskShape(q) /\ \A s : Queue(r, s) => Queue(q, RQ!Without(s, t))
<1>0. Node(t) \in TaskKind /\ Node(t) \in Nodes /\ TaskKind \subseteq Nodes
  BY NodeFacts
<1>1. Closed(q, TaskKind)
  BY <1>0, ClosedDetach DEF TaskShape
<1>2. ASSUME NEW e \in Events, r.next[WaitList(e)] = Node(t)
      PROVE  r.next[Node(t)] = WaitList(e) /\ r.prev[Node(t)] = WaitList(e) /\ e[2] = t
  <2>1. WaitList(e) \in Nodes /\ r.prev[WaitList(e)] = Node(t) /\ WaitList(e) # Node(t) /\ e[2] \in Threads
    BY <1>2, NodeFacts DEF TaskShape, Pairs, Threads
  <2>2. r.next[WaitList(e)] = Node(e[2])
    BY <1>2, <2>1 DEF TaskShape, Pairs
  <2>3. r.prev[r.next[WaitList(e)]] = WaitList(e) /\ r.next[r.prev[WaitList(e)]] = WaitList(e)
    BY <2>1, WellFacts
  <2>4. e[2] = t
    BY Zenon, <1>2, <2>1, <2>2, NodeFacts
  <2> QED BY <1>2, <2>1, <2>3, <2>4
<1>3. ASSUME NEW e \in Events PROVE q.next[WaitList(e)] \in {WaitList(e), Node(e[2])} /\ q.prev[WaitList(e)] = q.next[WaitList(e)]
  <2>1. /\ WaitList(e) \in Nodes \ {Node(t)} /\ r.next[WaitList(e)] \in {WaitList(e), Node(e[2])}
        /\ r.prev[WaitList(e)] = r.next[WaitList(e)]
    BY NodeFacts DEF TaskShape, Pairs
  <2>2. /\ q.next[WaitList(e)] = IF r.next[WaitList(e)] = Node(t) THEN r.next[Node(t)] ELSE r.next[WaitList(e)]
        /\ q.prev[WaitList(e)] = IF r.prev[WaitList(e)] = Node(t) THEN r.prev[Node(t)] ELSE r.prev[WaitList(e)]
    BY <2>1 DEF Detached
  <2> QED BY <1>2, <2>1, <2>2
<1>4. ASSUME NEW s, Queue(r, s) PROVE Queue(q, RQ!Without(s, t))
  <2> DEFINE w == RQ!Without(s, t)
  <2>1. /\ s \in Seq(Threads) /\ Len(s) \in Nat
        /\ \A i \in 0..Len(s) : r.next[At(s, i)] = At(s, i + 1) /\ At(s, i) \in Nodes
        /\ \A i, j \in 1..Len(s) : s[i] = s[j] => i = j
        /\ \A i \in Nat : At(s, i) = Node(t) => i \in 1..Len(s) /\ s[i] = t
    BY <1>4, QueueFacts DEF Queue
  <2>2. \A x \in Nodes \ {Node(t)} : q.next[x] = IF r.next[x] = Node(t) THEN r.next[Node(t)] ELSE r.next[x]
    BY DEF Detached
  <2>3. ASSUME NEW u \in Threads PROVE Alone(q, Node(u)) \/ Waits(q, Node(u)) \/ (u # t /\ InQueue(s, u))
    <3>1. CASE u = t
      BY <3>1 DEF Detached
    <3>2. CASE u # t /\ Alone(r, Node(u))
      BY <3>2, NodeFacts DEF Detached
    <3>3. CASE u # t /\ Waits(r, Node(u))
      <4>1. Node(u) \in Nodes \ {Node(t)}
        BY <3>3, NodeFacts
      <4>2. PICK e \in Events : r.prev[Node(u)] = WaitList(e)
        BY <3>3 DEF Waits
      <4>3. q.prev[Node(u)] = WaitList(e)
        BY <4>1, <4>2, NodeFacts DEF Detached
      <4> QED BY <4>3 DEF Waits
    <3> QED BY <1>4, <3>1, <3>2, <3>3 DEF Queue
  <2>4. CASE ~InQueue(s, t)
    <3>1. w = s
      BY <2>1, <2>4, Removed
    <3>2. ASSUME NEW i \in 0..Len(s) PROVE q.next[At(s, i)] = At(s, i + 1)
      <4>1. At(s, i) # Node(t) /\ At(s, i + 1) # Node(t)
        BY <2>1, <2>4 DEF InQueue
      <4> QED BY <2>1, <2>2, <4>1
    <3>3. Queue(q, s)
      BY <2>1, <2>3, <3>2 DEF Queue
    <3> QED BY <3>1, <3>3
  <2>5. CASE InQueue(s, t)
    <3>1. PICK k \in 1..Len(s) : s[k] = t
      BY <2>5 DEF InQueue
    <3>2. /\ w \in Seq(Threads) /\ Len(w) = Len(s) - 1
          /\ \A i \in 1..(Len(s) - 1) : w[i] = IF i < k THEN s[i] ELSE s[i + 1]
      <4>1. Dropped(w, s, k, Threads)
        BY <2>1, <3>1, Removed
      <4> HIDE DEF w
      <4> QED BY <4>1 DEF Dropped
    <3> HIDE DEF w
    <3>3. \A i \in Nat : At(w, i) = IF i < k THEN At(s, i) ELSE At(s, i + 1)
      BY <2>1, <3>1, <3>2 DEF At
    <3>4. At(s, k) = Node(t) /\ k \in Nat /\ k \in 0..Len(s) /\ \A i \in Nat : At(s, i) = Node(t) => i = k
      BY <2>1, <3>1 DEF At
    <3>5. ASSUME NEW i \in 0..Len(w) PROVE q.next[At(w, i)] = At(w, i + 1)
      <4>0. i \in Nat /\ i + 1 \in Nat /\ i + 2 \in Nat /\ i \in 0..Len(s) /\ i + 1 \in 0..Len(s) /\ (i + 1) + 1 = i + 2
        BY <2>1, <3>2
      <4>1. CASE i < k - 1
        <5>1. i < k /\ i + 1 < k /\ i # k /\ i + 1 # k
          BY <3>4, <4>0, <4>1
        <5>2. /\ At(w, i) = At(s, i) /\ At(w, i + 1) = At(s, i + 1)
              /\ At(s, i) # Node(t) /\ At(s, i + 1) # Node(t)
          BY <3>3, <3>4, <4>0, <5>1
        <5> QED BY <2>1, <2>2, <4>0, <5>2
      <4>2. CASE i = k - 1
        <5>1. i < k /\ i + 1 = k /\ i # k
          BY <3>4, <4>0, <4>2
        <5>2. At(w, i) = At(s, i) /\ At(w, k) = At(s, k + 1) /\ At(s, i) # Node(t)
          BY <3>3, <3>4, <4>0, <5>1
        <5>3. r.next[Node(t)] = At(s, k + 1)
          BY <2>1, <3>4
        <5>4. r.next[At(s, i)] = Node(t)
          BY <2>1, <3>4, <4>0, <5>1
        <5> QED BY <2>1, <2>2, <4>0, <5>1, <5>2, <5>3, <5>4
      <4>3. CASE i > k - 1
        <5>1. ~(i < k) /\ ~(i + 1 < k) /\ i + 1 # k /\ i + 2 # k
          BY <3>4, <4>0, <4>3
        <5>2. /\ At(w, i) = At(s, i + 1) /\ At(w, i + 1) = At(s, i + 2)
              /\ At(s, i + 1) # Node(t) /\ At(s, i + 2) # Node(t)
          BY <3>3, <3>4, <4>0, <5>1
        <5> QED BY SMTT(30), <2>1, <2>2, <4>0, <5>2
      <4> QED BY <3>4, <4>0, <4>1, <4>2, <4>3
    <3>6. ASSUME NEW i \in 1..Len(w), NEW j \in 1..Len(w), w[i] = w[j] PROVE i = j
      <4>1. /\ i \in Nat /\ j \in Nat /\ i \in 1..Len(s) /\ j \in 1..Len(s) /\ i + 1 \in 1..Len(s) /\ j + 1 \in 1..Len(s)
            /\ i \in 1..(Len(s) - 1) /\ j \in 1..(Len(s) - 1)
        BY <2>1, <3>2
      <4>2. (IF i < k THEN s[i] ELSE s[i + 1]) = (IF j < k THEN s[j] ELSE s[j + 1])
        BY <3>2, <3>6, <4>1
      <4>3. (IF i < k THEN i ELSE i + 1) = (IF j < k THEN j ELSE j + 1)
        BY SMTT(30), <2>1, <4>1, <4>2
      <4> QED BY <3>4, <4>1, <4>3
    <3>7. ASSUME NEW u \in Threads, u # t, InQueue(s, u) PROVE InQueue(w, u)
      <4>1. PICK i \in 1..Len(s) : s[i] = u
        BY <3>7 DEF InQueue
      <4>2. CASE i < k
        <5>1. i \in 1..Len(w) /\ w[i] = u
          BY <2>1, <3>1, <3>2, <4>1, <4>2
        <5> QED BY <5>1 DEF InQueue
      <4>3. CASE i > k
        <5>1. i - 1 \in 1..Len(w) /\ w[i - 1] = u
          BY <2>1, <3>1, <3>2, <4>1, <4>3
        <5> QED BY <5>1 DEF InQueue
      <4> QED BY <2>1, <3>1, <3>7, <4>1, <4>2, <4>3
    <3>8. Queue(q, w)
      BY <2>3, <3>2, <3>5, <3>6, <3>7 DEF Queue
    <3> QED BY <3>8 DEF w
  <2> QED BY <2>4, <2>5
<1> QED BY <1>1, <1>3, <1>4 DEF TaskShape, Pairs, Queued

\* A task that is on no list goes to the end of active_tasks.
LEMMA AttachReady ==
  ASSUME NEW r, Well(r, Nodes), TaskShape(r), NEW t \in Threads, Alone(r, Node(t)),
         NEW q, Attached(q, r, Active, Node(t), Nodes)
  PROVE  TaskShape(q) /\ \A s : Queue(r, s) => Queue(q, Append(s, t))
<1>0. Node(t) \in TaskKind /\ Node(t) \in Nodes /\ TaskKind \subseteq Nodes /\ Active \in TaskKind /\ Active # Node(t)
  BY NodeFacts
<1>1. Closed(q, TaskKind)
  BY <1>0, ClosedAttach DEF TaskShape
<1>2. r.prev[Active] \in Nodes /\ r.next[r.prev[Active]] = Active
  BY <1>0, WellFacts
<1>3. r.prev[Active] # Node(t) /\ \A e \in Events : r.prev[Active] # WaitList(e)
  BY <1>0, <1>2, NodeFacts DEF Alone, TaskShape, Pairs, Threads
<1>4. Pairs(q)
  <2> SUFFICES ASSUME NEW e \in Events
               PROVE  q.next[WaitList(e)] = r.next[WaitList(e)] /\ q.prev[WaitList(e)] = r.prev[WaitList(e)]
    BY DEF TaskShape, Pairs
  <2>1. WaitList(e) \in Nodes \ {Node(t), Active, r.prev[Active]}
    BY <1>3, NodeFacts
  <2> QED BY <2>1 DEF Attached
<1>5. ASSUME NEW s, Queue(r, s) PROVE Queue(q, Append(s, t))
  <2> DEFINE w == Append(s, t)
  <2>1. /\ s \in Seq(Threads) /\ Len(s) \in Nat
        /\ \A i \in 0..Len(s) : r.next[At(s, i)] = At(s, i + 1) /\ At(s, i) \in Nodes
        /\ \A i, j \in 1..Len(s) : s[i] = s[j] => i = j
        /\ r.prev[Active] = At(s, Len(s))
    BY <1>5, QueueFacts DEF Queue
  <2>2. \A i \in 1..Len(s) : s[i] # t
    BY <1>5, QueueFacts
  <2>3. /\ w \in Seq(Threads) /\ Len(w) = Len(s) + 1
        /\ \A i \in 1..Len(s) : w[i] = s[i]
        /\ w[Len(s) + 1] = t
    BY <2>1
  <2> HIDE DEF w
  <2>4. (\A i \in 0..Len(s) : At(w, i) = At(s, i)) /\ At(w, Len(s) + 1) = Node(t) /\ At(w, Len(s) + 2) = Active
    BY <2>1, <2>3 DEF At
  <2>5. ASSUME NEW i \in 0..Len(w) PROVE q.next[At(w, i)] = At(w, i + 1)
    <3>1. CASE i < Len(s)
      <4>1. At(w, i) = At(s, i) /\ At(w, i + 1) = At(s, i + 1) /\ r.next[At(s, i)] = At(s, i + 1) /\ At(s, i) \in Nodes
        BY <2>1, <2>4, <3>1
      <4>2. At(s, i + 1) # Active /\ At(s, i) # Node(t)
        <5>1. i + 1 \in 1..Len(s) /\ i \in Nat
          BY <2>1, <3>1
        <5>2. At(s, i + 1) # Active
          BY <1>5, <5>1, QueueFacts
        <5>3. At(s, i) = Node(t) => i \in 1..Len(s) /\ s[i] = t
          BY <1>5, <5>1, QueueFacts
        <5> QED BY <2>2, <5>2, <5>3
      <4>3. At(s, i) # r.prev[Active]
        BY <1>2, <4>1, <4>2
      <4> QED BY <4>1, <4>2, <4>3 DEF Attached
    <3>2. CASE i = Len(s)
      BY <2>1, <2>4, <3>2 DEF Attached
    <3>3. CASE i = Len(s) + 1
      <4>1. q.next[Node(t)] = Active /\ i + 1 = Len(s) + 2
        BY <2>1, <3>3 DEF Attached
      <4> QED BY <2>4, <3>3, <4>1
    <3> QED BY <2>1, <2>3, <3>1, <3>2, <3>3
  <2>6. \A i, j \in 1..Len(w) : w[i] = w[j] => i = j
    BY SMTT(30), <2>1, <2>2, <2>3
  <2>7. ASSUME NEW u \in Threads PROVE Alone(q, Node(u)) \/ Waits(q, Node(u)) \/ InQueue(w, u)
    <3>1. CASE u = t \/ InQueue(s, u)
      <4>1. Len(s) + 1 \in 1..Len(w) /\ \A i \in 1..Len(s) : i \in 1..Len(w)
        BY <2>1, <2>3
      <4> QED BY <2>3, <3>1, <4>1 DEF InQueue
    <3>2. CASE u # t /\ ~InQueue(s, u)
      <4>1. Node(u) \in Nodes \ {Node(t), Active}
        BY <3>2, NodeFacts
      <4>2. q.prev[Node(u)] = r.prev[Node(u)] /\ (Alone(r, Node(u)) => Alone(q, Node(u)))
        BY <4>1 DEF Attached
      <4> QED BY <1>5, <3>2, <4>2 DEF Queue, Waits
    <3> QED BY <3>1, <3>2
  <2>8. Queue(q, w)
    BY <2>3, <2>5, <2>6, <2>7 DEF Queue
  <2> QED BY <2>8 DEF w
<1> QED BY <1>1, <1>4, <1>5 DEF TaskShape, Queued

\* A task that is on no list becomes the only waiter of an event of its own.
LEMMA AttachWaiting ==
  ASSUME NEW r, Well(r, Nodes), TaskShape(r), NEW e \in Events,
         Alone(r, Node(e[2])), Alone(r, WaitList(e)),
         NEW q, Attached(q, r, WaitList(e), Node(e[2]), Nodes)
  PROVE  TaskShape(q) /\ q.next[WaitList(e)] = Node(e[2]) /\ \A s : Queue(r, s) => Queue(q, s)
<1> DEFINE t == e[2]
<1>0. /\ t \in Threads /\ Node(t) \in TaskKind /\ Node(t) \in Nodes /\ TaskKind \subseteq Nodes
      /\ WaitList(e) \in TaskKind /\ WaitList(e) \in Nodes /\ WaitList(e) # Node(t)
  BY NodeFacts DEF Threads
<1>1. Closed(q, TaskKind)
  BY <1>0, ClosedAttach DEF TaskShape
<1>2. r.prev[WaitList(e)] = WaitList(e)
  BY <1>0, WellFacts
<1>3. /\ q.next[WaitList(e)] = Node(t) /\ q.prev[WaitList(e)] = Node(t)
      /\ q.prev[Node(t)] = WaitList(e)
  BY <1>2 DEF Attached
<1>4. Pairs(q)
  <2> SUFFICES ASSUME NEW f \in Events, f # e
               PROVE  q.next[WaitList(f)] = r.next[WaitList(f)] /\ q.prev[WaitList(f)] = r.prev[WaitList(f)]
    BY <1>3 DEF TaskShape, Pairs
  <2>1. WaitList(f) \in Nodes \ {Node(t), WaitList(e)}
    BY <1>0, NodeFacts
  <2> QED BY <1>2, <2>1 DEF Attached
<1>5. ASSUME NEW s, Queue(r, s) PROVE Queue(q, s)
  <2>1. ASSUME NEW i \in 0..Len(s) PROVE q.next[At(s, i)] = At(s, i + 1)
    <3>1. i \in Nat /\ r.next[At(s, i)] = At(s, i + 1) /\ At(s, i) \in Nodes
      BY <1>5, QueueFacts DEF Queue
    <3>2. At(s, i) # WaitList(e)
      BY <1>5, <3>1, QueueFacts
    <3>3. At(s, i) # Node(t)
      <4>1. At(s, i) = Node(t) => i \in 1..Len(s) /\ s[i] = t
        BY <1>0, <1>5, <3>1, QueueFacts
      <4> QED BY <1>5, <4>1, QueueFacts
    <3> QED BY <1>2, <3>1, <3>2, <3>3 DEF Attached
  <2>2. ASSUME NEW u \in Threads PROVE Alone(q, Node(u)) \/ Waits(q, Node(u)) \/ InQueue(s, u)
    <3>1. CASE u = t
      BY <1>3, <3>1 DEF Waits
    <3>2. CASE u # t
      <4>1. Node(u) \in Nodes \ {Node(t), WaitList(e)}
        BY <1>0, <3>2, NodeFacts
      <4>2. q.prev[Node(u)] = r.prev[Node(u)] /\ (Alone(r, Node(u)) => Alone(q, Node(u)))
        BY <4>1 DEF Attached
      <4> QED BY <1>5, <4>2 DEF Queue, Waits
    <3> QED BY <3>1, <3>2
  <2> QED BY <1>5, <2>1, <2>2 DEF Queue
<1> QED BY <1>1, <1>3, <1>4, <1>5 DEF TaskShape, Queued

\* A task on some list, and not waiting, is on active_tasks, which has a first task.
LEMMA ActiveReached ==
  ASSUME NEW r, Well(r, Nodes), TaskShape(r), NEW t \in Threads, ~Alone(r, Node(t)), ~Waits(r, Node(t))
  PROVE  ~Alone(r, Active)
<1>1. PICK s : Queue(r, s)
  BY DEF TaskShape, Queued
<1>2. InQueue(s, t)
  BY <1>1 DEF Queue
<1>3. 1 \in 1..Len(s) /\ 0 \in 0..Len(s)
  BY <1>1, <1>2, QueueFacts DEF InQueue
<1>4. r.next[At(s, 0)] = At(s, 0 + 1)
  BY <1>1, <1>3 DEF Queue
<1> QED BY <1>1, <1>3, <1>4, QueueFacts DEF Alone

-----------------------------------------------------------------------------
(* The operations of s_event.c and s_task.c on the rings.                  *)

Base(r) == Well(r, Nodes) /\ TaskShape(r) /\ Closed(r, ListKind)

\* Task t is at the end of active_tasks; if it waited for something, it no longer does.
Requeued(q, r, t) ==
  /\ Base(q) /\ ~Alone(q, Node(t))
  /\ \A x \in Nodes \ {Active, Node(t)} : Alone(r, x) => Alone(q, x)
  /\ \A e \in Events : q.next[WaitList(e)] = IF r.next[WaitList(e)] = Node(t) THEN WaitList(e)
                                             ELSE r.next[WaitList(e)]
  /\ \A s : Queue(r, s) => Queue(q, Append(RQ!Without(s, t), t))

\* Detaching a task and attaching it to active_tasks (s_task.c:187-188).
LEMMA RequeueTask ==
  ASSUME NEW r, Base(r), NEW t \in Threads
  PROVE  Requeued(Requeue(r, t), r, t)
<1> DEFINE d == s_list_detach(r, Node(t))
           q == s_list_attach(d, Active, Node(t))
<1>0. /\ Node(t) \in TaskKind /\ Node(t) \in Nodes /\ Active \in TaskKind /\ Active \in Nodes /\ Active # Node(t)
      /\ TaskKind \subseteq Nodes /\ ListKind \subseteq Nodes /\ TaskKind \cap ListKind = {}
      /\ Well(r, Nodes) /\ TaskShape(r) /\ Closed(r, ListKind)
  BY NodeFacts DEF Base
<1>1. Detached(d, r, Node(t), Nodes)
  BY <1>0, Detach
<1> HIDE DEF d
<1>2. Well(d, Nodes) /\ Alone(d, Node(t)) /\ \A x \in Nodes : Alone(r, x) => Alone(d, x)
  BY <1>1 DEF Detached
<1>3. TaskShape(d) /\ \A s : Queue(r, s) => Queue(d, RQ!Without(s, t))
  BY <1>0, <1>1, DetachTask
<1>4. Closed(d, ListKind)
  BY <1>0, <1>1, ClosedDetach
<1>5. Attached(q, d, Active, Node(t), Nodes)
  BY <1>0, <1>2, Attach
<1> HIDE DEF q
<1>6. Well(q, Nodes) /\ TaskShape(q) /\ \A s : Queue(d, s) => Queue(q, Append(s, t))
  BY <1>2, <1>3, <1>5, AttachReady DEF Attached
<1>7. Closed(q, ListKind)
  <2>1. Active \notin ListKind /\ Node(t) \notin ListKind
    BY <1>0
  <2> QED BY <1>0, <1>2, <1>4, <1>5, <2>1, ClosedAttach
<1>8. ~Alone(q, Node(t))
  BY <1>0, <1>5 DEF Attached, Alone
<1>9. \A x \in Nodes \ {Active, Node(t)} : Alone(r, x) => Alone(q, x)
  BY <1>2, <1>5 DEF Attached
<1>10. ASSUME NEW e \in Events
       PROVE  q.next[WaitList(e)] = IF r.next[WaitList(e)] = Node(t) THEN WaitList(e) ELSE r.next[WaitList(e)]
  <2>1. WaitList(e) \in Nodes \ {Node(t), Active} /\ e[2] \in Threads
    BY NodeFacts DEF Threads
  <2>2. d.prev[Active] # WaitList(e)
    <3>1. d.prev[Active] = WaitList(e) => d.next[WaitList(e)] = Active
      BY <1>0, <1>2, WellFacts
    <3> QED BY <1>3, <2>1, <3>1, NodeFacts DEF TaskShape, Pairs
  <2>3. q.next[WaitList(e)] = d.next[WaitList(e)]
    BY <1>5, <2>1, <2>2 DEF Attached
  <2>4. d.next[WaitList(e)] = IF r.next[WaitList(e)] = Node(t) THEN r.next[Node(t)] ELSE r.next[WaitList(e)]
    BY <1>1, <2>1 DEF Detached
  <2>5. r.next[WaitList(e)] = Node(t) => r.next[Node(t)] = WaitList(e)
    <3>1. r.prev[WaitList(e)] = r.next[WaitList(e)]
      BY <1>0 DEF TaskShape, Pairs
    <3> QED BY <1>0, <2>1, <3>1, WellFacts
  <2> QED BY <2>3, <2>4, <2>5
<1>11. \A s : Queue(r, s) => Queue(q, Append(RQ!Without(s, t), t))
  BY <1>3, <1>6
<1>12. Requeued(q, r, t)
  BY <1>6, <1>7, <1>8, <1>9, <1>10, <1>11 DEF Requeued, Base
<1> QED BY <1>12 DEF q, d, Requeue

\* The rings of the tasks do not notice that an event leaves waiting_events.
Unlisted(q, r, e) ==
  /\ Base(q) /\ Alone(q, Self(e))
  /\ \A x \in Nodes : Alone(r, x) => Alone(q, x)
  /\ \A x \in TaskKind : q.next[x] = r.next[x]
  /\ \A s : Queue(r, s) => Queue(q, s)

\* Detaching an event from waiting_events (s_event.c:58-66).
LEMMA UnlistEvent ==
  ASSUME NEW r, Base(r), NEW e \in Events
  PROVE  Unlisted(s_list_detach(r, Self(e)), r, e)
<1> DEFINE q == s_list_detach(r, Self(e))
<1>0. /\ Self(e) \in Nodes /\ Self(e) \notin TaskKind /\ Self(e) \notin ListKind
      /\ TaskKind \subseteq Nodes /\ ListKind \subseteq Nodes
      /\ Well(r, Nodes) /\ TaskShape(r) /\ Closed(r, ListKind) /\ Closed(r, TaskKind)
  BY NodeFacts DEF Base, TaskShape
<1>1. Detached(q, r, Self(e), Nodes)
  BY <1>0, Detach
<1> HIDE DEF q
<1>2. Closed(q, ListKind)
  BY <1>0, <1>1, ClosedDetach
<1>3. \A x \in TaskKind : q.next[x] = r.next[x] /\ q.prev[x] = r.prev[x]
  BY <1>0, <1>1, ClosedDetach
<1>4. TaskShape(q) /\ \A s : Queue(r, s) => Queue(q, s)
  BY <1>0, <1>3, SameTasks
<1>5. Unlisted(q, r, e)
  BY <1>1, <1>2, <1>3, <1>4 DEF Unlisted, Base, Detached
<1> QED BY <1>5 DEF q

\* Task t is ready; nobody waits for its event e any more.
Woken(q, r, t, e) ==
  /\ Shape(q) /\ ~Alone(q, Node(t)) /\ Alone(q, WaitList(e)) /\ Alone(q, Self(e))
  /\ \A x \in Nodes \ {Active, Node(t)} : Alone(r, x) => Alone(q, x)
  /\ \A f \in Events \ {e} : q.next[WaitList(f)] = r.next[WaitList(f)]
  /\ \A s : Queue(r, s) => Queue(q, Append(RQ!Without(s, t), t))

\* Cancelling a wait (s_task.c:183-196): e is the event the task waits for, if it
\* does, and may be one it waited for before.
LEMMA WakeTask ==
  ASSUME NEW r, Shape(r), NEW e \in Events, NEW t \in Tasks, e[2] = t,
         \A f \in Events : r.next[WaitList(f)] = Node(t) => f = e
  PROVE  Woken(s_event_remove_from_waiting_list(Requeue(r, t), e), r, t, e)
<1> DEFINE d == Requeue(r, t)
           q == s_list_detach(d, Self(e))
<1>0. Base(r) /\ t \in Threads /\ WaitList(e) \in TaskKind /\ Node(t) \in TaskKind /\ Node(t) # WaitList(e)
  BY NodeFacts DEF Shape, Base, Threads
<1>1. Requeued(d, r, t)
  BY <1>0, RequeueTask
<1> HIDE DEF d
<1>2. Alone(d, WaitList(e))
  <2>1. r.next[WaitList(e)] \in {WaitList(e), Node(t)}
    BY DEF Shape, TaskShape, Pairs
  <2> QED BY <1>1, <2>1 DEF Requeued, Alone
<1>3. s_event_remove_from_waiting_list(d, e) = q
  BY <1>2 DEF s_event_remove_from_waiting_list, s_list_is_empty, Alone
<1>4. Unlisted(q, d, e)
  BY <1>1, UnlistEvent DEF Requeued
<1> HIDE DEF q
<1>5. Alone(q, WaitList(e)) /\ Alone(q, Self(e)) /\ ~Alone(q, Node(t))
  BY <1>0, <1>1, <1>2, <1>4 DEF Unlisted, Requeued, Alone
<1>6. \A x \in Nodes \ {Active, Node(t)} : Alone(r, x) => Alone(q, x)
  BY <1>1, <1>4 DEF Unlisted, Requeued
<1>7. \A f \in Events \ {e} : q.next[WaitList(f)] = r.next[WaitList(f)]
  BY <1>1, <1>4, NodeFacts DEF Unlisted, Requeued
<1>8. SelfAlone(q)
  <2> SUFFICES ASSUME NEW f \in Events, Alone(q, WaitList(f)), f # e PROVE Alone(q, Self(f))
    BY <1>5 DEF SelfAlone
  <2>1. Alone(r, Self(f))
    BY <1>7 DEF Alone, Shape, SelfAlone
  <2>2. Self(f) \in Nodes \ {Active, Node(t)}
    BY <1>0, NodeFacts
  <2> QED BY <1>6, <2>1, <2>2
<1>9. \A s : Queue(r, s) => Queue(q, Append(RQ!Without(s, t), t))
  BY <1>1, <1>4 DEF Requeued, Unlisted
<1>10. Woken(q, r, t, e)
  BY <1>4, <1>5, <1>6, <1>7, <1>8, <1>9 DEF Woken, Unlisted, Shape, Base
<1> QED BY <1>3, <1>10 DEF d

\* Cancelling while the task waits for nothing.
LEMMA RequeueReady ==
  ASSUME NEW r, Shape(r), NEW t \in Threads, \A f \in Events : r.next[WaitList(f)] # Node(t)
  PROVE  Requeued(Requeue(r, t), r, t) /\ Shape(Requeue(r, t))
<1> DEFINE q == Requeue(r, t)
<1>1. Requeued(q, r, t)
  BY RequeueTask DEF Shape, Base, Threads
<1> HIDE DEF q
<1>2. SelfAlone(q)
  <2> SUFFICES ASSUME NEW f \in Events, Alone(q, WaitList(f)) PROVE Alone(q, Self(f))
    BY DEF SelfAlone
  <2>1. Alone(r, Self(f))
    BY <1>1 DEF Alone, Shape, SelfAlone, Requeued
  <2>2. Self(f) \in Nodes \ {Active, Node(t)}
    BY NodeFacts DEF Threads
  <2> QED BY <1>1, <2>1, <2>2 DEF Requeued
<1> QED BY <1>1, <1>2 DEF Requeued, Base, Shape, q

\* The first half of s_event_set (s_event.c:85-99): joining the two rings and taking
\* the head out again moves the waiter, if there is one, to active_tasks.
LEMMA MovedWaiters ==
  ASSUME NEW r, Base(r), NEW e \in Events
  PROVE  MoveWaiters(r, e) = IF Alone(r, WaitList(e)) THEN r ELSE Requeue(r, e[2])
<1> DEFINE W == WaitList(e)
           N == Node(e[2])
           p == r.prev[Active]
           a == s_list_toggle_connect(r, Active, W)
           q == s_list_detach(a, W)
<1>0. /\ W \in Nodes /\ N \in Nodes /\ Active \in Nodes /\ W # N /\ W # Active /\ N # Active
      /\ Well(r, Nodes) /\ TaskShape(r) /\ e[2] \in Threads
  BY NodeFacts DEF Base, Threads
<1>1. /\ r.next[W] \in {W, N} /\ r.prev[W] = r.next[W]
      /\ p \in Nodes /\ r.next[p] = Active
      /\ \A y \in Nodes : r.next[y] \in Nodes /\ r.prev[y] \in Nodes /\ r.prev[r.next[y]] = y /\ r.next[r.prev[y]] = y
  BY <1>0, WellFacts DEF TaskShape, Pairs
<1>2. MoveWaiters(r, e) = q
  BY DEF MoveWaiters, s_list_attach
<1> HIDE DEF W, N, p
<1>3. Toggled(a, r, Active, W, Nodes)
  BY <1>0, Toggle
<1> HIDE DEF a
<1>4. /\ Well(a, Nodes)
      /\ \A x \in Nodes : a.next[x] = IF x = r.prev[W] THEN Active ELSE IF x = p THEN W ELSE r.next[x]
  BY <1>3 DEF Toggled, p
<1>5. Detached(q, a, W, Nodes)
  BY <1>0, <1>4, Detach
<1> HIDE DEF q
<1>6. /\ Well(q, Nodes) /\ q.next[W] = W
      /\ \A x \in Nodes \ {W} : q.next[x] = IF a.next[x] = W THEN a.next[W] ELSE a.next[x]
  BY <1>5 DEF Detached, Alone
<1>7. p # W
  BY <1>0, <1>1
<1>8. CASE r.next[W] = W
  <2>1. \A x \in Nodes : q.next[x] = r.next[x]
    BY <1>0, <1>1, <1>4, <1>6, <1>7, <1>8
  <2>2. q = r
    BY <1>0, <1>6, <2>1, SameRing
  <2> QED BY <1>2, <1>8, <2>2 DEF Alone, W
<1>9. CASE r.next[W] # W
  <2>1. r.next[W] = N /\ r.prev[W] = N /\ r.next[N] = W /\ r.prev[N] = W /\ p # N
    BY <1>0, <1>1, <1>9
  <2>2. \A x \in Nodes : q.next[x] = IF x = W THEN W ELSE IF x = N THEN Active ELSE IF x = p THEN N ELSE r.next[x]
    BY <1>0, <1>1, <1>4, <1>6, <1>7, <2>1
  <2> DEFINE d == s_list_detach(r, N)
             s == s_list_attach(d, Active, N)
  <2>3. Detached(d, r, N, Nodes)
    BY <1>0, Detach
  <2> HIDE DEF d
  <2>4. /\ Well(d, Nodes) /\ Alone(d, N) /\ d.next[N] = N
        /\ \A x \in Nodes \ {N} : /\ d.next[x] = IF r.next[x] = N THEN r.next[N] ELSE r.next[x]
                                  /\ d.prev[x] = IF r.prev[x] = N THEN r.prev[N] ELSE r.prev[x]
    BY <2>3 DEF Detached, Alone
  <2>5. d.prev[Active] = p
    BY <1>0, <2>1, <2>4 DEF p
  <2>6. Attached(s, d, Active, N, Nodes)
    BY <1>0, <2>4, Attach
  <2> HIDE DEF s
  <2>7. /\ Well(s, Nodes) /\ s.next[N] = Active /\ s.next[p] = N
        /\ \A x \in Nodes \ {N, p} : s.next[x] = d.next[x]
    BY <2>5, <2>6 DEF Attached
  <2>8. \A x \in Nodes : s.next[x] = IF x = W THEN W ELSE IF x = N THEN Active ELSE IF x = p THEN N ELSE r.next[x]
    BY <1>0, <1>1, <1>7, <2>1, <2>4, <2>7
  <2>9. q = s
    BY <1>6, <2>2, <2>7, <2>8, SameRing
  <2> QED BY <1>2, <1>9, <2>9 DEF Alone, W, N, s, d, Requeue
<1> QED BY <1>8, <1>9

\* s_event_set wakes the waiter, if there is one.
LEMMA SetWakes ==
  ASSUME NEW r, Shape(r), NEW e \in Events
  PROVE  /\ Alone(r, WaitList(e)) => s_event_set(r, e) = r
         /\ ~Alone(r, WaitList(e)) => Woken(s_event_set(r, e), r, e[2], e)
<1>0. Base(r) /\ Well(r, Nodes) /\ e[2] \in Tasks /\ e[2] \in Threads /\ Self(e) \in Nodes /\ WaitList(e) \in Nodes
  BY NodeFacts DEF Shape, Base, Threads
<1>1. CASE Alone(r, WaitList(e))
  <2>1. MoveWaiters(r, e) = r
    BY <1>0, <1>1, MovedWaiters
  <2>2. s_event_set(r, e) = s_list_detach(r, Self(e))
    BY <1>1, <2>1 DEF s_event_set, s_event_remove_from_waiting_list, s_list_is_empty, Alone
  <2>3. Alone(r, Self(e))
    BY <1>1 DEF Shape, SelfAlone
  <2> QED BY <1>0, <1>1, <2>2, <2>3, LeftAlone
<1>2. CASE ~Alone(r, WaitList(e))
  <2>1. s_event_set(r, e) = s_event_remove_from_waiting_list(Requeue(r, e[2]), e)
    BY <1>0, <1>2, MovedWaiters DEF s_event_set
  <2>2. ASSUME NEW f \in Events, r.next[WaitList(f)] = Node(e[2]) PROVE f = e
    <3>1. r.next[WaitList(e)] = Node(e[2])
      BY <1>2 DEF Shape, TaskShape, Pairs, Alone
    <3>2. WaitList(f) = WaitList(e)
      BY <1>0, <2>2, <3>1, WellFacts, NodeFacts
    <3> QED BY <3>2, NodeFacts
  <2>3. Woken(s_event_remove_from_waiting_list(Requeue(r, e[2]), e), r, e[2], e)
    BY <1>0, <2>2, WakeTask
  <2> QED BY <1>2, <2>1, <2>3
<1> QED BY <1>1, <1>2

\* A running task waits for an event of its own.
Parked(q, r, e) ==
  /\ Shape(q) /\ q.next[WaitList(e)] = Node(e[2])
  /\ \A x \in Nodes \ {WaitingEvents, Self(e), WaitList(e), Node(e[2])} : Alone(r, x) => Alone(q, x)
  /\ \A x \in Nodes : ~Alone(r, x) => ~Alone(q, x)
  /\ \A f \in Events \ {e} : q.next[WaitList(f)] = r.next[WaitList(f)]
  /\ \A s : Queue(r, s) => Queue(q, s)

\* The list operations of s_event_wait (s_event.c:68-81).
LEMMA ParkTask ==
  ASSUME NEW r, Shape(r), NEW e \in Events, Alone(r, Node(e[2])), Alone(r, WaitList(e))
  PROVE  Parked(s_list_attach(s_list_detach(s_event_add_to_waiting_list(r, e), Node(e[2])),
                              WaitList(e), Node(e[2])), r, e)
<1> DEFINE N == Node(e[2])
           W == WaitList(e)
           a == s_list_attach(r, WaitingEvents, Self(e))
           q == s_list_attach(a, W, N)
<1>0. /\ W \in TaskKind /\ N \in TaskKind /\ W # N /\ e[2] \in Threads
      /\ WaitingEvents \in Nodes /\ Self(e) \in Nodes /\ Self(e) # WaitingEvents
      /\ WaitingEvents \notin TaskKind /\ Self(e) \notin TaskKind
      /\ WaitingEvents \notin ListKind /\ Self(e) \notin ListKind
      /\ TaskKind \subseteq Nodes /\ ListKind \subseteq Nodes /\ TaskKind \cap ListKind = {}
      /\ Well(r, Nodes) /\ TaskShape(r) /\ Closed(r, TaskKind) /\ Closed(r, ListKind)
  BY NodeFacts DEF Shape, TaskShape, Threads
<1>1. Alone(r, Self(e))
  BY DEF Shape, SelfAlone
<1>2. s_event_add_to_waiting_list(r, e) = a
  <2>1. s_list_detach(r, Self(e)) = r
    BY <1>0, <1>1, LeftAlone
  <2> QED BY <2>1 DEF s_event_add_to_waiting_list, s_list_is_empty, Alone
<1>3. Attached(a, r, WaitingEvents, Self(e), Nodes)
  BY <1>0, <1>1, Attach
<1> HIDE DEF a, N, W
<1>4. Well(a, Nodes) /\ Alone(a, N) /\ Alone(a, W)
  BY <1>0, <1>3 DEF Attached, N, W
<1>5. Closed(a, ListKind)
  BY Zenon, <1>0, <1>3, ClosedAttach
<1>6. \A x \in TaskKind : a.next[x] = r.next[x] /\ a.prev[x] = r.prev[x]
  BY <1>0, <1>3, ClosedAttach
<1>7. TaskShape(a) /\ \A s : Queue(r, s) => Queue(a, s)
  BY <1>0, <1>6, SameTasks
<1>8. s_list_detach(a, N) = a
  BY <1>0, <1>4, LeftAlone
<1>9. Attached(q, a, W, N, Nodes)
  BY <1>0, <1>4, Attach
<1> HIDE DEF q
<1>10. TaskShape(q) /\ q.next[W] = N /\ \A s : Queue(a, s) => Queue(q, s)
  BY <1>4, <1>7, <1>9, AttachWaiting DEF N, W
<1>11. Closed(q, ListKind)
  <2>1. W \notin ListKind /\ N \notin ListKind /\ W \in Nodes /\ N \in Nodes
    BY <1>0
  <2> QED BY <1>0, <1>4, <1>5, <1>9, <2>1, ClosedAttach
<1>12. \A x \in Nodes \ {WaitingEvents, Self(e), W, N} : Alone(r, x) => Alone(q, x)
  BY <1>3, <1>9 DEF Attached
<1>13. \A x \in Nodes : ~Alone(r, x) => ~Alone(q, x)
  BY <1>3, <1>9 DEF Attached
<1>14. ASSUME NEW f \in Events, f # e PROVE q.next[WaitList(f)] = r.next[WaitList(f)]
  <2>1. WaitList(f) \in TaskKind /\ WaitList(f) \notin {W, N}
    BY <1>0, <1>14, NodeFacts DEF W, N
  <2>2. a.prev[W] = W
    BY <1>0, <1>4, WellFacts
  <2> QED BY <1>0, <1>6, <1>9, <2>1, <2>2 DEF Attached
<1>15. SelfAlone(q)
  <2> SUFFICES ASSUME NEW f \in Events, Alone(q, WaitList(f)) PROVE Alone(q, Self(f))
    BY DEF SelfAlone
  <2>1. f # e
    BY <1>0, <1>10 DEF Alone, W
  <2>2. Alone(r, Self(f))
    BY <1>14, <2>1 DEF Alone, Shape, SelfAlone
  <2>3. Self(f) \in Nodes \ {WaitingEvents, Self(e), W, N}
    BY <1>0, <2>1, NodeFacts
  <2> QED BY <1>12, <2>2, <2>3
<1>16. \A s : Queue(r, s) => Queue(q, s)
  BY <1>7, <1>10
<1>17. Parked(q, r, e)
  BY Zenon, <1>16, <1>9, <1>10, <1>11, <1>12, <1>13, <1>14, <1>15 DEF Parked, Shape, Attached, W, N
<1> QED BY <1>2, <1>8, <1>17 DEF q, W, N

\* The head of active_tasks gets control (s_task.c:37-60).
Taken(q, r, t) ==
  /\ Shape(q) /\ Alone(q, Node(t))
  /\ \A x \in Nodes : Alone(r, x) => Alone(q, x)
  /\ \A u \in Threads \ {t} : ~Alone(r, Node(u)) => ~Alone(q, Node(u))
  /\ \A e \in Events : q.next[WaitList(e)] = r.next[WaitList(e)]
  /\ \A e \in Events : e[2] = t => Alone(q, WaitList(e)) /\ Alone(q, Self(e))
  /\ \A s : Queue(r, s) => s # <<>> /\ Head(s) = t /\ Queue(q, Tail(s))

\* On rings of this shape the first node of active_tasks is that of a task or of main.
LEMMA TakeFirst ==
  ASSUME NEW r, Shape(r), ~Alone(r, Active)
  PROVE  \E t \in Threads : /\ r.next[Active] = Node(t) /\ r.next[Active][3] = t
                            /\ ~Alone(r, Node(t))
                            /\ Taken(s_list_detach(r, r.next[Active]), r, t)
<1>0. /\ Well(r, Nodes) /\ TaskShape(r) /\ Closed(r, TaskKind) /\ Closed(r, ListKind)
      /\ Active \in TaskKind /\ Active \in Nodes /\ TaskKind \subseteq Nodes /\ ListKind \subseteq Nodes
  BY NodeFacts DEF Shape, TaskShape
<1>1. r.next[Active] \in TaskKind /\ r.next[Active] # Active /\ r.prev[r.next[Active]] = Active
  BY <1>0, WellFacts DEF Closed, Alone
<1>2. \A e \in Events : r.next[Active] # WaitList(e)
  BY <1>0, <1>1, NodeFacts DEF TaskShape, Pairs, Threads
<1>3. PICK t \in Threads : r.next[Active] = Node(t)
  BY <1>1, <1>2 DEF TaskKind
<1>4. Node(t) \in Nodes /\ r.prev[Node(t)] = Active /\ Node(t)[3] = t /\ Node(t) # Active
  BY <1>1, <1>3, NodeFacts
<1>5. ~Alone(r, Node(t))
  BY <1>0, <1>4, WellFacts
<1> DEFINE q == s_list_detach(r, Node(t))
<1>6. Detached(q, r, Node(t), Nodes)
  BY <1>0, <1>4, Detach
<1> HIDE DEF q
<1>7. /\ TaskShape(q) /\ Closed(q, ListKind) /\ Well(q, Nodes)
      /\ \A s : Queue(r, s) => Queue(q, RQ!Without(s, t))
  BY Zenon, <1>0, <1>4, <1>6, DetachTask, ClosedDetach DEF Detached
<1>8. \A x \in Nodes : r.next[x] = Node(t) => x = Active
  BY <1>0, <1>4, WellFacts
<1>9. \A x \in Nodes \ {Node(t), Active} : q.next[x] = r.next[x]
  BY <1>6, <1>8 DEF Detached
<1>10. \A u \in Threads \ {t} : ~Alone(r, Node(u)) => ~Alone(q, Node(u))
  BY <1>9, NodeFacts DEF Alone
<1>11. \A e \in Events : q.next[WaitList(e)] = r.next[WaitList(e)]
  BY <1>9, NodeFacts
<1>12. SelfAlone(q)
  BY <1>6, <1>11, NodeFacts DEF SelfAlone, Alone, Detached, Shape
<1>13. ASSUME NEW e \in Events, e[2] = t PROVE Alone(q, WaitList(e)) /\ Alone(q, Self(e))
  <2>1. WaitList(e) \in Nodes /\ r.next[WaitList(e)] # Node(t)
    BY <1>8, NodeFacts
  <2>2. r.next[WaitList(e)] = WaitList(e)
    BY <1>13, <2>1 DEF Shape, TaskShape, Pairs
  <2> QED BY <1>11, <1>12, <2>2 DEF Alone, SelfAlone
<1>14. ASSUME NEW s, Queue(r, s) PROVE s # <<>> /\ Head(s) = t /\ Queue(q, Tail(s))
  <2>1. /\ s \in Seq(Threads) /\ Len(s) \in Nat /\ At(s, 0) = Active /\ At(s, Len(s) + 1) = Active
        /\ \A i \in Nat : At(s, i) = Node(t) => i \in 1..Len(s) /\ s[i] = t
        /\ \A i, j \in 1..Len(s) : s[i] = s[j] => i = j
    BY <1>0, <1>14, QueueFacts
  <2>2. r.next[At(s, 0)] = At(s, 0 + 1)
    BY <1>14, <2>1 DEF Queue
  <2>3. 1 \in 1..Len(s) /\ s[1] = t
    BY <1>3, <2>1, <2>2
  <2>4. Dropped(RQ!Without(s, t), s, 1, Threads)
    BY <2>1, <2>3, Removed
  <2>5. RQ!Without(s, t) = Tail(s)
    BY <2>1, <2>3, <2>4 DEF Dropped
  <2>6. Queue(q, RQ!Without(s, t))
    BY <1>7, <1>14
  <2>7. s # <<>> /\ Head(s) = t
    BY <2>1, <2>3
  <2> QED BY <2>5, <2>6, <2>7
<1>15. Taken(q, r, t)
  BY Zenon, <1>6, <1>7, <1>10, <1>11, <1>12, <1>13, <1>14 DEF Taken, Shape, Detached
<1> QED BY <1>3, <1>4, <1>5, <1>15 DEF q

\* A task enters and leaves all_tasks.
LEMMA ListTask ==
  ASSUME NEW r, Shape(r), NEW t \in Tasks, Alone(r, ListNode(t)),
         NEW q, q = s_list_attach(r, AllTasks, ListNode(t))
  PROVE  /\ Shape(q) /\ \A x \in Nodes \ {AllTasks, ListNode(t)} : Alone(r, x) => Alone(q, x)
         /\ \A x \in TaskKind : q.next[x] = r.next[x]
         /\ \A s : Queue(r, s) => Queue(q, s)
<1>0. /\ Well(r, Nodes) /\ TaskShape(r) /\ Closed(r, TaskKind) /\ Closed(r, ListKind)
      /\ AllTasks \in ListKind /\ ListNode(t) \in ListKind /\ AllTasks # ListNode(t)
      /\ AllTasks \in Nodes /\ ListNode(t) \in Nodes /\ AllTasks \notin TaskKind /\ ListNode(t) \notin TaskKind
      /\ TaskKind \subseteq Nodes /\ ListKind \subseteq Nodes
  BY NodeFacts DEF Shape, TaskShape
<1>1. Attached(q, r, AllTasks, ListNode(t), Nodes)
  BY <1>0, Attach
<1>2. Closed(q, ListKind)
  BY <1>0, <1>1, ClosedAttach
<1>3. \A x \in TaskKind : q.next[x] = r.next[x] /\ q.prev[x] = r.prev[x]
  BY <1>0, <1>1, ClosedAttach
<1>4. TaskShape(q) /\ \A s : Queue(r, s) => Queue(q, s)
  BY <1>0, <1>3, SameTasks
<1>5. \A x \in Nodes \ {AllTasks, ListNode(t)} : Alone(r, x) => Alone(q, x)
  BY <1>1 DEF Attached
<1>6. SelfAlone(q)
  <2> SUFFICES ASSUME NEW f \in Events, Alone(q, WaitList(f)) PROVE Alone(q, Self(f))
    BY DEF SelfAlone
  <2>1. WaitList(f) \in TaskKind /\ Self(f) \in Nodes \ {AllTasks, ListNode(t)}
    BY <1>0, NodeFacts
  <2>2. Alone(r, Self(f))
    BY <1>3, <2>1 DEF Alone, Shape, SelfAlone
  <2> QED BY <1>5, <2>1, <2>2
<1> QED BY Zenon, <1>1, <1>2, <1>3, <1>4, <1>5, <1>6 DEF Shape, Attached

\* q is r without the task's node on all_tasks.
OffAllTasks(q, r, t) ==
  /\ Shape(q) /\ Alone(q, ListNode(t)) /\ \A x \in Nodes : Alone(r, x) => Alone(q, x)
  /\ \A x \in TaskKind : q.next[x] = r.next[x]
  /\ \A s : Queue(r, s) => Queue(q, s)

\* Detaching a task from all_tasks (se_libs.c:111-124).
LEMMA UnlistTask ==
  ASSUME NEW r, Shape(r), NEW t \in Tasks, NEW q, q = s_list_detach(r, ListNode(t))
  PROVE  OffAllTasks(q, r, t)
<1>0. /\ Well(r, Nodes) /\ TaskShape(r) /\ Closed(r, TaskKind) /\ Closed(r, ListKind)
      /\ ListNode(t) \in Nodes /\ ListNode(t) \notin TaskKind
      /\ TaskKind \subseteq Nodes /\ ListKind \subseteq Nodes
  BY NodeFacts DEF Shape, TaskShape
<1>1. Detached(q, r, ListNode(t), Nodes)
  BY <1>0, Detach
<1>2. Closed(q, ListKind)
  BY <1>0, <1>1, ClosedDetach
<1>3. \A x \in TaskKind : q.next[x] = r.next[x] /\ q.prev[x] = r.prev[x]
  BY <1>0, <1>1, ClosedDetach
<1>4. TaskShape(q) /\ \A s : Queue(r, s) => Queue(q, s)
  BY <1>0, <1>3, SameTasks
<1>5. Alone(q, ListNode(t)) /\ \A x \in Nodes : Alone(r, x) => Alone(q, x)
  BY <1>1 DEF Detached
<1>6. SelfAlone(q)
  <2> SUFFICES ASSUME NEW f \in Events, Alone(q, WaitList(f)) PROVE Alone(q, Self(f))
    BY DEF SelfAlone
  <2>1. WaitList(f) \in TaskKind /\ Self(f) \in Nodes
    BY NodeFacts
  <2>2. Alone(r, Self(f))
    BY <1>3, <2>1 DEF Alone, Shape, SelfAlone
  <2> QED BY <1>5, <2>1, <2>2
<1> QED BY Zenon, <1>1, <1>2, <1>3, <1>4, <1>5, <1>6 DEF Shape, Detached, OffAllTasks

\* A task on no list becomes ready.
LEMMA ReadyTask ==
  ASSUME NEW r, Shape(r), NEW t \in Threads, Alone(r, Node(t)),
         NEW q, q = s_list_attach(r, Active, Node(t))
  PROVE  /\ Shape(q) /\ ~Alone(q, Node(t))
         /\ \A x \in Nodes \ {Active, Node(t)} : Alone(r, x) => Alone(q, x)
         /\ \A e \in Events : q.next[WaitList(e)] = r.next[WaitList(e)]
         /\ \A s : Queue(r, s) => Queue(q, Append(s, t))
<1>1. \A f \in Events : r.next[WaitList(f)] # Node(t)
  <2> SUFFICES ASSUME NEW f \in Events, r.next[WaitList(f)] = Node(t) PROVE FALSE
    OBVIOUS
  <2>1. WaitList(f) \in Nodes /\ Node(t) \in Nodes /\ WaitList(f) # Node(t) /\ Well(r, Nodes)
    BY NodeFacts DEF Shape
  <2> QED BY <2>1, WellFacts
<1>2. q = Requeue(r, t)
  <2>1. s_list_detach(r, Node(t)) = r
    BY LeftAlone, NodeFacts DEF Shape
  <2> QED BY <2>1 DEF Requeue
<1>3. Requeued(q, r, t) /\ Shape(q)
  BY <1>1, <1>2, RequeueReady
<1>4. ASSUME NEW s, Queue(r, s) PROVE Queue(q, Append(s, t))
  <2>1. s \in Seq(Threads) /\ ~InQueue(s, t) /\ \A i, j \in 1..Len(s) : s[i] = s[j] => i = j
    BY <1>4, QueueFacts DEF Shape, InQueue
  <2>2. RQ!Without(s, t) = s
    BY <2>1, Removed
  <2>3. Queue(q, Append(RQ!Without(s, t), t))
    BY <1>3, <1>4 DEF Requeued
  <2> QED BY <2>2, <2>3
<1> QED BY <1>1, <1>3, <1>4 DEF Requeued

-----------------------------------------------------------------------------
(* The inductive invariant.                                                *)

\* Tasks that do not exist are on no list; a task waits on the list of the event
\* waiting_event points to; that pointer is NULL, to the event in the frame of the
\* waiting function, or to an object the task owns, and then the task has not ended.
Consistent(r, pcs, we, st) ==
  /\ Shape(r)
  /\ pcs \in [Threads -> {"none", "entry", "run", "wait", "closed", "idle", "loop", "interrupt"}]
  /\ we \in [Threads -> Events \cup {NoEvent}] /\ st \subseteq Tasks
  /\ \A t \in Tasks :
       /\ pcs[t] = "none" => Alone(r, Node(t)) /\ Alone(r, ListNode(t))
       /\ we[t] \in {NoEvent, <<"local", t>>, <<"heap", t>>}
       /\ we[t] # NoEvent \/ t \in st => pcs[t] \in {"run", "wait"}
       /\ we[t] = <<"heap", t>> => t \in st
  /\ \A e \in Events : r.next[WaitList(e)] = Node(e[2]) => pcs[e[2]] = "wait" /\ we[e[2]] = e

\* The running task is on no list; main queues itself before it lets a task run, and
\* lets the event loop go on only when nobody is ready.
Control(r, cur, pcs) ==
  /\ cur \in Threads /\ Alone(r, Node(cur))
  /\ pcs[Main] \in {"idle", "loop", "interrupt"}
  /\ cur # Main => pcs[Main] = "loop" /\ ~Alone(r, Node(Main))
  /\ pcs[Main] = "idle" => Alone(r, Active)
  /\ \A t \in Tasks : pcs[t] = "run" => cur = t

\* interrupt_all_tasks is at a task that exists.
Walk(n, pcs) ==
  n = AllTasks \/ (pcs[Main] = "interrupt" /\ \E t \in Tasks : n = ListNode(t) /\ pcs[t] # "none")

SchedInv ==
  /\ Consistent(ring, pc, waiting_event, stream)
  /\ Control(ring, current_task, pc)
  /\ Walk(node, pc)

\* Main waits for nothing.
LEMMA MainNotWaiting ==
  ASSUME NEW r, Shape(r)
  PROVE  ~Waits(r, Node(Main))
<1> SUFFICES ASSUME NEW e \in Events, r.prev[Node(Main)] = WaitList(e) PROVE FALSE
  BY DEF Waits
<1>0. Main \in Threads /\ Main \notin Tasks /\ Tasks \subseteq Threads
  BY TasksAssumption DEF Threads
<1>1. Node(Main) \in Nodes /\ WaitList(e) \in Nodes /\ e[2] \in Tasks /\ Well(r, Nodes)
  BY <1>0, NodeFacts DEF Shape
<1>2. r.next[r.prev[Node(Main)]] = Node(Main)
  BY <1>1 DEF Well
<1>3. r.next[WaitList(e)] = Node(Main)
  BY <1>2
<1>4. r.next[WaitList(e)] \in {WaitList(e), Node(e[2])}
  BY DEF Shape, TaskShape, Pairs
<1> QED BY <1>0, <1>1, <1>3, <1>4, NodeFacts

\* s_task_call_next finds a task, at the latest main ("must has one task to run",
\* s_task.c:40), and gives it control.
LEMMA CallsNext ==
  ASSUME NEW r, NEW pcs, NEW we, NEW st, NEW wc,
         Consistent(r, pcs, we, st), pcs[Main] = "loop", ~Alone(r, Node(Main)),
         \A t \in Tasks : pcs[t] # "run",
         CallNext(r, pcs, wc)
  PROVE  Consistent(ring', pc', we, st) /\ Control(ring', current_task', pc') /\ pc'[Main] = "loop"
<1>0. Shape(r) /\ Main \in Threads /\ Tasks \subseteq Threads /\ Main \notin Tasks
  BY TasksAssumption DEF Consistent, Threads
<1>1. ~Alone(r, Active)
  BY <1>0, MainNotWaiting, ActiveReached DEF Shape
<1>2. PICK t \in Threads : /\ r.next[Active] = Node(t) /\ r.next[Active][3] = t
                           /\ Taken(s_list_detach(r, r.next[Active]), r, t)
  BY <1>0, <1>1, TakeFirst
<1>3. /\ Taken(ring', r, t) /\ current_task' = t
      /\ pc' = IF pcs[t] \in {"entry", "wait"} THEN [pcs EXCEPT ![t] = "run"] ELSE pcs
  BY Zenon, <1>1, <1>2 DEF CallNext, s_list_is_empty, Alone
<1>4. pcs \in [Threads -> {"none", "entry", "run", "wait", "closed", "idle", "loop", "interrupt"}]
  BY DEF Consistent
<1>5. /\ pc' \in [Threads -> {"none", "entry", "run", "wait", "closed", "idle", "loop", "interrupt"}]
      /\ \A u \in Threads : pc'[u] = IF u = t /\ pcs[t] \in {"entry", "wait"} THEN "run" ELSE pcs[u]
  BY <1>3, <1>4
<1>6. ASSUME NEW u \in Tasks
      PROVE  /\ pc'[u] = "none" => Alone(ring', Node(u)) /\ Alone(ring', ListNode(u))
             /\ we[u] # NoEvent \/ u \in st => pc'[u] \in {"run", "wait"}
  BY <1>0, <1>3, <1>5, NodeFacts DEF Consistent, Taken
<1>7. ASSUME NEW e \in Events, ring'.next[WaitList(e)] = Node(e[2])
      PROVE  pc'[e[2]] = "wait" /\ we[e[2]] = e
  <2>1. r.next[WaitList(e)] = Node(e[2]) /\ e[2] \in Tasks
    BY <1>3, <1>7, NodeFacts DEF Taken
  <2>2. e[2] # t
    <3>1. WaitList(e) # Node(e[2])
      BY <1>0, <2>1, NodeFacts
    <3> QED BY Zenon, <1>3, <1>7, <3>1 DEF Taken, Alone
  <2> QED BY <1>0, <1>5, <2>1, <2>2 DEF Consistent
<1>8. Consistent(ring', pc', we, st)
  BY Zenon, <1>3, <1>5, <1>6, <1>7 DEF Consistent, Taken
<1>9. pc'[Main] = "loop"
  BY <1>0, <1>5
<1>10. Control(ring', current_task', pc')
  <2>1. t # Main => ~Alone(ring', Node(Main))
    BY <1>0, <1>3 DEF Taken
  <2>2. \A u \in Tasks : pc'[u] = "run" => t = u
    BY <1>0, <1>5
  <2> QED BY <1>3, <1>9, <2>1, <2>2 DEF Control, Taken
<1> QED BY <1>8, <1>9, <1>10

\* Nobody waits for an event unless its waiting_event says so.
LEMMA NotWaited ==
  ASSUME NEW r, NEW pcs, NEW we, NEW st, Consistent(r, pcs, we, st), NEW e \in Events,
         ~(pcs[e[2]] = "wait" /\ we[e[2]] = e)
  PROVE  Alone(r, WaitList(e)) /\ Alone(r, Self(e)) /\ r.next[WaitList(e)] # Node(e[2])
<1>1. r.next[WaitList(e)] # Node(e[2])
  BY DEF Consistent
<1>2. r.next[WaitList(e)] = WaitList(e)
  BY <1>1 DEF Consistent, Shape, TaskShape, Pairs
<1> QED BY <1>1, <1>2 DEF Consistent, Shape, SelfAlone, Alone

\* Initialising an event nobody waits for changes nothing.
LEMMA InitEvent ==
  ASSUME NEW r, Well(r, Nodes), NEW e \in Events, Alone(r, WaitList(e)), Alone(r, Self(e))
  PROVE  s_event_init(r, e) = r
<1>1. WaitList(e) \in Nodes /\ Self(e) \in Nodes
  BY NodeFacts
<1>2. s_list_init(r, WaitList(e)) = r
  BY <1>1, LeftAlone
<1>3. s_list_init(r, Self(e)) = r
  BY <1>1, LeftAlone
<1> QED BY <1>2, <1>3 DEF s_event_init

\* Facts about the running task.
LEMMA RunningTask ==
  ASSUME SchedInv, NEW t \in Tasks, Runs(t)
  PROVE  /\ t \in Threads /\ t # Main /\ Main \in Threads
         /\ Shape(ring) /\ Well(ring, Nodes) /\ Alone(ring, Node(t))
         /\ pc[Main] = "loop" /\ ~Alone(ring, Node(Main)) /\ node = AllTasks
         /\ \A u \in Tasks : u # t => pc[u] # "run"
         /\ \A e \in Events : e[2] = t => Alone(ring, WaitList(e)) /\ Alone(ring, Self(e))
                                          /\ ring.next[WaitList(e)] # Node(t)
<1>1. t \in Threads /\ t # Main /\ Main \in Threads /\ current_task = t /\ pc[t] = "run"
  BY TasksAssumption DEF Threads, Runs
<1>2. Shape(ring) /\ Well(ring, Nodes)
  BY DEF SchedInv, Consistent, Shape
<1>3. Alone(ring, Node(t)) /\ pc[Main] = "loop" /\ ~Alone(ring, Node(Main)) /\ \A u \in Tasks : u # t => pc[u] # "run"
  BY <1>1 DEF SchedInv, Control
<1>4. node = AllTasks
  BY <1>3 DEF SchedInv, Walk
<1>5. ASSUME NEW e \in Events, e[2] = t
      PROVE  Alone(ring, WaitList(e)) /\ Alone(ring, Self(e)) /\ ring.next[WaitList(e)] # Node(t)
  BY <1>1, <1>5, NotWaited DEF SchedInv
<1> QED BY <1>1, <1>2, <1>3, <1>4, <1>5

\* Creating a heap event, and set_interrupt_disabled, keep the invariant.
LEMMA InitStreamStep ==
  ASSUME SchedInv, NEW t \in Tasks, TaskInitStream(t) \/ set_interrupt_disabled(t)
  PROVE  SchedInv'
<1>1. CASE TaskInitStream(t)
  <2>1. Runs(t) /\ pc[t] = "run"
    BY <1>1 DEF TaskInitStream, Runs
  <2>2. <<"heap", t>> \in Events /\ <<"heap", t>>[2] = t
    BY DEF Events
  <2>3. s_event_init(ring, <<"heap", t>>) = ring
    BY Zenon, <2>1, <2>2, RunningTask, InitEvent
  <2>4. ring' = ring /\ stream' = stream \cup {t} /\ UNCHANGED <<current_task, pc, waiting_event, node>>
    BY <1>1, <2>3 DEF TaskInitStream
  <2>5. Consistent(ring, pc, waiting_event, stream')
    BY <2>1, <2>4 DEF SchedInv, Consistent
  <2> QED BY <2>4, <2>5 DEF SchedInv
<1>2. CASE set_interrupt_disabled(t)
  BY <1>2 DEF set_interrupt_disabled, SchedInv
<1> QED BY <1>1, <1>2

\* A wait: the task parks itself and another one gets control.
LEMMA WaitStep ==
  ASSUME SchedInv, NEW t \in Tasks, NEW e \in Events, e \in {<<"local", t>>, <<"heap", t>>}, s_event_wait(t, e)
  PROVE  /\ SchedInv'
         /\ \E r : /\ Parked(r, ring, e)
                  /\ CallNext(r, [pc EXCEPT ![t] = "wait"], [waiting_cancelled EXCEPT ![t] = FALSE])
<1> DEFINE r == s_list_attach(s_list_detach(s_event_add_to_waiting_list(ring, e), Node(t)), WaitList(e), Node(t))
           pcs == [pc EXCEPT ![t] = "wait"]
           we == [waiting_event EXCEPT ![t] = e]
           wc == [waiting_cancelled EXCEPT ![t] = FALSE]
<1>0. e[2] = t /\ Runs(t) /\ pc[t] = "run" /\ (e = <<"heap", t>> => t \in stream)
  BY DEF s_event_wait, Runs
<1>1. /\ t \in Threads /\ t # Main /\ Main \in Threads
      /\ Shape(ring) /\ Well(ring, Nodes) /\ Alone(ring, Node(t))
      /\ pc[Main] = "loop" /\ ~Alone(ring, Node(Main)) /\ node = AllTasks
      /\ \A u \in Tasks : u # t => pc[u] # "run"
      /\ Alone(ring, WaitList(e)) /\ Alone(ring, Self(e))
  BY <1>0, RunningTask
<1>2. s_event_init(ring, e) = ring
  BY <1>1, InitEvent
<1>3. CallNext(r, pcs, wc) /\ waiting_event' = we /\ UNCHANGED <<stream, node>>
  BY <1>2 DEF s_event_wait
<1>4. Parked(r, ring, e)
  BY <1>0, <1>1, ParkTask
<1> HIDE DEF r, wc
<1>5. Consistent(ring, pc, waiting_event, stream)
  BY DEF SchedInv
<1>6. /\ pcs \in [Threads -> {"none", "entry", "run", "wait", "closed", "idle", "loop", "interrupt"}]
      /\ we \in [Threads -> Events \cup {NoEvent}] /\ stream \subseteq Tasks
      /\ \A u \in Threads : pcs[u] = IF u = t THEN "wait" ELSE pc[u]
      /\ \A u \in Threads : we[u] = IF u = t THEN e ELSE waiting_event[u]
  BY <1>1, <1>5 DEF Consistent
<1> HIDE DEF pcs, we
<1>7. ASSUME NEW u \in Tasks
      PROVE  /\ pcs[u] = "none" => Alone(r, Node(u)) /\ Alone(r, ListNode(u))
             /\ we[u] \in {NoEvent, <<"local", u>>, <<"heap", u>>}
             /\ we[u] # NoEvent \/ u \in stream => pcs[u] \in {"run", "wait"}
             /\ we[u] = <<"heap", u>> => u \in stream
  <2>1. u \in Threads
    BY DEF Threads
  <2>2. CASE u = t
    BY <1>0, <1>6, <2>1, <2>2
  <2>3. CASE u # t
    <3>1. pcs[u] = pc[u] /\ we[u] = waiting_event[u]
      BY <1>6, <2>1, <2>3
    <3>2. /\ Node(u) \in Nodes \ {WaitingEvents, Self(e), WaitList(e), Node(t)}
          /\ ListNode(u) \in Nodes \ {WaitingEvents, Self(e), WaitList(e), Node(t)}
      BY <1>1, <2>1, <2>3, NodeFacts
    <3>3. pc[u] = "none" => Alone(r, Node(u)) /\ Alone(r, ListNode(u))
      BY Zenon, <1>0, <1>4, <1>5, <3>2 DEF Parked, Consistent
    <3> QED BY <1>5, <3>1, <3>3 DEF Consistent
  <2> QED BY <2>2, <2>3
<1>8. ASSUME NEW f \in Events, r.next[WaitList(f)] = Node(f[2])
      PROVE  pcs[f[2]] = "wait" /\ we[f[2]] = f
  <2>1. CASE f = e
    BY Zenon, <1>0, <1>1, <1>6, <2>1
  <2>2. CASE f # e
    <3>1. ring.next[WaitList(f)] = Node(f[2])
      BY <1>4, <1>8, <2>2 DEF Parked
    <3>2. pc[f[2]] = "wait" /\ waiting_event[f[2]] = f /\ f[2] \in Threads
      BY <1>5, <3>1, NodeFacts DEF Consistent, Threads
    <3> QED BY <1>0, <1>6, <3>2
  <2> QED BY <2>1, <2>2
<1>9. Consistent(r, pcs, we, stream)
  BY Zenon, <1>4, <1>6, <1>7, <1>8 DEF Consistent, Parked
<1>10. pcs[Main] = "loop" /\ ~Alone(r, Node(Main)) /\ \A u \in Tasks : pcs[u] # "run"
  BY Zenon, <1>1, <1>4, <1>6, NodeFacts DEF Parked, Threads
<1>11. Consistent(ring', pc', we, stream) /\ Control(ring', current_task', pc')
  BY <1>3, <1>9, <1>10, CallsNext
<1>12. SchedInv'
  BY <1>1, <1>3, <1>11 DEF SchedInv, Walk
<1> QED BY Zenon, <1>3, <1>4, <1>12 DEF pcs, wc

\* The end of a task.
LEMMA EndStep ==
  ASSUME SchedInv, NEW t \in Tasks, s_task_context_entry(t)
  PROVE  SchedInv'
<1> DEFINE pcs == [pc EXCEPT ![t] = "closed"]
           we == [waiting_event EXCEPT ![t] = NoEvent]
           wc == [waiting_cancelled EXCEPT ![t] = FALSE]
           e == <<"join", t>>
<1>0. Runs(t) /\ pc[t] = "run" /\ e \in Events /\ e[2] = t
  BY DEF s_task_context_entry, Runs, Events
<1>1. /\ t \in Threads /\ t # Main /\ Main \in Threads
      /\ Shape(ring) /\ Well(ring, Nodes) /\ Alone(ring, Node(t))
      /\ pc[Main] = "loop" /\ ~Alone(ring, Node(Main)) /\ node = AllTasks
      /\ \A u \in Tasks : u # t => pc[u] # "run"
      /\ Alone(ring, WaitList(e))
  BY <1>0, RunningTask
<1>2. s_event_set(ring, e) = ring
  BY <1>0, <1>1, SetWakes
<1>3. CallNext(ring, pcs, wc) /\ waiting_event' = we /\ stream' = stream \ {t} /\ UNCHANGED node
  BY <1>2 DEF s_task_context_entry
<1> HIDE DEF wc, e
<1>4. Consistent(ring, pc, waiting_event, stream)
  BY DEF SchedInv
<1>5. /\ pcs \in [Threads -> {"none", "entry", "run", "wait", "closed", "idle", "loop", "interrupt"}]
      /\ we \in [Threads -> Events \cup {NoEvent}] /\ stream' \subseteq Tasks
      /\ \A u \in Threads : pcs[u] = IF u = t THEN "closed" ELSE pc[u]
      /\ \A u \in Threads : we[u] = IF u = t THEN NoEvent ELSE waiting_event[u]
  BY Zenon, <1>1, <1>3, <1>4 DEF Consistent
<1> HIDE DEF pcs, we
<1>6. ASSUME NEW u \in Tasks
      PROVE  /\ pcs[u] = "none" => Alone(ring, Node(u)) /\ Alone(ring, ListNode(u))
             /\ we[u] \in {NoEvent, <<"local", u>>, <<"heap", u>>}
             /\ we[u] # NoEvent \/ u \in stream' => pcs[u] \in {"run", "wait"}
             /\ we[u] = <<"heap", u>> => u \in stream'
  <2>1. u \in Threads /\ NoEvent # <<"heap", u>>
    BY DEF Threads, NoEvent
  <2>2. CASE u = t
    BY SMTT(30), <1>3, <1>5, <2>1, <2>2
  <2>3. CASE u # t
    BY <1>3, <1>4, <1>5, <2>1, <2>3 DEF Consistent
  <2> QED BY <2>2, <2>3
<1>7. ASSUME NEW f \in Events, ring.next[WaitList(f)] = Node(f[2])
      PROVE  pcs[f[2]] = "wait" /\ we[f[2]] = f
  <2>1. pc[f[2]] = "wait" /\ waiting_event[f[2]] = f /\ f[2] \in Threads
    BY <1>4, <1>7, NodeFacts DEF Consistent, Threads
  <2> QED BY <1>0, <1>5, <2>1
<1>8. Consistent(ring, pcs, we, stream')
  BY Zenon, <1>1, <1>5, <1>6, <1>7 DEF Consistent
<1>9. pcs[Main] = "loop" /\ \A u \in Tasks : pcs[u] # "run"
  BY Zenon, <1>1, <1>5 DEF Threads
<1>10. Consistent(ring', pc', we, stream') /\ Control(ring', current_task', pc')
  BY Zenon, <1>1, <1>3, <1>8, <1>9, CallsNext
<1> QED BY <1>1, <1>3, <1>10 DEF SchedInv, Walk

\* Facts about the main stack outside s_task_call_next.
LEMMA MainFacts ==
  ASSUME SchedInv, current_task = Main
  PROVE  /\ Main \in Threads /\ Main \notin Tasks /\ Tasks \subseteq Threads
         /\ Shape(ring) /\ Well(ring, Nodes) /\ Alone(ring, Node(Main))
         /\ Consistent(ring, pc, waiting_event, stream)
         /\ \A u \in Tasks : pc[u] # "run"
         /\ \A u \in Tasks : Node(u) # Node(Main)
BY TasksAssumption, NodeFacts DEF SchedInv, Consistent, Control, Shape, Threads

\* s_task_main_loop_once keeps the invariant.
LEMMA MainLoopStep ==
  ASSUME SchedInv, MainLoop
  PROVE  SchedInv'
<1>0. /\ Main \in Threads /\ Main \notin Tasks /\ Tasks \subseteq Threads
      /\ Shape(ring) /\ Alone(ring, Node(Main)) /\ Consistent(ring, pc, waiting_event, stream)
      /\ \A u \in Tasks : pc[u] # "run"
      /\ \A u \in Tasks : Node(u) # Node(Main)
      /\ pc[Main] = "loop" /\ current_task = Main /\ node = AllTasks
  BY MainFacts DEF MainLoop, SchedInv, Walk
<1>1. CASE Alone(ring, Active)
  <2>1. /\ pc' = [pc EXCEPT ![Main] = "idle"]
        /\ UNCHANGED <<ring, current_task, waiting_event, stream, node>>
    BY <1>1 DEF MainLoop, s_list_is_empty, Alone
  <2>2. /\ pc' \in [Threads -> {"none", "entry", "run", "wait", "closed", "idle", "loop", "interrupt"}]
        /\ pc'[Main] = "idle" /\ \A u \in Tasks : pc'[u] = pc[u]
    BY <1>0, <2>1 DEF Consistent
  <2>3. Consistent(ring, pc', waiting_event, stream)
    BY <1>0, <2>2, NodeFacts DEF Consistent
  <2>4. Control(ring, Main, pc')
    BY <1>0, <1>1, <2>2 DEF Control
  <2> QED BY <1>0, <2>1, <2>3, <2>4 DEF SchedInv, Walk
<1>2. CASE ~Alone(ring, Active)
  <2> DEFINE r == s_list_attach(ring, Active, Node(Main))
  <2>1. CallNext(r, pc, waiting_cancelled) /\ UNCHANGED <<waiting_event, stream, node>>
    BY <1>2 DEF MainLoop, s_list_is_empty, Alone
  <2>2. /\ Shape(r) /\ ~Alone(r, Node(Main))
        /\ \A x \in Nodes \ {Active, Node(Main)} : Alone(ring, x) => Alone(r, x)
        /\ \A e \in Events : r.next[WaitList(e)] = ring.next[WaitList(e)]
    BY Zenon, <1>0, ReadyTask
  <2> HIDE DEF r
  <2>3. \A u \in Tasks : Node(u) \in Nodes \ {Active, Node(Main)} /\ ListNode(u) \in Nodes \ {Active, Node(Main)}
    BY <1>0, NodeFacts
  <2>4. Consistent(r, pc, waiting_event, stream)
    BY <1>0, <2>2, <2>3 DEF Consistent
  <2>5. Consistent(ring', pc', waiting_event, stream) /\ Control(ring', current_task', pc')
    BY <1>0, <2>1, <2>2, <2>4, CallsNext
  <2> QED BY <1>0, <2>1, <2>5 DEF SchedInv, Walk
<1> QED BY <1>1, <1>2

\* A handler leaves main in the loop, or in interrupt_all_tasks, and the rings
\* consistent.
LEMMA HandlerStep ==
  ASSUME SchedInv, current_task = Main, UNCHANGED current_task,
         Consistent(ring', pc', waiting_event', stream'), Alone(ring', Node(Main)),
         pc'[Main] \in {"loop", "interrupt"}, \A u \in Tasks : pc'[u] # "run",
         Walk(node', pc')
  PROVE  SchedInv'
BY MainFacts DEF SchedInv, Control

\* What ToLoop and clearing main's waiting_event leave alone.
LEMMA HandlerFrame ==
  ASSUME SchedInv, Handler, NEW r, Consistent(r, pc, waiting_event, stream), ring' = r,
         waiting_event' \in {waiting_event, [waiting_event EXCEPT ![Main] = NoEvent]},
         ToLoop(pc), UNCHANGED <<current_task, stream, node>>, Alone(r, Node(Main))
  PROVE  SchedInv'
<1>0. /\ Main \in Threads /\ Main \notin Tasks /\ Tasks \subseteq Threads /\ current_task = Main
      /\ \A u \in Tasks : pc[u] # "run"
      /\ pc[Main] = "idle" /\ node = AllTasks
  BY MainFacts DEF Handler, SchedInv, Walk
<1>1. /\ pc' \in [Threads -> {"none", "entry", "run", "wait", "closed", "idle", "loop", "interrupt"}]
      /\ pc'[Main] = "loop" /\ \A u \in Tasks : pc'[u] = pc[u]
  BY <1>0 DEF ToLoop, Consistent
<1>2. /\ waiting_event' \in [Threads -> Events \cup {NoEvent}]
      /\ \A u \in Tasks : waiting_event'[u] = waiting_event[u]
  BY <1>0 DEF Consistent
<1>3. Consistent(ring', pc', waiting_event', stream')
  <2>1. Shape(ring') /\ stream' \subseteq Tasks
    BY DEF Consistent
  <2>2. ASSUME NEW t \in Tasks
        PROVE  /\ pc'[t] = "none" => Alone(ring', Node(t)) /\ Alone(ring', ListNode(t))
               /\ waiting_event'[t] \in {NoEvent, <<"local", t>>, <<"heap", t>>}
               /\ waiting_event'[t] # NoEvent \/ t \in stream' => pc'[t] \in {"run", "wait"}
               /\ waiting_event'[t] = <<"heap", t>> => t \in stream'
    BY <1>1, <1>2 DEF Consistent
  <2>3. ASSUME NEW e \in Events, ring'.next[WaitList(e)] = Node(e[2])
        PROVE  pc'[e[2]] = "wait" /\ waiting_event'[e[2]] = e
    <3>1. e[2] \in Tasks
      BY NodeFacts
    <3>2. pc[e[2]] = "wait" /\ waiting_event[e[2]] = e
      BY <2>3 DEF Consistent
    <3> QED BY <1>1, <1>2, <3>1, <3>2
  <2> QED BY <1>1, <1>2, <2>1, <2>2, <2>3 DEF Consistent
<1>4. Walk(node', pc')
  BY <1>0 DEF Walk
<1> QED BY <1>0, <1>1, <1>3, <1>4, HandlerStep

\* Waking the waiter of an event, or nobody.
LEMMA WokenConsistent ==
  ASSUME NEW r, NEW pcs, NEW we, NEW st, Consistent(r, pcs, we, st), NEW e \in Events, NEW q,
         pcs[e[2]] # "none", Alone(r, Node(Main)), Woken(q, r, e[2], e)
  PROVE  Consistent(q, pcs, we, st) /\ Alone(q, Node(Main))
<1>0. /\ e[2] \in Tasks /\ e[2] \in Threads /\ Main \in Threads /\ Tasks \subseteq Threads
      /\ Main \notin Tasks
  BY TasksAssumption, NodeFacts DEF Threads
<1>1. Node(Main) \in Nodes \ {Active, Node(e[2])}
  BY <1>0, NodeFacts
<1>2. ASSUME NEW u \in Tasks, pcs[u] = "none" PROVE Alone(q, Node(u)) /\ Alone(q, ListNode(u))
  <2>1. Node(u) \in Nodes \ {Active, Node(e[2])} /\ ListNode(u) \in Nodes \ {Active, Node(e[2])}
    BY <1>0, <1>2, NodeFacts
  <2> QED BY <1>2, <2>1 DEF Consistent, Woken
<1>3. ASSUME NEW f \in Events, q.next[WaitList(f)] = Node(f[2]) PROVE pcs[f[2]] = "wait" /\ we[f[2]] = f
  <2>1. f # e
    BY <1>0, <1>3, NodeFacts DEF Woken, Alone
  <2> QED BY <1>3, <2>1 DEF Woken, Consistent
<1>4. Consistent(q, pcs, we, st)
  BY Zenon, <1>2, <1>3 DEF Consistent, Woken
<1> QED BY <1>1, <1>4 DEF Woken

\* s_event_set called by a handler.
LEMMA SetConsistent ==
  ASSUME NEW r, NEW pcs, NEW we, NEW st, Consistent(r, pcs, we, st), NEW e \in Events,
         Alone(r, Node(Main))
  PROVE  Consistent(s_event_set(r, e), pcs, we, st) /\ Alone(s_event_set(r, e), Node(Main))
<1> DEFINE q == s_event_set(r, e)
<1>0. Shape(r)
  BY DEF Consistent
<1>1. CASE Alone(r, WaitList(e))
  BY <1>0, <1>1, SetWakes
<1>2. CASE ~Alone(r, WaitList(e))
  <2>1. Woken(q, r, e[2], e)
    BY <1>0, <1>2, SetWakes
  <2>2. pcs[e[2]] # "none"
    BY <1>2, NotWaited
  <2> HIDE DEF q
  <2>3. Consistent(q, pcs, we, st) /\ Alone(q, Node(Main))
    BY <2>1, <2>2, WokenConsistent
  <2> QED BY <2>3 DEF q
<1> QED BY <1>1, <1>2

\* s_task_cancel_wait called by a handler.
LEMMA CancelConsistent ==
  ASSUME NEW r, NEW pcs, NEW st, Consistent(r, pcs, waiting_event, st), NEW t \in Tasks,
         pcs[t] # "none", Alone(r, Node(Main))
  PROVE  Consistent(CancelLinks(r, t), pcs, waiting_event, st) /\ Alone(CancelLinks(r, t), Node(Main))
<1> DEFINE q == CancelLinks(r, t)
<1>0. Shape(r) /\ t \in Threads /\ Main \in Threads /\ t # Main
  BY TasksAssumption DEF Consistent, Threads
<1>1. ASSUME NEW f \in Events, r.next[WaitList(f)] = Node(t) PROVE waiting_event[t] = f /\ f[2] = t
  <2>1. r.next[WaitList(f)] \in {WaitList(f), Node(f[2])} /\ f[2] \in Threads
    BY <1>0, NodeFacts DEF Shape, TaskShape, Pairs, Threads
  <2>2. f[2] = t
    BY <1>0, <1>1, <2>1, NodeFacts
  <2> QED BY <1>1, <2>2 DEF Consistent
<1>2. CASE waiting_event[t] = NoEvent
  <2>1. q = Requeue(r, t)
    BY <1>2 DEF CancelLinks
  <2>2. \A f \in Events : r.next[WaitList(f)] # Node(t)
    BY <1>1, <1>2, NodeFacts
  <2>3. Requeued(q, r, t) /\ Shape(q)
    BY <1>0, <2>1, <2>2, RequeueReady
  <2> HIDE DEF q
  <2>4. \A e \in Events : q.next[WaitList(e)] = r.next[WaitList(e)]
    BY Zenon, <2>2, <2>3 DEF Requeued
  <2>5. ASSUME NEW u \in Tasks, pcs[u] = "none" PROVE Alone(q, Node(u)) /\ Alone(q, ListNode(u))
    <3>1. u \in Threads /\ u # t
      BY <2>5 DEF Threads
    <3>2. Node(u) \in Nodes \ {Active, Node(t)} /\ ListNode(u) \in Nodes \ {Active, Node(t)}
      BY <1>0, <3>1, NodeFacts
    <3> QED BY <2>3, <2>5, <3>2 DEF Requeued, Consistent
  <2>6. Consistent(q, pcs, waiting_event, st)
    BY <2>3, <2>4, <2>5 DEF Consistent
  <2>7. Node(Main) \in Nodes \ {Active, Node(t)}
    BY <1>0, NodeFacts
  <2> QED BY Zenon, <2>3, <2>6, <2>7 DEF Requeued, q
<1>3. CASE waiting_event[t] # NoEvent
  <2> DEFINE e == waiting_event[t]
  <2>1. e \in Events /\ e[2] = t
    BY <1>3 DEF Consistent, Events
  <2>2. q = s_event_remove_from_waiting_list(Requeue(r, t), e)
    BY <1>3 DEF CancelLinks
  <2>3. Woken(q, r, t, e)
    BY Zenon, <1>0, <1>1, <2>1, <2>2, WakeTask
  <2> HIDE DEF q, e
  <2>4. Consistent(q, pcs, waiting_event, st) /\ Alone(q, Node(Main))
    BY <2>1, <2>3, WokenConsistent
  <2> QED BY <2>4 DEF q
<1> QED BY <1>2, <1>3

\* A handler that sets an event keeps the invariant.
LEMMA SetEventStep ==
  ASSUME SchedInv, NEW e \in Events, SetEvent(e)
  PROVE  SchedInv'
<1>1. Handler /\ current_task = Main /\ ring' = s_event_set(ring, e) /\ ToLoop(pc)
  BY DEF SetEvent, Handler
<1>2. /\ waiting_event' = [waiting_event EXCEPT ![Main] = NoEvent]
      /\ UNCHANGED <<current_task, stream, node>>
  BY DEF SetEvent
<1>3. Consistent(s_event_set(ring, e), pc, waiting_event, stream) /\ Alone(s_event_set(ring, e), Node(Main))
  BY <1>1, MainFacts, SetConsistent
<1> QED BY <1>1, <1>2, <1>3, HandlerFrame

\* One task is interrupted, on rings that are consistent.
LEMMA InterruptConsistent ==
  ASSUME NEW r, NEW pcs, NEW st, Consistent(r, pcs, waiting_event, st), NEW t \in Tasks,
         pcs[t] # "none", Alone(r, Node(Main)), interrupt_task(r, t)
  PROVE  /\ Consistent(ring', pcs, waiting_event, st) /\ Alone(ring', Node(Main))
         /\ waiting_event' = [waiting_event EXCEPT ![Main] = NoEvent]
         /\ UNCHANGED <<current_task, stream>>
<1>1. /\ waiting_event' = [waiting_event EXCEPT ![Main] = NoEvent] /\ UNCHANGED <<current_task, stream>>
      /\ ring' = IF t \notin interrupt_disabled THEN CancelLinks(r, t) ELSE r
  BY DEF interrupt_task
<1>2. Consistent(CancelLinks(r, t), pcs, waiting_event, st) /\ Alone(CancelLinks(r, t), Node(Main))
  BY CancelConsistent
<1>3. CASE t \in interrupt_disabled
  BY <1>1, <1>3
<1>4. CASE t \notin interrupt_disabled
  BY <1>1, <1>2, <1>4
<1> QED BY <1>1, <1>3, <1>4

\* A handler that interrupts one task keeps the invariant.
LEMMA InterruptStep ==
  ASSUME SchedInv, NEW t \in Tasks, Interrupt(t)
  PROVE  SchedInv'
<1>0. Handler /\ current_task = Main /\ t \in stream /\ ToLoop(pc) /\ UNCHANGED node
  BY DEF Interrupt, Handler
<1>1. /\ Consistent(ring, pc, waiting_event, stream) /\ Alone(ring, Node(Main))
  BY <1>0, MainFacts
<1>2. pc[t] # "none"
  BY <1>0, <1>1 DEF Consistent
<1> DEFINE e == <<"heap", t>>
           r == s_event_set(ring, e)
<1>3. e \in Events
  BY DEF Events
<1>4. Consistent(r, pc, waiting_event, stream) /\ Alone(r, Node(Main))
  BY <1>1, <1>3, SetConsistent
<1>5. interrupt_task(ring, t) \/ interrupt_task(r, t)
  BY DEF Interrupt
<1> HIDE DEF r
<1>6. /\ Consistent(ring', pc, waiting_event, stream) /\ Alone(ring', Node(Main))
      /\ waiting_event' = [waiting_event EXCEPT ![Main] = NoEvent]
      /\ UNCHANGED <<current_task, stream>>
  BY <1>1, <1>2, <1>4, <1>5, InterruptConsistent
<1> QED BY <1>0, <1>6, HandlerFrame

\* The next node of all_tasks is its head or belongs to a task that exists.
LEMMA WalksOn ==
  ASSUME SchedInv, NEW n, n = AllTasks \/ \E t \in Tasks : n = ListNode(t) /\ pc[t] # "none"
  PROVE  ring.next[n] = AllTasks \/ \E t \in Tasks : ring.next[n] = ListNode(t) /\ pc[t] # "none"
<1>1. n \in ListKind /\ n \in Nodes /\ Well(ring, Nodes) /\ Closed(ring, ListKind)
  BY NodeFacts DEF SchedInv, Consistent, Shape
<1>2. ring.next[n] \in ListKind /\ ring.prev[ring.next[n]] = n /\ ring.next[n] \in Nodes
  BY <1>1, WellFacts DEF Closed
<1>3. CASE ring.next[n] = AllTasks
  BY <1>3
<1>4. ASSUME NEW u \in Tasks, ring.next[n] = ListNode(u), pc[u] = "none" PROVE FALSE
  <2>1. Alone(ring, ListNode(u))
    BY <1>4 DEF SchedInv, Consistent
  <2>2. ring.prev[ListNode(u)] = ListNode(u)
    <3>1. ring.prev[ring.next[ListNode(u)]] = ListNode(u)
      BY Zenon, <1>1, <1>2, <1>4 DEF Well
    <3> QED BY Zenon, <2>1, <3>1 DEF Alone
  <2>3. n = ListNode(u)
    BY <1>2, <1>4, <2>2
  <2> QED BY <1>4, <2>3, NodeFacts
<1> QED BY <1>2, <1>3, <1>4 DEF ListKind

\* interrupt_all_tasks keeps the invariant, from the first node to the last.
LEMMA InterruptAllStep ==
  ASSUME SchedInv, interrupt_all_tasks \/ InterruptNext
  PROVE  SchedInv'
<1>0. /\ current_task = Main /\ Main \in Threads /\ Main \notin Tasks /\ Tasks \subseteq Threads
      /\ Consistent(ring, pc, waiting_event, stream) /\ Alone(ring, Node(Main))
      /\ \A u \in Tasks : pc[u] # "run"
  BY Zenon, MainFacts DEF interrupt_all_tasks, InterruptNext, Handler
<1>1. CASE interrupt_all_tasks
  <2>1. /\ node' = ring.next[AllTasks] /\ pc' = [pc EXCEPT ![Main] = "interrupt"]
        /\ UNCHANGED <<ring, current_task, waiting_event, stream>>
    BY <1>1 DEF interrupt_all_tasks
  <2>2. /\ pc' \in [Threads -> {"none", "entry", "run", "wait", "closed", "idle", "loop", "interrupt"}]
        /\ pc'[Main] = "interrupt" /\ \A u \in Tasks : pc'[u] = pc[u]
    BY <1>0, <2>1 DEF Consistent
  <2>3. Consistent(ring', pc', waiting_event', stream')
    BY <1>0, <2>1, <2>2, NodeFacts DEF Consistent
  <2>4. Walk(node', pc')
    BY <2>1, <2>2, WalksOn DEF Walk
  <2> QED BY <1>0, <2>1, <2>2, <2>3, <2>4, HandlerStep
<1>2. CASE InterruptNext /\ node = AllTasks
  <2>1. /\ pc' = [pc EXCEPT ![Main] = "loop"]
        /\ UNCHANGED <<ring, current_task, waiting_event, stream, node>>
    BY <1>2 DEF InterruptNext, ToLoop
  <2>2. /\ pc' \in [Threads -> {"none", "entry", "run", "wait", "closed", "idle", "loop", "interrupt"}]
        /\ pc'[Main] = "loop" /\ \A u \in Tasks : pc'[u] = pc[u]
    BY <1>0, <2>1 DEF Consistent
  <2>3. Consistent(ring', pc', waiting_event', stream')
    BY <1>0, <2>1, <2>2, NodeFacts DEF Consistent
  <2>4. Walk(node', pc')
    BY <1>2, <2>1 DEF Walk
  <2> QED BY <1>0, <2>1, <2>2, <2>3, <2>4, HandlerStep
<1>3. CASE InterruptNext /\ node # AllTasks
  <2>1. pc[Main] = "interrupt" /\ UNCHANGED pc /\ node' = ring.next[node] /\ interrupt_task(ring, node[3])
    BY Zenon, <1>3 DEF InterruptNext
  <2>2. PICK t \in Tasks : node = ListNode(t) /\ pc[t] # "none"
    BY <1>3 DEF SchedInv, Walk
  <2>3. interrupt_task(ring, t)
    BY <2>1, <2>2, NodeFacts
  <2>4. /\ Consistent(ring', pc, waiting_event, stream) /\ Alone(ring', Node(Main))
        /\ waiting_event' = [waiting_event EXCEPT ![Main] = NoEvent]
        /\ UNCHANGED <<current_task, stream>>
    BY <1>0, <2>2, <2>3, InterruptConsistent
  <2>5. /\ waiting_event' \in [Threads -> Events \cup {NoEvent}]
        /\ \A u \in Tasks : waiting_event'[u] = waiting_event[u]
    BY <1>0, <2>4 DEF Consistent
  <2>6. Consistent(ring', pc', waiting_event', stream')
    BY <2>1, <2>4, <2>5, NodeFacts DEF Consistent
  <2>7. Walk(node', pc')
    BY <2>1, <2>2, WalksOn DEF Walk
  <2> QED BY Zenon, <1>0, <2>1, <2>4, <2>6, <2>7, HandlerStep
<1> QED BY <1>1, <1>2, <1>3

\* se_task_create keeps the invariant.
LEMMA CreateStep ==
  ASSUME SchedInv, NEW t \in Tasks, se_task_create(t)
  PROVE  /\ SchedInv'
         /\ \A f \in Events : ring'.next[WaitList(f)] = ring.next[WaitList(f)]
         /\ \A s : Queue(ring, s) => Queue(ring', Append(s, t))
<1> DEFINE L == s_list_attach(ring, AllTasks, ListNode(t))
           q == s_list_attach(L, Active, Node(t))
           e == <<"join", t>>
<1>0. /\ Handler /\ current_task = Main /\ pc[Main] = "idle" /\ pc[t] = "none"
      /\ UNCHANGED <<current_task, stream, node>> /\ waiting_event' = [waiting_event EXCEPT ![t] = NoEvent]
      /\ pc' = [[pc EXCEPT ![t] = "entry"] EXCEPT ![Main] = "loop"]
  BY DEF se_task_create, Handler, ToLoop
<1>1. /\ Main \in Threads /\ Main \notin Tasks /\ Tasks \subseteq Threads
      /\ Shape(ring) /\ Well(ring, Nodes) /\ Alone(ring, Node(Main))
      /\ Consistent(ring, pc, waiting_event, stream)
      /\ \A u \in Tasks : pc[u] # "run"
  BY <1>0, MainFacts
<1>2. Alone(ring, Node(t)) /\ Alone(ring, ListNode(t))
  BY Zenon, <1>0, <1>1 DEF Consistent
<1>3. e \in Events /\ e[2] = t
  BY DEF Events
<1>4. Alone(ring, WaitList(e)) /\ Alone(ring, Self(e))
  BY Zenon, <1>0, <1>1, <1>3, NotWaited
<1>5. /\ Shape(L) /\ \A x \in Nodes \ {AllTasks, ListNode(t)} : Alone(ring, x) => Alone(L, x)
      /\ \A x \in TaskKind : L.next[x] = ring.next[x]
      /\ \A s : Queue(ring, s) => Queue(L, s)
  BY Zenon, <1>1, <1>2, ListTask
<1>6. s_list_init(ring, ListNode(t)) = ring
  BY <1>1, <1>2, LeftAlone, NodeFacts
<1>7. Node(t) \in Nodes \ {AllTasks, ListNode(t)} /\ Node(Main) \in Nodes \ {AllTasks, ListNode(t)}
      /\ WaitList(e) \in Nodes \ {AllTasks, ListNode(t)} /\ Self(e) \in Nodes \ {AllTasks, ListNode(t)}
  BY <1>1, <1>3, NodeFacts
<1> HIDE DEF L, e
<1>8. Alone(L, Node(t)) /\ Alone(L, Node(Main)) /\ Alone(L, WaitList(e)) /\ Alone(L, Self(e)) /\ Well(L, Nodes)
  BY <1>1, <1>2, <1>4, <1>5, <1>7 DEF Shape
<1>9. s_list_init(L, Node(t)) = L
  BY <1>7, <1>8, LeftAlone
<1>10. s_event_init(L, e) = L
  BY <1>3, <1>8, InitEvent
<1>11. ring' = q
  BY <1>6, <1>9, <1>10 DEF se_task_create, L, e
<1>12. /\ Shape(q) /\ ~Alone(q, Node(t))
       /\ \A x \in Nodes \ {Active, Node(t)} : Alone(L, x) => Alone(q, x)
       /\ \A f \in Events : q.next[WaitList(f)] = L.next[WaitList(f)]
       /\ \A s : Queue(L, s) => Queue(q, Append(s, t))
  BY <1>1, <1>5, <1>8, ReadyTask
<1> HIDE DEF q
<1>13. Alone(q, Node(Main))
  BY <1>1, <1>7, <1>8, <1>12, NodeFacts
<1>14. /\ pc' \in [Threads -> {"none", "entry", "run", "wait", "closed", "idle", "loop", "interrupt"}]
       /\ pc'[Main] = "loop" /\ pc'[t] = "entry" /\ \A u \in Tasks : u # t => pc'[u] = pc[u]
  <2>1. pc \in [Threads -> {"none", "entry", "run", "wait", "closed", "idle", "loop", "interrupt"}]
    BY <1>1 DEF Consistent
  <2> QED BY <1>0, <1>1, <2>1
<1>15. /\ waiting_event' \in [Threads -> Events \cup {NoEvent}] /\ waiting_event'[t] = NoEvent
       /\ \A u \in Tasks : u # t => waiting_event'[u] = waiting_event[u]
  BY Zenon, <1>0, <1>1 DEF Consistent
<1>16. ASSUME NEW u \in Tasks
       PROVE  /\ pc'[u] = "none" => Alone(q, Node(u)) /\ Alone(q, ListNode(u))
              /\ waiting_event'[u] \in {NoEvent, <<"local", u>>, <<"heap", u>>}
              /\ waiting_event'[u] # NoEvent \/ u \in stream' => pc'[u] \in {"run", "wait"}
              /\ waiting_event'[u] = <<"heap", u>> => u \in stream'
  <2>1. CASE u = t
    <3>1. u \notin stream /\ NoEvent # <<"heap", u>>
      BY <1>0, <1>1, <2>1 DEF Consistent, NoEvent
    <3>2. pc'[u] = "entry" /\ waiting_event'[u] = NoEvent /\ u \notin stream'
      BY <1>0, <1>14, <1>15, <2>1, <3>1
    <3> QED BY <3>1, <3>2
  <2>2. CASE u # t
    <3>1. /\ Node(u) \in Nodes \ {AllTasks, ListNode(t), Active, Node(t)}
          /\ ListNode(u) \in Nodes \ {AllTasks, ListNode(t), Active, Node(t)}
      BY <1>1, <2>2, NodeFacts
    <3>2. pc[u] = "none" => Alone(q, Node(u)) /\ Alone(q, ListNode(u))
      BY <1>1, <1>5, <1>12, <3>1 DEF Consistent
    <3> QED BY Zenon, <1>0, <1>1, <1>14, <1>15, <2>2, <3>2 DEF Consistent
  <2> QED BY <2>1, <2>2
<1>17. ASSUME NEW f \in Events, q.next[WaitList(f)] = Node(f[2])
       PROVE  pc'[f[2]] = "wait" /\ waiting_event'[f[2]] = f
  <2>1. ring.next[WaitList(f)] = Node(f[2]) /\ f[2] \in Tasks
    BY <1>5, <1>12, <1>17, NodeFacts
  <2>2. pc[f[2]] = "wait" /\ waiting_event[f[2]] = f
    BY <1>1, <2>1 DEF Consistent
  <2> QED BY Zenon, <1>0, <1>14, <1>15, <2>1, <2>2
<1>18. Consistent(ring', pc', waiting_event', stream')
  BY Zenon, <1>0, <1>1, <1>11, <1>12, <1>14, <1>15, <1>16, <1>17 DEF Consistent
<1>19. Walk(node', pc') /\ \A u \in Tasks : pc'[u] # "run"
  BY <1>0, <1>1, <1>14 DEF Walk, SchedInv
<1>20. SchedInv'
  BY Zenon, <1>0, <1>11, <1>13, <1>14, <1>18, <1>19, HandlerStep
<1>21. \A f \in Events : ring'.next[WaitList(f)] = ring.next[WaitList(f)]
  BY <1>5, <1>11, <1>12, NodeFacts
<1> QED BY Zenon, <1>5, <1>11, <1>12, <1>20, <1>21

\* A task that has ended is freed: it is on no list any more, for active_tasks is
\* empty and it waits for nothing.
LEMMA FreeStep ==
  ASSUME SchedInv, NEW t \in Tasks, se_task_end_handler(t)
  PROVE  SchedInv'
<1>0. /\ Handler /\ current_task = Main /\ pc[Main] = "idle" /\ pc[t] = "closed"
      /\ UNCHANGED <<current_task, stream, node, waiting_event>>
      /\ pc' = [[pc EXCEPT ![t] = "none"] EXCEPT ![Main] = "loop"]
      /\ ring' = s_list_detach(ring, ListNode(t))
  BY DEF se_task_end_handler, Handler, ToLoop
<1>1. /\ Main \in Threads /\ Main \notin Tasks /\ Tasks \subseteq Threads
      /\ Shape(ring) /\ Well(ring, Nodes) /\ TaskShape(ring) /\ Alone(ring, Node(Main))
      /\ Consistent(ring, pc, waiting_event, stream)
      /\ \A u \in Tasks : pc[u] # "run"
  BY <1>0, MainFacts DEF Shape
<1>2. /\ Shape(ring') /\ Alone(ring', ListNode(t)) /\ \A x \in Nodes : Alone(ring, x) => Alone(ring', x)
      /\ \A x \in TaskKind : ring'.next[x] = ring.next[x]
  <2>1. Shape(ring) /\ ring' = s_list_detach(ring, ListNode(t))
    BY <1>0, <1>1
  <2>2. OffAllTasks(ring', ring, t)
    BY <2>1, UnlistTask
  <2> QED BY <2>2 DEF OffAllTasks
<1>3. Alone(ring, Active)
  BY <1>0 DEF SchedInv, Control
<1>4. ~Waits(ring, Node(t))
  <2> SUFFICES ASSUME NEW f \in Events, ring.prev[Node(t)] = WaitList(f) PROVE FALSE
    BY DEF Waits
  <2>1. Node(t) \in Nodes /\ WaitList(f) \in Nodes /\ Node(t) # WaitList(f) /\ f[2] \in Threads /\ t \in Threads
    BY <1>1, NodeFacts
  <2>0. ring.next[ring.prev[Node(t)]] = Node(t)
    BY <1>1, <2>1 DEF Well
  <2>2. ring.next[WaitList(f)] = Node(t)
    BY <2>0
  <2>3. ring.next[WaitList(f)] \in {WaitList(f), Node(f[2])}
    BY Zenon, <1>1 DEF TaskShape, Pairs
  <2>4. Node(f[2]) = Node(t)
    BY <2>1, <2>2, <2>3
  <2>5. f[2] = t
    BY <2>1, <2>4, NodeFacts
  <2> QED BY Zenon, <1>0, <1>1, <2>2, <2>5 DEF Consistent
<1>5. Alone(ring, Node(t))
  BY <1>1, <1>3, <1>4, ActiveReached
<1>6. /\ pc' \in [Threads -> {"none", "entry", "run", "wait", "closed", "idle", "loop", "interrupt"}]
      /\ pc'[Main] = "loop" /\ pc'[t] = "none" /\ \A u \in Tasks : u # t => pc'[u] = pc[u]
  BY <1>0, <1>1 DEF Consistent
<1>7. ASSUME NEW u \in Tasks
      PROVE  /\ pc'[u] = "none" => Alone(ring', Node(u)) /\ Alone(ring', ListNode(u))
             /\ waiting_event[u] # NoEvent \/ u \in stream => pc'[u] \in {"run", "wait"}
  BY Zenon, <1>0, <1>1, <1>2, <1>5, <1>6, NodeFacts DEF Consistent
<1>8. ASSUME NEW f \in Events, ring'.next[WaitList(f)] = Node(f[2])
      PROVE  pc'[f[2]] = "wait" /\ waiting_event[f[2]] = f
  <2>1. ring.next[WaitList(f)] = Node(f[2]) /\ f[2] \in Tasks
    BY <1>2, <1>8, NodeFacts
  <2> QED BY <1>0, <1>1, <1>6, <2>1 DEF Consistent
<1>9. Consistent(ring', pc', waiting_event', stream')
  BY Zenon, <1>0, <1>1, <1>2, <1>6, <1>7, <1>8 DEF Consistent
<1>10. Alone(ring', Node(Main))
  BY <1>1, <1>2, NodeFacts
<1>11. Walk(node', pc') /\ \A u \in Tasks : pc'[u] # "run"
  BY <1>0, <1>1, <1>6 DEF Walk, SchedInv
<1> QED BY Zenon, <1>0, <1>6, <1>9, <1>10, <1>11, HandlerStep

-----------------------------------------------------------------------------
(* The theorems.                                                           *)

\* The invariant holds after s_task_init_system.
LEMMA SchedInit == Init => SchedInv
<1> SUFFICES ASSUME Init PROVE SchedInv
  OBVIOUS
<1>0. Main \in Threads /\ Main \notin Tasks /\ Tasks \subseteq Threads /\ TaskKind \subseteq Nodes /\ ListKind \subseteq Nodes
  BY TasksAssumption, NodeFacts DEF Threads
<1>1. /\ ring \in [next : [Nodes -> Nodes], prev : [Nodes -> Nodes]]
      /\ \A n \in Nodes : ring.next[n] = n /\ ring.prev[n] = n
  BY DEF Init
<1>2. Well(ring, Nodes)
  BY <1>1 DEF Well
<1>3. \A n \in Nodes : Alone(ring, n)
  BY <1>1 DEF Alone
<1>4. Closed(ring, TaskKind) /\ Closed(ring, ListKind)
  BY <1>0, <1>1 DEF Closed
<1>5. Pairs(ring) /\ SelfAlone(ring)
  BY <1>1, <1>3, NodeFacts DEF Pairs, SelfAlone
<1>6. Queued(ring)
  <2>1. Len(<<>>) = 0 /\ <<>> \in Seq(Threads) /\ \A i \in Nat : At(<<>>, i) = Active
    BY DEF At
  <2>2. Queue(ring, <<>>)
    BY <1>1, <1>3, <2>1, NodeFacts DEF Queue
  <2> QED BY <2>2 DEF Queued
<1>7. Shape(ring)
  BY <1>2, <1>4, <1>5, <1>6 DEF Shape, TaskShape
<1>8. /\ pc \in [Threads -> {"none", "entry", "run", "wait", "closed", "idle", "loop", "interrupt"}]
      /\ waiting_event \in [Threads -> Events \cup {NoEvent}] /\ stream = {}
      /\ pc[Main] = "idle"
      /\ \A u \in Tasks : pc[u] = "none" /\ waiting_event[u] = NoEvent
  BY <1>0 DEF Init, Threads
<1>9. \A e \in Events : ring.next[WaitList(e)] # Node(e[2])
  BY <1>0, <1>1, NodeFacts
<1>10. Consistent(ring, pc, waiting_event, stream)
  BY SMTT(30), <1>0, <1>3, <1>7, <1>8, <1>9, NodeFacts DEF Consistent, NoEvent
<1>11. Control(ring, current_task, pc) /\ Walk(node, pc)
  BY <1>0, <1>3, <1>8, NodeFacts DEF Init, Control, Walk
<1> QED BY <1>10, <1>11 DEF SchedInv

\* Every step keeps the invariant.
LEMMA SchedStep == SchedInv /\ [Next]_vars => SchedInv'
<1> SUFFICES ASSUME SchedInv, [Next]_vars PROVE SchedInv'
  OBVIOUS
<1>1. CASE MainLoop
  BY <1>1, MainLoopStep
<1>2. CASE interrupt_all_tasks \/ InterruptNext
  BY <1>2, InterruptAllStep
<1>3. CASE Over \/ UNCHANGED vars
  BY <1>3 DEF Over, vars, SchedInv
<1>4. ASSUME NEW t \in Tasks, TaskStep(t) PROVE SchedInv'
  <2>1. <<"local", t>> \in Events /\ <<"heap", t>> \in Events
    BY DEF Events
  <2>2. CASE TaskInitStream(t) \/ set_interrupt_disabled(t)
    BY <2>2, InitStreamStep
  <2>3. CASE s_event_wait(t, <<"local", t>>)
    BY Zenon, <2>1, <2>3, WaitStep
  <2>4. CASE s_event_wait(t, <<"heap", t>>)
    BY Zenon, <2>1, <2>4, WaitStep
  <2>5. CASE s_task_context_entry(t)
    BY <2>5, EndStep
  <2> QED BY <1>4, <2>2, <2>3, <2>4, <2>5 DEF TaskStep
<1>5. ASSUME NEW t \in Tasks, se_task_create(t) \/ Interrupt(t) \/ se_task_end_handler(t) PROVE SchedInv'
  BY <1>5, CreateStep, InterruptStep, FreeStep
<1>6. ASSUME NEW e \in Events, SetEvent(e) PROVE SchedInv'
  BY <1>6, SetEventStep
<1> QED BY <1>1, <1>2, <1>3, <1>4, <1>5, <1>6 DEF Next

\* The invariant holds always.
LEMMA SchedHolds == Spec => []SchedInv
<1> QED BY SchedInit, SchedStep, PTL DEF Spec

\* For every number of tasks, no list runs through memory that has been freed or
\* left, next and prev are inverse on what is in use, and interrupt_all_tasks walks
\* through tasks that exist (s_list.c:32-59, se_libs.c:111-124, 197-232).
THEOREM NoDanglingLinks == Spec => []LinksLive
<1>1. ASSUME SchedInv, NEW n \in LiveNodes
      PROVE  /\ ring.next[n] \in LiveNodes /\ ring.prev[n] \in LiveNodes
             /\ ring.prev[ring.next[n]] = n /\ ring.next[ring.prev[n]] = n
  <2>0. Consistent(ring, pc, waiting_event, stream) /\ Well(ring, Nodes) /\ Main \in Threads
    BY Zenon, <1>1 DEF SchedInv, Consistent, Shape, Threads
  <2>1. LiveNodes \subseteq Nodes
    BY SMTT(30), <2>0, NodeFacts DEF LiveNodes, LiveEvents, Threads
  <2>2. ASSUME NEW x \in Nodes, ~Alone(ring, x) PROVE x \in LiveNodes
    <3>1. ASSUME NEW t \in Tasks, x = Node(t) \/ x = ListNode(t) PROVE x \in LiveNodes
      <4>1. pc[t] # "none"
        BY <2>0, <2>2, <3>1 DEF Consistent
      <4> QED BY Zenon, <3>1, <4>1 DEF LiveNodes
    <3>2. ASSUME NEW e \in Events, x = WaitList(e) \/ x = Self(e) PROVE x \in LiveNodes
      <4>1. pc[e[2]] = "wait" /\ waiting_event[e[2]] = e
        BY <2>0, <2>2, <3>2, NotWaited
      <4>2. e[2] \in Tasks /\ e \in {NoEvent, <<"local", e[2]>>, <<"heap", e[2]>>} /\ e # NoEvent
        BY <2>0, <4>1, NodeFacts DEF Consistent
      <4>3. e = <<"heap", e[2]>> => e[2] \in stream
        BY <2>0, <4>1, <4>2 DEF Consistent
      <4>4. e \in LiveEvents
        <5>0. \A k, u : <<k, u>>[1] = k
          OBVIOUS
        <5>1. CASE e = <<"local", e[2]>>
          <6>1. e[1] = "local"
            BY <5>0, <5>1, Zenon
          <6> QED BY <4>1, <6>1, Zenon DEF LiveEvents
        <5>2. CASE e = <<"heap", e[2]>>
          <6>1. e[1] = "heap"
            BY <5>0, <5>2, Zenon
          <6> QED BY <4>3, <5>2, <6>1, Zenon DEF LiveEvents
        <5> QED BY <4>2, <5>1, <5>2
      <4> QED BY <3>2, <4>4 DEF LiveNodes
    <3>3. CASE x \in {Active, WaitingEvents, AllTasks, Node(Main)}
      BY <3>3 DEF LiveNodes
    <3> QED BY <3>1, <3>2, <3>3 DEF Nodes
  <2>3. n \in Nodes /\ ring.next[n] \in Nodes /\ ring.prev[n] \in Nodes
        /\ ring.prev[ring.next[n]] = n /\ ring.next[ring.prev[n]] = n
    BY <1>1, <2>0, <2>1, WellFacts
  <2>4. ring.next[n] \in LiveNodes
    <3>1. CASE ring.next[n] = n
      BY <1>1, <3>1
    <3>2. CASE ring.next[n] # n
      <4>1. ~Alone(ring, ring.next[n])
        BY <2>0, <2>3, <3>2, WellFacts
      <4> QED BY <2>2, <2>3, <4>1
    <3> QED BY <3>1, <3>2
  <2>5. ring.prev[n] \in LiveNodes
    <3>1. CASE ring.prev[n] = n
      BY <1>1, <3>1
    <3>2. CASE ring.prev[n] # n
      <4>1. ~Alone(ring, ring.prev[n])
        BY <2>3, <3>2 DEF Alone
      <4> QED BY <2>2, <2>3, <4>1
    <3> QED BY <3>1, <3>2
  <2> QED BY <2>3, <2>4, <2>5
<1>2. ASSUME SchedInv PROVE node \in LiveNodes
  BY <1>2 DEF SchedInv, Walk, LiveNodes
<1>3. SchedInv => LinksLive
  BY <1>1, <1>2 DEF LinksLive
<1> QED BY <1>3, SchedHolds, PTL

\* For every number of tasks, the event that s_task_cancel_wait looks at is in use
\* whenever the main stack, and with it a handler, may cancel (s_task.c:189-193).
THEOREM CancelIsSafe == Spec => []CancelSeesLiveEvent
<1>1. SchedInv => CancelSeesLiveEvent
  <2> SUFFICES ASSUME SchedInv, current_task = Main, NEW t \in Tasks, waiting_event[t] # NoEvent
               PROVE  waiting_event[t] \in LiveEvents
    BY DEF CancelSeesLiveEvent
  <2>1. /\ pc[t] # "run" /\ pc[t] \in {"run", "wait"}
        /\ waiting_event[t] \in {<<"local", t>>, <<"heap", t>>}
        /\ waiting_event[t] = <<"heap", t>> => t \in stream
    BY Zenon, MainFacts DEF Consistent
  <2>2. <<"local", t>> \in Events /\ <<"heap", t>> \in Events
    BY DEF Events
  <2> QED BY <2>1, <2>2 DEF LiveEvents
<1> QED BY <1>1, SchedHolds, PTL

\* For every number of tasks, the event loop goes on only when every task that was
\* woken has run up to its next wait (s_task.c:93-100).
THEOREM AllHaveRun == Spec => []NobodyLeftReady
<1>1. SchedInv => NobodyLeftReady
  BY DEF SchedInv, Control, NobodyLeftReady, Handler, s_list_is_empty, Alone
<1> QED BY <1>1, SchedHolds, PTL
=============================================================================
