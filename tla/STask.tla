------------------------------- MODULE STask ---------------------------------
(***************************************************************************)
(* The coroutine scheduler: s_task.c and s_event.c on the lists of         *)
(* s_list.c, and the tasks of se_libs.c on top of it, pointer by pointer.  *)
(* It is used as the daemon uses it: tasks are created, woken and          *)
(* interrupted by handlers of the event loop, which run on the main stack, *)
(* one handler between two calls of s_task_main_loop_once (main.c:498-507).*)
(*                                                                         *)
(* A list node is <<object, field, instance>>.  Each task has the nodes of *)
(* its s_task_t and its se_task_arg, and two events it waits for: one in   *)
(* the stack frame of the waiting function (sb_bus_call), initialised for  *)
(* every wait, and one in an object on the heap that outlives the wait     *)
(* (struct msg_stream, struct pidfd_event).                                *)
(***************************************************************************)
EXTENDS SList

CONSTANTS Tasks, Main

ASSUME TasksAssumption == IsFiniteSet(Tasks) /\ Main \notin Tasks

VARIABLES
  ring,                \* next and prev of every node: two functions on Nodes
  current_task,        \* a task or Main
  pc,                  \* "none", "entry", "run", "wait", "closed"; main: "idle", "loop",
                       \* or "interrupt" in the loop of interrupt_all_tasks
  waiting_cancelled,   \* a flag for each of them
  waiting_event,       \* an event or NoEvent for each of them
  interrupt_disabled,  \* tasks that called set_interrupt_disabled
  stream,              \* tasks whose heap event exists
  ret,                 \* what s_event_wait returned to the running task: 0 or -1
  node                 \* where interrupt_all_tasks is on all_tasks

vars == <<ring, current_task, pc, waiting_cancelled, waiting_event,
          interrupt_disabled, stream, ret, node>>

Active == <<"globals", "active_tasks", Main>>
WaitingEvents == <<"globals", "waiting_events", Main>>
AllTasks == <<"se_libs", "all_tasks", Main>>
Node(t) == <<"task", "node", t>>
ListNode(t) == <<"arg", "list_node", t>>
Events == {"local", "heap", "join"} \X Tasks
NoEvent == <<"null", Main>>
WaitList(e) == <<e[1], "wait_list", e[2]>>
Self(e) == <<e[1], "self", e[2]>>

Nodes == {Active, WaitingEvents, AllTasks} \cup {Node(t) : t \in Tasks \cup {Main}}
           \cup {ListNode(t) : t \in Tasks}
           \cup {WaitList(e) : e \in Events} \cup {Self(e) : e \in Events}

\* s_task_init_system; the nodes of objects not yet allocated are of no account.
Init ==
  /\ ring = [next |-> [n \in Nodes |-> n], prev |-> [n \in Nodes |-> n]]
  /\ current_task = Main
  /\ pc = [t \in Tasks \cup {Main} |-> IF t = Main THEN "idle" ELSE "none"]
  /\ waiting_cancelled = [t \in Tasks \cup {Main} |-> FALSE]
  /\ waiting_event = [t \in Tasks \cup {Main} |-> NoEvent]
  /\ interrupt_disabled = {} /\ stream = {}
  /\ ret = 0 /\ node = AllTasks

-----------------------------------------------------------------------------
(* s_event.c on the pointers r.                                            *)

s_event_init(r, e) == s_list_init(s_list_init(r, WaitList(e)), Self(e))

s_event_add_to_waiting_list(r, e) ==
  IF s_list_is_empty(r, WaitList(e))
    THEN s_list_attach(s_list_detach(r, Self(e)), WaitingEvents, Self(e))
    ELSE r

s_event_remove_from_waiting_list(r, e) ==
  IF s_list_is_empty(r, WaitList(e)) THEN s_list_detach(r, Self(e)) ELSE r

\* The first half of s_event_set: the whole ring of waiters, head included, is
\* joined to the active list, and the head is taken out again.
MoveWaiters(r, e) ==
  s_list_detach(s_list_attach(r, Active, WaitList(e)), WaitList(e))

s_event_set(r, e) == s_event_remove_from_waiting_list(MoveWaiters(r, e), e)

\* s_task_cancel_wait on the pointers: task t leaves the list it is on.
Requeue_NoDetach(r, t) == s_list_attach(r, Active, Node(t))

Requeue(r, t) == s_list_attach(s_list_detach(r, Node(t)), Active, Node(t))

\* waiting_event is read before current_task's, which may be another one's, is
\* cleared; it is not reset for t itself.
CancelLinks(r, t) ==
  IF waiting_event[t] = NoEvent THEN Requeue(r, t)
  ELSE s_event_remove_from_waiting_list(Requeue(r, t), waiting_event[t])

-----------------------------------------------------------------------------
(* s_task_call_next: the head of the active list gets control.  If it was  *)
(* in s_event_wait, that returns.  pcs and wc are the tasks' positions and *)
(* waiting_cancelled flags at the call.                                    *)

CallNext(r, pcs, wc) ==
  \E links \in {r} :
    LET empty == s_list_is_empty(links, Active)
        first == links.next[Active]
        t == IF empty THEN current_task ELSE first[3]
        returns == pcs[t] = "wait" IN
    /\ ring' = IF empty THEN links ELSE s_list_detach(links, first)
    /\ current_task' = t
    /\ pc' = IF pcs[t] \in {"entry", "wait"} THEN [pcs EXCEPT ![t] = "run"] ELSE pcs
    /\ ret' = IF returns /\ wc[t] THEN -1 ELSE 0
    /\ waiting_cancelled' = IF returns THEN [wc EXCEPT ![t] = FALSE] ELSE wc

(* What the running task t may do.                                         *)

Runs(t) == current_task = t /\ pc[t] = "run"

\* init_msg_stream or init_pidfd_event.
TaskInitStream(t) ==
  /\ Runs(t) /\ t \notin stream
  /\ ring' = s_event_init(ring, <<"heap", t>>)
  /\ stream' = stream \cup {t}
  /\ UNCHANGED <<current_task, pc, waiting_cancelled, waiting_event, interrupt_disabled, ret, node>>

set_interrupt_disabled(t) ==
  /\ Runs(t) /\ t \notin interrupt_disabled
  /\ interrupt_disabled' = interrupt_disabled \cup {t}
  /\ UNCHANGED <<ring, current_task, pc, waiting_cancelled, waiting_event, stream, ret, node>>

\* s_event_wait up to the switch to another task.  An event in the caller's
\* frame is initialised first.
s_event_wait(t, e) ==
  LET r == IF e[1] = "local" THEN s_event_init(ring, e) ELSE ring
      listed == s_list_detach(s_event_add_to_waiting_list(r, e), Node(t)) IN
  /\ Runs(t) /\ (e[1] = "heap" => t \in stream)
  /\ waiting_event' = [waiting_event EXCEPT ![t] = e]
  /\ CallNext(s_list_attach(listed, WaitList(e), Node(t)),
              [pc EXCEPT ![t] = "wait"], [waiting_cancelled EXCEPT ![t] = FALSE])
  /\ UNCHANGED <<interrupt_disabled, stream, node>>

s_task_context_entry_KeepsEvent(t) ==
  /\ Runs(t)
  /\ stream' = stream \ {t}
  /\ CallNext(s_event_set(ring, <<"join", t>>),
              [pc EXCEPT ![t] = "closed"], [waiting_cancelled EXCEPT ![t] = FALSE])
  /\ UNCHANGED <<waiting_event, interrupt_disabled, node>>

\* The task's function returns: se_task_entry frees what the task registered,
\* s_task_context_entry closes it and switches away for good.
s_task_context_entry(t) ==
  /\ Runs(t)
  /\ stream' = stream \ {t}
  /\ waiting_event' = [waiting_event EXCEPT ![t] = NoEvent]
  /\ CallNext(s_event_set(ring, <<"join", t>>),
              [pc EXCEPT ![t] = "closed"], [waiting_cancelled EXCEPT ![t] = FALSE])
  /\ UNCHANGED <<interrupt_disabled, node>>

-----------------------------------------------------------------------------
(* The main stack: s_task_main_loop_once, and one handler of the event     *)
(* loop between two calls of it.                                           *)

MainLoop ==
  /\ current_task = Main /\ pc[Main] = "loop"
  /\ IF s_list_is_empty(ring, Active)
       THEN /\ pc' = [pc EXCEPT ![Main] = "idle"]
            /\ UNCHANGED <<ring, current_task, waiting_cancelled, ret>>
       ELSE CallNext(s_list_attach(ring, Active, Node(Main)), pc, waiting_cancelled)
  /\ UNCHANGED <<waiting_event, interrupt_disabled, stream, node>>

Handler == current_task = Main /\ pc[Main] = "idle"
ToLoop_Skipped(pcs) == pc' = pcs
ToLoop(pcs) == pc' = [pcs EXCEPT ![Main] = "loop"]

se_task_create(t) ==
  /\ Handler /\ pc[t] = "none"
  /\ LET listed == s_list_attach(s_list_init(ring, ListNode(t)), AllTasks, ListNode(t))
         fresh == s_event_init(s_list_init(listed, Node(t)), <<"join", t>>) IN
       ring' = s_list_attach(fresh, Active, Node(t))
  /\ ToLoop([pc EXCEPT ![t] = "entry"])
  /\ waiting_cancelled' = [waiting_cancelled EXCEPT ![t] = FALSE]
  /\ waiting_event' = [waiting_event EXCEPT ![t] = NoEvent]
  /\ interrupt_disabled' = interrupt_disabled \ {t}
  /\ UNCHANGED <<current_task, stream, ret, node>>

\* The callbacks that may set e: of a call in progress, or of a heap object.
Pending(e) ==
  \/ e[1] = "local" /\ pc[e[2]] = "wait" /\ waiting_event[e[2]] = e
  \/ e[1] = "heap" /\ e[2] \in stream

SetEvent(e) ==
  /\ Handler /\ Pending(e)
  /\ ring' = s_event_set(ring, e)
  /\ waiting_event' = [waiting_event EXCEPT ![Main] = NoEvent]
  /\ ToLoop(pc)
  /\ UNCHANGED <<current_task, waiting_cancelled, interrupt_disabled, stream, ret, node>>

\* interrupt_task on the pointers r.  Main never waits, so that its waiting_event
\* is cleared matters as little as in s_event_set.
interrupt_task(r, t) ==
  LET hit == t \notin interrupt_disabled IN
  /\ ring' = IF hit THEN CancelLinks(r, t) ELSE r
  /\ waiting_cancelled' = [waiting_cancelled EXCEPT ![t] = @ \/ hit]
  /\ waiting_event' = [waiting_event EXCEPT ![Main] = NoEvent]
  /\ UNCHANGED <<current_task, interrupt_disabled, stream, ret>>

\* pidfd_event_handler, or the end of msg_stream_handler after its s_event_set.
Interrupt(t) ==
  /\ Handler /\ t \in stream
  /\ interrupt_task(ring, t) \/ interrupt_task(s_event_set(ring, <<"heap", t>>), t)
  /\ ToLoop(pc)
  /\ UNCHANGED node

\* interrupt_all_tasks walks along all_tasks; it has the next node before it
\* interrupts the task of the last one.
interrupt_all_tasks ==
  /\ Handler
  /\ node' = ring.next[AllTasks]
  /\ pc' = [pc EXCEPT ![Main] = "interrupt"]
  /\ UNCHANGED <<ring, current_task, waiting_cancelled, waiting_event, interrupt_disabled,
                 stream, ret>>

InterruptNext ==
  /\ current_task = Main /\ pc[Main] = "interrupt"
  /\ \/ /\ node = AllTasks
        /\ ToLoop(pc)
        /\ UNCHANGED <<ring, current_task, waiting_cancelled, waiting_event,
                       interrupt_disabled, stream, ret, node>>
     \/ /\ node # AllTasks
        /\ node' = ring.next[node]
        /\ interrupt_task(ring, node[3])
        /\ UNCHANGED pc

se_task_end_handler(t) ==
  /\ Handler /\ pc[t] = "closed"
  /\ ring' = s_list_detach(ring, ListNode(t))
  /\ ToLoop([pc EXCEPT ![t] = "none"])
  /\ UNCHANGED <<current_task, waiting_cancelled, waiting_event, interrupt_disabled, stream, ret,
                 node>>

-----------------------------------------------------------------------------
\* A closed task that is given control runs into _exit(0).
Exited == current_task # Main /\ pc[current_task] = "closed"
Over == Exited /\ UNCHANGED vars

TaskStep(t) ==
  \/ TaskInitStream(t) \/ set_interrupt_disabled(t)
  \/ s_event_wait(t, <<"local", t>>) \/ s_event_wait(t, <<"heap", t>>)
  \/ s_task_context_entry(t)

Next ==
  \/ MainLoop \/ interrupt_all_tasks \/ InterruptNext \/ Over
  \/ \E t \in Tasks : TaskStep(t) \/ se_task_create(t) \/ Interrupt(t) \/ se_task_end_handler(t)
  \/ \E e \in Events : SetEvent(e)

Spec == Init /\ [][Next]_vars

-----------------------------------------------------------------------------
(* Properties.                                                             *)

\* The memory that is in use: the globals, the tasks not yet freed, the events
\* on the heap, and those in the frame of a function that is waiting.
LiveEvents ==
  {e \in Events : \/ e[1] = "join" /\ pc[e[2]] # "none"
                  \/ e[1] = "heap" /\ e[2] \in stream
                  \/ e[1] = "local" /\ pc[e[2]] = "wait" /\ waiting_event[e[2]] = e}
LiveNodes ==
  LET created == {t \in Tasks : pc[t] # "none"} IN
  {Active, WaitingEvents, AllTasks, Node(Main)}
    \cup {Node(t) : t \in created} \cup {ListNode(t) : t \in created}
    \cup {WaitList(e) : e \in LiveEvents} \cup {Self(e) : e \in LiveEvents}

\* No list runs through memory that has been freed or left: in use, next and
\* prev are inverse and lead to memory in use, although tasks, events in stack
\* frames and heap events come and go in any order and are re-initialised without
\* being unlinked (se_libs.c:111-124, 210-232; sd_bus.c:75-115; s_list.c:32-59).
\* Neither does the loop of interrupt_all_tasks (se_libs.c:197-204).
LinksLive ==
  /\ \A n \in LiveNodes :
       /\ ring.next[n] \in LiveNodes /\ ring.prev[n] \in LiveNodes
       /\ ring.prev[ring.next[n]] = n /\ ring.next[ring.prev[n]] = n
  /\ node \in LiveNodes

\* s_task_cancel_wait dereferences task->waiting_event (s_task.c:189-193), which
\* s_event_set resets for the wrong task (s_event.c:99).  Still, whenever the main
\* stack is running, so that a handler may interrupt a task or is interrupting all
\* of them, that pointer is NULL or to an event in use.
CancelSeesLiveEvent ==
  current_task = Main =>
    \A t \in Tasks : pc[t] # "none" =>
      waiting_event[t] = NoEvent \/ waiting_event[t] \in LiveEvents

\* When the event loop runs the next handler, every task woken by the ones before
\* has run up to its next wait (s_task.c:93-100).
NobodyLeftReady == Handler => s_list_is_empty(ring, Active)

TaskSeq(head) == LET ns == Elements(ring, head) IN [i \in DOMAIN ns |-> ns[i][3]]

RQ == INSTANCE RunQueue WITH
        run <- current_task,
        ready <- TaskSeq(Active),
        waits <- [e \in Events |-> IF e \in LiveEvents THEN TaskSeq(WaitList(e)) ELSE <<>>],
        told <- {t \in Tasks : waiting_cancelled[t] /\ t # current_task},
        ret <- IF Exited THEN -1 ELSE ret

\* The lists implement the queues of RunQueue: tasks wake in the order in which
\* they began to wait, run in the order in which they woke, are never lost or
\* queued twice, and a wait returns -1 exactly if it was cancelled.  In RunQueue a
\* task that waits or ends always finds another one in the queue ("must has one
\* task to run", s_task.c:40), at the latest main.
Implements == RQ!Spec
=============================================================================
