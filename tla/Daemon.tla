------------------------------- MODULE Daemon --------------------------------
(***************************************************************************)
(* traffic-limitd: every session is one coroutine running                  *)
(* client_handler_async (main.c:177-402) on top of se_task (se_libs.c) and *)
(* the sd-event loop of main() (main.c:498-552).  Around it run the        *)
(* clients, their processes, systemd on the bus, and signals.              *)
(*                                                                         *)
(* sd_event_run dispatches ONE event source, and s_task_main_loop_once     *)
(* then runs every ready coroutine up to its next wait.  So a step is      *)
(*   - the dispatch of one handler, possible only when no coroutine is     *)
(*     ready, together with the checks main() makes after it (AfterRun);   *)
(*   - one ready coroutine running from the wait it was in to its next one;*)
(*   - or a step of the environment, possible at any time.                 *)
(* pc[c] names the wait a coroutine is suspended in (or was, if it has been*)
(* woken).  Several ready coroutines run in any order here; the run queue  *)
(* itself is FIFO, but what they do between two waits does not depend on   *)
(* each other.                                                             *)
(***************************************************************************)
EXTENDS MsgStream, Integers, FiniteSets

CONSTANTS Conns,        \* connections the clients may make
          MaxNrTasks,   \* MAX_NR_TASKS
          Faults,       \* what may fail for no reason of the protocol
          Requests,     \* what clients put into the socket
          Signals,      \* the signals that ask the daemon to exit
          Null

FaultKinds == {"bus", "kill", "bpf", "fd"}

ASSUME ConstantsAssumption ==
  /\ IsFiniteSet(Conns) /\ Null \notin Conns
  /\ MaxNrTasks \in Nat
  /\ Faults \subseteq FaultKinds
  /\ Requests \subseteq {"none", "good", "bad"}
  /\ Signals \subseteq {"SIGINT", "SIGTERM"}

VARIABLES
  (* struct se_task_arg, struct pidfd_event and the handler's locals *)
  pc, wake, strm,
  owned,        \* what memory_to_free releases, and whether scope_obj is set
  disabled,     \* interrupt_disabled
  reason,       \* interrupt_reason
  pidfd,
  (* globals of the daemon *)
  rate_map,     \* rate_limit_map, keyed by the session whose scope it limits
  nr_tasks, exit_req, unit_name, signals,
  sleep_timer,  \* the idle timer is enabled
  loop,         \* "running", "exiting" (sd_event_exit), "finished", "exited"
  (* clients and systemd *)
  proc,         \* the client's process
  origin,       \* the session in whose scope the client was started, or Null
  peer, req,    \* its end of the socket and the request it put there
  answer,       \* the verdict written to the socket
  scope, reply, job, kill_req

taskVars == <<pc, wake, strm, owned, disabled, reason, pidfd>>
mainVars == <<exit_req, sleep_timer, loop>>
dataVars == <<rate_map, nr_tasks, unit_name>>
clientVars == <<proc, origin, peer, req, answer>>
busVars == <<scope, reply, job, kill_req>>
vars == <<taskVars, mainVars, dataVars, signals, clientVars, busVars>>

-----------------------------------------------------------------------------
(* Waits of client_handler_async, by what ends them.                       *)

\* Method calls and property reads, and the AddMatch reply.  The two or three
\* consecutive calls inside get_self_unit_name, get_Unit_cgroup_id and the
\* beginning of start_transient_scope are one wait each: nothing shared is read
\* or written between them, and they all leave the same way.
QueryLabels == {"self_unit", "orig_unit", "orig_cgroup", "s_slice", "s_match",
                "s_getunit", "cg_path"}
KillLabels == {"kill", "ikill"}
BusLabels == QueryLabels \cup {"s_start", "s_job"}
LogLabels == {"rlog", "elog", "wlog"}
VerdictLabels == {"rfail", "efail", "ifail", "wproceed"}
ShutLabels == {"rshut", "eshut", "ishut", "wshut"}
IoLabels == LogLabels \cup VerdictLabels \cup ShutLabels \cup {"read"}
Labels == BusLabels \cup KillLabels \cup IoLabels
            \cup {"idle", "start", "wait_exit", "ended", "freed"}

AllTasks == {c \in Conns : pc[c] \notin {"idle", "freed"}}
Ready == {c \in Conns : wake[c] # "none"}
LoopIdle_Eager == loop = "running"
LoopIdle == loop = "running" /\ Ready = {}

Limited == {c \in Conns : rate_map[c] # "none"}
Admitted == {c \in Conns : "nr_task" \in owned[c]}

TypeOK ==
  /\ pc \in [Conns -> Labels]
  /\ wake \in [Conns -> {"none", "ok", "err", "cancel", "refused"}]
  /\ strm \in [Conns -> Stream]
  /\ owned \in [Conns -> SUBSET {"stream", "nr_task", "scope", "pidfd", "limit"}]
  /\ disabled \in [Conns -> BOOLEAN]
  /\ reason \in [Conns -> {"none", "IO_ERR", "PROC_END", "SYS_WILL_EXIT"}]
  /\ pidfd \in [Conns -> {"none", "armed", "waiting", "terminated", "off"}]
  /\ rate_map \in [Conns -> {"none", "block", "limit"}]
  /\ nr_tasks \in 0..MaxNrTasks
  /\ exit_req \in {"NOEXIT", "EXIT_REQ_SENT", "WAIT_TASKS"}
  /\ unit_name \in Conns \cup {Null}
  /\ signals \subseteq Signals
  /\ sleep_timer \in BOOLEAN
  /\ loop \in {"running", "exiting", "finished", "exited"}
  /\ proc \in [Conns -> {"none", "waiting", "running", "dead"}]
  /\ origin \in [Conns -> Conns \cup {Null}]
  /\ peer \in [Conns -> {"open", "gone", "reset"}]
  /\ req \in [Conns -> {"none", "good", "bad", "taken"}]
  /\ answer \in [Conns -> {"none", "PROCEED", "FAIL", "NORESOURCE"}]
  /\ scope \in [Conns -> {"none", "requested", "queued", "active", "gone"}]
  /\ reply \in [Conns -> {"none", "ok", "err"}]
  /\ job \in [Conns -> {"none", "ok", "err"}]
  /\ kill_req \in [Conns -> BOOLEAN]

Init ==
  /\ pc = [c \in Conns |-> "idle"]
  /\ wake = [c \in Conns |-> "none"]
  /\ strm = [c \in Conns |-> NoStream]
  /\ owned = [c \in Conns |-> {}]
  /\ disabled = [c \in Conns |-> FALSE]
  /\ reason = [c \in Conns |-> "none"]
  /\ pidfd = [c \in Conns |-> "none"]
  /\ rate_map = [c \in Conns |-> "none"]
  /\ nr_tasks = 0 /\ exit_req = "NOEXIT" /\ unit_name = Null
  /\ signals = Signals
  /\ sleep_timer = FALSE /\ loop = "running"
  /\ proc = [c \in Conns |-> "none"]
  /\ origin = [c \in Conns |-> Null]
  /\ peer = [c \in Conns |-> "open"]
  /\ req = [c \in Conns |-> "none"]
  /\ answer = [c \in Conns |-> "none"]
  /\ scope = [c \in Conns |-> "none"]
  /\ reply = [c \in Conns |-> "none"]
  /\ job = [c \in Conns |-> "none"]
  /\ kill_req = [c \in Conns |-> FALSE]

-----------------------------------------------------------------------------
(* How a coroutine reaches its next wait.                                  *)

\* A call on the bus, or another wait that needs no preparation.
Await(c, label) ==
  /\ pc' = [pc EXCEPT ![c] = label]
  /\ wake' = [wake EXCEPT ![c] = "none"]

\* msg_stream_do_io on stream value st.  A refused operation returns at once:
\* the coroutine stays ready and goes on from label.
IoTo(c, st, op, timed, label) ==
  /\ pc' = [pc EXCEPT ![c] = label]
  /\ wake' = [wake EXCEPT ![c] = IF IoRefused(st) THEN "refused" ELSE "none"]
  /\ strm' = [strm EXCEPT ![c] = IF IoRefused(st) THEN st
                                 ELSE BeginIo(st, op, timed)]

\* shutdown_msg_stream up to its empty write; recv reports a pending reset.
ShutTo(c, st, label) ==
  IF peer[c] = "reset"
    THEN /\ pc' = [pc EXCEPT ![c] = label]
         /\ wake' = [wake EXCEPT ![c] = "refused"]
         /\ strm' = [strm EXCEPT ![c] = st]
         /\ peer' = [peer EXCEPT ![c] = "gone"]
    ELSE IoTo(c, st, "WRITE", FALSE, label) /\ UNCHANGED peer

\* The label err_close_stream.
ErrClose(c, st) == IoTo(c, st, "WRITE", TRUE, "elog")

\* The call of Kill on the scope.
KillTo(c, label) ==
  /\ kill_req' = [kill_req EXCEPT ![c] = TRUE]
  /\ Await(c, label)

ClearLimit_Skipped(c) == UNCHANGED rate_map

\* clear_rate_limit, if it was registered; a failing deletion from the map is
\* logged and ignored.
ClearLimit(c) ==
  \/ "limit" \in owned[c] /\ rate_map' = [rate_map EXCEPT ![c] = "none"]
  \/ ("limit" \notin owned[c] \/ "bpf" \in Faults) /\ UNCHANGED rate_map

ReleaseSlot_Always(c) == nr_tasks' = nr_tasks - 1

\* decrease_nr_tasks, if it was registered.
ReleaseSlot(c) ==
  nr_tasks' = IF "nr_task" \in owned[c] THEN nr_tasks - 1 ELSE nr_tasks

\* The handler returns: se_task_entry registers the deferred end handler and
\* releases, in one go, everything the task registered (clear_rate_limit,
\* destroy_pidfd_event, decrease_nr_tasks, destroy_msg_stream).
EndTask(c) ==
  /\ Await(c, "ended")
  /\ strm' = [strm EXCEPT ![c] = destroy_msg_stream(@)]
  /\ pidfd' = [pidfd EXCEPT ![c] = "none"]
  /\ ReleaseSlot(c)
  /\ ClearLimit(c)
  /\ owned' = [owned EXCEPT ![c] = {}]

\* The stream once a write or a shutdown has returned to the handler.
AfterIo(c) == IF wake[c] = "cancel" THEN CancelIo(strm[c]) ELSE EndIo(strm[c])
AfterShut_KeepsOpen(c) == AfterIo(c)
AfterShut(c) ==
  IF wake[c] = "ok" /\ ~IoFailed(strm[c]) THEN Shut(strm[c]) ELSE AfterIo(c)

-----------------------------------------------------------------------------
(* client_handler_async, one action per wait it returns from.  Runs(c, ls) *)
(* is the guard: c was woken from one of the waits ls, and main() is still *)
(* in its loop, each round of which runs the ready coroutines.             *)

Runs(c, ls) == loop \in {"running", "exiting"} /\ wake[c] # "none" /\ pc[c] \in ls
RunsOk(c, ls) == Runs(c, ls) /\ wake[c] = "ok"

SlotFree_OffByOne == nr_tasks <= MaxNrTasks

SlotFree == nr_tasks < MaxNrTasks

\* Up to the first wait: the stream is set up, the session is admitted or
\* refused for lack of a slot, and the daemon's unit name is known or not.
RunStart(c) ==
  /\ Runs(c, {"start"})
  /\ \/ "fd" \in Faults /\ EndTask(c)
     \/ /\ ~SlotFree
        /\ owned' = [owned EXCEPT ![c] = {"stream"}]
        /\ IoTo(c, msg_stream_reg_interrupt(init_msg_stream, TRUE), "WRITE", TRUE, "rfail")
        /\ UNCHANGED <<pidfd, rate_map, nr_tasks>>
     \/ /\ SlotFree
        /\ nr_tasks' = nr_tasks + 1
        /\ owned' = [owned EXCEPT ![c] = {"stream", "nr_task"}]
        /\ strm' = [strm EXCEPT ![c] = msg_stream_reg_interrupt(init_msg_stream, TRUE)]
        /\ Await(c, IF unit_name = Null THEN "self_unit" ELSE "orig_unit")
        /\ UNCHANGED <<pidfd, rate_map>>
  /\ UNCHANGED <<disabled, reason, unit_name, mainVars, signals, clientVars, busVars>>

NextQuery == [ orig_unit |-> "orig_cgroup", s_slice |-> "s_match",
               s_start |-> "s_job", s_job |-> "s_getunit" ]

\* A call succeeded and the handler only goes on to the next one.
RunQuery(c) ==
  /\ RunsOk(c, DOMAIN NextQuery)
  /\ Await(c, NextQuery[pc[c]])
  /\ UNCHANGED <<strm, owned, disabled, reason, pidfd, mainVars, dataVars, signals, clientVars, busVars>>

NewUnitName_NoRecheck(c) == c

\* g_this_unit_name is assigned only if no other coroutine did meanwhile.
NewUnitName(c) == IF unit_name = Null THEN c ELSE unit_name

\* get_self_unit_name has returned.
RunSelfUnit(c) ==
  /\ RunsOk(c, {"self_unit"})
  /\ unit_name' = NewUnitName(c)
  /\ Await(c, "orig_unit")
  /\ UNCHANGED <<strm, owned, disabled, reason, pidfd, mainVars, nr_tasks, rate_map, signals, clientVars, busVars>>

Nested_NotChecked(c) == FALSE

\* cgroup_rate_limit_check on the cgroup the client came from.
Nested(c) == origin[c] \in Limited

\* A client from inside a limited scope is refused; an error of the lookup is
\* logged and treated as "not limited".
RunOrigCgroup(c) ==
  /\ RunsOk(c, {"orig_cgroup"})
  /\ \/ Nested(c) /\ IoTo(c, strm[c], "WRITE", TRUE, "rlog")
     \/ (~Nested(c) \/ "bpf" \in Faults) /\ Await(c, "s_slice") /\ UNCHANGED strm
  /\ UNCHANGED <<owned, disabled, reason, pidfd, mainVars, dataVars, signals, clientVars, busVars>>

\* The JobRemoved match is installed; StartTransientUnit is sent.
RunMatch(c) ==
  /\ RunsOk(c, {"s_match"})
  /\ scope' = [scope EXCEPT ![c] = "requested"]
  /\ Await(c, "s_start")
  /\ UNCHANGED <<strm, owned, disabled, reason, pidfd, mainVars, dataVars, signals, clientVars, reply, job, kill_req>>

\* start_transient_scope is done; watch the process, if it still exists.
RunGetUnit(c) ==
  /\ RunsOk(c, {"s_getunit"})
  /\ \/ /\ proc[c] = "dead" \/ "fd" \in Faults
        /\ owned' = [owned EXCEPT ![c] = @ \cup {"scope"}]
        /\ ErrClose(c, strm[c])
        /\ UNCHANGED pidfd
     \/ /\ owned' = [owned EXCEPT ![c] = @ \cup {"scope", "pidfd"}]
        /\ pidfd' = [pidfd EXCEPT ![c] = "armed"]
        /\ Await(c, "cg_path")
        /\ UNCHANGED strm
  /\ UNCHANGED <<disabled, reason, mainVars, dataVars, signals, clientVars, busVars>>

\* The scope's cgroup is known: block its traffic, then read the request.
RunCgroup(c) ==
  /\ RunsOk(c, {"cg_path"})
  /\ \/ /\ rate_map' = [rate_map EXCEPT ![c] = "block"]
        /\ owned' = [owned EXCEPT ![c] = @ \cup {"limit"}]
        /\ IoTo(c, strm[c], "READ", TRUE, "read")
     \/ /\ "bpf" \in Faults
        /\ ErrClose(c, strm[c])
        /\ UNCHANGED <<rate_map, owned>>
  /\ UNCHANGED <<disabled, reason, pidfd, mainVars, nr_tasks, unit_name, signals, clientVars, busVars>>

\* cgroup_rate_limit_set with the limit of the request.
StoreLimit(c) == rate_map' = [rate_map EXCEPT ![c] = "limit"]

\* msg_stream_read returned.  A complete request becomes the limit of the scope,
\* and from here on a hangup of the stream no longer interrupts the task.
RunRead(c) ==
  /\ Runs(c, {"read"}) /\ wake[c] # "cancel"
  /\ LET complete == wake[c] = "ok" /\ strm[c].result = "full"
         st == EndIo(strm[c])
         quiet == msg_stream_reg_interrupt(st, FALSE) IN
       \/ complete /\ StoreLimit(c) /\ IoTo(c, quiet, "WRITE", TRUE, "wlog")
       \/ complete /\ "bpf" \in Faults /\ ErrClose(c, quiet) /\ UNCHANGED rate_map
       \/ ~complete /\ ErrClose(c, st) /\ UNCHANGED rate_map
  /\ UNCHANGED <<owned, disabled, reason, pidfd, mainVars, nr_tasks, unit_name, signals, clientVars, busVars>>

NextIo == [ rlog |-> "elog", elog |-> "efail", wlog |-> "wproceed",
            rfail |-> "rshut", efail |-> "eshut", ifail |-> "ishut",
            wproceed |-> "wshut" ]

\* write_rate_limit_log returned; its result is ignored, -EINTR included.
RunLogged(c) ==
  /\ Runs(c, LogLabels)
  /\ IoTo(c, AfterIo(c), "WRITE", TRUE, NextIo[pc[c]])
  /\ UNCHANGED <<owned, disabled, reason, pidfd, mainVars, dataVars, signals, clientVars, busVars>>

\* write_rate_limit_msg returned; its result is ignored, -EINTR included.
RunVerdict(c) ==
  /\ Runs(c, VerdictLabels)
  /\ ShutTo(c, AfterIo(c), NextIo[pc[c]])
  /\ UNCHANGED <<owned, disabled, reason, pidfd, mainVars, dataVars, signals, proc, origin, req, answer, busVars>>

KillOrEnd_NoKill(c, st, watch) == EndTask(c) /\ UNCHANGED kill_req

\* The tail of the label interrupt: kill the scope if there is one.
KillOrEnd(c, st, watch) ==
  \/ /\ "scope" \in owned[c]
     /\ KillTo(c, "ikill")
     /\ strm' = [strm EXCEPT ![c] = st]
     /\ pidfd' = [pidfd EXCEPT ![c] = watch]
     /\ UNCHANGED <<owned, nr_tasks, rate_map>>
  \/ /\ "scope" \notin owned[c]
     /\ EndTask(c)
     /\ UNCHANGED kill_req

\* shutdown_msg_stream returned at the end of a refusal.
RunRefused(c) ==
  /\ Runs(c, {"rshut", "eshut"})
  /\ EndTask(c)
  /\ UNCHANGED <<disabled, reason, unit_name, mainVars, signals, clientVars, busVars>>

\* pidfd_event_wait_for_exit does not wait if the handler has already run.
AlreadyExited(c) == pidfd[c] = "terminated"

RunGranted_WaitsAnyway(c) ==
  /\ Runs(c, {"wshut"})
  /\ strm' = [strm EXCEPT ![c] = AfterShut(c)]
  /\ Await(c, "wait_exit")
  /\ pidfd' = [pidfd EXCEPT ![c] = IF AlreadyExited(c) THEN @ ELSE "waiting"]
  /\ UNCHANGED <<owned, disabled, reason, mainVars, dataVars, signals, clientVars, busVars>>

\* shutdown_msg_stream returned after PROCEED: wait for the process to end.
RunGranted(c) ==
  /\ Runs(c, {"wshut"})
  /\ strm' = [strm EXCEPT ![c] = AfterShut(c)]
  /\ \/ AlreadyExited(c) /\ KillTo(c, "kill") /\ UNCHANGED pidfd
     \/ /\ ~AlreadyExited(c)
        /\ Await(c, "wait_exit")
        /\ pidfd' = [pidfd EXCEPT ![c] = "waiting"]
        /\ UNCHANGED kill_req
  /\ UNCHANGED <<owned, disabled, reason, mainVars, dataVars, signals, clientVars, scope, reply, job>>

\* The process has ended: kill what is left of the scope.
RunExited(c) ==
  /\ RunsOk(c, {"wait_exit"})
  /\ KillTo(c, "kill")
  /\ UNCHANGED <<strm, owned, disabled, reason, pidfd, mainVars, dataVars, signals, clientVars, scope, reply, job>>

\* Kill returned, successfully, with an error or interrupted: all the same.
RunKilled(c) ==
  /\ Runs(c, KillLabels)
  /\ EndTask(c)
  /\ reply' = [reply EXCEPT ![c] = "none"]
  /\ UNCHANGED <<disabled, reason, unit_name, mainVars, signals, clientVars, scope, job, kill_req>>

\* A call on the bus, or the job, failed.
RunBusError(c) ==
  /\ Runs(c, BusLabels) /\ wake[c] = "err"
  /\ ErrClose(c, strm[c])
  /\ job' = [job EXCEPT ![c] = "none"]
  /\ UNCHANGED <<owned, disabled, reason, pidfd, mainVars, dataVars, signals, clientVars, scope, reply, kill_req>>

Interruptible_Shutdown == BusLabels \cup {"read", "wait_exit", "wshut"}

\* The waits whose -EINTR the handler looks at.
Interruptible == BusLabels \cup {"read", "wait_exit"}

TellClient_Always(c) == reason[c] = "SYS_WILL_EXIT"

\* Whether the interrupted handler still has a stream to say so on: after
\* PROCEED the pointer is NULL.
TellClient(c) == reason[c] = "SYS_WILL_EXIT" /\ pc[c] # "wait_exit"

\* The label interrupt.  Slots of pending calls and matches are released, so
\* answers still in flight are dropped.
RunInterrupted(c) ==
  /\ Runs(c, Interruptible) /\ wake[c] = "cancel"
  /\ disabled' = [disabled EXCEPT ![c] = TRUE]
  /\ reply' = [reply EXCEPT ![c] = "none"]
  /\ job' = [job EXCEPT ![c] = "none"]
  /\ LET st == IF pc[c] = "read" THEN CancelIo(strm[c]) ELSE strm[c] IN
       \/ /\ TellClient(c)
          /\ IoTo(c, st, "WRITE", TRUE, "ifail")
          /\ UNCHANGED <<owned, pidfd, nr_tasks, rate_map, kill_req>>
       \/ /\ ~TellClient(c)
          /\ KillOrEnd(c, st, IF pc[c] = "wait_exit" THEN "off" ELSE pidfd[c])
  /\ UNCHANGED <<reason, unit_name, mainVars, signals, clientVars, scope>>

\* shutdown_msg_stream returned on the interrupt path.
RunInterruptTold(c) ==
  /\ Runs(c, {"ishut"})
  /\ KillOrEnd(c, AfterShut(c), pidfd[c])
  /\ UNCHANGED <<disabled, reason, unit_name, mainVars, signals, clientVars, scope, reply, job>>

\* A coroutine that has ended is resumed: s_task_context_entry returns and the
\* context's trampoline calls _exit(0).
RunClosed(c) ==
  /\ Runs(c, {"ended"})
  /\ loop' = "exited"
  /\ UNCHANGED <<taskVars, exit_req, sleep_timer, dataVars, signals, clientVars, busVars>>

Run(c) ==
  \/ RunStart(c) \/ RunQuery(c) \/ RunSelfUnit(c) \/ RunOrigCgroup(c)
  \/ RunMatch(c) \/ RunGetUnit(c) \/ RunCgroup(c) \/ RunRead(c)
  \/ RunLogged(c) \/ RunVerdict(c) \/ RunRefused(c) \/ RunGranted(c)
  \/ RunExited(c) \/ RunKilled(c) \/ RunBusError(c)
  \/ RunInterrupted(c) \/ RunInterruptTold(c) \/ RunClosed(c)

-----------------------------------------------------------------------------
(* One dispatch of the event loop, and the checks of main() after it.      *)

AfterRun_NoTaskCheck(tasks, ereq, l) ==
  IF ereq = "EXIT_REQ_SENT"
    THEN /\ exit_req' = "WAIT_TASKS" /\ loop' = "exiting"
         /\ UNCHANGED sleep_timer
    ELSE /\ exit_req' = ereq /\ loop' = l
         /\ sleep_timer' = (tasks = {})

\* main.c:509-551, with all_tasks, g_exit_req and the loop state the handler
\* leaves behind.
AfterRun(tasks, ereq, l) ==
  IF ereq = "EXIT_REQ_SENT" /\ tasks = {}
    THEN /\ exit_req' = "WAIT_TASKS" /\ loop' = "exiting"
         /\ UNCHANGED sleep_timer
    ELSE /\ exit_req' = ereq /\ loop' = l
         /\ sleep_timer' = (tasks = {})

\* After a handler that changes none of these.
AfterRunSame == AfterRun(AllTasks, exit_req, loop)

Wake(c, how) == wake' = [wake EXCEPT ![c] = how]

\* s_event_set on the stream's event.
SetStreamEvent(c) == IF pc[c] \in IoLabels THEN Wake(c, "ok") ELSE UNCHANGED wake

\* interrupt_task for one task.
InterruptTask(c, why) ==
  IF disabled[c] THEN UNCHANGED <<wake, reason>>
  ELSE Wake(c, "cancel") /\ reason' = [reason EXCEPT ![c] = why]

\* The listening socket: accept, and se_task_create for client_handler_async.
Accept(c) ==
  /\ LoopIdle /\ pc[c] = "idle" /\ proc[c] # "none"
  /\ pc' = [pc EXCEPT ![c] = "start"]
  /\ Wake(c, "ok")
  /\ AfterRun(AllTasks \cup {c}, exit_req, loop)
  /\ UNCHANGED <<strm, owned, disabled, reason, pidfd, dataVars, signals, clientVars, busVars>>

Queued(c) == req[c] \in {"good", "bad"}
StreamReady(c) == LoopIdle /\ strm[c].source /\ strm[c].enabled

\* msg_stream_handler with EPOLLIN: the pending error, the request, or EOF.
DispatchRead(c) ==
  /\ StreamReady(c) /\ Readable(strm[c], Queued(c), peer[c] # "open")
  /\ strm[c].state = "READ"
  /\ strm' = [strm EXCEPT ![c] =
                IF peer[c] = "reset" THEN OnIoError(@)
                ELSE OnIo(@, IF ~Queued(c) THEN "zero"
                             ELSE IF req[c] = "good" THEN "full" ELSE "short")]
  /\ req' = [req EXCEPT ![c] = IF Queued(c) /\ peer[c] # "reset" THEN "taken" ELSE @]
  /\ SetStreamEvent(c)
  /\ AfterRunSame
  /\ UNCHANGED <<pc, owned, disabled, reason, pidfd, dataVars, signals, proc, origin, peer, answer, busVars>>

\* The verdict a successful write of wait l puts into the socket.
Verdict(l) == CASE l = "wproceed" -> "PROCEED"
                [] l = "rfail" -> "NORESOURCE"
                [] l \in {"efail", "ifail"} -> "FAIL"

\* msg_stream_handler with EPOLLOUT.
DispatchWrite(c) ==
  /\ StreamReady(c) /\ Writable(strm[c])
  /\ strm[c].state = "WRITE"
  /\ LET empty == pc[c] \in ShutLabels
         written == ~empty /\ peer[c] = "open" IN
       /\ strm' = [strm EXCEPT ![c] =
                     IF empty THEN OnIo(@, "zero")
                     ELSE IF written THEN OnIo(@, "full")
                     ELSE OnIoError(@)]
       /\ answer' = [answer EXCEPT ![c] =
                       IF written /\ pc[c] \in VerdictLabels THEN Verdict(pc[c]) ELSE @]
       /\ peer' = [peer EXCEPT ![c] = IF ~empty /\ @ = "reset" THEN "gone" ELSE @]
  /\ SetStreamEvent(c)
  /\ AfterRunSame
  /\ UNCHANGED <<pc, owned, disabled, reason, pidfd, dataVars, signals, proc, origin, req, busVars>>

\* msg_stream_handler with EPOLLHUP alone.
DispatchHangup(c) ==
  /\ StreamReady(c) /\ HangupOnly(strm[c], Queued(c), peer[c] # "open")
  /\ strm' = [strm EXCEPT ![c] = OnHangup(@, TRUE)]
  /\ IF strm[c].target /\ ~disabled[c] THEN InterruptTask(c, "IO_ERR")
     ELSE SetStreamEvent(c) /\ UNCHANGED reason
  /\ AfterRunSame
  /\ UNCHANGED <<pc, owned, disabled, pidfd, dataVars, signals, clientVars, busVars>>

DispatchIoTimer(c) ==
  /\ LoopIdle /\ strm[c].timer
  /\ strm' = [strm EXCEPT ![c] = io_timer_handler(@)]
  /\ SetStreamEvent(c)
  /\ AfterRunSame
  /\ UNCHANGED <<pc, owned, disabled, reason, pidfd, dataVars, signals, clientVars, busVars>>

\* pidfd_event_handler; its source is one-shot.
DispatchPidfd(c) ==
  /\ LoopIdle /\ proc[c] = "dead" /\ pidfd[c] \in {"armed", "waiting"}
  /\ pidfd' = [pidfd EXCEPT ![c] = "terminated"]
  /\ IF pidfd[c] = "waiting" THEN Wake(c, "ok") /\ UNCHANGED reason
     ELSE InterruptTask(c, "PROC_END")
  /\ AfterRunSame
  /\ UNCHANGED <<pc, strm, owned, disabled, dataVars, signals, clientVars, busVars>>

\* sb_bus_call_cb (or match_installed) for a query.  Every call is answered: by
\* systemd, or by the bus library's timeout.
DispatchQuery(c) ==
  /\ LoopIdle /\ pc[c] \in QueryLabels
  /\ \/ Wake(c, "ok")
     \/ ("bus" \in Faults \/ proc[c] = "dead") /\ Wake(c, "err")
  /\ AfterRunSame
  /\ UNCHANGED <<pc, strm, owned, disabled, reason, pidfd, dataVars, signals, clientVars, busVars>>

\* sb_bus_call_cb for StartTransientUnit or Kill.
DispatchReply(c) ==
  /\ LoopIdle /\ reply[c] # "none"
  /\ Wake(c, reply[c])
  /\ reply' = [reply EXCEPT ![c] = "none"]
  /\ AfterRunSame
  /\ UNCHANGED <<pc, strm, owned, disabled, reason, pidfd, dataVars, signals, clientVars, scope, job, kill_req>>

\* sb_sd_wait_for_job_job_removed for the session's own job.  The signal comes
\* after the reply that names the job; if the handler is not waiting for the
\* job yet, job_obj is NULL and the signal is ignored.
DispatchJobRemoved(c) ==
  /\ LoopIdle /\ reply[c] = "none" /\ job[c] # "none"
  /\ IF pc[c] = "s_job" THEN Wake(c, job[c]) ELSE UNCHANGED wake
  /\ job' = [job EXCEPT ![c] = "none"]
  /\ AfterRunSame
  /\ UNCHANGED <<pc, strm, owned, disabled, reason, pidfd, dataVars, signals, clientVars, scope, reply, kill_req>>

\* se_task_end_handler, deferred: leaves all_tasks and frees the task.
DispatchEnd(c) ==
  /\ LoopIdle /\ pc[c] = "ended"
  /\ pc' = [pc EXCEPT ![c] = "freed"]
  /\ disabled' = [disabled EXCEPT ![c] = FALSE]
  /\ reason' = [reason EXCEPT ![c] = "none"]
  /\ AfterRun(AllTasks \ {c}, exit_req, loop)
  /\ UNCHANGED <<wake, strm, owned, pidfd, dataVars, signals, clientVars, busVars>>

\* A bus message of no interest to any session (NameAcquired, other signals).
DispatchOther ==
  /\ LoopIdle
  /\ AfterRunSame
  /\ UNCHANGED <<taskVars, dataVars, signals, clientVars, busVars>>

\* exit_req_handler: only the first signal interrupts, and it interrupts every
\* task of all_tasks that has not disabled interrupts.
DispatchSignal ==
  /\ LoopIdle
  /\ \E sig \in signals : signals' = signals \ {sig}
  /\ IF exit_req = "NOEXIT"
       THEN LET hit == {c \in AllTasks : ~disabled[c]} IN
            /\ wake' = [c \in Conns |-> IF c \in hit THEN "cancel" ELSE wake[c]]
            /\ reason' = [c \in Conns |-> IF c \in hit THEN "SYS_WILL_EXIT" ELSE reason[c]]
            /\ AfterRun(AllTasks, "EXIT_REQ_SENT", loop)
       ELSE AfterRunSame /\ UNCHANGED <<wake, reason>>
  /\ UNCHANGED <<pc, strm, owned, disabled, pidfd, dataVars, clientVars, busVars>>

\* sleep_timer_handler.
DispatchSleepTimer ==
  /\ LoopIdle /\ sleep_timer
  /\ AfterRun(AllTasks, exit_req, IF AllTasks = {} THEN "exiting" ELSE loop)
  /\ UNCHANGED <<taskVars, dataVars, signals, clientVars, busVars>>

\* After sd_event_exit no handler runs any more: the loop ends, main() returns.
Finish ==
  /\ loop = "exiting" /\ Ready = {}
  /\ loop' = "finished"
  /\ UNCHANGED <<taskVars, exit_req, sleep_timer, dataVars, signals, clientVars, busVars>>

DispatchTask(c) ==
  \/ DispatchRead(c) \/ DispatchWrite(c) \/ DispatchHangup(c)
  \/ DispatchIoTimer(c) \/ DispatchPidfd(c) \/ DispatchQuery(c)
  \/ DispatchReply(c) \/ DispatchJobRemoved(c) \/ DispatchEnd(c)

-----------------------------------------------------------------------------
(* Clients: the client program connects, sends its request, waits for the  *)
(* verdict and either becomes the command or exits.  It, or the command,   *)
(* may die at any time.  Its socket is close-on-exec.                      *)

\* A client may itself run inside the scope of a running session.  Its request
\* (complete or not) is in the socket from the start, or never comes: the daemon
\* does not look before it reads.
Connect(c) ==
  /\ proc[c] = "none"
  /\ proc' = [proc EXCEPT ![c] = "waiting"]
  /\ \E o \in {Null} \cup {d \in Conns : proc[d] = "running"} :
       origin' = [origin EXCEPT ![c] = o]
  /\ \E r \in Requests : req' = [req EXCEPT ![c] = r]
  /\ UNCHANGED <<taskVars, mainVars, dataVars, signals, peer, answer, busVars>>

Proceed(c) ==
  /\ proc[c] = "waiting" /\ answer[c] = "PROCEED"
  /\ proc' = [proc EXCEPT ![c] = "running"]
  /\ peer' = [peer EXCEPT ![c] = "gone"]
  /\ UNCHANGED <<taskVars, mainVars, dataVars, signals, origin, req, answer, busVars>>

\* The client exits on FAIL, and on EOF without a verdict.
GiveUp(c) ==
  /\ proc[c] = "waiting"
  /\ \/ answer[c] \in {"FAIL", "NORESOURCE"}
     \/ answer[c] = "none" /\ ~strm[c].source /\ pc[c] \notin {"idle", "start"}
  /\ proc' = [proc EXCEPT ![c] = "dead"]
  /\ peer' = [peer EXCEPT ![c] = "gone"]
  /\ UNCHANGED <<taskVars, mainVars, dataVars, signals, origin, req, answer, busVars>>

\* Messages of ours the dying client has not read turn its hangup into a reset.
Unread(c) == answer[c] # "none" \/ pc[c] \in {"efail", "wproceed"}

Die(c) ==
  /\ proc[c] \in {"waiting", "running"}
  /\ proc' = [proc EXCEPT ![c] = "dead"]
  /\ \/ peer' = [peer EXCEPT ![c] = "gone"]
     \/ /\ proc[c] = "waiting" /\ Unread(c)
        /\ peer' = [peer EXCEPT ![c] = "reset"]
  /\ UNCHANGED <<taskVars, mainVars, dataVars, signals, origin, req, answer, busVars>>

-----------------------------------------------------------------------------
(* systemd.  A request already sent is carried out even if the coroutine   *)
(* that sent it is gone; an answer nobody waits for is dropped.            *)

\* StartTransientUnit: the job is queued and the reply names it.  systemd takes
\* the calls of one bus connection in order, so a Kill sent before is done; one
\* sent after this call is sent after this step.
SystemdStart(c) ==
  /\ scope[c] = "requested"
  /\ \A d \in Conns : ~kill_req[d]
  /\ \/ /\ proc[c] # "dead"
        /\ scope' = [scope EXCEPT ![c] = "queued"]
        /\ reply' = [reply EXCEPT ![c] = IF pc[c] = "s_start" THEN "ok" ELSE @]
     \/ /\ proc[c] = "dead" \/ "bus" \in Faults
        /\ scope' = [scope EXCEPT ![c] = "gone"]
        /\ reply' = [reply EXCEPT ![c] = IF pc[c] = "s_start" THEN "err" ELSE @]
  /\ UNCHANGED <<taskVars, mainVars, dataVars, signals, clientVars, job, kill_req>>

\* The job moves the process into the scope, or fails; JobRemoved is emitted.
SystemdJob(c) ==
  /\ scope[c] = "queued"
  /\ LET heard == pc[c] \in {"s_start", "s_job"} IN
       \/ /\ proc[c] # "dead"
          /\ scope' = [scope EXCEPT ![c] = "active"]
          /\ job' = [job EXCEPT ![c] = IF heard THEN "ok" ELSE @]
       \/ /\ proc[c] = "dead" \/ "bus" \in Faults
          /\ scope' = [scope EXCEPT ![c] = "gone"]
          /\ job' = [job EXCEPT ![c] = IF heard THEN "err" ELSE @]
  /\ UNCHANGED <<taskVars, mainVars, dataVars, signals, clientVars, reply, kill_req>>

\* The processes in the scope of c: its own, and clients started from it that
\* have not been moved to a scope of their own.
Members(c) == {c} \cup {d \in Conns : origin[d] = c /\ scope[d] # "active"}

\* Kill with SIGKILL; it fails if the scope is gone, or by fault.
SystemdKill(c) ==
  /\ kill_req[c]
  /\ kill_req' = [kill_req EXCEPT ![c] = FALSE]
  /\ LET answers(r) == reply' = [reply EXCEPT ![c] = IF pc[c] \in KillLabels THEN r ELSE @] IN
       \/ /\ scope[c] = "active"
          /\ scope' = [scope EXCEPT ![c] = "gone"]
          /\ proc' = [d \in Conns |->
                       IF d \in Members(c) /\ proc[d] # "none" THEN "dead" ELSE proc[d]]
          /\ peer' = [d \in Conns |->
                       IF d \in Members(c) /\ peer[d] = "open" THEN "gone" ELSE peer[d]]
          /\ answers("ok")
       \/ /\ scope[c] # "active" \/ "kill" \in Faults
                \/ \A d \in Members(c) : proc[d] \in {"none", "dead"}
          /\ answers("err")
          /\ UNCHANGED <<scope, proc, peer>>
  /\ UNCHANGED <<taskVars, mainVars, dataVars, signals, origin, req, answer, job>>

Environment(c) ==
  \/ Connect(c) \/ Proceed(c) \/ GiveUp(c) \/ Die(c)
  \/ SystemdStart(c) \/ SystemdJob(c) \/ SystemdKill(c)

\* The daemon is gone (main() returned, or _exit).
Over ==
  /\ loop \in {"finished", "exited"}
  /\ UNCHANGED vars

Next ==
  \/ \E c \in Conns : Run(c) \/ Accept(c) \/ DispatchTask(c) \/ Environment(c)
  \/ DispatchOther \/ DispatchSignal \/ DispatchSleepTimer \/ Finish
  \/ Over

Spec == Init /\ [][Next]_vars

\* Fairness.  The run queue is FIFO, so a ready coroutine runs.  sd-event serves
\* pending sources oldest first, so a handler that is due again and again is
\* dispatched.  systemd carries out what it was asked, and the client program
\* acts on a verdict.  Nothing makes clients connect or commands end.
Fairness ==
  /\ \A c \in Conns :
       /\ WF_vars(Run(c)) /\ SF_vars(DispatchTask(c)) /\ SF_vars(Accept(c))
       /\ WF_vars(SystemdStart(c)) /\ WF_vars(SystemdJob(c)) /\ WF_vars(SystemdKill(c))
       /\ WF_vars(Proceed(c)) /\ WF_vars(GiveUp(c))
  /\ WF_vars(Finish)

FairSpec == Spec /\ Fairness

-----------------------------------------------------------------------------
(* Properties.                                                             *)

\* From the moment PROCEED is in the socket until the process is dead, the map
\* holds the limit the client asked for: it is stored before PROCEED is written
\* (main.c:347-355) and removed only after the process ended or the scope was
\* killed, whatever interrupts the session in between (main.c:358-401).
Enforced ==
  \A c \in Conns : answer[c] = "PROCEED" /\ proc[c] # "dead" => rate_map[c] = "limit"

\* The map never holds an entry without an admitted session, and g_nr_tasks
\* counts exactly those (main.c:196-203, 127-146): so at most MAX_NR_TASKS
\* entries exist, which open_and_load_bpf_obj sizes the map for, and
\* decrease_nr_tasks never goes below zero.
MapFits ==
  /\ Limited \subseteq Admitted
  /\ nr_tasks = Cardinality(Admitted)
  /\ nr_tasks <= MaxNrTasks

\* Every suspended session has something under way that will wake it: no reply,
\* JobRemoved signal, process exit or I/O event it waits for has been missed
\* (sd_bus.c:443-461, 575-586; se_libs.c:602-617, 514-555).
WakeupPending ==
  \A c \in Conns : wake[c] = "none" =>
    /\ pc[c] \in IoLabels =>
         /\ strm[c].source /\ strm[c].enabled
         /\ strm[c].events = IF strm[c].state = "READ" THEN "IN" ELSE "OUT"
    /\ pc[c] = "s_start" => scope[c] = "requested" \/ reply[c] # "none"
    /\ pc[c] = "s_job" => scope[c] = "queued" \/ job[c] # "none"
    /\ pc[c] \in KillLabels => kill_req[c] \/ reply[c] # "none"
    /\ pc[c] = "wait_exit" => pidfd[c] = "waiting"
    /\ pc[c] # "start"

\* No I/O is started on a stream that was shut down: assert(stream->source) in
\* msg_stream_do_io and shutdown_msg_stream (se_libs.c:416, 517) never fails.
StreamAlive == \A c \in Conns : pc[c] \in IoLabels => strm[c].source

\* "Recursive rate limit is not allowed" (main.c:260): a client started inside
\* the scope of a running session is never told to proceed, even if that session
\* ends while the new one is being set up.
NestedRefused == \A c \in Conns : origin[c] # Null => answer[c] # "PROCEED"

SameVerdicts == \A c \in Conns : answer[c] # "none" => answer'[c] = answer[c]

\* A client gets at most one verdict: once PROCEED or FAIL has been written, no
\* later interrupt or error writes another (main.c:354-357, 370-390).
OneVerdict == [][SameVerdicts]_vars

\* g_this_unit_name is assigned once, although several sessions may find it
\* NULL and ask for it (main.c:210-231).
UnitNameOnce == [][unit_name # Null => unit_name' = unit_name]_vars

\* "all task is over" (main.c:553): the loop only ends with no session left, and
\* then no slot is taken.
AllTasksOver == loop = "finished" => AllTasks = {} /\ nr_tasks = 0

\* "all task is over" (main.c:553), of every way the process ends: also through
\* the _exit(0) a coroutine's trampoline calls.
ExitsWhenTasksOver == loop \in {"finished", "exited"} => AllTasks = {}

Live(c) == pc[c] \notin {"idle", "freed"}

\* When a session's process is dead its slot is given back, at whatever point
\* of the handler that happens (main.c:358-401).
SlotReleased ==
  \A c \in Conns : proc[c] = "dead" /\ Live(c) ~> ~Live(c) \/ loop # "running"

\* A client whose connection was accepted does not wait for ever: it gets a
\* verdict or the end of the connection.
ClientAnswered ==
  \A c \in Conns : proc[c] = "waiting" /\ Live(c) ~> proc[c] # "waiting" \/ loop # "running"

\* How a session looks to its client.
Stage(c) ==
  CASE pc[c] \in {"idle", "start"} -> "new"
    [] pc[c] \in {"rfail", "rshut"} -> "denied"
    [] pc[c] \in {"ended", "freed"} -> "over"
    [] OTHER -> "held"

Promise == INSTANCE Session WITH stage <- [c \in Conns |-> Stage(c)],
                                 limit <- rate_map, verdict <- answer

\* The daemon keeps what Session promises its clients: every step of main(), the
\* handlers and the coroutines is a step of the promise or invisible to clients.
KeepsPromise == Promise!Spec

\* After an exit request the daemon exits ("system will exit", main.c:385).
ExitCompletes == exit_req = "EXIT_REQ_SENT" ~> loop # "running"

\* It does when every command ends some day: nothing else holds up the exit, not
\* a systemd call, a client or a failing step (main.c:358-401, 543-551).
ExitsAfterCommands == (\A c \in Conns : WF_vars(Die(c))) => ExitCompletes
=============================================================================
