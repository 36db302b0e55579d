---------------------------- MODULE DaemonProofs -----------------------------
(***************************************************************************)
(* Proofs about Daemon, for any set of connections, any MAX_NR_TASKS and   *)
(* any faults: the types of its variables, what a session has registered   *)
(* at each of its waits, what each wait is for, and the end of the daemon. *)
(* Last, a limit is in force as long as the process it was granted to      *)
(* lives (Enforced), whatever interrupts, faults of the bus and failing    *)
(* map operations the session meets; only the Kill call on a scope is      *)
(* assumed not to fail while the scope has a living process.               *)
(* SessionProofs continues.                                                *)
(***************************************************************************)
EXTENDS Daemon, TLAPS

-----------------------------------------------------------------------------
(* What the stream operators return.                                       *)

\* Every operation on a msg_stream (se_libs.c:234-572) yields a msg_stream.
LEMMA StreamOps ==
  /\ NoStream \in Stream
  /\ init_msg_stream \in Stream
  /\ \A s \in Stream :
       /\ \A reg \in BOOLEAN : msg_stream_reg_interrupt(s, reg) \in Stream
       /\ \A op \in {"READ", "WRITE"}, timed \in BOOLEAN : BeginIo(s, op, timed) \in Stream
       /\ CancelIo(s) \in Stream /\ EndIo(s) \in Stream
       /\ \A len \in IoLens : OnIo(s, len) \in Stream
       /\ OnIoError(s) \in Stream
       /\ OnHangup(s, TRUE) \in Stream
       /\ io_timer_handler(s) \in Stream
       /\ Shut(s) \in Stream
       /\ destroy_msg_stream(s) \in Stream
<1>1. NoStream \in Stream /\ init_msg_stream \in Stream
  BY DEF Stream, NoStream, init_msg_stream
<1> SUFFICES ASSUME NEW s \in Stream
             PROVE  /\ \A reg \in BOOLEAN : msg_stream_reg_interrupt(s, reg) \in Stream
                    /\ \A op \in {"READ", "WRITE"}, timed \in BOOLEAN :
                         BeginIo(s, op, timed) \in Stream
                    /\ CancelIo(s) \in Stream /\ EndIo(s) \in Stream
                    /\ \A len \in IoLens : OnIo(s, len) \in Stream
                    /\ OnIoError(s) \in Stream
                    /\ OnHangup(s, TRUE) \in Stream
                    /\ io_timer_handler(s) \in Stream
                    /\ Shut(s) \in Stream
  BY <1>1, ZenonT(60) DEF destroy_msg_stream
<1>2. \A reg \in BOOLEAN : msg_stream_reg_interrupt(s, reg) \in Stream
  BY DEF Stream, msg_stream_reg_interrupt
<1>3. \A op \in {"READ", "WRITE"}, timed \in BOOLEAN : BeginIo(s, op, timed) \in Stream
  BY ZenonT(60) DEF Stream, BeginIo
<1>4. CancelIo(s) \in Stream /\ EndIo(s) \in Stream
  BY ZenonT(60) DEF Stream, CancelIo, EndIo
<1>5. (\A len \in IoLens : OnIo(s, len) \in Stream) /\ OnIoError(s) \in Stream
  BY ZenonT(60) DEF Stream, OnIo, OnIoError, IoLens, IoErrors
<1>6. OnHangup(s, TRUE) \in Stream
  BY Zenon DEF Stream, OnHangup, IoErrors
<1>7. io_timer_handler(s) \in Stream
  BY Zenon DEF Stream, io_timer_handler, IoErrors
<1>8. Shut(s) \in Stream
  BY Zenon DEF Stream, Shut
<1> QED BY Zenon, <1>2, <1>3, <1>4, <1>5, <1>6, <1>7, <1>8

-----------------------------------------------------------------------------
(* Types.                                                                  *)

\* TypeOK but for the bound of nr_tasks, which needs the slots to be counted,
\* by what the helpers of the handler change together.
WaitTypes ==
  /\ pc \in [Conns -> Labels]
  /\ wake \in [Conns -> {"none", "ok", "err", "cancel", "refused"}]
  /\ strm \in [Conns -> Stream]

OwnTypes ==
  /\ owned \in [Conns -> SUBSET {"stream", "nr_task", "scope", "pidfd", "limit"}]
  /\ pidfd \in [Conns -> {"none", "armed", "waiting", "terminated", "off"}]
  /\ rate_map \in [Conns -> {"none", "block", "limit"}]
  /\ nr_tasks \in Int

MainTypes ==
  /\ exit_req \in {"NOEXIT", "EXIT_REQ_SENT", "WAIT_TASKS"}
  /\ sleep_timer \in BOOLEAN
  /\ loop \in {"running", "exiting", "finished", "exited"}

OtherTypes ==
  /\ disabled \in [Conns -> BOOLEAN]
  /\ reason \in [Conns -> {"none", "IO_ERR", "PROC_END", "SYS_WILL_EXIT"}]
  /\ unit_name \in Conns \cup {Null}
  /\ signals \subseteq Signals

ClientTypes ==
  /\ proc \in [Conns -> {"none", "waiting", "running", "dead"}]
  /\ origin \in [Conns -> Conns \cup {Null}]
  /\ peer \in [Conns -> {"open", "gone", "reset"}]
  /\ req \in [Conns -> {"none", "good", "bad", "taken"}]
  /\ answer \in [Conns -> {"none", "PROCEED", "FAIL", "NORESOURCE"}]

BusTypes ==
  /\ scope \in [Conns -> {"none", "requested", "queued", "active", "gone"}]
  /\ reply \in [Conns -> {"none", "ok", "err"}]
  /\ job \in [Conns -> {"none", "ok", "err"}]
  /\ kill_req \in [Conns -> BOOLEAN]

Types == WaitTypes /\ OwnTypes /\ MainTypes /\ OtherTypes /\ ClientTypes /\ BusTypes

\* The labels named by the actions are labels.
LEMMA LabelFacts ==
  /\ BusLabels \subseteq Labels /\ KillLabels \subseteq Labels /\ IoLabels \subseteq Labels
  /\ {"idle", "start", "wait_exit", "ended", "freed"} \subseteq Labels
  /\ \A l \in DOMAIN NextQuery : NextQuery[l] \in Labels
  /\ \A l \in LogLabels \cup VerdictLabels : NextIo[l] \in IoLabels
BY DEF Labels, BusLabels, QueryLabels, KillLabels, IoLabels, LogLabels, VerdictLabels,
       ShutLabels, NextQuery, NextIo

\* A session that starts a wait (Await) keeps the types.
LEMMA AwaitTypes ==
  ASSUME NEW c \in Conns, NEW l \in Labels, WaitTypes, Await(c, l)
  PROVE  /\ pc' \in [Conns -> Labels]
         /\ wake' \in [Conns -> {"none", "ok", "err", "cancel", "refused"}]
BY DEF WaitTypes, Await

\* So does one that starts, or is refused, an I/O on its stream.
LEMMA IoToTypes ==
  ASSUME NEW c \in Conns, NEW l \in Labels, NEW st \in Stream, NEW op \in {"READ", "WRITE"},
         NEW timed \in BOOLEAN, WaitTypes, IoTo(c, st, op, timed, l)
  PROVE  WaitTypes'
BY Zenon, StreamOps DEF WaitTypes, IoTo

\* And one that starts shutdown_msg_stream.
LEMMA ShutToTypes ==
  ASSUME NEW c \in Conns, NEW l \in Labels, NEW st \in Stream,
         WaitTypes, ClientTypes, ShutTo(c, st, l),
         UNCHANGED <<proc, origin, req, answer>>
  PROVE  WaitTypes' /\ ClientTypes'
<1>1. CASE peer[c] = "reset"
  BY <1>1 DEF ShutTo, WaitTypes, ClientTypes
<1>2. CASE peer[c] # "reset"
  BY Zenon, <1>2, IoToTypes DEF ShutTo, ClientTypes
<1> QED BY <1>1, <1>2

\* The end of a task and the release of what it has registered.
LEMMA EndTaskTypes ==
  ASSUME NEW c \in Conns, WaitTypes, OwnTypes, EndTask(c)
  PROVE  WaitTypes' /\ OwnTypes'
<1>1. WaitTypes'
  BY Zenon, LabelFacts, StreamOps, AwaitTypes DEF EndTask, WaitTypes
<1>2. OwnTypes'
  BY DEF EndTask, OwnTypes, ReleaseSlot, ClearLimit
<1> QED BY <1>1, <1>2

\* The stream a finished or cancelled I/O leaves behind is a stream.
LEMMA AfterTypes ==
  ASSUME NEW c \in Conns, WaitTypes
  PROVE  AfterIo(c) \in Stream /\ AfterShut(c) \in Stream /\ EndIo(strm[c]) \in Stream
BY Zenon, StreamOps DEF AfterIo, AfterShut, WaitTypes

\* The tail of the interrupt path: Kill on the scope, or the end of the task.
LEMMA KillOrEndTypes ==
  ASSUME NEW c \in Conns, NEW st \in Stream,
         NEW watch \in {"none", "armed", "waiting", "terminated", "off"},
         WaitTypes, OwnTypes, kill_req \in [Conns -> BOOLEAN], KillOrEnd(c, st, watch)
  PROVE  WaitTypes' /\ OwnTypes' /\ kill_req' \in [Conns -> BOOLEAN]
<1>1. CASE "scope" \in owned[c]
  <2>1. WaitTypes'
    BY <1>1, LabelFacts, AwaitTypes DEF KillOrEnd, KillTo, WaitTypes, KillLabels
  <2> QED BY ZenonT(60), <1>1, <2>1 DEF KillOrEnd, KillTo, OwnTypes
<1>2. CASE "scope" \notin owned[c]
  BY <1>2, EndTaskTypes DEF KillOrEnd
<1> QED BY <1>1, <1>2

\* Every stretch of client_handler_async between two waits keeps the types.
LEMMA RunTypes ==
  ASSUME NEW c \in Conns, Types, Run(c)
  PROVE  Types'
<1> USE DEF Types, mainVars, dataVars, clientVars, busVars, taskVars
<1>1. ASSUME RunStart(c) PROVE Types'
  <2>0. MainTypes' /\ OtherTypes' /\ ClientTypes' /\ BusTypes'
    BY <1>1 DEF RunStart, MainTypes, OtherTypes, ClientTypes, BusTypes
  <2>1. CASE EndTask(c)
    BY <2>0, <2>1, EndTaskTypes
  <2>2. CASE ~SlotFree /\ ~EndTask(c)
    <3>1. WaitTypes'
      BY Zenon, <1>1, <2>2, IoToTypes, LabelFacts, StreamOps DEF RunStart, SlotFree, IoLabels, VerdictLabels
    <3> QED BY ZenonT(60), <1>1, <2>0, <2>2, <3>1 DEF RunStart, SlotFree, OwnTypes
  <2>3. CASE SlotFree /\ ~EndTask(c)
    <3>1. WaitTypes'
      BY ZenonT(60), <1>1, <2>3, AwaitTypes, LabelFacts, StreamOps
         DEF RunStart, SlotFree, BusLabels, QueryLabels, WaitTypes
    <3>2. /\ nr_tasks' = nr_tasks + 1
          /\ owned' = [owned EXCEPT ![c] = {"stream", "nr_task"}]
          /\ UNCHANGED <<pidfd, rate_map>>
      BY Zenon, <1>1, <2>3 DEF RunStart
    <3>3. OwnTypes'
      BY <3>2 DEF OwnTypes
    <3> QED BY <2>0, <3>1, <3>3
  <2> QED BY <2>1, <2>2, <2>3
<1>2. ASSUME RunQuery(c) PROVE Types'
  <2>1. WaitTypes'
    BY <1>2, AwaitTypes, LabelFacts DEF RunQuery, RunsOk, Runs, WaitTypes
  <2> QED BY <1>2, <2>1 DEF RunQuery, OwnTypes, MainTypes, OtherTypes, ClientTypes, BusTypes
<1>3. ASSUME RunSelfUnit(c) PROVE Types'
  <2>1. WaitTypes'
    BY <1>3, AwaitTypes, LabelFacts DEF RunSelfUnit, WaitTypes, BusLabels, QueryLabels
  <2> QED BY <1>3, <2>1
          DEF RunSelfUnit, NewUnitName, OwnTypes, MainTypes, OtherTypes, ClientTypes, BusTypes
<1>4. ASSUME RunOrigCgroup(c) PROVE Types'
  <2>1. CASE Await(c, "s_slice") /\ UNCHANGED strm
    BY <1>4, <2>1, AwaitTypes, LabelFacts
       DEF RunOrigCgroup, WaitTypes, BusLabels, QueryLabels,
           OwnTypes, MainTypes, OtherTypes, ClientTypes, BusTypes
  <2>2. CASE IoTo(c, strm[c], "WRITE", TRUE, "rlog")
    <3>1. WaitTypes'
      BY Zenon, <2>2, IoToTypes, LabelFacts DEF WaitTypes, IoLabels, LogLabels
    <3> QED BY <1>4, <3>1
            DEF RunOrigCgroup, OwnTypes, MainTypes, OtherTypes, ClientTypes, BusTypes
  <2> QED BY Zenon, <1>4, <2>1, <2>2 DEF RunOrigCgroup
<1>5. ASSUME RunMatch(c) PROVE Types'
  <2>1. WaitTypes'
    BY <1>5, AwaitTypes, LabelFacts DEF RunMatch, WaitTypes, BusLabels
  <2> QED BY <1>5, <2>1 DEF RunMatch, OwnTypes, MainTypes, OtherTypes, ClientTypes, BusTypes
<1>6. ASSUME RunGetUnit(c) PROVE Types'
  <2>1. WaitTypes'
    BY Zenon, <1>6, IoToTypes, AwaitTypes, LabelFacts
       DEF RunGetUnit, ErrClose, WaitTypes, BusLabels, QueryLabels, IoLabels, LogLabels
  <2>2. OwnTypes'
    BY <1>6 DEF RunGetUnit, OwnTypes
  <2> QED BY <1>6, <2>1, <2>2 DEF RunGetUnit, MainTypes, OtherTypes, ClientTypes, BusTypes
<1>7. ASSUME RunCgroup(c) PROVE Types'
  <2>1. WaitTypes'
    BY Zenon, <1>7, IoToTypes, LabelFacts DEF RunCgroup, ErrClose, WaitTypes, IoLabels, LogLabels
  <2>2. OwnTypes'
    <3>1. CASE owned' = [owned EXCEPT ![c] = @ \cup {"limit"}]
      BY Zenon, <1>7, <3>1 DEF RunCgroup, OwnTypes
    <3>2. CASE UNCHANGED <<rate_map, owned>>
      BY <1>7, <3>2 DEF RunCgroup, OwnTypes
    <3> QED BY Zenon, <1>7, <3>1, <3>2 DEF RunCgroup
  <2> QED BY <1>7, <2>1, <2>2 DEF RunCgroup, MainTypes, OtherTypes, ClientTypes, BusTypes
<1>8. ASSUME RunRead(c) PROVE Types'
  <2>1. WaitTypes'
    BY Zenon, <1>8, IoToTypes, LabelFacts, StreamOps, AfterTypes
       DEF RunRead, ErrClose, WaitTypes, IoLabels, LogLabels
  <2>2. OwnTypes'
    BY Zenon, <1>8 DEF RunRead, StoreLimit, OwnTypes
  <2> QED BY <1>8, <2>1, <2>2 DEF RunRead, MainTypes, OtherTypes, ClientTypes, BusTypes
<1>9. ASSUME RunLogged(c) PROVE Types'
  <2>1. WaitTypes'
    BY Zenon, <1>9, IoToTypes, LabelFacts, AfterTypes DEF RunLogged, Runs, WaitTypes
  <2> QED BY <1>9, <2>1 DEF RunLogged, OwnTypes, MainTypes, OtherTypes, ClientTypes, BusTypes
<1>10. ASSUME RunVerdict(c) PROVE Types'
  <2>1. WaitTypes' /\ ClientTypes'
    BY <1>10, ShutToTypes, LabelFacts, AfterTypes DEF RunVerdict, Runs, WaitTypes
  <2> QED BY <1>10, <2>1 DEF RunVerdict, OwnTypes, MainTypes, OtherTypes, BusTypes
<1>11. ASSUME RunRefused(c) PROVE Types'
  BY <1>11, EndTaskTypes DEF RunRefused, MainTypes, OtherTypes, ClientTypes, BusTypes
<1>12. ASSUME RunGranted(c) PROVE Types'
  <2>1. WaitTypes'
    BY <1>12, AwaitTypes, AfterTypes, LabelFacts DEF RunGranted, KillTo, WaitTypes, KillLabels
  <2>2. OwnTypes'
    BY <1>12 DEF RunGranted, OwnTypes
  <2>3. BusTypes'
    BY Zenon, <1>12 DEF RunGranted, KillTo, BusTypes
  <2> QED BY <1>12, <2>1, <2>2, <2>3 DEF RunGranted, MainTypes, OtherTypes, ClientTypes
<1>13. ASSUME RunExited(c) PROVE Types'
  <2>1. WaitTypes'
    BY <1>13, AwaitTypes, LabelFacts DEF RunExited, KillTo, WaitTypes, KillLabels
  <2> QED BY <1>13, <2>1
          DEF RunExited, KillTo, OwnTypes, MainTypes, OtherTypes, ClientTypes, BusTypes
<1>14. ASSUME RunKilled(c) PROVE Types'
  BY <1>14, EndTaskTypes DEF RunKilled, MainTypes, OtherTypes, ClientTypes, BusTypes
<1>15. ASSUME RunBusError(c) PROVE Types'
  <2>1. WaitTypes'
    BY Zenon, <1>15, IoToTypes, LabelFacts DEF RunBusError, ErrClose, WaitTypes, IoLabels, LogLabels
  <2> QED BY <1>15, <2>1 DEF RunBusError, OwnTypes, MainTypes, OtherTypes, ClientTypes, BusTypes
<1>16. ASSUME RunInterrupted(c) PROVE Types'
  <2> DEFINE st == IF pc[c] = "read" THEN CancelIo(strm[c]) ELSE strm[c]
  <2>1. st \in Stream
    BY Zenon, StreamOps DEF WaitTypes
  <2>2. CASE TellClient(c)
    <3>1. /\ IoTo(c, st, "WRITE", TRUE, "ifail")
          /\ disabled' = [disabled EXCEPT ![c] = TRUE]
          /\ reply' = [reply EXCEPT ![c] = "none"] /\ job' = [job EXCEPT ![c] = "none"]
          /\ UNCHANGED <<owned, pidfd, nr_tasks, rate_map, kill_req>>
          /\ UNCHANGED <<reason, unit_name, mainVars, signals, clientVars, scope>>
      BY Zenon, <1>16, <2>2 DEF RunInterrupted
    <3> HIDE DEF st
    <3>2. "ifail" \in Labels
      BY LabelFacts DEF IoLabels, VerdictLabels
    <3>3. WaitTypes'
      BY Zenon, <2>1, <3>1, <3>2, IoToTypes
    <3>4. OwnTypes'
      BY <3>1 DEF OwnTypes
    <3>5. MainTypes' /\ OtherTypes' /\ ClientTypes'
      BY <3>1 DEF MainTypes, OtherTypes, ClientTypes
    <3>6. BusTypes'
      BY <3>1 DEF BusTypes
    <3> QED BY <3>3, <3>4, <3>5, <3>6
  <2>3. CASE ~TellClient(c)
    <3> DEFINE watch == IF pc[c] = "wait_exit" THEN "off" ELSE pidfd[c]
    <3>1. watch \in {"none", "armed", "waiting", "terminated", "off"}
      BY DEF OwnTypes
    <3>2. KillOrEnd(c, st, watch)
      BY Zenon, <1>16, <2>3 DEF RunInterrupted
    <3> HIDE DEF st, watch
    <3>3. WaitTypes' /\ OwnTypes' /\ kill_req' \in [Conns -> BOOLEAN]
      BY <2>1, <3>1, <3>2, KillOrEndTypes DEF BusTypes
    <3> QED BY Zenon, <1>16, <3>3 DEF RunInterrupted, MainTypes, OtherTypes, ClientTypes, BusTypes
  <2> QED BY <2>2, <2>3
<1>17. ASSUME RunInterruptTold(c) PROVE Types'
  <2>1. WaitTypes' /\ OwnTypes' /\ kill_req' \in [Conns -> BOOLEAN]
    BY SMTT(30), <1>17, AfterTypes, KillOrEndTypes DEF RunInterruptTold, OwnTypes, BusTypes
  <2> QED BY <1>17, <2>1 DEF RunInterruptTold, MainTypes, OtherTypes, ClientTypes, BusTypes
<1>18. ASSUME RunClosed(c) PROVE Types'
  BY <1>18 DEF RunClosed, WaitTypes, OwnTypes, MainTypes, OtherTypes, ClientTypes, BusTypes
<1> QED BY <1>1, <1>2, <1>3, <1>4, <1>5, <1>6, <1>7, <1>8, <1>9, <1>10, <1>11, <1>12,
           <1>13, <1>14, <1>15, <1>16, <1>17, <1>18 DEF Run

\* The idle check of the loop, after the run queue is empty.
LEMMA AfterRunTypes ==
  ASSUME NEW tasks, NEW ereq \in {"NOEXIT", "EXIT_REQ_SENT", "WAIT_TASKS"},
         NEW l \in {"running", "exiting", "finished", "exited"},
         MainTypes, AfterRun(tasks, ereq, l)
  PROVE  MainTypes'
BY Zenon DEF AfterRun, MainTypes

\* The idle check, after a step that leaves the state of the loop alone.
LEMMA AfterRunSameTypes ==
  ASSUME MainTypes, AfterRunSame
  PROVE  MainTypes'
BY AfterRunTypes DEF AfterRunSame, MainTypes

\* Handlers of the event loop that concern one session.
LEMMA DispatchTypes ==
  ASSUME NEW c \in Conns, Types, Accept(c) \/ DispatchTask(c)
  PROVE  Types'
<1> USE DEF Types, mainVars, dataVars, clientVars, busVars, taskVars
<1>1. ASSUME Accept(c) PROVE Types'
  <2>1. MainTypes'
    BY Zenon, <1>1, AfterRunTypes DEF Accept, MainTypes
  <2>2. WaitTypes'
    BY <1>1, LabelFacts DEF Accept, Wake, WaitTypes
  <2> QED BY <1>1, <2>1, <2>2 DEF Accept, OwnTypes, OtherTypes, ClientTypes, BusTypes
<1>2. ASSUME DispatchRead(c) PROVE Types'
  <2>1. WaitTypes'
    <3>1. strm' \in [Conns -> Stream]
      BY Zenon, <1>2, StreamOps DEF DispatchRead, IoLens, WaitTypes
    <3> QED BY <1>2, <3>1 DEF DispatchRead, SetStreamEvent, Wake, WaitTypes
  <2>2. ClientTypes'
    BY <1>2 DEF DispatchRead, ClientTypes
  <2> QED BY <1>2, <2>1, <2>2, AfterRunSameTypes DEF DispatchRead, OwnTypes, OtherTypes, BusTypes
<1>3. ASSUME DispatchWrite(c) PROVE Types'
  <2>1. WaitTypes'
    <3>1. strm' \in [Conns -> Stream]
      BY Zenon, <1>3, StreamOps DEF DispatchWrite, IoLens, WaitTypes
    <3> QED BY <1>3, <3>1 DEF DispatchWrite, SetStreamEvent, Wake, WaitTypes
  <2>2. ClientTypes'
    BY <1>3 DEF DispatchWrite, Verdict, VerdictLabels, ClientTypes
  <2> QED BY <1>3, <2>1, <2>2, AfterRunSameTypes DEF DispatchWrite, OwnTypes, OtherTypes, BusTypes
<1>4. ASSUME DispatchHangup(c) PROVE Types'
  <2>1. WaitTypes' /\ reason' \in [Conns -> {"none", "IO_ERR", "PROC_END", "SYS_WILL_EXIT"}]
    BY Zenon, <1>4, StreamOps DEF DispatchHangup, InterruptTask, SetStreamEvent, Wake, WaitTypes, OtherTypes
  <2> QED BY <1>4, <2>1, AfterRunSameTypes DEF DispatchHangup, OwnTypes, OtherTypes, ClientTypes, BusTypes
<1>5. ASSUME DispatchIoTimer(c) PROVE Types'
  <2>1. WaitTypes'
    BY Zenon, <1>5, StreamOps DEF DispatchIoTimer, SetStreamEvent, Wake, WaitTypes
  <2> QED BY <1>5, <2>1, AfterRunSameTypes DEF DispatchIoTimer, OwnTypes, OtherTypes, ClientTypes, BusTypes
<1>6. ASSUME DispatchPidfd(c) PROVE Types'
  <2>1. WaitTypes' /\ reason' \in [Conns -> {"none", "IO_ERR", "PROC_END", "SYS_WILL_EXIT"}]
    BY <1>6 DEF DispatchPidfd, InterruptTask, Wake, WaitTypes, OtherTypes
  <2>2. OwnTypes'
    BY <1>6 DEF DispatchPidfd, OwnTypes
  <2> QED BY <1>6, <2>1, <2>2, AfterRunSameTypes DEF DispatchPidfd, OtherTypes, ClientTypes, BusTypes
<1>7. ASSUME DispatchQuery(c) PROVE Types'
  <2>1. WaitTypes'
    BY <1>7 DEF DispatchQuery, Wake, WaitTypes
  <2> QED BY <1>7, <2>1, AfterRunSameTypes DEF DispatchQuery, OwnTypes, OtherTypes, ClientTypes, BusTypes
<1>8. ASSUME DispatchReply(c) PROVE Types'
  <2>1. WaitTypes' /\ BusTypes'
    BY <1>8 DEF DispatchReply, Wake, WaitTypes, BusTypes
  <2> QED BY <1>8, <2>1, AfterRunSameTypes DEF DispatchReply, OwnTypes, OtherTypes, ClientTypes
<1>9. ASSUME DispatchJobRemoved(c) PROVE Types'
  <2>1. WaitTypes' /\ BusTypes'
    BY <1>9 DEF DispatchJobRemoved, Wake, WaitTypes, BusTypes
  <2> QED BY <1>9, <2>1, AfterRunSameTypes DEF DispatchJobRemoved, OwnTypes, OtherTypes, ClientTypes
<1>10. ASSUME DispatchEnd(c) PROVE Types'
  <2>1. MainTypes'
    BY <1>10, AfterRunTypes DEF DispatchEnd, MainTypes
  <2>2. WaitTypes' /\ OtherTypes'
    BY <1>10, LabelFacts DEF DispatchEnd, WaitTypes, OtherTypes
  <2> QED BY <1>10, <2>1, <2>2 DEF DispatchEnd, OwnTypes, ClientTypes, BusTypes
<1> QED BY <1>1, <1>2, <1>3, <1>4, <1>5, <1>6, <1>7, <1>8, <1>9, <1>10 DEF DispatchTask

\* The other handlers, and the end of the loop.
LEMMA LoopTypes ==
  ASSUME Types, DispatchOther \/ DispatchSignal \/ DispatchSleepTimer \/ Finish \/ Over
  PROVE  Types'
<1> USE DEF Types, mainVars, dataVars, clientVars, busVars, taskVars
<1>1. ASSUME DispatchOther PROVE Types'
  BY <1>1, AfterRunSameTypes
     DEF DispatchOther, WaitTypes, OwnTypes, OtherTypes, ClientTypes, BusTypes
<1>2. ASSUME DispatchSignal PROVE Types'
  <2>1. MainTypes'
    BY <1>2, AfterRunTypes, AfterRunSameTypes DEF DispatchSignal, MainTypes
  <2>2. WaitTypes' /\ OtherTypes'
    BY <1>2 DEF DispatchSignal, WaitTypes, OtherTypes
  <2> QED BY <1>2, <2>1, <2>2 DEF DispatchSignal, OwnTypes, ClientTypes, BusTypes
<1>3. ASSUME DispatchSleepTimer PROVE Types'
  <2>1. MainTypes'
    BY <1>3, AfterRunTypes DEF DispatchSleepTimer, MainTypes
  <2> QED BY <1>3, <2>1
          DEF DispatchSleepTimer, WaitTypes, OwnTypes, OtherTypes, ClientTypes, BusTypes
<1>4. ASSUME Finish PROVE Types'
  BY <1>4 DEF Finish, WaitTypes, OwnTypes, MainTypes, OtherTypes, ClientTypes, BusTypes
<1>5. ASSUME Over PROVE Types'
  BY <1>5 DEF Over, vars, WaitTypes, OwnTypes, MainTypes, OtherTypes, ClientTypes, BusTypes
<1> QED BY <1>1, <1>2, <1>3, <1>4, <1>5

\* Clients and systemd.
LEMMA EnvironmentTypes ==
  ASSUME NEW c \in Conns, Types, Environment(c)
  PROVE  Types'
<1> USE DEF Types, mainVars, dataVars, clientVars, busVars, taskVars
<1>1. WaitTypes' /\ OwnTypes' /\ MainTypes' /\ OtherTypes'
  BY ZenonT(60) DEF Environment, Connect, Proceed, GiveUp, Die, SystemdStart, SystemdJob, SystemdKill,
         WaitTypes, OwnTypes, MainTypes, OtherTypes
<1>2. ClientTypes'
  <2>1. ASSUME Connect(c) PROVE ClientTypes'
    BY <2>1, ConstantsAssumption DEF Connect, ClientTypes
  <2>2. ASSUME SystemdKill(c) PROVE ClientTypes'
    BY <2>2 DEF SystemdKill, ClientTypes
  <2> QED BY Zenon, <2>1, <2>2
          DEF Environment, Proceed, GiveUp, Die, SystemdStart, SystemdJob, ClientTypes
<1>3. BusTypes'
  BY ZenonT(60) DEF Environment, Connect, Proceed, GiveUp, Die, SystemdStart, SystemdJob, SystemdKill,
         BusTypes
<1> QED BY <1>1, <1>2, <1>3

-----------------------------------------------------------------------------
(* One session at a time.                                                  *)

\* What session d has, and what systemd and its client have of it, stays as it is.
SameAt(d) ==
  /\ pc'[d] = pc[d] /\ wake'[d] = wake[d] /\ owned'[d] = owned[d]
  /\ disabled'[d] = disabled[d] /\ pidfd'[d] = pidfd[d] /\ rate_map'[d] = rate_map[d]
  /\ proc'[d] = proc[d] /\ answer'[d] = answer[d]
  /\ scope'[d] = scope[d] /\ reply'[d] = reply[d] /\ job'[d] = job[d]

\* What the helpers of the handler do to c, and that they do nothing to d.
LEMMA IoToAt ==
  ASSUME NEW c \in Conns, NEW st, NEW op, NEW timed, NEW l, Types, IoTo(c, st, op, timed, l)
  PROVE  /\ pc'[c] = l /\ wake'[c] \in {"none", "refused"}
         /\ \A d \in Conns \ {c} : pc'[d] = pc[d] /\ wake'[d] = wake[d]
BY DEF IoTo, Types, WaitTypes

\* The same for the start of shutdown_msg_stream.
LEMMA ShutToAt ==
  ASSUME NEW c \in Conns, NEW st, NEW l, Types, ShutTo(c, st, l)
  PROVE  /\ pc'[c] = l /\ wake'[c] \in {"none", "refused"}
         /\ \A d \in Conns \ {c} : pc'[d] = pc[d] /\ wake'[d] = wake[d]
<1>1. CASE peer[c] = "reset"
  BY <1>1 DEF ShutTo, Types, WaitTypes
<1>2. CASE peer[c] # "reset"
  BY Zenon, <1>2, IoToAt DEF ShutTo
<1> QED BY <1>1, <1>2

\* The same for the start of a wait.
LEMMA AwaitAt ==
  ASSUME NEW c \in Conns, NEW l, Types, Await(c, l)
  PROVE  /\ pc'[c] = l /\ wake'[c] = "none"
         /\ \A d \in Conns \ {c} : pc'[d] = pc[d] /\ wake'[d] = wake[d]
BY DEF Await, Types, WaitTypes

\* The same for the end of a task.
LEMMA EndTaskAt ==
  ASSUME NEW c \in Conns, Types, EndTask(c)
  PROVE  /\ pc'[c] = "ended" /\ wake'[c] = "none" /\ pidfd'[c] = "none"
         /\ \A d \in Conns \ {c} :
              /\ pc'[d] = pc[d] /\ wake'[d] = wake[d] /\ owned'[d] = owned[d]
              /\ pidfd'[d] = pidfd[d] /\ rate_map'[d] = rate_map[d]
BY DEF EndTask, Await, ClearLimit, Types, WaitTypes, OwnTypes

\* The same for the tail of the interrupt path.
LEMMA KillOrEndAt ==
  ASSUME NEW c \in Conns, NEW st, NEW watch, Types, KillOrEnd(c, st, watch)
  PROVE  /\ \/ /\ "scope" \in owned[c] /\ pc'[c] = "ikill" /\ pidfd'[c] = watch
               /\ UNCHANGED <<owned, rate_map>>
            \/ "scope" \notin owned[c] /\ pc'[c] = "ended" /\ pidfd'[c] = "none"
         /\ wake'[c] = "none"
         /\ \A d \in Conns \ {c} :
              /\ pc'[d] = pc[d] /\ wake'[d] = wake[d] /\ owned'[d] = owned[d]
              /\ pidfd'[d] = pidfd[d] /\ rate_map'[d] = rate_map[d]
<1>1. CASE "scope" \in owned[c]
  BY ZenonT(60), <1>1, AwaitAt DEF KillOrEnd, KillTo, Types, OwnTypes
<1>2. CASE "scope" \notin owned[c]
  BY <1>2, EndTaskAt DEF KillOrEnd
<1> QED BY Zenon, <1>1, <1>2

\* A step of session c leaves the others alone.
LEMMA RunLocal ==
  ASSUME NEW c \in Conns, Types, Run(c) \/ Accept(c) \/ DispatchTask(c),
         NEW d \in Conns, d # c
  PROVE  SameAt(d)
<1> USE DEF mainVars, dataVars, clientVars, busVars, taskVars
<1>1. CASE Accept(c)
  BY <1>1, SMTT(30), ZenonT(60)
     DEF Accept, Wake, Types, WaitTypes, OwnTypes, OtherTypes, ClientTypes, BusTypes, SameAt
<1>2. CASE DispatchRead(c)
  BY <1>2, SMTT(30), ZenonT(60)
     DEF DispatchRead, SetStreamEvent, Wake, Types, WaitTypes, OwnTypes, OtherTypes, ClientTypes, BusTypes, SameAt
<1>3. CASE DispatchWrite(c)
  BY <1>3, SMTT(30), ZenonT(60)
     DEF DispatchWrite, SetStreamEvent, Wake, Types, WaitTypes, OwnTypes, OtherTypes, ClientTypes, BusTypes, SameAt
<1>4. CASE DispatchHangup(c)
  BY <1>4, SMTT(30), ZenonT(60)
     DEF DispatchHangup, InterruptTask, SetStreamEvent, Wake, Types, WaitTypes, OwnTypes, OtherTypes, ClientTypes, BusTypes, SameAt
<1>5. CASE DispatchIoTimer(c)
  BY <1>5, SMTT(30), ZenonT(60)
     DEF DispatchIoTimer, SetStreamEvent, Wake, Types, WaitTypes, OwnTypes, OtherTypes, ClientTypes, BusTypes, SameAt
<1>6. CASE DispatchPidfd(c)
  BY <1>6, SMTT(30), ZenonT(60)
     DEF DispatchPidfd, InterruptTask, Wake, Types, WaitTypes, OwnTypes, OtherTypes, ClientTypes, BusTypes, SameAt
<1>7. CASE DispatchQuery(c)
  BY <1>7, SMTT(30), ZenonT(60)
     DEF DispatchQuery, Wake, Types, WaitTypes, OwnTypes, OtherTypes, ClientTypes, BusTypes, SameAt
<1>8. CASE DispatchReply(c)
  BY <1>8, SMTT(30), ZenonT(60)
     DEF DispatchReply, Wake, Types, WaitTypes, OwnTypes, OtherTypes, ClientTypes, BusTypes, SameAt
<1>9. CASE DispatchJobRemoved(c)
  BY <1>9, SMTT(30), ZenonT(60)
     DEF DispatchJobRemoved, Wake, Types, WaitTypes, OwnTypes, OtherTypes, ClientTypes, BusTypes, SameAt
<1>10. CASE DispatchEnd(c)
  BY <1>10, SMTT(30), ZenonT(60)
     DEF DispatchEnd, Types, WaitTypes, OwnTypes, OtherTypes, ClientTypes, BusTypes, SameAt
<1>11. CASE RunStart(c)
  <2>1. pc'[d] = pc[d] /\ wake'[d] = wake[d]
    BY ZenonT(60), <1>11, EndTaskAt, AwaitAt, IoToAt DEF RunStart
  <2>2. owned'[d] = owned[d] /\ pidfd'[d] = pidfd[d] /\ rate_map'[d] = rate_map[d]
    BY <1>11, EndTaskAt, ZenonT(60) DEF RunStart, Types, OwnTypes
  <2> QED BY Zenon, <1>11, <2>1, <2>2 DEF RunStart, SameAt
<1>12. CASE RunQuery(c)
  BY <1>12, AwaitAt, ZenonT(60)
     DEF RunQuery, Types, WaitTypes, OwnTypes, OtherTypes, ClientTypes, BusTypes, SameAt
<1>13. CASE RunSelfUnit(c)
  BY <1>13, AwaitAt, ZenonT(60)
     DEF RunSelfUnit, Types, WaitTypes, OwnTypes, OtherTypes, ClientTypes, BusTypes, SameAt
<1>14. CASE RunOrigCgroup(c)
  BY Zenon, <1>14, AwaitAt, IoToAt
     DEF RunOrigCgroup, Types, WaitTypes, OwnTypes, OtherTypes, ClientTypes, BusTypes, SameAt
<1>15. CASE RunMatch(c)
  <2>1. pc'[d] = pc[d] /\ wake'[d] = wake[d]
    BY <1>15, AwaitAt DEF RunMatch
  <2>2. scope'[d] = scope[d]
    BY <1>15 DEF RunMatch, Types, BusTypes
  <2> QED BY Zenon, <1>15, <2>1, <2>2 DEF RunMatch, SameAt
<1>16. CASE RunGetUnit(c)
  <2>1. pc'[d] = pc[d] /\ wake'[d] = wake[d]
    BY Zenon, <1>16, AwaitAt, IoToAt DEF RunGetUnit, ErrClose
  <2>2. owned'[d] = owned[d] /\ pidfd'[d] = pidfd[d] /\ rate_map'[d] = rate_map[d]
    BY Zenon, <1>16 DEF RunGetUnit, StoreLimit, Types, OwnTypes
  <2> QED BY Zenon, <1>16, <2>1, <2>2 DEF RunGetUnit, SameAt
<1>17. CASE RunCgroup(c)
  <2>1. pc'[d] = pc[d] /\ wake'[d] = wake[d]
    BY Zenon, <1>17, IoToAt DEF RunCgroup, ErrClose
  <2>2. owned'[d] = owned[d] /\ pidfd'[d] = pidfd[d] /\ rate_map'[d] = rate_map[d]
    BY Zenon, <1>17 DEF RunCgroup, StoreLimit, Types, OwnTypes
  <2> QED BY Zenon, <1>17, <2>1, <2>2 DEF RunCgroup, SameAt
<1>18. CASE RunRead(c)
  <2>1. pc'[d] = pc[d] /\ wake'[d] = wake[d]
    BY Zenon, <1>18, IoToAt DEF RunRead, StoreLimit, ErrClose
  <2>2. owned'[d] = owned[d] /\ pidfd'[d] = pidfd[d] /\ rate_map'[d] = rate_map[d]
    BY Zenon, <1>18 DEF RunRead, StoreLimit, Types, OwnTypes
  <2> QED BY Zenon, <1>18, <2>1, <2>2 DEF RunRead, SameAt
<1>19. CASE RunLogged(c)
  BY <1>19, IoToAt, ZenonT(60)
     DEF RunLogged, Types, WaitTypes, OwnTypes, OtherTypes, ClientTypes, BusTypes, SameAt
<1>20. CASE RunVerdict(c)
  BY <1>20, ShutToAt, ZenonT(60)
     DEF RunVerdict, Types, WaitTypes, OwnTypes, OtherTypes, ClientTypes, BusTypes, SameAt
<1>21. CASE RunRefused(c)
  <2>1. /\ pc'[d] = pc[d] /\ wake'[d] = wake[d] /\ owned'[d] = owned[d]
        /\ pidfd'[d] = pidfd[d] /\ rate_map'[d] = rate_map[d]
    BY Zenon, <1>21, EndTaskAt DEF RunRefused
  <2> QED BY Zenon, <1>21, <2>1 DEF RunRefused, SameAt
<1>22. CASE RunGranted(c)
  <2>1. pc'[d] = pc[d] /\ wake'[d] = wake[d]
    BY Zenon, <1>22, AwaitAt DEF RunGranted, KillTo
  <2>2. pidfd'[d] = pidfd[d]
    BY <1>22 DEF RunGranted, Types, OwnTypes
  <2> QED BY Zenon, <1>22, <2>1, <2>2 DEF RunGranted, KillTo, SameAt
<1>23. CASE RunExited(c)
  BY <1>23, AwaitAt, ZenonT(60)
     DEF RunExited, KillTo, Types, WaitTypes, OwnTypes, OtherTypes, ClientTypes, BusTypes, SameAt
<1>24. CASE RunKilled(c)
  <2>1. /\ pc'[d] = pc[d] /\ wake'[d] = wake[d] /\ owned'[d] = owned[d]
        /\ pidfd'[d] = pidfd[d] /\ rate_map'[d] = rate_map[d]
    BY Zenon, <1>24, EndTaskAt DEF RunKilled
  <2>2. reply'[d] = reply[d]
    BY <1>24 DEF RunKilled, Types, BusTypes
  <2> QED BY Zenon, <1>24, <2>1, <2>2 DEF RunKilled, SameAt
<1>25. CASE RunBusError(c)
  <2>1. pc'[d] = pc[d] /\ wake'[d] = wake[d]
    BY Zenon, <1>25, IoToAt DEF RunBusError, ErrClose
  <2> QED BY Zenon, <1>25, <2>1 DEF RunBusError, SameAt, Types, BusTypes
<1>26. CASE RunInterrupted(c)
  <2>1. /\ pc'[d] = pc[d] /\ wake'[d] = wake[d]
        /\ owned'[d] = owned[d] /\ pidfd'[d] = pidfd[d] /\ rate_map'[d] = rate_map[d]
    <3>1. CASE TellClient(c)
      BY Zenon, <1>26, <3>1, IoToAt DEF RunInterrupted
    <3>2. CASE ~TellClient(c)
      BY ZenonT(60), <1>26, <3>2, KillOrEndAt DEF RunInterrupted
    <3> QED BY Zenon, <3>1, <3>2
  <2> QED BY Zenon, <1>26, <2>1 DEF RunInterrupted, SameAt, Types, OtherTypes, BusTypes
<1>27. CASE RunInterruptTold(c)
  <2>1. /\ pc'[d] = pc[d] /\ wake'[d] = wake[d]
        /\ owned'[d] = owned[d] /\ pidfd'[d] = pidfd[d] /\ rate_map'[d] = rate_map[d]
    BY ZenonT(60), <1>27, KillOrEndAt DEF RunInterruptTold
  <2> QED BY Zenon, <1>27, <2>1 DEF RunInterruptTold, SameAt, Types, OtherTypes, BusTypes
<1>28. CASE RunClosed(c)
  BY <1>28, SMTT(30), ZenonT(60)
     DEF RunClosed, Types, WaitTypes, OwnTypes, OtherTypes, ClientTypes, BusTypes, SameAt
<1> QED BY <1>1, <1>2, <1>3, <1>4, <1>5, <1>6, <1>7, <1>8, <1>9, <1>10, <1>11, <1>12,
           <1>13, <1>14, <1>15, <1>16, <1>17, <1>18, <1>19, <1>20, <1>21, <1>22, <1>23, <1>24,
           <1>25, <1>26, <1>27, <1>28 DEF Run, DispatchTask

\* It leaves their streams and their Kill requests alone too.
LEMMA RunLocalStream ==
  ASSUME NEW c \in Conns, Types, Run(c) \/ Accept(c) \/ DispatchTask(c),
         NEW d \in Conns, d # c
  PROVE  strm'[d] = strm[d] /\ kill_req'[d] = kill_req[d]
<1> USE DEF mainVars, dataVars, clientVars, busVars, taskVars
<1>0. DOMAIN strm = Conns /\ DOMAIN kill_req = Conns
  BY DEF Types, WaitTypes, BusTypes
<1>1. ASSUME NEW st, NEW op, NEW timed, NEW l, IoTo(c, st, op, timed, l) PROVE strm'[d] = strm[d]
  BY <1>0, <1>1 DEF IoTo
<1>2. ASSUME NEW st, NEW l, ShutTo(c, st, l) PROVE strm'[d] = strm[d]
  BY Zenon, <1>0, <1>1, <1>2 DEF ShutTo
<1>3. ASSUME EndTask(c) PROVE strm'[d] = strm[d]
  BY <1>0, <1>3 DEF EndTask
<1>4. ASSUME NEW l, KillTo(c, l) PROVE kill_req'[d] = kill_req[d]
  BY <1>0, <1>4 DEF KillTo
<1>5. ASSUME NEW st, NEW watch, KillOrEnd(c, st, watch) PROVE strm'[d] = strm[d] /\ kill_req'[d] = kill_req[d]
  BY <1>0, <1>3, <1>4, <1>5 DEF KillOrEnd
<1>6. CASE Accept(c) \/ DispatchTask(c)
  BY Zenon, <1>0, <1>6 DEF Accept, DispatchTask, DispatchRead, DispatchWrite, DispatchHangup, DispatchIoTimer,
     DispatchPidfd, DispatchQuery, DispatchReply, DispatchJobRemoved, DispatchEnd
<1>7. CASE RunStart(c)
  BY Zenon, <1>0, <1>1, <1>3, <1>7 DEF RunStart
<1>8. CASE RunQuery(c) \/ RunSelfUnit(c) \/ RunMatch(c) \/ RunExited(c) \/ RunClosed(c)
  BY Zenon, <1>4, <1>8 DEF RunQuery, RunSelfUnit, RunMatch, RunExited, RunClosed
<1>9. CASE RunOrigCgroup(c) \/ RunGetUnit(c) \/ RunCgroup(c) \/ RunRead(c) \/ RunLogged(c) \/ RunBusError(c)
  BY Zenon, <1>1, <1>9 DEF RunOrigCgroup, RunGetUnit, RunCgroup, RunRead, RunLogged, RunBusError, ErrClose
<1>10. CASE RunVerdict(c)
  BY Zenon, <1>2, <1>10 DEF RunVerdict
<1>11. CASE RunRefused(c) \/ RunKilled(c)
  BY Zenon, <1>3, <1>11 DEF RunRefused, RunKilled
<1>12. CASE RunGranted(c)
  BY <1>0, <1>4, <1>12 DEF RunGranted
<1>13. CASE RunInterrupted(c)
  BY Zenon, <1>1, <1>5, <1>13 DEF RunInterrupted
<1>14. CASE RunInterruptTold(c)
  BY Zenon, <1>5, <1>14 DEF RunInterruptTold
<1> QED BY Zenon, <1>6, <1>7, <1>8, <1>9, <1>10, <1>11, <1>12, <1>13, <1>14 DEF Run

-----------------------------------------------------------------------------
(* What a session has registered, and its map entry.                       *)

\* What a session has registered with se_task_register_memory_to_free, by where
\* it is.  An entry of the map belongs to a session that will delete it (unless
\* deletions may fail).
Owns(c) ==
  /\ pc[c] \in {"idle", "start", "ended", "freed"} => owned[c] = {}
  /\ pc[c] \in BusLabels => "nr_task" \in owned[c]
  /\ pc[c] = "read" => "limit" \in owned[c]
  /\ "limit" \in owned[c] => "nr_task" \in owned[c]
  /\ "bpf" \notin Faults /\ rate_map[c] # "none" => "limit" \in owned[c]

OwnInv == Types /\ \A c \in Conns : Owns(c)

\* A step that registers and frees nothing, and moves one session at most.
LEMMA MoveOwns ==
  ASSUME NEW c \in Conns, OwnInv, Types', UNCHANGED <<owned, rate_map>>,
         NEW l \in Labels \ {"idle", "start", "ended", "freed", "read"},
         l \in BusLabels => "nr_task" \in owned[c],
         pc' = [pc EXCEPT ![c] = l]
  PROVE  OwnInv'
<1>1. ASSUME NEW d \in Conns PROVE Owns(d)'
  BY DEF OwnInv, Owns, Types, WaitTypes
<1> QED BY <1>1 DEF OwnInv

\* A session whose label, resources and map entry stay as they are.
LEMMA SameOwns ==
  ASSUME NEW d \in Conns, Owns(d),
         pc'[d] = pc[d], owned'[d] = owned[d], rate_map'[d] = rate_map[d]
  PROVE  Owns(d)'
BY Zenon DEF Owns

\* A step that does not touch the handler's state.
LEMMA KeepOwns ==
  ASSUME OwnInv, Types', UNCHANGED <<pc, owned, rate_map>>
  PROVE  OwnInv'
BY DEF OwnInv, Owns

\* The end of a task leaves it nothing, and no entry in the map.
LEMMA EndTaskOwns ==
  ASSUME NEW c \in Conns, OwnInv, Types', EndTask(c)
  PROVE  OwnInv'
<1> USE DEF OwnInv, Types, WaitTypes, OwnTypes
<1>1. ASSUME NEW d \in Conns PROVE Owns(d)'
  <2>1. CASE d = c
    <3>1. pc'[c] = "ended" /\ owned'[c] = {}
      <4>1. owned'[c] = {}
        BY DEF EndTask
      <4> QED BY <4>1, EndTaskAt
    <3>2. "bpf" \notin Faults => rate_map'[c] = "none"
      BY DEF EndTask, ClearLimit, Owns
    <3>3. "ended" \notin BusLabels
      BY DEF BusLabels, QueryLabels
    <3> QED BY <2>1, <3>1, <3>2, <3>3 DEF Owns
  <2>2. CASE d # c
    <3>1. pc'[d] = pc[d] /\ owned'[d] = owned[d] /\ rate_map'[d] = rate_map[d]
      <4> HIDE DEF OwnInv, Types, WaitTypes, OwnTypes
      <4>1. Types
        BY DEF OwnInv
      <4> QED BY <2>2, <4>1, EndTaskAt
    <3> QED BY <3>1, SameOwns
  <2> QED BY <2>1, <2>2
<1> QED BY <1>1

\* Labels a session can move to without registering anything.
LEMMA MoveLabels ==
  /\ (LogLabels \cup VerdictLabels \cup ShutLabels \cup KillLabels \cup BusLabels \cup {"wait_exit"})
       \subseteq Labels \ {"idle", "start", "ended", "freed", "read"}
  /\ (LogLabels \cup VerdictLabels \cup ShutLabels \cup KillLabels \cup {"wait_exit"})
       \cap BusLabels = {}
  /\ \A l \in DOMAIN NextQuery : l \in BusLabels /\ NextQuery[l] \in BusLabels
  /\ \A l \in LogLabels \cup VerdictLabels :
       NextIo[l] \in LogLabels \cup VerdictLabels \cup ShutLabels
<1>1. /\ (LogLabels \cup VerdictLabels \cup ShutLabels \cup KillLabels \cup BusLabels \cup {"wait_exit"})
           \subseteq Labels \ {"idle", "start", "ended", "freed", "read"}
      /\ (LogLabels \cup VerdictLabels \cup ShutLabels \cup KillLabels \cup {"wait_exit"})
           \cap BusLabels = {}
  BY DEF Labels, BusLabels, QueryLabels, KillLabels, IoLabels, LogLabels, VerdictLabels, ShutLabels
<1>2. \A l \in DOMAIN NextQuery : l \in BusLabels /\ NextQuery[l] \in BusLabels
  BY DEF BusLabels, QueryLabels, NextQuery
<1>3. \A l \in LogLabels \cup VerdictLabels : NextIo[l] \in LogLabels \cup VerdictLabels \cup ShutLabels
  <2>1. \A l \in LogLabels : NextIo[l] \in LogLabels \cup VerdictLabels \cup ShutLabels
    BY DEF LogLabels, VerdictLabels, ShutLabels, NextIo
  <2>2. \A l \in VerdictLabels : NextIo[l] \in LogLabels \cup VerdictLabels \cup ShutLabels
    BY DEF LogLabels, VerdictLabels, ShutLabels, NextIo
  <2> QED BY <2>1, <2>2
<1> QED BY <1>1, <1>2, <1>3

\* The tail of the interrupt path waits for Kill, or ends the task.
LEMMA KillOrEndOwns ==
  ASSUME NEW c \in Conns, NEW st, NEW watch, OwnInv, Types', KillOrEnd(c, st, watch)
  PROVE  OwnInv'
<1>1. CASE "scope" \in owned[c]
  BY <1>1, MoveOwns, MoveLabels DEF KillOrEnd, KillTo, Await, KillLabels
<1>2. CASE "scope" \notin owned[c]
  BY Zenon, <1>2, EndTaskOwns DEF KillOrEnd
<1> QED BY <1>1, <1>2

\* Every stretch of the handler keeps what is registered and the map in step.
LEMMA RunOwns ==
  ASSUME NEW c \in Conns, OwnInv, Run(c)
  PROVE  OwnInv'
<1> USE DEF mainVars, dataVars, clientVars, busVars, taskVars
<1>0. Types /\ Types' /\ Owns(c)
  BY RunTypes DEF OwnInv
<1>1. ASSUME RunStart(c) PROVE OwnInv'
  <2>1. CASE EndTask(c)
    BY <1>0, <2>1, EndTaskOwns
  <2>2. CASE ~EndTask(c) /\ ~SlotFree
    <3>1. /\ owned' = [owned EXCEPT ![c] = {"stream"}]
          /\ pc' = [pc EXCEPT ![c] = "rfail"]
          /\ UNCHANGED rate_map
          /\ owned[c] = {}
      BY Zenon, <1>0, <1>1, <2>2 DEF RunStart, IoTo, Runs, Owns
    <3>2. ASSUME NEW d \in Conns PROVE Owns(d)'
      BY ZenonT(60), <1>0, <3>1 DEF Owns, OwnInv, BusLabels, QueryLabels, Types, OwnTypes, WaitTypes
    <3> QED BY <1>0, <3>2 DEF OwnInv
  <2>3. CASE ~EndTask(c) /\ SlotFree
    <3>1. /\ owned' = [owned EXCEPT ![c] = {"stream", "nr_task"}]
          /\ UNCHANGED rate_map
          /\ owned[c] = {}
      BY Zenon, <1>0, <1>1, <2>3 DEF RunStart, Runs, Owns, SlotFree
    <3>2. PICK l \in {"self_unit", "orig_unit"} : pc' = [pc EXCEPT ![c] = l]
      BY Zenon, <1>0, <1>1, <2>3 DEF RunStart, Await
    <3>3. ASSUME NEW d \in Conns PROVE Owns(d)'
      BY ZenonT(60), <1>0, <3>1, <3>2 DEF Owns, OwnInv, BusLabels, QueryLabels, Types, OwnTypes, WaitTypes
    <3> QED BY <1>0, <3>3 DEF OwnInv
  <2> QED BY <2>1, <2>2, <2>3
<1>2. ASSUME RunQuery(c) PROVE OwnInv'
  BY Zenon, <1>0, <1>2, MoveOwns, MoveLabels DEF RunQuery, RunsOk, Runs, Await, Owns
<1>3. ASSUME RunSelfUnit(c) PROVE OwnInv'
  BY Zenon, <1>0, <1>3, MoveOwns, MoveLabels DEF RunSelfUnit, RunsOk, Runs, Await, Owns, BusLabels, QueryLabels
<1>4. ASSUME RunOrigCgroup(c) PROVE OwnInv'
  <2>1. pc[c] \in BusLabels
    BY Zenon, <1>4 DEF RunOrigCgroup, RunsOk, Runs, BusLabels, QueryLabels
  <2>2. PICK l \in {"rlog", "s_slice"} : pc' = [pc EXCEPT ![c] = l]
    BY Zenon, <1>4 DEF RunOrigCgroup, IoTo, Await
  <2>3. l \in Labels \ {"idle", "start", "ended", "freed", "read"}
    BY MoveLabels DEF LogLabels, BusLabels, QueryLabels
  <2> QED BY Zenon, <1>0, <1>4, <2>1, <2>2, <2>3, MoveOwns DEF RunOrigCgroup, Owns
<1>5. ASSUME RunMatch(c) PROVE OwnInv'
  BY Zenon, <1>0, <1>5, MoveOwns, MoveLabels DEF RunMatch, RunsOk, Runs, Await, Owns, BusLabels, QueryLabels
<1>6. ASSUME RunGetUnit(c) PROVE OwnInv'
  <2>1. pc[c] \in BusLabels /\ "nr_task" \in owned[c]
    BY Zenon, <1>0, <1>6 DEF RunGetUnit, RunsOk, Runs, BusLabels, QueryLabels, Owns
  <2>2. PICK l \in {"elog", "cg_path"} : pc' = [pc EXCEPT ![c] = l]
    BY Zenon, <1>6 DEF RunGetUnit, ErrClose, IoTo, Await
  <2>3. PICK more \in {{"scope"}, {"scope", "pidfd"}} : owned' = [owned EXCEPT ![c] = @ \cup more]
    BY Zenon, <1>6 DEF RunGetUnit
  <2>4. UNCHANGED rate_map
    BY Zenon, <1>6 DEF RunGetUnit
  <2>5. ASSUME NEW d \in Conns PROVE Owns(d)'
    <3>1. Owns(d)
      BY DEF OwnInv
    <3>2. CASE d # c
      BY ZenonT(60), <1>0, <2>2, <2>3, <2>4, <3>1, <3>2, SameOwns DEF Types, OwnTypes, WaitTypes
    <3>3. CASE d = c
      <4>1. pc'[c] = l /\ owned'[c] = owned[c] \cup more /\ rate_map'[c] = rate_map[c]
        BY ZenonT(60), <1>0, <2>2, <2>3, <2>4 DEF Types, OwnTypes, WaitTypes
      <4> QED BY <1>0, <2>1, <2>3, <3>3, <4>1 DEF Owns, BusLabels, QueryLabels, LogLabels
    <3> QED BY <3>2, <3>3
  <2> QED BY <1>0, <2>5 DEF OwnInv
<1>7. ASSUME RunCgroup(c) PROVE OwnInv'
  <2>1. pc[c] \in BusLabels /\ "nr_task" \in owned[c]
    BY Zenon, <1>0, <1>7 DEF RunCgroup, RunsOk, Runs, BusLabels, QueryLabels, Owns
  <2>2. CASE owned' = [owned EXCEPT ![c] = @ \cup {"limit"}] /\ pc' = [pc EXCEPT ![c] = "read"]
               /\ rate_map' = [rate_map EXCEPT ![c] = "block"]
    <3>1. ASSUME NEW d \in Conns PROVE Owns(d)'
      <4>1. Owns(d)
        BY DEF OwnInv
      <4>2. CASE d # c
        BY ZenonT(60), <1>0, <2>2, <4>1, <4>2, SameOwns DEF Types, OwnTypes, WaitTypes
      <4>3. CASE d = c
        <5>1. pc'[c] = "read" /\ owned'[c] = owned[c] \cup {"limit"}
          BY <1>0, <2>2 DEF Types, OwnTypes, WaitTypes
        <5> QED BY <1>0, <2>1, <4>3, <5>1 DEF Owns, BusLabels, QueryLabels, LogLabels
      <4> QED BY <4>2, <4>3
    <3> QED BY <1>0, <3>1 DEF OwnInv
  <2>3. CASE ErrClose(c, strm[c]) /\ UNCHANGED <<rate_map, owned>>
    BY Zenon, <1>0, <1>7, <2>3, MoveOwns, MoveLabels DEF RunCgroup, ErrClose, IoTo, LogLabels
  <2> QED BY Zenon, <1>7, <2>2, <2>3 DEF RunCgroup, IoTo
<1>8. ASSUME RunRead(c) PROVE OwnInv'
  <2>1. "limit" \in owned[c]
    BY Zenon, <1>0, <1>8 DEF RunRead, Runs, Owns
  <2>2. PICK l \in LogLabels : pc' = [pc EXCEPT ![c] = l]
    BY Zenon, <1>8 DEF RunRead, ErrClose, IoTo, LogLabels
  <2>3. /\ UNCHANGED owned
        /\ rate_map' = [rate_map EXCEPT ![c] = "limit"] \/ UNCHANGED rate_map
    BY Zenon, <1>8 DEF RunRead, StoreLimit
  <2>4. ASSUME NEW d \in Conns PROVE Owns(d)'
    <3>1. Owns(d)
      BY DEF OwnInv
    <3>2. CASE d # c
      BY <1>0, <2>2, <2>3, <3>1, <3>2, SameOwns, SMTT(30), ZenonT(60) DEF Types, OwnTypes, WaitTypes
    <3>3. CASE d = c
      <4>1. pc'[c] = l /\ owned'[c] = owned[c]
        BY <1>0, <2>2, <2>3 DEF Types, OwnTypes, WaitTypes
      <4> QED BY <1>0, <2>1, <3>3, <4>1 DEF Owns, BusLabels, QueryLabels, LogLabels
    <3> QED BY <3>2, <3>3
  <2> QED BY <1>0, <2>4 DEF OwnInv
<1>9. ASSUME RunLogged(c) PROVE OwnInv'
  BY Zenon, <1>0, <1>9, MoveOwns, MoveLabels DEF RunLogged, Runs, IoTo
<1>10. ASSUME RunVerdict(c) PROVE OwnInv'
  BY Zenon, <1>0, <1>10, MoveOwns, MoveLabels DEF RunVerdict, Runs, ShutTo, IoTo
<1>11. ASSUME RunRefused(c) PROVE OwnInv'
  BY <1>0, <1>11, EndTaskOwns DEF RunRefused
<1>12. ASSUME RunGranted(c) PROVE OwnInv'
  <2>1. PICK l \in {"kill", "wait_exit"} : pc' = [pc EXCEPT ![c] = l]
    BY <1>12 DEF RunGranted, KillTo, Await
  <2> QED BY Zenon, <1>0, <1>12, <2>1, MoveOwns, MoveLabels DEF RunGranted, KillLabels
<1>13. ASSUME RunExited(c) PROVE OwnInv'
  BY Zenon, <1>0, <1>13, MoveOwns, MoveLabels DEF RunExited, KillTo, Await, KillLabels
<1>14. ASSUME RunKilled(c) PROVE OwnInv'
  BY <1>0, <1>14, EndTaskOwns DEF RunKilled
<1>15. ASSUME RunBusError(c) PROVE OwnInv'
  BY Zenon, <1>0, <1>15, MoveOwns, MoveLabels DEF RunBusError, ErrClose, IoTo, LogLabels
<1>16. ASSUME RunInterrupted(c) PROVE OwnInv'
  <2>1. CASE TellClient(c)
    BY Zenon, <1>0, <1>16, <2>1, MoveOwns, MoveLabels DEF RunInterrupted, IoTo, VerdictLabels
  <2>2. CASE ~TellClient(c)
    BY Zenon, <1>0, <1>16, <2>2, KillOrEndOwns DEF RunInterrupted
  <2> QED BY <2>1, <2>2
<1>17. ASSUME RunInterruptTold(c) PROVE OwnInv'
  BY <1>0, <1>17, KillOrEndOwns DEF RunInterruptTold
<1>18. ASSUME RunClosed(c) PROVE OwnInv'
  BY <1>0, <1>18, KeepOwns DEF RunClosed
<1> QED BY <1>1, <1>2, <1>3, <1>4, <1>5, <1>6, <1>7, <1>8, <1>9, <1>10, <1>11, <1>12,
           <1>13, <1>14, <1>15, <1>16, <1>17, <1>18 DEF Run

\* No session has anything when the daemon starts.
LEMMA OwnsInit == Init => OwnInv
<1> SUFFICES ASSUME Init PROVE OwnInv
  OBVIOUS
<1>1. Types
  <2>1. WaitTypes
    BY StreamOps, LabelFacts DEF Init, WaitTypes
  <2>2. OwnTypes
    BY DEF Init, OwnTypes
  <2>3. MainTypes /\ OtherTypes
    BY Zenon DEF Init, MainTypes, OtherTypes
  <2>4. ClientTypes
    BY DEF Init, ClientTypes
  <2>5. BusTypes
    BY DEF Init, BusTypes
  <2> QED BY <2>1, <2>2, <2>3, <2>4, <2>5 DEF Types
<1>2. \A c \in Conns : Owns(c)
  BY DEF Init, Owns, BusLabels, QueryLabels
<1> QED BY <1>1, <1>2 DEF OwnInv

\* Every step of the daemon and its environment keeps OwnInv.
LEMMA OwnsNext == OwnInv /\ [Next]_vars => OwnInv'
<1> SUFFICES ASSUME OwnInv, [Next]_vars PROVE OwnInv'
  OBVIOUS
<1> USE DEF mainVars, dataVars, clientVars, busVars, taskVars
<1>0. Types
  BY DEF OwnInv
<1>1. ASSUME NEW c \in Conns, Run(c) PROVE OwnInv'
  BY <1>1, RunOwns
<1>2. ASSUME NEW c \in Conns, Accept(c) PROVE OwnInv'
  <2>1. Types'
    BY <1>0, <1>2, DispatchTypes
  <2>2. ASSUME NEW d \in Conns PROVE Owns(d)'
    BY Zenon, <1>0, <1>2 DEF Accept, Owns, OwnInv, Types, WaitTypes, BusLabels, QueryLabels
  <2> QED BY <2>1, <2>2 DEF OwnInv
<1>3. ASSUME NEW c \in Conns, DispatchEnd(c) PROVE OwnInv'
  <2>1. Types'
    BY <1>0, <1>3, DispatchTypes DEF DispatchTask
  <2>2. ASSUME NEW d \in Conns PROVE Owns(d)'
    BY Zenon, <1>0, <1>3 DEF DispatchEnd, Owns, OwnInv, Types, WaitTypes, BusLabels, QueryLabels
  <2> QED BY <2>1, <2>2 DEF OwnInv
<1>4. ASSUME NEW c \in Conns, DispatchTask(c), ~DispatchEnd(c) PROVE OwnInv'
  <2>1. UNCHANGED <<pc, owned, rate_map>>
    BY Zenon, <1>4 DEF DispatchTask, DispatchRead, DispatchWrite, DispatchHangup, DispatchIoTimer,
                DispatchPidfd, DispatchQuery, DispatchReply, DispatchJobRemoved
  <2> QED BY <1>0, <1>4, <2>1, DispatchTypes, KeepOwns
<1>5. ASSUME NEW c \in Conns, Environment(c) PROVE OwnInv'
  <2>1. UNCHANGED <<pc, owned, rate_map>>
    BY Zenon, <1>5 DEF Environment, Connect, Proceed, GiveUp, Die, SystemdStart, SystemdJob, SystemdKill
  <2> QED BY <1>0, <1>5, <2>1, EnvironmentTypes, KeepOwns
<1>6. ASSUME DispatchOther \/ DispatchSignal \/ DispatchSleepTimer \/ Finish \/ Over
      PROVE  OwnInv'
  <2>1. UNCHANGED <<pc, owned, rate_map>>
    BY Zenon, <1>6 DEF DispatchOther, DispatchSignal, DispatchSleepTimer, Finish, Over, vars
  <2> QED BY <1>0, <1>6, <2>1, LoopTypes, KeepOwns
<1>7. CASE UNCHANGED vars
  BY ZenonT(60), <1>7, KeepOwns DEF vars, OwnInv, Types, WaitTypes, OwnTypes, MainTypes, OtherTypes,
                         ClientTypes, BusTypes
<1> QED BY <1>1, <1>2, <1>3, <1>4, <1>5, <1>6, <1>7 DEF Next

\* The invariant holds throughout.
LEMMA OwnsHold == Spec => []OwnInv
BY OwnsInit, OwnsNext, PTL DEF Spec


-----------------------------------------------------------------------------
(* What a suspended session waits for.                                     *)

\* A stream whose source exists and which is not closed has the source enabled,
\* and so has one with a timeout armed.
Sane(st) ==
  /\ st.source /\ ~IoRefused(st) => st.enabled
  /\ st.timer => st.enabled

\* The stream of a session, by where the session is: it has its source as long as
\* I/O may be started on it, and while an I/O waits the source is enabled for it.
Flows(c) ==
  /\ Sane(strm[c])
  /\ pc[c] \in BusLabels \cup IoLabels => strm[c].source
  /\ pc[c] \in IoLabels /\ wake[c] \in {"none", "cancel"} =>
       /\ strm[c].enabled /\ strm[c].state \in {"READ", "WRITE"}
       /\ strm[c].events = IF strm[c].state = "READ" THEN "IN" ELSE "OUT"

\* What will wake a session that waits for systemd or for its process.  The reply
\* to StartTransientUnit comes once, and before JobRemoved.
Answers(c) ==
  /\ reply[c] # "none" => pc[c] \in KillLabels \cup {"s_start"}
  /\ pc[c] = "s_start" =>
       /\ wake[c] \in {"ok", "err"} => reply[c] = "none"
       /\ wake[c] \in {"ok", "err"} \/ reply[c] # "none" => scope[c] # "requested"
       /\ wake[c] = "none" => scope[c] = "requested" \/ reply[c] # "none"
       /\ wake[c] = "ok" \/ reply[c] = "ok" => scope[c] = "queued" \/ job[c] # "none"
  /\ pc[c] = "s_job" /\ wake[c] = "none" => scope[c] = "queued" \/ job[c] # "none"
  /\ pc[c] \in KillLabels /\ wake[c] = "none" => kill_req[c] \/ reply[c] # "none"
  /\ pc[c] = "wait_exit" /\ wake[c] = "none" => pidfd[c] = "waiting"
  /\ pidfd[c] = "waiting" => pc[c] = "wait_exit" /\ wake[c] # "ok"
  /\ pc[c] = "start" => wake[c] # "none"

WaitInv == \A c \in Conns : Flows(c) /\ Answers(c)

\* What the operations of a stream (se_libs.c:234-572) do to its source.
LEMMA SaneOps ==
  /\ Sane(NoStream) /\ Sane(init_msg_stream) /\ init_msg_stream.source
  /\ \A s \in Stream : Sane(s) =>
       /\ \A reg \in BOOLEAN : LET t == msg_stream_reg_interrupt(s, reg) IN Sane(t) /\ t.source = s.source
       /\ Sane(EndIo(s)) /\ EndIo(s).source = s.source
       /\ s.enabled => Sane(CancelIo(s)) /\ CancelIo(s).source = s.source
       /\ Sane(OnHangup(s, TRUE)) /\ OnHangup(s, TRUE).source = s.source
       /\ s.timer => Sane(io_timer_handler(s)) /\ io_timer_handler(s).source = s.source
       /\ Sane(Shut(s))
<1>1. Sane(NoStream) /\ Sane(init_msg_stream) /\ init_msg_stream.source
  BY DEF NoStream, init_msg_stream, Sane, IoRefused
<1>2. ASSUME NEW s \in Stream, Sane(s)
      PROVE  /\ \A reg \in BOOLEAN : LET t == msg_stream_reg_interrupt(s, reg) IN Sane(t) /\ t.source = s.source
             /\ Sane(EndIo(s)) /\ EndIo(s).source = s.source
             /\ s.enabled => Sane(CancelIo(s)) /\ CancelIo(s).source = s.source
  BY <1>2 DEF Stream, msg_stream_reg_interrupt, EndIo, CancelIo, Sane, IoRefused
<1>3. ASSUME NEW s \in Stream, Sane(s)
      PROVE  /\ Sane(OnHangup(s, TRUE)) /\ OnHangup(s, TRUE).source = s.source
             /\ s.timer => Sane(io_timer_handler(s)) /\ io_timer_handler(s).source = s.source
             /\ Sane(Shut(s))
  BY <1>3 DEF Stream, OnHangup, io_timer_handler, Shut, Sane, IoRefused
<1> QED BY Zenon, <1>1, <1>2, <1>3

\* The end of an I/O in the handler of the stream keeps the source as it is.
LEMMA SaneIo ==
  ASSUME NEW s \in Stream, s.enabled, NEW len \in IoLens
  PROVE  /\ Sane(OnIo(s, len)) /\ OnIo(s, len).source = s.source
         /\ Sane(OnIoError(s)) /\ OnIoError(s).source = s.source
BY DEF Stream, OnIo, OnIoError, IoLens, Sane, IoRefused

\* msg_stream_do_io on a stream with a source waits with that source enabled.
LEMMA IoFlows ==
  ASSUME NEW c \in Conns, WaitTypes, NEW st \in Stream, Sane(st), st.source,
         NEW op \in {"READ", "WRITE"}, NEW timed \in BOOLEAN, NEW l, IoTo(c, st, op, timed, l)
  PROVE  Flows(c)'
<1>1. CASE IoRefused(st)
  <2>1. strm'[c] = st /\ wake'[c] = "refused"
    BY <1>1 DEF IoTo, WaitTypes
  <2> QED BY Zenon, <2>1 DEF Flows, Sane, IoRefused
<1>2. CASE ~IoRefused(st)
  <2>1. strm'[c] = BeginIo(st, op, timed)
    BY <1>2 DEF IoTo, WaitTypes
  <2>2. st.enabled
    BY <1>2 DEF Sane
  <2>3. /\ BeginIo(st, op, timed).source /\ BeginIo(st, op, timed).enabled
        /\ BeginIo(st, op, timed).state = op
        /\ BeginIo(st, op, timed).events = IF op = "READ" THEN "IN" ELSE "OUT"
    BY <2>2 DEF BeginIo, Stream
  <2> QED BY Zenon, <2>1, <2>3 DEF Flows, Sane
<1> QED BY <1>1, <1>2

\* So does shutdown_msg_stream.
LEMMA ShutFlows ==
  ASSUME NEW c \in Conns, WaitTypes, NEW st \in Stream, Sane(st), st.source, NEW l, ShutTo(c, st, l)
  PROVE  Flows(c)'
<1>1. CASE peer[c] = "reset"
  <2>1. strm'[c] = st /\ wake'[c] = "refused"
    BY <1>1 DEF ShutTo, WaitTypes
  <2> QED BY <2>1 DEF Flows, Sane, IoRefused
<1>2. CASE peer[c] # "reset"
  BY Zenon, <1>2, IoFlows DEF ShutTo
<1> QED BY <1>1, <1>2

\* Outside I/O only the source matters, and only while I/O may follow.
LEMMA RestFlows ==
  ASSUME NEW c \in Conns, Sane(strm'[c]), pc'[c] \notin IoLabels,
         pc'[c] \in BusLabels => strm'[c].source
  PROVE  Flows(c)'
BY DEF Flows, Sane, IoRefused

\* The stream after an I/O can be used again.
LEMMA AfterFlows ==
  ASSUME NEW c \in Conns, WaitTypes, Flows(c), pc[c] \in IoLabels
  PROVE  /\ AfterIo(c) \in Stream /\ Sane(AfterIo(c)) /\ AfterIo(c).source
         /\ AfterShut(c) \in Stream /\ Sane(AfterShut(c))
<1>1. strm[c] \in Stream /\ Sane(strm[c]) /\ strm[c].source
      /\ (wake[c] = "cancel" => strm[c].enabled)
  BY DEF WaitTypes, Flows
<1>2. AfterIo(c) \in Stream /\ Sane(AfterIo(c)) /\ AfterIo(c).source
  BY Zenon, <1>1, AfterTypes, SaneOps DEF AfterIo
<1>3. AfterShut(c) \in Stream /\ Sane(AfterShut(c))
  BY Zenon, <1>1, <1>2, AfterTypes, SaneOps DEF AfterShut
<1> QED BY <1>2, <1>3

\* Every stretch of client_handler_async leaves its stream fit for the next wait.
LEMMA RunFlows ==
  ASSUME NEW c \in Conns, Types, Flows(c), Run(c)
  PROVE  Flows(c)'
<1> USE DEF mainVars, dataVars, clientVars, busVars, taskVars
<1>0. WaitTypes /\ strm[c] \in Stream /\ Sane(strm[c])
      /\ (pc[c] \in BusLabels \cup IoLabels => strm[c].source)
  BY DEF Types, WaitTypes, Flows
<1>1. ASSUME EndTask(c) PROVE Flows(c)'
  <2>1. pc'[c] = "ended" /\ strm'[c] = NoStream
    BY Zenon, <1>0, <1>1, EndTaskAt DEF EndTask, destroy_msg_stream, WaitTypes
  <2>2. "ended" \notin BusLabels \cup IoLabels
    BY DEF BusLabels, QueryLabels, IoLabels, LogLabels, VerdictLabels, ShutLabels
  <2> QED BY <2>1, <2>2, SaneOps, RestFlows
<1>2. ASSUME NEW st \in Stream, Sane(st), NEW watch, KillOrEnd(c, st, watch) PROVE Flows(c)'
  <2>1. CASE "scope" \notin owned[c]
    BY Zenon, <1>1, <1>2, <2>1 DEF KillOrEnd
  <2>2. CASE "scope" \in owned[c]
    <3>1. pc'[c] = "ikill" /\ strm'[c] = st
      BY Zenon, <1>0, <1>2, <2>2, AwaitAt DEF KillOrEnd, KillTo, WaitTypes
    <3>2. "ikill" \notin BusLabels \cup IoLabels
      BY DEF BusLabels, QueryLabels, IoLabels, LogLabels, VerdictLabels, ShutLabels
    <3> QED BY Zenon, <1>2, <3>1, <3>2, RestFlows
  <2> QED BY <2>1, <2>2
<1>3. ASSUME pc[c] \in BusLabels, pc'[c] \in BusLabels, UNCHANGED strm PROVE Flows(c)'
  <2>1. BusLabels \cap IoLabels = {}
    BY DEF BusLabels, QueryLabels, IoLabels, LogLabels, VerdictLabels, ShutLabels
  <2> QED BY Zenon, <1>0, <1>3, <2>1, RestFlows
<1>4. CASE RunStart(c)
  <2>1. CASE EndTask(c)
    BY <1>1, <2>1
  <2> DEFINE st == msg_stream_reg_interrupt(init_msg_stream, TRUE)
  <2>2. st \in Stream /\ Sane(st) /\ st.source
    BY Zenon, SaneOps, StreamOps
  <2> HIDE DEF st
  <2>3. CASE IoTo(c, st, "WRITE", TRUE, "rfail")
    BY Zenon, <1>0, <2>2, <2>3, IoFlows
  <2>4. CASE /\ strm' = [strm EXCEPT ![c] = st]
             /\ Await(c, IF unit_name = Null THEN "self_unit" ELSE "orig_unit")
    <3>1. strm'[c] = st /\ pc'[c] \in {"self_unit", "orig_unit"}
      BY Zenon, <1>0, <2>4, AwaitAt DEF WaitTypes
    <3>2. pc'[c] \notin IoLabels
      BY <3>1 DEF IoLabels, LogLabels, VerdictLabels, ShutLabels
    <3> QED BY <2>2, <3>1, <3>2, RestFlows
  <2> QED BY Zenon, <1>4, <2>1, <2>3, <2>4 DEF RunStart, st
<1>5. CASE RunQuery(c) \/ RunSelfUnit(c) \/ RunMatch(c)
  <2>1. pc[c] \in BusLabels /\ pc'[c] \in BusLabels
    <3>1. CASE RunQuery(c)
      <4>1. pc[c] \in DOMAIN NextQuery /\ pc'[c] = NextQuery[pc[c]]
        BY Zenon, <3>1, AwaitAt DEF RunQuery, RunsOk, Runs
      <4>2. \A l \in DOMAIN NextQuery : l \in BusLabels /\ NextQuery[l] \in BusLabels
        BY DEF NextQuery, BusLabels, QueryLabels
      <4> QED BY Zenon, <4>1, <4>2
    <3>2. CASE RunSelfUnit(c) \/ RunMatch(c)
      BY Zenon, <3>2, AwaitAt DEF RunSelfUnit, RunMatch, RunsOk, Runs, BusLabels, QueryLabels
    <3> QED BY Zenon, <1>5, <3>1, <3>2
  <2> QED BY Zenon, <1>3, <1>5, <2>1 DEF RunQuery, RunSelfUnit, RunMatch
<1>6. CASE RunOrigCgroup(c)
  <2>1. pc[c] \in BusLabels
    BY Zenon, <1>6 DEF RunOrigCgroup, RunsOk, Runs, BusLabels, QueryLabels
  <2>2. CASE IoTo(c, strm[c], "WRITE", TRUE, "rlog")
    BY Zenon, <1>0, <2>1, <2>2, IoFlows
  <2>3. CASE Await(c, "s_slice") /\ UNCHANGED strm
    BY <1>3, <2>1, <2>3, AwaitAt DEF BusLabels, QueryLabels
  <2> QED BY Zenon, <1>6, <2>2, <2>3 DEF RunOrigCgroup
<1>7. CASE RunGetUnit(c)
  <2>1. pc[c] \in BusLabels
    BY Zenon, <1>7 DEF RunGetUnit, RunsOk, Runs, BusLabels, QueryLabels
  <2>2. CASE ErrClose(c, strm[c])
    BY Zenon, <1>0, <2>1, <2>2, IoFlows DEF ErrClose
  <2>3. CASE Await(c, "cg_path") /\ UNCHANGED strm
    BY Zenon, <1>3, <2>1, <2>3, AwaitAt DEF BusLabels, QueryLabels
  <2> QED BY Zenon, <1>7, <2>2, <2>3 DEF RunGetUnit
<1>8. CASE RunCgroup(c)
  <2>1. pc[c] \in BusLabels
    BY Zenon, <1>8 DEF RunCgroup, RunsOk, Runs, BusLabels, QueryLabels
  <2> QED BY Zenon, <1>0, <1>8, <2>1, IoFlows DEF RunCgroup, ErrClose
<1>9. CASE RunRead(c)
  <2>1. pc[c] \in IoLabels
    BY Zenon, <1>9 DEF RunRead, Runs, IoLabels
  <2> DEFINE st == EndIo(strm[c])
             quiet == msg_stream_reg_interrupt(st, FALSE)
  <2>2. st \in Stream /\ Sane(st) /\ st.source
    BY Zenon, <1>0, <2>1, SaneOps, StreamOps
  <2>3. quiet \in Stream /\ Sane(quiet) /\ quiet.source
    BY Zenon, <2>2, SaneOps, StreamOps
  <2>4. IoTo(c, quiet, "WRITE", TRUE, "wlog") \/ IoTo(c, quiet, "WRITE", TRUE, "elog")
          \/ IoTo(c, st, "WRITE", TRUE, "elog")
    BY Zenon, <1>9 DEF RunRead, ErrClose
  <2> HIDE DEF st, quiet
  <2> QED BY Zenon, <1>0, <2>2, <2>3, <2>4, IoFlows
<1>10. CASE RunLogged(c)
  <2>1. pc[c] \in IoLabels
    BY <1>10 DEF RunLogged, Runs, IoLabels
  <2> QED BY Zenon, <1>0, <1>10, <2>1, AfterFlows, IoFlows DEF RunLogged
<1>11. CASE RunVerdict(c)
  <2>1. pc[c] \in IoLabels
    BY <1>11 DEF RunVerdict, Runs, IoLabels
  <2> QED BY Zenon, <1>0, <1>11, <2>1, AfterFlows, ShutFlows DEF RunVerdict
<1>12. CASE RunRefused(c) \/ RunKilled(c)
  BY <1>1, <1>12 DEF RunRefused, RunKilled
<1>13. CASE RunGranted(c)
  <2>1. pc[c] \in IoLabels
    BY Zenon, <1>13 DEF RunGranted, Runs, IoLabels, ShutLabels
  <2>2. strm'[c] = AfterShut(c) /\ pc'[c] \in {"kill", "wait_exit"}
    BY Zenon, <1>0, <1>13, AwaitAt DEF RunGranted, KillTo, WaitTypes
  <2>3. pc'[c] \notin BusLabels \cup IoLabels
    BY <2>2 DEF BusLabels, QueryLabels, IoLabels, LogLabels, VerdictLabels, ShutLabels
  <2> QED BY Zenon, <1>0, <2>1, <2>2, <2>3, AfterFlows, RestFlows
<1>14. CASE RunExited(c)
  <2>1. strm'[c] = strm[c] /\ pc'[c] = "kill"
    BY Zenon, <1>14, AwaitAt DEF RunExited, KillTo
  <2>2. pc'[c] \notin BusLabels \cup IoLabels
    BY <2>1 DEF BusLabels, QueryLabels, IoLabels, LogLabels, VerdictLabels, ShutLabels
  <2> QED BY Zenon, <1>0, <2>1, <2>2, RestFlows
<1>15. CASE RunBusError(c)
  BY Zenon, <1>0, <1>15, IoFlows DEF RunBusError, Runs, ErrClose
<1>16. CASE RunInterrupted(c)
  <2> DEFINE st == IF pc[c] = "read" THEN CancelIo(strm[c]) ELSE strm[c]
  <2>1. wake[c] = "cancel" /\ pc[c] \in Interruptible
    BY Zenon, <1>16 DEF RunInterrupted, Runs
  <2>2. st \in Stream /\ Sane(st) /\ (pc[c] # "wait_exit" => st.source)
    <3>1. pc[c] = "read" => strm[c].enabled /\ strm[c].source
      BY Zenon, <2>1 DEF Flows, IoLabels
    <3>2. pc[c] \in BusLabels => strm[c].source
      BY Zenon, <1>0
    <3> QED BY Zenon, <1>0, <2>1, <3>1, <3>2, SaneOps, StreamOps DEF Interruptible
  <2>3. CASE TellClient(c)
    <3>1. IoTo(c, st, "WRITE", TRUE, "ifail") /\ pc[c] # "wait_exit"
      BY Zenon, <1>16, <2>3 DEF RunInterrupted, TellClient
    <3> HIDE DEF st
    <3> QED BY Zenon, <1>0, <2>2, <3>1, IoFlows
  <2>4. CASE ~TellClient(c)
    <3>1. \E watch : KillOrEnd(c, st, watch)
      BY Zenon, <1>16, <2>4 DEF RunInterrupted
    <3> HIDE DEF st
    <3> QED BY <1>2, <2>2, <3>1
  <2> QED BY <2>3, <2>4
<1>17. CASE RunInterruptTold(c)
  <2>1. pc[c] \in IoLabels
    BY Zenon, <1>17 DEF RunInterruptTold, Runs, IoLabels, ShutLabels
  <2> QED BY Zenon, <1>0, <1>2, <1>17, <2>1, AfterFlows DEF RunInterruptTold
<1>18. CASE RunClosed(c)
  BY Zenon, <1>18 DEF RunClosed, Flows, Sane, IoRefused
<1> QED BY <1>4, <1>5, <1>6, <1>7, <1>8, <1>9, <1>10, <1>11, <1>12, <1>13, <1>14, <1>15,
           <1>16, <1>17, <1>18 DEF Run

\* So does every handler of the event loop, whichever session it wakes: a hangup
\* is never the only event of a stream on which an I/O waits.
LEMMA DispatchFlows ==
  ASSUME NEW c \in Conns, Types, Flows(c), Accept(c) \/ DispatchTask(c)
  PROVE  Flows(c)'
<1> USE DEF mainVars, dataVars, clientVars, busVars, taskVars
<1>0. WaitTypes /\ strm[c] \in Stream /\ Sane(strm[c])
      /\ (pc[c] \in BusLabels \cup IoLabels => strm[c].source)
  BY DEF Types, WaitTypes, Flows
<1>1. ASSUME strm'[c] = strm[c], pc'[c] = pc[c], wake[c] = "none" PROVE Flows(c)'
  BY Zenon, <1>1 DEF Flows, Sane, IoRefused
<1>2. wake[c] = "none"
  BY Zenon DEF Accept, DispatchTask, DispatchRead, DispatchWrite, DispatchHangup, DispatchIoTimer, DispatchPidfd,
     DispatchQuery, DispatchReply, DispatchJobRemoved, DispatchEnd, StreamReady, LoopIdle, Ready
<1>3. ASSUME Sane(strm'[c]), strm'[c].source = strm[c].source, SetStreamEvent(c), UNCHANGED pc
      PROVE  Flows(c)'
  <2>1. pc[c] \in IoLabels => wake'[c] = "ok"
    BY Zenon, <1>0, <1>3 DEF SetStreamEvent, Wake, WaitTypes
  <2> QED BY Zenon, <1>0, <1>3, <2>1 DEF Flows, Sane, IoRefused
<1>4. CASE Accept(c) \/ DispatchEnd(c)
  <2>1. pc'[c] \in {"start", "freed"} /\ strm'[c] = strm[c]
    BY Zenon, <1>0, <1>4 DEF Accept, DispatchEnd, WaitTypes
  <2>2. pc'[c] \notin BusLabels \cup IoLabels
    BY <2>1 DEF BusLabels, QueryLabels, IoLabels, LogLabels, VerdictLabels, ShutLabels
  <2> QED BY <1>0, <2>1, <2>2, RestFlows
<1>5. CASE DispatchRead(c)
  <2>1. strm[c].enabled /\ UNCHANGED pc /\ SetStreamEvent(c)
        /\ \/ strm' = [strm EXCEPT ![c] = OnIoError(strm[c])]
           \/ \E len \in IoLens : strm' = [strm EXCEPT ![c] = OnIo(strm[c], len)]
    BY Zenon, <1>5 DEF DispatchRead, StreamReady, IoLens
  <2>2. Sane(strm'[c]) /\ strm'[c].source = strm[c].source
    BY <1>0, <2>1, SaneIo DEF WaitTypes, IoLens
  <2> QED BY <1>3, <2>1, <2>2
<1>6. CASE DispatchWrite(c)
  <2>1. strm[c].enabled /\ UNCHANGED pc /\ SetStreamEvent(c)
        /\ \/ strm' = [strm EXCEPT ![c] = OnIoError(strm[c])]
           \/ \E len \in IoLens : strm' = [strm EXCEPT ![c] = OnIo(strm[c], len)]
    BY Zenon, <1>6 DEF DispatchWrite, StreamReady, IoLens
  <2>2. Sane(strm'[c]) /\ strm'[c].source = strm[c].source
    BY <1>0, <2>1, SaneIo DEF WaitTypes, IoLens
  <2> QED BY <1>3, <2>1, <2>2
<1>7. CASE DispatchHangup(c)
  <2>1. UNCHANGED pc /\ strm'[c] = OnHangup(strm[c], TRUE)
        /\ strm[c].events \notin {"IN", "OUT"}
    BY Zenon, <1>0, <1>7 DEF DispatchHangup, HangupOnly, Readable, Writable, WaitTypes
  <2>2. pc[c] \notin IoLabels
    BY <1>2, <2>1 DEF Flows
  <2> QED BY ZenonT(60), <1>0, <2>1, <2>2, SaneOps, RestFlows
<1>8. CASE DispatchIoTimer(c)
  <2>1. strm[c].timer /\ UNCHANGED pc /\ SetStreamEvent(c)
        /\ strm' = [strm EXCEPT ![c] = io_timer_handler(strm[c])]
    BY <1>8 DEF DispatchIoTimer
  <2>2. Sane(strm'[c]) /\ strm'[c].source = strm[c].source
    BY Zenon, <1>0, <2>1, SaneOps DEF WaitTypes
  <2> QED BY <1>3, <2>1, <2>2
<1>9. CASE DispatchPidfd(c) \/ DispatchQuery(c) \/ DispatchReply(c) \/ DispatchJobRemoved(c)
  BY Zenon, <1>1, <1>2, <1>9 DEF DispatchPidfd, DispatchQuery, DispatchReply, DispatchJobRemoved
<1> QED BY <1>4, <1>5, <1>6, <1>7, <1>8, <1>9 DEF DispatchTask

\* A session that goes on to a wait for anything but systemd or its process.
LEMMA RestAnswers ==
  ASSUME NEW c \in Conns, Answers(c), pidfd'[c] # "waiting",
         pc'[c] \notin KillLabels \cup {"s_start", "s_job", "wait_exit", "start"},
         reply'[c] = "none"
  PROVE  Answers(c)'
BY Zenon DEF Answers

\* Every stretch of client_handler_async leaves something to wake its next wait.
LEMMA RunAnswers ==
  ASSUME NEW c \in Conns, Types, Answers(c), Run(c)
  PROVE  Answers(c)'
<1> USE DEF mainVars, dataVars, clientVars, busVars, taskVars
<1> DEFINE Awaited == KillLabels \cup {"s_start", "s_job", "wait_exit", "start"}
<1>0. /\ pc[c] \notin KillLabels \cup {"s_start"} => reply[c] = "none"
      /\ pc[c] = "s_start" /\ wake[c] \in {"ok", "err"} => reply[c] = "none"
      /\ pc[c] # "wait_exit" => pidfd[c] # "waiting"
      /\ pc[c] = "wait_exit" /\ wake[c] = "ok" => pidfd[c] # "waiting"
  BY Zenon DEF Answers, Types, BusTypes
<1>1. ASSUME EndTask(c), reply'[c] = "none" PROVE Answers(c)'
  <2>1. pc'[c] = "ended" /\ pidfd'[c] = "none"
    BY <1>1, EndTaskAt
  <2>2. "ended" \notin Awaited
    BY DEF KillLabels
  <2> QED BY <1>1, <2>1, <2>2, RestAnswers
<1>2. ASSUME NEW l \in KillLabels, KillTo(c, l), reply'[c] = "none", pidfd'[c] # "waiting" PROVE Answers(c)'
  <2>1. pc'[c] = l /\ kill_req'[c]
    BY ZenonT(60), <1>2, AwaitAt DEF KillTo, Types, BusTypes
  <2>2. l \in {"kill", "ikill"}
    BY DEF KillLabels
  <2> QED BY Zenon, <1>2, <2>1, <2>2 DEF Answers
<1>3. ASSUME NEW st, NEW watch, KillOrEnd(c, st, watch), watch # "waiting", reply'[c] = "none"
      PROVE  Answers(c)'
  <2>1. CASE "scope" \notin owned[c]
    BY Zenon, <1>1, <1>3, <2>1 DEF KillOrEnd
  <2>2. CASE "scope" \in owned[c]
    <3>1. KillTo(c, "ikill") /\ pidfd'[c] = watch
      BY <1>3, <2>2 DEF KillOrEnd, Types, OwnTypes
    <3> QED BY <1>2, <1>3, <3>1 DEF KillLabels
  <2> QED BY <2>1, <2>2
<1>4. ASSUME pc[c] \notin Awaited, pc'[c] \notin Awaited, UNCHANGED reply, UNCHANGED pidfd
      PROVE  Answers(c)'
  BY <1>0, <1>4, RestAnswers
<1>5. CASE RunStart(c)
  <2>1. pc[c] = "start" /\ UNCHANGED reply
    BY Zenon, <1>5 DEF RunStart, Runs
  <2>2. CASE EndTask(c)
    BY Zenon, <1>0, <1>1, <2>1, <2>2 DEF KillLabels
  <2>3. CASE ~EndTask(c)
    <3>1. pc'[c] \in {"rfail", "self_unit", "orig_unit"} /\ UNCHANGED pidfd
      <4>1. UNCHANGED pidfd
            /\ \/ \E st, timed : IoTo(c, st, "WRITE", timed, "rfail")
               \/ Await(c, IF unit_name = Null THEN "self_unit" ELSE "orig_unit")
        BY Zenon, <1>5, <2>3 DEF RunStart
      <4>2. \A st, timed : IoTo(c, st, "WRITE", timed, "rfail") => pc'[c] = "rfail"
        BY ZenonT(60), IoToAt
      <4>3. \A l : Await(c, l) => pc'[c] = l
        BY AwaitAt
      <4> QED BY <4>1, <4>2, <4>3
    <3>2. pc'[c] \notin Awaited /\ pidfd[c] # "waiting" /\ reply[c] = "none"
      BY <1>0, <2>1, <3>1 DEF KillLabels
    <3> QED BY <2>1, <3>1, <3>2, RestAnswers
  <2> QED BY <2>2, <2>3
<1>6. CASE RunQuery(c)
  <2>1. pc'[c] = NextQuery[pc[c]] /\ wake'[c] = "none" /\ wake[c] = "ok"
        /\ pc[c] \in {"orig_unit", "s_slice", "s_start", "s_job"}
        /\ UNCHANGED <<scope, reply, job, kill_req, pidfd>>
    BY Zenon, <1>6, AwaitAt DEF RunQuery, RunsOk, Runs, NextQuery
  <2>2. /\ NextQuery["orig_unit"] = "orig_cgroup" /\ NextQuery["s_slice"] = "s_match"
        /\ NextQuery["s_start"] = "s_job" /\ NextQuery["s_job"] = "s_getunit"
    BY DEF NextQuery
  <2>3. CASE pc[c] = "s_start"
    <3>1. pc'[c] = "s_job" /\ reply[c] = "none" /\ (scope[c] = "queued" \/ job[c] # "none")
      BY Zenon, <1>0, <2>1, <2>2, <2>3 DEF Answers
    <3> QED BY Zenon, <1>0, <2>1, <2>3, <3>1 DEF Answers, KillLabels
  <2>4. CASE pc[c] # "s_start"
    <3>1. pc'[c] \in {"orig_cgroup", "s_match", "s_getunit"}
      BY Zenon, <2>1, <2>2, <2>4
    <3>2. pc'[c] \notin Awaited /\ pc[c] \notin KillLabels \cup {"s_start", "wait_exit"}
      BY <2>1, <2>4, <3>1 DEF KillLabels
    <3> QED BY Zenon, <1>0, <2>1, <3>2, RestAnswers
  <2> QED BY <2>3, <2>4
<1>7. CASE RunSelfUnit(c) \/ RunOrigCgroup(c)
  <2>1. pc[c] \in {"self_unit", "orig_cgroup"} /\ pc'[c] \in {"orig_unit", "rlog", "s_slice"}
        /\ UNCHANGED <<reply, pidfd>>
    BY Zenon, <1>7, AwaitAt, IoToAt DEF RunSelfUnit, RunOrigCgroup, RunsOk, Runs
  <2>2. pc[c] \notin Awaited /\ pc'[c] \notin Awaited
    BY <2>1 DEF KillLabels
  <2> QED BY <1>4, <2>1, <2>2
<1>8. CASE RunMatch(c)
  <2>1. pc[c] = "s_match" /\ pc'[c] = "s_start" /\ wake'[c] = "none" /\ scope'[c] = "requested"
        /\ UNCHANGED <<reply, job, kill_req, pidfd>>
    BY Zenon, <1>8, AwaitAt DEF RunMatch, RunsOk, Runs, Types, BusTypes
  <2>2. reply[c] = "none" /\ pidfd[c] # "waiting"
    BY Zenon, <1>0, <2>1 DEF KillLabels
  <2> QED BY Zenon, <2>1, <2>2 DEF Answers, KillLabels
<1>9. CASE RunGetUnit(c)
  <2>1. pc[c] = "s_getunit" /\ pc'[c] \in {"elog", "cg_path"} /\ UNCHANGED reply
        /\ pidfd'[c] \in {"armed", pidfd[c]}
    BY ZenonT(60), <1>9, AwaitAt, IoToAt DEF RunGetUnit, ErrClose, RunsOk, Runs, Types, OwnTypes
  <2>2. pc'[c] \notin Awaited /\ reply[c] = "none" /\ pidfd'[c] # "waiting"
    BY Zenon, <1>0, <2>1 DEF KillLabels
  <2> QED BY <2>1, <2>2, RestAnswers
<1>10. CASE RunCgroup(c) \/ RunRead(c)
  <2>1. pc[c] \in {"cg_path", "read"} /\ pc'[c] \in {"read", "elog", "wlog"} /\ UNCHANGED <<reply, pidfd>>
    <3>1. pc[c] \in {"cg_path", "read"} /\ UNCHANGED <<reply, pidfd>>
          /\ \E st, op, l : IoTo(c, st, op, TRUE, l) /\ l \in {"read", "elog", "wlog"}
      <4>1. CASE RunCgroup(c)
        BY Zenon, <4>1 DEF RunCgroup, ErrClose, RunsOk, Runs
      <4>2. CASE RunRead(c)
        BY Zenon, <4>2 DEF RunRead, ErrClose, Runs
      <4> QED BY Zenon, <1>10, <4>1, <4>2
    <3> QED BY ZenonT(60), <3>1, IoToAt
  <2>2. pc[c] \notin Awaited /\ pc'[c] \notin Awaited
    BY <2>1 DEF KillLabels
  <2> QED BY Zenon, <1>4, <2>1, <2>2
<1>11. CASE RunLogged(c) \/ RunVerdict(c)
  <2>1. pc[c] \in LogLabels \cup VerdictLabels /\ pc'[c] = NextIo[pc[c]] /\ UNCHANGED <<reply, pidfd>>
    <3> DEFINE next == NextIo[pc[c]]
    <3>1. CASE RunLogged(c)
      <4>0. \E st, timed : IoTo(c, st, "WRITE", timed, next)
        BY Zenon, <3>1 DEF RunLogged
      <4> HIDE DEF next
      <4>1. pc'[c] = next
        BY <4>0, IoToAt
      <4>2. pc[c] \in LogLabels
        BY Zenon, <3>1 DEF RunLogged, Runs
      <4>3. UNCHANGED <<reply, pidfd>>
        BY Zenon, <3>1 DEF RunLogged
      <4> QED BY <4>1, <4>2, <4>3 DEF next
    <3>2. CASE RunVerdict(c)
      <4>0. \E st : ShutTo(c, st, next)
        BY Zenon, <3>2 DEF RunVerdict
      <4> HIDE DEF next
      <4>1. pc'[c] = next
        BY <4>0, ShutToAt
      <4>2. pc[c] \in VerdictLabels
        BY Zenon, <3>2 DEF RunVerdict, Runs
      <4>3. UNCHANGED <<reply, pidfd>>
        BY Zenon, <3>2 DEF RunVerdict
      <4> QED BY <4>1, <4>2, <4>3 DEF next
    <3> QED BY <1>11, <3>1, <3>2
  <2>2. pc[c] \in IoLabels /\ pc'[c] \in IoLabels
    BY <2>1, LabelFacts DEF IoLabels
  <2>3. IoLabels \cap Awaited = {}
    BY DEF IoLabels, LogLabels, VerdictLabels, ShutLabels, KillLabels
  <2> QED BY Zenon, <1>4, <2>1, <2>2, <2>3
<1>12. CASE RunRefused(c)
  <2>1. pc[c] \in {"rshut", "eshut"} /\ EndTask(c) /\ UNCHANGED reply
    BY Zenon, <1>12 DEF RunRefused, Runs
  <2> QED BY Zenon, <1>0, <1>1, <2>1 DEF KillLabels
<1>13. CASE RunGranted(c)
  <2>1. pc[c] = "wshut" /\ UNCHANGED reply
    BY Zenon, <1>13 DEF RunGranted, Runs
  <2>2. reply[c] = "none" /\ pidfd[c] # "waiting"
    BY <1>0, <2>1 DEF KillLabels
  <2>3. CASE AlreadyExited(c)
    <3>1. KillTo(c, "kill") /\ UNCHANGED pidfd
      BY <1>13, <2>3 DEF RunGranted
    <3> QED BY <1>2, <2>1, <2>2, <3>1 DEF KillLabels
  <2>4. CASE ~AlreadyExited(c)
    <3>1. pc'[c] = "wait_exit" /\ wake'[c] = "none" /\ pidfd'[c] = "waiting"
      BY Zenon, <1>13, <2>4, AwaitAt DEF RunGranted, Types, OwnTypes
    <3> QED BY Zenon, <2>1, <2>2, <3>1 DEF Answers, KillLabels
  <2> QED BY <2>3, <2>4
<1>14. CASE RunExited(c)
  <2>1. pc[c] = "wait_exit" /\ wake[c] = "ok" /\ KillTo(c, "kill") /\ UNCHANGED <<reply, pidfd>>
    BY <1>14 DEF RunExited, RunsOk, Runs
  <2>2. reply[c] = "none" /\ pidfd[c] # "waiting"
    BY <1>0, <2>1 DEF KillLabels
  <2> QED BY <1>2, <2>1, <2>2 DEF KillLabels
<1>15. CASE RunKilled(c)
  BY <1>1, <1>15 DEF RunKilled, Types, BusTypes
<1>16. CASE RunBusError(c)
  <2>1. pc[c] \in BusLabels /\ wake[c] = "err" /\ pc'[c] = "elog" /\ UNCHANGED <<reply, pidfd>>
    BY Zenon, <1>16, IoToAt DEF RunBusError, ErrClose, Runs
  <2>2. pc[c] \notin KillLabels /\ pc[c] # "wait_exit" /\ "elog" \notin Awaited
    BY <2>1 DEF BusLabels, QueryLabels, KillLabels
  <2> QED BY Zenon, <1>0, <2>1, <2>2, RestAnswers
<1>17. CASE RunInterrupted(c)
  <2>1. reply'[c] = "none"
    BY Zenon, <1>17 DEF RunInterrupted, Types, BusTypes
  <2>2. CASE TellClient(c)
    <3>1. pc'[c] = "ifail" /\ UNCHANGED pidfd /\ pc[c] # "wait_exit"
      BY Zenon, <1>17, <2>2, IoToAt DEF RunInterrupted, TellClient
    <3>2. "ifail" \notin Awaited
      BY DEF KillLabels
    <3> QED BY Zenon, <1>0, <2>1, <3>1, <3>2, RestAnswers
  <2>3. CASE ~TellClient(c)
    <3>1. \E st : KillOrEnd(c, st, IF pc[c] = "wait_exit" THEN "off" ELSE pidfd[c])
      BY Zenon, <1>17, <2>3 DEF RunInterrupted
    <3> QED BY Zenon, <1>0, <1>3, <2>1, <3>1
  <2> QED BY <2>2, <2>3
<1>18. CASE RunInterruptTold(c)
  <2>1. pc[c] = "ishut" /\ UNCHANGED reply /\ \E st : KillOrEnd(c, st, pidfd[c])
    BY Zenon, <1>18 DEF RunInterruptTold, Runs
  <2>2. reply[c] = "none" /\ pidfd[c] # "waiting"
    BY Zenon, <1>0, <2>1 DEF KillLabels
  <2> QED BY Zenon, <1>3, <2>1, <2>2
<1>19. CASE RunClosed(c)
  BY Zenon, <1>19 DEF RunClosed, Answers
<1> QED BY <1>5, <1>6, <1>7, <1>8, <1>9, <1>10, <1>11, <1>12, <1>13, <1>14, <1>15,
           <1>16, <1>17, <1>18, <1>19 DEF Run

\* A handler of the event loop takes away only what it wakes the session for.
LEMMA DispatchAnswers ==
  ASSUME NEW c \in Conns, Types, Answers(c), Accept(c) \/ DispatchTask(c)
  PROVE  Answers(c)'
<1> USE DEF mainVars, dataVars, clientVars, busVars, taskVars
<1>0. wake[c] = "none"
  BY Zenon DEF Accept, DispatchTask, DispatchRead, DispatchWrite, DispatchHangup, DispatchIoTimer, DispatchPidfd,
     DispatchQuery, DispatchReply, DispatchJobRemoved, DispatchEnd, StreamReady, LoopIdle, Ready
<1>1. ASSUME UNCHANGED <<pc, scope, reply, job, kill_req, pidfd>>,
             wake'[c] \in {wake[c], "cancel"} \/ pc[c] \notin {"s_start", "wait_exit", "start"}
      PROVE  Answers(c)'
  BY Zenon, <1>0, <1>1 DEF Answers
<1>2. CASE Accept(c)
  <2>1. pc[c] = "idle" /\ pc'[c] = "start" /\ wake'[c] = "ok" /\ UNCHANGED <<reply, pidfd>>
    BY <1>2 DEF Accept, Wake, Types, WaitTypes
  <2>2. reply[c] = "none" /\ pidfd[c] # "waiting"
    BY Zenon, <2>1 DEF Answers, KillLabels, Types, BusTypes
  <2> QED BY Zenon, <2>1, <2>2 DEF Answers, KillLabels
<1>3. CASE DispatchEnd(c)
  <2>1. pc[c] = "ended" /\ pc'[c] = "freed" /\ UNCHANGED <<reply, pidfd>>
    BY <1>3 DEF DispatchEnd, Types, WaitTypes
  <2>2. reply[c] = "none" /\ pidfd[c] # "waiting"
    BY Zenon, <2>1 DEF Answers, KillLabels, Types, BusTypes
  <2> QED BY Zenon, <2>1, <2>2 DEF Answers, KillLabels
<1>4. IoLabels \cap {"s_start", "wait_exit", "start"} = {}
      /\ QueryLabels \cap {"s_start", "wait_exit", "start"} = {}
  BY DEF IoLabels, LogLabels, VerdictLabels, ShutLabels, QueryLabels
<1>5. ASSUME SetStreamEvent(c) PROVE wake'[c] = wake[c] \/ pc[c] \in IoLabels
  BY <1>5 DEF SetStreamEvent
<1>6. ASSUME NEW why, InterruptTask(c, why) PROVE wake'[c] \in {wake[c], "cancel"}
  BY <1>6 DEF InterruptTask, Wake, Types, WaitTypes
<1>7. CASE DispatchRead(c) \/ DispatchWrite(c) \/ DispatchIoTimer(c)
  BY Zenon, <1>1, <1>4, <1>5, <1>7 DEF DispatchRead, DispatchWrite, DispatchIoTimer
<1>8. CASE DispatchHangup(c)
  BY Zenon, <1>1, <1>4, <1>5, <1>6, <1>8 DEF DispatchHangup
<1>9. CASE DispatchQuery(c)
  BY Zenon, <1>1, <1>4, <1>9 DEF DispatchQuery
<1>10. CASE DispatchPidfd(c)
  <2>1. pidfd'[c] = "terminated" /\ UNCHANGED <<pc, scope, reply, job, kill_req>>
    BY <1>10 DEF DispatchPidfd, Types, OwnTypes
  <2>2. CASE pidfd[c] = "waiting"
    <3>1. pc[c] = "wait_exit" /\ wake'[c] = "ok"
      BY Zenon, <1>10, <2>2 DEF DispatchPidfd, Wake, Answers, Types, WaitTypes
    <3> QED BY Zenon, <1>0, <2>1, <2>2, <3>1 DEF Answers, KillLabels
  <2>3. CASE pidfd[c] # "waiting"
    <3>1. wake'[c] \in {wake[c], "cancel"} /\ pc[c] # "wait_exit"
      BY Zenon, <1>0, <1>6, <1>10, <2>3 DEF DispatchPidfd, Answers
    <3> QED BY Zenon, <1>0, <2>1, <3>1 DEF Answers
  <2> QED BY <2>2, <2>3
<1>11. CASE DispatchReply(c)
  <2>1. /\ reply[c] \in {"ok", "err"} /\ wake'[c] = reply[c] /\ reply'[c] = "none"
        /\ UNCHANGED <<pc, scope, job, kill_req, pidfd>>
    BY <1>11 DEF DispatchReply, Wake, Types, WaitTypes, BusTypes
  <2>2. pc[c] \in {"s_start", "kill", "ikill"}
    BY Zenon, <2>1 DEF Answers, KillLabels
  <2> QED BY Zenon, <1>0, <2>1, <2>2 DEF Answers, KillLabels
<1>12. CASE DispatchJobRemoved(c)
  <2>1. /\ reply[c] = "none" /\ job[c] # "none" /\ job'[c] = "none"
        /\ UNCHANGED <<pc, scope, reply, kill_req, pidfd>>
        /\ IF pc[c] = "s_job" THEN wake'[c] = job[c] ELSE wake'[c] = wake[c]
    BY <1>12 DEF DispatchJobRemoved, Wake, Types, WaitTypes, BusTypes
  <2> QED BY Zenon, <1>0, <2>1 DEF Answers, KillLabels
<1> QED BY <1>2, <1>3, <1>7, <1>8, <1>9, <1>10, <1>11, <1>12 DEF DispatchTask

\* Clients and systemd: what systemd takes from its queue it answers, if the session
\* still waits for the answer.
LEMMA EnvironmentAnswers ==
  ASSUME NEW c \in Conns, Types, \A d \in Conns : Answers(d), Environment(c), NEW d \in Conns
  PROVE  Answers(d)'
<1> USE DEF mainVars, dataVars, clientVars, busVars, taskVars
<1>0. UNCHANGED <<pc, wake, pidfd>> /\ Answers(d)
      /\ scope \in [Conns -> {"none", "requested", "queued", "active", "gone"}]
      /\ reply \in [Conns -> {"none", "ok", "err"}]
      /\ job \in [Conns -> {"none", "ok", "err"}] /\ kill_req \in [Conns -> BOOLEAN]
  BY Zenon DEF Environment, Connect, Proceed, GiveUp, Die, SystemdStart, SystemdJob, SystemdKill, Types, BusTypes
<1>1. ASSUME scope'[d] = scope[d], reply'[d] = reply[d], job'[d] = job[d], kill_req'[d] = kill_req[d]
      PROVE  Answers(d)'
  BY Zenon, <1>0, <1>1 DEF Answers
<1>2. CASE Connect(c) \/ Proceed(c) \/ GiveUp(c) \/ Die(c)
  BY Zenon, <1>1, <1>2 DEF Connect, Proceed, GiveUp, Die
<1>3. CASE SystemdStart(c)
  <2>1. PICK sc \in {"queued", "gone"} :
          /\ scope[c] = "requested" /\ scope' = [scope EXCEPT ![c] = sc]
          /\ reply' = [reply EXCEPT ![c] = IF pc[c] = "s_start"
                                             THEN IF sc = "queued" THEN "ok" ELSE "err" ELSE @]
          /\ UNCHANGED <<job, kill_req>>
    BY Zenon, <1>3 DEF SystemdStart
  <2>2. CASE d # c
    BY <1>0, <1>1, <2>1, <2>2
  <2>3. CASE d = c
    <3>1. scope'[d] = sc /\ (pc[d] # "s_start" => reply'[d] = reply[d])
          /\ (pc[d] = "s_start" => reply'[d] = IF sc = "queued" THEN "ok" ELSE "err")
      BY <1>0, <2>1, <2>3
    <3>2. pc[d] = "s_start" => wake[d] \notin {"ok", "err"}
      BY Zenon, <1>0, <2>1, <2>3 DEF Answers
    <3> QED BY ZenonT(60), <1>0, <2>1, <2>3, <3>1, <3>2 DEF Answers, KillLabels
  <2> QED BY <2>2, <2>3
<1>4. CASE SystemdJob(c)
  <2>1. PICK sc \in {"active", "gone"}, r \in {"ok", "err"} :
          /\ scope[c] = "queued" /\ scope' = [scope EXCEPT ![c] = sc]
          /\ job' = [job EXCEPT ![c] = IF pc[c] \in {"s_start", "s_job"} THEN r ELSE @]
          /\ UNCHANGED <<reply, kill_req>>
    BY Zenon, <1>4 DEF SystemdJob
  <2>2. CASE d # c
    BY <1>0, <1>1, <2>1, <2>2
  <2>3. CASE d = c
    <3>1. scope'[d] = sc /\ scope[d] = "queued"
          /\ (pc[d] \in {"s_start", "s_job"} => job'[d] = r)
      BY <1>0, <2>1, <2>3
    <3> QED BY Zenon, <1>0, <2>1, <3>1 DEF Answers, KillLabels
  <2> QED BY <2>2, <2>3
<1>5. CASE SystemdKill(c)
  <2>1. PICK r \in {"ok", "err"} :
          /\ kill_req' = [kill_req EXCEPT ![c] = FALSE]
          /\ reply' = [reply EXCEPT ![c] = IF pc[c] \in KillLabels THEN r ELSE @]
          /\ \/ UNCHANGED scope
             \/ scope[c] = "active" /\ scope' = [scope EXCEPT ![c] = "gone"]
          /\ UNCHANGED job
    BY <1>5 DEF SystemdKill
  <2>2. CASE d # c
    BY <1>0, <1>1, <2>1, <2>2
  <2>3. CASE d = c
    <3>1. /\ scope'[d] = scope[d] \/ (scope[d] = "active" /\ scope'[d] = "gone")
          /\ reply'[d] = IF pc[d] \in KillLabels THEN r ELSE reply[d]
      BY <1>0, <2>1, <2>3
    <3>2. KillLabels = {"kill", "ikill"}
      BY DEF KillLabels
    <3>3. CASE pc[d] \in KillLabels
      BY Zenon, <1>0, <2>1, <3>1, <3>2, <3>3 DEF Answers
    <3>4. CASE pc[d] \notin KillLabels
      BY ZenonT(60), <1>0, <2>1, <3>1, <3>4 DEF Answers
    <3> QED BY <3>3, <3>4
  <2> QED BY <2>2, <2>3
<1> QED BY <1>2, <1>3, <1>4, <1>5 DEF Environment

\* WaitInv holds at every step.
LEMMA WaitsHold == Spec => []WaitInv
<1>1. Init => WaitInv
  <2> SUFFICES ASSUME Init, NEW c \in Conns PROVE Flows(c) /\ Answers(c)
    BY DEF WaitInv
  <2>1. pc[c] = "idle" /\ strm[c] = NoStream /\ reply[c] = "none" /\ pidfd[c] = "none"
    BY DEF Init
  <2>2. "idle" \notin BusLabels \cup IoLabels \cup KillLabels
    BY DEF BusLabels, QueryLabels, IoLabels, LogLabels, VerdictLabels, ShutLabels, KillLabels
  <2> QED BY Zenon, <2>1, <2>2, SaneOps DEF Flows, Answers
<1>2. Types /\ WaitInv /\ [Next]_vars => WaitInv'
  <2> SUFFICES ASSUME Types, WaitInv, [Next]_vars, NEW d \in Conns PROVE Flows(d)' /\ Answers(d)'
    BY DEF WaitInv
  <2> USE DEF mainVars, dataVars, clientVars, busVars, taskVars
  <2>0. Flows(d) /\ Answers(d)
    BY DEF WaitInv
  <2>1. ASSUME SameAt(d), strm'[d] = strm[d], kill_req'[d] = kill_req[d] PROVE Flows(d)' /\ Answers(d)'
    BY ZenonT(60), <2>0, <2>1 DEF SameAt, Flows, Sane, IoRefused, Answers
  <2>2. ASSUME NEW c \in Conns, Run(c) \/ Accept(c) \/ DispatchTask(c) PROVE Flows(d)' /\ Answers(d)'
    <3>1. CASE d = c
      BY <2>0, <2>2, <3>1, RunFlows, DispatchFlows, RunAnswers, DispatchAnswers
    <3>2. CASE d # c
      BY Zenon, <2>1, <2>2, <3>2, RunLocal, RunLocalStream
    <3> QED BY <3>1, <3>2
  <2>3. ASSUME NEW c \in Conns, Environment(c) PROVE Flows(d)' /\ Answers(d)'
    <3>1. UNCHANGED <<pc, wake, strm>>
      BY Zenon, <2>3 DEF Environment, Connect, Proceed, GiveUp, Die, SystemdStart, SystemdJob, SystemdKill
    <3>2. Flows(d)'
      BY Zenon, <2>0, <3>1 DEF Flows, Sane, IoRefused
    <3> QED BY <2>3, <3>2, EnvironmentAnswers DEF WaitInv
  <2>4. CASE DispatchSignal
    <3>1. wake[d] = "none" /\ wake'[d] \in {"none", "cancel"}
          /\ UNCHANGED <<pc, strm, pidfd, scope, reply, job, kill_req>>
      BY <2>4 DEF DispatchSignal, LoopIdle, Ready
    <3> QED BY ZenonT(60), <2>0, <3>1 DEF Flows, Sane, IoRefused, Answers
  <2>5. CASE DispatchOther \/ DispatchSleepTimer \/ Finish \/ Over \/ UNCHANGED vars
    <3>1. UNCHANGED <<pc, wake, strm, pidfd, scope, reply, job, kill_req>>
      BY Zenon, <2>5 DEF DispatchOther, DispatchSleepTimer, Finish, Over, vars
    <3> QED BY ZenonT(60), <2>0, <3>1 DEF Flows, Sane, IoRefused, Answers
  <2> QED BY <2>2, <2>3, <2>4, <2>5 DEF Next
<1>3. OwnInv => Types
  BY DEF OwnInv
<1> QED BY <1>1, <1>2, <1>3, OwnsHold, PTL DEF Spec

\* No I/O is ever started on a stream whose source is gone: the assertions of
\* msg_stream_do_io and shutdown_msg_stream hold for any number of sessions and
\* whatever fails.
THEOREM StreamsAlive == Spec => []StreamAlive
<1>1. WaitInv => StreamAlive
  BY DEF WaitInv, Flows, StreamAlive
<1> QED BY <1>1, WaitsHold, PTL

\* No session waits for something that has already happened: whatever it waits for
\* is still to come, for any number of sessions and whatever fails, dies or is
\* interrupted meanwhile.
THEOREM NoLostWakeup == Spec => []WakeupPending
<1>1. WaitInv => WakeupPending
  <2> SUFFICES ASSUME NEW c \in Conns, Flows(c), Answers(c), wake[c] = "none"
               PROVE  /\ pc[c] \in IoLabels =>
                           /\ strm[c].source /\ strm[c].enabled
                           /\ strm[c].events = IF strm[c].state = "READ" THEN "IN" ELSE "OUT"
                      /\ pc[c] = "s_start" => scope[c] = "requested" \/ reply[c] # "none"
                      /\ pc[c] = "s_job" => scope[c] = "queued" \/ job[c] # "none"
                      /\ pc[c] \in KillLabels => kill_req[c] \/ reply[c] # "none"
                      /\ pc[c] = "wait_exit" => pidfd[c] = "waiting"
                      /\ pc[c] # "start"
    BY Zenon DEF WaitInv, WakeupPending
  <2> QED BY Zenon DEF Flows, Answers
<1> QED BY <1>1, WaitsHold, PTL

-----------------------------------------------------------------------------
(* The end of the daemon, and its name.                                    *)

\* g_this_unit_name is assigned once, by whichever session asks first, although
\* several may be asking.
THEOREM UnitNamedOnce == Spec => UnitNameOnce
<1>1. [Next]_vars => (unit_name # Null => unit_name' = unit_name)
  <2> SUFFICES ASSUME [Next]_vars, unit_name # Null PROVE unit_name' = unit_name
    OBVIOUS
  <2> USE DEF mainVars, dataVars, clientVars, busVars, taskVars
  <2>1. ASSUME NEW c \in Conns, Run(c) PROVE unit_name' = unit_name
    <3>1. CASE RunSelfUnit(c)
      BY <3>1 DEF RunSelfUnit, NewUnitName
    <3>2. CASE ~RunSelfUnit(c)
      BY Zenon, <2>1, <3>2 DEF Run, RunStart, RunQuery, RunOrigCgroup, RunMatch, RunGetUnit, RunCgroup, RunRead,
         RunLogged, RunVerdict, RunRefused, RunGranted, RunExited, RunKilled, RunBusError, RunInterrupted,
         RunInterruptTold, RunClosed
    <3> QED BY <3>1, <3>2
  <2>2. ASSUME NEW c \in Conns, Accept(c) \/ DispatchTask(c) \/ Environment(c) PROVE unit_name' = unit_name
    BY Zenon, <2>2 DEF Accept, DispatchTask, DispatchRead, DispatchWrite, DispatchHangup, DispatchIoTimer,
       DispatchPidfd, DispatchQuery, DispatchReply, DispatchJobRemoved, DispatchEnd, Environment, Connect,
       Proceed, GiveUp, Die, SystemdStart, SystemdJob, SystemdKill
  <2>3. CASE DispatchOther \/ DispatchSignal \/ DispatchSleepTimer \/ Finish \/ Over \/ UNCHANGED vars
    BY Zenon, <2>3 DEF DispatchOther, DispatchSignal, DispatchSleepTimer, Finish, Over, vars
  <2> QED BY <2>1, <2>2, <2>3 DEF Next
<1> QED BY <1>1, PTL DEF Spec, UnitNameOnce

\* The waits of the handler are those of a task that exists.
LEMMA LiveLabels ==
  {"idle", "freed"} \cap (BusLabels \cup KillLabels \cup IoLabels \cup DOMAIN NextQuery) = {}
BY DEF BusLabels, QueryLabels, KillLabels, IoLabels, LogLabels, VerdictLabels, ShutLabels, NextQuery

\* sd_event_exit is only called when no session is left, and none is accepted after.
Exiting == loop \in {"exiting", "finished"} => AllTasks = {}

\* The checks of main() after each event keep that.
LEMMA AfterRunExiting ==
  ASSUME NEW tasks, NEW ereq, NEW l, AfterRun(tasks, ereq, l), AllTasks' = tasks,
         l \in {"exiting", "finished"} => tasks = {}
  PROVE  Exiting'
BY DEF AfterRun, Exiting

\* So does every step.
LEMMA ExitingHolds == Spec => []Exiting
<1>1. Init => Exiting
  BY DEF Init, Exiting
<1>2. Types /\ Exiting /\ [Next]_vars => Exiting'
  <2> SUFFICES ASSUME Types, Exiting, [Next]_vars PROVE Exiting'
    OBVIOUS
  <2> USE DEF mainVars, dataVars, clientVars, busVars, taskVars
  <2>0. ASSUME UNCHANGED <<pc, loop>> PROVE Exiting'
    BY <2>0 DEF Exiting, AllTasks
  <2>1. ASSUME NEW c \in Conns, Run(c) PROVE Exiting'
    <3>1. CASE RunClosed(c)
      BY <3>1 DEF RunClosed, Exiting
    <3>2. CASE ~RunClosed(c)
      <4>1. pc[c] \notin {"idle", "freed"}
        BY Zenon, <2>1, <3>2, LiveLabels DEF Run, RunStart, RunQuery, RunSelfUnit, RunOrigCgroup, RunMatch,
           RunGetUnit, RunCgroup, RunRead, RunLogged, RunVerdict, RunRefused, RunGranted, RunExited,
           RunKilled, RunBusError, RunInterrupted, RunInterruptTold, RunsOk, Runs, Interruptible, IoLabels
      <4>2. AllTasks # {}
        BY <4>1 DEF AllTasks
      <4>3. UNCHANGED loop
        BY Zenon, <2>1, <3>2 DEF Run, RunStart, RunQuery, RunSelfUnit, RunOrigCgroup, RunMatch,
           RunGetUnit, RunCgroup, RunRead, RunLogged, RunVerdict, RunRefused, RunGranted, RunExited,
           RunKilled, RunBusError, RunInterrupted, RunInterruptTold
      <4> QED BY <4>2, <4>3 DEF Exiting
    <3> QED BY <3>1, <3>2
  <2>2. ASSUME NEW c \in Conns, Accept(c) PROVE Exiting'
    <3>1. loop = "running" /\ AfterRun(AllTasks \cup {c}, exit_req, loop) /\ pc' = [pc EXCEPT ![c] = "start"]
      BY <2>2 DEF Accept, LoopIdle
    <3>2. AllTasks' = AllTasks \cup {c}
      BY <3>1 DEF AllTasks, Types, WaitTypes
    <3> QED BY <3>1, <3>2, AfterRunExiting
  <2>3. ASSUME NEW c \in Conns, DispatchEnd(c) PROVE Exiting'
    <3>1. loop = "running" /\ AfterRun(AllTasks \ {c}, exit_req, loop) /\ pc' = [pc EXCEPT ![c] = "freed"]
      BY Zenon, <2>3 DEF DispatchEnd, LoopIdle
    <3>2. AllTasks' = AllTasks \ {c}
      BY <3>1 DEF AllTasks, Types, WaitTypes
    <3> QED BY <3>1, <3>2, AfterRunExiting
  <2>4. ASSUME LoopIdle, AfterRunSame, UNCHANGED pc PROVE Exiting'
    <3>1. loop = "running" /\ AllTasks' = AllTasks
      BY <2>4 DEF LoopIdle, AllTasks
    <3> QED BY <2>4, <3>1, AfterRunExiting DEF AfterRunSame
  <2>5. ASSUME NEW c \in Conns, DispatchTask(c) PROVE Exiting'
    <3>1. DispatchEnd(c) \/ (LoopIdle /\ AfterRunSame /\ UNCHANGED pc)
      BY Zenon, <2>5 DEF DispatchTask, DispatchRead, DispatchWrite, DispatchHangup, DispatchIoTimer, DispatchPidfd,
         DispatchQuery, DispatchReply, DispatchJobRemoved, StreamReady
    <3> QED BY <2>3, <2>4, <3>1
  <2>6. CASE DispatchOther
    BY <2>4, <2>6 DEF DispatchOther
  <2>7. CASE DispatchSignal
    <3>1. LoopIdle /\ UNCHANGED pc /\ (AfterRun(AllTasks, "EXIT_REQ_SENT", loop) \/ AfterRunSame)
      BY <2>7 DEF DispatchSignal
    <3>2. loop = "running" /\ AllTasks' = AllTasks
      BY <3>1 DEF LoopIdle, AllTasks
    <3> QED BY <2>4, <3>1, <3>2, AfterRunExiting
  <2>8. CASE DispatchSleepTimer
    <3>1. LoopIdle /\ UNCHANGED pc /\ AfterRun(AllTasks, exit_req, IF AllTasks = {} THEN "exiting" ELSE loop)
      BY <2>8 DEF DispatchSleepTimer
    <3>2. loop = "running" /\ AllTasks' = AllTasks
      BY <3>1 DEF LoopIdle, AllTasks
    <3> QED BY <3>1, <3>2, AfterRunExiting
  <2>9. CASE Finish
    BY <2>9 DEF Finish, Exiting, AllTasks
  <2>10. CASE Over \/ UNCHANGED vars
    BY Zenon, <2>0, <2>10 DEF Over, vars
  <2>11. ASSUME NEW c \in Conns, Environment(c) PROVE Exiting'
    BY Zenon, <2>0, <2>11 DEF Environment, Connect, Proceed, GiveUp, Die, SystemdStart, SystemdJob, SystemdKill
  <2> QED BY <2>1, <2>2, <2>5, <2>6, <2>7, <2>8, <2>9, <2>10, <2>11 DEF Next
<1>3. OwnInv => Types
  BY DEF OwnInv
<1> QED BY <1>1, <1>2, <1>3, OwnsHold, PTL DEF Spec

-----------------------------------------------------------------------------
(* The limit is enforced while the process lives.                          *)

Unstarted == {"idle", "start", "self_unit", "orig_unit", "orig_cgroup", "s_slice", "s_match"}
Granting == {"wlog", "wproceed", "wshut", "wait_exit"}
Watched == {"cg_path", "read"} \cup Granting

\* The strengthening of Enforced for one session, along its way: the bus answers
\* it is waiting for are its own, so a successful job means that the scope holds
\* the process; the limit is stored before PROCEED; what wakes the final wait is
\* the death of the process; and the interrupt path, which can no longer be
\* interrupted, gets an answer to Kill only when the process is dead.
Covered(c) ==
  /\ proc[c] = "none" => pc[c] = "idle"
  /\ pc[c] \in Unstarted => scope[c] = "none"
  /\ scope[c] \in {"none", "requested", "queued"} => job[c] = "none"
  /\ reply[c] # "none" => pc[c] \in KillLabels \cup {"s_start"}
  /\ pc[c] = "s_start" /\ (wake[c] \in {"ok", "err"} \/ reply[c] # "none") => scope[c] # "requested"
  /\ pc[c] = "s_start" /\ wake[c] \in {"ok", "err"} => reply[c] = "none"
  /\ (job[c] = "ok" \/ (pc[c] = "s_job" /\ wake[c] = "ok") \/ pc[c] \in Watched \cup {"s_getunit"})
       /\ proc[c] # "dead" => scope[c] = "active"
  /\ pc[c] \in Watched => "scope" \in owned[c]
  /\ pc[c] \in Granting => rate_map[c] = "limit"
  /\ pidfd[c] = "terminated" => proc[c] = "dead"
  /\ pidfd[c] = "waiting" => pc[c] \notin Unstarted \cup {"s_start"}
  /\ pc[c] = "wait_exit" /\ wake[c] = "ok" => proc[c] = "dead"
  /\ pc[c] \in {"ifail", "ishut", "ikill"} => disabled[c]
  /\ answer[c] = "PROCEED" /\ proc[c] # "dead" =>
       /\ pc[c] \in {"wproceed", "wshut", "wait_exit", "ikill"}
       /\ rate_map[c] = "limit"
       /\ pc[c] = "ikill" => wake[c] = "none" /\ reply[c] = "none" /\ scope[c] = "active"

EnforceInv == \A c \in Conns : Covered(c)

\* A step that changes nothing Covered(d) looks at keeps it.
LEMMA SameCovered ==
  ASSUME NEW d \in Conns, Covered(d), SameAt(d)
  PROVE  Covered(d)'
BY DEF Covered, SameAt

\* The death of the process keeps Covered(d): it only asks for more of a session
\* whose process lives.
LEMMA DeadCovered ==
  ASSUME NEW d \in Conns, Covered(d), proc'[d] = "dead",
         pc'[d] = pc[d], wake'[d] = wake[d], owned'[d] = owned[d],
         disabled'[d] = disabled[d], pidfd'[d] = pidfd[d], rate_map'[d] = rate_map[d],
         scope'[d] = scope[d], reply'[d] = reply[d], job'[d] = job[d]
  PROVE  Covered(d)'
<1>1. (proc[d] = "none" => pc[d] = "idle")' /\ (pidfd[d] = "terminated" => proc[d] = "dead")'
  OBVIOUS
<1> QED BY <1>1 DEF Covered

\* So does anything a living process does, as long as it is not told PROCEED.
LEMMA LiveCovered ==
  ASSUME NEW d \in Conns, Covered(d), proc[d] # "dead", proc'[d] # "dead",
         proc'[d] = "none" => proc[d] = "none",
         answer'[d] = answer[d] \/ answer'[d] # "PROCEED",
         pc'[d] = pc[d], wake'[d] = wake[d], owned'[d] = owned[d],
         disabled'[d] = disabled[d], pidfd'[d] = pidfd[d], rate_map'[d] = rate_map[d],
         scope'[d] = scope[d], reply'[d] = reply[d], job'[d] = job[d]
  PROVE  Covered(d)'
BY DEF Covered

\* A step of session c keeps it covered.
LEMMA RunCovered ==
  ASSUME NEW c \in Conns, Types, Covered(c), Run(c)
  PROVE  Covered(c)'
<1> USE DEF mainVars, dataVars, clientVars, busVars, taskVars
<1>1. CASE RunStart(c)
  <2>1. PICK l \in {"ended", "rfail", "self_unit", "orig_unit"} : pc'[c] = l
    BY Zenon, <1>1 DEF RunStart, EndTask, Await, IoTo, Types, WaitTypes
  <2>2. pidfd'[c] = "none" \/ pidfd'[c] = pidfd[c]
    BY Zenon, <1>1, EndTaskAt DEF RunStart
  <2> QED BY <1>1, <2>1, <2>2, SMTT(30), ZenonT(60)
          DEF RunStart, Runs,
              Covered, Unstarted, Granting, Watched, KillLabels
<1>2. CASE RunQuery(c)
  <2>1. pc'[c] = NextQuery[pc[c]] /\ wake'[c] = "none"
    BY <1>2, AwaitAt DEF RunQuery
  <2>2. wake[c] = "ok" /\ pc[c] \in {"orig_unit", "s_slice", "s_start", "s_job"}
    BY <1>2 DEF RunQuery, RunsOk, Runs, NextQuery
  <2>3. /\ owned'[c] = owned[c] /\ disabled'[c] = disabled[c] /\ pidfd'[c] = pidfd[c]
        /\ rate_map'[c] = rate_map[c] /\ proc'[c] = proc[c] /\ answer'[c] = answer[c]
        /\ scope'[c] = scope[c] /\ reply'[c] = reply[c] /\ job'[c] = job[c]
    BY <1>2 DEF RunQuery
  <2>4. CASE pc[c] = "orig_unit" /\ pc'[c] = "orig_cgroup"
    BY <2>1, <2>2, <2>3, <2>4 DEF Covered, Unstarted, Granting, Watched, KillLabels
  <2>5. CASE pc[c] = "s_slice" /\ pc'[c] = "s_match"
    BY <2>1, <2>2, <2>3, <2>5 DEF Covered, Unstarted, Granting, Watched, KillLabels
  <2>6. CASE pc[c] = "s_start" /\ pc'[c] = "s_job"
    BY <2>1, <2>2, <2>3, <2>6 DEF Covered, Unstarted, Granting, Watched, KillLabels
  <2>7. CASE pc[c] = "s_job" /\ pc'[c] = "s_getunit"
    BY <2>1, <2>2, <2>3, <2>7 DEF Covered, Unstarted, Granting, Watched, KillLabels
  <2>8. /\ NextQuery["orig_unit"] = "orig_cgroup" /\ NextQuery["s_slice"] = "s_match"
        /\ NextQuery["s_start"] = "s_job" /\ NextQuery["s_job"] = "s_getunit"
    BY DEF NextQuery
  <2> QED BY <2>1, <2>2, <2>4, <2>5, <2>6, <2>7, <2>8
<1>3. CASE RunSelfUnit(c)
  <2>1. pc'[c] = "orig_unit" /\ wake'[c] = "none"
    BY <1>3, AwaitAt DEF RunSelfUnit
  <2> QED BY <1>3, <2>1, SMTT(30), ZenonT(60)
          DEF RunSelfUnit, RunsOk, Runs,
              Covered, Unstarted, Granting, Watched, KillLabels
<1>4. CASE RunOrigCgroup(c)
  <2>1. pc'[c] \in {"rlog", "s_slice"}
    BY Zenon, <1>4 DEF RunOrigCgroup, Await, IoTo, Types, WaitTypes
  <2> QED BY <1>4, <2>1, SMTT(30), ZenonT(60)
          DEF RunOrigCgroup, RunsOk, Runs,
              Covered, Unstarted, Granting, Watched, KillLabels
<1>5. CASE RunMatch(c)
  <2>1. pc'[c] = "s_start" /\ wake'[c] = "none" /\ scope'[c] = "requested"
    BY <1>5, AwaitAt DEF RunMatch, Types, BusTypes
  <2> QED BY <1>5, <2>1, SMTT(30), ZenonT(60)
          DEF RunMatch, RunsOk, Runs,
              Covered, Unstarted, Granting, Watched, KillLabels
<1>6. CASE RunGetUnit(c)
  <2>1. pc'[c] \in {"elog", "cg_path"}
    BY Zenon, <1>6 DEF RunGetUnit, ErrClose, IoTo, Await, Types, WaitTypes
  <2>2. "scope" \in owned'[c] /\ pidfd'[c] \in {"armed", pidfd[c]}
    BY <1>6 DEF RunGetUnit, Types, OwnTypes
  <2> QED BY <1>6, <2>1, <2>2, SMTT(30), ZenonT(60)
          DEF RunGetUnit, RunsOk, Runs,
              Covered, Unstarted, Granting, Watched, KillLabels
<1>7. CASE RunCgroup(c)
  <2>1. pc'[c] \in {"elog", "read"}
    BY Zenon, <1>7 DEF RunCgroup, ErrClose, IoTo, Types, WaitTypes
  <2>2. "scope" \in owned'[c]
    <3>1. "scope" \in owned[c]
      BY <1>7 DEF RunCgroup, RunsOk, Runs, Covered, Watched
    <3>2. owned' = owned \/ owned' = [owned EXCEPT ![c] = @ \cup {"limit"}]
      BY Zenon, <1>7 DEF RunCgroup
    <3> QED BY <3>1, <3>2 DEF Types, OwnTypes
  <2> QED BY <1>7, <2>1, <2>2, SMTT(30), ZenonT(60)
          DEF RunCgroup, RunsOk, Runs,
              Covered, Unstarted, Granting, Watched, KillLabels
<1>8. CASE RunRead(c)
  <2>1. pc'[c] = "elog" \/ (pc'[c] = "wlog" /\ rate_map'[c] = "limit")
    BY Zenon, <1>8 DEF RunRead, ErrClose, IoTo, StoreLimit, Types, WaitTypes, OwnTypes
  <2> QED BY <1>8, <2>1, SMTT(30), ZenonT(60)
          DEF RunRead, Runs,
              Covered, Unstarted, Granting, Watched, KillLabels
<1>9. CASE RunLogged(c)
  <2>1. pc'[c] = NextIo[pc[c]]
    BY <1>9 DEF RunLogged, IoTo, Types, WaitTypes
  <2>2. pc[c] \in {"rlog", "elog", "wlog"}
    BY <1>9 DEF RunLogged, Runs, LogLabels
  <2>3. /\ owned'[c] = owned[c] /\ disabled'[c] = disabled[c] /\ pidfd'[c] = pidfd[c]
        /\ rate_map'[c] = rate_map[c] /\ proc'[c] = proc[c] /\ answer'[c] = answer[c]
        /\ scope'[c] = scope[c] /\ reply'[c] = reply[c] /\ job'[c] = job[c]
    BY <1>9 DEF RunLogged
  <2>4. CASE pc[c] = "rlog" /\ pc'[c] = "elog"
    BY <2>3, <2>4 DEF Covered, Unstarted, Granting, Watched, KillLabels
  <2>5. CASE pc[c] = "elog" /\ pc'[c] = "efail"
    BY <2>3, <2>5 DEF Covered, Unstarted, Granting, Watched, KillLabels
  <2>6. CASE pc[c] = "wlog" /\ pc'[c] = "wproceed"
    BY <2>3, <2>6 DEF Covered, Unstarted, Granting, Watched, KillLabels
  <2>7. NextIo["rlog"] = "elog" /\ NextIo["elog"] = "efail" /\ NextIo["wlog"] = "wproceed"
    BY DEF NextIo
  <2> QED BY <2>1, <2>2, <2>4, <2>5, <2>6, <2>7
<1>10. CASE RunVerdict(c)
  <2>1. pc'[c] = NextIo[pc[c]]
    <3> DEFINE next == NextIo[pc[c]]
    <3>1. \E st : ShutTo(c, st, next)
      BY <1>10 DEF RunVerdict
    <3> HIDE DEF next
    <3>2. pc'[c] = next
      BY <3>1, ShutToAt
    <3> QED BY <3>2 DEF next
  <2>2. \/ pc[c] = "wproceed" /\ pc'[c] = "wshut"
        \/ pc[c] \in {"rfail", "efail"} /\ pc'[c] \in {"rshut", "eshut"}
        \/ pc[c] = "ifail" /\ pc'[c] = "ishut"
    <3>1. pc[c] \in {"rfail", "efail", "ifail", "wproceed"}
      BY <1>10 DEF RunVerdict, Runs, VerdictLabels
    <3>2. /\ NextIo["rfail"] = "rshut" /\ NextIo["efail"] = "eshut"
          /\ NextIo["ifail"] = "ishut" /\ NextIo["wproceed"] = "wshut"
      BY DEF NextIo
    <3> QED BY <2>1, <3>1, <3>2
  <2>3. /\ owned'[c] = owned[c] /\ disabled'[c] = disabled[c] /\ pidfd'[c] = pidfd[c]
        /\ rate_map'[c] = rate_map[c] /\ proc'[c] = proc[c] /\ answer'[c] = answer[c]
        /\ scope'[c] = scope[c] /\ reply'[c] = reply[c] /\ job'[c] = job[c]
    BY <1>10 DEF RunVerdict
  <2>4. CASE pc[c] = "wproceed" /\ pc'[c] = "wshut"
    BY <2>3, <2>4 DEF Covered, Unstarted, Granting, Watched, KillLabels
  <2>5. CASE pc[c] \in {"rfail", "efail"} /\ pc'[c] \in {"rshut", "eshut"}
    BY <2>3, <2>5 DEF Covered, Unstarted, Granting, Watched, KillLabels
  <2>6. CASE pc[c] = "ifail" /\ pc'[c] = "ishut"
    BY <2>3, <2>6 DEF Covered, Unstarted, Granting, Watched, KillLabels
  <2> QED BY <2>2, <2>4, <2>5, <2>6
<1>11. CASE RunRefused(c)
  BY <1>11, EndTaskAt
     DEF RunRefused, Runs, Covered, Unstarted, Granting, Watched, KillLabels
<1>12. CASE RunGranted(c)
  <2>1. /\ wake'[c] = "none"
        /\ \/ pc'[c] = "kill" /\ proc[c] = "dead" /\ pidfd'[c] = pidfd[c]
           \/ pc'[c] = "wait_exit" /\ pidfd'[c] = "waiting"
    <3>1. AlreadyExited(c) => proc[c] = "dead"
      BY DEF AlreadyExited, Covered
    <3> QED BY <1>12, <3>1, AwaitAt DEF RunGranted, KillTo, Types, OwnTypes
  <2> QED BY <1>12, <2>1, SMTT(30), ZenonT(60)
          DEF RunGranted, Runs,
              Covered, Unstarted, Granting, Watched, KillLabels
<1>13. CASE RunExited(c)
  <2>1. pc'[c] = "kill" /\ wake'[c] = "none"
    BY Zenon, <1>13, AwaitAt DEF RunExited, KillTo
  <2> QED BY <1>13, <2>1, ZenonT(60)
          DEF RunExited, RunsOk, Runs,
              Covered, Unstarted, Granting, Watched, KillLabels
<1>14. CASE RunKilled(c)
  <2>1. pc'[c] = "ended" /\ wake'[c] = "none" /\ pidfd'[c] = "none" /\ reply'[c] = "none"
    BY Zenon, <1>14, EndTaskAt DEF RunKilled, Types, BusTypes
  <2> QED BY <1>14, <2>1, ZenonT(60)
          DEF RunKilled, Runs,
              Covered, Unstarted, Granting, Watched, KillLabels
<1>15. CASE RunBusError(c)
  <2>1. pc'[c] = "elog" /\ job'[c] = "none"
    BY <1>15 DEF RunBusError, ErrClose, IoTo, Types, WaitTypes, BusTypes
  <2> QED BY <1>15, <2>1, SMTT(30), ZenonT(60)
          DEF RunBusError, Runs, BusLabels, QueryLabels,
              Covered, Unstarted, Granting, Watched, KillLabels
<1>16. CASE RunInterrupted(c)
  <2>1. disabled'[c] /\ reply'[c] = "none" /\ job'[c] = "none"
    BY <1>16 DEF RunInterrupted, Types, OtherTypes, BusTypes
  <2>2. CASE TellClient(c)
    <3>1. pc'[c] = "ifail"
      BY Zenon, <1>16, <2>2, IoToAt DEF RunInterrupted
    <3> QED BY Zenon, <1>16, <2>1, <2>2, <3>1
          DEF RunInterrupted, TellClient, Runs, Interruptible, BusLabels, QueryLabels,
              Covered, Unstarted, Granting, Watched, KillLabels
  <2>3. CASE ~TellClient(c)
    <3>1. /\ wake'[c] = "none"
          /\ \/ "scope" \in owned[c] /\ pc'[c] = "ikill" /\ UNCHANGED <<owned, rate_map>>
                  /\ pidfd'[c] \in {"off", pidfd[c]}
             \/ "scope" \notin owned[c] /\ pc'[c] = "ended" /\ pidfd'[c] = "none"
      <4>1. PICK st, watch : KillOrEnd(c, st, watch) /\ watch \in {"off", pidfd[c]}
        BY Zenon, <1>16, <2>3 DEF RunInterrupted
      <4> QED BY <4>1, KillOrEndAt
    <3> QED BY <1>16, <2>1, <2>3, <3>1
          DEF RunInterrupted, Runs, Interruptible, BusLabels, QueryLabels,
              Covered, Unstarted, Granting, Watched, KillLabels
  <2> QED BY <2>2, <2>3
<1>17. CASE RunInterruptTold(c)
  <2>1. pc'[c] \in {"ikill", "ended"} /\ wake'[c] = "none" /\ pidfd'[c] \in {"none", pidfd[c]}
    BY Zenon, <1>17, KillOrEndAt DEF RunInterruptTold
  <2> QED BY <1>17, <2>1, SMTT(30), ZenonT(60)
          DEF RunInterruptTold, Runs,
              Covered, Unstarted, Granting, Watched, KillLabels
<1>18. CASE RunClosed(c)
  BY Zenon, <1>18, SameCovered DEF RunClosed, SameAt
<1> QED BY <1>1, <1>2, <1>3, <1>4, <1>5, <1>6, <1>7, <1>8, <1>9, <1>10, <1>11, <1>12,
           <1>13, <1>14, <1>15, <1>16, <1>17, <1>18 DEF Run

\* So does the event loop when it serves session c.
LEMMA DispatchCovered ==
  ASSUME NEW c \in Conns, Types, Covered(c), Accept(c) \/ DispatchTask(c)
  PROVE  Covered(c)'
<1> USE DEF mainVars, dataVars, clientVars, busVars, taskVars
<1> DEFINE Kept == /\ pc'[c] = pc[c] /\ owned'[c] = owned[c] /\ disabled'[c] = disabled[c]
                   /\ rate_map'[c] = rate_map[c] /\ proc'[c] = proc[c] /\ scope'[c] = scope[c]
<1> DEFINE OffStream == {"s_start", "s_job", "wait_exit", "ikill"}
<1>0. IoLabels \cap OffStream = {}
  BY DEF IoLabels, LogLabels, VerdictLabels, ShutLabels
<1> DEFINE Told == reply'[c] = reply[c] /\ job'[c] = job[c] /\ answer'[c] = answer[c]
<1>1. CASE Accept(c)
  <2>1. pc'[c] = "start"
    BY <1>1 DEF Accept, Types, WaitTypes
  <2> QED BY Zenon, <1>1, <2>1 DEF Accept, Covered, Unstarted, Granting, Watched, KillLabels
<1>2. CASE DispatchRead(c)
  <2>1. Kept /\ Told /\ pidfd'[c] = pidfd[c]
    BY Zenon, <1>2 DEF DispatchRead
  <2>2. wake'[c] = wake[c] \/ pc[c] \notin OffStream
    BY Zenon, <1>0, <1>2 DEF DispatchRead, SetStreamEvent
  <2> QED BY <2>1, <2>2, ZenonT(60) DEF Covered, Unstarted, Granting, Watched, KillLabels
<1>3. CASE DispatchWrite(c)
  <2>1. Kept /\ reply'[c] = reply[c] /\ job'[c] = job[c] /\ pidfd'[c] = pidfd[c]
    BY Zenon, <1>3 DEF DispatchWrite
  <2>2. wake'[c] = wake[c] \/ pc[c] \notin OffStream
    BY Zenon, <1>0, <1>3 DEF DispatchWrite, SetStreamEvent
  <2>3. answer'[c] = answer[c] \/ answer'[c] # "PROCEED" \/ pc[c] = "wproceed"
    BY <1>3 DEF DispatchWrite, Verdict, VerdictLabels, Types, ClientTypes
  <2> QED BY <2>1, <2>2, <2>3, ZenonT(60) DEF Covered, Unstarted, Granting, Watched, KillLabels
<1>4. CASE DispatchHangup(c)
  <2>1. Kept /\ Told /\ pidfd'[c] = pidfd[c]
    BY Zenon, <1>4 DEF DispatchHangup
  <2>2. wake'[c] = wake[c] \/ pc[c] \notin OffStream \/ (wake'[c] = "cancel" /\ ~disabled[c])
    BY <1>0, <1>4 DEF DispatchHangup, InterruptTask, SetStreamEvent, Wake, Types, WaitTypes
  <2> QED BY <2>1, <2>2, SMTT(30), ZenonT(60) DEF Covered, Unstarted, Granting, Watched, KillLabels
<1>5. CASE DispatchIoTimer(c)
  <2>1. Kept /\ Told /\ pidfd'[c] = pidfd[c]
    BY <1>5 DEF DispatchIoTimer
  <2>2. wake'[c] = wake[c] \/ pc[c] \notin OffStream
    BY Zenon, <1>0, <1>5 DEF DispatchIoTimer, SetStreamEvent
  <2> QED BY <2>1, <2>2, SMTT(30), ZenonT(60) DEF Covered, Unstarted, Granting, Watched, KillLabels
<1>6. CASE DispatchPidfd(c)
  <2>1. Kept /\ Told /\ proc[c] = "dead"
    BY Zenon, <1>6 DEF DispatchPidfd
  <2>2. pidfd'[c] = "terminated"
    BY <1>6 DEF DispatchPidfd, Types, OwnTypes
  <2>3. wake'[c] \in {wake[c], "cancel"} \/ (wake'[c] = "ok" /\ pidfd[c] = "waiting")
    BY <1>6 DEF DispatchPidfd, InterruptTask, Wake, Types, WaitTypes
  <2> QED BY <2>1, <2>2, <2>3, SMTT(30), ZenonT(60) DEF Covered, Unstarted, Granting, Watched, KillLabels
<1>7. CASE DispatchQuery(c)
  <2>1. Kept /\ Told /\ pidfd'[c] = pidfd[c] /\ pc[c] \in QueryLabels
    BY Zenon, <1>7 DEF DispatchQuery
  <2> QED BY <2>1, SMTT(30), ZenonT(60) DEF QueryLabels, Covered, Unstarted, Granting, Watched, KillLabels
<1>8. CASE DispatchReply(c)
  <2>1. Kept /\ job'[c] = job[c] /\ answer'[c] = answer[c] /\ pidfd'[c] = pidfd[c] /\ reply[c] # "none"
    BY Zenon, <1>8 DEF DispatchReply
  <2>2. reply'[c] = "none" /\ wake'[c] = reply[c]
    BY <1>8 DEF DispatchReply, Wake, Types, WaitTypes, BusTypes
  <2> QED BY <2>1, <2>2, SMTT(30), ZenonT(60) DEF Covered, Unstarted, Granting, Watched, KillLabels
<1>9. CASE DispatchJobRemoved(c)
  <2>1. Kept /\ reply'[c] = reply[c] /\ answer'[c] = answer[c] /\ pidfd'[c] = pidfd[c]
    BY Zenon, <1>9 DEF DispatchJobRemoved
  <2>2. job'[c] = "none" /\ (wake'[c] = wake[c] \/ (pc[c] = "s_job" /\ wake'[c] = job[c]))
    BY <1>9 DEF DispatchJobRemoved, Wake, Types, WaitTypes, BusTypes
  <2> QED BY <2>1, <2>2, ZenonT(60) DEF Covered, Unstarted, Granting, Watched, KillLabels
<1>10. CASE DispatchEnd(c)
  <2>1. pc'[c] = "freed" /\ pc[c] = "ended"
    BY <1>10 DEF DispatchEnd, Types, WaitTypes
  <2> QED BY <1>10, <2>1 DEF DispatchEnd, Covered, Unstarted, Granting, Watched, KillLabels
<1> QED BY <1>1, <1>2, <1>3, <1>4, <1>5, <1>6, <1>7, <1>8, <1>9, <1>10 DEF DispatchTask

\* The exit signal does not wake a session on its interrupt path.
LEMMA LoopCovered ==
  ASSUME Types, EnforceInv, NEW d \in Conns,
         DispatchOther \/ DispatchSignal \/ DispatchSleepTimer \/ Finish \/ Over
  PROVE  Covered(d)'
<1> USE DEF mainVars, dataVars, clientVars, busVars, taskVars
<1>1. CASE DispatchSignal
  <2>1. wake'[d] = wake[d] \/ (wake'[d] = "cancel" /\ ~disabled[d])
    BY <1>1 DEF DispatchSignal, Types, WaitTypes
  <2> QED BY ZenonT(60), <1>1, <2>1 DEF DispatchSignal, EnforceInv, Covered, Unstarted, Granting, Watched, KillLabels
<1>2. CASE DispatchOther \/ DispatchSleepTimer \/ Finish \/ Over
  <2>1. SameAt(d)
    BY Zenon, <1>2 DEF DispatchOther, DispatchSleepTimer, Finish, Over, vars, SameAt
  <2> QED BY <2>1, SameCovered DEF EnforceInv
<1> QED BY <1>1, <1>2

\* Clients and systemd.  Processes only move towards death, and systemd answers
\* Kill when nothing in the scope is left alive.
LEMMA EnvironmentCovered ==
  ASSUME Types, EnforceInv, "kill" \notin Faults, NEW c \in Conns, Environment(c), NEW d \in Conns
  PROVE  Covered(d)'
<1> USE DEF mainVars, dataVars, clientVars, busVars, taskVars
<1>0. Covered(d) /\ Covered(c)
  BY DEF EnforceInv
<1>1. CASE Connect(c) \/ Proceed(c) \/ GiveUp(c) \/ Die(c)
  <2>1. proc'[d] = "none" => proc[d] = "none"
    BY Zenon, <1>1 DEF Connect, Proceed, GiveUp, Die, Types, ClientTypes
  <2>2. proc[d] = "dead" => proc'[d] = "dead"
    BY <1>1 DEF Connect, Proceed, GiveUp, Die, Types, ClientTypes
  <2>3. /\ pc'[d] = pc[d] /\ wake'[d] = wake[d] /\ owned'[d] = owned[d]
        /\ disabled'[d] = disabled[d] /\ pidfd'[d] = pidfd[d] /\ rate_map'[d] = rate_map[d]
        /\ scope'[d] = scope[d] /\ reply'[d] = reply[d] /\ job'[d] = job[d]
    BY <1>1 DEF Connect, Proceed, GiveUp, Die
  <2>4. answer'[d] = answer[d] \/ answer'[d] # "PROCEED"
    BY <1>1 DEF Connect, Proceed, GiveUp, Die, Types, ClientTypes
  <2>5. CASE proc'[d] = "dead"
    BY Zenon, <1>0, <2>3, <2>5, DeadCovered
  <2>6. CASE proc'[d] # "dead"
    <3>1. proc[d] # "dead"
      BY <2>2, <2>6
    <3> QED BY Zenon, <1>0, <2>1, <2>3, <2>4, <2>6, <3>1, LiveCovered
  <2> QED BY <2>5, <2>6
<1>2. CASE SystemdStart(c)
  <2>1. UNCHANGED <<pc, wake, owned, disabled, pidfd, rate_map, answer, proc, job>>
    BY Zenon, <1>2 DEF SystemdStart
  <2>2. CASE d # c
    BY <1>0, <1>2, <2>1, <2>2, SameCovered DEF SystemdStart, SameAt, Types, BusTypes
  <2>3. CASE d = c
    <3>1. /\ scope[c] = "requested" /\ scope'[c] \in {"queued", "gone"}
          /\ reply'[c] = reply[c] \/ pc[c] = "s_start"
      BY Zenon, <1>2 DEF SystemdStart, Types, BusTypes
    <3> QED BY <1>0, <2>1, <2>3, <3>1, ZenonT(60) DEF Covered, Unstarted, Granting, Watched, KillLabels
  <2> QED BY <2>2, <2>3
<1>3. CASE SystemdJob(c)
  <2>1. UNCHANGED <<pc, wake, owned, disabled, pidfd, rate_map, answer, proc, reply>>
    BY Zenon, <1>3 DEF SystemdJob
  <2>2. CASE d # c
    BY Zenon, <1>0, <1>3, <2>1, <2>2, SameCovered DEF SystemdJob, SameAt, Types, BusTypes
  <2>3. CASE d = c
    <3>1. /\ scope[c] = "queued"
          /\ \/ scope'[c] = "active"
             \/ scope'[c] = "gone" /\ job'[c] \in {job[c], "err"}
      BY Zenon, <1>3 DEF SystemdJob, Types, BusTypes
    <3> QED BY <1>0, <2>1, <2>3, <3>1, ZenonT(60) DEF Covered, Unstarted, Granting, Watched, KillLabels
  <2> QED BY <2>2, <2>3
<1>4. CASE SystemdKill(c)
  <2>1. UNCHANGED <<pc, wake, owned, disabled, pidfd, rate_map, answer, job>>
    BY <1>4 DEF SystemdKill
  <2>2. proc'[d] \in {proc[d], "dead"} /\ (proc'[d] = "none" <=> proc[d] = "none")
    BY <1>4 DEF SystemdKill, Types, ClientTypes
  <2>3. CASE d # c
    <3>1. scope'[d] = scope[d] /\ reply'[d] = reply[d]
      BY <1>4, <2>3 DEF SystemdKill, Types, BusTypes
    <3>2. CASE proc'[d] = proc[d]
      <4>1. SameAt(d)
        BY <2>1, <3>1, <3>2 DEF SameAt
      <4> QED BY <1>0, <4>1, SameCovered
    <3>3. CASE proc'[d] = "dead"
      BY <1>0, <2>1, <3>1, <3>3, DeadCovered
    <3> QED BY <2>2, <3>2, <3>3
  <2>4. CASE d = c
    <3>1. reply'[c] = reply[c] \/ pc[c] \in KillLabels
      BY <1>4 DEF SystemdKill, Types, BusTypes
    <3>2. \/ scope'[c] = "gone" /\ proc'[c] \in {"none", "dead"} /\ scope[c] = "active"
          \/ scope'[c] = scope[c] /\ (scope[c] # "active" \/ proc'[c] \in {"none", "dead"})
      <4>1. c \in Members(c)
        BY DEF Members
      <4>2. CASE scope[c] = "active" /\ scope' = [scope EXCEPT ![c] = "gone"]
        <5>1. scope'[c] = "gone"
          BY <4>2 DEF Types, BusTypes
        <5>2. proc'[c] \in {"none", "dead"} \/ scope' = scope
          BY <1>4, <4>1 DEF SystemdKill
        <5> QED BY <4>2, <5>1, <5>2
      <4>3. CASE UNCHANGED <<scope, proc>>
        BY <1>4, <4>1, <4>3 DEF SystemdKill
      <4> QED BY <1>4, <4>2, <4>3 DEF SystemdKill
    <3>3. Covered(c) /\ proc'[c] \in {proc[c], "dead"}
      BY <1>0, <2>2, <2>4
    <3>4. CASE proc[c] = "none"
      <4>1. pc[c] = "idle" /\ scope[c] = "none"
        BY <3>3, <3>4 DEF Covered, Unstarted
      <4>2. SameAt(c)
        BY <2>1, <2>2, <2>4, <3>1, <3>2, <3>4, <4>1 DEF SameAt, KillLabels
      <4> QED BY <2>4, <3>3, <4>2, SameCovered
    <3>5. CASE proc[c] # "none" /\ proc'[c] = "dead"
      <4>1. scope'[c] = scope[c] \/ (scope[c] = "active" /\ scope'[c] = "gone")
        BY <3>2
      <4> QED BY <2>1, <2>4, <3>1, <3>3, <3>5, <4>1 DEF Covered, KillLabels
    <3>6. CASE proc[c] # "none" /\ proc'[c] # "dead"
      <4>1. proc'[c] = proc[c] /\ scope'[c] = scope[c] /\ scope[c] # "active"
        BY <3>2, <3>3, <3>6
      <4>2. CASE reply'[c] = reply[c]
        BY Zenon, <2>1, <2>4, <3>3, <4>1, <4>2, SameCovered DEF SameAt
      <4>3. CASE pc[c] \in KillLabels
        <5>1. answer[c] # "PROCEED"
          BY Zenon, <3>3, <3>6, <4>1, <4>3 DEF Covered, KillLabels
        <5>2. pc[c] \notin {"s_start", "s_job", "wait_exit"}
          BY <4>3 DEF KillLabels
        <5> QED BY <2>1, <2>4, <3>3, <4>1, <4>3, <5>1, <5>2 DEF Covered
      <4> QED BY <3>1, <4>2, <4>3
    <3> QED BY <3>4, <3>5, <3>6
  <2> QED BY <2>3, <2>4
<1> QED BY <1>1, <1>2, <1>3, <1>4 DEF Environment

\* Every session stays covered, if Kill on a scope does not fail while it has a
\* process.
LEMMA AllCovered ==
  ASSUME "kill" \notin Faults
  PROVE  Spec => []EnforceInv
<1>1. Init => EnforceInv
  <2> SUFFICES ASSUME Init, NEW c \in Conns
               PROVE  Covered(c)
    BY DEF EnforceInv
  <2>1. /\ pc[c] = "idle" /\ scope[c] = "none" /\ reply[c] = "none" /\ job[c] = "none"
        /\ pidfd[c] = "none" /\ answer[c] = "none"
    BY DEF Init
  <2> QED BY Zenon, <2>1 DEF Covered, Unstarted, Granting, Watched
<1>2. OwnInv /\ EnforceInv /\ [Next]_vars => EnforceInv'
  <2> SUFFICES ASSUME OwnInv, EnforceInv, [Next]_vars, NEW d \in Conns
               PROVE  Covered(d)'
    BY DEF EnforceInv
  <2>0. Types /\ \A c \in Conns : Covered(c)
    BY DEF OwnInv, EnforceInv
  <2>1. ASSUME NEW c \in Conns, Run(c) \/ Accept(c) \/ DispatchTask(c) PROVE Covered(d)'
    <3>1. CASE d = c
      BY <2>0, <2>1, <3>1, RunCovered, DispatchCovered
    <3>2. CASE d # c
      BY <2>0, <2>1, <3>2, RunLocal, SameCovered
    <3> QED BY <3>1, <3>2
  <2>2. ASSUME NEW c \in Conns, Environment(c) PROVE Covered(d)'
    BY <2>0, <2>2, EnvironmentCovered
  <2>3. CASE DispatchOther \/ DispatchSignal \/ DispatchSleepTimer \/ Finish \/ Over
    BY <2>0, <2>3, LoopCovered
  <2>4. CASE UNCHANGED vars
    <3>1. SameAt(d)
      BY <2>4 DEF vars, taskVars, dataVars, clientVars, busVars, SameAt
    <3> QED BY <2>0, <3>1, SameCovered
  <2> QED BY <2>1, <2>2, <2>3, <2>4 DEF Next
<1> QED BY <1>1, <1>2, OwnsHold, PTL DEF Spec

\* From PROCEED until the process is dead its cgroup has the limit in the map
\* (main.c:347-401), if Kill on a scope does not fail while it has a process.
THEOREM LimitEnforced ==
  ASSUME "kill" \notin Faults
  PROVE  Spec => []Enforced
<1>1. EnforceInv => Enforced
  BY DEF EnforceInv, Covered, Enforced
<1> QED BY <1>1, AllCovered, PTL

=============================================================================
