---------------------------- MODULE MsgStreamUse -----------------------------
(***************************************************************************)
(* One coroutine that uses one msg_stream in any order its interface       *)
(* allows: timed reads and writes, waits on something else (a bus call),   *)
(* (un)registering the interrupt, a shutdown, and the end of the task.     *)
(* Against it run the event loop (the stream's handler and timer), other   *)
(* sources of interrupts, and the peer, which may send, stay silent or go  *)
(* away at any time.                                                       *)
(*                                                                         *)
(* The event loop runs every ready coroutine up to its next wait between   *)
(* two dispatches (main.c:499-501), so a handler only runs while the task  *)
(* waits and has not been woken.                                           *)
(***************************************************************************)
EXTENDS MsgStream, Naturals

CONSTANT MaxRx   \* messages queued towards us, at most

ASSUME ConstantsAssumption == MaxRx \in Nat

VARIABLES s,      \* the stream
          at,     \* "run", or what the task waits for, or "done"
          wake,   \* "set": its event was set; "cancel": s_task_cancel_wait
          ret,    \* what the last stream call returned
          rx,     \* messages queued in the socket
          peer,   \* "open", "gone", or "reset": gone with unread messages
          sent    \* something was written to the peer

useVars == <<s, at, wake, ret, rx, peer, sent>>

Gone == peer # "open"
Waiting == at \in {"io", "shut", "elsewhere"} /\ wake = "none"

TypeOK ==
  /\ s \in Stream
  /\ at \in {"run", "io", "shut", "elsewhere", "done"}
  /\ wake \in {"none", "set", "cancel"}
  /\ ret \in {"none", "asked", "EINTR", "EPIPE"} \cup IoErrors \cup IoLens
  /\ rx \in 0..MaxRx
  /\ peer \in {"open", "gone", "reset"}
  /\ sent \in BOOLEAN

UseInit ==
  /\ s = init_msg_stream
  /\ at = "run" /\ wake = "none" /\ ret = "none"
  /\ rx = 0 /\ peer = "open" /\ sent = FALSE

-----------------------------------------------------------------------------
(* The task.                                                               *)

\* msg_stream_do_io up to the wait; reading and writing messages is timed.
StartIo(op, timed, label) ==
  IF IoRefused(s)
    THEN /\ ret' = IF s.state = "ERR" THEN "EIO"
                   ELSE IF op = "READ" THEN "zero" ELSE "EPIPE"
         /\ UNCHANGED <<s, at>>
    ELSE /\ s' = BeginIo(s, op, timed)
         /\ at' = label
         /\ UNCHANGED ret

ReadOrWrite ==
  /\ at = "run" /\ s.source
  /\ \E op \in {"READ", "WRITE"} : StartIo(op, TRUE, "io")
  /\ UNCHANGED <<wake, rx, peer, sent>>

\* shutdown_msg_stream: drain, then an untimed write of zero bytes.  A pending
\* socket error makes recv fail, and the function returns early.
StartShutdown ==
  /\ at = "run" /\ s.source
  /\ IF peer = "reset"
       THEN /\ ret' = "ESYS" /\ peer' = "gone"
            /\ UNCHANGED <<s, at, rx>>
       ELSE /\ rx' = 0
            /\ StartIo("WRITE", FALSE, "shut")
            /\ UNCHANGED peer
  /\ UNCHANGED <<wake, sent>>

WaitElsewhere ==
  /\ at = "run"
  /\ at' = "elsewhere"
  /\ UNCHANGED <<s, wake, ret, rx, peer, sent>>

RegInterrupt ==
  /\ at = "run"
  /\ \E reg \in BOOLEAN : s' = msg_stream_reg_interrupt(s, reg)
  /\ UNCHANGED <<at, wake, ret, rx, peer, sent>>

\* The task returns and destroy_msg_stream runs from its memory_to_free list.
Finish ==
  /\ at = "run"
  /\ at' = "done"
  /\ s' = destroy_msg_stream(s)
  /\ UNCHANGED <<wake, ret, rx, peer, sent>>

\* The task runs again after its wait: the second half of do_io, the rest of
\* shutdown_msg_stream, or the return of the other wait.
Resume ==
  /\ wake # "none"
  /\ wake' = "none" /\ at' = "run"
  /\ IF at = "elsewhere" THEN UNCHANGED <<s, ret>>
     ELSE IF wake = "cancel" THEN s' = CancelIo(s) /\ ret' = "EINTR"
     ELSE /\ ret' = s.result
          /\ s' = IF at = "shut" /\ ~IoFailed(s) THEN Shut(s) ELSE EndIo(s)
  /\ UNCHANGED <<rx, peer, sent>>

-----------------------------------------------------------------------------
(* The event loop.                                                         *)

\* s_event_set(&stream->event): wakes the task if that is what it waits for.
SetEvent == wake' = IF at \in {"io", "shut"} THEN "set" ELSE wake

\* EPOLLIN: read() returns the pending error first, then data, then 0; or the
\* readiness was spurious and it answers EAGAIN.
DispatchIn ==
  /\ Waiting /\ s.source /\ s.enabled /\ Readable(s, rx > 0, Gone)
  /\ IF s.state # "READ" THEN s' = OnAgain(s) /\ UNCHANGED <<wake, rx, peer>>
     ELSE \/ /\ peer = "reset"
             /\ s' = OnIoError(s) /\ peer' = "gone" /\ SetEvent
             /\ UNCHANGED rx
          \/ /\ peer # "reset" /\ rx > 0
             /\ \E len \in {"short", "full"} : s' = OnIo(s, len)
             /\ rx' = rx - 1 /\ SetEvent
             /\ UNCHANGED peer
          \/ /\ peer = "gone" /\ rx = 0
             /\ s' = OnIo(s, "zero") /\ SetEvent
             /\ UNCHANGED <<rx, peer>>
          \/ s' = OnAgain(s) /\ UNCHANGED <<wake, rx, peer>>
  /\ UNCHANGED <<at, ret, sent>>

\* EPOLLOUT: the write of shutdown_msg_stream is empty and makes no syscall.
DispatchOut ==
  /\ Waiting /\ s.source /\ s.enabled /\ Writable(s)
  /\ IF s.state # "WRITE" THEN s' = OnAgain(s) /\ UNCHANGED <<wake, peer, sent>>
     ELSE \/ /\ at = "shut"
             /\ s' = OnIo(s, "zero") /\ SetEvent
             /\ UNCHANGED <<peer, sent>>
          \/ /\ at # "shut" /\ ~Gone
             /\ s' = OnIo(s, "full") /\ sent' = TRUE /\ SetEvent
             /\ UNCHANGED peer
          \/ /\ at # "shut" /\ Gone
             /\ s' = OnIoError(s) /\ peer' = "gone" /\ SetEvent
             /\ UNCHANGED sent
          \/ /\ at # "shut"
             /\ s' = OnAgain(s) /\ UNCHANGED <<wake, peer, sent>>
  /\ UNCHANGED <<at, ret, rx>>

\* Only EPOLLHUP: besides setting the event the handler interrupts the
\* registered task, whatever that task waits for.
DispatchHangup ==
  /\ Waiting /\ s.source /\ s.enabled /\ HangupOnly(s, rx > 0, Gone)
  /\ s' = OnHangup(s, TRUE)
  /\ IF s.target THEN wake' = "cancel" ELSE SetEvent
  /\ UNCHANGED <<at, ret, rx, peer, sent>>

DispatchTimer ==
  /\ Waiting /\ s.timer
  /\ s' = io_timer_handler(s) /\ SetEvent
  /\ UNCHANGED <<at, ret, rx, peer, sent>>

\* The other thing the task waited for has happened.
DispatchElsewhere ==
  /\ Waiting /\ at = "elsewhere"
  /\ wake' = "set"
  /\ UNCHANGED <<s, at, ret, rx, peer, sent>>

\* interrupt_task from another source: a signal, or the end of the process.
Interrupt ==
  /\ Waiting
  /\ wake' = "cancel"
  /\ UNCHANGED <<s, at, ret, rx, peer, sent>>

-----------------------------------------------------------------------------
(* The peer.                                                               *)

PeerSends ==
  /\ ~Gone /\ rx < MaxRx /\ s.state # "END"
  /\ rx' = rx + 1
  /\ UNCHANGED <<s, at, wake, ret, peer, sent>>

PeerCloses ==
  /\ ~Gone
  /\ \/ peer' = "gone"
     \/ sent /\ peer' = "reset"
  /\ UNCHANGED <<s, at, wake, ret, rx, sent>>

\* The task is over and its stream destroyed: nothing more happens to it.
UseOver == at = "done" /\ UNCHANGED useVars

UseNext ==
  \/ ReadOrWrite \/ StartShutdown \/ WaitElsewhere \/ RegInterrupt \/ Finish
  \/ Resume
  \/ DispatchIn \/ DispatchOut \/ DispatchHangup \/ DispatchTimer
  \/ DispatchElsewhere \/ Interrupt
  \/ PeerSends \/ PeerCloses
  \/ UseOver

UseSpec == UseInit /\ [][UseNext]_useVars

\* The loop resumes ready tasks and serves ready descriptors and due timers, and
\* a descriptor that stays ready does not answer EAGAIN for ever; nothing is
\* assumed of the peer, of interrupts or of the other wait.
FairUseSpec ==
  /\ UseSpec
  /\ WF_useVars(Resume) /\ WF_useVars(DispatchTimer)
  /\ WF_useVars(DispatchIn /\ s' # OnAgain(s)) /\ WF_useVars(DispatchOut /\ s' # OnAgain(s))

-----------------------------------------------------------------------------
(* Properties.                                                             *)

\* A task suspended inside msg_stream_do_io can still be woken: the source is
\* there, enabled, and asks for exactly the event that the handler's test on
\* stream->state will accept (se_libs.c:265-316), so it neither sleeps for ever
\* on a closed stream nor has its handler spin without effect.
WaitIsServed ==
  at \in {"io", "shut"} /\ wake = "none" =>
    /\ s.source /\ s.enabled
    /\ \/ s.state = "READ" /\ s.events = "IN"
       \/ s.state = "WRITE" /\ s.events = "OUT"

\* Outside do_io nothing of the stream is armed: no timer that would later fire
\* into another operation, or after the source is gone, where io_timer_handler
\* asserts it (se_libs.c:485), and no event mask that keeps the loop spinning.
NothingLeftArmed ==
  at \in {"run", "elsewhere", "done"} => ~s.timer /\ s.events = "none"

\* do_io never reports the requested length of an operation that moved nothing:
\* io_buf.len is returned (se_libs.c:568-572) only after a handler stored the
\* result of a syscall in it.
NoPhantomIo == ret # "asked"

\* A hangup is final: END and ERR are never left, even though CancelIo and the
\* timer handler store NOOP without looking (se_libs.c:488, 564).
StaysClosed == s.state \in {"END", "ERR"} => s'.state = s.state

ClosedIsFinal == [][StaysClosed]_useVars

\* A read or write of a message ends even if the peer stays silent for ever: the
\* timeout armed by do_io (se_libs.c:536-544) is not lost.  The untimed write of
\* shutdown_msg_stream (se_libs.c:436) ends as well.
IoEnds == \A op \in {"io", "shut"} : at = op ~> at # op
=============================================================================
