------------------------------ MODULE MsgStream ------------------------------
(***************************************************************************)
(* struct msg_stream of se_libs.c as a value: one record per connection,   *)
(* and one operator for each function (or half of a function, when it      *)
(* awaits in the middle) that changes it.  The module has no variables, so *)
(* that MsgStreamUse (one task, one stream) and Daemon (all sessions) use  *)
(* the same operators.                                                     *)
(*                                                                         *)
(*   state    enum {NOOP, WRITE, READ, ERR, END}                           *)
(*   source   the sd-event I/O source exists (stream->source # NULL)       *)
(*   enabled  the source is not SD_EVENT_OFF                               *)
(*   events   the io_events mask of the source                             *)
(*   timer    the I/O timeout is armed (stream->timer # NULL)              *)
(*   target   interrupt.target_task # NULL                                 *)
(*   result   what do_io will return: stream->error if negative, else      *)
(*            io_buf.len; "asked" is the requested length, still untouched *)
(***************************************************************************)

\* The byte count of a read or write, compared with the size asked for.
IoLens == {"zero", "short", "full"}
IoErrors == {"ETIMEDOUT", "EIO", "ESYS"}

Stream == [ state   : {"NOOP", "WRITE", "READ", "ERR", "END"},
            source  : BOOLEAN,
            enabled : BOOLEAN,
            events  : {"none", "IN", "OUT"},
            timer   : BOOLEAN,
            target  : BOOLEAN,
            result  : {"none", "asked"} \cup IoErrors \cup IoLens ]

\* No stream: before init_msg_stream, and once it has been freed.
NoStream ==
  [ state |-> "END", source |-> FALSE, enabled |-> FALSE, events |-> "none",
    timer |-> FALSE, target |-> FALSE, result |-> "none" ]

\* init_msg_stream: no I/O events are requested, but the source is enabled, so
\* a hangup is reported from now on.
init_msg_stream ==
  [ state |-> "NOOP", source |-> TRUE, enabled |-> TRUE, events |-> "none",
    timer |-> FALSE, target |-> FALSE, result |-> "none" ]

msg_stream_reg_interrupt(s, reg) == [s EXCEPT !.target = reg]

-----------------------------------------------------------------------------
(* msg_stream_do_io up to its s_event_wait.                                *)

IoRefused_Never(s) == FALSE

\* On a closed stream do_io returns at once (stream->error, 0 or -EPIPE).
IoRefused(s) == s.state \in {"ERR", "END"}

BeginIo_NoTimer(s, op, timed) ==
  [s EXCEPT !.state = op, !.result = "asked",
            !.events = IF op = "READ" THEN "IN" ELSE "OUT"]

\* The wait has a timeout iff usec # 0; the add_time call stores over the old
\* timer pointer, whatever it was.
BeginIo(s, op, timed) ==
  [s EXCEPT !.state = op, !.result = "asked", !.timer = timed \/ @,
            !.events = IF op = "READ" THEN "IN" ELSE "OUT"]

-----------------------------------------------------------------------------
(* msg_stream_do_io after its s_event_wait.                                *)

CancelIo_KeepTimer(s) ==
  [s EXCEPT !.events = "none", !.state = "NOOP", !.result = "none"]

\* s_event_wait returned -1: the caller gets -EINTR.
CancelIo(s) ==
  [s EXCEPT !.timer = FALSE, !.events = "none", !.state = "NOOP",
            !.result = "none"]

\* The event was set: do_io returns s.result, which is not looked at again.
EndIo(s) == [s EXCEPT !.result = "none"]
IoFailed(s) == s.result \in IoErrors

-----------------------------------------------------------------------------
(* msg_stream_handler and io_timer_handler.  Each ends by setting          *)
(* stream->event, except OnAgain.                                          *)

\* EPOLLIN in state READ or EPOLLOUT in state WRITE: the syscall moved
\* data (or zero bytes), or failed.
OnIo(s, len) == [s EXCEPT !.timer = FALSE, !.result = len,
                          !.state = "NOOP", !.events = "none"]

OnIoError(s) == OnIo(s, "ESYS")

\* The syscall said EAGAIN: the handler returns early, its timer already gone.
OnAgain(s) == [s EXCEPT !.timer = FALSE]

\* Neither EPOLLIN nor EPOLLOUT: EPOLLHUP, or else EPOLLERR.  A hangup leaves
\* io_buf.len as it was.
OnHangup(s, hup) ==
  [s EXCEPT !.timer = FALSE, !.enabled = FALSE,
            !.state = IF hup THEN "END" ELSE "ERR",
            !.result = IF hup THEN @ ELSE "EIO"]

OnTimer_NoError(s) ==
  [s EXCEPT !.state = "NOOP", !.events = "none", !.timer = FALSE]

io_timer_handler(s) ==
  [s EXCEPT !.state = "NOOP", !.result = "ETIMEDOUT", !.events = "none",
            !.timer = FALSE]

-----------------------------------------------------------------------------
\* The end of shutdown_msg_stream, once its zero-length write has returned 0.
Shut(s) == [s EXCEPT !.enabled = FALSE, !.timer = FALSE, !.source = FALSE,
                     !.state = IF @ = "ERR" THEN @ ELSE "END",
                     !.result = "none"]

\* destroy_msg_stream disables both sources and frees the structure.
destroy_msg_stream(s) == NoStream

-----------------------------------------------------------------------------
(* The socket, as sd-event sees it.  AF_UNIX SOCK_SEQPACKET: once the peer *)
(* has gone it is readable, writable and hung up; the few small messages   *)
(* of the protocol never fill the send buffer, so it is always writable.   *)
(* EPOLLHUP is reported whatever the mask.                                 *)

\* hasData: a message is queued; gone: the peer closed its end.
Readable(s, hasData, gone) == s.events = "IN" /\ (hasData \/ gone)
Writable(s) == s.events = "OUT"
HangupOnly(s, hasData, gone) ==
  gone /\ ~Readable(s, hasData, gone) /\ ~Writable(s)
=============================================================================
