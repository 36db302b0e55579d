-------------------------- MODULE ConnectionProofs ---------------------------
(***************************************************************************)
(* The proofs about the two ends of a connection: the message stream that  *)
(* the daemon's tasks read and write it with (MsgStreamUse), and the       *)
(* client (Client).  The two specifications are independent of each other. *)
(*                                                                         *)
(* The safety of msg_stream holds for every sequence of calls of its task, *)
(* of interrupts and of steps of the peer, and any number of queued        *)
(* messages.  Its invariant has two shapes of the stream.  It is armed     *)
(* exactly while its task is inside do_io and the event is not set;        *)
(* otherwise it is quiet, and open iff its state is NOOP.  None of the     *)
(* properties holds by itself: each handler relies on the shape that the   *)
(* one before it left.                                                     *)
(*                                                                         *)
(* The alarm of the client is harmless, for every command line and every   *)
(* daemon.  The invariant says where an alarm can be pending at all: in    *)
(* the receive loop, under the handler, with a wait time, or in a client   *)
(* that has ended without starting the command.  And the request says what *)
(* the command line did, for every width of the integer types.             *)
(***************************************************************************)
EXTENDS MsgStreamUse, Client, TLAPS

-----------------------------------------------------------------------------
(* The stream.                                                             *)

Armed(x) ==
  /\ x.source /\ x.enabled
  /\ \/ x.state = "READ" /\ x.events = "IN"
     \/ x.state = "WRITE" /\ x.events = "OUT"

Quiet(x) ==
  /\ ~x.timer /\ x.events = "none" /\ x.state \in {"NOOP", "END"}
  /\ x.state = "NOOP" => x.source /\ x.enabled

InIo == at \in {"io", "shut"}

StreamInv ==
  /\ TypeOK
  /\ InIo /\ wake # "set" => Armed(s)
  /\ InIo /\ wake = "set" => Quiet(s) /\ s.state = "NOOP" /\ s.result \notin {"none", "asked"}
  /\ ~InIo => Quiet(s)
  /\ at \in {"run", "done"} => wake = "none"
  /\ ret # "asked"

-----------------------------------------------------------------------------
(* What the operators on a stream leave behind.                            *)

\* do_io arms an open stream (se_libs.c:522-550).
LEMMA BeginArms ==
  ASSUME NEW x \in Stream, Quiet(x), ~IoRefused(x), NEW op \in {"READ", "WRITE"},
         NEW timed \in BOOLEAN
  PROVE  BeginIo(x, op, timed) \in Stream /\ Armed(BeginIo(x, op, timed))
<1> DEFINE y == BeginIo(x, op, timed)
<1>1. /\ y \in Stream /\ y.source = x.source /\ y.enabled = x.enabled /\ y.state = op
      /\ y.events = IF op = "READ" THEN "IN" ELSE "OUT"
  BY ZenonT(60) DEF BeginIo, Stream
<1>2. x.state = "NOOP"
  BY DEF Quiet, IoRefused
<1> HIDE DEF y
<1>3. Armed(y)
  BY <1>1, <1>2 DEF Armed, Quiet
<1> QED BY <1>1, <1>3 DEF y

\* The handlers that set the event leave an armed stream quiet, open and with a
\* result (se_libs.c:265-331, 488-497).
LEMMA HandlerQuiets ==
  ASSUME NEW x \in Stream, Armed(x), NEW len \in IoLens \cup IoErrors
  PROVE  /\ OnIo(x, len) \in Stream /\ Quiet(OnIo(x, len)) /\ OnIo(x, len).state = "NOOP"
         /\ OnIo(x, len).result = len
         /\ io_timer_handler(x) = OnIo(x, "ETIMEDOUT") /\ len \notin {"none", "asked"}
<1> DEFINE y == OnIo(x, len)
<1>1. /\ y \in Stream /\ y.source = x.source /\ y.enabled = x.enabled /\ y.state = "NOOP"
      /\ y.events = "none" /\ y.timer = FALSE /\ y.result = len
  BY Zenon DEF OnIo, Stream, IoLens, IoErrors
<1>2. io_timer_handler(x) = OnIo(x, "ETIMEDOUT")
  BY Zenon DEF io_timer_handler, OnIo, Stream
<1> HIDE DEF y
<1>3. Quiet(y)
  BY <1>1 DEF Quiet, Armed
<1>4. len \notin {"none", "asked"}
  BY DEF IoLens, IoErrors
<1> QED BY <1>1, <1>2, <1>3, <1>4 DEF y

\* EAGAIN keeps an armed stream armed (se_libs.c:261-275, 298-300).
LEMMA AgainKeeps ==
  ASSUME NEW x \in Stream, Armed(x)
  PROVE  OnAgain(x) \in Stream /\ Armed(OnAgain(x)) /\ OnAgain(x).state = x.state
<1> DEFINE y == OnAgain(x)
<1>1. /\ y \in Stream /\ y.source = x.source /\ y.enabled = x.enabled /\ y.state = x.state
      /\ y.events = x.events
  BY Zenon DEF OnAgain, Stream
<1> HIDE DEF y
<1> QED BY <1>1 DEF Armed, y

\* An interrupted do_io leaves the stream quiet (se_libs.c:554-566).
LEMMA CancelQuiets ==
  ASSUME NEW x \in Stream, Armed(x)
  PROVE  CancelIo(x) \in Stream /\ Quiet(CancelIo(x))
<1> DEFINE y == CancelIo(x)
<1>1. /\ y \in Stream /\ y.source = x.source /\ y.enabled = x.enabled /\ y.state = "NOOP"
      /\ y.events = "none" /\ y.timer = FALSE
  BY Zenon DEF CancelIo, Stream
<1> HIDE DEF y
<1> QED BY <1>1 DEF Armed, Quiet, y

\* So do the operators that run on a quiet stream, and none reopens it
\* (se_libs.c:317-331, 413-466, 568-572).
LEMMA QuietKept ==
  ASSUME NEW x \in Stream, Quiet(x), NEW reg \in BOOLEAN
  PROVE  /\ EndIo(x) \in Stream /\ Quiet(EndIo(x)) /\ EndIo(x).state = x.state
         /\ Shut(x) \in Stream /\ Quiet(Shut(x)) /\ Shut(x).state = "END"
         /\ OnHangup(x, TRUE) \in Stream /\ Quiet(OnHangup(x, TRUE))
         /\ OnHangup(x, TRUE).state = "END"
         /\ msg_stream_reg_interrupt(x, reg) \in Stream
         /\ Quiet(msg_stream_reg_interrupt(x, reg))
         /\ msg_stream_reg_interrupt(x, reg).state = x.state
<1>1. EndIo(x) \in Stream /\ Quiet(EndIo(x)) /\ EndIo(x).state = x.state
  BY DEF EndIo, Stream, Quiet
<1>2. Shut(x) \in Stream /\ Quiet(Shut(x)) /\ Shut(x).state = "END"
  <2> DEFINE y == Shut(x)
  <2>1. /\ y \in Stream /\ y.timer = FALSE /\ y.events = x.events
        /\ y.state = IF x.state = "ERR" THEN x.state ELSE "END"
    BY Zenon DEF Shut, Stream
  <2> HIDE DEF y
  <2>2. y.state = "END"
    BY <2>1 DEF Quiet
  <2> QED BY <2>1, <2>2 DEF Quiet, y
<1>3. /\ OnHangup(x, TRUE) \in Stream /\ Quiet(OnHangup(x, TRUE))
      /\ OnHangup(x, TRUE).state = "END"
  BY Zenon DEF OnHangup, Stream, Quiet
<1>4. /\ msg_stream_reg_interrupt(x, reg) \in Stream
      /\ Quiet(msg_stream_reg_interrupt(x, reg))
      /\ msg_stream_reg_interrupt(x, reg).state = x.state
  BY DEF msg_stream_reg_interrupt, Stream, Quiet
<1> QED BY Zenon, <1>1, <1>2, <1>3, <1>4

-----------------------------------------------------------------------------
(* The steps.                                                              *)

\* Every step of the task, of a handler, of an interrupt and of the peer keeps
\* the shape of the stream and never reopens it (se_libs.c:252-573).
LEMMA StreamStep == StreamInv /\ [UseNext]_useVars => StreamInv' /\ StaysClosed
<1> SUFFICES ASSUME StreamInv, [UseNext]_useVars PROVE StreamInv' /\ StaysClosed
  OBVIOUS
<1> DEFINE Goal == StreamInv' /\ StaysClosed
<1>t. /\ s \in Stream /\ at \in {"run", "io", "shut", "elsewhere", "done"}
      /\ wake \in {"none", "set", "cancel"} /\ rx \in 0..MaxRx
      /\ peer \in {"open", "gone", "reset"} /\ sent \in BOOLEAN /\ ret # "asked"
      /\ ret \in {"none", "asked", "EINTR", "EPIPE"} \cup IoErrors \cup IoLens
      /\ MaxRx \in Nat
  BY ConstantsAssumption DEF StreamInv, TypeOK
<1>o. InIo => s.state \notin {"END", "ERR"}
  BY <1>t DEF StreamInv, Armed
<1>q. ~InIo => Quiet(s)
  BY DEF StreamInv
<1>i. ASSUME NEW op \in {"READ", "WRITE"}, NEW timed \in BOOLEAN, NEW label \in {"io", "shut"},
             at = "run", StartIo(op, timed, label), UNCHANGED <<wake, sent>>,
             rx' \in 0..MaxRx, peer' \in {"open", "gone", "reset"}
      PROVE  Goal
  <2>1. Quiet(s) /\ wake = "none"
    BY <1>i, <1>q DEF InIo, StreamInv
  <2>2. CASE IoRefused(s)
    <3>1. /\ UNCHANGED <<s, at, wake, sent>> /\ ret' \in {"EIO", "zero", "EPIPE"}
      BY <1>i, <2>2 DEF StartIo
    <3> QED BY <1>i, <1>t, <2>1, <3>1 DEF StreamInv, TypeOK, StaysClosed, InIo, IoErrors, IoLens
  <2>3. CASE ~IoRefused(s)
    <3>1. /\ s' = BeginIo(s, op, timed) /\ at' = label /\ ret' = ret
      BY <1>i, <2>3 DEF StartIo
    <3>2. s' \in Stream /\ Armed(s')
      BY <1>t, <2>1, <2>3, <3>1, BeginArms
    <3>3. StaysClosed
      BY <2>3 DEF StaysClosed, IoRefused
    <3> QED BY <1>i, <1>t, <2>1, <3>1, <3>2, <3>3 DEF StreamInv, TypeOK, InIo
  <2> QED BY <2>2, <2>3
<1>1. CASE ReadOrWrite
  BY Zenon, <1>1, <1>i, <1>t DEF ReadOrWrite
<1>2. CASE StartShutdown
  <2>1. CASE peer = "reset"
    <3>1. UNCHANGED <<s, at, wake, sent, rx>> /\ ret' = "ESYS" /\ peer' = "gone"
      BY <1>2, <2>1 DEF StartShutdown
    <3> QED BY <1>t, <3>1 DEF StreamInv, TypeOK, StaysClosed, InIo, IoErrors
  <2>2. CASE peer # "reset"
    <3>1. /\ at = "run" /\ StartIo("WRITE", FALSE, "shut") /\ UNCHANGED <<wake, sent>>
          /\ rx' = 0 /\ peer' = peer
      BY Zenon, <1>2, <2>2 DEF StartShutdown
    <3>2. rx' \in 0..MaxRx
      BY <1>t, <3>1
    <3> QED BY Zenon, <1>i, <1>t, <3>1, <3>2
  <2> QED BY <2>1, <2>2
\* Steps that leave the stream quiet outside do_io.
<1>k. ASSUME ~InIo, at' \in {"run", "elsewhere", "done"}, s' \in Stream, Quiet(s'),
             wake' \in {"none", "set", "cancel"}, at' # "elsewhere" => wake' = "none",
             UNCHANGED <<ret, rx, peer, sent>>
      PROVE  StreamInv'
  BY <1>k, <1>t DEF StreamInv, TypeOK, InIo
<1>3. CASE WaitElsewhere
  BY <1>3, <1>t, <1>q, <1>k DEF WaitElsewhere, InIo, StaysClosed
<1>4. CASE RegInterrupt
  <2>1. PICK reg \in BOOLEAN : s' = msg_stream_reg_interrupt(s, reg)
    BY <1>4 DEF RegInterrupt
  <2>2. at = "run" /\ wake = "none" /\ Quiet(s) /\ UNCHANGED <<at, wake, ret, rx, peer, sent>>
    BY <1>4, <1>q DEF RegInterrupt, StreamInv, InIo
  <2>3. s' \in Stream /\ Quiet(s') /\ s'.state = s.state
    BY Zenon, <1>t, <2>1, <2>2, QuietKept
  <2> QED BY <1>k, <2>2, <2>3 DEF InIo, StaysClosed
<1>5. CASE Finish
  <2>1. at = "run" /\ wake = "none" /\ Quiet(s) /\ UNCHANGED <<wake, ret, rx, peer, sent>>
    BY <1>5, <1>q DEF Finish, StreamInv, InIo
  <2>2. s' \in Stream /\ Quiet(s') /\ s'.state = "END" /\ at' = "done"
    BY <1>5 DEF Finish, destroy_msg_stream, NoStream, Stream, Quiet
  <2>3. s.state \in {"NOOP", "END"}
    BY <2>1 DEF Quiet
  <2> QED BY <1>k, <2>1, <2>2, <2>3 DEF InIo, StaysClosed
<1>6. CASE Resume
  <2>1. /\ wake # "none" /\ wake' = "none" /\ at' = "run" /\ UNCHANGED <<rx, peer, sent>>
        /\ at \in {"io", "shut", "elsewhere"}
    BY <1>6, <1>t DEF Resume, StreamInv
  <2>2. CASE at = "elsewhere"
    <3>1. UNCHANGED <<s, ret>>
      BY <1>6, <2>2 DEF Resume
    <3> QED BY <1>t, <1>q, <1>k, <2>1, <2>2, <3>1 DEF InIo, StaysClosed
  <2>3. ASSUME InIo, s' \in Stream, Quiet(s'), ret' # "asked",
               ret' \in {"none", "EINTR"} \cup IoErrors \cup IoLens
        PROVE  Goal
    BY <1>t, <1>o, <2>1, <2>3 DEF StreamInv, TypeOK, InIo, StaysClosed
  <2>4. CASE InIo /\ wake = "cancel"
    <3>1. Armed(s) /\ s' = CancelIo(s) /\ ret' = "EINTR"
      BY <1>6, <2>4 DEF Resume, StreamInv, InIo
    <3> QED BY <1>t, <2>3, <2>4, <3>1, CancelQuiets
  <2>5. CASE InIo /\ wake = "set"
    <3>1. /\ Quiet(s) /\ s.result \notin {"none", "asked"} /\ ret' = s.result
          /\ s' \in {Shut(s), EndIo(s)}
      BY <1>6, <2>5 DEF Resume, StreamInv, InIo
    <3>2. s' \in Stream /\ Quiet(s')
      BY Zenon, <1>t, <3>1, QuietKept
    <3>3. s.result \in {"none", "asked"} \cup IoErrors \cup IoLens
      BY <1>t DEF Stream
    <3> QED BY <2>3, <2>5, <3>1, <3>2, <3>3
  <2> QED BY <1>t, <2>1, <2>2, <2>4, <2>5 DEF InIo
\* A handler of the armed stream that sets the event, and one that does not.
<1>s. ASSUME Waiting, InIo, NEW len \in IoLens \cup IoErrors, s' = OnIo(s, len), SetEvent,
             UNCHANGED <<at, ret>>, rx' \in 0..MaxRx, peer' \in {"open", "gone", "reset"},
             sent' \in BOOLEAN
      PROVE  Goal
  <2>1. Armed(s) /\ wake' = "set"
    BY <1>s DEF Waiting, StreamInv, InIo, SetEvent
  <2>2. s' \in Stream /\ Quiet(s') /\ s'.state = "NOOP" /\ s'.result \notin {"none", "asked"}
    BY <1>s, <1>t, <2>1, HandlerQuiets
  <2> QED BY <1>s, <1>t, <1>o, <2>1, <2>2 DEF StreamInv, TypeOK, InIo, StaysClosed
<1>a. ASSUME Waiting, InIo, s' = OnAgain(s), UNCHANGED <<at, wake, ret, rx, peer, sent>>
      PROVE  Goal
  <2>1. Armed(s)
    BY <1>a DEF Waiting, StreamInv, InIo
  <2>2. s' \in Stream /\ Armed(s')
    BY <1>a, <1>t, <2>1, AgainKeeps
  <2> QED BY <1>a, <1>t, <1>o, <2>2 DEF StreamInv, TypeOK, InIo, StaysClosed, Waiting
<1>7. CASE DispatchIn
  <2>1. Waiting /\ s.events = "IN" /\ UNCHANGED <<at, ret, sent>>
    BY <1>7 DEF DispatchIn, Readable
  <2>2. InIo /\ s.state = "READ"
    BY <1>q, <2>1 DEF Quiet, StreamInv, Armed, Waiting
  <2>3. \/ s' = OnAgain(s) /\ UNCHANGED <<wake, rx, peer>>
        \/ SetEvent /\ s' = OnIo(s, "ESYS") /\ rx' = rx /\ peer' = "gone"
        \/ SetEvent /\ (\E len \in IoLens : s' = OnIo(s, len)) /\ peer' = peer
           /\ rx' \in 0..MaxRx
    BY <1>7, <1>t, <2>2 DEF DispatchIn, OnIoError, IoLens
  <2>4. "ESYS" \in IoErrors
    BY DEF IoErrors
  <2> QED BY <1>t, <1>a, <1>s, <2>1, <2>2, <2>3, <2>4
<1>8. CASE DispatchOut
  <2>1. Waiting /\ s.events = "OUT" /\ UNCHANGED <<at, ret, rx>>
    BY <1>8 DEF DispatchOut, Writable
  <2>2. InIo /\ s.state = "WRITE"
    BY <1>q, <2>1 DEF Quiet, StreamInv, Armed, Waiting
  <2>3. \/ s' = OnAgain(s) /\ UNCHANGED <<wake, peer, sent>>
        \/ /\ SetEvent /\ peer' \in {peer, "gone"} /\ sent' \in {sent, TRUE}
           /\ \E len \in {"zero", "full", "ESYS"} : s' = OnIo(s, len)
    BY Zenon, <1>8, <2>2 DEF DispatchOut, OnIoError
  <2>4. {"zero", "full", "ESYS"} \subseteq IoLens \cup IoErrors
    BY DEF IoErrors, IoLens
  <2> QED BY Zenon, <1>t, <1>a, <1>s, <2>1, <2>2, <2>3, <2>4
<1>9. CASE DispatchHangup
  <2>1. /\ Waiting /\ s.events \notin {"IN", "OUT"} /\ s' = OnHangup(s, TRUE)
        /\ UNCHANGED <<at, ret, rx, peer, sent>>
    BY <1>9 DEF DispatchHangup, HangupOnly, Readable, Writable, Gone
  <2>2. ~InIo /\ at = "elsewhere"
    BY <2>1 DEF StreamInv, Armed, Waiting, InIo
  <2>3. wake' \in {"none", "set", "cancel"}
    BY <1>9, <1>t DEF DispatchHangup, SetEvent
  <2>4. s' \in Stream /\ Quiet(s') /\ s'.state = "END" /\ s.state \in {"NOOP", "END"}
    BY Zenon, <1>t, <1>q, <2>1, <2>2, QuietKept DEF Quiet
  <2> QED BY Zenon, <1>k, <2>1, <2>2, <2>3, <2>4 DEF StaysClosed
<1>10. CASE DispatchTimer
  <2>1. /\ Waiting /\ s.timer /\ s' = io_timer_handler(s) /\ SetEvent
        /\ UNCHANGED <<at, ret, rx, peer, sent>>
    BY <1>10 DEF DispatchTimer
  <2>2. InIo /\ Armed(s)
    BY <1>q, <2>1 DEF Quiet, StreamInv, Waiting
  <2>3. "ETIMEDOUT" \in IoLens \cup IoErrors
    BY DEF IoErrors
  <2>4. s' = OnIo(s, "ETIMEDOUT")
    BY <1>t, <2>1, <2>2, <2>3, HandlerQuiets
  <2> QED BY <1>t, <1>s, <2>1, <2>2, <2>3, <2>4
<1>11. CASE DispatchElsewhere
  BY <1>11, <1>t, <1>q, <1>k DEF DispatchElsewhere, InIo, StaysClosed
<1>12. CASE Interrupt
  <2>1. wake = "none" /\ wake' = "cancel" /\ UNCHANGED <<s, at, ret, rx, peer, sent>>
        /\ at \notin {"run", "done"}
    BY <1>12 DEF Interrupt, Waiting
  <2> QED BY <1>t, <2>1 DEF StreamInv, TypeOK, InIo, StaysClosed
<1>13. CASE PeerSends \/ PeerCloses
  <2>1. /\ UNCHANGED <<s, at, wake, ret, sent>> /\ rx' \in 0..MaxRx
        /\ peer' \in {"open", "gone", "reset"}
    BY <1>13, <1>t DEF PeerSends, PeerCloses
  <2> QED BY <1>t, <2>1 DEF StreamInv, TypeOK, InIo, StaysClosed
<1>14. CASE UseOver \/ UNCHANGED useVars
  BY <1>14 DEF UseOver, useVars, StreamInv, TypeOK, InIo, StaysClosed
<1> QED BY <1>1, <1>2, <1>3, <1>4, <1>5, <1>6, <1>7, <1>8, <1>9, <1>10, <1>11, <1>12, <1>13,
           <1>14 DEF UseNext

\* The invariant holds from init_msg_stream on (se_libs.c:336-396).
LEMMA StreamAlways == UseSpec => []StreamInv
<1>1. UseInit => StreamInv
  <2> SUFFICES ASSUME UseInit PROVE StreamInv
    OBVIOUS
  <2>1. s \in Stream /\ Quiet(s)
    BY DEF UseInit, init_msg_stream, Stream, Quiet
  <2>2. 0 \in 0..MaxRx
    BY ConstantsAssumption
  <2> QED BY Zenon, <2>1, <2>2 DEF UseInit, StreamInv, TypeOK, InIo
<1> QED BY <1>1, StreamStep, PTL DEF UseSpec

-----------------------------------------------------------------------------
\* A task inside do_io can always be woken (se_libs.c:265-316).
THEOREM WaitServed == UseSpec => []WaitIsServed
<1>1. StreamInv => WaitIsServed
  BY DEF StreamInv, WaitIsServed, InIo, Armed
<1> QED BY <1>1, StreamAlways, PTL

\* Outside do_io neither the timer nor an event mask stays armed
\* (se_libs.c:488-497, 554-566).
THEOREM NothingArmed == UseSpec => []NothingLeftArmed
<1>1. StreamInv => NothingLeftArmed
  BY DEF StreamInv, NothingLeftArmed, InIo, Quiet
<1> QED BY <1>1, StreamAlways, PTL

\* do_io never returns the length it was asked for by mistake: whenever it comes
\* back from its wait uninterrupted, a handler has stored a result
\* (se_libs.c:554-572).
THEOREM ResultStored == UseSpec => []NoPhantomIo
<1>1. StreamInv => NoPhantomIo
  BY DEF StreamInv, NoPhantomIo
<1> QED BY <1>1, StreamAlways, PTL

\* A stream that is closed stays closed (se_libs.c:488, 564).
THEOREM ClosedFinal == UseSpec => ClosedIsFinal
<1>1. StreamInv /\ [UseNext]_useVars => [StaysClosed]_useVars
  BY StreamStep
<1> QED BY <1>1, StreamAlways, PTL DEF UseSpec, ClosedIsFinal

-----------------------------------------------------------------------------
(* The client.                                                             *)

Loop == {"peek", "blocked", "recv", "interrupted", "alarm0"}

AlarmInv ==
  /\ outcome # "SIGALRM"
  /\ outcome = "running" => pc = "ended"
  /\ alarm => \/ pc \in Loop /\ handler = "timeout_handler" /\ Waits
              \/ pc = "ended" /\ outcome # "running"
  /\ pc \in {"sigaction", "alarm"} => Waits
  /\ pc = "alarm" => handler = "timeout_handler"

\* A step that leaves the alarm, its handler and the options alone may move
\* inside the loop, or end there other than by starting the command.
LEMMA MoveKeeps ==
  ASSUME AlarmInv, UNCHANGED <<handler, options>>,
         pc # "ended", pc' \notin {"sigaction", "alarm"},
         alarm' = alarm, alarm => pc' \in Loop \/ pc' = "ended",
         outcome' # "SIGALRM", outcome' = "running" => outcome = "running" /\ pc' = "ended"
  PROVE  AlarmInv'
<1>1. Waits' = Waits
  BY DEF Waits
<1> QED BY <1>1 DEF AlarmInv, Loop

\* Every system call of the client, every signal and every step of the daemon
\* keeps the invariant (client.c:157-375).
LEMMA AlarmStep == AlarmInv /\ [Next]_vars => AlarmInv'
<1> SUFFICES ASSUME AlarmInv, [Next]_vars PROVE AlarmInv'
  OBVIOUS
<1> USE DEF Goto, End, signals, socket
<1>1. CASE Options
  <2>1. /\ pc = "getopt" /\ UNCHANGED <<handler, alarm>> /\ pc' \in {"getopt", "connect", "ended"}
        /\ outcome' \in {outcome, "usage"}
    BY <1>1 DEF Options, OptPacketRate, OptBitRate, OptWait, EndOptions
  <2> QED BY <2>1 DEF AlarmInv, Loop
<1>2. CASE Connect \/ Send
  <2>1. /\ UNCHANGED <<handler, alarm, options>> /\ pc \in {"connect", "send"}
        /\ pc' \in {"send", "sigaction", "peek", "ended"} /\ (pc' = "sigaction" => Waits)
        /\ outcome' \in {outcome, "error", "SIGPIPE"}
    BY <1>2 DEF Connect, Send
  <2>2. ~alarm /\ outcome # "running" /\ Waits' = Waits
    BY <2>1 DEF AlarmInv, Loop, Waits
  <2> QED BY <2>1, <2>2 DEF AlarmInv
<1>3. CASE SigAction
  BY <1>3 DEF SigAction, AlarmInv, Loop, Waits
<1>4. CASE SetAlarm
  BY <1>4 DEF SetAlarm, AlarmInv, Loop, Waits
<1>5. CASE Peek \/ Interrupted
  <2>1. /\ UNCHANGED <<handler, alarm, options>> /\ pc \in Loop
        /\ pc' \in {"recv", "blocked", "peek", "ended"}
        /\ outcome' \in {outcome, "closed", "timeout", "error"}
    BY <1>5 DEF Peek, Interrupted, OnClosed, Loop
  <2> QED BY <2>1, MoveKeeps DEF AlarmInv, Loop
<1>6. CASE Recv
  <2>1. /\ UNCHANGED <<handler, alarm, options>> /\ pc = "recv"
        /\ pc' \in {"peek", "alarm0", "exec", "ended"}
        /\ outcome' \in {outcome, "refused", "error"} /\ (Waits => pc' # "exec")
    BY <1>6 DEF Recv, Heard, Granted
  <2> QED BY <2>1, MoveKeeps DEF AlarmInv, Loop
<1>7. CASE AlarmOff
  BY <1>7 DEF AlarmOff, CancelAlarm, AlarmInv
<1>8. CASE Restore \/ Exec
  BY <1>8 DEF Restore, Exec, AlarmInv, Loop
<1>9. CASE SigAlrm
  BY <1>9 DEF SigAlrm, AfterSignal, AlarmInv, Loop
<1>10. CASE (\E m \in Messages : DaemonSays(m)) \/ DaemonCloses
  <2>1. UNCHANGED <<pc, outcome, options, handler, alarm>>
    BY <1>10 DEF DaemonSays, DaemonCloses
  <2> QED BY <2>1 DEF AlarmInv, Waits
<1>11. CASE Over \/ UNCHANGED vars
  BY <1>11 DEF Over, vars, AlarmInv, Waits
<1> QED BY <1>1, <1>2, <1>3, <1>4, <1>5, <1>6, <1>7, <1>8, <1>9, <1>10, <1>11 DEF Next, Step

\* SIGALRM kills neither the client nor the command (client.c:259-271, 355-363).
THEOREM AlarmHarmless == Spec => []AlarmKillsNobody
<1>1. Init => AlarmInv
  BY DEF Init, AlarmInv
<1>2. AlarmInv => AlarmKillsNobody
  BY DEF AlarmInv, AlarmKillsNobody
<1> QED BY <1>1, <1>2, AlarmStep, PTL DEF Spec

-----------------------------------------------------------------------------
(* The request says what the command line said.                            *)

\* The rates in struct options are those of the command line, modulo the word, and
\* a request that was sent carries them.
MeantInv ==
  /\ asked.b \in Nat /\ asked.p \in Nat
  /\ options.byte_rate = (asked.b % WORD) \div BITS
  /\ options.packet_rate = asked.p % WORD
  /\ DOMAIN asked = {"b", "p"} /\ DOMAIN options = {"packet_rate", "byte_rate", "wait_time"}
  /\ req # NoReq =>
       /\ pc \notin {"getopt", "connect", "send"}
       /\ req.byte_rate = Limit(options.byte_rate)
       /\ req.packet_rate = Limit(options.packet_rate)

\* The falling cases of parseRate multiply by the power of 1000 the suffix stands
\* for (client.c:68-96).
LEMMA ParsesMeant ==
  ASSUME NEW arg \in RateArgs, RateValid(arg)
  PROVE  Meant(arg) \in Nat /\ parseRate(arg) = Meant(arg) % WORD
<1>1. arg.raw \in Nat /\ KILO \in Nat /\ WORD \in Nat /\ WORD > 1
  <2>1. arg \in [raw : 0..WORD - 1, suffix : STRING]
    BY WidthAssumption DEF RateValid
  <2>2. KILO \in Nat /\ WORD \in Nat /\ WORD > 1
    BY WidthAssumption
  <2> QED BY <2>1, <2>2
<1> DEFINE cases == <<"T", "G", "M", "K">>
           Hit(n) == \E j \in 1..n : cases[j] = arg.suffix
           Factor(n) == IF Hit(n) THEN KILO ELSE 1
<1>2. RateMultiplier(arg.suffix) = Factor(1) * Factor(2) * Factor(3) * Factor(4)
  BY DEF RateMultiplier
<1>3. /\ Hit(1) <=> arg.suffix = "T"
      /\ Hit(2) <=> arg.suffix \in {"T", "G"}
      /\ Hit(3) <=> arg.suffix \in {"T", "G", "M"}
      /\ Hit(4) <=> arg.suffix \in {"T", "G", "M", "K"}
  OBVIOUS
<1>4. arg.suffix \in {"", "K", "M", "G", "T"}
  BY DEF RateValid
<1> HIDE DEF Hit
<1>5. CASE arg.suffix = ""
  <2>1. Factor(1) = 1 /\ Factor(2) = 1 /\ Factor(3) = 1 /\ Factor(4) = 1
    BY <1>3, <1>5
  <2>2. RateMultiplier(arg.suffix) = 1
    BY <1>2, <2>1
  <2>3. Meant(arg) = arg.raw * 1
    BY <1>5, Zenon DEF Meant
  <2> QED BY <1>1, <2>2, <2>3 DEF parseRate
<1>6. CASE arg.suffix = "K"
  BY <1>1, <1>2, <1>3, <1>6 DEF Meant, parseRate
<1>7. CASE arg.suffix = "M"
  BY <1>1, <1>2, <1>3, <1>7 DEF Meant, parseRate
<1>8. CASE arg.suffix = "G"
  BY <1>1, <1>2, <1>3, <1>8 DEF Meant, parseRate
<1>9. CASE arg.suffix = "T"
  BY <1>1, <1>2, <1>3, <1>9 DEF Meant, parseRate
<1> QED BY <1>4, <1>5, <1>6, <1>7, <1>8, <1>9

\* A number that fits is its own remainder, and a quotient is rounded down.
LEMMA Rounding ==
  ASSUME NEW n \in Nat
  PROVE  /\ n < WORD => n % WORD = n
         /\ n \div BITS \in Nat
         /\ BITS * (n \div BITS) <= n /\ n < BITS * ((n \div BITS) + 1)
<1>1. WORD \in Nat /\ BITS \in Nat /\ BITS > 0
  BY WidthAssumption
<1>2. n < WORD => n % WORD = n
  BY <1>1
<1>3. BITS * (n \div BITS) <= n
  BY <1>1
<1>4. n < BITS * (n \div BITS) + BITS
  BY <1>1
<1>5. n \div BITS >= 0 /\ n \div BITS \in Int
  BY <1>1
<1> QED BY <1>1, <1>2, <1>3, <1>4, <1>5

\* Options are read before the request is sent, and it is sent once.
LEMMA MeantStep == MeantInv /\ [Next]_vars => MeantInv'
<1> SUFFICES ASSUME MeantInv, [Next]_vars PROVE MeantInv'
  OBVIOUS
<1> USE DEF Goto, End, signals, socket
<1>1. CASE \E arg \in RateArgs : OptPacketRate(arg)
  <2>1. PICK arg \in RateArgs : OptPacketRate(arg)
    BY <1>1
  <2>2. CASE RateValid(arg)
    <3>1. Meant(arg) \in Nat /\ parseRate(arg) = Meant(arg) % WORD
      BY <2>2, ParsesMeant
    <3>2. /\ pc = "getopt" /\ UNCHANGED req /\ options' = [options EXCEPT !.packet_rate = parseRate(arg)]
          /\ asked' = [asked EXCEPT !.p = Meant(arg)]
      BY <2>1, <2>2 DEF OptPacketRate
    <3> QED BY <3>1, <3>2 DEF MeantInv
  <2>3. CASE ~RateValid(arg)
    BY <2>1, <2>3 DEF OptPacketRate, MeantInv
  <2> QED BY <2>2, <2>3
<1>2. CASE \E arg \in RateArgs : OptBitRate(arg)
  <2>1. PICK arg \in RateArgs : OptBitRate(arg)
    BY <1>2
  <2>2. CASE RateValid(arg)
    <3>1. Meant(arg) \in Nat /\ parseRate(arg) = Meant(arg) % WORD
      BY <2>2, ParsesMeant
    <3>2. /\ pc = "getopt" /\ UNCHANGED req /\ options' = [options EXCEPT !.byte_rate = parseRate(arg) \div BITS]
          /\ asked' = [asked EXCEPT !.b = Meant(arg)]
      BY <2>1, <2>2 DEF OptBitRate
    <3> QED BY <3>1, <3>2 DEF MeantInv
  <2>3. CASE ~RateValid(arg)
    BY <2>1, <2>3 DEF OptBitRate, MeantInv
  <2> QED BY <2>2, <2>3
<1>3. CASE (\E arg \in TimeArgs : OptWait(arg)) \/ EndOptions
  BY <1>3 DEF OptWait, EndOptions, MeantInv
<1>4. CASE Send
  <2>1. pc = "send" /\ req = NoReq /\ UNCHANGED <<options, asked>> /\ pc' # "send" /\ pc' # "getopt" /\ pc' # "connect"
    BY <1>4 DEF Send, MeantInv
  <2>2. req' = req \/ req' = [byte_rate |-> Limit(options.byte_rate), packet_rate |-> Limit(options.packet_rate)]
    BY <1>4 DEF Send
  <2> QED BY <2>1, <2>2 DEF MeantInv
<1>5. CASE Connect
  BY <1>5 DEF Connect, MeantInv
<1>6. ASSUME UNCHANGED <<options, asked, req>>, pc' \notin {"getopt", "connect", "send"} \/ pc' = pc PROVE MeantInv'
  BY <1>6 DEF MeantInv
<1>7. CASE SigAction \/ SetAlarm \/ Peek \/ Recv \/ Interrupted \/ AlarmOff \/ Restore \/ Exec
  BY <1>6, <1>7 DEF SigAction, SetAlarm, Peek, OnClosed, Recv, Heard, Granted, Interrupted, AlarmOff, CancelAlarm,
     Restore, Exec
<1>8. CASE SigAlrm \/ (\E m \in Messages : DaemonSays(m)) \/ DaemonCloses \/ Over \/ UNCHANGED vars
  BY <1>6, <1>8 DEF SigAlrm, AfterSignal, DaemonSays, DaemonCloses, Over, vars
<1> QED BY <1>1, <1>2, <1>3, <1>4, <1>5, <1>7, <1>8 DEF Next, Step, Options

\* For every width of the types and every command line, the request carries the rates
\* it names, the bit rate rounded down to bytes, and never the rate 0
\* (client.c:68-96, 170, 248-249).
THEOREM RequestMeant == Spec => []AsksWhatWasMeant
<1>0. WORD \in Nat /\ WORD > 1 /\ BITS \in Nat /\ BITS > 0
  BY WidthAssumption
<1>1. Init => MeantInv
  <2>1. 0 % WORD = 0 /\ 0 \div BITS \in Nat /\ BITS * (0 \div BITS) <= 0
    BY <1>0, Rounding
  <2>2. 0 \div BITS = 0
    BY <1>0
  <2> QED BY <2>1, <2>2 DEF Init, MeantInv
<1>2. MeantInv => AsksWhatWasMeant
  <2> SUFFICES ASSUME MeantInv, req # NoReq
               PROVE  /\ asked.b \in BITS..WORD - 1 =>
                           BITS * req.byte_rate <= asked.b /\ asked.b < BITS * (req.byte_rate + 1)
                      /\ asked.p \in 1..WORD - 1 => req.packet_rate = asked.p
                      /\ asked.b = 0 => req.byte_rate = RATE_UNLIMITED
                      /\ asked.p = 0 => req.packet_rate = RATE_UNLIMITED
                      /\ req.byte_rate # 0 /\ req.packet_rate # 0
    BY DEF AsksWhatWasMeant
  <2>1. req.byte_rate = Limit((asked.b % WORD) \div BITS) /\ req.packet_rate = Limit(asked.p % WORD)
    BY DEF MeantInv
  <2>2. req.byte_rate # 0 /\ req.packet_rate # 0
    BY <1>0, <2>1 DEF Limit, RATE_UNLIMITED
  <2>3. asked.p \in 1..WORD - 1 => req.packet_rate = asked.p
    BY <1>0, <2>1, Rounding DEF Limit
  <2>4. 0 % WORD = 0 /\ 0 \div BITS = 0
    BY <1>0
  <2>5. asked.b = 0 => req.byte_rate = RATE_UNLIMITED
    BY <2>1, <2>4 DEF Limit
  <2>6. asked.p = 0 => req.packet_rate = RATE_UNLIMITED
    BY <2>1, <2>4 DEF Limit
  <2>7. ASSUME asked.b \in BITS..WORD - 1
        PROVE  BITS * req.byte_rate <= asked.b /\ asked.b < BITS * (req.byte_rate + 1)
    <3>1. asked.b \in Nat /\ asked.b % WORD = asked.b /\ asked.b >= BITS
      BY <1>0, <2>7, Rounding
    <3>2. /\ asked.b \div BITS \in Nat
          /\ BITS * (asked.b \div BITS) <= asked.b /\ asked.b < BITS * ((asked.b \div BITS) + 1)
      BY <3>1, Rounding
    <3>3. asked.b \div BITS # 0
      <4> DEFINE q == asked.b \div BITS
      <4>1. q \in Nat /\ asked.b < BITS * (q + 1)
        BY <3>2
      <4> HIDE DEF q
      <4>2. q # 0
        BY <1>0, <3>1, <4>1
      <4> QED BY <4>2 DEF q
    <3>4. req.byte_rate = asked.b \div BITS
      BY <2>1, <3>1, <3>3 DEF Limit
    <3> QED BY <3>2, <3>4
  <2> QED BY <2>2, <2>3, <2>5, <2>6, <2>7
<1> QED BY <1>1, <1>2, MeantStep, PTL DEF Spec
=============================================================================
