------------------------------- MODULE Client --------------------------------
(***************************************************************************)
(* traffic-limit, the client: it asks the daemon for a limit, waits for    *)
(* the verdict under an alarm, and replaces itself by the command.         *)
(*                                                                         *)
(* A step is one system call, since SIGALRM may arrive between any two:    *)
(* alarm(2) survives exec, a handler does not.  The daemon is the one the  *)
(* protocol describes: log messages, at most one verdict, a close.  The    *)
(* --fork option, which only leaves a child behind for debugging, is out.  *)
(***************************************************************************)
EXTENDS Integers, Sequences, Functions

CONSTANTS RateArgs, TimeArgs,   \* arguments: [raw, suffix], or Garbage
          Garbage,              \* an argument sscanf does not take for a number
          WORD, UNSIGNED,       \* 2^64 and 2^32, the widths of uint64_t and unsigned
          KILO, MINUTE, HOUR, DAY, BITS,   \* 1000, 60, 60, 24 and 8
          MaxQueue              \* messages in the socket, at most

ASSUME WidthAssumption ==
  /\ {KILO, MINUTE, HOUR, DAY, BITS, UNSIGNED, MaxQueue} \subseteq Nat \ {0}
  /\ WORD \in Nat /\ WORD > 1 /\ Garbage \notin [raw : 0..WORD - 1, suffix : STRING]
  /\ RateArgs \cup TimeArgs \subseteq [raw : 0..WORD - 1, suffix : STRING] \cup {Garbage}

VARIABLES
  pc,         \* the next system call, or "ended"
  outcome,    \* how it ended: "usage", "error", "closed", "refused", "timeout", a
              \* signal, or "running" the command; "none" before that
  options,    \* struct options
  asked,      \* what the last -b and -p said, without overflow (auxiliary)
  req,        \* the limits of the request, once it is sent
  handler,    \* of SIGALRM
  alarm,      \* whether an alarm is pending
  triggered,  \* timeout_triggered
  missed,     \* the alarm went off outside the blocking recv (auxiliary)
  sock,       \* messages from the daemon that are not read yet
  said        \* what the daemon did: "nothing" yet, its verdict, or it "closed" the
              \* connection, with a "reset" if the request was still unread

vars == <<pc, outcome, options, asked, req, handler, alarm, triggered, missed,
          sock, said>>

RATE_UNLIMITED == WORD - 1
NoReq == [byte_rate |-> 0, packet_rate |-> 0]

Messages == {"LOG", "FAIL", "PROCEED"}

Init ==
  /\ pc = "getopt" /\ outcome = "none"
  /\ options = [packet_rate |-> 0, byte_rate |-> 0, wait_time |-> -1]
  /\ asked = [b |-> 0, p |-> 0] /\ req = NoReq
  /\ handler = "SIG_DFL" /\ alarm = FALSE /\ triggered = FALSE /\ missed = FALSE
  /\ sock = <<>> /\ said = "nothing"

socket == <<sock, said>>
signals == <<handler, alarm, triggered, missed>>

Goto(call) == pc' = call /\ UNCHANGED outcome
End(how) == pc' = "ended" /\ outcome' = how

-----------------------------------------------------------------------------
(* The options.                                                            *)

RateMultiplier_NoFallThrough(suffix) == IF suffix = "" THEN 1 ELSE KILO

\* Every case falls through to the next one.
RateMultiplier(suffix) ==
  LET cases == <<"T", "G", "M", "K">>
      Hit(i) == \E j \in 1..i : cases[j] = suffix
      Factor(i) == IF Hit(i) THEN KILO ELSE 1
  IN Factor(1) * Factor(2) * Factor(3) * Factor(4)

TimeMultiplier(suffix) ==
  (IF suffix = "d" THEN DAY ELSE 1) * (IF suffix \in {"d", "h"} THEN HOUR ELSE 1)
    * (IF suffix \in {"d", "h", "m"} THEN MINUTE ELSE 1)

RateValid(arg) == arg # Garbage /\ arg.suffix \in {"", "K", "M", "G", "T"}

parseRate(arg) == (arg.raw * RateMultiplier(arg.suffix)) % WORD

\* A uint64_t stored in an int64_t.
Signed(n) == IF 2 * n < WORD THEN n ELSE n - WORD

TimeValid(arg) ==
  arg # Garbage /\ Signed(arg.raw) >= 0 /\ arg.suffix \in {"", "m", "h", "d"}

parseTime(arg) == Signed((arg.raw * TimeMultiplier(arg.suffix)) % WORD)

\* The value of a rate argument as it was written.
Meant(arg) ==
  arg.raw * [n \in {"", "K", "M", "G", "T"} |->
               CASE n = "" -> 1 [] n = "K" -> KILO [] n = "M" -> KILO * KILO
                 [] n = "G" -> KILO * KILO * KILO
                 [] n = "T" -> KILO * KILO * KILO * KILO][arg.suffix]

OptPacketRate(arg) ==
  /\ pc = "getopt"
  /\ IF RateValid(arg)
       THEN /\ options' = [options EXCEPT !.packet_rate = parseRate(arg)]
            /\ asked' = [asked EXCEPT !.p = Meant(arg)] /\ UNCHANGED <<pc, outcome>>
       ELSE End("usage") /\ UNCHANGED <<options, asked>>
  /\ UNCHANGED <<req, signals, socket>>

OptBitRate(arg) ==
  /\ pc = "getopt"
  /\ IF RateValid(arg)
       THEN /\ options' = [options EXCEPT !.byte_rate = parseRate(arg) \div BITS]
            /\ asked' = [asked EXCEPT !.b = Meant(arg)] /\ UNCHANGED <<pc, outcome>>
       ELSE End("usage") /\ UNCHANGED <<options, asked>>
  /\ UNCHANGED <<req, signals, socket>>

OptWait(arg) ==
  /\ pc = "getopt"
  /\ IF TimeValid(arg)
       THEN /\ options' = [options EXCEPT !.wait_time = parseTime(arg)]
            /\ UNCHANGED <<pc, outcome>>
       ELSE End("usage") /\ UNCHANGED options
  /\ UNCHANGED <<asked, req, signals, socket>>

\* --help, an unknown option or no command ends it; else there is a command.
EndOptions ==
  /\ pc = "getopt"
  /\ Goto("connect") \/ End("usage")
  /\ UNCHANGED <<options, asked, req, signals, socket>>

-----------------------------------------------------------------------------
(* The request.                                                            *)

Connect ==
  /\ pc = "connect"
  /\ Goto("send") \/ End("error")
  /\ UNCHANGED <<options, asked, req, signals, socket>>

Limit(rate) == IF rate = 0 THEN RATE_UNLIMITED ELSE rate

Waits == options.wait_time > 0

\* A send to a closed connection raises SIGPIPE.
Send ==
  /\ pc = "send"
  /\ IF said = "closed" THEN End("SIGPIPE") /\ UNCHANGED req
     ELSE /\ req' = [byte_rate |-> Limit(options.byte_rate),
                     packet_rate |-> Limit(options.packet_rate)]
          /\ Goto(IF Waits THEN "sigaction" ELSE "peek")
  /\ UNCHANGED <<options, asked, signals, socket>>

SigAction ==
  /\ pc = "sigaction"
  /\ handler' = "timeout_handler"
  /\ Goto("alarm")
  /\ UNCHANGED <<options, asked, req, alarm, triggered, missed, socket>>

\* alarm() takes an unsigned; alarm(0) arms nothing.
SetAlarm ==
  /\ pc = "alarm"
  /\ alarm' = (options.wait_time % UNSIGNED # 0)
  /\ Goto("peek")
  /\ UNCHANGED <<options, asked, req, handler, triggered, missed, socket>>

-----------------------------------------------------------------------------
(* The receive loop.                                                       *)

OnClosed_Retries == Goto("peek")

\* recv returned 0.
OnClosed == End("closed")

\* The recv with MSG_PEEK blocks until there is a message, the end or an error.
\* recv reports a reset before the messages that came first.
Peek ==
  /\ pc \in {"peek", "blocked"}
  /\ \/ said = "reset" /\ End("error")
     \/ said # "reset" /\ sock # <<>> /\ Goto("recv")
     \/ said = "closed" /\ sock = <<>> /\ OnClosed
     \/ pc = "peek" /\ sock = <<>> /\ said \notin {"closed", "reset"} /\ Goto("blocked")
  /\ UNCHANGED <<options, asked, req, signals, socket>>

Granted == Goto(IF Waits THEN "alarm0" ELSE "exec")

Heard_FailIsLog(m) ==
  \/ m \in {"LOG", "FAIL"} /\ Goto("peek")
  \/ m = "PROCEED" /\ Granted

\* The switch on the message's type.  A malformed message ends the client like a
\* failure.
Heard(m) ==
  \/ m = "LOG" /\ Goto("peek")
  \/ m = "FAIL" /\ End("refused")
  \/ m = "PROCEED" /\ Granted

\* The recv with MSG_DONTWAIT takes the message that was peeked at.
Recv ==
  /\ pc = "recv"
  /\ IF said = "reset" THEN End("error") /\ UNCHANGED sock
     ELSE Heard(Head(sock)) /\ sock' = Tail(sock)
  /\ UNCHANGED <<options, asked, req, signals, said>>

Interrupted ==
  /\ pc = "interrupted"
  /\ IF Waits /\ triggered THEN End("timeout") ELSE Goto("peek")
  /\ UNCHANGED <<options, asked, req, signals, socket>>

CancelAlarm_Skipped == Goto("signal") /\ UNCHANGED alarm

\* alarm(0)
CancelAlarm == Goto("signal") /\ alarm' = FALSE

AlarmOff ==
  /\ pc = "alarm0"
  /\ CancelAlarm
  /\ UNCHANGED <<options, asked, req, handler, triggered, missed, socket>>

Restore ==
  /\ pc = "signal"
  /\ handler' = "SIG_DFL"
  /\ Goto("exec")
  /\ UNCHANGED <<options, asked, req, alarm, triggered, missed, socket>>

\* The command has no handler of the client's.
Exec ==
  /\ pc = "exec"
  /\ End("running") \/ End("error")
  /\ handler' = "SIG_DFL"
  /\ UNCHANGED <<options, asked, req, alarm, triggered, missed, socket>>

-----------------------------------------------------------------------------
(* The alarm clock and the daemon.                                         *)

AfterSignal_Restarts == UNCHANGED <<pc, outcome>>

\* sa_flags is 0: a recv that blocks is not restarted.
AfterSignal == IF pc = "blocked" THEN Goto("interrupted") ELSE UNCHANGED <<pc, outcome>>

SigAlrm ==
  /\ alarm /\ (pc # "ended" \/ outcome = "running")
  /\ alarm' = FALSE
  /\ IF handler = "timeout_handler" THEN triggered' = TRUE /\ AfterSignal
     ELSE End("SIGALRM") /\ UNCHANGED triggered
  /\ missed' = ~(pc = "blocked")
  /\ UNCHANGED <<options, asked, req, handler, socket>>

\* PROCEED comes only after the request was read; a refusal needs none.
DaemonSays(m) ==
  /\ pc \notin {"getopt", "connect"} /\ said = "nothing" /\ Len(sock) < MaxQueue
  /\ m = "PROCEED" => req # NoReq
  /\ sock' = Append(sock, m)
  /\ said' = IF m = "LOG" THEN said ELSE m
  /\ UNCHANGED <<pc, outcome, options, asked, req, signals>>

\* Before it closes, the daemon drops the requests it finds; one that arrives after
\* that is left unread.
DaemonCloses ==
  /\ pc \notin {"getopt", "connect"} /\ said \notin {"closed", "reset"}
  /\ \/ said' = "closed"
     \/ req # NoReq /\ said # "PROCEED" /\ said' = "reset"
  /\ UNCHANGED <<pc, outcome, options, asked, req, signals, sock>>

Over == pc = "ended" /\ UNCHANGED vars

-----------------------------------------------------------------------------
Options ==
  \/ \E arg \in RateArgs : OptPacketRate(arg) \/ OptBitRate(arg)
  \/ \E arg \in TimeArgs : OptWait(arg)
  \/ EndOptions

Step ==
  \/ Connect \/ Send \/ SigAction \/ SetAlarm
  \/ Peek \/ Recv \/ Interrupted
  \/ AlarmOff \/ Restore \/ Exec

Next ==
  \/ Options \/ Step \/ SigAlrm
  \/ \E m \in Messages : DaemonSays(m)
  \/ DaemonCloses \/ Over

Spec == Init /\ [][Next]_vars

\* The client runs, and an alarm goes off some day.  The daemon may stay silent.
FairSpec == Spec /\ WF_vars(Step) /\ WF_vars(SigAlrm)

-----------------------------------------------------------------------------
(* Properties.                                                             *)

\* The alarm never kills anyone: not the client, whose handler is there before
\* the alarm is set and until it is cancelled, and not the command, which would
\* inherit a pending alarm but not the handler (client.c:259-271, 355-363).
AlarmKillsNobody == outcome # "SIGALRM"

\* The request carries the rates of the command line, the bit rate rounded down
\* to bytes, if they fit the types and are at least a byte, and no limit where
\* the command line has none, whatever options came before; and never the rate
\* 0, which the BPF program takes for "drop everything" (client.c:68-96, 170,
\* 248-249).
AsksWhatWasMeant ==
  req # NoReq =>
    /\ asked.b \in BITS..WORD - 1 =>
         BITS * req.byte_rate <= asked.b /\ asked.b < BITS * (req.byte_rate + 1)
    /\ asked.p \in 1..WORD - 1 => req.packet_rate = asked.p
    /\ asked.b = 0 => req.byte_rate = RATE_UNLIMITED
    /\ asked.p = 0 => req.packet_rate = RATE_UNLIMITED
    /\ req.byte_rate # 0 /\ req.packet_rate # 0

\* A verdict is heard, also one the daemon sends right before it closes: a
\* refused client says so and one that may proceed runs the command or says why
\* not, unless its time is up.  A refusal is lost only in a reset (client.c:273-353).
VerdictHeard ==
  /\ "FAIL" \in Range(sock) /\ req # NoReq ~> outcome \in {"refused", "timeout"} \/ said = "reset"
  /\ "PROCEED" \in Range(sock) ~> outcome \in {"running", "error", "timeout"}

\* A client does not wait for a daemon that went away (client.c:281-284).
CloseNoticed == said \in {"closed", "reset"} /\ req # NoReq ~> pc = "ended"

\* A client with an alarm stops waiting, whatever the daemon does, unless the
\* alarm went off while it was not inside the blocking recv: then only the flag
\* is set, and nothing reads the flag before the next interruption
\* (client.c:128-133, 273-279, 348-352).
WaitBounded == alarm ~> pc = "ended" \/ missed
=============================================================================
