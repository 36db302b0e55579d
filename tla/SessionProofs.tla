---------------------------- MODULE SessionProofs ----------------------------
(***************************************************************************)
(* What a session of the daemon does for its client, continued from        *)
(* DaemonProofs.  A client from inside a limited scope is refused          *)
(* (NestedRefused), if the Kill call on a scope does not fail while the    *)
(* scope has a living process, and lookups in the map do not fail.  The    *)
(* verdict is written once.  Slots and map entries are counted right       *)
(* (MapFits), and nothing is left at the end.  And the daemon implements   *)
(* Session: every step of Daemon is, seen through the refinement mapping   *)
(* Promise, a step of the promise or no step at all (KeepsPromise).        *)
(***************************************************************************)
EXTENDS DaemonProofs

-----------------------------------------------------------------------------
(* Clients from inside a limited scope.                                    *)

\* The waits a session of a client from inside another scope can reach: it never
\* gets as far as waiting for its job.
Refusable == {"idle", "start", "self_unit", "orig_unit", "orig_cgroup", "s_slice", "s_match", "s_start",
              "rlog", "elog", "rfail", "efail", "ifail", "rshut", "eshut", "ishut", "ended", "freed"}

\* Session c, if its client was started inside a scope, has no scope and no verdict
\* but FAIL or NORESOURCE.
Scopeless(c) ==
  /\ proc[c] = "none" => origin[c] = Null /\ answer[c] = "none"
  /\ proc[c] = "running" => answer[c] = "PROCEED"
  /\ origin[c] # Null =>
       /\ pc[c] \in Refusable
       /\ pc[c] = "s_start" => wake[c] # "ok"
       /\ scope[c] \in {"none", "requested", "gone"} /\ job[c] = "none" /\ reply[c] # "ok"
       /\ "scope" \notin owned[c]
       /\ answer[c] # "PROCEED"

\* While the client of c, started inside the scope of session d, lives: the scope
\* exists and either d still holds its limit or Kill is on its way to the scope;
\* and once c is past the check, Kill is on its way.
Held(c, d) ==
  proc[c] # "dead" =>
    /\ scope[d] = "active"
    /\ kill_req[d] \/ pc[d] \in {"wproceed", "wshut", "wait_exit"}
    /\ pc[c] \in {"s_slice", "s_match", "s_start"} \/ scope[c] = "requested" => kill_req[d]

NestInv == \A c \in Conns : Scopeless(c) /\ (origin[c] # Null => Held(c, origin[c]))

\* What a step of the session of such a client may do: it gets no further than
\* s_start, and it passes the check of main.c:245-265 only if the scope it came
\* from has no limit.
RefusableStep(c) ==
  /\ pc'[c] \in Refusable
  /\ pc'[c] = "s_start" => wake'[c] # "ok"
  /\ scope'[c] = scope[c] \/ (pc[c] = "s_match" /\ scope'[c] = "requested")
  /\ job'[c] \in {job[c], "none"} /\ reply'[c] \in {reply[c], "none"}
  /\ "scope" \notin owned'[c]
  /\ pc'[c] \in {"s_slice", "s_match", "s_start"} =>
       pc[c] \in {"s_slice", "s_match", "s_start"} \/ origin[c] \notin Limited

\* The steps that only go on to another label.
LEMMA MoveRefusable ==
  ASSUME NEW c \in Conns, Types, Scopeless(c), origin[c] # Null,
         UNCHANGED <<scope, job, reply>>, "scope" \notin owned'[c],
         pc'[c] \in Refusable \ {"s_slice", "s_match", "s_start"}
  PROVE  RefusableStep(c)
BY DEF RefusableStep

\* Every step of the handler is such a step, if lookups in the map do not fail.
LEMMA RunRefusable ==
  ASSUME "bpf" \notin Faults, NEW c \in Conns, Types, Scopeless(c), origin[c] # Null, Run(c)
  PROVE  RefusableStep(c)
<1> USE DEF mainVars, dataVars, clientVars, busVars, taskVars
<1>0. pc[c] \in Refusable /\ (pc[c] = "s_start" => wake[c] # "ok") /\ "scope" \notin owned[c]
  BY DEF Scopeless
<1>1. CASE RunStart(c)
  <2>1. pc'[c] \in {"ended", "rfail", "self_unit", "orig_unit"}
    BY Zenon, <1>1 DEF RunStart, EndTask, Await, IoTo, Types, WaitTypes
  <2>2. "scope" \notin owned'[c]
    <3>1. \/ owned' = [owned EXCEPT ![c] = {}]
          \/ owned' = [owned EXCEPT ![c] = {"stream"}]
          \/ owned' = [owned EXCEPT ![c] = {"stream", "nr_task"}]
      BY Zenon, <1>1 DEF RunStart, EndTask
    <3>2. DOMAIN owned = Conns
      BY DEF Types, OwnTypes
    <3> QED BY <3>1, <3>2
  <2>3. UNCHANGED <<scope, job, reply>>
    BY <1>1 DEF RunStart
  <2> QED BY <2>1, <2>2, <2>3, MoveRefusable DEF Refusable
<1>2. CASE RunQuery(c)
  <2>0. RunsOk(c, DOMAIN NextQuery) /\ Await(c, NextQuery[pc[c]])
    BY <1>2 DEF RunQuery
  <2>1. pc[c] \in {"orig_unit", "s_slice"}
    <3>1. pc[c] \in DOMAIN NextQuery /\ wake[c] = "ok"
      BY <2>0 DEF RunsOk, Runs
    <3> QED BY <1>0, <3>1 DEF NextQuery, Refusable
  <2>2. UNCHANGED <<scope, job, reply, owned>>
    BY Zenon, <1>2 DEF RunQuery
  <2>3. NextQuery["orig_unit"] = "orig_cgroup" /\ NextQuery["s_slice"] = "s_match"
    BY DEF NextQuery
  <2>4. pc'[c] = NextQuery[pc[c]]
    BY <2>0, AwaitAt
  <2>5. CASE pc[c] = "orig_unit"
    BY <1>0, <2>2, <2>3, <2>4, <2>5, MoveRefusable DEF Refusable
  <2>6. CASE pc[c] = "s_slice"
    BY <1>0, <2>2, <2>3, <2>4, <2>6 DEF RefusableStep, Refusable
  <2> QED BY <2>1, <2>5, <2>6
<1>3. CASE RunSelfUnit(c)
  <2>1. Await(c, "orig_unit") /\ UNCHANGED <<scope, job, reply, owned>>
    BY <1>3 DEF RunSelfUnit
  <2>2. pc'[c] = "orig_unit"
    BY <2>1, AwaitAt
  <2> QED BY <1>0, <2>1, <2>2, MoveRefusable DEF Refusable
<1>4. CASE RunOrigCgroup(c)
  <2>1. UNCHANGED <<scope, job, reply, owned>>
    BY <1>4 DEF RunOrigCgroup
  <2>2. CASE Nested(c)
    <3>1. pc'[c] = "rlog"
      BY Zenon, <1>4, <2>2 DEF RunOrigCgroup, IoTo, Types, WaitTypes
    <3> QED BY <1>0, <2>1, <3>1, MoveRefusable DEF Refusable
  <2>3. CASE ~Nested(c)
    <3>1. pc'[c] = "s_slice"
      BY Zenon, <1>4, <2>3 DEF RunOrigCgroup, Await, Types, WaitTypes
    <3> QED BY Zenon, <1>0, <2>1, <2>3, <3>1 DEF RefusableStep, Refusable, Nested
  <2> QED BY <2>2, <2>3
<1>5. CASE RunMatch(c)
  <2>1. pc[c] = "s_match" /\ Await(c, "s_start") /\ UNCHANGED <<job, reply, owned>>
        /\ scope'[c] = "requested"
    BY Zenon, <1>5 DEF RunMatch, RunsOk, Runs, Types, BusTypes
  <2>2. pc'[c] = "s_start" /\ wake'[c] = "none"
    BY <2>1, AwaitAt
  <2> QED BY <1>0, <2>1, <2>2 DEF RefusableStep, Refusable
<1>6. CASE RunLogged(c) \/ RunVerdict(c)
  <2>1. pc[c] \in {"rlog", "elog", "rfail", "efail", "ifail"} /\ UNCHANGED <<scope, job, reply, owned>>
    BY Zenon, <1>0, <1>6 DEF RunLogged, RunVerdict, Runs, LogLabels, VerdictLabels, Refusable
  <2>2. (\E st, timed : IoTo(c, st, "WRITE", timed, NextIo[pc[c]])) \/ (\E st : ShutTo(c, st, NextIo[pc[c]]))
    BY Zenon, <1>6 DEF RunLogged, RunVerdict
  <2>3. pc'[c] = NextIo[pc[c]]
    BY <2>2, IoToAt, ShutToAt
  <2>4. NextIo[pc[c]] \in {"elog", "efail", "rshut", "eshut", "ishut"}
    BY <2>1 DEF NextIo
  <2> QED BY <1>0, <2>1, <2>3, <2>4, MoveRefusable DEF Refusable
<1>7. CASE RunRefused(c)
  <2>1. EndTask(c) /\ UNCHANGED <<scope, job, reply>>
    BY <1>7 DEF RunRefused
  <2>2. pc'[c] = "ended" /\ "scope" \notin owned'[c]
    BY ZenonT(60), <2>1, EndTaskAt DEF EndTask, Types, OwnTypes
  <2> QED BY <2>1, <2>2, MoveRefusable DEF Refusable
<1>8. CASE RunBusError(c)
  <2>1. pc'[c] = "elog" /\ UNCHANGED <<scope, reply, owned>> /\ job'[c] = "none"
    BY <1>8 DEF RunBusError, ErrClose, IoTo, Types, WaitTypes, BusTypes
  <2> QED BY Zenon, <1>0, <2>1 DEF RefusableStep, Refusable
<1>9. CASE RunInterrupted(c)
  <2>1. pc'[c] \in {"ifail", "ended"} /\ "scope" \notin owned'[c]
    <3>1. \/ (\E st, timed : IoTo(c, st, "WRITE", timed, "ifail")) /\ UNCHANGED owned
          \/ \E st, watch : KillOrEnd(c, st, watch)
      BY Zenon, <1>9 DEF RunInterrupted
    <3>2. ASSUME NEW st, NEW watch, KillOrEnd(c, st, watch) PROVE pc'[c] = "ended" /\ "scope" \notin owned'[c]
      <4>1. EndTask(c)
        BY Zenon, <1>0, <3>2 DEF KillOrEnd
      <4>2. pc'[c] = "ended"
        BY <4>1, EndTaskAt
      <4>3. owned'[c] = {}
        BY <4>1 DEF EndTask, Types, OwnTypes
      <4> QED BY Zenon, <4>2, <4>3
    <3>3. \A st, op, timed, l : IoTo(c, st, op, timed, l) => pc'[c] = l
      BY IoToAt
    <3> QED BY Zenon, <1>0, <3>1, <3>2, <3>3
  <2>2. scope' = scope /\ job'[c] = "none" /\ reply'[c] = "none"
    BY Zenon, <1>9 DEF RunInterrupted, Types, BusTypes
  <2> QED BY Zenon, <2>1, <2>2 DEF RefusableStep, Refusable
<1>10. CASE RunInterruptTold(c)
  <2>1. EndTask(c) /\ UNCHANGED <<scope, job, reply>>
    BY <1>0, <1>10 DEF RunInterruptTold, KillOrEnd
  <2>2. pc'[c] = "ended" /\ "scope" \notin owned'[c]
    <3>1. pc'[c] = "ended"
      BY <2>1, EndTaskAt
    <3>2. owned'[c] = {}
      BY <2>1 DEF EndTask, Types, OwnTypes
    <3> QED BY <3>1, <3>2
  <2> QED BY <2>1, <2>2, MoveRefusable DEF Refusable
<1>11. CASE RunClosed(c)
  BY Zenon, <1>0, <1>11 DEF RunClosed, RefusableStep
<1>12. ~(RunGetUnit(c) \/ RunCgroup(c) \/ RunRead(c) \/ RunGranted(c) \/ RunExited(c) \/ RunKilled(c))
  BY Zenon, <1>0 DEF RunGetUnit, RunCgroup, RunRead, RunGranted, RunExited, RunKilled, RunsOk, Runs, KillLabels, Refusable
<1> QED BY <1>1, <1>2, <1>3, <1>4, <1>5, <1>6, <1>7, <1>8, <1>9, <1>10, <1>11, <1>12 DEF Run

\* So is every dispatch for it.
LEMMA DispatchRefusable ==
  ASSUME NEW c \in Conns, Types, Scopeless(c), Answers(c), origin[c] # Null, Accept(c) \/ DispatchTask(c)
  PROVE  RefusableStep(c) /\ answer'[c] # "PROCEED"
<1> USE DEF mainVars, dataVars, clientVars, busVars, taskVars
<1>0. /\ pc[c] \in Refusable /\ (pc[c] = "s_start" => wake[c] # "ok") /\ "scope" \notin owned[c]
      /\ answer[c] # "PROCEED" /\ reply[c] # "ok" /\ job[c] = "none"
  BY DEF Scopeless
<1>1. CASE Accept(c) \/ DispatchEnd(c)
  <2>1. pc'[c] \in {"start", "freed"} /\ UNCHANGED <<scope, job, reply, owned, answer>>
    BY Zenon, <1>1 DEF Accept, DispatchEnd, Types, WaitTypes
  <2> QED BY <1>0, <2>1, MoveRefusable DEF Refusable
<1>2. ASSUME UNCHANGED <<pc, owned, scope>>, job'[c] \in {job[c], "none"}, reply'[c] \in {reply[c], "none"},
             answer'[c] # "PROCEED", pc[c] = "s_start" => wake'[c] # "ok"
      PROVE  RefusableStep(c) /\ answer'[c] # "PROCEED"
  BY Zenon, <1>0, <1>2 DEF RefusableStep
<1>3. "s_start" \notin IoLabels \cup QueryLabels
  BY DEF IoLabels, LogLabels, VerdictLabels, ShutLabels, QueryLabels
<1>4. CASE DispatchRead(c) \/ DispatchIoTimer(c)
  <2>1. UNCHANGED <<pc, owned, scope, job, reply, answer>> /\ (pc[c] = "s_start" => wake' = wake)
    BY Zenon, <1>3, <1>4 DEF DispatchRead, DispatchIoTimer, SetStreamEvent
  <2> QED BY Zenon, <1>0, <1>2, <2>1
<1>5. CASE DispatchWrite(c)
  <2>1. UNCHANGED <<pc, owned, scope, job, reply>> /\ (pc[c] = "s_start" => wake' = wake)
    BY Zenon, <1>3, <1>5 DEF DispatchWrite, SetStreamEvent
  <2>2. answer'[c] # "PROCEED"
    BY <1>0, <1>5 DEF DispatchWrite, Verdict, VerdictLabels, Refusable, Types, ClientTypes
  <2> QED BY Zenon, <1>0, <1>2, <2>1, <2>2
<1>6. CASE DispatchHangup(c)
  <2>1. UNCHANGED <<pc, owned, scope, job, reply, answer>>
    BY Zenon, <1>6 DEF DispatchHangup
  <2>2. wake'[c] \in {wake[c], "cancel"} \/ pc[c] # "s_start"
    BY Zenon, <1>3, <1>6 DEF DispatchHangup, InterruptTask, SetStreamEvent, Wake, Types, WaitTypes
  <2> QED BY <1>0, <1>2, <2>1, <2>2
<1>7. CASE DispatchPidfd(c)
  <2>1. UNCHANGED <<pc, owned, scope, job, reply, answer>>
    BY Zenon, <1>7 DEF DispatchPidfd
  <2>2. wake'[c] \in {wake[c], "cancel"} \/ pidfd[c] = "waiting"
    BY Zenon, <1>7 DEF DispatchPidfd, InterruptTask, Wake, Types, WaitTypes
  <2> QED BY Zenon, <1>0, <1>2, <2>1, <2>2 DEF Answers
<1>8. CASE DispatchQuery(c)
  <2>1. UNCHANGED <<pc, owned, scope, job, reply, answer>> /\ pc[c] # "s_start"
    BY Zenon, <1>3, <1>8 DEF DispatchQuery
  <2> QED BY Zenon, <1>0, <1>2, <2>1
<1>9. CASE DispatchReply(c)
  <2>1. UNCHANGED <<pc, owned, scope, job, answer>>
    BY <1>9 DEF DispatchReply
  <2>2. wake'[c] = reply[c] /\ reply'[c] = "none"
    BY <1>9 DEF DispatchReply, Wake, Types, WaitTypes, BusTypes
  <2> QED BY <1>0, <1>2, <2>1, <2>2
<1>10. ~DispatchJobRemoved(c)
  BY Zenon, <1>0 DEF DispatchJobRemoved
<1> QED BY Zenon, <1>1, <1>4, <1>5, <1>6, <1>7, <1>8, <1>9, <1>10 DEF DispatchTask

\* The client's process and where it came from are not the session's to change, and
\* a running command was told to proceed.
LEMMA RunClient ==
  ASSUME NEW c \in Conns, Types, Covered(c), Scopeless(c), Run(c) \/ Accept(c) \/ DispatchTask(c)
  PROVE  /\ UNCHANGED <<proc, origin>>
         /\ proc[c] = "none" => answer'[c] = "none"
         /\ proc[c] = "running" => answer'[c] = "PROCEED"
<1> USE DEF mainVars, dataVars, clientVars, busVars, taskVars
<1>1. CASE DispatchWrite(c)
  <2>1. proc[c] = "none" => pc[c] \notin VerdictLabels /\ answer[c] = "none"
    BY DEF Covered, Scopeless, VerdictLabels
  <2>2. proc[c] = "running" => (pc[c] \in VerdictLabels => pc[c] = "wproceed") /\ answer[c] = "PROCEED"
    BY DEF Covered, Scopeless, VerdictLabels
  <2> QED BY <1>1, <2>1, <2>2 DEF DispatchWrite, Verdict, Types, ClientTypes
<1>2. CASE ~DispatchWrite(c)
  <2>1. UNCHANGED <<proc, origin, answer>>
    BY Zenon, <1>2 DEF Accept, DispatchTask, DispatchRead, DispatchHangup, DispatchIoTimer, DispatchPidfd,
       DispatchQuery, DispatchReply, DispatchJobRemoved, DispatchEnd, Run, RunStart, RunQuery, RunSelfUnit,
       RunOrigCgroup, RunMatch, RunGetUnit, RunCgroup, RunRead, RunLogged, RunVerdict, RunRefused, RunGranted,
       RunExited, RunKilled, RunBusError, RunInterrupted, RunInterruptTold, RunClosed
  <2> QED BY Zenon, <2>1 DEF Scopeless
<1> QED BY Zenon, <1>1, <1>2

\* No step of its own gives such a session a scope or a permission.
LEMMA StepScopeless ==
  ASSUME "bpf" \notin Faults, NEW c \in Conns, Types, Covered(c), Answers(c), Scopeless(c),
         Run(c) \/ Accept(c) \/ DispatchTask(c)
  PROVE  Scopeless(c)' /\ (origin[c] # Null => RefusableStep(c))
<1>1. /\ UNCHANGED <<proc, origin>>
      /\ proc[c] = "none" => answer'[c] = "none"
      /\ proc[c] = "running" => answer'[c] = "PROCEED"
  BY RunClient
<1>2. CASE origin[c] = Null
  BY <1>1, <1>2 DEF Scopeless
<1>3. CASE origin[c] # Null
  <2>1. RefusableStep(c)
    BY <1>3, RunRefusable, DispatchRefusable
  <2>2. answer'[c] # "PROCEED"
    <3>1. CASE Run(c)
      <4>1. answer' = answer
        BY Zenon, <3>1 DEF Run, RunStart, RunQuery, RunSelfUnit, RunOrigCgroup, RunMatch, RunGetUnit, RunCgroup,
           RunRead, RunLogged, RunVerdict, RunRefused, RunGranted, RunExited, RunKilled, RunBusError,
           RunInterrupted, RunInterruptTold, RunClosed, clientVars
      <4> QED BY <1>3, <4>1 DEF Scopeless
    <3>2. CASE Accept(c) \/ DispatchTask(c)
      BY <1>3, <3>2, DispatchRefusable
    <3> QED BY <3>1, <3>2
  <2> QED BY <1>1, <1>3, <2>1, <2>2 DEF Scopeless, RefusableStep
<1> QED BY <1>2, <1>3

\* The session that holds the scope keeps it until it asks for Kill, and asks only
\* once.
LEMMA HolderStep ==
  ASSUME NEW d \in Conns, Types, Covered(d), scope[d] = "active", proc[d] # "none",
         kill_req[d] \/ pc[d] \in {"wproceed", "wshut", "wait_exit"},
         Run(d) \/ Accept(d) \/ DispatchTask(d)
  PROVE  /\ scope'[d] = "active"
         /\ kill_req'[d] \/ pc'[d] \in {"wproceed", "wshut", "wait_exit"}
         /\ kill_req[d] => kill_req'[d]
<1> USE DEF mainVars, dataVars, clientVars, busVars, taskVars
<1> DEFINE Holding == {"wproceed", "wshut", "wait_exit"}
<1>1. scope'[d] = "active"
  <2>1. CASE RunMatch(d)
    BY Zenon, <2>1 DEF RunMatch, RunsOk, Runs, Covered, Unstarted
  <2>2. CASE ~RunMatch(d)
    BY Zenon, <2>2 DEF Accept, DispatchTask, DispatchRead, DispatchWrite, DispatchHangup, DispatchIoTimer,
       DispatchPidfd, DispatchQuery, DispatchReply, DispatchJobRemoved, DispatchEnd, Run, RunStart, RunQuery,
       RunSelfUnit, RunOrigCgroup, RunGetUnit, RunCgroup, RunRead, RunLogged, RunVerdict, RunRefused,
       RunGranted, RunExited, RunKilled, RunBusError, RunInterrupted, RunInterruptTold, RunClosed
  <2> QED BY <2>1, <2>2
<1>2. kill_req[d] => kill_req'[d]
  <2>1. kill_req' = kill_req \/ kill_req' = [kill_req EXCEPT ![d] = TRUE]
    BY Zenon DEF Accept, DispatchTask, DispatchRead, DispatchWrite, DispatchHangup, DispatchIoTimer,
       DispatchPidfd, DispatchQuery, DispatchReply, DispatchJobRemoved, DispatchEnd, Run, RunStart, RunQuery,
       RunSelfUnit, RunOrigCgroup, RunMatch, RunGetUnit, RunCgroup, RunRead, RunLogged, RunVerdict, RunRefused,
       RunGranted, RunExited, RunKilled, RunBusError, RunInterrupted, RunInterruptTold, RunClosed,
       KillOrEnd, KillTo
  <2> QED BY <2>1 DEF Types, BusTypes
<1>3. ASSUME pc[d] \in Holding PROVE kill_req'[d] \/ pc'[d] \in Holding
  <2>0. "scope" \in owned[d] /\ pc[d] \notin {"ended", "idle"} /\ DOMAIN kill_req = Conns
    BY <1>3 DEF Covered, Watched, Granting, Types, BusTypes
  <2>1. CASE Accept(d) \/ DispatchTask(d)
    <3>1. pc' = pc
      BY Zenon, <2>0, <2>1 DEF Accept, DispatchTask, DispatchRead, DispatchWrite, DispatchHangup, DispatchIoTimer,
         DispatchPidfd, DispatchQuery, DispatchReply, DispatchJobRemoved, DispatchEnd
    <3> QED BY <1>3, <3>1
  <2>2. CASE RunVerdict(d)
    <3>1. ShutTo(d, AfterIo(d), NextIo[pc[d]]) /\ pc[d] = "wproceed"
      BY Zenon, <1>3, <2>2 DEF RunVerdict, Runs, VerdictLabels
    <3>2. pc'[d] = NextIo["wproceed"]
      BY ZenonT(60), <3>1, ShutToAt
    <3> QED BY <3>2 DEF NextIo
  <2>3. CASE RunGranted(d) \/ RunExited(d)
    <3>1. Await(d, "wait_exit") \/ kill_req' = [kill_req EXCEPT ![d] = TRUE]
      BY Zenon, <2>3 DEF RunGranted, RunExited, KillTo
    <3> QED BY Zenon, <2>0, <3>1, AwaitAt
  <2>4. CASE RunInterrupted(d)
    <3>1. pc[d] = "wait_exit"
      BY Zenon, <1>3, <2>4 DEF RunInterrupted, Runs, Interruptible, BusLabels, QueryLabels
    <3>2. \E st, watch : KillOrEnd(d, st, watch)
      BY Zenon, <2>4, <3>1 DEF RunInterrupted, TellClient
    <3>3. kill_req' = [kill_req EXCEPT ![d] = TRUE]
      BY Zenon, <2>0, <3>2 DEF KillOrEnd, KillTo
    <3> QED BY <2>0, <3>3
  <2>5. ~(RunStart(d) \/ RunQuery(d) \/ RunSelfUnit(d) \/ RunOrigCgroup(d) \/ RunMatch(d) \/ RunGetUnit(d)
          \/ RunCgroup(d) \/ RunRead(d) \/ RunLogged(d) \/ RunRefused(d) \/ RunKilled(d) \/ RunBusError(d)
          \/ RunInterruptTold(d) \/ RunClosed(d))
    BY Zenon, <1>3 DEF RunStart, RunQuery, RunSelfUnit, RunOrigCgroup, RunMatch, RunGetUnit, RunCgroup, RunRead,
       RunLogged, RunRefused, RunKilled, RunBusError, RunInterruptTold, RunClosed, RunsOk, Runs, NextQuery,
       LogLabels, KillLabels, BusLabels, QueryLabels
  <2> QED BY Zenon, <2>1, <2>2, <2>3, <2>4, <2>5 DEF Run
<1> QED BY <1>1, <1>2, <1>3

\* A step of any session keeps every client from inside a scope held.
LEMMA StepNested ==
  ASSUME "bpf" \notin Faults, NEW e \in Conns, Types, EnforceInv, WaitInv, NestInv,
         Run(e) \/ Accept(e) \/ DispatchTask(e)
  PROVE  NestInv'
<1> SUFFICES ASSUME NEW c \in Conns PROVE Scopeless(c)' /\ (origin[c] # Null => Held(c, origin[c]))'
  BY DEF NestInv
<1>0. Scopeless(c) /\ (origin[c] # Null => Held(c, origin[c])) /\ Covered(e) /\ Answers(e) /\ Scopeless(e)
  BY DEF NestInv, EnforceInv, WaitInv
<1>1. UNCHANGED <<proc, origin>>
  BY <1>0, RunClient
<1>2. Scopeless(c)' /\ (c = e /\ origin[c] # Null => RefusableStep(c))
  <2>1. CASE c = e
    BY <1>0, <2>1, StepScopeless
  <2>2. CASE c # e
    BY Zenon, <1>0, <1>1, <2>2, RunLocal DEF SameAt, Scopeless
  <2> QED BY <2>1, <2>2
<1>3. ASSUME origin[c] # Null, proc[c] # "dead" PROVE Held(c, origin[c])'
  <2> DEFINE d == origin[c]
  <2>0. d \in Conns
    BY <1>3 DEF Types, ClientTypes
  <2>1. /\ scope[d] = "active"
        /\ kill_req[d] \/ pc[d] \in {"wproceed", "wshut", "wait_exit"}
        /\ pc[c] \in {"s_slice", "s_match", "s_start"} \/ scope[c] = "requested" => kill_req[d]
    BY <1>0, <1>3 DEF Held
  <2>2. d # c
    BY Zenon, <1>0, <1>3, <2>1 DEF Scopeless
  <2>3. /\ scope'[d] = "active"
        /\ kill_req'[d] \/ pc'[d] \in {"wproceed", "wshut", "wait_exit"}
        /\ kill_req[d] => kill_req'[d]
    <3>1. CASE d = e
      <4>1. Covered(d)
        BY <1>0, <3>1
      <4>2. proc[d] # "none"
        BY Zenon, <2>1, <4>1 DEF Covered, Unstarted
      <4> QED BY Zenon, <2>0, <2>1, <3>1, <4>1, <4>2, HolderStep
    <3>2. CASE d # e
      <4>1. SameAt(d)
        BY <2>0, <2>1, <3>2, RunLocal
      <4>2. kill_req'[d] = kill_req[d]
        BY <2>0, <2>1, <3>2, RunLocalStream
      <4> QED BY <2>1, <4>1, <4>2 DEF SameAt
    <3> QED BY Zenon, <3>1, <3>2
  <2>4. pc'[c] \in {"s_slice", "s_match", "s_start"} \/ scope'[c] = "requested" => kill_req'[d]
    <3>1. CASE c = e
      <4>1. RefusableStep(c)
        BY <1>2, <1>3, <3>1
      <4>2. d \notin Limited => kill_req[d]
        <5>1. Covered(d)
          BY <2>0 DEF EnforceInv
        <5>2. pc[d] \in {"wproceed", "wshut", "wait_exit"} => d \in Limited
          BY Zenon, <2>0, <5>1 DEF Covered, Granting, Limited
        <5> QED BY <2>1, <5>2
      <4> QED BY <2>1, <2>3, <4>1, <4>2 DEF RefusableStep
    <3>2. CASE c # e
      BY Zenon, <2>1, <2>3, <3>2, RunLocal DEF SameAt
    <3> QED BY <3>1, <3>2
  <2> QED BY Zenon, <1>1, <2>3, <2>4 DEF Held
<1>4. proc'[c] = "dead" => Held(c, origin[c])'
  BY DEF Held
<1> QED BY Zenon, <1>1, <1>2, <1>3, <1>4

\* A client that connects from inside a scope finds its session holding it.
LEMMA ConnectNested ==
  ASSUME NEW e \in Conns, OwnInv, EnforceInv, WaitInv, NestInv, Connect(e)
  PROVE  NestInv'
<1> USE DEF mainVars, dataVars, clientVars, busVars, taskVars
<1> SUFFICES ASSUME NEW c \in Conns PROVE Scopeless(c)' /\ (origin[c] # Null => Held(c, origin[c]))'
  BY DEF NestInv
<1>0. Types /\ Scopeless(c) /\ (origin[c] # Null => Held(c, origin[c]))
  BY DEF NestInv, OwnInv
<1>1. UNCHANGED <<pc, wake, owned, scope, reply, job, kill_req, answer>>
  BY DEF Connect
<1>2. CASE c # e
  <2>1. proc'[c] = proc[c] /\ origin'[c] = origin[c]
    BY <1>0, <1>2 DEF Connect, Types, ClientTypes
  <2> QED BY Zenon, <1>0, <1>1, <2>1 DEF Scopeless, Held
<1>3. CASE c = e
  <2>1. /\ proc[c] = "none" /\ proc'[c] = "waiting"
        /\ origin'[c] = Null \/ (origin'[c] \in Conns /\ proc[origin'[c]] = "running")
    BY <1>0, <1>3 DEF Connect, Types, ClientTypes
  <2>2. /\ pc[c] = "idle" /\ scope[c] = "none" /\ job[c] = "none" /\ reply[c] = "none" /\ owned[c] = {}
        /\ answer[c] = "none"
    BY Zenon, <1>0, <2>1 DEF EnforceInv, Covered, Unstarted, KillLabels, Scopeless, OwnInv, Owns
  <2>3. Scopeless(c)'
    BY Zenon, <1>1, <2>1, <2>2 DEF Scopeless, Refusable
  <2>4. ASSUME origin'[c] # Null PROVE Held(c, origin[c])'
    <3> DEFINE d == origin'[c]
    <3>1. d \in Conns /\ Covered(d) /\ Answers(d) /\ answer[d] = "PROCEED" /\ proc[d] = "running"
      BY Zenon, <2>1, <2>4 DEF NestInv, Scopeless, EnforceInv, WaitInv
    <3>2. pc[d] \in {"wproceed", "wshut", "wait_exit", "ikill"} /\ scope[d] = "active"
          /\ (pc[d] = "ikill" => wake[d] = "none" /\ reply[d] = "none")
      BY Zenon, <3>1 DEF Covered, Watched, Granting
    <3>3. pc[d] = "ikill" => kill_req[d]
      BY Zenon, <3>1, <3>2 DEF Answers, KillLabels
    <3> QED BY Zenon, <1>1, <2>2, <3>2, <3>3 DEF Held
  <2> QED BY <2>3, <2>4
<1> QED BY <1>2, <1>3

\* The other steps of the clients and of systemd: Kill takes such a client with it,
\* and a scope asked for while Kill is on its way is not started before.
LEMMA EnvironmentNested ==
  ASSUME "kill" \notin Faults, NEW e \in Conns, OwnInv, EnforceInv, WaitInv, NestInv, Environment(e)
  PROVE  NestInv'
<1> USE DEF mainVars, dataVars, clientVars, busVars, taskVars
<1>1. CASE Connect(e)
  BY <1>1, ConnectNested
<1>2. CASE ~Connect(e)
  <2> SUFFICES ASSUME NEW c \in Conns PROVE Scopeless(c)' /\ (origin[c] # Null => Held(c, origin[c]))'
    BY DEF NestInv
  <2>0. Types /\ Scopeless(c) /\ (origin[c] # Null => Held(c, origin[c]) /\ origin[c] \in Conns)
    BY DEF NestInv, OwnInv, Types, ClientTypes
  <2>1. UNCHANGED <<pc, wake, owned, origin, answer>>
    BY Zenon, <1>2 DEF Environment, Proceed, GiveUp, Die, SystemdStart, SystemdJob, SystemdKill
  <2>2. CASE Proceed(e) \/ GiveUp(e) \/ Die(e)
    <3>1. UNCHANGED <<scope, reply, job, kill_req>>
      BY Zenon, <2>2 DEF Proceed, GiveUp, Die
    <3>2. /\ proc[c] = "dead" => proc'[c] = "dead"
          /\ proc'[c] = "none" => proc[c] = "none"
          /\ proc'[c] = "running" => proc[c] = "running" \/ answer[c] = "PROCEED"
      BY Zenon, <2>0, <2>2 DEF Proceed, GiveUp, Die, Types, ClientTypes
    <3> QED BY Zenon, <2>0, <2>1, <3>1, <3>2 DEF Scopeless, Held
  <2>3. CASE SystemdStart(e)
    <3>1. UNCHANGED <<proc, job, kill_req>> /\ scope[e] = "requested" /\ (\A x \in Conns : ~kill_req[x])
      BY <2>3 DEF SystemdStart
    <3>2. \A x \in Conns \ {e} : scope'[x] = scope[x] /\ reply'[x] = reply[x]
      BY Zenon, <2>0, <2>3 DEF SystemdStart, Types, BusTypes
    <3>3. CASE c = e /\ origin[c] # Null
      <4>1. proc[c] = "dead"
        BY Zenon, <2>0, <3>1, <3>3 DEF Held
      <4>2. scope'[c] = "gone" /\ reply'[c] \in {reply[c], "err"}
        BY Zenon, <2>0, <2>3, <3>3, <4>1 DEF SystemdStart, Types, BusTypes
      <4> QED BY Zenon, <2>0, <2>1, <3>1, <3>3, <4>1, <4>2 DEF Scopeless, Held
    <3>4. CASE c = e /\ origin[c] = Null
      BY Zenon, <2>0, <2>1, <3>1, <3>4 DEF Scopeless
    <3>5. CASE c # e
      <4>1. Scopeless(c)'
        BY Zenon, <2>0, <2>1, <3>1, <3>2, <3>5 DEF Scopeless
      <4>2. origin[c] # Null /\ proc[c] # "dead" => scope'[origin[c]] = "active"
        BY Zenon, <2>0, <3>1, <3>2 DEF Held
      <4> QED BY Zenon, <2>0, <2>1, <3>1, <3>2, <3>5, <4>1, <4>2 DEF Held
    <3> QED BY Zenon, <3>3, <3>4, <3>5
  <2>4. CASE SystemdJob(e)
    <3>1. UNCHANGED <<proc, reply, kill_req>> /\ scope[e] = "queued"
      BY Zenon, <2>4 DEF SystemdJob
    <3>2. \A x \in Conns \ {e} : scope'[x] = scope[x] /\ job'[x] = job[x]
      BY Zenon, <2>0, <2>4 DEF SystemdJob, Types, BusTypes
    <3>3. CASE c = e
      BY Zenon, <2>0, <2>1, <3>1, <3>3 DEF Scopeless
    <3>4. CASE c # e
      <4>1. Scopeless(c)'
        BY Zenon, <2>0, <2>1, <3>1, <3>2, <3>4 DEF Scopeless
      <4>2. origin[c] # Null /\ proc[c] # "dead" => scope'[origin[c]] = "active"
        BY Zenon, <2>0, <3>1, <3>2 DEF Held
      <4> QED BY Zenon, <2>0, <2>1, <3>1, <3>2, <3>4, <4>1, <4>2 DEF Held
    <3> QED BY <3>3, <3>4
  <2>5. CASE SystemdKill(e)
    <3>1. UNCHANGED job /\ \A x \in Conns \ {e} : /\ scope'[x] = scope[x] /\ reply'[x] = reply[x]
                                                   /\ kill_req'[x] = kill_req[x]
      BY ZenonT(60), <2>0, <2>5 DEF SystemdKill, Types, BusTypes
    <3>2. /\ proc[c] = "dead" => proc'[c] = "dead"
          /\ proc'[c] = "none" => proc[c] = "none"
          /\ proc'[c] = "running" => proc[c] = "running"
      BY <2>0, <2>5 DEF SystemdKill, Types, ClientTypes
    <3>3. scope'[e] \in {scope[e], "gone"} /\ (reply'[e] = reply[e] \/ pc[e] \in KillLabels)
      BY Zenon, <2>0, <2>5 DEF SystemdKill, Types, BusTypes
    <3>4. Scopeless(c)'
      <4>1. CASE c = e
        BY Zenon, <2>0, <2>1, <3>1, <3>2, <3>3, <4>1 DEF Scopeless, Refusable, KillLabels
      <4>2. CASE c # e
        BY Zenon, <2>0, <2>1, <3>1, <3>2, <4>2 DEF Scopeless
      <4> QED BY <4>1, <4>2
    <3>5. ASSUME origin[c] # Null, proc'[c] # "dead" PROVE Held(c, origin[c])'
      <4>1. scope[origin[c]] = "active" /\ proc[c] \notin {"dead", "none"} /\ scope[c] # "active"
        BY <2>0, <3>2, <3>5 DEF Held, Scopeless
      <4>2. origin[c] # e
        <5>1. ASSUME origin[c] = e PROVE FALSE
          <6>1. c \in Members(e)
            BY <4>1, <5>1 DEF Members
          <6>2. scope[e] = "active"
            BY <4>1, <5>1
          <6> QED BY Zenon, <2>5, <3>5, <4>1, <6>1, <6>2 DEF SystemdKill
        <5> QED BY <5>1
      <4>3. /\ scope'[origin[c]] = scope[origin[c]] /\ kill_req'[origin[c]] = kill_req[origin[c]]
            /\ scope'[c] = "requested" => scope[c] = "requested"
        BY Zenon, <2>0, <3>1, <3>3, <3>5, <4>2
      <4> QED BY Zenon, <2>0, <2>1, <3>2, <3>5, <4>3 DEF Held
    <3>6. proc'[c] = "dead" => Held(c, origin[c])'
      BY Zenon DEF Held
    <3> QED BY <2>1, <3>4, <3>5, <3>6
  <2> QED BY <1>2, <2>2, <2>3, <2>4, <2>5 DEF Environment
<1> QED BY <1>1, <1>2

\* "Recursive rate limit is not allowed" (main.c:260), for any number of sessions:
\* a client started inside the scope of a running session is never told to proceed,
\* if Kill on a scope does not fail while it has a process and lookups in the map
\* do not fail.
THEOREM NestedAlwaysRefused ==
  ASSUME "kill" \notin Faults, "bpf" \notin Faults
  PROVE  Spec => []NestedRefused
<1>1. Init => NestInv
  <2> SUFFICES ASSUME Init, NEW c \in Conns PROVE Scopeless(c) /\ origin[c] = Null
    BY DEF NestInv
  <2> QED BY DEF Init, Scopeless
<1>2. OwnInv /\ EnforceInv /\ WaitInv /\ NestInv /\ [Next]_vars => NestInv'
  <2> SUFFICES ASSUME OwnInv, EnforceInv, WaitInv, NestInv, [Next]_vars PROVE NestInv'
    OBVIOUS
  <2>0. Types
    BY DEF OwnInv
  <2>1. ASSUME NEW e \in Conns, Run(e) \/ Accept(e) \/ DispatchTask(e) PROVE NestInv'
    BY <2>0, <2>1, StepNested
  <2>2. ASSUME NEW e \in Conns, Environment(e) PROVE NestInv'
    BY <2>2, EnvironmentNested
  <2>3. CASE DispatchSignal
    <3> SUFFICES ASSUME NEW c \in Conns PROVE Scopeless(c)' /\ (origin[c] # Null => Held(c, origin[c]))'
      BY Zenon DEF NestInv
    <3>1. UNCHANGED <<pc, owned, proc, origin, answer, scope, reply, job, kill_req>>
          /\ wake'[c] \in {wake[c], "cancel"}
      BY <2>3 DEF DispatchSignal, clientVars, busVars
    <3>2. Scopeless(c) /\ (origin[c] # Null => Held(c, origin[c]))
      BY DEF NestInv
    <3> QED BY Zenon, <3>1, <3>2 DEF Scopeless, Held
  <2>4. CASE DispatchOther \/ DispatchSleepTimer \/ Finish \/ Over \/ UNCHANGED vars
    <3>1. UNCHANGED <<pc, wake, owned, proc, origin, answer, scope, reply, job, kill_req>>
      BY <2>4 DEF DispatchOther, DispatchSleepTimer, Finish, Over, vars, taskVars, clientVars, busVars
    <3> QED BY <3>1 DEF NestInv, Scopeless, Held
  <2> QED BY <2>1, <2>2, <2>3, <2>4 DEF Next
<1>3. NestInv => NestedRefused
  BY Zenon DEF NestInv, Scopeless, NestedRefused
<1> QED BY <1>1, <1>2, <1>3, OwnsHold, AllCovered, WaitsHold, PTL DEF Spec

-----------------------------------------------------------------------------
(* The daemon implements Session.                                          *)

\* Where a session can be after it has written its verdict.
Told == ShutLabels \cup KillLabels \cup {"wait_exit", "ended", "freed"}
\* Where it has not yet touched the map.
Unlimited == Unstarted \cup {"s_start", "s_job", "s_getunit", "cg_path"}
\* Where it holds no slot.
Slotless == {"idle", "start", "rfail", "rshut", "ended", "freed"}

\* What the refinement needs of one session, beyond Covered: the verdict is
\* written once, from its own wait; the map entry goes from none to block to
\* limit; and the slot is held exactly between admission and the end.
Straight(c) ==
  /\ answer[c] # "none" => pc[c] \in Told \/ (pc[c] \in VerdictLabels /\ wake[c] # "none")
  /\ pc[c] \in Unlimited => rate_map[c] = "none"
  /\ pc[c] = "read" => rate_map[c] = "block"
  /\ pc[c] \in Slotless <=> "nr_task" \notin owned[c]

StraightInv == \A c \in Conns : Straight(c)

\* A step that changes nothing Straight(d) looks at keeps it.
LEMMA SameStraight ==
  ASSUME NEW d \in Conns, Straight(d), pc'[d] = pc[d], wake'[d] = wake[d],
         answer'[d] = answer[d], rate_map'[d] = rate_map[d], owned'[d] = owned[d]
  PROVE  Straight(d)'
BY Zenon DEF Straight

\* The end of a task, from wherever it is.
LEMMA EndStraight ==
  ASSUME NEW c \in Conns, Types, EndTask(c), answer'[c] = answer[c]
  PROVE  Straight(c)'
<1>1. pc'[c] = "ended"
  BY EndTaskAt
<1>2. owned'[c] = {}
  BY DEF EndTask, Types, OwnTypes
<1>3. "ended" \in Told /\ "ended" \in Slotless /\ "ended" \notin Unlimited
  BY DEF Told, Slotless, Unlimited, Unstarted
<1> QED BY Zenon, <1>1, <1>2, <1>3 DEF Straight

\* A session that goes from one label to another where it neither gains nor
\* loses anything.
LEMMA MoveStraight ==
  ASSUME NEW c \in Conns, Straight(c), NEW l, pc'[c] = l,
         answer'[c] = answer[c], rate_map'[c] = rate_map[c],
         "nr_task" \in owned'[c] <=> "nr_task" \in owned[c],
         l \in Slotless <=> pc[c] \in Slotless,
         answer[c] # "none" => l \in Told,
         l \in Unlimited => pc[c] \in Unlimited,
         l # "read"
  PROVE  Straight(c)'
BY DEF Straight

\* What the labels are to the refinement.
LEMMA LabelKinds ==
  /\ \A l \in BusLabels \cup {"read"} : l \notin Told /\ l \notin Slotless /\ l \notin VerdictLabels
  /\ \A l \in LogLabels : l \notin Told /\ l \notin Slotless /\ l \notin Unlimited /\ l \notin VerdictLabels
  /\ \A l \in VerdictLabels : /\ l \notin Told /\ l \notin Unlimited
                              /\ l \in Slotless <=> l = "rfail"
                              /\ NextIo[l] \in ShutLabels
                              /\ NextIo[l] \in Slotless <=> l = "rfail"
  /\ \A l \in ShutLabels : l \in Told /\ l \notin Unlimited /\ l \notin VerdictLabels
                           /\ (l \in Slotless <=> l = "rshut") /\ l # "read"
  /\ \A l \in KillLabels \cup {"wait_exit"} :
       l \in Told /\ l \notin Slotless /\ l \notin Unlimited /\ l \notin VerdictLabels /\ l # "read"
  /\ \A l \in LogLabels : NextIo[l] \in {"elog", "efail", "wproceed"}
  /\ \A l \in DOMAIN NextQuery : l \in Unlimited /\ l \in BusLabels
                                /\ NextQuery[l] \in Unlimited /\ NextQuery[l] \in BusLabels
<1> USE DEF Told, Slotless, Unlimited, Unstarted, VerdictLabels
<1>1. \A l \in BusLabels \cup {"read"} : l \notin Told /\ l \notin Slotless /\ l \notin VerdictLabels
  BY DEF BusLabels, QueryLabels, ShutLabels, KillLabels
<1>2. \A l \in LogLabels : l \notin Told /\ l \notin Slotless /\ l \notin Unlimited /\ l \notin VerdictLabels
  BY DEF LogLabels, ShutLabels, KillLabels
<1>3. \A l \in VerdictLabels : /\ l \notin Told /\ l \notin Unlimited
                               /\ l \in Slotless <=> l = "rfail"
                               /\ NextIo[l] \in ShutLabels
                               /\ NextIo[l] \in Slotless <=> l = "rfail"
  BY DEF NextIo, ShutLabels, KillLabels
<1>4. \A l \in ShutLabels : l \in Told /\ l \notin Unlimited /\ l \notin VerdictLabels
                            /\ (l \in Slotless <=> l = "rshut") /\ l # "read"
  BY DEF ShutLabels
<1>5. \A l \in KillLabels \cup {"wait_exit"} :
        l \in Told /\ l \notin Slotless /\ l \notin Unlimited /\ l \notin VerdictLabels /\ l # "read"
  BY DEF KillLabels
<1>6. \A l \in LogLabels : NextIo[l] \in {"elog", "efail", "wproceed"}
  BY DEF LogLabels, NextIo
<1>7. \A l \in DOMAIN NextQuery : l \in Unlimited /\ l \in BusLabels
                                 /\ NextQuery[l] \in Unlimited /\ NextQuery[l] \in BusLabels
  BY DEF NextQuery, BusLabels, QueryLabels
<1> HIDE DEF Told, Slotless, Unlimited, Unstarted, VerdictLabels
<1> QED BY <1>1, <1>2, <1>3, <1>4, <1>5, <1>6, <1>7

\* Every stretch of the handler keeps its session straight.
LEMMA RunStraight ==
  ASSUME NEW c \in Conns, Types, Straight(c), Run(c)
  PROVE  Straight(c)'
<1> USE DEF mainVars, dataVars, clientVars, busVars, taskVars
<1>1. CASE RunStart(c)
  <2>0. pc[c] = "start" /\ answer'[c] = answer[c]
    BY Zenon, <1>1 DEF RunStart, Runs
  <2>1. CASE EndTask(c)
    BY <2>0, <2>1, EndStraight
  <2>2. CASE ~EndTask(c)
    <3>1. answer[c] = "none" /\ rate_map[c] = "none"
      BY <2>0 DEF Straight, Told, VerdictLabels, ShutLabels, KillLabels, Unlimited, Unstarted
    <3>2. rate_map'[c] = rate_map[c]
      BY Zenon, <1>1, <2>2 DEF RunStart
    <3>3. \/ pc'[c] = "rfail" /\ owned'[c] = {"stream"}
          \/ pc'[c] \in {"self_unit", "orig_unit"} /\ owned'[c] = {"stream", "nr_task"}
      BY Zenon, <1>1, <2>2 DEF RunStart, IoTo, Await, Types, WaitTypes, OwnTypes
    <3> QED BY <2>0, <3>1, <3>2, <3>3 DEF Straight, Slotless
  <2> QED BY <2>1, <2>2
<1>2. CASE RunQuery(c)
  <2>1. pc'[c] = NextQuery[pc[c]] /\ pc[c] \in DOMAIN NextQuery
    BY Zenon, <1>2, AwaitAt DEF RunQuery, RunsOk, Runs
  <2>2. answer[c] = "none"
    BY Zenon, <2>1, LabelKinds DEF Straight
  <2>3. NextQuery[pc[c]] # "read"
    <3>1. NextQuery[pc[c]] \in BusLabels
      BY Zenon, <2>1, LabelKinds
    <3>2. "read" \notin BusLabels
      BY DEF BusLabels, QueryLabels
    <3> QED BY Zenon, <3>1, <3>2
  <2> QED BY Zenon, <1>2, <2>1, <2>2, <2>3, LabelKinds, MoveStraight DEF RunQuery
<1>3. CASE RunSelfUnit(c)
  <2>1. pc'[c] = "orig_unit" /\ pc[c] = "self_unit"
    BY Zenon, <1>3, AwaitAt DEF RunSelfUnit, RunsOk, Runs
  <2>2. answer[c] = "none"
    BY <2>1, LabelKinds DEF Straight, BusLabels, QueryLabels
  <2> QED BY Zenon, <1>3, <2>1, <2>2, MoveStraight DEF RunSelfUnit, Slotless, Unlimited, Unstarted
<1>4. CASE RunOrigCgroup(c)
  <2>1. pc'[c] \in {"rlog", "s_slice"} /\ pc[c] = "orig_cgroup"
    BY Zenon, <1>4, AwaitAt, IoToAt DEF RunOrigCgroup, RunsOk, Runs
  <2>2. answer[c] = "none"
    BY <2>1, LabelKinds DEF Straight, BusLabels, QueryLabels
  <2> QED BY Zenon, <1>4, <2>1, <2>2, MoveStraight DEF RunOrigCgroup, Slotless, Unlimited, Unstarted
<1>5. CASE RunMatch(c)
  <2>1. pc'[c] = "s_start" /\ pc[c] = "s_match"
    BY Zenon, <1>5, AwaitAt DEF RunMatch, RunsOk, Runs
  <2>2. answer[c] = "none"
    BY <2>1, LabelKinds DEF Straight, BusLabels, QueryLabels
  <2> QED BY Zenon, <1>5, <2>1, <2>2, MoveStraight DEF RunMatch, Slotless, Unlimited, Unstarted
<1>6. CASE RunGetUnit(c)
  <2>1. pc'[c] \in {"elog", "cg_path"} /\ pc[c] = "s_getunit"
    BY Zenon, <1>6, AwaitAt, IoToAt DEF RunGetUnit, RunsOk, Runs, ErrClose
  <2>2. answer[c] = "none"
    BY <2>1, LabelKinds DEF Straight, BusLabels, QueryLabels
  <2>3. "nr_task" \in owned'[c] <=> "nr_task" \in owned[c]
    <3>1. DOMAIN owned = Conns
      BY DEF Types, OwnTypes
    <3>2. owned'[c] = owned[c] \cup {"scope"} \/ owned'[c] = owned[c] \cup {"scope", "pidfd"}
      BY <1>6, <3>1 DEF RunGetUnit
    <3> QED BY <3>2
  <2>4. answer'[c] = answer[c] /\ rate_map'[c] = rate_map[c]
    BY Zenon, <1>6 DEF RunGetUnit
  <2> QED BY <2>1, <2>2, <2>3, <2>4, MoveStraight DEF Slotless, Unlimited, Unstarted
<1>7. CASE RunCgroup(c)
  <2>1. pc[c] = "cg_path" /\ answer'[c] = answer[c]
    BY Zenon, <1>7 DEF RunCgroup, RunsOk, Runs
  <2>2. answer[c] = "none"
    BY <2>1, LabelKinds DEF Straight, BusLabels, QueryLabels
  <2>3. \/ pc'[c] = "read" /\ rate_map'[c] = "block" /\ owned'[c] = owned[c] \cup {"limit"}
        \/ pc'[c] = "elog" /\ rate_map'[c] = rate_map[c] /\ owned'[c] = owned[c]
    BY Zenon, <1>7 DEF RunCgroup, ErrClose, IoTo, Types, WaitTypes, OwnTypes
  <2>4. "nr_task" \in owned'[c] <=> "nr_task" \in owned[c]
    BY Zenon, <2>3
  <2> QED BY Zenon, <2>1, <2>2, <2>3, <2>4 DEF Straight, Slotless, Unlimited, Unstarted
<1>8. CASE RunRead(c)
  <2>1. pc[c] = "read" /\ answer'[c] = answer[c] /\ owned'[c] = owned[c]
    BY Zenon, <1>8 DEF RunRead, Runs
  <2>2. answer[c] = "none"
    BY Zenon, <2>1, LabelKinds DEF Straight
  <2>3. pc'[c] \in {"wlog", "elog"}
    BY <1>8, IoToAt, ZenonT(60) DEF RunRead, ErrClose
  <2> QED BY Zenon, <2>1, <2>2, <2>3 DEF Straight, Slotless, Unlimited, Unstarted
<1>9. CASE RunLogged(c)
  <2>1. pc[c] \in LogLabels /\ pc'[c] = NextIo[pc[c]]
    BY Zenon, <1>9 DEF RunLogged, Runs, IoTo, Types, WaitTypes
  <2>2. answer[c] = "none"
    BY Zenon, <2>1, LabelKinds DEF Straight
  <2>3. pc'[c] \in {"elog", "efail", "wproceed"}
    BY <2>1, LabelKinds
  <2> QED BY ZenonT(60), <1>9, <2>1, <2>2, <2>3, LabelKinds, MoveStraight
          DEF RunLogged, Slotless, Unlimited, Unstarted
<1>10. CASE RunVerdict(c)
  <2>1. pc[c] \in VerdictLabels /\ pc'[c] = NextIo[pc[c]]
    <3> DEFINE next == NextIo[pc[c]]
    <3>1. pc[c] \in VerdictLabels /\ \E st : ShutTo(c, st, next)
      BY <1>10 DEF RunVerdict, Runs
    <3> HIDE DEF next
    <3>2. pc'[c] = next
      BY <3>1, ShutToAt
    <3> QED BY <3>1, <3>2 DEF next
  <2>2. /\ pc'[c] \in Told /\ pc'[c] \notin Unlimited /\ pc'[c] # "read"
        /\ pc'[c] \in Slotless <=> pc[c] \in Slotless
    BY Zenon, <2>1, LabelKinds
  <2> QED BY Zenon, <1>10, <2>2, MoveStraight DEF RunVerdict
<1>11. CASE RunRefused(c)
  BY <1>11, EndStraight DEF RunRefused
<1>12. CASE RunGranted(c)
  <2>1. pc[c] = "wshut" /\ pc'[c] \in {"kill", "wait_exit"}
    BY Zenon, <1>12, AwaitAt DEF RunGranted, Runs, KillTo
  <2> QED BY ZenonT(60), <1>12, <2>1, MoveStraight, LabelKinds
          DEF RunGranted, Slotless, KillLabels
<1>13. CASE RunExited(c)
  <2>1. pc[c] = "wait_exit" /\ pc'[c] = "kill"
    BY Zenon, <1>13, AwaitAt DEF RunExited, RunsOk, Runs, KillTo
  <2> QED BY ZenonT(60), <1>13, <2>1, MoveStraight, LabelKinds
          DEF RunExited, Slotless, KillLabels
<1>14. CASE RunKilled(c)
  BY <1>14, EndStraight DEF RunKilled
<1>15. CASE RunBusError(c)
  <2>1. pc[c] \in BusLabels /\ pc'[c] = "elog"
    BY Zenon, <1>15, IoToAt DEF RunBusError, Runs, ErrClose
  <2>2. answer[c] = "none"
    BY <2>1, LabelKinds DEF Straight
  <2> QED BY Zenon, <1>15, <2>1, <2>2, LabelKinds, MoveStraight
          DEF RunBusError, Slotless, Unlimited, Unstarted
<1>16. CASE RunInterrupted(c)
  <2>0. pc[c] \in Interruptible /\ answer'[c] = answer[c]
    BY Zenon, <1>16 DEF RunInterrupted, Runs
  <2>1. CASE TellClient(c)
    <3>1. pc'[c] = "ifail" /\ pc[c] \in BusLabels \cup {"read"}
      BY Zenon, <1>16, <2>0, <2>1, IoToAt DEF RunInterrupted, TellClient, Interruptible
    <3>2. answer[c] = "none"
      BY Zenon, <3>1, LabelKinds DEF Straight
    <3>3. rate_map'[c] = rate_map[c] /\ owned'[c] = owned[c]
      BY Zenon, <1>16, <2>1 DEF RunInterrupted
    <3>4. "ifail" \notin Slotless /\ "ifail" \notin Unlimited /\ pc[c] \notin Slotless
      BY <3>1, LabelKinds DEF Slotless, Unlimited, Unstarted
    <3> QED BY Zenon, <2>0, <3>1, <3>2, <3>3, <3>4, MoveStraight
  <2>2. CASE ~TellClient(c) /\ "scope" \in owned[c]
    <3>1. PICK st, watch : KillOrEnd(c, st, watch)
      BY Zenon, <1>16, <2>2 DEF RunInterrupted
    <3>2. pc'[c] = "ikill" /\ UNCHANGED <<owned, rate_map>>
      BY Zenon, <2>2, <3>1, KillOrEndAt
    <3>3. pc[c] \notin Slotless
      BY <2>0, LabelKinds DEF Interruptible
    <3> QED BY Zenon, <2>0, <3>2, <3>3, LabelKinds, MoveStraight DEF KillLabels
  <2>3. CASE ~TellClient(c) /\ "scope" \notin owned[c]
    <3>1. EndTask(c)
      BY Zenon, <1>16, <2>3 DEF RunInterrupted, KillOrEnd
    <3> QED BY <2>0, <3>1, EndStraight
  <2> QED BY <2>1, <2>2, <2>3
<1>17. CASE RunInterruptTold(c)
  <2>0. pc[c] = "ishut" /\ answer'[c] = answer[c]
    BY Zenon, <1>17 DEF RunInterruptTold, Runs
  <2>1. CASE "scope" \in owned[c]
    <3>1. pc'[c] = "ikill" /\ UNCHANGED <<owned, rate_map>>
      BY <1>17, <2>1, KillOrEndAt DEF RunInterruptTold
    <3> QED BY ZenonT(60), <2>0, <3>1, LabelKinds, MoveStraight DEF KillLabels, Slotless
  <2>2. CASE "scope" \notin owned[c]
    BY <1>17, <2>0, <2>2, EndStraight DEF RunInterruptTold, KillOrEnd
  <2> QED BY Zenon, <2>1, <2>2
<1>18. CASE RunClosed(c)
  BY Zenon, <1>18, SameStraight DEF RunClosed
<1> QED BY <1>1, <1>2, <1>3, <1>4, <1>5, <1>6, <1>7, <1>8, <1>9, <1>10, <1>11, <1>12,
           <1>13, <1>14, <1>15, <1>16, <1>17, <1>18 DEF Run

\* A session that is at most woken.
LEMMA WokenStraight ==
  ASSUME NEW d \in Conns, Straight(d), pc'[d] = pc[d],
         wake'[d] = wake[d] \/ wake'[d] # "none",
         answer'[d] = answer[d], rate_map'[d] = rate_map[d], owned'[d] = owned[d]
  PROVE  Straight(d)'
BY Zenon DEF Straight

\* The event loop keeps the session it serves straight: it writes a verdict only
\* for a session that waits for just that write.
LEMMA DispatchStraight ==
  ASSUME NEW c \in Conns, Types, Straight(c), Accept(c) \/ DispatchTask(c)
  PROVE  /\ Straight(c)'
         /\ answer[c] # "none" => answer'[c] = answer[c]
         /\ answer'[c] # answer[c] => DispatchWrite(c) /\ pc[c] \in VerdictLabels
                                     /\ answer' = [answer EXCEPT ![c] = Verdict(pc[c])]
<1> USE DEF mainVars, dataVars, clientVars, busVars, taskVars
<1>1. CASE Accept(c)
  <2>1. pc[c] = "idle" /\ pc'[c] = "start"
    BY <1>1 DEF Accept, Types, WaitTypes
  <2>2. answer[c] = "none"
    BY Zenon, <2>1 DEF Straight, Told, VerdictLabels, ShutLabels, KillLabels
  <2> QED BY Zenon, <1>1, <2>1, <2>2, MoveStraight DEF Accept, Slotless, Unlimited, Unstarted
<1>2. CASE DispatchEnd(c)
  <2>1. pc[c] = "ended" /\ pc'[c] = "freed"
    BY <1>2 DEF DispatchEnd, Types, WaitTypes
  <2>2. "freed" \in Told /\ "freed" \in Slotless /\ "ended" \in Slotless /\ "freed" \notin Unlimited
    BY DEF Told, Slotless, Unlimited, Unstarted
  <2> QED BY Zenon, <1>2, <2>1, <2>2, MoveStraight DEF DispatchEnd
<1>3. CASE DispatchWrite(c)
  <2>1. /\ pc'[c] = pc[c] /\ owned'[c] = owned[c] /\ rate_map'[c] = rate_map[c]
        /\ wake[c] = "none"
    BY Zenon, <1>3 DEF DispatchWrite, StreamReady, LoopIdle, Ready
  <2>2. wake'[c] = wake[c] \/ wake'[c] # "none"
    BY <1>3 DEF DispatchWrite, SetStreamEvent, Wake, Types, WaitTypes
  <2>3. CASE pc[c] \in VerdictLabels
    <3>1. answer[c] = "none"
      BY Zenon, <2>1, <2>3, LabelKinds DEF Straight
    <3>2. wake'[c] = "ok"
      BY <1>3, <2>3 DEF DispatchWrite, SetStreamEvent, Wake, IoLabels, Types, WaitTypes
    <3>3. answer' = [answer EXCEPT ![c] = Verdict(pc[c])] \/ answer'[c] = answer[c]
      BY <1>3, <2>3, ZenonT(60) DEF DispatchWrite, Types, ClientTypes
    <3> QED BY Zenon, <1>3, <2>1, <2>3, <3>1, <3>2, <3>3 DEF Straight
  <2>4. CASE pc[c] \notin VerdictLabels
    <3>1. answer'[c] = answer[c]
      BY <1>3, <2>4 DEF DispatchWrite, Types, ClientTypes
    <3> QED BY Zenon, <2>1, <2>2, <3>1, WokenStraight
  <2> QED BY <2>3, <2>4
<1>4. CASE \/ DispatchRead(c) \/ DispatchHangup(c) \/ DispatchIoTimer(c) \/ DispatchPidfd(c)
           \/ DispatchQuery(c) \/ DispatchReply(c) \/ DispatchJobRemoved(c)
  <2>1. /\ pc'[c] = pc[c] /\ owned'[c] = owned[c] /\ rate_map'[c] = rate_map[c]
        /\ answer'[c] = answer[c]
    BY Zenon, <1>4 DEF DispatchRead, DispatchHangup, DispatchIoTimer, DispatchPidfd, DispatchQuery,
                DispatchReply, DispatchJobRemoved
  <2>2. wake'[c] = wake[c] \/ wake'[c] # "none"
    BY <1>4, ZenonT(60) DEF DispatchRead, DispatchHangup, DispatchIoTimer, DispatchPidfd, DispatchQuery,
                DispatchReply, DispatchJobRemoved, SetStreamEvent, InterruptTask, Wake,
                Types, WaitTypes, BusTypes
  <2> QED BY Zenon, <2>1, <2>2, WokenStraight
<1> QED BY <1>1, <1>2, <1>3, <1>4 DEF DispatchTask

\* Clients, systemd and the rest of the loop.
LEMMA OtherStraight ==
  ASSUME Types, NEW d \in Conns, Straight(d),
         \/ \E c \in Conns : Environment(c)
         \/ DispatchOther \/ DispatchSignal \/ DispatchSleepTimer \/ Finish \/ Over
         \/ UNCHANGED vars
  PROVE  Straight(d)' /\ answer' = answer
<1> USE DEF mainVars, dataVars, clientVars, busVars, taskVars
<1>1. CASE \E c \in Conns : Environment(c)
  <2>1. UNCHANGED <<pc, wake, answer, rate_map, owned>>
    BY ZenonT(60), <1>1 DEF Environment, Connect, Proceed, GiveUp, Die, SystemdStart, SystemdJob, SystemdKill
  <2> QED BY <2>1, SameStraight
<1>2. CASE DispatchSignal
  <2>1. UNCHANGED <<pc, answer, rate_map, owned>>
    BY <1>2 DEF DispatchSignal
  <2>2. wake'[d] = wake[d] \/ wake'[d] # "none"
    BY <1>2 DEF DispatchSignal
  <2> QED BY <2>1, <2>2, WokenStraight
<1>3. CASE DispatchOther \/ DispatchSleepTimer \/ Finish \/ Over \/ UNCHANGED vars
  <2>1. UNCHANGED <<pc, wake, answer, rate_map, owned>>
    BY Zenon, <1>3 DEF DispatchOther, DispatchSleepTimer, Finish, Over, vars
  <2> QED BY <2>1, SameStraight
<1> QED BY <1>1, <1>2, <1>3

\* Every session is straight, whatever fails.
LEMMA AllStraight == Spec => []StraightInv
<1>1. Init => StraightInv
  <2> SUFFICES ASSUME Init, NEW c \in Conns PROVE Straight(c)
    BY DEF StraightInv
  <2>1. pc[c] = "idle" /\ answer[c] = "none" /\ rate_map[c] = "none" /\ owned[c] = {}
    BY DEF Init
  <2> QED BY <2>1 DEF Straight, Slotless
<1>2. OwnInv /\ StraightInv /\ [Next]_vars => StraightInv'
  <2> SUFFICES ASSUME OwnInv, StraightInv, [Next]_vars, NEW d \in Conns
               PROVE  Straight(d)'
    BY DEF StraightInv
  <2>0. Types /\ \A c \in Conns : Straight(c)
    BY DEF OwnInv, StraightInv
  <2>1. ASSUME NEW c \in Conns, Run(c) \/ Accept(c) \/ DispatchTask(c) PROVE Straight(d)'
    <3>1. CASE d = c
      BY <2>0, <2>1, <3>1, RunStraight, DispatchStraight
    <3>2. CASE d # c
      <4>1. SameAt(d)
        BY <2>0, <2>1, <3>2, RunLocal
      <4> QED BY <2>0, <4>1, SameStraight DEF SameAt
    <3> QED BY <3>1, <3>2
  <2>2. CASE \/ \E c \in Conns : Environment(c)
             \/ DispatchOther \/ DispatchSignal \/ DispatchSleepTimer \/ Finish \/ Over
             \/ UNCHANGED vars
    BY <2>0, <2>2, OtherStraight
  <2> QED BY <2>1, <2>2 DEF Next
<1> QED BY <1>1, <1>2, OwnsHold, PTL DEF Spec

\* A coroutine writes nothing into the socket itself.
LEMMA RunSilent ==
  ASSUME NEW c \in Conns, Run(c)
  PROVE  answer' = answer /\ proc' = proc
BY Zenon DEF Run, RunStart, RunQuery, RunSelfUnit, RunOrigCgroup, RunMatch, RunGetUnit, RunCgroup,
       RunRead, RunLogged, RunVerdict, RunRefused, RunGranted, RunExited, RunKilled, RunBusError,
       RunInterrupted, RunInterruptTold, RunClosed,
       mainVars, dataVars, clientVars, busVars, taskVars

\* A client gets at most one verdict, whatever fails and whatever interrupts the
\* session between the write and its return (main.c:354-357, 370-390).
THEOREM VerdictFinal == Spec => OneVerdict
<1>1. OwnInv /\ StraightInv /\ [Next]_vars => [SameVerdicts]_vars
  <2> SUFFICES ASSUME OwnInv, StraightInv, [Next]_vars, NEW d \in Conns, answer[d] # "none"
               PROVE  answer'[d] = answer[d]
    BY DEF SameVerdicts
  <2>0. Types /\ \A c \in Conns : Straight(c)
    BY DEF OwnInv, StraightInv
  <2>1. ASSUME NEW c \in Conns, Run(c) PROVE answer'[d] = answer[d]
    BY <2>1, RunSilent
  <2>2. ASSUME NEW c \in Conns, Accept(c) \/ DispatchTask(c) PROVE answer'[d] = answer[d]
    <3>1. CASE d = c
      BY Zenon, <2>0, <2>2, <3>1, DispatchStraight
    <3>2. CASE d # c
      BY Zenon, <2>0, <2>2, <3>2, RunLocal DEF SameAt
    <3> QED BY <3>1, <3>2
  <2>3. CASE \/ \E c \in Conns : Environment(c)
             \/ DispatchOther \/ DispatchSignal \/ DispatchSleepTimer \/ Finish \/ Over
             \/ UNCHANGED vars
    BY <2>0, <2>3, OtherStraight
  <2> QED BY Zenon, <2>1, <2>2, <2>3 DEF Next
<1> QED BY <1>1, AllStraight, OwnsHold, PTL DEF Spec, OneVerdict

-----------------------------------------------------------------------------
(* Slots.                                                                  *)

\* g_nr_tasks counts the sessions that will give their slot back (main.c:127-146).
SlotInv == OwnInv /\ nr_tasks = Cardinality(Admitted) /\ nr_tasks <= MaxNrTasks

SameSlots == UNCHANGED nr_tasks /\ Admitted' = Admitted
TakesSlot(c) ==
  /\ nr_tasks < MaxNrTasks /\ nr_tasks' = nr_tasks + 1
  /\ c \notin Admitted /\ Admitted' = Admitted \cup {c}
GivesSlot(c) ==
  /\ nr_tasks' = IF c \in Admitted THEN nr_tasks - 1 ELSE nr_tasks
  /\ Admitted' = Admitted \ {c}

\* The end of a task gives back the slot it has, and only that.
LEMMA EndTaskSlots ==
  ASSUME NEW c \in Conns, Types, EndTask(c)
  PROVE  GivesSlot(c)
<1>1. Admitted' = Admitted \ {c}
  BY DEF EndTask, Admitted, Types, OwnTypes
<1>2. nr_tasks' = IF c \in Admitted THEN nr_tasks - 1 ELSE nr_tasks
  BY DEF EndTask, ReleaseSlot, Admitted
<1> QED BY <1>1, <1>2 DEF GivesSlot

\* Every stretch of the handler takes a slot for its session, gives it back, or
\* leaves the slots alone.
LEMMA RunSlots ==
  ASSUME NEW c \in Conns, OwnInv, Run(c)
  PROVE  SameSlots \/ TakesSlot(c) \/ GivesSlot(c)
<1> USE DEF mainVars, dataVars, clientVars, busVars, taskVars
<1>0. Types /\ Owns(c)
  BY DEF OwnInv
<1>1. ASSUME UNCHANGED <<nr_tasks, owned>> PROVE SameSlots
  BY <1>1 DEF SameSlots, Admitted
<1>2. ASSUME NEW st, NEW watch, KillOrEnd(c, st, watch) PROVE SameSlots \/ GivesSlot(c)
  BY Zenon, <1>0, <1>1, <1>2, EndTaskSlots DEF KillOrEnd
<1>3. CASE RunStart(c)
  <2>1. CASE EndTask(c)
    BY <1>0, <2>1, EndTaskSlots
  <2>2. CASE ~EndTask(c) /\ ~SlotFree
    <3>1. owned[c] = {} /\ owned' = [owned EXCEPT ![c] = {"stream"}] /\ UNCHANGED nr_tasks
      BY Zenon, <1>0, <1>3, <2>2 DEF RunStart, Runs, Owns
    <3>2. Admitted' = Admitted
      BY <1>0, <3>1 DEF Admitted, Types, OwnTypes
    <3> QED BY <3>1, <3>2 DEF SameSlots
  <2>3. CASE ~EndTask(c) /\ SlotFree
    <3>1. /\ owned[c] = {} /\ owned' = [owned EXCEPT ![c] = {"stream", "nr_task"}]
          /\ nr_tasks < MaxNrTasks /\ nr_tasks' = nr_tasks + 1
      BY Zenon, <1>0, <1>3, <2>3 DEF RunStart, Runs, Owns, SlotFree
    <3>2. Admitted' = Admitted \cup {c} /\ c \notin Admitted
      BY <1>0, <3>1 DEF Admitted, Types, OwnTypes
    <3> QED BY <3>1, <3>2 DEF TakesSlot
  <2> QED BY <2>1, <2>2, <2>3
<1>4. CASE RunGetUnit(c)
  <2>1. PICK more \in {{"scope"}, {"scope", "pidfd"}} : owned' = [owned EXCEPT ![c] = @ \cup more]
    BY Zenon, <1>4 DEF RunGetUnit
  <2>2. Admitted' = Admitted
    BY <1>0, <2>1 DEF Admitted, Types, OwnTypes
  <2> QED BY Zenon, <1>4, <2>2 DEF RunGetUnit, SameSlots
<1>5. CASE RunCgroup(c)
  <2>1. owned' = [owned EXCEPT ![c] = @ \cup {"limit"}] \/ UNCHANGED owned
    BY Zenon, <1>5 DEF RunCgroup
  <2>2. Admitted' = Admitted
    BY <1>0, <2>1 DEF Admitted, Types, OwnTypes
  <2> QED BY <1>5, <2>2 DEF RunCgroup, SameSlots
<1>6. CASE RunRefused(c) \/ RunKilled(c)
  BY <1>0, <1>6, EndTaskSlots DEF RunRefused, RunKilled
<1>7. CASE RunInterrupted(c) \/ RunInterruptTold(c)
  BY Zenon, <1>1, <1>2, <1>7 DEF RunInterrupted, RunInterruptTold
<1>8. CASE RunQuery(c) \/ RunSelfUnit(c) \/ RunOrigCgroup(c) \/ RunMatch(c)
  BY Zenon, <1>1, <1>8 DEF RunQuery, RunSelfUnit, RunOrigCgroup, RunMatch
<1>9. CASE RunRead(c) \/ RunLogged(c) \/ RunVerdict(c) \/ RunGranted(c) \/ RunExited(c)
  BY Zenon, <1>1, <1>9 DEF RunRead, RunLogged, RunVerdict, RunGranted, RunExited
<1>10. CASE RunBusError(c) \/ RunClosed(c)
  BY Zenon, <1>1, <1>10 DEF RunBusError, RunClosed
<1> QED BY <1>3, <1>4, <1>5, <1>6, <1>7, <1>8, <1>9, <1>10 DEF Run

-----------------------------------------------------------------------------
(* The refinement mapping.                                                 *)

\* What the labels are to a client.
LEMMA Stages ==
  ASSUME NEW c
  PROVE  /\ Stage(c) \in {"new", "denied", "over", "held"}
         /\ Stage(c) = "new" <=> pc[c] \in {"idle", "start"}
         /\ Stage(c) = "denied" <=> pc[c] \in {"rfail", "rshut"}
         /\ Stage(c) = "over" <=> pc[c] \in {"ended", "freed"}
         /\ Stage(c) = "held" <=> pc[c] \notin Slotless
BY DEF Stage, Slotless

\* The same, after a step.
LEMMA StagesNext ==
  ASSUME NEW c
  PROVE  /\ Stage(c)' \in {"new", "denied", "over", "held"}
         /\ Stage(c)' = "new" <=> pc'[c] \in {"idle", "start"}
         /\ Stage(c)' = "denied" <=> pc'[c] \in {"rfail", "rshut"}
         /\ Stage(c)' = "over" <=> pc'[c] \in {"ended", "freed"}
         /\ Stage(c)' = "held" <=> pc'[c] \notin Slotless
BY DEF Stage, Slotless

\* Between two labels of one kind a session looks the same.
LEMMA SameStage ==
  ASSUME NEW c \in Conns,
         \/ pc'[c] = pc[c]
         \/ pc[c] \notin Slotless /\ pc'[c] \notin Slotless
         \/ pc[c] \in {"idle", "start"} /\ pc'[c] \in {"idle", "start"}
         \/ pc[c] \in {"rfail", "rshut"} /\ pc'[c] \in {"rfail", "rshut"}
         \/ pc[c] \in {"ended", "freed"} /\ pc'[c] \in {"ended", "freed"}
  PROVE  Stage(c)' = Stage(c)
BY DEF Stage, Slotless

\* Two functions that differ, and not outside c, differ at c.
LEMMA OneChanged ==
  ASSUME NEW S, NEW T, NEW f \in [S -> T], NEW g \in [S -> T], NEW c \in S, g # f,
         \A d \in S \ {c} : g[d] = f[d]
  PROVE  g[c] # f[c]
OBVIOUS

\* The promise counts the way the daemon does.
LEMMA SameCardinality ==
  ASSUME NEW S
  PROVE  Promise!Cardinality(S) = Cardinality(S)
BY DEF Promise!Cardinality, Cardinality

\* The sessions that hold a slot of the promise are those g_nr_tasks counts.
LEMMA HeldAdmitted ==
  ASSUME StraightInv
  PROVE  Promise!Held = Admitted
<1>1. \A c \in Conns : Stage(c) = "held" <=> "nr_task" \in owned[c]
  BY Zenon, Stages DEF StraightInv, Straight
<1> QED BY <1>1 DEF Promise!Held, Admitted

\* A step a client sees nothing of.
LEMMA Invisible ==
  ASSUME \A d \in Conns : Stage(d)' = Stage(d), UNCHANGED <<rate_map, answer, proc>>
  PROVE  UNCHANGED Promise!svars
BY DEF Promise!svars

\* A step that moves one session to another stage.
LEMMA StageMove ==
  ASSUME NEW c \in Conns, \A d \in Conns \ {c} : pc'[d] = pc[d]
  PROVE  [d \in Conns |-> Stage(d)]' = [[d \in Conns |-> Stage(d)] EXCEPT ![c] = Stage(c)']
<1>1. \A d \in Conns \ {c} : Stage(d)' = Stage(d)
  BY SameStage
<1> QED BY Zenon, <1>1

\* The end of a task gives the slot back, unless its client was told to proceed
\* and lives.
LEMMA EndReleases ==
  ASSUME NEW c \in Conns, Types, EndTask(c), pc[c] \notin {"ended", "freed"},
         answer[c] = "PROCEED" => proc[c] = "dead", UNCHANGED <<answer, proc>>
  PROVE  Promise!Release(c)
<1>1. pc'[c] = "ended" /\ \A d \in Conns \ {c} : pc'[d] = pc[d]
  BY EndTaskAt
<1>2. Stage(c)' = "over" /\ Stage(c) # "over"
  BY <1>1, Stages, StagesNext
<1>3. [d \in Conns |-> Stage(d)]' = [[d \in Conns |-> Stage(d)] EXCEPT ![c] = "over"]
  BY <1>1, <1>2, StageMove
<1>4. rate_map' = rate_map \/ rate_map' = [rate_map EXCEPT ![c] = "none"]
  BY DEF EndTask, ClearLimit
<1> QED BY Zenon, <1>2, <1>3, <1>4 DEF Promise!Release

\* Every stretch of the handler is a step of the promise, or invisible.
LEMMA RunPromised ==
  ASSUME NEW c \in Conns, SlotInv, EnforceInv, StraightInv, Run(c)
  PROVE  Promise!Next \/ UNCHANGED Promise!svars
<1> USE DEF mainVars, dataVars, clientVars, busVars, taskVars
<1>0. /\ Types /\ Covered(c) /\ Straight(c) /\ UNCHANGED <<answer, proc>>
      /\ \A d \in Conns \ {c} : pc'[d] = pc[d] /\ rate_map'[d] = rate_map[d]
  BY Zenon, RunSilent, RunLocal DEF SlotInv, OwnInv, EnforceInv, StraightInv, SameAt
<1> DEFINE Steps == Promise!Next \/ UNCHANGED Promise!svars
<1>a. ASSUME EndTask(c), pc[c] \notin {"ended", "freed"},
             answer[c] = "PROCEED" => proc[c] = "dead"
      PROVE  Steps
  BY Zenon, <1>0, <1>a, EndReleases DEF Promise!Next
<1>b. ASSUME rate_map' = rate_map, Stage(c)' = Stage(c) PROVE Steps
  <2>1. \A d \in Conns : Stage(d)' = Stage(d)
    BY Zenon, <1>0, <1>b, SameStage
  <2> QED BY <1>0, <1>b, <2>1, Invisible
<1>c. ASSUME rate_map' = rate_map, pc[c] \notin Slotless, pc'[c] \notin Slotless PROVE Steps
  BY <1>b, <1>c, SameStage
<1> HIDE DEF Steps
<1> SUFFICES Steps
  BY DEF Steps
<1>1. CASE RunStart(c)
  <2>0. pc[c] = "start" /\ Stage(c) = "new" /\ proc[c] # "none"
    BY Zenon, <1>0, <1>1, Stages DEF RunStart, Runs, Covered
  <2>1. CASE EndTask(c)
    BY Zenon, <1>0, <1>a, <2>0, <2>1 DEF Covered
  <2>2. CASE ~EndTask(c)
    <3>1. Promise!Held = Admitted /\ nr_tasks = Cardinality(Admitted)
          /\ nr_tasks <= MaxNrTasks /\ nr_tasks \in Int
      BY Zenon, <1>0, HeldAdmitted DEF SlotInv, Types, OwnTypes
    <3>2. rate_map' = rate_map
      BY Zenon, <1>1, <2>2 DEF RunStart
    <3>3. \/ ~SlotFree /\ pc'[c] = "rfail"
          \/ SlotFree /\ pc'[c] \in {"self_unit", "orig_unit"}
      BY Zenon, <1>0, <1>1, <2>2 DEF RunStart, IoTo, Await, Types, WaitTypes
    <3>4. CASE ~SlotFree /\ pc'[c] = "rfail"
      <4>1. Stage(c)' = "denied"
        BY <3>4, StagesNext
      <4>2. [d \in Conns |-> Stage(d)]' = [[d \in Conns |-> Stage(d)] EXCEPT ![c] = "denied"]
        BY <1>0, <4>1, StageMove
      <4>3. Promise!Cardinality(Promise!Held) = MaxNrTasks
        BY <3>1, <3>4, SameCardinality, ConstantsAssumption DEF SlotFree
      <4>4. Promise!Deny(c)
        BY Zenon, <1>0, <2>0, <3>2, <4>2, <4>3 DEF Promise!Deny
      <4> QED BY <4>4 DEF Promise!Next, Steps
    <3>5. CASE SlotFree /\ pc'[c] \in {"self_unit", "orig_unit"}
      <4>1. Stage(c)' = "held"
        BY <3>5, StagesNext DEF Slotless
      <4>2. [d \in Conns |-> Stage(d)]' = [[d \in Conns |-> Stage(d)] EXCEPT ![c] = "held"]
        BY Zenon, <1>0, <4>1, StageMove
      <4>3. Promise!Cardinality(Promise!Held) < MaxNrTasks
        BY <3>1, <3>5, SameCardinality, ConstantsAssumption DEF SlotFree
      <4>4. Promise!Admit(c)
        BY Zenon, <1>0, <2>0, <3>2, <4>2, <4>3 DEF Promise!Admit
      <4> QED BY <4>4 DEF Promise!Next, Steps
    <3> QED BY <3>3, <3>4, <3>5
  <2> QED BY <2>1, <2>2
<1>2. CASE RunCgroup(c)
  <2>1. pc[c] = "cg_path" /\ "cg_path" \notin Slotless
    BY Zenon, <1>2 DEF RunCgroup, RunsOk, Runs, Slotless
  <2>2. answer[c] = "none" /\ rate_map[c] = "none"
    BY <1>0, <2>1 DEF Straight, Told, VerdictLabels, ShutLabels, KillLabels, Unlimited
  <2>3. \/ pc'[c] = "read" /\ rate_map' = [rate_map EXCEPT ![c] = "block"]
        \/ pc'[c] = "elog" /\ rate_map' = rate_map
    BY Zenon, <1>0, <1>2 DEF RunCgroup, ErrClose, IoTo, Types, WaitTypes
  <2>4. pc'[c] \notin Slotless
    BY <2>3 DEF Slotless
  <2>5. CASE rate_map' = [rate_map EXCEPT ![c] = "block"]
    <3>1. Stage(c) = "held" /\ Stage(c)' = Stage(c)
      BY Zenon, <2>1, <2>4, Stages, SameStage
    <3>2. [d \in Conns |-> Stage(d)]' = [d \in Conns |-> Stage(d)]
      BY Zenon, <1>0, <3>1, SameStage
    <3>3. Promise!Restrict(c)
      BY Zenon, <1>0, <2>2, <2>5, <3>1, <3>2 DEF Promise!Restrict
    <3> QED BY <3>3 DEF Promise!Next, Steps
  <2> QED BY <1>c, <2>1, <2>3, <2>4, <2>5
<1>3. CASE RunRead(c)
  <2>1. pc[c] = "read" /\ "read" \notin Slotless
    BY Zenon, <1>3 DEF RunRead, Runs, Slotless
  <2>2. answer[c] = "none" /\ rate_map[c] = "block"
    BY Zenon, <1>0, <2>1 DEF Straight, Told, VerdictLabels, ShutLabels, KillLabels
  <2>3. /\ pc'[c] \in {"wlog", "elog"}
        /\ rate_map' = rate_map \/ rate_map' = [rate_map EXCEPT ![c] = "limit"]
    BY Zenon, <1>0, <1>3 DEF RunRead, StoreLimit, ErrClose, IoTo, Types, WaitTypes
  <2>4. pc'[c] \notin Slotless
    BY <2>3 DEF Slotless
  <2>5. CASE rate_map' = [rate_map EXCEPT ![c] = "limit"]
    <3>1. Stage(c) = "held" /\ Stage(c)' = Stage(c)
      BY <2>1, <2>4, Stages, SameStage
    <3>2. [d \in Conns |-> Stage(d)]' = [d \in Conns |-> Stage(d)]
      BY Zenon, <1>0, <3>1, SameStage
    <3>3. Promise!Restrict(c)
      BY Zenon, <1>0, <2>2, <2>5, <3>1, <3>2 DEF Promise!Restrict
    <3> QED BY <3>3 DEF Promise!Next, Steps
  <2> QED BY Zenon, <1>c, <2>1, <2>3, <2>4, <2>5
<1>4. CASE \/ RunQuery(c) \/ RunSelfUnit(c) \/ RunOrigCgroup(c) \/ RunMatch(c) \/ RunGetUnit(c)
           \/ RunBusError(c)
  <2>1. rate_map' = rate_map /\ pc[c] \in BusLabels
    BY Zenon, <1>4, LabelKinds DEF RunQuery, RunSelfUnit, RunOrigCgroup, RunMatch, RunGetUnit,
           RunBusError, RunsOk, Runs, BusLabels, QueryLabels
  <2>2. pc'[c] \in BusLabels \cup {"rlog", "elog"}
    <3>1. CASE RunQuery(c)
      <4>1. pc[c] \in DOMAIN NextQuery /\ Await(c, NextQuery[pc[c]])
        BY Zenon, <3>1 DEF RunQuery, RunsOk, Runs
      <4>2. pc'[c] = NextQuery[pc[c]]
        BY Zenon, <1>0, <4>1, AwaitAt
      <4> QED BY <4>1, <4>2, LabelKinds
    <3>2. CASE RunSelfUnit(c) \/ RunMatch(c)
      BY Zenon, <1>0, <3>2, AwaitAt DEF RunSelfUnit, RunMatch, BusLabels, QueryLabels
    <3>3. CASE RunOrigCgroup(c)
      <4>1. pc'[c] \in {"rlog", "s_slice"}
        BY Zenon, <1>0, <3>3 DEF RunOrigCgroup, IoTo, Await, Types, WaitTypes
      <4> QED BY <4>1 DEF BusLabels, QueryLabels
    <3>4. CASE RunGetUnit(c)
      <4>1. pc'[c] \in {"elog", "cg_path"}
        BY Zenon, <1>0, <3>4 DEF RunGetUnit, ErrClose, IoTo, Await, Types, WaitTypes
      <4> QED BY <4>1 DEF BusLabels, QueryLabels
    <3>5. CASE RunBusError(c)
      BY Zenon, <1>0, <3>5, IoToAt DEF RunBusError, ErrClose
    <3> QED BY <1>4, <3>1, <3>2, <3>3, <3>4, <3>5
  <2>3. pc[c] \notin Slotless /\ pc'[c] \notin Slotless
    BY Zenon, <2>1, <2>2, LabelKinds DEF Slotless
  <2> QED BY Zenon, <1>c, <2>1, <2>3
<1>5. CASE RunLogged(c)
  <2>1. pc[c] \in LogLabels /\ pc'[c] = NextIo[pc[c]] /\ rate_map' = rate_map
    BY Zenon, <1>0, <1>5 DEF RunLogged, Runs, IoTo, Types, WaitTypes
  <2>2. pc[c] \notin Slotless /\ pc'[c] \notin Slotless
    BY Zenon, <2>1, LabelKinds DEF Slotless
  <2> QED BY Zenon, <1>c, <2>1, <2>2
<1>6. CASE RunVerdict(c)
  <2>1. pc[c] \in VerdictLabels /\ pc'[c] = NextIo[pc[c]] /\ rate_map' = rate_map
    <3> DEFINE next == NextIo[pc[c]]
    <3>1. pc[c] \in VerdictLabels /\ (\E st : ShutTo(c, st, next)) /\ rate_map' = rate_map
      BY <1>6 DEF RunVerdict, Runs
    <3> HIDE DEF next
    <3>2. pc'[c] = next
      BY <1>0, <3>1, ShutToAt
    <3> QED BY <3>1, <3>2 DEF next
  <2>2. CASE pc[c] = "rfail"
    <3>0. NextIo["rfail"] = "rshut"
      BY DEF NextIo
    <3>1. pc'[c] = "rshut"
      BY Zenon, <2>1, <2>2, <3>0
    <3> QED BY <1>b, <2>1, <2>2, <3>1, SameStage
  <2>3. CASE pc[c] # "rfail"
    BY Zenon, <1>c, <2>1, <2>3, LabelKinds
  <2> QED BY <2>2, <2>3
<1>7. CASE RunGranted(c)
  <2>1. pc[c] = "wshut" /\ pc'[c] \in {"kill", "wait_exit"} /\ rate_map' = rate_map
    BY Zenon, <1>0, <1>7, AwaitAt DEF RunGranted, Runs, KillTo
  <2>2. pc[c] \notin Slotless /\ pc'[c] \notin Slotless
    BY <2>1 DEF Slotless
  <2> QED BY <1>c, <2>1, <2>2
<1>8. CASE RunExited(c)
  <2>1. pc[c] = "wait_exit" /\ pc'[c] = "kill" /\ rate_map' = rate_map
    BY Zenon, <1>0, <1>8, AwaitAt DEF RunExited, RunsOk, Runs, KillTo
  <2>2. pc[c] \notin Slotless /\ pc'[c] \notin Slotless
    BY <2>1 DEF Slotless
  <2> QED BY <1>c, <2>1, <2>2
<1>9. CASE RunRefused(c)
  BY Zenon, <1>0, <1>9, <1>a DEF RunRefused, Runs, Covered
<1>10. CASE RunKilled(c)
  BY Zenon, <1>0, <1>10, <1>a DEF RunKilled, Runs, Covered, KillLabels
<1>11. CASE RunInterrupted(c)
  <2>0. pc[c] \in Interruptible /\ pc[c] \notin Slotless /\ wake[c] = "cancel"
    BY Zenon, <1>11, LabelKinds DEF RunInterrupted, Runs, Interruptible
  <2>1. CASE TellClient(c)
    <3>1. pc'[c] = "ifail" /\ rate_map' = rate_map
      BY Zenon, <1>0, <1>11, <2>1, IoToAt DEF RunInterrupted
    <3> QED BY <1>c, <2>0, <3>1 DEF Slotless
  <2>2. CASE ~TellClient(c) /\ "scope" \in owned[c]
    <3>1. PICK st, watch : KillOrEnd(c, st, watch)
      BY Zenon, <1>11, <2>2 DEF RunInterrupted
    <3>2. pc'[c] = "ikill" /\ rate_map' = rate_map
      BY Zenon, <1>0, <2>2, <3>1, KillOrEndAt
    <3> QED BY Zenon, <1>c, <2>0, <3>2 DEF Slotless
  <2>3. CASE ~TellClient(c) /\ "scope" \notin owned[c]
    <3>1. EndTask(c)
      BY Zenon, <1>11, <2>3 DEF RunInterrupted, KillOrEnd
    <3>2. answer[c] = "PROCEED" => proc[c] = "dead"
      <4>1. pc[c] \in BusLabels \cup {"read", "wait_exit"} /\ pc[c] \notin Watched
        BY Zenon, <1>0, <2>0, <2>3 DEF Covered, Interruptible
      <4>2. pc[c] \notin {"wproceed", "wshut", "wait_exit", "ikill"}
        BY <4>1 DEF Watched, Granting, BusLabels, QueryLabels
      <4> QED BY Zenon, <1>0, <4>2 DEF Covered
    <3> QED BY Zenon, <1>a, <2>0, <3>1, <3>2 DEF Slotless
  <2> QED BY <2>1, <2>2, <2>3
<1>12. CASE RunInterruptTold(c)
  <2>0. pc[c] = "ishut"
    BY Zenon, <1>12 DEF RunInterruptTold, Runs
  <2>1. CASE "scope" \in owned[c]
    <3>1. pc'[c] = "ikill" /\ rate_map' = rate_map
      BY Zenon, <1>0, <1>12, <2>1, KillOrEndAt DEF RunInterruptTold
    <3> QED BY Zenon, <1>c, <2>0, <3>1 DEF Slotless
  <2>2. CASE "scope" \notin owned[c]
    <3>1. EndTask(c)
      BY <1>12, <2>2 DEF RunInterruptTold, KillOrEnd
    <3> QED BY Zenon, <1>0, <1>a, <2>0, <3>1 DEF Covered
  <2> QED BY <2>1, <2>2
<1>13. CASE RunClosed(c)
  BY <1>13, <1>b, SameStage DEF RunClosed
<1> QED BY <1>1, <1>2, <1>3, <1>4, <1>5, <1>6, <1>7, <1>8, <1>9, <1>10, <1>11, <1>12, <1>13
        DEF Run

\* So is every handler of the event loop that serves session c.
LEMMA DispatchPromised ==
  ASSUME NEW c \in Conns, SlotInv, EnforceInv, StraightInv, Accept(c) \/ DispatchTask(c)
  PROVE  Promise!Next \/ UNCHANGED Promise!svars
<1> USE DEF mainVars, dataVars, clientVars, busVars, taskVars
<1>1. /\ Types /\ Covered(c) /\ Straight(c)
      /\ \A d \in Conns \ {c} : pc'[d] = pc[d]
  BY Zenon, RunLocal DEF SlotInv, OwnInv, EnforceInv, StraightInv, SameAt
<1>2. UNCHANGED <<rate_map, proc>>
  BY Zenon DEF Accept, DispatchTask, DispatchRead, DispatchWrite, DispatchHangup, DispatchIoTimer,
         DispatchPidfd, DispatchQuery, DispatchReply, DispatchJobRemoved, DispatchEnd
<1>3. Stage(c)' = Stage(c)
  <2>1. CASE Accept(c)
    <3>1. pc[c] = "idle" /\ pc'[c] = "start"
      BY <1>1, <2>1 DEF Accept, Types, WaitTypes
    <3> QED BY <3>1, SameStage
  <2>2. CASE DispatchEnd(c)
    <3>1. pc[c] = "ended" /\ pc'[c] = "freed"
      BY <1>1, <2>2 DEF DispatchEnd, Types, WaitTypes
    <3> QED BY Zenon, <3>1, SameStage
  <2>3. CASE ~Accept(c) /\ ~DispatchEnd(c)
    <3>1. pc' = pc
      BY Zenon, <2>3 DEF DispatchTask, DispatchRead, DispatchWrite, DispatchHangup, DispatchIoTimer,
         DispatchPidfd, DispatchQuery, DispatchReply, DispatchJobRemoved
    <3> QED BY <3>1, SameStage
  <2> QED BY <2>1, <2>2, <2>3
<1>4. ASSUME NEW d \in Conns PROVE Stage(d)' = Stage(d)
  <2>1. CASE d = c
    BY <1>3, <2>1
  <2>2. CASE d # c
    <3>1. pc'[d] = pc[d]
      BY <1>1, <2>2
    <3> QED BY <3>1, SameStage
  <2> QED BY <2>1, <2>2
<1>5. CASE answer' = answer
  BY <1>2, <1>4, <1>5, Invisible
<1>6. CASE answer' # answer
  <2>1. answer'[c] # answer[c]
    <3>1. answer' \in [Conns -> {"none", "PROCEED", "FAIL", "NORESOURCE"}]
      BY Zenon, <1>1, DispatchTypes DEF Types, ClientTypes
    <3>2. \A d \in Conns \ {c} : answer'[d] = answer[d]
      BY <1>1, RunLocal DEF SameAt
    <3>3. answer \in [Conns -> {"none", "PROCEED", "FAIL", "NORESOURCE"}]
      BY <1>1 DEF Types, ClientTypes
    <3> QED BY <1>6, <3>1, <3>2, <3>3, OneChanged
  <2>2. /\ pc[c] \in VerdictLabels /\ answer[c] = "none"
        /\ answer' = [answer EXCEPT ![c] = Verdict(pc[c])]
    BY Zenon, <1>1, <2>1, DispatchStraight
  <2>3. \/ pc[c] = "wproceed" /\ Verdict(pc[c]) = "PROCEED"
        \/ pc[c] \in {"efail", "ifail"} /\ Verdict(pc[c]) = "FAIL"
        \/ pc[c] = "rfail" /\ Verdict(pc[c]) = "NORESOURCE"
    BY <2>2 DEF VerdictLabels, Verdict
  <2>4. \/ Verdict(pc[c]) = "PROCEED" /\ Stage(c) = "held" /\ rate_map[c] = "limit"
        \/ Verdict(pc[c]) = "FAIL" /\ Stage(c) = "held"
        \/ Verdict(pc[c]) = "NORESOURCE" /\ Stage(c) = "denied"
    BY Zenon, <1>1, <2>3, Stages DEF Slotless, Covered, Granting
  <2>5. Promise!Tell(c, Verdict(pc[c]))
    BY Zenon, <1>2, <1>4, <2>2, <2>4 DEF Promise!Tell
  <2>6. Verdict(pc[c]) \in {"PROCEED", "FAIL", "NORESOURCE"}
    BY <2>3
  <2> QED BY <2>5, <2>6 DEF Promise!Next
<1> QED BY <1>5, <1>6

\* Clients and systemd only act on processes.
LEMMA EnvironmentPromised ==
  ASSUME NEW c \in Conns, Types, Environment(c)
  PROVE  Promise!Next \/ UNCHANGED Promise!svars
<1> USE DEF mainVars, dataVars, clientVars, busVars, taskVars
<1>1. UNCHANGED <<pc, rate_map, answer>>
  BY Zenon DEF Environment, Connect, Proceed, GiveUp, Die, SystemdStart, SystemdJob, SystemdKill
<1>2. [d \in Conns |-> Stage(d)]' = [d \in Conns |-> Stage(d)]
  BY <1>1, SameStage
<1>3. CASE Connect(c)
  <2>1. Promise!Arrive(c)
    BY <1>1, <1>2, <1>3 DEF Connect, Promise!Arrive
  <2> QED BY <2>1 DEF Promise!Next
<1>4. CASE Proceed(c)
  <2>1. Promise!Proceed(c)
    BY <1>1, <1>2, <1>4 DEF Proceed, Promise!Proceed
  <2> QED BY <2>1 DEF Promise!Next
<1>5. ASSUME NEW dying \in SUBSET Conns, \A d \in dying : proc[d] # "none",
             proc' = [d \in Conns |-> IF d \in dying THEN "dead" ELSE proc[d]]
      PROVE  Promise!Next
  <2>1. Promise!Die(dying)
    BY <1>1, <1>2, <1>5 DEF Promise!Die
  <2> QED BY <2>1 DEF Promise!Next
<1>6. CASE GiveUp(c) \/ Die(c)
  <2>1. proc' = [proc EXCEPT ![c] = "dead"] /\ proc[c] # "none"
    BY Zenon, <1>6 DEF GiveUp, Die
  <2>2. proc' = [d \in Conns |-> IF d \in {c} THEN "dead" ELSE proc[d]]
    BY Zenon, <2>1 DEF Types, ClientTypes
  <2> QED BY ZenonT(60), <1>5, <2>1, <2>2
<1>7. CASE SystemdStart(c) \/ SystemdJob(c)
  <2>1. proc' = proc
    BY Zenon, <1>7 DEF SystemdStart, SystemdJob
  <2> QED BY <1>1, <1>2, <2>1 DEF Promise!svars
<1>8. CASE SystemdKill(c)
  <2>1. CASE proc' = proc
    BY <1>1, <1>2, <2>1 DEF Promise!svars
  <2>2. CASE proc' # proc
    <3> DEFINE dying == {d \in Conns : d \in Members(c) /\ proc[d] # "none"}
    <3>1. proc' = [d \in Conns |-> IF d \in Members(c) /\ proc[d] # "none" THEN "dead" ELSE proc[d]]
      BY <1>8, <2>2 DEF SystemdKill
    <3>2. proc' = [d \in Conns |-> IF d \in dying THEN "dead" ELSE proc[d]]
      BY <3>1
    <3>3. dying \in SUBSET Conns /\ \A d \in dying : proc[d] # "none"
      OBVIOUS
    <3> HIDE DEF dying
    <3> QED BY <1>5, <3>2, <3>3
  <2> QED BY <2>1, <2>2
<1> QED BY <1>3, <1>4, <1>6, <1>7, <1>8 DEF Environment

-----------------------------------------------------------------------------
(* Counting.                                                               *)

INSTANCE FiniteSetTheorems

\* The slots are counted right throughout, and never more than MAX_NR_TASKS.
LEMMA Slots == Spec => []SlotInv
<1>0. /\ IsFiniteSet(Admitted) /\ Cardinality(Admitted) \in Nat
      /\ IsFiniteSet(Admitted)' /\ MaxNrTasks \in Nat
  BY ConstantsAssumption, FS_Subset, FS_CardinalityType DEF Admitted
<1>1. Init => nr_tasks = Cardinality(Admitted) /\ nr_tasks <= MaxNrTasks
  <2>1. Init => Admitted = {}
    BY DEF Init, Admitted
  <2> QED BY <1>0, <2>1, FS_EmptySet DEF Init
<1>2. OwnInv /\ SlotInv /\ [Next]_vars => (nr_tasks = Cardinality(Admitted) /\ nr_tasks <= MaxNrTasks)'
  <2> SUFFICES ASSUME SlotInv, [Next]_vars
               PROVE  nr_tasks' = Cardinality(Admitted') /\ nr_tasks' <= MaxNrTasks
    OBVIOUS
  <2> USE DEF mainVars, dataVars, clientVars, busVars, taskVars
  <2>0. nr_tasks = Cardinality(Admitted) /\ nr_tasks <= MaxNrTasks /\ OwnInv
    BY DEF SlotInv
  <2>1. ASSUME SameSlots PROVE nr_tasks' = Cardinality(Admitted') /\ nr_tasks' <= MaxNrTasks
    BY <2>0, <2>1 DEF SameSlots
  <2>2. ASSUME NEW c \in Conns, Run(c) PROVE nr_tasks' = Cardinality(Admitted') /\ nr_tasks' <= MaxNrTasks
    <3>1. CASE TakesSlot(c)
      <4>1. Cardinality(Admitted') = Cardinality(Admitted) + 1
        BY <1>0, <3>1, FS_AddElement DEF TakesSlot
      <4> QED BY <1>0, <2>0, <3>1, <4>1 DEF TakesSlot
    <3>2. CASE GivesSlot(c)
      <4>1. Cardinality(Admitted') = IF c \in Admitted THEN Cardinality(Admitted) - 1 ELSE Cardinality(Admitted)
        BY <1>0, <3>2, FS_RemoveElement DEF GivesSlot
      <4> QED BY <1>0, <2>0, <3>2, <4>1 DEF GivesSlot
    <3> QED BY <2>0, <2>1, <2>2, <3>1, <3>2, RunSlots
  <2>3. ASSUME UNCHANGED <<nr_tasks, owned>> PROVE SameSlots
    BY <2>3 DEF SameSlots, Admitted
  <2>4. ASSUME NEW c \in Conns, Accept(c) \/ DispatchTask(c) PROVE UNCHANGED <<nr_tasks, owned>>
    BY Zenon, <2>4 DEF Accept, DispatchTask, DispatchRead, DispatchWrite, DispatchHangup, DispatchIoTimer,
       DispatchPidfd, DispatchQuery, DispatchReply, DispatchJobRemoved, DispatchEnd
  <2>5. ASSUME NEW c \in Conns, Environment(c) PROVE UNCHANGED <<nr_tasks, owned>>
    BY Zenon, <2>5 DEF Environment, Connect, Proceed, GiveUp, Die, SystemdStart, SystemdJob, SystemdKill
  <2>6. CASE DispatchOther \/ DispatchSignal \/ DispatchSleepTimer \/ Finish \/ Over \/ UNCHANGED vars
    <3>1. UNCHANGED <<nr_tasks, owned>>
      BY Zenon, <2>6 DEF DispatchOther, DispatchSignal, DispatchSleepTimer, Finish, Over, vars
    <3> QED BY <2>1, <2>3, <3>1
  <2> QED BY <2>1, <2>2, <2>3, <2>4, <2>5, <2>6 DEF Next
<1>3. SlotInv <=> OwnInv /\ (nr_tasks = Cardinality(Admitted) /\ nr_tasks <= MaxNrTasks)
  BY DEF SlotInv
<1> QED BY <1>1, <1>2, <1>3, OwnsHold, PTL DEF Spec

\* Every variable keeps its type, and g_nr_tasks stays within 0..MAX_NR_TASKS,
\* whatever faults occur: decrease_nr_tasks (main.c:127-135) never aborts.
THEOREM TypeCorrect == Spec => []TypeOK
<1>1. SlotInv => nr_tasks \in 0..MaxNrTasks
  <2>1. Cardinality(Admitted) \in Nat
    BY ConstantsAssumption, FS_Subset, FS_CardinalityType DEF Admitted
  <2> QED BY <2>1, ConstantsAssumption DEF SlotInv
<1>2. SlotInv => TypeOK
  BY Zenon, <1>1
     DEF SlotInv, OwnInv, TypeOK, Types, WaitTypes, OwnTypes, MainTypes, OtherTypes, ClientTypes, BusTypes
<1> QED BY <1>2, Slots, PTL

\* If deletions from the map do not fail, at most MAX_NR_TASKS entries exist, one
\* for each session that holds a slot (main.c:127-146, 196-203, 304-310).
THEOREM MapFitsAlways ==
  ASSUME "bpf" \notin Faults
  PROVE  Spec => []MapFits
<1>1. SlotInv => MapFits
  BY DEF SlotInv, OwnInv, MapFits, Limited, Admitted, Owns
<1> QED BY <1>1, Slots, PTL

\* No session is left when the loop ends ("all task is over", main.c:553), and no
\* slot is taken, for any number of sessions and whatever fails; the exit through
\* a coroutine's trampoline is not part of this.
THEOREM EndsWithoutTasks == Spec => []AllTasksOver
<1>1. SlotInv /\ Exiting => AllTasksOver
  <2> SUFFICES ASSUME SlotInv, Exiting, loop = "finished" PROVE AllTasks = {} /\ nr_tasks = 0
    BY DEF AllTasksOver
  <2>1. AllTasks = {}
    BY DEF Exiting
  <2>2. \A c \in Conns : owned[c] = {}
    BY <2>1 DEF AllTasks, SlotInv, OwnInv, Owns
  <2>3. Admitted = {}
    BY <2>2 DEF Admitted
  <2> QED BY <2>1, <2>3, FS_EmptySet DEF SlotInv
<1> QED BY <1>1, ExitingHolds, Slots, PTL

\* The daemon implements Session (KeepsPromise), for any number of clients and
\* slots and any faults but a Kill that fails while the scope has a process.
THEOREM PromiseKept ==
  ASSUME "kill" \notin Faults
  PROVE  Spec => KeepsPromise
<1>1. Init => Promise!Init
  BY DEF Init, Promise!Init, Stage
<1>2. SlotInv /\ EnforceInv /\ StraightInv /\ [Next]_vars => [Promise!Next]_Promise!svars
  <2> SUFFICES ASSUME SlotInv, EnforceInv, StraightInv, [Next]_vars
               PROVE  Promise!Next \/ UNCHANGED Promise!svars
    OBVIOUS
  <2> USE DEF mainVars, dataVars, clientVars, busVars, taskVars
  <2>1. CASE \E c \in Conns : Run(c) \/ Accept(c) \/ DispatchTask(c)
    BY <2>1, RunPromised, DispatchPromised
  <2>2. CASE \E c \in Conns : Environment(c)
    BY <2>2, EnvironmentPromised DEF SlotInv, OwnInv
  <2>3. CASE \/ DispatchOther \/ DispatchSignal \/ DispatchSleepTimer \/ Finish \/ Over
             \/ UNCHANGED vars
    <3>1. UNCHANGED <<pc, rate_map, answer, proc>>
      BY Zenon, <2>3 DEF DispatchOther, DispatchSignal, DispatchSleepTimer, Finish, Over, vars
    <3> QED BY <3>1, SameStage, Invisible
  <2> QED BY <2>1, <2>2, <2>3 DEF Next
<1> QED BY <1>1, <1>2, Slots, AllCovered, AllStraight, PTL DEF Spec, KeepsPromise, Promise!Spec
=============================================================================
