-------------------------------- MODULE SdBus --------------------------------
(***************************************************************************)
(* The calls a coroutine makes on the system bus (sd_bus.c): sb_bus_call,  *)
(* the wait for a systemd job, and start_transient_scope and               *)
(* get_self_unit_name, which are built from them.  Each wait can end with  *)
(* an answer, an error, the library's timeout, an interrupt or the loss of *)
(* the connection.  Daemon sees only how these waits end; here is what     *)
(* they leave behind: reply slots, signal matches, messages, strings, and  *)
(* references to the bus.                                                  *)
(***************************************************************************)
EXTENDS Integers, Sequences, FiniteSets

CONSTANTS Tasks,   \* coroutines
          Faults   \* what may fail: "mem" (an allocation or a message that
                   \* cannot be built or read), "bus" (a call that cannot be
                   \* sent or is refused), "timeout", "disconnect"

ASSUME TasksAssumption == IsFiniteSet(Tasks)
ASSUME FaultsAssumption == Faults \subseteq {"mem", "bus", "timeout", "disconnect"}

\* Where a coroutine waits: for the answer to one of the calls, for the AddMatch
\* of JobRemoved, for the job; or elsewhere in its session, with a scope.
Calls == {"self_unit", "self_id", "unit", "id", "slice", "start", "getunit", "kill"}
Waits == Calls \cup {"match", "job"}
Labels == Waits \cup {"new", "begin", "session", "done"}

\* The memory and messages a coroutine can hold; "m" and "slot" are the request
\* and the slot of the call in progress, "reply" is what its callback stored.
Things == {"unit_obj", "unit", "unit_name", "slice", "scope_name", "scope_obj",
           "m_req", "m_res", "m", "slot", "reply"}

\* struct sb_sd_wait_for_job_arg: the two match slots, and whether the job's
\* path and a result string are set.  The path is inside m_res.
NoArg == [closed |-> TRUE, job_removed |-> FALSE, disconnected |-> FALSE,
          job_obj |-> FALSE, result |-> FALSE]
Arg == [closed : BOOLEAN, job_removed : BOOLEAN, disconnected : BOOLEAN,
        job_obj : BOOLEAN, result : BOOLEAN]

VARIABLES pc, disabled,
          wake,       \* how each coroutine was woken: "none" (not yet), "ok", "err", "cancel"
          held,       \* the things each coroutine holds
          arg,        \* its wait_for_job_arg
          bus_refs,   \* references to the bus object
          pending,    \* calls whose reply slot is registered, as <<task, label>>
          outbox,     \* calls on their way to systemd
          inbox,      \* replies [to, res] and JobRemoved signals [job, res] on their way back
          jobs,       \* each scope's job, in systemd: "none", "queued", "done", "failed"
          bus,        \* the connection: "open", "closing", "closed"
          aborted     \* an assertion failed

taskVars == <<pc, wake, disabled, held, arg>>
busVars == <<pending, outbox, inbox, jobs, bus>>
vars == <<taskVars, bus_refs, busVars, aborted>>

Init ==
  /\ pc = [c \in Tasks |-> "new"]
  /\ wake = [c \in Tasks |-> "none"]
  /\ disabled = [c \in Tasks |-> FALSE]
  /\ held = [c \in Tasks |-> {}]
  /\ arg = [c \in Tasks |-> NoArg]
  /\ bus_refs = 1
  /\ pending = {} /\ outbox = <<>> /\ inbox = <<>>
  /\ jobs = [c \in Tasks |-> "none"]
  /\ bus = "open" /\ aborted = FALSE

LoopIdle_Eager == TRUE

\* main() lets every ready coroutine run before it dispatches the next event.
LoopIdle == \A c \in Tasks : wake[c] = "none"

-----------------------------------------------------------------------------
(* Leaving a wait.                                                         *)

\* sb_sd_free_wait_for_job.
FreeArg(a) ==
  IF a.closed THEN a
  ELSE [a EXCEPT !.job_removed = FALSE, !.disconnected = FALSE, !.closed = TRUE]
Unrefs(a) == IF a.closed THEN 0 ELSE 1

\* What the goto labels at the end of start_transient_scope free, from the first
\* to the last; the labels fall through.
Chain == <<"m_res", "m_req", "wait_for_job", "scope_name", "slice", "unit">>
Falls(first) == {Chain[i] : i \in {j \in 1..Len(Chain) : \E k \in 1..j : Chain[k] = first}}

\* Where a failing wait joins the chain, and what it frees itself before that.
FailLabel == [ self_unit |-> "none", self_id |-> "none", unit |-> "none", id |-> "unit",
               slice |-> "unit", match |-> "scope_name", start |-> "m_req", job |-> "m_res",
               getunit |-> "m_res", kill |-> "none" ]
FailFrees == [ [l \in Waits |-> {}] EXCEPT !["self_id"] = {"unit_obj"}, !["slice"] = {"unit_name"},
               !["kill"] = {"scope_name", "scope_obj"} ]

\* The running coroutine's share of the state, as values: its things, its
\* wait_for_job_arg and the bus references.  The slot and the request of the call
\* that returned are released on every path.
Frame(l) == IF l = "start" THEN {"slot"} ELSE {"slot", "m"}
Returned(c) == [h |-> held[c] \ Frame(pc[c]), a |-> arg[c], refs |-> bus_refs]

Unslotted_NotIfCancelled(c) == IF wake[c] = "cancel" THEN pending ELSE pending \ {<<c, pc[c]>>}

\* The reply slot of the wait that returned is gone, answered or not.
Unslotted(c) == pending \ {<<c, pc[c]>>}

Suspend(c, l, s) ==
  /\ pc' = [pc EXCEPT ![c] = l]
  /\ wake' = [wake EXCEPT ![c] = "none"]
  /\ held' = [held EXCEPT ![c] = s.h]
  /\ arg' = [arg EXCEPT ![c] = s.a]
  /\ bus_refs' = s.refs

FreeJob_ForgetsBus(s) == [s EXCEPT !.a = FreeArg(@)]

FreeJob(s) == [h |-> s.h, a |-> FreeArg(s.a), refs |-> s.refs - Unrefs(s.a)]

Freed(s, first) ==
  LET t == IF "wait_for_job" \in Falls(first) THEN FreeJob(s) ELSE s IN
  [t EXCEPT !.h = @ \ Falls(first)]

\* The coroutine is done with the bus.
Stop(c, s, first) ==
  /\ Suspend(c, "done", Freed(s, first))
  /\ pending' = Unslotted(c)
  /\ UNCHANGED outbox

\* Wait l has failed, or could not even begin.
Fail(c, l, s) == Stop(c, [s EXCEPT !.h = @ \ FailFrees[l]], FailLabel[l])

\* sb_bus_call, up to its wait.
Call(c, l, s) ==
  \/ /\ bus = "open"
     /\ Suspend(c, l, [s EXCEPT !.h = @ \cup Frame(l)])
     /\ pending' = Unslotted(c) \cup {<<c, l>>}
     /\ outbox' = Append(outbox, <<c, l>>)
  \/ (bus # "open" \/ Faults \cap {"mem", "bus"} # {}) /\ Fail(c, l, s)

-----------------------------------------------------------------------------
(* The coroutine, one action per wait it returns from.                     *)

Runs(c, l, how) == pc[c] = l /\ wake[c] = how
Rest == UNCHANGED <<disabled, inbox, jobs, bus, aborted>>
Broken == "mem" \in Faults

\* g_this_unit_name may be known already.
RunBegin(c) ==
  /\ Runs(c, "begin", "ok")
  /\ \E l \in {"self_unit", "unit"} : Call(c, l, Returned(c))
  /\ Rest

\* A reply is read, what it says is copied, and the next call is made: GetUnitByPID
\* for the daemon and Id of its unit (get_self_unit_name), GetUnitByPID for the
\* client, and Id and Slice of its unit (sb_Unit_Get_subprop_string).
NextCall == [ self_unit |-> "self_id", self_id |-> "unit", unit |-> "id", id |-> "slice" ]
Copies == [ self_unit |-> {"unit_obj"}, self_id |-> {}, unit |-> {"unit"}, id |-> {"unit_name"} ]
Drops == [ self_unit |-> {}, self_id |-> {"unit_obj"}, unit |-> {}, id |-> {} ]

RunQuery(c) ==
  \E l \in DOMAIN NextCall :
    /\ Runs(c, l, "ok")
    /\ LET s == [Returned(c) EXCEPT !.h = @ \ {"reply"}] IN
         \/ Call(c, NextCall[l], [s EXCEPT !.h = (@ \ Drops[l]) \cup Copies[l]])
         \/ Broken /\ Fail(c, l, s)
    /\ Rest

\* The slice is known: the scope gets its name, and sb_sd_init_wait_for_job asks
\* for JobRemoved signals and waits for the match to be installed.
RunSlice(c) ==
  /\ Runs(c, "slice", "ok")
  /\ LET s == [Returned(c) EXCEPT !.h = @ \ {"reply", "unit_name"}]
         named == [s EXCEPT !.h = @ \cup {"slice", "scope_name"}] IN
       \/ Broken /\ Stop(c, s, "unit")
       \/ Broken /\ Stop(c, [s EXCEPT !.h = @ \cup {"slice"}], "slice")
       \/ /\ bus # "open" \/ Faults \cap {"mem", "bus"} # {}
          /\ Stop(c, named, "scope_name")
       \/ /\ bus = "open"
          /\ Suspend(c, "match", [h |-> named.h, a |-> [NoArg EXCEPT !.job_removed = TRUE],
                                  refs |-> named.refs + 1])
          /\ pending' = Unslotted(c) \cup {<<c, "match">>}
          /\ outbox' = Append(outbox, <<c, "match">>)
  /\ Rest

\* fail_free_slot_job_removed.
NoMatch(s) == [h |-> s.h, a |-> [s.a EXCEPT !.job_removed = FALSE], refs |-> s.refs - 1]

\* Both matches are in: StartTransientUnit is built and sent.
RunMatch(c) ==
  /\ Runs(c, "match", "ok")
  /\ LET s == Returned(c)
         ready == [s EXCEPT !.a = [@ EXCEPT !.disconnected = TRUE, !.closed = FALSE]] IN
       \/ Broken /\ Stop(c, NoMatch(s), "scope_name")
       \/ Broken /\ Stop(c, ready, "wait_for_job")
       \/ Call(c, "start", [ready EXCEPT !.h = @ \cup {"m_req"}])
  /\ Rest

\* The reply names the job, and sb_sd_wait_for_job waits for it to be removed,
\* unless the connection has been lost.
RunStart(c) ==
  /\ Runs(c, "start", "ok")
  /\ LET s == [Returned(c) EXCEPT !.h = (@ \ {"reply"}) \cup {"m_res"}] IN
       \/ Broken /\ Stop(c, s, "m_res")
       \/ IF s.a.closed
            THEN Stop(c, [s EXCEPT !.a = [@ EXCEPT !.result = FALSE]], "m_res")
            ELSE /\ Suspend(c, "job", [s EXCEPT !.a = [@ EXCEPT !.job_obj = TRUE]])
                 /\ pending' = Unslotted(c)
                 /\ UNCHANGED outbox
  /\ Rest

\* The job is done: both matches are dropped and the scope's object is asked for.
RunJob(c) ==
  /\ Runs(c, "job", "ok")
  /\ Call(c, "getunit", FreeJob([Returned(c) EXCEPT !.a = [@ EXCEPT !.result = FALSE]]))
  /\ Rest

\* The job failed, or the connection was lost.
RunJobFailed(c) ==
  /\ Runs(c, "job", "err")
  /\ Fail(c, "job", FreeJob([Returned(c) EXCEPT !.a = [@ EXCEPT !.result = FALSE]]))
  /\ Rest

\* start_transient_scope returns the scope's name and object to its session.
RunGetUnit(c) ==
  /\ Runs(c, "getunit", "ok")
  /\ LET s == [Returned(c) EXCEPT !.h = @ \ {"reply"}] IN
       \/ Broken /\ Fail(c, "getunit", s)
       \/ /\ Suspend(c, "session", [Freed(s, "m_res") EXCEPT !.h = {"scope_name", "scope_obj"} \cup
                                                                  (@ \ {"scope_name"})])
          /\ pending' = Unslotted(c)
          /\ UNCHANGED outbox
  /\ Rest

\* The session is over, or interrupted: the scope is killed; or it failed.
RunSession(c) ==
  /\ pc[c] = "session" /\ wake[c] # "none"
  /\ disabled' = [disabled EXCEPT ![c] = wake[c] = "cancel"]
  /\ \/ wake[c] # "err" /\ Call(c, "kill", Returned(c))
     \/ wake[c] = "err" /\ Fail(c, "kill", Returned(c))
  /\ UNCHANGED <<inbox, jobs, bus, aborted>>

RunKilled(c) ==
  /\ Runs(c, "kill", "ok")
  /\ Fail(c, "kill", [Returned(c) EXCEPT !.h = @ \ {"reply"}])
  /\ Rest

\* A call returned an error.
RunError(c) ==
  \E l \in Calls :
    /\ Runs(c, l, "err")
    /\ Fail(c, l, Returned(c))
    /\ Rest

\* AddMatch returned an error, or its wait was interrupted.
RunNoMatch(c) ==
  /\ pc[c] = "match" /\ wake[c] \in {"err", "cancel"}
  /\ Fail(c, "match", NoMatch(Returned(c)))
  /\ disabled' = [disabled EXCEPT ![c] = wake[c] = "cancel"]
  /\ UNCHANGED <<inbox, jobs, bus, aborted>>

\* A call was interrupted.  What its callback may have stored is not looked at.
RunInterrupted(c) ==
  \E l \in Calls \cup {"job"} :
    /\ Runs(c, l, "cancel")
    /\ Fail(c, l, IF l = "job" THEN FreeJob(Returned(c)) ELSE Returned(c))
    /\ disabled' = [disabled EXCEPT ![c] = TRUE]
    /\ UNCHANGED <<inbox, jobs, bus, aborted>>

Run(c) ==
  \/ RunBegin(c) \/ RunQuery(c) \/ RunSlice(c) \/ RunMatch(c) \/ RunStart(c)
  \/ RunJob(c) \/ RunJobFailed(c) \/ RunGetUnit(c) \/ RunSession(c) \/ RunKilled(c)
  \/ RunError(c) \/ RunNoMatch(c) \/ RunInterrupted(c)

-----------------------------------------------------------------------------
(* The event loop and the bus library.                                     *)

Wake(c, how) == wake' = [wake EXCEPT ![c] = how]

\* sb_bus_call_cb and sb_sd_wait_for_job_signal_match_installed, for the call of
\* wait w[2] of coroutine w[1].  The library has removed the slot's cookie.
Callback(w, res) ==
  /\ aborted' = ~("reply" \notin held[w[1]])
  /\ pending' = pending \ {w}
  /\ Wake(w[1], res)
  /\ held' = [held EXCEPT ![w[1]] = @ \cup (IF res = "ok" /\ w[2] \in Calls THEN {"reply"} ELSE {})]

Create(c) ==
  /\ LoopIdle /\ pc[c] = "new"
  /\ pc' = [pc EXCEPT ![c] = "begin"]
  /\ Wake(c, "ok")
  /\ UNCHANGED <<disabled, held, arg, bus_refs, busVars, aborted>>

\* Something outside the bus ends the session: the process exits, or a step fails.
SessionEnds(c) ==
  /\ LoopIdle /\ pc[c] = "session"
  /\ \E how \in {"ok", "err"} : Wake(c, how)
  /\ UNCHANGED <<pc, disabled, held, arg, bus_refs, busVars, aborted>>

\* interrupt_task, by a signal, the client's hangup or the end of its process.
Interrupt(c) ==
  /\ LoopIdle /\ pc[c] \notin {"new", "done"} /\ ~disabled[c]
  /\ Wake(c, "cancel")
  /\ UNCHANGED <<pc, disabled, held, arg, bus_refs, busVars, aborted>>

\* A reply is read.  One that is no longer waited for is dropped.
DispatchReply ==
  /\ LoopIdle /\ bus = "open" /\ inbox # <<>> /\ "to" \in DOMAIN Head(inbox)
  /\ inbox' = Tail(inbox)
  /\ IF Head(inbox).to \in pending THEN Callback(Head(inbox).to, Head(inbox).res)
     ELSE UNCHANGED <<wake, held, pending, aborted>>
  /\ UNCHANGED <<pc, disabled, arg, bus_refs, outbox, jobs, bus>>

IsOwnJob_Any(c, j) == TRUE

\* The path of the signal is the one this coroutine waits for.
IsOwnJob(c, j) == c = j

\* sb_sd_wait_for_job_job_removed, called for every coroutine with the match.
DispatchJobRemoved ==
  /\ LoopIdle /\ bus = "open" /\ inbox # <<>> /\ "job" \in DOMAIN Head(inbox)
  /\ inbox' = Tail(inbox)
  /\ aborted' = \E c \in Tasks : arg[c].job_removed /\ arg[c].result
  /\ LET mine == {c \in Tasks : /\ arg[c].job_removed /\ arg[c].job_obj
                                /\ IsOwnJob(c, Head(inbox).job)} IN
       /\ arg' = [c \in Tasks |-> IF c \in mine
                    THEN [arg[c] EXCEPT !.job_obj = FALSE, !.result = TRUE] ELSE arg[c]]
       /\ wake' = [c \in Tasks |-> IF c \in mine THEN Head(inbox).res ELSE wake[c]]
  /\ UNCHANGED <<pc, disabled, held, bus_refs, pending, outbox, jobs, bus>>

\* The library answers a call itself when its time is up.
DispatchTimeout ==
  /\ LoopIdle /\ bus = "open" /\ "timeout" \in Faults
  /\ \E w \in pending : Callback(w, "err")
  /\ UNCHANGED <<pc, disabled, arg, bus_refs, outbox, inbox, jobs, bus>>

\* The connection is lost: the library answers every open call with an error, one
\* at a time, ...
DispatchClosing ==
  /\ LoopIdle /\ bus = "closing"
  /\ \E w \in pending : Callback(w, "err")
  /\ UNCHANGED <<pc, disabled, arg, bus_refs, outbox, inbox, jobs, bus>>

DispatchDisconnected_Silent ==
  /\ LoopIdle /\ bus = "closing" /\ pending = {}
  /\ bus' = "closed"
  /\ UNCHANGED <<pc, wake, disabled, held, arg, bus_refs, pending, outbox, inbox, jobs, aborted>>

\* ... and then calls sb_sd_wait_for_job_bus_disconnected.
DispatchDisconnected ==
  /\ LoopIdle /\ bus = "closing" /\ pending = {}
  /\ bus' = "closed"
  /\ LET told == {c \in Tasks : arg[c].disconnected} IN
       /\ aborted' = \E c \in told : arg[c].result
       /\ arg' = [c \in Tasks |-> IF c \in told
                    THEN FreeArg([arg[c] EXCEPT !.result = TRUE]) ELSE arg[c]]
       /\ wake' = [c \in Tasks |-> IF c \in told THEN "err" ELSE wake[c]]
       /\ bus_refs' = bus_refs - Cardinality({c \in told : ~arg[c].closed})
  /\ UNCHANGED <<pc, disabled, held, pending, outbox, inbox, jobs>>

Dispatch == DispatchReply \/ DispatchJobRemoved \/ DispatchClosing \/ DispatchDisconnected

-----------------------------------------------------------------------------
(* systemd and the bus daemon.                                             *)

\* Calls are served in the order they were sent, whether or not the caller still
\* waits.  StartTransientUnit queues a job.
Serve ==
  /\ bus = "open" /\ outbox # <<>>
  /\ outbox' = Tail(outbox)
  /\ \E res \in {"ok", "err"} :
       /\ res = "err" => "bus" \in Faults
       /\ inbox' = Append(inbox, [to |-> Head(outbox), res |-> res])
       /\ jobs' = [jobs EXCEPT ![Head(outbox)[1]] =
                     IF Head(outbox)[2] = "start" /\ res = "ok" THEN "queued" ELSE @]
  /\ UNCHANGED <<taskVars, bus_refs, pending, bus, aborted>>

\* A job ends, and JobRemoved says how.
JobEnds(c) ==
  /\ bus = "open" /\ jobs[c] = "queued"
  /\ \E res \in {"ok", "err"} :
       /\ res = "err" => "bus" \in Faults
       /\ jobs' = [jobs EXCEPT ![c] = IF res = "ok" THEN "done" ELSE "failed"]
       /\ inbox' = Append(inbox, [job |-> c, res |-> res])
  /\ UNCHANGED <<taskVars, bus_refs, pending, outbox, bus, aborted>>

\* The connection breaks; messages not yet dispatched are lost.
Disconnect ==
  /\ bus = "open" /\ "disconnect" \in Faults
  /\ bus' = "closing"
  /\ inbox' = <<>> /\ outbox' = <<>>
  /\ UNCHANGED <<taskVars, bus_refs, pending, jobs, aborted>>

Over ==
  /\ \A c \in Tasks : pc[c] = "done"
  /\ UNCHANGED vars

Next ==
  \/ \E c \in Tasks : Run(c) \/ Create(c) \/ SessionEnds(c) \/ Interrupt(c) \/ JobEnds(c)
  \/ Dispatch \/ DispatchTimeout \/ Serve \/ Disconnect
  \/ Over

Spec == Init /\ [][Next]_vars

\* Ready coroutines run, the loop dispatches what is due, and systemd works.
Fairness ==
  /\ \A c \in Tasks : WF_vars(Run(c)) /\ WF_vars(JobEnds(c))
  /\ WF_vars(Dispatch) /\ WF_vars(Serve)

FairSpec == Spec /\ Fairness

-----------------------------------------------------------------------------
(* Properties.                                                             *)

\* A callback only ever finds live data: a registered reply slot is that of the
\* call its coroutine waits in (its argument is on that frame's stack, so one left
\* behind by an interrupted call would be a dangling pointer), the job's matches
\* are installed only inside start_transient_scope, and the path the JobRemoved
\* handler compares is inside a message still held (sd_bus.c:75-115, 443-468).
CallbacksLive ==
  \A c \in Tasks :
    /\ \A l \in Waits : <<c, l>> \in pending => pc[c] = l
    /\ arg[c].job_removed => pc[c] \in {"match", "start", "job"}
    /\ arg[c].disconnected => pc[c] \in {"start", "job"}
    /\ arg[c].job_removed /\ arg[c].job_obj => "m_res" \in held[c]

\* assert(arg->result == NULL) holds whenever a handler is called (sd_bus.c:63,
\* 428, 452): no second answer, signal or Disconnected arrives before the
\* coroutine has taken the first.
NeverAborts == ~aborted

\* A coroutine that is done with the bus, however its last wait ended, has freed
\* every string, message and slot, and the references to the bus are those of the
\* daemon and of the coroutines with an open wait_for_job_arg (sd_bus.c:767-784).
NothingLeaked ==
  /\ \A c \in Tasks : pc[c] = "done" => held[c] = {} /\ ~arg[c].result
  /\ \A c \in Tasks : pc[c] = "session" => held[c] = {"scope_name", "scope_obj"}
  /\ bus_refs = 1 + Cardinality({c \in Tasks : arg[c].job_removed})

\* start_transient_scope succeeds only after its own job did, whatever jobs other
\* coroutines have under way (sd_bus.c:466-471, 494).
OwnJobDone == \A c \in Tasks : pc[c] \in {"getunit", "session"} => jobs[c] = "done"

\* Every wait on the bus ends: with an answer, or with the loss of the connection
\* (sd_bus.c:419-441).
CallReturns ==
  \A c \in Tasks : pc[c] \in Waits \cup {"begin"} ~> pc[c] \in {"session", "done"}
=============================================================================
