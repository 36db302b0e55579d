----------------------------- MODULE SdBusProofs -----------------------------
(***************************************************************************)
(* Proofs about SdBus, for any number of coroutines: callbacks only find   *)
(* live data, no assertion fails, nothing is leaked, and a scope is used   *)
(* only after its own job is done, whatever fails.                         *)
(***************************************************************************)
EXTENDS SdBus, FiniteSetTheorems, TLAPS

\* What a coroutine holds while it is suspended.
HeldAt ==
  [ new |-> {}, begin |-> {}, done |-> {},
    self_unit |-> {"slot", "m"},
    self_id |-> {"unit_obj", "slot", "m"},
    unit |-> {"slot", "m"},
    id |-> {"unit", "slot", "m"},
    slice |-> {"unit", "unit_name", "slot", "m"},
    match |-> {"unit", "slice", "scope_name"},
    start |-> {"unit", "slice", "scope_name", "m_req", "slot"},
    job |-> {"unit", "slice", "scope_name", "m_req", "m_res"},
    getunit |-> {"unit", "slice", "scope_name", "m_req", "m_res", "slot", "m"},
    session |-> {"scope_name", "scope_obj"},
    kill |-> {"scope_name", "scope_obj", "slot", "m"} ]

\* The wait_for_job_arg of a coroutine that suspends itself at l.
ArgAt(l, a) ==
  /\ a \in Arg /\ ~a.result
  /\ a.job_removed <=> l \in {"match", "start", "job"}
  /\ a.disconnected <=> l \in {"start", "job"}
  /\ a.closed <=> l \notin {"start", "job"}
  /\ l = "job" => a.job_obj
  /\ l \in {"match", "start"} => ~a.job_obj

\* The wait_for_job_arg after its wait has ended: by a signal, or by the loss of
\* the connection.
ArgDone(a, how) ==
  /\ a \in Arg /\ a.result
  /\ \/ a.job_removed /\ a.disconnected /\ ~a.closed /\ ~a.job_obj
     \/ how = "err" /\ ~a.job_removed /\ ~a.disconnected /\ a.closed

\* Exactly what one coroutine holds, wherever it is, and which slot is registered.
Exact(c) ==
  /\ pc[c] = "begin" => wake[c] = "ok"
  /\ pc[c] \in {"new", "done"} => wake[c] = "none"
  /\ held[c] = IF pc[c] \in Calls /\ wake[c] = "ok" THEN HeldAt[pc[c]] \cup {"reply"}
               ELSE HeldAt[pc[c]]
  /\ IF pc[c] = "job" /\ wake[c] \in {"ok", "err"} THEN ArgDone(arg[c], wake[c])
     ELSE ArgAt(pc[c], arg[c])
  /\ \A l \in Labels : <<c, l>> \in pending => pc[c] = l /\ wake[c] \in {"none", "cancel"}
  /\ pc[c] \in Calls \cup {"match"} /\ wake[c] = "none" => <<c, pc[c]>> \in pending

Matched == {c \in Tasks : arg[c].job_removed}

\* Replies and signals on their way to the daemon.
Messages == [to : Tasks \X (Calls \cup {"match"}), res : {"ok", "err"}]
              \cup [job : Tasks, res : {"ok", "err"}]

Types ==
  /\ pc \in [Tasks -> Labels]
  /\ wake \in [Tasks -> {"none", "ok", "err", "cancel"}]
  /\ held \in [Tasks -> SUBSET Things]
  /\ arg \in [Tasks -> Arg]
  /\ pending \in SUBSET (Tasks \X (Calls \cup {"match"}))

BusInv ==
  /\ Types
  /\ \A c \in Tasks : Exact(c)
  /\ bus_refs = 1 + Cardinality(Matched)
  /\ aborted = FALSE

-----------------------------------------------------------------------------
(* A coroutine that runs lands in its next wait.                           *)

Bit(a) == IF a.job_removed THEN 1 ELSE 0

\* Its share s of the state is what is needed at l.
Lands(c, l, s) ==
  /\ s.h = HeldAt[l]
  /\ ArgAt(l, s.a)
  /\ s.refs = bus_refs + Bit(s.a) - Bit(arg[c])

\* What the goto labels free, one by one.
LEMMA FallsAre ==
  /\ Falls("none") = {}
  /\ Falls("unit") = {"unit"}
  /\ Falls("slice") = {"slice", "unit"}
  /\ Falls("scope_name") = {"scope_name", "slice", "unit"}
  /\ Falls("wait_for_job") = {"wait_for_job", "scope_name", "slice", "unit"}
  /\ Falls("m_req") = {"m_req", "wait_for_job", "scope_name", "slice", "unit"}
  /\ Falls("m_res") = {"m_res", "m_req", "wait_for_job", "scope_name", "slice", "unit"}
<1>1. Len(Chain) = 6
  BY DEF Chain
<1>2. 1..6 = {1, 2, 3, 4, 5, 6}
  OBVIOUS
<1>3. Chain[1] = "m_res" /\ Chain[2] = "m_req" /\ Chain[3] = "wait_for_job"
      /\ Chain[4] = "scope_name" /\ Chain[5] = "slice" /\ Chain[6] = "unit"
  BY DEF Chain
<1>4. ASSUME NEW first, NEW x
      PROVE x \in Falls(first) <=> \E i \in 1..6 : x = Chain[i] /\ \E k \in 1..i : Chain[k] = first
  BY <1>1 DEF Falls
<1>5. QED
  BY <1>2, <1>3, <1>4, SMTT(30)

\* The bus references change with the number of installed matches.
LEMMA RefsMove ==
  ASSUME NEW c \in Tasks, NEW a \in Arg, Types, bus_refs = 1 + Cardinality(Matched),
         arg' = [arg EXCEPT ![c] = a], bus_refs' = bus_refs + Bit(a) - Bit(arg[c])
  PROVE  bus_refs' = 1 + Cardinality(Matched')
<1>1. IsFiniteSet(Matched)
  BY TasksAssumption, FS_Subset DEF Matched
<1>2. Cardinality(Matched) \in Nat
  BY <1>1, FS_CardinalityType
<1>3. Cardinality(Matched \cup {c}) = IF c \in Matched THEN Cardinality(Matched)
                                       ELSE Cardinality(Matched) + 1
  BY Zenon, <1>1, FS_AddElement
<1>4. Cardinality(Matched \ {c}) = IF c \in Matched THEN Cardinality(Matched) - 1
                                     ELSE Cardinality(Matched)
  BY Zenon, <1>1, FS_RemoveElement
<1>5. Matched' = IF a.job_removed THEN Matched \cup {c} ELSE Matched \ {c}
  BY DEF Matched, Types
<1>6. c \in Matched <=> arg[c].job_removed
  BY DEF Matched
<1>7. QED
  BY <1>2, <1>3, <1>4, <1>5, <1>6 DEF Bit

\* Suspending itself at l with what l needs, a coroutine keeps the invariant.
LEMMA SuspendKeeps ==
  ASSUME BusInv, NEW c \in Tasks, NEW l \in Labels \ {"new", "begin"}, NEW s,
         Lands(c, l, s), Suspend(c, l, s), UNCHANGED aborted,
         pending' = Unslotted(c) \cup (IF l \in Calls \cup {"match"} THEN {<<c, l>>} ELSE {})
  PROVE  BusInv'
<1>1. Types'
  <2>1. HeldAt[l] \in SUBSET Things
    BY DEF HeldAt, Labels, Waits, Calls, Things
  <2>2. QED
    BY <2>1 DEF BusInv, Types, Lands, ArgAt, Suspend, Unslotted
<1>2. Exact(c)'
  <2>1. pc'[c] = l /\ wake'[c] = "none" /\ held'[c] = HeldAt[l] /\ arg'[c] = s.a
    BY DEF BusInv, Types, Lands, Suspend
  <2>2. \A k \in Labels : <<c, k>> \in pending' => k = l
    BY Zenon DEF BusInv, Exact, Unslotted
  <2>3. l \in Calls \cup {"match"} => <<c, l>> \in pending'
    OBVIOUS
  <2>4. ArgAt(l, arg'[c])
    BY <2>1 DEF Lands
  <2>5. QED
    BY <2>1, <2>2, <2>3, <2>4 DEF Exact, ArgAt, Calls
<1>3. ASSUME NEW d \in Tasks, d # c PROVE Exact(d)'
  <2>1. pc'[d] = pc[d] /\ wake'[d] = wake[d] /\ held'[d] = held[d] /\ arg'[d] = arg[d]
    BY <1>3 DEF BusInv, Types, Suspend
  <2>2. \A k : <<d, k>> \in pending' <=> <<d, k>> \in pending
    BY <1>3 DEF Unslotted
  <2>3. QED
    BY SMTT(30), <2>1, <2>2 DEF BusInv, Exact, ArgAt, ArgDone
<1>4. bus_refs' = 1 + Cardinality(Matched')
  BY Zenon, RefsMove DEF BusInv, Lands, ArgAt, Suspend
<1>5. QED
  BY <1>1, <1>2, <1>3, <1>4 DEF BusInv

\* So does one that frees what it holds and is done with the bus.
LEMMA StopKeeps ==
  ASSUME BusInv, NEW c \in Tasks, NEW s, NEW first, Stop(c, s, first),
         Lands(c, "done", Freed(s, first)), UNCHANGED aborted
  PROVE  BusInv'
BY SuspendKeeps DEF Stop, Labels, Waits, Calls

\* What is left of it once the slot and the request of the call are released.
Kept ==
  [ new |-> {}, begin |-> {}, done |-> {},
    self_unit |-> {},
    self_id |-> {"unit_obj"},
    unit |-> {},
    id |-> {"unit"},
    slice |-> {"unit", "unit_name"},
    match |-> {"unit", "slice", "scope_name"},
    start |-> {"unit", "slice", "scope_name", "m_req"},
    job |-> {"unit", "slice", "scope_name", "m_req", "m_res"},
    getunit |-> {"unit", "slice", "scope_name", "m_req", "m_res"},
    session |-> {"scope_name", "scope_obj"},
    kill |-> {"scope_name", "scope_obj"} ]

\* The release, label by label.
LEMMA KeptIs ==
  ASSUME NEW l \in Labels
  PROVE  /\ HeldAt[l] \ Frame(l) = Kept[l]
         /\ (HeldAt[l] \cup {"reply"}) \ Frame(l) = Kept[l] \cup {"reply"}
<1>1. CASE l \in {"new", "begin", "done", "match", "job", "session"}
  BY <1>1 DEF HeldAt, Kept, Frame
<1>2. CASE l \in {"self_unit", "self_id", "unit", "id"}
  BY <1>2 DEF HeldAt, Kept, Frame
<1>3. CASE l \in {"slice", "start", "getunit", "kill"}
  BY <1>3 DEF HeldAt, Kept, Frame
<1>4. QED
  BY <1>1, <1>2, <1>3 DEF Labels, Waits, Calls

\* What a coroutine holds when it starts to run again.
LEMMA Returns ==
  ASSUME BusInv, NEW c \in Tasks
  PROVE  /\ pc[c] \in Labels
         /\ Returned(c) = [ h |-> IF pc[c] \in Calls /\ wake[c] = "ok" THEN Kept[pc[c]] \cup {"reply"}
                                  ELSE Kept[pc[c]],
                            a |-> arg[c], refs |-> bus_refs ]
         /\ arg[c] \in Arg /\ bus_refs \in Int
         /\ IF pc[c] = "job" /\ wake[c] \in {"ok", "err"} THEN ArgDone(arg[c], wake[c])
            ELSE ArgAt(pc[c], arg[c])
<1>1. Cardinality(Matched) \in Nat
  BY TasksAssumption, FS_Subset, FS_CardinalityType DEF Matched
<1>2. pc[c] \in Labels /\ arg[c] \in Arg
  BY DEF BusInv, Types
<1>3. held[c] \ Frame(pc[c]) = IF pc[c] \in Calls /\ wake[c] = "ok" THEN Kept[pc[c]] \cup {"reply"}
                                ELSE Kept[pc[c]]
  BY Zenon, <1>2, KeptIs DEF BusInv, Exact
<1>4. Returned(c) = [ h |-> IF pc[c] \in Calls /\ wake[c] = "ok" THEN Kept[pc[c]] \cup {"reply"}
                            ELSE Kept[pc[c]],
                      a |-> arg[c], refs |-> bus_refs ]
  BY ONLY <1>3 DEF Returned
<1>5. IF pc[c] = "job" /\ wake[c] \in {"ok", "err"} THEN ArgDone(arg[c], wake[c])
      ELSE ArgAt(pc[c], arg[c])
  BY Zenon DEF BusInv, Exact
<1>6. bus_refs \in Int
  BY <1>1 DEF BusInv
<1>7. QED
  BY <1>2, <1>4, <1>5, <1>6, Zenon

\* Every failing wait frees all that is kept.
LEMMA FailFreesKept ==
  ASSUME NEW l \in Waits
  PROVE  /\ Kept[l] \ FailFrees[l] \subseteq Falls(FailLabel[l])
         /\ l \in {"start", "job", "getunit"} => "wait_for_job" \in Falls(FailLabel[l])
<1>1. CASE l \in {"self_unit", "unit"}
  BY <1>1, FallsAre DEF Kept, FailFrees, FailLabel, Waits, Calls
<1>2. CASE l \in {"self_id", "id", "slice"}
  BY <1>2, FallsAre DEF Kept, FailFrees, FailLabel, Waits, Calls
<1>3. CASE l \in {"match", "start", "kill"}
  BY <1>3, FallsAre DEF Kept, FailFrees, FailLabel, Waits, Calls
<1>4. CASE l \in {"job", "getunit"}
  BY <1>4, FallsAre DEF Kept, FailFrees, FailLabel, Waits, Calls
<1>5. QED
  BY <1>1, <1>2, <1>3, <1>4 DEF Waits, Calls

\* The matches are both gone, or both installed and freed from first on.
Released(a, first) ==
  /\ a \in Arg /\ ~a.result
  /\ \/ a.closed /\ ~a.job_removed /\ ~a.disconnected
     \/ ~a.closed /\ a.job_removed /\ a.disconnected /\ "wait_for_job" \in Falls(first)

\* A coroutine that leaves the bus from first on, with no more than first frees.
LEMMA StopFrom ==
  ASSUME BusInv, NEW c \in Tasks, NEW h, NEW a, NEW first,
         Stop(c, [h |-> h, a |-> a, refs |-> bus_refs + Bit(a) - Bit(arg[c])], first),
         h \subseteq Falls(first), Released(a, first), UNCHANGED aborted
  PROVE  BusInv'
<1> DEFINE s == [h |-> h, a |-> a, refs |-> bus_refs + Bit(a) - Bit(arg[c])]
<1>1. bus_refs \in Int
  BY Returns
<1>2. h \ Falls(first) = {} /\ HeldAt["done"] = {}
  BY DEF HeldAt
<1>3. CASE "wait_for_job" \in Falls(first)
  <2>6. FreeJob(s) = [h |-> h, a |-> FreeArg(a), refs |-> s.refs - Unrefs(a)]
    BY DEF FreeJob
  <2>7. Freed(s, first) = [h |-> h \ Falls(first), a |-> FreeArg(a), refs |-> s.refs - Unrefs(a)]
    BY <1>3, <2>6 DEF Freed
  <2>1. Freed(s, first) = [h |-> {}, a |-> FreeArg(a), refs |-> s.refs - Unrefs(a)]
    BY <1>2, <2>7
  <2>2. ArgAt("done", FreeArg(a))
    BY Zenon DEF Released, FreeArg, ArgAt, Arg
  <2>3. s.refs - Unrefs(a) = bus_refs + Bit(FreeArg(a)) - Bit(arg[c])
    BY <1>1 DEF Released, FreeArg, Unrefs, Bit, Arg
  <2>4. Lands(c, "done", Freed(s, first))
    BY <1>2, <2>1, <2>2, <2>3 DEF Lands
  <2>5. QED
    BY <2>4, StopKeeps
<1>4. CASE "wait_for_job" \notin Falls(first)
  <2>1. Freed(s, first) = [h |-> {}, a |-> a, refs |-> s.refs]
    BY <1>2, <1>4 DEF Freed
  <2>2. ArgAt("done", a)
    BY <1>4 DEF Released, ArgAt
  <2>3. Lands(c, "done", Freed(s, first))
    BY <1>2, <2>1, <2>2 DEF Lands
  <2>4. QED
    BY <2>3, StopKeeps
<1>5. QED
  BY <1>3, <1>4

\* A wait that fails leaves nothing behind.
LEMMA FailFrom ==
  ASSUME BusInv, NEW c \in Tasks, NEW l \in Waits, NEW h, NEW a,
         Fail(c, l, [h |-> h, a |-> a, refs |-> bus_refs + Bit(a) - Bit(arg[c])]),
         h \subseteq Kept[l], Released(a, FailLabel[l]), UNCHANGED aborted
  PROVE  BusInv'
<1>1. h \ FailFrees[l] \subseteq Falls(FailLabel[l])
  BY FailFreesKept
<1>2. Stop(c, [h |-> h \ FailFrees[l], a |-> a, refs |-> bus_refs + Bit(a) - Bit(arg[c])], FailLabel[l])
  BY DEF Fail
<1>3. QED
  BY <1>1, <1>2, StopFrom

\* A share with more in its first part.
LEMMA Joined ==
  ASSUME NEW h, NEW a, NEW r, NEW x, NEW s, s = [h |-> h, a |-> a, refs |-> r]
  PROVE  [s EXCEPT !.h = @ \cup x] = [h |-> h \cup x, a |-> a, refs |-> r]
OBVIOUS

\* A call made with what its label keeps is waited for, or fails.
LEMMA CallFrom ==
  ASSUME BusInv, NEW c \in Tasks, NEW l \in Calls, NEW a,
         Call(c, l, [h |-> Kept[l], a |-> a, refs |-> bus_refs + Bit(a) - Bit(arg[c])]),
         ArgAt(l, a), UNCHANGED aborted
  PROVE  BusInv'
<1> DEFINE s == [h |-> Kept[l], a |-> a, refs |-> bus_refs + Bit(a) - Bit(arg[c])]
<1>1. CASE Fail(c, l, s)
  <2>1. l \in Waits /\ l \notin {"match", "job"}
    BY DEF Waits, Calls
  <2>2. Released(a, FailLabel[l])
    BY <2>1, FailFreesKept DEF ArgAt, Released
  <2>3. QED
    BY <1>1, <2>1, <2>2, FailFrom
<1>2. CASE Suspend(c, l, [s EXCEPT !.h = @ \cup Frame(l)]) /\ pending' = Unslotted(c) \cup {<<c, l>>}
  <2>1. l \in Labels \ {"new", "begin"}
    BY DEF Labels, Waits, Calls
  <2>2. Kept[l] \cup Frame(l) = HeldAt[l]
    BY DEF Kept, Frame, HeldAt, Calls
  <2>3. [s EXCEPT !.h = @ \cup Frame(l)]
          = [h |-> Kept[l] \cup Frame(l), a |-> a, refs |-> bus_refs + Bit(a) - Bit(arg[c])]
    BY Joined
  <2>4. Lands(c, l, [s EXCEPT !.h = @ \cup Frame(l)])
    BY <2>2, <2>3 DEF Lands
  <2>5. QED
    BY <1>2, <2>1, <2>4, SuspendKeeps
<1>3. QED
  BY <1>1, <1>2 DEF Call

-----------------------------------------------------------------------------
(* The steps of a coroutine.                                               *)

\* A share with one part replaced.
LEMMA Updated ==
  ASSUME NEW h, NEW a, NEW r, NEW x
  PROVE  /\ [[h |-> h, a |-> a, refs |-> r] EXCEPT !.h = x] = [h |-> x, a |-> a, refs |-> r]
         /\ [[h |-> h, a |-> a, refs |-> r] EXCEPT !.a = x] = [h |-> h, a |-> x, refs |-> r]
OBVIOUS

\* The references do not move while the matches stay.
LEMMA RefsStay ==
  ASSUME BusInv, NEW c \in Tasks
  PROVE  bus_refs + Bit(arg[c]) - Bit(arg[c]) = bus_refs
BY Returns DEF Bit

\* A first call of the session.
LEMMA BeginKeeps ==
  ASSUME BusInv, NEW c \in Tasks, RunBegin(c)
  PROVE  BusInv'
<1>1. PICK l \in {"self_unit", "unit"} : Call(c, l, Returned(c))
  BY DEF RunBegin
<1>2. pc[c] = "begin" /\ pc[c] \notin Calls /\ pc[c] # "job" /\ Kept["begin"] = Kept[l] /\ l \in Calls
  BY DEF RunBegin, Runs, Calls, Kept
<1>3. Returned(c) = [h |-> Kept[l], a |-> arg[c], refs |-> bus_refs] /\ ArgAt("begin", arg[c])
  BY <1>2, Returns
<1>4. ArgAt(l, arg[c])
  BY <1>3 DEF ArgAt
<1>5. QED
  BY <1>1, <1>2, <1>3, <1>4, RefsStay, CallFrom DEF RunBegin, Rest

\* The next query, with what the last reply said.
LEMMA QueryKeeps ==
  ASSUME BusInv, NEW c \in Tasks, RunQuery(c)
  PROVE  BusInv'
<1>1. PICK l \in DOMAIN NextCall :
        /\ Runs(c, l, "ok")
        /\ LET s == [Returned(c) EXCEPT !.h = @ \ {"reply"}] IN
             \/ Call(c, NextCall[l], [s EXCEPT !.h = (@ \ Drops[l]) \cup Copies[l]])
             \/ Broken /\ Fail(c, l, s)
        /\ Rest
  BY Zenon DEF RunQuery
<1> DEFINE s == [Returned(c) EXCEPT !.h = @ \ {"reply"}]
<1>2. l \in {"self_unit", "self_id", "unit", "id"}
  BY DEF NextCall
<1>3. l \in Calls /\ l \in Waits /\ l # "job" /\ NextCall[l] \in Calls
  BY <1>2 DEF Calls, Waits, NextCall
<1>4. (Kept[l] \cup {"reply"}) \ {"reply"} = Kept[l]
  BY <1>2 DEF Kept
<1>5. (Kept[l] \ Drops[l]) \cup Copies[l] = Kept[NextCall[l]]
  BY <1>2 DEF Kept, Drops, Copies, NextCall
<1>6. Returned(c) = [h |-> Kept[l] \cup {"reply"}, a |-> arg[c], refs |-> bus_refs]
      /\ ArgAt(l, arg[c])
  BY <1>1, <1>3, Returns DEF Runs
<1>7. s = [h |-> Kept[l], a |-> arg[c], refs |-> bus_refs]
  BY <1>4, <1>6
<1>8. CASE Call(c, NextCall[l], [s EXCEPT !.h = (@ \ Drops[l]) \cup Copies[l]])
  <2> HIDE DEF s
  <2>1. [s EXCEPT !.h = (@ \ Drops[l]) \cup Copies[l]]
          = [h |-> Kept[NextCall[l]], a |-> arg[c], refs |-> bus_refs]
    <3>1. (s.h \ Drops[l]) \cup Copies[l] = Kept[NextCall[l]]
      BY <1>5, <1>7
    <3>2. QED
      BY SMTT(30), <1>7, <3>1, Updated
  <2>2. ArgAt(NextCall[l], arg[c])
    BY <1>2, <1>6 DEF ArgAt, NextCall
  <2>3. QED
    BY <1>1, <1>3, <1>8, <2>1, <2>2, RefsStay, CallFrom DEF Rest
<1>9. CASE Fail(c, l, s)
  <2>1. Released(arg[c], FailLabel[l])
    BY <1>2, <1>6 DEF ArgAt, Released
  <2>2. QED
    BY <1>1, <1>3, <1>7, <1>9, <2>1, RefsStay, FailFrom DEF Rest
<1>10. QED
  BY <1>1, <1>8, <1>9

\* The scope's name, and the match for its job.
LEMMA SliceKeeps ==
  ASSUME BusInv, NEW c \in Tasks, RunSlice(c)
  PROVE  BusInv'
<1> DEFINE s == [Returned(c) EXCEPT !.h = @ \ {"reply", "unit_name"}]
           named == [s EXCEPT !.h = @ \cup {"slice", "scope_name"}]
           sliced == [s EXCEPT !.h = @ \cup {"slice"}]
           matched == [h |-> named.h, a |-> [NoArg EXCEPT !.job_removed = TRUE], refs |-> named.refs + 1]
<1>1. pc[c] = "slice" /\ wake[c] = "ok" /\ pc[c] \in Calls /\ pc[c] # "job" /\ UNCHANGED aborted
  BY DEF RunSlice, Runs, Calls, Rest
<1>2. Kept["slice"] \cup {"reply"} = {"unit", "unit_name", "reply"}
  BY DEF Kept
<1>3. Returned(c) = [h |-> {"unit", "unit_name", "reply"}, a |-> arg[c], refs |-> bus_refs]
      /\ ArgAt("slice", arg[c]) /\ bus_refs \in Int
  BY <1>1, <1>2, Returns
<1>4. s = [h |-> {"unit"}, a |-> arg[c], refs |-> bus_refs]
  BY <1>3
<1>5. named = [h |-> {"unit", "slice", "scope_name"}, a |-> arg[c], refs |-> bus_refs]
  <2> HIDE DEF s
  <2>1. QED
    BY <1>4
<1>6. sliced = [h |-> {"unit", "slice"}, a |-> arg[c], refs |-> bus_refs]
  <2> HIDE DEF s
  <2>1. QED
    BY <1>4
<1>7. \/ Stop(c, s, "unit")
      \/ Stop(c, sliced, "slice")
      \/ Stop(c, named, "scope_name")
      \/ Suspend(c, "match", matched) /\ pending' = Unslotted(c) \cup {<<c, "match">>}
  BY DEF RunSlice
<1> HIDE DEF s, named, sliced
<1>8. \A first : Released(arg[c], first)
  BY <1>3 DEF ArgAt, Released
<1>9. CASE Stop(c, s, "unit")
  BY <1>1, <1>4, <1>8, <1>9, FallsAre, RefsStay, StopFrom
<1>10. CASE Stop(c, sliced, "slice")
  BY <1>1, <1>6, <1>8, <1>10, FallsAre, RefsStay, StopFrom
<1>11. CASE Stop(c, named, "scope_name")
  BY <1>1, <1>5, <1>8, <1>11, FallsAre, RefsStay, StopFrom
<1>12. CASE Suspend(c, "match", matched) /\ pending' = Unslotted(c) \cup {<<c, "match">>}
  <2>1. ArgAt("match", matched.a) /\ Bit(matched.a) = 1 /\ Bit(arg[c]) = 0
    BY Zenon, <1>3 DEF NoArg, ArgAt, Arg, Bit
  <2>2. matched.h = HeldAt["match"] /\ matched.refs = bus_refs + 1
    BY <1>5 DEF HeldAt
  <2>3. Lands(c, "match", matched)
    BY <1>3, <2>1, <2>2 DEF Lands
  <2>4. "match" \in Labels \ {"new", "begin"}
    BY DEF Labels, Waits
  <2>5. QED
    BY <1>1, <1>12, <2>3, <2>4, SuspendKeeps
<1>13. QED
  BY <1>7, <1>9, <1>10, <1>11, <1>12

\* Both matches are in, and StartTransientUnit is called.
LEMMA MatchKeeps ==
  ASSUME BusInv, NEW c \in Tasks, RunMatch(c)
  PROVE  BusInv'
<1> DEFINE s == Returned(c)
           open == [arg[c] EXCEPT !.disconnected = TRUE, !.closed = FALSE]
           ready == [s EXCEPT !.a = [@ EXCEPT !.disconnected = TRUE, !.closed = FALSE]]
           sent == [ready EXCEPT !.h = @ \cup {"m_req"}]
<1>1. pc[c] = "match" /\ wake[c] = "ok" /\ pc[c] \notin Calls /\ pc[c] # "job" /\ UNCHANGED aborted
  BY DEF RunMatch, Runs, Calls, Rest
<1>2. Kept["match"] = {"unit", "slice", "scope_name"}
      /\ Kept["start"] = {"unit", "slice", "scope_name", "m_req"}
  BY DEF Kept
<1>3. s = [h |-> {"unit", "slice", "scope_name"}, a |-> arg[c], refs |-> bus_refs]
      /\ ArgAt("match", arg[c]) /\ bus_refs \in Int
  BY <1>1, <1>2, Returns
<1>4. ArgAt("start", open) /\ Bit(open) = 1 /\ Bit(arg[c]) = 1 /\ Released(open, "wait_for_job")
  BY Zenon, <1>3, FallsAre DEF ArgAt, Arg, Bit, Released
<1>5. bus_refs = bus_refs + Bit(open) - Bit(arg[c])
  BY <1>3, <1>4
<1> HIDE DEF s
<1>6. ready = [h |-> {"unit", "slice", "scope_name"}, a |-> open, refs |-> bus_refs]
  BY <1>3
<1>7. sent = [h |-> Kept["start"], a |-> open, refs |-> bus_refs]
  <2> HIDE DEF ready, open
  <2>1. {"unit", "slice", "scope_name"} \cup {"m_req"} = Kept["start"]
    BY <1>2
  <2>2. QED
    BY <1>6, <2>1
<1>8. \/ Stop(c, NoMatch(s), "scope_name")
      \/ Stop(c, ready, "wait_for_job")
      \/ Call(c, "start", sent)
  BY DEF RunMatch, s
<1> HIDE DEF ready, sent, open
<1>9. CASE Stop(c, NoMatch(s), "scope_name")
  <2> DEFINE none == [arg[c] EXCEPT !.job_removed = FALSE]
  <2>1. NoMatch(s) = [h |-> {"unit", "slice", "scope_name"}, a |-> none, refs |-> bus_refs - 1]
    BY <1>3 DEF NoMatch
  <2>2. Released(none, "scope_name") /\ Bit(none) = 0
    BY Zenon, <1>3 DEF ArgAt, Arg, Released, Bit
  <2>3. bus_refs - 1 = bus_refs + Bit(none) - Bit(arg[c])
    BY <1>3, <1>4, <2>2
  <2> HIDE DEF none
  <2>4. QED
    BY <1>1, <1>9, <2>1, <2>2, <2>3, FallsAre, StopFrom
<1>10. CASE Stop(c, ready, "wait_for_job")
  BY <1>1, <1>4, <1>5, <1>6, <1>10, FallsAre, StopFrom
<1>11. CASE Call(c, "start", sent)
  BY <1>1, <1>4, <1>5, <1>7, <1>11, CallFrom DEF Calls
<1>12. QED
  BY <1>8, <1>9, <1>10, <1>11

\* The job is known, and waited for.
LEMMA StartKeeps ==
  ASSUME BusInv, NEW c \in Tasks, RunStart(c)
  PROVE  BusInv'
<1> DEFINE s == [Returned(c) EXCEPT !.h = (@ \ {"reply"}) \cup {"m_res"}]
           known == [arg[c] EXCEPT !.job_obj = TRUE]
           waits == [s EXCEPT !.a = [@ EXCEPT !.job_obj = TRUE]]
<1>1. pc[c] = "start" /\ wake[c] = "ok" /\ pc[c] \in Calls /\ pc[c] # "job" /\ UNCHANGED aborted
  BY DEF RunStart, Runs, Calls, Rest
<1>2. ((Kept["start"] \cup {"reply"}) \ {"reply"}) \cup {"m_res"} = HeldAt["job"]
  BY DEF Kept, HeldAt
<1>3. Returned(c) = [h |-> Kept["start"] \cup {"reply"}, a |-> arg[c], refs |-> bus_refs]
      /\ ArgAt("start", arg[c])
  BY <1>1, Returns
<1>4. s = [h |-> HeldAt["job"], a |-> arg[c], refs |-> bus_refs]
  BY <1>2, <1>3
<1>5. \/ Stop(c, s, "m_res")
      \/ s.a.closed
      \/ Suspend(c, "job", waits) /\ pending' = Unslotted(c)
  BY DEF RunStart
<1> HIDE DEF s
<1>6. ~s.a.closed /\ HeldAt["job"] \subseteq Falls("m_res") /\ Released(arg[c], "m_res")
  BY <1>3, <1>4, FallsAre DEF ArgAt, Released, HeldAt
<1>7. CASE Stop(c, s, "m_res")
  BY <1>1, <1>4, <1>6, <1>7, RefsStay, StopFrom
<1>8. CASE Suspend(c, "job", waits) /\ pending' = Unslotted(c)
  <2>1. waits = [h |-> HeldAt["job"], a |-> known, refs |-> bus_refs]
    <3>1. s.a = arg[c]
      BY <1>4
    <3>2. waits = [s EXCEPT !.a = known]
      BY <3>1
    <3> HIDE DEF known, waits
    <3>3. QED
      BY <1>4, <3>2, Updated
  <2>2. ArgAt("job", known) /\ Bit(known) = Bit(arg[c])
    BY Zenon, <1>3 DEF ArgAt, Arg, Bit
  <2> HIDE DEF waits, known
  <2>3. Lands(c, "job", waits)
    BY <2>1, <2>2, RefsStay DEF Lands
  <2>4. "job" \in Labels \ {"new", "begin"} /\ "job" \notin Calls \cup {"match"}
    BY DEF Labels, Waits, Calls
  <2>5. QED
    BY <1>1, <1>8, <2>3, <2>4, SuspendKeeps
<1>9. QED
  BY <1>5, <1>6, <1>7, <1>8

\* Once its wait is over, by whichever signal, the job's matches are gone.
LEMMA JobFreed ==
  ASSUME BusInv, NEW c \in Tasks, pc[c] = "job", wake[c] \in {"ok", "err"}
  PROVE  \E a : /\ FreeJob([Returned(c) EXCEPT !.a = [@ EXCEPT !.result = FALSE]])
                     = [h |-> Kept["job"], a |-> a, refs |-> bus_refs + Bit(a) - Bit(arg[c])]
                /\ a \in Arg /\ ~a.result /\ a.closed /\ ~a.job_removed /\ ~a.disconnected
<1> DEFINE unset == [arg[c] EXCEPT !.result = FALSE]
           a == FreeArg(unset)
<1>1. pc[c] \notin Calls
  BY DEF Calls
<1>2. Returned(c) = [h |-> Kept["job"], a |-> arg[c], refs |-> bus_refs] /\ ArgDone(arg[c], wake[c])
      /\ bus_refs \in Int
  BY <1>1, Returns
<1>3. [Returned(c) EXCEPT !.a = [@ EXCEPT !.result = FALSE]]
        = [h |-> Kept["job"], a |-> unset, refs |-> bus_refs]
  <2>1. Returned(c).a = arg[c]
    BY <1>2
  <2>2. [Returned(c) EXCEPT !.a = [@ EXCEPT !.result = FALSE]] = [Returned(c) EXCEPT !.a = unset]
    BY <2>1
  <2> HIDE DEF unset
  <2>3. QED
    BY SMTT(30), <1>2, <2>2, Updated
<1>4. a \in Arg /\ ~a.result /\ a.closed /\ ~a.job_removed /\ ~a.disconnected
  BY Zenon, <1>2 DEF ArgDone, FreeArg, Arg
<1>5. bus_refs - Unrefs(unset) = bus_refs + Bit(a) - Bit(arg[c])
  BY <1>2, <1>4 DEF ArgDone, Unrefs, Bit, Arg
<1> HIDE DEF unset
<1>6. FreeJob([h |-> Kept["job"], a |-> unset, refs |-> bus_refs])
        = [h |-> Kept["job"], a |-> a, refs |-> bus_refs - Unrefs(unset)]
  BY DEF FreeJob
<1>7. QED
  BY <1>3, <1>4, <1>5, <1>6

\* The job is done.
LEMMA JobKeeps ==
  ASSUME BusInv, NEW c \in Tasks, RunJob(c) \/ RunJobFailed(c)
  PROVE  BusInv'
<1> DEFINE s == FreeJob([Returned(c) EXCEPT !.a = [@ EXCEPT !.result = FALSE]])
<1>1. pc[c] = "job" /\ wake[c] \in {"ok", "err"} /\ UNCHANGED aborted
      /\ (Call(c, "getunit", s) \/ Fail(c, "job", s))
  BY DEF RunJob, RunJobFailed, Runs, Rest
<1>2. PICK a : /\ s = [h |-> Kept["job"], a |-> a, refs |-> bus_refs + Bit(a) - Bit(arg[c])]
               /\ a \in Arg /\ ~a.result /\ a.closed /\ ~a.job_removed /\ ~a.disconnected
  BY Zenon, <1>1, JobFreed
<1> HIDE DEF s
<1>3. Kept["job"] = Kept["getunit"] /\ "getunit" \in Calls /\ "job" \in Waits
  BY DEF Kept, Calls, Waits
<1>4. ArgAt("getunit", a) /\ Released(a, FailLabel["job"])
  BY <1>2 DEF ArgAt, Released
<1>5. CASE Call(c, "getunit", s)
  BY <1>1, <1>2, <1>3, <1>4, <1>5, CallFrom
<1>6. CASE Fail(c, "job", s)
  BY <1>1, <1>2, <1>3, <1>4, <1>6, FailFrom
<1>7. QED
  BY <1>1, <1>5, <1>6

\* The scope goes to the session.
LEMMA GetUnitKeeps ==
  ASSUME BusInv, NEW c \in Tasks, RunGetUnit(c)
  PROVE  BusInv'
<1> DEFINE s == [Returned(c) EXCEPT !.h = @ \ {"reply"}]
           f == Freed(s, "m_res")
           t == [f EXCEPT !.h = {"scope_name", "scope_obj"} \cup (@ \ {"scope_name"})]
<1>1. pc[c] = "getunit" /\ wake[c] = "ok" /\ pc[c] \in Calls /\ pc[c] # "job" /\ UNCHANGED aborted
  BY DEF RunGetUnit, Runs, Calls, Rest
<1>2. (Kept["getunit"] \cup {"reply"}) \ {"reply"} = Kept["getunit"]
  BY DEF Kept
<1>3. Returned(c) = [h |-> Kept["getunit"] \cup {"reply"}, a |-> arg[c], refs |-> bus_refs]
      /\ ArgAt("getunit", arg[c]) /\ bus_refs \in Int
  BY <1>1, Returns
<1>4. s = [h |-> Kept["getunit"], a |-> arg[c], refs |-> bus_refs]
  BY <1>2, <1>3
<1>5. \/ Fail(c, "getunit", s)
      \/ Suspend(c, "session", t) /\ pending' = Unslotted(c)
  BY DEF RunGetUnit
<1> HIDE DEF s
<1>6. CASE Fail(c, "getunit", s)
  <2>1. Released(arg[c], FailLabel["getunit"]) /\ "getunit" \in Waits
    BY <1>3 DEF ArgAt, Released, Waits, Calls
  <2>2. QED
    BY <1>1, <1>4, <1>6, <2>1, RefsStay, FailFrom
<1>7. CASE Suspend(c, "session", t) /\ pending' = Unslotted(c)
  <2>1. Kept["getunit"] \ Falls("m_res") = {} /\ "wait_for_job" \in Falls("m_res")
    BY FallsAre DEF Kept
  <2>2. FreeJob(s) = [h |-> Kept["getunit"], a |-> arg[c], refs |-> bus_refs]
    <3>1. FreeArg(arg[c]) = arg[c] /\ Unrefs(arg[c]) = 0
      BY <1>3 DEF ArgAt, FreeArg, Unrefs
    <3>2. QED
      BY <1>3, <1>4, <3>1 DEF FreeJob
  <2>3. f = [h |-> {}, a |-> arg[c], refs |-> bus_refs]
    BY <2>1, <2>2 DEF Freed
  <2> HIDE DEF f
  <2>4. {"scope_name", "scope_obj"} \cup ({} \ {"scope_name"}) = HeldAt["session"]
    BY DEF HeldAt
  <2>5. t = [h |-> HeldAt["session"], a |-> arg[c], refs |-> bus_refs]
    BY <2>3, <2>4, Updated
  <2> HIDE DEF t
  <2>6. ArgAt("session", arg[c])
    BY <1>3 DEF ArgAt
  <2>7. Lands(c, "session", t)
    BY <2>5, <2>6, RefsStay DEF Lands
  <2>8. "session" \in Labels \ {"new", "begin"} /\ "session" \notin Calls \cup {"match"}
    BY DEF Labels, Calls
  <2>9. QED
    BY <1>1, <1>7, <2>7, <2>8, SuspendKeeps
<1>8. QED
  BY <1>5, <1>6, <1>7

\* The scope is killed, or the session just ends.
LEMMA SessionKeeps ==
  ASSUME BusInv, NEW c \in Tasks, RunSession(c)
  PROVE  BusInv'
<1>1. pc[c] = "session" /\ pc[c] \notin Calls /\ pc[c] # "job" /\ UNCHANGED aborted
      /\ (Call(c, "kill", Returned(c)) \/ Fail(c, "kill", Returned(c)))
  BY DEF RunSession, Calls
<1>2. Kept["session"] = Kept["kill"] /\ "kill" \in Calls /\ "kill" \in Waits
  BY DEF Kept, Calls, Waits
<1>3. Returned(c) = [h |-> Kept["kill"], a |-> arg[c], refs |-> bus_refs] /\ ArgAt("session", arg[c])
  BY <1>1, <1>2, Returns
<1>4. ArgAt("kill", arg[c]) /\ Released(arg[c], FailLabel["kill"])
  BY <1>3 DEF ArgAt, Released
<1>5. CASE Call(c, "kill", Returned(c))
  BY <1>1, <1>2, <1>3, <1>4, <1>5, RefsStay, CallFrom
<1>6. CASE Fail(c, "kill", Returned(c))
  BY <1>1, <1>2, <1>3, <1>4, <1>6, RefsStay, FailFrom
<1>7. QED
  BY <1>1, <1>5, <1>6

\* A call that returns for good: answered (Kill), failed or interrupted.
LEMMA EndKeeps ==
  ASSUME BusInv, NEW c \in Tasks, RunKilled(c) \/ RunError(c)
  PROVE  BusInv'
<1>1. CASE RunKilled(c)
  <2> DEFINE s == [Returned(c) EXCEPT !.h = @ \ {"reply"}]
  <2>1. pc[c] = "kill" /\ wake[c] = "ok" /\ pc[c] \in Calls /\ pc[c] \in Waits /\ pc[c] # "job"
        /\ UNCHANGED aborted /\ Fail(c, "kill", s)
    BY <1>1 DEF RunKilled, Runs, Calls, Waits, Rest
  <2>2. (Kept["kill"] \cup {"reply"}) \ {"reply"} = Kept["kill"]
    BY DEF Kept
  <2>3. Returned(c) = [h |-> Kept["kill"] \cup {"reply"}, a |-> arg[c], refs |-> bus_refs]
        /\ ArgAt("kill", arg[c])
    BY <2>1, Returns
  <2>4. s = [h |-> Kept["kill"], a |-> arg[c], refs |-> bus_refs]
    BY <2>2, <2>3
  <2> HIDE DEF s
  <2>5. Released(arg[c], FailLabel["kill"])
    BY <2>3 DEF ArgAt, Released
  <2>6. QED
    BY <2>1, <2>4, <2>5, RefsStay, FailFrom
<1>2. CASE RunError(c)
  <2>1. PICK l \in Calls : pc[c] = l /\ wake[c] = "err" /\ Fail(c, l, Returned(c)) /\ UNCHANGED aborted
    BY <1>2 DEF RunError, Runs, Rest
  <2>2. l \in Waits /\ l # "job"
    BY DEF Waits, Calls
  <2>3. Returned(c) = [h |-> Kept[l], a |-> arg[c], refs |-> bus_refs] /\ ArgAt(l, arg[c])
    BY <2>1, <2>2, Returns
  <2>4. Released(arg[c], FailLabel[l])
    BY <2>2, <2>3, FailFreesKept DEF ArgAt, Released, Calls
  <2>5. QED
    BY <2>1, <2>2, <2>3, <2>4, RefsStay, FailFrom
<1>3. QED
  BY <1>1, <1>2

\* An interrupted wait, or a match that could not be installed.
LEMMA InterruptedKeeps ==
  ASSUME BusInv, NEW c \in Tasks, RunNoMatch(c) \/ RunInterrupted(c)
  PROVE  BusInv'
<1>1. CASE RunNoMatch(c)
  <2> DEFINE none == [arg[c] EXCEPT !.job_removed = FALSE]
  <2>1. pc[c] = "match" /\ pc[c] \notin Calls /\ pc[c] # "job" /\ pc[c] \in Waits
        /\ UNCHANGED aborted /\ Fail(c, "match", NoMatch(Returned(c)))
    BY <1>1 DEF RunNoMatch, Calls, Waits
  <2>2. Returned(c) = [h |-> Kept["match"], a |-> arg[c], refs |-> bus_refs]
        /\ ArgAt("match", arg[c]) /\ bus_refs \in Int
    BY <2>1, Returns
  <2>3. NoMatch(Returned(c)) = [h |-> Kept["match"], a |-> none, refs |-> bus_refs - 1]
    BY <2>2 DEF NoMatch
  <2>4. Released(none, FailLabel["match"]) /\ Bit(none) = 0 /\ Bit(arg[c]) = 1
    BY Zenon, <2>2 DEF ArgAt, Arg, Released, Bit
  <2>5. bus_refs - 1 = bus_refs + Bit(none) - Bit(arg[c])
    BY <2>2, <2>4
  <2> HIDE DEF none
  <2>6. QED
    BY <2>1, <2>3, <2>4, <2>5, FailFrom
<1>2. CASE RunInterrupted(c)
  <2>1. PICK l \in Calls \cup {"job"} :
          /\ pc[c] = l /\ wake[c] = "cancel" /\ UNCHANGED aborted
          /\ Fail(c, l, IF l = "job" THEN FreeJob(Returned(c)) ELSE Returned(c))
    BY <1>2 DEF RunInterrupted, Runs
  <2>2. l \in Waits
    BY DEF Waits
  <2>3. Returned(c) = [h |-> Kept[l], a |-> arg[c], refs |-> bus_refs] /\ ArgAt(l, arg[c])
        /\ bus_refs \in Int
    BY <2>1, Returns
  <2>4. CASE l # "job"
    <3>1. Released(arg[c], FailLabel[l])
      BY <2>2, <2>3, <2>4, FailFreesKept DEF ArgAt, Released, Calls
    <3>2. QED
      BY <2>1, <2>2, <2>3, <2>4, <3>1, RefsStay, FailFrom
  <2>5. CASE l = "job"
    <3> DEFINE a == FreeArg(arg[c])
    <3>1. FreeJob(Returned(c)) = [h |-> Kept[l], a |-> a, refs |-> bus_refs - Unrefs(arg[c])]
      BY <2>3 DEF FreeJob
    <3>2. Released(a, FailLabel[l])
      BY Zenon, <2>3, <2>5 DEF ArgAt, Arg, FreeArg, Released
    <3>3. bus_refs - Unrefs(arg[c]) = bus_refs + Bit(a) - Bit(arg[c])
      BY <2>3, <2>5 DEF ArgAt, Arg, FreeArg, Unrefs, Bit
    <3> HIDE DEF a
    <3>4. QED
      BY <2>1, <2>2, <2>5, <3>1, <3>2, <3>3, FailFrom
  <2>6. QED
    BY <2>4, <2>5
<1>3. QED
  BY <1>1, <1>2

\* Every step of a coroutine.
LEMMA RunKeeps ==
  ASSUME BusInv, NEW c \in Tasks, Run(c)
  PROVE  BusInv'
BY BeginKeeps, QueryKeeps, SliceKeeps, MatchKeeps, StartKeeps, JobKeeps, GetUnitKeeps,
   SessionKeeps, EndKeeps, InterruptedKeeps DEF Run

-----------------------------------------------------------------------------
(* The steps of the event loop.                                            *)

\* Only its own data matters to what a coroutine holds.
LEMMA SameExact ==
  ASSUME NEW c \in Tasks, Exact(c),
         pc'[c] = pc[c], wake'[c] = wake[c], held'[c] = held[c], arg'[c] = arg[c],
         \A l \in Labels : <<c, l>> \in pending' <=> <<c, l>> \in pending
  PROVE  Exact(c)'
<1>1. pc[c] \in Calls \cup {"match"} => pc[c] \in Labels
  BY DEF Labels, Waits
<1>2. QED
  BY <1>1 DEF Exact, ArgAt, ArgDone

\* An idle loop wakes a suspended coroutine, and nothing else changes.
LEMMA WakeKeeps ==
  ASSUME BusInv, NEW c \in Tasks, NEW how \in {"ok", "err", "cancel"},
         pc[c] = "session" \/ (how = "cancel" /\ pc[c] \notin {"new", "begin", "done"}),
         LoopIdle, Wake(c, how), UNCHANGED <<pc, held, arg, bus_refs, pending, aborted>>
  PROVE  BusInv'
<1>1. Types'
  BY DEF BusInv, Types, Wake
<1>2. ASSUME NEW d \in Tasks PROVE Exact(d)'
  <2>1. CASE d = c
    <3>1. Exact(c) /\ wake[c] = "none" /\ wake'[c] = how /\ how # "none"
      BY DEF BusInv, LoopIdle, Wake, Types
    <3>2. pc[c] \notin {"new", "begin", "done"}
      OBVIOUS
    <3>3. how = "cancel" \/ pc[c] \notin Calls \cup {"job", "match"}
      BY DEF Calls
    <3>4. \A l \in Labels : <<c, l>> \in pending => pc[c] = l /\ l \in Calls \cup {"match"}
      BY <3>1 DEF Exact, BusInv, Types
    <3>5. QED
      BY Zenon, <2>1, <3>1, <3>2, <3>3, <3>4 DEF Exact, ArgAt
  <2>2. CASE d # c
    BY <2>2, SameExact DEF BusInv, Wake, Types
  <2>3. QED
    BY <2>1, <2>2
<1>3. Matched' = Matched
  BY DEF Matched
<1>4. QED
  BY <1>1, <1>2, <1>3 DEF BusInv

\* A reply is not among the things a coroutine waits with.
LEMMA NoReply == \A l \in Labels : "reply" \notin HeldAt[l]
<1>1. \A l \in {"new", "begin", "done", "session", "match", "job"} : "reply" \notin HeldAt[l]
  BY DEF HeldAt
<1>2. \A l \in {"self_unit", "self_id", "unit", "id"} : "reply" \notin HeldAt[l]
  BY DEF HeldAt
<1>3. \A l \in {"slice", "start", "getunit", "kill"} : "reply" \notin HeldAt[l]
  BY DEF HeldAt
<1>4. QED
  BY <1>1, <1>2, <1>3 DEF Labels, Waits, Calls

\* A callback finds the coroutine still waiting in the call it belongs to, and
\* nothing stored yet.
LEMMA CallbackKeeps ==
  ASSUME BusInv, LoopIdle, NEW w \in pending, NEW res \in {"ok", "err"}, Callback(w, res),
         UNCHANGED <<pc, arg, bus_refs>>
  PROVE  BusInv'
<1>1. PICK c \in Tasks, l \in Calls \cup {"match"} : w = <<c, l>>
  BY DEF BusInv, Types
<1>2. l \in Labels /\ l \notin {"new", "begin", "done", "job", "session"}
  BY DEF Labels, Waits, Calls
<1>3. Exact(c) /\ pc[c] = l /\ wake[c] = "none"
  BY <1>1, <1>2 DEF BusInv, Exact, LoopIdle
<1>4. held[c] = HeldAt[l] /\ "reply" \notin HeldAt[l] /\ ArgAt(l, arg[c])
  <2>1. "reply" \notin HeldAt[l]
    BY <1>2, NoReply
  <2>2. QED
    BY <1>2, <1>3, <2>1 DEF Exact
<1>5. aborted' = FALSE
  <2>1. "reply" \notin held[w[1]]
    BY <1>1, <1>4
  <2>2. aborted' = ~("reply" \notin held[w[1]])
    BY DEF Callback
  <2>3. QED
    BY <2>1, <2>2, Zenon
<1>6. Types'
  BY <1>1 DEF BusInv, Types, Callback, Wake, Things
<1>7. ASSUME NEW d \in Tasks PROVE Exact(d)'
  <2>1. CASE d = c
    <3>1. wake'[c] = res /\ \A k \in Labels : <<c, k>> \notin pending'
      BY Zenon, <1>1, <1>3 DEF Callback, Wake, BusInv, Types, Exact
    <3>2. held'[c] = HeldAt[l] \cup (IF res = "ok" /\ l \in Calls THEN {"reply"} ELSE {})
      BY <1>1, <1>4 DEF Callback, BusInv, Types
    <3>3. pc'[c] = l /\ arg'[c] = arg[c] /\ res # "none"
      BY <1>3
    <3>4. QED
      BY <1>2, <1>4, <2>1, <3>1, <3>2, <3>3 DEF Exact, ArgAt
  <2>2. CASE d # c
    BY <1>1, <2>2, SameExact DEF BusInv, Types, Callback, Wake
  <2>3. QED
    BY <2>1, <2>2
<1>8. Matched' = Matched
  BY DEF Matched
<1>9. QED
  BY <1>5, <1>6, <1>7, <1>8 DEF BusInv

\* In an idle loop only a coroutine that waits for its job knows the job, and no
\* result is there yet.
LEMMA IdleArgs ==
  ASSUME BusInv, LoopIdle, NEW c \in Tasks
  PROVE  /\ Exact(c) /\ wake[c] = "none"
         /\ ArgAt(pc[c], arg[c]) /\ pc[c] \in Labels
         /\ arg[c].job_removed /\ arg[c].job_obj => pc[c] = "job"
<1>1. Exact(c) /\ wake[c] = "none" /\ pc[c] \in Labels
  BY DEF BusInv, Types, LoopIdle
<1>2. ArgAt(pc[c], arg[c])
  BY <1>1 DEF Exact
<1>3. arg[c].job_removed /\ arg[c].job_obj => pc[c] = "job"
  BY <1>2 DEF ArgAt
<1>4. QED
  BY <1>1, <1>2, <1>3

\* JobRemoved wakes the coroutines whose job it was.
LEMMA JobRemovedKeeps ==
  ASSUME BusInv, Head(inbox).res \in {"ok", "err"}, DispatchJobRemoved
  PROVE  BusInv'
<1> DEFINE res == Head(inbox).res
           mine == {c \in Tasks : /\ arg[c].job_removed /\ arg[c].job_obj
                                  /\ IsOwnJob(c, Head(inbox).job)}
           told(c) == [arg[c] EXCEPT !.job_obj = FALSE, !.result = TRUE]
<1>1. /\ LoopIdle /\ UNCHANGED <<pc, held, bus_refs, pending>>
      /\ arg' = [c \in Tasks |-> IF c \in mine THEN told(c) ELSE arg[c]]
      /\ wake' = [c \in Tasks |-> IF c \in mine THEN res ELSE wake[c]]
      /\ aborted' = \E c \in Tasks : arg[c].job_removed /\ arg[c].result
  BY Zenon DEF DispatchJobRemoved
<1>2. aborted' = FALSE
  <2>1. ~(\E c \in Tasks : arg[c].job_removed /\ arg[c].result)
    BY Zenon, <1>1, IdleArgs DEF ArgAt
  <2>2. QED
    BY <1>1, <2>1, Zenon
<1>3. ASSUME NEW c \in mine
      PROVE  /\ pc[c] = "job" /\ Exact(c) /\ wake[c] = "none" /\ ArgAt("job", arg[c])
             /\ told(c) \in Arg /\ ArgDone(told(c), res) /\ told(c).job_removed
  <2>1. pc[c] = "job" /\ Exact(c) /\ wake[c] = "none" /\ ArgAt("job", arg[c])
    BY Zenon, <1>1, IdleArgs
  <2>2. QED
    BY Zenon, <2>1 DEF ArgAt, ArgDone, Arg
<1> HIDE DEF told
<1>4. Types'
  BY <1>1, <1>3 DEF BusInv, Types
<1>5. ASSUME NEW c \in Tasks PROVE Exact(c)'
  <2>1. CASE c \in mine
    <3>1. pc'[c] = "job" /\ wake'[c] = res /\ arg'[c] = told(c) /\ held'[c] = held[c]
      BY <1>1, <1>3, <2>1
    <3>2. \A l \in Labels : <<c, l>> \notin pending'
      <4>1. <<c, "job">> \notin pending
        BY DEF BusInv, Types, Calls
      <4>2. QED
        BY Zenon, <1>1, <1>3, <2>1, <4>1 DEF Exact
    <3>3. held[c] = HeldAt["job"] /\ "job" \notin Calls \cup {"match"}
      BY ZenonT(60), <1>3, <2>1 DEF Exact, Calls
    <3>4. QED
      BY ZenonT(60), <1>3, <2>1, <3>1, <3>2, <3>3 DEF Exact
  <2>2. CASE c \notin mine
    BY <1>1, <2>2, SameExact DEF BusInv
  <2>3. QED
    BY <2>1, <2>2
<1>6. Matched' = Matched
  BY <1>1, <1>3 DEF Matched
<1>7. QED
  BY <1>1, <1>2, <1>4, <1>5, <1>6 DEF BusInv

\* Removing a subset.
LEMMA SubsetRemoved ==
  ASSUME NEW S, NEW T, IsFiniteSet(S), T \subseteq S
  PROVE  Cardinality(S \ T) = Cardinality(S) - Cardinality(T)
<1>1. S \cap T = T
  OBVIOUS
<1>2. Cardinality(S \ T) = Cardinality(S) - Cardinality(S \cap T)
  BY FS_Difference
<1>3. QED
  BY <1>1, <1>2, Zenon

\* Disconnected ends every wait for a job, and takes its matches and its reference.
LEMMA DisconnectedKeeps ==
  ASSUME BusInv, DispatchDisconnected
  PROVE  BusInv'
<1> DEFINE told == {c \in Tasks : arg[c].disconnected}
           closed(c) == FreeArg([arg[c] EXCEPT !.result = TRUE])
<1>1. /\ LoopIdle /\ pending = {} /\ UNCHANGED <<pc, held, pending>>
      /\ arg' = [c \in Tasks |-> IF c \in told THEN closed(c) ELSE arg[c]]
      /\ wake' = [c \in Tasks |-> IF c \in told THEN "err" ELSE wake[c]]
      /\ bus_refs' = bus_refs - Cardinality({c \in told : ~arg[c].closed})
      /\ aborted' = \E c \in told : arg[c].result
  BY DEF DispatchDisconnected
<1>2. aborted' = FALSE
  <2>1. ~(\E c \in told : arg[c].result)
    BY <1>1, IdleArgs DEF ArgAt
  <2>2. QED
    BY <1>1, <2>1, Zenon
<1>3. ASSUME NEW c \in told
      PROVE  /\ pc[c] = "job" /\ Exact(c) /\ wake[c] = "none" /\ arg[c].job_removed /\ ~arg[c].closed
             /\ closed(c) \in Arg /\ ArgDone(closed(c), "err") /\ ~closed(c).job_removed
  <2>1. pc[c] = "job" /\ Exact(c) /\ wake[c] = "none" /\ ArgAt("job", arg[c])
    <3>1. Exact(c) /\ wake[c] = "none" /\ ArgAt(pc[c], arg[c]) /\ pc[c] \in Labels
      BY <1>1, IdleArgs
    <3>2. pc[c] \in {"start", "job"}
      BY <3>1 DEF ArgAt
    <3>3. pc[c] # "start"
      BY <1>1, <3>1 DEF Exact, Calls
    <3>4. QED
      BY <3>1, <3>2, <3>3
  <2>2. QED
    BY Zenon, <2>1 DEF ArgAt, ArgDone, Arg, FreeArg
<1> HIDE DEF closed
<1>4. Types'
  BY <1>1, <1>3 DEF BusInv, Types
<1>5. ASSUME NEW c \in Tasks PROVE Exact(c)'
  <2>1. CASE c \in told
    <3>1. pc'[c] = "job" /\ wake'[c] = "err" /\ arg'[c] = closed(c) /\ held'[c] = held[c]
      BY <1>1, <1>3, <2>1
    <3>2. held[c] = HeldAt["job"] /\ "job" \notin Calls \cup {"match"}
      BY ZenonT(60), <1>3, <2>1 DEF Exact, Calls
    <3>3. QED
      BY Zenon, <1>1, <1>3, <2>1, <3>1, <3>2 DEF Exact
  <2>2. CASE c \notin told
    BY <1>1, <2>2, SameExact DEF BusInv
  <2>3. QED
    BY <2>1, <2>2
<1>6. bus_refs' = 1 + Cardinality(Matched')
  <2>1. {c \in told : ~arg[c].closed} = told /\ told \subseteq Matched
    BY <1>3 DEF Matched
  <2>2. Matched' = Matched \ told
    BY <1>1, <1>3 DEF Matched
  <2>3. IsFiniteSet(Matched) /\ IsFiniteSet(told)
    BY TasksAssumption, FS_Subset DEF Matched
  <2>4. Cardinality(Matched \ told) = Cardinality(Matched) - Cardinality(told)
    BY <2>1, <2>3, SubsetRemoved
  <2>5. Cardinality(Matched) \in Nat /\ Cardinality(told) \in Nat
    BY <2>3, FS_CardinalityType
  <2>6. bus_refs' = bus_refs - Cardinality(told)
    BY Zenon, <1>1, <2>1
  <2>7. bus_refs = 1 + Cardinality(Matched)
    BY DEF BusInv
  <2> HIDE DEF told
  <2>8. QED
    BY <2>2, <2>4, <2>5, <2>6, <2>7
<1>7. QED
  BY <1>2, <1>4, <1>5, <1>6 DEF BusInv

-----------------------------------------------------------------------------
(* Messages, and the theorems.                                             *)

Mail ==
  /\ disabled \in [Tasks -> BOOLEAN]
  /\ outbox \in Seq(Tasks \X (Calls \cup {"match"}))
  /\ inbox \in Seq(Messages)
  /\ jobs \in [Tasks -> {"none", "queued", "done", "failed"}]
  /\ bus \in {"open", "closing", "closed"}

\* A coroutine that runs sends at most one call.
LEMMA RunMails ==
  ASSUME Mail, NEW c \in Tasks, Run(c)
  PROVE  Mail'
<1> DEFINE Sends == \/ UNCHANGED outbox
                    \/ \E l \in Calls \cup {"match"} : outbox' = Append(outbox, <<c, l>>)
<1>1. ASSUME NEW l, NEW s, Fail(c, l, s) PROVE Sends
  BY <1>1 DEF Fail, Stop
<1>2. ASSUME NEW first, NEW s, Stop(c, s, first) PROVE Sends
  BY <1>2 DEF Stop
<1>3. ASSUME NEW l \in Calls, NEW s, Call(c, l, s) PROVE Sends
  BY <1>1, <1>3 DEF Call
<1>4. UNCHANGED <<inbox, jobs, bus>>
      /\ (UNCHANGED disabled \/ \E b : disabled' = [disabled EXCEPT ![c] = b] /\ b \in BOOLEAN)
  <2>1. ASSUME RunSession(c) \/ RunNoMatch(c)
        PROVE  disabled' = [disabled EXCEPT ![c] = (wake[c] = "cancel")] /\ UNCHANGED <<inbox, jobs, bus>>
    BY <2>1 DEF RunSession, RunNoMatch
  <2>2. (wake[c] = "cancel") \in BOOLEAN
    OBVIOUS
  <2>3. CASE RunSession(c) \/ RunNoMatch(c)
    BY Zenon, <2>1, <2>2, <2>3
  <2>4. CASE ~(RunSession(c) \/ RunNoMatch(c))
    BY Zenon, <2>4 DEF Run, RunBegin, RunQuery, RunSlice, RunMatch, RunStart, RunJob, RunJobFailed,
       RunGetUnit, RunKilled, RunError, RunInterrupted, Rest
  <2>5. QED
    BY <2>3, <2>4
<1>5. Sends
  <2>1. CASE RunBegin(c) \/ RunQuery(c)
    <3>1. \A l \in DOMAIN NextCall : NextCall[l] \in Calls
      BY DEF NextCall, Calls
    <3>2. {"self_unit", "unit"} \subseteq Calls
      BY DEF Calls
    <3> HIDE DEF Sends
    <3>3. QED
      BY Zenon, <1>1, <1>3, <2>1, <3>1, <3>2 DEF RunBegin, RunQuery
  <2>2. CASE RunSlice(c) \/ RunGetUnit(c)
    BY <1>1, <1>2, <2>2 DEF RunSlice, RunGetUnit
  <2>3. CASE RunMatch(c) \/ RunStart(c)
    BY SMTT(30), <1>2, <1>3, <2>3 DEF RunMatch, RunStart, Calls
  <2>4. CASE RunJob(c) \/ RunJobFailed(c) \/ RunSession(c)
    BY Zenon, <1>1, <1>3, <2>4 DEF RunJob, RunJobFailed, RunSession, Calls
  <2>5. CASE RunKilled(c) \/ RunError(c) \/ RunNoMatch(c) \/ RunInterrupted(c)
    BY <1>1, <2>5 DEF RunKilled, RunError, RunNoMatch, RunInterrupted
  <2>6. QED
    BY <2>1, <2>2, <2>3, <2>4, <2>5 DEF Run
<1>6. outbox' \in Seq(Tasks \X (Calls \cup {"match"}))
  <2>1. CASE UNCHANGED outbox
    BY <2>1 DEF Mail
  <2>2. CASE \E l \in Calls \cup {"match"} : outbox' = Append(outbox, <<c, l>>)
    <3>1. PICK l \in Calls \cup {"match"} : outbox' = Append(outbox, <<c, l>>)
      BY <2>2
    <3>2. <<c, l>> \in Tasks \X (Calls \cup {"match"})
      OBVIOUS
    <3>3. QED
      BY <3>1, <3>2 DEF Mail
  <2>3. QED
    BY <1>5, <2>1, <2>2
<1>7. QED
  BY <1>4, <1>6 DEF Mail

\* The other steps keep the messages well formed.
LEMMA OtherMails ==
  ASSUME Mail, Next, \A c \in Tasks : ~Run(c)
  PROVE  Mail'
<1>1. CASE \E c \in Tasks : Create(c) \/ SessionEnds(c) \/ Interrupt(c)
  BY <1>1 DEF Mail, Create, SessionEnds, Interrupt, busVars
<1>2. CASE \E c \in Tasks : JobEnds(c)
  <2>1. PICK c \in Tasks, res \in {"ok", "err"} :
          /\ jobs' = [jobs EXCEPT ![c] = IF res = "ok" THEN "done" ELSE "failed"]
          /\ inbox' = Append(inbox, [job |-> c, res |-> res])
          /\ UNCHANGED <<disabled, outbox, bus>>
    BY Zenon, <1>2 DEF JobEnds, taskVars
  <2>2. [job |-> c, res |-> res] \in Messages
    BY DEF Messages
  <2>3. QED
    BY <2>1, <2>2 DEF Mail
<1>3. CASE Serve
  <2>1. Head(outbox) \in Tasks \X (Calls \cup {"match"}) /\ Tail(outbox) \in Seq(Tasks \X (Calls \cup {"match"}))
    BY <1>3 DEF Serve, Mail
  <2>2. PICK res \in {"ok", "err"} :
          /\ outbox' = Tail(outbox)
          /\ inbox' = Append(inbox, [to |-> Head(outbox), res |-> res])
          /\ jobs' = [jobs EXCEPT ![Head(outbox)[1]] =
                        IF Head(outbox)[2] = "start" /\ res = "ok" THEN "queued" ELSE @]
          /\ UNCHANGED <<disabled, bus>>
    BY Zenon, <1>3 DEF Serve, taskVars
  <2>3. [to |-> Head(outbox), res |-> res] \in Messages
    BY <2>1 DEF Messages
  <2>4. jobs' \in [Tasks -> {"none", "queued", "done", "failed"}]
    BY <2>1, <2>2 DEF Mail
  <2>5. QED
    BY <2>1, <2>2, <2>3, <2>4 DEF Mail
<1>4. CASE Dispatch \/ DispatchTimeout
  <2>1. CASE DispatchReply \/ DispatchJobRemoved
    <3>1. inbox # <<>> /\ inbox' = Tail(inbox) /\ UNCHANGED <<disabled, outbox, jobs, bus>>
      BY Zenon, <2>1 DEF DispatchReply, DispatchJobRemoved
    <3>2. QED
      BY <3>1 DEF Mail
  <2>2. CASE DispatchClosing \/ DispatchTimeout
    BY <2>2 DEF Mail, DispatchClosing, DispatchTimeout
  <2>3. CASE DispatchDisconnected
    BY <2>3 DEF Mail, DispatchDisconnected
  <2>4. QED
    BY <1>4, <2>1, <2>2, <2>3 DEF Dispatch
<1>5. CASE Disconnect
  BY <1>5 DEF Mail, Disconnect, taskVars
<1>6. CASE Over
  BY <1>6 DEF Mail, Over, vars, taskVars, busVars
<1>7. QED
  BY <1>1, <1>2, <1>3, <1>4, <1>5, <1>6 DEF Next

\* What a message says is a result.
LEMMA HeadRes ==
  ASSUME Mail, inbox # <<>>
  PROVE  Head(inbox).res \in {"ok", "err"}
<1>1. Head(inbox) \in Messages
  BY DEF Mail
<1>2. QED
  BY <1>1 DEF Messages

\* Every step keeps what the coroutines hold exact.
LEMMA NextKeeps ==
  ASSUME BusInv, Mail, Next
  PROVE  BusInv'
<1>1. CASE \E c \in Tasks : Run(c)
  BY <1>1, RunKeeps
<1>2. ASSUME NEW c \in Tasks, Create(c) PROVE BusInv'
  <2>1. LoopIdle /\ pc[c] = "new" /\ UNCHANGED <<held, arg, bus_refs, pending, aborted>>
        /\ pc' = [pc EXCEPT ![c] = "begin"] /\ wake' = [wake EXCEPT ![c] = "ok"]
    BY <1>2 DEF Create, Wake, busVars
  <2>2. Types'
    BY <2>1 DEF BusInv, Types, Labels
  <2>3. ASSUME NEW d \in Tasks PROVE Exact(d)'
    <3>1. CASE d = c
      <4>1. Exact(c) /\ pc'[c] = "begin" /\ wake'[c] = "ok" /\ held'[c] = held[c] /\ arg'[c] = arg[c]
        BY <2>1 DEF BusInv, Types
      <4>2. HeldAt["begin"] = HeldAt["new"] /\ "begin" \notin Calls /\ "new" \notin Calls
        BY Zenon DEF HeldAt, Calls
      <4>3. \A l \in Labels : <<c, l>> \notin pending
        <5>1. <<c, "new">> \notin pending
          BY DEF BusInv, Types, Calls
        <5>2. QED
          BY <2>1, <4>1, <5>1 DEF Exact
      <4>4. held[c] = HeldAt["begin"] /\ ArgAt("begin", arg[c])
        BY <2>1, <4>1, <4>2 DEF Exact, ArgAt
      <4>5. QED
        BY <2>1, <3>1, <4>1, <4>2, <4>3, <4>4 DEF Exact
    <3>2. CASE d # c
      BY <2>1, <3>2, SameExact DEF BusInv, Types
    <3>3. QED
      BY <3>1, <3>2
  <2>4. Matched' = Matched
    BY <2>1 DEF Matched
  <2>5. QED
    BY <2>1, <2>2, <2>3, <2>4 DEF BusInv
<1>3. ASSUME NEW c \in Tasks, SessionEnds(c) PROVE BusInv'
  <2>1. PICK how \in {"ok", "err"} : Wake(c, how)
    BY <1>3 DEF SessionEnds
  <2>2. QED
    BY <1>3, <2>1, WakeKeeps DEF SessionEnds, busVars
<1>4. ASSUME NEW c \in Tasks, Interrupt(c) PROVE BusInv'
  <2>1. pc[c] # "begin"
    BY Zenon, <1>4, IdleArgs DEF Interrupt, Exact
  <2>2. QED
    BY Zenon, <1>4, <2>1, WakeKeeps DEF Interrupt, busVars
<1>5. CASE DispatchReply
  <2>1. LoopIdle /\ UNCHANGED <<pc, arg, bus_refs>>
        /\ IF Head(inbox).to \in pending THEN Callback(Head(inbox).to, Head(inbox).res)
           ELSE UNCHANGED <<wake, held, pending, aborted>>
    BY <1>5 DEF DispatchReply
  <2>2. Head(inbox).res \in {"ok", "err"}
    BY <1>5, HeadRes DEF DispatchReply
  <2>3. CASE Head(inbox).to \in pending
    BY <2>1, <2>2, <2>3, CallbackKeeps
  <2>4. CASE UNCHANGED <<pc, wake, held, arg, bus_refs, pending, aborted>>
    <3>1. \A c \in Tasks : Exact(c)'
      BY <2>4, SameExact DEF BusInv
    <3>2. QED
      BY <2>4, <3>1 DEF BusInv, Types, Matched
  <2>5. QED
    BY <2>1, <2>3, <2>4
<1>6. CASE DispatchJobRemoved
  <2>1. Head(inbox).res \in {"ok", "err"}
    BY Zenon, <1>6, HeadRes DEF DispatchJobRemoved
  <2>2. QED
    BY <1>6, <2>1, JobRemovedKeeps
<1>7. CASE DispatchClosing \/ DispatchTimeout
  BY <1>7, CallbackKeeps DEF DispatchClosing, DispatchTimeout
<1>8. CASE DispatchDisconnected
  BY <1>8, DisconnectedKeeps
<1>9. CASE UNCHANGED <<pc, wake, held, arg, bus_refs, pending, aborted>>
  <2>1. \A c \in Tasks : Exact(c)'
    BY <1>9, SameExact DEF BusInv
  <2>2. QED
    BY <1>9, <2>1 DEF BusInv, Types, Matched
<1>10. (Serve \/ Disconnect \/ Over \/ \E c \in Tasks : JobEnds(c))
         => UNCHANGED <<pc, wake, held, arg, bus_refs, pending, aborted>>
  BY Zenon DEF Serve, Disconnect, Over, JobEnds, vars, taskVars, busVars
<1>11. QED
  BY <1>1, <1>2, <1>3, <1>4, <1>5, <1>6, <1>7, <1>8, <1>9, <1>10 DEF Next, Dispatch

\* What is exact at every step of the daemon.
LEMMA BusExact == Spec => [](BusInv /\ Mail)
<1>1. Init => BusInv /\ Mail
  <2> SUFFICES ASSUME Init PROVE BusInv /\ Mail
    OBVIOUS
  <2>1. NoArg \in Arg /\ ArgAt("new", NoArg) /\ HeldAt["new"] = {} /\ ~NoArg.job_removed
    BY DEF NoArg, Arg, ArgAt, HeldAt
  <2>2. Types /\ Mail
    BY <2>1 DEF Init, Types, Mail, Labels, Messages
  <2>3. \A c \in Tasks : Exact(c)
    BY <2>1 DEF Init, Exact, Calls
  <2>4. Matched = {}
    BY <2>1 DEF Init, Matched
  <2>5. Cardinality(Matched) = 0
    BY <2>4, FS_EmptySet
  <2>6. QED
    BY <2>2, <2>3, <2>5 DEF Init, BusInv
<1>2. BusInv /\ Mail /\ [Next]_vars => (BusInv /\ Mail)'
  <2> SUFFICES ASSUME BusInv, Mail, [Next]_vars PROVE (BusInv /\ Mail)'
    OBVIOUS
  <2>1. CASE Next
    BY <2>1, NextKeeps, RunMails, OtherMails
  <2>2. CASE UNCHANGED vars
    <3>1. \A c \in Tasks : Exact(c)'
      BY <2>2, SameExact DEF BusInv, vars, taskVars, busVars
    <3>2. QED
      BY <2>2, <3>1 DEF BusInv, Types, Matched, Mail, vars, taskVars, busVars
  <2>3. QED
    BY <2>1, <2>2
<1>3. QED
  BY <1>1, <1>2, PTL DEF Spec

\* For any number of coroutines, whatever fails, times out, is interrupted or loses
\* its connection, and in any order: a callback of sd_bus.c only finds live data.
THEOREM BusCallbacks == Spec => []CallbacksLive
<1>1. BusInv => CallbacksLive
  <2> SUFFICES ASSUME BusInv, NEW c \in Tasks
               PROVE  /\ \A l \in Waits : <<c, l>> \in pending => pc[c] = l
                      /\ arg[c].job_removed => pc[c] \in {"match", "start", "job"}
                      /\ arg[c].disconnected => pc[c] \in {"start", "job"}
                      /\ arg[c].job_removed /\ arg[c].job_obj => "m_res" \in held[c]
    BY DEF CallbacksLive
  <2>1. Exact(c) /\ "job" \notin Calls /\ "m_res" \in HeldAt["job"]
    BY DEF BusInv, Calls, HeldAt
  <2>2. QED
    BY <2>1 DEF Exact, ArgAt, ArgDone, Labels
<1>2. QED
  BY <1>1, BusExact, PTL

\* No assertion of sd_bus.c fails.
THEOREM BusAsserts == Spec => []NeverAborts
<1>1. BusInv => NeverAborts
  BY DEF BusInv, NeverAborts
<1>2. QED
  BY <1>1, BusExact, PTL

\* Nothing is leaked: a coroutine that has left the bus holds nothing, and the bus
\* has the references it should have.
THEOREM BusLeaks == Spec => []NothingLeaked
<1>1. BusInv => NothingLeaked
  <2> SUFFICES ASSUME BusInv PROVE NothingLeaked
    OBVIOUS
  <2>1. HeldAt["done"] = {} /\ HeldAt["session"] = {"scope_name", "scope_obj"}
        /\ "done" \notin Calls /\ "session" \notin Calls
    BY DEF HeldAt, Calls
  <2>2. ASSUME NEW c \in Tasks
        PROVE  /\ pc[c] = "done" => held[c] = {} /\ ~arg[c].result
               /\ pc[c] = "session" => held[c] = {"scope_name", "scope_obj"}
    <3>1. Exact(c)
      BY DEF BusInv
    <3>2. QED
      BY <2>1, <3>1 DEF Exact, ArgAt
  <2>3. QED
    BY <2>2 DEF NothingLeaked, BusInv, Matched
<1>2. QED
  BY <1>1, BusExact, PTL

-----------------------------------------------------------------------------
(* Jobs: each coroutine starts one, and goes on only when that one is done. *)

BeforeStart == {"new", "begin", "self_unit", "self_id", "unit", "id", "slice", "match"}

\* The reply to the StartTransientUnit of c, and the signal for its job.
Queued(m, c) == "to" \in DOMAIN m /\ m.to = <<c, "start">> /\ m.res = "ok"
Removed(m, c) == "job" \in DOMAIN m /\ m.job = c /\ m.res = "ok"

\* Where the job of c is, as far as c and the messages on their way can tell.  A
\* StartTransientUnit that is still on its way is the only one c has sent.
JobOf(c) ==
  /\ \A i \in 1..Len(outbox) : outbox[i] = <<c, "start">> =>
       /\ jobs[c] = "none" /\ pc[c] \notin BeforeStart
       /\ \A j \in 1..Len(outbox) : outbox[j] = <<c, "start">> => j = i
  /\ \A i \in 1..Len(inbox) : Queued(inbox[i], c) => jobs[c] # "none"
  /\ \A i \in 1..Len(inbox) : Removed(inbox[i], c) => jobs[c] = "done"
  /\ pc[c] \in BeforeStart => jobs[c] = "none"
  /\ pc[c] = "start" /\ wake[c] = "ok" => jobs[c] # "none"
  /\ pc[c] = "job" => jobs[c] # "none"
  /\ pc[c] = "job" /\ wake[c] = "ok" => jobs[c] = "done"
  /\ pc[c] \in {"getunit", "session"} => jobs[c] = "done"

\* Where a coroutine that runs goes, and what it sends: the one place where it
\* sends StartTransientUnit, and the answers it needs to go on from there.
Path(c, l) ==
  /\ pc' = [pc EXCEPT ![c] = l] /\ wake' = [wake EXCEPT ![c] = "none"]
  /\ UNCHANGED outbox \/ outbox' = Append(outbox, <<c, l>>)
  /\ \/ l \in {"done", "kill"}
     \/ l \in BeforeStart /\ pc[c] \in BeforeStart
     \/ l = "start" /\ pc[c] = "match"
     \/ l = "job" /\ pc[c] = "start" /\ wake[c] = "ok"
     \/ l = "getunit" /\ pc[c] = "job" /\ wake[c] = "ok"
     \/ l = "session" /\ pc[c] = "getunit" /\ UNCHANGED outbox

\* Every way a coroutine can run is such a path.
LEMMA RunPath ==
  ASSUME NEW c \in Tasks, Run(c)
  PROVE  (\E l \in Labels : Path(c, l)) /\ UNCHANGED <<inbox, jobs>>
<1>0. UNCHANGED <<inbox, jobs>>
  BY Zenon DEF Run, RunBegin, RunQuery, RunSlice, RunMatch, RunStart, RunJob, RunJobFailed,
     RunGetUnit, RunSession, RunKilled, RunError, RunNoMatch, RunInterrupted, Rest
<1>1. ASSUME NEW first, NEW s, Stop(c, s, first) PROVE Path(c, "done")
  BY <1>1 DEF Stop, Suspend, Path
<1>2. ASSUME NEW l, NEW s, Fail(c, l, s) PROVE Path(c, "done")
  BY <1>1, <1>2 DEF Fail
<1>3. ASSUME NEW l, NEW s, Call(c, l, s),
             \/ l \in BeforeStart /\ pc[c] \in BeforeStart
             \/ l = "start" /\ pc[c] = "match"
             \/ l = "getunit" /\ pc[c] = "job" /\ wake[c] = "ok"
             \/ l = "kill"
      PROVE  Path(c, l) \/ Path(c, "done")
  <2>1. CASE Fail(c, l, s)
    BY <1>2, <2>1
  <2>2. CASE Suspend(c, l, [s EXCEPT !.h = @ \cup Frame(l)]) /\ outbox' = Append(outbox, <<c, l>>)
    BY <1>3, <2>2 DEF Suspend, Path
  <2>3. QED
    BY <1>3, <2>1, <2>2 DEF Call
<1>4. Labels = {"self_unit", "self_id", "unit", "id", "slice", "start", "getunit", "kill",
                "match", "job", "new", "begin", "session", "done"}
  BY DEF Labels, Waits, Calls
<1>5. CASE RunBegin(c)
  <2>1. pc[c] \in BeforeStart /\ \E l \in {"self_unit", "unit"} : Call(c, l, Returned(c))
    BY <1>5 DEF RunBegin, Runs, BeforeStart
  <2>2. {"self_unit", "unit"} \subseteq BeforeStart
    BY DEF BeforeStart
  <2>3. QED
    BY <1>0, <1>3, <1>4, <2>1, <2>2
<1>6. CASE RunQuery(c)
  <2>1. PICK l \in DOMAIN NextCall :
          /\ pc[c] = l
          /\ (\E s : Call(c, NextCall[l], s)) \/ (\E s : Fail(c, l, s))
    BY <1>6 DEF RunQuery, Runs
  <2>2. l \in BeforeStart /\ NextCall[l] \in BeforeStart /\ NextCall[l] \in Labels
    BY <1>4 DEF NextCall, BeforeStart
  <2>3. QED
    BY <1>0, <1>2, <1>3, <1>4, <2>1, <2>2
<1>7. CASE RunSlice(c)
  <2>1. pc[c] = "slice"
        /\ \/ \E s, first : Stop(c, s, first)
           \/ (\E s : Suspend(c, "match", s)) /\ outbox' = Append(outbox, <<c, "match">>)
    BY <1>7 DEF RunSlice, Runs
  <2>2. CASE \E s, first : Stop(c, s, first)
    BY <1>0, <1>1, <1>4, <2>2
  <2>3. CASE (\E s : Suspend(c, "match", s)) /\ outbox' = Append(outbox, <<c, "match">>)
    <3>1. Path(c, "match")
      BY <2>1, <2>3 DEF Suspend, Path, BeforeStart
    <3>2. QED
      BY <1>0, <1>4, <3>1
  <2>4. QED
    BY <2>1, <2>2, <2>3
<1>8. CASE RunMatch(c)
  <2>1. pc[c] = "match" /\ ((\E s, first : Stop(c, s, first)) \/ (\E s : Call(c, "start", s)))
    BY <1>8 DEF RunMatch, Runs
  <2>2. QED
    BY <1>0, <1>1, <1>3, <1>4, <2>1
<1>9. CASE RunStart(c)
  <2>1. pc[c] = "start" /\ wake[c] = "ok"
        /\ ((\E s, first : Stop(c, s, first)) \/ ((\E s : Suspend(c, "job", s)) /\ UNCHANGED outbox))
    BY <1>9 DEF RunStart, Runs
  <2>2. CASE (\E s : Suspend(c, "job", s)) /\ UNCHANGED outbox
    <3>1. Path(c, "job")
      BY <2>1, <2>2, <1>9 DEF Suspend, Path, RunStart, Runs
    <3>2. QED
      BY <1>0, <1>4, <3>1
  <2>3. QED
    BY <1>0, <1>1, <1>4, <2>1, <2>2
<1>10. CASE RunJob(c)
  <2>1. pc[c] = "job" /\ wake[c] = "ok" /\ \E s : Call(c, "getunit", s)
    BY <1>10 DEF RunJob, Runs
  <2>2. QED
    BY <1>0, <1>3, <1>4, <2>1
<1>11. CASE RunGetUnit(c)
  <2>1. pc[c] = "getunit"
        /\ ((\E s : Fail(c, "getunit", s)) \/ ((\E s : Suspend(c, "session", s)) /\ UNCHANGED outbox))
    BY <1>11 DEF RunGetUnit, Runs
  <2>2. CASE (\E s : Suspend(c, "session", s)) /\ UNCHANGED outbox
    <3>1. Path(c, "session")
      BY <2>1, <2>2 DEF Suspend, Path
    <3>2. QED
      BY <1>0, <1>4, <3>1
  <2>3. QED
    BY <1>0, <1>2, <1>4, <2>1, <2>2
<1>12. CASE RunSession(c)
  <2>1. (\E s : Call(c, "kill", s)) \/ \E s : Fail(c, "kill", s)
    BY <1>12 DEF RunSession
  <2>2. QED
    BY <1>0, <1>2, <1>3, <1>4, <2>1
<1>13. CASE RunJobFailed(c) \/ RunKilled(c) \/ RunError(c) \/ RunNoMatch(c) \/ RunInterrupted(c)
  <2>1. \E l, s : Fail(c, l, s)
    BY <1>13 DEF RunJobFailed, RunKilled, RunError, RunNoMatch, RunInterrupted
  <2>2. QED
    BY <1>0, <1>2, <1>4, <2>1
<1>14. QED
  BY <1>5, <1>6, <1>7, <1>8, <1>9, <1>10, <1>11, <1>12, <1>13 DEF Run

\* A coroutine that runs keeps its own job and those of the others where they are.
LEMMA RunJobs ==
  ASSUME BusInv, Mail, \A d \in Tasks : JobOf(d), NEW c \in Tasks, Run(c), NEW d \in Tasks
  PROVE  JobOf(d)'
<1>1. PICK l \in Labels : Path(c, l)
  BY RunPath
<1>2. UNCHANGED <<inbox, jobs>>
  BY RunPath
<1>3. pc' = [pc EXCEPT ![c] = l] /\ wake' = [wake EXCEPT ![c] = "none"]
      /\ pc \in [Tasks -> Labels] /\ wake \in [Tasks -> {"none", "ok", "err", "cancel"}]
  BY <1>1 DEF Path, BusInv, Types
<1>4. outbox \in Seq(Tasks \X (Calls \cup {"match"}))
  BY DEF Mail
<1>5. CASE d # c
  <2>1. pc'[d] = pc[d] /\ wake'[d] = wake[d] /\ JobOf(d)
    BY <1>3, <1>5
  <2>2. \A i \in 1..Len(outbox') : outbox'[i] = <<d, "start">> => i \in 1..Len(outbox) /\ outbox'[i] = outbox[i]
    <3>1. CASE UNCHANGED outbox
      BY <3>1
    <3>2. CASE outbox' = Append(outbox, <<c, l>>)
      BY <1>4, <1>5, <3>2
    <3>3. QED
      BY Zenon, <1>1, <3>1, <3>2 DEF Path
  <2>3. QED
    BY ZenonT(60), <1>2, <2>1, <2>2 DEF JobOf
<1>6. CASE d = c
  <2>1. pc'[c] = l /\ wake'[c] = "none" /\ JobOf(c)
    BY <1>3
  <2>2. CASE l = "start" /\ pc[c] = "match"
    <3>1. jobs[c] = "none" /\ \A i \in 1..Len(outbox) : outbox[i] # <<c, "start">>
      BY Zenon, <2>1, <2>2 DEF JobOf, BeforeStart
    <3>2. \A i \in 1..Len(outbox') : outbox'[i] = <<c, "start">> => i = Len(outbox) + 1
      <4>1. CASE UNCHANGED outbox
        BY <3>1, <4>1
      <4>2. CASE outbox' = Append(outbox, <<c, l>>)
        BY <1>4, <3>1, <4>2
      <4>3. QED
        BY Zenon, <1>1, <4>1, <4>2 DEF Path
    <3>3. QED
      BY Zenon, <1>2, <1>6, <2>1, <2>2, <3>1, <3>2 DEF JobOf, BeforeStart
  <2>3. CASE l # "start"
    <3>1. \A i \in 1..Len(outbox') : outbox'[i] = <<c, "start">> => i \in 1..Len(outbox) /\ outbox'[i] = outbox[i]
      <4>1. CASE UNCHANGED outbox
        BY <4>1
      <4>2. CASE outbox' = Append(outbox, <<c, l>>)
        BY <1>4, <2>3, <4>2
      <4>3. QED
        BY Zenon, <1>1, <4>1, <4>2 DEF Path
    <3>2. /\ l \in BeforeStart => pc[c] \in BeforeStart
          /\ l = "job" => pc[c] = "start" /\ wake[c] = "ok"
          /\ l = "getunit" => pc[c] = "job" /\ wake[c] = "ok"
          /\ l = "session" => pc[c] = "getunit"
      BY <1>1, <2>3 DEF Path, BeforeStart
    <3>3. /\ l \in BeforeStart => jobs[c] = "none" /\ pc[c] \in BeforeStart
          /\ l = "job" => jobs[c] # "none"
          /\ l \in {"getunit", "session"} => jobs[c] = "done"
      BY <2>1, <3>2 DEF JobOf
    <3>4. \A i \in 1..Len(outbox) : outbox[i] = <<c, "start">> => l \notin BeforeStart
      BY <2>1, <3>3 DEF JobOf
    <3>5. QED
      BY Zenon, <1>2, <1>6, <2>1, <2>3, <3>1, <3>3, <3>4 DEF JobOf
  <2>4. QED
    BY <1>1, <2>2, <2>3 DEF Path, BeforeStart
<1>7. QED
  BY <1>5, <1>6

\* systemd serves a call: only the StartTransientUnit of a coroutine queues its job.
LEMMA ServeJobs ==
  ASSUME BusInv, Mail, \A d \in Tasks : JobOf(d), Serve, NEW d \in Tasks
  PROVE  JobOf(d)'
<1> DEFINE h == Head(outbox)
<1>1. PICK res \in {"ok", "err"} :
        /\ outbox' = Tail(outbox)
        /\ inbox' = Append(inbox, [to |-> h, res |-> res])
        /\ jobs' = [jobs EXCEPT ![h[1]] = IF h[2] = "start" /\ res = "ok" THEN "queued" ELSE @]
        /\ UNCHANGED <<pc, wake>>
  BY Zenon DEF Serve, taskVars
<1>2. outbox # <<>> /\ outbox \in Seq(Tasks \X (Calls \cup {"match"})) /\ inbox \in Seq(Messages)
      /\ jobs \in [Tasks -> {"none", "queued", "done", "failed"}]
  BY DEF Serve, Mail
<1>3. h = outbox[1] /\ h \in Tasks \X (Calls \cup {"match"}) /\ 1 \in 1..Len(outbox)
  BY <1>2
<1>4. \A i \in 1..Len(outbox') : i + 1 \in 1..Len(outbox) /\ outbox'[i] = outbox[i + 1]
  BY <1>1, <1>2
<1>5. Len(inbox') = Len(inbox) + 1 /\ inbox'[Len(inbox) + 1] = [to |-> h, res |-> res]
      /\ \A i \in 1..Len(inbox') : (i \in 1..Len(inbox) /\ inbox'[i] = inbox[i]) \/ i = Len(inbox) + 1
  BY <1>1, <1>2
<1>6. ~Removed([to |-> h, res |-> res], d)
  BY DEF Removed
<1>7. Queued([to |-> h, res |-> res], d) => h = <<d, "start">> /\ res = "ok"
  BY DEF Queued
<1> HIDE DEF h
<1>8. JobOf(d)
  OBVIOUS
<1>9. CASE h = <<d, "start">>
  <2>1. jobs[d] = "none" /\ pc[d] \notin BeforeStart
        /\ \A j \in 1..Len(outbox) : outbox[j] = <<d, "start">> => j = 1
    BY Zenon, <1>3, <1>8, <1>9 DEF JobOf
  <2>2. \A i \in 1..Len(outbox') : outbox'[i] # <<d, "start">>
    BY <1>4, <2>1
  <2>3. \A i \in 1..Len(inbox') : ~Removed(inbox'[i], d)
    BY Zenon, <1>5, <1>6, <1>8, <2>1 DEF JobOf
  <2>4. jobs'[d] = IF res = "ok" THEN "queued" ELSE "none"
    BY <1>1, <1>2, <1>9, <2>1
  <2>5. \A i \in 1..Len(inbox') : Queued(inbox'[i], d) => jobs'[d] # "none"
    BY Zenon, <1>5, <1>7, <1>8, <2>1, <2>4 DEF JobOf
  <2>6. pc[d] \notin {"getunit", "session", "job"} /\ ~(pc[d] = "start" /\ wake[d] = "ok")
    BY <1>8, <2>1 DEF JobOf
  <2>7. QED
    BY Zenon, <1>1, <2>1, <2>2, <2>3, <2>5, <2>6 DEF JobOf
<1>10. CASE h # <<d, "start">>
  <2>1. h[1] = d => h[2] # "start"
    BY <1>3, <1>10
  <2>2. jobs'[d] = jobs[d]
    BY <1>1, <1>2, <1>3, <2>1
  <2>3. \A i \in 1..Len(inbox') : (Queued(inbox'[i], d) \/ Removed(inbox'[i], d))
          => i \in 1..Len(inbox) /\ inbox'[i] = inbox[i]
    BY <1>5, <1>6, <1>7, <1>10
  <2>4. \A i, j \in 1..Len(outbox') : i + 1 = j + 1 => i = j
    OBVIOUS
  <2>5. \A i \in 1..Len(outbox') : outbox'[i] = <<d, "start">> =>
          /\ jobs[d] = "none" /\ pc[d] \notin BeforeStart
          /\ \A j \in 1..Len(outbox') : outbox'[j] = <<d, "start">> => j = i
    <3> SUFFICES ASSUME NEW i \in 1..Len(outbox'), outbox'[i] = <<d, "start">>
                 PROVE  /\ jobs[d] = "none" /\ pc[d] \notin BeforeStart
                        /\ \A j \in 1..Len(outbox') : outbox'[j] = <<d, "start">> => j = i
      OBVIOUS
    <3>1. i + 1 \in 1..Len(outbox) /\ outbox[i + 1] = <<d, "start">>
      BY <1>4
    <3>2. /\ jobs[d] = "none" /\ pc[d] \notin BeforeStart
          /\ \A j \in 1..Len(outbox) : outbox[j] = <<d, "start">> => j = i + 1
      BY <1>8, <3>1 DEF JobOf
    <3>3. QED
      BY SMTT(30), <1>4, <2>4, <3>2
  <2>6. \A i \in 1..Len(inbox') : (Queued(inbox'[i], d) => jobs[d] # "none")
                                  /\ (Removed(inbox'[i], d) => jobs[d] = "done")
    BY Zenon, <1>8, <2>3 DEF JobOf
  <2>7. QED
    BY Zenon, <1>1, <1>8, <2>2, <2>5, <2>6 DEF JobOf
<1>11. QED
  BY <1>9, <1>10

\* A job ends once, and its signal says how.
LEMMA EndJobs ==
  ASSUME BusInv, Mail, \A d \in Tasks : JobOf(d), NEW c \in Tasks, JobEnds(c), NEW d \in Tasks
  PROVE  JobOf(d)'
<1>1. PICK res \in {"ok", "err"} :
        /\ jobs' = [jobs EXCEPT ![c] = IF res = "ok" THEN "done" ELSE "failed"]
        /\ inbox' = Append(inbox, [job |-> c, res |-> res])
        /\ UNCHANGED <<pc, wake, outbox>>
  BY Zenon DEF JobEnds, taskVars
<1>2. inbox \in Seq(Messages) /\ jobs \in [Tasks -> {"none", "queued", "done", "failed"}]
      /\ jobs[c] = "queued" /\ JobOf(d)
  BY DEF Mail, JobEnds
<1>3. Len(inbox') = Len(inbox) + 1 /\ inbox'[Len(inbox) + 1] = [job |-> c, res |-> res]
      /\ \A i \in 1..Len(inbox') : (i \in 1..Len(inbox) /\ inbox'[i] = inbox[i]) \/ i = Len(inbox) + 1
  BY <1>1, <1>2
<1>4. ~Queued([job |-> c, res |-> res], d)
  BY DEF Queued
<1>5. Removed([job |-> c, res |-> res], d) => d = c /\ res = "ok"
  BY DEF Removed
<1>6. CASE d = c
  <2>1. jobs'[d] = (IF res = "ok" THEN "done" ELSE "failed") /\ jobs[d] = "queued"
    BY <1>1, <1>2, <1>6
  <2>2. \A i \in 1..Len(inbox') : Removed(inbox'[i], d) => jobs'[d] = "done"
    BY Zenon, <1>2, <1>3, <1>5, <2>1 DEF JobOf
  <2>3. QED
    BY Zenon, <1>1, <1>2, <2>1, <2>2 DEF JobOf
<1>7. CASE d # c
  <2>1. jobs'[d] = jobs[d]
    BY <1>1, <1>2, <1>7
  <2>2. \A i \in 1..Len(inbox') : (Queued(inbox'[i], d) \/ Removed(inbox'[i], d))
          => i \in 1..Len(inbox) /\ inbox'[i] = inbox[i]
    BY <1>3, <1>4, <1>5, <1>7
  <2>3. QED
    BY ZenonT(60), <1>1, <1>2, <2>1, <2>2 DEF JobOf
<1>8. QED
  BY <1>6, <1>7

\* A coroutine waiting for the reply to its StartTransientUnit, or for its job, is
\* woken with success by that reply, or that signal, only.
LEMMA LoopJobs ==
  ASSUME BusInv, Mail, \A d \in Tasks : JobOf(d), Dispatch \/ DispatchTimeout, NEW d \in Tasks
  PROVE  JobOf(d)'
<1>0. UNCHANGED <<pc, outbox, jobs>> /\ JobOf(d)
      /\ pc \in [Tasks -> Labels] /\ wake \in [Tasks -> {"none", "ok", "err", "cancel"}]
      /\ inbox \in Seq(Messages) /\ pending \subseteq Tasks \X (Calls \cup {"match"})
  BY Zenon DEF Dispatch, DispatchTimeout, DispatchReply, DispatchJobRemoved, DispatchClosing,
     DispatchDisconnected, BusInv, Types, Mail
<1>1. UNCHANGED inbox \/ (inbox # <<>> /\ inbox' = Tail(inbox))
  BY Zenon DEF Dispatch, DispatchTimeout, DispatchReply, DispatchJobRemoved, DispatchClosing,
     DispatchDisconnected
<1>2. \A i \in 1..Len(inbox') : \E j \in 1..Len(inbox) : inbox'[i] = inbox[j]
  <2>1. CASE UNCHANGED inbox
    BY <2>1
  <2>2. CASE inbox # <<>> /\ inbox' = Tail(inbox)
    <3>1. \A i \in 1..Len(inbox') : i + 1 \in 1..Len(inbox) /\ inbox'[i] = inbox[i + 1]
      BY <1>0, <2>2
    <3>2. QED
      BY <3>1
  <2>3. QED
    BY <1>1, <2>1, <2>2
<1>3. SUFFICES wake'[d] = "ok" =>
                 \/ wake[d] = "ok"
                 \/ pc[d] = "start" /\ jobs[d] # "none"
                 \/ pc[d] = "job" /\ jobs[d] = "done"
                 \/ pc[d] \notin {"start", "job"}
  BY ZenonT(60), <1>0, <1>2 DEF JobOf
<1>4. ASSUME NEW w \in pending, NEW res, Callback(w, res), wake'[d] = "ok", wake[d] # "ok"
      PROVE  w[1] = d /\ w = <<d, pc[d]>> /\ pc[d] # "job" /\ res = "ok"
  <2>1. w \in Tasks \X (Calls \cup {"match"}) /\ wake' = [wake EXCEPT ![w[1]] = res]
    BY <1>0, <1>4 DEF Callback, Wake
  <2>2. w[1] = d /\ res = "ok"
    BY <1>0, <1>4, <2>1
  <2>3. w = <<d, w[2]>> /\ w[2] \in Calls \cup {"match"} /\ w[2] \in Labels /\ w[2] # "job"
    BY <2>1, <2>2 DEF Labels, Waits, Calls
  <2>4. \A l \in Labels : <<d, l>> \in pending => pc[d] = l
    BY Zenon DEF BusInv, Exact
  <2>5. pc[d] = w[2]
    BY <1>4, <2>3, <2>4
  <2>6. QED
    BY <2>2, <2>3, <2>5
<1>5. inbox # <<>> => Head(inbox) = inbox[1] /\ 1 \in 1..Len(inbox)
  BY <1>0
<1>6. CASE DispatchReply
  <2>1. CASE Head(inbox).to \in pending
    <3>1. Callback(Head(inbox).to, Head(inbox).res) /\ inbox # <<>> /\ "to" \in DOMAIN Head(inbox)
      BY <1>6, <2>1 DEF DispatchReply
    <3>2. SUFFICES ASSUME wake'[d] = "ok", wake[d] # "ok", pc[d] = "start" PROVE jobs[d] # "none"
      BY <1>4, <2>1, <3>1
    <3>3. Head(inbox).to = <<d, "start">> /\ Head(inbox).res = "ok"
      BY <1>4, <2>1, <3>1, <3>2
    <3>4. Queued(inbox[1], d)
      BY <1>5, <3>1, <3>3 DEF Queued
    <3>5. QED
      BY <1>0, <1>5, <3>1, <3>4 DEF JobOf
  <2>2. CASE UNCHANGED wake
    BY <2>2
  <2>3. QED
    BY <1>6, <2>1, <2>2 DEF DispatchReply
<1>7. CASE DispatchJobRemoved
  <2>1. inbox # <<>> /\ "job" \in DOMAIN Head(inbox)
        /\ wake' = [c \in Tasks |-> IF arg[c].job_removed /\ arg[c].job_obj /\ c = Head(inbox).job
                                      THEN Head(inbox).res ELSE wake[c]]
    BY Zenon, <1>7 DEF DispatchJobRemoved, IsOwnJob
  <2>2. SUFFICES ASSUME arg[d].job_removed, arg[d].job_obj, d = Head(inbox).job, Head(inbox).res = "ok",
                        pc[d] \in {"start", "job"}
                 PROVE  pc[d] = "job" /\ jobs[d] = "done"
    BY <2>1
  <2>3. Removed(inbox[1], d)
    BY <1>5, <2>1, <2>2 DEF Removed
  <2>4. jobs[d] = "done"
    BY Zenon, <1>0, <1>5, <2>1, <2>3 DEF JobOf
  <2>5. pc[d] # "start"
    BY Zenon, <2>2 DEF BusInv, Exact, ArgAt
  <2>6. QED
    BY <2>2, <2>4, <2>5
<1>8. CASE DispatchClosing \/ DispatchTimeout
  <2>1. PICK w \in pending : Callback(w, "err")
    BY <1>8 DEF DispatchClosing, DispatchTimeout
  <2>2. QED
    BY <1>4, <2>1
<1>9. CASE DispatchDisconnected
  <2>1. wake' = [c \in Tasks |-> IF c \in {e \in Tasks : arg[e].disconnected} THEN "err" ELSE wake[c]]
    BY <1>9 DEF DispatchDisconnected
  <2>2. QED
    BY <2>1
<1>10. QED
  BY <1>6, <1>7, <1>8, <1>9 DEF Dispatch

\* start_transient_scope returns a scope only after its own job is done, for any
\* number of coroutines with jobs under way, and whatever fails or is interrupted:
\* JobRemoved signals of other jobs never end its wait with success
\* (sb_sd_wait_for_job_job_removed).
THEOREM BusJobs == Spec => []OwnJobDone
<1> DEFINE JobInv == \A c \in Tasks : JobOf(c)
<1>1. Init => JobInv
  BY DEF Init, JobOf, BeforeStart
<1>2. BusInv /\ Mail /\ JobInv /\ [Next]_vars => JobInv'
  <2> SUFFICES ASSUME BusInv, Mail, JobInv, [Next]_vars, NEW d \in Tasks PROVE JobOf(d)'
    OBVIOUS
  <2>1. CASE \E c \in Tasks : Run(c)
    BY <2>1, RunJobs
  <2>2. CASE \E c \in Tasks : JobEnds(c)
    BY <2>2, EndJobs
  <2>3. CASE Serve
    BY <2>3, ServeJobs
  <2>4. CASE Dispatch \/ DispatchTimeout
    BY <2>4, LoopJobs
  <2>5. ASSUME NEW c \in Tasks, Create(c) \/ SessionEnds(c) \/ Interrupt(c) PROVE JobOf(d)'
    <3>1. UNCHANGED <<inbox, outbox, jobs>> /\ JobOf(d)
          /\ pc \in [Tasks -> Labels] /\ wake \in [Tasks -> {"none", "ok", "err", "cancel"}]
      BY <2>5 DEF Create, SessionEnds, Interrupt, busVars, BusInv, Types
    <3>2. CASE Create(c)
      <4>1. \/ pc'[d] \in BeforeStart /\ pc[d] \in BeforeStart
            \/ pc'[d] = pc[d] /\ wake'[d] = wake[d]
        <5>1. pc[c] = "new" /\ pc' = [pc EXCEPT ![c] = "begin"] /\ wake' = [wake EXCEPT ![c] = "ok"]
          BY <3>2 DEF Create, Wake
        <5>2. CASE d = c
          <6>1. pc'[d] = "begin" /\ pc[d] = "new"
            BY <3>1, <5>1, <5>2
          <6>2. QED
            BY <6>1 DEF BeforeStart
        <5>3. CASE d # c
          BY <3>1, <5>1, <5>3
        <5>4. QED
          BY <5>2, <5>3
      <4>2. CASE pc'[d] \in BeforeStart /\ pc[d] \in BeforeStart
        BY Zenon, <3>1, <4>2 DEF JobOf, BeforeStart
      <4>3. CASE pc'[d] = pc[d] /\ wake'[d] = wake[d]
        BY Zenon, <3>1, <4>3 DEF JobOf
      <4>4. QED
        BY <4>1, <4>2, <4>3
    <3>3. CASE SessionEnds(c) \/ Interrupt(c)
      <4>1. pc'[d] = pc[d] /\ (wake'[d] = "ok" => wake[d] = "ok" \/ pc[d] = "session")
        BY <3>1, <3>3 DEF SessionEnds, Interrupt, Wake
      <4>2. QED
        BY Zenon, <3>1, <4>1 DEF JobOf
    <3>4. QED
      BY <2>5, <3>2, <3>3
  <2>6. CASE Disconnect
    BY <2>6 DEF Disconnect, taskVars, JobOf
  <2>7. CASE UNCHANGED vars \/ Over
    BY Zenon, <2>7 DEF Over, vars, taskVars, busVars, JobOf
  <2>8. QED
    BY <2>1, <2>2, <2>3, <2>4, <2>5, <2>6, <2>7 DEF Next
<1>3. JobInv => OwnJobDone
  BY DEF JobOf, OwnJobDone
<1>4. QED
  BY <1>1, <1>2, <1>3, BusExact, PTL DEF Spec
=============================================================================
