---------------------------- MODULE TcSetupProofs ----------------------------
(***************************************************************************)
(* TcSetup, for any interfaces in any state, any list of them in IFACES,   *)
(* any number of runs and any faults: a daemon that serves has limited     *)
(* every interface; start-up fails only for a cause; and the filters of    *)
(* others are kept unless something fails.                                 *)
(***************************************************************************)
EXTENDS TcSetup, SequenceTheorems, TLAPS

Answer == [seq : Nat, ok : BOOLEAN]

Types ==
  /\ dev \in [Devices -> Device]
  /\ pc \in Steps /\ run \in Nat /\ k \in Nat
  /\ attr \in [queues : Nat, kind : Kinds]
  /\ root_handle \in Nat /\ i \in Nat /\ nr_try \in Nat

\* An answer left on the socket is older than the next request.
Stale ==
  /\ seq \in Nat /\ answers \in Seq(Answer)
  /\ \A n \in 1..Len(answers) : answers[n].seq < seq

Working == {"props", "root", "mq", "child", "clsact", "clsact_del", "filter", "filter_del"}

\* Every queue of x has its fq qdisc.
Queued(x) ==
  IF x.queues = 1 THEN x.kind = "fq" ELSE x.kind = "mq" /\ 1..x.queues \subseteq x.fq

\* The interfaces before the current one are done; a name may be there twice.
Behind ==
  /\ k \in 1..Len(IfaceList)
  /\ \A j \in 1..Len(IfaceList) : j < k => IfaceList[j] = Cur \/ Limited(dev[IfaceList[j]])

\* How far the current interface is.
Progress ==
  /\ pc \in Working \ {"props"} => attr.queues = Here.queues
  /\ pc = "root" => attr.queues = 1 /\ attr.kind = Here.kind
  /\ pc \in {"mq", "child"} => attr.queues > 1
  /\ pc = "child" => Here.kind = "mq" /\ i >= 1 /\ \A q \in Nat : 1 <= q /\ q < i => q \in Here.fq
  /\ pc = "mq" => i = 1
  /\ pc \in {"clsact", "clsact_del", "filter", "filter_del"} => Queued(Here)
  /\ pc \in {"filter", "filter_del"} => Here.clsact = "clsact"

AllLimited == \A j \in 1..Len(IfaceList) : Limited(dev[IfaceList[j]])

SetupInv ==
  /\ Types
  /\ Stale
  /\ pc \in Working => Behind /\ Progress
  /\ pc \in {"after", "serving"} => AllLimited

-----------------------------------------------------------------------------
(* What rtnl_talk reports is what happened.                                *)

\* A request reported as done has been carried out, and one reported as failed may
\* have been; no answer is taken for that of another request.
LEMMA TalkHonest ==
  ASSUME Types, Stale, Cur \in Devices, NEW can \in BOOLEAN, NEW after \in Device, NEW rc,
         Talk(can, after, rc)
  PROVE  /\ dev' = dev \/ dev' = [dev EXCEPT ![Cur] = after]
         /\ rc = "ok" => can /\ dev' = [dev EXCEPT ![Cur] = after]
         /\ dev' \in [Devices -> Device]
         /\ Stale'
<1>0. /\ seq \in Nat /\ answers \in Seq(Answer) /\ Len(answers) \in Nat
      /\ \A n \in 1..Len(answers) : answers[n].seq \in Nat /\ answers[n].seq < seq
  <2>1. \A n \in 1..Len(answers) : answers[n] \in Answer
    BY DEF Stale
  <2>2. QED
    BY <2>1 DEF Stale, Answer
<1>1. CASE rc = "err" /\ UNCHANGED <<dev, answers>> /\ seq' = seq + 1
  <2>1. \A n \in 1..Len(answers) : answers[n].seq < seq + 1
    BY <1>0
  <2>2. Stale'
    BY <1>0, <1>1, <2>1 DEF Stale
  <2>3. QED
    BY <1>1, <2>2 DEF Types
<1>2. ASSUME NEW does \in BOOLEAN, NEW queue, queue = Append(answers, [seq |-> seq, ok |-> does]),
             seq' = seq + 1,
             dev' = IF does THEN [dev EXCEPT ![Cur] = after] ELSE dev,
             \/ rc = "err" /\ answers' \in {queue, Tail(queue)}
             \/ /\ rc = IF Matches(Head(queue)) /\ Head(queue).ok THEN "ok" ELSE "err"
                /\ answers' = Tail(queue)
      PROVE  /\ rc = "ok" => does
             /\ Stale'
  <2>1. [seq |-> seq, ok |-> does] \in Answer /\ seq \in Nat
    BY DEF Stale, Answer
  <2>2. queue \in Seq(Answer) /\ Len(queue) = Len(answers) + 1
        /\ \A n \in 1..Len(queue) : queue[n] = IF n <= Len(answers) THEN answers[n] ELSE [seq |-> seq, ok |-> does]
    BY <1>2, <2>1 DEF Stale
  <2>3. \A n \in 1..Len(queue) : queue[n].seq < seq + 1
    BY <1>0, <2>1, <2>2
  <2>4. Tail(queue) \in Seq(Answer) /\ Len(Tail(queue)) = Len(queue) - 1
        /\ \A n \in 1..Len(Tail(queue)) : Tail(queue)[n] = queue[n + 1]
    BY <2>2
  <2>5. Stale'
    <3>1. CASE answers' = queue
      BY <1>2, <2>1, <2>2, <2>3, <3>1 DEF Stale
    <3>2. CASE answers' = Tail(queue)
      <4>1. \A n \in 1..Len(Tail(queue)) : Tail(queue)[n].seq < seq + 1
        BY <1>0, <2>2, <2>3, <2>4
      <4>2. QED
        BY <1>2, <2>1, <2>4, <3>2, <4>1 DEF Stale
    <3>3. QED
      BY <1>2, <3>1, <3>2
  <2>6. ASSUME rc = "ok" PROVE does
    <3>1. Head(queue).seq = seq /\ Head(queue).ok
      BY <1>2, <2>6 DEF Matches
    <3>2. Head(queue) = queue[1] /\ 1 \in 1..Len(queue)
      BY <2>2 DEF Stale
    <3>3. Len(answers) = 0
      BY SMTT(30), <2>1, <2>2, <3>1, <3>2 DEF Stale, Answer
    <3>4. queue[1] = [seq |-> seq, ok |-> does]
      BY <2>2, <3>2, <3>3
    <3>5. QED
      BY <3>1, <3>2, <3>4
  <2>7. QED
    BY <2>5, <2>6
<1>3. CASE \E does \in {can} \cup (IF "refuse" \in Faults THEN {FALSE} ELSE {}) :
             LET queue == Append(answers, [seq |-> seq, ok |-> does]) IN
               /\ seq' = seq + 1
               /\ dev' = IF does THEN [dev EXCEPT ![Cur] = after] ELSE dev
               /\ \/ rc = "err" /\ answers' \in {queue, Tail(queue)}
                  \/ /\ rc = IF Matches(Head(queue)) /\ Head(queue).ok THEN "ok" ELSE "err"
                     /\ answers' = Tail(queue)
  <2>1. PICK does \in {can} \cup (IF "refuse" \in Faults THEN {FALSE} ELSE {}) :
             LET queue == Append(answers, [seq |-> seq, ok |-> does]) IN
               /\ seq' = seq + 1
               /\ dev' = IF does THEN [dev EXCEPT ![Cur] = after] ELSE dev
               /\ \/ rc = "err" /\ answers' \in {queue, Tail(queue)}
                  \/ /\ rc = IF Matches(Head(queue)) /\ Head(queue).ok THEN "ok" ELSE "err"
                     /\ answers' = Tail(queue)
    BY <1>3, Zenon
  <2>2. does \in BOOLEAN /\ (does => can)
    BY <2>1
  <2>3. (rc = "ok" => does) /\ Stale'
    BY <1>2, <2>1, <2>2
  <2>4. QED
    BY <2>1, <2>2, <2>3 DEF Types
<1>4. QED
  BY <1>1, <1>3 DEF Talk

-----------------------------------------------------------------------------
(* The steps of the set-up.                                                *)

\* A request about the current interface leaves the others alone.
LEMMA OthersStay ==
  ASSUME Types, Behind, NEW after, dev' = dev \/ dev' = [dev EXCEPT ![Cur] = after], UNCHANGED <<run, k>>
  PROVE  Behind' /\ Cur' = Cur
<1>1. Cur' = Cur
  BY DEF Cur
<1>2. ASSUME NEW j \in 1..Len(IfaceList), j < k, IfaceList[j] # Cur
      PROVE  Limited(dev[IfaceList[j]])'
  <2>1. Limited(dev[IfaceList[j]]) /\ IfaceList[j] \in Devices
    BY <1>2, ListAssumption DEF Behind
  <2>2. dev'[IfaceList[j]] = dev[IfaceList[j]]
    BY <1>2, <2>1 DEF Types
  <2>3. QED
    BY <2>1, <2>2 DEF Limited
<1>3. QED
  BY <1>1, <1>2 DEF Behind

\* What holds of the state of the current interface after a request.
LEMMA HereAfter ==
  ASSUME Types, Cur \in Devices, Cur' = Cur
  PROVE  /\ Here \in Device
         /\ dev' = dev => Here' = Here
         /\ \A x : dev' = [dev EXCEPT ![Cur] = x] => Here' = x
BY DEF Types, Here

\* The current interface is one.
LEMMA CurIs ==
  ASSUME Behind
  PROVE  Cur \in Devices
BY ListAssumption DEF Behind, Cur

\* The number of queues and the root's kind are read.
LEMMA PropsKeeps ==
  ASSUME SetupInv, GetProps
  PROVE  SetupInv'
<1>1. Types /\ Stale /\ Behind /\ pc = "props" /\ UNCHANGED <<run, k>> /\ i' = 1
  BY DEF GetProps, SetupInv, Working
<1>2. Cur \in Devices
  BY <1>1, CurIs
<1>3. Here \in Device
  BY <1>1, <1>2 DEF Types, Here
<1>4. PICK rc \in {"ok", "err"} :
        /\ Talk(TRUE, Here, rc)
        /\ IF rc = "ok" THEN attr' = [queues |-> Here.queues, kind |-> Here.kind]
           ELSE attr' = [queues |-> 0, kind |-> "other"]
        /\ pc' = IF attr'.queues = 0 THEN "failed" ELSE IF attr'.queues = 1 THEN "root" ELSE "mq"
  BY DEF GetProps
<1>5. (dev' = dev \/ dev' = [dev EXCEPT ![Cur] = Here]) /\ dev' \in [Devices -> Device] /\ Stale'
  BY <1>1, <1>2, <1>3, <1>4, TalkHonest
<1>6. Behind' /\ Cur' = Cur
  BY <1>1, <1>5, OthersStay
<1>7. Here' = Here
  BY <1>1, <1>2, <1>5, <1>6, HereAfter
<1>8. attr' \in [queues : Nat, kind : Kinds] /\ (attr'.queues # 0 => attr' = [queues |-> Here.queues, kind |-> Here.kind])
  BY <1>3, <1>4 DEF Device, Kinds
<1>9. Types'
  BY <1>1, <1>4, <1>5, <1>8 DEF Types, Steps, GetProps
<1>10. pc' \in {"failed", "root", "mq"}
  BY <1>4
<1>11. pc' \in Working => Progress'
  <2>1. CASE pc' = "failed"
    BY <2>1 DEF Working
  <2>2. CASE attr'.queues = 1 /\ pc' = "root"
    BY <1>1, <1>7, <1>8, <2>2 DEF Progress, Working
  <2>3. CASE attr'.queues # 0 /\ attr'.queues # 1 /\ pc' = "mq"
    <3>1. attr'.queues > 1
      BY <1>8, <2>3
    <3>2. QED
      BY <1>1, <1>7, <1>8, <2>3, <3>1 DEF Progress, Working
  <2>4. QED
    BY <1>4, <2>1, <2>2, <2>3
<1>12. QED
  BY <1>5, <1>6, <1>9, <1>10, <1>11 DEF SetupInv

\* fq at the root.
LEMMA RootKeeps ==
  ASSUME SetupInv, SetRoot
  PROVE  SetupInv'
<1> DEFINE new == [Here EXCEPT !.kind = "fq", !.handle = 0, !.used = {}]
<1>1. Types /\ Stale /\ Behind /\ Progress /\ pc = "root" /\ UNCHANGED <<run, k, attr, root_handle, i, nr_try>>
  BY DEF SetRoot, SetupInv, Working
<1>2. Cur \in Devices
  BY <1>1, CurIs
<1>3. Here \in Device /\ Here.queues = 1 /\ attr.queues = 1 /\ attr.kind = Here.kind
  BY <1>1, <1>2 DEF Types, Here, Progress, Working
<1>4. new \in Device /\ new.kind = "fq" /\ new.queues = 1
  BY <1>3 DEF Device, Kinds
<1> HIDE DEF new
<1>5. CASE attr.kind = "fq"
  <2>1. pc' = "clsact" /\ UNCHANGED <<dev, seq, answers>>
    BY <1>5 DEF SetRoot
  <2>2. Behind' /\ Cur' = Cur /\ Here' = Here
    BY <1>1, <1>2, <2>1, OthersStay, HereAfter
  <2>3. Types' /\ Stale'
    BY <1>1, <2>1 DEF Types, Stale, Steps
  <2>4. Progress'
    BY <1>1, <1>3, <1>5, <2>1, <2>2 DEF Progress, Queued, Working
  <2>5. QED
    BY <2>1, <2>2, <2>3, <2>4 DEF SetupInv
<1>6. CASE attr.kind # "fq"
  <2>1. PICK rc \in {"ok", "err"} : Talk(TRUE, new, rc) /\ pc' = IF rc = "ok" THEN "clsact" ELSE "failed"
    BY <1>6 DEF SetRoot, new
  <2>2. /\ dev' = dev \/ dev' = [dev EXCEPT ![Cur] = new]
        /\ rc = "ok" => dev' = [dev EXCEPT ![Cur] = new]
        /\ dev' \in [Devices -> Device] /\ Stale'
    BY <1>1, <1>2, <1>4, <2>1, TalkHonest
  <2>3. Behind' /\ Cur' = Cur
    BY <1>1, <2>2, OthersStay
  <2>4. Types'
    BY <1>1, <2>1, <2>2 DEF Types, Steps
  <2>5. pc' \in Working => pc' = "clsact" /\ Here' = new
    BY <1>1, <1>2, <2>1, <2>2, <2>3, HereAfter DEF Working
  <2>6. pc' \in Working => Progress'
    BY <1>1, <1>3, <1>4, <2>5 DEF Progress, Queued, Working
  <2>7. QED
    BY <2>1, <2>2, <2>3, <2>4, <2>6 DEF SetupInv
<1>7. QED
  BY <1>5, <1>6

\* A request about the current interface, all told.
LEMMA Asked ==
  ASSUME SetupInv, pc \in Working, NEW can \in BOOLEAN, NEW new, Here \in Device => new \in Device,
         NEW rc, Talk(can, new, rc), UNCHANGED <<run, k>>
  PROVE  /\ Here \in Device /\ Progress /\ Types
         /\ Behind' /\ Stale' /\ Cur' = Cur /\ Cur \in Devices
         /\ dev' = dev \/ dev' = [dev EXCEPT ![Cur] = new]
         /\ dev' \in [Devices -> Device]
         /\ Here' = Here \/ Here' = new
         /\ rc = "ok" => can /\ Here' = new
<1>1. Types /\ Stale /\ Behind /\ Progress /\ Cur \in Devices
  BY CurIs DEF SetupInv
<1>2. Here \in Device
  BY <1>1 DEF Types, Here
<1>3. /\ dev' = dev \/ dev' = [dev EXCEPT ![Cur] = new]
      /\ rc = "ok" => can /\ dev' = [dev EXCEPT ![Cur] = new]
      /\ dev' \in [Devices -> Device] /\ Stale'
  BY <1>1, <1>2, TalkHonest
<1>4. Behind' /\ Cur' = Cur
  BY <1>1, <1>3, OthersStay
<1>5. QED
  BY <1>1, <1>2, <1>3, <1>4, HereAfter

\* mq at the root.
LEMMA MqKeeps ==
  ASSUME SetupInv, SetMq
  PROVE  SetupInv'
<1> DEFINE new == NewRoot(Here, root_handle)
<1>1. pc = "mq" /\ pc \in Working /\ UNCHANGED <<run, k, attr, i, nr_try>>
  BY DEF SetMq, Working
<1>2. PICK rc \in {"ok", "err"} :
        /\ Talk(HandleFree(Here, root_handle), new, rc)
        /\ \/ rc = "ok" /\ pc' = "child" /\ UNCHANGED root_handle
           \/ rc = "err" /\ root_handle' = root_handle + 1
              /\ pc' = IF root_handle' > 2 THEN "failed" ELSE "mq"
  BY DEF SetMq
<1>3. Here \in Device => new \in Device /\ new.queues = Here.queues
  BY DEF NewRoot, Device, Kinds, SetupInv, Types
<1>4. HandleFree(Here, root_handle) \in BOOLEAN
  BY DEF HandleFree
<1>5. /\ Here \in Device /\ Progress /\ Types /\ Behind' /\ Stale'
      /\ dev' \in [Devices -> Device] /\ (Here' = Here \/ Here' = new)
      /\ (rc = "ok" => HandleFree(Here, root_handle) /\ Here' = new)
  BY <1>1, <1>2, <1>3, <1>4, Asked
<1>6. Types'
  BY <1>1, <1>2, <1>5 DEF Types, Steps
<1>7. attr.queues = Here.queues /\ attr.queues > 1 /\ i = 1 /\ Here'.queues = Here.queues
  BY <1>1, <1>3, <1>5 DEF Progress
<1>8. CASE rc = "err" /\ pc' \in {"failed", "mq"}
  <2>1. pc' \in Working => Progress'
    BY <1>1, <1>7, <1>8 DEF Progress, Working
  <2>2. QED
    BY <1>5, <1>6, <1>8, <2>1 DEF SetupInv
<1>9. CASE rc = "ok" /\ pc' = "child"
  <2>1. new.kind = "mq"
    BY <1>5, <1>9 DEF NewRoot, HandleFree, Device
  <2>2. Progress'
    BY <1>1, <1>5, <1>7, <1>9, <2>1 DEF Progress, Working
  <2>3. QED
    BY <1>5, <1>6, <1>9, <2>2 DEF SetupInv
<1>10. QED
  BY <1>2, <1>8, <1>9

\* fq at queue i.
LEMMA ChildKeeps ==
  ASSUME SetupInv, SetChild
  PROVE  SetupInv'
<1> DEFINE new == [Here EXCEPT !.fq = @ \cup {i}]
           can == i + root_handle \notin Here.used
<1>1. pc = "child" /\ pc \in Working /\ UNCHANGED <<run, k, attr, root_handle, nr_try>> /\ i' = i + 1 /\ i \in Nat
  BY DEF SetChild, Working, SetupInv, Types
<1>2. PICK rc \in {"ok", "err"} :
        /\ Talk(can, new, rc)
        /\ pc' = IF rc = "err" THEN "failed" ELSE IF LastQueue THEN "clsact" ELSE "child"
  BY DEF SetChild
<1>3. Here \in Device => new \in Device /\ new.queues = Here.queues /\ new.kind = Here.kind
                          /\ \A q : q \in Here.fq \/ q = i => q \in new.fq
  BY <1>1 DEF Device, Kinds
<1>4. can \in BOOLEAN
  OBVIOUS
<1> HIDE DEF new, can
<1>5. /\ Here \in Device /\ Progress /\ Types /\ Behind' /\ Stale'
      /\ dev' \in [Devices -> Device] /\ (rc = "ok" => Here' = new)
  BY SMTT(30), <1>1, <1>2, <1>3, <1>4, Asked
<1>6. Types'
  BY <1>1, <1>2, <1>5 DEF Types, Steps
<1>7. /\ attr.queues = Here.queues /\ attr.queues > 1 /\ Here.kind = "mq" /\ i >= 1
      /\ \A q \in Nat : 1 <= q /\ q < i => q \in Here.fq
  BY <1>1, <1>5 DEF Progress, Working
<1>8. \A q \in Nat : 1 <= q /\ q < i + 1 => q \in new.fq
  BY <1>1, <1>3, <1>5, <1>7
<1>9. CASE pc' = "failed"
  BY <1>5, <1>6, <1>9 DEF SetupInv, Working
<1>10. CASE rc = "ok" /\ pc' = "child"
  <2>1. Progress'
    BY <1>1, <1>3, <1>5, <1>7, <1>8, <1>10 DEF Progress, Working
  <2>2. QED
    BY <1>5, <1>6, <1>10, <2>1 DEF SetupInv
<1>11. CASE rc = "ok" /\ LastQueue /\ pc' = "clsact"
  <2>1. Here' = new /\ new.queues = attr.queues /\ new.kind = "mq" /\ attr.queues \in Nat
    BY <1>3, <1>5, <1>7, <1>11 DEF Types
  <2>2. Queued(new)
    <3>1. 1..new.queues \subseteq new.fq
      BY <1>1, <1>8, <1>11, <2>1 DEF LastQueue
    <3>2. QED
      BY <1>7, <2>1, <3>1 DEF Queued
  <2>3. Progress'
    BY <1>1, <1>11, <2>1, <2>2 DEF Progress, Working
  <2>4. QED
    BY <1>5, <1>6, <1>11, <2>3 DEF SetupInv
<1>12. QED
  BY <1>2, <1>9, <1>10, <1>11

\* The clsact qdisc, and its deletion.
LEMMA ClsactKeeps ==
  ASSUME SetupInv, SetClsact \/ DelClsact
  PROVE  SetupInv'
<1>1. pc \in {"clsact", "clsact_del"} /\ pc \in Working /\ UNCHANGED <<run, k, attr, root_handle, i>>
      /\ nr_try' \in Nat
  BY DEF SetClsact, DelClsact, Working, SetupInv, Types
<1>2. ASSUME NEW can \in BOOLEAN, NEW new, NEW rc, Talk(can, new, rc),
             Here \in Device => /\ new \in Device /\ new.queues = Here.queues
                                /\ new.kind = Here.kind /\ new.fq = Here.fq,
             pc' \in {"clsact", "clsact_del", "filter", "failed"},
             pc' = "filter" => rc = "ok" /\ new.clsact = "clsact"
      PROVE  SetupInv'
  <2>1. /\ Here \in Device /\ Progress /\ Types /\ Behind' /\ Stale'
        /\ dev' \in [Devices -> Device] /\ (Here' = Here \/ Here' = new) /\ (rc = "ok" => Here' = new)
    BY <1>1, <1>2, Asked
  <2>2. Types'
    BY <1>1, <1>2, <2>1 DEF Types, Steps
  <2>3. attr.queues = Here.queues /\ Queued(Here)
    BY <1>1, <2>1 DEF Progress, Working
  <2>4. Here'.queues = Here.queues /\ Queued(Here')
    BY <1>2, <2>1, <2>3 DEF Queued
  <2>5. pc' \in Working => Progress'
    BY <1>1, <1>2, <2>1, <2>3, <2>4 DEF Progress, Working
  <2>6. QED
    BY <1>2, <2>1, <2>2, <2>5 DEF SetupInv
<1>3. CASE SetClsact
  <2> DEFINE new == [Here EXCEPT !.clsact = "clsact"]
  <2>1. PICK rc \in {"ok", "err"} :
          /\ Talk(ClsactFits(Here), new, rc)
          /\ pc' = IF rc = "ok" THEN "filter" ELSE Again("clsact_del")
    BY <1>3 DEF SetClsact
  <2>2. Here \in Device => /\ new \in Device /\ new.queues = Here.queues
                           /\ new.kind = Here.kind /\ new.fq = Here.fq /\ new.clsact = "clsact"
    BY DEF Device
  <2>3. ClsactFits(Here) \in BOOLEAN /\ pc' \in {"clsact", "clsact_del", "filter", "failed"}
        /\ (pc' = "filter" => rc = "ok")
    BY <2>1 DEF ClsactFits, Again
  <2>4. Here \in Device
    BY <1>1, CurIs DEF SetupInv, Types, Here
  <2> HIDE DEF new
  <2>5. QED
    BY <1>2, <2>1, <2>2, <2>3, <2>4
<1>4. CASE DelClsact
  <2> DEFINE new == [Here EXCEPT !.clsact = "none", !.filter = 0, !.foreign = FALSE, !.others = FALSE]
  <2>1. PICK rc \in {"ok", "err"} :
          /\ Talk(Here.clsact # "none", new, rc)
          /\ pc' = IF rc = "ok" THEN "clsact" ELSE "failed"
    BY <1>4 DEF DelClsact
  <2>2. Here \in Device => /\ new \in Device /\ new.queues = Here.queues
                           /\ new.kind = Here.kind /\ new.fq = Here.fq
    BY DEF Device
  <2>3. (Here.clsact # "none") \in BOOLEAN /\ pc' \in {"clsact", "failed"}
    BY <2>1
  <2> HIDE DEF new
  <2>4. QED
    BY <1>2, <2>1, <2>2, <2>3
<1>5. QED
  BY <1>3, <1>4

\* The filter, its deletion, and the way to the next interface.
LEMMA FilterKeeps ==
  ASSUME SetupInv, SetFilter \/ DelFilter
  PROVE  SetupInv'
<1>1. pc \in {"filter", "filter_del"} /\ pc \in Working /\ UNCHANGED <<run, attr, root_handle, i>>
      /\ nr_try' \in Nat /\ run \in Nat /\ Here \in Device /\ k \in Nat
  BY CurIs DEF SetFilter, DelFilter, Working, SetupInv, Types, Here
<1>2. ASSUME NEW can \in BOOLEAN, NEW new \in Device, NEW rc, Talk(can, new, rc), UNCHANGED k,
             new.queues = Here.queues, new.kind = Here.kind, new.fq = Here.fq, new.clsact = Here.clsact,
             pc' \in {"filter", "filter_del", "failed"}
      PROVE  SetupInv'
  <2>1. /\ Progress /\ Types /\ Behind' /\ Stale'
        /\ dev' \in [Devices -> Device] /\ (Here' = Here \/ Here' = new)
    BY <1>1, <1>2, Asked
  <2>2. Types'
    BY <1>1, <1>2, <2>1 DEF Types, Steps
  <2>3. attr.queues = Here.queues /\ Queued(Here) /\ Here.clsact = "clsact"
    BY <1>1, <2>1 DEF Progress, Working
  <2>4. Here'.queues = Here.queues /\ Queued(Here') /\ Here'.clsact = "clsact"
    BY <1>2, <2>1, <2>3 DEF Queued
  <2>5. pc' \in Working => Progress'
    BY <1>1, <1>2, <2>3, <2>4 DEF Progress, Working
  <2>6. QED
    BY <1>2, <2>1, <2>2, <2>5 DEF SetupInv
<1>3. CASE DelFilter
  <2> DEFINE new == [Here EXCEPT !.filter = 0, !.foreign = FALSE]
  <2>1. PICK rc \in {"ok", "err"} :
          /\ Talk(Here.foreign \/ Here.filter # 0, new, rc)
          /\ pc' = IF rc = "ok" THEN "filter" ELSE "failed"
    BY <1>3 DEF DelFilter
  <2>2. /\ new \in Device /\ new.queues = Here.queues
        /\ new.kind = Here.kind /\ new.fq = Here.fq /\ new.clsact = Here.clsact
    BY <1>1 DEF Device
  <2>3. (Here.foreign \/ Here.filter # 0) \in BOOLEAN /\ pc' \in {"filter", "filter_del", "failed"} /\ UNCHANGED k
    BY <1>3, <2>1 DEF DelFilter
  <2> HIDE DEF new
  <2>4. QED
    BY <1>2, <2>1, <2>2, <2>3
<1>4. CASE SetFilter
  <2> DEFINE new == [Here EXCEPT !.filter = run]
             can == FilterFits(Here)
  <2>1. PICK rc \in {"ok", "err"} :
          /\ Talk(can, new, rc)
          /\ \/ rc = "ok" /\ NextIface
             \/ rc = "err" /\ UNCHANGED k /\ pc' = Again("filter_del")
    BY <1>4 DEF SetFilter
  <2>2. /\ new \in Device /\ new.queues = Here.queues /\ new.filter = run
        /\ new.kind = Here.kind /\ new.fq = Here.fq /\ new.clsact = Here.clsact
    BY <1>1 DEF Device
  <2>3. can \in BOOLEAN
    BY DEF FilterFits
  <2> HIDE DEF new, can
  <2>4. CASE rc = "err" /\ UNCHANGED k /\ pc' = Again("filter_del")
    BY <1>2, <2>1, <2>2, <2>3, <2>4 DEF Again
  <2>5. CASE rc = "ok" /\ NextIface
    <3>1. Types /\ Stale /\ Behind /\ Progress /\ Cur \in Devices
      BY <1>1, CurIs DEF SetupInv
    <3>2. dev' = [dev EXCEPT ![Cur] = new] /\ dev' \in [Devices -> Device] /\ Stale'
      BY <2>1, <2>2, <2>3, <2>5, <3>1, TalkHonest
    <3>3. Limited(new)
      BY <1>1, <2>2, <3>1 DEF Progress, Working, Limited, Queued
    <3>4. ASSUME NEW j \in 1..Len(IfaceList), j <= k PROVE Limited(dev[IfaceList[j]])'
      <4>1. IfaceList[j] \in Devices
        BY <3>4, ListAssumption
      <4>2. CASE IfaceList[j] = Cur
        <5>1. dev'[IfaceList[j]] = new
          BY <3>1, <3>2, <4>2 DEF Types
        <5>2. QED
          BY <1>1, <3>3, <5>1 DEF Limited
      <4>3. CASE IfaceList[j] # Cur
        <5>1. dev'[IfaceList[j]] = dev[IfaceList[j]]
          BY <3>2, <4>1, <4>3 DEF Types
        <5>2. j < k
          BY <1>1, <3>4, <4>3 DEF Cur
        <5>3. Limited(dev[IfaceList[j]])
          BY <3>1, <4>3, <5>2 DEF Behind
        <5>4. QED
          BY <1>1, <5>1, <5>3 DEF Limited
      <4>4. QED
        BY <4>2, <4>3
    <3>5. Types'
      BY <1>1, <2>5, <3>1, <3>2 DEF Types, Steps, NextIface
    <3>6. k \in 1..Len(IfaceList)
      BY <3>1 DEF Behind
    <3>7. CASE k < Len(IfaceList) /\ k' = k + 1 /\ pc' = "props"
      <4>1. Behind'
        BY <3>4, <3>6, <3>7, ListAssumption DEF Behind
      <4>2. Progress'
        BY <3>7 DEF Progress, Working
      <4>3. QED
        BY <3>2, <3>5, <3>7, <4>1, <4>2 DEF SetupInv
    <3>8. CASE ~(k < Len(IfaceList)) /\ UNCHANGED k /\ pc' = "after"
      <4>1. AllLimited'
        BY <3>4, <3>6, <3>8, ListAssumption DEF AllLimited
      <4>2. QED
        BY <3>2, <3>5, <3>8, <4>1 DEF SetupInv, Working
    <3>9. QED
      BY <2>5, <3>7, <3>8 DEF NextIface
  <2>6. QED
    BY <2>1, <2>4, <2>5
<1>5. QED
  BY <1>3, <1>4

-----------------------------------------------------------------------------
(* main(), and the theorem.                                                *)

\* Starting, stopping and the steps around the set-up.
LEMMA MainKeeps ==
  ASSUME SetupInv, Start \/ Boot \/ Open \/ GiveUp \/ Listen \/ Stop \/ Over
  PROVE  SetupInv'
<1>1. CASE Start \/ Boot \/ GiveUp \/ Stop
  <2>1. pc' \in {"boot", "open", "failed", "down"} /\ UNCHANGED <<dev, k, attr, root_handle, i, nr_try, seq, answers>>
        /\ run' \in Nat
    BY <1>1 DEF Start, Boot, GiveUp, Stop, Step, SetupInv, Types
  <2>2. QED
    BY <2>1 DEF SetupInv, Types, Stale, Steps, Working
<1>2. CASE Open
  <2>1. /\ pc' = "failed" \/ pc' = (IF IfaceList = <<>> THEN "after" ELSE "props")
        /\ UNCHANGED <<dev, run, attr, root_handle, i, nr_try>>
        /\ k' = 1 /\ seq' = 0 /\ answers' = <<>>
    BY <1>2 DEF Open, Step
  <2>2. Types' /\ Stale'
    BY <2>1 DEF SetupInv, Types, Stale, Steps
  <2>3. pc' = "after" => AllLimited'
    BY <2>1 DEF AllLimited
  <2>4. ASSUME pc' = "props" PROVE Behind' /\ Progress'
    <3>1. 1 \in 1..Len(IfaceList)
      BY <2>1, <2>4, ListAssumption, EmptySeq
    <3>2. QED
      BY <2>1, <2>4, <3>1 DEF Behind, Progress, Working
  <2>5. QED
    BY <2>1, <2>2, <2>3, <2>4 DEF SetupInv, Working
<1>3. CASE Listen
  <2>1. pc = "after" /\ pc' \in {"serving", "failed"}
        /\ UNCHANGED <<dev, run, k, attr, root_handle, i, nr_try, seq, answers>>
    BY <1>3 DEF Listen, Step
  <2>2. AllLimited'
    BY <2>1 DEF SetupInv, AllLimited, Limited
  <2>3. QED
    BY <2>1, <2>2 DEF SetupInv, Types, Stale, Steps, Working
<1>4. CASE Over
  BY <1>4 DEF Over, vars, SetupInv, Types, Stale, Behind, Progress, AllLimited, Limited, Cur, Here
<1>5. QED
  BY <1>1, <1>2, <1>3, <1>4

\* SetupInv holds at every step.
LEMMA SetupHolds == Spec => []SetupInv
<1>1. Init => SetupInv
  <2> SUFFICES ASSUME Init PROVE SetupInv
    OBVIOUS
  <2>1. dev \in [Devices -> Device]
    BY InitAssumption DEF Init
  <2>2. QED
    BY <2>1 DEF Init, SetupInv, Types, Stale, Steps, Kinds, Working, Answer
<1>2. SetupInv /\ [Next]_vars => SetupInv'
  <2> SUFFICES ASSUME SetupInv, [Next]_vars PROVE SetupInv'
    OBVIOUS
  <2>1. CASE Next
    BY <2>1, MainKeeps, PropsKeeps, RootKeeps, MqKeeps, ChildKeeps, ClsactKeeps, FilterKeeps DEF Next, Setup
  <2>2. CASE UNCHANGED vars
    BY <2>2 DEF vars, SetupInv, Types, Stale, Behind, Progress, AllLimited, Limited, Cur, Here
  <2>3. QED
    BY <2>1, <2>2
<1>3. QED
  BY <1>1, <1>2, PTL DEF Spec

\* Whatever state the interfaces are in at first, whatever fails and however often the
\* daemon is stopped half-way and started again: once it takes clients, every
\* interface in IFACES is paced by this run's program.
THEOREM SetupComplete == Spec => []ServingLimited
<1>1. SetupInv => ServingLimited
  BY DEF SetupInv, ServingLimited, AllLimited
<1>2. QED
  BY <1>1, SetupHolds, PTL

-----------------------------------------------------------------------------
(* Start-up fails only for a cause, and keeps the filters of others.       *)

\* While nothing has failed in this run: no answer is left over, each request is
\* made with its retry to come, or after the deletion that makes it fit; and the
\* second handle is tried because the first is taken.
Smooth ==
  /\ answers = <<>>
  /\ pc \in {"root", "mq", "child"} => nr_try = 0
  /\ pc = "mq" => root_handle = 1 \/ (root_handle = 2 /\ ~HandleFree(Here, 1))
  /\ pc = "clsact" => nr_try = 0 \/ Here.clsact # "ingress"
  /\ pc = "clsact_del" => Here.clsact = "ingress"
  /\ pc = "filter" => nr_try = 0 \/ ~Here.foreign
  /\ pc = "filter_del" => Here.foreign

CauseInv ==
  /\ faulted \in BOOLEAN
  /\ pc \in Working /\ ~faulted => Smooth
  /\ FailsForCause

\* As long as nothing fails and no answer is left over, what rtnl_talk reports is
\* whether the request could be served.
LEMMA TalkFaultless ==
  ASSUME seq \in Nat, faulted \in BOOLEAN, NEW can \in BOOLEAN, NEW after, NEW rc, Talk(can, after, rc)
  PROVE  /\ faulted' \in BOOLEAN /\ (faulted => faulted')
         /\ ~faulted' /\ answers = <<>> =>
              /\ answers' = <<>> /\ (rc = "ok" <=> can)
              /\ dev' = IF can THEN [dev EXCEPT ![Cur] = after] ELSE dev
<1>1. CASE faulted' = TRUE
  BY <1>1
<1>2. ASSUME NEW does \in {can} \cup (IF "refuse" \in Faults THEN {FALSE} ELSE {}),
             LET queue == Append(answers, [seq |-> seq, ok |-> does]) IN
               /\ dev' = IF does THEN [dev EXCEPT ![Cur] = after] ELSE dev
               /\ rc = IF Matches(Head(queue)) /\ Head(queue).ok THEN "ok" ELSE "err"
               /\ faulted' = (faulted \/ (can /\ ~does))
               /\ answers' = Tail(queue)
      PROVE  /\ faulted' \in BOOLEAN /\ (faulted => faulted')
             /\ ~faulted' /\ answers = <<>> =>
                  /\ answers' = <<>> /\ (rc = "ok" <=> can)
                  /\ dev' = IF can THEN [dev EXCEPT ![Cur] = after] ELSE dev
  <2>1. does \in BOOLEAN /\ (does => can)
    BY <1>2
  <2>2. faulted' \in BOOLEAN /\ (faulted => faulted') /\ (~faulted' => (does <=> can))
    BY <1>2, <2>1
  <2>3. ASSUME answers = <<>>, ~faulted' PROVE answers' = <<>> /\ (rc = "ok" <=> can)
    <3> DEFINE msg == [seq |-> seq, ok |-> does]
    <3>1. Append(answers, msg) = <<msg>>
      BY <2>3
    <3>2. Head(<<msg>>) = msg /\ Tail(<<msg>>) = <<>> /\ msg.seq = seq /\ msg.ok = does
      OBVIOUS
    <3>3. answers' = <<>>
      BY <1>2, <3>1, <3>2
    <3>4. rc = IF does THEN "ok" ELSE "err"
      BY <1>2, <3>1, <3>2 DEF Matches
    <3> QED BY <2>2, <2>3, <3>3, <3>4
  <2>4. ~faulted' => dev' = IF can THEN [dev EXCEPT ![Cur] = after] ELSE dev
    BY <1>2, <2>2
  <2> QED BY <2>2, <2>3, <2>4
<1> QED BY <1>1, <1>2, Zenon DEF Talk

\* A request about the current interface in a run in which nothing has failed.
LEMMA AskedSmoothly ==
  ASSUME SetupInv, CauseInv, pc \in Working, NEW can \in BOOLEAN, NEW new, NEW rc, Talk(can, new, rc),
         UNCHANGED <<run, k>>
  PROVE  /\ faulted' \in BOOLEAN /\ Here \in Device
         /\ ~faulted' => /\ ~faulted /\ Smooth /\ Progress
                         /\ answers' = <<>> /\ (rc = "ok" <=> can)
                         /\ Here' = IF can THEN new ELSE Here
<1>1. Types /\ Stale /\ Behind /\ Progress /\ Cur \in Devices /\ faulted \in BOOLEAN /\ seq \in Nat
  BY CurIs DEF SetupInv, CauseInv, Stale
<1>2. Here \in Device /\ Cur' = Cur
  BY <1>1 DEF Types, Here, Cur
<1>3. /\ faulted' \in BOOLEAN /\ (faulted => faulted')
      /\ ~faulted' /\ answers = <<>> =>
           /\ answers' = <<>> /\ (rc = "ok" <=> can)
           /\ dev' = IF can THEN [dev EXCEPT ![Cur] = new] ELSE dev
  BY <1>1, TalkFaultless
<1>4. ASSUME ~faulted' PROVE ~faulted /\ Smooth /\ answers = <<>>
  BY <1>3, <1>4 DEF CauseInv, Smooth
<1>5. ASSUME ~faulted' PROVE Here' = IF can THEN new ELSE Here
  BY <1>1, <1>2, <1>3, <1>4, <1>5, HereAfter
<1> QED BY <1>1, <1>2, <1>3, <1>4, <1>5

\* Of the two handles one is free, if no foreign qdisc is below the root.
LEMMA OneHandleFree ==
  ASSUME NEW x \in Device, x.used = {}
  PROVE  HandleFree(x, 1) \/ HandleFree(x, 2)
BY DEF HandleFree, Device

\* What the set-up does next, if nothing has failed and none of its requests does.
LEMMA SetupCause ==
  ASSUME SetupInv, CauseInv, Setup
  PROVE  CauseInv'
<1>1. ASSUME faulted' = TRUE PROVE CauseInv'
  BY <1>1 DEF CauseInv, FailsForCause
<1>2. CASE GiveUp
  BY <1>1, <1>2 DEF GiveUp
<1>3. ASSUME NEW can \in BOOLEAN, NEW new, NEW rc, pc \in Working, Talk(can, new, rc), UNCHANGED <<run, k>>,
             ASSUME faulted' \in BOOLEAN, ~faulted, ~faulted', Smooth, Progress, answers' = <<>>, rc = "ok" <=> can,
                    Here' = IF can THEN new ELSE Here, Here \in Device
             PROVE  (pc' \in Working => Smooth') /\ FailsForCause'
      PROVE  CauseInv'
  <2>1. /\ faulted' \in BOOLEAN /\ Here \in Device
        /\ ~faulted' => /\ ~faulted /\ Smooth /\ Progress
                        /\ answers' = <<>> /\ (rc = "ok" <=> can)
                        /\ Here' = IF can THEN new ELSE Here
    BY <1>3, AskedSmoothly
  <2>2. CASE ~faulted'
    BY <1>3, <2>1, <2>2 DEF CauseInv
  <2> QED BY <1>1, <2>1, <2>2
<1>4. CASE GetProps
  <2>1. PICK rc \in {"ok", "err"} :
          /\ Talk(TRUE, Here, rc)
          /\ IF rc = "ok" THEN attr' = [queues |-> Here.queues, kind |-> Here.kind]
             ELSE attr' = [queues |-> 0, kind |-> "other"]
          /\ pc' = IF attr'.queues = 0 THEN "failed" ELSE IF attr'.queues = 1 THEN "root" ELSE "mq"
    BY <1>4 DEF GetProps
  <2>2. pc \in Working /\ UNCHANGED <<run, k>> /\ nr_try' = 0 /\ root_handle' = 1
    BY <1>4 DEF GetProps, Working
  <2>3. ASSUME ~faulted', answers' = <<>>, rc = "ok", Here' = Here, Here \in Device
        PROVE  (pc' \in Working => Smooth') /\ FailsForCause'
    <3>1. attr'.queues = Here.queues
      BY <2>1, <2>3
    <3> QED BY <2>1, <2>2, <2>3, <3>1 DEF Smooth, FailsForCause
  <2> QED BY <1>3, <2>1, <2>2, <2>3
<1>5. CASE SetRoot
  <2>1. pc = "root" /\ pc \in Working /\ UNCHANGED <<run, k, nr_try>>
    BY <1>5 DEF SetRoot, Working
  <2>2. CASE attr.kind = "fq"
    <3>1. pc' = "clsact" /\ UNCHANGED <<dev, answers, faulted>>
      BY <1>5, <2>2 DEF SetRoot
    <3> QED BY <2>1, <3>1 DEF CauseInv, Smooth, FailsForCause
  <2>3. CASE attr.kind # "fq"
    <3> DEFINE new == [Here EXCEPT !.kind = "fq", !.handle = 0, !.used = {}]
    <3>1. PICK rc \in {"ok", "err"} : Talk(TRUE, new, rc) /\ pc' = IF rc = "ok" THEN "clsact" ELSE "failed"
      BY <1>5, <2>3 DEF SetRoot
    <3> HIDE DEF new
    <3>2. ASSUME Smooth, answers' = <<>>, rc = "ok"
          PROVE  (pc' \in Working => Smooth') /\ FailsForCause'
      BY <2>1, <3>1, <3>2 DEF Smooth, FailsForCause
    <3> QED BY <1>3, <2>1, <3>1, <3>2
  <2> QED BY <2>2, <2>3
<1>6. CASE SetMq
  <2> DEFINE can == HandleFree(Here, root_handle)
             new == NewRoot(Here, root_handle)
  <2>1. pc = "mq" /\ pc \in Working /\ UNCHANGED <<run, k, nr_try>>
    BY <1>6 DEF SetMq, Working
  <2>2. PICK rc \in {"ok", "err"} :
          /\ Talk(can, new, rc)
          /\ \/ rc = "ok" /\ pc' = "child" /\ UNCHANGED root_handle
             \/ rc = "err" /\ root_handle' = root_handle + 1
                /\ pc' = IF root_handle' > 2 THEN "failed" ELSE "mq"
    BY <1>6 DEF SetMq
  <2>3. can \in BOOLEAN
    BY DEF HandleFree
  <2>4. ASSUME Smooth, answers' = <<>>, rc = "ok" <=> can, Here' = IF can THEN new ELSE Here, Here \in Device
        PROVE  (pc' \in Working => Smooth') /\ FailsForCause'
    <3>1. nr_try' = 0 /\ (root_handle = 1 \/ (root_handle = 2 /\ ~HandleFree(Here, 1)))
      BY <2>1, <2>4 DEF Smooth
    <3>2. CASE rc = "ok"
      BY <2>2, <2>4, <3>1, <3>2 DEF Smooth, FailsForCause
    <3>3. CASE rc = "err" /\ root_handle = 1
      <4>1. pc' = "mq" /\ root_handle' = 2 /\ Here' = Here /\ ~HandleFree(Here, 1)
        BY <2>2, <2>4, <3>3
      <4> QED BY <2>4, <3>1, <4>1 DEF Smooth, FailsForCause
    <3>4. CASE rc = "err" /\ root_handle = 2
      <4>1. pc' = "failed" /\ Here' = Here /\ ~HandleFree(Here, 1) /\ ~HandleFree(Here, 2)
        BY <2>2, <2>4, <3>1, <3>4
      <4>2. Here.used # {}
        BY <2>4, <4>1, OneHandleFree
      <4> QED BY <4>1, <4>2 DEF FailsForCause, Working
    <3> QED BY <3>1, <3>2, <3>3, <3>4
  <2> HIDE DEF can, new
  <2> QED BY <1>3, <2>1, <2>2, <2>3, <2>4
<1>7. CASE SetChild
  <2> DEFINE can == i + root_handle \notin Here.used
             new == [Here EXCEPT !.fq = @ \cup {i}]
  <2>1. pc = "child" /\ pc \in Working /\ UNCHANGED <<run, k, nr_try>>
    BY <1>7 DEF SetChild, Working
  <2>2. PICK rc \in {"ok", "err"} :
          /\ Talk(can, new, rc)
          /\ pc' = IF rc = "err" THEN "failed" ELSE IF LastQueue THEN "clsact" ELSE "child"
    BY <1>7 DEF SetChild
  <2>3. can \in BOOLEAN /\ (~can => Here.used # {})
    OBVIOUS
  <2> HIDE DEF can, new
  <2>4. ASSUME Smooth, answers' = <<>>, rc = "ok" <=> can, Here' = IF can THEN new ELSE Here
        PROVE  (pc' \in Working => Smooth') /\ FailsForCause'
    <3>1. CASE rc = "ok"
      BY <2>1, <2>2, <2>4, <3>1 DEF Smooth, FailsForCause
    <3>2. CASE rc = "err"
      BY <2>2, <2>3, <2>4, <3>2 DEF FailsForCause, Working
    <3> QED BY <3>1, <3>2
  <2> QED BY <1>3, <2>1, <2>2, <2>3, <2>4
<1>8. CASE SetClsact
  <2> DEFINE can == ClsactFits(Here)
             new == [Here EXCEPT !.clsact = "clsact"]
  <2>1. pc = "clsact" /\ pc \in Working /\ UNCHANGED <<run, k>> /\ nr_try \in Nat
    BY <1>8 DEF SetClsact, Working, SetupInv, Types
  <2>2. PICK rc \in {"ok", "err"} :
          /\ Talk(can, new, rc)
          /\ pc' = IF rc = "ok" THEN "filter" ELSE Again("clsact_del")
          /\ nr_try' = IF rc = "ok" THEN 0 ELSE nr_try
    BY <1>8 DEF SetClsact
  <2>3. can \in BOOLEAN /\ (~can => Here.clsact = "ingress")
    BY DEF ClsactFits
  <2> HIDE DEF can, new
  <2>4. ASSUME Smooth, answers' = <<>>, rc = "ok" <=> can, Here' = IF can THEN new ELSE Here
        PROVE  (pc' \in Working => Smooth') /\ FailsForCause'
    <3>1. CASE rc = "ok"
      BY <2>2, <2>4, <3>1 DEF Smooth, FailsForCause
    <3>2. CASE rc = "err"
      <4>1. nr_try = 0 /\ Here.clsact = "ingress" /\ Here' = Here
        BY <2>1, <2>3, <2>4, <3>2 DEF Smooth
      <4>2. pc' = "clsact_del"
        BY <2>2, <3>2, <4>1 DEF Again
      <4> QED BY <2>4, <4>1, <4>2 DEF Smooth, FailsForCause
    <3> QED BY <3>1, <3>2
  <2> QED BY <1>3, <2>1, <2>2, <2>3, <2>4
<1>9. CASE DelClsact
  <2> DEFINE can == Here.clsact # "none"
             new == [Here EXCEPT !.clsact = "none", !.filter = 0, !.foreign = FALSE, !.others = FALSE]
  <2>1. pc = "clsact_del" /\ pc \in Working /\ UNCHANGED <<run, k>>
    BY <1>9 DEF DelClsact, Working
  <2>2. PICK rc \in {"ok", "err"} : Talk(can, new, rc) /\ pc' = IF rc = "ok" THEN "clsact" ELSE "failed"
    BY <1>9 DEF DelClsact
  <2>3. can \in BOOLEAN /\ (Here.clsact = "ingress" => can) /\ (Here \in Device => new.clsact = "none")
    BY DEF Device
  <2> HIDE DEF can, new
  <2>4. ASSUME Smooth, answers' = <<>>, rc = "ok" <=> can, Here' = IF can THEN new ELSE Here, Here \in Device
        PROVE  (pc' \in Working => Smooth') /\ FailsForCause'
    <3>1. can
      BY <2>1, <2>3, <2>4 DEF Smooth
    <3> QED BY <2>2, <2>3, <2>4, <3>1 DEF Smooth, FailsForCause
  <2> QED BY <1>3, <2>1, <2>2, <2>3, <2>4
<1>10. CASE DelFilter
  <2> DEFINE can == Here.foreign \/ Here.filter # 0
             new == [Here EXCEPT !.filter = 0, !.foreign = FALSE]
  <2>1. pc = "filter_del" /\ pc \in Working /\ UNCHANGED <<run, k>>
    BY <1>10 DEF DelFilter, Working
  <2>2. PICK rc \in {"ok", "err"} : Talk(can, new, rc) /\ pc' = IF rc = "ok" THEN "filter" ELSE "failed"
    BY <1>10 DEF DelFilter
  <2>3. can \in BOOLEAN /\ (Here.foreign => can) /\ (Here \in Device => ~new.foreign)
    BY DEF Device
  <2> HIDE DEF can, new
  <2>4. ASSUME Smooth, answers' = <<>>, rc = "ok" <=> can, Here' = IF can THEN new ELSE Here, Here \in Device
        PROVE  (pc' \in Working => Smooth') /\ FailsForCause'
    <3>1. can
      BY <2>1, <2>3, <2>4 DEF Smooth
    <3> QED BY <2>2, <2>3, <2>4, <3>1 DEF Smooth, FailsForCause
  <2> QED BY <1>3, <2>1, <2>2, <2>3, <2>4
<1>11. CASE SetFilter
  <2> DEFINE can == FilterFits(Here)
             new == [Here EXCEPT !.filter = run]
  <2>1. /\ pc = "filter" /\ pc \in Working /\ UNCHANGED <<run, nr_try>> /\ nr_try \in Nat
        /\ seq \in Nat /\ faulted \in BOOLEAN
    BY <1>11 DEF SetFilter, Working, SetupInv, Types, Stale, CauseInv
  <2>2. PICK rc \in {"ok", "err"} :
          /\ Talk(can, new, rc)
          /\ \/ rc = "ok" /\ NextIface
             \/ rc = "err" /\ UNCHANGED k /\ pc' = Again("filter_del")
    BY <1>11 DEF SetFilter
  <2>3. can \in BOOLEAN /\ (Here.clsact = "clsact" /\ ~can => Here.foreign)
    BY DEF FilterFits
  <2> HIDE DEF can, new
  <2>4. CASE rc = "err" /\ UNCHANGED k
    <3>1. ASSUME Smooth, Progress, answers' = <<>>, rc = "ok" <=> can, Here' = IF can THEN new ELSE Here
          PROVE  (pc' \in Working => Smooth') /\ FailsForCause'
      <4>1. nr_try = 0 /\ Here.foreign /\ Here' = Here
        BY <2>1, <2>3, <2>4, <3>1 DEF Smooth, Progress
      <4>2. pc' = "filter_del"
        BY <2>2, <2>4, <4>1 DEF Again
      <4> QED BY <3>1, <4>1, <4>2 DEF Smooth, FailsForCause
    <3> QED BY <1>3, <2>1, <2>2, <2>3, <2>4, <3>1
  <2>5. CASE rc = "ok" /\ NextIface
    <3>1. /\ faulted' \in BOOLEAN /\ (faulted => faulted')
          /\ ~faulted' /\ answers = <<>> => answers' = <<>>
      BY <2>1, <2>2, <2>3, TalkFaultless
    <3>2. pc' \in {"props", "after"}
      BY <2>5 DEF NextIface
    <3>3. ASSUME ~faulted' PROVE answers' = <<>>
      BY <2>1, <3>1, <3>3 DEF CauseInv, Smooth
    <3> QED BY <3>1, <3>2, <3>3 DEF CauseInv, Smooth, FailsForCause
  <2> QED BY <2>2, <2>4, <2>5
<1> QED BY <1>2, <1>4, <1>5, <1>6, <1>7, <1>8, <1>9, <1>10, <1>11 DEF Setup

\* The steps around the set-up: the socket is new in every run.
LEMMA MainCause ==
  ASSUME CauseInv, Start \/ Boot \/ Open \/ Listen \/ Stop
  PROVE  CauseInv'
<1>1. CASE Start \/ Stop
  BY <1>1 DEF Start, Stop, CauseInv, FailsForCause, Working
<1>2. ASSUME NEW from, NEW to, Step(from, to), to # "failed", to \in Working => answers' = <<>> /\ to = "props"
      PROVE  CauseInv'
  <2>1. CASE pc' = to /\ UNCHANGED faulted
    BY <1>2, <2>1 DEF CauseInv, FailsForCause, Smooth
  <2>2. CASE pc' = "failed" /\ faulted' = TRUE
    BY <2>2 DEF CauseInv, FailsForCause, Working
  <2> QED BY <1>2, <2>1, <2>2 DEF Step
<1>3. CASE Boot
  BY <1>2, <1>3 DEF Boot, Working
<1>4. CASE Listen
  BY <1>2, <1>4 DEF Listen, Working
<1>5. CASE Open
  <2>1. Step("open", IF IfaceList = <<>> THEN "after" ELSE "props") /\ answers' = <<>>
    BY <1>5 DEF Open
  <2> QED BY <1>2, <2>1 DEF Working
<1> QED BY <1>1, <1>3, <1>4, <1>5

\* CauseInv, with SetupInv, holds at every step.
LEMMA CauseHolds == Spec => [](SetupInv /\ CauseInv)
<1>1. Init => CauseInv
  BY DEF Init, CauseInv, FailsForCause, Working
<1>2. SetupInv /\ CauseInv /\ [Next]_vars => CauseInv'
  <2> SUFFICES ASSUME SetupInv, CauseInv, [Next]_vars PROVE CauseInv'
    OBVIOUS
  <2>1. CASE Over \/ UNCHANGED vars
    BY <2>1 DEF Over, vars, CauseInv, FailsForCause, Smooth, Here, Cur
  <2> QED BY <2>1, SetupCause, MainCause DEF Next
<1> QED BY <1>1, <1>2, SetupHolds, PTL DEF Spec

\* Whatever earlier runs left behind, start-up fails only if something does, or the
\* interface has no queue or has foreign qdiscs below its root (tcbpf_util.c:333-410).
THEOREM FailureHasCause == Spec => []FailsForCause
<1>1. CauseInv => FailsForCause
  BY DEF CauseInv
<1> QED BY <1>1, CauseHolds, PTL

\* Unless something fails, the filters other programs have on a clsact qdisc are kept
\* (tcbpf_util.c:358-378): only an ingress qdisc in its place is deleted.
THEOREM OthersStayKept == Spec => OthersKept
<1>1. SetupInv /\ CauseInv /\ [Next]_vars =>
        \A d \in Devices : dev[d].clsact = "clsact" /\ dev[d].others /\ ~dev'[d].others => faulted'
  <2> SUFFICES ASSUME SetupInv, CauseInv, [Next]_vars, NEW d \in Devices,
                      dev[d].clsact = "clsact", dev[d].others, ~dev'[d].others
               PROVE  faulted'
    OBVIOUS
  <2>0. dev' # dev /\ pc \in Working
    BY DEF Next, Start, Boot, Open, Setup, GiveUp, GetProps, SetRoot, SetMq, SetChild, SetClsact, DelClsact,
       SetFilter, DelFilter, Listen, Stop, Over, Step, vars, Working
  <2>1. Types /\ Stale /\ Behind /\ Cur \in Devices /\ Here \in Device /\ faulted \in BOOLEAN /\ run \in Nat
    BY <2>0, CurIs DEF SetupInv, CauseInv, Types, Here
  <2>2. ASSUME NEW can \in BOOLEAN, NEW new \in Device, NEW rc, Talk(can, new, rc), new.others = Here.others
        PROVE  FALSE
    <3>1. dev' = dev \/ dev' = [dev EXCEPT ![Cur] = new]
      BY <2>1, <2>2, TalkHonest
    <3>2. dev'[d].others = dev[d].others
      BY <2>1, <2>2, <3>1 DEF Types, Here
    <3> QED BY <3>2
  <2>3. ~(SetClsact \/ SetFilter \/ DelFilter \/ SetRoot \/ SetMq \/ SetChild \/ GetProps)
    <3>2. ~GetProps
      BY <2>1, <2>2 DEF GetProps
    <3>3. ~SetRoot
      <4>1. [Here EXCEPT !.kind = "fq", !.handle = 0, !.used = {}] \in Device
            /\ [Here EXCEPT !.kind = "fq", !.handle = 0, !.used = {}].others = Here.others
        BY <2>1 DEF Device, Kinds
      <4> QED BY <2>0, <2>2, <4>1 DEF SetRoot
    <3>4. ~SetMq
      <4>1. NewRoot(Here, root_handle) \in Device /\ NewRoot(Here, root_handle).others = Here.others
            /\ HandleFree(Here, root_handle) \in BOOLEAN
        BY <2>1 DEF Device, Kinds, NewRoot, Types, HandleFree
      <4> QED BY <2>2, <4>1 DEF SetMq
    <3>5. ~SetChild
      <4>1. [Here EXCEPT !.fq = @ \cup {i}] \in Device /\ [Here EXCEPT !.fq = @ \cup {i}].others = Here.others
        BY <2>1 DEF Device, Types
      <4> QED BY <2>2, <4>1 DEF SetChild
    <3>6. ~SetClsact
      <4>1. [Here EXCEPT !.clsact = "clsact"] \in Device /\ [Here EXCEPT !.clsact = "clsact"].others = Here.others
            /\ ClsactFits(Here) \in BOOLEAN
        BY <2>1 DEF Device, ClsactFits
      <4> QED BY <2>2, <4>1 DEF SetClsact
    <3>7. ~SetFilter
      <4>1. [Here EXCEPT !.filter = run] \in Device /\ [Here EXCEPT !.filter = run].others = Here.others
            /\ FilterFits(Here) \in BOOLEAN
        BY <2>1 DEF Device, FilterFits
      <4> QED BY <2>2, <4>1 DEF SetFilter
    <3>8. ~DelFilter
      <4>1. [Here EXCEPT !.filter = 0, !.foreign = FALSE] \in Device
            /\ [Here EXCEPT !.filter = 0, !.foreign = FALSE].others = Here.others
        BY <2>1 DEF Device
      <4> QED BY <2>2, <4>1 DEF DelFilter
    <3> QED BY <3>2, <3>3, <3>4, <3>5, <3>6, <3>7, <3>8
  <2>4. CASE DelClsact
    <3> DEFINE can == Here.clsact # "none"
               new == [Here EXCEPT !.clsact = "none", !.filter = 0, !.foreign = FALSE, !.others = FALSE]
    <3>1. PICK rc \in {"ok", "err"} : Talk(can, new, rc)
      BY <2>4 DEF DelClsact
    <3>2. new \in Device /\ can \in BOOLEAN /\ UNCHANGED <<run, k>> /\ pc = "clsact_del"
      BY <2>1, <2>4 DEF Device, DelClsact
    <3> HIDE DEF can, new
    <3>3. dev' = dev \/ dev' = [dev EXCEPT ![Cur] = new]
      BY <2>1, <3>1, <3>2, TalkHonest
    <3>4. d = Cur
      BY <2>0, <2>1, <3>3 DEF Types
    <3>5. Here.clsact = "clsact"
      BY <3>4 DEF Here
    <3>6. ~faulted' => ~faulted /\ Smooth
      BY <2>0, <3>1, <3>2, AskedSmoothly
    <3>7. faulted' \in BOOLEAN
      BY <2>0, <3>1, <3>2, AskedSmoothly
    <3> QED BY <3>2, <3>5, <3>6, <3>7 DEF Smooth
  <2> QED BY <2>0, <2>3, <2>4 DEF Next, Setup, Start, Boot, Open, GiveUp, Listen, Stop, Over, vars
<1> QED BY <1>1, CauseHolds, PTL DEF Spec, OthersKept
=============================================================================
