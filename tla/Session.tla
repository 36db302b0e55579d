------------------------------- MODULE Session -------------------------------
(***************************************************************************)
(* What the daemon promises its clients, without coroutines, bus calls and *)
(* streams.  A client is given one of a bounded number of slots or denied  *)
(* one.  Only the holder of a slot whose limit is in force is told to      *)
(* proceed, nobody is told two things, and a slot is given back, with its  *)
(* limit, only when no process that was told to proceed is left.           *)
(***************************************************************************)
EXTENDS Integers, FiniteSets

CONSTANTS Conns, MaxNrTasks

VARIABLES stage,    \* "new", "held" (a slot), "denied", "over"
          limit,    \* what the map holds for it: "none", "block", "limit"
          verdict,  \* what it has been told
          proc      \* its process: "none", "waiting", "running", "dead"

svars == <<stage, limit, verdict, proc>>

Held == {c \in Conns : stage[c] = "held"}

Init ==
  /\ stage = [c \in Conns |-> "new"]
  /\ limit = [c \in Conns |-> "none"]
  /\ verdict = [c \in Conns |-> "none"]
  /\ proc = [c \in Conns |-> "none"]

Arrive(c) ==
  /\ proc[c] = "none"
  /\ proc' = [proc EXCEPT ![c] = "waiting"]
  /\ UNCHANGED <<stage, limit, verdict>>

Admit(c) ==
  /\ stage[c] = "new" /\ proc[c] # "none"
  /\ Cardinality(Held) < MaxNrTasks
  /\ stage' = [stage EXCEPT ![c] = "held"]
  /\ UNCHANGED <<limit, verdict, proc>>

Deny(c) ==
  /\ stage[c] = "new" /\ proc[c] # "none"
  /\ Cardinality(Held) = MaxNrTasks
  /\ stage' = [stage EXCEPT ![c] = "denied"]
  /\ UNCHANGED <<limit, verdict, proc>>

\* First everything is blocked, then the rates of the request are allowed.
Restrict(c) ==
  /\ stage[c] = "held" /\ verdict[c] = "none"
  /\ \/ limit[c] = "none" /\ limit' = [limit EXCEPT ![c] = "block"]
     \/ limit[c] = "block" /\ limit' = [limit EXCEPT ![c] = "limit"]
  /\ UNCHANGED <<stage, verdict, proc>>

Tell(c, v) ==
  /\ verdict[c] = "none"
  /\ \/ v = "PROCEED" /\ stage[c] = "held" /\ limit[c] = "limit"
     \/ v = "FAIL" /\ stage[c] = "held"
     \/ v = "NORESOURCE" /\ stage[c] = "denied"
  /\ verdict' = [verdict EXCEPT ![c] = v]
  /\ UNCHANGED <<stage, limit, proc>>

Proceed(c) ==
  /\ proc[c] = "waiting" /\ verdict[c] = "PROCEED"
  /\ proc' = [proc EXCEPT ![c] = "running"]
  /\ UNCHANGED <<stage, limit, verdict>>

\* Processes end on their own, several at a time if a scope is killed.
Die(dying) ==
  /\ \A c \in dying : proc[c] # "none"
  /\ proc' = [c \in Conns |-> IF c \in dying THEN "dead" ELSE proc[c]]
  /\ UNCHANGED <<stage, limit, verdict>>

\* The limit may only outlast the session if removing it fails.
Release(c) ==
  /\ stage[c] # "over"
  /\ verdict[c] = "PROCEED" => proc[c] = "dead"
  /\ stage' = [stage EXCEPT ![c] = "over"]
  /\ limit' = limit \/ limit' = [limit EXCEPT ![c] = "none"]
  /\ UNCHANGED <<verdict, proc>>

Next ==
  \/ \E dying \in SUBSET Conns : Die(dying)
  \/ \E c \in Conns :
       \/ Arrive(c) \/ Admit(c) \/ Deny(c) \/ Restrict(c) \/ Proceed(c) \/ Release(c)
       \/ \E v \in {"PROCEED", "FAIL", "NORESOURCE"} : Tell(c, v)

Spec == Init /\ [][Next]_svars
=============================================================================
