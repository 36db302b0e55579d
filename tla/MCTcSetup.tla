------------------------------ MODULE MCTcSetup ------------------------------
(* TcSetup with two interfaces: one in any state, one as the kernel makes it. *)
EXTENDS TcSetup, TLC

CONSTANTS a, b

Fresh == [ queues |-> 1, kind |-> "other", handle |-> 0, fq |-> {}, used |-> {}, clsact |-> "none",
           filter |-> 0, foreign |-> FALSE, others |-> FALSE ]

\* Foreign qdiscs have low handles; filters need a clsact qdisc.
Anything ==
  { x \in [ queues : 0..3, kind : Kinds, handle : 0..2, fq : {{}}, used : {{}, {1}, {2}, {1, 2}, {3}},
            clsact : {"none", "ingress", "clsact"}, filter : {0}, foreign : BOOLEAN, others : BOOLEAN ] :
      /\ x.clsact # "clsact" => ~x.foreign /\ ~x.others
      /\ x.handle \notin x.used /\ (x.handle = 0 => x.used = {})
      /\ x.queues < 2 => x.kind # "mq" }

MCDevices == {a, b}
MCIfaceList == <<a, b>>
MCInitDev == (a :> Anything) @@ (b :> {Fresh, [Fresh EXCEPT !.queues = 2, !.kind = "mq", !.fq = {1, 2}]})
=============================================================================
