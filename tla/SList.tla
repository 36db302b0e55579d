------------------------------- MODULE SList ---------------------------------
(***************************************************************************)
(* The intrusive, circular, doubly linked lists of s_list.c.  A value r    *)
(* holds the next and prev pointers of every node in memory; an operation  *)
(* maps it to the pointers it leaves.  There is no list object: a list is  *)
(* the ring through its head.                                              *)
(***************************************************************************)
EXTENDS Integers, FiniteSets, Sequences

s_list_init(r, n) ==
  [next |-> [r.next EXCEPT ![n] = n], prev |-> [r.prev EXCEPT ![n] = n]]

s_list_toggle_connect_OneWay(r, a, b) ==
  LET prev1 == r.prev[a]
      prev2 == r.prev[b] IN
  [next |-> [r.next EXCEPT ![prev1] = b, ![prev2] = a],
   prev |-> [r.prev EXCEPT ![a] = prev2]]

\* Joins the rings of a and b if they are different, splits the ring between
\* them if they share one.
s_list_toggle_connect(r, a, b) ==
  LET prev1 == r.prev[a]
      prev2 == r.prev[b] IN
  [next |-> [r.next EXCEPT ![prev1] = b, ![prev2] = a],
   prev |-> [r.prev EXCEPT ![a] = prev2, ![b] = prev1]]

s_list_attach(r, head, n) == s_list_toggle_connect(r, head, n)
s_list_detach(r, n) == s_list_toggle_connect(r, n, r.next[n])
s_list_is_empty(r, head) == r.next[head] = head

-----------------------------------------------------------------------------
\* The nodes on the ring of head, in order, without head: what a loop over
\* s_list_get_next from head visits.  On a ring that does not lead back to head
\* it gives up after as many nodes as there are.
Elements(r, head) ==
  LET size == Cardinality(DOMAIN r.next)
      from[left \in 0..size] ==
        [n \in DOMAIN r.next |->
           IF n = head \/ left = 0 THEN <<>> ELSE <<n>> \o from[left - 1][r.next[n]]]
  IN from[size][r.next[head]]
=============================================================================
