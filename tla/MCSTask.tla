------------------------------ MODULE MCSTask --------------------------------
(* STask for TLC: tasks are interchangeable.                               *)
EXTENDS STask, TLC

Symmetry == Permutations(Tasks)
=============================================================================
