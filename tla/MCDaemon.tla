------------------------------ MODULE MCDaemon -------------------------------
(* Daemon for TLC.  Connections are interchangeable.                        *)
EXTENDS Daemon, TLC

ConnSymmetry == Permutations(Conns)
=============================================================================
