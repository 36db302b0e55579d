--------------------------- MODULE MCRateLimitBpf ----------------------------
(***************************************************************************)
(* Instances of RateLimitBpf.  A second has 4 ticks, so that the rates of  *)
(* MCLimits give delays of 2 and 3 ticks, one of them rounded.             *)
(***************************************************************************)
EXTENDS RateLimitBpf, TLC

MCUnlimited == 99

Rate(byte, pkt) == [byte_rate |-> byte, packet_rate |-> pkt]

\* The blocking limit of main.c:304, one of packets only, and one where the bytes
\* of long packets and the number of short ones decide.
MCLimits == {Rate(0, 0), Rate(MCUnlimited, 2), Rate(3, 2)}

CpuSymmetry == Permutations(Cpus)
=============================================================================
