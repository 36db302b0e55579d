------------------------------ MODULE MCClient -------------------------------
(***************************************************************************)
(* An instance of Client with 7-bit words and 4-bit alarms, a kilo of 3    *)
(* and short minutes, hours and days, so that products of small numbers    *)
(* overflow, turn negative, or are truncated to alarm(0).                  *)
(***************************************************************************)
EXTENDS Client

Arg(raw, suffix) == [raw |-> raw, suffix |-> suffix]

\* Nothing, less than a byte, ordinary rates, ~0, an overflow and a bad suffix.
MCRateArgs ==
  {Garbage, Arg(0, ""), Arg(5, ""), Arg(20, ""), Arg(4, "M"), Arg(127, ""),
   Arg(20, "G"), Arg(1, "T"), Arg(4, "x")}

\* No wait, ordinary times, a negative number, a product that turns negative and
\* one that alarm() truncates to 0.
MCTimeArgs ==
  {Garbage, Arg(0, ""), Arg(3, ""), Arg(3, "h"), Arg(127, ""), Arg(9, "d"), Arg(2, "d"),
   Arg(3, "x")}
=============================================================================
