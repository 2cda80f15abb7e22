------------------------------ MODULE MCConfig ------------------------------
(* Config for TLC, with a clock of 2 ns to the ms, 2 ms to the s, and short integers. *)
EXTENDS Config

MCDefault == [v \in TimeVars |-> IF v = Analyze THEN 12 ELSE 8]

\* The ends of both widths, 8 and 17 that wrap around to something else, 16 that wraps to 0.
MCNumbers == {-33, -32, -1, 0, 1, 3, 6, 7, 8, 16, 17, 31, 32}
=============================================================================
