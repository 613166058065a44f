----------------------------- MODULE MCEmailLog -----------------------------
(* EmailLog with retry sweeps that overlap each other and send() itself.   *)
EXTENDS EmailLog, TLC

CONSTANTS w1, w2

OneSweep == {w1}
TwoSweeps == {w1, w2}
Slots == Permutations(TwoSweeps)
=============================================================================
