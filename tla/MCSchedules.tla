------------------------------ MODULE MCSchedules ------------------------------
(* Schedules on small instances. *)
EXTENDS Schedules, TLC

CONSTANTS fp, lowStock, target, lifecycle, noKey, j1, j2, noJob, oldJob, interrupted, ticker, s1

JobSymmetry == Permutations({j1, j2})
=============================================================================
