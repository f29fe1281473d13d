----------------------------- MODULE MCCheckPool -----------------------------
(* TLC instances of CheckPool. *)
EXTENDS CheckPool

CONSTANTS w1, w2, p1, p2

MCSpared == {p2}
MCRetested == {p1}
=============================================================================
