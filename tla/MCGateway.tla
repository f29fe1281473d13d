------------------------------ MODULE MCGateway ------------------------------
(* Two requests and two upstreams, for TLC.                                *)
EXTENDS Gateway, TLC

CONSTANTS r1, r2

Symmetry == Permutations(Upstreams) \union Permutations({r1, r2})
=============================================================================
