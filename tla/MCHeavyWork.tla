----------------------------- MODULE MCHeavyWork -----------------------------
(* Small instances of HeavyWork for TLC. *)
EXTENDS HeavyWork, TLC

\* Two intent keys: key 1 is check.pipeline.generic, key 2 is fetch.periodic.
\* A third one, where a run wants it, is fetch.low_stock.
MCKeyType == [k \in Keys |-> IF k = 1 THEN "check" ELSE "fetch"]
MCPipelineKeys == {1}

\* check.low_stock.generic and fetch.periodic, no pipeline.
NoPipelineKeys == {}

JobSymmetry == Permutations(Jobs)
=============================================================================
