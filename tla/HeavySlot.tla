------------------------------ MODULE HeavySlot ------------------------------
(***************************************************************************)
(* What the heavy-work slot promises: at most one fetch or check at work.  *)
(* A start claims the free slot, begins its job under that claim (or       *)
(* abandons it) and holds the slot until after the job has ended; only a   *)
(* restart of the process takes the slot away from a job.                  *)
(***************************************************************************)
CONSTANT Jobs

VARIABLES
  state,     \* "free", "claimed" by a start, or "held" by a job
  working    \* the jobs at work

vars == <<state, working>>

TypeOK ==
  /\ state \in {"free", "claimed", "held"}
  /\ working \subseteq Jobs

Init ==
  /\ state = "free"
  /\ working = {}

Claim ==
  /\ state = "free"
  /\ state' = "claimed"
  /\ UNCHANGED working

Abandon ==
  /\ state = "claimed"
  /\ working = {}
  /\ state' = "free"
  /\ UNCHANGED working

Begin(j) ==
  /\ state = "claimed"
  /\ working = {}
  /\ working' = {j}
  /\ UNCHANGED state

Hold ==
  /\ state = "claimed"
  /\ working # {}
  /\ state' = "held"
  /\ UNCHANGED working

End(j) ==
  /\ state = "held"
  /\ working = {j}
  /\ working' = {}
  /\ UNCHANGED state

Free ==
  /\ state = "held"
  /\ working = {}
  /\ state' = "free"
  /\ UNCHANGED working

\* The process is restarted.
Reset ==
  /\ state' = "free"
  /\ working' = {}

Next ==
  \/ Claim \/ Abandon \/ Hold \/ Free \/ Reset
  \/ \E j \in Jobs : Begin(j) \/ End(j)

Spec == Init /\ [][Next]_vars
=============================================================================
