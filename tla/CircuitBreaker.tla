---------------------------- MODULE CircuitBreaker ----------------------------
(***************************************************************************)
(* What the selector of the gateway promises of its upstreams, without the *)
(* counts, the times, and the ways a request may take: each has a circuit  *)
(* breaker. Failures open it, and one that fails on trial, or is used all  *)
(* the same while it is open, is open from then on. Time makes it          *)
(* half-open, a success closes it, and as long as it is not closed one     *)
(* request at a time goes through as a probe.                              *)
(*                                                                         *)
(* Not of the book: a report of a request that was let in long ago counts  *)
(* like one of the probe and ends it, an open breaker may get a probe when *)
(* no upstream is better, and a probe may be lost (`lost`), which keeps    *)
(* the upstream without probes until a report comes or it leaves the pool. *)
(***************************************************************************)
CONSTANTS Upstreams, Requests

VARIABLES
  state,    \* of each breaker
  probing,  \* the requests that probe each upstream
  lost      \* upstreams whose probe ended without any report

vars == <<state, probing, lost>>

States == {"closed", "open", "half-open"}

Init ==
  /\ state = [u \in Upstreams |-> "closed"]
  /\ probing = [u \in Upstreams |-> {}]
  /\ lost = {}

Probe(u, r) ==
  /\ state[u] # "closed"
  /\ probing[u] = {} /\ u \notin lost
  /\ probing' = [probing EXCEPT ![u] = {r}]
  /\ UNCHANGED <<state, lost>>

\* Any report ends the probe.
Reported(u) ==
  /\ probing' = [probing EXCEPT ![u] = {}]
  /\ lost' = lost \ {u}

Succeed(u) ==
  /\ state' = [state EXCEPT ![u] = "closed"]
  /\ Reported(u)

\* It takes some failures to open a breaker that is closed.
Fail(u) ==
  /\ \E s \in IF state[u] = "closed" THEN {"closed", "open"} ELSE {"open"} :
       state' = [state EXCEPT ![u] = s]
  /\ Reported(u)

\* A tunnel that proves nothing.
Neutral(u) ==
  /\ UNCHANGED state
  /\ Reported(u)

LoseProbe(u) ==
  /\ probing[u] # {}
  /\ probing' = [probing EXCEPT ![u] = {}]
  /\ lost' = lost \union {u}
  /\ UNCHANGED state

\* Upstreams leave the pool: their breakers are forgotten.
Forget(gone) ==
  /\ state' = [u \in Upstreams |-> IF u \in gone THEN "closed" ELSE state[u]]
  /\ probing' = [u \in Upstreams |-> IF u \in gone THEN {} ELSE probing[u]]
  /\ lost' = lost \ gone

CoolDown ==
  /\ UNCHANGED <<probing, lost>>
  /\ \E cooled \in SUBSET {u \in Upstreams : state[u] = "open"} :
       state' = [u \in Upstreams |-> IF u \in cooled THEN "half-open" ELSE state[u]]

\* A higher threshold may close breakers, a lower one may trip them.
Relax ==
  /\ UNCHANGED <<probing, lost>>
  /\ \E closed \in SUBSET Upstreams :
       state' = [u \in Upstreams |-> IF u \in closed THEN "closed" ELSE state[u]]

Tighten ==
  /\ UNCHANGED <<probing, lost>>
  /\ \A u \in Upstreams : state[u] # "closed" => state'[u] = state[u]
  /\ state' \in [Upstreams -> States]

Next ==
  \/ \E u \in Upstreams :
       \/ \E r \in Requests : Probe(u, r)
       \/ Succeed(u) \/ Fail(u) \/ Neutral(u) \/ LoseProbe(u)
  \/ \E gone \in SUBSET Upstreams : Forget(gone)
  \/ CoolDown \/ Relax \/ Tighten

Spec == Init /\ [][Next]_vars
=============================================================================
