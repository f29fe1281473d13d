------------------------------ MODULE GeoService ------------------------------
(***************************************************************************)
(* What the enrichment of exit addresses promises the external service,    *)
(* without checks, queue or worker: it is asked for one address at a time, *)
(* at a bounded rate, for an address somebody waits for, and never for one *)
(* whose last answer or failure is still kept. An address that is accepted *)
(* may be given up without being asked for, but never while it is.         *)
(***************************************************************************)
EXTENDS Naturals

CONSTANTS
  Ips, NoIp,
  Ttl, Retry, \* how long an answer and a failure are kept
  Rate        \* least time between two requests

VARIABLES
  accepted, \* addresses to ask for
  asking,   \* the address the service is asked for
  rest,     \* what is left until it may be asked again
  kept      \* how long what it said of each address is still kept

vars == <<accepted, asking, rest, kept>>

Init ==
  /\ accepted = {}
  /\ asking = NoIp
  /\ rest = 0
  /\ kept = [i \in Ips |-> 0]

Accept(i) ==
  /\ i \notin accepted
  /\ accepted' = accepted \union {i}
  /\ UNCHANGED <<asking, rest, kept>>

GiveUp(i) ==
  /\ i \in accepted /\ i # asking
  /\ accepted' = accepted \ {i}
  /\ UNCHANGED <<asking, rest, kept>>

Ask(i) ==
  /\ i \in accepted /\ asking = NoIp
  /\ rest = 0 /\ kept[i] = 0
  /\ asking' = i
  /\ rest' = Rate
  /\ UNCHANGED <<accepted, kept>>

\* An answer is kept for long, a failure for a while.
Keep(i, time) ==
  /\ i = asking
  /\ asking' = NoIp
  /\ kept' = [kept EXCEPT ![i] = time]
  /\ UNCHANGED <<accepted, rest>>

Less(n) == IF n > 0 THEN n - 1 ELSE 0

Tick ==
  /\ rest' = Less(rest)
  /\ kept' = [i \in Ips |-> Less(kept[i])]
  /\ UNCHANGED <<accepted, asking>>

Next ==
  \/ \E i \in Ips : Accept(i) \/ GiveUp(i) \/ Ask(i) \/ Keep(i, Ttl) \/ Keep(i, Retry)
  \/ Tick

Spec == Init /\ [][Next]_vars
=============================================================================
