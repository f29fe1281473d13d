------------------------------ MODULE PoolCache ------------------------------
(***************************************************************************)
(* What the pool of an endpoint promises, without requests, background     *)
(* refreshes and locks: it is a cache filled by one load at a time, each   *)
(* for the settings of the moment it begins. What was loaded goes into the *)
(* pool as a whole, and only while the selector goes by the strategy and   *)
(* the thresholds it was loaded with; else it is thrown away and the pool  *)
(* stays as it was. The settings may change meanwhile, and callers that    *)
(* have read them earlier, the load among them, may set the selector back. *)
(***************************************************************************)
EXTENDS Integers

CONSTANT MaxChanges

NoPool == -1

VARIABLES
  current,  \* the settings: [version, breaker]
  applied,  \* strategy and thresholds the selector goes by
  loading,  \* the settings a load is under way for, or none: {}
  pool      \* version of the settings the pool was loaded for, or NoPool

vars == <<current, applied, loading, pool>>

Init ==
  /\ current = [version |-> 0, breaker |-> 0]
  /\ applied = 0
  /\ loading = {}
  /\ pool \in {NoPool, 0}

Change ==
  /\ current.version < MaxChanges
  /\ \E b \in {current.breaker, current.version + 1} :
       current' = [version |-> current.version + 1, breaker |-> b]
  /\ UNCHANGED <<applied, loading, pool>>

\* By settings of now or of earlier.
Apply(b) ==
  /\ b <= current.breaker
  /\ applied' = b
  /\ UNCHANGED <<current, loading, pool>>

Begin ==
  /\ loading = {}
  /\ loading' = {current}
  /\ UNCHANGED <<current, applied, pool>>

\* It may have been given up when the selector already goes by its settings.
GiveUp ==
  /\ \E c \in loading : applied' \in {applied, c.breaker}
  /\ loading' = {}
  /\ UNCHANGED <<current, pool>>

\* The load may have found nothing.
Install(c, found) ==
  /\ loading = {c}
  /\ applied = c.breaker
  /\ pool' = IF found THEN c.version ELSE NoPool
  /\ loading' = {}
  /\ UNCHANGED <<current, applied>>

Next ==
  \/ Change
  \/ \E b \in 0..MaxChanges : Apply(b)
  \/ Begin \/ GiveUp
  \/ \E c \in loading, found \in BOOLEAN : Install(c, found)

Spec == Init /\ [][Next]_vars
=============================================================================
