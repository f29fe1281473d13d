------------------------------ MODULE CheckJob -------------------------------
(***************************************************************************)
(* What a check job promises, without its goroutines and channels: a proxy *)
(* is checked at most once, under a permit, and never more than the limit  *)
(* allows begin together; its verdict is saved at most once, after the     *)
(* check has ended, and the proxy is deleted only after a saved verdict    *)
(* says it is dead; the job ends with nobody at work, with a status that   *)
(* agrees with what was saved, and nothing happens after that.             *)
(***************************************************************************)
EXTENDS Naturals, FiniteSets

CONSTANTS
  Plans,       \* the proxies to check
  MaxLimit,    \* the largest limit
  Kept,        \* proxies that may not be deleted
  MayTimeOut   \* may a check run into its hard timeout?

VARIABLES
  limit,     \* how many checks may run together
  checking,  \* the proxies being checked
  verdict,   \* what the check of each proxy found ("none": not checked yet)
  saved,     \* the proxies whose verdict is saved
  deleted,   \* the proxies deleted for their verdict
  status     \* of the job

vars == <<limit, checking, verdict, saved, deleted, status>>

Found == {"available", "reachable", "dead"}
Terminal == {"completed", "partial", "failed", "cancelled"}
Running == status \notin Terminal

Init ==
  /\ limit \in 1..MaxLimit
  /\ checking = {}
  /\ verdict = [p \in Plans |-> "none"]
  /\ saved = {}
  /\ deleted = {}
  /\ status = "running"

SetLimit(n) ==
  /\ limit' = n
  /\ UNCHANGED <<checking, verdict, saved, deleted, status>>

\* A lowered limit interrupts nobody: it only holds back those who begin.
Begin(p) ==
  /\ Running
  /\ p \notin checking
  /\ verdict[p] = "none"
  /\ Cardinality(checking) < limit
  /\ checking' = checking \union {p}
  /\ UNCHANGED <<limit, verdict, saved, deleted, status>>

\* The check finds something, or nothing when it is cut short.
Judge(p, v) ==
  /\ p \in checking
  /\ verdict[p] = "none"
  /\ v \in Found \/ (v = "empty" /\ (MayTimeOut \/ status = "cancel_requested"))
  /\ verdict' = [verdict EXCEPT ![p] = v]
  /\ UNCHANGED <<limit, checking, saved, deleted, status>>

\* A check that ends without a verdict was cancelled before it could begin.
End(p) ==
  /\ p \in checking
  /\ verdict[p] = "none" => status = "cancel_requested"
  /\ checking' = checking \ {p}
  /\ UNCHANGED <<limit, verdict, saved, deleted, status>>

Save(p) ==
  /\ Running
  /\ p \notin checking \union saved
  /\ verdict[p] \in Found
  /\ saved' = saved \union {p}
  /\ UNCHANGED <<limit, checking, verdict, deleted, status>>

Delete(p) ==
  /\ Running
  /\ p \in saved \ Kept
  /\ verdict[p] = "dead"
  /\ deleted' = deleted \union {p}
  /\ UNCHANGED <<limit, checking, verdict, saved, status>>

Cancel ==
  /\ status = "running"
  /\ status' = "cancel_requested"
  /\ UNCHANGED <<limit, checking, verdict, saved, deleted>>

\* A job completes only with every verdict saved, but for the checks that timed
\* out, and ends "partial" or "failed" by whether anything was saved; one whose
\* cancellation was accepted does not complete.
Finish(s) ==
  /\ Running
  /\ checking = {}
  /\ s = "completed" => \A p \in Plans : p \in saved \/ (MayTimeOut /\ verdict[p] = "empty")
  /\ s = "partial" => saved # {}
  /\ s = "failed" => saved = {}
  /\ s = "cancelled" <=> s # "failed" /\ status = "cancel_requested"
  /\ status' = s
  /\ UNCHANGED <<limit, checking, verdict, saved, deleted>>

Next ==
  \/ \E n \in 1..MaxLimit : SetLimit(n)
  \/ \E p \in Plans :
       \/ Begin(p) \/ End(p) \/ Save(p) \/ Delete(p)
       \/ \E v \in Found \union {"empty"} : Judge(p, v)
  \/ Cancel
  \/ \E s \in Terminal : Finish(s)

Spec == Init /\ [][Next]_vars
=============================================================================
