---------------------------- MODULE GatewayProofs ----------------------------
(***************************************************************************)
(* Theorems of Gateway, for any upstreams, requests and limits.            *)
(*                                                                         *)
(* IInv is inductive: TypeOK, where a request is (Placed), and the two     *)
(* invariants themselves. Every lemma goes through the actions in the      *)
(* order of Steps; what a report does to its upstream is said once, in     *)
(* ReportTypes and in Reports. The last section shows that the three       *)
(* numbers of an upstream make a CircuitBreaker.                           *)
(***************************************************************************)
EXTENDS Gateway, TLAPS

USE UpstreamAssumption, LimitAssumption
USE DEF vars, breaker, request, Holding

Outcomes == {"success", "neutral", "failure"}

\* The actions, without the groups that Next puts them in.
LEMMA Steps ==
  ASSUME Next
  PROVE
    \/ \E r \in Requests :
         \/ Accept(r)
         \/ SelectActive(r) \/ SelectDegraded(r) \/ NothingToSelect(r)
         \/ AttemptFails(r) \/ DialCutOff(r) \/ TunnelOpens(r)
         \/ \E o \in Responses : Respond(r, o)
         \/ GiveUp(r) \/ HandOver(r) \/ HandOverFails(r) \/ CopyEnds(r)
         \/ \E o \in Outcomes : PipeEnds(r, o)
    \/ \E items \in SUBSET Upstreams : ReplacePool(items)
    \/ \E t \in Thresholds : ApplyConfig(t)
    \/ Tick
<1>1. \A received, sent, early \in BOOLEAN : TunnelOutcome(received, sent, early) \in Outcomes
  BY DEF TunnelOutcome, Outcomes
<1> QED
  BY <1>1 DEF Next, Progress, AttemptEnds, Transfer

\* A request that holds an upstream knows it, one that may try again has an attempt
\* left, and only a request that holds its upstream is the probe.
Placed ==
  \A r \in Requests :
    /\ pc[r] \in Holding => up[r] \in Upstreams
    /\ pc[r] \in {"choose", "attempt"} => left[r] # 0
    /\ granted[r] => pc[r] \in Holding

\* A count only grows with a failure, up to its bound.
LEMMA FailuresGrow ==
  ASSUME TypeOK, NEW u \in Upstreams, NEW immediate \in BOOLEAN
  PROVE  /\ Failures(u, immediate) \in 0 .. MaxCount
         /\ Failures(u, immediate) >= count[u]
  BY DEF TypeOK, Failures

Report(u) ==
  ReportSuccess(u) \/ ReportNeutral(u) \/ \E b \in BOOLEAN : ReportFailure(u, b)

BreakerTypeOK ==
  /\ count \in [Upstreams -> 0 .. MaxCount]
  /\ wait \in [Upstreams -> 0 .. Cooldown]
  /\ probe \in [Upstreams -> Nat]
  /\ granted \in [Requests -> BOOLEAN]
  /\ lost \subseteq Upstreams

LEMMA ReportTypes ==
  ASSUME TypeOK, NEW u \in Upstreams, Report(u)
  PROVE  BreakerTypeOK'
<1>1. CASE ReportSuccess(u)
  BY <1>1 DEF TypeOK, BreakerTypeOK, ReportSuccess, ProbeOver
<1>2. CASE ReportNeutral(u)
  BY <1>2 DEF TypeOK, BreakerTypeOK, ReportNeutral, ProbeOver
<1>3. ASSUME NEW b \in BOOLEAN, ReportFailure(u, b)
      PROVE  BreakerTypeOK'
  <2>1. Failures(u, b) \in 0 .. MaxCount
    BY FailuresGrow
  <2> QED
    BY <1>3, <2>1 DEF TypeOK, BreakerTypeOK, ReportFailure, ProbeOver
<1> QED
  BY <1>1, <1>2, <1>3 DEF Report

\* After a report its upstream has no probe, and no other one is touched.
LEMMA ReportEnds ==
  ASSUME NEW u \in Upstreams, Report(u)
  PROVE  ProbeOver(u)
  BY DEF Report, ReportSuccess, ReportNeutral, ReportFailure

LEMMA DoneTypes ==
  ASSUME TypeOK, BreakerTypeOK', NEW r \in Requests, Done(r),
         counted' \in [Requests -> Nat], UNCHANGED <<pool, threshold>>
  PROVE  TypeOK'
<1>1. /\ pc' = [pc EXCEPT ![r] = "idle"]
      /\ up' = [up EXCEPT ![r] = NoUpstream]
      /\ tried' = [tried EXCEPT ![r] = {}]
      /\ left' = [left EXCEPT ![r] = 0]
      /\ kind' = [kind EXCEPT ![r] = "forward"]
  BY DEF Done, Goto
<1>2. left' \in [Requests -> 0 .. Attempts]
  BY <1>1 DEF TypeOK
<1>3. /\ up' \in [Requests -> Upstreams \union {NoUpstream}]
      /\ tried' \in [Requests -> SUBSET Upstreams]
      /\ kind' \in [Requests -> {"forward", "tunnel"}]
  BY <1>1 DEF TypeOK
<1>4. pc' \in [Requests -> {"idle", "choose", "attempt", "copy", "refuse", "fail",
                           "opened", "pipe"}]
  BY <1>1 DEF TypeOK
<1> QED
  BY <1>2, <1>3, <1>4 DEF TypeOK, BreakerTypeOK

LEMMA Types ==
  ASSUME TypeOK, Placed, Next
  PROVE  TypeOK'
<1>1. ASSUME NEW r \in Requests, Accept(r)
      PROVE  TypeOK'
  BY <1>1 DEF TypeOK, Placed, Accept, Goto
<1>2. ASSUME NEW r \in Requests, SelectActive(r)
      PROVE  TypeOK'
  BY <1>2 DEF TypeOK, Placed, SelectActive, Use, Goto, Active, Untried, HalfOpen
<1>3. ASSUME NEW r \in Requests, SelectDegraded(r)
      PROVE  TypeOK'
  BY <1>3 DEF TypeOK, Placed, SelectDegraded, Use, Goto, LastResort, Idle, Untried
<1>4. ASSUME NEW r \in Requests, NothingToSelect(r)
      PROVE  TypeOK'
  BY <1>4 DEF TypeOK, Placed, NothingToSelect, Goto
<1>5. ASSUME NEW r \in Requests, AttemptFails(r)
      PROVE  TypeOK'
  <2>1. up[r] \in Upstreams /\ Report(up[r])
    BY <1>5 DEF TypeOK, Placed, Report, AttemptFails
  <2>2. BreakerTypeOK'
    BY <2>1, ReportTypes
  <2>3. left[r] - 1 \in 0 .. Attempts
    BY <1>5 DEF TypeOK, Placed, AttemptFails
  <2> QED
    BY <1>5, <2>2, <2>3 DEF TypeOK, BreakerTypeOK, AttemptFails, NextAttempt, Goto
<1>6. ASSUME NEW r \in Requests, DialCutOff(r)
      PROVE  TypeOK'
  <2>1. up[r] \in Upstreams /\ Report(up[r])
    BY <1>6 DEF TypeOK, Placed, Report, DialCutOff
  <2>2. BreakerTypeOK'
    BY <2>1, ReportTypes
  <2> QED
    BY <1>6, <2>2 DEF TypeOK, BreakerTypeOK, DialCutOff, Goto
<1>7. ASSUME NEW r \in Requests, TunnelOpens(r)
      PROVE  TypeOK'
  BY <1>7 DEF TypeOK, Placed, TunnelOpens, Goto
<1>8. ASSUME NEW r \in Requests, NEW o \in Responses, Respond(r, o)
      PROVE  TypeOK'
  <2>1. up[r] \in Upstreams
    BY <1>8 DEF TypeOK, Placed, Respond
  <2>2. BreakerTypeOK'
    <3>1. CASE Rejects(o)
      BY <1>8, <2>1, <3>1, ReportTypes DEF Respond, Report
    <3>2. CASE ~Rejects(o)
      BY <1>8, <3>2 DEF TypeOK, BreakerTypeOK, Respond
    <3> QED
      BY <3>1, <3>2
  <2>3. left[r] - 1 \in 0 .. Attempts
    BY <1>8 DEF TypeOK, Placed, Respond
  <2>4. left' \in [Requests -> 0 .. Attempts]
    BY <1>8, <2>3 DEF TypeOK, Respond
  <2>5. \/ Goto(r, "copy") \/ Goto(r, "choose") \/ Goto(r, "refuse")
    BY <1>8 DEF Respond
  <2>6. pc' \in [Requests -> {"idle", "choose", "attempt", "copy", "refuse", "fail",
                             "opened", "pipe"}]
    BY <2>5 DEF TypeOK, Goto
  <2>7. UNCHANGED <<pool, threshold, kind, up, tried, counted>>
    BY <1>8 DEF Respond
  <2> QED
    BY <2>2, <2>4, <2>6, <2>7 DEF TypeOK, BreakerTypeOK
<1>9. ASSUME NEW r \in Requests, GiveUp(r)
      PROVE  TypeOK'
  BY <1>9 DEF TypeOK, Placed, GiveUp, Done, Goto
<1>10. ASSUME NEW r \in Requests, HandOver(r)
       PROVE  TypeOK'
  BY <1>10 DEF TypeOK, Placed, HandOver, Goto
<1>11. ASSUME NEW r \in Requests, HandOverFails(r)
       PROVE  TypeOK'
  BY <1>11 DEF TypeOK, Placed, HandOverFails, Done, Goto
<1>12. ASSUME NEW r \in Requests, CopyEnds(r)
       PROVE  TypeOK'
  <2>1. BreakerTypeOK'
    <3>1. CASE pc[r] = "copy"
      BY <1>12, <3>1, ReportTypes DEF CopyEnds, Report, Placed
    <3>2. CASE pc[r] # "copy"
      BY <1>12, <3>2 DEF TypeOK, BreakerTypeOK, CopyEnds
    <3> QED
      BY <3>1, <3>2
  <2>2. counted[r] + 1 \in Nat
    BY DEF TypeOK
  <2>3. /\ counted' \in [Requests -> Nat] /\ Done(r)
        /\ UNCHANGED <<pool, threshold>>
    BY <1>12, <2>2 DEF TypeOK, CopyEnds
  <2> QED
    BY <2>1, <2>3, DoneTypes
<1>13. ASSUME NEW r \in Requests, NEW o \in Outcomes, PipeEnds(r, o)
       PROVE  TypeOK'
  <2>1. up[r] \in Upstreams /\ Report(up[r])
    BY <1>13 DEF TypeOK, Placed, Report, PipeEnds, Outcomes
  <2>2. BreakerTypeOK'
    BY <2>1, ReportTypes
  <2>3. counted[r] + 1 \in Nat
    BY DEF TypeOK
  <2>4. /\ counted' \in [Requests -> Nat] /\ Done(r)
        /\ UNCHANGED <<pool, threshold>>
    BY <1>13, <2>3 DEF TypeOK, PipeEnds
  <2> QED
    BY <2>2, <2>4, DoneTypes
<1>14. ASSUME NEW items \in SUBSET Upstreams, ReplacePool(items)
       PROVE  TypeOK'
  BY <1>14 DEF TypeOK, Placed, ReplacePool
<1>15. ASSUME NEW t \in Thresholds, ApplyConfig(t)
       PROVE  TypeOK'
  BY <1>15 DEF TypeOK, Placed, ApplyConfig
<1>16. CASE Tick
  BY <1>16 DEF TypeOK, Placed, Tick
<1> QED
  BY <1>1, <1>2, <1>3, <1>4, <1>5, <1>6, <1>7, <1>8, <1>9, <1>10, <1>11, <1>12,
     <1>13, <1>14, <1>15, <1>16, Steps

LEMMA Places ==
  ASSUME TypeOK, Placed, Next
  PROVE  Placed'
<1>1. ASSUME NEW r \in Requests, Accept(r)
      PROVE  Placed'
  BY <1>1 DEF TypeOK, Placed, Accept, Goto
<1>2. ASSUME NEW r \in Requests, SelectActive(r)
      PROVE  Placed'
  BY <1>2 DEF TypeOK, Placed, SelectActive, Use, Goto, Active, Untried, HalfOpen
<1>3. ASSUME NEW r \in Requests, SelectDegraded(r)
      PROVE  Placed'
  BY <1>3 DEF TypeOK, Placed, SelectDegraded, Use, Goto, LastResort, Idle, Untried
<1>4. ASSUME NEW r \in Requests, NothingToSelect(r)
      PROVE  Placed'
  BY <1>4 DEF TypeOK, Placed, NothingToSelect, Goto
<1>5. ASSUME NEW r \in Requests, AttemptFails(r)
      PROVE  Placed'
  <2>1. left[r] \in Nat /\ up[r] \in Upstreams /\ ProbeOver(up[r])
    BY <1>5 DEF TypeOK, Placed, AttemptFails, ReportFailure
  <2>2. left[r] > 1 => left'[r] # 0
    BY <1>5, <2>1 DEF TypeOK, AttemptFails, NextAttempt
  <2> QED
    BY <1>5, <2>1, <2>2 DEF TypeOK, Placed, AttemptFails, NextAttempt, Goto, ProbeOver
<1>6. ASSUME NEW r \in Requests, DialCutOff(r)
      PROVE  Placed'
  BY <1>6 DEF TypeOK, Placed, DialCutOff, Goto, ReportFailure, ProbeOver
<1>7. ASSUME NEW r \in Requests, TunnelOpens(r)
      PROVE  Placed'
  BY <1>7 DEF TypeOK, Placed, TunnelOpens, Goto
<1>8. ASSUME NEW r \in Requests, NEW o \in Responses, Respond(r, o)
      PROVE  Placed'
  <2>1. CASE Rejects(o)
    <3>1. left[r] \in Nat /\ up[r] \in Upstreams /\ ProbeOver(up[r])
      BY <1>8, <2>1 DEF TypeOK, Placed, Respond, ReportFailure
    <3>2. left[r] > 1 => left'[r] # 0
      BY <1>8, <2>1, <3>1 DEF TypeOK, Respond
    <3> QED
      BY <1>8, <2>1, <3>1, <3>2 DEF TypeOK, Placed, Respond, Goto, ProbeOver
  <2>2. CASE ~Rejects(o)
    BY <1>8, <2>2 DEF TypeOK, Placed, Respond, Goto
  <2> QED
    BY <2>1, <2>2
<1>9. ASSUME NEW r \in Requests, GiveUp(r)
      PROVE  Placed'
  BY <1>9 DEF TypeOK, Placed, GiveUp, Done, Goto
<1>10. ASSUME NEW r \in Requests, HandOver(r)
       PROVE  Placed'
  BY <1>10 DEF TypeOK, Placed, HandOver, Goto
<1>11. ASSUME NEW r \in Requests, HandOverFails(r)
       PROVE  Placed'
  BY <1>11 DEF TypeOK, Placed, HandOverFails, Done, Goto
<1>12. ASSUME NEW r \in Requests, CopyEnds(r)
       PROVE  Placed'
  BY <1>12 DEF TypeOK, Placed, CopyEnds, Done, Goto, ReportSuccess, ProbeOver
<1>13. ASSUME NEW r \in Requests, NEW o \in Outcomes, PipeEnds(r, o)
       PROVE  Placed'
  BY <1>13 DEF TypeOK, Placed, PipeEnds, Done, Goto, Outcomes, ReportSuccess,
    ReportFailure, ReportNeutral, ProbeOver
<1>14. ASSUME NEW items \in SUBSET Upstreams, ReplacePool(items)
       PROVE  Placed'
  BY <1>14 DEF TypeOK, Placed, ReplacePool
<1>15. ASSUME NEW t \in Thresholds, ApplyConfig(t)
       PROVE  Placed'
  BY <1>15 DEF TypeOK, Placed, ApplyConfig
<1>16. CASE Tick
  BY <1>16 DEF TypeOK, Placed, Tick
<1> QED
  BY <1>1, <1>2, <1>3, <1>4, <1>5, <1>6, <1>7, <1>8, <1>9, <1>10, <1>11, <1>12,
     <1>13, <1>14, <1>15, <1>16, Steps

LEMMA Counting ==
  ASSUME TypeOK, Placed, RequestCountedOnce, Next
  PROVE  RequestCountedOnce'
<1>1. ASSUME NEW r \in Requests, Accept(r)
      PROVE  RequestCountedOnce'
  BY <1>1 DEF TypeOK, Placed, RequestCountedOnce, Accept, Goto
<1>2. ASSUME NEW r \in Requests, SelectActive(r)
      PROVE  RequestCountedOnce'
  BY <1>2 DEF TypeOK, Placed, RequestCountedOnce, SelectActive, Use, Goto, Active,
    Untried, HalfOpen
<1>3. ASSUME NEW r \in Requests, SelectDegraded(r)
      PROVE  RequestCountedOnce'
  BY <1>3 DEF TypeOK, Placed, RequestCountedOnce, SelectDegraded, Use, Goto,
    LastResort, Idle, Untried
<1>4. ASSUME NEW r \in Requests, NothingToSelect(r)
      PROVE  RequestCountedOnce'
  BY <1>4 DEF TypeOK, Placed, RequestCountedOnce, NothingToSelect, Goto
<1>5. ASSUME NEW r \in Requests, AttemptFails(r)
      PROVE  RequestCountedOnce'
  BY <1>5 DEF TypeOK, Placed, RequestCountedOnce, AttemptFails, NextAttempt, Goto
<1>6. ASSUME NEW r \in Requests, DialCutOff(r)
      PROVE  RequestCountedOnce'
  BY <1>6 DEF TypeOK, Placed, RequestCountedOnce, DialCutOff, Goto
<1>7. ASSUME NEW r \in Requests, TunnelOpens(r)
      PROVE  RequestCountedOnce'
  BY <1>7 DEF TypeOK, Placed, RequestCountedOnce, TunnelOpens, Goto
<1>8. ASSUME NEW r \in Requests, NEW o \in Responses, Respond(r, o)
      PROVE  RequestCountedOnce'
  BY <1>8 DEF TypeOK, Placed, RequestCountedOnce, Respond, Goto
<1>9. ASSUME NEW r \in Requests, GiveUp(r)
      PROVE  RequestCountedOnce'
  BY <1>9 DEF TypeOK, Placed, RequestCountedOnce, GiveUp, Done, Goto
<1>10. ASSUME NEW r \in Requests, HandOver(r)
       PROVE  RequestCountedOnce'
  BY <1>10 DEF TypeOK, Placed, RequestCountedOnce, HandOver, Goto
<1>11. ASSUME NEW r \in Requests, HandOverFails(r)
       PROVE  RequestCountedOnce'
  BY <1>11 DEF TypeOK, Placed, RequestCountedOnce, HandOverFails, Done, Goto
<1>12. ASSUME NEW r \in Requests, CopyEnds(r)
       PROVE  RequestCountedOnce'
  BY <1>12 DEF TypeOK, Placed, RequestCountedOnce, CopyEnds, Done, Goto
<1>13. ASSUME NEW r \in Requests, NEW o \in Outcomes, PipeEnds(r, o)
       PROVE  RequestCountedOnce'
  BY <1>13 DEF TypeOK, Placed, RequestCountedOnce, PipeEnds, Done, Goto, Outcomes
<1>14. ASSUME NEW items \in SUBSET Upstreams, ReplacePool(items)
       PROVE  RequestCountedOnce'
  BY <1>14 DEF TypeOK, Placed, RequestCountedOnce, ReplacePool
<1>15. ASSUME NEW t \in Thresholds, ApplyConfig(t)
       PROVE  RequestCountedOnce'
  BY <1>15 DEF TypeOK, Placed, RequestCountedOnce, ApplyConfig
<1>16. CASE Tick
  BY <1>16 DEF TypeOK, Placed, RequestCountedOnce, Tick
<1> QED
  BY <1>1, <1>2, <1>3, <1>4, <1>5, <1>6, <1>7, <1>8, <1>9, <1>10, <1>11, <1>12,
     <1>13, <1>14, <1>15, <1>16, Steps

\* ProbeAccounted of one upstream.
Accounted(u) ==
  /\ probe[u] = IF Probing(u) # {} \/ u \in lost THEN 1 ELSE 0
  /\ \A r, q \in Probing(u) : r = q
  /\ u \in lost => Probing(u) = {}
  /\ \A r \in Probing(u) : pc[r] \in Holding

LEMMA Pointwise ==
  /\ ProbeAccounted <=> \A u \in Upstreams : Accounted(u)
  /\ ProbeAccounted' <=> \A u \in Upstreams : Accounted(u)'
  BY Zenon DEF ProbeAccounted, Accounted

\* A report takes the probe of its upstream off, and the request that reports does
\* not hold it any more.
LEMMA ProbeReported ==
  ASSUME TypeOK, Placed, ProbeAccounted, NEW r \in Requests,
         up[r] \in Upstreams, ProbeOver(up[r]),
         \A q \in Requests \ {r} : up'[q] = up[q] /\ pc'[q] = pc[q]
  PROVE  ProbeAccounted'
<1> SUFFICES ASSUME NEW u \in Upstreams
             PROVE  Accounted(u)'
  BY Pointwise
<1>0. Accounted(u)
  BY Pointwise
<1>1. granted'[r] = FALSE
  BY DEF ProbeOver
<1>2. CASE u = up[r]
  <2>1. Probing(u)' = {}
    BY <1>1, <1>2 DEF Probing, ProbeOver
  <2>2. probe'[u] = 0 /\ u \notin lost'
    BY <1>2 DEF TypeOK, ProbeOver
  <2> QED
    BY <2>1, <2>2 DEF Accounted
<1>3. CASE u # up[r]
  <2>1. Probing(u)' = Probing(u)
    BY <1>1, <1>3 DEF Probing, ProbeOver
  <2>2. probe'[u] = probe[u] /\ (u \in lost' <=> u \in lost)
    BY <1>3 DEF TypeOK, ProbeOver
  <2>3. \A q \in Probing(u) : pc'[q] = pc[q]
    BY <1>3 DEF Probing
  <2> QED
    BY <1>0, <2>1, <2>2, <2>3 DEF Accounted
<1> QED
  BY <1>2, <1>3

\* As long as no probe moves and no probe is granted or taken.
LEMMA ProbeUntouched ==
  ASSUME ProbeAccounted, UNCHANGED <<probe, granted, lost>>,
         \A q \in Requests :
           IF granted[q] THEN up'[q] = up[q] /\ pc'[q] \in Holding ELSE TRUE
  PROVE  ProbeAccounted'
<1>1. \A u \in Upstreams : Probing(u)' = Probing(u)
  BY DEF Probing
<1>2. \A u \in Upstreams : \A q \in Probing(u)' : pc'[q] \in Holding
  BY DEF Probing
<1> QED
  BY <1>1, <1>2, Pointwise DEF Accounted

\* A selection makes the request the probe only where there is none.
LEMMA ProbeGranted ==
  ASSUME TypeOK, Placed, ProbeAccounted, NEW r \in Requests, NEW u \in Upstreams,
         NEW b \in BOOLEAN, pc[r] = "choose", b => probe[u] = 0, Use(r, u, b),
         lost' = lost
  PROVE  ProbeAccounted'
<1> SUFFICES ASSUME NEW v \in Upstreams
             PROVE  Accounted(v)'
  BY Pointwise
<1>0. Accounted(v)
  BY Pointwise
<1>1. granted[r] = FALSE
  BY DEF TypeOK, Placed
<1>2. \A q \in Probing(v) : q # r /\ pc'[q] = pc[q]
  BY <1>1 DEF TypeOK, Probing, Use, Goto
<1>3. CASE b /\ v = u
  <2>1. Probing(v) = {} /\ v \notin lost
    BY <1>0, <1>3 DEF Accounted
  <2>2. Probing(v)' = {r}
    BY <1>3, <2>1 DEF TypeOK, Probing, Use
  <2>3. probe'[v] = 1 /\ pc'[r] = "attempt"
    BY <1>3 DEF TypeOK, Use, Goto
  <2> QED
    BY <2>1, <2>2, <2>3 DEF Accounted
<1>4. CASE ~(b /\ v = u)
  <2>1. Probing(v)' = Probing(v)
    BY <1>1, <1>4 DEF TypeOK, Probing, Use
  <2>2. probe'[v] = probe[v]
    BY <1>4 DEF TypeOK, Use
  <2> QED
    BY <1>0, <1>2, <2>1, <2>2 DEF Accounted
<1> QED
  BY <1>3, <1>4

LEMMA Accounting ==
  ASSUME TypeOK, Placed, ProbeAccounted, Next
  PROVE  ProbeAccounted'
<1>1. ASSUME NEW r \in Requests, Accept(r)
      PROVE  ProbeAccounted'
  BY <1>1, ProbeUntouched DEF TypeOK, Placed, Accept, Goto
<1>2. ASSUME NEW r \in Requests, SelectActive(r)
      PROVE  ProbeAccounted'
  <2>1. PICK u \in Active(r) : Use(r, u, HalfOpen(u))
    BY <1>2 DEF SelectActive
  <2>2. u \in Upstreams /\ HalfOpen(u) \in BOOLEAN /\ (HalfOpen(u) => probe[u] = 0)
    BY DEF TypeOK, Active, Untried, Selectable, HalfOpen
  <2>3. pc[r] = "choose" /\ lost' = lost
    BY <1>2 DEF SelectActive
  <2> QED
    BY <2>1, <2>2, <2>3, ProbeGranted
<1>3. ASSUME NEW r \in Requests, SelectDegraded(r)
      PROVE  ProbeAccounted'
  <2>1. PICK u \in LastResort(r) : Use(r, u, TRUE)
    BY <1>3 DEF SelectDegraded
  <2>2. u \in Upstreams /\ probe[u] = 0
    BY DEF TypeOK, LastResort, Idle, Untried
  <2>3. pc[r] = "choose" /\ lost' = lost
    BY <1>3 DEF SelectDegraded
  <2> QED
    BY <2>1, <2>2, <2>3, ProbeGranted
<1>4. ASSUME NEW r \in Requests, NothingToSelect(r)
      PROVE  ProbeAccounted'
  BY <1>4, ProbeUntouched DEF TypeOK, Placed, NothingToSelect, Goto
<1>5. ASSUME NEW r \in Requests, AttemptFails(r)
      PROVE  ProbeAccounted'
  <2>1. up[r] \in Upstreams /\ ProbeOver(up[r])
    BY <1>5 DEF Placed, AttemptFails, ReportFailure
  <2> QED
    BY <1>5, <2>1, ProbeReported DEF TypeOK, AttemptFails, NextAttempt, Goto
<1>6. ASSUME NEW r \in Requests, DialCutOff(r)
      PROVE  ProbeAccounted'
  <2>1. up[r] \in Upstreams /\ ProbeOver(up[r])
    BY <1>6 DEF Placed, DialCutOff, ReportFailure
  <2> QED
    BY <1>6, <2>1, ProbeReported DEF TypeOK, DialCutOff, Goto
<1>7. ASSUME NEW r \in Requests, TunnelOpens(r)
      PROVE  ProbeAccounted'
  BY <1>7, ProbeUntouched DEF TypeOK, Placed, TunnelOpens, Goto
<1>8. ASSUME NEW r \in Requests, NEW o \in Responses, Respond(r, o)
      PROVE  ProbeAccounted'
  <2>1. CASE Rejects(o)
    <3>1. up[r] \in Upstreams /\ ProbeOver(up[r])
      BY <1>8, <2>1 DEF Placed, Respond, ReportFailure
    <3> QED
      BY <1>8, <2>1, <3>1, ProbeReported DEF TypeOK, Respond, Goto
  <2>2. CASE ~Rejects(o)
    BY <1>8, <2>2, ProbeUntouched DEF TypeOK, Placed, Respond, Goto
  <2> QED
    BY <2>1, <2>2
<1>9. ASSUME NEW r \in Requests, GiveUp(r)
      PROVE  ProbeAccounted'
  BY <1>9, ProbeUntouched DEF TypeOK, Placed, GiveUp, Done, Goto
<1>10. ASSUME NEW r \in Requests, HandOver(r)
       PROVE  ProbeAccounted'
  BY <1>10, ProbeUntouched DEF TypeOK, Placed, HandOver, Goto
<1>11. ASSUME NEW r \in Requests, HandOverFails(r)
       PROVE  ProbeAccounted'
  <2>1. up[r] \in Upstreams /\ probe' = probe
    BY <1>11 DEF Placed, HandOverFails
  <2>2. \A q \in Requests : IF q = r THEN granted'[q] = FALSE
                          ELSE /\ granted'[q] = granted[q]
                               /\ up'[q] = up[q] /\ pc'[q] = pc[q]
    BY <1>11 DEF TypeOK, HandOverFails, Done, Goto
  <2>3. CASE granted[r]
    <3>1. PICK u \in Upstreams : u = up[r]
      BY <2>1
    <3>2. lost' = lost \union {u}
      BY <1>11, <2>3, <3>1 DEF HandOverFails
    <3>3. r \in Probing(u) /\ Accounted(u)
      BY <2>3, <3>1, Pointwise DEF Probing
    <3>4. \A q \in Probing(u) : q = r
      BY <3>3 DEF Accounted
    <3>5. Probing(u)' = {}
      <4>1. \A q \in Requests : granted'[q] /\ up'[q] = u => q \in Probing(u)
        BY <2>2 DEF Probing
      <4>2. \A q \in Requests : ~(granted'[q] /\ up'[q] = u)
        BY <2>2, <3>4, <4>1
      <4> QED
        BY <4>2 DEF Probing
    <3>6. probe'[u] = 1
      BY <2>1, <3>3 DEF Accounted
    <3> SUFFICES ASSUME NEW v \in Upstreams
                 PROVE  Accounted(v)'
      BY Pointwise
    <3>7. CASE v = u
      BY <3>2, <3>5, <3>6, <3>7 DEF Accounted
    <3>8. CASE v # u
      <4>1. Probing(v)' = Probing(v) /\ \A q \in Probing(v) : pc'[q] = pc[q]
        BY <2>2, <3>1, <3>8 DEF Probing
      <4>2. Accounted(v)
        BY Pointwise
      <4> QED
        BY <2>1, <3>2, <3>8, <4>1, <4>2 DEF Accounted
    <3> QED
      BY <3>7, <3>8
  <2>4. CASE ~granted[r]
    BY <1>11, <2>2, <2>4, ProbeUntouched DEF TypeOK, Placed, HandOverFails
  <2> QED
    BY <2>3, <2>4 DEF TypeOK
<1>12. ASSUME NEW r \in Requests, CopyEnds(r)
       PROVE  ProbeAccounted'
  <2>1. CASE pc[r] = "copy"
    <3>1. up[r] \in Upstreams /\ ProbeOver(up[r])
      BY <1>12, <2>1 DEF Placed, CopyEnds, ReportSuccess
    <3> QED
      BY <1>12, <3>1, ProbeReported DEF TypeOK, CopyEnds, Done, Goto
  <2>2. CASE pc[r] # "copy"
    BY <1>12, <2>2, ProbeUntouched DEF TypeOK, Placed, CopyEnds, Done, Goto
  <2> QED
    BY <2>1, <2>2
<1>13. ASSUME NEW r \in Requests, NEW o \in Outcomes, PipeEnds(r, o)
       PROVE  ProbeAccounted'
  <2>1. up[r] \in Upstreams /\ ProbeOver(up[r])
    BY <1>13, ReportEnds DEF Placed, PipeEnds, Report
  <2> QED
    BY <1>13, <2>1, ProbeReported DEF TypeOK, PipeEnds, Done, Goto
<1>14. ASSUME NEW items \in SUBSET Upstreams, ReplacePool(items)
       PROVE  ProbeAccounted'
  <2> SUFFICES ASSUME NEW u \in Upstreams
               PROVE  Accounted(u)'
    BY Pointwise
  <2>1. up' = up /\ \A r \in Requests : granted'[r] <=> granted[r] /\ up[r] \in items
    BY <1>14 DEF ReplacePool
  <2>2. /\ probe'[u] = IF u \in items THEN probe[u] ELSE 0
        /\ u \in lost' <=> u \in lost /\ u \in items
    BY <1>14 DEF ReplacePool
  <2>3. pc' = pc /\ Accounted(u)
    BY <1>14, Pointwise DEF ReplacePool
  <2>4. CASE u \in items
    <3>1. Probing(u)' = Probing(u)
      BY <2>1, <2>4 DEF Probing
    <3> QED
      BY <2>2, <2>3, <2>4, <3>1 DEF Accounted
  <2>5. CASE u \notin items
    <3>1. Probing(u)' = {}
      BY <2>1, <2>5 DEF Probing
    <3> QED
      BY <2>2, <2>5, <3>1 DEF Accounted
  <2> QED
    BY <2>4, <2>5
<1>15. ASSUME NEW t \in Thresholds, ApplyConfig(t)
       PROVE  ProbeAccounted'
  BY <1>15, ProbeUntouched DEF TypeOK, Placed, ApplyConfig
<1>16. CASE Tick
  BY <1>16, ProbeUntouched DEF TypeOK, Placed, Tick
<1> QED
  BY <1>1, <1>2, <1>3, <1>4, <1>5, <1>6, <1>7, <1>8, <1>9, <1>10, <1>11, <1>12,
     <1>13, <1>14, <1>15, <1>16, Steps

-----------------------------------------------------------------------------
IInv == TypeOK /\ Placed /\ ProbeAccounted /\ RequestCountedOnce

LEMMA Starts ==
  ASSUME Init
  PROVE  IInv
<1>1. TypeOK /\ Placed /\ RequestCountedOnce
  BY DEF Init, TypeOK, Placed, RequestCountedOnce
<1>2. ProbeAccounted
  <2>1. \A u \in Upstreams : Probing(u) = {}
    BY DEF Init, Probing
  <2> QED
    BY <2>1 DEF Init, ProbeAccounted
<1> QED
  BY <1>1, <1>2 DEF IInv

LEMMA Stutters ==
  ASSUME IInv, UNCHANGED vars
  PROVE  IInv'
  BY DEF IInv, TypeOK, Placed, ProbeAccounted, Probing, RequestCountedOnce

\* IInv holds in every state.
THEOREM Invariance == Spec => []IInv
<1>1. Init => IInv
  BY Starts
<1>2. IInv /\ [Next]_vars => IInv'
  BY Types, Places, Counting, Accounting, Stutters DEF IInv
<1> QED
  BY <1>1, <1>2, PTL DEF Spec

\* All numbers stay within the bounds the code means them to have; the counters of
\* probes never go below 0.
THEOREM TypeCorrect == Spec => []TypeOK
<1>1. IInv => TypeOK
  BY DEF IInv
<1> QED
  BY <1>1, Invariance, PTL

\* Whatever the requests, reports, refreshes and settings do, an upstream has at most
\* one unreported probe and HalfOpenInFlight says so, but for hand-overs that failed.
THEOREM Probes == Spec => []ProbeAccounted
<1>1. IInv => ProbeAccounted
  BY DEF IInv
<1> QED
  BY <1>1, Invariance, PTL

\* However often it is tried, a request is added to the counters once.
THEOREM CountedOnce == Spec => []RequestCountedOnce
<1>1. IInv => RequestCountedOnce
  BY DEF IInv
<1> QED
  BY <1>1, Invariance, PTL

-----------------------------------------------------------------------------
Forgotten(u) == count'[u] < count[u] \/ wait'[u] + 1 < wait[u]

\* What allows an upstream's history to be forgotten.
Excused(u) ==
  \/ u \notin pool'
  \/ \E r \in Requests :
       /\ up[r] = u /\ pc[r] \in {"copy", "pipe"} /\ pc'[r] = "idle"
       /\ counted'[r] # counted[r]

\* Neither a failure nor a neutral report makes the gateway forget one.
LEMMA FailureKeeps ==
  ASSUME TypeOK, NEW v \in Upstreams, NEW b \in BOOLEAN,
         ReportFailure(v, b) \/ ReportNeutral(v),
         NEW u \in Upstreams
  PROVE  ~Forgotten(u)
<1>1. count[u] \in Nat /\ wait[u] \in 0 .. Cooldown
  BY DEF TypeOK
<1>2. ASSUME ReportFailure(v, b)
      PROVE  ~Forgotten(u)
  <2>1. Failures(v, b) \in 0 .. MaxCount /\ Failures(v, b) >= count[v]
    BY FailuresGrow
  <2>2. count'[u] >= count[u]
    BY <1>1, <1>2, <2>1 DEF TypeOK, ReportFailure
  <2>3. wait'[u] \in Nat /\ wait'[u] >= wait[u]
    BY <1>1, <1>2, <2>1 DEF TypeOK, ReportFailure
  <2>4. count'[u] \in Nat
    BY <1>1, <1>2, <2>1 DEF TypeOK, ReportFailure
  <2> QED
    BY <1>1, <2>2, <2>3, <2>4 DEF Forgotten
<1>3. ASSUME ReportNeutral(v)
      PROVE  ~Forgotten(u)
  BY <1>1, <1>3 DEF ReportNeutral, Forgotten
<1> QED
  BY <1>2, <1>3

\* Nor does a success, but of its own upstream.
LEMMA SuccessForgets ==
  ASSUME TypeOK, NEW v \in Upstreams, ReportSuccess(v), NEW u \in Upstreams, u # v
  PROVE  ~Forgotten(u)
  BY DEF TypeOK, ReportSuccess, Forgotten

LEMMA StayingKeeps ==
  ASSUME TypeOK, NEW u \in Upstreams, UNCHANGED <<count, wait>>
  PROVE  ~Forgotten(u)
  BY DEF TypeOK, Forgotten

LEMMA Keeping ==
  ASSUME TypeOK, Placed, Next, NEW u \in Upstreams, Forgotten(u)
  PROVE  Excused(u)
<1>1. ASSUME NEW r \in Requests,
             \/ Accept(r) \/ SelectActive(r) \/ SelectDegraded(r)
             \/ NothingToSelect(r) \/ TunnelOpens(r) \/ GiveUp(r)
             \/ HandOver(r) \/ HandOverFails(r)
      PROVE  FALSE
  <2>1. UNCHANGED <<count, wait>>
    BY <1>1 DEF Accept, SelectActive, SelectDegraded, NothingToSelect, TunnelOpens,
                GiveUp, HandOver, HandOverFails
  <2> QED
    BY <2>1, StayingKeeps
<1>2. ASSUME NEW r \in Requests, AttemptFails(r) \/ DialCutOff(r)
      PROVE  FALSE
  <2>1. up[r] \in Upstreams /\ ReportFailure(up[r], FALSE)
    BY <1>2 DEF Placed, AttemptFails, DialCutOff
  <2> QED
    BY <2>1, FailureKeeps
<1>3. ASSUME NEW r \in Requests, NEW o \in Responses, Respond(r, o)
      PROVE  FALSE
  <2>1. CASE Rejects(o)
    <3>1. up[r] \in Upstreams /\ ReportFailure(up[r], TRUE)
      BY <1>3, <2>1 DEF Placed, Respond
    <3> QED
      BY <3>1, FailureKeeps
  <2>2. CASE ~Rejects(o)
    BY <1>3, <2>2, StayingKeeps DEF Respond
  <2> QED
    BY <2>1, <2>2
<1>4. ASSUME NEW r \in Requests, ReportSuccess(up[r]), pc[r] \in {"copy", "pipe"},
             counted' = [counted EXCEPT ![r] = @ + 1], Done(r)
      PROVE  Excused(u)
  <2>1. up[r] \in Upstreams
    BY <1>4 DEF Placed
  <2>2. up[r] = u
    BY <1>4, <2>1, SuccessForgets
  <2>3. pc'[r] = "idle"
    BY <1>4 DEF TypeOK, Done, Goto
  <2>4. counted'[r] = counted[r] + 1 /\ counted[r] \in Nat
    BY <1>4 DEF TypeOK
  <2>5. counted'[r] # counted[r]
    BY <2>4
  <2> QED
    BY <1>4, <2>2, <2>3, <2>5 DEF Excused
<1>5. ASSUME NEW r \in Requests, CopyEnds(r)
      PROVE  Excused(u)
  <2>1. CASE pc[r] = "copy"
    BY <1>4, <1>5, <2>1 DEF CopyEnds
  <2>2. CASE pc[r] # "copy"
    BY <1>5, <2>2, StayingKeeps DEF CopyEnds
  <2> QED
    BY <2>1, <2>2
<1>6. ASSUME NEW r \in Requests, NEW o \in Outcomes, PipeEnds(r, o)
      PROVE  Excused(u)
  <2>1. up[r] \in Upstreams
    BY <1>6 DEF Placed, PipeEnds
  <2>2. CASE o = "success" /\ ReportSuccess(up[r])
    BY <1>4, <1>6, <2>2 DEF PipeEnds
  <2>3. CASE ReportFailure(up[r], FALSE) \/ ReportNeutral(up[r])
    BY <2>1, <2>3, FailureKeeps
  <2> QED
    BY <1>6, <2>2, <2>3 DEF PipeEnds
<1>7. ASSUME NEW items \in SUBSET Upstreams, ReplacePool(items)
      PROVE  Excused(u)
  <2>1. CASE u \in items
    BY <1>7, <2>1 DEF TypeOK, ReplacePool, Forgotten
  <2>2. CASE u \notin items
    BY <1>7, <2>2 DEF ReplacePool, Excused
  <2> QED
    BY <2>1, <2>2
<1>8. ASSUME NEW t \in Thresholds, ApplyConfig(t)
      PROVE  FALSE
  BY <1>8, StayingKeeps DEF ApplyConfig
<1>9. ASSUME Tick
      PROVE  FALSE
  <2>1. wait'[u] = IF wait[u] > 0 THEN wait[u] - 1 ELSE 0
    BY <1>9 DEF Tick
  <2>2. count'[u] = count[u] /\ count[u] \in Nat /\ wait[u] \in Nat
    BY <1>9 DEF TypeOK, Tick
  <2> QED
    BY <2>1, <2>2 DEF Forgotten
<1> QED
  BY <1>1, <1>2, <1>3, <1>5, <1>6, <1>7, <1>8, <1>9, Steps

\* Failures and isolations are forgotten only for a request that used the upstream
\* and is counted, or with an upstream that leaves the pool.
THEOREM History == Spec => HistoryKept
<1> DEFINE Step == \A u \in Upstreams : Forgotten(u) => Excused(u)
<1>1. IInv /\ Next => Step
  BY Keeping DEF IInv
<1>2. UNCHANGED vars => [Step]_vars
  OBVIOUS
<1>3. IInv /\ [Next]_vars => [Step]_vars
  BY <1>1, <1>2
<1>4. Spec => [][Step]_vars
  BY <1>3, Invariance, PTL DEF Spec
<1> QED
  BY <1>4 DEF HistoryKept, Forgotten, Excused

-----------------------------------------------------------------------------
(* Refinement of CircuitBreaker *)

States == [u \in Upstreams |-> State(u)]
Probings == [u \in Upstreams |-> Probing(u)]

BreakerStep == Breaker!Next \/ UNCHANGED <<States, Probings, lost>>

LEMMA StateTypes ==
  ASSUME NEW u \in Upstreams
  PROVE  State(u) \in {"closed", "open", "half-open"}
BY DEF State

\* A breaker depends on the numbers of its upstream and on the threshold.
LEMMA SameStates ==
  ASSUME UNCHANGED <<threshold, count, wait>>
  PROVE  States' = States
BY DEF States, State, Tripped, HalfOpen

\* Requests that hold no probe may do what they like.
LEMMA SameProbings ==
  ASSUME TypeOK, granted' = granted, \A q \in Requests : granted[q] => up'[q] = up[q]
  PROVE  Probings' = Probings
<1>1. \A u \in Upstreams : Probing(u)' = Probing(u)
  BY DEF TypeOK, Probing
<1> QED
  BY <1>1 DEF Probings

LEMMA Unnoticed ==
  ASSUME TypeOK, UNCHANGED <<threshold, count, wait, granted, lost>>,
         \A q \in Requests : granted[q] => up'[q] = up[q]
  PROVE  BreakerStep
BY SameStates, SameProbings DEF BreakerStep

\* A report ends the probe of its upstream, whoever reports.
LEMMA ReportedProbe ==
  ASSUME TypeOK, NEW r \in Requests, NEW u \in Upstreams, up[r] = u, ProbeOver(u),
         \A q \in Requests \ {r} : up'[q] = up[q]
  PROVE  Breaker!Reported(u)
<1>1. \A q \in Requests : granted'[q] <=> granted[q] /\ up[q] # u
  BY DEF ProbeOver, TypeOK
<1>2. Probing(u)' = {}
  BY <1>1 DEF Probing
<1>3. ASSUME NEW v \in Upstreams, v # u
      PROVE  Probing(v)' = Probing(v)
  BY <1>1, <1>3 DEF Probing
<1>4. Probings' = [Probings EXCEPT ![u] = {}]
  BY <1>2, <1>3 DEF Probings
<1> QED
  BY <1>4 DEF ProbeOver, Breaker!Reported, Probings

\* What a report makes of the breaker of its upstream.
LEMMA ReportedState ==
  ASSUME TypeOK, NEW u \in Upstreams, threshold' = threshold
  PROVE  /\ ReportSuccess(u) => States' = [States EXCEPT ![u] = "closed"]
         /\ ReportNeutral(u) => States' = States
         /\ \A b \in BOOLEAN : ReportFailure(u, b) =>
              \E s \in IF State(u) = "closed" THEN {"closed", "open"} ELSE {"open"} :
                States' = [States EXCEPT ![u] = s]
<1>0. threshold \in Nat /\ threshold # 0 /\ threshold <= MaxCount
  BY DEF TypeOK
<1>1. ASSUME ReportSuccess(u)
      PROVE  States' = [States EXCEPT ![u] = "closed"]
  <2>1. State(u)' = "closed"
    BY <1>0, <1>1 DEF TypeOK, ReportSuccess, State, Tripped
  <2>2. \A v \in Upstreams \ {u} : State(v)' = State(v)
    BY <1>1 DEF TypeOK, ReportSuccess, State, Tripped, HalfOpen
  <2> QED
    BY <2>1, <2>2 DEF States
<1>2. ASSUME ReportNeutral(u)
      PROVE  States' = States
  BY <1>2, SameStates DEF ReportNeutral
<1>3. ASSUME NEW b \in BOOLEAN, ReportFailure(u, b)
      PROVE  \E s \in IF State(u) = "closed" THEN {"closed", "open"} ELSE {"open"} :
               States' = [States EXCEPT ![u] = s]
  <2> DEFINE n == Failures(u, b)
  <2>1. n \in 0 .. MaxCount /\ n >= count[u]
    BY FailuresGrow
  <2>2. /\ count' = [count EXCEPT ![u] = n]
        /\ wait' = IF n >= threshold THEN [wait EXCEPT ![u] = Cooldown] ELSE wait
    BY <1>3 DEF ReportFailure
  <2> HIDE DEF n
  <2>3. \A v \in Upstreams \ {u} : State(v)' = State(v)
    BY <2>2 DEF TypeOK, State, Tripped, HalfOpen
  <2>4. n >= threshold => State(u)' = "open"
    BY <1>0, <2>1, <2>2 DEF TypeOK, State, Tripped, HalfOpen
  <2>5. n < threshold => State(u)' = "closed" /\ State(u) = "closed"
    BY <1>0, <2>1, <2>2 DEF TypeOK, State, Tripped, HalfOpen
  <2>6. n >= threshold \/ n < threshold
    BY <1>0, <2>1
  <2>7. States' = [States EXCEPT ![u] = State(u)']
    BY <2>3 DEF States
  <2> QED
    BY <2>4, <2>5, <2>6, <2>7
<1> QED
  BY <1>1, <1>2, <1>3

LEMMA ReportStep ==
  ASSUME TypeOK, NEW r \in Requests, up[r] \in Upstreams, Report(up[r]),
         threshold' = threshold, \A q \in Requests \ {r} : up'[q] = up[q]
  PROVE  BreakerStep
<1>0. PICK u \in Upstreams : u = up[r]
  OBVIOUS
<1>1. Breaker!Reported(u)
  BY <1>0, ReportEnds, ReportedProbe
<1>2. CASE ReportSuccess(u)
  <2>1. Breaker!Succeed(u)
    BY <1>1, <1>2, ReportedState DEF Breaker!Succeed, States
  <2> QED
    BY <2>1 DEF BreakerStep, Breaker!Next
<1>3. CASE ReportNeutral(u)
  <2>1. Breaker!Neutral(u)
    BY <1>1, <1>3, ReportedState DEF Breaker!Neutral, States
  <2> QED
    BY <2>1 DEF BreakerStep, Breaker!Next
<1>4. ASSUME NEW b \in BOOLEAN, ReportFailure(u, b)
      PROVE  BreakerStep
  <2>1. States[u] = State(u)
    BY DEF States
  <2>2. \E s \in IF States[u] = "closed" THEN {"closed", "open"} ELSE {"open"} :
          States' = [States EXCEPT ![u] = s]
    BY <1>4, <2>1, ReportedState
  <2>3. Breaker!Fail(u)
    BY <1>1, <2>2 DEF Breaker!Fail, States
  <2> QED
    BY <2>3 DEF BreakerStep, Breaker!Next
<1> QED
  BY <1>0, <1>2, <1>3, <1>4 DEF Report

\* A request that is let in while the breaker is not closed is its only probe.
LEMMA SelectStep ==
  ASSUME TypeOK, Placed, ProbeAccounted, NEW r \in Requests, NEW u \in Upstreams,
         NEW b \in BOOLEAN, pc[r] = "choose", b => probe[u] = 0 /\ Tripped(u),
         Use(r, u, b), UNCHANGED <<threshold, count, wait, lost>>
  PROVE  BreakerStep
<1>0. granted[r] = FALSE
  BY DEF TypeOK, Placed
<1>1. \A q \in Requests \ {r} : up'[q] = up[q] /\ granted'[q] = granted[q]
  BY DEF TypeOK, Use
<1>2. up'[r] = u /\ granted'[r] = b
  BY DEF TypeOK, Use
<1>3. States' = States
  BY SameStates
<1>4. CASE b
  <2>1. Probing(u) = {} /\ u \notin lost
    BY <1>4, Pointwise DEF Accounted
  <2>2. Probing(u)' = {r}
    BY <1>1, <1>2, <1>4, <2>1 DEF Probing
  <2>3. \A v \in Upstreams \ {u} : Probing(v)' = Probing(v)
    BY <1>0, <1>1, <1>2 DEF Probing
  <2>4. Probings' = [Probings EXCEPT ![u] = {r}] /\ Probings[u] = {}
    BY <2>1, <2>2, <2>3 DEF Probings
  <2>5. States[u] # "closed"
    BY <1>4 DEF States, State, Tripped
  <2>6. Breaker!Probe(u, r)
    BY <1>3, <2>1, <2>4, <2>5 DEF Breaker!Probe, States, Probings
  <2> QED
    BY <2>6 DEF BreakerStep, Breaker!Next
<1>5. CASE ~b
  <2>1. \A v \in Upstreams : Probing(v)' = Probing(v)
    BY <1>0, <1>1, <1>2, <1>5 DEF Probing
  <2> QED
    BY <1>3, <2>1 DEF BreakerStep, Probings
<1> QED
  BY <1>4, <1>5

\* Every step of the gateway is a step of the breakers.
LEMMA BreakerSteps ==
  ASSUME IInv, Next
  PROVE  BreakerStep
<1>0. TypeOK /\ Placed /\ ProbeAccounted
  BY DEF IInv
<1>1. ASSUME NEW r \in Requests, Accept(r)
      PROVE  BreakerStep
  BY <1>0, <1>1, Unnoticed DEF Accept
<1>2. ASSUME NEW r \in Requests, SelectActive(r)
      PROVE  BreakerStep
  <2>1. PICK u \in Active(r) : Use(r, u, HalfOpen(u))
    BY <1>2 DEF SelectActive
  <2>2. /\ u \in Upstreams /\ HalfOpen(u) \in BOOLEAN
        /\ HalfOpen(u) => probe[u] = 0 /\ Tripped(u)
    BY <1>0 DEF TypeOK, Active, Untried, Selectable, HalfOpen
  <2>3. pc[r] = "choose" /\ UNCHANGED <<threshold, count, wait, lost>>
    BY <1>2 DEF SelectActive
  <2> QED
    BY <1>0, <2>1, <2>2, <2>3, SelectStep
<1>3. ASSUME NEW r \in Requests, SelectDegraded(r)
      PROVE  BreakerStep
  <2>1. PICK u \in LastResort(r) : Use(r, u, TRUE)
    BY <1>3 DEF SelectDegraded
  <2>2. u \in Upstreams /\ probe[u] = 0 /\ u \in Untried(r)
    BY <1>0 DEF TypeOK, LastResort, Idle, Untried
  <2>3. Tripped(u)
    BY <1>3, <2>2 DEF SelectDegraded, Active, Selectable
  <2>4. pc[r] = "choose" /\ UNCHANGED <<threshold, count, wait, lost>>
    BY <1>3 DEF SelectDegraded
  <2> QED
    BY <1>0, <2>1, <2>2, <2>3, <2>4, SelectStep
<1>4. ASSUME NEW r \in Requests, NothingToSelect(r)
      PROVE  BreakerStep
  BY <1>0, <1>4, Unnoticed DEF NothingToSelect
<1>5. ASSUME NEW r \in Requests, AttemptFails(r)
      PROVE  BreakerStep
  <2>1. up[r] \in Upstreams /\ Report(up[r])
    BY <1>0, <1>5 DEF Placed, Report, AttemptFails
  <2> QED
    BY <1>0, <1>5, <2>1, ReportStep DEF AttemptFails
<1>6. ASSUME NEW r \in Requests, DialCutOff(r)
      PROVE  BreakerStep
  <2>1. up[r] \in Upstreams /\ Report(up[r])
    BY <1>0, <1>6 DEF Placed, Report, DialCutOff
  <2> QED
    BY <1>0, <1>6, <2>1, ReportStep DEF DialCutOff
<1>7. ASSUME NEW r \in Requests, TunnelOpens(r)
      PROVE  BreakerStep
  BY <1>0, <1>7, Unnoticed DEF TunnelOpens
<1>8. ASSUME NEW r \in Requests, NEW o \in Responses, Respond(r, o)
      PROVE  BreakerStep
  <2>1. CASE Rejects(o)
    <3>1. up[r] \in Upstreams /\ Report(up[r])
      BY <1>0, <1>8, <2>1 DEF Placed, Report, Respond
    <3> QED
      BY <1>0, <1>8, <3>1, ReportStep DEF Respond
  <2>2. CASE ~Rejects(o)
    BY <1>0, <1>8, <2>2, Unnoticed DEF Respond
  <2> QED
    BY <2>1, <2>2
<1>9. ASSUME NEW r \in Requests, GiveUp(r)
      PROVE  BreakerStep
  BY <1>0, <1>9, Unnoticed DEF TypeOK, Placed, GiveUp, Done
<1>10. ASSUME NEW r \in Requests, HandOver(r)
       PROVE  BreakerStep
  BY <1>0, <1>10, Unnoticed DEF HandOver
<1>11. ASSUME NEW r \in Requests, HandOverFails(r)
       PROVE  BreakerStep
  <2>1. /\ up[r] \in Upstreams /\ UNCHANGED <<threshold, count, wait>>
        /\ granted' = [granted EXCEPT ![r] = FALSE]
    BY <1>0, <1>11 DEF Placed, HandOverFails
  <2>2. \A q \in Requests \ {r} : up'[q] = up[q] /\ granted'[q] = granted[q]
    BY <1>0, <1>11 DEF TypeOK, HandOverFails, Done
  <2>3. granted'[r] = FALSE
    BY <1>0, <2>1 DEF TypeOK
  <2>4. CASE granted[r]
    <3>0. PICK u \in Upstreams : u = up[r]
      BY <2>1
    <3>1. lost' = lost \union {u}
      BY <1>11, <2>4, <3>0 DEF HandOverFails
    <3>2. r \in Probing(u) /\ \A q \in Probing(u) : q = r
      BY <1>0, <2>4, <3>0, Pointwise DEF Probing, Accounted
    <3>3. Probing(u)' = {}
      BY <2>2, <2>3, <3>2 DEF Probing
    <3>4. \A v \in Upstreams \ {u} : Probing(v)' = Probing(v)
      BY <2>2, <2>3, <3>0 DEF Probing
    <3>5. Probings' = [Probings EXCEPT ![u] = {}] /\ Probings[u] # {}
      BY <3>2, <3>3, <3>4 DEF Probings
    <3>6. Breaker!LoseProbe(u)
      BY <2>1, <3>1, <3>5, SameStates DEF Breaker!LoseProbe, States, Probings
    <3> QED
      BY <3>6 DEF BreakerStep, Breaker!Next
  <2>5. CASE ~granted[r]
    <3>1. UNCHANGED <<granted, lost>>
      BY <1>0, <1>11, <2>1, <2>5 DEF TypeOK, HandOverFails
    <3> QED
      BY <1>0, <2>1, <2>2, <2>5, <3>1, Unnoticed
  <2> QED
    BY <1>0, <2>4, <2>5 DEF TypeOK
<1>12. ASSUME NEW r \in Requests, CopyEnds(r)
       PROVE  BreakerStep
  <2>1. \A q \in Requests \ {r} : up'[q] = up[q]
    BY <1>0, <1>12 DEF TypeOK, CopyEnds, Done
  <2>2. CASE pc[r] = "copy"
    <3>1. up[r] \in Upstreams /\ Report(up[r])
      BY <1>0, <1>12, <2>2 DEF Placed, Report, CopyEnds
    <3> QED
      BY <1>0, <1>12, <2>1, <3>1, ReportStep DEF CopyEnds
  <2>3. CASE pc[r] # "copy"
    <3>1. ~granted[r]
      BY <1>0, <1>12, <2>3 DEF Placed, CopyEnds
    <3> QED
      BY <1>0, <1>12, <2>1, <2>3, <3>1, Unnoticed DEF CopyEnds
  <2> QED
    BY <2>2, <2>3
<1>13. ASSUME NEW r \in Requests, NEW o \in Outcomes, PipeEnds(r, o)
       PROVE  BreakerStep
  <2>1. up[r] \in Upstreams /\ Report(up[r])
    BY <1>0, <1>13 DEF Placed, Report, PipeEnds, Outcomes
  <2>2. \A q \in Requests \ {r} : up'[q] = up[q]
    BY <1>0, <1>13 DEF TypeOK, PipeEnds, Done
  <2> QED
    BY <1>0, <1>13, <2>1, <2>2, ReportStep DEF PipeEnds
<1>14. ASSUME NEW items \in SUBSET Upstreams, ReplacePool(items)
       PROVE  BreakerStep
  <2> DEFINE gone == Upstreams \ items
  <2>1. \A u \in Upstreams : State(u)' = IF u \in gone THEN "closed" ELSE State(u)
    BY <1>0, <1>14 DEF TypeOK, ReplacePool, State, Tripped, HalfOpen
  <2>2. \A u \in Upstreams : Probing(u)' = IF u \in gone THEN {} ELSE Probing(u)
    <3>1. up' = up /\ \A r \in Requests : granted'[r] <=> granted[r] /\ up[r] \in items
      BY <1>14 DEF ReplacePool
    <3>2. ASSUME NEW u \in items
          PROVE  Probing(u)' = Probing(u)
      BY <3>1 DEF Probing
    <3>3. ASSUME NEW u \in gone
          PROVE  Probing(u)' = {}
      BY <3>1 DEF Probing
    <3> QED
      BY <3>2, <3>3
  <2>3. lost' = lost \ gone
    BY <1>0, <1>14 DEF TypeOK, ReplacePool
  <2>4. Breaker!Forget(gone)
    BY <2>1, <2>2, <2>3 DEF Breaker!Forget
  <2> QED
    BY <2>4 DEF BreakerStep, Breaker!Next
<1>15. ASSUME NEW t \in Thresholds, ApplyConfig(t)
       PROVE  BreakerStep
  <2>0. UNCHANGED <<count, wait, granted, lost, up>> /\ threshold' = t
    BY <1>15 DEF ApplyConfig
  <2>1. Probings' = Probings
    BY <2>0 DEF Probings, Probing
  <2>2. threshold \in Nat /\ t \in Nat /\ \A u \in Upstreams : count[u] \in Nat
    BY <1>0 DEF TypeOK
  <2>3. CASE t >= threshold
    <3>1. \A u \in Upstreams : State(u)' = IF count[u] < t THEN "closed" ELSE State(u)
      BY <2>0, <2>2, <2>3 DEF State, Tripped, HalfOpen
    <3>2. States' = [u \in Upstreams |->
                       IF u \in {v \in Upstreams : count[v] < t} THEN "closed" ELSE States[u]]
      BY <3>1 DEF States
    <3>3. Breaker!Relax
      BY <2>0, <2>1, <3>2 DEF Breaker!Relax, States, Probings
    <3> QED
      BY <3>3 DEF BreakerStep, Breaker!Next
  <2>4. CASE t < threshold
    <3>1. \A u \in Upstreams : State(u) # "closed" => State(u)' = State(u)
      BY <2>0, <2>2, <2>4 DEF State, Tripped, HalfOpen
    <3>2. \A u \in Upstreams : State(u)' \in {"closed", "open", "half-open"}
      BY DEF State
    <3>3. Breaker!Tighten
      BY <2>0, <2>1, <3>1, <3>2 DEF Breaker!Tighten, Breaker!States, Probings
    <3> QED
      BY <3>3 DEF BreakerStep, Breaker!Next
  <2> QED
    BY <2>2, <2>3, <2>4
<1>16. CASE Tick
  <2>0. /\ UNCHANGED <<threshold, count, granted, lost, up>>
        /\ \A u \in Upstreams : wait'[u] = IF wait[u] > 0 THEN wait[u] - 1 ELSE 0
        /\ \A u \in Upstreams : wait[u] \in Nat
    BY <1>0, <1>16 DEF TypeOK, Tick
  <2>1. Probings' = Probings
    BY <2>0 DEF Probings, Probing
  <2> DEFINE cooled == {u \in Upstreams : States[u] = "open" /\ wait[u] = 1}
  <2>2. \A u \in Upstreams : State(u)' = IF u \in cooled THEN "half-open" ELSE State(u)
    BY <2>0 DEF States, State, Tripped, HalfOpen
  <2>3. States' = [u \in Upstreams |-> IF u \in cooled THEN "half-open" ELSE States[u]]
    BY <2>2 DEF States
  <2>4. cooled \in SUBSET {u \in Upstreams : States[u] = "open"}
    OBVIOUS
  <2>5. Breaker!CoolDown
    <3> HIDE DEF cooled
    <3> QED  BY <2>0, <2>1, <2>3, <2>4 DEF Breaker!CoolDown, States, Probings
  <2> QED
    BY <2>5 DEF BreakerStep, Breaker!Next
<1> QED
  BY <1>1, <1>2, <1>3, <1>4, <1>5, <1>6, <1>7, <1>8, <1>9, <1>10, <1>11, <1>12,
     <1>13, <1>14, <1>15, <1>16, Steps

\* Whatever the requests, their retries and late reports, refreshes and settings do, the
\* numbers of an upstream make a circuit breaker.
THEOREM Refinement == Spec => ImplementsBreaker
<1>1. Init => Breaker!Init
  <2> SUFFICES ASSUME Init PROVE Breaker!Init
    OBVIOUS
  <2>0. threshold \in Nat /\ threshold # 0 /\ \A u \in Upstreams : count[u] = 0
    BY DEF Init
  <2>1. \A u \in Upstreams : State(u) = "closed"
    <3>1. ASSUME NEW u \in Upstreams
          PROVE  ~Tripped(u)
      <4>1. count[u] = 0 /\ ~(0 >= threshold)
        BY <2>0
      <4> QED
        BY <4>1 DEF Tripped
    <3> QED
      BY <3>1 DEF State
  <2>2. \A u \in Upstreams : Probing(u) = {}
    BY DEF Init, Probing
  <2> QED
    BY <2>1, <2>2 DEF Init, Breaker!Init
<1>2. IInv /\ [Next]_vars => [Breaker!Next]_(Breaker!vars)
  <2>1. ASSUME IInv, Next PROVE [Breaker!Next]_(Breaker!vars)
    BY <2>1, BreakerSteps DEF BreakerStep, Breaker!vars, States, Probings
  <2>2. ASSUME UNCHANGED vars PROVE [Breaker!Next]_(Breaker!vars)
    <3>1. \A u \in Upstreams : State(u)' = State(u) /\ Probing(u)' = Probing(u)
      BY <2>2 DEF State, Tripped, HalfOpen, Probing
    <3> QED
      BY <2>2, <3>1 DEF Breaker!vars
  <2> QED
    BY <2>1, <2>2
<1> QED
  BY <1>1, <1>2, Invariance, PTL DEF Spec, ImplementsBreaker, Breaker!Spec
=============================================================================
