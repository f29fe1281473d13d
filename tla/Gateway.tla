-------------------------------- MODULE Gateway --------------------------------
(***************************************************************************)
(* The circuit breakers of the gateway (gateway_selector.go) under the     *)
(* requests that drive them (gateway.go), for one endpoint.                *)
(*                                                                         *)
(* A request is a goroutine: handleForward for plain HTTP, handleConnect   *)
(* or handleSocks5Conn for a tunnel. It selects an upstream, tries it,     *)
(* reports what came of it, and goes on with another upstream until it is  *)
(* served or out of attempts. Each hold of gatewaySelector.mu is one step; *)
(* between two of them other requests, reports, refreshes and settings     *)
(* come in. How a refresh gets its pool is the subject of GatewayPool;     *)
(* here a pool is replaced in one step.                                    *)
(*                                                                         *)
(* Time is relative: wait[u] is what is left of IsolatedUntil. An upstream *)
(* without an entry in `failures` is one whose three numbers are 0: all    *)
(* methods of the selector treat the two alike. Left out: the moving       *)
(* averages and latencies, which only rank upstreams that may be selected  *)
(* (the model lets a request take any of them, as one of the strategies    *)
(* would), the event log and the masked names shown in the status page.    *)
(***************************************************************************)
EXTENDS Integers

CONSTANTS
  Upstreams,   \* URLs of upstream proxies
  NoUpstream,  \* "", no upstream
  Requests,    \* goroutines serving clients
  Thresholds,  \* values FailureThreshold may be given
  Cooldown,    \* FailureCooldownS, in ticks of the model's clock
  Attempts,    \* RetryAttempts
  MaxCount     \* bound: Count is not told apart above it

ASSUME UpstreamAssumption == NoUpstream \notin Upstreams
ASSUME LimitAssumption ==
  /\ Thresholds \subseteq Nat \ {0} /\ Thresholds # {}
  /\ Cooldown \in Nat \ {0} /\ Attempts \in Nat \ {0}
  /\ MaxCount \in Nat /\ \A t \in Thresholds : t <= MaxCount

VARIABLES
  pool,       \* the URLs in `upstreams`
  threshold,  \* failureThreshold of the selector
  count,      \* Count of an upstream: failures since its last success
  wait,       \* how long it stays isolated
  probe,      \* HalfOpenInFlight
  pc,         \* where a request is
  kind,       \* "forward" or "tunnel"
  up,         \* the upstream it uses, or has used last
  tried,      \* its map `tried`
  left,       \* attempts left, the present one included
  granted,    \* history: it was let in as a probe, and its upstream has not
              \* been reported on or dropped since
  lost,       \* history: upstreams whose probe ended without any report
  counted     \* history: how often it was added to successRequests or
              \* failedRequests

breaker == <<count, wait, probe>>
request == <<pc, kind, up, tried, left>>
vars == <<pool, threshold, breaker, request, granted, lost, counted>>

Holding == {"attempt", "copy", "opened", "pipe"}  \* the request uses upstream up[r]

Init ==
  /\ pool = {}
  /\ threshold \in Thresholds
  /\ count = [u \in Upstreams |-> 0]
  /\ wait = [u \in Upstreams |-> 0]
  /\ probe = [u \in Upstreams |-> 0]
  /\ pc = [r \in Requests |-> "idle"]
  /\ kind = [r \in Requests |-> "forward"]
  /\ up = [r \in Requests |-> NoUpstream]
  /\ tried = [r \in Requests |-> {}]
  /\ left = [r \in Requests |-> 0]
  /\ granted = [r \in Requests |-> FALSE]
  /\ lost = {}
  /\ counted = [r \in Requests |-> 0]

Goto(r, l) == pc' = [pc EXCEPT ![r] = l]

\* The goroutine ends, and its locals with it.
Done(r) ==
  /\ Goto(r, "idle")
  /\ up' = [up EXCEPT ![r] = NoUpstream]
  /\ tried' = [tried EXCEPT ![r] = {}]
  /\ left' = [left EXCEPT ![r] = 0]
  /\ kind' = [kind EXCEPT ![r] = "forward"]

-----------------------------------------------------------------------------
(* The breaker of one upstream *)

Tripped(u) == count[u] >= threshold
HalfOpen(u) == Tripped(u) /\ wait[u] = 0

\* Mutant: whether a probe is on its way is not asked.
SelectableWhileProbed(u) == ~Tripped(u) \/ wait[u] = 0

Selectable(u) == ~Tripped(u) \/ (wait[u] = 0 /\ probe[u] = 0)

\* Mutant: a report takes one probe off the count.
ProbeOverByOne(u) ==
  /\ probe' = [probe EXCEPT ![u] = @ - 1]
  /\ granted' = [r \in Requests |-> granted[r] /\ up[r] # u]
  /\ lost' = lost \ {u}

\* A report, of whatever request, ends every probe of the upstream.
ProbeOver(u) ==
  /\ probe' = [probe EXCEPT ![u] = 0]
  /\ granted' = [r \in Requests |-> granted[r] /\ up[r] # u]
  /\ lost' = lost \ {u}

ReportSuccess(u) ==
  /\ count' = [count EXCEPT ![u] = 0]
  /\ wait' = [wait EXCEPT ![u] = 0]
  /\ ProbeOver(u)

\* An immediate failure trips the breaker whatever the count was.
Failures(u, immediate) ==
  LET n == IF count[u] < MaxCount THEN count[u] + 1 ELSE MaxCount IN
  IF immediate /\ n < threshold THEN threshold ELSE n

ReportFailure(u, immediate) ==
  LET n == Failures(u, immediate) IN
  /\ count' = [count EXCEPT ![u] = n]
  /\ wait' = IF n >= threshold THEN [wait EXCEPT ![u] = Cooldown] ELSE wait
  /\ ProbeOver(u)

\* Mutant: a tunnel without bytes is not reported.
ReportNothing(u) ==
  /\ u \in Upstreams
  /\ UNCHANGED <<breaker, granted, lost>>

ReportNeutral(u) ==
  /\ ProbeOver(u)
  /\ UNCHANGED <<count, wait>>

-----------------------------------------------------------------------------
(* A request selects an upstream *)

\* A client connects; a request with a body is tried once.
Accept(r) ==
  /\ pc[r] = "idle"
  /\ \E k \in {"forward", "tunnel"}, n \in {1, Attempts} :
       /\ k = "tunnel" => n = Attempts
       /\ kind' = [kind EXCEPT ![r] = k]
       /\ left' = [left EXCEPT ![r] = n]
  /\ counted' = [counted EXCEPT ![r] = 0]
  /\ Goto(r, "choose")
  /\ UNCHANGED <<pool, threshold, breaker, up, tried, granted, lost>>

Untried(r) == pool \ tried[r]
Active(r) == {u \in Untried(r) : Selectable(u)}

\* degradedBefore, for upstreams that are isolated. Within a tick the exact time, Count
\* and the average decide: any of them may come first.
DegradedBefore(u, v) == wait[u] < wait[v]

Idle(r) == {u \in Untried(r) : probe[u] = 0}
LastResort(r) == {u \in Idle(r) : \A v \in Idle(r) : ~DegradedBefore(v, u)}

Use(r, u, asProbe) ==
  /\ up' = [up EXCEPT ![r] = u]
  /\ tried' = [tried EXCEPT ![r] = @ \union {u}]
  /\ probe' = IF asProbe THEN [probe EXCEPT ![u] = @ + 1] ELSE probe
  /\ granted' = [granted EXCEPT ![r] = asProbe]
  /\ Goto(r, "attempt")

\* selectLocked: one of the upstreams that may be selected; in the half-open
\* state the request becomes the probe.
SelectActive(r) ==
  /\ pc[r] = "choose"
  /\ \E u \in Active(r) : Use(r, u, HalfOpen(u))
  /\ UNCHANGED <<pool, threshold, count, wait, kind, left, lost, counted>>

\* selectDegradedLocked: nothing may be selected, so an isolated upstream with no
\* probe on its way is used all the same, the one that waits least first.
SelectDegraded(r) ==
  /\ pc[r] = "choose"
  /\ Active(r) = {}
  /\ \E u \in LastResort(r) : Use(r, u, TRUE)
  /\ UNCHANGED <<pool, threshold, count, wait, kind, left, lost, counted>>

NothingToSelect(r) ==
  /\ pc[r] = "choose"
  /\ Active(r) = {} /\ Idle(r) = {}
  /\ Goto(r, "fail")
  /\ UNCHANGED <<pool, threshold, breaker, kind, up, tried, left, granted, lost,
                 counted>>

-----------------------------------------------------------------------------
(* What becomes of an attempt *)

\* The loop goes on, or is over after the last attempt.
NextAttempt(r) ==
  /\ left' = [left EXCEPT ![r] = @ - 1]
  /\ Goto(r, IF left[r] > 1 THEN "choose" ELSE "fail")

\* No client, no connection, no answer, or an unreadable one.
AttemptFails(r) ==
  /\ pc[r] = "attempt"
  /\ ReportFailure(up[r], FALSE)
  /\ NextAttempt(r)
  /\ UNCHANGED <<pool, threshold, kind, up, tried, counted>>

\* The client of a tunnel went away, or its time is up, while the upstream was
\* dialled: the upstream is charged with the failure, and there is no retry.
DialCutOff(r) ==
  /\ pc[r] = "attempt" /\ kind[r] = "tunnel"
  /\ ReportFailure(up[r], FALSE)
  /\ Goto(r, "fail")
  /\ UNCHANGED <<pool, threshold, kind, up, tried, left, counted>>

\* Mutant: a rejected response counts as a failed request before the retry.
RespondCounted(r, response) ==
  /\ pc[r] = "attempt" /\ kind[r] = "forward"
  /\ IF response # "accepted"
     THEN /\ ReportFailure(up[r], TRUE)
          /\ left' = [left EXCEPT ![r] = @ - 1]
          /\ Goto(r, IF left[r] > 1 THEN "choose" ELSE "refuse")
          /\ counted' = [counted EXCEPT ![r] = @ + 1]
     ELSE Goto(r, "copy") /\ UNCHANGED <<breaker, left, granted, lost, counted>>
  /\ UNCHANGED <<pool, threshold, kind, up, tried>>

Responses == {"accepted", "cloudflare", "proxy auth"}
Rejects(response) == response \in {"cloudflare", "proxy auth"}

\* A response that is none of the target's own trips the breaker at once. One that
\* is accepted, and the one of the last attempt, is copied to the client.
Respond(r, response) ==
  /\ pc[r] = "attempt" /\ kind[r] = "forward"
  /\ IF Rejects(response)
     THEN /\ ReportFailure(up[r], TRUE)
          /\ left' = [left EXCEPT ![r] = @ - 1]
          /\ Goto(r, IF left[r] > 1 THEN "choose" ELSE "refuse")
     ELSE Goto(r, "copy") /\ UNCHANGED <<breaker, left, granted, lost>>
  /\ UNCHANGED <<pool, threshold, kind, up, tried, counted>>

CopyEnds(r) ==
  /\ pc[r] \in {"copy", "refuse"}
  /\ IF pc[r] = "copy" THEN ReportSuccess(up[r])
     ELSE UNCHANGED <<breaker, granted, lost>>
  /\ counted' = [counted EXCEPT ![r] = @ + 1]
  /\ Done(r)
  /\ UNCHANGED <<pool, threshold>>

\* recordFinalFailure tells the selector nothing.
GiveUp(r) ==
  /\ pc[r] = "fail"
  /\ counted' = [counted EXCEPT ![r] = @ + 1]
  /\ Done(r)
  /\ UNCHANGED <<pool, threshold, breaker, granted, lost>>

TunnelOpens(r) ==
  /\ pc[r] = "attempt" /\ kind[r] = "tunnel"
  /\ Goto(r, "opened")
  /\ UNCHANGED <<pool, threshold, breaker, kind, up, tried, left, granted, lost,
                 counted>>

\* Hijack, or the reply of the SOCKS5 handshake.
HandOver(r) ==
  /\ pc[r] = "opened"
  /\ Goto(r, "pipe")
  /\ UNCHANGED <<pool, threshold, breaker, kind, up, tried, left, granted, lost,
                 counted>>

\* The client is not there any more. Nothing is reported: a probe stays in flight
\* in the eyes of the selector.
HandOverFails(r) ==
  /\ pc[r] = "opened"
  /\ counted' = [counted EXCEPT ![r] = @ + 1]
  /\ lost' = IF granted[r] THEN lost \union {up[r]} ELSE lost
  /\ granted' = [granted EXCEPT ![r] = FALSE]
  /\ Done(r)
  /\ UNCHANGED <<pool, threshold, breaker>>

\* What a tunnel says of its upstream, from whether bytes were received and sent
\* and whether it was over soon.
TunnelOutcome(received, sent, early) ==
  CASE received           -> "success"
    [] ~received /\ ~sent -> "neutral"
    [] ~received /\ sent  -> IF early THEN "failure" ELSE "success"

PipeEnds(r, outcome) ==
  /\ pc[r] = "pipe"
  /\ \/ outcome = "success" /\ ReportSuccess(up[r])
     \/ outcome = "failure" /\ ReportFailure(up[r], FALSE)
     \/ outcome = "neutral" /\ ReportNeutral(up[r])
  /\ counted' = IF outcome = "neutral" THEN counted
                ELSE [counted EXCEPT ![r] = @ + 1]
  /\ Done(r)
  /\ UNCHANGED <<pool, threshold>>

-----------------------------------------------------------------------------
(* Around the requests *)

\* A refresh installs a pool and forgets the upstreams that are not in it.
ReplacePool(items) ==
  /\ pool' = items
  /\ count' = [u \in Upstreams |-> IF u \in items THEN count[u] ELSE 0]
  /\ wait' = [u \in Upstreams |-> IF u \in items THEN wait[u] ELSE 0]
  /\ probe' = [u \in Upstreams |-> IF u \in items THEN probe[u] ELSE 0]
  /\ granted' = [r \in Requests |-> granted[r] /\ up[r] \in items]
  /\ lost' = lost \intersect items
  /\ UNCHANGED <<threshold, request, counted>>

\* Mutant: a new threshold starts all breakers afresh.
ApplyConfigAfresh(t) ==
  /\ threshold' = t
  /\ count' = [u \in Upstreams |-> 0]
  /\ UNCHANGED <<pool, wait, probe, request, granted, lost, counted>>

ApplyConfig(t) ==
  /\ threshold' = t
  /\ UNCHANGED <<pool, breaker, request, granted, lost, counted>>

Tick ==
  /\ \E u \in Upstreams : wait[u] > 0
  /\ wait' = [u \in Upstreams |-> IF wait[u] > 0 THEN wait[u] - 1 ELSE 0]
  /\ UNCHANGED <<pool, threshold, count, probe, request, granted, lost, counted>>

-----------------------------------------------------------------------------
AttemptEnds(r) ==
  \/ AttemptFails(r) \/ DialCutOff(r) \/ TunnelOpens(r)
  \/ \E response \in Responses : Respond(r, response)

\* What the gateway does under a deadline of its own ...
Progress(r) ==
  \/ SelectActive(r) \/ SelectDegraded(r) \/ NothingToSelect(r)
  \/ AttemptEnds(r) \/ GiveUp(r)
  \/ HandOver(r) \/ HandOverFails(r)

\* ... and what takes as long as the client and the upstream like.
Transfer(r) ==
  \/ CopyEnds(r)
  \/ \E received, sent, early \in BOOLEAN :
       PipeEnds(r, TunnelOutcome(received, sent, early))

Next ==
  \/ \E r \in Requests : Accept(r) \/ Progress(r) \/ Transfer(r)
  \/ \E items \in SUBSET Upstreams : ReplacePool(items)
  \/ \E t \in Thresholds : ApplyConfig(t)
  \/ Tick

Spec == Init /\ [][Next]_vars

-----------------------------------------------------------------------------
(* Properties *)

TypeOK ==
  /\ pool \subseteq Upstreams
  /\ threshold \in Thresholds
  /\ count \in [Upstreams -> 0 .. MaxCount]
  /\ wait \in [Upstreams -> 0 .. Cooldown]
  /\ probe \in [Upstreams -> Nat]
  /\ pc \in [Requests -> {"idle", "choose", "attempt", "copy", "refuse", "fail",
                          "opened", "pipe"}]
  /\ kind \in [Requests -> {"forward", "tunnel"}]
  /\ up \in [Requests -> Upstreams \union {NoUpstream}]
  /\ tried \in [Requests -> SUBSET Upstreams]
  /\ left \in [Requests -> 0 .. Attempts]
  /\ granted \in [Requests -> BOOLEAN]
  /\ lost \subseteq Upstreams
  /\ counted \in [Requests -> Nat]

Probing(u) == {r \in Requests : granted[r] /\ up[r] = u}

\* A tripped upstream has at most one probe that nobody has reported on, and
\* HalfOpenInFlight says whether it has one: no path of a request, no late report
\* of an old one, no refresh and no change of the threshold leaves a probe behind,
\* but for those whose tunnel could not be handed over (`lost`).
ProbeAccounted ==
  \A u \in Upstreams :
    /\ probe[u] = IF Probing(u) # {} \/ u \in lost THEN 1 ELSE 0
    /\ \A r, q \in Probing(u) : r = q
    /\ u \in lost => Probing(u) = {}
    /\ \A r \in Probing(u) : pc[r] \in Holding

\* The breaker of an upstream, as snapshot() counts it for the status page.
State(u) == IF ~Tripped(u) THEN "closed" ELSE IF HalfOpen(u) THEN "half-open" ELSE "open"

Breaker == INSTANCE CircuitBreaker WITH
  state <- [u \in Upstreams |-> State(u)],
  probing <- [u \in Upstreams |-> Probing(u)]

\* The three numbers of an upstream make a circuit breaker: whatever the requests, their
\* retries and late reports, refreshes and settings do, one that is not closed has one
\* probe at a time, a failure in that state opens it, and only a success, a higher
\* threshold or the removal from the pool closes it.
ImplementsBreaker == Breaker!Spec

\* Failures and isolations are forgotten only when a request that used the upstream
\* ends and is counted, or when it leaves the pool: not by tunnels that prove nothing,
\* degraded use, late reports about another upstream or a new threshold.
HistoryKept ==
  [][\A u \in Upstreams :
       count'[u] < count[u] \/ wait'[u] + 1 < wait[u] =>
         \/ u \notin pool'
         \/ \E r \in Requests :
              /\ up[r] = u /\ pc[r] \in {"copy", "pipe"} /\ pc'[r] = "idle"
              /\ counted'[r] # counted[r]]_vars

\* successRequests + failedRequests never exceeds the number of requests: whatever
\* its retries, a request is counted once, when it ends.
RequestCountedOnce ==
  \A r \in Requests : counted[r] <= 1 /\ (pc[r] # "idle" => counted[r] = 0)
=============================================================================
