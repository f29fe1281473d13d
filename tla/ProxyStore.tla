------------------------------ MODULE ProxyStore ------------------------------
(***************************************************************************)
(* The state of one proxy in the database (store.go), under the check job, *)
(* imports, the maintenance, requests of an administrator, and the cache   *)
(* of the statistics. The rows of different proxies do not meet but in     *)
(* those statistics and in the guard of RequeueExpiredAvailable, so one    *)
(* proxy key stands for each of them.                                      *)
(*                                                                         *)
(* SQLite gives each transaction the database to itself, so a transaction  *)
(* is one step, but `now` is read by each of its statements: the clock may *)
(* tick between two of them. Foreign keys delete the rows of a proxy with  *)
(* it. Ages are kept only where something reads them.                      *)
(***************************************************************************)
EXTENDS CheckOutcome

CONSTANTS
  Ttl,      \* age in ticks at which results expire, and untested proxies
  MaxId     \* bound: ids given to the proxy, one for each time it is imported

ASSUME TtlAssumption == Ttl \in Nat /\ Ttl >= 2
ASSUME IdAssumption == MaxId \in Nat \ {0}

VARIABLES
  id,        \* proxies.id of the key; NoId, there is no row
  lastId,    \* AUTOINCREMENT: the highest id there has ever been
  root,      \* proxies: the status and whether the snapshot is one of a failure
  probe,     \* proxy_probe_state
  target,    \* proxy_target_state
  shadow,    \* proxy_checks
  check,     \* the check of this proxy by the check job
  committed, \* actors that have committed and not called InvalidateStats yet
  stats,     \* the goroutine in Stats, under statsMu
  cache,     \* statsCache
  origin,    \* history: the id that was checked for the results of the row
  rewritten  \* history: the last to write the status in proxies was a start

row == <<id, lastId, root, probe, target, shadow, origin, rewritten>>
vars == <<row, check, committed, stats, cache>>

NoId == 0
Stored == {"available", "failed", "untested"}

\* Age: ticks since checked_at, of an available probe; ticks since
\* status_changed_at, of an untested one. Failures: consecutive_failures, up to the
\* 2 that DeleteFailedProxies asks for.
NewProbe == [status |-> "untested", base |-> FALSE, failures |-> 0, age |-> 0]
NewRoot == [status |-> "untested", failed |-> FALSE]
NoRow == [status |-> "no row", age |-> 0]
NoTargets == [t \in Targets |-> NoRow]
NoCheck == [pc |-> "none", id |-> NoId, plan |-> <<>>, dead |-> FALSE]

Init ==
  /\ id = NoId /\ lastId = NoId /\ origin = NoId /\ rewritten = FALSE
  /\ root = NewRoot /\ probe = NewProbe
  /\ target = NoTargets /\ shadow = NoTargets
  /\ check = NoCheck
  /\ committed = {} /\ stats = "idle" /\ cache = "none"

Exists == id # NoId
IsAvailable(t) == target[t].status = "available"
SomeAvailable == \E t \in Targets : IsAvailable(t)

-----------------------------------------------------------------------------
(* Time *)

Older(n) == IF n < Ttl THEN n + 1 ELSE Ttl
AgeProbe(p) == IF p.status = "failed" \/ ~Exists THEN p ELSE [p EXCEPT !.age = Older(@)]
AgeRows(f) ==
  [t \in Targets |->
     IF f[t].status = "available" THEN [f[t] EXCEPT !.age = Older(@)] ELSE f[t]]

Tick ==
  /\ probe' = AgeProbe(probe)
  /\ target' = AgeRows(target) /\ shadow' = AgeRows(shadow)
  /\ UNCHANGED <<id, lastId, root, origin, rewritten, check, committed, stats, cache>>

\* A transaction of several statements during which the clock ticks before
\* statement `tick` (never, if that is 0): what a statement before it has written is
\* a tick old when the transaction ends, as is all that was there.
WrittenAt(i, tick) == IF i < tick THEN 1 ELSE 0
Aged(f, tick) == IF tick = 0 THEN f ELSE AgeRows(f)

-----------------------------------------------------------------------------
(* The cache of the statistics *)

\* A commit makes what the cache holds, and what is being read, old; the actor
\* goes on to InvalidateStats.
Commits(actor) ==
  /\ actor \notin committed
  /\ committed' = committed \union {actor}
  /\ cache' = IF cache = "current" THEN "old" ELSE cache
  /\ stats' = IF stats = "reading" THEN "reading old" ELSE stats

\* Mutant: it does not take statsMu.
InvalidateAtOnce(actor) ==
  /\ actor \in committed
  /\ committed' = committed \ {actor}
  /\ cache' = "none"
  /\ UNCHANGED <<row, check, stats>>

\* It waits for a Stats at work.
InvalidateStats(actor) ==
  /\ actor \in committed /\ stats = "idle"
  /\ committed' = committed \ {actor}
  /\ cache' = "none"
  /\ UNCHANGED <<row, check, stats>>

\* Stats on a cache that is empty or has expired: several queries, one after the
\* other, and the cache filled with what they found, all under statsMu.
StatsBegins ==
  /\ stats = "idle"
  /\ stats' = "reading"
  /\ UNCHANGED <<row, check, committed, cache>>

StatsEnds ==
  /\ stats # "idle"
  /\ cache' = IF stats = "reading" THEN "current" ELSE "old"
  /\ stats' = "idle"
  /\ UNCHANGED <<row, check, committed>>

StatsFails ==
  /\ stats # "idle"
  /\ stats' = "idle"
  /\ UNCHANGED <<row, check, committed, cache>>

-----------------------------------------------------------------------------
(* Imports and deletions *)

\* upsertProxy of a key that is not there: AUTOINCREMENT never gives an id twice.
\* One that is there keeps everything modelled here.
NextId == lastId + 1

Import ==
  /\ ~Exists /\ lastId < MaxId
  /\ Commits("operator")
  /\ id' = NextId /\ lastId' = NextId /\ origin' = NextId /\ rewritten' = FALSE
  /\ root' = NewRoot /\ probe' = NewProbe
  /\ UNCHANGED <<target, shadow, check>>

\* ON DELETE CASCADE
DeleteRow ==
  /\ id' = NoId /\ origin' = NoId /\ rewritten' = FALSE
  /\ root' = NewRoot /\ probe' = NewProbe
  /\ target' = NoTargets /\ shadow' = NoTargets
  /\ UNCHANGED lastId

Matches(status) ==
  CASE status = "checked"   -> probe.status # "untested"
    [] status = "available" -> SomeAvailable
    [] status = "failed"    -> probe.status = "failed" /\ ~SomeAvailable
    [] status = "untested"  -> probe.status = "untested"
    [] status = "all"       -> TRUE

DeleteProxiesByStatus(status) ==
  /\ Exists /\ Matches(status)
  /\ Commits("operator")
  /\ DeleteRow
  /\ UNCHANGED check

DeleteFailedProxies ==
  /\ Exists /\ probe.status = "failed" /\ probe.failures >= 2 /\ ~SomeAvailable
  /\ Commits("operator")
  /\ DeleteRow
  /\ UNCHANGED check

DeleteExpiredUntested ==
  /\ Exists /\ probe.status = "untested" /\ probe.age >= Ttl /\ ~SomeAvailable
  /\ Commits("operator")
  /\ DeleteRow
  /\ UNCHANGED check

-----------------------------------------------------------------------------
(* RequeueExpiredAvailable *)

\* proxyAggregateStatusExpression
Aggregate(f) ==
  LET has(status) == \E t \in Targets : f[t].status = status IN
  IF has("available") THEN "available"
  ELSE IF has("untested") \/ ~has("failed") THEN "untested" ELSE "failed"

Rows(f) == {t \in Targets : f[t].status # "no row"}

Expired(r) == r.status = "available" /\ r.age >= Ttl
RequeueRows(f) ==
  [t \in Targets |-> IF Expired(f[t]) THEN [status |-> "untested", age |-> 0] ELSE f[t]]
RequeueProbe(p) ==
  IF Expired(p) THEN [p EXCEPT !.status = "untested", !.age = 0] ELSE p

\* Statement by statement. Whether it runs at all depends on there being an expired
\* state of any proxy, so it may run when this one has none. base_reachable stays.
RequeueExpiredAvailable(tick) ==
  LET seen(i, f) == IF i >= tick THEN Aged(f, tick) ELSE f  \* by statement i
      left(i, f) == IF i >= tick THEN f ELSE Aged(f, tick)  \* when all is done
  IN
  /\ Exists
  /\ Commits("operator")
  /\ target' = left(1, RequeueRows(seen(1, target)))
  /\ shadow' = left(2, RequeueRows(seen(2, shadow)))
  /\ probe' = RequeueProbe(IF tick = 0 THEN probe ELSE AgeProbe(probe))
  /\ IF Rows(target) = {} THEN UNCHANGED <<root, rewritten>>
     ELSE root' = [root EXCEPT !.status = Aggregate(target')] /\ rewritten' = FALSE
  /\ UNCHANGED <<id, lastId, origin, check>>

-----------------------------------------------------------------------------
(* The check job *)

\* The targets of a plan, each once, in the order in which the job lists them.
Plans == {p \in UNION {[1 .. n -> Targets] : n \in 1 .. Cardinality(Targets)} :
            \A i, j \in DOMAIN p : p[i] = p[j] => i = j}

PlanTargets(plan) == {plan[i] : i \in DOMAIN plan}

\* All that the job and the store take from the results of a plan.
Summary(plan, results) ==
  [plan |-> plan,
   target |-> [t \in PlanTargets(plan) |-> TargetStatus(t, results[t])],
   probe |-> ProbeStatus(results[plan[1]]),
   dead |-> \A t \in PlanTargets(plan) : ~results[t].available /\ ~results[t].base]

Results(plan) ==
  LET R == Rounds(PlanTargets(plan)) IN
  {[t \in PlanTargets(plan) |-> Combine([i \in DOMAIN rs |-> rs[i][t]])] :
     rs \in UNION {[1 .. n -> R] : n \in 1 .. MaxRounds}}

Outcomes ==
  UNION {{Summary(plan, results) : results \in Results(plan)} : plan \in Plans}

\* ListCheckCandidates for each target of the job, with whatever status it asks for,
\* and buildProxyFirstCheckPlans: one plan for the proxy.
BeginCheck(plan) ==
  /\ check.pc = "none" /\ "check" \notin committed /\ Exists
  /\ check' = [pc |-> "checking", id |-> id, plan |-> plan, dead |-> FALSE]
  /\ UNCHANGED <<row, committed, stats, cache>>

\* Cancelled, or out of time before the end of the first round: nothing to save.
CheckDropped ==
  /\ check.pc = "checking"
  /\ check' = NoCheck
  /\ UNCHANGED <<row, committed, stats, cache>>

\* Mutant: checked_at of a probe that was available stays as it is.
SavedProbeStale(status, age) ==
  IF status = "available"
  THEN [status |-> status, base |-> TRUE, failures |-> 0,
        age |-> IF probe.status = "available" THEN probe.age ELSE age]
  ELSE [status |-> status, base |-> FALSE, age |-> 0,
        failures |-> IF probe.failures < 2 THEN probe.failures + 1 ELSE 2]

\* The probe upsert of saveCheckResultTx.
SavedProbe(status, age) ==
  IF status = "available"
  THEN [status |-> status, base |-> TRUE, failures |-> 0, age |-> age]
  ELSE [status |-> status, base |-> FALSE, age |-> 0,
        failures |-> IF probe.failures < 2 THEN probe.failures + 1 ELSE 2]

SavedRow(status, age) ==
  [status |-> status, age |-> IF status = "available" THEN age ELSE 0]

\* Mutant: the last result is the snapshot.
PreservesNothing(t, status, f) == FALSE

\* A failed target leaves the snapshot in proxies alone while another target is
\* available; all others write it.
Preserves(t, status, f) ==
  status = "failed" /\ \E o \in Targets \ {t} : f[o].status = "available"

\* saveCheckResultTx for the targets plan[i], plan[i + 1], ...
\* Statement 1 is the probe, 2i the target and 2i + 1 the shadow of plan[i].
SaveTargets(plan, outcome, tick) ==
  LET n == Len(plan)
      status(i) == outcome.target[plan[i]]
      pos(t) == CHOOSE i \in 1 .. n : plan[i] = t
      inPlan(t) == \E i \in 1 .. n : plan[i] = t
      \* proxy_target_state after the first i results, up to ages
      after(i) == [t \in Targets |->
                     IF inPlan(t) /\ pos(t) <= i THEN [status |-> status(pos(t)), age |-> 0]
                     ELSE target[t]]
      writers == {i \in 1 .. n : ~Preserves(plan[i], status(i), after(i - 1))}
  IN
  /\ target' = [t \in Targets |->
       IF inPlan(t) THEN SavedRow(status(pos(t)), WrittenAt(2 * pos(t), tick))
       ELSE Aged(target, tick)[t]]
  /\ shadow' = [t \in Targets |->
       IF inPlan(t) THEN SavedRow(status(pos(t)), WrittenAt(2 * pos(t) + 1, tick))
       ELSE Aged(shadow, tick)[t]]
  /\ root' = [status |-> Aggregate(target'),
              failed |-> IF writers = {} THEN root.failed
                         ELSE LET last == CHOOSE i \in writers : \A j \in writers : j <= i
                              IN status(last) = "failed"]

\* Mutant: the row is found by the key of the proxy.
RowOfKey == Exists

\* SaveProxyCheckBundle, which finds the row by the id of the plan.
RowOfCheck == id = check.id

Save(outcome, tick) ==
  /\ check.pc = "checking" /\ RowOfCheck /\ outcome.plan = check.plan
  /\ Commits("check")
  /\ SaveTargets(check.plan, outcome, tick)
  /\ probe' = SavedProbe(outcome.probe, WrittenAt(1, tick))
  /\ origin' = check.id /\ rewritten' = FALSE
  /\ check' = IF outcome.dead THEN [check EXCEPT !.pc = "saved", !.dead = TRUE]
              ELSE NoCheck
  /\ UNCHANGED <<id, lastId>>

\* No such proxy any more, the database busy three times, or the context gone.
SaveFails ==
  /\ check.pc = "checking"
  /\ check' = NoCheck
  /\ UNCHANGED <<row, committed, stats, cache>>

\* With "delete failed proxies" on: DeleteProxyIfNoAvailableTargets of a proxy that
\* was dead for all of its plan, which looks at the store again.
Deletable == probe.status = "failed" /\ ~probe.base /\ ~SomeAvailable

DeleteAfterCheck ==
  /\ check.pc = "saved"
  /\ id = check.id /\ Deletable
  /\ Commits("check")
  /\ DeleteRow
  /\ check' = NoCheck

KeepAfterCheck ==
  /\ check.pc = "saved" /\ "check" \notin committed
  /\ check' = NoCheck
  /\ UNCHANGED <<row, committed, stats, cache>>

-----------------------------------------------------------------------------
(* A crash and a start *)

\* EnsureSchema, on every start: normalizeStoredProxyState gives a proxy with rows in
\* proxy_checks the status of those, not that of proxy_target_state. Its two other
\* statements, and the INSERT OR IGNORE before it, find nothing to do in what this
\* program has stored. (A start at which one of them fails is none.)
Restart ==
  /\ IF Rows(shadow) = {} THEN UNCHANGED <<root, rewritten>>
     ELSE root' = [root EXCEPT !.status = Aggregate(shadow)] /\ rewritten' = TRUE
  /\ check' = NoCheck /\ committed' = {} /\ stats' = "idle" /\ cache' = "none"
  /\ UNCHANGED <<id, lastId, probe, target, shadow, origin>>

-----------------------------------------------------------------------------
Statuses == {"available", "failed", "untested", "checked", "all"}

Next ==
  \/ Tick
  \/ \E actor \in {"operator", "check"} : InvalidateStats(actor)
  \/ StatsBegins \/ StatsEnds \/ StatsFails
  \/ Import \/ \E s \in Statuses : DeleteProxiesByStatus(s)
  \/ DeleteFailedProxies \/ DeleteExpiredUntested
  \/ \E tick \in {0, 2, 3} : RequeueExpiredAvailable(tick)
  \/ \E plan \in Plans : BeginCheck(plan)
  \/ CheckDropped \/ SaveFails
  \/ \E outcome \in Outcomes, tick \in {0} \union (2 .. 2 * Len(check.plan) + 1) :
       Save(outcome, tick)
  \/ DeleteAfterCheck \/ KeepAfterCheck
  \/ Restart

Spec == Init /\ [][Next]_vars

-----------------------------------------------------------------------------
(* Properties *)

\* One table has the result of a target as available, soon to be requeued, the other
\* has requeued it: the clock ticked between the statements that wrote the two, or
\* between those that requeue them.
Astride(t) ==
  \/ IsAvailable(t) /\ target[t].age >= Ttl - 1 /\ shadow[t].status = "untested"
  \/ shadow[t].status = "available" /\ shadow[t].age >= Ttl - 1
     /\ target[t].status = "untested"

\* The status in proxies, kept for the lists, is that of the targets: available when
\* one of them is, untested when none is but some are to be checked, failed
\* otherwise. A start, which takes it from the older table proxy_checks, leaves it so
\* too, but for a target whose results expire within a tick in one table and have
\* expired in the other; the next save or requeueing mends that. While a target is
\* available the snapshot of the proxy and its failure_count are those of a success,
\* whichever target failed last.
RootAgrees ==
  Exists =>
    /\ root.status = Aggregate(IF rewritten THEN shadow ELSE target)
    /\ root.status # Aggregate(target) => \E t \in Targets : Astride(t)
    /\ SomeAvailable => ~root.failed

\* Results are those of a check of this very row: nothing that was found for a row
\* that has been deleted is written to its successor, however long the check took.
ResultForItsRow == Exists => origin = id

\* A probe that is untested has no available target, but for one that expires with
\* the next tick. (The clock may tick between the statements that wrote the two, or
\* between those that requeue them; a proxy in that state is deleted with the
\* untested ones.)
UntestedMeansNoneAvailable ==
  Exists /\ probe.status = "untested" =>
    \A t \in Targets : IsAvailable(t) => target[t].age >= Ttl - 1

\* A target is stored as available exactly when at least half of its rounds were and
\* Cloudflare stopped none of them: for every way the rounds of the check at work may
\* go, the detour by the combined result, its capability and the merged Cloudflare
\* status neither makes an unusable proxy available nor loses a usable one. What is
\* available has a capability the counts ask for, so that the stock and the export
\* agree. The job reports something else only when Cloudflare stopped up to half of
\* the rounds.
OutcomeSound == check.pc = "checking" => PlanTargets(check.plan) \subseteq SoundTargets

\* Statistics older than the store are served only while the actor of the last
\* commit has yet to call InvalidateStats: however the reads of Stats, commits and
\* invalidations overlap, an old result is not cached behind an invalidation.
StatsCurrent == cache = "old" => committed # {}
=============================================================================
