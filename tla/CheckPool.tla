------------------------------ MODULE CheckPool ------------------------------
(***************************************************************************)
(* One check job of ProxyLiteChecker from the moment its goroutine starts: *)
(*   - the limiter shared by all checks (checkConcurrencyController,       *)
(*     concurrency.go);                                                    *)
(*   - the pool of checkBatchStream (checker.go): a feeder, the workers,   *)
(*     the goroutine that closes the results channel;                      *)
(*   - runCheckJob (checker.go), which receives one bundle of results per  *)
(*     proxy, saves it, may delete the proxy, and ends the job.            *)
(*                                                                         *)
(* A plan is one proxy with the targets to check; its bundle is reduced to *)
(* a verdict. Cancellation and changes of the limit come at any time. The  *)
(* order of the plans, and of the bundles in the results channel, decides  *)
(* nothing below, so both are sets.                                        *)
(***************************************************************************)
EXTENDS Integers, FiniteSets

CONSTANTS
  Workers,       \* the goroutines of the pool
  Plans,         \* the plans of the job, one per proxy
  NoPlan,        \* no plan in hand
  MaxLimit,      \* maxCheckConcurrency
  Spared,        \* proxies with an available target this job does not check
  Retested,      \* proxies whose stored probe says dead when the job starts
  DeleteFailed,  \* settings.DeleteFailedOnCheck
  Faults         \* what may go wrong: "save" and "delete" are SQL errors,
                 \* "timeout" is the hard timeout of a plan

ASSUME PoolAssumption ==
  /\ IsFiniteSet(Workers) /\ Workers # {}
  /\ IsFiniteSet(Plans) /\ NoPlan \notin Plans

ASSUME LimitAssumption == MaxLimit \in Nat \ {0}

ASSUME StoreAssumption ==
  /\ Spared \subseteq Plans
  /\ Retested \subseteq Plans
  /\ DeleteFailed \in BOOLEAN
  /\ Faults \subseteq {"save", "delete", "timeout"}

VARIABLES
  \* checkConcurrencyController
  limit, active,
  woken,       \* waiters whose captured channel c.changed has been closed
  \* checkBatchStream
  unfed,       \* plans the feeder has not handed out
  fed,         \* has the feeder closed the jobs channel?
  pc, plan,    \* what each worker does next, and for which plan
  verdict,     \* the bundle it has produced
  results,     \* the results channel
  closed,      \* has the results channel been closed?
  \* runCheckJob
  cons,        \* what it does next
  item,        \* the bundle in its hands
  shield,      \* is the save of this bundle shielded from cancellation?
  available, failed, persisted, persistenceFailed, deletedFailed,
  outcome,     \* the final status it asks for
  \* the job and the store
  cancelled,   \* has the job's context been cancelled?
  status,      \* status of the job
  known,       \* what the store says of each proxy
  \* history, read by the properties only
  produced,    \* the verdict of each plan whose check has finished
  saved        \* plans whose bundle this job has saved

limiterVars == <<limit, active, woken>>
poolVars == <<unfed, fed, pc, plan, verdict, results, closed>>
counters == <<available, failed, persisted, persistenceFailed, deletedFailed>>
consVars == <<cons, item, shield, counters, outcome>>
jobVars  == <<cancelled, status, known>>
ghostVars == <<produced, saved>>
vars == <<limiterVars, poolVars, consVars, jobVars, ghostVars>>

\* A bundle: some target available; none, but the proxy itself reachable; none
\* and unreachable; or no result at all.
Verdicts == {"available", "reachable", "dead", "empty"}
NoBundle == [plan |-> NoPlan, verdict |-> "empty"]

-----------------------------------------------------------------------------
\* Mutant: the requested limit is clamped from above only.
ClampToMaximum(n) == IF n > MaxLimit THEN MaxLimit ELSE n

\* clampInt, for a requested limit.
Clamp(n) == IF n < 1 THEN 1 ELSE IF n > MaxLimit THEN MaxLimit ELSE n

Init ==
  /\ limit \in 1..MaxLimit
  /\ active = 0
  /\ woken = {}
  /\ unfed = Plans
  /\ fed = FALSE
  /\ pc = [w \in Workers |-> "take"]
  /\ plan = [w \in Workers |-> NoPlan]
  /\ verdict = [w \in Workers |-> "empty"]
  /\ results = {}
  /\ closed = FALSE
  /\ cons = "receive"
  /\ item = NoBundle
  /\ shield = FALSE
  /\ available = 0 /\ failed = 0
  /\ persisted = 0 /\ persistenceFailed = 0 /\ deletedFailed = 0
  /\ outcome = ""
  /\ cancelled = FALSE
  /\ status = "running"
  /\ known = [p \in Plans |-> IF p \in Retested THEN "dead" ELSE "untested"]
  /\ produced = [p \in Plans |-> "none"]
  /\ saved = {}

-----------------------------------------------------------------------------
(* The limiter *)

\* signalLocked closes the channel that every waiter has captured.
Waiters == {w \in Workers : pc[w] = "wait"}

\* Mutant: the wake-up is forgotten.
SetLimitSilently(n) ==
  /\ limit' = Clamp(n)
  /\ UNCHANGED <<active, woken, poolVars, consVars, jobVars, ghostVars>>

\* SetLimit, from a change of the settings or the start of a check.
SetLimit(n) ==
  /\ limit' = Clamp(n)
  /\ woken' = Waiters
  /\ UNCHANGED <<active, poolVars, consVars, jobVars, ghostVars>>

\* Mutant: one check too many is let in.
AcquireOneMore(w) ==
  /\ pc[w] = "acquire"
  /\ active <= limit
  /\ active' = active + 1
  /\ pc' = [pc EXCEPT ![w] = IF cancelled THEN "release" ELSE "check"]
  /\ UNCHANGED <<limit, woken, unfed, fed, plan, verdict, results, closed,
                 consVars, jobVars, ghostVars>>

\* Acquire: a permit is free. A check begun after the cancellation has no
\* result to show.
Acquire(w) ==
  /\ pc[w] = "acquire"
  /\ active < limit
  /\ active' = active + 1
  /\ pc' = [pc EXCEPT ![w] = IF cancelled THEN "release" ELSE "check"]
  /\ UNCHANGED <<limit, woken, unfed, fed, plan, verdict, results, closed,
                 consVars, jobVars, ghostVars>>

\* Acquire: no permit is free; capture c.changed and wait for its closing.
Wait(w) ==
  /\ pc[w] = "acquire"
  /\ active >= limit
  /\ woken' = woken \ {w}
  /\ pc' = [pc EXCEPT ![w] = "wait"]
  /\ UNCHANGED <<limit, active, unfed, fed, plan, verdict, results, closed,
                 consVars, jobVars, ghostVars>>

WakeUp(w) ==
  /\ pc[w] = "wait"
  /\ w \in woken
  /\ pc' = [pc EXCEPT ![w] = "acquire"]
  /\ UNCHANGED <<limiterVars, unfed, fed, plan, verdict, results, closed,
                 consVars, jobVars, ghostVars>>

\* Mutant: the permit is not given back when the job has been cancelled.
ReleaseUnlessCancelled(w) ==
  /\ pc[w] = "release"
  /\ active' = IF active > 0 /\ ~cancelled THEN active - 1 ELSE active
  /\ woken' = Waiters
  /\ pc' = [pc EXCEPT ![w] = "send"]
  /\ UNCHANGED <<limit, unfed, fed, plan, verdict, results, closed, consVars,
                 jobVars, ghostVars>>

Release(w) ==
  /\ pc[w] = "release"
  /\ active' = IF active > 0 THEN active - 1 ELSE active
  /\ woken' = Waiters
  /\ pc' = [pc EXCEPT ![w] = "send"]
  /\ UNCHANGED <<limit, unfed, fed, plan, verdict, results, closed, consVars,
                 jobVars, ghostVars>>

-----------------------------------------------------------------------------
(* The pool *)

\* The feeder and a worker meet on the unbuffered jobs channel. Both select
\* between the channel and ctx.Done, so this may happen after a cancellation.
Take(w, p) ==
  /\ pc[w] = "take"
  /\ ~fed
  /\ p \in unfed
  /\ unfed' = unfed \ {p}
  /\ plan' = [plan EXCEPT ![w] = p]
  /\ verdict' = [verdict EXCEPT ![w] = "empty"]
  /\ pc' = [pc EXCEPT ![w] = "acquire"]
  /\ UNCHANGED <<limiterVars, fed, results, closed, consVars, jobVars, ghostVars>>

FeederEnds ==
  /\ ~fed
  /\ unfed = {} \/ cancelled
  /\ fed' = TRUE
  /\ UNCHANGED <<limiterVars, unfed, pc, plan, verdict, results, closed,
                 consVars, jobVars, ghostVars>>

Quit(w) ==
  /\ pc' = [pc EXCEPT ![w] = "done"]
  /\ plan' = [plan EXCEPT ![w] = NoPlan]
  /\ verdict' = [verdict EXCEPT ![w] = "empty"]
  /\ UNCHANGED <<limiterVars, unfed, fed, results, closed, consVars, jobVars,
                 ghostVars>>

\* The jobs channel is closed, or the worker sees the cancellation first, be it
\* at the jobs channel or inside Acquire.
NoMorePlans(w) == pc[w] = "take" /\ (fed \/ cancelled) /\ Quit(w)
AcquireCancelled(w) == pc[w] = "wait" /\ cancelled /\ Quit(w)

\* checkProxyPlan: the check ends, by the hard timeout at the latest; the bundle
\* is empty only when the timeout or the cancellation came before any result.
Check(w) ==
  /\ pc[w] = "check"
  /\ \E v \in Verdicts :
       /\ v = "empty" => cancelled \/ "timeout" \in Faults
       /\ verdict' = [verdict EXCEPT ![w] = v]
       /\ produced' = [produced EXCEPT ![plan[w]] = v]
  /\ pc' = [pc EXCEPT ![w] = "release"]
  /\ UNCHANGED <<limiterVars, unfed, fed, plan, results, closed, consVars,
                 jobVars, saved>>

\* The results channel holds as many bundles as there are workers.
Send(w) ==
  /\ pc[w] = "send"
  /\ Cardinality(results) < Cardinality(Workers)
  /\ results' = results \union {[plan |-> plan[w], verdict |-> verdict[w]]}
  /\ pc' = [pc EXCEPT ![w] = "take"]
  /\ plan' = [plan EXCEPT ![w] = NoPlan]
  /\ verdict' = [verdict EXCEPT ![w] = "empty"]
  /\ UNCHANGED <<limiterVars, unfed, fed, closed, consVars, jobVars, ghostVars>>

\* The select between the send and ctx.Done may take the second: the bundle is
\* gone.
DropBundle(w) == pc[w] = "send" /\ cancelled /\ Quit(w)

\* Mutant: the channel is closed as soon as the feeder is done.
CloseResultsEarly ==
  /\ ~closed
  /\ fed
  /\ closed' = TRUE
  /\ UNCHANGED <<limiterVars, unfed, fed, pc, plan, verdict, results, consVars,
                 jobVars, ghostVars>>

\* wg.Wait, then close(results).
CloseResults ==
  /\ ~closed
  /\ \A w \in Workers : pc[w] = "done"
  /\ closed' = TRUE
  /\ UNCHANGED <<limiterVars, unfed, fed, pc, plan, verdict, results, consVars,
                 jobVars, ghostVars>>

-----------------------------------------------------------------------------
(* runCheckJob *)

\* An empty bundle is passed over. The save of any other one gets a context of
\* its own when the job has been cancelled by then.
Receive(b) ==
  /\ cons = "receive"
  /\ b \in results
  /\ results' = results \ {b}
  /\ IF b.verdict = "empty"
     THEN UNCHANGED <<cons, item, shield>>
     ELSE cons' = "save" /\ item' = b /\ shield' = cancelled
  /\ UNCHANGED <<limiterVars, unfed, fed, pc, plan, verdict, closed, counters,
                 outcome, jobVars, ghostVars>>

\* SaveProxyCheckBundleContext commits: every target of the bundle is counted,
\* and the outcome of the proxy decides whether it is to be deleted.
ToDelete(b) == DeleteFailed /\ b.verdict = "dead"

SaveBundle ==
  /\ cons = "save"
  /\ known' = [known EXCEPT ![item.plan] = item.verdict]
  /\ saved' = saved \union {item.plan}
  /\ persisted' = persisted + 1
  /\ available' = IF item.verdict = "available" THEN available + 1 ELSE available
  /\ failed' = IF item.verdict = "available" THEN failed ELSE failed + 1
  /\ cons' = IF ToDelete(item) THEN "delete" ELSE "receive"
  /\ item' = IF ToDelete(item) THEN item ELSE NoBundle
  /\ UNCHANGED <<limiterVars, poolVars, shield, persistenceFailed, deletedFailed,
                 outcome, cancelled, status, produced>>

\* Mutant: the proxy is up for deletion although its results were not saved.
SaveFailsDeletes ==
  /\ cons = "save"
  /\ "save" \in Faults \/ (cancelled /\ ~shield)
  /\ failed' = failed + 1
  /\ persistenceFailed' = persistenceFailed + 1
  /\ cons' = IF ToDelete(item) THEN "delete" ELSE "receive"
  /\ item' = IF ToDelete(item) THEN item ELSE NoBundle
  /\ UNCHANGED <<limiterVars, poolVars, shield, available, persisted, deletedFailed,
                 outcome, jobVars, ghostVars>>

\* The save fails: an SQL error, or the job's own context, used because the
\* cancellation had not come yet. A proxy whose bundle is not saved is kept.
SaveFails ==
  /\ cons = "save"
  /\ "save" \in Faults \/ (cancelled /\ ~shield)
  /\ failed' = failed + 1
  /\ persistenceFailed' = persistenceFailed + 1
  /\ cons' = "receive"
  /\ item' = NoBundle
  /\ UNCHANGED <<limiterVars, poolVars, shield, available, persisted, deletedFailed,
                 outcome, jobVars, ghostVars>>

\* The DELETE takes only a proxy with a dead probe and no available target.
Deletable(p) == known[p] = "dead" /\ p \notin Spared

\* Mutant: a refused DELETE is counted as well.
DeleteProxyCountsAll ==
  /\ cons = "delete"
  /\ known' = IF Deletable(item.plan) THEN [known EXCEPT ![item.plan] = "deleted"] ELSE known
  /\ deletedFailed' = deletedFailed + 1
  /\ cons' = "receive"
  /\ item' = NoBundle
  /\ UNCHANGED <<limiterVars, poolVars, shield, available, failed, persisted,
                 persistenceFailed, outcome, cancelled, status, ghostVars>>

\* DeleteProxyIfNoAvailableTargets
DeleteProxy ==
  /\ cons = "delete"
  /\ IF Deletable(item.plan)
     THEN /\ known' = [known EXCEPT ![item.plan] = "deleted"]
          /\ deletedFailed' = deletedFailed + 1
     ELSE UNCHANGED <<known, deletedFailed>>
  /\ cons' = "receive"
  /\ item' = NoBundle
  /\ UNCHANGED <<limiterVars, poolVars, shield, available, failed, persisted,
                 persistenceFailed, outcome, cancelled, status, ghostVars>>

DeleteFails ==
  /\ cons = "delete"
  /\ "delete" \in Faults
  /\ persistenceFailed' = persistenceFailed + 1
  /\ cons' = "receive"
  /\ item' = NoBundle
  /\ UNCHANGED <<limiterVars, poolVars, shield, available, failed, persisted,
                 deletedFailed, outcome, jobVars, ghostVars>>

\* Mutant: the job is partial only when nothing was saved at all.
FinalOutcomeIfAnySaved ==
  IF persistenceFailed = 0 \/ persisted > 0 THEN "completed" ELSE "failed"

\* finalizeCheckJob
FinalOutcome ==
  IF persistenceFailed = 0 THEN "completed"
  ELSE IF persisted = 0 THEN "failed" ELSE "partial"

\* The results channel is closed and drained. ctx.Err decides whether the job
\* ends by finishCancelled or by finalizeCheckJob.
EndOfResults ==
  /\ cons = "receive"
  /\ closed
  /\ results = {}
  /\ outcome' = IF cancelled THEN "cancelled" ELSE FinalOutcome
  /\ cons' = "finish"
  /\ UNCHANGED <<limiterVars, poolVars, item, shield, counters, jobVars, ghostVars>>

\* The terminal Update: a cancellation accepted meanwhile wins over completion.
Finish ==
  /\ cons = "finish"
  /\ status' = IF status = "cancel_requested" /\ outcome # "failed" THEN "cancelled" ELSE outcome
  /\ cons' = "ended"
  /\ UNCHANGED <<limiterVars, poolVars, item, shield, counters, outcome,
                 cancelled, known, ghostVars>>

\* jobManager.Cancel of the running job, and the cancellation of its context
\* once the lock is released.
Cancel ==
  /\ status = "running"
  /\ status' = "cancel_requested"
  /\ UNCHANGED <<limiterVars, poolVars, consVars, cancelled, known, ghostVars>>

CancelContext ==
  /\ status = "cancel_requested"
  /\ cancelled' = TRUE
  /\ UNCHANGED <<limiterVars, poolVars, consVars, status, known, ghostVars>>

-----------------------------------------------------------------------------
Worker(w) ==
  \/ \E p \in Plans : Take(w, p)
  \/ NoMorePlans(w)
  \/ Acquire(w) \/ Wait(w) \/ WakeUp(w) \/ AcquireCancelled(w)
  \/ Check(w) \/ Release(w) \/ Send(w) \/ DropBundle(w)

Consumer ==
  \/ \E b \in results : Receive(b)
  \/ SaveBundle \/ SaveFails
  \/ DeleteProxy \/ DeleteFails
  \/ EndOfResults \/ Finish

Next ==
  \/ \E w \in Workers : Worker(w)
  \/ FeederEnds \/ CloseResults
  \/ Consumer
  \/ Cancel \/ CancelContext
  \/ \E n \in 0..(MaxLimit + 1) : SetLimit(n)

Spec == Init /\ [][Next]_vars

\* Every goroutine keeps running, and a check ends by its hard timeout. Nothing
\* is assumed of cancellations and of changes of the limit.
FairSpec ==
  /\ Spec
  /\ \A w \in Workers : WF_vars(Worker(w))
  /\ WF_vars(FeederEnds) /\ WF_vars(CloseResults)
  /\ WF_vars(Consumer)
-----------------------------------------------------------------------------
(* Properties *)

Bundles == [plan : Plans, verdict : Verdicts]
Terminal == {"completed", "partial", "failed", "cancelled"}

LimiterTypeOK ==
  /\ limit \in 1..MaxLimit
  /\ active \in Nat
  /\ woken \subseteq Workers

PoolTypeOK ==
  /\ unfed \subseteq Plans
  /\ fed \in BOOLEAN /\ closed \in BOOLEAN
  /\ pc \in [Workers -> {"take", "acquire", "wait", "check", "release", "send", "done"}]
  /\ plan \in [Workers -> Plans \union {NoPlan}]
  /\ verdict \in [Workers -> Verdicts]
  /\ results \subseteq Bundles

ConsTypeOK ==
  /\ cons \in {"receive", "save", "delete", "finish", "ended"}
  /\ item \in Bundles \union {NoBundle}
  /\ shield \in BOOLEAN
  /\ available \in Nat /\ failed \in Nat
  /\ persisted \in Nat /\ persistenceFailed \in Nat /\ deletedFailed \in Nat
  /\ outcome \in Terminal \union {""}

JobTypeOK ==
  /\ cancelled \in BOOLEAN
  /\ status \in Terminal \union {"running", "cancel_requested"}
  /\ known \in [Plans -> {"untested", "available", "reachable", "dead", "deleted"}]
  /\ produced \in [Plans -> Verdicts \union {"none"}]
  /\ saved \subseteq Plans

TypeOK == LimiterTypeOK /\ PoolTypeOK /\ ConsTypeOK /\ JobTypeOK

\* No permit leaks and none is given back twice, whatever the moment of a
\* cancellation: c.active counts the workers between Acquire and Release.
PermitHolders == {w \in Workers : pc[w] \in {"check", "release"}}
PermitsAccounted == active = Cardinality(PermitHolders)

\* No wake-up is lost: a worker asleep in Acquire, its channel not closed, means
\* that there is no permit to be had, also after the limit was changed.
NoSleeperMissesPermit ==
  \A w \in Workers : pc[w] = "wait" /\ w \notin woken => active >= limit

\* A completed job has checked every plan, and what it found out about each is
\* in the store: only a plan that ran into its hard timeout may be missing.
CompletedMeansSaved ==
  status = "completed" =>
    \A p \in Plans : p \in saved \/ (produced[p] = "empty" /\ "timeout" \in Faults)

\* The job ends only after its workers have stopped and given back all permits:
\* the heavy-work slot is not freed under a running check.
EndsAfterWorkers ==
  status \in Terminal => active = 0 /\ \A w \in Workers : pc[w] = "done"

\* A proxy is deleted only for a dead verdict of this job that was saved before,
\* and never while another of its targets is available.
DeletedOnlyWhenDead ==
  \A p \in Plans :
    known[p] = "deleted" => produced[p] = "dead" /\ p \in saved /\ p \notin Spared

\* Between two bundles the reported counters agree with the store.
FoundAvailable == {p \in saved : produced[p] = "available"}
Deleted == {p \in Plans : known[p] = "deleted"}
CountersMatch ==
  /\ persisted = Cardinality(saved)
  /\ available = Cardinality(FoundAvailable)
  /\ deletedFailed = Cardinality(Deleted)
ReportMatchesStore == cons \in {"receive", "ended"} => CountersMatch

\* The promise of a check job this implements: a plan is being checked while the
\* worker that has it in hand holds a permit.
UnderCheck == {plan[w] : w \in PermitHolders}

Job == INSTANCE CheckJob WITH
  checking <- UnderCheck,
  verdict <- produced,
  deleted <- Deleted,
  Kept <- Spared,
  MayTimeOut <- "timeout" \in Faults

\* Limiter, pool and consumer together are such a job: for all their goroutines,
\* channels and failures, no plan is checked twice or beyond the limit, and
\* nothing is checked, saved or deleted after the job has ended.
ImplementsJob == Job!Spec

\* The job ends, cancelled or not, whatever the limit is set to.
JobEnds == <>(cons = "ended")

-----------------------------------------------------------------------------
(* The inductive invariant behind the theorems of CheckPoolProofs *)

BeforeCheck == {"acquire", "wait", "check"}
AfterCheck == {"release", "send"}

\* Which worker has which plan in hand; no plan is handed out twice.
Hands ==
  \A w \in Workers :
    /\ pc[w] \in BeforeCheck \union AfterCheck <=> plan[w] # NoPlan
    /\ plan[w] \notin unfed
    /\ \A v \in Workers : plan[v] = plan[w] /\ plan[w] # NoPlan => v = w

\* A plan has no verdict before its check.
Fresh ==
  /\ \A p \in unfed : produced[p] = "none"
  /\ \A w \in Workers :
       pc[w] \in BeforeCheck => produced[plan[w]] = "none" /\ verdict[w] = "empty"

\* A bundle says what the check found; without a cancellation it is empty only
\* by the hard timeout.
Honest(p, v) ==
  IF v = "empty" THEN cancelled \/ (produced[p] = "empty" /\ "timeout" \in Faults)
  ELSE produced[p] = v

HonestBundles ==
  /\ \A w \in Workers : pc[w] \in AfterCheck => Honest(plan[w], verdict[w])
  /\ \A b \in results : Honest(b.plan, b.verdict)

HonestItem ==
  /\ cons \in {"save", "delete"} =>
       item \in Bundles /\ item.verdict # "empty" /\ produced[item.plan] = item.verdict
  /\ cons = "delete" => item.verdict = "dead" /\ item.plan \in saved

\* Without a cancellation nobody stops before the last plan is handed out.
Feeding ==
  ~cancelled => /\ fed => unfed = {}
                /\ \A w \in Workers : pc[w] = "done" => fed

\* The channels are closed in order, and the job ends last.
Closing ==
  /\ closed => \A w \in Workers : pc[w] = "done"
  /\ cons \in {"finish", "ended"} => closed /\ results = {} /\ outcome \in Terminal
  /\ status \in Terminal => cons = "ended"

\* No plan gets lost on its way unless the job is cancelled.
Settled(p) == p \in saved \/ (produced[p] = "empty" /\ "timeout" \in Faults)
Underway(p) ==
  \/ p \in unfed
  \/ \E w \in Workers : plan[w] = p
  \/ \E b \in results : b.plan = p
  \/ cons = "save" /\ item.plan = p
Covered ==
  ~cancelled /\ persistenceFailed = 0 => \A p \in Plans : Settled(p) \/ Underway(p)

Completion ==
  /\ outcome = "completed" => \A p \in Plans : Settled(p)
  /\ status = "completed" => outcome = "completed"

\* A plan is in one place at a time on its way from the feeder to the store, so
\* that its bundle is saved and counted at most once.
LeftPool(p) == p \notin unfed /\ \A w \in Workers : plan[w] # p
OnePlace ==
  /\ \A p \in saved : LeftPool(p)
  /\ \A b \in results :
       /\ LeftPool(b.plan) /\ b.plan \notin saved
       /\ \A c \in results : b.plan = c.plan => b = c
  /\ cons \in {"save", "delete"} =>
       LeftPool(item.plan) /\ \A b \in results : b.plan # item.plan
  /\ cons = "save" => item.plan \notin saved

\* Only an accepted cancellation stops the work, and the final status asked for
\* agrees with what has been saved, which changes no more.
CancelAccepted == cancelled => status # "running"
OutcomeFits ==
  /\ outcome \in Terminal => cons \in {"finish", "ended"}
  /\ outcome = "partial" => saved # {}
  /\ outcome = "failed" => saved = {}
  /\ outcome = "cancelled" => cancelled

IInv ==
  /\ TypeOK
  /\ Hands /\ Fresh /\ HonestBundles /\ HonestItem
  /\ PermitsAccounted /\ NoSleeperMissesPermit
  /\ DeletedOnlyWhenDead
  /\ Feeding /\ Closing /\ Covered /\ Completion
  /\ OnePlace /\ CountersMatch
  /\ CancelAccepted /\ OutcomeFits
=============================================================================
