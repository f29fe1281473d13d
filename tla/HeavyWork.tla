------------------------------ MODULE HeavyWork ------------------------------
(***************************************************************************)
(* The heavy-work slot of ProxyLiteChecker: the workCoordinator            *)
(* (coordinator.go) and the jobManager (jobs.go), together with every      *)
(* goroutine that drives them:                                             *)
(*   - HTTP handlers that start a fetch or a check by hand or cancel a job;*)
(*   - the scheduler's tick goroutine, which defers due intents, dispatches*)
(*     the next one and runs the lifecycle maintenance inline;             *)
(*   - one worker goroutine per started job, which after its terminal      *)
(*     update runs the terminal callback (release the slot, notify the     *)
(*     scheduler) and may start the next job on the same goroutine.        *)
(*                                                                         *)
(* A step of the model is one critical section of the code (one hold of    *)
(* coordinator.mu or of jobManager.mu, the SQL statement it runs included).*)
(* What the scheduler decides to defer, and when, is left open here; the   *)
(* Scheduler module models that decision.                                  *)
(***************************************************************************)
EXTENDS Naturals

CONSTANTS
  Clients,      \* goroutines serving POST /api/fetch and /api/check requests
  Ticker,       \* the goroutine of scheduler.run
  Jobs,         \* job identities in use at one time; each doubles as the
                \* goroutine that executes the job (an identity is used again
                \* once nothing refers to it, as ids never run out)
  NoJob,        \* nil *jobState
  Keys,         \* intent keys, as positive numbers in sort.Strings order
  KeyType,      \* the job type of each intent key
  PipelineKeys, \* the "check.pipeline.<targets>" keys
  Faults        \* which SQL statements may return an error: those of a start
                \* ("start"), of Update and Cancel ("update"), or the two that
                \* save the fairness state ("fairness")

HeavyTypes == {"fetch", "check"}
NoKey == 0
Actors == Clients \union {Ticker} \union Jobs

ASSUME ActorAssumption ==
  /\ Clients \intersect Jobs = {}
  /\ Ticker \notin Clients \union Jobs
  /\ NoJob \notin Jobs

ASSUME KeyAssumption ==
  /\ Keys \subseteq Nat \ {0}
  /\ KeyType \in [Keys -> HeavyTypes]
  /\ PipelineKeys \subseteq Keys
  /\ \A k \in PipelineKeys : KeyType[k] = "check"

ASSUME FaultAssumption == Faults \subseteq {"start", "update", "fairness"}

ActiveStatus == {"running", "cancel_requested", "cancelling"}
CancelStatus == {"cancel_requested", "cancelling"}
TerminalStatus == {"completed", "partial", "failed", "cancelled", "interrupted"}

VARIABLES
  \* workCoordinator
  active,       \* c.active: the job the slot is bound to
  reserved,     \* c.reservedType: the type a start has reserved the slot for
  pending,      \* the keys of c.pending
  lastGranted,  \* c.lastGrantedType
  consecutive,  \* c.consecutive, counted up to GrantCap
  saved,        \* the coordinator_state rows
  \* jobManager
  mem,          \* status of the job in m.items ("none": not in the map)
  row,          \* status in job_runs ("none": no such row)
  kind,         \* type of the job
  ctxDone,      \* has the job's context been cancelled?
  \* goroutines
  pc,           \* what each goroutine does next
  cur,          \* the job it creates, runs or reports on
  want,         \* the start request it carries
  maintNext,    \* does the current tick still have to call tickMaintenance?
  \* history, read by the properties only
  clobbered,    \* has a Release cleared a reservation of another goroutine?
  triggered,    \* keys deferred by the scheduler and not started since
  recent        \* types of the last two jobs bound to the slot

coordVars == <<active, reserved, pending, lastGranted, consecutive, saved>>
jobVars   == <<mem, row, kind, ctxDone>>
threadVars == <<pc, cur, want, maintNext>>
ghostVars == <<clobbered, triggered, recent>>
vars == <<coordVars, jobVars, threadVars, ghostVars>>

-----------------------------------------------------------------------------
(* Helpers *)

GrantCap == 2   \* PopNext only compares c.consecutive with 2: count no further

NoWant == [type |-> "", key |-> NoKey]

\* Mutant: the slot is judged by c.active alone, as tickMaintenance does.
SlotFreeByActiveOnly == active = NoJob

\* PopNext and TryAcquire look at both fields of the slot.
SlotFree == active = NoJob /\ reserved = ""

\* Goroutine a returns from what it was doing. The tick goroutine goes on to
\* tickMaintenance when it has not done so in this tick.
Return(a) ==
  /\ pc' = [pc EXCEPT ![a] = IF a = Ticker /\ maintNext THEN "maint" ELSE "idle"]
  /\ cur' = [cur EXCEPT ![a] = NoJob]
  /\ want' = [want EXCEPT ![a] = NoWant]
  /\ UNCHANGED maintNext

Goto(a, label) ==
  /\ pc' = [pc EXCEPT ![a] = label]
  /\ UNCHANGED <<cur, want, maintNext>>

\* An identity for a new job: its row is not active and nobody refers to it.
Unused(j) ==
  /\ row[j] \notin ActiveStatus
  /\ pc[j] = "idle"
  /\ active # j
  /\ \A a \in Actors : cur[a] # j

\* Mutant: the fairness limit is off by one.
EligibleOffByOne == {k \in pending : KeyType[k] # lastGranted \/ consecutive <= 2}

\* The keys of the other type than the one granted twice in a row, or all of
\* them when the limit is not reached.
Eligible == {k \in pending : KeyType[k] # lastGranted \/ consecutive < 2}

\* PopNext selects the first eligible key in sorted order, and falls back on
\* the first key of all.
IsNext(k) ==
  LET choice == IF Eligible # {} THEN Eligible ELSE pending
  IN  k \in choice /\ \A other \in choice : k <= other

-----------------------------------------------------------------------------
Init ==
  /\ active = NoJob
  /\ reserved = ""
  /\ pending = {}
  /\ lastGranted = ""
  /\ consecutive = 0
  /\ saved = [type |-> "", count |-> 0]
  /\ mem = [j \in Jobs |-> "none"]
  /\ row = [j \in Jobs |-> "none"]
  /\ kind = [j \in Jobs |-> ""]
  /\ ctxDone = [j \in Jobs |-> FALSE]
  /\ pc = [a \in Actors |-> "idle"]
  /\ cur = [a \in Actors |-> NoJob]
  /\ want = [a \in Actors |-> NoWant]
  /\ maintNext = FALSE
  /\ clobbered = FALSE
  /\ triggered = {}
  /\ recent = [before |-> "", last |-> ""]

-----------------------------------------------------------------------------
(* Starting a job: StartFetchSourcesJob and StartCheckJob *)

\* A handler asks for a fetch or a check and TryAcquire reserves the slot. When
\* the slot is taken a manual request is refused (409) and nothing changes.
ManualAcquire(c, t) ==
  /\ pc[c] = "idle"
  /\ SlotFree
  /\ reserved' = t
  /\ pc' = [pc EXCEPT ![c] = "reserved"]
  /\ want' = [want EXCEPT ![c] = [type |-> t, key |-> NoKey]]
  /\ UNCHANGED <<active, pending, lastGranted, consecutive, saved, jobVars,
                 cur, maintNext, ghostVars>>

\* TryAcquire for an intent PopNext has handed to goroutine a. When the slot is
\* taken it merges the intent back and the start returns errJobDeferred.
AutoAcquire(a) ==
  /\ pc[a] = "popped"
  /\ SlotFree
  /\ reserved' = want[a].type
  /\ Goto(a, "reserved")
  /\ UNCHANGED <<active, pending, lastGranted, consecutive, saved, jobVars,
                 ghostVars>>

\* Mutant: the refused intent is dropped.
AutoRefusedDrops(a) ==
  /\ pc[a] = "popped"
  /\ ~SlotFree
  /\ Return(a)
  /\ UNCHANGED <<coordVars, jobVars, ghostVars>>

AutoRefused(a) ==
  /\ pc[a] = "popped"
  /\ ~SlotFree
  /\ pending' = pending \union {want[a].key}
  /\ Goto(a, "deferred")
  /\ UNCHANGED <<active, reserved, lastGranted, consecutive, saved, jobVars,
                 ghostVars>>

\* dispatchNext answers errJobDeferred by deferring the intent once more.
DeferBack(a) ==
  /\ pc[a] = "deferred"
  /\ pending' = pending \union {want[a].key}
  /\ Return(a)
  /\ UNCHANGED <<active, reserved, lastGranted, consecutive, saved, jobVars,
                 ghostVars>>

\* CreateWithSpec inserts the job_runs row and enters the job in m.items.
CreateJob(a, j) ==
  /\ pc[a] = "reserved"
  /\ Unused(j)
  /\ row' = [row EXCEPT ![j] = "running"]
  /\ mem' = [mem EXCEPT ![j] = "running"]
  /\ kind' = [kind EXCEPT ![j] = want[a].type]
  /\ pc' = [pc EXCEPT ![a] = "created"]
  /\ cur' = [cur EXCEPT ![a] = j]
  /\ UNCHANGED <<coordVars, ctxDone, want, maintNext, ghostVars>>

\* Mutant: an error return that skips AbortReservation.
StartFailsForgetsAbort(a) ==
  /\ "start" \in Faults
  /\ pc[a] = "reserved"
  /\ Return(a)
  /\ UNCHANGED <<coordVars, jobVars, ghostVars>>

\* The INSERT fails, or for a check the settings cannot be read or the
\* maintenance run before it fails: the start gives up.
StartFails(a) ==
  /\ "start" \in Faults
  /\ pc[a] = "reserved"
  /\ Goto(a, "abort")
  /\ UNCHANGED <<coordVars, jobVars, ghostVars>>

\* AbortReservation; the error returned makes dispatchNext drop the intent.
AbortReservation(a) ==
  /\ pc[a] = "abort"
  /\ reserved' = ""
  /\ triggered' = triggered \ {want[a].key}
  /\ Return(a)
  /\ UNCHANGED <<active, pending, lastGranted, consecutive, saved, jobVars,
                 clobbered, recent>>

\* Bind turns the reservation into the active job and counts the grant. The
\* two coordinator_state rows are written one by one, their errors ignored.
Bind(a) ==
  LET t == kind[cur[a]]
      n == IF lastGranted # t THEN 1
           ELSE IF consecutive < GrantCap THEN consecutive + 1 ELSE consecutive
  IN
  /\ pc[a] = "created"
  /\ active' = cur[a]
  /\ reserved' = ""
  /\ lastGranted' = t
  /\ consecutive' = n
  /\ saved' \in [type : {saved.type, t}, count : {saved.count, n}]
  /\ "fairness" \notin Faults => saved' = [type |-> t, count |-> n]
  /\ recent' = [before |-> recent.last, last |-> t]
  /\ triggered' = triggered \ {want[a].key}
  /\ Goto(a, "bound")
  /\ UNCHANGED <<pending, jobVars, clobbered>>

\* The start ends with "go s.run...Job": the goroutine of the job begins and
\* the starting goroutine returns.
Launch(a) ==
  LET j == cur[a] IN
  /\ pc[a] = "bound"
  /\ pc' = [pc EXCEPT ![j] = "running",
                      ![a] = IF a = Ticker /\ maintNext THEN "maint" ELSE "idle"]
  /\ cur' = [cur EXCEPT ![j] = j, ![a] = NoJob]
  /\ want' = [want EXCEPT ![a] = NoWant]
  /\ UNCHANGED <<coordVars, jobVars, maintNext, ghostVars>>

\* ListCheckCandidates fails after Bind: StartCheckJob fails the job itself, on
\* the goroutine that was starting it.
CandidatesFail(a) ==
  /\ "start" \in Faults
  /\ pc[a] = "bound"
  /\ kind[cur[a]] = "check"
  /\ pc' = [pc EXCEPT ![a] = "failing"]
  /\ want' = [want EXCEPT ![a] = NoWant]
  /\ UNCHANGED <<coordVars, jobVars, cur, maintNext, ghostVars>>

-----------------------------------------------------------------------------
(* Ending a job: Update with a terminal status, then the terminal callback *)

\* The final status each caller of Update asks for: the worker at the end of
\* its run (or its recover), finishCancelled, StartCheckJob, tickMaintenance.
Outcomes ==
  [running     |-> {"completed", "partial", "failed"},
   stopping    |-> {"cancelled"},
   failing     |-> {"failed"},
   maintaining |-> {"completed", "failed"}]

\* Mutant: the late outcome wins over the accepted cancellation.
FinalStatusIgnoresCancel(j, outcome) == outcome

\* A job whose cancellation was accepted does not complete.
FinalStatus(j, outcome) ==
  IF mem[j] \in CancelStatus /\ outcome \in {"completed", "partial"}
  THEN "cancelled" ELSE outcome

\* The UPDATE succeeds: the job leaves m.items and the callback will run.
Finish(a) ==
  /\ pc[a] \in DOMAIN Outcomes
  /\ \E outcome \in Outcomes[pc[a]] :
       row' = [row EXCEPT ![cur[a]] = FinalStatus(cur[a], outcome)]
  /\ mem' = [mem EXCEPT ![cur[a]] = "none"]
  /\ Goto(a, "terminal")
  /\ UNCHANGED <<coordVars, kind, ctxDone, ghostVars>>

\* The UPDATE fails: the status is rolled back in memory, Update returns
\* without the callback, and the goroutine ends all the same.
FinishFails(a) ==
  /\ "update" \in Faults
  /\ pc[a] \in DOMAIN Outcomes
  /\ Return(a)
  /\ UNCHANGED <<coordVars, jobVars, ghostVars>>

\* finishCancelled, first half: the worker has seen its context cancelled and
\* records "cancelling"; an error of this UPDATE rolls the status back.
StopWork(j) ==
  /\ pc[j] = "running"
  /\ ctxDone[j]
  /\ \/ /\ mem' = [mem EXCEPT ![j] = "cancelling"]
        /\ row' = [row EXCEPT ![j] = "cancelling"]
     \/ /\ "update" \in Faults
        /\ UNCHANGED <<mem, row>>
  /\ Goto(j, "stopping")
  /\ UNCHANGED <<coordVars, kind, ctxDone, ghostVars>>

\* Mutants: Release refuses the job that holds the slot, or heeds any job.
ReleasesUnboundOnly(a) == active = NoJob
ReleasesAnyJob(a) == TRUE

\* Release heeds the job the slot is bound to, and every job while no job is
\* bound to it.
Releases(a) == active \in {NoJob, cur[a]}

\* The callback of newServer, first call: coordinator.Release.
ReleaseSlot(a) ==
  /\ pc[a] = "terminal"
  /\ IF Releases(a)
     THEN /\ active' = NoJob
          /\ reserved' = ""
          /\ clobbered' = (clobbered \/ (active = NoJob /\ reserved # ""))
     ELSE UNCHANGED <<active, reserved, clobbered>>
  /\ Goto(a, "released")
  /\ UNCHANGED <<pending, lastGranted, consecutive, saved, jobVars,
                 triggered, recent>>

\* The callback, second call: OnJobTerminal may defer the check of what a fetch
\* has added, then calls dispatchNext. Nothing reads the finished job any more,
\* so the model forgets its fields here and its identity may be used again.
NotifyTerminal(a) ==
  /\ pc[a] = "released"
  /\ \/ UNCHANGED <<pending, triggered>>
     \/ \E k \in PipelineKeys :
          /\ kind[cur[a]] = "fetch"
          /\ pending' = pending \union {k}
          /\ triggered' = triggered \union {k}
  /\ pc' = [pc EXCEPT ![a] = "dispatch"]
  /\ cur' = [cur EXCEPT ![a] = NoJob]
  /\ row' = [row EXCEPT ![cur[a]] = "none"]
  /\ kind' = [kind EXCEPT ![cur[a]] = ""]
  /\ ctxDone' = [ctxDone EXCEPT ![cur[a]] = FALSE]
  /\ UNCHANGED <<active, reserved, lastGranted, consecutive, saved, mem,
                 want, maintNext, clobbered, recent>>

\* dispatchNext: PopNext hands out an intent when the slot is free.
Pop(a, k) ==
  /\ pc[a] = "dispatch"
  /\ SlotFree
  /\ k \in pending
  /\ IsNext(k)
  /\ pending' = pending \ {k}
  /\ want' = [want EXCEPT ![a] = [type |-> KeyType[k], key |-> k]]
  /\ pc' = [pc EXCEPT ![a] = "popped"]
  /\ UNCHANGED <<active, reserved, lastGranted, consecutive, saved, jobVars,
                 cur, maintNext, ghostVars>>

NothingToPop(a) ==
  /\ pc[a] = "dispatch"
  /\ ~SlotFree \/ pending = {}
  /\ Return(a)
  /\ UNCHANGED <<coordVars, jobVars, ghostVars>>

-----------------------------------------------------------------------------
(* The tick goroutine: enqueueDue, dispatchNext, tickMaintenance *)

TickStart ==
  /\ pc[Ticker] = "idle"
  /\ pc' = [pc EXCEPT ![Ticker] = "enqueue"]
  /\ maintNext' = TRUE
  /\ UNCHANGED <<coordVars, jobVars, cur, want, ghostVars>>

\* enqueueDue defers the intent of one due schedule row.
TickDefer(k) ==
  /\ pc[Ticker] = "enqueue"
  /\ k \notin PipelineKeys
  /\ pending' = pending \union {k}
  /\ triggered' = triggered \union {k}
  /\ UNCHANGED <<active, reserved, lastGranted, consecutive, saved, jobVars,
                 threadVars, clobbered, recent>>

TickDispatch ==
  /\ pc[Ticker] = "enqueue"
  /\ Goto(Ticker, "dispatch")
  /\ UNCHANGED <<coordVars, jobVars, ghostVars>>

\* tickMaintenance returns when maintenance is not due or Active() # nil.
MaintenanceNotNow ==
  /\ pc[Ticker] = "maint"
  /\ maintNext' = FALSE
  /\ pc' = [pc EXCEPT ![Ticker] = "idle"]
  /\ UNCHANGED <<coordVars, jobVars, cur, want, ghostVars>>

\* Active() = nil: c.reservedType plays no part in that.
MaintenanceSeesNoJob ==
  /\ pc[Ticker] = "maint"
  /\ active = NoJob
  /\ maintNext' = FALSE
  /\ pc' = [pc EXCEPT ![Ticker] = "maint2"]
  /\ UNCHANGED <<coordVars, jobVars, cur, want, ghostVars>>

\* Mutant: the maintenance job is bound to the slot like any other.
MaintenanceBinds(j) ==
  /\ pc[Ticker] = "maint2"
  /\ pending = {}
  /\ Unused(j)
  /\ row' = [row EXCEPT ![j] = "running"]
  /\ mem' = [mem EXCEPT ![j] = "running"]
  /\ kind' = [kind EXCEPT ![j] = "maintenance"]
  /\ pc' = [pc EXCEPT ![Ticker] = "created"]
  /\ cur' = [cur EXCEPT ![Ticker] = j]
  /\ UNCHANGED <<coordVars, ctxDone, want, maintNext, ghostVars>>

\* ... then returns when Pending() is not empty, and otherwise creates the
\* maintenance job, which never takes the slot.
MaintenanceStarts(j) ==
  /\ pc[Ticker] = "maint2"
  /\ pending = {}
  /\ Unused(j)
  /\ row' = [row EXCEPT ![j] = "running"]
  /\ mem' = [mem EXCEPT ![j] = "running"]
  /\ kind' = [kind EXCEPT ![j] = "maintenance"]
  /\ pc' = [pc EXCEPT ![Ticker] = "maintaining"]
  /\ cur' = [cur EXCEPT ![Ticker] = j]
  /\ UNCHANGED <<coordVars, ctxDone, want, maintNext, ghostVars>>

MaintenanceSkipped ==
  /\ pc[Ticker] = "maint2"
  /\ pending # {} \/ "start" \in Faults
  /\ Return(Ticker)
  /\ UNCHANGED <<coordVars, jobVars, ghostVars>>

-----------------------------------------------------------------------------
(* Cancellation and restart *)

\* jobManager.Cancel for POST /api/jobs/{id}/cancel. The context is cancelled
\* right after the unlock; a worker that has not looked at it yet covers the
\* moment between. When the UPDATE fails the status has changed in memory and
\* the context has not been cancelled.
Cancel(j) ==
  /\ mem[j] \in ActiveStatus
  /\ \/ /\ mem[j] = "running"
        /\ mem' = [mem EXCEPT ![j] = "cancel_requested"]
        /\ \/ /\ row' = [row EXCEPT ![j] = "cancel_requested"]
              /\ ctxDone' = [ctxDone EXCEPT ![j] = TRUE]
           \/ "update" \in Faults /\ UNCHANGED <<row, ctxDone>>
     \/ /\ mem[j] # "running"
        /\ ctxDone' = [ctxDone EXCEPT ![j] = TRUE]
        /\ UNCHANGED <<mem, row>>
  /\ UNCHANGED <<coordVars, kind, threadVars, ghostVars>>

\* The process dies and starts again: recoverInterrupted closes the rows left
\* active, newWorkCoordinator reads the fairness rows, everything else is new.
Restart ==
  /\ row' = [j \in Jobs |-> IF row[j] \in ActiveStatus THEN "interrupted" ELSE "none"]
  /\ kind' = [j \in Jobs |-> ""]
  /\ ctxDone' = [j \in Jobs |-> FALSE]
  /\ mem' = [j \in Jobs |-> "none"]
  /\ active' = NoJob
  /\ reserved' = ""
  /\ pending' = {}
  /\ lastGranted' = saved.type
  /\ consecutive' = saved.count
  /\ pc' = [a \in Actors |-> "idle"]
  /\ cur' = [a \in Actors |-> NoJob]
  /\ want' = [a \in Actors |-> NoWant]
  /\ maintNext' = FALSE
  /\ clobbered' = FALSE
  /\ triggered' = {}
  /\ UNCHANGED <<saved, recent>>

-----------------------------------------------------------------------------
(* What goroutine a does by itself once it has been given work. *)
Step(a) ==
  \/ AutoAcquire(a) \/ AutoRefused(a) \/ DeferBack(a)
  \/ (\E j \in Jobs : CreateJob(a, j)) \/ StartFails(a) \/ AbortReservation(a)
  \/ Bind(a) \/ Launch(a) \/ CandidatesFail(a)
  \/ Finish(a) \/ FinishFails(a)
  \/ ReleaseSlot(a) \/ NotifyTerminal(a)
  \/ (\E k \in Keys : Pop(a, k)) \/ NothingToPop(a)

Tick ==
  \/ TickStart \/ TickDispatch
  \/ MaintenanceNotNow \/ MaintenanceSeesNoJob \/ MaintenanceSkipped
  \/ \E j \in Jobs : MaintenanceStarts(j)

Next ==
  \/ \E a \in Actors : Step(a)
  \/ \E j \in Jobs : StopWork(j) \/ Cancel(j)
  \/ \E c \in Clients, t \in HeavyTypes : ManualAcquire(c, t)
  \/ \E k \in Keys : TickDefer(k)
  \/ Tick
  \/ Restart

Spec == Init /\ [][Next]_vars

\* Goroutines keep running; requests, cancellations and restarts need not come.
\* A worker ends because every fetch and every check carries a timeout.
FairSpec ==
  /\ Spec
  /\ \A a \in Actors : WF_vars(Step(a))
  /\ \A j \in Jobs : WF_vars(StopWork(j))
  /\ WF_vars(Tick)

\* The behaviours in which no Release ever hits another goroutine's
\* reservation.
QuietSpec == Init /\ [][Next /\ ~clobbered']_vars

-----------------------------------------------------------------------------
(* Properties *)

Labels == {"idle", "popped", "deferred", "reserved", "created", "abort",
           "bound", "failing", "running", "stopping", "terminal", "released",
           "dispatch", "enqueue", "maint", "maint2", "maintaining"}

CoordTypeOK ==
  /\ active \in Jobs \union {NoJob}
  /\ reserved \in HeavyTypes \union {""}
  /\ pending \subseteq Keys
  /\ lastGranted \in HeavyTypes \union {""}
  /\ consecutive \in 0..GrantCap
  /\ saved \in [type : HeavyTypes \union {""}, count : 0..GrantCap]

JobTypeOK ==
  /\ mem \in [Jobs -> ActiveStatus \union {"none"}]
  /\ row \in [Jobs -> ActiveStatus \union TerminalStatus \union {"none"}]
  /\ kind \in [Jobs -> HeavyTypes \union {"maintenance", ""}]
  /\ ctxDone \in [Jobs -> BOOLEAN]

ThreadTypeOK ==
  /\ pc \in [Actors -> Labels]
  /\ cur \in [Actors -> Jobs \union {NoJob}]
  /\ want \in [Actors -> [type : HeavyTypes \union {""}, key : Keys \union {NoKey}]]
  /\ maintNext \in BOOLEAN

GhostTypeOK ==
  /\ clobbered \in BOOLEAN
  /\ triggered \subseteq Keys
  /\ recent \in [before : HeavyTypes \union {""}, last : HeavyTypes \union {""}]

TypeOK == CoordTypeOK /\ JobTypeOK /\ ThreadTypeOK /\ GhostTypeOK

HeavyActive == {j \in Jobs : kind[j] \in HeavyTypes /\ row[j] \in ActiveStatus}

\* Two heavy jobs are never active together: "cannot race into concurrent heavy
\* work" (CHANGELOG.md:186).
HeavyExclusive == \A i, j \in HeavyActive : i = j

\* That is so but for a Release that clears somebody else's reservation, which the
\* end of the maintenance does to a start between TryAcquire and Bind: as long as
\* none has happened since the process started, a fetch or a check job that is
\* running, being cancelled or stuck excludes every other.
ExclusiveUnlessClobbered == ~clobbered => HeavyExclusive

\* The abstract slot this implements: bound to a job, claimed by a start, or
\* free; and the heavy jobs at work.
SlotState == IF active # NoJob THEN "held" ELSE IF reserved # "" THEN "claimed" ELSE "free"

Slot == INSTANCE HeavySlot WITH state <- SlotState, working <- HeavyActive

\* Without such a Release every step of coordinator and jobs is a step of a
\* mutual-exclusion slot: a job begins only under a claim with no other job at
\* work, and the slot is freed only after its job has ended.
ImplementsSlot == Slot!Spec

\* A job left active whose goroutine is gone (its terminal UPDATE failed).
Orphaned(j) == mem[j] \in ActiveStatus /\ \A a \in Actors : cur[a] # j

\* Where a goroutine has the reservation in its hands.
Holding == {"reserved", "created", "abort"}

\* The slot does not leak: a reservation is always in the hands of a goroutine
\* that will bind or abort it, and a bound job is one whose goroutine has still
\* to call Release, unless that job was orphaned by a failed terminal UPDATE.
ReservationHeld == reserved # "" => \E a \in Actors : pc[a] \in Holding
ActiveAccounted ==
  active # NoJob =>
    \/ Orphaned(active)
    \/ \E a \in Actors : cur[a] = active /\ pc[a] \notin {"created", "released"}
SlotAccounted == ReservationHeld /\ ActiveAccounted

\* Where a goroutine has an intent in its hands that it will bind, hand back or
\* give up with an error.
Carrying == {"popped", "deferred"} \union Holding
Carries(a, k) == want[a].key = k /\ pc[a] \in Carrying

\* An intent the scheduler deferred is never lost to contention for the slot:
\* until its job is bound, or its start fails, it is pending or a goroutine is on
\* the way to start it or to hand it back.
NoTriggerLost ==
  \A k \in triggered : k \in pending \/ \E a \in Actors : Carries(a, k)

\* An accepted cancellation is final: from cancel_requested or cancelling the
\* job_runs row never becomes completed or partial, and a finished row keeps
\* its outcome whatever late Update, Cancel or restart comes.
StatusSticks(j) ==
  /\ row[j] \in CancelStatus => row'[j] \notin {"running", "completed", "partial"}
  /\ row[j] \in TerminalStatus /\ ~Unused(j) => row'[j] \in {row[j], "none"}
CancelAndOutcomeStick == [][\A j \in Jobs : StatusSticks(j)]_vars

\* When the last two grants were of one type and an intent of the other type
\* waits, dispatchNext does not hand out the first type again, also not after a
\* restart (as long as the coordinator_state rows could be written).
PopAlternates(a) ==
  (pc[a] = "dispatch" /\ pc'[a] = "popped" /\ recent.before = recent.last)
    => \/ want'[a].type # recent.last
       \/ \A k \in pending : KeyType[k] = recent.last
GrantsAlternate == [][\A a \in Actors : PopAlternates(a)]_vars

\* A bound job frees the slot in the end, unless it was orphaned: its terminal
\* UPDATE failed, and Update returned without the callback that frees the slot.
SlotFreed == \A j \in Jobs : (active = j) ~> (active # j \/ Orphaned(j))

-----------------------------------------------------------------------------
(* The inductive invariant behind the theorems of HeavyWorkProofs *)

\* What a goroutine at a given point has in hand.
WithLiveJob == {"created", "bound", "failing", "running", "stopping", "maintaining"}
WithEndedJob == {"terminal", "released"}
NotLaunched == {"created", "bound", "failing", "maintaining"}

\* m.items and the job_runs rows agree on which jobs are active.
RowsMatchItems == \A j \in Jobs : row[j] \in ActiveStatus <=> mem[j] # "none"

\* A goroutine that carries a start request knows what to start.
Requests == \A a \in Actors :
  /\ pc[a] \in {"popped", "deferred", "reserved"} => want[a].type \in HeavyTypes
  /\ pc[a] \in {"popped", "deferred"} => want[a].key \in Keys

\* Which goroutines have a job in hand, and that two never have the same.
Hands == \A a \in Actors :
  IF pc[a] \in WithLiveJob \union WithEndedJob THEN cur[a] \in Jobs ELSE cur[a] = NoJob
OneOwner == \A a, b \in Actors : cur[a] = cur[b] /\ cur[a] \in Jobs => a = b

\* What a goroutine knows of the job in its hands.
Live == \A a \in Actors :
  /\ pc[a] \in WithLiveJob => row[cur[a]] \in ActiveStatus
  /\ pc[a] \in WithEndedJob => row[cur[a]] \notin ActiveStatus
HeavyStart == \A a \in Actors :
  pc[a] \in {"created", "bound"} => kind[cur[a]] \in HeavyTypes

\* The goroutine of a job runs that job, and is idle until it is launched.
OwnJob == \A a \in Actors :
  /\ pc[a] \in {"running", "stopping"} => cur[a] = a
  /\ pc[a] \in NotLaunched => pc[cur[a]] = "idle"

Ownership == Hands /\ OneOwner /\ Live /\ HeavyStart /\ OwnJob

\* Every heavy job at work is bound to the slot or under the one reservation.
Reservation ==
  /\ \A a \in Actors : pc[a] \in Holding => reserved # "" /\ active = NoJob
  /\ active # NoJob => reserved = ""
OneHolder == \A a, b \in Actors : pc[a] \in Holding /\ pc[b] \in Holding => a = b
Guarded == \A j \in HeavyActive :
  active = j \/ \E a \in Actors : pc[a] = "created" /\ cur[a] = j

SlotGuards == Reservation /\ OneHolder /\ Guarded

\* The row never runs ahead of m.items: while it says that a cancellation was
\* accepted, so does the job in memory, which decides the final status.
CancelInItems == \A j \in Jobs : row[j] \in CancelStatus => mem[j] \in CancelStatus

IInv ==
  /\ TypeOK
  /\ Requests
  /\ RowsMatchItems
  /\ CancelInItems
  /\ Ownership
  /\ SlotAccounted
  /\ NoTriggerLost
  /\ ~clobbered => SlotGuards

\* The fairness state tells the types of the last two grants, and so do the
\* coordinator_state rows, as long as they can be written.
GrantsRemembered ==
  /\ lastGranted = recent.last
  /\ saved = [type |-> lastGranted, count |-> consecutive]
  /\ lastGranted \in HeavyTypes => consecutive >= 1
  /\ lastGranted \in HeavyTypes /\ recent.before = lastGranted => consecutive = 2
=============================================================================
