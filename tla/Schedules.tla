------------------------------ MODULE Schedules ------------------------------
(***************************************************************************)
(* The schedule rows (scheduler_state) of ProxyLiteChecker and everything  *)
(* that reads them, changes them and writes them back (settings.go):       *)
(*   - the tick goroutine: ensureSchedules, enqueueDue, dispatchNext,      *)
(*     tickMaintenance;                                                    *)
(*   - MarkStarted, on the goroutine that starts a job;                    *)
(*   - OnJobTerminal, on the goroutine of the job that ends;               *)
(*   - ApplySettings, on the goroutine of POST /api/settings;              *)
(*   - recoverInterruptedSchedules after a crash.                          *)
(* SaveSchedulerState writes every column of a row, so each of these is a  *)
(* read and, one or more steps later, a write. None of them looks at the   *)
(* error of that write, and most take a row they cannot read for a blank   *)
(* one: with "read" and "save" in Events, both may fail.                   *)
(*                                                                         *)
(* The slot of the coordinator is one variable here; how starts, releases  *)
(* and refused intents race for it is the subject of HeavyWork.            *)
(*                                                                         *)
(* NextDueAt and BackoffUntil are one value: "none" (NextDueAt is empty),  *)
(* "later" (one of the two times is still to come) or "due" (both are      *)
(* past). How long a schedule waits after which outcome is abstracted.     *)
(***************************************************************************)
EXTENDS Naturals

CONSTANTS
  Periodic,     \* "fetch.periodic", "check.periodic"
  StockFetch,   \* {"fetch.low_stock"}, or {} to leave it out
  Targets,      \* the keys "check.low_stock.<profile>"
  Maintenance,  \* {"maintenance.lifecycle"}, or {} to leave it out
  NoKey,        \* no key in hand; task_key of a job started by hand
  Jobs,         \* jobs in use at one time, and the goroutines that run them
  NoJob,        \* no job
  OldJob,       \* a job before those in use, that has ended
  Interrupted,  \* a job before those in use, that a crash interrupted
  Ticker,       \* the goroutine of scheduler.run
  Savers,       \* goroutines serving POST /api/settings
  Events        \* what may happen besides: "manual", a job is started by hand;
                \* "start", a start fails after TryAcquire; "create", the
                \* maintenance job cannot be created; "update", the terminal
                \* UPDATE of a job fails; "read", a schedule row cannot be read;
                \* "save", a schedule row, or the settings, cannot be written;
                \* "crash"

Keys == Periodic \union Targets \union StockFetch \union Maintenance
Toggled == Periodic \union Targets \union StockFetch
Actors == Savers \union Jobs \union {Ticker}

ASSUME KeyAssumption ==
  /\ Periodic \intersect Targets = {}
  /\ StockFetch \intersect (Periodic \union Targets) = {}
  /\ \A f, g \in StockFetch : f = g
  /\ Maintenance \intersect Toggled = {} /\ \A k, l \in Maintenance : k = l
  /\ NoKey \notin Keys

ASSUME ActorAssumption ==
  /\ Savers \intersect Jobs = {}
  /\ Ticker \notin Savers \union Jobs
  /\ {NoJob, OldJob, Interrupted} \intersect Jobs = {}
  /\ NoJob # OldJob /\ NoJob # Interrupted /\ OldJob # Interrupted

ASSUME EventAssumption == Events \subseteq {"manual", "start", "create", "update", "read", "save", "crash"}

VARIABLES
  \* the database
  enabled,    \* keys switched on in app_settings
  row,        \* the scheduler_state rows
  status,     \* job_runs: "none" (not in use), "running" or "ended"
  task,       \* job_runs: the task_key of each job
  leftover,   \* job_runs: schedules with a job that an earlier process left running
  \* the coordinator
  slot,       \* the job the slot is bound to
  pending,    \* keys of the pending intents
  \* goroutines
  pc,         \* what each goroutine does next
  key,        \* the schedule it is working on
  copy,       \* the row it has read
  cur,        \* the job it starts, runs or reports on
  view,       \* the settings it has read
  snap, todo, \* the tick: rows read by enqueueDue, keys still to look at
  maintNext,  \* the tick: is tickMaintenance still to come?
  \* history, read by the properties only
  lost        \* schedules without a next time because a crash or a failed statement
              \* kept it from being written, or because markPending overwrote it,
              \* until the next job or saver of settings writes one

database == <<enabled, row, status, task, leftover>>
coordinator == <<slot, pending>>
tickVars == <<snap, todo, maintNext>>
vars == <<database, coordinator, pc, key, copy, cur, view, tickVars, lost>>

Rows == [found : BOOLEAN, next : {"none", "later", "due"},
         last : Jobs \union {NoJob, OldJob, Interrupted}]
NoRow == [found |-> FALSE, next |-> "none", last |-> NoJob]

-----------------------------------------------------------------------------
(* Helpers *)

\* schedulerStateDue
IsDue(r) == r.found /\ r.next = "due"

Goto(a, label) == pc' = [pc EXCEPT ![a] = label]

\* Goroutine a goes on to label and has read row k: a blank one, if that failed.
Read(a, k, label) ==
  /\ \/ copy' = [copy EXCEPT ![a] = row[k]]
     \/ "read" \in Events /\ copy' = [copy EXCEPT ![a] = NoRow]
  /\ key' = [key EXCEPT ![a] = k]
  /\ Goto(a, label)

\* SaveSchedulerState upserts the whole row, or fails, which nobody looks at.
Upsert(k, r) == row' = [row EXCEPT ![k] = [r EXCEPT !.found = TRUE]]
SaveFails == "save" \in Events /\ row' = row

\* Goroutine a is done with its schedule.
Done(a) ==
  /\ key' = [key EXCEPT ![a] = NoKey]
  /\ copy' = [copy EXCEPT ![a] = NoRow]

Write(a, k, r) == (Upsert(k, r) \/ SaveFails) /\ Done(a)

\* Nothing says when schedule k is to run.
Unplanned(k) == row[k].found /\ row[k].next = "none"

\* lost, after schedule k should have got a next time and has not.
Stranded(k) == IF Unplanned(k) THEN lost \union {k} ELSE lost

\* A write by which schedule k gets its next time.
Plan(a, k, r) ==
  /\ \/ Upsert(k, r) /\ lost' = lost \ {k}
     \/ SaveFails /\ lost' = Stranded(k)
  /\ Done(a)

\* Goroutine a returns from dispatchNext or from a start.
AfterDispatch(a) == IF a = Ticker /\ maintNext THEN "maint" ELSE "idle"

\* CreateWithSpec for schedule k, by goroutine a. The job takes an identity not in
\* use, whose goroutine has returned (or is the one that starts it, and returns).
CreateJob(a, j, k) ==
  /\ status[j] = "none"
  /\ pc[j] = "idle" \/ j = a
  /\ status' = [status EXCEPT ![j] = "running"]
  /\ task' = [task EXCEPT ![j] = k]
  /\ cur' = [cur EXCEPT ![a] = j]

\* A row that names job j, when nothing more will be written about that job: its
\* identity may be used again, all that counts is how it went.
Past(r, j, outcome) == IF r.last = j THEN [r EXCEPT !.last = outcome] ELSE r

-----------------------------------------------------------------------------
\* A first start: nothing has run yet, and the first tick creates the rows.
Init ==
  /\ enabled \in SUBSET Toggled
  /\ row = [k \in Keys |-> NoRow]
  /\ status = [j \in Jobs |-> "none"]
  /\ task = [j \in Jobs |-> NoKey]
  /\ leftover = {}
  /\ slot = NoJob
  /\ pending = {}
  /\ pc = [a \in Actors |-> "idle"]
  /\ key = [a \in Actors |-> NoKey]
  /\ copy = [a \in Actors |-> NoRow]
  /\ cur = [a \in Actors |-> NoJob]
  /\ view = [a \in Actors |-> {}]
  /\ snap = [k \in Keys |-> NoRow]
  /\ todo = {}
  /\ maintNext = FALSE
  /\ lost = {}

-----------------------------------------------------------------------------
(* The tick *)

\* The settings are read once, at the start of the tick.
TickStart ==
  /\ pc[Ticker] = "idle"
  /\ view' = [view EXCEPT ![Ticker] = enabled]
  /\ maintNext' = TRUE
  /\ Goto(Ticker, "ensure")
  /\ UNCHANGED <<database, coordinator, key, copy, cur, snap, todo, lost>>

FirstRow(k) ==
  [found |-> TRUE, next |-> IF k \in Periodic THEN "later" ELSE "due", last |-> NoJob]

\* ensureSchedules creates a row for every schedule that is on and has none: the
\* periodic ones wait for their interval, the others are due at once. A failed read
\* ends it, a failed save leaves that row out.
EnsureSchedules ==
  LET missing == {k \in view[Ticker] \union Maintenance : ~row[k].found} IN
  /\ pc[Ticker] = "ensure"
  /\ \E made \in SUBSET missing :
       /\ made = missing \/ {"read", "save"} \intersect Events # {}
       /\ row' = [k \in Keys |-> IF k \in made THEN FirstRow(k) ELSE row[k]]
  /\ Goto(Ticker, "list")
  /\ UNCHANGED <<enabled, status, task, leftover, coordinator, key, copy, cur, view,
                 tickVars, lost>>

\* enqueueDue reads all rows in one query, and is interested in the due ones.
ListRows ==
  /\ pc[Ticker] = "list"
  /\ todo' = {k \in Periodic \union StockFetch : IsDue(row[k])}
  /\ snap' = [k \in Keys |-> IF k \in todo' THEN row[k] ELSE NoRow]
  /\ Goto(Ticker, "enqueue")
  /\ UNCHANGED <<database, coordinator, key, copy, cur, view, maintNext, lost>>

\* When that fails, the tick goes on to dispatchNext.
ListFails ==
  /\ "read" \in Events
  /\ pc[Ticker] = "list"
  /\ view' = [view EXCEPT ![Ticker] = {}]
  /\ Goto(Ticker, "dispatch")
  /\ UNCHANGED <<database, coordinator, key, copy, cur, tickVars, lost>>

\* intentForState: no intent for a schedule that is off, nor, for the low-stock
\* fetch, when there are enough untested proxies.
PassOver(k) ==
  /\ pc[Ticker] = "enqueue"
  /\ k \in todo
  /\ k \notin view[Ticker] \/ k \in StockFetch
  /\ todo' = todo \ {k}
  /\ snap' = [snap EXCEPT ![k] = NoRow]
  /\ UNCHANGED <<database, coordinator, pc, key, copy, cur, view, maintNext, lost>>

DeferDue(k) ==
  /\ pc[Ticker] = "enqueue"
  /\ k \in todo
  /\ k \in view[Ticker]
  /\ todo' = todo \ {k}
  /\ pending' = pending \union {k}
  /\ snap' = [snap EXCEPT ![k] = NoRow]
  /\ copy' = [copy EXCEPT ![Ticker] = snap[k]]
  /\ key' = [key EXCEPT ![Ticker] = k]
  /\ Goto(Ticker, "saveDue")
  /\ UNCHANGED <<database, slot, cur, view, maintNext, lost>>

\* Mutant: the deferred schedule is saved as if it had been started.
SaveDueStarted ==
  /\ pc[Ticker] = "saveDue"
  /\ Write(Ticker, key[Ticker], [copy[Ticker] EXCEPT !.next = "none"])
  /\ Goto(Ticker, "enqueue")
  /\ UNCHANGED <<enabled, status, task, leftover, coordinator, cur, view, tickVars, lost>>

\* ... and the row is saved as enqueueDue has read it, with a pending reason.
SaveDue ==
  /\ pc[Ticker] = "saveDue"
  /\ Write(Ticker, key[Ticker], copy[Ticker])
  /\ Goto(Ticker, "enqueue")
  /\ UNCHANGED <<enabled, status, task, leftover, coordinator, cur, view,
                 tickVars, lost>>

\* The low-stock targets come next, each row read on its own.
TargetsNext ==
  /\ pc[Ticker] = "enqueue"
  /\ todo = {}
  /\ todo' = Targets \intersect view[Ticker]
  /\ todo' # {}
  /\ Goto(Ticker, "target")
  /\ UNCHANGED <<database, coordinator, key, copy, cur, view, snap, maintNext,
                 lost>>

\* A target that is not due, or has enough available proxies, is passed over.
TargetEnough(k) ==
  /\ pc[Ticker] = "target"
  /\ k \in todo
  /\ todo' = todo \ {k}
  /\ UNCHANGED <<database, coordinator, pc, key, copy, cur, view, snap, maintNext,
                 lost>>

\* A target that is due and has too few available proxies.
TargetShort(k) ==
  /\ pc[Ticker] = "target"
  /\ k \in todo
  /\ IsDue(row[k])
  /\ todo' = todo \ {k}
  /\ snap' = [snap EXCEPT ![k] = row[k]]
  /\ Goto(Ticker, "short")
  /\ UNCHANGED <<database, coordinator, key, copy, cur, view, maintNext, lost>>

\* Enough candidates: check them.
TargetCheck(k) ==
  /\ pc[Ticker] = "short"
  /\ snap[k].found
  /\ pending' = pending \union {k}
  /\ key' = [key EXCEPT ![Ticker] = k]
  /\ snap' = [snap EXCEPT ![k] = NoRow]
  /\ Goto(Ticker, "markPending")
  /\ UNCHANGED <<database, slot, copy, cur, view, todo, maintNext, lost>>

\* Too few candidates: fetch first, whether or not fetch.low_stock is on.
TargetFetch ==
  /\ pc[Ticker] = "short"
  /\ \E f \in StockFetch :
       /\ pending' = pending \union {f}
       /\ key' = [key EXCEPT ![Ticker] = f]
  /\ Goto(Ticker, "markPending")
  /\ UNCHANGED <<database, slot, copy, cur, view, tickVars, lost>>

\* markPending, of the target or of the fetch: read the row, whatever it is by
\* now ...
MarkPendingRead ==
  /\ pc[Ticker] = "markPending"
  /\ Read(Ticker, key[Ticker], "marking")
  /\ UNCHANGED <<database, coordinator, cur, view, tickVars, lost>>

\* ... and write it back.
MarkPendingWrite ==
  /\ pc[Ticker] = "marking"
  /\ LET k == key[Ticker] IN
       \/ /\ Upsert(k, copy[Ticker])
          /\ lost' = IF copy[Ticker].next = "none" THEN lost \union {k} ELSE lost \ {k}
       \/ SaveFails /\ lost' = lost
  /\ Done(Ticker)
  /\ Goto(Ticker, IF \E k \in Targets : snap[k].found THEN "postpone" ELSE "target")
  /\ UNCHANGED <<enabled, status, task, leftover, coordinator, cur, view, tickVars>>

\* A target that waits for a fetch is postponed by the cooldown.
PostponeTarget(k) ==
  /\ pc[Ticker] = "postpone"
  /\ snap[k].found
  /\ Write(Ticker, k, [snap[k] EXCEPT !.next = "later"])
  /\ snap' = [snap EXCEPT ![k] = NoRow]
  /\ Goto(Ticker, "target")
  /\ UNCHANGED <<enabled, status, task, leftover, coordinator, cur, view, todo, maintNext,
                 lost>>

TickDispatch ==
  /\ todo = {}
  /\ \/ pc[Ticker] = "target"
     \/ pc[Ticker] = "enqueue" /\ Targets \intersect view[Ticker] = {}
  /\ Goto(Ticker, "dispatch")
  /\ view' = [view EXCEPT ![Ticker] = {}]
  /\ UNCHANGED <<database, coordinator, key, copy, cur, tickVars, lost>>

\* tickMaintenance reads its row first.
MaintenanceRead ==
  /\ pc[Ticker] = "maint"
  /\ maintNext' = FALSE
  /\ \E k \in Maintenance :
       /\ IsDue(row[k])
       /\ copy' = [copy EXCEPT ![Ticker] = row[k]]
       /\ key' = [key EXCEPT ![Ticker] = k]
  /\ Goto(Ticker, "maintDue")
  /\ UNCHANGED <<database, coordinator, cur, view, snap, todo, lost>>

\* It is not due, or cannot be read.
NoMaintenance ==
  /\ pc[Ticker] = "maint"
  /\ (\A k \in Maintenance : ~IsDue(row[k])) \/ "read" \in Events
  /\ maintNext' = FALSE
  /\ Goto(Ticker, "idle")
  /\ UNCHANGED <<database, coordinator, key, copy, cur, view, snap, todo, lost>>

\* The slot is busy or intents are pending: only the reason is noted.
MaintenanceBusy ==
  /\ pc[Ticker] = "maintDue"
  /\ slot # NoJob \/ pending # {}
  /\ Write(Ticker, key[Ticker], copy[Ticker])
  /\ Goto(Ticker, "idle")
  /\ UNCHANGED <<enabled, status, task, leftover, coordinator, cur, view,
                 tickVars, lost>>

\* The maintenance job runs on the goroutine of the tick, without the slot.
MaintenanceBegins(j) ==
  /\ pc[Ticker] = "maintDue"
  /\ slot = NoJob /\ pending = {}
  /\ CreateJob(Ticker, j, key[Ticker])
  /\ Goto(Ticker, "created")
  /\ UNCHANGED <<enabled, row, leftover, coordinator, key, copy, view, tickVars, lost>>

\* CreateWithSpec fails: the next tick tries again.
MaintenanceFails ==
  /\ "create" \in Events
  /\ pc[Ticker] = "maintDue"
  /\ slot = NoJob /\ pending = {}
  /\ Done(Ticker)
  /\ Goto(Ticker, "idle")
  /\ UNCHANGED <<database, coordinator, cur, view, tickVars, lost>>

-----------------------------------------------------------------------------
(* Starting a job *)

\* dispatchNext: PopNext takes an intent when the slot is free; which one is
\* the subject of HeavyWork.
Pop(a, k) ==
  /\ pc[a] = "dispatch"
  /\ slot = NoJob
  /\ k \in pending
  /\ pending' = pending \ {k}
  /\ key' = [key EXCEPT ![a] = k]
  /\ Goto(a, "popped")
  /\ UNCHANGED <<database, slot, copy, cur, view, tickVars, lost>>

NothingToPop(a) ==
  /\ pc[a] = "dispatch"
  /\ slot # NoJob \/ pending = {}
  /\ Goto(a, AfterDispatch(a))
  /\ UNCHANGED <<database, coordinator, key, copy, cur, view, tickVars, lost>>

\* TryAcquire, CreateWithSpec and Bind of an automatic start.
Begin(a, j) ==
  /\ pc[a] = "popped"
  /\ slot = NoJob
  /\ CreateJob(a, j, key[a])
  /\ slot' = j
  /\ Goto(a, "created")
  /\ UNCHANGED <<enabled, row, leftover, pending, key, copy, view, tickVars, lost>>

\* Mutant: the key is cleared before the intent is put back.
DeferredCleared(a) ==
  /\ pc[a] = "popped"
  /\ slot # NoJob
  /\ key' = [key EXCEPT ![a] = NoKey]
  /\ pending' = pending \union {key'[a]}
  /\ Goto(a, AfterDispatch(a))
  /\ UNCHANGED <<database, slot, copy, cur, view, tickVars, lost>>

\* The slot was taken meanwhile: errJobDeferred puts the intent back.
Deferred(a) ==
  /\ pc[a] = "popped"
  /\ slot # NoJob
  /\ pending' = pending \union {key[a]}
  /\ key' = [key EXCEPT ![a] = NoKey]
  /\ Goto(a, AfterDispatch(a))
  /\ UNCHANGED <<database, slot, copy, cur, view, tickVars, lost>>

\* Any other error drops the intent; the row has not been touched.
StartFails(a) ==
  /\ "start" \in Events
  /\ pc[a] = "popped"
  /\ slot = NoJob
  /\ key' = [key EXCEPT ![a] = NoKey]
  /\ Goto(a, AfterDispatch(a))
  /\ UNCHANGED <<database, coordinator, copy, cur, view, tickVars, lost>>

\* MarkStarted: read the row, then write it with no next time.
MarkRead(a) ==
  /\ pc[a] = "created"
  /\ Read(a, task[cur[a]], "mark")
  /\ UNCHANGED <<database, coordinator, cur, view, tickVars, lost>>

Started(r, j) == [r EXCEPT !.next = "none", !.last = j]

\* After MarkStarted a heavy job gets a goroutine of its own.
MarkWrite(a) ==
  LET j == cur[a] IN
  /\ pc[a] = "mark"
  /\ Write(a, key[a], Started(copy[a], j))
  /\ IF key[a] \in Maintenance
     THEN Goto(a, "run") /\ UNCHANGED cur
     ELSE /\ pc' = [pc EXCEPT ![a] = AfterDispatch(a), ![j] = "run"]
          /\ cur' = [cur EXCEPT ![a] = NoJob, ![j] = j]
  /\ UNCHANGED <<enabled, status, task, leftover, coordinator, view, tickVars,
                 lost>>

\* A job started by hand has no task_key and no schedule.
ManualStart(j) ==
  /\ "manual" \in Events
  /\ pc[j] = "idle"
  /\ slot = NoJob
  /\ CreateJob(j, j, NoKey)
  /\ slot' = j
  /\ Goto(j, "run")
  /\ UNCHANGED <<enabled, row, leftover, pending, key, copy, view, tickVars, lost>>

-----------------------------------------------------------------------------
(* Ending a job *)

\* The terminal UPDATE. When it fails, nothing below happens for this job.
EndJob(a) ==
  /\ pc[a] = "run"
  /\ status' = [status EXCEPT ![cur[a]] = "ended"]
  /\ Goto(a, "release")
  /\ UNCHANGED <<enabled, row, task, leftover, coordinator, key, copy, cur, view,
                 tickVars, lost>>

\* The row of the job stays "running", the slot stays bound, and nobody will write
\* the next time of its schedule.
EndFails(a) ==
  LET k == task[cur[a]] IN
  /\ "update" \in Events
  /\ pc[a] = "run"
  /\ cur' = [cur EXCEPT ![a] = NoJob]
  /\ lost' = IF k \in Keys THEN Stranded(k) ELSE lost
  /\ Goto(a, "idle")
  /\ UNCHANGED <<database, coordinator, key, copy, view, tickVars>>

\* The callback frees the slot ...
ReleaseSlot(a) ==
  /\ pc[a] = "release"
  /\ slot' = IF slot = cur[a] THEN NoJob ELSE slot
  /\ Goto(a, IF task[cur[a]] = NoKey THEN "reported" ELSE "report")
  /\ UNCHANGED <<database, pending, key, copy, cur, view, tickVars, lost>>

\* ... and OnJobTerminal reads the row of the schedule ...
ReportRead(a) ==
  /\ pc[a] = "report"
  /\ Read(a, task[cur[a]], "reporting")
  /\ UNCHANGED <<database, coordinator, cur, view, tickVars, lost>>

\* Mutant: no next time.
EndedUnplanned(r, j) == [r EXCEPT !.last = j]

\* The next time depends on the outcome and on the settings.
Ended(r, j) == [r EXCEPT !.next = "later", !.last = j]

\* ... and writes it with the next time.
ReportWrite(a) ==
  /\ pc[a] = "reporting"
  /\ Plan(a, key[a], Ended(copy[a], cur[a]))
  /\ Goto(a, "reported")
  /\ UNCHANGED <<enabled, status, task, leftover, coordinator, cur, view, tickVars>>

\* OnJobTerminal ends with dispatchNext, on the same goroutine.
Reported(a) ==
  /\ pc[a] = "reported"
  /\ LET j == cur[a] IN
       /\ status' = [status EXCEPT ![j] = "none"]
       /\ task' = [task EXCEPT ![j] = NoKey]
       /\ row' = [k \in Keys |-> Past(row[k], j, OldJob)]
       /\ copy' = [b \in Actors |-> Past(copy[b], j, OldJob)]
       /\ snap' = [k \in Keys |-> Past(snap[k], j, OldJob)]
  /\ cur' = [cur EXCEPT ![a] = NoJob]
  /\ Goto(a, "dispatch")
  /\ UNCHANGED <<enabled, leftover, coordinator, key, view, todo, maintNext, lost>>

-----------------------------------------------------------------------------
(* POST /api/settings: switch schedule k on or off, or change its interval *)

\* handleSaveSettings reads the settings ...
ReadSettings(s, k) ==
  /\ pc[s] = "idle"
  /\ k \in Toggled
  /\ view' = [view EXCEPT ![s] = enabled]
  /\ key' = [key EXCEPT ![s] = k]
  /\ Goto(s, "save")
  /\ UNCHANGED <<database, coordinator, copy, cur, tickVars, lost>>

\* ... writes all of them back with one changed ...
SaveSettings(s) ==
  /\ pc[s] = "save"
  /\ \E on \in BOOLEAN :
       enabled' = IF on THEN view[s] \union {key[s]} ELSE view[s] \ {key[s]}
  /\ view' = [view EXCEPT ![s] = enabled']
  /\ Goto(s, "apply")
  /\ UNCHANGED <<row, status, task, leftover, coordinator, key, copy, cur, tickVars,
                 lost>>

\* When that fails, so does the request, and no schedule is reset.
SettingsNotSaved(s) ==
  /\ "save" \in Events
  /\ pc[s] = "save"
  /\ view' = [view EXCEPT ![s] = {}]
  /\ key' = [key EXCEPT ![s] = NoKey]
  /\ Goto(s, "idle")
  /\ UNCHANGED <<database, coordinator, copy, cur, tickVars, lost>>

\* ... and ApplySettings resets the schedule: resetSchedule reads the row ...
ResetRead(s) ==
  /\ pc[s] = "apply"
  /\ Read(s, key[s], "reset")
  /\ UNCHANGED <<database, coordinator, cur, view, tickVars, lost>>

\* Mutant: no next time.
ResetToNever(k, on) == "none"

\* Due after the interval or at once, or never.
ResetTo(k, on) ==
  IF ~on THEN "none" ELSE IF k \in Periodic THEN "later" ELSE "due"

\* ... and writes it.
ResetWrite(s) ==
  /\ pc[s] = "reset"
  /\ Plan(s, key[s], [copy[s] EXCEPT !.next = ResetTo(key[s], key[s] \in view[s])])
  /\ view' = [view EXCEPT ![s] = {}]
  /\ Goto(s, "idle")
  /\ UNCHANGED <<enabled, status, task, leftover, coordinator, cur, tickVars>>

-----------------------------------------------------------------------------
(* Time, crash and recovery *)

TimePasses(k) ==
  /\ row[k].next = "later"
  /\ row' = [row EXCEPT ![k].next = "due"]
  /\ UNCHANGED <<enabled, status, task, leftover, coordinator, pc, key, copy, cur, view,
                 tickVars, lost>>

\* Goroutines that still have to write the next time of schedule k.
Ending == {"release", "report", "reporting"}
WillWrite(a, k) ==
  \/ pc[a] \in Ending /\ task[cur[a]] = k
  \/ pc[a] \in {"apply", "reset"} /\ key[a] = k /\ k \in view[a]

\* A job of schedule k was running when the process crashed.
LeftRunning(k) == \E j \in Jobs : status[j] = "running" /\ task[j] = k

\* The last job of schedule k, as far as it is known, is one that was interrupted:
\* just now, or by an earlier crash.
LastInterrupted(k) ==
  \/ row[k].last = Interrupted
  \/ row[k].last = NoJob /\ k \in leftover
  \/ \E j \in Jobs : status[j] = "running" /\ task[j] = k /\ row[k].last \in {NoJob, j}

\* Mutant: recovery left out.
RecoversNothing(k) == FALSE

\* recoverInterruptedSchedules leaves alone a row that has a next time.
Recovers(k) == LastInterrupted(k) /\ row[k].next = "none"

\* What the row of k names as its last job, with the jobs of the crash gone.
AfterCrash(k) ==
  IF row[k].last \notin Jobs THEN row[k]
  ELSE [row[k] EXCEPT !.last = IF LastInterrupted(k) THEN Interrupted ELSE OldJob]

\* A crash, and the next start: recoverInterrupted closes the jobs left running,
\* then every schedule they were started for is due at once. When a statement fails
\* (any of theirs: all errors are dropped) some schedules are left out, or a row
\* that cannot be read is replaced by one that is due.
Restart ==
  /\ "crash" \in Events
  /\ leftover' = leftover \union {k \in Keys : LeftRunning(k)}
  /\ \E recovered \in SUBSET Keys :
       /\ \/ recovered = {k \in Keys : Recovers(k)}
          \/ {"read", "save"} \intersect Events # {} /\ recovered \subseteq leftover'
       /\ row' = [k \in Keys |->
            IF k \in recovered THEN [found |-> TRUE, next |-> "due", last |-> Interrupted]
            ELSE AfterCrash(k)]
  /\ lost' = {k \in Keys : /\ row'[k].found /\ row'[k].next = "none"
                           /\ \/ k \in lost \/ Recovers(k)
                              \/ \E a \in Actors : WillWrite(a, k)}
  /\ status' = [j \in Jobs |-> "none"]
  /\ task' = [j \in Jobs |-> NoKey]
  /\ slot' = NoJob
  /\ pending' = {}
  /\ pc' = [a \in Actors |-> "idle"]
  /\ key' = [a \in Actors |-> NoKey]
  /\ copy' = [a \in Actors |-> NoRow]
  /\ cur' = [a \in Actors |-> NoJob]
  /\ view' = [a \in Actors |-> {}]
  /\ snap' = [k \in Keys |-> NoRow]
  /\ todo' = {}
  /\ maintNext' = FALSE
  /\ UNCHANGED enabled

-----------------------------------------------------------------------------
TickStep ==
  \/ TickStart \/ EnsureSchedules \/ ListRows \/ SaveDue \/ TargetsNext
  \/ TargetFetch \/ MarkPendingRead \/ MarkPendingWrite \/ TickDispatch
  \/ ListFails \/ MaintenanceRead \/ NoMaintenance \/ MaintenanceBusy \/ MaintenanceFails
  \/ \E k \in Keys : PassOver(k) \/ DeferDue(k)
  \/ \E k \in Targets : TargetEnough(k) \/ TargetShort(k) \/ TargetCheck(k) \/ PostponeTarget(k)
  \/ \E j \in Jobs : MaintenanceBegins(j)

StartStep(a) ==
  \/ \E k \in Keys : Pop(a, k)
  \/ \E j \in Jobs : Begin(a, j)
  \/ NothingToPop(a) \/ Deferred(a) \/ MarkRead(a) \/ MarkWrite(a)

EndStep(a) ==
  EndJob(a) \/ ReleaseSlot(a) \/ ReportRead(a) \/ ReportWrite(a) \/ Reported(a)

SettingsStep(s) ==
  \/ \E k \in Toggled : ReadSettings(s, k)
  \/ SaveSettings(s) \/ SettingsNotSaved(s) \/ ResetRead(s) \/ ResetWrite(s)

Next ==
  \/ TickStep
  \/ \E a \in Jobs \union {Ticker} :
       StartStep(a) \/ StartFails(a) \/ EndStep(a) \/ EndFails(a)
  \/ \E j \in Jobs : ManualStart(j)
  \/ \E s \in Savers : SettingsStep(s)
  \/ \E k \in Keys : TimePasses(k)
  \/ Restart

Spec == Init /\ [][Next]_vars

\* The ticker ticks, goroutines run, jobs end (hard timeouts bound them) and time
\* passes. Nothing else has to happen.
Fairness ==
  /\ WF_vars(TickStep)
  /\ \A a \in Jobs \union {Ticker} : WF_vars(StartStep(a)) /\ WF_vars(EndStep(a))
  /\ \A k \in Keys : WF_vars(TimePasses(k))

FairSpec == Spec /\ Fairness

-----------------------------------------------------------------------------
(* Properties *)

PCs == {"idle", "ensure", "list", "enqueue", "saveDue", "target", "short",
        "markPending", "marking", "postpone", "dispatch", "popped", "created", "mark",
        "run", "release", "report", "reporting", "reported", "maint", "maintDue",
        "save", "apply", "reset"}

DataTypeOK ==
  /\ enabled \subseteq Toggled
  /\ row \in [Keys -> Rows]
  /\ status \in [Jobs -> {"none", "running", "ended"}]
  /\ task \in [Jobs -> Keys \union {NoKey}]
  /\ leftover \subseteq Keys
  /\ slot \in Jobs \union {NoJob}
  /\ pending \subseteq Keys
  /\ lost \subseteq Keys
ThreadTypeOK ==
  /\ pc \in [Actors -> PCs]
  /\ key \in [Actors -> Keys \union {NoKey}]
  /\ copy \in [Actors -> Rows]
  /\ cur \in [Actors -> Jobs \union {NoJob}]
  /\ view \in [Actors -> SUBSET Toggled]
TickTypeOK ==
  /\ snap \in [Keys -> Rows]
  /\ todo \subseteq Keys
  /\ maintNext \in BOOLEAN

\* Every variable has its type.
TypeOK == DataTypeOK /\ ThreadTypeOK /\ TickTypeOK

\* A goroutine starts or runs a job of schedule k. (A row that a failed terminal
\* UPDATE leaves "running" is nobody at work.)
WithRunningJob == {"created", "mark", "run"}
Occupied(k) == \E a \in Actors : pc[a] \in WithRunningJob /\ task[cur[a]] = k

\* Schedule k, when it is on, has a next time or somebody who will give it one.
Alive(k) ==
  k \in enabled \union Maintenance /\ Unplanned(k)
    => Occupied(k) \/ \E a \in Actors : WillWrite(a, k)

\* A schedule that is on never ends up without a next time and without anybody to
\* set one (ensureSchedules repairs no row, so it would never run again), whatever
\* the tick, the starts, the ends and one saver of settings do to its row between
\* each other's reads and writes, whichever of their statements fail, and wherever
\* the process crashes. The exceptions are those the code really has (lost): a crash
\* before the write of OnJobTerminal or resetSchedule; that write failing, its error
\* dropped, or never coming because the terminal UPDATE failed; a recovery whose
\* statements fail; and markPending writing back a row it has read before, or has
\* failed to read.
ScheduleAlive == \A k \in Keys : Alive(k) \/ k \in lost

\* The next time of a periodic schedule, or of the maintenance, is erased only while
\* a job of that schedule runs or the schedule is off: no stale copy of a row takes
\* a plan away, nor does one that could not be read or saved. (Low-stock schedules
\* are those markPending writes.)
PlansKept ==
  [][\A k \in Periodic \union Maintenance :
       row[k].next # "none" /\ row'[k].next = "none" =>
         Occupied(k) \/ k \notin enabled \union Maintenance]_vars

\* A schedule that is on runs again and again, as long as nobody starts jobs by
\* hand, all updates of the database succeed and the process stays up.
ScheduleRuns == \A k \in Periodic : (k \in enabled) ~> Occupied(k)

-----------------------------------------------------------------------------
(* The inductive invariant of ScheduleAlive and PlansKept *)

WithEndedJob == Ending \union {"reported"}

\* A goroutine that starts, runs or ends a job has that job alone.
Hands == \A a \in Actors :
  /\ pc[a] \in WithRunningJob => cur[a] \in Jobs /\ status[cur[a]] = "running"
  /\ pc[a] \in WithEndedJob => cur[a] \in Jobs /\ status[cur[a]] = "ended"
  /\ pc[a] \notin WithRunningJob \union WithEndedJob => cur[a] = NoJob
OneOwner == \A a, b \in Actors : cur[a] = cur[b] /\ cur[a] \in Jobs => a = b

\* The goroutine of a job that is being started has not been launched yet.
NotLaunched == \A a \in Actors :
  pc[a] \in {"created", "mark"} /\ cur[a] # a => pc[cur[a]] = "idle"

\* What a goroutine knows of the schedule it works on.
Keyed == \A a \in Actors :
  /\ pc[a] \in {"popped", "saveDue", "markPending", "marking", "maintDue", "apply", "reset"}
       => key[a] \in Keys
  /\ pc[a] \in {"created", "report"} => task[cur[a]] \in Keys
  /\ pc[a] \in {"mark", "reporting"} => task[cur[a]] \in Keys /\ key[a] = task[cur[a]]

\* The tick saves rows that it has read as due.
DueCopies ==
  /\ pc[Ticker] \in {"saveDue", "maintDue"} => copy[Ticker].next # "none"
  /\ pc[Ticker] \in {"enqueue", "saveDue"} => \A k \in todo : snap[k].next # "none"

\* markPending is for low-stock schedules only.
StockMarked ==
  pc[Ticker] \in {"markPending", "marking"} => key[Ticker] \in Targets \union StockFetch

\* The saver of settings knows what is saved.
SettingsKnown == \A s \in Savers :
  pc[s] \in {"save", "apply", "reset"} => view[s] = enabled /\ key[s] \in Toggled

\* ScheduleAlive, with a running job the row knows of: recovery will find it.
KnownJob(k) == \E a \in Actors :
  pc[a] \in WithRunningJob /\ task[cur[a]] = k /\ row[k].last = cur[a]
Covered(k) ==
  k \in enabled \union Maintenance /\ Unplanned(k)
    => k \in lost \/ KnownJob(k) \/ \E a \in Actors : WillWrite(a, k)
AllCovered == \A k \in Keys : Covered(k)

IInv == /\ TypeOK /\ Hands /\ OneOwner /\ NotLaunched /\ Keyed /\ DueCopies
        /\ StockMarked /\ SettingsKnown /\ AllCovered
=============================================================================
