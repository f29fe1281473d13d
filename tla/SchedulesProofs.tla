--------------------------- MODULE SchedulesProofs ---------------------------
(***************************************************************************)
(* Theorems of Schedules, for any schedules, jobs and faults, and at most  *)
(* one saver of settings at a time. IInv is inductive; there is one lemma  *)
(* for each of its parts, with one step for each action that touches the   *)
(* variables of that part.                                                 *)
(***************************************************************************)
EXTENDS Schedules, TLAPS

USE KeyAssumption, ActorAssumption
USE DEF vars, database, coordinator, tickVars

\* Rows stay rows.
LEMMA RowTypes ==
  ASSUME NEW r \in Rows
  PROVE  /\ [r EXCEPT !.found = TRUE] \in Rows
         /\ \A n \in {"none", "later", "due"} : [r EXCEPT !.next = n] \in Rows
         /\ \A j \in Jobs \union {NoJob, OldJob, Interrupted} : [r EXCEPT !.last = j] \in Rows
         /\ \A j, outcome \in Jobs \union {NoJob, OldJob, Interrupted} :
              Past(r, j, outcome) \in Rows
  BY DEF Rows, Past

\* The row that is not there is a row.
LEMMA NoRowType == NoRow \in Rows
  BY DEF Rows, NoRow

\* SaveSchedulerState, whether or not it fails, leaves rows that are rows.
LEMMA WriteTypes ==
  ASSUME TypeOK, NEW k, NEW r \in Rows, Upsert(k, r) \/ row' = row
  PROVE  row' \in [Keys -> Rows]
<1>1. [r EXCEPT !.found = TRUE] \in Rows
  BY RowTypes
<1> QED
  BY <1>1 DEF TypeOK, DataTypeOK, Upsert

\* What the rows made of a copy say.
LEMMA RowFields ==
  ASSUME NEW r \in Rows
  PROVE  /\ \A n \in {"none", "later", "due"} : [r EXCEPT !.next = n].next = n
         /\ \A j \in Jobs : /\ Started(r, j) \in Rows
                            /\ Started(r, j).next = "none" /\ Started(r, j).last = j
                            /\ Ended(r, j) \in Rows /\ Ended(r, j).next = "later"
<1>1. \A n \in {"none", "later", "due"} : [r EXCEPT !.next = n].next = n
  BY DEF Rows
<1>2. ASSUME NEW j \in Jobs, NEW n \in {"none", "later"}
      PROVE  /\ [r EXCEPT !.next = n, !.last = j] \in Rows
             /\ [r EXCEPT !.next = n, !.last = j].next = n
             /\ [r EXCEPT !.next = n, !.last = j].last = j
  BY DEF Rows
<1>3. \A j \in Jobs : /\ Started(r, j) \in Rows
                     /\ Started(r, j).next = "none" /\ Started(r, j).last = j
  BY <1>2, Zenon DEF Started
<1>4. \A j \in Jobs : Ended(r, j) \in Rows /\ Ended(r, j).next = "later"
  BY <1>2, Zenon DEF Ended
<1> QED
  BY <1>1, <1>3, <1>4

\* SaveSchedulerState leaves a row as it was, or makes it the row it was given.
LEMMA Saved ==
  ASSUME TypeOK, NEW k, NEW r \in Rows, Upsert(k, r) \/ row' = row, NEW l \in Keys
  PROVE  \/ row'[l] = row[l]
         \/ l = k /\ row'[l].next = r.next /\ row'[l].last = r.last
<1>1. /\ [r EXCEPT !.found = TRUE].next = r.next
      /\ [r EXCEPT !.found = TRUE].last = r.last
  BY DEF Rows
<1> QED
  BY <1>1 DEF TypeOK, DataTypeOK, Upsert

\* The types of what is in the database and the coordinator.
LEMMA DataTypes ==
  ASSUME TypeOK, Hands, Keyed, SettingsKnown, Next
  PROVE  DataTypeOK'
<1>1. CASE EnsureSchedules
  <2>1. \A k \in Keys : FirstRow(k) \in Rows
    BY DEF Rows, FirstRow
  <2>2. row' \in [Keys -> Rows]
    BY <1>1, <2>1 DEF TypeOK, DataTypeOK, EnsureSchedules
  <2> QED
    BY <1>1, <2>2 DEF TypeOK, DataTypeOK, EnsureSchedules
<1>2. CASE SaveDue
  <2>1. copy[Ticker] \in Rows
    BY DEF TypeOK, ThreadTypeOK, Actors
  <2>2. row' \in [Keys -> Rows]
    BY <1>2, <2>1, WriteTypes DEF SaveDue, Write, SaveFails
  <2> QED
    BY <1>2, <2>2 DEF TypeOK, DataTypeOK, SaveDue
<1>3. CASE TargetFetch
    BY <1>3 DEF TypeOK, DataTypeOK, TargetFetch, Keys
<1>4. CASE MarkPendingWrite
  <2>1. copy[Ticker] \in Rows
    BY DEF TypeOK, ThreadTypeOK, Actors
  <2>2. row' \in [Keys -> Rows]
    BY <1>4, <2>1, WriteTypes DEF MarkPendingWrite, SaveFails
  <2> QED
    BY <1>4, <2>2 DEF TypeOK, DataTypeOK, MarkPendingWrite, Keyed, Actors
<1>5. CASE MaintenanceBusy
  <2>1. copy[Ticker] \in Rows
    BY DEF TypeOK, ThreadTypeOK, Actors
  <2>2. row' \in [Keys -> Rows]
    BY <1>5, <2>1, WriteTypes DEF MaintenanceBusy, Write, SaveFails
  <2> QED
    BY <1>5, <2>2 DEF TypeOK, DataTypeOK, MaintenanceBusy
<1>6. ASSUME NEW k \in Keys, DeferDue(k)
      PROVE  DataTypeOK'
    BY <1>6 DEF
      TypeOK, DataTypeOK, ThreadTypeOK, TickTypeOK, Hands, Keyed,
      WithRunningJob, WithEndedJob, Ending, Actors, Keys, Toggled, DeferDue,
      Goto
<1>7. ASSUME NEW k \in Targets, TargetCheck(k)
      PROVE  DataTypeOK'
    BY <1>7 DEF
      TypeOK, DataTypeOK, ThreadTypeOK, TickTypeOK, Hands, Keyed,
      WithRunningJob, WithEndedJob, Ending, Actors, Keys, Toggled, TargetCheck,
      Goto
<1>8. ASSUME NEW k \in Targets, PostponeTarget(k)
      PROVE  DataTypeOK'
  <2>1. [snap[k] EXCEPT !.next = "later"] \in Rows
    <3>1. snap[k] \in Rows
      BY DEF TypeOK, TickTypeOK, Keys
    <3> QED
      BY <3>1, RowTypes
  <2>2. row' \in [Keys -> Rows]
    BY <1>8, <2>1, WriteTypes DEF PostponeTarget, Write, SaveFails
  <2> QED
    BY <1>8, <2>2 DEF TypeOK, DataTypeOK, PostponeTarget
<1>9. ASSUME NEW j \in Jobs, MaintenanceBegins(j)
      PROVE  DataTypeOK'
    BY <1>9 DEF
      TypeOK, DataTypeOK, ThreadTypeOK, TickTypeOK, Hands, Keyed,
      WithRunningJob, WithEndedJob, Ending, Actors, Keys, Toggled,
      MaintenanceBegins, Goto, CreateJob
<1>10. ASSUME NEW a \in Jobs \union {Ticker}, NEW k \in Keys, Pop(a, k)
      PROVE  DataTypeOK'
    BY <1>10 DEF
      TypeOK, DataTypeOK, ThreadTypeOK, TickTypeOK, Hands, Keyed,
      WithRunningJob, WithEndedJob, Ending, Actors, Keys, Toggled, Pop, Goto
<1>11. ASSUME NEW a \in Jobs \union {Ticker}, NEW j \in Jobs, Begin(a, j)
      PROVE  DataTypeOK'
    BY <1>11 DEF
      TypeOK, DataTypeOK, ThreadTypeOK, TickTypeOK, Hands, Keyed,
      WithRunningJob, WithEndedJob, Ending, Actors, Keys, Toggled, Begin, Goto,
      CreateJob
<1>12. ASSUME NEW a \in Jobs \union {Ticker}, Deferred(a)
      PROVE  DataTypeOK'
    BY <1>12 DEF
      TypeOK, DataTypeOK, ThreadTypeOK, TickTypeOK, Hands, Keyed,
      WithRunningJob, WithEndedJob, Ending, Actors, Keys, Toggled, Deferred,
      Goto, AfterDispatch
<1>13. ASSUME NEW a \in Jobs \union {Ticker}, MarkWrite(a)
      PROVE  DataTypeOK'
  <2>1. Started(copy[a], cur[a]) \in Rows
    <3>1. copy[a] \in Rows /\ cur[a] \in Jobs
      BY <1>13 DEF TypeOK, ThreadTypeOK, Actors, Hands, WithRunningJob, MarkWrite
    <3>2. [copy[a] EXCEPT !.next = "none"] \in Rows
      BY <3>1, RowTypes
    <3>3. [[copy[a] EXCEPT !.next = "none"] EXCEPT !.last = cur[a]] \in Rows
      BY <3>1, <3>2, RowTypes
    <3> QED
      BY <3>3 DEF Started
  <2>2. row' \in [Keys -> Rows]
    BY <1>13, <2>1, WriteTypes DEF MarkWrite, Write, SaveFails
  <2> QED
    BY <1>13, <2>2 DEF TypeOK, DataTypeOK, MarkWrite
<1>14. ASSUME NEW a \in Jobs \union {Ticker}, EndJob(a)
      PROVE  DataTypeOK'
    BY <1>14 DEF
      TypeOK, DataTypeOK, ThreadTypeOK, TickTypeOK, Hands, Keyed,
      WithRunningJob, WithEndedJob, Ending, Actors, Keys, Toggled, EndJob, Goto
<1>15. ASSUME NEW a \in Jobs \union {Ticker}, ReleaseSlot(a)
      PROVE  DataTypeOK'
    BY <1>15 DEF
      TypeOK, DataTypeOK, ThreadTypeOK, TickTypeOK, Hands, Keyed,
      WithRunningJob, WithEndedJob, Ending, Actors, Keys, Toggled, ReleaseSlot,
      Goto
<1>16. ASSUME NEW a \in Jobs \union {Ticker}, ReportWrite(a)
      PROVE  DataTypeOK'
  <2>1. Ended(copy[a], cur[a]) \in Rows
    <3>1. copy[a] \in Rows /\ cur[a] \in Jobs
      BY <1>16 DEF TypeOK, ThreadTypeOK, Actors, Hands, WithEndedJob, Ending, ReportWrite
    <3>2. [copy[a] EXCEPT !.next = "later"] \in Rows
      BY <3>1, RowTypes
    <3>3. [[copy[a] EXCEPT !.next = "later"] EXCEPT !.last = cur[a]] \in Rows
      BY <3>1, <3>2, RowTypes
    <3> QED
      BY <3>3 DEF Ended
  <2>2. row' \in [Keys -> Rows]
    BY <1>16, <2>1, WriteTypes DEF ReportWrite, Plan, SaveFails
  <2> QED
    BY <1>16, <2>2 DEF TypeOK, DataTypeOK, Keyed, Actors, ReportWrite, Plan, Stranded
<1>17. ASSUME NEW a \in Jobs \union {Ticker}, Reported(a)
      PROVE  DataTypeOK'
  <2>1. \A k \in Keys : Past(row[k], cur[a], OldJob) \in Rows
    BY <1>17, RowTypes DEF TypeOK, DataTypeOK, Hands, WithEndedJob, Actors, Reported
  <2> QED
    BY <1>17, <2>1 DEF TypeOK, DataTypeOK, Reported
<1>18. ASSUME NEW j \in Jobs, ManualStart(j)
      PROVE  DataTypeOK'
    BY <1>18 DEF
      TypeOK, DataTypeOK, ThreadTypeOK, TickTypeOK, Hands, Keyed,
      WithRunningJob, WithEndedJob, Ending, Actors, Keys, Toggled, ManualStart,
      Goto, CreateJob
<1>19. ASSUME NEW s \in Savers, SaveSettings(s)
      PROVE  DataTypeOK'
  <2>1. key[s] \in Toggled /\ view[s] \subseteq Toggled
    BY <1>19 DEF TypeOK, ThreadTypeOK, SettingsKnown, Actors, SaveSettings
  <2> QED
    BY <1>19, <2>1 DEF TypeOK, DataTypeOK, SaveSettings
<1>20. ASSUME NEW s \in Savers, ResetWrite(s)
      PROVE  DataTypeOK'
  <2>1. [copy[s] EXCEPT !.next = ResetTo(key[s], key[s] \in view[s])] \in Rows
    <3>1. copy[s] \in Rows
      BY DEF TypeOK, ThreadTypeOK, Actors
    <3> QED
      BY <3>1, RowTypes DEF ResetTo
  <2>2. row' \in [Keys -> Rows]
    BY <1>20, <2>1, WriteTypes DEF ResetWrite, Plan, SaveFails
  <2> QED
    BY <1>20, <2>2 DEF TypeOK, DataTypeOK, Keyed, Actors, ResetWrite, Plan, Stranded
<1>21. ASSUME NEW k \in Keys, TimePasses(k)
      PROVE  DataTypeOK'
  <2>1. [row[k] EXCEPT !.next = "due"] \in Rows
    BY RowTypes DEF TypeOK, DataTypeOK
  <2>2. row' = [row EXCEPT ![k] = [row[k] EXCEPT !.next = "due"]]
    BY <1>21 DEF TypeOK, DataTypeOK, Rows, TimePasses
  <2>3. row' \in [Keys -> Rows]
    BY <2>1, <2>2 DEF TypeOK, DataTypeOK
  <2> QED
    BY <1>21, <2>3 DEF TypeOK, DataTypeOK, TimePasses
<1>22. CASE Restart
  <2>1. [found |-> TRUE, next |-> "due", last |-> Interrupted] \in Rows
    BY DEF Rows
  <2>2. \A k \in Keys : AfterCrash(k) \in Rows
    <3>1. \A k \in Keys : /\ [row[k] EXCEPT !.last = Interrupted] \in Rows
                         /\ [row[k] EXCEPT !.last = OldJob] \in Rows
      BY RowTypes DEF TypeOK, DataTypeOK
    <3> QED
      BY <3>1 DEF TypeOK, DataTypeOK, AfterCrash
  <2>3. row' \in [Keys -> Rows]
    BY <1>22, <2>1, <2>2 DEF TypeOK, DataTypeOK, Restart
  <2> QED
    BY <1>22, <2>3 DEF TypeOK, DataTypeOK, Restart
<1>23. CASE
      \/ TickStart
      \/ ListRows
      \/ TargetsNext
      \/ MarkPendingRead
      \/ TickDispatch
      \/ MaintenanceFails
      \/ ListFails
      \/ MaintenanceRead
      \/ NoMaintenance
      \/ (\E k \in Keys : PassOver(k))
      \/ (\E k \in Targets : TargetEnough(k))
      \/ (\E k \in Targets : TargetShort(k))
      \/ (\E a \in Jobs \union {Ticker} : NothingToPop(a))
      \/ (\E a \in Jobs \union {Ticker} : StartFails(a))
      \/ (\E a \in Jobs \union {Ticker} : MarkRead(a))
      \/ (\E a \in Jobs \union {Ticker} : ReportRead(a))
      \/ (\E s \in Savers, k \in Toggled : ReadSettings(s, k))
      \/ (\E s \in Savers : ResetRead(s))
      \/ (\E s \in Savers : SettingsNotSaved(s))
  <2>1. UNCHANGED <<enabled, row, status, task, leftover, slot, pending, lost>>
    BY <1>23 DEF
      TickStart, ListRows, TargetsNext, MarkPendingRead, TickDispatch, MaintenanceFails, Done, ListFails,
      MaintenanceRead, NoMaintenance, PassOver, TargetEnough, TargetShort, NothingToPop,
      StartFails, MarkRead, ReportRead, ReadSettings, ResetRead, SettingsNotSaved,
      Goto, Read
  <2> QED
    BY <2>1 DEF
      TypeOK, DataTypeOK, ThreadTypeOK, TickTypeOK, Hands, Keyed,
      WithRunningJob, WithEndedJob, Ending, Actors, Keys, Toggled
<1>24. ASSUME NEW a \in Jobs \union {Ticker}, EndFails(a)
      PROVE  DataTypeOK'
    BY <1>24 DEF TypeOK, DataTypeOK, EndFails, Stranded
<1> QED
  BY <1>24, <1>1, <1>2, <1>3, <1>4, <1>5, <1>6, <1>7, <1>8, <1>9, <1>10, <1>11,
  <1>12, <1>13, <1>14, <1>15, <1>16, <1>17, <1>18, <1>19, <1>20, <1>21,
  <1>22, <1>23 DEF
      Next, TickStep, StartStep, EndStep, SettingsStep

\* The types of what the goroutines know.
LEMMA ThreadTypes ==
  ASSUME TypeOK, Hands, Keyed, SettingsKnown, Next
  PROVE  ThreadTypeOK'
<1>1. CASE TickStart
    BY <1>1 DEF
      TypeOK, DataTypeOK, ThreadTypeOK, TickTypeOK, Hands, Keyed,
      WithRunningJob, WithEndedJob, Ending, Actors, Keys, Toggled, Rows, NoRow,
      PCs, TickStart, Goto
<1>2. CASE EnsureSchedules
    BY <1>2 DEF
      TypeOK, DataTypeOK, ThreadTypeOK, TickTypeOK, Hands, Keyed,
      WithRunningJob, WithEndedJob, Ending, Actors, Keys, Toggled, Rows, NoRow,
      PCs, EnsureSchedules, Goto, FirstRow
<1>3. CASE ListRows
    BY <1>3 DEF
      TypeOK, DataTypeOK, ThreadTypeOK, TickTypeOK, Hands, Keyed,
      WithRunningJob, WithEndedJob, Ending, Actors, Keys, Toggled, Rows, NoRow,
      PCs, ListRows, Goto, IsDue
<1>4. CASE SaveDue
    BY <1>4 DEF
      TypeOK, DataTypeOK, ThreadTypeOK, TickTypeOK, Hands, Keyed,
      WithRunningJob, WithEndedJob, Ending, Actors, Keys, Toggled, Rows, NoRow,
      PCs, SaveDue, Goto, Write, Upsert, SaveFails, Done
<1>5. CASE TargetsNext
    BY <1>5 DEF
      TypeOK, DataTypeOK, ThreadTypeOK, TickTypeOK, Hands, Keyed,
      WithRunningJob, WithEndedJob, Ending, Actors, Keys, Toggled, Rows, NoRow,
      PCs, TargetsNext, Goto
<1>6. CASE TargetFetch
    BY <1>6 DEF
      TypeOK, DataTypeOK, ThreadTypeOK, TickTypeOK, Hands, Keyed,
      WithRunningJob, WithEndedJob, Ending, Actors, Keys, Toggled, Rows, NoRow,
      PCs, TargetFetch, Goto
<1>7. CASE MarkPendingRead
  <2>1. key[Ticker] \in Keys
    BY <1>7 DEF Keyed, Actors, MarkPendingRead
  <2>2. copy' \in [Actors -> Rows]
    BY <1>7, <2>1, NoRowType DEF TypeOK, DataTypeOK, ThreadTypeOK, MarkPendingRead, Read
  <2> QED
    BY <1>7, <2>1, <2>2 DEF TypeOK, ThreadTypeOK, PCs, MarkPendingRead, Read, Goto
<1>8. CASE MarkPendingWrite
    BY <1>8 DEF
      TypeOK, DataTypeOK, ThreadTypeOK, TickTypeOK, Hands, Keyed,
      WithRunningJob, WithEndedJob, Ending, Actors, Keys, Toggled, Rows, NoRow,
      PCs, MarkPendingWrite, Goto, Upsert, SaveFails, Done
<1>9. CASE TickDispatch
    BY <1>9 DEF
      TypeOK, DataTypeOK, ThreadTypeOK, TickTypeOK, Hands, Keyed,
      WithRunningJob, WithEndedJob, Ending, Actors, Keys, Toggled, Rows, NoRow,
      PCs, TickDispatch, Goto
<1>10. CASE MaintenanceRead
    BY <1>10 DEF
      TypeOK, DataTypeOK, ThreadTypeOK, TickTypeOK, Hands, Keyed,
      WithRunningJob, WithEndedJob, Ending, Actors, Keys, Toggled, Rows, NoRow,
      PCs, MaintenanceRead, Goto, Read, IsDue
<1>11. CASE MaintenanceBusy
    BY <1>11 DEF
      TypeOK, DataTypeOK, ThreadTypeOK, TickTypeOK, Hands, Keyed,
      WithRunningJob, WithEndedJob, Ending, Actors, Keys, Toggled, Rows, NoRow,
      PCs, MaintenanceBusy, Goto, Write, Upsert, SaveFails, Done
<1>12. ASSUME NEW k \in Keys, DeferDue(k)
      PROVE  ThreadTypeOK'
    BY <1>12 DEF
      TypeOK, DataTypeOK, ThreadTypeOK, TickTypeOK, Hands, Keyed,
      WithRunningJob, WithEndedJob, Ending, Actors, Keys, Toggled, Rows, NoRow,
      PCs, DeferDue, Goto
<1>13. ASSUME NEW k \in Targets, TargetShort(k)
      PROVE  ThreadTypeOK'
    BY <1>13 DEF
      TypeOK, DataTypeOK, ThreadTypeOK, TickTypeOK, Hands, Keyed,
      WithRunningJob, WithEndedJob, Ending, Actors, Keys, Toggled, Rows, NoRow,
      PCs, TargetShort, Goto, IsDue
<1>14. ASSUME NEW k \in Targets, TargetCheck(k)
      PROVE  ThreadTypeOK'
    BY <1>14 DEF
      TypeOK, DataTypeOK, ThreadTypeOK, TickTypeOK, Hands, Keyed,
      WithRunningJob, WithEndedJob, Ending, Actors, Keys, Toggled, Rows, NoRow,
      PCs, TargetCheck, Goto
<1>15. ASSUME NEW k \in Targets, PostponeTarget(k)
      PROVE  ThreadTypeOK'
    BY <1>15 DEF
      TypeOK, DataTypeOK, ThreadTypeOK, TickTypeOK, Hands, Keyed,
      WithRunningJob, WithEndedJob, Ending, Actors, Keys, Toggled, Rows, NoRow,
      PCs, PostponeTarget, Goto, Write, Upsert, SaveFails, Done
<1>16. ASSUME NEW j \in Jobs, MaintenanceBegins(j)
      PROVE  ThreadTypeOK'
    BY <1>16 DEF
      TypeOK, DataTypeOK, ThreadTypeOK, TickTypeOK, Hands, Keyed,
      WithRunningJob, WithEndedJob, Ending, Actors, Keys, Toggled, Rows, NoRow,
      PCs, MaintenanceBegins, Goto, CreateJob
<1>17. ASSUME NEW a \in Jobs \union {Ticker}, NEW k \in Keys, Pop(a, k)
      PROVE  ThreadTypeOK'
    BY <1>17 DEF
      TypeOK, DataTypeOK, ThreadTypeOK, TickTypeOK, Hands, Keyed,
      WithRunningJob, WithEndedJob, Ending, Actors, Keys, Toggled, Rows, NoRow,
      PCs, Pop, Goto
<1>18. ASSUME NEW a \in Jobs \union {Ticker}, NEW j \in Jobs, Begin(a, j)
      PROVE  ThreadTypeOK'
    BY <1>18 DEF
      TypeOK, DataTypeOK, ThreadTypeOK, TickTypeOK, Hands, Keyed,
      WithRunningJob, WithEndedJob, Ending, Actors, Keys, Toggled, Rows, NoRow,
      PCs, Begin, Goto, CreateJob
<1>19. ASSUME NEW a \in Jobs \union {Ticker}, NothingToPop(a)
      PROVE  ThreadTypeOK'
    BY <1>19 DEF
      TypeOK, DataTypeOK, ThreadTypeOK, TickTypeOK, Hands, Keyed,
      WithRunningJob, WithEndedJob, Ending, Actors, Keys, Toggled, Rows, NoRow,
      PCs, NothingToPop, Goto, AfterDispatch
<1>20. ASSUME NEW a \in Jobs \union {Ticker}, Deferred(a)
      PROVE  ThreadTypeOK'
    BY <1>20 DEF
      TypeOK, DataTypeOK, ThreadTypeOK, TickTypeOK, Hands, Keyed,
      WithRunningJob, WithEndedJob, Ending, Actors, Keys, Toggled, Rows, NoRow,
      PCs, Deferred, Goto, AfterDispatch
<1>21. ASSUME NEW a \in Jobs \union {Ticker}, StartFails(a)
      PROVE  ThreadTypeOK'
    BY <1>21 DEF
      TypeOK, DataTypeOK, ThreadTypeOK, TickTypeOK, Hands, Keyed,
      WithRunningJob, WithEndedJob, Ending, Actors, Keys, Toggled, Rows, NoRow,
      PCs, StartFails, Goto, AfterDispatch
<1>22. ASSUME NEW a \in Jobs \union {Ticker}, MarkRead(a)
      PROVE  ThreadTypeOK'
  <2>1. task[cur[a]] \in Keys
    BY <1>22 DEF Keyed, Actors, MarkRead
  <2>2. copy' \in [Actors -> Rows]
    BY <1>22, <2>1, NoRowType DEF TypeOK, DataTypeOK, ThreadTypeOK, MarkRead, Read
  <2> QED
    BY <1>22, <2>1, <2>2 DEF TypeOK, ThreadTypeOK, PCs, MarkRead, Read, Goto
<1>23. ASSUME NEW a \in Jobs \union {Ticker}, MarkWrite(a)
      PROVE  ThreadTypeOK'
  <2>1. cur[a] \in Jobs
    BY <1>23 DEF Hands, WithRunningJob, Actors, MarkWrite
  <2>2. pc' \in [Actors -> PCs]
    BY <1>23, <2>1 DEF TypeOK, ThreadTypeOK, PCs, AfterDispatch, Goto, MarkWrite
  <2>3. cur' \in [Actors -> Jobs \union {NoJob}]
    BY <1>23, <2>1 DEF TypeOK, ThreadTypeOK, MarkWrite
  <2> QED
    BY <1>23, <2>2, <2>3, NoRowType DEF
      TypeOK, ThreadTypeOK, Write, Upsert, SaveFails, Done, MarkWrite
<1>24. ASSUME NEW a \in Jobs \union {Ticker}, EndJob(a)
      PROVE  ThreadTypeOK'
    BY <1>24 DEF
      TypeOK, DataTypeOK, ThreadTypeOK, TickTypeOK, Hands, Keyed,
      WithRunningJob, WithEndedJob, Ending, Actors, Keys, Toggled, Rows, NoRow,
      PCs, EndJob, Goto
<1>25. ASSUME NEW a \in Jobs \union {Ticker}, EndFails(a)
      PROVE  ThreadTypeOK'
    BY <1>25 DEF
      TypeOK, DataTypeOK, ThreadTypeOK, TickTypeOK, Hands, Keyed,
      WithRunningJob, WithEndedJob, Ending, Actors, Keys, Toggled, Rows, NoRow,
      PCs, EndFails, Goto
<1>26. ASSUME NEW a \in Jobs \union {Ticker}, ReleaseSlot(a)
      PROVE  ThreadTypeOK'
    BY <1>26 DEF
      TypeOK, DataTypeOK, ThreadTypeOK, TickTypeOK, Hands, Keyed,
      WithRunningJob, WithEndedJob, Ending, Actors, Keys, Toggled, Rows, NoRow,
      PCs, ReleaseSlot, Goto
<1>27. ASSUME NEW a \in Jobs \union {Ticker}, ReportRead(a)
      PROVE  ThreadTypeOK'
  <2>1. task[cur[a]] \in Keys
    BY <1>27 DEF Keyed, Actors, ReportRead
  <2>2. copy' \in [Actors -> Rows]
    BY <1>27, <2>1, NoRowType DEF TypeOK, DataTypeOK, ThreadTypeOK, ReportRead, Read
  <2> QED
    BY <1>27, <2>1, <2>2 DEF TypeOK, ThreadTypeOK, PCs, ReportRead, Read, Goto
<1>28. ASSUME NEW a \in Jobs \union {Ticker}, ReportWrite(a)
      PROVE  ThreadTypeOK'
    BY <1>28 DEF
      TypeOK, DataTypeOK, ThreadTypeOK, TickTypeOK, Hands, Keyed,
      WithRunningJob, WithEndedJob, Ending, Actors, Keys, Toggled, Rows, NoRow,
      PCs, ReportWrite, Goto, Plan, Upsert, SaveFails, Done, Stranded, Ended
<1>29. ASSUME NEW a \in Jobs \union {Ticker}, Reported(a)
      PROVE  ThreadTypeOK'
  <2>1. \A b \in Actors : Past(copy[b], cur[a], OldJob) \in Rows
    BY <1>29, RowTypes DEF TypeOK, ThreadTypeOK, Hands, WithEndedJob, Actors, Reported
  <2> QED
    BY <1>29, <2>1 DEF TypeOK, ThreadTypeOK, PCs, Goto, Reported
<1>30. ASSUME NEW j \in Jobs, ManualStart(j)
      PROVE  ThreadTypeOK'
    BY <1>30 DEF
      TypeOK, DataTypeOK, ThreadTypeOK, TickTypeOK, Hands, Keyed,
      WithRunningJob, WithEndedJob, Ending, Actors, Keys, Toggled, Rows, NoRow,
      PCs, ManualStart, Goto, CreateJob
<1>31. ASSUME NEW s \in Savers, NEW k \in Toggled, ReadSettings(s, k)
      PROVE  ThreadTypeOK'
    BY <1>31 DEF
      TypeOK, DataTypeOK, ThreadTypeOK, TickTypeOK, Hands, Keyed,
      WithRunningJob, WithEndedJob, Ending, Actors, Keys, Toggled, Rows, NoRow,
      PCs, ReadSettings, Goto
<1>32. ASSUME NEW s \in Savers, SaveSettings(s)
      PROVE  ThreadTypeOK'
  <2>1. key[s] \in Toggled /\ view[s] \subseteq Toggled
    BY <1>32 DEF TypeOK, ThreadTypeOK, SettingsKnown, Actors, SaveSettings
  <2> QED
    BY <1>32, <2>1 DEF TypeOK, ThreadTypeOK, PCs, Goto, SaveSettings
<1>33. ASSUME NEW s \in Savers, ResetRead(s)
      PROVE  ThreadTypeOK'
  <2>1. key[s] \in Keys
    BY <1>33 DEF Keyed, Actors, ResetRead
  <2>2. copy' \in [Actors -> Rows]
    BY <1>33, <2>1, NoRowType DEF TypeOK, DataTypeOK, ThreadTypeOK, ResetRead, Read
  <2> QED
    BY <1>33, <2>1, <2>2 DEF TypeOK, ThreadTypeOK, PCs, ResetRead, Read, Goto
<1>34. ASSUME NEW s \in Savers, ResetWrite(s)
      PROVE  ThreadTypeOK'
    BY <1>34 DEF
      TypeOK, DataTypeOK, ThreadTypeOK, TickTypeOK, Hands, Keyed,
      WithRunningJob, WithEndedJob, Ending, Actors, Keys, Toggled, Rows, NoRow,
      PCs, ResetWrite, Goto, Plan, Upsert, SaveFails, Done, Stranded, ResetTo
<1>35. CASE Restart
    BY <1>35 DEF
      TypeOK, DataTypeOK, ThreadTypeOK, TickTypeOK, Hands, Keyed,
      WithRunningJob, WithEndedJob, Ending, Actors, Keys, Toggled, Rows, NoRow,
      PCs, Restart, Recovers, LastInterrupted, WillWrite, AfterCrash
<1>36. CASE
      \/ (\E k \in Keys : PassOver(k))
      \/ (\E k \in Targets : TargetEnough(k))
      \/ (\E k \in Keys : TimePasses(k))
  <2>1. UNCHANGED <<pc, key, copy, cur, view>>
    BY <1>36 DEF PassOver, TargetEnough, TimePasses
  <2> QED
    BY <2>1 DEF
      TypeOK, DataTypeOK, ThreadTypeOK, TickTypeOK, Hands, Keyed,
      WithRunningJob, WithEndedJob, Ending, Actors, Keys, Toggled, Rows, NoRow,
      PCs
<1>37. CASE ListFails
    BY <1>37 DEF
      TypeOK, DataTypeOK, ThreadTypeOK, TickTypeOK, Hands, Keyed,
      WithRunningJob, WithEndedJob, Ending, Actors, Keys, Toggled, Rows, NoRow,
      PCs, ListFails, Goto
<1>38. CASE MaintenanceFails
    BY <1>38 DEF
      TypeOK, DataTypeOK, ThreadTypeOK, TickTypeOK, Hands, Keyed,
      WithRunningJob, WithEndedJob, Ending, Actors, Keys, Toggled, Rows, NoRow,
      PCs, MaintenanceFails, Done, Goto
<1>39. CASE NoMaintenance
    BY <1>39 DEF
      TypeOK, DataTypeOK, ThreadTypeOK, TickTypeOK, Hands, Keyed,
      WithRunningJob, WithEndedJob, Ending, Actors, Keys, Toggled, Rows, NoRow,
      PCs, NoMaintenance, Goto, IsDue
<1>40. ASSUME NEW s \in Savers, SettingsNotSaved(s)
      PROVE  ThreadTypeOK'
    BY <1>40 DEF
      TypeOK, DataTypeOK, ThreadTypeOK, TickTypeOK, Hands, Keyed,
      WithRunningJob, WithEndedJob, Ending, Actors, Keys, Toggled, Rows, NoRow,
      PCs, SettingsNotSaved, Goto
<1> QED
  BY <1>1, <1>2, <1>3, <1>4, <1>5, <1>6, <1>7, <1>8, <1>9, <1>10, <1>11,
  <1>12, <1>13, <1>14, <1>15, <1>16, <1>17, <1>18, <1>19, <1>20, <1>21,
  <1>22, <1>23, <1>24, <1>25, <1>26, <1>27, <1>28, <1>29, <1>30, <1>31,
  <1>32, <1>33, <1>34, <1>35, <1>36, <1>37, <1>38, <1>39, <1>40 DEF
      Next, TickStep, StartStep, EndStep, SettingsStep

\* The types of what the tick knows.
LEMMA TickTypes ==
  ASSUME TypeOK, Hands, Next
  PROVE  TickTypeOK'
<1>1. CASE TickStart
    BY <1>1 DEF
      TypeOK, DataTypeOK, ThreadTypeOK, TickTypeOK, Actors, Keys, Toggled,
      Rows, NoRow, TickStart, Goto
<1>2. CASE ListRows
    BY <1>2 DEF
      TypeOK, DataTypeOK, ThreadTypeOK, TickTypeOK, Actors, Keys, Toggled,
      Rows, NoRow, ListRows, Goto, IsDue
<1>3. CASE TargetsNext
    BY <1>3 DEF
      TypeOK, DataTypeOK, ThreadTypeOK, TickTypeOK, Actors, Keys, Toggled,
      Rows, NoRow, TargetsNext, Goto
<1>4. CASE MaintenanceRead
    BY <1>4 DEF
      TypeOK, DataTypeOK, ThreadTypeOK, TickTypeOK, Actors, Keys, Toggled,
      Rows, NoRow, MaintenanceRead, Goto, Read, IsDue
<1>5. ASSUME NEW k \in Keys, PassOver(k)
      PROVE  TickTypeOK'
    BY <1>5 DEF
      TypeOK, DataTypeOK, ThreadTypeOK, TickTypeOK, Actors, Keys, Toggled,
      Rows, NoRow, PassOver
<1>6. ASSUME NEW k \in Keys, DeferDue(k)
      PROVE  TickTypeOK'
    BY <1>6 DEF
      TypeOK, DataTypeOK, ThreadTypeOK, TickTypeOK, Actors, Keys, Toggled,
      Rows, NoRow, DeferDue, Goto
<1>7. ASSUME NEW k \in Targets, TargetEnough(k)
      PROVE  TickTypeOK'
    BY <1>7 DEF
      TypeOK, DataTypeOK, ThreadTypeOK, TickTypeOK, Actors, Keys, Toggled,
      Rows, NoRow, TargetEnough
<1>8. ASSUME NEW k \in Targets, TargetShort(k)
      PROVE  TickTypeOK'
    BY <1>8 DEF
      TypeOK, DataTypeOK, ThreadTypeOK, TickTypeOK, Actors, Keys, Toggled,
      Rows, NoRow, TargetShort, Goto, IsDue
<1>9. ASSUME NEW k \in Targets, TargetCheck(k)
      PROVE  TickTypeOK'
    BY <1>9 DEF
      TypeOK, DataTypeOK, ThreadTypeOK, TickTypeOK, Actors, Keys, Toggled,
      Rows, NoRow, TargetCheck, Goto
<1>10. ASSUME NEW k \in Targets, PostponeTarget(k)
      PROVE  TickTypeOK'
    BY <1>10 DEF
      TypeOK, DataTypeOK, ThreadTypeOK, TickTypeOK, Actors, Keys, Toggled,
      Rows, NoRow, PostponeTarget, Goto, Write, Upsert, SaveFails, Done
<1>11. ASSUME NEW a \in Jobs \union {Ticker}, Reported(a)
      PROVE  TickTypeOK'
  <2>1. \A k \in Keys : Past(snap[k], cur[a], OldJob) \in Rows
    BY <1>11, RowTypes DEF TypeOK, TickTypeOK, Hands, WithEndedJob, Actors, Reported
  <2> QED
    BY <1>11, <2>1 DEF TypeOK, TickTypeOK, Reported
<1>12. CASE Restart
    BY <1>12 DEF
      TypeOK, DataTypeOK, ThreadTypeOK, TickTypeOK, Actors, Keys, Toggled,
      Rows, NoRow, Restart, Recovers, LastInterrupted, WillWrite, AfterCrash
<1>13. CASE
      \/ EnsureSchedules
      \/ SaveDue
      \/ TargetFetch
      \/ MarkPendingRead
      \/ MarkPendingWrite
      \/ TickDispatch
      \/ MaintenanceFails
      \/ ListFails
      \/ MaintenanceBusy
      \/ (\E j \in Jobs : MaintenanceBegins(j))
      \/ (\E a \in Jobs \union {Ticker}, k \in Keys : Pop(a, k))
      \/ (\E a \in Jobs \union {Ticker}, j \in Jobs : Begin(a, j))
      \/ (\E a \in Jobs \union {Ticker} : NothingToPop(a))
      \/ (\E a \in Jobs \union {Ticker} : Deferred(a))
      \/ (\E a \in Jobs \union {Ticker} : StartFails(a))
      \/ (\E a \in Jobs \union {Ticker} : MarkRead(a))
      \/ (\E a \in Jobs \union {Ticker} : MarkWrite(a))
      \/ (\E a \in Jobs \union {Ticker} : EndJob(a))
      \/ (\E a \in Jobs \union {Ticker} : EndFails(a))
      \/ (\E a \in Jobs \union {Ticker} : ReleaseSlot(a))
      \/ (\E a \in Jobs \union {Ticker} : ReportRead(a))
      \/ (\E a \in Jobs \union {Ticker} : ReportWrite(a))
      \/ (\E j \in Jobs : ManualStart(j))
      \/ (\E s \in Savers, k \in Toggled : ReadSettings(s, k))
      \/ (\E s \in Savers : SaveSettings(s))
      \/ (\E s \in Savers : ResetRead(s))
      \/ (\E s \in Savers : SettingsNotSaved(s))
      \/ (\E s \in Savers : ResetWrite(s))
      \/ (\E k \in Keys : TimePasses(k))
  <2>1. UNCHANGED <<snap, todo, maintNext>>
    BY <1>13 DEF
      EnsureSchedules, SaveDue, TargetFetch, MarkPendingRead, MarkPendingWrite,
      TickDispatch, MaintenanceFails, ListFails, MaintenanceBusy, MaintenanceBegins, Pop, Begin,
      NothingToPop, Deferred, StartFails, MarkRead, MarkWrite, EndJob,
      EndFails, ReleaseSlot, ReportRead, ReportWrite, ManualStart,
      ReadSettings, SaveSettings, ResetRead, SettingsNotSaved, ResetWrite, TimePasses, Goto,
      Write, Plan, Upsert, SaveFails, Done, Stranded, Read, CreateJob, FirstRow
  <2> QED
    BY <2>1 DEF
      TypeOK, DataTypeOK, ThreadTypeOK, TickTypeOK, Actors, Keys, Toggled,
      Rows, NoRow
<1>14. CASE NoMaintenance
    BY <1>14 DEF
      TypeOK, DataTypeOK, ThreadTypeOK, TickTypeOK, Actors, Keys, Toggled,
      Rows, NoRow, NoMaintenance, Goto, IsDue
<1> QED
  BY <1>1, <1>2, <1>3, <1>4, <1>5, <1>6, <1>7, <1>8, <1>9, <1>10, <1>11,
  <1>12, <1>13, <1>14 DEF
      Next, TickStep, StartStep, EndStep, SettingsStep

\* A goroutine that starts, runs or ends a job has a job in that state.
LEMMA HandsStep ==
  ASSUME TypeOK, Hands, OneOwner, NotLaunched, Next
  PROVE  Hands'
<1>1. CASE TickStart
    BY <1>1 DEF
      TypeOK, DataTypeOK, ThreadTypeOK, Hands, OneOwner, NotLaunched,
      WithRunningJob, WithEndedJob, Ending, Actors, TickStart, Goto
<1>2. CASE EnsureSchedules
    BY <1>2 DEF
      TypeOK, DataTypeOK, ThreadTypeOK, Hands, OneOwner, NotLaunched,
      WithRunningJob, WithEndedJob, Ending, Actors, EnsureSchedules, Goto,
      FirstRow
<1>3. CASE ListRows
    BY <1>3 DEF
      TypeOK, DataTypeOK, ThreadTypeOK, Hands, OneOwner, NotLaunched,
      WithRunningJob, WithEndedJob, Ending, Actors, ListRows, Goto, IsDue
<1>4. CASE SaveDue
    BY <1>4 DEF
      TypeOK, DataTypeOK, ThreadTypeOK, Hands, OneOwner, NotLaunched,
      WithRunningJob, WithEndedJob, Ending, Actors, SaveDue, Goto, Write,
      Upsert, SaveFails, Done
<1>5. CASE TargetsNext
    BY <1>5 DEF
      TypeOK, DataTypeOK, ThreadTypeOK, Hands, OneOwner, NotLaunched,
      WithRunningJob, WithEndedJob, Ending, Actors, TargetsNext, Goto
<1>6. CASE TargetFetch
    BY <1>6 DEF
      TypeOK, DataTypeOK, ThreadTypeOK, Hands, OneOwner, NotLaunched,
      WithRunningJob, WithEndedJob, Ending, Actors, TargetFetch, Goto
<1>7. CASE MarkPendingRead
    BY <1>7 DEF
      TypeOK, DataTypeOK, ThreadTypeOK, Hands, OneOwner, NotLaunched,
      WithRunningJob, WithEndedJob, Ending, Actors, MarkPendingRead, Read, Goto
<1>8. CASE MarkPendingWrite
    BY <1>8 DEF
      TypeOK, DataTypeOK, ThreadTypeOK, Hands, OneOwner, NotLaunched,
      WithRunningJob, WithEndedJob, Ending, Actors, MarkPendingWrite, Goto,
      Upsert, SaveFails, Done
<1>9. CASE TickDispatch
    BY <1>9 DEF
      TypeOK, DataTypeOK, ThreadTypeOK, Hands, OneOwner, NotLaunched,
      WithRunningJob, WithEndedJob, Ending, Actors, TickDispatch, Goto
<1>10. CASE MaintenanceRead
    BY <1>10 DEF
      TypeOK, DataTypeOK, ThreadTypeOK, Hands, OneOwner, NotLaunched,
      WithRunningJob, WithEndedJob, Ending, Actors, MaintenanceRead, Goto,
      Read, IsDue
<1>11. CASE MaintenanceBusy
    BY <1>11 DEF
      TypeOK, DataTypeOK, ThreadTypeOK, Hands, OneOwner, NotLaunched,
      WithRunningJob, WithEndedJob, Ending, Actors, MaintenanceBusy, Goto,
      Write, Upsert, SaveFails, Done
<1>12. ASSUME NEW k \in Keys, DeferDue(k)
      PROVE  Hands'
    BY <1>12 DEF
      TypeOK, DataTypeOK, ThreadTypeOK, Hands, OneOwner, NotLaunched,
      WithRunningJob, WithEndedJob, Ending, Actors, DeferDue, Goto
<1>13. ASSUME NEW k \in Targets, TargetShort(k)
      PROVE  Hands'
    BY <1>13 DEF
      TypeOK, DataTypeOK, ThreadTypeOK, Hands, OneOwner, NotLaunched,
      WithRunningJob, WithEndedJob, Ending, Actors, TargetShort, Goto, IsDue
<1>14. ASSUME NEW k \in Targets, TargetCheck(k)
      PROVE  Hands'
    BY <1>14 DEF
      TypeOK, DataTypeOK, ThreadTypeOK, Hands, OneOwner, NotLaunched,
      WithRunningJob, WithEndedJob, Ending, Actors, TargetCheck, Goto
<1>15. ASSUME NEW k \in Targets, PostponeTarget(k)
      PROVE  Hands'
    BY <1>15 DEF
      TypeOK, DataTypeOK, ThreadTypeOK, Hands, OneOwner, NotLaunched,
      WithRunningJob, WithEndedJob, Ending, Actors, PostponeTarget, Goto,
      Write, Upsert, SaveFails, Done
<1>16. ASSUME NEW j \in Jobs, MaintenanceBegins(j)
      PROVE  Hands'
    BY <1>16 DEF
      TypeOK, DataTypeOK, ThreadTypeOK, Hands, OneOwner, NotLaunched,
      WithRunningJob, WithEndedJob, Ending, Actors, MaintenanceBegins, Goto,
      CreateJob
<1>17. ASSUME NEW a \in Jobs \union {Ticker}, NEW k \in Keys, Pop(a, k)
      PROVE  Hands'
    BY <1>17 DEF
      TypeOK, DataTypeOK, ThreadTypeOK, Hands, OneOwner, NotLaunched,
      WithRunningJob, WithEndedJob, Ending, Actors, Pop, Goto
<1>18. ASSUME NEW a \in Jobs \union {Ticker}, NEW j \in Jobs, Begin(a, j)
      PROVE  Hands'
    BY <1>18 DEF
      TypeOK, DataTypeOK, ThreadTypeOK, Hands, OneOwner, NotLaunched,
      WithRunningJob, WithEndedJob, Ending, Actors, Begin, Goto, CreateJob
<1>19. ASSUME NEW a \in Jobs \union {Ticker}, NothingToPop(a)
      PROVE  Hands'
    BY <1>19 DEF
      TypeOK, DataTypeOK, ThreadTypeOK, Hands, OneOwner, NotLaunched,
      WithRunningJob, WithEndedJob, Ending, Actors, NothingToPop, Goto,
      AfterDispatch
<1>20. ASSUME NEW a \in Jobs \union {Ticker}, Deferred(a)
      PROVE  Hands'
    BY <1>20 DEF
      TypeOK, DataTypeOK, ThreadTypeOK, Hands, OneOwner, NotLaunched,
      WithRunningJob, WithEndedJob, Ending, Actors, Deferred, Goto,
      AfterDispatch
<1>21. ASSUME NEW a \in Jobs \union {Ticker}, StartFails(a)
      PROVE  Hands'
    BY <1>21 DEF
      TypeOK, DataTypeOK, ThreadTypeOK, Hands, OneOwner, NotLaunched,
      WithRunningJob, WithEndedJob, Ending, Actors, StartFails, Goto,
      AfterDispatch
<1>22. ASSUME NEW a \in Jobs \union {Ticker}, MarkRead(a)
      PROVE  Hands'
    BY <1>22 DEF
      TypeOK, DataTypeOK, ThreadTypeOK, Hands, OneOwner, NotLaunched,
      WithRunningJob, WithEndedJob, Ending, Actors, MarkRead, Read, Goto
<1>23. ASSUME NEW a \in Jobs \union {Ticker}, MarkWrite(a)
      PROVE  Hands'
    BY <1>23 DEF
      TypeOK, DataTypeOK, ThreadTypeOK, Hands, OneOwner, NotLaunched,
      WithRunningJob, WithEndedJob, Ending, Actors, MarkWrite, Goto, Write,
      Upsert, SaveFails, Done, AfterDispatch, Started
<1>24. ASSUME NEW a \in Jobs \union {Ticker}, EndJob(a)
      PROVE  Hands'
    BY <1>24 DEF
      TypeOK, DataTypeOK, ThreadTypeOK, Hands, OneOwner, NotLaunched,
      WithRunningJob, WithEndedJob, Ending, Actors, EndJob, Goto
<1>25. ASSUME NEW a \in Jobs \union {Ticker}, EndFails(a)
      PROVE  Hands'
    BY <1>25 DEF
      TypeOK, DataTypeOK, ThreadTypeOK, Hands, OneOwner, NotLaunched,
      WithRunningJob, WithEndedJob, Ending, Actors, EndFails, Goto
<1>26. ASSUME NEW a \in Jobs \union {Ticker}, ReleaseSlot(a)
      PROVE  Hands'
    BY <1>26 DEF
      TypeOK, DataTypeOK, ThreadTypeOK, Hands, OneOwner, NotLaunched,
      WithRunningJob, WithEndedJob, Ending, Actors, ReleaseSlot, Goto
<1>27. ASSUME NEW a \in Jobs \union {Ticker}, ReportRead(a)
      PROVE  Hands'
    BY <1>27 DEF
      TypeOK, DataTypeOK, ThreadTypeOK, Hands, OneOwner, NotLaunched,
      WithRunningJob, WithEndedJob, Ending, Actors, ReportRead, Read, Goto
<1>28. ASSUME NEW a \in Jobs \union {Ticker}, ReportWrite(a)
      PROVE  Hands'
    BY <1>28 DEF
      TypeOK, DataTypeOK, ThreadTypeOK, Hands, OneOwner, NotLaunched,
      WithRunningJob, WithEndedJob, Ending, Actors, ReportWrite, Goto, Plan,
      Upsert, SaveFails, Done, Stranded, Ended
<1>29. ASSUME NEW a \in Jobs \union {Ticker}, Reported(a)
      PROVE  Hands'
    BY <1>29 DEF
      TypeOK, DataTypeOK, ThreadTypeOK, Hands, OneOwner, NotLaunched,
      WithRunningJob, WithEndedJob, Ending, Actors, Reported, Goto, Past
<1>30. ASSUME NEW j \in Jobs, ManualStart(j)
      PROVE  Hands'
    BY <1>30 DEF
      TypeOK, DataTypeOK, ThreadTypeOK, Hands, OneOwner, NotLaunched,
      WithRunningJob, WithEndedJob, Ending, Actors, ManualStart, Goto,
      CreateJob
<1>31. ASSUME NEW s \in Savers, NEW k \in Toggled, ReadSettings(s, k)
      PROVE  Hands'
    BY <1>31 DEF
      TypeOK, DataTypeOK, ThreadTypeOK, Hands, OneOwner, NotLaunched,
      WithRunningJob, WithEndedJob, Ending, Actors, ReadSettings, Goto
<1>32. ASSUME NEW s \in Savers, SaveSettings(s)
      PROVE  Hands'
    BY <1>32 DEF
      TypeOK, DataTypeOK, ThreadTypeOK, Hands, OneOwner, NotLaunched,
      WithRunningJob, WithEndedJob, Ending, Actors, SaveSettings, Goto
<1>33. ASSUME NEW s \in Savers, ResetRead(s)
      PROVE  Hands'
    BY <1>33 DEF
      TypeOK, DataTypeOK, ThreadTypeOK, Hands, OneOwner, NotLaunched,
      WithRunningJob, WithEndedJob, Ending, Actors, ResetRead, Read, Goto
<1>34. ASSUME NEW s \in Savers, ResetWrite(s)
      PROVE  Hands'
    BY <1>34 DEF
      TypeOK, DataTypeOK, ThreadTypeOK, Hands, OneOwner, NotLaunched,
      WithRunningJob, WithEndedJob, Ending, Actors, ResetWrite, Goto, Plan,
      Upsert, SaveFails, Done, Stranded, ResetTo
<1>35. CASE Restart
    BY <1>35 DEF
      TypeOK, DataTypeOK, ThreadTypeOK, Hands, OneOwner, NotLaunched,
      WithRunningJob, WithEndedJob, Ending, Actors, Restart, Recovers,
      LastInterrupted, WillWrite, AfterCrash
<1>36. CASE
      \/ (\E k \in Keys : PassOver(k))
      \/ (\E k \in Targets : TargetEnough(k))
      \/ (\E k \in Keys : TimePasses(k))
  <2>1. UNCHANGED <<pc, cur, status>>
    BY <1>36 DEF PassOver, TargetEnough, TimePasses
  <2> QED
    BY <2>1 DEF
      TypeOK, DataTypeOK, ThreadTypeOK, Hands, OneOwner, NotLaunched,
      WithRunningJob, WithEndedJob, Ending, Actors
<1>37. CASE ListFails
    BY <1>37 DEF
      TypeOK, DataTypeOK, ThreadTypeOK, Hands, OneOwner, NotLaunched,
      WithRunningJob, WithEndedJob, Ending, Actors, ListFails, Goto
<1>38. CASE MaintenanceFails
    BY <1>38 DEF
      TypeOK, DataTypeOK, ThreadTypeOK, Hands, OneOwner, NotLaunched,
      WithRunningJob, WithEndedJob, Ending, Actors, MaintenanceFails, Done, Goto
<1>39. CASE NoMaintenance
    BY <1>39 DEF
      TypeOK, DataTypeOK, ThreadTypeOK, Hands, OneOwner, NotLaunched,
      WithRunningJob, WithEndedJob, Ending, Actors, NoMaintenance, Goto, IsDue
<1>40. ASSUME NEW s \in Savers, SettingsNotSaved(s)
      PROVE  Hands'
    BY <1>40 DEF
      TypeOK, DataTypeOK, ThreadTypeOK, Hands, OneOwner, NotLaunched,
      WithRunningJob, WithEndedJob, Ending, Actors, SettingsNotSaved, Goto
<1> QED
  BY <1>1, <1>2, <1>3, <1>4, <1>5, <1>6, <1>7, <1>8, <1>9, <1>10, <1>11,
  <1>12, <1>13, <1>14, <1>15, <1>16, <1>17, <1>18, <1>19, <1>20, <1>21,
  <1>22, <1>23, <1>24, <1>25, <1>26, <1>27, <1>28, <1>29, <1>30, <1>31,
  <1>32, <1>33, <1>34, <1>35, <1>36, <1>37, <1>38, <1>39, <1>40 DEF
      Next, TickStep, StartStep, EndStep, SettingsStep

\* No two goroutines have the same job.
LEMMA OneOwnerStep ==
  ASSUME TypeOK, Hands, OneOwner, NotLaunched, Next
  PROVE  OneOwner'
<1>1. CASE TickStart
    BY <1>1 DEF
      TypeOK, DataTypeOK, ThreadTypeOK, Hands, OneOwner, NotLaunched,
      WithRunningJob, WithEndedJob, Ending, Actors, TickStart, Goto
<1>2. CASE EnsureSchedules
    BY <1>2 DEF
      TypeOK, DataTypeOK, ThreadTypeOK, Hands, OneOwner, NotLaunched,
      WithRunningJob, WithEndedJob, Ending, Actors, EnsureSchedules, Goto,
      FirstRow
<1>3. CASE ListRows
    BY <1>3 DEF
      TypeOK, DataTypeOK, ThreadTypeOK, Hands, OneOwner, NotLaunched,
      WithRunningJob, WithEndedJob, Ending, Actors, ListRows, Goto, IsDue
<1>4. CASE SaveDue
    BY <1>4 DEF
      TypeOK, DataTypeOK, ThreadTypeOK, Hands, OneOwner, NotLaunched,
      WithRunningJob, WithEndedJob, Ending, Actors, SaveDue, Goto, Write,
      Upsert, SaveFails, Done
<1>5. CASE TargetsNext
    BY <1>5 DEF
      TypeOK, DataTypeOK, ThreadTypeOK, Hands, OneOwner, NotLaunched,
      WithRunningJob, WithEndedJob, Ending, Actors, TargetsNext, Goto
<1>6. CASE TargetFetch
    BY <1>6 DEF
      TypeOK, DataTypeOK, ThreadTypeOK, Hands, OneOwner, NotLaunched,
      WithRunningJob, WithEndedJob, Ending, Actors, TargetFetch, Goto
<1>7. CASE MarkPendingRead
    BY <1>7 DEF
      TypeOK, DataTypeOK, ThreadTypeOK, Hands, OneOwner, NotLaunched,
      WithRunningJob, WithEndedJob, Ending, Actors, MarkPendingRead, Read, Goto
<1>8. CASE MarkPendingWrite
    BY <1>8 DEF
      TypeOK, DataTypeOK, ThreadTypeOK, Hands, OneOwner, NotLaunched,
      WithRunningJob, WithEndedJob, Ending, Actors, MarkPendingWrite, Goto,
      Upsert, SaveFails, Done
<1>9. CASE TickDispatch
    BY <1>9 DEF
      TypeOK, DataTypeOK, ThreadTypeOK, Hands, OneOwner, NotLaunched,
      WithRunningJob, WithEndedJob, Ending, Actors, TickDispatch, Goto
<1>10. CASE MaintenanceRead
    BY <1>10 DEF
      TypeOK, DataTypeOK, ThreadTypeOK, Hands, OneOwner, NotLaunched,
      WithRunningJob, WithEndedJob, Ending, Actors, MaintenanceRead, Goto,
      Read, IsDue
<1>11. CASE MaintenanceBusy
    BY <1>11 DEF
      TypeOK, DataTypeOK, ThreadTypeOK, Hands, OneOwner, NotLaunched,
      WithRunningJob, WithEndedJob, Ending, Actors, MaintenanceBusy, Goto,
      Write, Upsert, SaveFails, Done
<1>12. ASSUME NEW k \in Keys, DeferDue(k)
      PROVE  OneOwner'
    BY <1>12 DEF
      TypeOK, DataTypeOK, ThreadTypeOK, Hands, OneOwner, NotLaunched,
      WithRunningJob, WithEndedJob, Ending, Actors, DeferDue, Goto
<1>13. ASSUME NEW k \in Targets, TargetShort(k)
      PROVE  OneOwner'
    BY <1>13 DEF
      TypeOK, DataTypeOK, ThreadTypeOK, Hands, OneOwner, NotLaunched,
      WithRunningJob, WithEndedJob, Ending, Actors, TargetShort, Goto, IsDue
<1>14. ASSUME NEW k \in Targets, TargetCheck(k)
      PROVE  OneOwner'
    BY <1>14 DEF
      TypeOK, DataTypeOK, ThreadTypeOK, Hands, OneOwner, NotLaunched,
      WithRunningJob, WithEndedJob, Ending, Actors, TargetCheck, Goto
<1>15. ASSUME NEW k \in Targets, PostponeTarget(k)
      PROVE  OneOwner'
    BY <1>15 DEF
      TypeOK, DataTypeOK, ThreadTypeOK, Hands, OneOwner, NotLaunched,
      WithRunningJob, WithEndedJob, Ending, Actors, PostponeTarget, Goto,
      Write, Upsert, SaveFails, Done
<1>16. ASSUME NEW j \in Jobs, MaintenanceBegins(j)
      PROVE  OneOwner'
    BY <1>16 DEF
      TypeOK, DataTypeOK, ThreadTypeOK, Hands, OneOwner, NotLaunched,
      WithRunningJob, WithEndedJob, Ending, Actors, MaintenanceBegins, Goto,
      CreateJob
<1>17. ASSUME NEW a \in Jobs \union {Ticker}, NEW k \in Keys, Pop(a, k)
      PROVE  OneOwner'
    BY <1>17 DEF
      TypeOK, DataTypeOK, ThreadTypeOK, Hands, OneOwner, NotLaunched,
      WithRunningJob, WithEndedJob, Ending, Actors, Pop, Goto
<1>18. ASSUME NEW a \in Jobs \union {Ticker}, NEW j \in Jobs, Begin(a, j)
      PROVE  OneOwner'
    BY <1>18 DEF
      TypeOK, DataTypeOK, ThreadTypeOK, Hands, OneOwner, NotLaunched,
      WithRunningJob, WithEndedJob, Ending, Actors, Begin, Goto, CreateJob
<1>19. ASSUME NEW a \in Jobs \union {Ticker}, NothingToPop(a)
      PROVE  OneOwner'
    BY <1>19 DEF
      TypeOK, DataTypeOK, ThreadTypeOK, Hands, OneOwner, NotLaunched,
      WithRunningJob, WithEndedJob, Ending, Actors, NothingToPop, Goto,
      AfterDispatch
<1>20. ASSUME NEW a \in Jobs \union {Ticker}, Deferred(a)
      PROVE  OneOwner'
    BY <1>20 DEF
      TypeOK, DataTypeOK, ThreadTypeOK, Hands, OneOwner, NotLaunched,
      WithRunningJob, WithEndedJob, Ending, Actors, Deferred, Goto,
      AfterDispatch
<1>21. ASSUME NEW a \in Jobs \union {Ticker}, StartFails(a)
      PROVE  OneOwner'
    BY <1>21 DEF
      TypeOK, DataTypeOK, ThreadTypeOK, Hands, OneOwner, NotLaunched,
      WithRunningJob, WithEndedJob, Ending, Actors, StartFails, Goto,
      AfterDispatch
<1>22. ASSUME NEW a \in Jobs \union {Ticker}, MarkRead(a)
      PROVE  OneOwner'
    BY <1>22 DEF
      TypeOK, DataTypeOK, ThreadTypeOK, Hands, OneOwner, NotLaunched,
      WithRunningJob, WithEndedJob, Ending, Actors, MarkRead, Read, Goto
<1>23. ASSUME NEW a \in Jobs \union {Ticker}, MarkWrite(a)
      PROVE  OneOwner'
    BY <1>23 DEF
      TypeOK, DataTypeOK, ThreadTypeOK, Hands, OneOwner, NotLaunched,
      WithRunningJob, WithEndedJob, Ending, Actors, MarkWrite, Goto, Write,
      Upsert, SaveFails, Done, AfterDispatch, Started
<1>24. ASSUME NEW a \in Jobs \union {Ticker}, EndJob(a)
      PROVE  OneOwner'
    BY <1>24 DEF
      TypeOK, DataTypeOK, ThreadTypeOK, Hands, OneOwner, NotLaunched,
      WithRunningJob, WithEndedJob, Ending, Actors, EndJob, Goto
<1>25. ASSUME NEW a \in Jobs \union {Ticker}, EndFails(a)
      PROVE  OneOwner'
    BY <1>25 DEF
      TypeOK, DataTypeOK, ThreadTypeOK, Hands, OneOwner, NotLaunched,
      WithRunningJob, WithEndedJob, Ending, Actors, EndFails, Goto
<1>26. ASSUME NEW a \in Jobs \union {Ticker}, ReleaseSlot(a)
      PROVE  OneOwner'
    BY <1>26 DEF
      TypeOK, DataTypeOK, ThreadTypeOK, Hands, OneOwner, NotLaunched,
      WithRunningJob, WithEndedJob, Ending, Actors, ReleaseSlot, Goto
<1>27. ASSUME NEW a \in Jobs \union {Ticker}, ReportRead(a)
      PROVE  OneOwner'
    BY <1>27 DEF
      TypeOK, DataTypeOK, ThreadTypeOK, Hands, OneOwner, NotLaunched,
      WithRunningJob, WithEndedJob, Ending, Actors, ReportRead, Read, Goto
<1>28. ASSUME NEW a \in Jobs \union {Ticker}, ReportWrite(a)
      PROVE  OneOwner'
    BY <1>28 DEF
      TypeOK, DataTypeOK, ThreadTypeOK, Hands, OneOwner, NotLaunched,
      WithRunningJob, WithEndedJob, Ending, Actors, ReportWrite, Goto, Plan,
      Upsert, SaveFails, Done, Stranded, Ended
<1>29. ASSUME NEW a \in Jobs \union {Ticker}, Reported(a)
      PROVE  OneOwner'
    BY <1>29 DEF
      TypeOK, DataTypeOK, ThreadTypeOK, Hands, OneOwner, NotLaunched,
      WithRunningJob, WithEndedJob, Ending, Actors, Reported, Goto, Past
<1>30. ASSUME NEW j \in Jobs, ManualStart(j)
      PROVE  OneOwner'
    BY <1>30 DEF
      TypeOK, DataTypeOK, ThreadTypeOK, Hands, OneOwner, NotLaunched,
      WithRunningJob, WithEndedJob, Ending, Actors, ManualStart, Goto,
      CreateJob
<1>31. ASSUME NEW s \in Savers, NEW k \in Toggled, ReadSettings(s, k)
      PROVE  OneOwner'
    BY <1>31 DEF
      TypeOK, DataTypeOK, ThreadTypeOK, Hands, OneOwner, NotLaunched,
      WithRunningJob, WithEndedJob, Ending, Actors, ReadSettings, Goto
<1>32. ASSUME NEW s \in Savers, SaveSettings(s)
      PROVE  OneOwner'
    BY <1>32 DEF
      TypeOK, DataTypeOK, ThreadTypeOK, Hands, OneOwner, NotLaunched,
      WithRunningJob, WithEndedJob, Ending, Actors, SaveSettings, Goto
<1>33. ASSUME NEW s \in Savers, ResetRead(s)
      PROVE  OneOwner'
    BY <1>33 DEF
      TypeOK, DataTypeOK, ThreadTypeOK, Hands, OneOwner, NotLaunched,
      WithRunningJob, WithEndedJob, Ending, Actors, ResetRead, Read, Goto
<1>34. ASSUME NEW s \in Savers, ResetWrite(s)
      PROVE  OneOwner'
    BY <1>34 DEF
      TypeOK, DataTypeOK, ThreadTypeOK, Hands, OneOwner, NotLaunched,
      WithRunningJob, WithEndedJob, Ending, Actors, ResetWrite, Goto, Plan,
      Upsert, SaveFails, Done, Stranded, ResetTo
<1>35. CASE Restart
    BY <1>35 DEF
      TypeOK, DataTypeOK, ThreadTypeOK, Hands, OneOwner, NotLaunched,
      WithRunningJob, WithEndedJob, Ending, Actors, Restart, Recovers,
      LastInterrupted, WillWrite, AfterCrash
<1>36. CASE
      \/ (\E k \in Keys : PassOver(k))
      \/ (\E k \in Targets : TargetEnough(k))
      \/ (\E k \in Keys : TimePasses(k))
  <2>1. UNCHANGED <<pc, cur>>
    BY <1>36 DEF PassOver, TargetEnough, TimePasses
  <2> QED
    BY <2>1 DEF
      TypeOK, DataTypeOK, ThreadTypeOK, Hands, OneOwner, NotLaunched,
      WithRunningJob, WithEndedJob, Ending, Actors
<1>37. CASE ListFails
    BY <1>37 DEF
      TypeOK, DataTypeOK, ThreadTypeOK, Hands, OneOwner, NotLaunched,
      WithRunningJob, WithEndedJob, Ending, Actors, ListFails, Goto
<1>38. CASE MaintenanceFails
    BY <1>38 DEF
      TypeOK, DataTypeOK, ThreadTypeOK, Hands, OneOwner, NotLaunched,
      WithRunningJob, WithEndedJob, Ending, Actors, MaintenanceFails, Done, Goto
<1>39. CASE NoMaintenance
    BY <1>39 DEF
      TypeOK, DataTypeOK, ThreadTypeOK, Hands, OneOwner, NotLaunched,
      WithRunningJob, WithEndedJob, Ending, Actors, NoMaintenance, Goto, IsDue
<1>40. ASSUME NEW s \in Savers, SettingsNotSaved(s)
      PROVE  OneOwner'
    BY <1>40 DEF
      TypeOK, DataTypeOK, ThreadTypeOK, Hands, OneOwner, NotLaunched,
      WithRunningJob, WithEndedJob, Ending, Actors, SettingsNotSaved, Goto
<1> QED
  BY <1>1, <1>2, <1>3, <1>4, <1>5, <1>6, <1>7, <1>8, <1>9, <1>10, <1>11,
  <1>12, <1>13, <1>14, <1>15, <1>16, <1>17, <1>18, <1>19, <1>20, <1>21,
  <1>22, <1>23, <1>24, <1>25, <1>26, <1>27, <1>28, <1>29, <1>30, <1>31,
  <1>32, <1>33, <1>34, <1>35, <1>36, <1>37, <1>38, <1>39, <1>40 DEF
      Next, TickStep, StartStep, EndStep, SettingsStep

\* A job is launched once, on a goroutine that does nothing yet.
LEMMA NotLaunchedStep ==
  ASSUME TypeOK, Hands, OneOwner, NotLaunched, Next
  PROVE  NotLaunched'
<1>1. CASE TickStart
    BY <1>1 DEF
      TypeOK, DataTypeOK, ThreadTypeOK, Hands, OneOwner, NotLaunched,
      WithRunningJob, WithEndedJob, Ending, Actors, TickStart, Goto
<1>2. CASE EnsureSchedules
    BY <1>2 DEF
      TypeOK, DataTypeOK, ThreadTypeOK, Hands, OneOwner, NotLaunched,
      WithRunningJob, WithEndedJob, Ending, Actors, EnsureSchedules, Goto,
      FirstRow
<1>3. CASE ListRows
    BY <1>3 DEF
      TypeOK, DataTypeOK, ThreadTypeOK, Hands, OneOwner, NotLaunched,
      WithRunningJob, WithEndedJob, Ending, Actors, ListRows, Goto, IsDue
<1>4. CASE SaveDue
    BY <1>4 DEF
      TypeOK, DataTypeOK, ThreadTypeOK, Hands, OneOwner, NotLaunched,
      WithRunningJob, WithEndedJob, Ending, Actors, SaveDue, Goto, Write,
      Upsert, SaveFails, Done
<1>5. CASE TargetsNext
    BY <1>5 DEF
      TypeOK, DataTypeOK, ThreadTypeOK, Hands, OneOwner, NotLaunched,
      WithRunningJob, WithEndedJob, Ending, Actors, TargetsNext, Goto
<1>6. CASE TargetFetch
    BY <1>6 DEF
      TypeOK, DataTypeOK, ThreadTypeOK, Hands, OneOwner, NotLaunched,
      WithRunningJob, WithEndedJob, Ending, Actors, TargetFetch, Goto
<1>7. CASE MarkPendingRead
    BY <1>7 DEF
      TypeOK, DataTypeOK, ThreadTypeOK, Hands, OneOwner, NotLaunched,
      WithRunningJob, WithEndedJob, Ending, Actors, MarkPendingRead, Read, Goto
<1>8. CASE MarkPendingWrite
    BY <1>8 DEF
      TypeOK, DataTypeOK, ThreadTypeOK, Hands, OneOwner, NotLaunched,
      WithRunningJob, WithEndedJob, Ending, Actors, MarkPendingWrite, Goto,
      Upsert, SaveFails, Done
<1>9. CASE TickDispatch
    BY <1>9 DEF
      TypeOK, DataTypeOK, ThreadTypeOK, Hands, OneOwner, NotLaunched,
      WithRunningJob, WithEndedJob, Ending, Actors, TickDispatch, Goto
<1>10. CASE MaintenanceRead
    BY <1>10 DEF
      TypeOK, DataTypeOK, ThreadTypeOK, Hands, OneOwner, NotLaunched,
      WithRunningJob, WithEndedJob, Ending, Actors, MaintenanceRead, Goto,
      Read, IsDue
<1>11. CASE MaintenanceBusy
    BY <1>11 DEF
      TypeOK, DataTypeOK, ThreadTypeOK, Hands, OneOwner, NotLaunched,
      WithRunningJob, WithEndedJob, Ending, Actors, MaintenanceBusy, Goto,
      Write, Upsert, SaveFails, Done
<1>12. ASSUME NEW k \in Keys, DeferDue(k)
      PROVE  NotLaunched'
    BY <1>12 DEF
      TypeOK, DataTypeOK, ThreadTypeOK, Hands, OneOwner, NotLaunched,
      WithRunningJob, WithEndedJob, Ending, Actors, DeferDue, Goto
<1>13. ASSUME NEW k \in Targets, TargetShort(k)
      PROVE  NotLaunched'
    BY <1>13 DEF
      TypeOK, DataTypeOK, ThreadTypeOK, Hands, OneOwner, NotLaunched,
      WithRunningJob, WithEndedJob, Ending, Actors, TargetShort, Goto, IsDue
<1>14. ASSUME NEW k \in Targets, TargetCheck(k)
      PROVE  NotLaunched'
    BY <1>14 DEF
      TypeOK, DataTypeOK, ThreadTypeOK, Hands, OneOwner, NotLaunched,
      WithRunningJob, WithEndedJob, Ending, Actors, TargetCheck, Goto
<1>15. ASSUME NEW k \in Targets, PostponeTarget(k)
      PROVE  NotLaunched'
    BY <1>15 DEF
      TypeOK, DataTypeOK, ThreadTypeOK, Hands, OneOwner, NotLaunched,
      WithRunningJob, WithEndedJob, Ending, Actors, PostponeTarget, Goto,
      Write, Upsert, SaveFails, Done
<1>16. ASSUME NEW j \in Jobs, MaintenanceBegins(j)
      PROVE  NotLaunched'
    BY <1>16 DEF
      TypeOK, DataTypeOK, ThreadTypeOK, Hands, OneOwner, NotLaunched,
      WithRunningJob, WithEndedJob, Ending, Actors, MaintenanceBegins, Goto,
      CreateJob
<1>17. ASSUME NEW a \in Jobs \union {Ticker}, NEW k \in Keys, Pop(a, k)
      PROVE  NotLaunched'
    BY <1>17 DEF
      TypeOK, DataTypeOK, ThreadTypeOK, Hands, OneOwner, NotLaunched,
      WithRunningJob, WithEndedJob, Ending, Actors, Pop, Goto
<1>18. ASSUME NEW a \in Jobs \union {Ticker}, NEW j \in Jobs, Begin(a, j)
      PROVE  NotLaunched'
    BY <1>18 DEF
      TypeOK, DataTypeOK, ThreadTypeOK, Hands, OneOwner, NotLaunched,
      WithRunningJob, WithEndedJob, Ending, Actors, Begin, Goto, CreateJob
<1>19. ASSUME NEW a \in Jobs \union {Ticker}, NothingToPop(a)
      PROVE  NotLaunched'
    BY <1>19 DEF
      TypeOK, DataTypeOK, ThreadTypeOK, Hands, OneOwner, NotLaunched,
      WithRunningJob, WithEndedJob, Ending, Actors, NothingToPop, Goto,
      AfterDispatch
<1>20. ASSUME NEW a \in Jobs \union {Ticker}, Deferred(a)
      PROVE  NotLaunched'
    BY <1>20 DEF
      TypeOK, DataTypeOK, ThreadTypeOK, Hands, OneOwner, NotLaunched,
      WithRunningJob, WithEndedJob, Ending, Actors, Deferred, Goto,
      AfterDispatch
<1>21. ASSUME NEW a \in Jobs \union {Ticker}, StartFails(a)
      PROVE  NotLaunched'
    BY <1>21 DEF
      TypeOK, DataTypeOK, ThreadTypeOK, Hands, OneOwner, NotLaunched,
      WithRunningJob, WithEndedJob, Ending, Actors, StartFails, Goto,
      AfterDispatch
<1>22. ASSUME NEW a \in Jobs \union {Ticker}, MarkRead(a)
      PROVE  NotLaunched'
    BY <1>22 DEF
      TypeOK, DataTypeOK, ThreadTypeOK, Hands, OneOwner, NotLaunched,
      WithRunningJob, WithEndedJob, Ending, Actors, MarkRead, Read, Goto
<1>23. ASSUME NEW a \in Jobs \union {Ticker}, MarkWrite(a)
      PROVE  NotLaunched'
    BY <1>23 DEF
      TypeOK, DataTypeOK, ThreadTypeOK, Hands, OneOwner, NotLaunched,
      WithRunningJob, WithEndedJob, Ending, Actors, MarkWrite, Goto, Write,
      Upsert, SaveFails, Done, AfterDispatch, Started
<1>24. ASSUME NEW a \in Jobs \union {Ticker}, EndJob(a)
      PROVE  NotLaunched'
    BY <1>24 DEF
      TypeOK, DataTypeOK, ThreadTypeOK, Hands, OneOwner, NotLaunched,
      WithRunningJob, WithEndedJob, Ending, Actors, EndJob, Goto
<1>25. ASSUME NEW a \in Jobs \union {Ticker}, EndFails(a)
      PROVE  NotLaunched'
    BY <1>25 DEF
      TypeOK, DataTypeOK, ThreadTypeOK, Hands, OneOwner, NotLaunched,
      WithRunningJob, WithEndedJob, Ending, Actors, EndFails, Goto
<1>26. ASSUME NEW a \in Jobs \union {Ticker}, ReleaseSlot(a)
      PROVE  NotLaunched'
    BY <1>26 DEF
      TypeOK, DataTypeOK, ThreadTypeOK, Hands, OneOwner, NotLaunched,
      WithRunningJob, WithEndedJob, Ending, Actors, ReleaseSlot, Goto
<1>27. ASSUME NEW a \in Jobs \union {Ticker}, ReportRead(a)
      PROVE  NotLaunched'
    BY <1>27 DEF
      TypeOK, DataTypeOK, ThreadTypeOK, Hands, OneOwner, NotLaunched,
      WithRunningJob, WithEndedJob, Ending, Actors, ReportRead, Read, Goto
<1>28. ASSUME NEW a \in Jobs \union {Ticker}, ReportWrite(a)
      PROVE  NotLaunched'
    BY <1>28 DEF
      TypeOK, DataTypeOK, ThreadTypeOK, Hands, OneOwner, NotLaunched,
      WithRunningJob, WithEndedJob, Ending, Actors, ReportWrite, Goto, Plan,
      Upsert, SaveFails, Done, Stranded, Ended
<1>29. ASSUME NEW a \in Jobs \union {Ticker}, Reported(a)
      PROVE  NotLaunched'
    BY <1>29 DEF
      TypeOK, DataTypeOK, ThreadTypeOK, Hands, OneOwner, NotLaunched,
      WithRunningJob, WithEndedJob, Ending, Actors, Reported, Goto, Past
<1>30. ASSUME NEW j \in Jobs, ManualStart(j)
      PROVE  NotLaunched'
    BY <1>30 DEF
      TypeOK, DataTypeOK, ThreadTypeOK, Hands, OneOwner, NotLaunched,
      WithRunningJob, WithEndedJob, Ending, Actors, ManualStart, Goto,
      CreateJob
<1>31. ASSUME NEW s \in Savers, NEW k \in Toggled, ReadSettings(s, k)
      PROVE  NotLaunched'
    BY <1>31 DEF
      TypeOK, DataTypeOK, ThreadTypeOK, Hands, OneOwner, NotLaunched,
      WithRunningJob, WithEndedJob, Ending, Actors, ReadSettings, Goto
<1>32. ASSUME NEW s \in Savers, SaveSettings(s)
      PROVE  NotLaunched'
    BY <1>32 DEF
      TypeOK, DataTypeOK, ThreadTypeOK, Hands, OneOwner, NotLaunched,
      WithRunningJob, WithEndedJob, Ending, Actors, SaveSettings, Goto
<1>33. ASSUME NEW s \in Savers, ResetRead(s)
      PROVE  NotLaunched'
    BY <1>33 DEF
      TypeOK, DataTypeOK, ThreadTypeOK, Hands, OneOwner, NotLaunched,
      WithRunningJob, WithEndedJob, Ending, Actors, ResetRead, Read, Goto
<1>34. ASSUME NEW s \in Savers, ResetWrite(s)
      PROVE  NotLaunched'
    BY <1>34 DEF
      TypeOK, DataTypeOK, ThreadTypeOK, Hands, OneOwner, NotLaunched,
      WithRunningJob, WithEndedJob, Ending, Actors, ResetWrite, Goto, Plan,
      Upsert, SaveFails, Done, Stranded, ResetTo
<1>35. CASE Restart
    BY <1>35 DEF
      TypeOK, DataTypeOK, ThreadTypeOK, Hands, OneOwner, NotLaunched,
      WithRunningJob, WithEndedJob, Ending, Actors, Restart, Recovers,
      LastInterrupted, WillWrite, AfterCrash
<1>36. CASE
      \/ (\E k \in Keys : PassOver(k))
      \/ (\E k \in Targets : TargetEnough(k))
      \/ (\E k \in Keys : TimePasses(k))
  <2>1. UNCHANGED <<pc, cur>>
    BY <1>36 DEF PassOver, TargetEnough, TimePasses
  <2> QED
    BY <2>1 DEF
      TypeOK, DataTypeOK, ThreadTypeOK, Hands, OneOwner, NotLaunched,
      WithRunningJob, WithEndedJob, Ending, Actors
<1>37. CASE ListFails
    BY <1>37 DEF
      TypeOK, DataTypeOK, ThreadTypeOK, Hands, OneOwner, NotLaunched,
      WithRunningJob, WithEndedJob, Ending, Actors, ListFails, Goto
<1>38. CASE MaintenanceFails
    BY <1>38 DEF
      TypeOK, DataTypeOK, ThreadTypeOK, Hands, OneOwner, NotLaunched,
      WithRunningJob, WithEndedJob, Ending, Actors, MaintenanceFails, Done, Goto
<1>39. CASE NoMaintenance
    BY <1>39 DEF
      TypeOK, DataTypeOK, ThreadTypeOK, Hands, OneOwner, NotLaunched,
      WithRunningJob, WithEndedJob, Ending, Actors, NoMaintenance, Goto, IsDue
<1>40. ASSUME NEW s \in Savers, SettingsNotSaved(s)
      PROVE  NotLaunched'
    BY <1>40 DEF
      TypeOK, DataTypeOK, ThreadTypeOK, Hands, OneOwner, NotLaunched,
      WithRunningJob, WithEndedJob, Ending, Actors, SettingsNotSaved, Goto
<1> QED
  BY <1>1, <1>2, <1>3, <1>4, <1>5, <1>6, <1>7, <1>8, <1>9, <1>10, <1>11,
  <1>12, <1>13, <1>14, <1>15, <1>16, <1>17, <1>18, <1>19, <1>20, <1>21,
  <1>22, <1>23, <1>24, <1>25, <1>26, <1>27, <1>28, <1>29, <1>30, <1>31,
  <1>32, <1>33, <1>34, <1>35, <1>36, <1>37, <1>38, <1>39, <1>40 DEF
      Next, TickStep, StartStep, EndStep, SettingsStep

\* A goroutine at work on a schedule has its key in hand.
LEMMA KeyedStep ==
  ASSUME TypeOK, Hands, OneOwner, NotLaunched, Keyed, SettingsKnown, Next
  PROVE  Keyed'
<1>1. CASE TickStart
    BY <1>1 DEF
      TypeOK, DataTypeOK, ThreadTypeOK, Hands, OneOwner, NotLaunched, Keyed,
      SettingsKnown, WithRunningJob, WithEndedJob, Ending, Actors, Keys,
      Toggled, TickStart, Goto
<1>2. CASE EnsureSchedules
    BY <1>2 DEF
      TypeOK, DataTypeOK, ThreadTypeOK, Hands, OneOwner, NotLaunched, Keyed,
      SettingsKnown, WithRunningJob, WithEndedJob, Ending, Actors, Keys,
      Toggled, EnsureSchedules, Goto, FirstRow
<1>3. CASE ListRows
    BY <1>3 DEF
      TypeOK, DataTypeOK, ThreadTypeOK, Hands, OneOwner, NotLaunched, Keyed,
      SettingsKnown, WithRunningJob, WithEndedJob, Ending, Actors, Keys,
      Toggled, ListRows, Goto, IsDue
<1>4. CASE SaveDue
    BY <1>4 DEF
      TypeOK, DataTypeOK, ThreadTypeOK, Hands, OneOwner, NotLaunched, Keyed,
      SettingsKnown, WithRunningJob, WithEndedJob, Ending, Actors, Keys,
      Toggled, SaveDue, Goto, Write, Upsert, SaveFails, Done
<1>5. CASE TargetsNext
    BY <1>5 DEF
      TypeOK, DataTypeOK, ThreadTypeOK, Hands, OneOwner, NotLaunched, Keyed,
      SettingsKnown, WithRunningJob, WithEndedJob, Ending, Actors, Keys,
      Toggled, TargetsNext, Goto
<1>6. CASE TargetFetch
    BY <1>6 DEF
      TypeOK, DataTypeOK, ThreadTypeOK, Hands, OneOwner, NotLaunched, Keyed,
      SettingsKnown, WithRunningJob, WithEndedJob, Ending, Actors, Keys,
      Toggled, TargetFetch, Goto
<1>7. CASE MarkPendingRead
    BY <1>7 DEF
      TypeOK, DataTypeOK, ThreadTypeOK, Hands, OneOwner, NotLaunched, Keyed,
      SettingsKnown, WithRunningJob, WithEndedJob, Ending, Actors, Keys,
      Toggled, MarkPendingRead, Read, Goto
<1>8. CASE MarkPendingWrite
    BY <1>8 DEF
      TypeOK, DataTypeOK, ThreadTypeOK, Hands, OneOwner, NotLaunched, Keyed,
      SettingsKnown, WithRunningJob, WithEndedJob, Ending, Actors, Keys,
      Toggled, MarkPendingWrite, Goto, Upsert, SaveFails, Done
<1>9. CASE TickDispatch
    BY <1>9 DEF
      TypeOK, DataTypeOK, ThreadTypeOK, Hands, OneOwner, NotLaunched, Keyed,
      SettingsKnown, WithRunningJob, WithEndedJob, Ending, Actors, Keys,
      Toggled, TickDispatch, Goto
<1>10. CASE MaintenanceRead
    BY <1>10 DEF
      TypeOK, DataTypeOK, ThreadTypeOK, Hands, OneOwner, NotLaunched, Keyed,
      SettingsKnown, WithRunningJob, WithEndedJob, Ending, Actors, Keys,
      Toggled, MaintenanceRead, Goto, Read, IsDue
<1>11. CASE MaintenanceBusy
    BY <1>11 DEF
      TypeOK, DataTypeOK, ThreadTypeOK, Hands, OneOwner, NotLaunched, Keyed,
      SettingsKnown, WithRunningJob, WithEndedJob, Ending, Actors, Keys,
      Toggled, MaintenanceBusy, Goto, Write, Upsert, SaveFails, Done
<1>12. ASSUME NEW k \in Keys, DeferDue(k)
      PROVE  Keyed'
    BY <1>12 DEF
      TypeOK, DataTypeOK, ThreadTypeOK, Hands, OneOwner, NotLaunched, Keyed,
      SettingsKnown, WithRunningJob, WithEndedJob, Ending, Actors, Keys,
      Toggled, DeferDue, Goto
<1>13. ASSUME NEW k \in Targets, TargetShort(k)
      PROVE  Keyed'
    BY <1>13 DEF
      TypeOK, DataTypeOK, ThreadTypeOK, Hands, OneOwner, NotLaunched, Keyed,
      SettingsKnown, WithRunningJob, WithEndedJob, Ending, Actors, Keys,
      Toggled, TargetShort, Goto, IsDue
<1>14. ASSUME NEW k \in Targets, TargetCheck(k)
      PROVE  Keyed'
    BY <1>14 DEF
      TypeOK, DataTypeOK, ThreadTypeOK, Hands, OneOwner, NotLaunched, Keyed,
      SettingsKnown, WithRunningJob, WithEndedJob, Ending, Actors, Keys,
      Toggled, TargetCheck, Goto
<1>15. ASSUME NEW k \in Targets, PostponeTarget(k)
      PROVE  Keyed'
    BY <1>15 DEF
      TypeOK, DataTypeOK, ThreadTypeOK, Hands, OneOwner, NotLaunched, Keyed,
      SettingsKnown, WithRunningJob, WithEndedJob, Ending, Actors, Keys,
      Toggled, PostponeTarget, Goto, Write, Upsert, SaveFails, Done
<1>16. ASSUME NEW j \in Jobs, MaintenanceBegins(j)
      PROVE  Keyed'
    BY <1>16 DEF
      TypeOK, DataTypeOK, ThreadTypeOK, Hands, OneOwner, NotLaunched, Keyed,
      SettingsKnown, WithRunningJob, WithEndedJob, Ending, Actors, Keys,
      Toggled, MaintenanceBegins, Goto, CreateJob
<1>17. ASSUME NEW a \in Jobs \union {Ticker}, NEW k \in Keys, Pop(a, k)
      PROVE  Keyed'
    BY <1>17 DEF
      TypeOK, DataTypeOK, ThreadTypeOK, Hands, OneOwner, NotLaunched, Keyed,
      SettingsKnown, WithRunningJob, WithEndedJob, Ending, Actors, Keys,
      Toggled, Pop, Goto
<1>18. ASSUME NEW a \in Jobs \union {Ticker}, NEW j \in Jobs, Begin(a, j)
      PROVE  Keyed'
    BY <1>18 DEF
      TypeOK, DataTypeOK, ThreadTypeOK, Hands, OneOwner, NotLaunched, Keyed,
      SettingsKnown, WithRunningJob, WithEndedJob, Ending, Actors, Keys,
      Toggled, Begin, Goto, CreateJob
<1>19. ASSUME NEW a \in Jobs \union {Ticker}, NothingToPop(a)
      PROVE  Keyed'
    BY <1>19 DEF
      TypeOK, DataTypeOK, ThreadTypeOK, Hands, OneOwner, NotLaunched, Keyed,
      SettingsKnown, WithRunningJob, WithEndedJob, Ending, Actors, Keys,
      Toggled, NothingToPop, Goto, AfterDispatch
<1>20. ASSUME NEW a \in Jobs \union {Ticker}, Deferred(a)
      PROVE  Keyed'
    BY <1>20 DEF
      TypeOK, DataTypeOK, ThreadTypeOK, Hands, OneOwner, NotLaunched, Keyed,
      SettingsKnown, WithRunningJob, WithEndedJob, Ending, Actors, Keys,
      Toggled, Deferred, Goto, AfterDispatch
<1>21. ASSUME NEW a \in Jobs \union {Ticker}, StartFails(a)
      PROVE  Keyed'
    BY <1>21 DEF
      TypeOK, DataTypeOK, ThreadTypeOK, Hands, OneOwner, NotLaunched, Keyed,
      SettingsKnown, WithRunningJob, WithEndedJob, Ending, Actors, Keys,
      Toggled, StartFails, Goto, AfterDispatch
<1>22. ASSUME NEW a \in Jobs \union {Ticker}, MarkRead(a)
      PROVE  Keyed'
    BY <1>22 DEF
      TypeOK, DataTypeOK, ThreadTypeOK, Hands, OneOwner, NotLaunched, Keyed,
      SettingsKnown, WithRunningJob, WithEndedJob, Ending, Actors, Keys,
      Toggled, MarkRead, Read, Goto
<1>23. ASSUME NEW a \in Jobs \union {Ticker}, MarkWrite(a)
      PROVE  Keyed'
    BY <1>23 DEF
      TypeOK, DataTypeOK, ThreadTypeOK, Hands, OneOwner, NotLaunched, Keyed,
      SettingsKnown, WithRunningJob, WithEndedJob, Ending, Actors, Keys,
      Toggled, MarkWrite, Goto, Write, Upsert, SaveFails, Done, AfterDispatch,
      Started
<1>24. ASSUME NEW a \in Jobs \union {Ticker}, EndJob(a)
      PROVE  Keyed'
    BY <1>24 DEF
      TypeOK, DataTypeOK, ThreadTypeOK, Hands, OneOwner, NotLaunched, Keyed,
      SettingsKnown, WithRunningJob, WithEndedJob, Ending, Actors, Keys,
      Toggled, EndJob, Goto
<1>25. ASSUME NEW a \in Jobs \union {Ticker}, EndFails(a)
      PROVE  Keyed'
    BY <1>25 DEF
      TypeOK, DataTypeOK, ThreadTypeOK, Hands, OneOwner, NotLaunched, Keyed,
      SettingsKnown, WithRunningJob, WithEndedJob, Ending, Actors, Keys,
      Toggled, EndFails, Goto
<1>26. ASSUME NEW a \in Jobs \union {Ticker}, ReleaseSlot(a)
      PROVE  Keyed'
    BY <1>26 DEF
      TypeOK, DataTypeOK, ThreadTypeOK, Hands, OneOwner, NotLaunched, Keyed,
      SettingsKnown, WithRunningJob, WithEndedJob, Ending, Actors, Keys,
      Toggled, ReleaseSlot, Goto
<1>27. ASSUME NEW a \in Jobs \union {Ticker}, ReportRead(a)
      PROVE  Keyed'
    BY <1>27 DEF
      TypeOK, DataTypeOK, ThreadTypeOK, Hands, OneOwner, NotLaunched, Keyed,
      SettingsKnown, WithRunningJob, WithEndedJob, Ending, Actors, Keys,
      Toggled, ReportRead, Read, Goto
<1>28. ASSUME NEW a \in Jobs \union {Ticker}, ReportWrite(a)
      PROVE  Keyed'
    BY <1>28 DEF
      TypeOK, DataTypeOK, ThreadTypeOK, Hands, OneOwner, NotLaunched, Keyed,
      SettingsKnown, WithRunningJob, WithEndedJob, Ending, Actors, Keys,
      Toggled, ReportWrite, Goto, Plan, Upsert, SaveFails, Done, Stranded,
      Ended
<1>29. ASSUME NEW a \in Jobs \union {Ticker}, Reported(a)
      PROVE  Keyed'
    BY <1>29 DEF
      TypeOK, DataTypeOK, ThreadTypeOK, Hands, OneOwner, NotLaunched, Keyed,
      SettingsKnown, WithRunningJob, WithEndedJob, Ending, Actors, Keys,
      Toggled, Reported, Goto, Past
<1>30. ASSUME NEW j \in Jobs, ManualStart(j)
      PROVE  Keyed'
    BY <1>30 DEF
      TypeOK, DataTypeOK, ThreadTypeOK, Hands, OneOwner, NotLaunched, Keyed,
      SettingsKnown, WithRunningJob, WithEndedJob, Ending, Actors, Keys,
      Toggled, ManualStart, Goto, CreateJob
<1>31. ASSUME NEW s \in Savers, NEW k \in Toggled, ReadSettings(s, k)
      PROVE  Keyed'
    BY <1>31 DEF
      TypeOK, DataTypeOK, ThreadTypeOK, Hands, OneOwner, NotLaunched, Keyed,
      SettingsKnown, WithRunningJob, WithEndedJob, Ending, Actors, Keys,
      Toggled, ReadSettings, Goto
<1>32. ASSUME NEW s \in Savers, SaveSettings(s)
      PROVE  Keyed'
    BY <1>32 DEF
      TypeOK, DataTypeOK, ThreadTypeOK, Hands, OneOwner, NotLaunched, Keyed,
      SettingsKnown, WithRunningJob, WithEndedJob, Ending, Actors, Keys,
      Toggled, SaveSettings, Goto
<1>33. ASSUME NEW s \in Savers, ResetRead(s)
      PROVE  Keyed'
    BY <1>33 DEF
      TypeOK, DataTypeOK, ThreadTypeOK, Hands, OneOwner, NotLaunched, Keyed,
      SettingsKnown, WithRunningJob, WithEndedJob, Ending, Actors, Keys,
      Toggled, ResetRead, Read, Goto
<1>34. ASSUME NEW s \in Savers, ResetWrite(s)
      PROVE  Keyed'
    BY <1>34 DEF
      TypeOK, DataTypeOK, ThreadTypeOK, Hands, OneOwner, NotLaunched, Keyed,
      SettingsKnown, WithRunningJob, WithEndedJob, Ending, Actors, Keys,
      Toggled, ResetWrite, Goto, Plan, Upsert, SaveFails, Done, Stranded,
      ResetTo
<1>35. CASE Restart
    BY <1>35 DEF
      TypeOK, DataTypeOK, ThreadTypeOK, Hands, OneOwner, NotLaunched, Keyed,
      SettingsKnown, WithRunningJob, WithEndedJob, Ending, Actors, Keys,
      Toggled, Restart, Recovers, LastInterrupted, WillWrite, AfterCrash
<1>36. CASE
      \/ (\E k \in Keys : PassOver(k))
      \/ (\E k \in Targets : TargetEnough(k))
      \/ (\E k \in Keys : TimePasses(k))
  <2>1. UNCHANGED <<pc, cur, key, task>>
    BY <1>36 DEF PassOver, TargetEnough, TimePasses
  <2> QED
    BY <2>1 DEF
      TypeOK, DataTypeOK, ThreadTypeOK, Hands, OneOwner, NotLaunched, Keyed,
      SettingsKnown, WithRunningJob, WithEndedJob, Ending, Actors, Keys,
      Toggled
<1>37. CASE ListFails
    BY <1>37 DEF
      TypeOK, DataTypeOK, ThreadTypeOK, Hands, OneOwner, NotLaunched, Keyed,
      SettingsKnown, WithRunningJob, WithEndedJob, Ending, Actors, Keys,
      Toggled, ListFails, Goto
<1>38. CASE MaintenanceFails
    BY <1>38 DEF
      TypeOK, DataTypeOK, ThreadTypeOK, Hands, OneOwner, NotLaunched, Keyed,
      SettingsKnown, WithRunningJob, WithEndedJob, Ending, Actors, Keys,
      Toggled, MaintenanceFails, Done, Goto
<1>39. CASE NoMaintenance
    BY <1>39 DEF
      TypeOK, DataTypeOK, ThreadTypeOK, Hands, OneOwner, NotLaunched, Keyed,
      SettingsKnown, WithRunningJob, WithEndedJob, Ending, Actors, Keys,
      Toggled, NoMaintenance, Goto, IsDue
<1>40. ASSUME NEW s \in Savers, SettingsNotSaved(s)
      PROVE  Keyed'
    BY <1>40 DEF
      TypeOK, DataTypeOK, ThreadTypeOK, Hands, OneOwner, NotLaunched, Keyed,
      SettingsKnown, WithRunningJob, WithEndedJob, Ending, Actors, Keys,
      Toggled, SettingsNotSaved, Goto
<1> QED
  BY <1>1, <1>2, <1>3, <1>4, <1>5, <1>6, <1>7, <1>8, <1>9, <1>10, <1>11,
  <1>12, <1>13, <1>14, <1>15, <1>16, <1>17, <1>18, <1>19, <1>20, <1>21,
  <1>22, <1>23, <1>24, <1>25, <1>26, <1>27, <1>28, <1>29, <1>30, <1>31,
  <1>32, <1>33, <1>34, <1>35, <1>36, <1>37, <1>38, <1>39, <1>40 DEF
      Next, TickStep, StartStep, EndStep, SettingsStep

\* The tick saves no row without a next time.
LEMMA DueCopiesStep ==
  ASSUME TypeOK, DueCopies, Next
  PROVE  DueCopies'
<1>1. CASE TickStart
    BY <1>1 DEF
      TypeOK, DataTypeOK, ThreadTypeOK, TickTypeOK, DueCopies, Actors, Keys,
      Toggled, TickStart, Goto
<1>2. CASE EnsureSchedules
    BY <1>2 DEF
      TypeOK, DataTypeOK, ThreadTypeOK, TickTypeOK, DueCopies, Actors, Keys,
      Toggled, EnsureSchedules, Goto, FirstRow
<1>3. CASE ListRows
    BY <1>3 DEF
      TypeOK, DataTypeOK, ThreadTypeOK, TickTypeOK, DueCopies, Actors, Keys,
      Toggled, ListRows, Goto, IsDue
<1>4. CASE SaveDue
    BY <1>4 DEF
      TypeOK, DataTypeOK, ThreadTypeOK, TickTypeOK, DueCopies, Actors, Keys,
      Toggled, SaveDue, Goto, Write, Upsert, SaveFails, Done
<1>5. CASE TargetsNext
    BY <1>5 DEF
      TypeOK, DataTypeOK, ThreadTypeOK, TickTypeOK, DueCopies, Actors, Keys,
      Toggled, TargetsNext, Goto
<1>6. CASE TargetFetch
    BY <1>6 DEF
      TypeOK, DataTypeOK, ThreadTypeOK, TickTypeOK, DueCopies, Actors, Keys,
      Toggled, TargetFetch, Goto
<1>7. CASE MarkPendingRead
    BY <1>7 DEF
      TypeOK, DataTypeOK, ThreadTypeOK, TickTypeOK, DueCopies, Actors, Keys,
      Toggled, MarkPendingRead, Read, Goto
<1>8. CASE MarkPendingWrite
    BY <1>8 DEF
      TypeOK, DataTypeOK, ThreadTypeOK, TickTypeOK, DueCopies, Actors, Keys,
      Toggled, MarkPendingWrite, Goto, Upsert, SaveFails, Done
<1>9. CASE TickDispatch
    BY <1>9 DEF
      TypeOK, DataTypeOK, ThreadTypeOK, TickTypeOK, DueCopies, Actors, Keys,
      Toggled, TickDispatch, Goto
<1>10. CASE MaintenanceRead
    BY <1>10 DEF
      TypeOK, DataTypeOK, ThreadTypeOK, TickTypeOK, DueCopies, Actors, Keys,
      Toggled, MaintenanceRead, Goto, Read, IsDue
<1>11. CASE MaintenanceBusy
    BY <1>11 DEF
      TypeOK, DataTypeOK, ThreadTypeOK, TickTypeOK, DueCopies, Actors, Keys,
      Toggled, MaintenanceBusy, Goto, Write, Upsert, SaveFails, Done
<1>12. ASSUME NEW k \in Keys, PassOver(k)
      PROVE  DueCopies'
    BY <1>12 DEF
      TypeOK, DataTypeOK, ThreadTypeOK, TickTypeOK, DueCopies, Actors, Keys,
      Toggled, PassOver
<1>13. ASSUME NEW k \in Keys, DeferDue(k)
      PROVE  DueCopies'
    BY <1>13 DEF
      TypeOK, DataTypeOK, ThreadTypeOK, TickTypeOK, DueCopies, Actors, Keys,
      Toggled, DeferDue, Goto
<1>14. ASSUME NEW k \in Targets, TargetEnough(k)
      PROVE  DueCopies'
    BY <1>14 DEF
      TypeOK, DataTypeOK, ThreadTypeOK, TickTypeOK, DueCopies, Actors, Keys,
      Toggled, TargetEnough
<1>15. ASSUME NEW k \in Targets, TargetShort(k)
      PROVE  DueCopies'
    BY <1>15 DEF
      TypeOK, DataTypeOK, ThreadTypeOK, TickTypeOK, DueCopies, Actors, Keys,
      Toggled, TargetShort, Goto, IsDue
<1>16. ASSUME NEW k \in Targets, TargetCheck(k)
      PROVE  DueCopies'
    BY <1>16 DEF
      TypeOK, DataTypeOK, ThreadTypeOK, TickTypeOK, DueCopies, Actors, Keys,
      Toggled, TargetCheck, Goto
<1>17. ASSUME NEW k \in Targets, PostponeTarget(k)
      PROVE  DueCopies'
    BY <1>17 DEF
      TypeOK, DataTypeOK, ThreadTypeOK, TickTypeOK, DueCopies, Actors, Keys,
      Toggled, PostponeTarget, Goto, Write, Upsert, SaveFails, Done
<1>18. ASSUME NEW j \in Jobs, MaintenanceBegins(j)
      PROVE  DueCopies'
    BY <1>18 DEF
      TypeOK, DataTypeOK, ThreadTypeOK, TickTypeOK, DueCopies, Actors, Keys,
      Toggled, MaintenanceBegins, Goto, CreateJob
<1>19. ASSUME NEW a \in Jobs \union {Ticker}, NEW k \in Keys, Pop(a, k)
      PROVE  DueCopies'
    BY <1>19 DEF
      TypeOK, DataTypeOK, ThreadTypeOK, TickTypeOK, DueCopies, Actors, Keys,
      Toggled, Pop, Goto
<1>20. ASSUME NEW a \in Jobs \union {Ticker}, NEW j \in Jobs, Begin(a, j)
      PROVE  DueCopies'
    BY <1>20 DEF
      TypeOK, DataTypeOK, ThreadTypeOK, TickTypeOK, DueCopies, Actors, Keys,
      Toggled, Begin, Goto, CreateJob
<1>21. ASSUME NEW a \in Jobs \union {Ticker}, NothingToPop(a)
      PROVE  DueCopies'
    BY <1>21 DEF
      TypeOK, DataTypeOK, ThreadTypeOK, TickTypeOK, DueCopies, Actors, Keys,
      Toggled, NothingToPop, Goto, AfterDispatch
<1>22. ASSUME NEW a \in Jobs \union {Ticker}, Deferred(a)
      PROVE  DueCopies'
    BY <1>22 DEF
      TypeOK, DataTypeOK, ThreadTypeOK, TickTypeOK, DueCopies, Actors, Keys,
      Toggled, Deferred, Goto, AfterDispatch
<1>23. ASSUME NEW a \in Jobs \union {Ticker}, StartFails(a)
      PROVE  DueCopies'
    BY <1>23 DEF
      TypeOK, DataTypeOK, ThreadTypeOK, TickTypeOK, DueCopies, Actors, Keys,
      Toggled, StartFails, Goto, AfterDispatch
<1>24. ASSUME NEW a \in Jobs \union {Ticker}, MarkRead(a)
      PROVE  DueCopies'
    BY <1>24 DEF
      TypeOK, DataTypeOK, ThreadTypeOK, TickTypeOK, DueCopies, Actors, Keys,
      Toggled, MarkRead, Read, Goto
<1>25. ASSUME NEW a \in Jobs \union {Ticker}, MarkWrite(a)
      PROVE  DueCopies'
    BY <1>25 DEF
      TypeOK, DataTypeOK, ThreadTypeOK, TickTypeOK, DueCopies, Actors, Keys,
      Toggled, MarkWrite, Goto, Write, Upsert, SaveFails, Done, AfterDispatch,
      Started
<1>26. ASSUME NEW a \in Jobs \union {Ticker}, EndJob(a)
      PROVE  DueCopies'
    BY <1>26 DEF
      TypeOK, DataTypeOK, ThreadTypeOK, TickTypeOK, DueCopies, Actors, Keys,
      Toggled, EndJob, Goto
<1>27. ASSUME NEW a \in Jobs \union {Ticker}, EndFails(a)
      PROVE  DueCopies'
    BY <1>27 DEF
      TypeOK, DataTypeOK, ThreadTypeOK, TickTypeOK, DueCopies, Actors, Keys,
      Toggled, EndFails, Goto
<1>28. ASSUME NEW a \in Jobs \union {Ticker}, ReleaseSlot(a)
      PROVE  DueCopies'
    BY <1>28 DEF
      TypeOK, DataTypeOK, ThreadTypeOK, TickTypeOK, DueCopies, Actors, Keys,
      Toggled, ReleaseSlot, Goto
<1>29. ASSUME NEW a \in Jobs \union {Ticker}, ReportRead(a)
      PROVE  DueCopies'
    BY <1>29 DEF
      TypeOK, DataTypeOK, ThreadTypeOK, TickTypeOK, DueCopies, Actors, Keys,
      Toggled, ReportRead, Read, Goto
<1>30. ASSUME NEW a \in Jobs \union {Ticker}, ReportWrite(a)
      PROVE  DueCopies'
    BY <1>30 DEF
      TypeOK, DataTypeOK, ThreadTypeOK, TickTypeOK, DueCopies, Actors, Keys,
      Toggled, ReportWrite, Goto, Plan, Upsert, SaveFails, Done, Stranded,
      Ended
<1>31. ASSUME NEW a \in Jobs \union {Ticker}, Reported(a)
      PROVE  DueCopies'
    BY <1>31 DEF
      TypeOK, DataTypeOK, ThreadTypeOK, TickTypeOK, DueCopies, Actors, Keys,
      Toggled, Reported, Goto, Past
<1>32. ASSUME NEW j \in Jobs, ManualStart(j)
      PROVE  DueCopies'
    BY <1>32 DEF
      TypeOK, DataTypeOK, ThreadTypeOK, TickTypeOK, DueCopies, Actors, Keys,
      Toggled, ManualStart, Goto, CreateJob
<1>33. ASSUME NEW s \in Savers, NEW k \in Toggled, ReadSettings(s, k)
      PROVE  DueCopies'
    BY <1>33 DEF
      TypeOK, DataTypeOK, ThreadTypeOK, TickTypeOK, DueCopies, Actors, Keys,
      Toggled, ReadSettings, Goto
<1>34. ASSUME NEW s \in Savers, SaveSettings(s)
      PROVE  DueCopies'
    BY <1>34 DEF
      TypeOK, DataTypeOK, ThreadTypeOK, TickTypeOK, DueCopies, Actors, Keys,
      Toggled, SaveSettings, Goto
<1>35. ASSUME NEW s \in Savers, ResetRead(s)
      PROVE  DueCopies'
    BY <1>35 DEF
      TypeOK, DataTypeOK, ThreadTypeOK, TickTypeOK, DueCopies, Actors, Keys,
      Toggled, ResetRead, Read, Goto
<1>36. ASSUME NEW s \in Savers, ResetWrite(s)
      PROVE  DueCopies'
    BY <1>36 DEF
      TypeOK, DataTypeOK, ThreadTypeOK, TickTypeOK, DueCopies, Actors, Keys,
      Toggled, ResetWrite, Goto, Plan, Upsert, SaveFails, Done, Stranded,
      ResetTo
<1>37. CASE Restart
    BY <1>37 DEF
      TypeOK, DataTypeOK, ThreadTypeOK, TickTypeOK, DueCopies, Actors, Keys,
      Toggled, Restart, Recovers, LastInterrupted, WillWrite, AfterCrash
<1>38. CASE
      \/ (\E k \in Keys : TimePasses(k))
  <2>1. UNCHANGED <<pc, copy, todo, snap>>
    BY <1>38 DEF TimePasses
  <2> QED
    BY <2>1 DEF
      TypeOK, DataTypeOK, ThreadTypeOK, TickTypeOK, DueCopies, Actors, Keys,
      Toggled
<1>39. CASE ListFails
    BY <1>39 DEF
      TypeOK, DataTypeOK, ThreadTypeOK, TickTypeOK, DueCopies, Actors, Keys,
      Toggled, ListFails, Goto
<1>40. CASE MaintenanceFails
    BY <1>40 DEF
      TypeOK, DataTypeOK, ThreadTypeOK, TickTypeOK, DueCopies, Actors, Keys,
      Toggled, MaintenanceFails, Done, Goto
<1>41. CASE NoMaintenance
    BY <1>41 DEF
      TypeOK, DataTypeOK, ThreadTypeOK, TickTypeOK, DueCopies, Actors, Keys,
      Toggled, NoMaintenance, Goto, IsDue
<1>42. ASSUME NEW s \in Savers, SettingsNotSaved(s)
      PROVE  DueCopies'
    BY <1>42 DEF
      TypeOK, DataTypeOK, ThreadTypeOK, TickTypeOK, DueCopies, Actors, Keys,
      Toggled, SettingsNotSaved, Goto
<1> QED
  BY <1>1, <1>2, <1>3, <1>4, <1>5, <1>6, <1>7, <1>8, <1>9, <1>10, <1>11,
  <1>12, <1>13, <1>14, <1>15, <1>16, <1>17, <1>18, <1>19, <1>20, <1>21,
  <1>22, <1>23, <1>24, <1>25, <1>26, <1>27, <1>28, <1>29, <1>30, <1>31,
  <1>32, <1>33, <1>34, <1>35, <1>36, <1>37, <1>38, <1>39, <1>40, <1>41,
  <1>42 DEF
      Next, TickStep, StartStep, EndStep, SettingsStep

\* The only saver of settings has the settings that are saved.
LEMMA SettingsKnownStep ==
  ASSUME TypeOK, SettingsKnown, Next,
         \A s, t \in Savers : s = t
  PROVE  SettingsKnown'
<1>1. CASE TickStart
    BY <1>1 DEF
      TypeOK, DataTypeOK, ThreadTypeOK, SettingsKnown, Actors, Keys, Toggled,
      TickStart, Goto
<1>2. CASE EnsureSchedules
    BY <1>2 DEF
      TypeOK, DataTypeOK, ThreadTypeOK, SettingsKnown, Actors, Keys, Toggled,
      EnsureSchedules, Goto, FirstRow
<1>3. CASE ListRows
    BY <1>3 DEF
      TypeOK, DataTypeOK, ThreadTypeOK, SettingsKnown, Actors, Keys, Toggled,
      ListRows, Goto, IsDue
<1>4. CASE SaveDue
    BY <1>4 DEF
      TypeOK, DataTypeOK, ThreadTypeOK, SettingsKnown, Actors, Keys, Toggled,
      SaveDue, Goto, Write, Upsert, SaveFails, Done
<1>5. CASE TargetsNext
    BY <1>5 DEF
      TypeOK, DataTypeOK, ThreadTypeOK, SettingsKnown, Actors, Keys, Toggled,
      TargetsNext, Goto
<1>6. CASE TargetFetch
    BY <1>6 DEF
      TypeOK, DataTypeOK, ThreadTypeOK, SettingsKnown, Actors, Keys, Toggled,
      TargetFetch, Goto
<1>7. CASE MarkPendingRead
    BY <1>7 DEF
      TypeOK, DataTypeOK, ThreadTypeOK, SettingsKnown, Actors, Keys, Toggled,
      MarkPendingRead, Read, Goto
<1>8. CASE MarkPendingWrite
    BY <1>8 DEF
      TypeOK, DataTypeOK, ThreadTypeOK, SettingsKnown, Actors, Keys, Toggled,
      MarkPendingWrite, Goto, Upsert, SaveFails, Done
<1>9. CASE TickDispatch
    BY <1>9 DEF
      TypeOK, DataTypeOK, ThreadTypeOK, SettingsKnown, Actors, Keys, Toggled,
      TickDispatch, Goto
<1>10. CASE MaintenanceRead
    BY <1>10 DEF
      TypeOK, DataTypeOK, ThreadTypeOK, SettingsKnown, Actors, Keys, Toggled,
      MaintenanceRead, Goto, Read, IsDue
<1>11. CASE MaintenanceBusy
    BY <1>11 DEF
      TypeOK, DataTypeOK, ThreadTypeOK, SettingsKnown, Actors, Keys, Toggled,
      MaintenanceBusy, Goto, Write, Upsert, SaveFails, Done
<1>12. ASSUME NEW k \in Keys, DeferDue(k)
      PROVE  SettingsKnown'
    BY <1>12 DEF
      TypeOK, DataTypeOK, ThreadTypeOK, SettingsKnown, Actors, Keys, Toggled,
      DeferDue, Goto
<1>13. ASSUME NEW k \in Targets, TargetShort(k)
      PROVE  SettingsKnown'
    BY <1>13 DEF
      TypeOK, DataTypeOK, ThreadTypeOK, SettingsKnown, Actors, Keys, Toggled,
      TargetShort, Goto, IsDue
<1>14. ASSUME NEW k \in Targets, TargetCheck(k)
      PROVE  SettingsKnown'
    BY <1>14 DEF
      TypeOK, DataTypeOK, ThreadTypeOK, SettingsKnown, Actors, Keys, Toggled,
      TargetCheck, Goto
<1>15. ASSUME NEW k \in Targets, PostponeTarget(k)
      PROVE  SettingsKnown'
    BY <1>15 DEF
      TypeOK, DataTypeOK, ThreadTypeOK, SettingsKnown, Actors, Keys, Toggled,
      PostponeTarget, Goto, Write, Upsert, SaveFails, Done
<1>16. ASSUME NEW j \in Jobs, MaintenanceBegins(j)
      PROVE  SettingsKnown'
    BY <1>16 DEF
      TypeOK, DataTypeOK, ThreadTypeOK, SettingsKnown, Actors, Keys, Toggled,
      MaintenanceBegins, Goto, CreateJob
<1>17. ASSUME NEW a \in Jobs \union {Ticker}, NEW k \in Keys, Pop(a, k)
      PROVE  SettingsKnown'
    BY <1>17 DEF
      TypeOK, DataTypeOK, ThreadTypeOK, SettingsKnown, Actors, Keys, Toggled,
      Pop, Goto
<1>18. ASSUME NEW a \in Jobs \union {Ticker}, NEW j \in Jobs, Begin(a, j)
      PROVE  SettingsKnown'
    BY <1>18 DEF
      TypeOK, DataTypeOK, ThreadTypeOK, SettingsKnown, Actors, Keys, Toggled,
      Begin, Goto, CreateJob
<1>19. ASSUME NEW a \in Jobs \union {Ticker}, NothingToPop(a)
      PROVE  SettingsKnown'
    BY <1>19 DEF
      TypeOK, DataTypeOK, ThreadTypeOK, SettingsKnown, Actors, Keys, Toggled,
      NothingToPop, Goto, AfterDispatch
<1>20. ASSUME NEW a \in Jobs \union {Ticker}, Deferred(a)
      PROVE  SettingsKnown'
    BY <1>20 DEF
      TypeOK, DataTypeOK, ThreadTypeOK, SettingsKnown, Actors, Keys, Toggled,
      Deferred, Goto, AfterDispatch
<1>21. ASSUME NEW a \in Jobs \union {Ticker}, StartFails(a)
      PROVE  SettingsKnown'
    BY <1>21 DEF
      TypeOK, DataTypeOK, ThreadTypeOK, SettingsKnown, Actors, Keys, Toggled,
      StartFails, Goto, AfterDispatch
<1>22. ASSUME NEW a \in Jobs \union {Ticker}, MarkRead(a)
      PROVE  SettingsKnown'
    BY <1>22 DEF
      TypeOK, DataTypeOK, ThreadTypeOK, SettingsKnown, Actors, Keys, Toggled,
      MarkRead, Read, Goto
<1>23. ASSUME NEW a \in Jobs \union {Ticker}, MarkWrite(a)
      PROVE  SettingsKnown'
    BY <1>23 DEF
      TypeOK, DataTypeOK, ThreadTypeOK, SettingsKnown, Actors, Keys, Toggled,
      MarkWrite, Goto, Write, Upsert, SaveFails, Done, AfterDispatch, Started
<1>24. ASSUME NEW a \in Jobs \union {Ticker}, EndJob(a)
      PROVE  SettingsKnown'
    BY <1>24 DEF
      TypeOK, DataTypeOK, ThreadTypeOK, SettingsKnown, Actors, Keys, Toggled,
      EndJob, Goto
<1>25. ASSUME NEW a \in Jobs \union {Ticker}, EndFails(a)
      PROVE  SettingsKnown'
    BY <1>25 DEF
      TypeOK, DataTypeOK, ThreadTypeOK, SettingsKnown, Actors, Keys, Toggled,
      EndFails, Goto
<1>26. ASSUME NEW a \in Jobs \union {Ticker}, ReleaseSlot(a)
      PROVE  SettingsKnown'
    BY <1>26 DEF
      TypeOK, DataTypeOK, ThreadTypeOK, SettingsKnown, Actors, Keys, Toggled,
      ReleaseSlot, Goto
<1>27. ASSUME NEW a \in Jobs \union {Ticker}, ReportRead(a)
      PROVE  SettingsKnown'
    BY <1>27 DEF
      TypeOK, DataTypeOK, ThreadTypeOK, SettingsKnown, Actors, Keys, Toggled,
      ReportRead, Read, Goto
<1>28. ASSUME NEW a \in Jobs \union {Ticker}, ReportWrite(a)
      PROVE  SettingsKnown'
    BY <1>28 DEF
      TypeOK, DataTypeOK, ThreadTypeOK, SettingsKnown, Actors, Keys, Toggled,
      ReportWrite, Goto, Plan, Upsert, SaveFails, Done, Stranded, Ended
<1>29. ASSUME NEW a \in Jobs \union {Ticker}, Reported(a)
      PROVE  SettingsKnown'
    BY <1>29 DEF
      TypeOK, DataTypeOK, ThreadTypeOK, SettingsKnown, Actors, Keys, Toggled,
      Reported, Goto, Past
<1>30. ASSUME NEW j \in Jobs, ManualStart(j)
      PROVE  SettingsKnown'
    BY <1>30 DEF
      TypeOK, DataTypeOK, ThreadTypeOK, SettingsKnown, Actors, Keys, Toggled,
      ManualStart, Goto, CreateJob
<1>31. ASSUME NEW s \in Savers, NEW k \in Toggled, ReadSettings(s, k)
      PROVE  SettingsKnown'
    BY <1>31 DEF
      TypeOK, DataTypeOK, ThreadTypeOK, SettingsKnown, Actors, Keys, Toggled,
      ReadSettings, Goto
<1>32. ASSUME NEW s \in Savers, SaveSettings(s)
      PROVE  SettingsKnown'
    BY <1>32 DEF
      TypeOK, DataTypeOK, ThreadTypeOK, SettingsKnown, Actors, Keys, Toggled,
      SaveSettings, Goto
<1>33. ASSUME NEW s \in Savers, ResetRead(s)
      PROVE  SettingsKnown'
    BY <1>33 DEF
      TypeOK, DataTypeOK, ThreadTypeOK, SettingsKnown, Actors, Keys, Toggled,
      ResetRead, Read, Goto
<1>34. ASSUME NEW s \in Savers, ResetWrite(s)
      PROVE  SettingsKnown'
    BY <1>34 DEF
      TypeOK, DataTypeOK, ThreadTypeOK, SettingsKnown, Actors, Keys, Toggled,
      ResetWrite, Goto, Plan, Upsert, SaveFails, Done, Stranded, ResetTo
<1>35. CASE Restart
    BY <1>35 DEF
      TypeOK, DataTypeOK, ThreadTypeOK, SettingsKnown, Actors, Keys, Toggled,
      Restart, Recovers, LastInterrupted, WillWrite, AfterCrash
<1>36. CASE
      \/ (\E k \in Keys : PassOver(k))
      \/ (\E k \in Targets : TargetEnough(k))
      \/ (\E k \in Keys : TimePasses(k))
  <2>1. UNCHANGED <<pc, key, view, enabled>>
    BY <1>36 DEF PassOver, TargetEnough, TimePasses
  <2> QED
    BY <2>1 DEF TypeOK, DataTypeOK, ThreadTypeOK, SettingsKnown, Actors, Keys, Toggled
<1>37. CASE ListFails
    BY <1>37 DEF
      TypeOK, DataTypeOK, ThreadTypeOK, SettingsKnown, Actors, Keys, Toggled,
      ListFails, Goto
<1>38. CASE MaintenanceFails
    BY <1>38 DEF
      TypeOK, DataTypeOK, ThreadTypeOK, SettingsKnown, Actors, Keys, Toggled,
      MaintenanceFails, Done, Goto
<1>39. CASE NoMaintenance
    BY <1>39 DEF
      TypeOK, DataTypeOK, ThreadTypeOK, SettingsKnown, Actors, Keys, Toggled,
      NoMaintenance, Goto, IsDue
<1>40. ASSUME NEW s \in Savers, SettingsNotSaved(s)
      PROVE  SettingsKnown'
    BY <1>40 DEF
      TypeOK, DataTypeOK, ThreadTypeOK, SettingsKnown, Actors, Keys, Toggled,
      SettingsNotSaved, Goto
<1> QED
  BY <1>1, <1>2, <1>3, <1>4, <1>5, <1>6, <1>7, <1>8, <1>9, <1>10, <1>11,
  <1>12, <1>13, <1>14, <1>15, <1>16, <1>17, <1>18, <1>19, <1>20, <1>21,
  <1>22, <1>23, <1>24, <1>25, <1>26, <1>27, <1>28, <1>29, <1>30, <1>31,
  <1>32, <1>33, <1>34, <1>35, <1>36, <1>37, <1>38, <1>39, <1>40 DEF
      Next, TickStep, StartStep, EndStep, SettingsStep

\* A goroutine that will write the next time of a schedule gets there, or the
\* schedule is lost: the process crashes, or the write fails.
LEMMA WritersStay ==
  ASSUME TypeOK, Hands, OneOwner, NotLaunched, Keyed, SettingsKnown, Next,
         NEW b \in Actors, NEW k0 \in Keys, WillWrite(b, k0)
  PROVE  WillWrite(b, k0)' \/ k0 \in lost' \/ ~Unplanned(k0)'
<1>1. CASE TickStart
    BY <1>1 DEF
      TypeOK, DataTypeOK, ThreadTypeOK, Hands, OneOwner, NotLaunched, Keyed,
      SettingsKnown, WithRunningJob, WithEndedJob, Ending, Actors, Keys,
      Toggled, WillWrite, Unplanned, TickStart, Goto
<1>2. CASE EnsureSchedules
    BY <1>2 DEF
      TypeOK, DataTypeOK, ThreadTypeOK, Hands, OneOwner, NotLaunched, Keyed,
      SettingsKnown, WithRunningJob, WithEndedJob, Ending, Actors, Keys,
      Toggled, WillWrite, Unplanned, EnsureSchedules, Goto, FirstRow
<1>3. CASE ListRows
    BY <1>3 DEF
      TypeOK, DataTypeOK, ThreadTypeOK, Hands, OneOwner, NotLaunched, Keyed,
      SettingsKnown, WithRunningJob, WithEndedJob, Ending, Actors, Keys,
      Toggled, WillWrite, Unplanned, ListRows, Goto, IsDue
<1>4. CASE SaveDue
    BY <1>4 DEF
      TypeOK, DataTypeOK, ThreadTypeOK, Hands, OneOwner, NotLaunched, Keyed,
      SettingsKnown, WithRunningJob, WithEndedJob, Ending, Actors, Keys,
      Toggled, WillWrite, Unplanned, SaveDue, Goto, Write, Upsert, SaveFails, Done
<1>5. CASE TargetsNext
    BY <1>5 DEF
      TypeOK, DataTypeOK, ThreadTypeOK, Hands, OneOwner, NotLaunched, Keyed,
      SettingsKnown, WithRunningJob, WithEndedJob, Ending, Actors, Keys,
      Toggled, WillWrite, Unplanned, TargetsNext, Goto
<1>6. CASE TargetFetch
    BY <1>6 DEF
      TypeOK, DataTypeOK, ThreadTypeOK, Hands, OneOwner, NotLaunched, Keyed,
      SettingsKnown, WithRunningJob, WithEndedJob, Ending, Actors, Keys,
      Toggled, WillWrite, Unplanned, TargetFetch, Goto
<1>7. CASE MarkPendingRead
    BY <1>7 DEF
      TypeOK, DataTypeOK, ThreadTypeOK, Hands, OneOwner, NotLaunched, Keyed,
      SettingsKnown, WithRunningJob, WithEndedJob, Ending, Actors, Keys,
      Toggled, WillWrite, Unplanned, MarkPendingRead, Read, Goto
<1>8. CASE MarkPendingWrite
    BY <1>8 DEF
      TypeOK, DataTypeOK, ThreadTypeOK, Hands, OneOwner, NotLaunched, Keyed,
      SettingsKnown, WithRunningJob, WithEndedJob, Ending, Actors, Keys,
      Toggled, WillWrite, Unplanned, MarkPendingWrite, Goto, Upsert, SaveFails, Done
<1>9. CASE TickDispatch
    BY <1>9 DEF
      TypeOK, DataTypeOK, ThreadTypeOK, Hands, OneOwner, NotLaunched, Keyed,
      SettingsKnown, WithRunningJob, WithEndedJob, Ending, Actors, Keys,
      Toggled, WillWrite, Unplanned, TickDispatch, Goto
<1>10. CASE MaintenanceRead
    BY <1>10 DEF
      TypeOK, DataTypeOK, ThreadTypeOK, Hands, OneOwner, NotLaunched, Keyed,
      SettingsKnown, WithRunningJob, WithEndedJob, Ending, Actors, Keys,
      Toggled, WillWrite, Unplanned, MaintenanceRead, Goto, Read, IsDue
<1>11. CASE MaintenanceBusy
    BY <1>11 DEF
      TypeOK, DataTypeOK, ThreadTypeOK, Hands, OneOwner, NotLaunched, Keyed,
      SettingsKnown, WithRunningJob, WithEndedJob, Ending, Actors, Keys,
      Toggled, WillWrite, Unplanned, MaintenanceBusy, Goto, Write, Upsert, SaveFails, Done
<1>12. ASSUME NEW k \in Keys, DeferDue(k)
      PROVE  WillWrite(b, k0)' \/ k0 \in lost' \/ ~Unplanned(k0)'
    BY <1>12 DEF
      TypeOK, DataTypeOK, ThreadTypeOK, Hands, OneOwner, NotLaunched, Keyed,
      SettingsKnown, WithRunningJob, WithEndedJob, Ending, Actors, Keys,
      Toggled, WillWrite, Unplanned, DeferDue, Goto
<1>13. ASSUME NEW k \in Targets, TargetShort(k)
      PROVE  WillWrite(b, k0)' \/ k0 \in lost' \/ ~Unplanned(k0)'
    BY <1>13 DEF
      TypeOK, DataTypeOK, ThreadTypeOK, Hands, OneOwner, NotLaunched, Keyed,
      SettingsKnown, WithRunningJob, WithEndedJob, Ending, Actors, Keys,
      Toggled, WillWrite, Unplanned, TargetShort, Goto, IsDue
<1>14. ASSUME NEW k \in Targets, TargetCheck(k)
      PROVE  WillWrite(b, k0)' \/ k0 \in lost' \/ ~Unplanned(k0)'
    BY <1>14 DEF
      TypeOK, DataTypeOK, ThreadTypeOK, Hands, OneOwner, NotLaunched, Keyed,
      SettingsKnown, WithRunningJob, WithEndedJob, Ending, Actors, Keys,
      Toggled, WillWrite, Unplanned, TargetCheck, Goto
<1>15. ASSUME NEW k \in Targets, PostponeTarget(k)
      PROVE  WillWrite(b, k0)' \/ k0 \in lost' \/ ~Unplanned(k0)'
    BY <1>15 DEF
      TypeOK, DataTypeOK, ThreadTypeOK, Hands, OneOwner, NotLaunched, Keyed,
      SettingsKnown, WithRunningJob, WithEndedJob, Ending, Actors, Keys,
      Toggled, WillWrite, Unplanned, PostponeTarget, Goto, Write, Upsert, SaveFails, Done
<1>16. ASSUME NEW j \in Jobs, MaintenanceBegins(j)
      PROVE  WillWrite(b, k0)' \/ k0 \in lost' \/ ~Unplanned(k0)'
    BY <1>16 DEF
      TypeOK, DataTypeOK, ThreadTypeOK, Hands, OneOwner, NotLaunched, Keyed,
      SettingsKnown, WithRunningJob, WithEndedJob, Ending, Actors, Keys,
      Toggled, WillWrite, Unplanned, MaintenanceBegins, Goto, CreateJob
<1>17. ASSUME NEW a \in Jobs \union {Ticker}, NEW k \in Keys, Pop(a, k)
      PROVE  WillWrite(b, k0)' \/ k0 \in lost' \/ ~Unplanned(k0)'
    BY <1>17 DEF
      TypeOK, DataTypeOK, ThreadTypeOK, Hands, OneOwner, NotLaunched, Keyed,
      SettingsKnown, WithRunningJob, WithEndedJob, Ending, Actors, Keys,
      Toggled, WillWrite, Unplanned, Pop, Goto
<1>18. ASSUME NEW a \in Jobs \union {Ticker}, NEW j \in Jobs, Begin(a, j)
      PROVE  WillWrite(b, k0)' \/ k0 \in lost' \/ ~Unplanned(k0)'
    BY <1>18 DEF
      TypeOK, DataTypeOK, ThreadTypeOK, Hands, OneOwner, NotLaunched, Keyed,
      SettingsKnown, WithRunningJob, WithEndedJob, Ending, Actors, Keys,
      Toggled, WillWrite, Unplanned, Begin, Goto, CreateJob
<1>19. ASSUME NEW a \in Jobs \union {Ticker}, NothingToPop(a)
      PROVE  WillWrite(b, k0)' \/ k0 \in lost' \/ ~Unplanned(k0)'
    BY <1>19 DEF
      TypeOK, DataTypeOK, ThreadTypeOK, Hands, OneOwner, NotLaunched, Keyed,
      SettingsKnown, WithRunningJob, WithEndedJob, Ending, Actors, Keys,
      Toggled, WillWrite, Unplanned, NothingToPop, Goto, AfterDispatch
<1>20. ASSUME NEW a \in Jobs \union {Ticker}, Deferred(a)
      PROVE  WillWrite(b, k0)' \/ k0 \in lost' \/ ~Unplanned(k0)'
    BY <1>20 DEF
      TypeOK, DataTypeOK, ThreadTypeOK, Hands, OneOwner, NotLaunched, Keyed,
      SettingsKnown, WithRunningJob, WithEndedJob, Ending, Actors, Keys,
      Toggled, WillWrite, Unplanned, Deferred, Goto, AfterDispatch
<1>21. ASSUME NEW a \in Jobs \union {Ticker}, StartFails(a)
      PROVE  WillWrite(b, k0)' \/ k0 \in lost' \/ ~Unplanned(k0)'
    BY <1>21 DEF
      TypeOK, DataTypeOK, ThreadTypeOK, Hands, OneOwner, NotLaunched, Keyed,
      SettingsKnown, WithRunningJob, WithEndedJob, Ending, Actors, Keys,
      Toggled, WillWrite, Unplanned, StartFails, Goto, AfterDispatch
<1>22. ASSUME NEW a \in Jobs \union {Ticker}, MarkRead(a)
      PROVE  WillWrite(b, k0)' \/ k0 \in lost' \/ ~Unplanned(k0)'
    BY <1>22 DEF
      TypeOK, DataTypeOK, ThreadTypeOK, Hands, OneOwner, NotLaunched, Keyed,
      SettingsKnown, WithRunningJob, WithEndedJob, Ending, Actors, Keys,
      Toggled, WillWrite, Unplanned, MarkRead, Read, Goto
<1>23. ASSUME NEW a \in Jobs \union {Ticker}, MarkWrite(a)
      PROVE  WillWrite(b, k0)' \/ k0 \in lost' \/ ~Unplanned(k0)'
    BY <1>23 DEF
      TypeOK, DataTypeOK, ThreadTypeOK, Hands, OneOwner, NotLaunched, Keyed,
      SettingsKnown, WithRunningJob, WithEndedJob, Ending, Actors, Keys,
      Toggled, WillWrite, Unplanned, MarkWrite, Goto, Write, Upsert, SaveFails, Done,
      AfterDispatch, Started
<1>24. ASSUME NEW a \in Jobs \union {Ticker}, EndJob(a)
      PROVE  WillWrite(b, k0)' \/ k0 \in lost' \/ ~Unplanned(k0)'
    BY <1>24 DEF
      TypeOK, DataTypeOK, ThreadTypeOK, Hands, OneOwner, NotLaunched, Keyed,
      SettingsKnown, WithRunningJob, WithEndedJob, Ending, Actors, Keys,
      Toggled, WillWrite, Unplanned, EndJob, Goto
<1>25. ASSUME NEW a \in Jobs \union {Ticker}, EndFails(a)
      PROVE  WillWrite(b, k0)' \/ k0 \in lost' \/ ~Unplanned(k0)'
    BY <1>25 DEF
      TypeOK, DataTypeOK, ThreadTypeOK, Hands, OneOwner, NotLaunched, Keyed,
      SettingsKnown, WithRunningJob, WithEndedJob, Ending, Actors, Keys,
      Toggled, WillWrite, Unplanned, EndFails, Goto
<1>26. ASSUME NEW a \in Jobs \union {Ticker}, ReleaseSlot(a)
      PROVE  WillWrite(b, k0)' \/ k0 \in lost' \/ ~Unplanned(k0)'
    BY <1>26 DEF
      TypeOK, DataTypeOK, ThreadTypeOK, Hands, OneOwner, NotLaunched, Keyed,
      SettingsKnown, WithRunningJob, WithEndedJob, Ending, Actors, Keys,
      Toggled, WillWrite, Unplanned, ReleaseSlot, Goto
<1>27. ASSUME NEW a \in Jobs \union {Ticker}, ReportRead(a)
      PROVE  WillWrite(b, k0)' \/ k0 \in lost' \/ ~Unplanned(k0)'
    BY <1>27 DEF
      TypeOK, DataTypeOK, ThreadTypeOK, Hands, OneOwner, NotLaunched, Keyed,
      SettingsKnown, WithRunningJob, WithEndedJob, Ending, Actors, Keys,
      Toggled, WillWrite, Unplanned, ReportRead, Read, Goto
<1>28. ASSUME NEW a \in Jobs \union {Ticker}, ReportWrite(a)
      PROVE  WillWrite(b, k0)' \/ k0 \in lost' \/ ~Unplanned(k0)'
  <2>1. cur[a] \in Jobs /\ key[a] = task[cur[a]] /\ pc[a] = "reporting"
    BY <1>28 DEF Hands, Keyed, WithEndedJob, Ending, Actors, ReportWrite
  <2>2. CASE b = a
    <3>1. k0 = key[a]
      BY <2>1, <2>2 DEF WillWrite
    <3>2. CASE Upsert(key[a], Ended(copy[a], cur[a]))
      <4>1. Ended(copy[a], cur[a]) \in Rows /\ Ended(copy[a], cur[a]).next = "later"
        BY <2>1, RowFields DEF TypeOK, ThreadTypeOK, Actors
      <4>2. [Ended(copy[a], cur[a]) EXCEPT !.found = TRUE].next = "later"
        BY <4>1 DEF Rows
      <4> QED
        BY <3>1, <3>2, <4>2 DEF TypeOK, DataTypeOK, Unplanned, Upsert
    <3>3. CASE row' = row /\ lost' = Stranded(key[a])
      BY <3>1, <3>3 DEF Stranded, Unplanned
    <3> QED
      BY <1>28, <3>2, <3>3 DEF ReportWrite, Plan, SaveFails
  <2>3. CASE b # a
    BY <1>28, <2>3 DEF TypeOK, ThreadTypeOK, WillWrite, Ending, Goto, ReportWrite, Plan, Done
  <2> QED
    BY <2>2, <2>3
<1>29. ASSUME NEW a \in Jobs \union {Ticker}, Reported(a)
      PROVE  WillWrite(b, k0)' \/ k0 \in lost' \/ ~Unplanned(k0)'
    BY <1>29 DEF
      TypeOK, DataTypeOK, ThreadTypeOK, Hands, OneOwner, NotLaunched, Keyed,
      SettingsKnown, WithRunningJob, WithEndedJob, Ending, Actors, Keys,
      Toggled, WillWrite, Unplanned, Reported, Goto, Past
<1>30. ASSUME NEW j \in Jobs, ManualStart(j)
      PROVE  WillWrite(b, k0)' \/ k0 \in lost' \/ ~Unplanned(k0)'
    BY <1>30 DEF
      TypeOK, DataTypeOK, ThreadTypeOK, Hands, OneOwner, NotLaunched, Keyed,
      SettingsKnown, WithRunningJob, WithEndedJob, Ending, Actors, Keys,
      Toggled, WillWrite, Unplanned, ManualStart, Goto, CreateJob
<1>31. ASSUME NEW s \in Savers, NEW k \in Toggled, ReadSettings(s, k)
      PROVE  WillWrite(b, k0)' \/ k0 \in lost' \/ ~Unplanned(k0)'
    BY <1>31 DEF
      TypeOK, DataTypeOK, ThreadTypeOK, Hands, OneOwner, NotLaunched, Keyed,
      SettingsKnown, WithRunningJob, WithEndedJob, Ending, Actors, Keys,
      Toggled, WillWrite, Unplanned, ReadSettings, Goto
<1>32. ASSUME NEW s \in Savers, SaveSettings(s)
      PROVE  WillWrite(b, k0)' \/ k0 \in lost' \/ ~Unplanned(k0)'
    BY <1>32 DEF
      TypeOK, DataTypeOK, ThreadTypeOK, Hands, OneOwner, NotLaunched, Keyed,
      SettingsKnown, WithRunningJob, WithEndedJob, Ending, Actors, Keys,
      Toggled, WillWrite, Unplanned, SaveSettings, Goto
<1>33. ASSUME NEW s \in Savers, ResetRead(s)
      PROVE  WillWrite(b, k0)' \/ k0 \in lost' \/ ~Unplanned(k0)'
    BY <1>33 DEF
      TypeOK, DataTypeOK, ThreadTypeOK, Hands, OneOwner, NotLaunched, Keyed,
      SettingsKnown, WithRunningJob, WithEndedJob, Ending, Actors, Keys,
      Toggled, WillWrite, Unplanned, ResetRead, Read, Goto
<1>34. ASSUME NEW s \in Savers, ResetWrite(s)
      PROVE  WillWrite(b, k0)' \/ k0 \in lost' \/ ~Unplanned(k0)'
  <2>1. key[s] \in Toggled /\ pc[s] = "reset"
    BY <1>34 DEF SettingsKnown, ResetWrite
  <2> DEFINE r == [copy[s] EXCEPT !.next = ResetTo(key[s], key[s] \in view[s])]
  <2>2. CASE b = s
    <3>1. k0 = key[s] /\ k0 \in view[s]
      BY <2>1, <2>2 DEF WillWrite, Ending
    <3>2. CASE Upsert(key[s], r)
      <4>1. copy[s] \in Rows
        BY DEF TypeOK, ThreadTypeOK, Actors
      <4>2. [r EXCEPT !.found = TRUE].next # "none"
        BY <3>1, <4>1 DEF ResetTo, Rows
      <4> QED
        BY <3>1, <3>2, <4>2 DEF TypeOK, DataTypeOK, Unplanned, Upsert
    <3>3. CASE row' = row /\ lost' = Stranded(key[s])
      BY <3>1, <3>3 DEF Stranded, Unplanned
    <3> QED
      BY <1>34, <3>2, <3>3 DEF ResetWrite, Plan, SaveFails
  <2>3. CASE b # s
    BY <1>34, <2>3 DEF TypeOK, ThreadTypeOK, WillWrite, Ending, Goto, ResetWrite, Plan, Done
  <2> QED
    BY <2>2, <2>3
<1>35. ASSUME NEW k \in Keys, TimePasses(k)
      PROVE  WillWrite(b, k0)' \/ k0 \in lost' \/ ~Unplanned(k0)'
    BY <1>35 DEF
      TypeOK, DataTypeOK, ThreadTypeOK, Hands, OneOwner, NotLaunched, Keyed,
      SettingsKnown, WithRunningJob, WithEndedJob, Ending, Actors, Keys,
      Toggled, WillWrite, Unplanned, TimePasses
<1>36. CASE Restart
    BY <1>36 DEF
      TypeOK, DataTypeOK, ThreadTypeOK, Hands, OneOwner, NotLaunched, Keyed,
      SettingsKnown, WithRunningJob, WithEndedJob, Ending, Actors, Keys,
      Toggled, WillWrite, Unplanned, Restart, Recovers, LastInterrupted, AfterCrash
<1>37. CASE
      \/ (\E k \in Keys : PassOver(k))
      \/ (\E k \in Targets : TargetEnough(k))
  <2>1. UNCHANGED <<row, lost, task, pc, cur, key, view>>
    BY <1>37 DEF PassOver, TargetEnough
  <2> QED
    BY <2>1 DEF
      TypeOK, DataTypeOK, ThreadTypeOK, Hands, OneOwner, NotLaunched, Keyed,
      SettingsKnown, WithRunningJob, WithEndedJob, Ending, Actors, Keys,
      Toggled, WillWrite, Unplanned
<1>38. CASE ListFails
    BY <1>38 DEF
      TypeOK, DataTypeOK, ThreadTypeOK, Hands, OneOwner, NotLaunched, Keyed,
      SettingsKnown, WithRunningJob, WithEndedJob, Ending, Actors, Keys,
      Toggled, WillWrite, Unplanned, ListFails, Goto
<1>39. CASE MaintenanceFails
    BY <1>39 DEF
      TypeOK, DataTypeOK, ThreadTypeOK, Hands, OneOwner, NotLaunched, Keyed,
      SettingsKnown, WithRunningJob, WithEndedJob, Ending, Actors, Keys,
      Toggled, WillWrite, Unplanned, MaintenanceFails, Done, Goto
<1>40. CASE NoMaintenance
    BY <1>40 DEF
      TypeOK, DataTypeOK, ThreadTypeOK, Hands, OneOwner, NotLaunched, Keyed,
      SettingsKnown, WithRunningJob, WithEndedJob, Ending, Actors, Keys,
      Toggled, WillWrite, Unplanned, NoMaintenance, Goto, IsDue
<1>41. ASSUME NEW s \in Savers, SettingsNotSaved(s)
      PROVE  WillWrite(b, k0)' \/ k0 \in lost' \/ ~Unplanned(k0)'
    BY <1>41 DEF
      TypeOK, DataTypeOK, ThreadTypeOK, Hands, OneOwner, NotLaunched, Keyed,
      SettingsKnown, WithRunningJob, WithEndedJob, Ending, Actors, Keys,
      Toggled, WillWrite, Unplanned, SettingsNotSaved, Goto
<1> QED
  BY <1>1, <1>2, <1>3, <1>4, <1>5, <1>6, <1>7, <1>8, <1>9, <1>10, <1>11,
  <1>12, <1>13, <1>14, <1>15, <1>16, <1>17, <1>18, <1>19, <1>20, <1>21,
  <1>22, <1>23, <1>24, <1>25, <1>26, <1>27, <1>28, <1>29, <1>30, <1>31,
  <1>32, <1>33, <1>34, <1>35, <1>36, <1>37, <1>38, <1>39, <1>40, <1>41 DEF
      Next, TickStep, StartStep, EndStep, SettingsStep

\* The last job that a row without a next time names.
LastStays(k) ==
  Unplanned(k) /\ (\/ row'[k].last = row[k].last
                   \/ Restart
                   \/ \E a \in Jobs \union {Ticker} : Reported(a) /\ row[k].last = cur[a])

\* Whoever takes the next time of a schedule away, or gives a row without one
\* another last job, leaves that job behind, overwrites the row in markPending,
\* or writes what a switched off schedule should have.
LEMMA PlanTaken ==
  ASSUME TypeOK, Hands, OneOwner, NotLaunched, Keyed, DueCopies, SettingsKnown, Next,
         NEW k0 \in Keys, Unplanned(k0)'
  PROVE  LastStays(k0) \/ k0 \in lost' \/ KnownJob(k0)' \/ k0 \notin enabled' \union Maintenance
<1>1. CASE EnsureSchedules
    BY <1>1 DEF TypeOK, DataTypeOK, Rows, NoRow, LastStays, Unplanned, EnsureSchedules, FirstRow
<1>2. CASE SaveDue
  <2>1. copy[Ticker] \in Rows /\ copy[Ticker].next # "none"
    BY <1>2 DEF TypeOK, ThreadTypeOK, Actors, DueCopies, SaveDue
  <2>2. row'[k0] = row[k0] \/ row'[k0].next # "none"
    BY <1>2, <2>1, Saved DEF SaveDue, Write, SaveFails
  <2> QED
    BY <2>2 DEF LastStays, Unplanned
<1>3. CASE MarkPendingWrite
  <2>1. copy[Ticker] \in Rows
    BY DEF TypeOK, ThreadTypeOK, Actors
  <2>2. CASE row' # row
    <3>1. /\ Upsert(key[Ticker], copy[Ticker])
          /\ copy[Ticker].next = "none" => key[Ticker] \in lost'
      BY <1>3, <2>2 DEF MarkPendingWrite, SaveFails
    <3>2. row'[k0] = row[k0] \/ (k0 = key[Ticker] /\ row'[k0].next = copy[Ticker].next)
      BY <2>1, <3>1, Saved
    <3> QED
      BY <3>1, <3>2 DEF LastStays, Unplanned
  <2> QED
    BY <2>2 DEF LastStays, Unplanned
<1>4. CASE MaintenanceBusy
  <2>1. copy[Ticker] \in Rows /\ copy[Ticker].next # "none"
    BY <1>4 DEF TypeOK, ThreadTypeOK, Actors, DueCopies, MaintenanceBusy
  <2>2. row'[k0] = row[k0] \/ row'[k0].next # "none"
    BY <1>4, <2>1, Saved DEF MaintenanceBusy, Write, SaveFails
  <2> QED
    BY <2>2 DEF LastStays, Unplanned
<1>5. ASSUME NEW k \in Targets, PostponeTarget(k)
      PROVE  LastStays(k0) \/ k0 \in lost' \/ KnownJob(k0)' \/ k0 \notin enabled' \union Maintenance
  <2> DEFINE r == [snap[k] EXCEPT !.next = "later"]
  <2>1. r \in Rows /\ r.next # "none"
    BY RowTypes, RowFields DEF TypeOK, TickTypeOK, Keys
  <2>2. Upsert(k, r) \/ row' = row
    BY <1>5 DEF PostponeTarget, Write, SaveFails
  <2> HIDE DEF r
  <2>3. row'[k0] = row[k0] \/ row'[k0].next # "none"
    BY <2>1, <2>2, Saved
  <2> QED
    BY <2>3 DEF LastStays, Unplanned
<1>6. ASSUME NEW a \in Jobs \union {Ticker}, MarkWrite(a)
      PROVE  LastStays(k0) \/ k0 \in lost' \/ KnownJob(k0)' \/ k0 \notin enabled' \union Maintenance
  <2> DEFINE r == Started(copy[a], cur[a])
  <2>1. cur[a] \in Jobs /\ task[cur[a]] = key[a]
    BY <1>6 DEF Hands, Keyed, WithRunningJob, Actors, MarkWrite
  <2>2. r \in Rows /\ r.last = cur[a]
    BY <2>1, RowFields DEF TypeOK, ThreadTypeOK, Actors
  <2>3. row'[k0] = row[k0] \/ (k0 = key[a] /\ row'[k0].last = cur[a])
    BY <1>6, <2>2, Saved DEF MarkWrite, Write, SaveFails
  <2>4. CASE k0 = key[a] /\ row'[k0].last = cur[a]
    <3>1. PICK b \in Actors : pc'[b] = "run" /\ cur'[b] = cur[a]
      BY <1>6, <2>1 DEF TypeOK, ThreadTypeOK, Actors, Goto, MarkWrite
    <3>2. task' = task
      BY <1>6 DEF MarkWrite
    <3> QED
      BY <2>1, <2>4, <3>1, <3>2 DEF KnownJob, WithRunningJob
  <2> QED
    BY <2>3, <2>4 DEF LastStays, Unplanned
<1>7. ASSUME NEW a \in Jobs \union {Ticker}, ReportWrite(a)
      PROVE  LastStays(k0) \/ k0 \in lost' \/ KnownJob(k0)' \/ k0 \notin enabled' \union Maintenance
  <2> DEFINE r == Ended(copy[a], cur[a])
  <2>1. cur[a] \in Jobs
    BY <1>7 DEF Hands, WithEndedJob, Ending, Actors, ReportWrite
  <2>2. r \in Rows /\ r.next # "none"
    BY <2>1, RowFields DEF TypeOK, ThreadTypeOK, Actors
  <2>3. row'[k0] = row[k0] \/ row'[k0].next # "none"
    BY <1>7, <2>2, Saved DEF ReportWrite, Plan, SaveFails
  <2> QED
    BY <2>3 DEF LastStays, Unplanned
<1>8. ASSUME NEW a \in Jobs \union {Ticker}, Reported(a)
      PROVE  LastStays(k0) \/ k0 \in lost' \/ KnownJob(k0)' \/ k0 \notin enabled' \union Maintenance
  <2>1. row'[k0] = Past(row[k0], cur[a], OldJob)
    BY <1>8 DEF TypeOK, DataTypeOK, Reported
  <2>2. CASE row[k0].last = cur[a]
    <3>1. Unplanned(k0)
      BY <2>1 DEF TypeOK, DataTypeOK, Rows, Unplanned, Past
    <3> QED
      BY <1>8, <2>2, <3>1 DEF LastStays
  <2>3. CASE row[k0].last # cur[a]
    BY <2>1, <2>3 DEF LastStays, Unplanned, Past
  <2> QED
    BY <2>2, <2>3
<1>9. ASSUME NEW s \in Savers, ResetWrite(s)
      PROVE  LastStays(k0) \/ k0 \in lost' \/ KnownJob(k0)' \/ k0 \notin enabled' \union Maintenance
  <2> DEFINE r == [copy[s] EXCEPT !.next = ResetTo(key[s], key[s] \in view[s])]
  <2>1. key[s] \in Toggled /\ view[s] = enabled /\ enabled' = enabled /\ key[s] \notin Maintenance
    BY <1>9, KeyAssumption DEF SettingsKnown, ResetWrite
  <2>2. copy[s] \in Rows /\ ResetTo(key[s], key[s] \in view[s]) \in {"none", "later", "due"}
    BY DEF TypeOK, ThreadTypeOK, Actors, ResetTo
  <2>3. r \in Rows /\ r.next = ResetTo(key[s], key[s] \in view[s])
    BY <2>2 DEF Rows
  <2>4. Upsert(key[s], r) \/ row' = row
    BY <1>9 DEF ResetWrite, Plan, SaveFails
  <2> HIDE DEF r
  <2>5. \/ row'[k0] = row[k0]
        \/ k0 = key[s] /\ row'[k0].next = ResetTo(k0, k0 \in enabled)
    BY <2>1, <2>3, <2>4, Saved
  <2> QED
    BY <2>1, <2>5 DEF LastStays, Unplanned, ResetTo
<1>10. ASSUME NEW k \in Keys, TimePasses(k)
      PROVE  LastStays(k0) \/ k0 \in lost' \/ KnownJob(k0)' \/ k0 \notin enabled' \union Maintenance
    BY <1>10 DEF
      TypeOK, DataTypeOK, ThreadTypeOK, Hands, OneOwner, NotLaunched, Keyed,
      SettingsKnown, WithRunningJob, WithEndedJob, Ending, Actors, Keys,
      Toggled, DueCopies, KnownJob, LastStays, Unplanned, TimePasses
<1>11. CASE Restart
  <2>1. row'[k0].next = "due" \/ row'[k0] = AfterCrash(k0)
    BY <1>11 DEF Restart
  <2>2. AfterCrash(k0).next = row[k0].next /\ AfterCrash(k0).found = row[k0].found
    BY DEF TypeOK, DataTypeOK, Rows, AfterCrash
  <2> QED
    BY <1>11, <2>1, <2>2 DEF LastStays, Unplanned
<1>12. CASE
      \/ TickStart
      \/ ListRows
      \/ TargetsNext
      \/ TargetFetch
      \/ MarkPendingRead
      \/ TickDispatch
      \/ MaintenanceFails
      \/ ListFails
      \/ MaintenanceRead
      \/ NoMaintenance
      \/ (\E k \in Keys : PassOver(k))
      \/ (\E k \in Keys : DeferDue(k))
      \/ (\E k \in Targets : TargetEnough(k))
      \/ (\E k \in Targets : TargetShort(k))
      \/ (\E k \in Targets : TargetCheck(k))
      \/ (\E j \in Jobs : MaintenanceBegins(j))
      \/ (\E a \in Jobs \union {Ticker}, k \in Keys : Pop(a, k))
      \/ (\E a \in Jobs \union {Ticker}, j \in Jobs : Begin(a, j))
      \/ (\E a \in Jobs \union {Ticker} : NothingToPop(a))
      \/ (\E a \in Jobs \union {Ticker} : Deferred(a))
      \/ (\E a \in Jobs \union {Ticker} : StartFails(a))
      \/ (\E a \in Jobs \union {Ticker} : MarkRead(a))
      \/ (\E a \in Jobs \union {Ticker} : EndJob(a))
      \/ (\E a \in Jobs \union {Ticker} : EndFails(a))
      \/ (\E a \in Jobs \union {Ticker} : ReleaseSlot(a))
      \/ (\E a \in Jobs \union {Ticker} : ReportRead(a))
      \/ (\E j \in Jobs : ManualStart(j))
      \/ (\E s \in Savers, k \in Toggled : ReadSettings(s, k))
      \/ (\E s \in Savers : SaveSettings(s))
      \/ (\E s \in Savers : ResetRead(s))
      \/ (\E s \in Savers : SettingsNotSaved(s))
  <2>1. UNCHANGED <<row>>
    BY <1>12 DEF
      TickStart, ListRows, TargetsNext, TargetFetch, MarkPendingRead,
      TickDispatch, MaintenanceFails, Done, ListFails, MaintenanceRead, NoMaintenance, PassOver, DeferDue, TargetEnough,
      TargetShort, TargetCheck, MaintenanceBegins, Pop, Begin, NothingToPop,
      Deferred, StartFails, MarkRead, EndJob, EndFails, ReleaseSlot,
      ReportRead, ManualStart, ReadSettings, SaveSettings, ResetRead, SettingsNotSaved, Goto,
      Read, CreateJob
  <2> QED
    BY <2>1 DEF
      TypeOK, DataTypeOK, ThreadTypeOK, Hands, OneOwner, NotLaunched, Keyed,
      SettingsKnown, WithRunningJob, WithEndedJob, Ending, Actors, Keys,
      Toggled, DueCopies, KnownJob, LastStays, Unplanned
<1> QED
  BY <1>1, <1>2, <1>3, <1>4, <1>5, <1>6, <1>7, <1>8, <1>9, <1>10, <1>11,
  <1>12 DEF
      Next, TickStep, StartStep, EndStep, SettingsStep

\* A goroutine that starts or runs a job keeps it in hand, or hands it on, until
\* the job ends, fails to end, or the process crashes.
LEMMA JobInHand ==
  ASSUME TypeOK, Hands, OneOwner, NotLaunched, Next,
         NEW b \in Actors, pc[b] \in WithRunningJob
  PROVE  \/ /\ task'[cur[b]] = task[cur[b]]
            /\ \E c \in Actors : pc'[c] \in WithRunningJob /\ cur'[c] = cur[b]
         \/ EndJob(b) \/ EndFails(b) \/ Restart
<1> USE DEF WithRunningJob
<1>0. cur[b] \in Jobs /\ status[cur[b]] = "running"
  BY DEF Hands
<1>1. CASE /\ \A c \in Actors : pc[c] \in WithRunningJob => pc'[c] = pc[c]
           /\ UNCHANGED <<cur, task>>
  BY <1>0, <1>1
<1>2. ASSUME NEW a \in Actors, NEW j \in Jobs, NEW k, CreateJob(a, j, k),
             pc[a] \notin WithRunningJob, \E label : Goto(a, label)
      PROVE  task'[cur[b]] = task[cur[b]] /\ pc'[b] = pc[b] /\ cur'[b] = cur[b]
  BY <1>0, <1>2 DEF TypeOK, DataTypeOK, ThreadTypeOK, CreateJob, Goto
<1>3. ASSUME NEW a \in Jobs \union {Ticker}, MarkWrite(a)
      PROVE  /\ task'[cur[b]] = task[cur[b]]
             /\ \E c \in Actors : pc'[c] \in WithRunningJob /\ cur'[c] = cur[b]
  <2>1. task' = task /\ pc[a] = "mark" /\ a \in Actors
    BY <1>3 DEF MarkWrite, Actors
  <2>2. CASE a = b
    BY <1>0, <1>3, <2>1, <2>2 DEF TypeOK, ThreadTypeOK, Actors, Goto, MarkWrite
  <2>3. CASE a # b
    <3>1. cur[a] \in Jobs /\ cur[a] # cur[b]
      BY <1>0, <2>1, <2>3 DEF Hands, OneOwner
    <3>2. cur[a] # b
      BY <2>1, <2>3 DEF NotLaunched
    <3> QED
      BY <1>3, <2>1, <2>3, <3>1, <3>2 DEF TypeOK, ThreadTypeOK, Actors, Goto, MarkWrite
  <2> QED
    BY <2>2, <2>3
<1>4. ASSUME NEW a \in Jobs \union {Ticker}, MarkRead(a)
      PROVE  /\ task'[cur[b]] = task[cur[b]]
             /\ \E c \in Actors : pc'[c] \in WithRunningJob /\ cur'[c] = cur[b]
  BY <1>4 DEF TypeOK, ThreadTypeOK, Goto, Read, MarkRead
<1>5. ASSUME NEW a \in Jobs \union {Ticker}, EndJob(a) \/ EndFails(a), a # b
      PROVE  task'[cur[b]] = task[cur[b]] /\ pc'[b] = pc[b] /\ cur'[b] = cur[b]
  BY <1>5 DEF TypeOK, ThreadTypeOK, Goto, EndJob, EndFails
<1>6. ASSUME NEW a \in Jobs \union {Ticker}, Reported(a)
      PROVE  task'[cur[b]] = task[cur[b]] /\ pc'[b] = pc[b] /\ cur'[b] = cur[b]
  <2>1. a # b /\ cur[a] # cur[b]
    BY <1>0, <1>6 DEF Hands, OneOwner, WithEndedJob, Ending, Actors, Reported
  <2> QED
    BY <1>6, <2>1, <1>0 DEF TypeOK, DataTypeOK, ThreadTypeOK, Goto, Reported
<1>7. CASE TickStep
  <2>1. ASSUME NEW j \in Jobs, MaintenanceBegins(j)
        PROVE  CreateJob(Ticker, j, key[Ticker]) /\ pc[Ticker] \notin WithRunningJob
               /\ Goto(Ticker, "created")
    BY <2>1 DEF MaintenanceBegins
  <2>2. CASE \A j \in Jobs : ~MaintenanceBegins(j)
    <3>1. UNCHANGED <<cur, task>>
      BY <1>7, <2>2 DEF
        TickStep, TickStart, EnsureSchedules, ListRows, ListFails, SaveDue, TargetsNext,
        TargetFetch, MarkPendingRead, MarkPendingWrite, TickDispatch, MaintenanceRead,
        NoMaintenance, MaintenanceBusy, MaintenanceFails, PassOver, DeferDue,
        TargetEnough, TargetShort, TargetCheck, PostponeTarget
    <3>2. pc' = pc \/ (pc[Ticker] \notin WithRunningJob /\ \E label : Goto(Ticker, label))
      BY <1>7, <2>2 DEF
        TickStep, TickStart, EnsureSchedules, ListRows, ListFails, SaveDue, TargetsNext,
        TargetFetch, MarkPendingRead, MarkPendingWrite, TickDispatch, MaintenanceRead,
        NoMaintenance, MaintenanceBusy, MaintenanceFails, PassOver, DeferDue,
        TargetEnough, TargetShort, TargetCheck, PostponeTarget, Read
    <3> QED
      BY <1>1, <3>1, <3>2 DEF TypeOK, ThreadTypeOK, Goto
  <2> QED
    BY <1>2, <2>1, <2>2 DEF Actors
<1>8. ASSUME NEW a \in Jobs \union {Ticker}, NEW j \in Jobs, Begin(a, j)
      PROVE  task'[cur[b]] = task[cur[b]] /\ pc'[b] = pc[b] /\ cur'[b] = cur[b]
  BY <1>8, <1>2 DEF Actors, Begin
<1>9. ASSUME NEW j \in Jobs, ManualStart(j)
      PROVE  task'[cur[b]] = task[cur[b]] /\ pc'[b] = pc[b] /\ cur'[b] = cur[b]
  BY <1>9, <1>2 DEF Actors, ManualStart
<1>10. ASSUME NEW a \in Jobs \union {Ticker},
              \/ \E k \in Keys : Pop(a, k)
              \/ NothingToPop(a) \/ Deferred(a) \/ StartFails(a)
              \/ ReleaseSlot(a) \/ ReportRead(a) \/ ReportWrite(a)
       PROVE  /\ task'[cur[b]] = task[cur[b]]
              /\ \E c \in Actors : pc'[c] \in WithRunningJob /\ cur'[c] = cur[b]
  BY <1>1, <1>10 DEF TypeOK, ThreadTypeOK, Goto, Read, Pop, NothingToPop, Deferred,
                     StartFails, ReleaseSlot, ReportRead, ReportWrite
<1>11. ASSUME NEW s \in Savers, SettingsStep(s)
       PROVE  /\ task'[cur[b]] = task[cur[b]]
              /\ \E c \in Actors : pc'[c] \in WithRunningJob /\ cur'[c] = cur[b]
  BY <1>1, <1>11 DEF TypeOK, ThreadTypeOK, Goto, Read, SettingsStep, ReadSettings,
                     SaveSettings, SettingsNotSaved, ResetRead, ResetWrite
<1>12. ASSUME NEW k \in Keys, TimePasses(k)
       PROVE  /\ task'[cur[b]] = task[cur[b]]
              /\ \E c \in Actors : pc'[c] \in WithRunningJob /\ cur'[c] = cur[b]
  BY <1>1, <1>12 DEF TimePasses
<1> QED
  BY <1>3, <1>4, <1>5, <1>6, <1>7, <1>8, <1>9, <1>10, <1>11, <1>12
  DEF Next, StartStep, EndStep

\* The job a schedule waits for stays known until it ends, or a crash or a failed
\* UPDATE makes the schedule one that is lost or due.
LEMMA KnownJobStays ==
  ASSUME TypeOK, Hands, OneOwner, NotLaunched, Keyed, DueCopies, SettingsKnown, Next,
         NEW k0 \in Keys, Unplanned(k0), KnownJob(k0), Unplanned(k0)'
  PROVE  \/ KnownJob(k0)' \/ k0 \in lost'
         \/ k0 \notin enabled' \union Maintenance \/ \E a \in Actors : WillWrite(a, k0)'
<1>1. PICK b \in Actors : /\ pc[b] \in WithRunningJob
                          /\ task[cur[b]] = k0 /\ row[k0].last = cur[b]
  BY DEF KnownJob
<1>2. cur[b] \in Jobs /\ status[cur[b]] = "running"
  BY <1>1 DEF Hands
<1>3. CASE EndJob(b)
  <2>1. pc'[b] = "release" /\ cur' = cur /\ task' = task
    BY <1>3 DEF TypeOK, ThreadTypeOK, Goto, EndJob
  <2> QED
    BY <1>1, <2>1 DEF WillWrite, Ending
<1>4. CASE EndFails(b)
  BY <1>1, <1>4 DEF EndFails, Stranded
<1>5. CASE Restart
  <2>1. Recovers(k0)
    BY <1>1, <1>2 DEF Recovers, LastInterrupted, Unplanned
  <2> QED
    BY <1>5, <2>1 DEF Restart, Unplanned
<1>6. ASSUME NEW c \in Actors, pc'[c] \in WithRunningJob, cur'[c] = cur[b],
             task'[cur[b]] = task[cur[b]], row'[k0].last = row[k0].last
      PROVE  KnownJob(k0)'
  BY <1>1, <1>6 DEF KnownJob
<1>7. ASSUME NEW a \in Jobs \union {Ticker}, Reported(a)
      PROVE  row[k0].last # cur[a]
  BY <1>1, <1>2, <1>7 DEF Hands, WithEndedJob, Actors, Reported
<1> QED
  BY <1>1, <1>3, <1>4, <1>5, <1>6, <1>7, JobInHand, PlanTaken DEF LastStays

\* A saver that switches a schedule on will plan it.
LEMMA SwitchedOn ==
  ASSUME TypeOK, SettingsKnown, Next,
         NEW k0 \in Keys, k0 \notin enabled, k0 \in enabled'
  PROVE  \E b \in Actors : WillWrite(b, k0)'
<1>1. ASSUME NEW s \in Savers, SaveSettings(s)
      PROVE  \E b \in Actors : WillWrite(b, k0)'
    BY <1>1 DEF
      TypeOK, DataTypeOK, ThreadTypeOK, SettingsKnown, WillWrite, Actors, Keys,
      Toggled, SaveSettings, Goto
<1>2. CASE
      \/ TickStart
      \/ EnsureSchedules
      \/ ListRows
      \/ SaveDue
      \/ TargetsNext
      \/ TargetFetch
      \/ MarkPendingRead
      \/ MarkPendingWrite
      \/ TickDispatch
      \/ MaintenanceFails
      \/ ListFails
      \/ MaintenanceRead
      \/ NoMaintenance
      \/ MaintenanceBusy
      \/ (\E k \in Keys : PassOver(k))
      \/ (\E k \in Keys : DeferDue(k))
      \/ (\E k \in Targets : TargetEnough(k))
      \/ (\E k \in Targets : TargetShort(k))
      \/ (\E k \in Targets : TargetCheck(k))
      \/ (\E k \in Targets : PostponeTarget(k))
      \/ (\E j \in Jobs : MaintenanceBegins(j))
      \/ (\E a \in Jobs \union {Ticker}, k \in Keys : Pop(a, k))
      \/ (\E a \in Jobs \union {Ticker}, j \in Jobs : Begin(a, j))
      \/ (\E a \in Jobs \union {Ticker} : NothingToPop(a))
      \/ (\E a \in Jobs \union {Ticker} : Deferred(a))
      \/ (\E a \in Jobs \union {Ticker} : StartFails(a))
      \/ (\E a \in Jobs \union {Ticker} : MarkRead(a))
      \/ (\E a \in Jobs \union {Ticker} : MarkWrite(a))
      \/ (\E a \in Jobs \union {Ticker} : EndJob(a))
      \/ (\E a \in Jobs \union {Ticker} : EndFails(a))
      \/ (\E a \in Jobs \union {Ticker} : ReleaseSlot(a))
      \/ (\E a \in Jobs \union {Ticker} : ReportRead(a))
      \/ (\E a \in Jobs \union {Ticker} : ReportWrite(a))
      \/ (\E a \in Jobs \union {Ticker} : Reported(a))
      \/ (\E j \in Jobs : ManualStart(j))
      \/ (\E s \in Savers, k \in Toggled : ReadSettings(s, k))
      \/ (\E s \in Savers : ResetRead(s))
      \/ (\E s \in Savers : SettingsNotSaved(s))
      \/ (\E s \in Savers : ResetWrite(s))
      \/ (\E k \in Keys : TimePasses(k))
      \/ Restart
  <2>1. UNCHANGED <<enabled>>
    BY <1>2 DEF
      TickStart, EnsureSchedules, ListRows, SaveDue, TargetsNext, TargetFetch,
      MarkPendingRead, MarkPendingWrite, TickDispatch, MaintenanceFails, ListFails, MaintenanceRead, NoMaintenance,
      MaintenanceBusy, PassOver, DeferDue, TargetEnough, TargetShort,
      TargetCheck, PostponeTarget, MaintenanceBegins, Pop, Begin, NothingToPop,
      Deferred, StartFails, MarkRead, MarkWrite, EndJob, EndFails, ReleaseSlot,
      ReportRead, ReportWrite, Reported, ManualStart, ReadSettings, ResetRead, SettingsNotSaved,
      ResetWrite, TimePasses, Restart, Goto, Write, Plan, Upsert, SaveFails,
      Done, Stranded, Read, CreateJob, FirstRow
  <2> QED
    BY <2>1 DEF
      TypeOK, DataTypeOK, ThreadTypeOK, SettingsKnown, WillWrite, Actors, Keys,
      Toggled
<1> QED
  BY <1>1, <1>2 DEF
      Next, TickStep, StartStep, EndStep, SettingsStep

\* markPending never gets a periodic schedule.
LEMMA StockMarkedStep ==
  ASSUME TypeOK, StockMarked, Next
  PROVE  StockMarked'
<1>1. CASE TickStart
    BY <1>1 DEF TypeOK, ThreadTypeOK, StockMarked, Actors, Keys, TickStart, Goto
<1>2. CASE EnsureSchedules
    BY <1>2 DEF TypeOK, ThreadTypeOK, StockMarked, Actors, Keys, EnsureSchedules, Goto, FirstRow
<1>3. CASE ListRows
    BY <1>3 DEF TypeOK, ThreadTypeOK, StockMarked, Actors, Keys, ListRows, Goto, IsDue
<1>4. CASE SaveDue
    BY <1>4 DEF
      TypeOK, ThreadTypeOK, StockMarked, Actors, Keys, SaveDue, Goto, Write,
      Upsert, SaveFails, Done
<1>5. CASE TargetsNext
    BY <1>5 DEF TypeOK, ThreadTypeOK, StockMarked, Actors, Keys, TargetsNext, Goto
<1>6. CASE TargetFetch
    BY <1>6 DEF TypeOK, ThreadTypeOK, StockMarked, Actors, Keys, TargetFetch, Goto
<1>7. CASE MarkPendingRead
    BY <1>7 DEF
      TypeOK, ThreadTypeOK, StockMarked, Actors, Keys, MarkPendingRead, Read,
      Goto
<1>8. CASE MarkPendingWrite
    BY <1>8 DEF
      TypeOK, ThreadTypeOK, StockMarked, Actors, Keys, MarkPendingWrite, Goto,
      Upsert, SaveFails, Done
<1>9. CASE TickDispatch
    BY <1>9 DEF TypeOK, ThreadTypeOK, StockMarked, Actors, Keys, TickDispatch, Goto
<1>10. CASE MaintenanceRead
    BY <1>10 DEF
      TypeOK, ThreadTypeOK, StockMarked, Actors, Keys, MaintenanceRead, Goto,
      Read, IsDue
<1>11. CASE MaintenanceBusy
    BY <1>11 DEF
      TypeOK, ThreadTypeOK, StockMarked, Actors, Keys, MaintenanceBusy, Goto,
      Write, Upsert, SaveFails, Done
<1>12. ASSUME NEW k \in Keys, DeferDue(k)
      PROVE  StockMarked'
    BY <1>12 DEF TypeOK, ThreadTypeOK, StockMarked, Actors, Keys, DeferDue, Goto
<1>13. ASSUME NEW k \in Targets, TargetShort(k)
      PROVE  StockMarked'
    BY <1>13 DEF
      TypeOK, ThreadTypeOK, StockMarked, Actors, Keys, TargetShort, Goto, IsDue
<1>14. ASSUME NEW k \in Targets, TargetCheck(k)
      PROVE  StockMarked'
    BY <1>14 DEF TypeOK, ThreadTypeOK, StockMarked, Actors, Keys, TargetCheck, Goto
<1>15. ASSUME NEW k \in Targets, PostponeTarget(k)
      PROVE  StockMarked'
    BY <1>15 DEF
      TypeOK, ThreadTypeOK, StockMarked, Actors, Keys, PostponeTarget, Goto,
      Write, Upsert, SaveFails, Done
<1>16. ASSUME NEW j \in Jobs, MaintenanceBegins(j)
      PROVE  StockMarked'
    BY <1>16 DEF
      TypeOK, ThreadTypeOK, StockMarked, Actors, Keys, MaintenanceBegins, Goto,
      CreateJob
<1>17. ASSUME NEW a \in Jobs \union {Ticker}, NEW k \in Keys, Pop(a, k)
      PROVE  StockMarked'
    BY <1>17 DEF TypeOK, ThreadTypeOK, StockMarked, Actors, Keys, Pop, Goto
<1>18. ASSUME NEW a \in Jobs \union {Ticker}, NEW j \in Jobs, Begin(a, j)
      PROVE  StockMarked'
    BY <1>18 DEF TypeOK, ThreadTypeOK, StockMarked, Actors, Keys, Begin, Goto, CreateJob
<1>19. ASSUME NEW a \in Jobs \union {Ticker}, NothingToPop(a)
      PROVE  StockMarked'
    BY <1>19 DEF
      TypeOK, ThreadTypeOK, StockMarked, Actors, Keys, NothingToPop, Goto,
      AfterDispatch
<1>20. ASSUME NEW a \in Jobs \union {Ticker}, Deferred(a)
      PROVE  StockMarked'
    BY <1>20 DEF
      TypeOK, ThreadTypeOK, StockMarked, Actors, Keys, Deferred, Goto,
      AfterDispatch
<1>21. ASSUME NEW a \in Jobs \union {Ticker}, StartFails(a)
      PROVE  StockMarked'
    BY <1>21 DEF
      TypeOK, ThreadTypeOK, StockMarked, Actors, Keys, StartFails, Goto,
      AfterDispatch
<1>22. ASSUME NEW a \in Jobs \union {Ticker}, MarkRead(a)
      PROVE  StockMarked'
    BY <1>22 DEF TypeOK, ThreadTypeOK, StockMarked, Actors, Keys, MarkRead, Read, Goto
<1>23. ASSUME NEW a \in Jobs \union {Ticker}, MarkWrite(a)
      PROVE  StockMarked'
    BY <1>23 DEF
      TypeOK, ThreadTypeOK, StockMarked, Actors, Keys, MarkWrite, Goto, Write,
      Upsert, SaveFails, Done, AfterDispatch, Started
<1>24. ASSUME NEW a \in Jobs \union {Ticker}, EndJob(a)
      PROVE  StockMarked'
    BY <1>24 DEF TypeOK, ThreadTypeOK, StockMarked, Actors, Keys, EndJob, Goto
<1>25. ASSUME NEW a \in Jobs \union {Ticker}, EndFails(a)
      PROVE  StockMarked'
    BY <1>25 DEF TypeOK, ThreadTypeOK, StockMarked, Actors, Keys, EndFails, Goto
<1>26. ASSUME NEW a \in Jobs \union {Ticker}, ReleaseSlot(a)
      PROVE  StockMarked'
    BY <1>26 DEF TypeOK, ThreadTypeOK, StockMarked, Actors, Keys, ReleaseSlot, Goto
<1>27. ASSUME NEW a \in Jobs \union {Ticker}, ReportRead(a)
      PROVE  StockMarked'
    BY <1>27 DEF TypeOK, ThreadTypeOK, StockMarked, Actors, Keys, ReportRead, Read, Goto
<1>28. ASSUME NEW a \in Jobs \union {Ticker}, ReportWrite(a)
      PROVE  StockMarked'
    BY <1>28 DEF
      TypeOK, ThreadTypeOK, StockMarked, Actors, Keys, ReportWrite, Goto, Plan,
      Upsert, SaveFails, Done, Stranded, Ended
<1>29. ASSUME NEW a \in Jobs \union {Ticker}, Reported(a)
      PROVE  StockMarked'
    BY <1>29 DEF TypeOK, ThreadTypeOK, StockMarked, Actors, Keys, Reported, Goto, Past
<1>30. ASSUME NEW j \in Jobs, ManualStart(j)
      PROVE  StockMarked'
    BY <1>30 DEF
      TypeOK, ThreadTypeOK, StockMarked, Actors, Keys, ManualStart, Goto,
      CreateJob
<1>31. ASSUME NEW s \in Savers, NEW k \in Toggled, ReadSettings(s, k)
      PROVE  StockMarked'
    BY <1>31 DEF TypeOK, ThreadTypeOK, StockMarked, Actors, Keys, ReadSettings, Goto
<1>32. ASSUME NEW s \in Savers, SaveSettings(s)
      PROVE  StockMarked'
    BY <1>32 DEF TypeOK, ThreadTypeOK, StockMarked, Actors, Keys, SaveSettings, Goto
<1>33. ASSUME NEW s \in Savers, ResetRead(s)
      PROVE  StockMarked'
    BY <1>33 DEF TypeOK, ThreadTypeOK, StockMarked, Actors, Keys, ResetRead, Read, Goto
<1>34. ASSUME NEW s \in Savers, ResetWrite(s)
      PROVE  StockMarked'
    BY <1>34 DEF
      TypeOK, ThreadTypeOK, StockMarked, Actors, Keys, ResetWrite, Goto, Plan,
      Upsert, SaveFails, Done, Stranded, ResetTo
<1>35. CASE Restart
    BY <1>35 DEF
      TypeOK, ThreadTypeOK, StockMarked, Actors, Keys, Restart, Recovers,
      LastInterrupted, WillWrite, AfterCrash
<1>36. CASE
      \/ (\E k \in Keys : PassOver(k))
      \/ (\E k \in Targets : TargetEnough(k))
      \/ (\E k \in Keys : TimePasses(k))
  <2>1. UNCHANGED <<pc, key>>
    BY <1>36 DEF PassOver, TargetEnough, TimePasses
  <2> QED
    BY <2>1 DEF TypeOK, ThreadTypeOK, StockMarked, Actors, Keys
<1>37. CASE ListFails
    BY <1>37 DEF TypeOK, ThreadTypeOK, StockMarked, Actors, Keys, ListFails, Goto
<1>38. CASE MaintenanceFails
    BY <1>38 DEF TypeOK, ThreadTypeOK, StockMarked, Actors, Keys, MaintenanceFails, Done, Goto
<1>39. CASE NoMaintenance
    BY <1>39 DEF
      TypeOK, ThreadTypeOK, StockMarked, Actors, Keys, NoMaintenance, Goto, IsDue
<1>40. ASSUME NEW s \in Savers, SettingsNotSaved(s)
      PROVE  StockMarked'
    BY <1>40 DEF TypeOK, ThreadTypeOK, StockMarked, Actors, Keys, SettingsNotSaved, Goto
<1> QED
  BY <1>1, <1>2, <1>3, <1>4, <1>5, <1>6, <1>7, <1>8, <1>9, <1>10, <1>11,
  <1>12, <1>13, <1>14, <1>15, <1>16, <1>17, <1>18, <1>19, <1>20, <1>21,
  <1>22, <1>23, <1>24, <1>25, <1>26, <1>27, <1>28, <1>29, <1>30, <1>31,
  <1>32, <1>33, <1>34, <1>35, <1>36, <1>37, <1>38, <1>39, <1>40 DEF
      Next, TickStep, StartStep, EndStep, SettingsStep

\* A lost schedule stays lost until it is planned again or off.
LEMMA LostStays ==
  ASSUME TypeOK, Hands, OneOwner, NotLaunched, Keyed, DueCopies, SettingsKnown, Next,
         NEW k0 \in Keys, k0 \in lost
  PROVE  \/ k0 \in lost' \/ ~Unplanned(k0)'
         \/ k0 \notin enabled' \union Maintenance
<1>1. CASE MarkPendingWrite
  <2>1. CASE k0 = key[Ticker] /\ Upsert(k0, copy[Ticker]) /\ copy[Ticker].next # "none"
    <3>1. [copy[Ticker] EXCEPT !.found = TRUE].next = copy[Ticker].next
      BY DEF TypeOK, ThreadTypeOK, Actors, Rows
    <3> QED
      BY <2>1, <3>1 DEF TypeOK, DataTypeOK, Unplanned, Upsert
  <2> QED
    BY <1>1, <2>1 DEF MarkPendingWrite
<1>2. ASSUME NEW a \in Jobs \union {Ticker}, ReportWrite(a)
      PROVE  \/ k0 \in lost' \/ ~Unplanned(k0)'
         \/ k0 \notin enabled' \union Maintenance
  <2>1. cur[a] \in Jobs
    BY <1>2 DEF Hands, WithEndedJob, Ending, Actors, ReportWrite
  <2>2. CASE k0 = key[a] /\ Upsert(k0, Ended(copy[a], cur[a]))
    <3>1. [Ended(copy[a], cur[a]) EXCEPT !.found = TRUE].next # "none"
      BY <2>1, RowFields DEF TypeOK, ThreadTypeOK, Actors, Rows
    <3> QED
      BY <2>2, <3>1 DEF TypeOK, DataTypeOK, Unplanned, Upsert
  <2> QED
    BY <1>2, <2>2 DEF ReportWrite, Plan, Stranded
<1>3. ASSUME NEW s \in Savers, ResetWrite(s)
      PROVE  \/ k0 \in lost' \/ ~Unplanned(k0)'
         \/ k0 \notin enabled' \union Maintenance
  <2>1. key[s] \in Toggled /\ view[s] = enabled /\ enabled' = enabled /\ key[s] \notin Maintenance
    BY <1>3, KeyAssumption DEF SettingsKnown, ResetWrite
  <2> DEFINE r == [copy[s] EXCEPT !.next = ResetTo(key[s], key[s] \in view[s])]
  <2>2. CASE k0 = key[s] /\ k0 \in enabled /\ Upsert(k0, r)
    <3>1. copy[s] \in Rows
      BY DEF TypeOK, ThreadTypeOK, Actors
    <3>2. [r EXCEPT !.found = TRUE].next # "none"
      BY <2>1, <2>2, <3>1 DEF ResetTo, Rows
    <3> QED
      BY <2>2, <3>2 DEF TypeOK, DataTypeOK, Unplanned, Upsert
  <2> QED
    BY <1>3, <2>1, <2>2 DEF ResetWrite, Plan, Stranded
<1>4. CASE Restart
    BY <1>4 DEF
      TypeOK, DataTypeOK, ThreadTypeOK, Hands, OneOwner, NotLaunched, Keyed,
      SettingsKnown, WithRunningJob, WithEndedJob, Ending, Actors, Keys,
      Toggled, WillWrite, Unplanned, Restart, Recovers, LastInterrupted, AfterCrash
<1>5. CASE
      \/ TickStart
      \/ EnsureSchedules
      \/ ListRows
      \/ SaveDue
      \/ TargetsNext
      \/ TargetFetch
      \/ MarkPendingRead
      \/ TickDispatch
      \/ MaintenanceFails
      \/ ListFails
      \/ MaintenanceRead
      \/ NoMaintenance
      \/ MaintenanceBusy
      \/ (\E k \in Keys : PassOver(k))
      \/ (\E k \in Keys : DeferDue(k))
      \/ (\E k \in Targets : TargetEnough(k))
      \/ (\E k \in Targets : TargetShort(k))
      \/ (\E k \in Targets : TargetCheck(k))
      \/ (\E k \in Targets : PostponeTarget(k))
      \/ (\E j \in Jobs : MaintenanceBegins(j))
      \/ (\E a \in Jobs \union {Ticker}, k \in Keys : Pop(a, k))
      \/ (\E a \in Jobs \union {Ticker}, j \in Jobs : Begin(a, j))
      \/ (\E a \in Jobs \union {Ticker} : NothingToPop(a))
      \/ (\E a \in Jobs \union {Ticker} : Deferred(a))
      \/ (\E a \in Jobs \union {Ticker} : StartFails(a))
      \/ (\E a \in Jobs \union {Ticker} : MarkRead(a))
      \/ (\E a \in Jobs \union {Ticker} : MarkWrite(a))
      \/ (\E a \in Jobs \union {Ticker} : EndJob(a))
      \/ (\E a \in Jobs \union {Ticker} : ReleaseSlot(a))
      \/ (\E a \in Jobs \union {Ticker} : ReportRead(a))
      \/ (\E a \in Jobs \union {Ticker} : Reported(a))
      \/ (\E j \in Jobs : ManualStart(j))
      \/ (\E s \in Savers, k \in Toggled : ReadSettings(s, k))
      \/ (\E s \in Savers : SaveSettings(s))
      \/ (\E s \in Savers : ResetRead(s))
      \/ (\E s \in Savers : SettingsNotSaved(s))
      \/ (\E k \in Keys : TimePasses(k))
  <2>1. UNCHANGED <<lost>>
    BY <1>5 DEF
      TickStart, EnsureSchedules, ListRows, SaveDue, TargetsNext, TargetFetch,
      MarkPendingRead, TickDispatch, MaintenanceFails, ListFails, MaintenanceRead, NoMaintenance, MaintenanceBusy,
      PassOver, DeferDue, TargetEnough, TargetShort, TargetCheck,
      PostponeTarget, MaintenanceBegins, Pop, Begin, NothingToPop, Deferred,
      StartFails, MarkRead, MarkWrite, EndJob, ReleaseSlot,
      ReportRead, Reported, ManualStart, ReadSettings, SaveSettings, ResetRead, SettingsNotSaved,
      TimePasses, Goto, Write, Upsert, SaveFails, Done, Read, CreateJob,
      FirstRow
  <2> QED
    BY <2>1 DEF
      TypeOK, DataTypeOK, ThreadTypeOK, Hands, OneOwner, NotLaunched, Keyed,
      SettingsKnown, WithRunningJob, WithEndedJob, Ending, Actors, Keys,
      Toggled, WillWrite, Unplanned
<1>6. ASSUME NEW a \in Jobs \union {Ticker}, EndFails(a)
      PROVE  k0 \in lost'
    BY <1>6 DEF EndFails, Stranded
<1> QED
  BY <1>1, <1>2, <1>3, <1>4, <1>5, <1>6 DEF
      Next, TickStep, StartStep, EndStep, SettingsStep

\* Only a started job or a saver who switches it off takes the next time of
\* a schedule that is not a low-stock one.
LEMMA PlanStays ==
  ASSUME IInv, Next,
         NEW k0 \in Periodic \union Maintenance, row[k0].next # "none", row'[k0].next = "none"
  PROVE  Occupied(k0) \/ k0 \notin enabled \union Maintenance
<1>1. CASE EnsureSchedules
    BY <1>1 DEF IInv, TypeOK, DataTypeOK, Rows, NoRow, Keys, Toggled, EnsureSchedules, FirstRow
<1>2. CASE SaveDue
  <2>1. CASE k0 = key[Ticker]
    BY <1>2, <2>1 DEF
      IInv, TypeOK, DataTypeOK, ThreadTypeOK, Rows, Actors, Keys, DueCopies,
      SaveDue, Write, Upsert, SaveFails, Done
  <2>2. CASE k0 # key[Ticker]
    BY <1>2, <2>2 DEF IInv, TypeOK, DataTypeOK, Keys, SaveDue, Write, Upsert, SaveFails, Done
  <2> QED
    BY <2>1, <2>2
<1>3. CASE MarkPendingWrite
  <2>1. k0 # key[Ticker]
    BY <1>3, KeyAssumption DEF IInv, StockMarked, Toggled, MarkPendingWrite
  <2> QED
    BY <1>3, <2>1 DEF
      IInv, TypeOK, DataTypeOK, Keys, Toggled, MarkPendingWrite, Upsert,
      SaveFails, Done
<1>4. CASE MaintenanceBusy
  <2>1. CASE k0 = key[Ticker]
    BY <1>4, <2>1 DEF
      IInv, TypeOK, DataTypeOK, ThreadTypeOK, Rows, Actors, Keys, DueCopies,
      MaintenanceBusy, Write, Upsert, SaveFails, Done
  <2>2. CASE k0 # key[Ticker]
    BY <1>4, <2>2 DEF
      IInv, TypeOK, DataTypeOK, Keys, MaintenanceBusy, Write, Upsert,
      SaveFails, Done
  <2> QED
    BY <2>1, <2>2
<1>5. ASSUME NEW k \in Targets, PostponeTarget(k)
      PROVE  Occupied(k0) \/ k0 \notin enabled \union Maintenance
  <2>1. k0 # k
    BY <1>5, KeyAssumption DEF Toggled
  <2> QED
    BY <1>5, <2>1 DEF
      IInv, TypeOK, DataTypeOK, Keys, Toggled, PostponeTarget, Write, Upsert,
      SaveFails, Done
<1>6. ASSUME NEW a \in Jobs \union {Ticker}, MarkWrite(a)
      PROVE  Occupied(k0) \/ k0 \notin enabled \union Maintenance
  <2>1. CASE k0 = key[a]
    <3>1. task[cur[a]] = key[a] /\ pc[a] = "mark" /\ a \in Actors
      BY <1>6 DEF IInv, Keyed, Actors, MarkWrite
    <3> QED
      BY <2>1, <3>1 DEF Occupied, WithRunningJob
  <2>2. CASE k0 # key[a]
    BY <1>6, <2>2 DEF
      IInv, TypeOK, DataTypeOK, Keys, Toggled, MarkWrite, Write, Upsert,
      SaveFails, Done
  <2> QED
    BY <2>1, <2>2
<1>7. ASSUME NEW a \in Jobs \union {Ticker}, ReportWrite(a)
      PROVE  Occupied(k0) \/ k0 \notin enabled \union Maintenance
  <2>1. cur[a] \in Jobs
    BY <1>7 DEF IInv, Hands, WithEndedJob, Ending, Actors, ReportWrite
  <2>2. Ended(copy[a], cur[a]) \in Rows /\ Ended(copy[a], cur[a]).next # "none"
    BY <2>1, RowFields DEF IInv, TypeOK, ThreadTypeOK, Actors
  <2>3. row'[k0] = row[k0] \/ row'[k0].next # "none"
    BY <1>7, <2>2, Saved DEF IInv, ReportWrite, Plan, SaveFails, Keys, Toggled
  <2> QED
    BY <2>3
<1>8. ASSUME NEW a \in Jobs \union {Ticker}, Reported(a)
      PROVE  Occupied(k0) \/ k0 \notin enabled \union Maintenance
    BY <1>8 DEF IInv, TypeOK, DataTypeOK, Rows, Keys, Toggled, Reported, Past
<1>9. ASSUME NEW s \in Savers, ResetWrite(s)
      PROVE  Occupied(k0) \/ k0 \notin enabled \union Maintenance
  <2> DEFINE r == [copy[s] EXCEPT !.next = ResetTo(key[s], key[s] \in view[s])]
  <2>1. key[s] \in Toggled /\ view[s] = enabled /\ key[s] \notin Maintenance
    BY <1>9, KeyAssumption DEF IInv, SettingsKnown, ResetWrite
  <2>2. copy[s] \in Rows /\ ResetTo(key[s], key[s] \in view[s]) \in {"none", "later", "due"}
    BY DEF IInv, TypeOK, ThreadTypeOK, Actors, ResetTo
  <2>3. r \in Rows /\ r.next = ResetTo(key[s], key[s] \in view[s])
    BY <2>2 DEF Rows
  <2>4. Upsert(key[s], r) \/ row' = row
    BY <1>9 DEF ResetWrite, Plan, SaveFails
  <2> HIDE DEF r
  <2>5. \/ row'[k0] = row[k0]
        \/ k0 = key[s] /\ row'[k0].next = ResetTo(k0, k0 \in enabled)
    BY <2>1, <2>3, <2>4, Saved DEF IInv, Keys, Toggled
  <2> QED
    BY <2>1, <2>5 DEF ResetTo
<1>10. ASSUME NEW k \in Keys, TimePasses(k)
      PROVE  Occupied(k0) \/ k0 \notin enabled \union Maintenance
    BY <1>10 DEF IInv, TypeOK, DataTypeOK, Rows, Keys, Toggled, TimePasses
<1>11. CASE Restart
    BY <1>11 DEF IInv, TypeOK, DataTypeOK, Rows, Keys, Toggled, Restart, Recovers, AfterCrash
<1>12. CASE
      \/ TickStart
      \/ ListRows
      \/ TargetsNext
      \/ TargetFetch
      \/ MarkPendingRead
      \/ TickDispatch
      \/ MaintenanceFails
      \/ ListFails
      \/ MaintenanceRead
      \/ NoMaintenance
      \/ (\E k \in Keys : PassOver(k))
      \/ (\E k \in Keys : DeferDue(k))
      \/ (\E k \in Targets : TargetEnough(k))
      \/ (\E k \in Targets : TargetShort(k))
      \/ (\E k \in Targets : TargetCheck(k))
      \/ (\E j \in Jobs : MaintenanceBegins(j))
      \/ (\E a \in Jobs \union {Ticker}, k \in Keys : Pop(a, k))
      \/ (\E a \in Jobs \union {Ticker}, j \in Jobs : Begin(a, j))
      \/ (\E a \in Jobs \union {Ticker} : NothingToPop(a))
      \/ (\E a \in Jobs \union {Ticker} : Deferred(a))
      \/ (\E a \in Jobs \union {Ticker} : StartFails(a))
      \/ (\E a \in Jobs \union {Ticker} : MarkRead(a))
      \/ (\E a \in Jobs \union {Ticker} : EndJob(a))
      \/ (\E a \in Jobs \union {Ticker} : EndFails(a))
      \/ (\E a \in Jobs \union {Ticker} : ReleaseSlot(a))
      \/ (\E a \in Jobs \union {Ticker} : ReportRead(a))
      \/ (\E j \in Jobs : ManualStart(j))
      \/ (\E s \in Savers, k \in Toggled : ReadSettings(s, k))
      \/ (\E s \in Savers : SaveSettings(s))
      \/ (\E s \in Savers : ResetRead(s))
      \/ (\E s \in Savers : SettingsNotSaved(s))
  <2>1. UNCHANGED <<row>>
    BY <1>12 DEF
      TickStart, ListRows, TargetsNext, TargetFetch, MarkPendingRead,
      TickDispatch, MaintenanceFails, Done, ListFails, MaintenanceRead, NoMaintenance, PassOver, DeferDue, TargetEnough,
      TargetShort, TargetCheck, MaintenanceBegins, Pop, Begin, NothingToPop,
      Deferred, StartFails, MarkRead, EndJob, EndFails, ReleaseSlot,
      ReportRead, ManualStart, ReadSettings, SaveSettings, ResetRead, SettingsNotSaved, Goto,
      Read, CreateJob
  <2> QED
    BY <2>1 DEF TypeOK, DataTypeOK, Keys, Toggled
<1> QED
  BY <1>1, <1>2, <1>3, <1>4, <1>5, <1>6, <1>7, <1>8, <1>9, <1>10, <1>11,
  <1>12 DEF
      Next, TickStep, StartStep, EndStep, SettingsStep

\* A plan that is missing is either lost, or in the hands of a job recovery will
\* find, or of a goroutine that will write it.
LEMMA CoveredStep ==
  ASSUME TypeOK, Hands, OneOwner, NotLaunched, Keyed, DueCopies, SettingsKnown,
         AllCovered, Next
  PROVE  AllCovered'
<1> SUFFICES ASSUME NEW k \in Keys, (k \in enabled \union Maintenance)', Unplanned(k)'
             PROVE  k \in lost' \/ KnownJob(k)' \/ \E a \in Actors : WillWrite(a, k)'
  BY DEF AllCovered, Covered
<1>2. CASE ~Unplanned(k)
  BY <1>2, PlanTaken DEF LastStays
<1>3. CASE k \notin enabled \union Maintenance
  BY <1>3, SwitchedOn
<1>4. CASE Unplanned(k) /\ k \in enabled \union Maintenance
  <2>1. k \in lost \/ KnownJob(k) \/ \E a \in Actors : WillWrite(a, k)
    BY <1>4 DEF AllCovered, Covered
  <2>2. CASE k \in lost
    BY <2>2, LostStays
  <2>3. CASE KnownJob(k)
    BY <1>4, <2>3, KnownJobStays
  <2>4. ASSUME NEW a \in Actors, WillWrite(a, k)
        PROVE  WillWrite(a, k)' \/ k \in lost'
    BY <2>4, WritersStay
  <2> QED  BY <2>1, <2>2, <2>3, <2>4
<1> QED  BY <1>2, <1>3, <1>4

\* The invariant holds at a first start.
LEMMA Initially == Init => IInv
<1> SUFFICES ASSUME Init PROVE IInv
  OBVIOUS
<1>1. DataTypeOK
  BY NoRowType DEF Init, DataTypeOK
<1>2. ThreadTypeOK /\ TickTypeOK
  BY NoRowType DEF Init, ThreadTypeOK, TickTypeOK, PCs
<1>3. Hands /\ OneOwner /\ NotLaunched /\ Keyed
  BY DEF Init, Hands, OneOwner, NotLaunched, Keyed, WithRunningJob, WithEndedJob, Ending
<1>4. DueCopies /\ StockMarked /\ SettingsKnown
  BY DEF Init, DueCopies, StockMarked, SettingsKnown, Actors
<1>5. AllCovered
  BY DEF Init, AllCovered, Covered, Unplanned, NoRow
<1> QED  BY <1>1, <1>2, <1>3, <1>4, <1>5 DEF IInv, TypeOK

\* A step that changes nothing preserves it.
LEMMA Stuttering == IInv /\ UNCHANGED vars => IInv'
<1> SUFFICES ASSUME IInv, UNCHANGED vars PROVE IInv'
  OBVIOUS
<1>1. TypeOK'
  BY DEF IInv, TypeOK, DataTypeOK, ThreadTypeOK, TickTypeOK
<1>2. (Hands /\ OneOwner /\ NotLaunched /\ Keyed)'
  BY DEF IInv, Hands, OneOwner, NotLaunched, Keyed
<1>3. (DueCopies /\ StockMarked /\ SettingsKnown)'
  BY DEF IInv, DueCopies, StockMarked, SettingsKnown
<1>4. AllCovered'
  BY DEF IInv, AllCovered, Covered, Unplanned, KnownJob, WillWrite, Ending, WithRunningJob
<1> QED  BY <1>1, <1>2, <1>3, <1>4 DEF IInv

\* So does every step, when there is one saver of settings at a time.
LEMMA Steps ==
  ASSUME IInv, Next, \A s, t \in Savers : s = t
  PROVE  IInv'
<1>0. TypeOK /\ Hands /\ OneOwner /\ NotLaunched /\ Keyed /\ DueCopies /\ StockMarked
      /\ SettingsKnown /\ AllCovered
  BY DEF IInv
<1>1. TypeOK'
  BY <1>0, DataTypes, ThreadTypes, TickTypes DEF TypeOK
<1>2. Hands' /\ OneOwner' /\ NotLaunched' /\ Keyed'
  BY <1>0, HandsStep, OneOwnerStep, NotLaunchedStep, KeyedStep
<1>3. DueCopies' /\ StockMarked' /\ SettingsKnown'
  BY <1>0, DueCopiesStep, StockMarkedStep, SettingsKnownStep
<1>4. AllCovered'
  BY <1>0, CoveredStep
<1> QED  BY <1>1, <1>2, <1>3, <1>4 DEF IInv

\* The inductive invariant, with one saver of settings at a time.
THEOREM Invariance ==
  ASSUME \A s, t \in Savers : s = t
  PROVE  Spec => []IInv
<1>1. IInv /\ [Next]_vars => IInv'
  BY Steps, Stuttering
<1> QED  BY Initially, <1>1, PTL DEF Spec

\* Every variable keeps its type.
THEOREM TypeCorrect ==
  ASSUME \A s, t \in Savers : s = t
  PROVE  Spec => []TypeOK
<1>1. IInv => TypeOK
  BY DEF IInv
<1> QED  BY Invariance, <1>1, PTL

\* No schedule that is on is left without a next time and without anybody to set
\* one, whichever statements fail and wherever the process crashes, except for the
\* reasons recorded in lost: nothing but a crash, the failure of a statement that
\* was to write its next time, and markPending takes a schedule out of service.
THEOREM Survival ==
  ASSUME \A s, t \in Savers : s = t
  PROVE  Spec => []ScheduleAlive
<1>1. IInv => ScheduleAlive
  BY DEF IInv, AllCovered, Covered, Unplanned, KnownJob, ScheduleAlive, Alive, Occupied
<1> QED  BY Invariance, <1>1, PTL

\* No stale copy of a row takes the plan of a periodic schedule, or of the
\* maintenance, away.
THEOREM PlansStay ==
  ASSUME \A s, t \in Savers : s = t
  PROVE  Spec => PlansKept
<1>1. ASSUME IInv, [Next]_vars, NEW k \in Periodic \union Maintenance,
             row[k].next # "none", row'[k].next = "none"
      PROVE  Occupied(k) \/ k \notin enabled \union Maintenance
  <2>1. CASE Next
    BY <1>1, <2>1, PlanStays
  <2>2. CASE UNCHANGED vars
    BY <1>1, <2>2
  <2> QED  BY <1>1, <2>1, <2>2
<1> DEFINE A == \A k \in Periodic \union Maintenance :
                  row[k].next # "none" /\ row'[k].next = "none" =>
                    Occupied(k) \/ k \notin enabled \union Maintenance
<1>2. IInv /\ [Next]_vars => [A]_vars
  BY <1>1
<1> QED  BY Invariance, <1>2, PTL DEF Spec, PlansKept
=============================================================================
