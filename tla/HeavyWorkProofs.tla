-------------------------- MODULE HeavyWorkProofs --------------------------
(***************************************************************************)
(* Proofs about HeavyWork, for any number of clients, jobs and intent keys *)
(* and for every combination of failing statements:                        *)
(*   - the invariant IInv, and with it TypeOK, SlotAccounted and the mutual*)
(*     exclusion ExclusiveUnlessClobbered;                                 *)
(*   - what was decided or promised stays so: outcomes and cancellations   *)
(*     (OutcomesStick), deferred intents (TriggersKept), and the turns of  *)
(*     the two types while coordinator_state can be written (Alternation); *)
(*   - QuietSpec implements the abstract slot of HeavySlot.                *)
(* IInv is proved part by part: each lemma <Part>Step shows that one part  *)
(* of it survives every action of Next, given the parts it depends on.     *)
(***************************************************************************)
EXTENDS HeavyWork, TLAPS

-----------------------------------------------------------------------------
(* Ending a job *)

\* Every final status a caller of Update asks for is terminal, also after the
\* mapping of completed to cancelled.
LEMMA FinalStatusEnds ==
  ASSUME NEW a \in Actors, pc[a] \in DOMAIN Outcomes,
         NEW outcome \in Outcomes[pc[a]], NEW j \in Jobs
  PROVE  FinalStatus(j, outcome) \in TerminalStatus
BY DEF Outcomes, FinalStatus, TerminalStatus

\* What the successful terminal UPDATE does, whatever the status.
LEMMA EndingJob ==
  ASSUME Hands, NEW a \in Actors, Finish(a)
  PROVE  /\ cur[a] \in Jobs
         /\ cur' = cur
         /\ pc' = [pc EXCEPT ![a] = "terminal"]
         /\ mem' = [mem EXCEPT ![cur[a]] = "none"]
         /\ \E status \in TerminalStatus : row' = [row EXCEPT ![cur[a]] = status]
<1>1. pc[a] \in DOMAIN Outcomes /\ cur[a] \in Jobs
  BY DEF Finish, Hands, Outcomes, WithLiveJob
<1>2. PICK outcome \in Outcomes[pc[a]] :
        row' = [row EXCEPT ![cur[a]] = FinalStatus(cur[a], outcome)]
  BY DEF Finish
<1>3. FinalStatus(cur[a], outcome) \in TerminalStatus
  BY <1>1, FinalStatusEnds
<1> QED
  BY <1>1, <1>2, <1>3 DEF Finish, Goto

\* The callback forgets a job that has left m.items.
LEMMA ForgottenJob ==
  ASSUME Hands, Live, RowsMatchItems, NEW a \in Actors, NotifyTerminal(a)
  PROVE  /\ pc[a] = "released"
         /\ cur[a] \in Jobs
         /\ mem[cur[a]] = "none"
         /\ mem' = mem
         /\ pc' = [pc EXCEPT ![a] = "dispatch"]
         /\ cur' = [cur EXCEPT ![a] = NoJob]
         /\ row' = [row EXCEPT ![cur[a]] = "none"]
         /\ kind' = [kind EXCEPT ![cur[a]] = ""]
<1>1. pc[a] = "released"
  BY DEF NotifyTerminal
<1>2. cur[a] \in Jobs /\ row[cur[a]] \notin ActiveStatus
  BY <1>1 DEF Hands, Live, WithEndedJob
<1> QED
  BY <1>1, <1>2 DEF NotifyTerminal, RowsMatchItems

-----------------------------------------------------------------------------
(* Types *)

\* Bind never counts past the cap.
LEMMA GrantCounted ==
  ASSUME consecutive \in 0..GrantCap, NEW a \in Actors, Bind(a)
  PROVE  consecutive' \in 0..GrantCap
<1>1. \/ consecutive' \in {1, consecutive}
      \/ consecutive < GrantCap /\ consecutive' = consecutive + 1
  BY DEF Bind
<1> QED
  BY <1>1 DEF GrantCap

\* TypeOK is kept, one group of variables after the other.
LEMMA CoordTypeStep ==
  ASSUME TypeOK, Requests, HeavyStart, Next
  PROVE  CoordTypeOK'
<1> USE ActorAssumption, KeyAssumption DEF TypeOK, CoordTypeOK, JobTypeOK,
    ThreadTypeOK, Requests, HeavyStart, SlotFree, GrantCap, HeavyTypes, Actors,
    Goto, Return, coordVars, threadVars
<1>1. ASSUME NEW c \in Clients, NEW t \in HeavyTypes, ManualAcquire(c, t) PROVE CoordTypeOK'
  BY <1>1 DEF ManualAcquire
<1>2. ASSUME NEW a \in Actors, AutoAcquire(a) PROVE CoordTypeOK'
  BY <1>2 DEF AutoAcquire
<1>3. ASSUME NEW a \in Actors, AutoRefused(a) PROVE CoordTypeOK'
  BY <1>3 DEF AutoRefused
<1>4. ASSUME NEW a \in Actors, DeferBack(a) PROVE CoordTypeOK'
  BY <1>4 DEF DeferBack
<1>5. ASSUME NEW a \in Actors, NEW j \in Jobs, CreateJob(a, j) PROVE CoordTypeOK'
  BY <1>5 DEF CreateJob
<1>6. ASSUME NEW a \in Actors, StartFails(a) PROVE CoordTypeOK'
  BY <1>6 DEF StartFails
<1>7. ASSUME NEW a \in Actors, AbortReservation(a) PROVE CoordTypeOK'
  BY <1>7 DEF AbortReservation
<1>8. ASSUME NEW a \in Actors, Bind(a) PROVE CoordTypeOK'
  <2>1. kind[cur[a]] \in HeavyTypes
    BY <1>8 DEF Bind
  <2>2. consecutive' \in 0..GrantCap
    BY <1>8, GrantCounted
  <2>3. saved' \in [type : HeavyTypes \union {""}, count : 0..GrantCap]
    <3>1. saved' \in [type : {saved.type, kind[cur[a]]}, count : {saved.count, consecutive'}]
      BY <1>8 DEF Bind
    <3> QED
      BY ZenonT(30), <2>1, <2>2, <3>1
  <2> QED
    BY <1>8, <2>1, <2>2, <2>3 DEF Bind
<1>9. ASSUME NEW a \in Actors, Launch(a) PROVE CoordTypeOK' BY <1>9 DEF Launch
<1>10. ASSUME NEW a \in Actors, CandidatesFail(a) PROVE CoordTypeOK'
  BY <1>10 DEF CandidatesFail
<1>11. ASSUME NEW a \in Actors, Finish(a) PROVE CoordTypeOK' BY <1>11 DEF Finish
<1>12. ASSUME NEW a \in Actors, FinishFails(a) PROVE CoordTypeOK'
  BY <1>12 DEF FinishFails
<1>13. ASSUME NEW j \in Jobs, StopWork(j) PROVE CoordTypeOK'
  BY <1>13 DEF StopWork
<1>14. ASSUME NEW a \in Actors, ReleaseSlot(a) PROVE CoordTypeOK'
  BY <1>14 DEF ReleaseSlot, Releases
<1>15. ASSUME NEW a \in Actors, NotifyTerminal(a) PROVE CoordTypeOK'
  BY <1>15 DEF NotifyTerminal
<1>16. ASSUME NEW a \in Actors, NEW k \in Keys, Pop(a, k) PROVE CoordTypeOK'
  BY <1>16 DEF Pop
<1>17. ASSUME NEW a \in Actors, NothingToPop(a) PROVE CoordTypeOK'
  BY <1>17 DEF NothingToPop
<1>18. CASE TickStart BY <1>18 DEF TickStart
<1>19. ASSUME NEW k \in Keys, TickDefer(k) PROVE CoordTypeOK'
  BY <1>19 DEF TickDefer
<1>20. CASE TickDispatch BY <1>20 DEF TickDispatch
<1>21. CASE MaintenanceNotNow BY <1>21 DEF MaintenanceNotNow
<1>22. CASE MaintenanceSeesNoJob BY <1>22 DEF MaintenanceSeesNoJob
<1>23. ASSUME NEW j \in Jobs, MaintenanceStarts(j) PROVE CoordTypeOK'
  BY <1>23 DEF MaintenanceStarts
<1>24. CASE MaintenanceSkipped BY <1>24 DEF MaintenanceSkipped
<1>25. ASSUME NEW j \in Jobs, Cancel(j) PROVE CoordTypeOK' BY <1>25 DEF Cancel
<1>26. CASE Restart BY <1>26 DEF Restart
<1> HIDE DEF TypeOK, CoordTypeOK, JobTypeOK, ThreadTypeOK, Requests, HeavyStart,
    SlotFree, GrantCap, HeavyTypes, Actors, Goto, Return, coordVars, threadVars
<1>27. QED
  BY <1>1, <1>2, <1>3, <1>4, <1>5, <1>6, <1>7, <1>8, <1>9, <1>10, <1>11, <1>12,
     <1>13, <1>14, <1>15, <1>16, <1>17, <1>18, <1>19, <1>20, <1>21, <1>22, <1>23, <1>24, <1>25, <1>26 DEF Next, Step, Tick


LEMMA JobTypeStep ==
  ASSUME TypeOK, Hands, Next
  PROVE  JobTypeOK'
<1> USE ActorAssumption, KeyAssumption DEF TypeOK, JobTypeOK, ThreadTypeOK,
    HeavyTypes, ActiveStatus, TerminalStatus, Actors, Goto, Return, jobVars,
    threadVars
<1>1. ASSUME NEW c \in Clients, NEW t \in HeavyTypes, ManualAcquire(c, t) PROVE JobTypeOK'
  BY <1>1 DEF ManualAcquire
<1>2. ASSUME NEW a \in Actors, AutoAcquire(a) PROVE JobTypeOK'
  BY <1>2 DEF AutoAcquire
<1>3. ASSUME NEW a \in Actors, AutoRefused(a) PROVE JobTypeOK'
  BY <1>3 DEF AutoRefused
<1>4. ASSUME NEW a \in Actors, DeferBack(a) PROVE JobTypeOK'
  BY <1>4 DEF DeferBack
<1>5. ASSUME NEW a \in Actors, NEW j \in Jobs, CreateJob(a, j) PROVE JobTypeOK'
  BY <1>5 DEF CreateJob
<1>6. ASSUME NEW a \in Actors, StartFails(a) PROVE JobTypeOK'
  BY <1>6 DEF StartFails
<1>7. ASSUME NEW a \in Actors, AbortReservation(a) PROVE JobTypeOK'
  BY <1>7 DEF AbortReservation
<1>8. ASSUME NEW a \in Actors, Bind(a) PROVE JobTypeOK' BY <1>8 DEF Bind
<1>9. ASSUME NEW a \in Actors, Launch(a) PROVE JobTypeOK' BY <1>9 DEF Launch
<1>10. ASSUME NEW a \in Actors, CandidatesFail(a) PROVE JobTypeOK'
  BY <1>10 DEF CandidatesFail
<1>11. ASSUME NEW a \in Actors, Finish(a) PROVE JobTypeOK'
  <2>1. kind' = kind /\ ctxDone' = ctxDone
    BY <1>11 DEF Finish
  <2>2. mem' = [mem EXCEPT ![cur[a]] = "none"]
    BY <1>11, EndingJob
  <2>3. PICK status \in TerminalStatus : row' = [row EXCEPT ![cur[a]] = status]
    BY <1>11, EndingJob
  <2> QED
    BY <2>1, <2>2, <2>3
<1>12. ASSUME NEW a \in Actors, FinishFails(a) PROVE JobTypeOK'
  BY <1>12 DEF FinishFails
<1>13. ASSUME NEW j \in Jobs, StopWork(j) PROVE JobTypeOK' BY <1>13 DEF StopWork
<1>14. ASSUME NEW a \in Actors, ReleaseSlot(a) PROVE JobTypeOK'
  BY <1>14 DEF ReleaseSlot, Releases
<1>15. ASSUME NEW a \in Actors, NotifyTerminal(a) PROVE JobTypeOK'
  BY <1>15 DEF NotifyTerminal
<1>16. ASSUME NEW a \in Actors, NEW k \in Keys, Pop(a, k) PROVE JobTypeOK'
  BY <1>16 DEF Pop
<1>17. ASSUME NEW a \in Actors, NothingToPop(a) PROVE JobTypeOK'
  BY <1>17 DEF NothingToPop
<1>18. CASE TickStart BY <1>18 DEF TickStart
<1>19. ASSUME NEW k \in Keys, TickDefer(k) PROVE JobTypeOK'
  BY <1>19 DEF TickDefer
<1>20. CASE TickDispatch BY <1>20 DEF TickDispatch
<1>21. CASE MaintenanceNotNow BY <1>21 DEF MaintenanceNotNow
<1>22. CASE MaintenanceSeesNoJob BY <1>22 DEF MaintenanceSeesNoJob
<1>23. ASSUME NEW j \in Jobs, MaintenanceStarts(j) PROVE JobTypeOK'
  BY <1>23 DEF MaintenanceStarts
<1>24. CASE MaintenanceSkipped BY <1>24 DEF MaintenanceSkipped
<1>25. ASSUME NEW j \in Jobs, Cancel(j) PROVE JobTypeOK' BY <1>25 DEF Cancel
<1>26. CASE Restart BY <1>26 DEF Restart
<1> HIDE DEF TypeOK, JobTypeOK, ThreadTypeOK, HeavyTypes, ActiveStatus,
    TerminalStatus, Actors, Goto, Return, jobVars, threadVars
<1>27. QED
  BY <1>1, <1>2, <1>3, <1>4, <1>5, <1>6, <1>7, <1>8, <1>9, <1>10, <1>11, <1>12,
     <1>13, <1>14, <1>15, <1>16, <1>17, <1>18, <1>19, <1>20, <1>21, <1>22, <1>23, <1>24, <1>25, <1>26 DEF Next, Step, Tick


LEMMA ThreadTypeStep ==
  ASSUME CoordTypeOK, ThreadTypeOK, Next
  PROVE  ThreadTypeOK'
<1> USE ActorAssumption, KeyAssumption DEF ThreadTypeOK, CoordTypeOK,
    HeavyTypes, Actors, NoWant, NoKey, Labels, Goto, Return, threadVars
<1>1. ASSUME NEW c \in Clients, NEW t \in HeavyTypes, ManualAcquire(c, t) PROVE ThreadTypeOK'
  BY <1>1 DEF ManualAcquire
<1>2. ASSUME NEW a \in Actors, AutoAcquire(a) PROVE ThreadTypeOK'
  BY <1>2 DEF AutoAcquire
<1>3. ASSUME NEW a \in Actors, AutoRefused(a) PROVE ThreadTypeOK'
  BY <1>3 DEF AutoRefused
<1>4. ASSUME NEW a \in Actors, DeferBack(a) PROVE ThreadTypeOK'
  BY <1>4 DEF DeferBack
<1>5. ASSUME NEW a \in Actors, NEW j \in Jobs, CreateJob(a, j) PROVE ThreadTypeOK'
  BY <1>5 DEF CreateJob
<1>6. ASSUME NEW a \in Actors, StartFails(a) PROVE ThreadTypeOK'
  BY <1>6 DEF StartFails
<1>7. ASSUME NEW a \in Actors, AbortReservation(a) PROVE ThreadTypeOK'
  BY <1>7 DEF AbortReservation
<1>8. ASSUME NEW a \in Actors, Bind(a) PROVE ThreadTypeOK' BY <1>8 DEF Bind
<1>9. ASSUME NEW a \in Actors, Launch(a) PROVE ThreadTypeOK' BY <1>9 DEF Launch
<1>10. ASSUME NEW a \in Actors, CandidatesFail(a) PROVE ThreadTypeOK'
  BY <1>10 DEF CandidatesFail
<1>11. ASSUME NEW a \in Actors, Finish(a) PROVE ThreadTypeOK'
  BY <1>11 DEF Finish
<1>12. ASSUME NEW a \in Actors, FinishFails(a) PROVE ThreadTypeOK'
  BY <1>12 DEF FinishFails
<1>13. ASSUME NEW j \in Jobs, StopWork(j) PROVE ThreadTypeOK'
  BY <1>13 DEF StopWork
<1>14. ASSUME NEW a \in Actors, ReleaseSlot(a) PROVE ThreadTypeOK'
  BY <1>14 DEF ReleaseSlot, Releases
<1>15. ASSUME NEW a \in Actors, NotifyTerminal(a) PROVE ThreadTypeOK'
  BY <1>15 DEF NotifyTerminal
<1>16. ASSUME NEW a \in Actors, NEW k \in Keys, Pop(a, k) PROVE ThreadTypeOK'
  BY <1>16 DEF Pop
<1>17. ASSUME NEW a \in Actors, NothingToPop(a) PROVE ThreadTypeOK'
  BY <1>17 DEF NothingToPop
<1>18. CASE TickStart BY <1>18 DEF TickStart
<1>19. ASSUME NEW k \in Keys, TickDefer(k) PROVE ThreadTypeOK'
  BY <1>19 DEF TickDefer
<1>20. CASE TickDispatch BY <1>20 DEF TickDispatch
<1>21. CASE MaintenanceNotNow BY <1>21 DEF MaintenanceNotNow
<1>22. CASE MaintenanceSeesNoJob BY <1>22 DEF MaintenanceSeesNoJob
<1>23. ASSUME NEW j \in Jobs, MaintenanceStarts(j) PROVE ThreadTypeOK'
  BY <1>23 DEF MaintenanceStarts
<1>24. CASE MaintenanceSkipped BY <1>24 DEF MaintenanceSkipped
<1>25. ASSUME NEW j \in Jobs, Cancel(j) PROVE ThreadTypeOK' BY <1>25 DEF Cancel
<1>26. CASE Restart BY <1>26 DEF Restart
<1> HIDE DEF ThreadTypeOK, CoordTypeOK, HeavyTypes, Actors, NoWant, NoKey,
    Labels, Goto, Return, threadVars
<1>27. QED
  BY <1>1, <1>2, <1>3, <1>4, <1>5, <1>6, <1>7, <1>8, <1>9, <1>10, <1>11, <1>12,
     <1>13, <1>14, <1>15, <1>16, <1>17, <1>18, <1>19, <1>20, <1>21, <1>22, <1>23, <1>24, <1>25, <1>26 DEF Next, Step, Tick


LEMMA GhostTypeStep ==
  ASSUME GhostTypeOK, JobTypeOK, ThreadTypeOK, HeavyStart, Next
  PROVE  GhostTypeOK'
<1> USE ActorAssumption, KeyAssumption DEF GhostTypeOK, JobTypeOK, ThreadTypeOK,
    HeavyStart, HeavyTypes, Actors, Goto, Return, ghostVars, threadVars
<1>1. ASSUME NEW c \in Clients, NEW t \in HeavyTypes, ManualAcquire(c, t) PROVE GhostTypeOK'
  BY <1>1 DEF ManualAcquire
<1>2. ASSUME NEW a \in Actors, AutoAcquire(a) PROVE GhostTypeOK'
  BY <1>2 DEF AutoAcquire
<1>3. ASSUME NEW a \in Actors, AutoRefused(a) PROVE GhostTypeOK'
  BY <1>3 DEF AutoRefused
<1>4. ASSUME NEW a \in Actors, DeferBack(a) PROVE GhostTypeOK'
  BY <1>4 DEF DeferBack
<1>5. ASSUME NEW a \in Actors, NEW j \in Jobs, CreateJob(a, j) PROVE GhostTypeOK'
  BY <1>5 DEF CreateJob
<1>6. ASSUME NEW a \in Actors, StartFails(a) PROVE GhostTypeOK'
  BY <1>6 DEF StartFails
<1>7. ASSUME NEW a \in Actors, AbortReservation(a) PROVE GhostTypeOK'
  BY <1>7 DEF AbortReservation
<1>8. ASSUME NEW a \in Actors, Bind(a) PROVE GhostTypeOK' BY <1>8 DEF Bind
<1>9. ASSUME NEW a \in Actors, Launch(a) PROVE GhostTypeOK' BY <1>9 DEF Launch
<1>10. ASSUME NEW a \in Actors, CandidatesFail(a) PROVE GhostTypeOK'
  BY <1>10 DEF CandidatesFail
<1>11. ASSUME NEW a \in Actors, Finish(a) PROVE GhostTypeOK' BY <1>11 DEF Finish
<1>12. ASSUME NEW a \in Actors, FinishFails(a) PROVE GhostTypeOK'
  BY <1>12 DEF FinishFails
<1>13. ASSUME NEW j \in Jobs, StopWork(j) PROVE GhostTypeOK'
  BY <1>13 DEF StopWork
<1>14. ASSUME NEW a \in Actors, ReleaseSlot(a) PROVE GhostTypeOK'
  BY <1>14 DEF ReleaseSlot, Releases
<1>15. ASSUME NEW a \in Actors, NotifyTerminal(a) PROVE GhostTypeOK'
  BY <1>15 DEF NotifyTerminal
<1>16. ASSUME NEW a \in Actors, NEW k \in Keys, Pop(a, k) PROVE GhostTypeOK'
  BY <1>16 DEF Pop
<1>17. ASSUME NEW a \in Actors, NothingToPop(a) PROVE GhostTypeOK'
  BY <1>17 DEF NothingToPop
<1>18. CASE TickStart BY <1>18 DEF TickStart
<1>19. ASSUME NEW k \in Keys, TickDefer(k) PROVE GhostTypeOK'
  BY <1>19 DEF TickDefer
<1>20. CASE TickDispatch BY <1>20 DEF TickDispatch
<1>21. CASE MaintenanceNotNow BY <1>21 DEF MaintenanceNotNow
<1>22. CASE MaintenanceSeesNoJob BY <1>22 DEF MaintenanceSeesNoJob
<1>23. ASSUME NEW j \in Jobs, MaintenanceStarts(j) PROVE GhostTypeOK'
  BY <1>23 DEF MaintenanceStarts
<1>24. CASE MaintenanceSkipped BY <1>24 DEF MaintenanceSkipped
<1>25. ASSUME NEW j \in Jobs, Cancel(j) PROVE GhostTypeOK' BY <1>25 DEF Cancel
<1>26. CASE Restart BY <1>26 DEF Restart
<1> HIDE DEF GhostTypeOK, JobTypeOK, ThreadTypeOK, HeavyStart, HeavyTypes,
    Actors, Goto, Return, ghostVars, threadVars
<1>27. QED
  BY <1>1, <1>2, <1>3, <1>4, <1>5, <1>6, <1>7, <1>8, <1>9, <1>10, <1>11, <1>12,
     <1>13, <1>14, <1>15, <1>16, <1>17, <1>18, <1>19, <1>20, <1>21, <1>22, <1>23, <1>24, <1>25, <1>26 DEF Next, Step, Tick


-----------------------------------------------------------------------------
(* Goroutines and the jobs in their hands *)

\* What the goroutines know and have in their hands.
LEMMA RequestsStep ==
  ASSUME TypeOK, Requests, Next
  PROVE  Requests'
<1> USE ActorAssumption, KeyAssumption DEF Requests, TypeOK, CoordTypeOK,
    ThreadTypeOK, NoWant, Outcomes, Actors, Goto, Return, threadVars, jobVars,
    coordVars
<1>1. ASSUME NEW c \in Clients, NEW t \in HeavyTypes, ManualAcquire(c, t) PROVE Requests'
  BY <1>1 DEF ManualAcquire
<1>2. ASSUME NEW a \in Actors, AutoAcquire(a) PROVE Requests'
  BY <1>2 DEF AutoAcquire
<1>3. ASSUME NEW a \in Actors, AutoRefused(a) PROVE Requests'
  BY <1>3 DEF AutoRefused
<1>4. ASSUME NEW a \in Actors, DeferBack(a) PROVE Requests'
  BY <1>4 DEF DeferBack
<1>5. ASSUME NEW a \in Actors, NEW j \in Jobs, CreateJob(a, j) PROVE Requests'
  BY <1>5 DEF CreateJob
<1>6. ASSUME NEW a \in Actors, StartFails(a) PROVE Requests'
  BY <1>6 DEF StartFails
<1>7. ASSUME NEW a \in Actors, AbortReservation(a) PROVE Requests'
  BY <1>7 DEF AbortReservation
<1>8. ASSUME NEW a \in Actors, Bind(a) PROVE Requests' BY <1>8 DEF Bind
<1>9. ASSUME NEW a \in Actors, Launch(a) PROVE Requests' BY <1>9 DEF Launch
<1>10. ASSUME NEW a \in Actors, CandidatesFail(a) PROVE Requests'
  BY <1>10 DEF CandidatesFail
<1>11. ASSUME NEW a \in Actors, Finish(a) PROVE Requests' BY <1>11 DEF Finish
<1>12. ASSUME NEW a \in Actors, FinishFails(a) PROVE Requests'
  BY <1>12 DEF FinishFails
<1>13. ASSUME NEW j \in Jobs, StopWork(j) PROVE Requests' BY <1>13 DEF StopWork
<1>14. ASSUME NEW a \in Actors, ReleaseSlot(a) PROVE Requests'
  BY <1>14 DEF ReleaseSlot, Releases
<1>15. ASSUME NEW a \in Actors, NotifyTerminal(a) PROVE Requests'
  BY <1>15 DEF NotifyTerminal
<1>16. ASSUME NEW a \in Actors, NEW k \in Keys, Pop(a, k) PROVE Requests'
  BY <1>16 DEF Pop
<1>17. ASSUME NEW a \in Actors, NothingToPop(a) PROVE Requests'
  BY <1>17 DEF NothingToPop
<1>18. CASE TickStart BY <1>18 DEF TickStart
<1>19. ASSUME NEW k \in Keys, TickDefer(k) PROVE Requests'
  BY <1>19 DEF TickDefer
<1>20. CASE TickDispatch BY <1>20 DEF TickDispatch
<1>21. CASE MaintenanceNotNow BY <1>21 DEF MaintenanceNotNow
<1>22. CASE MaintenanceSeesNoJob BY <1>22 DEF MaintenanceSeesNoJob
<1>23. ASSUME NEW j \in Jobs, MaintenanceStarts(j) PROVE Requests'
  BY <1>23 DEF MaintenanceStarts
<1>24. CASE MaintenanceSkipped BY <1>24 DEF MaintenanceSkipped
<1>25. ASSUME NEW j \in Jobs, Cancel(j) PROVE Requests' BY <1>25 DEF Cancel
<1>26. CASE Restart BY <1>26 DEF Restart
<1> HIDE DEF Requests, TypeOK, CoordTypeOK, ThreadTypeOK, NoWant, Outcomes,
    Actors, Goto, Return, threadVars, jobVars, coordVars
<1>27. QED
  BY <1>1, <1>2, <1>3, <1>4, <1>5, <1>6, <1>7, <1>8, <1>9, <1>10, <1>11, <1>12,
     <1>13, <1>14, <1>15, <1>16, <1>17, <1>18, <1>19, <1>20, <1>21, <1>22, <1>23, <1>24, <1>25, <1>26 DEF Next, Step, Tick


LEMMA HandsStep ==
  ASSUME TypeOK, Hands, OwnJob, Next
  PROVE  Hands'
<1> USE ActorAssumption, KeyAssumption DEF Hands, OwnJob, TypeOK, ThreadTypeOK,
    Unused, Outcomes, NotLaunched, WithLiveJob, WithEndedJob, Actors, Goto,
    Return, threadVars, jobVars, coordVars
<1>1. ASSUME NEW c \in Clients, NEW t \in HeavyTypes, ManualAcquire(c, t) PROVE Hands'
  BY <1>1 DEF ManualAcquire
<1>2. ASSUME NEW a \in Actors, AutoAcquire(a) PROVE Hands'
  BY <1>2 DEF AutoAcquire
<1>3. ASSUME NEW a \in Actors, AutoRefused(a) PROVE Hands'
  BY <1>3 DEF AutoRefused
<1>4. ASSUME NEW a \in Actors, DeferBack(a) PROVE Hands' BY <1>4 DEF DeferBack
<1>5. ASSUME NEW a \in Actors, NEW j \in Jobs, CreateJob(a, j) PROVE Hands'
  BY <1>5 DEF CreateJob
<1>6. ASSUME NEW a \in Actors, StartFails(a) PROVE Hands' BY <1>6 DEF StartFails
<1>7. ASSUME NEW a \in Actors, AbortReservation(a) PROVE Hands'
  BY <1>7 DEF AbortReservation
<1>8. ASSUME NEW a \in Actors, Bind(a) PROVE Hands' BY <1>8 DEF Bind
<1>9. ASSUME NEW a \in Actors, Launch(a) PROVE Hands' BY <1>9 DEF Launch
<1>10. ASSUME NEW a \in Actors, CandidatesFail(a) PROVE Hands'
  BY <1>10 DEF CandidatesFail
<1>11. ASSUME NEW a \in Actors, Finish(a) PROVE Hands' BY <1>11 DEF Finish
<1>12. ASSUME NEW a \in Actors, FinishFails(a) PROVE Hands'
  BY <1>12 DEF FinishFails
<1>13. ASSUME NEW j \in Jobs, StopWork(j) PROVE Hands' BY <1>13 DEF StopWork
<1>14. ASSUME NEW a \in Actors, ReleaseSlot(a) PROVE Hands'
  BY <1>14 DEF ReleaseSlot, Releases
<1>15. ASSUME NEW a \in Actors, NotifyTerminal(a) PROVE Hands'
  BY <1>15 DEF NotifyTerminal
<1>16. ASSUME NEW a \in Actors, NEW k \in Keys, Pop(a, k) PROVE Hands'
  BY <1>16 DEF Pop
<1>17. ASSUME NEW a \in Actors, NothingToPop(a) PROVE Hands'
  BY <1>17 DEF NothingToPop
<1>18. CASE TickStart BY <1>18 DEF TickStart
<1>19. ASSUME NEW k \in Keys, TickDefer(k) PROVE Hands' BY <1>19 DEF TickDefer
<1>20. CASE TickDispatch BY <1>20 DEF TickDispatch
<1>21. CASE MaintenanceNotNow BY <1>21 DEF MaintenanceNotNow
<1>22. CASE MaintenanceSeesNoJob BY <1>22 DEF MaintenanceSeesNoJob
<1>23. ASSUME NEW j \in Jobs, MaintenanceStarts(j) PROVE Hands'
  BY <1>23 DEF MaintenanceStarts
<1>24. CASE MaintenanceSkipped BY <1>24 DEF MaintenanceSkipped
<1>25. ASSUME NEW j \in Jobs, Cancel(j) PROVE Hands' BY <1>25 DEF Cancel
<1>26. CASE Restart BY <1>26 DEF Restart
<1> HIDE DEF Hands, OwnJob, TypeOK, ThreadTypeOK, Unused, Outcomes, NotLaunched,
    WithLiveJob, WithEndedJob, Actors, Goto, Return, threadVars, jobVars,
    coordVars
<1>27. QED
  BY <1>1, <1>2, <1>3, <1>4, <1>5, <1>6, <1>7, <1>8, <1>9, <1>10, <1>11, <1>12,
     <1>13, <1>14, <1>15, <1>16, <1>17, <1>18, <1>19, <1>20, <1>21, <1>22, <1>23, <1>24, <1>25, <1>26 DEF Next, Step, Tick


LEMMA OneOwnerStep ==
  ASSUME TypeOK, Hands, OneOwner, Next
  PROVE  OneOwner'
<1> USE ActorAssumption, KeyAssumption DEF Hands, OneOwner, TypeOK,
    ThreadTypeOK, Unused, Outcomes, WithLiveJob, WithEndedJob, Actors, Goto,
    Return, threadVars, jobVars, coordVars
<1>1. ASSUME NEW c \in Clients, NEW t \in HeavyTypes, ManualAcquire(c, t) PROVE OneOwner'
  BY <1>1 DEF ManualAcquire
<1>2. ASSUME NEW a \in Actors, AutoAcquire(a) PROVE OneOwner'
  BY <1>2 DEF AutoAcquire
<1>3. ASSUME NEW a \in Actors, AutoRefused(a) PROVE OneOwner'
  BY <1>3 DEF AutoRefused
<1>4. ASSUME NEW a \in Actors, DeferBack(a) PROVE OneOwner'
  BY <1>4 DEF DeferBack
<1>5. ASSUME NEW a \in Actors, NEW j \in Jobs, CreateJob(a, j) PROVE OneOwner'
  BY <1>5 DEF CreateJob
<1>6. ASSUME NEW a \in Actors, StartFails(a) PROVE OneOwner'
  BY <1>6 DEF StartFails
<1>7. ASSUME NEW a \in Actors, AbortReservation(a) PROVE OneOwner'
  BY <1>7 DEF AbortReservation
<1>8. ASSUME NEW a \in Actors, Bind(a) PROVE OneOwner' BY <1>8 DEF Bind
<1>9. ASSUME NEW a \in Actors, Launch(a) PROVE OneOwner' BY ZenonT(30), <1>9 DEF Launch
<1>10. ASSUME NEW a \in Actors, CandidatesFail(a) PROVE OneOwner'
  BY <1>10 DEF CandidatesFail
<1>11. ASSUME NEW a \in Actors, Finish(a) PROVE OneOwner' BY <1>11 DEF Finish
<1>12. ASSUME NEW a \in Actors, FinishFails(a) PROVE OneOwner'
  BY <1>12 DEF FinishFails
<1>13. ASSUME NEW j \in Jobs, StopWork(j) PROVE OneOwner' BY <1>13 DEF StopWork
<1>14. ASSUME NEW a \in Actors, ReleaseSlot(a) PROVE OneOwner'
  BY <1>14 DEF ReleaseSlot, Releases
<1>15. ASSUME NEW a \in Actors, NotifyTerminal(a) PROVE OneOwner'
  BY <1>15 DEF NotifyTerminal
<1>16. ASSUME NEW a \in Actors, NEW k \in Keys, Pop(a, k) PROVE OneOwner'
  BY <1>16 DEF Pop
<1>17. ASSUME NEW a \in Actors, NothingToPop(a) PROVE OneOwner'
  BY <1>17 DEF NothingToPop
<1>18. CASE TickStart BY <1>18 DEF TickStart
<1>19. ASSUME NEW k \in Keys, TickDefer(k) PROVE OneOwner'
  BY <1>19 DEF TickDefer
<1>20. CASE TickDispatch BY <1>20 DEF TickDispatch
<1>21. CASE MaintenanceNotNow BY <1>21 DEF MaintenanceNotNow
<1>22. CASE MaintenanceSeesNoJob BY <1>22 DEF MaintenanceSeesNoJob
<1>23. ASSUME NEW j \in Jobs, MaintenanceStarts(j) PROVE OneOwner'
  BY <1>23 DEF MaintenanceStarts
<1>24. CASE MaintenanceSkipped BY <1>24 DEF MaintenanceSkipped
<1>25. ASSUME NEW j \in Jobs, Cancel(j) PROVE OneOwner' BY <1>25 DEF Cancel
<1>26. CASE Restart BY <1>26 DEF Restart
<1> HIDE DEF Hands, OneOwner, TypeOK, ThreadTypeOK, Unused, Outcomes,
    WithLiveJob, WithEndedJob, Actors, Goto, Return, threadVars, jobVars,
    coordVars
<1>27. QED
  BY <1>1, <1>2, <1>3, <1>4, <1>5, <1>6, <1>7, <1>8, <1>9, <1>10, <1>11, <1>12,
     <1>13, <1>14, <1>15, <1>16, <1>17, <1>18, <1>19, <1>20, <1>21, <1>22, <1>23, <1>24, <1>25, <1>26 DEF Next, Step, Tick


\* job_runs and m.items agree after every step.
LEMMA RowsStep ==
  ASSUME TypeOK, RowsMatchItems, Ownership, Next
  PROVE  RowsMatchItems'
<1> USE ActorAssumption, KeyAssumption DEF TypeOK, RowsMatchItems, JobTypeOK,
    ActiveStatus, TerminalStatus, Actors, Goto, Return, threadVars, jobVars,
    coordVars
<1>1. ASSUME NEW c \in Clients, NEW t \in HeavyTypes, ManualAcquire(c, t) PROVE RowsMatchItems'
  BY <1>1 DEF ManualAcquire
<1>2. ASSUME NEW a \in Actors, AutoAcquire(a) PROVE RowsMatchItems'
  BY <1>2 DEF AutoAcquire
<1>3. ASSUME NEW a \in Actors, AutoRefused(a) PROVE RowsMatchItems'
  BY <1>3 DEF AutoRefused
<1>4. ASSUME NEW a \in Actors, DeferBack(a) PROVE RowsMatchItems'
  BY <1>4 DEF DeferBack
<1>5. ASSUME NEW a \in Actors, NEW j \in Jobs, CreateJob(a, j) PROVE RowsMatchItems'
  BY <1>5 DEF CreateJob
<1>6. ASSUME NEW a \in Actors, StartFails(a) PROVE RowsMatchItems'
  BY <1>6 DEF StartFails
<1>7. ASSUME NEW a \in Actors, AbortReservation(a) PROVE RowsMatchItems'
  BY <1>7 DEF AbortReservation
<1>8. ASSUME NEW a \in Actors, Bind(a) PROVE RowsMatchItems' BY <1>8 DEF Bind
<1>9. ASSUME NEW a \in Actors, Launch(a) PROVE RowsMatchItems'
  BY <1>9 DEF Launch
<1>10. ASSUME NEW a \in Actors, CandidatesFail(a) PROVE RowsMatchItems'
  BY <1>10 DEF CandidatesFail
<1>11. ASSUME NEW a \in Actors, Finish(a) PROVE RowsMatchItems'
  <2>1. cur[a] \in Jobs /\ mem' = [mem EXCEPT ![cur[a]] = "none"]
    BY <1>11, EndingJob DEF Ownership
  <2>2. PICK status \in TerminalStatus : row' = [row EXCEPT ![cur[a]] = status]
    BY <1>11, EndingJob DEF Ownership
  <2> QED
    BY <2>1, <2>2
<1>12. ASSUME NEW a \in Actors, FinishFails(a) PROVE RowsMatchItems'
  BY <1>12 DEF FinishFails
<1>13. ASSUME NEW j \in Jobs, StopWork(j) PROVE RowsMatchItems'
  BY ZenonT(30), <1>13 DEF StopWork
<1>14. ASSUME NEW a \in Actors, ReleaseSlot(a) PROVE RowsMatchItems'
  BY <1>14 DEF ReleaseSlot, Releases
<1>15. ASSUME NEW a \in Actors, NotifyTerminal(a) PROVE RowsMatchItems'
  <2>1. cur[a] \in Jobs /\ mem[cur[a]] = "none" /\ mem' = mem
        /\ row' = [row EXCEPT ![cur[a]] = "none"]
    BY <1>15, ForgottenJob DEF Ownership
  <2> QED
    BY <2>1
<1>16. ASSUME NEW a \in Actors, NEW k \in Keys, Pop(a, k) PROVE RowsMatchItems'
  BY <1>16 DEF Pop
<1>17. ASSUME NEW a \in Actors, NothingToPop(a) PROVE RowsMatchItems'
  BY <1>17 DEF NothingToPop
<1>18. CASE TickStart BY <1>18 DEF TickStart
<1>19. ASSUME NEW k \in Keys, TickDefer(k) PROVE RowsMatchItems'
  BY <1>19 DEF TickDefer
<1>20. CASE TickDispatch BY <1>20 DEF TickDispatch
<1>21. CASE MaintenanceNotNow BY <1>21 DEF MaintenanceNotNow
<1>22. CASE MaintenanceSeesNoJob BY <1>22 DEF MaintenanceSeesNoJob
<1>23. ASSUME NEW j \in Jobs, MaintenanceStarts(j) PROVE RowsMatchItems'
  BY <1>23 DEF MaintenanceStarts
<1>24. CASE MaintenanceSkipped BY <1>24 DEF MaintenanceSkipped
<1>25. ASSUME NEW j \in Jobs, Cancel(j) PROVE RowsMatchItems'
  BY <1>25 DEF Cancel
<1>26. CASE Restart BY <1>26 DEF Restart
<1> HIDE DEF TypeOK, RowsMatchItems, JobTypeOK, ActiveStatus, TerminalStatus,
    Actors, Goto, Return, threadVars, jobVars, coordVars
<1>27. QED
  BY <1>1, <1>2, <1>3, <1>4, <1>5, <1>6, <1>7, <1>8, <1>9, <1>10, <1>11, <1>12,
     <1>13, <1>14, <1>15, <1>16, <1>17, <1>18, <1>19, <1>20, <1>21, <1>22, <1>23, <1>24, <1>25, <1>26 DEF Next, Step, Tick

\* A goroutine knows whether the job in its hands has ended: nobody else ends
\* it, forgets it or creates it anew.
LEMMA LiveStep ==
  ASSUME TypeOK, RowsMatchItems, Ownership, Next
  PROVE  Live'
<1> USE ActorAssumption, KeyAssumption DEF TypeOK, ThreadTypeOK, JobTypeOK,
    Ownership, Live, ActiveStatus, WithLiveJob, WithEndedJob, Actors, Goto,
    Return, threadVars, jobVars, coordVars
<1>1. ASSUME NEW c \in Clients, NEW t \in HeavyTypes, ManualAcquire(c, t) PROVE Live'
  BY <1>1 DEF ManualAcquire
<1>2. ASSUME NEW a \in Actors, AutoAcquire(a) PROVE Live'
  BY <1>2 DEF AutoAcquire
<1>3. ASSUME NEW a \in Actors, AutoRefused(a) PROVE Live'
  BY <1>3 DEF AutoRefused
<1>4. ASSUME NEW a \in Actors, DeferBack(a) PROVE Live' BY <1>4 DEF DeferBack
<1>5. ASSUME NEW a \in Actors, NEW j \in Jobs, CreateJob(a, j) PROVE Live'
  <2> SUFFICES ASSUME NEW b \in Actors
               PROVE  /\ pc'[b] \in WithLiveJob => row'[cur'[b]] \in ActiveStatus
                      /\ pc'[b] \in WithEndedJob => row'[cur'[b]] \notin ActiveStatus
    BY DEF Live
  <2>1. CASE b = a
    BY <1>5, <2>1 DEF CreateJob, Unused, Hands
  <2>2. CASE b # a
    BY <1>5, <2>2 DEF CreateJob, Unused, Hands
  <2> QED
    BY <2>1, <2>2
<1>6. ASSUME NEW a \in Actors, StartFails(a) PROVE Live' BY <1>6 DEF StartFails
<1>7. ASSUME NEW a \in Actors, AbortReservation(a) PROVE Live'
  BY <1>7 DEF AbortReservation
<1>8. ASSUME NEW a \in Actors, Bind(a) PROVE Live' BY <1>8 DEF Bind
<1>9. ASSUME NEW a \in Actors, Launch(a) PROVE Live' BY <1>9 DEF Launch
<1>10. ASSUME NEW a \in Actors, CandidatesFail(a) PROVE Live'
  BY <1>10 DEF CandidatesFail
<1>11. ASSUME NEW a \in Actors, Finish(a) PROVE Live'
  <2> SUFFICES ASSUME NEW b \in Actors
               PROVE  /\ pc'[b] \in WithLiveJob => row'[cur'[b]] \in ActiveStatus
                      /\ pc'[b] \in WithEndedJob => row'[cur'[b]] \notin ActiveStatus
    BY DEF Live
  <2>4. cur[a] \in Jobs /\ cur' = cur /\ pc' = [pc EXCEPT ![a] = "terminal"]
    BY <1>11, EndingJob
  <2>3. PICK status \in TerminalStatus :
          row' = [row EXCEPT ![cur[a]] = status]
    BY <1>11, EndingJob
  <2>1. CASE b = a
    BY ZenonT(30), <2>1, <2>3, <2>4 DEF OneOwner, Hands, TerminalStatus
  <2>2. CASE b # a
    BY <2>2, <2>3, <2>4 DEF OneOwner, Hands, TerminalStatus
  <2> QED
    BY <2>1, <2>2
<1>12. ASSUME NEW a \in Actors, FinishFails(a) PROVE Live'
  BY <1>12 DEF FinishFails
<1>13. ASSUME NEW j \in Jobs, StopWork(j) PROVE Live'
  <2>1. cur[j] = j
    BY <1>13 DEF StopWork, OwnJob
  <2>2. row[j] \in ActiveStatus
    BY <1>13, <2>1 DEF StopWork
  <2>3. \A i \in Jobs : row'[i] \in ActiveStatus <=> row[i] \in ActiveStatus
    BY ZenonT(30), <1>13, <2>2 DEF StopWork
  <2>4. pc' = [pc EXCEPT ![j] = "stopping"] /\ cur' = cur
    BY <1>13 DEF StopWork
  <2> QED
    BY ZenonT(30), <1>13, <2>1, <2>2, <2>3, <2>4 DEF Hands
<1>14. ASSUME NEW a \in Actors, ReleaseSlot(a) PROVE Live'
  BY <1>14 DEF ReleaseSlot, Releases
<1>15. ASSUME NEW a \in Actors, NotifyTerminal(a) PROVE Live'
  <2> SUFFICES ASSUME NEW b \in Actors
               PROVE  /\ pc'[b] \in WithLiveJob => row'[cur'[b]] \in ActiveStatus
                      /\ pc'[b] \in WithEndedJob => row'[cur'[b]] \notin ActiveStatus
    BY DEF Live
  <2>1. cur[a] \in Jobs /\ row' = [row EXCEPT ![cur[a]] = "none"]
        /\ pc' = [pc EXCEPT ![a] = "dispatch"] /\ cur' = [cur EXCEPT ![a] = NoJob]
    BY <1>15, ForgottenJob
  <2>2. CASE b = a
    BY <2>1, <2>2
  <2>3. CASE b # a
    BY <2>1, <2>3 DEF OneOwner, Hands
  <2> QED
    BY <2>2, <2>3
<1>16. ASSUME NEW a \in Actors, NEW k \in Keys, Pop(a, k) PROVE Live'
  BY <1>16 DEF Pop
<1>17. ASSUME NEW a \in Actors, NothingToPop(a) PROVE Live'
  BY <1>17 DEF NothingToPop
<1>18. CASE TickStart BY <1>18 DEF TickStart
<1>19. ASSUME NEW k \in Keys, TickDefer(k) PROVE Live' BY <1>19 DEF TickDefer
<1>20. CASE TickDispatch BY <1>20 DEF TickDispatch
<1>21. CASE MaintenanceNotNow BY <1>21 DEF MaintenanceNotNow
<1>22. CASE MaintenanceSeesNoJob BY <1>22 DEF MaintenanceSeesNoJob
<1>23. ASSUME NEW j \in Jobs, MaintenanceStarts(j) PROVE Live'
  <2> SUFFICES ASSUME NEW b \in Actors
               PROVE  /\ pc'[b] \in WithLiveJob => row'[cur'[b]] \in ActiveStatus
                      /\ pc'[b] \in WithEndedJob => row'[cur'[b]] \notin ActiveStatus
    BY DEF Live
  <2>1. CASE b = Ticker
    BY <1>23, <2>1 DEF MaintenanceStarts, Unused, Hands
  <2>2. CASE b # Ticker
    BY <1>23, <2>2 DEF MaintenanceStarts, Unused, Hands
  <2> QED
    BY <2>1, <2>2
<1>24. CASE MaintenanceSkipped BY <1>24 DEF MaintenanceSkipped
<1>25. ASSUME NEW j \in Jobs, Cancel(j) PROVE Live'
  <2>1. row[j] \in ActiveStatus
    BY <1>25 DEF Cancel, RowsMatchItems
  <2>2. \A i \in Jobs : row'[i] \in ActiveStatus <=> row[i] \in ActiveStatus
    <3>1. row' = row \/ row' = [row EXCEPT ![j] = "cancel_requested"]
      BY <1>25 DEF Cancel
    <3> QED
      BY <2>1, <3>1
  <2>3. pc' = pc /\ cur' = cur
    BY <1>25 DEF Cancel
  <2> QED
    BY <2>2, <2>3 DEF Hands
<1>26. CASE Restart BY <1>26 DEF Restart
<1> HIDE DEF TypeOK, ThreadTypeOK, JobTypeOK, Ownership, Live, ActiveStatus,
    WithLiveJob, WithEndedJob, Actors, Goto, Return, threadVars, jobVars,
    coordVars
<1>27. QED
  BY <1>1, <1>2, <1>3, <1>4, <1>5, <1>6, <1>7, <1>8, <1>9, <1>10, <1>11, <1>12,
     <1>13, <1>14, <1>15, <1>16, <1>17, <1>18, <1>19, <1>20, <1>21, <1>22, <1>23, <1>24, <1>25, <1>26 DEF Next, Step, Tick

\* Only a fetch or a check travels from CreateJob to Launch.
LEMMA HeavyStartStep ==
  ASSUME TypeOK, Requests, Ownership, RowsMatchItems, Next
  PROVE  HeavyStart'
<1> USE ActorAssumption, KeyAssumption DEF Ownership, HeavyStart, TypeOK,
    ThreadTypeOK, JobTypeOK, WithLiveJob, WithEndedJob, Actors, Goto, Return,
    threadVars, jobVars, coordVars
<1>1. ASSUME NEW c \in Clients, NEW t \in HeavyTypes, ManualAcquire(c, t) PROVE HeavyStart'
  BY <1>1 DEF ManualAcquire
<1>2. ASSUME NEW a \in Actors, AutoAcquire(a) PROVE HeavyStart'
  BY <1>2 DEF AutoAcquire
<1>3. ASSUME NEW a \in Actors, AutoRefused(a) PROVE HeavyStart'
  BY <1>3 DEF AutoRefused
<1>4. ASSUME NEW a \in Actors, DeferBack(a) PROVE HeavyStart'
  BY <1>4 DEF DeferBack
<1>5. ASSUME NEW a \in Actors, NEW j \in Jobs, CreateJob(a, j) PROVE HeavyStart'
  <2> SUFFICES ASSUME NEW b \in Actors, pc'[b] \in {"created", "bound"}
               PROVE  kind'[cur'[b]] \in HeavyTypes
    BY DEF HeavyStart
  <2>1. want[a].type \in HeavyTypes
    BY <1>5 DEF CreateJob, Requests
  <2>2. CASE b = a
    BY <1>5, <2>1, <2>2 DEF CreateJob
  <2>3. CASE b # a
    BY <1>5, <2>3 DEF CreateJob, Unused, Hands
  <2> QED
    BY <2>2, <2>3
<1>6. ASSUME NEW a \in Actors, StartFails(a) PROVE HeavyStart'
  BY <1>6 DEF StartFails
<1>7. ASSUME NEW a \in Actors, AbortReservation(a) PROVE HeavyStart'
  BY <1>7 DEF AbortReservation
<1>8. ASSUME NEW a \in Actors, Bind(a) PROVE HeavyStart' BY <1>8 DEF Bind
<1>9. ASSUME NEW a \in Actors, Launch(a) PROVE HeavyStart' BY <1>9 DEF Launch
<1>10. ASSUME NEW a \in Actors, CandidatesFail(a) PROVE HeavyStart'
  BY <1>10 DEF CandidatesFail
<1>11. ASSUME NEW a \in Actors, Finish(a) PROVE HeavyStart' BY <1>11 DEF Finish
<1>12. ASSUME NEW a \in Actors, FinishFails(a) PROVE HeavyStart'
  BY <1>12 DEF FinishFails
<1>13. ASSUME NEW j \in Jobs, StopWork(j) PROVE HeavyStart'
  BY <1>13 DEF StopWork
<1>14. ASSUME NEW a \in Actors, ReleaseSlot(a) PROVE HeavyStart'
  BY <1>14 DEF ReleaseSlot, Releases
<1>15. ASSUME NEW a \in Actors, NotifyTerminal(a) PROVE HeavyStart'
  <2> SUFFICES ASSUME NEW b \in Actors, pc'[b] \in {"created", "bound"}
               PROVE  kind'[cur'[b]] \in HeavyTypes
    BY DEF HeavyStart
  <2>1. cur[a] \in Jobs /\ kind' = [kind EXCEPT ![cur[a]] = ""] /\ pc[a] = "released"
        /\ pc' = [pc EXCEPT ![a] = "dispatch"] /\ cur' = [cur EXCEPT ![a] = NoJob]
    BY <1>15, ForgottenJob
  <2>2. b # a /\ pc[b] \in {"created", "bound"} /\ cur'[b] = cur[b]
    BY <2>1
  <2>3. cur[b] # cur[a]
    BY <2>1, <2>2 DEF OneOwner
  <2> QED
    BY <2>1, <2>2, <2>3 DEF Hands
<1>16. ASSUME NEW a \in Actors, NEW k \in Keys, Pop(a, k) PROVE HeavyStart'
  BY <1>16 DEF Pop
<1>17. ASSUME NEW a \in Actors, NothingToPop(a) PROVE HeavyStart'
  BY <1>17 DEF NothingToPop
<1>18. CASE TickStart BY <1>18 DEF TickStart
<1>19. ASSUME NEW k \in Keys, TickDefer(k) PROVE HeavyStart'
  BY <1>19 DEF TickDefer
<1>20. CASE TickDispatch BY <1>20 DEF TickDispatch
<1>21. CASE MaintenanceNotNow BY <1>21 DEF MaintenanceNotNow
<1>22. CASE MaintenanceSeesNoJob BY <1>22 DEF MaintenanceSeesNoJob
<1>23. ASSUME NEW j \in Jobs, MaintenanceStarts(j) PROVE HeavyStart'
  <2> SUFFICES ASSUME NEW b \in Actors, pc'[b] \in {"created", "bound"}
               PROVE  kind'[cur'[b]] \in HeavyTypes
    BY DEF HeavyStart
  <2>1. b # Ticker
    BY <1>23 DEF MaintenanceStarts
  <2> QED
    BY <1>23, <2>1 DEF MaintenanceStarts, Unused, Hands
<1>24. CASE MaintenanceSkipped BY <1>24 DEF MaintenanceSkipped
<1>25. ASSUME NEW j \in Jobs, Cancel(j) PROVE HeavyStart' BY <1>25 DEF Cancel
<1>26. CASE Restart BY <1>26 DEF Restart
<1> HIDE DEF Ownership, HeavyStart, TypeOK, ThreadTypeOK, JobTypeOK,
    WithLiveJob, WithEndedJob, Actors, Goto, Return, threadVars, jobVars,
    coordVars
<1>27. QED
  BY <1>1, <1>2, <1>3, <1>4, <1>5, <1>6, <1>7, <1>8, <1>9, <1>10, <1>11, <1>12,
     <1>13, <1>14, <1>15, <1>16, <1>17, <1>18, <1>19, <1>20, <1>21, <1>22, <1>23, <1>24, <1>25, <1>26 DEF Next, Step, Tick

\* The goroutine of a job stays idle until Launch.
LEMMA OwnJobStep ==
  ASSUME TypeOK, Ownership, Next
  PROVE  OwnJob'
<1> USE ActorAssumption, KeyAssumption DEF Ownership, Hands, OwnJob, TypeOK,
    ThreadTypeOK, NotLaunched, WithLiveJob, WithEndedJob, Actors, Goto, Return,
    threadVars, jobVars, coordVars
<1>1. ASSUME NEW c \in Clients, NEW t \in HeavyTypes, ManualAcquire(c, t) PROVE OwnJob'
  <2>1. \A b \in Actors : pc[b] \in NotLaunched => cur[b] # c
    BY <1>1 DEF ManualAcquire, Hands
  <2> QED
    BY <1>1, <2>1 DEF ManualAcquire, Hands
<1>2. ASSUME NEW a \in Actors, AutoAcquire(a) PROVE OwnJob'
  BY <1>2 DEF AutoAcquire
<1>3. ASSUME NEW a \in Actors, AutoRefused(a) PROVE OwnJob'
  BY <1>3 DEF AutoRefused
<1>4. ASSUME NEW a \in Actors, DeferBack(a) PROVE OwnJob' BY <1>4 DEF DeferBack
<1>5. ASSUME NEW a \in Actors, NEW j \in Jobs, CreateJob(a, j) PROVE OwnJob'
  <2> SUFFICES ASSUME NEW b \in Actors
               PROVE  /\ pc'[b] \in {"running", "stopping"} => cur'[b] = b
                      /\ pc'[b] \in NotLaunched => pc'[cur'[b]] = "idle"
    BY DEF OwnJob
  <2>1. CASE b = a
    BY <1>5, <2>1 DEF CreateJob, Unused
  <2>2. CASE b # a
    <3>1. pc[b] \in NotLaunched => cur[b] # a
      BY <1>5, <2>2 DEF CreateJob
    <3> QED
      BY <1>5, <2>2, <3>1 DEF CreateJob
  <2> QED
    BY <2>1, <2>2
<1>6. ASSUME NEW a \in Actors, StartFails(a) PROVE OwnJob'
  BY <1>6 DEF StartFails
<1>7. ASSUME NEW a \in Actors, AbortReservation(a) PROVE OwnJob'
  BY <1>7 DEF AbortReservation
<1>8. ASSUME NEW a \in Actors, Bind(a) PROVE OwnJob' BY <1>8 DEF Bind
<1>9. ASSUME NEW a \in Actors, Launch(a) PROVE OwnJob'
  <2> SUFFICES ASSUME NEW b \in Actors
               PROVE  /\ pc'[b] \in {"running", "stopping"} => cur'[b] = b
                      /\ pc'[b] \in NotLaunched => pc'[cur'[b]] = "idle"
    BY DEF OwnJob
  <2>1. cur[a] \in Jobs /\ pc[cur[a]] = "idle" /\ cur[a] # a
    BY <1>9 DEF Launch, Hands
  <2>2. CASE b = a
    BY <1>9, <2>1, <2>2 DEF Launch
  <2>3. CASE b = cur[a]
    BY <1>9, <2>1, <2>3 DEF Launch
  <2>4. CASE b # a /\ b # cur[a]
    <3>1. pc'[b] = pc[b] /\ cur'[b] = cur[b]
      BY <1>9, <2>1, <2>4 DEF Launch
    <3>2. pc[b] \in NotLaunched => cur[b] \in Jobs /\ cur[b] # cur[a] /\ cur[b] # a
      BY <1>9, <2>4 DEF Hands, OneOwner, Launch
    <3> QED
      BY <1>9, <2>1, <3>1, <3>2 DEF Launch
  <2> QED
    BY <2>2, <2>3, <2>4
<1>10. ASSUME NEW a \in Actors, CandidatesFail(a) PROVE OwnJob'
  BY <1>10 DEF CandidatesFail
<1>11. ASSUME NEW a \in Actors, Finish(a) PROVE OwnJob'
  <2>1. pc' = [pc EXCEPT ![a] = "terminal"] /\ cur' = cur
    BY <1>11, EndingJob
  <2>2. \A b \in Actors : pc[b] \in NotLaunched => cur[b] # a
    BY <1>11 DEF Finish, Outcomes
  <2> QED
    BY <2>1, <2>2 DEF Hands
<1>12. ASSUME NEW a \in Actors, FinishFails(a) PROVE OwnJob'
  <2> SUFFICES ASSUME NEW b \in Actors
               PROVE  /\ pc'[b] \in {"running", "stopping"} => cur'[b] = b
                      /\ pc'[b] \in NotLaunched => pc'[cur'[b]] = "idle"
    BY DEF OwnJob
  <2>1. pc[a] # "idle" /\ pc[a] \notin {"created", "bound"}
    BY <1>12 DEF FinishFails, Outcomes
  <2>2. CASE b = a
    BY <1>12, <2>1, <2>2 DEF FinishFails
  <2>3. CASE b # a
    <3>1. pc'[b] = pc[b] /\ cur'[b] = cur[b]
      BY <1>12, <2>3 DEF FinishFails
    <3>2. pc[b] \in NotLaunched => cur[b] \in Jobs /\ cur[b] # a
      BY <2>1
    <3> QED
      BY <1>12, <3>1, <3>2 DEF FinishFails
  <2> QED
    BY <2>2, <2>3
<1>13. ASSUME NEW j \in Jobs, StopWork(j) PROVE OwnJob' BY <1>13 DEF StopWork
<1>14. ASSUME NEW a \in Actors, ReleaseSlot(a) PROVE OwnJob'
  BY <1>14 DEF ReleaseSlot, Releases
<1>15. ASSUME NEW a \in Actors, NotifyTerminal(a) PROVE OwnJob'
  BY <1>15 DEF NotifyTerminal
<1>16. ASSUME NEW a \in Actors, NEW k \in Keys, Pop(a, k) PROVE OwnJob'
  BY <1>16 DEF Pop
<1>17. ASSUME NEW a \in Actors, NothingToPop(a) PROVE OwnJob'
  BY <1>17 DEF NothingToPop
<1>18. CASE TickStart
  <2>1. \A b \in Actors : pc[b] \in NotLaunched => cur[b] # Ticker
    BY <1>18 DEF TickStart, Hands
  <2> QED
    BY <1>18, <2>1 DEF TickStart, Hands
<1>19. ASSUME NEW k \in Keys, TickDefer(k) PROVE OwnJob' BY <1>19 DEF TickDefer
<1>20. CASE TickDispatch BY <1>20 DEF TickDispatch
<1>21. CASE MaintenanceNotNow BY <1>21 DEF MaintenanceNotNow
<1>22. CASE MaintenanceSeesNoJob BY <1>22 DEF MaintenanceSeesNoJob
<1>23. ASSUME NEW j \in Jobs, MaintenanceStarts(j) PROVE OwnJob'
  <2> SUFFICES ASSUME NEW b \in Actors
               PROVE  /\ pc'[b] \in {"running", "stopping"} => cur'[b] = b
                      /\ pc'[b] \in NotLaunched => pc'[cur'[b]] = "idle"
    BY DEF OwnJob
  <2>1. CASE b = Ticker
    BY <1>23, <2>1 DEF MaintenanceStarts, Unused
  <2>2. CASE b # Ticker
    <3>1. pc[b] \in NotLaunched => cur[b] # Ticker
      BY <2>2 DEF Hands
    <3> QED
      BY <1>23, <2>2, <3>1 DEF MaintenanceStarts
  <2> QED
    BY <2>1, <2>2
<1>24. CASE MaintenanceSkipped BY <1>24 DEF MaintenanceSkipped
<1>25. ASSUME NEW j \in Jobs, Cancel(j) PROVE OwnJob' BY <1>25 DEF Cancel
<1>26. CASE Restart BY <1>26 DEF Restart
<1> HIDE DEF Ownership, Hands, OwnJob, TypeOK, ThreadTypeOK, NotLaunched,
    WithLiveJob, WithEndedJob, Actors, Goto, Return, threadVars, jobVars,
    coordVars
<1>27. QED
  BY <1>1, <1>2, <1>3, <1>4, <1>5, <1>6, <1>7, <1>8, <1>9, <1>10, <1>11, <1>12,
     <1>13, <1>14, <1>15, <1>16, <1>17, <1>18, <1>19, <1>20, <1>21, <1>22, <1>23, <1>24, <1>25, <1>26 DEF Next, Step, Tick

-----------------------------------------------------------------------------
(* The slot *)


\* The steps that leave the slot, the jobs and the starts under way alone.
SlotUntouched ==
  /\ UNCHANGED <<active, reserved, row, kind, clobbered>>
  /\ \A b \in Actors : pc[b] = "created" => pc'[b] = "created" /\ cur'[b] = cur[b]

QuietStep(a) ==
  \/ AutoRefused(a) \/ DeferBack(a) \/ StartFails(a) \/ Launch(a) \/ CandidatesFail(a)
  \/ FinishFails(a) \/ (\E k \in Keys : Pop(a, k)) \/ NothingToPop(a)

QuietTick ==
  \/ TickStart \/ TickDispatch \/ MaintenanceNotNow \/ MaintenanceSeesNoJob
  \/ MaintenanceSkipped \/ \E k \in Keys : TickDefer(k)

LEMMA UntouchedByStep ==
  ASSUME TypeOK, Ownership, NEW a \in Actors, QuietStep(a)
  PROVE  SlotUntouched
<1> USE ActorAssumption DEF SlotUntouched, TypeOK, ThreadTypeOK, Actors, Goto,
    Return, coordVars, jobVars, ghostVars, threadVars
<1>1. CASE AutoRefused(a) BY <1>1 DEF AutoRefused
<1>2. CASE DeferBack(a) BY <1>2 DEF DeferBack
<1>3. CASE StartFails(a) BY <1>3 DEF StartFails
<1>4. CASE Launch(a)
  <2>1. cur[a] \in Jobs /\ pc[cur[a]] = "idle" /\ pc[a] = "bound"
    BY <1>4 DEF Launch, Ownership, Hands, OwnJob, WithLiveJob, NotLaunched
  <2> QED
    BY <1>4, <2>1 DEF Launch
<1>5. CASE CandidatesFail(a) BY <1>5 DEF CandidatesFail
<1>6. CASE FinishFails(a) BY <1>6 DEF FinishFails, Outcomes
<1>7. ASSUME NEW k \in Keys, Pop(a, k) PROVE SlotUntouched BY <1>7 DEF Pop
<1>8. CASE NothingToPop(a) BY <1>8 DEF NothingToPop
<1> HIDE DEF SlotUntouched
<1>9. QED
  BY <1>1, <1>2, <1>3, <1>4, <1>5, <1>6, <1>7, <1>8 DEF QuietStep

LEMMA UntouchedByTick ==
  ASSUME TypeOK, QuietTick
  PROVE  SlotUntouched
<1> USE ActorAssumption DEF SlotUntouched, TypeOK, ThreadTypeOK, Actors, Goto,
    Return, coordVars, jobVars, ghostVars, threadVars
<1>1. CASE TickStart BY <1>1 DEF TickStart
<1>2. CASE TickDispatch BY <1>2 DEF TickDispatch
<1>3. CASE MaintenanceNotNow BY <1>3 DEF MaintenanceNotNow
<1>4. CASE MaintenanceSeesNoJob BY <1>4 DEF MaintenanceSeesNoJob
<1>5. CASE MaintenanceSkipped BY <1>5 DEF MaintenanceSkipped
<1>6. ASSUME NEW k \in Keys, TickDefer(k) PROVE SlotUntouched BY <1>6 DEF TickDefer
<1> HIDE DEF SlotUntouched
<1>7. QED
  BY <1>1, <1>2, <1>3, <1>4, <1>5, <1>6 DEF QuietTick

\* A reservation is never left without a goroutine that binds or aborts it.
LEMMA ReservationHeldStep ==
  ASSUME TypeOK, Ownership, ReservationHeld, Next
  PROVE  ReservationHeld'
<1> USE ActorAssumption, KeyAssumption DEF ReservationHeld, TypeOK,
    ThreadTypeOK, Holding, Actors, Goto, Return, threadVars, jobVars, coordVars
<1>1. ASSUME NEW c \in Clients, NEW t \in HeavyTypes, ManualAcquire(c, t) PROVE ReservationHeld'
  BY <1>1 DEF ManualAcquire
<1>2. ASSUME NEW a \in Actors, AutoAcquire(a) PROVE ReservationHeld'
  BY <1>2 DEF AutoAcquire
<1>3. ASSUME NEW a \in Actors, AutoRefused(a) PROVE ReservationHeld'
  BY <1>3 DEF AutoRefused
<1>4. ASSUME NEW a \in Actors, DeferBack(a) PROVE ReservationHeld'
  BY <1>4 DEF DeferBack
<1>5. ASSUME NEW a \in Actors, NEW j \in Jobs, CreateJob(a, j) PROVE ReservationHeld'
  BY <1>5 DEF CreateJob
<1>6. ASSUME NEW a \in Actors, StartFails(a) PROVE ReservationHeld'
  BY <1>6 DEF StartFails
<1>7. ASSUME NEW a \in Actors, AbortReservation(a) PROVE ReservationHeld'
  BY <1>7 DEF AbortReservation
<1>8. ASSUME NEW a \in Actors, Bind(a) PROVE ReservationHeld' BY <1>8 DEF Bind
<1>9. ASSUME NEW a \in Actors, Launch(a) PROVE ReservationHeld'
  <2>1. cur[a] \in Jobs /\ pc[cur[a]] = "idle" /\ pc[a] = "bound"
    BY <1>9 DEF Launch, Ownership, Hands, OwnJob, WithLiveJob, NotLaunched
  <2> QED
    BY <1>9, <2>1 DEF Launch
<1>10. ASSUME NEW a \in Actors, CandidatesFail(a) PROVE ReservationHeld'
  BY <1>10 DEF CandidatesFail
<1>11. ASSUME NEW a \in Actors, Finish(a) PROVE ReservationHeld'
  BY <1>11 DEF Finish, Outcomes
<1>12. ASSUME NEW a \in Actors, FinishFails(a) PROVE ReservationHeld'
  BY <1>12 DEF FinishFails, Outcomes
<1>13. ASSUME NEW j \in Jobs, StopWork(j) PROVE ReservationHeld'
  BY <1>13 DEF StopWork
<1>14. ASSUME NEW a \in Actors, ReleaseSlot(a) PROVE ReservationHeld'
  BY <1>14 DEF ReleaseSlot, Releases
<1>15. ASSUME NEW a \in Actors, NotifyTerminal(a) PROVE ReservationHeld'
  BY <1>15 DEF NotifyTerminal
<1>16. ASSUME NEW a \in Actors, NEW k \in Keys, Pop(a, k) PROVE ReservationHeld'
  BY <1>16 DEF Pop
<1>17. ASSUME NEW a \in Actors, NothingToPop(a) PROVE ReservationHeld'
  BY <1>17 DEF NothingToPop
<1>18. CASE TickStart BY <1>18 DEF TickStart
<1>19. ASSUME NEW k \in Keys, TickDefer(k) PROVE ReservationHeld'
  BY <1>19 DEF TickDefer
<1>20. CASE TickDispatch BY <1>20 DEF TickDispatch
<1>21. CASE MaintenanceNotNow BY <1>21 DEF MaintenanceNotNow
<1>22. CASE MaintenanceSeesNoJob BY <1>22 DEF MaintenanceSeesNoJob
<1>23. ASSUME NEW j \in Jobs, MaintenanceStarts(j) PROVE ReservationHeld'
  BY <1>23 DEF MaintenanceStarts
<1>24. CASE MaintenanceSkipped BY <1>24 DEF MaintenanceSkipped
<1>25. ASSUME NEW j \in Jobs, Cancel(j) PROVE ReservationHeld'
  BY <1>25 DEF Cancel
<1>26. CASE Restart BY <1>26 DEF Restart
<1> HIDE DEF ReservationHeld, TypeOK, ThreadTypeOK, Holding, Actors, Goto,
    Return, threadVars, jobVars, coordVars
<1>27. QED
  BY <1>1, <1>2, <1>3, <1>4, <1>5, <1>6, <1>7, <1>8, <1>9, <1>10, <1>11, <1>12,
     <1>13, <1>14, <1>15, <1>16, <1>17, <1>18, <1>19, <1>20, <1>21, <1>22, <1>23, <1>24, <1>25, <1>26 DEF Next, Step, Tick

\* A job never stays bound without a goroutine that will release it, unless
\* its terminal UPDATE failed.
LEMMA ActiveAccountedStep ==
  ASSUME TypeOK, RowsMatchItems, Ownership, ActiveAccounted, Next
  PROVE  ActiveAccounted'
<1> USE ActorAssumption, KeyAssumption DEF ActiveAccounted, Orphaned, TypeOK,
    ThreadTypeOK, CoordTypeOK, JobTypeOK, Ownership, Hands, WithLiveJob,
    WithEndedJob, Actors, Goto, Return, threadVars, jobVars, coordVars
<1>1. ASSUME NEW c \in Clients, NEW t \in HeavyTypes, ManualAcquire(c, t) PROVE ActiveAccounted'
  BY <1>1 DEF ManualAcquire
<1>2. ASSUME NEW a \in Actors, AutoAcquire(a) PROVE ActiveAccounted'
  BY <1>2 DEF AutoAcquire
<1>3. ASSUME NEW a \in Actors, AutoRefused(a) PROVE ActiveAccounted'
  BY <1>3 DEF AutoRefused
<1>4. ASSUME NEW a \in Actors, DeferBack(a) PROVE ActiveAccounted'
  BY <1>4 DEF DeferBack
<1>5. ASSUME NEW a \in Actors, NEW j \in Jobs, CreateJob(a, j) PROVE ActiveAccounted'
  <2>1. active' = active /\ active # j /\ cur[a] = NoJob
    BY <1>5 DEF CreateJob, Unused
  <2>2. \A b \in Actors : b # a => pc'[b] = pc[b] /\ cur'[b] = cur[b]
    BY <1>5 DEF CreateJob
  <2>3. cur'[a] = j
    BY <1>5 DEF CreateJob
  <2>4. active # NoJob => mem'[active] = mem[active]
    BY <1>5, <2>1 DEF CreateJob
  <2>8. CASE Orphaned(active) /\ active # NoJob
    <3>1. ASSUME NEW b \in Actors PROVE cur'[b] # active
      <4>1. CASE b = a
        BY <2>1, <2>3, <4>1
      <4>2. CASE b # a
        BY <2>2, <2>8, <4>2
      <4> QED
        BY <4>1, <4>2
    <3> QED
      BY <2>1, <2>4, <2>8, <3>1
  <2>9. ASSUME NEW b \in Actors, cur[b] = active, active # NoJob,
               pc[b] \notin {"created", "released"}
        PROVE  \E c \in Actors : cur'[c] = active /\ pc'[c] \notin {"created", "released"}
    BY <2>1, <2>2, <2>9
  <2> QED
    BY <2>1, <2>8, <2>9
<1>6. ASSUME NEW a \in Actors, StartFails(a) PROVE ActiveAccounted'
  BY <1>6 DEF StartFails
<1>7. ASSUME NEW a \in Actors, AbortReservation(a) PROVE ActiveAccounted'
  BY <1>7 DEF AbortReservation
<1>8. ASSUME NEW a \in Actors, Bind(a) PROVE ActiveAccounted' BY <1>8 DEF Bind
<1>9. ASSUME NEW a \in Actors, Launch(a) PROVE ActiveAccounted'
  <2>1. cur[a] \in Jobs /\ pc[cur[a]] = "idle" /\ pc[a] = "bound" /\ cur[a] # a
    BY <1>9 DEF Launch, OwnJob, NotLaunched
  <2>2. active' = active /\ mem' = mem
    BY <1>9 DEF Launch
  <2>3. cur'[cur[a]] = cur[a] /\ pc'[cur[a]] = "running" /\ cur'[a] = NoJob
    BY <1>9, <2>1 DEF Launch
  <2>4. \A b \in Actors \ {a, cur[a]} : pc'[b] = pc[b] /\ cur'[b] = cur[b]
    BY <1>9 DEF Launch
  <2>5. cur[cur[a]] = NoJob
    BY <2>1
  <2>6. CASE Orphaned(active) /\ active # NoJob
    <3>1. active # cur[a]
      BY <2>6
    <3>2. \A b \in Actors : cur'[b] # active
      BY <2>3, <2>4, <2>6, <3>1
    <3> QED
      BY <2>2, <2>6, <3>2
  <2>7. ASSUME NEW b \in Actors, cur[b] = active, active # NoJob,
               pc[b] \notin {"created", "released"}
        PROVE  \E c \in Actors : cur'[c] = active /\ pc'[c] \notin {"created", "released"}
    <3>1. CASE b = a
      BY <2>1, <2>3, <2>7, <3>1
    <3>2. CASE b # a
      BY <2>4, <2>5, <2>7, <3>2
    <3> QED
      BY <3>1, <3>2
  <2> QED
    BY <2>2, <2>6, <2>7
<1>10. ASSUME NEW a \in Actors, CandidatesFail(a) PROVE ActiveAccounted'
  BY <1>10 DEF CandidatesFail
<1>11. ASSUME NEW a \in Actors, Finish(a) PROVE ActiveAccounted'
  <2>1. cur[a] \in Jobs /\ cur' = cur /\ pc' = [pc EXCEPT ![a] = "terminal"]
        /\ mem' = [mem EXCEPT ![cur[a]] = "none"]
    BY <1>11, EndingJob
  <2>2. active' = active
    BY <1>11 DEF Finish
  <2>3. CASE Orphaned(active) /\ active # NoJob
    <3>1. active # cur[a] /\ active \in Jobs
      BY <2>3
    <3>2. mem'[active] = mem[active]
      BY <2>1, <3>1
    <3> QED
      BY <2>1, <2>2, <2>3, <3>2
  <2> QED
    BY <2>1, <2>2, <2>3
<1>12. ASSUME NEW a \in Actors, FinishFails(a) PROVE ActiveAccounted'
  <2>1. active' = active /\ mem' = mem
    BY <1>12 DEF FinishFails
  <2>2. pc[a] \in WithLiveJob /\ cur'[a] = NoJob
    BY <1>12 DEF FinishFails, Outcomes
  <2>3. mem[cur[a]] \in ActiveStatus
    BY ZenonT(30), <2>2 DEF Live, RowsMatchItems
  <2>4. \A b \in Actors \ {a} : pc'[b] = pc[b] /\ cur'[b] = cur[b]
    BY <1>12 DEF FinishFails
  <2>5. cur[a] \in Jobs /\ \A b \in Actors \ {a} : cur[b] # cur[a]
    BY <2>2 DEF OneOwner
  <2>6. CASE active = cur[a]
    <3>1. ASSUME NEW b \in Actors PROVE cur'[b] # active
      <4>1. CASE b = a
        BY <2>2, <2>5, <2>6, <4>1
      <4>2. CASE b # a
        BY <2>4, <2>5, <2>6, <4>2
      <4> QED
        BY <4>1, <4>2
    <3> QED
      BY <2>1, <2>3, <2>6, <3>1
  <2>7. CASE active # cur[a]
    BY <2>1, <2>2, <2>4, <2>7
  <2> QED
    BY <2>6, <2>7
<1>13. ASSUME NEW j \in Jobs, StopWork(j) PROVE ActiveAccounted'
  <2>1. active' = active /\ cur' = cur /\ pc' = [pc EXCEPT ![j] = "stopping"]
    BY <1>13 DEF StopWork
  <2>2. \A i \in Jobs : mem[i] \in ActiveStatus => mem'[i] \in ActiveStatus
    BY ZenonT(30), <1>13 DEF StopWork, ActiveStatus
  <2> QED
    BY <2>1, <2>2
<1>14. ASSUME NEW a \in Actors, ReleaseSlot(a) PROVE ActiveAccounted'
  BY ZenonT(30), <1>14 DEF ReleaseSlot, Releases
<1>15. ASSUME NEW a \in Actors, NotifyTerminal(a) PROVE ActiveAccounted'
  BY <1>15 DEF NotifyTerminal
<1>16. ASSUME NEW a \in Actors, NEW k \in Keys, Pop(a, k) PROVE ActiveAccounted'
  BY <1>16 DEF Pop
<1>17. ASSUME NEW a \in Actors, NothingToPop(a) PROVE ActiveAccounted'
  BY <1>17 DEF NothingToPop
<1>18. CASE TickStart BY <1>18 DEF TickStart
<1>19. ASSUME NEW k \in Keys, TickDefer(k) PROVE ActiveAccounted'
  BY <1>19 DEF TickDefer
<1>20. CASE TickDispatch BY <1>20 DEF TickDispatch
<1>21. CASE MaintenanceNotNow BY <1>21 DEF MaintenanceNotNow
<1>22. CASE MaintenanceSeesNoJob BY <1>22 DEF MaintenanceSeesNoJob
<1>23. ASSUME NEW j \in Jobs, MaintenanceStarts(j) PROVE ActiveAccounted'
  BY ZenonT(30), <1>23 DEF MaintenanceStarts
<1>24. CASE MaintenanceSkipped BY <1>24 DEF MaintenanceSkipped
<1>25. ASSUME NEW j \in Jobs, Cancel(j) PROVE ActiveAccounted'
  <2>1. active' = active /\ cur' = cur /\ pc' = pc
    BY <1>25 DEF Cancel
  <2>2. \A i \in Jobs : mem[i] \in ActiveStatus => mem'[i] \in ActiveStatus
    BY <1>25 DEF Cancel, ActiveStatus
  <2> QED
    BY <2>1, <2>2
<1>26. CASE Restart BY <1>26 DEF Restart
<1> HIDE DEF ActiveAccounted, Orphaned, TypeOK, ThreadTypeOK, CoordTypeOK,
    JobTypeOK, Ownership, Hands, WithLiveJob, WithEndedJob, Actors, Goto,
    Return, threadVars, jobVars, coordVars
<1>27. QED
  BY <1>1, <1>2, <1>3, <1>4, <1>5, <1>6, <1>7, <1>8, <1>9, <1>10, <1>11, <1>12,
     <1>13, <1>14, <1>15, <1>16, <1>17, <1>18, <1>19, <1>20, <1>21, <1>22, <1>23, <1>24, <1>25, <1>26 DEF Next, Step, Tick


\* As long as no Release hits a reservation, reservation and bound job exclude
\* each other, and only one goroutine acts on the reservation.
LEMMA ReservationStep ==
  ASSUME TypeOK, Requests, ~clobbered => SlotGuards, Next
  PROVE  ~clobbered' => Reservation'
<1> USE ActorAssumption, KeyAssumption DEF Requests, HeavyTypes, NoWant,
    Outcomes, TypeOK, ThreadTypeOK, SlotGuards, Reservation, OneHolder,
    SlotFree, Holding, Actors, Goto, Return, threadVars, jobVars, coordVars,
    ghostVars
<1>1. ASSUME NEW c \in Clients, NEW t \in HeavyTypes, ManualAcquire(c, t) PROVE ~clobbered' => Reservation'
  BY <1>1 DEF ManualAcquire
<1>2. ASSUME NEW a \in Actors, AutoAcquire(a) PROVE ~clobbered' => Reservation'
  BY <1>2 DEF AutoAcquire
<1>3. ASSUME NEW a \in Actors, AutoRefused(a) PROVE ~clobbered' => Reservation'
  BY <1>3 DEF AutoRefused
<1>4. ASSUME NEW a \in Actors, DeferBack(a) PROVE ~clobbered' => Reservation'
  BY <1>4 DEF DeferBack
<1>5. ASSUME NEW a \in Actors, NEW j \in Jobs, CreateJob(a, j) PROVE ~clobbered' => Reservation'
  BY <1>5 DEF CreateJob
<1>6. ASSUME NEW a \in Actors, StartFails(a) PROVE ~clobbered' => Reservation'
  BY <1>6 DEF StartFails
<1>7. ASSUME NEW a \in Actors, AbortReservation(a) PROVE ~clobbered' => Reservation'
  BY <1>7 DEF AbortReservation
<1>8. ASSUME NEW a \in Actors, Bind(a) PROVE ~clobbered' => Reservation'
  BY <1>8 DEF Bind
<1>9. ASSUME NEW a \in Actors, Launch(a) PROVE ~clobbered' => Reservation'
  BY <1>9 DEF Launch
<1>10. ASSUME NEW a \in Actors, CandidatesFail(a) PROVE ~clobbered' => Reservation'
  BY <1>10 DEF CandidatesFail
<1>11. ASSUME NEW a \in Actors, Finish(a) PROVE ~clobbered' => Reservation'
  BY <1>11 DEF Finish
<1>12. ASSUME NEW a \in Actors, FinishFails(a) PROVE ~clobbered' => Reservation'
  BY <1>12 DEF FinishFails
<1>13. ASSUME NEW j \in Jobs, StopWork(j) PROVE ~clobbered' => Reservation'
  BY <1>13 DEF StopWork
<1>14. ASSUME NEW a \in Actors, ReleaseSlot(a) PROVE ~clobbered' => Reservation'
  BY <1>14 DEF ReleaseSlot, Releases
<1>15. ASSUME NEW a \in Actors, NotifyTerminal(a) PROVE ~clobbered' => Reservation'
  BY <1>15 DEF NotifyTerminal
<1>16. ASSUME NEW a \in Actors, NEW k \in Keys, Pop(a, k) PROVE ~clobbered' => Reservation'
  BY <1>16 DEF Pop
<1>17. ASSUME NEW a \in Actors, NothingToPop(a) PROVE ~clobbered' => Reservation'
  BY <1>17 DEF NothingToPop
<1>18. CASE TickStart BY <1>18 DEF TickStart
<1>19. ASSUME NEW k \in Keys, TickDefer(k) PROVE ~clobbered' => Reservation'
  BY <1>19 DEF TickDefer
<1>20. CASE TickDispatch BY <1>20 DEF TickDispatch
<1>21. CASE MaintenanceNotNow BY <1>21 DEF MaintenanceNotNow
<1>22. CASE MaintenanceSeesNoJob BY <1>22 DEF MaintenanceSeesNoJob
<1>23. ASSUME NEW j \in Jobs, MaintenanceStarts(j) PROVE ~clobbered' => Reservation'
  BY <1>23 DEF MaintenanceStarts
<1>24. CASE MaintenanceSkipped BY <1>24 DEF MaintenanceSkipped
<1>25. ASSUME NEW j \in Jobs, Cancel(j) PROVE ~clobbered' => Reservation'
  BY <1>25 DEF Cancel
<1>26. CASE Restart BY <1>26 DEF Restart
<1> HIDE DEF Requests, HeavyTypes, NoWant, Outcomes, TypeOK, ThreadTypeOK,
    SlotGuards, Reservation, OneHolder, SlotFree, Holding, Actors, Goto, Return,
    threadVars, jobVars, coordVars, ghostVars
<1>27. QED
  BY <1>1, <1>2, <1>3, <1>4, <1>5, <1>6, <1>7, <1>8, <1>9, <1>10, <1>11, <1>12,
     <1>13, <1>14, <1>15, <1>16, <1>17, <1>18, <1>19, <1>20, <1>21, <1>22, <1>23, <1>24, <1>25, <1>26 DEF Next, Step, Tick

LEMMA OneHolderStep ==
  ASSUME TypeOK, ~clobbered => SlotGuards, Next
  PROVE  ~clobbered' => OneHolder'
<1> USE ActorAssumption, KeyAssumption DEF Outcomes, TypeOK, ThreadTypeOK,
    SlotGuards, Reservation, OneHolder, SlotFree, Holding, Actors, Goto, Return,
    threadVars, jobVars, coordVars, ghostVars
<1>1. ASSUME NEW c \in Clients, NEW t \in HeavyTypes, ManualAcquire(c, t) PROVE ~clobbered' => OneHolder'
  BY <1>1 DEF ManualAcquire
<1>2. ASSUME NEW a \in Actors, AutoAcquire(a) PROVE ~clobbered' => OneHolder'
  BY <1>2 DEF AutoAcquire
<1>3. ASSUME NEW a \in Actors, AutoRefused(a) PROVE ~clobbered' => OneHolder'
  BY <1>3 DEF AutoRefused
<1>4. ASSUME NEW a \in Actors, DeferBack(a) PROVE ~clobbered' => OneHolder'
  BY <1>4 DEF DeferBack
<1>5. ASSUME NEW a \in Actors, NEW j \in Jobs, CreateJob(a, j) PROVE ~clobbered' => OneHolder'
  BY <1>5 DEF CreateJob
<1>6. ASSUME NEW a \in Actors, StartFails(a) PROVE ~clobbered' => OneHolder'
  BY <1>6 DEF StartFails
<1>7. ASSUME NEW a \in Actors, AbortReservation(a) PROVE ~clobbered' => OneHolder'
  BY <1>7 DEF AbortReservation
<1>8. ASSUME NEW a \in Actors, Bind(a) PROVE ~clobbered' => OneHolder'
  BY <1>8 DEF Bind
<1>9. ASSUME NEW a \in Actors, Launch(a) PROVE ~clobbered' => OneHolder'
  BY <1>9 DEF Launch
<1>10. ASSUME NEW a \in Actors, CandidatesFail(a) PROVE ~clobbered' => OneHolder'
  BY <1>10 DEF CandidatesFail
<1>11. ASSUME NEW a \in Actors, Finish(a) PROVE ~clobbered' => OneHolder'
  BY <1>11 DEF Finish
<1>12. ASSUME NEW a \in Actors, FinishFails(a) PROVE ~clobbered' => OneHolder'
  BY <1>12 DEF FinishFails
<1>13. ASSUME NEW j \in Jobs, StopWork(j) PROVE ~clobbered' => OneHolder'
  BY <1>13 DEF StopWork
<1>14. ASSUME NEW a \in Actors, ReleaseSlot(a) PROVE ~clobbered' => OneHolder'
  BY <1>14 DEF ReleaseSlot, Releases
<1>15. ASSUME NEW a \in Actors, NotifyTerminal(a) PROVE ~clobbered' => OneHolder'
  BY <1>15 DEF NotifyTerminal
<1>16. ASSUME NEW a \in Actors, NEW k \in Keys, Pop(a, k) PROVE ~clobbered' => OneHolder'
  BY <1>16 DEF Pop
<1>17. ASSUME NEW a \in Actors, NothingToPop(a) PROVE ~clobbered' => OneHolder'
  BY <1>17 DEF NothingToPop
<1>18. CASE TickStart BY <1>18 DEF TickStart
<1>19. ASSUME NEW k \in Keys, TickDefer(k) PROVE ~clobbered' => OneHolder'
  BY <1>19 DEF TickDefer
<1>20. CASE TickDispatch BY <1>20 DEF TickDispatch
<1>21. CASE MaintenanceNotNow BY <1>21 DEF MaintenanceNotNow
<1>22. CASE MaintenanceSeesNoJob BY <1>22 DEF MaintenanceSeesNoJob
<1>23. ASSUME NEW j \in Jobs, MaintenanceStarts(j) PROVE ~clobbered' => OneHolder'
  BY <1>23 DEF MaintenanceStarts
<1>24. CASE MaintenanceSkipped BY <1>24 DEF MaintenanceSkipped
<1>25. ASSUME NEW j \in Jobs, Cancel(j) PROVE ~clobbered' => OneHolder'
  BY <1>25 DEF Cancel
<1>26. CASE Restart BY <1>26 DEF Restart
<1> HIDE DEF Outcomes, TypeOK, ThreadTypeOK, SlotGuards, Reservation, OneHolder,
    SlotFree, Holding, Actors, Goto, Return, threadVars, jobVars, coordVars,
    ghostVars
<1>27. QED
  BY <1>1, <1>2, <1>3, <1>4, <1>5, <1>6, <1>7, <1>8, <1>9, <1>10, <1>11, <1>12,
     <1>13, <1>14, <1>15, <1>16, <1>17, <1>18, <1>19, <1>20, <1>21, <1>22, <1>23, <1>24, <1>25, <1>26 DEF Next, Step, Tick

\* ... and every heavy job at work is bound or under the reservation.
LEMMA GuardedStep ==
  ASSUME TypeOK, RowsMatchItems, Ownership, ~clobbered => SlotGuards, Next
  PROVE  ~clobbered' => Guarded'
<1> USE ActorAssumption, KeyAssumption DEF TypeOK, ThreadTypeOK, JobTypeOK,
    Ownership, HeavyTypes, ActiveStatus, Actors, Goto, Return, threadVars,
    jobVars, coordVars, ghostVars
<1>1. ASSUME NEW a \in Actors, QuietStep(a) PROVE ~clobbered' => Guarded'
  <2> SUFFICES ASSUME ~clobbered', NEW i \in Jobs, kind'[i] \in HeavyTypes,
                      row'[i] \in ActiveStatus
               PROVE  active' = i \/ \E b \in Actors : pc'[b] = "created" /\ cur'[b] = i
    BY DEF Guarded, HeavyActive
  <2>1. SlotUntouched
    BY <1>1, UntouchedByStep
  <2>2. i \in HeavyActive /\ ~clobbered
    BY <2>1 DEF SlotUntouched, HeavyActive
  <2>3. active = i \/ \E b \in Actors : pc[b] = "created" /\ cur[b] = i
    BY <2>2 DEF SlotGuards, Guarded
  <2> QED
    BY <2>1, <2>3 DEF SlotUntouched
<1>2. CASE QuietTick
  <2> SUFFICES ASSUME ~clobbered', NEW i \in Jobs, kind'[i] \in HeavyTypes,
                      row'[i] \in ActiveStatus
               PROVE  active' = i \/ \E b \in Actors : pc'[b] = "created" /\ cur'[b] = i
    BY DEF Guarded, HeavyActive
  <2>1. SlotUntouched
    BY <1>2, UntouchedByTick
  <2>2. i \in HeavyActive /\ ~clobbered
    BY <2>1 DEF SlotUntouched, HeavyActive
  <2>3. active = i \/ \E b \in Actors : pc[b] = "created" /\ cur[b] = i
    BY <2>2 DEF SlotGuards, Guarded
  <2> QED
    BY <2>1, <2>3 DEF SlotUntouched
<1>3. ASSUME NEW c \in Clients, NEW t \in HeavyTypes, ManualAcquire(c, t) PROVE ~clobbered' => Guarded'
  <2> SUFFICES ASSUME ~clobbered', NEW i \in Jobs, kind'[i] \in HeavyTypes,
                      row'[i] \in ActiveStatus
               PROVE  active' = i \/ \E b \in Actors : pc'[b] = "created" /\ cur'[b] = i
    BY DEF Guarded, HeavyActive
  <2>1. i \in HeavyActive /\ ~clobbered
    BY <1>3 DEF ManualAcquire, HeavyActive
  <2>2. active = i \/ \E b \in Actors : pc[b] = "created" /\ cur[b] = i
    BY <2>1 DEF SlotGuards, Guarded
  <2>3. \A b \in Actors : pc[b] = "created" => pc'[b] = "created" /\ cur'[b] = cur[b]
    BY <1>3 DEF ManualAcquire
  <2> QED
    BY <1>3, <2>2, <2>3 DEF ManualAcquire
<1>4. ASSUME NEW a \in Actors, AutoAcquire(a) PROVE ~clobbered' => Guarded'
  <2> SUFFICES ASSUME ~clobbered', NEW i \in Jobs, kind'[i] \in HeavyTypes,
                      row'[i] \in ActiveStatus
               PROVE  active' = i \/ \E b \in Actors : pc'[b] = "created" /\ cur'[b] = i
    BY DEF Guarded, HeavyActive
  <2>1. i \in HeavyActive /\ ~clobbered
    BY <1>4 DEF AutoAcquire, HeavyActive
  <2>2. active = i \/ \E b \in Actors : pc[b] = "created" /\ cur[b] = i
    BY <2>1 DEF SlotGuards, Guarded
  <2>3. \A b \in Actors : pc[b] = "created" => pc'[b] = "created" /\ cur'[b] = cur[b]
    BY <1>4 DEF AutoAcquire
  <2> QED
    BY <1>4, <2>2, <2>3 DEF AutoAcquire
<1>5. ASSUME NEW a \in Actors, NEW j \in Jobs, CreateJob(a, j) PROVE ~clobbered' => Guarded'
  <2> SUFFICES ASSUME ~clobbered', NEW i \in Jobs, kind'[i] \in HeavyTypes,
                      row'[i] \in ActiveStatus
               PROVE  active' = i \/ \E b \in Actors : pc'[b] = "created" /\ cur'[b] = i
    BY DEF Guarded, HeavyActive
  <2>1. CASE i = j
    BY <1>5, <2>1 DEF CreateJob
  <2>2. CASE i # j
    <3>1. i \in HeavyActive /\ ~clobbered /\ pc[a] = "reserved" /\ active' = active
      BY <1>5, <2>2 DEF CreateJob, HeavyActive
    <3>2. active # i
      BY <3>1 DEF SlotGuards, Reservation, Holding
    <3>3. PICK b \in Actors : pc[b] = "created" /\ cur[b] = i
      BY <3>1, <3>2 DEF SlotGuards, Guarded
    <3> QED
      BY <1>5, <3>1, <3>3 DEF CreateJob
  <2> QED
    BY <2>1, <2>2
<1>6. ASSUME NEW a \in Actors, AbortReservation(a) PROVE ~clobbered' => Guarded'
  <2> SUFFICES ASSUME ~clobbered', NEW i \in Jobs, kind'[i] \in HeavyTypes,
                      row'[i] \in ActiveStatus
               PROVE  active' = i \/ \E b \in Actors : pc'[b] = "created" /\ cur'[b] = i
    BY DEF Guarded, HeavyActive
  <2>1. i \in HeavyActive /\ ~clobbered
    BY <1>6 DEF AbortReservation, HeavyActive
  <2>2. active = i \/ \E b \in Actors : pc[b] = "created" /\ cur[b] = i
    BY <2>1 DEF SlotGuards, Guarded
  <2>3. \A b \in Actors : pc[b] = "created" => pc'[b] = "created" /\ cur'[b] = cur[b]
    BY <1>6 DEF AbortReservation
  <2> QED
    BY <1>6, <2>2, <2>3 DEF AbortReservation
<1>7. ASSUME NEW a \in Actors, Bind(a) PROVE ~clobbered' => Guarded'
  <2> SUFFICES ASSUME ~clobbered', NEW i \in Jobs, kind'[i] \in HeavyTypes,
                      row'[i] \in ActiveStatus
               PROVE  active' = i \/ \E b \in Actors : pc'[b] = "created" /\ cur'[b] = i
    BY DEF Guarded, HeavyActive
  <2>1. i \in HeavyActive /\ ~clobbered /\ pc[a] = "created" /\ active' = cur[a]
    BY <1>7 DEF Bind, HeavyActive
  <2>2. active # i
    BY <2>1 DEF SlotGuards, Reservation, Holding
  <2>3. PICK b \in Actors : pc[b] = "created" /\ cur[b] = i
    BY <2>1, <2>2 DEF SlotGuards, Guarded
  <2>4. b = a
    BY <2>1, <2>3 DEF SlotGuards, OneHolder, Holding
  <2> QED
    BY <2>1, <2>3, <2>4
<1>8. ASSUME NEW a \in Actors, Finish(a) PROVE ~clobbered' => Guarded'
  <2> SUFFICES ASSUME ~clobbered', NEW i \in Jobs, kind'[i] \in HeavyTypes,
                      row'[i] \in ActiveStatus
               PROVE  active' = i \/ \E b \in Actors : pc'[b] = "created" /\ cur'[b] = i
    BY DEF Guarded, HeavyActive
  <2>1. pc[a] # "created" /\ active' = active /\ ~clobbered /\ kind' = kind
    BY <1>8 DEF Finish, Outcomes
  <2>2. i # cur[a]
    <3>1. PICK status \in TerminalStatus : row' = [row EXCEPT ![cur[a]] = status]
      BY <1>8, EndingJob
    <3> QED
      BY <3>1 DEF TerminalStatus
  <2>3. i \in HeavyActive
    <3>1. PICK status \in TerminalStatus : row' = [row EXCEPT ![cur[a]] = status]
      BY <1>8, EndingJob
    <3> QED
      BY <2>1, <2>2, <3>1 DEF HeavyActive
  <2>4. active = i \/ \E b \in Actors : pc[b] = "created" /\ cur[b] = i
    BY <2>1, <2>3 DEF SlotGuards, Guarded
  <2>5. cur' = cur /\ pc' = [pc EXCEPT ![a] = "terminal"]
    BY <1>8, EndingJob
  <2> QED
    BY <2>1, <2>4, <2>5
<1>9. ASSUME NEW j \in Jobs, StopWork(j) PROVE ~clobbered' => Guarded'
  <2> SUFFICES ASSUME ~clobbered', NEW i \in Jobs, kind'[i] \in HeavyTypes,
                      row'[i] \in ActiveStatus
               PROVE  active' = i \/ \E b \in Actors : pc'[b] = "created" /\ cur'[b] = i
    BY DEF Guarded, HeavyActive
  <2>1. cur[j] = j /\ row[j] \in ActiveStatus
    BY <1>9 DEF StopWork, Live, OwnJob, WithLiveJob
  <2>2. i \in HeavyActive /\ ~clobbered
    BY <1>9, <2>1 DEF StopWork, HeavyActive
  <2>3. active = i \/ \E b \in Actors : pc[b] = "created" /\ cur[b] = i
    BY <2>2 DEF SlotGuards, Guarded
  <2>4. \A b \in Actors : pc[b] = "created" => pc'[b] = "created" /\ cur'[b] = cur[b]
    BY <1>9 DEF StopWork
  <2> QED
    BY <1>9, <2>3, <2>4 DEF StopWork
<1>10. ASSUME NEW a \in Actors, ReleaseSlot(a) PROVE ~clobbered' => Guarded'
  <2> SUFFICES ASSUME ~clobbered', NEW i \in Jobs, kind'[i] \in HeavyTypes,
                      row'[i] \in ActiveStatus
               PROVE  active' = i \/ \E b \in Actors : pc'[b] = "created" /\ cur'[b] = i
    BY DEF Guarded, HeavyActive
  <2>1. i \in HeavyActive /\ ~clobbered /\ pc[a] = "terminal"
    BY <1>10 DEF ReleaseSlot, Releases, HeavyActive
  <2>2. active = i \/ \E b \in Actors : pc[b] = "created" /\ cur[b] = i
    BY <2>1 DEF SlotGuards, Guarded
  <2>3. \A b \in Actors : pc[b] = "created" => pc'[b] = "created" /\ cur'[b] = cur[b]
    BY <1>10 DEF ReleaseSlot, Releases
  <2>4. active = i => active' = i
    <3>1. i # cur[a] /\ i # NoJob
      BY <2>1 DEF HeavyActive, Live, WithEndedJob
    <3> QED
      BY <1>10, <3>1 DEF ReleaseSlot, Releases
  <2> QED
    BY <2>2, <2>3, <2>4
<1>11. ASSUME NEW a \in Actors, NotifyTerminal(a) PROVE ~clobbered' => Guarded'
  <2> SUFFICES ASSUME ~clobbered', NEW i \in Jobs, kind'[i] \in HeavyTypes,
                      row'[i] \in ActiveStatus
               PROVE  active' = i \/ \E b \in Actors : pc'[b] = "created" /\ cur'[b] = i
    BY DEF Guarded, HeavyActive
  <2>1. cur[a] \in Jobs /\ row' = [row EXCEPT ![cur[a]] = "none"]
        /\ kind' = [kind EXCEPT ![cur[a]] = ""]
    BY <1>11, ForgottenJob
  <2>2. ~clobbered /\ active' = active
    BY <1>11 DEF NotifyTerminal
  <2>5. i # cur[a] /\ i \in HeavyActive
    BY <2>1 DEF HeavyActive
  <2>3. active = i \/ \E b \in Actors : pc[b] = "created" /\ cur[b] = i
    BY <2>2, <2>5 DEF SlotGuards, Guarded
  <2>4. \A b \in Actors : pc[b] = "created" => pc'[b] = "created" /\ cur'[b] = cur[b]
    BY <1>11 DEF NotifyTerminal
  <2> QED
    BY <2>2, <2>3, <2>4
<1>12. ASSUME NEW j \in Jobs, MaintenanceStarts(j) PROVE ~clobbered' => Guarded'
  <2> SUFFICES ASSUME ~clobbered', NEW i \in Jobs, kind'[i] \in HeavyTypes,
                      row'[i] \in ActiveStatus
               PROVE  active' = i \/ \E b \in Actors : pc'[b] = "created" /\ cur'[b] = i
    BY DEF Guarded, HeavyActive
  <2>1. i \in HeavyActive /\ ~clobbered
    BY <1>12 DEF MaintenanceStarts, HeavyActive
  <2>2. active = i \/ \E b \in Actors : pc[b] = "created" /\ cur[b] = i
    BY <2>1 DEF SlotGuards, Guarded
  <2>3. \A b \in Actors : pc[b] = "created" => pc'[b] = "created" /\ cur'[b] = cur[b]
    BY <1>12 DEF MaintenanceStarts
  <2>4. active' = active
    BY <1>12 DEF MaintenanceStarts
  <2> QED
    BY <2>2, <2>3, <2>4
<1>13. ASSUME NEW j \in Jobs, Cancel(j) PROVE ~clobbered' => Guarded'
  <2> SUFFICES ASSUME ~clobbered', NEW i \in Jobs, kind'[i] \in HeavyTypes,
                      row'[i] \in ActiveStatus
               PROVE  active' = i \/ \E b \in Actors : pc'[b] = "created" /\ cur'[b] = i
    BY DEF Guarded, HeavyActive
  <2>1. row[j] \in ActiveStatus /\ kind' = kind /\ ~clobbered
    BY <1>13 DEF Cancel, RowsMatchItems, ActiveStatus
  <2>2. row' = row \/ row' = [row EXCEPT ![j] = "cancel_requested"]
    BY <1>13 DEF Cancel
  <2>3. i \in HeavyActive
    BY <2>1, <2>2 DEF HeavyActive
  <2>4. active = i \/ \E b \in Actors : pc[b] = "created" /\ cur[b] = i
    BY <2>1, <2>3 DEF SlotGuards, Guarded
  <2>5. active' = active /\ pc' = pc /\ cur' = cur
    BY <1>13 DEF Cancel
  <2> QED
    BY <2>4, <2>5
<1>14. CASE Restart
  <2> SUFFICES ASSUME ~clobbered', NEW i \in Jobs, kind'[i] \in HeavyTypes,
                      row'[i] \in ActiveStatus
               PROVE  active' = i \/ \E b \in Actors : pc'[b] = "created" /\ cur'[b] = i
    BY DEF Guarded, HeavyActive
  <2>1. row'[i] \in {"interrupted", "none"}
    BY <1>14 DEF Restart
  <2> QED
    BY <2>1
<1> HIDE DEF TypeOK, ThreadTypeOK, JobTypeOK, Ownership, HeavyTypes,
    ActiveStatus, Actors, Goto, Return, threadVars, jobVars, coordVars,
    ghostVars
<1>15. QED
  BY <1>1, <1>2, <1>3, <1>4, <1>5, <1>6, <1>7, <1>8, <1>9, <1>10, <1>11, <1>12,
     <1>13, <1>14 DEF Next, Step, Tick, QuietStep, QuietTick


-----------------------------------------------------------------------------
(* Intents and statuses *)

\* An intent a goroutine carries is still carried, pending again or settled.
StillOnTheWay(a) ==
  pc[a] \in Carrying =>
    \/ pc'[a] \in Carrying /\ want'[a] = want[a]
    \/ want[a].key \notin triggered' \ pending'

LEMMA TriggersStay ==
  ASSUME NoTriggerLost, pending \subseteq pending',
         \A k \in triggered' \ triggered : k \in pending',
         \A a \in Actors : StillOnTheWay(a)
  PROVE  NoTriggerLost'
<1> SUFFICES ASSUME NEW k \in triggered', k \notin pending'
             PROVE  \E a \in Actors : Carries(a, k)'
  BY DEF NoTriggerLost
<1>1. PICK a \in Actors : Carries(a, k)
  BY DEF NoTriggerLost
<1>2. pc'[a] \in Carrying /\ want'[a] = want[a]
  BY <1>1 DEF Carries, StillOnTheWay
<1> QED
  BY <1>1, <1>2 DEF Carries

\* Nobody drops an intent: pending hands it to one goroutine, which binds a job
\* for it, gives up with an error, or puts it back before it goes on.
LEMMA NoTriggerLostStep ==
  ASSUME TypeOK, Ownership, NoTriggerLost, Next
  PROVE  NoTriggerLost'
<1> USE ActorAssumption, KeyAssumption DEF NoTriggerLost, Carries, Carrying, Holding, TypeOK, CoordTypeOK,
    ThreadTypeOK, GhostTypeOK, NoKey, NoWant, Actors, Goto, Return,
    threadVars, jobVars, coordVars, ghostVars
<1>1. ASSUME NEW c \in Clients, NEW t \in HeavyTypes, ManualAcquire(c, t) PROVE NoTriggerLost'
  BY <1>1 DEF ManualAcquire
<1>2. ASSUME NEW a \in Actors, AutoAcquire(a) PROVE NoTriggerLost'
  BY <1>2 DEF AutoAcquire
<1>3. ASSUME NEW a \in Actors, AutoRefused(a) PROVE NoTriggerLost'
  <2>1. \A b \in Actors : StillOnTheWay(b)
    BY <1>3 DEF AutoRefused, StillOnTheWay
  <2>2. triggered' \subseteq triggered \/ \A q \in triggered' \ triggered : q \in pending'
    BY <1>3 DEF AutoRefused
  <2>3. pending \subseteq pending'
    BY <1>3 DEF AutoRefused
  <2> HIDE DEF NoTriggerLost, Carries, Carrying, TypeOK, ThreadTypeOK
  <2> QED
    BY <2>1, <2>2, <2>3, TriggersStay
<1>4. ASSUME NEW a \in Actors, DeferBack(a) PROVE NoTriggerLost'
  <2>1. \A b \in Actors : StillOnTheWay(b)
    BY <1>4 DEF DeferBack, StillOnTheWay
  <2>2. triggered' \subseteq triggered \/ \A q \in triggered' \ triggered : q \in pending'
    BY <1>4 DEF DeferBack
  <2>3. pending \subseteq pending'
    BY <1>4 DEF DeferBack
  <2> HIDE DEF NoTriggerLost, Carries, Carrying, TypeOK, ThreadTypeOK
  <2> QED
    BY <2>1, <2>2, <2>3, TriggersStay
<1>5. ASSUME NEW a \in Actors, NEW j \in Jobs, CreateJob(a, j) PROVE NoTriggerLost'
  BY <1>5 DEF CreateJob
<1>6. ASSUME NEW a \in Actors, StartFails(a) PROVE NoTriggerLost'
  <2>1. \A b \in Actors : StillOnTheWay(b)
    BY <1>6 DEF StartFails, StillOnTheWay
  <2>2. triggered' \subseteq triggered \/ \A q \in triggered' \ triggered : q \in pending'
    BY <1>6 DEF StartFails
  <2>3. pending \subseteq pending'
    BY <1>6 DEF StartFails
  <2> HIDE DEF NoTriggerLost, Carries, Carrying, TypeOK, ThreadTypeOK
  <2> QED
    BY <2>1, <2>2, <2>3, TriggersStay
<1>7. ASSUME NEW a \in Actors, AbortReservation(a) PROVE NoTriggerLost'
  <2>1. \A b \in Actors : StillOnTheWay(b)
    BY <1>7 DEF AbortReservation, StillOnTheWay
  <2>2. triggered' \subseteq triggered \/ \A q \in triggered' \ triggered : q \in pending'
    BY <1>7 DEF AbortReservation
  <2>3. pending \subseteq pending'
    BY <1>7 DEF AbortReservation
  <2> HIDE DEF NoTriggerLost, Carries, Carrying, TypeOK, ThreadTypeOK
  <2> QED
    BY <2>1, <2>2, <2>3, TriggersStay
<1>8. ASSUME NEW a \in Actors, Bind(a) PROVE NoTriggerLost'
  <2>1. \A b \in Actors : StillOnTheWay(b)
    BY <1>8 DEF Bind, StillOnTheWay
  <2>2. triggered' \subseteq triggered \/ \A q \in triggered' \ triggered : q \in pending'
    BY <1>8 DEF Bind
  <2>3. pending \subseteq pending'
    BY <1>8 DEF Bind
  <2> HIDE DEF NoTriggerLost, Carries, Carrying, TypeOK, ThreadTypeOK
  <2> QED
    BY <2>1, <2>2, <2>3, TriggersStay
<1>9. ASSUME NEW a \in Actors, Launch(a) PROVE NoTriggerLost'
  <2>0. cur[a] \in Jobs /\ pc[cur[a]] = "idle" /\ pc[a] = "bound"
    BY <1>9 DEF Launch, Ownership, Hands, OwnJob, WithLiveJob, NotLaunched
  <2>1. \A b \in Actors : StillOnTheWay(b)
    BY <1>9, <2>0 DEF Launch, StillOnTheWay
  <2>2. triggered' \subseteq triggered \/ \A q \in triggered' \ triggered : q \in pending'
    BY <1>9 DEF Launch
  <2>3. pending \subseteq pending'
    BY <1>9 DEF Launch
  <2> HIDE DEF NoTriggerLost, Carries, Carrying, TypeOK, ThreadTypeOK
  <2> QED
    BY <2>1, <2>2, <2>3, TriggersStay
<1>10. ASSUME NEW a \in Actors, CandidatesFail(a) PROVE NoTriggerLost'
  BY <1>10 DEF CandidatesFail
<1>11. ASSUME NEW a \in Actors, Finish(a) PROVE NoTriggerLost'
  <2>1. \A b \in Actors : StillOnTheWay(b)
    BY <1>11 DEF Finish, Outcomes, StillOnTheWay
  <2>2. triggered' \subseteq triggered \/ \A q \in triggered' \ triggered : q \in pending'
    BY <1>11 DEF Finish, Outcomes
  <2>3. pending \subseteq pending'
    BY <1>11 DEF Finish, Outcomes
  <2> HIDE DEF NoTriggerLost, Carries, Carrying, TypeOK, ThreadTypeOK
  <2> QED
    BY <2>1, <2>2, <2>3, TriggersStay
<1>12. ASSUME NEW a \in Actors, FinishFails(a) PROVE NoTriggerLost'
  <2>1. \A b \in Actors : StillOnTheWay(b)
    BY <1>12 DEF FinishFails, Outcomes, StillOnTheWay
  <2>2. triggered' \subseteq triggered \/ \A q \in triggered' \ triggered : q \in pending'
    BY <1>12 DEF FinishFails, Outcomes
  <2>3. pending \subseteq pending'
    BY <1>12 DEF FinishFails, Outcomes
  <2> HIDE DEF NoTriggerLost, Carries, Carrying, TypeOK, ThreadTypeOK
  <2> QED
    BY <2>1, <2>2, <2>3, TriggersStay
<1>13. ASSUME NEW j \in Jobs, StopWork(j) PROVE NoTriggerLost'
  BY <1>13 DEF StopWork
<1>14. ASSUME NEW a \in Actors, ReleaseSlot(a) PROVE NoTriggerLost'
  BY <1>14 DEF ReleaseSlot, Releases
<1>15. ASSUME NEW a \in Actors, NotifyTerminal(a) PROVE NoTriggerLost'
  <2>0. /\ pc' = [pc EXCEPT ![a] = "dispatch"] /\ want' = want /\ pc[a] = "released"
        /\ \/ pending' = pending /\ triggered' = triggered
           \/ \E k \in Keys : /\ pending' = pending \union {k}
                              /\ triggered' = triggered \union {k}
    BY <1>15 DEF NotifyTerminal
  <2>1. \A b \in Actors : StillOnTheWay(b)
    BY <2>0 DEF StillOnTheWay
  <2>2. pending \subseteq pending' /\ \A q \in triggered' \ triggered : q \in pending'
    BY <2>0
  <2> HIDE DEF NoTriggerLost, Carries, Carrying, TypeOK, ThreadTypeOK
  <2> QED
    BY <2>1, <2>2, TriggersStay
<1>16. ASSUME NEW a \in Actors, NEW k \in Keys, Pop(a, k) PROVE NoTriggerLost'
  BY <1>16 DEF Pop
<1>17. ASSUME NEW a \in Actors, NothingToPop(a) PROVE NoTriggerLost'
  BY <1>17 DEF NothingToPop
<1>18. CASE TickStart BY <1>18 DEF TickStart
<1>19. ASSUME NEW k \in Keys, TickDefer(k) PROVE NoTriggerLost'
  BY <1>19 DEF TickDefer
<1>20. CASE TickDispatch BY <1>20 DEF TickDispatch
<1>21. CASE MaintenanceNotNow BY <1>21 DEF MaintenanceNotNow
<1>22. CASE MaintenanceSeesNoJob BY <1>22 DEF MaintenanceSeesNoJob
<1>23. ASSUME NEW j \in Jobs, MaintenanceStarts(j) PROVE NoTriggerLost'
  BY <1>23 DEF MaintenanceStarts
<1>24. CASE MaintenanceSkipped BY <1>24 DEF MaintenanceSkipped
<1>25. ASSUME NEW j \in Jobs, Cancel(j) PROVE NoTriggerLost' BY <1>25 DEF Cancel
<1>26. CASE Restart BY <1>26 DEF Restart
<1> HIDE DEF NoTriggerLost, Carries, Carrying, Holding, TypeOK, CoordTypeOK,
    ThreadTypeOK, GhostTypeOK, NoKey, NoWant, Actors, Goto, Return,
    threadVars, jobVars, coordVars, ghostVars
<1>27. QED
  BY <1>1, <1>2, <1>3, <1>4, <1>5, <1>6, <1>7, <1>8, <1>9, <1>10, <1>11,
     <1>12, <1>13, <1>14, <1>15, <1>16, <1>17, <1>18, <1>19, <1>20, <1>21,
     <1>22, <1>23, <1>24, <1>25, <1>26 DEF Next, Step, Tick

\* While a row says that a cancellation was accepted, m.items says so too.
LEMMA CancelInItemsStep ==
  ASSUME TypeOK, Ownership, CancelInItems, Next
  PROVE  CancelInItems'
<1> USE ActorAssumption, KeyAssumption DEF CancelInItems, CancelStatus, TypeOK, JobTypeOK, Actors, jobVars
<1>1. ASSUME NEW c \in Clients, NEW t \in HeavyTypes, ManualAcquire(c, t) PROVE CancelInItems'
  BY <1>1 DEF ManualAcquire
<1>2. ASSUME NEW a \in Actors, AutoAcquire(a) PROVE CancelInItems'
  BY <1>2 DEF AutoAcquire
<1>3. ASSUME NEW a \in Actors, AutoRefused(a) PROVE CancelInItems'
  BY <1>3 DEF AutoRefused
<1>4. ASSUME NEW a \in Actors, DeferBack(a) PROVE CancelInItems'
  BY <1>4 DEF DeferBack
<1>5. ASSUME NEW a \in Actors, NEW j \in Jobs, CreateJob(a, j) PROVE CancelInItems'
  BY <1>5 DEF CreateJob
<1>6. ASSUME NEW a \in Actors, StartFails(a) PROVE CancelInItems'
  BY <1>6 DEF StartFails
<1>7. ASSUME NEW a \in Actors, AbortReservation(a) PROVE CancelInItems'
  BY <1>7 DEF AbortReservation
<1>8. ASSUME NEW a \in Actors, Bind(a) PROVE CancelInItems' BY <1>8 DEF Bind
<1>9. ASSUME NEW a \in Actors, Launch(a) PROVE CancelInItems' BY <1>9 DEF Launch
<1>10. ASSUME NEW a \in Actors, CandidatesFail(a) PROVE CancelInItems'
  BY <1>10 DEF CandidatesFail
<1>11. ASSUME NEW a \in Actors, Finish(a) PROVE CancelInItems'
  <2>1. PICK status \in TerminalStatus : row' = [row EXCEPT ![cur[a]] = status]
    BY <1>11, EndingJob DEF Ownership
  <2>2. mem' = [mem EXCEPT ![cur[a]] = "none"]
    BY <1>11, EndingJob DEF Ownership
  <2> QED
    BY <2>1, <2>2 DEF TerminalStatus
<1>12. ASSUME NEW a \in Actors, FinishFails(a) PROVE CancelInItems'
  BY <1>12 DEF FinishFails
<1>13. ASSUME NEW j \in Jobs, StopWork(j) PROVE CancelInItems'
  BY <1>13 DEF StopWork
<1>14. ASSUME NEW a \in Actors, ReleaseSlot(a) PROVE CancelInItems'
  BY <1>14 DEF ReleaseSlot
<1>15. ASSUME NEW a \in Actors, NotifyTerminal(a) PROVE CancelInItems'
  BY <1>15 DEF NotifyTerminal
<1>16. ASSUME NEW a \in Actors, NEW k \in Keys, Pop(a, k) PROVE CancelInItems'
  BY <1>16 DEF Pop
<1>17. ASSUME NEW a \in Actors, NothingToPop(a) PROVE CancelInItems'
  BY <1>17 DEF NothingToPop
<1>18. CASE TickStart BY <1>18 DEF TickStart
<1>19. ASSUME NEW k \in Keys, TickDefer(k) PROVE CancelInItems'
  BY <1>19 DEF TickDefer
<1>20. CASE TickDispatch BY <1>20 DEF TickDispatch
<1>21. CASE MaintenanceNotNow BY <1>21 DEF MaintenanceNotNow
<1>22. CASE MaintenanceSeesNoJob BY <1>22 DEF MaintenanceSeesNoJob
<1>23. ASSUME NEW j \in Jobs, MaintenanceStarts(j) PROVE CancelInItems'
  BY <1>23 DEF MaintenanceStarts
<1>24. CASE MaintenanceSkipped BY <1>24 DEF MaintenanceSkipped
<1>25. ASSUME NEW j \in Jobs, Cancel(j) PROVE CancelInItems' BY <1>25 DEF Cancel
<1>26. CASE Restart BY <1>26 DEF Restart
<1> HIDE DEF CancelInItems, CancelStatus, TypeOK, JobTypeOK, Actors, jobVars
<1>27. QED
  BY <1>1, <1>2, <1>3, <1>4, <1>5, <1>6, <1>7, <1>8, <1>9, <1>10, <1>11,
     <1>12, <1>13, <1>14, <1>15, <1>16, <1>17, <1>18, <1>19, <1>20, <1>21,
     <1>22, <1>23, <1>24, <1>25, <1>26 DEF Next, Step, Tick

\* A row keeps the outcome it has, and an accepted cancellation.
LEMMA StatusSticksStep ==
  ASSUME IInv, Next
  PROVE  \A i \in Jobs : StatusSticks(i)
<1> USE ActorAssumption, KeyAssumption DEF IInv, StatusSticks, CancelInItems, CancelStatus, ActiveStatus,
    TerminalStatus, TypeOK, JobTypeOK, Unused, Actors, jobVars
<1>1. ASSUME NEW c \in Clients, NEW t \in HeavyTypes, ManualAcquire(c, t) PROVE \A i \in Jobs : StatusSticks(i)
  BY <1>1 DEF ManualAcquire
<1>2. ASSUME NEW a \in Actors, AutoAcquire(a) PROVE \A i \in Jobs : StatusSticks(i)
  BY <1>2 DEF AutoAcquire
<1>3. ASSUME NEW a \in Actors, AutoRefused(a) PROVE \A i \in Jobs : StatusSticks(i)
  BY <1>3 DEF AutoRefused
<1>4. ASSUME NEW a \in Actors, DeferBack(a) PROVE \A i \in Jobs : StatusSticks(i)
  BY <1>4 DEF DeferBack
<1>5. ASSUME NEW a \in Actors, NEW j \in Jobs, CreateJob(a, j) PROVE \A i \in Jobs : StatusSticks(i)
  BY <1>5 DEF CreateJob
<1>6. ASSUME NEW a \in Actors, StartFails(a) PROVE \A i \in Jobs : StatusSticks(i)
  BY <1>6 DEF StartFails
<1>7. ASSUME NEW a \in Actors, AbortReservation(a) PROVE \A i \in Jobs : StatusSticks(i)
  BY <1>7 DEF AbortReservation
<1>8. ASSUME NEW a \in Actors, Bind(a) PROVE \A i \in Jobs : StatusSticks(i)
  BY <1>8 DEF Bind
<1>9. ASSUME NEW a \in Actors, Launch(a) PROVE \A i \in Jobs : StatusSticks(i)
  BY <1>9 DEF Launch
<1>10. ASSUME NEW a \in Actors, CandidatesFail(a) PROVE \A i \in Jobs : StatusSticks(i)
  BY <1>10 DEF CandidatesFail
<1>11. ASSUME NEW a \in Actors, Finish(a) PROVE \A i \in Jobs : StatusSticks(i)
  <2>1. cur[a] \in Jobs /\ row[cur[a]] \in ActiveStatus /\ pc[a] \in DOMAIN Outcomes
    BY <1>11 DEF Finish, Ownership, Hands, Live, Outcomes, WithLiveJob
  <2>2. PICK outcome \in Outcomes[pc[a]] :
          row' = [row EXCEPT ![cur[a]] = FinalStatus(cur[a], outcome)]
    BY <1>11 DEF Finish
  <2>3. FinalStatus(cur[a], outcome) \in TerminalStatus
    BY <2>1, FinalStatusEnds
  <2>4. mem[cur[a]] \in CancelStatus => FinalStatus(cur[a], outcome) \notin {"completed", "partial"}
    BY DEF FinalStatus
  <2> QED
    BY <2>1, <2>2, <2>3, <2>4
<1>12. ASSUME NEW a \in Actors, FinishFails(a) PROVE \A i \in Jobs : StatusSticks(i)
  BY <1>12 DEF FinishFails
<1>13. ASSUME NEW j \in Jobs, StopWork(j) PROVE \A i \in Jobs : StatusSticks(i)
  <2>1. row[j] \in ActiveStatus
    BY <1>13 DEF StopWork, Ownership, Live, OwnJob, WithLiveJob
  <2>2. row' = row \/ row' = [row EXCEPT ![j] = "cancelling"]
    BY <1>13 DEF StopWork
  <2> QED
    BY <2>1, <2>2
<1>14. ASSUME NEW a \in Actors, ReleaseSlot(a) PROVE \A i \in Jobs : StatusSticks(i)
  BY <1>14 DEF ReleaseSlot
<1>15. ASSUME NEW a \in Actors, NotifyTerminal(a) PROVE \A i \in Jobs : StatusSticks(i)
  <2>1. row' = [row EXCEPT ![cur[a]] = "none"] /\ cur[a] \in Jobs
           /\ row[cur[a]] \notin ActiveStatus
    BY <1>15 DEF NotifyTerminal, Ownership, Hands, Live, WithEndedJob
  <2> QED
    BY <2>1
<1>16. ASSUME NEW a \in Actors, NEW k \in Keys, Pop(a, k) PROVE \A i \in Jobs : StatusSticks(i)
  BY <1>16 DEF Pop
<1>17. ASSUME NEW a \in Actors, NothingToPop(a) PROVE \A i \in Jobs : StatusSticks(i)
  BY <1>17 DEF NothingToPop
<1>18. CASE TickStart BY <1>18 DEF TickStart
<1>19. ASSUME NEW k \in Keys, TickDefer(k) PROVE \A i \in Jobs : StatusSticks(i)
  BY <1>19 DEF TickDefer
<1>20. CASE TickDispatch BY <1>20 DEF TickDispatch
<1>21. CASE MaintenanceNotNow BY <1>21 DEF MaintenanceNotNow
<1>22. CASE MaintenanceSeesNoJob BY <1>22 DEF MaintenanceSeesNoJob
<1>23. ASSUME NEW j \in Jobs, MaintenanceStarts(j) PROVE \A i \in Jobs : StatusSticks(i)
  BY <1>23 DEF MaintenanceStarts
<1>24. CASE MaintenanceSkipped BY <1>24 DEF MaintenanceSkipped
<1>25. ASSUME NEW j \in Jobs, Cancel(j) PROVE \A i \in Jobs : StatusSticks(i)
  <2>1. row[j] \in ActiveStatus
    BY <1>25 DEF Cancel, RowsMatchItems
  <2> QED
    BY <1>25, <2>1 DEF Cancel
<1>26. CASE Restart BY <1>26 DEF Restart
<1> HIDE DEF IInv, StatusSticks, CancelInItems, CancelStatus, ActiveStatus,
    TerminalStatus, TypeOK, JobTypeOK, Unused, Actors, jobVars
<1>27. QED
  BY <1>1, <1>2, <1>3, <1>4, <1>5, <1>6, <1>7, <1>8, <1>9, <1>10, <1>11,
     <1>12, <1>13, <1>14, <1>15, <1>16, <1>17, <1>18, <1>19, <1>20, <1>21,
     <1>22, <1>23, <1>24, <1>25, <1>26 DEF Next, Step, Tick

-----------------------------------------------------------------------------
(* The inductive invariant *)

\* The initial states.
LEMMA InitTypeOK == Init => TypeOK
<1> SUFFICES ASSUME Init PROVE TypeOK
  OBVIOUS
<1>0. saved \in [type : HeavyTypes \union {""}, count : 0..GrantCap]
  <2>1. saved = [type |-> "", count |-> 0]
    BY DEF Init
  <2>2. [type |-> "", count |-> 0] \in [type : HeavyTypes \union {""}, count : 0..GrantCap]
    BY DEF GrantCap
  <2> QED
    BY <2>1, <2>2
<1> USE DEF Init
<1>1. CoordTypeOK
  BY <1>0 DEF CoordTypeOK, GrantCap
<1>2. JobTypeOK
  BY DEF JobTypeOK
<1>3. ThreadTypeOK
  BY DEF ThreadTypeOK, NoWant, NoKey, Labels
<1>4. GhostTypeOK
  BY DEF GhostTypeOK
<1> QED
  BY <1>1, <1>2, <1>3, <1>4 DEF TypeOK
LEMMA InitIInv == Init => IInv
<1> SUFFICES ASSUME Init PROVE IInv
  OBVIOUS
<1>1. TypeOK
  BY InitTypeOK
<1> USE ActorAssumption DEF Init
<1>2. Requests
  BY DEF Requests
<1>3. RowsMatchItems
  BY DEF RowsMatchItems, ActiveStatus
<1>4. Ownership
  BY DEF Ownership, Hands, OneOwner, Live, HeavyStart, OwnJob, WithLiveJob,
         WithEndedJob, NotLaunched
<1>5. SlotAccounted
  BY DEF SlotAccounted, ReservationHeld, ActiveAccounted
<1>6. SlotGuards
  BY DEF SlotGuards, Reservation, OneHolder, Guarded, HeavyActive, Holding, HeavyTypes
<1>7. CancelInItems
  BY DEF CancelInItems, CancelStatus
<1>8. NoTriggerLost
  BY DEF NoTriggerLost
<1> QED
  BY <1>1, <1>2, <1>3, <1>4, <1>5, <1>6, <1>7, <1>8 DEF IInv

\* A step that changes nothing.
LEMMA StutterKeeps == IInv /\ UNCHANGED vars => IInv'
<1> SUFFICES ASSUME IInv, UNCHANGED vars PROVE IInv'
  OBVIOUS
<1> USE DEF IInv, vars, coordVars, jobVars, threadVars, ghostVars
<1>1. TypeOK'
  BY DEF TypeOK, CoordTypeOK, JobTypeOK, ThreadTypeOK, GhostTypeOK
<1>2. Requests' /\ RowsMatchItems'
  BY DEF Requests, RowsMatchItems
<1>3. Ownership'
  BY DEF Ownership, Hands, OneOwner, Live, HeavyStart, OwnJob
<1>4. ~clobbered' => SlotGuards'
  BY DEF SlotGuards, Reservation, OneHolder, Guarded, HeavyActive
<1>5. SlotAccounted'
  BY DEF SlotAccounted, ReservationHeld, ActiveAccounted, Orphaned
<1>6. CancelInItems' /\ NoTriggerLost'
  BY DEF CancelInItems, NoTriggerLost, Carries
<1> QED
  BY <1>1, <1>2, <1>3, <1>4, <1>5, <1>6

\* One step of the system keeps the invariant.
LEMMA NextIInv == ASSUME IInv, [Next]_vars PROVE IInv'
<1>1. CASE UNCHANGED vars
  BY <1>1, StutterKeeps
<1>2. CASE Next
  <2> USE DEF IInv
  <2>1. TypeOK'
    <3>1. CoordTypeOK /\ JobTypeOK /\ ThreadTypeOK /\ GhostTypeOK /\ HeavyStart /\ Hands
      BY DEF TypeOK, Ownership
    <3> QED
      BY <1>2, <3>1, CoordTypeStep, JobTypeStep, ThreadTypeStep, GhostTypeStep
         DEF TypeOK
  <2>2. Requests'
    BY <1>2, RequestsStep
  <2>3. RowsMatchItems'
    BY <1>2, RowsStep
  <2>4. Ownership'
    <3>1. Hands /\ OneOwner /\ OwnJob
      BY DEF Ownership
    <3> QED
      BY <1>2, <3>1, HandsStep, OneOwnerStep, LiveStep, HeavyStartStep, OwnJobStep
         DEF Ownership
  <2>5. SlotAccounted'
    <3>1. ReservationHeld /\ ActiveAccounted
      BY DEF SlotAccounted
    <3> QED
      BY <1>2, <3>1, ReservationHeldStep, ActiveAccountedStep DEF SlotAccounted
  <2>6. ~clobbered' => SlotGuards'
    <3>1. ~clobbered' => Reservation'
      BY <1>2, ReservationStep
    <3>2. ~clobbered' => OneHolder'
      BY <1>2, OneHolderStep
    <3>3. ~clobbered' => Guarded'
      BY <1>2, GuardedStep
    <3> QED
      BY <3>1, <3>2, <3>3 DEF SlotGuards
  <2>7. CancelInItems' /\ NoTriggerLost'
    BY <1>2, CancelInItemsStep, NoTriggerLostStep
  <2> QED
    BY <2>1, <2>2, <2>3, <2>4, <2>5, <2>6, <2>7
<1> QED
  BY <1>1, <1>2

\* The invariant holds in every reachable state, for every value of the
\* constants.
THEOREM Invariance == Spec => []IInv
<1>1. Init => IInv
  BY InitIInv
<1>2. IInv /\ [Next]_vars => IInv'
  BY NextIInv
<1> QED
  BY <1>1, <1>2, PTL DEF Spec

\* The types of the coordinator's and the job manager's fields.
THEOREM TypeCorrect == Spec => []TypeOK
<1>1. IInv => TypeOK
  BY DEF IInv
<1> QED
  BY <1>1, Invariance, PTL

\* The slot of the coordinator never leaks: whoever reserved it is still on the
\* way to Bind or AbortReservation, and a bound job still has a goroutine that
\* will call Release, except after a failed terminal UPDATE (jobs.go:305-309).
THEOREM Accounting == Spec => []SlotAccounted
<1>1. IInv => SlotAccounted
  BY DEF IInv
<1> QED
  BY <1>1, Invariance, PTL

LEMMA GuardsExclude == ASSUME IInv, ~clobbered PROVE HeavyExclusive
<1> SUFFICES ASSUME NEW i \in HeavyActive, NEW j \in HeavyActive
             PROVE  i = j
  BY DEF HeavyExclusive
<1>1. i \in Jobs /\ j \in Jobs
  BY DEF HeavyActive
<1>2. CASE active # NoJob
  <2>1. \A a \in Actors : pc[a] # "created"
    BY <1>2 DEF IInv, SlotGuards, Reservation, Holding
  <2> QED
    BY <2>1 DEF IInv, SlotGuards, Guarded
<1>3. CASE active = NoJob
  <2>1. PICK a \in Actors : pc[a] = "created" /\ cur[a] = i
    BY <1>1, <1>3, ActorAssumption DEF IInv, SlotGuards, Guarded
  <2>2. PICK b \in Actors : pc[b] = "created" /\ cur[b] = j
    BY <1>1, <1>3, ActorAssumption DEF IInv, SlotGuards, Guarded
  <2>3. a = b
    BY <2>1, <2>2 DEF IInv, SlotGuards, OneHolder, Holding
  <2> QED
    BY <2>1, <2>2, <2>3
<1> QED
  BY <1>2, <1>3

\* Two heavy jobs are at work together only after a Release has cleared the
\* reservation of another goroutine: TryAcquire, Bind and Release leave no other
\* way, however the goroutines interleave, fail, are cancelled or restart.
THEOREM Exclusion == Spec => []ExclusiveUnlessClobbered
<1>1. IInv => ExclusiveUnlessClobbered
  BY GuardsExclude DEF ExclusiveUnlessClobbered
<1> QED
  BY <1>1, Invariance, PTL

-----------------------------------------------------------------------------
(* Fairness between the two types, and the theorems on steps *)

\* Bind records the grant it makes.
LEMMA GrantRemembered ==
  ASSUME GrantsRemembered, "fairness" \notin Faults, consecutive \in 0..GrantCap,
         NEW a \in Actors, kind[cur[a]] \in HeavyTypes, Bind(a)
  PROVE  GrantsRemembered'
<1> DEFINE t == kind[cur[a]]
<1>1. /\ lastGranted' = t
      /\ recent' = [before |-> recent.last, last |-> t]
      /\ saved' = [type |-> lastGranted', count |-> consecutive']
      /\ lastGranted # t => consecutive' = 1
      /\ lastGranted = t /\ consecutive < 2 => consecutive' = consecutive + 1
      /\ lastGranted = t /\ ~(consecutive < 2) => consecutive' = consecutive
  BY DEF Bind, GrantCap
<1>2. recent'.before = lastGranted /\ recent'.last = lastGranted'
  BY <1>1 DEF GrantsRemembered
<1>3. consecutive \in 0..2
  BY DEF GrantCap
<1>4. CASE lastGranted # t
  BY <1>1, <1>2, <1>4 DEF GrantsRemembered
<1>5. CASE lastGranted = t
  <2>1. consecutive >= 1
    BY <1>3, <1>5 DEF GrantsRemembered
  <2>2. consecutive' = 2
    BY <1>1, <1>3, <1>5, <2>1
  <2> QED
    BY <1>1, <1>2, <2>2 DEF GrantsRemembered
<1> QED
  BY <1>4, <1>5

\* After two grants of one type only the intents of the other are eligible.
LEMMA OtherTypeEligible ==
  ASSUME GrantsRemembered, recent.before = recent.last, recent.last \in HeavyTypes
  PROVE  Eligible = {k \in pending : KeyType[k] # recent.last}
<1>1. lastGranted = recent.last
  BY DEF GrantsRemembered
<1>2. consecutive = 2
  BY <1>1 DEF GrantsRemembered
<1>3. ~(consecutive < 2)
  BY <1>2
<1> QED
  BY <1>1, <1>3 DEF Eligible

\* The coordinator's memory of its grants, in RAM and in the database.
LEMMA GrantsRememberedStep ==
  ASSUME IInv, GrantsRemembered, "fairness" \notin Faults, Next
  PROVE  GrantsRemembered'
<1> USE ActorAssumption, KeyAssumption DEF GrantsRemembered, TypeOK, coordVars, ghostVars
<1>1. ASSUME NEW c \in Clients, NEW t \in HeavyTypes, ManualAcquire(c, t) PROVE GrantsRemembered'
  BY <1>1 DEF ManualAcquire
<1>2. ASSUME NEW a \in Actors, AutoAcquire(a) PROVE GrantsRemembered'
  BY <1>2 DEF AutoAcquire
<1>3. ASSUME NEW a \in Actors, AutoRefused(a) PROVE GrantsRemembered'
  BY <1>3 DEF AutoRefused
<1>4. ASSUME NEW a \in Actors, DeferBack(a) PROVE GrantsRemembered'
  BY <1>4 DEF DeferBack
<1>5. ASSUME NEW a \in Actors, NEW j \in Jobs, CreateJob(a, j) PROVE GrantsRemembered'
  BY <1>5 DEF CreateJob
<1>6. ASSUME NEW a \in Actors, StartFails(a) PROVE GrantsRemembered'
  BY <1>6 DEF StartFails
<1>7. ASSUME NEW a \in Actors, AbortReservation(a) PROVE GrantsRemembered'
  BY <1>7 DEF AbortReservation
<1>8. ASSUME NEW a \in Actors, Bind(a) PROVE GrantsRemembered'
  <2>1. kind[cur[a]] \in HeavyTypes /\ consecutive \in 0..GrantCap
    BY <1>8 DEF IInv, Bind, Ownership, HeavyStart, CoordTypeOK
  <2> HIDE DEF GrantsRemembered
  <2> QED
    BY <1>8, <2>1, GrantRemembered
<1>9. ASSUME NEW a \in Actors, Launch(a) PROVE GrantsRemembered'
  BY <1>9 DEF Launch
<1>10. ASSUME NEW a \in Actors, CandidatesFail(a) PROVE GrantsRemembered'
  BY <1>10 DEF CandidatesFail
<1>11. ASSUME NEW a \in Actors, Finish(a) PROVE GrantsRemembered'
  BY <1>11 DEF Finish
<1>12. ASSUME NEW a \in Actors, FinishFails(a) PROVE GrantsRemembered'
  BY <1>12 DEF FinishFails
<1>13. ASSUME NEW j \in Jobs, StopWork(j) PROVE GrantsRemembered'
  BY <1>13 DEF StopWork
<1>14. ASSUME NEW a \in Actors, ReleaseSlot(a) PROVE GrantsRemembered'
  BY <1>14 DEF ReleaseSlot, Releases
<1>15. ASSUME NEW a \in Actors, NotifyTerminal(a) PROVE GrantsRemembered'
  BY <1>15 DEF NotifyTerminal
<1>16. ASSUME NEW a \in Actors, NEW k \in Keys, Pop(a, k) PROVE GrantsRemembered'
  BY <1>16 DEF Pop
<1>17. ASSUME NEW a \in Actors, NothingToPop(a) PROVE GrantsRemembered'
  BY <1>17 DEF NothingToPop
<1>18. CASE TickStart BY <1>18 DEF TickStart
<1>19. ASSUME NEW k \in Keys, TickDefer(k) PROVE GrantsRemembered'
  BY <1>19 DEF TickDefer
<1>20. CASE TickDispatch BY <1>20 DEF TickDispatch
<1>21. CASE MaintenanceNotNow BY <1>21 DEF MaintenanceNotNow
<1>22. CASE MaintenanceSeesNoJob BY <1>22 DEF MaintenanceSeesNoJob
<1>23. ASSUME NEW j \in Jobs, MaintenanceStarts(j) PROVE GrantsRemembered'
  BY <1>23 DEF MaintenanceStarts
<1>24. CASE MaintenanceSkipped BY <1>24 DEF MaintenanceSkipped
<1>25. ASSUME NEW j \in Jobs, Cancel(j) PROVE GrantsRemembered'
  BY <1>25 DEF Cancel
<1>26. CASE Restart BY <1>26 DEF Restart
<1> HIDE DEF GrantsRemembered, TypeOK, coordVars, ghostVars
<1>27. QED
  BY <1>1, <1>2, <1>3, <1>4, <1>5, <1>6, <1>7, <1>8, <1>9, <1>10, <1>11,
     <1>12, <1>13, <1>14, <1>15, <1>16, <1>17, <1>18, <1>19, <1>20, <1>21,
     <1>22, <1>23, <1>24, <1>25, <1>26 DEF Next, Step, Tick

\* Only PopNext hands out an intent, and after two grants of one type it passes
\* over the intents of that type as long as there is another.
LEMMA PopAlternatesStep ==
  ASSUME IInv, GrantsRemembered, Next
  PROVE  \A b \in Actors : PopAlternates(b)
<1> USE ActorAssumption, KeyAssumption DEF IInv, PopAlternates, TypeOK, ThreadTypeOK, Actors, Goto, Return,
    threadVars
<1>1. ASSUME NEW c \in Clients, NEW t \in HeavyTypes, ManualAcquire(c, t) PROVE \A b \in Actors : PopAlternates(b)
  BY <1>1 DEF ManualAcquire
<1>2. ASSUME NEW a \in Actors, AutoAcquire(a) PROVE \A b \in Actors : PopAlternates(b)
  BY <1>2 DEF AutoAcquire
<1>3. ASSUME NEW a \in Actors, AutoRefused(a) PROVE \A b \in Actors : PopAlternates(b)
  BY <1>3 DEF AutoRefused
<1>4. ASSUME NEW a \in Actors, DeferBack(a) PROVE \A b \in Actors : PopAlternates(b)
  BY <1>4 DEF DeferBack
<1>5. ASSUME NEW a \in Actors, NEW j \in Jobs, CreateJob(a, j) PROVE \A b \in Actors : PopAlternates(b)
  BY <1>5 DEF CreateJob
<1>6. ASSUME NEW a \in Actors, StartFails(a) PROVE \A b \in Actors : PopAlternates(b)
  BY <1>6 DEF StartFails
<1>7. ASSUME NEW a \in Actors, AbortReservation(a) PROVE \A b \in Actors : PopAlternates(b)
  BY <1>7 DEF AbortReservation
<1>8. ASSUME NEW a \in Actors, Bind(a) PROVE \A b \in Actors : PopAlternates(b)
  BY <1>8 DEF Bind
<1>9. ASSUME NEW a \in Actors, Launch(a) PROVE \A b \in Actors : PopAlternates(b)
  <2>1. cur[a] \in Jobs /\ pc[cur[a]] = "idle" /\ pc[a] = "bound"
    BY <1>9 DEF Launch, Ownership, Hands, OwnJob, WithLiveJob, NotLaunched
  <2> QED
    BY <1>9, <2>1 DEF Launch
<1>10. ASSUME NEW a \in Actors, CandidatesFail(a) PROVE \A b \in Actors : PopAlternates(b)
  BY <1>10 DEF CandidatesFail
<1>11. ASSUME NEW a \in Actors, Finish(a) PROVE \A b \in Actors : PopAlternates(b)
  BY <1>11 DEF Finish
<1>12. ASSUME NEW a \in Actors, FinishFails(a) PROVE \A b \in Actors : PopAlternates(b)
  BY <1>12 DEF FinishFails
<1>13. ASSUME NEW j \in Jobs, StopWork(j) PROVE \A b \in Actors : PopAlternates(b)
  BY <1>13 DEF StopWork
<1>14. ASSUME NEW a \in Actors, ReleaseSlot(a) PROVE \A b \in Actors : PopAlternates(b)
  BY <1>14 DEF ReleaseSlot, Releases
<1>15. ASSUME NEW a \in Actors, NotifyTerminal(a) PROVE \A b \in Actors : PopAlternates(b)
  BY <1>15 DEF NotifyTerminal
<1>16. ASSUME NEW a \in Actors, NEW k \in Keys, Pop(a, k) PROVE \A b \in Actors : PopAlternates(b)
  <2> SUFFICES ASSUME recent.before = recent.last
               PROVE  want'[a].type # recent.last \/ \A q \in pending : KeyType[q] = recent.last
    BY <1>16 DEF Pop
  <2>1. want'[a].type = KeyType[k] /\ KeyType[k] \in HeavyTypes 
    BY <1>16 DEF Pop, HeavyTypes
  <2>2. CASE recent.last \notin HeavyTypes
    BY <2>1, <2>2
  <2>3. CASE recent.last \in HeavyTypes
    <3>1. Eligible = {q \in pending : KeyType[q] # recent.last}
      BY <2>3, OtherTypeEligible
    <3>2. k \in Eligible \/ Eligible = {}
      BY <1>16 DEF Pop, IsNext
    <3> QED
      BY <2>1, <3>1, <3>2
  <2> QED
    BY <2>2, <2>3
<1>17. ASSUME NEW a \in Actors, NothingToPop(a) PROVE \A b \in Actors : PopAlternates(b)
  BY <1>17 DEF NothingToPop
<1>18. CASE TickStart BY <1>18 DEF TickStart
<1>19. ASSUME NEW k \in Keys, TickDefer(k) PROVE \A b \in Actors : PopAlternates(b)
  BY <1>19 DEF TickDefer
<1>20. CASE TickDispatch BY <1>20 DEF TickDispatch
<1>21. CASE MaintenanceNotNow BY <1>21 DEF MaintenanceNotNow
<1>22. CASE MaintenanceSeesNoJob BY <1>22 DEF MaintenanceSeesNoJob
<1>23. ASSUME NEW j \in Jobs, MaintenanceStarts(j) PROVE \A b \in Actors : PopAlternates(b)
  BY <1>23 DEF MaintenanceStarts
<1>24. CASE MaintenanceSkipped BY <1>24 DEF MaintenanceSkipped
<1>25. ASSUME NEW j \in Jobs, Cancel(j) PROVE \A b \in Actors : PopAlternates(b)
  BY <1>25 DEF Cancel
<1>26. CASE Restart BY <1>26 DEF Restart
<1> HIDE DEF IInv, PopAlternates, TypeOK, ThreadTypeOK, Actors, Goto, Return,
    threadVars
<1>27. QED
  BY <1>1, <1>2, <1>3, <1>4, <1>5, <1>6, <1>7, <1>8, <1>9, <1>10, <1>11,
     <1>12, <1>13, <1>14, <1>15, <1>16, <1>17, <1>18, <1>19, <1>20, <1>21,
     <1>22, <1>23, <1>24, <1>25, <1>26 DEF Next, Step, Tick

\* An accepted cancellation and a recorded outcome are final, whatever Update,
\* Cancel, restart or late answer of a worker follows.
THEOREM OutcomesStick == Spec => CancelAndOutcomeStick
<1>1. IInv /\ [Next]_vars => [\A j \in Jobs : StatusSticks(j)]_vars
  BY StatusSticksStep
<1> QED
  BY <1>1, Invariance, PTL DEF Spec, CancelAndOutcomeStick

\* An intent the scheduler deferred waits in pending or is carried by a goroutine
\* that starts its job, reports an error or hands it back: contention for the
\* slot, cancellations and failing statements never drop it.
THEOREM TriggersKept == Spec => []NoTriggerLost
<1>1. IInv => NoTriggerLost
  BY DEF IInv
<1> QED
  BY <1>1, Invariance, PTL

\* The fairness between fetch and check survives restarts, as long as the
\* coordinator_state rows can be written: after two grants of one type PopNext
\* hands out an intent of the other type if there is one.
THEOREM Alternation ==
  ASSUME "fairness" \notin Faults
  PROVE  Spec => GrantsAlternate
<1>1. Init => GrantsRemembered
  <2> SUFFICES ASSUME Init PROVE GrantsRemembered
    OBVIOUS
  <2>1. lastGranted = "" /\ consecutive = 0 /\ recent = [before |-> "", last |-> ""]
    BY DEF Init
  <2>2. saved = [type |-> lastGranted, count |-> consecutive]
    BY DEF Init
  <2>3. lastGranted \notin HeavyTypes /\ lastGranted = recent.last
    BY <2>1 DEF HeavyTypes
  <2> QED
    BY <2>2, <2>3 DEF GrantsRemembered
<1>2. IInv /\ GrantsRemembered /\ [Next]_vars => GrantsRemembered'
  <2> SUFFICES ASSUME IInv, GrantsRemembered, [Next]_vars PROVE GrantsRemembered'
    OBVIOUS
  <2>1. CASE UNCHANGED vars
    BY <2>1 DEF GrantsRemembered, vars, coordVars, ghostVars
  <2> QED
    BY <2>1, GrantsRememberedStep
<1>3. IInv /\ GrantsRemembered /\ [Next]_vars
        => [\A a \in Actors : PopAlternates(a)]_vars
  BY PopAlternatesStep
<1> QED
  BY <1>1, <1>2, <1>3, Invariance, PTL DEF Spec, GrantsAlternate

-----------------------------------------------------------------------------
(* Refinement of HeavySlot *)

\* What [Slot!Next]_(Slot!vars) says.
SlotStep == Slot!Next \/ (SlotState' = SlotState /\ HeavyActive' = HeavyActive)

\* With a job bound to the slot no other heavy job is at work.
LEMMA OneAtWork ==
  ASSUME TypeOK, SlotGuards, NEW i \in HeavyActive, active # NoJob
  PROVE  i = active
<1>1. \A a \in Actors : pc[a] # "created"
  BY DEF SlotGuards, Reservation, Holding
<1> QED
  BY <1>1 DEF SlotGuards, Guarded

\* In the same circumstances every step is a step of the abstract slot.
LEMMA SlotStepHolds ==
  ASSUME TypeOK, Requests, RowsMatchItems, Ownership, SlotGuards, ~clobbered,
      ~clobbered', Next
  PROVE  SlotStep
<1> USE ActorAssumption, KeyAssumption DEF TypeOK, ThreadTypeOK, JobTypeOK,
    Ownership, Actors, Goto, Return, threadVars, jobVars, coordVars, ghostVars
<1>1. ASSUME NEW a \in Actors, QuietStep(a) PROVE SlotStep
  <2>1. SlotUntouched
    BY <1>1, UntouchedByStep
  <2> QED
    BY <2>1 DEF SlotUntouched, SlotStep, SlotState, HeavyActive
<1>2. CASE QuietTick
  <2>1. SlotUntouched
    BY <1>2, UntouchedByTick
  <2> QED
    BY <2>1 DEF SlotUntouched, SlotStep, SlotState, HeavyActive
<1>3. ASSUME NEW c \in Clients, NEW t \in HeavyTypes, ManualAcquire(c, t) PROVE SlotStep
  <2>1. HeavyActive' = HeavyActive
    BY <1>3 DEF HeavyActive, ManualAcquire
  <2>2. SlotState = "free" /\ SlotState' = "claimed"
    BY <1>3 DEF ManualAcquire, SlotFree, SlotState, HeavyTypes, Requests
  <2> QED
    BY <2>1, <2>2 DEF SlotStep, Slot!Next, Slot!Claim
<1>4. ASSUME NEW a \in Actors, AutoAcquire(a) PROVE SlotStep
  <2>1. HeavyActive' = HeavyActive
    BY <1>4 DEF HeavyActive, AutoAcquire
  <2>2. SlotState = "free" /\ SlotState' = "claimed"
    BY <1>4 DEF AutoAcquire, SlotFree, SlotState, HeavyTypes, Requests
  <2> QED
    BY <2>1, <2>2 DEF SlotStep, Slot!Next, Slot!Claim
<1>5. ASSUME NEW a \in Actors, NEW j \in Jobs, CreateJob(a, j) PROVE SlotStep
  <2>1. SlotState = "claimed" /\ active = NoJob
    BY <1>5 DEF CreateJob, SlotGuards, Reservation, Holding, SlotState
  <2>2. HeavyActive = {}
    <3> SUFFICES ASSUME NEW i \in HeavyActive PROVE FALSE
      OBVIOUS
    <3>1. active # i
      BY <2>1 DEF HeavyActive
    <3>2. PICK b \in Actors : pc[b] = "created" /\ cur[b] = i
      BY <3>1 DEF SlotGuards, Guarded
    <3>3. b = a
      BY <1>5, <3>2 DEF CreateJob, SlotGuards, OneHolder, Holding
    <3> QED
      BY <1>5, <3>2, <3>3 DEF CreateJob
  <2>3. SlotState' = SlotState
    BY <1>5 DEF CreateJob, SlotState
  <2>4. kind'[j] \in HeavyTypes /\ row'[j] \in ActiveStatus
    BY <1>5 DEF CreateJob, Requests, ActiveStatus
  <2>5. \A i \in Jobs \ {j} : kind'[i] = kind[i] /\ row'[i] = row[i]
    BY <1>5 DEF CreateJob
  <2>6. HeavyActive' = {j}
    BY <2>2, <2>4, <2>5 DEF HeavyActive
  <2> QED
    BY <2>1, <2>2, <2>3, <2>6 DEF SlotStep, Slot!Next, Slot!Begin
<1>6. ASSUME NEW a \in Actors, AbortReservation(a) PROVE SlotStep
  <2>1. SlotState = "claimed" /\ active = NoJob
    BY <1>6 DEF AbortReservation, SlotGuards, Reservation, Holding, SlotState
  <2>2. HeavyActive = {}
    <3> SUFFICES ASSUME NEW i \in HeavyActive PROVE FALSE
      OBVIOUS
    <3>1. active # i
      BY <2>1 DEF HeavyActive
    <3>2. PICK b \in Actors : pc[b] = "created" /\ cur[b] = i
      BY <3>1 DEF SlotGuards, Guarded
    <3>3. b = a
      BY <1>6, <3>2 DEF AbortReservation, SlotGuards, OneHolder, Holding
    <3> QED
      BY <1>6, <3>2, <3>3 DEF AbortReservation
  <2>3. HeavyActive' = HeavyActive
    BY <1>6 DEF AbortReservation, HeavyActive
  <2>4. SlotState' = "free"
    BY <1>6, <2>1 DEF AbortReservation, SlotState
  <2> QED
    BY <2>1, <2>2, <2>3, <2>4 DEF SlotStep, Slot!Next, Slot!Abandon
<1>7. ASSUME NEW a \in Actors, Bind(a) PROVE SlotStep
  <2>1. SlotState = "claimed" /\ cur[a] \in Jobs
    BY <1>7 DEF Bind, SlotGuards, Reservation, Holding, SlotState, Hands,
        WithLiveJob
  <2>2. SlotState' = "held"
    BY <1>7, <2>1 DEF Bind, SlotState
  <2>3. cur[a] \in HeavyActive
    BY <1>7, <2>1 DEF Bind, HeavyActive, HeavyStart, Live, WithLiveJob
  <2>4. HeavyActive' = HeavyActive
    BY <1>7 DEF Bind, HeavyActive
  <2> QED
    BY <2>1, <2>2, <2>3, <2>4 DEF SlotStep, Slot!Next, Slot!Hold
<1>8. ASSUME NEW a \in Actors, Finish(a) PROVE SlotStep
  <2>1. cur[a] \in Jobs /\ pc[a] # "created" /\ SlotState' = SlotState /\ kind' = kind
    BY <1>8, EndingJob DEF Finish, Outcomes, SlotState
  <2>2. PICK status \in TerminalStatus : row' = [row EXCEPT ![cur[a]] = status]
    BY <1>8, EndingJob
  <2>3. HeavyActive' = HeavyActive \ {cur[a]}
    BY <2>1, <2>2 DEF HeavyActive, ActiveStatus, TerminalStatus
  <2>4. CASE cur[a] \in HeavyActive
    <3>1. active = cur[a]
      <4>1. \A b \in Actors : cur[b] = cur[a] => pc[b] # "created"
        BY <2>1 DEF OneOwner
      <4>2. active = cur[a] \/ \E b \in Actors : pc[b] = "created" /\ cur[b] = cur[a]
        BY <2>4 DEF SlotGuards, Guarded
      <4> QED
        BY <4>1, <4>2
    <3>2. SlotState = "held"
      BY <2>1, <3>1 DEF SlotState
    <3>3. \A i \in HeavyActive : i = cur[a]
      BY <2>1, <3>1, OneAtWork
    <3>4. HeavyActive = {cur[a]} /\ HeavyActive' = {}
      BY ZenonT(30), <2>3, <2>4, <3>3
    <3> QED
      BY <2>1, <3>2, <3>4 DEF SlotStep, Slot!Next, Slot!End
  <2>5. CASE cur[a] \notin HeavyActive
    <3>1. HeavyActive' = HeavyActive
      BY <2>3, <2>5
    <3> QED
      BY <2>1, <3>1 DEF SlotStep
  <2> QED
    BY <2>4, <2>5
<1>9. ASSUME NEW j \in Jobs, StopWork(j) PROVE SlotStep
  <2>1. row[j] \in ActiveStatus
    BY <1>9 DEF StopWork, OwnJob, Live, WithLiveJob
  <2>2. \A i \in Jobs : row'[i] \in ActiveStatus <=> row[i] \in ActiveStatus
    BY ZenonT(30), <1>9, <2>1 DEF StopWork, ActiveStatus
  <2>3. HeavyActive' = HeavyActive /\ SlotState' = SlotState
    BY <1>9, <2>2 DEF StopWork, HeavyActive, SlotState
  <2> QED
    BY <2>3 DEF SlotStep
<1>10. ASSUME NEW a \in Actors, ReleaseSlot(a) PROVE SlotStep
  <2>1. HeavyActive' = HeavyActive /\ pc[a] = "terminal"
    BY <1>10 DEF ReleaseSlot, Releases, HeavyActive
  <2>2. CASE active = NoJob
    <3>1. reserved = "" /\ active' = NoJob /\ reserved' = ""
      BY <1>10, <2>2 DEF ReleaseSlot, Releases
    <3> QED
      BY <2>1, <2>2, <3>1 DEF SlotState, SlotStep
  <2>3. CASE active = cur[a] /\ active # NoJob
    <3>1. SlotState = "held" /\ SlotState' = "free"
      BY <1>10, <2>3 DEF ReleaseSlot, Releases, SlotState
    <3>2. cur[a] \notin HeavyActive
      BY <2>1 DEF HeavyActive, Live, WithEndedJob
    <3>3. HeavyActive = {}
      BY <2>3, <3>2, OneAtWork
    <3> QED
      BY <2>1, <3>1, <3>3 DEF SlotStep, Slot!Next, Slot!Free
  <2>4. CASE active \notin {NoJob, cur[a]}
    BY <1>10, <2>1, <2>4 DEF ReleaseSlot, Releases, SlotState, SlotStep
  <2> QED
    BY <2>2, <2>3, <2>4
<1>11. ASSUME NEW a \in Actors, NotifyTerminal(a) PROVE SlotStep
  <2>1. cur[a] \in Jobs /\ row[cur[a]] \notin ActiveStatus
        /\ row' = [row EXCEPT ![cur[a]] = "none"] /\ kind' = [kind EXCEPT ![cur[a]] = ""]
    BY <1>11, ForgottenJob DEF Live, WithEndedJob
  <2>2. HeavyActive' = HeavyActive
    BY <2>1 DEF HeavyActive, ActiveStatus
  <2>3. SlotState' = SlotState
    BY <1>11 DEF NotifyTerminal, SlotState
  <2> QED
    BY <2>2, <2>3 DEF SlotStep
<1>12. ASSUME NEW j \in Jobs, MaintenanceStarts(j) PROVE SlotStep
  <2>1. row[j] \notin ActiveStatus /\ kind'[j] \notin HeavyTypes
    BY <1>12 DEF MaintenanceStarts, Unused, HeavyTypes
  <2>2. \A i \in Jobs \ {j} : kind'[i] = kind[i] /\ row'[i] = row[i]
    BY <1>12 DEF MaintenanceStarts
  <2>3. HeavyActive' = HeavyActive
    BY <2>1, <2>2 DEF HeavyActive
  <2>4. SlotState' = SlotState
    BY <1>12 DEF MaintenanceStarts, SlotState
  <2> QED
    BY <2>3, <2>4 DEF SlotStep
<1>13. ASSUME NEW j \in Jobs, Cancel(j) PROVE SlotStep
  <2>1. row[j] \in ActiveStatus
    BY <1>13 DEF Cancel, RowsMatchItems, ActiveStatus
  <2>2. \A i \in Jobs : row'[i] \in ActiveStatus <=> row[i] \in ActiveStatus
    BY <1>13, <2>1 DEF Cancel, ActiveStatus
  <2>3. HeavyActive' = HeavyActive /\ SlotState' = SlotState
    BY <1>13, <2>2 DEF Cancel, HeavyActive, SlotState
  <2> QED
    BY <2>3 DEF SlotStep
<1>14. CASE Restart
  <2>1. HeavyActive' = {} /\ SlotState' = "free"
    BY <1>14 DEF Restart, HeavyActive, SlotState, ActiveStatus
  <2> QED
    BY <2>1 DEF SlotStep, Slot!Next, Slot!Reset
<1> HIDE DEF TypeOK, ThreadTypeOK, JobTypeOK, Ownership, Actors, Goto, Return,
    threadVars, jobVars, coordVars, ghostVars
<1>15. QED
  BY <1>1, <1>2, <1>3, <1>4, <1>5, <1>6, <1>7, <1>8, <1>9, <1>10, <1>11, <1>12,
     <1>13, <1>14 DEF Next, Step, Tick, QuietStep, QuietTick


LEMMA SlotInit == Init => Slot!Init
BY DEF Init, Slot!Init, SlotState, HeavyActive, HeavyTypes

\* As long as no Release hits the reservation of another goroutine, coordinator
\* and jobs are a mutual-exclusion slot: a heavy job begins only under a claim
\* with no other at work, and the slot is freed only after its job has ended.
THEOREM Refinement == QuietSpec => ImplementsSlot
<1>1. Init => Slot!Init
  BY SlotInit
<1>2. Init => IInv /\ ~clobbered
  BY InitIInv DEF Init
<1>3. IInv /\ ~clobbered /\ [Next /\ ~clobbered']_vars => IInv' /\ ~clobbered'
  BY NextIInv DEF vars, ghostVars
<1>4. IInv /\ ~clobbered /\ [Next /\ ~clobbered']_vars => [Slot!Next]_(Slot!vars)
  <2> SUFFICES ASSUME IInv, ~clobbered, [Next /\ ~clobbered']_vars
               PROVE  [Slot!Next]_(Slot!vars)
    OBVIOUS
  <2>1. CASE UNCHANGED vars
    BY <2>1 DEF vars, coordVars, jobVars, SlotState, HeavyActive, Slot!vars
  <2>2. CASE Next /\ ~clobbered'
    <3>1. TypeOK /\ Requests /\ RowsMatchItems /\ Ownership /\ SlotGuards
      BY DEF IInv
    <3>2. SlotStep
      BY <2>2, <3>1, SlotStepHolds
    <3> QED
      BY <3>2 DEF SlotStep, Slot!vars
  <2> QED
    BY <2>1, <2>2
<1> QED
  BY <1>1, <1>2, <1>3, <1>4, PTL DEF QuietSpec, ImplementsSlot, Slot!Spec
=============================================================================
