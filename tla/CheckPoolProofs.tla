--------------------------- MODULE CheckPoolProofs ---------------------------
(***************************************************************************)
(* Theorems of CheckPool, for any pool, any set of plans and any limit.    *)
(* IInv is inductive; there is one lemma for each of its parts, with one   *)
(* step for each action that touches the variables of that part.           *)
(***************************************************************************)
EXTENDS CheckPool, TLAPS, FiniteSetTheorems

USE PoolAssumption, LimitAssumption, StoreAssumption
USE DEF vars, limiterVars, poolVars, consVars, counters, jobVars, ghostVars

\* Type correctness, by the groups of TypeOK.
LEMMA LimiterTypes ==
  ASSUME LimiterTypeOK, Next
  PROVE  LimiterTypeOK'
<1>1. ASSUME NEW n \in 0..(MaxLimit + 1), SetLimit(n)
      PROVE  LimiterTypeOK'
    BY <1>1 DEF LimiterTypeOK, SetLimit, Waiters, Clamp
<1>2. ASSUME NEW w \in Workers, Acquire(w)
      PROVE  LimiterTypeOK'
    BY <1>2 DEF LimiterTypeOK, Acquire
<1>3. ASSUME NEW w \in Workers, Wait(w)
      PROVE  LimiterTypeOK'
    BY <1>3 DEF LimiterTypeOK, Wait
<1>4. ASSUME NEW w \in Workers, Release(w)
      PROVE  LimiterTypeOK'
    BY <1>4 DEF LimiterTypeOK, Release, Waiters
<1>5. CASE
      \/ (\E w \in Workers : WakeUp(w))
      \/ (\E w \in Workers, p \in Plans : Take(w, p))
      \/ FeederEnds
      \/ (\E w \in Workers : NoMorePlans(w))
      \/ (\E w \in Workers : AcquireCancelled(w))
      \/ (\E w \in Workers : Check(w))
      \/ (\E w \in Workers : Send(w))
      \/ (\E w \in Workers : DropBundle(w))
      \/ CloseResults
      \/ (\E b \in results : Receive(b))
      \/ SaveBundle
      \/ SaveFails
      \/ DeleteProxy
      \/ DeleteFails
      \/ EndOfResults
      \/ Finish
      \/ Cancel
      \/ CancelContext
  <2>1. UNCHANGED <<limit, active, woken>>
    BY <1>5 DEF
      WakeUp, Take, FeederEnds, NoMorePlans, AcquireCancelled, Check, Send,
      DropBundle, CloseResults, Receive, SaveBundle, SaveFails, DeleteProxy,
      DeleteFails, EndOfResults, Finish, Cancel, CancelContext, Quit
  <2> QED
    BY <2>1 DEF LimiterTypeOK
<1> QED
  BY <1>1, <1>2, <1>3, <1>4, <1>5 DEF Next, Worker, Consumer

LEMMA Counters ==
  ASSUME TypeOK
  PROVE  /\ available \in Nat /\ failed \in Nat /\ deletedFailed \in Nat
         /\ persisted \in Nat /\ persistenceFailed \in Nat
  BY DEF TypeOK, ConsTypeOK

LEMMA PoolTypes ==
  ASSUME TypeOK, Hands, Next
  PROVE  PoolTypeOK'
<1>1. ASSUME NEW w \in Workers, Acquire(w)
      PROVE  PoolTypeOK'
    BY <1>1 DEF TypeOK, PoolTypeOK, Bundles, Verdicts, Acquire
<1>2. ASSUME NEW w \in Workers, Wait(w)
      PROVE  PoolTypeOK'
    BY <1>2 DEF TypeOK, PoolTypeOK, Bundles, Verdicts, Wait
<1>3. ASSUME NEW w \in Workers, WakeUp(w)
      PROVE  PoolTypeOK'
    BY <1>3 DEF TypeOK, PoolTypeOK, Bundles, Verdicts, WakeUp
<1>4. ASSUME NEW w \in Workers, Release(w)
      PROVE  PoolTypeOK'
    BY <1>4 DEF TypeOK, PoolTypeOK, Bundles, Verdicts, Release, Waiters
<1>5. ASSUME NEW w \in Workers, NEW p \in Plans, Take(w, p)
      PROVE  PoolTypeOK'
    BY <1>5 DEF TypeOK, PoolTypeOK, Bundles, Verdicts, Take
<1>6. CASE FeederEnds
    BY <1>6 DEF TypeOK, PoolTypeOK, Bundles, Verdicts, FeederEnds
<1>7. ASSUME NEW w \in Workers, NoMorePlans(w)
      PROVE  PoolTypeOK'
    BY <1>7 DEF TypeOK, PoolTypeOK, Bundles, Verdicts, NoMorePlans, Quit
<1>8. ASSUME NEW w \in Workers, AcquireCancelled(w)
      PROVE  PoolTypeOK'
    BY <1>8 DEF TypeOK, PoolTypeOK, Bundles, Verdicts, AcquireCancelled, Quit
<1>9. ASSUME NEW w \in Workers, Check(w)
      PROVE  PoolTypeOK'
    BY <1>9 DEF TypeOK, PoolTypeOK, Bundles, Verdicts, Check
<1>10. ASSUME NEW w \in Workers, Send(w)
      PROVE  PoolTypeOK'
  <2>1. [plan |-> plan[w], verdict |-> verdict[w]] \in Bundles
    <3>1. plan[w] \in Plans
      BY <1>10 DEF TypeOK, PoolTypeOK, Hands, AfterCheck, Send
    <3> QED  BY <3>1 DEF TypeOK, PoolTypeOK, Bundles
  <2>2. results' \subseteq Bundles
    BY <1>10, <2>1 DEF TypeOK, PoolTypeOK, Send
  <2> QED  BY <1>10, <2>2 DEF TypeOK, PoolTypeOK, Verdicts, Send
<1>11. ASSUME NEW w \in Workers, DropBundle(w)
      PROVE  PoolTypeOK'
    BY <1>11 DEF TypeOK, PoolTypeOK, Bundles, Verdicts, DropBundle, Quit
<1>12. CASE CloseResults
    BY <1>12 DEF TypeOK, PoolTypeOK, Bundles, Verdicts, CloseResults
<1>13. ASSUME NEW b \in results, Receive(b)
      PROVE  PoolTypeOK'
    BY <1>13 DEF TypeOK, PoolTypeOK, Bundles, Verdicts, Receive
<1>14. CASE
      \/ (\E n \in 0..(MaxLimit + 1) : SetLimit(n))
      \/ SaveBundle
      \/ SaveFails
      \/ DeleteProxy
      \/ DeleteFails
      \/ EndOfResults
      \/ Finish
      \/ Cancel
      \/ CancelContext
  <2>1. UNCHANGED <<unfed, fed, closed, pc, plan, verdict, results>>
    BY <1>14 DEF
      SetLimit, SaveBundle, SaveFails, DeleteProxy, DeleteFails,
      EndOfResults, Finish, Cancel, CancelContext
  <2> QED
    BY <2>1 DEF TypeOK, PoolTypeOK, Bundles, Verdicts
<1> QED
  BY <1>1, <1>2, <1>3, <1>4, <1>5, <1>6, <1>7, <1>8, <1>9, <1>10, <1>11, <1>12, <1>13, <1>14 DEF
    Next, Worker, Consumer

LEMMA ConsTypes ==
  ASSUME TypeOK, Next
  PROVE  ConsTypeOK'
<1>1. ASSUME NEW b \in results, Receive(b)
      PROVE  ConsTypeOK'
  <2>1. b \in Bundles
    BY DEF TypeOK, PoolTypeOK
  <2>2. /\ available' \in Nat /\ failed' \in Nat /\ deletedFailed' \in Nat
        /\ persisted' \in Nat /\ persistenceFailed' \in Nat
    BY <1>1, Counters DEF Receive
  <2>3. /\ cons' \in {"receive", "save", "delete", "finish", "ended"}
        /\ item' \in Bundles \union {NoBundle}
        /\ shield' \in BOOLEAN /\ outcome' \in Terminal \union {""}
    BY <1>1, <2>1 DEF TypeOK, JobTypeOK, ConsTypeOK, Receive
  <2> QED  BY <2>2, <2>3 DEF ConsTypeOK
<1>2. CASE SaveBundle
  <2>1. /\ available' \in Nat /\ failed' \in Nat /\ deletedFailed' \in Nat
        /\ persisted' \in Nat /\ persistenceFailed' \in Nat
    BY <1>2, Counters DEF SaveBundle
  <2>2. /\ cons' \in {"receive", "save", "delete", "finish", "ended"}
        /\ item' \in Bundles \union {NoBundle}
        /\ shield' \in BOOLEAN /\ outcome' \in Terminal \union {""}
    BY <1>2 DEF TypeOK, ConsTypeOK, SaveBundle
  <2> QED  BY <2>1, <2>2 DEF ConsTypeOK
<1>3. CASE SaveFails
  <2>1. /\ available' \in Nat /\ failed' \in Nat /\ deletedFailed' \in Nat
        /\ persisted' \in Nat /\ persistenceFailed' \in Nat
    BY <1>3, Counters DEF SaveFails
  <2>2. /\ cons' \in {"receive", "save", "delete", "finish", "ended"}
        /\ item' \in Bundles \union {NoBundle}
        /\ shield' \in BOOLEAN /\ outcome' \in Terminal \union {""}
    BY <1>3 DEF TypeOK, ConsTypeOK, SaveFails
  <2> QED  BY <2>1, <2>2 DEF ConsTypeOK
<1>4. CASE DeleteProxy
  <2>1. /\ available' \in Nat /\ failed' \in Nat /\ deletedFailed' \in Nat
        /\ persisted' \in Nat /\ persistenceFailed' \in Nat
    BY <1>4, Counters DEF DeleteProxy
  <2>2. /\ cons' \in {"receive", "save", "delete", "finish", "ended"}
        /\ item' \in Bundles \union {NoBundle}
        /\ shield' \in BOOLEAN /\ outcome' \in Terminal \union {""}
    BY <1>4 DEF TypeOK, ConsTypeOK, DeleteProxy
  <2> QED  BY <2>1, <2>2 DEF ConsTypeOK
<1>5. CASE DeleteFails
  <2>1. /\ available' \in Nat /\ failed' \in Nat /\ deletedFailed' \in Nat
        /\ persisted' \in Nat /\ persistenceFailed' \in Nat
    BY <1>5, Counters DEF DeleteFails
  <2>2. /\ cons' \in {"receive", "save", "delete", "finish", "ended"}
        /\ item' \in Bundles \union {NoBundle}
        /\ shield' \in BOOLEAN /\ outcome' \in Terminal \union {""}
    BY <1>5 DEF TypeOK, ConsTypeOK, DeleteFails
  <2> QED  BY <2>1, <2>2 DEF ConsTypeOK
<1>6. CASE EndOfResults
    BY <1>6 DEF TypeOK, ConsTypeOK, Terminal, EndOfResults, FinalOutcome
<1>7. CASE Finish
    BY <1>7 DEF TypeOK, ConsTypeOK, Terminal, Finish
<1>8. CASE
      \/ (\E n \in 0..(MaxLimit + 1) : SetLimit(n))
      \/ (\E w \in Workers : Acquire(w))
      \/ (\E w \in Workers : Wait(w))
      \/ (\E w \in Workers : WakeUp(w))
      \/ (\E w \in Workers : Release(w))
      \/ (\E w \in Workers, p \in Plans : Take(w, p))
      \/ FeederEnds
      \/ (\E w \in Workers : NoMorePlans(w))
      \/ (\E w \in Workers : AcquireCancelled(w))
      \/ (\E w \in Workers : Check(w))
      \/ (\E w \in Workers : Send(w))
      \/ (\E w \in Workers : DropBundle(w))
      \/ CloseResults
      \/ Cancel
      \/ CancelContext
  <2>1. UNCHANGED <<cons, item, shield, available, failed, persisted, persistenceFailed, deletedFailed, outcome>>
    BY <1>8 DEF
      SetLimit, Acquire, Wait, WakeUp, Release, Take, FeederEnds,
      NoMorePlans, AcquireCancelled, Check, Send, DropBundle, CloseResults,
      Cancel, CancelContext, Quit
  <2> QED
    BY <2>1 DEF TypeOK, ConsTypeOK, Terminal
<1> QED
  BY <1>1, <1>2, <1>3, <1>4, <1>5, <1>6, <1>7, <1>8 DEF Next, Worker, Consumer

LEMMA JobTypes ==
  ASSUME TypeOK, HonestItem, Hands, Closing, Next
  PROVE  JobTypeOK'
<1>1. ASSUME NEW w \in Workers, Check(w)
      PROVE  JobTypeOK'
  <2>1. plan[w] \in Plans
    BY <1>1 DEF TypeOK, PoolTypeOK, Hands, BeforeCheck, Check
  <2>2. PICK v \in Verdicts : produced' = [produced EXCEPT ![plan[w]] = v]
    BY <1>1 DEF Check
  <2>3. produced' \in [Plans -> Verdicts \union {"none"}]
    BY <2>1, <2>2 DEF TypeOK, JobTypeOK
  <2> QED  BY <1>1, <2>3 DEF TypeOK, JobTypeOK, Check
<1>2. CASE SaveBundle
    BY <1>2 DEF
      TypeOK, JobTypeOK, ConsTypeOK, PoolTypeOK, HonestItem, Hands,
      BeforeCheck, Bundles, Terminal, Verdicts, SaveBundle, ToDelete
<1>3. CASE DeleteProxy
    BY <1>3 DEF
      TypeOK, JobTypeOK, ConsTypeOK, PoolTypeOK, HonestItem, Hands,
      BeforeCheck, Bundles, Terminal, Verdicts, DeleteProxy, Deletable
<1>4. CASE Finish
    BY <1>4 DEF TypeOK, JobTypeOK, Closing, Terminal, Finish
<1>5. CASE Cancel
    BY <1>5 DEF
      TypeOK, JobTypeOK, ConsTypeOK, PoolTypeOK, HonestItem, Hands,
      BeforeCheck, Bundles, Terminal, Verdicts, Cancel
<1>6. CASE CancelContext
    BY <1>6 DEF
      TypeOK, JobTypeOK, ConsTypeOK, PoolTypeOK, HonestItem, Hands,
      BeforeCheck, Bundles, Terminal, Verdicts, CancelContext
<1>7. CASE
      \/ (\E n \in 0..(MaxLimit + 1) : SetLimit(n))
      \/ (\E w \in Workers : Acquire(w))
      \/ (\E w \in Workers : Wait(w))
      \/ (\E w \in Workers : WakeUp(w))
      \/ (\E w \in Workers : Release(w))
      \/ (\E w \in Workers, p \in Plans : Take(w, p))
      \/ FeederEnds
      \/ (\E w \in Workers : NoMorePlans(w))
      \/ (\E w \in Workers : AcquireCancelled(w))
      \/ (\E w \in Workers : Send(w))
      \/ (\E w \in Workers : DropBundle(w))
      \/ CloseResults
      \/ (\E b \in results : Receive(b))
      \/ SaveFails
      \/ DeleteFails
      \/ EndOfResults
  <2>1. UNCHANGED <<cancelled, status, known, produced, saved>>
    BY <1>7 DEF
      SetLimit, Acquire, Wait, WakeUp, Release, Take, FeederEnds,
      NoMorePlans, AcquireCancelled, Send, DropBundle, CloseResults, Receive,
      SaveFails, DeleteFails, EndOfResults, Quit
  <2> QED
    BY <2>1 DEF
      TypeOK, JobTypeOK, ConsTypeOK, PoolTypeOK, HonestItem, Hands,
      BeforeCheck, Bundles, Terminal, Verdicts
<1> QED
  BY <1>1, <1>2, <1>3, <1>4, <1>5, <1>6, <1>7 DEF Next, Worker, Consumer

\* The path of a plan from the feeder to the store.
LEMMA HandsStep ==
  ASSUME TypeOK, Hands, Next
  PROVE  Hands'
<1>1. ASSUME NEW w \in Workers, Acquire(w)
      PROVE  Hands'
    BY <1>1 DEF TypeOK, PoolTypeOK, Hands, BeforeCheck, AfterCheck, Acquire
<1>2. ASSUME NEW w \in Workers, Wait(w)
      PROVE  Hands'
    BY <1>2 DEF TypeOK, PoolTypeOK, Hands, BeforeCheck, AfterCheck, Wait
<1>3. ASSUME NEW w \in Workers, WakeUp(w)
      PROVE  Hands'
    BY <1>3 DEF TypeOK, PoolTypeOK, Hands, BeforeCheck, AfterCheck, WakeUp
<1>4. ASSUME NEW w \in Workers, Release(w)
      PROVE  Hands'
    BY <1>4 DEF
      TypeOK, PoolTypeOK, Hands, BeforeCheck, AfterCheck, Release, Waiters
<1>5. ASSUME NEW w \in Workers, NEW p \in Plans, Take(w, p)
      PROVE  Hands'
    BY <1>5 DEF TypeOK, PoolTypeOK, Hands, BeforeCheck, AfterCheck, Take
<1>6. ASSUME NEW w \in Workers, NoMorePlans(w)
      PROVE  Hands'
    BY <1>6 DEF
      TypeOK, PoolTypeOK, Hands, BeforeCheck, AfterCheck, NoMorePlans, Quit
<1>7. ASSUME NEW w \in Workers, AcquireCancelled(w)
      PROVE  Hands'
    BY <1>7 DEF
      TypeOK, PoolTypeOK, Hands, BeforeCheck, AfterCheck, AcquireCancelled,
      Quit
<1>8. ASSUME NEW w \in Workers, Check(w)
      PROVE  Hands'
    BY <1>8 DEF TypeOK, PoolTypeOK, Hands, BeforeCheck, AfterCheck, Check
<1>9. ASSUME NEW w \in Workers, Send(w)
      PROVE  Hands'
    BY <1>9 DEF TypeOK, PoolTypeOK, Hands, BeforeCheck, AfterCheck, Send
<1>10. ASSUME NEW w \in Workers, DropBundle(w)
      PROVE  Hands'
    BY <1>10 DEF
      TypeOK, PoolTypeOK, Hands, BeforeCheck, AfterCheck, DropBundle, Quit
<1>11. CASE
      \/ (\E n \in 0..(MaxLimit + 1) : SetLimit(n))
      \/ FeederEnds
      \/ CloseResults
      \/ (\E b \in results : Receive(b))
      \/ SaveBundle
      \/ SaveFails
      \/ DeleteProxy
      \/ DeleteFails
      \/ EndOfResults
      \/ Finish
      \/ Cancel
      \/ CancelContext
  <2>1. UNCHANGED <<unfed, pc, plan>>
    BY <1>11 DEF
      SetLimit, FeederEnds, CloseResults, Receive, SaveBundle, SaveFails,
      DeleteProxy, DeleteFails, EndOfResults, Finish, Cancel, CancelContext
  <2> QED
    BY <2>1 DEF TypeOK, PoolTypeOK, Hands, BeforeCheck, AfterCheck
<1> QED
  BY <1>1, <1>2, <1>3, <1>4, <1>5, <1>6, <1>7, <1>8, <1>9, <1>10, <1>11 DEF
    Next, Worker, Consumer

LEMMA FreshStep ==
  ASSUME TypeOK, Hands, Fresh, Next
  PROVE  Fresh'
<1>1. ASSUME NEW w \in Workers, Acquire(w)
      PROVE  Fresh'
    BY <1>1 DEF
      TypeOK, PoolTypeOK, JobTypeOK, Hands, Fresh, BeforeCheck, AfterCheck,
      Acquire
<1>2. ASSUME NEW w \in Workers, Wait(w)
      PROVE  Fresh'
    BY <1>2 DEF
      TypeOK, PoolTypeOK, JobTypeOK, Hands, Fresh, BeforeCheck, AfterCheck,
      Wait
<1>3. ASSUME NEW w \in Workers, WakeUp(w)
      PROVE  Fresh'
    BY <1>3 DEF
      TypeOK, PoolTypeOK, JobTypeOK, Hands, Fresh, BeforeCheck, AfterCheck,
      WakeUp
<1>4. ASSUME NEW w \in Workers, Release(w)
      PROVE  Fresh'
    BY <1>4 DEF
      TypeOK, PoolTypeOK, JobTypeOK, Hands, Fresh, BeforeCheck, AfterCheck,
      Release, Waiters
<1>5. ASSUME NEW w \in Workers, NEW p \in Plans, Take(w, p)
      PROVE  Fresh'
    BY <1>5 DEF
      TypeOK, PoolTypeOK, JobTypeOK, Hands, Fresh, BeforeCheck, AfterCheck,
      Take
<1>6. ASSUME NEW w \in Workers, NoMorePlans(w)
      PROVE  Fresh'
    BY <1>6 DEF
      TypeOK, PoolTypeOK, JobTypeOK, Hands, Fresh, BeforeCheck, AfterCheck,
      NoMorePlans, Quit
<1>7. ASSUME NEW w \in Workers, AcquireCancelled(w)
      PROVE  Fresh'
    BY <1>7 DEF
      TypeOK, PoolTypeOK, JobTypeOK, Hands, Fresh, BeforeCheck, AfterCheck,
      AcquireCancelled, Quit
<1>8. ASSUME NEW w \in Workers, Check(w)
      PROVE  Fresh'
    BY <1>8 DEF
      TypeOK, PoolTypeOK, JobTypeOK, Hands, Fresh, BeforeCheck, AfterCheck,
      Check
<1>9. ASSUME NEW w \in Workers, Send(w)
      PROVE  Fresh'
    BY <1>9 DEF
      TypeOK, PoolTypeOK, JobTypeOK, Hands, Fresh, BeforeCheck, AfterCheck,
      Send
<1>10. ASSUME NEW w \in Workers, DropBundle(w)
      PROVE  Fresh'
    BY <1>10 DEF
      TypeOK, PoolTypeOK, JobTypeOK, Hands, Fresh, BeforeCheck, AfterCheck,
      DropBundle, Quit
<1>11. CASE
      \/ (\E n \in 0..(MaxLimit + 1) : SetLimit(n))
      \/ FeederEnds
      \/ CloseResults
      \/ (\E b \in results : Receive(b))
      \/ SaveBundle
      \/ SaveFails
      \/ DeleteProxy
      \/ DeleteFails
      \/ EndOfResults
      \/ Finish
      \/ Cancel
      \/ CancelContext
  <2>1. UNCHANGED <<unfed, pc, plan, verdict, produced>>
    BY <1>11 DEF
      SetLimit, FeederEnds, CloseResults, Receive, SaveBundle, SaveFails,
      DeleteProxy, DeleteFails, EndOfResults, Finish, Cancel, CancelContext
  <2> QED
    BY <2>1 DEF
      TypeOK, PoolTypeOK, JobTypeOK, Hands, Fresh, BeforeCheck, AfterCheck
<1> QED
  BY <1>1, <1>2, <1>3, <1>4, <1>5, <1>6, <1>7, <1>8, <1>9, <1>10, <1>11 DEF
    Next, Worker, Consumer

LEMMA HonestBundlesStep ==
  ASSUME TypeOK, Hands, Fresh, HonestBundles, Next
  PROVE  HonestBundles'
<1>1. ASSUME NEW w \in Workers, Acquire(w)
      PROVE  HonestBundles'
    BY <1>1 DEF
      TypeOK, PoolTypeOK, JobTypeOK, Hands, Fresh, HonestBundles, Honest,
      BeforeCheck, AfterCheck, Bundles, Verdicts, Acquire
<1>2. ASSUME NEW w \in Workers, Wait(w)
      PROVE  HonestBundles'
    BY <1>2 DEF
      TypeOK, PoolTypeOK, JobTypeOK, Hands, Fresh, HonestBundles, Honest,
      BeforeCheck, AfterCheck, Bundles, Verdicts, Wait
<1>3. ASSUME NEW w \in Workers, WakeUp(w)
      PROVE  HonestBundles'
    BY <1>3 DEF
      TypeOK, PoolTypeOK, JobTypeOK, Hands, Fresh, HonestBundles, Honest,
      BeforeCheck, AfterCheck, Bundles, Verdicts, WakeUp
<1>4. ASSUME NEW w \in Workers, Release(w)
      PROVE  HonestBundles'
    BY <1>4 DEF
      TypeOK, PoolTypeOK, JobTypeOK, Hands, Fresh, HonestBundles, Honest,
      BeforeCheck, AfterCheck, Bundles, Verdicts, Release, Waiters
<1>5. ASSUME NEW w \in Workers, NEW p \in Plans, Take(w, p)
      PROVE  HonestBundles'
    BY <1>5 DEF
      TypeOK, PoolTypeOK, JobTypeOK, Hands, Fresh, HonestBundles, Honest,
      BeforeCheck, AfterCheck, Bundles, Verdicts, Take
<1>6. ASSUME NEW w \in Workers, NoMorePlans(w)
      PROVE  HonestBundles'
    BY <1>6 DEF
      TypeOK, PoolTypeOK, JobTypeOK, Hands, Fresh, HonestBundles, Honest,
      BeforeCheck, AfterCheck, Bundles, Verdicts, NoMorePlans, Quit
<1>7. ASSUME NEW w \in Workers, AcquireCancelled(w)
      PROVE  HonestBundles'
    BY <1>7 DEF
      TypeOK, PoolTypeOK, JobTypeOK, Hands, Fresh, HonestBundles, Honest,
      BeforeCheck, AfterCheck, Bundles, Verdicts, AcquireCancelled, Quit
<1>8. ASSUME NEW w \in Workers, Check(w)
      PROVE  HonestBundles'
    BY <1>8 DEF
      TypeOK, PoolTypeOK, JobTypeOK, Hands, Fresh, HonestBundles, Honest,
      BeforeCheck, AfterCheck, Bundles, Verdicts, Check
<1>9. ASSUME NEW w \in Workers, Send(w)
      PROVE  HonestBundles'
    BY <1>9 DEF
      TypeOK, PoolTypeOK, JobTypeOK, Hands, Fresh, HonestBundles, Honest,
      BeforeCheck, AfterCheck, Bundles, Verdicts, Send
<1>10. ASSUME NEW w \in Workers, DropBundle(w)
      PROVE  HonestBundles'
    BY <1>10 DEF
      TypeOK, PoolTypeOK, JobTypeOK, Hands, Fresh, HonestBundles, Honest,
      BeforeCheck, AfterCheck, Bundles, Verdicts, DropBundle, Quit
<1>11. ASSUME NEW b \in results, Receive(b)
      PROVE  HonestBundles'
    BY <1>11 DEF
      TypeOK, PoolTypeOK, JobTypeOK, Hands, Fresh, HonestBundles, Honest,
      BeforeCheck, AfterCheck, Bundles, Verdicts, Receive
<1>12. CASE CancelContext
    BY <1>12 DEF
      TypeOK, PoolTypeOK, JobTypeOK, Hands, Fresh, HonestBundles, Honest,
      BeforeCheck, AfterCheck, Bundles, Verdicts, CancelContext
<1>13. CASE
      \/ (\E n \in 0..(MaxLimit + 1) : SetLimit(n))
      \/ FeederEnds
      \/ CloseResults
      \/ SaveBundle
      \/ SaveFails
      \/ DeleteProxy
      \/ DeleteFails
      \/ EndOfResults
      \/ Finish
      \/ Cancel
  <2>1. UNCHANGED <<pc, plan, verdict, results, produced, cancelled>>
    BY <1>13 DEF
      SetLimit, FeederEnds, CloseResults, SaveBundle, SaveFails, DeleteProxy,
      DeleteFails, EndOfResults, Finish, Cancel
  <2> QED
    BY <2>1 DEF
      TypeOK, PoolTypeOK, JobTypeOK, Hands, Fresh, HonestBundles, Honest,
      BeforeCheck, AfterCheck, Bundles, Verdicts
<1> QED
  BY <1>1, <1>2, <1>3, <1>4, <1>5, <1>6, <1>7, <1>8, <1>9, <1>10, <1>11, <1>12, <1>13 DEF
    Next, Worker, Consumer

LEMMA HonestItemStep ==
  ASSUME TypeOK, Hands, Fresh, HonestBundles, HonestItem, Next
  PROVE  HonestItem'
<1>1. ASSUME NEW w \in Workers, Check(w)
      PROVE  HonestItem'
    BY <1>1 DEF
      TypeOK, PoolTypeOK, JobTypeOK, Hands, Fresh, HonestBundles, HonestItem,
      Honest, BeforeCheck, Bundles, Verdicts, Check
<1>2. ASSUME NEW b \in results, Receive(b)
      PROVE  HonestItem'
    BY <1>2 DEF
      TypeOK, PoolTypeOK, JobTypeOK, Hands, Fresh, HonestBundles, HonestItem,
      Honest, BeforeCheck, Bundles, Verdicts, Receive
<1>3. CASE SaveBundle
    BY <1>3 DEF
      TypeOK, PoolTypeOK, JobTypeOK, Hands, Fresh, HonestBundles, HonestItem,
      Honest, BeforeCheck, Bundles, Verdicts, SaveBundle, ToDelete
<1>4. CASE SaveFails
    BY <1>4 DEF
      TypeOK, PoolTypeOK, JobTypeOK, Hands, Fresh, HonestBundles, HonestItem,
      Honest, BeforeCheck, Bundles, Verdicts, SaveFails
<1>5. CASE DeleteProxy
    BY <1>5 DEF
      TypeOK, PoolTypeOK, JobTypeOK, Hands, Fresh, HonestBundles, HonestItem,
      Honest, BeforeCheck, Bundles, Verdicts, DeleteProxy, Deletable
<1>6. CASE DeleteFails
    BY <1>6 DEF
      TypeOK, PoolTypeOK, JobTypeOK, Hands, Fresh, HonestBundles, HonestItem,
      Honest, BeforeCheck, Bundles, Verdicts, DeleteFails
<1>7. CASE EndOfResults
    BY <1>7 DEF
      TypeOK, PoolTypeOK, JobTypeOK, Hands, Fresh, HonestBundles, HonestItem,
      Honest, BeforeCheck, Bundles, Verdicts, EndOfResults, FinalOutcome
<1>8. CASE Finish
    BY <1>8 DEF
      TypeOK, PoolTypeOK, JobTypeOK, Hands, Fresh, HonestBundles, HonestItem,
      Honest, BeforeCheck, Bundles, Verdicts, Finish
<1>9. CASE
      \/ (\E n \in 0..(MaxLimit + 1) : SetLimit(n))
      \/ (\E w \in Workers : Acquire(w))
      \/ (\E w \in Workers : Wait(w))
      \/ (\E w \in Workers : WakeUp(w))
      \/ (\E w \in Workers : Release(w))
      \/ (\E w \in Workers, p \in Plans : Take(w, p))
      \/ FeederEnds
      \/ (\E w \in Workers : NoMorePlans(w))
      \/ (\E w \in Workers : AcquireCancelled(w))
      \/ (\E w \in Workers : Send(w))
      \/ (\E w \in Workers : DropBundle(w))
      \/ CloseResults
      \/ Cancel
      \/ CancelContext
  <2>1. UNCHANGED <<cons, item, produced, saved>>
    BY <1>9 DEF
      SetLimit, Acquire, Wait, WakeUp, Release, Take, FeederEnds,
      NoMorePlans, AcquireCancelled, Send, DropBundle, CloseResults, Cancel,
      CancelContext, Quit
  <2> QED
    BY <2>1 DEF
      TypeOK, PoolTypeOK, JobTypeOK, Hands, Fresh, HonestBundles, HonestItem,
      Honest, BeforeCheck, Bundles, Verdicts
<1> QED
  BY <1>1, <1>2, <1>3, <1>4, <1>5, <1>6, <1>7, <1>8, <1>9 DEF
    Next, Worker, Consumer

\* Permits and wake-ups.
LEMMA HoldersFinite == IsFiniteSet(PermitHolders)
  BY FS_Subset DEF PermitHolders

LEMMA PermitsStep ==
  ASSUME TypeOK, PermitsAccounted, Next
  PROVE  PermitsAccounted'
<1>1. ASSUME NEW w \in Workers, Acquire(w)
      PROVE  PermitsAccounted'
  <2>1. w \notin PermitHolders /\ PermitHolders' = PermitHolders \union {w}
    BY <1>1 DEF TypeOK, PoolTypeOK, PermitHolders, Acquire
  <2>2. Cardinality(PermitHolders') = Cardinality(PermitHolders) + 1
    BY <2>1, HoldersFinite, FS_AddElement
  <2> QED  BY <1>1, <2>2 DEF PermitsAccounted, Acquire
<1>2. ASSUME NEW w \in Workers, Wait(w)
      PROVE  PermitsAccounted'
    BY <1>2 DEF TypeOK, PoolTypeOK, PermitsAccounted, PermitHolders, Wait
<1>3. ASSUME NEW w \in Workers, WakeUp(w)
      PROVE  PermitsAccounted'
    BY <1>3 DEF TypeOK, PoolTypeOK, PermitsAccounted, PermitHolders, WakeUp
<1>4. ASSUME NEW w \in Workers, Release(w)
      PROVE  PermitsAccounted'
  <2>1. w \in PermitHolders /\ PermitHolders' = PermitHolders \ {w}
    BY <1>4 DEF TypeOK, PoolTypeOK, PermitHolders, Release
  <2>2. Cardinality(PermitHolders') = Cardinality(PermitHolders) - 1
    BY <2>1, HoldersFinite, FS_RemoveElement
  <2>3. active > 0
    <3>1. Cardinality(PermitHolders) # 0
      BY <2>1, HoldersFinite, FS_EmptySet
    <3> QED  BY <3>1, HoldersFinite, FS_CardinalityType DEF PermitsAccounted
  <2> QED  BY <1>4, <2>2, <2>3 DEF PermitsAccounted, Release
<1>5. ASSUME NEW w \in Workers, NEW p \in Plans, Take(w, p)
      PROVE  PermitsAccounted'
    BY <1>5 DEF TypeOK, PoolTypeOK, PermitsAccounted, PermitHolders, Take
<1>6. ASSUME NEW w \in Workers, NoMorePlans(w)
      PROVE  PermitsAccounted'
    BY <1>6 DEF
      TypeOK, PoolTypeOK, PermitsAccounted, PermitHolders, NoMorePlans, Quit
<1>7. ASSUME NEW w \in Workers, AcquireCancelled(w)
      PROVE  PermitsAccounted'
    BY <1>7 DEF
      TypeOK, PoolTypeOK, PermitsAccounted, PermitHolders, AcquireCancelled,
      Quit
<1>8. ASSUME NEW w \in Workers, Check(w)
      PROVE  PermitsAccounted'
    BY <1>8 DEF TypeOK, PoolTypeOK, PermitsAccounted, PermitHolders, Check
<1>9. ASSUME NEW w \in Workers, Send(w)
      PROVE  PermitsAccounted'
    BY <1>9 DEF TypeOK, PoolTypeOK, PermitsAccounted, PermitHolders, Send
<1>10. ASSUME NEW w \in Workers, DropBundle(w)
      PROVE  PermitsAccounted'
    BY <1>10 DEF
      TypeOK, PoolTypeOK, PermitsAccounted, PermitHolders, DropBundle, Quit
<1>11. CASE
      \/ (\E n \in 0..(MaxLimit + 1) : SetLimit(n))
      \/ FeederEnds
      \/ CloseResults
      \/ (\E b \in results : Receive(b))
      \/ SaveBundle
      \/ SaveFails
      \/ DeleteProxy
      \/ DeleteFails
      \/ EndOfResults
      \/ Finish
      \/ Cancel
      \/ CancelContext
  <2>1. UNCHANGED <<active, pc>>
    BY <1>11 DEF
      SetLimit, FeederEnds, CloseResults, Receive, SaveBundle, SaveFails,
      DeleteProxy, DeleteFails, EndOfResults, Finish, Cancel, CancelContext
  <2> QED
    BY <2>1 DEF TypeOK, PoolTypeOK, PermitsAccounted, PermitHolders
<1> QED
  BY <1>1, <1>2, <1>3, <1>4, <1>5, <1>6, <1>7, <1>8, <1>9, <1>10, <1>11 DEF
    Next, Worker, Consumer

LEMMA SleeperStep ==
  ASSUME TypeOK, NoSleeperMissesPermit, Next
  PROVE  NoSleeperMissesPermit'
<1>1. ASSUME NEW n \in 0..(MaxLimit + 1), SetLimit(n)
      PROVE  NoSleeperMissesPermit'
    BY <1>1 DEF
      TypeOK, PoolTypeOK, LimiterTypeOK, NoSleeperMissesPermit, SetLimit,
      Waiters, Clamp
<1>2. ASSUME NEW w \in Workers, Acquire(w)
      PROVE  NoSleeperMissesPermit'
    BY <1>2 DEF
      TypeOK, PoolTypeOK, LimiterTypeOK, NoSleeperMissesPermit, Acquire
<1>3. ASSUME NEW w \in Workers, Wait(w)
      PROVE  NoSleeperMissesPermit'
    BY <1>3 DEF TypeOK, PoolTypeOK, LimiterTypeOK, NoSleeperMissesPermit, Wait
<1>4. ASSUME NEW w \in Workers, WakeUp(w)
      PROVE  NoSleeperMissesPermit'
    BY <1>4 DEF
      TypeOK, PoolTypeOK, LimiterTypeOK, NoSleeperMissesPermit, WakeUp
<1>5. ASSUME NEW w \in Workers, Release(w)
      PROVE  NoSleeperMissesPermit'
    BY <1>5 DEF
      TypeOK, PoolTypeOK, LimiterTypeOK, NoSleeperMissesPermit, Release,
      Waiters
<1>6. ASSUME NEW w \in Workers, NEW p \in Plans, Take(w, p)
      PROVE  NoSleeperMissesPermit'
    BY <1>6 DEF TypeOK, PoolTypeOK, LimiterTypeOK, NoSleeperMissesPermit, Take
<1>7. ASSUME NEW w \in Workers, NoMorePlans(w)
      PROVE  NoSleeperMissesPermit'
    BY <1>7 DEF
      TypeOK, PoolTypeOK, LimiterTypeOK, NoSleeperMissesPermit, NoMorePlans,
      Quit
<1>8. ASSUME NEW w \in Workers, AcquireCancelled(w)
      PROVE  NoSleeperMissesPermit'
    BY <1>8 DEF
      TypeOK, PoolTypeOK, LimiterTypeOK, NoSleeperMissesPermit,
      AcquireCancelled, Quit
<1>9. ASSUME NEW w \in Workers, Check(w)
      PROVE  NoSleeperMissesPermit'
    BY <1>9 DEF
      TypeOK, PoolTypeOK, LimiterTypeOK, NoSleeperMissesPermit, Check
<1>10. ASSUME NEW w \in Workers, Send(w)
      PROVE  NoSleeperMissesPermit'
    BY <1>10 DEF
      TypeOK, PoolTypeOK, LimiterTypeOK, NoSleeperMissesPermit, Send
<1>11. ASSUME NEW w \in Workers, DropBundle(w)
      PROVE  NoSleeperMissesPermit'
    BY <1>11 DEF
      TypeOK, PoolTypeOK, LimiterTypeOK, NoSleeperMissesPermit, DropBundle,
      Quit
<1>12. CASE
      \/ FeederEnds
      \/ CloseResults
      \/ (\E b \in results : Receive(b))
      \/ SaveBundle
      \/ SaveFails
      \/ DeleteProxy
      \/ DeleteFails
      \/ EndOfResults
      \/ Finish
      \/ Cancel
      \/ CancelContext
  <2>1. UNCHANGED <<limit, active, woken, pc>>
    BY <1>12 DEF
      FeederEnds, CloseResults, Receive, SaveBundle, SaveFails, DeleteProxy,
      DeleteFails, EndOfResults, Finish, Cancel, CancelContext
  <2> QED
    BY <2>1 DEF TypeOK, PoolTypeOK, LimiterTypeOK, NoSleeperMissesPermit
<1> QED
  BY <1>1, <1>2, <1>3, <1>4, <1>5, <1>6, <1>7, <1>8, <1>9, <1>10, <1>11, <1>12 DEF
    Next, Worker, Consumer

\* What is deleted, and the order in which things end.
LEMMA DeletedStep ==
  ASSUME TypeOK, Hands, Fresh, HonestItem, DeletedOnlyWhenDead, Next
  PROVE  DeletedOnlyWhenDead'
<1>1. ASSUME NEW w \in Workers, Check(w)
      PROVE  DeletedOnlyWhenDead'
    BY <1>1 DEF
      TypeOK, JobTypeOK, Hands, Fresh, HonestItem, DeletedOnlyWhenDead,
      Bundles, Verdicts, BeforeCheck, Check
<1>2. CASE SaveBundle
    BY <1>2 DEF
      TypeOK, JobTypeOK, Hands, Fresh, HonestItem, DeletedOnlyWhenDead,
      Bundles, Verdicts, BeforeCheck, SaveBundle, ToDelete
<1>3. CASE DeleteProxy
    BY <1>3 DEF
      TypeOK, JobTypeOK, Hands, Fresh, HonestItem, DeletedOnlyWhenDead,
      Bundles, Verdicts, BeforeCheck, DeleteProxy, Deletable
<1>4. CASE
      \/ (\E n \in 0..(MaxLimit + 1) : SetLimit(n))
      \/ (\E w \in Workers : Acquire(w))
      \/ (\E w \in Workers : Wait(w))
      \/ (\E w \in Workers : WakeUp(w))
      \/ (\E w \in Workers : Release(w))
      \/ (\E w \in Workers, p \in Plans : Take(w, p))
      \/ FeederEnds
      \/ (\E w \in Workers : NoMorePlans(w))
      \/ (\E w \in Workers : AcquireCancelled(w))
      \/ (\E w \in Workers : Send(w))
      \/ (\E w \in Workers : DropBundle(w))
      \/ CloseResults
      \/ (\E b \in results : Receive(b))
      \/ SaveFails
      \/ DeleteFails
      \/ EndOfResults
      \/ Finish
      \/ Cancel
      \/ CancelContext
  <2>1. UNCHANGED <<known, produced, saved>>
    BY <1>4 DEF
      SetLimit, Acquire, Wait, WakeUp, Release, Take, FeederEnds,
      NoMorePlans, AcquireCancelled, Send, DropBundle, CloseResults, Receive,
      SaveFails, DeleteFails, EndOfResults, Finish, Cancel, CancelContext,
      Quit
  <2> QED
    BY <2>1 DEF
      TypeOK, JobTypeOK, Hands, Fresh, HonestItem, DeletedOnlyWhenDead,
      Bundles, Verdicts, BeforeCheck
<1> QED
  BY <1>1, <1>2, <1>3, <1>4 DEF Next, Worker, Consumer

LEMMA FeedingStep ==
  ASSUME TypeOK, Feeding, Next
  PROVE  Feeding'
<1>1. ASSUME NEW w \in Workers, Acquire(w)
      PROVE  Feeding'
    BY <1>1 DEF TypeOK, PoolTypeOK, Feeding, Acquire
<1>2. ASSUME NEW w \in Workers, Wait(w)
      PROVE  Feeding'
    BY <1>2 DEF TypeOK, PoolTypeOK, Feeding, Wait
<1>3. ASSUME NEW w \in Workers, WakeUp(w)
      PROVE  Feeding'
    BY <1>3 DEF TypeOK, PoolTypeOK, Feeding, WakeUp
<1>4. ASSUME NEW w \in Workers, Release(w)
      PROVE  Feeding'
    BY <1>4 DEF TypeOK, PoolTypeOK, Feeding, Release, Waiters
<1>5. ASSUME NEW w \in Workers, NEW p \in Plans, Take(w, p)
      PROVE  Feeding'
    BY <1>5 DEF TypeOK, PoolTypeOK, Feeding, Take
<1>6. CASE FeederEnds
    BY <1>6 DEF TypeOK, PoolTypeOK, Feeding, FeederEnds
<1>7. ASSUME NEW w \in Workers, NoMorePlans(w)
      PROVE  Feeding'
    BY <1>7 DEF TypeOK, PoolTypeOK, Feeding, NoMorePlans, Quit
<1>8. ASSUME NEW w \in Workers, AcquireCancelled(w)
      PROVE  Feeding'
    BY <1>8 DEF TypeOK, PoolTypeOK, Feeding, AcquireCancelled, Quit
<1>9. ASSUME NEW w \in Workers, Check(w)
      PROVE  Feeding'
    BY <1>9 DEF TypeOK, PoolTypeOK, Feeding, Check
<1>10. ASSUME NEW w \in Workers, Send(w)
      PROVE  Feeding'
    BY <1>10 DEF TypeOK, PoolTypeOK, Feeding, Send
<1>11. ASSUME NEW w \in Workers, DropBundle(w)
      PROVE  Feeding'
    BY <1>11 DEF TypeOK, PoolTypeOK, Feeding, DropBundle, Quit
<1>12. CASE CancelContext
    BY <1>12 DEF TypeOK, PoolTypeOK, Feeding, CancelContext
<1>13. CASE
      \/ (\E n \in 0..(MaxLimit + 1) : SetLimit(n))
      \/ CloseResults
      \/ (\E b \in results : Receive(b))
      \/ SaveBundle
      \/ SaveFails
      \/ DeleteProxy
      \/ DeleteFails
      \/ EndOfResults
      \/ Finish
      \/ Cancel
  <2>1. UNCHANGED <<cancelled, fed, unfed, pc>>
    BY <1>13 DEF
      SetLimit, CloseResults, Receive, SaveBundle, SaveFails, DeleteProxy,
      DeleteFails, EndOfResults, Finish, Cancel
  <2> QED
    BY <2>1 DEF TypeOK, PoolTypeOK, Feeding
<1> QED
  BY <1>1, <1>2, <1>3, <1>4, <1>5, <1>6, <1>7, <1>8, <1>9, <1>10, <1>11, <1>12, <1>13 DEF
    Next, Worker, Consumer

LEMMA ClosingStep ==
  ASSUME TypeOK, Closing, Next
  PROVE  Closing'
<1>1. ASSUME NEW w \in Workers, Acquire(w)
      PROVE  Closing'
    BY <1>1 DEF TypeOK, PoolTypeOK, Closing, Terminal, JobTypeOK, Acquire
<1>2. ASSUME NEW w \in Workers, Wait(w)
      PROVE  Closing'
    BY <1>2 DEF TypeOK, PoolTypeOK, Closing, Terminal, JobTypeOK, Wait
<1>3. ASSUME NEW w \in Workers, WakeUp(w)
      PROVE  Closing'
    BY <1>3 DEF TypeOK, PoolTypeOK, Closing, Terminal, JobTypeOK, WakeUp
<1>4. ASSUME NEW w \in Workers, Release(w)
      PROVE  Closing'
    BY <1>4 DEF
      TypeOK, PoolTypeOK, Closing, Terminal, JobTypeOK, Release, Waiters
<1>5. ASSUME NEW w \in Workers, NEW p \in Plans, Take(w, p)
      PROVE  Closing'
    BY <1>5 DEF TypeOK, PoolTypeOK, Closing, Terminal, JobTypeOK, Take
<1>6. ASSUME NEW w \in Workers, NoMorePlans(w)
      PROVE  Closing'
    BY <1>6 DEF
      TypeOK, PoolTypeOK, Closing, Terminal, JobTypeOK, NoMorePlans, Quit
<1>7. ASSUME NEW w \in Workers, AcquireCancelled(w)
      PROVE  Closing'
    BY <1>7 DEF
      TypeOK, PoolTypeOK, Closing, Terminal, JobTypeOK, AcquireCancelled,
      Quit
<1>8. ASSUME NEW w \in Workers, Check(w)
      PROVE  Closing'
    BY <1>8 DEF TypeOK, PoolTypeOK, Closing, Terminal, JobTypeOK, Check
<1>9. ASSUME NEW w \in Workers, Send(w)
      PROVE  Closing'
    BY <1>9 DEF TypeOK, PoolTypeOK, Closing, Terminal, JobTypeOK, Send
<1>10. ASSUME NEW w \in Workers, DropBundle(w)
      PROVE  Closing'
    BY <1>10 DEF
      TypeOK, PoolTypeOK, Closing, Terminal, JobTypeOK, DropBundle, Quit
<1>11. CASE CloseResults
    BY <1>11 DEF
      TypeOK, PoolTypeOK, Closing, Terminal, JobTypeOK, CloseResults
<1>12. ASSUME NEW b \in results, Receive(b)
      PROVE  Closing'
    BY <1>12 DEF TypeOK, PoolTypeOK, Closing, Terminal, JobTypeOK, Receive
<1>13. CASE SaveBundle
    BY <1>13 DEF
      TypeOK, PoolTypeOK, Closing, Terminal, JobTypeOK, SaveBundle, ToDelete
<1>14. CASE SaveFails
    BY <1>14 DEF TypeOK, PoolTypeOK, Closing, Terminal, JobTypeOK, SaveFails
<1>15. CASE DeleteProxy
    BY <1>15 DEF
      TypeOK, PoolTypeOK, Closing, Terminal, JobTypeOK, DeleteProxy,
      Deletable
<1>16. CASE DeleteFails
    BY <1>16 DEF TypeOK, PoolTypeOK, Closing, Terminal, JobTypeOK, DeleteFails
<1>17. CASE EndOfResults
    BY <1>17 DEF
      TypeOK, PoolTypeOK, Closing, Terminal, JobTypeOK, EndOfResults,
      FinalOutcome
<1>18. CASE Finish
    BY <1>18 DEF TypeOK, PoolTypeOK, Closing, Terminal, JobTypeOK, Finish
<1>19. CASE Cancel
    BY <1>19 DEF TypeOK, PoolTypeOK, Closing, Terminal, JobTypeOK, Cancel
<1>20. CASE
      \/ (\E n \in 0..(MaxLimit + 1) : SetLimit(n))
      \/ FeederEnds
      \/ CancelContext
  <2>1. UNCHANGED <<closed, pc, cons, results, status, outcome>>
    BY <1>20 DEF SetLimit, FeederEnds, CancelContext
  <2> QED
    BY <2>1 DEF TypeOK, PoolTypeOK, Closing, Terminal, JobTypeOK
<1> QED
  BY <1>1, <1>2, <1>3, <1>4, <1>5, <1>6, <1>7, <1>8, <1>9, <1>10, <1>11, <1>12, <1>13, <1>14, <1>15, <1>16, <1>17, <1>18, <1>19, <1>20 DEF
    Next, Worker, Consumer

\* No plan gets lost.
LEMMA CoveredStep ==
  ASSUME TypeOK, Hands, Fresh, HonestBundles, Covered, Next
  PROVE  Covered'
<1>1. ASSUME NEW w \in Workers, NEW p \in Plans, Take(w, p)
      PROVE  Covered'
  <2> SUFFICES ASSUME ~cancelled', persistenceFailed' = 0, NEW q \in Plans
                PROVE  Settled(q)' \/ Underway(q)'
    BY DEF Covered
  <2>1. Settled(q) \/ Underway(q)
    BY <1>1 DEF Covered, Take
  <2>2. CASE Settled(q)
    BY <1>1, <2>2 DEF Settled, Take
  <2>3. CASE q \in unfed
    <3>1. CASE q = p
      BY <1>1, <3>1 DEF TypeOK, PoolTypeOK, Underway, Take
    <3>2. CASE q # p
      BY <1>1, <2>3, <3>2 DEF Underway, Take
    <3> QED  BY <3>1, <3>2
  <2>4. CASE \E v \in Workers : plan[v] = q
    BY <1>1, <2>4 DEF
      Underway, TypeOK, PoolTypeOK, Hands, BeforeCheck, AfterCheck, Take
  <2>5. CASE \E c \in results : c.plan = q
    BY <1>1, <2>5 DEF Underway, Take
  <2>6. CASE cons = "save" /\ item.plan = q
    BY <1>1, <2>6 DEF Underway, Take
  <2> QED  BY <2>1, <2>2, <2>3, <2>4, <2>5, <2>6 DEF Underway
<1>2. ASSUME NEW w \in Workers, NoMorePlans(w)
      PROVE  Covered'
  <2> SUFFICES ASSUME ~cancelled', persistenceFailed' = 0, NEW q \in Plans
                PROVE  Settled(q)' \/ Underway(q)'
    BY DEF Covered
  <2>1. Settled(q) \/ Underway(q)
    BY <1>2 DEF Covered, NoMorePlans, Quit
  <2>2. CASE Settled(q)
    BY <1>2, <2>2 DEF Settled, NoMorePlans, Quit
  <2>3. CASE q \in unfed
    BY <1>2, <2>3 DEF Underway, NoMorePlans, Quit
  <2>4. CASE \E v \in Workers : plan[v] = q
    BY <1>2, <2>4 DEF
      Underway, TypeOK, PoolTypeOK, Hands, BeforeCheck, AfterCheck,
      NoMorePlans, Quit
  <2>5. CASE \E c \in results : c.plan = q
    BY <1>2, <2>5 DEF Underway, NoMorePlans, Quit
  <2>6. CASE cons = "save" /\ item.plan = q
    BY <1>2, <2>6 DEF Underway, NoMorePlans, Quit
  <2> QED  BY <2>1, <2>2, <2>3, <2>4, <2>5, <2>6 DEF Underway
<1>3. ASSUME NEW w \in Workers, AcquireCancelled(w)
      PROVE  Covered'
    BY <1>3 DEF
      TypeOK, PoolTypeOK, ConsTypeOK, JobTypeOK, Hands, Fresh, HonestBundles,
      Honest, Covered, Settled, Underway, BeforeCheck, AfterCheck,
      AcquireCancelled, Quit
<1>4. ASSUME NEW w \in Workers, Check(w)
      PROVE  Covered'
  <2> SUFFICES ASSUME ~cancelled', persistenceFailed' = 0, NEW q \in Plans
                PROVE  Settled(q)' \/ Underway(q)'
    BY DEF Covered
  <2>1. Settled(q) \/ Underway(q)
    BY <1>4 DEF Covered, Check
  <2>2. CASE Settled(q)
    BY <1>4, <2>2 DEF
      Settled, TypeOK, PoolTypeOK, JobTypeOK, Hands, Fresh, BeforeCheck,
      Check
  <2>3. CASE q \in unfed
    BY <1>4, <2>3 DEF Underway, Check
  <2>4. CASE \E v \in Workers : plan[v] = q
    BY <1>4, <2>4 DEF Underway, Check
  <2>5. CASE \E c \in results : c.plan = q
    BY <1>4, <2>5 DEF Underway, Check
  <2>6. CASE cons = "save" /\ item.plan = q
    BY <1>4, <2>6 DEF Underway, Check
  <2> QED  BY <2>1, <2>2, <2>3, <2>4, <2>5, <2>6 DEF Underway
<1>5. ASSUME NEW w \in Workers, Send(w)
      PROVE  Covered'
  <2> SUFFICES ASSUME ~cancelled', persistenceFailed' = 0, NEW q \in Plans
                PROVE  Settled(q)' \/ Underway(q)'
    BY DEF Covered
  <2>1. Settled(q) \/ Underway(q)
    BY <1>5 DEF Covered, Send
  <2>2. CASE Settled(q)
    BY <1>5, <2>2 DEF Settled, Send
  <2>3. CASE q \in unfed
    BY <1>5, <2>3 DEF Underway, Send
  <2>4. CASE \E v \in Workers : plan[v] = q
    <3>1. PICK v \in Workers : plan[v] = q
      BY <2>4
    <3>2. CASE v = w
      <4>1. [plan |-> q, verdict |-> verdict[w]] \in results'
        BY <1>5, <3>1, <3>2 DEF Send
      <4> QED  BY <4>1 DEF Underway
    <3>3. CASE v # w
      BY <1>5, <3>1, <3>3 DEF TypeOK, PoolTypeOK, Underway, Send
    <3> QED  BY <3>2, <3>3
  <2>5. CASE \E c \in results : c.plan = q
    BY <1>5, <2>5 DEF Underway, Send
  <2>6. CASE cons = "save" /\ item.plan = q
    BY <1>5, <2>6 DEF Underway, Send
  <2> QED  BY <2>1, <2>2, <2>3, <2>4, <2>5, <2>6 DEF Underway
<1>6. ASSUME NEW w \in Workers, DropBundle(w)
      PROVE  Covered'
    BY <1>6 DEF
      TypeOK, PoolTypeOK, ConsTypeOK, JobTypeOK, Hands, Fresh, HonestBundles,
      Honest, Covered, Settled, Underway, BeforeCheck, AfterCheck,
      DropBundle, Quit
<1>7. ASSUME NEW b \in results, Receive(b)
      PROVE  Covered'
  <2> SUFFICES ASSUME ~cancelled', persistenceFailed' = 0, NEW q \in Plans
                PROVE  Settled(q)' \/ Underway(q)'
    BY DEF Covered
  <2>1. Settled(q) \/ Underway(q)
    BY <1>7 DEF Covered, Receive
  <2>2. CASE Settled(q)
    BY <1>7, <2>2 DEF Settled, Receive
  <2>3. CASE q \in unfed
    BY <1>7, <2>3 DEF Underway, Receive
  <2>4. CASE \E v \in Workers : plan[v] = q
    BY <1>7, <2>4 DEF Underway, Receive
  <2>5. CASE \E c \in results : c.plan = q
    <3>1. PICK c \in results : c.plan = q
      BY <2>5
    <3>2. CASE c # b
      BY <1>7, <3>1, <3>2 DEF Underway, Receive
    <3>3. CASE c = b /\ b.verdict = "empty"
      BY <1>7, <3>1, <3>3 DEF HonestBundles, Honest, Settled, Receive
    <3>4. CASE c = b /\ b.verdict # "empty"
      BY <1>7, <3>1, <3>4 DEF Underway, Receive
    <3> QED  BY <3>2, <3>3, <3>4
  <2>6. CASE cons = "save" /\ item.plan = q
    BY <1>7, <2>6 DEF Underway, Receive
  <2> QED  BY <2>1, <2>2, <2>3, <2>4, <2>5, <2>6 DEF Underway
<1>8. CASE SaveBundle
  <2> SUFFICES ASSUME ~cancelled', persistenceFailed' = 0, NEW q \in Plans
                PROVE  Settled(q)' \/ Underway(q)'
    BY DEF Covered
  <2>1. Settled(q) \/ Underway(q)
    BY <1>8 DEF Covered, SaveBundle, ToDelete
  <2>2. CASE Settled(q)
    BY <1>8, <2>2 DEF Settled, SaveBundle, ToDelete
  <2>3. CASE q \in unfed
    BY <1>8, <2>3 DEF Underway, SaveBundle, ToDelete
  <2>4. CASE \E v \in Workers : plan[v] = q
    BY <1>8, <2>4 DEF Underway, SaveBundle, ToDelete
  <2>5. CASE \E c \in results : c.plan = q
    BY <1>8, <2>5 DEF Underway, SaveBundle, ToDelete
  <2>6. CASE cons = "save" /\ item.plan = q
    BY <1>8, <2>6 DEF Settled, SaveBundle
  <2> QED  BY <2>1, <2>2, <2>3, <2>4, <2>5, <2>6 DEF Underway
<1>9. CASE SaveFails
  <2>1. persistenceFailed' # 0
    BY <1>9, Counters DEF SaveFails
  <2> QED  BY <2>1 DEF Covered
<1>10. CASE DeleteProxy
    BY <1>10 DEF
      TypeOK, PoolTypeOK, ConsTypeOK, JobTypeOK, Hands, Fresh, HonestBundles,
      Honest, Covered, Settled, Underway, BeforeCheck, AfterCheck,
      DeleteProxy, Deletable
<1>11. CASE DeleteFails
  <2>1. persistenceFailed' # 0
    BY <1>11, Counters DEF DeleteFails
  <2> QED  BY <2>1 DEF Covered
<1>12. CASE EndOfResults
    BY <1>12 DEF
      TypeOK, PoolTypeOK, ConsTypeOK, JobTypeOK, Hands, Fresh, HonestBundles,
      Honest, Covered, Settled, Underway, BeforeCheck, AfterCheck,
      EndOfResults, FinalOutcome
<1>13. CASE Finish
    BY <1>13 DEF
      TypeOK, PoolTypeOK, ConsTypeOK, JobTypeOK, Hands, Fresh, HonestBundles,
      Honest, Covered, Settled, Underway, BeforeCheck, AfterCheck, Finish
<1>14. CASE CancelContext
    BY <1>14 DEF
      TypeOK, PoolTypeOK, ConsTypeOK, JobTypeOK, Hands, Fresh, HonestBundles,
      Honest, Covered, Settled, Underway, BeforeCheck, AfterCheck,
      CancelContext
<1>15. CASE
      \/ (\E n \in 0..(MaxLimit + 1) : SetLimit(n))
      \/ (\E w \in Workers : Acquire(w))
      \/ (\E w \in Workers : Wait(w))
      \/ (\E w \in Workers : WakeUp(w))
      \/ (\E w \in Workers : Release(w))
      \/ FeederEnds
      \/ CloseResults
      \/ Cancel
  <2>1. UNCHANGED <<cancelled, persistenceFailed, saved, produced, unfed, plan, results, cons, item>>
    BY <1>15 DEF
      SetLimit, Acquire, Wait, WakeUp, Release, FeederEnds, CloseResults,
      Cancel
  <2> QED
    BY <2>1 DEF
      TypeOK, PoolTypeOK, ConsTypeOK, JobTypeOK, Hands, Fresh, HonestBundles,
      Honest, Covered, Settled, Underway, BeforeCheck, AfterCheck
<1> QED
  BY <1>1, <1>2, <1>3, <1>4, <1>5, <1>6, <1>7, <1>8, <1>9, <1>10, <1>11, <1>12, <1>13, <1>14, <1>15 DEF
    Next, Worker, Consumer

LEMMA CompletionStep ==
  ASSUME TypeOK, Hands, Fresh, Feeding, Closing, Covered, Completion, Next
  PROVE  Completion'
<1>1. ASSUME NEW w \in Workers, Check(w)
      PROVE  Completion'
    BY <1>1 DEF
      TypeOK, PoolTypeOK, JobTypeOK, Hands, Fresh, Feeding, Closing, Covered,
      Completion, Settled, Underway, FinalOutcome, BeforeCheck, AfterCheck,
      Check
<1>2. CASE SaveBundle
    BY <1>2 DEF
      TypeOK, PoolTypeOK, JobTypeOK, Hands, Fresh, Feeding, Closing, Covered,
      Completion, Settled, Underway, FinalOutcome, BeforeCheck, AfterCheck,
      SaveBundle, ToDelete
<1>3. CASE EndOfResults
    BY <1>3 DEF
      TypeOK, PoolTypeOK, JobTypeOK, Hands, Fresh, Feeding, Closing, Covered,
      Completion, Settled, Underway, FinalOutcome, BeforeCheck, AfterCheck,
      EndOfResults, FinalOutcome
<1>4. CASE Finish
    BY <1>4 DEF
      TypeOK, PoolTypeOK, JobTypeOK, Hands, Fresh, Feeding, Closing, Covered,
      Completion, Settled, Underway, FinalOutcome, BeforeCheck, AfterCheck,
      Finish
<1>5. CASE Cancel
    BY <1>5 DEF
      TypeOK, PoolTypeOK, JobTypeOK, Hands, Fresh, Feeding, Closing, Covered,
      Completion, Settled, Underway, FinalOutcome, BeforeCheck, AfterCheck,
      Cancel
<1>6. CASE
      \/ (\E n \in 0..(MaxLimit + 1) : SetLimit(n))
      \/ (\E w \in Workers : Acquire(w))
      \/ (\E w \in Workers : Wait(w))
      \/ (\E w \in Workers : WakeUp(w))
      \/ (\E w \in Workers : Release(w))
      \/ (\E w \in Workers, p \in Plans : Take(w, p))
      \/ FeederEnds
      \/ (\E w \in Workers : NoMorePlans(w))
      \/ (\E w \in Workers : AcquireCancelled(w))
      \/ (\E w \in Workers : Send(w))
      \/ (\E w \in Workers : DropBundle(w))
      \/ CloseResults
      \/ (\E b \in results : Receive(b))
      \/ SaveFails
      \/ DeleteProxy
      \/ DeleteFails
      \/ CancelContext
  <2>1. UNCHANGED <<outcome, status, saved, produced>>
    BY <1>6 DEF
      SetLimit, Acquire, Wait, WakeUp, Release, Take, FeederEnds,
      NoMorePlans, AcquireCancelled, Send, DropBundle, CloseResults, Receive,
      SaveFails, DeleteProxy, DeleteFails, CancelContext, Quit
  <2> QED
    BY <2>1 DEF
      TypeOK, PoolTypeOK, JobTypeOK, Hands, Fresh, Feeding, Closing, Covered,
      Completion, Settled, Underway, FinalOutcome, BeforeCheck, AfterCheck
<1> QED
  BY <1>1, <1>2, <1>3, <1>4, <1>5, <1>6 DEF Next, Worker, Consumer
-----------------------------------------------------------------------------
\* Each plan once: what the counters of the job report.
LEMMA OnePlaceStep ==
  ASSUME TypeOK, Hands, HonestItem, OnePlace, Next
  PROVE  OnePlace'
<1>1. ASSUME NEW w \in Workers, NEW p \in Plans, Take(w, p)
      PROVE  OnePlace'
    BY <1>1 DEF
      TypeOK, PoolTypeOK, JobTypeOK, Hands, HonestItem,
      OnePlace, LeftPool, Bundles, Take
<1>2. ASSUME NEW w \in Workers, NoMorePlans(w)
      PROVE  OnePlace'
    BY <1>2 DEF
      TypeOK, PoolTypeOK, JobTypeOK, Hands, HonestItem,
      OnePlace, LeftPool, Bundles, NoMorePlans, Quit
<1>3. ASSUME NEW w \in Workers, AcquireCancelled(w)
      PROVE  OnePlace'
    BY <1>3 DEF
      TypeOK, PoolTypeOK, JobTypeOK, Hands, HonestItem,
      OnePlace, LeftPool, Bundles, AcquireCancelled, Quit
<1>4. ASSUME NEW w \in Workers, Send(w)
      PROVE  OnePlace'
  <2> DEFINE sent == [plan |-> plan[w], verdict |-> verdict[w]]
  <2>1. sent.plan = plan[w] /\ plan[w] # NoPlan /\ plan[w] \in Plans
    BY <1>4 DEF TypeOK, PoolTypeOK, Hands, AfterCheck, Send
  <2>2. /\ results' = results \union {sent}
        /\ plan' = [plan EXCEPT ![w] = NoPlan]
        /\ UNCHANGED <<unfed, saved, cons, item>>
    BY <1>4 DEF Send
  <2> HIDE DEF sent
  <2>3. ASSUME NEW p \in Plans, LeftPool(p) PROVE LeftPool(p)' /\ p # plan[w]
    <3>1. p # plan[w] /\ p \notin unfed' /\ p # NoPlan
      BY <2>2, <2>3 DEF LeftPool
    <3>2. \A v \in Workers : plan'[v] # p
      BY <2>2, <2>3, <3>1 DEF LeftPool, TypeOK, PoolTypeOK
    <3> QED  BY <3>1, <3>2 DEF LeftPool
  <2>4. PICK q \in Plans : q = plan[w] /\ q = sent.plan
    BY <2>1
  <2>5. LeftPool(q)'
    <3>1. q \notin unfed /\ \A v \in Workers \ {w} : plan[v] # q
      BY <2>1, <2>4 DEF Hands
    <3>2. \A v \in Workers : plan'[v] # q
      BY <2>2, <3>1 DEF TypeOK, PoolTypeOK
    <3> QED  BY <2>2, <3>1, <3>2 DEF LeftPool
  <2>6. plan[w] \notin saved /\ \A b \in results : b.plan \in Plans /\ b.plan # plan[w]
    BY <2>1 DEF TypeOK, PoolTypeOK, OnePlace, LeftPool, Bundles
  <2>7. cons \in {"save", "delete"} => item.plan \in Plans /\ item.plan # plan[w]
    BY <2>1 DEF HonestItem, OnePlace, LeftPool, Bundles
  <2>8. \A p \in saved' : LeftPool(p)'
    BY <2>2, <2>3 DEF OnePlace, TypeOK, JobTypeOK
  <2>9. \A b \in results' : LeftPool(b.plan)' /\ b.plan \notin saved'
    <3> SUFFICES ASSUME NEW b \in results' PROVE LeftPool(b.plan)' /\ b.plan \notin saved'
      OBVIOUS
    <3>1. CASE b = sent
      BY <2>2, <2>4, <2>6, <2>5, <3>1 DEF LeftPool
    <3>2. CASE b \in results
      <4>1. b.plan \in Plans /\ LeftPool(b.plan) /\ b.plan \notin saved
        BY <2>6, <3>2 DEF OnePlace
      <4>2. PICK r \in Plans : r = b.plan /\ LeftPool(r)
        BY <4>1
      <4> QED  BY <2>2, <2>3, <4>1, <4>2
    <3> QED  BY <2>2, <3>1, <3>2
  <2>10. \A b, c \in results' : b.plan = c.plan => b = c
    BY <2>1, <2>2, <2>6 DEF OnePlace
  <2> QED
    BY <2>1, <2>2, <2>3, <2>7, <2>8, <2>9, <2>10 DEF OnePlace
<1>5. ASSUME NEW w \in Workers, DropBundle(w)
      PROVE  OnePlace'
    BY <1>5 DEF
      TypeOK, PoolTypeOK, JobTypeOK, Hands, HonestItem,
      OnePlace, LeftPool, Bundles, DropBundle, Quit
<1>6. ASSUME NEW b \in results, Receive(b)
      PROVE  OnePlace'
    BY <1>6 DEF
      TypeOK, PoolTypeOK, JobTypeOK, Hands, HonestItem,
      OnePlace, LeftPool, Bundles, Receive
<1>7. CASE SaveBundle
    BY <1>7 DEF
      TypeOK, PoolTypeOK, JobTypeOK, Hands, HonestItem,
      OnePlace, LeftPool, Bundles, SaveBundle
<1>8. CASE SaveFails
    BY <1>8 DEF
      TypeOK, PoolTypeOK, JobTypeOK, Hands, HonestItem,
      OnePlace, LeftPool, Bundles, SaveFails
<1>9. CASE DeleteProxy
    BY <1>9 DEF
      TypeOK, PoolTypeOK, JobTypeOK, Hands, HonestItem,
      OnePlace, LeftPool, Bundles, DeleteProxy
<1>10. CASE DeleteFails
    BY <1>10 DEF
      TypeOK, PoolTypeOK, JobTypeOK, Hands, HonestItem,
      OnePlace, LeftPool, Bundles, DeleteFails
<1>11. CASE EndOfResults
    BY <1>11 DEF
      TypeOK, PoolTypeOK, JobTypeOK, Hands, HonestItem,
      OnePlace, LeftPool, Bundles, EndOfResults
<1>12. CASE Finish
    BY <1>12 DEF
      TypeOK, PoolTypeOK, JobTypeOK, Hands, HonestItem,
      OnePlace, LeftPool, Bundles, Finish
<1>13. CASE
      \/ (\E n \in 0..(MaxLimit + 1) : SetLimit(n))
      \/ (\E w \in Workers : Acquire(w))
      \/ (\E w \in Workers : Wait(w))
      \/ (\E w \in Workers : WakeUp(w))
      \/ (\E w \in Workers : Release(w))
      \/ (\E w \in Workers : Check(w))
      \/ FeederEnds
      \/ CloseResults
      \/ Cancel
      \/ CancelContext
  <2>1. UNCHANGED <<unfed, plan, results, cons, item, saved>>
    BY <1>13 DEF
      SetLimit, Acquire, Wait, WakeUp, Release, Check, FeederEnds,
      CloseResults, Cancel, CancelContext
  <2> QED
    BY <2>1 DEF OnePlace, LeftPool
<1> QED
  BY <1>1, <1>2, <1>3, <1>4, <1>5, <1>6, <1>7, <1>8, <1>9, <1>10, <1>11, <1>12, <1>13 DEF
    Next, Worker, Consumer

\* The sets the counters count are finite.
LEMMA CountedFinite ==
  ASSUME JobTypeOK
  PROVE  IsFiniteSet(saved) /\ IsFiniteSet(FoundAvailable) /\ IsFiniteSet(Deleted)
<1>1. saved \in SUBSET Plans /\ FoundAvailable \in SUBSET Plans /\ Deleted \in SUBSET Plans
  BY DEF JobTypeOK, FoundAvailable, Deleted
<1> QED  BY <1>1, FS_Subset

\* The three counters of the report are the sizes of what they count.
LEMMA CountersStep ==
  ASSUME TypeOK, Hands, HonestItem, DeletedOnlyWhenDead, OnePlace, CountersMatch, Next
  PROVE  CountersMatch'
<1>0. IsFiniteSet(saved) /\ IsFiniteSet(FoundAvailable) /\ IsFiniteSet(Deleted)
  BY CountedFinite DEF TypeOK
<1>1. CASE SaveBundle
  <2> DEFINE p == item.plan
  <2>1. /\ p \in Plans /\ p \notin saved /\ known[p] # "deleted"
        /\ produced[p] = item.verdict /\ item.verdict \in Verdicts
    BY <1>1 DEF HonestItem, OnePlace, DeletedOnlyWhenDead, Bundles, SaveBundle
  <2>2. /\ saved' = saved \union {p} /\ persisted' = persisted + 1
        /\ known' = [known EXCEPT ![p] = item.verdict]
        /\ produced' = produced /\ deletedFailed' = deletedFailed
        /\ available' = IF item.verdict = "available" THEN available + 1 ELSE available
    BY <1>1 DEF SaveBundle
  <2> HIDE DEF p
  <2>3. persisted' = Cardinality(saved')
    BY <1>0, <2>1, <2>2, FS_AddElement DEF CountersMatch
  <2>4. available' = Cardinality(FoundAvailable')
    <3>1. CASE item.verdict = "available"
      <4>1. FoundAvailable' = FoundAvailable \union {p} /\ p \notin FoundAvailable
        BY <2>1, <2>2, <3>1 DEF FoundAvailable
      <4> QED  BY <1>0, <2>2, <3>1, <4>1, FS_AddElement DEF CountersMatch
    <3>2. CASE item.verdict # "available"
      <4>1. FoundAvailable' = FoundAvailable
        BY <2>1, <2>2, <3>2 DEF FoundAvailable
      <4> QED  BY <2>2, <3>2, <4>1 DEF CountersMatch
    <3> QED  BY <3>1, <3>2
  <2>5. deletedFailed' = Cardinality(Deleted')
    <3>1. Deleted' = Deleted
      BY <2>1, <2>2 DEF Deleted, TypeOK, JobTypeOK, Verdicts
    <3> QED  BY <2>2, <3>1 DEF CountersMatch
  <2> QED  BY <2>3, <2>4, <2>5 DEF CountersMatch
<1>2. CASE DeleteProxy
  <2> DEFINE p == item.plan
  <2>1. p \in Plans
    BY <1>2 DEF HonestItem, Bundles, DeleteProxy
  <2>2. UNCHANGED <<saved, produced, persisted, available>>
    BY <1>2 DEF DeleteProxy
  <2>3. deletedFailed' = Cardinality(Deleted')
    <3>1. CASE Deletable(p)
      <4>1. known' = [known EXCEPT ![p] = "deleted"] /\ deletedFailed' = deletedFailed + 1
        BY <1>2, <3>1 DEF DeleteProxy
      <4>2. p \notin Deleted
        BY <3>1 DEF Deletable, Deleted
      <4>3. Deleted' = Deleted \union {p}
        BY <2>1, <4>1 DEF Deleted, TypeOK, JobTypeOK
      <4> QED  BY <1>0, <4>1, <4>2, <4>3, FS_AddElement DEF CountersMatch
    <3>2. CASE ~Deletable(p)
      BY <1>2, <3>2 DEF DeleteProxy, Deleted, CountersMatch
    <3> QED  BY <3>1, <3>2
  <2> QED  BY <2>2, <2>3 DEF CountersMatch, FoundAvailable
<1>3. ASSUME NEW w \in Workers, Check(w)
      PROVE  CountersMatch'
  <2>1. plan[w] \in Plans /\ plan[w] \notin saved
    BY <1>3 DEF Check, TypeOK, PoolTypeOK, Hands, BeforeCheck, OnePlace, LeftPool
  <2>2. UNCHANGED <<saved, known, persisted, available, deletedFailed>>
    BY <1>3 DEF Check
  <2>3. \A p \in saved : produced'[p] = produced[p]
    BY <1>3, <2>1 DEF Check, TypeOK, JobTypeOK
  <2> QED  BY <2>2, <2>3 DEF CountersMatch, FoundAvailable, Deleted
<1>4. CASE
      \/ (\E n \in 0..(MaxLimit + 1) : SetLimit(n))
      \/ (\E w \in Workers : Acquire(w))
      \/ (\E w \in Workers : Wait(w))
      \/ (\E w \in Workers : WakeUp(w))
      \/ (\E w \in Workers : Release(w))
      \/ (\E w \in Workers, p \in Plans : Take(w, p))
      \/ FeederEnds
      \/ (\E w \in Workers : NoMorePlans(w))
      \/ (\E w \in Workers : AcquireCancelled(w))
      \/ (\E w \in Workers : Send(w))
      \/ (\E w \in Workers : DropBundle(w))
      \/ CloseResults
      \/ (\E b \in results : Receive(b))
      \/ SaveFails
      \/ DeleteFails
      \/ EndOfResults
      \/ Finish
      \/ Cancel
      \/ CancelContext
  <2>1. UNCHANGED <<saved, produced, known, persisted, available, deletedFailed>>
    BY <1>4 DEF
      SetLimit, Acquire, Wait, WakeUp, Release, Take, FeederEnds,
      NoMorePlans, AcquireCancelled, Send, DropBundle, CloseResults, Receive,
      SaveFails, DeleteFails, EndOfResults, Finish, Cancel, CancelContext,
      Quit
  <2> QED
    BY <2>1 DEF CountersMatch, FoundAvailable, Deleted
<1> QED
  BY <1>1, <1>2, <1>3, <1>4 DEF Next, Worker, Consumer
-----------------------------------------------------------------------------
\* Cancellation and the final status.
LEMMA CancelAcceptedStep ==
  ASSUME Closing, CancelAccepted, Next
  PROVE  CancelAccepted'
<1>1. CASE Cancel
  BY <1>1 DEF CancelAccepted, Cancel
<1>2. CASE CancelContext
  BY <1>2 DEF CancelAccepted, CancelContext
<1>3. CASE Finish
  <2>1. outcome \in Terminal
    BY <1>3 DEF Closing, Finish
  <2> QED  BY <1>3, <2>1 DEF CancelAccepted, Finish, Terminal
<1>4. CASE
      \/ (\E n \in 0..(MaxLimit + 1) : SetLimit(n))
      \/ (\E w \in Workers : Worker(w))
      \/ FeederEnds \/ CloseResults
      \/ (\E b \in results : Receive(b))
      \/ SaveBundle \/ SaveFails \/ DeleteProxy \/ DeleteFails \/ EndOfResults
  <2>1. UNCHANGED <<cancelled, status>>
    BY <1>4 DEF
      SetLimit, Worker, Acquire, Wait, WakeUp, Release, Take, FeederEnds,
      NoMorePlans, AcquireCancelled, Check, Send, DropBundle, CloseResults,
      Receive, SaveBundle, SaveFails, DeleteProxy, DeleteFails, EndOfResults, Quit
  <2> QED  BY <2>1 DEF CancelAccepted
<1> QED  BY <1>1, <1>2, <1>3, <1>4 DEF Next, Consumer

\* FinalOutcome tells whether anything was saved.
LEMMA OutcomeFitsStep ==
  ASSUME TypeOK, Closing, CountersMatch, OutcomeFits, Next
  PROVE  OutcomeFits'
<1> USE DEF OutcomeFits, Terminal
<1>1. CASE EndOfResults
  <2>1. persisted = 0 <=> saved = {}
    BY CountedFinite, FS_EmptySet DEF TypeOK, CountersMatch
  <2>2. /\ cancelled => outcome' = "cancelled"
        /\ ~cancelled => outcome' \in {"completed", "partial", "failed"}
        /\ outcome' = "partial" => persisted # 0
        /\ outcome' = "failed" => persisted = 0
        /\ cons' = "finish" /\ saved' = saved /\ cancelled' = cancelled
    BY <1>1 DEF EndOfResults, FinalOutcome
  <2> QED  BY <2>1, <2>2
<1>2. CASE SaveBundle
  <2>1. outcome \notin Terminal
    BY <1>2 DEF SaveBundle
  <2> QED  BY <1>2, <2>1 DEF SaveBundle
<1>3. CASE SaveFails \/ DeleteProxy \/ DeleteFails \/ Finish \/ \E b \in results : Receive(b)
  BY <1>3 DEF SaveFails, DeleteProxy, DeleteFails, Finish, Receive
<1>4. CASE CancelContext
  BY <1>4 DEF CancelContext
<1>5. CASE
      \/ (\E n \in 0..(MaxLimit + 1) : SetLimit(n))
      \/ (\E w \in Workers : Worker(w))
      \/ FeederEnds \/ CloseResults
      \/ Cancel
  <2>1. UNCHANGED <<outcome, cons, saved, cancelled>>
    BY <1>5 DEF
      SetLimit, Worker, Acquire, Wait, WakeUp, Release, Take, FeederEnds,
      NoMorePlans, AcquireCancelled, Check, Send, DropBundle, CloseResults,
      Cancel, Quit
  <2> QED  BY <2>1
<1> QED  BY <1>1, <1>2, <1>3, <1>4, <1>5 DEF Next, Consumer

-----------------------------------------------------------------------------
\* IInv holds initially and every step preserves it.
LEMMA Initially == Init => IInv
<1> SUFFICES ASSUME Init PROVE IInv
  OBVIOUS
<1>1. TypeOK
  BY DEF Init, TypeOK, LimiterTypeOK, PoolTypeOK, ConsTypeOK, JobTypeOK,
         Verdicts, Terminal
<1>2. Hands /\ Fresh /\ HonestBundles /\ HonestItem
  BY DEF Init, Hands, Fresh, HonestBundles, HonestItem, BeforeCheck, AfterCheck
<1>3. PermitsAccounted /\ NoSleeperMissesPermit
  <2>1. PermitHolders = {}
    BY DEF Init, PermitHolders
  <2> QED  BY <2>1, FS_EmptySet DEF Init, PermitsAccounted, NoSleeperMissesPermit
<1>4. DeletedOnlyWhenDead
  BY DEF Init, DeletedOnlyWhenDead
<1>5. Feeding /\ Closing /\ Covered /\ Completion
  BY DEF Init, Feeding, Closing, Covered, Completion, Terminal, Underway
<1>6. OnePlace /\ CountersMatch
  <2>1. saved = {} /\ Deleted = {} /\ FoundAvailable = {}
    BY DEF Init, Deleted, FoundAvailable
  <2> QED
    BY <2>1, FS_EmptySet DEF Init, OnePlace, CountersMatch, LeftPool
<1>7. CancelAccepted /\ OutcomeFits
  BY DEF Init, CancelAccepted, OutcomeFits, Terminal
<1> QED  BY <1>1, <1>2, <1>3, <1>4, <1>5, <1>6, <1>7 DEF IInv

LEMMA Stuttering == IInv /\ UNCHANGED vars => IInv'
<1> SUFFICES ASSUME IInv, UNCHANGED vars PROVE IInv'
  OBVIOUS
<1>1. TypeOK'
  BY DEF IInv, TypeOK, LimiterTypeOK, PoolTypeOK, ConsTypeOK, JobTypeOK
<1>2. Hands' /\ Fresh' /\ HonestBundles' /\ HonestItem'
  BY DEF IInv, Hands, Fresh, HonestBundles, HonestItem, Honest
<1>3. PermitsAccounted' /\ NoSleeperMissesPermit'
  BY DEF IInv, PermitsAccounted, PermitHolders, NoSleeperMissesPermit
<1>4. DeletedOnlyWhenDead'
  BY DEF IInv, DeletedOnlyWhenDead
<1>5. Feeding' /\ Closing' /\ Covered' /\ Completion'
  BY DEF IInv, Feeding, Closing, Covered, Completion, Settled, Underway
<1>6. OnePlace' /\ CountersMatch'
  BY DEF IInv, OnePlace, LeftPool, CountersMatch, FoundAvailable, Deleted
<1>7. CancelAccepted' /\ OutcomeFits'
  BY DEF IInv, CancelAccepted, OutcomeFits
<1> QED  BY <1>1, <1>2, <1>3, <1>4, <1>5, <1>6, <1>7 DEF IInv

LEMMA Steps == IInv /\ Next => IInv'
<1> SUFFICES ASSUME IInv, Next PROVE IInv'
  OBVIOUS
<1>0. /\ TypeOK /\ LimiterTypeOK
      /\ Hands /\ Fresh /\ HonestBundles /\ HonestItem
      /\ PermitsAccounted /\ NoSleeperMissesPermit /\ DeletedOnlyWhenDead
      /\ Feeding /\ Closing /\ Covered /\ Completion
      /\ OnePlace /\ CountersMatch /\ CancelAccepted /\ OutcomeFits
  BY DEF IInv, TypeOK
<1>1. TypeOK'
  BY <1>0, LimiterTypes, PoolTypes, ConsTypes, JobTypes DEF TypeOK
<1>2. Hands' /\ Fresh' /\ HonestBundles' /\ HonestItem'
  BY <1>0, HandsStep, FreshStep, HonestBundlesStep, HonestItemStep
<1>3. PermitsAccounted' /\ NoSleeperMissesPermit'
  BY <1>0, PermitsStep, SleeperStep
<1>4. DeletedOnlyWhenDead'
  BY <1>0, DeletedStep
<1>5. Feeding' /\ Closing' /\ Covered' /\ Completion'
  BY <1>0, FeedingStep, ClosingStep, CoveredStep, CompletionStep
<1>6. OnePlace' /\ CountersMatch'
  BY <1>0, OnePlaceStep, CountersStep
<1>7. CancelAccepted' /\ OutcomeFits'
  BY <1>0, CancelAcceptedStep, OutcomeFitsStep
<1> QED  BY <1>1, <1>2, <1>3, <1>4, <1>5, <1>6, <1>7 DEF IInv

\* The inductive invariant of the limiter, the pool and the job.
THEOREM Invariance == Spec => []IInv
<1>1. IInv /\ [Next]_vars => IInv'
  BY Steps, Stuttering
<1> QED  BY Initially, <1>1, PTL DEF Spec

\* Every variable keeps its type.
THEOREM TypeCorrect == Spec => []TypeOK
<1>1. IInv => TypeOK
  BY DEF IInv
<1> QED  BY Invariance, <1>1, PTL

\* The limiter never leaks a permit and never gives one back twice.
THEOREM Permits == Spec => []PermitsAccounted
<1>1. IInv => PermitsAccounted
  BY DEF IInv
<1> QED  BY Invariance, <1>1, PTL

\* No worker sleeps in Acquire while a permit is free, whatever SetLimit does.
THEOREM WakeUps == Spec => []NoSleeperMissesPermit
<1>1. IInv => NoSleeperMissesPermit
  BY DEF IInv
<1> QED  BY Invariance, <1>1, PTL

\* The job ends only after its workers have stopped and hold no permit.
THEOREM EndOfJob == Spec => []EndsAfterWorkers
<1>1. ASSUME IInv, status \in Terminal PROVE active = 0 /\ \A w \in Workers : pc[w] = "done"
  <2>1. \A w \in Workers : pc[w] = "done"
    BY <1>1 DEF IInv, Closing
  <2>2. PermitHolders = {}
    BY <2>1 DEF PermitHolders
  <2> QED  BY <1>1, <2>1, <2>2, FS_EmptySet DEF IInv, PermitsAccounted
<1>2. IInv => EndsAfterWorkers
  BY <1>1 DEF EndsAfterWorkers
<1> QED  BY Invariance, <1>2, PTL

\* A proxy is deleted only for a saved dead verdict, none of its targets being
\* available.
THEOREM Deletion == Spec => []DeletedOnlyWhenDead
<1>1. IInv => DeletedOnlyWhenDead
  BY DEF IInv
<1> QED  BY Invariance, <1>1, PTL

\* A completed job has checked and saved every plan, timeouts excepted.
THEOREM CompletedJob == Spec => []CompletedMeansSaved
<1>1. IInv => CompletedMeansSaved
  BY DEF IInv, Completion, Settled, CompletedMeansSaved
<1> QED  BY Invariance, <1>1, PTL

\* Each bundle is saved and counted once, whatever worker, cancellation or
\* failing statement comes between: the counters the job reports between two
\* bundles, and in the end, are what the store holds.
THEOREM Report == Spec => []ReportMatchesStore
<1>1. IInv => ReportMatchesStore
  BY DEF IInv, ReportMatchesStore
<1> QED  BY Invariance, <1>1, PTL

-----------------------------------------------------------------------------
(* Refinement of CheckJob *)

\* The plans under check are no more than the permits given out.
LEMMA ChecksCounted ==
  ASSUME PermitsAccounted
  PROVE  IsFiniteSet(UnderCheck) /\ Cardinality(UnderCheck) <= active
<1> DEFINE f == [w \in PermitHolders |-> plan[w]]
<1>1. f \in Surjection(PermitHolders, UnderCheck)
  BY DEF Surjection, UnderCheck
<1>2. IsFiniteSet(UnderCheck) /\ Cardinality(UnderCheck) <= Cardinality(PermitHolders)
  <2> HIDE DEF f
  <2> QED  BY <1>1, HoldersFinite, FS_Surjection, Zenon
<1> QED
  BY <1>2 DEF PermitsAccounted

\* A worker that holds a permit has a plan of its own in hand.
LEMMA HeldPlan ==
  ASSUME TypeOK, Hands, NEW w \in Workers, pc[w] \in {"acquire", "check", "release"}
  PROVE  /\ plan[w] \in Plans
         /\ plan[w] \in UnderCheck <=> pc[w] \in {"check", "release"}
         /\ \A v \in Workers \ {w} : plan[v] # plan[w]
<1>1. plan[w] # NoPlan /\ plan[w] \in Plans
  BY DEF TypeOK, PoolTypeOK, Hands, BeforeCheck, AfterCheck
<1> QED
  BY <1>1 DEF Hands, UnderCheck, PermitHolders

\* As long as a worker has work or the consumer a bundle the job has not ended.
LEMMA StillRunning ==
  ASSUME Closing
  PROVE  /\ cons # "ended" => status \notin Terminal
         /\ \A w \in Workers : pc[w] # "done" => status \notin Terminal
BY DEF Closing

\* The cardinality the instance of CheckJob speaks of is the usual one.
LEMMA SameCardinality == \A S : Job!Cardinality(S) = Cardinality(S)
BY DEF Job!Cardinality, Cardinality

\* What a step of the abstract job does to the variables it is mapped to.
JobStep == Job!Next \/ UNCHANGED <<limit, UnderCheck, produced, saved, Deleted, status>>

\* Every step of the pool, the limiter and the consumer is a step of the job.
LEMMA JobStepHolds ==
  ASSUME IInv, Next
  PROVE  JobStep
<1>0. /\ TypeOK /\ Hands /\ Fresh /\ HonestBundles /\ HonestItem
      /\ PermitsAccounted /\ DeletedOnlyWhenDead /\ Closing /\ Completion
      /\ OnePlace /\ CancelAccepted /\ OutcomeFits
  BY DEF IInv
<1> USE DEF JobStep, Job!Next
<1>1. ASSUME NEW n \in 0..(MaxLimit + 1), SetLimit(n)
      PROVE  JobStep
  <2>1. limit' \in 1..MaxLimit
    BY <1>1 DEF SetLimit, Clamp
  <2>2. UNCHANGED <<UnderCheck, produced, saved, Deleted, status>>
    BY <1>1 DEF SetLimit, UnderCheck, PermitHolders, Deleted
  <2> QED  BY <2>1, <2>2 DEF Job!SetLimit
<1>2. ASSUME NEW w \in Workers, Acquire(w)
      PROVE  JobStep
  <2>1. /\ pc[w] = "acquire" /\ active < limit /\ plan' = plan
        /\ pc' = [pc EXCEPT ![w] = IF cancelled THEN "release" ELSE "check"]
        /\ UNCHANGED <<limit, produced, saved, known, status>>
    BY <1>2 DEF Acquire
  <2>2. PermitHolders' = PermitHolders \union {w}
    BY <1>0, <2>1 DEF PermitHolders, TypeOK, PoolTypeOK
  <2>3. UnderCheck' = UnderCheck \union {plan[w]}
    BY <2>1, <2>2 DEF UnderCheck
  <2>4. plan[w] \in Plans /\ plan[w] \notin UnderCheck
    BY <1>0, <2>1, HeldPlan
  <2>5. Cardinality(UnderCheck) < limit
    <3>1. IsFiniteSet(UnderCheck) /\ Cardinality(UnderCheck) <= active
      BY <1>0, ChecksCounted
    <3>2. Cardinality(UnderCheck) \in Nat /\ active \in Nat /\ limit \in Nat
      BY <1>0, <3>1, FS_CardinalityType DEF TypeOK, LimiterTypeOK
    <3> QED  BY <2>1, <3>1, <3>2
  <2>6. produced[plan[w]] = "none" /\ status \notin Terminal
    BY <1>0, <2>1, StillRunning DEF Fresh, BeforeCheck
  <2>7. Job!Running /\ Deleted' = Deleted
    BY <2>1, <2>6 DEF Job!Running, Job!Terminal, Terminal, Deleted
  <2>8. Job!Begin(plan[w])
    BY <2>1, <2>3, <2>4, <2>5, <2>6, <2>7, SameCardinality DEF Job!Begin
  <2> QED  BY <2>4, <2>8
<1>3. ASSUME NEW w \in Workers, Check(w)
      PROVE  JobStep
  <2>1. PICK v \in Verdicts :
          /\ v = "empty" => cancelled \/ "timeout" \in Faults
          /\ produced' = [produced EXCEPT ![plan[w]] = v]
    BY <1>3 DEF Check
  <2>2. /\ pc[w] = "check" /\ pc' = [pc EXCEPT ![w] = "release"]
        /\ UNCHANGED <<limit, plan, saved, known, status>>
    BY <1>3 DEF Check
  <2>3. PermitHolders' = PermitHolders
    BY <1>0, <2>2 DEF PermitHolders, TypeOK, PoolTypeOK
  <2>4. UnderCheck' = UnderCheck /\ Deleted' = Deleted
    BY <2>2, <2>3 DEF UnderCheck, Deleted
  <2>5. plan[w] \in Plans /\ plan[w] \in UnderCheck /\ produced[plan[w]] = "none"
    BY <1>0, <2>2, HeldPlan DEF Fresh, BeforeCheck
  <2>6. cancelled => status = "cancel_requested"
    BY <1>0, <2>2, StillRunning DEF CancelAccepted, TypeOK, JobTypeOK
  <2>7. v \in Job!Found \union {"empty"}
    BY DEF Verdicts, Job!Found
  <2>8. Job!Judge(plan[w], v)
    BY <2>1, <2>2, <2>4, <2>5, <2>6, <2>7 DEF Job!Judge
  <2> QED  BY <2>5, <2>7, <2>8
<1>4. ASSUME NEW w \in Workers, Release(w)
      PROVE  JobStep
  <2>1. /\ pc[w] = "release" /\ pc' = [pc EXCEPT ![w] = "send"]
        /\ UNCHANGED <<limit, plan, produced, saved, known, status>>
    BY <1>4 DEF Release
  <2>2. PermitHolders' = PermitHolders \ {w}
    BY <1>0, <2>1 DEF PermitHolders, TypeOK, PoolTypeOK
  <2>3. /\ plan[w] \in Plans /\ plan[w] \in UnderCheck
        /\ \A v \in Workers \ {w} : plan[v] # plan[w]
    BY <1>0, <2>1, HeldPlan
  <2>4. UnderCheck' = UnderCheck \ {plan[w]}
    BY <2>1, <2>2, <2>3 DEF UnderCheck, PermitHolders
  <2>5. produced[plan[w]] = "none" => status = "cancel_requested"
    <3> SUFFICES ASSUME produced[plan[w]] = "none" PROVE status = "cancel_requested"
      OBVIOUS
    <3>1. Honest(plan[w], verdict[w]) /\ verdict[w] # "none"
      BY <1>0, <2>1 DEF HonestBundles, AfterCheck, TypeOK, PoolTypeOK, Verdicts
    <3>2. cancelled
      BY <3>1 DEF Honest
    <3> QED
      BY <1>0, <2>1, <3>2, StillRunning DEF CancelAccepted, TypeOK, JobTypeOK
  <2>6. Job!End(plan[w])
    BY <2>1, <2>3, <2>4, <2>5 DEF Job!End, Deleted
  <2> QED  BY <2>3, <2>6
<1>5. CASE SaveBundle
  <2> DEFINE p == item.plan
  <2>1. /\ p \in Plans /\ p \notin saved /\ known[p] # "deleted" /\ LeftPool(p)
        /\ produced[p] = item.verdict /\ item.verdict \in Job!Found
    BY <1>0, <1>5
       DEF HonestItem, OnePlace, DeletedOnlyWhenDead, Bundles, Verdicts, SaveBundle, Job!Found
  <2>2. /\ saved' = saved \union {p} /\ known' = [known EXCEPT ![p] = item.verdict]
        /\ UNCHANGED <<limit, pc, plan, produced, status>> /\ cons = "save"
    BY <1>5 DEF SaveBundle
  <2> HIDE DEF p
  <2>3. Deleted' = Deleted
    BY <1>0, <2>1, <2>2 DEF Deleted, TypeOK, JobTypeOK, Job!Found
  <2>4. UnderCheck' = UnderCheck /\ p \notin UnderCheck
    BY <2>1, <2>2 DEF UnderCheck, PermitHolders, LeftPool
  <2>5. Job!Save(p)
    BY <1>0, <2>1, <2>2, <2>3, <2>4, StillRunning
       DEF Job!Save, Job!Running, Job!Terminal, Terminal
  <2> QED  BY <2>1, <2>5
<1>6. CASE DeleteProxy
  <2> DEFINE p == item.plan
  <2>1. p \in Plans /\ produced[p] = "dead" /\ p \in saved /\ cons = "delete"
    BY <1>0, <1>6 DEF HonestItem, Bundles, DeleteProxy
  <2>2. UNCHANGED <<limit, pc, plan, produced, saved, status>>
    BY <1>6 DEF DeleteProxy
  <2>3. UnderCheck' = UnderCheck
    BY <2>2 DEF UnderCheck, PermitHolders
  <2>4. CASE Deletable(p)
    <3>1. known' = [known EXCEPT ![p] = "deleted"] /\ p \notin Spared
      BY <1>6, <2>4 DEF DeleteProxy, Deletable
    <3>2. Deleted' = Deleted \union {p}
      BY <1>0, <2>1, <3>1 DEF Deleted, TypeOK, JobTypeOK
    <3>3. Job!Delete(p)
      BY <1>0, <2>1, <2>2, <2>3, <3>1, <3>2, StillRunning
         DEF Job!Delete, Job!Running, Job!Terminal, Terminal
    <3> QED  BY <2>1, <3>3
  <2>5. CASE ~Deletable(p)
    BY <1>6, <2>2, <2>3, <2>5 DEF DeleteProxy, Deleted
  <2> QED  BY <2>4, <2>5
<1>7. CASE Finish
  <2>1. outcome \in Terminal /\ closed /\ status \notin Terminal /\ cons = "finish"
    BY <1>0, <1>7, StillRunning DEF Closing, Finish
  <2>2. UnderCheck = {}
    BY <1>0, <2>1 DEF Closing, UnderCheck, PermitHolders
  <2>3. /\ status' = IF status = "cancel_requested" /\ outcome # "failed" THEN "cancelled" ELSE outcome
        /\ UNCHANGED <<limit, pc, plan, produced, saved, known>>
    BY <1>7 DEF Finish
  <2>4. UnderCheck' = UnderCheck /\ Deleted' = Deleted
    BY <2>3 DEF UnderCheck, PermitHolders, Deleted
  <2>5. status \in {"running", "cancel_requested"}
    BY <1>0, <2>1 DEF TypeOK, JobTypeOK
  <2>6. status' \in Terminal
    BY <2>1, <2>3 DEF Terminal
  <2>7. /\ status' = "completed" => \A p \in Plans : Settled(p)
        /\ status' = "partial" => saved # {}
        /\ status' = "failed" => saved = {}
    BY <1>0, <2>3 DEF Completion, OutcomeFits
  <2>8. status' = "cancelled" <=> status' # "failed" /\ status = "cancel_requested"
    BY <1>0, <2>1, <2>3, <2>5 DEF OutcomeFits, CancelAccepted, Terminal
  <2>9. Job!Finish(status')
    BY <2>1, <2>2, <2>3, <2>4, <2>6, <2>7, <2>8
       DEF Job!Finish, Job!Running, Job!Terminal, Terminal, Settled
  <2> QED  BY <2>6, <2>9 DEF Job!Terminal, Terminal
<1>8. CASE Cancel
  <2>1. UNCHANGED <<limit, UnderCheck, produced, saved, Deleted>>
    BY <1>8 DEF Cancel, UnderCheck, PermitHolders, Deleted
  <2> QED  BY <1>8, <2>1 DEF Cancel, Job!Cancel
<1>9. ASSUME NEW w \in Workers,
             \/ (\E p \in Plans : Take(w, p)) \/ NoMorePlans(w) \/ Wait(w) \/ WakeUp(w)
             \/ AcquireCancelled(w) \/ Send(w) \/ DropBundle(w)
      PROVE  JobStep
  <2>1. /\ w \notin PermitHolders
        /\ \A v \in Workers \ {w} : pc'[v] = pc[v] /\ plan'[v] = plan[v]
        /\ pc'[w] \in {"take", "acquire", "wait", "done"}
        /\ UNCHANGED <<limit, produced, saved, known, status>>
    BY <1>0, <1>9 DEF
      TypeOK, PoolTypeOK, PermitHolders, Take, NoMorePlans, Wait, WakeUp,
      AcquireCancelled, Send, DropBundle, Quit
  <2>2. PermitHolders' = PermitHolders
    BY <2>1 DEF PermitHolders
  <2>3. UnderCheck' = UnderCheck
    BY <2>1, <2>2 DEF UnderCheck, PermitHolders
  <2> QED  BY <2>1, <2>3 DEF Deleted
<1>10. CASE
      \/ FeederEnds \/ CloseResults
      \/ (\E b \in results : Receive(b))
      \/ SaveFails \/ DeleteFails \/ EndOfResults
      \/ CancelContext
  <2>1. UNCHANGED <<limit, pc, plan, produced, saved, known, status>>
    BY <1>10 DEF
      FeederEnds, CloseResults, Receive, SaveFails, DeleteFails, EndOfResults,
      CancelContext
  <2> QED  BY <2>1 DEF UnderCheck, PermitHolders, Deleted
<1> HIDE DEF JobStep, Job!Next
<1> QED
  BY <1>1, <1>2, <1>3, <1>4, <1>5, <1>6, <1>7, <1>8, <1>9, <1>10 DEF Next, Worker, Consumer

LEMMA JobInit == Init => Job!Init
<1> SUFFICES ASSUME Init PROVE Job!Init
  OBVIOUS
<1>1. UnderCheck = {} /\ Deleted = {}
  BY DEF Init, UnderCheck, PermitHolders, Deleted
<1> QED  BY <1>1 DEF Init, Job!Init

\* Limiter, worker pool and consumer implement the check job of CheckJob: each
\* proxy is checked once, under the limit in force, saved once after its check,
\* deleted only for what was saved, and the job ends after all of them.
THEOREM Refinement == Spec => ImplementsJob
<1>1. IInv /\ [Next]_vars => [Job!Next]_(Job!vars)
  <2> SUFFICES ASSUME IInv, [Next]_vars PROVE [Job!Next]_(Job!vars)
    OBVIOUS
  <2>1. CASE UNCHANGED vars
    BY <2>1 DEF Job!vars, UnderCheck, PermitHolders, Deleted
  <2>2. CASE Next
    BY <2>2, JobStepHolds DEF JobStep, Job!vars
  <2> QED  BY <2>1, <2>2
<1> QED  BY JobInit, <1>1, Invariance, PTL DEF Spec, ImplementsJob, Job!Spec
=============================================================================
