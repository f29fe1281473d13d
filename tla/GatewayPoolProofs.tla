--------------------------- MODULE GatewayPoolProofs ---------------------------
(***************************************************************************)
(* Theorems of GatewayPool, for any number of goroutines and of changes of *)
(* the settings: refreshMu alone makes the pools come in the order of the  *)
(* settings, and the flag never stays up without a refresh behind it.      *)
(*                                                                         *)
(* IInv adds to the checked invariants what the one bit of the generation  *)
(* stands for: as long as it has not moved, the selector goes by what the  *)
(* refresh at work has read. With it the whole is a PoolCache.             *)
(***************************************************************************)
EXTENDS GatewayPool, TLAPS

USE ProcAssumption, ChangeAssumption
USE DEF vars, Versions, Settings, NoSettings, NoPool, InTurn

\* The actions, without the groups that Next puts them in.
LEMMA Steps ==
  ASSUME Next
  PROVE
    \/ \E r \in Requests : ReadConfig(r) \/ Look(r)
    \/ \E s \in Savers : Save(s)
    \/ \E p \in Procs :
         \/ UpdateConfig(p) \/ PoolIsGood(p) \/ Refresh(p)
         \/ \E a \in Asyncs : StartAsync(p, a)
         \/ TakeTurn(p) \/ Begin(p) \/ NotNeeded(p) \/ Discard(p) \/ LoadFails(p)
         \/ \E found \in BOOLEAN : Install(p, found)
    \/ Expire
  BY DEF Next, Arrive, Step

LEMMA Members == Requests \subseteq Procs /\ Savers \subseteq Procs /\ Asyncs \subseteq Procs
  BY DEF Procs

\* A pool is of settings there have been, and the refresh at work has read settings
\* that were current when it took refreshMu.
InOrder ==
  /\ pool <= cfg.version
  /\ \A p \in Procs :
       pc[p] \in InTurn =>
         /\ holder = p
         /\ pool <= snap[p].version
         /\ snap[p].version <= cfg.version

\* As long as the generation has not moved, the selector goes by the settings the
\* refresh at work has read.
Unmoved ==
  \A p \in Procs : pc[p] = "loading" /\ ~moved => applied = snap[p].breaker

\* What a goroutine, or the refresh at work, is about to apply has been in force, now
\* or earlier.
WasInForce ==
  /\ cfg.breaker <= cfg.version
  /\ \A p \in Procs : pc[p] \in {"update", "apply", "loading"} => snap[p].breaker <= cfg.breaker

IInv == TypeOK /\ InOrder /\ FlagHasRefresher /\ Unmoved /\ WasInForce

LEMMA ReturnTypes ==
  ASSUME TypeOK, NEW p \in Procs, Return(p)
  PROVE  /\ pc' \in [Procs -> {"idle", "update", "ensure", "refresh", "reserved", "apply",
                           "loading"}]
         /\ snap' \in [Procs -> Settings]
<1>1. pc' = [pc EXCEPT ![p] = "idle"] /\ snap' = [snap EXCEPT ![p] = NoSettings]
  BY DEF Return, Goto
<1>2. NoSettings \in Settings
  OBVIOUS
<1> QED
  BY <1>1, <1>2 DEF TypeOK

LEMMA Types ==
  ASSUME TypeOK, Next
  PROVE  TypeOK'
<1>1. ASSUME NEW p \in Requests, ReadConfig(p)
      PROVE  TypeOK'
  BY <1>1, Members DEF TypeOK, ReadConfig, Goto
<1>2. ASSUME NEW p \in Requests, Look(p)
      PROVE  TypeOK'
  BY <1>2, Members DEF TypeOK, Look, Goto
<1>3. ASSUME NEW p \in Savers, Save(p)
      PROVE  TypeOK'
  <2>1. \A b \in {cfg.breaker, cfg.version + 1} :
          [version |-> cfg.version + 1, breaker |-> b] \in Settings
    BY <1>3 DEF TypeOK, Save
  <2>2. cfg' \in Settings /\ snap' \in [Procs -> Settings]
    BY <1>3, <2>1 DEF TypeOK, Save
  <2> QED
    BY <1>3, <2>2 DEF TypeOK, Save, Goto
<1>4. ASSUME NEW p \in Procs, UpdateConfig(p)
      PROVE  TypeOK'
  BY <1>4, Members DEF TypeOK, UpdateConfig, Apply, Goto
<1>5. ASSUME NEW p \in Procs, PoolIsGood(p)
      PROVE  TypeOK'
  BY <1>5, Members DEF TypeOK, PoolIsGood, Return, Goto
<1>6. ASSUME NEW p \in Procs, Refresh(p)
      PROVE  TypeOK'
  BY <1>6, Members DEF TypeOK, Refresh, Goto
<1>7. ASSUME NEW p \in Procs, NEW a \in Asyncs, StartAsync(p, a)
      PROVE  TypeOK'
  BY <1>7, Members DEF TypeOK, StartAsync
<1>8. ASSUME NEW p \in Procs, Begin(p)
      PROVE  TypeOK'
  BY <1>8, Members DEF TypeOK, Begin, Goto
<1>9. ASSUME NEW p \in Procs, NotNeeded(p)
      PROVE  TypeOK'
  <2>1. Return(p)
    BY <1>9 DEF NotNeeded
  <2> QED
    BY <1>9, <2>1, ReturnTypes DEF TypeOK, NotNeeded, Apply
<1>10. ASSUME NEW p \in Procs, Discard(p)
       PROVE  TypeOK'
  <2>1. Return(p)
    BY <1>10 DEF Discard, EndOfRefresh
  <2> QED
    BY <1>10, <2>1, ReturnTypes DEF TypeOK, Discard, EndOfRefresh
<1>11. ASSUME NEW p \in Procs, LoadFails(p)
       PROVE  TypeOK'
  <2>1. Return(p)
    BY <1>11 DEF LoadFails, EndOfRefresh
  <2> QED
    BY <1>11, <2>1, ReturnTypes DEF TypeOK, LoadFails, EndOfRefresh
<1>12. ASSUME NEW p \in Procs, NEW found \in BOOLEAN, Install(p, found)
       PROVE  TypeOK'
  <2>1. Return(p)
    BY <1>12 DEF Install, EndOfRefresh
  <2> QED
    BY <1>12, <2>1, ReturnTypes DEF TypeOK, Install, EndOfRefresh
<1>13. CASE Expire
  BY <1>13 DEF TypeOK, Expire
<1>14. ASSUME NEW p \in Procs, TakeTurn(p)
       PROVE  TypeOK'
  BY <1>14, Members DEF TypeOK, TakeTurn, Seen, Goto
<1> QED
  BY <1>1, <1>2, <1>3, <1>4, <1>5, <1>6, <1>7,
     <1>8, <1>9, <1>10, <1>11, <1>12, <1>13, <1>14, Steps

LEMMA Order ==
  ASSUME TypeOK, InOrder, Next
  PROVE  InOrder'
<1>1. ASSUME NEW p \in Requests, ReadConfig(p)
      PROVE  InOrder'
  BY <1>1, Members DEF TypeOK, InOrder, ReadConfig, Goto
<1>2. ASSUME NEW p \in Requests, Look(p)
      PROVE  InOrder'
  BY <1>2, Members DEF TypeOK, InOrder, Look, Goto
<1>3. ASSUME NEW p \in Savers, Save(p)
      PROVE  InOrder'
  BY <1>3, Members DEF TypeOK, InOrder, Save, Goto
<1>4. ASSUME NEW p \in Procs, UpdateConfig(p)
      PROVE  InOrder'
  BY <1>4, Members DEF TypeOK, InOrder, UpdateConfig, Apply, Goto
<1>5. ASSUME NEW p \in Procs, PoolIsGood(p)
      PROVE  InOrder'
  BY <1>5, Members DEF TypeOK, InOrder, PoolIsGood, Return, Goto
<1>6. ASSUME NEW p \in Procs, Refresh(p)
      PROVE  InOrder'
  BY <1>6, Members DEF TypeOK, InOrder, Refresh, Goto
<1>7. ASSUME NEW p \in Procs, NEW a \in Asyncs, StartAsync(p, a)
      PROVE  InOrder'
  BY <1>7, Members DEF TypeOK, InOrder, StartAsync
<1>8. ASSUME NEW p \in Procs, Begin(p)
      PROVE  InOrder'
  BY <1>8, Members DEF TypeOK, InOrder, Begin, Goto
<1>9. ASSUME NEW p \in Procs, NotNeeded(p)
      PROVE  InOrder'
  BY <1>9, Members DEF TypeOK, InOrder, NotNeeded, Apply, Return, Goto
<1>10. ASSUME NEW p \in Procs, Discard(p)
       PROVE  InOrder'
  BY <1>10, Members DEF TypeOK, InOrder, Discard, EndOfRefresh, Return, Goto
<1>11. ASSUME NEW p \in Procs, LoadFails(p)
       PROVE  InOrder'
  BY <1>11, Members DEF TypeOK, InOrder, LoadFails, EndOfRefresh, Return, Goto
<1>12. ASSUME NEW p \in Procs, NEW found \in BOOLEAN, Install(p, found)
       PROVE  InOrder'
  BY <1>12, Members DEF TypeOK, InOrder, Install, EndOfRefresh, Return, Goto
<1>13. CASE Expire
  BY <1>13 DEF TypeOK, InOrder, Expire
<1>14. ASSUME NEW p \in Procs, TakeTurn(p)
       PROVE  InOrder'
  BY <1>14, Members DEF TypeOK, InOrder, TakeTurn, Seen, Goto
<1> QED
  BY <1>1, <1>2, <1>3, <1>4, <1>5, <1>6, <1>7,
     <1>8, <1>9, <1>10, <1>11, <1>12, <1>13, <1>14, Steps

LEMMA Flag ==
  ASSUME TypeOK, FlagHasRefresher, Next
  PROVE  FlagHasRefresher'
<1>1. ASSUME NEW p \in Requests, ReadConfig(p)
      PROVE  FlagHasRefresher'
  BY <1>1, Members DEF TypeOK, FlagHasRefresher, ReadConfig, Goto
<1>2. ASSUME NEW p \in Requests, Look(p)
      PROVE  FlagHasRefresher'
  BY <1>2, Members DEF TypeOK, FlagHasRefresher, Look, Goto
<1>3. ASSUME NEW p \in Savers, Save(p)
      PROVE  FlagHasRefresher'
  BY <1>3, Members DEF TypeOK, FlagHasRefresher, Save, Goto
<1>4. ASSUME NEW p \in Procs, UpdateConfig(p)
      PROVE  FlagHasRefresher'
  BY <1>4, Members DEF TypeOK, FlagHasRefresher, UpdateConfig, Apply, Goto
<1>5. ASSUME NEW p \in Procs, PoolIsGood(p)
      PROVE  FlagHasRefresher'
  BY <1>5, Members DEF TypeOK, FlagHasRefresher, PoolIsGood, Return, Goto
<1>6. ASSUME NEW p \in Procs, Refresh(p)
      PROVE  FlagHasRefresher'
  BY <1>6, Members DEF TypeOK, FlagHasRefresher, Refresh, Goto
<1>7. ASSUME NEW p \in Procs, NEW a \in Asyncs, StartAsync(p, a)
      PROVE  FlagHasRefresher'
  BY <1>7, Members DEF TypeOK, FlagHasRefresher, StartAsync
<1>8. ASSUME NEW p \in Procs, Begin(p)
      PROVE  FlagHasRefresher'
  BY <1>8, Members DEF TypeOK, FlagHasRefresher, Begin, Goto
<1>9. ASSUME NEW p \in Procs, NotNeeded(p)
      PROVE  FlagHasRefresher'
  BY <1>9, Members
  DEF TypeOK, FlagHasRefresher, NotNeeded, Apply, Return, Goto
<1>10. ASSUME NEW p \in Procs, Discard(p)
       PROVE  FlagHasRefresher'
  BY <1>10, Members
  DEF TypeOK, FlagHasRefresher, Discard, EndOfRefresh, Return, Goto
<1>11. ASSUME NEW p \in Procs, LoadFails(p)
       PROVE  FlagHasRefresher'
  BY <1>11, Members
  DEF TypeOK, FlagHasRefresher, LoadFails, EndOfRefresh, Return, Goto
<1>12. ASSUME NEW p \in Procs, NEW found \in BOOLEAN, Install(p, found)
       PROVE  FlagHasRefresher'
  BY <1>12, Members
  DEF TypeOK, FlagHasRefresher, Install, EndOfRefresh, Return, Goto
<1>13. CASE Expire
  BY <1>13 DEF TypeOK, FlagHasRefresher, Expire
<1>14. ASSUME NEW p \in Procs, TakeTurn(p)
       PROVE  FlagHasRefresher'
  BY <1>14, Members DEF TypeOK, FlagHasRefresher, TakeTurn, Seen, Goto
<1> QED
  BY <1>1, <1>2, <1>3, <1>4, <1>5, <1>6, <1>7,
     <1>8, <1>9, <1>10, <1>11, <1>12, <1>13, <1>14, Steps

LEMMA Generation ==
  ASSUME TypeOK, InOrder, Unmoved, Next
  PROVE  Unmoved'
<1>1. ASSUME NEW p \in Requests, ReadConfig(p)
      PROVE  Unmoved'
  BY <1>1, Members DEF TypeOK, InOrder, Unmoved, ReadConfig, Goto
<1>2. ASSUME NEW p \in Requests, Look(p)
      PROVE  Unmoved'
  BY <1>2, Members DEF TypeOK, InOrder, Unmoved, Look, Goto
<1>3. ASSUME NEW p \in Savers, Save(p)
      PROVE  Unmoved'
  BY <1>3, Members DEF TypeOK, InOrder, Unmoved, Save, Goto
<1>4. ASSUME NEW p \in Procs, UpdateConfig(p)
      PROVE  Unmoved'
  BY <1>4, Members DEF TypeOK, InOrder, Unmoved, UpdateConfig, Apply, Goto
<1>5. ASSUME NEW p \in Procs, PoolIsGood(p)
      PROVE  Unmoved'
  BY <1>5, Members DEF TypeOK, InOrder, Unmoved, PoolIsGood, Return, Goto
<1>6. ASSUME NEW p \in Procs, Refresh(p)
      PROVE  Unmoved'
  BY <1>6, Members DEF TypeOK, InOrder, Unmoved, Refresh, Goto
<1>7. ASSUME NEW p \in Procs, NEW a \in Asyncs, StartAsync(p, a)
      PROVE  Unmoved'
  BY <1>7, Members DEF TypeOK, InOrder, Unmoved, StartAsync
<1>8. ASSUME NEW p \in Procs, Begin(p)
      PROVE  Unmoved'
  BY <1>8, Members DEF TypeOK, InOrder, Unmoved, Begin, Goto
<1>9. ASSUME NEW p \in Procs, NotNeeded(p)
      PROVE  Unmoved'
  BY <1>9, Members DEF TypeOK, InOrder, Unmoved, NotNeeded, Apply, Return, Goto
<1>10. ASSUME NEW p \in Procs, Discard(p)
       PROVE  Unmoved'
  BY <1>10, Members DEF TypeOK, InOrder, Unmoved, Discard, EndOfRefresh, Return, Goto
<1>11. ASSUME NEW p \in Procs, LoadFails(p)
       PROVE  Unmoved'
  BY <1>11, Members DEF TypeOK, InOrder, Unmoved, LoadFails, EndOfRefresh, Return, Goto
<1>12. ASSUME NEW p \in Procs, NEW found \in BOOLEAN, Install(p, found)
       PROVE  Unmoved'
  BY <1>12, Members DEF TypeOK, InOrder, Unmoved, Install, EndOfRefresh, Return, Goto
<1>13. CASE Expire
  BY <1>13 DEF TypeOK, Unmoved, Expire
<1>14. ASSUME NEW p \in Procs, TakeTurn(p)
       PROVE  Unmoved'
  BY <1>14, Members DEF TypeOK, InOrder, Unmoved, TakeTurn, Seen, Goto
<1> QED
  BY <1>1, <1>2, <1>3, <1>4, <1>5, <1>6, <1>7,
     <1>8, <1>9, <1>10, <1>11, <1>12, <1>13, <1>14, Steps

LEMMA InForce ==
  ASSUME TypeOK, WasInForce, Next
  PROVE  WasInForce'
<1>1. ASSUME NEW p \in Requests, ReadConfig(p)
      PROVE  WasInForce'
  BY <1>1, Members DEF TypeOK, WasInForce, ReadConfig, Goto
<1>2. ASSUME NEW p \in Requests, Look(p)
      PROVE  WasInForce'
  BY <1>2, Members DEF TypeOK, WasInForce, Look, Goto
<1>3. ASSUME NEW p \in Savers, Save(p)
      PROVE  WasInForce'
  BY <1>3, Members DEF TypeOK, WasInForce, Save, Goto
<1>4. ASSUME NEW p \in Procs, UpdateConfig(p)
      PROVE  WasInForce'
  BY <1>4, Members DEF TypeOK, WasInForce, UpdateConfig, Apply, Goto
<1>5. ASSUME NEW p \in Procs, PoolIsGood(p)
      PROVE  WasInForce'
  BY <1>5, Members DEF TypeOK, WasInForce, PoolIsGood, Return, Goto
<1>6. ASSUME NEW p \in Procs, Refresh(p)
      PROVE  WasInForce'
  BY <1>6, Members DEF TypeOK, WasInForce, Refresh, Goto
<1>7. ASSUME NEW p \in Procs, NEW a \in Asyncs, StartAsync(p, a)
      PROVE  WasInForce'
  BY <1>7, Members DEF TypeOK, WasInForce, StartAsync
<1>8. ASSUME NEW p \in Procs, Begin(p)
      PROVE  WasInForce'
  BY <1>8, Members DEF TypeOK, WasInForce, Begin, Goto
<1>9. ASSUME NEW p \in Procs, NotNeeded(p)
      PROVE  WasInForce'
  BY <1>9, Members DEF TypeOK, WasInForce, NotNeeded, Apply, Return, Goto
<1>10. ASSUME NEW p \in Procs, Discard(p)
       PROVE  WasInForce'
  BY <1>10, Members DEF TypeOK, WasInForce, Discard, EndOfRefresh, Return, Goto
<1>11. ASSUME NEW p \in Procs, LoadFails(p)
       PROVE  WasInForce'
  BY <1>11, Members DEF TypeOK, WasInForce, LoadFails, EndOfRefresh, Return, Goto
<1>12. ASSUME NEW p \in Procs, NEW found \in BOOLEAN, Install(p, found)
       PROVE  WasInForce'
  BY <1>12, Members DEF TypeOK, WasInForce, Install, EndOfRefresh, Return, Goto
<1>13. CASE Expire
  BY <1>13 DEF TypeOK, WasInForce, Expire
<1>14. ASSUME NEW p \in Procs, TakeTurn(p)
       PROVE  WasInForce'
  BY <1>14, Members DEF TypeOK, WasInForce, TakeTurn, Seen, Goto
<1> QED
  BY <1>1, <1>2, <1>3, <1>4, <1>5, <1>6, <1>7,
     <1>8, <1>9, <1>10, <1>11, <1>12, <1>13, <1>14, Steps

-----------------------------------------------------------------------------
\* IInv holds in every state.
THEOREM Invariance == Spec => []IInv
<1>1. Init => IInv
  <2> SUFFICES ASSUME Init PROVE IInv
    OBVIOUS
  <2>1. NoSettings \in Settings /\ NoSettings.version = 0
    OBVIOUS
  <2>2. TypeOK
    BY <2>1 DEF Init, TypeOK
  <2>3. InOrder /\ FlagHasRefresher /\ Unmoved /\ WasInForce
    BY <2>1 DEF Init, InOrder, FlagHasRefresher, Unmoved, WasInForce
  <2> QED
    BY <2>2, <2>3 DEF IInv
<1>2. IInv /\ UNCHANGED vars => IInv'
  BY DEF IInv, TypeOK, InOrder, FlagHasRefresher, Unmoved, WasInForce
<1>3. IInv /\ Next => IInv'
  BY Types, Order, Flag, Generation, InForce DEF IInv
<1> QED
  BY <1>1, <1>2, <1>3, PTL DEF Spec

\* `refreshing` is up only while a goroutine is in a refresh or about to begin one, so
\* that background refreshes are never held off for ever.
THEOREM FlagIsHonest == Spec => []FlagHasRefresher
<1>1. IInv => FlagHasRefresher
  BY DEF IInv
<1> QED
  BY <1>1, Invariance, PTL

\* One refresh reads the database at a time, with settings not older than the pool's.
THEOREM OneAtATime == Spec => []LoadsInTurn
<1>1. IInv => LoadsInTurn
  BY DEF IInv, InOrder, LoadsInTurn, TypeOK
<1> QED
  BY <1>1, Invariance, PTL

\* A pool is only replaced by one for the same or later settings.
THEOREM NeverOlder == Spec => PoolNeverOlder
<1> DEFINE Step1 == pool # NoPool /\ pool' # NoPool => pool' >= pool
<1>1. IInv /\ Next => Step1
  <2> SUFFICES ASSUME IInv, Next PROVE Step1
    OBVIOUS
  <2>1. pool \in Int /\ \A p \in Procs : pc[p] = "loading" => pool <= snap[p].version
    BY DEF IInv, TypeOK, InOrder
  <2>2. ASSUME NEW p \in Procs, NEW found \in BOOLEAN, Install(p, found)
        PROVE  Step1
    BY <2>1, <2>2 DEF Install, EndOfRefresh, IInv, TypeOK
  <2>3. CASE pool' = pool
    BY <2>1, <2>3
  <2>4. pool' = pool \/ \E p \in Procs, found \in BOOLEAN : Install(p, found)
    BY Steps, Members DEF ReadConfig, Look, Save, UpdateConfig, PoolIsGood, Refresh,
      StartAsync, TakeTurn, Begin, NotNeeded, Discard, LoadFails, Expire
  <2> QED
    BY <2>2, <2>3, <2>4
<1>2. IInv /\ [Next]_vars => [Step1]_vars
  BY <1>1
<1>3. Spec => [][Step1]_vars
  BY <1>2, Invariance, PTL DEF Spec
<1> QED
  BY <1>3 DEF PoolNeverOlder

-----------------------------------------------------------------------------
(* Refinement of PoolCache *)

CacheStep == Cache!Next \/ UNCHANGED <<cfg, applied, Loading, pool>>

\* A goroutine that is not in a load neither starts nor ends one.
LEMMA SameLoad ==
  ASSUME \A p \in Procs : /\ pc'[p] \in InTurn <=> pc[p] \in InTurn
                          /\ pc[p] \in InTurn => snap'[p] = snap[p]
  PROVE  Loading' = Loading
BY DEF Loading

\* What is loaded is what the holder of refreshMu has read.
LEMMA OneLoad ==
  ASSUME InOrder, NEW p \in Procs, pc[p] \in InTurn
  PROVE  Loading = {snap[p]}
BY DEF Loading, InOrder

\* The end of a refresh ends the only load.
LEMMA LoadEnds ==
  ASSUME TypeOK, InOrder, NEW p \in Procs, EndOfRefresh(p)
  PROVE  Loading = {snap[p]} /\ Loading' = {} /\ UNCHANGED <<cfg, applied>>
<1>1. pc[p] = "loading" /\ UNCHANGED <<cfg, applied>>
  BY DEF EndOfRefresh
<1>2. \A q \in Procs : pc'[q] \notin InTurn
  BY <1>1 DEF TypeOK, InOrder, EndOfRefresh, Return, Goto
<1> QED
  BY <1>1, <1>2, OneLoad DEF Loading

\* An update of the selector, by settings that have been in force.
LEMMA Applied ==
  ASSUME TypeOK, WasInForce, NEW c \in Settings, c.breaker <= cfg.breaker, Apply(c),
         UNCHANGED <<cfg, pool>>, Loading' = Loading
  PROVE  CacheStep
<1>1. c.breaker \in 0..MaxChanges
  OBVIOUS
<1>2. Cache!Apply(c.breaker)
  BY DEF Cache!Apply, Apply
<1> QED
  BY <1>1, <1>2 DEF CacheStep, Cache!Next

\* Every step of a request, of a saver and of a refresh is a step of the cache.
LEMMA CacheSteps ==
  ASSUME IInv, Next
  PROVE  CacheStep
<1>0. TypeOK /\ InOrder /\ Unmoved /\ WasInForce
  BY DEF IInv
<1> USE DEF CacheStep
<1>1. ASSUME NEW p \in Requests, ReadConfig(p)
      PROVE  CacheStep
  <2>1. Loading' = Loading
    BY <1>0, <1>1, Members, SameLoad DEF TypeOK, ReadConfig, Goto
  <2> QED
    BY <1>1, <2>1 DEF ReadConfig
<1>2. ASSUME NEW p \in Requests, Look(p)
      PROVE  CacheStep
  <2>1. Loading' = Loading
    BY <1>0, <1>2, Members, SameLoad DEF TypeOK, Look, Goto
  <2> QED
    BY <1>2, <2>1 DEF Look
<1>3. ASSUME NEW p \in Savers, Save(p)
      PROVE  CacheStep
  <2>1. Loading' = Loading
    BY <1>0, <1>3, Members, SameLoad DEF TypeOK, Save, Goto
  <2>2. Cache!Change
    BY <1>3, <2>1 DEF Save, Cache!Change
  <2> QED
    BY <2>2 DEF Cache!Next
<1>4. ASSUME NEW p \in Procs, UpdateConfig(p)
      PROVE  CacheStep
  <2>1. Loading' = Loading
    BY <1>0, <1>4, Members, SameLoad DEF TypeOK, UpdateConfig, Goto
  <2>2. snap[p] \in Settings /\ snap[p].breaker <= cfg.breaker
    BY <1>0, <1>4 DEF TypeOK, WasInForce, UpdateConfig
  <2> QED
    BY <1>0, <1>4, <2>1, <2>2, Applied DEF UpdateConfig
<1>5. ASSUME NEW p \in Procs, PoolIsGood(p)
      PROVE  CacheStep
  <2>1. Loading' = Loading
    BY <1>0, <1>5, Members, SameLoad DEF TypeOK, PoolIsGood, Return, Goto
  <2> QED
    BY <1>5, <2>1 DEF PoolIsGood
<1>6. ASSUME NEW p \in Procs, Refresh(p)
      PROVE  CacheStep
  <2>1. Loading' = Loading
    BY <1>0, <1>6, Members, SameLoad DEF TypeOK, Refresh, Goto
  <2> QED
    BY <1>6, <2>1 DEF Refresh
<1>7. ASSUME NEW p \in Procs, NEW a \in Asyncs, StartAsync(p, a)
      PROVE  CacheStep
  <2>1. Loading' = Loading
    BY <1>0, <1>7, Members, SameLoad DEF TypeOK, StartAsync
  <2> QED
    BY <1>7, <2>1 DEF StartAsync
<1>8. ASSUME NEW p \in Procs, Begin(p)
      PROVE  CacheStep
  <2>1. Loading' = Loading
    BY <1>0, <1>8, SameLoad DEF TypeOK, Begin, Goto
  <2>2. snap[p] \in Settings /\ snap[p].breaker <= cfg.breaker
    BY <1>0, <1>8 DEF TypeOK, WasInForce, Begin
  <2>3. Cache!Apply(snap[p].breaker)
    BY <1>8, <2>1, <2>2 DEF Begin, Cache!Apply
  <2>4. snap[p].breaker \in 0..MaxChanges
    BY <2>2
  <2> QED
    BY <2>3, <2>4 DEF Cache!Next
<1>9. ASSUME NEW p \in Procs, NotNeeded(p)
      PROVE  CacheStep
  <2>1. /\ pc[p] = "apply" /\ applied' = snap[p].breaker /\ UNCHANGED <<cfg, pool>>
        /\ Return(p)
    BY <1>9 DEF NotNeeded, Apply
  <2>2. Loading = {snap[p]}
    BY <1>0, <2>1, OneLoad
  <2>3. \A q \in Procs : pc'[q] \notin InTurn
    BY <1>0, <2>1 DEF TypeOK, InOrder, Return, Goto
  <2>4. Loading' = {}
    BY <2>3 DEF Loading
  <2> QED
    BY <2>1, <2>2, <2>4 DEF Cache!Next, Cache!GiveUp
<1>10. ASSUME NEW p \in Procs, Discard(p)
       PROVE  CacheStep
  <2>1. Loading # {} /\ Loading' = {} /\ UNCHANGED <<cfg, applied, pool>>
    BY <1>0, <1>10, LoadEnds DEF Discard
  <2> QED
    BY <2>1 DEF Cache!Next, Cache!GiveUp
<1>11. ASSUME NEW p \in Procs, LoadFails(p)
       PROVE  CacheStep
  <2>1. Loading # {} /\ Loading' = {} /\ UNCHANGED <<cfg, applied, pool>>
    BY <1>0, <1>11, LoadEnds DEF LoadFails
  <2> QED
    BY <2>1 DEF Cache!Next, Cache!GiveUp
<1>12. ASSUME NEW p \in Procs, NEW found \in BOOLEAN, Install(p, found)
       PROVE  CacheStep
  <2>1. Loading = {snap[p]} /\ Loading' = {} /\ UNCHANGED <<cfg, applied>>
    BY <1>0, <1>12, LoadEnds DEF Install
  <2>2. applied = snap[p].breaker
    BY <1>0, <1>12 DEF Unmoved, Install, EndOfRefresh
  <2>3. pool' = IF found THEN snap[p].version ELSE NoPool
    BY <1>12 DEF Install
  <2>4. Cache!Install(snap[p], found)
    BY <2>1, <2>2, <2>3 DEF Cache!Install, Cache!NoPool
  <2> QED
    BY <2>1, <2>4 DEF Cache!Next
<1>13. CASE Expire
  BY <1>13 DEF Expire, Loading
<1>14. ASSUME NEW p \in Procs, TakeTurn(p)
       PROVE  CacheStep
  <2>1. Loading = {}
    BY <1>0, <1>14, ProcAssumption DEF InOrder, Loading, TakeTurn
  <2>2. /\ pc' = [pc EXCEPT ![p] = "apply"] /\ snap' = [snap EXCEPT ![p] = cfg]
        /\ UNCHANGED <<cfg, applied, pool>>
    BY <1>14 DEF TakeTurn, Seen, Goto
  <2>3. \A q \in Procs : pc'[q] \in InTurn <=> q = p
    <3>1. \A q \in Procs : pc[q] \notin InTurn
      BY <2>1 DEF Loading
    <3> QED
      BY <1>0, <2>2, <3>1 DEF TypeOK
  <2>4. Loading' = {cfg}
    BY <1>0, <2>2, <2>3 DEF TypeOK, Loading
  <2>5. Cache!Begin
    BY <2>1, <2>2, <2>4 DEF Cache!Begin
  <2> QED
    BY <2>5 DEF Cache!Next
<1> QED
  BY <1>1, <1>2, <1>3, <1>4, <1>5, <1>6, <1>7,
     <1>8, <1>9, <1>10, <1>11, <1>12, <1>13, <1>14, Steps

\* Whoever refreshes, and whoever changes the selector meanwhile: one load at a time fills
\* the pool, for the settings that were current when its turn began, and what it loaded
\* is used only while the selector goes by the strategy and the thresholds of that load.
THEOREM Refinement == Spec => ImplementsCache
<1>1. Init => Cache!Init
  BY DEF Init, Cache!Init, Cache!NoPool, Loading
<1>2. IInv /\ [Next]_vars => [Cache!Next]_(Cache!vars)
  <2>1. ASSUME IInv, Next PROVE [Cache!Next]_(Cache!vars)
    BY <2>1, CacheSteps DEF CacheStep, Cache!vars
  <2>2. ASSUME UNCHANGED vars PROVE [Cache!Next]_(Cache!vars)
    BY <2>2 DEF Cache!vars, Loading
  <2> QED
    BY <2>1, <2>2
<1> QED
  BY <1>1, <1>2, Invariance, PTL DEF Spec, ImplementsCache, Cache!Spec
=============================================================================
