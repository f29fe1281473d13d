------------------------------ MODULE GatewayPool ------------------------------
(***************************************************************************)
(* How the selector of an endpoint gets its pool (gateway_selector.go):    *)
(* requests and the status page find the pool empty or old, the settings   *)
(* change, and all of them refresh it, one at a time under refreshMu, with *)
(* the database read outside of gatewaySelector.mu.                        *)
(*                                                                         *)
(* A pool is known by the version of the settings it was loaded for. The   *)
(* generation counter of the selector is only ever compared with the value *)
(* a refresh saw at its start, so one bit, `moved`, stands for both.       *)
(***************************************************************************)
EXTENDS Integers

CONSTANTS
  Requests,   \* goroutines that select an upstream or show the status
  Asyncs,     \* bound: background refreshes there may be at a time
  Savers,     \* goroutines in ApplyRuntimeConfig
  Nobody,     \* refreshMu is free
  MaxChanges  \* bound: changes of the settings

Procs == Requests \union Asyncs \union Savers

ASSUME ProcAssumption ==
  /\ Requests \intersect (Asyncs \union Savers) = {} /\ Asyncs \intersect Savers = {}
  /\ Nobody \notin Procs
ASSUME ChangeAssumption == MaxChanges \in Nat

NoPool == -1
Versions == 0 .. MaxChanges
\* The settings: their version, and the version that last changed strategy,
\* cooldown or threshold (and not just countries and limit).
Settings == [version : Versions, breaker : Versions]
NoSettings == [version |-> 0, breaker |-> 0]

VARIABLES
  cfg,         \* gatewayServer.cfg
  applied,     \* strategy, cooldown and threshold in the selector
  moved,       \* configGeneration has moved since the refresh at work began
  pool,        \* version the pool was loaded for; NoPool, it is empty
  fresh,       \* upstreamsLoadedAt is less than 30 seconds ago
  refreshing,  \* the flag of the selector
  holder,      \* who holds refreshMu
  pc,          \* where a goroutine is
  snap         \* the settings it has read

vars == <<cfg, applied, moved, pool, fresh, refreshing, holder, pc, snap>>

Init ==
  /\ cfg = NoSettings
  /\ applied = 0 /\ moved = FALSE
  /\ pool \in {NoPool, 0}
  /\ fresh = (pool = 0)
  /\ refreshing = FALSE
  /\ holder = Nobody
  /\ pc = [p \in Procs |-> "idle"]
  /\ snap = [p \in Procs |-> NoSettings]

Goto(p, l) == pc' = [pc EXCEPT ![p] = l]

\* The call ends, and what it has read is gone.
Return(p) ==
  /\ Goto(p, "idle")
  /\ snap' = [snap EXCEPT ![p] = NoSettings]

-----------------------------------------------------------------------------
(* Settings *)

\* next() reads the settings before it takes gatewaySelector.mu.
ReadConfig(r) ==
  /\ pc[r] = "idle"
  /\ snap' = [snap EXCEPT ![r] = cfg]
  /\ Goto(r, "update")
  /\ UNCHANGED <<cfg, applied, moved, pool, fresh, refreshing, holder>>

\* ApplyRuntimeConfig stores the settings; they may differ in the countries only.
Save(s) ==
  /\ pc[s] = "idle"
  /\ cfg.version < MaxChanges
  /\ \E b \in {cfg.breaker, cfg.version + 1} :
       LET c == [version |-> cfg.version + 1, breaker |-> b] IN
       cfg' = c /\ snap' = [snap EXCEPT ![s] = c]
  /\ Goto(s, "update")
  /\ UNCHANGED <<applied, moved, pool, fresh, refreshing, holder>>

\* applyConfigLocked: a change begins a new generation.
Apply(c) ==
  /\ applied' = c.breaker
  /\ moved' = (moved \/ applied # c.breaker)

UpdateConfig(p) ==
  /\ pc[p] = "update"
  /\ Apply(snap[p])
  /\ Goto(p, IF p \in Savers THEN "refresh" ELSE "ensure")
  /\ UNCHANGED <<cfg, pool, fresh, refreshing, holder, snap>>

-----------------------------------------------------------------------------
(* Who refreshes *)

\* snapshot() looks at the pool without an update of the settings.
Look(r) ==
  /\ pc[r] = "idle"
  /\ Goto(r, "ensure")
  /\ UNCHANGED <<cfg, applied, moved, pool, fresh, refreshing, holder, snap>>

PoolIsGood(r) ==
  /\ pc[r] = "ensure"
  /\ pool # NoPool
  /\ fresh \/ refreshing
  /\ Return(r)
  /\ UNCHANGED <<cfg, applied, moved, pool, fresh, refreshing, holder>>

\* startAsyncRefresh: the request goes on with the old pool.
StartAsync(r, a) ==
  /\ pc[r] = "ensure" /\ pc[a] = "idle"
  /\ pool # NoPool /\ ~fresh /\ ~refreshing
  /\ refreshing' = TRUE
  /\ pc' = [pc EXCEPT ![r] = "idle", ![a] = "reserved"]
  /\ snap' = [snap EXCEPT ![r] = NoSettings]
  /\ UNCHANGED <<cfg, applied, moved, pool, fresh, holder>>

\* refresh(): raises the flag whether or not it is up already.
Refresh(p) ==
  /\ \/ pc[p] = "ensure" /\ pool = NoPool
     \/ pc[p] = "refresh"
  /\ refreshing' = TRUE
  /\ Goto(p, "reserved")
  /\ UNCHANGED <<cfg, applied, moved, pool, fresh, holder, snap>>

-----------------------------------------------------------------------------
(* The refresh *)

Forced(p) == p \notin Asyncs

\* Mutant: a refresh goes by the settings its caller had read.
SeenByCaller(p) == snap[p]

\* The settings of the moment.
Seen(p) == cfg

\* Mutant: refreshMu is not held while the pool is read.
TakeTurnUnlocked(p) ==
  /\ pc[p] = "reserved"
  /\ holder' = p
  /\ snap' = [snap EXCEPT ![p] = Seen(p)]
  /\ Goto(p, "apply")
  /\ UNCHANGED <<cfg, applied, moved, pool, fresh, refreshing>>

\* refreshReserved reads the settings when it has refreshMu, under gatewayServer.mu ...
TakeTurn(p) ==
  /\ pc[p] = "reserved" /\ holder = Nobody
  /\ holder' = p
  /\ snap' = [snap EXCEPT ![p] = Seen(p)]
  /\ Goto(p, "apply")
  /\ UNCHANGED <<cfg, applied, moved, pool, fresh, refreshing>>

\* ... and goes by them under gatewaySelector.mu, where it notes the generation. What
\* was saved and applied in between is undone without a trace in the generation.
Begin(p) ==
  /\ pc[p] = "apply"
  /\ Forced(p) \/ pool = NoPool \/ ~fresh
  /\ applied' = snap[p].breaker
  /\ moved' = FALSE
  /\ Goto(p, "loading")
  /\ UNCHANGED <<cfg, pool, fresh, refreshing, holder, snap>>

\* Somebody else has refreshed the pool meanwhile.
NotNeeded(p) ==
  /\ pc[p] = "apply"
  /\ ~Forced(p) /\ pool # NoPool /\ fresh
  /\ Apply(snap[p])
  /\ refreshing' = FALSE
  /\ holder' = Nobody
  /\ Return(p)
  /\ UNCHANGED <<cfg, pool, fresh>>

EndOfRefresh(p) ==
  /\ pc[p] = "loading"
  /\ refreshing' = FALSE
  /\ holder' = Nobody
  /\ Return(p)
  /\ UNCHANGED <<cfg, applied, moved>>

\* Mutant: an error leaves the flag up.
LoadFailsFlagged(p) ==
  /\ pc[p] = "loading"
  /\ holder' = Nobody
  /\ Return(p)
  /\ UNCHANGED <<cfg, applied, moved, pool, fresh, refreshing>>

\* finishRefreshError: an old pool stays in use.
LoadFails(p) ==
  /\ EndOfRefresh(p)
  /\ UNCHANGED <<pool, fresh>>

\* What was loaded for settings that have moved since is thrown away.
Discard(p) ==
  /\ moved
  /\ EndOfRefresh(p)
  /\ UNCHANGED <<pool, fresh>>

\* Mutant: the generation is not compared.
InstallAnyway(p, found) ==
  /\ EndOfRefresh(p)
  /\ pool' = IF found THEN snap[p].version ELSE NoPool
  /\ fresh' = TRUE

Install(p, found) ==
  /\ ~moved
  /\ EndOfRefresh(p)
  /\ pool' = IF found THEN snap[p].version ELSE NoPool
  /\ fresh' = TRUE

Expire ==
  /\ fresh
  /\ fresh' = FALSE
  /\ UNCHANGED <<cfg, applied, moved, pool, refreshing, holder, pc, snap>>

-----------------------------------------------------------------------------
Arrive(r) == ReadConfig(r) \/ Look(r)

Step(p) ==
  \/ UpdateConfig(p) \/ PoolIsGood(p) \/ Refresh(p)
  \/ \E a \in Asyncs : StartAsync(p, a)
  \/ TakeTurn(p) \/ Begin(p) \/ NotNeeded(p)
  \/ Discard(p) \/ LoadFails(p) \/ \E found \in BOOLEAN : Install(p, found)

Next ==
  \/ \E r \in Requests : Arrive(r)
  \/ \E s \in Savers : Save(s)
  \/ \E p \in Procs : Step(p)
  \/ Expire

Spec == Init /\ [][Next]_vars

\* Traffic goes on, time passes, and of the loads that are tried again and again
\* one finds something. The settings need not change ever again.
Fairness ==
  /\ WF_vars(Expire)
  /\ \A r \in Requests : WF_vars(Arrive(r))
  /\ \A p \in Procs : WF_vars(Step(p)) /\ SF_vars(Install(p, TRUE))

FairSpec == Spec /\ Fairness

-----------------------------------------------------------------------------
(* Properties *)

TypeOK ==
  /\ cfg \in Settings /\ applied \in Versions /\ moved \in BOOLEAN
  /\ pool \in Versions \union {NoPool} /\ fresh \in BOOLEAN
  /\ refreshing \in BOOLEAN
  /\ holder \in Procs \union {Nobody}
  /\ pc \in [Procs -> {"idle", "update", "ensure", "refresh", "reserved", "apply",
                      "loading"}]
  /\ snap \in [Procs -> Settings]

\* Where a refresh is that has read the settings.
InTurn == {"apply", "loading"}

\* While the flag is up somebody is refreshing or will be: a flag that nobody lowers
\* would stop all background refreshes, and the pool would stay as it is for ever.
FlagHasRefresher ==
  refreshing => \E p \in Procs : pc[p] \in {"reserved"} \union InTurn

\* A slow refresh never replaces a pool by one for older settings, however refreshes,
\* changes of the settings and late updates of the selector overlap.
PoolNeverOlder == [][pool # NoPool /\ pool' # NoPool => pool' >= pool]_vars

\* At most one refresh reads the database, and it has read settings at least as new as
\* those of the pool in use.
LoadsInTurn ==
  \A p \in Procs :
    pc[p] \in InTurn => holder = p /\ (pool # NoPool => snap[p].version >= pool)

\* The settings somebody refreshes the pool for.
Loading == {snap[p] : p \in {q \in Procs : pc[q] \in InTurn}}

Cache == INSTANCE PoolCache WITH current <- cfg, loading <- Loading

\* Whoever refreshes, and whoever changes the selector meanwhile: one load at a time fills
\* the pool, for the settings that were current when its turn began, and what it loaded
\* is used only while the selector goes by the strategy and the thresholds of that load.
\* (These need not be the current ones: what is saved and applied between the read of
\* the settings and Begin is set back.)
ImplementsCache == Cache!Spec

\* Settings that stay reach the pool, with traffic and a database that answers, even
\* when the refresh that followed their change was lost, or set the selector back.
SettingsReachPool == (cfg.version = MaxChanges) ~> (pool = MaxChanges)
=============================================================================
