--------------------------- MODULE ProxyStoreProofs ---------------------------
(***************************************************************************)
(* Theorems of CheckOutcome and ProxyStore, for any targets, any number of *)
(* rounds, any plan and any age at which results expire.                   *)
(***************************************************************************)
EXTENDS ProxyStore, FiniteSetTheorems, WellFoundedInduction, TLAPS

USE TargetAssumption, RoundAssumption, TtlAssumption, IdAssumption

-----------------------------------------------------------------------------
(* The rounds of a target *)

LEMMA Priorities ==
  /\ Priority["blocked"] = 4 /\ Priority["challenge"] = 3
  /\ Priority["behind_cf"] = 2 /\ Priority["not_cf"] = 1 /\ Priority[Unknown] = 0
<1>1. \A s \in CfStatuses :
        Priority[s] = CASE s = "blocked" -> 4 [] s = "challenge" -> 3
                        [] s = "behind_cf" -> 2 [] s = "not_cf" -> 1 [] s = Unknown -> 0
  BY DEF Priority
<1>2. Priority["blocked"] = 4
  BY <1>1 DEF CfStatuses, Unknown
<1>3. Priority["challenge"] = 3
  BY <1>1 DEF CfStatuses, Unknown
<1>4. Priority["behind_cf"] = 2
  BY <1>1 DEF CfStatuses, Unknown
<1>5. Priority["not_cf"] = 1
  BY <1>1 DEF CfStatuses, Unknown
<1>6. Priority[Unknown] = 0
  BY <1>1 DEF CfStatuses, Unknown
<1> QED
  BY <1>2, <1>3, <1>4, <1>5, <1>6

\* The merged status is one that stops a check exactly when one of the merged is.
LEMMA MergedBlocks ==
  ASSUME NEW S \in SUBSET CfStatuses
  PROVE  /\ MergeCloudflareStatus(S) \in CfStatuses
         /\ Blocks(MergeCloudflareStatus(S)) <=> \E s \in S : Blocks(s)
<1> DEFINE T == S \union {Unknown}
<1>1. \E s \in T : \A o \in T : Priority[o] <= Priority[s]
  BY Priorities DEF CfStatuses, Unknown
<1>2. /\ MergeCloudflareStatus(S) \in T
      /\ \A o \in T : Priority[o] <= Priority[MergeCloudflareStatus(S)]
  BY <1>1 DEF MergeCloudflareStatus
<1>3. T \subseteq CfStatuses
  BY DEF CfStatuses
<1>4. \A s \in CfStatuses : Blocks(s) <=> Priority[s] >= 3
  BY Priorities DEF CfStatuses, Blocks, Unknown
<1>5. \A s \in CfStatuses : Priority[s] \in Nat
  BY Priorities DEF CfStatuses, Unknown
<1>6. ~Blocks(Unknown)
  BY DEF Blocks, Unknown
<1>7. ASSUME Blocks(MergeCloudflareStatus(S))
      PROVE  \E s \in S : Blocks(s)
  BY <1>2, <1>6, <1>7
<1>8. ASSUME NEW s \in S, Blocks(s)
      PROVE  Blocks(MergeCloudflareStatus(S))
  BY <1>2, <1>3, <1>4, <1>5, <1>8
<1> QED
  BY <1>2, <1>3, <1>7, <1>8

RoundTypes == [available : BOOLEAN, base : BOOLEAN, service : BOOLEAN,
               api : {"yes", "no", NoApi}, cf : CfStatuses]

\* What a round has found when it says that the target is available.
Found(t, x) == x.service \/ x.api = "yes" \/ (t = Generic /\ x.base)

LEMMA AnswerTypes ==
  ASSUME NEW a \in Answers
  PROVE  a.ok \in BOOLEAN /\ a.cf \in CfStatuses
<1>1. \A c, h, r \in BOOLEAN : DetectCloudflareStatus(c, h, r) \in CfStatuses
  BY Zenon DEF DetectCloudflareStatus, CfStatuses
<1>2. CASE a = NoAnswer
  BY <1>2 DEF NoAnswer, CfStatuses
<1>3. CASE a # NoAnswer
  <2>1. PICK e \in BOOLEAN, c, h, r \in BOOLEAN :
          a = [ok |-> e /\ ~Blocks(DetectCloudflareStatus(c, h, r)),
               cf |-> DetectCloudflareStatus(c, h, r)]
    BY <1>3 DEF Answers
  <2> QED
    BY <1>1, <2>1
<1> QED
  BY <1>2, <1>3

LEMMA ProbeTypes ==
  ASSUME NEW t \in Targets, NEW p \in Probes(t)
  PROVE  p.service \in BOOLEAN /\ p.api \in {"yes", "no", NoApi} /\ p.cf \in CfStatuses
<1>1. CASE t = Generic
  <2>1. PICK s \in Answers : p = ProbeService(s)
    BY <1>1 DEF Probes
  <2> QED
    BY <2>1, AnswerTypes DEF ProbeService
<1>2. CASE t # Generic
  <2>1. PICK s \in Answers, a \in Answers : p = Probe(s, a)
    BY <1>2 DEF Probes
  <2>2. {s.cf, a.cf} \in SUBSET CfStatuses
    BY AnswerTypes
  <2>3. MergeCloudflareStatus({s.cf, a.cf}) \in CfStatuses
    BY <2>2, MergedBlocks
  <2> QED
    BY <2>1, <2>3, AnswerTypes DEF Probe, Reached
<1> QED
  BY <1>1, <1>2

LEMMA RoundFacts ==
  ASSUME NEW t \in Targets, NEW x \in RoundsOf(t)
  PROVE  /\ x \in RoundTypes
         /\ x.available => ~Blocks(x.cf) /\ Found(t, x)
<1>1. CASE x = FailedResult
  BY <1>1 DEF FailedResult, RoundTypes, CfStatuses, Unknown
<1>2. CASE x # FailedResult
  <2>1. PICK base \in BOOLEAN, p \in Probes(t) : x = RoundResult(t, base, p)
    BY <1>2 DEF RoundsOf
  <2>2. p.service \in BOOLEAN /\ p.api \in {"yes", "no", NoApi} /\ p.cf \in CfStatuses
    BY ProbeTypes
  <2>3. TargetAvailable(t, base, p) \in BOOLEAN
    BY DEF TargetAvailable
  <2> QED
    BY <2>1, <2>2, <2>3 DEF RoundResult, RoundTypes, Found, TargetAvailable, TargetReached
<1> QED
  BY <1>1, <1>2

LEMMA Members ==
  ASSUME NEW n \in Nat, NEW t \in Targets, NEW rs \in [1 .. n -> RoundsOf(t)]
  PROVE  /\ Len(rs) = n /\ DOMAIN rs = 1 .. n
         /\ \A i \in 1 .. n : /\ rs[i] \in RoundTypes
                              /\ rs[i].available => ~Blocks(rs[i].cf) /\ Found(t, rs[i])
<1>1. rs \in Seq(RoundsOf(t)) /\ Len(rs) = n
  OBVIOUS
<1>2. \A i \in 1 .. n : rs[i] \in RoundsOf(t)
  OBVIOUS
<1> QED
  BY <1>1, <1>2, RoundFacts

LEMMA CombinedTypes ==
  ASSUME NEW n \in Nat, NEW t \in Targets, NEW rs \in [1 .. n -> RoundsOf(t)]
  PROVE  /\ Combine(rs) \in RoundTypes
         /\ Blocks(Combine(rs).cf) <=> BlockedRounds(rs) # {}
         /\ Combine(rs).available <=> 2 * Cardinality(AvailableRounds(rs)) >= n
<1>1. {rs[i].cf : i \in DOMAIN rs} \in SUBSET CfStatuses
  BY Members DEF RoundTypes
<1> DEFINE m == MergeCloudflareStatus({rs[i].cf : i \in DOMAIN rs})
<1>2. m \in CfStatuses
  BY <1>1, MergedBlocks
<1>3. Blocks(m) <=> \E s \in {rs[i].cf : i \in DOMAIN rs} : Blocks(s)
  BY <1>1, MergedBlocks
<1>4. Combine(rs).cf = m
  BY DEF Combine
<1>5. (\E s \in {rs[i].cf : i \in DOMAIN rs} : Blocks(s)) <=> BlockedRounds(rs) # {}
  BY DEF BlockedRounds
<1>6. Combine(rs).available <=> 2 * Cardinality(AvailableRounds(rs)) >= n
  BY Members DEF Combine
<1>7. Combine(rs) \in RoundTypes
  BY <1>2 DEF Combine, RoundTypes
<1> QED
  BY <1>3, <1>4, <1>5, <1>6, <1>7

\* What some round has found, the combined result has too.
LEMMA CombinedFinds ==
  ASSUME NEW n \in Nat, NEW t \in Targets, NEW rs \in [1 .. n -> RoundsOf(t)],
         NEW i \in 1 .. n, Found(t, rs[i])
  PROVE  Found(t, Combine(rs))
<1>1. i \in DOMAIN rs
  OBVIOUS
<1> QED
  BY <1>1 DEF Found, Combine

\* A capability is what has been found; it is usable when something of it counts.
LEMMA FoundIsUsable ==
  ASSUME NEW t \in Targets, NEW r \in RoundTypes
  PROVE  /\ Found(t, r) => Usable(t, StoredCapability(t, r))
         /\ Found(t, r) => ProbeStatus(r) = "available"
<1>1. r.service \in BOOLEAN /\ r.base \in BOOLEAN
  BY DEF RoundTypes
<1>2. ASSUME r.service, r.api = "yes"
      PROVE  Capability(r) = "web_api"
  BY <1>1, <1>2 DEF Capability
<1>3. ASSUME r.service, r.api # "yes"
      PROVE  Capability(r) = "web"
  BY <1>1, <1>3 DEF Capability
<1>4. ASSUME ~r.service, r.api = "yes"
      PROVE  Capability(r) = "api"
  BY <1>1, <1>4 DEF Capability
<1>5. ASSUME ~r.service, r.api # "yes", r.base
      PROVE  Capability(r) = "base"
  BY <1>1, <1>5 DEF Capability
<1>6. ASSUME Found(t, r)
      PROVE  Usable(t, StoredCapability(t, r))
  BY <1>1, <1>2, <1>3, <1>4, <1>5, <1>6 DEF Found, StoredCapability, Usable
<1> QED
  BY <1>6 DEF Found, ProbeStatus

\* Rounds that are available and rounds that are stopped share the n rounds.
LEMMA RoundsShared ==
  ASSUME NEW n \in Nat, NEW t \in Targets, NEW rs \in [1 .. n -> RoundsOf(t)]
  PROVE  LET a == Cardinality(AvailableRounds(rs))
             b == Cardinality(BlockedRounds(rs))
         IN  a \in Nat /\ b \in Nat /\ a + b <= n /\ (a > 0 => AvailableRounds(rs) # {})
<1> DEFINE A == AvailableRounds(rs)
           B == BlockedRounds(rs)
<1>1. A \in SUBSET (1 .. n) /\ B \in SUBSET (1 .. n) /\ A \intersect B = {}
  BY Members DEF AvailableRounds, BlockedRounds
<1>2. IsFiniteSet(1 .. n) /\ Cardinality(1 .. n) = n
  BY FS_Interval
<1>3. /\ IsFiniteSet(A) /\ IsFiniteSet(B)
      /\ Cardinality(A) \in Nat /\ Cardinality(B) \in Nat
  BY <1>1, <1>2, FS_Subset, FS_CardinalityType
<1>4. Cardinality(A \union B) = Cardinality(A) + Cardinality(B) - Cardinality(A \intersect B)
  BY <1>3, FS_Union
<1>5. A \union B \in SUBSET (1 .. n)
  BY <1>1
<1>6. Cardinality(A \union B) <= n
  BY <1>2, <1>5, FS_Subset
<1>7. Cardinality({}) = 0
  BY FS_EmptySet
<1>8. Cardinality(A \intersect B) = 0
  BY <1>1, <1>7
<1> HIDE DEF A, B
<1>9. Cardinality(A) > 0 => A # {}
  <2>1. Cardinality(A) = 0 <=> A = {}
    BY <1>3, FS_EmptySet
  <2> QED
    BY <1>3, <2>1
<1>10. Cardinality(A) + Cardinality(B) <= n
  BY <1>3, <1>4, <1>6, <1>8
<1> QED
  BY <1>3, <1>9, <1>10 DEF A, B

\* However many rounds there are and however they go, a target is stored as available
\* exactly when half of them were and none was stopped by Cloudflare.
LEMMA AllSound == SoundTargets = Targets
<1> SUFFICES ASSUME NEW t \in Targets, NEW n \in 1 .. MaxRounds,
                    NEW rs \in [1 .. n -> RoundsOf(t)]
             PROVE  Sound(t, rs)
  BY DEF SoundTargets
<1> DEFINE r == Combine(rs)
           a == Cardinality(AvailableRounds(rs))
           b == Cardinality(BlockedRounds(rs))
           good == 2 * a >= n
<1>1. n \in Nat /\ n >= 1
  OBVIOUS
<1>2. /\ r \in RoundTypes
      /\ Blocks(r.cf) <=> BlockedRounds(rs) # {}
      /\ r.available <=> good
  BY <1>1, CombinedTypes
<1>3. a \in Nat /\ b \in Nat /\ a + b <= n /\ (a > 0 => AvailableRounds(rs) # {})
  BY <1>1, RoundsShared
<1>4. ASSUME good
      PROVE  Found(t, r)
  <2>1. AvailableRounds(rs) # {}
    BY <1>1, <1>3, <1>4
  <2>2. PICK i \in 1 .. n : rs[i].available
    BY <1>1, <2>1, Members DEF AvailableRounds
  <2>3. Found(t, rs[i])
    BY <1>1, <2>2, Members
  <2> QED
    BY <1>1, <2>3, CombinedFinds
<1>5. TargetStatus(t, r) = "available" <=> good /\ BlockedRounds(rs) = {}
  BY <1>2, <1>4, FoundIsUsable DEF TargetStatus, NormalizeTargetStatus
<1>6. good => ProbeStatus(r) = "available" /\ Usable(t, StoredCapability(t, r))
  BY <1>2, <1>4, FoundIsUsable
<1>7. good => 2 * b <= n
  BY <1>1, <1>3
<1>8. Len(rs) = n
  BY <1>1, Members
<1> QED
  BY <1>2, <1>5, <1>6, <1>7, <1>8 DEF Sound
-----------------------------------------------------------------------------
(* The rows of a proxy *)

RowTypes == [status : Stored \union {"no row"}, age : 0 .. Ttl]

StoreTypes ==
  /\ target \in [Targets -> RowTypes] /\ shadow \in [Targets -> RowTypes]
  /\ root \in [status : Stored, failed : BOOLEAN]
  /\ probe \in [status : Stored, base : BOOLEAN, failures : 0 .. 2, age : 0 .. Ttl]
  /\ id = NoId => target = NoTargets /\ probe = NewProbe
  /\ rewritten \in BOOLEAN

\* RootAgrees, for a row that does not exist too; ShadowInv is why the tables part no
\* further.
RootInv ==
  /\ root.status = Aggregate(IF rewritten THEN shadow ELSE target)
  /\ SomeAvailable => ~root.failed

\* The rows of a target in the two tables: they have the same status and, when that is
\* one of age, nearly the same age, unless one has just expired and the other is about to.
Expiring(a, b) == a.status = "available" /\ a.age >= Ttl - 1 /\ b.status = "untested"

Paired(a, b) ==
  /\ a.status = b.status \/ Expiring(a, b) \/ Expiring(b, a)
  /\ a.status = "available" /\ b.status = "available" =>
       a.age <= b.age + 1 /\ b.age <= a.age + 1

ShadowInv == \A t \in Targets : Paired(target[t], shadow[t])

\* An available target is hardly younger than an available probe.
AgeInv ==
  \A t \in Targets :
    IsAvailable(t) =>
      /\ probe.status = "untested" => target[t].age >= Ttl - 1
      /\ probe.status = "available" => target[t].age + 1 >= probe.age

\* What the statistics miss, an actor has yet to say.
StatsInv ==
  /\ stats \in {"idle", "reading", "reading old"}
  /\ cache = "old" \/ stats = "reading old" => committed # {}

\* The results are those of the row, and a check is one of a row that has been there.
IdInv ==
  /\ id \in Nat /\ lastId \in Nat
  /\ origin = id
  /\ check \in [pc : {"none", "checking", "saved"}, id : Nat,
                plan : Plans \union {<<>>}, dead : BOOLEAN]
  /\ check.pc # "none" => check.id # NoId

RowInv == StoreTypes /\ RootInv /\ ShadowInv /\ AgeInv
IInv == RowInv /\ StatsInv /\ IdInv

LEMMA Ages ==
  ASSUME NEW f \in [Targets -> RowTypes]
  PROVE  /\ AgeRows(f) \in [Targets -> RowTypes]
         /\ \A t \in Targets :
              /\ AgeRows(f)[t].status = f[t].status
              /\ f[t].status = "available" => AgeRows(f)[t].age = Older(f[t].age)
<1>1. \A t \in Targets : f[t].status \in Stored \union {"no row"} /\ f[t].age \in 0 .. Ttl
  BY DEF RowTypes
<1>2. \A a \in 0 .. Ttl : Older(a) \in 0 .. Ttl
  BY DEF Older
<1>3. \A t \in Targets : AgeRows(f)[t] \in RowTypes
  BY <1>1, <1>2 DEF AgeRows, RowTypes
<1>4. AgeRows(f) \in [Targets -> RowTypes]
  BY <1>3 DEF AgeRows
<1>5. ASSUME NEW t \in Targets
      PROVE  /\ AgeRows(f)[t].status = f[t].status
             /\ f[t].status = "available" => AgeRows(f)[t].age = Older(f[t].age)
  BY <1>1, <1>2 DEF AgeRows, RowTypes
<1> QED
  BY <1>4, <1>5

LEMMA SameAggregate ==
  ASSUME NEW f, NEW g, \A t \in Targets : f[t].status = g[t].status
  PROVE  Aggregate(f) = Aggregate(g)
  BY DEF Aggregate

LEMMA AggregateType ==
  ASSUME NEW f
  PROVE  Aggregate(f) \in Stored
  BY DEF Aggregate, Stored

LEMMA NothingStored ==
  /\ NoTargets \in [Targets -> RowTypes]
  /\ Aggregate(NoTargets) = "untested"
  /\ \A t \in Targets : NoTargets[t].status = "no row"
<1>1. \A t \in Targets : NoTargets[t].status = "no row" /\ NoTargets[t] = NoRow
  BY DEF NoTargets, NoRow
<1>2. NoRow \in RowTypes
  BY DEF NoRow, RowTypes
<1>3. NoTargets \in [Targets -> RowTypes]
  BY <1>2 DEF NoTargets
<1> QED
  BY <1>1, <1>3 DEF Aggregate

\* Tables without a row of the proxy.
LEMMA NoRows ==
  ASSUME NEW f, \A t \in Targets : f[t].status = "no row"
  PROVE  Rows(f) = {} /\ Aggregate(f) = "untested"
  BY DEF Aggregate, Rows

LEMMA PairedNoRow ==
  ASSUME NEW a, NEW b, Paired(a, b)
  PROVE  a.status = "no row" <=> b.status = "no row"
  BY DEF Paired, Expiring

LEMMA PairedAges ==
  ASSUME NEW f \in [Targets -> RowTypes], NEW g \in [Targets -> RowTypes],
         NEW t \in Targets, Paired(f[t], g[t])
  PROVE  Paired(AgeRows(f)[t], AgeRows(g)[t])
<1>1. /\ AgeRows(f)[t].status = f[t].status /\ AgeRows(g)[t].status = g[t].status
      /\ f[t].status = "available" => AgeRows(f)[t].age = Older(f[t].age)
      /\ g[t].status = "available" => AgeRows(g)[t].age = Older(g[t].age)
  BY Ages
<1>2. f[t].age \in 0 .. Ttl /\ g[t].age \in 0 .. Ttl
  BY DEF RowTypes
<1> QED
  BY <1>1, <1>2 DEF Paired, Expiring, Older

LEMMA NewRecords ==
  /\ NewRoot \in [status : Stored, failed : BOOLEAN]
  /\ NewProbe \in [status : Stored, base : BOOLEAN, failures : 0 .. 2, age : 0 .. Ttl]
  /\ NewRoot.status = "untested" /\ ~NewRoot.failed
  /\ NewProbe.status = "untested"
  BY DEF NewRoot, NewProbe, Stored

\* A proxy that has just been imported or is not there.
LEMMA Blank ==
  ASSUME target' = NoTargets, shadow' = NoTargets, root' = NewRoot, probe' = NewProbe,
         rewritten' = FALSE
  PROVE  RowInv'
<1>1. StoreTypes'
  BY NothingStored, NewRecords DEF StoreTypes
<1>2. \A t \in Targets : ~IsAvailable(t)'
  BY NothingStored DEF IsAvailable
<1>3. RootInv'
  BY <1>2, NothingStored, NewRecords DEF RootInv, SomeAvailable
<1>4. ShadowInv'
  BY NothingStored DEF ShadowInv, Paired
<1> QED
  BY <1>1, <1>2, <1>3, <1>4 DEF RowInv, AgeInv

LEMMA Ticking ==
  ASSUME RowInv, Tick
  PROVE  RowInv'
<1>1. /\ target' = AgeRows(target) /\ shadow' = AgeRows(shadow)
      /\ probe' = AgeProbe(probe) /\ UNCHANGED <<id, root, rewritten>>
  BY DEF Tick
<1>2. /\ target' \in [Targets -> RowTypes] /\ shadow' \in [Targets -> RowTypes]
      /\ \A t \in Targets :
           /\ target'[t].status = target[t].status
           /\ shadow'[t].status = shadow[t].status
           /\ target[t].status = "available" => target'[t].age = Older(target[t].age)
  BY <1>1, Ages DEF RowInv, StoreTypes
<1>3. /\ probe.status \in Stored /\ probe.base \in BOOLEAN
      /\ probe.failures \in 0 .. 2 /\ probe.age \in 0 .. Ttl
  BY DEF RowInv, StoreTypes
<1>4. /\ probe' \in [status : Stored, base : BOOLEAN, failures : 0 .. 2, age : 0 .. Ttl]
      /\ probe'.status = probe.status
      /\ probe'.age = probe.age \/ probe'.age = Older(probe.age)
  BY <1>1, <1>3 DEF AgeProbe, RowInv, StoreTypes, Older
<1>5. ASSUME id = NoId
      PROVE  target' = NoTargets /\ probe' = NewProbe
  <2>1. target = NoTargets /\ probe = NewProbe
    BY <1>5 DEF RowInv, StoreTypes
  <2>2. probe' = probe
    BY <1>1, <1>5 DEF AgeProbe, Exists
  <2>3. AgeRows(NoTargets) = NoTargets
    BY DEF AgeRows, NoTargets, NoRow
  <2> QED
    BY <1>1, <2>1, <2>2, <2>3
<1>6. StoreTypes'
  BY <1>1, <1>2, <1>4, <1>5 DEF RowInv, StoreTypes
<1>7. RootInv'
  <2>1. /\ Aggregate(target') = Aggregate(target)
        /\ Aggregate(shadow') = Aggregate(shadow)
    BY <1>2, SameAggregate
  <2>2. SomeAvailable' => SomeAvailable
    BY <1>2 DEF SomeAvailable, IsAvailable
  <2> QED
    BY <1>1, <2>1, <2>2 DEF RowInv, RootInv
<1>8. AgeInv'
  <2> SUFFICES ASSUME NEW t \in Targets, target'[t].status = "available"
               PROVE  /\ probe'.status = "untested" => target'[t].age >= Ttl - 1
                      /\ probe'.status = "available" => target'[t].age + 1 >= probe'.age
    BY DEF AgeInv, IsAvailable
  <2>1. /\ target[t].status = "available"
        /\ target'[t].age = Older(target[t].age) /\ target[t].age \in 0 .. Ttl
    BY <1>2 DEF RowInv, StoreTypes, RowTypes
  <2>2. /\ probe.status = "untested" => target[t].age >= Ttl - 1
        /\ probe.status = "available" => target[t].age + 1 >= probe.age
    BY <2>1 DEF RowInv, AgeInv, IsAvailable
  <2> QED
    BY <1>3, <1>4, <2>1, <2>2 DEF Older
<1>9. ShadowInv'
  <2>1. ASSUME NEW t \in Targets
        PROVE  Paired(target'[t], shadow'[t])
    BY <1>1, PairedAges DEF RowInv, StoreTypes, ShadowInv
  <2> QED
    BY <2>1 DEF ShadowInv
<1> QED
  BY <1>6, <1>7, <1>8, <1>9 DEF RowInv

LEMMA RequeuedRow ==
  ASSUME NEW f, NEW t \in Targets, RequeueRows(f)[t].status # "untested"
  PROVE  RequeueRows(f)[t] = f[t] /\ ~Expired(f[t])
<1>1. CASE Expired(f[t])
  <2>1. RequeueRows(f)[t] = [status |-> "untested", age |-> 0]
    BY <1>1 DEF RequeueRows
  <2>2. [status |-> "untested", age |-> 0].status = "untested"
    OBVIOUS
  <2> QED
    BY <2>1, <2>2
<1>2. CASE ~Expired(f[t])
  BY <1>2 DEF RequeueRows
<1> QED
  BY <1>1, <1>2

LEMMA Requeued ==
  ASSUME NEW f \in [Targets -> RowTypes]
  PROVE  /\ RequeueRows(f) \in [Targets -> RowTypes]
         /\ \A t \in Targets : RequeueRows(f)[t].status = "available" =>
              RequeueRows(f)[t] = f[t] /\ f[t].age < Ttl
<1>1. \A t \in Targets : f[t].status \in Stored \union {"no row"} /\ f[t].age \in 0 .. Ttl
  BY DEF RowTypes
<1>2. [status |-> "untested", age |-> 0] \in RowTypes
  <2>1. "untested" \in Stored /\ 0 \in 0 .. Ttl
    BY DEF Stored
  <2> QED
    BY <2>1 DEF RowTypes
<1>3. \A t \in Targets : RequeueRows(f)[t] \in RowTypes
  BY <1>2 DEF RequeueRows
<1>4. RequeueRows(f) \in [Targets -> RowTypes]
  BY <1>3 DEF RequeueRows
<1>5. ASSUME NEW t \in Targets, RequeueRows(f)[t].status = "available"
      PROVE  RequeueRows(f)[t] = f[t] /\ f[t].age < Ttl
  <2>1. RequeueRows(f)[t] = f[t] /\ ~Expired(f[t])
    BY <1>5, RequeuedRow
  <2>2. f[t].status = "available"
    BY <1>5, <2>1
  <2>3. ~(f[t].status = "available" /\ f[t].age >= Ttl)
    BY <2>1, Zenon DEF Expired
  <2>4. f[t].age \in 0 .. Ttl
    BY <1>1, Zenon
  <2>5. f[t].age < Ttl
    BY <2>2, <2>3, <2>4
  <2> QED
    BY <2>1, <2>5
<1> QED
  BY <1>4, <1>5

\* Requeued one after the other, with a tick in between or behind them, two rows stay
\* paired: the one requeued first was not the older by more than a tick.
LEMMA PairedRequeued ==
  ASSUME NEW f \in [Targets -> RowTypes], NEW g \in [Targets -> RowTypes],
         NEW t \in Targets, Paired(f[t], g[t])
  PROVE  /\ Paired(RequeueRows(f)[t], RequeueRows(g)[t])
         /\ Paired(AgeRows(RequeueRows(f))[t], RequeueRows(AgeRows(g))[t])
         /\ Paired(AgeRows(RequeueRows(f))[t], AgeRows(RequeueRows(g))[t])
         /\ RequeueRows(f)[t].status = "no row" <=> f[t].status = "no row"
         /\ AgeRows(RequeueRows(f))[t].status = "no row" <=> f[t].status = "no row"
<1>1. ASSUME NEW h \in [Targets -> RowTypes]
      PROVE  /\ RequeueRows(h) \in [Targets -> RowTypes] /\ AgeRows(h) \in [Targets -> RowTypes]
             /\ h[t].age \in 0 .. Ttl
             /\ AgeRows(h)[t].status = h[t].status
             /\ h[t].status = "available" => AgeRows(h)[t].age = Older(h[t].age)
             /\ RequeueRows(h)[t].status =
                  IF h[t].status = "available" /\ h[t].age >= Ttl THEN "untested" ELSE h[t].status
             /\ RequeueRows(h)[t].status = "available" => RequeueRows(h)[t].age = h[t].age
  <2>1. CASE Expired(h[t])
    <3>1. RequeueRows(h)[t] = [status |-> "untested", age |-> 0]
      BY <2>1 DEF RequeueRows
    <3>2. RequeueRows(h)[t].status = "untested"
      BY <3>1
    <3> QED
      BY <2>1, <3>2, Ages, Requeued DEF Expired, RowTypes
  <2>2. CASE ~Expired(h[t])
    <3>1. RequeueRows(h)[t] = h[t]
      BY <2>2 DEF RequeueRows
    <3> QED
      BY <2>2, <3>1, Ages, Requeued DEF Expired, RowTypes
  <2> QED
    BY <2>1, <2>2
<1>2. f[t].age \in 0 .. Ttl /\ g[t].age \in 0 .. Ttl
  BY <1>1
<1>3. Paired(RequeueRows(f)[t], RequeueRows(g)[t])
  BY <1>1, <1>2 DEF Paired, Expiring
<1>4. Paired(AgeRows(RequeueRows(f))[t], AgeRows(RequeueRows(g))[t])
  BY <1>1, <1>3, PairedAges
<1>5. Paired(AgeRows(RequeueRows(f))[t], RequeueRows(AgeRows(g))[t])
  <2>1. /\ AgeRows(RequeueRows(f))[t].status = RequeueRows(f)[t].status
        /\ AgeRows(RequeueRows(f))[t].status = "available" =>
             AgeRows(RequeueRows(f))[t].age = Older(f[t].age)
    BY <1>1
  <2>2. /\ RequeueRows(AgeRows(g))[t].status =
             IF g[t].status = "available" /\ Older(g[t].age) >= Ttl
             THEN "untested" ELSE g[t].status
        /\ RequeueRows(AgeRows(g))[t].status = "available" =>
             RequeueRows(AgeRows(g))[t].age = Older(g[t].age)
    BY <1>1
  <2>3. RequeueRows(f)[t].status =
          IF f[t].status = "available" /\ f[t].age >= Ttl THEN "untested" ELSE f[t].status
    BY <1>1
  <2> QED
    BY <1>2, <2>1, <2>2, <2>3 DEF Paired, Expiring, Older
<1>6. /\ RequeueRows(f)[t].status = "no row" <=> f[t].status = "no row"
      /\ AgeRows(RequeueRows(f))[t].status = "no row" <=> f[t].status = "no row"
  BY <1>1
<1> QED
  BY <1>3, <1>4, <1>5, <1>6

LEMMA ProbeAges ==
  ASSUME NEW p \in [status : Stored, base : BOOLEAN, failures : 0 .. 2, age : 0 .. Ttl]
  PROVE  /\ AgeProbe(p) \in [status : Stored, base : BOOLEAN, failures : 0 .. 2, age : 0 .. Ttl]
         /\ AgeProbe(p).status = p.status
         /\ AgeProbe(p).age = p.age \/ AgeProbe(p).age = Older(p.age)
         /\ RequeueProbe(p) \in [status : Stored, base : BOOLEAN, failures : 0 .. 2, age : 0 .. Ttl]
         /\ RequeueProbe(p).status = "available" => RequeueProbe(p) = p
         /\ RequeueProbe(p).status = "untested" =>
              p.status = "untested" \/ (p.status = "available" /\ p.age >= Ttl)
<1> DEFINE P == [status : Stored, base : BOOLEAN, failures : 0 .. 2, age : 0 .. Ttl]
<1>1. p.status \in Stored /\ p.age \in 0 .. Ttl /\ Older(p.age) \in 0 .. Ttl
  BY DEF Older
<1>2. "untested" \in Stored /\ 0 \in 0 .. Ttl
  BY DEF Stored
<1>3. ASSUME NEW a \in 0 .. Ttl
      PROVE  /\ [p EXCEPT !.age = a] \in P
             /\ [p EXCEPT !.age = a].status = p.status /\ [p EXCEPT !.age = a].age = a
  OBVIOUS
<1>4. AgeProbe(p) = p \/ AgeProbe(p) = [p EXCEPT !.age = Older(p.age)]
  BY DEF AgeProbe
<1>5. /\ AgeProbe(p) \in P /\ AgeProbe(p).status = p.status
      /\ AgeProbe(p).age = p.age \/ AgeProbe(p).age = Older(p.age)
  BY <1>1, <1>3, <1>4
<1>6. ASSUME Expired(p)
      PROVE  /\ RequeueProbe(p) \in P /\ RequeueProbe(p).status = "untested"
             /\ p.status = "available" /\ p.age >= Ttl
  <2>1. RequeueProbe(p) = [p EXCEPT !.status = "untested", !.age = 0]
    BY <1>6 DEF RequeueProbe
  <2> QED
    BY <1>2, <1>6, <2>1 DEF Expired
<1>7. ASSUME ~Expired(p)
      PROVE  RequeueProbe(p) = p
  BY <1>7 DEF RequeueProbe
<1> QED
  BY <1>5, <1>6, <1>7

\* Results expire: the ages of the probe and of the targets are so close that what is
\* left of them when the probe has gone goes with the next tick.
LEMMA Requeueing ==
  ASSUME RowInv, NEW tick \in {0, 2, 3}, RequeueExpiredAvailable(tick)
  PROVE  RowInv'
<1> DEFINE before == IF tick = 0 THEN probe ELSE AgeProbe(probe)
<1>1. /\ Exists /\ UNCHANGED id
      /\ probe' = RequeueProbe(before)
      /\ IF Rows(target) = {} THEN UNCHANGED <<root, rewritten>>
         ELSE root' = [root EXCEPT !.status = Aggregate(target')] /\ rewritten' = FALSE
  BY DEF RequeueExpiredAvailable
<1>2. target \in [Targets -> RowTypes] /\ shadow \in [Targets -> RowTypes]
  BY DEF RowInv, StoreTypes
<1>3. target' = IF tick = 0 THEN RequeueRows(target) ELSE AgeRows(RequeueRows(target))
  BY DEF RequeueExpiredAvailable, Aged
<1>4. shadow' = CASE tick = 0 -> RequeueRows(shadow)
                 [] tick = 2 -> RequeueRows(AgeRows(shadow))
                 [] tick = 3 -> AgeRows(RequeueRows(shadow))
  BY DEF RequeueExpiredAvailable, Aged
<1>5. /\ RequeueRows(target) \in [Targets -> RowTypes]
      /\ target' \in [Targets -> RowTypes] /\ shadow' \in [Targets -> RowTypes]
  BY <1>2, <1>3, <1>4, Requeued, Ages
<1>6. ASSUME NEW t \in Targets, target'[t].status = "available"
      PROVE  /\ target[t].status = "available" /\ target[t].age \in 0 .. Ttl - 1
             /\ target'[t].age = IF tick = 0 THEN target[t].age ELSE target[t].age + 1
  <2>1. target[t].age \in 0 .. Ttl
    BY <1>2 DEF RowTypes
  <2>2. RequeueRows(target)[t].status = "available"
    BY <1>3, <1>5, <1>6, Ages
  <2>3. RequeueRows(target)[t] = target[t] /\ target[t].age < Ttl
    BY <1>2, <2>2, Requeued
  <2>4. tick # 0 => target'[t].age = Older(target[t].age)
    BY <1>3, <1>5, <2>2, <2>3, Ages
  <2> QED
    BY <1>3, <2>1, <2>2, <2>3, <2>4 DEF Older
<1>7. probe \in [status : Stored, base : BOOLEAN, failures : 0 .. 2, age : 0 .. Ttl]
  BY DEF RowInv, StoreTypes
<1>8. /\ before \in [status : Stored, base : BOOLEAN, failures : 0 .. 2, age : 0 .. Ttl]
      /\ before.status = probe.status
      /\ before.age <= IF tick = 0 THEN probe.age ELSE probe.age + 1
  <2>1. Older(probe.age) <= probe.age + 1 /\ probe.age \in 0 .. Ttl
    BY <1>7 DEF Older
  <2>2. CASE tick = 0
    BY <1>7, <2>1, <2>2
  <2>3. CASE tick # 0
    <3>1. before = AgeProbe(probe)
      BY <2>3
    <3> HIDE DEF before
    <3>2. /\ before \in [status : Stored, base : BOOLEAN, failures : 0 .. 2, age : 0 .. Ttl]
          /\ before.status = probe.status
          /\ before.age = probe.age \/ before.age = Older(probe.age)
      BY <1>7, <3>1, ProbeAges
    <3>3. before.age <= probe.age + 1
      BY <2>1, <3>2
    <3> QED
      BY <2>3, <3>2, <3>3
  <2> QED
    BY <2>2, <2>3
<1> HIDE DEF before
<1>9. probe' \in [status : Stored, base : BOOLEAN, failures : 0 .. 2, age : 0 .. Ttl]
  BY <1>1, <1>8, ProbeAges
<1>10. root' \in [status : Stored, failed : BOOLEAN] /\ rewritten' \in BOOLEAN
  <2>1. root \in [status : Stored, failed : BOOLEAN] /\ rewritten \in BOOLEAN
    BY DEF RowInv, StoreTypes
  <2>2. Aggregate(target') \in Stored
    BY AggregateType
  <2> QED
    BY <1>1, <2>1, <2>2
<1>11. StoreTypes'
  BY <1>1, <1>5, <1>9, <1>10 DEF StoreTypes, Exists
<1>12. ASSUME NEW t \in Targets
       PROVE  /\ Paired(target'[t], shadow'[t])
              /\ target'[t].status = "no row" <=> target[t].status = "no row"
  <2>1. Paired(target[t], shadow[t])
    BY DEF RowInv, ShadowInv
  <2>2. /\ Paired(RequeueRows(target)[t], RequeueRows(shadow)[t])
        /\ Paired(AgeRows(RequeueRows(target))[t], RequeueRows(AgeRows(shadow))[t])
        /\ Paired(AgeRows(RequeueRows(target))[t], AgeRows(RequeueRows(shadow))[t])
        /\ RequeueRows(target)[t].status = "no row" <=> target[t].status = "no row"
        /\ AgeRows(RequeueRows(target))[t].status = "no row" <=> target[t].status = "no row"
    BY <1>2, <2>1, PairedRequeued
  <2>3. CASE tick = 0
    <3>1. target' = RequeueRows(target) /\ shadow' = RequeueRows(shadow)
      BY <1>3, <1>4, <2>3
    <3> QED
      BY <2>2, <3>1, Zenon
  <2>4. CASE tick = 2
    <3>1. target' = AgeRows(RequeueRows(target)) /\ shadow' = RequeueRows(AgeRows(shadow))
      BY <1>3, <1>4, <2>4
    <3> QED
      BY <2>2, <3>1, Zenon
  <2>5. CASE tick = 3
    <3>1. target' = AgeRows(RequeueRows(target)) /\ shadow' = AgeRows(RequeueRows(shadow))
      BY <1>3, <1>4, <2>5
    <3> QED
      BY <2>2, <3>1, Zenon
  <2> QED
    BY <2>3, <2>4, <2>5
<1>13. RootInv'
  <2>1. ASSUME SomeAvailable'
        PROVE  SomeAvailable
    BY <1>6, <2>1 DEF SomeAvailable, IsAvailable
  <2>2. root'.failed = root.failed
    BY <1>1 DEF RowInv, StoreTypes
  <2>3. CASE Rows(target) = {}
    <3>1. \A t \in Targets : target[t].status = "no row" /\ shadow[t].status = "no row"
      BY <2>3, PairedNoRow DEF Rows, RowInv, ShadowInv
    <3>2. \A t \in Targets : target'[t].status = "no row" /\ shadow'[t].status = "no row"
      BY <1>12, <3>1, PairedNoRow
    <3>3. /\ Aggregate(target) = "untested" /\ Aggregate(shadow) = "untested"
          /\ Aggregate(target') = "untested" /\ Aggregate(shadow') = "untested"
      BY <3>1, <3>2, NoRows
    <3> QED
      BY <1>1, <2>1, <2>2, <2>3, <3>3 DEF RowInv, RootInv
  <2>4. CASE Rows(target) # {}
    <3>1. root'.status = Aggregate(target') /\ rewritten' = FALSE
      BY <1>1, <2>4 DEF RowInv, StoreTypes
    <3> QED
      BY <2>1, <2>2, <3>1 DEF RowInv, RootInv
  <2> QED
    BY <2>3, <2>4
<1>14. AgeInv'
  <2> SUFFICES ASSUME NEW t \in Targets, target'[t].status = "available"
               PROVE  /\ probe'.status = "untested" => target'[t].age >= Ttl - 1
                      /\ probe'.status = "available" => target'[t].age + 1 >= probe'.age
    BY DEF AgeInv, IsAvailable
  <2>1. /\ target[t].status = "available" /\ target[t].age \in 0 .. Ttl - 1
        /\ target'[t].age = IF tick = 0 THEN target[t].age ELSE target[t].age + 1
    BY <1>6
  <2>2. /\ probe.status = "untested" => target[t].age >= Ttl - 1
        /\ probe.status = "available" => target[t].age + 1 >= probe.age
    BY <2>1 DEF RowInv, AgeInv, IsAvailable
  <2>3. /\ probe'.status = "available" => probe' = before
        /\ probe'.status = "untested" =>
             probe.status = "untested" \/ (probe.status = "available" /\ before.age >= Ttl)
    BY <1>1, <1>8, ProbeAges
  <2>4. before.age \in Nat /\ probe.age \in Nat
    BY <1>7, <1>8
  <2> QED
    BY <1>8, <2>1, <2>2, <2>3, <2>4
<1>15. ShadowInv'
  BY <1>12 DEF ShadowInv
<1> QED
  BY <1>11, <1>13, <1>14, <1>15 DEF RowInv

LEMMA LastOfSome ==
  ASSUME NEW n \in Nat, NEW W \in SUBSET (1 .. n), W # {}
  PROVE  \E i \in W : \A j \in W : j <= i
<1> DEFINE upTo(i) == {j \in W : j >= i}
           T == {upTo(i) : i \in W}
           R == StrictSubsetOrdering(1 .. n)
<1>1. IsFiniteSet(1 .. n)
  BY FS_Interval
<1>2. FiniteSubsetsOf(1 .. n) = SUBSET (1 .. n)
  BY <1>1, FS_FiniteSubsetsOfFinite
<1>3. IsWellFoundedOn(R, SUBSET (1 .. n))
  BY <1>2, FS_StrictSubsetOrderingWellFounded
<1>4. T \subseteq SUBSET (1 .. n) /\ T # {}
  OBVIOUS
<1>5. \E x \in T : \A y \in T : ~(<<y, x>> \in R)
  <2> HIDE DEF T, R
  <2> QED
    BY <1>3, <1>4, WFMin
<1>6. PICK i \in W : \A j \in W : ~(<<upTo(j), upTo(i)>> \in R)
  BY <1>5
<1>7. ASSUME NEW j \in W, j > i
      PROVE  FALSE
  <2>1. upTo(j) \subseteq upTo(i) /\ i \in upTo(i) /\ i \notin upTo(j)
    <3>1. i \in W /\ i \in Int /\ j \in W /\ j \in Int /\ \A k \in W : k \in Int
      BY <1>6, <1>7
    <3>2. i >= i /\ ~(i >= j)
      BY <1>7, <3>1
    <3>3. ASSUME NEW k \in W, k >= j
          PROVE  k >= i
      BY <1>7, <3>1, <3>3
    <3> QED
      BY <3>1, <3>2, <3>3, Zenon
  <2>2. upTo(j) \in SUBSET (1 .. n) /\ upTo(i) \in SUBSET (1 .. n)
    OBVIOUS
  <2>3. <<upTo(j), upTo(i)>> \in R
    <3> HIDE DEF upTo
    <3> QED
      BY <2>1, <2>2 DEF StrictSubsetOrdering
  <2> QED
    BY <1>6, <2>3
<1> QED
  BY <1>6, <1>7

\* The results st of a plan are saved one after the other, W are those that write the
\* snapshot, and some target is available in the end.
SavedInTurn(n, plan, st, after, W) ==
  /\ n \in Nat /\ n >= 1 /\ plan \in [1 .. n -> Targets]
  /\ st \in [1 .. n -> {"available", "failed"}]
  /\ \A i \in 1 .. n : after[i][plan[i]].status = st[i]
  /\ \A i \in 1 .. n : \A t \in Targets :
       t # plan[i] => after[i][t].status = after[i - 1][t].status
  /\ W \in SUBSET (1 .. n)
  /\ \A i \in 1 .. n : i \in W <=> ~Preserves(plan[i], st[i], after[i - 1])
  /\ \E t \in Targets : after[n][t].status = "available"

\* The last one that writes the snapshot is no failure: no target would have been
\* available from there on.
LEMMA LastWriter ==
  ASSUME NEW n, NEW plan, NEW st, NEW after, NEW W, SavedInTurn(n, plan, st, after, W)
  PROVE  /\ W = {} => \E t \in Targets : after[0][t].status = "available"
         /\ \A last \in W : (\A j \in W : j <= last) => st[last] = "available"
<1> USE DEF SavedInTurn
<1>1. ASSUME NEW i \in 1 .. n, i \notin W
      PROVE  /\ st[i] = "failed"
             /\ \E o \in Targets : o # plan[i] /\ after[i - 1][o].status = "available"
  BY <1>1 DEF Preserves
<1>2. CASE W = {}
  <2>1. \E o \in Targets : after[0][o].status = "available"
    <3>1. 1 \in 1 .. n /\ 1 - 1 = 0
      OBVIOUS
    <3> QED
      BY <1>1, <1>2, <3>1
  <2> QED
    BY <1>2, <2>1
<1>3. ASSUME NEW last \in W, \A j \in W : j <= last
      PROVE  st[last] = "available"
  <2>3. last \in 1 .. n /\ ~Preserves(plan[last], st[last], after[last - 1])
    OBVIOUS
  <2>4. ASSUME st[last] # "available"
        PROVE  FALSE
    <3>1. st[last] = "failed"
      BY <2>3, <2>4
    <3>2. ASSUME NEW t \in Targets
          PROVE  after[last][t].status # "available"
      <4>1. CASE t = plan[last]
        BY <2>3, <3>1, <4>1
      <4>2. CASE t # plan[last]
        <5>1. after[last - 1][t].status # "available"
          BY <2>3, <3>1, <4>2 DEF Preserves
        <5> QED
          BY <2>3, <4>2, <5>1
      <4> QED
        BY <4>1, <4>2
    <3>3. CASE last = n
      BY <3>2, <3>3
    <3>4. CASE last # n
      <4>1. last + 1 \in 1 .. n /\ (last + 1) - 1 = last /\ last + 1 \notin W
        BY <1>3, <2>3, <3>4
      <4>2. \E o \in Targets : after[(last + 1) - 1][o].status = "available"
        BY <1>1, <4>1
      <4>3. \E o \in Targets : after[last][o].status = "available"
        BY <4>1, <4>2
      <4> QED
        BY <3>2, <4>3
    <3> QED
      BY <3>3, <3>4
  <2> QED
    BY <2>4
<1> QED
  BY <1>2, <1>3

LEMMA OutcomeTypes ==
  ASSUME NEW outcome \in Outcomes
  PROVE  \E n \in Nat : LET plan == outcome.plan IN
           /\ n >= 1 /\ plan \in [1 .. n -> Targets]
           /\ \A i, j \in 1 .. n : plan[i] = plan[j] => i = j
           /\ \A i \in 1 .. n : outcome.target[plan[i]] \in {"available", "failed"}
           /\ outcome.probe \in {"available", "failed"}
           /\ outcome.dead \in BOOLEAN
<1>1. PICK plan \in Plans : \E results \in Results(plan) : outcome = Summary(plan, results)
  BY DEF Outcomes
<1> PICK results \in Results(plan) : outcome = Summary(plan, results)
  BY <1>1
<1>2. Cardinality(Targets) \in Nat
  <2>1. IsFiniteSet(Named \union {Generic})
    BY FS_AddElement
  <2>2. Targets = Named \union {Generic}
    BY DEF Targets
  <2> QED
    BY <2>1, <2>2, FS_CardinalityType
<1>3. PICK n \in 1 .. Cardinality(Targets) :
        /\ plan \in [1 .. n -> Targets]
        /\ \A i, j \in DOMAIN plan : plan[i] = plan[j] => i = j
  BY <1>1 DEF Plans
<1>4. n \in Nat /\ n >= 1
  BY <1>2, <1>3
<1>5. \A i \in 1 .. n : plan[i] \in PlanTargets(plan)
  BY <1>3 DEF PlanTargets
<1>6. \A t : TargetStatus(t, results[t]) \in {"available", "failed"}
  BY Zenon DEF TargetStatus, NormalizeTargetStatus
<1>7. ProbeStatus(results[plan[1]]) \in {"available", "failed"}
  BY Zenon DEF ProbeStatus
<1>8. /\ outcome.plan = plan /\ outcome.probe = ProbeStatus(results[plan[1]])
      /\ outcome.dead \in BOOLEAN
      /\ \A t \in PlanTargets(plan) : outcome.target[t] = TargetStatus(t, results[t])
  BY DEF Summary
<1> QED
  BY <1>3, <1>4, <1>5, <1>6, <1>7, <1>8

LEMMA SavedTypes ==
  ASSUME NEW status \in {"available", "failed"}, NEW age \in {0, 1}, StoreTypes
  PROVE  /\ SavedRow(status, age) \in RowTypes
         /\ SavedRow(status, age).status = status /\ SavedRow(status, age).age \in {0, 1}
         /\ SavedProbe(status, age) \in
              [status : Stored, base : BOOLEAN, failures : 0 .. 2, age : 0 .. Ttl]
         /\ SavedProbe(status, age).status = status
         /\ SavedProbe(status, age).age <= 1
<1> DEFINE P == [status : Stored, base : BOOLEAN, failures : 0 .. 2, age : 0 .. Ttl]
<1>1. status \in Stored /\ age \in 0 .. Ttl /\ 0 \in 0 .. Ttl /\ 0 \in 0 .. 2
  BY DEF Stored
<1>2. /\ SavedRow(status, age) \in RowTypes /\ SavedRow(status, age).status = status
      /\ SavedRow(status, age).age \in {0, 1}
  BY <1>1 DEF SavedRow, RowTypes
<1>3. probe.failures \in 0 .. 2
  BY DEF StoreTypes
<1> DEFINE failures == IF probe.failures < 2 THEN probe.failures + 1 ELSE 2
<1>4. failures \in 0 .. 2
  BY <1>3
<1> HIDE DEF failures
<1>5. CASE status = "available"
  <2>1. SavedProbe(status, age) = [status |-> status, base |-> TRUE, failures |-> 0, age |-> age]
    BY <1>5 DEF SavedProbe
  <2>2. age <= 1
    OBVIOUS
  <2>3. [status |-> status, base |-> TRUE, failures |-> 0, age |-> age] \in P
    BY <1>1
  <2> QED
    BY <1>2, <2>1, <2>2, <2>3
<1>6. CASE status = "failed"
  <2>1. SavedProbe(status, age) =
          [status |-> status, base |-> FALSE, age |-> 0, failures |-> failures]
    BY <1>6 DEF SavedProbe, failures
  <2>2. [status |-> status, base |-> FALSE, age |-> 0, failures |-> failures] \in P
    BY <1>1, <1>4
  <2> QED
    BY <1>2, <2>1, <2>2
<1> QED
  BY <1>2, <1>5, <1>6

\* A result is saved: whichever targets the plan has and in which order.
LEMMA Saving ==
  ASSUME RowInv, Exists, NEW outcome \in Outcomes, NEW tick, Save(outcome, tick)
  PROVE  RowInv'
<1> DEFINE plan == check.plan
           m == Len(plan)
           status(i) == outcome.target[plan[i]]
           pos(t) == CHOOSE i \in 1 .. m : plan[i] = t
           inPlan(t) == \E i \in 1 .. m : plan[i] = t
           after(i) == [t \in Targets |->
                          IF inPlan(t) /\ pos(t) <= i THEN [status |-> status(pos(t)), age |-> 0]
                          ELSE target[t]]
           W == {i \in 1 .. m : ~Preserves(plan[i], status(i), after(i - 1))}
<1>1. /\ outcome.plan = plan /\ Exists /\ UNCHANGED id
      /\ SaveTargets(plan, outcome, tick)
      /\ probe' = SavedProbe(outcome.probe, WrittenAt(1, tick)) /\ rewritten' = FALSE
  BY DEF Save
<1>2. PICK n \in Nat :
        /\ n >= 1 /\ plan \in [1 .. n -> Targets]
        /\ \A i, j \in 1 .. n : plan[i] = plan[j] => i = j
        /\ \A i \in 1 .. n : status(i) \in {"available", "failed"}
        /\ outcome.probe \in {"available", "failed"}
  BY <1>1, OutcomeTypes
<1>3. m = n
  BY <1>2
<1>4. target' = [t \in Targets |->
        IF inPlan(t) THEN SavedRow(status(pos(t)), WrittenAt(2 * pos(t), tick))
        ELSE Aged(target, tick)[t]]
  BY <1>1 DEF SaveTargets
<1>5. shadow' = [t \in Targets |->
        IF inPlan(t) THEN SavedRow(status(pos(t)), WrittenAt(2 * pos(t) + 1, tick))
        ELSE Aged(shadow, tick)[t]]
  BY <1>1 DEF SaveTargets
<1>6. root' = [status |-> Aggregate(target'),
               failed |-> IF W = {} THEN root.failed
                          ELSE status(CHOOSE i \in W : \A j \in W : j <= i) = "failed"]
  BY <1>1 DEF SaveTargets
<1>7. target \in [Targets -> RowTypes] /\ shadow \in [Targets -> RowTypes] /\ StoreTypes
  BY DEF RowInv, StoreTypes
<1>8. /\ Aged(target, tick) \in [Targets -> RowTypes] /\ Aged(shadow, tick) \in [Targets -> RowTypes]
      /\ \A t \in Targets : Aged(target, tick)[t].status = target[t].status
  BY <1>7, Ages DEF Aged
<1>9. \A t \in Targets : inPlan(t) => pos(t) \in 1 .. n /\ plan[pos(t)] = t
  BY <1>3
<1>10. \A i \in 1 .. n : inPlan(plan[i]) /\ pos(plan[i]) = i
  BY <1>2, <1>3
<1>11. \A i : WrittenAt(i, tick) \in {0, 1}
  BY DEF WrittenAt
<1>12. ASSUME NEW t \in Targets
       PROVE  /\ target'[t] \in RowTypes /\ shadow'[t] \in RowTypes
              /\ target'[t].status = after(n)[t].status
              /\ Paired(target'[t], shadow'[t])
  <2>1. CASE inPlan(t)
    <3>1. pos(t) \in 1 .. n /\ status(pos(t)) \in {"available", "failed"}
      BY <1>2, <1>9, <2>1
    <3>2. /\ target'[t] = SavedRow(status(pos(t)), WrittenAt(2 * pos(t), tick))
          /\ shadow'[t] = SavedRow(status(pos(t)), WrittenAt(2 * pos(t) + 1, tick))
      BY <1>4, <1>5, <2>1
    <3>3. after(n)[t] = [status |-> status(pos(t)), age |-> 0]
      BY <2>1, <3>1
    <3>4. after(n)[t].status = status(pos(t))
      BY <3>3
    <3>5. ASSUME NEW s \in {"available", "failed"}, NEW i
          PROVE  /\ SavedRow(s, WrittenAt(i, tick)) \in RowTypes
                 /\ SavedRow(s, WrittenAt(i, tick)).status = s
                 /\ SavedRow(s, WrittenAt(i, tick)).age \in {0, 1}
      <4>1. WrittenAt(i, tick) \in {0, 1}
        BY <1>11
      <4> HIDE DEF status, pos, inPlan, after, m, plan
      <4> QED
        BY <1>7, <4>1, SavedTypes
    <3>6. /\ target'[t] \in RowTypes /\ target'[t].status = status(pos(t))
          /\ shadow'[t] \in RowTypes /\ shadow'[t].status = status(pos(t))
          /\ target'[t].age \in {0, 1} /\ shadow'[t].age \in {0, 1}
      <4> HIDE DEF status, pos, inPlan, after, m, plan
      <4> QED
        BY <3>1, <3>2, <3>5, Zenon
    <3>7. Paired(target'[t], shadow'[t])
      BY <3>6 DEF Paired
    <3> QED
      BY <3>4, <3>6, <3>7, Zenon
  <2>2. CASE ~inPlan(t)
    <3>1. /\ target'[t] = Aged(target, tick)[t] /\ shadow'[t] = Aged(shadow, tick)[t]
          /\ after(n)[t] = target[t]
      BY <1>4, <1>5, <2>2
    <3>2. Paired(target'[t], shadow'[t])
      <4>1. Paired(target[t], shadow[t])
        BY DEF RowInv, ShadowInv
      <4> QED
        BY <1>7, <3>1, <4>1, PairedAges DEF Aged
    <3> QED
      BY <1>8, <3>1, <3>2
  <2> QED
    BY <2>1, <2>2
<1>13. target' \in [Targets -> RowTypes] /\ shadow' \in [Targets -> RowTypes]
  BY <1>4, <1>5, <1>12
<1>14. /\ probe' \in [status : Stored, base : BOOLEAN, failures : 0 .. 2, age : 0 .. Ttl]
       /\ probe'.status # "untested" /\ probe'.age <= 1
  BY <1>1, <1>2, <1>7, <1>11, SavedTypes
<1>15. root.failed \in BOOLEAN
  BY <1>7 DEF StoreTypes
<1>16. root' \in [status : Stored, failed : BOOLEAN]
  BY <1>6, <1>15, AggregateType
<1>17. StoreTypes'
  BY <1>1, <1>13, <1>14, <1>16 DEF StoreTypes, Exists
<1>18. AgeInv'
  <2> SUFFICES ASSUME NEW t \in Targets, target'[t].status = "available"
               PROVE  /\ probe'.status = "untested" => target'[t].age >= Ttl - 1
                      /\ probe'.status = "available" => target'[t].age + 1 >= probe'.age
    BY DEF AgeInv, IsAvailable
  <2>1. target'[t].age \in Nat /\ probe'.age \in Nat
    <3>1. target'[t].age \in 0 .. Ttl
      BY <1>13 DEF RowTypes
    <3> QED
      BY <1>14, <3>1
  <2> QED
    BY <1>14, <2>1
<1>19. ASSUME NEW i \in 0 .. n, NEW t \in Targets
       PROVE  after(i)[t] = IF inPlan(t) /\ pos(t) <= i
                            THEN [status |-> status(pos(t)), age |-> 0] ELSE target[t]
  OBVIOUS
<1>20. RootInv'
  <2> DEFINE st == [i \in 1 .. n |-> status(i)]
             all == [i \in 0 .. n |-> after(i)]
             V == {i \in 1 .. n : ~Preserves(plan[i], st[i], all[i - 1])}
             last == CHOOSE i \in W : \A j \in W : j <= i
  <2> HIDE DEF after, inPlan, pos, plan
  <2>1. ASSUME SomeAvailable'
        PROVE  ~root'.failed
    <3>1. \E t \in Targets : all[n][t].status = "available"
      <4>1. all[n] = after(n)
        BY <1>2
      <4> QED
        BY <1>12, <2>1, <4>1 DEF SomeAvailable, IsAvailable
    <3>2. st \in [1 .. n -> {"available", "failed"}]
      BY <1>2
    <3>3. ASSUME NEW i \in 1 .. n
          PROVE  all[i][plan[i]].status = st[i]
      <4>1. plan[i] \in Targets /\ inPlan(plan[i]) /\ pos(plan[i]) = i /\ all[i] = after(i)
        BY <1>2, <1>10
      <4>2. i \in 0 .. n /\ pos(plan[i]) <= i
        BY <4>1
      <4>3. after(i)[plan[i]] = [status |-> status(i), age |-> 0]
        BY <1>19, <4>1, <4>2
      <4>4. [status |-> status(i), age |-> 0].status = status(i) /\ st[i] = status(i)
        OBVIOUS
      <4> QED
        BY <4>1, <4>3, <4>4, Zenon
    <3>4. ASSUME NEW i \in 1 .. n, NEW t \in Targets, t # plan[i]
          PROVE  all[i][t].status = all[i - 1][t].status
      <4>1. /\ i \in 0 .. n /\ i - 1 \in 0 .. n
            /\ all[i] = after(i) /\ all[i - 1] = after(i - 1)
        BY <1>2
      <4>2. inPlan(t) => (pos(t) <= i <=> pos(t) <= i - 1)
        BY <1>9, <3>4
      <4>3. after(i)[t] = after(i - 1)[t]
        BY <1>19, <4>1, <4>2
      <4> QED
        BY <4>1, <4>3
    <3>5. V = W
      <4>1. \A i \in 1 .. n : st[i] = status(i) /\ all[i - 1] = after(i - 1)
        BY <1>2
      <4> QED
        BY <1>3, <4>1
    <3>6. /\ W = {} => \E t \in Targets : all[0][t].status = "available"
          /\ \A i \in W : (\A j \in W : j <= i) => st[i] = "available"
      <4>1. /\ W \in SUBSET (1 .. n)
            /\ \A i \in 1 .. n : i \in W <=> ~Preserves(plan[i], st[i], all[i - 1])
        BY <1>3, <3>5
      <4> HIDE DEF st, all, V, W
      <4>2. n \in Nat /\ n >= 1 /\ plan \in [1 .. n -> Targets]
        BY <1>2
      <4>3. /\ \A i \in 1 .. n : all[i][plan[i]].status = st[i]
            /\ \A i \in 1 .. n : \A t \in Targets :
                 t # plan[i] => all[i][t].status = all[i - 1][t].status
        BY <3>3, <3>4
      <4>4. SavedInTurn(n, plan, st, all, W)
        BY <3>1, <3>2, <4>1, <4>2, <4>3 DEF SavedInTurn
      <4> QED
        BY <4>4, LastWriter
    <3>7. CASE W = {}
      <4>1. ASSUME NEW t \in Targets
            PROVE  all[0][t] = target[t]
        <5>1. 0 \in 0 .. n /\ all[0] = after(0)
          BY <1>2
        <5>2. ~(inPlan(t) /\ pos(t) <= 0)
          BY <1>9
        <5> QED
          BY <1>19, <5>1, <5>2
      <4>2. SomeAvailable
        BY <3>6, <3>7, <4>1 DEF SomeAvailable, IsAvailable
      <4> QED
        BY <1>6, <3>7, <4>2 DEF RowInv, RootInv
    <3>8. CASE W # {}
      <4>1. last \in 1 .. n /\ last \in W /\ \A j \in W : j <= last
        BY <1>3, <3>8, LastOfSome
      <4>2. status(last) = "available"
        BY <3>6, <3>8, <4>1
      <4> QED
        BY <1>6, <3>8, <4>2
    <3> QED
      BY <3>7, <3>8
  <2>2. root'.status = Aggregate(target') /\ rewritten' = FALSE
    BY <1>1, <1>6
  <2> QED
    BY <2>1, <2>2 DEF RootInv
<1>21. ShadowInv'
  BY <1>12 DEF ShadowInv
<1> QED
  BY <1>17, <1>18, <1>20, <1>21 DEF RowInv

-----------------------------------------------------------------------------
(* The steps *)

LEMMA Committing ==
  ASSUME StatsInv, NEW actor, Commits(actor)
  PROVE  StatsInv'
<1>1. committed' # {}
  BY DEF Commits
<1>2. stats' \in {"idle", "reading", "reading old"}
  BY DEF StatsInv, Commits
<1> QED
  BY <1>1, <1>2 DEF StatsInv

LEMMA Deleting ==
  ASSUME IdInv, DeleteRow, check' = check \/ check' = NoCheck
  PROVE  RowInv' /\ IdInv'
<1>1. RowInv'
  BY Blank DEF DeleteRow
<1>2. NoCheck \in [pc : {"none", "checking", "saved"}, id : Nat,
                   plan : Plans \union {<<>>}, dead : BOOLEAN] /\ NoCheck.pc = "none"
  BY DEF NoCheck, NoId
<1>3. id' = NoId /\ origin' = NoId /\ lastId' = lastId /\ NoId \in Nat
  BY DEF DeleteRow, NoId
<1>4. IdInv'
  BY <1>2, <1>3 DEF IdInv
<1> QED
  BY <1>1, <1>4

\* A step that touches no row.
LEMMA Aside ==
  ASSUME RowInv, UNCHANGED row
  PROVE  RowInv'
<1>1. UNCHANGED <<id, root, probe, target, shadow, rewritten>>
  BY DEF row
<1>2. StoreTypes'
  BY <1>1 DEF RowInv, StoreTypes
<1>3. RootInv'
  BY <1>1 DEF RowInv, RootInv, SomeAvailable, IsAvailable
<1>4. AgeInv'
  BY <1>1 DEF RowInv, AgeInv, IsAvailable
<1>5. ShadowInv'
  BY <1>1 DEF RowInv, ShadowInv
<1> QED
  BY <1>2, <1>3, <1>4, <1>5 DEF RowInv

\* A start takes the status from the other table.
LEMMA Starting ==
  ASSUME RowInv, Restart
  PROVE  RowInv'
<1>1. /\ UNCHANGED <<id, probe, target, shadow>>
      /\ IF Rows(shadow) = {} THEN UNCHANGED <<root, rewritten>>
         ELSE root' = [root EXCEPT !.status = Aggregate(shadow)] /\ rewritten' = TRUE
  BY DEF Restart
<1>2. CASE Rows(shadow) = {}
  BY <1>1, <1>2, Aside DEF Restart, row
<1>3. CASE Rows(shadow) # {}
  <2>1. /\ root' \in [status : Stored, failed : BOOLEAN]
        /\ root'.status = Aggregate(shadow) /\ root'.failed = root.failed
    BY <1>1, <1>3, AggregateType DEF RowInv, StoreTypes
  <2>2. StoreTypes'
    BY <1>1, <1>3, <2>1 DEF RowInv, StoreTypes
  <2>3. RootInv'
    BY <1>1, <1>3, <2>1 DEF RowInv, RootInv, SomeAvailable, IsAvailable
  <2>4. AgeInv'
    BY <1>1 DEF RowInv, AgeInv, IsAvailable
  <2>5. ShadowInv'
    BY <1>1 DEF RowInv, ShadowInv
  <2> QED
    BY <2>2, <2>3, <2>4, <2>5 DEF RowInv
<1> QED
  BY <1>2, <1>3

LEMMA Initially ==
  ASSUME Init
  PROVE  IInv
<1>1. StoreTypes
  BY NothingStored, NewRecords DEF Init, StoreTypes
<1>2. \A t \in Targets : ~IsAvailable(t)
  BY NothingStored DEF Init, IsAvailable
<1>3. RowInv
  <2>1. ShadowInv
    BY NothingStored DEF Init, ShadowInv, Paired
  <2> QED
    BY <1>1, <1>2, <2>1, NothingStored, NewRecords
      DEF Init, RowInv, RootInv, AgeInv, SomeAvailable
<1>4. IdInv
  BY DEF Init, IdInv, NoCheck, NoId
<1>5. StatsInv
  BY DEF Init, StatsInv
<1> QED
  BY <1>3, <1>4, <1>5 DEF IInv

LEMMA Steps ==
  ASSUME IInv, [Next]_vars
  PROVE  IInv'
<1> USE DEF IInv
<1>0. NoCheck \in [pc : {"none", "checking", "saved"}, id : Nat,
                   plan : Plans \union {<<>>}, dead : BOOLEAN] /\ NoCheck.pc = "none"
  BY DEF NoCheck, NoId
<1>1. CASE UNCHANGED vars
  <2>1. RowInv'
    BY <1>1, Aside DEF vars
  <2>2. StatsInv' /\ IdInv'
    BY <1>1 DEF vars, row, StatsInv, IdInv
  <2> QED
    BY <2>1, <2>2
<1>2. CASE Tick
  <2>1. RowInv'
    BY <1>2, Ticking
  <2>2. StatsInv' /\ IdInv'
    BY <1>2 DEF Tick, StatsInv, IdInv
  <2> QED
    BY <2>1, <2>2
<1>3. ASSUME NEW actor, InvalidateStats(actor)
      PROVE  IInv'
  <2>1. RowInv'
    BY <1>3, Aside DEF InvalidateStats
  <2>2. StatsInv' /\ IdInv'
    BY <1>3 DEF InvalidateStats, row, StatsInv, IdInv
  <2> QED
    BY <2>1, <2>2
<1>4. CASE StatsBegins \/ StatsEnds \/ StatsFails
  <2>1. UNCHANGED row /\ UNCHANGED check
    BY <1>4 DEF StatsBegins, StatsEnds, StatsFails
  <2>2. RowInv'
    BY <2>1, Aside
  <2>3. IdInv'
    BY <2>1 DEF row, IdInv
  <2>4. StatsInv'
    BY <1>4 DEF StatsBegins, StatsEnds, StatsFails, StatsInv
  <2> QED
    BY <2>2, <2>3, <2>4
<1>5. CASE Import
  <2>1. target = NoTargets /\ UNCHANGED <<target, check>>
    BY <1>5 DEF Import, Exists, RowInv, StoreTypes
  <2>2. /\ id' = NextId /\ lastId' = NextId /\ origin' = NextId
        /\ root' = NewRoot /\ probe' = NewProbe /\ rewritten' = FALSE
        /\ Commits("operator") /\ shadow' = shadow
    BY <1>5 DEF Import
  <2>3. NextId \in Nat /\ NextId # NoId
    BY DEF IdInv, NextId, NoId
  <2>4. StatsInv'
    BY <2>2, Committing
  <2>5. IdInv'
    BY <2>1, <2>2, <2>3 DEF IdInv
  <2>6. RowInv'
    <3>1. shadow' \in [Targets -> RowTypes]
      BY <1>5 DEF Import, RowInv, StoreTypes
    <3>2. StoreTypes'
      BY <2>1, <2>2, <2>3, <3>1, NothingStored, NewRecords DEF StoreTypes
    <3>3. \A t \in Targets : ~IsAvailable(t)'
      BY <2>1, NothingStored DEF IsAvailable
    <3>4. RootInv'
      BY <2>1, <2>2, <3>3, NothingStored, NewRecords DEF RootInv, SomeAvailable
    <3>5. ShadowInv'
      BY <2>1, <2>2 DEF RowInv, ShadowInv
    <3> QED
      BY <3>2, <3>3, <3>4, <3>5 DEF RowInv, AgeInv
  <2> QED
    BY <2>4, <2>5, <2>6
<1>6. ASSUME NEW actor, Commits(actor), DeleteRow, check' = check \/ check' = NoCheck
      PROVE  IInv'
  BY <1>6, Committing, Deleting
<1>7. ASSUME NEW s, DeleteProxiesByStatus(s)
      PROVE  IInv'
  BY <1>6, <1>7 DEF DeleteProxiesByStatus
<1>8. CASE DeleteFailedProxies \/ DeleteExpiredUntested
  BY <1>6, <1>8 DEF DeleteFailedProxies, DeleteExpiredUntested
<1>9. ASSUME NEW tick \in {0, 2, 3}, RequeueExpiredAvailable(tick)
      PROVE  IInv'
  <2>1. RowInv'
    BY <1>9, Requeueing
  <2>2. Commits("operator") /\ UNCHANGED <<id, lastId, origin, check>>
    BY <1>9 DEF RequeueExpiredAvailable
  <2>3. StatsInv' /\ IdInv'
    BY <2>2, Committing DEF IdInv
  <2> QED
    BY <2>1, <2>3
<1>10. ASSUME NEW plan \in Plans, BeginCheck(plan)
       PROVE  IInv'
  <2>1. RowInv'
    BY <1>10, Aside DEF BeginCheck
  <2>2. /\ check' = [pc |-> "checking", id |-> id, plan |-> plan, dead |-> FALSE]
        /\ id # NoId /\ UNCHANGED <<row, committed, stats, cache>>
    BY <1>10 DEF BeginCheck, Exists
  <2>3. StatsInv'
    BY <2>2 DEF StatsInv
  <2>4. IdInv'
    BY <2>2 DEF IdInv, row
  <2> QED
    BY <2>1, <2>3, <2>4
<1>11. CASE CheckDropped \/ SaveFails \/ KeepAfterCheck
  <2>1. check' = NoCheck /\ UNCHANGED <<row, committed, stats, cache>>
    BY <1>11 DEF CheckDropped, SaveFails, KeepAfterCheck
  <2>2. RowInv'
    BY <2>1, Aside
  <2>3. StatsInv'
    BY <2>1 DEF StatsInv
  <2>4. IdInv'
    BY <1>0, <2>1 DEF IdInv, row
  <2> QED
    BY <2>2, <2>3, <2>4
<1>12. ASSUME NEW outcome \in Outcomes, NEW tick, Save(outcome, tick)
       PROVE  IInv'
  <2>1. /\ check.pc = "checking" /\ id = check.id /\ Commits("check")
        /\ origin' = check.id /\ UNCHANGED <<id, lastId>>
        /\ check' = [check EXCEPT !.pc = "saved", !.dead = TRUE] \/ check' = NoCheck
    BY <1>12 DEF Save, RowOfCheck
  <2>2. Exists
    BY <2>1 DEF IdInv, Exists
  <2>3. RowInv'
    BY <1>12, <2>2, Saving
  <2>4. StatsInv'
    BY <2>1, Committing
  <2>5. check' \in [pc : {"none", "checking", "saved"}, id : Nat,
                    plan : Plans \union {<<>>}, dead : BOOLEAN]
        /\ (check'.pc # "none" => check'.id # NoId)
    <3>1. CASE check' = NoCheck
      BY <1>0, <3>1
    <3>2. CASE check' = [check EXCEPT !.pc = "saved", !.dead = TRUE]
      BY <2>1, <3>2 DEF IdInv
    <3> QED
      BY <2>1, <3>1, <3>2
  <2>6. IdInv'
    BY <2>1, <2>5 DEF IdInv
  <2> QED
    BY <2>3, <2>4, <2>6
<1>13. CASE DeleteAfterCheck
  BY <1>6, <1>13 DEF DeleteAfterCheck
<1>14. CASE Restart
  <2>1. /\ check' = NoCheck /\ committed' = {} /\ stats' = "idle" /\ cache' = "none"
        /\ UNCHANGED <<id, lastId, origin>>
    BY <1>14 DEF Restart
  <2>2. StatsInv'
    BY <2>1 DEF StatsInv
  <2>3. IdInv'
    BY <1>0, <2>1 DEF IdInv
  <2>4. RowInv'
    BY <1>14, Starting
  <2> QED
    BY <2>2, <2>3, <2>4
<1> QED
  BY <1>1, <1>2, <1>3, <1>4, <1>5, <1>7, <1>8, <1>9, <1>10, <1>11, <1>12, <1>13, <1>14
    DEF Next

\* The strengthening, which every step keeps: the tables, the cached statistics and the
\* ids of the row and of its check.
THEOREM Invariance == Spec => []IInv
<1>1. Init => IInv
  BY Initially
<1>2. IInv /\ [Next]_vars => IInv'
  BY Steps
<1> QED
  BY <1>1, <1>2, PTL DEF Spec

\* The status of a proxy, in the lists, is that of its targets, but after a start that
\* came between the expiry of a result in one table and in the other; and its snapshot
\* is that of a success while a target is available: for any number of targets, saved in
\* any order, with a tick of the clock between any two statements of a transaction and a
\* crash between any two transactions.
THEOREM Summarised == Spec => []RootAgrees
<1>1. ASSUME IInv, root.status # Aggregate(target)
      PROVE  \E t \in Targets : Astride(t)
  <2>1. root.status = Aggregate(shadow)
    BY <1>1 DEF IInv, RowInv, RootInv
  <2>2. PICK t \in Targets : target[t].status # shadow[t].status
    BY <1>1, <2>1, SameAggregate
  <2>3. Paired(target[t], shadow[t])
    BY <1>1 DEF IInv, RowInv, ShadowInv
  <2> QED
    BY <2>2, <2>3 DEF Paired, Expiring, Astride, IsAvailable
<1>2. IInv => RootAgrees
  BY <1>1 DEF IInv, RowInv, RootInv, RootAgrees
<1> QED
  BY <1>2, Invariance, PTL

\* No result of a check reaches a row that was not the one checked.
THEOREM OwnResults == Spec => []ResultForItsRow
<1>1. IInv => ResultForItsRow
  BY DEF IInv, IdInv, ResultForItsRow
<1> QED
  BY <1>1, Invariance, PTL

\* What is deleted as untested has nothing available that does not expire at once.
THEOREM Untested == Spec => []UntestedMeansNoneAvailable
<1>1. IInv => UntestedMeansNoneAvailable
  BY DEF IInv, RowInv, AgeInv, UntestedMeansNoneAvailable
<1> QED
  BY <1>1, Invariance, PTL

\* What is stored of a check is sound for any number of rounds, targets and plans.
THEOREM SoundOutcome == Spec => []OutcomeSound
<1>1. IInv => OutcomeSound
  <2> SUFFICES ASSUME IInv, check.pc = "checking"
               PROVE  PlanTargets(check.plan) \subseteq Targets
    BY AllSound DEF OutcomeSound
  <2>1. check.plan \in Plans \union {<<>>}
    BY DEF IInv, IdInv
  <2>2. \A i \in DOMAIN check.plan : check.plan[i] \in Targets
    BY <2>1 DEF Plans
  <2> QED
    BY <2>2 DEF PlanTargets
<1> QED
  BY <1>1, Invariance, PTL

\* No statistics older than the store are cached behind the last invalidation.
THEOREM Current == Spec => []StatsCurrent
<1>1. IInv => StatsCurrent
  BY DEF IInv, StatsInv, StatsCurrent
<1> QED
  BY <1>1, Invariance, PTL
=============================================================================
