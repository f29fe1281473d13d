--------------------------- MODULE GeoEnricherProofs ---------------------------
(***************************************************************************)
(* Theorems of GeoEnricher, for any addresses, checks, queue and times.    *)
(*                                                                         *)
(* IInv adds to PendingExact where the processes are: the worker has an    *)
(* address exactly while it processes one, and a check while it looks one  *)
(* up. The lemmas on sequences say what the worker and the checks do to    *)
(* the set of queued addresses.                                            *)
(***************************************************************************)
EXTENDS GeoEnricher, TLAPS

USE GeoAssumption
USE DEF vars

WorkPlaces == {"look", "rate", "ask", "local", "unpend"}
CheckPlaces == {"wait", "read", "local", "flag", "push", "unflag", "ready"}

TypeOK ==
  /\ pending \subseteq Ips /\ queue \in Seq(Ips) /\ work \in Ips \union {NoIp}
  /\ rest \in Nat /\ stopped \in BOOLEAN
  /\ kept \in [Ips -> Nat]
  /\ pc \in [Procs -> {"idle", "select", "ended"} \union WorkPlaces \union CheckPlaces]
  /\ exit \in [Checks -> Ips \union {NoIp}]

Placed ==
  /\ pc[Worker] \in WorkPlaces => work \in Ips
  /\ pc[Worker] \notin WorkPlaces => work = NoIp
  /\ \A c \in Checks : pc[c] \in CheckPlaces => exit[c] \in Ips

\* The worker has seen that the entry has expired, and nobody else writes entries.
WillAsk == pc[Worker] = "rate" => Due(work)

-----------------------------------------------------------------------------
(* The queue *)

LEMMA Appended ==
  ASSUME NEW s \in Seq(Ips), NEW i \in Ips
  PROVE  /\ Append(s, i) \in Seq(Ips)
         /\ ToSet(Append(s, i)) = ToSet(s) \union {i}
         /\ IsInjective(s) /\ i \notin ToSet(s) => IsInjective(Append(s, i))
<1>1. /\ Append(s, i) \in Seq(Ips)
      /\ DOMAIN Append(s, i) = 1 .. Len(s) + 1
      /\ Append(s, i)[Len(s) + 1] = i
      /\ \A k \in 1 .. Len(s) : Append(s, i)[k] = s[k]
  OBVIOUS
<1>2. DOMAIN s = 1 .. Len(s) /\ Len(s) \in Nat
  OBVIOUS
<1>3. 1 .. Len(s) + 1 = (1 .. Len(s)) \union {Len(s) + 1}
  BY <1>2
<1>4. ToSet(Append(s, i)) = ToSet(s) \union {i}
  BY <1>1, <1>2, <1>3 DEF ToSet
<1>5. ASSUME IsInjective(s), i \notin ToSet(s)
      PROVE  IsInjective(Append(s, i))
  BY <1>1, <1>2, <1>3, <1>5 DEF ToSet, IsInjective
<1> QED
  BY <1>1, <1>4, <1>5

LEMMA Taken ==
  ASSUME NEW s \in Seq(Ips), s # <<>>, IsInjective(s)
  PROVE  /\ Tail(s) \in Seq(Ips) /\ Head(s) \in Ips
         /\ ToSet(Tail(s)) = ToSet(s) \ {Head(s)}
         /\ Head(s) \in ToSet(s)
         /\ IsInjective(Tail(s))
<1>1. /\ Tail(s) \in Seq(Ips) /\ Head(s) \in Ips /\ Head(s) = s[1]
      /\ Len(s) \in Nat \ {0} /\ DOMAIN s = 1 .. Len(s)
      /\ DOMAIN Tail(s) = 1 .. Len(s) - 1
      /\ \A k \in 1 .. Len(s) - 1 : Tail(s)[k] = s[k + 1]
  OBVIOUS
<1>2. \A k \in 1 .. Len(s) : k # 1 => k - 1 \in 1 .. Len(s) - 1 /\ s[k] = Tail(s)[k - 1]
  BY <1>1
<1>3. \A k \in 1 .. Len(s) - 1 : k + 1 \in 1 .. Len(s) /\ k + 1 # 1
  BY <1>1
<1>4. ToSet(Tail(s)) = ToSet(s) \ {Head(s)}
  <2>1. ASSUME NEW x \in ToSet(Tail(s))
        PROVE  x \in ToSet(s) \ {Head(s)}
    BY <1>1, <1>3 DEF ToSet, IsInjective
  <2>2. ASSUME NEW x \in ToSet(s), x # Head(s)
        PROVE  x \in ToSet(Tail(s))
    <3>1. PICK k \in 1 .. Len(s) : x = s[k]
      BY <1>1 DEF ToSet
    <3>2. k # 1
      BY <1>1, <2>2, <3>1
    <3>3. x = Tail(s)[k - 1] /\ k - 1 \in DOMAIN Tail(s)
      BY <1>1, <1>2, <3>1, <3>2
    <3> QED
      BY <3>3 DEF ToSet
  <2> QED
    BY <2>1, <2>2
<1>5. IsInjective(Tail(s))
  BY <1>1, <1>3 DEF IsInjective
<1>6. Head(s) \in ToSet(s)
  BY <1>1 DEF ToSet
<1> QED
  BY <1>1, <1>4, <1>5, <1>6

-----------------------------------------------------------------------------
\* The actions, without the groups that Next puts them in.
LEMMA Steps ==
  ASSUME Next
  PROVE
    \/ \E c \in Checks :
         \/ \E i \in Ips : Find(c, i)
         \/ ReadCache(c) \/ Flag(c) \/ Push(c) \/ Unflag(c) \/ Ready(c)
         \/ \E cutOff \in BOOLEAN : WaitEnds(c, cutOff) \/ LocalDone(c, cutOff)
    \/ Take \/ Look \/ Ask \/ RateCutOff \/ NoAnswer \/ GotAnswer
    \/ SaveAnswer \/ Unpend \/ WorkerEnds
    \/ NewJob \/ Stop \/ Tick
  BY DEF Next, CheckStep, WorkerStep

LEMMA Types ==
  ASSUME TypeOK, Placed, Next
  PROVE  TypeOK'
<1>1. ASSUME NEW c \in Checks, NEW i \in Ips, Find(c, i)
      PROVE  TypeOK'
  BY <1>1 DEF TypeOK, Placed, Procs, WorkPlaces, CheckPlaces, Find, Goto
<1>2. ASSUME NEW c \in Checks, ReadCache(c)
      PROVE  TypeOK'
  BY <1>2 DEF TypeOK, Placed, Procs, WorkPlaces, CheckPlaces, ReadCache, Goto
<1>3. ASSUME NEW c \in Checks, Flag(c)
      PROVE  TypeOK'
  BY <1>3 DEF TypeOK, Placed, Procs, WorkPlaces, CheckPlaces, Flag, Goto
<1>4. ASSUME NEW c \in Checks, Push(c)
      PROVE  TypeOK'
  <2>1. exit[c] \in Ips
    BY <1>4 DEF Placed, CheckPlaces, Push
  <2>2. queue \in Seq(Ips) /\ Append(queue, exit[c]) \in Seq(Ips)
    BY <2>1, Appended DEF TypeOK
  <2> QED
    BY <1>4, <2>2 DEF TypeOK, Procs, CheckPlaces, Push, Goto
<1>5. ASSUME NEW c \in Checks, Unflag(c)
      PROVE  TypeOK'
  BY <1>5 DEF TypeOK, Placed, Procs, WorkPlaces, CheckPlaces, Unflag, Goto
<1>6. ASSUME NEW c \in Checks, Ready(c)
      PROVE  TypeOK'
  BY <1>6 DEF TypeOK, Placed, Procs, WorkPlaces, CheckPlaces, Ready, Return, Goto
<1>7. ASSUME NEW c \in Checks, NEW cutOff \in BOOLEAN, WaitEnds(c, cutOff)
      PROVE  TypeOK'
  BY <1>7 DEF TypeOK, Placed, Procs, WorkPlaces, CheckPlaces, WaitEnds, Return, Goto
<1>8. ASSUME NEW c \in Checks, NEW cutOff \in BOOLEAN, LocalDone(c, cutOff)
      PROVE  TypeOK'
  BY <1>8 DEF TypeOK, Placed, Procs, WorkPlaces, CheckPlaces, LocalDone, Goto
<1>9. CASE Take
  <2>1. queue' \in Seq(Ips) /\ work' \in Ips
    BY <1>9 DEF TypeOK, Take
  <2> QED
    BY <1>9, <2>1 DEF TypeOK, Procs, WorkPlaces, Take, Goto
<1>10. CASE Look
  BY <1>10 DEF TypeOK, Placed, Procs, WorkPlaces, CheckPlaces, Look, Goto
<1>11. CASE Ask
  BY <1>11 DEF TypeOK, Placed, Procs, WorkPlaces, CheckPlaces, Ask, Goto
<1>12. CASE RateCutOff
  BY <1>12 DEF TypeOK, Placed, Procs, WorkPlaces, CheckPlaces, RateCutOff, Goto
<1>13. CASE NoAnswer
  BY <1>13 DEF TypeOK, Placed, Procs, WorkPlaces, CheckPlaces, NoAnswer, Goto
<1>14. CASE GotAnswer
  BY <1>14 DEF TypeOK, Placed, Procs, WorkPlaces, CheckPlaces, GotAnswer, Goto
<1>15. CASE SaveAnswer
  BY <1>15 DEF TypeOK, Placed, Procs, WorkPlaces, CheckPlaces, SaveAnswer, Goto
<1>16. CASE Unpend
  BY <1>16 DEF TypeOK, Placed, Procs, WorkPlaces, CheckPlaces, Unpend, Goto
<1>17. CASE WorkerEnds
  BY <1>17 DEF TypeOK, Placed, Procs, WorkPlaces, CheckPlaces, WorkerEnds, Goto
<1>18. CASE NewJob
  BY <1>18 DEF TypeOK, Placed, Procs, WorkPlaces, CheckPlaces, NewJob
<1>19. CASE Stop
  BY <1>19 DEF TypeOK, Placed, Procs, WorkPlaces, CheckPlaces, Stop
<1>20. CASE Tick
  BY <1>20 DEF TypeOK, Placed, Procs, WorkPlaces, CheckPlaces, Tick, Less
<1> QED
  BY <1>1, <1>2, <1>3, <1>4, <1>5, <1>6, <1>7, <1>8, <1>9, <1>10, <1>11, <1>12,
     <1>13, <1>14, <1>15, <1>16, <1>17, <1>18, <1>19, <1>20, Steps

LEMMA Places ==
  ASSUME TypeOK, Placed, Next
  PROVE  Placed'
<1>1. ASSUME NEW c \in Checks, NEW i \in Ips, Find(c, i)
      PROVE  Placed'
  BY <1>1 DEF TypeOK, Placed, Procs, WorkPlaces, CheckPlaces, Find, Goto
<1>2. ASSUME NEW c \in Checks, ReadCache(c)
      PROVE  Placed'
  BY <1>2 DEF TypeOK, Placed, Procs, WorkPlaces, CheckPlaces, ReadCache, Goto
<1>3. ASSUME NEW c \in Checks, Flag(c)
      PROVE  Placed'
  BY <1>3 DEF TypeOK, Placed, Procs, WorkPlaces, CheckPlaces, Flag, Goto
<1>4. ASSUME NEW c \in Checks, Push(c)
      PROVE  Placed'
  BY <1>4 DEF TypeOK, Placed, Procs, WorkPlaces, CheckPlaces, Push, Goto
<1>5. ASSUME NEW c \in Checks, Unflag(c)
      PROVE  Placed'
  BY <1>5 DEF TypeOK, Placed, Procs, WorkPlaces, CheckPlaces, Unflag, Goto
<1>6. ASSUME NEW c \in Checks, Ready(c)
      PROVE  Placed'
  BY <1>6 DEF TypeOK, Placed, Procs, WorkPlaces, CheckPlaces, Ready, Return, Goto
<1>7. ASSUME NEW c \in Checks, NEW cutOff \in BOOLEAN, WaitEnds(c, cutOff)
      PROVE  Placed'
  BY <1>7 DEF TypeOK, Placed, Procs, WorkPlaces, CheckPlaces, WaitEnds, Return, Goto
<1>8. ASSUME NEW c \in Checks, NEW cutOff \in BOOLEAN, LocalDone(c, cutOff)
      PROVE  Placed'
  BY <1>8 DEF TypeOK, Placed, Procs, WorkPlaces, CheckPlaces, LocalDone, Goto
<1>9. CASE Take
  <2>1. work' \in Ips
    BY <1>9 DEF TypeOK, Take
  <2> QED
    BY <1>9, <2>1 DEF TypeOK, Placed, Procs, WorkPlaces, CheckPlaces, Take, Goto
<1>10. CASE Look
  BY <1>10 DEF TypeOK, Placed, Procs, WorkPlaces, CheckPlaces, Look, Goto
<1>11. CASE Ask
  BY <1>11 DEF TypeOK, Placed, Procs, WorkPlaces, CheckPlaces, Ask, Goto
<1>12. CASE RateCutOff
  BY <1>12 DEF TypeOK, Placed, Procs, WorkPlaces, CheckPlaces, RateCutOff, Goto
<1>13. CASE NoAnswer
  BY <1>13 DEF TypeOK, Placed, Procs, WorkPlaces, CheckPlaces, NoAnswer, Goto
<1>14. CASE GotAnswer
  BY <1>14 DEF TypeOK, Placed, Procs, WorkPlaces, CheckPlaces, GotAnswer, Goto
<1>15. CASE SaveAnswer
  BY <1>15 DEF TypeOK, Placed, Procs, WorkPlaces, CheckPlaces, SaveAnswer, Goto
<1>16. CASE Unpend
  BY <1>16 DEF TypeOK, Placed, Procs, WorkPlaces, CheckPlaces, Unpend, Goto
<1>17. CASE WorkerEnds
  BY <1>17 DEF TypeOK, Placed, Procs, WorkPlaces, CheckPlaces, WorkerEnds, Goto
<1>18. CASE NewJob
  BY <1>18 DEF TypeOK, Placed, Procs, WorkPlaces, CheckPlaces, NewJob
<1>19. CASE Stop
  BY <1>19 DEF TypeOK, Placed, Procs, WorkPlaces, CheckPlaces, Stop
<1>20. CASE Tick
  BY <1>20 DEF TypeOK, Placed, Procs, WorkPlaces, CheckPlaces, Tick, Less
<1> QED
  BY <1>1, <1>2, <1>3, <1>4, <1>5, <1>6, <1>7, <1>8, <1>9, <1>10, <1>11, <1>12,
     <1>13, <1>14, <1>15, <1>16, <1>17, <1>18, <1>19, <1>20, Steps

LEMMA Asking ==
  ASSUME TypeOK, Placed, WillAsk, Next
  PROVE  WillAsk'
<1>1. ASSUME NEW c \in Checks, NEW i \in Ips, Find(c, i)
      PROVE  WillAsk'
  BY <1>1 DEF TypeOK, WillAsk, Due, Procs, Find, Goto
<1>2. ASSUME NEW c \in Checks, ReadCache(c)
      PROVE  WillAsk'
  BY <1>2 DEF TypeOK, WillAsk, Due, Procs, ReadCache, Goto
<1>3. ASSUME NEW c \in Checks, Flag(c)
      PROVE  WillAsk'
  BY <1>3 DEF TypeOK, WillAsk, Due, Procs, Flag, Goto
<1>4. ASSUME NEW c \in Checks, Push(c)
      PROVE  WillAsk'
  BY <1>4 DEF TypeOK, WillAsk, Due, Procs, Push, Goto
<1>5. ASSUME NEW c \in Checks, Unflag(c)
      PROVE  WillAsk'
  BY <1>5 DEF TypeOK, WillAsk, Due, Procs, Unflag, Goto
<1>6. ASSUME NEW c \in Checks, Ready(c)
      PROVE  WillAsk'
  BY <1>6 DEF TypeOK, WillAsk, Due, Procs, Ready, Return, Goto
<1>7. ASSUME NEW c \in Checks, NEW cutOff \in BOOLEAN, WaitEnds(c, cutOff)
      PROVE  WillAsk'
  BY <1>7 DEF TypeOK, WillAsk, Due, Procs, WaitEnds, Return, Goto
<1>8. ASSUME NEW c \in Checks, NEW cutOff \in BOOLEAN, LocalDone(c, cutOff)
      PROVE  WillAsk'
  BY <1>8 DEF TypeOK, WillAsk, Due, Procs, LocalDone, Goto
<1>9. CASE Take
  BY <1>9 DEF TypeOK, WillAsk, Due, Procs, Take, Goto
<1>10. CASE Look
  BY <1>10 DEF TypeOK, WillAsk, Due, Procs, Look, Goto
<1>11. CASE Ask
  BY <1>11 DEF TypeOK, WillAsk, Due, Procs, Ask, Goto
<1>12. CASE RateCutOff
  BY <1>12 DEF TypeOK, WillAsk, Due, Procs, RateCutOff, Goto
<1>13. CASE NoAnswer
  BY <1>13 DEF TypeOK, WillAsk, Due, Procs, NoAnswer, Goto
<1>14. CASE GotAnswer
  BY <1>14 DEF TypeOK, WillAsk, Due, Procs, GotAnswer, Goto
<1>15. CASE SaveAnswer
  BY <1>15 DEF TypeOK, WillAsk, Due, Procs, SaveAnswer, Goto
<1>16. CASE Unpend
  BY <1>16 DEF TypeOK, WillAsk, Due, Procs, Unpend, Goto
<1>17. CASE WorkerEnds
  BY <1>17 DEF TypeOK, WillAsk, Due, Procs, WorkerEnds, Goto
<1>18. CASE NewJob
  BY <1>18 DEF TypeOK, WillAsk, Due, Procs, NewJob
<1>19. CASE Stop
  BY <1>19 DEF TypeOK, WillAsk, Due, Procs, Stop
<1>20. CASE Tick
  <2>1. \A i \in Ips : Due(i) => Due(i)'
    BY <1>20 DEF TypeOK, Tick, Less, Due
  <2> QED
    BY <1>20, <2>1 DEF Placed, WorkPlaces, WillAsk, Tick
<1> QED
  BY <1>1, <1>2, <1>3, <1>4, <1>5, <1>6, <1>7, <1>8, <1>9, <1>10, <1>11, <1>12,
     <1>13, <1>14, <1>15, <1>16, <1>17, <1>18, <1>19, <1>20, Steps

\* PendingExact of one address.
Exact(i) ==
  /\ i \in pending <=> i \in ToSet(queue) \/ work = i \/ Pushing(i) # {}
  /\ ~(i \in ToSet(queue) /\ work = i)
  /\ Pushing(i) # {} => i \notin ToSet(queue) /\ work # i
  /\ \A c, d \in Pushing(i) : c = d

LEMMA ExactEach ==
  ASSUME PendingExact, NEW i \in Ips
  PROVE  Exact(i)
  BY DEF PendingExact, Exact

LEMMA Injective ==
  ASSUME PendingExact
  PROVE  IsInjective(queue)
  BY DEF PendingExact

LEMMA AllExact ==
  ASSUME IsInjective(queue'), \A i \in Ips : Exact(i)'
  PROVE  PendingExact'
  BY DEF PendingExact, Exact

\* Who is not about to push or take back a flag does not matter.
LEMMA Elsewhere ==
  ASSUME TypeOK, PendingExact, UNCHANGED <<pending, queue, work>>,
         \A c \in Checks :
           /\ pc'[c] \in {"push", "unflag"} <=> pc[c] \in {"push", "unflag"}
           /\ pc[c] \in {"push", "unflag"} => exit'[c] = exit[c]
  PROVE  PendingExact'
<1>1. ASSUME NEW i \in Ips
      PROVE  Exact(i)'
  <2>1. Pushing(i)' = Pushing(i)
    BY DEF Pushing
  <2>2. Exact(i)
    BY ExactEach
  <2> QED
    BY <2>1, <2>2 DEF Exact
<1>2. IsInjective(queue')
  BY Injective
<1> QED
  BY <1>1, <1>2, AllExact

LEMMA Exactness ==
  ASSUME TypeOK, Placed, PendingExact, Next
  PROVE  PendingExact'
<1>1. ASSUME NEW c \in Checks, NEW i \in Ips, Find(c, i)
      PROVE  PendingExact'
  BY <1>1, Elsewhere DEF TypeOK, Procs, Find, Goto
<1>2. ASSUME NEW c \in Checks, ReadCache(c)
      PROVE  PendingExact'
  BY <1>2, Elsewhere DEF TypeOK, Procs, ReadCache, Goto
<1>3. ASSUME NEW c \in Checks, Flag(c)
      PROVE  PendingExact'
  <2>1. PICK i \in Ips : i = exit[c]
    BY <1>3 DEF Placed, CheckPlaces, Flag
  <2>2. CASE i \in pending
    BY <1>3, <2>1, <2>2, Elsewhere DEF TypeOK, Procs, Flag, Goto
  <2>3. CASE i \notin pending
    <3>1. Pushing(i) = {} /\ i \notin ToSet(queue) /\ work # i
      <4>1. Exact(i)
        BY ExactEach
      <4> QED
        BY <2>3, <4>1 DEF Exact
    <3>2. pc' = [pc EXCEPT ![c] = "push"] /\ pc[c] = "flag"
      BY <1>3, <2>1, <2>3 DEF Flag, Goto
    <3>3. pending' = pending \union {i} /\ UNCHANGED <<queue, work, exit>>
      BY <1>3, <2>1 DEF Flag
    <3>4. Pushing(i)' = {c}
      BY <2>1, <3>1, <3>2, <3>3 DEF TypeOK, Procs, Pushing
    <3>5. Exact(i)'
      BY <3>1, <3>3, <3>4 DEF Exact
    <3>6. ASSUME NEW j \in Ips, j # i
          PROVE  Exact(j)'
      <4>1. Pushing(j)' = Pushing(j)
        BY <2>1, <3>2, <3>3, <3>6 DEF TypeOK, Procs, Pushing
      <4>2. Exact(j)
        BY ExactEach
      <4> QED
        BY <3>3, <3>6, <4>1, <4>2 DEF Exact
    <3>7. IsInjective(queue')
      BY <3>3, Injective
    <3> QED
      BY <3>5, <3>6, <3>7, AllExact
  <2> QED
    BY <2>2, <2>3
<1>4. ASSUME NEW c \in Checks, Push(c)
      PROVE  PendingExact'
  <2>1. PICK i \in Ips : i = exit[c]
    BY <1>4 DEF Placed, CheckPlaces, Push
  <2>2. CASE Len(queue) < QueueSize
    <3>1. c \in Pushing(i)
      BY <1>4, <2>1 DEF Pushing, Push
    <3>2. Exact(i)
      BY ExactEach
    <3>3. /\ i \in pending /\ i \notin ToSet(queue) /\ work # i
          /\ \A d \in Pushing(i) : d = c
      BY <3>1, <3>2 DEF Exact
    <3>4. queue' = Append(queue, i) /\ UNCHANGED <<pending, work, exit>>
      BY <1>4, <2>1, <2>2 DEF Push
    <3>5. IsInjective(queue) /\ queue \in Seq(Ips)
      BY Injective DEF TypeOK
    <3>6. ToSet(queue') = ToSet(queue) \union {i} /\ IsInjective(queue')
      BY <3>3, <3>4, <3>5, Appended
    <3>7. pc' = [pc EXCEPT ![c] = "ready"]
      BY <1>4, <2>2 DEF Push, Goto
    <3>8. Pushing(i)' = {}
      BY <3>3, <3>4, <3>7 DEF TypeOK, Procs, Pushing
    <3>9. Exact(i)'
      BY <3>3, <3>4, <3>6, <3>8 DEF Exact
    <3>10. ASSUME NEW j \in Ips, j # i
           PROVE  Exact(j)'
      <4>1. Pushing(j)' = Pushing(j)
        BY <2>1, <3>4, <3>7, <3>10 DEF TypeOK, Procs, Pushing
      <4>2. Exact(j)
        BY ExactEach
      <4> QED
        BY <3>4, <3>6, <3>10, <4>1, <4>2 DEF Exact
    <3> QED
      BY <3>6, <3>9, <3>10, AllExact
  <2>3. CASE ~(Len(queue) < QueueSize)
    BY <1>4, <2>3, Elsewhere DEF TypeOK, Procs, Push, Goto
  <2> QED
    BY <2>2, <2>3
<1>5. ASSUME NEW c \in Checks, Unflag(c)
      PROVE  PendingExact'
  <2>1. PICK i \in Ips : i = exit[c]
    BY <1>5 DEF Placed, CheckPlaces, Unflag
  <2>2. c \in Pushing(i)
    BY <1>5, <2>1 DEF Pushing, Unflag
  <2>3. Exact(i)
    BY ExactEach
  <2>4. i \notin ToSet(queue) /\ work # i /\ \A d \in Pushing(i) : d = c
    BY <2>2, <2>3 DEF Exact
  <2>5. pc' = [pc EXCEPT ![c] = "ready"]
    BY <1>5 DEF Unflag, Goto
  <2>6. pending' = pending \ {i} /\ UNCHANGED <<queue, work, exit>>
    BY <1>5, <2>1 DEF Unflag
  <2>7. Pushing(i)' = {}
    BY <2>4, <2>5, <2>6 DEF TypeOK, Procs, Pushing
  <2>8. Exact(i)'
    BY <2>4, <2>6, <2>7 DEF Exact
  <2>9. ASSUME NEW j \in Ips, j # i
        PROVE  Exact(j)'
    <3>1. Pushing(j)' = Pushing(j)
      BY <2>1, <2>5, <2>6, <2>9 DEF TypeOK, Procs, Pushing
    <3>2. Exact(j)
      BY ExactEach
    <3> QED
      BY <2>6, <2>9, <3>1, <3>2 DEF Exact
  <2>10. IsInjective(queue')
    BY <2>6, Injective
  <2> QED
    BY <2>8, <2>9, <2>10, AllExact
<1>6. ASSUME NEW c \in Checks, Ready(c)
      PROVE  PendingExact'
  BY <1>6, Elsewhere DEF TypeOK, Procs, Ready, Return, Goto
<1>7. ASSUME NEW c \in Checks, NEW cutOff \in BOOLEAN, WaitEnds(c, cutOff)
      PROVE  PendingExact'
  BY <1>7, Elsewhere DEF TypeOK, Procs, WaitEnds, Return, Goto
<1>8. ASSUME NEW c \in Checks, NEW cutOff \in BOOLEAN, LocalDone(c, cutOff)
      PROVE  PendingExact'
  BY <1>8, Elsewhere DEF TypeOK, Procs, LocalDone, Goto
<1>9. CASE Take
  <2>1. /\ IsInjective(queue) /\ queue \in Seq(Ips) /\ queue # <<>>
        /\ work' = Head(queue) /\ queue' = Tail(queue)
    BY <1>9, Injective DEF TypeOK, Take
  <2>2. /\ work' \in ToSet(queue) /\ work' \in Ips
        /\ ToSet(queue') = ToSet(queue) \ {work'}
        /\ IsInjective(queue')
    BY <2>1, Taken
  <2>3. work = NoIp
    BY <1>9 DEF Placed, WorkPlaces, Take
  <2>4. UNCHANGED <<pending, exit>>
    BY <1>9 DEF Take
  <2>5. ASSUME NEW i \in Ips
        PROVE  Exact(i)'
    <3>1. Pushing(i)' = Pushing(i)
      BY <1>9 DEF TypeOK, Procs, Pushing, Take, Goto
    <3>2. Exact(i)
      BY ExactEach
    <3> QED
      BY <2>2, <2>3, <2>4, <3>1, <3>2 DEF Exact
  <2> QED
    BY <2>2, <2>5, AllExact
<1>10. CASE Look
  BY <1>10, Elsewhere DEF TypeOK, Procs, Look, Goto
<1>11. CASE Ask
  BY <1>11, Elsewhere DEF TypeOK, Procs, Ask, Goto
<1>12. CASE RateCutOff
  BY <1>12, Elsewhere DEF TypeOK, Procs, RateCutOff, Goto
<1>13. CASE NoAnswer
  BY <1>13, Elsewhere DEF TypeOK, Procs, NoAnswer, Goto
<1>14. CASE GotAnswer
  BY <1>14, Elsewhere DEF TypeOK, Procs, GotAnswer, Goto
<1>15. CASE SaveAnswer
  BY <1>15, Elsewhere DEF TypeOK, Procs, SaveAnswer, Goto
<1>16. CASE Unpend
  <2>1. work \in Ips /\ work' = NoIp /\ pending' = pending \ {work}
    BY <1>16 DEF Placed, WorkPlaces, Unpend
  <2>2. UNCHANGED <<queue, exit>>
    BY <1>16 DEF Unpend
  <2>3. ASSUME NEW i \in Ips
        PROVE  Exact(i)'
    <3>1. Pushing(i)' = Pushing(i)
      BY <1>16 DEF TypeOK, Procs, Pushing, Unpend, Goto
    <3>2. Exact(i)
      BY ExactEach
    <3> QED
      BY <2>1, <2>2, <3>1, <3>2 DEF Exact
  <2>4. IsInjective(queue')
    BY <2>2, Injective
  <2> QED
    BY <2>3, <2>4, AllExact
<1>17. CASE WorkerEnds
  BY <1>17, Elsewhere DEF TypeOK, Procs, WorkerEnds, Goto
<1>18. CASE NewJob
  BY <1>18, Elsewhere DEF TypeOK, Procs, NewJob
<1>19. CASE Stop
  BY <1>19, Elsewhere DEF TypeOK, Procs, Stop
<1>20. CASE Tick
  BY <1>20, Elsewhere DEF TypeOK, Procs, Tick, Less
<1> QED
  BY <1>1, <1>2, <1>3, <1>4, <1>5, <1>6, <1>7, <1>8, <1>9, <1>10, <1>11, <1>12,
     <1>13, <1>14, <1>15, <1>16, <1>17, <1>18, <1>19, <1>20, Steps

-----------------------------------------------------------------------------
IInv == TypeOK /\ Placed /\ WillAsk /\ PendingExact

LEMMA Starts ==
  ASSUME Init
  PROVE  IInv
<1>1. TypeOK
  <2>1. /\ pending \subseteq Ips /\ work \in Ips \union {NoIp}
        /\ rest \in Nat /\ stopped \in BOOLEAN
    BY DEF Init
  <2>2. queue \in Seq(Ips)
    BY DEF Init
  <2>3. pc \in [Procs -> {"idle", "select", "ended"} \union WorkPlaces \union CheckPlaces]
    BY DEF Init
  <2>4. kept \in [Ips -> Nat] /\ exit \in [Checks -> Ips \union {NoIp}]
    BY DEF Init
  <2> QED
    BY <2>1, <2>2, <2>3, <2>4 DEF TypeOK
<1>2. Placed /\ WillAsk
  BY DEF Init, Placed, WillAsk, Procs, WorkPlaces, CheckPlaces
<1>3. IsInjective(queue) /\ ToSet(queue) = {}
  BY DEF Init, IsInjective, ToSet
<1>4. \A i \in Ips : Pushing(i) = {}
  BY DEF Init, Pushing, Procs
<1>5. PendingExact
  BY <1>3, <1>4 DEF Init, PendingExact
<1> QED
  BY <1>1, <1>2, <1>5 DEF IInv

\* IInv holds in every state.
THEOREM Invariance == Spec => []IInv
<1>1. IInv /\ UNCHANGED vars => IInv'
  <2> SUFFICES ASSUME IInv, UNCHANGED vars PROVE IInv'
    OBVIOUS
  <2>1. TypeOK' /\ Placed' /\ WillAsk'
    BY DEF IInv, TypeOK, Placed, WillAsk, Due
  <2>2. PendingExact'
    BY Elsewhere DEF IInv
  <2> QED
    BY <2>1, <2>2 DEF IInv
<1>2. IInv /\ Next => IInv'
  BY Types, Places, Asking, Exactness DEF IInv
<1> QED
  BY <1>1, <1>2, Starts, PTL DEF Spec

\* The pending set is exact, whatever the sizes: an address is flagged while it is
\* pushed, queued or processed, and is at one of these places only.
THEOREM Pending == Spec => []PendingExact
<1>1. IInv => PendingExact
  BY DEF IInv
<1> QED
  BY <1>1, Invariance, PTL

\* The service is only asked for an address whose entry has expired.
THEOREM AskedOnce == Spec => AskedOncePerTtl
<1> DEFINE Asks == pc[Worker] # "ask" /\ pc'[Worker] = "ask" => Due(work)
<1>1. IInv /\ Next => Asks
  <2> SUFFICES ASSUME IInv, Next, pc[Worker] # "ask", pc'[Worker] = "ask"
               PROVE  Due(work)
    OBVIOUS
  <2>1. Ask
    BY Steps DEF IInv, TypeOK, Procs, Goto, Return, Find, ReadCache, Flag, Push, Unflag,
      Ready, WaitEnds, LocalDone, Take, Look, RateCutOff, NoAnswer, GotAnswer,
      SaveAnswer, Unpend, WorkerEnds, NewJob, Stop, Tick
  <2> QED
    BY <2>1 DEF Ask, IInv, WillAsk
<1>2. IInv /\ [Next]_vars => [Asks]_vars
  BY <1>1
<1>3. Spec => [][Asks]_vars
  BY <1>2, Invariance, PTL DEF Spec
<1> QED
  BY <1>3 DEF AskedOncePerTtl

-----------------------------------------------------------------------------
(* Refinement of GeoService *)

ServiceStep == Service!Next \/ UNCHANGED <<pending, Asked, rest, kept>>

\* Steps that concern neither the table, nor the flags, nor the request.
LEMMA Unnoticed ==
  ASSUME TypeOK, UNCHANGED <<pending, rest, kept>>, Asked' = Asked
  PROVE  ServiceStep
BY DEF ServiceStep

\* A flag that a check takes back is not the worker's.
LEMMA NotAsked ==
  ASSUME PendingExact, NEW c \in Checks, pc[c] = "unflag", exit[c] \in Ips
  PROVE  exit[c] \in pending /\ exit[c] # work
<1>1. c \in Pushing(exit[c])
  BY DEF Pushing
<1> QED
  BY <1>1 DEF PendingExact

\* Every step of a check, of the worker and of the clock is a step of the service.
LEMMA ServiceSteps ==
  ASSUME IInv, Next
  PROVE  ServiceStep
<1>0. TypeOK /\ Placed /\ WillAsk /\ PendingExact
  BY DEF IInv
<1>a. ASSUME UNCHANGED work, pc'[Worker] = pc[Worker]
      PROVE  Asked' = Asked
  BY <1>a DEF Asked
<1>b. Worker \in Procs /\ \A c \in Checks : c \in Procs /\ c # Worker
  BY DEF Procs
<1>1. ASSUME NEW c \in Checks, NEW i \in Ips, Find(c, i)
      PROVE  ServiceStep
  <2>1. UNCHANGED <<pending, rest, kept, work>> /\ pc'[Worker] = pc[Worker]
    BY <1>0, <1>b, <1>1 DEF TypeOK, Find, Goto
  <2> QED
    BY <1>0, <1>a, <2>1, Unnoticed
<1>2. ASSUME NEW c \in Checks, ReadCache(c)
      PROVE  ServiceStep
  <2>1. UNCHANGED <<pending, rest, kept, work>> /\ pc'[Worker] = pc[Worker]
    BY <1>0, <1>b, <1>2 DEF TypeOK, ReadCache, Goto
  <2> QED
    BY <1>0, <1>a, <2>1, Unnoticed
<1>3. ASSUME NEW c \in Checks, Push(c)
      PROVE  ServiceStep
  <2>1. UNCHANGED <<pending, rest, kept, work>> /\ pc'[Worker] = pc[Worker]
    BY <1>0, <1>b, <1>3 DEF TypeOK, Push, Goto
  <2> QED
    BY <1>0, <1>a, <2>1, Unnoticed
<1>4. ASSUME NEW c \in Checks, Ready(c)
      PROVE  ServiceStep
  <2>1. UNCHANGED <<pending, rest, kept, work>> /\ pc'[Worker] = pc[Worker]
    BY <1>0, <1>b, <1>4 DEF TypeOK, Ready, Return, Goto
  <2> QED
    BY <1>0, <1>a, <2>1, Unnoticed
<1>5. ASSUME NEW c \in Checks, NEW cutOff \in BOOLEAN, WaitEnds(c, cutOff)
      PROVE  ServiceStep
  <2>1. UNCHANGED <<pending, rest, kept, work>> /\ pc'[Worker] = pc[Worker]
    BY <1>0, <1>b, <1>5 DEF TypeOK, WaitEnds, Return, Goto
  <2> QED
    BY <1>0, <1>a, <2>1, Unnoticed
<1>6. ASSUME NEW c \in Checks, NEW cutOff \in BOOLEAN, LocalDone(c, cutOff)
      PROVE  ServiceStep
  <2>1. UNCHANGED <<pending, rest, kept, work>> /\ pc'[Worker] = pc[Worker]
    BY <1>0, <1>b, <1>6 DEF TypeOK, LocalDone, Goto
  <2> QED
    BY <1>0, <1>a, <2>1, Unnoticed
<1>7. ASSUME NEW c \in Checks, Flag(c)
      PROVE  ServiceStep
  <2>1. /\ UNCHANGED <<rest, kept, work>> /\ pc'[Worker] = pc[Worker]
        /\ pending' = pending \union {exit[c]} /\ exit[c] \in Ips
    BY <1>0, <1>b, <1>7 DEF TypeOK, Placed, CheckPlaces, Flag, Goto
  <2>2. Asked' = Asked
    BY <1>a, <2>1
  <2>3. CASE exit[c] \in pending
    BY <1>0, <2>1, <2>2, <2>3, Unnoticed
  <2>4. CASE exit[c] \notin pending
    BY <2>1, <2>2, <2>4 DEF ServiceStep, Service!Next, Service!Accept
  <2> QED
    BY <2>3, <2>4
<1>8. ASSUME NEW c \in Checks, Unflag(c)
      PROVE  ServiceStep
  <2>1. /\ UNCHANGED <<rest, kept, work>> /\ pc'[Worker] = pc[Worker]
        /\ pending' = pending \ {exit[c]} /\ exit[c] \in Ips /\ pc[c] = "unflag"
    BY <1>0, <1>b, <1>8 DEF TypeOK, Placed, CheckPlaces, Unflag, Goto
  <2>2. exit[c] \in pending /\ exit[c] # Asked
    BY <1>0, <2>1, NotAsked, GeoAssumption DEF Asked
  <2>3. Asked' = Asked
    BY <1>a, <2>1
  <2> QED
    BY <2>1, <2>2, <2>3 DEF ServiceStep, Service!Next, Service!GiveUp
<1>9. CASE Take
  <2>1. UNCHANGED <<pending, rest, kept>>
    BY <1>9 DEF Take
  <2>2. Asked' = Asked
    BY <1>0, <1>b, <1>9 DEF TypeOK, Take, Goto, Asked
  <2> QED
    BY <1>0, <2>1, <2>2, Unnoticed
<1>10. CASE Look
  <2>1. UNCHANGED <<pending, rest, kept>>
    BY <1>10 DEF Look
  <2>2. Asked' = Asked
    BY <1>0, <1>b, <1>10 DEF TypeOK, Look, Goto, Asked
  <2> QED
    BY <1>0, <2>1, <2>2, Unnoticed
<1>11. CASE RateCutOff
  <2>1. UNCHANGED <<pending, rest, kept>>
    BY <1>11 DEF RateCutOff
  <2>2. Asked' = Asked
    BY <1>0, <1>b, <1>11 DEF TypeOK, RateCutOff, Goto, Asked
  <2> QED
    BY <1>0, <2>1, <2>2, Unnoticed
<1>12. CASE GotAnswer
  <2>1. UNCHANGED <<pending, rest, kept>>
    BY <1>12 DEF GotAnswer
  <2>2. Asked' = Asked
    BY <1>0, <1>b, <1>12 DEF TypeOK, GotAnswer, Goto, Asked
  <2> QED
    BY <1>0, <2>1, <2>2, Unnoticed
<1>13. CASE WorkerEnds
  <2>1. UNCHANGED <<pending, rest, kept>>
    BY <1>13 DEF WorkerEnds
  <2>2. Asked' = Asked
    BY <1>0, <1>b, <1>13 DEF TypeOK, WorkerEnds, Goto, Asked
  <2> QED
    BY <1>0, <2>1, <2>2, Unnoticed
<1>14. CASE Ask
  <2>1. /\ work \in Ips /\ kept[work] = 0 /\ rest = 0 /\ rest' = Rate
        /\ UNCHANGED <<pending, work, kept>>
        /\ pc[Worker] = "rate" /\ pc'[Worker] = "ask"
    BY <1>0, <1>b, <1>14 DEF TypeOK, Placed, WorkPlaces, WillAsk, Due, Ask, Goto
  <2>2. work \in pending
    BY <1>0, <2>1 DEF PendingExact
  <2>3. Asked = NoIp /\ Asked' = work
    BY <2>1 DEF Asked
  <2> QED
    BY <2>1, <2>2, <2>3 DEF ServiceStep, Service!Next, Service!Ask
<1>15. CASE NoAnswer
  <2>1. /\ work \in Ips /\ kept' = [kept EXCEPT ![work] = Retry]
        /\ UNCHANGED <<pending, rest>>
        /\ pc[Worker] = "ask" /\ pc'[Worker] = "unpend"
    BY <1>0, <1>b, <1>15 DEF TypeOK, Placed, WorkPlaces, NoAnswer, Goto
  <2>2. Asked = work /\ Asked' = NoIp
    BY <2>1 DEF Asked
  <2> QED
    BY <2>1, <2>2 DEF ServiceStep, Service!Next, Service!Keep
<1>16. CASE SaveAnswer
  <2>1. /\ work \in Ips /\ kept' = [kept EXCEPT ![work] = Ttl]
        /\ UNCHANGED <<pending, rest>>
        /\ pc[Worker] = "local" /\ pc'[Worker] = "unpend"
    BY <1>0, <1>b, <1>16 DEF TypeOK, Placed, WorkPlaces, SaveAnswer, Goto
  <2>2. Asked = work /\ Asked' = NoIp
    BY <2>1 DEF Asked
  <2> QED
    BY <2>1, <2>2 DEF ServiceStep, Service!Next, Service!Keep
<1>17. CASE Unpend
  <2>1. /\ work \in Ips /\ pending' = pending \ {work} /\ UNCHANGED <<rest, kept>>
        /\ pc[Worker] = "unpend" /\ pc'[Worker] = "select"
    BY <1>0, <1>b, <1>17 DEF TypeOK, Placed, WorkPlaces, Unpend, Goto
  <2>2. work \in pending
    BY <1>0, <2>1 DEF PendingExact
  <2>3. Asked = NoIp /\ Asked' = NoIp
    BY <2>1 DEF Asked
  <2> QED
    BY <2>1, <2>2, <2>3, GeoAssumption DEF ServiceStep, Service!Next, Service!GiveUp
<1>18. CASE NewJob
  BY <1>0, <1>18, <1>a, Unnoticed DEF NewJob
<1>19. CASE Stop
  BY <1>0, <1>19, <1>a, Unnoticed DEF Stop
<1>20. CASE Tick
  <2>1. rest' = Less(rest) /\ kept' = [i \in Ips |-> Less(kept[i])] /\ UNCHANGED pending
    BY <1>20 DEF Tick
  <2>2. Asked' = Asked
    BY <1>20, <1>a DEF Tick
  <2> QED
    BY <2>1, <2>2 DEF ServiceStep, Service!Next, Service!Tick, Service!Less, Less
<1> QED
  BY <1>1, <1>2, <1>3, <1>4, <1>5, <1>6, <1>7, <1>8, <1>9, <1>10, <1>11, <1>12,
     <1>13, <1>14, <1>15, <1>16, <1>17, <1>18, <1>19, <1>20, Steps

\* To the external service, the checks, the queue and the worker are one client that asks
\* for one accepted address at a time, at the rate, and for none that is kept.
THEOREM Refinement == Spec => ImplementsService
<1>1. Init => Service!Init
  BY DEF Init, Service!Init, Asked, Procs
<1>2. IInv /\ [Next]_vars => [Service!Next]_(Service!vars)
  <2>1. ASSUME IInv, Next PROVE [Service!Next]_(Service!vars)
    BY <2>1, ServiceSteps DEF ServiceStep, Service!vars
  <2>2. ASSUME UNCHANGED vars PROVE [Service!Next]_(Service!vars)
    BY <2>2 DEF Service!vars, Asked
  <2> QED
    BY <2>1, <2>2
<1> QED
  BY <1>1, <1>2, Invariance, PTL DEF Spec, ImplementsService, Service!Spec
=============================================================================
