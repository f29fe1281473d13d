------------------------------ MODULE GeoEnricher ------------------------------
(***************************************************************************)
(* Metadata of exit addresses: geo_enricher.go, the table of geo_cache.go, *)
(* and checkGeoCache of checker.go. A lookup in the local database, which  *)
(* may take a while (GeoDatabase), is a step here.                         *)
(*                                                                         *)
(* A check asks for the metadata of its proxy's exit address once per job  *)
(* (the others wait for the first), reads what the table and the local     *)
(* database have, and queues the address when its entry has expired. One   *)
(* worker takes addresses from the queue, asks the external service at a   *)
(* bounded rate, and keeps the answer, or the failure, for a while.        *)
(*                                                                         *)
(* Left out: what the metadata says and the rows it is written to, and     *)
(* failures of the statements on the table, which are ignored by the code. *)
(***************************************************************************)
EXTENDS Naturals, SequencesExt

CONSTANTS
  Ips,        \* exit addresses
  NoIp,
  Checks,     \* check goroutines
  Worker,     \* geoEnricher.run
  QueueSize,
  Ttl, Retry, \* how long an answer and a failure are kept, in ticks
  Rate        \* least time between two requests

Procs == Checks \union {Worker}

ASSUME GeoAssumption ==
  /\ NoIp \notin Ips /\ Worker \notin Checks
  /\ QueueSize \in Nat \ {0} /\ {Ttl, Retry, Rate} \subseteq Nat \ {0}

VARIABLES
  pending, queue,
  work,     \* the address the worker processes
  rest,     \* what is left until the next request may be sent
  stopped,  \* the channel stop is closed
  kept,     \* ip_geo_cache: what is left of expires_at or retry_after
  entry,    \* checkGeoCache of the job: "none", "loading", "ready"
  pc,
  exit,     \* exit address a check has found
  due       \* the check has read that the address is to be asked for

vars == <<pending, queue, work, rest, stopped, kept, entry, pc, exit, due>>

Init ==
  /\ pending = {} /\ queue = <<>> /\ work = NoIp
  /\ rest = 0 /\ stopped = FALSE
  /\ kept = [i \in Ips |-> 0]
  /\ entry = [i \in Ips |-> "none"]
  /\ pc = [p \in Procs |-> IF p = Worker THEN "select" ELSE "idle"]
  /\ exit = [c \in Checks |-> NoIp]
  /\ due = [c \in Checks |-> FALSE]

Goto(p, l) == pc' = [pc EXCEPT ![p] = l]

\* The lookup of a check is over, and so are its locals.
Return(c) ==
  /\ Goto(c, "idle")
  /\ exit' = [exit EXCEPT ![c] = NoIp]
  /\ due' = [due EXCEPT ![c] = FALSE]

-----------------------------------------------------------------------------
(* checkGeoCache.Lookup and geoEnricher.LookupAndQueue *)

\* A check has found its exit address; the first of the job looks it up.
Find(c, i) ==
  /\ pc[c] = "idle" /\ entry[i] # "ready"
  /\ exit' = [exit EXCEPT ![c] = i]
  /\ Goto(c, IF entry[i] = "none" THEN "read" ELSE "wait")
  /\ entry' = [entry EXCEPT ![i] = "loading"]
  /\ UNCHANGED <<pending, queue, work, rest, stopped, kept, due>>

\* The entry is ready, or the check is cut off.
WaitEnds(c, cutOff) ==
  /\ pc[c] = "wait"
  /\ entry[exit[c]] = "ready" \/ cutOff
  /\ Return(c)
  /\ UNCHANGED <<pending, queue, work, rest, stopped, kept, entry>>

Due(i) == kept[i] = 0

ReadCache(c) ==
  /\ pc[c] = "read"
  /\ due' = [due EXCEPT ![c] = Due(exit[c])]
  /\ Goto(c, "local")
  /\ UNCHANGED <<pending, queue, work, rest, stopped, kept, entry, exit>>

\* The country database has answered. A check that is cut off queues nothing.
LocalDone(c, cutOff) ==
  /\ pc[c] = "local"
  /\ Goto(c, IF due[c] /\ ~cutOff THEN "flag" ELSE "ready")
  /\ UNCHANGED <<pending, queue, work, rest, stopped, kept, entry, exit, due>>

\* Enqueue flags the address, pushes it without waiting, and takes the flag back when
\* the queue is full.
Flag(c) ==
  /\ pc[c] = "flag"
  /\ pending' = pending \union {exit[c]}
  /\ Goto(c, IF exit[c] \in pending THEN "ready" ELSE "push")
  /\ UNCHANGED <<queue, work, rest, stopped, kept, entry, exit, due>>

Push(c) ==
  /\ pc[c] = "push"
  /\ IF Len(queue) < QueueSize
     THEN queue' = Append(queue, exit[c]) /\ Goto(c, "ready")
     ELSE Goto(c, "unflag") /\ UNCHANGED queue
  /\ UNCHANGED <<pending, work, rest, stopped, kept, entry, exit, due>>

\* Mutant: an address that does not fit in the queue stays flagged.
UnflagNothing(c) ==
  /\ pc[c] = "unflag"
  /\ Goto(c, "ready")
  /\ UNCHANGED <<pending, queue, work, rest, stopped, kept, entry, exit, due>>

Unflag(c) ==
  /\ pc[c] = "unflag"
  /\ pending' = pending \ {exit[c]}
  /\ Goto(c, "ready")
  /\ UNCHANGED <<queue, work, rest, stopped, kept, entry, exit, due>>

\* close(entry.ready): those who wait go on.
Ready(c) ==
  /\ pc[c] = "ready"
  /\ entry' = [entry EXCEPT ![exit[c]] = "ready"]
  /\ Return(c)
  /\ UNCHANGED <<pending, queue, work, rest, stopped, kept>>

\* Every job has a checkGeoCache of its own.
NewJob ==
  /\ \A c \in Checks : pc[c] = "idle"
  /\ \E i \in Ips : entry[i] # "none"
  /\ entry' = [i \in Ips |-> "none"]
  /\ UNCHANGED <<pending, queue, work, rest, stopped, kept, pc, exit, due>>

-----------------------------------------------------------------------------
(* The worker *)

Take ==
  /\ pc[Worker] = "select" /\ queue # <<>>
  /\ work' = Head(queue) /\ queue' = Tail(queue)
  /\ Goto(Worker, "look")
  /\ UNCHANGED <<pending, rest, stopped, kept, entry, exit, due>>

\* Mutant: the worker trusts the check that queued the address.
LookNot ==
  /\ pc[Worker] = "look"
  /\ Goto(Worker, "rate")
  /\ UNCHANGED <<pending, queue, work, rest, stopped, kept, entry, exit, due>>

\* process reads the table again: the check may have read it long ago.
Look ==
  /\ pc[Worker] = "look"
  /\ Goto(Worker, IF Due(work) THEN "rate" ELSE "unpend")
  /\ UNCHANGED <<pending, queue, work, rest, stopped, kept, entry, exit, due>>

\* Mutant: the request does not wait for its turn.
AskAtOnce ==
  /\ pc[Worker] = "rate"
  /\ rest' = Rate
  /\ Goto(Worker, "ask")
  /\ UNCHANGED <<pending, queue, work, stopped, kept, entry, exit, due>>

Ask ==
  /\ pc[Worker] = "rate" /\ rest = 0
  /\ rest' = Rate
  /\ Goto(Worker, "ask")
  /\ UNCHANGED <<pending, queue, work, stopped, kept, entry, exit, due>>

\* waitRateLimit is cut off by Stop.
RateCutOff ==
  /\ pc[Worker] = "rate" /\ rest > 0 /\ stopped
  /\ Goto(Worker, "unpend")
  /\ UNCHANGED <<pending, queue, work, rest, stopped, kept, entry, exit, due>>

\* Mutant: an error ends the work before the flag is taken back.
NoAnswerNoUnpend ==
  /\ pc[Worker] = "ask"
  /\ kept' = [kept EXCEPT ![work] = Retry]
  /\ work' = NoIp
  /\ Goto(Worker, "select")
  /\ UNCHANGED <<pending, queue, rest, stopped, entry, exit, due>>

\* SaveIPGeoFailure
NoAnswer ==
  /\ pc[Worker] = "ask"
  /\ kept' = [kept EXCEPT ![work] = Retry]
  /\ Goto(Worker, "unpend")
  /\ UNCHANGED <<pending, queue, work, rest, stopped, entry, exit, due>>

GotAnswer ==
  /\ pc[Worker] = "ask"
  /\ Goto(Worker, "local")
  /\ UNCHANGED <<pending, queue, work, rest, stopped, kept, entry, exit, due>>

\* SaveIPGeoSuccess, when the local database has had its say.
SaveAnswer ==
  /\ pc[Worker] = "local"
  /\ kept' = [kept EXCEPT ![work] = Ttl]
  /\ Goto(Worker, "unpend")
  /\ UNCHANGED <<pending, queue, work, rest, stopped, entry, exit, due>>

Unpend ==
  /\ pc[Worker] = "unpend"
  /\ pending' = pending \ {work}
  /\ work' = NoIp
  /\ Goto(Worker, "select")
  /\ UNCHANGED <<queue, rest, stopped, kept, entry, exit, due>>

\* With work in the queue and stop closed, Go's select takes either.
WorkerEnds ==
  /\ pc[Worker] = "select" /\ stopped
  /\ Goto(Worker, "ended")
  /\ UNCHANGED <<pending, queue, work, rest, stopped, kept, entry, exit, due>>

Stop ==
  /\ ~stopped /\ stopped' = TRUE
  /\ UNCHANGED <<pending, queue, work, rest, kept, entry, pc, exit, due>>

-----------------------------------------------------------------------------
Less(n) == IF n > 0 THEN n - 1 ELSE 0

Tick ==
  /\ rest > 0 \/ \E i \in Ips : ~Due(i)
  /\ rest' = Less(rest)
  /\ kept' = [i \in Ips |-> Less(kept[i])]
  /\ UNCHANGED <<pending, queue, work, stopped, entry, pc, exit, due>>

CheckStep(c) ==
  \/ ReadCache(c) \/ Flag(c) \/ Push(c) \/ Unflag(c) \/ Ready(c)
  \/ \E cutOff \in BOOLEAN : WaitEnds(c, cutOff) \/ LocalDone(c, cutOff)

WorkerStep ==
  \/ Take \/ Look \/ Ask \/ RateCutOff \/ NoAnswer \/ GotAnswer
  \/ SaveAnswer \/ Unpend \/ WorkerEnds

Next ==
  \/ \E c \in Checks : CheckStep(c) \/ \E i \in Ips : Find(c, i)
  \/ NewJob \/ WorkerStep \/ Stop \/ Tick

Spec == Init /\ [][Next]_vars

\* Lookups, requests and statements come to an end, and time passes.
Fairness ==
  /\ \A c \in Checks : WF_vars(CheckStep(c))
  /\ WF_vars(WorkerStep) /\ WF_vars(Tick)

FairSpec == Spec /\ Fairness

-----------------------------------------------------------------------------
(* Properties *)

Pushing(i) == {c \in Checks : pc[c] \in {"push", "unflag"} /\ exit[c] = i}

\* The pending set is exact: an address is in it while it is being pushed, is queued or is
\* processed, and at one of these places only. A flag left behind would keep the address
\* out of the queue for ever; one taken back too early would queue it twice.
PendingExact ==
  /\ IsInjective(queue)
  /\ \A i \in Ips :
       LET queued == i \in ToSet(queue) IN
       /\ i \in pending <=> queued \/ work = i \/ Pushing(i) # {}
       /\ ~(queued /\ work = i)
       /\ Pushing(i) # {} => ~queued /\ work # i
       /\ \A c, d \in Pushing(i) : c = d

\* The external service is asked for an address at most once while its answer is kept, and
\* not while a failure blocks it, however long ago the check that queued the address has
\* read the table.
AskedOncePerTtl == [][pc[Worker] # "ask" /\ pc'[Worker] = "ask" => Due(work)]_vars

\* The address the service is asked for: until its answer is saved, though the answer
\* first waits for the local database.
Asked == IF pc[Worker] \in {"ask", "local"} THEN work ELSE NoIp

Service == INSTANCE GeoService WITH accepted <- pending, asking <- Asked

\* To the external service, the checks that race for the queue, the worker, and what it
\* read of the table before are one client that asks for one accepted address at a time,
\* at the rate, and for none that is kept.
ImplementsService == Service!Spec

\* A queued address is dealt with, and a check gets out of its lookup, though they load a
\* database, wait for each other, for their turn or for an answer.
NothingHangs ==
  /\ \A i \in Ips : i \in pending ~> i \notin pending \/ stopped
  /\ \A c \in Checks : pc[c] # "idle" ~> pc[c] = "idle"
=============================================================================
