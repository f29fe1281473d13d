------------------------------ MODULE GeoDatabase ------------------------------
(***************************************************************************)
(* The GeoIP country database (internal/checkmeta): a file that is         *)
(* downloaded, and a reader of it that all lookups share. The first lookup *)
(* loads it under initMu, updates replace it under updateMu, and mu guards *)
(* the reader.                                                             *)
(*                                                                         *)
(* A lookup keeps mu's read lock until it is done with the reader. As in   *)
(* Go's RWMutex, a writer that waits keeps new readers out. Modelled with  *)
(* GeoIP, the automatic download and the updates enabled, the defaults.    *)
(***************************************************************************)
EXTENDS Naturals

CONSTANTS
  Lookups,   \* goroutines in LookupGeoIP, or in GeoIPReaderStatus
  Updaters,  \* goroutines in UpdateGeoIPDatabaseFromEnv: the ticker's, the admin's
  Free,      \* nobody holds a lock
  MaxBuild   \* bound: builds ever published

Procs == Lookups \union Updaters

ASSUME LoadAssumption ==
  Lookups \intersect Updaters = {} /\ Free \notin Procs /\ MaxBuild \in Nat \ {0}

Missing == 0

VARIABLES
  latest,       \* build at the download URL
  file,         \* build on disk, or Missing
  reader,       \* build of the reader in use, or Missing (nil)
  initialized,
  initMu, updateMu,
  pc,           \* where a goroutine is
  got,          \* the build it has downloaded or opened
  held,         \* the reader a lookup uses: "none", "current", "replaced", "closed"
  overlap       \* history: a first load and an update overlap, or have, and one of them
                \* is not over yet

vars == <<latest, file, reader, initialized, initMu, updateMu, pc, got, held, overlap>>

Init ==
  /\ latest = 1
  /\ file \in {Missing, 1}
  /\ reader = Missing /\ initialized = FALSE
  /\ initMu = Free /\ updateMu = Free
  /\ pc = [p \in Procs |-> "idle"]
  /\ got = [p \in Procs |-> Missing]
  /\ held = [p \in Lookups |-> "none"]
  /\ overlap = FALSE

Goto(p, l) == pc' = [pc EXCEPT ![p] = l]

Lock(init, update) ==
  /\ initMu' = init /\ updateMu' = update
  /\ overlap' = \/ init # Free /\ update # Free
                \/ overlap /\ (init # Free \/ update # Free)

-----------------------------------------------------------------------------
(* Loading *)

\* InitializeGeoIPDatabasesFromEnv, which every lookup begins with.
EnterInit(p) ==
  /\ pc[p] = "idle" /\ initMu = Free
  /\ IF initialized
     THEN Goto(p, "look") /\ UNCHANGED <<initMu, updateMu, overlap>>
     ELSE Goto(p, IF file = Missing THEN "download" ELSE "open") /\ Lock(p, updateMu)
  /\ UNCHANGED <<latest, file, reader, initialized, got, held>>

\* Mutant: updates do not wait for each other.
EnterUpdateUnlocked(p) ==
  /\ pc[p] = "idle"
  /\ Lock(initMu, p)
  /\ Goto(p, "download")
  /\ UNCHANGED <<latest, file, reader, initialized, got, held>>

EnterUpdate(p) ==
  /\ pc[p] = "idle" /\ updateMu = Free
  /\ Lock(initMu, p)
  /\ Goto(p, "download")
  /\ UNCHANGED <<latest, file, reader, initialized, got, held>>

\* Into a temporary file, which is opened for a test ...
Download(p) ==
  /\ pc[p] = "download"
  /\ got' = [got EXCEPT ![p] = latest]
  /\ Goto(p, "rename")
  /\ UNCHANGED <<latest, file, reader, initialized, initMu, updateMu, held, overlap>>

\* ... and takes the place of the old one.
Rename(p) ==
  /\ pc[p] = "rename"
  /\ file' = got[p]
  /\ Goto(p, "open")
  /\ UNCHANGED <<latest, reader, initialized, initMu, updateMu, got, held, overlap>>

Open(p) ==
  /\ pc[p] = "open"
  /\ got' = [got EXCEPT ![p] = file]
  /\ Goto(p, "swap")
  /\ UNCHANGED <<latest, file, reader, initialized, initMu, updateMu, held, overlap>>

\* The mutexes are unlocked on return, whatever has happened.
Leave(p) ==
  /\ got' = [got EXCEPT ![p] = Missing]
  /\ IF p \in Lookups THEN Goto(p, "look") /\ Lock(Free, updateMu)
     ELSE Goto(p, "idle") /\ Lock(initMu, Free)

\* Mutant: the first load is tried once (sync.Once).
LoadFailsForGood(p) ==
  /\ pc[p] \in {"download", "rename", "open"}
  /\ Leave(p)
  /\ initialized' = (initialized \/ p \in Lookups)
  /\ UNCHANGED <<latest, file, reader, held>>

\* A lookup goes on with the reader there is, and the next one tries to load again.
LoadFails(p) ==
  /\ pc[p] \in {"download", "rename", "open"}
  /\ Leave(p)
  /\ UNCHANGED <<latest, file, reader, initialized, held>>

\* Mutant: the reader is replaced without the write lock.
SwapAtOnce(p) ==
  /\ pc[p] = "swap"
  /\ reader' = got[p]
  /\ held' = [q \in Lookups |-> IF held[q] = "current" THEN "replaced" ELSE held[q]]
  /\ Goto(p, "close")
  /\ UNCHANGED <<latest, file, initialized, initMu, updateMu, got, overlap>>

\* replaceGeoIPReader, under the write lock: it waits for the lookups that read.
Swap(p) ==
  /\ pc[p] = "swap"
  /\ \A q \in Lookups : pc[q] # "read"
  /\ reader' = got[p]
  /\ held' = [q \in Lookups |-> IF held[q] = "current" THEN "replaced" ELSE held[q]]
  /\ Goto(p, "close")
  /\ UNCHANGED <<latest, file, initialized, initMu, updateMu, got, overlap>>

\* The old reader is closed when mu is unlocked again.
Close(p) ==
  /\ pc[p] = "close"
  /\ held' = [q \in Lookups |-> IF held[q] = "replaced" THEN "closed" ELSE held[q]]
  /\ initialized' = (initialized \/ p \in Lookups)
  /\ Leave(p)
  /\ UNCHANGED <<latest, file, reader>>

-----------------------------------------------------------------------------
(* Looking up *)

TakeReader(p) ==
  /\ pc[p] = "look"
  /\ \A q \in Procs : pc[q] # "swap"
  /\ held' = [held EXCEPT ![p] = IF reader = Missing THEN "none" ELSE "current"]
  /\ Goto(p, "read")
  /\ UNCHANGED <<latest, file, reader, initialized, initMu, updateMu, got, overlap>>

Answer(p) ==
  /\ pc[p] = "read"
  /\ held' = [held EXCEPT ![p] = "none"]
  /\ Goto(p, "idle")
  /\ UNCHANGED <<latest, file, reader, initialized, initMu, updateMu, got, overlap>>

-----------------------------------------------------------------------------
Publish ==
  /\ latest < MaxBuild
  /\ latest' = latest + 1
  /\ UNCHANGED <<file, reader, initialized, initMu, updateMu, pc, got, held, overlap>>

Proceed(p) ==
  \/ Download(p) \/ Rename(p) \/ Open(p) \/ LoadFails(p) \/ Swap(p) \/ Close(p)
  \/ p \in Lookups /\ (TakeReader(p) \/ Answer(p))

Enter(p) == (p \in Lookups /\ EnterInit(p)) \/ (p \in Updaters /\ EnterUpdate(p))

Next ==
  \/ \E p \in Procs : Enter(p) \/ Proceed(p)
  \/ Publish

Spec == Init /\ [][Next]_vars

\* Lookups go on, a goroutine in a mutex gets out of it, the mutexes starve nobody who waits
\* for them, and of the downloads tried again and again one succeeds.
Fairness ==
  /\ \A p \in Lookups : SF_vars(EnterInit(p)) /\ SF_vars(TakeReader(p))
  /\ \A p \in Procs : WF_vars(Proceed(p))
  /\ \A p \in Lookups : SF_vars(Download(p)) /\ SF_vars(Rename(p)) /\ SF_vars(Open(p))

FairSpec == Spec /\ Fairness

-----------------------------------------------------------------------------
(* Properties *)

\* A reader is never closed under a lookup that uses it, however loads, updates and
\* lookups overlap.
ReaderOpenWhileUsed == \A p \in Lookups : held[p] # "closed"

\* Updates, though they download at will, never put an older database in the place of a
\* newer one, on disk or in memory. Only the first load can bring that about, which holds
\* another mutex: one of the two puts in place what it has got before the other did.
OlderOnlyByFirstLoad ==
  [][/\ file' < file => overlap
     /\ reader' < reader => overlap \/ file < reader]_vars

\* A first load that failed is made good for, without a restart, and every lookup is
\* answered though it may wait for a load, an update or other lookups.
LoadedInTheEnd ==
  /\ <>[](reader # Missing)
  /\ \A p \in Lookups : pc[p] = "look" ~> pc[p] = "idle"
=============================================================================
