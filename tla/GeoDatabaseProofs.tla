--------------------------- MODULE GeoDatabaseProofs ---------------------------
(***************************************************************************)
(* Theorems of GeoDatabase, for any number of lookups, updaters and builds.*)
(*                                                                         *)
(* Readers follow from mu alone: nobody reads while a reader is replaced.  *)
(* The order of the builds follows from the two mutexes: Exclusive says    *)
(* who may be loading, and InOrder what a loader that is alone relies on.  *)
(***************************************************************************)
EXTENDS GeoDatabase, TLAPS

USE LoadAssumption
USE DEF vars, Missing

Places == {"idle", "look", "read", "download", "rename", "open", "swap", "close"}
Loading == {"download", "rename", "open", "swap", "close"}

TypeOK ==
  /\ latest \in Nat /\ file \in Nat /\ reader \in Nat
  /\ initialized \in BOOLEAN /\ overlap \in BOOLEAN
  /\ initMu \in Lookups \union {Free} /\ updateMu \in Updaters \union {Free}
  /\ pc \in [Procs -> Places]
  /\ got \in [Procs -> Nat]

\* A lookup has a reader only while it reads, under the read lock.
Readers ==
  /\ held \in [Lookups -> {"none", "current"}]
  /\ \A p \in Lookups : held[p] # "none" => pc[p] = "read"

\* Who loads holds its mutex, and who looks up is a lookup.
Exclusive ==
  /\ \A p \in Procs : pc[p] \in Loading => initMu = p \/ updateMu = p
  /\ initMu # Free /\ updateMu # Free => overlap

\* What is on its way to the disk or to the readers, while nothing else is.
InOrder ==
  /\ file <= latest
  /\ \A p \in Procs :
       /\ pc[p] \in {"rename", "swap"} => got[p] <= latest
       /\ pc[p] = "rename" /\ ~overlap => file <= got[p]
       /\ pc[p] = "swap" /\ ~overlap => got[p] = file

IInv == TypeOK /\ Readers /\ Exclusive /\ InOrder

\* The actions, without the groups that Next puts them in.
LEMMA Steps ==
  ASSUME Next
  PROVE
    \/ \E p \in Lookups : EnterInit(p) \/ TakeReader(p) \/ Answer(p)
    \/ \E p \in Updaters : EnterUpdate(p)
    \/ \E p \in Procs :
         \/ Download(p) \/ Rename(p) \/ Open(p)
         \/ LoadFails(p) \/ Swap(p) \/ Close(p)
    \/ Publish
  BY DEF Next, Enter, Proceed

LEMMA Members == Lookups \subseteq Procs /\ Updaters \subseteq Procs
  BY DEF Procs

LEMMA Types ==
  ASSUME TypeOK, Exclusive, Next
  PROVE  TypeOK'
<1>1. ASSUME NEW p \in Lookups, EnterInit(p)
      PROVE  TypeOK'
  BY <1>1, Members
  DEF TypeOK, Exclusive, Places, Loading, Procs, EnterInit, Lock, Goto
<1>2. ASSUME NEW p \in Lookups, TakeReader(p)
      PROVE  TypeOK'
  BY <1>2, Members DEF TypeOK, Exclusive, Places, Loading, Procs, TakeReader, Goto
<1>3. ASSUME NEW p \in Lookups, Answer(p)
      PROVE  TypeOK'
  BY <1>3, Members DEF TypeOK, Exclusive, Places, Loading, Procs, Answer, Goto
<1>4. ASSUME NEW p \in Updaters, EnterUpdate(p)
      PROVE  TypeOK'
  BY <1>4, Members
  DEF TypeOK, Exclusive, Places, Loading, Procs, EnterUpdate, Lock, Goto
<1>5. ASSUME NEW p \in Procs, Download(p)
      PROVE  TypeOK'
  BY <1>5, Members DEF TypeOK, Exclusive, Places, Loading, Procs, Download, Goto
<1>6. ASSUME NEW p \in Procs, Rename(p)
      PROVE  TypeOK'
  BY <1>6, Members DEF TypeOK, Exclusive, Places, Loading, Procs, Rename, Goto
<1>7. ASSUME NEW p \in Procs, Open(p)
      PROVE  TypeOK'
  BY <1>7, Members DEF TypeOK, Exclusive, Places, Loading, Procs, Open, Goto
<1>8. ASSUME NEW p \in Procs, LoadFails(p)
      PROVE  TypeOK'
  BY <1>8, Members
  DEF TypeOK, Exclusive, Places, Loading, Procs, LoadFails, Leave, Lock, Goto
<1>9. ASSUME NEW p \in Procs, Swap(p)
      PROVE  TypeOK'
  BY <1>9, Members DEF TypeOK, Exclusive, Places, Loading, Procs, Swap, Goto
<1>10. ASSUME NEW p \in Procs, Close(p)
       PROVE  TypeOK'
  BY <1>10, Members
  DEF TypeOK, Exclusive, Places, Loading, Procs, Close, Leave, Lock, Goto
<1>11. CASE Publish
  BY <1>11 DEF TypeOK, Exclusive, Places, Loading, Procs, Publish
<1> QED
  BY <1>1, <1>2, <1>3, <1>4, <1>5, <1>6, <1>7,
     <1>8, <1>9, <1>10, <1>11, Steps

LEMMA Reading ==
  ASSUME TypeOK, Readers, Next
  PROVE  Readers'
<1>1. ASSUME NEW p \in Lookups, EnterInit(p)
      PROVE  Readers'
  BY <1>1, Members DEF TypeOK, Readers, Places, EnterInit, Lock, Goto
<1>2. ASSUME NEW p \in Lookups, TakeReader(p)
      PROVE  Readers'
  BY <1>2, Members DEF TypeOK, Readers, Places, TakeReader, Goto
<1>3. ASSUME NEW p \in Lookups, Answer(p)
      PROVE  Readers'
  BY <1>3, Members DEF TypeOK, Readers, Places, Answer, Goto
<1>4. ASSUME NEW p \in Updaters, EnterUpdate(p)
      PROVE  Readers'
  BY <1>4, Members DEF TypeOK, Readers, Places, EnterUpdate, Lock, Goto
<1>5. ASSUME NEW p \in Procs, Download(p)
      PROVE  Readers'
  BY <1>5, Members DEF TypeOK, Readers, Places, Download, Goto
<1>6. ASSUME NEW p \in Procs, Rename(p)
      PROVE  Readers'
  BY <1>6, Members DEF TypeOK, Readers, Places, Rename, Goto
<1>7. ASSUME NEW p \in Procs, Open(p)
      PROVE  Readers'
  BY <1>7, Members DEF TypeOK, Readers, Places, Open, Goto
<1>8. ASSUME NEW p \in Procs, LoadFails(p)
      PROVE  Readers'
  BY <1>8, Members DEF TypeOK, Readers, Places, LoadFails, Leave, Lock, Goto
<1>9. ASSUME NEW p \in Procs, Swap(p)
      PROVE  Readers'
  BY <1>9, Members DEF TypeOK, Readers, Places, Swap, Goto
<1>10. ASSUME NEW p \in Procs, Close(p)
       PROVE  Readers'
  BY <1>10, Members DEF TypeOK, Readers, Places, Close, Leave, Lock, Goto
<1>11. CASE Publish
  BY <1>11 DEF TypeOK, Readers, Places, Publish
<1> QED
  BY <1>1, <1>2, <1>3, <1>4, <1>5, <1>6, <1>7,
     <1>8, <1>9, <1>10, <1>11, Steps

LEMMA Mutexes ==
  ASSUME TypeOK, Exclusive, Next
  PROVE  Exclusive'
<1>1. ASSUME NEW p \in Lookups, EnterInit(p)
      PROVE  Exclusive'
  BY <1>1, Members
  DEF TypeOK, Exclusive, Places, Loading, Procs, EnterInit, Lock, Goto
<1>2. ASSUME NEW p \in Lookups, TakeReader(p)
      PROVE  Exclusive'
  BY <1>2, Members DEF TypeOK, Exclusive, Places, Loading, Procs, TakeReader, Goto
<1>3. ASSUME NEW p \in Lookups, Answer(p)
      PROVE  Exclusive'
  BY <1>3, Members DEF TypeOK, Exclusive, Places, Loading, Procs, Answer, Goto
<1>4. ASSUME NEW p \in Updaters, EnterUpdate(p)
      PROVE  Exclusive'
  BY <1>4, Members
  DEF TypeOK, Exclusive, Places, Loading, Procs, EnterUpdate, Lock, Goto
<1>5. ASSUME NEW p \in Procs, Download(p)
      PROVE  Exclusive'
  BY <1>5, Members DEF TypeOK, Exclusive, Places, Loading, Procs, Download, Goto
<1>6. ASSUME NEW p \in Procs, Rename(p)
      PROVE  Exclusive'
  BY <1>6, Members DEF TypeOK, Exclusive, Places, Loading, Procs, Rename, Goto
<1>7. ASSUME NEW p \in Procs, Open(p)
      PROVE  Exclusive'
  BY <1>7, Members DEF TypeOK, Exclusive, Places, Loading, Procs, Open, Goto
<1>8. ASSUME NEW p \in Procs, LoadFails(p)
      PROVE  Exclusive'
  BY <1>8, Members
  DEF TypeOK, Exclusive, Places, Loading, Procs, LoadFails, Leave, Lock, Goto
<1>9. ASSUME NEW p \in Procs, Swap(p)
      PROVE  Exclusive'
  BY <1>9, Members DEF TypeOK, Exclusive, Places, Loading, Procs, Swap, Goto
<1>10. ASSUME NEW p \in Procs, Close(p)
       PROVE  Exclusive'
  BY <1>10, Members
  DEF TypeOK, Exclusive, Places, Loading, Procs, Close, Leave, Lock, Goto
<1>11. CASE Publish
  BY <1>11 DEF TypeOK, Exclusive, Places, Loading, Procs, Publish
<1> QED
  BY <1>1, <1>2, <1>3, <1>4, <1>5, <1>6, <1>7,
     <1>8, <1>9, <1>10, <1>11, Steps

LEMMA Order ==
  ASSUME TypeOK, Exclusive, InOrder, Next
  PROVE  InOrder'
<1>1. ASSUME NEW p \in Lookups, EnterInit(p)
      PROVE  InOrder'
  <2>1. \A q \in Procs : IF q = p THEN pc'[q] \in {"look", "download", "open"}
                          ELSE pc'[q] = pc[q]
    BY <1>1, Members DEF TypeOK, EnterInit, Goto
  <2>2. /\ UNCHANGED <<latest, file, got>>
        /\ overlap => overlap'
    BY <1>1, Members DEF TypeOK, EnterInit, Lock
  <2> QED
    BY <2>1, <2>2 DEF InOrder
<1>2. ASSUME NEW p \in Lookups, TakeReader(p)
      PROVE  InOrder'
  BY <1>2, Members
  DEF TypeOK, Exclusive, InOrder, Places, Loading, Procs, TakeReader, Goto
<1>3. ASSUME NEW p \in Lookups, Answer(p)
      PROVE  InOrder'
  BY <1>3, Members
  DEF TypeOK, Exclusive, InOrder, Places, Loading, Procs, Answer, Goto
<1>4. ASSUME NEW p \in Updaters, EnterUpdate(p)
      PROVE  InOrder'
  BY <1>4, Members
  DEF TypeOK, Exclusive, InOrder, Places, Loading, Procs, EnterUpdate, Lock, Goto
<1>5. ASSUME NEW p \in Procs, Download(p)
      PROVE  InOrder'
  BY <1>5, Members
  DEF TypeOK, Exclusive, InOrder, Places, Loading, Procs, Download, Goto
<1>6. ASSUME NEW p \in Procs, Rename(p)
      PROVE  InOrder'
  BY <1>6, Members
  DEF TypeOK, Exclusive, InOrder, Places, Loading, Procs, Rename, Goto
<1>7. ASSUME NEW p \in Procs, Open(p)
      PROVE  InOrder'
  BY <1>7, Members
  DEF TypeOK, Exclusive, InOrder, Places, Loading, Procs, Open, Goto
<1>8. ASSUME NEW p \in Procs, LoadFails(p)
      PROVE  InOrder'
  BY <1>8, Members
  DEF TypeOK, Exclusive, InOrder, Places, Loading, Procs, LoadFails, Leave, Lock, Goto
<1>9. ASSUME NEW p \in Procs, Swap(p)
      PROVE  InOrder'
  BY <1>9, Members
  DEF TypeOK, Exclusive, InOrder, Places, Loading, Procs, Swap, Goto
<1>10. ASSUME NEW p \in Procs, Close(p)
       PROVE  InOrder'
  BY <1>10, Members
  DEF TypeOK, Exclusive, InOrder, Places, Loading, Procs, Close, Leave, Lock, Goto
<1>11. CASE Publish
  BY <1>11 DEF TypeOK, Exclusive, InOrder, Places, Loading, Procs, Publish
<1> QED
  BY <1>1, <1>2, <1>3, <1>4, <1>5, <1>6, <1>7,
     <1>8, <1>9, <1>10, <1>11, Steps

-----------------------------------------------------------------------------
\* IInv holds in every state.
THEOREM Invariance == Spec => []IInv
<1>1. Init => IInv
  <2> SUFFICES ASSUME Init PROVE IInv
    OBVIOUS
  <2>1. TypeOK
    <3>1. file \in Nat /\ latest \in Nat /\ reader \in Nat /\ got \in [Procs -> Nat]
      BY DEF Init
    <3>2. pc \in [Procs -> Places]
      BY DEF Init, Places
    <3>3. /\ initMu \in Lookups \union {Free} /\ updateMu \in Updaters \union {Free}
          /\ initialized \in BOOLEAN /\ overlap \in BOOLEAN
      BY DEF Init
    <3> QED
      BY <3>1, <3>2, <3>3 DEF TypeOK
  <2>2. Readers
    BY DEF Init, Readers
  <2>3. Exclusive /\ InOrder
    BY DEF Init, Exclusive, InOrder, Loading
  <2> QED
    BY <2>1, <2>2, <2>3 DEF IInv
<1>2. IInv /\ UNCHANGED vars => IInv'
  BY DEF IInv, TypeOK, Readers, Exclusive, InOrder
<1>3. IInv /\ Next => IInv'
  BY Types, Reading, Mutexes, Order DEF IInv
<1> QED
  BY <1>1, <1>2, <1>3, PTL DEF Spec

\* No lookup ever uses a reader that has been closed.
THEOREM OpenWhileUsed == Spec => []ReaderOpenWhileUsed
<1>1. IInv => ReaderOpenWhileUsed
  BY DEF IInv, Readers, ReaderOpenWhileUsed
<1> QED
  BY <1>1, Invariance, PTL

\* An older database takes the place of a newer one only while a first load and an
\* update overlap.
THEOREM OlderOnlyInOverlap == Spec => OlderOnlyByFirstLoad
<1> DEFINE Ordered == /\ file' < file => overlap
                      /\ reader' < reader => overlap \/ file < reader
<1>1. IInv /\ Next => Ordered
  <2> SUFFICES ASSUME IInv, Next PROVE Ordered
    OBVIOUS
  <2>1. ASSUME NEW p \in Procs, Rename(p)
        PROVE  Ordered
    BY <2>1 DEF Rename, IInv, TypeOK, InOrder
  <2>2. ASSUME NEW p \in Procs, Swap(p)
        PROVE  Ordered
    BY <2>2 DEF Swap, IInv, TypeOK, InOrder
  <2>3. CASE file' = file /\ reader' = reader
    BY <2>3 DEF IInv, TypeOK
  <2>4. \/ file' = file /\ reader' = reader
        \/ \E p \in Procs : Rename(p) \/ Swap(p)
    BY Steps DEF EnterInit, TakeReader, Answer, EnterUpdate, Download, Open,
      LoadFails, Close, Publish
  <2> QED
    BY <2>1, <2>2, <2>3, <2>4
<1>2. IInv /\ [Next]_vars => [Ordered]_vars
  BY <1>1
<1>3. Spec => [][Ordered]_vars
  BY <1>2, Invariance, PTL DEF Spec
<1> QED
  BY <1>3 DEF OlderOnlyByFirstLoad
=============================================================================
