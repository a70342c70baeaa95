--------------------------- MODULE DevicesProofs ---------------------------
(***************************************************************************)
(* Proofs about the devices and their drivers: module SynchDisk, for any   *)
(* number of threads, sectors and slots of the cache and any garbage in    *)
(* the cache at the start, module Console, for any threads and whatever is *)
(* typed, module DiskTiming, for any geometry of the disk, and module      *)
(* PostOffice, for any machines, mailboxes, senders and numbers of         *)
(* attempts.                                                               *)
(***************************************************************************)
EXTENDS MCDevices, ListsProofs, FiniteSetTheorems

Entry == [valid : {-1, 1}, sector : Sector, lru : Int, data : Value]
Place == {"idle", "lock", "locked", "wait", "leave"}

TypeOK ==
  /\ lock \in Thread \union {NULL}
  /\ semaphore \in Nat
  /\ active \in BOOLEAN
  /\ disk \in [Sector -> Value]
  /\ cache \in [Slot -> Entry]
  /\ totalTicks \in Nat
  /\ pc \in [Thread -> Place]
  /\ op \in [Thread -> {"read", "write", NULL}]
  /\ sector \in [Thread -> Sector \union {NULL}]
  /\ data \in [Thread -> Value \union {NULL}]

(* Who is in a call has its arguments, who is not has none. *)
Arguments ==
  \A t \in Thread :
    IF pc[t] = "idle" THEN op[t] = NULL /\ sector[t] = NULL /\ data[t] = NULL
    ELSE /\ op[t] \in {"read", "write"}
         /\ sector[t] \in Sector
         /\ op[t] = "write" => data[t] \in Value
         /\ op[t] = "read" /\ pc[t] \in {"lock", "locked"} => data[t] = NULL

(* The thread inside the lock is the only one, and while it waits the disk *)
(* is active or has interrupted.                                           *)
Protocol ==
  /\ \A t \in Thread : pc[t] \in {"locked", "wait", "leave"} <=> lock = t
  /\ semaphore + (IF active THEN 1 ELSE 0) =
       IF lock # NULL /\ pc[lock] = "wait" THEN 1 ELSE 0

(* The inductive invariant. *)
IInv == TypeOK /\ Arguments /\ Protocol /\ CacheCoherent

-----------------------------------------------------------------------------
(* The initial state: the disk is idle and no slot is valid. *)
LEMMA InitInv == Init => IInv
<1> SUFFICES ASSUME Init PROVE IInv
  OBVIOUS
<1> USE SynchDiskAssumption
<1>1. TypeOK
  BY DEF Init, TypeOK, Place, Entry
<1>2. Arguments
  BY DEF Init, Arguments
<1>3. Protocol
  BY DEF Init, Protocol
<1>4. CacheCoherent
  BY DEF Init, CacheCoherent
<1> QED
  BY <1>1, <1>2, <1>3, <1>4 DEF IInv

(* Taking the lock: it is free, so that nobody waits and no interrupt is   *)
(* on its way.                                                             *)
LEMMA AcquireInv ==
  ASSUME IInv, NEW t \in Thread, Acquire(t) PROVE IInv'
<1> USE SynchDiskAssumption DEF IInv
<1>1. TypeOK'
  BY DEF Acquire, TypeOK, Place
<1>2. Arguments'
  BY DEF Acquire, Arguments, TypeOK
<1>3. Protocol'
  BY DEF Acquire, Protocol, TypeOK
<1>4. CacheCoherent'
  BY DEF Acquire, CacheCoherent
<1> QED
  BY <1>1, <1>2, <1>3, <1>4

(* A call leaves lock, disk and cache alone. *)
LEMMA CallInv ==
  ASSUME IInv, NEW t \in Thread, NEW s \in Sector, NEW v \in Value,
         CallRead(t, s) \/ CallWrite(t, s, v)
  PROVE  IInv'
<1> USE SynchDiskAssumption DEF IInv
<1>1. TypeOK'
  BY DEF CallRead, CallWrite, TypeOK, Place
<1>2. Arguments'
  BY DEF CallRead, CallWrite, Arguments, TypeOK
<1>3. Protocol'
  BY DEF CallRead, CallWrite, Protocol, TypeOK
<1>4. CacheCoherent'
  BY DEF CallRead, CallWrite, CacheCoherent
<1> QED
  BY <1>1, <1>2, <1>3, <1>4

(* The slot ReadSector finds is one of those that hold the sector. *)
LEMMA HitFacts ==
  ASSUME NEW s, Hits(s) # {}
  PROVE  /\ Min(Hits(s)) \in Slot
         /\ cache[Min(Hits(s))].valid = 1
         /\ cache[Min(Hits(s))].sector = s
<1>1. Hits(s) \subseteq Nat
  BY SynchDiskAssumption DEF Hits, Slot
<1>2. Min(Hits(s)) \in Hits(s)
  BY <1>1, MinFacts
<1> QED
  BY <1>2 DEF Hits

LEMMA ReadHitInv ==
  ASSUME IInv, NEW t \in Thread, ReadHit(t) PROVE IInv'
<1> USE SynchDiskAssumption DEF IInv
<1> DEFINE index == Min(Hits(sector[t]))
<1>1. /\ index \in Slot /\ cache[index].valid = 1
      /\ data' = [data EXCEPT ![t] = cache[index].data]
      /\ cache' = [cache EXCEPT ![index].lru = totalTicks]
  BY HitFacts DEF ReadHit
<1> HIDE DEF index
<1>2. TypeOK'
  <2>1. cache' \in [Slot -> Entry]
    <3>1. \A e \in Entry : [e EXCEPT !.lru = totalTicks] \in Entry
      BY DEF TypeOK, Entry
    <3> QED
      BY <1>1, <3>1 DEF TypeOK
  <2>2. data' \in [Thread -> Value \union {NULL}]
    BY <1>1 DEF TypeOK, Entry
  <2> QED
    BY <2>1, <2>2 DEF ReadHit, TypeOK, Place
<1>3. Arguments'
  BY <1>1 DEF ReadHit, Arguments, TypeOK, Entry
<1>4. Protocol'
  BY DEF ReadHit, Protocol, TypeOK
<1>5. CacheCoherent'
  BY <1>1 DEF ReadHit, CacheCoherent, TypeOK, Entry
<1> QED
  BY <1>2, <1>3, <1>4, <1>5

(* A miss fills a slot with a sector that no valid slot holds. *)
LEMMA ReadMissInv ==
  ASSUME IInv, NEW t \in Thread, ReadMiss(t) PROVE IInv'
<1> USE SynchDiskAssumption DEF IInv
<1> DEFINE swap == Swap
<1>1. /\ cache' = [cache EXCEPT ![swap] = Filled(sector[t])]
      /\ sector[t] \in Sector /\ disk' = disk
  BY DEF ReadMiss, Arguments
<1> HIDE DEF swap
<1>2. TypeOK'
  <2>1. Filled(sector[t]) \in Entry
    BY <1>1 DEF TypeOK, Entry, Filled
  <2>2. cache' \in [Slot -> Entry]
    BY <1>1, <2>1 DEF TypeOK
  <2> QED
    BY <1>1, <2>2 DEF ReadMiss, TypeOK, Place
<1>3. Arguments'
  BY <1>1 DEF ReadMiss, Arguments, TypeOK
<1>4. Protocol'
  BY DEF ReadMiss, Protocol, TypeOK
<1>5. CacheCoherent'
  BY <1>1 DEF ReadMiss, CacheCoherent, TypeOK, Hits, Filled, Entry
<1> QED
  BY <1>2, <1>3, <1>4, <1>5

(* A write invalidates every slot of its sector. *)
LEMMA WriteInv ==
  ASSUME IInv, NEW t \in Thread, Write(t) PROVE IInv'
<1> USE SynchDiskAssumption DEF IInv
<1>1. sector[t] \in Sector /\ data[t] \in Value
  BY DEF Write, Arguments
<1>2. TypeOK'
  BY <1>1 DEF Write, TypeOK, Place, Invalidated, Entry
<1>3. Arguments'
  BY <1>1 DEF Write, Arguments, TypeOK
<1>4. Protocol'
  BY DEF Write, Protocol, TypeOK
<1>5. CacheCoherent'
  BY <1>1 DEF Write, CacheCoherent, TypeOK, Invalidated, Entry
<1> QED
  BY <1>2, <1>3, <1>4, <1>5

(* The interrupt, the end of the wait and the return. *)
LEMMA ReturnInv ==
  ASSUME IInv, NEW t \in Thread,
         DiskInterrupt \/ WaitForInterrupt(t) \/ Release(t)
  PROVE  IInv'
<1> USE SynchDiskAssumption DEF IInv
<1>1. TypeOK'
  <2>1. CASE DiskInterrupt
    <3>1. semaphore' \in Nat
      BY <2>1 DEF DiskInterrupt, TypeOK
    <3>2. active' \in BOOLEAN
      BY <2>1 DEF DiskInterrupt
    <3> QED
      BY <2>1, <3>1, <3>2, Zenon DEF DiskInterrupt, TypeOK
  <2>2. CASE WaitForInterrupt(t)
    BY <2>2 DEF WaitForInterrupt, TypeOK, Place
  <2>3. CASE Release(t)
    BY <2>3 DEF Release, TypeOK, Place
  <2> QED
    BY <2>1, <2>2, <2>3
<1>2. Arguments'
  BY DEF DiskInterrupt, WaitForInterrupt, Release, Arguments, TypeOK
<1>3. Protocol'
  BY DEF DiskInterrupt, WaitForInterrupt, Release, Protocol, TypeOK
<1>4. CacheCoherent'
  BY DEF DiskInterrupt, WaitForInterrupt, Release, CacheCoherent
<1> QED
  BY <1>1, <1>2, <1>3, <1>4

LEMMA NextInv == IInv /\ [Next]_vars => IInv'
<1> SUFFICES ASSUME IInv, [Next]_vars PROVE IInv'
  OBVIOUS
<1>1. CASE UNCHANGED vars
  BY <1>1 DEF IInv, TypeOK, Arguments, Protocol, CacheCoherent, vars
<1>2. ASSUME NEW t \in Thread, NEW s \in Sector, CallRead(t, s) PROVE IInv'
  <2>1. Value # {}
    BY DEF IInv, TypeOK
  <2> QED
    BY <1>2, <2>1, CallInv
<1>3. ASSUME NEW t \in Thread, NEW s \in Sector, NEW v \in Value,
             CallWrite(t, s, v)
      PROVE  IInv'
  BY <1>3, CallInv
<1>4. ASSUME NEW t \in Thread, Acquire(t) PROVE IInv'
  BY <1>4, AcquireInv
<1>5. ASSUME NEW t \in Thread, Inside(t) PROVE IInv'
  BY <1>5, ReadHitInv, ReadMissInv, WriteInv, ReturnInv DEF Inside
<1>6. CASE DiskInterrupt
  <2>1. lock \in Thread
    BY <1>6 DEF IInv, TypeOK, Protocol, DiskInterrupt
  <2> QED
    BY <1>6, <2>1, ReturnInv
<1> QED
  BY <1>1, <1>2, <1>3, <1>4, <1>5, <1>6 DEF Next

LEMMA Invariance == Spec => []IInv
  BY InitInv, NextInv, PTL DEF Spec

-----------------------------------------------------------------------------
(* The cache never differs from the disk, and never holds a sector twice.  *)
THEOREM CacheIsCoherent == Spec => []CacheCoherent
<1>1. IInv => CacheCoherent
  BY DEF IInv
<1> QED
  BY <1>1, Invariance, PTL

(* Each request of the disk has one interrupt, and the ASSERTs of the disk *)
(* device hold.                                                            *)
LEMMA DiskInterruptsOnce == IInv => OneInterruptPerRequest
<1>1. IInv => OneInterruptPerRequest
  <2> SUFFICES ASSUME IInv PROVE OneInterruptPerRequest
    OBVIOUS
  <2> USE SynchDiskAssumption DEF IInv
  <2> DEFINE waiters == {t \in Thread : pc[t] = "wait"}
  <2>1. Cardinality(waiters) = IF lock # NULL /\ pc[lock] = "wait" THEN 1 ELSE 0
    <3>1. CASE lock # NULL /\ pc[lock] = "wait"
      <4>1. waiters = {lock}
        BY <3>1 DEF Protocol, TypeOK
      <4> QED
        BY <3>1, <4>1, FS_Singleton
    <3>2. CASE ~(lock # NULL /\ pc[lock] = "wait")
      <4>1. waiters = {}
        BY <3>2 DEF Protocol, TypeOK
      <4> QED
        BY <3>2, <4>1, FS_EmptySet
    <3> QED
      BY <3>1, <3>2
  <2>2. \A t \in Thread : pc[t] = "locked" => ~active /\ semaphore = 0
    BY DEF Protocol, TypeOK
  <2>3. \A t \in Thread : pc[t] \in {"locked", "wait", "leave"} => lock = t
    BY DEF Protocol
  <2> QED
    BY <2>1, <2>2, <2>3 DEF OneInterruptPerRequest, Protocol
<1> QED
  BY <1>1

(* The disk with its cache is an atomic disk: every step of the threads    *)
(* and of the device is a step of AtomicDisk or leaves it as it is.        *)
THEOREM DiskIsAtomic == Spec => ImplementsAtomicDisk
<1>1. Init => D!Init
  BY DEF Init, D!Init
<1>2. IInv /\ [Next]_vars => [D!Next]_(D!vars)
  <2> SUFFICES ASSUME IInv, [Next]_vars PROVE [D!Next]_(D!vars)
    OBVIOUS
  <2> USE DEF IInv
  <2>1. CASE UNCHANGED vars
    BY <2>1 DEF vars, D!vars
  <2>2. ASSUME NEW t \in Thread, NEW s \in Sector, CallRead(t, s)
        PROVE  D!CallRead(t, s)
    BY <2>2 DEF CallRead, D!CallRead, TypeOK
  <2>3. ASSUME NEW t \in Thread, NEW s \in Sector, NEW v \in Value,
               CallWrite(t, s, v)
        PROVE  D!CallWrite(t, s, v)
    BY <2>3 DEF CallWrite, D!CallWrite, TypeOK
  <2>4. ASSUME NEW t \in Thread, Acquire(t) PROVE UNCHANGED D!vars
    BY <2>4 DEF Acquire, D!vars, TypeOK
  <2>5. ASSUME NEW t \in Thread, ReadHit(t) PROVE D!Read(t)
    <3> DEFINE index == Min(Hits(sector[t]))
    <3>1. data' = [data EXCEPT ![t] = cache[index].data]
      BY <2>5 DEF ReadHit
    <3>2. /\ index \in Slot /\ cache[index].valid = 1
          /\ cache[index].sector = sector[t]
      BY <2>5, HitFacts DEF ReadHit
    <3> HIDE DEF index
    <3>3. data' = [data EXCEPT ![t] = disk[sector[t]]]
      BY <3>1, <3>2 DEF CacheCoherent
    <3>4. /\ pc[t] = "locked" /\ op[t] = "read"
          /\ pc' = [pc EXCEPT ![t] = "leave"]
          /\ UNCHANGED <<disk, op, sector>>
      BY <2>5 DEF ReadHit
    <3> QED
      BY <3>3, <3>4 DEF D!Read, TypeOK
  <2>6. ASSUME NEW t \in Thread, ReadMiss(t) PROVE D!Read(t)
    BY <2>6 DEF ReadMiss, D!Read, TypeOK
  <2>7. ASSUME NEW t \in Thread, Write(t) PROVE D!Write(t)
    BY <2>7 DEF Write, D!Write, TypeOK
  <2>8. ASSUME NEW t \in Thread, WaitForInterrupt(t) PROVE UNCHANGED D!vars
    BY <2>8 DEF WaitForInterrupt, D!vars, TypeOK
  <2>9. ASSUME NEW t \in Thread, Release(t) PROVE D!Return(t)
    BY <2>9 DEF Release, D!Return, TypeOK
  <2>10. CASE DiskInterrupt
    BY <2>10 DEF DiskInterrupt, D!vars
  <2> QED
    BY <2>1, <2>2, <2>3, <2>4, <2>5, <2>6, <2>7, <2>8, <2>9, <2>10
    DEF Next, Inside, D!Next
<1> QED
  BY <1>1, <1>2, Invariance, PTL DEF Spec, ImplementsAtomicDisk, D!Spec

-----------------------------------------------------------------------------
(* The console. *)
Letter == Char \union {EOF}

ConsoleTyped ==
  /\ keyboard \in Seq(Letter) /\ got \in Seq(Letter)
  /\ incoming \in Letter
  /\ inWait \in Nat /\ outWait \in Nat
  /\ cpc \in [User -> {"idle", "getWait", "get", "put", "putWait"}]

(* Readers and writers are one at a time inside their lock. *)
LocksHeld ==
  \A t \in User : /\ inLock = t <=> cpc[t] \in {"getWait", "get"}
                  /\ outLock = t <=> cpc[t] \in {"put", "putWait"}

(* What the readers have been told of and have not taken, and what they   *)
(* are to get at the end of the file.                                      *)
Reading == \E t \in User : cpc[t] = "get"
Pending == IF inWait = 1 \/ Reading THEN <<incoming>> ELSE << >>
AtTheEnd == IF atEnd THEN <<EOF>> ELSE << >>

Writing == \E t \in User : cpc[t] = "putWait"

(* Either the device polls, or it has told the readers of a character, or  *)
(* one of them is about to take it; at the end of the file it stops.       *)
InputOnce ==
  /\ inWait + (IF Reading THEN 1 ELSE 0) + (IF polling THEN 1 ELSE 0) <= 1
  /\ polling \/ atEnd => incoming = EOF
  /\ atEnd => ~polling
  /\ got \o Pending \o keyboard = Typed \o AtTheEnd

OutputOnce == outWait + (IF putBusy THEN 1 ELSE 0) = IF Writing THEN 1 ELSE 0

ConsoleInv == ConsoleTyped /\ LocksHeld /\ InputOnce /\ OutputOnce

(* Initially the device polls, and nothing has been typed or written. *)
LEMMA ConsoleInit == C!ConsoleAssumption /\ C!Init => ConsoleInv
<1> SUFFICES ASSUME C!ConsoleAssumption, C!Init PROVE ConsoleInv
  OBVIOUS
<1>1. Typed \in Seq(Letter) /\ NULL \notin User /\ EOF \in Letter
  BY DEF C!ConsoleAssumption, Letter
<1>2. ConsoleTyped
  BY <1>1 DEF C!Init, ConsoleTyped
<1>3. LocksHeld
  BY <1>1 DEF C!Init, LocksHeld
<1>4. ~Reading /\ ~Writing
  BY DEF C!Init, Reading, Writing
<1>5. << >> \o << >> \o Typed = Typed \o << >>
  <2>1. << >> \in Seq(Letter)
    OBVIOUS
  <2> QED
    BY <1>1, <2>1, ConcatEmptySeq
<1>6. InputOnce
  <2>1. Pending = << >> /\ AtTheEnd = << >>
    BY <1>4 DEF C!Init, Pending, AtTheEnd
  <2> QED
    BY <1>4, <1>5, <2>1 DEF C!Init, InputOnce
<1>7. OutputOnce
  BY <1>4 DEF C!Init, OutputOnce
<1> QED
  BY <1>2, <1>3, <1>6, <1>7 DEF ConsoleInv

(* The keyboard interrupts with a character, or at the end of the file. *)
LEMMA KeyboardStep ==
  ASSUME ConsoleInv, C!ReadInterrupt \/ C!EndInterrupt
  PROVE  ConsoleInv'
<1>1. ConsoleTyped /\ LocksHeld /\ InputOnce /\ OutputOnce
  BY DEF ConsoleInv
<1>2. /\ polling /\ polling' = FALSE /\ inWait' = inWait + 1
      /\ UNCHANGED <<inLock, got, putBusy, outLock, outWait, cpc>>
  BY DEF C!ReadInterrupt, C!EndInterrupt, C!outVars
<1>3. LocksHeld' /\ (Reading' <=> Reading) /\ (Writing' <=> Writing)
  BY <1>1, <1>2 DEF LocksHeld, Reading, Writing
<1>4. OutputOnce'
  BY <1>1, <1>2, <1>3 DEF OutputOnce
<1>5. inWait = 0 /\ ~Reading /\ incoming = EOF /\ ~atEnd
  BY <1>1, <1>2 DEF InputOnce, ConsoleTyped
<1>6. got \o << >> \o keyboard = Typed \o << >>
  <2>1. Pending = << >> /\ AtTheEnd = << >>
    BY <1>5 DEF Pending, AtTheEnd
  <2> QED
    BY <1>1, <2>1 DEF InputOnce
<1>7. CASE C!ReadInterrupt
  <2>1. /\ keyboard # << >> /\ incoming' = Head(keyboard)
        /\ keyboard' = Tail(keyboard) /\ atEnd' = atEnd
    BY <1>7 DEF C!ReadInterrupt
  <2>2. Head(keyboard) \in Letter /\ Tail(keyboard) \in Seq(Letter)
    BY <1>1, <2>1 DEF ConsoleTyped
  <2>3. ConsoleTyped'
    BY <1>1, <1>2, <2>1, <2>2 DEF ConsoleTyped
  <2>4. got \o <<Head(keyboard)>> \o Tail(keyboard) = got \o << >> \o keyboard
    <3>1. keyboard \in Seq(Letter) /\ got \in Seq(Letter)
      BY <1>1 DEF ConsoleTyped
    <3>2. got \o <<Head(keyboard)>> \o Tail(keyboard) = got \o keyboard
      BY <2>1, <3>1, InLine, Zenon
    <3>3. got \o << >> \o keyboard = got \o keyboard
      BY <3>1, InLine, Zenon
    <3> QED
      BY <3>2, <3>3
  <2>5. InputOnce'
    <3>1. Pending' = <<Head(keyboard)>>
      BY <1>2, <1>5, <2>1 DEF Pending
    <3>2. AtTheEnd' = << >>
      BY <1>5, <2>1 DEF AtTheEnd
    <3>3. got' \o Pending' \o keyboard' = Typed \o AtTheEnd'
      BY <1>2, <1>6, <2>1, <2>4, <3>1, <3>2
    <3>4. ~atEnd'
      BY <1>5, <2>1
    <3> HIDE <2>1
    <3> QED
      BY <1>2, <1>3, <1>5, <3>3, <3>4 DEF InputOnce
  <2> QED
    BY <1>3, <1>4, <2>3, <2>5 DEF ConsoleInv
<1>8. CASE C!EndInterrupt
  <2>1. keyboard = << >> /\ keyboard' = keyboard /\ incoming' = EOF /\ atEnd'
    BY <1>5, <1>8 DEF C!EndInterrupt
  <2>2. ConsoleTyped'
    <3>1. EOF \in Letter /\ atEnd' = TRUE
      BY <1>8 DEF Letter, C!EndInterrupt
    <3> QED
      BY <1>1, <1>2, <2>1, <3>1 DEF ConsoleTyped
  <2>3. got \o <<EOF>> \o << >> = Typed \o <<EOF>>
    <3>1. got \in Seq(Letter) /\ <<EOF>> \in Seq(Letter) /\ << >> \in Seq(Letter)
      BY <1>1 DEF ConsoleTyped, Letter
    <3>2. got \o <<EOF>> \in Seq(Letter)
      BY <3>1, ConcatProperties
    <3>3. got \o << >> \o << >> = got /\ got \o <<EOF>> \o << >> = got \o <<EOF>>
      BY <3>1, <3>2, ConcatEmptySeq
    <3>4. got = Typed \o << >>
      BY <1>6, <2>1, <3>3
    <3> QED
      BY <3>3, <3>4
  <2>5. InputOnce'
    <3>1. Pending' = <<EOF>>
      BY <1>2, <1>5, <2>1 DEF Pending
    <3>2. AtTheEnd' = <<EOF>>
      BY <2>1 DEF AtTheEnd
    <3> QED
      BY <1>2, <1>3, <1>5, <2>1, <2>3, <3>1, <3>2 DEF InputOnce
  <2> QED
    BY <1>3, <1>4, <2>2, <2>5 DEF ConsoleInv
<1> QED
  BY <1>7, <1>8

(* A reader goes on: it takes the lock, waits for a character, takes it    *)
(* and lets the device poll again.                                         *)
LEMMA ReaderStep ==
  ASSUME C!ConsoleAssumption, ConsoleInv, NEW t \in User,
         C!GetAcquire(t) \/ C!GetWait(t) \/ C!GetChar(t)
  PROVE  ConsoleInv'
<1>1. ConsoleTyped /\ LocksHeld /\ InputOnce /\ OutputOnce /\ NULL \notin User
  BY DEF ConsoleInv, C!ConsoleAssumption
<1>2. UNCHANGED <<putBusy, outLock, outWait, keyboard, atEnd>>
  BY DEF C!GetAcquire, C!GetWait, C!GetChar, C!outVars
<1>3. ASSUME NEW to \in {"idle", "getWait", "get"},
             cpc[t] \in {"idle", "getWait", "get"},
             cpc' = [cpc EXCEPT ![t] = to]
      PROVE  /\ Writing' <=> Writing
             /\ \A u \in User : u # t => cpc'[u] = cpc[u]
             /\ cpc'[t] = to
             /\ cpc' \in [User -> {"idle", "getWait", "get", "put", "putWait"}]
  BY <1>1, <1>3 DEF ConsoleTyped, Writing
<1>4. ASSUME Writing' <=> Writing PROVE OutputOnce'
  BY <1>1, <1>2, <1>4 DEF OutputOnce
<1>5. CASE C!GetAcquire(t)
  <2>1. /\ cpc[t] = "idle" /\ cpc' = [cpc EXCEPT ![t] = "getWait"]
        /\ inLock = NULL /\ inLock' = t
        /\ UNCHANGED <<incoming, polling, inWait, got>>
    BY <1>5 DEF C!GetAcquire
  <2>2. /\ Writing' <=> Writing
        /\ \A u \in User : u # t => cpc'[u] = cpc[u]
        /\ cpc'[t] = "getWait"
        /\ cpc' \in [User -> {"idle", "getWait", "get", "put", "putWait"}]
    BY <1>3, <2>1
  <2>3. LocksHeld'
    BY <1>1, <1>2, <2>1, <2>2 DEF LocksHeld
  <2>4. Reading' <=> Reading
    BY <2>1, <2>2 DEF Reading
  <2>5. ConsoleTyped'
    BY <1>1, <1>2, <2>1, <2>2 DEF ConsoleTyped
  <2>6. Pending' = Pending /\ AtTheEnd' = AtTheEnd
    BY <1>2, <2>1, <2>4 DEF Pending, AtTheEnd
  <2>7. InputOnce'
    BY <1>1, <1>2, <2>1, <2>4, <2>6 DEF InputOnce
  <2> QED
    BY <1>4, <2>2, <2>3, <2>5, <2>7 DEF ConsoleInv
<1>6. CASE C!GetWait(t)
  <2>1. /\ cpc[t] = "getWait" /\ cpc' = [cpc EXCEPT ![t] = "get"]
        /\ inWait > 0 /\ inWait' = inWait - 1
        /\ UNCHANGED <<incoming, polling, inLock, got>>
    BY <1>6 DEF C!GetWait
  <2>2. /\ Writing' <=> Writing
        /\ \A u \in User : u # t => cpc'[u] = cpc[u]
        /\ cpc'[t] = "get"
        /\ cpc' \in [User -> {"idle", "getWait", "get", "put", "putWait"}]
    BY <1>3, <2>1
  <2>3. LocksHeld'
    BY <1>1, <1>2, <2>1, <2>2 DEF LocksHeld
  <2>4. Reading'
    BY <2>2 DEF Reading
  <2>5. inWait = 1 /\ inWait' = 0 /\ ~Reading /\ ~polling
    BY <1>1, <2>1 DEF InputOnce, ConsoleTyped
  <2>6. ConsoleTyped'
    BY <1>1, <1>2, <2>1, <2>2, <2>5 DEF ConsoleTyped
  <2>7. Pending' = Pending /\ AtTheEnd' = AtTheEnd
    BY <1>2, <2>1, <2>4, <2>5 DEF Pending, AtTheEnd
  <2>8. InputOnce'
    BY <1>1, <1>2, <2>1, <2>4, <2>5, <2>7 DEF InputOnce
  <2> QED
    BY <1>4, <2>2, <2>3, <2>6, <2>8 DEF ConsoleInv
<1>7. CASE C!GetChar(t)
  <2>1. /\ cpc[t] = "get" /\ cpc' = [cpc EXCEPT ![t] = "idle"]
        /\ got' = Append(got, incoming) /\ incoming' = EOF
        /\ inWait' = inWait /\ inLock' = NULL
    BY <1>7 DEF C!GetChar
  <2>2. /\ Writing' <=> Writing
        /\ \A u \in User : u # t => cpc'[u] = cpc[u]
        /\ cpc'[t] = "idle"
        /\ cpc' \in [User -> {"idle", "getWait", "get", "put", "putWait"}]
    BY <1>3, <2>1
  <2>3. inLock = t
    BY <1>1, <2>1 DEF LocksHeld
  <2>4. LocksHeld' /\ ~Reading'
    BY <1>1, <1>2, <2>1, <2>2, <2>3 DEF LocksHeld, Reading
  <2>5. Reading /\ inWait = 0 /\ ~polling
    BY <1>1, <2>1 DEF InputOnce, ConsoleTyped, Reading
  <2>6. /\ got \in Seq(Letter) /\ incoming \in Letter /\ EOF \in Letter
        /\ << >> \in Seq(Letter)
    BY <1>1 DEF ConsoleTyped, Letter
  <2>7. ConsoleTyped'
    BY <1>1, <1>2, <2>1, <2>2, <2>6 DEF ConsoleTyped
  <2>8. /\ Pending = <<incoming>> /\ Pending' = << >> /\ AtTheEnd' = AtTheEnd
    BY <1>2, <2>1, <2>4, <2>5 DEF Pending, AtTheEnd
  <2>9. got' \o Pending' = got \o Pending
    <3>1. Append(got, incoming) \in Seq(Letter)
      BY <2>6
    <3>2. Append(got, incoming) \o << >> = Append(got, incoming)
      BY <3>1, ConcatEmptySeq
    <3>3. Append(got, incoming) = got \o <<incoming>>
      BY <2>6, AppendIsConcat
    <3> QED
      BY <2>1, <2>8, <3>2, <3>3
  <2>10. atEnd => incoming = EOF
    BY <1>1 DEF InputOnce
  <2>11. polling' <=> incoming # EOF
    BY <1>7, <2>5 DEF C!GetChar
  <2>12. got' \o Pending' \o keyboard' = Typed \o AtTheEnd'
    BY <1>1, <1>2, <2>8, <2>9 DEF InputOnce
  <2>13. atEnd' => ~polling'
    BY <1>2, <2>10, <2>11
  <2>14. InputOnce'
    BY <2>1, <2>4, <2>5, <2>12, <2>13 DEF InputOnce
  <2> QED
    BY <1>4, <2>2, <2>4, <2>7, <2>14 DEF ConsoleInv
<1> QED
  BY <1>5, <1>6, <1>7

(* A writer goes on: it takes the lock, gives its character to the device  *)
(* and waits for the interrupt.                                            *)
LEMMA WriterStep ==
  ASSUME C!ConsoleAssumption, ConsoleInv, NEW t \in User,
         \/ \E ch \in Char : C!PutAcquire(t, ch)
         \/ C!PutChar(t)
         \/ C!PutWait(t)
  PROVE  ConsoleInv'
<1>1. ConsoleTyped /\ LocksHeld /\ InputOnce /\ OutputOnce /\ NULL \notin User
  BY DEF ConsoleInv, C!ConsoleAssumption
<1>2. UNCHANGED <<keyboard, atEnd, incoming, polling, inLock, inWait, got>>
  BY DEF C!PutAcquire, C!PutChar, C!PutWait, C!inVars
<1>3. ASSUME NEW to \in {"idle", "put", "putWait"},
             cpc[t] \in {"idle", "put", "putWait"},
             cpc' = [cpc EXCEPT ![t] = to], outWait' \in Nat
      PROVE  /\ ConsoleTyped' /\ InputOnce'
             /\ \A u \in User : u # t => cpc'[u] = cpc[u]
             /\ cpc'[t] = to
  <2>1. /\ \A u \in User : u # t => cpc'[u] = cpc[u]
        /\ cpc'[t] = to
        /\ cpc' \in [User -> {"idle", "getWait", "get", "put", "putWait"}]
    BY <1>1, <1>3 DEF ConsoleTyped
  <2>2. Reading' <=> Reading
    BY <1>3, <2>1 DEF Reading
  <2>3. Pending' = Pending /\ AtTheEnd' = AtTheEnd
    BY <1>2, <2>2 DEF Pending, AtTheEnd
  <2>4. InputOnce'
    BY <1>1, <1>2, <2>2, <2>3 DEF InputOnce
  <2>5. ConsoleTyped'
    BY <1>1, <1>2, <1>3, <2>1 DEF ConsoleTyped
  <2> QED
    BY <2>1, <2>4, <2>5
<1>4. ASSUME outLock = NULL \/ outLock = t, cpc[t] # "putWait"
      PROVE  ~Writing /\ outWait = 0 /\ ~putBusy
  <2>1. ~Writing
    BY <1>1, <1>4 DEF LocksHeld, Writing
  <2> QED
    BY <1>1, <2>1 DEF OutputOnce, ConsoleTyped
<1>5. CASE \E ch \in Char : C!PutAcquire(t, ch)
  <2>1. /\ cpc[t] = "idle" /\ cpc' = [cpc EXCEPT ![t] = "put"]
        /\ outLock = NULL /\ outLock' = t
        /\ UNCHANGED <<putBusy, outWait>>
    BY <1>5 DEF C!PutAcquire
  <2>2. /\ ConsoleTyped' /\ InputOnce' /\ cpc'[t] = "put"
        /\ \A u \in User : u # t => cpc'[u] = cpc[u]
    BY <1>1, <1>3, <2>1 DEF ConsoleTyped
  <2>3. LocksHeld' /\ (Writing' <=> Writing)
    BY <1>1, <1>2, <2>1, <2>2 DEF LocksHeld, Writing
  <2>4. OutputOnce'
    BY <1>1, <2>1, <2>3 DEF OutputOnce
  <2> QED
    BY <2>2, <2>3, <2>4 DEF ConsoleInv
<1>6. CASE C!PutChar(t)
  <2>1. /\ cpc[t] = "put" /\ cpc' = [cpc EXCEPT ![t] = "putWait"]
        /\ putBusy' /\ UNCHANGED <<outLock, outWait>>
    BY <1>6 DEF C!PutChar
  <2>2. /\ ConsoleTyped' /\ InputOnce' /\ cpc'[t] = "putWait"
        /\ \A u \in User : u # t => cpc'[u] = cpc[u]
    BY <1>1, <1>3, <2>1 DEF ConsoleTyped
  <2>3. LocksHeld' /\ Writing' /\ outLock = t
    BY <1>1, <1>2, <2>1, <2>2 DEF LocksHeld, Writing
  <2>4. OutputOnce'
    BY <1>4, <2>1, <2>3 DEF OutputOnce
  <2> QED
    BY <2>2, <2>3, <2>4 DEF ConsoleInv
<1>7. CASE C!PutWait(t)
  <2>1. /\ cpc[t] = "putWait" /\ cpc' = [cpc EXCEPT ![t] = "idle"]
        /\ outWait > 0 /\ outWait' = outWait - 1 /\ outLock' = NULL
        /\ putBusy' = putBusy
    BY <1>7 DEF C!PutWait
  <2>2. outWait = 1 /\ outWait' = 0 /\ ~putBusy
    BY <1>1, <2>1 DEF OutputOnce, ConsoleTyped
  <2>3. /\ ConsoleTyped' /\ InputOnce' /\ cpc'[t] = "idle"
        /\ \A u \in User : u # t => cpc'[u] = cpc[u]
    BY <1>3, <2>1, <2>2
  <2>4. LocksHeld' /\ ~Writing'
    BY <1>1, <1>2, <2>1, <2>3 DEF LocksHeld, Writing
  <2>5. OutputOnce'
    BY <2>1, <2>2, <2>4 DEF OutputOnce
  <2> QED
    BY <2>3, <2>4, <2>5 DEF ConsoleInv
<1> QED
  BY <1>5, <1>6, <1>7

(* Every step of the console keeps the invariant. *)
LEMMA ConsoleNext ==
  C!ConsoleAssumption /\ ConsoleInv /\ [C!Next]_(C!vars) => ConsoleInv'
<1> SUFFICES ASSUME C!ConsoleAssumption, ConsoleInv, [C!Next]_(C!vars)
             PROVE  ConsoleInv'
  OBVIOUS
<1>1. CASE C!WriteInterrupt
  <2>1. /\ putBusy /\ ~putBusy' /\ outWait' = outWait + 1
        /\ UNCHANGED <<keyboard, atEnd, incoming, polling, inLock, inWait, got>>
        /\ UNCHANGED <<outLock, cpc>>
    BY <1>1 DEF C!WriteInterrupt, C!inVars
  <2>2. ConsoleTyped' /\ LocksHeld'
    BY <2>1 DEF ConsoleInv, ConsoleTyped, LocksHeld
  <2>3. InputOnce'
    BY <2>1 DEF ConsoleInv, InputOnce, Pending, AtTheEnd, Reading
  <2>4. OutputOnce'
    BY <2>1 DEF ConsoleInv, OutputOnce, Writing, ConsoleTyped
  <2> QED
    BY <2>2, <2>3, <2>4 DEF ConsoleInv
<1>2. CASE UNCHANGED C!vars
  BY <1>2 DEF C!vars, C!inVars, C!outVars, ConsoleInv, ConsoleTyped, LocksHeld,
              InputOnce, Pending, AtTheEnd, Reading, OutputOnce, Writing
<1> QED
  BY <1>1, <1>2, KeyboardStep, ReaderStep, WriterStep DEF C!Next

(* Readers of the console get what has been typed, in that order, with     *)
(* nothing lost or repeated, and EOF at the end of the file.               *)
LEMMA InputIsInOrder == ConsoleInv => C!InputInOrder
<1>1. ConsoleInv => C!InputInOrder
  <2>1. C!CharPending <=> inWait = 1 \/ Reading
    BY DEF C!CharPending, Reading
  <2>2. Pending = IF C!CharPending THEN <<incoming>> ELSE << >>
    BY <2>1 DEF Pending
  <2> QED
    BY <2>2 DEF ConsoleInv, InputOnce, AtTheEnd, C!InputInOrder
<1> QED
  BY <1>1

(* The ASSERTs on incoming and putBusy in console.cc hold, and each        *)
(* character written has one interrupt, which ends the PutChar it belongs  *)
(* to.                                                                     *)
LEMMA ConsoleInterruptsOnce ==
  ConsoleInv => C!PollsWhenEmpty /\ C!OneInterruptPerChar
<1>1. ConsoleInv => C!PollsWhenEmpty
  BY DEF ConsoleInv, InputOnce, ConsoleTyped, Reading, C!PollsWhenEmpty,
         C!CharPending
<1>2. ConsoleInv => C!OneInterruptPerChar
  <2> SUFFICES ASSUME ConsoleInv PROVE C!OneInterruptPerChar
    OBVIOUS
  <2>1. LocksHeld /\ OutputOnce /\ outWait \in Nat
    BY DEF ConsoleInv, ConsoleTyped
  <2>2. ASSUME NEW t \in User, cpc[t] = "put" PROVE ~putBusy
    <3>1. ~Writing
      BY <2>1, <2>2 DEF LocksHeld, Writing
    <3> QED
      BY <2>1, <3>1 DEF OutputOnce
  <2>3. Cardinality({t \in User : cpc[t] = "putWait"}) = IF Writing THEN 1 ELSE 0
    <3> DEFINE W == {t \in User : cpc[t] = "putWait"}
    <3>1. CASE ~Writing
      <4>1. W = {}
        BY <3>1 DEF Writing
      <4> QED
        BY <3>1, <4>1, FS_EmptySet
    <3>2. CASE Writing
      <4>1. PICK t \in User : cpc[t] = "putWait"
        BY <3>2 DEF Writing
      <4>2. W = {t}
        BY <2>1, <4>1 DEF LocksHeld
      <4>3. Cardinality({t}) = 1
        BY FS_Singleton
      <4> QED
        BY <3>2, <4>2, <4>3
    <3> QED
      BY <3>1, <3>2
  <2>4. \A S : C!Cardinality(S) = Cardinality(S)
    BY DEF C!Cardinality, Cardinality
  <2> QED
    BY <2>1, <2>2, <2>3, <2>4 DEF OutputOnce, C!OneInterruptPerChar
<1> QED
  BY <1>1, <1>2

-----------------------------------------------------------------------------
(* The timing of the disk. *)

(* The head is at the beginning of a sector after RotationAfter. *)
LEMMA RoundUp ==
  ASSUME NEW a \in Nat, NEW r \in Nat \ {0}
  PROVE  \E k \in Nat :
           /\ a + (IF a % r > 0 THEN r - (a % r) ELSE 0) = k * r
           /\ a <= k * r /\ k * r < a + r
<1>1. PICK q \in Int, m \in Int : q = a \div r /\ m = a % r
  <2>1. a \div r \in Int /\ a % r \in Int
    BY DivMod
  <2> QED
    BY <2>1, Zenon
<1>2. 0 <= m /\ m < r /\ a = q * r + m
  BY <1>1, DivMod
<1>3. q >= 0
  <2> SUFFICES ASSUME q <= -1 PROVE FALSE
    BY <1>1
  <2>1. q * r <= -r
    OBVIOUS
  <2> QED
    BY <1>2, <2>1
<1>4. (q + 1) * r = q * r + r
  OBVIOUS
<1>5. PICK p \in Int : p = q * r
  BY <1>1
<1>6. CASE m = 0
  <2>1. q \in Nat /\ a + 0 = q * r /\ a <= q * r /\ q * r < a + r
    BY <1>2, <1>3, <1>5, <1>6
  <2> QED
    BY <1>1, <1>6, <2>1
<1>7. CASE m > 0
  <2>1. PICK k \in Nat : k = q + 1
    BY <1>1, <1>3
  <2>2. /\ a + (r - m) = k * r
        /\ a <= k * r /\ k * r < a + r
    BY <1>2, <1>4, <1>5, <1>7, <2>1
  <2>3. (IF a % r > 0 THEN r - (a % r) ELSE 0) = r - m
    <3>1. a % r > 0
      BY <1>1, <1>7
    <3>2. r - (a % r) = r - m
      BY <1>1, Zenon
    <3> QED
      BY <3>1, <3>2, Zenon
  <2> QED
    BY <2>2, <2>3, Zenon
<1> QED
  BY <1>2, <1>6, <1>7

(* Disk::ModuloDiff: so many sectors after "from", "to" passes. *)
LEMMA ModuloDiffFacts ==
  ASSUME T!DiskTimingAssumption, NEW to \in Nat, NEW from \in Nat
  PROVE  /\ T!ModuloDiff(to, from) \in 0..(SectorsPerTrack - 1)
         /\ T!Passes(from + T!ModuloDiff(to, from), to)
<1>1. PICK s \in Nat \ {0} : s = SectorsPerTrack
  BY DEF T!DiskTimingAssumption
<1>2. PICK rt \in Int, rf \in Int, qf \in Int :
        rt = to % s /\ rf = from % s /\ qf = from \div s
  <2>1. to % s \in Int /\ from % s \in Int /\ from \div s \in Int
    BY DivMod
  <2> QED
    BY <2>1, Zenon
<1>3. 0 <= rt /\ rt < s /\ from = qf * s + rf
  BY <1>2, DivMod
<1>4. PICK x \in Int : x = rt - rf + s
  <2>1. rt - rf + s \in Int
    OBVIOUS
  <2> QED
    BY <2>1
<1>5. PICK d \in Int, k \in Int : d = x % s /\ k = x \div s
  BY DivMod
<1>6. d \in 0..(s - 1) /\ x = k * s + d
  BY <1>5, DivMod
<1>7. PICK q \in Int : q = qf + 1 - k
  <2>1. qf + 1 - k \in Int
    OBVIOUS
  <2> QED
    BY <2>1
<1>8. from + d = q * s + rt
  <2> HIDE <1>1, <1>2, <1>5
  <2>1. q * s = qf * s + s - k * s
    BY <1>7
  <2>2. PICK p1 \in Int, p2 \in Int : p1 = qf * s /\ p2 = k * s
    OBVIOUS
  <2> QED
    BY <1>3, <1>4, <1>6, <2>1, <2>2
<1>9. (from + d) % s = rt
  <2> HIDE <1>1, <1>2, <1>5
  <2>1. PICK f \in Int : f = from + d
    OBVIOUS
  <2>2. f = q * s + rt
    BY <1>8, <2>1
  <2>3. f % s = rt
    BY <1>3, <2>2, DivMod
  <2> QED
    BY <2>1, <2>3
<1>10. T!ModuloDiff(to, from) = d
  BY <1>1, <1>2, <1>4, <1>5, Zenon DEF T!ModuloDiff
<1> QED
  BY <1>1, <1>2, <1>6, <1>9, <1>10 DEF T!Passes

(* Either the sector is waited for and transferred, or a sector that has   *)
(* passed since the track buffer began to be loaded is read from it.       *)
DoneOnTime(s, w, seek, lat, arrival) ==
  /\ lat \in Nat
  /\ \E k \in Nat : T!TimeAfter(seek) = k * RotationTime
  /\ \/ \E last \in Nat :
          /\ ticks + lat = (last + 1) * RotationTime
          /\ T!Passes(last, s)
          /\ last * RotationTime >= arrival
          /\ last * RotationTime < arrival + SectorsPerTrack * RotationTime
     \/ /\ ~w /\ seek = 0 /\ lat = RotationTime
        /\ \E slot \in Nat : /\ T!Passes(slot, s)
                             /\ bufferInit <= slot * RotationTime
                             /\ slot * RotationTime < arrival

(* Disk::ComputeLatency does that. *)
LEMMA LatencyFacts ==
  ASSUME T!DiskTimingAssumption, ticks \in Nat, NEW kb \in Nat,
         bufferInit = kb * RotationTime, NEW s \in Nat, NEW seek \in Nat,
         NEW w \in BOOLEAN, NEW lat, lat = T!Latency(s, w, seek),
         NEW arrival, arrival = ticks + seek
  PROVE  DoneOnTime(s, w, seek, lat, arrival)
<1>1. PICK R \in Nat \ {0} : R = RotationTime
  BY DEF T!DiskTimingAssumption
<1>2. PICK S \in Nat \ {0} : S = SectorsPerTrack
  BY DEF T!DiskTimingAssumption
<1>3. arrival \in Nat
  OBVIOUS
<1>4. PICK k \in Nat :
        /\ arrival + (IF arrival % R > 0 THEN R - (arrival % R) ELSE 0) = k * R
        /\ arrival <= k * R /\ k * R < arrival + R
  BY <1>3, RoundUp
<1>5. PICK rot : rot = T!RotationAfter(seek)
  OBVIOUS
<1>6. rot = IF arrival % R > 0 THEN R - (arrival % R) ELSE 0
  BY <1>1, <1>5, Zenon DEF T!RotationAfter
<1>7. rot \in Nat
  <2>1. arrival % R \in Int /\ arrival % R < R
    BY <1>3, DivMod
  <2> QED
    BY <1>6, <2>1
<1>8. T!TimeAfter(seek) = k * R /\ arrival + rot = k * R
  BY <1>4, <1>5, <1>6, Zenon DEF T!TimeAfter
<1>9. \A q \in Nat : (q * R) \div R = q
  <2> SUFFICES ASSUME NEW q \in Nat PROVE (q * R) \div R = q
    OBVIOUS
  <2>1. PICK x \in Int : x = q * R
    OBVIOUS
  <2>2. x = q * R + 0
    BY <2>1
  <2>3. x \div R = q
    BY <2>2, DivMod
  <2> QED
    BY <2>1, <2>3
<1>10. PICK buffered \in BOOLEAN :
         buffered <=> ~w /\ T!Buffered(s, seek, T!TimeAfter(seek))
  OBVIOUS
<1>11. CASE ~buffered
  <2>1. PICK d \in 0..(S - 1) : d = T!ModuloDiff(s, k) /\ T!Passes(k + d, s)
    BY <1>2, ModuloDiffFacts
  <2>2. lat = seek + rot + R + d * R
    <3>1. lat = seek + T!RotationAfter(seek) + RotationTime
                  + T!ModuloDiff(s, T!TimeAfter(seek) \div RotationTime) * RotationTime
      BY <1>10, <1>11 DEF T!Latency
    <3>2. T!TimeAfter(seek) \div RotationTime = k
      BY <1>1, <1>8, <1>9
    <3> QED
      BY <1>1, <1>5, <2>1, <3>1, <3>2
  <2>3. PICK dR \in Nat, kR \in Nat, SR \in Nat :
          dR = d * R /\ kR = k * R /\ SR = S * R
    OBVIOUS
  <2>4. dR <= SR - R
    <3>1. d * R <= (S - 1) * R
      <4>1. S - 1 - d \in Nat
        OBVIOUS
      <4>2. PICK e \in Nat : e = S - 1 - d
        BY <4>1
      <4>3. e * R \in Nat
        OBVIOUS
      <4>4. (S - 1) * R = d * R + e * R
        BY <4>2
      <4> QED
        BY <2>3, <4>3, <4>4
    <3>2. (S - 1) * R = S * R - R
      OBVIOUS
    <3> QED
      BY <2>3, <3>1, <3>2
  <2>5. PICK last \in Nat : last = k + d
    OBVIOUS
  <2>6. last * R = kR + dR /\ (last + 1) * R = kR + dR + R
    BY <2>3, <2>5
  <2>7. lat \in Nat /\ ticks + lat = kR + dR + R
    <3>1. lat = seek + rot + R + dR /\ ticks + seek + rot = kR
      BY <1>8, <2>2, <2>3
    <3> QED
      BY <1>7, <3>1
  <2>8. kR + dR >= arrival /\ kR + dR < arrival + SR
    BY <1>3, <1>4, <2>3, <2>4
  <2>9. /\ ticks + lat = (last + 1) * R
        /\ T!Passes(last, s)
        /\ last * R >= arrival
        /\ last * R < arrival + S * R
    BY <2>1, <2>3, <2>5, <2>6, <2>7, <2>8
  <2> QED
    BY <1>1, <1>2, <1>8, <2>7, <2>9, Zenon DEF DoneOnTime
<1>12. CASE buffered
  <2>1. ~w /\ seek = 0 /\ lat = R
    BY <1>1, <1>10, <1>12 DEF T!Latency, T!Buffered
  <2>2. PICK d \in 0..(S - 1) : d = T!ModuloDiff(s, kb) /\ T!Passes(kb + d, s)
    BY <1>2, ModuloDiffFacts
  <2>3. (k * R - kb * R) \div R > d
    <3>1. (T!TimeAfter(seek) - bufferInit) \div RotationTime >
            T!ModuloDiff(s, bufferInit \div RotationTime)
      BY <1>10, <1>12 DEF T!Buffered
    <3>2. bufferInit = kb * R /\ bufferInit \div RotationTime = kb
      BY <1>1, <1>9
    <3> QED
      BY <1>1, <1>8, <2>2, <3>1, <3>2, Zenon
  <2>4. k - kb > d
    <3>1. PICK x \in Int, q \in Int : x = k * R - kb * R /\ q = k - kb
      OBVIOUS
    <3>2. x = q * R + 0
      BY <3>1
    <3>3. x \div R = q
      BY <3>2, DivMod
    <3> QED
      BY <2>3, <3>1, <3>3
  <2>5. PICK slot \in Nat : slot = kb + d
    OBVIOUS
  <2>6. kb * R <= slot * R /\ slot * R + R <= k * R
    <3>1. PICK e \in Nat : k = slot + 1 + e
      <4>1. k - slot - 1 \in Nat
        BY <2>4, <2>5
      <4>2. k = slot + 1 + (k - slot - 1)
        OBVIOUS
      <4> QED
        BY <4>1, <4>2
    <3>2. slot * R = kb * R + d * R /\ k * R = slot * R + R + e * R
      BY <2>5, <3>1
    <3>3. /\ d * R \in Nat /\ e * R \in Nat /\ kb * R \in Nat
          /\ slot * R \in Nat /\ k * R \in Nat
      OBVIOUS
    <3> QED
      BY <3>2, <3>3
  <2>7. slot * R < arrival
    <3>1. PICK x \in Nat, y \in Nat : x = slot * R /\ y = k * R
      OBVIOUS
    <3> QED
      BY <1>3, <1>4, <2>6, <3>1
  <2>8. T!Passes(slot, s) /\ bufferInit <= slot * R
    BY <1>1, <2>2, <2>5, <2>6
  <2> QED
    BY <1>1, <1>8, <2>1, <2>7, <2>8 DEF DoneOnTime
<1> QED
  BY <1>11, <1>12

(* The track buffer begins with a whole sector; a request under way ends.  *)
TimingInv ==
  /\ ticks \in Nat /\ lastSector \in Nat
  /\ \E kb \in Nat : bufferInit = kb * RotationTime
  /\ busy => request.at + request.latency \in Nat
  /\ T!LatencyIsPhysical

(* Disk::ReadRequest and Disk::WriteRequest schedule the interrupt for the *)
(* time at which the hardware is done.                                     *)
LEMMA RequestStep ==
  ASSUME T!DiskTimingAssumption, TimingInv, NEW s \in T!SectorNumber,
         T!ReadRequest(s) \/ T!WriteRequest(s)
  PROVE  TimingInv'
<1>1. PICK w \in BOOLEAN : request' = T!Requested(s, w)
  BY DEF T!ReadRequest, T!WriteRequest
<1>2. ticks' = ticks /\ ticks \in Nat /\ T!UpdateLast(s)
  BY DEF T!ReadRequest, T!WriteRequest, TimingInv
<1>3. PICK kb \in Nat : bufferInit = kb * RotationTime
  BY DEF TimingInv
<1>4. s \in Nat
  BY DEF T!SectorNumber
<1>5. PICK track : track = lastSector \div SectorsPerTrack
  OBVIOUS
<1>6. PICK far \in Nat : far = T!Distance(s \div SectorsPerTrack, track)
  <2>1. track \in Int /\ s \div SectorsPerTrack \in Int
    BY <1>4, <1>5, DivMod DEF TimingInv, T!DiskTimingAssumption
  <2>2. \A a, b \in Int : T!Distance(a, b) \in Nat
    BY DEF T!Distance
  <2> QED
    BY <2>1, <2>2
<1>7. PICK seek \in Nat : seek = far * SeekTime /\ seek = SeekTime * far
  BY DEF T!DiskTimingAssumption
<1>8. T!Seek(s) = seek
  BY <1>5, <1>6, <1>7, Zenon DEF T!Seek
<1>9. PICK lat : lat = T!Latency(s, w, seek)
  OBVIOUS
<1>10. /\ request'.sector = s /\ request'.writing = w /\ request'.at = ticks
       /\ request'.latency = lat /\ request'.track = track
       /\ request'.buffer = bufferInit
  BY <1>1, <1>5, <1>8, <1>9 DEF T!Requested
<1>11. PICK arrival \in Nat : arrival = ticks + seek
  BY <1>2
<1>12. PICK R \in Nat \ {0} : R = RotationTime
  BY DEF T!DiskTimingAssumption
<1>13. /\ lat \in Nat
       /\ \E k \in Nat : T!TimeAfter(seek) = k * R
       /\ \/ \E last \in Nat :
               /\ ticks + lat = (last + 1) * R
               /\ T!Passes(last, s)
               /\ last * R >= arrival
               /\ last * R < arrival + SectorsPerTrack * R
          \/ /\ ~w /\ seek = 0 /\ lat = R
             /\ \E slot \in Nat : /\ T!Passes(slot, s)
                                  /\ bufferInit <= slot * R
                                  /\ slot * R < arrival
  <2>1. ticks \in Nat
    BY <1>2
  <2>2. DoneOnTime(s, w, seek, lat, arrival)
    BY <1>3, <1>4, <1>9, <1>11, <2>1, LatencyFacts
  <2> QED
    BY <1>12, <2>2 DEF DoneOnTime
<1>14. \E k \in Nat : bufferInit' = k * RotationTime
  BY <1>2, <1>3, <1>8, <1>12, <1>13 DEF T!UpdateLast
<1>15. T!LatencyIsPhysical'
  <2>1. request'.at + SeekTime *
          T!Distance(request'.sector \div SectorsPerTrack, request'.track)
          = arrival
    BY <1>6, <1>7, <1>10, <1>11
  <2>2. CASE \E last \in Nat :
               /\ ticks + lat = (last + 1) * R
               /\ T!Passes(last, s)
               /\ last * R >= arrival
               /\ last * R < arrival + SectorsPerTrack * R
    <3>1. PICK last \in Nat :
            /\ ticks + lat = (last + 1) * R
            /\ T!Passes(last, s)
            /\ last * R >= arrival
            /\ last * R < arrival + SectorsPerTrack * R
      BY <2>2
    <3>2. PICK done \in Int, q \in Int : done = ticks + lat /\ q = last + 1
      BY <1>2, <1>13
    <3>3. done = q * R + 0
      BY <3>1, <3>2
    <3>4. done \div R = q /\ done % R = 0
      BY <3>3, DivMod
    <3>5. request'.at + request'.latency = done
      BY <1>10, <3>2
    <3>6. (request'.at + request'.latency) \div RotationTime - 1 = last
      BY <1>12, <3>2, <3>4, <3>5
    <3>7. (request'.at + request'.latency) % RotationTime = 0
      BY <1>12, <3>4, <3>5
    <3> HIDE <3>2, <3>3
    <3> QED
      BY <1>10, <1>12, <2>1, <3>1, <3>6, <3>7 DEF T!LatencyIsPhysical
  <2>3. CASE /\ ~w /\ seek = 0 /\ lat = R
             /\ \E slot \in Nat : /\ T!Passes(slot, s)
                                  /\ bufferInit <= slot * R
                                  /\ slot * R < arrival
    <3>1. PICK slot \in Nat : /\ T!Passes(slot, s)
                              /\ bufferInit <= slot * R
                              /\ slot * R < arrival
      BY <2>3
    <3>2. PICK q \in Int, r \in Int : q = arrival \div R /\ r = arrival % R
      <4>1. arrival \div R \in Int /\ arrival % R \in Int
        BY DivMod
      <4> QED
        BY <4>1, Zenon
    <3>3. arrival = q * R + r /\ r < R
      BY <3>2, DivMod
    <3>4. slot <= q
      <4> HIDE <3>2
      <4> SUFFICES ASSUME slot >= q + 1 PROVE FALSE
        OBVIOUS
      <4>1. PICK e \in Nat : slot = q + 1 + e
        <5>1. slot - q - 1 \in Nat /\ slot = q + 1 + (slot - q - 1)
          OBVIOUS
        <5> QED
          BY <5>1
      <4>2. slot * R = q * R + R + e * R
        BY <4>1
      <4>3. PICK x \in Int, y \in Nat, z \in Int :
              x = q * R /\ y = e * R /\ z = slot * R
        OBVIOUS
      <4> QED
        BY <3>1, <3>3, <4>2, <4>3
    <3>5. slot \in 0..(arrival \div RotationTime)
      BY <1>12, <3>2, <3>4
    <3>6. arrival = request'.at
      BY <1>2, <1>10, <1>11, <2>3
    <3> HIDE <3>2, <3>3
    <3> QED
      BY <1>10, <1>12, <2>1, <2>3, <3>1, <3>5, <3>6 DEF T!LatencyIsPhysical
  <2> QED
    BY <1>13, <2>2, <2>3
<1>16. ticks' \in Nat /\ lastSector' \in Nat
  BY <1>2, <1>4 DEF T!UpdateLast
<1>17. request'.at + request'.latency \in Nat
  BY <1>2, <1>10, <1>13
<1> QED
  BY <1>14, <1>15, <1>16, <1>17 DEF TimingInv

(* Whatever the requests and their times, the interrupt of the disk comes  *)
(* when the rotating disk is done with the sector, or, for a read, after   *)
(* one transfer if the track buffer has it.                                *)
LEMMA TimingInit == T!DiskTimingAssumption /\ T!Init => TimingInv
<1> SUFFICES ASSUME T!DiskTimingAssumption, T!Init PROVE TimingInv
  OBVIOUS
<1>1. 0 = 0 * RotationTime
  BY DEF T!DiskTimingAssumption
<1> QED
  BY <1>1 DEF T!Init, TimingInv, T!LatencyIsPhysical

(* Only a request changes what the invariant says. *)
LEMMA TimingNext ==
  T!DiskTimingAssumption /\ TimingInv /\ [T!Next]_(T!vars) => TimingInv'
<1> SUFFICES ASSUME T!DiskTimingAssumption, TimingInv, [T!Next]_(T!vars)
             PROVE  TimingInv'
  OBVIOUS
<1>1. CASE T!CallBack
  BY <1>1 DEF T!CallBack, TimingInv, T!LatencyIsPhysical
<1>2. CASE T!Tick
  BY <1>2 DEF T!Tick, TimingInv, T!LatencyIsPhysical
<1>3. CASE UNCHANGED T!vars
  BY <1>3 DEF T!vars, TimingInv, T!LatencyIsPhysical
<1> QED
  BY <1>1, <1>2, <1>3, RequestStep DEF T!Next

-----------------------------------------------------------------------------
(* The post office. *)
(* The steps of PostOfficeOutput::Send. *)
SendStep == {"idle", "lock", "send", "sendto", "sent"}

OutTyped ==
  /\ sendLock \in [Machine -> Sender \union {NULL}]
  /\ messageSent \in [Machine -> Nat]
  /\ sendBusy \in [Machine -> BOOLEAN]
  /\ sending \in [Sender -> N!Packet \union {NULL}]
  /\ sender \in [Sender -> SendStep]
  /\ retryCount \in [Sender -> Nat]

InTyped ==
  /\ bound \subseteq Machine
  /\ socket \in [Machine -> Seq(N!Packet)]
  /\ inbox \in [Machine -> N!Packet \union {NULL}]
  /\ messageAvailable \in [Machine -> Nat]
  /\ worker \in [Machine -> {"P", "receive", "put"}]
  /\ buffer \in [Machine -> N!Packet \union {NULL}]
  /\ boxes \in [Machine -> [Box -> Seq(N!Packet)]]

(* One thread of a machine at a time is past sendLock->Acquire(), ... *)
LockHeld ==
  \A t \in Sender : /\ sendLock[HostOf[t]] = t <=>
                         sender[t] \in {"send", "sendto", "sent"}
                    /\ sender[t] # "idle" => sending[t] \in N!Packet

(* ... and waits for the one interrupt of its packet, or does not. *)
Waits(m) ==
  \E t \in Sender : HostOf[t] = m /\ sender[t] \in {"sendto", "sent"}

InterruptKept ==
  \A m \in Machine :
    messageSent[m] + (IF sendBusy[m] THEN 1 ELSE 0) = IF Waits(m) THEN 1 ELSE 0

(* The postal worker has been told of the packet in the inbox, once, and   *)
(* has a packet in its buffer exactly when it is to put it into a box.     *)
WorkerKnows ==
  \A m \in Machine :
    /\ messageAvailable[m] + (IF worker[m] = "receive" THEN 1 ELSE 0) =
         IF inbox[m] = NULL THEN 0 ELSE 1
    /\ worker[m] = "put" <=> buffer[m] # NULL

(* The inductive invariant: what a machine sends, and what it receives. *)
OutInv == OutTyped /\ LockHeld /\ InterruptKept
InInv == InTyped /\ WorkerKnows

-----------------------------------------------------------------------------
(* Initially nothing is sent or received. *)
LEMMA PostInit == N!PostOfficeAssumption /\ N!Init => OutInv /\ InInv
<1> SUFFICES ASSUME N!PostOfficeAssumption, N!Init PROVE OutInv /\ InInv
  OBVIOUS
<1>1. OutTyped /\ InTyped
  BY DEF N!Init, OutTyped, InTyped, SendStep
<1>2. LockHeld
  BY DEF N!Init, LockHeld, N!PostOfficeAssumption
<1>3. InterruptKept
  BY DEF N!Init, InterruptKept, Waits
<1>4. WorkerKnows
  BY DEF N!Init, WorkerKnows
<1> QED
  BY <1>1, <1>2, <1>3, <1>4 DEF OutInv, InInv

(* A thread of machine h goes on in PostOfficeOutput::Send: what it does   *)
(* to its machine does not show to the others.                             *)
LEMMA SenderStep ==
  ASSUME N!PostOfficeAssumption, OutInv, OutTyped', NEW t \in Sender,
         NEW h, h = HostOf[t], NEW to, sender' = [sender EXCEPT ![t] = to],
         \A m \in Machine \ {h} : /\ sendLock'[m] = sendLock[m]
                                  /\ messageSent'[m] = messageSent[m]
                                  /\ sendBusy'[m] = sendBusy[m],
         \A u \in Sender \ {t} : sending'[u] = sending[u],
         to # "idle" => sending'[t] \in N!Packet,
         sendLock'[h] = t <=> to \in {"send", "sendto", "sent"},
         \/ sendLock'[h] = sendLock[h]
         \/ sendLock[h] \in {t, NULL} /\ sendLock'[h] \in {t, NULL},
         sendLock[h] # t /\ sendLock'[h] # t =>
           /\ messageSent'[h] = messageSent[h] /\ sendBusy'[h] = sendBusy[h],
         sendLock[h] = t \/ sendLock'[h] = t =>
           messageSent'[h] + (IF sendBusy'[h] THEN 1 ELSE 0) =
             IF to \in {"sendto", "sent"} THEN 1 ELSE 0
  PROVE  OutInv'
<1>1. /\ sender \in [Sender -> SendStep] /\ h \in Machine
      /\ HostOf \in [Sender -> Machine] /\ NULL \notin Sender
  BY DEF OutInv, OutTyped, N!PostOfficeAssumption
<1>2. sender'[t] = to /\ \A u \in Sender : u # t => sender'[u] = sender[u]
  BY <1>1
<1>3. LockHeld
  BY DEF OutInv
<1>4. LockHeld'
  <2> SUFFICES ASSUME NEW u \in Sender
               PROVE  /\ sendLock'[HostOf[u]] = u <=>
                           sender'[u] \in {"send", "sendto", "sent"}
                      /\ sender'[u] # "idle" => sending'[u] \in N!Packet
    BY DEF LockHeld
  <2>1. CASE u = t
    BY <1>2, <2>1
  <2>2. CASE u # t /\ HostOf[u] # h
    BY <1>1, <1>2, <1>3, <2>2 DEF LockHeld
  <2>3. CASE u # t /\ HostOf[u] = h
    <3>1. sendLock'[h] = u <=> sendLock[h] = u
      BY <1>1, <2>3
    <3> QED
      BY <1>2, <1>3, <2>3, <3>1 DEF LockHeld
  <2> QED
    BY <2>1, <2>2, <2>3
<1>5. InterruptKept'
  <2> SUFFICES ASSUME NEW m \in Machine
               PROVE  messageSent'[m] + (IF sendBusy'[m] THEN 1 ELSE 0) =
                        IF Waits(m)' THEN 1 ELSE 0
    BY DEF InterruptKept
  <2>1. messageSent[m] + (IF sendBusy[m] THEN 1 ELSE 0) = IF Waits(m) THEN 1 ELSE 0
    BY DEF OutInv, InterruptKept
  <2>2. CASE m # h
    <3>1. Waits(m)' <=> Waits(m)
      BY <1>2, <2>2 DEF Waits
    <3> QED
      BY <2>1, <2>2, <3>1
  <2>3. CASE m = h /\ sendLock[h] # t /\ sendLock'[h] # t
    <3>1. sender[t] \notin {"sendto", "sent"} /\ to \notin {"sendto", "sent"}
      BY <1>3, <2>3 DEF LockHeld
    <3>2. Waits(m)' <=> Waits(m)
      BY <1>2, <3>1 DEF Waits
    <3> QED
      BY <2>1, <2>3, <3>2
  <2>4. CASE m = h /\ (sendLock[h] = t \/ sendLock'[h] = t)
    <3>1. \A u \in Sender : HostOf[u] = h /\ u # t =>
            sender'[u] \notin {"sendto", "sent"}
      BY <1>1, <1>2, <1>3, <2>4 DEF LockHeld
    <3>2. Waits(m)' <=> to \in {"sendto", "sent"}
      BY <1>2, <2>4, <3>1 DEF Waits
    <3> QED
      BY <2>4, <3>2
  <2> QED
    BY <2>2, <2>3, <2>4
<1> QED
  BY <1>4, <1>5 DEF OutInv

(* A thread calls Send, waits for the lock, gets it, hands its packet to   *)
(* the network, and returns after the interrupt: its machine's lock and    *)
(* interrupt stay in step with it.                                         *)
LEMMA SendKeepsInv ==
  ASSUME N!PostOfficeAssumption, OutInv, NEW t \in Sender,
         \/ \E m \in Machine, b \in Box, d \in Data : N!CallSend(t, m, b, d)
         \/ N!AcquireSendLock(t)
         \/ \E lost \in BOOLEAN : N!NetworkSend(t, lost)
         \/ N!SendSucceeds(t)
         \/ N!SendFails(t)
         \/ N!SendReturn(t)
  PROVE  OutInv'
<1>1. PICK h \in Machine : h = HostOf[t]
  BY DEF N!PostOfficeAssumption
<1>2. OutTyped /\ LockHeld /\ NULL \notin Sender
  BY DEF OutInv, N!PostOfficeAssumption
<1>3. sendLock[h] = t =>
        messageSent[h] + (IF sendBusy[h] THEN 1 ELSE 0) =
          IF sender[t] \in {"sendto", "sent"} THEN 1 ELSE 0
  <2> SUFFICES ASSUME sendLock[h] = t
               PROVE  Waits(h) <=> sender[t] \in {"sendto", "sent"}
    BY DEF OutInv, InterruptKept
  <2>1. \A u \in Sender : HostOf[u] = h /\ u # t =>
          sender[u] \notin {"sendto", "sent"}
    BY <1>2 DEF LockHeld
  <2> QED
    BY <1>1, <2>1 DEF Waits
<1>4. ASSUME sendLock[h] = NULL
      PROVE  messageSent[h] + (IF sendBusy[h] THEN 1 ELSE 0) = 0
  <2>1. \A u \in Sender : HostOf[u] = h => sender[u] \notin {"sendto", "sent"}
    BY <1>2, <1>4 DEF LockHeld
  <2> QED
    BY <2>1 DEF Waits, OutInv, InterruptKept
<1>5. messageSent[h] \in Nat /\ sendBusy[h] \in BOOLEAN
  BY <1>2 DEF OutTyped
<1>6. ASSUME NEW m \in Machine, NEW b \in Box, NEW d \in Data,
             N!CallSend(t, m, b, d)
      PROVE  OutInv'
  <2>1. [to |-> m, box |-> b, from |-> HostOf[t], data |-> d] \in N!Packet
    BY <1>1 DEF N!Packet
  <2>2. OutTyped' /\ sending'[t] \in N!Packet
    BY <1>2, <1>6, <2>1 DEF OutTyped, SendStep, N!CallSend
  <2>3. sendLock[h] # t
    BY <1>1, <1>2, <1>6 DEF LockHeld, N!CallSend
  <2>4. /\ sender' = [sender EXCEPT ![t] = "lock"]
        /\ sendLock' = sendLock /\ messageSent' = messageSent
        /\ sendBusy' = sendBusy
        /\ \A u \in Sender \ {t} : sending'[u] = sending[u]
    BY <1>2, <1>6 DEF N!CallSend, OutTyped
  <2> QED
    BY <1>1, <2>2, <2>3, <2>4, SenderStep
<1>7. ASSUME N!AcquireSendLock(t) PROVE OutInv'
  <2>1. OutTyped' /\ sending[t] \in N!Packet
    BY <1>2, <1>7 DEF OutTyped, SendStep, N!AcquireSendLock, LockHeld
  <2>2. /\ sender' = [sender EXCEPT ![t] = "send"]
        /\ sendLock[h] = NULL /\ sendLock'[h] = t
        /\ \A m \in Machine \ {h} : sendLock'[m] = sendLock[m]
        /\ messageSent' = messageSent /\ sendBusy' = sendBusy
        /\ sending' = sending
    BY <1>1, <1>2, <1>7 DEF N!AcquireSendLock, OutTyped
  <2> QED
    BY <1>1, <1>2, <1>4, <2>1, <2>2, SenderStep
<1>8. ASSUME NEW lost \in BOOLEAN, N!NetworkSend(t, lost) PROVE OutInv'
  <2>1. OutTyped' /\ sending[t] \in N!Packet /\ sendLock[h] = t
    BY <1>1, <1>2, <1>8 DEF OutTyped, SendStep, N!NetworkSend, LockHeld
  <2>2. PICK to \in {"sendto", "sent"} : sender' = [sender EXCEPT ![t] = to]
    BY <1>8 DEF N!NetworkSend
  <2>3. /\ sendLock' = sendLock /\ sending' = sending
        /\ messageSent' = messageSent
        /\ ~sendBusy[h] /\ sendBusy'[h] = TRUE
        /\ \A m \in Machine \ {h} : sendBusy'[m] = sendBusy[m]
        /\ sender[t] = "send"
    BY <1>1, <1>2, <1>8 DEF N!NetworkSend, OutTyped
  <2>4. messageSent'[h] + (IF sendBusy'[h] THEN 1 ELSE 0) = 1
    BY <1>3, <1>5, <2>1, <2>3
  <2> QED
    BY <1>1, <2>1, <2>2, <2>3, <2>4, SenderStep
<1>9. ASSUME N!SendSucceeds(t) \/ N!SendFails(t) PROVE OutInv'
  <2>1. sending[t] \in N!Packet /\ sendLock[h] = t
    BY <1>1, <1>2, <1>9 DEF N!SendSucceeds, N!SendFails, LockHeld
  <2>0. OutTyped'
    <3>1. CASE N!SendSucceeds(t)
      BY <1>2, <3>1 DEF OutTyped, SendStep, N!SendSucceeds
    <3>2. CASE N!SendFails(t)
      BY <1>2, <3>2 DEF OutTyped, SendStep, N!SendFails
    <3> QED
      BY <1>9, <3>1, <3>2
  <2>2. PICK to \in {"sendto", "sent"} : sender' = [sender EXCEPT ![t] = to]
    BY <1>9 DEF N!SendSucceeds, N!SendFails
  <2>3. /\ sendLock' = sendLock /\ sending' = sending
        /\ messageSent' = messageSent /\ sendBusy' = sendBusy
        /\ sender[t] = "sendto"
    BY <1>9 DEF N!SendSucceeds, N!SendFails
  <2> QED
    BY <1>1, <1>3, <2>0, <2>1, <2>2, <2>3, SenderStep
<1>10. ASSUME N!SendReturn(t) PROVE OutInv'
  <2>1. OutTyped' /\ sendLock[h] = t /\ NULL # t
    BY <1>1, <1>2, <1>10 DEF OutTyped, SendStep, N!SendReturn, LockHeld
  <2>2. PICK to : to = "idle"
    OBVIOUS
  <2>3. /\ sender' = [sender EXCEPT ![t] = to] /\ sender[t] = "sent"
        /\ sendLock'[h] = NULL
        /\ \A m \in Machine \ {h} : sendLock'[m] = sendLock[m]
        /\ messageSent[h] > 0 /\ messageSent'[h] = messageSent[h] - 1
        /\ \A m \in Machine \ {h} : messageSent'[m] = messageSent[m]
        /\ sendBusy' = sendBusy
        /\ \A u \in Sender \ {t} : sending'[u] = sending[u]
    BY <1>1, <1>2, <1>10, <2>2 DEF N!SendReturn, OutTyped
  <2>4. messageSent'[h] + (IF sendBusy'[h] THEN 1 ELSE 0) = 0
    BY <1>3, <1>5, <2>1, <2>3
  <2>5. \A m \in Machine \ {h} : /\ sendLock'[m] = sendLock[m]
                                 /\ messageSent'[m] = messageSent[m]
                                 /\ sendBusy'[m] = sendBusy[m]
    BY <2>3
  <2>6. /\ sender' = [sender EXCEPT ![t] = to]
        /\ \A u \in Sender \ {t} : sending'[u] = sending[u]
    BY <2>3
  <2>7. to # "idle" => sending'[t] \in N!Packet
    BY <2>2
  <2>8. sendLock'[h] = t <=> to \in {"send", "sendto", "sent"}
    BY <2>1, <2>2, <2>3
  <2>9. sendLock[h] \in {t, NULL} /\ sendLock'[h] \in {t, NULL}
    BY <2>1, <2>3
  <2>10. messageSent'[h] + (IF sendBusy'[h] THEN 1 ELSE 0) =
           IF to \in {"sendto", "sent"} THEN 1 ELSE 0
    BY <2>2, <2>4
  <2> HIDE <2>2
  <2> QED
    BY <1>1, <2>1, <2>5, <2>6, <2>7, <2>8, <2>9, <2>10, SenderStep, ZenonT(60)
<1> QED
  BY <1>6, <1>7, <1>8, <1>9, <1>10

(* The interrupt of a packet is counted by messageSent. *)
LEMMA InterruptKeepsInv ==
  ASSUME OutInv, NEW m \in Machine, N!SendInterrupt(m)
  PROVE  OutInv'
<1>1. OutTyped /\ LockHeld /\ InterruptKept
  BY DEF OutInv
<1>2. OutTyped'
  BY <1>1 DEF OutTyped, N!SendInterrupt
<1>3. LockHeld'
  BY <1>1 DEF LockHeld, N!SendInterrupt
<1>4. InterruptKept'
  <2> SUFFICES ASSUME NEW n \in Machine
               PROVE  messageSent'[n] + (IF sendBusy'[n] THEN 1 ELSE 0) =
                        IF Waits(n)' THEN 1 ELSE 0
    BY DEF InterruptKept
  <2>1. Waits(n)' <=> Waits(n)
    BY DEF Waits, N!SendInterrupt
  <2>2. messageSent'[n] + (IF sendBusy'[n] THEN 1 ELSE 0) =
          messageSent[n] + (IF sendBusy[n] THEN 1 ELSE 0)
    BY <1>1 DEF N!SendInterrupt, OutTyped
  <2> QED
    BY <1>1, <2>1, <2>2 DEF InterruptKept
<1> QED
  BY <1>2, <1>3, <1>4 DEF OutInv

(* A machine that halts forgets its lock and its interrupt with the        *)
(* threads that need them.                                                 *)
LEMMA HaltKeepsOut ==
  ASSUME N!PostOfficeAssumption, OutInv, NEW m \in Machine, N!Halt(m)
  PROVE  OutInv'
<1>1. OutTyped /\ LockHeld /\ InterruptKept /\ NULL \notin Sender
  BY DEF OutInv, N!PostOfficeAssumption
<1>2. OutTyped'
  BY <1>1 DEF OutTyped, N!Halt, SendStep
<1>3. \A t \in Sender :
        /\ HostOf[t] \in Machine
        /\ HostOf[t] = m => sender'[t] = "idle"
        /\ HostOf[t] # m => sender'[t] = sender[t] /\ sending'[t] = sending[t]
  BY <1>1 DEF N!Halt, OutTyped, N!PostOfficeAssumption
<1>4. /\ sendLock'[m] = NULL /\ messageSent'[m] = 0 /\ sendBusy'[m] = FALSE
      /\ \A n \in Machine : n # m => /\ sendLock'[n] = sendLock[n]
                                     /\ messageSent'[n] = messageSent[n]
                                     /\ sendBusy'[n] = sendBusy[n]
  BY <1>1 DEF N!Halt, OutTyped
<1>5. LockHeld'
  BY <1>1, <1>3, <1>4 DEF LockHeld
<1>6. InterruptKept'
  <2> SUFFICES ASSUME NEW n \in Machine
               PROVE  messageSent'[n] + (IF sendBusy'[n] THEN 1 ELSE 0) =
                        IF Waits(n)' THEN 1 ELSE 0
    BY DEF InterruptKept
  <2>1. CASE n = m
    <3>1. ~Waits(n)'
      BY <1>3, <2>1 DEF Waits
    <3> QED
      BY <1>4, <2>1, <3>1
  <2>2. CASE n # m
    <3>1. Waits(n)' <=> Waits(n)
      BY <1>3, <2>2 DEF Waits
    <3> QED
      BY <1>1, <1>4, <2>2, <3>1 DEF InterruptKept
  <2> QED
    BY <2>1, <2>2
<1> QED
  BY <1>2, <1>5, <1>6 DEF OutInv

(* What arrives keeps its place: the postal worker is told of each packet  *)
(* once.                                                                   *)
LEMMA ArrivalKeepsInv ==
  ASSUME N!PostOfficeAssumption, InInv, NEW m \in Machine,
         N!ReceiveInterrupt(m) \/ N!WorkerP(m) \/ N!WorkerReceive(m) \/ N!WorkerPut(m)
  PROVE  InInv'
<1>1. InTyped /\ WorkerKnows /\ NULL \notin N!Packet
  BY DEF InInv, N!PostOfficeAssumption
<1>2. CASE N!ReceiveInterrupt(m)
  <2>1. socket[m] \in Seq(N!Packet) /\ socket[m] # << >>
    BY <1>1, <1>2 DEF InTyped, N!ReceiveInterrupt, N!PollSocket
  <2>2. Head(socket[m]) \in N!Packet /\ Tail(socket[m]) \in Seq(N!Packet)
    BY <2>1
  <2>3. InTyped'
    BY <1>1, <1>2, <2>2
       DEF InTyped, N!ReceiveInterrupt, N!ReadFromSocket, N!SocketAfterRead
  <2>4. WorkerKnows'
    BY <1>1, <1>2, <2>2
       DEF WorkerKnows, InTyped, N!ReceiveInterrupt, N!ReadFromSocket
  <2> QED
    BY <2>3, <2>4 DEF InInv
<1>3. CASE N!WorkerP(m)
  <2>1. InTyped'
    BY <1>1, <1>3 DEF InTyped, N!WorkerP, N!netVars
  <2>2. WorkerKnows'
    BY <1>1, <1>3 DEF WorkerKnows, InTyped, N!WorkerP
  <2> QED
    BY <2>1, <2>2 DEF InInv
<1>4. CASE N!WorkerReceive(m)
  <2>1. InTyped'
    BY <1>1, <1>4 DEF InTyped, N!WorkerReceive, N!netVars
  <2>2. WorkerKnows'
    BY <1>1, <1>4 DEF WorkerKnows, InTyped, N!WorkerReceive
  <2> QED
    BY <2>1, <2>2 DEF InInv
<1>5. CASE N!WorkerPut(m)
  <2>1. buffer[m] \in N!Packet
    BY <1>1, <1>5 DEF InTyped, WorkerKnows, N!WorkerPut
  <2>2. buffer[m].box \in Box /\ boxes[m][buffer[m].box] \in Seq(N!Packet)
    <3>1. buffer[m].box \in Box
      BY <2>1 DEF N!Packet
    <3> QED
      BY <1>1, <3>1 DEF InTyped
  <2>3. Append(boxes[m][buffer[m].box], buffer[m]) \in Seq(N!Packet)
    BY <2>1, <2>2
  <2>4. boxes' \in [Machine -> [Box -> Seq(N!Packet)]]
    BY <1>1, <1>5, <2>2, <2>3 DEF InTyped, N!WorkerPut
  <2>5. InTyped'
    BY <1>1, <1>5, <2>4 DEF InTyped, N!WorkerPut, N!netVars
  <2>6. WorkerKnows'
    BY <1>1, <1>5 DEF WorkerKnows, InTyped, N!WorkerPut
  <2> QED
    BY <2>5, <2>6 DEF InInv
<1> QED
  BY <1>2, <1>3, <1>4, <1>5

(* A step of a post office, whoever sends what to whom. *)
PostStep ==
  \/ \E m \in Machine : N!Start(m) \/ N!Halt(m) \/ N!Devices(m)
  \/ \E t \in Sender, m \in Machine, b \in Box, d \in Data :
       N!CallSend(t, m, b, d)
  \/ \E t \in Sender : N!Kernel(t)
  \/ \E t \in Sender, lost \in BOOLEAN : N!NetworkSend(t, lost)
  \/ \E m \in Machine, b \in Box : N!Receive(m, b)

(* Every step keeps the invariant. *)
LEMMA PostKeepsInv ==
  N!PostOfficeAssumption /\ OutInv /\ InInv /\ [PostStep]_(N!vars) => OutInv' /\ InInv'
<1> SUFFICES ASSUME N!PostOfficeAssumption, OutInv, InInv, [PostStep]_(N!vars)
             PROVE  OutInv' /\ InInv'
  OBVIOUS
<1>1. ASSUME UNCHANGED N!outVars PROVE OutInv'
  BY <1>1 DEF N!outVars, OutInv, OutTyped, LockHeld, InterruptKept, Waits
<1>2. ASSUME UNCHANGED N!inVars, bound' \subseteq Machine,
             socket' \in [Machine -> Seq(N!Packet)]
      PROVE  InInv'
  BY <1>2 DEF N!inVars, InInv, InTyped, WorkerKnows
<1>3. bound \subseteq Machine /\ socket \in [Machine -> Seq(N!Packet)]
  BY DEF InInv, InTyped
<1>4. ASSUME NEW m \in Machine, N!Start(m) PROVE OutInv' /\ InInv'
  BY <1>1, <1>2, <1>3, <1>4 DEF N!Start
<1>5. ASSUME NEW m \in Machine, N!Halt(m) PROVE OutInv' /\ InInv'
  <2>1. InTyped'
    BY <1>5 DEF N!Halt, InInv, InTyped
  <2>2. WorkerKnows'
    BY <1>5 DEF N!Halt, InInv, InTyped, WorkerKnows
  <2> QED
    BY <1>5, <2>1, <2>2, HaltKeepsOut DEF InInv
<1>6. ASSUME NEW m \in Machine, N!Devices(m) PROVE OutInv' /\ InInv'
  <2>1. CASE N!SendInterrupt(m)
    BY <1>2, <1>3, <2>1, InterruptKeepsInv DEF N!SendInterrupt, N!netVars
  <2>2. CASE N!ReceiveInterrupt(m)
    BY <1>1, <2>2, ArrivalKeepsInv DEF N!ReceiveInterrupt
  <2>3. CASE N!WorkerP(m) \/ N!WorkerReceive(m) \/ N!WorkerPut(m)
    BY <1>1, <2>3, ArrivalKeepsInv DEF N!WorkerP, N!WorkerReceive, N!WorkerPut
  <2> QED
    BY <1>6, <2>1, <2>2, <2>3 DEF N!Devices
<1>7. ASSUME NEW t \in Sender, NEW m \in Machine, NEW b \in Box, NEW d \in Data,
             N!CallSend(t, m, b, d)
      PROVE  OutInv' /\ InInv'
  <2>1. OutInv'
    BY <1>7, SendKeepsInv
  <2> QED
    BY <1>2, <1>3, <1>7, <2>1 DEF N!CallSend, N!netVars
<1>8. ASSUME NEW t \in Sender, N!Kernel(t) PROVE OutInv' /\ InInv'
  <2>1. OutInv'
    BY <1>8, SendKeepsInv DEF N!Kernel
  <2>2. CASE N!SendSucceeds(t)
    <3>1. sending[t] \in N!Packet
      BY <2>2 DEF OutInv, LockHeld, N!SendSucceeds
    <3>2. sending[t].to \in Machine
      BY <3>1 DEF N!Packet
    <3>3. socket' \in [Machine -> Seq(N!Packet)]
      BY <1>3, <2>2, <3>1, <3>2 DEF N!SendSucceeds
    <3> QED
      BY <1>2, <1>3, <2>1, <2>2, <3>3 DEF N!SendSucceeds
  <2>3. CASE N!AcquireSendLock(t) \/ N!SendFails(t) \/ N!SendReturn(t)
    BY <1>2, <1>3, <2>1, <2>3 DEF N!AcquireSendLock, N!SendFails, N!SendReturn, N!netVars
  <2> QED
    BY <1>8, <2>2, <2>3 DEF N!Kernel
<1>9. ASSUME NEW t \in Sender, NEW lost \in BOOLEAN, N!NetworkSend(t, lost)
      PROVE  OutInv' /\ InInv'
  <2>1. OutInv'
    BY <1>9, SendKeepsInv
  <2> QED
    BY <1>2, <1>3, <1>9, <2>1 DEF N!NetworkSend, N!netVars
<1>10. ASSUME NEW m \in Machine, NEW b \in Box, N!Receive(m, b)
       PROVE  OutInv' /\ InInv'
  <2>1. boxes[m][b] \in Seq(N!Packet) /\ boxes[m][b] # << >>
    BY <1>10 DEF InInv, InTyped, N!Receive
  <2>2. Tail(boxes[m][b]) \in Seq(N!Packet)
    BY <2>1
  <2>3. InTyped'
    BY <1>10, <2>2 DEF InInv, InTyped, N!Receive, N!netVars
  <2>4. WorkerKnows'
    BY <1>10 DEF InInv, WorkerKnows, N!Receive
  <2> QED
    BY <1>1, <1>10, <2>3, <2>4 DEF InInv, N!Receive
<1>11. CASE UNCHANGED N!vars
  BY <1>1, <1>2, <1>3, <1>11 DEF N!vars, N!netVars
<1> QED
  BY <1>4, <1>5, <1>6, <1>7, <1>8, <1>9, <1>10, <1>11 DEF PostStep

(* At any time the interrupts to come and the ones messageSent counts are  *)
(* as many as the threads that wait for one, so the ASSERT of              *)
(* NetworkOutput::Send holds, also when a machine halts or a receiver is   *)
(* down and SendToSocket tries again.                                      *)
LEMMA PacketsInterruptOnce ==
  ASSUME N!PostOfficeAssumption
  PROVE  OutInv /\ InInv => N!OneInterruptPerPacket
<1>1. OutInv /\ InInv => N!OneInterruptPerPacket
  <2> SUFFICES ASSUME OutInv PROVE N!OneInterruptPerPacket
    OBVIOUS
  <2>1. /\ LockHeld /\ InterruptKept /\ NULL \notin Sender
        /\ HostOf \in [Sender -> Machine]
        /\ \A m \in Machine : messageSent[m] \in Nat
    BY DEF OutInv, OutTyped, N!PostOfficeAssumption
  <2>2. ASSUME NEW m \in Machine
        PROVE  Cardinality({t \in Sender : /\ sender[t] \in {"sendto", "sent"}
                                           /\ HostOf[t] = m})
                 = IF Waits(m) THEN 1 ELSE 0
    <3> DEFINE W == {t \in Sender : /\ sender[t] \in {"sendto", "sent"}
                                    /\ HostOf[t] = m}
    <3>1. CASE ~Waits(m)
      <4>1. W = {}
        BY <3>1 DEF Waits
      <4> QED
        BY <3>1, <4>1, FS_EmptySet
    <3>2. CASE Waits(m)
      <4>1. PICK t \in Sender : HostOf[t] = m /\ sender[t] \in {"sendto", "sent"}
        BY <3>2 DEF Waits
      <4>2. W = {t}
        BY <2>1, <4>1 DEF LockHeld
      <4>3. Cardinality({t}) = 1
        BY FS_Singleton
      <4> QED
        BY <3>2, <4>2, <4>3
    <3> QED
      BY <3>1, <3>2
  <2>3. ASSUME NEW t \in Sender, sender[t] = "send"
        PROVE  ~sendBusy[HostOf[t]]
    <3>1. ~Waits(HostOf[t])
      BY <2>1, <2>3 DEF LockHeld, Waits
    <3> QED
      BY <2>1, <3>1 DEF InterruptKept
  <2>4. \A S : N!Cardinality(S) = Cardinality(S)
    BY DEF N!Cardinality, Cardinality
  <2> QED
    BY <2>1, <2>2, <2>3, <2>4 DEF N!OneInterruptPerPacket, InterruptKept
<1> QED
  BY <1>1

-----------------------------------------------------------------------------
(* A step of a sending thread, as the channel sees it: mail is called for, *)
(* sent, lost, or stays where it is.                                       *)
LEMMA SendOnChannel ==
  ASSUME N!PostOfficeAssumption, OutInv, InInv, NEW t \in Sender,
         \/ \E m \in Machine, b \in Box, d \in Data : N!CallSend(t, m, b, d)
         \/ N!AcquireSendLock(t)
         \/ \E lost \in BOOLEAN : N!NetworkSend(t, lost)
         \/ N!SendSucceeds(t)
         \/ N!SendFails(t)
         \/ N!SendReturn(t)
  PROVE  [N!C!Next]_(N!C!vars)
<1> DEFINE pending == [u \in Sender |-> N!Unsent(u)]
           transit == [m \in Machine |-> N!Arrived(m)]
<1>1. OutTyped /\ LockHeld /\ InTyped /\ NULL \notin N!Packet
  BY DEF OutInv, InInv, N!PostOfficeAssumption
<1>2. ASSUME NEW to, sender' = [sender EXCEPT ![t] = to],
             \A u \in Sender : u # t => sending'[u] = sending[u],
             NEW p, p = IF to \in {"lock", "send", "sendto"}
                          THEN sending'[t] ELSE NULL
      PROVE  pending' = [pending EXCEPT ![t] = p]
  <2>1. \A u \in Sender : N!Unsent(u)' = IF u = t THEN p ELSE N!Unsent(u)
    BY <1>1, <1>2 DEF N!Unsent, OutTyped
  <2> QED
    BY <2>1
<1>3. ASSUME inbox' = inbox, buffer' = buffer, socket' = socket
      PROVE  transit' = transit
  BY <1>3 DEF N!Arrived, N!Present
<1>4. ASSUME pending' = pending, transit' = transit, bound' = bound,
             boxes' = boxes
      PROVE  UNCHANGED N!C!vars
  BY <1>4 DEF N!C!vars
<1>5. ASSUME pending[t] # NULL, pending' = [pending EXCEPT ![t] = NULL],
             transit' = transit, bound' = bound, boxes' = boxes
      PROVE  N!C!Next
  <2>1. N!C!Lose(t)
    BY <1>5 DEF N!C!Lose
  <2> QED
    BY <2>1 DEF N!C!Next
<1>6. ASSUME NEW m \in Machine, NEW b \in Box, NEW d \in Data,
             N!CallSend(t, m, b, d)
      PROVE  N!C!Next
  <2> DEFINE p == [to |-> m, box |-> b, from |-> HostOf[t], data |-> d]
  <2>1. p \in N!Packet
    BY DEF N!Packet, N!PostOfficeAssumption
  <2>2. /\ sending'[t] = p
        /\ \A u \in Sender : u # t => sending'[u] = sending[u]
        /\ sender' = [sender EXCEPT ![t] = "lock"]
    BY <1>1, <1>6 DEF N!CallSend, OutTyped
  <2> HIDE DEF p
  <2>3. pending' = [pending EXCEPT ![t] = p]
    BY <1>2, <2>2
  <2>4. pending[t] = NULL
    BY <1>1, <1>6 DEF N!CallSend, N!Unsent
  <2>5. transit' = transit /\ bound' = bound /\ boxes' = boxes
    BY <1>3, <1>6 DEF N!CallSend, N!netVars, N!inVars
  <2>6. N!C!Call(t, p)
    BY <2>3, <2>4, <2>5 DEF N!C!Call
  <2> QED
    BY <2>1, <2>6 DEF N!C!Next
<1>7. ASSUME N!AcquireSendLock(t) PROVE UNCHANGED N!C!vars
  <2>1. /\ sender' = [sender EXCEPT ![t] = "send"] /\ sender[t] = "lock"
        /\ sending' = sending /\ bound' = bound /\ boxes' = boxes
    BY <1>7 DEF N!AcquireSendLock, N!netVars, N!inVars
  <2>2. pending' = [pending EXCEPT ![t] = sending[t]]
    BY <1>2, <2>1
  <2>3. pending[t] = sending[t]
    BY <2>1 DEF N!Unsent
  <2>4. pending' = pending
    BY <2>2, <2>3
  <2>5. transit' = transit
    BY <1>3, <1>7 DEF N!AcquireSendLock, N!netVars, N!inVars
  <2> QED
    BY <1>4, <2>1, <2>4, <2>5
<1>8. ASSUME NEW to \in {"sendto", "sent"}, sender' = [sender EXCEPT ![t] = to],
             sender[t] \in {"send", "sendto"}, sending' = sending,
             UNCHANGED <<N!netVars, N!inVars>>
      PROVE  [N!C!Next]_(N!C!vars)
  <2>1. pending[t] = sending[t] /\ sending[t] \in N!Packet
    BY <1>1, <1>8 DEF N!Unsent, LockHeld
  <2>2. transit' = transit /\ bound' = bound /\ boxes' = boxes
    BY <1>3, <1>8 DEF N!netVars, N!inVars
  <2>3. CASE to = "sendto"
    <3>1. pending' = [pending EXCEPT ![t] = sending[t]]
      BY <1>2, <1>8, <2>3
    <3>2. pending' = pending
      BY <2>1, <3>1
    <3> QED
      BY <1>4, <2>2, <3>2
  <2>4. CASE to = "sent"
    <3>1. pending' = [pending EXCEPT ![t] = NULL]
      BY <1>2, <1>8, <2>4
    <3> QED
      BY <1>1, <1>5, <2>1, <2>2, <3>1
  <2> QED
    BY <2>3, <2>4
<1>9. ASSUME NEW lost \in BOOLEAN, N!NetworkSend(t, lost)
      PROVE  [N!C!Next]_(N!C!vars)
  <2>1. PICK to \in {"sendto", "sent"} : sender' = [sender EXCEPT ![t] = to]
    BY <1>9 DEF N!NetworkSend
  <2> QED
    BY <1>8, <1>9, <2>1 DEF N!NetworkSend
<1>10. ASSUME N!SendFails(t) PROVE [N!C!Next]_(N!C!vars)
  <2>1. PICK to \in {"sendto", "sent"} : sender' = [sender EXCEPT ![t] = to]
    BY <1>10 DEF N!SendFails
  <2> QED
    BY <1>8, <1>10, <2>1 DEF N!SendFails
<1>11. ASSUME N!SendSucceeds(t) PROVE N!C!Next
  <2>1. PICK p \in N!Packet : p = sending[t]
    BY <1>1, <1>11 DEF LockHeld, N!SendSucceeds
  <2>2. p.to \in Machine
    BY DEF N!Packet
  <2>3. pending[t] = p /\ p # NULL /\ p.to \in bound
    BY <1>1, <1>11, <2>1 DEF N!SendSucceeds, N!Unsent
  <2>4. pending' = [pending EXCEPT ![t] = NULL]
    <3>1. sender' = [sender EXCEPT ![t] = "sent"] /\ sending' = sending
      BY <1>11 DEF N!SendSucceeds
    <3>2. PICK to : to = "sent"
      OBVIOUS
    <3>3. NULL = IF to \in {"lock", "send", "sendto"} THEN sending'[t] ELSE NULL
      BY <3>2
    <3> QED
      BY <1>2, <3>1, <3>2, <3>3
  <2>5. /\ inbox' = inbox /\ buffer' = buffer /\ boxes' = boxes
        /\ socket' = [socket EXCEPT ![p.to] = Append(@, p)] /\ bound' = bound
    BY <1>11, <2>1 DEF N!SendSucceeds, N!inVars
  <2>6. transit' = [transit EXCEPT ![p.to] = Append(@, p)]
    <3>1. ASSUME NEW m \in Machine
          PROVE  N!Arrived(m)' = IF m = p.to THEN Append(N!Arrived(m), p)
                               ELSE N!Arrived(m)
      <4>1. CASE m # p.to
        BY <1>1, <2>5, <4>1 DEF N!Arrived, N!Present, InTyped
      <4>2. CASE m = p.to
        <5>1. PICK a : a = N!Present(buffer[m]) \o N!Present(inbox[m])
          OBVIOUS
        <5>2. a \in Seq(N!Packet) /\ socket[m] \in Seq(N!Packet)
          <6>1. /\ N!Present(buffer[m]) \in Seq(N!Packet)
                /\ N!Present(inbox[m]) \in Seq(N!Packet)
            BY <1>1 DEF N!Present, InTyped
          <6> QED
            BY <1>1, <5>1, <6>1 DEF InTyped
        <5>3. a' = a /\ socket'[m] = Append(socket[m], p)
          BY <1>1, <2>5, <4>2 DEF InTyped
        <5>4. N!Arrived(m)' = a \o Append(socket[m], p)
          BY <2>5, <5>1, <5>3 DEF N!Arrived, N!Present
        <5>5. N!Arrived(m) = a \o socket[m]
          BY <5>1 DEF N!Arrived
        <5> QED
          BY <4>2, <5>2, <5>4, <5>5, InLine
      <4> QED
        BY <4>1, <4>2
    <3> QED
      BY <2>2, <3>1
  <2>7. N!C!Send(t)
    BY <2>3, <2>4, <2>5, <2>6 DEF N!C!Send
  <2> QED
    BY <2>7 DEF N!C!Next
<1>12. ASSUME N!SendReturn(t) PROVE UNCHANGED N!C!vars
  <2>1. /\ sender' = [sender EXCEPT ![t] = "idle"] /\ sender[t] = "sent"
        /\ \A u \in Sender : u # t => sending'[u] = sending[u]
        /\ bound' = bound /\ boxes' = boxes
    BY <1>1, <1>12 DEF N!SendReturn, N!netVars, N!inVars, OutTyped
  <2>2. pending' = [pending EXCEPT ![t] = NULL] /\ pending[t] = NULL
    BY <1>2, <2>1 DEF N!Unsent
  <2>3. pending' = pending
    BY <2>2
  <2>4. transit' = transit
    BY <1>3, <1>12 DEF N!SendReturn, N!netVars, N!inVars
  <2> QED
    BY <1>4, <2>1, <2>3, <2>4
<1> QED
  BY <1>6, <1>7, <1>9, <1>10, <1>11, <1>12

(* A step of the receiving side, as the channel sees it: the interrupt and *)
(* NetworkInput::Receive move a packet on without changing the line it     *)
(* stands in, MailBox::Put delivers the first of that line.                *)
LEMMA ArrivalOnChannel ==
  ASSUME N!PostOfficeAssumption, InInv, NEW m \in Machine,
         N!ReceiveInterrupt(m) \/ N!WorkerP(m) \/ N!WorkerReceive(m) \/ N!WorkerPut(m)
  PROVE  [N!C!Next]_(N!C!vars)
<1> DEFINE pending == [u \in Sender |-> N!Unsent(u)]
           transit == [n \in Machine |-> N!Arrived(n)]
<1>1. InTyped /\ WorkerKnows /\ NULL \notin N!Packet
  BY DEF InInv, N!PostOfficeAssumption
<1>2. pending' = pending /\ bound' = bound
  <2>1. UNCHANGED <<sender, sending, bound>>
    BY DEF N!ReceiveInterrupt, N!WorkerP, N!WorkerReceive, N!WorkerPut, N!outVars, N!netVars
  <2> QED
    BY <2>1 DEF N!Unsent
<1>3. /\ socket[m] \in Seq(N!Packet)
      /\ N!Present(buffer[m]) \in Seq(N!Packet) /\ N!Present(inbox[m]) \in Seq(N!Packet)
      /\ << >> \in Seq(N!Packet)
  BY <1>1 DEF InTyped, N!Present
<1>4. ASSUME \A n \in Machine : n # m => /\ socket'[n] = socket[n]
                                         /\ inbox'[n] = inbox[n]
                                         /\ buffer'[n] = buffer[n]
      PROVE  \A n \in Machine : n # m => N!Arrived(n)' = N!Arrived(n)
  BY <1>4 DEF N!Arrived, N!Present
<1>5. ASSUME \A n \in Machine : n # m => /\ socket'[n] = socket[n]
                                         /\ inbox'[n] = inbox[n]
                                         /\ buffer'[n] = buffer[n],
             N!Arrived(m)' = N!Arrived(m), boxes' = boxes
      PROVE  UNCHANGED N!C!vars
  <2>1. transit' = transit
    BY <1>4, <1>5
  <2> QED
    BY <1>2, <1>5, <2>1 DEF N!C!vars
<1>6. CASE N!ReceiveInterrupt(m)
  <2>1. /\ buffer' = buffer /\ boxes' = boxes /\ inbox[m] = NULL
        /\ socket[m] # << >>
        /\ socket'[m] = Tail(socket[m]) /\ inbox'[m] = Head(socket[m])
        /\ \A n \in Machine : n # m => /\ socket'[n] = socket[n]
                                       /\ inbox'[n] = inbox[n]
    BY <1>1, <1>6 DEF N!ReceiveInterrupt, N!PollSocket, N!ReadFromSocket,
                      N!SocketAfterRead, InTyped
  <2>2. Head(socket[m]) # NULL
    BY <1>1, <1>3, <2>1
  <2>3. N!Arrived(m)' = N!Present(buffer[m]) \o <<Head(socket[m])>> \o Tail(socket[m])
    BY <2>1, <2>2 DEF N!Arrived, N!Present
  <2>4. N!Arrived(m) = N!Present(buffer[m]) \o << >> \o socket[m]
    BY <2>1 DEF N!Arrived, N!Present
  <2>5. \A a, s \in Seq(N!Packet) : s # << >> =>
          a \o <<Head(s)>> \o Tail(s) = a \o << >> \o s
    <3> SUFFICES ASSUME NEW a \in Seq(N!Packet), NEW s \in Seq(N!Packet), s # << >>
                 PROVE  a \o <<Head(s)>> \o Tail(s) = a \o << >> \o s
      OBVIOUS
    <3>1. a \o <<Head(s)>> \o Tail(s) = a \o s
      BY InLine, Zenon
    <3>2. a \o << >> \o s = a \o s
      BY InLine, Zenon
    <3> QED
      BY <3>1, <3>2
  <2>6. N!Arrived(m)' = N!Arrived(m)
    BY <1>3, <2>1, <2>3, <2>4, <2>5, Zenon
  <2> QED
    BY <1>5, <2>1, <2>6
<1>7. CASE N!WorkerP(m)
  <2>1. socket' = socket /\ inbox' = inbox /\ buffer' = buffer /\ boxes' = boxes
    BY <1>7 DEF N!WorkerP, N!netVars
  <2>2. N!Arrived(m)' = N!Arrived(m)
    BY <2>1 DEF N!Arrived, N!Present
  <2> QED
    BY <1>5, <2>1, <2>2
<1>8. CASE N!WorkerReceive(m)
  <2>1. /\ socket' = socket /\ boxes' = boxes
        /\ buffer'[m] = inbox[m] /\ inbox'[m] = NULL
        /\ \A n \in Machine : n # m => /\ inbox'[n] = inbox[n]
                                       /\ buffer'[n] = buffer[n]
    BY <1>1, <1>8 DEF N!WorkerReceive, N!netVars, InTyped
  <2>2. buffer[m] = NULL
    BY <1>1, <1>8 DEF N!WorkerReceive, WorkerKnows
  <2>3. N!Arrived(m)' = N!Present(inbox[m]) \o << >> \o socket[m]
    BY <2>1 DEF N!Arrived, N!Present
  <2>4. N!Arrived(m) = << >> \o N!Present(inbox[m]) \o socket[m]
    BY <2>2 DEF N!Arrived, N!Present
  <2>5. N!Arrived(m)' = N!Arrived(m)
    BY <1>3, <2>3, <2>4, InLine
  <2> QED
    BY <1>5, <2>1, <2>5
<1>9. CASE N!WorkerPut(m)
  <2>1. PICK p \in N!Packet : p = buffer[m]
    BY <1>1, <1>9 DEF InTyped, WorkerKnows, N!WorkerPut
  <2>2. /\ socket' = socket /\ inbox' = inbox /\ buffer'[m] = NULL
        /\ \A n \in Machine : n # m => buffer'[n] = buffer[n]
        /\ boxes' = [boxes EXCEPT ![m][p.box] = Append(@, p)]
    BY <1>1, <1>9, <2>1 DEF N!WorkerPut, N!netVars, InTyped
  <2>3. PICK r \in Seq(N!Packet) : r = N!Present(inbox[m]) \o socket[m]
    BY <1>3, ConcatProperties
  <2>4. N!Arrived(m) = <<p>> \o r
    <3>1. N!Arrived(m) = <<p>> \o N!Present(inbox[m]) \o socket[m]
      BY <1>1, <2>1 DEF N!Arrived, N!Present
    <3>2. <<p>> \in Seq(N!Packet)
      OBVIOUS
    <3> QED
      <4>1. \A a, b, c \in Seq(N!Packet) : (a \o b) \o c = a \o (b \o c)
        BY ConcatAssociative
      <4> QED
        BY <1>3, <2>3, <3>1, <3>2, <4>1, Zenon
  <2>5. N!Arrived(m)' = r
    <3>1. N!Arrived(m)' = << >> \o N!Present(inbox[m]) \o socket[m]
      BY <2>2 DEF N!Arrived, N!Present
    <3> QED
      BY <1>3, <2>3, <3>1, InLine
  <2>6. N!Arrived(m) # << >> /\ Head(N!Arrived(m)) = p /\ N!Arrived(m)' = Tail(N!Arrived(m))
    BY <2>4, <2>5, InLine
  <2>7. transit' = [transit EXCEPT ![m] = Tail(@)]
    <3>1. \A n \in Machine : n # m => N!Arrived(n)' = N!Arrived(n)
      BY <1>4, <2>2
    <3> QED
      BY <2>6, <3>1
  <2>8. N!C!Deliver(m)
    BY <1>2, <2>2, <2>6, <2>7 DEF N!C!Deliver
  <2> QED
    BY <2>8 DEF N!C!Next
<1> QED
  BY <1>6, <1>7, <1>8, <1>9

(* Every step of the post office is one of the channel or leaves what the  *)
(* channel shows alone.                                                    *)
LEMMA NextOnChannel ==
  N!PostOfficeAssumption /\ OutInv /\ InInv /\ [PostStep]_(N!vars) => [N!C!Next]_(N!C!vars)
<1> SUFFICES ASSUME N!PostOfficeAssumption, OutInv, InInv, [PostStep]_(N!vars)
             PROVE  [N!C!Next]_(N!C!vars)
  OBVIOUS
<1> DEFINE pending == [u \in Sender |-> N!Unsent(u)]
           transit == [n \in Machine |-> N!Arrived(n)]
<1>1. ASSUME UNCHANGED <<sender, sending>> PROVE pending' = pending
  BY <1>1 DEF N!Unsent
<1>2. ASSUME UNCHANGED <<socket, inbox, buffer>> PROVE transit' = transit
  BY <1>2 DEF N!Arrived, N!Present
<1>3. ASSUME UNCHANGED <<sender, sending, socket, inbox, buffer, bound, boxes>>
      PROVE  UNCHANGED N!C!vars
  BY <1>1, <1>2, <1>3 DEF N!C!vars
<1>4. ASSUME NEW m \in Machine, N!Start(m) PROVE N!C!Next
  <2>1. N!C!Start(m)
    BY <1>1, <1>2, <1>4 DEF N!Start, N!C!Start, N!outVars, N!inVars
  <2> QED
    BY <2>1 DEF N!C!Next
<1>5. ASSUME NEW m \in Machine, N!Halt(m) PROVE N!C!Next
  <2>1. pending' = [t \in Sender |-> IF HostOf[t] = m THEN NULL ELSE pending[t]]
    <3>1. \A t \in Sender : N!Unsent(t)' = IF HostOf[t] = m THEN NULL ELSE N!Unsent(t)
      BY <1>5 DEF N!Halt, N!Unsent
    <3> QED
      BY <3>1
  <2>2. transit' = [transit EXCEPT ![m] = << >>]
    <3>1. \A n \in Machine : n # m => N!Arrived(n)' = N!Arrived(n)
      BY <1>5 DEF N!Halt, N!Arrived, N!Present, InInv, InTyped
    <3>2. N!Arrived(m)' = << >> \o << >> \o << >>
      BY <1>5 DEF N!Halt, N!Arrived, N!Present, InInv, InTyped
    <3>3. << >> \in Seq(N!Packet)
      OBVIOUS
    <3>4. N!Arrived(m)' = << >>
      BY <3>2, <3>3, ConcatEmptySeq
    <3> QED
      BY <3>1, <3>4
  <2>3. N!C!Halt(m)
    BY <1>5, <2>1, <2>2 DEF N!Halt, N!C!Halt, N!C!Empty
  <2> QED
    BY <2>3 DEF N!C!Next
<1>6. ASSUME NEW m \in Machine, N!Devices(m) PROVE [N!C!Next]_(N!C!vars)
  <2>1. CASE N!SendInterrupt(m)
    BY <1>3, <2>1 DEF N!SendInterrupt, N!netVars, N!inVars
  <2> QED
    BY <1>6, <2>1, ArrivalOnChannel DEF N!Devices
<1>7. ASSUME NEW t \in Sender, NEW m \in Machine, NEW b \in Box, NEW d \in Data,
             N!CallSend(t, m, b, d)
      PROVE  [N!C!Next]_(N!C!vars)
  BY <1>7, SendOnChannel
<1>8. ASSUME NEW t \in Sender,
             N!Kernel(t) \/ \E lost \in BOOLEAN : N!NetworkSend(t, lost)
      PROVE  [N!C!Next]_(N!C!vars)
  BY <1>8, SendOnChannel DEF N!Kernel
<1>9. ASSUME NEW m \in Machine, NEW b \in Box, N!Receive(m, b) PROVE N!C!Next
  <2>1. N!C!Receive(m, b)
    BY <1>1, <1>2, <1>9 DEF N!Receive, N!C!Receive, N!outVars, N!netVars
  <2> QED
    BY <2>1 DEF N!C!Next
<1>10. CASE UNCHANGED N!vars
  BY <1>3, <1>10 DEF N!vars, N!outVars, N!netVars, N!inVars
<1> QED
  BY <1>4, <1>5, <1>6, <1>7, <1>8, <1>9, <1>10 DEF PostStep

(* Initially nothing is on its way. *)
LEMMA InitOnChannel == ASSUME N!Init PROVE N!C!Init
<1>1. \A t \in Sender : N!Unsent(t) = NULL
  BY DEF N!Init, N!Unsent
<1>2. \A m \in Machine : N!Arrived(m) = << >>
  <2> SUFFICES ASSUME NEW m \in Machine PROVE N!Arrived(m) = << >>
    OBVIOUS
  <2>1. N!Arrived(m) = << >> \o << >> \o << >>
    BY DEF N!Init, N!Arrived, N!Present
  <2>2. << >> \in Seq(N!Packet)
    OBVIOUS
  <2> QED
    BY <2>1, <2>2, ConcatEmptySeq
<1> QED
  BY <1>1, <1>2 DEF N!Init, N!C!Init, N!C!Empty

-----------------------------------------------------------------------------
(* All of them together.  A step of the run is one of one component, and   *)
(* leaves the others alone; the test of the network sends as its script    *)
(* says and not along Route.                                               *)
LEMMA TestStep ==
  ASSUME N!PostOfficeAssumption, N!NetworkTestAssumption, N!TestNext
  PROVE  [PostStep]_(N!vars)
<1>1. /\ \A m \in Machine : N!MainOf(m) \in Sender /\ N!FarHost(m) \in Machine
      /\ 0 \in Box /\ 1 \in Box
  BY DEF N!NetworkTestAssumption, N!MainOf, N!FarHost
<1>2. ASSUME NEW m \in Machine, N!Boot(m) PROVE PostStep
  BY <1>2 DEF N!Boot, PostStep
<1>3. ASSUME NEW m \in Machine, N!Script(m) PROVE [PostStep]_(N!vars)
  <2>1. CASE N!SendFirst(m) \/ N!SendAck(m)
    <3>1. \E d \in Data, b \in Box : N!CallSend(N!MainOf(m), N!FarHost(m), b, d)
      BY <1>1, <2>1 DEF N!SendFirst, N!SendAck
    <3> QED
      BY <1>1, <3>1 DEF PostStep
  <2>2. CASE N!ReceiveFirst(m) \/ N!ReceiveAck(m)
    BY <1>1, <2>2 DEF N!ReceiveFirst, N!ReceiveAck, PostStep
  <2>3. CASE N!TestHalt(m)
    BY <2>3 DEF N!TestHalt, PostStep
  <2>4. CASE N!Sent(m, "sending", "receive") \/ N!Sent(m, "acking", "wait")
    BY <2>4 DEF N!Sent
  <2> QED
    BY <1>3, <2>1, <2>2, <2>3, <2>4 DEF N!Script
<1>4. ASSUME N!Network PROVE PostStep
  BY <1>4 DEF N!Network, PostStep
<1> QED
  BY <1>2, <1>3, <1>4 DEF N!TestNext

LEMMA StepOfOne ==
  [DeviceNext]_device =>
    /\ [Next]_vars
    /\ [C!Next]_(C!vars)
    /\ [T!Next]_(T!vars)
    /\ [PostStep]_(N!vars)
<1> SUFFICES ASSUME [DeviceNext]_device
             PROVE  /\ [Next]_vars /\ [C!Next]_(C!vars) /\ [T!Next]_(T!vars)
                    /\ [PostStep]_(N!vars)
  OBVIOUS
<1>1. ASSUME UNCHANGED console PROVE UNCHANGED C!vars
  BY <1>1 DEF console, C!vars, C!inVars, C!outVars
<1>2. ASSUME UNCHANGED timing PROVE UNCHANGED T!vars
  BY <1>2 DEF timing, T!vars
<1>3. ASSUME UNCHANGED office PROVE UNCHANGED N!vars
  BY <1>3 DEF office, N!vars, N!outVars, N!netVars, N!inVars
<1>4. N!Next => PostStep
  <2> SUFFICES ASSUME NEW r \in Route, NEW d \in Data,
                      N!CallSend(r[1], r[2], r[3], d)
               PROVE  PostStep
    BY DEF N!Next, PostStep
  <2>1. r[1] \in Sender /\ r[2] \in Machine /\ r[3] \in Box
    BY Assumed DEF N!PostOfficeAssumption
  <2> QED
    BY <2>1 DEF PostStep
<1>5. N!TestNext => [PostStep]_(N!vars)
  BY Assumed, TestStep
<1> HIDE DEF vars, console, timing, office, test
<1>6. CASE UNCHANGED device
  BY <1>1, <1>2, <1>3, <1>6 DEF device
<1>7. CASE DeviceNext
  BY <1>1, <1>2, <1>3, <1>4, <1>5, <1>7 DEF DeviceNext
<1> QED
  BY <1>6, <1>7

(* The inductive invariants of the components. *)
DeviceInv ==
  /\ IInv
  /\ ConsoleInv
  /\ TimingInv
  /\ OutInv
  /\ InInv

LEMMA DeviceInvariance == DeviceSpec => []DeviceInv
<1>1. DeviceInit => DeviceInv
  BY Assumed, InitInv, ConsoleInit, TimingInit, PostInit
  DEF DeviceInit, DeviceInv, N!TestInit
<1>2. DeviceInv /\ [DeviceNext]_device => DeviceInv'
  <2> SUFFICES ASSUME DeviceInv, [DeviceNext]_device PROVE DeviceInv'
    OBVIOUS
  <2>1. /\ [Next]_vars /\ [C!Next]_(C!vars) /\ [T!Next]_(T!vars)
        /\ [PostStep]_(N!vars)
    BY StepOfOne
  <2>2. IInv'
    BY <2>1, NextInv DEF DeviceInv
  <2>3. ConsoleInv'
    BY <2>1, Assumed, ConsoleNext DEF DeviceInv
  <2>4. TimingInv'
    BY <2>1, Assumed, TimingNext DEF DeviceInv
  <2>5. OutInv' /\ InInv'
    BY <2>1, Assumed, PostKeepsInv DEF DeviceInv
  <2> QED
    BY <2>2, <2>3, <2>4, <2>5 DEF DeviceInv
<1> QED
  BY <1>1, <1>2, PTL DEF DeviceSpec

(* The disk, the console and the network interrupt once for every request, *)
(* character or packet, and the ASSERTs on active, incoming, putBusy and   *)
(* sendBusy in disk.cc, console.cc and network.cc hold, whatever the order *)
(* of threads and interrupts, also when a machine halts or a receiver is   *)
(* down and SendToSocket tries again.                                      *)
THEOREM DevicesInterruptOnce == DeviceSpec => []InterruptProtocol
<1>1. DeviceInv => InterruptProtocol
  BY Assumed, DiskInterruptsOnce, ConsoleInterruptsOnce, PacketsInterruptOnce
  DEF DeviceInv, InterruptProtocol
<1> QED
  BY <1>1, DeviceInvariance, PTL

(* Readers of the console get what has been typed, in that order, with     *)
(* nothing lost or repeated, and EOF at the end of the file.               *)
THEOREM InputIsRead == DeviceSpec => []InputInOrder
<1>1. DeviceInv => InputInOrder
  BY InputIsInOrder DEF DeviceInv, InputInOrder
<1> QED
  BY <1>1, DeviceInvariance, PTL

(* Whatever the requests and their times, the interrupt of the disk comes  *)
(* when the rotating disk is done with the sector, or, for a read, after   *)
(* one transfer if the track buffer has it.                                *)
THEOREM DiskIsPhysical == DeviceSpec => []LatencyIsPhysical
<1>1. DeviceInv => LatencyIsPhysical
  BY DEF DeviceInv, TimingInv, LatencyIsPhysical
<1> QED
  BY <1>1, DeviceInvariance, PTL

(* Sender, socket, inbox, postal worker and mailboxes together implement   *)
(* the channel: mail is lost when it is sent or when its receiver halts,   *)
(* and never otherwise, repeated or put out of order.                      *)
THEOREM PostOfficeIsChannel == DeviceSpec => ImplementsChannel
<1>1. DeviceInit => N!C!Init
  BY InitOnChannel DEF DeviceInit, N!TestInit
<1>2. DeviceInv /\ [DeviceNext]_device => [N!C!Next]_(N!C!vars)
  BY Assumed, StepOfOne, NextOnChannel DEF DeviceInv
<1> QED
  BY <1>1, <1>2, DeviceInvariance, PTL
  DEF DeviceSpec, ImplementsChannel, N!ImplementsChannel, N!C!Spec
=============================================================================
