----------------------------- MODULE SynchDisk -----------------------------
(***************************************************************************)
(* The synchronous disk with its cache of sectors (filesys/synchdisk.cc)   *)
(* on top of the disk device (machine/disk.cc), which carries a request    *)
(* out at once and interrupts later.  Lock and semaphore are atomic here   *)
(* (module Synch).                                                         *)
(*                                                                         *)
(* The constructor sets valid to -1 in every slot of the cache and leaves  *)
(* the rest uninitialized; ReadSector takes valid = 0 for a free           *)
(* slot, which no slot ever has.  So the slot with the smallest lru,       *)
(* whatever it was left at, is replaced.                                   *)
(***************************************************************************)
EXTENDS Integers, FiniteSets, FiniteSetsExt

CONSTANTS Thread, Sector, Value, NULL,
          DiskCacheSize,
          Garbage,   \* values that an uninitialized lru may have
          MaxTicks   \* bound of the model: no call after this time

ASSUME SynchDiskAssumption ==
  /\ DiskCacheSize \in Nat \ {0}
  /\ Garbage \in SUBSET Int /\ Garbage # {}
  /\ MaxTicks \in Nat
  /\ NULL \notin Thread \union Value

VARIABLES lock,       \* the thread that has the lock, or NULL
          semaphore,  \* its value
          active,     \* Disk::active: an interrupt is to come
          disk,       \* contents of the sectors
          cache,      \* SynchDisk::cache
          totalTicks, \* simulated time, in operations completed
          pc,         \* where a thread is
          op,         \* the operation it has called
          sector,     \* and its arguments
          data

vars == <<lock, semaphore, active, disk, cache, totalTicks, pc, op, sector, data>>

Slot == 0..(DiskCacheSize - 1)

Init ==
  /\ lock = NULL
  /\ semaphore = 0
  /\ active = FALSE
  /\ disk \in [Sector -> Value]
  /\ cache \in [Slot -> [valid : {-1}, sector : Sector, lru : Garbage,
                         data : Value]]
  /\ totalTicks = 0
  /\ pc = [t \in Thread |-> "idle"]
  /\ op = [t \in Thread |-> NULL]
  /\ sector = [t \in Thread |-> NULL]
  /\ data = [t \in Thread |-> NULL]

-----------------------------------------------------------------------------
(* ReadSector and WriteSector are called, *)
CallRead(t, s) ==
  /\ pc[t] = "idle" /\ totalTicks < MaxTicks
  /\ pc' = [pc EXCEPT ![t] = "lock"]
  /\ op' = [op EXCEPT ![t] = "read"]
  /\ sector' = [sector EXCEPT ![t] = s]
  /\ UNCHANGED <<lock, semaphore, active, disk, cache, totalTicks, data>>

CallWrite(t, s, v) ==
  /\ pc[t] = "idle" /\ totalTicks < MaxTicks
  /\ pc' = [pc EXCEPT ![t] = "lock"]
  /\ op' = [op EXCEPT ![t] = "write"]
  /\ sector' = [sector EXCEPT ![t] = s]
  /\ data' = [data EXCEPT ![t] = v]
  /\ UNCHANGED <<lock, semaphore, active, disk, cache, totalTicks>>

(* and take the lock. *)
Acquire(t) ==
  /\ pc[t] = "lock"
  /\ lock = NULL
  /\ lock' = t
  /\ pc' = [pc EXCEPT ![t] = "locked"]
  /\ UNCHANGED <<semaphore, active, disk, cache, totalTicks, op, sector, data>>

(* Mistake: a slot that has been invalidated is a hit. *)
HitsInvalid(s) == {i \in Slot : cache[i].sector = s}

(* The slots in which ReadSector finds a sector. *)
Hits(s) == {i \in Slot : cache[i].valid = 1 /\ cache[i].sector = s}

(* ReadSector, cache hit *)
ReadHit(t) ==
  /\ pc[t] = "locked" /\ op[t] = "read"
  /\ Hits(sector[t]) # {}
  /\ LET index == Min(Hits(sector[t])) IN
       /\ data' = [data EXCEPT ![t] = cache[index].data]
       /\ cache' = [cache EXCEPT ![index].lru = totalTicks]
  /\ pc' = [pc EXCEPT ![t] = "leave"]
  /\ UNCHANGED <<lock, semaphore, active, disk, totalTicks, op, sector>>

(* The slot that is replaced: the first free one, or the first of the      *)
(* least recently used.                                                    *)
Swap ==
  LET free == {i \in Slot : cache[i].valid = 0}
      oldest == {i \in Slot : \A j \in Slot : cache[i].lru <= cache[j].lru}
  IN  IF free # {} THEN Min(free) ELSE Min(oldest)

Filled(s) == [valid |-> 1, sector |-> s, lru |-> totalTicks, data |-> disk[s]]

(* ReadSector, cache miss: Disk::ReadRequest, and the slot is filled *)
ReadMiss(t) ==
  /\ pc[t] = "locked" /\ op[t] = "read"
  /\ Hits(sector[t]) = {}
  /\ data' = [data EXCEPT ![t] = disk[sector[t]]]
  /\ active' = TRUE
  /\ cache' = [cache EXCEPT ![Swap] = Filled(sector[t])]
  /\ pc' = [pc EXCEPT ![t] = "wait"]
  /\ UNCHANGED <<lock, semaphore, disk, totalTicks, op, sector>>

(* Mistake: only the first slot is invalidated. *)
InvalidatedFirst(s) ==
  [i \in Slot |-> IF cache[i].sector = s /\ i = 0
                  THEN [cache[i] EXCEPT !.valid = -1] ELSE cache[i]]

Invalidated(s) ==
  [i \in Slot |-> IF cache[i].sector = s
                  THEN [cache[i] EXCEPT !.valid = -1] ELSE cache[i]]

(* WriteSector: Disk::WriteRequest, and the sector leaves the cache *)
Write(t) ==
  /\ pc[t] = "locked" /\ op[t] = "write"
  /\ disk' = [disk EXCEPT ![sector[t]] = data[t]]
  /\ active' = TRUE
  /\ cache' = Invalidated(sector[t])
  /\ pc' = [pc EXCEPT ![t] = "wait"]
  /\ UNCHANGED <<lock, semaphore, totalTicks, op, sector, data>>

(* Disk::CallBack and SynchDisk::CallBack *)
DiskInterrupt ==
  /\ active
  /\ active' = FALSE
  /\ semaphore' = semaphore + 1
  /\ UNCHANGED <<lock, disk, cache, totalTicks, pc, op, sector, data>>

(* Mistakes: the semaphore is decremented without a test, ... *)
WaitUntested(t) ==
  /\ pc[t] = "wait"
  /\ semaphore' = semaphore - 1
  /\ pc' = [pc EXCEPT ![t] = "leave"]
  /\ UNCHANGED <<lock, active, disk, cache, totalTicks, op, sector, data>>

(* ... or not at all, ... *)
WaitForNothing(t) ==
  /\ pc[t] = "wait"
  /\ pc' = [pc EXCEPT ![t] = "leave"]
  /\ UNCHANGED <<lock, semaphore, active, disk, cache, totalTicks, op, sector,
                 data>>

(* ... or two interrupts are waited for. *)
WaitForTwo(t) ==
  /\ semaphore > 1
  /\ WaitUntested(t)

(* semaphore->P() *)
WaitForInterrupt(t) ==
  /\ pc[t] = "wait"
  /\ semaphore > 0
  /\ semaphore' = semaphore - 1
  /\ pc' = [pc EXCEPT ![t] = "leave"]
  /\ UNCHANGED <<lock, active, disk, cache, totalTicks, op, sector, data>>

(* lock->Release() and return *)
Release(t) ==
  /\ pc[t] = "leave"
  /\ lock' = NULL
  /\ pc' = [pc EXCEPT ![t] = "idle"]
  /\ op' = [op EXCEPT ![t] = NULL]
  /\ sector' = [sector EXCEPT ![t] = NULL]
  /\ data' = [data EXCEPT ![t] = NULL]
  /\ totalTicks' = totalTicks + 1
  /\ UNCHANGED <<semaphore, active, disk, cache>>

Inside(t) ==
  ReadHit(t) \/ ReadMiss(t) \/ Write(t) \/ WaitForInterrupt(t) \/ Release(t)

Next ==
  \/ \E t \in Thread, s \in Sector : CallRead(t, s)
  \/ \E t \in Thread, s \in Sector, v \in Value : CallWrite(t, s, v)
  \/ \E t \in Thread : Acquire(t)
  \/ \E t \in Thread : Inside(t)
  \/ DiskInterrupt

Spec == Init /\ [][Next]_vars

(* The thread that has the lock goes on, and the interrupt comes. *)
FairSpec ==
  /\ Spec
  /\ \A t \in Thread : WF_vars(Inside(t))
  /\ WF_vars(DiskInterrupt)

-----------------------------------------------------------------------------
(* A valid slot has the contents of its sector, also while a request is    *)
(* under way and after a write, and no sector has two valid slots.         *)
CacheCoherent ==
  \A i \in Slot : cache[i].valid = 1 =>
    /\ cache[i].data = disk[cache[i].sector]
    /\ \A j \in Slot :
         cache[j].valid = 1 /\ cache[j].sector = cache[i].sector => j = i

(* Each request has one interrupt, which lets the thread that made it go   *)
(* on and no other: it is still to come, or the semaphore counts it.  So   *)
(* ASSERT(!active) in ReadRequest and WriteRequest never fails: a thread   *)
(* that has the lock finds the disk idle.                                  *)
OneInterruptPerRequest ==
  /\ semaphore + (IF active THEN 1 ELSE 0) =
       Cardinality({t \in Thread : pc[t] = "wait"})
  /\ \A t \in Thread : pc[t] = "locked" => ~active /\ semaphore = 0
  /\ \A t \in Thread : pc[t] \in {"locked", "wait", "leave"} => lock = t

(* An operation that has the lock returns. *)
RequestReturns == \A t \in Thread : pc[t] = "locked" ~> pc[t] = "idle"

D == INSTANCE AtomicDisk WITH
       store <- disk,
       call <- [t \in Thread |->
                  IF pc[t] \in {"wait", "leave"} THEN "done"
                  ELSE IF pc[t] = "idle" THEN "idle" ELSE op[t]]

(* With its cache, the disk still behaves as if it had none: a read        *)
(* returns what the last write before it has put there.                    *)
ImplementsAtomicDisk == D!Spec
=============================================================================
