---------------------------- MODULE SynchProofs ----------------------------
(***************************************************************************)
(* Proofs about module Synch, for any number of threads, locks, condition  *)
(* variables and semaphores.                                               *)
(***************************************************************************)
EXTENDS Synch, ListsProofs, FiniteSetTheorems

(* Where a thread can be: it sleeps on its own semaphore only in a Wait,   *)
(* and never calls P of a lock it has.                                     *)
Where ==
  \A t \in Thread :
    /\ pc[t] = "out" <=> sem[t] = NULL
    /\ sem[t] \in Thread => sem[t] = t /\ wait[t] # NULL
    /\ wait[t] # NULL => sem[t] \in {t, wait[t]} /\ wait[t] \notin held[t]
    /\ sem[t] \in Lock => sem[t] \notin held[t]
    /\ bcast[t] # NULL => pc[t] = "out"

(* NoLostWakeup of any values, queues, places and semaphores. *)
Wakeups(v, q, at, on) ==
  \A s \in AllSemaphores :
    /\ IsInjective(q[s])
    /\ \A t \in Thread : IsInList(q[s], t) <=> at[t] = "asleep" /\ on[t] = s
    /\ q[s] # << >> =>
         Cardinality({t \in Thread : at[t] = "P" /\ on[t] = s}) >= v[s]

InWaiterP(t) == sem[t] = t /\ pc[t] \in {"P", "asleep"}

(* A waiter is in the queue of one condition, once, or has been signalled. *)
Signals ==
  /\ \A c \in Condition : IsInjective(waitQueue[c])
  /\ \A t \in Thread, c \in Condition : IsInList(waitQueue[c], t) =>
       /\ InWaiterP(t)
       /\ value[t] = 0
       /\ wait[t] = LockOf[c]
       /\ \A d \in Condition : IsInList(waitQueue[d], t) => d = c
  /\ \A t \in Thread :
       /\ value[t] \in {0, 1}
       /\ value[t] = 1 => InWaiterP(t)
       /\ InWaiterP(t) /\ value[t] = 0 =>
            \E c \in Condition : IsInList(waitQueue[c], t)

(* The inductive invariant. *)
IInv == TypeOK /\ Where /\ LockInv /\ NoLostWakeup /\ Signals

-----------------------------------------------------------------------------
(* The empty list. *)
LEMMA EmptyListFacts ==
  /\ IsInjective(<< >>)
  /\ \A y : ~IsInList(<< >>, y)
  BY DEF IsInjective, IsInList, Contains

(* Initially every lock is free and nobody sleeps or waits. *)
LEMMA InitInv == Init => IInv
<1> SUFFICES ASSUME Init PROVE IInv
  OBVIOUS
<1> USE SynchAssumption DEF AllSemaphores
<1>1. TypeOK
  BY DEF Init, TypeOK, PC
<1>2. Where
  BY DEF Init, Where
<1>3. LockInv
  <2>1. \A l \in Lock : Owners(l) = {}
    BY DEF Init, Owners
  <2> QED
    BY <2>1 DEF Init, LockInv, MutualExclusion, HolderKnown
<1>4. NoLostWakeup
  BY EmptyListFacts DEF Init, NoLostWakeup
<1>5. Signals
  BY EmptyListFacts DEF Init, Signals, InWaiterP
<1> QED
  BY <1>1, <1>2, <1>3, <1>4, <1>5 DEF IInv

-----------------------------------------------------------------------------
(* Semaphores: what the steps do to the queues of sleepers. *)

(* More threads about to test the value do no harm. *)
LEMMA MoreAwake ==
  ASSUME NEW A, NEW B \in SUBSET Thread, A \subseteq B, NEW n \in Nat,
         Cardinality(A) >= n
  PROVE  Cardinality(B) >= n
<1>1. IsFiniteSet(B)
  BY SynchAssumption, FS_Subset
<1>2. IsFiniteSet(A) /\ Cardinality(A) <= Cardinality(B)
  BY <1>1, FS_Subset
<1>3. Cardinality(A) \in Nat /\ Cardinality(B) \in Nat
  BY <1>1, <1>2, FS_CardinalityType
<1> QED
  BY <1>2, <1>3

(* A thread that was in no P calls P. *)
LEMMA WakeupsCall ==
  ASSUME TypeOK, NoLostWakeup, NEW t \in Thread, pc[t] \in {"out", "got"},
         NEW s \in AllSemaphores
  PROVE  Wakeups(value, queue, [pc EXCEPT ![t] = "P"], [sem EXCEPT ![t] = s])
<1> DEFINE at == [pc EXCEPT ![t] = "P"]
           on == [sem EXCEPT ![t] = s]
<1> SUFFICES ASSUME NEW k \in AllSemaphores
             PROVE  /\ IsInjective(queue[k])
                    /\ \A u \in Thread : IsInList(queue[k], u) <=>
                         at[u] = "asleep" /\ on[u] = k
                    /\ queue[k] # << >> =>
                         Cardinality({u \in Thread : at[u] = "P" /\ on[u] = k})
                           >= value[k]
  BY DEF Wakeups
<1>1. /\ at[t] = "P" /\ on[t] = s
      /\ \A u \in Thread : u # t => at[u] = pc[u] /\ on[u] = sem[u]
  BY DEF TypeOK
<1> HIDE DEF at, on
<1>2. IsInjective(queue[k])
  BY DEF NoLostWakeup
<1>3. \A u \in Thread : IsInList(queue[k], u) <=> at[u] = "asleep" /\ on[u] = k
  BY <1>1 DEF NoLostWakeup
<1>4. ASSUME queue[k] # << >>
      PROVE  Cardinality({u \in Thread : at[u] = "P" /\ on[u] = k}) >= value[k]
  <2>1. Cardinality(Awake(k)) >= value[k]
    BY <1>4 DEF NoLostWakeup
  <2>2. Awake(k) \subseteq {u \in Thread : at[u] = "P" /\ on[u] = k}
    BY <1>1 DEF Awake
  <2>3. value[k] \in Nat
    BY DEF TypeOK
  <2> DEFINE B == {u \in Thread : at[u] = "P" /\ on[u] = k}
  <2>4. B \in SUBSET Thread
    OBVIOUS
  <2>5. Awake(k) \subseteq B
    BY <2>2
  <2> HIDE DEF B
  <2>6. Cardinality(B) >= value[k]
    BY <2>1, <2>3, <2>4, <2>5, MoreAwake
  <2> QED
    BY <2>6 DEF B
<1> QED
  BY <1>2, <1>3, <1>4

(* V adds one to the value, and wakes a sleeper if there is one. *)
LEMMA WakeupsV ==
  ASSUME NEW at \in [Thread -> PC], NEW on, NEW s \in AllSemaphores,
         value \in [AllSemaphores -> Nat],
         queue \in [AllSemaphores -> Seq(Thread)],
         Wakeups(value, queue, at, on), V(s, at)
  PROVE  /\ value' \in [AllSemaphores -> Nat]
         /\ queue' \in [AllSemaphores -> Seq(Thread)]
         /\ pc' \in [Thread -> PC]
         /\ Wakeups(value', queue', pc', on)
         /\ \A u \in Thread :
              pc'[u] = at[u] \/ (at[u] = "asleep" /\ pc'[u] = "P" /\ on[u] = s)
<1>1. value' = [value EXCEPT ![s] = @ + 1]
  BY DEF V
<1>2. value' \in [AllSemaphores -> Nat]
  BY <1>1
<1> DEFINE now(k) == {u \in Thread : pc'[u] = "P" /\ on[u] = k}
           before(k) == {u \in Thread : at[u] = "P" /\ on[u] = k}
<1>3. CASE queue[s] = << >>
  <2>1. pc' = at /\ queue' = queue
    BY <1>3 DEF V
  <2>2. \A k \in AllSemaphores : k # s => value'[k] = value[k]
    BY <1>1
  <2>3. Wakeups(value', queue', pc', on)
    <3> SUFFICES Wakeups(value', queue, at, on)
      BY <2>1
    <3>1. \A k \in AllSemaphores : queue[k] # << >> => value'[k] = value[k]
      BY <1>3, <2>2
    <3> QED
      BY <3>1 DEF Wakeups
  <2> QED
    BY <1>2, <2>1, <2>3
<1>4. CASE queue[s] # << >>
  <2> DEFINE h == Head(queue[s])
  <2>1. /\ h \in Thread
        /\ Tail(queue[s]) \in Seq(Thread)
        /\ \A y : IsInList(queue[s], y) <=> IsInList(Tail(queue[s]), y) \/ y = h
        /\ IsInjective(Tail(queue[s]))
        /\ ~IsInList(Tail(queue[s]), h)
    BY <1>4, TailFacts DEF Wakeups
  <2>2. pc' = [at EXCEPT ![h] = "P"] /\ queue' = [queue EXCEPT ![s] = Tail(@)]
    BY <1>4 DEF V
  <2> HIDE DEF h
  <2>3. at[h] = "asleep" /\ on[h] = s
    BY <2>1 DEF Wakeups
  <2>4. /\ queue'[s] = Tail(queue[s])
        /\ \A k \in AllSemaphores : k # s => queue'[k] = queue[k]
        /\ pc'[h] = "P" /\ \A u \in Thread : u # h => pc'[u] = at[u]
        /\ value'[s] = value[s] + 1
        /\ \A k \in AllSemaphores : k # s => value'[k] = value[k]
    BY <1>1, <2>1, <2>2
  <2>5. queue' \in [AllSemaphores -> Seq(Thread)]
    BY <2>1, <2>2
  <2>6. pc' \in [Thread -> PC]
    BY <2>1, <2>2 DEF PC
  <2>7. ASSUME NEW k \in AllSemaphores
        PROVE  /\ IsInjective(queue'[k])
               /\ \A u \in Thread : IsInList(queue'[k], u) <=>
                    pc'[u] = "asleep" /\ on[u] = k
    <3>1. /\ IsInjective(queue[k])
          /\ \A u \in Thread : IsInList(queue[k], u) <=>
               at[u] = "asleep" /\ on[u] = k
      BY DEF Wakeups
    <3>2. IsInjective(queue'[k])
      BY <2>1, <2>4, <3>1
    <3>3. ASSUME NEW u \in Thread
          PROVE  IsInList(queue'[k], u) <=> pc'[u] = "asleep" /\ on[u] = k
      <4>1. CASE u = h
        BY <2>1, <2>3, <2>4, <3>1, <4>1
      <4>2. CASE u # h
        BY <2>1, <2>4, <3>1, <4>2
      <4> QED
        BY <4>1, <4>2
    <3> QED
      BY <3>2, <3>3
  <2>8. ASSUME NEW k \in AllSemaphores, queue'[k] # << >>
        PROVE  Cardinality(now(k)) >= value'[k]
    <3>1. IsFiniteSet(before(k)) /\ Cardinality(before(k)) \in Nat
      <4>1. before(k) \subseteq Thread
        OBVIOUS
      <4> HIDE DEF before
      <4>2. IsFiniteSet(before(k))
        BY <4>1, SynchAssumption, FS_Subset
      <4> QED
        BY <4>2, FS_CardinalityType
    <3>2. CASE k = s
      <4>1. now(k) = before(k) \union {h} /\ h \notin before(k)
        BY <2>1, <2>3, <2>4, <3>2
      <4>2. Cardinality(before(k)) >= value[k]
        BY <1>4, <3>2 DEF Wakeups
      <4> HIDE DEF now, before
      <4>3. Cardinality(now(k)) = Cardinality(before(k)) + 1
        BY <3>1, <4>1, FS_AddElement
      <4> QED
        BY <2>4, <3>1, <3>2, <4>2, <4>3
    <3>3. CASE k # s
      <4>1. now(k) = before(k)
        BY <2>1, <2>3, <2>4, <3>3
      <4>2. Cardinality(before(k)) >= value[k]
        BY <2>4, <2>8, <3>3 DEF Wakeups
      <4> QED
        BY <2>4, <3>3, <4>1, <4>2
    <3> QED
      BY <3>2, <3>3
  <2>9. Wakeups(value', queue', pc', on)
    BY <2>7, <2>8 DEF Wakeups
  <2> QED
    BY <1>2, <2>1, <2>3, <2>4, <2>5, <2>6, <2>9
<1> QED
  BY <1>3, <1>4

-----------------------------------------------------------------------------
(* NoLostWakeup is Wakeups of the state. *)
LEMMA WakeupsNow ==
  /\ NoLostWakeup <=> Wakeups(value, queue, pc, sem)
  /\ NoLostWakeup' <=> Wakeups(value', queue', pc', sem')
  BY DEF NoLostWakeup, Wakeups, Awake

(* A step that leaves the locks and their owners as they are. *)
LEMMA LocksKept ==
  ASSUME LockInv, UNCHANGED <<lockHolder, held>>,
         \A l \in Lock : Owners(l)' = Owners(l) /\ value'[l] = value[l],
         \A t \in Thread : bcast'[t] # NULL => LockOf[bcast'[t]] \in held[t]
  PROVE  LockInv'
<1>1. MutualExclusion'
  BY DEF LockInv, MutualExclusion
<1>2. HolderKnown'
  BY DEF LockInv, HolderKnown
<1> QED
  BY <1>1, <1>2 DEF LockInv

(* A step that neither takes nor gives a signal. *)
LEMMA SignalsKept ==
  ASSUME Signals, waitQueue' = waitQueue,
         \A t \in Thread : /\ value'[t] = value[t]
                           /\ InWaiterP(t)' <=> InWaiterP(t)
                           /\ InWaiterP(t) => wait'[t] = wait[t]
  PROVE  Signals'
  BY DEF Signals

-----------------------------------------------------------------------------
(* A thread calls P of a semaphore, or Acquire of a lock it has not. *)
LEMMA CallInv ==
  ASSUME IInv, NEW t \in Thread, Idle(t), NEW s \in Semaphore \union Lock,
         s \notin held[t],
         pc' = [pc EXCEPT ![t] = "P"], sem' = [sem EXCEPT ![t] = s],
         UNCHANGED <<value, queue, lockHolder, waitQueue, wait, bcast, held>>
  PROVE  IInv'
<1> USE SynchAssumption DEF IInv
<1>1. /\ pc[t] = "out" /\ bcast[t] = NULL /\ sem[t] = NULL /\ wait[t] = NULL
      /\ s \in AllSemaphores /\ s \notin Thread /\ s # NULL
  BY DEF Idle, Where, AllSemaphores, TypeOK
<1>2. /\ pc'[t] = "P" /\ sem'[t] = s
      /\ \A u \in Thread : u # t => pc'[u] = pc[u] /\ sem'[u] = sem[u]
  BY DEF TypeOK
<1>3. TypeOK'
  BY <1>1 DEF TypeOK, PC
<1>4. Where'
  BY <1>1, <1>2 DEF Where
<1>5. \A l \in Lock : Owners(l)' = Owners(l)
  BY <1>1, <1>2 DEF Owners
<1>6. LockInv'
  BY <1>5, LocksKept DEF LockInv, HolderKnown
<1>7. NoLostWakeup'
  BY <1>1, WakeupsCall, WakeupsNow
<1>8. Signals'
  <2>1. \A u \in Thread : InWaiterP(u)' <=> InWaiterP(u)
    BY <1>1, <1>2 DEF InWaiterP
  <2> QED
    BY <2>1, SignalsKept
<1> QED
  BY <1>3, <1>4, <1>6, <1>7, <1>8

(* P with value 0: the thread goes to sleep. *)
LEMMA PSleepInv ==
  ASSUME IInv, NEW t \in Thread, PSleep(t)
  PROVE  IInv'
<1> USE SynchAssumption DEF IInv
<1> DEFINE s == sem[t]
<1>1. /\ pc[t] = "P" /\ s \in AllSemaphores /\ value[s] = 0
      /\ queue' = [queue EXCEPT ![s] = Append(@, t)]
      /\ pc' = [pc EXCEPT ![t] = "asleep"]
      /\ UNCHANGED <<value, lockHolder, waitQueue, sem, wait, bcast, held>>
  BY DEF PSleep, Where, TypeOK, AllSemaphores
<1>2. /\ pc'[t] = "asleep" /\ \A u \in Thread : u # t => pc'[u] = pc[u]
      /\ queue'[s] = Append(queue[s], t)
      /\ \A k \in AllSemaphores : k # s => queue'[k] = queue[k]
  BY <1>1 DEF TypeOK
<1>3. /\ Append(queue[s], t) \in Seq(Thread)
      /\ \A y : IsInList(Append(queue[s], t), y) <=> IsInList(queue[s], y) \/ y = t
      /\ ~IsInList(queue[s], t)
      /\ IsInjective(Append(queue[s], t))
  <2>1. queue[s] \in Seq(Thread) /\ ~IsInList(queue[s], t) /\ IsInjective(queue[s])
    BY <1>1 DEF TypeOK, NoLostWakeup
  <2> QED
    BY <2>1, AppendFacts
<1>4. TypeOK'
  BY <1>1, <1>3 DEF TypeOK, PC
<1>5. Where'
  BY <1>1, <1>2 DEF Where
<1>6. \A l \in Lock : Owners(l)' = Owners(l)
  BY <1>1, <1>2 DEF Owners
<1>7. LockInv'
  BY <1>1, <1>6, LocksKept DEF LockInv, HolderKnown
<1>8. NoLostWakeup'
  <2> SUFFICES ASSUME NEW k \in AllSemaphores
               PROVE  /\ IsInjective(queue'[k])
                      /\ \A u \in Thread : IsInList(queue'[k], u) <=>
                           pc'[u] = "asleep" /\ sem[u] = k
                      /\ queue'[k] # << >> => Cardinality(Awake(k)') >= value[k]
    BY <1>1 DEF NoLostWakeup
  <2>1. /\ IsInjective(queue[k])
        /\ \A u \in Thread : IsInList(queue[k], u) <=>
             pc[u] = "asleep" /\ sem[u] = k
        /\ queue[k] # << >> => Cardinality(Awake(k)) >= value[k]
    BY DEF NoLostWakeup
  <2>2. CASE k = s
    <3>1. IsInjective(queue'[k])
      BY <1>2, <1>3, <2>2
    <3>2. \A u \in Thread : IsInList(queue'[k], u) <=>
                              pc'[u] = "asleep" /\ sem[u] = k
      BY <1>2, <1>3, <2>1, <2>2
    <3>3. Cardinality(Awake(k)') >= 0
      <4>1. Awake(k)' \subseteq Thread
        BY DEF Awake
      <4>2. IsFiniteSet(Awake(k)')
        BY <4>1, FS_Subset
      <4>3. Cardinality(Awake(k)') \in Nat
        BY <4>2, FS_CardinalityType
      <4> QED
        BY <4>3
    <3> QED
      BY <1>1, <2>2, <3>1, <3>2, <3>3
  <2>3. CASE k # s
    <3>1. Awake(k)' = Awake(k)
      BY <1>1, <1>2, <2>3 DEF Awake
    <3>2. queue'[k] = queue[k]
      BY <1>2, <2>3
    <3>3. \A u \in Thread : IsInList(queue'[k], u) <=>
                              pc'[u] = "asleep" /\ sem[u] = k
      BY <1>2, <2>1, <2>3, <3>2
    <3> QED
      BY <2>1, <3>1, <3>2, <3>3
  <2> QED
    BY <2>2, <2>3
<1>9. Signals'
  <2>1. \A u \in Thread : InWaiterP(u)' <=> InWaiterP(u)
    BY <1>1, <1>2 DEF InWaiterP
  <2> QED
    BY <1>1, <2>1, SignalsKept
<1> QED
  BY <1>4, <1>5, <1>7, <1>8, <1>9

(* P with a positive value: the thread takes one, which makes it the owner *)
(* of a lock, or takes the signal out of a waiter's semaphore.             *)
LEMMA PTakeInv ==
  ASSUME IInv, NEW t \in Thread, PTake(t)
  PROVE  IInv'
<1> USE SynchAssumption DEF IInv
<1> DEFINE s == sem[t]
<1>1. /\ pc[t] = "P" /\ s \in AllSemaphores /\ value[s] # 0
      /\ value' = [value EXCEPT ![s] = @ - 1]
      /\ pc' = [pc EXCEPT ![t] = "got"]
      /\ UNCHANGED <<queue, lockHolder, waitQueue, sem, wait, bcast, held>>
  BY DEF PTake, Where, TypeOK, AllSemaphores
<1>2. /\ pc'[t] = "got" /\ \A u \in Thread : u # t => pc'[u] = pc[u]
      /\ value[s] \in Nat /\ value'[s] = value[s] - 1
      /\ \A k \in AllSemaphores : k # s => value'[k] = value[k]
  BY <1>1 DEF TypeOK
<1>3. TypeOK'
  <2>1. value' \in [AllSemaphores -> Nat]
    BY <1>1, <1>2 DEF TypeOK
  <2> QED
    BY <1>1, <2>1 DEF TypeOK, PC
<1>4. Where'
  BY <1>1, <1>2 DEF Where
<1>5. LockInv'
  <2>1. \A l \in Lock : l \in AllSemaphores
    BY DEF AllSemaphores
  <2>2. \A l \in Lock : l # s => Owners(l)' = Owners(l)
    BY <1>1, <1>2 DEF Owners
  <2>3. s \in Lock => Owners(s) = {} /\ value[s] = 1
    BY <1>1 DEF LockInv, MutualExclusion
  <2>4. ASSUME NEW l \in Lock, l = s PROVE Owners(l)' = {t}
    <3>1. \A u \in Thread : ~(l \in held[u]) /\ ~(pc[u] = "got" /\ sem[u] = l)
      BY <2>3, <2>4 DEF Owners
    <3> QED
      BY <1>1, <1>2, <2>4, <3>1 DEF Owners
  <2>5. MutualExclusion'
    <3> SUFFICES ASSUME NEW l \in Lock
                 PROVE  /\ \A u, v \in Owners(l)' : u = v
                        /\ value'[l] = IF Owners(l)' = {} THEN 1 ELSE 0
      BY DEF MutualExclusion
    <3>1. CASE l = s
      <4>1. value'[l] = 0
        BY <1>2, <2>3, <3>1
      <4>2. Owners(l)' = {t}
        BY <2>4, <3>1
      <4> QED
        BY <4>1, <4>2
    <3>2. CASE l # s
      BY <1>2, <2>1, <2>2, <3>2 DEF LockInv, MutualExclusion
    <3> QED
      BY <3>1, <3>2
  <2>6. HolderKnown'
    BY <1>1 DEF LockInv, HolderKnown
  <2> QED
    BY <2>5, <2>6 DEF LockInv
<1>6. NoLostWakeup'
  <2> SUFFICES ASSUME NEW k \in AllSemaphores
               PROVE  /\ IsInjective(queue[k])
                      /\ \A u \in Thread : IsInList(queue[k], u) <=>
                           pc'[u] = "asleep" /\ sem[u] = k
                      /\ queue[k] # << >> => Cardinality(Awake(k)') >= value'[k]
    BY <1>1 DEF NoLostWakeup
  <2>1. /\ IsInjective(queue[k])
        /\ \A u \in Thread : IsInList(queue[k], u) <=>
             pc[u] = "asleep" /\ sem[u] = k
        /\ queue[k] # << >> => Cardinality(Awake(k)) >= value[k]
    BY DEF NoLostWakeup
  <2>2. \A u \in Thread : IsInList(queue[k], u) <=>
                            pc'[u] = "asleep" /\ sem[u] = k
    BY <1>1, <1>2, <2>1
  <2>3. CASE k = s
    <3>1. Awake(k)' = Awake(k) \ {t} /\ t \in Awake(k)
      BY <1>1, <1>2, <2>3 DEF Awake
    <3>2. Awake(k) \subseteq Thread
      BY DEF Awake
    <3>3. IsFiniteSet(Awake(k))
      BY <3>2, FS_Subset
    <3>4. Cardinality(Awake(k)') = Cardinality(Awake(k)) - 1
      BY <3>1, <3>3, FS_RemoveElement
    <3>5. Cardinality(Awake(k)) \in Nat
      BY <3>3, FS_CardinalityType
    <3>6. queue[k] # << >> => Cardinality(Awake(k)') >= value'[k]
      BY <1>2, <2>1, <2>3, <3>4, <3>5
    <3> QED
      BY <2>1, <2>2, <3>6
  <2>4. CASE k # s
    <3>1. Awake(k)' = Awake(k)
      BY <1>1, <1>2, <2>4 DEF Awake
    <3> QED
      BY <1>2, <2>1, <2>2, <2>4, <3>1
  <2> QED
    BY <2>3, <2>4
<1>7. Signals'
  <2>1. CASE s \notin Thread
    <3>1. \A u \in Thread : InWaiterP(u)' <=> InWaiterP(u)
      BY <1>1, <1>2, <2>1 DEF InWaiterP
    <3>2. \A u \in Thread : value'[u] = value[u]
      BY <1>2, <2>1 DEF AllSemaphores
    <3> QED
      BY <1>1, <3>1, <3>2, SignalsKept
  <2>2. CASE s \in Thread
    <3>1. s = t
      BY <2>2 DEF Where
    <3>2. value[t] = 1 /\ value'[t] = 0
      BY <1>1, <1>2, <3>1 DEF Signals
    <3>3. \A u \in Thread : u # t =>
            value'[u] = value[u] /\ (InWaiterP(u)' <=> InWaiterP(u))
      BY <1>1, <1>2, <3>1 DEF InWaiterP, AllSemaphores
    <3>4. ~InWaiterP(t)'
      BY <1>2 DEF InWaiterP
    <3>5. \A c \in Condition : ~IsInList(waitQueue[c], t)
      BY <3>2 DEF Signals
    <3> QED
      BY <1>1, <3>2, <3>3, <3>4, <3>5 DEF Signals
  <2> QED
    BY <2>1, <2>2
<1> QED
  BY <1>3, <1>4, <1>5, <1>6, <1>7

(* P returns; in Lock::Acquire, lockHolder is set. *)
LEMMA ReturnInv ==
  ASSUME IInv, NEW t \in Thread, PReturn(t) \/ AcquireReturn(t)
  PROVE  IInv'
<1> USE SynchAssumption DEF IInv
<1>1. /\ pc[t] = "got" /\ sem[t] \in Semaphore \union Lock /\ bcast[t] = NULL
      /\ pc' = [pc EXCEPT ![t] = "out"]
      /\ sem' = [sem EXCEPT ![t] = NULL]
      /\ UNCHANGED <<value, queue, waitQueue, bcast>>
  BY DEF PReturn, AcquireReturn, Where
<1>2. /\ pc'[t] = "out" /\ sem'[t] = NULL
      /\ \A u \in Thread : u # t => pc'[u] = pc[u] /\ sem'[u] = sem[u]
  BY <1>1 DEF TypeOK
<1>3. sem[t] \notin Thread /\ sem[t] # t
  BY <1>1
<1>4. /\ wait'[t] = NULL /\ wait' \in [Thread -> Lock \union {NULL}]
      /\ \A u \in Thread : u # t => wait'[u] = wait[u]
  <2>1. CASE PReturn(t)
    <3>1. wait[t] = NULL
      BY <2>1, <1>3 DEF PReturn, Where, TypeOK
    <3> QED
      BY <2>1, <3>1 DEF PReturn, TypeOK
  <2>2. CASE AcquireReturn(t)
    BY <2>2 DEF AcquireReturn, TypeOK
  <2> QED
    BY <2>1, <2>2
<1>5. /\ held' \in [Thread -> SUBSET Lock]
      /\ held'[t] = held[t] \union ({sem[t]} \intersect Lock)
      /\ \A u \in Thread : u # t => held'[u] = held[u]
  <2>1. CASE PReturn(t)
    <3>1. held' = held /\ sem[t] \notin Lock
      BY <2>1 DEF PReturn
    <3> QED
      BY <3>1 DEF TypeOK
  <2>2. CASE AcquireReturn(t)
    <3>1. held' = [held EXCEPT ![t] = @ \union {sem[t]}] /\ sem[t] \in Lock
      BY <2>2 DEF AcquireReturn
    <3> QED
      BY <3>1 DEF TypeOK
  <2> QED
    BY <2>1, <2>2
<1>6. /\ lockHolder' \in [Lock -> Thread \union {NULL}]
      /\ \A k \in Lock : lockHolder'[k] = IF k = sem[t] THEN t ELSE lockHolder[k]
  <2>1. CASE PReturn(t)
    <3>1. lockHolder' = lockHolder /\ sem[t] \notin Lock
      BY <2>1 DEF PReturn
    <3> QED
      BY <3>1 DEF TypeOK
  <2>2. CASE AcquireReturn(t)
    <3>1. lockHolder' = [lockHolder EXCEPT ![sem[t]] = t] /\ sem[t] \in Lock
      BY <2>2 DEF AcquireReturn
    <3> QED
      BY <3>1 DEF TypeOK
  <2> QED
    BY <2>1, <2>2
<1>7. TypeOK'
  BY <1>1, <1>4, <1>5, <1>6 DEF TypeOK, PC
<1>8. Where'
  BY <1>1, <1>2, <1>4, <1>5 DEF Where
<1>9. LockInv'
  <2>1. \A k \in Lock : Owners(k)' = Owners(k)
    BY <1>1, <1>2, <1>5 DEF Owners
  <2>2. MutualExclusion'
    BY <1>1, <2>1 DEF LockInv, MutualExclusion
  <2>3. \A u \in Thread, k \in Lock : k \in held'[u] <=> lockHolder'[k] = u
    <3> SUFFICES ASSUME NEW u \in Thread, NEW k \in Lock
                 PROVE  k \in held'[u] <=> lockHolder'[k] = u
      OBVIOUS
    <3>1. k \in held[u] <=> lockHolder[k] = u
      BY DEF LockInv, HolderKnown
    <3>2. CASE k # sem[t]
      BY <1>5, <1>6, <3>1, <3>2
    <3>3. CASE k = sem[t]
      <4>1. t \in Owners(k)
        BY <1>1, <3>3 DEF Owners
      <4>2. u # t => k \notin held[u]
        BY <4>1 DEF LockInv, MutualExclusion, Owners
      <4> QED
        BY <1>5, <1>6, <3>3, <4>2
    <3> QED
      BY <3>2, <3>3
  <2>4. \A u \in Thread : bcast'[u] # NULL => LockOf[bcast'[u]] \in held'[u]
    BY <1>1, <1>5 DEF LockInv, HolderKnown
  <2> QED
    BY <2>2, <2>3, <2>4 DEF LockInv, HolderKnown
<1>10. NoLostWakeup'
  <2>1. \A k \in AllSemaphores : Awake(k)' = Awake(k)
    BY <1>1, <1>2 DEF Awake
  <2>2. \A u \in Thread, k \in AllSemaphores :
          pc'[u] = "asleep" /\ sem'[u] = k <=> pc[u] = "asleep" /\ sem[u] = k
    BY <1>1, <1>2
  <2> QED
    BY <1>1, <2>1, <2>2 DEF NoLostWakeup
<1>11. Signals'
  <2>1. \A u \in Thread : InWaiterP(u)' <=> InWaiterP(u)
    BY <1>1, <1>2 DEF InWaiterP
  <2>2. \A u \in Thread : InWaiterP(u) => wait'[u] = wait[u]
    BY <1>3, <1>4 DEF InWaiterP
  <2> QED
    BY <1>1, <2>1, <2>2, SignalsKept
<1> QED
  BY <1>7, <1>8, <1>9, <1>10, <1>11

(* V of a semaphore that threads use directly, by a thread or a handler. *)
LEMMA VInv ==
  ASSUME IInv, NEW s \in Semaphore, V(s, pc),
         UNCHANGED <<lockHolder, waitQueue, sem, wait, bcast, held>>
  PROVE  IInv'
<1> USE SynchAssumption DEF IInv
<1>1. /\ value' \in [AllSemaphores -> Nat]
      /\ queue' \in [AllSemaphores -> Seq(Thread)]
      /\ pc' \in [Thread -> PC]
      /\ Wakeups(value', queue', pc', sem)
      /\ \A u \in Thread :
           pc'[u] = pc[u] \/ (pc[u] = "asleep" /\ pc'[u] = "P" /\ sem[u] = s)
  <2>1. s \in AllSemaphores
    BY DEF AllSemaphores
  <2>2. Wakeups(value, queue, pc, sem)
    BY WakeupsNow
  <2> QED
    BY <2>1, <2>2, WakeupsV DEF TypeOK
<1>2. \A k \in Thread \union Lock : value'[k] = value[k]
  BY DEF V, TypeOK, AllSemaphores
<1>3. TypeOK'
  BY <1>1 DEF TypeOK
<1>4. Where'
  BY <1>1 DEF Where
<1>5. \A l \in Lock : Owners(l)' = Owners(l)
  BY <1>1 DEF Owners
<1>6. LockInv'
  BY <1>2, <1>5, LocksKept DEF LockInv, HolderKnown
<1>7. NoLostWakeup'
  BY <1>1, WakeupsNow
<1>8. Signals'
  <2>1. \A u \in Thread : InWaiterP(u)' <=> InWaiterP(u)
    BY <1>1 DEF InWaiterP
  <2> QED
    BY <1>2, <2>1, SignalsKept
<1> QED
  BY <1>3, <1>4, <1>6, <1>7, <1>8

(* A lock that is released by its holder, in Release or in Wait, is free. *)
LEMMA FreedLock ==
  ASSUME IInv, NEW t \in Thread, NEW l \in held[t], Idle(t),
         held' = [held EXCEPT ![t] = @ \ {l}],
         lockHolder' = [lockHolder EXCEPT ![l] = NULL],
         value' = [value EXCEPT ![l] = @ + 1],
         \A u \in Thread :
           u # t => (pc'[u] = "got" <=> pc[u] = "got") /\ sem'[u] = sem[u],
         pc'[t] # "got", bcast' = bcast
  PROVE  /\ held' \in [Thread -> SUBSET Lock]
         /\ lockHolder' \in [Lock -> Thread \union {NULL}]
         /\ LockInv'
<1> USE SynchAssumption DEF IInv
<1>1. l \in Lock /\ l \in AllSemaphores
  BY DEF TypeOK, AllSemaphores
<1>2. /\ held'[t] = held[t] \ {l}
      /\ \A u \in Thread : u # t => held'[u] = held[u]
      /\ held' \in [Thread -> SUBSET Lock]
  BY DEF TypeOK
<1>3. /\ lockHolder'[l] = NULL
      /\ \A k \in Lock : k # l => lockHolder'[k] = lockHolder[k]
      /\ lockHolder' \in [Lock -> Thread \union {NULL}]
  BY <1>1 DEF TypeOK
<1>4. /\ \A u \in Owners(l) : u = t
      /\ value[l] = 0 /\ pc[t] = "out" /\ bcast[t] = NULL
  <2>1. t \in Owners(l)
    BY DEF Owners
  <2> QED
    BY <1>1, <2>1 DEF LockInv, MutualExclusion, Idle
<1>5. value'[l] = 1 /\ \A k \in Lock : k # l => value'[k] = value[k]
  BY <1>1, <1>4 DEF TypeOK, AllSemaphores
<1>6. Owners(l)' = {}
  BY <1>2, <1>4 DEF Owners
<1>7. \A k \in Lock : k # l => Owners(k)' = Owners(k)
  BY <1>2, <1>4 DEF Owners
<1>8. MutualExclusion'
  <2> SUFFICES ASSUME NEW k \in Lock
               PROVE  /\ \A u, v \in Owners(k)' : u = v
                      /\ value'[k] = IF Owners(k)' = {} THEN 1 ELSE 0
    BY DEF MutualExclusion
  <2>1. CASE k = l
    BY <1>5, <1>6, <2>1
  <2>2. CASE k # l
    BY <1>5, <1>7, <2>2 DEF LockInv, MutualExclusion
  <2> QED
    BY <2>1, <2>2
<1>9. HolderKnown'
  <2>1. ASSUME NEW u \in Thread, NEW k \in Lock
        PROVE  k \in held'[u] <=> lockHolder'[k] = u
    <3>1. k \in held[u] <=> lockHolder[k] = u
      BY DEF LockInv, HolderKnown
    <3>2. CASE k = l
      <4>1. u # t => l \notin held[u]
        BY <1>4 DEF Owners
      <4> QED
        BY <1>2, <1>3, <3>2, <4>1
    <3>3. CASE k # l
      BY <1>2, <1>3, <3>1, <3>3
    <3> QED
      BY <3>2, <3>3
  <2>2. \A u \in Thread : bcast'[u] # NULL => LockOf[bcast'[u]] \in held'[u]
    BY <1>2, <1>4 DEF LockInv, HolderKnown
  <2> QED
    BY <2>1, <2>2 DEF HolderKnown
<1> QED
  BY <1>2, <1>3, <1>8, <1>9 DEF LockInv

(* Lock::Release *)
LEMMA ReleaseInv ==
  ASSUME IInv, NEW t \in Thread, NEW l \in Lock, Release(t, l)
  PROVE  IInv'
<1> USE SynchAssumption DEF IInv
<1>1. /\ Idle(t) /\ l \in held[t] /\ l \in AllSemaphores
      /\ held' = [held EXCEPT ![t] = @ \ {l}]
      /\ lockHolder' = [lockHolder EXCEPT ![l] = NULL]
      /\ V(l, pc) /\ value' = [value EXCEPT ![l] = @ + 1]
      /\ UNCHANGED <<waitQueue, sem, wait, bcast>>
  BY DEF Release, V, AllSemaphores
<1>2. /\ value' \in [AllSemaphores -> Nat]
      /\ queue' \in [AllSemaphores -> Seq(Thread)]
      /\ pc' \in [Thread -> PC]
      /\ Wakeups(value', queue', pc', sem)
      /\ \A u \in Thread :
           pc'[u] = pc[u] \/ (pc[u] = "asleep" /\ pc'[u] = "P" /\ sem[u] = l)
  <2>1. Wakeups(value, queue, pc, sem)
    BY WakeupsNow
  <2> QED
    BY <1>1, <2>1, WakeupsV DEF TypeOK
<1>3. /\ held' \in [Thread -> SUBSET Lock]
      /\ lockHolder' \in [Lock -> Thread \union {NULL}]
      /\ LockInv'
  <2>1. pc'[t] # "got"
    BY <1>1, <1>2 DEF Idle
  <2>2. \A u \in Thread : u # t =>
          (pc'[u] = "got" <=> pc[u] = "got") /\ sem'[u] = sem[u]
    BY <1>1, <1>2
  <2> QED
    BY <1>1, <2>1, <2>2, FreedLock
<1>4. \A k \in Thread : value'[k] = value[k]
  BY <1>1 DEF TypeOK, AllSemaphores
<1>5. TypeOK'
  BY <1>1, <1>2, <1>3 DEF TypeOK
<1>6. Where'
  <2>1. \A u \in Thread : held'[u] \subseteq held[u]
    BY <1>1 DEF TypeOK
  <2> QED
    BY <1>1, <1>2, <2>1 DEF Where
<1>7. NoLostWakeup'
  BY <1>1, <1>2, WakeupsNow
<1>8. Signals'
  <2>1. \A u \in Thread : InWaiterP(u)' <=> InWaiterP(u)
    BY <1>1, <1>2 DEF InWaiterP
  <2> QED
    BY <1>1, <1>4, <2>1, SignalsKept
<1> QED
  BY <1>3, <1>5, <1>6, <1>7, <1>8

(* Condition::Wait: the thread is in the queue before the lock is free. *)
LEMMA WaitInv ==
  ASSUME IInv, NEW t \in Thread, NEW c \in Condition, Wait(t, c)
  PROVE  IInv'
<1> USE SynchAssumption DEF IInv
<1> DEFINE l == LockOf[c]
           at == [pc EXCEPT ![t] = "P"]
           on == [sem EXCEPT ![t] = t]
<1>1. /\ Idle(t) /\ l \in held[t] /\ l \in Lock /\ l \in AllSemaphores
      /\ waitQueue' = [waitQueue EXCEPT ![c] = Append(@, t)]
      /\ held' = [held EXCEPT ![t] = @ \ {l}]
      /\ lockHolder' = [lockHolder EXCEPT ![l] = NULL]
      /\ V(l, at) /\ value' = [value EXCEPT ![l] = @ + 1]
      /\ sem' = on
      /\ wait' = [wait EXCEPT ![t] = l]
      /\ bcast' = bcast
  BY DEF Wait, V, AllSemaphores
<1>2. /\ pc[t] = "out" /\ bcast[t] = NULL /\ sem[t] = NULL
  BY <1>1 DEF Idle, Where
<1>3. /\ at \in [Thread -> PC] /\ at[t] = "P"
      /\ \A u \in Thread : u # t => at[u] = pc[u]
  BY DEF TypeOK, PC
<1>4. /\ on \in [Thread -> AllSemaphores \union {NULL}] /\ on[t] = t
      /\ \A u \in Thread : u # t => on[u] = sem[u]
  BY DEF TypeOK, AllSemaphores
<1>5. Wakeups(value, queue, at, on)
  BY <1>2, WakeupsCall DEF AllSemaphores
<1> HIDE DEF at, on, l
<1>6. /\ value' \in [AllSemaphores -> Nat]
      /\ queue' \in [AllSemaphores -> Seq(Thread)]
      /\ pc' \in [Thread -> PC]
      /\ Wakeups(value', queue', pc', on)
      /\ \A u \in Thread :
           pc'[u] = at[u] \/ (at[u] = "asleep" /\ pc'[u] = "P" /\ on[u] = l)
  BY <1>1, <1>3, <1>5, WakeupsV DEF TypeOK
<1>7. /\ held' \in [Thread -> SUBSET Lock]
      /\ lockHolder' \in [Lock -> Thread \union {NULL}]
      /\ LockInv'
  <2>1. pc'[t] # "got"
    BY <1>3, <1>6
  <2>2. \A u \in Thread : u # t =>
          (pc'[u] = "got" <=> pc[u] = "got") /\ sem'[u] = sem[u]
    BY <1>1, <1>3, <1>4, <1>6
  <2> QED
    BY <1>1, <2>1, <2>2, FreedLock
<1>8. /\ waitQueue'[c] = Append(waitQueue[c], t)
      /\ \A d \in Condition : d # c => waitQueue'[d] = waitQueue[d]
      /\ waitQueue[c] \in Seq(Thread)
      /\ wait'[t] = l /\ \A u \in Thread : u # t => wait'[u] = wait[u]
  BY <1>1 DEF TypeOK
<1>9. \A d \in Condition : ~IsInList(waitQueue[d], t)
  BY <1>2 DEF Signals, InWaiterP
<1>10. /\ Append(waitQueue[c], t) \in Seq(Thread)
       /\ \A y : IsInList(Append(waitQueue[c], t), y) <=>
                  IsInList(waitQueue[c], y) \/ y = t
       /\ IsInjective(Append(waitQueue[c], t))
  BY <1>8, <1>9, AppendFacts DEF Signals
<1>11. TypeOK'
  <2>1. waitQueue' \in [Condition -> Seq(Thread)]
    BY <1>1, <1>10 DEF TypeOK
  <2>2. wait' \in [Thread -> Lock \union {NULL}] /\ bcast' = bcast
    BY <1>1 DEF TypeOK
  <2> QED
    BY <1>1, <1>4, <1>6, <1>7, <2>1, <2>2 DEF TypeOK
<1>12. Where'
  <2>1. /\ held'[t] = held[t] \ {l} /\ t # l
        /\ \A u \in Thread : u # t => held'[u] = held[u]
    BY <1>1 DEF TypeOK
  <2> SUFFICES ASSUME NEW u \in Thread
               PROVE  /\ pc'[u] = "out" <=> sem'[u] = NULL
                      /\ sem'[u] \in Thread => sem'[u] = u /\ wait'[u] # NULL
                      /\ wait'[u] # NULL => /\ sem'[u] \in {u, wait'[u]}
                                            /\ wait'[u] \notin held'[u]
                      /\ sem'[u] \in Lock => sem'[u] \notin held'[u]
                      /\ bcast'[u] # NULL => pc'[u] = "out"
    BY DEF Where
  <2>2. CASE u = t
    BY <1>1, <1>2, <1>3, <1>4, <1>6, <1>8, <2>1, <2>2
  <2>3. CASE u # t
    <3>1. /\ sem'[u] = sem[u] /\ wait'[u] = wait[u] /\ held'[u] = held[u]
          /\ bcast'[u] = bcast[u]
      BY <1>1, <1>4, <1>8, <2>1, <2>3
    <3>2. pc'[u] = "out" <=> pc[u] = "out"
      BY <1>3, <1>6, <2>3
    <3> QED
      BY <3>1, <3>2 DEF Where
  <2> QED
    BY <2>2, <2>3
<1>13. NoLostWakeup'
  BY <1>1, <1>6, WakeupsNow
<1>14. Signals'
  <2>1. \A u \in Thread : value'[u] = value[u]
    BY <1>1 DEF TypeOK, AllSemaphores
  <2>2. InWaiterP(t)'
    BY <1>1, <1>3, <1>4, <1>6 DEF InWaiterP
  <2>3. \A u \in Thread : u # t => (InWaiterP(u)' <=> InWaiterP(u))
    BY <1>1, <1>3, <1>4, <1>6 DEF InWaiterP
  <2>4. \A d \in Condition, u \in Thread :
          IsInList(waitQueue'[d], u) <=>
            IsInList(waitQueue[d], u) \/ (d = c /\ u = t)
    BY <1>8, <1>10
  <2>5. value'[t] = 0
    BY <1>2, <2>1 DEF Signals, InWaiterP
  <2>6. \A d \in Condition : IsInjective(waitQueue'[d])
    BY <1>8, <1>10 DEF Signals
  <2>7. ASSUME NEW u \in Thread, NEW d \in Condition, IsInList(waitQueue'[d], u)
        PROVE  /\ InWaiterP(u)'
               /\ value'[u] = 0
               /\ wait'[u] = LockOf[d]
               /\ \A e \in Condition : IsInList(waitQueue'[e], u) => e = d
    <3>1. CASE u = t
      BY <1>8, <1>9, <2>2, <2>4, <2>5, <2>7, <3>1 DEF l
    <3>2. CASE u # t
      BY <1>8, <2>1, <2>3, <2>4, <2>7, <3>2 DEF Signals
    <3> QED
      BY <3>1, <3>2
  <2>8. ASSUME NEW u \in Thread
        PROVE  /\ value'[u] \in {0, 1}
               /\ value'[u] = 1 => InWaiterP(u)'
               /\ InWaiterP(u)' /\ value'[u] = 0 =>
                    \E d \in Condition : IsInList(waitQueue'[d], u)
    <3>1. CASE u = t
      BY <2>2, <2>4, <2>5, <3>1
    <3>2. CASE u # t
      BY <2>1, <2>3, <2>4, <3>2 DEF Signals
    <3> QED
      BY <3>1, <3>2
  <2> QED
    BY <2>6, <2>7, <2>8 DEF Signals
<1> QED
  BY <1>7, <1>11, <1>12, <1>13, <1>14

(* The signalled thread leaves P of its semaphore and calls Acquire. *)
LEMMA WaitAcquireInv ==
  ASSUME IInv, NEW t \in Thread, WaitAcquire(t)
  PROVE  IInv'
<1> USE SynchAssumption DEF IInv
<1> DEFINE l == wait[t]
<1>1. /\ pc[t] = "got" /\ sem[t] = t /\ l \in Lock /\ l \notin held[t]
      /\ l \in AllSemaphores
      /\ pc' = [pc EXCEPT ![t] = "P"] /\ sem' = [sem EXCEPT ![t] = l]
      /\ UNCHANGED <<value, queue, lockHolder, waitQueue, wait, bcast, held>>
  BY DEF WaitAcquire, Where, TypeOK, AllSemaphores
<1> HIDE DEF l
<1>2. /\ pc'[t] = "P" /\ sem'[t] = l
      /\ \A u \in Thread : u # t => pc'[u] = pc[u] /\ sem'[u] = sem[u]
  BY <1>1 DEF TypeOK
<1>3. TypeOK'
  BY <1>1 DEF TypeOK, PC
<1>4. Where'
  BY <1>1, <1>2 DEF Where, l
<1>5. \A k \in Lock : Owners(k)' = Owners(k)
  BY <1>1, <1>2 DEF Owners
<1>6. LockInv'
  BY <1>1, <1>5, LocksKept DEF LockInv, HolderKnown
<1>7. NoLostWakeup'
  BY <1>1, WakeupsCall, WakeupsNow
<1>8. Signals'
  <2>1. \A u \in Thread : InWaiterP(u)' <=> InWaiterP(u)
    BY <1>1, <1>2 DEF InWaiterP
  <2> QED
    BY <1>1, <2>1, SignalsKept
<1> QED
  BY <1>3, <1>4, <1>6, <1>7, <1>8

(* Condition::Signal, and each turn of Broadcast: the first in the queue   *)
(* leaves it, and its semaphore is V()ed.                                  *)
LEMMA SignalInv ==
  ASSUME IInv, NEW c \in Condition, SignalFirst(c), bcast' = bcast
  PROVE  IInv'
<1> USE SynchAssumption DEF IInv
<1> DEFINE h == Head(waitQueue[c])
<1>1. /\ h \in Thread
      /\ Tail(waitQueue[c]) \in Seq(Thread)
      /\ \A y : IsInList(waitQueue[c], y) <=>
                IsInList(Tail(waitQueue[c]), y) \/ y = h
      /\ IsInjective(Tail(waitQueue[c])) /\ ~IsInList(Tail(waitQueue[c]), h)
  BY TailFacts DEF SignalFirst, Signals, TypeOK
<1>2. /\ waitQueue' = [waitQueue EXCEPT ![c] = Tail(@)]
      /\ V(h, pc) /\ value' = [value EXCEPT ![h] = @ + 1]
      /\ UNCHANGED <<lockHolder, sem, wait, bcast, held>>
      /\ h \in AllSemaphores
  BY <1>1 DEF SignalFirst, V, AllSemaphores
<1> HIDE DEF h
<1>3. /\ value' \in [AllSemaphores -> Nat]
      /\ queue' \in [AllSemaphores -> Seq(Thread)]
      /\ pc' \in [Thread -> PC]
      /\ Wakeups(value', queue', pc', sem)
      /\ \A u \in Thread :
           pc'[u] = pc[u] \/ (pc[u] = "asleep" /\ pc'[u] = "P" /\ sem[u] = h)
  <2>1. Wakeups(value, queue, pc, sem)
    BY WakeupsNow
  <2> QED
    BY <1>2, <2>1, WakeupsV DEF TypeOK
<1>4. /\ waitQueue'[c] = Tail(waitQueue[c])
      /\ \A d \in Condition : d # c => waitQueue'[d] = waitQueue[d]
      /\ waitQueue' \in [Condition -> Seq(Thread)]
  BY <1>1, <1>2 DEF TypeOK
<1>5. /\ value[h] = 0 /\ InWaiterP(h)
      /\ \A d \in Condition : IsInList(waitQueue[d], h) => d = c
  BY <1>1 DEF Signals
<1>6. /\ value'[h] = 1
      /\ \A k \in AllSemaphores : k # h => value'[k] = value[k]
  BY <1>2, <1>5 DEF TypeOK
<1>7. TypeOK'
  BY <1>2, <1>3, <1>4 DEF TypeOK
<1>8. Where'
  BY <1>2, <1>3 DEF Where
<1>9. \A l \in Lock : Owners(l)' = Owners(l) /\ value'[l] = value[l]
  <2>1. \A l \in Lock : l \in AllSemaphores /\ l # h
    BY <1>1 DEF AllSemaphores
  <2> QED
    BY <1>2, <1>3, <1>6, <2>1 DEF Owners
<1>10. LockInv'
  BY <1>2, <1>9, LocksKept DEF LockInv, HolderKnown
<1>11. NoLostWakeup'
  BY <1>2, <1>3, WakeupsNow
<1>12. Signals'
  <2>1. \A u \in Thread : InWaiterP(u)' <=> InWaiterP(u)
    BY <1>2, <1>3 DEF InWaiterP
  <2>2. \A d \in Condition, u \in Thread :
          IsInList(waitQueue'[d], u) <=> IsInList(waitQueue[d], u) /\ u # h
    BY <1>1, <1>4, <1>5
  <2>3. \A d \in Condition : IsInjective(waitQueue'[d])
    BY <1>1, <1>4 DEF Signals
  <2>4. \A u \in Thread : u \in AllSemaphores
    BY DEF AllSemaphores
  <2>5. ASSUME NEW u \in Thread, NEW d \in Condition, IsInList(waitQueue'[d], u)
        PROVE  /\ InWaiterP(u)'
               /\ value'[u] = 0
               /\ wait'[u] = LockOf[d]
               /\ \A e \in Condition : IsInList(waitQueue'[e], u) => e = d
    BY <1>2, <1>6, <2>1, <2>2, <2>4, <2>5 DEF Signals
  <2>6. ASSUME NEW u \in Thread
        PROVE  /\ value'[u] \in {0, 1}
               /\ value'[u] = 1 => InWaiterP(u)'
               /\ InWaiterP(u)' /\ value'[u] = 0 =>
                    \E d \in Condition : IsInList(waitQueue'[d], u)
    <3>1. CASE u = h
      BY <1>5, <1>6, <2>1, <3>1
    <3>2. CASE u # h
      BY <1>6, <2>1, <2>2, <2>4, <3>2 DEF Signals
    <3> QED
      BY <3>1, <3>2
  <2> QED
    BY <2>3, <2>5, <2>6 DEF Signals
<1> QED
  BY <1>7, <1>8, <1>10, <1>11, <1>12

(* Broadcast is called by the holder of the lock, and returns. *)
LEMMA BroadcastInv ==
  ASSUME IInv, NEW t \in Thread, NEW c \in Condition \union {NULL},
         c # NULL => pc[t] = "out" /\ LockOf[c] \in held[t],
         bcast' = [bcast EXCEPT ![t] = c],
         UNCHANGED <<value, queue, lockHolder, waitQueue, pc, sem, wait, held>>
  PROVE  IInv'
<1> USE SynchAssumption DEF IInv
<1>1. bcast'[t] = c /\ \A u \in Thread : u # t => bcast'[u] = bcast[u]
  BY DEF TypeOK
<1>2. TypeOK'
  BY DEF TypeOK
<1>3. Where'
  BY <1>1 DEF Where
<1>4. \A l \in Lock : Owners(l)' = Owners(l)
  BY DEF Owners
<1>5. LockInv'
  BY <1>1, <1>4, LocksKept DEF LockInv, HolderKnown
<1>6. NoLostWakeup'
  BY WakeupsNow
<1>7. Signals'
  BY SignalsKept DEF InWaiterP
<1> QED
  BY <1>2, <1>3, <1>5, <1>6, <1>7

(* Every step keeps the invariant. *)
LEMMA NextInv == IInv /\ [Next]_vars => IInv'
<1> SUFFICES ASSUME IInv, [Next]_vars PROVE IInv'
  OBVIOUS
<1> USE SynchAssumption
<1>1. CASE UNCHANGED vars
  <2>1. \A l \in Lock : Owners(l)' = Owners(l)
    BY <1>1 DEF vars, Owners
  <2>2. TypeOK' /\ Where' /\ LockInv' /\ NoLostWakeup'
    BY <1>1, <2>1, WakeupsNow
    DEF vars, IInv, TypeOK, Where, LockInv, MutualExclusion, HolderKnown
  <2>3. Signals'
    BY <1>1, SignalsKept DEF vars, IInv, InWaiterP
  <2> QED
    BY <2>2, <2>3 DEF IInv
<1>2. ASSUME NEW t \in Thread, NEW s \in Semaphore, CallP(t, s) PROVE IInv'
  <2>1. s \notin held[t]
    BY DEF IInv, TypeOK
  <2> QED
    BY <1>2, <2>1, CallInv DEF CallP
<1>3. ASSUME NEW t \in Thread, NEW l \in Lock, Acquire(t, l) PROVE IInv'
  BY <1>3, CallInv DEF Acquire
<1>4. ASSUME NEW t \in Thread, NEW s \in Semaphore, CallV(t, s) PROVE IInv'
  BY <1>4, VInv DEF CallV
<1>5. ASSUME NEW s \in Device, HandlerV(s) PROVE IInv'
  BY <1>5, VInv DEF HandlerV
<1>6. ASSUME NEW t \in Thread, NEW c \in Condition, Signal(t, c) PROVE IInv'
  BY <1>6, SignalInv DEF Signal
<1>7. ASSUME NEW t \in Thread, BroadcastSignal(t) PROVE IInv'
  BY <1>7, SignalInv DEF BroadcastSignal, IInv, TypeOK
<1>8. ASSUME NEW t \in Thread, NEW c \in Condition, Broadcast(t, c) PROVE IInv'
  BY <1>8, BroadcastInv DEF Broadcast, Idle
<1>9. ASSUME NEW t \in Thread, BroadcastReturn(t) PROVE IInv'
  BY <1>9, BroadcastInv DEF BroadcastReturn
<1> QED
  BY <1>1, <1>2, <1>3, <1>4, <1>5, <1>6, <1>7, <1>8, <1>9, PSleepInv, PTakeInv,
     ReturnInv, ReleaseInv, WaitInv, WaitAcquireInv DEF Next

LEMMA Invariance == Spec => []IInv
  BY InitInv, NextInv, PTL DEF Spec

-----------------------------------------------------------------------------
(* A lock has one owner at a time, its value says whether it has one, and  *)
(* lockHolder names the thread for which the ASSERTs of Release, Wait,     *)
(* Signal and Broadcast hold.                                              *)
THEOREM LocksExclude == Spec => []LockInv
<1>1. IInv => LockInv
  BY DEF IInv
<1> QED
  BY <1>1, Invariance, PTL

(* Semaphore::V loses no wake-up, although a woken thread has to test the  *)
(* value again and another may take it first.                              *)
THEOREM WakeupsAreKept == Spec => []NoLostWakeup
<1>1. IInv => NoLostWakeup
  BY DEF IInv
<1> QED
  BY <1>1, Invariance, PTL

(* A thread in Condition::Wait is in the queue of its condition or has its *)
(* one signal, and never both.                                             *)
THEOREM SignalsAreKept == Spec => []SignalKept
<1>1. IInv => SignalKept
  <2> SUFFICES ASSUME IInv, NEW t \in Thread
               PROVE  LET inQueue == {c \in Condition : IsInList(waitQueue[c], t)}
                      IN  /\ InWaiterP(t) <=> inQueue # {} \/ value[t] = 1
                          /\ inQueue # {} => value[t] = 0
                          /\ Cardinality(inQueue) <= 1
                          /\ value[t] <= 1
                          /\ \A c \in inQueue : wait[t] = LockOf[c]
    BY DEF SignalKept, InWaiterP
  <2> DEFINE inQueue == {c \in Condition : IsInList(waitQueue[c], t)}
  <2>1. /\ InWaiterP(t) <=> inQueue # {} \/ value[t] = 1
        /\ inQueue # {} => value[t] = 0
        /\ value[t] <= 1
        /\ \A c \in inQueue : wait[t] = LockOf[c]
    BY DEF IInv, Signals
  <2>2. Cardinality(inQueue) <= 1
    <3>1. CASE inQueue = {}
      BY <3>1, FS_EmptySet
    <3>2. CASE inQueue # {}
      <4>1. PICK c : c \in inQueue
        BY <3>2
      <4>2. inQueue = {c}
        BY <4>1 DEF IInv, Signals
      <4> HIDE DEF inQueue
      <4> QED
        BY <4>2, FS_Singleton
    <3> QED
      BY <3>1, <3>2
  <2> QED
    BY <2>1, <2>2
<1> QED
  BY <1>1, Invariance, PTL

-----------------------------------------------------------------------------
(* The refinement. *)

(* What holder makes of the owners of a lock. *)
LEMMA ChosenOwner ==
  ASSUME NEW S \in SUBSET Thread, \A t, u \in S : t = u, NEW h,
         h = IF \E t \in Thread : t \in S
             THEN CHOOSE t \in Thread : t \in S ELSE NULL
  PROVE  /\ h \in Thread \union {NULL}
         /\ \A t \in Thread : h = t <=> t \in S
         /\ h = NULL <=> S = {}
<1>1. CASE S = {}
  <2>1. h = NULL
    BY <1>1
  <2> QED
    BY <1>1, <2>1, SynchAssumption
<1>2. CASE S # {}
  <2>1. \E t \in Thread : t \in S
    BY <1>2
  <2>2. h = CHOOSE t \in Thread : t \in S
    BY <2>1
  <2>3. h \in S
    BY <2>1, <2>2
  <2> QED
    BY <1>2, <2>3, SynchAssumption
<1> QED
  BY <1>1, <1>2

HolderIsOwner ==
  /\ holder \in [Lock -> Thread \union {NULL}]
  /\ \A l \in Lock, t \in Thread : holder[l] = t <=> t \in Owners(l)
  /\ \A l \in Lock : holder[l] = NULL <=> Owners(l) = {}

(* holder names the one owner of a lock, before and after a step. *)
LEMMA HolderFacts == (LockInv => HolderIsOwner) /\ (LockInv' => HolderIsOwner')
<1>1. ASSUME LockInv PROVE HolderIsOwner
  <2> SUFFICES ASSUME NEW l \in Lock
               PROVE  /\ holder[l] \in Thread \union {NULL}
                      /\ \A t \in Thread : holder[l] = t <=> t \in Owners(l)
                      /\ holder[l] = NULL <=> Owners(l) = {}
    BY DEF holder, HolderIsOwner
  <2>1. Owners(l) \in SUBSET Thread /\ \A t, u \in Owners(l) : t = u
    BY <1>1 DEF LockInv, MutualExclusion, Owners
  <2>2. holder[l] = IF \E t \in Thread : t \in Owners(l)
                    THEN CHOOSE t \in Thread : t \in Owners(l) ELSE NULL
    BY DEF holder
  <2> QED
    BY <2>1, <2>2, ChosenOwner
<1>2. ASSUME LockInv' PROVE HolderIsOwner'
  <2> SUFFICES ASSUME NEW l \in Lock
               PROVE  /\ holder'[l] \in Thread \union {NULL}
                      /\ \A t \in Thread : holder'[l] = t <=> t \in Owners(l)'
                      /\ holder'[l] = NULL <=> Owners(l)' = {}
    BY DEF holder, HolderIsOwner
  <2>1. Owners(l)' \in SUBSET Thread /\ \A t, u \in Owners(l)' : t = u
    BY <1>2 DEF LockInv, MutualExclusion, Owners
  <2>2. holder'[l] = IF \E t \in Thread : t \in Owners(l)'
                     THEN CHOOSE t \in Thread : t \in Owners(l)' ELSE NULL
    BY DEF holder
  <2> QED
    BY <2>1, <2>2, ChosenOwner
<1> QED
  BY <1>1, <1>2

(* The same owners make the same holders. *)
LEMMA HolderKept ==
  ASSUME \A l \in Lock : Owners(l)' = Owners(l)
  PROVE  holder' = holder
  BY DEF holder

(* The Wait of t, if it is in one, has the lock again. *)
Settled(t) == wait[t] = NULL \/ (pc[t] = "got" /\ sem[t] \in Lock)

InQueue(t) == \E c \in Condition : IsInList(waitQueue[c], t)

(* A step that signals nobody and gives no waiter its lock. *)
LEMMA ResumingKept ==
  ASSUME \A t \in Thread : /\ Settled(t)' \/ InQueue(t)' <=>
                                Settled(t) \/ InQueue(t)
                           /\ wait'[t] = wait[t] \/ Settled(t)
  PROVE  resuming' = resuming
<1>1. resuming = [t \in Thread |->
                    IF Settled(t) \/ InQueue(t) THEN NULL ELSE wait[t]]
  BY DEF resuming, Settled, InQueue
<1>2. resuming' = [t \in Thread |->
                    IF Settled(t)' \/ InQueue(t)' THEN NULL ELSE wait'[t]]
  BY DEF resuming, Settled, InQueue
<1> HIDE DEF Settled, InQueue
<1> QED
  BY <1>1, <1>2

(* Taking a lock is Acquire of the monitor, or the end of a Wait; taking   *)
(* the value of another semaphore is not seen.                             *)
LEMMA PTakeRefines ==
  ASSUME IInv, IInv', NEW t \in Thread, PTake(t)
  PROVE  [M!Next]_(M!vars)
<1> USE SynchAssumption DEF IInv
<1> DEFINE l == sem[t]
<1>1. /\ pc[t] = "P" /\ l \in AllSemaphores /\ value[l] # 0
      /\ pc'[t] = "got" /\ \A u \in Thread : u # t => pc'[u] = pc[u]
      /\ UNCHANGED <<waitQueue, sem, wait, held>>
  BY DEF PTake, Where, TypeOK, AllSemaphores
<1>2. \A u \in Thread : InQueue(u)' <=> InQueue(u)
  BY <1>1 DEF InQueue
<1>3. CASE l \notin Lock
  <2>1. \A k \in Lock : Owners(k)' = Owners(k)
    BY <1>1, <1>3 DEF Owners
  <2>2. \A u \in Thread : (Settled(u)' <=> Settled(u)) /\ wait'[u] = wait[u]
    BY <1>1, <1>3 DEF Settled
  <2>3. holder' = holder /\ resuming' = resuming
    BY <1>2, <2>1, <2>2, HolderKept, ResumingKept
  <2> QED
    BY <1>1, <2>3 DEF M!vars
<1>4. CASE l \in Lock
  <2>1. Owners(l) = {} /\ holder[l] = NULL
    BY <1>1, <1>4, HolderFacts DEF LockInv, MutualExclusion, HolderIsOwner
  <2>2. \A k \in Lock : Owners(k)' = IF k = l THEN {t} ELSE Owners(k)
    <3> SUFFICES ASSUME NEW k \in Lock
                 PROVE  Owners(k)' = IF k = l THEN {t} ELSE Owners(k)
      OBVIOUS
    <3>1. CASE k = l
      <4>1. \A u \in Thread : k \notin held[u] /\ ~(pc[u] = "got" /\ sem[u] = k)
        BY <2>1, <3>1 DEF Owners
      <4> QED
        BY <1>1, <3>1, <4>1 DEF Owners
    <3>2. CASE k # l
      BY <1>1, <3>2 DEF Owners
    <3> QED
      BY <3>1, <3>2
  <2>3. holder' = [holder EXCEPT ![l] = t]
    <3>1. HolderIsOwner /\ HolderIsOwner'
      BY HolderFacts
    <3>2. holder \in [Lock -> Thread \union {NULL}]
          /\ holder' \in [Lock -> Thread \union {NULL}]
      BY <3>1 DEF HolderIsOwner
    <3>3. ASSUME NEW k \in Lock
          PROVE  holder'[k] = IF k = l THEN t ELSE holder[k]
      <4>1. CASE k = l
        BY <2>2, <3>1, <4>1 DEF HolderIsOwner
      <4>2. CASE k # l
        BY <2>2, <3>1, <3>2, <4>2 DEF HolderIsOwner
      <4> QED
        BY <4>1, <4>2
    <3> QED
      BY <3>2, <3>3
  <2>4. ~InQueue(t)
    BY <1>1, <1>4 DEF InQueue, Signals, InWaiterP
  <2>5. Settled(t)' /\ (Settled(t) <=> wait[t] = NULL)
    BY <1>1, <1>4 DEF Settled
  <2>6. \A u \in Thread : u # t => (Settled(u)' <=> Settled(u))
    BY <1>1 DEF Settled
  <2>7. CASE wait[t] = NULL
    <3>1. resuming' = resuming
      BY <1>1, <1>2, <2>5, <2>6, <2>7, ResumingKept
    <3>2. resuming[t] = NULL
      BY <2>7 DEF resuming
    <3>3. ~M!Asleep(t)
      BY <2>4 DEF M!Asleep, InQueue, IsInList, Contains, TypeOK
    <3>4. M!Acquire(t, l)
      BY <1>1, <2>1, <2>3, <3>1, <3>2, <3>3 DEF M!Acquire
    <3> QED
      BY <1>4, <3>4 DEF M!Next
  <2>8. CASE wait[t] # NULL
    <3>1. wait[t] = l
      BY <1>4, <2>8 DEF Where
    <3>2. /\ resuming = [u \in Thread |->
                    IF Settled(u) \/ InQueue(u) THEN NULL ELSE wait[u]]
          /\ resuming' = [u \in Thread |->
                    IF Settled(u)' \/ InQueue(u)' THEN NULL ELSE wait'[u]]
      BY DEF resuming, Settled, InQueue
    <3>3. resuming[t] = l
      BY <2>4, <2>5, <2>8, <3>1, <3>2
    <3>4. resuming' = [resuming EXCEPT ![t] = NULL]
      BY <1>1, <1>2, <2>5, <2>6, <3>2
    <3>5. M!Resume(t)
      <4>1. resuming[t] # NULL /\ holder[resuming[t]] = NULL
        BY <2>1, <2>8, <3>1, <3>3
      <4>2. holder' = [holder EXCEPT ![resuming[t]] = t]
        BY <2>3, <3>3
      <4> QED
        BY <1>1, <3>4, <4>1, <4>2 DEF M!Resume
    <3> QED
      BY <3>5 DEF M!Next
  <2> QED
    BY <2>7, <2>8
<1> QED
  BY <1>3, <1>4

(* A lock that Release or Wait has freed has no holder. *)
LEMMA HolderFreed ==
  ASSUME IInv, IInv', NEW t \in Thread, NEW l \in Lock, Idle(t), l \in held[t],
         held' = [held EXCEPT ![t] = @ \ {l}],
         \A u \in Thread :
           u # t => (pc'[u] = "got" <=> pc[u] = "got") /\ sem'[u] = sem[u],
         pc'[t] # "got"
  PROVE  holder[l] = t /\ holder' = [holder EXCEPT ![l] = NULL]
<1> USE SynchAssumption DEF IInv
<1>1. HolderIsOwner /\ HolderIsOwner'
  BY HolderFacts
<1>2. /\ holder \in [Lock -> Thread \union {NULL}]
      /\ holder' \in [Lock -> Thread \union {NULL}]
  BY <1>1 DEF HolderIsOwner
<1>3. /\ held'[t] = held[t] \ {l} /\ pc[t] = "out"
      /\ \A u \in Thread : u # t => held'[u] = held[u]
  BY DEF TypeOK, Idle
<1>4. t \in Owners(l) /\ \A u \in Owners(l) : u = t
  BY DEF LockInv, MutualExclusion, Owners
<1>5. ASSUME NEW k \in Lock
      PROVE  holder'[k] = IF k = l THEN NULL ELSE holder[k]
  <2>1. CASE k = l
    <3>1. Owners(k)' = {}
      BY <1>3, <1>4, <2>1 DEF Owners
    <3> QED
      BY <1>1, <2>1, <3>1 DEF HolderIsOwner
  <2>2. CASE k # l
    <3>1. Owners(k)' = Owners(k)
      BY <1>3, <2>2 DEF Owners
    <3> QED
      BY <1>1, <1>2, <2>2, <3>1 DEF HolderIsOwner
  <2> QED
    BY <2>1, <2>2
<1>6. holder[l] = t
  BY <1>1, <1>4 DEF HolderIsOwner
<1> QED
  BY <1>2, <1>5, <1>6

(* What V does to the places of the threads. *)
LEMMA VPlaces ==
  ASSUME IInv, NEW s \in AllSemaphores, V(s, pc), sem' = sem
  PROVE  \A u \in Thread : pc'[u] = pc[u] \/ (pc[u] = "asleep" /\ pc'[u] = "P")
<1>1. Wakeups(value, queue, pc, sem)
  BY WakeupsNow DEF IInv
<1> QED
  BY <1>1, WakeupsV DEF IInv, TypeOK

(* Release is Release of the monitor. *)
LEMMA ReleaseRefines ==
  ASSUME IInv, IInv', NEW t \in Thread, NEW l \in Lock, Release(t, l)
  PROVE  M!Release(t, l)
<1>1. /\ Idle(t) /\ l \in held[t] /\ held' = [held EXCEPT ![t] = @ \ {l}]
      /\ V(l, pc) /\ UNCHANGED <<waitQueue, sem, wait>>
  BY DEF Release
<1>2. \A u \in Thread : pc'[u] = pc[u] \/ (pc[u] = "asleep" /\ pc'[u] = "P")
  BY <1>1, VPlaces DEF AllSemaphores
<1>3. holder[l] = t /\ holder' = [holder EXCEPT ![l] = NULL]
  <2>1. pc'[t] # "got" /\ \A u \in Thread :
          u # t => (pc'[u] = "got" <=> pc[u] = "got") /\ sem'[u] = sem[u]
    BY <1>1, <1>2 DEF Idle
  <2> QED
    BY <1>1, <2>1, HolderFreed
<1>4. resuming' = resuming
  <2>1. \A u \in Thread : /\ Settled(u)' <=> Settled(u)
                          /\ InQueue(u)' <=> InQueue(u)
                          /\ wait'[u] = wait[u]
    BY <1>1, <1>2 DEF Settled, InQueue
  <2> QED
    BY <2>1, ResumingKept
<1> QED
  BY <1>1, <1>3, <1>4 DEF M!Release

(* Condition::Wait up to P is Wait of the monitor: to release the lock and *)
(* to go to sleep is one step.                                             *)
LEMMA WaitRefines ==
  ASSUME IInv, IInv', NEW t \in Thread, NEW c \in Condition, Wait(t, c)
  PROVE  M!Wait(t, c)
<1> USE SynchAssumption DEF IInv
<1> DEFINE l == LockOf[c]
           at == [pc EXCEPT ![t] = "P"]
           on == [sem EXCEPT ![t] = t]
<1>1. /\ Idle(t) /\ l \in held[t] /\ l \in Lock
      /\ held' = [held EXCEPT ![t] = @ \ {l}]
      /\ waitQueue' = [waitQueue EXCEPT ![c] = Append(@, t)]
      /\ V(l, at) /\ sem' = on
      /\ wait' = [wait EXCEPT ![t] = l]
  BY DEF Wait
<1>2. pc[t] = "out" /\ sem[t] = NULL /\ wait[t] = NULL
  BY <1>1 DEF Idle, Where, TypeOK
<1>3. /\ at \in [Thread -> PC] /\ at[t] = "P"
      /\ \A u \in Thread : u # t => at[u] = pc[u]
  BY DEF TypeOK, PC
<1>4. /\ on[t] = t /\ \A u \in Thread : u # t => on[u] = sem[u]
  BY DEF TypeOK
<1>5. Wakeups(value, queue, at, on)
  BY <1>2, WakeupsCall DEF AllSemaphores
<1> HIDE DEF at, on, l
<1>6. \A u \in Thread : pc'[u] = at[u] \/ (at[u] = "asleep" /\ pc'[u] = "P")
  BY <1>1, <1>3, <1>5, WakeupsV DEF TypeOK, AllSemaphores
<1>7. holder[l] = t /\ holder' = [holder EXCEPT ![l] = NULL]
  <2>1. pc'[t] # "got" /\ \A u \in Thread :
          u # t => (pc'[u] = "got" <=> pc[u] = "got") /\ sem'[u] = sem[u]
    BY <1>1, <1>3, <1>4, <1>6
  <2> QED
    BY <1>1, <2>1, HolderFreed
<1>8. resuming' = resuming
  <2>1. /\ waitQueue'[c] = Append(waitQueue[c], t)
        /\ \A d \in Condition : d # c => waitQueue'[d] = waitQueue[d]
        /\ waitQueue[c] \in Seq(Thread)
        /\ \A u \in Thread : u # t => wait'[u] = wait[u]
    BY <1>1 DEF TypeOK
  <2>2. \A y : IsInList(waitQueue'[c], y) <=> IsInList(waitQueue[c], y) \/ y = t
    BY <2>1, AppendFacts
  <2>3. Settled(t) /\ InQueue(t)'
    BY <1>2, <2>2 DEF Settled, InQueue
  <2>4. ASSUME NEW u \in Thread, u # t
        PROVE  /\ Settled(u)' <=> Settled(u)
               /\ InQueue(u)' <=> InQueue(u)
    <3>1. sem'[u] = sem[u] /\ wait'[u] = wait[u]
      BY <1>1, <1>4, <2>1, <2>4
    <3>2. pc'[u] = "got" <=> pc[u] = "got"
      BY <1>3, <1>6, <2>4
    <3>3. \A d \in Condition : IsInList(waitQueue'[d], u) <=>
                                IsInList(waitQueue[d], u)
      BY <2>1, <2>2, <2>4
    <3> QED
      BY <3>1, <3>2, <3>3 DEF Settled, InQueue
  <2> QED
    BY <2>1, <2>3, <2>4, ResumingKept
<1> QED
  BY <1>1, <1>7, <1>8 DEF M!Wait, l

(* Signal, and a turn of Broadcast, are Signal of the monitor. *)
LEMMA SignalRefines ==
  ASSUME IInv, IInv', NEW t \in Thread, NEW c \in Condition,
         LockOf[c] \in held[t], SignalFirst(c)
  PROVE  M!Signal(t, c)
<1> USE SynchAssumption DEF IInv
<1>1. PICK h \in Thread :
        /\ h = Head(waitQueue[c])
        /\ \A y : IsInList(waitQueue[c], y) <=>
                  IsInList(Tail(waitQueue[c]), y) \/ y = h
        /\ ~IsInList(Tail(waitQueue[c]), h)
  BY TailFacts DEF SignalFirst, Signals, TypeOK
<1>2. /\ waitQueue[c] # << >>
      /\ waitQueue' = [waitQueue EXCEPT ![c] = Tail(@)]
      /\ V(h, pc) /\ UNCHANGED <<sem, wait, held>>
  BY <1>1 DEF SignalFirst
<1>3. \A u \in Thread : pc'[u] = pc[u] \/ (pc[u] = "asleep" /\ pc'[u] = "P")
  BY <1>1, <1>2, VPlaces DEF AllSemaphores
<1>4. /\ waitQueue'[c] = Tail(waitQueue[c])
      /\ \A d \in Condition : d # c => waitQueue'[d] = waitQueue[d]
  BY <1>2 DEF TypeOK
<1>5. /\ sem[h] = h /\ wait[h] = LockOf[c] /\ InQueue(h)
      /\ \A d \in Condition : IsInList(waitQueue[d], h) => d = c
  BY <1>1 DEF Signals, InWaiterP, InQueue
<1>6. \A u \in Thread : Settled(u)' <=> Settled(u)
  BY <1>2, <1>3 DEF Settled
<1>7. ~Settled(h) /\ ~InQueue(h)'
  BY <1>1, <1>4, <1>5 DEF Settled, InQueue
<1>8. \A u \in Thread : u # h => (InQueue(u)' <=> InQueue(u))
  <2>1. \A d \in Condition, u \in Thread :
          u # h => (IsInList(waitQueue'[d], u) <=> IsInList(waitQueue[d], u))
    BY <1>1, <1>4
  <2> QED
    BY <2>1 DEF InQueue
<1>9. /\ resuming = [u \in Thread |->
                IF Settled(u) \/ InQueue(u) THEN NULL ELSE wait[u]]
      /\ resuming' = [u \in Thread |->
                IF Settled(u)' \/ InQueue(u)' THEN NULL ELSE wait'[u]]
  BY DEF resuming, Settled, InQueue
<1>10. resuming' = [resuming EXCEPT ![h] = LockOf[c]]
  BY <1>1, <1>2, <1>5, <1>6, <1>7, <1>8, <1>9
<1>11. holder' = holder
  <2>1. \A l \in Lock : Owners(l)' = Owners(l)
    BY <1>2, <1>3 DEF Owners
  <2> QED
    BY <2>1, HolderKept
<1>12. holder[LockOf[c]] = t
  <2>1. LockOf[c] \in Lock /\ t \in Owners(LockOf[c])
    BY DEF Owners
  <2> QED
    BY <2>1, HolderFacts DEF HolderIsOwner
<1> QED
  BY <1>1, <1>2, <1>10, <1>11, <1>12 DEF M!Signal

(* The other steps are not seen. *)
LEMMA OthersStutter ==
  ASSUME IInv, NEW t \in Thread,
         \/ \E s \in Semaphore : CallP(t, s) \/ CallV(t, s)
         \/ \E s \in Device : HandlerV(s)
         \/ \E l \in Lock : Acquire(t, l)
         \/ \E c \in Condition : Broadcast(t, c)
         \/ PSleep(t) \/ PReturn(t) \/ AcquireReturn(t)
         \/ WaitAcquire(t) \/ BroadcastReturn(t)
  PROVE  UNCHANGED M!vars
<1> USE SynchAssumption DEF IInv
<1> SUFFICES /\ waitQueue' = waitQueue
             /\ \A l \in Lock : Owners(l)' = Owners(l)
             /\ \A u \in Thread : /\ Settled(u)' <=> Settled(u)
                                  /\ wait'[u] = wait[u] \/ Settled(u)
  <2>1. \A u \in Thread : /\ Settled(u)' <=> Settled(u)
                          /\ InQueue(u)' <=> InQueue(u)
                          /\ wait'[u] = wait[u] \/ Settled(u)
    BY DEF InQueue
  <2>2. holder' = holder
    BY HolderKept
  <2>3. resuming' = resuming
    BY <2>1, ResumingKept
  <2> QED
    BY <2>2, <2>3 DEF M!vars
<1>1. ASSUME NEW s, \/ CallP(t, s)
                    \/ s \in Lock /\ Acquire(t, s)
                    \/ WaitAcquire(t)
                    \/ PSleep(t)
      PROVE  /\ waitQueue' = waitQueue /\ held' = held /\ wait' = wait
             /\ pc[t] # "got" \/ sem[t] \notin Lock
             /\ pc'[t] # "got"
             /\ \A u \in Thread : u # t => pc'[u] = pc[u] /\ sem'[u] = sem[u]
  BY <1>1 DEF CallP, Acquire, WaitAcquire, PSleep, Idle, TypeOK
<1>2. CASE \/ \E s \in Semaphore : CallP(t, s)
           \/ \E l \in Lock : Acquire(t, l)
           \/ PSleep(t) \/ WaitAcquire(t)
  <2>1. /\ waitQueue' = waitQueue /\ held' = held /\ wait' = wait
        /\ pc[t] # "got" \/ sem[t] \notin Lock
        /\ pc'[t] # "got"
        /\ \A u \in Thread : u # t => pc'[u] = pc[u] /\ sem'[u] = sem[u]
    BY <1>1, <1>2
  <2> QED
    BY <2>1 DEF Owners, Settled
<1>3. ASSUME NEW s \in Semaphore, CallV(t, s) \/ HandlerV(s)
      PROVE  /\ waitQueue' = waitQueue
             /\ \A l \in Lock : Owners(l)' = Owners(l)
             /\ \A u \in Thread : /\ Settled(u)' <=> Settled(u)
                                  /\ wait'[u] = wait[u] \/ Settled(u)
  <2>1. /\ V(s, pc) /\ s \in AllSemaphores
        /\ UNCHANGED <<waitQueue, sem, wait, held>>
    BY <1>3 DEF CallV, HandlerV, AllSemaphores
  <2>2. \A u \in Thread : pc'[u] = pc[u] \/ (pc[u] = "asleep" /\ pc'[u] = "P")
    BY <2>1, VPlaces
  <2> QED
    BY <2>1, <2>2 DEF Owners, Settled
<1>4. CASE PReturn(t)
  <2>1. /\ pc[t] = "got" /\ sem[t] \in Semaphore
        /\ pc'[t] = "out"
        /\ UNCHANGED <<waitQueue, wait, held>>
        /\ \A u \in Thread : u # t => pc'[u] = pc[u] /\ sem'[u] = sem[u]
    BY <1>4 DEF PReturn, TypeOK
  <2> QED
    BY <2>1 DEF Owners, Settled
<1>5. CASE AcquireReturn(t)
  <2>1. /\ pc[t] = "got" /\ sem[t] \in Lock /\ waitQueue' = waitQueue
        /\ held'[t] = held[t] \union {sem[t]} /\ pc'[t] = "out"
        /\ wait'[t] = NULL
        /\ \A u \in Thread : u # t => /\ pc'[u] = pc[u] /\ sem'[u] = sem[u]
                                      /\ wait'[u] = wait[u] /\ held'[u] = held[u]
    BY <1>5 DEF AcquireReturn, TypeOK
  <2> QED
    BY <2>1 DEF Owners, Settled
<1>6. CASE (\E c \in Condition : Broadcast(t, c)) \/ BroadcastReturn(t)
  BY <1>6 DEF Broadcast, BroadcastReturn, Owners, Settled
<1> QED
  BY <1>2, <1>3, <1>4, <1>5, <1>6

(* Locks and condition variables made of semaphores are a Mesa monitor. *)
THEOREM SynchIsMonitor == Spec => ImplementsMonitor
<1>1. Init => M!Init
  <2> SUFFICES ASSUME Init PROVE M!Init
    OBVIOUS
  <2>1. \A l \in Lock : Owners(l) = {}
    BY SynchAssumption DEF Init, Owners
  <2>2. holder = [l \in Lock |-> NULL]
    BY <2>1 DEF holder
  <2>3. resuming = [t \in Thread |-> NULL]
    BY DEF Init, resuming
  <2> QED
    BY <2>2, <2>3 DEF Init, M!Init
<1>2. IInv /\ IInv' /\ [Next]_vars => [M!Next]_(M!vars)
  <2> SUFFICES ASSUME IInv, IInv', [Next]_vars PROVE [M!Next]_(M!vars)
    OBVIOUS
  <2> USE SynchAssumption
  <2>1. CASE UNCHANGED vars
    <3>1. /\ \A l \in Lock : Owners(l)' = Owners(l)
          /\ \A u \in Thread : /\ Settled(u)' <=> Settled(u)
                               /\ InQueue(u)' <=> InQueue(u)
                               /\ wait'[u] = wait[u]
      BY <2>1 DEF vars, Owners, Settled, InQueue
    <3> QED
      BY <2>1, <3>1, HolderKept, ResumingKept DEF vars, M!vars
  <2>2. ASSUME NEW t \in Thread, NEW l \in Lock, Release(t, l)
        PROVE  M!Next
    BY <2>2, ReleaseRefines DEF M!Next
  <2>3. ASSUME NEW t \in Thread, NEW c \in Condition, Wait(t, c)
        PROVE  M!Next
    BY <2>3, WaitRefines DEF M!Next
  <2>4. ASSUME NEW t \in Thread, NEW c \in Condition, Signal(t, c)
        PROVE  M!Next
    BY <2>4, SignalRefines DEF Signal, M!Next
  <2>5. ASSUME NEW t \in Thread, BroadcastSignal(t)
        PROVE  M!Next
    <3>1. bcast[t] \in Condition /\ LockOf[bcast[t]] \in held[t]
      BY <2>5 DEF BroadcastSignal, IInv, TypeOK, LockInv, HolderKnown
    <3>2. M!Signal(t, bcast[t])
      BY <2>5, <3>1, SignalRefines DEF BroadcastSignal
    <3> QED
      BY <3>1, <3>2 DEF M!Next
  <2>6. ASSUME NEW s \in Device, HandlerV(s)
        PROVE  UNCHANGED M!vars
    <3>1. CASE Thread = {}
      BY <2>6, <3>1 DEF HandlerV, holder, resuming, M!vars
    <3>2. CASE Thread # {}
      BY <2>6, <3>2, OthersStutter
    <3> QED
      BY <3>1, <3>2
  <2> QED
    BY <2>1, <2>2, <2>3, <2>4, <2>5, <2>6, PTakeRefines, OthersStutter DEF Next
<1> QED
  BY <1>1, <1>2, Invariance, PTL DEF Spec, ImplementsMonitor, M!Spec
=============================================================================
