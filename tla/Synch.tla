------------------------------- MODULE Synch -------------------------------
(***************************************************************************)
(* Semaphores, locks and condition variables (threads/synch.cc).           *)
(*                                                                         *)
(* One step of a thread is the code it runs between two places where       *)
(* interrupts are enabled (Interrupt::OneTick at the end of P and of V):   *)
(* there a device handler can run, and the interrupted thread can be made  *)
(* to yield.  At this commit Alarm::CallBack never asks for that, so that  *)
(* threads are switched only where they call Yield or Sleep; the model     *)
(* lets any thread that is not asleep take the next step, which contains   *)
(* both kinds of scheduling.  Which thread the scheduler picks is the      *)
(* subject of module Threads.                                              *)
(*                                                                         *)
(* Every semaphore is named by what it belongs to: a lock l has semaphore  *)
(* l, and the semaphore a thread t allocates in Condition::Wait is t.      *)
(***************************************************************************)
EXTENDS Integers, Sequences, FiniteSets, Lists

CONSTANTS Thread,
          Lock,
          Condition,
          Semaphore,    \* semaphores that threads and drivers use directly
          Device,       \* the semaphores among them that a handler V()s
          NULL,
          LockOf,       \* the lock that protects each condition variable
          InitialValue, \* initial value of each semaphore in Semaphore
          ValueBound    \* bound of the model: V is not called above it

ASSUME SynchAssumption ==
  /\ Thread \intersect Lock = {}
  /\ Thread \intersect Semaphore = {}
  /\ Lock \intersect Semaphore = {}
  /\ Device \subseteq Semaphore
  /\ NULL \notin Thread \union Lock \union Semaphore
  /\ LockOf \in [Condition -> Lock]
  /\ InitialValue \in [Semaphore -> Nat]
  /\ ValueBound \in Nat
  /\ IsFiniteSet(Thread)

VARIABLES value,      \* Semaphore::value
          queue,      \* Semaphore::queue
          lockHolder, \* Lock::lockHolder
          waitQueue,  \* Condition::waitQueue, by the waiters' threads
          pc,         \* where each thread is, see below
          sem,        \* the semaphore whose P a thread is in
          wait,       \* the lock of the Wait a thread is in, or NULL
          bcast,      \* the condition a thread is broadcasting to, or NULL
          held        \* locks a thread has acquired and not yet released

vars == <<value, queue, lockHolder, waitQueue, pc, sem, wait, bcast, held>>

(* "out"     in its own code, or in the loop of Broadcast                  *)
(* "P"       in P of sem[t], at the test of the while loop                 *)
(* "asleep"  in P of sem[t], in Sleep                                      *)
(* "got"     P has decremented the value and enabled interrupts again      *)
PC == {"out", "P", "asleep", "got"}
AllSemaphores == Thread \union Lock \union Semaphore

Init ==
  /\ value = [s \in AllSemaphores |->
                IF s \in Lock THEN 1
                ELSE IF s \in Semaphore THEN InitialValue[s] ELSE 0]
  /\ queue = [s \in AllSemaphores |-> << >>]
  /\ lockHolder = [l \in Lock |-> NULL]
  /\ waitQueue = [c \in Condition |-> << >>]
  /\ pc = [t \in Thread |-> "out"]
  /\ sem = [t \in Thread |-> NULL]
  /\ wait = [t \in Thread |-> NULL]
  /\ bcast = [t \in Thread |-> NULL]
  /\ held = [t \in Thread |-> {}]

(* t is in its own code and can call an operation. *)
Idle(t) == pc[t] = "out" /\ bcast[t] = NULL

-----------------------------------------------------------------------------
(* Mistake: V wakes nobody. *)
VWakesNobody(s, where) ==
  /\ value' = [value EXCEPT ![s] = @ + 1]
  /\ pc' = where
  /\ UNCHANGED queue

(* Semaphore::V: the oldest sleeper becomes ready and tests the value      *)
(* again when it runs.  "where" are the program counters of the threads    *)
(* the caller leaves behind.                                               *)
V(s, where) ==
  /\ value' = [value EXCEPT ![s] = @ + 1]
  /\ IF queue[s] = << >>
     THEN pc' = where /\ UNCHANGED queue
     ELSE /\ pc' = [where EXCEPT ![Head(queue[s])] = "P"]
          /\ queue' = [queue EXCEPT ![s] = Tail(@)]

(* A thread calls P or V of a semaphore it uses directly. *)
CallP(t, s) ==
  /\ Idle(t)
  /\ pc' = [pc EXCEPT ![t] = "P"]
  /\ sem' = [sem EXCEPT ![t] = s]
  /\ UNCHANGED <<value, queue, lockHolder, waitQueue, wait, bcast, held>>

CallV(t, s) ==
  /\ Idle(t)
  /\ value[s] < ValueBound
  /\ V(s, pc)
  /\ UNCHANGED <<lockHolder, waitQueue, sem, wait, bcast, held>>

(* A device interrupt handler calls V. *)
HandlerV(s) ==
  /\ value[s] < ValueBound
  /\ V(s, pc)
  /\ UNCHANGED <<lockHolder, waitQueue, sem, wait, bcast, held>>

(* The loop of Semaphore::P: with value 0 the thread queues up and sleeps, *)
PSleep(t) ==
  /\ pc[t] = "P"
  /\ value[sem[t]] = 0
  /\ queue' = [queue EXCEPT ![sem[t]] = Append(@, t)]
  /\ pc' = [pc EXCEPT ![t] = "asleep"]
  /\ UNCHANGED <<value, lockHolder, waitQueue, sem, wait, bcast, held>>

(* Mistakes: a woken thread does not test the value again, ... *)
PTakeUntested(t) ==
  /\ pc[t] = "P"
  /\ value' = [value EXCEPT ![sem[t]] = @ - 1]
  /\ pc' = [pc EXCEPT ![t] = "got"]
  /\ UNCHANGED <<queue, lockHolder, waitQueue, sem, wait, bcast, held>>

(* ... or a busy lock is taken all the same. *)
PTakeBusyLock(t) ==
  /\ pc[t] = "P"
  /\ value[sem[t]] # 0 \/ sem[t] \in Lock
  /\ value' = [value EXCEPT ![sem[t]] = IF @ = 0 THEN 0 ELSE @ - 1]
  /\ pc' = [pc EXCEPT ![t] = "got"]
  /\ UNCHANGED <<queue, lockHolder, waitQueue, sem, wait, bcast, held>>

(* Mistake: nobody takes the value while others sleep. *)
PTakeIfNoneQueued(t) ==
  /\ pc[t] = "P"
  /\ value[sem[t]] # 0
  /\ queue[sem[t]] = << >>
  /\ value' = [value EXCEPT ![sem[t]] = @ - 1]
  /\ pc' = [pc EXCEPT ![t] = "got"]
  /\ UNCHANGED <<queue, lockHolder, waitQueue, sem, wait, bcast, held>>

(* otherwise it takes the value, whoever it was meant for. *)
PTake(t) ==
  /\ pc[t] = "P"
  /\ value[sem[t]] # 0
  /\ value' = [value EXCEPT ![sem[t]] = @ - 1]
  /\ pc' = [pc EXCEPT ![t] = "got"]
  /\ UNCHANGED <<queue, lockHolder, waitQueue, sem, wait, bcast, held>>

(* P returns to a thread that uses the semaphore directly. *)
PReturn(t) ==
  /\ pc[t] = "got"
  /\ sem[t] \in Semaphore
  /\ pc' = [pc EXCEPT ![t] = "out"]
  /\ sem' = [sem EXCEPT ![t] = NULL]
  /\ UNCHANGED <<value, queue, lockHolder, waitQueue, wait, bcast, held>>

-----------------------------------------------------------------------------
(* Lock::Acquire calls P of the lock's semaphore.  A thread does not       *)
(* acquire a lock it has.                                                  *)
Acquire(t, l) ==
  /\ Idle(t)
  /\ l \notin held[t]
  /\ pc' = [pc EXCEPT ![t] = "P"]
  /\ sem' = [sem EXCEPT ![t] = l]
  /\ UNCHANGED <<value, queue, lockHolder, waitQueue, wait, bcast, held>>

(* ... and sets lockHolder when P has returned.  If Acquire was called     *)
(* from Condition::Wait, Wait deletes its semaphore and returns.           *)
AcquireReturn(t) ==
  /\ pc[t] = "got"
  /\ sem[t] \in Lock
  /\ lockHolder' = [lockHolder EXCEPT ![sem[t]] = t]
  /\ held' = [held EXCEPT ![t] = @ \union {sem[t]}]
  /\ pc' = [pc EXCEPT ![t] = "out"]
  /\ sem' = [sem EXCEPT ![t] = NULL]
  /\ wait' = [wait EXCEPT ![t] = NULL]
  /\ UNCHANGED <<value, queue, waitQueue, bcast>>

(* Mistake: Release does not clear lockHolder. *)
ReleaseKeepsHolder(t, l) ==
  /\ Idle(t)
  /\ l \in held[t]
  /\ held' = [held EXCEPT ![t] = @ \ {l}]
  /\ V(l, pc)
  /\ UNCHANGED <<lockHolder, waitQueue, sem, wait, bcast>>

(* Lock::Release by a thread that has the lock. *)
Release(t, l) ==
  /\ Idle(t)
  /\ l \in held[t]
  /\ held' = [held EXCEPT ![t] = @ \ {l}]
  /\ lockHolder' = [lockHolder EXCEPT ![l] = NULL]
  /\ V(l, pc)
  /\ UNCHANGED <<waitQueue, sem, wait, bcast>>

-----------------------------------------------------------------------------
(* Mistake: the latest waiter goes to the front of the queue. *)
WaitPrepends(t, c) ==
  LET l == LockOf[c] IN
  /\ Idle(t)
  /\ l \in held[t]
  /\ waitQueue' = [waitQueue EXCEPT ![c] = <<t>> \o @]
  /\ held' = [held EXCEPT ![t] = @ \ {l}]
  /\ lockHolder' = [lockHolder EXCEPT ![l] = NULL]
  /\ V(l, [pc EXCEPT ![t] = "P"])
  /\ sem' = [sem EXCEPT ![t] = t]
  /\ wait' = [wait EXCEPT ![t] = l]
  /\ UNCHANGED bcast

(* Condition::Wait up to the call of waiter->P(): a new semaphore with     *)
(* value 0 joins the queue and the lock is released.                       *)
Wait(t, c) ==
  LET l == LockOf[c] IN
  /\ Idle(t)
  /\ l \in held[t]
  /\ waitQueue' = [waitQueue EXCEPT ![c] = Append(@, t)]
  /\ held' = [held EXCEPT ![t] = @ \ {l}]
  /\ lockHolder' = [lockHolder EXCEPT ![l] = NULL]
  /\ V(l, [pc EXCEPT ![t] = "P"])
  /\ sem' = [sem EXCEPT ![t] = t]
  /\ wait' = [wait EXCEPT ![t] = l]
  /\ UNCHANGED bcast

(* waiter->P() returns and Wait calls conditionLock->Acquire(). *)
WaitAcquire(t) ==
  /\ pc[t] = "got"
  /\ sem[t] \in Thread
  /\ pc' = [pc EXCEPT ![t] = "P"]
  /\ sem' = [sem EXCEPT ![t] = wait[t]]
  /\ UNCHANGED <<value, queue, lockHolder, waitQueue, wait, bcast, held>>

(* Mistake: the semaphore that is V()ed stays in the queue. *)
SignalFirstKeeps(c) ==
  /\ waitQueue[c] # << >>
  /\ V(Head(waitQueue[c]), pc)
  /\ UNCHANGED <<waitQueue, lockHolder, sem, wait, held>>

(* The body of Condition::Signal when a thread is waiting. *)
SignalFirst(c) ==
  /\ waitQueue[c] # << >>
  /\ waitQueue' = [waitQueue EXCEPT ![c] = Tail(@)]
  /\ V(Head(waitQueue[c]), pc)
  /\ UNCHANGED <<lockHolder, sem, wait, held>>

(* Condition::Signal; with nobody waiting it changes nothing. *)
Signal(t, c) ==
  /\ Idle(t)
  /\ LockOf[c] \in held[t]
  /\ SignalFirst(c)
  /\ UNCHANGED bcast

(* Condition::Broadcast is called, *)
Broadcast(t, c) ==
  /\ Idle(t)
  /\ LockOf[c] \in held[t]
  /\ bcast' = [bcast EXCEPT ![t] = c]
  /\ UNCHANGED <<value, queue, lockHolder, waitQueue, pc, sem, wait, held>>

(* signals while there is someone waiting (interrupts are on in between),  *)
BroadcastSignal(t) ==
  /\ bcast[t] # NULL
  /\ SignalFirst(bcast[t])
  /\ UNCHANGED bcast

(* and returns when there is nobody left. *)
BroadcastReturn(t) ==
  /\ bcast[t] # NULL
  /\ waitQueue[bcast[t]] = << >>
  /\ bcast' = [bcast EXCEPT ![t] = NULL]
  /\ UNCHANGED <<value, queue, lockHolder, waitQueue, pc, sem, wait, held>>

-----------------------------------------------------------------------------
(* The steps a thread takes by itself once it has called an operation. *)
Continue(t) ==
  \/ PSleep(t) \/ PTake(t) \/ PReturn(t) \/ AcquireReturn(t)
  \/ WaitAcquire(t) \/ BroadcastSignal(t) \/ BroadcastReturn(t)

Next ==
  \/ \E t \in Thread, s \in Semaphore : CallP(t, s)
  \/ \E t \in Thread, s \in Semaphore : CallV(t, s)
  \/ \E s \in Device : HandlerV(s)
  \/ \E t \in Thread : PSleep(t)
  \/ \E t \in Thread : PTake(t)
  \/ \E t \in Thread : PReturn(t)
  \/ \E t \in Thread, l \in Lock : Acquire(t, l)
  \/ \E t \in Thread : AcquireReturn(t)
  \/ \E t \in Thread, l \in Lock : Release(t, l)
  \/ \E t \in Thread, c \in Condition : Wait(t, c)
  \/ \E t \in Thread : WaitAcquire(t)
  \/ \E t \in Thread, c \in Condition : Signal(t, c)
  \/ \E t \in Thread, c \in Condition : Broadcast(t, c)
  \/ \E t \in Thread : BroadcastSignal(t)
  \/ \E t \in Thread : BroadcastReturn(t)

Spec == Init /\ [][Next]_vars

(* A thread that has called an operation and is not asleep goes on with it *)
(* when the scheduler gets to it.                                          *)
FairSpec == Spec /\ \A t \in Thread : WF_vars(Continue(t))

-----------------------------------------------------------------------------
(* Type invariant. *)
TypeOK ==
  /\ value \in [AllSemaphores -> Nat]
  /\ queue \in [AllSemaphores -> Seq(Thread)]
  /\ lockHolder \in [Lock -> Thread \union {NULL}]
  /\ waitQueue \in [Condition -> Seq(Thread)]
  /\ pc \in [Thread -> PC]
  /\ sem \in [Thread -> AllSemaphores \union {NULL}]
  /\ wait \in [Thread -> Lock \union {NULL}]
  /\ bcast \in [Thread -> Condition \union {NULL}]
  /\ held \in [Thread -> SUBSET Lock]

(* The threads that have lock l, or are between the P and the assignment   *)
(* of its Acquire.                                                         *)
Owners(l) == {t \in Thread : l \in held[t] \/ (pc[t] = "got" /\ sem[t] = l)}

(* Two threads never have the same lock, although P gives the semaphore to *)
(* whoever tests it first and not to the thread V has woken, and the lock  *)
(* is free exactly when no thread has it.                                  *)
MutualExclusion ==
  \A l \in Lock :
    /\ \A t, u \in Owners(l) : t = u
    /\ value[l] = IF Owners(l) = {} THEN 1 ELSE 0

(* The ASSERTs of Release, Wait and Signal hold for every thread that      *)
(* follows the rules: lockHolder names it from the return of its Acquire   *)
(* until its own Release or Wait, in Broadcast too.                        *)
HolderKnown ==
  /\ \A t \in Thread, l \in Lock : l \in held[t] <=> lockHolder[l] = t
  /\ \A t \in Thread : bcast[t] # NULL => LockOf[bcast[t]] \in held[t]

(* A lock has one owner, and lockHolder names it. *)
LockInv == MutualExclusion /\ HolderKnown

(* Threads that have been woken, or have just called P, and will test the  *)
(* value of s when they run.                                               *)
Awake(s) == {t \in Thread : pc[t] = "P" /\ sem[t] = s}

(* No wake-up is lost: a thread is asleep in P exactly when it is in the   *)
(* queue of that semaphore, once, and as long as there is one there are at *)
(* least as many threads about to take the value as the value allows, also *)
(* when a newcomer takes the value a sleeper was woken for.                *)
NoLostWakeup ==
  \A s \in AllSemaphores :
    /\ IsInjective(queue[s])
    /\ \A t \in Thread :
         IsInList(queue[s], t) <=> pc[t] = "asleep" /\ sem[t] = s
    /\ queue[s] # << >> => Cardinality(Awake(s)) >= value[s]

(* A thread in Wait cannot miss its signal: until it has taken it, either  *)
(* its semaphore is still in the queue of the condition, or its semaphore  *)
(* has been V()ed, exactly once.  No semaphore is in a queue after Wait    *)
(* has deleted it.                                                         *)
SignalKept ==
  \A t \in Thread :
    LET inQueue == {c \in Condition : IsInList(waitQueue[c], t)}
        inWaiterP == sem[t] = t /\ pc[t] \in {"P", "asleep"}
    IN  /\ inWaiterP <=> inQueue # {} \/ value[t] = 1
        /\ inQueue # {} => value[t] = 0
        /\ Cardinality(inQueue) <= 1
        /\ value[t] <= 1
        /\ \A c \in inQueue : wait[t] = LockOf[c]

(* Lock::Release and Semaphore::V leave nobody behind: when a lock is free *)
(* and a thread wants it, some thread gets it.                             *)
LockProgress ==
  \A l \in Lock :
    value[l] = 1 /\ (\E t \in Thread : sem[t] = l /\ pc[t] # "got")
      ~> value[l] = 0

(* The thread that has the lock, the threads asleep in Wait and those that *)
(* have been signalled, as module Monitor sees them: a waiter counts as    *)
(* asleep from the moment it has released the lock.                        *)
holder == [l \in Lock |->
             IF \E t \in Thread : t \in Owners(l)
             THEN CHOOSE t \in Thread : t \in Owners(l) ELSE NULL]

resuming == [t \in Thread |->
               IF wait[t] = NULL \/ (pc[t] = "got" /\ sem[t] \in Lock)
               THEN NULL
               ELSE IF \E c \in Condition : IsInList(waitQueue[c], t)
                    THEN NULL ELSE wait[t]]

M == INSTANCE Monitor WITH holder <- holder, waiting <- waitQueue,
                           resuming <- resuming

(* Locks and conditions built from semaphores are a Mesa monitor: the      *)
(* release and the sleep of Wait appear atomic, as synch.h says, and no    *)
(* signal is given to a thread that does not wait.                         *)
ImplementsMonitor == M!Spec
=============================================================================
