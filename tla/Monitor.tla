------------------------------ MODULE Monitor ------------------------------
(***************************************************************************)
(* What threads/synch.h promises of locks and condition variables, without *)
(* semaphores, queues of sleeping threads or interrupts: a lock has at     *)
(* most one holder, Wait atomically releases the lock and goes to sleep,   *)
(* Signal wakes the thread that has waited longest, and a woken thread     *)
(* takes the lock again before its Wait returns (Mesa semantics).          *)
(***************************************************************************)
EXTENDS Sequences

CONSTANTS Thread, Lock, Condition, NULL,
          LockOf   \* the one lock that protects each condition variable

VARIABLES holder,   \* lock -> the thread that has it, or NULL
          waiting,  \* condition -> threads asleep in Wait, oldest first
          resuming  \* thread -> lock its Wait has to take again, or NULL

vars == <<holder, waiting, resuming>>

Asleep(t) == \E c \in Condition : \E i \in DOMAIN waiting[c] :
               waiting[c][i] = t

Init ==
  /\ holder = [l \in Lock |-> NULL]
  /\ waiting = [c \in Condition |-> << >>]
  /\ resuming = [t \in Thread |-> NULL]

(* Acquire: "wait until the lock is FREE, then set it to BUSY" *)
Acquire(t, l) ==
  /\ holder[l] = NULL
  /\ resuming[t] = NULL /\ ~Asleep(t)
  /\ holder' = [holder EXCEPT ![l] = t]
  /\ UNCHANGED <<waiting, resuming>>

(* Release: "set lock to be FREE"; only the holder may *)
Release(t, l) ==
  /\ holder[l] = t
  /\ holder' = [holder EXCEPT ![l] = NULL]
  /\ UNCHANGED <<waiting, resuming>>

(* Wait: "releasing the lock and going to sleep are *atomic*" *)
Wait(t, c) ==
  /\ holder[LockOf[c]] = t
  /\ holder' = [holder EXCEPT ![LockOf[c]] = NULL]
  /\ waiting' = [waiting EXCEPT ![c] = Append(@, t)]
  /\ UNCHANGED resuming

(* Signal: "wake up a thread, if there are any waiting"; Broadcast is      *)
(* Signal until there are none.                                            *)
Signal(t, c) ==
  /\ holder[LockOf[c]] = t
  /\ waiting[c] # << >>
  /\ waiting' = [waiting EXCEPT ![c] = Tail(@)]
  /\ resuming' = [resuming EXCEPT ![Head(waiting[c])] = LockOf[c]]
  /\ UNCHANGED holder

(* "it is the responsibility of the woken thread to re-acquire the lock"   *)
Resume(t) ==
  /\ resuming[t] # NULL
  /\ holder[resuming[t]] = NULL
  /\ holder' = [holder EXCEPT ![resuming[t]] = t]
  /\ resuming' = [resuming EXCEPT ![t] = NULL]
  /\ UNCHANGED waiting

Next ==
  \E t \in Thread :
    \/ \E l \in Lock : Acquire(t, l) \/ Release(t, l)
    \/ \E c \in Condition : Wait(t, c) \/ Signal(t, c)
    \/ Resume(t)

Spec == Init /\ [][Next]_vars
=============================================================================
