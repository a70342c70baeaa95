--------------------------- MODULE ThreadsProofs ---------------------------
(***************************************************************************)
(* Proofs about module Threads, for any number of threads, priorities and  *)
(* children.  Threads are created by the main thread only, as the callers  *)
(* of createThread at this commit do: with other creators Finish follows a *)
(* dangling parent pointer and NoAbort is false.                           *)
(***************************************************************************)
EXTENDS Threads, ListsProofs, FiniteSetTheorems

(* The ready list stays sorted although setPriority does not sort it. *)
SchedInv ==
  /\ ReadyListInv
  /\ OneRunning
  /\ ZombieInv
  /\ Sorted(readyList, priority)

(* The main thread lives for ever and is the parent of all the others; its *)
(* active children are the live threads that have not finished.            *)
Families ==
  /\ status[main] \in {"RUNNING", "READY", "BLOCKED"}
  /\ IsInjective(activeChild[main])
  /\ \A t \in Thread : IsInList(activeChild[main], t) <=>
       t # main /\ status[t] \notin {"FREE", "ZOMMBIE"}
  /\ \A t \in Thread \ {main} : status[t] # "FREE" =>
       parent[t] = main /\ activeChild[t] = << >>

(* The thread manager's list, bit map and counter describe the live        *)
(* threads, whose pids differ.                                             *)
Table ==
  /\ IsInjective(threadList)
  /\ \A t \in Thread : IsInList(threadList, t) <=> t \in Live
  /\ \A t \in Live : pid[t] \in threadMap
  /\ \A t, u \in Live : pid[t] = pid[u] => t = u
  /\ \A b \in threadMap : \E t \in Live : pid[t] = b
  /\ IsFiniteSet(Live) /\ Cardinality(Live) = threadCnt
  /\ Cardinality(threadMap) = threadCnt

(* The inductive invariant. *)
IInv == TypeOK /\ NoAbort /\ SchedInv /\ Families /\ Table

-----------------------------------------------------------------------------
(* What a step that leaves the thread manager alone and neither creates    *)
(* nor deletes a thread does to its records: nothing.                      *)
LEMMA TableFrame ==
  ASSUME Table, UNCHANGED <<manager, pid>>,
         \A t \in Thread : status'[t] = "FREE" <=> status[t] = "FREE"
  PROVE  Table'
<1>1. Live' = Live
  BY DEF Live
<1> QED
  BY <1>1 DEF Table, manager

(* The same for parents and children. *)
LEMMA FamiliesFrame ==
  ASSUME Families, UNCHANGED <<parent, activeChild>>,
         \A t \in Thread : status'[t] = "FREE" <=> status[t] = "FREE",
         \A t \in Thread : status'[t] = "ZOMMBIE" <=> status[t] = "ZOMMBIE",
         status'[main] \in {"RUNNING", "READY", "BLOCKED"}
  PROVE  Families'
  BY DEF Families

(* Priorities may change where the list has no member. *)
LEMMA SortedFrame ==
  ASSUME NEW s \in Seq(Thread), NEW k1, NEW k2, Sorted(s, k1),
         \A t \in Thread : IsInList(s, t) => k2[t] = k1[t]
  PROVE  Sorted(s, k2)
<1>1. \A i \in 1..Len(s) : s[i] \in Thread /\ k2[s[i]] = k1[s[i]]
  BY DEF IsInList, Contains
<1> QED
  BY <1>1 DEF Sorted

(* Keys are natural numbers. *)
LEMMA PriorityNat ==
  ASSUME TypeOK PROVE priority \in [Thread -> Nat]
  BY ThreadsAssumption DEF TypeOK

(* The initial state: the main thread alone. *)
LEMMA InitInv == Init => IInv
<1> SUFFICES ASSUME Init PROVE IInv
  OBVIOUS
<1> USE ThreadsAssumption
<1>1. TypeOK
  BY DEF Init, TypeOK, Status, Phase
<1>2. NoAbort
  BY DEF Init, NoAbort
<1>3. SchedInv
  BY DEF Init, SchedInv, ReadyListInv, OneRunning, ZombieInv, Sorted,
         IsInList, Contains, IsInjective
<1>4. Families
  BY DEF Init, Families, IsInList, Contains, IsInjective
<1>5. Table
  <2>1. Live = {main}
    BY DEF Init, Live
  <2>2. IsFiniteSet({main}) /\ Cardinality({main}) = 1
        /\ Cardinality({0}) = 1
    BY FS_Singleton
  <2> QED
    BY <2>1, <2>2 DEF Init, Table, IsInList, Contains, IsInjective
<1> QED
  BY <1>1, <1>2, <1>3, <1>4, <1>5 DEF IInv

-----------------------------------------------------------------------------
(* Thread::Yield from a state in which the caller runs and the ready list  *)
(* is in order.                                                            *)
LEMMA YieldToInv ==
  ASSUME TypeOK, toBeDestroyed = NULL,
         NEW ready \in Seq(Thread), ready # << >>, IsInjective(ready),
         Sorted(ready, priority),
         NEW st \in [Thread -> Status],
         \A t \in Thread : IsInList(ready, t) <=> st[t] = "READY",
         \A t \in Thread : st[t] = "RUNNING" <=> t = currentThread,
         \A t \in Thread : st[t] # "ZOMMBIE",
         YieldTo(ready, st, TRUE), UNCHANGED <<tcb, manager>>
  PROVE  /\ TypeOK' /\ NoAbort' /\ SchedInv'
         /\ \A t \in Thread :
              IF t = Head(ready) THEN status'[t] = "RUNNING"
              ELSE IF t = currentThread THEN status'[t] = "READY"
              ELSE status'[t] = st[t]
<1> DEFINE rest == Tail(ready)
           next == Head(ready)
<1>1. /\ next \in Thread /\ rest \in Seq(Thread) /\ IsInjective(rest)
      /\ ~IsInList(rest, next)
      /\ \A y : IsInList(ready, y) <=> IsInList(rest, y) \/ y = next
  BY TailFacts
<1>2. currentThread \in Thread /\ priority \in [Thread -> Nat]
  BY PriorityNat DEF TypeOK
<1>3. next # currentThread /\ ~IsInList(rest, currentThread)
  BY <1>1, <1>2
<1>4. /\ readyList' = Insert(rest, currentThread, priority)
      /\ toBeDestroyed' = NULL
      /\ currentThread' = next
      /\ phase' = "switch"
      /\ status' = [[st EXCEPT ![currentThread] = "READY"]
                      EXCEPT ![next] = "RUNNING"]
  <2>1. /\ readyList' = Insert(rest, currentThread, priority)
        /\ toBeDestroyed' = toBeDestroyed
        /\ currentThread' = next
        /\ status' = [[st EXCEPT ![currentThread] = "READY"]
                        EXCEPT ![next] = "RUNNING"]
    BY DEF YieldTo, Run
  <2>2. phase' = IF ~IsInList(rest, currentThread)
                 THEN "switch" ELSE "aborted"
    BY DEF YieldTo, Run, Proceed
  <2> QED
    BY <1>3, <2>1, <2>2
<1> DEFINE back == Insert(rest, currentThread, priority)
<1> HIDE DEF rest
<1>5. /\ readyList' \in Seq(Thread) /\ IsInjective(readyList')
      /\ \A y : IsInList(readyList', y) <=>
                IsInList(rest, y) \/ y = currentThread
  <2>1. /\ back \in Seq(Thread)
        /\ \A y : IsInList(back, y) <=> IsInList(rest, y) \/ y = currentThread
        /\ IsInjective(rest) /\ ~IsInList(rest, currentThread)
             => IsInjective(back)
    <3>1. priority \in [Thread -> Int]
      BY <1>2
    <3> QED
      BY <1>1, <1>2, <3>1, InsertFacts
  <2> QED
    BY <1>1, <1>3, <1>4, <2>1
<1>6. /\ status' \in [Thread -> Status]
      /\ \A t \in Thread :
           IF t = next THEN status'[t] = "RUNNING"
           ELSE IF t = currentThread THEN status'[t] = "READY"
           ELSE status'[t] = st[t]
  BY <1>1, <1>2, <1>3, <1>4 DEF Status
<1>7. Sorted(readyList', priority')
  <2>1. Sorted(rest, priority)
    BY <1>2, TailSorted DEF rest
  <2>2. Sorted(back, priority)
    BY <1>1, <1>2, <2>1, InsertSorted
  <2> QED
    BY <1>4, <2>2 DEF tcb
<1> HIDE DEF next
<1>8. TypeOK'
  BY <1>1, <1>4, <1>5, <1>6 DEF TypeOK, Phase, tcb, manager
<1>9. ReadyListInv'
  BY <1>1, <1>2, <1>3, <1>5, <1>6 DEF ReadyListInv
<1>10. OneRunning' /\ ZombieInv' /\ NoAbort'
  BY <1>1, <1>2, <1>4, <1>6 DEF OneRunning, ZombieInv, NoAbort
<1> QED
  BY <1>6, <1>7, <1>8, <1>9, <1>10 DEF SchedInv, next

(* In phase "run" the caller is the only running thread and nobody is dead *)
(* or about to be deleted.                                                 *)
LEMMA RunningState ==
  ASSUME IInv, phase = "run"
  PROVE  /\ currentThread \in Thread
         /\ toBeDestroyed = NULL
         /\ \A t \in Thread : status[t] = "RUNNING" <=> t = currentThread
         /\ \A t \in Thread : status[t] # "ZOMMBIE"
         /\ ~IsInList(readyList, currentThread)
<1>1. /\ currentThread \in Thread /\ toBeDestroyed = NULL
      /\ \A t \in Thread : status[t] = "RUNNING" <=> t = currentThread
  BY DEF IInv, TypeOK, SchedInv, OneRunning, ZombieInv
<1>2. \A t \in Thread : status[t] # "ZOMMBIE"
  BY <1>1, ThreadsAssumption DEF IInv, TypeOK, SchedInv, ZombieInv
<1>3. ~IsInList(readyList, currentThread)
  BY <1>1 DEF IInv, SchedInv, ReadyListInv
<1> QED
  BY <1>1, <1>2, <1>3

LEMMA YieldInv == ASSUME IInv, Yield PROVE IInv'
<1>1. /\ phase = "run" /\ readyList # << >> /\ readyList \in Seq(Thread)
      /\ status \in [Thread -> Status] /\ TypeOK
      /\ YieldTo(readyList, status, TRUE) /\ UNCHANGED <<tcb, manager>>
      /\ IsInjective(readyList) /\ Sorted(readyList, priority)
      /\ \A t \in Thread : IsInList(readyList, t) <=> status[t] = "READY"
  BY DEF IInv, TypeOK, Yield, SchedInv, ReadyListInv
<1>2. /\ TypeOK' /\ NoAbort' /\ SchedInv'
      /\ \A t \in Thread :
           IF t = Head(readyList) THEN status'[t] = "RUNNING"
           ELSE IF t = currentThread THEN status'[t] = "READY"
           ELSE status'[t] = status[t]
  BY <1>1, RunningState, YieldToInv
<1>3. Head(readyList) \in Thread /\ status[Head(readyList)] = "READY"
  BY <1>1, TailFacts
<1>4. Families'
  <2>1. status'[main] \in {"RUNNING", "READY", "BLOCKED"}
    BY <1>2, ThreadsAssumption DEF IInv, Families
  <2>2. \A t \in Thread :
          /\ status'[t] = "FREE" <=> status[t] = "FREE"
          /\ status'[t] = "ZOMMBIE" <=> status[t] = "ZOMMBIE"
    BY <1>1, <1>2, <1>3, RunningState
  <2> QED
    BY <1>1, <2>1, <2>2, FamiliesFrame DEF IInv, tcb
<1>5. Table'
  <2>1. \A t \in Thread : status'[t] = "FREE" <=> status[t] = "FREE"
    BY <1>1, <1>2, <1>3, RunningState
  <2> QED
    BY <1>1, <2>1, TableFrame DEF IInv, tcb
<1> QED
  BY <1>2, <1>4, <1>5 DEF IInv

LEMMA ForkInv == ASSUME IInv, NEW t \in Thread, Fork(t) PROVE IInv'
<1> DEFINE ready == Insert(readyList, t, priority)
           st == [status EXCEPT ![t] = "READY"]
<1>1. /\ phase = "run" /\ status[t] = "JUST_CREATED" /\ TypeOK
      /\ readyList \in Seq(Thread) /\ priority \in [Thread -> Nat]
      /\ UNCHANGED <<tcb, manager>>
      /\ IsInjective(readyList) /\ Sorted(readyList, priority)
      /\ \A u \in Thread : IsInList(readyList, u) <=> status[u] = "READY"
  BY PriorityNat DEF IInv, TypeOK, Fork, SchedInv, ReadyListInv
<1>2. ~IsInList(readyList, t)
  BY <1>1
<1>3. /\ ready \in Seq(Thread) /\ ready # << >> /\ IsInjective(ready)
      /\ \A u : IsInList(ready, u) <=> IsInList(readyList, u) \/ u = t
  BY <1>1, <1>2, InsertFacts
<1>4. Sorted(ready, priority)
  BY <1>1, InsertSorted
<1>5. YieldTo(ready, st, TRUE)
  BY <1>2 DEF Fork, YieldTo, Run, Proceed
<1>6. /\ st \in [Thread -> Status]
      /\ \A u \in Thread : st[u] = IF u = t THEN "READY" ELSE status[u]
  BY <1>1 DEF TypeOK, Status
<1> HIDE DEF ready, st
<1>7. /\ \A u \in Thread : IsInList(ready, u) <=> st[u] = "READY"
      /\ \A u \in Thread : st[u] = "RUNNING" <=> u = currentThread
      /\ \A u \in Thread : st[u] # "ZOMMBIE"
      /\ toBeDestroyed = NULL
  BY <1>1, <1>3, <1>6, RunningState
<1>8. /\ TypeOK' /\ NoAbort' /\ SchedInv'
      /\ \A u \in Thread :
           IF u = Head(ready) THEN status'[u] = "RUNNING"
           ELSE IF u = currentThread THEN status'[u] = "READY"
           ELSE status'[u] = st[u]
  BY <1>1, <1>3, <1>4, <1>5, <1>6, <1>7, YieldToInv
<1>9. Head(ready) \in Thread /\ st[Head(ready)] = "READY"
  BY <1>3, <1>7, TailFacts
<1>10. \A u \in Thread :
         /\ status'[u] = "FREE" <=> status[u] = "FREE"
         /\ status'[u] = "ZOMMBIE" <=> status[u] = "ZOMMBIE"
  BY <1>1, <1>6, <1>7, <1>8, <1>9
<1>11. Families'
  <2>1. status'[main] \in {"RUNNING", "READY", "BLOCKED"}
    BY <1>6, <1>8, ThreadsAssumption DEF IInv, Families
  <2> QED
    BY <1>1, <1>10, <2>1, FamiliesFrame DEF IInv, tcb
<1>12. Table'
  BY <1>1, <1>10, TableFrame DEF IInv, tcb
<1> QED
  BY <1>8, <1>11, <1>12 DEF IInv

LEMMA SleepInv == ASSUME IInv, Sleep PROVE IInv'
<1>1. /\ phase = "run" /\ phase' = "sleep"
      /\ status' = [status EXCEPT ![currentThread] = "BLOCKED"]
      /\ UNCHANGED <<tcb, sched, manager>>
  BY DEF Sleep
<1>2. /\ status' \in [Thread -> Status]
      /\ \A t \in Thread :
           status'[t] = IF t = currentThread THEN "BLOCKED" ELSE status[t]
  BY <1>1 DEF IInv, TypeOK, Status
<1>3. TypeOK'
  BY <1>1, <1>2 DEF IInv, TypeOK, Phase, tcb, sched, manager
<1>4. SchedInv' /\ NoAbort'
  <2>1. ReadyListInv'
    BY <1>1, <1>2, RunningState DEF IInv, SchedInv, ReadyListInv, sched
  <2>2. OneRunning' /\ ZombieInv' /\ NoAbort'
    BY <1>1, <1>2, RunningState DEF OneRunning, ZombieInv, NoAbort, sched
  <2> QED
    BY <1>1, <2>1, <2>2 DEF IInv, SchedInv, tcb, sched
<1>5. Families'
  <2>1. status'[main] \in {"RUNNING", "READY", "BLOCKED"}
    BY <1>2, ThreadsAssumption DEF IInv, Families
  <2> QED
    BY <1>1, <1>2, <2>1, RunningState, FamiliesFrame DEF IInv, tcb
<1>6. Table'
  BY <1>1, <1>2, RunningState, TableFrame DEF IInv, tcb
<1> QED
  BY <1>3, <1>4, <1>5, <1>6 DEF IInv

LEMMA FinishInv == ASSUME IInv, Finish PROVE IInv'
<1> DEFINE me == currentThread
<1>1. /\ phase = "run" /\ me # main /\ me \in Thread
      /\ status' = [status EXCEPT ![me] = "ZOMMBIE"]
      /\ ChildThreadExit(parent[me], me)
      /\ UNCHANGED <<priority, pid, parent, sched, manager>>
      /\ status[me] = "RUNNING"
  BY RunningState DEF Finish
<1>2. /\ parent[me] = main /\ status[main] # "FREE"
      /\ IsInjective(activeChild[main]) /\ IsInList(activeChild[main], me)
      /\ activeChild[main] \in Seq(Thread) /\ exitedChild[main] \in Seq(Thread)
  BY <1>1, ThreadsAssumption DEF IInv, Families, TypeOK
<1>3. /\ RemoveAsserts(activeChild[main], me)
      /\ RemoveItem(activeChild[main], me) \in Seq(Thread)
      /\ IsInjective(RemoveItem(activeChild[main], me))
      /\ \A y : IsInList(RemoveItem(activeChild[main], me), y) <=>
                IsInList(activeChild[main], y) /\ y # me
  BY <1>2, RemoveFacts
<1>4. /\ phase' = "sleep"
      /\ activeChild' =
           [activeChild EXCEPT ![main] = RemoveItem(activeChild[main], me)]
      /\ exitedChild' =
           [exitedChild EXCEPT ![main] = Append(exitedChild[main], me)]
  BY <1>1, <1>2, <1>3 DEF ChildThreadExit, Proceed
<1>5. /\ status' \in [Thread -> Status]
      /\ \A t \in Thread :
           status'[t] = IF t = me THEN "ZOMMBIE" ELSE status[t]
  BY <1>1 DEF IInv, TypeOK, Status
<1>6. TypeOK'
  <2>1. activeChild' \in [Thread -> Seq(Thread)]
    BY <1>3, <1>4 DEF IInv, TypeOK
  <2>2. exitedChild' \in [Thread -> Seq(Thread)]
    BY <1>1, <1>2, <1>4, AppendFacts DEF IInv, TypeOK
  <2> QED
    BY <1>1, <1>4, <1>5, <2>1, <2>2 DEF IInv, TypeOK, Phase, sched, manager
<1>7. SchedInv' /\ NoAbort'
  <2>1. ReadyListInv'
    BY <1>1, <1>5 DEF IInv, SchedInv, ReadyListInv, sched
  <2>2. OneRunning' /\ ZombieInv' /\ NoAbort'
    BY <1>1, <1>4, <1>5, RunningState
    DEF OneRunning, ZombieInv, NoAbort, sched
  <2> QED
    BY <1>1, <2>1, <2>2 DEF IInv, SchedInv, sched
<1>8. Families'
  <2>1. /\ activeChild'[main] = RemoveItem(activeChild[main], me)
        /\ \A t \in Thread \ {main} : activeChild'[t] = activeChild[t]
    BY <1>4, ThreadsAssumption DEF IInv, TypeOK
  <2> QED
    BY <1>1, <1>3, <1>5, <2>1, RunningState, ThreadsAssumption
    DEF IInv, Families
<1>9. Table'
  BY <1>1, <1>5, TableFrame DEF IInv
<1> QED
  BY <1>6, <1>7, <1>8, <1>9 DEF IInv

LEMMA DispatchInv == ASSUME IInv, Dispatch PROVE IInv'
<1> DEFINE me == currentThread
           next == Head(readyList)
           dead == status[me] = "ZOMMBIE"
<1>1. /\ phase = "sleep" /\ readyList # << >> /\ readyList' = Tail(readyList)
      /\ UNCHANGED <<tcb, manager>>
      /\ currentThread' = next
      /\ status' = [status EXCEPT ![next] = "RUNNING"]
      /\ toBeDestroyed' = IF dead THEN me ELSE toBeDestroyed
      /\ phase' = IF dead => toBeDestroyed = NULL
                  THEN "switch" ELSE "aborted"
  BY DEF Dispatch, Run, Proceed
<1>2. /\ readyList \in Seq(Thread) /\ me \in Thread
      /\ IsInjective(readyList) /\ Sorted(readyList, priority)
      /\ \A t \in Thread : IsInList(readyList, t) <=> status[t] = "READY"
      /\ priority \in [Thread -> Nat]
  BY PriorityNat DEF IInv, TypeOK, SchedInv, ReadyListInv
<1>3. /\ next \in Thread /\ Tail(readyList) \in Seq(Thread)
      /\ IsInjective(Tail(readyList)) /\ ~IsInList(Tail(readyList), next)
      /\ \A y : IsInList(readyList, y) <=>
                IsInList(Tail(readyList), y) \/ y = next
  BY <1>1, <1>2, TailFacts
<1>4. Sorted(Tail(readyList), priority)
  BY <1>1, <1>2, TailSorted
<1>5. /\ toBeDestroyed = NULL
      /\ \A t \in Thread : status[t] # "RUNNING"
      /\ \A t \in Thread : status[t] = "ZOMMBIE" => t = me
      /\ status[next] = "READY"
  BY <1>1, <1>2, <1>3 DEF IInv, SchedInv, OneRunning, ZombieInv
<1>6. phase' = "switch"
  BY <1>1, <1>5
<1> HIDE DEF next
<1>7. /\ status' \in [Thread -> Status]
      /\ \A t \in Thread :
           status'[t] = IF t = next THEN "RUNNING" ELSE status[t]
  BY <1>1, <1>3 DEF IInv, TypeOK, Status
<1>8. TypeOK'
  BY <1>1, <1>2, <1>3, <1>6, <1>7
  DEF IInv, TypeOK, Phase, tcb, manager
<1>9. SchedInv' /\ NoAbort'
  <2>1. ReadyListInv'
    BY <1>1, <1>2, <1>3, <1>7 DEF ReadyListInv
  <2>2. OneRunning' /\ NoAbort'
    BY <1>1, <1>3, <1>5, <1>6, <1>7 DEF OneRunning, NoAbort
  <2>3. ZombieInv'
    <3>1. \A t \in Thread : status'[t] = "ZOMMBIE" => t = toBeDestroyed'
      BY <1>1, <1>5, <1>7
    <3>2. toBeDestroyed' # NULL => status'[toBeDestroyed'] = "ZOMMBIE"
      BY <1>1, <1>2, <1>3, <1>5, <1>7
    <3> QED
      BY <1>6, <3>1, <3>2 DEF ZombieInv
  <2> QED
    BY <1>1, <1>4, <2>1, <2>2, <2>3 DEF SchedInv, tcb
<1>10. Families'
  <2>1. status'[main] \in {"RUNNING", "READY", "BLOCKED"}
    BY <1>7, ThreadsAssumption DEF IInv, Families
  <2> QED
    BY <1>1, <1>3, <1>5, <1>7, <2>1, FamiliesFrame DEF IInv, tcb
<1>11. Table'
  BY <1>1, <1>3, <1>5, <1>7, TableFrame DEF IInv, tcb
<1> QED
  BY <1>8, <1>9, <1>10, <1>11 DEF IInv

LEMMA WakeInv == ASSUME IInv, NEW t \in Thread, Wake(t) PROVE IInv'
<1>1. /\ phase \in {"run", "idle"} /\ status[t] = "BLOCKED"
      /\ status' = [status EXCEPT ![t] = "READY"]
      /\ readyList' = Insert(readyList, t, priority)
      /\ phase' = IF ~IsInList(readyList, t) THEN phase ELSE "aborted"
      /\ UNCHANGED <<tcb, toBeDestroyed, currentThread, manager>>
  BY DEF Wake, Proceed
<1>2. /\ readyList \in Seq(Thread) /\ priority \in [Thread -> Nat]
      /\ IsInjective(readyList) /\ Sorted(readyList, priority)
      /\ \A u \in Thread : IsInList(readyList, u) <=> status[u] = "READY"
  BY PriorityNat DEF IInv, TypeOK, SchedInv, ReadyListInv
<1>3. ~IsInList(readyList, t) /\ phase' = phase
  BY <1>1, <1>2
<1>4. /\ readyList' \in Seq(Thread) /\ IsInjective(readyList')
      /\ \A u : IsInList(readyList', u) <=> IsInList(readyList, u) \/ u = t
      /\ Sorted(readyList', priority)
  <2>1. priority \in [Thread -> Int]
    BY <1>2
  <2> QED
    BY <1>1, <1>2, <1>3, <2>1, InsertFacts, InsertSorted
<1>5. /\ status' \in [Thread -> Status]
      /\ \A u \in Thread : status'[u] = IF u = t THEN "READY" ELSE status[u]
  BY <1>1 DEF IInv, TypeOK, Status
<1>6. TypeOK'
  BY <1>1, <1>3, <1>4, <1>5 DEF IInv, TypeOK, tcb, manager
<1>7. SchedInv' /\ NoAbort'
  <2>1. ReadyListInv'
    BY <1>2, <1>4, <1>5 DEF ReadyListInv
  <2>2. OneRunning' /\ NoAbort'
    BY <1>1, <1>3, <1>5 DEF IInv, SchedInv, OneRunning, NoAbort
  <2>3. ZombieInv'
    BY <1>1, <1>3, <1>5, ThreadsAssumption
    DEF IInv, TypeOK, SchedInv, ZombieInv
  <2> QED
    BY <1>1, <1>4, <2>1, <2>2, <2>3 DEF SchedInv, tcb
<1>8. Families'
  <2>1. status'[main] \in {"RUNNING", "READY", "BLOCKED"}
    BY <1>5, ThreadsAssumption DEF IInv, Families
  <2> QED
    BY <1>1, <1>5, <2>1, FamiliesFrame DEF IInv, tcb
<1>9. Table'
  BY <1>1, <1>5, TableFrame DEF IInv, tcb
<1> QED
  BY <1>6, <1>7, <1>8, <1>9 DEF IInv

(* Steps that change nothing but the phase. *)
LEMMA PhaseInv ==
  ASSUME IInv, Idle \/ IdleReturn \/ Halt \/ Stopped \/ UNCHANGED vars
  PROVE  IInv'
<1>1. /\ UNCHANGED <<status, tcb, sched, manager>>
      /\ \/ phase = "sleep" /\ phase' = "idle"
         \/ phase = "idle" /\ phase' = "sleep"
         \/ phase = "run" /\ phase' = "halted"
         \/ phase' = phase
  BY DEF Idle, IdleReturn, Halt, Stopped, vars
<1>2. TypeOK' /\ NoAbort'
  BY <1>1 DEF IInv, TypeOK, NoAbort, Phase, tcb, sched, manager
<1>3. SchedInv'
  <2>1. ReadyListInv' /\ Sorted(readyList', priority')
    BY <1>1 DEF IInv, SchedInv, ReadyListInv, Sorted, tcb, sched
  <2>2. OneRunning'
    BY <1>1 DEF IInv, SchedInv, OneRunning, sched
  <2>3. ZombieInv'
    <3>1. CASE phase = "run" /\ phase' = "halted"
      BY <1>1, <3>1, RunningState DEF ZombieInv, sched
    <3>2. CASE phase # "run" \/ phase' = phase
      BY <1>1, <3>2 DEF IInv, SchedInv, ZombieInv, sched
    <3> QED
      BY <1>1, <3>1, <3>2
  <2> QED
    BY <2>1, <2>2, <2>3 DEF SchedInv
<1>4. Families'
  BY <1>1, FamiliesFrame DEF IInv, Families, tcb
<1>5. Table'
  BY <1>1, TableFrame DEF IInv, tcb
<1> QED
  BY <1>2, <1>3, <1>4, <1>5 DEF IInv

LEMMA SetPriorityInv ==
  ASSUME IInv, NEW t \in Thread, NEW p \in Priority, SetPriority(t, p)
  PROVE  IInv'
<1>1. /\ phase = "run"
      /\ t = currentThread \/ status[t] = "JUST_CREATED"
      /\ priority' = [priority EXCEPT ![t] = p]
      /\ UNCHANGED <<status, pid, parent, activeChild, exitedChild, sched,
                     manager, phase>>
  BY DEF SetPriority
<1>2. ~IsInList(readyList, t)
  BY <1>1, RunningState DEF IInv, SchedInv, ReadyListInv
<1>3. TypeOK' /\ NoAbort'
  BY <1>1 DEF IInv, TypeOK, NoAbort, sched, manager
<1>4. Sorted(readyList, priority')
  <2>1. \A u \in Thread : IsInList(readyList, u) => priority'[u] = priority[u]
    BY <1>1, <1>2 DEF IInv, TypeOK
  <2> QED
    BY <2>1, SortedFrame DEF IInv, TypeOK, SchedInv
<1>5. SchedInv'
  BY <1>1, <1>4
  DEF IInv, SchedInv, ReadyListInv, OneRunning, ZombieInv, sched
<1>6. Families' /\ Table'
  BY <1>1, FamiliesFrame, TableFrame DEF IInv, Families, manager
<1> QED
  BY <1>3, <1>5, <1>6 DEF IInv

LEMMA CheckToBeDestroyedInv ==
  ASSUME IInv, CheckToBeDestroyed PROVE IInv'
<1> DEFINE t == toBeDestroyed
<1>1. /\ phase = "switch" /\ toBeDestroyed' = NULL
      /\ UNCHANGED <<tcb, readyList, currentThread>>
      /\ currentThread \in Thread /\ status[currentThread] = "RUNNING"
  BY DEF CheckToBeDestroyed, IInv, TypeOK, SchedInv, OneRunning
<1>2. CASE t = NULL
  <2>1. phase' = "run" /\ UNCHANGED <<status, manager>>
    BY <1>2 DEF CheckToBeDestroyed
  <2>2. \A u \in Thread : status[u] # "ZOMMBIE"
    BY <1>1, <1>2, ThreadsAssumption DEF IInv, SchedInv, ZombieInv
  <2>3. TypeOK' /\ NoAbort'
    BY <1>1, <2>1, ThreadsAssumption
    DEF IInv, TypeOK, NoAbort, Phase, tcb, manager
  <2>4. SchedInv'
    BY <1>1, <2>1, <2>2
    DEF IInv, SchedInv, ReadyListInv, OneRunning, ZombieInv, tcb
  <2>5. Families' /\ Table'
    BY <1>1, <2>1, FamiliesFrame, TableFrame DEF IInv, Families, tcb
  <2> QED
    BY <2>3, <2>4, <2>5 DEF IInv
<1>3. CASE t # NULL
  <2>1. /\ t \in Thread /\ status[t] = "ZOMMBIE" /\ t # currentThread
        /\ t \in Live /\ t # main
        /\ \A u \in Thread : status[u] = "ZOMMBIE" => u = t
    BY <1>1, <1>3
    DEF IInv, TypeOK, SchedInv, ZombieInv, Live, Families
  <2>2. /\ threadList \in Seq(Thread) /\ IsInjective(threadList)
        /\ IsInList(threadList, t)
        /\ pid[t] \in threadMap /\ threadMap \subseteq 0..(MaxThreads - 1)
    BY <2>1 DEF IInv, Table, TypeOK
  <2>3. /\ RemoveItem(threadList, t) \in Seq(Thread)
        /\ IsInjective(RemoveItem(threadList, t))
        /\ \A y : IsInList(RemoveItem(threadList, t), y) <=>
                  IsInList(threadList, y) /\ y # t
        /\ RemoveAsserts(threadList, t)
    BY <2>2, RemoveFacts
  <2>4. /\ threadCnt' = threadCnt - 1
        /\ threadMap' = threadMap \ {pid[t]}
        /\ threadList' = RemoveItem(threadList, t)
        /\ status' = [status EXCEPT ![t] = "FREE"]
        /\ phase' = "run"
    BY <1>3, <2>1, <2>2, <2>3 DEF CheckToBeDestroyed, Proceed
  <2>5. /\ status' \in [Thread -> Status]
        /\ \A u \in Thread : status'[u] = IF u = t THEN "FREE" ELSE status[u]
    BY <2>1, <2>4 DEF IInv, TypeOK, Status
  <2>6. TypeOK' /\ NoAbort'
    <3>1. threadMap' \subseteq 0..(MaxThreads - 1) /\ threadCnt' \in Int
      <4>1. threadMap' \subseteq threadMap
        BY <2>4
      <4>2. threadCnt' \in Int
        BY <2>4 DEF IInv, TypeOK
      <4> QED
        BY <2>2, <4>1, <4>2
    <3>2. phase' \in Phase /\ toBeDestroyed' \in Thread \union {NULL}
          /\ threadList' \in Seq(Thread) /\ phase' # "aborted"
      BY <1>1, <2>3, <2>4 DEF Phase
    <3> QED
      BY <1>1, <2>5, <3>1, <3>2 DEF IInv, TypeOK, NoAbort, tcb
  <2>7. SchedInv'
    BY <1>1, <2>1, <2>4, <2>5
    DEF IInv, SchedInv, ReadyListInv, OneRunning, ZombieInv, tcb
  <2>8. Families'
    BY <1>1, <2>1, <2>5, ThreadsAssumption DEF IInv, Families, tcb
  <2>9. Table'
    <3>1. Live' = Live \ {t}
      BY <2>1, <2>5 DEF Live
    <3>2. /\ IsFiniteSet(Live \ {t})
          /\ Cardinality(Live \ {t}) = Cardinality(Live) - 1
      BY <2>1, FS_RemoveElement DEF IInv, Table
    <3>3. IsFiniteSet(threadMap)
      <4>1. IsFiniteSet(0..(MaxThreads - 1))
        BY FS_Interval, ThreadsAssumption
      <4> QED
        BY <2>2, <4>1, FS_Subset
    <3>4. Cardinality(threadMap \ {pid[t]}) = Cardinality(threadMap) - 1
      BY <2>2, <3>3, FS_RemoveElement
    <3>5. pid' = pid
      BY <1>1 DEF tcb
    <3>6. /\ \A u \in Thread : IsInList(threadList', u) <=> u \in Live'
          /\ IsInjective(threadList')
      BY <2>3, <2>4, <3>1 DEF IInv, Table
    <3>7. /\ \A u \in Live' : pid'[u] \in threadMap'
          /\ \A u, v \in Live' : pid'[u] = pid'[v] => u = v
          /\ \A b \in threadMap' : \E u \in Live' : pid'[u] = b
      BY <2>1, <2>4, <3>1, <3>5 DEF IInv, Table
    <3>8. /\ IsFiniteSet(Live') /\ Cardinality(Live') = threadCnt'
          /\ Cardinality(threadMap') = threadCnt'
      BY <2>4, <3>1, <3>2, <3>4 DEF IInv, Table
    <3> QED
      BY <3>6, <3>7, <3>8 DEF Table
  <2> QED
    BY <2>6, <2>7, <2>8, <2>9 DEF IInv
<1> QED
  BY <1>2, <1>3

(* There is a clear bit as long as createThread does not refuse. *)
LEMMA ClearBit ==
  ASSUME TypeOK, Table, threadCnt + 1 < MaxThreads
  PROVE  /\ FindClear(threadMap, MaxThreads) \in 0..(MaxThreads - 1)
         /\ FindClear(threadMap, MaxThreads) \notin threadMap
         /\ FindAndSet(threadMap, MaxThreads) =
              threadMap \union {FindClear(threadMap, MaxThreads)}
         /\ IsFiniteSet(threadMap)
<1> DEFINE all == 0..(MaxThreads - 1)
           clear == all \ threadMap
<1>1. IsFiniteSet(all) /\ Cardinality(all) = MaxThreads
  BY FS_Interval, ThreadsAssumption
<1>2. threadMap \subseteq all /\ IsFiniteSet(threadMap)
  BY <1>1, FS_Subset DEF TypeOK
<1>3. clear # {}
  <2> SUFFICES ASSUME clear = {} PROVE FALSE
    OBVIOUS
  <2>1. threadMap = all
    BY <1>2
  <2>2. Cardinality(threadMap) = MaxThreads
    BY <1>1, <2>1
  <2> QED
    BY <2>2, ThreadsAssumption DEF Table
<1>4. Min(clear) \in clear
  <2>1. clear \subseteq Nat
    OBVIOUS
  <2> QED
    BY ONLY <1>3, <2>1, MinFacts
<1>5. FindClear(threadMap, MaxThreads) = Min(clear)
  BY <1>3 DEF FindClear
<1> HIDE DEF clear
<1>6. Min(clear) # -1
  BY <1>4 DEF clear
<1> QED
  BY <1>2, <1>4, <1>5, <1>6 DEF FindAndSet, clear

LEMMA CreateThreadInv ==
  ASSUME IInv, Creators = {main}, NEW t \in Thread, CreateThread(t)
  PROVE  IInv'
<1> DEFINE b == FindClear(threadMap, MaxThreads)
<1>1. /\ phase = "run" /\ currentThread = main /\ status[t] = "FREE"
      /\ threadCnt + 1 < MaxThreads /\ threadCnt' = threadCnt + 1
      /\ threadMap' = FindAndSet(threadMap, MaxThreads)
      /\ pid' = [pid EXCEPT ![t] = b]
      /\ status' = [status EXCEPT ![t] = "JUST_CREATED"]
      /\ priority' = [priority EXCEPT ![t] = 0]
      /\ parent' = [parent EXCEPT ![t] = main]
      /\ activeChild' = [activeChild EXCEPT ![t] = << >>,
                           ![main] = Append(@, t)]
      /\ exitedChild' = [exitedChild EXCEPT ![t] = << >>]
      /\ threadList' = Append(threadList, t)
      /\ UNCHANGED <<sched, phase>>
  BY DEF CreateThread
<1>2. /\ b \in 0..(MaxThreads - 1) /\ b \notin threadMap
      /\ threadMap' = threadMap \union {b} /\ IsFiniteSet(threadMap)
  BY <1>1, ClearBit DEF IInv
<1> HIDE DEF b
<1>3. /\ main \in Thread /\ t # main /\ status[main] = "RUNNING"
      /\ t \notin Live /\ threadCnt \in Int
      /\ \A u \in Thread : status[u] # "ZOMMBIE"
  BY <1>1, RunningState, ThreadsAssumption DEF IInv, TypeOK, Live
<1>4. /\ status' \in [Thread -> Status]
      /\ \A u \in Thread :
           status'[u] = IF u = t THEN "JUST_CREATED" ELSE status[u]
  BY <1>1 DEF IInv, TypeOK, Status
<1>5. /\ activeChild[main] \in Seq(Thread) /\ threadList \in Seq(Thread)
      /\ readyList \in Seq(Thread)
      /\ IsInjective(activeChild[main]) /\ ~IsInList(activeChild[main], t)
      /\ IsInjective(threadList) /\ ~IsInList(threadList, t)
  BY <1>1, <1>3 DEF IInv, TypeOK, Families, Table
<1>6. /\ Append(activeChild[main], t) \in Seq(Thread)
      /\ IsInjective(Append(activeChild[main], t))
      /\ \A u : IsInList(Append(activeChild[main], t), u) <=>
                IsInList(activeChild[main], u) \/ u = t
  BY <1>5, AppendFacts
<1>7. /\ threadList' \in Seq(Thread) /\ IsInjective(threadList')
      /\ \A u : IsInList(threadList', u) <=> IsInList(threadList, u) \/ u = t
  BY <1>1, <1>5, AppendFacts
<1>8. /\ activeChild' \in [Thread -> Seq(Thread)]
      /\ activeChild'[main] = Append(activeChild[main], t)
      /\ activeChild'[t] = << >>
      /\ \A u \in Thread \ {main, t} : activeChild'[u] = activeChild[u]
  <2> DEFINE children == Append(activeChild[main], t)
  <2>1. activeChild' = [[activeChild EXCEPT ![t] = << >>]
                          EXCEPT ![main] = children]
    BY <1>1, <1>3 DEF IInv, TypeOK
  <2>2. children \in Seq(Thread) /\ << >> \in Seq(Thread)
    BY <1>6
  <2> HIDE DEF children
  <2>3. /\ activeChild' \in [Thread -> Seq(Thread)]
        /\ activeChild'[main] = children
        /\ activeChild'[t] = << >>
        /\ \A u \in Thread \ {main, t} : activeChild'[u] = activeChild[u]
    BY <1>3, <2>1, <2>2 DEF IInv, TypeOK
  <2> QED
    BY <2>3 DEF children
<1>9. TypeOK' /\ NoAbort'
  <2>1. /\ threadMap' \subseteq 0..(MaxThreads - 1) /\ threadCnt' \in Int
        /\ pid' \in [Thread -> Int]
    BY <1>1, <1>2, <1>3 DEF IInv, TypeOK
  <2>2. /\ priority' \in [Thread -> Priority]
        /\ parent' \in [Thread -> Thread \union {NULL}]
        /\ exitedChild' \in [Thread -> Seq(Thread)]
    BY <1>1, <1>3, ThreadsAssumption DEF IInv, TypeOK
  <2> QED
    BY <1>1, <1>4, <1>7, <1>8, <2>1, <2>2 DEF IInv, TypeOK, NoAbort, sched
<1>10. SchedInv'
  <2>1. Sorted(readyList, priority')
    <3>1. \A u \in Thread :
            IsInList(readyList, u) => priority'[u] = priority[u]
      BY <1>1 DEF IInv, TypeOK, SchedInv, ReadyListInv
    <3> QED
      BY <1>5, <3>1, SortedFrame DEF IInv, SchedInv
  <2>2. ReadyListInv'
    BY <1>1, <1>4 DEF IInv, SchedInv, ReadyListInv, sched
  <2>3. OneRunning' /\ ZombieInv'
    BY <1>1, <1>3, <1>4, RunningState DEF OneRunning, ZombieInv, sched
  <2> QED
    BY <1>1, <2>1, <2>2, <2>3 DEF SchedInv, sched
<1>11. Families'
  <2>1. /\ parent'[t] = main
        /\ \A u \in Thread \ {t} : parent'[u] = parent[u]
    BY <1>1 DEF IInv, TypeOK
  <2>2. \A u \in Thread : IsInList(activeChild'[main], u) <=>
          u # main /\ status'[u] \notin {"FREE", "ZOMMBIE"}
    BY <1>3, <1>4, <1>6, <1>8 DEF IInv, Families
  <2>3. \A u \in Thread \ {main} : status'[u] # "FREE" =>
          parent'[u] = main /\ activeChild'[u] = << >>
    BY <1>4, <1>8, <2>1 DEF IInv, Families
  <2> QED
    BY <1>3, <1>4, <1>6, <1>8, <2>2, <2>3 DEF Families
<1>12. Table'
  <2>1. Live' = Live \union {t}
    BY <1>4 DEF Live
  <2>2. IsFiniteSet(Live \union {t})
        /\ Cardinality(Live \union {t}) = Cardinality(Live) + 1
    BY <1>3, FS_AddElement DEF IInv, Table
  <2>3. Cardinality(threadMap \union {b}) = Cardinality(threadMap) + 1
    BY <1>2, FS_AddElement
  <2>4. pid'[t] = b /\ \A u \in Live : pid'[u] = pid[u]
    BY <1>1, <1>3 DEF IInv, TypeOK, Live
  <2>5. \A u \in Thread : IsInList(threadList', u) <=> u \in Live'
    BY <1>7, <2>1 DEF IInv, Table
  <2>6. /\ \A u \in Live' : pid'[u] \in threadMap'
        /\ \A c \in threadMap' : \E u \in Live' : pid'[u] = c
    BY <1>2, <2>1, <2>4 DEF IInv, Table
  <2>7. \A u, v \in Live' : pid'[u] = pid'[v] => u = v
    BY <1>2, <2>1, <2>4 DEF IInv, Table
  <2>8. /\ IsFiniteSet(Live') /\ Cardinality(Live') = threadCnt'
        /\ Cardinality(threadMap') = threadCnt'
    BY <1>1, <1>2, <2>1, <2>2, <2>3 DEF IInv, Table
  <2> QED
    BY <1>7, <2>5, <2>6, <2>7, <2>8 DEF Table
<1> QED
  BY <1>9, <1>10, <1>11, <1>12 DEF IInv

-----------------------------------------------------------------------------
(* Every step of the thread system preserves the invariant. *)
LEMMA NextInv ==
  ASSUME IInv, [Next]_vars, Creators = {main} PROVE IInv'
  BY CreateThreadInv, SetPriorityInv, ForkInv, YieldInv, SleepInv, FinishInv,
     DispatchInv, PhaseInv, WakeInv, CheckToBeDestroyedInv
  DEF Next

(* The inductive invariant holds in every reachable state. *)
LEMMA Invariance ==
  ASSUME Creators = {main} PROVE Spec => []IInv
<1>1. Init => IInv
  BY InitInv
<1>2. IInv /\ [Next]_vars => IInv'
  BY NextInv
<1> QED
  BY <1>1, <1>2, PTL DEF Spec

(* Type correctness of the thread system. *)
THEOREM ThreadsTypeCorrect ==
  ASSUME Creators = {main} PROVE Spec => []TypeOK
<1>1. IInv => TypeOK
  BY DEF IInv
<1> QED
  BY <1>1, Invariance, PTL

(* No ASSERT of thread.cc, scheduler.cc, ThreadManager.cc and of the lists *)
(* they use can fail.                                                      *)
THEOREM ThreadsNeverAbort ==
  ASSUME Creators = {main} PROVE Spec => []NoAbort
<1>1. IInv => NoAbort
  BY DEF IInv
<1> QED
  BY <1>1, Invariance, PTL

(* The ready list holds the READY threads, each once. *)
THEOREM ReadyListCorrect ==
  ASSUME Creators = {main} PROVE Spec => []ReadyListInv
<1>1. IInv => ReadyListInv
  BY DEF IInv, SchedInv
<1> QED
  BY <1>1, Invariance, PTL

(* Only currentThread runs. *)
THEOREM OneThreadRuns ==
  ASSUME Creators = {main} PROVE Spec => []OneRunning
<1>1. IInv => OneRunning
  BY DEF IInv, SchedInv
<1> QED
  BY <1>1, Invariance, PTL

(* A finished thread is deleted at the next context switch. *)
THEOREM ZombiesAreDestroyed ==
  ASSUME Creators = {main} PROVE Spec => []ZombieInv
<1>1. IInv => ZombieInv
  BY DEF IInv, SchedInv
<1> QED
  BY <1>1, Invariance, PTL

(* Parents outlive their children and list the active ones. *)
THEOREM FamiliesCorrect ==
  ASSUME Creators = {main} PROVE Spec => []FamilyInv
<1>1. IInv => FamilyInv
  <2> SUFFICES ASSUME IInv, NEW t \in Live \ {main}
               PROVE  /\ parent[t] \in Live
                      /\ IsInList(activeChild[parent[t]], t) <=>
                           status[t] # "ZOMMBIE"
                      /\ \A p \in Live \ {parent[t]} :
                           ~IsInList(activeChild[p], t)
    BY DEF FamilyInv
  <2>1. /\ t \in Thread /\ status[t] # "FREE" /\ parent[t] = main
        /\ main \in Live
    BY ThreadsAssumption DEF IInv, Families, Live
  <2>2. IsInList(activeChild[main], t) <=> status[t] # "ZOMMBIE"
    BY <2>1 DEF IInv, Families
  <2>3. \A p \in Live \ {main} : ~IsInList(activeChild[p], t)
    BY <2>1 DEF IInv, Families, Live, IsInList, Contains
  <2> QED
    BY <2>1, <2>2, <2>3
<1> QED
  BY <1>1, Invariance, PTL

(* getThreadPtr finds every live thread by its pid. *)
LEMMA PtrOfPid ==
  ASSUME IInv, NEW t \in Live PROVE GetThreadPtr(pid[t]) = t
<1> DEFINE I == {i \in 1..Len(threadList) : pid[threadList[i]] = pid[t]}
           p == Min(I)
<1>1. /\ t \in Thread /\ threadList \in Seq(Thread) /\ pid[t] \in threadMap
      /\ IsInList(threadList, t)
  BY DEF IInv, TypeOK, Table, Live
<1>2. I # {} /\ I \subseteq Nat
  BY <1>1 DEF IsInList, Contains
<1>3. p \in I
  BY ONLY <1>2, MinFacts
<1>4. threadList[p] \in Live /\ pid[threadList[p]] = pid[t] /\ p # 0
  <2>1. /\ p \in 1..Len(threadList) /\ threadList[p] \in Thread
        /\ pid[threadList[p]] = pid[t]
    BY <1>1, <1>3
  <2>2. IsInList(threadList, threadList[p])
    BY <2>1 DEF IsInList, Contains
  <2> QED
    BY <2>1, <2>2 DEF IInv, Table
<1>5. threadList[p] = t
  BY <1>4 DEF IInv, Table
<1>6. SelectInSeq(threadList, LAMBDA u : pid[u] = pid[t]) = p
  BY <1>2 DEF SelectInSeq
<1> HIDE DEF p
<1> QED
  BY <1>1, <1>4, <1>5, <1>6 DEF GetThreadPtr

(* The records of the thread manager agree with each other. *)
THEOREM ThreadTableCorrect ==
  ASSUME Creators = {main} PROVE Spec => []ThreadTableInv
<1>1. IInv => ThreadTableInv
  <2> SUFFICES ASSUME IInv PROVE ThreadTableInv
    OBVIOUS
  <2>1. threadMap = {pid[t] : t \in Live}
    BY DEF IInv, Table
  <2>2. \A t \in Live : GetThreadPtr(pid[t]) = t
    BY PtrOfPid
  <2> QED
    BY <2>1, <2>2 DEF IInv, Table, ThreadTableInv
<1> QED
  BY <1>1, Invariance, PTL

(* The processor goes to the most urgent ready thread. *)
THEOREM PriorityDispatched ==
  ASSUME Creators = {main} PROVE Spec => PriorityDispatch
<1> DEFINE A == currentThread' # currentThread =>
                  \A t \in Thread : status[t] = "READY" =>
                    priority[currentThread'] <= priority[t]
<1>1. ASSUME IInv, [Next]_vars PROVE A
  <2> SUFFICES ASSUME currentThread' # currentThread,
                      NEW t \in Thread, status[t] = "READY"
               PROVE  priority[currentThread'] <= priority[t]
    OBVIOUS
  <2>1. /\ readyList \in Seq(Thread) /\ priority \in [Thread -> Nat]
        /\ Sorted(readyList, priority) /\ IsInList(readyList, t)
    BY <1>1, PriorityNat DEF IInv, TypeOK, SchedInv, ReadyListInv
  <2>2. CASE Yield \/ Dispatch
    <3>1. readyList # << >> /\ currentThread' = Head(readyList)
      BY <2>2 DEF Yield, Dispatch, YieldTo, Run
    <3> QED
      BY <2>1, <3>1, TailSorted
  <2>3. CASE \E u \in Thread : Fork(u)
    <3>1. PICK u \in Thread : Fork(u)
      BY <2>3
    <3> DEFINE ready == Insert(readyList, u, priority)
    <3>2. currentThread' = Head(ready)
      BY <3>1 DEF Fork, YieldTo, Run
    <3>3. /\ ready \in Seq(Thread) /\ ready # << >> /\ IsInList(ready, t)
          /\ Sorted(ready, priority)
      BY <2>1, InsertFacts, InsertSorted
    <3> HIDE DEF ready
    <3> QED
      BY <2>1, <3>2, <3>3, TailSorted
  <2>4. CASE UNCHANGED currentThread
    BY <2>4
  <2> QED
    BY <1>1, <2>2, <2>3, <2>4
    DEF Next, CreateThread, SetPriority, Sleep, Finish, Idle, IdleReturn,
        Wake, CheckToBeDestroyed, Halt, Stopped, vars, sched
<1>2. IInv /\ [Next]_vars => [A]_vars
  BY <1>1
<1> QED
  BY <1>2, Invariance, PTL DEF Spec, PriorityDispatch

(* SortedList<T>::Insert does not change the order of what is there ... *)
LEMMA InsertKeepsOrder ==
  ASSUME NEW S, NEW s \in Seq(S), NEW x \in S, NEW key \in [S -> Int],
         NEW t, NEW u, Precedes(s, t, u)
  PROVE  Precedes(Insert(s, x, key), t, u)
<1> DEFINE p == InsertPosition(s, x, key)
           r == InsertAt(s, p, x)
<1>1. p \in 1..(Len(s) + 1) /\ Len(s) \in Nat
  BY InsertPositionFacts
<1> HIDE DEF p
<1>2. /\ r \in Seq(S) /\ Len(r) = Len(s) + 1
      /\ \A i \in 1..Len(s) : r[IF i < p THEN i ELSE i + 1] = s[i]
  BY <1>1, InsertAtFacts
<1> HIDE DEF r
<1>3. PICK i \in 1..Len(s), j \in 1..Len(s) : i < j /\ s[i] = t /\ s[j] = u
  BY DEF Precedes
<1> DEFINE at(k) == IF k < p THEN k ELSE k + 1
<1>4. at(i) \in 1..(Len(s) + 1) /\ at(j) \in 1..(Len(s) + 1) /\ at(i) < at(j)
  BY <1>1, <1>3
<1>5. r[at(i)] = t /\ r[at(j)] = u
  BY <1>2, <1>3
<1>6. DOMAIN r = 1..(Len(s) + 1)
  BY <1>2
<1> HIDE DEF at
<1>7. Precedes(r, t, u)
  BY <1>4, <1>5, <1>6 DEF Precedes
<1> QED
  BY <1>7 DEF Insert, r, p

(* ... and puts an item behind all that are not bigger. *)
LEMMA InsertGoesBehind ==
  ASSUME NEW S, NEW s \in Seq(S), NEW x \in S, NEW key \in [S -> Int],
         Sorted(s, key), NEW t \in S, IsInList(s, t), key[t] <= key[x]
  PROVE  Precedes(Insert(s, x, key), t, x)
<1> DEFINE p == InsertPosition(s, x, key)
           r == InsertAt(s, p, x)
<1>1. /\ p \in 1..(Len(s) + 1) /\ Len(s) \in Nat
      /\ p <= Len(s) => key[x] < key[s[p]]
  BY InsertPositionFacts
<1> HIDE DEF p
<1>2. /\ r \in Seq(S) /\ Len(r) = Len(s) + 1 /\ r[p] = x
      /\ \A i \in 1..Len(s) : r[IF i < p THEN i ELSE i + 1] = s[i]
  BY <1>1, InsertAtFacts
<1> HIDE DEF r
<1>3. PICK i \in 1..Len(s) : s[i] = t
  BY DEF IsInList, Contains
<1>4. i < p
  <2> SUFFICES ASSUME p <= i PROVE FALSE
    BY <1>1, <1>3
  <2>1. key[s[p]] <= key[s[i]] /\ key[x] < key[s[p]]
    BY <1>1, <1>3 DEF Sorted
  <2>2. s[p] \in S /\ key[s[p]] \in Int /\ key[x] \in Int /\ key[t] \in Int
    BY <1>1, <1>3
  <2> QED
    BY <1>3, <2>1, <2>2
<1>5. r[i] = t /\ i \in 1..(Len(s) + 1)
  <2>1. r[IF i < p THEN i ELSE i + 1] = s[i]
    BY <1>2, <1>3
  <2>2. (IF i < p THEN i ELSE i + 1) = i /\ i \in 1..(Len(s) + 1)
    BY <1>1, <1>3, <1>4
  <2> QED
    BY <1>3, <2>1, <2>2
<1>6. DOMAIN r = 1..(Len(s) + 1)
  BY <1>2
<1>7. Precedes(r, t, x)
  BY <1>1, <1>2, <1>4, <1>5, <1>6 DEF Precedes
<1> QED
  BY <1>7 DEF Insert, r, p

(* Taking off the first item leaves the order of the others. *)
LEMMA TailKeepsOrder ==
  ASSUME NEW S, NEW s \in Seq(S), s # << >>, NEW t, NEW u,
         Precedes(s, t, u), t # Head(s)
  PROVE  Precedes(Tail(s), t, u)
<1>1. PICK i \in 1..Len(s), j \in 1..Len(s) : i < j /\ s[i] = t /\ s[j] = u
  BY DEF Precedes
<1>2. i # 1 /\ Len(s) \in Nat
  BY <1>1
<1>3. /\ i - 1 \in DOMAIN Tail(s) /\ j - 1 \in DOMAIN Tail(s) /\ i - 1 < j - 1
      /\ Tail(s)[i - 1] = t /\ Tail(s)[j - 1] = u
  BY <1>1, <1>2
<1> QED
  BY <1>3 DEF Precedes

(* What a thread that goes through YieldTo does to the order of others. *)
LEMMA YieldToKeepsOrder ==
  ASSUME NEW ready \in Seq(Thread), ready # << >>,
         currentThread \in Thread, priority \in [Thread -> Int],
         Sorted(ready, priority),
         readyList' = Insert(Tail(ready), currentThread, priority),
         NEW t \in Thread, NEW u \in Thread, t # Head(ready), IsInList(ready, t),
         \/ Precedes(ready, t, u)
         \/ u = currentThread /\ priority[t] <= priority[u]
  PROVE  Precedes(readyList', t, u)
<1>1. Tail(ready) \in Seq(Thread) /\ IsInList(Tail(ready), t)
  BY TailFacts
<1>2. Sorted(Tail(ready), priority)
  BY TailSorted
<1>3. CASE Precedes(ready, t, u)
  <2>1. Precedes(Tail(ready), t, u)
    BY <1>3, TailKeepsOrder
  <2> QED
    BY <1>1, <2>1, InsertKeepsOrder
<1>4. CASE u = currentThread /\ priority[t] <= priority[u]
  BY <1>1, <1>2, <1>4, InsertGoesBehind
<1> QED
  BY <1>3, <1>4

(* Whatever threads yield, fork, sleep, wake and change their priorities,  *)
(* the ready list serves threads of one priority in the order in which     *)
(* they became ready.                                                      *)
THEOREM EqualsInOrder ==
  ASSUME Creators = {main} PROVE Spec => FirstComeFirstServed
<1> DEFINE Kept(t, u) ==
             /\ status[t] = "READY" /\ status'[t] = "READY"
             /\ status'[u] = "READY" /\ t # u
             /\ \/ Precedes(readyList, t, u)
                \/ status[u] # "READY" /\ priority[t] <= priority[u]
             => Precedes(readyList', t, u)
           A == \A t, u \in Thread : Kept(t, u)
<1>1. ASSUME IInv, [Next]_vars PROVE A
  <2> SUFFICES ASSUME NEW t \in Thread, NEW u \in Thread,
                      status[t] = "READY", status'[t] = "READY",
                      status'[u] = "READY", t # u,
                      \/ Precedes(readyList, t, u)
                      \/ status[u] # "READY" /\ priority[t] <= priority[u]
               PROVE  Precedes(readyList', t, u)
    OBVIOUS
  <2>1. /\ readyList \in Seq(Thread) /\ priority \in [Thread -> Int]
        /\ Sorted(readyList, priority) /\ IsInList(readyList, t)
        /\ currentThread \in Thread /\ status \in [Thread -> Status]
    BY <1>1, PriorityNat DEF IInv, TypeOK, SchedInv, ReadyListInv
  <2>2. CASE Yield
    <3>1. /\ readyList # << >>
          /\ readyList' = Insert(Tail(readyList), currentThread, priority)
          /\ status' = [[status EXCEPT ![currentThread] = "READY"]
                          EXCEPT ![Head(readyList)] = "RUNNING"]
      BY <2>2 DEF Yield, YieldTo, Run
    <3>2. Head(readyList) \in Thread /\ t # Head(readyList)
      BY <2>1, <3>1, TailFacts
    <3>3. status[u] # "READY" => u = currentThread
      BY <2>1, <3>1, <3>2
    <3> QED
      BY <2>1, <3>1, <3>2, <3>3, YieldToKeepsOrder
  <2>3. CASE \E w \in Thread : Fork(w)
    <3>1. PICK w \in Thread : Fork(w)
      BY <2>3
    <3>2. PICK ready : ready = Insert(readyList, w, priority)
      OBVIOUS
    <3>3. /\ readyList' = Insert(Tail(ready), currentThread, priority)
          /\ status' = [[[status EXCEPT ![w] = "READY"]
                           EXCEPT ![currentThread] = "READY"]
                             EXCEPT ![Head(ready)] = "RUNNING"]
      BY <3>1, <3>2 DEF Fork, YieldTo, Run
    <3>4. /\ ready \in Seq(Thread) /\ ready # << >> /\ IsInList(ready, t)
          /\ Sorted(ready, priority)
      BY <2>1, <3>2, InsertFacts, InsertSorted
    <3>5. Head(ready) \in Thread /\ t # Head(ready)
      BY <2>1, <3>3, <3>4, TailFacts
    <3>6. status[u] # "READY" => u = currentThread \/ u = w
      BY <2>1, <3>3, <3>5
    <3>7. Precedes(readyList, t, u) => Precedes(ready, t, u)
      BY <2>1, <3>2, InsertKeepsOrder
    <3>8. u = w /\ priority[t] <= priority[u] => Precedes(ready, t, u)
      BY <2>1, <3>2, InsertGoesBehind
    <3> QED
      BY <2>1, <3>3, <3>4, <3>5, <3>6, <3>7, <3>8, YieldToKeepsOrder
  <2>4. CASE \E w \in Thread : Wake(w)
    <3>1. PICK w \in Thread : Wake(w)
      BY <2>4
    <3>2. /\ readyList' = Insert(readyList, w, priority)
          /\ status' = [status EXCEPT ![w] = "READY"]
      BY <3>1 DEF Wake
    <3>3. CASE Precedes(readyList, t, u)
      BY <2>1, <3>2, <3>3, InsertKeepsOrder
    <3>4. CASE status[u] # "READY" /\ priority[t] <= priority[u]
      <4>1. u = w
        BY <2>1, <3>2, <3>4
      <4> QED
        BY <2>1, <3>2, <3>4, <4>1, InsertGoesBehind
    <3> QED
      BY <3>3, <3>4
  <2>5. CASE Dispatch
    <3>1. /\ readyList # << >> /\ readyList' = Tail(readyList)
          /\ status' = [status EXCEPT ![Head(readyList)] = "RUNNING"]
      BY <2>5 DEF Dispatch, Run
    <3>2. Head(readyList) \in Thread /\ t # Head(readyList)
      BY <2>1, <3>1, TailFacts
    <3>3. status[u] = "READY"
      BY <2>1, <3>1, <3>2
    <3> QED
      BY <2>1, <3>1, <3>2, <3>3, TailKeepsOrder
  <2>6. CASE UNCHANGED readyList /\ \A w \in Thread :
               status'[w] = "READY" => status[w] = "READY"
    BY <2>6
  <2> QED
    BY <1>1, <2>1, <2>2, <2>3, <2>4, <2>5, <2>6
    DEF Next, CreateThread, SetPriority, Sleep, Finish, Idle, IdleReturn,
        CheckToBeDestroyed, Halt, Stopped, vars, sched
<1>2. IInv /\ [Next]_vars => [A]_vars
  BY <1>1
<1> QED
  BY <1>2, Invariance, PTL DEF Spec, FirstComeFirstServed
=============================================================================
