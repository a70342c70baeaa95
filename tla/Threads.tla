------------------------------ MODULE Threads ------------------------------
(***************************************************************************)
(* Kernel threads: the thread control block (threads/thread.cc), the       *)
(* scheduler (threads/scheduler.cc) and the thread manager                 *)
(* (threads/ThreadManager.cc).                                             *)
(*                                                                         *)
(* Nachos runs one kernel thread at a time on a simulated uniprocessor.    *)
(* The code of a thread between two kernel calls is not modelled: the      *)
(* running thread may make any of the calls below at any time, and while   *)
(* interrupts are on a device handler may run between any two of them.     *)
(* The kernel calls run with interrupts off and are atomic up to the place *)
(* where they leave the stack they run on (SWITCH) or wait for a device    *)
(* (Interrupt::Idle): "phase" is that place.                               *)
(*                                                                         *)
(* A thread is the address of its control block, so that a deleted thread  *)
(* is a dangling pointer and "new Thread" may reuse the address.           *)
(***************************************************************************)
EXTENDS Lists, Naturals, FiniteSets

CONSTANTS Thread,     \* addresses at which thread control blocks can live
          main,       \* the thread Kernel::Initialize makes of the caller
          NULL,       \* the null pointer
          Priority,   \* numbers setPriority is called with; low is urgent
          MaxThreads, \* THREAD_COUNT_MAX, 128 in the code
          Creators,   \* threads that call createThread; only main does
          ChildBound  \* bound of the model: children one thread ever has

ASSUME ThreadsAssumption ==
  /\ main \in Thread
  /\ NULL \notin Thread
  /\ Priority \subseteq Nat /\ 0 \in Priority
  /\ MaxThreads \in Nat /\ MaxThreads >= 2
  /\ Creators \subseteq Thread
  /\ ChildBound \in Nat

VARIABLES status,        \* Thread::status; "FREE" where no thread lives
          priority,      \* Thread::priority
          pid,           \* Thread::pid
          parent,        \* Thread::parent
          activeChild,   \* Thread::activeChild
          exitedChild,   \* Thread::exitedChild
          readyList,     \* Scheduler::readyList
          toBeDestroyed, \* Scheduler::toBeDestroyed
          currentThread, \* Kernel::currentThread
          threadList,    \* ThreadManager::threadList
          threadMap,     \* ThreadManager::threadMap
          threadCnt,     \* ThreadManager::threadCnt
          phase          \* where the kernel is, see below

tcb == <<priority, pid, parent, activeChild, exitedChild>>
sched == <<readyList, toBeDestroyed, currentThread>>
manager == <<threadList, threadMap, threadCnt>>
vars == <<status, tcb, sched, manager, phase>>

(* "run"      a thread executes, interrupts may come in                    *)
(* "sleep"    in the loop of Thread::Sleep, before FindNextToRun           *)
(* "idle"     in Interrupt::Idle, called from that loop                    *)
(* "switch"   SWITCH has returned on the next thread's stack; the call of  *)
(*            CheckToBeDestroyed is still to come                          *)
(* "halted"   Interrupt::Halt has deleted the kernel                       *)
(* "aborted"  an ASSERT has failed                                         *)
Phase == {"run", "sleep", "idle", "switch", "halted", "aborted"}
Status == {"FREE", "JUST_CREATED", "RUNNING", "READY", "BLOCKED", "ZOMMBIE"}
Live == {t \in Thread : status[t] # "FREE"}

(* Control goes on to place p unless one of the ASSERTs on the way fails.  *)
Proceed(p, asserts) == phase' = IF asserts THEN p ELSE "aborted"

-----------------------------------------------------------------------------
(* Kernel::Initialize: createThread("main") finds the bit map empty, adds  *)
(* no parent (threadCnt is not above 1) and the thread is set RUNNING.     *)
Init ==
  /\ status = [t \in Thread |-> IF t = main THEN "RUNNING" ELSE "FREE"]
  /\ priority = [t \in Thread |-> 0]
  /\ pid = [t \in Thread |-> IF t = main THEN 0 ELSE -1]
  /\ parent = [t \in Thread |-> NULL]
  /\ activeChild = [t \in Thread |-> << >>]
  /\ exitedChild = [t \in Thread |-> << >>]
  /\ readyList = << >>
  /\ toBeDestroyed = NULL
  /\ currentThread = main
  /\ threadList = <<main>>
  /\ threadMap = {0}
  /\ threadCnt = 1
  /\ phase = "run"

(* ThreadManager::createThread called by the running thread; operator new  *)
(* returns any address t that is not in use, a deleted thread's included.  *)
CreateThread(t) ==
  /\ phase = "run"
  /\ currentThread \in Creators
  /\ status[t] = "FREE"
  /\ Len(activeChild[currentThread]) + Len(exitedChild[currentThread])
       < ChildBound
  /\ threadCnt + 1 < MaxThreads
  /\ threadCnt' = threadCnt + 1
  /\ threadMap' = FindAndSet(threadMap, MaxThreads)
  /\ pid' = [pid EXCEPT ![t] = FindClear(threadMap, MaxThreads)]
  /\ status' = [status EXCEPT ![t] = "JUST_CREATED"]
  /\ priority' = [priority EXCEPT ![t] = 0]
  /\ parent' = [parent EXCEPT ![t] = currentThread]
  /\ activeChild' = [activeChild EXCEPT ![t] = << >>,
                       ![currentThread] = Append(@, t)]
  /\ exitedChild' = [exitedChild EXCEPT ![t] = << >>]
  /\ threadList' = Append(threadList, t)
  /\ UNCHANGED <<sched, phase>>

(* Thread::setPriority does not touch the ready list.  It is called on the *)
(* running thread and on threads it has created and not yet forked.        *)
SetPriority(t, p) ==
  /\ phase = "run"
  /\ \/ t = currentThread
     \/ status[t] = "JUST_CREATED" /\ parent[t] = currentThread
  /\ priority' = [priority EXCEPT ![t] = p]
  /\ UNCHANGED <<status, pid, parent, activeChild, exitedChild, sched,
                 manager, phase>>

(* Mistake: a finishing thread is not remembered. *)
RunForgetsZombie(next, finishing, st, asserts) ==
  /\ currentThread' = next
  /\ status' = [st EXCEPT ![next] = "RUNNING"]
  /\ Proceed("switch", asserts)
  /\ UNCHANGED toBeDestroyed

(* Scheduler::Run up to SWITCH: the processor goes from the running thread *)
(* to next, which has just been taken off the ready list.  "st" are the    *)
(* statuses, "asserts" the assertions made before.                         *)
Run(next, finishing, st, asserts) ==
  /\ toBeDestroyed' = IF finishing THEN currentThread ELSE toBeDestroyed
  /\ currentThread' = next
  /\ status' = [st EXCEPT ![next] = "RUNNING"]
  /\ Proceed("switch", asserts /\ (finishing => toBeDestroyed = NULL))

(* Thread::Yield once FindNextToRun has found a thread: the ready list is  *)
(* "ready" when it looks.  The caller goes back on the list after the next *)
(* thread has been taken off it.                                           *)
YieldTo(ready, st, asserts) ==
  /\ readyList' = Insert(Tail(ready), currentThread, priority)
  /\ Run(Head(ready), FALSE, [st EXCEPT ![currentThread] = "READY"],
         asserts /\ ~IsInList(Tail(ready), currentThread))

(* Thread::Yield; with an empty ready list it returns at once. *)
Yield ==
  /\ phase = "run"
  /\ readyList # << >>
  /\ YieldTo(readyList, status, TRUE)
  /\ UNCHANGED <<tcb, manager>>

(* Thread::Fork: the new thread becomes ready and the caller yields. *)
Fork(t) ==
  /\ phase = "run"
  /\ status[t] = "JUST_CREATED"
  /\ parent[t] = currentThread
  /\ YieldTo(Insert(readyList, t, priority),
             [status EXCEPT ![t] = "READY"], ~IsInList(readyList, t))
  /\ UNCHANGED <<tcb, manager>>

(* Thread::Sleep(FALSE), called by Semaphore::P. *)
Sleep ==
  /\ phase = "run"
  /\ status' = [status EXCEPT ![currentThread] = "BLOCKED"]
  /\ phase' = "sleep"
  /\ UNCHANGED <<tcb, sched, manager>>

(* Mistake: the child stays in the list of active children. *)
ChildThreadExitKeeps(p, child) ==
  /\ exitedChild' = [exitedChild EXCEPT ![p] = Append(@, child)]
  /\ phase' = "sleep"
  /\ UNCHANGED activeChild

(* Thread::childThreadExit run on the control block at address p.  When p  *)
(* has been deleted the lists it follows are freed memory: reading them    *)
(* may crash, or do no harm to any live thread.                            *)
ChildThreadExit(p, child) ==
  IF status[p] = "FREE"
  THEN \E survives \in BOOLEAN :
         /\ Proceed("sleep", survives)
         /\ UNCHANGED <<activeChild, exitedChild>>
  ELSE /\ Proceed("sleep", RemoveAsserts(activeChild[p], child))
       /\ activeChild' = [activeChild EXCEPT ![p] = RemoveItem(@, child)]
       /\ exitedChild' = [exitedChild EXCEPT ![p] = Append(@, child)]

(* Thread::Finish, called by ThreadRoot when the forked function returns;  *)
(* it ends in Sleep(TRUE), which leaves the status alone.  The main thread *)
(* has no ThreadRoot: it ends in Interrupt::Halt.                          *)
Finish ==
  /\ phase = "run"
  /\ currentThread # main
  /\ status' = [status EXCEPT ![currentThread] = "ZOMMBIE"]
  /\ ChildThreadExit(parent[currentThread], currentThread)
  /\ UNCHANGED <<priority, pid, parent, sched, manager>>

(* Mistake: the next thread is looked at but not taken off the list. *)
DispatchFront ==
  /\ phase = "sleep"
  /\ readyList # << >>
  /\ Run(Head(readyList), status[currentThread] = "ZOMMBIE", status, TRUE)
  /\ UNCHANGED <<readyList, tcb, manager>>

(* The loop of Thread::Sleep has found a thread; the sleeper itself, when  *)
(* it was woken while the machine was idle.                                *)
Dispatch ==
  /\ phase = "sleep"
  /\ readyList # << >>
  /\ readyList' = Tail(readyList)
  /\ Run(Head(readyList), status[currentThread] = "ZOMMBIE", status, TRUE)
  /\ UNCHANGED <<tcb, manager>>

(* ... or it has found none and calls Interrupt::Idle, ... *)
Idle ==
  /\ phase = "sleep"
  /\ readyList = << >>
  /\ phase' = "idle"
  /\ UNCHANGED <<status, tcb, sched, manager>>

(* Mistake: Interrupt::Idle waits for the next interrupt for ever. *)
IdleNeverReturns ==
  /\ phase = "idle"
  /\ UNCHANGED vars

(* ... which returns after CheckIfDue has run every handler that is due.   *)
(* The timer always has an interrupt pending, so that it does return.      *)
IdleReturn ==
  /\ phase = "idle"
  /\ phase' = "sleep"
  /\ UNCHANGED <<status, tcb, sched, manager>>

(* Mistake: a thread is woken although it has been woken before. *)
WakeTwice(t) ==
  /\ phase \in {"run", "idle"}
  /\ status[t] \in {"BLOCKED", "READY"}
  /\ status' = [status EXCEPT ![t] = "READY"]
  /\ readyList' = Insert(readyList, t, priority)
  /\ Proceed(phase, ~IsInList(readyList, t))
  /\ UNCHANGED <<tcb, toBeDestroyed, currentThread, manager>>

(* Scheduler::ReadyToRun on a sleeping thread, from Semaphore::V: called   *)
(* by the running thread, or by a device handler that interrupts it or     *)
(* that runs while the machine is idle.                                    *)
Wake(t) ==
  /\ phase \in {"run", "idle"}
  /\ status[t] = "BLOCKED"
  /\ status' = [status EXCEPT ![t] = "READY"]
  /\ readyList' = Insert(readyList, t, priority)
  /\ Proceed(phase, ~IsInList(readyList, t))
  /\ UNCHANGED <<tcb, toBeDestroyed, currentThread, manager>>

(* Mistake: the pid of a deleted thread is not given back. *)
CheckToBeDestroyedKeepsPid ==
  /\ phase = "switch"
  /\ phase' = "run"
  /\ toBeDestroyed' = NULL
  /\ IF toBeDestroyed = NULL
     THEN UNCHANGED <<status, threadCnt, threadList>>
     ELSE /\ threadCnt' = threadCnt - 1
          /\ threadList' = RemoveItem(threadList, toBeDestroyed)
          /\ status' = [status EXCEPT ![toBeDestroyed] = "FREE"]
  /\ UNCHANGED <<threadMap, tcb, readyList, currentThread>>

(* The second half of a context switch, on the stack of the thread now     *)
(* running (Scheduler::Run after SWITCH, or Thread::Begin on a new stack): *)
(* CheckToBeDestroyed, with deleteThread and the destructor.               *)
CheckToBeDestroyed ==
  /\ phase = "switch"
  /\ toBeDestroyed' = NULL
  /\ LET t == toBeDestroyed
     IN  IF t = NULL
         THEN phase' = "run" /\ UNCHANGED <<status, manager>>
         ELSE /\ threadCnt' = threadCnt - 1
              /\ threadMap' = threadMap \ {pid[t]}
              /\ threadList' = RemoveItem(threadList, t)
              /\ status' = [status EXCEPT ![t] = "FREE"]
              /\ Proceed("run", /\ pid[t] \in 0..(MaxThreads - 1)
                                /\ RemoveAsserts(threadList, t)
                                /\ t # currentThread)
  /\ UNCHANGED <<tcb, readyList, currentThread>>

(* Interrupt::Halt, called at the end of main() or for the Halt system     *)
(* call, both on the main thread.                                          *)
Halt ==
  /\ phase = "run"
  /\ currentThread = main
  /\ phase' = "halted"
  /\ UNCHANGED <<status, tcb, sched, manager>>

(* Nothing happens after the process has exited. *)
Stopped == phase \in {"halted", "aborted"} /\ UNCHANGED vars

Relinquish == Yield \/ Sleep \/ Finish

Next ==
  \/ \E t \in Thread : CreateThread(t)
  \/ \E t \in Thread, p \in Priority : SetPriority(t, p)
  \/ \E t \in Thread : Fork(t)
  \/ Yield
  \/ Sleep
  \/ Finish
  \/ Dispatch
  \/ Idle
  \/ IdleReturn
  \/ \E t \in Thread : Wake(t)
  \/ CheckToBeDestroyed
  \/ Halt
  \/ Stopped

Spec == Init /\ [][Next]_vars

(* The simulator never stops between two instructions of the kernel, and   *)
(* simulated devices go on interrupting an idle machine.                   *)
KernelFairness ==
  /\ WF_vars(Dispatch) /\ WF_vars(CheckToBeDestroyed)
  /\ WF_vars(Idle) /\ WF_vars(IdleReturn)

FairSpec == Spec /\ KernelFairness

(* Threads are scheduled co-operatively: in addition every thread gives up *)
(* the processor after a while.                                            *)
CooperativeSpec == FairSpec /\ WF_vars(Relinquish)

-----------------------------------------------------------------------------
(* ThreadManager::getThreadPtr: NULL when the bit is clear, otherwise the  *)
(* first thread of threadList with that pid (NULL when there is none).     *)
GetThreadPtr(id) ==
  LET i == SelectInSeq(threadList, LAMBDA t : pid[t] = id)
  IN  IF id \notin threadMap \/ i = 0 THEN NULL ELSE threadList[i]

(* Type invariant. *)
TypeOK ==
  /\ status \in [Thread -> Status]
  /\ priority \in [Thread -> Priority]
  /\ pid \in [Thread -> Int]
  /\ parent \in [Thread -> Thread \union {NULL}]
  /\ activeChild \in [Thread -> Seq(Thread)]
  /\ exitedChild \in [Thread -> Seq(Thread)]
  /\ readyList \in Seq(Thread)
  /\ toBeDestroyed \in Thread \union {NULL}
  /\ currentThread \in Thread
  /\ threadList \in Seq(Thread)
  /\ threadMap \subseteq 0..(MaxThreads - 1)
  /\ threadCnt \in Int
  /\ phase \in Phase

(* No ASSERT of the thread system fails: nothing is inserted into the      *)
(* ready list twice, no second zombie is queued while one is still to be   *)
(* deleted, a thread never deletes itself, and the lists of threads and of *)
(* children hold what Finish and deleteThread take off them.               *)
NoAbort == phase # "aborted"

(* The ready list is exactly the set of READY threads, each once: no       *)
(* thread is lost by Yield, Fork, Wake and Run, and none can run twice.    *)
ReadyListInv ==
  /\ IsInjective(readyList)
  /\ \A t \in Thread : IsInList(readyList, t) <=> status[t] = "READY"

(* Thread code runs only as the one RUNNING thread, currentThread; the     *)
(* loop of Sleep runs on the stack of a thread that is off the processor   *)
(* as far as its status goes, but never on the stack of a deleted one.     *)
OneRunning ==
  /\ \A t \in Thread : status[t] = "RUNNING" => t = currentThread
  /\ phase \in {"run", "switch"} => status[currentThread] = "RUNNING"
  /\ phase \in {"sleep", "idle"} =>
       status[currentThread] \in {"BLOCKED", "READY", "ZOMMBIE"}

(* Scheduler::CheckToBeDestroyed deletes every thread that has finished    *)
(* before any thread code runs again: a ZOMMBIE is either still in its own *)
(* call of Sleep or is the one thread in toBeDestroyed.                    *)
ZombieInv ==
  /\ \A t \in Thread : status[t] = "ZOMMBIE" =>
       IF phase \in {"sleep", "idle"} THEN t = currentThread
                                      ELSE t = toBeDestroyed
  /\ toBeDestroyed # NULL =>
       /\ phase = "switch"
       /\ status[toBeDestroyed] = "ZOMMBIE"

(* The three records the thread manager keeps of the live threads agree:   *)
(* threadCnt counts them, threadMap holds their pids, and getThreadPtr     *)
(* maps the pid of every live thread back to that thread.                  *)
ThreadTableInv ==
  /\ threadCnt = Cardinality(Live)
  /\ threadMap = {pid[t] : t \in Live}
  /\ \A t \in Live : GetThreadPtr(pid[t]) = t

(* Every thread but main has a live parent that lists it as an active      *)
(* child exactly until it finishes.                                        *)
FamilyInv ==
  \A t \in Live \ {main} :
    /\ parent[t] \in Live
    /\ IsInList(activeChild[parent[t]], t) <=> status[t] # "ZOMMBIE"
    /\ \A p \in Live \ {parent[t]} : ~IsInList(activeChild[p], t)

(* Scheduler::FindNextToRun: when the processor changes hands no thread    *)
(* that is left waiting is more urgent than the one that gets it, although *)
(* setPriority does not sort the list again.                               *)
PriorityDispatch ==
  [][currentThread' # currentThread =>
       \A t \in Thread : status[t] = "READY" =>
         priority[currentThread'] <= priority[t]]_vars

(* t is in front of u in a list. *)
Precedes(list, t, u) ==
  \E i, j \in DOMAIN list : i < j /\ list[i] = t /\ list[j] = u

(* Threads of equal priority are served first come, first served: a thread *)
(* that becomes ready never gets in front of one that already was, unless  *)
(* it is more urgent, and waiting threads never change places.             *)
FirstComeFirstServed ==
  [][\A t, u \in Thread :
       /\ status[t] = "READY" /\ status'[t] = "READY"
       /\ status'[u] = "READY" /\ t # u
       /\ \/ Precedes(readyList, t, u)
          \/ status[u] # "READY" /\ priority[t] <= priority[u]
       => Precedes(readyList', t, u)]_vars

(* A ready thread that no other can be more urgent than runs again after a *)
(* while, however the other threads yield, sleep, finish and wake up.      *)
UrgentReturns ==
  \A t \in Thread :
    status[t] = "READY" /\ (\A p \in Priority : priority[t] <= p)
      ~> status[t] = "RUNNING" \/ phase = "halted"
=============================================================================
