----------------------------- MODULE Interrupt -----------------------------
(***************************************************************************)
(* Interrupts and simulated time (machine/interrupt.cc) with the timer     *)
(* (machine/timer.cc) and the polling devices, and the interrupt level     *)
(* that threads save and restore around every critical section of the      *)
(* kernel and across context switches.                                     *)
(*                                                                         *)
(* Time passes only when interrupts are enabled and with every user        *)
(* instruction (OneTick), and when the machine is idle.  The moment at     *)
(* which a pending interrupt is due is kept relative to the clock, as      *)
(* due[d]: 0 or less is due.  A device has at most one interrupt pending,  *)
(* as the modules of the devices show.                                     *)
(*                                                                         *)
(* Handlers run on the stack of the thread they interrupt.  What they do   *)
(* besides scheduling the next interrupt is to call V, which saves and     *)
(* restores the level.                                                     *)
(***************************************************************************)
EXTENDS Integers, Sequences, FiniteSets, Lists

CONSTANTS Thread, main, NULL,
          Device,
          Periodic,   \* devices that always interrupt again: the timer
          Polling,    \* devices that may: the console's keyboard
          Delay,      \* ticks from Schedule to the interrupt, a set each
          SystemTick, \* what OneTick adds to the clock in system mode,
          UserTick,   \* and in user mode
          NestBound   \* bound of the model: nested critical sections

InterruptAssumption ==
  /\ main \in Thread
  /\ NULL \notin Device \union {"OneTick", "Idle"}
  /\ IsFiniteSet(Device)
  /\ Periodic \subseteq Device /\ Periodic # {}
  /\ Polling \subseteq Device
  /\ Periodic \intersect Polling = {}
  /\ Delay \in [Device -> SUBSET (Nat \ {0})]
  /\ \A d \in Device : Delay[d] # {}
  /\ SystemTick \in Nat \ {0}
  /\ UserTick \in Nat \ {0} /\ UserTick <= SystemTick
  /\ NestBound \in Nat \ {0}

VARIABLES level,         \* Interrupt::level, "IntOn" or "IntOff"
          status,        \* Interrupt::status
          pending,       \* Interrupt::pending, by device
          due,           \* device -> ticks until its interrupt is due
          inHandler,     \* Interrupt::inHandler
          checking,      \* the caller of CheckIfDue, or NULL
          handling,      \* the device whose CallBack runs, or NULL
          inCallBack,    \* levels the CallBack has saved
          currentThread,
          saved,         \* thread -> levels it has saved, latest first
          started,       \* threads that have run
          booting,       \* Kernel::Initialize has not enabled interrupts yet
          machine        \* "up", "halted", or "aborted" by an ASSERT

threads == <<currentThread, saved, started, booting>>
vars == <<level, status, pending, due, inHandler, checking, handling,
          inCallBack, threads, machine>>

Init ==
  /\ level = "IntOff"
  /\ status = "SystemMode"
  /\ due \in [Device -> UNION {Delay[d] : d \in Device} \union {0}]
  /\ \A d \in Device :
       due[d] \in IF d \in Periodic \union Polling THEN Delay[d] ELSE {0}
  /\ pending \in SetToSeqs(Periodic \union Polling)
  /\ \A i, j \in DOMAIN pending : i <= j => due[pending[i]] <= due[pending[j]]
  /\ inHandler = FALSE
  /\ checking = NULL
  /\ handling = NULL
  /\ inCallBack = 0
  /\ currentThread = main
  /\ saved = [t \in Thread |-> << >>]
  /\ started = {main}
  /\ booting = TRUE
  /\ machine = "up"

-----------------------------------------------------------------------------
(* The running thread executes code of its own or of the kernel. *)
InCode == machine = "up" /\ checking = NULL
InKernel == InCode /\ status = "SystemMode"

(* The clock goes on by n ticks. *)
Advance(n) ==
  due' = [d \in Device |-> IF IsInList(pending, d) THEN due[d] - n ELSE due[d]]

(* Interrupt::OneTick up to CheckIfDue(FALSE), which runs with interrupts  *)
(* off.                                                                    *)
OneTick ==
  /\ Advance(IF status = "SystemMode" THEN SystemTick ELSE UserTick)
  /\ level' = "IntOff"
  /\ checking' = "OneTick"
  /\ UNCHANGED <<pending, inHandler>>

(* Interrupt::SetLevel(now) when the level is "old".                       *)
SetLevel(now, old) ==
  /\ machine' = IF now = "IntOff" \/ ~inHandler THEN "up" ELSE "aborted"
  /\ IF now = "IntOn" /\ old = "IntOff" THEN OneTick
     ELSE level' = now /\ UNCHANGED <<pending, due, inHandler, checking>>

(* A critical section begins: oldLevel = SetLevel(IntOff), in a thread or  *)
(* in a handler.                                                           *)
Disable ==
  /\ InKernel \/ (machine = "up" /\ handling # NULL)
  /\ Len(saved[currentThread]) < NestBound
  /\ saved' = [saved EXCEPT ![currentThread] = <<level>> \o @]
  /\ inCallBack' = inCallBack + (IF handling # NULL THEN 1 ELSE 0)
  /\ SetLevel("IntOff", level)
  /\ UNCHANGED <<status, handling, currentThread, started, booting>>

(* Mistake: interrupts are enabled whatever they were before. *)
RestoreOn ==
  /\ InKernel \/ (machine = "up" /\ inCallBack > 0)
  /\ saved[currentThread] # << >>
  /\ saved' = [saved EXCEPT ![currentThread] = Tail(@)]
  /\ inCallBack' = inCallBack - (IF handling # NULL THEN 1 ELSE 0)
  /\ SetLevel("IntOn", level)
  /\ UNCHANGED <<status, handling, currentThread, started, booting>>

(* It ends: SetLevel(oldLevel). *)
Restore ==
  /\ InKernel \/ (machine = "up" /\ inCallBack > 0)
  /\ saved[currentThread] # << >>
  /\ saved' = [saved EXCEPT ![currentThread] = Tail(@)]
  /\ inCallBack' = inCallBack - (IF handling # NULL THEN 1 ELSE 0)
  /\ SetLevel(Head(saved[currentThread]), level)
  /\ UNCHANGED <<status, handling, currentThread, started, booting>>

(* interrupt->Enable() at the end of Kernel::Initialize. *)
Boot ==
  /\ InKernel
  /\ booting
  /\ currentThread = main
  /\ saved[main] = << >>
  /\ booting' = FALSE
  /\ SetLevel("IntOn", level)
  /\ UNCHANGED <<status, handling, inCallBack, currentThread, saved, started>>

(* Scheduler::Run, in a critical section: a thread that has run before     *)
(* goes on in the critical section that it was switched out of, *)
Switch(t) ==
  /\ InKernel
  /\ level = "IntOff" /\ saved[currentThread] # << >>
  /\ t \in started \ {currentThread}
  /\ currentThread' = t
  /\ UNCHANGED <<level, status, pending, due, inHandler, checking, handling,
                 inCallBack, saved, started, booting, machine>>

(* a new one begins with Enable() in Thread::Begin.  Kernel::Initialize    *)
(* forks the postal worker, but does not sleep after that.                 *)
Begin(t) ==
  /\ InKernel
  /\ ~booting
  /\ level = "IntOff" /\ saved[currentThread] # << >>
  /\ t \in Thread \ started
  /\ currentThread' = t
  /\ started' = started \union {t}
  /\ SetLevel("IntOn", level)
  /\ UNCHANGED <<status, handling, inCallBack, saved, booting>>

-----------------------------------------------------------------------------
(* Machine::Run and the return from an exception, *)
EnterUser ==
  /\ InKernel
  /\ level = "IntOn" /\ saved[currentThread] = << >>
  /\ status' = "UserMode"
  /\ UNCHANGED <<level, pending, due, inHandler, checking, handling,
                 inCallBack, threads, machine>>

(* an instruction of the user program, *)
UserInstruction ==
  /\ InCode
  /\ status = "UserMode"
  /\ OneTick
  /\ UNCHANGED <<status, handling, inCallBack, threads, machine>>

(* Machine::RaiseException. *)
RaiseException ==
  /\ InCode
  /\ status = "UserMode"
  /\ status' = "SystemMode"
  /\ UNCHANGED <<level, pending, due, inHandler, checking, handling,
                 inCallBack, threads, machine>>

-----------------------------------------------------------------------------
(* Interrupt::Schedule(fromNow): insertion into the sorted list. *)
Schedule(d, fromNow) ==
  LET newDue == [due EXCEPT ![d] = fromNow] IN
  /\ due' = newDue
  /\ pending' = Insert(pending, d, newDue)

(* Kernel code makes a request to a device that is not busy. *)
Request(d, fromNow) ==
  /\ InKernel
  /\ d \notin Periodic
  /\ ~IsInList(pending, d)
  /\ Schedule(d, fromNow)
  /\ UNCHANGED <<level, status, inHandler, checking, handling, inCallBack,
                 threads, machine>>

(* Interrupt::Idle up to the first handler: CheckIfDue(TRUE) moves the     *)
(* clock to the next interrupt; with none pending the machine halts.       *)
Idle ==
  /\ InKernel
  /\ level = "IntOff" /\ saved[currentThread] # << >>
  /\ IF pending = << >>
     THEN machine' = "halted" /\ UNCHANGED <<status, due, checking>>
     ELSE /\ Advance(due[Head(pending)])
          /\ status' = "IdleMode"
          /\ checking' = "Idle"
          /\ UNCHANGED machine
  /\ UNCHANGED <<level, pending, inHandler, handling, inCallBack, threads>>

Due == pending # << >> /\ due[Head(pending)] <= 0

(* CheckIfDue takes the first interrupt off the list and calls its         *)
(* handler, ...                                                            *)
Fire ==
  /\ machine = "up" /\ checking # NULL /\ handling = NULL
  /\ Due
  /\ pending' = Tail(pending)
  /\ handling' = Head(pending)
  /\ due' = [due EXCEPT ![Head(pending)] = 0]
  /\ inHandler' = TRUE
  /\ UNCHANGED <<level, status, checking, inCallBack, threads, machine>>

(* Mistake: the timer is not set again. *)
ReturnsOnce(again, fromNow) ==
  /\ machine = "up" /\ handling # NULL /\ inCallBack = 0
  /\ fromNow \in Delay[handling]
  /\ again => handling \in Polling
  /\ IF again THEN Schedule(handling, fromNow) ELSE UNCHANGED <<pending, due>>
  /\ handling' = NULL
  /\ UNCHANGED <<level, status, inHandler, checking, inCallBack, threads,
                 machine>>

(* ... which schedules the next interrupt of its device or not and         *)
(* returns, ...                                                            *)
CallBackReturns(again, fromNow) ==
  /\ machine = "up" /\ handling # NULL /\ inCallBack = 0
  /\ fromNow \in Delay[handling]
  /\ handling \in Periodic => again
  /\ again => handling \in Periodic \union Polling
  /\ IF again THEN Schedule(handling, fromNow) ELSE UNCHANGED <<pending, due>>
  /\ handling' = NULL
  /\ UNCHANGED <<level, status, inHandler, checking, inCallBack, threads,
                 machine>>

(* Mistake: one handler at most is called. *)
CheckedOne ==
  /\ machine = "up" /\ checking # NULL /\ handling = NULL
  /\ inHandler \/ ~Due
  /\ inHandler' = FALSE
  /\ checking' = NULL
  /\ level' = IF checking = "OneTick" THEN "IntOn" ELSE level
  /\ status' = IF checking = "Idle" THEN "SystemMode" ELSE status
  /\ UNCHANGED <<pending, due, handling, inCallBack, threads, machine>>

(* ... until no more are due.  OneTick enables interrupts again; it would  *)
(* also yield, if Alarm::CallBack asked for it.                            *)
Checked ==
  /\ machine = "up" /\ checking # NULL /\ handling = NULL
  /\ ~Due
  /\ inHandler' = FALSE
  /\ checking' = NULL
  /\ level' = IF checking = "OneTick" THEN "IntOn" ELSE level
  /\ status' = IF checking = "Idle" THEN "SystemMode" ELSE status
  /\ UNCHANGED <<pending, due, handling, inCallBack, threads, machine>>

Next ==
  \/ Disable
  \/ Restore
  \/ Boot
  \/ \E t \in Thread : Switch(t)
  \/ \E t \in Thread : Begin(t)
  \/ EnterUser
  \/ UserInstruction
  \/ RaiseException
  \/ \E d \in Device : \E n \in Delay[d] : Request(d, n)
  \/ Idle
  \/ Fire
  \/ \E again \in BOOLEAN : \E n \in UNION {Delay[d] : d \in Device} :
       CallBackReturns(again, n)
  \/ Checked

Spec == Init /\ [][Next]_vars

-----------------------------------------------------------------------------
(* Type invariant. *)
TypeOK ==
  /\ level \in {"IntOn", "IntOff"}
  /\ status \in {"SystemMode", "UserMode", "IdleMode"}
  /\ pending \in Seq(Device)
  /\ due \in [Device -> Int]
  /\ inHandler \in BOOLEAN
  /\ checking \in {"OneTick", "Idle", NULL}
  /\ handling \in Device \union {NULL}
  /\ inCallBack \in Nat
  /\ currentThread \in Thread
  /\ saved \in [Thread -> Seq({"IntOn", "IntOff"})]
  /\ started \subseteq Thread
  /\ booting \in BOOLEAN
  /\ machine \in {"up", "halted", "aborted"}

(* "Arrange for the CPU to be interrupted when simulated time reaches now  *)
(* + when": no code runs while an interrupt is due, interrupts are handled *)
(* in the order of their times, and none is later than the last tick.      *)
OnTime ==
  /\ checking = NULL => \A i \in DOMAIN pending : due[pending[i]] > 0
  /\ \A i \in DOMAIN pending : due[pending[i]] > -SystemTick
  /\ \A i, j \in DOMAIN pending : i <= j => due[pending[i]] <= due[pending[j]]

(* A periodic device always has its next interrupt pending, once, except   *)
(* while its handler runs, so that Interrupt::Idle never finds the list    *)
(* empty and never halts the machine.                                      *)
TimerPending ==
  /\ \A d \in Periodic : IsInList(pending, d) <=> handling # d
  /\ IsInjective(pending)
  /\ machine # "halted"

(* Interrupts are handled in time and in order, and the timer never stops. *)
HandledOnTime == OnTime /\ TimerPending

(* Interrupts are off in every critical section, in handlers and in the    *)
(* scheduler, and every thread gets back the level it had, through nested  *)
(* sections, handlers on its stack and switches to other threads; no       *)
(* handler enables interrupts.  Only main, until it has initialized the    *)
(* kernel, runs its own code with interrupts off.                          *)
LevelRestored ==
  /\ machine # "aborted"
  /\ checking # NULL => level = "IntOff"
  /\ checking = NULL =>
       (level = "IntOff" <=> \/ saved[currentThread] # << >>
                             \/ booting /\ currentThread = main)
  /\ \A t \in started \ {currentThread} : saved[t] # << >>
  /\ \A t \in Thread : \A i \in DOMAIN saved[t] :
       saved[t][i] = "IntOn" <=>
         /\ i = Len(saved[t])
         /\ ~(booting /\ t = main)
         /\ ~(t = currentThread /\ inCallBack = i)
=============================================================================
