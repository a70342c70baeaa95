------------------------------- MODULE Kernel -------------------------------
(***************************************************************************)
(* Starting and stopping Nachos: main, Kernel::Initialize, Kernel::~Kernel *)
(* and the constructors and destructors they call, over the files of the   *)
(* host that outlive the process.  The program of a process is a sequence  *)
(* of steps; a step makes objects and uses others through the global       *)
(* kernel.  A device schedules its first interrupt in its constructor, so  *)
(* that its handler runs as soon as interrupts are enabled or the machine  *)
(* idles.  A process is killed at any point (kill, or ctl-C before main    *)
(* has installed Cleanup), and is started again.                           *)
(***************************************************************************)
EXTENDS Naturals, Sequences

CONSTANT MaxStarts  \* bound of the model: processes started

VARIABLES
  stub,      \* the build: FILESYS_STUB
  process,   \* "none", "runs", "deletes" (inside ~Kernel)
  program,   \* the steps main has left
  made,      \* the objects that exist
  level,     \* Interrupt::level
  idles,     \* the running thread sleeps, so that the machine idles
  pending,   \* devices with a scheduled interrupt
  onAbort,   \* ctl-C calls Cleanup
  disk,      \* DISK_n: "absent", "empty", "magic" (too short), "complete"
  sockName,  \* SOCKET_n exists
  end,       \* how the last process ended
  spoiled,   \* a process was killed while it was making the disk
  starts

memory == <<program, made, level, idles, pending, onAbort>>
host == <<disk, sockName>>
vars == <<stub, process, memory, host, end, spoiled, starts>>

-----------------------------------------------------------------------------
(* The steps of the constructors.  does is an effect outside the object.   *)
Step(makes, uses, does) == [makes |-> makes, uses |-> uses, does |-> does]
Makes(object) == <<Step({object}, {}, "nothing")>>

NewThreadManager == Makes("threadManager")
(* createThread("main"); setStatus(RUNNING) *)
MainThread == <<Step({"currentThread"}, {"threadManager"}, "nothing")>>
NewStatistics == Makes("stats")
(* Mistake: interrupts start enabled. *)
NewInterruptEnabled == <<Step({"interrupt"}, {}, "enable")>>
(* Interrupts start disabled, with none pending. *)
NewInterrupt == <<Step({"interrupt"}, {}, "disable")>>
NewScheduler == Makes("scheduler")

(* Interrupt::Schedule reads kernel->stats. *)
Schedule(device) == <<Step({}, {"interrupt", "stats"}, device)>>

(* Timer::Timer schedules before Alarm::Alarm has stored it. *)
NewAlarm == Schedule("timer") \o Makes("alarm")
NewMachine == Makes("machine")
(* The device is scheduled before lock and waitFor exist. *)
NewConsoleInput == Schedule("console")
NewSynchConsoleIn ==
  NewConsoleInput \o Makes("consoleInLock") \o Makes("consoleInWaitFor")
                  \o Makes("synchConsoleIn")
(* The other devices are scheduled when something is asked of them. *)
NewConsoleOutput == Makes("display")
NewSynchConsoleOut ==
  NewConsoleOutput \o Makes("consoleOutWaitFor") \o Makes("synchConsoleOut")
(* Disk::Disk: open and check the file, or make it in three steps. *)
NewDisk ==
  <<Step({}, {}, "openDisk"), Step({}, {}, "writeMagic"),
    Step({}, {}, "extendDisk")>> \o Makes("disk")
NewSynchDisk == Makes("diskSemaphore") \o NewDisk \o Makes("synchDisk")
(* The file system proper reads and writes sectors and so waits for the    *)
(* disk's interrupts; the stub has no state.                               *)
NewFileSystem ==
  (IF stub THEN << >>
   ELSE <<Step({}, {"synchDisk", "scheduler", "interrupt", "stats"},
               "readDisk")>>)
  \o Makes("fileSystem")
(* Mistake: AssignNameToSocket does not unlink the name. *)
NewNetworkInputNoUnlink ==
  <<Step({}, {}, "bindName")>> \o Schedule("network")
(* The name is unlinked, in case it is left from last time, and bound. *)
NewNetworkInput ==
  <<Step({}, {}, "unlinkName"), Step({}, {}, "bindName")>>
  \o Schedule("network")
(* Fork runs the postal worker at once: Begin enables interrupts, and the  *)
(* worker waits for messageAvailable, which returns to main.               *)
NewPostOfficeIn ==
  Makes("messageAvailable") \o Makes("boxes") \o NewNetworkInput
  \o <<Step({"postalWorker"},
            {"threadManager", "currentThread", "scheduler", "interrupt"},
            "enable"),
       Step({}, {"messageAvailable", "scheduler", "interrupt"}, "disable")>>
  \o Makes("postOfficeIn")
NewNetworkOutput == Makes("networkOutput")
NewPostOfficeOut ==
  Makes("messageSent") \o NewNetworkOutput \o Makes("postOfficeOut")
NewMemoryManager == Makes("memoryManager")

(* Kernel::Initialize *)
Initialize ==
  NewThreadManager \o MainThread \o NewStatistics \o NewInterrupt
  \o NewScheduler \o NewAlarm \o NewMachine \o NewSynchConsoleIn
  \o NewSynchConsoleOut \o NewSynchDisk \o NewFileSystem \o NewPostOfficeIn
  \o NewPostOfficeOut \o NewMemoryManager
  \o <<Step({}, {"interrupt", "stats", "memoryManager"}, "enable")>>

-----------------------------------------------------------------------------
(* What main does after Initialize, for the flags of the command line. *)
ThreadSelfTest == {"currentThread", "threadManager", "scheduler", "interrupt"}
ConsoleTest == {"synchConsoleIn", "synchConsoleOut"}
NetworkTest == {"postOfficeIn", "postOfficeOut"}
Execute == {"currentThread", "machine"}
UserProgram == {"memoryManager", "fileSystem"} \union Execute

Optional(flag, flags, uses) ==
  IF flag \in flags THEN <<Step({}, uses, "wait")>> ELSE << >>

Flag == {"-K", "-C", "-N", "-x"}

(* main: a user program never returns; otherwise main halts the machine. *)
Main(flags) ==
  Initialize \o <<Step({}, {}, "CallOnUserAbort")>>
  \o Optional("-K", flags, ThreadSelfTest)
  \o Optional("-C", flags, ConsoleTest)
  \o Optional("-N", flags, NetworkTest)
  \o Optional("-x", flags, UserProgram)
  \o <<Step({}, {"stats"}, "halt")>>

(* Kernel::~Kernel: the objects in the order of their deletion. *)
Deletes ==
  <<"stats", "interrupt", "scheduler", "alarm", "machine", "synchConsoleIn",
    "synchConsoleOut", "synchDisk", "fileSystem", "postOfficeIn",
    "postOfficeOut", "threadManager", "memoryManager">>

(* What the destructor of an object deletes with it. *)
Parts(object) ==
  CASE object = "synchConsoleIn" ->
         {object, "consoleInLock", "consoleInWaitFor"}
    [] object = "synchConsoleOut" ->
         {object, "display", "consoleOutWaitFor"}
    [] object = "synchDisk" -> {object, "disk", "diskSemaphore"}
    [] object = "postOfficeIn" -> {object, "boxes"}
    [] object = "postOfficeOut" -> {object, "networkOutput", "messageSent"}
    [] OTHER -> {object}

(* What a handler uses: V wakes a thread. *)
HandlerUses(device) ==
  {"interrupt", "stats"} \union
  CASE device = "timer" -> {}
    [] device = "disk" -> {"disk", "diskSemaphore", "scheduler"}
    [] device = "console" -> {"consoleInWaitFor", "scheduler"}
    [] device = "network" -> {"messageAvailable", "scheduler"}

-----------------------------------------------------------------------------
Init ==
  /\ stub \in BOOLEAN
  /\ process = "none" /\ program = << >> /\ made = {}
  /\ level = "off" /\ idles = FALSE /\ pending = {} /\ onAbort = FALSE
  /\ disk = "absent" /\ sockName = FALSE
  /\ end = "none" /\ spoiled = FALSE /\ starts = 0

Forgotten ==
  /\ process' = "none" /\ program' = << >> /\ made' = {}
  /\ level' = "off" /\ idles' = FALSE /\ pending' = {} /\ onAbort' = FALSE

(* The process ends; the host keeps its files. *)
Ends(how) ==
  /\ Forgotten
  /\ end' = how
  /\ spoiled' = (spoiled \/ (how = "killed" /\ disk \in {"empty", "magic"}))
  /\ UNCHANGED <<stub, host, starts>>

(* A new process: the flags of main and of Kernel::Kernel are read. *)
Start ==
  /\ process = "none" /\ starts < MaxStarts
  /\ \E flags \in SUBSET Flag :
       process' = "runs" /\ program' = Main(flags)
  /\ starts' = starts + 1
  /\ UNCHANGED <<stub, made, level, idles, pending, onAbort, host, end,
                 spoiled>>

(* Main goes on to its next step, which leaves the rest of the state. *)
Does(what) ==
  /\ process = "runs" /\ ~idles
  /\ program # << >> /\ Head(program).does = what
  /\ program' = Tail(program)
  /\ made' = made \union Head(program).makes
  /\ UNCHANGED <<stub, process, end, spoiled, starts>>

Construct ==
  /\ Does("nothing")
  /\ UNCHANGED <<level, idles, pending, onAbort, host>>

ScheduleDevice(device) ==
  /\ Does(device)
  /\ pending' = pending \union {device}
  /\ UNCHANGED <<level, idles, onAbort, host>>

ChangeLevel ==
  /\ \/ Does("enable") /\ level' = "on"
     \/ Does("disable") /\ level' = "off"
  /\ UNCHANGED <<idles, pending, onAbort, host>>

(* Disk::Disk: an existing file must begin with the magic number (the      *)
(* steps that make the file are skipped), and an absent one is created.    *)
OpenDisk ==
  /\ process = "runs" /\ program # << >> /\ Head(program).does = "openDisk"
  /\ disk \in {"magic", "complete"}
  /\ program' = SubSeq(program, 4, Len(program))
  /\ UNCHANGED <<stub, process, made, level, idles, pending, onAbort, host,
                 end, spoiled, starts>>

OpenDiskAborts ==
  /\ process = "runs" /\ program # << >> /\ Head(program).does = "openDisk"
  /\ disk = "empty"
  /\ Ends("abort")

CreateDisk ==
  /\ disk = "absent"
  /\ Does("openDisk")
  /\ disk' = "empty"
  /\ UNCHANGED <<level, idles, pending, onAbort, sockName>>

WriteMagic ==
  /\ Does("writeMagic")
  /\ disk' = "magic"
  /\ UNCHANGED <<level, idles, pending, onAbort, sockName>>

ExtendDisk ==
  /\ Does("extendDisk")
  /\ disk' = "complete"
  /\ UNCHANGED <<level, idles, pending, onAbort, sockName>>

(* FileSystem::FileSystem waits for the disk; a sector beyond the end of a *)
(* short file cannot be read.                                              *)
ReadDisk ==
  /\ Does("readDisk")
  /\ pending' = pending \union {"disk"}
  /\ idles' = TRUE
  /\ UNCHANGED <<level, onAbort, host>>

ReadDiskAborts ==
  /\ process = "runs" /\ program # << >> /\ Head(program).does = "readDisk"
  /\ disk = "magic"
  /\ Ends("abort")

UnlinkName ==
  /\ Does("unlinkName")
  /\ sockName' = FALSE
  /\ UNCHANGED <<level, idles, pending, onAbort, disk>>

(* bind fails if the name exists, and AssignNameToSocket asserts. *)
BindName ==
  IF sockName
  THEN /\ process = "runs" /\ program # << >>
       /\ Head(program).does = "bindName"
       /\ Ends("abort")
  ELSE /\ Does("bindName")
       /\ sockName' = TRUE
       /\ UNCHANGED <<level, idles, pending, onAbort, disk>>

CallOnUserAbort ==
  /\ Does("CallOnUserAbort")
  /\ onAbort' = TRUE
  /\ UNCHANGED <<level, idles, pending, host>>

(* A test or a user program, which waits and is woken. *)
Wait ==
  /\ Does("wait")
  /\ idles' = TRUE
  /\ UNCHANGED <<level, pending, onAbort, host>>

(* A device's handler runs and may wake main; but for the disk's, it       *)
(* schedules the next.                                                     *)
Handler(device) ==
  /\ process = "runs" /\ device \in pending
  /\ level = "on" \/ idles
  /\ idles' \in {FALSE, idles /\ device # "disk"}
  /\ "disk" \in pending /\ device # "disk" => idles' = idles
  /\ pending' = pending \ ({device} \intersect {"disk"})
  /\ UNCHANGED <<stub, process, program, made, level, onAbort, host, end,
                 spoiled, starts>>

-----------------------------------------------------------------------------
(* Interrupt::Halt, or Cleanup after ctl-C: delete kernel. *)
DeleteKernel ==
  /\ process' = "deletes" /\ program' = << >>
  /\ UNCHANGED <<stub, made, level, idles, pending, onAbort, host, end,
                 spoiled, starts>>

Halt ==
  /\ process = "runs" /\ ~idles
  /\ program # << >> /\ Head(program).does = "halt"
  /\ DeleteKernel

(* What ~Kernel has still to delete, and what it deletes next. *)
Remaining == {n \in DOMAIN Deletes : Deletes[n] \in made}
Doomed == Deletes[CHOOSE n \in Remaining : \A k \in Remaining : n <= k]

(* One delete of ~Kernel; that of the network removes the socket's name. *)
Delete ==
  /\ process = "deletes" /\ Remaining # {}
  /\ made' = made \ Parts(Doomed)
  /\ sockName' = (sockName /\ Doomed # "postOfficeIn")
  /\ pending' = IF Doomed = "interrupt" THEN {} ELSE pending
  /\ UNCHANGED <<stub, process, program, level, idles, onAbort, disk, end,
                 spoiled, starts>>

Exit ==
  /\ process = "deletes" /\ Remaining = {}
  /\ Ends("exit")

(* ctl-C: Cleanup deletes the kernel.  If that is already under way every  *)
(* object is deleted twice, which is undefined: the process dies.          *)
CtlC ==
  /\ onAbort
  /\ \/ process = "runs" /\ DeleteKernel
     \/ process = "deletes" /\ Ends("killed")

Kill == process # "none" /\ Ends("killed")

Constructs ==
  \/ Construct \/ ChangeLevel \/ WriteMagic \/ ExtendDisk \/ ReadDisk
  \/ ReadDiskAborts \/ OpenDisk \/ OpenDiskAborts \/ CreateDisk
  \/ UnlinkName \/ BindName
  \/ \E d \in {"timer", "console", "network"} : ScheduleDevice(d)

Next ==
  \/ Start \/ Constructs \/ CallOnUserAbort \/ Wait
  \/ \E d \in {"timer", "console", "network", "disk"} : Handler(d)
  \/ Halt \/ Delete \/ Exit \/ CtlC \/ Kill

-----------------------------------------------------------------------------
(* No constructor uses an object before it exists, and no handler can run  *)
(* that would: the interrupt of the console is pending while its semaphore *)
(* does not exist yet, and those of three devices when the postal worker   *)
(* enables interrupts in the middle of Initialize.                         *)
UsesOnlyMade ==
  process = "runs" =>
    /\ program # << >> => Head(program).uses \subseteq made
    /\ level = "on" \/ idles =>
         \A d \in pending : HandlerUses(d) \subseteq made

(* Whenever a process was killed, the next one comes up, unless the kill   *)
(* came while the first one was making the disk; a process that has ended  *)
(* by itself leaves no name of a socket.                                   *)
RestartSucceeds ==
  /\ end = "abort" => spoiled
  /\ end = "exit" /\ process = "none" => ~sockName
=============================================================================
