----------------------------- MODULE MCDevices -----------------------------
(***************************************************************************)
(* The devices and their drivers: the synchronous disk with its cache, the *)
(* timing of the disk device, the console, the post office and the test of *)
(* the network.  They share no state, so that a behaviour exercises one of *)
(* them (part) while the others stay in an initial state.                  *)
(***************************************************************************)
EXTENDS SynchDisk, Sequences

CONSTANTS User, EOF, Typed, Char, OutputBound             \* Console
CONSTANTS SectorsPerTrack, NumTracks, RotationTime, SeekTime,
          MaxTime                                         \* DiskTiming
CONSTANTS Machine, Box, Sender, HostOf, Route, Data, Tries,
          MailBound                                       \* PostOffice

VARIABLES part
VARIABLES keyboard, atEnd, incoming, polling, putBusy, display, inLock,
          outLock, inWait, outWait, cpc, got, put         \* Console
VARIABLES ticks, lastSector, bufferInit, request, busy    \* DiskTiming
VARIABLES sendLock, messageSent, sendBusy, sending, sender, retryCount, bound,
          socket, inbox, messageAvailable, worker, buffer, boxes,
          step, gaveUp                                    \* PostOffice

C == INSTANCE Console WITH Thread <- User, pc <- cpc
T == INSTANCE DiskTiming WITH
       MaxTicks <- MaxTime, totalTicks <- ticks, active <- busy
N == INSTANCE PostOffice

ASSUME Assumed == /\ C!ConsoleAssumption /\ T!DiskTimingAssumption
                  /\ N!PostOfficeAssumption /\ N!NetworkTestAssumption

(* What is typed; two threads of machine 0 send to machine 1, one of them  *)
(* to both of its boxes, and the test of the network runs on 0 and 1.      *)
TypedText == <<"a", "b", "a">>
Hosts == [t \in Sender |-> t % 2]
Routes == {<<0, 1, 0>>, <<2, 1, 0>>, <<2, 1, 1>>}

console == <<keyboard, atEnd, incoming, polling, inLock, inWait, got, putBusy,
             display, outLock, outWait, put, cpc>>
timing == <<ticks, lastSector, bufferInit, request, busy>>
office == <<sendLock, messageSent, sendBusy, sending, sender, retryCount, bound,
            socket, inbox, messageAvailable, worker, buffer, boxes>>
test == <<step, gaveUp>>
device == <<part, vars, console, timing, office, test>>

(* The disk holds one value throughout, as a new one does.  The cache is   *)
(* garbage; of an idle disk it is some fixed garbage.                      *)
DeviceInit ==
  /\ part \in {"disk", "console", "timing", "post", "networkTest"}
  /\ Init /\ C!Init /\ T!Init /\ N!TestInit
  /\ disk = [s \in Sector |-> CHOOSE v \in Value : TRUE]
  /\ part # "disk" =>
       cache = [i \in Slot |-> CHOOSE slot \in
         [valid : {-1}, sector : Sector, lru : Garbage, data : Value] : TRUE]

DeviceNext ==
  \/ /\ part = "disk" /\ Next
     /\ UNCHANGED <<part, console, timing, office, test>>
  \/ /\ part = "console" /\ C!Next
     /\ UNCHANGED <<part, vars, timing, office, test>>
  \/ /\ part = "timing" /\ T!Next
     /\ UNCHANGED <<part, vars, console, office, test>>
  \/ /\ part = "post" /\ N!Next
     /\ UNCHANGED <<part, vars, console, timing, test>>
  \/ /\ part = "networkTest" /\ N!TestNext
     /\ UNCHANGED <<part, vars, console, timing>>

(* The fairness of the components, for the one that moves. *)
DeviceSpec ==
  /\ DeviceInit /\ [][DeviceNext]_device
  /\ \A t \in Thread : WF_vars(part = "disk" /\ Inside(t))
  /\ WF_vars(part = "disk" /\ DiskInterrupt)
  /\ WF_console(part = "console" /\ C!ReadInterrupt)
  /\ WF_console(part = "console" /\ C!EndInterrupt)
  /\ WF_console(part = "console" /\ C!WriteInterrupt)
  /\ \A t \in User :
       /\ WF_console(part = "console" /\ C!GetWait(t))
       /\ WF_console(part = "console" /\ C!GetChar(t))
       /\ WF_console(part = "console" /\ C!PutChar(t))
       /\ WF_console(part = "console" /\ C!PutWait(t))
  /\ SF_console(part = "console" /\ \E t \in User : C!GetAcquire(t))
  /\ N!Fairness
  /\ \A m \in Machine :
       /\ WF_<<office, test>>(part = "networkTest" /\ N!Boot(m))
       /\ WF_<<office, test>>(part = "networkTest" /\ N!Script(m))

-----------------------------------------------------------------------------
(* Readers get what has been typed, in that order (Console). *)
InputInOrder == C!InputInOrder
(* All that is typed is read, if somebody wants it (Console). *)
AllInputRead == part = "console" ~> keyboard = << >>
(* The devices interrupt once for every request, character or packet,      *)
(* which wakes the thread that waits for it and no other, and the ASSERTs  *)
(* on active, incoming, putBusy and sendBusy in disk.cc, console.cc and    *)
(* network.cc hold, whatever the order of threads and interrupts.          *)
InterruptProtocol ==
  /\ OneInterruptPerRequest
  /\ C!PollsWhenEmpty /\ C!OneInterruptPerChar
  /\ N!OneInterruptPerPacket
(* The disk's interrupt comes when the rotating disk is done (DiskTiming). *)
LatencyIsPhysical == T!LatencyIsPhysical
(* The post office is a channel that loses mail only when it is sent or    *)
(* when the receiver halts (PostOffice).                                   *)
ImplementsChannel == N!ImplementsChannel
(* A request of the disk returns, and so does Send, although packets are   *)
(* lost and machines halt (SynchDisk, PostOffice).                         *)
CallsReturn == RequestReturns /\ N!SendReturns
(* The test of the network ends on both machines, unless one was started   *)
(* so late that the other had stopped trying (PostOffice).                 *)
NetworkTestEnds == part = "networkTest" ~> N!Ended
=============================================================================
