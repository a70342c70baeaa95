----------------------------- MODULE PostOffice -----------------------------
(***************************************************************************)
(* The post office (network/post.cc) on top of the simulated network       *)
(* (machine/network.cc) and of the host's sockets (lib/sysdep.cc).  Each   *)
(* machine is a process of the host: senders share the output of their     *)
(* machine, a postal worker thread sorts what arrives into mailboxes.      *)
(*                                                                         *)
(* The lock and the semaphores are atomic here (module Synch), and so are  *)
(* the mailboxes, synchronized lists that implement a queue (SynchList).   *)
(* Interrupts come at any moment.  A machine may start late and halt at    *)
(* any time.  The sockets are UNIX datagram sockets of the host: they keep *)
(* the order of what they are given, and sendto fails while no process has *)
(* bound the name of the receiver's socket.  They are never full: MailBound*)
(* is below what the host lets a socket hold.                              *)
(***************************************************************************)
EXTENDS Integers, Sequences, FiniteSets, Lists

CONSTANTS Machine,
          Box,         \* mailboxes of each machine
          Sender,      \* threads that send
          HostOf,      \* the machine each sender runs on
          Route,       \* who sends to which box of which machine
          Data,        \* contents of a message
          Tries,       \* attempts of SendToSocket, 10 in the code
          NULL,
          MailBound    \* bound of the model: mail for a machine at a time

(* A packet: the machine and the box it goes to, and who sends what. *)
Packet == [to : Machine, box : Box, from : Machine, data : Data]

PostOfficeAssumption ==
  /\ HostOf \in [Sender -> Machine]
  /\ Route \subseteq Sender \X Machine \X Box
  /\ Tries \in Nat \ {0}
  /\ MailBound \in Nat \ {0}
  /\ NULL \notin Sender \union Packet

VARIABLES sendLock,         \* PostOfficeOutput::sendLock, its holder
          messageSent,      \* value of PostOfficeOutput::messageSent
          sendBusy,         \* NetworkOutput::sendBusy
          sending,          \* thread -> the packet it is to send, or NULL
          sender,           \* where a sending thread is
          retryCount,       \* attempts SendToSocket has made
          bound,            \* machines whose socket has its name
          socket,           \* packets in the socket of a machine
          inbox,            \* the packet in NetworkInput, or NULL
          messageAvailable, \* value of PostOfficeInput::messageAvailable
          worker,           \* where the postal worker is
          buffer,           \* the packet it has received, or NULL
          boxes             \* PostOfficeInput::boxes

outVars == <<sendLock, messageSent, sendBusy, sending, sender, retryCount>>
netVars == <<bound, socket>>
inVars == <<inbox, messageAvailable, worker, buffer, boxes>>
vars == <<outVars, netVars, inVars>>

Init ==
  /\ sendLock = [m \in Machine |-> NULL]
  /\ messageSent = [m \in Machine |-> 0]
  /\ sendBusy = [m \in Machine |-> FALSE]
  /\ sending = [t \in Sender |-> NULL]
  /\ sender = [t \in Sender |-> "idle"]
  /\ retryCount = [t \in Sender |-> 0]
  /\ bound = {}
  /\ socket = [m \in Machine |-> << >>]
  /\ inbox = [m \in Machine |-> NULL]
  /\ messageAvailable = [m \in Machine |-> 0]
  /\ worker = [m \in Machine |-> "P"]
  /\ buffer = [m \in Machine |-> NULL]
  /\ boxes = [m \in Machine |-> [b \in Box |-> << >>]]

-----------------------------------------------------------------------------
(* NetworkInput::NetworkInput: OpenSocket, and AssignNameToSocket, which   *)
(* removes a name left over from a run that crashed before it binds its    *)
(* own.  The constructors of the post offices find everything empty.       *)
Start(m) ==
  /\ m \notin bound
  /\ bound' = bound \union {m}
  /\ UNCHANGED <<outVars, socket, inVars>>

(* The threads of a machine run, and its interrupts come, while it has not *)
(* halted and no thread is in Delay, which puts the whole process to sleep.*)
Delayed(m) == \E t \in Sender : HostOf[t] = m /\ sender[t] = "sendto"
Running(m) == m \in bound /\ ~Delayed(m)

(* The process ends (Kernel::~Kernel, also from Cleanup when the user hits *)
(* ctl-C): CloseSocket drops what is in the socket, DeAssignNameToSocket   *)
(* removes its name, and what the threads were doing is lost.              *)
Halt(m) ==
  LET mine == {t \in Sender : HostOf[t] = m}
      Reset(f, v) == [f EXCEPT ![m] = v]
  IN
  /\ m \in bound
  /\ bound' = bound \ {m}
  /\ socket' = Reset(socket, << >>)
  /\ sendLock' = Reset(sendLock, NULL)
  /\ messageSent' = Reset(messageSent, 0)
  /\ sendBusy' = Reset(sendBusy, FALSE)
  /\ sending' = [t \in Sender |-> IF t \in mine THEN NULL ELSE sending[t]]
  /\ sender' = [t \in Sender |-> IF t \in mine THEN "idle" ELSE sender[t]]
  /\ retryCount' = [t \in Sender |-> IF t \in mine THEN 0 ELSE retryCount[t]]
  /\ inbox' = Reset(inbox, NULL)
  /\ messageAvailable' = Reset(messageAvailable, 0)
  /\ worker' = Reset(worker, "P")
  /\ buffer' = Reset(buffer, NULL)
  /\ boxes' = Reset(boxes, [b \in Box |-> << >>])

-----------------------------------------------------------------------------
(* All that is on its way from the socket of a machine to its boxes. *)
Present(p) == IF p = NULL THEN << >> ELSE <<p>>
Arrived(m) == Present(buffer[m]) \o Present(inbox[m]) \o socket[m]

RoomFor(m) ==
  /\ Len(Arrived(m)) + Cardinality({t \in Sender : sending[t] # NULL})
       < MailBound
  /\ \A b \in Box : Len(boxes[m][b]) < MailBound

(* PostOfficeOutput::Send up to sendLock->Acquire() *)
CallSend(t, to, box, data) ==
  /\ sender[t] = "idle"
  /\ Running(HostOf[t])
  /\ RoomFor(to)
  /\ sending' = [sending EXCEPT ![t] =
       [to |-> to, box |-> box, from |-> HostOf[t], data |-> data]]
  /\ sender' = [sender EXCEPT ![t] = "lock"]
  /\ UNCHANGED <<sendLock, messageSent, sendBusy, retryCount, netVars, inVars>>

AcquireSendLock(t) ==
  /\ sender[t] = "lock"
  /\ Running(HostOf[t])
  /\ sendLock[HostOf[t]] = NULL
  /\ sendLock' = [sendLock EXCEPT ![HostOf[t]] = t]
  /\ sender' = [sender EXCEPT ![t] = "send"]
  /\ UNCHANGED <<messageSent, sendBusy, sending, retryCount, netVars, inVars>>

(* NetworkOutput::Send schedules the interrupt, and loses the packet or    *)
(* hands it to SendToSocket.                                               *)
NetworkSend(t, lost) ==
  /\ sender[t] = "send"
  /\ Running(HostOf[t])
  /\ ~sendBusy[HostOf[t]]  \* ASSERT, see OneInterruptPerPacket
  /\ sendBusy' = [sendBusy EXCEPT ![HostOf[t]] = TRUE]
  /\ sender' = [sender EXCEPT ![t] = IF lost THEN "sent" ELSE "sendto"]
  /\ UNCHANGED <<sendLock, messageSent, sending, retryCount, netVars, inVars>>

(* Mistake: the attempts are not counted. *)
SendFailsAgain(t) ==
  /\ sender[t] = "sendto"
  /\ sending[t].to \notin bound
  /\ retryCount' = [retryCount EXCEPT ![t] = (@ + 1) % Tries]
  /\ UNCHANGED <<sendLock, messageSent, sendBusy, sending, sender, netVars,
                 inVars>>

(* SendToSocket: one attempt.  It succeeds if the receiver has bound its   *)
(* name, ...                                                               *)
SendSucceeds(t) ==
  /\ sender[t] = "sendto"
  /\ sending[t].to \in bound
  /\ socket' = [socket EXCEPT ![sending[t].to] = Append(@, sending[t])]
  /\ sender' = [sender EXCEPT ![t] = "sent"]
  /\ retryCount' = [retryCount EXCEPT ![t] = 0]
  /\ UNCHANGED <<sendLock, messageSent, sendBusy, sending, bound, inVars>>

(* ... and otherwise is made again after Delay(1); after the last one the  *)
(* packet is dropped.                                                      *)
SendFails(t) ==
  LET last == retryCount[t] + 1 = Tries IN
  /\ sender[t] = "sendto"
  /\ sending[t].to \notin bound
  /\ retryCount' = [retryCount EXCEPT ![t] = IF last THEN 0 ELSE @ + 1]
  /\ sender' = [sender EXCEPT ![t] = IF last THEN "sent" ELSE @]
  /\ UNCHANGED <<sendLock, messageSent, sendBusy, sending, netVars, inVars>>

(* Mistake: Send does not wait for the interrupt. *)
SendReturnsAtOnce(t) ==
  /\ sender[t] = "sent"
  /\ Running(HostOf[t])
  /\ sendLock' = [sendLock EXCEPT ![HostOf[t]] = NULL]
  /\ sending' = [sending EXCEPT ![t] = NULL]
  /\ sender' = [sender EXCEPT ![t] = "idle"]
  /\ UNCHANGED <<messageSent, sendBusy, retryCount, netVars, inVars>>

(* messageSent->P(), sendLock->Release() and return *)
SendReturn(t) ==
  /\ sender[t] = "sent"
  /\ Running(HostOf[t])
  /\ messageSent[HostOf[t]] > 0
  /\ messageSent' = [messageSent EXCEPT ![HostOf[t]] = @ - 1]
  /\ sendLock' = [sendLock EXCEPT ![HostOf[t]] = NULL]
  /\ sending' = [sending EXCEPT ![t] = NULL]
  /\ sender' = [sender EXCEPT ![t] = "idle"]
  /\ UNCHANGED <<sendBusy, retryCount, netVars, inVars>>

(* NetworkOutput::CallBack and PostOfficeOutput::CallBack *)
SendInterrupt(m) ==
  /\ sendBusy[m]
  /\ Running(m)
  /\ sendBusy' = [sendBusy EXCEPT ![m] = FALSE]
  /\ messageSent' = [messageSent EXCEPT ![m] = @ + 1]
  /\ UNCHANGED <<sendLock, sending, sender, retryCount, netVars, inVars>>

-----------------------------------------------------------------------------
(* PollSocket: there is something to be read. *)
PollSocket(m) == socket[m] # << >>

(* ReadFromSocket: what it returns, and what it leaves. *)
ReadFromSocket(m) == Head(socket[m])
SocketAfterRead(m) == [socket EXCEPT ![m] = Tail(@)]

(* Mistake: a packet is read although one is buffered. *)
ReceiveOverwrites(m) ==
  /\ Running(m)
  /\ PollSocket(m)
  /\ inbox' = [inbox EXCEPT ![m] = ReadFromSocket(m)]
  /\ socket' = SocketAfterRead(m)
  /\ messageAvailable' = [messageAvailable EXCEPT ![m] = @ + 1]
  /\ UNCHANGED <<outVars, bound, worker, buffer, boxes>>

(* NetworkInput::CallBack and PostOfficeInput::CallBack; with a packet     *)
(* buffered, or none in the socket, the poll does nothing.                 *)
ReceiveInterrupt(m) ==
  /\ Running(m)
  /\ inbox[m] = NULL
  /\ PollSocket(m)
  /\ inbox' = [inbox EXCEPT ![m] = ReadFromSocket(m)]
  /\ socket' = SocketAfterRead(m)
  /\ messageAvailable' = [messageAvailable EXCEPT ![m] = @ + 1]
  /\ UNCHANGED <<outVars, bound, worker, buffer, boxes>>

(* Mistake: the worker waits until two packets have come. *)
WorkerWaitsForTwo(m) ==
  /\ worker[m] = "P"
  /\ Running(m)
  /\ messageAvailable[m] > 1
  /\ messageAvailable' = [messageAvailable EXCEPT ![m] = @ - 1]
  /\ worker' = [worker EXCEPT ![m] = "receive"]
  /\ UNCHANGED <<outVars, netVars, inbox, buffer, boxes>>

(* PostOfficeInput::PostalDelivery: messageAvailable->P(), *)
WorkerP(m) ==
  /\ worker[m] = "P"
  /\ Running(m)
  /\ messageAvailable[m] > 0
  /\ messageAvailable' = [messageAvailable EXCEPT ![m] = @ - 1]
  /\ worker' = [worker EXCEPT ![m] = "receive"]
  /\ UNCHANGED <<outVars, netVars, inbox, buffer, boxes>>

(* NetworkInput::Receive, *)
WorkerReceive(m) ==
  /\ worker[m] = "receive"
  /\ Running(m)
  /\ buffer' = [buffer EXCEPT ![m] = inbox[m]]
  /\ inbox' = [inbox EXCEPT ![m] = NULL]
  /\ worker' = [worker EXCEPT ![m] = "put"]
  /\ UNCHANGED <<outVars, netVars, messageAvailable, boxes>>

(* and MailBox::Put. *)
WorkerPut(m) ==
  /\ worker[m] = "put"
  /\ Running(m)
  /\ boxes' = [boxes EXCEPT ![m][buffer[m].box] = Append(@, buffer[m])]
  /\ buffer' = [buffer EXCEPT ![m] = NULL]
  /\ worker' = [worker EXCEPT ![m] = "P"]
  /\ UNCHANGED <<outVars, netVars, inbox, messageAvailable>>

(* PostOfficeInput::Receive by some thread: MailBox::Get *)
Receive(m, b) ==
  /\ Running(m)
  /\ boxes[m][b] # << >>
  /\ boxes' = [boxes EXCEPT ![m][b] = Tail(@)]
  /\ UNCHANGED <<outVars, netVars, inbox, messageAvailable, worker, buffer>>

(* What the kernel of a machine does by itself. *)
Kernel(t) ==
  \/ AcquireSendLock(t)
  \/ SendSucceeds(t)
  \/ SendFails(t)
  \/ SendReturn(t)

Devices(m) ==
  \/ SendInterrupt(m)
  \/ ReceiveInterrupt(m)
  \/ WorkerP(m)
  \/ WorkerReceive(m)
  \/ WorkerPut(m)

Next ==
  \/ \E m \in Machine : Start(m) \/ Halt(m) \/ Devices(m)
  \/ \E r \in Route, d \in Data : CallSend(r[1], r[2], r[3], d)
  \/ \E t \in Sender : Kernel(t)
  \/ \E t \in Sender, lost \in BOOLEAN : NetworkSend(t, lost)
  \/ \E m \in Machine, b \in Box : Receive(m, b)

Spec == Init /\ [][Next]_vars

(* Scheduled interrupts come, threads that are not asleep run, and Delay   *)
(* ends.                                                                   *)
Fairness ==
  /\ \A t \in Sender :
       /\ WF_vars(\E lost \in BOOLEAN : NetworkSend(t, lost))
       /\ WF_vars(AcquireSendLock(t))
       /\ WF_vars(SendReturn(t))
       /\ WF_vars((SendSucceeds(t) \/ SendFails(t)))
  /\ \A m \in Machine :
       /\ WF_vars(SendInterrupt(m))
       /\ WF_vars(ReceiveInterrupt(m))
       /\ WF_vars(WorkerP(m))
       /\ WF_vars(WorkerReceive(m))
       /\ WF_vars(WorkerPut(m))

-----------------------------------------------------------------------------
(* Each packet sent has exactly one interrupt, which is taken by the Send  *)
(* that caused it: either it is still to come, or messageSent counts it.   *)
(* So ASSERT(sendBusy == FALSE) in NetworkOutput::Send never fails.        *)
OneInterruptPerPacket ==
  /\ \A m \in Machine :
       LET waiting == {t \in Sender : /\ sender[t] \in {"sendto", "sent"}
                                      /\ HostOf[t] = m}
       IN  messageSent[m] + (IF sendBusy[m] THEN 1 ELSE 0)
             = Cardinality(waiting)
  /\ \A t \in Sender : sender[t] = "send" => ~sendBusy[HostOf[t]]

(* Send returns once it has the lock, although the network may lose the    *)
(* packet ("Called even if the previous packet was dropped") and although  *)
(* the receiver may have halted or may never start.                        *)
SendReturns == \A t \in Sender : sender[t] = "send" ~> sender[t] = "idle"

(* The mail of a Send that is neither in the receiver's socket nor lost. *)
Unsent(t) == IF sender[t] \in {"lock", "send", "sendto"} THEN sending[t] ELSE NULL

C == INSTANCE Channel WITH Mail <- Packet, up <- bound, mailbox <- boxes,
       pending <- [t \in Sender |-> Unsent(t)],
       transit <- [m \in Machine |-> Arrived(m)]

(* Sender, socket, inbox, worker and mailboxes together are a channel that *)
(* loses mail only when it is sent or when the receiver halts, and never   *)
(* repeats or reorders it.                                                 *)
ImplementsChannel == C!Spec

-----------------------------------------------------------------------------
(* Kernel::NetworkTest (threads/kernel.cc), run on two machines at once:   *)
(* each sends a message to the other's box 0, waits for the message of the *)
(* other, acknowledges it to the box it names for replies, waits for the   *)
(* acknowledgement of its own, and halts.  The network loses no packet     *)
(* (-n is not given), but a machine may be started at any time.            *)
VARIABLES step,    \* how far main() of each machine is
          gaveUp   \* SendToSocket has dropped a packet

testVars == <<vars, step, gaveUp>>

(* The thread that runs main() on m, and the other machine. *)
MainOf(m) == CHOOSE t \in Sender : HostOf[t] = m
FarHost(m) == CHOOSE n \in Machine : n # m

(* The test needs a thread and the boxes 0 and 1 on either machine. *)
NetworkTestAssumption ==
  /\ \A m \in Machine : /\ \E t \in Sender : HostOf[t] = m
                        /\ \E n \in Machine : n # m
  /\ {0, 1} \subseteq Box

TestInit ==
  /\ Init
  /\ step = [m \in Machine |-> "off"]
  /\ gaveUp = FALSE

Goto(m, from, to) == step[m] = from /\ step' = [step EXCEPT ![m] = to]

(* Kernel::Initialize makes the post office. *)
Boot(m) == Goto(m, "off", "send") /\ Start(m) /\ UNCHANGED gaveUp

(* Send the first message to box 0; box 1 is for replies. *)
SendFirst(m) ==
  /\ Goto(m, "send", "sending")
  /\ \E d \in Data : CallSend(MainOf(m), FarHost(m), 0, d)
  /\ UNCHANGED gaveUp

Sent(m, from, to) ==
  /\ sender[MainOf(m)] = "idle"
  /\ Running(m)
  /\ Goto(m, from, to)
  /\ UNCHANGED <<vars, gaveUp>>

(* Wait for the message of the other machine, *)
ReceiveFirst(m) ==
  /\ Goto(m, "receive", "ack")
  /\ Receive(m, 0)
  /\ UNCHANGED gaveUp

(* acknowledge it to the machine it came from, box 1, *)
SendAck(m) ==
  /\ Goto(m, "ack", "acking")
  /\ \E d \in Data : CallSend(MainOf(m), FarHost(m), 1, d)
  /\ UNCHANGED gaveUp

(* wait for the acknowledgement, and halt. *)
ReceiveAck(m) ==
  /\ Goto(m, "wait", "done")
  /\ Receive(m, 1)
  /\ UNCHANGED gaveUp

TestHalt(m) == Goto(m, "done", "halted") /\ Halt(m) /\ UNCHANGED gaveUp

(* SendToSocket returns without having sent the packet. *)
Dropped(t) ==
  /\ sender[t] = "sendto" /\ sender'[t] = "sent"
  /\ sending[t].to \notin bound

(* What goes on below the test. *)
Network ==
  /\ \/ \E m \in Machine : Devices(m)
     \/ \E t \in Sender : Kernel(t) \/ NetworkSend(t, FALSE)
  /\ gaveUp' = (gaveUp \/ \E t \in Sender : Dropped(t))
  /\ UNCHANGED step

Script(m) ==
  \/ SendFirst(m)
  \/ Sent(m, "sending", "receive")
  \/ ReceiveFirst(m)
  \/ SendAck(m)
  \/ Sent(m, "acking", "wait")
  \/ ReceiveAck(m)
  \/ TestHalt(m)

TestNext == Network \/ \E m \in Machine : Boot(m) \/ Script(m)

-----------------------------------------------------------------------------
(* The test ends on both machines, in whatever order they start and run,   *)
(* unless a machine is started so late that the other has stopped trying.  *)
Ended == gaveUp \/ \A m \in Machine : step[m] = "halted"
=============================================================================
