------------------------------ MODULE Console ------------------------------
(***************************************************************************)
(* The synchronized console (userprog/synchconsole.cc) on top of the       *)
(* console device (machine/console.cc): threads read the keyboard and      *)
(* write to the display one at a time, the device interrupts.  Locks and   *)
(* semaphores are atomic here (module Synch).                              *)
(*                                                                         *)
(* The device keeps the character it has read in "incoming", a char that   *)
(* contains EOF when there is none.  EOF is -1, which is also what the     *)
(* byte 255 becomes in a char.                                             *)
(***************************************************************************)
EXTENDS Integers, Sequences, FiniteSets

CONSTANTS Thread, NULL,
          EOF,
          Typed,       \* what is in the file that simulates the keyboard
          Char,        \* characters that threads write
          OutputBound  \* bound of the model: characters written

ConsoleAssumption ==
  /\ NULL \notin Thread
  /\ Typed \in Seq(Char \union {EOF})
  /\ OutputBound \in Nat

VARIABLES keyboard, \* what has not been read from the file yet
          atEnd,    \* the device has met the end of the file
          incoming, \* ConsoleInput::incoming
          polling,  \* a ConsoleReadInt interrupt is pending
          putBusy,  \* ConsoleOutput::putBusy, and a ConsoleWriteInt pending
          display,  \* what has been written to the display
          inLock, outLock, \* holders of the two locks
          inWait, outWait, \* values of the two semaphores
          pc,       \* where a thread is
          got,      \* what readers have got, in the order of the device
          put       \* thread -> the character it writes, or NULL

inVars == <<keyboard, atEnd, incoming, polling, inLock, inWait, got>>
outVars == <<putBusy, display, outLock, outWait, put>>
vars == <<inVars, outVars, pc>>

Init ==
  /\ keyboard = Typed
  /\ atEnd = FALSE
  /\ incoming = EOF
  /\ polling = TRUE
  /\ putBusy = FALSE
  /\ display = << >>
  /\ inLock = NULL /\ outLock = NULL
  /\ inWait = 0 /\ outWait = 0
  /\ pc = [t \in Thread |-> "idle"]
  /\ got = << >>
  /\ put = [t \in Thread |-> NULL]

-----------------------------------------------------------------------------
(* ConsoleInput::CallBack with nothing to be read polls again, which       *)
(* changes nothing; with a character ...                                   *)
ReadInterrupt ==
  /\ polling
  /\ keyboard # << >>
  /\ incoming' = Head(keyboard)
  /\ keyboard' = Tail(keyboard)
  /\ polling' = FALSE
  /\ inWait' = inWait + 1
  /\ UNCHANGED <<atEnd, inLock, got, outVars, pc>>

(* ... and at the end of the file. *)
EndInterrupt ==
  /\ polling
  /\ keyboard = << >>
  /\ atEnd' = TRUE
  /\ polling' = FALSE
  /\ inWait' = inWait + 1
  /\ UNCHANGED <<keyboard, incoming, inLock, got, outVars, pc>>

(* SynchConsoleInput::GetChar: lock->Acquire(), *)
GetAcquire(t) ==
  /\ pc[t] = "idle"
  /\ inLock = NULL
  /\ inLock' = t
  /\ pc' = [pc EXCEPT ![t] = "getWait"]
  /\ UNCHANGED <<keyboard, atEnd, incoming, polling, inWait, got, outVars>>

(* waitFor->P(), *)
GetWait(t) ==
  /\ pc[t] = "getWait"
  /\ inWait > 0
  /\ inWait' = inWait - 1
  /\ pc' = [pc EXCEPT ![t] = "get"]
  /\ UNCHANGED <<keyboard, atEnd, incoming, polling, inLock, got, outVars>>

(* Mistake: the device polls again while a character is still there. *)
GetCharKeeps(t) ==
  /\ pc[t] = "get"
  /\ got' = Append(got, incoming)
  /\ polling' = (incoming # EOF)
  /\ inLock' = NULL
  /\ pc' = [pc EXCEPT ![t] = "idle"]
  /\ UNCHANGED <<keyboard, atEnd, incoming, inWait, outVars>>

(* Mistake: the device does not poll again. *)
GetCharStopsPolling(t) ==
  /\ pc[t] = "get"
  /\ got' = Append(got, incoming)
  /\ incoming' = EOF
  /\ inLock' = NULL
  /\ pc' = [pc EXCEPT ![t] = "idle"]
  /\ UNCHANGED <<keyboard, atEnd, polling, inWait, outVars>>

(* Mistake: the character is thrown away before it is returned. *)
GetCharClearsFirst(t) ==
  /\ pc[t] = "get"
  /\ got' = Append(got, EOF)
  /\ incoming' = EOF
  /\ polling' = (polling \/ incoming # EOF)
  /\ inLock' = NULL
  /\ pc' = [pc EXCEPT ![t] = "idle"]
  /\ UNCHANGED <<keyboard, atEnd, inWait, outVars>>

(* ConsoleInput::GetChar and lock->Release() *)
GetChar(t) ==
  /\ pc[t] = "get"
  /\ got' = Append(got, incoming)
  /\ incoming' = EOF
  /\ polling' = (polling \/ incoming # EOF)
  /\ inLock' = NULL
  /\ pc' = [pc EXCEPT ![t] = "idle"]
  /\ UNCHANGED <<keyboard, atEnd, inWait, outVars>>

-----------------------------------------------------------------------------
(* SynchConsoleOutput::PutChar: lock->Acquire(), *)
PutAcquire(t, ch) ==
  /\ pc[t] = "idle"
  /\ Len(display) < OutputBound
  /\ outLock = NULL
  /\ outLock' = t
  /\ put' = [put EXCEPT ![t] = ch]
  /\ pc' = [pc EXCEPT ![t] = "put"]
  /\ UNCHANGED <<putBusy, display, outWait, inVars>>

(* ConsoleOutput::PutChar, *)
PutChar(t) ==
  /\ pc[t] = "put"
  /\ display' = Append(display, put[t])
  /\ putBusy' = TRUE
  /\ pc' = [pc EXCEPT ![t] = "putWait"]
  /\ UNCHANGED <<outLock, outWait, put, inVars>>

(* Mistake: a writer does not wait for the device. *)
PutDoesNotWait(t) ==
  /\ pc[t] = "putWait"
  /\ outLock' = NULL
  /\ put' = [put EXCEPT ![t] = NULL]
  /\ pc' = [pc EXCEPT ![t] = "idle"]
  /\ UNCHANGED <<putBusy, display, outWait, inVars>>

(* waitFor->P() and lock->Release() *)
PutWait(t) ==
  /\ pc[t] = "putWait"
  /\ outWait > 0
  /\ outWait' = outWait - 1
  /\ outLock' = NULL
  /\ put' = [put EXCEPT ![t] = NULL]
  /\ pc' = [pc EXCEPT ![t] = "idle"]
  /\ UNCHANGED <<putBusy, display, inVars>>

(* ConsoleOutput::CallBack and SynchConsoleOutput::CallBack *)
WriteInterrupt ==
  /\ putBusy
  /\ putBusy' = FALSE
  /\ outWait' = outWait + 1
  /\ UNCHANGED <<display, outLock, put, inVars, pc>>

Next ==
  \/ ReadInterrupt
  \/ EndInterrupt
  \/ \E t \in Thread : GetAcquire(t)
  \/ \E t \in Thread : GetWait(t)
  \/ \E t \in Thread : GetChar(t)
  \/ \E t \in Thread, ch \in Char : PutAcquire(t, ch)
  \/ \E t \in Thread : PutChar(t)
  \/ \E t \in Thread : PutWait(t)
  \/ WriteInterrupt

Spec == Init /\ [][Next]_vars

(* Pending interrupts come, threads that are not asleep run, and somebody  *)
(* reads the console again and again.                                      *)
FairSpec ==
  /\ Spec
  /\ WF_vars(ReadInterrupt) /\ WF_vars(EndInterrupt) /\ WF_vars(WriteInterrupt)
  /\ \A t \in Thread : WF_vars(GetWait(t)) /\ WF_vars(GetChar(t))
                       /\ WF_vars(PutChar(t)) /\ WF_vars(PutWait(t))
  /\ SF_vars(\E t \in Thread : GetAcquire(t))

-----------------------------------------------------------------------------
(* The device has told the readers of a character that nobody has taken.   *)
CharPending == inWait = 1 \/ \E t \in Thread : pc[t] = "get"

(* Readers get what has been typed, in that order, with nothing lost or    *)
(* repeated, whatever the order of interrupts and of readers, and at the   *)
(* end of the file one of them gets EOF.                                   *)
InputInOrder ==
  got \o (IF CharPending THEN <<incoming>> ELSE << >>) \o keyboard =
    Typed \o (IF atEnd THEN <<EOF>> ELSE << >>)

(* ASSERT(incoming == EOF) in ConsoleInput::CallBack never fails: the      *)
(* device polls only when the character it had has been taken, and not at  *)
(* all while it has one for the readers.                                   *)
PollsWhenEmpty == polling => incoming = EOF /\ ~CharPending

(* ASSERT(putBusy == FALSE) in ConsoleOutput::PutChar never fails, and     *)
(* each character has one interrupt, which ends the PutChar it belongs to. *)
OneInterruptPerChar ==
  /\ \A t \in Thread : pc[t] = "put" => ~putBusy
  /\ outWait + (IF putBusy THEN 1 ELSE 0) =
       Cardinality({t \in Thread : pc[t] = "putWait"})

(* All that has been typed is read, if somebody wants it: callWhenAvail    *)
(* "is called whenever there is a char to be gotten" (console.h).          *)
AllInputRead == <>(keyboard = << >>)
=============================================================================
