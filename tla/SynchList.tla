----------------------------- MODULE SynchList -----------------------------
(***************************************************************************)
(* The synchronized list (threads/synchlist.cc): a list, a lock around it  *)
(* and a condition variable for "the list is empty".  Lock and condition   *)
(* are the abstract ones of module Monitor, which module Synch implements. *)
(*                                                                         *)
(* Apply changes nothing and Remove has no caller; they are left out.      *)
(***************************************************************************)
EXTENDS Integers, Sequences, FiniteSets, Lists

CONSTANTS Thread, Item, NULL

(* There are finitely many threads, and NULL is none of them. *)
SynchListAssumption == IsFiniteSet(Thread) /\ NULL \notin Thread \union {"lock"}

VARIABLES holder, waiting, resuming, \* lock and listEmpty, see Monitor
          list,                      \* SynchList<T>::list
          pc,                        \* where a thread is in its operation
          item                       \* the argument of Append, or the
                                     \* result of RemoveFront

vars == <<holder, waiting, resuming, list, pc, item>>
monitor == <<holder, waiting, resuming>>

M == INSTANCE Monitor WITH Lock <- {"lock"}, Condition <- {"listEmpty"},
                           LockOf <- [c \in {"listEmpty"} |-> "lock"]

(* "append", "removeFront"   has called, waits for the lock or for an item *)
(* "appended"                the item is in the list, Signal is next       *)
(* "leave"                   Release is next                               *)

Holds(t) == holder["lock"] = t
Sleepers == waiting["listEmpty"]

Init ==
  /\ M!Init
  /\ list = << >>
  /\ pc = [t \in Thread |-> "idle"]
  /\ item = [t \in Thread |-> NULL]

(* An item is in one place at a time, as a Mail object is. *)
CallAppend(t, i) ==
  /\ pc[t] = "idle"
  /\ ~IsInList(list, i) /\ \A u \in Thread : item[u] # i
  /\ pc' = [pc EXCEPT ![t] = "append"]
  /\ item' = [item EXCEPT ![t] = i]
  /\ UNCHANGED <<monitor, list>>

CallRemoveFront(t) ==
  /\ pc[t] = "idle"
  /\ pc' = [pc EXCEPT ![t] = "removeFront"]
  /\ UNCHANGED <<monitor, list, item>>

(* lock->Acquire() *)
Acquire(t) ==
  /\ pc[t] \in {"append", "removeFront"}
  /\ ~Holds(t)
  /\ M!Acquire(t, "lock")
  /\ UNCHANGED <<list, pc, item>>

(* list->Append(item) *)
AppendItem(t) ==
  /\ pc[t] = "append" /\ Holds(t)
  /\ list' = Append(list, item[t])
  /\ pc' = [pc EXCEPT ![t] = "appended"]
  /\ UNCHANGED <<monitor, item>>

(* Mistake: Append signals only if the list was empty before. *)
SignalEmptyIfFirst(t) ==
  /\ pc[t] = "appended"
  /\ IF Len(list) = 1 /\ Sleepers # << >> THEN M!Signal(t, "listEmpty")
     ELSE UNCHANGED monitor
  /\ pc' = [pc EXCEPT ![t] = "leave"]
  /\ UNCHANGED <<list, item>>

(* listEmpty->Signal(lock) *)
SignalEmpty(t) ==
  /\ pc[t] = "appended"
  /\ IF Sleepers # << >> THEN M!Signal(t, "listEmpty") ELSE UNCHANGED monitor
  /\ pc' = [pc EXCEPT ![t] = "leave"]
  /\ UNCHANGED <<list, item>>

(* while (list->IsEmpty()) listEmpty->Wait(lock) *)
WaitForItem(t) ==
  /\ pc[t] = "removeFront" /\ Holds(t)
  /\ list = << >>
  /\ M!Wait(t, "listEmpty")
  /\ UNCHANGED <<list, pc, item>>

Resume(t) ==
  /\ M!Resume(t)
  /\ UNCHANGED <<list, pc, item>>

(* Mistake: the last item is removed. *)
RemoveLast(t) ==
  /\ pc[t] = "removeFront" /\ Holds(t)
  /\ list # << >>
  /\ item' = [item EXCEPT ![t] = list[Len(list)]]
  /\ list' = SubSeq(list, 1, Len(list) - 1)
  /\ pc' = [pc EXCEPT ![t] = "leave"]
  /\ UNCHANGED monitor

(* Mistake: the last item counts as none. *)
RemoveFrontOfTwo(t) ==
  /\ pc[t] = "removeFront" /\ Holds(t)
  /\ Len(list) > 1
  /\ item' = [item EXCEPT ![t] = Head(list)]
  /\ list' = Tail(list)
  /\ pc' = [pc EXCEPT ![t] = "leave"]
  /\ UNCHANGED monitor

(* item = list->RemoveFront() *)
RemoveFront(t) ==
  /\ pc[t] = "removeFront" /\ Holds(t)
  /\ list # << >>
  /\ item' = [item EXCEPT ![t] = Head(list)]
  /\ list' = Tail(list)
  /\ pc' = [pc EXCEPT ![t] = "leave"]
  /\ UNCHANGED monitor

(* lock->Release(), and return to the caller. *)
Release(t) ==
  /\ pc[t] = "leave"
  /\ M!Release(t, "lock")
  /\ pc' = [pc EXCEPT ![t] = "idle"]
  /\ item' = [item EXCEPT ![t] = NULL]
  /\ UNCHANGED list

Continue(t) ==
  \/ Acquire(t) \/ AppendItem(t) \/ SignalEmpty(t) \/ WaitForItem(t)
  \/ Resume(t) \/ RemoveFront(t) \/ Release(t)

Next ==
  \/ \E t \in Thread, i \in Item : CallAppend(t, i)
  \/ \E t \in Thread : CallRemoveFront(t)
  \/ \E t \in Thread : Continue(t)

Spec == Init /\ [][Next]_vars

(* A thread in an operation goes on when the scheduler gets to it. *)
FairSpec == Spec /\ \A t \in Thread : WF_vars(Continue(t))

-----------------------------------------------------------------------------
(* Threads that will look for an item without being signalled again. *)
Looking == {t \in Thread : pc[t] = "removeFront" /\ ~IsInList(Sleepers, t)}

(* The threads whose Append has put its item into the list and which have  *)
(* still to signal.                                                        *)
Signalling == {t \in Thread : pc[t] = "appended"}

(* No thread sleeps while there is an item for it: one Signal for each     *)
(* Append is enough, although a thread that has not waited can take the    *)
(* item the Signal was for.                                                *)
NobodySleepsBesideAnItem ==
  Sleepers # << >> =>
    Len(list) <= Cardinality(Looking) + Cardinality(Signalling)

(* As long as a thread is in RemoveFront, the first item does not stay     *)
(* there for ever.                                                         *)
ItemsAreTaken ==
  \A i \in Item :
    list # << >> /\ Head(list) = i /\ (\E t \in Thread : pc[t] = "removeFront")
      ~> list = << >> \/ Head(list) # i

Q == INSTANCE Queue WITH
       queue <- list,
       call <- [t \in Thread |->
                  IF pc[t] \in {"appended", "leave"} THEN "done" ELSE pc[t]]

(* A synchronized list is a queue: no item is lost, duplicated or taken    *)
(* out of order by concurrent Append and RemoveFront.                      *)
ImplementsQueue == Q!Spec
=============================================================================
