------------------------------- MODULE Queue -------------------------------
(***************************************************************************)
(* What threads/synchlist.h promises of a synchronized list: a first-in    *)
(* first-out queue whose operations take effect at one moment between call *)
(* and return, a RemoveFront only when there is an item.                   *)
(***************************************************************************)
EXTENDS Sequences

CONSTANTS Thread, Item, NULL

VARIABLES queue,  \* the items, oldest first
          call,   \* thread -> "idle", or what it waits for or has done
          item    \* thread -> the item of its call, NULL if it has none

vars == <<queue, call, item>>

Init ==
  /\ queue = << >>
  /\ call = [t \in Thread |-> "idle"]
  /\ item = [t \in Thread |-> NULL]

CallAppend(t, i) ==
  /\ call[t] = "idle"
  /\ call' = [call EXCEPT ![t] = "append"]
  /\ item' = [item EXCEPT ![t] = i]
  /\ UNCHANGED queue

DoAppend(t) ==
  /\ call[t] = "append"
  /\ queue' = Append(queue, item[t])
  /\ call' = [call EXCEPT ![t] = "done"]
  /\ UNCHANGED item

CallRemoveFront(t) ==
  /\ call[t] = "idle"
  /\ call' = [call EXCEPT ![t] = "removeFront"]
  /\ UNCHANGED <<queue, item>>

DoRemoveFront(t) ==
  /\ call[t] = "removeFront"
  /\ queue # << >>
  /\ item' = [item EXCEPT ![t] = Head(queue)]
  /\ queue' = Tail(queue)
  /\ call' = [call EXCEPT ![t] = "done"]

Return(t) ==
  /\ call[t] = "done"
  /\ call' = [call EXCEPT ![t] = "idle"]
  /\ item' = [item EXCEPT ![t] = NULL]
  /\ UNCHANGED queue

Next ==
  \E t \in Thread :
    \/ \E i \in Item : CallAppend(t, i)
    \/ DoAppend(t) \/ CallRemoveFront(t) \/ DoRemoveFront(t) \/ Return(t)

Spec == Init /\ [][Next]_vars
=============================================================================
