----------------------------- MODULE LibProofs -----------------------------
(***************************************************************************)
(* Proofs about what surrounds the kernel: module SynchList, of which the  *)
(* mailboxes are made, for any threads and items, module Kernel, for any   *)
(* number of processes started one after the other, and module Shell, for  *)
(* any text typed and any size of the buffer.                              *)
(***************************************************************************)
EXTENDS MCLib, ListsProofs, FiniteSetTheorems

(* The synchronized list. *)
ListTyped ==
  /\ holder \in [{"lock"} -> Thread \union {NULL}]
  /\ waiting \in [{"listEmpty"} -> Seq(Thread)]
  /\ resuming \in [Thread -> {"lock", NULL}]
  /\ slist \in Seq(Item)
  /\ spc \in [Thread -> {"idle", "append", "appended", "removeFront", "leave"}]
  /\ sitem \in [Thread -> Item \union {NULL}]
  /\ \A t \in Thread : spc[t] = "append" => sitem[t] \in Item

(* A thread that sleeps, or has to take the lock again, is in RemoveFront  *)
(* and does not hold the lock; one that has changed the list holds it.     *)
MonitorUsed ==
  /\ IsInjective(waiting["listEmpty"])
  /\ \A t \in Thread :
       /\ IsInList(waiting["listEmpty"], t) =>
            spc[t] = "removeFront" /\ resuming[t] = NULL /\ holder["lock"] # t
       /\ resuming[t] # NULL => spc[t] = "removeFront" /\ holder["lock"] # t
       /\ spc[t] \in {"appended", "leave"} => holder["lock"] = t

(* NobodySleepsBesideAnItem, with the operators of this module. *)
Lookers == {t \in Thread : /\ spc[t] = "removeFront"
                           /\ ~IsInList(waiting["listEmpty"], t)}
Signallers == {t \in Thread : spc[t] = "appended"}

Balanced ==
  waiting["listEmpty"] # << >> =>
    Len(slist) <= Cardinality(Lookers) + Cardinality(Signallers)

ListInv == ListTyped /\ MonitorUsed /\ Balanced

(* The operators that SynchList uses are those of this module. *)
LEMMA SameOperators ==
  /\ \A S : SL!IsFiniteSet(S) = IsFiniteSet(S)
  /\ \A S : SL!Cardinality(S) = Cardinality(S)
  /\ \A s, x : SL!IsInList(s, x) <=> IsInList(s, x)
<1>1. \A S : SL!IsFiniteSet(S) = IsFiniteSet(S)
  BY DEF SL!IsFiniteSet, IsFiniteSet
<1>2. \A S : SL!Cardinality(S) = Cardinality(S)
  BY DEF SL!Cardinality, Cardinality
<1>3. \A s, x : SL!IsInList(s, x) <=> IsInList(s, x)
  BY DEF SL!IsInList, IsInList, SL!Contains, Contains
<1> QED
  BY <1>1, <1>2, <1>3

(* So a list in balance is one beside which nobody sleeps. *)
LEMMA BalanceMeans == Balanced => SL!NobodySleepsBesideAnItem
<1>1. SL!Looking = Lookers
  BY SameOperators DEF SL!Looking, SL!Sleepers, Lookers
<1>2. SL!Signalling = Signallers
  BY DEF SL!Signalling, Signallers
<1> QED
  BY <1>1, <1>2, SameOperators
     DEF Balanced, SL!NobodySleepsBesideAnItem, SL!Sleepers

(* What the invariant says of the numbers of threads. *)
LEMMA CountFacts ==
  ASSUME SL!SynchListAssumption
  PROVE  /\ NULL \notin Thread /\ NULL # "lock"
         /\ \A V : V \subseteq Thread =>
              IsFiniteSet(V) /\ Cardinality(V) \in Nat
         /\ \A V, U : V \subseteq U /\ U \subseteq Thread =>
              Cardinality(V) <= Cardinality(U)
         /\ \A V, U : \A t \in Thread :
              V \subseteq Thread /\ t \notin V /\ U = V \union {t} =>
                Cardinality(U) = Cardinality(V) + 1
<1>1. IsFiniteSet(Thread) /\ NULL \notin Thread /\ NULL # "lock"
  BY SameOperators DEF SL!SynchListAssumption
<1>2. ASSUME NEW V, V \subseteq Thread
      PROVE  IsFiniteSet(V) /\ Cardinality(V) \in Nat
  <2>1. IsFiniteSet(V)
    BY <1>1, <1>2, FS_Subset
  <2> QED
    BY <2>1, FS_CardinalityType
<1>3. ASSUME NEW V, NEW U, V \subseteq U, U \subseteq Thread
      PROVE  Cardinality(V) <= Cardinality(U)
  <2>1. IsFiniteSet(U)
    BY <1>2, <1>3
  <2> QED
    BY <1>3, <2>1, FS_Subset
<1>4. ASSUME NEW V, NEW U, NEW t \in Thread, V \subseteq Thread, t \notin V,
             U = V \union {t}
      PROVE  Cardinality(U) = Cardinality(V) + 1
  <2>1. IsFiniteSet(V)
    BY <1>2, <1>4
  <2> QED
    BY <1>4, <2>1, FS_AddElement
<1> QED
  BY <1>1, <1>2, <1>3, <1>4

(* One more thread that looks for an item, or one that sleeps no longer,   *)
(* keeps the balance.                                                      *)
LEMMA BalanceKept ==
  ASSUME SL!SynchListAssumption, ListInv, slist' = slist,
         waiting' = waiting, Lookers \subseteq Lookers',
         Signallers' = Signallers
  PROVE  Balanced'
<1>1. /\ Lookers' \subseteq Thread /\ Lookers \subseteq Thread
      /\ Signallers \subseteq Thread
  BY DEF Lookers, Signallers
<1>2. Cardinality(Lookers) <= Cardinality(Lookers')
  BY <1>1, CountFacts
<1>3. /\ Cardinality(Lookers') \in Nat /\ Cardinality(Lookers) \in Nat
      /\ Cardinality(Signallers) \in Nat /\ Len(slist) \in Nat
  BY <1>1, CountFacts DEF ListInv, ListTyped
<1> QED
  BY <1>2, <1>3 DEF ListInv, Balanced

(* The steps that leave list and condition variable alone: the calls, and  *)
(* taking and releasing the lock.                                          *)
LEMMA CallsKeepBalance ==
  ASSUME SL!SynchListAssumption, ListInv, NEW t \in Thread,
         \/ \E e \in Item : SL!CallAppend(t, e)
         \/ SL!CallRemoveFront(t)
         \/ SL!Acquire(t)
         \/ SL!Resume(t)
         \/ SL!Release(t)
  PROVE  ListInv'
<1>1. ListTyped /\ MonitorUsed /\ NULL \notin Thread /\ NULL # "lock"
  BY CountFacts DEF ListInv
<1>2. waiting' = waiting /\ slist' = slist
  BY DEF SL!CallAppend, SL!CallRemoveFront, SL!Acquire, SL!M!Acquire, SL!Resume,
         SL!M!Resume, SL!Release, SL!M!Release, SL!monitor
<1>3. CASE \E e \in Item : SL!CallAppend(t, e)
  <2>1. ListTyped'
    BY <1>1, <1>3 DEF ListTyped, SL!CallAppend, SL!monitor
  <2>2. MonitorUsed'
    BY <1>1, <1>3 DEF ListTyped, MonitorUsed, SL!CallAppend, SL!monitor
  <2>3. Lookers' = Lookers /\ Signallers' = Signallers
    BY <1>1, <1>2, <1>3 DEF ListTyped, Lookers, Signallers, SL!CallAppend
  <2> QED
    BY <1>2, <2>1, <2>2, <2>3, BalanceKept DEF ListInv
<1>4. CASE SL!CallRemoveFront(t)
  <2>1. ListTyped'
    BY <1>1, <1>4 DEF ListTyped, SL!CallRemoveFront, SL!monitor
  <2>2. MonitorUsed'
    BY <1>1, <1>4 DEF ListTyped, MonitorUsed, SL!CallRemoveFront, SL!monitor
  <2>3. Lookers \subseteq Lookers' /\ Signallers' = Signallers
    BY <1>1, <1>2, <1>4 DEF ListTyped, Lookers, Signallers, SL!CallRemoveFront
  <2> QED
    BY <1>2, <2>1, <2>2, <2>3, BalanceKept DEF ListInv
<1>5. CASE SL!Acquire(t)
  <2>1. spc' = spc /\ sitem' = sitem /\ resuming' = resuming
        /\ holder["lock"] = NULL /\ resuming[t] = NULL
        /\ ~IsInList(waiting["listEmpty"], t)
        /\ holder' = [holder EXCEPT !["lock"] = t]
    BY <1>5 DEF SL!Acquire, SL!M!Acquire, SL!M!Asleep, IsInList, Contains
  <2>2. ListTyped'
    BY <1>1, <1>2, <2>1 DEF ListTyped
  <2>3. MonitorUsed'
    BY <1>1, <1>2, <2>1 DEF ListTyped, MonitorUsed
  <2>4. Lookers' = Lookers /\ Signallers' = Signallers
    BY <1>2, <2>1 DEF Lookers, Signallers
  <2> QED
    BY <1>2, <2>2, <2>3, <2>4, BalanceKept DEF ListInv
<1>6. CASE SL!Resume(t)
  <2>1. /\ spc' = spc /\ sitem' = sitem /\ resuming[t] = "lock"
        /\ holder["lock"] = NULL
        /\ holder' = [holder EXCEPT !["lock"] = t]
        /\ resuming' = [resuming EXCEPT ![t] = NULL]
    BY <1>1, <1>6 DEF SL!Resume, SL!M!Resume, ListTyped
  <2>2. ListTyped'
    BY <1>1, <1>2, <2>1 DEF ListTyped
  <2>3. MonitorUsed'
    BY <1>1, <1>2, <2>1 DEF ListTyped, MonitorUsed
  <2>4. Lookers' = Lookers /\ Signallers' = Signallers
    BY <1>2, <2>1 DEF Lookers, Signallers
  <2> QED
    BY <1>2, <2>2, <2>3, <2>4, BalanceKept DEF ListInv
<1>7. CASE SL!Release(t)
  <2>1. /\ resuming' = resuming /\ holder["lock"] = t /\ spc[t] = "leave"
        /\ holder' = [holder EXCEPT !["lock"] = NULL]
        /\ spc' = [spc EXCEPT ![t] = "idle"] /\ sitem' = [sitem EXCEPT ![t] = NULL]
    BY <1>7 DEF SL!Release, SL!M!Release
  <2>2. ListTyped'
    BY <1>1, <1>2, <2>1 DEF ListTyped
  <2>3. MonitorUsed'
    BY <1>1, <1>2, <2>1 DEF ListTyped, MonitorUsed
  <2>4. Lookers' = Lookers /\ Signallers' = Signallers
    BY <1>1, <1>2, <2>1 DEF ListTyped, Lookers, Signallers
  <2> QED
    BY <1>2, <2>2, <2>3, <2>4, BalanceKept DEF ListInv
<1> QED
  BY <1>3, <1>4, <1>5, <1>6, <1>7

(* An Append puts one item into the list and owes one signal. *)
LEMMA AppendKeepsBalance ==
  ASSUME SL!SynchListAssumption, ListInv, NEW t \in Thread, SL!AppendItem(t)
  PROVE  ListInv'
<1>1. /\ ListTyped /\ MonitorUsed /\ Balanced /\ NULL \notin Thread
      /\ Lookers \subseteq Thread /\ Signallers \subseteq Thread
  BY CountFacts DEF ListInv, Lookers, Signallers
<1>2. /\ holder' = holder /\ waiting' = waiting /\ resuming' = resuming
      /\ sitem' = sitem /\ spc' = [spc EXCEPT ![t] = "appended"]
      /\ slist' = Append(slist, sitem[t]) /\ spc[t] = "append" /\ holder["lock"] = t
  BY DEF SL!AppendItem, SL!monitor, SL!Holds
<1>3. ListTyped'
  BY <1>1, <1>2 DEF ListTyped
<1>4. MonitorUsed'
  BY <1>1, <1>2 DEF ListTyped, MonitorUsed
<1>5. Balanced'
  <2>1. Lookers' = Lookers /\ Signallers' = Signallers \union {t}
        /\ t \notin Signallers
    BY <1>1, <1>2 DEF ListTyped, Lookers, Signallers
  <2>2. Cardinality(Signallers') = Cardinality(Signallers) + 1
    BY <1>1, <2>1, CountFacts
  <2>3. Len(slist') = Len(slist) + 1
    BY <1>1, <1>2 DEF ListTyped
  <2>4. /\ Cardinality(Lookers) \in Nat /\ Cardinality(Signallers) \in Nat
        /\ Len(slist) \in Nat
    BY <1>1, CountFacts DEF ListTyped
  <2> QED
    BY <1>1, <1>2, <2>1, <2>2, <2>3, <2>4 DEF Balanced
<1> QED
  BY <1>3, <1>4, <1>5 DEF ListInv

(* The signal makes of a sleeper one that looks. *)
LEMMA SignalKeepsBalance ==
  ASSUME SL!SynchListAssumption, ListInv, NEW t \in Thread, SL!SignalEmpty(t)
  PROVE  ListInv'
<1>1. /\ ListTyped /\ MonitorUsed /\ Balanced
      /\ NULL \notin Thread /\ NULL # "lock"
      /\ Lookers \subseteq Thread /\ Signallers \subseteq Thread
  BY CountFacts DEF ListInv, Lookers, Signallers
<1>2. /\ slist' = slist /\ sitem' = sitem /\ holder' = holder
      /\ spc' = [spc EXCEPT ![t] = "leave"] /\ spc[t] = "appended"
  BY DEF SL!SignalEmpty, SL!M!Signal, SL!monitor
<1>3. PICK w \in Seq(Thread) : w = waiting["listEmpty"]
  BY <1>1 DEF ListTyped
<1>4. CASE w = << >>
  <2>1. waiting' = waiting /\ resuming' = resuming
    BY <1>3, <1>4 DEF SL!SignalEmpty, SL!monitor, SL!Sleepers
  <2>2. ListTyped'
    BY <1>1, <1>2, <2>1 DEF ListTyped
  <2>3. MonitorUsed'
    BY <1>1, <1>2, <2>1 DEF ListTyped, MonitorUsed
  <2>4. Balanced'
    BY <1>3, <1>4, <2>1 DEF Balanced
  <2> QED
    BY <2>2, <2>3, <2>4 DEF ListInv
<1>5. CASE w # << >>
  <2>1. PICK h \in Thread : h = Head(w)
    BY <1>5
  <2>2. /\ waiting' = [waiting EXCEPT !["listEmpty"] = Tail(w)]
        /\ resuming' = [resuming EXCEPT ![h] = "lock"]
    BY <1>3, <1>5, <2>1 DEF SL!SignalEmpty, SL!M!Signal, SL!Sleepers
  <2>3. /\ Tail(w) \in Seq(Thread) /\ IsInjective(Tail(w))
        /\ ~IsInList(Tail(w), h) /\ IsInList(w, h)
        /\ \A y : IsInList(w, y) <=> IsInList(Tail(w), y) \/ y = h
    BY <1>1, <1>3, <1>5, <2>1, TailFacts DEF MonitorUsed
  <2>4. waiting'["listEmpty"] = Tail(w)
    BY <1>1, <2>2 DEF ListTyped
  <2>5. spc[h] = "removeFront" /\ resuming[h] = NULL /\ holder["lock"] # h
    BY <1>1, <1>3, <2>3 DEF MonitorUsed
  <2>6. ListTyped'
    BY <1>1, <1>2, <2>2, <2>3 DEF ListTyped
  <2>7. MonitorUsed'
    BY <1>1, <1>2, <1>3, <2>2, <2>3, <2>4, <2>5 DEF ListTyped, MonitorUsed
  <2>8. Balanced'
    <3>1. /\ Lookers' = Lookers \union {h} /\ h \notin Lookers
          /\ Signallers = Signallers' \union {t} /\ t \notin Signallers'
          /\ Signallers' \subseteq Thread
      BY <1>1, <1>2, <1>3, <2>3, <2>4, <2>5 DEF ListTyped, Lookers, Signallers
    <3>2. Cardinality(Lookers') = Cardinality(Lookers) + 1
      BY <1>1, <3>1, CountFacts
    <3>3. Cardinality(Signallers) = Cardinality(Signallers') + 1
      BY <3>1, CountFacts
    <3>4. /\ Cardinality(Lookers) \in Nat /\ Cardinality(Signallers') \in Nat
          /\ Len(slist) \in Nat
      BY <1>1, <3>1, CountFacts DEF ListTyped
    <3> QED
      BY <1>1, <1>2, <1>3, <1>5, <3>2, <3>3, <3>4 DEF Balanced
  <2> QED
    BY <2>6, <2>7, <2>8 DEF ListInv
<1> QED
  BY <1>4, <1>5

(* A thread goes to sleep beside an empty list only. *)
LEMMA WaitKeepsBalance ==
  ASSUME SL!SynchListAssumption, ListInv, NEW t \in Thread, SL!WaitForItem(t)
  PROVE  ListInv'
<1>1. /\ ListTyped /\ MonitorUsed /\ NULL \notin Thread
      /\ Lookers' \subseteq Thread /\ Signallers' \subseteq Thread
  BY CountFacts DEF ListInv, Lookers, Signallers
<1>2. PICK w \in Seq(Thread) : w = waiting["listEmpty"]
  BY <1>1 DEF ListTyped
<1>3. /\ slist' = slist /\ slist = << >> /\ sitem' = sitem /\ spc' = spc
      /\ resuming' = resuming /\ spc[t] = "removeFront" /\ holder["lock"] = t
      /\ holder' = [holder EXCEPT !["lock"] = NULL]
      /\ waiting' = [waiting EXCEPT !["listEmpty"] = Append(w, t)]
  BY <1>2 DEF SL!WaitForItem, SL!M!Wait, SL!Holds
<1>4. ~IsInList(w, t) /\ resuming[t] = NULL
  BY <1>1, <1>2, <1>3 DEF MonitorUsed
<1>5. /\ Append(w, t) \in Seq(Thread) /\ IsInjective(Append(w, t))
      /\ \A y : IsInList(Append(w, t), y) <=> IsInList(w, y) \/ y = t
  BY <1>1, <1>2, <1>4, AppendFacts DEF MonitorUsed
<1>6. ListTyped'
  BY <1>1, <1>3, <1>5 DEF ListTyped
<1>7. MonitorUsed'
  BY <1>1, <1>2, <1>3, <1>4, <1>5 DEF ListTyped, MonitorUsed
<1>8. Balanced'
  <2>1. Cardinality(Lookers') \in Nat /\ Cardinality(Signallers') \in Nat
    BY <1>1, CountFacts
  <2>2. Len(slist') = 0
    BY <1>3
  <2> QED
    BY <2>1, <2>2 DEF Balanced
<1> QED
  BY <1>6, <1>7, <1>8 DEF ListInv

(* A thread that takes an item looks no longer. *)
LEMMA RemoveKeepsBalance ==
  ASSUME SL!SynchListAssumption, ListInv, NEW t \in Thread, SL!RemoveFront(t)
  PROVE  ListInv'
<1>1. /\ ListTyped /\ MonitorUsed /\ Balanced
      /\ Lookers \subseteq Thread /\ Signallers \subseteq Thread
  BY DEF ListInv, Lookers, Signallers
<1>2. /\ holder' = holder /\ waiting' = waiting /\ resuming' = resuming
      /\ spc[t] = "removeFront" /\ holder["lock"] = t /\ slist # << >>
      /\ sitem' = [sitem EXCEPT ![t] = Head(slist)] /\ slist' = Tail(slist)
      /\ spc' = [spc EXCEPT ![t] = "leave"]
  BY DEF SL!RemoveFront, SL!monitor, SL!Holds
<1>3. /\ Head(slist) \in Item /\ Tail(slist) \in Seq(Item)
      /\ Len(slist') = Len(slist) - 1
  BY <1>1, <1>2 DEF ListTyped
<1>4. ListTyped'
  BY <1>1, <1>2, <1>3 DEF ListTyped
<1>5. ~IsInList(waiting["listEmpty"], t) /\ resuming[t] = NULL
  BY <1>1, <1>2 DEF MonitorUsed
<1>6. MonitorUsed'
  BY <1>1, <1>2, <1>5 DEF ListTyped, MonitorUsed
<1>7. Balanced'
  <2>1. /\ Lookers = Lookers' \union {t} /\ t \notin Lookers'
        /\ Lookers' \subseteq Thread /\ Signallers' = Signallers
    BY <1>1, <1>2, <1>5 DEF ListTyped, Lookers, Signallers
  <2>2. Cardinality(Lookers) = Cardinality(Lookers') + 1
    BY <2>1, CountFacts
  <2>3. /\ Cardinality(Lookers') \in Nat /\ Cardinality(Signallers) \in Nat
        /\ Len(slist) \in Nat
    BY <1>1, <2>1, CountFacts DEF ListTyped
  <2> QED
    BY <1>1, <1>2, <1>3, <2>1, <2>2, <2>3 DEF Balanced
<1> QED
  BY <1>4, <1>6, <1>7 DEF ListInv

(* Every step of the list keeps the invariant. *)
LEMMA ListKeepsInv ==
  SL!SynchListAssumption /\ ListInv /\ [SL!Next]_(SL!vars) => ListInv'
<1> SUFFICES ASSUME SL!SynchListAssumption, ListInv, [SL!Next]_(SL!vars)
             PROVE  ListInv'
  OBVIOUS
<1>1. CASE UNCHANGED SL!vars
  BY <1>1 DEF SL!vars, ListInv, ListTyped, MonitorUsed, Balanced, Lookers,
              Signallers
<1>2. CASE SL!Next
  BY <1>2, CallsKeepBalance, AppendKeepsBalance, SignalKeepsBalance,
     WaitKeepsBalance, RemoveKeepsBalance DEF SL!Next, SL!Continue
<1> QED
  BY <1>1, <1>2

(* Initially the list is empty and nobody uses it. *)
LEMMA ListInit == SL!SynchListAssumption /\ SL!Init => ListInv
<1> SUFFICES ASSUME SL!SynchListAssumption, SL!Init PROVE ListInv
  OBVIOUS
<1>1. ListTyped
  BY DEF SL!Init, SL!M!Init, ListTyped
<1>2. MonitorUsed
  BY DEF SL!Init, SL!M!Init, MonitorUsed, IsInList, Contains, IsInjective
<1>3. Balanced
  BY DEF SL!Init, SL!M!Init, Balanced
<1> QED
  BY <1>1, <1>2, <1>3 DEF ListInv

(* No thread sleeps in SynchList::RemoveFront while there is an item for   *)
(* it: one Signal for each Append is enough, also when a thread that has   *)
(* not waited takes the item the Signal was for.                           *)
THEOREM NobodySleepsInVain ==
  ASSUME SL!SynchListAssumption
  PROVE  SL!Spec => []SL!NobodySleepsBesideAnItem
<1>1. SL!Init => ListInv
  BY ListInit
<1>2. ListInv /\ [SL!Next]_(SL!vars) => ListInv'
  BY ListKeepsInv
<1>3. ListInv => SL!NobodySleepsBesideAnItem
  BY BalanceMeans DEF ListInv
<1> QED
  BY <1>1, <1>2, <1>3, PTL DEF SL!Spec

(* Each step of the list is one of a queue, or does not show: AppendItem   *)
(* and RemoveFront are the moments at which the operations take effect.    *)
LEMMA ListStepOnQueue ==
  ASSUME ListInv, [SL!Next]_(SL!vars) PROVE [SL!Q!Next]_(SL!Q!vars)
<1> DEFINE Call(p) == IF p \in {"appended", "leave"} THEN "done" ELSE p
           call == [t \in Thread |-> Call(spc[t])]
<1>1. spc \in [Thread -> {"idle", "append", "appended", "removeFront", "leave"}]
  BY DEF ListInv, ListTyped
<1>2. ASSUME NEW t \in Thread, NEW to, spc' = [spc EXCEPT ![t] = to]
      PROVE  call' = [call EXCEPT ![t] = Call(to)]
  BY <1>1, <1>2
<1>3. ASSUME spc' = spc, slist' = slist, sitem' = sitem PROVE UNCHANGED SL!Q!vars
  BY <1>3 DEF SL!Q!vars
<1>4. ASSUME NEW t \in Thread, NEW e \in Item, SL!CallAppend(t, e)
      PROVE  SL!Q!Next
  <2>1. call[t] = "idle" /\ call' = [call EXCEPT ![t] = "append"]
    BY <1>2, <1>4 DEF SL!CallAppend
  <2>2. SL!Q!CallAppend(t, e)
    BY <1>4, <2>1 DEF SL!CallAppend, SL!Q!CallAppend
  <2> QED
    BY <2>2 DEF SL!Q!Next
<1>5. ASSUME NEW t \in Thread, SL!CallRemoveFront(t) PROVE SL!Q!Next
  <2>1. call[t] = "idle" /\ call' = [call EXCEPT ![t] = "removeFront"]
    BY <1>2, <1>5 DEF SL!CallRemoveFront
  <2>2. SL!Q!CallRemoveFront(t)
    BY <1>5, <2>1 DEF SL!CallRemoveFront, SL!Q!CallRemoveFront
  <2> QED
    BY <2>2 DEF SL!Q!Next
<1>6. ASSUME NEW t \in Thread, SL!Continue(t) PROVE [SL!Q!Next]_(SL!Q!vars)
  <2>1. CASE SL!Acquire(t) \/ SL!WaitForItem(t) \/ SL!Resume(t)
    BY <1>3, <2>1 DEF SL!Acquire, SL!WaitForItem, SL!Resume
  <2>2. CASE SL!AppendItem(t)
    <3>1. call[t] = "append" /\ call' = [call EXCEPT ![t] = "done"]
      BY <1>2, <2>2 DEF SL!AppendItem
    <3>2. SL!Q!DoAppend(t)
      BY <2>2, <3>1 DEF SL!AppendItem, SL!Q!DoAppend
    <3> QED
      BY <3>2 DEF SL!Q!Next
  <2>3. CASE SL!SignalEmpty(t)
    <3>1. call[t] = "done" /\ call' = [call EXCEPT ![t] = "done"]
      BY <1>2, <2>3 DEF SL!SignalEmpty
    <3>2. call' = call /\ slist' = slist /\ sitem' = sitem
      BY <2>3, <3>1 DEF SL!SignalEmpty
    <3> QED
      BY <3>2 DEF SL!Q!vars
  <2>4. CASE SL!RemoveFront(t)
    <3>1. call[t] = "removeFront" /\ call' = [call EXCEPT ![t] = "done"]
      BY <1>2, <2>4 DEF SL!RemoveFront
    <3>2. SL!Q!DoRemoveFront(t)
      BY <2>4, <3>1 DEF SL!RemoveFront, SL!Q!DoRemoveFront
    <3> QED
      BY <3>2 DEF SL!Q!Next
  <2>5. CASE SL!Release(t)
    <3>1. call[t] = "done" /\ call' = [call EXCEPT ![t] = "idle"]
      BY <1>2, <2>5 DEF SL!Release
    <3>2. SL!Q!Return(t)
      BY <2>5, <3>1 DEF SL!Release, SL!Q!Return
    <3> QED
      BY <3>2 DEF SL!Q!Next
  <2> QED
    BY <1>6, <2>1, <2>2, <2>3, <2>4, <2>5 DEF SL!Continue
<1>7. CASE UNCHANGED SL!vars
  BY <1>3, <1>7 DEF SL!vars
<1> QED
  BY <1>4, <1>5, <1>6, <1>7 DEF SL!Next

(* A synchronized list is a first-in first-out queue: no item is lost,     *)
(* duplicated or taken out of order by concurrent Append and RemoveFront.  *)
THEOREM SynchListIsQueue ==
  ASSUME SL!SynchListAssumption
  PROVE  SL!Spec => SL!ImplementsQueue
<1>1. SL!Init => ListInv /\ SL!Q!Init
  <2> SUFFICES ASSUME SL!Init PROVE SL!Q!Init
    BY ListInit
  <2> QED
    BY DEF SL!Init, SL!Q!Init
<1>2. ListInv /\ [SL!Next]_(SL!vars) => ListInv'
  BY ListKeepsInv
<1>3. ListInv /\ [SL!Next]_(SL!vars) => [SL!Q!Next]_(SL!Q!vars)
  BY ListStepOnQueue
<1> QED
  BY <1>1, <1>2, <1>3, PTL DEF SL!Spec, SL!Q!Spec, SL!ImplementsQueue

-----------------------------------------------------------------------------
(* Starting and stopping: the objects and effects of the steps of main.    *)
Object ==
  {"threadManager", "currentThread", "stats", "interrupt", "scheduler",
   "alarm", "machine", "consoleInLock", "consoleInWaitFor",
   "synchConsoleIn", "display", "consoleOutWaitFor", "synchConsoleOut",
   "diskSemaphore", "disk", "synchDisk", "fileSystem", "messageAvailable",
   "boxes", "postalWorker", "postOfficeIn", "messageSent", "networkOutput",
   "postOfficeOut", "memoryManager"}
Effect ==
  {"nothing", "enable", "disable", "timer", "console", "network",
   "openDisk", "writeMagic", "extendDisk", "readDisk", "unlinkName",
   "bindName", "CallOnUserAbort", "wait", "halt"}
StepRecord == [makes : SUBSET Object, uses : SUBSET Object, does : Effect]

(* The devices whose interrupt may be pending once the effects of D have   *)
(* been had, and that their handlers find what they use among the objects  *)
(* of M.                                                                   *)

Scheduled(D) ==
  {d \in {"timer", "console", "network", "disk"} :
     IF d = "disk" THEN "readDisk" \in D ELSE d \in D}

Handled(M, D) == \A d \in Scheduled(D) : N!HandlerUses(d) \subseteq M

(* What a step of main relies on: that the objects of M exist and that the *)
(* effects of D have been had, and no others.                              *)
StepOk(M, D, s) ==
  /\ s.uses \subseteq M
  /\ s.does \in {"enable", "wait"} => Handled(M, D)
  /\ s.does = "readDisk" =>
       Handled(M, D \union {"readDisk"}) /\ "extendDisk" \in D
  /\ s.does \in {"timer", "console", "network", "readDisk"} => "enable" \notin D
  /\ s.does = "openDisk" =>
       "openDisk" \notin D /\ "writeMagic" \notin D /\ "extendDisk" \notin D
  /\ s.does = "writeMagic" => "extendDisk" \notin D
  /\ s.does = "bindName" => "unlinkName" \in D /\ "bindName" \notin D
  /\ s.does \in {"CallOnUserAbort", "halt"} =>
       "postOfficeIn" \in M /\ "extendDisk" \in D

(* What exists and what has been done before step k of p. *)
MadeBefore(M, p, k) == M \union UNION {p[j].makes : j \in 1..(k - 1)}
DoneBefore(D, p, k) == D \union {p[j].does : j \in 1..(k - 1)}

(* The steps of Disk::Disk that open or make the file are together. *)
DiskIsMadeAt(p, k) ==
  p[k].does = "openDisk" =>
    /\ k + 2 <= Len(p)
    /\ p[k].makes = {}
    /\ p[k + 1].makes = {} /\ p[k + 1].does = "writeMagic"
    /\ p[k + 2].makes = {} /\ p[k + 2].does = "extendDisk"

(* Every step of p finds what it relies on. *)
Safe(M, D, p) ==
  /\ p \in Seq(StepRecord)
  /\ \A k \in 1..Len(p) :
       /\ StepOk(MadeBefore(M, p, k), DoneBefore(D, p, k), p[k])
       /\ DiskIsMadeAt(p, k)

(* ... and p leaves the objects of M2 and the effects of D2. *)
Leads(M, D, p, M2, D2) ==
  /\ Safe(M, D, p)
  /\ M2 = MadeBefore(M, p, Len(p) + 1)
  /\ D2 = DoneBefore(D, p, Len(p) + 1)

LEMMA SafeStep ==
  ASSUME NEW M, NEW D, NEW p, Safe(M, D, p), p # << >>
  PROVE  /\ Head(p) \in StepRecord
         /\ StepOk(M, D, Head(p))
         /\ Safe(M \union Head(p).makes, D \union {Head(p).does}, Tail(p))
         /\ DiskIsMadeAt(p, 1)
         /\ 1 \in 1..Len(p)
<1> DEFINE h == Head(p)
           q == Tail(p)
           M1 == M \union h.makes
           D1 == D \union {h.does}
<1>1. /\ p \in Seq(StepRecord) /\ Len(p) \in Nat /\ 1 \in 1..Len(p)
      /\ h = p[1] /\ h \in StepRecord
      /\ q \in Seq(StepRecord) /\ Len(q) = Len(p) - 1
      /\ \A k \in 1..Len(q) : q[k] = p[k + 1]
  BY DEF Safe
<1> HIDE DEF h, q
<1>2. MadeBefore(M, p, 1) = M /\ DoneBefore(D, p, 1) = D
  BY DEF MadeBefore, DoneBefore
<1>3. ASSUME NEW k \in 1..Len(q)
      PROVE  /\ MadeBefore(M1, q, k) = MadeBefore(M, p, k + 1)
             /\ DoneBefore(D1, q, k) = DoneBefore(D, p, k + 1)
  <2>1. \A j \in 1..(k - 1) : j + 1 \in 1..k /\ q[j] = p[j + 1]
    BY <1>1
  <2>2. \A j \in 1..k : j = 1 \/ (j - 1 \in 1..(k - 1) /\ q[j - 1] = p[j])
    BY <1>1
  <2>3. 1 \in 1..k /\ (k + 1) - 1 = k
    OBVIOUS
  <2>4. ASSUME NEW x PROVE x \in MadeBefore(M1, q, k) <=> x \in MadeBefore(M, p, k + 1)
    <3>1. x \in MadeBefore(M1, q, k) <=>
            x \in M \/ x \in p[1].makes \/ \E j \in 1..(k - 1) : x \in q[j].makes
      BY <1>1 DEF MadeBefore
    <3>2. x \in MadeBefore(M, p, k + 1) <=>
            x \in M \/ \E j \in 1..k : x \in p[j].makes
      BY <2>3 DEF MadeBefore
    <3> QED
      BY <2>1, <2>2, <2>3, <3>1, <3>2
  <2>5. ASSUME NEW x PROVE x \in DoneBefore(D1, q, k) <=> x \in DoneBefore(D, p, k + 1)
    <3>1. x \in DoneBefore(D1, q, k) <=>
            x \in D \/ x = p[1].does \/ \E j \in 1..(k - 1) : x = q[j].does
      BY <1>1 DEF DoneBefore
    <3>2. x \in DoneBefore(D, p, k + 1) <=> x \in D \/ \E j \in 1..k : x = p[j].does
      BY <2>3 DEF DoneBefore
    <3> QED
      BY <2>1, <2>2, <2>3, <3>1, <3>2
  <2> QED
    BY <2>4, <2>5
<1>4. ASSUME NEW k \in 1..Len(q)
      PROVE  /\ StepOk(MadeBefore(M1, q, k), DoneBefore(D1, q, k), q[k])
             /\ DiskIsMadeAt(q, k)
  <2>1. k + 1 \in 1..Len(p) /\ q[k] = p[k + 1]
    BY <1>1
  <2>2. StepOk(MadeBefore(M, p, k + 1), DoneBefore(D, p, k + 1), p[k + 1])
    BY <2>1 DEF Safe
  <2>3. DiskIsMadeAt(p, k + 1)
    BY <2>1 DEF Safe
  <2>4. DiskIsMadeAt(q, k)
    BY <1>1, <2>1, <2>3 DEF DiskIsMadeAt
  <2> QED
    BY <1>3, <2>1, <2>2, <2>4
<1>5. Safe(M1, D1, q)
  BY <1>1, <1>4 DEF Safe
<1>6. StepOk(M, D, h) /\ DiskIsMadeAt(p, 1)
  BY <1>1, <1>2 DEF Safe
<1> QED
  BY <1>1, <1>5, <1>6 DEF h, q

LEMMA LeadsConcat ==
  ASSUME NEW M, NEW D, NEW p, NEW M1, NEW D1, Leads(M, D, p, M1, D1),
         NEW q, NEW M2, NEW D2, Leads(M1, D1, q, M2, D2)
  PROVE  Leads(M, D, p \o q, M2, D2)
<1> DEFINE r == p \o q
<1>1. /\ p \in Seq(StepRecord) /\ q \in Seq(StepRecord)
      /\ Len(p) \in Nat /\ Len(q) \in Nat
  BY DEF Leads, Safe
<1>2. /\ r \in Seq(StepRecord) /\ Len(r) = Len(p) + Len(q)
      /\ \A k \in 1..Len(p) : r[k] = p[k]
      /\ \A k \in 1..Len(q) : r[Len(p) + k] = q[k]
  BY <1>1
<1> HIDE DEF r
<1>3. ASSUME NEW k \in 1..(Len(p) + 1)
      PROVE  /\ MadeBefore(M, r, k) = MadeBefore(M, p, k)
             /\ DoneBefore(D, r, k) = DoneBefore(D, p, k)
  <2>1. \A j \in 1..(k - 1) : r[j] = p[j]
    BY <1>1, <1>2
  <2> QED
    BY <2>1 DEF MadeBefore, DoneBefore
<1>4. ASSUME NEW k \in 1..(Len(q) + 1)
      PROVE  /\ MadeBefore(M, r, Len(p) + k) = MadeBefore(M1, q, k)
             /\ DoneBefore(D, r, Len(p) + k) = DoneBefore(D1, q, k)
  <2> DEFINE n == Len(p)
  <2>1. \A j \in 1..(k - 1) : n + j \in 1..((n + k) - 1) /\ r[n + j] = q[j]
    BY <1>1, <1>2
  <2>2. \A j \in 1..n : j \in 1..((n + k) - 1) /\ r[j] = p[j]
    BY <1>1, <1>2
  <2>3. \A j \in 1..((n + k) - 1) :
          j \in 1..n \/ (j - n \in 1..(k - 1) /\ r[j] = q[j - n])
    <3> SUFFICES ASSUME NEW j \in 1..((n + k) - 1), j \notin 1..n
                 PROVE  j - n \in 1..(k - 1) /\ r[j] = q[j - n]
      OBVIOUS
    <3>1. j - n \in 1..(k - 1) /\ j - n \in 1..Len(q) /\ n + (j - n) = j
      BY <1>1
    <3> QED
      BY <1>2, <3>1
  <2>4. M1 = M \union UNION {p[j].makes : j \in 1..n}
    BY <1>1 DEF Leads, MadeBefore
  <2>5. D1 = D \union {p[j].does : j \in 1..n}
    BY <1>1 DEF Leads, DoneBefore
  <2> HIDE DEF n
  <2>6. ASSUME NEW x
        PROVE  x \in MadeBefore(M, r, n + k) <=> x \in MadeBefore(M1, q, k)
    <3>1. x \in MadeBefore(M, r, n + k) <=>
            x \in M \/ \E j \in 1..((n + k) - 1) : x \in r[j].makes
      BY DEF MadeBefore
    <3>2. x \in MadeBefore(M1, q, k) <=>
            \/ x \in M
            \/ \E j \in 1..n : x \in p[j].makes
            \/ \E j \in 1..(k - 1) : x \in q[j].makes
      BY <2>4 DEF MadeBefore
    <3> QED
      BY <2>1, <2>2, <2>3, <3>1, <3>2
  <2>7. ASSUME NEW x
        PROVE  x \in DoneBefore(D, r, n + k) <=> x \in DoneBefore(D1, q, k)
    <3>1. x \in DoneBefore(D, r, n + k) <=>
            x \in D \/ \E j \in 1..((n + k) - 1) : x = r[j].does
      BY DEF DoneBefore
    <3>2. x \in DoneBefore(D1, q, k) <=>
            \/ x \in D
            \/ \E j \in 1..n : x = p[j].does
            \/ \E j \in 1..(k - 1) : x = q[j].does
      BY <2>5 DEF DoneBefore
    <3> QED
      BY <2>1, <2>2, <2>3, <3>1, <3>2
  <2> QED
    BY <2>6, <2>7 DEF n
<1>5. ASSUME NEW k \in 1..Len(r)
      PROVE  /\ StepOk(MadeBefore(M, r, k), DoneBefore(D, r, k), r[k])
             /\ DiskIsMadeAt(r, k)
  <2>1. CASE k \in 1..Len(p)
    <3>1. /\ k \in 1..(Len(p) + 1) /\ r[k] = p[k]
          /\ StepOk(MadeBefore(M, p, k), DoneBefore(D, p, k), p[k])
          /\ DiskIsMadeAt(p, k)
      BY <1>1, <1>2, <2>1 DEF Leads, Safe
    <3>2. DiskIsMadeAt(r, k)
      <4>1. CASE k + 2 <= Len(p)
        <5>1. k + 1 \in 1..Len(p) /\ k + 2 \in 1..Len(p) /\ k + 2 <= Len(r)
          BY <1>1, <1>2, <4>1
        <5>2. r[k + 1] = p[k + 1] /\ r[k + 2] = p[k + 2]
          BY <1>2, <5>1
        <5> QED
          BY <3>1, <5>1, <5>2 DEF DiskIsMadeAt
      <4>2. CASE ~(k + 2 <= Len(p))
        BY <3>1, <4>2 DEF DiskIsMadeAt
      <4> QED
        BY <4>1, <4>2
    <3> QED
      BY <1>3, <3>1, <3>2
  <2>2. CASE k \notin 1..Len(p)
    <3>1. PICK m \in 1..Len(q) : k = Len(p) + m
      <4>1. k - Len(p) \in 1..Len(q) /\ k = Len(p) + (k - Len(p))
        BY <1>1, <1>2, <2>2
      <4> QED
        BY <4>1
    <3>2. /\ m \in 1..(Len(q) + 1) /\ r[k] = q[m]
          /\ StepOk(MadeBefore(M1, q, m), DoneBefore(D1, q, m), q[m])
          /\ DiskIsMadeAt(q, m)
      BY <1>1, <1>2, <3>1 DEF Leads, Safe
    <3>3. DiskIsMadeAt(r, k)
      <4>1. CASE m + 2 <= Len(q)
        <5>1. /\ r[k + 1] = q[m + 1] /\ r[k + 2] = q[m + 2] /\ k + 2 <= Len(r)
              /\ r[k] = q[m]
          <6>1. /\ m + 1 \in 1..Len(q) /\ m + 2 \in 1..Len(q)
                /\ k + 1 = Len(p) + (m + 1) /\ k + 2 = Len(p) + (m + 2)
            BY <1>1, <3>1, <4>1
          <6>2. r[Len(p) + (m + 1)] = q[m + 1] /\ r[Len(p) + (m + 2)] = q[m + 2]
            BY <1>2, <6>1
          <6>3. k + 2 <= Len(r)
            BY <1>1, <1>2, <3>1, <4>1
          <6> QED
            BY <3>2, <6>1, <6>2, <6>3
        <5> QED
          BY <3>2, <5>1 DEF DiskIsMadeAt
      <4>2. CASE ~(m + 2 <= Len(q))
        BY <3>2, <4>2 DEF DiskIsMadeAt
      <4> QED
        BY <4>1, <4>2
    <3> QED
      BY <1>4, <3>1, <3>2, <3>3
  <2> QED
    BY <2>1, <2>2
<1>6. Safe(M, D, r)
  BY <1>2, <1>5 DEF Safe
<1>7. M2 = MadeBefore(M, r, Len(r) + 1) /\ D2 = DoneBefore(D, r, Len(r) + 1)
  <2>1. Len(q) + 1 \in 1..(Len(q) + 1) /\ Len(p) + (Len(q) + 1) = Len(r) + 1
    BY <1>1, <1>2
  <2> QED
    BY <1>4, <2>1 DEF Leads
<1> QED
  BY <1>6, <1>7 DEF Leads, r

LEMMA LeadsNowhere == \A M, D : Leads(M, D, << >>, M, D)
BY DEF Leads, Safe, MadeBefore, DoneBefore

LEMMA LeadsOne ==
  ASSUME NEW M, NEW D, NEW s \in StepRecord, StepOk(M, D, s),
         s.does # "openDisk",
         NEW M2, M2 = M \union s.makes, NEW D2, D2 = D \union {s.does}
  PROVE  Leads(M, D, <<s>>, M2, D2)
<1> DEFINE p == <<s>>
<1>1. p \in Seq(StepRecord) /\ Len(p) = 1 /\ p[1] = s
  OBVIOUS
<1> HIDE DEF p
<1>2. MadeBefore(M, p, 1) = M /\ DoneBefore(D, p, 1) = D
  BY DEF MadeBefore, DoneBefore
<1>3. MadeBefore(M, p, 2) = M2 /\ DoneBefore(D, p, 2) = D2
  <2>1. 1..(2 - 1) = {1}
    OBVIOUS
  <2> QED
    BY <1>1, <2>1 DEF MadeBefore, DoneBefore
<1>4. \A k \in 1..Len(p) : k = 1
  BY <1>1
<1>5. DiskIsMadeAt(p, 1)
  BY <1>1 DEF DiskIsMadeAt
<1>6. Safe(M, D, p)
  BY <1>1, <1>2, <1>4, <1>5 DEF Safe
<1> QED
  BY <1>1, <1>3, <1>6 DEF Leads, p

(* A constructor that makes one object and touches nothing else. *)
LEMMA MakesLeads ==
  ASSUME NEW M, NEW D, NEW object \in Object,
         NEW M2, M2 = M \union {object}, NEW D2, D2 = D \union {"nothing"}
  PROVE  Leads(M, D, N!Makes(object), M2, D2)
<1> DEFINE s == N!Step({object}, {}, "nothing")
<1>1. /\ s \in StepRecord /\ s.makes = {object} /\ s.uses = {}
      /\ s.does = "nothing"
  BY DEF N!Step, StepRecord, Object, Effect
<1> HIDE DEF s
<1>2. StepOk(M, D, s)
  BY <1>1 DEF StepOk
<1>3. Leads(M, D, <<s>>, M2, D2)
  BY <1>1, <1>2, LeadsOne
<1> QED
  BY <1>3 DEF N!Makes, s

(* Interrupt::Schedule, before interrupts are enabled for the first time. *)
LEMMA ScheduleLeads ==
  ASSUME NEW M, NEW D, NEW device \in {"timer", "console", "network"},
         "interrupt" \in M, "stats" \in M, "enable" \notin D,
         NEW D2, D2 = D \union {device}
  PROVE  Leads(M, D, N!Schedule(device), M, D2)
<1> DEFINE s == N!Step({}, {"interrupt", "stats"}, device)
<1>1. /\ s \in StepRecord /\ s.makes = {} /\ s.uses = {"interrupt", "stats"}
      /\ s.does = device
  BY DEF N!Step, StepRecord, Object, Effect
<1> HIDE DEF s
<1>2. StepOk(M, D, s)
  BY <1>1 DEF StepOk
<1>3. M = M \union s.makes
  BY <1>1
<1>4. Leads(M, D, <<s>>, M, D2)
  BY <1>1, <1>2, <1>3, LeadsOne
<1> QED
  BY <1>4 DEF N!Schedule, s

(* What the handlers use, all of them or all but the network's. *)
InterruptObjects ==
  {"interrupt", "stats", "scheduler", "disk", "diskSemaphore",
   "consoleInWaitFor"}

LEMMA HandledFacts ==
  ASSUME NEW M, NEW D, InterruptObjects \subseteq M,
         "network" \in D => "messageAvailable" \in M
  PROVE  Handled(M, D)
<1> SUFFICES ASSUME NEW d \in Scheduled(D) PROVE N!HandlerUses(d) \subseteq M
  BY DEF Handled
<1>1. /\ d \in {"timer", "console", "network", "disk"}
      /\ d = "network" => "network" \in D
  BY DEF Scheduled
<1>2. /\ "interrupt" \in M /\ "stats" \in M /\ "scheduler" \in M
      /\ "disk" \in M /\ "diskSemaphore" \in M /\ "consoleInWaitFor" \in M
  BY DEF InterruptObjects
<1>3. CASE d = "timer"
  BY <1>2, <1>3 DEF N!HandlerUses
<1>4. CASE d = "console"
  BY <1>2, <1>4 DEF N!HandlerUses
<1>5. CASE d = "network"
  BY <1>1, <1>2, <1>5 DEF N!HandlerUses
<1>6. CASE d = "disk"
  BY <1>2, <1>6 DEF N!HandlerUses
<1> QED
  BY <1>1, <1>3, <1>4, <1>5, <1>6

(* SynchConsoleInput and SynchConsoleOutput. *)
LEMMA ConsoleLeads ==
  ASSUME NEW M, NEW D, "interrupt" \in M, "stats" \in M, "enable" \notin D
  PROVE  /\ Leads(M, D, N!NewSynchConsoleIn,
                  M \union {"consoleInLock", "consoleInWaitFor", "synchConsoleIn"},
                  D \union {"console", "nothing"})
         /\ Leads(M, D, N!NewSynchConsoleOut,
                  M \union {"display", "consoleOutWaitFor", "synchConsoleOut"},
                  D \union {"nothing"})
<1>1. PICK M1 : M1 = M \union {"consoleInLock"}
  OBVIOUS
<1>2. PICK M2 : M2 = M1 \union {"consoleInWaitFor"}
  OBVIOUS
<1>3. PICK M3 : M3 = M2 \union {"synchConsoleIn"}
  OBVIOUS
<1>4. PICK D1 : D1 = D \union {"console"}
  OBVIOUS
<1>5. PICK D2 : D2 = D1 \union {"nothing"}
  OBVIOUS
<1>6. D2 = D2 \union {"nothing"}
  BY <1>5
<1>7. Leads(M, D, N!Schedule("console"), M, D1)
  BY <1>4, ScheduleLeads
<1>8. Leads(M, D1, N!Makes("consoleInLock"), M1, D2)
  BY <1>1, <1>5, MakesLeads DEF Object
<1>9. Leads(M1, D2, N!Makes("consoleInWaitFor"), M2, D2)
  BY <1>2, <1>6, MakesLeads DEF Object
<1>10. Leads(M2, D2, N!Makes("synchConsoleIn"), M3, D2)
  BY <1>3, <1>6, MakesLeads DEF Object
<1>11. Leads(M, D, N!NewSynchConsoleIn, M3, D2)
  <2>1. Leads(M, D, N!Schedule("console") \o N!Makes("consoleInLock"), M1, D2)
    BY <1>7, <1>8, LeadsConcat
  <2>2. Leads(M, D, N!Schedule("console") \o N!Makes("consoleInLock")
                      \o N!Makes("consoleInWaitFor"), M2, D2)
    BY <1>9, <2>1, LeadsConcat
  <2>3. Leads(M, D, N!Schedule("console") \o N!Makes("consoleInLock")
                      \o N!Makes("consoleInWaitFor")
                      \o N!Makes("synchConsoleIn"), M3, D2)
    BY <1>10, <2>2, LeadsConcat
  <2> QED
    BY <2>3 DEF N!NewSynchConsoleIn, N!NewConsoleInput
<1>12. /\ M3 = M \union {"consoleInLock", "consoleInWaitFor", "synchConsoleIn"}
       /\ D2 = D \union {"console", "nothing"}
  BY <1>1, <1>2, <1>3, <1>4, <1>5
<1>13. PICK N1 : N1 = M \union {"display"}
  OBVIOUS
<1>14. PICK N2 : N2 = N1 \union {"consoleOutWaitFor"}
  OBVIOUS
<1>15. PICK N3 : N3 = N2 \union {"synchConsoleOut"}
  OBVIOUS
<1>16. PICK E : E = D \union {"nothing"}
  OBVIOUS
<1>17. E = E \union {"nothing"}
  BY <1>16
<1>18. Leads(M, D, N!Makes("display"), N1, E)
  BY <1>13, <1>16, MakesLeads DEF Object
<1>19. Leads(N1, E, N!Makes("consoleOutWaitFor"), N2, E)
  BY <1>14, <1>17, MakesLeads DEF Object
<1>20. Leads(N2, E, N!Makes("synchConsoleOut"), N3, E)
  BY <1>15, <1>17, MakesLeads DEF Object
<1>21. Leads(M, D, N!NewSynchConsoleOut, N3, E)
  <2>1. Leads(M, D, N!Makes("display") \o N!Makes("consoleOutWaitFor"), N2, E)
    BY <1>18, <1>19, LeadsConcat
  <2>2. Leads(M, D, N!Makes("display") \o N!Makes("consoleOutWaitFor")
                      \o N!Makes("synchConsoleOut"), N3, E)
    BY <1>20, <2>1, LeadsConcat
  <2> QED
    BY <2>2 DEF N!NewSynchConsoleOut, N!NewConsoleOutput
<1>22. N3 = M \union {"display", "consoleOutWaitFor", "synchConsoleOut"}
  BY <1>13, <1>14, <1>15
<1> QED
  BY <1>11, <1>12, <1>16, <1>21, <1>22

LEMMA StepLeads ==
  ASSUME NEW M, NEW D, NEW makes \in SUBSET Object, NEW uses \in SUBSET Object,
         NEW does \in Effect, does # "openDisk",
         StepOk(M, D, N!Step(makes, uses, does)),
         NEW M2, M2 = M \union makes, NEW D2, D2 = D \union {does}
  PROVE  Leads(M, D, <<N!Step(makes, uses, does)>>, M2, D2)
<1> DEFINE s == N!Step(makes, uses, does)
<1>1. s \in StepRecord /\ s.makes = makes /\ s.does = does
  BY DEF N!Step, StepRecord
<1> HIDE DEF s
<1>2. StepOk(M, D, s)
  BY DEF s
<1>3. Leads(M, D, <<s>>, M2, D2)
  BY <1>1, <1>2, LeadsOne
<1> QED
  BY <1>3 DEF s

(* Disk::Disk opens the file or makes it in three steps. *)
LEMMA DiskLeads ==
  ASSUME NEW M, NEW D, "openDisk" \notin D, "writeMagic" \notin D,
         "extendDisk" \notin D, "nothing" \in D
  PROVE  Leads(M, D, N!NewSynchDisk,
               M \union {"diskSemaphore", "disk", "synchDisk"},
               D \union {"openDisk", "writeMagic", "extendDisk"})
<1>1. PICK p : p = <<N!Step({}, {}, "openDisk"), N!Step({}, {}, "writeMagic"),
                     N!Step({}, {}, "extendDisk")>>
  OBVIOUS
<1>2. PICK M1 : M1 = M \union {"diskSemaphore"}
  OBVIOUS
<1>3. PICK M2 : M2 = M1 \union {"disk"}
  OBVIOUS
<1>4. PICK M3 : M3 = M2 \union {"synchDisk"}
  OBVIOUS
<1>5. PICK D1 : D1 = D \union {"openDisk", "writeMagic", "extendDisk"}
  OBVIOUS
<1>6. Leads(M1, D, p, M1, D1)
  <2>1. ASSUME NEW does \in Effect
        PROVE  LET s == N!Step({}, {}, does) IN
               s \in StepRecord /\ s.makes = {} /\ s.uses = {} /\ s.does = does
    BY DEF N!Step, StepRecord
  <2>2. PICK s1 : s1 = N!Step({}, {}, "openDisk")
    OBVIOUS
  <2>3. PICK s2 : s2 = N!Step({}, {}, "writeMagic")
    OBVIOUS
  <2>4. PICK s3 : s3 = N!Step({}, {}, "extendDisk")
    OBVIOUS
  <2>5. /\ s1 \in StepRecord /\ s1.makes = {} /\ s1.uses = {}
        /\ s1.does = "openDisk"
        /\ s2 \in StepRecord /\ s2.makes = {} /\ s2.uses = {}
        /\ s2.does = "writeMagic"
        /\ s3 \in StepRecord /\ s3.makes = {} /\ s3.uses = {}
        /\ s3.does = "extendDisk"
    BY <2>1, <2>2, <2>3, <2>4 DEF Effect
  <2>6. p = <<s1, s2, s3>>
    BY <1>1, <2>2, <2>3, <2>4
  <2>7. /\ p \in Seq(StepRecord) /\ Len(p) = 3
        /\ p[1] = s1 /\ p[2] = s2 /\ p[3] = s3
    BY <2>5, <2>6
  <2>8. /\ 1..(1 - 1) = {} /\ 1..(2 - 1) = {1} /\ 1..(3 - 1) = {1, 2}
        /\ 1..(4 - 1) = {1, 2, 3}
    OBVIOUS
  <2>9. /\ MadeBefore(M1, p, 1) = M1 /\ MadeBefore(M1, p, 2) = M1
        /\ MadeBefore(M1, p, 3) = M1 /\ MadeBefore(M1, p, 4) = M1
    BY <2>5, <2>7, <2>8 DEF MadeBefore
  <2>10. /\ DoneBefore(D, p, 1) = D
         /\ DoneBefore(D, p, 2) = D \union {"openDisk"}
         /\ DoneBefore(D, p, 3) = D \union {"openDisk", "writeMagic"}
         /\ DoneBefore(D, p, 4) = D1
    BY <1>5, <2>5, <2>7, <2>8 DEF DoneBefore
  <2>11. /\ StepOk(M1, D, s1)
         /\ StepOk(M1, D \union {"openDisk"}, s2)
         /\ StepOk(M1, D \union {"openDisk", "writeMagic"}, s3)
    BY <2>5 DEF StepOk
  <2>12. DiskIsMadeAt(p, 1) /\ DiskIsMadeAt(p, 2) /\ DiskIsMadeAt(p, 3)
    BY <2>5, <2>7 DEF DiskIsMadeAt
  <2>13. \A k \in 1..Len(p) : k = 1 \/ k = 2 \/ k = 3
    BY <2>7
  <2>14. Safe(M1, D, p)
    BY <2>7, <2>9, <2>10, <2>11, <2>12, <2>13 DEF Safe
  <2> QED
    BY <2>7, <2>9, <2>10, <2>14 DEF Leads
<1>7. D = D \union {"nothing"} /\ D1 = D1 \union {"nothing"}
  BY <1>5
<1>8. Leads(M, D, N!Makes("diskSemaphore"), M1, D)
  BY <1>2, <1>7, MakesLeads DEF Object
<1>9. Leads(M1, D1, N!Makes("disk"), M2, D1)
  BY <1>3, <1>7, MakesLeads DEF Object
<1>10. Leads(M2, D1, N!Makes("synchDisk"), M3, D1)
  BY <1>4, <1>7, MakesLeads DEF Object
<1>11. Leads(M1, D, N!NewDisk, M2, D1)
  <2>1. Leads(M1, D, p \o N!Makes("disk"), M2, D1)
    BY <1>6, <1>9, LeadsConcat
  <2> QED
    BY <1>1, <2>1 DEF N!NewDisk
<1>12. Leads(M, D, N!Makes("diskSemaphore") \o N!NewDisk, M2, D1)
  BY <1>8, <1>11, LeadsConcat
<1>13. Leads(M, D, N!NewSynchDisk, M3, D1)
  <2>1. Leads(M, D, N!Makes("diskSemaphore") \o N!NewDisk \o N!Makes("synchDisk"),
              M3, D1)
    BY <1>10, <1>12, LeadsConcat
  <2> QED
    BY <2>1 DEF N!NewSynchDisk
<1>14. M3 = M \union {"diskSemaphore", "disk", "synchDisk"}
  BY <1>2, <1>3, <1>4
<1> QED
  BY <1>5, <1>13, <1>14

(* FileSystem::FileSystem reads the disk, unless it is the stub. *)
LEMMA FileSystemLeads ==
  ASSUME NEW M, NEW D, InterruptObjects \union {"synchDisk"} \subseteq M,
         "network" \notin D, "enable" \notin D, "extendDisk" \in D,
         "nothing" \in D
  PROVE  \E D2 : /\ Leads(M, D, N!NewFileSystem, M \union {"fileSystem"}, D2)
                 /\ D \subseteq D2 /\ D2 \subseteq D \union {"readDisk"}
<1>1. D = D \union {"nothing"}
  OBVIOUS
<1>2. CASE stub
  <2>1. Leads(M, D, << >>, M, D)
    BY LeadsNowhere
  <2>2. Leads(M, D, N!Makes("fileSystem"), M \union {"fileSystem"}, D)
    BY <1>1, MakesLeads DEF Object
  <2>3. Leads(M, D, << >> \o N!Makes("fileSystem"), M \union {"fileSystem"}, D)
    BY <2>1, <2>2, LeadsConcat
  <2>4. Leads(M, D, N!NewFileSystem, M \union {"fileSystem"}, D)
    BY <1>2, <2>3 DEF N!NewFileSystem
  <2> QED
    BY <2>4
<1>3. CASE ~stub
  <2>1. PICK D2 : D2 = D \union {"readDisk"}
    OBVIOUS
  <2>2. PICK uses : uses = {"synchDisk", "scheduler", "interrupt", "stats"}
    OBVIOUS
  <2>3. uses \in SUBSET Object /\ uses \subseteq M
    BY <2>2 DEF Object, InterruptObjects
  <2>4. Handled(M, D2)
    BY <2>1, HandledFacts
  <2>5. StepOk(M, D, N!Step({}, uses, "readDisk"))
    BY <2>1, <2>3, <2>4 DEF StepOk, N!Step
  <2>6. M = M \union {} /\ {} \in SUBSET Object
    OBVIOUS
  <2>7. Leads(M, D, <<N!Step({}, uses, "readDisk")>>, M, D2)
    BY <2>1, <2>3, <2>5, <2>6, StepLeads DEF Effect
  <2>8. D2 = D2 \union {"nothing"}
    BY <2>1
  <2>9. Leads(M, D2, N!Makes("fileSystem"), M \union {"fileSystem"}, D2)
    BY <2>8, MakesLeads DEF Object
  <2>10. Leads(M, D, <<N!Step({}, uses, "readDisk")>> \o N!Makes("fileSystem"),
               M \union {"fileSystem"}, D2)
    BY <2>7, <2>9, LeadsConcat
  <2>11. Leads(M, D, N!NewFileSystem, M \union {"fileSystem"}, D2)
    BY <1>3, <2>2, <2>10 DEF N!NewFileSystem
  <2> QED
    BY <2>1, <2>11
<1> QED
  BY <1>2, <1>3

LEMMA LeadsTwo ==
  ASSUME NEW M, NEW D, NEW s, NEW M1, NEW D1, Leads(M, D, <<s>>, M1, D1),
         NEW t, NEW M2, NEW D2, Leads(M1, D1, <<t>>, M2, D2)
  PROVE  Leads(M, D, <<s, t>>, M2, D2)
<1>1. Leads(M, D, <<s>> \o <<t>>, M2, D2)
  BY LeadsConcat
<1>2. <<s>> \o <<t>> = <<s, t>>
  <2> HIDE DEF Leads
  <2>1. /\ <<s>> \in Seq({s, t}) /\ <<t>> \in Seq({s, t})
        /\ <<s, t>> \in Seq({s, t})
    OBVIOUS
  <2>2. /\ Len(<<s>>) = 1 /\ Len(<<t>>) = 1 /\ Len(<<s, t>>) = 2
        /\ <<s>>[1] = s /\ <<t>>[1] = t /\ <<s, t>>[1] = s /\ <<s, t>>[2] = t
    OBVIOUS
  <2>3. /\ <<s>> \o <<t>> \in Seq({s, t}) /\ Len(<<s>> \o <<t>>) = 2
        /\ (<<s>> \o <<t>>)[1] = s /\ (<<s>> \o <<t>>)[2] = t
    BY <2>1, <2>2, ConcatProperties
  <2>4. \A k \in 1..2 : k = 1 \/ k = 2
    OBVIOUS
  <2> QED
    BY <2>1, <2>2, <2>3, <2>4, SeqEqual
<1> QED
  BY <1>1, <1>2

(* PostOfficeInput::PostOfficeInput: the socket, and the postal worker,    *)
(* which enables interrupts for a while.                                   *)
LEMMA PostOfficeInLeads ==
  ASSUME NEW M, NEW D,
         InterruptObjects \union {"threadManager", "currentThread"} \subseteq M,
         "enable" \notin D, "bindName" \notin D, "nothing" \in D
  PROVE  Leads(M, D, N!NewPostOfficeIn,
               M \union {"messageAvailable", "boxes", "postalWorker",
                         "postOfficeIn"},
               D \union {"unlinkName", "bindName", "network", "enable",
                         "disable"})
<1>1. PICK M1 : M1 = M \union {"messageAvailable"}
  OBVIOUS
<1>2. PICK M2 : M2 = M1 \union {"boxes"}
  OBVIOUS
<1>3. PICK M3 : M3 = M2 \union {"postalWorker"}
  OBVIOUS
<1>4. PICK M4 : M4 = M3 \union {"postOfficeIn"}
  OBVIOUS
<1>5. PICK D1 : D1 = D \union {"unlinkName"}
  OBVIOUS
<1>6. PICK D2 : D2 = D1 \union {"bindName"}
  OBVIOUS
<1>7. PICK D3 : D3 = D2 \union {"network"}
  OBVIOUS
<1>8. PICK D4 : D4 = D3 \union {"enable"}
  OBVIOUS
<1>9. PICK D5 : D5 = D4 \union {"disable"}
  OBVIOUS
<1>10. /\ D = D \union {"nothing"} /\ D5 = D5 \union {"nothing"}
       /\ M2 = M2 \union {} /\ M3 = M3 \union {} /\ {} \in SUBSET Object
  BY <1>5, <1>6, <1>7, <1>8, <1>9
<1>11. /\ InterruptObjects \union {"threadManager", "currentThread"} \subseteq M2
       /\ InterruptObjects \union {"messageAvailable"} \subseteq M3
       /\ "messageAvailable" \in M2
       /\ "enable" \notin D2 /\ "bindName" \notin D1 /\ "unlinkName" \in D1
  BY <1>1, <1>2, <1>3, <1>5, <1>6
<1>12. Leads(M, D, N!Makes("messageAvailable") \o N!Makes("boxes"), M2, D)
  <2>1. Leads(M, D, N!Makes("messageAvailable"), M1, D)
    BY <1>1, <1>10, MakesLeads DEF Object
  <2>2. Leads(M1, D, N!Makes("boxes"), M2, D)
    BY <1>2, <1>10, MakesLeads DEF Object
  <2> QED
    BY <2>1, <2>2, LeadsConcat
<1>13. Leads(M2, D, N!NewNetworkInput, M2, D3)
  <2>1. StepOk(M2, D, N!Step({}, {}, "unlinkName"))
    BY DEF StepOk, N!Step
  <2>2. Leads(M2, D, <<N!Step({}, {}, "unlinkName")>>, M2, D1)
    BY <1>5, <1>10, <2>1, StepLeads DEF Effect
  <2>3. StepOk(M2, D1, N!Step({}, {}, "bindName"))
    BY <1>11 DEF StepOk, N!Step
  <2>4. Leads(M2, D1, <<N!Step({}, {}, "bindName")>>, M2, D2)
    BY <1>6, <1>10, <2>3, StepLeads DEF Effect
  <2>5. Leads(M2, D, <<N!Step({}, {}, "unlinkName"), N!Step({}, {}, "bindName")>>,
              M2, D2)
    BY <2>2, <2>4, LeadsTwo
  <2>6. "interrupt" \in M2 /\ "stats" \in M2
    BY <1>11 DEF InterruptObjects
  <2>7. Leads(M2, D2, N!Schedule("network"), M2, D3)
    BY <1>7, <1>11, <2>6, ScheduleLeads
  <2> QED
    BY <2>5, <2>7, LeadsConcat DEF N!NewNetworkInput
<1>14. PICK uses : uses = {"threadManager", "currentThread", "scheduler",
                           "interrupt"}
  OBVIOUS
<1>15. PICK needs : needs = {"messageAvailable", "scheduler", "interrupt"}
  OBVIOUS
<1>16. Leads(M2, D3, <<N!Step({"postalWorker"}, uses, "enable")>>, M3, D4)
  <2>1. uses \subseteq M2 /\ uses \in SUBSET Object
        /\ {"postalWorker"} \in SUBSET Object
    BY <1>11, <1>14 DEF InterruptObjects, Object
  <2>2. Handled(M2, D3)
    BY <1>11, HandledFacts
  <2>3. StepOk(M2, D3, N!Step({"postalWorker"}, uses, "enable"))
    BY <2>1, <2>2 DEF StepOk, N!Step
  <2> QED
    BY <1>3, <1>8, <2>1, <2>3, StepLeads DEF Effect
<1>17. Leads(M3, D4, <<N!Step({}, needs, "disable")>>, M3, D5)
  <2>1. needs \subseteq M3 /\ needs \in SUBSET Object
    BY <1>11, <1>15 DEF InterruptObjects, Object
  <2>2. StepOk(M3, D4, N!Step({}, needs, "disable"))
    BY <2>1 DEF StepOk, N!Step
  <2> QED
    BY <1>9, <1>10, <2>1, <2>2, StepLeads DEF Effect
<1>18. Leads(M2, D3, <<N!Step({"postalWorker"}, uses, "enable"),
                       N!Step({}, needs, "disable")>>, M3, D5)
  BY <1>16, <1>17, LeadsTwo
<1>19. Leads(M3, D5, N!Makes("postOfficeIn"), M4, D5)
  BY <1>4, <1>10, MakesLeads DEF Object
<1>20. Leads(M, D, N!Makes("messageAvailable") \o N!Makes("boxes")
                     \o N!NewNetworkInput, M2, D3)
  BY <1>12, <1>13, LeadsConcat
<1>21. Leads(M, D, N!Makes("messageAvailable") \o N!Makes("boxes")
                     \o N!NewNetworkInput
                     \o <<N!Step({"postalWorker"}, uses, "enable"),
                          N!Step({}, needs, "disable")>>, M3, D5)
  BY <1>18, <1>20, LeadsConcat
<1>22. Leads(M, D, N!Makes("messageAvailable") \o N!Makes("boxes")
                     \o N!NewNetworkInput
                     \o <<N!Step({"postalWorker"}, uses, "enable"),
                          N!Step({}, needs, "disable")>>
                     \o N!Makes("postOfficeIn"), M4, D5)
  BY <1>19, <1>21, LeadsConcat
<1>23. Leads(M, D, N!NewPostOfficeIn, M4, D5)
  BY <1>14, <1>15, <1>22 DEF N!NewPostOfficeIn
<1>24. M4 = M \union {"messageAvailable", "boxes", "postalWorker", "postOfficeIn"}
  BY <1>1, <1>2, <1>3, <1>4
<1>25. D5 = D \union {"unlinkName", "bindName", "network", "enable", "disable"}
  BY <1>5, <1>6, <1>7, <1>8, <1>9
<1> QED
  BY <1>23, <1>24, <1>25

LEMMA PostOfficeOutLeads ==
  ASSUME NEW M, NEW D, "nothing" \in D
  PROVE  Leads(M, D, N!NewPostOfficeOut,
               M \union {"messageSent", "networkOutput", "postOfficeOut"}, D)
<1>1. PICK M1 : M1 = M \union {"messageSent"}
  OBVIOUS
<1>2. PICK M2 : M2 = M1 \union {"networkOutput"}
  OBVIOUS
<1>3. PICK M3 : M3 = M2 \union {"postOfficeOut"}
  OBVIOUS
<1>4. D = D \union {"nothing"}
  OBVIOUS
<1>5. Leads(M, D, N!Makes("messageSent"), M1, D)
  BY <1>1, <1>4, MakesLeads DEF Object
<1>6. Leads(M1, D, N!Makes("networkOutput"), M2, D)
  BY <1>2, <1>4, MakesLeads DEF Object
<1>7. Leads(M2, D, N!Makes("postOfficeOut"), M3, D)
  BY <1>3, <1>4, MakesLeads DEF Object
<1>8. Leads(M, D, N!Makes("messageSent") \o N!Makes("networkOutput"), M2, D)
  BY <1>5, <1>6, LeadsConcat
<1>9. Leads(M, D, N!NewPostOfficeOut, M3, D)
  BY <1>7, <1>8, LeadsConcat DEF N!NewPostOfficeOut, N!NewNetworkOutput
<1>10. M3 = M \union {"messageSent", "networkOutput", "postOfficeOut"}
  BY <1>1, <1>2, <1>3
<1> QED
  BY <1>9, <1>10

(* Kernel::Initialize makes everything, in an order in which every         *)
(* constructor finds what it uses.                                         *)
LEMMA InitializeLeads ==
  \E M, D : /\ Leads({}, {}, N!Initialize, M, D)
            /\ Object \subseteq M /\ "extendDisk" \in D
<1>1. PICK M1 : M1 = {} \union {"threadManager"}
  OBVIOUS
<1>2. PICK M2 : M2 = M1 \union {"currentThread"}
  OBVIOUS
<1>3. PICK M3 : M3 = M2 \union {"stats"}
  OBVIOUS
<1>4. PICK M4 : M4 = M3 \union {"interrupt"}
  OBVIOUS
<1>5. PICK M5 : M5 = M4 \union {"scheduler"}
  OBVIOUS
<1>6. PICK M6 : M6 = M5 \union {"alarm"}
  OBVIOUS
<1>7. PICK M7 : M7 = M6 \union {"machine"}
  OBVIOUS
<1>8. PICK M8 : M8 = M7 \union {"consoleInLock", "consoleInWaitFor",
                                "synchConsoleIn"}
  OBVIOUS
<1>9. PICK M9 : M9 = M8 \union {"display", "consoleOutWaitFor",
                                "synchConsoleOut"}
  OBVIOUS
<1>10. PICK M10 : M10 = M9 \union {"diskSemaphore", "disk", "synchDisk"}
  OBVIOUS
<1>11. PICK M11 : M11 = M10 \union {"fileSystem"}
  OBVIOUS
<1>12. PICK M12 : M12 = M11 \union {"messageAvailable", "boxes",
                                    "postalWorker", "postOfficeIn"}
  OBVIOUS
<1>13. PICK M13 : M13 = M12 \union {"messageSent", "networkOutput",
                                    "postOfficeOut"}
  OBVIOUS
<1>14. PICK M14 : M14 = M13 \union {"memoryManager"}
  OBVIOUS
<1>15. PICK D1 : D1 = {"nothing"}
  OBVIOUS
<1>16. PICK D2 : D2 = D1 \union {"disable"}
  OBVIOUS
<1>17. PICK D3 : D3 = D2 \union {"timer"}
  OBVIOUS
<1>18. PICK D4 : D4 = D3 \union {"console", "nothing"}
  OBVIOUS
<1>19. PICK D5 : D5 = D4 \union {"openDisk", "writeMagic", "extendDisk"}
  OBVIOUS
<1>20. /\ D1 = {} \union {"nothing"} /\ D1 = D1 \union {"nothing"}
       /\ D2 = D2 \union {"nothing"} /\ D3 = D3 \union {"nothing"}
       /\ D4 = D4 \union {"nothing"} /\ "nothing" \in D5
  BY <1>15, <1>16, <1>17, <1>18, <1>19
<1>21. /\ "enable" \notin D2 /\ "enable" \notin D3 /\ "enable" \notin D4
       /\ "openDisk" \notin D4 /\ "writeMagic" \notin D4
       /\ "extendDisk" \notin D4 /\ "nothing" \in D4
       /\ "enable" \notin D5 /\ "network" \notin D5 /\ "bindName" \notin D5
       /\ "extendDisk" \in D5
  BY <1>15, <1>16, <1>17, <1>18, <1>19
<1>22. Leads({}, {}, N!NewThreadManager, M1, D1)
  BY <1>1, <1>20, MakesLeads DEF Object, N!NewThreadManager
<1>23. Leads(M1, D1, N!MainThread, M2, D1)
  <2>1. StepOk(M1, D1, N!Step({"currentThread"}, {"threadManager"}, "nothing"))
    BY <1>1 DEF StepOk, N!Step
  <2>2. {"currentThread"} \in SUBSET Object /\ {"threadManager"} \in SUBSET Object
    BY DEF Object
  <2> QED
    BY <1>2, <1>20, <2>1, <2>2, StepLeads DEF Effect, N!MainThread
<1>24. Leads(M2, D1, N!NewStatistics, M3, D1)
  BY <1>3, <1>20, MakesLeads DEF Object, N!NewStatistics
<1>25. Leads(M3, D1, N!NewInterrupt, M4, D2)
  <2>1. StepOk(M3, D1, N!Step({"interrupt"}, {}, "disable"))
    BY DEF StepOk, N!Step
  <2>2. {"interrupt"} \in SUBSET Object /\ {} \in SUBSET Object
    BY DEF Object
  <2> QED
    BY <1>4, <1>16, <2>1, <2>2, StepLeads DEF Effect, N!NewInterrupt
<1>26. Leads(M4, D2, N!NewScheduler, M5, D2)
  BY <1>5, <1>20, MakesLeads DEF Object, N!NewScheduler
<1>27. Leads(M5, D2, N!NewAlarm, M6, D3)
  <2>1. "interrupt" \in M5 /\ "stats" \in M5
    BY <1>3, <1>4, <1>5
  <2>2. Leads(M5, D2, N!Schedule("timer"), M5, D3)
    BY <1>17, <1>21, <2>1, ScheduleLeads
  <2>3. Leads(M5, D3, N!Makes("alarm"), M6, D3)
    BY <1>6, <1>20, MakesLeads DEF Object
  <2> QED
    BY <2>2, <2>3, LeadsConcat DEF N!NewAlarm
<1>28. Leads(M6, D3, N!NewMachine, M7, D3)
  BY <1>7, <1>20, MakesLeads DEF Object, N!NewMachine
<1>29. "interrupt" \in M7 /\ "stats" \in M7 /\ "interrupt" \in M8 /\ "stats" \in M8
  BY <1>3, <1>4, <1>5, <1>6, <1>7, <1>8
<1>30. Leads(M7, D3, N!NewSynchConsoleIn, M8, D4)
  BY <1>8, <1>18, <1>21, <1>29, ConsoleLeads
<1>31. Leads(M8, D4, N!NewSynchConsoleOut, M9, D4)
  <2>1. Leads(M8, D4, N!NewSynchConsoleOut, M9, D4 \union {"nothing"})
    BY <1>9, <1>21, <1>29, ConsoleLeads
  <2> QED
    BY <1>20, <2>1
<1>32. Leads(M9, D4, N!NewSynchDisk, M10, D5)
  BY <1>10, <1>19, <1>21, DiskLeads
<1>33. /\ InterruptObjects \union {"synchDisk"} \subseteq M10
       /\ InterruptObjects \union {"threadManager", "currentThread"}
            \subseteq M11
  BY <1>1, <1>2, <1>3, <1>4, <1>5, <1>6, <1>7, <1>8, <1>9, <1>10, <1>11
  DEF InterruptObjects
<1>34. PICK D6 : /\ Leads(M10, D5, N!NewFileSystem, M11, D6)
                 /\ D5 \subseteq D6 /\ D6 \subseteq D5 \union {"readDisk"}
  <2>1. \E D6 : /\ Leads(M10, D5, N!NewFileSystem, M10 \union {"fileSystem"}, D6)
                /\ D5 \subseteq D6 /\ D6 \subseteq D5 \union {"readDisk"}
    BY <1>20, <1>21, <1>33, FileSystemLeads
  <2> QED
    BY <1>11, <2>1
<1>35. PICK D7 : D7 = D6 \union {"unlinkName", "bindName", "network", "enable",
                                 "disable"}
  OBVIOUS
<1>36. /\ "enable" \notin D6 /\ "bindName" \notin D6 /\ "nothing" \in D6
       /\ D7 = D7 \union {"nothing"} /\ "nothing" \in D7
       /\ "extendDisk" \in D7
  BY <1>20, <1>21, <1>34, <1>35
<1>37. Leads(M11, D6, N!NewPostOfficeIn, M12, D7)
  BY <1>12, <1>33, <1>35, <1>36, PostOfficeInLeads
<1>38. Leads(M12, D7, N!NewPostOfficeOut, M13, D7)
  BY <1>13, <1>36, PostOfficeOutLeads
<1>39. Leads(M13, D7, N!NewMemoryManager, M14, D7)
  BY <1>14, <1>36, MakesLeads DEF Object, N!NewMemoryManager
<1>40. Object \subseteq M14
  BY <1>1, <1>2, <1>3, <1>4, <1>5, <1>6, <1>7, <1>8, <1>9, <1>10, <1>11, <1>12,
     <1>13, <1>14
  DEF Object
<1>41. PICK D8 : D8 = D7 \union {"enable"}
  OBVIOUS
<1>42. PICK uses : uses = {"interrupt", "stats", "memoryManager"}
  OBVIOUS
<1>43. Leads(M14, D7, <<N!Step({}, uses, "enable")>>, M14, D8)
  <2>1. uses \subseteq M14 /\ uses \in SUBSET Object /\ {} \in SUBSET Object
        /\ M14 = M14 \union {}
    BY <1>40, <1>42 DEF Object
  <2>2. InterruptObjects \subseteq M14 /\ "messageAvailable" \in M14
    BY <1>40 DEF InterruptObjects, Object
  <2>3. Handled(M14, D7)
    BY <2>2, HandledFacts
  <2>4. StepOk(M14, D7, N!Step({}, uses, "enable"))
    BY <2>1, <2>3 DEF StepOk, N!Step
  <2> QED
    BY <1>41, <2>1, <2>4, StepLeads DEF Effect
<1>44. PICK q : q = N!NewThreadManager \o N!MainThread \o N!NewStatistics
                    \o N!NewInterrupt \o N!NewScheduler
  OBVIOUS
<1>45. Leads({}, {}, q, M5, D2)
  <2>1. Leads({}, {}, N!NewThreadManager \o N!MainThread, M2, D1)
    BY <1>22, <1>23, LeadsConcat
  <2>2. Leads({}, {}, N!NewThreadManager \o N!MainThread \o N!NewStatistics, M3, D1)
    BY <1>24, <2>1, LeadsConcat
  <2>3. Leads({}, {}, N!NewThreadManager \o N!MainThread \o N!NewStatistics
                        \o N!NewInterrupt, M4, D2)
    BY <1>25, <2>2, LeadsConcat
  <2> QED
    BY <1>26, <1>44, <2>3, LeadsConcat
<1>46. PICK r : r = q \o N!NewAlarm \o N!NewMachine \o N!NewSynchConsoleIn
                      \o N!NewSynchConsoleOut \o N!NewSynchDisk
  OBVIOUS
<1>47. Leads({}, {}, r, M10, D5)
  <2>1. Leads({}, {}, q \o N!NewAlarm, M6, D3)
    BY <1>27, <1>45, LeadsConcat
  <2>2. Leads({}, {}, q \o N!NewAlarm \o N!NewMachine, M7, D3)
    BY <1>28, <2>1, LeadsConcat
  <2>3. Leads({}, {}, q \o N!NewAlarm \o N!NewMachine \o N!NewSynchConsoleIn, M8, D4)
    BY <1>30, <2>2, LeadsConcat
  <2>4. Leads({}, {}, q \o N!NewAlarm \o N!NewMachine \o N!NewSynchConsoleIn
                        \o N!NewSynchConsoleOut, M9, D4)
    BY <1>31, <2>3, LeadsConcat
  <2> QED
    BY <1>32, <1>46, <2>4, LeadsConcat
<1>48. Leads({}, {}, r \o N!NewFileSystem \o N!NewPostOfficeIn
                       \o N!NewPostOfficeOut \o N!NewMemoryManager
                       \o <<N!Step({}, uses, "enable")>>, M14, D8)
  <2>1. Leads({}, {}, r \o N!NewFileSystem, M11, D6)
    BY <1>34, <1>47, LeadsConcat
  <2>2. Leads({}, {}, r \o N!NewFileSystem \o N!NewPostOfficeIn, M12, D7)
    BY <1>37, <2>1, LeadsConcat
  <2>3. Leads({}, {}, r \o N!NewFileSystem \o N!NewPostOfficeIn
                        \o N!NewPostOfficeOut, M13, D7)
    BY <1>38, <2>2, LeadsConcat
  <2>4. Leads({}, {}, r \o N!NewFileSystem \o N!NewPostOfficeIn
                        \o N!NewPostOfficeOut \o N!NewMemoryManager, M14, D7)
    BY <1>39, <2>3, LeadsConcat
  <2> QED
    BY <1>43, <2>4, LeadsConcat
<1>49. Leads({}, {}, N!Initialize, M14, D8)
  BY <1>42, <1>44, <1>46, <1>48 DEF N!Initialize
<1> QED
  BY <1>36, <1>40, <1>41, <1>49

(* main: whatever flags are given, every step finds what it relies on. *)
LEMMA MainIsSafe ==
  ASSUME NEW flags PROVE Safe({}, {}, N!Main(flags))
<1>1. PICK M, D : /\ Leads({}, {}, N!Initialize, M, D)
                  /\ Object \subseteq M /\ "extendDisk" \in D
  BY InitializeLeads
<1>2. ASSUME NEW D1 PROVE Handled(M, D1)
  <2>1. InterruptObjects \subseteq M /\ "messageAvailable" \in M
    BY <1>1 DEF InterruptObjects, Object
  <2> QED
    BY <2>1, HandledFacts
<1>3. M = M \union {} /\ {} \in SUBSET Object
  OBVIOUS
<1>4. ASSUME NEW flag, NEW uses \in SUBSET Object, NEW D1, "extendDisk" \in D1
      PROVE  \E D2 : /\ Leads(M, D1, N!Optional(flag, flags, uses), M, D2)
                     /\ "extendDisk" \in D2
  <2>1. CASE flag \in flags
    <3>1. StepOk(M, D1, N!Step({}, uses, "wait"))
      BY <1>1, <1>2 DEF StepOk, N!Step
    <3>2. Leads(M, D1, <<N!Step({}, uses, "wait")>>, M, D1 \union {"wait"})
      BY <1>3, <3>1, StepLeads DEF Effect
    <3>3. Leads(M, D1, N!Optional(flag, flags, uses), M, D1 \union {"wait"})
      BY <2>1, <3>2 DEF N!Optional
    <3> QED
      BY <1>4, <3>3
  <2>2. CASE flag \notin flags
    <3>1. N!Optional(flag, flags, uses) = << >>
      BY <2>2 DEF N!Optional
    <3> QED
      BY <1>4, <3>1, LeadsNowhere
  <2> QED
    BY <2>1, <2>2
<1>5. Leads(M, D, <<N!Step({}, {}, "CallOnUserAbort")>>, M,
            D \union {"CallOnUserAbort"})
  <2>1. StepOk(M, D, N!Step({}, {}, "CallOnUserAbort"))
    BY <1>1 DEF StepOk, N!Step, Object
  <2> QED
    BY <1>3, <2>1, StepLeads DEF Effect
<1>6. PICK D0 : D0 = D \union {"CallOnUserAbort"}
  OBVIOUS
<1>7. "extendDisk" \in D0
  BY <1>1, <1>6
<1>8. /\ N!ThreadSelfTest \in SUBSET Object /\ N!ConsoleTest \in SUBSET Object
      /\ N!NetworkTest \in SUBSET Object /\ N!UserProgram \in SUBSET Object
  BY DEF Object, N!ThreadSelfTest, N!ConsoleTest, N!NetworkTest, N!UserProgram,
         N!Execute
<1>9. PICK k, c, n, x : k = "-K" /\ c = "-C" /\ n = "-N" /\ x = "-x"
  BY Zenon
<1>10. PICK D1 : /\ Leads(M, D0, N!Optional(k, flags, N!ThreadSelfTest), M, D1)
                 /\ "extendDisk" \in D1
  BY <1>4, <1>7, <1>8
<1>11. PICK D2 : /\ Leads(M, D1, N!Optional(c, flags, N!ConsoleTest), M, D2)
                 /\ "extendDisk" \in D2
  BY <1>4, <1>8, <1>10
<1>12. PICK D3 : /\ Leads(M, D2, N!Optional(n, flags, N!NetworkTest), M, D3)
                 /\ "extendDisk" \in D3
  BY <1>4, <1>8, <1>11
<1>13. PICK D4 : /\ Leads(M, D3, N!Optional(x, flags, N!UserProgram), M, D4)
                 /\ "extendDisk" \in D4
  BY <1>4, <1>8, <1>12
<1>14. Leads(M, D4, <<N!Step({}, {"stats"}, "halt")>>, M, D4 \union {"halt"})
  <2>1. StepOk(M, D4, N!Step({}, {"stats"}, "halt"))
    BY <1>1, <1>13 DEF StepOk, N!Step, Object
  <2>2. {"stats"} \in SUBSET Object
    BY DEF Object
  <2> QED
    BY <1>3, <2>1, <2>2, StepLeads DEF Effect
<1>15. PICK p : p = N!Initialize \o <<N!Step({}, {}, "CallOnUserAbort")>>
  OBVIOUS
<1>16. Leads({}, {}, p, M, D0)
  BY <1>1, <1>5, <1>6, <1>15, LeadsConcat
<1>17. Leads({}, {}, p \o N!Optional(k, flags, N!ThreadSelfTest), M, D1)
  BY <1>10, <1>16, LeadsConcat
<1>18. Leads({}, {}, p \o N!Optional(k, flags, N!ThreadSelfTest)
                       \o N!Optional(c, flags, N!ConsoleTest), M, D2)
  BY <1>11, <1>17, LeadsConcat
<1>19. Leads({}, {}, p \o N!Optional(k, flags, N!ThreadSelfTest)
                       \o N!Optional(c, flags, N!ConsoleTest)
                       \o N!Optional(n, flags, N!NetworkTest), M, D3)
  BY <1>12, <1>18, LeadsConcat
<1>20. Leads({}, {}, p \o N!Optional(k, flags, N!ThreadSelfTest)
                       \o N!Optional(c, flags, N!ConsoleTest)
                       \o N!Optional(n, flags, N!NetworkTest)
                       \o N!Optional(x, flags, N!UserProgram), M, D4)
  BY <1>13, <1>19, LeadsConcat
<1>21. Leads({}, {}, p \o N!Optional(k, flags, N!ThreadSelfTest)
                       \o N!Optional(c, flags, N!ConsoleTest)
                       \o N!Optional(n, flags, N!NetworkTest)
                       \o N!Optional(x, flags, N!UserProgram)
                       \o <<N!Step({}, {"stats"}, "halt")>>, M,
             D4 \union {"halt"})
  BY <1>14, <1>20, LeadsConcat
<1>22. Leads({}, {}, N!Main(flags), M, D4 \union {"halt"})
  BY <1>9, <1>15, <1>21, Zenon DEF N!Main
<1> QED
  BY <1>22 DEF Leads

(* While a process runs: for some effects that it has had, what is left of *)
(* its program is safe, no handler can miss an object, and the files of    *)
(* the host are as far as the program has come.                            *)
RunsWith(D) ==
  /\ Safe(made, D, program)
  /\ pending \subseteq Scheduled(D)
  /\ level = "on" => "enable" \in D
  /\ level = "on" \/ idles => \A d \in pending : N!HandlerUses(d) \subseteq made
  /\ onAbort => "postOfficeIn" \in made /\ "extendDisk" \in D
  /\ sockName => "unlinkName" \notin D \/ "bindName" \in D
  /\ disk = "empty" => spoiled \/ ("openDisk" \in D /\ "writeMagic" \notin D
                                    /\ "extendDisk" \notin D)
  /\ disk = "magic" => spoiled \/ ("writeMagic" \in D /\ "extendDisk" \notin D)

(* The inductive invariant. *)
KernelInv ==
  /\ process \in {"none", "runs", "deletes"}
  /\ process = "runs" => \E D : RunsWith(D)
  /\ process = "none" => /\ made = {} /\ pending = {} /\ level = "off"
                         /\ ~idles /\ ~onAbort
  /\ process # "runs" => (disk \in {"empty", "magic"} => spoiled)
  /\ process = "deletes" => (sockName => "postOfficeIn" \in made)
  /\ N!RestartSucceeds

LEMMA KernelInit == N!Init => KernelInv
BY DEF N!Init, KernelInv, N!RestartSucceeds

(* How a process may end. *)
LEMMA EndsInv ==
  ASSUME KernelInv, NEW how, how \in {"abort", "exit", "killed"}, N!Ends(how),
         disk \in {"empty", "magic"} => spoiled \/ how = "killed",
         how = "abort" => spoiled, how = "exit" => ~sockName
  PROVE  KernelInv'
<1>1. /\ process' = "none" /\ made' = {} /\ pending' = {} /\ level' = "off"
      /\ ~idles' /\ ~onAbort' /\ end' = how /\ disk' = disk
      /\ sockName' = sockName
  BY DEF N!Ends, N!Forgotten, N!host
<1>2. /\ spoiled => spoiled'
      /\ how = "killed" /\ disk \in {"empty", "magic"} => spoiled'
  BY DEF N!Ends
<1>3. disk' \in {"empty", "magic"} => spoiled'
  BY <1>1, <1>2
<1>4. N!RestartSucceeds'
  BY <1>1, <1>2 DEF N!RestartSucceeds
<1> QED
  BY <1>1, <1>3, <1>4 DEF KernelInv

(* Main goes on to its next step. *)
LEMMA DoesFacts ==
  ASSUME NEW D, RunsWith(D), NEW what, N!Does(what)
  PROVE  /\ \E s \in StepRecord : /\ s = Head(program) /\ s.does = what
                                  /\ StepOk(made, D, s)
                                  /\ made' = made \union s.makes
         /\ made \subseteq made'
         /\ Safe(made', D \union {what}, program')
         /\ process' = "runs" /\ ~idles /\ spoiled' = spoiled /\ end' = end
<1>1. /\ Safe(made, D, program) /\ program # << >>
      /\ Head(program).does = what /\ program' = Tail(program)
      /\ made' = made \union Head(program).makes
      /\ process' = "runs" /\ ~idles /\ spoiled' = spoiled /\ end' = end
  BY DEF RunsWith, N!Does
<1>2. PICK s : s = Head(program)
  OBVIOUS
<1>3. /\ s \in StepRecord /\ StepOk(made, D, s)
      /\ Safe(made \union s.makes, D \union {s.does}, Tail(program))
  BY <1>1, <1>2, SafeStep
<1> QED
  BY <1>1, <1>2, <1>3

(* The step after it finds the rest of the state in order. *)
LEMMA DoesInv ==
  ASSUME KernelInv, NEW D, RunsWith(D), NEW what, N!Does(what),
         LET E == D \union {what} IN
         /\ pending' \subseteq Scheduled(E)
         /\ level' = "on" => "enable" \in E
         /\ level' = "on" \/ idles' =>
              \A d \in pending' : N!HandlerUses(d) \subseteq made'
         /\ onAbort' => "postOfficeIn" \in made' /\ "extendDisk" \in E
         /\ sockName' => "unlinkName" \notin E \/ "bindName" \in E
         /\ disk' = "empty" => spoiled \/ ("openDisk" \in E /\ "writeMagic" \notin E
                                            /\ "extendDisk" \notin E)
         /\ disk' = "magic" => spoiled \/ ("writeMagic" \in E /\ "extendDisk" \notin E)
  PROVE  KernelInv'
<1>1. PICK E : E = D \union {what}
  OBVIOUS
<1>2. /\ Safe(made', E, program')
      /\ process' = "runs" /\ spoiled' = spoiled /\ end' = end
  BY <1>1, DoesFacts
<1>3. RunsWith(E)'
  BY <1>1, <1>2 DEF RunsWith
<1>4. N!RestartSucceeds'
  BY <1>2 DEF KernelInv, N!RestartSucceeds
<1> QED
  BY <1>2, <1>3, <1>4 DEF KernelInv

LEMMA ScheduledGrows ==
  ASSUME NEW D, NEW E, D \subseteq E PROVE Scheduled(D) \subseteq Scheduled(E)
BY DEF Scheduled

(* The constructors and main. *)
LEMMA ConstructInv ==
  ASSUME KernelInv, NEW D, RunsWith(D),
         \/ N!Construct \/ N!ChangeLevel \/ N!CallOnUserAbort \/ N!Wait
         \/ \E d \in {"timer", "console", "network"} : N!ScheduleDevice(d)
  PROVE  KernelInv'
<1> USE DEF RunsWith
<1>1. ASSUME NEW what PROVE Scheduled(D) \subseteq Scheduled(D \union {what})
  BY ScheduledGrows
<1>2. CASE N!Construct
  <2>1. /\ N!Does("nothing")
        /\ UNCHANGED <<level, idles, pending, onAbort, disk, sockName>>
    BY <1>2 DEF N!Construct, N!host
  <2>2. made \subseteq made'
    BY <2>1, DoesFacts
  <2> QED
    BY <1>1, <2>1, <2>2, DoesInv
<1>3. CASE N!ChangeLevel
  <2>1. UNCHANGED <<idles, pending, onAbort, disk, sockName>>
    BY <1>3 DEF N!ChangeLevel, N!host
  <2>2. CASE N!Does("enable") /\ level' = "on"
    <3>1. Handled(made, D) /\ made \subseteq made'
      BY <2>2, DoesFacts DEF StepOk
    <3>2. \A d \in pending' : N!HandlerUses(d) \subseteq made'
      BY <2>1, <3>1 DEF Handled
    <3> QED
      BY <1>1, <2>1, <2>2, <3>1, <3>2, DoesInv
  <2>3. CASE N!Does("disable") /\ level' = "off"
    <3>1. made \subseteq made' /\ ~idles
      BY <2>3, DoesFacts
    <3> QED
      BY <1>1, <2>1, <2>3, <3>1, DoesInv
  <2> QED
    BY <1>3, <2>2, <2>3 DEF N!ChangeLevel
<1>4. CASE N!CallOnUserAbort
  <2>1. N!Does("CallOnUserAbort")
        /\ UNCHANGED <<level, idles, pending, disk, sockName>>
    BY <1>4 DEF N!CallOnUserAbort, N!host
  <2>2. made \subseteq made' /\ "postOfficeIn" \in made /\ "extendDisk" \in D
    BY <2>1, DoesFacts DEF StepOk
  <2> QED
    BY <1>1, <2>1, <2>2, DoesInv
<1>5. CASE N!Wait
  <2>1. N!Does("wait") /\ UNCHANGED <<level, pending, onAbort, disk, sockName>>
    BY <1>5 DEF N!Wait, N!host
  <2>2. made \subseteq made' /\ Handled(made, D)
    BY <2>1, DoesFacts DEF StepOk
  <2>3. \A d \in pending' : N!HandlerUses(d) \subseteq made'
    BY <2>1, <2>2 DEF Handled
  <2> QED
    BY <1>1, <2>1, <2>2, <2>3, DoesInv
<1>6. ASSUME NEW d \in {"timer", "console", "network"}, N!ScheduleDevice(d)
      PROVE  KernelInv'
  <2>1. /\ N!Does(d) /\ pending' = pending \union {d}
        /\ UNCHANGED <<level, idles, onAbort, disk, sockName>>
    BY <1>6 DEF N!ScheduleDevice, N!host
  <2>2. made \subseteq made' /\ "enable" \notin D /\ ~idles
    <3>1. made \subseteq made' /\ ~idles
      BY <2>1, DoesFacts
    <3>2. PICK s \in StepRecord : s.does = d /\ StepOk(made, D, s)
      BY <2>1, DoesFacts
    <3>3. s.does \in {"timer", "console", "network", "readDisk"}
      BY <3>2
    <3>4. "enable" \notin D
      BY <3>2, <3>3 DEF StepOk
    <3> QED
      BY <3>1, <3>4
  <2>3. d \in Scheduled(D \union {d})
    BY DEF Scheduled
  <2>4. pending' \subseteq Scheduled(D \union {d})
    BY <1>1, <2>1, <2>3
  <2>5. level' # "on" /\ ~idles'
    BY <2>1, <2>2
  <2> QED
    BY <2>1, <2>2, <2>4, <2>5, DoesInv
<1> QED
  BY <1>2, <1>3, <1>4, <1>5, <1>6

(* The files of the host. *)
LEMMA HostInv ==
  ASSUME KernelInv, NEW D, RunsWith(D),
         \/ N!CreateDisk \/ N!WriteMagic \/ N!ExtendDisk \/ N!ReadDisk
         \/ N!UnlinkName \/ N!BindName
  PROVE  KernelInv'
<1> USE DEF RunsWith
<1>1. ASSUME NEW what PROVE Scheduled(D) \subseteq Scheduled(D \union {what})
  BY ScheduledGrows
<1>2. CASE N!CreateDisk
  <2>1. /\ N!Does("openDisk") /\ disk' = "empty"
        /\ UNCHANGED <<level, idles, pending, onAbort, sockName>>
    BY <1>2 DEF N!CreateDisk
  <2>2. made \subseteq made' /\ "writeMagic" \notin D /\ "extendDisk" \notin D
    BY <2>1, DoesFacts DEF StepOk
  <2> QED
    BY <1>1, <2>1, <2>2, DoesInv
<1>3. CASE N!WriteMagic
  <2>1. /\ N!Does("writeMagic") /\ disk' = "magic"
        /\ UNCHANGED <<level, idles, pending, onAbort, sockName>>
    BY <1>3 DEF N!WriteMagic
  <2>2. made \subseteq made' /\ "extendDisk" \notin D
    BY <2>1, DoesFacts DEF StepOk
  <2> QED
    BY <1>1, <2>1, <2>2, DoesInv
<1>4. CASE N!ExtendDisk
  <2>1. /\ N!Does("extendDisk") /\ disk' = "complete"
        /\ UNCHANGED <<level, idles, pending, onAbort, sockName>>
    BY <1>4 DEF N!ExtendDisk
  <2>2. made \subseteq made'
    BY <2>1, DoesFacts
  <2> QED
    BY <1>1, <2>1, <2>2, DoesInv
<1>5. CASE N!ReadDisk
  <2>1. /\ N!Does("readDisk") /\ pending' = pending \union {"disk"}
        /\ UNCHANGED <<level, onAbort, disk, sockName>>
    BY <1>5 DEF N!ReadDisk, N!host
  <2>2. made \subseteq made' /\ Handled(made, D \union {"readDisk"})
    BY <2>1, DoesFacts DEF StepOk
  <2>3. "disk" \in Scheduled(D \union {"readDisk"})
    BY DEF Scheduled
  <2>4. pending' \subseteq Scheduled(D \union {"readDisk"})
    BY <1>1, <2>1, <2>3
  <2>5. \A d \in pending' : N!HandlerUses(d) \subseteq made'
    BY <2>2, <2>4 DEF Handled
  <2> QED
    BY <2>1, <2>2, <2>4, <2>5, DoesInv
<1>6. CASE N!UnlinkName
  <2>1. /\ N!Does("unlinkName") /\ ~sockName'
        /\ UNCHANGED <<level, idles, pending, onAbort, disk>>
    BY <1>6 DEF N!UnlinkName
  <2>2. made \subseteq made'
    BY <2>1, DoesFacts
  <2> QED
    BY <1>1, <2>1, <2>2, DoesInv
<1>7. CASE N!BindName
  <2>1. program # << >> /\ Head(program).does = "bindName"
    BY <1>7 DEF N!BindName, N!Does
  <2>2. StepOk(made, D, Head(program))
    BY <2>1, SafeStep
  <2>3. ~sockName
    BY <2>1, <2>2 DEF StepOk
  <2>4. /\ N!Does("bindName")
        /\ UNCHANGED <<level, idles, pending, onAbort, disk>>
    BY <1>7, <2>3 DEF N!BindName
  <2>5. made \subseteq made'
    BY <2>4, DoesFacts
  <2> QED
    BY <1>1, <2>4, <2>5, DoesInv
<1> QED
  BY <1>2, <1>3, <1>4, <1>5, <1>6, <1>7

(* Disk::Disk finds the file, and the steps that make it are skipped. *)
LEMMA OpenDiskInv ==
  ASSUME KernelInv, NEW D, RunsWith(D), N!OpenDisk
  PROVE  KernelInv'
<1>1. /\ process' = "runs" /\ program # << >> /\ Head(program).does = "openDisk"
      /\ disk \in {"magic", "complete"}
      /\ program' = SubSeq(program, 4, Len(program))
      /\ UNCHANGED <<made, level, idles, pending, onAbort, disk, sockName, end,
                     spoiled>>
  BY DEF N!OpenDisk, N!host
<1>2. PICK E1 : E1 = D \union {"openDisk"}
  OBVIOUS
<1>3. PICK E2 : E2 = E1 \union {"writeMagic"}
  OBVIOUS
<1>4. PICK E3 : E3 = E2 \union {"extendDisk"}
  OBVIOUS
<1>5. PICK p : p = Tail(program)
  OBVIOUS
<1>6. PICK q : q = Tail(p)
  OBVIOUS
<1>7. /\ Safe(made, D, program) /\ program \in Seq(StepRecord)
      /\ Len(program) \in Nat
  BY DEF RunsWith, Safe
<1>8. /\ StepOk(made, D, Head(program)) /\ DiskIsMadeAt(program, 1)
      /\ Safe(made \union Head(program).makes, D \union {Head(program).does},
              Tail(program))
  BY <1>1, <1>7, SafeStep
<1>9. /\ program[1] = Head(program) /\ 3 <= Len(program)
      /\ program[1].makes = {}
      /\ program[2].makes = {} /\ program[2].does = "writeMagic"
      /\ program[3].makes = {} /\ program[3].does = "extendDisk"
  <2>1. program[1] = Head(program)
    BY <1>1, <1>7
  <2>2. 1 + 1 = 2 /\ 1 + 2 = 3
    OBVIOUS
  <2> QED
    BY <1>1, <1>8, <2>1, <2>2 DEF DiskIsMadeAt
<1>10. /\ p \in Seq(StepRecord) /\ p # << >> /\ Head(p) = program[2]
       /\ q \in Seq(StepRecord) /\ q # << >> /\ Head(q) = program[3]
       /\ Tail(q) = SubSeq(program, 4, Len(program))
  <2>1. /\ p \in Seq(StepRecord) /\ Len(p) = Len(program) - 1
        /\ \A k \in 1..Len(p) : p[k] = program[k + 1]
    BY <1>5, <1>7, <1>9
  <2>2. p # << >> /\ Head(p) = program[2]
    BY <1>7, <1>9, <2>1
  <2>3. /\ q \in Seq(StepRecord) /\ Len(q) = Len(program) - 2
        /\ \A k \in 1..Len(q) : q[k] = program[k + 2]
    BY <1>6, <1>7, <1>9, <2>1, <2>2
  <2>4. q # << >> /\ Head(q) = program[3]
    BY <1>7, <1>9, <2>3
  <2>5. PICK r : r = Tail(q)
    OBVIOUS
  <2>6. /\ r \in Seq(StepRecord) /\ Len(r) = Len(program) - 3
        /\ \A k \in 1..Len(r) : r[k] = program[k + 3]
    BY <1>7, <1>9, <2>3, <2>4, <2>5
  <2>7. PICK t : t = SubSeq(program, 4, Len(program))
    OBVIOUS
  <2>8. /\ t \in Seq(StepRecord) /\ Len(t) = Len(program) - 3
        /\ \A k \in 1..Len(t) : t[k] = program[k + 3]
    <3>1. PICK len : len = Len(program) /\ len \in Nat /\ 3 <= len
      BY <1>7, <1>9
    <3>2. t = SubSeq(program, 4, len)
      BY <2>7, <3>1
    <3>3. \A k \in 4..len : program[k] \in StepRecord
      BY <1>7, <3>1
    <3>4. /\ Len(t) = len - 3
          /\ t = [k \in 1..(len - 3) |-> program[k + 3]]
      BY <3>1, <3>2
    <3>5. \A k \in 1..(len - 3) : t[k] = program[k + 3] /\ k + 3 \in 4..len
      BY <3>1, <3>4
    <3>6. t \in Seq(StepRecord)
      BY <3>1, <3>3, <3>4, <3>5
    <3> QED
      BY <3>1, <3>4, <3>5, <3>6
  <2>9. r = t
    BY <2>6, <2>8, SeqEqual
  <2> QED
    BY <2>1, <2>2, <2>3, <2>4, <2>5, <2>7, <2>9
<1>11. made = made \union {}
  OBVIOUS
<1>12. Safe(made, E1, p)
  BY <1>1, <1>2, <1>5, <1>8, <1>9, <1>11
<1>13. Safe(made, E2, q)
  <2>1. Safe(made \union Head(p).makes, E1 \union {Head(p).does}, q)
    BY <1>6, <1>10, <1>12, SafeStep
  <2> QED
    BY <1>3, <1>9, <1>10, <1>11, <2>1
<1>14. Safe(made, E3, program')
  <2>1. Safe(made \union Head(q).makes, E2 \union {Head(q).does}, Tail(q))
    BY <1>10, <1>13, SafeStep
  <2> QED
    BY <1>1, <1>4, <1>9, <1>10, <1>11, <2>1
<1>15. "writeMagic" \notin D
  BY <1>1, <1>8 DEF StepOk
<1>16. Scheduled(D) \subseteq Scheduled(E3)
  BY <1>2, <1>3, <1>4, ScheduledGrows
<1>17. /\ D \subseteq E3
       /\ "unlinkName" \in E3 => "unlinkName" \in D
  BY <1>2, <1>3, <1>4
<1>18. RunsWith(E3)'
  BY <1>1, <1>14, <1>15, <1>16, <1>17 DEF RunsWith
<1>19. N!RestartSucceeds'
  BY <1>1 DEF KernelInv, N!RestartSucceeds
<1> QED
  BY <1>1, <1>18, <1>19 DEF KernelInv

(* The constructors that abort the process find a disk that a killed one   *)
(* has left.                                                               *)
LEMMA AbortsInv ==
  ASSUME KernelInv, NEW D, RunsWith(D), N!OpenDiskAborts \/ N!ReadDiskAborts
  PROVE  KernelInv'
<1>1. program # << >> => StepOk(made, D, Head(program))
  BY SafeStep DEF RunsWith
<1>2. N!Ends("abort") /\ spoiled
  <2>1. CASE N!OpenDiskAborts
    <3>1. /\ program # << >> /\ Head(program).does = "openDisk"
          /\ disk = "empty" /\ N!Ends("abort")
      BY <2>1 DEF N!OpenDiskAborts
    <3>2. "openDisk" \notin D
      BY <1>1, <3>1 DEF StepOk
    <3> QED
      BY <3>1, <3>2 DEF RunsWith
  <2>2. CASE N!ReadDiskAborts
    <3>1. /\ program # << >> /\ Head(program).does = "readDisk"
          /\ disk = "magic" /\ N!Ends("abort")
      BY <2>2 DEF N!ReadDiskAborts
    <3>2. "extendDisk" \in D
      BY <1>1, <3>1 DEF StepOk
    <3> QED
      BY <3>1, <3>2 DEF RunsWith
  <2> QED
    BY <2>1, <2>2
<1> QED
  BY <1>2, EndsInv

LEMMA StartInv == ASSUME KernelInv, N!Start PROVE KernelInv'
<1>1. PICK flags : program' = N!Main(flags)
  BY DEF N!Start
<1>2. /\ process = "none" /\ process' = "runs"
      /\ UNCHANGED <<made, level, idles, pending, onAbort, disk, sockName, end,
                     spoiled>>
  BY DEF N!Start, N!host
<1>3. /\ made' = {} /\ pending' = {} /\ level' = "off" /\ ~idles' /\ ~onAbort'
      /\ disk' \in {"empty", "magic"} => spoiled'
  BY <1>2 DEF KernelInv
<1>4. Safe({}, {}, program')
  BY <1>1, MainIsSafe
<1>5. Safe(made', {}, program')
  BY <1>3, <1>4
<1>6. RunsWith({})'
  BY <1>3, <1>5 DEF RunsWith
<1>7. N!RestartSucceeds'
  BY <1>2 DEF KernelInv, N!RestartSucceeds
<1> QED
  BY <1>2, <1>6, <1>7 DEF KernelInv

LEMMA HandlerInv ==
  ASSUME KernelInv, NEW d, N!Handler(d) PROVE KernelInv'
<1>1. /\ process = "runs" /\ process' = "runs" /\ pending' \subseteq pending
      /\ idles' => idles
      /\ UNCHANGED <<program, made, level, onAbort, disk, sockName, end, spoiled>>
  BY DEF N!Handler, N!host
<1>2. PICK D : RunsWith(D)
  BY <1>1 DEF KernelInv
<1>3. RunsWith(D)'
  BY <1>1, <1>2 DEF RunsWith
<1>4. N!RestartSucceeds'
  BY <1>1 DEF KernelInv, N!RestartSucceeds
<1> QED
  BY <1>1, <1>3, <1>4 DEF KernelInv

(* Interrupt::Halt and ctl-C find the network and the whole disk. *)
LEMMA DeleteKernelInv ==
  ASSUME KernelInv, NEW D, RunsWith(D), N!DeleteKernel,
         "postOfficeIn" \in made, "extendDisk" \in D
  PROVE  KernelInv'
<1>1. /\ process' = "deletes"
      /\ UNCHANGED <<made, disk, sockName, end, spoiled>>
  BY DEF N!DeleteKernel, N!host
<1>2. disk \in {"empty", "magic"} => spoiled
  BY DEF RunsWith
<1>3. N!RestartSucceeds'
  BY <1>1 DEF KernelInv, N!RestartSucceeds
<1> QED
  BY <1>1, <1>2, <1>3 DEF KernelInv

LEMMA PartsFact ==
  ASSUME NEW object, object # "postOfficeIn"
  PROVE  "postOfficeIn" \notin N!Parts(object)
<1>1. CASE object \in {"synchConsoleIn", "synchConsoleOut", "synchDisk",
                       "postOfficeOut"}
  BY <1>1 DEF N!Parts
<1>2. CASE object \notin {"synchConsoleIn", "synchConsoleOut", "synchDisk",
                          "postOfficeOut"}
  <2>1. N!Parts(object) = {object}
    BY <1>2 DEF N!Parts
  <2> QED
    BY <2>1
<1> QED
  BY <1>1, <1>2

LEMMA DeleteInv == ASSUME KernelInv, N!Delete PROVE KernelInv'
<1>1. PICK x : x = N!Doomed
  OBVIOUS
<1>2. /\ process = "deletes" /\ process' = "deletes"
      /\ made' = made \ N!Parts(x)
      /\ sockName' = (sockName /\ x # "postOfficeIn")
      /\ UNCHANGED <<disk, end, spoiled>>
  BY <1>1 DEF N!Delete
<1>3. sockName' => sockName /\ "postOfficeIn" \notin N!Parts(x)
  BY <1>2, PartsFact
<1>4. sockName' => "postOfficeIn" \in made'
  BY <1>2, <1>3 DEF KernelInv
<1>5. N!RestartSucceeds'
  BY <1>2 DEF KernelInv, N!RestartSucceeds
<1> QED
  BY <1>2, <1>4, <1>5 DEF KernelInv

LEMMA ExitInv == ASSUME KernelInv, N!Exit PROVE KernelInv'
<1>1. process = "deletes" /\ N!Remaining = {} /\ N!Ends("exit")
  BY DEF N!Exit
<1>2. 10 \in DOMAIN N!Deletes /\ N!Deletes[10] = "postOfficeIn"
  BY DEF N!Deletes
<1>3. "postOfficeIn" \notin made
  BY <1>1, <1>2 DEF N!Remaining
<1>4. ~sockName /\ (disk \in {"empty", "magic"} => spoiled)
  BY <1>1, <1>3 DEF KernelInv
<1> QED
  BY <1>1, <1>4, EndsInv

LEMMA KernelStep == KernelInv /\ [N!Next]_(N!vars) => KernelInv'
<1> SUFFICES ASSUME KernelInv, [N!Next]_(N!vars) PROVE KernelInv'
  OBVIOUS
<1>1. process = "runs" => \E D : RunsWith(D)
  BY DEF KernelInv
<1>2. CASE N!Start
  BY <1>2, StartInv
<1>3. CASE \/ N!Construct \/ N!ChangeLevel \/ N!CallOnUserAbort \/ N!Wait
           \/ \E d \in {"timer", "console", "network"} : N!ScheduleDevice(d)
  <2>1. process = "runs"
    BY <1>3 DEF N!Construct, N!ChangeLevel, N!CallOnUserAbort, N!Wait,
                N!ScheduleDevice, N!Does
  <2> QED
    BY <1>1, <1>3, <2>1, ConstructInv
<1>4. CASE \/ N!CreateDisk \/ N!WriteMagic \/ N!ExtendDisk \/ N!ReadDisk
           \/ N!UnlinkName \/ N!BindName
  <2>1. process = "runs"
    BY <1>4 DEF N!CreateDisk, N!WriteMagic, N!ExtendDisk, N!ReadDisk,
                N!UnlinkName, N!BindName, N!Does
  <2> QED
    BY <1>1, <1>4, <2>1, HostInv
<1>5. CASE N!OpenDisk
  <2>1. process = "runs"
    BY <1>5 DEF N!OpenDisk
  <2> QED
    BY <1>1, <1>5, <2>1, OpenDiskInv
<1>6. CASE N!OpenDiskAborts \/ N!ReadDiskAborts
  <2>1. process = "runs"
    BY <1>6 DEF N!OpenDiskAborts, N!ReadDiskAborts
  <2> QED
    BY <1>1, <1>6, <2>1, AbortsInv
<1>7. CASE \E d \in {"timer", "console", "network", "disk"} : N!Handler(d)
  BY <1>7, HandlerInv
<1>8. CASE N!Halt
  <2>1. /\ process = "runs" /\ program # << >> /\ Head(program).does = "halt"
        /\ N!DeleteKernel
    BY <1>8 DEF N!Halt
  <2>2. PICK D : RunsWith(D)
    BY <1>1, <2>1
  <2>3. StepOk(made, D, Head(program))
    BY <2>1, <2>2, SafeStep DEF RunsWith
  <2>4. "postOfficeIn" \in made /\ "extendDisk" \in D
    BY <2>1, <2>3 DEF StepOk
  <2> QED
    BY <2>1, <2>2, <2>4, DeleteKernelInv
<1>9. CASE N!Delete
  BY <1>9, DeleteInv
<1>10. CASE N!Exit
  BY <1>10, ExitInv
<1>11. CASE N!CtlC
  <2>1. CASE onAbort /\ process = "runs" /\ N!DeleteKernel
    <3>1. PICK D : RunsWith(D)
      BY <1>1, <2>1
    <3>2. "postOfficeIn" \in made /\ "extendDisk" \in D
      BY <2>1, <3>1 DEF RunsWith
    <3> QED
      BY <2>1, <3>1, <3>2, DeleteKernelInv
  <2>2. CASE N!Ends("killed")
    BY <2>2, EndsInv
  <2> QED
    BY <1>11, <2>1, <2>2 DEF N!CtlC
<1>12. CASE N!Kill
  <2>1. N!Ends("killed")
    BY <1>12 DEF N!Kill
  <2> QED
    BY <2>1, EndsInv
<1>13. CASE UNCHANGED N!vars
  <2>1. UNCHANGED <<process, program, made, level, idles, pending, onAbort,
                    disk, sockName, end, spoiled>>
    BY <1>13 DEF N!vars, N!memory, N!host
  <2>2. ASSUME NEW D PROVE RunsWith(D)' = RunsWith(D)
    BY <2>1 DEF RunsWith
  <2>3. N!RestartSucceeds'
    BY <2>1 DEF KernelInv, N!RestartSucceeds
  <2>4. process' = "runs" => \E D : RunsWith(D)'
    BY <1>1, <2>1, <2>2
  <2> QED
    BY <2>1, <2>3, <2>4 DEF KernelInv
<1> QED
  BY <1>2, <1>3, <1>4, <1>5, <1>6, <1>7, <1>8, <1>9, <1>10, <1>11, <1>12, <1>13
  DEF N!Next, N!Constructs

LEMMA KernelSafe == KernelInv => UsesOnlyMade /\ RestartSucceeds
<1> SUFFICES ASSUME KernelInv PROVE UsesOnlyMade /\ RestartSucceeds
  OBVIOUS
<1>1. RestartSucceeds
  BY DEF KernelInv, RestartSucceeds
<1>2. ASSUME process = "runs"
      PROVE  /\ program # << >> => Head(program).uses \subseteq made
             /\ level = "on" \/ idles =>
                  \A d \in pending : N!HandlerUses(d) \subseteq made
  <2>1. PICK D : RunsWith(D)
    BY <1>2 DEF KernelInv
  <2>2. program # << >> => StepOk(made, D, Head(program))
    BY <2>1, SafeStep DEF RunsWith
  <2>3. program # << >> => Head(program).uses \subseteq made
    BY <2>2 DEF StepOk
  <2>4. level = "on" \/ idles =>
          \A d \in pending : N!HandlerUses(d) \subseteq made
    BY <2>1 DEF RunsWith
  <2> QED
    BY <2>3, <2>4
<1> QED
  BY <1>1, <1>2 DEF UsesOnlyMade, N!UsesOnlyMade

(* A step of the composition is a step of the kernel or leaves it alone. *)
LEMMA KernelMoves == [Next]_vars => [N!Next]_(N!vars)
<1> SUFFICES ASSUME [Next]_vars PROVE [N!Next]_(N!vars)
  OBVIOUS
<1>1. N!Next \/ UNCHANGED startUp
  BY DEF Next, vars, system
<1>2. UNCHANGED startUp => UNCHANGED N!vars
  BY DEF startUp, N!vars, N!memory, N!host
<1> QED
  BY <1>1, <1>2

LEMMA KernelInvariance == Spec => []KernelInv
<1>1. Init => KernelInv
  BY KernelInit DEF Init
<1>2. KernelInv /\ [Next]_vars => KernelInv'
  BY KernelStep, KernelMoves
<1> QED
  BY <1>1, <1>2, PTL DEF Spec

(* Every step of main, of the constructors of Kernel::Initialize and of    *)
(* the handlers that can run finds the objects that it uses through the    *)
(* global kernel, for every sequence of starts, kills and interrupts.      *)
THEOREM ConstructorsFindTheirObjects == Spec => []UsesOnlyMade
BY KernelInvariance, KernelSafe, PTL

(* A process aborts in the constructors of the disk or of the network only *)
(* after another was killed while it made the disk, and ~Kernel leaves no  *)
(* name of a socket behind.                                                *)
THEOREM NextProcessComesUp == Spec => []RestartSucceeds
BY KernelInvariance, KernelSafe, PTL

-----------------------------------------------------------------------------
(* The shell.                                                              *)
Text == Seq(Character \union {Sh!NewLine})

(* What follows in a text does not change the commands in it. *)
LEMMA UptoPrefix ==
  ASSUME NEW text \in Text, NEW more \in Text, Len(text) <= Len(more),
         \A k \in 1..Len(text) : more[k] = text[k]
  PROVE  /\ \A e \in 0..Len(text) : Sh!Upto(more, e) = Sh!Upto(text, e)
         /\ \A e \in 1..Len(text), b \in 1..Len(text) :
              Sh!IsLine(more, b, e) <=> Sh!IsLine(text, b, e)
<1>1. Len(text) \in Nat /\ Len(more) \in Nat
  BY DEF Text
<1>2. \A k \in 1..Len(text) : Sh!Begins(more, k) <=> Sh!Begins(text, k)
  BY <1>1 DEF Sh!Begins
<1>3. ASSUME NEW e \in 1..Len(text), NEW b \in 1..Len(text)
      PROVE  Sh!IsLine(more, b, e) <=> Sh!IsLine(text, b, e)
  BY <1>1, <1>2 DEF Sh!IsLine
<1>4. \A e \in 0..Len(text) : Sh!NoExit(more, e) <=> Sh!NoExit(text, e)
  BY <1>1, <1>2 DEF Sh!NoExit
<1>5. ASSUME NEW e \in 1..Len(text)
      PROVE  e \in Sh!Commands(more) <=> e \in Sh!Commands(text)
  <2>1. e \in 1..Len(more) /\ \A b \in 1..(e - 1) : b \in 1..Len(text)
    BY <1>1
  <2> QED
    BY <1>3, <1>4, <2>1 DEF Sh!Commands
<1>6. ASSUME NEW e \in 0..Len(text), NEW d
      PROVE  d \in Sh!Upto(more, e) <=> d \in Sh!Upto(text, e)
  <2>1. d \in Sh!Commands(more) /\ d <= e => d \in 1..Len(text)
    BY <1>1 DEF Sh!Commands
  <2>2. d \in Sh!Commands(text) => d \in 1..Len(text)
    BY DEF Sh!Commands
  <2> QED
    BY <1>5, <2>1, <2>2 DEF Sh!Upto
<1> QED
  BY <1>3, <1>6

LEMMA UptoFinite ==
  ASSUME NEW text \in Text, NEW e
  PROVE  /\ IsFiniteSet(Sh!Upto(text, e)) /\ Sh!Rank(text, e) \in Nat
         /\ Sh!Rank(text, e) = Cardinality(Sh!Upto(text, e))
         /\ IsFiniteSet(Sh!Commands(text))
<1>1. Len(text) \in Nat
  BY DEF Text
<1>2. IsFiniteSet(1..Len(text))
  BY <1>1, FS_Interval
<1>3. Sh!Upto(text, e) \subseteq 1..Len(text) /\ Sh!Commands(text) \subseteq 1..Len(text)
  BY DEF Sh!Upto, Sh!Commands
<1>4. IsFiniteSet(Sh!Upto(text, e)) /\ IsFiniteSet(Sh!Commands(text))
  BY <1>2, <1>3, FS_Subset
<1>5. Sh!Rank(text, e) = Cardinality(Sh!Upto(text, e))
  BY DEF Sh!Rank, Sh!Cardinality, Cardinality
<1> QED
  BY <1>4, <1>5, FS_CardinalityType

(* ran holds the commands that end at b or before, in their order. *)
HasRun(b) ==
  /\ Len(ran) = Sh!Rank(typed, b)
  /\ \A e \in Sh!Upto(typed, b) :
       \E a \in 1..(e - 1) : /\ Sh!IsLine(typed, a, e)
                             /\ ran[Sh!Rank(typed, e)] = SubSeq(typed, a, e - 1)

(* The line that begins behind b is in the buffer, n characters of it. *)
Holds(b, n) ==
  /\ b + n <= Len(typed) /\ n <= BufferSize
  /\ \A k \in 0..(n - 1) : buffer[k] = typed[b + k + 1]
NoEnd(b, n) == \A k \in 0..(n - 1) : typed[b + k + 1] # Sh!NewLine

(* The inductive invariant, with the place b in the text where the line    *)
(* that is read or run begins.                                             *)
ShellAt(b) ==
  /\ HasRun(b)
  /\ shpc \in {"read", "got", "exec", "join"} =>
       Sh!Begins(typed, b + 1) /\ Sh!NoExit(typed, b)
  /\ shpc = "read" => read = b + i /\ Holds(b, i) /\ NoEnd(b, i)
  /\ shpc = "got" => /\ read = b + i + 1 /\ Holds(b, i + 1) /\ NoEnd(b, i)
  /\ shpc = "exec" => /\ read = b + i + 1 /\ Holds(b, i) /\ NoEnd(b, i)
                      /\ i # 0 /\ read <= Len(typed)
                      /\ typed[read] = Sh!NewLine /\ typed[b + 1] # "exit"
  /\ shpc = "join" => read = b

ShellInv ==
  ~closed =>
    /\ typed \in Text /\ read \in 0..Len(typed)
    /\ i \in Nat /\ DOMAIN buffer = 0..(BufferSize - 1)
    /\ ran \in Seq(Text)
    /\ shpc # "join" => alive = {}
    /\ alive \subseteq {newProc}
    /\ \E b \in 0..read : ShellAt(b)

LEMMA ShellInit == Sh!Init => ShellInv
<1> SUFFICES ASSUME Sh!Init PROVE ShellInv
  OBVIOUS
<1>1. /\ typed = << >> /\ read = 0 /\ i = 0 /\ shpc = "read" /\ ran = << >>
      /\ alive = {} /\ DOMAIN buffer = 0..(BufferSize - 1) /\ BufferSize \in Nat
  BY ShellAssumed DEF Sh!Init, Sh!ShellAssumption
<1>2. typed \in Text /\ ran \in Seq(Text) /\ Len(typed) = 0 /\ Len(ran) = 0
  BY <1>1 DEF Text
<1>3. Sh!Upto(typed, 0) = {}
  BY <1>2 DEF Sh!Upto, Sh!Commands
<1>4. HasRun(0)
  <2>1. Sh!Rank(typed, 0) = 0
    BY <1>2, <1>3, UptoFinite, FS_EmptySet
  <2> QED
    BY <1>2, <1>3, <2>1 DEF HasRun
<1>5. ShellAt(0)
  BY <1>1, <1>2, <1>4 DEF ShellAt, Holds, NoEnd, Sh!Begins, Sh!NoExit
<1> QED
  BY <1>1, <1>2, <1>5 DEF ShellInv

(* What the user types does not change what has been read. *)
LEMMA TypeInv ==
  ASSUME ShellInv, NEW c \in Character \union {Sh!NewLine}, Sh!Type(c)
  PROVE  ShellInv'
<1> SUFFICES ASSUME ~closed' PROVE ShellInv'
  BY DEF ShellInv
<1>1. /\ ~closed /\ typed' = Append(typed, c)
      /\ UNCHANGED <<read, buffer, i, shpc, ran, newProc, alive>>
  BY DEF Sh!Type
<1>2. /\ typed \in Text /\ read \in 0..Len(typed)
      /\ i \in Nat /\ DOMAIN buffer = 0..(BufferSize - 1)
      /\ ran \in Seq(Text)
      /\ shpc # "join" => alive = {}
      /\ alive \subseteq {newProc}
  BY <1>1 DEF ShellInv
<1>3. PICK b \in 0..read : ShellAt(b)
  BY <1>1 DEF ShellInv
<1>4. /\ typed' \in Text /\ Len(typed') = Len(typed) + 1 /\ Len(typed) \in Nat
      /\ \A k \in 1..Len(typed) : typed'[k] = typed[k]
  BY <1>1, <1>2 DEF Text
<1>5. /\ \A e \in 0..Len(typed) : Sh!Upto(typed', e) = Sh!Upto(typed, e)
      /\ \A e \in 1..Len(typed), a \in 1..Len(typed) :
           Sh!IsLine(typed', a, e) <=> Sh!IsLine(typed, a, e)
  BY <1>2, <1>4, UptoPrefix
<1>6. \A e \in 0..Len(typed) : Sh!Rank(typed', e) = Sh!Rank(typed, e)
  BY <1>2, <1>4, <1>5, UptoFinite
<1>7. HasRun(b)'
  <2>1. b \in 0..Len(typed) /\ HasRun(b)
    BY <1>2, <1>3 DEF ShellAt
  <2>2. Len(ran') = Sh!Rank(typed', b)
    BY <1>1, <1>6, <2>1 DEF HasRun
  <2>3. ASSUME NEW e \in Sh!Upto(typed', b)
        PROVE  \E a \in 1..(e - 1) :
                 /\ Sh!IsLine(typed', a, e)
                 /\ ran'[Sh!Rank(typed', e)] = SubSeq(typed', a, e - 1)
    <3>1. e \in Sh!Upto(typed, b) /\ e \in 1..Len(typed)
      BY <1>2, <1>5, <2>1 DEF Sh!Upto, Sh!Commands
    <3>2. PICK a \in 1..(e - 1) :
                 /\ Sh!IsLine(typed, a, e)
                 /\ ran[Sh!Rank(typed, e)] = SubSeq(typed, a, e - 1)
      BY <2>1, <3>1 DEF HasRun
    <3>3. SubSeq(typed', a, e - 1) = SubSeq(typed, a, e - 1)
      <4>1. /\ SubSeq(typed', a, e - 1) = [k \in 1..((e - 1) - a + 1) |-> typed'[a + k - 1]]
            /\ SubSeq(typed, a, e - 1) = [k \in 1..((e - 1) - a + 1) |-> typed[a + k - 1]]
        BY <1>2, <1>4, <3>1 DEF Text
      <4>2. \A k \in 1..((e - 1) - a + 1) : typed'[a + k - 1] = typed[a + k - 1]
        BY <1>4, <3>1
      <4> QED
        BY <4>1, <4>2
    <3>4. Sh!IsLine(typed', a, e)
      BY <1>4, <1>5, <3>1, <3>2
    <3>5. e \in 0..Len(typed)
      BY <1>4, <3>1
    <3>6. ran'[Sh!Rank(typed', e)] = ran[Sh!Rank(typed, e)]
      BY <1>1, <1>6, <3>5
    <3>7. ran'[Sh!Rank(typed', e)] = SubSeq(typed', a, e - 1)
      BY <3>2, <3>3, <3>6
    <3> QED
      BY <3>4, <3>7
  <2> QED
    BY <2>2, <2>3 DEF HasRun
<1>8. ShellAt(b)'
  <2>1. \A k \in 1..read : typed'[k] = typed[k] /\ k \in 1..Len(typed)
    BY <1>2, <1>4
  <2>2. ASSUME shpc \in {"read", "got", "exec", "join"}
        PROVE  Sh!Begins(typed', b + 1) /\ Sh!NoExit(typed', b)
    <3>1. Sh!Begins(typed, b + 1) /\ Sh!NoExit(typed, b)
      BY <1>3, <2>2 DEF ShellAt
    <3>2. \A k \in 1..(b + 1) : Sh!Begins(typed', k) <=> Sh!Begins(typed, k)
      <4>1. \A k \in 2..(b + 1) : k - 1 \in 1..read
        BY <1>2
      <4> QED
        BY <1>2, <2>1, <4>1 DEF Sh!Begins
    <3>3. \A k \in 1..b : k \in 1..(b + 1) /\ typed'[k] = typed[k]
      BY <1>2, <2>1
    <3>4. b + 1 \in 1..(b + 1)
      BY <1>2
    <3>5. Sh!NoExit(typed', b)
      BY <3>1, <3>2, <3>3 DEF Sh!NoExit
    <3> QED
      BY <3>1, <3>2, <3>4, <3>5
  <2>3. ASSUME NEW n \in Nat, b + n <= read
        PROVE  /\ Holds(b, n) => Holds(b, n)'
               /\ NoEnd(b, n) => NoEnd(b, n)'
    <3>1. \A k \in 0..(n - 1) : typed'[b + k + 1] = typed[b + k + 1]
      <4>1. \A k \in 0..(n - 1) : b + k + 1 \in 1..read
        BY <1>2, <2>3
      <4> QED
        BY <2>1, <4>1
    <3>2. b + n <= Len(typed')
      BY <1>2, <1>4, <2>3
    <3>3. Holds(b, n) => Holds(b, n)'
      BY <1>1, <3>1, <3>2 DEF Holds
    <3>4. NoEnd(b, n) => NoEnd(b, n)'
      BY <3>1 DEF NoEnd
    <3> QED
      BY <3>3, <3>4
  <2>4. shpc = "read" => read' = b + i' /\ Holds(b, i)' /\ NoEnd(b, i)'
    BY <1>1, <1>2, <1>3, <2>3 DEF ShellAt
  <2>5. shpc = "got" => /\ read' = b + i' + 1 /\ Holds(b, i + 1)' /\ NoEnd(b, i)'
    BY <1>1, <1>2, <1>3, <2>3 DEF ShellAt
  <2>6. shpc = "exec" => /\ read' = b + i' + 1 /\ Holds(b, i)' /\ NoEnd(b, i)'
                         /\ i' # 0 /\ read' <= Len(typed')
                         /\ typed'[read'] = Sh!NewLine /\ typed'[b + 1] # "exit"
    BY <1>1, <1>2, <1>3, <1>4, <2>1, <2>3 DEF ShellAt
  <2> QED
    BY <1>1, <1>3, <1>7, <2>2, <2>4, <2>5, <2>6 DEF ShellAt
<1> QED
  BY <1>1, <1>2, <1>4, <1>8 DEF ShellInv

(* What an action of the shell finds while the input is open. *)
ShellOpen ==
  /\ typed \in Text /\ read \in 0..Len(typed) /\ Len(typed) \in Nat
  /\ i \in Nat /\ DOMAIN buffer = 0..(BufferSize - 1) /\ BufferSize \in Nat
  /\ ran \in Seq(Text)
  /\ shpc # "join" => alive = {}
  /\ alive \subseteq {newProc}

LEMMA ShellIsOpen == ASSUME ShellInv, ~closed PROVE ShellOpen /\ \E b \in 0..read : ShellAt(b)
BY ShellAssumed DEF ShellInv, ShellOpen, Sh!ShellAssumption, Text

LEMMA ReadInv == ASSUME ShellInv, Sh!Read PROVE ShellInv'
<1> SUFFICES ASSUME ~closed' PROVE ShellInv'
  BY DEF ShellInv
<1>1. ~closed /\ shpc = "read" /\ UNCHANGED <<typed, closed, i, ran, newProc, alive>>
  BY DEF Sh!Read
<1>2. ShellOpen
  BY <1>1, ShellIsOpen
<1>3. PICK b \in 0..read : ShellAt(b)
  BY <1>1, ShellIsOpen
<1>4. HasRun(b) => HasRun(b)'
  BY <1>1 DEF HasRun
<1>5. /\ HasRun(b) /\ Sh!Begins(typed, b + 1) /\ Sh!NoExit(typed, b)
      /\ read = b + i /\ Holds(b, i) /\ NoEnd(b, i)
  BY <1>1, <1>3 DEF ShellAt
<1>6. CASE i = BufferSize
  <2>1. shpc' = "undefined" /\ UNCHANGED <<read, buffer>>
    BY <1>6 DEF Sh!Read
  <2>2. ShellAt(b)'
    BY <1>4, <1>5, <2>1 DEF ShellAt
  <2> QED
    BY <1>1, <1>2, <2>1, <2>2 DEF ShellInv, ShellOpen
<1>7. CASE i # BufferSize
  <2>1. /\ read < Len(typed) /\ read' = read + 1
        /\ buffer' = [buffer EXCEPT ![i] = typed[read + 1]]
        /\ shpc' \in {"undefined", "got"}
    BY <1>1, <1>7 DEF Sh!Read
  <2>2. i + 1 <= BufferSize /\ i \in 0..(BufferSize - 1)
    BY <1>2, <1>5, <1>7 DEF ShellOpen, Holds
  <2>3. /\ DOMAIN buffer' = 0..(BufferSize - 1)
        /\ \A k \in 0..(i - 1) : buffer'[k] = buffer[k]
        /\ buffer'[i] = typed[b + i + 1]
    BY <1>2, <1>5, <2>1, <2>2 DEF ShellOpen
  <2>4. Holds(b, i + 1)'
    <3>1. b + (i + 1) <= Len(typed)
      BY <1>2, <1>5, <2>1 DEF ShellOpen
    <3>2. \A k \in 0..((i + 1) - 1) : k \in 0..(i - 1) \/ k = i
      BY <1>2 DEF ShellOpen
    <3>3. \A k \in 0..((i + 1) - 1) : buffer'[k] = typed[b + k + 1]
      BY <1>5, <2>3, <3>2 DEF Holds
    <3> QED
      BY <1>1, <2>2, <3>1, <3>3 DEF Holds
  <2>5. NoEnd(b, i)'
    BY <1>1, <1>5 DEF NoEnd
  <2>6. read' = b + i' + 1 /\ read' \in 0..Len(typed') /\ b \in 0..read'
    BY <1>1, <1>2, <1>5, <2>1 DEF ShellOpen
  <2>7. ShellAt(b)'
    BY <1>1, <1>4, <1>5, <2>1, <2>4, <2>5, <2>6 DEF ShellAt
  <2> QED
    BY <1>1, <1>2, <2>1, <2>3, <2>6, <2>7 DEF ShellInv, ShellOpen
<1> QED
  BY <1>6, <1>7

(* An empty line, or a character that ends none. *)
LEMMA GotInv == ASSUME ShellInv, Sh!Got PROVE ShellInv'
<1> SUFFICES ASSUME ~closed' PROVE ShellInv'
  BY DEF ShellInv
<1>1. ~closed /\ shpc = "got" /\ UNCHANGED <<typed, closed, read, ran, newProc, alive>>
  BY DEF Sh!Got
<1>2. ShellOpen
  BY <1>1, ShellIsOpen
<1>3. PICK b \in 0..read : ShellAt(b)
  BY <1>1, ShellIsOpen
<1>4. ASSUME NEW a, HasRun(a) PROVE HasRun(a)'
  BY <1>1, <1>4 DEF HasRun
<1>5. /\ HasRun(b) /\ Sh!Begins(typed, b + 1) /\ Sh!NoExit(typed, b)
      /\ read = b + i + 1 /\ Holds(b, i + 1) /\ NoEnd(b, i)
  BY <1>1, <1>3 DEF ShellAt
<1>6. /\ buffer[i] = typed[b + i + 1] /\ buffer[0] = typed[b + 1]
      /\ i + 1 <= BufferSize /\ \A k \in 0..(i - 1) : buffer[k] = typed[b + k + 1]
  <2>1. /\ i \in 0..((i + 1) - 1) /\ 0 \in 0..((i + 1) - 1)
        /\ \A k \in 0..(i - 1) : k \in 0..((i + 1) - 1)
        /\ b + 0 + 1 = b + 1
    BY <1>2 DEF ShellOpen
  <2> QED
    BY <1>5, <2>1 DEF Holds
<1>7. CASE buffer[i] # Sh!NewLine
  <2>1. i' = i + 1 /\ shpc' = "read" /\ buffer' = buffer
    BY <1>7 DEF Sh!Got
  <2>2. Holds(b, i)' /\ read' = b + i'
    BY <1>1, <1>2, <1>5, <2>1 DEF Holds, ShellOpen
  <2>3. NoEnd(b, i)'
    <3>1. \A k \in 0..((i + 1) - 1) : k \in 0..(i - 1) \/ k = i
      BY <1>2 DEF ShellOpen
    <3>2. NoEnd(b, i + 1)
      BY <1>5, <1>6, <1>7, <3>1 DEF NoEnd
    <3> QED
      BY <1>1, <2>1, <3>2 DEF NoEnd
  <2>4. ShellAt(b)'
    BY <1>1, <1>4, <1>5, <2>1, <2>2, <2>3 DEF ShellAt
  <2> QED
    BY <1>1, <1>2, <2>1, <2>4 DEF ShellInv, ShellOpen
<1>8. CASE buffer[i] = Sh!NewLine
  <2>1. buffer' = [buffer EXCEPT ![i] = Sh!Nul]
    BY <1>8 DEF Sh!Got
  <2>2. DOMAIN buffer' = 0..(BufferSize - 1) /\ \A k \in 0..(i - 1) : buffer'[k] = buffer[k]
    BY <1>2, <1>6, <2>1 DEF ShellOpen
  <2>3. typed[read] = Sh!NewLine /\ read \in 1..Len(typed)
    BY <1>2, <1>5, <1>6, <1>8 DEF ShellOpen
  <2>4. CASE i = 0
    <3>1. shpc' = "read" /\ i' = 0
      BY <1>8, <2>4 DEF Sh!Got
    <3>2. read = b + 1
      BY <1>2, <1>5, <2>4 DEF ShellOpen
    <3>3. read \notin Sh!Commands(typed)
      <4>1. ASSUME NEW a \in 1..(read - 1), Sh!IsLine(typed, a, read) PROVE FALSE
        <5>1. b # 0 /\ b \in a..(read - 1) /\ (b + 1) - 1 = b
          BY <1>2, <3>2, <4>1 DEF ShellOpen
        <5>2. typed[b] = Sh!NewLine
          BY <1>2, <1>5, <5>1 DEF Sh!Begins, ShellOpen
        <5> QED
          BY <4>1, <5>1, <5>2 DEF Sh!IsLine
      <4> QED
        BY <4>1 DEF Sh!Commands
    <3>4. Sh!Upto(typed, read) = Sh!Upto(typed, b)
      <4>1. \A d \in Sh!Commands(typed) : d <= read <=> d <= b \/ d = read
        BY <1>2, <3>2 DEF Sh!Commands, ShellOpen
      <4> QED
        BY <3>3, <4>1 DEF Sh!Upto
    <3>5. HasRun(read)
      BY <1>2, <1>5, <3>4, UptoFinite DEF HasRun, ShellOpen
    <3>6. Sh!Begins(typed, read + 1)
      <4>1. (read + 1) - 1 = read
        BY <2>3
      <4> QED
        BY <2>3, <4>1 DEF Sh!Begins
    <3>7. Sh!NoExit(typed, read)
      <4>1. Sh!NewLine # "exit"
        BY Zenon DEF Sh!NewLine
      <4>2. \A k \in 1..read : k \in 1..b \/ k = read
        BY <1>2, <3>2 DEF ShellOpen
      <4> QED
        BY <1>5, <2>3, <4>1, <4>2 DEF Sh!NoExit
    <3>8. PICK n : n = read
      OBVIOUS
    <3>9. read' = n + i' /\ Holds(n, i)' /\ NoEnd(n, i)' /\ n \in 0..read'
      <4>1. read + 0 = read /\ read <= Len(typed) /\ 0 <= BufferSize
            /\ read \in 0..read
        BY <1>2 DEF ShellOpen
      <4>2. 0..(0 - 1) = {}
        OBVIOUS
      <4> QED
        BY <1>1, <3>1, <3>8, <4>1, <4>2 DEF Holds, NoEnd
    <3>10. HasRun(n)'
      BY <1>4, <3>5, <3>8
    <3>11. ShellAt(n)'
      BY <1>1, <3>1, <3>6, <3>7, <3>8, <3>9, <3>10 DEF ShellAt
    <3> QED
      BY <1>1, <1>2, <2>2, <3>1, <3>9, <3>11 DEF ShellInv, ShellOpen
  <2>5. CASE i # 0 /\ buffer[0] = "exit"
    <3>1. shpc' = "halted" /\ i' = i
      BY <1>8, <2>5 DEF Sh!Got
    <3>2. ShellAt(b)'
      BY <1>4, <1>5, <3>1 DEF ShellAt
    <3> QED
      BY <1>1, <1>2, <2>2, <3>1, <3>2 DEF ShellInv, ShellOpen
  <2>6. CASE i # 0 /\ buffer[0] # "exit"
    <3>1. shpc' = "exec" /\ i' = i
      BY <1>8, <2>6 DEF Sh!Got
    <3>2. Holds(b, i)' /\ NoEnd(b, i)'
      <4>1. b + i <= Len(typed) /\ i <= BufferSize
        BY <1>2, <1>5, <1>6 DEF ShellOpen
      <4> QED
        BY <1>1, <1>5, <1>6, <2>2, <3>1, <4>1 DEF Holds, NoEnd
    <3>3. ShellAt(b)'
      BY <1>1, <1>4, <1>5, <1>6, <2>3, <2>6, <3>1, <3>2 DEF ShellAt
    <3> QED
      BY <1>1, <1>2, <2>2, <3>1, <3>3 DEF ShellInv, ShellOpen
  <2> QED
    BY <2>4, <2>5, <2>6
<1> QED
  BY <1>7, <1>8

(* Exec runs the line that ends where the shell has read to. *)
LEMMA ExecInv == ASSUME ShellInv, Sh!Exec PROVE ShellInv'
<1> SUFFICES ASSUME ~closed' PROVE ShellInv'
  BY DEF ShellInv
<1>1. /\ ~closed /\ shpc = "exec" /\ shpc' = "join" /\ ran' = Append(ran, Sh!Line)
      /\ UNCHANGED <<typed, closed, read, buffer, i>>
  BY DEF Sh!Exec
<1>2. ShellOpen
  BY <1>1, ShellIsOpen
<1>3. PICK b \in 0..read : ShellAt(b)
  BY <1>1, ShellIsOpen
<1>4. /\ HasRun(b) /\ Sh!Begins(typed, b + 1) /\ Sh!NoExit(typed, b)
      /\ read = b + i + 1 /\ Holds(b, i) /\ NoEnd(b, i) /\ i # 0
      /\ typed[read] = Sh!NewLine /\ typed[b + 1] # "exit"
  BY <1>1, <1>3 DEF ShellAt
<1>5. PICK n : n = read
  OBVIOUS
<1>6. /\ n \in 1..Len(typed) /\ b + 1 \in 1..(n - 1) /\ b \in Nat
      /\ n = b + i + 1 /\ i \in Nat /\ b < n
  BY <1>2, <1>3, <1>4, <1>5 DEF ShellOpen
<1>7. \A k \in (b + 1)..(n - 1) : typed[k] # Sh!NewLine
  <2>1. ASSUME NEW k \in (b + 1)..(n - 1) PROVE typed[k] # Sh!NewLine
    <3>1. k - b - 1 \in 0..(i - 1) /\ b + (k - b - 1) + 1 = k
      BY <1>6
    <3> QED
      BY <1>4, <3>1 DEF NoEnd
  <2> QED
    BY <2>1
<1>8. Sh!IsLine(typed, b + 1, n)
  BY <1>4, <1>5, <1>7 DEF Sh!IsLine
<1>9. Sh!NoExit(typed, n)
  <2>1. ASSUME NEW k \in 1..n, Sh!Begins(typed, k) PROVE typed[k] # "exit"
    <3>1. CASE k \in 1..b
      BY <1>4, <2>1, <3>1 DEF Sh!NoExit
    <3>2. CASE k = b + 1
      BY <1>4, <3>2
    <3>3. CASE k \notin 1..b /\ k # b + 1
      <4>1. k # 1 /\ k - 1 \in (b + 1)..(n - 1)
        BY <1>6, <3>3
      <4> QED
        BY <1>7, <2>1, <4>1 DEF Sh!Begins
    <3> QED
      BY <3>1, <3>2, <3>3
  <2> QED
    BY <2>1 DEF Sh!NoExit
<1>10. n \in Sh!Commands(typed)
  BY <1>6, <1>8, <1>9 DEF Sh!Commands
<1>11. Sh!Upto(typed, n) = Sh!Upto(typed, b) \union {n} /\ n \notin Sh!Upto(typed, b)
  <2>1. ASSUME NEW d \in Sh!Commands(typed) PROVE d <= n <=> d <= b \/ d = n
    <3>1. d \in 1..Len(typed) /\ typed[d] = Sh!NewLine
      BY DEF Sh!Commands, Sh!IsLine
    <3>2. d \notin (b + 1)..(n - 1)
      BY <1>7, <3>1
    <3> QED
      BY <1>2, <1>6, <3>1, <3>2 DEF ShellOpen
  <2>2. ~(n <= b)
    BY <1>2, <1>6 DEF ShellOpen
  <2> QED
    BY <1>10, <2>1, <2>2 DEF Sh!Upto
<1>12. Sh!Rank(typed, n) = Len(ran) + 1 /\ Len(ran) \in Nat
  <2>1. typed \in Text
    BY <1>2 DEF ShellOpen
  <2>2. /\ IsFiniteSet(Sh!Upto(typed, b))
        /\ Sh!Rank(typed, b) = Cardinality(Sh!Upto(typed, b))
        /\ Sh!Rank(typed, n) = Cardinality(Sh!Upto(typed, n))
        /\ Sh!Rank(typed, b) \in Nat
    BY <2>1, UptoFinite
  <2>3. Cardinality(Sh!Upto(typed, b) \union {n}) = Cardinality(Sh!Upto(typed, b)) + 1
    BY <1>11, <2>2, FS_AddElement
  <2> QED
    BY <1>4, <1>11, <2>2, <2>3 DEF HasRun
<1>13. Sh!Line = SubSeq(typed, b + 1, n - 1) /\ Sh!Line \in Text
  <2>1. PICK s : s = SubSeq(typed, b + 1, n - 1)
    OBVIOUS
  <2>2. /\ s \in Text /\ s = [k \in 1..((n - 1) - (b + 1) + 1) |-> typed[(b + 1) + k - 1]]
    BY <1>2, <1>6, <2>1 DEF ShellOpen, Text
  <2>3. (n - 1) - (b + 1) + 1 = i
    BY <1>6
  <2>4. \A k \in 1..i : buffer[k - 1] = typed[(b + 1) + k - 1]
    <3>1. \A k \in 1..i : k - 1 \in 0..(i - 1) /\ b + (k - 1) + 1 = (b + 1) + k - 1
      BY <1>6
    <3> QED
      BY <1>4, <3>1 DEF Holds
  <2>5. s = [k \in 1..i |-> typed[(b + 1) + k - 1]]
    BY <2>2, <2>3
  <2>6. Sh!Line = s
    BY <2>4, <2>5 DEF Sh!Line
  <2> QED
    BY <2>1, <2>2, <2>6
<1>14. /\ ran' \in Seq(Text) /\ Len(ran') = Len(ran) + 1
       /\ ran'[Len(ran) + 1] = Sh!Line
       /\ \A k \in 1..Len(ran) : ran'[k] = ran[k]
  <2>1. PICK x : x = Sh!Line
    OBVIOUS
  <2>2. x \in Text /\ ran \in Seq(Text) /\ ran' = Append(ran, x)
    BY <1>1, <1>2, <1>13, <2>1 DEF ShellOpen
  <2> QED
    BY <2>1, <2>2, AppendProperties
<1>15. HasRun(n)'
  <2>1. Len(ran') = Sh!Rank(typed, n)
    BY <1>12, <1>14
  <2>2. ASSUME NEW e \in Sh!Upto(typed, n)
        PROVE  \E a \in 1..(e - 1) :
                 /\ Sh!IsLine(typed, a, e)
                 /\ ran'[Sh!Rank(typed, e)] = SubSeq(typed, a, e - 1)
    <3>1. CASE e = n
      BY <1>6, <1>8, <1>12, <1>13, <1>14, <3>1
    <3>2. CASE e \in Sh!Upto(typed, b)
      <4>1. PICK a \in 1..(e - 1) :
                 /\ Sh!IsLine(typed, a, e)
                 /\ ran[Sh!Rank(typed, e)] = SubSeq(typed, a, e - 1)
        BY <1>4, <3>2 DEF HasRun
      <4>2. Sh!Rank(typed, e) \in 1..Len(ran)
        <5>1. e \in Sh!Upto(typed, e) /\ Sh!Upto(typed, e) \subseteq Sh!Upto(typed, b)
          BY <1>6, <3>2 DEF Sh!Upto, Sh!Commands
        <5>2. /\ IsFiniteSet(Sh!Upto(typed, b)) /\ IsFiniteSet(Sh!Upto(typed, e))
              /\ Sh!Rank(typed, b) = Cardinality(Sh!Upto(typed, b))
              /\ Sh!Rank(typed, e) = Cardinality(Sh!Upto(typed, e))
              /\ Sh!Rank(typed, e) \in Nat
          BY <1>2, UptoFinite DEF ShellOpen
        <5>3. Cardinality(Sh!Upto(typed, e)) <= Cardinality(Sh!Upto(typed, b))
          BY <5>1, <5>2, FS_Subset
        <5>4. Cardinality(Sh!Upto(typed, e)) # 0
          BY <5>1, <5>2, FS_EmptySet
        <5> QED
          BY <1>4, <5>2, <5>3, <5>4 DEF HasRun
      <4> QED
        BY <1>14, <4>1, <4>2
    <3> QED
      BY <1>11, <3>1, <3>2
  <2> QED
    BY <1>1, <2>1, <2>2 DEF HasRun
<1>16. Sh!Begins(typed, n + 1)
  <2>1. (n + 1) - 1 = n
    BY <1>6
  <2> QED
    BY <1>4, <1>5, <2>1 DEF Sh!Begins
<1>17. ShellAt(n)'
  BY <1>1, <1>5, <1>9, <1>15, <1>16 DEF ShellAt
<1>18. alive' \subseteq {newProc'}
  BY <1>1, <1>2 DEF Sh!Exec, ShellOpen
<1>19. n \in 0..read'
  BY <1>1, <1>5, <1>6
<1> QED
  BY <1>1, <1>2, <1>14, <1>17, <1>18, <1>19 DEF ShellInv, ShellOpen

LEMMA ShellStep == ShellInv /\ [Sh!Next]_(Sh!vars) => ShellInv'
<1> SUFFICES ASSUME ShellInv, [Sh!Next]_(Sh!vars) PROVE ShellInv'
  OBVIOUS
<1>1. CASE \E c \in Character \union {Sh!NewLine} : Sh!Type(c)
  BY <1>1, TypeInv
<1>2. CASE Sh!CloseInput
  BY <1>2 DEF Sh!CloseInput, ShellInv
<1>3. CASE Sh!Read
  BY <1>3, ReadInv
<1>4. CASE Sh!Got
  BY <1>4, GotInv
<1>5. CASE Sh!Exec
  BY <1>5, ExecInv
<1>6. CASE Sh!Join
  <2> SUFFICES ASSUME ~closed' PROVE ShellInv'
    BY DEF ShellInv
  <2>1. /\ ~closed /\ shpc = "join" /\ newProc \notin alive /\ shpc' = "read" /\ i' = 0
        /\ UNCHANGED <<typed, closed, read, buffer, ran, newProc, alive>>
    BY <1>6 DEF Sh!Join
  <2>2. ShellOpen
    BY <2>1, ShellIsOpen
  <2>3. PICK b \in 0..read : ShellAt(b)
    BY <2>1, ShellIsOpen
  <2>4. /\ HasRun(b) /\ Sh!Begins(typed, b + 1) /\ Sh!NoExit(typed, b)
        /\ read = b
    BY <2>1, <2>3 DEF ShellAt
  <2>5. read' = b + i' /\ Holds(b, i)' /\ NoEnd(b, i)'
    <3>1. b + 0 = b /\ b <= Len(typed) /\ 0 <= BufferSize
      BY <2>2, <2>4 DEF ShellOpen
    <3>2. 0..(0 - 1) = {}
      OBVIOUS
    <3> QED
      BY <2>1, <2>4, <3>1, <3>2 DEF Holds, NoEnd
  <2>6. HasRun(b)'
    BY <2>1, <2>4 DEF HasRun
  <2>7. ShellAt(b)'
    BY <2>1, <2>4, <2>5, <2>6 DEF ShellAt
  <2>8. alive' = {}
    BY <2>1, <2>2 DEF ShellOpen
  <2> QED
    BY <2>1, <2>2, <2>7, <2>8 DEF ShellInv, ShellOpen
<1>7. CASE (\E p \in alive : Sh!ProgramEnds(p)) \/ UNCHANGED Sh!vars
  <2>1. /\ UNCHANGED <<typed, closed, read, buffer, i, shpc, ran, newProc>>
        /\ alive' \subseteq alive
    BY <1>7 DEF Sh!ProgramEnds, Sh!vars
  <2>2. ASSUME NEW b, ShellAt(b) PROVE ShellAt(b)'
    BY <2>1, <2>2 DEF ShellAt, HasRun, Holds, NoEnd
  <2> QED
    BY <2>1, <2>2 DEF ShellInv
<1> QED
  BY <1>1, <1>2, <1>3, <1>4, <1>5, <1>6, <1>7 DEF Sh!Next

LEMMA ShellSafe == ShellInv => Sh!RunsLinesInOrder
<1> SUFFICES ASSUME ShellInv, ~closed PROVE
       /\ Len(ran) <= Sh!Cardinality(Sh!Commands(typed))
       /\ \A e \in Sh!Commands(typed) : Sh!Rank(typed, e) <= Len(ran) =>
            \E a \in 1..(e - 1) : /\ Sh!IsLine(typed, a, e)
                                  /\ ran[Sh!Rank(typed, e)] = SubSeq(typed, a, e - 1)
       /\ Sh!Cardinality(alive) <= 1
       /\ shpc = "read" /\ i = 0 /\ read = Len(typed) =>
            Len(ran) = Sh!Cardinality(Sh!Commands(typed))
  BY DEF Sh!RunsLinesInOrder
<1>1. ShellOpen
  BY ShellIsOpen
<1>2. PICK b \in 0..read : ShellAt(b)
  BY ShellIsOpen
<1>3. typed \in Text /\ HasRun(b) /\ b \in Nat
  BY <1>1, <1>2 DEF ShellAt, ShellOpen
<1>4. ASSUME NEW s PROVE Sh!Cardinality(s) = Cardinality(s)
  BY DEF Sh!Cardinality, Cardinality
<1>5. /\ IsFiniteSet(Sh!Commands(typed)) /\ IsFiniteSet(Sh!Upto(typed, b))
      /\ Len(ran) = Cardinality(Sh!Upto(typed, b)) /\ Len(ran) \in Nat
  BY <1>3, UptoFinite DEF HasRun
<1>6. Len(ran) <= Sh!Cardinality(Sh!Commands(typed))
  <2>1. Sh!Upto(typed, b) \subseteq Sh!Commands(typed)
    BY DEF Sh!Upto
  <2> QED
    BY <1>4, <1>5, <2>1, FS_Subset
<1>7. ASSUME NEW e \in Sh!Commands(typed), Sh!Rank(typed, e) <= Len(ran)
      PROVE  \E a \in 1..(e - 1) :
               /\ Sh!IsLine(typed, a, e)
               /\ ran[Sh!Rank(typed, e)] = SubSeq(typed, a, e - 1)
  <2>1. CASE e <= b
    BY <1>3, <2>1 DEF HasRun, Sh!Upto
  <2>2. CASE ~(e <= b)
    <3>1. e \in Nat
      BY DEF Sh!Commands
    <3>2. e \notin Sh!Upto(typed, b) /\ Sh!Upto(typed, b) \union {e} \subseteq Sh!Upto(typed, e)
      BY <1>3, <2>2, <3>1 DEF Sh!Upto, Sh!Commands
    <3>3. /\ IsFiniteSet(Sh!Upto(typed, e))
          /\ Sh!Rank(typed, e) = Cardinality(Sh!Upto(typed, e))
          /\ Sh!Rank(typed, e) \in Nat
      BY <1>3, UptoFinite
    <3>4. Cardinality(Sh!Upto(typed, b) \union {e}) = Len(ran) + 1
      BY <1>5, <3>2, FS_AddElement
    <3>5. Cardinality(Sh!Upto(typed, b) \union {e}) <= Cardinality(Sh!Upto(typed, e))
      BY <3>2, <3>3, FS_Subset
    <3> QED
      BY <1>5, <1>7, <3>3, <3>4, <3>5
  <2> QED
    BY <2>1, <2>2
<1>8. Sh!Cardinality(alive) <= 1
  <2>1. IsFiniteSet({newProc}) /\ Cardinality({newProc}) = 1
    BY FS_Singleton
  <2>2. alive \subseteq {newProc}
    BY <1>1 DEF ShellOpen
  <2> QED
    BY <1>4, <2>1, <2>2, FS_Subset
<1>9. ASSUME shpc = "read", i = 0, read = Len(typed)
      PROVE  Len(ran) = Sh!Cardinality(Sh!Commands(typed))
  <2>1. b = Len(typed)
    BY <1>1, <1>2, <1>9 DEF ShellAt, ShellOpen
  <2>2. Sh!Upto(typed, b) = Sh!Commands(typed)
    BY <2>1 DEF Sh!Upto, Sh!Commands
  <2> QED
    BY <1>4, <1>5, <2>2
<1> QED
  BY <1>6, <1>7, <1>8, <1>9

(* A step of the composition is a step of the shell or leaves it alone. *)
LEMMA ShellMoves == [Next]_vars => [Sh!Next]_(Sh!vars)
<1> SUFFICES ASSUME [Next]_vars PROVE [Sh!Next]_(Sh!vars)
  OBVIOUS
<1>1. Sh!Next \/ UNCHANGED shell
  BY DEF Next, vars, system
<1>2. UNCHANGED shell => UNCHANGED Sh!vars
  BY DEF shell, Sh!vars
<1> QED
  BY <1>1, <1>2

(* The shell runs the lines that are typed one after the other, in their   *)
(* order, each once, none while the one before it runs and none after an   *)
(* exit, for buffers of any size.                                          *)
THEOREM LinesRunInOrder == Spec => []RunsLinesInOrder
<1>1. Init => ShellInv
  BY ShellInit DEF Init
<1>2. ShellInv /\ [Next]_vars => ShellInv'
  BY ShellStep, ShellMoves
<1>3. ShellInv => RunsLinesInOrder
  BY ShellSafe DEF RunsLinesInOrder
<1> QED
  BY <1>1, <1>2, <1>3, PTL DEF Spec
=============================================================================
