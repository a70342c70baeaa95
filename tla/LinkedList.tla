----------------------------- MODULE LinkedList -----------------------------
(***************************************************************************)
(* The linked list of lib/list.cc as it is built: ListElements on the      *)
(* heap, the pointers first and last, and the counter numInList, which     *)
(* decides (and not first) whether the list is empty.  Every other module  *)
(* takes a list to be the sequence of its items (module Lists); the        *)
(* property ImplementsSequence is what allows that.                        *)
(*                                                                         *)
(* An address is a number, Null is 0.  The operators take a list record    *)
(* and return the list the member function leaves; a failed ASSERT sets    *)
(* its field aborted.                                                      *)
(***************************************************************************)
EXTENDS Integers, Sequences, FiniteSets, TLC, SequencesExt, FiniteSetsExt

CONSTANTS Item,       \* what the lists hold; equal items are the same item
          Key,        \* compare(x, y) < 0 iff Key[x] < Key[y]
          MaxLength,  \* bound: clients add to shorter lists only
          TestVector  \* LibSelfTest's listTestVector

VARIABLES kind,       \* "List" or "SortedList"
          list,       \* the object
          result      \* what the last member function returned, as a tuple

vars == <<kind, list, result>>

Null == 0
Address == 1..(MaxLength + Len(TestVector))

(* List<T>::List *)
EmptyList == [first |-> Null, last |-> Null, numInList |-> 0,
              element |-> << >>, aborted |-> FALSE]

Check(l, condition) == IF condition THEN l ELSE [l EXCEPT !.aborted = TRUE]

IsEmpty(l) == l.numInList = 0

(* The elements a ListIterator stands on one after the other, which is     *)
(* also the way every for-loop of the class goes: from first along next    *)
(* until Null.  (The bound on the steps ends the walk on a cyclic list.)   *)
Walk(l) ==
  LET at[i \in 1..(Cardinality(Address) + 1)] ==
        IF i = 1 THEN l.first
        ELSE IF at[i - 1] = Null THEN Null ELSE l.element[at[i - 1]].next
      reached == {i \in DOMAIN at : at[i] # Null}
  IN  [i \in 1..Cardinality(reached) |-> at[i]]

ItemsAt(l, walk) == [i \in DOMAIN walk |-> l.element[walk[i]].item]
Items(l) == ItemsAt(l, Walk(l))

IsInList(l, item) == Contains(Items(l), item)

(* The address `new' returns, and the heap with a new ListElement there. *)
Fresh(l) == Min(Address \ DOMAIN l.element)
NewElement(l, item, next) ==
  l.element @@ (Fresh(l) :> [item |-> item, next |-> next])

Delete(element, a) == [b \in DOMAIN element \ {a} |-> element[b]]

(* The element becomes the only one, the last one or the first one. *)
Only(l, item) ==
  [l EXCEPT !.element = NewElement(l, item, Null), !.first = Fresh(l),
            !.last = Fresh(l), !.numInList = @ + 1]
AtEnd(l, item) ==
  [l EXCEPT !.element = [NewElement(l, item, Null) EXCEPT
                           ![l.last].next = Fresh(l)],
            !.last = Fresh(l), !.numInList = @ + 1]
AtFront(l, item) ==
  [l EXCEPT !.element = NewElement(l, item, l.first), !.first = Fresh(l),
            !.numInList = @ + 1]

Asserted(l, item) == Check(l, IsInList(l, item))

(* List<T>::Append *)
ListAppend(l, item) ==
  Asserted(IF IsEmpty(l) THEN Only(l, item) ELSE AtEnd(l, item), item)

(* List<T>::Prepend *)
ListPrepend(l, item) ==
  Asserted(IF IsEmpty(l) THEN Only(l, item)
           ELSE AtFront(Check(l, ~IsInList(l, item)), item), item)

(* SortedList<T>::Insert: behind the last element whose successor is not   *)
(* strictly bigger; the place in the middle returns early.                 *)
After(l, a, item) ==
  [l EXCEPT !.element = [NewElement(l, item, l.element[a].next) EXCEPT
                           ![a].next = Fresh(l)],
            !.numInList = @ + 1]

Smaller(x, y) == Key[x] < Key[y]
Bigger(l, walk, item) ==
  {i \in 2..Len(walk) : Smaller(item, l.element[walk[i]].item)}

InsertBehind(l, walk, bigger, item) ==
  IF bigger = {} THEN Asserted(AtEnd(l, item), item)
  ELSE After(l, walk[Min(bigger) - 1], item)

SortedInsert(l, item) ==
  IF IsInList(l, item) THEN [l EXCEPT !.aborted = TRUE]
  ELSE IF IsEmpty(l) THEN Asserted(Only(l, item), item)
  ELSE IF Smaller(item, l.element[l.first].item)
       THEN Asserted(AtFront(l, item), item)
  ELSE InsertBehind(l, Walk(l), Bigger(l, Walk(l), item), item)

(* List<T>::RemoveFront (of a list that is not empty) *)
DropFirst(l) ==
  [l EXCEPT !.first = IF l.first = l.last THEN Null
                      ELSE l.element[l.first].next,
            !.last = IF l.first = l.last THEN Null ELSE @,
            !.element = Delete(@, l.first), !.numInList = @ - 1]

(* Mistake: the last pointer is forgotten when the list becomes shorter.   *)
UnlinkKeepsLast(l, walk, i) ==
  [l EXCEPT !.element = Delete([@ EXCEPT ![walk[i - 1]].next =
                                  l.element[walk[i]].next], walk[i]),
            !.numInList = @ - 1]

(* prev->next = ptr->next, and last = prev if nothing follows. *)
Unlink(l, walk, i) ==
  [l EXCEPT !.element = Delete([@ EXCEPT ![walk[i - 1]].next =
                                  l.element[walk[i]].next], walk[i]),
            !.last = IF l.element[walk[i]].next = Null THEN walk[i - 1] ELSE @,
            !.numInList = @ - 1]

(* List<T>::Remove takes the first match; its last ASSERT fails if there   *)
(* was another.                                                            *)
RemoveMatch(l, walk, item) ==
  IF l.element[l.first].item = item THEN DropFirst(l)
  ELSE Unlink(l, walk,
              Min({i \in DOMAIN walk : l.element[walk[i]].item = item}))
NoLonger(l, item) == Check(l, ~IsInList(l, item))
ListRemove(l, item) ==
  IF IsInList(l, item) THEN NoLonger(RemoveMatch(l, Walk(l), item), item)
  ELSE [l EXCEPT !.aborted = TRUE]

(* List<T>::SanityCheck *)
SanityCheck(l) ==
  CASE l.first = Null   -> l.numInList = 0 /\ l.last = Null
    [] l.first = l.last /\ l.first # Null
                        -> l.numInList = 1 /\ l.element[l.last].next = Null
    [] OTHER            -> /\ l.last \in DOMAIN l.element
                           /\ Len(Walk(l)) = l.numInList
                           /\ Last(Walk(l)) = l.last
                           /\ l.element[l.last].next = Null

(* SortedList<T>::SanityCheck *)
Ordered(items) ==
  \A i \in 1..(Len(items) - 1) : ~Smaller(items[i + 1], items[i])
SortedSanityCheck(l) == SanityCheck(l) /\ Ordered(Items(l))

-----------------------------------------------------------------------------
(* List<T>::SelfTest puts the vector into the empty list and takes each    *)
(* item out again; Append is virtual, so a SortedList inserts.  The        *)
(* SortedList's own test then inserts the vector and removes it from the   *)
(* front.                                                                  *)
Put(l, item) == IF kind = "SortedList" THEN SortedInsert(l, item)
                ELSE ListAppend(l, item)
Filled(l, vector) == FoldLeft(Put, l, vector)
Emptied(l, vector) == FoldLeft(ListRemove, l, vector)
ListSelfTest(l, vector) ==
  /\ SanityCheck(l) /\ IsEmpty(l) /\ l.first = Null
  /\ SanityCheck(Filled(l, vector)) /\ ~Filled(l, vector).aborted
  /\ Emptied(Filled(l, vector), vector) = l
SortedSelfTest(l, vector) ==
  /\ SortedSanityCheck(Filled(l, vector))
  /\ Ordered(Items(Filled(l, vector)))

-----------------------------------------------------------------------------
Init ==
  /\ kind \in {"List", "SortedList"}
  /\ list = EmptyList
  /\ result = << >>

Running == ~list.aborted
Room == list.numInList < MaxLength

(* A SortedList has Insert only: its Append and its Prepend are private    *)
(* and insert.                                                             *)
DoAppend(item) ==
  /\ Running /\ Room /\ kind = "List"
  /\ list' = ListAppend(list, item) /\ result' = << >> /\ UNCHANGED kind

DoPrepend(item) ==
  /\ Running /\ Room /\ kind = "List"
  /\ list' = ListPrepend(list, item) /\ result' = << >> /\ UNCHANGED kind

DoInsert(item) ==
  /\ Running /\ Room /\ kind = "SortedList"
  /\ list' = SortedInsert(list, item) /\ result' = << >> /\ UNCHANGED kind

RemoveFront ==
  /\ Running
  /\ IF IsEmpty(list)
     THEN list' = [list EXCEPT !.aborted = TRUE] /\ result' = << >>
     ELSE /\ list' = DropFirst(list)
          /\ result' = <<list.element[list.first].item>>
  /\ UNCHANGED kind

DoRemove(item) ==
  /\ Running
  /\ list' = ListRemove(list, item) /\ result' = << >> /\ UNCHANGED kind

(* Front, NumInList, IsInList, Apply and findByComp change nothing: they   *)
(* report the number of items, the items in order (Apply), and the first   *)
(* one that comp accepts (findByComp; comp accepts the items with a key).  *)
FindByComp(items, key) ==
  LET matches == {i \in DOMAIN items : Key[items[i]] = key}
  IN  IF IsEmpty(list) \/ matches = {} THEN "NULL" ELSE items[Min(matches)]

Ask(key) ==
  /\ Running
  /\ result' = <<list.numInList, Items(list), FindByComp(Items(list), key)>>
  /\ UNCHANGED <<kind, list>>

(* LibSelfTest runs the tests on a new list. *)
SelfTest ==
  /\ Running /\ IsEmpty(list)
  /\ list' = Check(list, /\ ListSelfTest(list, TestVector)
                         /\ kind = "SortedList" =>
                              SortedSelfTest(list, TestVector))
  /\ result' = << >> /\ UNCHANGED kind

Next ==
  \/ \E item \in Item : \/ DoAppend(item) \/ DoPrepend(item)
                        \/ DoInsert(item) \/ DoRemove(item)
  \/ \E key \in {Key[item] : item \in Item} : Ask(key)
  \/ RemoveFront \/ SelfTest

Spec == Init /\ [][Next]_vars

-----------------------------------------------------------------------------
Abstract == INSTANCE SequenceList WITH
              seq <- Items(list), aborted <- list.aborted

(* The pointers, the counter and the early returns of lib/list.cc          *)
(* implement a sequence: every member function has the effect and the      *)
(* result of the sequence operator the rest of the project uses for it,    *)
(* its ASSERTs fail only where the abstract list has no answer, and the    *)
(* list never fails its own SanityCheck.                                   *)
ImplementsSequence ==
  /\ Abstract!Spec
  /\ [](Running => SanityCheck(list)
                   /\ (kind = "SortedList" => SortedSanityCheck(list)))
=============================================================================
