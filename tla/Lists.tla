------------------------------- MODULE Lists -------------------------------
(***************************************************************************)
(* The containers of lib/ that every other module uses: the linked list    *)
(* (List<T>), its sorted variant (SortedList<T>) and the bit map.  A list  *)
(* is a sequence of its items, first to last; numInList is its length.  A  *)
(* bit map of n bits is the set of its marked bits, a subset of 0..n-1.    *)
(***************************************************************************)
EXTENDS Integers, Sequences, SequencesExt, FiniteSetsExt

(* List<T>::IsInList *)
IsInList(list, item) == Contains(list, item)

(* Mistakes the properties must catch: Insert ignores the order, ...       *)
InsertPositionLast(list, item, key) == Len(list) + 1

(* ... puts the item in front of its equals, ...                           *)
InsertPositionBeforeEquals(list, item, key) ==
  LET notSmaller == {i \in 1..Len(list) : key[item] <= key[list[i]]}
  IN  IF notSmaller = {} THEN Len(list) + 1 ELSE Min(notSmaller)

(* The place SortedList<T>::Insert finds: before the first element that is *)
(* strictly bigger than the item, else behind the last one.  compare(x, y) *)
(* is negative exactly when key[x] < key[y].                               *)
InsertPosition(list, item, key) ==
  LET bigger == {i \in 1..Len(list) : key[item] < key[list[i]]}
  IN  IF bigger = {} THEN Len(list) + 1 ELSE Min(bigger)

(* SortedList<T>::Insert (its ASSERT is stated where it is called) *)
Insert(list, item, key) ==
  InsertAt(list, InsertPosition(list, item, key), item)

(* List<T>::Remove unlinks the first element that equals the item ... *)
RemoveItem(list, item) == RemoveFirst(list, item)

(* ... and its two ASSERTs: the item is in the list before, and no longer  *)
(* in it after.                                                            *)
RemoveAsserts(list, item) ==
  /\ IsInList(list, item)
  /\ ~IsInList(RemoveItem(list, item), item)

(* ... or the search for a clear bit starts one beyond the map.            *)
FindClearDownwards(map, numBits) == Max((0..numBits) \ map)

(* Bitmap::FindAndSet: the number of the first clear bit, -1 if there is   *)
(* none.                                                                   *)
FindClear(map, numBits) ==
  LET clear == (0..(numBits - 1)) \ map
  IN  IF clear = {} THEN -1 ELSE Min(clear)

(* ... and the bit map it leaves behind. *)
FindAndSet(map, numBits) ==
  map \union ({FindClear(map, numBits)} \ {-1})
=============================================================================
