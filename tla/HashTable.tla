----------------------------- MODULE HashTable -----------------------------
(***************************************************************************)
(* The hash table of lib/hash.cc: an array of buckets, each a List (the    *)
(* sequence of its items, module Lists), that grows when its load reaches  *)
(* ResizeRatio, and its iterator, which walks from full bucket to full     *)
(* bucket.                                                                 *)
(*                                                                         *)
(* A client steps an iterator only while it leaves the table alone, as     *)
(* hash.cc's own uses do: Insert and Remove end the iteration.             *)
(***************************************************************************)
EXTENDS Integers, Sequences, SequencesExt, FiniteSetsExt, Lists

CONSTANTS Item,           \* what the table holds
          GetKey,         \* getKey and hash: the number of an item's key
          InitialBuckets, ResizeRatio, IncreaseSizeBy,
          TestVector      \* LibSelfTest's hashTestVector

VARIABLES table,          \* buckets (numbered from 0), numItems, aborted
          iter,           \* the HashIterator: bucket and bucketIter, which
                          \* is the rest of the bucket's list
          result          \* what the last operation returned, as a tuple

vars == <<table, iter, result>>

numBuckets(t) == Cardinality(DOMAIN t.buckets)

(* HashTable::InitBuckets *)
InitBuckets(sz) == [i \in 0..(sz - 1) |-> << >>]

(* HashTable::HashTable *)
EmptyTable == [buckets |-> InitBuckets(InitialBuckets), numItems |-> 0,
               aborted |-> FALSE]

NoIterator == [open |-> FALSE, bucket |-> 0, bucketIter |-> << >>]

Asserting(t, condition) == IF condition THEN t ELSE [t EXCEPT !.aborted = TRUE]

HashValue(t, key) == key % numBuckets(t)

(* HashTable::FindInBucket and Find: the item with the key, as a sequence  *)
(* that is empty when there is none.                                       *)
FirstOf(s) == IF s = << >> THEN << >> ELSE <<Head(s)>>
FindInBucket(list, key) ==
  FirstOf(SelectSeq(list, LAMBDA item : GetKey[item] = key))
Find(t, key) == FindInBucket(t.buckets[HashValue(t, key)], key)
IsInTable(t, key) == Find(t, key) # << >>

(* The buckets' lists, first to last *)
InOrder(t) == [i \in 1..numBuckets(t) |-> t.buckets[i - 1]]

(* HashTable::SanityCheck *)
SanityCheck(t) ==
  /\ \A i \in DOMAIN t.buckets, item \in Item :
       IsInList(t.buckets[i], item) => i = HashValue(t, GetKey[item])
  /\ t.numItems = Len(FlattenSeq(InOrder(t)))

(* buckets[HashValue(key)]->Append(item) *)
Put(t, item) ==
  [t EXCEPT !.buckets[HashValue(t, GetKey[item])] = Append(@, item)]

(* Mistake: the items stay in the bucket they were in. *)
ReHashInPlace(t) ==
  [t EXCEPT !.buckets = [i \in 0..(numBuckets(t) * IncreaseSizeBy - 1) |->
                           IF i \in DOMAIN t.buckets THEN t.buckets[i]
                           ELSE << >>]]

(* HashTable::ReHash moves every item, bucket by bucket, into a table that *)
(* is IncreaseSizeBy times as large.                                       *)
Moved(t, larger, items) == FoldLeft(Put, larger, items)
ReHash(t) ==
  Asserting(Moved(t, [t EXCEPT !.buckets =
                        InitBuckets(numBuckets(t) * IncreaseSizeBy)],
                  FlattenSeq(InOrder(t))), SanityCheck(t))
Grown(t) ==
  IF t.numItems \div numBuckets(t) >= ResizeRatio THEN ReHash(t) ELSE t

(* HashTable::Insert *)
Counted(t, change) == [t EXCEPT !.numItems = @ + change]
InsertItem(t, item) ==
  IF IsInTable(t, GetKey[item]) THEN [t EXCEPT !.aborted = TRUE]
  ELSE Counted(Put(Grown(t), item), 1)

(* HashTable::Remove takes the item with the key. *)
RemoveFound(t, key, found) ==
  IF found = << >> THEN [t EXCEPT !.aborted = TRUE]
  ELSE Counted([t EXCEPT !.buckets[HashValue(t, key)] =
                  RemoveItem(@, found[1])], -1)
RemoveKey(t, key) == RemoveFound(t, key, Find(t, key))

-----------------------------------------------------------------------------
(* HashTable::FindNextFullBucket *)
FindNextFullBucket(t, bucket) ==
  Min({i \in bucket..numBuckets(t) :
         i < numBuckets(t) => t.buckets[i] # << >>})

(* A HashIterator that stands at the front of the next full bucket. *)
AtBucket(t, bucket) ==
  [open |-> TRUE, bucket |-> bucket,
   bucketIter |-> IF bucket < numBuckets(t) THEN t.buckets[bucket] ELSE << >>]

(* HashIterator::HashIterator *)
NewIterator(t) == AtBucket(t, FindNextFullBucket(t, 0))

IsDone(t, it) == it.bucket = numBuckets(t)

(* HashIterator::Next *)
Advance(t, it) ==
  IF Len(it.bucketIter) > 1 THEN [it EXCEPT !.bucketIter = Tail(@)]
  ELSE AtBucket(t, FindNextFullBucket(t, it.bucket + 1))

(* HashTable::SelfTest: everything goes in and comes out again. *)
TestKeys == [i \in DOMAIN TestVector |-> GetKey[TestVector[i]]]
Filled(t) == FoldLeft(InsertItem, t, TestVector)
SelfTestPasses(t) ==
  /\ SanityCheck(t) /\ t.numItems = 0 /\ IsDone(t, NewIterator(t))
  /\ ~Filled(t).aborted
  /\ \A i \in DOMAIN TestVector :
       Find(Filled(t), TestKeys[i]) = <<TestVector[i]>>
Emptied(t) == FoldLeft(RemoveKey, t, TestKeys)

-----------------------------------------------------------------------------
Init == table = EmptyTable /\ iter = NoIterator /\ result = << >>

Running == ~table.aborted

DoInsert(item) ==
  /\ Running
  /\ table' = InsertItem(table, item)
  /\ iter' = NoIterator /\ result' = << >>

DoRemove(key) ==
  /\ Running
  /\ table' = RemoveKey(table, key)
  /\ iter' = NoIterator /\ result' = <<"item", Find(table, key)>>

(* Find (which IsInTable calls) and IsEmpty *)
Lookup(key) ==
  /\ Running
  /\ result' = <<"found", Find(table, key), table.numItems = 0>>
  /\ UNCHANGED <<table, iter>>

(* Apply calls its argument on every item of every bucket. *)
Apply ==
  /\ Running
  /\ result' = <<"applied", FlattenSeq(InOrder(table))>>
  /\ UNCHANGED <<table, iter>>

StartIterator ==
  /\ Running
  /\ iter' = NewIterator(table) /\ result' = << >>
  /\ UNCHANGED table

(* Item and Next, which a client calls while the iterator is not done *)
NextItem ==
  /\ Running /\ iter.open /\ ~IsDone(table, iter)
  /\ result' = <<"item", <<iter.bucketIter[1]>> >>
  /\ iter' = Advance(table, iter)
  /\ UNCHANGED table

(* LibSelfTest runs SelfTest on a new table and deletes it. *)
SelfTest ==
  /\ Running /\ table = EmptyTable
  /\ table' = Asserting(Emptied(Filled(table)),
                        /\ SelfTestPasses(table)
                        /\ Emptied(Filled(table)).numItems = 0
                        /\ SanityCheck(Emptied(Filled(table))))
  /\ iter' = NoIterator /\ result' = << >>

(* ~HashTable: the table must be empty; another one is made. *)
DeleteTable ==
  /\ Running
  /\ table' = IF table.numItems = 0 THEN EmptyTable
              ELSE [table EXCEPT !.aborted = TRUE]
  /\ iter' = NoIterator /\ result' = << >>

Key == {GetKey[item] : item \in Item}
Next ==
  \/ \E item \in Item : DoInsert(item)
  \/ \E key \in Key : DoRemove(key) \/ Lookup(key)
  \/ Apply \/ StartIterator \/ NextItem \/ SelfTest \/ DeleteTable

Spec == Init /\ [][Next]_vars

-----------------------------------------------------------------------------
Contents == {item \in Item : \E i \in DOMAIN table.buckets :
                               IsInList(table.buckets[i], item)}

(* What the iterator has still to visit. *)
Ahead ==
  IF ~iter.open \/ IsDone(table, iter) THEN {}
  ELSE {item \in Item : \/ IsInList(iter.bucketIter, item)
                        \/ \E i \in DOMAIN table.buckets :
                             i > iter.bucket /\ IsInList(table.buckets[i], item)}

Abstract == INSTANCE KeyedTable WITH
              contents <- Contents, ahead <- Ahead, iterating <- iter.open,
              aborted <- table.aborted

(* The hash table is a map from keys to items, whatever sequence of        *)
(* insertions and removals made it grow: an item is found by its key as    *)
(* long as it is in the table and by no other, a key is in it once, and    *)
(* an iterator visits every item exactly once.                             *)
ImplementsMap == Abstract!Spec
=============================================================================
