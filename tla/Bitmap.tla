------------------------------- MODULE Bitmap -------------------------------
(***************************************************************************)
(* The bit map of lib/bitmap.cc as it is stored: numWords words, bit which *)
(* in word which / BitsInWord at place which % BitsInWord.  The disk's     *)
(* free map and the memory manager's frames take it to be the set of its   *)
(* marked bits (module Lists).                                             *)
(***************************************************************************)
EXTENDS Integers, FiniteSets, FiniteSetsExt, Lists

CONSTANTS BitsInWord,  \* 32 in the code; SelfTest's literal 31 is the last
                       \* bit of the first word
          NumBits      \* the argument of the constructor

VARIABLES map,         \* Bitmap::map
          answer,      \* what the last member function returned
          failed       \* an ASSERT failed

vars == <<map, answer, failed>>

divRoundUp(n, s) == (n + s - 1) \div s
numWords == divRoundUp(NumBits, BitsInWord)
Word == 0..(numWords - 1)
Bit == 0..(NumBits - 1)

Place(which) == 2 ^ (which % BitsInWord)

(* Bitmap::Test, on the words w *)
Test(w, which) == (w[which \div BitsInWord] \div Place(which)) % 2 = 1

(* Mistake: the bit is added even if it is set. *)
MarkAdds(w, which) ==
  [w EXCEPT ![which \div BitsInWord] = (@ + Place(which)) % 2 ^ BitsInWord]

(* Bitmap::Mark: |= with the bit, Bitmap::Clear: &= with its complement *)
Mark(w, which) ==
  IF Test(w, which) THEN w
  ELSE [w EXCEPT ![which \div BitsInWord] = @ + Place(which)]
Clear(w, which) ==
  IF Test(w, which)
  THEN [w EXCEPT ![which \div BitsInWord] = @ - Place(which)] ELSE w

(* Bitmap::FindAndSet: the bit found, -1 if there is none *)
Find(w) == LET clear == {i \in Bit : ~Test(w, i)}
           IN  IF clear = {} THEN -1 ELSE Min(clear)

(* Bitmap::NumClear *)
NumClear(w) == Cardinality({i \in Bit : ~Test(w, i)})

(* Bitmap::Bitmap *)
Init == map = [w \in Word |-> 0] /\ answer = 0 /\ failed = FALSE

(* The member functions; which must be a bit of the map. *)
DoMark(which) ==
  /\ ~failed
  /\ IF which \in Bit THEN map' = Mark(map, which) /\ UNCHANGED failed
     ELSE failed' = TRUE /\ UNCHANGED map
  /\ answer' = 0

DoClear(which) ==
  /\ ~failed
  /\ IF which \in Bit THEN map' = Clear(map, which) /\ UNCHANGED failed
     ELSE failed' = TRUE /\ UNCHANGED map
  /\ answer' = 0

DoFindAndSet ==
  /\ ~failed
  /\ answer' = Find(map)
  /\ map' = IF Find(map) = -1 THEN map ELSE Mark(map, Find(map))
  /\ UNCHANGED failed

(* NumClear, and Print, which goes through the same bits *)
Count == /\ ~failed /\ answer' = NumClear(map) /\ UNCHANGED <<map, failed>>

(* Bitmap::SelfTest, on an empty map of at least a word; it leaves an      *)
(* empty map.                                                              *)
TwoBits == Mark(Mark(map, Find(map)), BitsInWord - 1)
AllMarked == FoldSet(LAMBDA i, w : Mark(w, i), map, Bit)
AllCleared(w) == FoldSet(LAMBDA i, v : Clear(v, i), w, Bit)
SelfTest ==
  /\ ~failed /\ NumClear(map) = NumBits
  /\ failed' = ~(/\ NumBits >= BitsInWord /\ Find(map) = 0
                 /\ Test(TwoBits, 0) /\ Test(TwoBits, BitsInWord - 1)
                 /\ Find(TwoBits) = 1 /\ Find(AllMarked) = -1)
  /\ map' = AllCleared(AllMarked) /\ answer' = 0

Next ==
  \/ \E which \in Bit \union {NumBits} : DoMark(which) \/ DoClear(which)
  \/ DoFindAndSet \/ Count \/ SelfTest

Spec == Init /\ [][Next]_vars

-----------------------------------------------------------------------------
Marked(w) == {i \in Bit : Test(w, i)}

(* What the map promises, on the set of its marked bits: Mark and Clear    *)
(* take any bit of the map and no other.                                   *)
SetChange(which, after) ==
  /\ answer' = 0
  /\ IF which \in Bit THEN Marked(map') = after /\ UNCHANGED failed
     ELSE failed' = TRUE /\ Marked(map') = Marked(map)
SetFindAndSet ==
  /\ answer' = FindClear(Marked(map), NumBits)
  /\ Marked(map') = FindAndSet(Marked(map), NumBits) /\ UNCHANGED failed
SetCount ==
  /\ answer' = NumBits - Cardinality(Marked(map))
  /\ Marked(map') = Marked(map) /\ UNCHANGED failed
SetSelfTest ==
  /\ Marked(map) = {} /\ Marked(map') = {} /\ answer' = 0 /\ UNCHANGED failed

SetNext ==
  /\ ~failed
  /\ \/ \E which \in Bit \union {NumBits} :
          \/ SetChange(which, Marked(map) \union {which})
          \/ SetChange(which, Marked(map) \ {which})
     \/ SetFindAndSet \/ SetCount \/ SetSelfTest

(* A bit map is the set of its marked bits: no operation disturbs a bit    *)
(* other than its own, also in the same word and in the last, partly used  *)
(* word, no bit outside the map is ever set, and FindAndSet, NumClear and  *)
(* the ASSERTs answer as they do for the set.                              *)
ImplementsSet ==
  /\ Marked(map) = {} /\ answer = 0 /\ ~failed
  /\ [][SetNext]_<<Marked(map), answer, failed>>
  /\ [](\A w \in Word :
          map[w] = MapThenSumSet(Place, {i \in Marked(map) :
                                           i \div BitsInWord = w}))
=============================================================================
