----------------------------- MODULE KeyedTable -----------------------------
(***************************************************************************)
(* What the class HashTable promises: a set of items with different keys,  *)
(* looked up by key, and an iterator over them in any order.               *)
(***************************************************************************)
EXTENDS Integers, Sequences, FiniteSets

CONSTANTS Item, GetKey

VARIABLES contents,   \* the items in the table
          iterating,  \* there is an iterator,
          ahead,      \* and these items it has still to visit
          result, aborted

vars == <<contents, iterating, ahead, result, aborted>>

Init == /\ contents = {} /\ iterating = FALSE /\ ahead = {}
        /\ result = << >> /\ aborted = FALSE

With(key) == {item \in contents : GetKey[item] = key}
EndIteration == iterating' = FALSE /\ ahead' = {}

Insert(item) ==
  /\ ~aborted /\ EndIteration /\ result' = << >>
  /\ IF With(GetKey[item]) = {}
     THEN contents' = contents \union {item} /\ UNCHANGED aborted
     ELSE aborted' = TRUE /\ UNCHANGED contents

Remove(key) ==
  /\ ~aborted /\ EndIteration
  /\ IF With(key) = {}
     THEN aborted' = TRUE /\ result' = <<"item", << >> >>
          /\ UNCHANGED contents
     ELSE \E item \in With(key) :
            /\ contents' = contents \ {item} /\ result' = <<"item", <<item>> >>
            /\ UNCHANGED aborted

Lookup(key) ==
  /\ ~aborted
  /\ IF With(key) = {} THEN result' = <<"found", << >>, contents = {}>>
     ELSE \E item \in With(key) : result' = <<"found", <<item>>, FALSE>>
  /\ UNCHANGED <<contents, iterating, ahead, aborted>>

(* Every item once, in some order *)
Apply ==
  /\ ~aborted
  /\ result' # << >> /\ result'[1] = "applied"
  /\ Len(result'[2]) = Cardinality(contents)
  /\ {result'[2][i] : i \in DOMAIN result'[2]} = contents
  /\ UNCHANGED <<contents, iterating, ahead, aborted>>

StartIterator ==
  /\ ~aborted /\ iterating' = TRUE /\ ahead' = contents /\ result' = << >>
  /\ UNCHANGED <<contents, aborted>>

NextItem ==
  /\ ~aborted /\ iterating
  /\ \E item \in ahead : ahead' = ahead \ {item} /\ result' = <<"item", <<item>> >>
  /\ UNCHANGED <<contents, iterating, aborted>>

(* The self-test, and deleting a table, leave an empty one. *)
Renew ==
  /\ ~aborted /\ EndIteration /\ result' = << >>
  /\ aborted' = (contents # {}) /\ UNCHANGED contents

Next ==
  \/ \E item \in Item : Insert(item)
  \/ \E item \in Item : Remove(GetKey[item]) \/ Lookup(GetKey[item])
  \/ Apply \/ StartIterator \/ NextItem \/ Renew

Spec == Init /\ [][Next]_vars
=============================================================================
