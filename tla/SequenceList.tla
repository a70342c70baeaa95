---------------------------- MODULE SequenceList ----------------------------
(***************************************************************************)
(* What the classes List and SortedList promise, on the sequence of their  *)
(* items: the operators of module Lists.  An operation whose precondition  *)
(* does not hold ends the program (aborted).                               *)
(***************************************************************************)
EXTENDS Integers, Sequences, Lists

CONSTANTS Item, Key

VARIABLES kind, seq, result, aborted

vars == <<kind, seq, result, aborted>>

Init == /\ kind \in {"List", "SortedList"}
        /\ seq = << >> /\ result = << >> /\ aborted = FALSE

(* One operation: with the precondition it does what it promises, without  *)
(* it the program ends.                                                    *)
Does(precondition, after, answer) ==
  /\ ~aborted
  /\ IF precondition THEN seq' = after /\ result' = answer /\ UNCHANGED aborted
     ELSE aborted' = TRUE
  /\ UNCHANGED kind

(* Append, Prepend and the sorted list's Insert *)
Add(item) ==
  \/ kind = "List" /\ Does(TRUE, Append(seq, item), << >>)
  \/ kind = "List" /\ Does(~IsInList(seq, item), <<item>> \o seq, << >>)
  \/ kind = "SortedList"
       /\ Does(~IsInList(seq, item), Insert(seq, item, Key), << >>)

Take(item) ==
  \/ Does(seq # << >>, Tail(seq), SubSeq(seq, 1, 1))
  \/ Does(RemoveAsserts(seq, item), RemoveItem(seq, item), << >>)

Answer(key) ==
  <<Len(seq), seq,
    IF \E i \in DOMAIN seq : Key[seq[i]] = key
    THEN SelectSeq(seq, LAMBDA x : Key[x] = key)[1] ELSE "NULL">>

Ask(key) == Does(TRUE, seq, Answer(key))

(* The self-test leaves the list as it found it. *)
SelfTest == Does(TRUE, seq, << >>)

Next ==
  \/ \E item \in Item : Add(item) \/ Take(item)
  \/ \E item \in Item : Ask(Key[item])
  \/ SelfTest

Spec == Init /\ [][Next]_vars
=============================================================================
