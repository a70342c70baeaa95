------------------------------ MODULE MCSynch ------------------------------
(* Instances of Synch for TLC. *)
EXTENDS Synch

CONSTANTS t1, t2, t3, l1, l2, c1, c2, s1

(* c1 belongs to l1, and c2 to the last lock there is. *)
LockOfCondition ==
  [c \in Condition |-> IF c = c2 /\ l2 \in Lock THEN l2 ELSE l1]

Zero == [s \in Semaphore |-> 0]
=============================================================================
