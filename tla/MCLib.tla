------------------------------- MODULE MCLib -------------------------------
(***************************************************************************)
(* What surrounds the kernel: the synchronized list, the containers of     *)
(* lib/, the stacks of c++example, the unit test framework, starting and   *)
(* stopping, and the shell.  They share no state, so that a behaviour      *)
(* exercises one of them (part) while the others stay in their initial     *)
(* state.                                                                  *)
(***************************************************************************)
EXTENDS Integers, Sequences, FiniteSets

CONSTANTS Thread, Item, NULL       \* the synchronized list's
CONSTANTS MaxLength, MaxKills
CONSTANTS MaxStarts                \* of processes
CONSTANTS Character, BufferSize, MaxTyped   \* the shell's

VARIABLES part
VARIABLES holder, waiting, resuming, slist, spc, sitem   \* SynchList
VARIABLES kind, list, lresult                            \* LinkedList
VARIABLES table, iter, hresult                           \* HashTable
VARIABLES stack, popped                                  \* Stacks
VARIABLES map, answer, failed                            \* Bitmap
VARIABLES groups_, mode, pc, gi, test, result, os, counts, not_passed,
          report, log_, jrn_, kills                              \* Tut
VARIABLES stub, process, program, made, level, idles, pending, onAbort,
          disk, sockName, end, spoiled, starts           \* Kernel
VARIABLES typed, closed, read, buffer, i, shpc, ran, newProc,
          alive                                          \* Shell

Words == {"a", "b", "c", "d", "e", "f"}
Order == [a |-> 1, b |-> 2, c |-> 2]
Keys == [a |-> 0, b |-> 1, c |-> 2, d |-> 4, e |-> 5, f |-> 2]

Test(body, dtorThrows) == [body |-> body, dtorThrows |-> dtorThrows]
Calls(fn) == <<[fn |-> fn]>>
Equals(a, e) == <<[fn |-> "ensure_equals", actual |-> a, expected |-> e]>>
Within(a, e, d) ==
  <<[fn |-> "ensure_distance", actual |-> a, expected |-> e, distance |-> d]>>
True == <<[fn |-> "ensure", cond |-> TRUE]>>

Groups ==
  << [name |-> <<45, -3>>, ctorThrows |-> FALSE,
      tests |-> <<Test(Calls("kill"), FALSE), Test(Calls("dummy"), FALSE),
                  Test(Within(4, 3, 2), TRUE),
                  Test(True \o Equals(1, 1) \o Calls("kill"), FALSE)>>],
     [name |-> <<97>>, ctorThrows |-> FALSE,
      tests |-> <<Test(Within(1, 3, 2), FALSE), Test(Equals(2, 2) \o True, FALSE),
                  Test(True \o Equals(1, 2) \o Calls("throw"), TRUE),
                  Test(Within(2, 3, 2) \o Calls("throw"), FALSE),
                  Test(Calls("fail"), FALSE)>>],
     [name |-> <<97>>, ctorThrows |-> TRUE,
      tests |-> <<Test(Calls("dummy"), FALSE), Test(True, FALSE)>>],
     [name |-> <<98, 32>>, ctorThrows |-> TRUE,
      tests |-> <<Test(Calls("dummy"), FALSE), Test(Calls("fail"), FALSE)>>] >>

SL == INSTANCE SynchList WITH list <- slist, pc <- spc, item <- sitem
L == INSTANCE LinkedList WITH
       Item <- {"a", "b", "c"}, Key <- Order, result <- lresult,
       TestVector <- <<"b", "c", "a">>
H == INSTANCE HashTable WITH
       Item <- Words, GetKey <- Keys, InitialBuckets <- 2, ResizeRatio <- 2,
       IncreaseSizeBy <- 2, TestVector <- <<"b", "c", "a", "d", "e">>,
       result <- hresult
K == INSTANCE Stacks WITH
       Value <- {"a", "b"}, Junk <- "junk", Size <- 3, MaxDepth <- 4,
       Pushes <- <<"a", "b", "a">>
B == INSTANCE Bitmap WITH BitsInWord <- 3, NumBits <- 7
T == INSTANCE Tut WITH Group <- Groups
N == INSTANCE Kernel
Sh == INSTANCE Shell WITH pc <- shpc, Char <- Character

ASSUME SynchListAssumed == SL!SynchListAssumption
ASSUME ShellAssumed == Sh!ShellAssumption

synchList == <<holder, waiting, resuming, slist, spc, sitem>>
linkedList == <<kind, list, lresult>>
hashTable == <<table, iter, hresult>>
stacks == <<stack, popped>>
bitmap == <<map, answer, failed>>
tut == <<groups_, mode, pc, gi, test, result, os, counts, not_passed,
         report, log_, jrn_, kills>>
startUp == <<stub, process, program, made, level, idles, pending, onAbort,
             disk, sockName, end, spoiled, starts>>
shell == <<typed, closed, read, buffer, i, shpc, ran, newProc, alive>>
system == <<startUp, shell>>
containers == <<linkedList, hashTable, stacks, bitmap>>
vars == <<part, synchList, containers, tut, system>>

Idle(p, initial) == part # p => initial
Init ==
  /\ part \in {"synchlist", "list", "hash", "stack", "bitmap", "tut",
              "startUp", "shell"}
  /\ SL!Init /\ H!Init /\ B!Init /\ T!Init /\ Sh!Init
  /\ N!Init /\ Idle("startUp", stub)
  /\ L!Init /\ Idle("list", kind = "List")
  /\ K!Init /\ Idle("stack", K!IsArray(stack))

Next ==
  \/ part = "synchlist" /\ SL!Next
       /\ UNCHANGED <<part, containers, tut, system>>
  \/ part = "list" /\ L!Next
       /\ UNCHANGED <<part, synchList, hashTable, stacks, bitmap, tut, system>>
  \/ part = "hash" /\ H!Next
       /\ UNCHANGED <<part, synchList, linkedList, stacks, bitmap, tut, system>>
  \/ part = "stack" /\ K!Next
       /\ UNCHANGED <<part, synchList, linkedList, hashTable, bitmap, tut,
                      system>>
  \/ part = "bitmap" /\ B!Next
       /\ UNCHANGED <<part, synchList, linkedList, hashTable, stacks, tut,
                      system>>
  \/ part = "tut" /\ T!Next
       /\ UNCHANGED <<part, synchList, containers, system>>
  \/ part = "startUp" /\ N!Next
       /\ UNCHANGED <<part, synchList, containers, tut, shell>>
  \/ part = "shell" /\ Sh!Next
       /\ UNCHANGED <<part, synchList, containers, tut, startUp>>

(* The fairness of the components, for the one that moves. *)
Spec ==
  /\ Init /\ [][Next]_vars
  /\ \A t \in Thread : WF_synchList(part = "synchlist" /\ SL!Continue(t))
  /\ WF_tut(part = "tut" /\ T!Step)

-----------------------------------------------------------------------------
(* The synchronized list is a queue, and a reader takes the first item     *)
(* (SynchList).                                                            *)
ImplementsQueue == SL!ImplementsQueue /\ SL!ItemsAreTaken
(* The pointers and counters of the lists are sequences, the hash table is *)
(* a map whenever it grows, the stacks are last-in first-out and the words *)
(* of the bit map are a set (LinkedList, HashTable, Stacks, Bitmap).       *)
ImplementsContainers ==
  /\ L!ImplementsSequence
  /\ H!ImplementsMap
  /\ K!ImplementsLifo
  /\ B!ImplementsSet
(* Every unit test is reported, although tests crash, and a restartable    *)
(* test run ends (Tut).                                                    *)
EveryTestReported == []T!EveryTestReported /\ T!RunEnds
(* Constructors and handlers use only objects that exist (Kernel). *)
UsesOnlyMade == N!UsesOnlyMade
(* After a kill the next process comes up (Kernel). *)
RestartSucceeds == N!RestartSucceeds
(* The shell runs the lines in their order, one at a time (Shell). *)
RunsLinesInOrder == Sh!RunsLinesInOrder
=============================================================================
