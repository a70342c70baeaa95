----------------------------- MODULE UnixFiles -----------------------------
(***************************************************************************)
(* What the stub file system promises (filesys/filesys.h, openfile.h): the *)
(* Nachos interface to files.  An open file has a position of its own,     *)
(* which only Read and Write on it move; a file lives as long as it has a  *)
(* name or is open.                                                        *)
(***************************************************************************)
EXTENDS Integers, Sequences

CONSTANTS Name, File, Handle, None, Byte, MaxLength

VARIABLES names,  \* name -> file, or None
          data,   \* file -> bytes
          open,   \* handle -> file and position, or None
          result  \* what the last call returned

vars == <<names, data, open, result>>

Init ==
  /\ names = [n \in Name |-> None]
  /\ data = [f \in File |-> << >>]
  /\ open = [h \in Handle |-> None]
  /\ result = << >>

(* The bytes at a position, as many as there are up to n. *)
Bytes(f, position, n) == SubSeq(data[f], position + 1, position + n)

Put(old, position, b) ==
  [i \in 1..(IF Len(old) > position THEN Len(old) ELSE position + 1) |->
     IF i = position + 1 THEN b ELSE IF i <= Len(old) THEN old[i] ELSE 0]

InUse == {names[n] : n \in Name} \union
         {open[h].file : h \in {g \in Handle : open[g] # None}}
Fresh == File \ InUse

(* The data of a file nothing leads to any more are given back. *)
Reclaim ==
  data' = [f \in File |-> IF f \in InUse' THEN data[f] ELSE << >>]

Create(n) ==
  /\ \E f \in IF names[n] = None THEN Fresh ELSE {names[n]} :
       /\ names' = [names EXCEPT ![n] = f]
       /\ data' = [data EXCEPT ![f] = << >>]
  /\ result' = <<"Create", TRUE>>
  /\ UNCHANGED open

Open(n, h) ==
  /\ open[h] = None
  /\ open' = [open EXCEPT ![h] =
                IF names[n] = None THEN None
                ELSE [file |-> names[n], position |-> 0]]
  /\ result' = <<"Open", names[n] # None>>
  /\ UNCHANGED <<names, data>>

Remove(n) ==
  /\ names' = [names EXCEPT ![n] = None]
  /\ result' = <<"Remove", names[n] # None>>
  /\ UNCHANGED open
  /\ Reclaim

Close(h) ==
  /\ open' = [open EXCEPT ![h] = None]
  /\ result' = << >>
  /\ UNCHANGED names
  /\ Reclaim

ReadAt(h, n, position) ==
  /\ open[h] # None
  /\ LET size == Len(data[open[h].file])
         got == IF position + n <= size THEN n
                ELSE IF position <= size THEN size - position ELSE 0
     IN  result' = <<"Read", Bytes(open[h].file, position, got)>>
  /\ UNCHANGED <<names, data>>

WriteAt(h, b, position) ==
  /\ open[h] # None
  /\ data' = [data EXCEPT ![open[h].file] = Put(@, position, b)]
  /\ result' = <<"Write", 1>>
  /\ UNCHANGED names

Length(h) ==
  /\ open[h] # None
  /\ result' = <<"Length", Len(data[open[h].file])>>
  /\ UNCHANGED <<names, data, open>>

PrintFile(n) ==
  /\ result' = <<"Print", IF names[n] = None THEN << >> ELSE data[names[n]]>>
  /\ UNCHANGED <<names, data, open>>

Next ==
  \/ \E n \in Name : Create(n) \/ Remove(n) \/ PrintFile(n)
  \/ \E n \in Name, h \in Handle : Open(n, h)
  \/ \E h \in Handle :
       \/ Close(h)
       \/ Length(h)
       \/ \E p \in 0..MaxLength, n \in 1..MaxLength :
            ReadAt(h, n, p) /\ UNCHANGED open
       \/ \E p \in 0..MaxLength, b \in Byte :
            WriteAt(h, b, p) /\ UNCHANGED open
       \/ \E n \in 1..MaxLength :
            /\ open[h] # None
            /\ ReadAt(h, n, open[h].position)
            /\ open' = [open EXCEPT ![h].position = @ + Len(result'[2])]
       \/ \E b \in Byte :
            /\ open[h] # None
            /\ WriteAt(h, b, open[h].position)
            /\ open' = [open EXCEPT ![h].position = @ + 1]

Spec == Init /\ [][Next]_vars
=============================================================================
