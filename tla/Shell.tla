------------------------------- MODULE Shell -------------------------------
(***************************************************************************)
(* The shell (shell/shell.c over shell/nachos_syscall.c, and test/shell.c, *)
(* its twin over the system calls): it reads a line one character at a     *)
(* time, runs it as a program and waits for the program to end, while the  *)
(* user goes on typing and programs run.                                   *)
(*                                                                         *)
(* Read leaves the buffer alone at the end of the input, so that the shell *)
(* then sees what earlier lines left there; a line that fills the buffer   *)
(* runs past its end.  Both are undefined from there on, and the model     *)
(* stops.                                                                  *)
(***************************************************************************)
EXTENDS Naturals, Sequences, FiniteSets

CONSTANTS Char,        \* the characters of a line; "exit" is the word exit
          BufferSize,  \* 60
          MaxTyped     \* bound of the model: characters typed

ShellAssumption == BufferSize \in Nat

NewLine == "\n"
Nul == "nul"
Unset == "unset"

VARIABLES typed,    \* everything typed so far
          closed,   \* the input has ended
          read,     \* number of characters read
          buffer, i,
          pc,       \* "read", "got", "exec", "join", "halted", "undefined"
          ran,      \* the lines Exec was called with
          newProc,  \* what Exec returned: a number of ran, or 0 for EPERM
          alive     \* the programs that run

vars == <<typed, closed, read, buffer, i, pc, ran, newProc, alive>>

Init ==
  /\ typed = << >> /\ closed = FALSE /\ read = 0
  /\ buffer = [k \in 0..BufferSize - 1 |-> Unset] /\ i = 0
  /\ pc = "read" /\ ran = << >> /\ newProc = 0 /\ alive = {}

(* The user. *)
Type(c) ==
  /\ ~closed /\ Len(typed) < MaxTyped
  /\ typed' = Append(typed, c)
  /\ UNCHANGED <<closed, read, buffer, i, pc, ran, newProc, alive>>

CloseInput ==
  /\ ~closed
  /\ closed' = TRUE
  /\ UNCHANGED <<typed, read, buffer, i, pc, ran, newProc, alive>>

(* Read(&buffer[i], 1, input) waits for a character or the end. *)
Read ==
  /\ pc = "read"
  /\ IF i = BufferSize
     THEN pc' = "undefined" /\ UNCHANGED <<read, buffer>>
     ELSE /\ read < Len(typed) \/ closed
          /\ IF read < Len(typed)
             THEN /\ buffer' = [buffer EXCEPT ![i] = typed[read + 1]]
                  /\ read' = read + 1
             ELSE UNCHANGED <<buffer, read>>
          /\ pc' = IF buffer'[i] = Unset THEN "undefined" ELSE "got"
  /\ UNCHANGED <<typed, closed, i, ran, newProc, alive>>

Line == [k \in 1..i |-> buffer[k - 1]]

(* while (buffer[i++] != '\n'); an exit line halts, an empty one prompts. *)
Got ==
  /\ pc = "got"
  /\ IF buffer[i] # NewLine
     THEN i' = i + 1 /\ pc' = "read" /\ UNCHANGED buffer
     ELSE /\ buffer' = [buffer EXCEPT ![i] = Nul]
          /\ IF i = 0 THEN pc' = "read" /\ i' = 0
             ELSE IF buffer[0] = "exit" THEN pc' = "halted" /\ i' = i
             ELSE pc' = "exec" /\ i' = i
  /\ UNCHANGED <<typed, closed, read, ran, newProc, alive>>

(* Exec: vfork and exec; a failure returns EPERM, which is 1. *)
Exec ==
  /\ pc = "exec"
  /\ ran' = Append(ran, Line)
  /\ \/ newProc' = Len(ran') /\ alive' = alive \union {Len(ran')}
     \/ newProc' = 0 /\ UNCHANGED alive
  /\ pc' = "join"
  /\ UNCHANGED <<typed, closed, read, buffer, i>>

(* Mistake: Join does not wait. *)
JoinAtOnce ==
  /\ pc = "join"
  /\ pc' = "read" /\ i' = 0
  /\ UNCHANGED <<typed, closed, read, buffer, ran, newProc, alive>>

(* Join: waitpid, which fails at once for EPERM, process 1. *)
Join ==
  /\ pc = "join"
  /\ newProc \notin alive
  /\ pc' = "read" /\ i' = 0
  /\ UNCHANGED <<typed, closed, read, buffer, ran, newProc, alive>>

(* A program ends by itself. *)
ProgramEnds(p) ==
  /\ p \in alive
  /\ alive' = alive \ {p}
  /\ UNCHANGED <<typed, closed, read, buffer, i, pc, ran, newProc>>

Next ==
  \/ \E c \in Char \union {NewLine} : Type(c)
  \/ CloseInput \/ Read \/ Got \/ Exec \/ Join
  \/ \E p \in alive : ProgramEnds(p)

-----------------------------------------------------------------------------
(* A line of a text is from b up to the end of line at e.  The commands   *)
(* are the lines that a shell has to run: not empty, and none from the     *)
(* first on that begins with exit.                                         *)
Begins(text, k) == k = 1 \/ text[k - 1] = NewLine
IsLine(text, b, e) ==
  /\ Begins(text, b)
  /\ text[e] = NewLine /\ \A k \in b..(e - 1) : text[k] # NewLine
NoExit(text, e) == \A k \in 1..e : Begins(text, k) => text[k] # "exit"
Commands(text) ==
  {e \in 1..Len(text) : NoExit(text, e) /\ \E b \in 1..(e - 1) : IsLine(text, b, e)}

(* The commands up to e, and so the number of the one that ends there. *)
Upto(text, e) == {d \in Commands(text) : d <= e}
Rank(text, e) == Cardinality(Upto(text, e))

(* Whatever the user types while programs run, the shell runs the lines    *)
(* one after the other, each once, in the order they were typed, none      *)
(* while the one before it runs, none after exit: the n-th it runs is the  *)
(* n-th command.                                                           *)
RunsLinesInOrder ==
  ~closed =>
    /\ Len(ran) <= Cardinality(Commands(typed))
    /\ \A e \in Commands(typed) : Rank(typed, e) <= Len(ran) =>
         \E b \in 1..(e - 1) : /\ IsLine(typed, b, e)
                               /\ ran[Rank(typed, e)] = SubSeq(typed, b, e - 1)
    /\ Cardinality(alive) <= 1
    /\ pc = "read" /\ i = 0 /\ read = Len(typed) =>
         Len(ran) = Cardinality(Commands(typed))
=============================================================================
