----------------------------- MODULE MCFileSys -----------------------------
(* Instances of FileSys for TLC. *)
EXTENDS FileSys

(* A name at the root, a directory and a file in it. *)
Paths == {<<"a">>, <<"d">>, <<"d", "a">>}

Directories == {<<"d">>}

(* More than the direct sectors; for the pipe, more than it has at first. *)
Writes == {[i \in 1..5 |-> Number(i)]}
PipeWrites == {[i \in 1..3 |-> Number(i)]}
=============================================================================
