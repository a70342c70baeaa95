------------------------------ MODULE FileTree ------------------------------
(***************************************************************************)
(* What the file system promises to a caller that uses one file at a time: *)
(* a tree of named files and directories, and one pipe.  A path is the     *)
(* sequence of its names.  A write keeps what is before its position and   *)
(* makes what it has written the end of the file.                          *)
(***************************************************************************)
EXTENDS Naturals, Sequences, SequencesExt

CONSTANTS Path, Data

VARIABLES tree,  \* path -> [type, words], for the paths that exist
          pipe   \* what was last written into the pipe

Init ==
  /\ tree = [p \in {} |-> << >>]
  /\ pipe = << >>

Create(p, type) ==
  /\ p \notin DOMAIN tree
  /\ Len(p) > 1 => Front(p) \in DOMAIN tree /\ tree[Front(p)].type = "TYPE_DIR"
  /\ tree' = [q \in DOMAIN tree \union {p} |->
               IF q = p THEN [type |-> type, words |-> << >>] ELSE tree[q]]
  /\ UNCHANGED pipe

RemoveFile(p) ==
  /\ p \in DOMAIN tree
  /\ tree' = [q \in {r \in DOMAIN tree : ~IsPrefix(p, r)} |-> tree[q]]
  /\ UNCHANGED pipe

Write(p, words, position) ==
  /\ p \in DOMAIN tree /\ tree[p].type = "TYPE_FILE"
  /\ position \in 0..Len(tree[p].words)
  /\ tree' = [tree EXCEPT ![p].words = SubSeq(@, 1, position) \o words]
  /\ UNCHANGED pipe

WritePipe(words) ==
  /\ pipe' = words
  /\ UNCHANGED tree

Next ==
  \/ \E p \in Path, type \in {"TYPE_FILE", "TYPE_DIR"} : Create(p, type)
  \/ \E p \in Path : RemoveFile(p)
  \/ \E p \in Path, words \in Data :
       \E position \in 0..(IF p \in DOMAIN tree THEN Len(tree[p].words) ELSE 0) :
         Write(p, words, position)
  \/ \E words \in Data : WritePipe(words)

Spec == Init /\ [][Next]_<<tree, pipe>>
=============================================================================
