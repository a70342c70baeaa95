----------------------------- MODULE StubFiles -----------------------------
(***************************************************************************)
(* The file system of the build (FILESYS_STUB): FileSystem and OpenFile of *)
(* filesys/filesys.h and filesys/openfile.h turn every call into calls of  *)
(* the host.  A call runs to its end: nothing preempts a Nachos thread     *)
(* inside it.                                                              *)
(*                                                                         *)
(* Below them are the host's files as lib/sysdep.cc wraps them.  The host  *)
(* itself (open, read, write, lseek, close, unlink) is external.  A state  *)
(* of the host is a record of                                              *)
(*   names  the file each name leads to, or None;                          *)
(*   data   the bytes of each file;                                        *)
(*   fds    descriptor -> the open file and the position in it, or None.   *)
(* A file lives as long as a name or a descriptor leads to it.  A wrapper  *)
(* asserts that the call has not failed: its value is the state after it,  *)
(* and XxxAsserts says whether the ASSERT holds.                           *)
(***************************************************************************)
EXTENDS Integers, Sequences, FiniteSets, FiniteSetsExt

CONSTANTS Name, File, Descriptor, None

HostFilesAssumption ==
  /\ None \notin Name \union File \union [file : File, position : Nat]
  /\ Descriptor \subseteq Nat /\ IsFiniteSet(Descriptor)

EmptyHost ==
  [names |-> [n \in Name |-> None],
   data |-> [f \in File |-> << >>],
   fds |-> [d \in Descriptor |-> None]]

Opened(h) == {d \in Descriptor : h.fds[d] # None}
InUse(h) ==
  {h.names[n] : n \in Name} \union {h.fds[d].file : d \in Opened(h)}

(* open returns the lowest descriptor that is free, or -1. *)
FreeDescriptor(h) ==
  IF Opened(h) = Descriptor THEN -1 ELSE Min(Descriptor \ Opened(h))

OpenAs(h, file) ==
  [h EXCEPT !.fds[FreeDescriptor(h)] = [file |-> file, position |-> 0]]

(* Bound of the model: the disk of the host has room for another file. *)
HostHasRoom(h, name) == h.names[name] # None \/ File \ InUse(h) # {}
NewFile(h) == CHOOSE f \in File \ InUse(h) : TRUE

(* OpenForWrite: creates the file, or truncates it if it exists. *)
OpenForWriteAsserts(h) == FreeDescriptor(h) # -1
OpenForWrite(h, name) ==
  LET file == IF h.names[name] = None THEN NewFile(h) ELSE h.names[name]
  IN  OpenAs([h EXCEPT !.names[name] = file, !.data[file] = << >>], file)

(* OpenForReadWrite without crashOnError returns -1 if there is no file. *)
OpenForReadWriteFd(h, name) ==
  IF h.names[name] = None THEN -1 ELSE FreeDescriptor(h)
OpenForReadWrite(h, name) ==
  IF OpenForReadWriteFd(h, name) = -1 THEN h ELSE OpenAs(h, h.names[name])

DataOf(h, fd) == h.data[h.fds[fd].file]

(* Lseek: from the start of the file (whence 0) or from its end (2). *)
LseekTarget(h, fd, offset, whence) ==
  offset + (IF whence = 2 THEN Len(DataOf(h, fd)) ELSE 0)
LseekAsserts(h, fd, offset, whence) == LseekTarget(h, fd, offset, whence) >= 0
Lseek(h, fd, offset, whence) ==
  [h EXCEPT !.fds[fd].position = LseekTarget(h, fd, offset, whence)]

Tell(h, fd) == h.fds[fd].position

(* ReadPartial: as many bytes as there are, up to nBytes. *)
ReadPartialBytes(h, fd, nBytes) ==
  LET left == Len(DataOf(h, fd)) - Tell(h, fd)
      count == IF left < 0 THEN 0 ELSE Min({left, nBytes})
  IN  SubSeq(DataOf(h, fd), Tell(h, fd) + 1, Tell(h, fd) + count)
ReadPartial(h, fd, nBytes) ==
  [h EXCEPT !.fds[fd].position = @ + Len(ReadPartialBytes(h, fd, nBytes))]

(* Bytes written over old data at a position; a hole is filled with 0. *)
Overwritten(old, position, bytes) ==
  LET end == position + Len(bytes)
      size == IF Len(old) > end THEN Len(old) ELSE end
  IN  [i \in 1..size |->
         IF i > position /\ i <= end THEN bytes[i - position]
         ELSE IF i <= Len(old) THEN old[i] ELSE 0]

(* WriteFile *)
WriteFile(h, fd, bytes) ==
  [h EXCEPT !.data[h.fds[fd].file] = Overwritten(@, Tell(h, fd), bytes),
            !.fds[fd].position = @ + Len(bytes)]

(* The host gives back the data of a file nothing leads to. *)
Reclaimed(h) ==
  [h EXCEPT !.data = [f \in File |->
                        IF f \in InUse(h) THEN @[f] ELSE << >>]]

(* Close *)
CloseAsserts(h, fd) == fd \in Opened(h)
Close(h, fd) == Reclaimed([h EXCEPT !.fds[fd] = None])

(* Unlink returns 0 if there was such a file; it returns a bool, which     *)
(* turns every failure into TRUE, that is 1.                               *)
UnlinkResult(h, name) == IF h.names[name] = None THEN 1 ELSE 0
Unlink(h, name) == Reclaimed([h EXCEPT !.names[name] = None])

-----------------------------------------------------------------------------
CONSTANTS Handle,    \* the OpenFile objects
          Byte,      \* bytes a caller writes, none of them 0
          TransferSize,  \* main.cc, 128
          MaxLength  \* bound of the model: the length of a file

(* The host has a descriptor for every OpenFile and one more, for the time *)
(* that Create and Print have a file open.                                 *)
StubFilesAssumption ==
  /\ HostFilesAssumption
  /\ None \notin [file : Descriptor, currentOffset : Nat]
  /\ IsFiniteSet(Handle) /\ Cardinality(Handle) < Cardinality(Descriptor)
  /\ MaxLength \in Nat \ {0} /\ TransferSize \in Nat \ {0}

VARIABLES host,      \* the files and descriptors of the process
          openFile,  \* handle -> OpenFile::file and currentOffset, or None
          result,    \* what the last call returned
          failed     \* an ASSERT of sysdep.cc has failed

vars == <<host, openFile, result, failed>>

Init ==
  /\ host = EmptyHost
  /\ openFile = [o \in Handle |-> None]
  /\ result = << >>
  /\ failed = FALSE

(* A step from host h: the state after it, and the ASSERTs on the way. *)
Becomes(h, asserts) ==
  /\ host' = h
  /\ failed' = (failed \/ ~asserts)

(* Mistake: Create does not close the file. *)
CreateKeepsOpen(name) ==
  /\ HostHasRoom(host, name)
  /\ FreeDescriptor(host) # -1
  /\ Becomes(OpenForWrite(host, name), TRUE)
  /\ result' = <<"Create", TRUE>>
  /\ UNCHANGED openFile

(* FileSystem::Create *)
Create(name) ==
  LET fd == FreeDescriptor(host)
  IN  /\ HostHasRoom(host, name)
      /\ IF fd = -1 THEN Becomes(host, OpenForWriteAsserts(host))
         ELSE Becomes(Close(OpenForWrite(host, name), fd), TRUE)
      /\ result' = <<"Create", TRUE>>
      /\ UNCHANGED openFile

(* FileSystem::Open *)
Open(name, o) ==
  LET fd == OpenForReadWriteFd(host, name)
  IN  /\ openFile[o] = None
      /\ Becomes(OpenForReadWrite(host, name), TRUE)
      /\ result' = <<"Open", fd # -1>>
      /\ openFile' = [openFile EXCEPT ![o] =
           IF fd = -1 THEN None ELSE [file |-> fd, currentOffset |-> 0]]

(* FileSystem::Remove *)
Remove(name) ==
  /\ Becomes(Unlink(host, name), TRUE)
  /\ result' = <<"Remove", UnlinkResult(host, name) = 0>>
  /\ UNCHANGED openFile

(* OpenFile::~OpenFile *)
Delete(o) ==
  /\ openFile[o] # None
  /\ Becomes(Close(host, openFile[o].file),
             CloseAsserts(host, openFile[o].file))
  /\ openFile' = [openFile EXCEPT ![o] = None]
  /\ result' = << >>

(* Mistake: ReadAt reads where the descriptor is. *)
ReadAtWhereItIs(o, numBytes, position) ==
  LET fd == openFile[o].file
  IN  /\ result' = <<"Read", ReadPartialBytes(host, fd, numBytes)>>
      /\ Becomes(ReadPartial(host, fd, numBytes), TRUE)

(* OpenFile::ReadAt *)
ReadAt(o, numBytes, position) ==
  LET fd == openFile[o].file
      there == Lseek(host, fd, position, 0)
  IN  /\ result' = <<"Read", ReadPartialBytes(there, fd, numBytes)>>
      /\ Becomes(ReadPartial(there, fd, numBytes),
                 LseekAsserts(host, fd, position, 0))

(* OpenFile::WriteAt *)
WriteAt(o, bytes, position) ==
  LET fd == openFile[o].file
  IN  /\ position + Len(bytes) <= MaxLength
      /\ result' = <<"Write", Len(bytes)>>
      /\ Becomes(WriteFile(Lseek(host, fd, position, 0), fd, bytes),
                 LseekAsserts(host, fd, position, 0))

(* OpenFile::Read *)
Read(o, numBytes) ==
  /\ openFile[o] # None
  /\ ReadAt(o, numBytes, openFile[o].currentOffset)
  /\ openFile' = [openFile EXCEPT ![o].currentOffset = @ + Len(result'[2])]

(* OpenFile::Write *)
Write(o, bytes) ==
  /\ openFile[o] # None
  /\ WriteAt(o, bytes, openFile[o].currentOffset)
  /\ openFile' = [openFile EXCEPT ![o].currentOffset = @ + Len(bytes)]

(* OpenFile::Length leaves the descriptor at the end of the file. *)
Length(o) ==
  /\ openFile[o] # None
  /\ LET end == Lseek(host, openFile[o].file, 0, 2)
     IN  /\ result' = <<"Length", Tell(end, openFile[o].file)>>
         /\ Becomes(end, LseekAsserts(host, openFile[o].file, 0, 2))
  /\ UNCHANGED openFile

(* What Print reads, TransferSize bytes at a time, until there is nothing. *)
Printed(h, fd) ==
  LET from[p \in Nat] ==
        LET bytes == ReadPartialBytes(Lseek(h, fd, p, 0), fd, TransferSize)
        IN  IF bytes = << >> THEN << >> ELSE bytes \o from[p + Len(bytes)]
  IN  from[0]

(* Print of main.cc opens the file, prints it and deletes the OpenFile. *)
PrintFile(name) ==
  LET fd == OpenForReadWriteFd(host, name)
      opened == OpenForReadWrite(host, name)
  IN  /\ IF fd = -1 THEN UNCHANGED <<host, failed>>
         ELSE Becomes(Close(opened, fd), CloseAsserts(opened, fd))
      /\ result' = <<"Print", IF fd = -1 THEN << >> ELSE Printed(opened, fd)>>
      /\ UNCHANGED openFile

Next ==
  \/ \E n \in Name : Create(n) \/ Remove(n) \/ PrintFile(n)
  \/ \E n \in Name, o \in Handle : Open(n, o)
  \/ \E o \in Handle :
       \/ Delete(o)
       \/ Length(o)
       \/ Read(o, MaxLength)
       \/ \E b \in Byte : Write(o, <<b>>)
       \/ /\ openFile[o] # None
          /\ \/ \E p \in 0..MaxLength : ReadAt(o, MaxLength, p)
             \/ \E b \in Byte, p \in 0..MaxLength : WriteAt(o, <<b>>, p)
          /\ UNCHANGED openFile

Spec == Init /\ [][Next]_vars

-----------------------------------------------------------------------------
U == INSTANCE UnixFiles WITH
       names <- host.names, data <- host.data,
       open <- [o \in Handle |->
                  IF openFile[o] = None THEN None
                  ELSE [file |-> host.fds[openFile[o].file].file,
                        position |-> openFile[o].currentOffset]]

(* Whatever Length, ReadAt and WriteAt do to the position of a descriptor, *)
(* and whichever files are removed, recreated or truncated while they are  *)
(* open, every open file behaves as if it had its own position, and no     *)
(* ASSERT of sysdep.cc fails.                                              *)
ImplementsUnixFiles == U!Spec /\ [](~failed)
=============================================================================
