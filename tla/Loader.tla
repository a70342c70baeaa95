------------------------------- MODULE Loader -------------------------------
(***************************************************************************)
(* How a user program gets from the linker into memory: coff2noff turns    *)
(* the COFF file into a NOFF file (coff2noff/coff2noff.c), AddrSpace reads *)
(* its header (userprog/addrspace.cc), and the page fault handler reads    *)
(* each page from the file (vm/MemoryManager.cc), at the offset of the     *)
(* page behind the header, whatever segment it belongs to.                 *)
(*                                                                         *)
(* The words of the header have two bytes here instead of four; in the     *)
(* file they are little-endian, and each host has its own byte order.  Of  *)
(* a section the model keeps name, address and bytes (its size).           *)
(***************************************************************************)
EXTENDS Integers, Sequences

CONSTANTS Coff,          \* the files the linker may have written
          Fault,         \* what may go wrong
          NOFFMAGIC, HeaderSize, PageSize, UserStackSize,
          Junk           \* what a frame, or an uninitialized word, holds

VARIABLES coff, fault,   \* this run's input
          builder, host, \* byte order of the hosts of coff2noff and Nachos
          pc, i,         \* where coff2noff is
          noffH,         \* its header, then as read by AddrSpace
          file,          \* the NOFF file: its header's bytes and the rest
          status,        \* coff2noff's exit status, -1 before
          numPages,      \* AddrSpace::numPages
          memory         \* the pages read so far

vars == <<coff, fault, builder, host, pc, i, noffH, file, status, numPages,
          memory>>

(* What the linker writes: a word holds where a section ends, and the      *)
(* parts of a section are together, but for .bss and .sbss.                *)
CoffSection == [name : STRING, paddr : Nat, data : Seq(Nat)]
Linked(c) ==
  /\ c.sections \in Seq(CoffSection)
  /\ \A m, n \in DOMAIN c.sections :
       /\ c.sections[n].paddr + Len(c.sections[n].data) < 65536
       /\ m # n /\ c.sections[m].name = c.sections[n].name =>
            \/ c.sections[n].name = ".bss"
            \/ << >> \in {c.sections[m].data, c.sections[n].data}

LoaderAssumption ==
  /\ PageSize \in Nat \ {0} /\ HeaderSize \in Nat /\ UserStackSize \in Nat
  /\ Junk \in Nat
  /\ NOFFMAGIC \in Nat /\ NOFFMAGIC < 65536
  /\ NOFFMAGIC % 256 # NOFFMAGIC \div 256
  /\ Fault \subseteq {"none", "noInput", "noOutput", "shortHeader",
                     "shortSection", "diskFull"}
  /\ \A c \in Coff : Linked(c)

Order == {"little", "big"}
Segment == {"code", "initData", "readonlyData", "uninitData"}
Field == {"virtualAddr", "inFileAddr", "size"}

(* WordToHost, of coff2noff.c and of machine.cc: a word in little-endian   *)
(* order as the host's, and the other way round.                           *)
Swap(w) == (w % 256) * 256 + w \div 256
WordToHost(w, order) == IF order = "big" THEN Swap(w) ELSE w

(* A word as the bytes the host has in memory, and back *)
Bytes(w, order) == IF order = "little" THEN <<w % 256, w \div 256>>
                   ELSE <<w \div 256, w % 256>>
FromBytes(b, order) == IF order = "little" THEN b[1] + 256 * b[2]
                       ELSE 256 * b[1] + b[2]

(* SwapHeader, of coff2noff.c and of addrspace.cc: every word *)
MapHeader(h, F(_)) ==
  [magic |-> F(h.magic),
   segment |-> [s \in Segment |-> [f \in Field |-> F(h.segment[s][f])]]]
SwapHeader(h, order) == MapHeader(h, LAMBDA w : WordToHost(w, order))

EmptyHeader ==
  [magic |-> NOFFMAGIC,
   segment |-> [s \in Segment |-> [virtualAddr |-> Junk, inFileAddr |-> Junk,
                                   size |-> 0]]]

NoFile == [exists |-> FALSE, header |-> << >>, body |-> << >>]

Init ==
  /\ coff \in Coff /\ fault \in Fault
  /\ builder \in Order /\ host \in Order
  /\ pc = "open" /\ i = 1
  /\ noffH = EmptyHeader /\ file = NoFile /\ status = -1
  /\ numPages = 0 /\ memory = << >>

-----------------------------------------------------------------------------
Ended(code) == pc' = "exited" /\ status' = code
(* unlink(noffFileName); exit(1) *)
GiveUp == Ended(1) /\ file' = NoFile /\ UNCHANGED <<i, noffH>>

(* main opens both files.  That the output cannot be opened is not         *)
(* noticed here (fdIn is tested again) but by the first Write.             *)
Open ==
  /\ pc = "open"
  /\ IF fault = "noInput" THEN Ended(1) /\ UNCHANGED file
     ELSE /\ pc' = "headers" /\ UNCHANGED status
          /\ file' = [file EXCEPT !.exists = fault # "noOutput"]
  /\ UNCHANGED <<i, noffH>>

(* The two magic numbers, and the section headers *)
ReadHeaders ==
  /\ pc = "headers"
  /\ IF coff.bad \/ fault = "shortHeader" THEN GiveUp
     ELSE pc' = "sections" /\ UNCHANGED <<file, status, i, noffH>>

SegmentOf == [code |-> ".text", initData |-> ".data", readonlyData |-> ".rdata"]
Section == coff.sections[i]
Size == Len(Section.data)

(* A section with contents: Read and Write, which fail on a short file and *)
(* on an output that cannot be written.                                    *)
CannotCopy == fault \in {"shortSection", "noOutput", "diskFull"}
CopySection ==
  /\ pc = "sections" /\ i <= Len(coff.sections) /\ Size > 0
  /\ \E s \in DOMAIN SegmentOf :
       /\ SegmentOf[s] = Section.name
       /\ IF CannotCopy THEN GiveUp
          ELSE /\ noffH' = [noffH EXCEPT !.segment[s] =
                              [virtualAddr |-> Section.paddr, size |-> Size,
                               inFileAddr |-> HeaderSize + Len(file.body)]]
               /\ file' = [file EXCEPT !.body = @ \o Section.data]
               /\ i' = i + 1 /\ UNCHANGED <<pc, status>>

(* .bss has a size only.  A second one is refused when it follows the      *)
(* first, and added to it when it does not.                                *)
BssSection ==
  LET bss == noffH.segment["uninitData"]
  IN  /\ pc = "sections" /\ i <= Len(coff.sections) /\ Size > 0
      /\ Section.name = ".bss"
      /\ IF bss.size # 0 /\ Section.paddr = bss.virtualAddr + bss.size
         THEN GiveUp
         ELSE /\ noffH' = [noffH EXCEPT
                   !.segment["uninitData"].size = @ + Size,
                   !.segment["uninitData"].virtualAddr =
                      IF bss.size # 0 THEN @ ELSE Section.paddr]
              /\ i' = i + 1 /\ UNCHANGED <<pc, file, status>>

(* Empty sections are skipped, and others with another name are an error.  *)
OtherSection ==
  /\ pc = "sections" /\ i <= Len(coff.sections)
  /\ \/ Size = 0 /\ i' = i + 1 /\ UNCHANGED <<pc, file, status, noffH>>
     \/ /\ Size > 0 /\ Section.name \notin {".text", ".data", ".rdata", ".bss"}
        /\ GiveUp

(* The header goes to the front of the file, in little-endian order. *)
WriteHeader ==
  /\ pc = "sections" /\ i > Len(coff.sections)
  /\ IF fault \in {"noOutput", "diskFull"} THEN GiveUp
     ELSE /\ file' = [file EXCEPT !.header =
                        MapHeader(SwapHeader(noffH, builder),
                                  LAMBDA w : Bytes(w, builder))]
          /\ Ended(0) /\ UNCHANGED <<i, noffH>>

Convert ==
  /\ \/ Open \/ ReadHeaders \/ CopySection \/ BssSection \/ OtherSection
     \/ WriteHeader
  /\ UNCHANGED <<coff, fault, builder, host, numPages, memory>>

-----------------------------------------------------------------------------
divRoundUp(n, s) == n \div s + (IF n % s > 0 THEN 1 ELSE 0)

(* AddrSpace::AddrSpace: the header is swapped if that makes its magic     *)
(* number right, and the sizes of the segments give the number of pages.   *)
AsRead == MapHeader(file.header, LAMBDA b : FromBytes(b, host))
InHostOrder(h) ==
  IF h.magic # NOFFMAGIC /\ WordToHost(h.magic, host) = NOFFMAGIC
  THEN SwapHeader(h, host) ELSE h
SizeOf(h) == h.segment["code"].size + h.segment["readonlyData"].size
             + h.segment["initData"].size + h.segment["uninitData"].size
             + UserStackSize
NewAddrSpace ==
  /\ pc = "exited" /\ status = 0
  /\ noffH' = InHostOrder(AsRead)
  /\ IF noffH'.magic = NOFFMAGIC
     THEN numPages' = divRoundUp(SizeOf(noffH'), PageSize) /\ pc' = "runs"
     ELSE pc' = "aborted" /\ UNCHANGED numPages
  /\ UNCHANGED <<coff, fault, builder, host, i, file, status, memory>>

(* Mistake: the header is not skipped. *)
FileByteFromStart(offset) ==
  IF offset \in 1..Len(file.body) THEN file.body[offset] ELSE Junk

(* ReadAt, behind the end of the file nothing is read. *)
FileByte(offset) ==
  IF offset - HeaderSize \in 0..(Len(file.body) - 1)
  THEN file.body[offset - HeaderSize + 1] ELSE Junk

(* MemoryManager::pageFaultHandler, with a frame that is free: the page    *)
(* comes from vpn * PageSize + sizeof(NoffHeader).                         *)
PageFault(vpn) ==
  /\ pc = "runs" /\ vpn \notin DOMAIN memory
  /\ memory' = [p \in DOMAIN memory \union {vpn} |->
                  IF p # vpn THEN memory[p]
                  ELSE [k \in 0..(PageSize - 1) |->
                          FileByte(vpn * PageSize + HeaderSize + k)]]
  /\ UNCHANGED <<coff, fault, builder, host, pc, i, noffH, file, status,
                 numPages>>

(* coff2noff has failed, or the whole program is in memory. *)
Terminated ==
  /\ pc = "exited" => status = 1
  /\ pc \in {"exited", "runs"}
  /\ DOMAIN memory = 0..(numPages - 1)
  /\ UNCHANGED vars

Next ==
  \/ Convert
  \/ NewAddrSpace
  \/ \E vpn \in 0..(numPages - 1) : PageFault(vpn)
  \/ Terminated

Spec == Init /\ [][Next]_vars

-----------------------------------------------------------------------------
Filled == {n \in DOMAIN coff.sections : coff.sections[n].data # << >>}
EndOf(n) == coff.sections[n].paddr + Len(coff.sections[n].data)

(* The linker left no gap: the first section that is not empty begins at   *)
(* 0, each other one where one before it ends and none before it ends      *)
(* later, and the uninitialized ones come last.                            *)
Contiguous ==
  \A n \in Filled :
    /\ \A m \in Filled : m < n => EndOf(m) <= coff.sections[n].paddr
    /\ coff.sections[n].paddr # 0 =>
         \E m \in Filled : m < n /\ EndOf(m) = coff.sections[n].paddr
    /\ coff.sections[n].name = ".bss" =>
         \A m \in Filled : n <= m => coff.sections[m].name = ".bss"

(* Every byte of a page in memory that the linker has put into a section   *)
(* is the linker's.                                                        *)
InPlace ==
  \A n \in Filled : \A k \in 0..(Len(coff.sections[n].data) - 1) :
    LET address == coff.sections[n].paddr + k
    IN  (address \div PageSize) \in DOMAIN memory
          /\ coff.sections[n].name # ".bss" =>
        memory[address \div PageSize][address % PageSize] =
          coff.sections[n].data[k + 1]

(* A program whose sections the linker put one behind the other is what    *)
(* runs: each section is at its address, the address space has room for    *)
(* all of them and the stack, and host byte orders do not matter.  When    *)
(* coff2noff fails, at whatever point, there is no file left, and it says  *)
(* so; when it succeeds, the file is complete.                             *)
ImageLoaded ==
  /\ pc # "aborted"
  /\ Contiguous => InPlace
  /\ pc = "runs" /\ Contiguous =>
       \A n \in Filled : numPages * PageSize >= EndOf(n) + UserStackSize
  /\ pc \in {"exited", "runs"} =>
       /\ file.exists <=> status = 0
       /\ status = 0 => file.header # << >> /\ fault \notin Fault \ {"none",
                          "shortSection"}

(* noff.h of a segment's virtualAddr: "location of segment in virt addr    *)
(* space".                                                                 *)
SegmentsInPlace == InPlace
=============================================================================
