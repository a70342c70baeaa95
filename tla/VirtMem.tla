------------------------------ MODULE VirtMem ------------------------------
(***************************************************************************)
(* Demand paging: the TLB (machine/TLBManager.cc), address translation     *)
(* (machine/translate.cc), the page fault handler and the tables of frames *)
(* and of address spaces (vm/), for the one address space there is: main   *)
(* creates it for the program it runs, no system call creates another, and *)
(* the program's thread, whose id is Pid, is the only one that translates. *)
(*                                                                         *)
(* The contents of a page are one value.  One action is one access to      *)
(* memory: with FILESYS_STUB the fault handler neither yields nor sleeps.  *)
(* lastUsedTimeTable is kept as age[f], the number of ticks with a fault   *)
(* since the last fault on f, which orders frames the opposite way.        *)
(***************************************************************************)
EXTENDS Integers, Sequences, FiniteSets, Lists

CONSTANTS NumPages,     \* pages of the address space (pageTableSize)
          NumPhysPages, \* frames of main memory
          TLBSets,      \* the TLB is an array of sets, 4 in the code,
          TLBWays,      \* of entries, 4 in the code
          Pid,          \* id of the thread that runs the program
          Value,        \* contents of a page, among them 0
          Initial       \* contents of the pages of the executable file

ASSUME VirtMemAssumption ==
  /\ NumPages \in Nat \ {0}
  /\ NumPhysPages \in Nat \ {0}
  /\ TLBSets \in Nat \ {0}
  /\ TLBWays \in Nat \ {0}
  /\ Pid \in Nat
  /\ 0 \in Value
  /\ Initial \in [0..(NumPages - 1) -> Value]

VARIABLES pageTable,    \* AddrSpace::pageTable
          phyMemoryMap, \* frames in use
          virtualPage,  \* PhyMemPageEntry::virtualPage of each frame
          age,          \* see above
          faulted,      \* there has been a fault in this tick
          tlb,          \* TLBManager::tlbPtr
          mainMemory,   \* contents of each frame
          exeFile,      \* contents of each page in the executable file
          phase,        \* what Machine::OneInstruction does next
          written       \* what the program last wrote to each page

vars == <<pageTable, phyMemoryMap, virtualPage, age, faulted, tlb, mainMemory,
          exeFile, phase, written>>

Page == 0..(NumPages - 1)
Frame == 0..(NumPhysPages - 1)
Set == 0..(TLBSets - 1)
Way == 0..(TLBWays - 1)

TranslationEntry ==
  [valid : BOOLEAN, dirty : BOOLEAN, physicalPage : Frame \union {-1}]
TLBEntry == [valid : BOOLEAN, vpn : Page \union {-1},
             PPN : Frame \union {-1}, lru : Nat]

Init ==
  /\ pageTable = [p \in Page |->
                    [valid |-> FALSE, dirty |-> FALSE, physicalPage |-> -1]]
  /\ phyMemoryMap = {}
  /\ virtualPage = [f \in Frame |-> -1]
  /\ age = [f \in Frame |-> 0]
  /\ faulted = FALSE
  /\ tlb = [s \in Set |-> [w \in Way |->
              [valid |-> FALSE, vpn |-> -1, PPN |-> -1, lru |-> 0]]]
  /\ mainMemory = [f \in Frame |-> 0]
  /\ exeFile = Initial
  /\ phase = "fetch"
  /\ written = Initial

-----------------------------------------------------------------------------
(* The TLB.  A vpn belongs to the set vpn % TLBSets; an entry's Tag and    *)
(* its set give the vpn back, which stands for the Tag here.               *)
(* Mistake: the search leaves out the last entry of the set. *)
MatchingButLast(t, vpn) ==
  {w \in Way \ {TLBWays - 1} :
     t[vpn % TLBSets][w].valid /\ t[vpn % TLBSets][w].vpn = vpn}

(* Mistake: the search does not compare the Tag. *)
MatchingAnyTag(t, vpn) == {w \in Way : t[vpn % TLBSets][w].valid}

(* The entries TLBManager::translate accepts. *)
Matching(t, vpn) ==
  {w \in Way : t[vpn % TLBSets][w].valid /\ t[vpn % TLBSets][w].vpn = vpn}

(* TLBManager::translate: the frame, or -1 *)
TlbTranslate(t, vpn) ==
  IF Matching(t, vpn) = {} THEN -1
  ELSE t[vpn % TLBSets][Min(Matching(t, vpn))].PPN

(* ... which makes the entry it finds the youngest. *)
TlbTouch(t, vpn) ==
  IF Matching(t, vpn) = {} THEN t
  ELSE [t EXCEPT ![vpn % TLBSets][Min(Matching(t, vpn))].lru = 0]

(* The loop of TLBManager::update: the entries before the first invalid    *)
(* one grow older; that one is replaced, or else the first of the oldest.  *)
Scanned(t, vpn) ==
  LET entries == t[vpn % TLBSets]
      invalid == {w \in Way : ~entries[w].valid}
  IN  {w \in Way : \A i \in invalid : w < i}

AgedSet(t, vpn) ==
  [w \in Way |-> IF w \in Scanned(t, vpn)
                 THEN [t[vpn % TLBSets][w] EXCEPT !.lru = @ + 1]
                 ELSE t[vpn % TLBSets][w]]

Replaced(t, vpn) ==
  LET aged == AgedSet(t, vpn)
      invalid == {w \in Way : ~aged[w].valid}
      oldest == {w \in Way : \A u \in Way : aged[u].lru <= aged[w].lru}
  IN  IF invalid # {} THEN Min(invalid) ELSE Min(oldest)

(* TLBManager::update *)
TlbUpdate(t, vpn, pageFrame) ==
  [t EXCEPT ![vpn % TLBSets] =
     [AgedSet(t, vpn) EXCEPT ![Replaced(t, vpn)] =
        [valid |-> TRUE, vpn |-> vpn, PPN |-> pageFrame, lru |-> 0]]]

(* TLBManager::invalidEntry; all valid entries have the threadId Pid.      *)
InvalidEntry(t, threadId, vpn) ==
  IF threadId # Pid THEN t
  ELSE [t EXCEPT ![vpn % TLBSets] =
          [w \in Way |-> IF w \in Matching(t, vpn)
                         THEN [@[w] EXCEPT !.valid = FALSE] ELSE @[w]]]

-----------------------------------------------------------------------------
(* SwappingLRU::findOneElementToSwap: the first frame whose fault is the   *)
(* longest ago.                                                            *)
FindOneElementToSwap ==
  Min({f \in Frame : \A g \in Frame : age[g] <= age[f]})

(* SwappingLRU::updateElementWeight: lastUsedTimeTable[f] = totalTicks.    *)
UpdateElementWeight(f) ==
  age' = [g \in Frame |->
            IF g = f THEN 0
            ELSE IF faulted \/ g \notin phyMemoryMap THEN age[g]
            ELSE age[g] + 1]

(* MemoryManager::pageFaultHandler(vpn) as a function of the state before  *)
(* it: the frame it gives to vpn, the page it takes the frame from (-1 if  *)
(* the frame was free), and the tables and contents it leaves behind.      *)
SwapPhyPage ==
  IF FindClear(phyMemoryMap, NumPhysPages) = -1
  THEN FindOneElementToSwap
  ELSE FindClear(phyMemoryMap, NumPhysPages)

SwapVirtPage ==
  IF FindClear(phyMemoryMap, NumPhysPages) = -1
  THEN virtualPage[SwapPhyPage] ELSE -1

WritesBack == SwapVirtPage # -1 /\ pageTable[SwapVirtPage].dirty

FileAfter ==
  IF WritesBack
  THEN [exeFile EXCEPT ![SwapVirtPage] = mainMemory[SwapPhyPage]]
  ELSE exeFile

(* invalidEntry is declared (threadId, vpn) and called (vpn, threadId).    *)
TlbAfter ==
  IF WritesBack THEN InvalidEntry(tlb, SwapVirtPage, Pid) ELSE tlb

(* Mistake: the page that loses its frame stays valid. *)
PageTableKeepsVictim(vpn) ==
  [p \in Page |->
     IF p = vpn
     THEN [pageTable[p] EXCEPT !.valid = TRUE, !.physicalPage = SwapPhyPage]
     ELSE pageTable[p]]

PageTableAfter(vpn) ==
  [p \in Page |->
     IF p = vpn
     THEN [pageTable[p] EXCEPT !.valid = TRUE, !.physicalPage = SwapPhyPage]
     ELSE IF p = SwapVirtPage
     THEN [pageTable[p] EXCEPT !.valid = FALSE] ELSE pageTable[p]]

PageFaultHandler(vpn) ==
  /\ phyMemoryMap' = phyMemoryMap \union {SwapPhyPage}
  /\ virtualPage' = [virtualPage EXCEPT ![SwapPhyPage] = vpn]
  /\ UpdateElementWeight(SwapPhyPage)
  /\ exeFile' = FileAfter

-----------------------------------------------------------------------------
(* Machine::Translate finds vpn in the TLB, ... *)
TlbHit(vpn) ==
  /\ TlbTranslate(tlb, vpn) # -1
  /\ tlb' = TlbTouch(tlb, vpn)
  /\ UNCHANGED <<pageTable, phyMemoryMap, virtualPage, age, exeFile>>

SetDirty(table, vpn, writing) ==
  IF writing THEN [table EXCEPT ![vpn].dirty = TRUE] ELSE table

(* ... or in the page table, ... *)
TlbMiss(vpn, writing) ==
  /\ TlbTranslate(tlb, vpn) = -1
  /\ pageTable[vpn].valid
  /\ tlb' = TlbUpdate(tlb, vpn, pageTable[vpn].physicalPage)
  /\ pageTable' = SetDirty(pageTable, vpn, writing)
  /\ UNCHANGED <<phyMemoryMap, virtualPage, age, exeFile>>

(* ... or there again, after it has raised PageFaultException and the      *)
(* handler has run.                                                        *)
PageFault(vpn, writing) ==
  /\ TlbTranslate(tlb, vpn) = -1
  /\ ~pageTable[vpn].valid
  /\ PageFaultHandler(vpn)
  /\ tlb' = TlbUpdate(TlbAfter, vpn, SwapPhyPage)
  /\ pageTable' = SetDirty(PageTableAfter(vpn), vpn, writing)

(* The frame it finds, and what is in it: the handler reads the page from  *)
(* the executable file into the frame.                                     *)
FrameOf(vpn) ==
  IF TlbTranslate(tlb, vpn) # -1 THEN TlbTranslate(tlb, vpn)
  ELSE IF pageTable[vpn].valid THEN pageTable[vpn].physicalPage
  ELSE SwapPhyPage

Contents(vpn) ==
  IF TlbTranslate(tlb, vpn) = -1 /\ ~pageTable[vpn].valid
  THEN FileAfter[vpn] ELSE mainMemory[FrameOf(vpn)]

Translate(vpn, writing) ==
  TlbHit(vpn) \/ TlbMiss(vpn, writing) \/ PageFault(vpn, writing)

(* Machine::ReadMem and Machine::WriteMem *)
ReadMem(vpn) ==
  /\ Translate(vpn, FALSE)
  /\ mainMemory' = [mainMemory EXCEPT ![FrameOf(vpn)] = Contents(vpn)]
  /\ UNCHANGED written

WriteMem(vpn, value) ==
  /\ Translate(vpn, TRUE)
  /\ mainMemory' = [mainMemory EXCEPT ![FrameOf(vpn)] = value]
  /\ written' = [written EXCEPT ![vpn] = value]

-----------------------------------------------------------------------------
(* Machine::OneInstruction fetches the instruction, ... *)
Fetch(vpn) ==
  /\ phase = "fetch"
  /\ ReadMem(vpn)
  /\ phase' = "execute"
  /\ faulted' = (TlbTranslate(tlb, vpn) = -1 /\ ~pageTable[vpn].valid)

(* ... and executes it, after which Machine::Run calls OneTick. *)
NextInstruction ==
  /\ phase = "execute"
  /\ phase' = "fetch"
  /\ faulted' = FALSE

Load(vpn) == NextInstruction /\ ReadMem(vpn)

Store(vpn, value) == NextInstruction /\ WriteMem(vpn, value)

(* An instruction that does not access memory, or SC_Add. *)
Compute ==
  /\ NextInstruction
  /\ UNCHANGED <<pageTable, phyMemoryMap, virtualPage, age, tlb, mainMemory,
                 exeFile, written>>

(* SC_Halt *)
Halt ==
  /\ phase = "execute"
  /\ phase' = "halted"
  /\ UNCHANGED <<pageTable, phyMemoryMap, virtualPage, age, faulted, tlb,
                 mainMemory, exeFile, written>>

(* Any other exception (an address beyond the address space, an unknown    *)
(* system call) ends in ASSERTNOTREACHED in ExceptionHandler.              *)
Abort ==
  /\ phase \in {"fetch", "execute"}
  /\ phase' = "aborted"
  /\ UNCHANGED <<pageTable, phyMemoryMap, virtualPage, age, faulted, tlb,
                 mainMemory, exeFile, written>>

Next ==
  \/ \E vpn \in Page : Fetch(vpn)
  \/ \E vpn \in Page : Load(vpn)
  \/ \E vpn \in Page, value \in Value : Store(vpn, value)
  \/ Compute
  \/ Halt
  \/ Abort

Spec == Init /\ [][Next]_vars

-----------------------------------------------------------------------------
(* Type invariant. *)
TypeOK ==
  /\ pageTable \in [Page -> TranslationEntry]
  /\ phyMemoryMap \in SUBSET Frame
  /\ virtualPage \in [Frame -> Page \union {-1}]
  /\ age \in [Frame -> Nat]
  /\ faulted \in BOOLEAN
  /\ tlb \in [Set -> [Way -> TLBEntry]]
  /\ mainMemory \in [Frame -> Value]
  /\ exeFile \in [Page -> Value]
  /\ phase \in {"fetch", "execute", "halted", "aborted"}
  /\ written \in [Page -> Value]

(* The table of frames is the inverse of the page table, whatever has been *)
(* swapped out in between: a valid page has a frame that is in use and     *)
(* names it, and a frame in use belongs to a valid page.                   *)
FramesMatchPages ==
  /\ \A p \in Page : pageTable[p].valid =>
       /\ pageTable[p].physicalPage \in phyMemoryMap
       /\ virtualPage[pageTable[p].physicalPage] = p
  /\ \A f \in phyMemoryMap :
       /\ virtualPage[f] \in Page
       /\ pageTable[virtualPage[f]].valid
       /\ pageTable[virtualPage[f]].physicalPage = f

(* No page has two entries in the TLB, so that it does not matter which    *)
(* one translate finds first, and every entry is in the set of its page    *)
(* and leads to a frame that is in use.                                    *)
TLBConsistent ==
  \A s \in Set, w \in Way : tlb[s][w].valid =>
    /\ tlb[s][w].vpn \in Page
    /\ tlb[s][w].vpn % TLBSets = s
    /\ tlb[s][w].PPN \in phyMemoryMap
    /\ \A u \in Way : tlb[s][u].valid /\ tlb[s][u].vpn = tlb[s][w].vpn => u = w

(* A valid entry of the TLB agrees with the page table ("a cache of        *)
(* mappings of virtual page #'s to physical page #'s", machine.h).         *)
TLBCoherent ==
  \A s \in Set, w \in Way : tlb[s][w].valid =>
    /\ pageTable[tlb[s][w].vpn].valid
    /\ pageTable[tlb[s][w].vpn].physicalPage = tlb[s][w].PPN

(* What an access finds is what the program last wrote there. *)
ReadsLastWrite == \A p \in Page : Contents(p) = written[p]

(* No page has been swapped out: a page keeps the frame number it had.     *)
NothingSwappedOut ==
  \A p \in Page : pageTable[p].physicalPage # -1 => pageTable[p].valid

(* Until memory is full for the first time the TLB agrees with the page    *)
(* table and every access finds what was last written, whatever the order  *)
(* of hits, misses and faults and whichever TLB entries were replaced.     *)
CorrectUntilSwapping == NothingSwappedOut => TLBCoherent /\ ReadsLastWrite
=============================================================================
