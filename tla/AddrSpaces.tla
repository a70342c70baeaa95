----------------------------- MODULE AddrSpaces -----------------------------
(***************************************************************************)
(* The managers of vm/ as their interface allows them to be used: several  *)
(* address spaces (VirtMemManager) that share the frames of main memory    *)
(* (PhyMemManager) under one replacement strategy (SwappingLRU), created   *)
(* and deleted in any order.  main() creates one address space and nothing *)
(* deletes it in this build (Thread::~Thread calls deleteAddrSpace under   *)
(* #ifdef VM only); what one address space sees of its pages and of the    *)
(* TLB is module VirtMem.                                                  *)
(***************************************************************************)
EXTENDS Integers, Sequences, FiniteSets, Lists

CONSTANTS Tid,          \* thread ids, 0..(THREAD_COUNT_MAX - 1) in the code
          Size,         \* numbers of pages an executable may need
          NumPhysPages, \* frames of main memory
          MaxVirtPages, \* MAX_VIRT_PAGES
          NULL,
          MaxTicks      \* bound of the model: the time of the last fault

Frame == 0..(NumPhysPages - 1)

(* A page table: the frame of every valid page, -1 of the others. *)
PageTable == UNION {[0..(n - 1) -> Frame \union {-1}] : n \in Size}

AddrSpacesAssumption ==
  /\ Size \subseteq Nat \ {0}
  /\ NumPhysPages \in Nat \ {0}
  /\ MaxVirtPages \in Nat
  /\ NULL \notin PageTable

VARIABLES virtMemTable,      \* thread id -> its page table, or NULL
          virtPageNums,      \* pages of all address spaces ever created
          phyMemoryMap,      \* frames in use
          phyMemPageTable,   \* frame -> the page it was given to
          lastUsedTimeTable, \* SwappingLRU::lastUsedTimeTable
          totalTicks,        \* Statistics::totalTicks
          loadedAt           \* when the page of a frame was loaded

phys == <<phyMemoryMap, phyMemPageTable, lastUsedTimeTable>>
vars == <<virtMemTable, virtPageNums, phys, totalTicks, loadedAt>>

(* MemoryManager::MemoryManager: VirtMemManager, PhyMemManager, SwappingLRU *)
Init ==
  /\ virtMemTable = [t \in Tid |-> NULL]
  /\ virtPageNums = 0
  /\ phyMemoryMap = {}
  /\ phyMemPageTable = [f \in Frame |-> [mainThreadId |-> -1, virtualPage |-> -1]]
  /\ lastUsedTimeTable = [f \in Frame |-> -1]
  /\ totalTicks = 0
  /\ loadedAt = [f \in Frame |-> -1]

Pages(t) == DOMAIN virtMemTable[t]

(* The constructor of AddrSpace: no page is valid. *)
NewPageTable(numPages) == [p \in 0..(numPages - 1) |-> -1]

(* VirtMemManager::createAddrSpace for a thread that has none; for one     *)
(* that has, or beyond the limit, nothing changes.                         *)
CreateAddrSpace(t, numPages) ==
  /\ virtMemTable[t] = NULL
  /\ virtPageNums + numPages <= MaxVirtPages
  /\ virtMemTable' = [virtMemTable EXCEPT ![t] = NewPageTable(numPages)]
  /\ virtPageNums' = virtPageNums + numPages
  /\ UNCHANGED <<phys, totalTicks, loadedAt>>

(* The frames of the valid pages of a thread. *)
FramesOf(t) == {virtMemTable[t][p] : p \in Pages(t)} \ {-1}

(* Mistake: the frames of the address space stay in use. *)
DeleteKeepsFrames(t) ==
  /\ virtMemTable[t] # NULL
  /\ virtMemTable' = [virtMemTable EXCEPT ![t] = NULL]
  /\ UNCHANGED <<virtPageNums, phys, totalTicks, loadedAt>>

(* VirtMemManager::deleteAddrSpace: clearOnePage for every valid page.     *)
(* virtPageNums is not given back.                                         *)
DeleteAddrSpace(t) ==
  /\ virtMemTable[t] # NULL
  /\ phyMemoryMap' = phyMemoryMap \ FramesOf(t)
  /\ virtMemTable' = [virtMemTable EXCEPT ![t] = NULL]
  /\ UNCHANGED <<virtPageNums, phyMemPageTable, lastUsedTimeTable, totalTicks,
                 loadedAt>>

(* PhyMemManager::findOneEmptyPage, -1 if there is none *)
FindOneEmptyPage == FindClear(phyMemoryMap, NumPhysPages)

(* PhyMemManager::swapOnePage: SwappingLRU::findOneElementToSwap, the      *)
(* first frame with the lowest time                                        *)
SwapOnePage ==
  Min({f \in Frame :
         \A g \in Frame : lastUsedTimeTable[f] <= lastUsedTimeTable[g]})

(* Mistake: the time of a frame that changes hands is not updated. *)
UpdatePageWeightOnce(f) ==
  IF f \in phyMemoryMap THEN lastUsedTimeTable
  ELSE [lastUsedTimeTable EXCEPT ![f] = totalTicks]

(* PhyMemManager::updatePageWeight: SwappingLRU::updateElementWeight       *)
UpdatePageWeight(f) == [lastUsedTimeTable EXCEPT ![f] = totalTicks]

(* MemoryManager::pageFaultHandler, on a frame that is free ... *)
LoadPage(t, vpn, f, table) ==
  /\ virtMemTable' = [table EXCEPT ![t][vpn] = f]
  /\ phyMemoryMap' = phyMemoryMap \union {f}
  /\ phyMemPageTable' = [phyMemPageTable EXCEPT ![f] =
                           [mainThreadId |-> t, virtualPage |-> vpn]]
  /\ lastUsedTimeTable' = UpdatePageWeight(f)
  /\ loadedAt' = [loadedAt EXCEPT ![f] = totalTicks]
  /\ UNCHANGED <<virtPageNums, totalTicks>>

(* ... or on one that is taken from its page. *)
PageFault(t, vpn) ==
  /\ virtMemTable[t] # NULL
  /\ vpn \in Pages(t)
  /\ virtMemTable[t][vpn] = -1
  /\ IF FindOneEmptyPage # -1
     THEN LoadPage(t, vpn, FindOneEmptyPage, virtMemTable)
     ELSE LET f == SwapOnePage
              owner == phyMemPageTable[f].mainThreadId
              page == phyMemPageTable[f].virtualPage
          IN  LoadPage(t, vpn, f, [virtMemTable EXCEPT ![owner][page] = -1])

(* Time passes between two faults, or not (a load may fault in the same    *)
(* tick as the fetch of its instruction).                                  *)
Tick ==
  /\ totalTicks < MaxTicks
  /\ totalTicks' = totalTicks + 1
  /\ UNCHANGED <<virtMemTable, virtPageNums, phys, loadedAt>>

Next ==
  \/ \E t \in Tid, n \in Size : CreateAddrSpace(t, n)
  \/ \E t \in Tid : DeleteAddrSpace(t)
  \/ \E t \in Tid : virtMemTable[t] # NULL /\ \E p \in Pages(t) : PageFault(t, p)
  \/ Tick

Spec == Init /\ [][Next]_vars

-----------------------------------------------------------------------------
(* A frame is in use if and only if it is the frame of exactly one valid   *)
(* page of one live address space, and the frame table names that page, so *)
(* that the handler never follows the NULL of a deleted address space and  *)
(* deleting one never frees the frame of another.                          *)
FramesBelongToPages ==
  LET live == {t \in Tid : virtMemTable[t] # NULL}
      holders(f) == UNION {{<<t, p>> : p \in {q \in Pages(t) :
                                virtMemTable[t][q] = f}} : t \in live}
  IN  \A f \in Frame :
        holders(f) = IF f \in phyMemoryMap
                     THEN {<<phyMemPageTable[f].mainThreadId,
                             phyMemPageTable[f].virtualPage>>}
                     ELSE {}

(* A page loses its frame to another only if no page that is in memory has *)
(* been there for longer: despite its name SwappingLRU is first-in         *)
(* first-out, up to pages loaded in the same tick, whatever has been freed *)
(* and reused in between.                                                  *)
OldestIsReplaced ==
  [][\A f \in Frame :
       f \in phyMemoryMap /\ f \in phyMemoryMap'
         /\ phyMemPageTable'[f] # phyMemPageTable[f] =>
            \A g \in phyMemoryMap : loadedAt[f] <= loadedAt[g]]_vars
=============================================================================
