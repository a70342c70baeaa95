----------------------------- MODULE MCVirtMem -----------------------------
(***************************************************************************)
(* Instances of VirtMem and AddrSpaces for TLC.  A behaviour exercises one *)
(* of them (part) while the other stays in an initial state.               *)
(***************************************************************************)
EXTENDS VirtMem

CONSTANTS Tid, Size, SharedFrames, MaxVirtPages, NULL, MaxTicks  \* AddrSpaces

VARIABLES part
VARIABLES virtMemTable, virtPageNums, framesInUse, phyMemPageTable,
          lastUsedTimeTable, totalTicks, loadedAt         \* AddrSpaces

A == INSTANCE AddrSpaces WITH NumPhysPages <- SharedFrames,
                              phyMemoryMap <- framesInUse

ASSUME AddrSpacesAssumed == A!AddrSpacesAssumption

spaces == <<virtMemTable, virtPageNums, framesInUse, phyMemPageTable,
            lastUsedTimeTable, totalTicks, loadedAt>>

(* Every page of the executable file starts with the same contents. *)
Zeros == [p \in 0..(NumPages - 1) |-> 0]

MemoryInit == part \in {"paging", "spaces"} /\ Init /\ A!Init

MemoryNext ==
  \/ part = "paging" /\ Next /\ UNCHANGED <<part, spaces>>
  \/ part = "spaces" /\ A!Next /\ UNCHANGED <<part, vars>>

MemorySpec == MemoryInit /\ [][MemoryNext]_<<part, vars, spaces>>

-----------------------------------------------------------------------------
(* Frames in use and valid pages match, within one address space whose     *)
(* pages are swapped (VirtMem) and across address spaces (AddrSpaces).     *)
FramesBelongToPages == FramesMatchPages /\ A!FramesBelongToPages
(* The page that loses its frame is the oldest in memory (AddrSpaces).     *)
OldestIsReplaced == A!OldestIsReplaced
=============================================================================
