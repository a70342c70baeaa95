---------------------------- MODULE MemoryProofs ----------------------------
(***************************************************************************)
(* Proofs about module VirtMem, for any sizes of the address space, of     *)
(* main memory and of the TLB, and about module AddrSpaces, for any number *)
(* of address spaces.                                                      *)
(***************************************************************************)
EXTENDS MCVirtMem, ListsProofs, FiniteSetTheorems

(* A function on a finite set has a maximum and a minimum: of all          *)
(* arguments, one with the fewest bigger values has none.                  *)
LEMMA MaxExists ==
  ASSUME NEW S, IsFiniteSet(S), S # {}, NEW f \in [S -> Int]
  PROVE  \E x \in S : \A y \in S : f[y] <= f[x]
<1> DEFINE bigger(x) == {y \in S : f[x] < f[y]}
           T == {Cardinality(bigger(x)) : x \in S}
<1>1. \A x \in S : /\ bigger(x) \subseteq S /\ IsFiniteSet(bigger(x))
                   /\ Cardinality(bigger(x)) \in Nat
  <2> TAKE x \in S
  <2>1. bigger(x) \subseteq S
    OBVIOUS
  <2> HIDE DEF bigger
  <2>2. IsFiniteSet(bigger(x))
    BY <2>1, FS_Subset
  <2> QED
    BY <2>1, <2>2, FS_CardinalityType
<1>2. T # {} /\ T \subseteq Nat
  BY <1>1
<1>3. \E n \in T : \A m \in T : n <= m
  <2> HIDE DEF T
  <2> QED
    BY <1>2, MinFacts
<1>4. PICK x \in S : \A y \in S : Cardinality(bigger(x)) <= Cardinality(bigger(y))
  <2>1. PICK n \in T : \A m \in T : n <= m
    BY <1>3
  <2>2. PICK x \in S : n = Cardinality(bigger(x))
    BY <2>1
  <2> HIDE DEF bigger
  <2>3. \A y \in S : Cardinality(bigger(y)) \in T
    OBVIOUS
  <2> HIDE DEF T
  <2>4. \A y \in S : Cardinality(bigger(x)) <= Cardinality(bigger(y))
    BY <2>1, <2>2, <2>3
  <2> QED
    BY <2>4
<1>5. bigger(x) = {}
  <2> SUFFICES ASSUME NEW y \in bigger(x) PROVE FALSE
    OBVIOUS
  <2>1. y \in S /\ bigger(y) \subseteq bigger(x) /\ y \notin bigger(y)
    OBVIOUS
  <2> HIDE DEF bigger
  <2>2. /\ IsFiniteSet(bigger(x))
        /\ Cardinality(bigger(x)) \in Nat /\ Cardinality(bigger(y)) \in Nat
    BY <1>1, <2>1
  <2>3. /\ Cardinality(bigger(y)) <= Cardinality(bigger(x))
        /\ Cardinality(bigger(x)) = Cardinality(bigger(y)) =>
             bigger(x) = bigger(y)
    BY <2>1, <2>2, FS_Subset
  <2> QED
    BY <1>4, <2>1, <2>2, <2>3
<1> QED
  BY <1>5

(* ... and so one with none that is smaller. *)
LEMMA MinExists ==
  ASSUME NEW S, IsFiniteSet(S), S # {}, NEW f \in [S -> Int]
  PROVE  \E x \in S : \A y \in S : f[x] <= f[y]
<1> DEFINE g == [x \in S |-> -f[x]]
<1>1. g \in [S -> Int] /\ \A x \in S : g[x] = -f[x] /\ f[x] \in Int
  OBVIOUS
<1> HIDE DEF g
<1>2. PICK x \in S : \A y \in S : g[y] <= g[x]
  BY <1>1, MaxExists
<1>3. \A y \in S : f[x] <= f[y]
  BY <1>1, <1>2
<1> QED
  BY <1>3

-----------------------------------------------------------------------------
TLB == [Set -> [Way -> TLBEntry]]

SameEntry(a, b) == a.valid = b.valid /\ a.vpn = b.vpn /\ a.PPN = b.PPN

(* The sets of the TLB. *)
LEMMA SetOf == /\ \A n \in Nat : n % TLBSets \in Set
               /\ \A p \in Page : p \in Nat /\ p % TLBSets \in Set
<1>1. \A n \in Nat : n % TLBSets \in Set
  BY VirtMemAssumption DEF Set
<1>2. \A p \in Page : p \in Nat
  BY VirtMemAssumption DEF Page
<1> QED
  BY <1>1, <1>2

(* TLBManager::translate changes no entry but for its age. *)
LEMMA TouchFacts ==
  ASSUME NEW t \in TLB, NEW vpn \in Page
  PROVE  /\ TlbTouch(t, vpn) \in TLB
         /\ \A s \in Set, w \in Way : SameEntry(TlbTouch(t, vpn)[s][w], t[s][w])
<1>1. CASE Matching(t, vpn) = {}
  BY <1>1 DEF TlbTouch, SameEntry
<1>2. CASE Matching(t, vpn) # {}
  <2> DEFINE i == vpn % TLBSets
             w == Min(Matching(t, vpn))
  <2>1. i \in Set
    BY SetOf
  <2>2. w \in Way
    <3>1. Matching(t, vpn) \subseteq Nat /\ Matching(t, vpn) \subseteq Way
      BY VirtMemAssumption DEF Matching, Way
    <3> QED
      BY <1>2, <3>1, MinFacts
  <2>3. TlbTouch(t, vpn) = [t EXCEPT ![i][w].lru = 0]
    BY <1>2 DEF TlbTouch
  <2> HIDE DEF i, w
  <2>4. \A e \in TLBEntry : /\ [e EXCEPT !.lru = 0] \in TLBEntry
                            /\ SameEntry([e EXCEPT !.lru = 0], e)
    BY DEF TLBEntry, SameEntry
  <2> DEFINE new == [t[i][w] EXCEPT !.lru = 0]
             row == [t[i] EXCEPT ![w] = new]
  <2>5. TlbTouch(t, vpn) = [t EXCEPT ![i] = row]
    BY <2>3
  <2>6. t[i][w] \in TLBEntry /\ new \in TLBEntry /\ SameEntry(new, t[i][w])
    BY <2>1, <2>2, <2>4 DEF TLB
  <2> HIDE DEF new
  <2>7. row \in [Way -> TLBEntry] /\ \A u \in Way : SameEntry(row[u], t[i][u])
    BY <2>1, <2>2, <2>6 DEF TLB, SameEntry
  <2> HIDE DEF row
  <2> QED
    BY <2>1, <2>5, <2>7 DEF TLB, SameEntry
<1> QED
  BY <1>1, <1>2

(* TLBManager::update changes one entry at most, but for their ages. *)
LEMMA UpdateFacts ==
  ASSUME NEW t \in TLB, NEW vpn \in Page, NEW f \in Frame
  PROVE  /\ TlbUpdate(t, vpn, f) \in TLB
         /\ \A s \in Set, w \in Way :
              \/ SameEntry(TlbUpdate(t, vpn, f)[s][w], t[s][w])
              \/ /\ s = vpn % TLBSets /\ w = Replaced(t, vpn)
                 /\ TlbUpdate(t, vpn, f)[s][w] =
                      [valid |-> TRUE, vpn |-> vpn, PPN |-> f, lru |-> 0]
<1> DEFINE i == vpn % TLBSets
           r == Replaced(t, vpn)
           new == [valid |-> TRUE, vpn |-> vpn, PPN |-> f, lru |-> 0]
           row == [AgedSet(t, vpn) EXCEPT ![r] = new]
<1>1. i \in Set
  BY SetOf
<1>2. new \in TLBEntry
  BY DEF TLBEntry
<1>3. \A e \in TLBEntry : /\ [e EXCEPT !.lru = @ + 1] \in TLBEntry
                          /\ SameEntry([e EXCEPT !.lru = @ + 1], e)
  BY DEF TLBEntry, SameEntry
<1>4. /\ AgedSet(t, vpn) \in [Way -> TLBEntry]
      /\ \A w \in Way : SameEntry(AgedSet(t, vpn)[w], t[i][w])
  <2>1. \A w \in Way : t[i][w] \in TLBEntry
    BY <1>1 DEF TLB
  <2>2. AgedSet(t, vpn) = [w \in Way |-> IF w \in Scanned(t, vpn)
                             THEN [t[i][w] EXCEPT !.lru = @ + 1] ELSE t[i][w]]
    BY DEF AgedSet
  <2> HIDE DEF i
  <2>3. \A w \in Way : /\ AgedSet(t, vpn)[w] \in TLBEntry
                       /\ SameEntry(AgedSet(t, vpn)[w], t[i][w])
    <3> TAKE w \in Way
    <3>1. CASE w \in Scanned(t, vpn)
      BY <1>3, <2>1, <2>2, <3>1
    <3>2. CASE w \notin Scanned(t, vpn)
      BY <2>1, <2>2, <3>2 DEF SameEntry
    <3> QED
      BY <3>1, <3>2
  <2>4. AgedSet(t, vpn) = [w \in Way |-> AgedSet(t, vpn)[w]]
    BY <2>2
  <2> QED
    BY <2>3, <2>4
<1>5. TlbUpdate(t, vpn, f) = [t EXCEPT ![i] = row]
  BY DEF TlbUpdate
<1> HIDE DEF i, r, new
<1>6. /\ row \in [Way -> TLBEntry]
      /\ \A w \in Way : SameEntry(row[w], t[i][w]) \/ (w = r /\ row[w] = new)
  BY <1>2, <1>4
<1> HIDE DEF row
<1>7. \A s \in Set, w \in Way :
        \/ SameEntry(TlbUpdate(t, vpn, f)[s][w], t[s][w])
        \/ s = i /\ w = r /\ TlbUpdate(t, vpn, f)[s][w] = new
  BY <1>1, <1>5, <1>6 DEF TLB, SameEntry
<1>8. TlbUpdate(t, vpn, f) \in TLB
  BY <1>1, <1>5, <1>6 DEF TLB
<1> QED
  BY <1>7, <1>8 DEF i, r, new

(* TLBManager::invalidEntry leaves no entry valid that was not. *)
LEMMA InvalidFacts ==
  ASSUME NEW t \in TLB, NEW id, NEW vpn \in Nat
  PROVE  /\ InvalidEntry(t, id, vpn) \in TLB
         /\ \A s \in Set, w \in Way :
              \/ InvalidEntry(t, id, vpn)[s][w].valid = FALSE
              \/ SameEntry(InvalidEntry(t, id, vpn)[s][w], t[s][w])
<1>1. CASE id # Pid
  BY <1>1 DEF InvalidEntry, SameEntry
<1>2. CASE id = Pid
  <2> DEFINE i == vpn % TLBSets
             row == [w \in Way |-> IF w \in Matching(t, vpn)
                       THEN [t[i][w] EXCEPT !.valid = FALSE] ELSE t[i][w]]
  <2>1. i \in Set
    BY SetOf
  <2>2. InvalidEntry(t, id, vpn) = [t EXCEPT ![i] = row]
    BY <1>2 DEF InvalidEntry
  <2>3. \A e \in TLBEntry : /\ [e EXCEPT !.valid = FALSE] \in TLBEntry
                            /\ [e EXCEPT !.valid = FALSE].valid = FALSE
    BY DEF TLBEntry
  <2> HIDE DEF i
  <2>4. \A w \in Way : t[i][w] \in TLBEntry
    BY <2>1 DEF TLB
  <2>5. \A w \in Way : /\ row[w] \in TLBEntry
                       /\ row[w].valid = FALSE \/ SameEntry(row[w], t[i][w])
    <3> TAKE w \in Way
    <3>1. CASE w \in Matching(t, vpn)
      BY <2>3, <2>4, <3>1
    <3>2. CASE w \notin Matching(t, vpn)
      BY <2>4, <3>2 DEF SameEntry
    <3> QED
      BY <3>1, <3>2
  <2>6. row \in [Way -> TLBEntry]
    <3>1. row = [w \in Way |-> row[w]]
      OBVIOUS
    <3> QED
      BY <2>5, <3>1
  <2> HIDE DEF row
  <2>7. \A s \in Set, w \in Way :
          \/ InvalidEntry(t, id, vpn)[s][w].valid = FALSE
          \/ SameEntry(InvalidEntry(t, id, vpn)[s][w], t[s][w])
    BY <2>1, <2>2, <2>5 DEF TLB, SameEntry
  <2> QED
    BY <2>1, <2>2, <2>6, <2>7 DEF TLB
<1> QED
  BY <1>1, <1>2

(* TLBConsistent, of any TLB and set of frames in use. *)
Consistent(t, map) ==
  \A s \in Set, w \in Way : t[s][w].valid =>
    /\ t[s][w].vpn \in Page
    /\ t[s][w].vpn % TLBSets = s
    /\ t[s][w].PPN \in map
    /\ \A u \in Way : t[s][u].valid /\ t[s][u].vpn = t[s][w].vpn => u = w

(* It stays so when entries become invalid and frames are taken. *)
LEMMA ConsistentKept ==
  ASSUME NEW t \in TLB, NEW u \in TLB, NEW map, NEW more, map \subseteq more,
         Consistent(t, map),
         \A s \in Set, w \in Way :
           u[s][w].valid = FALSE \/ SameEntry(u[s][w], t[s][w])
  PROVE  Consistent(u, more)
<1> SUFFICES ASSUME NEW s \in Set, NEW w \in Way, u[s][w].valid
             PROVE  /\ u[s][w].vpn \in Page
                    /\ u[s][w].vpn % TLBSets = s
                    /\ u[s][w].PPN \in more
                    /\ \A x \in Way : u[s][x].valid /\ u[s][x].vpn = u[s][w].vpn
                                      => x = w
  BY DEF Consistent
<1>1. SameEntry(u[s][w], t[s][w])
  OBVIOUS
<1>2. /\ t[s][w].valid /\ t[s][w].vpn = u[s][w].vpn
      /\ t[s][w].PPN = u[s][w].PPN
  BY <1>1 DEF SameEntry
<1>3. /\ t[s][w].vpn \in Page
      /\ t[s][w].vpn % TLBSets = s
      /\ t[s][w].PPN \in map
      /\ \A x \in Way : t[s][x].valid /\ t[s][x].vpn = t[s][w].vpn => x = w
  BY <1>2 DEF Consistent
<1>4. ASSUME NEW x \in Way, u[s][x].valid, u[s][x].vpn = u[s][w].vpn
      PROVE  x = w
  <2>1. SameEntry(u[s][x], t[s][x])
    BY <1>4
  <2>2. t[s][x].valid /\ t[s][x].vpn = u[s][x].vpn
    BY <1>4, <2>1 DEF SameEntry
  <2> QED
    BY <1>2, <1>3, <1>4, <2>2
<1> QED
  BY <1>2, <1>3, <1>4

(* ... and when a page that is not in the TLB is entered. *)
LEMMA ConsistentUpdate ==
  ASSUME NEW t \in TLB, NEW map, NEW more, map \subseteq more,
         Consistent(t, map), NEW vpn \in Page, NEW f \in Frame, f \in more,
         Matching(t, vpn) = {}
  PROVE  Consistent(TlbUpdate(t, vpn, f), more)
<1> DEFINE u == TlbUpdate(t, vpn, f)
           i == vpn % TLBSets
           r == Replaced(t, vpn)
<1>1. \A s \in Set, w \in Way :
        \/ SameEntry(u[s][w], t[s][w])
        \/ /\ s = i /\ w = r /\ u[s][w].valid
           /\ u[s][w].vpn = vpn /\ u[s][w].PPN = f
  <2> DEFINE new == [valid |-> TRUE, vpn |-> vpn, PPN |-> f, lru |-> 0]
  <2>1. \A s \in Set, w \in Way : \/ SameEntry(u[s][w], t[s][w])
                                  \/ s = i /\ w = r /\ u[s][w] = new
    BY UpdateFacts
  <2>2. new.valid /\ new.vpn = vpn /\ new.PPN = f
    OBVIOUS
  <2> HIDE DEF u, i, r, new
  <2> QED
    BY <2>1, <2>2
<1>2. \A w \in Way : ~(t[i][w].valid /\ t[i][w].vpn = vpn)
  BY DEF Matching
<1> HIDE DEF u, r
<1> SUFFICES ASSUME NEW s \in Set, NEW w \in Way, u[s][w].valid
             PROVE  /\ u[s][w].vpn \in Page
                    /\ u[s][w].vpn % TLBSets = s
                    /\ u[s][w].PPN \in more
                    /\ \A x \in Way : u[s][x].valid /\ u[s][x].vpn = u[s][w].vpn
                                      => x = w
  BY DEF Consistent, u
<1> HIDE DEF i
<1>3. CASE SameEntry(u[s][w], t[s][w])
  <2>1. /\ t[s][w].valid /\ t[s][w].vpn = u[s][w].vpn
        /\ t[s][w].PPN = u[s][w].PPN
    BY <1>3 DEF SameEntry
  <2>2. /\ t[s][w].vpn \in Page
        /\ t[s][w].vpn % TLBSets = s
        /\ t[s][w].PPN \in map
        /\ \A x \in Way : t[s][x].valid /\ t[s][x].vpn = t[s][w].vpn => x = w
    BY <2>1 DEF Consistent
  <2>3. ASSUME NEW x \in Way, u[s][x].valid, u[s][x].vpn = u[s][w].vpn
        PROVE  x = w
    <3>1. CASE SameEntry(u[s][x], t[s][x])
      BY <2>1, <2>2, <2>3, <3>1 DEF SameEntry
    <3>2. CASE s = i /\ u[s][x].vpn = vpn
      BY <1>2, <2>1, <2>3, <3>2
    <3> QED
      BY <1>1, <3>1, <3>2
  <2> QED
    BY <2>1, <2>2, <2>3
<1>4. CASE s = i /\ w = r /\ u[s][w].vpn = vpn /\ u[s][w].PPN = f
  <2>1. ASSUME NEW x \in Way, u[s][x].valid, u[s][x].vpn = vpn
        PROVE  x = w
    <3>1. ~SameEntry(u[s][x], t[s][x])
      BY <1>2, <1>4, <2>1 DEF SameEntry
    <3> QED
      BY <1>1, <1>4, <3>1
  <2> QED
    BY <1>4, <2>1 DEF i
<1> QED
  BY <1>1, <1>3, <1>4

-----------------------------------------------------------------------------
(* Bitmap::FindAndSet finds a free frame if there is one. *)
LEMMA FreeFrame ==
  ASSUME NEW n \in Nat, NEW map, map \subseteq 0..(n - 1)
  PROVE  IF map = 0..(n - 1) THEN FindClear(map, n) = -1
         ELSE FindClear(map, n) \in (0..(n - 1)) \ map
<1> DEFINE clear == (0..(n - 1)) \ map
<1>1. clear = {} <=> map = 0..(n - 1)
  OBVIOUS
<1>2. CASE clear = {}
  BY <1>1, <1>2 DEF FindClear
<1>3. CASE clear # {}
  <2>1. clear \subseteq Nat
    OBVIOUS
  <2>2. FindClear(map, n) = Min(clear)
    BY <1>3 DEF FindClear
  <2>3. clear = (0..(n - 1)) \ map
    OBVIOUS
  <2> HIDE DEF clear
  <2>4. Min(clear) \in clear
    BY <1>3, <2>1, MinFacts
  <2> QED
    BY <1>1, <1>3, <2>2, <2>3, <2>4
<1> QED
  BY <1>2, <1>3

(* The page fault handler takes a free frame, or else the frame of a valid *)
(* page that its table names.                                              *)
LEMMA FrameChosen ==
  ASSUME TypeOK, FramesMatchPages
  PROVE  /\ SwapPhyPage \in Frame
         /\ \/ /\ phyMemoryMap # Frame
               /\ SwapPhyPage \notin phyMemoryMap /\ SwapVirtPage = -1
            \/ /\ phyMemoryMap = Frame
               /\ SwapVirtPage = virtualPage[SwapPhyPage]
               /\ SwapVirtPage \in Page
               /\ pageTable[SwapVirtPage].valid
               /\ pageTable[SwapVirtPage].physicalPage = SwapPhyPage
<1>1. phyMemoryMap \subseteq Frame
  BY DEF TypeOK
<1>2. CASE phyMemoryMap # Frame
  <2>1. FindClear(phyMemoryMap, NumPhysPages) \in Frame \ phyMemoryMap
    BY <1>1, <1>2, VirtMemAssumption, FreeFrame DEF Frame
  <2>2. FindClear(phyMemoryMap, NumPhysPages) # -1
    BY <2>1, VirtMemAssumption DEF Frame
  <2> QED
    BY <1>2, <2>1, <2>2 DEF SwapPhyPage, SwapVirtPage
<1>3. CASE phyMemoryMap = Frame
  <2>1. FindClear(phyMemoryMap, NumPhysPages) = -1
    BY <1>1, <1>3, VirtMemAssumption, FreeFrame DEF Frame
  <2> DEFINE oldest == {f \in Frame : \A g \in Frame : age[g] <= age[f]}
  <2>2. oldest # {}
    <3>1. IsFiniteSet(Frame) /\ Frame # {}
      <4>1. 0 \in Int /\ NumPhysPages - 1 \in Int /\ 0 \in 0..(NumPhysPages - 1)
        BY VirtMemAssumption
      <4> QED
        BY <4>1, FS_Interval DEF Frame
    <3>2. age \in [Frame -> Int]
      BY DEF TypeOK
    <3>3. \E f \in Frame : \A g \in Frame : age[g] <= age[f]
      BY <3>1, <3>2, MaxExists
    <3> QED
      BY <3>3
  <2>3. oldest \subseteq Frame /\ oldest \subseteq Nat
    BY VirtMemAssumption DEF Frame
  <2>4. FindOneElementToSwap = Min(oldest)
    BY DEF FindOneElementToSwap
  <2> HIDE DEF oldest
  <2>5. FindOneElementToSwap \in Frame
    BY <2>2, <2>3, <2>4, MinFacts
  <2>6. SwapPhyPage \in phyMemoryMap /\ SwapVirtPage = virtualPage[SwapPhyPage]
    BY <1>3, <2>1, <2>5 DEF SwapPhyPage, SwapVirtPage
  <2> QED
    BY <1>3, <2>6 DEF FramesMatchPages
<1> QED
  BY <1>2, <1>3

-----------------------------------------------------------------------------
(* Once a page has been swapped out, main memory stays full. *)
SwappedOutMeansFull == ~NothingSwappedOut => phyMemoryMap = Frame

(* What was last written to a page is in its frame, or in the file. *)
ContentsKept ==
  \A p \in Page : written[p] = IF pageTable[p].valid
                               THEN mainMemory[pageTable[p].physicalPage]
                               ELSE exeFile[p]

(* The inductive invariant. *)
IInv ==
  /\ TypeOK
  /\ FramesMatchPages
  /\ TLBConsistent
  /\ SwappedOutMeansFull
  /\ NothingSwappedOut => TLBCoherent /\ ContentsKept

(* What one access to memory does to the tables. *)
TablesStep(vpn) ==
  /\ pageTable' \in [Page -> TranslationEntry]
  /\ phyMemoryMap' \in SUBSET Frame
  /\ virtualPage' \in [Frame -> Page \union {-1}]
  /\ age' \in [Frame -> Nat]
  /\ tlb' \in TLB
  /\ exeFile' \in [Page -> Value]
  /\ FrameOf(vpn) \in Frame
  /\ Contents(vpn) \in Value
  /\ FramesMatchPages' /\ TLBConsistent' /\ SwappedOutMeansFull'
  /\ NothingSwappedOut' =>
       /\ NothingSwappedOut
       /\ TLBCoherent'
       /\ exeFile' = exeFile
       /\ pageTable'[vpn].valid
       /\ pageTable'[vpn].physicalPage = FrameOf(vpn)
       /\ \A p \in Page \ {vpn} :
            /\ pageTable'[p].valid = pageTable[p].valid
            /\ pageTable'[p].physicalPage = pageTable[p].physicalPage

(* Initially no page is valid and every entry of the TLB is empty. *)
LEMMA InitInv == Init => IInv
<1> SUFFICES ASSUME Init PROVE IInv
  OBVIOUS
<1> USE VirtMemAssumption
<1>1. \A p \in Page : /\ pageTable[p].valid = FALSE
                      /\ pageTable[p].physicalPage = -1
  BY DEF Init
<1>2. \A s \in Set, w \in Way : tlb[s][w].valid = FALSE
  BY DEF Init
<1>3. TypeOK
  <2>1. [valid |-> FALSE, dirty |-> FALSE, physicalPage |-> -1]
          \in TranslationEntry
    BY DEF TranslationEntry
  <2>2. [valid |-> FALSE, vpn |-> -1, PPN |-> -1, lru |-> 0] \in TLBEntry
    BY DEF TLBEntry
  <2>3. pageTable \in [Page -> TranslationEntry]
    BY <2>1 DEF Init
  <2>4. tlb \in [Set -> [Way -> TLBEntry]]
    BY <2>2 DEF Init
  <2>5. exeFile \in [Page -> Value] /\ written \in [Page -> Value]
    BY DEF Init, Page
  <2>6. /\ phyMemoryMap \in SUBSET Frame /\ virtualPage \in [Frame -> Page \union {-1}]
        /\ age \in [Frame -> Nat] /\ mainMemory \in [Frame -> Value]
    BY DEF Init
  <2> QED
    BY <2>3, <2>4, <2>5, <2>6 DEF Init, TypeOK
<1>4. FramesMatchPages
  BY <1>1 DEF Init, FramesMatchPages
<1>5. TLBConsistent /\ TLBCoherent
  BY <1>2 DEF TLBConsistent, TLBCoherent
<1>6. NothingSwappedOut
  BY <1>1 DEF NothingSwappedOut
<1>7. ContentsKept
  BY <1>1 DEF Init, ContentsKept
<1> QED
  BY <1>3, <1>4, <1>5, <1>6, <1>7 DEF IInv, SwappedOutMeansFull

(* What TLBManager::translate finds. *)
LEMMA FoundInTlb ==
  ASSUME TypeOK, TLBConsistent, NEW vpn \in Page
  PROVE  /\ TlbTranslate(tlb, vpn) = -1 <=> Matching(tlb, vpn) = {}
         /\ TlbTranslate(tlb, vpn) # -1 =>
              \E s \in Set, w \in Way :
                /\ tlb[s][w].valid /\ tlb[s][w].vpn = vpn
                /\ tlb[s][w].PPN = TlbTranslate(tlb, vpn)
                /\ TlbTranslate(tlb, vpn) \in Frame
<1> DEFINE i == vpn % TLBSets
           m == Matching(tlb, vpn)
<1>1. i \in Set
  BY SetOf
<1>2. m \subseteq Way /\ m \subseteq Nat
  BY VirtMemAssumption DEF Matching, Way
<1>3. \A w \in m : tlb[i][w].valid /\ tlb[i][w].vpn = vpn
  BY DEF Matching
<1>4. TlbTranslate(tlb, vpn) = IF m = {} THEN -1 ELSE tlb[i][Min(m)].PPN
  BY DEF TlbTranslate
<1> HIDE DEF i, m
<1>5. CASE m = {}
  BY <1>4, <1>5 DEF m
<1>6. CASE m # {}
  <2> DEFINE w == Min(m)
  <2>1. w \in m
    BY <1>2, <1>6, MinFacts
  <2> HIDE DEF w
  <2>2. w \in Way /\ tlb[i][w].valid /\ tlb[i][w].vpn = vpn
    BY <1>2, <1>3, <2>1
  <2>3. tlb[i][w].PPN \in Frame
    BY <1>1, <2>2 DEF TLBConsistent, TypeOK
  <2>4. -1 \notin Frame
    BY VirtMemAssumption DEF Frame
  <2>5. TlbTranslate(tlb, vpn) = tlb[i][w].PPN
    BY <1>4, <1>6 DEF w
  <2> QED
    BY <1>1, <1>6, <2>2, <2>3, <2>4, <2>5 DEF m
<1> QED
  BY <1>5, <1>6

(* Setting the dirty bit changes nothing else. *)
LEMMA DirtyFacts ==
  ASSUME NEW table \in [Page -> TranslationEntry], NEW vpn \in Page,
         NEW writing \in BOOLEAN
  PROVE  /\ SetDirty(table, vpn, writing) \in [Page -> TranslationEntry]
         /\ \A p \in Page :
              /\ SetDirty(table, vpn, writing)[p].valid = table[p].valid
              /\ SetDirty(table, vpn, writing)[p].physicalPage =
                   table[p].physicalPage
<1>1. CASE ~writing
  BY <1>1 DEF SetDirty
<1>2. CASE writing
  <2> DEFINE new == [table[vpn] EXCEPT !.dirty = TRUE]
  <2>1. \A e \in TranslationEntry :
          /\ [e EXCEPT !.dirty = TRUE] \in TranslationEntry
          /\ [e EXCEPT !.dirty = TRUE].valid = e.valid
          /\ [e EXCEPT !.dirty = TRUE].physicalPage = e.physicalPage
    BY DEF TranslationEntry
  <2>2. SetDirty(table, vpn, writing) = [table EXCEPT ![vpn] = new]
    BY <1>2 DEF SetDirty
  <2>3. /\ new \in TranslationEntry /\ new.valid = table[vpn].valid
        /\ new.physicalPage = table[vpn].physicalPage
    BY <2>1
  <2> HIDE DEF new
  <2> QED
    BY <2>2, <2>3
<1> QED
  BY <1>1, <1>2

(* The page table after a fault on a page that is not valid. *)
LEMMA AfterFacts ==
  ASSUME TypeOK, NEW vpn \in Page, SwapPhyPage \in Frame
  PROVE  LET new == PageTableAfter(vpn) IN
         /\ new \in [Page -> TranslationEntry]
         /\ new[vpn].valid = TRUE /\ new[vpn].physicalPage = SwapPhyPage
         /\ \A p \in Page \ {vpn} :
              /\ new[p].physicalPage = pageTable[p].physicalPage
              /\ p # SwapVirtPage => new[p].valid = pageTable[p].valid
              /\ p = SwapVirtPage => new[p].valid = FALSE
<1> DEFINE new == PageTableAfter(vpn)
           f == SwapPhyPage
<1>1. \A e \in TranslationEntry :
        /\ [e EXCEPT !.valid = FALSE] \in TranslationEntry
        /\ [e EXCEPT !.valid = FALSE].valid = FALSE
        /\ [e EXCEPT !.valid = FALSE].physicalPage = e.physicalPage
  BY DEF TranslationEntry
<1>2. \A e \in TranslationEntry, g \in Frame :
        /\ [e EXCEPT !.valid = TRUE, !.physicalPage = g] \in TranslationEntry
        /\ [e EXCEPT !.valid = TRUE, !.physicalPage = g].valid = TRUE
        /\ [e EXCEPT !.valid = TRUE, !.physicalPage = g].physicalPage = g
  BY DEF TranslationEntry
<1>3. \A p \in Page : pageTable[p] \in TranslationEntry
  BY DEF TypeOK
<1>4. /\ new[vpn] = [pageTable[vpn] EXCEPT !.valid = TRUE, !.physicalPage = f]
      /\ new = [p \in Page |-> new[p]]
  BY DEF PageTableAfter
<1>5. \A p \in Page \ {vpn} :
        new[p] = IF p = SwapVirtPage
                 THEN [pageTable[p] EXCEPT !.valid = FALSE] ELSE pageTable[p]
  BY DEF PageTableAfter
<1> HIDE DEF new, f
<1>6. /\ new[vpn] \in TranslationEntry
      /\ new[vpn].valid = TRUE /\ new[vpn].physicalPage = f
  <2> DEFINE e == [pageTable[vpn] EXCEPT !.valid = TRUE, !.physicalPage = f]
  <2>1. pageTable[vpn] \in TranslationEntry /\ f \in Frame
    BY <1>3 DEF f
  <2>2. e \in TranslationEntry /\ e.valid = TRUE /\ e.physicalPage = f
    BY <1>2, <2>1
  <2>3. new[vpn] = e
    BY <1>4
  <2> HIDE DEF e
  <2> QED
    BY <2>2, <2>3
<1>7. ASSUME NEW p \in Page \ {vpn}
      PROVE  /\ new[p] \in TranslationEntry
             /\ new[p].physicalPage = pageTable[p].physicalPage
             /\ p # SwapVirtPage => new[p].valid = pageTable[p].valid
             /\ p = SwapVirtPage => new[p].valid = FALSE
  <2>1. CASE p = SwapVirtPage
    BY <1>1, <1>3, <1>5, <2>1
  <2>2. CASE p # SwapVirtPage
    BY <1>3, <1>5, <2>2
  <2> QED
    BY <2>1, <2>2
<1>8. new \in [Page -> TranslationEntry]
  BY <1>4, <1>6, <1>7
<1> QED
  BY <1>6, <1>7, <1>8 DEF new, f

-----------------------------------------------------------------------------
(* An access that hits leaves the tables as they are. *)
LEMMA HitStep ==
  ASSUME IInv, NEW vpn \in Page, TlbHit(vpn)
  PROVE  TablesStep(vpn)
<1> DEFINE f == TlbTranslate(tlb, vpn)
<1>1. PICK s \in Set, w \in Way :
        /\ tlb[s][w].valid /\ tlb[s][w].vpn = vpn
        /\ tlb[s][w].PPN = f /\ f \in Frame
  BY FoundInTlb DEF IInv, TlbHit
<1>2. FrameOf(vpn) = f /\ Contents(vpn) = mainMemory[f]
  BY DEF TlbHit, FrameOf, Contents
<1> HIDE DEF f
<1>3. tlb \in TLB
  BY DEF IInv, TypeOK, TLB
<1>4. /\ tlb' \in TLB
      /\ \A x \in Set, y \in Way : SameEntry(tlb'[x][y], tlb[x][y])
  BY <1>3, TouchFacts DEF TlbHit
<1>5. /\ pageTable' \in [Page -> TranslationEntry]
      /\ phyMemoryMap' \in SUBSET Frame
      /\ virtualPage' \in [Frame -> Page \union {-1}]
      /\ age' \in [Frame -> Nat]
      /\ exeFile' \in [Page -> Value]
      /\ mainMemory[f] \in Value
  BY <1>1 DEF TlbHit, IInv, TypeOK
<1>6. FramesMatchPages' /\ SwappedOutMeansFull'
  BY DEF TlbHit, IInv, FramesMatchPages, SwappedOutMeansFull, NothingSwappedOut
<1>7. TLBConsistent'
  <2>1. Consistent(tlb, phyMemoryMap)
    BY DEF IInv, TLBConsistent, Consistent
  <2>2. Consistent(tlb', phyMemoryMap')
    <3>1. phyMemoryMap \subseteq phyMemoryMap'
      BY DEF TlbHit
    <3> QED
      BY <1>3, <1>4, <2>1, <3>1, ConsistentKept
  <2> QED
    BY <2>2 DEF TLBConsistent, Consistent
<1>8. ASSUME NothingSwappedOut'
      PROVE  /\ NothingSwappedOut /\ TLBCoherent'
             /\ pageTable'[vpn].valid /\ pageTable'[vpn].physicalPage = f
  <2>1. NothingSwappedOut /\ TLBCoherent
    BY <1>8 DEF TlbHit, IInv, NothingSwappedOut
  <2>2. TLBCoherent'
    BY <1>4, <2>1 DEF TlbHit, TLBCoherent, SameEntry
  <2> QED
    BY <1>1, <2>1, <2>2 DEF TlbHit, TLBCoherent
<1>9. pageTable' = pageTable /\ exeFile' = exeFile
  BY DEF TlbHit
<1> QED
  BY <1>1, <1>2, <1>4, <1>5, <1>6, <1>7, <1>8, <1>9 DEF TablesStep

(* An access that misses enters the page and its frame in the TLB. *)
LEMMA MissStep ==
  ASSUME IInv, NEW vpn \in Page, NEW writing \in BOOLEAN, TlbMiss(vpn, writing)
  PROVE  TablesStep(vpn)
<1> DEFINE f == pageTable[vpn].physicalPage
<1>1. f \in phyMemoryMap /\ f \in Frame /\ virtualPage[f] = vpn
  BY DEF IInv, TypeOK, FramesMatchPages, TlbMiss
<1>2. FrameOf(vpn) = f /\ Contents(vpn) = mainMemory[f]
  BY DEF TlbMiss, FrameOf, Contents
<1>3. tlb \in TLB /\ tlb' = TlbUpdate(tlb, vpn, f) /\ Matching(tlb, vpn) = {}
  BY FoundInTlb DEF IInv, TypeOK, TLB, TlbMiss
<1>4. /\ pageTable' \in [Page -> TranslationEntry]
      /\ \A p \in Page : /\ pageTable'[p].valid = pageTable[p].valid
                         /\ pageTable'[p].physicalPage = pageTable[p].physicalPage
  BY DirtyFacts DEF IInv, TypeOK, TlbMiss
<1>5. /\ phyMemoryMap' \in SUBSET Frame
      /\ virtualPage' \in [Frame -> Page \union {-1}]
      /\ age' \in [Frame -> Nat]
      /\ exeFile' \in [Page -> Value]
      /\ mainMemory[f] \in Value
  BY <1>1 DEF TlbMiss, IInv, TypeOK
<1>6. FramesMatchPages'
  <2>1. FramesMatchPages
    BY DEF IInv
  <2>2. phyMemoryMap' = phyMemoryMap /\ virtualPage' = virtualPage
    BY DEF TlbMiss
  <2> QED
    BY <1>4, <2>1, <2>2 DEF FramesMatchPages
<1>7. (NothingSwappedOut' <=> NothingSwappedOut) /\ SwappedOutMeansFull'
  <2>1. NothingSwappedOut' <=> NothingSwappedOut
    BY <1>4 DEF NothingSwappedOut
  <2> QED
    BY <2>1 DEF TlbMiss, IInv, SwappedOutMeansFull
<1>8. tlb' \in TLB /\
      \A s \in Set, w \in Way :
        \/ SameEntry(tlb'[s][w], tlb[s][w])
        \/ tlb'[s][w] = [valid |-> TRUE, vpn |-> vpn, PPN |-> f, lru |-> 0]
  BY <1>1, <1>3, UpdateFacts
<1>9. TLBConsistent'
  <2>1. Consistent(tlb, phyMemoryMap)
    BY DEF IInv, TLBConsistent, Consistent
  <2>2. phyMemoryMap' = phyMemoryMap
    BY DEF TlbMiss
  <2>3. Consistent(tlb', phyMemoryMap')
    <3> HIDE DEF f
    <3> QED
      BY <1>1, <1>3, <2>1, <2>2, ConsistentUpdate
  <2> QED
    BY <2>3 DEF TLBConsistent, Consistent
<1>10. ASSUME NothingSwappedOut PROVE TLBCoherent'
  <2>1. TLBCoherent
    BY <1>10 DEF IInv
  <2>2. TLBConsistent
    BY DEF IInv
  <2>3. pageTable[vpn].valid
    BY DEF TlbMiss
  <2> SUFFICES ASSUME NEW s \in Set, NEW w \in Way, tlb'[s][w].valid
               PROVE  /\ pageTable'[tlb'[s][w].vpn].valid
                      /\ pageTable'[tlb'[s][w].vpn].physicalPage = tlb'[s][w].PPN
    BY DEF TLBCoherent
  <2>4. CASE SameEntry(tlb'[s][w], tlb[s][w])
    BY <1>4, <2>1, <2>2, <2>4 DEF SameEntry, TLBCoherent, TLBConsistent
  <2>5. CASE tlb'[s][w] = [valid |-> TRUE, vpn |-> vpn, PPN |-> f, lru |-> 0]
    <3>1. tlb'[s][w].vpn = vpn /\ tlb'[s][w].PPN = f
      BY <2>5
    <3> QED
      BY <1>4, <2>3, <3>1
  <2> QED
    BY <1>8, <2>4, <2>5
<1>11. /\ exeFile' = exeFile /\ pageTable'[vpn].valid
       /\ pageTable'[vpn].physicalPage = f
  BY <1>4 DEF TlbMiss
<1> HIDE DEF f
<1> QED
  BY <1>1, <1>2, <1>4, <1>5, <1>6, <1>7, <1>8, <1>9, <1>10, <1>11 DEF TablesStep

(* A fault gives the page a free frame, or that of another page, which it  *)
(* makes invalid; the TLB may keep an entry for that page.                 *)
LEMMA FaultStep ==
  ASSUME IInv, NEW vpn \in Page, NEW writing \in BOOLEAN, PageFault(vpn, writing)
  PROVE  TablesStep(vpn)
<1> DEFINE f == SwapPhyPage
           v == SwapVirtPage
<1>1. /\ f \in Frame
      /\ \/ phyMemoryMap # Frame /\ f \notin phyMemoryMap /\ v = -1
         \/ /\ phyMemoryMap = Frame /\ v = virtualPage[f] /\ v \in Page
            /\ pageTable[v].valid /\ pageTable[v].physicalPage = f
  BY FrameChosen DEF IInv
<1>2. -1 \notin Page /\ -1 \notin Frame
  BY VirtMemAssumption DEF Page, Frame
<1>3. pageTable[vpn].valid = FALSE
  BY DEF IInv, TypeOK, TranslationEntry, PageFault
<1>4. /\ pageTable' \in [Page -> TranslationEntry]
      /\ pageTable'[vpn].valid = TRUE /\ pageTable'[vpn].physicalPage = f
      /\ \A p \in Page \ {vpn} :
           /\ pageTable'[p].physicalPage = pageTable[p].physicalPage
           /\ p # v => pageTable'[p].valid = pageTable[p].valid
           /\ p = v => pageTable'[p].valid = FALSE
  <2> DEFINE new == PageTableAfter(vpn)
  <2>1. /\ new \in [Page -> TranslationEntry]
        /\ new[vpn].valid = TRUE /\ new[vpn].physicalPage = f
        /\ \A p \in Page \ {vpn} :
             /\ new[p].physicalPage = pageTable[p].physicalPage
             /\ p # v => new[p].valid = pageTable[p].valid
             /\ p = v => new[p].valid = FALSE
    BY <1>1, AfterFacts DEF IInv
  <2>2. pageTable' = SetDirty(new, vpn, writing)
    BY DEF PageFault
  <2> HIDE DEF new, f, v
  <2>3. /\ pageTable' \in [Page -> TranslationEntry]
        /\ \A p \in Page : /\ pageTable'[p].valid = new[p].valid
                           /\ pageTable'[p].physicalPage = new[p].physicalPage
    BY <2>1, <2>2, DirtyFacts
  <2> QED
    BY <2>1, <2>3
<1>5. /\ phyMemoryMap' = phyMemoryMap \union {f}
      /\ virtualPage' = [virtualPage EXCEPT ![f] = vpn]
      /\ exeFile' = FileAfter
      /\ tlb' = TlbUpdate(TlbAfter, vpn, f)
  BY DEF PageFault, PageFaultHandler
<1>6. /\ FileAfter \in [Page -> Value]
      /\ v = -1 => FileAfter = exeFile /\ TlbAfter = tlb
  BY <1>1 DEF FileAfter, TlbAfter, WritesBack, IInv, TypeOK
<1>7. FrameOf(vpn) = f /\ Contents(vpn) = FileAfter[vpn]
  BY DEF PageFault, FrameOf, Contents
<1>8. age' \in [Frame -> Nat]
  <2>1. age' = [g \in Frame |->
                  IF g = f THEN 0
                  ELSE IF faulted \/ g \notin phyMemoryMap THEN age[g]
                  ELSE age[g] + 1]
    BY DEF PageFault, PageFaultHandler, UpdateElementWeight
  <2>2. age \in [Frame -> Nat]
    BY DEF IInv, TypeOK
  <2> HIDE DEF f
  <2> QED
    BY <2>1, <2>2
<1>9. /\ TlbAfter \in TLB /\ Consistent(TlbAfter, phyMemoryMap)
      /\ Matching(TlbAfter, vpn) = {}
  <2>1. tlb \in TLB /\ Consistent(tlb, phyMemoryMap) /\ Matching(tlb, vpn) = {}
    BY FoundInTlb DEF IInv, TypeOK, TLB, TLBConsistent, Consistent, PageFault
  <2>2. /\ TlbAfter \in TLB
        /\ \A s \in Set, w \in Way :
             \/ TlbAfter[s][w].valid = FALSE
             \/ SameEntry(TlbAfter[s][w], tlb[s][w])
    <3>1. CASE WritesBack
      BY <2>1, <3>1, InvalidFacts, VirtMemAssumption DEF TlbAfter
    <3>2. CASE ~WritesBack
      BY <2>1, <3>2 DEF TlbAfter, SameEntry
    <3> QED
      BY <3>1, <3>2
  <2>3. Consistent(TlbAfter, phyMemoryMap)
    BY <2>1, <2>2, ConsistentKept
  <2>4. vpn % TLBSets \in Set
    BY SetOf
  <2>5. Matching(TlbAfter, vpn) = {}
    BY <2>1, <2>2, <2>4 DEF Matching, SameEntry
  <2> QED
    BY <2>2, <2>3, <2>5
<1> HIDE DEF f, v
<1>10. /\ phyMemoryMap' \in SUBSET Frame
       /\ virtualPage' \in [Frame -> Page \union {-1}]
  BY <1>1, <1>5 DEF IInv, TypeOK
<1>11. FramesMatchPages'
  <2>1. FramesMatchPages /\ virtualPage \in [Frame -> Page \union {-1}]
    BY DEF IInv, TypeOK
  <2>2. ASSUME NEW p \in Page, pageTable'[p].valid
        PROVE  /\ pageTable'[p].physicalPage \in phyMemoryMap'
               /\ virtualPage'[pageTable'[p].physicalPage] = p
    <3>1. CASE p = vpn
      BY <1>1, <1>4, <1>5, <2>1, <3>1
    <3>2. CASE p # vpn
      <4> DEFINE g == pageTable[p].physicalPage
      <4>1. p # v /\ pageTable[p].valid /\ pageTable'[p].physicalPage = g
        BY <1>4, <2>2, <3>2
      <4>2. g \in phyMemoryMap /\ virtualPage[g] = p
        BY <2>1, <4>1 DEF FramesMatchPages
      <4>3. g # f
        BY <1>1, <4>1, <4>2
      <4>4. g \in Frame
        BY <4>2 DEF IInv, TypeOK
      <4> QED
        BY <1>1, <1>5, <2>1, <4>1, <4>2, <4>3, <4>4
    <3> QED
      BY <3>1, <3>2
  <2>3. ASSUME NEW g \in phyMemoryMap'
        PROVE  /\ virtualPage'[g] \in Page
               /\ pageTable'[virtualPage'[g]].valid
               /\ pageTable'[virtualPage'[g]].physicalPage = g
    <3>1. CASE g = f
      BY <1>1, <1>4, <1>5, <2>1, <3>1
    <3>2. CASE g # f
      <4> DEFINE q == virtualPage[g]
      <4>1. g \in phyMemoryMap /\ g \in Frame
        BY <1>5, <1>10, <2>3, <3>2
      <4>2. q \in Page /\ pageTable[q].valid /\ pageTable[q].physicalPage = g
        BY <2>1, <4>1 DEF FramesMatchPages
      <4>3. q # vpn
        BY <1>3, <4>2
      <4>4. q # v
        BY <1>1, <1>2, <3>2, <4>2
      <4>5. virtualPage'[g] = q
        BY <1>5, <2>1, <3>2, <4>1
      <4> HIDE DEF q
      <4> QED
        BY <1>4, <4>2, <4>3, <4>4, <4>5
    <3> QED
      BY <3>1, <3>2
  <2> QED
    BY <2>2, <2>3 DEF FramesMatchPages
<1>12. ASSUME phyMemoryMap # Frame
       PROVE  /\ v = -1 /\ NothingSwappedOut
              /\ \A p \in Page \ {vpn} : pageTable'[p].valid = pageTable[p].valid
  BY <1>1, <1>2, <1>4, <1>12 DEF IInv, SwappedOutMeansFull
<1>13. SwappedOutMeansFull'
  <2>1. CASE phyMemoryMap = Frame
    BY <1>1, <1>5, <2>1 DEF SwappedOutMeansFull
  <2>2. CASE phyMemoryMap # Frame
    <3>1. NothingSwappedOut'
      BY <1>4, <1>12, <2>2 DEF NothingSwappedOut
    <3> QED
      BY <3>1 DEF SwappedOutMeansFull
  <2> QED
    BY <2>1, <2>2
<1>14. ASSUME NothingSwappedOut' PROVE phyMemoryMap # Frame
  <2> SUFFICES ASSUME phyMemoryMap = Frame PROVE FALSE
    OBVIOUS
  <2>1. v \in Page /\ pageTable[v].valid /\ pageTable[v].physicalPage = f
    BY <1>1
  <2>2. v # vpn
    BY <1>3, <2>1
  <2>3. pageTable'[v].physicalPage = f /\ pageTable'[v].valid = FALSE
    BY <1>4, <2>1, <2>2
  <2> QED
    BY <1>1, <1>2, <1>14, <2>1, <2>3 DEF NothingSwappedOut
<1>15. tlb' \in TLB /\
       \A s \in Set, w \in Way :
         \/ SameEntry(tlb'[s][w], TlbAfter[s][w])
         \/ tlb'[s][w] = [valid |-> TRUE, vpn |-> vpn, PPN |-> f, lru |-> 0]
  BY <1>1, <1>5, <1>9, UpdateFacts
<1>16. TLBConsistent'
  <2>1. Consistent(tlb', phyMemoryMap')
    <3>1. phyMemoryMap \subseteq phyMemoryMap' /\ f \in phyMemoryMap'
      BY <1>5
    <3> QED
      BY <1>1, <1>5, <1>9, <3>1, ConsistentUpdate
  <2> QED
    BY <2>1 DEF TLBConsistent, Consistent
<1>17. ASSUME phyMemoryMap # Frame PROVE TLBCoherent'
  <2>1. TLBCoherent /\ TLBConsistent /\ TlbAfter = tlb
    BY <1>6, <1>12, <1>17 DEF IInv
  <2> SUFFICES ASSUME NEW s \in Set, NEW w \in Way, tlb'[s][w].valid
               PROVE  /\ pageTable'[tlb'[s][w].vpn].valid
                      /\ pageTable'[tlb'[s][w].vpn].physicalPage = tlb'[s][w].PPN
    BY DEF TLBCoherent
  <2>2. CASE SameEntry(tlb'[s][w], tlb[s][w])
    <3> DEFINE q == tlb[s][w].vpn
    <3>1. tlb[s][w].valid /\ tlb'[s][w].vpn = q /\ tlb'[s][w].PPN = tlb[s][w].PPN
      BY <2>2 DEF SameEntry
    <3>2. /\ q \in Page /\ pageTable[q].valid
          /\ pageTable[q].physicalPage = tlb[s][w].PPN
      BY <2>1, <3>1 DEF TLBCoherent, TLBConsistent
    <3> HIDE DEF q
    <3>3. q # vpn
      BY <1>3, <3>2
    <3> QED
      BY <1>4, <1>12, <1>17, <3>1, <3>2, <3>3
  <2>3. CASE tlb'[s][w] = [valid |-> TRUE, vpn |-> vpn, PPN |-> f, lru |-> 0]
    <3>1. tlb'[s][w].vpn = vpn /\ tlb'[s][w].PPN = f
      BY <2>3
    <3> QED
      BY <1>4, <3>1
  <2> QED
    BY <1>15, <2>1, <2>2, <2>3
<1>18. exeFile' \in [Page -> Value] /\ Contents(vpn) \in Value
  BY <1>5, <1>6, <1>7
<1>19. NothingSwappedOut' => NothingSwappedOut /\ TLBCoherent' /\ exeFile' = exeFile
  BY <1>5, <1>6, <1>12, <1>14, <1>17
<1>20. NothingSwappedOut' =>
         \A p \in Page \ {vpn} :
            /\ pageTable'[p].valid = pageTable[p].valid
            /\ pageTable'[p].physicalPage = pageTable[p].physicalPage
  BY <1>4, <1>12, <1>14
<1> QED
  BY <1>1, <1>4, <1>7, <1>8, <1>10, <1>11, <1>13, <1>15, <1>16, <1>18, <1>19,
     <1>20 DEF TablesStep

(* Until a page is swapped out an access finds what was last written. *)
LEMMA LastWriteFound ==
  ASSUME IInv, NothingSwappedOut
  PROVE  ReadsLastWrite
<1> SUFFICES ASSUME NEW p \in Page PROVE Contents(p) = written[p]
  BY DEF ReadsLastWrite
<1>1. TypeOK /\ FramesMatchPages /\ TLBConsistent /\ TLBCoherent /\ ContentsKept
  BY DEF IInv
<1>2. CASE TlbTranslate(tlb, p) # -1
  <2> DEFINE f == TlbTranslate(tlb, p)
  <2>1. PICK s \in Set, w \in Way :
          tlb[s][w].valid /\ tlb[s][w].vpn = p /\ tlb[s][w].PPN = f
    BY <1>1, <1>2, FoundInTlb
  <2>2. pageTable[p].valid /\ pageTable[p].physicalPage = f
    BY <1>1, <2>1 DEF TLBCoherent
  <2>3. Contents(p) = mainMemory[f]
    BY <1>2 DEF Contents, FrameOf
  <2> QED
    BY <1>1, <2>2, <2>3 DEF ContentsKept
<1>3. CASE TlbTranslate(tlb, p) = -1 /\ pageTable[p].valid
  BY <1>1, <1>3 DEF Contents, FrameOf, ContentsKept
<1>4. CASE TlbTranslate(tlb, p) = -1 /\ ~pageTable[p].valid
  <2>1. Contents(p) = FileAfter[p]
    BY <1>4 DEF Contents
  <2>2. p # SwapVirtPage /\ SwapVirtPage \in Page \union {-1}
    BY <1>1, <1>4, FrameChosen, VirtMemAssumption DEF Page
  <2>3. FileAfter[p] = exeFile[p]
    BY <1>1, <2>2 DEF FileAfter, TypeOK
  <2> QED
    BY <1>1, <1>4, <2>1, <2>3 DEF ContentsKept
<1> QED
  BY <1>2, <1>3, <1>4

(* An access, with value the contents of the page after it. *)
LEMMA AccessInv ==
  ASSUME IInv, NEW vpn \in Page, NEW value \in Value, TablesStep(vpn),
         mainMemory' = [mainMemory EXCEPT ![FrameOf(vpn)] = value],
         written' \in [Page -> Value],
         \A p \in Page \ {vpn} : written'[p] = written[p],
         NothingSwappedOut => written'[vpn] = value,
         faulted' \in BOOLEAN,
         phase' \in {"fetch", "execute", "halted", "aborted"}
  PROVE  IInv'
<1> DEFINE f == FrameOf(vpn)
<1>1. /\ mainMemory \in [Frame -> Value] /\ f \in Frame
      /\ mainMemory' \in [Frame -> Value] /\ mainMemory'[f] = value
      /\ \A g \in Frame : g # f => mainMemory'[g] = mainMemory[g]
  BY DEF IInv, TypeOK, TablesStep
<1>2. TypeOK'
  <2>1. /\ pageTable' \in [Page -> TranslationEntry]
        /\ phyMemoryMap' \in SUBSET Frame
        /\ virtualPage' \in [Frame -> Page \union {-1}]
        /\ age' \in [Frame -> Nat]
        /\ tlb' \in [Set -> [Way -> TLBEntry]]
        /\ exeFile' \in [Page -> Value]
    BY DEF TablesStep, TLB
  <2> QED
    BY <1>1, <2>1 DEF TypeOK
<1>3. FramesMatchPages' /\ TLBConsistent' /\ SwappedOutMeansFull'
  BY DEF TablesStep
<1> HIDE DEF f
<1>4. ASSUME NothingSwappedOut' PROVE TLBCoherent' /\ ContentsKept'
  <2>1. /\ NothingSwappedOut /\ TLBCoherent' /\ exeFile' = exeFile
        /\ pageTable'[vpn].valid /\ pageTable'[vpn].physicalPage = f
        /\ \A p \in Page \ {vpn} :
             /\ pageTable'[p].valid = pageTable[p].valid
             /\ pageTable'[p].physicalPage = pageTable[p].physicalPage
    BY <1>4 DEF TablesStep, f
  <2>2. ContentsKept
    BY <2>1 DEF IInv
  <2>3. ASSUME NEW p \in Page
        PROVE  written'[p] = IF pageTable'[p].valid
                             THEN mainMemory'[pageTable'[p].physicalPage]
                             ELSE exeFile'[p]
    <3>1. CASE p = vpn
      BY <1>1, <2>1, <3>1
    <3>2. CASE p # vpn /\ pageTable'[p].valid
      <4> DEFINE g == pageTable[p].physicalPage
      <4>1. pageTable[p].valid /\ pageTable'[p].physicalPage = g
        BY <2>1, <3>2
      <4>2. written'[p] = mainMemory[g]
        BY <2>2, <3>2, <4>1 DEF ContentsKept
      <4>3. g \in Frame
        BY <4>1 DEF IInv, TypeOK, FramesMatchPages
      <4>4. virtualPage'[g] = p /\ virtualPage'[f] = vpn
        BY <1>3, <2>1, <3>2, <4>1 DEF FramesMatchPages
      <4> HIDE DEF g
      <4> QED
        BY <1>1, <3>2, <4>1, <4>2, <4>3, <4>4
    <3>3. CASE p # vpn /\ ~pageTable'[p].valid
      BY <2>1, <2>2, <3>3 DEF ContentsKept
    <3> QED
      BY <3>1, <3>2, <3>3
  <2> QED
    BY <2>1, <2>3 DEF ContentsKept
<1> QED
  BY <1>2, <1>3, <1>4 DEF IInv

(* Machine::ReadMem and Machine::WriteMem. *)
LEMMA TranslateStep ==
  ASSUME IInv, NEW vpn \in Page, NEW writing \in BOOLEAN, Translate(vpn, writing)
  PROVE  TablesStep(vpn)
BY HitStep, MissStep, FaultStep DEF Translate

(* A read brings the page into memory and changes no contents. *)
LEMMA ReadInv ==
  ASSUME IInv, NEW vpn \in Page, ReadMem(vpn), faulted' \in BOOLEAN,
         phase' \in {"fetch", "execute", "halted", "aborted"}
  PROVE  IInv'
<1>1. TablesStep(vpn)
  BY TranslateStep DEF ReadMem
<1>2. Contents(vpn) \in Value
  BY <1>1 DEF TablesStep
<1>3. NothingSwappedOut => written[vpn] = Contents(vpn)
  BY LastWriteFound DEF ReadsLastWrite
<1>4. written' = written /\ written \in [Page -> Value]
  BY DEF ReadMem, IInv, TypeOK
<1>5. mainMemory' = [mainMemory EXCEPT ![FrameOf(vpn)] = Contents(vpn)]
  BY DEF ReadMem
<1> QED
  BY <1>1, <1>2, <1>3, <1>4, <1>5, AccessInv

(* A write changes the contents of its page. *)
LEMMA WriteInv ==
  ASSUME IInv, NEW vpn \in Page, NEW value \in Value, WriteMem(vpn, value),
         faulted' \in BOOLEAN,
         phase' \in {"fetch", "execute", "halted", "aborted"}
  PROVE  IInv'
<1>1. TablesStep(vpn)
  BY TranslateStep DEF WriteMem
<1>2. /\ written' \in [Page -> Value] /\ written'[vpn] = value
      /\ \A p \in Page \ {vpn} : written'[p] = written[p]
  BY DEF WriteMem, IInv, TypeOK
<1>3. mainMemory' = [mainMemory EXCEPT ![FrameOf(vpn)] = value]
  BY DEF WriteMem
<1> QED
  BY <1>1, <1>2, <1>3, AccessInv

(* Every step keeps the invariant. *)
LEMMA NextInv == IInv /\ [Next]_vars => IInv'
<1> SUFFICES ASSUME IInv, [Next]_vars PROVE IInv'
  OBVIOUS
<1>1. ASSUME NEW vpn \in Page, Fetch(vpn) PROVE IInv'
  <2>1. ReadMem(vpn) /\ phase' = "execute" /\ faulted' \in BOOLEAN
    BY <1>1 DEF Fetch
  <2> QED
    BY <2>1, ReadInv
<1>2. ASSUME NEW vpn \in Page, Load(vpn) PROVE IInv'
  BY <1>2, ReadInv DEF Load, NextInstruction
<1>3. ASSUME NEW vpn \in Page, NEW value \in Value, Store(vpn, value) PROVE IInv'
  BY <1>3, WriteInv DEF Store, NextInstruction
<1>4. ASSUME UNCHANGED <<pageTable, phyMemoryMap, virtualPage, age, tlb,
                         mainMemory, exeFile, written>>,
             faulted' \in BOOLEAN,
             phase' \in {"fetch", "execute", "halted", "aborted"}
      PROVE  IInv'
  <2>1. TypeOK' /\ FramesMatchPages' /\ TLBConsistent'
    BY <1>4 DEF IInv, TypeOK, FramesMatchPages, TLBConsistent
  <2>2. (NothingSwappedOut' <=> NothingSwappedOut) /\ SwappedOutMeansFull'
    BY <1>4 DEF IInv, NothingSwappedOut, SwappedOutMeansFull
  <2>3. NothingSwappedOut => TLBCoherent' /\ ContentsKept'
    BY <1>4 DEF IInv, TLBCoherent, ContentsKept
  <2> QED
    BY <2>1, <2>2, <2>3 DEF IInv
<1>5. CASE Compute
  BY <1>4, <1>5 DEF Compute, NextInstruction
<1>6. CASE Halt
  BY <1>4, <1>6 DEF Halt, IInv, TypeOK
<1>7. CASE Abort
  BY <1>4, <1>7 DEF Abort, IInv, TypeOK
<1>8. CASE UNCHANGED vars
  BY <1>4, <1>8 DEF vars, IInv, TypeOK
<1> QED
  BY <1>1, <1>2, <1>3, <1>5, <1>6, <1>7, <1>8 DEF Next

(* The inductive invariant holds in every behaviour. *)
LEMMA Invariance == Spec => []IInv
BY InitInv, NextInv, PTL DEF Spec

(* The page table and the table of frames stay each other's inverse,       *)
(* whatever MemoryManager::pageFaultHandler has swapped out.               *)
THEOREM FramesAreInverse == Spec => [](TypeOK /\ FramesMatchPages)
<1>1. IInv => TypeOK /\ FramesMatchPages
  BY DEF IInv
<1> QED
  BY <1>1, Invariance, PTL

(* TLBManager keeps at most one entry for a page, in the set of the page,  *)
(* and it leads to a frame that is in use.                                 *)
THEOREM TlbIsConsistent == Spec => []TLBConsistent
<1>1. IInv => TLBConsistent
  BY DEF IInv
<1> QED
  BY <1>1, Invariance, PTL

(* Until the first page is swapped out the TLB agrees with the page table  *)
(* and Machine::ReadMem finds what Machine::WriteMem last wrote.           *)
THEOREM MemoryUntilSwapping == Spec => []CorrectUntilSwapping
<1>1. IInv => CorrectUntilSwapping
  BY LastWriteFound DEF IInv, CorrectUntilSwapping
<1> QED
  BY <1>1, Invariance, PTL

-----------------------------------------------------------------------------
(* Several address spaces: the tables, ... *)
Owner == [mainThreadId : Tid \union {-1}, virtualPage : Int]

SpacesTyped ==
  /\ virtMemTable \in [Tid -> A!PageTable \union {NULL}]
  /\ virtPageNums \in Nat
  /\ framesInUse \in SUBSET A!Frame
  /\ phyMemPageTable \in [A!Frame -> Owner]
  /\ lastUsedTimeTable \in [A!Frame -> Int]
  /\ totalTicks \in Nat
  /\ loadedAt \in [A!Frame -> Int]

(* ... and how they belong together: a frame of map is the frame of the    *)
(* page its owner names, and a page that has a frame is the frame's owner. *)
Matched(table, map, owners) ==
  /\ \A f \in map :
       LET t == owners[f].mainThreadId
           p == owners[f].virtualPage
       IN  /\ t \in Tid /\ table[t] # NULL
           /\ p \in DOMAIN table[t] /\ table[t][p] = f
  /\ \A t \in Tid : table[t] # NULL =>
       \A p \in DOMAIN table[t] : table[t][p] # -1 =>
         /\ table[t][p] \in map
         /\ owners[table[t][p]] = [mainThreadId |-> t, virtualPage |-> p]

(* The inductive invariant. *)
SpacesInv ==
  /\ SpacesTyped
  /\ Matched(virtMemTable, framesInUse, phyMemPageTable)
  /\ loadedAt = lastUsedTimeTable

(* A page table, and one of its entries changed. *)
LEMMA PutFacts ==
  ASSUME A!AddrSpacesAssumption,
         NEW table \in [Tid -> A!PageTable \union {NULL}], NEW t \in Tid,
         table[t] # NULL, NEW p \in DOMAIN table[t],
         NEW x \in A!Frame \union {-1},
         NEW row, row = [table[t] EXCEPT ![p] = x],
         NEW new, new = [table EXCEPT ![t] = row]
  PROVE  /\ new \in [Tid -> A!PageTable \union {NULL}]
         /\ new[t] # NULL
         /\ DOMAIN new[t] = DOMAIN table[t]
         /\ new[t][p] = x
         /\ \A q \in DOMAIN table[t] : q # p => new[t][q] = table[t][q]
         /\ \A u \in Tid : u # t => new[u] = table[u]
<1>1. PICK n \in Size : table[t] \in [0..(n - 1) -> A!Frame \union {-1}]
  <2>1. table[t] \in A!PageTable
    OBVIOUS
  <2> QED
    BY <2>1 DEF A!PageTable
<1>2. /\ row \in [0..(n - 1) -> A!Frame \union {-1}]
      /\ DOMAIN row = DOMAIN table[t] /\ row[p] = x
      /\ \A q \in DOMAIN table[t] : q # p => row[q] = table[t][q]
  BY <1>1
<1>3. row \in A!PageTable
  BY <1>2 DEF A!PageTable
<1>4. row # NULL
  BY <1>3 DEF A!AddrSpacesAssumption
<1> QED
  BY <1>2, <1>3, <1>4

(* MemoryManager::pageFaultHandler, once the frame has no owner. *)
LEMMA LoadMatched ==
  ASSUME A!AddrSpacesAssumption,
         NEW table \in [Tid -> A!PageTable \union {NULL}], NEW t \in Tid,
         table[t] # NULL, NEW vpn \in DOMAIN table[t], table[t][vpn] = -1,
         NEW f \in A!Frame, NEW owners \in [A!Frame -> Owner],
         NEW map \in SUBSET A!Frame, Matched(table, map \ {f}, owners)
  PROVE  Matched([table EXCEPT ![t][vpn] = f], map \union {f},
                 [owners EXCEPT ![f] = [mainThreadId |-> t, virtualPage |-> vpn]])
<1> DEFINE new == [table EXCEPT ![t][vpn] = f]
           rec == [mainThreadId |-> t, virtualPage |-> vpn]
           now == [owners EXCEPT ![f] = rec]
<1>0. PICK row : /\ row = [table[t] EXCEPT ![vpn] = f]
                 /\ new = [table EXCEPT ![t] = row]
  OBVIOUS
<1> HIDE DEF new
<1>1. /\ new[t] # NULL
      /\ DOMAIN new[t] = DOMAIN table[t]
      /\ new[t][vpn] = f
      /\ \A q \in DOMAIN table[t] : q # vpn => new[t][q] = table[t][q]
      /\ \A u \in Tid : u # t => new[u] = table[u]
  BY <1>0, PutFacts
<1>2. now[f] = rec /\ \A g \in A!Frame : g # f => now[g] = owners[g]
  OBVIOUS
<1>3. rec.mainThreadId = t /\ rec.virtualPage = vpn
  OBVIOUS
<1>4. -1 \notin A!Frame
  BY DEF A!AddrSpacesAssumption, A!Frame
<1> HIDE DEF now
<1>5. ASSUME NEW g \in map \union {f}
      PROVE  /\ now[g].mainThreadId \in Tid
             /\ new[now[g].mainThreadId] # NULL
             /\ now[g].virtualPage \in DOMAIN new[now[g].mainThreadId]
             /\ new[now[g].mainThreadId][now[g].virtualPage] = g
  <2>1. CASE g = f
    <3> HIDE DEF rec
    <3> QED
      BY <1>1, <1>2, <1>3, <2>1
  <2>2. CASE g # f
    <3> DEFINE u == owners[g].mainThreadId
               p == owners[g].virtualPage
    <3>1. /\ g \in A!Frame /\ g \in map \ {f} /\ now[g] = owners[g]
      BY <1>2, <2>2
    <3>2. u \in Tid /\ table[u] # NULL /\ p \in DOMAIN table[u] /\ table[u][p] = g
      BY <3>1 DEF Matched
    <3>3. ~(u = t /\ p = vpn)
      BY <1>4, <3>1, <3>2
    <3>4. now[g].mainThreadId = u /\ now[g].virtualPage = p
      BY <3>1
    <3> HIDE DEF u, p
    <3>5. CASE u = t
      BY <1>1, <3>2, <3>3, <3>4, <3>5
    <3>6. CASE u # t
      BY <1>1, <3>2, <3>4, <3>6
    <3> QED
      BY <3>5, <3>6
  <2> QED
    BY <2>1, <2>2
<1>6. ASSUME NEW u \in Tid, new[u] # NULL, NEW p \in DOMAIN new[u],
             new[u][p] # -1
      PROVE  /\ new[u][p] \in map \union {f}
             /\ now[new[u][p]] = [mainThreadId |-> u, virtualPage |-> p]
  <2>1. CASE u = t /\ p = vpn
    BY <1>1, <1>2, <2>1
  <2>2. CASE ~(u = t /\ p = vpn)
    <3>1. table[u] # NULL /\ p \in DOMAIN table[u] /\ new[u][p] = table[u][p]
      BY <1>1, <1>6, <2>2
    <3>2. /\ table[u][p] \in map \ {f}
          /\ owners[table[u][p]] = [mainThreadId |-> u, virtualPage |-> p]
      BY <1>6, <3>1 DEF Matched
    <3> HIDE DEF rec
    <3> QED
      BY <1>2, <3>1, <3>2
  <2> QED
    BY <2>1, <2>2
<1> HIDE DEF rec
<1>7. Matched(new, map \union {f}, now)
  BY <1>5, <1>6 DEF Matched
<1> QED
  BY <1>7 DEF new, now, rec

(* The page that loses its frame to another. *)
LEMMA TakenMatched ==
  ASSUME A!AddrSpacesAssumption, SpacesInv, NEW f \in framesInUse
  PROVE  LET t == phyMemPageTable[f].mainThreadId
             p == phyMemPageTable[f].virtualPage
             table == [virtMemTable EXCEPT ![t][p] = -1]
         IN  /\ t \in Tid /\ virtMemTable[t] # NULL /\ p \in DOMAIN virtMemTable[t]
             /\ virtMemTable[t][p] = f
             /\ Matched(table, framesInUse \ {f}, phyMemPageTable)
<1> DEFINE t == phyMemPageTable[f].mainThreadId
           p == phyMemPageTable[f].virtualPage
           table == [virtMemTable EXCEPT ![t][p] = -1]
<1>1. /\ virtMemTable \in [Tid -> A!PageTable \union {NULL}]
      /\ Matched(virtMemTable, framesInUse, phyMemPageTable)
  BY DEF SpacesInv, SpacesTyped
<1>2. /\ t \in Tid /\ virtMemTable[t] # NULL /\ p \in DOMAIN virtMemTable[t]
      /\ virtMemTable[t][p] = f
  BY <1>1 DEF Matched
<1> HIDE DEF t, p
<1>a. PICK none : none = -1
  OBVIOUS
<1>0. PICK row : /\ row = [virtMemTable[t] EXCEPT ![p] = none]
                 /\ table = [virtMemTable EXCEPT ![t] = row]
  BY <1>a
<1> HIDE DEF table
<1>3. /\ table[t] # NULL
      /\ DOMAIN table[t] = DOMAIN virtMemTable[t]
      /\ table[t][p] = -1
      /\ \A q \in DOMAIN virtMemTable[t] : q # p => table[t][q] = virtMemTable[t][q]
      /\ \A u \in Tid : u # t => table[u] = virtMemTable[u]
  <2>1. none \in A!Frame \union {-1}
    BY <1>a
  <2>2. /\ table \in [Tid -> A!PageTable \union {NULL}]
        /\ table[t] # NULL
        /\ DOMAIN table[t] = DOMAIN virtMemTable[t]
        /\ table[t][p] = none
        /\ \A q \in DOMAIN virtMemTable[t] :
             q # p => table[t][q] = virtMemTable[t][q]
        /\ \A u \in Tid : u # t => table[u] = virtMemTable[u]
    <3>1. /\ virtMemTable \in [Tid -> A!PageTable \union {NULL}] /\ t \in Tid
          /\ virtMemTable[t] # NULL /\ p \in DOMAIN virtMemTable[t]
          /\ none \in A!Frame \union {-1}
          /\ row = [virtMemTable[t] EXCEPT ![p] = none]
          /\ table = [virtMemTable EXCEPT ![t] = row]
      BY <1>0, <1>1, <1>2, <2>1
    <3>2. table \in [Tid -> A!PageTable \union {NULL}]
      BY <3>1, PutFacts
    <3>3. table[t] # NULL
      BY <3>1, PutFacts
    <3>4. DOMAIN table[t] = DOMAIN virtMemTable[t]
      BY <3>1, PutFacts
    <3>5. table[t][p] = none
      BY <3>1, PutFacts
    <3>6. \A q \in DOMAIN virtMemTable[t] : q # p => table[t][q] = virtMemTable[t][q]
      BY <3>1, PutFacts
    <3>7. \A u \in Tid : u # t => table[u] = virtMemTable[u]
      BY <3>1, PutFacts
    <3> QED
      BY <3>2, <3>3, <3>4, <3>5, <3>6, <3>7
  <2> QED
    BY <1>a, <2>2
<1>4. ASSUME NEW g \in framesInUse \ {f}
      PROVE  LET u == phyMemPageTable[g].mainThreadId
                 q == phyMemPageTable[g].virtualPage
             IN  /\ u \in Tid /\ table[u] # NULL
                 /\ q \in DOMAIN table[u] /\ table[u][q] = g
  <2> DEFINE u == phyMemPageTable[g].mainThreadId
             q == phyMemPageTable[g].virtualPage
  <2>1. /\ u \in Tid /\ virtMemTable[u] # NULL
        /\ q \in DOMAIN virtMemTable[u] /\ virtMemTable[u][q] = g
    BY <1>1 DEF Matched
  <2> HIDE DEF u, q
  <2>2. ~(u = t /\ q = p)
    BY <1>2, <2>1
  <2>3. u \in Tid /\ table[u] # NULL /\ q \in DOMAIN table[u] /\ table[u][q] = g
    BY <1>3, <2>1, <2>2
  <2> QED
    BY <2>3 DEF u, q
<1>5. ASSUME NEW u \in Tid, table[u] # NULL, NEW q \in DOMAIN table[u],
             table[u][q] # -1
      PROVE  /\ table[u][q] \in framesInUse \ {f}
             /\ phyMemPageTable[table[u][q]] =
                  [mainThreadId |-> u, virtualPage |-> q]
  <2>1. ~(u = t /\ q = p)
    BY <1>3, <1>5
  <2>2. /\ virtMemTable[u] # NULL /\ q \in DOMAIN virtMemTable[u]
        /\ table[u][q] = virtMemTable[u][q]
    <3>1. CASE u = t
      BY <1>2, <1>3, <1>5, <2>1, <3>1
    <3>2. CASE u # t
      BY <1>3, <1>5, <3>2
    <3> QED
      BY <3>1, <3>2
  <2>3. /\ table[u][q] \in framesInUse
        /\ phyMemPageTable[table[u][q]] = [mainThreadId |-> u, virtualPage |-> q]
    BY <1>1, <1>5, <2>2 DEF Matched
  <2>4. table[u][q] # f
    <3> SUFFICES ASSUME table[u][q] = f PROVE FALSE
      OBVIOUS
    <3>1. t = u /\ p = q
      BY <2>3 DEF t, p
    <3> QED
      BY <2>1, <3>1
  <2> QED
    BY <2>3, <2>4
<1>6. Matched(table, framesInUse \ {f}, phyMemPageTable)
  BY <1>4, <1>5 DEF Matched
<1> QED
  BY <1>2, <1>6 DEF t, p, table

(* The operators of Lists that AddrSpaces uses are those of this module. *)
LEMMA SameOperators ==
  /\ \A S : A!Min(S) = Min(S)
  /\ \A map, n : A!FindClear(map, n) = FindClear(map, n)
BY DEF A!Min, Min, A!FindClear, FindClear

(* SwappingLRU::findOneElementToSwap. *)
LEMMA SwapFacts ==
  ASSUME A!AddrSpacesAssumption, lastUsedTimeTable \in [A!Frame -> Int]
  PROVE  /\ A!SwapOnePage \in A!Frame
         /\ \A g \in A!Frame :
              lastUsedTimeTable[A!SwapOnePage] <= lastUsedTimeTable[g]
<1> DEFINE first == {f \in A!Frame : \A g \in A!Frame :
                       lastUsedTimeTable[f] <= lastUsedTimeTable[g]}
<1>1. IsFiniteSet(A!Frame) /\ A!Frame # {} /\ A!Frame \subseteq Nat
  <2>1. 0 \in Int /\ SharedFrames - 1 \in Int /\ 0 \in 0..(SharedFrames - 1)
    BY DEF A!AddrSpacesAssumption
  <2> QED
    BY <2>1, FS_Interval DEF A!Frame
<1>2. first # {}
  <2>1. \E f \in A!Frame : \A g \in A!Frame :
          lastUsedTimeTable[f] <= lastUsedTimeTable[g]
    BY <1>1, MinExists
  <2> QED
    BY <2>1
<1>3. /\ first \subseteq Nat
      /\ \A f \in first : /\ f \in A!Frame
                          /\ \A g \in A!Frame :
                               lastUsedTimeTable[f] <= lastUsedTimeTable[g]
  BY <1>1
<1>4. A!SwapOnePage = Min(first)
  BY SameOperators DEF A!SwapOnePage
<1> HIDE DEF first
<1>5. Min(first) \in first
  BY <1>2, <1>3, MinFacts
<1> QED
  BY <1>3, <1>4, <1>5

(* The frame of a fault: the first that is free, or the one of the page    *)
(* that was loaded first.                                                  *)
LEMMA FaultCases ==
  ASSUME A!AddrSpacesAssumption, SpacesInv, NEW t \in Tid, NEW vpn,
         A!PageFault(t, vpn)
  PROVE  \E f \in A!Frame, table \in [Tid -> A!PageTable \union {NULL}] :
           /\ A!LoadPage(t, vpn, f, table)
           /\ table[t] # NULL /\ vpn \in DOMAIN table[t] /\ table[t][vpn] = -1
           /\ Matched(table, framesInUse \ {f}, phyMemPageTable)
           /\ f \in framesInUse =>
                \A g \in A!Frame : lastUsedTimeTable[f] <= lastUsedTimeTable[g]
<1>1. /\ virtMemTable \in [Tid -> A!PageTable \union {NULL}]
      /\ framesInUse \subseteq A!Frame
      /\ lastUsedTimeTable \in [A!Frame -> Int]
      /\ Matched(virtMemTable, framesInUse, phyMemPageTable)
  BY DEF SpacesInv, SpacesTyped
<1>2. /\ virtMemTable[t] # NULL /\ vpn \in DOMAIN virtMemTable[t]
      /\ virtMemTable[t][vpn] = -1
  BY DEF A!PageFault, A!Pages
<1>3. -1 \notin A!Frame
  BY DEF A!AddrSpacesAssumption, A!Frame
<1>4. CASE framesInUse # A!Frame
  <2> DEFINE f == FindClear(framesInUse, SharedFrames)
  <2>1. f \in A!Frame \ framesInUse
    BY <1>1, <1>4, FreeFrame DEF A!AddrSpacesAssumption, A!Frame
  <2>2. A!LoadPage(t, vpn, f, virtMemTable)
    BY <1>3, <2>1, SameOperators DEF A!PageFault, A!FindOneEmptyPage
  <2>3. framesInUse \ {f} = framesInUse
    BY <2>1
  <2> HIDE DEF f
  <2> QED
    BY <1>1, <1>2, <2>1, <2>2, <2>3
<1>5. CASE framesInUse = A!Frame
  <2> DEFINE f == A!SwapOnePage
             owner == phyMemPageTable[f].mainThreadId
             page == phyMemPageTable[f].virtualPage
             table == [virtMemTable EXCEPT ![owner][page] = -1]
  <2>1. FindClear(framesInUse, SharedFrames) = -1
    BY <1>1, <1>5, FreeFrame DEF A!AddrSpacesAssumption, A!Frame
  <2>2. A!LoadPage(t, vpn, f, table)
    BY <2>1, SameOperators DEF A!PageFault, A!FindOneEmptyPage
  <2>3. /\ f \in A!Frame
        /\ \A g \in A!Frame : lastUsedTimeTable[f] <= lastUsedTimeTable[g]
    BY <1>1, SwapFacts
  <2> HIDE DEF f
  <2>4. f \in framesInUse
    BY <1>1, <1>5, <2>3
  <2>5. /\ owner \in Tid /\ virtMemTable[owner] # NULL
        /\ page \in DOMAIN virtMemTable[owner] /\ virtMemTable[owner][page] = f
        /\ Matched(table, framesInUse \ {f}, phyMemPageTable)
    BY <2>4, TakenMatched
  <2> HIDE DEF owner, page
  <2>a. PICK none : none = -1
    OBVIOUS
  <2>0. PICK row : /\ row = [virtMemTable[owner] EXCEPT ![page] = none]
                   /\ table = [virtMemTable EXCEPT ![owner] = row]
    BY <2>a
  <2> HIDE DEF table
  <2>6. /\ table \in [Tid -> A!PageTable \union {NULL}]
        /\ table[owner] # NULL
        /\ DOMAIN table[owner] = DOMAIN virtMemTable[owner]
        /\ table[owner][page] = -1
        /\ \A q \in DOMAIN virtMemTable[owner] :
             q # page => table[owner][q] = virtMemTable[owner][q]
        /\ \A u \in Tid : u # owner => table[u] = virtMemTable[u]
    <3>1. none \in A!Frame \union {-1}
      BY <2>a
    <3>2. /\ table \in [Tid -> A!PageTable \union {NULL}]
          /\ table[owner] # NULL
          /\ DOMAIN table[owner] = DOMAIN virtMemTable[owner]
          /\ table[owner][page] = none
          /\ \A q \in DOMAIN virtMemTable[owner] :
               q # page => table[owner][q] = virtMemTable[owner][q]
          /\ \A u \in Tid : u # owner => table[u] = virtMemTable[u]
      <4>1. /\ virtMemTable \in [Tid -> A!PageTable \union {NULL}] /\ owner \in Tid
            /\ virtMemTable[owner] # NULL /\ page \in DOMAIN virtMemTable[owner]
            /\ none \in A!Frame \union {-1}
            /\ row = [virtMemTable[owner] EXCEPT ![page] = none]
            /\ table = [virtMemTable EXCEPT ![owner] = row]
        BY <1>1, <2>0, <2>5, <3>1
      <4>2. table \in [Tid -> A!PageTable \union {NULL}]
        BY <4>1, PutFacts
      <4>3. table[owner] # NULL
        BY <4>1, PutFacts
      <4>4. DOMAIN table[owner] = DOMAIN virtMemTable[owner]
        BY <4>1, PutFacts
      <4>5. table[owner][page] = none
        BY <4>1, PutFacts
      <4>6. \A q \in DOMAIN virtMemTable[owner] : q # page => table[owner][q] = virtMemTable[owner][q]
        BY <4>1, PutFacts
      <4>7. \A u \in Tid : u # owner => table[u] = virtMemTable[u]
        BY <4>1, PutFacts
      <4> QED
        BY <4>2, <4>3, <4>4, <4>5, <4>6, <4>7
    <3> QED
      BY <2>a, <3>2
  <2>7. table[t] # NULL /\ vpn \in DOMAIN table[t] /\ table[t][vpn] = -1
    <3>1. CASE t = owner
      BY <1>2, <2>6, <3>1
    <3>2. CASE t # owner
      BY <1>2, <2>6, <3>2
    <3> QED
      BY <3>1, <3>2
  <2> QED
    BY <2>2, <2>3, <2>5, <2>6, <2>7
<1> QED
  BY <1>4, <1>5

(* MemoryManager::pageFaultHandler keeps the tables matched. *)
LEMMA SpacesFault ==
  ASSUME A!AddrSpacesAssumption, SpacesInv, NEW t \in Tid, NEW vpn,
         A!PageFault(t, vpn)
  PROVE  SpacesInv'
<1>1. PICK f \in A!Frame, table \in [Tid -> A!PageTable \union {NULL}] :
        /\ A!LoadPage(t, vpn, f, table)
        /\ table[t] # NULL /\ vpn \in DOMAIN table[t] /\ table[t][vpn] = -1
        /\ Matched(table, framesInUse \ {f}, phyMemPageTable)
  BY FaultCases
<1> DEFINE rec == [mainThreadId |-> t, virtualPage |-> vpn]
<1>2. /\ virtMemTable' = [table EXCEPT ![t][vpn] = f]
      /\ framesInUse' = framesInUse \union {f}
      /\ phyMemPageTable' = [phyMemPageTable EXCEPT ![f] = rec]
      /\ lastUsedTimeTable' = [lastUsedTimeTable EXCEPT ![f] = totalTicks]
      /\ loadedAt' = [loadedAt EXCEPT ![f] = totalTicks]
      /\ virtPageNums' = virtPageNums /\ totalTicks' = totalTicks
  BY <1>1 DEF A!LoadPage, A!UpdatePageWeight
<1>3. SpacesTyped
  BY DEF SpacesInv
<1>4. vpn \in Int
  <2>1. PICK n \in Size : table[t] \in [0..(n - 1) -> A!Frame \union {-1}]
    <3>1. table[t] \in A!PageTable
      BY <1>1
    <3> QED
      BY <3>1 DEF A!PageTable
  <2> QED
    BY <1>1, <2>1
<1>5. rec \in Owner
  BY <1>4 DEF Owner
<1>6. virtMemTable' \in [Tid -> A!PageTable \union {NULL}]
  BY <1>1, <1>2, PutFacts
<1>7. SpacesTyped'
  <2> HIDE DEF rec
  <2> QED
    BY <1>2, <1>3, <1>5, <1>6 DEF SpacesTyped
<1>8. Matched(virtMemTable', framesInUse', phyMemPageTable')
  BY <1>1, <1>2, <1>3, LoadMatched DEF SpacesTyped
<1>9. loadedAt' = lastUsedTimeTable'
  BY <1>2 DEF SpacesInv
<1> QED
  BY <1>7, <1>8, <1>9 DEF SpacesInv

(* VirtMemManager::createAddrSpace makes a page table without a frame. *)
LEMMA SpacesCreate ==
  ASSUME A!AddrSpacesAssumption, SpacesInv, NEW t \in Tid, NEW n \in Size,
         A!CreateAddrSpace(t, n)
  PROVE  SpacesInv'
<1> DEFINE row == [p \in 0..(n - 1) |-> -1]
<1>1. /\ virtMemTable[t] = NULL
      /\ virtMemTable' = [virtMemTable EXCEPT ![t] = row]
      /\ virtPageNums' = virtPageNums + n
      /\ UNCHANGED <<framesInUse, phyMemPageTable, lastUsedTimeTable, totalTicks,
                     loadedAt>>
  BY DEF A!CreateAddrSpace, A!NewPageTable, A!phys
<1>2. row \in A!PageTable
  <2>1. row \in [0..(n - 1) -> A!Frame \union {-1}]
    OBVIOUS
  <2> QED
    BY <2>1 DEF A!PageTable
<1>3. \A p \in DOMAIN row : row[p] = -1
  OBVIOUS
<1>4. n \in Nat
  BY DEF A!AddrSpacesAssumption
<1> HIDE DEF row
<1>5. SpacesTyped'
  BY <1>1, <1>2, <1>4 DEF SpacesInv, SpacesTyped
<1>6. virtMemTable'[t] = row /\ \A u \in Tid : u # t => virtMemTable'[u] = virtMemTable[u]
  BY <1>1 DEF SpacesInv, SpacesTyped
<1>7. Matched(virtMemTable, framesInUse, phyMemPageTable)
  BY DEF SpacesInv
<1>8. Matched(virtMemTable', framesInUse, phyMemPageTable)
  <2>1. ASSUME NEW f \in framesInUse
        PROVE  LET u == phyMemPageTable[f].mainThreadId
                   p == phyMemPageTable[f].virtualPage
               IN  /\ u \in Tid /\ virtMemTable'[u] # NULL
                   /\ p \in DOMAIN virtMemTable'[u] /\ virtMemTable'[u][p] = f
    <3> DEFINE u == phyMemPageTable[f].mainThreadId
               p == phyMemPageTable[f].virtualPage
    <3>1. /\ u \in Tid /\ virtMemTable[u] # NULL
          /\ p \in DOMAIN virtMemTable[u] /\ virtMemTable[u][p] = f
      BY <1>7 DEF Matched
    <3>2. virtMemTable'[u] = virtMemTable[u]
      BY <1>1, <1>6, <3>1
    <3> QED
      BY <3>1, <3>2
  <2>2. ASSUME NEW u \in Tid, virtMemTable'[u] # NULL,
               NEW p \in DOMAIN virtMemTable'[u], virtMemTable'[u][p] # -1
        PROVE  /\ virtMemTable'[u][p] \in framesInUse
               /\ phyMemPageTable[virtMemTable'[u][p]] =
                    [mainThreadId |-> u, virtualPage |-> p]
    <3>1. u # t
      BY <1>3, <1>6, <2>2
    <3> QED
      BY <1>6, <1>7, <2>2, <3>1 DEF Matched
  <2> QED
    BY <2>1, <2>2 DEF Matched
<1> QED
  BY <1>1, <1>5, <1>8 DEF SpacesInv

(* VirtMemManager::deleteAddrSpace frees the frames of its own pages. *)
LEMMA SpacesDelete ==
  ASSUME A!AddrSpacesAssumption, SpacesInv, NEW t \in Tid, A!DeleteAddrSpace(t)
  PROVE  SpacesInv'
<1>1. /\ virtMemTable[t] # NULL
      /\ framesInUse' = framesInUse \ A!FramesOf(t)
      /\ virtMemTable' = [virtMemTable EXCEPT ![t] = NULL]
      /\ UNCHANGED <<virtPageNums, phyMemPageTable, lastUsedTimeTable,
                     totalTicks, loadedAt>>
  BY DEF A!DeleteAddrSpace
<1>2. /\ \A p \in DOMAIN virtMemTable[t] :
           virtMemTable[t][p] # -1 => virtMemTable[t][p] \in A!FramesOf(t)
      /\ \A f \in A!FramesOf(t) : /\ f # -1
                                  /\ \E p \in DOMAIN virtMemTable[t] :
                                       virtMemTable[t][p] = f
  BY DEF A!FramesOf, A!Pages
<1>3. SpacesTyped'
  BY <1>1 DEF SpacesInv, SpacesTyped
<1>4. virtMemTable'[t] = NULL /\ \A u \in Tid : u # t => virtMemTable'[u] = virtMemTable[u]
  BY <1>1 DEF SpacesInv, SpacesTyped
<1>5. /\ Matched(virtMemTable, framesInUse, phyMemPageTable)
      /\ framesInUse \subseteq A!Frame /\ -1 \notin A!Frame
  BY DEF A!AddrSpacesAssumption, SpacesInv, SpacesTyped, A!Frame
<1>6. Matched(virtMemTable', framesInUse', phyMemPageTable)
  <2>1. ASSUME NEW f \in framesInUse'
        PROVE  LET u == phyMemPageTable[f].mainThreadId
                   p == phyMemPageTable[f].virtualPage
               IN  /\ u \in Tid /\ virtMemTable'[u] # NULL
                   /\ p \in DOMAIN virtMemTable'[u] /\ virtMemTable'[u][p] = f
    <3> DEFINE u == phyMemPageTable[f].mainThreadId
               p == phyMemPageTable[f].virtualPage
    <3>1. /\ u \in Tid /\ virtMemTable[u] # NULL
          /\ p \in DOMAIN virtMemTable[u] /\ virtMemTable[u][p] = f
          /\ f # -1 /\ f \notin A!FramesOf(t)
      BY <1>1, <1>5 DEF Matched
    <3>2. virtMemTable'[u] = virtMemTable[u]
      BY <1>2, <1>4, <3>1
    <3> QED
      BY <3>1, <3>2
  <2>2. ASSUME NEW u \in Tid, virtMemTable'[u] # NULL,
               NEW p \in DOMAIN virtMemTable'[u], virtMemTable'[u][p] # -1
        PROVE  /\ virtMemTable'[u][p] \in framesInUse'
               /\ phyMemPageTable[virtMemTable'[u][p]] =
                    [mainThreadId |-> u, virtualPage |-> p]
    <3> DEFINE g == virtMemTable[u][p]
    <3>1. u # t /\ virtMemTable'[u] = virtMemTable[u]
      BY <1>4, <2>2
    <3>2. /\ g \in framesInUse
          /\ phyMemPageTable[g] = [mainThreadId |-> u, virtualPage |-> p]
      BY <1>5, <2>2, <3>1 DEF Matched
    <3>3. g \notin A!FramesOf(t)
      <4> SUFFICES ASSUME g \in A!FramesOf(t) PROVE FALSE
        OBVIOUS
      <4> HIDE DEF g
      <4>1. PICK q \in DOMAIN virtMemTable[t] : virtMemTable[t][q] = g /\ g # -1
        BY <1>2
      <4>2. phyMemPageTable[g] = [mainThreadId |-> t, virtualPage |-> q]
        BY <1>1, <1>5, <4>1 DEF Matched
      <4>3. phyMemPageTable[g].mainThreadId = t
        BY <4>2
      <4>4. phyMemPageTable[g].mainThreadId = u
        BY <3>2
      <4> QED
        BY <3>1, <4>3, <4>4
    <3> QED
      BY <1>1, <3>1, <3>2, <3>3
  <2> QED
    BY <2>1, <2>2 DEF Matched
<1> QED
  BY <1>1, <1>3, <1>6 DEF SpacesInv

(* The managers start without address spaces. *)
LEMMA SpacesInitInv == A!AddrSpacesAssumption /\ A!Init => SpacesInv
<1> SUFFICES ASSUME A!AddrSpacesAssumption, A!Init PROVE SpacesInv
  OBVIOUS
<1>1. [mainThreadId |-> -1, virtualPage |-> -1] \in Owner
  BY DEF Owner
<1>2. SpacesTyped
  BY <1>1 DEF A!Init, SpacesTyped
<1>3. Matched(virtMemTable, framesInUse, phyMemPageTable)
  BY DEF A!Init, Matched
<1> QED
  BY <1>2, <1>3 DEF A!Init, SpacesInv

(* Every step keeps the invariant. *)
LEMMA SpacesNextInv ==
  A!AddrSpacesAssumption /\ SpacesInv /\ [A!Next]_(A!vars) => SpacesInv'
<1> SUFFICES ASSUME A!AddrSpacesAssumption, SpacesInv, [A!Next]_(A!vars)
             PROVE  SpacesInv'
  OBVIOUS
<1>1. CASE A!Tick
  <2>1. /\ totalTicks' = totalTicks + 1
        /\ UNCHANGED <<virtMemTable, virtPageNums, framesInUse, phyMemPageTable,
                       lastUsedTimeTable, loadedAt>>
    BY <1>1 DEF A!Tick, A!phys
  <2>2. SpacesTyped'
    BY <2>1 DEF SpacesInv, SpacesTyped
  <2> QED
    BY <2>1, <2>2 DEF SpacesInv, Matched
<1>2. CASE UNCHANGED A!vars
  BY <1>2 DEF A!vars, A!phys, SpacesInv, SpacesTyped, Matched
<1>3. CASE \E t \in Tid : \E p : A!PageFault(t, p)
  BY <1>3, SpacesFault
<1>4. CASE \E t \in Tid, n \in Size : A!CreateAddrSpace(t, n)
  BY <1>4, SpacesCreate
<1>5. CASE \E t \in Tid : A!DeleteAddrSpace(t)
  BY <1>5, SpacesDelete
<1> QED
  BY <1>1, <1>2, <1>3, <1>4, <1>5 DEF A!Next

(* The two statements of the correspondence. *)
LEMMA MatchedBelong ==
  ASSUME A!AddrSpacesAssumption, SpacesInv
  PROVE  A!FramesBelongToPages
<1> DEFINE live == {t \in Tid : virtMemTable[t] # NULL}
           holders(f) == UNION {{<<t, p>> : p \in {q \in A!Pages(t) :
                                   virtMemTable[t][q] = f}} : t \in live}
<1>1. /\ Matched(virtMemTable, framesInUse, phyMemPageTable)
      /\ -1 \notin A!Frame
  BY DEF A!AddrSpacesAssumption, SpacesInv, A!Frame
<1>2. \A f, h : h \in holders(f) <=>
        \E t \in Tid : /\ virtMemTable[t] # NULL
                       /\ \E p \in DOMAIN virtMemTable[t] :
                            virtMemTable[t][p] = f /\ h = <<t, p>>
  BY DEF A!Pages
<1>3. ASSUME NEW f \in A!Frame
      PROVE  holders(f) = IF f \in framesInUse
                          THEN {<<phyMemPageTable[f].mainThreadId,
                                  phyMemPageTable[f].virtualPage>>}
                          ELSE {}
  <2> HIDE DEF holders
  <2>1. ASSUME NEW h \in holders(f)
        PROVE  /\ f \in framesInUse
               /\ h = <<phyMemPageTable[f].mainThreadId,
                        phyMemPageTable[f].virtualPage>>
    <3>1. PICK t \in Tid : /\ virtMemTable[t] # NULL
                           /\ \E p \in DOMAIN virtMemTable[t] :
                                virtMemTable[t][p] = f /\ h = <<t, p>>
      BY <1>2
    <3>2. PICK p \in DOMAIN virtMemTable[t] : virtMemTable[t][p] = f /\ h = <<t, p>>
      BY <3>1
    <3>3. /\ f \in framesInUse
          /\ phyMemPageTable[f] = [mainThreadId |-> t, virtualPage |-> p]
      BY <1>1, <3>1, <3>2 DEF Matched
    <3> QED
      BY <3>2, <3>3
  <2>2. ASSUME f \in framesInUse
        PROVE  <<phyMemPageTable[f].mainThreadId, phyMemPageTable[f].virtualPage>>
                 \in holders(f)
    <3> DEFINE t == phyMemPageTable[f].mainThreadId
               p == phyMemPageTable[f].virtualPage
    <3>1. /\ t \in Tid /\ virtMemTable[t] # NULL
          /\ p \in DOMAIN virtMemTable[t] /\ virtMemTable[t][p] = f
      BY <1>1, <2>2 DEF Matched
    <3> HIDE DEF t, p
    <3>2. <<t, p>> \in holders(f)
      BY <1>2, <3>1
    <3> QED
      BY <3>2 DEF t, p
  <2> QED
    BY <2>1, <2>2
<1> QED
  BY <1>3 DEF A!FramesBelongToPages

(* The run's behaviours are behaviours of both components. *)
LEMMA BothSpecs == MemorySpec => Spec /\ A!Spec
<1>1. MemoryInit => Init /\ A!Init
  BY DEF MemoryInit
<1>2. [MemoryNext]_<<part, vars, spaces>> => [Next]_vars /\ [A!Next]_(A!vars)
  BY DEF MemoryNext, spaces, A!vars, A!phys
<1> QED
  BY <1>1, <1>2, PTL DEF MemorySpec, Spec, A!Spec

LEMMA SpacesInvariance == A!Spec => []SpacesInv
<1>1. A!Init => SpacesInv
  BY AddrSpacesAssumed, SpacesInitInv
<1>2. SpacesInv /\ [A!Next]_(A!vars) => SpacesInv'
  BY AddrSpacesAssumed, SpacesNextInv
<1> QED
  BY <1>1, <1>2, PTL DEF A!Spec

(* Whatever pages are swapped and whatever address spaces are created and  *)
(* deleted, a frame is in use exactly if one page of one address space has *)
(* it and the frame table of PhyMemManager names that page.                *)
THEOREM FramesOfAllSpaces == MemorySpec => []FramesBelongToPages
<1>1. IInv => FramesMatchPages
  BY DEF IInv
<1>2. SpacesInv => A!FramesBelongToPages
  BY AddrSpacesAssumed, MatchedBelong
<1> QED
  BY <1>1, <1>2, BothSpecs, Invariance, SpacesInvariance, PTL
     DEF FramesBelongToPages

(* What a step must do for a page to lose its frame to another. *)
Replacing ==
  \A f \in A!Frame :
    f \in framesInUse /\ f \in framesInUse'
      /\ phyMemPageTable'[f] # phyMemPageTable[f] =>
         \A g \in framesInUse : loadedAt[f] <= loadedAt[g]

(* SwappingLRU is first-in first-out: the page that loses its frame has    *)
(* been in memory for as long as any other.                                *)
THEOREM SwappingIsFifo == MemorySpec => OldestIsReplaced
<1>1. SpacesInv /\ [A!Next]_(A!vars) => Replacing
  <2> SUFFICES ASSUME SpacesInv, [A!Next]_(A!vars), NEW f \in A!Frame,
                      f \in framesInUse, phyMemPageTable'[f] # phyMemPageTable[f]
               PROVE  \A g \in framesInUse : loadedAt[f] <= loadedAt[g]
    BY DEF Replacing
  <2>1. \E t \in Tid : \E p : A!PageFault(t, p)
    BY DEF A!Next, A!CreateAddrSpace, A!DeleteAddrSpace, A!Tick, A!phys, A!vars
  <2>2. PICK t \in Tid : \E p : A!PageFault(t, p)
    BY <2>1
  <2>3. PICK p : A!PageFault(t, p)
    BY <2>2
  <2>4. PICK e \in A!Frame :
          \E table :
            /\ A!LoadPage(t, p, e, table)
            /\ e \in framesInUse =>
                 \A g \in A!Frame : lastUsedTimeTable[e] <= lastUsedTimeTable[g]
    BY <2>3, AddrSpacesAssumed, FaultCases
  <2>5. f = e
    BY <2>4 DEF A!LoadPage, SpacesInv, SpacesTyped
  <2> QED
    BY <2>4, <2>5 DEF SpacesInv, SpacesTyped
<1>2. Replacing <=>
        \A f \in A!Frame :
          f \in framesInUse /\ f \in framesInUse'
            /\ phyMemPageTable'[f] # phyMemPageTable[f] =>
               \A g \in framesInUse : loadedAt[f] <= loadedAt[g]
  BY DEF Replacing
<1> QED
  BY <1>1, <1>2, BothSpecs, SpacesInvariance, PTL
     DEF A!Spec, OldestIsReplaced, A!OldestIsReplaced
=============================================================================
