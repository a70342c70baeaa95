-------------------------- MODULE FileSysProofs --------------------------
(***************************************************************************)
(* Proofs about the file system on the disk (FileSys), for any number and  *)
(* size of sectors, any number of direct sectors and of entries of a       *)
(* directory, any paths and any data.                                      *)
(***************************************************************************)
EXTENDS FileSys, ListsProofs, FiniteSetTheorems

(* The headers on the disk, and the type of a header. *)
HeadersOn(d) == {s \in Sector : d[s].kind = "header"}
HeaderType == {"TYPE_FILE", "TYPE_DIR", "TYPE_PIPE"}
HeaderRecord ==
  [kind : {"header"}, self : Sector, type : HeaderType, limit : Nat,
   nsectors : 0..(NumDirect + NumInDirect), data : [1..(NumDirect + 1) -> Nat]]

(* The indirect block, if the header has one. *)
Indirect(h) == h.data[NumDirect + 1]
HasIndirect(h) == h.nsectors > NumDirect

(* The entries of the indirect block are sectors as far as they are used,  *)
(* and 0 behind that.                                                      *)
IndirectOk(d, h) ==
  IF HasIndirect(h)
  THEN /\ Indirect(h) \in Sector \ {0}
       /\ d[Indirect(h)].kind = "words"
       /\ DOMAIN d[Indirect(h)].words = 1..SectorSize
       /\ \A i \in 1..SectorSize :
            IF i <= h.nsectors - NumDirect
            THEN d[Indirect(h)].words[i][2] \in Sector \ {0}
            ELSE d[Indirect(h)].words[i][2] = 0
  ELSE Indirect(h) = 0

(* What a header owns, numbered: the sectors of its data, the one it is in *)
(* and the indirect block.                                                 *)
Slots(h) == 0..(IF HasIndirect(h) THEN h.nsectors + 1 ELSE h.nsectors)
SlotAt(d, h, n) ==
  IF n < h.nsectors THEN ByteToSector(d, h, n)
  ELSE IF n = h.nsectors THEN h.self ELSE Indirect(h)
OwnedBy(d, h) == {SlotAt(d, h, n) : n \in Slots(h)}

HeaderOk(d, h) ==
  /\ h \in HeaderRecord /\ h.limit <= FileCapacity(h)
  /\ IndirectOk(d, h)
  /\ \A n \in Slots(h) : SlotAt(d, h, n) \in Sector
  /\ \A m, n \in Slots(h) : SlotAt(d, h, m) = SlotAt(d, h, n) => m = n

(* A directory has the sectors for its table and knows where it is. *)
DirOn(d) == {s \in HeadersOn(d) : d[s].type = "TYPE_DIR"}
DirOk(d, s) ==
  /\ d[s].nsectors = DirSectors /\ d[s].limit = NumDirEntries + 1
  /\ FetchDirectory(d, d[s]).sector = s
EntryAt(d, s, i) == FetchDirectory(d, d[s]).table[i]
EntriesOk(d) ==
  /\ \A s \in DirOn(d), i \in 1..NumDirEntries :
       EntryAt(d, s, i)[1] # NULL =>
         EntryAt(d, s, i)[2] \in HeadersOn(d) \ Reserved
  /\ \A s, t \in DirOn(d), i, j \in 1..NumDirEntries :
       /\ EntryAt(d, s, i)[1] # NULL /\ EntryAt(d, t, j)[1] # NULL
       /\ EntryAt(d, s, i)[2] = EntryAt(d, t, j)[2]
       => s = t /\ i = j

HeadersOk(d) ==
  /\ \A s \in HeadersOn(d) :
       /\ d[s].self = s /\ HeaderOk(d, d[s])
       /\ OwnedBy(d, d[s]) \subseteq FetchMap(d)
  /\ \A s, t \in HeadersOn(d) :
       s # t => OwnedBy(d, d[s]) \intersect OwnedBy(d, d[t]) = {}

SectorsOk(d) ==
  /\ DOMAIN d = Sector
  /\ d[FreeMapSector] = freeMapHdr /\ d[DirectorySector] = directoryHdr
  /\ PipeSector \in HeadersOn(d) /\ d[PipeSector].type = "TYPE_PIPE"
  /\ FetchMap(d) \subseteq Sector
  /\ HeadersOk(d)
  /\ \A s \in DirOn(d) : DirOk(d, s)

DiskOk(d) == SectorsOk(d) /\ EntriesOk(d)

FsInv ==
  /\ DiskOk(disk)
  /\ machine \in {"up", "aborted"}
  /\ machine = "up" /\ file # NULL =>
       /\ file = [hdr |-> file.hdr, seekPosition |-> file.seekPosition]
       /\ file.seekPosition \in Nat
       /\ file.hdr.self \in HeadersOn(disk) \ Reserved
       /\ file.hdr = disk[file.hdr.self]

-----------------------------------------------------------------------------
LEMMA RoundUp ==
  ASSUME NEW n \in Nat, NEW b \in Nat \ {0}
  PROVE  /\ divRoundUp(n, b) \in Nat
         /\ divRoundUp(n, b) = 0 <=> n = 0
         /\ \A q \in Int : q = divRoundUp(n, b) => n <= q * b /\ q * b < n + b
<1>1. n + b - 1 \in Int
  OBVIOUS
<1>2. PICK q \in Int : q = (n + b - 1) \div b
  BY <1>1, DivMod
<1>3. PICK r \in Int : r = (n + b - 1) % b /\ 0 <= r /\ r < b
  BY <1>1, DivMod
<1>4. n + b - 1 = q * b + r
  BY <1>1, <1>2, <1>3, DivMod
<1>5. PICK p \in Int : p = q * b
  OBVIOUS
<1>6. n <= p /\ p < n + b
  BY <1>3, <1>4, <1>5
<1>7. q >= 0
  <2> SUFFICES ASSUME q <= -1 PROVE FALSE
    OBVIOUS
  <2>1. q * b <= (-1) * b
    OBVIOUS
  <2> QED
    BY <1>5, <1>6, <2>1
<1>8. q = 0 => n = 0
  BY <1>5, <1>6
<1>9. n = 0 => q = 0
  <2> SUFFICES ASSUME n = 0, q >= 1 PROVE FALSE
    BY <1>7
  <2>1. q * b >= b
    OBVIOUS
  <2> QED
    BY <1>5, <1>6, <2>1
<1> QED
  BY <1>2, <1>5, <1>6, <1>7, <1>8, <1>9 DEF divRoundUp

LEMMA ConstantFacts ==
  /\ SectorSize \in Nat \ {0} /\ SectorSize \in Nat /\ SectorSize > 0
  /\ NumDirect \in Nat /\ NumDirect > 0
  /\ NumDirEntries \in Nat /\ NumDirEntries > 0
  /\ DirSectors \in Nat /\ DirSectors > 0 /\ DirSectors <= NumDirect
  /\ NumDirEntries + 1 <= DirSectors * SectorSize
  /\ NumSectors \in Nat /\ NumSectors > 5 + DirSectors
  /\ NumInDirect = SectorSize
<1>1. /\ SectorSize \in Nat \ {0} /\ NumDirect \in Nat /\ NumDirEntries \in Nat
      /\ NumSectors \in Nat /\ NumSectors > 5 + DirSectors
      /\ DirSectors <= NumDirect
      /\ NumDirEntries + 1 <= DirSectors * SectorSize
  BY FileSysAssumption DEF DirectoryFileSize
<1>2. DirSectors = divRoundUp(NumDirEntries, SectorSize)
  BY DEF DirSectors, DirectoryFileSize
<1>3. DirSectors \in Nat /\ (DirSectors = 0 <=> NumDirEntries = 0)
  BY <1>1, <1>2, RoundUp
<1>4. DirSectors # 0
  <2> SUFFICES ASSUME DirSectors = 0 PROVE FALSE
    OBVIOUS
  <2>1. DirSectors * SectorSize = 0
    BY <1>1
  <2> QED
    BY <1>1, <2>1
<1> QED
  BY <1>1, <1>3, <1>4 DEF NumInDirect

LEMMA SectorFacts ==
  /\ Sector = 0..(NumSectors - 1) /\ Sector \subseteq Nat
  /\ Reserved = {0, 1, 2} /\ {0, 1, 2, 3, 4} \subseteq Sector
  /\ freeMapHdr.data[1] = 3
<1>1. freeMapHdr.data[1] = 3
  BY ConstantFacts DEF freeMapHdr, Formatted, FileHeader
<1> QED
  BY <1>1, ConstantFacts
  DEF Sector, Reserved, FreeMapSector, DirectorySector, PipeSector

(* What a sector of words holds. *)
LEMMA WordsFacts ==
  ASSUME NEW f, DOMAIN f = 1..SectorSize, f = [i \in 1..SectorSize |-> f[i]]
  PROVE  /\ Words(f).kind = "words" /\ DOMAIN Words(f).words = 1..SectorSize
         /\ \A i \in 1..SectorSize : Words(f).words[i] = f[i]
<1> DEFINE S == {f[i] : i \in 1..SectorSize}
<1>1. f \in Seq(S) /\ Len(f) = SectorSize /\ SectorSize \in Nat
  <2>1. f \in [1..SectorSize -> S] /\ SectorSize \in Nat
    BY ConstantFacts
  <2> HIDE DEF S
  <2> QED
    BY <2>1
<1> HIDE DEF S
<1>2. /\ Len(SubSeq(f, 1, SectorSize)) = SectorSize
      /\ SubSeq(f, 1, SectorSize) \in Seq(S)
      /\ \A i \in 1..SectorSize : SubSeq(f, 1, SectorSize)[i] = f[i]
  BY <1>1
<1> QED
  BY <1>1, <1>2 DEF Words

(* WriteMap changes the sector of the map and the clear sectors. *)
LEMMA WriteMapFacts ==
  ASSUME NEW d, DOMAIN d = Sector, NEW used, used \subseteq Sector,
         d[0] = freeMapHdr, {0, 3} \subseteq used,
         NEW e, e = WriteMap(d, used)
  PROVE  /\ DOMAIN e = Sector /\ FetchMap(e) = used
         /\ \A s \in used \ {3} : e[s] = d[s]
         /\ \A s \in Sector \ used : e[s].kind = "words"
         /\ e[3].kind = "map"
<1>1. e[3] = Bits(used) /\ e[0] = d[0]
  BY SectorFacts DEF WriteMap, FreeMapSector
<1>2. DOMAIN e = Sector
  BY SectorFacts DEF WriteMap, FreeMapSector
<1>3. ASSUME NEW s \in used, s # 3 PROVE e[s] = d[s]
  BY <1>3, SectorFacts DEF WriteMap, FreeMapSector
<1>4. ASSUME NEW s \in Sector \ used
      PROVE  e[s].kind = "words"
  <2>1. e[s] = Words([i \in 1..SectorSize |-> Junk])
    BY SectorFacts DEF WriteMap, FreeMapSector
  <2> QED
    BY <2>1 DEF Words
<1>5. FetchMap(e) = used /\ e[3].kind = "map"
  BY <1>1, SectorFacts DEF FetchMap, Bits
<1> QED
  BY <1>2, <1>3, <1>4, <1>5

-----------------------------------------------------------------------------
(* What FindAndSet returns, call by call: clear sectors, each once.        *)
LEMMA CountStep ==
  ASSUME NEW used, NEW s \in Nat
  PROVE  /\ IsFiniteSet((0..s) \ used)
         /\ Cardinality((0..s) \ used) \in Nat
         /\ s \in used => (0..s) \ used = (0..(s - 1)) \ used
         /\ s \notin used =>
              Cardinality((0..s) \ used) = Cardinality((0..(s - 1)) \ used) + 1
         /\ IsFiniteSet((0..(s - 1)) \ used)
         /\ Cardinality((0..(s - 1)) \ used) \in Nat
<1>1. IsFiniteSet(0..s) /\ IsFiniteSet(0..(s - 1))
  BY FS_Interval
<1>2. IsFiniteSet((0..s) \ used) /\ IsFiniteSet((0..(s - 1)) \ used)
  BY <1>1, FS_Difference
<1>3. /\ Cardinality((0..s) \ used) \in Nat
      /\ Cardinality((0..(s - 1)) \ used) \in Nat
  BY <1>2, FS_CardinalityType
<1>4. s \in used => (0..s) \ used = (0..(s - 1)) \ used
  OBVIOUS
<1>5. ASSUME s \notin used
      PROVE  Cardinality((0..s) \ used) = Cardinality((0..(s - 1)) \ used) + 1
  <2>1. (0..s) \ used = ((0..(s - 1)) \ used) \union {s}
    BY <1>5
  <2>2. s \notin (0..(s - 1)) \ used
    OBVIOUS
  <2> QED
    BY <1>2, <2>1, <2>2, FS_AddElement
<1> QED
  BY <1>2, <1>3, <1>4, <1>5

LEMMA NthClearFacts ==
  ASSUME NEW used, NEW i \in Nat, i >= 1, i <= NumClear(used)
  PROVE  /\ NthClear(used, i) \in Sector \ used
         /\ Cardinality((0..NthClear(used, i)) \ used) = i
<1> DEFINE count(s) == Cardinality((0..s) \ used)
           Enough == {s \in Nat : count(s) >= i}
<1>1. NumSectors - 1 \in Nat /\ Sector \ used = (0..(NumSectors - 1)) \ used
  BY ConstantFacts, SectorFacts
<1>2. NumSectors - 1 \in Enough
  BY <1>1 DEF NumClear
<1>3. PICK m \in Enough : \A s \in Enough : m <= s
  BY <1>2, MinFacts
<1>4. m \in Nat /\ m <= NumSectors - 1 /\ count(m) >= i
  BY <1>2, <1>3
<1>5. m \notin used /\ count(m) = i
  <2>1. m = 0 => (0..(m - 1)) \ used = {}
    OBVIOUS
  <2>2. m = 0 => count(m - 1) = 0
    BY <2>1, FS_EmptySet
  <2>3. m # 0 => m - 1 \notin Enough
    BY <1>3, <1>4
  <2>4. count(m) \in Nat /\ count(m - 1) \in Nat
    BY <1>4, CountStep
  <2>5. count(m - 1) < i
    <3>1. CASE m = 0
      BY <2>2, <3>1
    <3>2. CASE m # 0
      <4>1. m - 1 \in Nat
        BY <1>4, <3>2
      <4>2. ~(count(m - 1) >= i)
        BY <2>3, <3>2, <4>1
      <4> HIDE DEF count
      <4> QED
        BY <2>4, <4>2
    <3> QED
      BY <3>1, <3>2
  <2>6. m \notin used
    BY <1>4, <2>5, <2>4, CountStep
  <2>7. count(m) = count(m - 1) + 1
    BY <1>4, <2>6, CountStep
  <2> QED
    BY <1>4, <2>5, <2>4, <2>6, <2>7
<1>6. m \in Sector \ used
  BY <1>1, <1>4, <1>5
<1>7. \E s \in Sector \ used : Cardinality((0..s) \ used) = i
  BY <1>5, <1>6
<1> QED
  BY <1>7 DEF NthClear

LEMMA NthClearDiffer ==
  ASSUME NEW used, NEW i \in Nat, i >= 1, i <= NumClear(used),
         NEW j \in Nat, j >= 1, j <= NumClear(used),
         NthClear(used, i) = NthClear(used, j)
  PROVE  i = j
<1>1. Cardinality((0..NthClear(used, i)) \ used) = i
  BY NthClearFacts
<1>2. Cardinality((0..NthClear(used, j)) \ used) = j
  BY NthClearFacts
<1> QED
  BY <1>1, <1>2

LEMMA NumClearFacts ==
  ASSUME NEW used
  PROVE  /\ NumClear(used) \in Nat
         /\ \A s \in Sector \ used :
              NumClear(used \union {s}) = NumClear(used) - 1
<1>1. IsFiniteSet(Sector)
  BY ConstantFacts, FS_Interval DEF Sector
<1>2. IsFiniteSet(Sector \ used)
  BY <1>1, FS_Difference
<1>3. ASSUME NEW s \in Sector \ used
      PROVE  NumClear(used \union {s}) = NumClear(used) - 1
  <2>1. Sector \ (used \union {s}) = (Sector \ used) \ {s}
    OBVIOUS
  <2> QED
    BY <1>2, <2>1, FS_RemoveElement DEF NumClear
<1> QED
  BY <1>2, <1>3, FS_CardinalityType DEF NumClear

-----------------------------------------------------------------------------
(* Headers and what they own.                                              *)
LEMMA BlockOf ==
  ASSUME NEW p \in Nat, NEW q \in Nat, p < q * SectorSize
  PROVE  /\ p \div SectorSize \in 0..(q - 1)
         /\ p % SectorSize \in 0..(SectorSize - 1)
<1>1. SectorSize \in Nat \ {0}
  BY ConstantFacts
<1>2. PICK b \in Int : b = p \div SectorSize
  BY <1>1, DivMod
<1>3. PICK r \in Int : r = p % SectorSize /\ 0 <= r /\ r < SectorSize
  BY <1>1, DivMod
<1>4. p = b * SectorSize + r
  BY <1>1, <1>2, <1>3, DivMod
<1>5. b >= 0
  <2> SUFFICES ASSUME b <= -1 PROVE FALSE
    OBVIOUS
  <2>1. b * SectorSize <= (-1) * SectorSize
    BY <1>1
  <2> QED
    BY <1>1, <1>3, <1>4, <2>1
<1>6. b < q
  <2> SUFFICES ASSUME b >= q PROVE FALSE
    OBVIOUS
  <2>1. b * SectorSize >= q * SectorSize
    BY <1>1
  <2>2. PICK x \in Int, y \in Int : x = b * SectorSize /\ y = q * SectorSize
    BY <1>1
  <2> QED
    BY <1>3, <1>4, <2>1, <2>2
<1>7. b \in 0..(q - 1)
  BY <1>5, <1>6
<1>8. r \in 0..(SectorSize - 1)
  BY <1>1, <1>3
<1>9. p \div SectorSize = b /\ p % SectorSize = r
  BY <1>2, <1>3
<1> QED
  BY <1>7, <1>8, <1>9

LEMMA RecordFacts ==
  ASSUME NEW h \in HeaderRecord
  PROVE  /\ h.kind = "header" /\ h.self \in Sector /\ h.limit \in Nat
         /\ h.type \in HeaderType
         /\ h.nsectors \in Nat /\ h.nsectors <= NumDirect + SectorSize
         /\ h.data \in [1..(NumDirect + 1) -> Nat]
         /\ \A n \in 1..(NumDirect + 1) : h.data[n] \in Nat
         /\ Indirect(h) \in Nat
         /\ HasIndirect(h) <=> h.nsectors > NumDirect
  BY ConstantFacts DEF HeaderRecord, Indirect, HasIndirect

LEMMA InDirectFacts ==
  ASSUME NEW d, NEW h \in HeaderRecord, IndirectOk(d, h)
  PROVE  /\ DOMAIN InDirect(d, h) = 1..SectorSize
         /\ \A i \in 1..SectorSize :
              IF i <= h.nsectors - NumDirect
              THEN /\ InDirect(d, h)[i] \in Sector \ {0}
                   /\ InDirect(d, h)[i] = d[Indirect(h)].words[i][2]
              ELSE InDirect(d, h)[i] = 0
<1>1. CASE HasIndirect(h)
  <2>1. InDirect(d, h) = Numbers(d[Indirect(h)].words)
    BY <1>1 DEF InDirect, IndirectOk, Indirect
  <2>2. /\ DOMAIN Numbers(d[Indirect(h)].words) = 1..SectorSize
        /\ \A i \in 1..SectorSize :
             Numbers(d[Indirect(h)].words)[i] = d[Indirect(h)].words[i][2]
    BY <1>1 DEF IndirectOk, Numbers
  <2> QED
    BY <1>1, <2>1, <2>2 DEF IndirectOk
<1>2. CASE ~HasIndirect(h)
  <2>1. InDirect(d, h) = [i \in 1..SectorSize |-> 0]
    BY <1>2, ConstantFacts DEF InDirect, IndirectOk, Indirect
  <2>2. ASSUME NEW i \in 1..SectorSize
        PROVE  ~(i <= h.nsectors - NumDirect)
    BY <1>2, RecordFacts, ConstantFacts
  <2> QED
    BY <2>1, <2>2
<1> QED
  BY <1>1, <1>2

(* Only the indirect block matters to what a header owns.                  *)
LEMMA HeaderFramed ==
  ASSUME NEW d, NEW e, NEW h \in HeaderRecord, IndirectOk(d, h),
         HasIndirect(h) => e[Indirect(h)] = d[Indirect(h)]
  PROVE  /\ IndirectOk(e, h) /\ InDirect(e, h) = InDirect(d, h)
         /\ \A n : /\ ByteToSector(e, h, n) = ByteToSector(d, h, n)
                   /\ SlotAt(e, h, n) = SlotAt(d, h, n)
         /\ OwnedBy(e, h) = OwnedBy(d, h)
         /\ HeaderOk(d, h) => HeaderOk(e, h)
<1>1. IndirectOk(e, h)
  BY DEF IndirectOk
<1>2. InDirect(e, h) = InDirect(d, h)
  <2>1. CASE HasIndirect(h)
    BY <2>1 DEF InDirect, Indirect
  <2>2. CASE ~HasIndirect(h)
    BY <2>2 DEF InDirect, IndirectOk, Indirect
  <2> QED
    BY <2>1, <2>2
<1>3. ASSUME NEW n
      PROVE  /\ ByteToSector(e, h, n) = ByteToSector(d, h, n)
             /\ SlotAt(e, h, n) = SlotAt(d, h, n)
  BY <1>2 DEF ByteToSector, SlotAt
<1>4. OwnedBy(e, h) = OwnedBy(d, h)
  BY <1>3 DEF OwnedBy
<1>5. HeaderOk(d, h) => HeaderOk(e, h)
  BY <1>1, <1>3 DEF HeaderOk
<1> QED
  BY <1>1, <1>2, <1>3, <1>4, <1>5

LEMMA SlotFacts ==
  ASSUME NEW d, NEW h, HeaderOk(d, h)
  PROVE  /\ h \in HeaderRecord /\ IndirectOk(d, h)
         /\ \A n \in 0..(h.nsectors - 1) :
              /\ ByteToSector(d, h, n) \in OwnedBy(d, h)
              /\ ByteToSector(d, h, n) \in Sector
              /\ ByteToSector(d, h, n) # h.self
              /\ HasIndirect(h) => ByteToSector(d, h, n) # Indirect(h)
         /\ \A m, n \in 0..(h.nsectors - 1) :
              ByteToSector(d, h, m) = ByteToSector(d, h, n) => m = n
         /\ h.self \in OwnedBy(d, h)
         /\ HasIndirect(h) => Indirect(h) \in OwnedBy(d, h) /\ Indirect(h) # h.self
         /\ OwnedBy(d, h) \subseteq Sector
         /\ OwnedBy(d, h) = {ByteToSector(d, h, n) : n \in 0..(h.nsectors - 1)}
              \union {h.self} \union (IF HasIndirect(h) THEN {Indirect(h)} ELSE {})
<1>1. h \in HeaderRecord /\ h.nsectors \in Nat /\ IndirectOk(d, h)
  BY RecordFacts DEF HeaderOk
<1>2. /\ 0..(h.nsectors - 1) \subseteq Slots(h) /\ h.nsectors \in Slots(h)
      /\ HasIndirect(h) => h.nsectors + 1 \in Slots(h)
      /\ Slots(h) = 0..(h.nsectors - 1) \union {h.nsectors}
           \union (IF HasIndirect(h) THEN {h.nsectors + 1} ELSE {})
  BY <1>1 DEF Slots
<1>3. /\ \A n \in 0..(h.nsectors - 1) : SlotAt(d, h, n) = ByteToSector(d, h, n)
      /\ SlotAt(d, h, h.nsectors) = h.self
      /\ SlotAt(d, h, h.nsectors + 1) = Indirect(h)
  BY <1>1 DEF SlotAt
<1>4. /\ \A n \in Slots(h) : SlotAt(d, h, n) \in Sector
      /\ \A m, n \in Slots(h) : SlotAt(d, h, m) = SlotAt(d, h, n) => m = n
  BY DEF HeaderOk
<1>5. ASSUME NEW n \in 0..(h.nsectors - 1)
      PROVE  /\ ByteToSector(d, h, n) \in OwnedBy(d, h)
             /\ ByteToSector(d, h, n) \in Sector
             /\ ByteToSector(d, h, n) # h.self
             /\ HasIndirect(h) => ByteToSector(d, h, n) # Indirect(h)
  <2>1. n \in Slots(h) /\ SlotAt(d, h, n) = ByteToSector(d, h, n)
    BY <1>2, <1>3
  <2>2. n # h.nsectors /\ n # h.nsectors + 1
    BY <1>1
  <2> QED
    BY <1>2, <1>3, <1>4, <2>1, <2>2 DEF OwnedBy
<1>6. /\ h.self \in OwnedBy(d, h)
      /\ HasIndirect(h) => Indirect(h) \in OwnedBy(d, h) /\ Indirect(h) # h.self
  <2>1. h.nsectors # h.nsectors + 1
    BY <1>1
  <2> QED
    BY <1>2, <1>3, <1>4, <2>1 DEF OwnedBy
<1>7. \A m, n \in 0..(h.nsectors - 1) :
        ByteToSector(d, h, m) = ByteToSector(d, h, n) => m = n
  BY <1>2, <1>3, <1>4
<1>8. OwnedBy(d, h) = {ByteToSector(d, h, n) : n \in 0..(h.nsectors - 1)}
        \union {h.self} \union (IF HasIndirect(h) THEN {Indirect(h)} ELSE {})
  BY <1>2, <1>3 DEF OwnedBy
<1> QED
  BY <1>1, <1>4, <1>5, <1>6, <1>7, <1>8 DEF OwnedBy

(* What is read depends on the sectors of the data only.                   *)
LEMMA ReadFramed ==
  ASSUME NEW d, NEW e, NEW h, HeaderOk(d, h),
         HasIndirect(h) => e[Indirect(h)] = d[Indirect(h)],
         \A n \in 0..(h.nsectors - 1) :
           e[ByteToSector(d, h, n)] = d[ByteToSector(d, h, n)]
  PROVE  /\ \A p \in Nat : p < h.limit => WordAt(e, h, p) = WordAt(d, h, p)
         /\ FetchDirectory(e, h) = FetchDirectory(d, h)
<1>1. h \in HeaderRecord /\ IndirectOk(d, h) /\ h.limit <= FileCapacity(h)
  BY DEF HeaderOk
<1>2. h.nsectors \in Nat /\ h.limit \in Nat
  BY <1>1, RecordFacts
<1>3. ASSUME NEW p \in Nat, p < h.limit PROVE WordAt(e, h, p) = WordAt(d, h, p)
  <2>1. PICK y \in Int : y = h.nsectors * SectorSize
    BY <1>2, ConstantFacts
  <2>2. p < h.nsectors * SectorSize
    BY <1>1, <1>2, <1>3, <2>1 DEF FileCapacity
  <2>3. PICK b : b = p \div SectorSize /\ b \in 0..(h.nsectors - 1)
    BY <1>2, <2>2, BlockOf
  <2>4. ByteToSector(e, h, b) = ByteToSector(d, h, b)
    BY <1>1, HeaderFramed
  <2> QED
    BY <2>3, <2>4 DEF WordAt
<1>4. ReadAt(e, h, NumDirEntries + 1, 0) = ReadAt(d, h, NumDirEntries + 1, 0)
  <2>1. CASE 0 >= h.limit
    BY <2>1 DEF ReadAt
  <2>2. CASE 0 < h.limit
    <3>1. PICK n : n = Min({NumDirEntries + 1, h.limit - 0})
      OBVIOUS
    <3>2. n \in Nat /\ n <= h.limit
      <4>1. {NumDirEntries + 1, h.limit - 0} \subseteq Nat
        BY <1>2, ConstantFacts
      <4> QED
        BY <1>2, <3>1, <4>1, MinFacts
    <3>3. \A i \in 1..n : WordAt(e, h, 0 + i - 1) = WordAt(d, h, 0 + i - 1)
      <4>1. ASSUME NEW i \in 1..n PROVE 0 + i - 1 \in Nat /\ 0 + i - 1 < h.limit
        BY <1>2, <3>2
      <4> QED
        BY <1>3, <4>1
    <3>4. [i \in 1..n |-> WordAt(e, h, 0 + i - 1)] =
            [i \in 1..n |-> WordAt(d, h, 0 + i - 1)]
      BY <3>3
    <3>5. ~(0 >= h.limit)
      BY <1>2, <2>2
    <3> QED
      BY <3>1, <3>4, <3>5 DEF ReadAt
  <2> QED
    BY <1>2, <2>1, <2>2
<1> QED
  BY <1>3, <1>4 DEF FetchDirectory

-----------------------------------------------------------------------------
(* Writing the sectors of a file.                                          *)
LEMMA PositionFacts ==
  ASSUME NEW p \in Nat
  PROVE  /\ p \div SectorSize \in Nat /\ p % SectorSize \in 0..(SectorSize - 1)
         /\ \E a \in Nat, r \in 0..(SectorSize - 1) :
              a = p \div SectorSize /\ r = p % SectorSize /\ p = a * SectorSize + r
<1>1. SectorSize \in Nat \ {0}
  BY ConstantFacts
<1>2. PICK b \in Int : b = p \div SectorSize
  BY <1>1, DivMod
<1>3. PICK r \in Int : r = p % SectorSize /\ 0 <= r /\ r < SectorSize
  BY <1>1, DivMod
<1>4. p = b * SectorSize + r
  BY <1>1, <1>2, <1>3, DivMod
<1>5. b >= 0
  <2> SUFFICES ASSUME b <= -1 PROVE FALSE
    OBVIOUS
  <2>1. b * SectorSize <= (-1) * SectorSize
    BY <1>1
  <2> QED
    BY <1>1, <1>3, <1>4, <2>1
<1>6. p \div SectorSize = b /\ p % SectorSize = r
  BY <1>2, <1>3
<1>7. b \in Nat /\ r \in 0..(SectorSize - 1)
  BY <1>1, <1>3, <1>5
<1>8. \E a \in Nat, x \in 0..(SectorSize - 1) :
        a = p \div SectorSize /\ x = p % SectorSize /\ p = a * SectorSize + x
  BY <1>4, <1>6, <1>7
<1> QED
  BY <1>6, <1>7, <1>8

LEMMA DivMonotone ==
  ASSUME NEW p \in Nat, NEW q \in Nat, p <= q
  PROVE  p \div SectorSize <= q \div SectorSize
<1>1. SectorSize \in Nat \ {0}
  BY ConstantFacts
<1>2. PICK a \in Nat, r \in 0..(SectorSize - 1) :
        a = p \div SectorSize /\ p = a * SectorSize + r
  BY PositionFacts
<1>3. PICK b \in Nat, s \in 0..(SectorSize - 1) :
        b = q \div SectorSize /\ q = b * SectorSize + s
  BY PositionFacts
<1>4. a <= b
  <2> SUFFICES ASSUME a >= b + 1 PROVE FALSE
    OBVIOUS
  <2>1. a * SectorSize >= (b + 1) * SectorSize
    BY <1>1
  <2>2. (b + 1) * SectorSize = b * SectorSize + SectorSize
    BY <1>1
  <2>3. PICK x \in Int, y \in Int : x = a * SectorSize /\ y = b * SectorSize
    BY <1>1
  <2> QED
    BY <1>1, <1>2, <1>3, <2>1, <2>2, <2>3
<1> QED
  BY <1>2, <1>3, <1>4

LEMMA ModifiedFacts ==
  ASSUME NEW d, NEW h, NEW words, NEW position \in Nat, NEW p \in Nat,
         NEW m, m = Modified(d, h, words, position, p \div SectorSize)
  PROVE  /\ m.kind = "words" /\ DOMAIN m.words = 1..SectorSize
         /\ m.words[(p % SectorSize) + 1] =
              IF p - position \in 0..(Len(words) - 1)
              THEN words[(p - position) + 1]
              ELSE IF p < position THEN WordAt(d, h, p) ELSE Junk
<1> DEFINE at(j) == (p \div SectorSize) * SectorSize + j - 1 - position
           word(j) == IF at(j) \in 0..(Len(words) - 1) THEN words[at(j) + 1]
                      ELSE IF at(j) < 0 THEN WordAt(d, h, position + at(j))
                      ELSE Junk
           f == [j \in 1..SectorSize |-> word(j)]
<1>1. m = Words(f)
  BY DEF Modified
<1>2. at((p % SectorSize) + 1) = p - position
  <2>1. PICK a \in Nat, b \in 0..(SectorSize - 1) :
          a = p \div SectorSize /\ b = p % SectorSize /\ p = a * SectorSize + b
    BY PositionFacts
  <2>2. PICK x \in Int, r \in Int :
          /\ x = (p \div SectorSize) * SectorSize /\ r = p % SectorSize
          /\ p = x + r
    BY <2>1, ConstantFacts
  <2>3. x + (r + 1) - 1 - position = p - position
    BY <2>2
  <2> QED
    BY <2>2, <2>3
<1>3. position + (p - position) = p /\ (p - position < 0 <=> p < position)
  OBVIOUS
<1>4. (p % SectorSize) + 1 \in 1..SectorSize
  BY PositionFacts, ConstantFacts
<1> HIDE DEF at
<1>5. word((p % SectorSize) + 1) =
        IF p - position \in 0..(Len(words) - 1) THEN words[(p - position) + 1]
        ELSE IF p < position THEN WordAt(d, h, p) ELSE Junk
  BY <1>2, <1>3
<1> HIDE DEF word
<1>6. DOMAIN f = 1..SectorSize /\ f = [j \in 1..SectorSize |-> f[j]]
  OBVIOUS
<1>7. f[(p % SectorSize) + 1] = word((p % SectorSize) + 1)
  BY <1>4
<1> HIDE DEF f
<1>8. /\ Words(f).kind = "words" /\ DOMAIN Words(f).words = 1..SectorSize
      /\ \A i \in 1..SectorSize : Words(f).words[i] = f[i]
  BY <1>6, WordsFacts
<1> QED
  BY <1>1, <1>4, <1>5, <1>7, <1>8

(* The sectors a write changes are sectors of the file.                    *)
LEMMA WrittenBlocks ==
  ASSUME NEW position \in Nat, NEW n \in Nat, n > 0, NEW q \in Nat,
         position + n <= q * SectorSize,
         NEW K, K = (position \div SectorSize)..((position + n - 1) \div SectorSize)
  PROVE  /\ K \subseteq 0..(q - 1)
         /\ \A p \in position..(position + n - 1) : p \div SectorSize \in K
<1>1. PICK last \in Nat : last = position + n - 1
  OBVIOUS
<1>2. last < q * SectorSize
  <2>1. PICK y \in Int : y = q * SectorSize
    BY ConstantFacts
  <2> QED
    BY <1>1, <2>1
<1>3. last \div SectorSize \in 0..(q - 1) /\ position \div SectorSize \in Nat
  BY <1>2, BlockOf, PositionFacts
<1>4. PICK a \in Nat, b \in 0..(q - 1) :
        a = position \div SectorSize /\ b = last \div SectorSize
  BY <1>3
<1>5. K = a..b
  BY <1>1, <1>4
<1>6. ASSUME NEW p \in position..(position + n - 1)
      PROVE  p \div SectorSize \in K
  <2>1. p \in Nat /\ position <= p /\ p <= last
    BY <1>1
  <2>2. /\ position \div SectorSize <= p \div SectorSize
        /\ p \div SectorSize <= last \div SectorSize
    BY <2>1, DivMonotone
  <2>3. PICK c \in Nat : c = p \div SectorSize
    BY <2>1, PositionFacts
  <2>4. a <= c /\ c <= b
    BY <1>4, <2>2, <2>3
  <2>5. c \in a..b
    BY <1>4, <2>3, <2>4
  <2> QED
    BY <1>5, <2>3, <2>5
<1> QED
  BY <1>4, <1>5, <1>6

IsWords(words) == words # << >> /\ \E W : words \in Seq(W)

LEMMA WriteSectorsFacts ==
  ASSUME NEW d, DOMAIN d = Sector, NEW h, HeaderOk(d, h),
         NEW words, IsWords(words), NEW position \in Nat,
         position + Len(words) <= FileCapacity(h),
         NEW w, w = WriteSectors(d, h, words, position), NEW e, e = w.disk
  PROVE  /\ w.n = Len(words) /\ w.hdr = h /\ ~w.abort
         /\ DOMAIN e = Sector /\ e[h.self] = h
         /\ \A s \in Sector \ OwnedBy(d, h) : e[s] = d[s]
         /\ HasIndirect(h) => e[Indirect(h)] = d[Indirect(h)]
         /\ \A n \in 0..(h.nsectors - 1) :
              \/ e[ByteToSector(d, h, n)] = d[ByteToSector(d, h, n)]
              \/ e[ByteToSector(d, h, n)].kind = "words"
         /\ \A p \in Nat : p < FileCapacity(h) =>
              /\ p - position \in 0..(Len(words) - 1) =>
                   WordAt(e, h, p) = words[(p - position) + 1]
              /\ p < position => WordAt(e, h, p) = WordAt(d, h, p)
<1> DEFINE d1 == [d EXCEPT ![h.self] = h]
           B(n) == ByteToSector(d, h, n)
           N == 0..(h.nsectors - 1)
           K == (position \div SectorSize)..((position + Len(words) - 1) \div SectorSize)
           sectors == Sectors(d1, h, Len(words), position)
           block(k) == Modified(d1, h, words, position, k)
<1>1. /\ h \in HeaderRecord /\ IndirectOk(d, h)
      /\ \A n \in N : /\ B(n) \in OwnedBy(d, h) /\ B(n) \in Sector /\ B(n) # h.self
                      /\ HasIndirect(h) => B(n) # Indirect(h)
      /\ \A m, n \in N : B(m) = B(n) => m = n
      /\ h.self \in OwnedBy(d, h)
      /\ HasIndirect(h) => Indirect(h) \in OwnedBy(d, h) /\ Indirect(h) # h.self
      /\ OwnedBy(d, h) \subseteq Sector
  BY SlotFacts
<1>2. h.nsectors \in Nat /\ h.self \in Sector
  BY <1>1, RecordFacts
<1>3. DOMAIN d1 = Sector /\ d1[h.self] = h /\ \A s \in Sector \ {h.self} : d1[s] = d[s]
  BY <1>2
<1>4. \A n : ByteToSector(d1, h, n) = B(n)
  <2>1. HasIndirect(h) => d1[Indirect(h)] = d[Indirect(h)]
    BY <1>1, <1>3
  <2> HIDE DEF d1
  <2> QED
    BY <1>1, <2>1, HeaderFramed
<1>5. Len(words) \in Nat /\ Len(words) > 0
  BY DEF IsWords
<1>6. K \subseteq N /\ \A p \in position..(position + Len(words) - 1) : p \div SectorSize \in K
  <2>1. position + Len(words) <= h.nsectors * SectorSize
    BY DEF FileCapacity
  <2> QED
    BY <1>2, <1>5, <2>1, WrittenBlocks
<1>7. sectors = {<<k, B(k)>> : k \in K}
  <2>1. sectors = {<<k, ByteToSector(d1, h, k)>> : k \in K}
    BY DEF Sectors
  <2> HIDE DEF sectors, d1, K, B
  <2> QED
    BY <1>4, <2>1
<1>8. e = [s \in Sector |-> IF s \in {x[2] : x \in sectors}
                            THEN block((CHOOSE x \in sectors : x[2] = s)[1])
                            ELSE d1[s]]
  BY DEF WriteSectors
<1>9. w.n = Len(words) /\ w.hdr = h /\ ~w.abort
  BY DEF WriteSectors
<1> HIDE DEF d1, sectors, block, B, N, K
<1>10. {x[2] : x \in sectors} = {B(k) : k \in K}
  <2>1. ASSUME NEW s, s \in {x[2] : x \in sectors} PROVE s \in {B(k) : k \in K}
    <3>1. PICK x \in sectors : s = x[2]
      BY <2>1
    <3>2. PICK k \in K : x = <<k, B(k)>>
      BY <1>7
    <3> QED
      BY <3>1, <3>2
  <2>2. ASSUME NEW s, s \in {B(k) : k \in K} PROVE s \in {x[2] : x \in sectors}
    <3>1. PICK k \in K : s = B(k)
      BY <2>2
    <3>2. <<k, B(k)>> \in sectors
      BY <1>7
    <3> QED
      BY <3>1, <3>2
  <2> QED
    BY <2>1, <2>2
<1>11. ASSUME NEW k \in K PROVE e[B(k)] = block(k)
  <2>1. <<k, B(k)>> \in sectors /\ <<k, B(k)>>[2] = B(k)
    BY <1>7
  <2>2. PICK x : x = CHOOSE y \in sectors : y[2] = B(k)
    OBVIOUS
  <2>3. x \in sectors /\ x[2] = B(k)
    BY <2>1, <2>2
  <2>4. PICK j \in K : x = <<j, B(j)>>
    BY <1>7, <2>3
  <2>5. j = k
    BY <1>1, <1>6, <2>3, <2>4
  <2>6. B(k) \in Sector /\ B(k) \in {y[2] : y \in sectors}
    BY <1>1, <1>6, <1>10
  <2>7. e[B(k)] = block(x[1])
    BY <1>8, <2>2, <2>6
  <2> QED
    BY <2>4, <2>5, <2>7
<1>12. \A s \in Sector : s \notin {B(k) : k \in K} => e[s] = d1[s]
  BY <1>8, <1>10
<1>13. DOMAIN e = Sector
  BY <1>8
<1>14. e[h.self] = h
  BY <1>1, <1>2, <1>3, <1>6, <1>12
<1>15. \A s \in Sector \ OwnedBy(d, h) : e[s] = d[s]
  BY <1>1, <1>3, <1>6, <1>12
<1>16. HasIndirect(h) => e[Indirect(h)] = d[Indirect(h)]
  BY <1>1, <1>3, <1>6, <1>12
<1>17. ASSUME NEW n \in N PROVE e[B(n)] = d[B(n)] \/ e[B(n)].kind = "words"
  <2>1. CASE n \in K
    <3>1. block(n).kind = "words"
      BY DEF block, Modified, Words
    <3> QED
      BY <1>11, <2>1, <3>1
  <2>2. CASE n \notin K
    BY <1>1, <1>3, <1>6, <1>12, <2>2
  <2> QED
    BY <2>1, <2>2
<1>18. ASSUME NEW p \in Nat, p < FileCapacity(h)
       PROVE  /\ p - position \in 0..(Len(words) - 1) =>
                   WordAt(e, h, p) = words[(p - position) + 1]
              /\ p < position => WordAt(e, h, p) = WordAt(d, h, p)
  <2>1. p \div SectorSize \in N
    BY <1>2, <1>18, BlockOf DEF FileCapacity, N
  <2>2. \A n : ByteToSector(e, h, n) = B(n)
    <3>1. h \in HeaderRecord /\ IndirectOk(d, h)
      BY <1>1
    <3>2. \A n : ByteToSector(e, h, n) = ByteToSector(d, h, n)
      BY <1>16, <3>1, HeaderFramed
    <3> QED
      BY <3>2 DEF B
  <2>3. PICK k \in N : k = p \div SectorSize
    BY <2>1
  <2>4. WordAt(e, h, p) = IF e[B(k)].kind = "words"
                          THEN e[B(k)].words[(p % SectorSize) + 1] ELSE Junk
    BY <2>2, <2>3 DEF WordAt
  <2>5. WordAt(d1, h, p) = WordAt(d, h, p)
    <3>1. d1[B(k)] = d[B(k)]
      BY <1>1, <1>3
    <3> QED
      BY <1>4, <2>3, <3>1 DEF WordAt, B
  <2>6. CASE k \in K
    <3>1. e[B(k)] = Modified(d1, h, words, position, p \div SectorSize)
      BY <1>11, <2>3, <2>6 DEF block
    <3>2. /\ e[B(k)].kind = "words"
          /\ e[B(k)].words[(p % SectorSize) + 1] =
              IF p - position \in 0..(Len(words) - 1)
              THEN words[(p - position) + 1]
              ELSE IF p < position THEN WordAt(d1, h, p) ELSE Junk
      BY <3>1, ModifiedFacts
    <3>3. p < position => ~(p - position \in 0..(Len(words) - 1))
      OBVIOUS
    <3> QED
      BY <2>4, <2>5, <3>2, <3>3
  <2>7. CASE k \notin K
    <3>1. e[B(k)] = d[B(k)]
      BY <1>1, <1>3, <1>6, <1>12, <2>7
    <3>2. WordAt(e, h, p) = WordAt(d, h, p)
      BY <2>2, <2>3, <3>1 DEF WordAt, B
    <3>3. ~(p - position \in 0..(Len(words) - 1))
      <4> SUFFICES ASSUME p - position \in 0..(Len(words) - 1) PROVE FALSE
        OBVIOUS
      <4>1. p \in position..(position + Len(words) - 1)
        BY <1>5
      <4> QED
        BY <1>6, <2>3, <2>7, <4>1
    <3> QED
      BY <3>2, <3>3
  <2> QED
    BY <2>6, <2>7
<1> QED
  BY <1>9, <1>13, <1>14, <1>15, <1>16, <1>17, <1>18 DEF N, B

(* The end of the file says nothing of its sectors.                        *)
WithLimit(h, limit) == [h EXCEPT !.limit = limit]

LEMMA SetLimit ==
  ASSUME NEW d, NEW h, HeaderOk(d, h), NEW limit \in Nat, limit <= FileCapacity(h),
         NEW g, g = WithLimit(h, limit)
  PROVE  /\ HeaderOk(d, g) /\ OwnedBy(d, g) = OwnedBy(d, h)
         /\ g.limit = limit /\ g.self = h.self /\ g.type = h.type
         /\ g.nsectors = h.nsectors /\ g.kind = h.kind /\ g.data = h.data
         /\ Indirect(g) = Indirect(h) /\ (HasIndirect(g) <=> HasIndirect(h))
         /\ FileCapacity(g) = FileCapacity(h)
         /\ \A e, n : ByteToSector(e, g, n) = ByteToSector(e, h, n)
         /\ \A e, p : WordAt(e, g, p) = WordAt(e, h, p)
<1>1. h \in HeaderRecord
  BY DEF HeaderOk
<1>2. /\ g.limit = limit /\ g.self = h.self /\ g.type = h.type
      /\ g.nsectors = h.nsectors /\ g.kind = h.kind /\ g.data = h.data
      /\ g \in HeaderRecord
  BY <1>1 DEF HeaderRecord, WithLimit
<1>3. /\ Indirect(g) = Indirect(h) /\ (HasIndirect(g) <=> HasIndirect(h))
      /\ FileCapacity(g) = FileCapacity(h)
  BY <1>2 DEF Indirect, HasIndirect, FileCapacity
<1>4. \A e : InDirect(e, g) = InDirect(e, h)
  BY <1>2 DEF InDirect
<1>5. \A e, n : ByteToSector(e, g, n) = ByteToSector(e, h, n)
  BY <1>2, <1>4 DEF ByteToSector
<1>6. \A e, p : WordAt(e, g, p) = WordAt(e, h, p)
  BY <1>5 DEF WordAt
<1>7. Slots(g) = Slots(h) /\ \A n : SlotAt(d, g, n) = SlotAt(d, h, n)
  BY <1>2, <1>3, <1>5 DEF Slots, SlotAt
<1>8. OwnedBy(d, g) = OwnedBy(d, h)
  BY <1>7 DEF OwnedBy
<1>9. IndirectOk(d, g)
  <2>1. IndirectOk(d, h)
    BY DEF HeaderOk
  <2> QED
    BY <1>2, <1>3, <2>1 DEF IndirectOk
<1>10. HeaderOk(d, g)
  <2>1. g.limit <= FileCapacity(g)
    BY <1>2, <1>3
  <2>2. /\ \A n \in Slots(g) : SlotAt(d, g, n) \in Sector
        /\ \A m, n \in Slots(g) : SlotAt(d, g, m) = SlotAt(d, g, n) => m = n
    BY <1>7 DEF HeaderOk
  <2> QED
    BY <1>2, <1>9, <2>1, <2>2 DEF HeaderOk
<1> QED
  BY <1>2, <1>3, <1>5, <1>6, <1>8, <1>10

(* WriteAt when the file is large enough.                                  *)
LEMMA WriteInPlace ==
  ASSUME NEW d, DOMAIN d = Sector, NEW h, HeaderOk(d, h),
         NEW words, IsWords(words),
         NEW position \in Nat, position <= h.limit,
         position + Len(words) <= FileCapacity(h),
         NEW w, w = WriteAt(d, h, words, position), NEW e, e = w.disk,
         NEW g, g = WithLimit(h, position + Len(words))
  PROVE  /\ w.n = Len(words) /\ w.hdr = g /\ ~w.abort
         /\ HeaderOk(e, g) /\ OwnedBy(e, g) = OwnedBy(d, h)
         /\ DOMAIN e = Sector /\ e[h.self] = g
         /\ \A s \in Sector \ OwnedBy(d, h) : e[s] = d[s]
         /\ HasIndirect(h) => e[Indirect(h)] = d[Indirect(h)]
         /\ \A n \in 0..(h.nsectors - 1) :
              \/ e[ByteToSector(d, h, n)] = d[ByteToSector(d, h, n)]
              \/ e[ByteToSector(d, h, n)].kind = "words"
         /\ \A p \in Nat : p < FileCapacity(h) =>
              /\ p - position \in 0..(Len(words) - 1) =>
                   WordAt(e, g, p) = words[(p - position) + 1]
              /\ p < position => WordAt(e, g, p) = WordAt(d, h, p)
<1>1. Len(words) \in Nat /\ position + Len(words) \in Nat
  BY DEF IsWords
<1>2. h \in HeaderRecord /\ h.limit \in Nat /\ h.nsectors \in Nat
  BY RecordFacts DEF HeaderOk
<1>3. PICK capacity \in Int : capacity = FileCapacity(h)
  BY <1>2, ConstantFacts DEF FileCapacity
<1>4. /\ HeaderOk(d, g) /\ OwnedBy(d, g) = OwnedBy(d, h)
      /\ g.self = h.self /\ g.nsectors = h.nsectors
      /\ Indirect(g) = Indirect(h) /\ (HasIndirect(g) <=> HasIndirect(h))
      /\ FileCapacity(g) = FileCapacity(h)
      /\ \A n : ByteToSector(d, g, n) = ByteToSector(d, h, n)
      /\ \A p : WordAt(d, g, p) = WordAt(d, h, p)
  BY <1>1, SetLimit
<1>5. w = WriteSectors(d, g, words, position)
  <2>1. ~(position > h.limit)
    BY <1>2
  <2>2. Grow(d, h, position + Len(words)) = [result |-> "ok", disk |-> d, hdr |-> h]
    BY DEF Grow
  <2>3. setFileLimit(h, position + Len(words)) = g
    <3>1. ~(position + Len(words) > FileCapacity(h))
      BY <1>1, <1>3
    <3> QED
      BY <3>1 DEF setFileLimit, WithLimit
  <2> QED
    BY <2>1, <2>2, <2>3 DEF WriteAt, WriteGrown
<1>6. position + Len(words) <= FileCapacity(g)
  BY <1>4
<1>7. /\ w.n = Len(words) /\ w.hdr = g /\ ~w.abort
      /\ DOMAIN e = Sector /\ e[g.self] = g
      /\ \A s \in Sector \ OwnedBy(d, g) : e[s] = d[s]
      /\ HasIndirect(g) => e[Indirect(g)] = d[Indirect(g)]
      /\ \A n \in 0..(g.nsectors - 1) :
           \/ e[ByteToSector(d, g, n)] = d[ByteToSector(d, g, n)]
           \/ e[ByteToSector(d, g, n)].kind = "words"
      /\ \A p \in Nat : p < FileCapacity(g) =>
           /\ p - position \in 0..(Len(words) - 1) =>
                WordAt(e, g, p) = words[(p - position) + 1]
           /\ p < position => WordAt(e, g, p) = WordAt(d, g, p)
  <2>1. HeaderOk(d, g)
    BY <1>4
  <2> QED
    BY <1>5, <1>6, <2>1, WriteSectorsFacts
<1>8. HeaderOk(e, g) /\ OwnedBy(e, g) = OwnedBy(d, g)
  <2>1. g \in HeaderRecord /\ IndirectOk(d, g)
    BY <1>4 DEF HeaderOk
  <2>2. HasIndirect(g) => e[Indirect(g)] = d[Indirect(g)]
    BY <1>7
  <2>3. HeaderOk(d, g)
    BY <1>4
  <2> QED
    BY <2>1, <2>2, <2>3, HeaderFramed
<1>9. \A n \in 0..(h.nsectors - 1) :
        \/ e[ByteToSector(d, h, n)] = d[ByteToSector(d, h, n)]
        \/ e[ByteToSector(d, h, n)].kind = "words"
  BY <1>4, <1>7
<1>10. \A p \in Nat : p < FileCapacity(h) =>
         /\ p - position \in 0..(Len(words) - 1) =>
              WordAt(e, g, p) = words[(p - position) + 1]
         /\ p < position => WordAt(e, g, p) = WordAt(d, h, p)
  BY <1>4, <1>7
<1> QED
  BY <1>4, <1>7, <1>8, <1>9, <1>10

-----------------------------------------------------------------------------
(* Reading and writing a directory.                                        *)
LEMMA SubSeqAll ==
  ASSUME NEW n \in Nat, NEW f, DOMAIN f = 1..n, f = [i \in 1..n |-> f[i]],
         NEW s, s = SubSeq(f, 1, n)
  PROVE  /\ Len(s) = n /\ (s = << >> <=> n = 0)
         /\ s \in [1..n -> {f[i] : i \in 1..n}]
         /\ s \in Seq({f[i] : i \in 1..n})
         /\ \A i \in 1..n : s[i] = f[i]
<1> DEFINE S == {f[i] : i \in 1..n}
<1>1. f \in Seq(S) /\ Len(f) = n
  <2>1. f \in [1..n -> S]
    OBVIOUS
  <2> HIDE DEF S
  <2> QED
    BY <2>1
<1> HIDE DEF S
<1>2. /\ Len(s) = n /\ s \in Seq(S) /\ \A i \in 1..n : s[i] = f[i]
  BY <1>1
<1>3. s \in [1..n -> S] /\ (s = << >> <=> n = 0)
  <2>1. PICK t \in Seq(S) : t = s
    BY <1>2
  <2>2. t \in [1..Len(t) -> S] /\ (t = << >> <=> Len(t) = 0)
    OBVIOUS
  <2> QED
    BY <1>2, <2>1, <2>2
<1> QED
  BY <1>2, <1>3 DEF S

LEMMA FetchFacts ==
  ASSUME NEW d, NEW h, h.limit = NumDirEntries + 1,
         NEW dir, dir = FetchDirectory(d, h)
  PROVE  /\ dir.sector = WordAt(d, h, 0)[2]
         /\ \A i \in 1..NumDirEntries : dir.table[i] = WordAt(d, h, i)
<1> DEFINE n == NumDirEntries + 1
           f == [i \in 1..n |-> WordAt(d, h, 0 + i - 1)]
           words == SubSeq(f, 1, n)
           table == [i \in 1..NumDirEntries |->
                      IF i < Len(words) THEN words[i + 1] ELSE Number(0)]
<1>1. NumDirEntries \in Nat /\ NumDirEntries > 0 /\ n \in Nat /\ n > 0
  BY ConstantFacts
<1>2. Min({n, n - 0}) = n
  <2>1. {n, n - 0} = {n} /\ {n} \subseteq Nat
    BY <1>1
  <2> QED
    BY <2>1, MinFacts
<1>3. ReadAt(d, h, n, 0) = words
  <2>1. ~(0 >= h.limit) /\ h.limit = n
    BY <1>1
  <2> QED
    BY <1>2, <2>1 DEF ReadAt
<1>4. Len(words) = n /\ words # << >> /\ \A i \in 1..n : words[i] = WordAt(d, h, 0 + i - 1)
  <2>1. /\ DOMAIN f = 1..n /\ f = [i \in 1..n |-> f[i]]
        /\ \A i \in 1..n : f[i] = WordAt(d, h, 0 + i - 1)
    OBVIOUS
  <2> HIDE DEF f
  <2>2. Len(words) = n /\ (words = << >> <=> n = 0) /\ \A i \in 1..n : words[i] = f[i]
    BY <1>1, <2>1, SubSeqAll
  <2> QED
    BY <1>1, <2>1, <2>2
<1>5. dir = [sector |-> IF words = << >> THEN -1 ELSE words[1][2],
             table |-> SubSeq(table, 1, NumDirEntries)]
  BY <1>3 DEF FetchDirectory
<1> HIDE DEF words
<1>6. dir.sector = WordAt(d, h, 0)[2]
  <2>1. words[1] = WordAt(d, h, 0 + 1 - 1) /\ 0 + 1 - 1 = 0
    BY <1>1, <1>4
  <2> QED
    BY <1>4, <1>5, <2>1
<1>7. ASSUME NEW i \in 1..NumDirEntries
      PROVE  dir.table[i] = WordAt(d, h, i)
  <2>1. table[i] = words[i + 1]
    BY <1>1, <1>4
  <2>2. words[i + 1] = WordAt(d, h, i)
    <3>1. i + 1 \in 1..n /\ 0 + (i + 1) - 1 = i
      BY <1>1
    <3>2. words[i + 1] = WordAt(d, h, 0 + (i + 1) - 1)
      BY <1>4, <3>1
    <3> QED
      BY <3>1, <3>2
  <2>3. DOMAIN table = 1..NumDirEntries /\ table = [j \in 1..NumDirEntries |-> table[j]]
    OBVIOUS
  <2> HIDE DEF table
  <2>4. \A j \in 1..NumDirEntries : SubSeq(table, 1, NumDirEntries)[j] = table[j]
    BY <1>1, <2>3, SubSeqAll
  <2>5. PICK t : t = SubSeq(table, 1, NumDirEntries)
    OBVIOUS
  <2>6. dir.table = t
    <3>1. PICK a : a = IF words = << >> THEN -1 ELSE words[1][2]
      OBVIOUS
    <3>2. dir = [sector |-> a, table |-> t]
      BY <1>5, <2>5, <3>1
    <3> QED
      BY <3>2
  <2> QED
    BY <2>1, <2>2, <2>4, <2>5, <2>6
<1> QED
  BY <1>6, <1>7

IsTable(table) == \E T : table \in [1..NumDirEntries -> T]

LEMMA TableFacts ==
  ASSUME NEW d, NEW h, NEW dir, dir = FetchDirectory(d, h)
  PROVE  /\ dir = [sector |-> dir.sector, table |-> dir.table]
         /\ IsTable(dir.table)
<1> DEFINE words == ReadAt(d, h, NumDirEntries + 1, 0)
           table == [i \in 1..NumDirEntries |->
                      IF i < Len(words) THEN words[i + 1] ELSE Number(0)]
<1>1. dir = [sector |-> IF words = << >> THEN -1 ELSE words[1][2],
             table |-> SubSeq(table, 1, NumDirEntries)]
  BY DEF FetchDirectory
<1> HIDE DEF words
<1>2. DOMAIN table = 1..NumDirEntries /\ table = [j \in 1..NumDirEntries |-> table[j]]
  OBVIOUS
<1> HIDE DEF table
<1>3. SubSeq(table, 1, NumDirEntries) \in
        [1..NumDirEntries -> {table[i] : i \in 1..NumDirEntries}]
  BY <1>2, ConstantFacts, SubSeqAll
<1>4. dir.table = SubSeq(table, 1, NumDirEntries)
  <2>1. PICK a : a = IF words = << >> THEN -1 ELSE words[1][2]
    OBVIOUS
  <2>2. PICK t : t = SubSeq(table, 1, NumDirEntries)
    OBVIOUS
  <2>3. dir = [sector |-> a, table |-> t]
    BY <1>1, <2>1, <2>2
  <2>4. dir.table = t
    BY <2>3
  <2> QED
    BY <2>2, <2>4
<1>5. \E T : dir.table \in [1..NumDirEntries -> T]
  BY <1>3, <1>4
<1>6. dir = [sector |-> dir.sector, table |-> dir.table]
  BY <1>1
<1> QED
  BY <1>5, <1>6 DEF IsTable

LEMMA WriteDirectoryFacts ==
  ASSUME NEW d, DOMAIN d = Sector, NEW h, HeaderOk(d, h),
         NumDirEntries + 1 <= FileCapacity(h),
         NEW dir, IsTable(dir.table),
         NEW w, w = WriteDirectory(d, h, dir), NEW e, e = w.disk,
         NEW g, g = WithLimit(h, NumDirEntries + 1)
  PROVE  /\ ~w.abort /\ HeaderOk(e, g) /\ OwnedBy(e, g) = OwnedBy(d, h)
         /\ DOMAIN e = Sector /\ e[h.self] = g
         /\ \A s \in Sector \ OwnedBy(d, h) : e[s] = d[s]
         /\ HasIndirect(h) => e[Indirect(h)] = d[Indirect(h)]
         /\ \A n \in 0..(h.nsectors - 1) :
              \/ e[ByteToSector(d, h, n)] = d[ByteToSector(d, h, n)]
              \/ e[ByteToSector(d, h, n)].kind = "words"
         /\ FetchDirectory(e, g).sector = dir.sector
         /\ \A i \in 1..NumDirEntries : FetchDirectory(e, g).table[i] = dir.table[i]
<1> DEFINE first == <<Number(dir.sector)>>
           w1 == WriteAt(d, h, first, 0)
           d1 == w1.disk
           g1 == WithLimit(h, 0 + 1)
           table == dir.table
<1>1. NumDirEntries \in Nat /\ NumDirEntries > 0
  BY ConstantFacts
<1>2. PICK T : table \in [1..NumDirEntries -> T]
  BY DEF IsTable
<1>3. /\ first \in Seq({Number(dir.sector)}) /\ first # << >> /\ Len(first) = 1
      /\ first[1] = Number(dir.sector)
  OBVIOUS
<1>4. /\ table \in Seq(T) /\ table # << >> /\ Len(table) = NumDirEntries
      /\ \A i \in 1..NumDirEntries : table[i] = dir.table[i]
  BY <1>2, <1>1
<1>5. PICK capacity \in Int : capacity = FileCapacity(h) /\ NumDirEntries + 1 <= capacity
  <2>1. h.nsectors \in Nat
    BY RecordFacts DEF HeaderOk
  <2> QED
    BY <2>1, ConstantFacts DEF FileCapacity
<1>6. 0 <= h.limit /\ h.limit \in Nat
  BY RecordFacts DEF HeaderOk
<1>7. w = IF w1.abort THEN w1 ELSE WriteAt(w1.disk, w1.hdr, table, 1)
  BY DEF WriteDirectory, WriteTable
<1> HIDE DEF w1, first, table, g1
<1>8. /\ w1.hdr = g1 /\ ~w1.abort
      /\ HeaderOk(d1, g1) /\ OwnedBy(d1, g1) = OwnedBy(d, h)
      /\ DOMAIN d1 = Sector /\ d1[h.self] = g1
      /\ \A s \in Sector \ OwnedBy(d, h) : d1[s] = d[s]
      /\ HasIndirect(h) => d1[Indirect(h)] = d[Indirect(h)]
      /\ \A n \in 0..(h.nsectors - 1) :
           \/ d1[ByteToSector(d, h, n)] = d[ByteToSector(d, h, n)]
           \/ d1[ByteToSector(d, h, n)].kind = "words"
      /\ \A p \in Nat : p < FileCapacity(h) =>
           /\ p - 0 \in 0..(Len(first) - 1) =>
                WordAt(d1, g1, p) = first[(p - 0) + 1]
           /\ p < 0 => WordAt(d1, g1, p) = WordAt(d, h, p)
  <2>1. 0 + Len(first) <= FileCapacity(h)
    BY <1>1, <1>3, <1>5
  <2>2. g1 = WithLimit(h, 0 + Len(first))
    BY <1>3 DEF g1
  <2>3. w1 = WriteAt(d, h, first, 0)
    BY DEF w1
  <2>4. IsWords(first) /\ 0 \in Nat
    BY <1>3 DEF IsWords
  <2> QED
    BY <1>6, <2>1, <2>2, <2>3, <2>4, WriteInPlace
<1>9. /\ g1.limit = 1 /\ g1.self = h.self /\ g1.nsectors = h.nsectors
      /\ Indirect(g1) = Indirect(h) /\ (HasIndirect(g1) <=> HasIndirect(h))
      /\ FileCapacity(g1) = FileCapacity(h)
      /\ \A f, n : ByteToSector(f, g1, n) = ByteToSector(f, h, n)
  <2>1. 0 + 1 \in Nat /\ 0 + 1 = 1 /\ 1 <= FileCapacity(h)
    BY <1>1, <1>5
  <2> QED
    BY <2>1, SetLimit DEF g1
<1>10. g = WithLimit(g1, 1 + Len(table))
  <2>1. h \in HeaderRecord
    BY DEF HeaderOk
  <2>2. 1 + Len(table) = NumDirEntries + 1
    BY <1>1, <1>4
  <2>3. WithLimit(WithLimit(h, 0 + 1), NumDirEntries + 1) = WithLimit(h, NumDirEntries + 1)
    BY <2>1 DEF WithLimit, HeaderRecord
  <2> QED
    BY <2>2, <2>3 DEF g1
<1>11. \A n \in 0..(h.nsectors - 1) : ByteToSector(d1, g1, n) = ByteToSector(d, h, n)
  <2>1. h \in HeaderRecord /\ IndirectOk(d, h)
    BY DEF HeaderOk
  <2>2. HasIndirect(h) => d1[Indirect(h)] = d[Indirect(h)]
    BY <1>8
  <2>3. \A n : ByteToSector(d1, h, n) = ByteToSector(d, h, n)
    BY <2>1, <2>2, HeaderFramed
  <2> QED
    BY <1>9, <2>3
<1> HIDE DEF d1
<1>12. /\ ~w.abort
       /\ HeaderOk(e, g) /\ OwnedBy(e, g) = OwnedBy(d1, g1)
       /\ DOMAIN e = Sector /\ e[g1.self] = g
       /\ \A s \in Sector \ OwnedBy(d1, g1) : e[s] = d1[s]
       /\ HasIndirect(g1) => e[Indirect(g1)] = d1[Indirect(g1)]
       /\ \A n \in 0..(g1.nsectors - 1) :
            \/ e[ByteToSector(d1, g1, n)] = d1[ByteToSector(d1, g1, n)]
            \/ e[ByteToSector(d1, g1, n)].kind = "words"
       /\ \A p \in Nat : p < FileCapacity(g1) =>
            /\ p - 1 \in 0..(Len(table) - 1) =>
                 WordAt(e, g, p) = table[(p - 1) + 1]
            /\ p < 1 => WordAt(e, g, p) = WordAt(d1, g1, p)
  <2>1. w = WriteAt(d1, g1, table, 1)
    BY <1>7, <1>8 DEF d1
  <2>2. DOMAIN d1 = Sector /\ HeaderOk(d1, g1)
    BY <1>8
  <2>3. 1 + Len(table) <= FileCapacity(g1) /\ 1 <= g1.limit
    BY <1>1, <1>4, <1>5, <1>9
  <2>4. IsWords(table)
    BY <1>4 DEF IsWords
  <2> QED
    BY <1>10, <2>1, <2>2, <2>3, <2>4, WriteInPlace
<1>13. g.limit = NumDirEntries + 1
  <2>1. NumDirEntries + 1 \in Nat
    BY <1>1
  <2> QED
    BY <2>1, SetLimit
<1>14. FetchDirectory(e, g).sector = dir.sector
  <2>1. WordAt(e, g, 0) = WordAt(d1, g1, 0)
    BY <1>1, <1>5, <1>9, <1>12
  <2>2. WordAt(d1, g1, 0) = first[1]
    <3>1. 0 - 0 \in 0..(Len(first) - 1) /\ (0 - 0) + 1 = 1 /\ 0 < FileCapacity(h)
      BY <1>1, <1>3, <1>5
    <3> QED
      BY <1>8, <3>1
  <2>3. FetchDirectory(e, g).sector = WordAt(e, g, 0)[2]
    BY <1>13, FetchFacts
  <2> QED
    BY <1>3, <2>1, <2>2, <2>3 DEF Number
<1>15. ASSUME NEW i \in 1..NumDirEntries
       PROVE  FetchDirectory(e, g).table[i] = dir.table[i]
  <2>1. /\ i \in Nat /\ i < FileCapacity(g1) /\ i - 1 \in 0..(Len(table) - 1)
        /\ (i - 1) + 1 = i
    BY <1>1, <1>4, <1>5, <1>9
  <2>2. WordAt(e, g, i) = table[(i - 1) + 1]
    BY <1>12, <2>1
  <2>3. FetchDirectory(e, g).table[i] = WordAt(e, g, i)
    BY <1>13, FetchFacts
  <2> QED
    BY <1>4, <2>1, <2>2, <2>3
<1>16. /\ ~w.abort /\ HeaderOk(e, g) /\ OwnedBy(e, g) = OwnedBy(d, h)
       /\ DOMAIN e = Sector /\ e[h.self] = g
  BY <1>8, <1>9, <1>12
<1>17. /\ \A s \in Sector \ OwnedBy(d, h) : e[s] = d[s]
       /\ HasIndirect(h) => e[Indirect(h)] = d[Indirect(h)]
  BY <1>8, <1>9, <1>12
<1>18. \A n \in 0..(h.nsectors - 1) :
         \/ e[ByteToSector(d, h, n)] = d[ByteToSector(d, h, n)]
         \/ e[ByteToSector(d, h, n)].kind = "words"
  BY <1>8, <1>9, <1>11, <1>12
<1> QED
  BY <1>14, <1>15, <1>16, <1>17, <1>18

-----------------------------------------------------------------------------
(* What a disk in order is like.                                           *)
LEMMA FreeMapFacts ==
  /\ freeMapHdr.kind = "header" /\ freeMapHdr.self = 0
  /\ freeMapHdr.type = "TYPE_FILE" /\ freeMapHdr.nsectors = 1
  /\ ~HasIndirect(freeMapHdr)
  /\ \A d : ByteToSector(d, freeMapHdr, 0) = 3
  /\ directoryHdr.kind = "header" /\ directoryHdr.self = 1
  /\ directoryHdr.type = "TYPE_DIR"
<1>1. /\ freeMapHdr.kind = "header" /\ freeMapHdr.self = 0
      /\ freeMapHdr.type = "TYPE_FILE" /\ freeMapHdr.nsectors = 1
  BY DEF freeMapHdr, Formatted, FileHeader, FreeMapSector
<1>2. /\ directoryHdr.kind = "header" /\ directoryHdr.self = 1
      /\ directoryHdr.type = "TYPE_DIR"
  BY DEF directoryHdr, Formatted, FileHeader, DirectorySector
<1>3. ~HasIndirect(freeMapHdr)
  BY <1>1, ConstantFacts DEF HasIndirect
<1>4. ASSUME NEW d PROVE ByteToSector(d, freeMapHdr, 0) = 3
  <2>1. 0 < NumDirect /\ 0 + 1 = 1
    BY ConstantFacts
  <2> QED
    BY <2>1, SectorFacts DEF ByteToSector
<1> QED
  BY <1>1, <1>2, <1>3, <1>4

LEMMA SectorsFacts ==
  ASSUME NEW d, SectorsOk(d)
  PROVE  /\ DOMAIN d = Sector /\ d[0] = freeMapHdr /\ d[1] = directoryHdr
         /\ 2 \in HeadersOn(d) /\ d[2].type = "TYPE_PIPE"
         /\ Reserved \subseteq HeadersOn(d) /\ FetchMap(d) \subseteq Sector
         /\ HeadersOn(d) \subseteq FetchMap(d)
         /\ \A s \in HeadersOn(d) :
              /\ s \in Sector /\ d[s].kind = "header" /\ d[s].self = s
              /\ HeaderOk(d, d[s]) /\ s \in OwnedBy(d, d[s])
              /\ OwnedBy(d, d[s]) \subseteq FetchMap(d)
         /\ \A s, t \in HeadersOn(d) :
              s # t => OwnedBy(d, d[s]) \intersect OwnedBy(d, d[t]) = {}
         /\ \A s \in DirOn(d) :
              DirOk(d, s) /\ s \in HeadersOn(d) /\ d[s].type = "TYPE_DIR"
         /\ 1 \in DirOn(d) /\ 0 \notin DirOn(d) /\ 2 \notin DirOn(d)
         /\ 3 \in OwnedBy(d, d[0]) /\ {0, 3} \subseteq FetchMap(d)
         /\ \A s \in HeadersOn(d) \ {0} : 3 \notin OwnedBy(d, d[s])
         /\ \A s \in HeadersOn(d), x \in Sector :
              x \in OwnedBy(d, d[s]) /\ x # s => d[x].kind # "header"
<1>1. /\ DOMAIN d = Sector /\ d[0] = freeMapHdr /\ d[1] = directoryHdr
      /\ 2 \in HeadersOn(d) /\ d[2].type = "TYPE_PIPE"
      /\ FetchMap(d) \subseteq Sector
      /\ \A s \in HeadersOn(d) :
           d[s].self = s /\ HeaderOk(d, d[s]) /\ OwnedBy(d, d[s]) \subseteq FetchMap(d)
      /\ \A s, t \in HeadersOn(d) :
           s # t => OwnedBy(d, d[s]) \intersect OwnedBy(d, d[t]) = {}
      /\ \A s \in DirOn(d) : DirOk(d, s)
  BY DEF SectorsOk, HeadersOk, FreeMapSector, DirectorySector, PipeSector
<1>2. Reserved \subseteq HeadersOn(d)
  BY <1>1, FreeMapFacts, SectorFacts DEF HeadersOn
<1>3. ASSUME NEW s \in HeadersOn(d)
      PROVE  s \in Sector /\ d[s].kind = "header" /\ s \in OwnedBy(d, d[s])
  <2>1. s \in Sector /\ d[s].kind = "header"
    BY DEF HeadersOn
  <2>2. d[s].self \in OwnedBy(d, d[s])
    BY <1>1, SlotFacts
  <2> QED
    BY <1>1, <2>1, <2>2
<1>4. HeadersOn(d) \subseteq FetchMap(d)
  BY <1>1, <1>3
<1>5. \A s \in DirOn(d) : s \in HeadersOn(d) /\ d[s].type = "TYPE_DIR"
  BY DEF DirOn
<1>6. 1 \in DirOn(d) /\ 0 \notin DirOn(d) /\ 2 \notin DirOn(d)
  BY <1>1, <1>2, FreeMapFacts, SectorFacts DEF DirOn
<1>7. 3 \in OwnedBy(d, d[0])
  <2>1. HeaderOk(d, d[0]) /\ d[0].nsectors = 1
    BY <1>1, <1>2, FreeMapFacts, SectorFacts
  <2>2. \A n \in 0..(d[0].nsectors - 1) : ByteToSector(d, d[0], n) \in OwnedBy(d, d[0])
    BY <2>1, SlotFacts
  <2>3. 0 \in 0..(d[0].nsectors - 1)
    BY <2>1
  <2>4. ByteToSector(d, d[0], 0) = 3
    BY <1>1, FreeMapFacts
  <2> QED
    BY <2>2, <2>3, <2>4
<1>8. {0, 3} \subseteq FetchMap(d)
  BY <1>1, <1>2, <1>4, <1>7, SectorFacts
<1>9. \A s \in HeadersOn(d) \ {0} : 3 \notin OwnedBy(d, d[s])
  <2>1. 0 \in HeadersOn(d)
    BY <1>2, SectorFacts
  <2> QED
    BY <1>1, <1>7, <2>1
<1>10. ASSUME NEW s \in HeadersOn(d), NEW x \in Sector,
              x \in OwnedBy(d, d[s]), x # s
       PROVE  d[x].kind # "header"
  <2> SUFFICES ASSUME d[x].kind = "header" PROVE FALSE
    OBVIOUS
  <2>1. x \in HeadersOn(d)
    BY DEF HeadersOn
  <2>2. x \in OwnedBy(d, d[x])
    BY <1>3, <2>1
  <2> QED
    BY <1>1, <1>10, <2>1, <2>2
<1> QED
  BY <1>1, <1>2, <1>3, <1>4, <1>5, <1>6, <1>7, <1>8, <1>9, <1>10

(* A file whose sectors are left alone.                                    *)
LEMMA FileKept ==
  ASSUME NEW d, SectorsOk(d), NEW t \in HeadersOn(d), NEW e, e[t] = d[t],
         \A s \in OwnedBy(d, d[t]) : s # 3 => e[s] = d[s]
  PROVE  /\ HeaderOk(e, e[t]) /\ OwnedBy(e, e[t]) = OwnedBy(d, d[t])
         /\ t \in DirOn(d) => FetchDirectory(e, e[t]) = FetchDirectory(d, d[t])
<1>1. HeaderOk(d, d[t]) /\ t \in Sector
  BY SectorsFacts
<1>2. PICK h : h = d[t]
  OBVIOUS
<1>3. h \in HeaderRecord /\ IndirectOk(d, h) /\ HeaderOk(d, h)
  BY <1>1, <1>2 DEF HeaderOk
<1>4. HasIndirect(h) => Indirect(h) \in OwnedBy(d, h)
  BY <1>3, SlotFacts
<1>5. t = 0 => ~HasIndirect(h)
  BY <1>2, FreeMapFacts, SectorsFacts
<1>6. t # 0 => 3 \notin OwnedBy(d, h)
  BY <1>2, SectorsFacts
<1>7. HasIndirect(h) => e[Indirect(h)] = d[Indirect(h)]
  BY <1>2, <1>4, <1>5, <1>6
<1>8. HeaderOk(e, h) /\ OwnedBy(e, h) = OwnedBy(d, h)
  BY <1>3, <1>7, HeaderFramed
<1>9. ASSUME t \in DirOn(d)
      PROVE  FetchDirectory(e, h) = FetchDirectory(d, h)
  <2>1. t # 0
    BY <1>9, SectorsFacts
  <2>2. \A n \in 0..(h.nsectors - 1) : ByteToSector(d, h, n) \in OwnedBy(d, h)
    BY <1>3, SlotFacts
  <2>3. \A n \in 0..(h.nsectors - 1) : e[ByteToSector(d, h, n)] = d[ByteToSector(d, h, n)]
    BY <1>2, <1>6, <2>1, <2>2
  <2> QED
    BY <1>3, <1>7, <2>3, ReadFramed
<1> QED
  BY <1>2, <1>8, <1>9

(* A header is written, and no sector but its own and free ones.           *)
LEMMA HeaderReplaced ==
  ASSUME NEW d, SectorsOk(d), NEW c \in HeadersOn(d) \ {0},
         NEW e, DOMAIN e = Sector, NEW h, e[c] = h, HeaderOk(e, h),
         h.self = c, h.type = d[c].type, e[1] = directoryHdr,
         FetchMap(e) \subseteq Sector, FetchMap(d) \subseteq FetchMap(e),
         OwnedBy(e, h) \subseteq FetchMap(e),
         OwnedBy(e, h) \intersect FetchMap(d) \subseteq OwnedBy(d, d[c]),
         \A s \in FetchMap(d) \ OwnedBy(d, d[c]) : s # 3 => e[s] = d[s],
         \A s \in Sector : s \notin FetchMap(d) \/ s \in OwnedBy(d, d[c]) \/ s = 3 =>
           s = c \/ e[s].kind # "header",
         c \in DirOn(d) => DirOk(e, c)
  PROVE  /\ SectorsOk(e) /\ HeadersOn(e) = HeadersOn(d) /\ DirOn(e) = DirOn(d)
         /\ \A t \in DirOn(d) \ {c} : FetchDirectory(e, e[t]) = FetchDirectory(d, d[t])
         /\ \A t \in HeadersOn(d) \ {c} : OwnedBy(e, e[t]) = OwnedBy(d, d[t])
<1>1. /\ c \in HeadersOn(d) /\ c # 0 /\ c \in Sector /\ d[c].kind = "header"
      /\ c \in OwnedBy(d, d[c])
  BY SectorsFacts
<1>2. h.kind = "header"
  BY RecordFacts DEF HeaderOk
<1>3. ASSUME NEW t \in HeadersOn(d), t # c
      PROVE  /\ t \in FetchMap(d) \ OwnedBy(d, d[c]) /\ t # 3 /\ e[t] = d[t]
             /\ \A s \in OwnedBy(d, d[t]) : s # 3 => e[s] = d[s]
  <2>1. /\ t \in FetchMap(d) /\ t \in OwnedBy(d, d[t])
        /\ OwnedBy(d, d[t]) \subseteq FetchMap(d)
        /\ OwnedBy(d, d[t]) \intersect OwnedBy(d, d[c]) = {}
    BY <1>1, <1>3, SectorsFacts
  <2>2. t # 3
    <3>1. t # 0 => 3 \notin OwnedBy(d, d[t])
      BY SectorsFacts
    <3> QED
      BY <2>1, <3>1
  <2> QED
    BY <2>1, <2>2
<1>4. ASSUME NEW t \in HeadersOn(d), t # c
      PROVE  /\ HeaderOk(e, e[t]) /\ OwnedBy(e, e[t]) = OwnedBy(d, d[t])
             /\ e[t] = d[t]
             /\ t \in DirOn(d) => FetchDirectory(e, e[t]) = FetchDirectory(d, d[t])
  <2>1. e[t] = d[t] /\ \A s \in OwnedBy(d, d[t]) : s # 3 => e[s] = d[s]
    BY <1>3, <1>4
  <2> QED
    BY <2>1, FileKept
<1>5. HeadersOn(e) = HeadersOn(d)
  <2>1. ASSUME NEW s \in HeadersOn(d) PROVE s \in HeadersOn(e)
    <3>1. s \in Sector /\ d[s].kind = "header"
      BY SectorsFacts
    <3> QED
      BY <1>2, <1>4, <3>1 DEF HeadersOn
  <2>2. ASSUME NEW s \in HeadersOn(e), s \notin HeadersOn(d) PROVE FALSE
    <3>1. s \in Sector /\ e[s].kind = "header" /\ d[s].kind # "header" /\ s # c
      BY <1>1, <2>2 DEF HeadersOn
    <3>2. s \in FetchMap(d) /\ s \notin OwnedBy(d, d[c]) /\ s # 3
      BY <3>1
    <3>3. e[s] = d[s]
      BY <3>2
    <3> QED
      BY <3>1, <3>3
  <2> QED
    BY <2>1, <2>2
<1>6. DirOn(e) = DirOn(d)
  <2>1. \A s \in HeadersOn(d) : e[s].type = d[s].type
    BY <1>4
  <2> QED
    BY <1>5, <2>1 DEF DirOn
<1>7. ASSUME NEW s \in HeadersOn(d)
      PROVE  /\ e[s].self = s /\ HeaderOk(e, e[s])
             /\ OwnedBy(e, e[s]) \subseteq FetchMap(e)
  <2>1. d[s].self = s /\ OwnedBy(d, d[s]) \subseteq FetchMap(d)
    BY SectorsFacts
  <2> QED
    BY <1>4, <2>1
<1>8. ASSUME NEW s \in HeadersOn(d), s # c
      PROVE  OwnedBy(e, e[s]) \intersect OwnedBy(e, h) = {}
  <2>1. /\ OwnedBy(d, d[s]) \intersect OwnedBy(d, d[c]) = {}
        /\ OwnedBy(d, d[s]) \subseteq FetchMap(d)
    BY <1>1, <1>8, SectorsFacts
  <2>2. OwnedBy(e, e[s]) = OwnedBy(d, d[s])
    BY <1>4, <1>8
  <2> QED
    BY <2>1, <2>2
<1>9. ASSUME NEW s \in HeadersOn(d), NEW t \in HeadersOn(d), s # t
      PROVE  OwnedBy(e, e[s]) \intersect OwnedBy(e, e[t]) = {}
  <2>1. CASE s = c
    BY <1>8, <1>9, <2>1
  <2>2. CASE t = c
    BY <1>8, <1>9, <2>2
  <2>3. CASE s # c /\ t # c
    <3>1. OwnedBy(d, d[s]) \intersect OwnedBy(d, d[t]) = {}
      BY <1>9, SectorsFacts
    <3>2. OwnedBy(e, e[s]) = OwnedBy(d, d[s]) /\ OwnedBy(e, e[t]) = OwnedBy(d, d[t])
      BY <1>4, <2>3
    <3> QED
      BY <3>1, <3>2
  <2> QED
    BY <2>1, <2>2, <2>3
<1>10. HeadersOk(e)
  BY <1>5, <1>7, <1>9 DEF HeadersOk
<1>11. ASSUME NEW s \in DirOn(d) PROVE DirOk(e, s)
  <2>1. CASE s = c
    BY <2>1
  <2>2. CASE s # c
    <3>1. DirOk(d, s) /\ s \in HeadersOn(d)
      BY SectorsFacts
    <3>2. e[s] = d[s] /\ FetchDirectory(e, e[s]) = FetchDirectory(d, d[s])
      BY <1>4, <2>2, <3>1
    <3> QED
      BY <3>1, <3>2 DEF DirOk
  <2> QED
    BY <2>1, <2>2
<1>12. e[0] = freeMapHdr
  <2>1. 0 \in HeadersOn(d) /\ d[0] = freeMapHdr
    BY SectorsFacts, SectorFacts
  <2> QED
    BY <1>1, <1>4, <2>1
<1>13. 2 \in HeadersOn(e) /\ e[2].type = "TYPE_PIPE"
  <2>1. 2 \in HeadersOn(d) /\ d[2].type = "TYPE_PIPE"
    BY SectorsFacts
  <2> QED
    BY <1>4, <1>5, <2>1
<1>14. SectorsOk(e)
  BY <1>6, <1>10, <1>11, <1>12, <1>13
  DEF SectorsOk, FreeMapSector, DirectorySector, PipeSector
<1>15. \A t \in DirOn(d) \ {c} : FetchDirectory(e, e[t]) = FetchDirectory(d, d[t])
  <2>1. DirOn(d) \subseteq HeadersOn(d)
    BY DEF DirOn
  <2> QED
    BY <1>4, <2>1
<1>16. \A t \in HeadersOn(d) \ {c} : OwnedBy(e, e[t]) = OwnedBy(d, d[t])
  BY <1>4
<1> QED
  BY <1>5, <1>6, <1>14, <1>15, <1>16

(* Sectors of data and free sectors are no headers.                        *)
LEMMA NoHeader ==
  ASSUME NEW d, SectorsOk(d)
  PROVE  /\ d[3].kind # "header" /\ 3 \in Sector /\ FetchMap(d) = d[3].used
         /\ \A s \in Sector \ FetchMap(d) : d[s].kind # "header"
<1>1. d[3].kind # "header"
  <2>1. 3 \in OwnedBy(d, d[0]) /\ 0 \in HeadersOn(d) /\ 3 \in Sector /\ 3 # 0
    BY SectorsFacts, SectorFacts
  <2> QED
    BY <2>1, SectorsFacts
<1>2. \A s \in Sector \ FetchMap(d) : d[s].kind # "header"
  <2>1. HeadersOn(d) \subseteq FetchMap(d)
    BY SectorsFacts
  <2> QED
    BY <2>1 DEF HeadersOn
<1>3. FetchMap(d) = d[3].used
  BY SectorFacts DEF FetchMap
<1> QED
  BY <1>1, <1>2, <1>3, SectorFacts

(* Directory::WriteBack leaves the header as it was.                       *)
LEMMA TableWritten ==
  ASSUME NEW d, DOMAIN d = Sector, NEW h, HeaderOk(d, h),
         h.nsectors = DirSectors, h.limit = NumDirEntries + 1,
         NEW dir, IsTable(dir.table),
         NEW w, w = WriteDirectory(d, h, dir), NEW e, e = w.disk
  PROVE  /\ ~w.abort /\ HeaderOk(e, h) /\ OwnedBy(e, h) = OwnedBy(d, h)
         /\ DOMAIN e = Sector /\ e[h.self] = h
         /\ \A s \in Sector \ OwnedBy(d, h) : e[s] = d[s]
         /\ HasIndirect(h) => e[Indirect(h)] = d[Indirect(h)]
         /\ \A n \in 0..(h.nsectors - 1) :
              \/ e[ByteToSector(d, h, n)] = d[ByteToSector(d, h, n)]
              \/ e[ByteToSector(d, h, n)].kind = "words"
         /\ FetchDirectory(e, h).sector = dir.sector
         /\ \A i \in 1..NumDirEntries : FetchDirectory(e, h).table[i] = dir.table[i]
<1>1. NumDirEntries + 1 <= FileCapacity(h)
  BY ConstantFacts DEF FileCapacity
<1>2. h = WithLimit(h, NumDirEntries + 1)
  <2>1. h \in HeaderRecord
    BY DEF HeaderOk
  <2> QED
    BY <2>1 DEF WithLimit, HeaderRecord
<1> QED
  BY <1>1, <1>2, WriteDirectoryFacts

(* Directory::WriteBack changes the table and nothing else.                *)
(* The marked sectors outside X are as before, but for the bit map's.      *)
MarkedKept(d, e, X) == \A s \in FetchMap(d) \ X : s # 3 => e[s] = d[s]

LEMMA DirectoryWritten ==
  ASSUME NEW d, SectorsOk(d), NEW c \in DirOn(d),
         NEW dir, IsTable(dir.table), dir.sector = c,
         NEW w, w = WriteDirectory(d, d[c], dir), NEW e, e = w.disk
  PROVE  /\ ~w.abort /\ SectorsOk(e) /\ FetchMap(e) = FetchMap(d)
         /\ HeadersOn(e) = HeadersOn(d) /\ DirOn(e) = DirOn(d)
         /\ \A s \in HeadersOn(d) : e[s] = d[s] /\ OwnedBy(e, e[s]) = OwnedBy(d, d[s])
         /\ \A t \in DirOn(d) \ {c} : FetchDirectory(e, e[t]) = FetchDirectory(d, d[t])
         /\ \A i \in 1..NumDirEntries : EntryAt(e, c, i) = dir.table[i]
         /\ MarkedKept(d, e, OwnedBy(d, d[c]))
<1>1. PICK h : h = d[c]
  OBVIOUS
<1>2. /\ c \in HeadersOn(d) /\ c # 0 /\ c \in Sector /\ DirOk(d, c)
      /\ HeaderOk(d, h) /\ h.self = c /\ DOMAIN d = Sector
      /\ OwnedBy(d, h) \subseteq FetchMap(d) /\ 3 \notin OwnedBy(d, h)
      /\ h.type = "TYPE_DIR"
  BY <1>1, SectorsFacts
<1>3. h.nsectors = DirSectors /\ h.limit = NumDirEntries + 1
  BY <1>1, <1>2 DEF DirOk
<1>4. /\ ~w.abort /\ HeaderOk(e, h) /\ OwnedBy(e, h) = OwnedBy(d, h)
      /\ DOMAIN e = Sector /\ e[h.self] = h
      /\ \A s \in Sector \ OwnedBy(d, h) : e[s] = d[s]
      /\ HasIndirect(h) => e[Indirect(h)] = d[Indirect(h)]
      /\ \A n \in 0..(h.nsectors - 1) :
           \/ e[ByteToSector(d, h, n)] = d[ByteToSector(d, h, n)]
           \/ e[ByteToSector(d, h, n)].kind = "words"
      /\ FetchDirectory(e, h).sector = dir.sector
      /\ \A i \in 1..NumDirEntries : FetchDirectory(e, h).table[i] = dir.table[i]
  <2>1. w = WriteDirectory(d, h, dir)
    BY <1>1
  <2>2. HeaderOk(d, h) /\ DOMAIN d = Sector
    BY <1>2
  <2> QED
    BY <1>3, <2>1, <2>2, TableWritten
<1>5. e[c] = h /\ HeaderOk(e, h) /\ OwnedBy(e, h) = OwnedBy(d, h)
  BY <1>2, <1>4
<1>6. ASSUME NEW s \in HeadersOn(d) PROVE e[s] = d[s]
  <2>1. CASE s = c
    BY <1>1, <1>5, <2>1
  <2>2. CASE s # c
    <3>1. /\ s \in OwnedBy(d, d[s]) /\ s \in Sector
          /\ OwnedBy(d, d[s]) \intersect OwnedBy(d, d[c]) = {}
      BY <1>2, <2>2, SectorsFacts
    <3> QED
      BY <1>1, <1>4, <3>1
  <2> QED
    BY <2>1, <2>2
<1>7. FetchMap(e) = FetchMap(d) /\ e[3] = d[3]
  <2>1. e[3] = d[3]
    BY <1>2, <1>4, NoHeader
  <2> QED
    BY <2>1, SectorFacts DEF FetchMap
<1>8. ASSUME NEW s \in Sector, s \notin FetchMap(d) \/ s \in OwnedBy(d, d[c]) \/ s = 3
       PROVE  s = c \/ e[s].kind # "header"
  <2>1. CASE s \notin FetchMap(d)
    <3>1. d[s].kind # "header"
      BY <2>1, NoHeader
    <3> QED
      BY <1>2, <1>4, <2>1, <3>1
  <2>2. CASE s \in OwnedBy(d, d[c]) /\ s # c
    <3>1. d[s].kind # "header"
      BY <1>2, <2>2, SectorsFacts
    <3>2. \/ s \in {ByteToSector(d, h, n) : n \in 0..(h.nsectors - 1)}
          \/ HasIndirect(h) /\ s = Indirect(h)
      <4>1. OwnedBy(d, h) = {ByteToSector(d, h, n) : n \in 0..(h.nsectors - 1)}
              \union {h.self} \union (IF HasIndirect(h) THEN {Indirect(h)} ELSE {})
        BY <1>2, SlotFacts
      <4> QED
        BY <1>1, <1>2, <2>2, <4>1
    <3>3. e[s] = d[s] \/ e[s].kind = "words"
      BY <1>4, <3>2
    <3> QED
      BY <3>1, <3>3
  <2>3. CASE s = 3
    BY <1>7, <2>3, NoHeader
  <2> QED
    BY <1>8, <2>1, <2>2, <2>3
<1>9. DirOk(e, c)
  <2>1. FetchDirectory(e, e[c]).sector = c
    BY <1>4, <1>5
  <2> QED
    BY <1>3, <1>5, <2>1 DEF DirOk
<1>10. e[1] = directoryHdr
  BY <1>6, SectorsFacts
<1>11. /\ SectorsOk(e) /\ HeadersOn(e) = HeadersOn(d) /\ DirOn(e) = DirOn(d)
       /\ \A t \in DirOn(d) \ {c} : FetchDirectory(e, e[t]) = FetchDirectory(d, d[t])
       /\ \A t \in HeadersOn(d) \ {c} : OwnedBy(e, e[t]) = OwnedBy(d, d[t])
  <2>1. c \in HeadersOn(d) \ {0} /\ DOMAIN e = Sector
    BY <1>2, <1>4
  <2>2. e[c] = h /\ HeaderOk(e, h) /\ h.self = c /\ h.type = d[c].type
    BY <1>1, <1>2, <1>5
  <2>3. FetchMap(e) \subseteq Sector /\ FetchMap(d) \subseteq FetchMap(e)
    BY <1>7, SectorsFacts
  <2>4. /\ OwnedBy(e, h) \subseteq FetchMap(e)
        /\ OwnedBy(e, h) \intersect FetchMap(d) \subseteq OwnedBy(d, d[c])
    BY <1>1, <1>2, <1>5, <1>7
  <2>5. \A s \in FetchMap(d) \ OwnedBy(d, d[c]) : s # 3 => e[s] = d[s]
    <3>1. FetchMap(d) \subseteq Sector
      BY SectorsFacts
    <3> QED
      BY <1>1, <1>4, <3>1
  <2> QED
    BY <1>8, <1>9, <1>10, <2>1, <2>2, <2>3, <2>4, <2>5, HeaderReplaced
<1>12. \A i \in 1..NumDirEntries : EntryAt(e, c, i) = dir.table[i]
  BY <1>4, <1>5 DEF EntryAt
<1>13. \A s \in HeadersOn(d) : OwnedBy(e, e[s]) = OwnedBy(d, d[s])
  BY <1>1, <1>5, <1>11
<1>14. MarkedKept(d, e, OwnedBy(d, d[c]))
  <2>1. FetchMap(d) \subseteq Sector
    BY SectorsFacts
  <2> QED
    BY <1>1, <1>4, <2>1 DEF MarkedKept
<1> QED
  BY <1>4, <1>6, <1>7, <1>11, <1>12, <1>13, <1>14

-----------------------------------------------------------------------------
(* FileHeader::Allocate.  Where there is room for what Extend appends.     *)
Room(h, used, direct, new, rest) ==
  /\ direct \in Nat /\ rest \in Nat
  /\ new = IF rest > 0 /\ Indirect(h) = 0 THEN 1 ELSE 0
  /\ direct > 0 => h.nsectors + direct <= NumDirect
  /\ rest > 0 => h.nsectors + direct >= NumDirect
  /\ h.nsectors + direct + rest <= NumDirect + SectorSize
  /\ direct + new + rest <= NumClear(used)

LEMMA RoomFacts ==
  ASSUME NEW d, NEW h, HeaderOk(d, h), NEW used, NEW direct, NEW new, NEW rest,
         Room(h, used, direct, new, rest)
  PROVE  /\ direct \in Nat /\ rest \in Nat /\ new \in {0, 1} /\ h.nsectors \in Nat
         /\ h.nsectors + direct + rest \in 0..(NumDirect + SectorSize)
         /\ rest = 0 => new = 0
         /\ rest > 0 => h.nsectors + direct - NumDirect \in 0..(SectorSize - rest)
         /\ rest > 0 => \A j \in Nat : j > 0 =>
              (j <= h.nsectors - NumDirect <=> j <= h.nsectors + direct - NumDirect)
         /\ new = 1 => ~HasIndirect(h)
         /\ new = 0 /\ rest > 0 => HasIndirect(h)
         /\ direct > 0 => h.nsectors + direct <= NumDirect
         /\ rest > 0 => h.nsectors + direct >= NumDirect
         /\ HasIndirect(h) <=> h.nsectors > NumDirect
         /\ HasIndirect(h) <=> Indirect(h) # 0
         /\ \A i \in 1..(direct + new + rest) :
              NthClear(used, i) \in Sector \ used
         /\ \A i, j \in 1..(direct + new + rest) :
              NthClear(used, i) = NthClear(used, j) => i = j
<1>1. h.nsectors \in Nat /\ IndirectOk(d, h) /\ h \in HeaderRecord
  BY RecordFacts DEF HeaderOk
<1>2. NumDirect \in Nat /\ SectorSize \in Nat
  BY ConstantFacts
<1>3. direct \in Nat /\ rest \in Nat /\ new \in {0, 1}
  BY DEF Room
<1>4. h.nsectors + direct + rest \in 0..(NumDirect + SectorSize)
  BY <1>1, <1>2, <1>3 DEF Room
<1>5. rest = 0 => new = 0
  BY <1>3 DEF Room
<1>6. rest > 0 => h.nsectors + direct - NumDirect \in 0..(SectorSize - rest)
  BY <1>1, <1>2, <1>3 DEF Room
<1>7. ASSUME rest > 0, NEW j \in Nat, j > 0
      PROVE  j <= h.nsectors - NumDirect <=> j <= h.nsectors + direct - NumDirect
  BY <1>1, <1>2, <1>3, <1>7 DEF Room
<1>8. /\ HasIndirect(h) <=> h.nsectors > NumDirect
      /\ HasIndirect(h) <=> Indirect(h) # 0
  BY <1>1, RecordFacts DEF IndirectOk
<1>9. /\ new = 1 => ~HasIndirect(h)
      /\ new = 0 /\ rest > 0 => HasIndirect(h)
  BY <1>8 DEF Room
<1>10. NumClear(used) \in Nat
  BY NumClearFacts
<1>11. ASSUME NEW i \in 1..(direct + new + rest)
       PROVE  i \in Nat /\ i >= 1 /\ i <= NumClear(used)
  <2>1. direct + new + rest <= NumClear(used)
    BY DEF Room
  <2> QED
    BY <1>3, <1>10, <2>1
<1>12. ASSUME NEW i \in 1..(direct + new + rest)
       PROVE  NthClear(used, i) \in Sector \ used
  BY <1>11, NthClearFacts
<1>13. ASSUME NEW i \in 1..(direct + new + rest), NEW j \in 1..(direct + new + rest),
              NthClear(used, i) = NthClear(used, j)
       PROVE  i = j
  BY <1>11, <1>13, NthClearDiffer
<1> QED
  BY <1>1, <1>3, <1>4, <1>5, <1>6, <1>7, <1>8, <1>9, <1>12, <1>13 DEF Room

(* The header that Extend leaves.                                          *)
LEMMA ExtendHeader ==
  ASSUME NEW d, DOMAIN d = Sector, NEW h, HeaderOk(d, h),
         NEW used, used \subseteq Sector, 0 \in used,
         NEW direct, NEW new, NEW rest, Room(h, used, direct, new, rest),
         NEW a, a = Extend(d, used, h, direct, new, rest), NEW g, g = a.hdr
  PROVE  /\ a.result = "ok"
         /\ a.used = used \union {NthClear(used, i) : i \in 1..(direct + new + rest)}
         /\ g \in HeaderRecord /\ g.self = h.self /\ g.type = h.type
         /\ g.limit = h.limit /\ g.nsectors = h.nsectors + direct + rest
         /\ \A i \in 1..NumDirect :
              g.data[i] = IF i > h.nsectors /\ i <= h.nsectors + direct
                          THEN NthClear(used, i - h.nsectors) ELSE h.data[i]
         /\ Indirect(g) = IF new = 1 THEN NthClear(used, direct + 1) ELSE Indirect(h)
         /\ rest = 0 => a.disk = d
<1> DEFINE inode == IF new = 1 THEN NthClear(used, direct + 1) ELSE h.data[NumDirect + 1]
           n == h.nsectors + direct + rest
           at(i) == IF i = NumDirect + 1 THEN inode
                    ELSE IF i > h.nsectors /\ i <= h.nsectors + direct
                         THEN NthClear(used, i - h.nsectors) ELSE h.data[i]
           data == [i \in 1..(NumDirect + 1) |-> at(i)]
<1>1. /\ direct \in Nat /\ rest \in Nat /\ new \in {0, 1} /\ h.nsectors \in Nat
      /\ n \in 0..(NumDirect + SectorSize)
      /\ \A i \in 1..(direct + new + rest) : NthClear(used, i) \in Sector \ used
      /\ rest = 0 => new = 0
  BY RoomFacts
<1>2. h \in HeaderRecord /\ \A i \in 1..(NumDirect + 1) : h.data[i] \in Nat
  BY RecordFacts DEF HeaderOk
<1>3. NumDirect \in Nat /\ NumInDirect = SectorSize /\ Sector \subseteq Nat
  BY ConstantFacts, SectorFacts
<1>4. /\ a.result = "ok"
      /\ a.used = used \union {NthClear(used, i) : i \in 1..(direct + new + rest)}
      /\ rest = 0 => a.disk = d
  BY DEF Extend
<1>5. g = [h EXCEPT !.nsectors = @ + direct + rest, !.data =
             [i \in 1..(NumDirect + 1) |->
               IF i = NumDirect + 1 THEN inode
               ELSE IF i > h.nsectors /\ i <= h.nsectors + direct
                    THEN NthClear(used, i - h.nsectors) ELSE @[i]]]
  BY DEF Extend
<1>6. g = [h EXCEPT !.nsectors = n, !.data = data]
  BY <1>2, <1>5 DEF HeaderRecord
<1>7. ASSUME NEW i \in 1..(NumDirect + 1) PROVE at(i) \in Nat
  <2>1. CASE i = NumDirect + 1
    <3>1. CASE new = 1
      <4>1. direct + 1 \in 1..(direct + new + rest)
        BY <1>1, <3>1
      <4> QED
        BY <1>1, <1>3, <2>1, <3>1, <4>1
    <3>2. CASE new # 1
      BY <1>2, <2>1, <3>2
    <3> QED
      BY <3>1, <3>2
  <2>2. CASE i # NumDirect + 1 /\ i > h.nsectors /\ i <= h.nsectors + direct
    <3>1. i - h.nsectors \in 1..(direct + new + rest)
      BY <1>1, <1>3, <2>2
    <3> QED
      BY <1>1, <1>3, <2>2, <3>1
  <2>3. CASE i # NumDirect + 1 /\ ~(i > h.nsectors /\ i <= h.nsectors + direct)
    BY <1>2, <2>3
  <2> QED
    BY <2>1, <2>2, <2>3
<1> HIDE DEF at, n
<1>8. data \in [1..(NumDirect + 1) -> Nat] /\ \A i \in 1..(NumDirect + 1) : data[i] = at(i)
  BY <1>7
<1> HIDE DEF data
<1>9. /\ g \in HeaderRecord /\ g.self = h.self /\ g.type = h.type
      /\ g.limit = h.limit /\ g.nsectors = n /\ g.data = data
  BY <1>1, <1>2, <1>3, <1>6, <1>8 DEF HeaderRecord
<1>10. ASSUME NEW i \in 1..NumDirect
       PROVE  g.data[i] = IF i > h.nsectors /\ i <= h.nsectors + direct
                          THEN NthClear(used, i - h.nsectors) ELSE h.data[i]
  <2>1. i \in 1..(NumDirect + 1) /\ i # NumDirect + 1
    BY <1>3
  <2> QED
    BY <1>8, <1>9, <2>1 DEF at
<1>11. Indirect(g) = IF new = 1 THEN NthClear(used, direct + 1) ELSE Indirect(h)
  <2>1. NumDirect + 1 \in 1..(NumDirect + 1)
    BY <1>3
  <2> QED
    BY <1>8, <1>9, <2>1 DEF at, Indirect
<1> QED
  BY <1>4, <1>9, <1>10, <1>11 DEF n

(* The empty entries of an indirect block, counted.                        *)
LEMMA EmptyEntries ==
  ASSUME NEW q \in Nat, NEW i \in 1..SectorSize, NEW old,
         \A j \in 1..SectorSize : old[j] = 0 <=> j > q
  PROVE  i > q => Cardinality({j \in 1..i : old[j] = 0}) = i - q
<1> SUFFICES ASSUME i > q PROVE Cardinality({j \in 1..i : old[j] = 0}) = i - q
  OBVIOUS
<1>1. SectorSize \in Nat /\ i \in Nat
  BY ConstantFacts
<1>2. {j \in 1..i : old[j] = 0} = (q + 1)..i
  <2>1. \A j \in 1..i : j \in 1..SectorSize
    BY <1>1
  <2> QED
    BY <1>1, <2>1
<1>3. Cardinality((q + 1)..i) = i - q
  <2>1. PICK a \in Int : a = q + 1
    OBVIOUS
  <2>2. i \in Int /\ ~(a > i)
    BY <1>1, <2>1
  <2>3. Cardinality(a..i) = i - a + 1
    BY <2>2, FS_Interval
  <2>4. i - a + 1 = i - q
    BY <1>1, <2>1
  <2> QED
    BY <2>1, <2>3, <2>4
<1> QED
  BY <1>2, <1>3

(* The indirect block that Extend leaves.                                  *)
LEMMA ExtendIndirect ==
  ASSUME NEW d, DOMAIN d = Sector, NEW h, HeaderOk(d, h),
         NEW used, used \subseteq Sector, 0 \in used,
         NEW direct, NEW new, NEW rest, Room(h, used, direct, new, rest),
         NEW a, a = Extend(d, used, h, direct, new, rest), NEW g, g = a.hdr,
         NEW e, e = a.disk
  PROVE  /\ DOMAIN e = Sector /\ IndirectOk(e, g)
         /\ \A s \in Sector : \/ e[s] = d[s]
                              \/ HasIndirect(g) /\ s = Indirect(g) /\ e[s].kind = "words"
         /\ HasIndirect(g) <=> new = 1 \/ HasIndirect(h)
         /\ HasIndirect(g) => Indirect(g) \in Sector \ {0}
         /\ rest = 0 => InDirect(e, g) = InDirect(d, h)
         /\ rest > 0 => \A i \in 1..SectorSize :
              InDirect(e, g)[i] =
                IF i <= h.nsectors + direct - NumDirect THEN InDirect(d, h)[i]
                ELSE IF i <= h.nsectors + direct + rest - NumDirect
                THEN NthClear(used, direct + new
                                    + (i - (h.nsectors + direct - NumDirect)))
                ELSE 0
<1> DEFINE m == h.nsectors
           q == m + direct - NumDirect
           F(i) == NthClear(used, i)
           inode == IF new = 1 THEN F(direct + 1) ELSE h.data[NumDirect + 1]
           old == InDirect(d, h)
           empty(i) == Cardinality({j \in 1..i : old[j] = 0})
           entry(i) == Number(IF old[i] = 0 /\ empty(i) <= rest
                              THEN F(direct + new + empty(i)) ELSE old[i])
           inDirect == [i \in 1..SectorSize |-> entry(i)]
           value(i) == IF i <= q THEN old[i]
                       ELSE IF i <= m + direct + rest - NumDirect
                       THEN F(direct + new + (i - q)) ELSE 0
<1>1. /\ direct \in Nat /\ rest \in Nat /\ new \in {0, 1} /\ m \in Nat
      /\ m + direct + rest \in 0..(NumDirect + SectorSize)
      /\ rest = 0 => new = 0
      /\ rest > 0 => q \in 0..(SectorSize - rest)
      /\ rest > 0 => \A j \in Nat : j > 0 => (j <= m - NumDirect <=> j <= q)
      /\ new = 1 => ~HasIndirect(h)
      /\ new = 0 /\ rest > 0 => HasIndirect(h)
      /\ direct > 0 => m + direct <= NumDirect
      /\ rest > 0 => m + direct >= NumDirect
      /\ HasIndirect(h) <=> m > NumDirect
      /\ HasIndirect(h) <=> Indirect(h) # 0
      /\ \A i \in 1..(direct + new + rest) : F(i) \in Sector \ used
  BY RoomFacts
<1>2. NumDirect \in Nat /\ SectorSize \in Nat /\ NumInDirect = SectorSize
  BY ConstantFacts
<1>3. /\ h \in HeaderRecord /\ IndirectOk(d, h)
      /\ DOMAIN old = 1..SectorSize
      /\ \A i \in 1..SectorSize :
           IF i <= m - NumDirect THEN old[i] \in Sector \ {0} ELSE old[i] = 0
  BY InDirectFacts DEF HeaderOk
<1>4. /\ g \in HeaderRecord /\ g.nsectors = m + direct + rest
      /\ Indirect(g) = inode
      /\ rest = 0 => a.disk = d
  BY ExtendHeader DEF Indirect
<1>5. HasIndirect(g) <=> m + direct + rest > NumDirect
  BY <1>4, RecordFacts
<1>6. HasIndirect(g) <=> new = 1 \/ HasIndirect(h)
  BY <1>1, <1>2, <1>5
<1>7. HasIndirect(g) => Indirect(g) \in Sector \ {0}
  <2>1. CASE new = 1
    <3>1. direct + 1 \in 1..(direct + new + rest)
      BY <1>1, <2>1
    <3> QED
      BY <1>1, <1>4, <2>1, <3>1
  <2>2. CASE new = 0 /\ HasIndirect(h)
    BY <1>3, <1>4, <2>2 DEF IndirectOk, Indirect
  <2> QED
    BY <1>1, <1>6, <2>1, <2>2
<1>8. CASE rest = 0
  <2>1. e = d /\ new = 0 /\ inode = h.data[NumDirect + 1]
    BY <1>1, <1>4, <1>8
  <2>2. Indirect(g) = Indirect(h) /\ (HasIndirect(g) <=> HasIndirect(h))
    BY <1>1, <1>4, <1>6, <2>1 DEF Indirect
  <2>3. InDirect(e, g) = InDirect(d, h)
    BY <2>1, <2>2 DEF InDirect, Indirect
  <2>4. ASSUME HasIndirect(h) PROVE g.nsectors = h.nsectors
    BY <1>1, <1>2, <1>4, <1>8, <2>4
  <2>5. IndirectOk(e, g)
    BY <1>3, <2>1, <2>2, <2>4 DEF IndirectOk
  <2> QED
    BY <1>6, <1>7, <1>8, <2>1, <2>3, <2>5
<1>9. CASE rest > 0
  <2>1. HasIndirect(g)
    BY <1>1, <1>6, <1>9
  <2>2. e = [d EXCEPT ![inode] = Words(inDirect)]
    BY <1>1, <1>2, <1>9 DEF Extend
  <2>3. inode \in Sector \ {0} /\ inode = Indirect(g)
    BY <1>4, <1>7, <2>1
  <2> HIDE DEF inode
  <2>4. ASSUME NEW i \in 1..SectorSize PROVE entry(i) = Number(value(i))
    <3>1. old[i] = 0 <=> i > q
      <4>1. i \in Nat /\ i > 0 /\ q \in Int
        BY <1>1, <1>2
      <4> QED
        BY <1>1, <1>3, <1>9, <4>1
    <3>2. i > q => empty(i) = i - q
      <4>1. \A j \in 1..SectorSize : old[j] = 0 <=> j > q
        <5>1. ASSUME NEW j \in 1..SectorSize PROVE old[j] = 0 <=> j > q
          <6>1. j \in Nat /\ j > 0 /\ q \in Int
            BY <1>1, <1>2
          <6> QED
            BY <1>1, <1>3, <1>9, <6>1
        <5> QED
          BY <5>1
      <4>2. q \in Nat
        BY <1>1, <1>2, <1>9
      <4> HIDE DEF old, q
      <4> QED
        BY <4>1, <4>2, EmptyEntries
    <3>3. i > q => (i - q <= rest <=> i <= m + direct + rest - NumDirect)
      BY <1>1, <1>2
    <3> HIDE DEF empty, old
    <3>4. CASE i > q
      <4>1. ~(i <= q)
        BY <1>1, <1>2, <3>4
      <4>2. CASE i - q <= rest
        BY <3>1, <3>2, <3>3, <3>4, <4>1, <4>2
      <4>3. CASE ~(i - q <= rest)
        BY <3>1, <3>2, <3>3, <3>4, <4>1, <4>3
      <4> QED
        BY <4>2, <4>3
    <3>5. CASE ~(i > q)
      <4>1. i <= q
        BY <1>1, <1>2, <3>5
      <4> QED
        BY <3>1, <3>5, <4>1
    <3> QED
      BY <3>4, <3>5
  <2>5. DOMAIN inDirect = 1..SectorSize /\ inDirect = [i \in 1..SectorSize |-> inDirect[i]]
    OBVIOUS
  <2>6. \A i \in 1..SectorSize : inDirect[i] = Number(value(i))
    BY <2>4
  <2> HIDE DEF inDirect, entry
  <2>7. /\ Words(inDirect).kind = "words" /\ DOMAIN Words(inDirect).words = 1..SectorSize
        /\ \A i \in 1..SectorSize : Words(inDirect).words[i] = inDirect[i]
    BY <2>5, WordsFacts
  <2>8. PICK b : b = Words(inDirect)
    OBVIOUS
  <2>9. /\ DOMAIN e = Sector /\ e[inode] = b
        /\ \A s \in Sector : s # inode => e[s] = d[s]
    BY <2>2, <2>3, <2>8
  <2>10. /\ b.kind = "words" /\ DOMAIN b.words = 1..SectorSize
         /\ \A i \in 1..SectorSize : b.words[i][2] = value(i)
    BY <2>6, <2>7, <2>8 DEF Number
  <2> HIDE DEF value
  <2>11. /\ DOMAIN InDirect(e, g) = 1..SectorSize
         /\ \A i \in 1..SectorSize : InDirect(e, g)[i] = value(i)
    <3>1. InDirect(e, g) = Numbers(b.words)
      BY <2>3, <2>9, <2>10 DEF InDirect, Indirect
    <3> QED
      BY <2>10, <3>1 DEF Numbers
  <2>12. ASSUME NEW i \in 1..SectorSize
         PROVE  IF i <= g.nsectors - NumDirect
                THEN value(i) \in Sector \ {0} ELSE value(i) = 0
    <3>1. i \in Nat /\ i > 0 /\ q \in Int /\ g.nsectors - NumDirect = q + rest
      BY <1>1, <1>2, <1>4
    <3>2. CASE i <= q
      <4>1. i <= m - NumDirect
        BY <1>1, <1>9, <3>1, <3>2
      <4>2. i <= g.nsectors - NumDirect
        BY <1>1, <3>1, <3>2
      <4> QED
        BY <1>3, <3>2, <4>1, <4>2 DEF value
    <3>3. CASE ~(i <= q) /\ i <= g.nsectors - NumDirect
      <4>1. direct + new + (i - q) \in 1..(direct + new + rest)
        BY <1>1, <3>1, <3>3
      <4>2. value(i) = F(direct + new + (i - q))
        <5>1. i <= m + direct + rest - NumDirect
          <6>1. g.nsectors = m + direct + rest
            BY <1>4
          <6> QED
            BY <1>1, <1>2, <3>1, <3>3, <6>1
        <5> HIDE DEF q, F, m, old
        <5> QED
          BY <3>3, <5>1 DEF value
      <4> QED
        BY <1>1, <3>3, <4>1, <4>2
    <3>4. CASE ~(i <= q) /\ ~(i <= g.nsectors - NumDirect)
      <4>1. ~(i <= m + direct + rest - NumDirect)
        <5>1. g.nsectors = m + direct + rest
          BY <1>4
        <5> QED
          BY <1>1, <1>2, <3>1, <3>4, <5>1
      <4> HIDE DEF q, F, m, old
      <4> QED
        BY <3>4, <4>1 DEF value
    <3> QED
      <4>1. i <= q \/ (~(i <= q) /\ i <= g.nsectors - NumDirect)
              \/ (~(i <= q) /\ ~(i <= g.nsectors - NumDirect))
        OBVIOUS
      <4> QED
        BY <3>2, <3>3, <3>4, <4>1
  <2>13. IndirectOk(e, g)
    BY <2>1, <2>3, <2>9, <2>10, <2>12 DEF IndirectOk
  <2>14. \A s \in Sector :
           \/ e[s] = d[s]
           \/ HasIndirect(g) /\ s = Indirect(g) /\ e[s].kind = "words"
    BY <2>1, <2>3, <2>9, <2>10
  <2> QED
    BY <1>1, <1>6, <1>7, <1>9, <2>9, <2>11, <2>13, <2>14 DEF value
<1> QED
  BY <1>1, <1>8, <1>9

(* What Extend leaves in the slots of the header: one of the sectors that  *)
(* were there before, or one that FindAndSet returned.  There were m       *)
(* sectors of data and there are n now.                                    *)
IsKept(m, n, new, k) == k < m \/ k = n \/ (k = n + 1 /\ new = 0)
KeptSlot(m, n, k) == IF k < m THEN k ELSE IF k = n THEN m ELSE m + 1
NewIndex(m, n, direct, new, k) ==
  IF k < m + direct THEN k + 1 - m ELSE IF k < n THEN k + 1 - m + new ELSE direct + 1

LEMMA KeptOnce ==
  ASSUME NEW m \in Nat, NEW n \in Nat, m <= n, NEW new, NEW k \in Nat, NEW l \in Nat,
         IsKept(m, n, new, k), IsKept(m, n, new, l),
         KeptSlot(m, n, k) = KeptSlot(m, n, l)
  PROVE  k = l
<1>1. /\ k < m \/ k = n \/ k = n + 1
      /\ l < m \/ l = n \/ l = n + 1
  BY DEF IsKept
<1>2. (IF k < m THEN k ELSE IF k = n THEN m ELSE m + 1) =
        (IF l < m THEN l ELSE IF l = n THEN m ELSE m + 1)
  BY DEF KeptSlot
<1> QED
  BY <1>1, <1>2

LEMMA NewOnce ==
  ASSUME NEW m \in Nat, NEW direct \in Nat, NEW n \in Nat, m + direct <= n,
         NEW new \in {0, 1}, NEW k \in Nat, NEW l \in Nat, k <= n + 1, l <= n + 1,
         ~IsKept(m, n, new, k), ~IsKept(m, n, new, l),
         NewIndex(m, n, direct, new, k) = NewIndex(m, n, direct, new, l)
  PROVE  k = l
<1>1. /\ ~(k < m) /\ (k < n \/ (k = n + 1 /\ new = 1))
      /\ ~(l < m) /\ (l < n \/ (l = n + 1 /\ new = 1))
  BY DEF IsKept
<1>2. (IF k < m + direct THEN k + 1 - m ELSE IF k < n THEN k + 1 - m + new ELSE direct + 1) =
        (IF l < m + direct THEN l + 1 - m ELSE IF l < n THEN l + 1 - m + new ELSE direct + 1)
  BY DEF NewIndex
<1>3. CASE new = 0
  BY <1>1, <1>2, <1>3
<1>4. CASE new = 1
  <2>1. CASE k < m + direct
    BY <1>1, <1>2, <1>4, <2>1
  <2>2. CASE ~(k < m + direct) /\ k < n
    BY <1>1, <1>2, <1>4, <2>2
  <2>3. CASE ~(k < m + direct) /\ ~(k < n)
    BY <1>1, <1>2, <1>4, <2>3
  <2> QED
    BY <2>1, <2>2, <2>3
<1> QED
  BY <1>3, <1>4

LEMMA SlotNumbers ==
  ASSUME NEW d, NEW h, HeaderOk(d, h), NEW used, NEW direct, NEW new, NEW rest,
         Room(h, used, direct, new, rest),
         NEW g \in HeaderRecord, g.nsectors = h.nsectors + direct + rest,
         HasIndirect(g) <=> new = 1 \/ HasIndirect(h),
         NEW m, m = h.nsectors, NEW n, n = g.nsectors
  PROVE  /\ \A k \in Slots(g) :
              IF IsKept(m, n, new, k) THEN KeptSlot(m, n, k) \in Slots(h)
              ELSE NewIndex(m, n, direct, new, k) \in 1..(direct + new + rest)
         /\ \A k, l \in Slots(g) :
              IsKept(m, n, new, k) /\ IsKept(m, n, new, l) =>
                (KeptSlot(m, n, k) = KeptSlot(m, n, l) => k = l)
         /\ \A k, l \in Slots(g) :
              ~IsKept(m, n, new, k) /\ ~IsKept(m, n, new, l) =>
                (NewIndex(m, n, direct, new, k) = NewIndex(m, n, direct, new, l) => k = l)
<1>1. /\ m \in Nat /\ direct \in Nat /\ rest \in Nat /\ new \in {0, 1}
      /\ rest = 0 => new = 0
  BY RoomFacts
<1>2. n \in Nat /\ n = m + direct + rest
  BY <1>1
<1>3. /\ Slots(g) = 0..(IF HasIndirect(g) THEN n + 1 ELSE n)
      /\ Slots(h) = 0..(IF HasIndirect(h) THEN m + 1 ELSE m)
  BY DEF Slots
<1>4. ASSUME NEW k \in Slots(g)
      PROVE  k \in Nat /\ k <= n + 1 /\ (k = n + 1 => HasIndirect(g))
  BY <1>2, <1>3
<1>5. ASSUME NEW k \in Slots(g), IsKept(m, n, new, k)
      PROVE  KeptSlot(m, n, k) \in Slots(h)
  <2>1. k < m \/ k = n \/ (k = n + 1 /\ new = 0)
    BY <1>5 DEF IsKept
  <2>2. k = n + 1 /\ new = 0 => HasIndirect(h)
    BY <1>4
  <2> QED
    BY <1>1, <1>2, <1>3, <1>4, <2>1, <2>2 DEF KeptSlot
<1>6. ASSUME NEW k \in Slots(g), ~IsKept(m, n, new, k)
      PROVE  NewIndex(m, n, direct, new, k) \in 1..(direct + new + rest)
  <2>1. ~(k < m) /\ k # n /\ (k = n + 1 => new = 1)
    BY <1>1, <1>6 DEF IsKept
  <2> QED
    BY <1>1, <1>2, <1>4, <2>1 DEF NewIndex
<1>7. ASSUME NEW k \in Slots(g), NEW l \in Slots(g),
             IsKept(m, n, new, k), IsKept(m, n, new, l),
             KeptSlot(m, n, k) = KeptSlot(m, n, l)
      PROVE  k = l
  <2>1. k \in Nat /\ l \in Nat /\ m <= n
    BY <1>1, <1>2, <1>4
  <2> QED
    BY <1>1, <1>2, <1>7, <2>1, KeptOnce
<1>8. ASSUME NEW k \in Slots(g), NEW l \in Slots(g),
             ~IsKept(m, n, new, k), ~IsKept(m, n, new, l),
             NewIndex(m, n, direct, new, k) = NewIndex(m, n, direct, new, l)
      PROVE  k = l
  <2>1. k \in Nat /\ l \in Nat /\ k <= n + 1 /\ l <= n + 1 /\ m + direct <= n
    BY <1>1, <1>2, <1>4
  <2> QED
    BY <1>1, <1>2, <1>8, <2>1, NewOnce
<1> QED
  BY <1>5, <1>6, <1>7, <1>8

LEMMA ExtendSlots ==
  ASSUME NEW d, DOMAIN d = Sector, NEW h, HeaderOk(d, h),
         NEW used, used \subseteq Sector, 0 \in used,
         NEW direct, NEW new, NEW rest, Room(h, used, direct, new, rest),
         NEW a, a = Extend(d, used, h, direct, new, rest), NEW g, g = a.hdr,
         NEW e, e = a.disk, NEW m, m = h.nsectors, NEW n, n = g.nsectors
  PROVE  \A k \in Slots(g) :
           /\ IsKept(m, n, new, k) => SlotAt(e, g, k) = SlotAt(d, h, KeptSlot(m, n, k))
           /\ ~IsKept(m, n, new, k) =>
                SlotAt(e, g, k) = NthClear(used, NewIndex(m, n, direct, new, k))
<1> SUFFICES ASSUME NEW k \in Slots(g)
             PROVE  SlotAt(e, g, k) =
                      IF IsKept(m, n, new, k) THEN SlotAt(d, h, KeptSlot(m, n, k))
                      ELSE NthClear(used, NewIndex(m, n, direct, new, k))
  OBVIOUS
<1>1. /\ direct \in Nat /\ rest \in Nat /\ new \in {0, 1} /\ m \in Nat
      /\ m + direct + rest \in 0..(NumDirect + SectorSize)
      /\ rest = 0 => new = 0
      /\ rest > 0 => \A j \in Nat : j > 0 =>
           (j <= m - NumDirect <=> j <= m + direct - NumDirect)
      /\ direct > 0 => m + direct <= NumDirect
      /\ rest > 0 => m + direct >= NumDirect
  BY RoomFacts
<1>2. NumDirect \in Nat /\ SectorSize \in Nat
  BY ConstantFacts
<1>3. /\ n = m + direct + rest /\ n \in Nat /\ g.self = h.self
      /\ \A i \in 1..NumDirect :
           g.data[i] = IF i > m /\ i <= m + direct
                       THEN NthClear(used, i - m) ELSE h.data[i]
      /\ Indirect(g) = IF new = 1 THEN NthClear(used, direct + 1) ELSE Indirect(h)
  <2>1. /\ g.nsectors = h.nsectors + direct + rest /\ g.self = h.self
        /\ \A i \in 1..NumDirect :
              g.data[i] = IF i > h.nsectors /\ i <= h.nsectors + direct
                          THEN NthClear(used, i - h.nsectors) ELSE h.data[i]
        /\ Indirect(g) = IF new = 1 THEN NthClear(used, direct + 1) ELSE Indirect(h)
    BY ExtendHeader
  <2> QED
    BY <1>1, <2>1
<1>4. /\ rest = 0 => InDirect(e, g) = InDirect(d, h)
      /\ rest > 0 => \A i \in 1..SectorSize :
           InDirect(e, g)[i] =
             IF i <= m + direct - NumDirect THEN InDirect(d, h)[i]
             ELSE IF i <= m + direct + rest - NumDirect
             THEN NthClear(used, direct + new + (i - (m + direct - NumDirect)))
             ELSE 0
  BY ExtendIndirect
<1>5. k \in Nat /\ (k <= n \/ (k = n + 1 /\ HasIndirect(g)))
  <2>1. Slots(g) = 0..(IF HasIndirect(g) THEN n + 1 ELSE n)
    BY DEF Slots
  <2> QED
    BY <1>3, <2>1
<1>6. ASSUME NEW x \in Nat, x >= NumDirect, x < n
      PROVE  x - NumDirect + 1 \in 1..SectorSize
  BY <1>1, <1>2, <1>3, <1>6
<1>7. CASE k < m
  <2>1. IsKept(m, n, new, k) /\ KeptSlot(m, n, k) = k
    BY <1>7 DEF IsKept, KeptSlot
  <2>2. /\ SlotAt(e, g, k) = ByteToSector(e, g, k)
        /\ SlotAt(d, h, k) = ByteToSector(d, h, k)
    <3>1. k < n
      BY <1>1, <1>3, <1>5, <1>7
    <3> QED
      BY <1>7, <3>1 DEF SlotAt
  <2>3. CASE k < NumDirect
    <3>1. k + 1 \in 1..NumDirect /\ ~(k + 1 > m)
      BY <1>1, <1>2, <1>5, <1>7, <2>3
    <3>2. g.data[k + 1] = h.data[k + 1]
      BY <1>3, <3>1
    <3> QED
      BY <2>1, <2>2, <2>3, <3>2 DEF ByteToSector
  <2>4. CASE ~(k < NumDirect)
    <3>1. PICK i \in 1..SectorSize : i = k - NumDirect + 1
      BY <1>1, <1>2, <1>3, <1>5, <1>6, <1>7, <2>4
    <3>2. i \in Nat /\ i > 0 /\ i <= m - NumDirect
      BY <1>1, <1>2, <1>5, <1>7, <3>1
    <3>3. InDirect(e, g)[i] = InDirect(d, h)[i]
      BY <1>1, <1>4, <3>2
    <3> QED
      BY <2>1, <2>2, <2>4, <3>1, <3>3 DEF ByteToSector
  <2> QED
    BY <2>3, <2>4
<1>8. CASE ~(k < m) /\ k < m + direct
  <2>1. k < n /\ k < NumDirect /\ k + 1 \in 1..NumDirect
    BY <1>1, <1>2, <1>3, <1>5, <1>8
  <2>2. k + 1 > m /\ k + 1 <= m + direct
    BY <1>1, <1>5, <1>8
  <2>3. g.data[k + 1] = NthClear(used, k + 1 - m)
    <3>1. PICK i \in 1..NumDirect : i = k + 1
      BY <2>1
    <3>2. i > m /\ i <= m + direct
      BY <2>2, <3>1
    <3>3. g.data[i] = NthClear(used, i - m)
      BY <1>3, <3>2
    <3>4. i - m = k + 1 - m
      BY <1>1, <1>5, <3>1
    <3> QED
      BY <3>1, <3>3, <3>4
  <2>4. SlotAt(e, g, k) = NthClear(used, k + 1 - m)
    BY <2>1, <2>3 DEF SlotAt, ByteToSector
  <2>5. ~IsKept(m, n, new, k)
    BY <1>3, <1>5, <1>8, <2>1 DEF IsKept
  <2>6. NewIndex(m, n, direct, new, k) = k + 1 - m
    BY <1>8 DEF NewIndex
  <2> QED
    BY <2>4, <2>5, <2>6
<1>9. CASE ~(k < m) /\ ~(k < m + direct) /\ k < n
  <2>1. rest > 0 /\ ~(k < NumDirect) /\ k >= NumDirect
    BY <1>1, <1>2, <1>3, <1>5, <1>9
  <2>2. PICK i \in 1..SectorSize : i = k - NumDirect + 1
    BY <1>5, <1>6, <1>9, <2>1
  <2>3. ~(i <= m + direct - NumDirect) /\ i <= m + direct + rest - NumDirect
    BY <1>1, <1>2, <1>3, <1>5, <1>9, <2>2
  <2>4. direct + new + (i - (m + direct - NumDirect)) = k + 1 - m + new
    BY <1>1, <1>2, <1>5, <2>2
  <2>5. InDirect(e, g)[i] = NthClear(used, k + 1 - m + new)
    <3>1. InDirect(e, g)[i] =
            NthClear(used, direct + new + (i - (m + direct - NumDirect)))
      BY <1>4, <2>1, <2>3
    <3> QED
      BY <2>4, <3>1
  <2>6. SlotAt(e, g, k) = NthClear(used, k + 1 - m + new)
    BY <1>9, <2>1, <2>2, <2>5 DEF SlotAt, ByteToSector
  <2>7. ~IsKept(m, n, new, k)
    BY <1>3, <1>5, <1>9 DEF IsKept
  <2>8. NewIndex(m, n, direct, new, k) = k + 1 - m + new
    BY <1>9 DEF NewIndex
  <2> QED
    BY <2>6, <2>7, <2>8
<1>10. CASE k = n
  <2>1. ~(k < m) /\ ~(k < n) /\ ~(m < m)
    BY <1>1, <1>3, <1>10
  <2>2. IsKept(m, n, new, k) /\ KeptSlot(m, n, k) = m
    BY <1>10, <2>1 DEF IsKept, KeptSlot
  <2>3. SlotAt(e, g, k) = g.self /\ SlotAt(d, h, m) = h.self
    BY <1>10, <2>1 DEF SlotAt
  <2> QED
    BY <1>3, <2>2, <2>3
<1>11. CASE k = n + 1
  <2>1. ~(k < m) /\ ~(k < n) /\ k # n /\ ~(k < m + direct)
    BY <1>1, <1>3, <1>11
  <2>2. SlotAt(e, g, k) = Indirect(g)
    BY <2>1 DEF SlotAt
  <2>3. CASE new = 1
    <3>1. ~IsKept(m, n, new, k)
      BY <2>1, <2>3 DEF IsKept
    <3>2. NewIndex(m, n, direct, new, k) = direct + 1
      BY <2>1 DEF NewIndex
    <3> QED
      BY <1>3, <2>2, <2>3, <3>1, <3>2
  <2>4. CASE new = 0
    <3>1. IsKept(m, n, new, k) /\ KeptSlot(m, n, k) = m + 1
      BY <1>11, <2>1, <2>4 DEF IsKept, KeptSlot
    <3>2. ~(m + 1 < m) /\ m + 1 # m
      BY <1>1
    <3>3. SlotAt(d, h, m + 1) = Indirect(h)
      BY <3>2 DEF SlotAt
    <3> QED
      BY <1>3, <2>2, <2>4, <3>1, <3>3
  <2> QED
    BY <1>1, <2>3, <2>4
<1> QED
  <2>1. k < n \/ k = n \/ k = n + 1
    BY <1>3, <1>5
  <2> QED
    BY <1>7, <1>8, <1>9, <1>10, <1>11, <2>1

(* A header that Extend returns owns what it did and sectors that were     *)
(* clear.                                                                  *)
LEMMA ExtendFacts ==
  ASSUME NEW d, DOMAIN d = Sector, NEW h, HeaderOk(d, h),
         NEW used, used \subseteq Sector, 0 \in used, OwnedBy(d, h) \subseteq used,
         NEW direct, NEW new, NEW rest, Room(h, used, direct, new, rest),
         NEW a, a = Extend(d, used, h, direct, new, rest), NEW g, g = a.hdr,
         NEW e, e = a.disk
  PROVE  /\ a.result = "ok" /\ HeaderOk(e, g) /\ DOMAIN e = Sector
         /\ g.self = h.self /\ g.type = h.type /\ g.limit = h.limit
         /\ g.nsectors = h.nsectors + direct + rest
         /\ a.used \subseteq Sector /\ used \subseteq a.used
         /\ OwnedBy(e, g) \subseteq a.used
         /\ OwnedBy(e, g) \intersect used \subseteq OwnedBy(d, h)
         /\ \A s \in Sector :
              \/ e[s] = d[s]
              \/ /\ e[s].kind = "words" /\ s # h.self
                 /\ s \in OwnedBy(d, h) \/ s \notin used
<1> DEFINE total == direct + new + rest
<1>1. /\ \A i \in 1..total : NthClear(used, i) \in Sector \ used
      /\ \A i, j \in 1..total : NthClear(used, i) = NthClear(used, j) => i = j
      /\ direct \in Nat /\ rest \in Nat /\ h.nsectors \in Nat
  BY RoomFacts
<1>2. /\ a.result = "ok"
      /\ a.used = used \union {NthClear(used, i) : i \in 1..total}
      /\ g \in HeaderRecord /\ g.self = h.self /\ g.type = h.type
      /\ g.limit = h.limit /\ g.nsectors = h.nsectors + direct + rest
  BY ExtendHeader
<1>3. /\ DOMAIN e = Sector /\ IndirectOk(e, g)
      /\ \A s \in Sector : \/ e[s] = d[s]
                           \/ HasIndirect(g) /\ s = Indirect(g) /\ e[s].kind = "words"
      /\ HasIndirect(g) <=> new = 1 \/ HasIndirect(h)
  BY ExtendIndirect
<1>4. PICK m, n : m = h.nsectors /\ n = g.nsectors
  OBVIOUS
<1> DEFINE kept(k) == IsKept(m, n, new, k)
           old(k) == KeptSlot(m, n, k)
           index(k) == NewIndex(m, n, direct, new, k)
<1>5. /\ \A k \in Slots(g) : IF kept(k) THEN old(k) \in Slots(h) ELSE index(k) \in 1..total
      /\ \A k, l \in Slots(g) : kept(k) /\ kept(l) => (old(k) = old(l) => k = l)
      /\ \A k, l \in Slots(g) : ~kept(k) /\ ~kept(l) => (index(k) = index(l) => k = l)
  BY <1>2, <1>3, <1>4, SlotNumbers
<1>6. \A k \in Slots(g) :
        SlotAt(e, g, k) = IF kept(k) THEN SlotAt(d, h, old(k)) ELSE NthClear(used, index(k))
  <2>1. \A k \in Slots(g) :
          /\ IsKept(m, n, new, k) => SlotAt(e, g, k) = SlotAt(d, h, KeptSlot(m, n, k))
          /\ ~IsKept(m, n, new, k) =>
               SlotAt(e, g, k) = NthClear(used, NewIndex(m, n, direct, new, k))
    BY <1>4, ExtendSlots
  <2> QED
    BY <2>1
<1> HIDE DEF kept, old, index, total
<1>7. /\ \A k \in Slots(h) : SlotAt(d, h, k) \in Sector
      /\ \A k, l \in Slots(h) : SlotAt(d, h, k) = SlotAt(d, h, l) => k = l
      /\ h.limit <= FileCapacity(h) /\ h \in HeaderRecord
  BY DEF HeaderOk
<1>8. \A k \in Slots(h) : SlotAt(d, h, k) \in used /\ SlotAt(d, h, k) \in OwnedBy(d, h)
  BY DEF OwnedBy
<1>9. ASSUME NEW k \in Slots(g)
      PROVE  /\ kept(k) => SlotAt(e, g, k) \in OwnedBy(d, h)
             /\ ~kept(k) => SlotAt(e, g, k) \in {NthClear(used, i) : i \in 1..total} \ used
             /\ SlotAt(e, g, k) \in Sector
  BY <1>1, <1>5, <1>6, <1>7, <1>8
<1>10. ASSUME NEW k \in Slots(g), NEW l \in Slots(g), SlotAt(e, g, k) = SlotAt(e, g, l)
       PROVE  k = l
  <2>1. CASE kept(k) /\ kept(l)
    BY <1>5, <1>6, <1>7, <1>10, <2>1
  <2>2. CASE ~kept(k) /\ ~kept(l)
    BY <1>1, <1>5, <1>6, <1>10, <2>2
  <2>3. CASE kept(k) /\ ~kept(l)
    BY <1>9, <1>10, <2>3
  <2>4. CASE ~kept(k) /\ kept(l)
    BY <1>9, <1>10, <2>4
  <2> QED
    BY <2>1, <2>2, <2>3, <2>4
<1>11. g.limit <= FileCapacity(g)
  <2>1. PICK p \in Int, q \in Int : p = h.nsectors * SectorSize /\ q = (direct + rest) * SectorSize
    BY <1>1, ConstantFacts
  <2>2. q >= 0
    BY <1>1, <2>1, ConstantFacts
  <2>3. (h.nsectors + (direct + rest)) * SectorSize = p + q
    BY <1>1, <2>1, ConstantFacts
  <2>4. h.nsectors + direct + rest = h.nsectors + (direct + rest)
    BY <1>1
  <2>5. h.limit \in Nat /\ h.limit <= p
    BY <1>7, <2>1, RecordFacts DEF FileCapacity
  <2> QED
    BY <1>2, <2>2, <2>3, <2>4, <2>5 DEF FileCapacity
<1>12. HeaderOk(e, g)
  BY <1>2, <1>3, <1>9, <1>10, <1>11 DEF HeaderOk
<1>13. \A x \in OwnedBy(e, g) : \/ x \in OwnedBy(d, h)
                                \/ x \in {NthClear(used, i) : i \in 1..total} \ used
  BY <1>9 DEF OwnedBy
<1>14. /\ OwnedBy(e, g) \subseteq a.used
       /\ OwnedBy(e, g) \intersect used \subseteq OwnedBy(d, h)
       /\ a.used \subseteq Sector /\ used \subseteq a.used
  BY <1>1, <1>2, <1>13
<1>15. ASSUME NEW s \in Sector, e[s] # d[s]
       PROVE  /\ e[s].kind = "words" /\ s # h.self
              /\ s \in OwnedBy(d, h) \/ s \notin used
  <2>1. HasIndirect(g) /\ s = Indirect(g) /\ e[s].kind = "words"
    BY <1>3, <1>15
  <2>2. Indirect(g) \in OwnedBy(e, g) /\ Indirect(g) # g.self
    BY <1>12, <2>1, SlotFacts
  <2> QED
    BY <1>2, <1>14, <2>1, <2>2
<1> QED
  BY <1>2, <1>3, <1>12, <1>14, <1>15

LEMMA MinMaxOfTwo ==
  ASSUME NEW x \in Int, NEW y \in Int
  PROVE  /\ Max({x, y}) = IF x >= y THEN x ELSE y
         /\ Min({x, y}) = IF x <= y THEN x ELSE y
<1>1. \A v \in {x, y} : (\A z \in {x, y} : v >= z) <=> v = IF x >= y THEN x ELSE y
  OBVIOUS
<1>2. \A v \in {x, y} : (\A z \in {x, y} : v <= z) <=> v = IF x <= y THEN x ELSE y
  OBVIOUS
<1>3. (IF x >= y THEN x ELSE y) \in {x, y} /\ (IF x <= y THEN x ELSE y) \in {x, y}
  OBVIOUS
<1>4. Max({x, y}) = CHOOSE v \in {x, y} : \A z \in {x, y} : v >= z
  BY DEF Max
<1>5. Min({x, y}) = CHOOSE v \in {x, y} : \A z \in {x, y} : v <= z
  BY DEF Min
<1> QED
  BY <1>1, <1>2, <1>3, <1>4, <1>5

(* A file is not larger than MaxFileSize: the number of its sectors.       *)
LEMMA SectorsFit ==
  ASSUME NEW m \in Nat, NEW size \in Nat, NEW n \in Nat, n = divRoundUp(size, SectorSize),
         size + m * SectorSize <= (NumDirect + SectorSize) * SectorSize
  PROVE  m + n <= NumDirect + SectorSize
<1>1. SectorSize \in Nat \ {0} /\ NumDirect \in Nat
  BY ConstantFacts
<1>2. n * SectorSize < size + SectorSize
  BY <1>1, RoundUp
<1>3. PICK x \in Int, y \in Int, z \in Int :
        /\ x = m * SectorSize /\ y = n * SectorSize
        /\ z = (NumDirect + SectorSize) * SectorSize
  BY <1>1
<1>4. x + y < z + SectorSize
  BY <1>1, <1>2, <1>3
<1>5. (m + n) * SectorSize = x + y
  BY <1>1, <1>3
<1>6. (NumDirect + SectorSize + 1) * SectorSize = z + SectorSize
  BY <1>1, <1>3
<1> SUFFICES ASSUME m + n >= NumDirect + SectorSize + 1 PROVE FALSE
  BY <1>1
<1>7. (m + n) * SectorSize >= (NumDirect + SectorSize + 1) * SectorSize
  BY <1>1
<1> QED
  BY <1>1, <1>4, <1>5, <1>6, <1>7

LEMMA AllocateFacts ==
  ASSUME NEW d, DOMAIN d = Sector, NEW h, HeaderOk(d, h),
         NEW used, used \subseteq Sector, 0 \in used, OwnedBy(d, h) \subseteq used,
         NEW size \in Nat,
         NEW a, a = Allocate(d, used, h, size), NEW g, g = a.hdr, NEW e, e = a.disk
  PROVE  /\ a.result = "ok" =>
              /\ HeaderOk(e, g) /\ DOMAIN e = Sector
              /\ g.self = h.self /\ g.type = h.type /\ g.limit = h.limit
              /\ g.nsectors = h.nsectors + divRoundUp(size, SectorSize)
              /\ a.used \subseteq Sector /\ used \subseteq a.used
              /\ OwnedBy(e, g) \subseteq a.used
              /\ OwnedBy(e, g) \intersect used \subseteq OwnedBy(d, h)
              /\ \A s \in Sector :
                   \/ e[s] = d[s]
                   \/ /\ e[s].kind = "words" /\ s # h.self
                      /\ s \in OwnedBy(d, h) \/ s \notin used
         /\ a.result # "ok" => e = d \/ \E x \in Sector \ used : e = [d EXCEPT ![x] = Zeros]
         /\ /\ h.nsectors + divRoundUp(size, SectorSize) <= NumDirect
            /\ divRoundUp(size, SectorSize) <= NumClear(used)
            => a.result = "ok"
<1> DEFINE n == divRoundUp(size, SectorSize)
           m == h.nsectors
           direct == Min({n, Max({NumDirect - m, 0})})
           new == IF n > direct /\ h.data[NumDirect + 1] = 0 THEN 1 ELSE 0
           fail(result, f) == [result |-> result, disk |-> f, used |-> used, hdr |-> h]
<1>1. /\ SectorSize \in Nat \ {0} /\ SectorSize \in Nat /\ NumDirect \in Nat
      /\ NumInDirect = SectorSize
  BY ConstantFacts
<1>2. m \in Nat /\ h \in HeaderRecord
  BY RecordFacts DEF HeaderOk
<1>3. n \in Nat /\ (n = 0 <=> size = 0)
  BY <1>1, RoundUp
<1>4. /\ direct = IF n <= (IF NumDirect - m >= 0 THEN NumDirect - m ELSE 0)
                  THEN n ELSE IF NumDirect - m >= 0 THEN NumDirect - m ELSE 0
      /\ direct \in Nat /\ direct <= n
      /\ direct > 0 => m + direct <= NumDirect
      /\ n - direct > 0 => m + direct >= NumDirect
      /\ m + n <= NumDirect => direct = n
  <2>1. PICK x \in Int : x = NumDirect - m
    BY <1>1, <1>2
  <2>2. PICK y \in Int : y = Max({NumDirect - m, 0}) /\ y = IF x >= 0 THEN x ELSE 0
    BY <2>1, MinMaxOfTwo
  <2>3. Min({n, y}) = IF n <= y THEN n ELSE y
    BY <1>3, MinMaxOfTwo
  <2>4. direct = IF n <= y THEN n ELSE y
    BY <2>2, <2>3
  <2> HIDE DEF direct, n
  <2> QED
    BY <1>1, <1>2, <1>3, <2>1, <2>2, <2>4
<1>5. NumClear(used) \in Nat
  BY NumClearFacts
<1>6. ASSUME NumClear(used) >= 1 PROVE NthClear(used, 1) # 0
  <2>1. PICK i \in Nat : i = 1
    OBVIOUS
  <2>2. i >= 1 /\ i <= NumClear(used)
    BY <1>6, <2>1
  <2>3. NthClear(used, i) \in Sector \ used
    BY <2>2, NthClearFacts
  <2> QED
    BY <2>1, <2>3
<1>7. a = IF size = 0 THEN fail("ok", d)
          ELSE IF size + FileCapacity(h) > MaxFileSize \/ NumClear(used) < n
               THEN fail("full", d)
          ELSE IF direct > 0 /\ NthClear(used, 1) = 0 THEN fail("abort", d)
          ELSE IF n + new > NumClear(used)
               THEN fail("abort", [d EXCEPT ![NthClear(used, direct + 1)] = Zeros])
          ELSE Extend(d, used, h, direct, new, n - direct)
  BY DEF Allocate
<1>8. new \in {0, 1} /\ (new = 1 => n > direct)
  OBVIOUS
<1> HIDE DEF n, direct, new
<1>9. CASE size = 0
  <2>1. a = [result |-> "ok", disk |-> d, used |-> used, hdr |-> h] /\ n = 0
    BY <1>3, <1>7, <1>9
  <2>2. a.result = "ok" /\ e = d /\ g = h /\ a.used = used
    BY <2>1
  <2> QED
    BY <1>2, <2>1, <2>2 DEF n
<1>10. CASE size # 0 /\ (size + FileCapacity(h) > MaxFileSize \/ NumClear(used) < n)
  <2>1. a = [result |-> "full", disk |-> d, used |-> used, hdr |-> h]
    BY <1>7, <1>10
  <2>2. a.result = "full" /\ e = d
    BY <2>1
  <2>3. ~(m + n <= NumDirect /\ n <= NumClear(used))
    <3> SUFFICES ASSUME m + n <= NumDirect, n <= NumClear(used) PROVE FALSE
      OBVIOUS
    <3>1. size + FileCapacity(h) > MaxFileSize
      BY <1>3, <1>5, <1>10
    <3>2. size <= n * SectorSize
      BY <1>1, RoundUp DEF n
    <3>3. PICK x \in Int, y \in Int, z \in Int, v \in Int :
            /\ x = m * SectorSize /\ y = n * SectorSize
            /\ z = (NumDirect + SectorSize) * SectorSize
            /\ v = (m + n) * SectorSize
      BY <1>1, <1>2, <1>3
    <3>4. v = x + y
      BY <1>1, <1>2, <1>3, <3>3
    <3>5. v <= z
      <4>1. m + n <= NumDirect + SectorSize
        BY <1>1, <1>2, <1>3
      <4>2. PICK p \in Nat, q \in Nat : p = m + n /\ q = NumDirect + SectorSize
        BY <1>1, <1>2, <1>3
      <4>3. p * SectorSize <= q * SectorSize
        BY <1>1, <4>1, <4>2
      <4> QED
        BY <3>3, <4>2, <4>3
    <3> QED
      BY <1>1, <3>1, <3>2, <3>3, <3>4, <3>5 DEF FileCapacity, MaxFileSize
  <2> QED
    BY <2>2, <2>3 DEF n
<1>11. CASE /\ size # 0 /\ ~(size + FileCapacity(h) > MaxFileSize \/ NumClear(used) < n)
            /\ n + new > NumClear(used)
  <2>1. n <= NumClear(used) /\ n >= 1 /\ new = 1 /\ n > direct
    BY <1>3, <1>5, <1>8, <1>11
  <2>2. NumClear(used) >= 1 /\ direct + 1 \in Nat /\ direct + 1 >= 1 /\ direct + 1 <= NumClear(used)
    BY <1>3, <1>4, <1>5, <2>1
  <2>3. NthClear(used, direct + 1) \in Sector \ used
    BY <2>2, NthClearFacts
  <2>4. PICK x \in Sector \ used : x = NthClear(used, direct + 1)
    BY <2>3
  <2>5. a = fail("abort", [d EXCEPT ![x] = Zeros])
    BY <1>6, <1>7, <1>11, <2>2, <2>4
  <2>6. a.result = "abort" /\ e = [d EXCEPT ![x] = Zeros]
    BY <2>5
  <2>7. ~(m + n <= NumDirect)
    BY <1>3, <1>4, <2>1
  <2> QED
    BY <2>6, <2>7 DEF n
<1>12. CASE /\ size # 0 /\ ~(size + FileCapacity(h) > MaxFileSize \/ NumClear(used) < n)
            /\ ~(n + new > NumClear(used))
  <2>1. n >= 1 /\ NumClear(used) >= 1
    BY <1>3, <1>5, <1>12
  <2>2. a = Extend(d, used, h, direct, new, n - direct)
    BY <1>6, <1>7, <1>12, <2>1
  <2>3. PICK rest \in Nat : rest = n - direct
    BY <1>3, <1>4
  <2>4. Room(h, used, direct, new, rest)
    <3>1. new = IF rest > 0 /\ Indirect(h) = 0 THEN 1 ELSE 0
      <4>1. n > direct <=> rest > 0
        BY <1>3, <1>4, <2>3
      <4> QED
        BY <4>1 DEF new, Indirect
    <3>2. m + n <= NumDirect + SectorSize
      <4>1. PICK x \in Int, z \in Int :
              x = m * SectorSize /\ z = (NumDirect + SectorSize) * SectorSize
        BY <1>1, <1>2
      <4>2. size + m * SectorSize <= (NumDirect + SectorSize) * SectorSize
        BY <1>1, <1>12, <4>1 DEF FileCapacity, MaxFileSize
      <4> QED
        BY <1>2, <1>3, <4>2, SectorsFit DEF n
    <3>3. direct + new + rest <= NumClear(used)
      BY <1>3, <1>4, <1>5, <1>8, <1>12, <2>3
    <3>4. h.nsectors + direct + rest <= NumDirect + SectorSize
      BY <1>2, <1>3, <1>4, <2>3, <3>2
    <3> QED
      BY <1>4, <2>3, <3>1, <3>3, <3>4 DEF Room
  <2>5. a = Extend(d, used, h, direct, new, rest)
    BY <2>2, <2>3
  <2>6. /\ a.result = "ok" /\ HeaderOk(e, g) /\ DOMAIN e = Sector
        /\ g.self = h.self /\ g.type = h.type /\ g.limit = h.limit
        /\ g.nsectors = h.nsectors + direct + rest
        /\ a.used \subseteq Sector /\ used \subseteq a.used
        /\ OwnedBy(e, g) \subseteq a.used
        /\ OwnedBy(e, g) \intersect used \subseteq OwnedBy(d, h)
        /\ \A s \in Sector :
             \/ e[s] = d[s]
             \/ /\ e[s].kind = "words" /\ s # h.self
                /\ s \in OwnedBy(d, h) \/ s \notin used
    BY <2>4, <2>5, ExtendFacts
  <2>7. h.nsectors + direct + rest = h.nsectors + n
    BY <1>2, <1>3, <1>4, <2>3
  <2> QED
    BY <2>6, <2>7 DEF n
<1> QED
  BY <1>9, <1>10, <1>11, <1>12

-----------------------------------------------------------------------------
(* OpenFile::WriteAt.  The sectors for what is written are there, and      *)
(* marked; the header g is not on the disk yet.                            *)
Prepared(d, d2, c, g) ==
  /\ DOMAIN d2 = Sector /\ HeaderOk(d2, g) /\ g.self = c /\ g.type = d[c].type
  /\ FetchMap(d) \subseteq FetchMap(d2) /\ FetchMap(d2) \subseteq Sector
  /\ OwnedBy(d2, g) \subseteq FetchMap(d2)
  /\ OwnedBy(d2, g) \intersect FetchMap(d) \subseteq OwnedBy(d, d[c])
  /\ \A s \in FetchMap(d) \ OwnedBy(d, d[c]) : s # 3 => d2[s] = d[s]
  /\ \A s \in Sector : s \notin FetchMap(d) \/ s \in OwnedBy(d, d[c]) \/ s = 3 =>
       s = c \/ d2[s].kind # "header"

(* What an operation on the file with header c leaves alone.               *)
SameTree(d, e, c) ==
  /\ SectorsOk(e) /\ HeadersOn(e) = HeadersOn(d) /\ DirOn(e) = DirOn(d)
  /\ \A s \in HeadersOn(d) \ {c} : e[s] = d[s]
  /\ \A t \in DirOn(d) : FetchDirectory(e, e[t]) = FetchDirectory(d, d[t])
  /\ MarkedKept(d, e, OwnedBy(d, d[c]))

LEMMA PreparedWritten ==
  ASSUME NEW d, SectorsOk(d), NEW c \in HeadersOn(d) \ {0}, c \notin DirOn(d),
         NEW d2, NEW g, Prepared(d, d2, c, g),
         NEW words, IsWords(words), NEW position \in Nat,
         position + Len(words) <= FileCapacity(g),
         NEW h, h = WithLimit(g, position + Len(words)),
         NEW w, w = WriteSectors(d2, h, words, position), NEW e, e = w.disk
  PROVE  /\ SameTree(d, e, c) /\ ~w.abort /\ w.n \in Nat
         /\ w.hdr.self = c /\ e[c] = w.hdr
<1>1. /\ DOMAIN d2 = Sector /\ HeaderOk(d2, g) /\ g.self = c /\ g.type = d[c].type
      /\ FetchMap(d) \subseteq FetchMap(d2) /\ FetchMap(d2) \subseteq Sector
      /\ OwnedBy(d2, g) \subseteq FetchMap(d2)
      /\ OwnedBy(d2, g) \intersect FetchMap(d) \subseteq OwnedBy(d, d[c])
      /\ \A s \in FetchMap(d) \ OwnedBy(d, d[c]) : s # 3 => d2[s] = d[s]
      /\ \A s \in Sector : s \notin FetchMap(d) \/ s \in OwnedBy(d, d[c]) \/ s = 3 =>
           s = c \/ d2[s].kind # "header"
  BY DEF Prepared
<1>2. Len(words) \in Nat /\ position + Len(words) \in Nat
  BY DEF IsWords
<1>3. /\ HeaderOk(d2, h) /\ OwnedBy(d2, h) = OwnedBy(d2, g)
      /\ h.self = c /\ h.type = d[c].type /\ FileCapacity(h) = FileCapacity(g)
  BY <1>1, <1>2, SetLimit
<1>4. position + Len(words) <= FileCapacity(h)
  BY <1>3
<1>5. /\ w.n = Len(words) /\ w.hdr = h /\ ~w.abort
      /\ DOMAIN e = Sector /\ e[h.self] = h
      /\ \A s \in Sector \ OwnedBy(d2, h) : e[s] = d2[s]
      /\ HasIndirect(h) => e[Indirect(h)] = d2[Indirect(h)]
      /\ \A n \in 0..(h.nsectors - 1) :
           \/ e[ByteToSector(d2, h, n)] = d2[ByteToSector(d2, h, n)]
           \/ e[ByteToSector(d2, h, n)].kind = "words"
  <2>1. DOMAIN d2 = Sector /\ HeaderOk(d2, h)
    BY <1>1, <1>3
  <2> QED
    BY <1>4, <2>1, WriteSectorsFacts
<1>6. HeaderOk(e, h) /\ OwnedBy(e, h) = OwnedBy(d2, h)
  <2>1. PICK f : f = h
    OBVIOUS
  <2>2. HeaderOk(d2, f)
    BY <1>3, <2>1
  <2>3. f \in HeaderRecord /\ IndirectOk(d2, f)
    BY <2>2 DEF HeaderOk
  <2>4. HasIndirect(f) => e[Indirect(f)] = d2[Indirect(f)]
    BY <1>5, <2>1
  <2>5. HeaderOk(e, f) /\ OwnedBy(e, f) = OwnedBy(d2, f)
    BY <2>2, <2>3, <2>4, HeaderFramed
  <2> QED
    BY <2>1, <2>5
<1>7. \A s \in Sector : \/ e[s] = d2[s]
                        \/ s = c
                        \/ s \in OwnedBy(d2, h) /\ e[s].kind = "words"
  <2>1. OwnedBy(d2, h) = {ByteToSector(d2, h, n) : n \in 0..(h.nsectors - 1)}
          \union {h.self} \union (IF HasIndirect(h) THEN {Indirect(h)} ELSE {})
    BY <1>3, SlotFacts
  <2> QED
    BY <1>3, <1>5, <2>1
<1>8. 3 \notin OwnedBy(d2, h) /\ c # 3 /\ 3 \in FetchMap(d)
  <2>1. 3 \notin OwnedBy(d, d[c]) /\ 3 \in FetchMap(d) /\ c \in OwnedBy(d, d[c])
    BY SectorsFacts
  <2> QED
    BY <1>1, <1>3, <2>1
<1>9. FetchMap(e) = FetchMap(d2)
  <2>1. e[3] = d2[3]
    BY <1>7, <1>8, SectorFacts
  <2> QED
    BY <2>1, SectorFacts DEF FetchMap
<1>10. \A s \in FetchMap(d) \ OwnedBy(d, d[c]) : s # 3 => e[s] = d[s]
  <2>1. FetchMap(d) \subseteq Sector /\ c \in OwnedBy(d, d[c])
    BY SectorsFacts
  <2> QED
    BY <1>1, <1>3, <1>7, <2>1
<1>11. \A s \in Sector : s \notin FetchMap(d) \/ s \in OwnedBy(d, d[c]) \/ s = 3 =>
         s = c \/ e[s].kind # "header"
  BY <1>1, <1>7
<1>12. e[1] = directoryHdr
  <2>1. /\ d[1] = directoryHdr /\ 1 \in HeadersOn(d) /\ 1 \in DirOn(d)
        /\ HeadersOn(d) \subseteq FetchMap(d)
    BY SectorsFacts
  <2>2. 1 \in OwnedBy(d, d[1]) /\ OwnedBy(d, d[1]) \intersect OwnedBy(d, d[c]) = {}
    BY <2>1, SectorsFacts
  <2>3. 1 # 3
    OBVIOUS
  <2> QED
    BY <1>10, <2>1, <2>2, <2>3
<1>13. /\ SectorsOk(e) /\ HeadersOn(e) = HeadersOn(d) /\ DirOn(e) = DirOn(d)
       /\ \A t \in DirOn(d) \ {c} : FetchDirectory(e, e[t]) = FetchDirectory(d, d[t])
  <2>1. DOMAIN e = Sector /\ e[c] = h /\ HeaderOk(e, h) /\ h.self = c /\ h.type = d[c].type
    BY <1>3, <1>5, <1>6
  <2>2. FetchMap(e) \subseteq Sector /\ FetchMap(d) \subseteq FetchMap(e)
    BY <1>1, <1>9
  <2>3. /\ OwnedBy(e, h) \subseteq FetchMap(e)
        /\ OwnedBy(e, h) \intersect FetchMap(d) \subseteq OwnedBy(d, d[c])
    BY <1>1, <1>3, <1>6, <1>9
  <2> QED
    BY <1>10, <1>11, <1>12, <2>1, <2>2, <2>3, HeaderReplaced
<1>14. ASSUME NEW s \in HeadersOn(d) \ {c}
       PROVE  e[s] = d[s]
  <2>1. s \in FetchMap(d) /\ s \in OwnedBy(d, d[s]) /\ d[s].kind = "header"
    BY SectorsFacts
  <2>2. OwnedBy(d, d[s]) \intersect OwnedBy(d, d[c]) = {}
    BY SectorsFacts
  <2>3. s # 3
    BY <2>1, NoHeader
  <2> QED
    BY <1>10, <2>1, <2>2, <2>3
<1>15. SameTree(d, e, c)
  BY <1>10, <1>13, <1>14 DEF SameTree, MarkedKept
<1> QED
  BY <1>2, <1>3, <1>5, <1>15

(* Sectors that are not marked may hold anything but headers.              *)
LEMMA MarkedSectorsKept ==
  ASSUME NEW d, SectorsOk(d), NEW k, NEW e, DOMAIN e = Sector,
         \A s \in FetchMap(d) : e[s] = d[s],
         \A s \in Sector \ FetchMap(d) : e[s].kind # "header"
  PROVE  SameTree(d, e, k)
<1>1. /\ FetchMap(d) \subseteq Sector /\ 2 \in HeadersOn(d) /\ 2 \notin DirOn(d)
      /\ HeadersOn(d) \subseteq FetchMap(d) /\ {0, 3} \subseteq FetchMap(d)
      /\ 1 \in DirOn(d) /\ DirOn(d) \subseteq HeadersOn(d) /\ d[1] = directoryHdr
  BY SectorsFacts
<1>2. PICK c : c = 2
  OBVIOUS
<1>3. /\ c \in HeadersOn(d) \ {0} /\ c \notin DirOn(d) /\ d[c].self = c
      /\ OwnedBy(d, d[c]) \subseteq FetchMap(d)
  BY <1>1, <1>2, SectorsFacts
<1>4. \A s \in FetchMap(d) : e[s] = d[s]
  OBVIOUS
<1>5. e[c] = d[c] /\ e[1] = directoryHdr
  BY <1>1, <1>3, <1>4
<1>6. FetchMap(e) = FetchMap(d)
  BY <1>1, <1>4, SectorFacts DEF FetchMap
<1>7. HeaderOk(e, e[c]) /\ OwnedBy(e, e[c]) = OwnedBy(d, d[c])
  <2>1. \A s \in OwnedBy(d, d[c]) : s # 3 => e[s] = d[s]
    BY <1>3, <1>4
  <2>2. c \in HeadersOn(d)
    BY <1>3
  <2> QED
    BY <1>5, <2>1, <2>2, FileKept
<1>8. \A s \in Sector : s \notin FetchMap(d) \/ s \in OwnedBy(d, d[c]) \/ s = 3 =>
         s = c \/ e[s].kind # "header"
  <2>1. \A s \in Sector \ FetchMap(d) : d[s].kind # "header"
    BY NoHeader
  <2>2. d[3].kind # "header"
    BY NoHeader
  <2>3. \A s \in Sector : s \in OwnedBy(d, d[c]) /\ s # c => d[s].kind # "header"
    BY <1>3, SectorsFacts
  <2> QED
    BY <1>1, <1>4, <2>1, <2>2, <2>3
<1>9. PICK h : h = d[c]
  OBVIOUS
<1>10. /\ SectorsOk(e) /\ HeadersOn(e) = HeadersOn(d) /\ DirOn(e) = DirOn(d)
       /\ \A t \in DirOn(d) \ {c} : FetchDirectory(e, e[t]) = FetchDirectory(d, d[t])
  <2>1. c \in HeadersOn(d) \ {0} /\ DOMAIN e = Sector
    BY <1>3
  <2>2. e[c] = h /\ HeaderOk(e, h) /\ h.self = c /\ h.type = d[c].type
    BY <1>3, <1>5, <1>7, <1>9
  <2>3. FetchMap(e) \subseteq Sector /\ FetchMap(d) \subseteq FetchMap(e)
    BY <1>1, <1>6
  <2>4. /\ OwnedBy(e, h) \subseteq FetchMap(e)
        /\ OwnedBy(e, h) \intersect FetchMap(d) \subseteq OwnedBy(d, d[c])
    BY <1>3, <1>5, <1>6, <1>7, <1>9
  <2>5. \A s \in FetchMap(d) \ OwnedBy(d, d[c]) : s # 3 => e[s] = d[s]
    BY <1>4
  <2>6. c \in DirOn(d) => DirOk(e, c)
    BY <1>3
  <2>7. e[1] = directoryHdr
    BY <1>5
  <2> QED
    BY <1>8, <2>1, <2>2, <2>3, <2>4, <2>5, <2>6, <2>7, HeaderReplaced
<1>11. MarkedKept(d, e, OwnedBy(d, d[k]))
  BY <1>4 DEF MarkedKept
<1> QED
  BY <1>1, <1>3, <1>4, <1>10, <1>11 DEF SameTree

(* FindAndSet fails on the way: a sector that is not marked was written.   *)
LEMMA FreeSectorWritten ==
  ASSUME NEW d, SectorsOk(d), NEW k, NEW x \in Sector \ FetchMap(d),
         NEW e, e = [d EXCEPT ![x] = Zeros]
  PROVE  SameTree(d, e, k)
<1>1. DOMAIN d = Sector /\ Zeros.kind # "header"
  BY SectorsFacts DEF Zeros, Words
<1>2. /\ DOMAIN e = Sector /\ e[x] = Zeros
      /\ \A s \in Sector : s # x => e[s] = d[s]
  BY <1>1
<1>3. PICK f : f = e
  OBVIOUS
<1>4. DOMAIN f = Sector
  BY <1>2, <1>3
<1>5. \A s \in FetchMap(d) : f[s] = d[s]
  <2>1. FetchMap(d) \subseteq Sector
    BY SectorsFacts
  <2> QED
    BY <1>2, <1>3, <2>1
<1>6. \A s \in Sector \ FetchMap(d) : f[s].kind # "header"
  BY <1>1, <1>2, <1>3, NoHeader
<1>7. SameTree(d, f, k)
  BY <1>4, <1>5, <1>6, MarkedSectorsKept
<1> QED
  BY <1>3, <1>7

LEMMA TreeUnchanged ==
  ASSUME NEW d, SectorsOk(d), NEW k
  PROVE  SameTree(d, d, k)
  BY DEF SameTree, MarkedKept

(* Grow when it has allocated sectors and written the bit map back.        *)
LEMMA GrowPrepares ==
  ASSUME NEW d, SectorsOk(d), NEW c \in HeadersOn(d) \ {0}, NEW size \in Nat,
         NEW a, a = Allocate(d, FetchMap(d), d[c], size), a.result = "ok",
         NEW d2, d2 = WriteMap(a.disk, a.used)
  PROVE  /\ Prepared(d, d2, c, a.hdr)
         /\ a.hdr.nsectors = d[c].nsectors + divRoundUp(size, SectorSize)
<1> DEFINE used == FetchMap(d)
<1>1. PICK h, g, d1 : h = d[c] /\ g = a.hdr /\ d1 = a.disk
  OBVIOUS
<1>2. /\ DOMAIN d = Sector /\ HeaderOk(d, h) /\ h.self = c
      /\ used \subseteq Sector /\ {0, 3} \subseteq used
      /\ OwnedBy(d, h) \subseteq used /\ c \in OwnedBy(d, h)
      /\ 3 \notin OwnedBy(d, h) /\ d[0] = freeMapHdr
      /\ 0 \in HeadersOn(d) /\ 0 \in OwnedBy(d, d[0])
      /\ OwnedBy(d, d[0]) \intersect OwnedBy(d, h) = {}
  <2>1. 0 \in HeadersOn(d)
    BY SectorsFacts, SectorFacts
  <2> QED
    BY <1>1, <2>1, SectorsFacts
<1>3. /\ HeaderOk(d1, g) /\ DOMAIN d1 = Sector
      /\ g.self = h.self /\ g.type = h.type /\ g.limit = h.limit
      /\ g.nsectors = h.nsectors + divRoundUp(size, SectorSize)
      /\ a.used \subseteq Sector /\ used \subseteq a.used
      /\ OwnedBy(d1, g) \subseteq a.used
      /\ OwnedBy(d1, g) \intersect used \subseteq OwnedBy(d, h)
      /\ \A s \in Sector :
           \/ d1[s] = d[s]
           \/ /\ d1[s].kind = "words" /\ s # h.self
              /\ s \in OwnedBy(d, h) \/ s \notin used
  <2>1. a = Allocate(d, used, h, size)
    BY <1>1
  <2>2. 0 \in used /\ used \subseteq Sector /\ OwnedBy(d, h) \subseteq used
        /\ DOMAIN d = Sector /\ HeaderOk(d, h)
    BY <1>2
  <2> HIDE DEF used
  <2> QED
    BY <1>1, <2>1, <2>2, AllocateFacts
<1>4. /\ DOMAIN d2 = Sector /\ FetchMap(d2) = a.used
      /\ \A s \in a.used \ {3} : d2[s] = d1[s]
      /\ \A s \in Sector \ a.used : d2[s].kind = "words"
      /\ d2[3].kind = "map"
  <2>1. d1[0] = freeMapHdr
    BY <1>2, <1>3, SectorFacts
  <2>2. {0, 3} \subseteq a.used /\ a.used \subseteq Sector /\ DOMAIN d1 = Sector
    BY <1>2, <1>3
  <2>3. PICK u : u = a.used
    OBVIOUS
  <2>4. d2 = WriteMap(d1, u)
    BY <1>1, <2>3
  <2> QED
    BY <2>1, <2>2, <2>3, <2>4, WriteMapFacts
<1>5. HeaderOk(d2, g) /\ OwnedBy(d2, g) = OwnedBy(d1, g)
  <2>1. g \in HeaderRecord /\ IndirectOk(d1, g)
    BY <1>3 DEF HeaderOk
  <2>2. HasIndirect(g) => Indirect(g) \in OwnedBy(d1, g)
    BY <1>3, SlotFacts
  <2>3. 3 \notin OwnedBy(d1, g)
    BY <1>2, <1>3
  <2>4. HasIndirect(g) => d2[Indirect(g)] = d1[Indirect(g)]
    BY <1>3, <1>4, <2>2, <2>3
  <2>5. HeaderOk(d1, g)
    BY <1>3
  <2> QED
    BY <2>1, <2>4, <2>5, HeaderFramed
<1>6. \A s \in used \ OwnedBy(d, d[c]) : s # 3 => d2[s] = d[s]
  BY <1>1, <1>2, <1>3, <1>4
<1>7. ASSUME NEW s \in Sector, s \notin used \/ s \in OwnedBy(d, d[c]) \/ s = 3, s # c
      PROVE  d2[s].kind # "header"
  <2>1. CASE s = 3
    BY <1>4, <2>1
  <2>2. CASE s \notin a.used
    BY <1>4, <2>2
  <2>3. CASE s \in a.used /\ s # 3
    <3>1. d2[s] = d1[s]
      BY <1>4, <2>3
    <3>2. d[s].kind # "header"
      <4>1. s \notin used => d[s].kind # "header"
        BY NoHeader
      <4>2. s \in OwnedBy(d, d[c]) => d[s].kind # "header"
        BY <1>7, SectorsFacts
      <4> QED
        BY <1>7, <2>3, <4>1, <4>2
    <3> QED
      BY <1>3, <3>1, <3>2
  <2> QED
    BY <2>1, <2>2, <2>3
<1>8. Prepared(d, d2, c, g)
  BY <1>1, <1>2, <1>3, <1>4, <1>5, <1>6, <1>7 DEF Prepared
<1> QED
  BY <1>1, <1>3, <1>8

(* OpenFile::WriteAt of a file that is not a directory, as it is on the    *)
(* disk: the tree is as it was, and if no ASSERT failed the caller has the *)
(* header that is on the disk.                                             *)
LEMMA FileWritten ==
  ASSUME NEW d, SectorsOk(d), NEW c \in HeadersOn(d) \ {0}, c \notin DirOn(d),
         NEW words, IsWords(words), NEW position \in Nat,
         NEW w, w = WriteAt(d, d[c], words, position), NEW e, e = w.disk
  PROVE  /\ SameTree(d, e, c) /\ w.n \in Nat
         /\ ~w.abort => e[c] = w.hdr /\ w.hdr.self = c
<1>1. PICK h, g : h = d[c] /\ g = Grow(d, h, position + Len(words))
  OBVIOUS
<1>2. /\ HeaderOk(d, h) /\ h.self = c /\ h \in HeaderRecord /\ DOMAIN d = Sector
      /\ FetchMap(d) \subseteq Sector /\ OwnedBy(d, h) \subseteq FetchMap(d)
      /\ 0 \in FetchMap(d)
  BY <1>1, SectorsFacts DEF HeaderOk
<1>3. PICK size \in Nat : size = position + Len(words)
  BY DEF IsWords
<1>4. FileCapacity(h) \in Nat
  <2>1. h.nsectors \in Nat /\ SectorSize \in Nat
    BY <1>2, RecordFacts, ConstantFacts
  <2> QED
    BY <2>1 DEF FileCapacity
<1>5. ~(position > h.limit) => w = WriteGrown(g, words, position)
  BY <1>1 DEF WriteAt
<1>6. CASE position > h.limit
  <2>1. w = [n |-> 0, disk |-> d, hdr |-> h, abort |-> FALSE]
    BY <1>1, <1>6 DEF WriteAt
  <2>2. w.n = 0 /\ e = d /\ w.hdr = h
    BY <2>1
  <2> QED
    BY <1>1, <1>2, <2>2, TreeUnchanged
<1>7. ASSUME ~(position > h.limit), NEW d2, NEW f, d2 = g.disk, f = g.hdr,
             g.result = "ok", Prepared(d, d2, c, f), size <= FileCapacity(f)
      PROVE  /\ SameTree(d, e, c) /\ w.n \in Nat /\ ~w.abort
             /\ e[c] = w.hdr /\ w.hdr.self = c
  <2>1. w = WriteSectors(d2, setFileLimit(f, position + Len(words)), words, position)
    BY <1>5, <1>7 DEF WriteGrown
  <2>2. FileCapacity(f) \in Nat
    <3>1. f.nsectors \in Nat /\ SectorSize \in Nat
      BY <1>7, RecordFacts, ConstantFacts DEF Prepared, HeaderOk
    <3> QED
      BY <3>1 DEF FileCapacity
  <2>3. setFileLimit(f, position + Len(words)) = WithLimit(f, position + Len(words))
    BY <1>3, <1>7, <2>2 DEF setFileLimit, WithLimit
  <2>4. PICK k : k = WithLimit(f, position + Len(words))
    OBVIOUS
  <2>5. w = WriteSectors(d2, k, words, position)
    BY <2>1, <2>3, <2>4
  <2>6. position + Len(words) <= FileCapacity(f)
    BY <1>3, <1>7
  <2>7. Prepared(d, d2, c, f)
    BY <1>7
  <2> QED
    BY <2>4, <2>5, <2>6, <2>7, PreparedWritten
<1>8. CASE ~(position > h.limit) /\ size <= FileCapacity(h)
  <2>1. g = [result |-> "ok", disk |-> d, hdr |-> h]
    BY <1>1, <1>3, <1>8 DEF Grow
  <2>2. g.result = "ok" /\ g.disk = d /\ g.hdr = h
    BY <2>1
  <2>3. Prepared(d, d, c, h)
    <3>1. \A s \in Sector : s \notin FetchMap(d) \/ s \in OwnedBy(d, d[c]) \/ s = 3 =>
            s = c \/ d[s].kind # "header"
      <4>1. \A s \in Sector : s \in OwnedBy(d, d[c]) /\ s # c => d[s].kind # "header"
        BY SectorsFacts
      <4> QED
        BY <4>1, NoHeader
    <3> QED
      BY <1>1, <1>2, <3>1 DEF Prepared
  <2> QED
    BY <1>7, <1>8, <2>2, <2>3
<1>9. CASE ~(position > h.limit) /\ ~(size <= FileCapacity(h))
  <2>1. PICK more \in Nat : more = size - FileCapacity(h)
    BY <1>3, <1>4, <1>9
  <2>2. PICK a : a = Allocate(d, FetchMap(d), h, more)
    OBVIOUS
  <2>3. g = SaveMap(a)
    BY <1>1, <1>3, <1>9, <2>1, <2>2 DEF Grow
  <2>4. g.result = a.result /\ g.hdr = a.hdr
        /\ g.disk = IF a.result = "ok" THEN WriteMap(a.disk, a.used) ELSE a.disk
    BY <2>3 DEF SaveMap
  <2>5. CASE a.result = "ok"
    <3>1. PICK d2 : d2 = WriteMap(a.disk, a.used)
      OBVIOUS
    <3>2. a = Allocate(d, FetchMap(d), d[c], more)
      BY <1>1, <2>2
    <3>3. /\ Prepared(d, d2, c, a.hdr)
          /\ a.hdr.nsectors = d[c].nsectors + divRoundUp(more, SectorSize)
      BY <2>5, <3>1, <3>2, GrowPrepares
    <3>4. size <= FileCapacity(a.hdr)
      <4>1. PICK n \in Nat, b \in Nat \ {0}, m \in Nat :
              n = divRoundUp(more, SectorSize) /\ b = SectorSize /\ m = h.nsectors
        BY <1>2, RoundUp, RecordFacts, ConstantFacts
      <4>2. more <= n * b
        BY <4>1, RoundUp
      <4>3. FileCapacity(h) = m * b /\ FileCapacity(a.hdr) = (m + n) * b
        BY <1>1, <3>3, <4>1 DEF FileCapacity
      <4>4. (m + n) * b = m * b + n * b
        BY <4>1
      <4> QED
        BY <1>3, <2>1, <4>2, <4>3, <4>4
    <3> QED
      BY <1>7, <1>9, <2>4, <2>5, <3>1, <3>3, <3>4
  <2>6. CASE a.result # "ok"
    <3>1. PICK e2 : e2 = a.disk
      OBVIOUS
    <3>2. w = [n |-> 0, disk |-> e2, hdr |-> g.hdr, abort |-> TRUE]
      BY <1>5, <1>9, <2>4, <2>6, <3>1 DEF WriteGrown
    <3>3. w.n = 0 /\ w.abort /\ e = e2
      BY <3>2
    <3>4. e2 = d \/ \E x \in Sector \ FetchMap(d) : e2 = [d EXCEPT ![x] = Zeros]
      <4>1. PICK used : used = FetchMap(d)
        OBVIOUS
      <4>2. a = Allocate(d, used, h, more)
        BY <2>2, <4>1
      <4>3. /\ HeaderOk(d, h) /\ DOMAIN d = Sector /\ used \subseteq Sector
            /\ OwnedBy(d, h) \subseteq used /\ 0 \in used
        BY <1>2, <4>1
      <4>4. a.disk = d \/ \E x \in Sector \ used : a.disk = [d EXCEPT ![x] = Zeros]
        BY <2>6, <4>2, <4>3, AllocateFacts
      <4> QED
        BY <3>1, <4>1, <4>4
    <3>5. SameTree(d, e2, c)
      <4>1. CASE e2 = d
        BY <4>1, TreeUnchanged
      <4>2. CASE \E x \in Sector \ FetchMap(d) : e2 = [d EXCEPT ![x] = Zeros]
        BY <4>2, FreeSectorWritten
      <4> QED
        BY <3>4, <4>1, <4>2
    <3> QED
      BY <3>3, <3>5
  <2> QED
    BY <2>5, <2>6
<1> QED
  BY <1>6, <1>8, <1>9

-----------------------------------------------------------------------------
(* Directory::namex.  What dirlookup finds is an entry of the directory.   *)
LEMMA FindIndexFacts ==
  ASSUME NEW dir, NEW name, NEW k, k = FindIndex(dir, name)
  PROVE  /\ k \in Nat
         /\ k # 0 => k \in 1..NumDirEntries /\ dir.table[k][1] = name
         /\ k = 0 => \A i \in 1..NumDirEntries : dir.table[i][1] # name
<1> DEFINE found == {i \in 1..NumDirEntries : dir.table[i][1] = name}
<1>1. k = IF found = {} THEN 0 ELSE Min(found)
  BY DEF FindIndex
<1>2. found \subseteq Nat
  BY ConstantFacts
<1>3. found # {} => Min(found) \in found
  <2>1. PICK T : T = found
    OBVIOUS
  <2>2. T \subseteq Nat
    BY <1>2, <2>1
  <2>3. T # {} => Min(T) \in T
    BY <2>2, MinFacts
  <2> QED
    BY <2>1, <2>3
<1>4. k \in Nat
  BY <1>1, <1>2, <1>3
<1>5. CASE found = {}
  BY <1>1, <1>5
<1>6. CASE found # {}
  <2>1. k \in found
    BY <1>1, <1>3, <1>6
  <2>2. k \in 1..NumDirEntries /\ dir.table[k][1] = name
    BY <2>1
  <2>3. k # 0
    BY <2>2, ConstantFacts
  <2> QED
    BY <1>4, <2>2, <2>3
<1> QED
  BY <1>5, <1>6

LEMMA LookupFacts ==
  ASSUME NEW d, DiskOk(d), NEW t \in DirOn(d), NEW dir, dir = FetchDirectory(d, d[t]),
         NEW name, name # NULL, NEW r, r = dirlookup(dir, name), r # -1
  PROVE  /\ r \in HeadersOn(d) \ Reserved
         /\ \E k \in 1..NumDirEntries : /\ k = FindIndex(dir, name)
                                        /\ EntryAt(d, t, k)[1] = name
                                        /\ EntryAt(d, t, k)[2] = r
<1>1. PICK k : k = FindIndex(dir, name)
  OBVIOUS
<1>2. k # 0 /\ r = dir.table[k][2]
  BY <1>1 DEF dirlookup
<1>3. k \in 1..NumDirEntries /\ dir.table[k][1] = name
  BY <1>1, <1>2, FindIndexFacts
<1>4. EntryAt(d, t, k) = dir.table[k]
  BY DEF EntryAt
<1>5. EntryAt(d, t, k)[1] # NULL
  BY <1>3, <1>4
<1>6. EntryAt(d, t, k)[2] \in HeadersOn(d) \ Reserved
  BY <1>3, <1>5 DEF DiskOk, EntriesOk
<1> QED
  BY <1>1, <1>2, <1>3, <1>4, <1>6

(* A directory in the tree, or none.                                       *)
IsDirectory(d, x) == x = NULL \/ \E t \in DirOn(d) : x = FetchDirectory(d, d[t])

LEMMA StepDown ==
  ASSUME NEW d, DiskOk(d), NEW x, IsDirectory(d, x), NEW name, name # NULL,
         NEW y, y = DirectoryAt(d, dirlookup(x, name))
  PROVE  IsDirectory(d, y)
<1>1. PICK r : r = dirlookup(x, name)
  OBVIOUS
<1>2. CASE r = -1
  BY <1>1, <1>2 DEF DirectoryAt, IsDirectory
<1>3. CASE r # -1
  <2>1. x # NULL
    BY <1>1, <1>3 DEF dirlookup
  <2>2. PICK t \in DirOn(d) : x = FetchDirectory(d, d[t])
    BY <2>1 DEF IsDirectory
  <2>3. r \in HeadersOn(d)
    BY <1>1, <1>3, <2>2, LookupFacts
  <2>4. CASE d[r].type = "TYPE_DIR"
    <3>1. r \in DirOn(d)
      BY <2>3, <2>4 DEF DirOn
    <3>2. y = FetchDirectory(d, d[r])
      BY <1>1, <1>3, <2>4 DEF DirectoryAt
    <3> QED
      BY <3>1, <3>2 DEF IsDirectory
  <2>5. CASE d[r].type # "TYPE_DIR"
    BY <1>1, <1>3, <2>5 DEF DirectoryAt, IsDirectory
  <2> QED
    BY <2>4, <2>5
<1> QED
  BY <1>2, <1>3

(* The directories on the way, the first n + 1 of them.                    *)
IsWalk(d, path, n, at) ==
  at = [i \in 0..n |->
         IF i = 0 THEN FetchDirectory(d, directoryHdr)
         ELSE DirectoryAt(d, dirlookup(at[i - 1], path[i]))]

LEMMA WalkExists ==
  ASSUME NEW d, NEW path, NEW n \in Nat
  PROVE  \E at : IsWalk(d, path, n, at)
<1> DEFINE T == {k \in Nat : ~ \E at : IsWalk(d, path, k, at)}
<1>1. SUFFICES ASSUME T # {} PROVE FALSE
  OBVIOUS
<1>2. PICK k \in T : \A j \in T : k <= j
  <2>1. PICK U : U = T
    OBVIOUS
  <2>2. U \subseteq Nat /\ U # {}
    BY <1>1, <2>1
  <2>3. Min(U) \in U /\ \A j \in U : Min(U) <= j
    BY <2>2, MinFacts
  <2> QED
    BY <2>1, <2>3
<1>3. k \in Nat /\ ~ \E at : IsWalk(d, path, k, at)
  OBVIOUS
<1>4. CASE k = 0
  <2> DEFINE f == [i \in 0..0 |-> FetchDirectory(d, directoryHdr)]
  <2>1. f = [i \in 0..0 |-> IF i = 0 THEN FetchDirectory(d, directoryHdr)
                            ELSE DirectoryAt(d, dirlookup(f[i - 1], path[i]))]
    OBVIOUS
  <2>2. IsWalk(d, path, 0, f)
    BY <2>1 DEF IsWalk
  <2> QED
    BY <1>3, <1>4, <2>2
<1>5. CASE k # 0
  <2>1. k - 1 \in Nat /\ k - 1 \notin T
    BY <1>2, <1>3, <1>5
  <2>2. PICK g : IsWalk(d, path, k - 1, g)
    BY <2>1
  <2>3. /\ DOMAIN g = 0..(k - 1)
        /\ \A i \in 0..(k - 1) :
             g[i] = IF i = 0 THEN FetchDirectory(d, directoryHdr)
                    ELSE DirectoryAt(d, dirlookup(g[i - 1], path[i]))
    BY <2>2 DEF IsWalk
  <2>4. PICK last : last = DirectoryAt(d, dirlookup(g[k - 1], path[k]))
    OBVIOUS
  <2>5. PICK f : f = [i \in 0..k |-> IF i = k THEN last ELSE g[i]]
    OBVIOUS
  <2>6. \A i \in 0..k :
          f[i] = IF i = 0 THEN FetchDirectory(d, directoryHdr)
                 ELSE DirectoryAt(d, dirlookup(f[i - 1], path[i]))
    <3> SUFFICES ASSUME NEW i \in 0..k
                 PROVE  f[i] = IF i = 0 THEN FetchDirectory(d, directoryHdr)
                               ELSE DirectoryAt(d, dirlookup(f[i - 1], path[i]))
      OBVIOUS
    <3>1. i # 0 => f[i - 1] = g[i - 1]
      BY <1>3, <2>5
    <3>2. CASE i = k
      BY <1>3, <1>5, <2>4, <2>5, <3>1, <3>2
    <3>3. CASE i # k
      <4>1. i \in 0..(k - 1) /\ f[i] = g[i]
        BY <1>3, <2>5, <3>3
      <4> QED
        BY <2>3, <3>1, <4>1
    <3> QED
      BY <3>2, <3>3
  <2>7. IsWalk(d, path, k, f)
    <3>1. f = [i \in 0..k |-> f[i]]
      BY <2>5
    <3> QED
      BY <2>6, <3>1 DEF IsWalk
  <2> QED
    BY <1>3, <2>7
<1> QED
  BY <1>4, <1>5

LEMMA WalkDirectories ==
  ASSUME NEW d, DiskOk(d), NEW path, NEW n \in Nat, NEW at, IsWalk(d, path, n, at),
         \A i \in 1..n : path[i] # NULL
  PROVE  \A i \in 0..n : IsDirectory(d, at[i])
<1> DEFINE T == {k \in 0..n : ~IsDirectory(d, at[k])}
<1>1. SUFFICES ASSUME T # {} PROVE FALSE
  OBVIOUS
<1>2. PICK k \in T : \A j \in T : k <= j
  <2>1. PICK U : U = T
    OBVIOUS
  <2>2. U \subseteq Nat /\ U # {}
    BY <1>1, <2>1
  <2>3. Min(U) \in U /\ \A j \in U : Min(U) <= j
    BY <2>2, MinFacts
  <2> QED
    BY <2>1, <2>3
<1>3. k \in 0..n /\ ~IsDirectory(d, at[k])
  OBVIOUS
<1>4. at[k] = IF k = 0 THEN FetchDirectory(d, directoryHdr)
              ELSE DirectoryAt(d, dirlookup(at[k - 1], path[k]))
  BY <1>3 DEF IsWalk
<1>5. CASE k = 0
  <2>1. 1 \in DirOn(d) /\ d[1] = directoryHdr
    BY SectorsFacts DEF DiskOk
  <2> QED
    BY <1>3, <1>4, <1>5, <2>1 DEF IsDirectory
<1>6. CASE k # 0
  <2>1. k - 1 \in 0..n /\ k - 1 \notin T
    BY <1>2, <1>3, <1>6
  <2>2. IsDirectory(d, at[k - 1])
    BY <2>1
  <2>3. path[k] # NULL
    BY <1>3, <1>6
  <2>4. PICK x, y, name : x = at[k - 1] /\ name = path[k] /\ y = at[k]
    OBVIOUS
  <2>5. y = DirectoryAt(d, dirlookup(x, name))
    BY <1>4, <1>6, <2>4
  <2> QED
    BY <1>3, <2>2, <2>3, <2>4, <2>5, StepDown
<1> QED
  BY <1>5, <1>6

LEMMA ParentFacts ==
  ASSUME NEW d, DiskOk(d), NEW path \in Path
  PROVE  IsDirectory(d, ParentDirectory(d, path)) /\ Last(path) # NULL
<1>1. path \in Seq(Range(path)) /\ path # << >> /\ NULL \notin Range(path)
  BY FileSysAssumption
<1>2. Len(path) \in Nat /\ Len(path) > 0
  BY <1>1
<1>3. \A i \in 1..Len(path) : path[i] # NULL
  BY <1>1
<1>4. Last(path) # NULL
  BY <1>2, <1>3 DEF Last
<1>5. PICK n \in Nat : n = Len(path) - 1
  BY <1>2
<1>6. \E at : IsWalk(d, path, n, at) /\ ParentDirectory(d, path) = at[n]
  <2> DEFINE at == CHOOSE f : IsWalk(d, path, n, f)
  <2>1. ParentDirectory(d, path) = at[n]
    BY <1>5 DEF ParentDirectory, IsWalk
  <2>2. \E f : IsWalk(d, path, n, f)
    BY WalkExists
  <2>3. IsWalk(d, path, n, at)
    BY <2>2
  <2> QED
    BY <2>1, <2>3
<1>7. PICK at : IsWalk(d, path, n, at) /\ ParentDirectory(d, path) = at[n]
  BY <1>6
<1>8. \A i \in 1..n : path[i] # NULL
  BY <1>2, <1>3, <1>5
<1>9. IsDirectory(d, at[n])
  BY <1>7, <1>8, WalkDirectories
<1> QED
  BY <1>4, <1>7, <1>9

(* Directory::Find.                                                        *)
LEMMA FindFacts ==
  ASSUME NEW d, DiskOk(d), NEW path \in Path, NEW r, r = Find(d, path), r # -1
  PROVE  \E t \in DirOn(d) :
           /\ ParentDirectory(d, path) = FetchDirectory(d, d[t])
           /\ r \in HeadersOn(d) \ Reserved
           /\ \E k \in 1..NumDirEntries :
                /\ k = FindIndex(ParentDirectory(d, path), Last(path))
                /\ EntryAt(d, t, k)[1] = Last(path)
                /\ EntryAt(d, t, k)[2] = r
<1>1. PICK dir, name : dir = ParentDirectory(d, path) /\ name = Last(path)
  OBVIOUS
<1>2. r = dirlookup(dir, name)
  BY <1>1 DEF Find
<1>3. dir # NULL
  BY <1>2 DEF dirlookup
<1>4. IsDirectory(d, dir) /\ name # NULL
  BY <1>1, ParentFacts
<1>5. PICK t \in DirOn(d) : dir = FetchDirectory(d, d[t])
  BY <1>3, <1>4 DEF IsDirectory
<1>6. /\ r \in HeadersOn(d) \ Reserved
      /\ \E k \in 1..NumDirEntries : /\ k = FindIndex(dir, name)
                                     /\ EntryAt(d, t, k)[1] = name
                                     /\ EntryAt(d, t, k)[2] = r
  BY <1>2, <1>4, <1>5, LookupFacts
<1> QED
  BY <1>1, <1>5, <1>6

(* The sectors of a header, counted.                                       *)
LEMMA SlotsCounted ==
  ASSUME NEW d, NEW h, HeaderOk(d, h)
  PROVE  Cardinality(OwnedBy(d, h)) =
           h.nsectors + 1 + (IF h.nsectors > NumDirect THEN 1 ELSE 0)
<1>1. h \in HeaderRecord
  BY DEF HeaderOk
<1>2. PICK last \in Nat : last = IF HasIndirect(h) THEN h.nsectors + 1 ELSE h.nsectors
  BY <1>1, RecordFacts
<1>3. Slots(h) = 0..last
  BY <1>2 DEF Slots
<1>4. IsFiniteSet(0..last) /\ Cardinality(0..last) = last + 1
  BY FS_Interval
<1>5. PICK S, T : S = 0..last /\ T = OwnedBy(d, h)
  OBVIOUS
<1>6. PICK f : f = [n \in S |-> SlotAt(d, h, n)]
  OBVIOUS
<1>7. T = {SlotAt(d, h, n) : n \in S}
  BY <1>3, <1>5 DEF OwnedBy
<1>8. \A m, n \in S : SlotAt(d, h, m) = SlotAt(d, h, n) => m = n
  BY <1>3, <1>5 DEF HeaderOk
<1>9. f \in Bijection(S, T)
  BY <1>6, <1>7, <1>8 DEF Bijection, Injection, Surjection, IsInjective
<1>10. Cardinality(T) = Cardinality(S)
  BY <1>4, <1>5, <1>9, FS_Bijection DEF ExistsBijection
<1>11. h.nsectors \in Nat
  BY <1>1, RecordFacts
<1> QED
  BY <1>2, <1>4, <1>5, <1>10, <1>11 DEF HasIndirect

LEMMA OwnedIsOwnedBy ==
  ASSUME NEW d, SectorsOk(d), NEW s \in HeadersOn(d)
  PROVE  Owned(d, s) = OwnedBy(d, d[s])
<1>1. PICK h : h = d[s]
  OBVIOUS
<1>2. HeaderOk(d, h) /\ h.self = s
  BY <1>1, SectorsFacts
<1>3. OwnedBy(d, h) = {ByteToSector(d, h, n) : n \in 0..(h.nsectors - 1)}
        \union {h.self} \union (IF HasIndirect(h) THEN {Indirect(h)} ELSE {})
  BY <1>2, SlotFacts
<1> QED
  BY <1>1, <1>2, <1>3 DEF Owned, Indirect, HasIndirect

(* On a disk in order every sector has one owner.                          *)
LEMMA OneOwner ==
  ASSUME DiskOk(disk)
  PROVE  SectorsOwnedOnce
<1>1. SectorsOk(disk)
  BY DEF DiskOk
<1>2. Headers(disk) \subseteq HeadersOn(disk)
  <2>1. Reserved \subseteq HeadersOn(disk)
    BY <1>1, SectorsFacts
  <2>2. ASSUME NEW path \in Path, Find(disk, path) # -1
        PROVE  Find(disk, path) \in HeadersOn(disk)
    <3>1. PICK r : r = Find(disk, path)
      OBVIOUS
    <3>2. r \in HeadersOn(disk)
      BY <2>2, <3>1, FindFacts
    <3> QED
      BY <3>1, <3>2
  <2> QED
    BY <2>1, <2>2 DEF Headers
<1>3. ASSUME NEW s \in Headers(disk)
      PROVE  /\ Owned(disk, s) = OwnedBy(disk, disk[s])
             /\ Owned(disk, s) \subseteq FetchMap(disk)
             /\ disk[s].self = s
             /\ disk[s].limit <= FileCapacity(disk[s])
             /\ Cardinality(Owned(disk, s)) = disk[s].nsectors + 1
                  + (IF disk[s].nsectors > NumDirect THEN 1 ELSE 0)
  <2>1. s \in HeadersOn(disk)
    BY <1>2
  <2>2. Owned(disk, s) = OwnedBy(disk, disk[s])
    BY <1>1, <2>1, OwnedIsOwnedBy
  <2>3. /\ HeaderOk(disk, disk[s]) /\ disk[s].self = s
        /\ OwnedBy(disk, disk[s]) \subseteq FetchMap(disk)
    BY <1>1, <2>1, SectorsFacts
  <2>4. disk[s].limit <= FileCapacity(disk[s])
    BY <2>3 DEF HeaderOk
  <2>5. Cardinality(OwnedBy(disk, disk[s])) = disk[s].nsectors + 1
          + (IF disk[s].nsectors > NumDirect THEN 1 ELSE 0)
    BY <2>3, SlotsCounted
  <2> QED
    BY <2>2, <2>3, <2>4, <2>5
<1>4. InUse(disk) \subseteq FetchMap(disk)
  BY <1>3 DEF InUse
<1>5. \A s \in Headers(disk) : \A t \in Headers(disk) \ {s} :
        Owned(disk, s) \intersect Owned(disk, t) = {}
  BY <1>1, <1>2, <1>3, SectorsFacts
<1> QED
  BY <1>3, <1>4, <1>5 DEF SectorsOwnedOnce

-----------------------------------------------------------------------------
(* The steps.                                                              *)
LEMMA TreeKept ==
  ASSUME NEW d, DiskOk(d), NEW e, NEW c, SameTree(d, e, c)
  PROVE  DiskOk(e)
<1>1. /\ SectorsOk(e) /\ HeadersOn(e) = HeadersOn(d) /\ DirOn(e) = DirOn(d)
      /\ \A t \in DirOn(d) : FetchDirectory(e, e[t]) = FetchDirectory(d, d[t])
  BY DEF SameTree
<1>2. \A t \in DirOn(d) : \A i : EntryAt(e, t, i) = EntryAt(d, t, i)
  BY <1>1 DEF EntryAt
<1>3. EntriesOk(d)
  BY DEF DiskOk
<1>4. EntriesOk(e)
  BY <1>1, <1>2, <1>3 DEF EntriesOk
<1> QED
  BY <1>1, <1>4 DEF DiskOk

LEMMA DiskReadable ==
  ASSUME NEW d, DiskOk(d)
  PROVE  Readable(d)
<1>1. d[0].kind = "header" /\ d[1].kind = "header" /\ d[1] = directoryHdr /\ 1 \in DirOn(d)
  <2>1. SectorsOk(d)
    BY DEF DiskOk
  <2>2. d[0] = freeMapHdr /\ d[1] = directoryHdr /\ 1 \in DirOn(d)
    BY <2>1, SectorsFacts
  <2> QED
    BY <2>2, FreeMapFacts
<1>2. ASSUME NEW i \in 1..NumDirEntries, FetchDirectory(d, directoryHdr).table[i][1] # NULL
      PROVE  d[FetchDirectory(d, directoryHdr).table[i][2]].kind = "header"
  <2>1. EntryAt(d, 1, i) = FetchDirectory(d, directoryHdr).table[i]
    BY <1>1 DEF EntryAt
  <2>2. EntryAt(d, 1, i)[2] \in HeadersOn(d)
    BY <1>1, <1>2, <2>1 DEF DiskOk, EntriesOk
  <2> QED
    BY <2>1, <2>2 DEF HeadersOn
<1> QED
  BY <1>1, <1>2 DEF Readable, FreeMapSector, DirectorySector

LEMMA LeftFacts ==
  ASSUME NEW w, Left(w), NEW e, e = w.disk, DiskOk(e)
  PROVE  /\ disk' = e /\ machine' \in {"up", "aborted"}
         /\ machine' = "up" => ~w.abort
<1>1. Readable(e)
  BY DiskReadable
<1>2. /\ disk' = e
      /\ machine' = IF w.abort THEN "aborted" ELSE IF Readable(e) THEN "up" ELSE "corrupt"
  BY DEF Left
<1> QED
  BY <1>1, <1>2

LEMMA WordsToWrite ==
  ASSUME NEW words \in Data \union PipeData
  PROVE  IsWords(words)
  BY FileSysAssumption DEF IsWords

(* The sectors of the header h are as before.                              *)
FileSafe(d, e, h) == \A s \in OwnedBy(d, d[h]) : s # 3 => e[s] = d[s]

LEMMA SafeOutside ==
  ASSUME NEW d, SectorsOk(d), NEW c \in HeadersOn(d), NEW e,
         MarkedKept(d, e, OwnedBy(d, d[c]))
  PROVE  \A h \in HeadersOn(d) : h # c => FileSafe(d, e, h)
<1> SUFFICES ASSUME NEW h \in HeadersOn(d), h # c PROVE FileSafe(d, e, h)
  OBVIOUS
<1>1. /\ OwnedBy(d, d[h]) \subseteq FetchMap(d)
      /\ OwnedBy(d, d[h]) \intersect OwnedBy(d, d[c]) = {}
  BY SectorsFacts
<1> QED
  BY <1>1 DEF FileSafe, MarkedKept

LEMMA WriteStep ==
  ASSUME FsInv, NEW words \in Data, Write(words)
  PROVE  /\ FsInv'
         /\ file # NULL
         /\ \A h \in HeadersOn(disk) : h # file.hdr.self => FileSafe(disk, disk', h)
<1>1. PICK w, c, position, d, e :
        /\ w = WriteAt(disk, file.hdr, words, file.seekPosition)
        /\ c = file.hdr.self /\ position = file.seekPosition /\ d = disk /\ e = w.disk
  OBVIOUS
<1>2. /\ machine = "up" /\ file # NULL /\ file.hdr.type = "TYPE_FILE" /\ Left(w)
      /\ file' = IF w.abort THEN NULL
                 ELSE [hdr |-> w.hdr, seekPosition |-> file.seekPosition + w.n]
  BY <1>1 DEF Write
<1>3. /\ position \in Nat /\ c \in HeadersOn(d) \ Reserved /\ file.hdr = d[c]
      /\ DiskOk(d) /\ SectorsOk(d)
  BY <1>1, <1>2 DEF FsInv, DiskOk
<1>4. c \in HeadersOn(d) \ {0} /\ c \notin DirOn(d)
  BY <1>2, <1>3, SectorFacts DEF DirOn
<1>5. w = WriteAt(d, d[c], words, position)
  BY <1>1, <1>3
<1>6. IsWords(words)
  BY WordsToWrite
<1>7. /\ SameTree(d, e, c) /\ w.n \in Nat
      /\ ~w.abort => e[c] = w.hdr /\ w.hdr.self = c
  BY <1>1, <1>3, <1>4, <1>5, <1>6, FileWritten
<1>8. DiskOk(e)
  BY <1>3, <1>7, TreeKept
<1>9. /\ disk' = e /\ machine' \in {"up", "aborted"}
      /\ machine' = "up" => ~w.abort
  BY <1>1, <1>2, <1>8, LeftFacts
<1>10. ASSUME machine' = "up"
       PROVE  /\ file' = [hdr |-> file'.hdr, seekPosition |-> file'.seekPosition]
              /\ file'.seekPosition \in Nat /\ file'.hdr.self \in HeadersOn(e) \ Reserved
              /\ file'.hdr = e[file'.hdr.self]
  <2>1. ~w.abort
    BY <1>9, <1>10
  <2>2. file' = [hdr |-> w.hdr, seekPosition |-> position + w.n]
    BY <1>1, <1>2, <2>1
  <2>3. /\ file'.hdr = w.hdr /\ file'.seekPosition = position + w.n
        /\ file' = [hdr |-> file'.hdr, seekPosition |-> file'.seekPosition]
    BY <2>2
  <2>4. w.hdr.self = c /\ e[c] = w.hdr
    BY <1>7, <2>1
  <2>5. HeadersOn(e) = HeadersOn(d)
    BY <1>7 DEF SameTree
  <2> QED
    BY <1>3, <1>7, <2>3, <2>4, <2>5
<1>11. \A h \in HeadersOn(d) : h # c => FileSafe(d, e, h)
  <2>1. MarkedKept(d, e, OwnedBy(d, d[c])) /\ c \in HeadersOn(d)
    BY <1>3, <1>7 DEF SameTree
  <2> QED
    BY <1>3, <2>1, SafeOutside
<1>12. FsInv'
  BY <1>8, <1>9, <1>10 DEF FsInv
<1> QED
  BY <1>1, <1>2, <1>9, <1>11, <1>12

LEMMA WritePipeStep ==
  ASSUME FsInv, NEW words \in PipeData, WritePipe(words)
  PROVE  /\ FsInv'
         /\ \A h \in HeadersOn(disk) : h # 2 => FileSafe(disk, disk', h)
<1>1. PICK c, position, d : c = 2 /\ position = 0 /\ d = disk
  OBVIOUS
<1>2. PICK w, e : w = WriteAt(d, d[c], words, position) /\ e = w.disk
  OBVIOUS
<1>3. machine = "up" /\ Left(w) /\ file' = file
  BY <1>1, <1>2 DEF WritePipe, PipeSector
<1>4. DiskOk(d) /\ SectorsOk(d)
  BY <1>1 DEF FsInv, DiskOk
<1>5. c \in HeadersOn(d) \ {0} /\ c \notin DirOn(d) /\ c \in Reserved
  <2>1. 2 \in HeadersOn(d) /\ 2 \notin DirOn(d)
    BY <1>4, SectorsFacts
  <2> QED
    BY <1>1, <2>1, SectorFacts
<1>6. IsWords(words) /\ position \in Nat
  BY <1>1, WordsToWrite
<1>7. SameTree(d, e, c)
  BY <1>2, <1>4, <1>5, <1>6, FileWritten
<1>8. DiskOk(e)
  BY <1>4, <1>7, TreeKept
<1>9. disk' = e /\ machine' \in {"up", "aborted"}
  BY <1>2, <1>3, <1>8, LeftFacts
<1>10. ASSUME file' # NULL
       PROVE  /\ file' = [hdr |-> file'.hdr, seekPosition |-> file'.seekPosition]
              /\ file'.seekPosition \in Nat /\ file'.hdr.self \in HeadersOn(e) \ Reserved
              /\ file'.hdr = e[file'.hdr.self]
  <2>1. /\ file = [hdr |-> file.hdr, seekPosition |-> file.seekPosition]
        /\ file.seekPosition \in Nat /\ file.hdr.self \in HeadersOn(d) \ Reserved
        /\ file.hdr = d[file.hdr.self]
    BY <1>1, <1>3, <1>10 DEF FsInv
  <2>2. HeadersOn(e) = HeadersOn(d) /\ \A s \in HeadersOn(d) \ {c} : e[s] = d[s]
    BY <1>7 DEF SameTree
  <2> QED
    BY <1>3, <1>5, <2>1, <2>2
<1>11. \A h \in HeadersOn(d) : h # c => FileSafe(d, e, h)
  <2>1. MarkedKept(d, e, OwnedBy(d, d[c])) /\ c \in HeadersOn(d)
    BY <1>5, <1>7 DEF SameTree
  <2> QED
    BY <1>4, <2>1, SafeOutside
<1>12. FsInv'
  BY <1>8, <1>9, <1>10 DEF FsInv
<1> QED
  BY <1>1, <1>9, <1>11, <1>12

LEMMA ReadLength ==
  ASSUME NEW d, NEW h \in HeaderRecord, NEW n \in Nat, NEW p \in Nat
  PROVE  Len(ReadAt(d, h, n, p)) \in Nat
<1>1. h.limit \in Nat
  BY RecordFacts
<1>2. CASE p >= h.limit
  <2>1. ReadAt(d, h, n, p) = << >>
    BY <1>2 DEF ReadAt
  <2> QED
    BY <2>1
<1>3. CASE p < h.limit
  <2>1. PICK rest \in Nat : rest = h.limit - p
    BY <1>1, <1>3
  <2>2. Min({n, rest}) = IF n <= rest THEN n ELSE rest
    <3>1. n \in Int /\ rest \in Int
      OBVIOUS
    <3> QED
      BY <3>1, MinMaxOfTwo
  <2>3. PICK m \in Nat : m = Min({n, rest})
    BY <2>2
  <2>4. PICK f : f = [i \in 1..m |-> WordAt(d, h, p + i - 1)]
    OBVIOUS
  <2>5. ReadAt(d, h, n, p) = SubSeq(f, 1, m)
    <3>1. ~(p >= h.limit)
      BY <1>1, <1>3
    <3>2. ReadAt(d, h, n, p) =
            SubSeq([i \in 1..Min({n, rest}) |-> WordAt(d, h, p + i - 1)], 1, Min({n, rest}))
      BY <2>1, <3>1 DEF ReadAt
    <3> QED
      BY <2>3, <2>4, <3>2
  <2>6. PICK s : s = SubSeq(f, 1, m)
    OBVIOUS
  <2>7. DOMAIN f = 1..m /\ f = [i \in 1..m |-> f[i]]
    BY <2>4
  <2>8. Len(s) = m
    BY <2>6, <2>7, SubSeqAll
  <2> QED
    BY <2>3, <2>5, <2>6, <2>8
<1> QED
  BY <1>1, <1>2, <1>3

(* Operations that leave the disk alone.                                   *)
LEMMA ReaderSteps ==
  ASSUME FsInv
  PROVE  /\ \A path \in Path : Open(path) => FsInv'
         /\ Close => FsInv'
         /\ \A position \in Position : Seek(position) => FsInv'
         /\ \A n \in 1..SectorSize : Read(n) => FsInv'
         /\ Restart => FsInv'
         /\ UNCHANGED vars => FsInv'
<1>1. DiskOk(disk) /\ machine \in {"up", "aborted"}
  BY DEF FsInv
<1>2. ASSUME NEW path \in Path, Open(path) PROVE FsInv'
  <2>1. PICK s : s = Find(disk, path)
    OBVIOUS
  <2>2. /\ s # -1 /\ file' = [hdr |-> disk[s], seekPosition |-> 0]
        /\ disk' = disk /\ machine' = machine
    BY <1>2, <2>1 DEF Open
  <2>3. s \in HeadersOn(disk) \ Reserved
    BY <1>1, <2>1, <2>2, FindFacts
  <2>4. disk[s].self = s
    BY <1>1, <2>3, SectorsFacts DEF DiskOk
  <2>5. /\ file'.hdr = disk[s] /\ file'.seekPosition = 0
        /\ file' = [hdr |-> file'.hdr, seekPosition |-> file'.seekPosition]
    BY <2>2
  <2>6. file'.hdr.self = s
    BY <2>4, <2>5
  <2> QED
    BY <1>1, <2>2, <2>3, <2>5, <2>6 DEF FsInv
<1>3. ASSUME Close PROVE FsInv'
  BY <1>1, <1>3 DEF Close, FsInv
<1>4. ASSUME NEW position \in Position, Seek(position) PROVE FsInv'
  <2>1. /\ file # NULL /\ machine = "up" /\ file' = [file EXCEPT !.seekPosition = position]
        /\ disk' = disk /\ machine' = machine
    BY <1>4 DEF Seek
  <2>2. position \in Nat
    BY FileSysAssumption
  <2>3. file = [hdr |-> file.hdr, seekPosition |-> file.seekPosition]
    BY <2>1 DEF FsInv
  <2>4. file' = [hdr |-> file.hdr, seekPosition |-> position]
    BY <2>1, <2>3
  <2>5. /\ file'.hdr = file.hdr /\ file'.seekPosition \in Nat
        /\ file' = [hdr |-> file'.hdr, seekPosition |-> file'.seekPosition]
    BY <2>2, <2>4
  <2> QED
    BY <1>1, <2>1, <2>5 DEF FsInv
<1>5. ASSUME NEW n \in 1..SectorSize, Read(n) PROVE FsInv'
  <2>1. PICK p, h, d, count : /\ p = file.seekPosition /\ h = file.hdr /\ d = disk
                              /\ count = Len(ReadAt(d, h, n, p))
    OBVIOUS
  <2>2. /\ file # NULL /\ machine = "up" /\ disk' = disk /\ machine' = machine
        /\ file' = [file EXCEPT !.seekPosition = p + count]
    BY <1>5, <2>1 DEF Read
  <2>3. /\ file = [hdr |-> h, seekPosition |-> p]
        /\ p \in Nat /\ h.self \in HeadersOn(d) \ Reserved /\ h = d[h.self]
    BY <2>1, <2>2 DEF FsInv
  <2>4. h \in HeaderRecord
    BY <1>1, <2>1, <2>3, SectorsFacts DEF DiskOk, HeaderOk
  <2>5. n \in Nat
    BY ConstantFacts
  <2>6. count \in Nat
    BY <2>1, <2>3, <2>4, <2>5, ReadLength
  <2>7. file' = [hdr |-> h, seekPosition |-> p + count]
    BY <2>2, <2>3
  <2>8. /\ file'.hdr = h /\ file'.seekPosition \in Nat
        /\ file' = [hdr |-> file'.hdr, seekPosition |-> file'.seekPosition]
    BY <2>3, <2>6, <2>7
  <2> QED
    BY <1>1, <2>1, <2>2, <2>3, <2>8 DEF FsInv
<1>6. ASSUME Restart PROVE FsInv'
  BY <1>1, <1>6 DEF Restart, FsInv
<1>7. ASSUME UNCHANGED vars PROVE FsInv'
  BY <1>7 DEF vars, FsInv
<1> QED
  BY <1>2, <1>3, <1>4, <1>5, <1>6, <1>7

-----------------------------------------------------------------------------
(* An entry of a directory is set and the directory is written back.       *)
LEMMA EntrySet ==
  ASSUME NEW d, SectorsOk(d), NEW t \in DirOn(d),
         NEW dir, dir = FetchDirectory(d, d[t]),
         NEW old, NEW k, k = FindIndex(dir, old), k # 0, NEW new,
         NEW w, w = SetEntryIn(d, d[t], old, new), NEW e, e = w.disk
  PROVE  /\ ~w.abort /\ SectorsOk(e) /\ FetchMap(e) = FetchMap(d)
         /\ HeadersOn(e) = HeadersOn(d) /\ DirOn(e) = DirOn(d)
         /\ \A s \in HeadersOn(d) : e[s] = d[s] /\ OwnedBy(e, e[s]) = OwnedBy(d, d[s])
         /\ k \in 1..NumDirEntries /\ EntryAt(d, t, k)[1] = old /\ EntryAt(e, t, k) = new
         /\ \A s \in DirOn(d), i \in 1..NumDirEntries :
              ~(s = t /\ i = k) => EntryAt(e, s, i) = EntryAt(d, s, i)
         /\ MarkedKept(d, e, OwnedBy(d, d[t]))
<1>1. k \in 1..NumDirEntries /\ dir.table[k][1] = old
  BY FindIndexFacts
<1>2. dir = [sector |-> dir.sector, table |-> dir.table] /\ IsTable(dir.table)
  BY TableFacts
<1>3. dir.sector = t
  BY SectorsFacts DEF DirOk
<1>4. PICK table, sector : table = dir.table /\ sector = dir.sector
  OBVIOUS
<1>5. PICK T : table \in [1..NumDirEntries -> T]
  BY <1>2, <1>4 DEF IsTable
<1>6. PICK table2 : table2 = [table EXCEPT ![k] = new]
  OBVIOUS
<1>7. /\ table2 \in [1..NumDirEntries -> T \union {new}] /\ table2[k] = new
      /\ \A i \in 1..NumDirEntries : i # k => table2[i] = table[i]
  BY <1>1, <1>5, <1>6
<1>8. IsTable(table2)
  BY <1>7 DEF IsTable
<1>9. PICK dir2 : dir2 = [sector |-> sector, table |-> table2]
  OBVIOUS
<1>10. dir2.sector = t /\ dir2.table = table2
  BY <1>3, <1>4, <1>9
<1>11. Replace(dir, old, new) = dir2
  <2>1. dir = [sector |-> sector, table |-> table]
    BY <1>2, <1>4
  <2>2. Replace(dir, old, new) = [dir EXCEPT !.table[k] = new]
    BY DEF Replace
  <2> QED
    BY <1>6, <1>9, <2>1, <2>2
<1>12. w = WriteDirectory(d, d[t], dir2)
  BY <1>11 DEF SetEntryIn
<1>13. IsTable(dir2.table) /\ dir2.sector = t
  BY <1>8, <1>10
<1>14. /\ ~w.abort /\ SectorsOk(e) /\ FetchMap(e) = FetchMap(d)
       /\ HeadersOn(e) = HeadersOn(d) /\ DirOn(e) = DirOn(d)
       /\ \A s \in HeadersOn(d) : e[s] = d[s] /\ OwnedBy(e, e[s]) = OwnedBy(d, d[s])
       /\ \A s \in DirOn(d) \ {t} : FetchDirectory(e, e[s]) = FetchDirectory(d, d[s])
       /\ \A i \in 1..NumDirEntries : EntryAt(e, t, i) = dir2.table[i]
       /\ MarkedKept(d, e, OwnedBy(d, d[t]))
  BY <1>12, <1>13, DirectoryWritten
<1>15. \A i : EntryAt(d, t, i) = table[i]
  BY <1>4 DEF EntryAt
<1>16. ASSUME NEW s \in DirOn(d), NEW i \in 1..NumDirEntries, ~(s = t /\ i = k)
       PROVE  EntryAt(e, s, i) = EntryAt(d, s, i)
  <2>1. CASE s = t
    BY <1>7, <1>10, <1>14, <1>15, <1>16, <2>1
  <2>2. CASE s # t
    BY <1>14, <2>2 DEF EntryAt
  <2> QED
    BY <2>1, <2>2
<1>17. EntryAt(d, t, k)[1] = old
  BY <1>1, <1>4, <1>15
<1>18. EntryAt(e, t, k) = new
  BY <1>1, <1>7, <1>10, <1>14
<1> QED
  BY <1>1, <1>14, <1>16, <1>17, <1>18

(* Find and Set of the entry that a path leads to.                         *)
LEMMA ParentOnDisk ==
  ASSUME NEW d, SectorsOk(d), NEW path, NEW t \in DirOn(d),
         ParentDirectory(d, path) = FetchDirectory(d, d[t]), NEW old, NEW new
  PROVE  SetEntry(d, path, old, new) = SetEntryIn(d, d[t], old, new)
<1>1. FetchDirectory(d, d[t]).sector = t
  BY SectorsFacts DEF DirOk
<1> QED
  BY <1>1 DEF SetEntry

(* A header and what it owns are gone.                                     *)
LEMMA HeaderRemoved ==
  ASSUME NEW d, SectorsOk(d), NEW c \in HeadersOn(d) \ Reserved,
         NEW e, DOMAIN e = Sector, FetchMap(e) = FetchMap(d) \ OwnedBy(d, d[c]),
         \A s \in FetchMap(e) : s # 3 => e[s] = d[s],
         \A s \in Sector \ FetchMap(e) : e[s].kind # "header",
         e[3].kind # "header"
  PROVE  /\ SectorsOk(e) /\ HeadersOn(e) = HeadersOn(d) \ {c}
         /\ DirOn(e) = DirOn(d) \ {c}
         /\ \A t \in DirOn(e) : FetchDirectory(e, e[t]) = FetchDirectory(d, d[t])
<1>1. c \in HeadersOn(d) /\ c \in OwnedBy(d, d[c]) /\ c \notin {0, 1, 2}
  BY SectorsFacts, SectorFacts
<1>2. ASSUME NEW t \in HeadersOn(d), t # c
      PROVE  /\ t \in FetchMap(e) /\ t # 3 /\ e[t] = d[t]
             /\ OwnedBy(d, d[t]) \subseteq FetchMap(e)
             /\ \A s \in OwnedBy(d, d[t]) : s # 3 => e[s] = d[s]
  <2>1. /\ t \in FetchMap(d) /\ t \in OwnedBy(d, d[t])
        /\ OwnedBy(d, d[t]) \subseteq FetchMap(d)
        /\ OwnedBy(d, d[t]) \intersect OwnedBy(d, d[c]) = {}
        /\ d[t].kind = "header"
    BY <1>1, <1>2, SectorsFacts
  <2>2. t # 3
    BY <2>1, NoHeader
  <2>3. OwnedBy(d, d[t]) \subseteq FetchMap(e) /\ t \in FetchMap(e)
    BY <2>1
  <2> QED
    BY <2>2, <2>3
<1>3. ASSUME NEW t \in HeadersOn(d), t # c
      PROVE  /\ HeaderOk(e, e[t]) /\ OwnedBy(e, e[t]) = OwnedBy(d, d[t])
             /\ e[t] = d[t]
             /\ t \in DirOn(d) => FetchDirectory(e, e[t]) = FetchDirectory(d, d[t])
  <2>1. e[t] = d[t] /\ \A s \in OwnedBy(d, d[t]) : s # 3 => e[s] = d[s]
    BY <1>2, <1>3
  <2> QED
    BY <2>1, FileKept
<1>4. HeadersOn(e) = HeadersOn(d) \ {c}
  <2>1. ASSUME NEW s \in HeadersOn(d), s # c PROVE s \in HeadersOn(e)
    <3>1. s \in Sector /\ d[s].kind = "header"
      BY SectorsFacts
    <3> QED
      BY <1>3, <2>1, <3>1 DEF HeadersOn
  <2>2. ASSUME NEW s \in HeadersOn(e) PROVE s \in HeadersOn(d) /\ s # c
    <3>1. s \in Sector /\ e[s].kind = "header"
      BY DEF HeadersOn
    <3>2. s \in FetchMap(e) /\ s # 3
      BY <3>1
    <3>3. e[s] = d[s] /\ s # c
      BY <1>1, <3>2
    <3> QED
      BY <3>1, <3>3 DEF HeadersOn
  <2> QED
    BY <2>1, <2>2
<1>5. DirOn(e) = DirOn(d) \ {c}
  <2>1. \A s \in HeadersOn(d) \ {c} : e[s].type = d[s].type
    BY <1>3
  <2> QED
    BY <1>4, <2>1 DEF DirOn
<1>6. HeadersOk(e)
  <2>1. ASSUME NEW s \in HeadersOn(e)
        PROVE  /\ e[s].self = s /\ HeaderOk(e, e[s])
               /\ OwnedBy(e, e[s]) \subseteq FetchMap(e)
    <3>1. s \in HeadersOn(d) /\ s # c
      BY <1>4
    <3>2. d[s].self = s
      BY <3>1, SectorsFacts
    <3> QED
      BY <1>2, <1>3, <3>1, <3>2
  <2>2. ASSUME NEW s \in HeadersOn(e), NEW t \in HeadersOn(e), s # t
        PROVE  OwnedBy(e, e[s]) \intersect OwnedBy(e, e[t]) = {}
    <3>1. s \in HeadersOn(d) /\ t \in HeadersOn(d) /\ s # c /\ t # c
      BY <1>4
    <3>2. OwnedBy(d, d[s]) \intersect OwnedBy(d, d[t]) = {}
      BY <2>2, <3>1, SectorsFacts
    <3> QED
      BY <1>3, <3>1, <3>2
  <2> QED
    BY <2>1, <2>2 DEF HeadersOk
<1>7. ASSUME NEW s \in DirOn(e) PROVE DirOk(e, s)
  <2>1. s \in DirOn(d) /\ s # c /\ s \in HeadersOn(d) /\ DirOk(d, s)
    BY <1>5, SectorsFacts
  <2>2. e[s] = d[s] /\ FetchDirectory(e, e[s]) = FetchDirectory(d, d[s])
    BY <1>3, <2>1
  <2> QED
    BY <2>1, <2>2 DEF DirOk
<1>8. /\ e[0] = freeMapHdr /\ e[1] = directoryHdr
      /\ 2 \in HeadersOn(e) /\ e[2].type = "TYPE_PIPE"
  <2>1. /\ {0, 1, 2} \subseteq HeadersOn(d) /\ d[0] = freeMapHdr
        /\ d[1] = directoryHdr /\ d[2].type = "TYPE_PIPE"
    BY SectorsFacts, SectorFacts
  <2> QED
    BY <1>1, <1>3, <1>4, <2>1
<1>9. FetchMap(e) \subseteq Sector
  BY SectorsFacts
<1>10. SectorsOk(e)
  BY <1>6, <1>7, <1>8, <1>9
  DEF SectorsOk, FreeMapSector, DirectorySector, PipeSector
<1>11. \A t \in DirOn(e) : FetchDirectory(e, e[t]) = FetchDirectory(d, d[t])
  <2>1. DirOn(d) \subseteq HeadersOn(d)
    BY DEF DirOn
  <2> QED
    BY <1>3, <1>5, <2>1
<1> QED
  BY <1>4, <1>5, <1>10, <1>11

(* FileHeader::Deallocate, of a file without empty entries in its indirect *)
(* block, clears what the header owns but for its own sector.              *)
LEMMA DeallocateFacts ==
  ASSUME NEW d, NEW h, HeaderOk(d, h), NEW used,
         h.nsectors <= NumDirect \/ h.nsectors = NumDirect + NumInDirect
  PROVE  Deallocate(d, used, h) \ {h.self} = used \ OwnedBy(d, h)
<1>1. /\ h \in HeaderRecord /\ IndirectOk(d, h) /\ h.nsectors \in Nat
      /\ SectorSize \in Nat /\ SectorSize > 0 /\ NumDirect \in Nat
      /\ NumInDirect = SectorSize
  BY RecordFacts, ConstantFacts DEF HeaderOk
<1>2. PICK n \in Nat : n = h.nsectors
  BY <1>1
<1>3. PICK data : data = {ByteToSector(d, h, i) : i \in 0..(n - 1)}
  OBVIOUS
<1>4. OwnedBy(d, h) = data \union {h.self}
                      \union (IF HasIndirect(h) THEN {Indirect(h)} ELSE {})
  BY <1>2, <1>3, SlotFacts
<1>5. PICK m \in Nat : m = Min({n, NumDirect}) /\ m = IF n <= NumDirect THEN n ELSE NumDirect
  <2>1. n \in Int /\ NumDirect \in Int
    BY <1>1, <1>2
  <2>2. Min({n, NumDirect}) = IF n <= NumDirect THEN n ELSE NumDirect
    BY <2>1, MinMaxOfTwo
  <2> QED
    BY <1>1, <1>2, <2>2
<1>6. PICK direct : direct = {h.data[i] : i \in 1..m}
  OBVIOUS
<1>7. \A i \in 1..m : h.data[i] = ByteToSector(d, h, i - 1)
  <2> TAKE i \in 1..m
  <2>1. i - 1 < NumDirect /\ (i - 1) + 1 = i
    <3>1. m <= NumDirect
      BY <1>1, <1>5
    <3> QED
      BY <1>1, <3>1
  <2> QED
    BY <2>1 DEF ByteToSector
<1>8. direct = {ByteToSector(d, h, i) : i \in 0..(m - 1)}
  <2>1. ASSUME NEW x \in direct
        PROVE  x \in {ByteToSector(d, h, i) : i \in 0..(m - 1)}
    <3>1. PICK i \in 1..m : x = h.data[i]
      BY <1>6
    <3>2. x = ByteToSector(d, h, i - 1) /\ i - 1 \in 0..(m - 1)
      BY <1>5, <1>7, <3>1
    <3> QED
      BY <3>2
  <2>2. ASSUME NEW i \in 0..(m - 1)
        PROVE  ByteToSector(d, h, i) \in direct
    <3>1. PICK j \in 1..m : j = i + 1
      BY <1>5
    <3>2. j - 1 = i
      BY <1>5, <3>1
    <3> QED
      BY <1>6, <1>7, <3>2
  <2> QED
    BY <2>1, <2>2
<1>9. CASE n <= NumDirect
  <2>1. ~HasIndirect(h) /\ m = n
    BY <1>1, <1>2, <1>5, <1>9 DEF HasIndirect
  <2>2. Deallocate(d, used, h) = used \ direct
    <3>1. ~(h.nsectors > NumDirect)
      BY <1>1, <1>2, <1>9
    <3> QED
      BY <1>2, <1>5, <1>6, <3>1 DEF Deallocate
  <2> QED
    BY <1>1, <1>2, <1>4, <1>8, <1>3, <2>1, <2>2
<1>10. CASE n > NumDirect
  <2>1. HasIndirect(h) /\ m = NumDirect /\ n = NumDirect + SectorSize
    BY <1>1, <1>2, <1>5, <1>10 DEF HasIndirect
  <2>2. PICK g : g = InDirect(d, h)
    OBVIOUS
  <2>3. DOMAIN g = 1..SectorSize
    BY <1>1, <2>2, InDirectFacts
  <2>4. \A i \in NumDirect..(n - 1) : ByteToSector(d, h, i) = g[i - NumDirect + 1]
    BY <1>1, <1>2, <2>2 DEF ByteToSector
  <2>5. Range(g) = {ByteToSector(d, h, i) : i \in NumDirect..(n - 1)}
    <3>1. Range(g) = {g[j] : j \in 1..SectorSize}
      BY <2>3 DEF Range
    <3>2. ASSUME NEW j \in 1..SectorSize
          PROVE  g[j] \in {ByteToSector(d, h, i) : i \in NumDirect..(n - 1)}
      <4>1. PICK i \in NumDirect..(n - 1) : i = NumDirect + j - 1
        BY <1>1, <2>1
      <4>2. i - NumDirect + 1 = j
        BY <1>1, <4>1
      <4> QED
        BY <2>4, <4>2
    <3>3. ASSUME NEW i \in NumDirect..(n - 1)
          PROVE  ByteToSector(d, h, i) \in {g[j] : j \in 1..SectorSize}
      <4>1. PICK j \in 1..SectorSize : j = i - NumDirect + 1
        BY <1>1, <2>1
      <4> QED
        BY <2>4, <4>1
    <3> QED
      BY <3>1, <3>2, <3>3
  <2>6. data = direct \union Range(g)
    <3>1. 0..(n - 1) = (0..(m - 1)) \union (NumDirect..(n - 1))
      BY <1>1, <2>1
    <3> QED
      BY <1>8, <1>3, <2>5, <3>1
  <2>7. Deallocate(d, used, h) = used \ (direct \union (Range(g) \union {Indirect(h)}))
    <3>1. h.nsectors > NumDirect
      BY <1>2, <1>10
    <3> QED
      BY <1>2, <1>5, <1>6, <2>2, <3>1 DEF Deallocate, Indirect
  <2> QED
    BY <1>4, <2>1, <2>6, <2>7
<1> QED
  BY <1>1, <1>2, <1>9, <1>10

LEMMA RemoveStep ==
  ASSUME FsInv, Careful, NEW path \in Path, RemoveFile(path)
  PROVE  /\ FsInv'
         /\ \A h \in HeadersOn(disk) \ DirOn(disk) :
              h # Find(disk, path) => FileSafe(disk, disk', h)
<1>1. PICK d, c, u : d = disk /\ c = Find(d, path) /\ u = FetchMap(d)
  OBVIOUS
<1>2. PICK new, w, e, used :
        /\ new = Number(0) /\ w = SetEntry(d, path, Last(path), new) /\ e = w.disk
        /\ used = Deallocate(d, u, d[c]) \ {c}
  OBVIOUS
<1>3. PICK v, f : v = Flush(w, used) /\ f = v.disk
  OBVIOUS
<1>4. /\ machine = "up" /\ file = NULL /\ file' = file /\ c # -1
      /\ d[c].nsectors <= NumDirect \/ d[c].nsectors = NumDirect + NumInDirect
      /\ Left(v)
  BY <1>1, <1>2, <1>3 DEF RemoveFile
<1>5. DiskOk(d) /\ SectorsOk(d) /\ EntriesOk(d)
  BY <1>1 DEF FsInv, DiskOk
<1>6. PICK t \in DirOn(d) :
        /\ ParentDirectory(d, path) = FetchDirectory(d, d[t])
        /\ c \in HeadersOn(d) \ Reserved
        /\ \E k \in 1..NumDirEntries :
             /\ k = FindIndex(ParentDirectory(d, path), Last(path))
             /\ EntryAt(d, t, k)[1] = Last(path)
             /\ EntryAt(d, t, k)[2] = c
  BY <1>1, <1>4, <1>5, FindFacts
<1>7. PICK dir, name, k : /\ dir = FetchDirectory(d, d[t]) /\ name = Last(path)
                          /\ k = FindIndex(dir, name)
  OBVIOUS
<1>8. /\ k \in 1..NumDirEntries /\ k # 0 /\ EntryAt(d, t, k)[2] = c
      /\ EntryAt(d, t, k)[1] = name /\ name # NULL
  BY <1>6, <1>7, <1>5, ParentFacts, ConstantFacts
<1>9. w = SetEntryIn(d, d[t], name, new)
  <2>1. SectorsOk(d) /\ ParentDirectory(d, path) = FetchDirectory(d, d[t])
    BY <1>5, <1>6
  <2>2. w = SetEntry(d, path, name, new)
    BY <1>2, <1>7
  <2> QED
    BY <2>1, <2>2, ParentOnDisk
<1>10. /\ ~w.abort /\ SectorsOk(e) /\ FetchMap(e) = FetchMap(d)
       /\ HeadersOn(e) = HeadersOn(d) /\ DirOn(e) = DirOn(d)
       /\ \A s \in HeadersOn(d) : e[s] = d[s] /\ OwnedBy(e, e[s]) = OwnedBy(d, d[s])
       /\ EntryAt(e, t, k) = new
       /\ \A s \in DirOn(d), i \in 1..NumDirEntries :
            ~(s = t /\ i = k) => EntryAt(e, s, i) = EntryAt(d, s, i)
       /\ MarkedKept(d, e, OwnedBy(d, d[t]))
  <2>1. SectorsOk(d) /\ dir = FetchDirectory(d, d[t])
    BY <1>5, <1>7
  <2>2. k = FindIndex(dir, name) /\ k # 0
    BY <1>7, <1>8
  <2>3. w = SetEntryIn(d, d[t], name, new) /\ e = w.disk
    BY <1>2, <1>9
  <2> QED
    BY <2>1, <2>2, <2>3, EntrySet
<1>11. used = u \ OwnedBy(d, d[c])
  <2>1. HeaderOk(d, d[c]) /\ d[c].self = c
    BY <1>5, <1>6, SectorsFacts
  <2>2. PICK h : h = d[c]
    OBVIOUS
  <2>3. Deallocate(d, u, h) \ {h.self} = u \ OwnedBy(d, h)
    BY <1>4, <2>1, <2>2, DeallocateFacts
  <2> QED
    BY <1>2, <2>1, <2>2, <2>3
<1>12. f = WriteMap(e, used) /\ ~v.abort
  <2>1. v = [disk |-> WriteMap(e, used), abort |-> w.abort]
    BY <1>2, <1>3, <1>10 DEF Flush
  <2> QED
    BY <1>3, <1>10, <2>1
<1>13. {0, 3} \subseteq used /\ used \subseteq Sector /\ e[0] = freeMapHdr /\ DOMAIN e = Sector
  <2>1. {0, 3} \subseteq u /\ u \subseteq Sector /\ 3 \notin OwnedBy(d, d[c])
    BY <1>1, <1>5, <1>6, SectorsFacts, SectorFacts
  <2>2. 0 \in HeadersOn(d) /\ c # 0 /\ c \in HeadersOn(d)
    BY <1>5, <1>6, SectorsFacts, SectorFacts
  <2>3. 0 \notin OwnedBy(d, d[c])
    <3>1. 0 \in OwnedBy(d, d[0]) /\ OwnedBy(d, d[0]) \intersect OwnedBy(d, d[c]) = {}
      BY <1>5, <2>2, SectorsFacts
    <3> QED
      BY <3>1
  <2>4. e[0] = freeMapHdr /\ DOMAIN e = Sector
    BY <1>10, SectorsFacts
  <2> QED
    BY <1>11, <2>1, <2>3, <2>4
<1>14. /\ DOMAIN f = Sector /\ FetchMap(f) = used
       /\ \A s \in used \ {3} : f[s] = e[s]
       /\ \A s \in Sector \ used : f[s].kind = "words"
       /\ f[3].kind = "map"
  BY <1>12, <1>13, WriteMapFacts
<1>15. /\ SectorsOk(f) /\ HeadersOn(f) = HeadersOn(e) \ {c}
       /\ DirOn(f) = DirOn(e) \ {c}
       /\ \A s \in DirOn(f) : FetchDirectory(f, f[s]) = FetchDirectory(e, e[s])
  <2>1. c \in HeadersOn(e) \ Reserved
    BY <1>6, <1>10
  <2>2. FetchMap(f) = FetchMap(e) \ OwnedBy(e, e[c])
    BY <1>1, <1>6, <1>10, <1>11, <1>14
  <2>3. \A s \in FetchMap(f) : s # 3 => f[s] = e[s]
    BY <1>14
  <2>4. \A s \in Sector \ FetchMap(f) : f[s].kind # "header"
    BY <1>14
  <2>5. f[3].kind # "header" /\ DOMAIN f = Sector
    BY <1>14
  <2>6. SectorsOk(e)
    BY <1>10
  <2> QED
    BY <2>1, <2>2, <2>3, <2>4, <2>5, <2>6, HeaderRemoved
<1>16. ASSUME NEW s \in DirOn(f), NEW i \in 1..NumDirEntries, EntryAt(f, s, i)[1] # NULL
       PROVE  /\ s \in DirOn(d) /\ ~(s = t /\ i = k)
              /\ EntryAt(f, s, i) = EntryAt(d, s, i)
  <2>1. EntryAt(f, s, i) = EntryAt(e, s, i) /\ s \in DirOn(d)
    BY <1>10, <1>15 DEF EntryAt
  <2>2. ~(s = t /\ i = k)
    BY <1>2, <1>10, <1>16, <2>1 DEF Number
  <2> QED
    BY <1>10, <2>1, <2>2
<1>17. EntriesOk(f)
  <2>1. ASSUME NEW s \in DirOn(f), NEW i \in 1..NumDirEntries, EntryAt(f, s, i)[1] # NULL
        PROVE  EntryAt(f, s, i)[2] \in HeadersOn(f) \ Reserved
    <3>1. s \in DirOn(d) /\ ~(s = t /\ i = k) /\ EntryAt(f, s, i) = EntryAt(d, s, i)
      BY <1>16, <2>1
    <3>2. EntryAt(d, s, i)[2] \in HeadersOn(d) \ Reserved
      BY <1>5, <2>1, <3>1 DEF EntriesOk
    <3>3. EntryAt(d, s, i)[2] # c
      BY <1>5, <1>8, <2>1, <3>1 DEF EntriesOk
    <3> QED
      BY <1>10, <1>15, <3>1, <3>2, <3>3
  <2>2. ASSUME NEW s \in DirOn(f), NEW r \in DirOn(f),
               NEW i \in 1..NumDirEntries, NEW j \in 1..NumDirEntries,
               EntryAt(f, s, i)[1] # NULL, EntryAt(f, r, j)[1] # NULL,
               EntryAt(f, s, i)[2] = EntryAt(f, r, j)[2]
        PROVE  s = r /\ i = j
    <3>1. /\ s \in DirOn(d) /\ EntryAt(f, s, i) = EntryAt(d, s, i)
          /\ r \in DirOn(d) /\ EntryAt(f, r, j) = EntryAt(d, r, j)
      BY <1>16, <2>2
    <3> QED
      BY <1>5, <2>2, <3>1 DEF EntriesOk
  <2> QED
    BY <2>1, <2>2 DEF EntriesOk
<1>18. DiskOk(f)
  BY <1>15, <1>17 DEF DiskOk
<1>19. disk' = f /\ machine' \in {"up", "aborted"}
  BY <1>3, <1>4, <1>18, LeftFacts
<1>20. ASSUME NEW h \in HeadersOn(d) \ DirOn(d), h # c PROVE FileSafe(d, f, h)
  <2>1. /\ OwnedBy(d, d[h]) \subseteq u /\ t \in HeadersOn(d) /\ h # t
        /\ OwnedBy(d, d[h]) \intersect OwnedBy(d, d[t]) = {}
        /\ OwnedBy(d, d[h]) \intersect OwnedBy(d, d[c]) = {}
    BY <1>1, <1>5, <1>6, <1>20, SectorsFacts
  <2> QED
    BY <1>1, <1>10, <1>11, <1>14, <2>1 DEF FileSafe, MarkedKept
<1>21. FsInv'
  BY <1>4, <1>18, <1>19 DEF FsInv
<1> QED
  BY <1>1, <1>19, <1>20, <1>21

-----------------------------------------------------------------------------
(* A header is added in a sector that was not marked.                      *)
LEMMA HeaderAdded ==
  ASSUME NEW d, SectorsOk(d), NEW c \in Sector \ FetchMap(d),
         NEW e, DOMAIN e = Sector, NEW h, e[c] = h, HeaderOk(e, h), h.self = c,
         FetchMap(e) \subseteq Sector, FetchMap(d) \subseteq FetchMap(e),
         OwnedBy(e, h) \subseteq FetchMap(e),
         OwnedBy(e, h) \intersect FetchMap(d) = {},
         \A s \in FetchMap(d) : s # 3 => e[s] = d[s],
         \A s \in Sector : s \notin FetchMap(d) \/ s = 3 => s = c \/ e[s].kind # "header",
         h.type = "TYPE_DIR" => DirOk(e, c)
  PROVE  /\ SectorsOk(e) /\ HeadersOn(e) = HeadersOn(d) \union {c}
         /\ DirOn(e) = DirOn(d) \union (IF h.type = "TYPE_DIR" THEN {c} ELSE {})
         /\ \A t \in DirOn(d) : FetchDirectory(e, e[t]) = FetchDirectory(d, d[t])
<1>1. h.kind = "header" /\ c \notin HeadersOn(d)
  BY RecordFacts, SectorsFacts DEF HeaderOk
<1>2. ASSUME NEW t \in HeadersOn(d)
      PROVE  /\ t \in FetchMap(d) /\ t # 3 /\ e[t] = d[t]
             /\ OwnedBy(d, d[t]) \subseteq FetchMap(d)
             /\ \A s \in OwnedBy(d, d[t]) : s # 3 => e[s] = d[s]
  <2>1. /\ t \in FetchMap(d) /\ OwnedBy(d, d[t]) \subseteq FetchMap(d)
        /\ d[t].kind = "header"
    BY SectorsFacts
  <2>2. t # 3
    BY <2>1, NoHeader
  <2> QED
    BY <2>1, <2>2
<1>3. ASSUME NEW t \in HeadersOn(d)
      PROVE  /\ HeaderOk(e, e[t]) /\ OwnedBy(e, e[t]) = OwnedBy(d, d[t])
             /\ e[t] = d[t]
             /\ t \in DirOn(d) => FetchDirectory(e, e[t]) = FetchDirectory(d, d[t])
  <2>1. e[t] = d[t] /\ \A s \in OwnedBy(d, d[t]) : s # 3 => e[s] = d[s]
    BY <1>2
  <2> QED
    BY <2>1, FileKept
<1>4. HeadersOn(e) = HeadersOn(d) \union {c}
  <2>1. ASSUME NEW s \in HeadersOn(d) PROVE s \in HeadersOn(e)
    <3>1. s \in Sector /\ d[s].kind = "header"
      BY SectorsFacts
    <3> QED
      BY <1>3, <3>1 DEF HeadersOn
  <2>2. c \in HeadersOn(e)
    BY <1>1 DEF HeadersOn
  <2>3. ASSUME NEW s \in HeadersOn(e), s # c PROVE s \in HeadersOn(d)
    <3>1. s \in Sector /\ e[s].kind = "header"
      BY DEF HeadersOn
    <3>2. s \in FetchMap(d) /\ s # 3
      BY <2>3, <3>1
    <3>3. e[s] = d[s]
      BY <3>2
    <3> QED
      BY <3>1, <3>3 DEF HeadersOn
  <2> QED
    BY <2>1, <2>2, <2>3
<1>5. DirOn(e) = DirOn(d) \union (IF h.type = "TYPE_DIR" THEN {c} ELSE {})
  <2>1. \A s \in HeadersOn(d) : e[s].type = d[s].type
    BY <1>3
  <2> QED
    BY <1>1, <1>4, <2>1 DEF DirOn
<1>6. HeadersOk(e)
  <2>1. ASSUME NEW s \in HeadersOn(e)
        PROVE  /\ e[s].self = s /\ HeaderOk(e, e[s])
               /\ OwnedBy(e, e[s]) \subseteq FetchMap(e)
    <3>1. CASE s = c
      BY <3>1
    <3>2. CASE s # c
      <4>1. s \in HeadersOn(d)
        BY <1>4, <3>2
      <4>2. d[s].self = s
        BY <4>1, SectorsFacts
      <4> QED
        BY <1>2, <1>3, <4>1, <4>2
    <3> QED
      BY <3>1, <3>2
  <2>2. ASSUME NEW s \in HeadersOn(d)
        PROVE  OwnedBy(e, e[s]) \intersect OwnedBy(e, e[c]) = {}
    BY <1>2, <1>3
  <2>3. ASSUME NEW s \in HeadersOn(d), NEW t \in HeadersOn(d), s # t
        PROVE  OwnedBy(e, e[s]) \intersect OwnedBy(e, e[t]) = {}
    <3>1. OwnedBy(d, d[s]) \intersect OwnedBy(d, d[t]) = {}
      BY <2>3, SectorsFacts
    <3> QED
      BY <1>3, <3>1
  <2>4. ASSUME NEW s \in HeadersOn(e), NEW t \in HeadersOn(e), s # t
        PROVE  OwnedBy(e, e[s]) \intersect OwnedBy(e, e[t]) = {}
    <3>1. CASE s = c
      BY <1>4, <2>2, <2>4, <3>1
    <3>2. CASE t = c
      BY <1>4, <2>2, <2>4, <3>2
    <3>3. CASE s # c /\ t # c
      BY <1>4, <2>3, <2>4, <3>3
    <3> QED
      BY <3>1, <3>2, <3>3
  <2> QED
    BY <2>1, <2>4 DEF HeadersOk
<1>7. ASSUME NEW s \in DirOn(e) PROVE DirOk(e, s)
  <2>1. CASE s \in DirOn(d)
    <3>1. s \in HeadersOn(d) /\ DirOk(d, s)
      BY <2>1, SectorsFacts
    <3>2. e[s] = d[s] /\ FetchDirectory(e, e[s]) = FetchDirectory(d, d[s])
      BY <1>3, <2>1, <3>1
    <3> QED
      BY <3>1, <3>2 DEF DirOk
  <2>2. CASE s \notin DirOn(d)
    BY <1>5, <2>2
  <2> QED
    BY <2>1, <2>2
<1>8. /\ e[0] = freeMapHdr /\ e[1] = directoryHdr
      /\ 2 \in HeadersOn(e) /\ e[2].type = "TYPE_PIPE"
  <2>1. /\ {0, 1, 2} \subseteq HeadersOn(d) /\ d[0] = freeMapHdr
        /\ d[1] = directoryHdr /\ d[2].type = "TYPE_PIPE"
    BY SectorsFacts, SectorFacts
  <2> QED
    BY <1>3, <1>4, <2>1
<1>9. SectorsOk(e)
  BY <1>6, <1>7, <1>8
  DEF SectorsOk, FreeMapSector, DirectorySector, PipeSector
<1>10. \A t \in DirOn(d) : FetchDirectory(e, e[t]) = FetchDirectory(d, d[t])
  <2>1. DirOn(d) \subseteq HeadersOn(d)
    BY DEF DirOn
  <2> QED
    BY <1>3, <2>1
<1> QED
  BY <1>4, <1>5, <1>9, <1>10

(* What Create leaves on the disk when it has been given a name that is    *)
(* not in the directory t: an entry there, and a header in sector c.       *)
Created(d, e, t, k, c) ==
  /\ SectorsOk(e) /\ HeadersOn(e) = HeadersOn(d) \union {c}
  /\ DirOn(e) \in {DirOn(d), DirOn(d) \union {c}}
  /\ \A i \in 1..NumDirEntries : c \in DirOn(e) => EntryAt(e, c, i)[1] = NULL
  /\ EntryAt(e, t, k)[2] = c
  /\ \A s \in DirOn(d), i \in 1..NumDirEntries :
       ~(s = t /\ i = k) => EntryAt(e, s, i) = EntryAt(d, s, i)

LEMMA CreatedInOrder ==
  ASSUME NEW d, DiskOk(d), NEW e, NEW t \in DirOn(d), NEW k \in 1..NumDirEntries,
         NEW c \in Sector \ FetchMap(d), Created(d, e, t, k, c)
  PROVE  DiskOk(e)
<1>1. SectorsOk(d) /\ EntriesOk(d)
  BY DEF DiskOk
<1>2. /\ SectorsOk(e) /\ HeadersOn(e) = HeadersOn(d) \union {c}
      /\ DirOn(e) \subseteq DirOn(d) \union {c}
      /\ \A i \in 1..NumDirEntries : c \in DirOn(e) => EntryAt(e, c, i)[1] = NULL
      /\ EntryAt(e, t, k)[2] = c
      /\ \A s \in DirOn(d), i \in 1..NumDirEntries :
           ~(s = t /\ i = k) => EntryAt(e, s, i) = EntryAt(d, s, i)
  BY DEF Created
<1>3. c \notin HeadersOn(d) /\ c \notin Reserved /\ DirOn(d) \subseteq HeadersOn(d)
  BY <1>1, SectorsFacts
<1>4. ASSUME NEW s \in DirOn(e), NEW i \in 1..NumDirEntries, EntryAt(e, s, i)[1] # NULL
      PROVE  /\ s \in DirOn(d)
             /\ s = t /\ i = k => EntryAt(e, s, i)[2] = c
             /\ ~(s = t /\ i = k) => /\ EntryAt(e, s, i) = EntryAt(d, s, i)
                                     /\ EntryAt(e, s, i)[2] \in HeadersOn(d) \ Reserved
  <2>1. s \in DirOn(d)
    BY <1>2, <1>4
  <2>2. ~(s = t /\ i = k) => EntryAt(e, s, i) = EntryAt(d, s, i)
    BY <1>2, <2>1
  <2>3. s = t /\ i = k => EntryAt(e, s, i)[2] = c
    BY <1>2
  <2>4. EntryAt(d, s, i)[1] # NULL => EntryAt(d, s, i)[2] \in HeadersOn(d) \ Reserved
    BY <1>1, <2>1 DEF EntriesOk
  <2> QED
    BY <1>4, <2>1, <2>2, <2>3, <2>4
<1>5. ASSUME NEW s \in DirOn(e), NEW i \in 1..NumDirEntries, EntryAt(e, s, i)[1] # NULL
      PROVE  EntryAt(e, s, i)[2] \in HeadersOn(e) \ Reserved
  BY <1>2, <1>3, <1>4, <1>5
<1>6. ASSUME NEW s \in DirOn(e), NEW r \in DirOn(e),
             NEW i \in 1..NumDirEntries, NEW j \in 1..NumDirEntries,
             EntryAt(e, s, i)[1] # NULL, EntryAt(e, r, j)[1] # NULL,
             EntryAt(e, s, i)[2] = EntryAt(e, r, j)[2]
      PROVE  s = r /\ i = j
  <2>1. CASE s = t /\ i = k
    <3>1. EntryAt(e, r, j)[2] = c
      BY <1>4, <1>6, <2>1
    <3>2. r = t /\ j = k
      BY <1>3, <1>4, <1>6, <3>1
    <3> QED
      BY <2>1, <3>2
  <2>2. CASE r = t /\ j = k
    <3>1. EntryAt(e, s, i)[2] = c
      BY <1>4, <1>6, <2>2
    <3>2. s = t /\ i = k
      BY <1>3, <1>4, <1>6, <3>1
    <3> QED
      BY <2>2, <3>2
  <2>3. CASE ~(s = t /\ i = k) /\ ~(r = t /\ j = k)
    <3>1. /\ s \in DirOn(d) /\ EntryAt(e, s, i) = EntryAt(d, s, i)
          /\ r \in DirOn(d) /\ EntryAt(e, r, j) = EntryAt(d, r, j)
      BY <1>4, <1>6, <2>3
    <3> QED
      BY <1>1, <1>6, <3>1 DEF EntriesOk
  <2> QED
    BY <2>1, <2>2, <2>3
<1>7. EntriesOk(e)
  BY <1>5, <1>6 DEF EntriesOk
<1> QED
  BY <1>2, <1>7 DEF DiskOk

(* The header of an empty file.                                            *)
LEMMA NewHeader ==
  ASSUME NEW d, NEW x \in Sector, NEW type \in HeaderType,
         NEW h, h = FileHeader(x, type)
  PROVE  /\ HeaderOk(d, h) /\ OwnedBy(d, h) = {x} /\ ~HasIndirect(h)
         /\ h.self = x /\ h.type = type /\ h.nsectors = 0
<1>1. h = [kind |-> "header", self |-> x, type |-> type, limit |-> 0,
           nsectors |-> 0, data |-> [i \in 1..(NumDirect + 1) |-> 0]]
  BY DEF FileHeader
<1>2. /\ h.kind = "header" /\ h.self = x /\ h.type = type /\ h.limit = 0
      /\ h.nsectors = 0 /\ h.data = [i \in 1..(NumDirect + 1) |-> 0]
  BY <1>1
<1>3. NumDirect \in Nat /\ SectorSize \in Nat /\ NumDirect + SectorSize \in Nat
      /\ NumInDirect = SectorSize
  BY ConstantFacts
<1>4. h.data \in [1..(NumDirect + 1) -> Nat] /\ h.nsectors \in 0..(NumDirect + NumInDirect)
  BY <1>2, <1>3
<1>5. h \in HeaderRecord
  BY <1>1, <1>3, <1>4 DEF HeaderRecord
<1>6. ~HasIndirect(h) /\ Indirect(h) = 0
  BY <1>2, <1>3 DEF HasIndirect, Indirect
<1>7. Slots(h) = {0}
  BY <1>2, <1>6 DEF Slots
<1>8. SlotAt(d, h, 0) = x
  BY <1>2 DEF SlotAt
<1>9. h.limit <= FileCapacity(h)
  BY <1>2, <1>3 DEF FileCapacity
<1>10. HeaderOk(d, h)
  BY <1>5, <1>6, <1>7, <1>8, <1>9 DEF HeaderOk, IndirectOk
<1>11. OwnedBy(d, h) = {x}
  BY <1>7, <1>8 DEF OwnedBy
<1> QED
  BY <1>2, <1>6, <1>10, <1>11

(* Bitmap::FindAndSet.                                                     *)
LEMMA FirstClear ==
  ASSUME NEW used, NEW x, x = FindClear(used, NumSectors), x # -1
  PROVE  x \in Sector \ used /\ FindAndSet(used, NumSectors) = used \union {x}
<1>1. PICK clear : clear = (0..(NumSectors - 1)) \ used
  OBVIOUS
<1>2. x = IF clear = {} THEN -1 ELSE Min(clear)
  BY <1>1 DEF FindClear
<1>3. clear \subseteq Nat /\ clear # {}
  BY <1>1, <1>2
<1>4. Min(clear) \in clear
  BY <1>3, MinFacts
<1>5. x \in Sector \ used
  BY <1>1, <1>2, <1>3, <1>4 DEF Sector
<1> QED
  BY <1>5 DEF FindAndSet

(* The disk with a new empty file.                                         *)
WithFile(d, x) ==
  WriteMap([d EXCEPT ![x] = FileHeader(x, "TYPE_FILE")], FetchMap(d) \union {x})

LEMMA FileCreated ==
  ASSUME NEW d, SectorsOk(d), NEW x \in Sector \ FetchMap(d),
         NEW e, e = WithFile(d, x)
  PROVE  /\ SectorsOk(e) /\ HeadersOn(e) = HeadersOn(d) \union {x} /\ DirOn(e) = DirOn(d)
         /\ \A t \in DirOn(d) : FetchDirectory(e, e[t]) = FetchDirectory(d, d[t])
         /\ MarkedKept(d, e, {})
<1>1. PICK u, used : u = FetchMap(d) /\ used = u \union {x}
  OBVIOUS
<1>2. PICK h : h = FileHeader(x, "TYPE_FILE")
  OBVIOUS
<1>3. PICK d1 : d1 = [d EXCEPT ![x] = h]
  OBVIOUS
<1>4. /\ DOMAIN d = Sector /\ {0, 3} \subseteq u /\ u \subseteq Sector /\ d[0] = freeMapHdr
      /\ x \notin u
  BY <1>1, SectorsFacts
<1>5. /\ DOMAIN d1 = Sector /\ d1[x] = h
      /\ \A s \in Sector : s # x => d1[s] = d[s]
  BY <1>4, <1>3
<1>6. /\ DOMAIN e = Sector /\ FetchMap(e) = used
      /\ \A s \in used \ {3} : e[s] = d1[s]
      /\ \A s \in Sector \ used : e[s].kind = "words"
      /\ e[3].kind = "map"
  <2>1. PICK g : g = d1
    OBVIOUS
  <2>2. DOMAIN g = Sector /\ g[0] = freeMapHdr
    BY <1>4, <1>5, <2>1
  <2>3. used \subseteq Sector /\ {0, 3} \subseteq used
    BY <1>1, <1>4
  <2>4. PICK e2 : e2 = e
    OBVIOUS
  <2>5. e2 = WriteMap(g, used)
    BY <1>1, <1>2, <1>3, <2>1, <2>4 DEF WithFile
  <2>6. /\ DOMAIN e2 = Sector /\ FetchMap(e2) = used
        /\ \A s \in used \ {3} : e2[s] = g[s]
        /\ \A s \in Sector \ used : e2[s].kind = "words"
        /\ e2[3].kind = "map"
    BY <2>2, <2>3, <2>5, WriteMapFacts
  <2> QED
    BY <2>1, <2>4, <2>6
<1>7. PICK f : f = h
  OBVIOUS
<1>8. /\ \A q : HeaderOk(q, f) /\ OwnedBy(q, f) = {x}
      /\ f.self = x /\ f.type = "TYPE_FILE"
  <2>1. "TYPE_FILE" \in HeaderType /\ x \in Sector
    BY DEF HeaderType
  <2>2. f = FileHeader(x, "TYPE_FILE")
    BY <1>7, <1>2
  <2> QED
    BY <2>1, <2>2, NewHeader
<1>9. e[x] = f /\ x # 3
  BY <1>1, <1>4, <1>5, <1>6, <1>7
<1>10. \A s \in FetchMap(d) : s # 3 => e[s] = d[s]
  BY <1>1, <1>4, <1>5, <1>6
<1>11. \A s \in Sector : s \notin FetchMap(d) \/ s = 3 => s = x \/ e[s].kind # "header"
  BY <1>1, <1>6
<1>12. PICK e2 : e2 = e
  OBVIOUS
<1>13. /\ SectorsOk(e2) /\ HeadersOn(e2) = HeadersOn(d) \union {x}
       /\ DirOn(e2) = DirOn(d) \union (IF f.type = "TYPE_DIR" THEN {x} ELSE {})
       /\ \A t \in DirOn(d) : FetchDirectory(e2, e2[t]) = FetchDirectory(d, d[t])
  <2>1. DOMAIN e2 = Sector /\ e2[x] = f /\ HeaderOk(e2, f) /\ f.self = x
    BY <1>6, <1>8, <1>9, <1>12
  <2>2. FetchMap(e2) \subseteq Sector /\ FetchMap(d) \subseteq FetchMap(e2)
    BY <1>1, <1>4, <1>6, <1>12
  <2>3. OwnedBy(e2, f) \subseteq FetchMap(e2) /\ OwnedBy(e2, f) \intersect FetchMap(d) = {}
    <3>1. OwnedBy(e2, f) = {x}
      BY <1>8
    <3>2. FetchMap(e2) = FetchMap(d) \union {x}
      BY <1>1, <1>6, <1>12
    <3> QED
      BY <3>1, <3>2
  <2>4. \A s \in FetchMap(d) : s # 3 => e2[s] = d[s]
    BY <1>10, <1>12
  <2>5. \A s \in Sector : s \notin FetchMap(d) \/ s = 3 => s = x \/ e2[s].kind # "header"
    BY <1>11, <1>12
  <2>6. f.type = "TYPE_DIR" => DirOk(e2, x)
    BY <1>8
  <2>7. x \in Sector \ FetchMap(d)
    OBVIOUS
  <2> QED
    BY <2>1, <2>2, <2>3, <2>4, <2>5, <2>6, <2>7, HeaderAdded
<1>14. MarkedKept(d, e, {})
  BY <1>10 DEF MarkedKept
<1> QED
  BY <1>8, <1>12, <1>13, <1>14

(* The header of a new directory, and its empty table, when there are the  *)
(* sectors for it.                                                         *)
LEMMA DirectoryCreated ==
  ASSUME NEW d, SectorsOk(d), NEW x \in Sector \ FetchMap(d),
         NumClear(FetchMap(d)) > DirSectors,
         NEW h, h = FileHeader(x, "TYPE_DIR"),
         NEW u, u = FetchMap(d) \union {x},
         NEW a, a = Allocate(d, u, h, DirectoryFileSize),
         NEW v, v = NewDirectory(a, x), NEW e, e = v.disk
  PROVE  /\ ~v.abort
         /\ SectorsOk(e) /\ HeadersOn(e) = HeadersOn(d) \union {x}
         /\ DirOn(e) = DirOn(d) \union {x}
         /\ \A t \in DirOn(d) : FetchDirectory(e, e[t]) = FetchDirectory(d, d[t])
         /\ \A i \in 1..NumDirEntries : EntryAt(e, x, i)[1] = NULL
         /\ MarkedKept(d, e, {})
<1>1. PICK used : used = u
  OBVIOUS
<1>2. /\ DOMAIN d = Sector /\ {0, 3} \subseteq used /\ used \subseteq Sector
      /\ x \notin FetchMap(d) /\ FetchMap(d) \subseteq used /\ x \in used
      /\ 0 \in FetchMap(d) /\ 3 \in FetchMap(d) /\ d[0] = freeMapHdr
  BY <1>1, SectorsFacts
<1>3. PICK f : f = h
  OBVIOUS
<1>4. /\ HeaderOk(d, f) /\ OwnedBy(d, f) = {x}
      /\ f.self = x /\ f.type = "TYPE_DIR" /\ f.nsectors = 0
  <2>1. "TYPE_DIR" \in HeaderType /\ x \in Sector
    BY DEF HeaderType
  <2>2. f = FileHeader(x, "TYPE_DIR")
    BY <1>3
  <2> QED
    BY <2>1, <2>2, NewHeader
<1>5. /\ NumDirEntries \in Nat /\ DirSectors \in Nat /\ DirSectors <= NumDirect
      /\ divRoundUp(NumDirEntries, SectorSize) = DirSectors
      /\ NumDirect \in Nat /\ NumDirEntries + 1 <= DirSectors * SectorSize
  BY ConstantFacts DEF DirSectors, DirectoryFileSize
<1>6. DirSectors <= NumClear(used)
  <2>1. NumClear(FetchMap(d)) \in Nat /\ NumClear(used) = NumClear(FetchMap(d)) - 1
    BY <1>1, NumClearFacts
  <2> QED
    BY <1>5, <2>1
<1>7. PICK g, d1, marked : g = a.hdr /\ d1 = a.disk /\ marked = a.used
  OBVIOUS
<1>8. /\ a.result = "ok" /\ HeaderOk(d1, g) /\ DOMAIN d1 = Sector
      /\ g.self = x /\ g.type = "TYPE_DIR" /\ g.nsectors = DirSectors
      /\ marked \subseteq Sector /\ used \subseteq marked
      /\ OwnedBy(d1, g) \subseteq marked
      /\ OwnedBy(d1, g) \intersect used \subseteq {x}
      /\ \A s \in Sector :
           \/ d1[s] = d[s]
           \/ d1[s].kind = "words" /\ s \notin used
           \/ s = x
  <2>1. PICK size \in Nat : size = NumDirEntries
    BY <1>5
  <2>2. PICK b : b = a
    OBVIOUS
  <2>3. b = Allocate(d, used, f, size)
    BY <1>3, <1>1, <2>1, <2>2 DEF DirectoryFileSize
  <2>4. /\ DOMAIN d = Sector /\ HeaderOk(d, f) /\ used \subseteq Sector /\ 0 \in used
        /\ OwnedBy(d, f) \subseteq used
    BY <1>2, <1>4
  <2>5. /\ f.nsectors + divRoundUp(size, SectorSize) <= NumDirect
        /\ divRoundUp(size, SectorSize) <= NumClear(used)
    BY <1>4, <1>5, <1>6, <2>1
  <2>6. b.result = "ok"
    BY <2>4, <2>5, <2>3, AllocateFacts
  <2>7. /\ HeaderOk(d1, g) /\ DOMAIN d1 = Sector
        /\ g.self = f.self /\ g.type = f.type
        /\ g.nsectors = f.nsectors + divRoundUp(size, SectorSize)
        /\ marked \subseteq Sector /\ used \subseteq marked
        /\ OwnedBy(d1, g) \subseteq marked
        /\ OwnedBy(d1, g) \intersect used \subseteq OwnedBy(d, f)
        /\ \A s \in Sector :
             \/ d1[s] = d[s]
             \/ /\ d1[s].kind = "words" /\ s # f.self
                /\ s \in OwnedBy(d, f) \/ s \notin used
    <3>1. g = b.hdr /\ d1 = b.disk /\ marked = b.used
      BY <1>7, <2>2
    <3> QED
      BY <2>4, <2>6, <2>3, <3>1, AllocateFacts
  <2>8. g.nsectors = DirSectors
    BY <1>4, <1>5, <2>1, <2>7
  <2>9. ASSUME NEW s \in Sector
        PROVE  d1[s] = d[s] \/ (d1[s].kind = "words" /\ s \notin used) \/ s = x
    BY <1>4, <2>7
  <2> QED
    BY <1>4, <2>2, <2>6, <2>7, <2>8, <2>9
<1>9. ~HasIndirect(g) /\ FileCapacity(g) >= NumDirEntries + 1
  BY <1>5, <1>8 DEF HasIndirect, FileCapacity
<1>10. PICK d2 : d2 = [d1 EXCEPT ![x] = g]
  OBVIOUS
<1>11. /\ DOMAIN d2 = Sector /\ d2[x] = g
       /\ \A s \in Sector : s # x => d2[s] = d1[s]
  BY <1>8, <1>10
<1>12. HeaderOk(d2, g) /\ OwnedBy(d2, g) = OwnedBy(d1, g)
  <2>1. HeaderOk(d1, g) /\ g \in HeaderRecord /\ IndirectOk(d1, g)
    BY <1>8 DEF HeaderOk
  <2> QED
    BY <1>9, <2>1, HeaderFramed
<1>13. PICK dir : dir = [sector |-> x, table |-> [i \in 1..NumDirEntries |-> Number(0)]]
  OBVIOUS
<1>14. /\ dir.sector = x /\ IsTable(dir.table)
       /\ \A i \in 1..NumDirEntries : dir.table[i] = Number(0)
  <2>1. dir.sector = x /\ dir.table = [i \in 1..NumDirEntries |-> Number(0)]
    BY <1>13
  <2>2. dir.table \in [1..NumDirEntries -> {Number(0)}]
    BY <2>1
  <2> QED
    BY <2>1, <2>2 DEF IsTable
<1>15. PICK w, e2, k : /\ w = WriteDirectory(d2, g, dir) /\ e2 = w.disk
                       /\ k = WithLimit(g, NumDirEntries + 1)
  OBVIOUS
<1>16. /\ ~w.abort /\ HeaderOk(e2, k) /\ OwnedBy(e2, k) = OwnedBy(d1, g)
       /\ DOMAIN e2 = Sector /\ e2[x] = k
       /\ \A s \in Sector \ OwnedBy(d1, g) : e2[s] = d2[s]
       /\ \A n \in 0..(g.nsectors - 1) :
            \/ e2[ByteToSector(d2, g, n)] = d2[ByteToSector(d2, g, n)]
            \/ e2[ByteToSector(d2, g, n)].kind = "words"
       /\ FetchDirectory(e2, k).sector = x
       /\ \A i \in 1..NumDirEntries : FetchDirectory(e2, k).table[i] = Number(0)
  <2>1. NumDirEntries + 1 <= FileCapacity(g)
    BY <1>5, <1>8, <1>9 DEF FileCapacity
  <2>2. DOMAIN d2 = Sector /\ HeaderOk(d2, g) /\ IsTable(dir.table)
    BY <1>11, <1>12, <1>14
  <2>3. /\ ~w.abort /\ HeaderOk(e2, k) /\ OwnedBy(e2, k) = OwnedBy(d2, g)
        /\ DOMAIN e2 = Sector /\ e2[g.self] = k
        /\ \A s \in Sector \ OwnedBy(d2, g) : e2[s] = d2[s]
        /\ \A n \in 0..(g.nsectors - 1) :
             \/ e2[ByteToSector(d2, g, n)] = d2[ByteToSector(d2, g, n)]
             \/ e2[ByteToSector(d2, g, n)].kind = "words"
        /\ FetchDirectory(e2, k).sector = dir.sector
        /\ \A i \in 1..NumDirEntries : FetchDirectory(e2, k).table[i] = dir.table[i]
    BY <1>15, <2>1, <2>2, WriteDirectoryFacts
  <2> QED
    BY <1>8, <1>12, <1>14, <2>3
<1>17. ~v.abort /\ e = WriteMap(e2, marked)
  <2>1. v = Flush(WriteDirectory(d2, g, dir), marked)
    <3>1. v = Flush(WriteDirectory([d1 EXCEPT ![x] = g], g,
                      [sector |-> x, table |-> [i \in 1..NumDirEntries |-> Number(0)]]),
                    marked)
      BY <1>7 DEF NewDirectory
    <3> QED
      BY <1>10, <1>13, <3>1
  <2>2. v = [disk |-> IF w.abort THEN w.disk ELSE WriteMap(w.disk, marked),
             abort |-> w.abort]
    BY <1>15, <2>1 DEF Flush
  <2>3. /\ v.abort <=> w.abort
        /\ v.disk = IF w.abort THEN w.disk ELSE WriteMap(w.disk, marked)
    BY <2>2
  <2> QED
    BY <1>15, <1>16, <2>3
<1>18. PICK z : z = e
  OBVIOUS
<1>19. z = WriteMap(e2, marked)
  BY <1>17, <1>18
<1>20. /\ 0 \notin OwnedBy(d1, g) /\ 3 \notin OwnedBy(d1, g) /\ 0 # x /\ 3 # x
       /\ OwnedBy(d1, g) \intersect FetchMap(d) = {}
  BY <1>2, <1>8
<1>21. e2[0] = freeMapHdr
  <2>1. d1[0] = d[0]
    BY <1>2, <1>8, <1>20, SectorFacts, FreeMapFacts
  <2> QED
    BY <1>2, <1>11, <1>16, <1>20, <2>1, SectorFacts
<1>22. /\ DOMAIN z = Sector /\ FetchMap(z) = marked
       /\ \A s \in marked \ {3} : z[s] = e2[s]
       /\ \A s \in Sector \ marked : z[s].kind = "words"
       /\ z[3].kind = "map"
  <2>1. marked \subseteq Sector /\ {0, 3} \subseteq marked /\ DOMAIN e2 = Sector
    BY <1>2, <1>8, <1>16, <1>18
  <2> QED
    BY <1>19, <1>21, <2>1, WriteMapFacts
<1>23. /\ k.self = x /\ k.type = "TYPE_DIR" /\ k.nsectors = DirSectors
       /\ k.limit = NumDirEntries + 1 /\ ~HasIndirect(k)
  <2>1. PICK limit \in Nat : limit = NumDirEntries + 1
    BY <1>5
  <2>2. limit <= FileCapacity(g) /\ k = WithLimit(g, limit)
    BY <1>5, <1>8, <1>15, <2>1 DEF FileCapacity
  <2>3. /\ k.limit = limit /\ k.self = g.self /\ k.type = g.type
        /\ k.nsectors = g.nsectors /\ (HasIndirect(k) <=> HasIndirect(g))
    BY <1>12, <2>2, SetLimit
  <2> QED
    BY <1>8, <1>9, <2>1, <2>3
<1>24. HeaderOk(z, k) /\ OwnedBy(z, k) = OwnedBy(d1, g)
  <2>1. HeaderOk(e2, k) /\ k \in HeaderRecord /\ IndirectOk(e2, k)
    BY <1>16 DEF HeaderOk
  <2>2. HeaderOk(z, k) /\ OwnedBy(z, k) = OwnedBy(e2, k)
    BY <1>23, <2>1, HeaderFramed
  <2> QED
    BY <1>16, <2>2
<1>25. z[x] = k
  BY <1>2, <1>8, <1>16, <1>20, <1>22
<1>26. ASSUME NEW s \in FetchMap(d), s # 3 PROVE z[s] = d[s]
  <2>1. s \in used /\ s \in Sector /\ s # x /\ s \notin OwnedBy(d1, g) /\ s \in marked
    BY <1>2, <1>8, <1>18, <1>20
  <2>2. d1[s] = d[s]
    BY <1>8, <2>1
  <2> QED
    BY <1>11, <1>16, <1>22, <1>26, <2>1, <2>2
<1>27. ASSUME NEW s \in Sector, s \notin FetchMap(d) \/ s = 3, s # x
       PROVE  z[s].kind # "header"
  <2>1. CASE s = 3
    BY <1>22, <2>1
  <2>2. CASE s \notin marked
    BY <1>22, <2>2
  <2>3. CASE s # 3 /\ s \in marked
    <3>1. d[s].kind # "header"
      BY <1>27, <2>3, NoHeader
    <3>2. d2[s].kind # "header"
      BY <1>8, <1>11, <1>27, <3>1
    <3>3. e2[s] = d2[s] \/ e2[s].kind = "words"
      <4>1. OwnedBy(d2, g) = {ByteToSector(d2, g, n) : n \in 0..(g.nsectors - 1)}
              \union {g.self} \union (IF HasIndirect(g) THEN {Indirect(g)} ELSE {})
        BY <1>12, SlotFacts
      <4> QED
        BY <1>8, <1>9, <1>12, <1>16, <1>27, <4>1
    <3> QED
      BY <1>22, <2>3, <3>2, <3>3
  <2> QED
    BY <2>1, <2>2, <2>3
<1>28. FetchDirectory(z, k) = FetchDirectory(e2, k)
  <2>1. \A n \in 0..(k.nsectors - 1) : ByteToSector(e2, k, n) \in OwnedBy(e2, k)
    BY <1>16, SlotFacts
  <2>2. \A n \in 0..(k.nsectors - 1) :
          z[ByteToSector(e2, k, n)] = e2[ByteToSector(e2, k, n)]
    BY <1>8, <1>16, <1>20, <1>22, <2>1
  <2> QED
    BY <1>16, <1>23, <2>2, ReadFramed
<1>29. DirOk(z, x)
  BY <1>16, <1>23, <1>25, <1>28 DEF DirOk
<1>30. /\ SectorsOk(z) /\ HeadersOn(z) = HeadersOn(d) \union {x}
       /\ DirOn(z) = DirOn(d) \union (IF k.type = "TYPE_DIR" THEN {x} ELSE {})
       /\ \A t \in DirOn(d) : FetchDirectory(z, z[t]) = FetchDirectory(d, d[t])
  <2>1. FetchMap(z) \subseteq Sector /\ FetchMap(d) \subseteq FetchMap(z)
    BY <1>2, <1>8, <1>22
  <2>2. OwnedBy(z, k) \subseteq FetchMap(z) /\ OwnedBy(z, k) \intersect FetchMap(d) = {}
    BY <1>8, <1>20, <1>22, <1>24
  <2>3. \A s \in FetchMap(d) : s # 3 => z[s] = d[s]
    BY <1>26
  <2>4. \A s \in Sector : s \notin FetchMap(d) \/ s = 3 => s = x \/ z[s].kind # "header"
    BY <1>27
  <2>5. DOMAIN z = Sector /\ z[x] = k /\ HeaderOk(z, k) /\ k.self = x
    BY <1>22, <1>23, <1>24, <1>25
  <2>6. x \in Sector \ FetchMap(d)
    OBVIOUS
  <2> QED
    BY <1>29, <2>1, <2>2, <2>3, <2>4, <2>5, <2>6, HeaderAdded
<1>31. \A i \in 1..NumDirEntries : EntryAt(z, x, i)[1] = NULL
  BY <1>16, <1>25, <1>28 DEF EntryAt, Number
<1>32. MarkedKept(d, z, {})
  BY <1>26 DEF MarkedKept
<1> QED
  BY <1>17, <1>18, <1>23, <1>30, <1>31, <1>32

(* FileSystem::Create.                                                     *)
LEMMA CreateStep ==
  ASSUME FsInv, Careful, NEW path \in Path, NEW type \in {"TYPE_FILE", "TYPE_DIR"},
         Create(path, type)
  PROVE  /\ FsInv'
         /\ \A h \in HeadersOn(disk) \ DirOn(disk) : FileSafe(disk, disk', h)
<1>1. PICK d, u, c, used : /\ d = disk /\ u = FetchMap(d)
                           /\ c = FindClear(u, NumSectors)
                           /\ used = FindAndSet(u, NumSectors)
  OBVIOUS
<1>2. PICK new, name, dir : /\ new = <<Last(path), c>> /\ name = Last(path)
                            /\ dir = ParentDirectory(d, path)
  OBVIOUS
<1>3. PICK w, d1 : w = SetEntry(d, path, NULL, new) /\ d1 = w.disk
  OBVIOUS
<1>4. PICK v, e : v = NewFile(w, used, c, type) /\ e = v.disk
  OBVIOUS
<1>5. /\ machine = "up" /\ file = NULL /\ file' = file /\ c # -1
      /\ CanAdd(dir, name) /\ Left(v)
      /\ type = "TYPE_DIR" => NumClear(u) > DirSectors
  BY <1>1, <1>2, <1>3, <1>4 DEF Create
<1>6. DiskOk(d) /\ SectorsOk(d)
  BY <1>1 DEF FsInv, DiskOk
<1>7. c \in Sector \ u /\ used = u \union {c}
  BY <1>1, <1>5, FirstClear
<1>8. dir # NULL /\ FindIndex(dir, NULL) # 0
  BY <1>5 DEF CanAdd
<1>9. PICK t \in DirOn(d) : dir = FetchDirectory(d, d[t])
  <2>1. IsDirectory(d, dir)
    BY <1>2, <1>6, ParentFacts
  <2> QED
    BY <1>8, <2>1 DEF IsDirectory
<1>10. PICK k : k = FindIndex(dir, NULL)
  OBVIOUS
<1>11. PICK empty : empty = NULL
  OBVIOUS
<1>12. w = SetEntryIn(d, d[t], empty, new)
  <2>1. ParentDirectory(d, path) = FetchDirectory(d, d[t])
    BY <1>2, <1>9
  <2>2. w = SetEntry(d, path, empty, new)
    BY <1>3, <1>11
  <2> QED
    BY <1>6, <2>1, <2>2, ParentOnDisk
<1>13. /\ ~w.abort /\ SectorsOk(d1) /\ FetchMap(d1) = u
       /\ HeadersOn(d1) = HeadersOn(d) /\ DirOn(d1) = DirOn(d)
       /\ k \in 1..NumDirEntries /\ EntryAt(d1, t, k) = new
       /\ \A s \in DirOn(d), i \in 1..NumDirEntries :
            ~(s = t /\ i = k) => EntryAt(d1, s, i) = EntryAt(d, s, i)
       /\ MarkedKept(d, d1, OwnedBy(d, d[t]))
  <2>1. SectorsOk(d) /\ dir = FetchDirectory(d, d[t])
    BY <1>6, <1>9
  <2>2. k = FindIndex(dir, empty) /\ k # 0
    BY <1>8, <1>10, <1>11
  <2>3. w = SetEntryIn(d, d[t], empty, new) /\ d1 = w.disk
    BY <1>3, <1>12
  <2>4. /\ ~w.abort /\ SectorsOk(d1) /\ FetchMap(d1) = FetchMap(d)
        /\ HeadersOn(d1) = HeadersOn(d) /\ DirOn(d1) = DirOn(d)
        /\ \A s \in HeadersOn(d) : d1[s] = d[s] /\ OwnedBy(d1, d1[s]) = OwnedBy(d, d[s])
        /\ EntryAt(d1, t, k) = new
        /\ \A s \in DirOn(d), i \in 1..NumDirEntries :
             ~(s = t /\ i = k) => EntryAt(d1, s, i) = EntryAt(d, s, i)
    BY <2>1, <2>2, <2>3, EntrySet
  <2>5. MarkedKept(d, d1, OwnedBy(d, d[t]))
    BY <2>1, <2>2, <2>3, EntrySet
  <2>6. k \in 1..NumDirEntries
    BY <2>2, FindIndexFacts
  <2> QED
    BY <1>1, <2>4, <2>5, <2>6
<1>14. /\ ~v.abort /\ SectorsOk(e) /\ HeadersOn(e) = HeadersOn(d1) \union {c}
       /\ DirOn(e) \in {DirOn(d1), DirOn(d1) \union {c}}
       /\ \A s \in DirOn(d1) : FetchDirectory(e, e[s]) = FetchDirectory(d1, d1[s])
       /\ \A i \in 1..NumDirEntries : c \in DirOn(e) => EntryAt(e, c, i)[1] = NULL
       /\ MarkedKept(d1, e, {})
  <2>1. c \in Sector \ FetchMap(d1) /\ c \notin DirOn(d1)
    <3>1. DirOn(d1) \subseteq FetchMap(d1)
      BY <1>13, SectorsFacts
    <3> QED
      BY <1>7, <1>13, <3>1
  <2>2. PICK h : h = FileHeader(c, type)
    OBVIOUS
  <2>3. CASE type = "TYPE_DIR"
    <3>1. PICK a : a = Allocate(d1, used, h, DirectoryFileSize)
      OBVIOUS
    <3>2. v = NewDirectory(a, c)
      BY <1>3, <1>4, <2>2, <2>3, <3>1 DEF NewFile
    <3>3. NumClear(FetchMap(d1)) > DirSectors
      BY <1>5, <1>13, <2>3
    <3>4. used = FetchMap(d1) \union {c} /\ h = FileHeader(c, "TYPE_DIR")
      BY <1>7, <1>13, <2>2, <2>3
    <3>5. SectorsOk(d1) /\ e = v.disk
      BY <1>4, <1>13
    <3>6. /\ ~v.abort
          /\ SectorsOk(e) /\ HeadersOn(e) = HeadersOn(d1) \union {c}
          /\ DirOn(e) = DirOn(d1) \union {c}
          /\ \A s \in DirOn(d1) : FetchDirectory(e, e[s]) = FetchDirectory(d1, d1[s])
          /\ \A i \in 1..NumDirEntries : EntryAt(e, c, i)[1] = NULL
          /\ MarkedKept(d1, e, {})
      BY <2>1, <3>1, <3>2, <3>3, <3>4, <3>5, DirectoryCreated
    <3> QED
      BY <3>6
  <2>4. CASE type = "TYPE_FILE"
    <3>1. v = Flush([disk |-> [d1 EXCEPT ![c] = h], abort |-> w.abort], used)
      BY <1>3, <1>4, <2>2, <2>4 DEF NewFile
    <3>2. PICK d2 : d2 = [d1 EXCEPT ![c] = h]
      OBVIOUS
    <3>3. v = [disk |-> IF w.abort THEN d2 ELSE WriteMap(d2, used), abort |-> w.abort]
      BY <3>1, <3>2 DEF Flush
    <3>4. ~v.abort /\ e = WriteMap(d2, used)
      <4>1. /\ v.abort <=> w.abort
            /\ v.disk = IF w.abort THEN d2 ELSE WriteMap(d2, used)
        BY <3>3
      <4> QED
        BY <1>4, <1>13, <4>1
    <3>5. e = WithFile(d1, c)
      BY <1>7, <1>13, <2>2, <2>4, <3>2, <3>4 DEF WithFile
    <3>6. SectorsOk(d1)
      BY <1>13
    <3>7. /\ SectorsOk(e) /\ HeadersOn(e) = HeadersOn(d1) \union {c}
          /\ DirOn(e) = DirOn(d1)
          /\ \A s \in DirOn(d1) : FetchDirectory(e, e[s]) = FetchDirectory(d1, d1[s])
          /\ MarkedKept(d1, e, {})
      BY <2>1, <3>5, <3>6, FileCreated
    <3> QED
      BY <2>1, <3>4, <3>7
  <2> QED
    BY <2>3, <2>4
<1>15. \A s \in DirOn(d) : \A i : EntryAt(e, s, i) = EntryAt(d1, s, i)
  BY <1>13, <1>14 DEF EntryAt
<1>16. EntryAt(e, t, k)[2] = c
  BY <1>2, <1>13, <1>15
<1>17. \A s \in DirOn(d), i \in 1..NumDirEntries :
         ~(s = t /\ i = k) => EntryAt(e, s, i) = EntryAt(d, s, i)
  BY <1>13, <1>15
<1>18. Created(d, e, t, k, c)
  BY <1>13, <1>14, <1>16, <1>17 DEF Created
<1>19. DiskOk(e)
  <2>1. k \in 1..NumDirEntries /\ c \in Sector \ FetchMap(d)
    BY <1>1, <1>7, <1>13
  <2> QED
    BY <1>6, <1>18, <2>1, CreatedInOrder
<1>20. disk' = e /\ machine' \in {"up", "aborted"}
  BY <1>4, <1>5, <1>19, LeftFacts
<1>21. ASSUME NEW h \in HeadersOn(d) \ DirOn(d) PROVE FileSafe(d, e, h)
  <2>1. /\ OwnedBy(d, d[h]) \subseteq u /\ t \in HeadersOn(d) /\ h # t
        /\ OwnedBy(d, d[h]) \intersect OwnedBy(d, d[t]) = {}
    BY <1>1, <1>6, SectorsFacts
  <2> QED
    BY <1>1, <1>13, <1>14, <2>1 DEF FileSafe, MarkedKept
<1>22. FsInv'
  BY <1>5, <1>19, <1>20 DEF FsInv
<1> QED
  BY <1>1, <1>20, <1>21, <1>22

-----------------------------------------------------------------------------
(* A new disk, as the constructor of FileSystem formats it.                *)
IsFormatted(h, x, type, limit, first, n) ==
  /\ h = Formatted(x, type, limit, first, n)
  /\ x \in Sector /\ type \in HeaderType /\ limit \in Nat /\ first \in Nat /\ n \in Nat
  /\ n <= NumDirect /\ limit <= n * SectorSize
  /\ first + n <= NumSectors /\ x < first

Run(first, n) == first..(first + n - 1)
DataInRun(d, h, first, n) == \A i \in 0..(n - 1) : ByteToSector(d, h, i) = first + i

LEMMA FormattedFacts ==
  ASSUME NEW d, NEW h, NEW x, NEW type, NEW limit, NEW first, NEW n,
         IsFormatted(h, x, type, limit, first, n)
  PROVE  /\ HeaderOk(d, h) /\ OwnedBy(d, h) = {x} \union Run(first, n)
         /\ h.kind = "header" /\ h.self = x /\ h.type = type /\ h.limit = limit
         /\ h.nsectors = n /\ DataInRun(d, h, first, n)
<1>1. /\ x \in Sector /\ type \in HeaderType /\ limit \in Nat
       /\ first \in Nat /\ n \in Nat /\ n <= NumDirect
       /\ limit <= n * SectorSize /\ first + n <= NumSectors /\ x < first
  BY DEF IsFormatted
<1>2. PICK data : data = [i \in 1..(NumDirect + 1) |-> IF i <= n THEN first + i - 1 ELSE 0]
  OBVIOUS
<1>3. h = [kind |-> "header", self |-> x, type |-> type, limit |-> limit,
           nsectors |-> n, data |-> data]
  BY <1>2 DEF IsFormatted, Formatted, FileHeader
<1>4. /\ h.kind = "header" /\ h.self = x /\ h.type = type /\ h.limit = limit
      /\ h.nsectors = n /\ h.data = data
  BY <1>1, <1>3
<1>5. /\ NumDirect \in Nat /\ SectorSize \in Nat /\ NumInDirect = SectorSize
      /\ NumSectors \in Nat /\ x \in Nat
  BY <1>1, ConstantFacts, SectorFacts
<1>6. data \in [1..(NumDirect + 1) -> Nat]
  BY <1>1, <1>2, <1>5
<1>7. n \in 0..(NumDirect + NumInDirect)
  BY <1>1, <1>5
<1>8. h \in HeaderRecord
  BY <1>1, <1>3, <1>6, <1>7 DEF HeaderRecord
<1>9. ~HasIndirect(h) /\ Indirect(h) = 0
  BY <1>1, <1>2, <1>4, <1>5 DEF HasIndirect, Indirect
<1>10. Slots(h) = 0..n
  BY <1>1, <1>4, <1>9 DEF Slots
<1>11. \A i \in 0..(n - 1) : ByteToSector(d, h, i) = first + i
  <2> TAKE i \in 0..(n - 1)
  <2>1. i < NumDirect /\ i + 1 \in 1..(NumDirect + 1) /\ i + 1 <= n /\ first + (i + 1) - 1 = first + i
    BY <1>1, <1>5
  <2>2. data[i + 1] = first + i
    BY <1>1, <1>2, <2>1
  <2> QED
    BY <1>1, <1>4, <2>1, <2>2 DEF ByteToSector
<1>12. \A i \in 0..n : SlotAt(d, h, i) = IF i < n THEN first + i ELSE x
  BY <1>1, <1>4, <1>11 DEF SlotAt
<1>13. OwnedBy(d, h) = {x} \union (first..(first + n - 1))
  <2>1. OwnedBy(d, h) = {SlotAt(d, h, i) : i \in 0..n}
    BY <1>1, <1>10 DEF OwnedBy
  <2>2. ASSUME NEW i \in 0..n
        PROVE  SlotAt(d, h, i) \in {x} \union (first..(first + n - 1))
    BY <1>1, <1>12
  <2>3. x \in {SlotAt(d, h, i) : i \in 0..n}
    <3>1. n \in 0..n /\ SlotAt(d, h, n) = x
      BY <1>1, <1>12
    <3> QED
      BY <1>1, <3>1
  <2>4. ASSUME NEW s \in first..(first + n - 1)
        PROVE  s \in {SlotAt(d, h, i) : i \in 0..n}
    <3>1. PICK i \in 0..n : i = s - first /\ i < n
      BY <1>1
    <3>2. SlotAt(d, h, i) = s
      BY <1>1, <1>12, <3>1
    <3> QED
      BY <1>1, <3>2
  <2> QED
    BY <1>1, <2>1, <2>2, <2>3, <2>4
<1>14. \A i \in Slots(h) : SlotAt(d, h, i) \in Sector
  <2> SUFFICES ASSUME NEW i \in 0..n PROVE SlotAt(d, h, i) \in Sector
    BY <1>1, <1>10
  <2> QED
    BY <1>1, <1>5, <1>12 DEF Sector
<1>15. \A i, j \in Slots(h) : SlotAt(d, h, i) = SlotAt(d, h, j) => i = j
  <2> SUFFICES ASSUME NEW i \in 0..n, NEW j \in 0..n, SlotAt(d, h, i) = SlotAt(d, h, j)
               PROVE  i = j
    BY <1>1, <1>10
  <2> QED
    BY <1>1, <1>5, <1>12
<1>16. h.limit <= FileCapacity(h)
  BY <1>1, <1>4 DEF FileCapacity
<1>17. HeaderOk(d, h)
  BY <1>1, <1>8, <1>9, <1>14, <1>15, <1>16 DEF HeaderOk, IndirectOk
<1> QED
  BY <1>1, <1>4, <1>11, <1>13, <1>17 DEF Run, DataInRun

LEMMA InitDisk ==
  ASSUME Init
  PROVE  DiskOk(disk)
<1>1. PICK d : d = disk
  OBVIOUS
<1>2. PICK D, N, S : D = DirSectors /\ N = NumDirEntries /\ S = SectorSize
  OBVIOUS
<1>3. /\ D \in Nat /\ D > 0 /\ D <= NumDirect /\ N \in Nat /\ S \in Nat /\ S > 0
      /\ N + 1 <= D * S /\ NumSectors \in Nat /\ NumSectors > 5 + D /\ NumDirect \in Nat
  BY <1>2, ConstantFacts
<1>4. Sector = 0..(NumSectors - 1)
  BY DEF Sector
<1>5. /\ DOMAIN d = Sector
      /\ d[0] = freeMapHdr /\ d[1] = directoryHdr /\ d[2] = pipeHdr
      /\ d[3] = Bits(0..(4 + D))
      /\ d[4] = Words([i \in 1..SectorSize |->
                        Number(IF i = 1 THEN DirectorySector ELSE 0)])
      /\ \A s \in 5..(3 + D) : d[s] = Zeros
      /\ \A s \in Sector : s > 3 + D => d[s] = Words([i \in 1..SectorSize |-> Junk])
  <2>1. \A s \in Sector : d[s] =
       CASE s = FreeMapSector -> freeMapHdr
         [] s = DirectorySector -> directoryHdr
         [] s = PipeSector -> pipeHdr
         [] s = 3 -> Bits(0..(4 + DirSectors))
         [] s = 4 -> Words([i \in 1..SectorSize |->
                             Number(IF i = 1 THEN DirectorySector ELSE 0)])
         [] s \in 5..(3 + DirSectors) -> Zeros
         [] OTHER -> Words([i \in 1..SectorSize |-> Junk])
    BY <1>1 DEF Init
  <2>2. DOMAIN d = Sector
    BY <1>1 DEF Init
  <2>3. {0, 1, 2, 3, 4} \subseteq Sector /\ 5..(3 + D) \subseteq Sector
    BY <1>3, <1>4
  <2>4. PICK m, r, p, b, w, z, j :
          /\ m = freeMapHdr /\ r = directoryHdr /\ p = pipeHdr
          /\ b = Bits(0..(4 + D)) /\ z = Zeros
          /\ w = Words([i \in 1..SectorSize |->
                         Number(IF i = 1 THEN DirectorySector ELSE 0)])
          /\ j = Words([i \in 1..SectorSize |-> Junk])
    OBVIOUS
  <2>5. \A s \in Sector : d[s] =
          CASE s = 0 -> m [] s = 1 -> r [] s = 2 -> p [] s = 3 -> b [] s = 4 -> w
            [] s \in 5..(3 + D) -> z [] OTHER -> j
    BY <1>2, <2>1, <2>4 DEF FreeMapSector, DirectorySector, PipeSector
  <2>6. d[0] = m /\ d[1] = r /\ d[2] = p /\ d[3] = b /\ d[4] = w
    BY <2>3, <2>5
  <2>7. \A s \in 5..(3 + D) : d[s] = z
    BY <1>3, <2>3, <2>5
  <2>8. \A s \in Sector : s > 3 + D => d[s] = j
    BY <1>3, <1>4, <2>5
  <2> QED
    BY <2>2, <2>4, <2>6, <2>7, <2>8
<1>6. /\ Zeros.kind = "words" /\ \A i \in 1..SectorSize : Zeros.words[i] = Number(0)
      /\ d[4].kind = "words" /\ d[4].words[1] = Number(1)
      /\ \A i \in 2..SectorSize : d[4].words[i] = Number(0)
      /\ \A s \in Sector : s > 3 + D => d[s].kind = "words"
  <2>1. Zeros.kind = "words" /\ \A i \in 1..SectorSize : Zeros.words[i] = Number(0)
    <3>1. PICK f : f = [i \in 1..SectorSize |-> Number(0)]
      OBVIOUS
    <3>2. DOMAIN f = 1..SectorSize /\ f = [i \in 1..SectorSize |-> f[i]]
      BY <3>1
    <3>3. Words(f).kind = "words" /\ \A i \in 1..SectorSize : Words(f).words[i] = f[i]
      BY <3>2, WordsFacts
    <3>4. Zeros = Words(f)
      BY <3>1 DEF Zeros
    <3> QED
      BY <3>1, <3>3, <3>4
  <2>2. /\ d[4].kind = "words" /\ d[4].words[1] = Number(1)
        /\ \A i \in 2..SectorSize : d[4].words[i] = Number(0)
    <3>1. PICK f : f = [i \in 1..SectorSize |->
                         Number(IF i = 1 THEN DirectorySector ELSE 0)]
      OBVIOUS
    <3>2. DOMAIN f = 1..SectorSize /\ f = [i \in 1..SectorSize |-> f[i]]
      BY <3>1
    <3>3. Words(f).kind = "words" /\ \A i \in 1..SectorSize : Words(f).words[i] = f[i]
      BY <3>2, WordsFacts
    <3>4. d[4] = Words(f)
      BY <1>5, <3>1
    <3>5. 1 \in 1..SectorSize /\ 2..SectorSize \subseteq 1..SectorSize
      BY <1>2, <1>3
    <3>6. f[1] = Number(1) /\ \A i \in 2..SectorSize : f[i] = Number(0)
      BY <3>1, <3>5 DEF DirectorySector
    <3> QED
      BY <3>3, <3>4, <3>5, <3>6
  <2>3. \A s \in Sector : s > 3 + D => d[s].kind = "words"
    BY <1>5 DEF Words
  <2> QED
    BY <2>1, <2>2, <2>3
<1>7. /\ HeaderOk(d, freeMapHdr) /\ OwnedBy(d, freeMapHdr) = {0, 3}
      /\ freeMapHdr.kind = "header" /\ freeMapHdr.self = 0 /\ freeMapHdr.type = "TYPE_FILE"
  <2>1. PICK x, type, limit, first, n :
          /\ x = 0 /\ type = "TYPE_FILE" /\ limit = S
          /\ first = 3 /\ n = 1
    OBVIOUS
  <2>2. PICK h : h = Formatted(x, type, limit, first, n)
    OBVIOUS
  <2>3. h = freeMapHdr
    BY <1>2, <2>1, <2>2 DEF freeMapHdr, FreeMapSector
  <2>4. /\ x \in Sector /\ type \in HeaderType /\ limit \in Nat /\ first \in Nat /\ n \in Nat
        /\ n <= NumDirect /\ limit <= n * SectorSize
        /\ first + n <= NumSectors /\ x < first
    BY <1>2, <1>3, <1>4, <2>1 DEF HeaderType
  <2>5. IsFormatted(h, x, type, limit, first, n)
    BY <2>2, <2>4 DEF IsFormatted
  <2>6. /\ HeaderOk(d, h) /\ OwnedBy(d, h) = {x} \union Run(first, n)
        /\ h.kind = "header" /\ h.self = x /\ h.type = type /\ h.limit = limit
        /\ h.nsectors = n /\ DataInRun(d, h, first, n)
    BY <2>5, FormattedFacts
  <2>7. {x} \union Run(first, n) = {0, 3}
    BY <1>3, <2>1 DEF Run
  <2> QED
    BY <2>1, <2>3, <2>6, <2>7 DEF DataInRun
<1>8. /\ HeaderOk(d, pipeHdr) /\ OwnedBy(d, pipeHdr) = {2, 4 + D}
      /\ pipeHdr.kind = "header" /\ pipeHdr.self = 2 /\ pipeHdr.type = "TYPE_PIPE"
  <2>1. PICK x, type, limit, first, n :
          /\ x = 2 /\ type = "TYPE_PIPE" /\ limit = 0
          /\ first = 4 + D /\ n = 1
    OBVIOUS
  <2>2. PICK h : h = Formatted(x, type, limit, first, n)
    OBVIOUS
  <2>3. h = pipeHdr
    BY <1>2, <2>1, <2>2 DEF pipeHdr, PipeSector
  <2>4. /\ x \in Sector /\ type \in HeaderType /\ limit \in Nat /\ first \in Nat /\ n \in Nat
        /\ n <= NumDirect /\ limit <= n * SectorSize
        /\ first + n <= NumSectors /\ x < first
    BY <1>2, <1>3, <1>4, <2>1 DEF HeaderType
  <2>5. IsFormatted(h, x, type, limit, first, n)
    BY <2>2, <2>4 DEF IsFormatted
  <2>6. /\ HeaderOk(d, h) /\ OwnedBy(d, h) = {x} \union Run(first, n)
        /\ h.kind = "header" /\ h.self = x /\ h.type = type /\ h.limit = limit
        /\ h.nsectors = n /\ DataInRun(d, h, first, n)
    BY <2>5, FormattedFacts
  <2>7. {x} \union Run(first, n) = {2, 4 + D}
    BY <1>3, <2>1 DEF Run
  <2> QED
    BY <2>1, <2>3, <2>6, <2>7 DEF DataInRun
<1>9. /\ HeaderOk(d, directoryHdr) /\ OwnedBy(d, directoryHdr) = {1} \union (4..(3 + D))
      /\ directoryHdr.kind = "header" /\ directoryHdr.self = 1 /\ directoryHdr.type = "TYPE_DIR"
      /\ directoryHdr.nsectors = D /\ directoryHdr.limit = N + 1
      /\ \A i \in 0..(D - 1) : ByteToSector(d, directoryHdr, i) = 4 + i
  <2>1. PICK x, type, limit, first, n :
          /\ x = 1 /\ type = "TYPE_DIR" /\ limit = N + 1
          /\ first = 4 /\ n = D
    OBVIOUS
  <2>2. PICK h : h = Formatted(x, type, limit, first, n)
    OBVIOUS
  <2>3. h = directoryHdr
    BY <1>2, <2>1, <2>2 DEF directoryHdr, DirectorySector
  <2>4. /\ x \in Sector /\ type \in HeaderType /\ limit \in Nat /\ first \in Nat /\ n \in Nat
        /\ n <= NumDirect /\ limit <= n * SectorSize
        /\ first + n <= NumSectors /\ x < first
    BY <1>2, <1>3, <1>4, <2>1 DEF HeaderType
  <2>5. IsFormatted(h, x, type, limit, first, n)
    BY <2>2, <2>4 DEF IsFormatted
  <2>6. /\ HeaderOk(d, h) /\ OwnedBy(d, h) = {x} \union Run(first, n)
        /\ h.kind = "header" /\ h.self = x /\ h.type = type /\ h.limit = limit
        /\ h.nsectors = n /\ DataInRun(d, h, first, n)
    BY <2>5, FormattedFacts
  <2>7. {x} \union Run(first, n) = {1} \union (4..(3 + D))
    BY <1>3, <2>1 DEF Run
  <2> QED
    BY <2>1, <2>3, <2>6, <2>7 DEF DataInRun
<1>10. HeadersOn(d) = {0, 1, 2}
  <2>1. d[3].kind = "map" /\ d[4].kind = "words"
    BY <1>5, <1>6 DEF Bits
  <2>2. ASSUME NEW s \in Sector, s \notin {0, 1, 2}
        PROVE  d[s].kind # "header"
    <3>1. CASE s = 3
      BY <2>1, <3>1
    <3>2. CASE s = 4
      BY <2>1, <3>2
    <3>3. CASE s \in 5..(3 + D)
      <4>1. d[s].kind = "words"
        BY <1>5, <1>6, <3>3
      <4> QED
        BY <4>1
    <3>4. CASE s > 3 + D
      BY <1>6, <3>4
    <3> QED
      BY <1>3, <1>4, <2>2, <3>1, <3>2, <3>3, <3>4
  <2>3. /\ d[0].kind = "header" /\ d[1].kind = "header" /\ d[2].kind = "header"
        /\ {0, 1, 2} \subseteq Sector
    BY <1>3, <1>4, <1>5, <1>7, <1>8, <1>9
  <2> QED
    BY <2>2, <2>3 DEF HeadersOn
<1>11. FetchMap(d) = 0..(4 + D) /\ FetchMap(d) \subseteq Sector
  <2>1. FetchMap(d) = 0..(4 + D)
    BY <1>5, SectorFacts DEF FetchMap, Bits
  <2> QED
    BY <1>3, <1>4, <2>1
<1>12. HeadersOk(d)
  <2>1. PICK A, B, C : A = {0, 3} /\ B = {1} \union (4..(3 + D)) /\ C = {2, 4 + D}
    OBVIOUS
  <2>2. /\ A \subseteq FetchMap(d) /\ B \subseteq FetchMap(d) /\ C \subseteq FetchMap(d)
        /\ A \intersect B = {} /\ B \intersect C = {} /\ A \intersect C = {}
    BY <1>3, <1>11, <2>1
  <2>3. OwnedBy(d, d[0]) = A /\ OwnedBy(d, d[1]) = B /\ OwnedBy(d, d[2]) = C
    BY <1>5, <1>7, <1>8, <1>9, <2>1
  <2>4. /\ HeaderOk(d, d[0]) /\ HeaderOk(d, d[1]) /\ HeaderOk(d, d[2])
        /\ d[0].self = 0 /\ d[1].self = 1 /\ d[2].self = 2
    BY <1>5, <1>7, <1>8, <1>9
  <2>5. \A s \in HeadersOn(d) : /\ d[s].self = s /\ HeaderOk(d, d[s])
                                /\ OwnedBy(d, d[s]) \subseteq FetchMap(d)
    BY <1>10, <2>2, <2>3, <2>4
  <2>6. \A s, t \in HeadersOn(d) :
          s # t => OwnedBy(d, d[s]) \intersect OwnedBy(d, d[t]) = {}
    BY <1>10, <2>2, <2>3
  <2> QED
    BY <2>5, <2>6 DEF HeadersOk
<1>13. DirOn(d) = {1}
  BY <1>5, <1>7, <1>8, <1>9, <1>10 DEF DirOn
<1>14. \A i \in 0..N : WordAt(d, d[1], i) = IF i = 0 THEN Number(1) ELSE Number(0)
  <2> TAKE i \in 0..N
  <2>1. i \in Nat /\ i < D * SectorSize
    BY <1>2, <1>3
  <2>2. PICK a \in Nat, r \in 0..(SectorSize - 1) :
          a = i \div SectorSize /\ r = i % SectorSize /\ i = a * SectorSize + r
    BY <2>1, PositionFacts
  <2>3. a \in 0..(D - 1)
    BY <1>3, <2>1, <2>2, BlockOf
  <2>4. ByteToSector(d, d[1], a) = 4 + a
    BY <1>5, <1>9, <2>3
  <2>5. WordAt(d, d[1], i) = IF d[4 + a].kind = "words" THEN d[4 + a].words[r + 1] ELSE Junk
    BY <2>2, <2>4 DEF WordAt
  <2>6. CASE a = 0
    <3>1. i = r /\ r \in Nat /\ r + 1 \in 1..SectorSize
      BY <1>2, <1>3, <2>2, <2>6
    <3>2. WordAt(d, d[1], i) = d[4].words[r + 1]
      BY <1>6, <2>5, <2>6
    <3>3. d[4].words[r + 1] = IF r = 0 THEN Number(1) ELSE Number(0)
      BY <1>2, <1>3, <1>6, <3>1
    <3> QED
      BY <3>1, <3>2, <3>3
  <2>7. CASE a >= 1
    <3>1. d[4 + a] = Zeros
      BY <1>3, <1>5, <2>3, <2>7
    <3>2. r + 1 \in 1..SectorSize
      BY <1>2, <1>3
    <3>3. WordAt(d, d[1], i) = Number(0)
      BY <1>6, <2>5, <3>1, <3>2
    <3>4. a * SectorSize >= SectorSize
      BY <1>2, <1>3, <2>7
    <3>5. PICK y \in Int : y = a * SectorSize
      BY <1>2, <1>3
    <3>6. i # 0
      BY <1>2, <1>3, <2>2, <3>4, <3>5
    <3> QED
      BY <3>3, <3>6
  <2> QED
    BY <2>6, <2>7
<1>15. PICK dir : dir = FetchDirectory(d, d[1])
  OBVIOUS
<1>16. dir.sector = WordAt(d, d[1], 0)[2] /\ \A i \in 1..N : dir.table[i] = WordAt(d, d[1], i)
  <2>1. d[1].limit = NumDirEntries + 1
    BY <1>2, <1>5, <1>9
  <2> QED
    BY <1>2, <1>15, <2>1, FetchFacts
<1>17. dir.sector = 1
  BY <1>3, <1>14, <1>16 DEF Number
<1>18. \A i \in 1..N : dir.table[i][1] = NULL
  BY <1>3, <1>14, <1>16 DEF Number
<1>19. \A s \in DirOn(d) : DirOk(d, s)
  BY <1>2, <1>5, <1>9, <1>13, <1>15, <1>17 DEF DirOk
<1>20. EntriesOk(d)
  <2>1. \A s \in DirOn(d), i \in 1..NumDirEntries : EntryAt(d, s, i)[1] = NULL
    BY <1>2, <1>13, <1>15, <1>18 DEF EntryAt
  <2> QED
    BY <2>1 DEF EntriesOk
<1>21. SectorsOk(d)
  <2>1. /\ d[FreeMapSector] = freeMapHdr /\ d[DirectorySector] = directoryHdr
        /\ PipeSector \in HeadersOn(d) /\ d[PipeSector].type = "TYPE_PIPE"
    BY <1>5, <1>8, <1>10 DEF FreeMapSector, DirectorySector, PipeSector
  <2> QED
    BY <1>5, <1>11, <1>12, <1>19, <2>1 DEF SectorsOk
<1> QED
  BY <1>1, <1>20, <1>21 DEF DiskOk

-----------------------------------------------------------------------------
(* The disk stays in order, and what is open is what the disk holds.       *)
LEMMA FsInvHolds ==
  ASSUME Careful
  PROVE  Spec => []FsInv
<1>1. Init => FsInv
  <2> SUFFICES ASSUME Init PROVE FsInv
    OBVIOUS
  <2>1. DiskOk(disk)
    BY InitDisk
  <2>2. machine = "up" /\ file = NULL
    BY DEF Init
  <2> QED
    BY <2>1, <2>2 DEF FsInv
<1>2. FsInv /\ [Next]_vars => FsInv'
  <2> SUFFICES ASSUME FsInv, [Next]_vars PROVE FsInv'
    OBVIOUS
  <2>1. ASSUME NEW path \in Path, Create(path, "TYPE_FILE") PROVE FsInv'
    BY <2>1, CreateStep
  <2>2. ASSUME NEW path \in DirPath, Create(path, "TYPE_DIR") PROVE FsInv'
    <3>1. path \in Path
      BY FileSysAssumption
    <3> QED
      BY <2>2, <3>1, CreateStep
  <2>3. ASSUME NEW path \in Path, RemoveFile(path) PROVE FsInv'
    BY <2>3, RemoveStep
  <2>4. ASSUME NEW path \in Path, Open(path) PROVE FsInv'
    BY <2>4, ReaderSteps
  <2>5. CASE Close
    BY <2>5, ReaderSteps
  <2>6. ASSUME NEW position \in Position, Seek(position) PROVE FsInv'
    BY <2>6, ReaderSteps
  <2>7. ASSUME NEW n \in 1..SectorSize, Read(n) PROVE FsInv'
    BY <2>7, ReaderSteps
  <2>8. ASSUME NEW words \in Data, Write(words) PROVE FsInv'
    BY <2>8, WriteStep
  <2>9. ASSUME NEW words \in PipeData, WritePipe(words) PROVE FsInv'
    BY <2>9, WritePipeStep
  <2>10. CASE Restart
    BY <2>10, ReaderSteps
  <2>11. CASE UNCHANGED vars
    BY <2>11, ReaderSteps
  <2> QED
    BY <2>1, <2>2, <2>3, <2>4, <2>5, <2>6, <2>7, <2>8, <2>9, <2>10, <2>11 DEF Next
<1> QED
  BY <1>1, <1>2, PTL DEF Spec

(* Whatever the callers create, write and remove, as long as they avoid    *)
(* the two cases that Careful names, a sector of the disk belongs to one   *)
(* header at most, and is marked in the bit map as long as it does:        *)
(* FileHeader::Allocate never hands out a sector twice, and                *)
(* FileHeader::Deallocate clears none that another file still uses.        *)
THEOREM SectorsHaveOneOwner ==
  ASSUME Careful
  PROVE  Spec => []SectorsOwnedOnce
<1>1. FsInv => SectorsOwnedOnce
  BY OneOwner DEF FsInv
<1> QED
  BY <1>1, FsInvHolds, PTL

(* Under the same condition no operation leaves a disk on which the next   *)
(* one would read a header or a directory from a sector that holds         *)
(* something else: an operation completes or ends in an ASSERT.            *)
DiskUsable == machine \in {"up", "aborted"}

THEOREM DiskStaysUsable ==
  ASSUME Careful
  PROVE  Spec => []DiskUsable
<1>1. FsInv => DiskUsable
  BY DEF FsInv, DiskUsable
<1> QED
  BY <1>1, FsInvHolds, PTL

(* "Make sure no one else grabs these!": the sectors of the headers of bit *)
(* map, root directory and pipe are never free.  A caller that is not      *)
(* careful loses them: FileHeader::Deallocate of a file with a partly      *)
(* filled indirect block clears sector 0.                                  *)
THEOREM ReservedSectorsStay ==
  ASSUME Careful
  PROVE  Spec => []ReservedSectorsKept
<1>1. ASSUME FsInv PROVE ReservedSectorsKept
  <2>1. SectorsOk(disk)
    BY <1>1 DEF FsInv, DiskOk
  <2> QED
    BY <2>1, SectorsFacts DEF ReservedSectorsKept
<1> QED
  BY <1>1, FsInvHolds, PTL

(* Every entry of a directory leads to a header, never to one of the       *)
(* reserved ones, and no two entries to the same: Remove, which clears one *)
(* entry and frees the sectors, leaves no other entry that leads to them,  *)
(* and Create, which reuses them, makes no second name for a file.         *)
EntriesLeadToFiles == EntriesOk(disk)

THEOREM NoEntryDangles ==
  ASSUME Careful
  PROVE  Spec => []EntriesLeadToFiles
<1>1. FsInv => EntriesLeadToFiles
  BY DEF FsInv, DiskOk, EntriesLeadToFiles
<1> QED
  BY <1>1, FsInvHolds, PTL

(* A step changes the header or the data of a file only if the caller has  *)
(* that file open, or removes it: not when another file is written, grows  *)
(* or is removed, when files and directories are created, or when an       *)
(* operation ends in an ASSERT for lack of space.                          *)
SameData(s) ==
  /\ disk'[s] = disk[s]
  /\ \A p \in Nat : p < disk[s].limit =>
       WordAt(disk', disk'[s], p) = WordAt(disk, disk[s], p)
OnlyItsFile ==
  \A s \in HeadersOn(disk) \ Reserved :
    \/ disk[s].type = "TYPE_DIR"
    \/ file # NULL /\ file.hdr.self = s
    \/ \E path \in Path : RemoveFile(path) /\ Find(disk, path) = s
    \/ SameData(s)
FilesAreSeparate == [][OnlyItsFile]_vars

LEMMA SafeData ==
  ASSUME NEW d, SectorsOk(d), NEW h \in HeadersOn(d) \ Reserved, NEW e,
         FileSafe(d, e, h)
  PROVE  /\ e[h] = d[h]
         /\ \A p \in Nat : p < d[h].limit => WordAt(e, e[h], p) = WordAt(d, d[h], p)
<1>1. /\ h # 0 /\ HeaderOk(d, d[h]) /\ d[h].self = h /\ h \in OwnedBy(d, d[h])
      /\ 3 \notin OwnedBy(d, d[h])
  BY SectorsFacts, SectorFacts
<1>2. \A s \in OwnedBy(d, d[h]) : e[s] = d[s]
  BY <1>1 DEF FileSafe
<1>3. e[h] = d[h]
  BY <1>1, <1>2
<1>4. PICK f : f = d[h]
  OBVIOUS
<1>5. /\ HeaderOk(d, f)
      /\ \A n \in 0..(f.nsectors - 1) : ByteToSector(d, f, n) \in OwnedBy(d, f)
      /\ HasIndirect(f) => Indirect(f) \in OwnedBy(d, f)
  BY <1>1, <1>4, SlotFacts
<1>6. HasIndirect(f) => e[Indirect(f)] = d[Indirect(f)]
  BY <1>2, <1>4, <1>5
<1>7. \A n \in 0..(f.nsectors - 1) : e[ByteToSector(d, f, n)] = d[ByteToSector(d, f, n)]
  BY <1>2, <1>4, <1>5
<1>8. HeaderOk(d, f)
  BY <1>5
<1>9. \A p \in Nat : p < f.limit => WordAt(e, f, p) = WordAt(d, f, p)
  BY <1>6, <1>7, <1>8, ReadFramed
<1> QED
  BY <1>3, <1>4, <1>9

THEOREM EachFileItsOwnData ==
  ASSUME Careful
  PROVE  Spec => FilesAreSeparate
<1>1. FsInv /\ [Next]_vars => [OnlyItsFile]_vars
  <2> SUFFICES ASSUME FsInv, Next, NEW s \in HeadersOn(disk) \ Reserved,
                      disk[s].type # "TYPE_DIR", ~(file # NULL /\ file.hdr.self = s),
                      ~\E path \in Path : RemoveFile(path) /\ Find(disk, path) = s
               PROVE  SameData(s)
    BY DEF OnlyItsFile
  <2>1. SectorsOk(disk) /\ s \in HeadersOn(disk) \ DirOn(disk) /\ s # 2
    BY SectorFacts DEF FsInv, DiskOk, DirOn
  <2>2. ASSUME FileSafe(disk, disk', s) PROVE SameData(s)
    BY <2>1, <2>2, SafeData DEF SameData
  <2>3. ASSUME NEW path \in Path, Create(path, "TYPE_FILE") PROVE SameData(s)
    BY <2>1, <2>2, <2>3, CreateStep
  <2>4. ASSUME NEW path \in DirPath, Create(path, "TYPE_DIR") PROVE SameData(s)
    <3>1. path \in Path
      BY FileSysAssumption
    <3> QED
      BY <2>1, <2>2, <2>4, <3>1, CreateStep
  <2>5. ASSUME NEW path \in Path, RemoveFile(path) PROVE SameData(s)
    <3>1. Find(disk, path) # s
      BY <2>5
    <3> QED
      BY <2>1, <2>2, <2>5, <3>1, RemoveStep
  <2>6. ASSUME NEW words \in Data, Write(words) PROVE SameData(s)
    BY <2>1, <2>2, <2>6, WriteStep
  <2>7. ASSUME NEW words \in PipeData, WritePipe(words) PROVE SameData(s)
    BY <2>1, <2>2, <2>7, WritePipeStep
  <2>8. ASSUME disk' = disk PROVE SameData(s)
    BY <2>8 DEF SameData
  <2>9. ASSUME NEW path \in Path, Open(path) PROVE SameData(s)
    BY <2>8, <2>9 DEF Open
  <2>10. CASE Close
    BY <2>8, <2>10 DEF Close
  <2>11. ASSUME NEW position \in Position, Seek(position) PROVE SameData(s)
    BY <2>8, <2>11 DEF Seek
  <2>12. ASSUME NEW n \in 1..SectorSize, Read(n) PROVE SameData(s)
    BY <2>8, <2>12 DEF Read
  <2>13. CASE Restart
    BY <2>8, <2>13 DEF Restart
  <2> QED
    BY <2>3, <2>4, <2>5, <2>6, <2>7, <2>9, <2>10, <2>11, <2>12, <2>13 DEF Next
<1> QED
  BY <1>1, FsInvHolds, PTL DEF Spec, FilesAreSeparate
=============================================================================
