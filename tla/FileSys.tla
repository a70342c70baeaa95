------------------------------ MODULE FileSys ------------------------------
(***************************************************************************)
(* The file system on the disk (filesys/): the bit map of free sectors,    *)
(* file headers with direct sectors and one indirect block, files that     *)
(* grow when they are written, and the tree of directories.  It is the     *)
(* code compiled without FILESYS_STUB.                                     *)
(*                                                                         *)
(* "There is no synchronization for concurrent accesses": operations run   *)
(* one after the other, so each one is one step here, from the disk it     *)
(* finds to the disk it leaves.  A sector is a header, the bit map, or     *)
(* SectorSize words.  A word is <<name, number>>: an entry of a directory, *)
(* or, with name NULL, a number (data, a sector, 0 for an empty entry).    *)
(***************************************************************************)
EXTENDS Integers, Sequences, SequencesExt, FiniteSets, FiniteSetsExt, Lists

CONSTANTS NULL,
          NumSectors, SectorSize, NumDirect, NumDirEntries,
          Path,     \* sequences of names that callers use,
          DirPath,  \* those they may want as directories,
          Data,     \* sequences of words that callers write,
          PipeData, \* and those they write into the pipe
          Position, \* positions that callers seek
          Careful   \* callers avoid the two cases named below

NumInDirect == SectorSize
MaxFileSize == (NumDirect + NumInDirect) * SectorSize
DirectoryFileSize == NumDirEntries
divRoundUp(n, s) == (n + s - 1) \div s
DirSectors == divRoundUp(DirectoryFileSize, SectorSize)

ASSUME FileSysAssumption ==
  /\ SectorSize \in Nat \ {0} /\ NumDirect \in Nat /\ NumDirEntries \in Nat
  /\ NumSectors \in Nat /\ NumSectors > 5 + DirSectors
  /\ DirSectors <= NumDirect
  /\ DirectoryFileSize + 1 <= DirSectors * SectorSize
  /\ DirPath \subseteq Path /\ Position \subseteq Nat
  /\ \A path \in Path : /\ path \in Seq(Range(path)) /\ path # << >>
                         /\ NULL \notin Range(path)
  /\ \A words \in Data \union PipeData :
       words \in Seq(Range(words)) /\ words # << >>
  /\ Careful \in BOOLEAN

Sector == 0..(NumSectors - 1)
Number(n) == <<NULL, n>>
Numbers(words) == [i \in DOMAIN words |-> words[i][2]]

VARIABLES disk,    \* sector -> what it holds
          file,    \* the OpenFile of the caller, or NULL
          machine, \* "up", "aborted" by an ASSERT, or "corrupt"
          seen     \* auxiliary: Seen(disk)

vars == <<disk, file, machine, seen>>

Words(words) == [kind |-> "words", words |-> SubSeq(words, 1, SectorSize)]
Zeros == Words([i \in 1..SectorSize |-> Number(0)])

(* What is left over in memory or on the disk: it could be anything, -1    *)
(* here, which is no sector and not data.                                  *)
Junk == Number(-1)

FileHeader(selfSector, type) ==
  [kind |-> "header", self |-> selfSector, type |-> type, limit |-> 0,
   nsectors |-> 0, data |-> [i \in 1..(NumDirect + 1) |-> 0]]

FileCapacity(hdr) == hdr.nsectors * SectorSize

(* Reserved sectors: the headers of the bit map, the root directory and    *)
(* the pipe, placed in well-known sectors.                                 *)
FreeMapSector == 0
DirectorySector == 1
PipeSector == 2
Reserved == {FreeMapSector, DirectorySector, PipeSector}

(* The headers that the constructor of FileSystem leaves for a new disk;   *)
(* Allocate takes the first clear sectors.                                 *)
Formatted(sector, type, limit, first, n) ==
  [FileHeader(sector, type) EXCEPT
     !.limit = limit, !.nsectors = n,
     !.data = [i \in 1..(NumDirect + 1) |-> IF i <= n THEN first + i - 1 ELSE 0]]

(* freeMapFile and directoryFile keep these headers while Nachos runs. *)
freeMapHdr == Formatted(FreeMapSector, "TYPE_FILE", SectorSize, 3, 1)
directoryHdr ==
  Formatted(DirectorySector, "TYPE_DIR", NumDirEntries + 1, 4, DirSectors)
pipeHdr == Formatted(PipeSector, "TYPE_PIPE", 0, 4 + DirSectors, 1)

Bits(used) == [kind |-> "map", used |-> used]

Init ==
  /\ disk = [s \in Sector |->
       CASE s = FreeMapSector -> freeMapHdr
         [] s = DirectorySector -> directoryHdr
         [] s = PipeSector -> pipeHdr
         [] s = 3 -> Bits(0..(4 + DirSectors))
         [] s = 4 -> Words([i \in 1..SectorSize |->
                             Number(IF i = 1 THEN DirectorySector ELSE 0)])
         [] s \in 5..(3 + DirSectors) -> Zeros
         [] OTHER -> Words([i \in 1..SectorSize |-> Junk])]
  /\ file = NULL
  /\ machine = "up"
  /\ seen = [tree |-> [p \in {} |-> << >>], pipe |-> << >>, lost |-> {}]

-----------------------------------------------------------------------------
(* PersistentBitmap, kept in the one sector of its file: FetchFrom ... *)
FetchMap(d) == d[freeMapHdr.data[1]].used

(* ... and WriteBack.  What a clear sector holds is forgotten. *)
WriteMap(d, used) ==
  [s \in Sector |-> CASE s = FreeMapSector -> freeMapHdr
                      [] s = freeMapHdr.data[1] -> Bits(used)
                      [] s \notin used \union {FreeMapSector, freeMapHdr.data[1]} ->
                           Words([i \in 1..SectorSize |-> Junk])
                      [] OTHER -> d[s]]

NumClear(used) == Cardinality(Sector \ used)

(* What the i-th of several calls of FindAndSet returns. *)
NthClear(used, i) ==
  CHOOSE s \in Sector \ used : Cardinality((0..s) \ used) = i

(* The entries of the indirect block of a header, as a sequence. *)
InDirect(d, hdr) ==
  IF hdr.data[NumDirect + 1] = 0 \/ d[hdr.data[NumDirect + 1]].kind # "words"
  THEN [i \in 1..NumInDirect |-> 0]
  ELSE Numbers(d[hdr.data[NumDirect + 1]].words)

(* FileHeader::Allocate when there is room: the direct sectors first, then *)
(* the empty entries of the indirect block, which is the next sector if    *)
(* there is none yet (new = 1).                                            *)
Extend(d, used, hdr, direct, new, rest) ==
  LET inode == IF new = 1 THEN NthClear(used, direct + 1) ELSE hdr.data[NumDirect + 1]
      old == InDirect(d, hdr)
      empty(i) == Cardinality({j \in 1..i : old[j] = 0})
      inDirect == [i \in 1..NumInDirect |->
        Number(IF old[i] = 0 /\ empty(i) <= rest
               THEN NthClear(used, direct + new + empty(i)) ELSE old[i])]
  IN  [result |-> "ok",
       disk |-> IF rest = 0 THEN d ELSE [d EXCEPT ![inode] = Words(inDirect)],
       used |-> used \union {NthClear(used, i) : i \in 1..(direct + new + rest)},
       hdr |-> [hdr EXCEPT
         !.nsectors = @ + direct + rest,
         !.data = [i \in 1..(NumDirect + 1) |->
           IF i = NumDirect + 1 THEN inode
           ELSE IF i > hdr.nsectors /\ i <= hdr.nsectors + direct
                THEN NthClear(used, i - hdr.nsectors) ELSE @[i]]]]

(* FileHeader::Allocate.  "result" is "ok", "full" (FALSE is returned      *)
(* before anything is changed) or "abort" (FindAndSet finds no sector, or  *)
(* sector 0 for a direct one).                                             *)
Allocate(d, used, hdr, size) ==
  LET n == divRoundUp(size, SectorSize)
      direct == Min({n, Max({NumDirect - hdr.nsectors, 0})})
      new == IF n > direct /\ hdr.data[NumDirect + 1] = 0 THEN 1 ELSE 0
      fail(result, e) == [result |-> result, disk |-> e, used |-> used, hdr |-> hdr]
  IN  IF size = 0 THEN fail("ok", d)
      ELSE IF size + FileCapacity(hdr) > MaxFileSize \/ NumClear(used) < n
           THEN fail("full", d)
      ELSE IF direct > 0 /\ NthClear(used, 1) = 0 THEN fail("abort", d)
      ELSE IF n + new > NumClear(used)
           THEN fail("abort", [d EXCEPT ![NthClear(used, direct + 1)] = Zeros])
      ELSE Extend(d, used, hdr, direct, new, n - direct)

(* Mistake: the indirect block itself stays marked. *)
DeallocateKeepsIndirect(d, used, hdr) ==
  used \ ({hdr.data[i] : i \in 1..Min({hdr.nsectors, NumDirect})}
          \union (IF hdr.nsectors > NumDirect THEN Range(InDirect(d, hdr)) ELSE {}))

(* FileHeader::Deallocate: the direct sectors, the indirect block and all  *)
(* its entries are cleared, in use or not.                                 *)
Deallocate(d, used, hdr) ==
  used \ ({hdr.data[i] : i \in 1..Min({hdr.nsectors, NumDirect})}
          \union (IF hdr.nsectors > NumDirect
                  THEN Range(InDirect(d, hdr)) \union {hdr.data[NumDirect + 1]}
                  ELSE {}))

(* FileHeader::ByteToSector, for the n-th sector of the file. *)
ByteToSector(d, hdr, n) ==
  IF n < NumDirect THEN hdr.data[n + 1] ELSE InDirect(d, hdr)[n - NumDirect + 1]

(* The word at a position of the file. *)
WordAt(d, hdr, position) ==
  LET block == d[ByteToSector(d, hdr, position \div SectorSize)]
  IN  IF block.kind = "words" THEN block.words[(position % SectorSize) + 1]
      ELSE Junk

(* OpenFile::ReadAt: up to the end of the file. *)
ReadAt(d, hdr, numBytes, position) ==
  IF position >= hdr.limit THEN << >>
  ELSE LET n == Min({numBytes, hdr.limit - position})
       IN  SubSeq([i \in 1..n |-> WordAt(d, hdr, position + i - 1)], 1, n)

(* The sectors of the file that a write of n words at a position changes. *)
Sectors(d, hdr, n, position) ==
  {<<k, ByteToSector(d, hdr, k)>> :
     k \in (position \div SectorSize)..((position + n - 1) \div SectorSize)}

(* The k-th sector of the file with the words in it.  If it is partly      *)
(* modified it is read before; ReadAt stops at the new end of the file, so *)
(* that what is behind it is left over in the buffer.                      *)
Modified(d, hdr, words, position, k) ==
  Words([j \in 1..SectorSize |->
    LET i == k * SectorSize + j - 1 - position
    IN  IF i \in 0..(Len(words) - 1) THEN words[i + 1]
        ELSE IF i < 0 THEN WordAt(d, hdr, position + i)
        ELSE Junk])

(* Mistake: the bit map is not written back. *)
SaveMapForgotten(a) == [result |-> a.result, hdr |-> a.hdr, disk |-> a.disk]

(* WriteAt writes the bit map back after it allocated sectors ... *)
SaveMap(a) ==
  [result |-> a.result, hdr |-> a.hdr,
   disk |-> IF a.result = "ok" THEN WriteMap(a.disk, a.used) ELSE a.disk]

(* ... to make the file large enough. *)
Grow(d, hdr, size) ==
  IF size <= FileCapacity(hdr) THEN [result |-> "ok", disk |-> d, hdr |-> hdr]
  ELSE SaveMap(Allocate(d, FetchMap(d), hdr, size - FileCapacity(hdr)))

(* Mistake: the end of the file only moves forward, so that the rest of    *)
(* what was there before follows what is written.                          *)
setFileLimitForward(hdr, position) ==
  IF position > FileCapacity(hdr) \/ position < hdr.limit
  THEN hdr ELSE [hdr EXCEPT !.limit = position]

(* FileHeader::setFileLimit *)
setFileLimit(hdr, position) ==
  IF position > FileCapacity(hdr) THEN hdr ELSE [hdr EXCEPT !.limit = position]

(* The rest of OpenFile::WriteAt: the header goes to the disk before the   *)
(* data.                                                                   *)
WriteSectors(d, hdr, words, position) ==
  LET d1 == [d EXCEPT ![hdr.self] = hdr]
      sectors == Sectors(d1, hdr, Len(words), position)
  IN  [n |-> Len(words), hdr |-> hdr, abort |-> FALSE,
       disk |-> [s \in Sector |->
                   IF s \in {x[2] : x \in sectors}
                   THEN Modified(d1, hdr, words, position,
                                 (CHOOSE x \in sectors : x[2] = s)[1])
                   ELSE d1[s]]]

(* The end of the file becomes the end of what is written; an ASSERT fails *)
(* if the file could not grow.                                             *)
WriteGrown(g, words, position) ==
  IF g.result # "ok" THEN [n |-> 0, disk |-> g.disk, hdr |-> g.hdr, abort |-> TRUE]
  ELSE WriteSectors(g.disk, setFileLimit(g.hdr, position + Len(words)),
                    words, position)

(* OpenFile::WriteAt *)
WriteAt(d, hdr, words, position) ==
  IF position > hdr.limit THEN [n |-> 0, disk |-> d, hdr |-> hdr, abort |-> FALSE]
  ELSE WriteGrown(Grow(d, hdr, position + Len(words)), words, position)

-----------------------------------------------------------------------------
(* A directory is [sector, table]: FetchFrom(file), into a table that is   *)
(* empty before, ...                                                       *)
FetchDirectory(d, hdr) ==
  LET words == ReadAt(d, hdr, NumDirEntries + 1, 0)
  IN  [sector |-> IF words = << >> THEN -1 ELSE words[1][2],
       table |-> SubSeq([i \in 1..NumDirEntries |->
                          IF i < Len(words) THEN words[i + 1] ELSE Number(0)],
                        1, NumDirEntries)]

(* ... and WriteBack(file), in two writes, the first of which cuts the     *)
(* file to one word.                                                       *)
WriteTable(w, table) ==
  IF w.abort THEN w ELSE WriteAt(w.disk, w.hdr, table, 1)

WriteDirectory(d, hdr, dir) ==
  WriteTable(WriteAt(d, hdr, <<Number(dir.sector)>>, 0), dir.table)

(* Directory::FindIndex, 0 if the name is not in the directory; with NULL  *)
(* it finds the entry that AddInCurrentDir takes.                          *)
FindIndex(dir, name) ==
  LET found == {i \in 1..NumDirEntries : dir.table[i][1] = name}
  IN  IF found = {} THEN 0 ELSE Min(found)

(* Directory::dirlookup, in no directory at all if dir is NULL. *)
dirlookup(dir, name) ==
  IF dir = NULL \/ FindIndex(dir, name) = 0 THEN -1
  ELSE dir.table[FindIndex(dir, name)][2]

(* Directory::namex goes down one directory at a time, as long as it finds *)
(* directories.  The directory of the last name of the path, or NULL:      *)
DirectoryAt(d, s) ==
  IF s = -1 THEN NULL
  ELSE IF d[s].type # "TYPE_DIR" THEN NULL ELSE FetchDirectory(d, d[s])

ParentDirectory(d, path) ==
  LET at[i \in 0..(Len(path) - 1)] ==
        IF i = 0 THEN FetchDirectory(d, directoryHdr)
        ELSE DirectoryAt(d, dirlookup(at[i - 1], path[i]))
  IN  at[Len(path) - 1]

(* Directory::Find: the sector of the header, -1 if there is none. *)
Find(d, path) == dirlookup(ParentDirectory(d, path), Last(path))

(* Directory::Add and Directory::Remove: an entry of the parent, which is  *)
(* found by the sector that it says is its own, is set and written back.   *)
Replace(dir, old, new) == [dir EXCEPT !.table[FindIndex(dir, old)] = new]

SetEntryIn(d, hdr, old, new) ==
  WriteDirectory(d, hdr, Replace(FetchDirectory(d, hdr), old, new))

SetEntry(d, path, old, new) ==
  SetEntryIn(d, d[ParentDirectory(d, path).sector], old, new)

CanAdd(dir, name) ==
  dir # NULL /\ FindIndex(dir, name) = 0 /\ FindIndex(dir, NULL) # 0

-----------------------------------------------------------------------------
(* The headers that paths lead to, and the sectors that a header owns.     *)
Headers(d) ==
  Reserved \union ({Find(d, path) : path \in Path} \ {-1})

Owned(d, s) ==
  LET hdr == d[s]
      data == {ByteToSector(d, hdr, n) : n \in 0..(hdr.nsectors - 1)}
  IN  {s} \union data
      \union (IF hdr.nsectors > NumDirect THEN {hdr.data[NumDirect + 1]} ELSE {})

InUse(d) == UNION {Owned(d, s) : s \in Headers(d)}

(* FileSystem::List: the names in the root directory (Directory::List).    *)
ListNames(dir) == SelectSeq([i \in 1..NumDirEntries |-> dir.table[i][1]],
                            LAMBDA name : name # NULL)
List(d) == ListNames(FetchDirectory(d, directoryHdr))

(* FileHeader::Print: the direct sectors and the entries of the indirect   *)
(* block.                                                                  *)
PrintHeader(d, hdr) ==
  ({hdr.data[i] : i \in 1..Min({hdr.nsectors, NumDirect})}
   \union IF hdr.nsectors > NumDirect THEN Range(InDirect(d, hdr)) ELSE {})
  \ {0}

(* Directory::Print: the name, the sector of the header and the sectors of *)
(* every entry, and after a directory its own entries.                     *)
PrintDirectory(d, s) ==
  LET entries(t) ==
        LET dir == FetchDirectory(d, d[t])
        IN  {dir.table[i] : i \in {j \in 1..NumDirEntries : dir.table[j][1] # NULL}}
      lines[t \in Sector] ==
        {[name |-> e[1], sector |-> e[2], data |-> PrintHeader(d, d[e[2]])] :
           e \in entries(t)}
        \union UNION {lines[e[2]] : e \in {x \in entries(t) :
                                            d[x[2]].type = "TYPE_DIR"}}
  IN  lines[s]

(* FileSystem::Print prints the headers of bit map and root directory      *)
(* before the directories.                                                 *)
PrintAll(d) ==
  {[name |-> NULL, sector |-> s, data |-> PrintHeader(d, d[s])] :
     s \in {FreeMapSector, DirectorySector}}
  \union PrintDirectory(d, DirectorySector)

(* What the disk means to its users: the tree of files with the words that *)
(* reading them returns, what FileSystem::ReadPipe returns, and the        *)
(* sectors that are marked but in no file.                                 *)
ReadPipe(d) == ReadAt(d, d[PipeSector], d[PipeSector].limit, 0)

Seen(d) ==
  [tree |-> [p \in {q \in Path : Find(d, q) # -1} |->
              LET hdr == d[Find(d, p)]
              IN  [type |-> hdr.type,
                   words |-> IF hdr.type = "TYPE_FILE"
                             THEN ReadAt(d, hdr, MaxFileSize, 0) ELSE << >>]],
   pipe |-> ReadPipe(d),
   lost |-> FetchMap(d) \ InUse(d)]

(* Every header that a path leads to is one.  Otherwise the code would     *)
(* take other bytes for a header: the model stops there.                   *)
Readable(d) ==
  /\ d[FreeMapSector].kind = "header"
  /\ d[DirectorySector].kind = "header"
  /\ \A i \in 1..NumDirEntries :
       LET e == FetchDirectory(d, directoryHdr).table[i]
       IN  e[1] # NULL => d[e[2]].kind = "header"

Left(w) ==
  /\ disk' = w.disk
  /\ machine' = IF w.abort THEN "aborted"
                ELSE IF Readable(w.disk) THEN "up" ELSE "corrupt"
  /\ seen' = IF Readable(w.disk) THEN Seen(w.disk) ELSE seen

(* Create and Remove write the bit map back at the end. *)
Flush(w, used) ==
  [disk |-> IF w.abort THEN w.disk ELSE WriteMap(w.disk, used), abort |-> w.abort]

(* The header of a new directory and its empty table, with the sectors     *)
(* that were allocated for it, if they were.                               *)
NewDirectory(a, sector) ==
  Flush(WriteDirectory([a.disk EXCEPT ![sector] = a.hdr], a.hdr,
          [sector |-> sector, table |-> [i \in 1..NumDirEntries |-> Number(0)]]),
        a.used)

(* The header of a new file, which has no sectors yet, or directory. *)
NewFile(w, used, sector, type) ==
  IF type = "TYPE_DIR"
  THEN NewDirectory(Allocate(w.disk, used, FileHeader(sector, type),
                             DirectoryFileSize), sector)
  ELSE Flush([disk |-> [w.disk EXCEPT ![sector] = FileHeader(sector, type)],
              abort |-> w.abort], used)

(* FileSystem::Create when the name is new and there is a clear sector for *)
(* the header and room in the directory; otherwise it returns FALSE and    *)
(* changes nothing.  The entry is on the disk before the sectors are       *)
(* allocated; if that fails, FALSE is returned all the same at the end.    *)
Create(path, type) ==
  LET used == FindAndSet(FetchMap(disk), NumSectors)
      sector == FindClear(FetchMap(disk), NumSectors)
  IN  /\ machine = "up" /\ file = NULL
      /\ Careful /\ type = "TYPE_DIR" =>
           NumClear(FetchMap(disk)) > DirSectors
      /\ Find(disk, path) = -1
      /\ sector # -1
      /\ CanAdd(ParentDirectory(disk, path), Last(path))
      /\ Left(NewFile(SetEntry(disk, path, NULL, <<Last(path), sector>>),
                      used, sector, type))
      /\ UNCHANGED file

(* FileSystem::Remove.  A caller that is careful does not remove a file    *)
(* whose indirect block has empty entries.                                 *)
RemoveFile(path) ==
  LET sector == Find(disk, path)
      hdr == disk[sector]
  IN  /\ machine = "up" /\ file = NULL
      /\ sector # -1
      /\ Careful => \/ hdr.nsectors <= NumDirect
                    \/ hdr.nsectors = NumDirect + NumInDirect
      /\ Left(Flush(SetEntry(disk, path, Last(path), Number(0)),
                    Deallocate(disk, FetchMap(disk), hdr) \ {sector}))
      /\ UNCHANGED file

(* FileSystem::Open *)
Open(path) ==
  /\ machine = "up" /\ file = NULL
  /\ Find(disk, path) # -1
  /\ file' = [hdr |-> disk[Find(disk, path)], seekPosition |-> 0]
  /\ UNCHANGED <<disk, machine, seen>>

(* OpenFile::~OpenFile *)
Close ==
  /\ machine = "up" /\ file # NULL
  /\ file' = NULL
  /\ UNCHANGED <<disk, machine, seen>>

(* OpenFile::Seek *)
Seek(position) ==
  /\ machine = "up" /\ file # NULL
  /\ file' = [file EXCEPT !.seekPosition = position]
  /\ UNCHANGED <<disk, machine, seen>>

(* OpenFile::Read *)
Read(numBytes) ==
  /\ machine = "up" /\ file # NULL
  /\ file' = [file EXCEPT !.seekPosition =
               @ + Len(ReadAt(disk, file.hdr, numBytes, @))]
  /\ UNCHANGED <<disk, machine, seen>>

(* OpenFile::Write, of files that are not directories.  A file that cannot *)
(* grow fails an ASSERT.                                                   *)
Write(words) ==
  LET w == WriteAt(disk, file.hdr, words, file.seekPosition)
  IN  /\ machine = "up" /\ file # NULL
      /\ file.hdr.type = "TYPE_FILE"
      /\ Left(w)
      /\ file' = IF w.abort THEN NULL
                 ELSE [hdr |-> w.hdr, seekPosition |-> file.seekPosition + w.n]

(* FileSystem::WritePipe *)
WritePipe(words) ==
  /\ machine = "up"
  /\ Left(WriteAt(disk, disk[PipeSector], words, 0))
  /\ UNCHANGED file

(* Nachos is started again, without formatting the disk. *)
Restart ==
  /\ machine = "aborted"
  /\ machine' = "up"
  /\ file' = NULL
  /\ UNCHANGED <<disk, seen>>

Next ==
  \/ \E path \in Path : Create(path, "TYPE_FILE")
  \/ \E path \in DirPath : Create(path, "TYPE_DIR")
  \/ \E path \in Path : RemoveFile(path)
  \/ \E path \in Path : Open(path)
  \/ Close
  \/ \E position \in Position : Seek(position)
  \/ \E n \in 1..SectorSize : Read(n)
  \/ \E words \in Data : Write(words)
  \/ \E words \in PipeData : WritePipe(words)
  \/ Restart

Spec == Init /\ [][Next]_vars

-----------------------------------------------------------------------------
(* The sectors of the bit map, the directories, the pipe and all files are *)
(* marked in the bit map, no sector belongs to two of them or twice to     *)
(* one, and every header is in the sector that it says is its own.         *)
SectorsOwnedOnce ==
  machine # "corrupt" =>
    /\ InUse(disk) \subseteq FetchMap(disk)
    /\ \A s \in Headers(disk) :
         /\ disk[s].self = s
         /\ disk[s].limit <= FileCapacity(disk[s])
         /\ Cardinality(Owned(disk, s)) = disk[s].nsectors + 1
              + (IF disk[s].nsectors > NumDirect THEN 1 ELSE 0)
         /\ \A t \in Headers(disk) \ {s} : Owned(disk, s) \intersect Owned(disk, t) = {}

(* A sector is lost (marked, and in no file) only when a directory is      *)
(* removed that is not empty: not when a write fails for lack of space,    *)
(* nor when a file is removed.                                             *)
LostOnlyInDirectories ==
  [][\/ seen'.lost \subseteq seen.lost
     \/ \E p, q \in DOMAIN seen.tree \ DOMAIN seen'.tree :
          p # q /\ IsPrefix(p, q)]_vars

FT == INSTANCE FileTree WITH tree <- seen.tree, pipe <- seen.pipe,
                             Data <- Data \union PipeData

(* What List and Print show of a tree: the names at the root, each once;   *)
(* and for everything that has a header except the pipe one line, with all *)
(* its sectors except the header and the indirect block.                   *)
Listed(d, tree) ==
  /\ Range(List(d)) = {p[1] : p \in {q \in DOMAIN tree : Len(q) = 1}}
  /\ IsInjective(List(d))

Printed(d) ==
  /\ {line.sector : line \in PrintAll(d)} = Headers(d) \ {PipeSector}
  /\ \A line \in PrintAll(d) :
       LET hdr == d[line.sector]
       IN  /\ line.data = Owned(d, line.sector) \ {line.sector, hdr.data[NumDirect + 1]}
           /\ \A other \in PrintAll(d) : other.sector = line.sector => other = line

(* The disk is a tree of files with the contents written to them, whatever *)
(* sectors they share over time, an ASSERT that fails for lack of space    *)
(* leaves the tree as it was, and List and Print show that tree.           *)
ImplementsFileTree ==
  FT!Spec /\ [](machine # "corrupt" => Listed(disk, seen.tree) /\ Printed(disk))

(* "Make sure no one else grabs these!" (filesys.cc): the sectors of the   *)
(* headers of bit map, root directory and pipe are never free.             *)
ReservedSectorsKept == machine = "up" => Reserved \subseteq FetchMap(disk)
=============================================================================
