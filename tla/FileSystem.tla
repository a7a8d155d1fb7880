---------------------------- MODULE FileSystem ----------------------------
(***************************************************************************)
(* The Nachos file system (filesys/filesys.cc, directory.cc, filehdr.cc,   *)
(* openfile.cc, pbitmap.cc): files of a fixed size with a header sector    *)
(* and data sectors, one directory, and a bitmap of used sectors; the      *)
(* directory and the bitmap are files themselves.                          *)
(*                                                                         *)
(* An operation reads the disk, works in memory, and ends with a list of   *)
(* sector writes (SynchDisk::WriteSector, each all or nothing: see         *)
(* Sectors).  The machine may crash between any two of them and is then    *)
(* started again without formatting.  "The file system assumes there is no *)
(* concurrent access", so there is one operation at a time.                *)
(*                                                                         *)
(* The directory takes two sectors; one entry lies across them, its name   *)
(* in the second.                                                          *)
(***************************************************************************)
EXTENDS Integers, Sequences, FiniteSets, FiniteSetsExt, Functions

LOCAL Seqs == INSTANCE SequencesExt

CONSTANTS
  NumSectors, SectorSize, TransferSize,
  NumDirEntries,
  Straddling,     (* the entry across the two sectors                      *)
  Name, NoName,
  Byte,
  Sizes,          (* what Create is called with                            *)
  Handle,         (* OpenFile objects of the users of the file system      *)
  NoHeader,       (* a sector that holds no file header                    *)
  Closed,         (* a handle not in use                                   *)
  MaxCrashes      (* bound                                                 *)

ASSUME FileSystemAssumption ==
  /\ SectorSize \in Nat \ {0}
  /\ TransferSize = SectorSize
  /\ Straddling \in 0..NumDirEntries - 1
  /\ 0 \in Byte

VARIABLES
  freeMap,        (* the bitmap file: sectors in use                       *)
  table,          (* the directory file: [inUse, name, sector] per entry   *)
  header,         (* per sector: the file header it holds                  *)
  data,           (* per sector: its bytes                                 *)
  todo,           (* the sector writes the operation still has to do       *)
  handle,         (* [name, hdr, pos, removed] or Closed                   *)
  own,            (* history: the entry the operation in progress is about *)
  expect,         (* history: what the files should contain                *)
  crashes,        (* history: how often the machine went down              *)
  hurt            (* history: what happens next is not defined             *)

vars == <<freeMap, table, header, data, todo, handle, own, expect, crashes, hurt>>

Sector == 0..NumSectors - 1
Entry  == 0..NumDirEntries - 1
NoEntry == NumDirEntries
Blank  == [i \in 1..SectorSize |-> 0]

divRoundUp(n, s) == (n + s - 1) \div s

(* PersistentBitmap::FindAndSet, n times                                   *)
Lowest(free, n) ==
  [k \in 1..n |-> CHOOSE s \in free : Cardinality({f \in free : f < s}) = k - 1]

(* FileHeader::Allocate from the sectors that are clear; there is no test  *)
(* for more than NumDirect of them                                         *)
CanAllocate(used, fileSize) == Cardinality(Sector \ used) >= divRoundUp(fileSize, SectorSize)
Allocate(used, fileSize) ==
  [numBytes |-> fileSize, dataSectors |-> Lowest(Sector \ used, divRoundUp(fileSize, SectorSize))]

(* FileSystem::FileSystem(TRUE): headers in sectors 0 and 1, then the      *)
(* sectors of the bitmap file and of the directory file                    *)
FreeMapSector   == 0
DirectorySector == 1
mapHdr == Allocate({FreeMapSector, DirectorySector}, SectorSize)
dirHdr == Allocate({FreeMapSector, DirectorySector} \cup Range(mapHdr.dataSectors), 2 * SectorSize)
System == {FreeMapSector, DirectorySector} \cup Range(mapHdr.dataSectors) \cup Range(dirHdr.dataSectors)

(* Directory::Directory                                                    *)
EmptyDirectory == [i \in Entry |-> [inUse |-> FALSE, name |-> NoName, sector |-> 0]]

FSInit ==
  /\ freeMap = System
  /\ table = EmptyDirectory
  /\ header = [s \in Sector |-> CASE s = FreeMapSector -> mapHdr
                                  [] s = DirectorySector -> dirHdr
                                  [] OTHER -> NoHeader]
  /\ data = [s \in Sector |-> Blank]
  /\ todo = <<>>
  /\ handle = [h \in Handle |-> Closed]
  /\ own = NoEntry
  /\ expect = [n \in Name |-> <<>>]
  /\ crashes = 0
  /\ hurt = FALSE

-----------------------------------------------------------------------------
(* Directory::FindIndex, of a name that is there, and Find                 *)
Entries(n) == {i \in Entry : table[i].inUse /\ table[i].name = n}
FindIndex(n) == Min(Entries(n))
Find(n) == table[FindIndex(n)].sector

(* FileHeader::FetchFrom and WriteBack, PersistentBitmap::WriteBack        *)
FetchHeader(sector) == header[sector]
HeaderWrite(sector, hdr) == [kind |-> "header", sector |-> sector, hdr |-> hdr]
FreeMapWrite(new) == [kind |-> "freeMap", new |-> new]

(* OpenFile::OpenFile                                                      *)
NewOpenFile(n, sector) ==
  [name |-> n, hdr |-> FetchHeader(sector), pos |-> 0, removed |-> FALSE]

(* The bytes of a file, by its header                                      *)
Bytes(hdr) == [i \in 1..hdr.numBytes |->
                 data[hdr.dataSectors[(i - 1) \div SectorSize + 1]][((i - 1) % SectorSize) + 1]]

DirectoryWrites(new) == <<[kind |-> "directory1", new |-> new], [kind |-> "directory2", new |-> new]>>

Idle == todo = <<>> /\ ~ hurt

(* What Create does in memory: FindAndSet, Directory::Add, Allocate        *)
NewSector == Lowest(Sector \ freeMap, 1)[1]
NewHeader(initialSize) == Allocate(freeMap \cup {NewSector}, initialSize)
NewEntry == Min({i \in Entry : ~ table[i].inUse})
NewTable(n) ==
  [table EXCEPT ![NewEntry] =
     [inUse |-> TRUE, name |-> n, sector |-> NewSector]]
CanCreate(n, initialSize) ==
  /\ Entries(n) = {}
  /\ Sector \ freeMap # {}
  /\ \E i \in Entry : ~ table[i].inUse
  /\ CanAllocate(freeMap \cup {NewSector}, initialSize)

CreateWrites(n, initialSize) ==
  <<HeaderWrite(NewSector, NewHeader(initialSize))>>
    \o DirectoryWrites(NewTable(n))
    \o <<FreeMapWrite(freeMap \cup {NewSector} \cup Range(NewHeader(initialSize).dataSectors))>>

(* FileSystem::Create that succeeds: header, directory and bitmap are      *)
(* written, in this order.  One that fails has written nothing.            *)
Create(n, initialSize) ==
  /\ Idle
  /\ CanCreate(n, initialSize)
  /\ todo' = CreateWrites(n, initialSize)
  /\ own' = NewEntry
  /\ expect' = [expect EXCEPT ![n] = Bytes(NewHeader(initialSize))]
  /\ UNCHANGED <<freeMap, table, header, data, handle, crashes, hurt>>

(* FileSystem::Open: the header is brought into memory.                    *)
Open(h, n) ==
  /\ Idle
  /\ Entries(n) # {}
  /\ handle[h] = Closed
  /\ handle' = [handle EXCEPT ![h] = NewOpenFile(n, Find(n))]
  /\ UNCHANGED <<freeMap, table, header, data, todo, own, expect, crashes, hurt>>

(* OpenFile::~OpenFile *)
Close(h) ==
  /\ Idle
  /\ handle[h] # Closed
  /\ handle' = [handle EXCEPT ![h] = Closed]
  /\ UNCHANGED <<freeMap, table, header, data, todo, own, expect, crashes, hurt>>

(* The ASSERT of FileHeader::Deallocate, and the bits it and Remove clear  *)
DeallocateAssert(n) == Range(FetchHeader(Find(n)).dataSectors) \subseteq freeMap
Deallocate(n) == freeMap \ ({Find(n)} \cup Range(FetchHeader(Find(n)).dataSectors))

(* Directory::Remove                                                       *)
RemoveEntry(n) == [table EXCEPT ![FindIndex(n)].inUse = FALSE]

(* Mutant: the directory is not written back                               *)
RemoveNoDirectory(n) ==
  /\ Idle
  /\ Entries(n) # {}
  /\ todo' = <<FreeMapWrite(Deallocate(n))>>
  /\ own' = FindIndex(n)
  /\ UNCHANGED <<freeMap, table, header, data, handle, expect, crashes, hurt>>

(* FileSystem::Remove of a file that is there: the ASSERT of Deallocate,   *)
(* then bitmap and directory are written, in this order.  Nobody is asked  *)
(* whether the file is open.                                               *)
Remove(n) ==
  /\ Idle
  /\ Entries(n) # {}
  /\ DeallocateAssert(n)
  /\ todo' = <<FreeMapWrite(Deallocate(n))>> \o DirectoryWrites(RemoveEntry(n))
  /\ own' = FindIndex(n)
  /\ handle' = [h \in Handle |->
                  IF handle[h] # Closed /\ handle[h].name = n
                  THEN [handle[h] EXCEPT !.removed = TRUE] ELSE handle[h]]
  /\ UNCHANGED <<freeMap, table, header, data, expect, crashes, hurt>>
-----------------------------------------------------------------------------
(* The part of a request that lies in the file                             *)
InFile(hdr, position, numBytes) ==
  IF position >= hdr.numBytes THEN 0 ELSE Min({numBytes, hdr.numBytes - position})

(* Mutant: the copy starts at the start of the first sector                *)
ReadAtSector(hdr, numBytes, position) ==
  LET n     == InFile(hdr, position, numBytes)
      first == position \div SectorSize
      last  == (position + n - 1) \div SectorSize
      buf   == Seqs!FlattenSeq([k \in 1..last - first + 1 |-> data[hdr.dataSectors[first + k]]])
  IN  IF n = 0 THEN <<>> ELSE SubSeq(buf, 1, n)

(* OpenFile::ReadAt: all sectors of the request, then the part asked for   *)
ReadAt(hdr, numBytes, position) ==
  LET n     == InFile(hdr, position, numBytes)
      first == position \div SectorSize
      last  == (position + n - 1) \div SectorSize
      buf   == Seqs!FlattenSeq([k \in 1..last - first + 1 |-> data[hdr.dataSectors[first + k]]])
      start == position - first * SectorSize
  IN  IF n = 0 THEN <<>> ELSE SubSeq(buf, start + 1, start + n)

(* Mutant: the last sector is read only if it is not the first             *)
WriteAtLastOnly(hdr, from, position, fill) ==
  LET n       == InFile(hdr, position, Len(from))
      first   == position \div SectorSize
      last    == (position + n - 1) \div SectorSize
      start   == first * SectorSize
      fetched == (IF position # start THEN {first} ELSE {})
                 \cup (IF position + n # (last + 1) * SectorSize /\ first # last THEN {last} ELSE {})
      byte(i) == IF i \in position + 1..position + n THEN from[i - position]
                 ELSE IF (i - 1) \div SectorSize \in fetched /\ i <= hdr.numBytes THEN Bytes(hdr)[i]
                 ELSE fill
  IN  [k \in 1..last - first + 1 |->
         [kind |-> "data", sector |-> hdr.dataSectors[first + k],
          bytes |-> [j \in 1..SectorSize |-> byte(start + (k - 1) * SectorSize + j)]]]

(* OpenFile::WriteAt: the first and the last sector are read if they are   *)
(* written in part, the rest of the buffer is what was in the memory.      *)
WriteAt(hdr, from, position, fill) ==
  LET n       == InFile(hdr, position, Len(from))
      first   == position \div SectorSize
      last    == (position + n - 1) \div SectorSize
      start   == first * SectorSize
      firstAligned == position = start
      lastAligned  == position + n = (last + 1) * SectorSize
      fetched == (IF ~ firstAligned THEN {first} ELSE {})
                 \cup (IF ~ lastAligned /\ (first # last \/ firstAligned) THEN {last} ELSE {})
      byte(i) == IF i \in position + 1..position + n THEN from[i - position]
                 ELSE IF (i - 1) \div SectorSize \in fetched /\ i <= hdr.numBytes THEN Bytes(hdr)[i]
                 ELSE fill
  IN  [k \in 1..last - first + 1 |->
         [kind |-> "data", sector |-> hdr.dataSectors[first + k],
          bytes |-> [j \in 1..SectorSize |-> byte(start + (k - 1) * SectorSize + j)]]]

(* FileSystem::List and Print, with Directory::List and Print and          *)
(* FileHeader::Print, which shows a file sector by sector                  *)
DirectoryList == Seqs!SetToSortSeq({i \in Entry : table[i].inUse}, <)
List == [k \in DOMAIN DirectoryList |-> table[DirectoryList[k]].name]
HeaderPrint(hdr) ==
  [size |-> hdr.numBytes, blocks |-> hdr.dataSectors,
   lines |-> [k \in DOMAIN hdr.dataSectors |->
     SubSeq(data[hdr.dataSectors[k]], 1, Min({SectorSize, hdr.numBytes - (k - 1) * SectorSize}))]]
DirectoryPrint ==
  [k \in DOMAIN DirectoryList |->
     LET entry == table[DirectoryList[k]] IN
     [name |-> entry.name, sector |-> entry.sector,
      header |-> HeaderPrint(FetchHeader(entry.sector))]]
PrintAll ==
  [bitHdr |-> HeaderPrint(FetchHeader(FreeMapSector)),
   dirHdr |-> HeaderPrint(FetchHeader(DirectorySector)),
   freeMap |-> freeMap, directory |-> DirectoryPrint]

(* OpenFile::Seek *)
Seek(h, position) ==
  /\ Idle
  /\ handle[h] # Closed
  /\ handle' = [handle EXCEPT ![h].pos = position]
  /\ UNCHANGED <<freeMap, table, header, data, todo, own, expect, crashes, hurt>>

(* OpenFile::Read; ReadsRight says what it puts into the caller's buffer.  *)
Read(h, numBytes) ==
  /\ Idle
  /\ handle[h] # Closed
  /\ handle' = [handle EXCEPT ![h].pos = @ + Len(ReadAt(handle[h].hdr, numBytes, @))]
  /\ UNCHANGED <<freeMap, table, header, data, todo, own, expect, crashes, hurt>>

(* OpenFile::Write.  Through a handle of a removed file it goes to sectors *)
(* that may be anyone's.                                                   *)
Write(h, from, fill) ==
  /\ Idle
  /\ handle[h] # Closed
  /\ LET pos == handle[h].pos
         n   == InFile(handle[h].hdr, pos, Len(from))
     IN  /\ n > 0
         /\ todo' = WriteAt(handle[h].hdr, from, pos, fill)
         /\ handle' = [handle EXCEPT ![h].pos = pos + n]
         /\ hurt' = handle[h].removed
         /\ own' = IF handle[h].removed THEN NoEntry ELSE FindIndex(handle[h].name)
         /\ expect' = [expect EXCEPT ![handle[h].name] =
                         [i \in 1..Len(@) |-> IF i \in pos + 1..pos + n THEN from[i - pos] ELSE @[i]]]
  /\ UNCHANGED <<freeMap, table, header, data, crashes>>

(* Copy and Print of threads/main.cc move a file in pieces.  Print reads   *)
(* until there is no more.                                                 *)
Piece(from, position) == SubSeq(from, position + 1, Min({position + TransferSize, Len(from)}))

PrintFile(hdr) ==
  LET rest[position \in 0..hdr.numBytes] ==
        LET amountRead == ReadAt(hdr, TransferSize, position)
        IN  IF amountRead = <<>> THEN <<>> ELSE amountRead \o rest[position + Len(amountRead)]
  IN  rest[0]

(* The writes of Copy.  The pieces lie on different sectors, as            *)
(* TransferSize is the size of a sector, so each is what it would be if    *)
(* those before it had been written.                                       *)
CopyWrites(hdr, from, fill) ==
  Seqs!FlattenSeq([k \in 1..divRoundUp(Len(from), TransferSize) |->
    LET position == (k - 1) * TransferSize
    IN  WriteAt(hdr, Piece(from, position), position, fill)])

(* Copy of a file of the host into one that Create makes for it.  If the   *)
(* host has none, or Create fails, nothing is written.                     *)
Copy(n, from, fill) ==
  /\ Idle
  /\ CanCreate(n, Len(from))
  /\ todo' = CreateWrites(n, Len(from)) \o CopyWrites(NewHeader(Len(from)), from, fill)
  /\ own' = NewEntry
  /\ expect' = [expect EXCEPT ![n] = from]
  /\ UNCHANGED <<freeMap, table, header, data, handle, crashes, hurt>>
-----------------------------------------------------------------------------
(* SynchDisk::WriteSector of the next sector                               *)
WriteSector ==
  /\ todo # <<>>
  /\ ~ hurt
  /\ todo' = Tail(todo)
  /\ own' = IF todo' = <<>> THEN NoEntry ELSE own
  /\ LET w == Head(todo)
     IN  CASE w.kind = "header" ->
                /\ header' = [header EXCEPT ![w.sector] = w.hdr]
                /\ UNCHANGED <<freeMap, table, data>>
           [] w.kind = "directory1" ->
                /\ table' = [i \in Entry |->
                     IF i < Straddling THEN w.new[i]
                     ELSE IF i = Straddling THEN [w.new[i] EXCEPT !.name = table[i].name]
                     ELSE table[i]]
                /\ UNCHANGED <<freeMap, header, data>>
           [] w.kind = "directory2" ->
                /\ table' = [i \in Entry |->
                     IF i > Straddling THEN w.new[i]
                     ELSE IF i = Straddling THEN [table[i] EXCEPT !.name = w.new[i].name]
                     ELSE table[i]]
                /\ UNCHANGED <<freeMap, header, data>>
           [] w.kind = "freeMap" ->
                /\ freeMap' = w.new
                /\ UNCHANGED <<table, header, data>>
           [] w.kind = "data" ->
                /\ data' = [data EXCEPT ![w.sector] = w.bytes]
                /\ header' = [header EXCEPT ![w.sector] = NoHeader]
                /\ UNCHANGED <<freeMap, table>>
  /\ expect' = [n \in Name |->
                  IF /\ Head(todo).kind = "directory2"
                     /\ \A i \in Entry : ~ (Head(todo).new[i].inUse /\ Head(todo).new[i].name = n)
                  THEN <<>> ELSE expect[n]]
  /\ UNCHANGED <<handle, crashes, hurt>>

Kinds == {todo[i].kind : i \in 1..Len(todo)}

(* A crash here leaves the directory and the bitmap in disagreement.       *)
Torn == Kinds \cap {"directory1", "directory2", "freeMap"}
          \notin {{}, {"directory1", "directory2", "freeMap"}}

(* The machine goes down and is started again: FileSystem(FALSE) opens the *)
(* bitmap and the directory.  A file that was being written has each of    *)
(* its sectors old or new.                                                 *)
Crash ==
  /\ ~ hurt
  /\ crashes < MaxCrashes
  /\ crashes' = crashes + 1
  /\ todo' = <<>>
  /\ handle' = [h \in Handle |-> Closed]
  /\ hurt' = Torn
  /\ own' = NoEntry
  /\ expect' = [n \in Name |->
                  IF Kinds = {"data"} /\ Entries(n) # {}
                     /\ Head(todo).sector \in Range(header[Find(n)].dataSectors)
                  THEN Bytes(header[Find(n)]) ELSE expect[n]]
  /\ UNCHANGED <<freeMap, table, header, data>>

FSNext ==
  \/ \E n \in Name, size \in Sizes : Create(n, size)
  \/ \E h \in Handle, n \in Name : Open(h, n)
  \/ \E h \in Handle : Close(h)
  \/ \E n \in Name : Remove(n)
  \/ \E h \in Handle, position \in 0..Max(Sizes) : Seek(h, position)
  \/ \E h \in Handle, numBytes \in 0..Max(Sizes) : Read(h, numBytes)
  \/ \E h \in Handle, fill \in Byte, size \in 1..Max(Sizes), b \in Byte \ {0} :
       Write(h, [i \in 1..size |-> b], fill)
  \/ \E n \in Name, fill \in Byte, size \in Sizes, b \in Byte \ {0} :
       Copy(n, [i \in 1..size |-> b], fill)
  \/ WriteSector
  \/ Crash

FSSpec == FSInit /\ [][FSNext]_vars
-----------------------------------------------------------------------------
Header == [numBytes : Sizes \cup {SectorSize, 2 * SectorSize}, dataSectors : Seq(Sector)]

FSTypeOK ==
  /\ freeMap \subseteq Sector
  /\ table \in [Entry -> [inUse : BOOLEAN, name : Name \cup {NoName}, sector : Sector]]
  /\ header \in [Sector -> Header \cup {NoHeader}]
  /\ data \in [Sector -> [1..SectorSize -> Byte]]
  /\ \A h \in Handle : handle[h] # Closed =>
       handle[h] \in [name : Name, hdr : Header, pos : 0..Max(Sizes), removed : BOOLEAN]
  /\ crashes \in 0..MaxCrashes

InUse == {i \in Entry : table[i].inUse}
SectorsOf(i) == {table[i].sector} \cup Range(header[table[i].sector].dataSectors)

(* Between operations the disk is consistent: the names in the directory   *)
(* are different, every entry leads to a header, no sector belongs to two  *)
(* files or to a file and the system, none to a file twice, and the bitmap *)
(* has exactly the sectors of the files and of the system.  Crashes        *)
(* included, but for those between the writes of the directory and of the  *)
(* bitmap.                                                                 *)
Consistent ==
  Idle =>
    /\ \A i \in InUse : header[table[i].sector] # NoHeader
    /\ \A i, j \in InUse : i # j => table[i].name # table[j].name /\ SectorsOf(i) \cap SectorsOf(j) = {}
    /\ \A i \in InUse : Cardinality(SectorsOf(i)) = 1 + Len(header[table[i].sector].dataSectors)
    /\ \A i \in InUse : SectorsOf(i) \cap System = {}
    /\ freeMap = System \cup UNION {SectorsOf(i) : i \in InUse}

(* The ASSERT of FileHeader::Deallocate never fails in Remove.             *)
DeallocateAsserts == Idle => \A n \in Name : Entries(n) # {} => DeallocateAssert(n)

(* Every file has the bytes that were written to it and otherwise those it *)
(* had before, whichever sectors it lies on, where in them a write starts  *)
(* and ends, and whatever was created, removed or written around it        *)
(* (openfile.cc:138-197).                                                  *)
ContentsKept == Idle => \A n \in Name : Entries(n) # {} => Bytes(header[Find(n)]) = expect[n]

(* At every moment of an operation, so also where a crash tears the        *)
(* directory from the bitmap or one of its entries in two, the disk is     *)
(* right about all entries but the one the operation is about: each leads  *)
(* to its header, to sectors that are marked and are no other file's, and  *)
(* to its bytes (filesys.cc:177-219, 262-286, directory.cc:78-82).         *)
OthersSpared ==
  ~ hurt =>
    \A i \in InUse \ {own} :
      /\ header[table[i].sector] # NoHeader
      /\ SectorsOf(i) \subseteq freeMap \ System
      /\ \A j \in InUse \ {i} :
           header[table[j].sector] # NoHeader => SectorsOf(i) \cap SectorsOf(j) = {}
      /\ Bytes(header[table[i].sector]) = expect[table[i].name]

(* No file loses its bytes to an operation or a crash in one on another    *)
(* file.                                                                   *)
FilesKept == ContentsKept /\ OthersSpared

(* List names each file once, and Print shows the bytes of every file and  *)
(* only sectors that are in use, each of them once.  The Print of main     *)
(* prints the bytes of the file it is asked for.                           *)
Shown ==
  Idle => LET p == PrintAll IN
    /\ Range(List) = {n \in Name : Entries(n) # {}}
    /\ Cardinality(Range(List)) = Len(List)
    /\ \A k \in DOMAIN p.directory :
         Seqs!FlattenSeq(p.directory[k].header.lines) = expect[p.directory[k].name]
    /\ \A n \in Range(List) : PrintFile(FetchHeader(Find(n))) = expect[n]
    /\ LET shown == p.bitHdr.blocks \o p.dirHdr.blocks
                    \o Seqs!FlattenSeq([k \in DOMAIN p.directory |-> p.directory[k].header.blocks])
       IN  Range(shown) \subseteq p.freeMap /\ Cardinality(Range(shown)) = Len(shown)

(* Every read through a handle gets the bytes of the file asked for, as    *)
(* many as there are.                                                      *)
ReadBack ==
  Idle => \A h \in Handle : (handle[h] # Closed /\ ~ handle[h].removed) =>
    LET file == expect[handle[h].name]
    IN  \A position, numBytes \in 0..Max(Sizes) :
          ReadAt(handle[h].hdr, numBytes, position) =
            SubSeq(file, position + 1, Min({position + numBytes, Len(file)}))

(* What is read or shown of a file is what the file contains.              *)
ReadsRight == ReadBack /\ Shown

(* Bitmap, directory and headers agree between operations, and no ASSERT   *)
(* of Remove fails.                                                        *)
DiskConsistent == FSTypeOK /\ Consistent /\ DeallocateAsserts
=============================================================================
