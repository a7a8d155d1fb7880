------------------------------- MODULE Files -------------------------------
(***************************************************************************)
(* The file system calls: SC_CreateFile, SC_Open, SC_Close, SC_Seek,       *)
(* SC_Read and SC_Write of userprog/exception.cc over the open file table  *)
(* each process has (FileSystem and OpenFile of filesys/filesys.h and      *)
(* openfile.h, the FILESYS_STUB versions the kernel is built with) and     *)
(* the files of the host, which all processes share.                       *)
(*                                                                         *)
(* A call runs from the trap to its return with no other thread in         *)
(* between: it neither sleeps nor turns interrupts on.  (The console       *)
(* calls behind ids 0 and 1 do sleep: see ConsoleIn and ConsoleOut; here   *)
(* they only return.)                                                      *)
(*                                                                         *)
(* The offset the OpenFile object keeps is left out: Read and Write first  *)
(* set it to where the host says the descriptor is (getCurrentOffset).     *)
(***************************************************************************)
EXTENDS Integers, Sequences, FiniteSets, SequencesExt

CONSTANTS
  Process,        (* process ids                                           *)
  Name,           (* names of host files                                   *)
  Char,           (* bytes, 0 among them                                   *)
  MAX_FILE_OPEN,  (* length of a file table                                *)
  SC_Open,        (* the number of the call, which is a slot of the table  *)
  MaxDescriptors, (* what the host allows the kernel to have open          *)
  Absent,         (* "no such file"                                        *)
  NULL            (* an empty slot                                         *)

ASSUME FilesAssumption ==
  /\ MAX_FILE_OPEN > 2
  /\ SC_Open \in 2..MAX_FILE_OPEN - 1
  /\ 0 \in Char

VARIABLES
  host,           (* the contents of each file                             *)
  fileTable,      (* per process: slot -> [name, type, pos] or NULL        *)
  descriptors,    (* host descriptors in use                               *)
  r2,             (* register 2, where a call leaves its result            *)
  buf,            (* what the last Read of the process put in its buffer   *)
  machine         (* "running", "halted", or "aborted" by an ASSERT        *)

fileVars == <<host, fileTable, descriptors, r2, buf, machine>>

OUTPUT_TYPE    == 0
INPUT_TYPE     == 1
READWRITE_TYPE == 2
READONLY_TYPE  == 3
INDEX_STDOUT   == 0
INDEX_STDIN    == 1
RW_ERROR_FILE  == -1
RW_END_FILE    == -2

Slot      == 0..MAX_FILE_OPEN - 1
NoTable   == [id \in Slot |-> NULL]
OpenFile  == [name : Name, type : {READWRITE_TYPE, READONLY_TYPE}, pos : Nat]
Console   == [type : {INPUT_TYPE, OUTPUT_TYPE}]
Exists(p) == fileTable[p] # NoTable

(* FileSystem::FileSystem creates, truncates and opens stdin and stdout.   *)
FreshTable ==
  [NoTable EXCEPT ![INDEX_STDIN]  = [type |-> INPUT_TYPE],
                  ![INDEX_STDOUT] = [type |-> OUTPUT_TYPE]]

Return(p, v) == r2' = [r2 EXCEPT ![p] = v]

(* An ASSERT that fails, or ASSERTNOTREACHED at the end of the handler     *)
Abort ==
  /\ machine' = "aborted"
  /\ UNCHANGED <<host, fileTable, descriptors, r2, buf>>

(* A call that only returns a value                                        *)
Answer(p, v) ==
  /\ Return(p, v)
  /\ UNCHANGED <<host, fileTable, descriptors, buf, machine>>

(* FileSystem::Create: OpenForWrite creates or empties the file.           *)
HostCreate(n) == host' = [host EXCEPT ![n] = <<>>]

(* SC_CreateFile: OpenForWrite asserts that the host gave it a descriptor, *)
(* which Close then frees.                                                 *)
CreateFile(p, n) ==
  \/ /\ descriptors < MaxDescriptors
     /\ HostCreate(n)
     /\ Return(p, 0)
     /\ UNCHANGED <<fileTable, descriptors, buf, machine>>
  \/ /\ descriptors = MaxDescriptors
     /\ Abort

(* FileSystem::FindFreeSlot                                                *)
FreeSlots(p) == {id \in Slot \ {INDEX_STDIN, INDEX_STDOUT} : fileTable[p][id] = NULL}
FindFreeSlot(p) == CHOOSE id \in FreeSlots(p) : \A other \in FreeSlots(p) : id <= other

(* OpenForRead and OpenForReadWrite succeed                                *)
HostOpens(n) == host[n] # Absent /\ descriptors < MaxDescriptors

(* FileSystem::Open of a file: a new OpenFile at its start                 *)
OpenAs(n, type) == [name |-> n, type |-> type, pos |-> 0]

(* SC_Open.  A console type, or a full table, leaves the switch for        *)
(* ASSERTNOTREACHED.  When the host refuses, register 2 is not written and *)
(* still holds the number of the call.                                     *)
Open(p, n, type) ==
  \/ /\ type \in {INPUT_TYPE, OUTPUT_TYPE} \/ FreeSlots(p) = {}
     /\ Abort
  \/ /\ type \in {READWRITE_TYPE, READONLY_TYPE}
     /\ FreeSlots(p) # {}
     /\ \/ /\ ~ HostOpens(n)
           /\ Answer(p, SC_Open)
        \/ /\ HostOpens(n)
           /\ fileTable' = [fileTable EXCEPT ![p][FindFreeSlot(p)] = OpenAs(n, type)]
           /\ descriptors' = descriptors + 1
           /\ Return(p, FindFreeSlot(p))
           /\ UNCHANGED <<host, buf, machine>>

(* SC_Close                                                                *)
Close(p, id) ==
  \/ /\ id \notin Slot \ {INDEX_STDIN, INDEX_STDOUT}
     /\ Abort
  \/ /\ id \in Slot \ {INDEX_STDIN, INDEX_STDOUT}
     /\ \/ /\ fileTable[p][id] = NULL
           /\ Answer(p, -1)
        \/ /\ fileTable[p][id] # NULL
           /\ fileTable' = [fileTable EXCEPT ![p][id] = NULL]
           /\ descriptors' = descriptors - 1
           /\ Return(p, 0)
           /\ UNCHANGED <<host, buf, machine>>

IsFile(p, id) == id \in Slot \ {INDEX_STDIN, INDEX_STDOUT} /\ fileTable[p][id] # NULL
Contents(p, id) == host[fileTable[p][id].name]
MoveTo(p, id, pos) == fileTable' = [fileTable EXCEPT ![p][id].pos = pos]

(* SC_Seek.  OpenFile::Length leaves the descriptor at the end of the file,*)
(* so a position that is refused has moved it there.                       *)
Seek(p, position, id) ==
  \/ /\ ~ IsFile(p, id)
     /\ Answer(p, -1)
  \/ /\ IsFile(p, id)
     /\ LET length == Len(Contents(p, id))
            target == IF position = -1 THEN length ELSE position
            valid  == target \in 0..length
        IN  /\ MoveTo(p, id, IF valid THEN target ELSE length)
            /\ Return(p, IF valid THEN target ELSE -1)
     /\ UNCHANGED <<host, descriptors, buf, machine>>

(* SC_Read and SC_Write let id = MAX_FILE_OPEN through and use the word    *)
(* behind the table: whatever it holds, a null or not a file.              *)
PastTable(p, id) ==
  /\ id = MAX_FILE_OPEN
  /\ Answer(p, RW_ERROR_FILE) \/ Abort

(* System2User stops after a 0.                                            *)
Delivered(bytes) ==
  SubSeq(bytes, 1, Min({Len(bytes)} \cup {i \in 1..Len(bytes) : bytes[i] = 0}))

NotReadable(p, id) ==
  id \notin {MAX_FILE_OPEN} \cup {i \in Slot \ {INDEX_STDOUT} : fileTable[p][i] # NULL}

(* OpenFile::Read: the bytes from pos on, as many as there are             *)
ReadAt(contents, pos, numBytes) ==
  SubSeq(contents, pos + 1, Min({pos + numBytes, Len(contents)}))

(* SC_Read: OpenFile::Read of a file, SynchConsoleInput::Read for stdin    *)
Read(p, charcount, id) ==
  \/ PastTable(p, id)
  \/ NotReadable(p, id) /\ Answer(p, RW_ERROR_FILE)
  \/ id = INDEX_STDIN /\ \E size \in 0..charcount : Answer(p, size)
  \/ /\ IsFile(p, id)
     /\ LET pos == fileTable[p][id].pos
            got == ReadAt(Contents(p, id), pos, charcount)
        IN  \/ /\ got = <<>>
               /\ Answer(p, RW_END_FILE)
            \/ /\ got # <<>>
               /\ MoveTo(p, id, pos + Len(got))
               /\ buf' = [buf EXCEPT ![p] = Delivered(got)]
               /\ Return(p, Len(got))
               /\ UNCHANGED <<host, descriptors, machine>>

NotWritable(p, id) ==
  id \notin {MAX_FILE_OPEN, INDEX_STDOUT} \cup
            {i \in Slot : IsFile(p, i) /\ fileTable[p][i].type = READWRITE_TYPE}

(* OpenFile::Write of bytes at pos: on the host, the bytes before pos that *)
(* the file does not have read as 0.                                       *)
Overwrite(contents, pos, bytes) ==
  [i \in 1..Max({Len(contents), pos + Len(bytes)}) |->
     IF i \in pos + 1..pos + Len(bytes) THEN bytes[i - pos]
     ELSE IF i <= Len(contents) THEN contents[i] ELSE 0]

(* SC_Write: OpenFile::Write of a file, SynchConsoleOutput::PutChar of each*)
(* byte for stdout.  A write of nothing falls through into SC_Join with    *)
(* the address of the buffer as the process id, which is none.             *)
Write(p, bytes, id) ==
  \/ PastTable(p, id)
  \/ NotWritable(p, id) /\ Answer(p, RW_ERROR_FILE)
  \/ id = INDEX_STDOUT /\ Answer(p, Len(bytes) - 1)
  \/ /\ IsFile(p, id)
     /\ fileTable[p][id].type = READWRITE_TYPE
     /\ \/ /\ bytes = <<>>
           /\ Answer(p, -1)
        \/ /\ bytes # <<>>
           /\ LET pos == fileTable[p][id].pos
              IN  /\ host' = [host EXCEPT ![fileTable[p][id].name] = Overwrite(@, pos, bytes)]
                  /\ MoveTo(p, id, pos + Len(bytes))
           /\ Return(p, Len(bytes))
           /\ UNCHANGED <<descriptors, buf, machine>>

(* SC_Exec, as far as files go: the executable is opened twice and closed  *)
(* twice, and the new PCB creates and opens its console files.  The child  *)
(* starts with the registers of a new address space.                       *)
Exec(p, child) ==
  /\ ~ Exists(child)
  /\ \/ /\ descriptors = MaxDescriptors
        /\ Answer(p, -1)
     \/ /\ descriptors \in MaxDescriptors - 2..MaxDescriptors - 1
        /\ Abort
     \/ /\ descriptors < MaxDescriptors - 2
        /\ fileTable' = [fileTable EXCEPT ![child] = FreshTable]
        /\ descriptors' = descriptors + 2
        /\ r2' = [r2 EXCEPT ![p] = child, ![child] = 0]
        /\ buf' = [buf EXCEPT ![child] = <<>>]
        /\ UNCHANGED <<host, machine>>

(* SC_Exit: the first process stops the machine.  For another one ~PCB     *)
(* finishes the thread before it reaches "delete fileTable", so the table  *)
(* is gone and its descriptors stay open.                                  *)
Exit(p) ==
  \/ /\ p = 0
     /\ machine' = "halted"
     /\ UNCHANGED <<host, fileTable, descriptors, r2, buf>>
  \/ /\ p # 0
     /\ fileTable' = [fileTable EXCEPT ![p] = NoTable]
     /\ UNCHANGED <<host, descriptors, r2, buf, machine>>

-----------------------------------------------------------------------------
FilesTypeOK ==
  /\ host \in [Name -> Seq(Char) \cup {Absent}]
  /\ fileTable \in [Process -> [Slot -> OpenFile \cup Console \cup {NULL}]]
  /\ descriptors \in 0..MaxDescriptors
  /\ r2 \in [Process -> Int]
  /\ buf \in [Process -> Seq(Char)]
  /\ machine \in {"running", "halted", "aborted"}

OpenSlots == {<<p, id>> \in Process \X Slot : fileTable[p][id] # NULL}

(* Every OpenFile in a table has a host descriptor of its own: closing an  *)
(* id again, as watersystem_main.c does, never closes another file's       *)
(* descriptor.  (There may be more descriptors than files: those of        *)
(* processes that have left.)                                              *)
OwnDescriptor == Cardinality(OpenSlots) <= descriptors
=============================================================================
