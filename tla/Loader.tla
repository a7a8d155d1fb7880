------------------------------- MODULE Loader -------------------------------
(***************************************************************************)
(* From an object file to a process: coff2noff writes the sections of a    *)
(* COFF file into a NOFF file, AddrSpace::AddrSpace gives the program its  *)
(* pages and copies the NOFF file into them.                               *)
(***************************************************************************)
EXTENDS Machine

CONSTANTS
  NOFFMAGIC, MIPSELMAGIC, OMAGIC,
  UserStackSize

(* Segments of the NOFF header, by the name of their section: code,        *)
(* initData, readonlyData and uninitData.  The header has 13 words.        *)
NoSegment == [virtualAddr |-> 0, inFileAddr |-> 0, size |-> 0]
Order == <<"text", "data", "rdata", "bss">>
HeaderSize == 4 * (1 + 3 * Len(Order))
EmptyNoff ==
  [noff |-> [name \in Range(Order) |-> NoSegment],
   file |-> [k \in 1 .. HeaderSize |-> 0], failed |-> FALSE]

(* A number of n bytes in the COFF file, which is little-endian, as        *)
(* coff2noff reads it on its host                                          *)
FromFile(value, n, big) ==
  WordToHost(HostReads(HostWrites(value, n, FALSE), big), n, big)

(* One turn of the loop of coff2noff.  A second .bss is refused when it    *)
(* follows the first one.                                                  *)
AddSection(p, s) ==
  IF p.failed \/ s.size = 0 THEN p
  ELSE IF s.name # "bss" /\ Len(s.bytes) < s.size THEN [p EXCEPT !.failed = TRUE]
  ELSE IF s.name \in {"text", "data", "rdata"}
  THEN [p EXCEPT !.file = @ \o s.bytes,
          !.noff[s.name] = [virtualAddr |-> s.paddr, inFileAddr |-> Len(p.file),
                            size |-> s.size]]
  ELSE IF s.name # "bss" THEN [p EXCEPT !.failed = TRUE]
  ELSE LET bss == p.noff["bss"] IN
       IF bss.size = 0
       THEN [p EXCEPT !.noff["bss"] = [virtualAddr |-> s.paddr, inFileAddr |-> 0,
                                       size |-> s.size]]
       ELSE IF s.paddr = bss.virtualAddr + bss.size
            THEN [p EXCEPT !.failed = TRUE]
            ELSE [p EXCEPT !.noff["bss"].size = @ + s.size]

SectionHeader(s, big) ==
  [s EXCEPT !.paddr = FromFile(s.paddr, 4, big), !.size = FromFile(s.size, 4, big)]

(* The words of a header in the file, and SwapHeader on them               *)
HeaderWords(noff) ==
  <<NOFFMAGIC>> \o FlattenSeq([k \in 1 .. Len(Order) |->
    <<noff[Order[k]].virtualAddr, noff[Order[k]].inFileAddr, noff[Order[k]].size>>])
SwapHeader(words, big) == [k \in DOMAIN words |-> WordToHost(words[k], 4, big)]

(* Mutant: the header is written as the host has it                        *)
WriteHeaderUnswapped(p, big) ==
  [p EXCEPT !.file = FlattenSeq([k \in 1 .. HeaderSize \div 4 |->
                       HostWrites(HeaderWords(p.noff)[k], 4, big)])
                     \o SubSeq(@, HeaderSize + 1, Len(@))]

(* The end of coff2noff: the header, before the segments                   *)
WriteHeader(p, big) ==
  [p EXCEPT !.file = FlattenSeq([k \in 1 .. HeaderSize \div 4 |->
                       HostWrites(SwapHeader(HeaderWords(p.noff), big)[k], 4, big)])
                     \o SubSeq(@, HeaderSize + 1, Len(@))]

(* coff2noff on a host of either byte order                                *)
Coff2noff(coff, big) ==
  IF FromFile(coff.f_magic, 2, big) # MIPSELMAGIC \/ FromFile(coff.magic, 2, big) # OMAGIC
  THEN [EmptyNoff EXCEPT !.failed = TRUE]
  ELSE WriteHeader(FoldLeft(AddSection, EmptyNoff,
         [n \in DOMAIN coff.sections |-> SectionHeader(coff.sections[n], big)]), big)

(* The beginning of AddrSpace::AddrSpace and of Load: the header, swapped  *)
(* if that makes it one                                                    *)
ReadHeader(file, big) ==
  LET raw == [k \in 1 .. HeaderSize \div 4 |-> HostReads(SubSeq(file, 4 * k - 3, 4 * k), big)]
      words == IF raw[1] # NOFFMAGIC /\ WordToHost(raw[1], 4, big) = NOFFMAGIC
               THEN SwapHeader(raw, big) ELSE raw
      At(name) == 3 * (CHOOSE k \in DOMAIN Order : Order[k] = name)
  IN  [file |-> file, failed |-> words[1] # NOFFMAGIC,
       noff |-> [name \in Range(Order) |->
                   [virtualAddr |-> words[At(name) - 1], inFileAddr |-> words[At(name)],
                    size |-> words[At(name) + 1]]]]

-----------------------------------------------------------------------------
divRoundUp(n, s) == (n + s - 1) \div s

(* The size of the address space leaves out the read-only data             *)
numPages(noff) ==
  divRoundUp(noff["text"].size + noff["data"].size + noff["bss"].size
               + UserStackSize, PageSize)

(* The frame of each page: Bitmap::FindAndSet, beside the used frames      *)
Frames(used, n) ==
  LET free == SelectSeq([k \in 1 .. NumPhysPages |-> k - 1], LAMBDA f : f \notin used) IN
  [i \in 0 .. n - 1 |-> free[i + 1]]

(* OpenFile::ReadAt of one page into the main memory, as far as the file   *)
(* goes                                                                    *)
ReadPage(mem, at, file, position) ==
  [a \in DOMAIN mem |->
     IF a \in at .. at + PageSize - 1 /\ position + (a - at) < Len(file)
     THEN file[position + (a - at) + 1] ELSE mem[a]]

(* Mutant: every page is read from the beginning of the segment            *)
CopySegmentSamePage(mem, segment, file, frames) ==
  LET copy[i \in 0 .. Cardinality(DOMAIN frames)] ==
        IF i = 0 \/ segment.size = 0 THEN mem
        ELSE ReadPage(copy[i - 1], segment.virtualAddr + frames[i - 1] * PageSize,
                      file, segment.inFileAddr)
  IN  copy[Cardinality(DOMAIN frames)]

(* The loop that loads a segment: page by page, for all pages of the       *)
(* program, from the place of the segment on                               *)
CopySegment(mem, segment, file, frames) ==
  LET copy[i \in 0 .. Cardinality(DOMAIN frames)] ==
        IF i = 0 \/ segment.size = 0 THEN mem
        ELSE ReadPage(copy[i - 1], segment.virtualAddr + frames[i - 1] * PageSize,
                      file, segment.inFileAddr + (i - 1) * PageSize)
  IN  copy[Cardinality(DOMAIN frames)]

(* AddrSpace::AddrSpace, with as many free frames as it needs: the main    *)
(* memory it leaves                                                        *)
LoadedMemory(mem, exe, frames) ==
  CopySegment(CopySegment(mem, exe.noff["text"], exe.file, frames),
              exe.noff["data"], exe.file, frames)

(* AddrSpace::Translate, which the kernel has for its own use              *)
SpaceTranslate(s, vaddr, isReadWrite) ==
  LET vpn == vaddr \div PageSize
      pte == s.pageTable[vpn]
      None(which) == [exception |-> which]
  IN  IF vpn \notin DOMAIN s.pageTable THEN None("AddressError")
      ELSE IF isReadWrite /\ pte.readOnly THEN None("ReadOnly")
      ELSE IF pte.physicalPage >= NumPhysPages THEN None("BusError")
      ELSE [exception |-> "none", paddr |-> pte.physicalPage * PageSize + (vaddr % PageSize),
            pageTable |-> [s.pageTable EXCEPT
                             ![vpn] = [@ EXCEPT !.use = TRUE, !.dirty = @ \/ isReadWrite]]]

(* AddrSpace::Load, which main calls for the first program after the       *)
(* constructor: it counts the read-only data ...                           *)
LoadPages(noff) ==
  divRoundUp(noff["text"].size + noff["rdata"].size + noff["data"].size
               + noff["bss"].size + UserStackSize, PageSize)

(* ... and copies every segment to the same physical as virtual addresses  *)
CopyFlat(mem, segment, file) ==
  [a \in DOMAIN mem |->
     IF a \in segment.virtualAddr .. segment.virtualAddr + segment.size - 1
     THEN file[segment.inFileAddr + (a - segment.virtualAddr) + 1] ELSE mem[a]]

LoadFirst(mem, exe) ==
  CopyFlat(CopyFlat(CopyFlat(mem, exe.noff["text"], exe.file),
                    exe.noff["data"], exe.file), exe.noff["rdata"], exe.file)
=============================================================================
