------------------------------ MODULE UserMode ------------------------------
(***************************************************************************)
(* A user program on the machine: Machine::Run, the interrupts between its *)
(* instructions, and the system calls of userprog/exception.cc that need   *)
(* only registers, memory and the console.  Beside the processor runs a    *)
(* second one that knows neither load delays, interrupts nor instruction   *)
(* words: `arch'.                                                          *)
(***************************************************************************)
EXTENDS Loader

CONSTANTS
  Loads,          (* COFF files, the frames other processes have, whether  *)
                  (* the host is big-endian, and programs: their text and  *)
                  (* the registers they have set                           *)
  Before,         (* what the main memory held when they were loaded       *)
  Lines,          (* lines that may be typed, without their NewLine        *)
  Randoms,        (* results of RandomNumber                               *)
  MaxString       (* the limit PrintString gives User2System: 255          *)

ASSUME UserModeAssumption ==
  /\ Before \in [0 .. MemorySize - 1 -> Byte]
  /\ \A line \in Lines : \A k \in DOMAIN line : line[k] \in Byte \ {NewLine}
  /\ Randoms \subseteq 0 .. INT_MAX
  /\ PageSize % 4 = 0

VARIABLES
  text,           (* the instructions of the program                       *)
  space,          (* its NOFF file, its frames and the memory once loaded  *)
  cpu,            (* the processor, its memory and what it has printed     *)
  arch,           (* the same without delays and interrupts                *)
  typed,          (* the line the last call that reads was given           *)
  careful         (* has the program kept to the rules of a compiler?      *)

vars == <<text, space, cpu, arch, typed, careful>>

SC_Halt == 0
SC_Exit == 1
SC_Exec == 2
SC_Join == 3
SC_Add == 42
SC_ReadNum == 43
SC_RandomNum == 44
SC_ReadChar == 45
SC_PrintChar == 46
SC_PrintNum == 47
SC_ReadString == 50
SC_PrintString == 51
Reading == {SC_ReadNum, SC_ReadChar, SC_ReadString}

(* The other calls of syscall.h that have a stub in test/start.S, where    *)
(* each loads its own code: Exec, Join and ExecV; CreateFile, Remove, Open *)
(* and Read to Close; ThreadFork to ThreadJoin; the three of semaphores    *)
SC_Remove == 5
SC_ExecV == 13
BasicStubs == {SC_Halt, SC_Add, SC_RandomNum, SC_ReadChar, SC_PrintChar}
ProcessStubs == {SC_Exit, SC_Exec, SC_ExecV, SC_Join}
FileStubs == {4, SC_Remove, 6, 7, 8, 9, 10}
ThreadStubs == {11, 12, 14, 15}
ConsoleStubs == {SC_PrintString, SC_ReadString, SC_ReadNum, SC_PrintNum}
SemaphoreStubs == {60, 61, 62}
Stubs == BasicStubs \cup ProcessStubs \cup FileStubs \cup ThreadStubs \cup ConsoleStubs
         \cup SemaphoreStubs

(* ExceptionHandler has no case for some; what others do is in Files,      *)
(* STable and Processes                                                    *)
NoCase == ThreadStubs \cup {SC_Remove, SC_ExecV}
FileCalls == FileStubs \ NoCase
Elsewhere == FileCalls \cup SemaphoreStubs \cup {SC_Exec, SC_Join}

(* The program converted on one host and loaded on another.  The first     *)
(* program finds all frames free and is loaded twice, by main.             *)
Image(load, elsewhere, big) ==
  LET noff == Coff2noff(load.coff, elsewhere)
      exe == ReadHeader(noff.file, big)
      frames == Frames(load.used, numPages(exe.noff))
      new == LoadedMemory(Before, exe, frames)
  IN  IF noff.failed \/ exe.failed THEN [failed |-> TRUE]
      ELSE [failed |-> FALSE, noff |-> exe.noff, frames |-> frames,
            sections |-> load.coff.sections,
            memory |-> IF load.used = {} THEN LoadFirst(new, exe) ELSE new]

(* AddrSpace::InitRegisters has run, and the program has set some          *)
(* registers since.  The read-only data of the first program is to fit     *)
(* into the pages it has without them: the page table has no others.       *)
UInit ==
  /\ \E load \in Loads, elsewhere, big, build \in BOOLEAN :
       /\ big \in load.hosts /\ CheckEndian(big, build)
       /\ \E image \in {Image(load, elsewhere, big)} :
          /\ ~image.failed
          /\ load.used = {} => LoadPages(image.noff) = numPages(image.noff)
          /\ \E start \in load.programs :
             /\ space = image @@ [r |-> start.r]
             /\ text = start.text
             /\ cpu = [r |-> start.r, nextPC |-> 4, mem |-> image.memory, out |-> <<>>,
                       pageTable |-> [vpn \in DOMAIN image.frames |->
                         [physicalPage |-> image.frames[vpn], valid |-> TRUE,
                          use |-> FALSE, dirty |-> FALSE, readOnly |-> FALSE]]]
                      @@ NewMachine(big, build)
  /\ arch = cpu
  /\ typed = <<>>
  /\ careful = TRUE

-----------------------------------------------------------------------------
(* increasePC: the instruction after the call, whatever NextPCReg held     *)
increasePC(s) ==
  [s EXCEPT !.pc = Trunc(@ + 4), !.nextPC = Trunc(s.pc + 8), !.exception = "none"]

Result(s, value) == increasePC([s EXCEPT !.r[2] = value])
PutChars(s, chars) == increasePC([s EXCEPT !.out = @ \o chars])

(* A fault inside a copy halts the machine where it is                     *)
Halted(s) == s.exception \notin {"none", "Syscall"}

(* User2System: bytes up to a 0 or to the limit                            *)
User2System(s, virtAddr, limit) ==
  LET copy[n \in 0 .. limit] ==
        IF n = 0 THEN [s |-> s, buf |-> <<>>, more |-> TRUE]
        ELSE LET p == copy[n - 1]
                 addr == Trunc(virtAddr + n - 1)
                 t == ReadMem(p.s, addr, 1)
                 more == ~Halted(t) /\ MemValue(t, addr, 1) # 0
             IN  IF ~p.more THEN p
                 ELSE [s |-> t, more |-> more,
                       buf |-> IF more THEN Append(p.buf, MemValue(t, addr, 1))
                                       ELSE p.buf]
  IN  copy[limit]

(* Mutant: the address is translated once, for the first character         *)
System2UserOnePage(s, virtAddr, buffer) ==
  [s EXCEPT !.mem = [a \in DOMAIN @ |->
     IF a \in PhysAddr(s, virtAddr) .. PhysAddr(s, virtAddr) + Len(buffer) - 1
     THEN buffer[a - PhysAddr(s, virtAddr) + 1] ELSE @[a]]]

(* System2User: the characters up to the first 0, and that one             *)
System2User(s, virtAddr, buffer) ==
  LET copy[n \in 0 .. Len(buffer)] ==
        IF n = 0 THEN s
        ELSE LET t == copy[n - 1] IN
             IF Halted(t) \/ 0 \in {buffer[k] : k \in 1 .. n - 1} THEN t
             ELSE WriteMem(t, Trunc(virtAddr + n - 1), 1, buffer[n])
  IN  copy[Len(buffer)]

(* SC_PrintString: the string and its 0                                    *)
PrintString(s) ==
  LET p == User2System(s, s.r[4], MaxString) IN
  IF Halted(p.s) THEN p.s ELSE PutChars(p.s, Append(p.buf, 0))

(* SC_ReadString.  strName has r5 bytes: a negative r5 ends the host       *)
(* program, a line that is not shorter overruns it, which the host may or  *)
(* may not survive.                                                        *)
ReadString(s, line, survives) ==
  LET t == System2User(s, s.r[4], line) IN
  IF Negative(s.r[5]) \/ (Len(line) >= s.r[5] /\ ~survives)
  THEN [s EXCEPT !.exception = "HostTrap"]
  ELSE IF Halted(t) THEN t ELSE increasePC(t)

(* SC_ReadChar: the only character of the line, 0 if it has several, and   *)
(* the NewLine itself if it has none                                       *)
ReadChar(line) ==
  CASE Len(line) = 0 -> NewLine
    [] Len(line) = 1 -> SignExtend(line[1], 1)
    [] OTHER -> 0

(* SC_Add, SC_RandomNum and SC_PrintChar                                   *)
Add(s) == Result(s, Trunc(s.r[4] + s.r[5]))
RandomNum(s, random) == Result(s, random)
PrintChar(s) == PutChars(s, <<Low(s.r[4], 1)>>)

(* The part of ExceptionHandler for SyscallException.  An unknown call     *)
(* reaches ASSERTNOTREACHED, and so do some of the calls on files; the     *)
(* thread of a program that exits never comes back.                        *)
SystemCall(s, line, random, survives) ==
  LET type == s.r[2] IN
  CASE type = SC_Halt -> [s EXCEPT !.exception = "Halt"]
    [] type = SC_Exit -> [s EXCEPT !.exception = "Exit"]
    [] type \in Elsewhere /\ survives -> Result(s, random)
    [] type = SC_Add -> Add(s)
    [] type = SC_ReadNum -> Result(s, ReadNum(Append(line, NewLine)))
    [] type = SC_RandomNum -> RandomNum(s, random)
    [] type = SC_ReadChar -> Result(s, ReadChar(line))
    [] type = SC_PrintChar -> PrintChar(s)
    [] type = SC_PrintNum -> PutChars(s, PrintNum(s.r[4]))
    [] type = SC_ReadString -> ReadString(s, line, survives)
    [] type = SC_PrintString -> PrintString(s)
    [] OTHER -> [s EXCEPT !.exception = "NotReached"]

-----------------------------------------------------------------------------
(* The assembler: the words of instructions, by the numbers the processor  *)
(* has for them                                                            *)
Instr(op, rs, rt, rd, extra) ==
  [op |-> op, rs |-> rs, rt |-> rt, rd |-> rd, extra |-> extra]

Primary ==
  [J |-> 2, JAL |-> 3, BEQ |-> 4, BNE |-> 5, BLEZ |-> 6, BGTZ |-> 7, ADDI |-> 8,
   ADDIU |-> 9, SLTI |-> 10, SLTIU |-> 11, ANDI |-> 12, ORI |-> 13, XORI |-> 14,
   LUI |-> 15, UNIMP |-> 16, LB |-> 32, LH |-> 33, LWL |-> 34, LW |-> 35, LBU |-> 36,
   LHU |-> 37, LWR |-> 38, SB |-> 40, SH |-> 41, SWL |-> 42, SW |-> 43, SWR |-> 46,
   RES |-> 47]
Condition == [BLTZ |-> 0, BGEZ |-> 1, BLTZAL |-> 16, BGEZAL |-> 17]
Funct ==
  [SLL |-> 0, SRL |-> 2, SRA |-> 3, SLLV |-> 4, SRLV |-> 6, SRAV |-> 7, JR |-> 8,
   JALR |-> 9, SYSCALL |-> 12, MFHI |-> 16, MTHI |-> 17, MFLO |-> 18, MTLO |-> 19,
   MULT |-> 24, MULTU |-> 25, DIV |-> 26, DIVU |-> 27, ADD |-> 32, ADDU |-> 33,
   SUB |-> 34, SUBU |-> 35, AND |-> 36, OR |-> 37, XOR |-> 38, NOR |-> 39,
   SLT |-> 42, SLTU |-> 43]

Assembled(i) ==
  LET Hi(op, rs, rt) == op * 2^10 + rs * 2^5 + rt IN
  IF i.op \in DOMAIN Funct
  THEN [hi |-> Hi(0, i.rs, i.rt), lo |-> i.rd * 2^11 + i.extra * 2^6 + Funct[i.op]]
  ELSE IF i.op \in {"J", "JAL"}
  THEN [hi |-> Primary[i.op] * 2^10 + i.extra \div 2^16, lo |-> i.extra % 2^16]
  ELSE [hi |-> IF i.op \in DOMAIN Condition THEN Hi(1, i.rs, Condition[i.op])
               ELSE Hi(Primary[i.op], i.rs, i.rt),
        lo |-> i.extra % Half]

(* test/start.S: the stub of a system call, and __start, which calls main  *)
(* and then Exit.  Here main is one stub.  The assembler fills the delay   *)
(* slots.                                                                  *)
Nop == Instr("SLL", 0, 0, 0, 0)
Stub(code) ==
  <<Instr("ADDIU", 0, 2, 0, code), Instr("SYSCALL", 0, 0, 0, 0),
    Instr("JR", R31, 0, 0, 0), Nop>>
Start(code) ==
  <<Instr("JAL", 0, 0, 0, 5), Nop, Instr("ADDU", 0, 0, 4, 0),
    Instr("JAL", 0, 0, 0, 9), Nop>> \o Stub(code) \o Stub(SC_Exit)

-----------------------------------------------------------------------------
Settled(s) == DelayedLoad(s, 0, 0)

TextAddresses == 0 .. 4 * Len(text) - 1
TextKept == \A a \in TextAddresses :
              cpu.mem[PhysAddr(cpu, a)] = space.memory[PhysAddr(cpu, a)]
At == text[(cpu.pc \div 4) + 1]

(* What a compiler sees to: the instruction after a load leaves the        *)
(* register alone, and no system call stands in the delay slot of a branch *)
Uses(i) ==
  CASE i.op \in LoadOps -> {i.rs}
    [] i.op = "SYSCALL" -> {}
    [] i.op \in {"BGEZAL", "BLTZAL", "JAL"} -> {i.rs, i.rt, R31}
    [] OTHER -> {i.rs, i.rt, i.rd}
Careful(s, i) ==
  /\ s.loadReg # 0 => s.loadReg \notin Uses(i)
  /\ i.op = "SYSCALL" => s.nextPC = s.pc + 4

Step(s, i, line, random, survives) ==
  LET t == OneInstruction(s, i) IN
  IF t.exception = "Syscall" THEN SystemCall(t, line, random, survives) ELSE t

(* One turn of Machine::Run, up to OneTick, on the word at the program     *)
(* counter; `arch' is given the instruction itself.  Every other exception *)
(* halts the machine.                                                      *)
Run ==
  /\ cpu.exception = "none"
  /\ cpu.pc \in TextAddresses /\ cpu.pc % 4 = 0
  /\ TextKept
  /\ LET type == IF At.op = "SYSCALL" THEN Settled(cpu).r[2] ELSE SC_Halt IN
     \E line \in IF type \in Reading THEN Lines ELSE {typed},
        random \in CASE type = SC_RandomNum -> Randoms
                     [] type \in Elsewhere -> Randoms \cup {2^W - 1}
                     [] OTHER -> {0},
        survives \in IF type \in FileCalls \cup {SC_ReadString} THEN BOOLEAN ELSE {TRUE} :
       /\ cpu' = Step(cpu, Decode(Assembled(At)), line, random, survives)
       /\ careful' = (careful /\ Careful(cpu, At))
       /\ arch' = IF careful' THEN Settled(Step(arch, At, line, random, survives))
                  ELSE arch
       /\ typed' = line
  /\ UNCHANGED <<text, space>>

(* Mutant: a load in progress is dropped                                   *)
InterruptDropsLoad ==
  /\ cpu.exception = "none" /\ cpu.loadReg # 0
  /\ cpu' = [cpu EXCEPT !.loadReg = 0, !.loadValue = 0]
  /\ UNCHANGED <<text, space, arch, typed, careful>>

(* An interrupt between two instructions: Interrupt::CheckIfDue ends the   *)
(* load in progress, also when the handler then yields to another thread   *)
Interrupt ==
  /\ cpu.exception = "none" /\ cpu.loadReg # 0
  /\ cpu' = Settled(cpu)
  /\ UNCHANGED <<text, space, arch, typed, careful>>

UNext == Run \/ Interrupt
USpec == UInit /\ [][UNext]_vars

-----------------------------------------------------------------------------
(* Registers, memory and page table keep their types, register 0 is 0      *)
(* between instructions whatever was written to it (mipssim.cc:718), and   *)
(* the program counters stay on instructions or are a fault to come.       *)
UTypeOK ==
  /\ cpu.r \in [Registers -> Word] /\ cpu.r[0] = 0
  /\ {cpu.hi, cpu.lo, cpu.pc, cpu.nextPC, cpu.loadValue} \subseteq Word
  /\ cpu.loadReg \in Registers
  /\ cpu.mem \in [0 .. MemorySize - 1 -> Byte]
  /\ \A vpn \in DOMAIN space.frames :
       cpu.pageTable[vpn].physicalPage = space.frames[vpn]
  /\ careful \in BOOLEAN

(* A program that keeps to the rules of the compiler cannot tell when its  *)
(* loads are done: interrupts between any two instructions, exceptions and *)
(* system calls leave it in the state of a machine without load delays,    *)
(* with the branch in progress kept (mipssim.cc:695, interrupt.cc:310,     *)
(* machine.cc:106, exception.cc:68-73).  Every word is decoded into the    *)
(* instruction the assembler made it from (mipssim.cc:726), and into one   *)
(* that OneInstruction has a case for if no instruction has that word.     *)
AllDecoded ==
  \A op, x \in 0 .. 63 :
    Decode([hi |-> op * 2^10 + (x % 2^5), lo |-> x]).op \in OpCodes
Transparent == UTypeOK /\ AllDecoded /\ (careful => Settled(cpu) = arch)

(* The sections of the object file are where the linker put them, and no   *)
(* byte outside the frames of the program has changed since before it was  *)
(* loaded, as long as the pages are not dirty: across coff2noff, the       *)
(* loader, every store and every system call.  With initialised data this  *)
(* needs frames in a row, because its loop adds the address of the segment *)
(* to that of each frame (addrspace.cc:121-137, translate.cc:244-247).     *)
(* A file that coff2noff made on a host of either byte order is accepted   *)
(* on one of either, with the segments it was made with (coff2noff.c:294,  *)
(* addrspace.cc:77).                                                       *)
HeadersAgree ==
  \A load \in Loads, elsewhere, big \in BOOLEAN :
    LET noff == Coff2noff(load.coff, elsewhere)
        exe == ReadHeader(noff.file, big)
    IN  ~noff.failed => ~exe.failed /\ exe.noff = noff.noff

(* The address space translates every address as the machine does          *)
(* (addrspace.cc:324, translate.cc:185).                                   *)
TranslationsAgree ==
  \A vpn \in 0 .. NumPhysPages, writing \in BOOLEAN :
    LET addr == vpn * PageSize + (vpn % PageSize)
        t == SpaceTranslate(cpu, addr, writing)
        which == Translate(cpu, addr, 1, writing)
    IN  /\ t.exception = which
        /\ which = "none" => /\ t.paddr = PhysAddr(cpu, addr)
                             /\ t.pageTable = Touch(cpu, addr, writing).pageTable
InARow == \A vpn \in DOMAIN space.frames : space.frames[vpn] = space.frames[0] + vpn
OwnFrames == {space.frames[vpn] : vpn \in DOMAIN space.frames}
Clean(a) == ~cpu.pageTable[a \div PageSize].dirty
LoadedRight ==
  /\ HeadersAgree
  /\ TranslationsAgree
  /\ InARow \/ space.noff["data"].size = 0 =>
       /\ \A n \in DOMAIN space.sections :
            LET s == space.sections[n] IN
            s.name # "bss" => \A k \in 1 .. s.size :
              Clean(s.paddr + k - 1) =>
                cpu.mem[PhysAddr(cpu, s.paddr + k - 1)] = s.bytes[k]
       /\ \A a \in DOMAIN Before : (a \div PageSize) \notin OwnFrames =>
            cpu.mem[a] = Before[a]

Ran == cpu' # cpu /\ cpu' # Settled(cpu)

(* MULT and MULTU leave the exact double-length product in HI and LO, for  *)
(* negative and for large unsigned operands too (mipssim.cc:772-829).      *)
ProductRight ==
  [][Ran /\ At.op \in {"MULT", "MULTU"} =>
       LET a == cpu.r[At.rs]
           b == cpu.r[At.rt]
       IN  cpu'.hi * 2^W + cpu'.lo =
             (IF At.op = "MULT" THEN Signed(a) * Signed(b) ELSE a * b) % 2^(2 * W)]_vars

(* ADD, ADDI and SUB trap exactly when the result has no W bits, and then  *)
(* change no register; otherwise the result is exact (mipssim.cc:158-176,  *)
(* 533-541).                                                               *)
OverflowRight ==
  [][Ran /\ At.op \in TrapOps =>
       LET a == Signed(cpu.r[At.rs])
           b == Signed(IF At.op = "ADDI" THEN At.extra ELSE cpu.r[At.rt])
           exact == IF At.op = "SUB" THEN a - b ELSE a + b
           rd == IF At.op = "ADDI" THEN At.rt ELSE At.rd
       IN  IF exact \in -SIGN_BIT .. SIGN_BIT - 1
           THEN rd \notin {0, cpu.loadReg} => Signed(cpu'.r[rd]) = exact
           ELSE cpu'.exception = "Overflow" /\ cpu'.r = Settled(cpu).r]_vars

(* LWL and LWR in either order load, and SWL and SWR store, a word that    *)
(* need not be aligned, with an interrupt between the two or not, and the  *)
(* stores change no other byte (mipssim.cc:313-419, 553-669).              *)
PairOf(left, right) ==
  {<<l, r>> \in (1 .. Len(text)) \X (1 .. Len(text)) :
     text[l].op = left /\ text[r].op = right /\ text[l].rs = text[r].rs
     /\ text[l].rt = text[r].rt /\ text[l].extra = text[r].extra + 3}
Unaligned(value, addr) ==
  \A k \in 0 .. 3 :
    (value \div 2^(ByteBits * k)) % 2^ByteBits = cpu.mem[PhysAddr(cpu, addr + k)]
UnalignedRight ==
  cpu.pc = 8 /\ Len(text) = 2 /\ cpu.exception = "none" =>
    /\ \A p \in PairOf("LWL", "LWR") :
         Unaligned(Settled(cpu).r[text[p[2]].rt], cpu.r[text[p[2]].rs] + text[p[2]].extra)
    /\ \A p \in PairOf("SWL", "SWR") :
         LET addr == cpu.r[text[p[2]].rs] + text[p[2]].extra IN
         /\ Unaligned(cpu.r[text[p[2]].rt], addr)
         /\ \A a \in DOMAIN Before \ {PhysAddr(cpu, addr + k) : k \in 0 .. 3} :
              cpu.mem[a] = space.memory[a]

(* ReadNum returns the number that the line says, if it says one that an   *)
(* int other than the smallest holds, and 0 if not, for every line whose   *)
(* number a long long holds (exception.cc:204-306).                        *)
NumberRead ==
  [][Ran /\ At.op = "SYSCALL" /\ Settled(cpu).r[2] = SC_ReadNum =>
       LET said == Said(Append(typed', NewLine)) IN
       (\A n \in said : n = LongLong(n)) =>
         Signed(cpu'.r[2]) = IF said \cap INT_MIN .. INT_MAX = {} THEN 0
                             ELSE CHOOSE n \in said : TRUE]_vars

(* What PrintNum prints is what ReadNum reads back as the same number, for *)
(* every int that has a negation (exception.cc:332).                       *)
NumberPrinted ==
  [][Ran /\ At.op = "SYSCALL" /\ Settled(cpu).r[2] = SC_PrintNum =>
       LET n == Settled(cpu).r[4]
           printed == SubSeq(cpu'.out, Len(cpu.out) + 1, Len(cpu'.out))
       IN  n # SIGN_BIT => ReadNum(Append(printed, NewLine)) = n]_vars

(* The part of a buffer that C takes for a string                          *)
CString(s) ==
  LET end == SelectInSeq(s, LAMBDA c : c = 0)
  IN  IF end = 0 THEN s ELSE SubSeq(s, 1, end - 1)

(* ReadString and PrintString of the buffer at r4                          *)
EchoText ==
  [k \in 1 .. 4 |->
     [op |-> IF k % 2 = 1 THEN "ADDIU" ELSE "SYSCALL", rs |-> 0, rd |-> 0,
      rt |-> IF k % 2 = 1 THEN 2 ELSE 0,
      extra |-> CASE k = 1 -> SC_ReadString [] k = 3 -> SC_PrintString [] OTHER -> 0]]

(* PrintString after ReadString on the same buffer shows the string that   *)
(* was typed, first of all, and nothing else if the string ends where the  *)
(* line does: with a 0 that was typed, or one that the program has put     *)
(* there before.  ReadString writes none behind the line, and of what is   *)
(* shown after it then nothing is said (exception.cc:371-423).  Pages of   *)
(* the buffer need not be neighbours.                                      *)
Echo ==
  text = EchoText /\ cpu.pc = 16 /\ cpu.exception = "none" =>
    LET string == CString(typed)
        behind == PhysAddr(cpu, cpu.r[4] + Len(typed))
    IN  Len(typed) < MaxString =>
          /\ IsPrefix(string, cpu.out)
          /\ string # typed \/ space.memory[behind] = 0 =>
               cpu.out \in {string, Append(string, 0)}

(* A system call made through its stub comes back behind the call of the   *)
(* stub with every register but the result as it was, and if main returns  *)
(* the program exits with status 0 (start.S:26-29, exception.cc:68).       *)
StubsReturn ==
  \A code \in 0 .. 62 : text = Start(code) =>
    /\ cpu.pc = 8 /\ ~Failed(cpu) =>
         \A k \in Registers \ {2, R31} : cpu.r[k] = space.r[k]
    /\ cpu.exception = "Halt" => code = SC_Halt
    /\ cpu.exception = "Exit" => code = SC_Exit \/ cpu.r[4] = 0
    /\ cpu.exception = "NotReached" => code \in NoCase \cup FileCalls
    /\ ~Failed(cpu) => cpu.pc \in TextAddresses

(* A system call does to the memory and the registers what a C program     *)
(* that calls it expects, within what Echo and StubsReturn are stated of.  *)
CallsRight == Echo /\ StubsReturn

(* The instructions that compute in several steps give exact results.      *)
ArithmeticRight == ProductRight /\ OverflowRight

(* Numbers are read and printed as they are written.                       *)
NumbersRight == NumberRead /\ NumberPrinted
=============================================================================
