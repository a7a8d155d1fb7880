------------------------------- MODULE Machine -------------------------------
(***************************************************************************)
(* The simulated MIPS processor: one instruction (machine/mipssim.cc), the *)
(* memory behind a page table (machine/translate.cc) and exceptions        *)
(* (machine/machine.cc).  A processor state is a record, so that the same  *)
(* instruction can be run on the machine and on the one it is compared     *)
(* with.  Instruction words keep their 32 bits whatever W is; programs do  *)
(* not write over their own text.  The build has SIM_FIX and no USE_TLB.   *)
(***************************************************************************)
EXTENDS Numbers, FiniteSets, FiniteSetsExt, Bitwise

CONSTANTS
  R31,            (* the last register: 31                                 *)
  ImmBits,        (* bits of an immediate operand: 16 of the 32            *)
  PageSize, NumPhysPages

Half == 2^ImmBits
Registers == 0 .. R31
MemorySize == NumPhysPages * PageSize
Byte == 0 .. 2^ByteBits - 1

(* Machine::DelayedLoad                                                    *)
DelayedLoad(s, nextReg, nextValue) ==
  [s EXCEPT !.r = [@ EXCEPT ![s.loadReg] = s.loadValue, ![0] = 0],
            !.loadReg = nextReg, !.loadValue = nextValue]

(* Machine::RaiseException, up to the handler                              *)
RaiseException(s, which) ==
  [DelayedLoad(s, 0, 0) EXCEPT !.exception = which]

-----------------------------------------------------------------------------
(* Machine::Translate: the exception, if any ...                           *)
Translate(s, addr, size, writing) ==
  LET vpn == addr \div PageSize IN
  IF addr % size # 0 THEN "AddressError"
  ELSE IF vpn \notin DOMAIN s.pageTable THEN "AddressError"
  ELSE IF ~s.pageTable[vpn].valid THEN "PageFault"
  ELSE IF s.pageTable[vpn].readOnly /\ writing THEN "ReadOnly"
  ELSE IF s.pageTable[vpn].physicalPage >= NumPhysPages THEN "BusError"
  ELSE "none"

(* ... the use and dirty bits it sets ...                                  *)
Touch(s, addr, writing) ==
  [s EXCEPT !.pageTable[addr \div PageSize].use = TRUE,
            !.pageTable[addr \div PageSize].dirty = @ \/ writing]

(* ... and the physical address                                            *)
PhysAddr(s, addr) ==
  s.pageTable[addr \div PageSize].physicalPage * PageSize + (addr % PageSize)

(* The number a host of either byte order reads from n bytes, and the      *)
(* bytes it writes                                                         *)
HostReads(bytes, big) ==
  LET n == Len(bytes) IN
  MapThenSumSet(LAMBDA k : bytes[k] * 2^(ByteBits * (IF big THEN n - k ELSE k - 1)), 1 .. n)
HostWrites(value, n, big) ==
  [k \in 1 .. n |-> (value \div 2^(ByteBits * (IF big THEN n - k ELSE k - 1))) % 2^ByteBits]

(* WordToHost and ShortToHost, as they were compiled: the n bytes of a     *)
(* number in the opposite order, or as they are.  WordToMachine and        *)
(* ShortToMachine are the same.                                            *)
WordToHost(value, n, HOST_IS_BIG_ENDIAN) ==
  IF HOST_IS_BIG_ENDIAN
  THEN MapThenSumSet(LAMBDA k : ((value \div 2^(ByteBits * k)) % 2^ByteBits)
                                  * 2^(ByteBits * (n - 1 - k)), 0 .. n - 1)
  ELSE value

(* CheckEndian: the byte order of the build is that of the host            *)
CheckEndian(big, HOST_IS_BIG_ENDIAN) ==
  LET intword == HostReads(<<1, 2, 3, 4>>, big) IN
  IF HOST_IS_BIG_ENDIAN THEN intword = HostReads(<<4, 3, 2, 1>>, FALSE)
                        ELSE intword = HostReads(<<1, 2, 3, 4>>, FALSE)

(* Machine::Machine                                                        *)
NewMachine(big, HOST_IS_BIG_ENDIAN) ==
  [r |-> [k \in Registers |-> 0], hi |-> 0, lo |-> 0, pc |-> 0, nextPC |-> 0,
   loadReg |-> 0, loadValue |-> 0, mem |-> [a \in 0 .. MemorySize - 1 |-> 0],
   pageTable |-> <<>>, exception |-> "none", big |-> big, swaps |-> HOST_IS_BIG_ENDIAN]

(* Machine::ReadMem: the value it finds ...                                *)
MemValue(s, addr, size) ==
  LET at == PhysAddr(s, addr)
      data == [k \in 1 .. size |-> s.mem[at + k - 1]]
  IN  WordToHost(HostReads(data, s.big), size, s.swaps)

(* ... or an exception, by which it returns FALSE                          *)
ReadMem(s, addr, size) ==
  LET which == Translate(s, addr, size, FALSE) IN
  IF which # "none" THEN RaiseException(s, which) ELSE Touch(s, addr, FALSE)

(* Machine::WriteMem                                                       *)
WriteMem(s, addr, size, value) ==
  LET which == Translate(s, addr, size, TRUE)
      at == PhysAddr(s, addr)
      low == value % 2^(ByteBits * size)
      data == HostWrites(WordToHost(low, size, s.swaps), size, s.big)
  IN  IF which # "none" THEN RaiseException(s, which)
      ELSE [Touch(s, addr, TRUE) EXCEPT
             !.mem = [a \in DOMAIN @ |->
                        IF a \in at .. at + size - 1 THEN data[a - at + 1] ELSE @[a]]]

(* An access failed: the rest of the instruction is left out               *)
Failed(s) == s.exception # "none"

-----------------------------------------------------------------------------
(* The double-length product of Mult: it adds b, shifted, for every bit of *)
(* a; a is shifted as a signed number                                      *)
ShiftRight(w, n) == Trunc(Signed(w) \div 2^n)
ShiftLeft(w, n) == Trunc(w * 2^n)
Complement(w) == 2^W - 1 - w

(* Mutant: the carry out of the low word is lost                           *)
MultStepNoCarry(p) ==
  LET odd == p.a % 2 = 1
      lo == IF odd THEN Trunc(p.lo + p.bLo) ELSE p.lo
      hi == IF odd THEN Trunc(p.hi + p.bHi) ELSE p.hi
  IN  IF p.done THEN p
      ELSE [lo |-> lo, hi |-> hi, done |-> odd /\ p.a = 1,
            bHi |-> ShiftLeft(p.bHi, 1) + (p.bLo \div SIGN_BIT),
            bLo |-> ShiftLeft(p.bLo, 1), a |-> ShiftRight(p.a, 1)]

MultStep(p) ==
  LET odd == p.a % 2 = 1
      lo == IF odd THEN Trunc(p.lo + p.bLo) ELSE p.lo
      carry == IF odd /\ lo < p.bLo THEN 1 ELSE 0
      hi == IF odd THEN Trunc(p.hi + carry + p.bHi) ELSE p.hi
  IN  IF p.done THEN p
      ELSE [lo |-> lo, hi |-> hi, done |-> odd /\ p.a = 1,
            bHi |-> ShiftLeft(p.bHi, 1) + (p.bLo \div SIGN_BIT),
            bLo |-> ShiftLeft(p.bLo, 1), a |-> ShiftRight(p.a, 1)]

Mult(a, b, signed) ==
  LET Positive(w) == IF signed /\ Negative(w) THEN Trunc(-w) ELSE w
      loop[i \in 0 .. W] ==
        IF i = 0 THEN [lo |-> 0, hi |-> 0, done |-> FALSE, bHi |-> 0,
                       bLo |-> Positive(b), a |-> Positive(a)]
        ELSE MultStep(loop[i - 1])
      p == loop[W]
      lo == Trunc(Complement(p.lo) + 1)
  IN  IF a = 0 \/ b = 0 THEN <<0, 0>>
      ELSE IF signed /\ Negative(a) # Negative(b)
           THEN <<Trunc(Complement(p.hi) + (IF lo = 0 THEN 1 ELSE 0)), lo>>
           ELSE <<p.hi, p.lo>>

(* The division of C, which rounds towards zero: <<remainder, quotient>>   *)
Div(a, b, signed) ==
  LET m == IF signed THEN Signed(a) ELSE a
      n == IF signed THEN Signed(b) ELSE b
      Abs(x) == IF x < 0 THEN -x ELSE x
      q == (Abs(m) \div Abs(n)) * (IF (m < 0) # (n < 0) THEN -1 ELSE 1)
  IN  IF b = 0 THEN <<0, 0>> ELSE <<Trunc(m - q * n), Trunc(q)>>

-----------------------------------------------------------------------------
(* The end of Machine::OneInstruction: the load of the instruction before  *)
(* is done, its own is begun, and the program counters advance             *)
Finish(s, nextLoadReg, nextLoadValue, pcAfter) ==
  [DelayedLoad(s, nextLoadReg, nextLoadValue)
     EXCEPT !.pc = s.nextPC, !.nextPC = Trunc(pcAfter)]

Next4(s) == s.nextPC + 4
Put(s, reg, value) == Finish([s EXCEPT !.r[reg] = value], 0, 0, Next4(s))
PutHiLo(s, pair) == Finish([s EXCEPT !.hi = pair[1], !.lo = pair[2]], 0, 0, Next4(s))
Bool(b) == IF b THEN 1 ELSE 0

(* Instructions that put a value into rd: of registers a = rs, b = rt      *)
RdOps == {"ADDU", "AND", "MFHI", "MFLO", "NOR", "OR", "SLL", "SLLV", "SLT",
          "SLTU", "SRA", "SRAV", "SRL", "SRLV", "SUBU", "XOR"}
RdValue(s, i, a, b) ==
  CASE i.op = "ADDU" -> Trunc(a + b)
    [] i.op = "AND"  -> a & b
    [] i.op = "MFHI" -> s.hi
    [] i.op = "MFLO" -> s.lo
    [] i.op = "NOR"  -> Complement(a | b)
    [] i.op = "OR"   -> a | b
    [] i.op = "SLL"  -> ShiftLeft(b, i.extra)
    [] i.op = "SLLV" -> ShiftLeft(b, a % W)
    [] i.op = "SLT"  -> Bool(Signed(a) < Signed(b))
    [] i.op = "SLTU" -> Bool(a < b)
    [] i.op \in {"SRA", "SRL"}   -> ShiftRight(b, i.extra)
    [] i.op \in {"SRAV", "SRLV"} -> ShiftRight(b, a % W)
    [] i.op = "SUBU" -> Trunc(a - b)
    [] i.op = "XOR"  -> a ^^ b

(* Instructions that put a value into rt: of a and the immediate operand   *)
RtOps == {"ADDIU", "ANDI", "LUI", "ORI", "SLTI", "SLTIU", "XORI"}
RtValue(i, a) ==
  CASE i.op = "ADDIU" -> Trunc(a + i.extra)
    [] i.op = "ANDI"  -> a & (i.extra % Half)
    [] i.op = "LUI"   -> ShiftLeft(i.extra, W - ImmBits)
    [] i.op = "ORI"   -> a | (i.extra % Half)
    [] i.op = "SLTI"  -> Bool(Signed(a) < Signed(i.extra))
    [] i.op = "SLTIU" -> Bool(a < i.extra)
    [] i.op = "XORI"  -> a ^^ (i.extra % Half)

HiLoOps == {"DIV", "DIVU", "MTHI", "MTLO", "MULT", "MULTU"}
HiLoValue(s, i, a, b) ==
  CASE i.op \in {"DIV", "DIVU"}   -> Div(a, b, i.op = "DIV")
    [] i.op \in {"MULT", "MULTU"} -> Mult(a, b, i.op = "MULT")
    [] i.op = "MTHI" -> <<a, s.lo>>
    [] i.op = "MTLO" -> <<s.hi, a>>

(* The instructions that trap on overflow                                  *)
TrapOps == {"ADD", "ADDI", "SUB"}
SignsDiffer(a, b) == ((a ^^ b) & SIGN_BIT) # 0

Overflows(op, a, b, result) ==
  CASE op = "ADD"  -> ~SignsDiffer(a, b) /\ SignsDiffer(a, result)
    [] op = "ADDI" -> ~SignsDiffer(a, b) /\ SignsDiffer(b, result)
    [] op = "SUB"  -> SignsDiffer(a, b) /\ SignsDiffer(a, result)

Trapping(s, i, a, b) ==
  LET result == Trunc(IF i.op = "SUB" THEN a - b ELSE a + b) IN
  IF Overflows(i.op, a, b, result) THEN RaiseException(s, "Overflow")
  ELSE Put(s, IF i.op = "ADDI" THEN i.rt ELSE i.rd, result)

-----------------------------------------------------------------------------
(* Branches and jumps take effect after the instruction that follows them  *)
BranchOps == {"BEQ", "BGEZ", "BGEZAL", "BGTZ", "BLEZ", "BLTZ", "BLTZAL", "BNE"}
Taken(i, a, b) ==
  CASE i.op = "BEQ" -> a = b
    [] i.op = "BNE" -> a # b
    [] i.op \in {"BGEZ", "BGEZAL"} -> ~Negative(a)
    [] i.op \in {"BLTZ", "BLTZAL"} -> Negative(a)
    [] i.op = "BGTZ" -> Signed(a) > 0
    [] i.op = "BLEZ" -> Signed(a) <= 0

JumpOps == {"J", "JAL", "JALR", "JR"}
Segment == 2^(W - 4)

(* The register that is given the return address, if any, and where the    *)
(* instruction goes.  The link is written before rs is read.               *)
Link(s, i) ==
  CASE i.op \in {"BGEZAL", "BLTZAL", "JAL"} -> [s EXCEPT !.r[R31] = Trunc(Next4(s))]
    [] i.op = "JALR" -> [s EXCEPT !.r[i.rd] = Trunc(Next4(s))]
    [] OTHER -> s

Branch(s, i) ==
  LET t == Link(s, i) IN
  Finish(t, 0, 0,
    IF i.op \in {"JR", "JALR"} THEN t.r[i.rs]
    ELSE IF i.op \in {"J", "JAL"}
         THEN (Next4(s) - (Next4(s) % Segment)) + ((4 * i.extra) % Segment)
    ELSE IF Taken(i, t.r[i.rs], t.r[i.rt]) THEN s.nextPC + 4 * i.extra
    ELSE Next4(s))

-----------------------------------------------------------------------------
Low(value, bytes) == value % 2^(ByteBits * bytes)
High(value, bytes) == value - Low(value, 4 - bytes)
Up(value, bytes) == ShiftLeft(value, ByteBits * bytes)
Down(value, bytes) == value \div 2^(ByteBits * bytes)
SignExtend(value, bytes) ==
  IF value >= 2^(ByteBits * bytes - 1) THEN Trunc(value - 2^(ByteBits * bytes))
  ELSE value

LoadOps == {"LB", "LBU", "LH", "LHU", "LW", "LWL", "LWR"}
StoreOps == {"SB", "SH", "SW", "SWL", "SWR"}
SizeOf(op) == CASE op \in {"LB", "LBU", "SB"} -> 1
                [] op \in {"LH", "LHU", "SH"} -> 2
                [] OTHER -> 4

(* Mutant: the load in progress is overlooked                              *)
PartOfRegister(s, i) == s.r[i.rt]

(* LWL and LWR change part of rt: of the value being loaded into it, if    *)
(* there is one                                                            *)
PartOf(s, i) == IF s.loadReg = i.rt THEN s.loadValue ELSE s.r[i.rt]

Loaded(s, i, tmp, value) ==
  CASE i.op \in {"LBU", "LHU", "LW"} -> value
    [] i.op \in {"LB", "LH"} -> SignExtend(value, SizeOf(i.op))
    [] i.op = "LWL" -> Low(PartOf(s, i), 3 - (tmp % 4)) + Up(value, 3 - (tmp % 4))
    [] i.op = "LWR" -> High(PartOf(s, i), tmp % 4) + Down(value, tmp % 4)

(* LWL and LWR read the word their address is in                           *)
Load(s, i) ==
  LET tmp == Trunc(s.r[i.rs] + i.extra)
      at == IF i.op \in {"LWL", "LWR"} THEN tmp - (tmp % 4) ELSE tmp
      t == ReadMem(s, at, SizeOf(i.op))
  IN  IF Failed(t) THEN t
      ELSE Finish(t, i.rt, Loaded(s, i, tmp, MemValue(t, at, SizeOf(i.op))), Next4(t))

(* SWL and SWR read the word first ...                                     *)
Merged(op, rt, byte, value) ==
  IF op = "SWL" THEN High(value, 3 - byte) + Down(rt, 3 - byte)
  ELSE Low(value, byte) + Up(rt, byte)

(* ... and write all of it back                                            *)
Store(s, i) ==
  LET tmp == Trunc(s.r[i.rs] + i.extra)
      at == tmp - (tmp % 4)
      rt == s.r[i.rt]
      part == i.op \in {"SWL", "SWR"}
      t == IF part THEN ReadMem(s, at, 4) ELSE s
      u == IF part THEN WriteMem(t, at, 4, Merged(i.op, rt, tmp % 4, MemValue(t, at, 4)))
                   ELSE WriteMem(t, tmp, SizeOf(i.op), rt)
  IN  IF Failed(t) THEN t ELSE IF Failed(u) THEN u ELSE Finish(u, 0, 0, Next4(u))

-----------------------------------------------------------------------------
(* A system call, or what is no instruction                                *)
Trap(s, i) == RaiseException(s, IF i.op = "SYSCALL" THEN "Syscall" ELSE "IllegalInstr")

(* Machine::OneInstruction on the instruction i at s.pc.  The host traps   *)
(* when it divides the smallest int by -1.                                 *)
Execute(s, i) ==
  LET a == s.r[i.rs]
      b == s.r[i.rt]
  IN  CASE i.op \in RdOps -> Put(s, i.rd, RdValue(s, i, a, b))
        [] i.op \in RtOps -> Put(s, i.rt, RtValue(i, a))
        [] i.op \in TrapOps -> Trapping(s, i, a, IF i.op = "ADDI" THEN i.extra ELSE b)
        [] i.op = "DIV" /\ a = SIGN_BIT /\ b = 2^W - 1 ->
             [s EXCEPT !.exception = "HostTrap"]
        [] i.op \in HiLoOps /\ ~(i.op = "DIV" /\ a = SIGN_BIT /\ b = 2^W - 1) ->
             PutHiLo(s, HiLoValue(s, i, a, b))
        [] i.op \in BranchOps \cup JumpOps -> Branch(s, i)
        [] i.op \in LoadOps -> Load(s, i)
        [] i.op \in StoreOps -> Store(s, i)
        [] i.op \in {"SYSCALL", "RES", "UNIMP"} -> Trap(s, i)

-----------------------------------------------------------------------------
(* The tables of mipssim.h, by the first six bits of a word and by the     *)
(* last six of a SPECIAL one.  Entries they do not name are reserved.      *)
opTable ==
  [k \in {0} |-> "SPECIAL"] @@ [k \in {1} |-> "BCOND"]
  @@ [k \in 2 .. 15 |-> <<"J", "JAL", "BEQ", "BNE", "BLEZ", "BGTZ", "ADDI", "ADDIU",
                         "SLTI", "SLTIU", "ANDI", "ORI", "XORI", "LUI">>[k - 1]]
  @@ [k \in 16 .. 19 \cup 48 .. 51 \cup 56 .. 59 |-> "UNIMP"]
  @@ [k \in 32 .. 38 |-> <<"LB", "LH", "LWL", "LW", "LBU", "LHU", "LWR">>[k - 31]]
  @@ [k \in 40 .. 43 |-> <<"SB", "SH", "SWL", "SW">>[k - 39]]
  @@ [k \in {46} |-> "SWR"]
  @@ [k \in 0 .. 63 |-> "RES"]

specialTable ==
  [k \in 0 .. 9 |-> <<"SLL", "RES", "SRL", "SRA", "SLLV", "RES", "SRLV", "SRAV",
                     "JR", "JALR">>[k + 1]]
  @@ [k \in {12, 13} |-> IF k = 12 THEN "SYSCALL" ELSE "UNIMP"]
  @@ [k \in 16 .. 19 |-> <<"MFHI", "MTHI", "MFLO", "MTLO">>[k - 15]]
  @@ [k \in 24 .. 27 |-> <<"MULT", "MULTU", "DIV", "DIVU">>[k - 23]]
  @@ [k \in 32 .. 39 |-> <<"ADD", "ADDU", "SUB", "SUBU", "AND", "OR", "XOR", "NOR">>[k - 31]]
  @@ [k \in {42, 43} |-> IF k = 42 THEN "SLT" ELSE "SLTU"]
  @@ [k \in 0 .. 63 |-> "RES"]

(* The entries of both tables that Execute has a case for                  *)
OpCodes == RdOps \cup RtOps \cup HiLoOps \cup TrapOps \cup BranchOps \cup JumpOps
           \cup LoadOps \cup StoreOps \cup {"SYSCALL", "RES", "UNIMP"}

(* Conditional branches, by the field that is rt in other instructions     *)
BCOND(rt) ==
  CASE rt = 0 -> "BLTZ" [] rt = 1 -> "BGEZ" [] rt = 16 -> "BLTZAL"
    [] rt = 17 -> "BGEZAL" [] OTHER -> "UNIMP"

(* Mutant: the immediate operand is not sign-extended                      *)
ExtraUnsigned(entry, word) ==
  IF entry = "SPECIAL" THEN (word.lo \div 2^6) % 2^5
  ELSE IF entry \in {"J", "JAL"} THEN (word.hi % 2^10) * 2^16 + word.lo
  ELSE word.lo % Half

(* What the format of the instruction puts into extra: the shift amount,   *)
(* the target of a jump or the immediate operand with its sign             *)
Extra(entry, word) ==
  IF entry = "SPECIAL" THEN (word.lo \div 2^6) % 2^5
  ELSE IF entry \in {"J", "JAL"} THEN (word.hi % 2^10) * 2^16 + word.lo
  ELSE LET low == word.lo % Half IN
       Trunc(IF low >= Half \div 2 THEN low - Half ELSE low)

(* Instruction::Decode, on a word of two halves                            *)
Decode(word) ==
  LET entry == opTable[word.hi \div 2^10]
      rt == word.hi % 2^5
  IN  [rs |-> (word.hi \div 2^5) % 2^5, rt |-> rt, rd |-> word.lo \div 2^11,
       extra |-> Extra(entry, word),
       op |-> CASE entry = "SPECIAL" -> specialTable[word.lo % 2^6]
                [] entry = "BCOND" -> BCOND(rt)
                [] OTHER -> entry]

(* The instruction is fetched through the page table first                 *)
OneInstruction(s, i) ==
  LET t == ReadMem(s, s.pc, 4) IN IF Failed(t) THEN t ELSE Execute(t, i)
=============================================================================
