----------------------------- MODULE MCUserMode -----------------------------
(* Twelve-bit words of three-bit bytes, numbers in base three.             *)
EXTENDS UserMode

MCBefore == [a \in 0 .. 71 |-> (5 * a + (a \div 8) + 1) % 8]

(* Sections as the linker lays them out, one after the other               *)
Section(name, paddr, size) ==
  [name |-> name, paddr |-> paddr, size |-> size,
   bytes |-> [k \in 1 .. size |-> (3 * k + paddr) % 8]]
Prog(t, r) == [text |-> t, r |-> r]

Operands == {0, 1, 2, 3, 5, 729, 1365, 2047, 2048, 2049, 2730, 4000, 4094, 4095}
Immediates == {0, 1, 31, 4064, 4095}

R(f) == [k \in 0 .. 7 |-> IF k \in DOMAIN f THEN f[k] ELSE 0]
I(op, rs, rt, rd, extra) == Instr(op, rs, rt, rd, extra)

Shifts == {"SLL", "SRA", "SRL"}
Single ==
  {Prog(<<I(op, 4, 5, 6, 0)>>, R((4 :> a) @@ (5 :> b))) :
     op \in (RdOps \ Shifts) \cup HiLoOps \cup BranchOps \cup {"ADD", "SUB", "RES", "UNIMP"},
     a \in Operands, b \in Operands}
  \cup {Prog(<<I(op, 4, 6, 6, x)>>, R(4 :> a)) :
          op \in RtOps \cup {"ADDI"}, a \in Operands, x \in Immediates}
  \cup {Prog(<<I(op, 0, 5, 6, x)>>, R(5 :> a)) :
          op \in Shifts, a \in Operands, x \in {0, 1, 11}}

(* Loads and stores at every address of the data pages and beyond          *)
Moves ==
  {Prog(<<I(op, 4, 5, 0, 0)>>, R((4 :> a) @@ (5 :> 2730))) :
     op \in LoadOps \cup StoreOps, a \in 16 .. 33}
  \cup {Prog(t, R((4 :> a) @@ (5 :> 1365))) : a \in 16 .. 28,
          t \in {<<I("LWL", 4, 5, 0, 3), I("LWR", 4, 5, 0, 0)>>,
                 <<I("LWR", 4, 5, 0, 0), I("LWL", 4, 5, 0, 3)>>,
                 <<I("SWL", 4, 5, 0, 3), I("SWR", 4, 5, 0, 0)>>,
                 <<I("SWR", 4, 5, 0, 0), I("SWL", 4, 5, 0, 3)>>}}

(* Every three instructions of these, with loads, branches and calls       *)
Mixed ==
  {Prog(<<i, j, k>>, R((2 :> SC_Add) @@ (4 :> 16) @@ (5 :> 6) @@ (7 :> 8))) :
     i, j, k \in {I("LW", 4, 5, 0, 0), I("LB", 4, 5, 0, 1), I("LWR", 4, 5, 0, 5),
                  I("LWL", 4, 5, 0, 8), I("ADDU", 5, 4, 6, 0), I("ADDIU", 6, 5, 0, 1),
                  I("LW", 4, 0, 0, 4), I("SW", 4, 5, 0, 4), I("BEQ", 0, 0, 0, 1), I("JAL", 0, 0, 0, 0),
                  I("JR", 7, 0, 0, 0), I("JALR", 7, 0, 6, 0), I("SYSCALL", 0, 0, 0, 0)}}

Calls ==
  {Prog(<<I("SYSCALL", 0, 0, 0, 0)>>, R((2 :> type) @@ (4 :> a) @@ (5 :> 1))) :
     type \in {SC_Halt, SC_Add, SC_ReadNum, SC_RandomNum, SC_ReadChar, SC_PrintChar,
               SC_PrintNum}, a \in Operands}
  \cup {Prog(EchoText, R((4 :> a) @@ (5 :> n))) :
          a \in {17, 21, 23, 30}, n \in {0, 4, 4095}}

(* A program with initialised data                                         *)
WithData ==
  {Prog(<<I(op, 4, 5, 0, 0)>>, R((4 :> a) @@ (5 :> 2730))) :
     op \in StoreOps, a \in 16 .. 33}

(* The first program: every stub of start.S, with the call it makes        *)
Started == {Prog(Start(code), R((4 :> 60) @@ (5 :> 4) @@ (6 :> 3))) : code \in Stubs}

(* Without initialised data the frames are apart, with it in a row         *)
Coff(sections) == [f_magic |-> MIPSELMAGIC, magic |-> OMAGIC, sections |-> sections]
Apart == Coff(<<Section("text", 0, 16), Section("rdata", 16, 3), Section("bss", 19, 6)>>)
MCLoads ==
  {[used |-> {0, 4}, hosts |-> {FALSE}, programs |-> Single \cup Mixed \cup Calls,
    coff |-> Apart],
   [used |-> {0, 4}, hosts |-> BOOLEAN, programs |-> Moves, coff |-> Apart],
   [used |-> {0}, hosts |-> BOOLEAN, programs |-> WithData,
    coff |-> Coff(<<Section("text", 0, 13), Section("rdata", 13, 4), Section("data", 17, 7),
                    Section("bss", 24, 2)>>)],
   [used |-> {}, hosts |-> {FALSE}, programs |-> Started,
    coff |-> Coff(<<Section("text", 0, 52), Section("rdata", 52, 2), Section("data", 54, 3),
                    Section("bss", 57, 3)>>)]}

(* Short lines of two digits, blank, sign and another character, one with  *)
(* a 0, and the numbers on both sides of the limits of int and long long   *)
Limit == <<3, 3, 2, 1, 3, 2>>
MCLines ==
  (UNION {[1 .. n -> {1, 3, 5, 6, 7}] : n \in 0 .. 3})
  \cup {<<3, 0, 7>>, <<5, 6, 3, 5, 5>>, <<3, 5, 5, 3>>}
  \cup {Limit \o <<2>>, Limit \o <<3>>, <<6>> \o Limit \o <<2>>, <<6>> \o Limit \o <<3>>}
  \cup {[k \in 1 .. 14 |-> 3], [k \in 1 .. 16 |-> 2]}
=============================================================================
