------------------------------- MODULE Hosts --------------------------------
(***************************************************************************)
(* What threads/switch.h and threads/switch.S say for each host: where in  *)
(* the Thread object a register is kept, which registers SWITCH stores and *)
(* loads, and what ThreadRoot does.  A Thread object is a row of words:    *)
(* word 0 is stackTop and word i + 1 is machineState[i].                   *)
(***************************************************************************)
EXTENDS Integers, Sequences, Functions, TLC

MachineStateSize == 75

(* The word of each name, for names at successive words from word 0 on     *)
WordsFrom0(names) ==
  [name \in Range(names) |-> Inverse(names, DOMAIN names, Range(names))[name] - 1]

(* The instructions of ThreadRoot.  A call by a register goes to the       *)
(* routine whose address is in it, an instruction in its delay slot comes  *)
(* first here.                                                             *)
Nop == [op |-> "nop"]
Move(to, from) == [op |-> "move", to |-> to, from |-> from]
Clear(to) == [op |-> "clear", to |-> to]
Fetch(to, base, word) == [op |-> "fetch", to |-> to, base |-> base, word |-> word]
Push(from) == [op |-> "push", from |-> from]
Ldgp(base) == [op |-> "ldgp", base |-> base]
Call(by) == [op |-> "call", by |-> by]

-----------------------------------------------------------------------------
(* DECMIPS                                                                 *)
MipsWord ==
  WordsFrom0(<<"SP", "S0", "S1", "S2", "S3", "S4", "S5", "S6", "S7", "FP", "PC">>)

MipsInitial ==
  [InitialPC |-> "s0", InitialArg |-> "s1", WhenDonePC |-> "s2", StartupPC |-> "s3"]

MipsState ==
  [PCState |-> MipsWord["PC"] - 1,
   InitialPCState |-> MipsWord["S0"] - 1, InitialArgState |-> MipsWord["S1"] - 1,
   WhenDonePCState |-> MipsWord["S2"] - 1, StartupPCState |-> MipsWord["S3"] - 1]

MipsThreadRoot ==
  <<Clear("fp"), Call(MipsInitial.StartupPC),
    Move("a0", MipsInitial.InitialArg), Call(MipsInitial.InitialPC),
    Call(MipsInitial.WhenDonePC)>>

MipsStores ==
  [sp |-> "SP", s0 |-> "S0", s1 |-> "S1", s2 |-> "S2", s3 |-> "S3", s4 |-> "S4",
   s5 |-> "S5", s6 |-> "S6", s7 |-> "S7", fp |-> "FP", ra |-> "PC"]

MipsLoads ==
  [sp |-> "SP", s0 |-> "S0", s1 |-> "S1", s2 |-> "S2", s3 |-> "S3", s4 |-> "S4",
   s5 |-> "S5", s6 |-> "S6", s7 |-> "S7", fp |-> "FP", ra |-> "PC"]

DECMIPS ==
  [word |-> MipsWord, state |-> MipsState, root |-> MipsThreadRoot, entry |-> 1,
   stores |-> MipsStores, loads |-> MipsLoads, sp |-> "sp", link |-> "ra", arg |-> "a0",
   saved |-> {"s0", "s1", "s2", "s3", "s4", "s5", "s6", "s7", "fp"}, window |-> {}]

-----------------------------------------------------------------------------
(* SPARC.  SWITCH takes a new register window: its in registers are the    *)
(* out registers of its caller, here called by the caller's names, and     *)
(* ST_FLUSH_WINDOWS leaves the caller's other window registers on the      *)
(* stack, from which restore gets those of the new thread.  ret returns    *)
(* past a call and its delay slot, or past two nops of ThreadRoot.         *)
SparcWord == WordsFrom0(<<"stackTop", "I0", "I1", "I2", "I3", "I4", "I5", "I6", "I7">>)

SparcInitial ==
  [InitialPC |-> "o0", InitialArg |-> "o1", WhenDonePC |-> "o2", StartupPC |-> "o3"]

SparcState ==
  [PCState |-> SparcWord["I7"] - 1,
   InitialPCState |-> SparcWord["I0"] - 1, InitialArgState |-> SparcWord["I1"] - 1,
   WhenDonePCState |-> SparcWord["I2"] - 1, StartupPCState |-> SparcWord["I3"] - 1]

SparcThreadRoot ==
  <<Nop, Nop, Clear("fp"),
    Move("l0", SparcInitial.InitialPC), Move("l1", SparcInitial.InitialArg),
    Move("l2", SparcInitial.WhenDonePC), Call(SparcInitial.StartupPC),
    Move("o0", "l1"), Call("l0"), Call("l2")>>

SparcStores ==
  [sp |-> "stackTop", o0 |-> "I0", o1 |-> "I1", o2 |-> "I2", o3 |-> "I3",
   o4 |-> "I4", o5 |-> "I5", o7 |-> "I7"]

SparcLoads ==
  [o0 |-> "I0", o1 |-> "I1", o2 |-> "I2", o3 |-> "I3", o4 |-> "I4", o5 |-> "I5",
   o7 |-> "I7", sp |-> "stackTop"]

SPARC ==
  [word |-> SparcWord, state |-> SparcState, root |-> SparcThreadRoot, entry |-> 3,
   stores |-> SparcStores, loads |-> SparcLoads, sp |-> "sp", link |-> "o7", arg |-> "o0",
   saved |-> {}, window |-> {"l0", "l1", "l2", "l3", "i0", "i1", "fp", "i7"}]

-----------------------------------------------------------------------------
(* PARISC.  r18 is loaded in the delay slot of the return                  *)
PariscWord ==
  WordsFrom0(<<"SP", "S0", "S1", "S2", "S3", "S4", "S5", "S6", "S7", "S8", "S9", "S10",
               "S11", "S12", "S13", "S14", "S15", "PC">>)

PariscState ==
  [PCState |-> PariscWord["PC"] - 1,
   InitialPCState |-> PariscWord["S0"] - 1, InitialArgState |-> PariscWord["S1"] - 1,
   WhenDonePCState |-> PariscWord["S2"] - 1, StartupPCState |-> PariscWord["S3"] - 1]

PariscThreadRoot ==
  <<Call("r6"), Move("arg0", "r4"), Call("r3"), Call("r5")>>

PariscStores ==
  [sp |-> "SP", r3 |-> "S0", r4 |-> "S1", r5 |-> "S2", r6 |-> "S3", r7 |-> "S4",
   r8 |-> "S5", r9 |-> "S6", r10 |-> "S7", r11 |-> "S8", r12 |-> "S9", r13 |-> "S10",
   r14 |-> "S11", r15 |-> "S12", r16 |-> "S13", r17 |-> "S14", r18 |-> "S15", rp |-> "PC"]

PariscLoads ==
  [sp |-> "SP", r3 |-> "S0", r4 |-> "S1", r5 |-> "S2", r6 |-> "S3", r7 |-> "S4",
   r8 |-> "S5", r9 |-> "S6", r10 |-> "S7", r11 |-> "S8", r12 |-> "S9", r13 |-> "S10",
   r14 |-> "S11", r15 |-> "S12", r16 |-> "S13", r17 |-> "S14", rp |-> "PC", r18 |-> "S15"]

PARISC ==
  [word |-> PariscWord, state |-> PariscState, root |-> PariscThreadRoot, entry |-> 1,
   stores |-> PariscStores, loads |-> PariscLoads, sp |-> "sp", link |-> "rp", arg |-> "arg0",
   saved |-> {"r3", "r4", "r5", "r6", "r7", "r8", "r9", "r10", "r11", "r12", "r13", "r14",
              "r15", "r16", "r17", "r18"}, window |-> {}]

-----------------------------------------------------------------------------
(* x86.  The return address is on the stack: SWITCH stores a copy of it,   *)
(* writes the copy of the new thread over an argument that is not needed   *)
(* any more, 4(%esp), and returns by the one at 0(%esp).                   *)
X86Word == WordsFrom0(<<"_ESP", "_EAX", "_EBX", "_ECX", "_EDX", "_EBP", "_ESI", "_EDI", "_PC">>)

X86State ==
  [PCState |-> X86Word["_PC"] - 1,
   InitialPCState |-> X86Word["_ESI"] - 1, InitialArgState |-> X86Word["_EDX"] - 1,
   WhenDonePCState |-> X86Word["_EDI"] - 1, StartupPCState |-> X86Word["_ECX"] - 1]

X86Initial ==
  [InitialPC |-> "esi", InitialArg |-> "edx", WhenDonePC |-> "edi", StartupPC |-> "ecx"]

X86ThreadRoot ==
  <<Push("ebp"), Move("ebp", "esp"), Push(X86Initial.InitialArg),
    Call(X86Initial.StartupPC), Call(X86Initial.InitialPC), Call(X86Initial.WhenDonePC)>>

X86Stores ==
  [ebx |-> "_EBX", ecx |-> "_ECX", edx |-> "_EDX", esi |-> "_ESI", edi |-> "_EDI",
   ebp |-> "_EBP", esp |-> "_ESP", eax |-> "_EAX"]

X86Loads ==
  [eax |-> "_EAX", ebx |-> "_EBX", ecx |-> "_ECX", edx |-> "_EDX", esi |-> "_ESI",
   edi |-> "_EDI", ebp |-> "_EBP", esp |-> "_ESP"]

x86 ==
  [word |-> X86Word, state |-> X86State, root |-> X86ThreadRoot, entry |-> 1,
   stores |-> X86Stores, loads |-> X86Loads, sp |-> "esp", link |-> "stack", arg |-> "stack",
   saved |-> {"ebx", "esi", "edi", "ebp"}, window |-> {}]

-----------------------------------------------------------------------------
(* PowerPC, as on Apple hosts.  SWITCH names words by their byte offsets;  *)
(* a floating point register takes two words.  ThreadRoot finds the new    *)
(* thread in r4, where SWITCH was given it.                                *)
r(n) == <<"r", n>>
f(n) == <<"f", n>>

PpcState ==
  [InitialPCState |-> 0, InitialArgState |-> 1, WhenDonePCState |-> 2, StartupPCState |-> 3,
   PCState |-> 60]

PpcStores ==
  r(1) :> 0
    @@ [reg \in {r(n) : n \in 13 .. 31} |-> (20 + 4 * (reg[2] - 13)) \div 4]
    @@ [reg \in {f(n) : n \in 14 .. 31} |-> (96 + 8 * (reg[2] - 14)) \div 4]
    @@ <<"lr", 0>> :> 244 \div 4 @@ <<"cr", 0>> :> 240 \div 4

PpcLoads ==
  r(1) :> 0 @@ <<"lr", 0>> :> 244 \div 4 @@ <<"cr", 0>> :> 240 \div 4
    @@ [reg \in {r(n) : n \in 13 .. 31} |-> (20 + 4 * (reg[2] - 13)) \div 4]
    @@ [reg \in {f(n) : n \in 14 .. 31} |-> (96 + 8 * (reg[2] - 14)) \div 4]

PpcThreadRoot ==
  <<Fetch(r(20), r(4), 16 \div 4), Fetch(r(21), r(4), 8 \div 4),
    Fetch(r(22), r(4), 4 \div 4), Fetch(r(23), r(4), 12 \div 4),
    Call(r(20)), Move(r(3), r(21)), Call(r(22)), Call(r(23))>>

PpcWord == [w \in 0 .. 61 |-> w]

ApplePowerPC ==
  [word |-> PpcWord, state |-> PpcState, root |-> PpcThreadRoot, entry |-> 1,
   stores |-> PpcStores, loads |-> PpcLoads, sp |-> r(1), link |-> <<"lr", 0>>, arg |-> r(3),
   saved |-> {r(n) : n \in 13 .. 31} \cup {f(n) : n \in 14 .. 31} \cup {<<"cr", 0>>},
   window |-> {}]

-----------------------------------------------------------------------------
(* ALPHA.  A routine is entered with its own address in pv and finds its   *)
(* data by it.                                                             *)
AlphaWord == WordsFrom0(<<"SP", "S0", "S1", "S2", "S3", "S4", "S5", "S6", "GP", "PC">>)

AlphaInitial ==
  [InitialPC |-> "s0", InitialArg |-> "s1", WhenDonePC |-> "s2", StartupPC |-> "s3"]

AlphaState ==
  [PCState |-> AlphaWord["PC"] - 1,
   InitialPCState |-> AlphaWord["S0"] - 1, InitialArgState |-> AlphaWord["S1"] - 1,
   WhenDonePCState |-> AlphaWord["S2"] - 1, StartupPCState |-> AlphaWord["S3"] - 1]

AlphaThreadRoot ==
  <<Ldgp("pv"), Clear("s6"),
    Move("pv", AlphaInitial.StartupPC), Call("pv"), Ldgp("ra"),
    Move("a0", AlphaInitial.InitialArg), Move("pv", AlphaInitial.InitialPC), Call("pv"),
    Ldgp("ra"), Move("pv", AlphaInitial.WhenDonePC), Call("pv")>>

AlphaStores ==
  [ra |-> "PC", gp |-> "GP", sp |-> "SP", s0 |-> "S0", s1 |-> "S1", s2 |-> "S2", s3 |-> "S3",
   s4 |-> "S4", s5 |-> "S5", s6 |-> "S6"]

AlphaLoads ==
  [ra |-> "PC", gp |-> "GP", sp |-> "SP", s0 |-> "S0", s1 |-> "S1", s2 |-> "S2", s3 |-> "S3",
   s4 |-> "S4", s5 |-> "S5", s6 |-> "S6", pv |-> "PC"]

ALPHA ==
  [word |-> AlphaWord, state |-> AlphaState, root |-> AlphaThreadRoot, entry |-> 1,
   stores |-> AlphaStores, loads |-> AlphaLoads, sp |-> "sp", link |-> "ra", arg |-> "a0",
   saved |-> {"s0", "s1", "s2", "s3", "s4", "s5", "s6"}, window |-> {}]

Host ==
  [DECMIPS |-> DECMIPS, SPARC |-> SPARC, PARISC |-> PARISC, x86 |-> x86,
   ApplePowerPC |-> ApplePowerPC, ALPHA |-> ALPHA]
=============================================================================
