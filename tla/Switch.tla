------------------------------- MODULE Switch -------------------------------
(***************************************************************************)
(* How a thread gets the processor and gets it back with everything as it  *)
(* was: Scheduler::Run with SWITCH, Thread::StackAllocate, ThreadRoot, and *)
(* the saving of a user program's registers and page table, on any of the  *)
(* hosts of module Hosts.  Which ready thread is next is left open here    *)
(* (module Threads has the ready list).                                    *)
(***************************************************************************)
EXTENDS Hosts, SequencesExt
CONSTANTS
  Thread, main,  (* main runs from the start, on a stack of the host       *)
  Func, Arg,     (* what is forked, and with what argument                 *)
  HostName, NULL, ABORT
VARIABLES
  hostName, current,
  cpu,           (* the host's registers; one that is absent may have any  *)
                 (* value                                                  *)
  thread,        (* the Thread objects, their stacks, and what they did    *)
  machine,       (* the registers and the page table of the MIPS machine   *)
  result         (* ABORT in its last place when an ASSERT failed, or      *)
                 (* control was lost                                       *)

switchVars == <<hostName, current, cpu, thread, machine, result>>

host == Host[hostName]

(* Values of registers and words, apart from NULL                          *)
Code(name) == <<"code", name>>
PltPointer(name) == <<"plt", name>>
StackOf(t) == <<"stack", t>>
Pointer(t) == <<"thread", t>>
Data(t, k) == <<"data", t, k>>
Junk == <<"junk">>
Zero == <<"null">>

In(regs, reg) == IF reg \in DOMAIN regs THEN regs[reg] ELSE Junk

(* Thread::Thread.  Words that are absent are NULL.                        *)
Created ==
  [life |-> "created", words |-> <<>>, top |-> Junk, pushed |-> Junk, window |-> <<>>,
   fence |-> "none", root |-> 0, kept |-> <<>>, job |-> NULL, calls |-> <<>>,
   space |-> "none", userRegisters |-> Junk]

WordOf(t, w) == IF w \in DOMAIN thread[t].words THEN thread[t].words[w] ELSE Zero

Init ==
  /\ hostName \in HostName
  /\ current = main
  /\ cpu = host.sp :> StackOf(main)
  /\ thread = [t \in Thread |-> IF t = main THEN [Created EXCEPT !.life = "called"] ELSE Created]
  /\ machine = [registers |-> Junk, pageTable |-> NULL]
  /\ result = <<"new", NULL, NULL>>

Going == result[3] # ABORT
Running(life) == Going /\ thread[current].life = life

(* Function pointers on HP-UX point to code or to an entry of a table      *)
PLabelToAddr(pointer) == IF pointer[1] = "plt" THEN Code(pointer[2]) ELSE pointer

Address(pointer) == IF hostName = "PARISC" THEN PLabelToAddr(pointer) ELSE pointer

(* The words, the return address on the stack of an x86, and the fence     *)
StackAllocate(t, func, arg) ==
  [thread[t] EXCEPT
    !.words =
      0 :> StackOf(t)
        @@ (host.state.PCState + 1) :> Address(Code("ThreadRoot"))
        @@ (host.state.StartupPCState + 1) :> Address(Code("ThreadBegin"))
        @@ (host.state.InitialPCState + 1) :> Address(func)
        @@ (host.state.InitialArgState + 1) :> arg
        @@ (host.state.WhenDonePCState + 1) :> Address(Code("ThreadFinish")),
    !.top = IF hostName = "x86" THEN Code("ThreadRoot") ELSE Junk,
    !.fence = "whole",
    !.life = "ready", !.job = <<func[2], arg>>]

Fork(t, func, arg) ==
  /\ Running("called")
  /\ thread[t].life = "created"
  /\ thread' = [thread EXCEPT ![t] = StackAllocate(t, func, arg)]
  /\ UNCHANGED <<hostName, current, cpu, machine, result>>

-----------------------------------------------------------------------------
(* The call of SWITCH in Run leaves its return address in a register, if   *)
(* not on the stack.  What SWITCH leaves in the old thread, and what it    *)
(* loads.                                                                  *)
AtCall == IF host.link = "stack" THEN cpu ELSE host.link :> Code("Run") @@ cpu

Stored(words) ==
  LET at == [reg \in DOMAIN host.stores |-> host.word[host.stores[reg]]]
  IN  [w \in DOMAIN words \cup Range(at) |->
         IF w \in Range(at) THEN In(AtCall, CHOOSE reg \in DOMAIN at : at[reg] = w)
         ELSE words[w]]

Loaded(t) ==
  [reg \in DOMAIN host.loads |-> WordOf(t, host.word[host.loads[reg]])]
    @@ [reg \in host.window |-> In(thread[t].window, reg)]

(* The registers as the routine that called SWITCH finds them in t         *)
Registers(t) ==
  [reg \in host.saved \cup host.window \cup {host.sp} |->
     IF t = current THEN In(cpu, reg) ELSE In(Loaded(t), reg)]

(* Thread t as it is left, its user registers saved if it has some         *)
Left(t) ==
  [thread[t] EXCEPT
    !.words = Stored(@),
    !.top = IF host.link = "stack" THEN Code("Run") ELSE @,
    !.window = [reg \in host.window |-> In(cpu, reg)],
    !.userRegisters = IF thread[t].space # "none" THEN machine.registers ELSE @]

Return(next) == IF host.link = "stack" THEN thread[next].top ELSE In(Loaded(next), host.link)

CheckOverflow == thread[current].fence # "broken"

(* Scheduler::Run up to SWITCH in the thread that has the processor, and   *)
(* from there on in the one that gets it: in the second half of Run, which *)
(* puts the user state back, or in ThreadRoot                              *)
Run(next, finishing) ==
  LET old == [Left(current) EXCEPT !.life = IF finishing THEN "finished" ELSE @]
      arrived == Return(next)
      threads == [thread EXCEPT ![current] = old]
  IN  /\ UNCHANGED hostName
      /\ IF ~CheckOverflow \/ arrived \notin {Code("Run"), Code("ThreadRoot")}
         THEN result' = <<"Run", current, ABORT>> /\ UNCHANGED <<current, cpu, thread, machine>>
         ELSE /\ current' = next
              /\ UNCHANGED result
              /\ cpu' = IF hostName = "ApplePowerPC" THEN Loaded(next) @@ r(4) :> Pointer(next)
                        ELSE Loaded(next)
              /\ IF arrived = Code("Run")
                 THEN /\ machine' = IF thread[next].space = "none" THEN machine
                                    ELSE [registers |-> thread[next].userRegisters,
                                          pageTable |-> next]
                      /\ thread' = threads
                 ELSE /\ thread' = [threads EXCEPT ![next].life = "root",
                                                   ![next].root = host.entry]
                      /\ UNCHANGED machine

Yield(next) ==
  /\ Running("called")
  /\ next # current /\ thread[next].life \notin {"created", "finished"}
  /\ Run(next, FALSE)

-----------------------------------------------------------------------------
(* ThreadRoot, one instruction at a time.  A call keeps, in the frame of   *)
(* the routine called, the registers that are its caller's to keep.        *)
Routine == Func \cup {"ThreadBegin", "ThreadFinish"}

Goes(regs) ==
  /\ cpu' = regs
  /\ thread' = [thread EXCEPT ![current].root = @ + 1]
  /\ UNCHANGED result

Passed == IF host.arg = "stack" THEN thread[current].pushed ELSE In(cpu, host.arg)

Calls(target) ==
  IF target[1] = "code" /\ target[2] \in Routine
  THEN /\ thread' = [thread EXCEPT
            ![current].life = "called", ![current].kept = Registers(current),
            ![current].calls = Append(@, <<target[2], IF target[2] \in Func THEN Passed ELSE NULL>>)]
       /\ UNCHANGED <<cpu, result>>
  ELSE result' = <<"ThreadRoot", current, ABORT>> /\ UNCHANGED <<cpu, thread>>

ThreadRoot ==
  /\ Running("root")
  /\ UNCHANGED <<hostName, current, machine>>
  /\ LET i == host.root[thread[current].root]
     IN  CASE i.op = "nop" -> Goes(cpu)
           [] i.op = "move" -> Goes(i.to :> In(cpu, i.from) @@ cpu)
           [] i.op = "clear" -> Goes(i.to :> Zero @@ cpu)
           [] i.op = "fetch" -> Goes(i.to :> WordOf(In(cpu, i.base)[2], i.word) @@ cpu)
           [] i.op = "ldgp" ->
                Goes("gp" :> (IF In(cpu, i.base) = Code("ThreadRoot") THEN Code("gp") ELSE Junk)
                       @@ cpu)
           [] i.op = "push" -> /\ thread' = [thread EXCEPT ![current].pushed = In(cpu, i.from),
                                                           ![current].root = @ + 1]
                               /\ UNCHANGED <<cpu, result>>
           [] i.op = "call" -> Calls(In(cpu, i.by))

InRoutine(name) == thread[current].calls # <<>> /\ Last(thread[current].calls)[1] \in name

(* A routine called by ThreadRoot returns: what it had to keep is as it    *)
(* was, and of the other registers nothing is known                        *)
Returns ==
  /\ Running("called") /\ InRoutine(Routine \ {"ThreadFinish"}) /\ thread[current].space = "none"
  /\ cpu' = thread[current].kept
               @@ (IF host.link = "stack" THEN <<>> ELSE host.link :> Code("ThreadRoot"))
  /\ thread' = [thread EXCEPT ![current].life = "root", ![current].root = @ + 1,
                              ![current].kept = <<>>]
  /\ UNCHANGED <<hostName, current, machine, result>>

(* Thread::Finish, from ThreadRoot or in the system call Exit              *)
Finish(next) ==
  /\ Running("called") /\ (InRoutine({"ThreadFinish"}) \/ thread[current].space = "user")
  /\ current # main
  /\ next # current /\ thread[next].life \notin {"created", "finished"}
  /\ Run(next, TRUE)

-----------------------------------------------------------------------------
(* What the running thread does otherwise: it uses the registers, those of *)
(* the machine too if it runs a user program, or too much of its stack     *)
Work ==
  /\ Running("called") /\ (current = main \/ InRoutine(Func))
  /\ machine' = IF thread[current].space = "user" THEN [machine EXCEPT !.registers = Data(current, 1)]
                ELSE machine
  /\ cpu' = [reg \in host.saved \cup host.window |-> Data(current, 1)] @@ host.sp :> In(cpu, host.sp)
  /\ UNCHANGED <<hostName, current, thread, result>>

Overrun ==
  /\ Running("called") /\ thread[current].fence = "whole"
  /\ thread' = [thread EXCEPT ![current].fence = "broken"]
  /\ UNCHANGED <<hostName, current, cpu, machine, result>>

(* AddrSpace::Execute and StartProcess_2: space, InitRegisters and         *)
(* RestoreState, after which the program runs in the machine               *)
Execute(from, to, registers, pageTable) ==
  /\ Running("called") /\ (current = main \/ InRoutine(Func))
  /\ thread[current].space = from
  /\ thread' = [thread EXCEPT ![current].space = to]
  /\ machine' = [registers |-> registers, pageTable |-> pageTable]
  /\ UNCHANGED <<hostName, current, cpu, result>>

StartProcess ==
  \/ Execute("none", "set", machine.registers, machine.pageTable)
  \/ Execute("set", "init", Data(current, 0), machine.pageTable)
  \/ Execute("init", "user", machine.registers, current)

Next ==
  \/ \E t \in Thread, func \in Func, arg \in Arg :
        \/ Fork(t, Code(func), arg)
        \/ hostName = "PARISC" /\ Fork(t, PltPointer(func), arg)
  \/ \E next \in Thread : Yield(next) \/ Finish(next)
  \/ ThreadRoot \/ Returns \/ Work \/ Overrun \/ StartProcess

-----------------------------------------------------------------------------
(* What is a thread's own while it runs or waits: its registers, and those *)
(* of its program with the page table it runs under                        *)
Own(t) ==
  IF thread[t].life # "called" THEN NULL
  ELSE [registers |-> Registers(t),
        user |-> IF thread[t].space \notin {"init", "user"} THEN NULL
                 ELSE IF t = current THEN machine.registers ELSE thread[t].userRegisters,
        pageTable |-> IF thread[t].space # "user" THEN NULL
                      ELSE IF t = current THEN machine.pageTable ELSE t]

(* Every word SWITCH uses is in the Thread object, and no two registers    *)
(* are kept in one word                                                    *)
WordsApart ==
  LET words == {host.word[host.stores[reg]] : reg \in DOMAIN host.stores}
  IN  /\ words \subseteq 0 .. MachineStateSize
      /\ Cardinality(words) = Cardinality(DOMAIN host.stores)
=============================================================================
