----------------------------- MODULE Processes -----------------------------
(***************************************************************************)
(* User processes on top of the thread kernel: the process table           *)
(* (threads/ptable.cc), its process control blocks (threads/pcb.cc), the   *)
(* allocation of page frames by an address space (userprog/addrspace.cc),  *)
(* and the system calls Exec, Join and Exit (userprog/exception.cc).       *)
(*                                                                         *)
(* A process id is its slot of the table, and thread t of Threads is the   *)
(* thread of the process in slot t.  at[p] is where process p continues    *)
(* when its thread next runs with interrupts on: an action that calls P    *)
(* moves at[p] behind the call, and p gets there once P has returned.      *)
(*                                                                         *)
(* Reading a pcb after its destructor ran is undefined behaviour; such a   *)
(* step sets `undefined' and the machine is not followed any further.      *)
(***************************************************************************)
EXTENDS Threads, FiniteSetsExt

CONSTANTS
  MAXPROCESS,     (* slots of the process table                            *)
  NumPhysPages,   (* page frames of the machine                            *)
  Program,        (* names of executable files                             *)
  NumPages,       (* the pages each of them asks for                       *)
  NoProgram,      (* no name: the slot is free                             *)
  ExitCode,       (* what programs call Exit with                          *)
  MaxNumWait,     (* bound: Join is not called with numwait at it          *)
  Parents,        (* the processes whose programs call Exec                *)
  Discipline      (* programs join each child once, before they exit       *)

Pid == 0 .. MAXPROCESS - 1

(* The semaphores: PTable::bmsem, the global addrLock, and the three of    *)
(* each PCB                                                                *)
bmsem    == <<"bmsem", 0>>
addrLock == <<"addrLock", 0>>
joinsem(p) == <<"joinsem", p>>
exitsem(p) == <<"exitsem", p>>
multex(p)  == <<"multex", p>>
PCBSems(p) == {joinsem(p), exitsem(p), multex(p)}

ASSUME ProcessAssumption ==
  /\ MAXPROCESS \in Nat \ {0}
  /\ NumPhysPages \in Nat
  /\ NumPages \in [Program -> Nat \ {0}]
  /\ NoProgram \notin Program
  /\ Thread = Pid
  /\ Main = 0
  /\ Sem = {bmsem, addrLock} \cup UNION {PCBSems(p) : p \in Pid}
  /\ MaxValue > 2
  /\ Parents \subseteq Pid
  /\ Discipline \in BOOLEAN

VARIABLES
  at,         (* where each process continues                              *)
  arg,        (* the name Exec got, then the id it made; the id Join waits *)
              (* for                                                       *)
  bm,         (* PTable::bm, the slots in use                              *)
  prog,       (* PCB::FileName                                             *)
  parentID,   (* PCB::parentID                                             *)
  exitcode,   (* PCB::exitcode                                             *)
  numwait,    (* PCB::numwait                                              *)
  physPages,  (* gPhysPageBitmap, the frames in use                        *)
  frames,     (* the frames of AddrSpace::pageTable                        *)
  kids,       (* the ids Exec gave the program that it did not join yet    *)
  orphans,    (* processes whose parent is gone                            *)
  stale,      (* processes inside a call on a deleted pcb                  *)
  undefined   (* undefined behaviour has happened                          *)

pcbVars  == <<bm, prog, parentID, exitcode, numwait>>
memVars  == <<physPages, frames>>
userVars == <<kids, orphans, stale, undefined>>
procVars == <<at, arg, pcbVars, memVars, userVars>>
allVars  == <<vars, procVars>>

Place == {"none", "load", "alloc", "oom", "loaded", "user",
          "execCheck", "execFork", "execUp", "execDone", "execRet",
          "joinInc", "joinWait", "joinGot",
          "exitDec", "exitRel", "exitWait", "exitGone"}

(* Main starts in main(), about to build its address space; PTable::PTable *)
(* made the table with the pcb of process 0.                               *)
PInit ==
  /\ current = Main
  /\ status = [t \in Thread |-> IF t = Main THEN "RUNNING" ELSE "none"]
  /\ readyList = <<>>
  /\ toBeDestroyed = NoThread
  /\ cpu = "run"
  /\ yieldOnReturn = FALSE
  /\ pc = [t \in Thread |-> IF t = Main THEN "run" ELSE "none"]
  /\ waits = [t \in Thread |-> NoSem]
  /\ sems = {bmsem, addrLock} \cup PCBSems(Main)
  /\ value = [s \in Sem |-> IF s \in {bmsem, addrLock, multex(Main)} THEN 1
                            ELSE 0]
  /\ queue = [s \in Sem |-> <<>>]
  /\ at = [p \in Pid |-> IF p = Main THEN "load" ELSE "none"]
  /\ arg = [p \in Pid |-> 0]
  /\ bm = {Main}
  /\ \E f \in Program :
       prog = [p \in Pid |-> IF p = Main THEN f ELSE NoProgram]
  /\ parentID = [p \in Pid |-> -1]
  /\ exitcode = [p \in Pid |-> 0]
  /\ numwait = [p \in Pid |-> 0]
  /\ physPages = {}
  /\ frames = [p \in Pid |-> {}]
  /\ kids = [p \in Pid |-> {}]
  /\ orphans = {}
  /\ stale = {}
  /\ undefined = FALSE

-----------------------------------------------------------------------------
(* The current process is at l, and not inside a call on a deleted pcb     *)
At(l) == cpu = "run" /\ at[current] = l /\ current \notin stale

Goto(l) == at' = [at EXCEPT ![current] = l]

(* A use of freed memory.  What the machine does next is not followed.     *)
Undefined ==
  /\ cpu' = "halted"
  /\ undefined' = TRUE
  /\ UNCHANGED <<current, status, readyList, toBeDestroyed, yieldOnReturn, pc,
                 waits, semVars, at, arg, pcbVars, memVars, kids, orphans,
                 stale>>

(* A process goes on with a call on a semaphore that was deleted under it. *)
StaleUse ==
  /\ cpu \in {"run", "retest"}
  /\ current \in stale
  /\ Undefined

-----------------------------------------------------------------------------
(* Loading: AddrSpace::AddrSpace, called by StartProcess_2 and by main()   *)

LoadLock ==
  /\ At("load")
  /\ P(addrLock)
  /\ Goto("alloc")
  /\ UNCHANGED <<arg, pcbVars, memVars, userVars>>

Clear == (0 .. NumPhysPages - 1) \ physPages

(* What n calls of Bitmap::FindAndSet return: the n lowest clear bits      *)
Lowest(n) ==
  CHOOSE F \in kSubset(n, Clear) : \A x \in F, y \in Clear \ F : x < y

(* Enough frames: fill the page table                                      *)
LoadAlloc ==
  /\ At("alloc")
  /\ LET n == NumPages[prog[current]]
     IN  /\ n <= Cardinality(Clear)
         /\ frames' = [frames EXCEPT ![current] = Lowest(n)]
         /\ physPages' = physPages \cup Lowest(n)
  /\ V(addrLock)
  /\ Goto("loaded")
  /\ UNCHANGED <<arg, pcbVars, userVars>>

(* Too few: no page, the executable is deleted and addrLock released, but  *)
(* the constructor goes on                                                 *)
LoadNoMemory ==
  /\ At("alloc")
  /\ NumPages[prog[current]] > Cardinality(Clear)
  /\ V(addrLock)
  /\ Goto("oom")
  /\ UNCHANGED <<arg, pcbVars, memVars, userVars>>

(* and releases addrLock again.                                            *)
LoadNoMemoryUnlock ==
  /\ At("oom")
  /\ V(addrLock)
  /\ Goto("loaded")
  /\ UNCHANGED <<arg, pcbVars, memVars, userVars>>

(* Read in the program, delete the executable, InitRegisters,              *)
(* RestoreState, Machine::Run                                              *)
LoadRun ==
  /\ At("loaded")
  /\ frames[current] # {}
  /\ Goto("user")
  /\ UNCHANGED <<vars, arg, pcbVars, memVars, userVars>>

(* With no page, the executable is deleted a second time, and a process    *)
(* that survives this has no page 0: its first fetch is an AddressError    *)
(* exception, on which ExceptionHandler halts the machine.                 *)
LoadCrash ==
  /\ At("loaded")
  /\ frames[current] = {}
  /\ Halt
  /\ UNCHANGED procVars

(* Mutant: the page table goes and its bits stay set                       *)
FreeSpaceKeepsBits ==
  /\ UNCHANGED physPages
  /\ frames' = [frames EXCEPT ![current] = {}]

(* Thread::FreeSpace and AddrSpace::~AddrSpace                             *)
FreeSpace ==
  /\ physPages' = physPages \ frames[current]
  /\ frames' = [frames EXCEPT ![current] = {}]

-----------------------------------------------------------------------------
(* SC_Exec and PTable::ExecUpdate.  A name that cannot be opened returns   *)
(* -1 and changes nothing, as UserStep.                                    *)

(* The call, up to bmsem->P                                                *)
Exec(f) ==
  /\ At("user")
  /\ current \in Parents
  /\ P(bmsem)
  /\ Goto("execCheck")
  /\ arg' = [arg EXCEPT ![current] = f]
  /\ UNCHANGED <<pcbVars, memVars, userVars>>

(* What strcmp(filename, currentThread->getName()) == 0 can say.  The      *)
(* first thread is called "main".  The others were given the buffer of the *)
(* SC_Exec that made them, which it frees when it returns.                 *)
IsOwnName(f) ==
  IF current = Main THEN {FALSE}
  ELSE IF \E q \in Pid : at[q] = "execRet" /\ arg[q] = current
  THEN {f = prog[current]}
  ELSE BOOLEAN

(* The program is its own, or GetFreeSlot finds none                       *)
ExecRefused ==
  /\ At("execCheck")
  /\ TRUE \in IsOwnName(arg[current]) \/ bm = Pid
  /\ V(bmsem)
  /\ Goto("user")
  /\ arg' = [arg EXCEPT ![current] = 0]
  /\ UNCHANGED <<pcbVars, memVars, userVars>>

(* GetFreeSlot, new PCB, and multex->P in PCB::Exec, which finds the value *)
(* at 1                                                                    *)
ExecNewPCB ==
  /\ At("execCheck")
  /\ FALSE \in IsOwnName(arg[current])
  /\ bm # Pid
  /\ LET id == Min(Pid \ bm)
     IN  /\ bm' = bm \cup {id}
         /\ prog' = [prog EXCEPT ![id] = arg[current]]
         /\ parentID' = [parentID EXCEPT ![id] = current]
         /\ exitcode' = [exitcode EXCEPT ![id] = 0]
         /\ numwait' = [numwait EXCEPT ![id] = 0]
         /\ sems' = sems \cup PCBSems(id)
         /\ value' = [s \in Sem |-> IF s \in PCBSems(id) THEN 0 ELSE value[s]]
         /\ queue' = [s \in Sem |-> IF s \in PCBSems(id) THEN <<>>
                                    ELSE queue[s]]
         /\ arg' = [arg EXCEPT ![current] = id]
  /\ cpu' = "tick"
  /\ Goto("execFork")
  /\ UNCHANGED <<current, status, readyList, toBeDestroyed, yieldOnReturn, pc,
                 waits, memVars, userVars>>

(* new Thread, Fork                                                        *)
ExecFork ==
  /\ At("execFork")
  /\ Fork(arg[current])
  /\ at' = [at EXCEPT ![current] = "execUp", ![arg[current]] = "load"]
  /\ UNCHANGED <<arg, pcbVars, memVars, userVars>>

(* multex->V                                                               *)
ExecUp ==
  /\ At("execUp")
  /\ V(multex(arg[current]))
  /\ Goto("execDone")
  /\ UNCHANGED <<arg, pcbVars, memVars, userVars>>

(* bmsem->V                                                                *)
ExecDone ==
  /\ At("execDone")
  /\ V(bmsem)
  /\ Goto("execRet")
  /\ UNCHANGED <<arg, pcbVars, memVars, userVars>>

(* SC_Exec frees the name and returns the id                               *)
ExecRet ==
  /\ At("execRet")
  /\ Goto("user")
  /\ arg' = [arg EXCEPT ![current] = 0]
  /\ kids' = [kids EXCEPT ![current] = @ \cup {arg[current]}]
  /\ UNCHANGED <<vars, pcbVars, memVars, orphans, stale, undefined>>

-----------------------------------------------------------------------------
(* SC_Join and PTable::JoinUpdate.  An id that is not in use, the caller's *)
(* own, or not of a child returns -1 and changes nothing, as UserStep.     *)

(* The checks, and multex->P in IncNumWait of the caller's pcb             *)
Join(c) ==
  /\ At("user")
  /\ Discipline => c \in kids[current]
  /\ c \in bm
  /\ c # current
  /\ parentID[c] = current
  /\ numwait[current] < MaxNumWait
  /\ P(multex(current))
  /\ Goto("joinInc")
  /\ arg' = [arg EXCEPT ![current] = c]
  /\ UNCHANGED <<pcbVars, memVars, userVars>>

(* ++numwait, multex->V                                                    *)
JoinInc ==
  /\ At("joinInc")
  /\ numwait' = [numwait EXCEPT ![current] = @ + 1]
  /\ V(multex(current))
  /\ Goto("joinWait")
  /\ UNCHANGED <<arg, bm, prog, parentID, exitcode, memVars, userVars>>

(* Mutant: no JoinWait                                                     *)
JoinWaitSkipped ==
  /\ At("joinWait")
  /\ UserInstruction
  /\ Goto("joinGot")
  /\ UNCHANGED <<arg, pcbVars, memVars, userVars>>

(* JoinWait: joinsem->P of whatever pcb the slot holds by now              *)
JoinWait ==
  /\ At("joinWait")
  /\ \/ /\ arg[current] \in bm
        /\ P(joinsem(arg[current]))
        /\ Goto("joinGot")
        /\ UNCHANGED <<arg, pcbVars, memVars, userVars>>
     \/ /\ arg[current] \notin bm
        /\ Undefined

(* Mutant: no ExitRelease                                                  *)
JoinRetNoRelease ==
  /\ At("joinGot")
  /\ UserInstruction
  /\ Goto("user")
  /\ arg' = [arg EXCEPT ![current] = 0]
  /\ kids' = [kids EXCEPT ![current] = @ \ {arg[current]}]
  /\ UNCHANGED <<pcbVars, memVars, orphans, stale, undefined>>

(* GetExitCode, and ExitRelease: exitsem->V                                *)
JoinRet ==
  /\ At("joinGot")
  /\ V(exitsem(arg[current]))
  /\ Goto("user")
  /\ arg' = [arg EXCEPT ![current] = 0]
  /\ kids' = [kids EXCEPT ![current] = @ \ {arg[current]}]
  /\ UNCHANGED <<pcbVars, memVars, orphans, stale, undefined>>

-----------------------------------------------------------------------------
(* SC_Exit and PTable::ExitUpdate                                          *)

(* The first process frees its memory and halts the machine.               *)
ExitMain ==
  /\ At("user")
  /\ current = Main
  /\ Discipline => kids[current] = {}
  /\ FreeSpace
  /\ Halt
  /\ UNCHANGED <<at, arg, pcbVars, userVars>>

(* SetExitCode, and multex->P in DecNumWait of the parent's pcb            *)
Exit(code) ==
  /\ At("user")
  /\ current # Main
  /\ Discipline => kids[current] = {}
  /\ \/ /\ parentID[current] \in bm
        /\ exitcode' = [exitcode EXCEPT ![current] = code]
        /\ P(multex(parentID[current]))
        /\ Goto("exitDec")
        /\ UNCHANGED <<arg, bm, prog, parentID, numwait, memVars, userVars>>
     \/ /\ parentID[current] \notin bm
        /\ Undefined

(* numwait down, multex->V                                                 *)
ExitDec ==
  /\ At("exitDec")
  /\ LET q == parentID[current]
     IN  /\ numwait' = [numwait EXCEPT ![q] = IF @ > 0 THEN @ - 1 ELSE @]
         /\ V(multex(q))
  /\ Goto("exitRel")
  /\ UNCHANGED <<arg, bm, prog, parentID, exitcode, memVars, userVars>>

(* Mutant: no JoinRelease                                                  *)
ExitRelSkipped ==
  /\ At("exitRel")
  /\ UserInstruction
  /\ Goto("exitWait")
  /\ UNCHANGED <<arg, pcbVars, memVars, userVars>>

(* JoinRelease: joinsem->V                                                 *)
ExitRel ==
  /\ At("exitRel")
  /\ V(joinsem(current))
  /\ Goto("exitWait")
  /\ UNCHANGED <<arg, pcbVars, memVars, userVars>>

(* Mutant: no ExitWait                                                     *)
ExitWaitSkipped ==
  /\ At("exitWait")
  /\ UserInstruction
  /\ Goto("exitGone")
  /\ UNCHANGED <<arg, pcbVars, memVars, userVars>>

(* ExitWait: exitsem->P                                                    *)
ExitWait ==
  /\ At("exitWait")
  /\ P(exitsem(current))
  /\ Goto("exitGone")
  /\ UNCHANGED <<arg, pcbVars, memVars, userVars>>

(* Mutant: no bm->Clear                                                    *)
ClearSlotSkipped(p) == UNCHANGED bm

(* PTable::Remove up to the delete                                         *)
ClearSlot(p) == bm' = bm \ {p}

(* Remove: clear the slot; PCB::~PCB deletes the semaphores, whoever is    *)
(* inside them, frees the address space and calls Finish, which does not   *)
(* return.                                                                 *)
Remove ==
  /\ At("exitGone")
  /\ ClearSlot(current)
  /\ sems' = sems \ PCBSems(current)
  /\ value' = [s \in Sem |-> IF s \in PCBSems(current) THEN 0 ELSE value[s]]
  /\ queue' = [s \in Sem |-> IF s \in PCBSems(current) THEN <<>> ELSE queue[s]]
  /\ FreeSpace
  /\ FinishBody
  /\ Goto("none")
  /\ arg' = [arg EXCEPT ![current] = 0]
  /\ prog' = [prog EXCEPT ![current] = NoProgram]
  /\ parentID' = [parentID EXCEPT ![current] = -1]
  /\ exitcode' = [exitcode EXCEPT ![current] = 0]
  /\ numwait' = [numwait EXCEPT ![current] = 0]
  /\ kids' = [kids EXCEPT ![current] = {}]
  /\ orphans' = (orphans \cup {c \in bm : parentID[c] = current}) \ {current}
  /\ stale' = stale \cup {q \in Pid : \/ waits[q] \in PCBSems(current)
                                      \/ /\ at[q] = "exitDec"
                                         /\ parentID[q] = current
                                      \/ /\ at[q] = "execUp"
                                         /\ arg[q] = current}
  /\ UNCHANGED undefined

-----------------------------------------------------------------------------
(* User code, the kernel, the timer                                        *)

UserStep == At("user") /\ UserInstruction /\ UNCHANGED procVars

Kernel ==
  /\ KernelStep
  /\ cpu = "retest" => current \notin stale
  /\ UNCHANGED procVars

Timer == TimerInterrupt /\ UNCHANGED procVars

Stopped == Halted /\ UNCHANGED procVars

(* The code of the system calls, once called                               *)
InSyscall ==
  \/ LoadLock \/ LoadAlloc \/ LoadNoMemory \/ LoadNoMemoryUnlock \/ LoadRun
  \/ LoadCrash
  \/ ExecRefused \/ ExecNewPCB \/ ExecFork \/ ExecUp \/ ExecDone \/ ExecRet
  \/ JoinInc \/ JoinWait \/ JoinRet
  \/ ExitDec \/ ExitRel \/ ExitWait \/ Remove
  \/ StaleUse

Syscall ==
  \/ \E f \in Program : Exec(f)
  \/ \E c \in Pid : Join(c)
  \/ \E code \in ExitCode : Exit(code)
  \/ ExitMain

PNext == Kernel \/ Timer \/ Stopped \/ InSyscall \/ Syscall \/ UserStep

PSpec == PInit /\ [][PNext]_allVars

(* As in Threads: the CPU takes its next step, in the kernel and in user   *)
(* code, and the timer keeps firing, but not each time the same process is *)
(* back from a switch (it is set to TimerTicks = 100, a system tick is     *)
(* 10).  Nothing is assumed of which system calls a program makes.         *)
PFairness ==
  /\ WF_allVars(Kernel)
  /\ WF_allVars(InSyscall)
  /\ WF_allVars(UserStep \/ Syscall)
  /\ SF_allVars(Timer /\ ~yieldOnReturn)
  /\ \A p \in Pid :
       SF_allVars(Kernel /\ cpu = "tick" /\ current = p /\ ~yieldOnReturn)

PFairSpec == PSpec /\ PFairness

-----------------------------------------------------------------------------
(* Properties                                                              *)

Makes(q, c) ==
  /\ at[q] \in {"execFork", "execUp", "execDone", "execRet"}
  /\ arg[q] = c

Joining == {"joinInc", "joinWait", "joinGot"}
Exiting == {"exitDec", "exitRel", "exitWait", "exitGone"}

(* Every variable of the process layer keeps its type.                     *)
PTypeOK ==
  /\ TypeOK
  /\ at \in [Pid -> Place]
  /\ arg \in [Pid -> Pid \cup Program]
  /\ bm \subseteq Pid
  /\ prog \in [Pid -> Program \cup {NoProgram}]
  /\ parentID \in [Pid -> Pid \cup {-1}]
  /\ exitcode \in [Pid -> ExitCode \cup {0}]
  /\ numwait \in [Pid -> 0 .. MaxNumWait]
  /\ physPages \subseteq 0 .. NumPhysPages - 1
  /\ frames \in [Pid -> SUBSET (0 .. NumPhysPages - 1)]
  /\ kids \in [Pid -> SUBSET Pid]
  /\ orphans \subseteq Pid
  /\ stale \subseteq Pid
  /\ undefined \in BOOLEAN

(* A slot is marked exactly while a process uses it or Exec fills it, its  *)
(* semaphores exist exactly then, and the slot Exec fills has no thread    *)
(* left in it: the slot is cleared before Finish (ptable.cc:179-181,       *)
(* pcb.cc:26-35), so the old thread must be gone before the next Exec.     *)
SlotsExact ==
  \A p \in Pid :
    LET filled == \E q \in Pid : at[q] = "execFork" /\ arg[q] = p
    IN  /\ p \in bm <=> at[p] # "none" \/ filled
        /\ p \in bm <=> PCBSems(p) \subseteq sems
        /\ filled => status[p] = "none"

(* No two address spaces share a frame, the bitmap marks exactly the       *)
(* frames of the page tables, and a process in user mode has every page it *)
(* asked for (addrspace.cc:82-119, 147-154).                               *)
FramesExact ==
  /\ \A p, q \in Pid : p # q => frames[p] \cap frames[q] = {}
  /\ physPages = UNION {frames[p] : p \in Pid}
  /\ \A p \in Pid : at[p] = "user" /\ cpu # "halted"
                    => Cardinality(frames[p]) = NumPages[prog[p]]

(* "Khong cho phep nap 2 tien trinh 1 luc": no two processes are being     *)
(* made at a time (ptable.cc:44-45, ptable.h:17).                          *)
OneExec ==
  Cardinality({p \in Pid : \/ at[p] \in {"execFork", "execUp", "execDone"}
                           \/ at[p] = "execCheck" /\ waits[p] = NoSem}) <= 1

(* Join gets past JoinWait only when its own child has set its exit code   *)
(* and cannot go before it is released (ptable.cc:116-124, 151-157).       *)
JoinSeesExit ==
  \A p \in Pid : at[p] = "joinGot" /\ waits[p] = NoSem
                 => /\ at[arg[p]] \in {"exitWait", "exitGone"}
                    /\ parentID[arg[p]] = p
                    /\ waits[arg[p]] \in {NoSem, exitsem(arg[p])}
                    /\ value[exitsem(arg[p])] = 0

(* An id that Exec returned stays the id of that child, and Join accepts   *)
(* it, until it is joined (ptable.cc:132-149).                             *)
KidsJoinable ==
  \A p \in Pid : \A c \in kids[p] :
    c \in bm /\ parentID[c] = p /\ c \notin orphans

(* Every process in the table is known to a living parent that can still   *)
(* join it, or has leave to go: no slot is lost for good (ptable.cc:121).  *)
NoLostProcess ==
  \A c \in bm \ {Main} :
    \/ \E q \in bm : c \in kids[q] \/ Makes(q, c)
    \/ value[exitsem(c)] > 0
    \/ at[c] = "exitGone" /\ waits[c] = NoSem

(* No process uses a pcb after its destructor ran, or is left inside a     *)
(* semaphore of one (ptable.cc:117, 121-124, 151-157; pcb.cc:25-35).       *)
NoUseAfterDelete == ~undefined /\ stale = {}

(* "Assume no one is still waiting on the semaphore!" (synch.cc:56-57): a  *)
(* semaphore a thread is inside of exists.                                 *)
SemOutlivesWaiters ==
  \A p \in Pid : waits[p] # NoSem => waits[p] \in sems

(* A Join returns once the child has called Exit.                          *)
JoinReturns ==
  \A p \in Parents : at[p] \in Joining /\ at[arg[p]] \in Exiting
                     ~> at[p] = "user" \/ cpu = "halted"

(* A child that was released leaves the table.                             *)
ReleasedLeaves ==
  \A c \in Pid \ {Main} :
    c \in bm /\ at[c] \in Exiting /\ value[exitsem(c)] > 0
      ~> at[c] = "none" \/ cpu = "halted"

(* What holds of the table whatever programs call, up to the first use of  *)
(* a deleted pcb: slots are marked, cleared and reused exactly, and one    *)
(* Exec at a time fills one (ptable.cc:44-76, 179-181).                    *)
TableExact == SlotsExact /\ OneExec

(* Process ids stay good for programs that join each child once: they can  *)
(* be joined, and no pcb is used after it was deleted.                     *)
IdsValid == PTypeOK /\ KidsJoinable /\ NoUseAfterDelete

(* Join returns to the parent and the child gets away, in this order       *)
(* (ptable.cc:116-124, 151-157).                                           *)
FamiliesPart == JoinReturns /\ ReleasedLeaves
=============================================================================
