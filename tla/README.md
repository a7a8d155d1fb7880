# Verification of the Nachos 4.0 (HCMUS) kernel

TLA+ modules, TLC configurations and TLAPS proofs for the kernel in
`src/NachOS-4.0/code`. Paths below are relative to that directory. The build is
the one of `build.linux/Makefile` (`-DFILESYS_STUB -DRDATA -DSIM_FIX`); the
Nachos file system, which that build leaves out, and the other hosts of the
context switch are modelled too.

## 1. The system

Nachos is a teaching kernel that runs on a simulated MIPS machine inside one
host process. This repository adds multiprogramming: a process table, page
frames shared by several address spaces, named user semaphores, an open file
table and some twenty system calls.

| Part | State | Operations | Depends on |
|---|---|---|---|
| start and end (`threads/main.cc`, `kernel.cc`) | options, the parts of the kernel | parse, Initialize, the tasks of main, Halt, delete, ctl-C | all |
| threads, scheduler (`threads/thread.cc`, `scheduler.cc`) | current thread, status and stack of each thread, ready list, thread to be destroyed | Fork, Begin, Yield, Sleep, Finish, ReadyToRun, Run | interrupts |
| context switch (`threads/switch.S`, `switch.h`, `thread.cc`) | registers of the host, words saved in the Thread, its stack | StackAllocate, SWITCH, ThreadRoot | the host |
| semaphores (`threads/synch.cc`) | value, queue | P, V, new, delete | threads |
| locks, conditions, `SynchList` (`synch.cc`, `synchlist.cc`) | semaphore, holder, wait queue, list | Acquire, Release, Wait, Signal, Broadcast, Append, RemoveFront | semaphores |
| interrupts, timer (`machine/interrupt.cc`, `timer.cc`, `threads/alarm.cc`) | level, clock, pending interrupts, yieldOnReturn | SetLevel, OneTick, Idle, Schedule, CheckIfDue | devices call back |
| process table (`threads/ptable.cc`, `pcb.cc`) | slot bitmap; per process parent, exit code, numwait, joinsem, exitsem, multex | ExecUpdate, JoinUpdate, ExitUpdate, Remove | semaphores, threads, address spaces |
| address spaces (`userprog/addrspace.cc`) | frame bitmap, page tables | construct, Load, destroy | addrLock |
| display, keyboard (`machine/console.cc`, `userprog/synchconsole.cc`) | putBusy; incoming character; locks and waitFor | PutChar, Write; GetChar, Read; interrupts | semaphores |
| system calls (`userprog/exception.cc`) | registers | one case per call | all of the above |
| user semaphores (`threads/stable.cc`) | table of named semaphores | Create, Wait, Signal | semaphores |
| file table (`filesys/filesys.h`, `openfile.h`) | open files, positions | Create, Open, Close, Seek, Read, Write | host files |
| disk (`machine/disk.cc`, `filesys/synchdisk.cc`) | sectors, active flag | ReadSector, WriteSector, interrupt | locks |
| network (`machine/network.cc`, `network/post.cc`) | one buffered packet, mailboxes, sockets | Send, Receive, PostalDelivery, NetworkTest | locks, SynchList |
| Nachos file system (`filesys/*.cc`) | bitmap, directory, headers | Create, Open, Remove, Read, Write, List, Print, Copy | disk; not compiled |
| machine (`machine/mipssim.cc`, `translate.cc`) | registers, memory | Run, Decode, OneInstruction, Translate | exceptions |
| converter and loader (`coff2noff.c`, `addrspace.cc`) | headers, segments, pages | main; the constructor of AddrSpace, Load | machine |
| library (`lib/list.cc`, `hash.cc`, `bitmap.cc`) | links and counts, buckets, words | Append, Prepend, Insert, Remove; Insert, Find, Remove; Mark, Clear, FindAndSet | used by all |
| water system (`test/watersystem_main.c`, `student.c`, `watertap.c`) | shared files | three programs, four semaphores | system calls |
| other programs (`test/my_sort.c`, `sort.c`, `matmult.c`, the stubs of `start.S`) | arrays | sort, multiply, one stub for each call | system calls |

What is hard about it:

* *Interleaving.* There is one CPU, and kernel code is preempted only where
  interrupts are turned back on: `SetLevel(IntOn)` calls `OneTick`, which runs
  the due handlers and may yield. So every V, every P that does not sleep, every
  Fork and every user instruction is a point where all other threads may run.
* *Waiting.* `P` re-tests the value after it was woken, so a third thread may
  take the unit in between. Join and Exit meet through two semaphores of the
  child, which the child's own destructor deletes.
* *Lifetime.* A finishing thread is deleted by whichever thread runs next. A
  process id is a slot number, and slots are reused.
* *Devices.* They answer by interrupt, before or after the caller waits.

What makes each part correct: a thread is in exactly one place and no wakeup is
lost (threads, semaphores); Join returns exactly when its child exits, ids stay
valid until they are joined and no slot leaks (process table); no frame has two
owners (address spaces); one request at a time, each answered once, lines whole
(console); a FIFO channel (SynchList); atomic sectors (disk); the reads and
writes of a sequential file (file table); delivery at most once, senders always
released (network); bitmap, directory and headers that agree (file system);
programs that do not notice interrupts (machine); sequences and sets (library).

## 2. The modules

**`Threads`** is the core: threads, scheduler, semaphores and ticks. A step is
the code between two points where interrupts are turned on. `cpu` says where the
machine is (`"run"`, in a `"tick"`, in the loop of `"sleep"`, `"idle"`, back from
a `"switch"`, at the `"retest"` of P, `"halted"`), `pc[t]` where the kernel
stack of a thread will continue, `waits[t]` which semaphore's P it is inside.
Time is abstracted: a handler may run in any tick. The specification is the
most general client: a running thread makes any call on any semaphore. Other
modules extend `Threads`, use its operations and `KernelStep`, and replace
`Client` by their own code.

| Action | Code |
|---|---|
| `Fork`, `Yield`, `Finish` | the methods of `Thread` |
| `Dispatch`, `Idle`, `IdleReturn` | the loop of `Thread::Sleep`, `Interrupt::Idle` |
| `SwitchIn` | the code after `SWITCH`: `CheckToBeDestroyed`, the rest of Begin, Yield or Sleep |
| `TimerInterrupt`, `EndTick` | `Alarm::CallBack`, the end of `OneTick` |
| `P`, `PRetest`, `V`, `HandlerV` | `Semaphore::P` up to Sleep, after it; `V` from threads, from handlers |
| `NewSemaphore`, `DeleteSemaphore` | constructor and destructor |
| `UserInstruction`, `Halt` | a turn of `Machine::Run`, `Interrupt::Halt` |

**`Processes`** extends it with the process table, its control blocks, the frame
bitmap and the calls Exec, Join and Exit. Thread `t` is the thread of the
process in slot `t`; `at[p]` is where the process continues. Each action is the
code up to the next P, V or Fork. A use of a deleted pcb is undefined behaviour:
the step sets `undefined`, and the machine is not followed further.
`Discipline` selects programs that join every child once before they exit (what
the programs in `test/` do) or programs that call anything.
What strcmp says on the freed name of a thread is a free choice (`IsOwnName`).

**`ConsoleOut`** and **`ConsoleIn`** extend `Threads` with a device, its interrupt
handler, and the two ways to use it: single characters under `lock`
(PutChar, GetChar) and lines under a semaphore of their own (Write, Read).

**`Semaphores`** is what the kernel promises to the code above it: a semaphore is a
number, and a thread is or is not inside a P that found 0. `Threads` implements
it (`Promise`, proved), so the modules below extend `Semaphores` and not
`Threads`. Their steps are the code between two points where P or V turn
interrupts on.

| Module | Extends | Models |
|---|---|---|
| `Interrupts` | | the clock, the pending interrupts, `CheckIfDue`, the timer with its random period |
| `Disk` | `Interrupts` | `machine/disk.cc`: request, latency by seek, rotation and track buffer, interrupt |
| `SynchDisk` | `Semaphores`, `Disk` | `filesys/synchdisk.cc`: lock, request, wait for the handler |
| `Sectors` | | what `SynchDisk` promises: sectors read and written whole, one at a time |
| `SynchList` | `Semaphores` | Lock and Condition as `SynchList` uses them; a semaphore for each Wait |
| `Mail` | `SynchList` | two machines: `Send`, the network devices, a wire that loses packets, `PostalDelivery`, mailboxes, `Receive` |
| `Files` | | the file calls, one open file table for each process, files and descriptors of the host |
| `STable` | `Semaphores`, `Files` | the table of named semaphores and its calls |
| `WaterSystem` | `STable` | the three programs, one step for each system call; besides, a program that makes any file or semaphore calls |
| `FileSystem` | | `filesys.cc`, `directory.cc`, `filehdr.cc`, `openfile.cc`, and Copy and Print of `main.cc`: an operation is a list of sector writes, and the machine may crash between two |
| `Numbers` | | the width of integers, ReadNum and PrintNum |
| `Machine` | `Numbers` | Decode, one instruction, Translate, ReadMem, WriteMem, RaiseException, as functions of a processor state |
| `Loader` | `Machine` | the headers and sections that coff2noff reads and writes, in the byte order of the host, and where the constructor and Load of AddrSpace put them |
| `UserMode` | `Loader` | `Machine::Run`, interrupts between instructions, the stubs of `start.S` and the system calls on registers, memory and console; beside it a processor without load delays and interrupts |
| `Lists`, `HashTables`, `Bitmaps` | | the classes of `lib/` with their pointers, buckets and words |
| `Stacks` | | the array stack and the list stack of `c++example/` |
| `ItemList`, `ItemSet`, `BitSet`, `Lifo` | | what these promise |
| `Hosts` | | the routines SWITCH and ThreadRoot of `switch.S` and the offsets of `switch.h`, for each host, as lists of moves between registers and words |
| `Switch` | | StackAllocate, SWITCH run instruction by instruction, ThreadRoot, the user registers and the page table around it, CheckOverflow |
| `Contexts` | | what `Switch` promises: each thread has registers of its own and calls what it was forked to call |
| `Boot` | | the command line, Initialize, the tasks of main, Halt and the destructor of the kernel, ctl-C; with and without the stub file system |
| `NetworkTest` | | two machines in Kernel::NetworkTest over sockets that have a name only while their machine runs, with losses and retries |
| `SelfTests` | `SynchList` | Kernel::ThreadSelfTest and what it calls, in any schedule |
| `Programs` | | the user programs that sort and multiply, from input to exit code |
| `Parts` | | the life of one of these, from `Lists` down, and the five refinements |

How state and actions correspond to the code, where it is not by name:

* `SynchDisk`: `at[t]` goes through `"lock"`, `"request"`, `"wait"` and `"release"`, the
  stretches of `ReadSector` and `WriteSector` between P and V. `Handlers` is the
  loop of `CheckIfDue` with the handlers of all devices that are due.
* `Mail`: each machine has its own devices and semaphores. `PollInterrupt` is
  `NetworkInput::CallBack`; that a packet is lost is a choice made in `Send`, as
  `network.cc:171` makes it with a random number.
* `Files`: a call is one step, because it neither sleeps nor turns interrupts on.
* `FileSystem`: `todo` is the list of sector writes left, `own` the directory entry they
  are about; `Crash` empties the list and the memory. `hurt` marks a crash that tore the directory from the bitmap (`Torn`) and a
  write through an open file that was removed, whose sectors may be anyone's;
  nothing is claimed beyond it.
* `UserMode`: `cpu` is the processor, `arch` the one it is compared with. Integers are
  words of four bytes of `ByteBits` bits each, so that carries and signs matter at
  a size TLC can enumerate.
* `HashTables` has sequences where the code has Lists, which `Lists` justifies.
* `Switch`: `cpu` holds the registers of the host, and a value in one is a token that
  says whose it is. A routine of `Hosts` is stepped through as it is written, so
  a word stored at the wrong place, or a register loaded too late, shows.
* `Boot`: `made` is what exists, `done` what main has done; `stray` records a use of
  something that is not there. Each of the two loops over the arguments sees the
  options of the other as words to pass over, so an argument of the other loop's
  option that is itself the name of an option is read as one; `ParsesRight` is
  stated of command lines without this (`Apart`).
* `NetworkTest`: `tries` counts the failed `sendto`; nothing else happens on that machine
  meanwhile, since the loop of `SendToSocket` sleeps in the host.

**`ThreadsProofs`**, **`ThreadsRefinement`** and **`SynchDiskProofs`** hold the
theorems. The configurations are the instances for TLC; an `MC*` module goes
with one where the instance needs definitions of its own.
Definitions commented "Mutant" are plausible mistakes in the definition that
follows them; they are in no specification and serve to show that a property
can fail.

## 3. The runs

| Run | Instance | States | Shows |
|---|---|---|---|
| `threads` | 3 threads, 2 semaphores, values up to 2 | 20 thousand | safety and liveness of the thread kernel; it implements `Semaphores` |
| `processes` | 3 slots, 1-page programs, disciplined, processes 0 and 1 call Exec, numwait up to 1 | 190 thousand | Join/Exit protocol, safety and liveness |
| `processes_any` | 3 slots, programs of 1 and 2 pages, 3 frames, any calls | 1.9 million | frames, slots, exclusion of Execs |
| `join_twice` | 2 slots, any calls | | a violation, see below |
| `display` | 3 threads, all calling PutChar and Write, lines up to 2 | 43 thousand | sharing of the display |
| `keyboard` | 3 threads, buffers up to 2, two characters and EOF | 34 thousand | sharing of the keyboard |
| `disk` | 2 threads, 3 sectors on 2 tracks, seek 3 and rotation 2 ticks, after time 5 no call, and time passes only while the disk is active | 166 thousand | one request, one answer, in physical time; it implements `Sectors` |
| `mail` | 2 senders, the worker, 2 receivers, 1 mailbox, 2 sends, losses | 74 thousand | monitors, order, senders return, mail is taken |
| `water` | two inputs with queues of 0 to 3 students, result.txt there before or not; any file calls by two processes with ids and positions one past each end; any semaphore calls | 139 thousand | tables, output of the programs, they end |
| `filesystem` | 9 sectors of 2 bytes, 2 directory entries, 3 names, sizes 1 and 3, 1 open file, 1 crash | 889 thousand | disk consistency, contents of files, listings |
| `machine` | 12-bit words, 9 frames of 8 bytes, some 9 thousand programs of 1 to 4 instructions, 165 lines typed, hosts of both byte orders | 66 thousand | decoding, instructions, interrupts, loading, stubs, console calls |
| `parts` | 4 items (two equal keys), 1 bucket growing to 4, 5 bits in words of 3, stacks of 3 and 4; 2 threads on 6 hosts; each option alone and some in pairs; 2 machines and 2 tries; 2 rounds of the thread test and 3 of the others; arrays of up to 4 | 63 thousand | soundness and refinement of the library and of the switch; start and end, network test, self tests, programs |

What the properties join:

* `IInv` of `threads`: types, `OnePlace`, `ContextsMatch`, from which the ASSERTs follow.
* `IdsValid`: children stay joinable until joined, no deleted pcb is used.
  `FamiliesPart`: Join returns when the child exits, and the child then leaves.
  `TableExact`: marked slots are live processes; Execs exclude each other.
* `AnswersRight`, `CharsKept`: each wait is owed one answer of the device; no
  character is overwritten, announced twice or lost.
* `DInv`: lock, request and answer agree. `OnTime`: nothing pending is overdue after
  a tick; a read is answered when its sector has passed under the head.
* `MonitorKept`: the list is touched under its lock, no signal is lost, waiters
  sleep. `MailKept`: one Send at a time, each packet announced once, messages in
  order. `MailDelivered`: what the network delivers is put in the box and taken.
* `TablesKept`: no two open files share a descriptor, no two slots a name, in any
  program. `WaterRight`: the right to the shared files is in one place, output.txt
  is right, no ASSERT fails.
* `DiskConsistent`: between operations, marked sectors are exactly those of the
  files and of the system, and each has one owner. This includes restarts after
  a crash, except one between the writes of the directory and of the bitmap,
  where the code guarantees nothing. `FilesKept`: between operations every file has
  its bytes; and between any two sector writes, where a crash may come, torn or not,
  all entries but the one the operation is about (`own`) lead to their header, their
  sectors and their bytes (`OthersSpared`). A half-written entry may for a moment
  carry an old name and so hide a later entry of that name from Find; entries are
  therefore compared one by one and not by name.
* `Transparent`: with the pending load done, registers and memory are those of a
  processor without load delays and interrupts.
* `LoadedRight`: every byte of a segment is where Translate finds it, with the
  constructor and with Load; the headers mean the same on both sides of the file.
  `CallsRight`: what PrintString shows starts with the line that ReadString was given,
  and ends with it if the memory has a 0 there; each stub returns to its caller with
  the answer of the call it names. `NumbersRight`: a number printed by PrintNum is
  read as the same number by ReadNum, for every int that has a negation.
* `PartsSane`: SanityCheck of every class, no leaked element, iterators pass each
  item once; SWITCH keeps each register in a word of its own; options mean what
  they say (`ParsesRight`); from start to halt or ctl-C nothing is used that is not
  there (`BootOrder`); machines do not wait for each other unless a packet was lost
  (`NoStandstill`); no self test uses what another thread deleted or finds a wrong
  value (`SelfTestsPass`); the programs sort and multiply (`ProgramsRight`).
  `PartsPromise`: the five refinements.

Why the bounds are enough. Three threads give a sleeper, a waker and one that
takes the unit first; a fourth (with symmetry) gave nothing new in 26 thousand
states. Three slots give siblings, grandchildren, a full table and the reuse of
a slot whose old thread is not gone yet; three frames and programs of one and
two pages give both a successful and a failing allocation, with fragmentation.
numwait enters no decision but `> 0`; with a bound of 2, and Exec from all
three processes, the safety properties of `processes` were checked on 572
thousand states. Lines of two characters have a first and a last one. `MaxValue`
bounds V in `threads` only; in the other modules no value reaches it.
Two tracks give requests with and without a seek, and two sectors on one give
hits and misses of the track buffer. Two receivers give one that takes the item
the other was woken for. Files of one and three bytes fill part of a sector and
straddle two; three names and two entries give a full directory; one crash
comes between any two writes. Twelve bits are the least for four bytes with a
sign, and the operands are the ends of every range. The hash table is
rehashed twice, with two keys that never part; five bits leave one unused
in the last word. The library classes were also run with five items (417
thousand states). Two threads are enough for the switch, which touches only the
old and the new one; they switch any number of times. Two tries give one that
fails and a last one. The file system copies in pieces of one sector, so
that a file of three bytes takes two.

Deadlock is checked in the runs on `Threads` and in `parts`: a machine whose
threads all sleep idles and polls, and one that has halted, aborted or come to
the end of its tests stutters. It is off where
the system really stops: when all mail is sent, when the programs have ended,
when a program of `machine` is at its end, when the clock's bound is reached, and
where `filesystem` follows the disk no further (`hurt`).

**Fairness.** The CPU takes its next step (`WF` of the kernel and of the code
of calls). A running thread executes instructions. `Timer::CallBack` always
schedules the next timer interrupt and ticks always come, so the timer fires
again and again (`SF`). It does not fire each time the same thread is back
from a switch: its period is 100 ticks and a kernel tick is 10
(`machine/stats.h`), so every thread is infinitely often let through a tick
(`SF` per thread, in the component modules). The display interrupts
after each character. Nobody has to type, and no program has to make any
call. P is not fair to its callers: a thread that calls later may pass a woken
one, so no property promises that a given caller of P returns. Liveness is
stated for threads that hold the lock they need, for Join once the child
exits, and for units and characters that somebody waits for.

Above `Semaphores`, each thread that can take a step takes one (`WF` per
thread), which `ReadyRuns` and `UnitTaken` of `threads` show of the kernel: a ready
thread runs, and a unit is taken while somebody waits. The clock advances, and
the machine idles when all threads sleep. Pollings of the network go on
(`NetworkInput::CallBack` schedules the next one first). There is no fairness of
the wire: it may lose every packet. In `water` each semaphore is waited for by
one process, so weak fairness of P is no more than the code gives.

### Disagreements between the code and what it says

`join_twice` ends in a violation of what a comment of the code states: a second
Join of a child that was released and has not run yet passes the checks and
sleeps in `joinsem`, which the child's destructor then deletes. `synch.cc:56`
assumes nobody is waiting.

Others, which the models show and no run is devoted to:

* With too few frames the constructor of the address space releases `addrLock`
  and deletes the executable, goes on, and does both again (`addrspace.cc:99`).
* PutChar and Write hold different locks, so they use the device together and
  `ASSERT(putBusy == FALSE)` (`console.cc:169`) fails. `AbortOnlyMixed` shows that
  this is the only way it can.
* After an EOF, or the byte 0xFF, the keyboard polls no more and the next GetChar
  sleeps for ever with `lock` held (`console.cc:106`).
* `network.h:53` says that the reliability is "the chance that the network will
  lose a packet"; the code takes it for the chance that it is kept
  (`network.cc:113`, `171`).
* `noff.h:25` says that uninitialised data "should be zero'ed before use"; nothing
  does. `numPages` leaves out rdata, and the data loop adds `virtualAddr` to each
  frame: `LoadedRight` is stated of programs with data only if their frames are
  in a row, and the instances with data have such frames.
* `AddrSpace::Load`, which main calls for `-x`, counts the read-only data among the
  pages, the constructor does not, and the page table was made by the
  constructor: with read-only data that takes another page, the machine is told
  of more pages than the page table has.
  `LoadedRight` is stated of programs for which the two counts agree.
* `sysdep.cc:480` says of `SendToSocket` "Terminate if we still fail after 10 tries"; the
  code drops the packet and goes on, as the comment at its end says.
* A ctl-C while Halt deletes the kernel deletes it again (`main.cc:72`); `BootOrder`
  excludes this and nothing else.
* `coff2noff.c:268` wants to "make sure they are contiguous" and refuses a `.bss`
  that exactly is.
* A failed Open returns 6, the number of the call, and not -1
  (`exception.cc:533`). The programs then use 6 as an id.
* The answers to the first queue may be lost when result.txt is not there at the
  start (`watertap.c:18`); `OutputRight` says exactly when.
* PrintNum prints `-` for the smallest int (`exception.cc:332`); ReadString writes no 0
  after the line (`exception.cc:411`); SRL and SRLV shift arithmetically; DIV of the
  smallest int by -1 traps in the host. No property counts these as right:
  `NumberPrinted` leaves the smallest int out, and `Echo` what PrintString shows behind
  a line that no 0 ends.
* A semaphore made with a negative value never blocks (`exception.cc:868`). SC_Write
  of nothing falls into SC_Join (`exception.cc:802`). SC_Read and SC_Write accept
  one id past the table (`exception.cc:648`).
* Remove writes the bitmap before the directory (`filesys.cc:280`): after a crash in
  between, a name leads to free sectors. `Torn` names these crashes.

Seen while modelling, and modelled as they are: a process in the slot of a dead
parent is taken for the parent of its children (`ptable.cc:145`); the test that
a program does not execute itself compares with the thread's name, which is
"main" for the first process and freed memory for the others
(`ptable.cc:54`); a Join after the child's Exit leaves `numwait` raised
(`pcb.cc:60`); a child that is never joined keeps its slot; descriptors of a
process that left stay open (`pcb.cc:36`).

## 4. The proofs

`ThreadsProofs` proves, for any finite set of threads, any semaphores, any
initial values and any bound, from `ThreadAssumption` alone:

* `KernelInvariant`: `Spec => []IInv`, the inductive invariant;
* `TypeCorrect`, `ThreadsInOnePlace`: its parts `TypeOK` and `OnePlace`;
* `NoAssertionFails`: the ASSERTs of the kernel hold;
* `NoWakeupIsLost`: `NoLostWakeup`;
* `ValuesStayNonNegative`: P and V never take a value that is 0 or more below 0,
  whatever numbers semaphores are made with.

`OnePlace` says that the ready list is exactly the READY threads and each queue
exactly the BLOCKED threads inside that semaphore's P, each once. It is not
inductive alone: that a woken thread resumes in the right place, that a
finished thread is never resumed and that the current thread is on no list
follow from how stacks, status and the phase of the machine agree, which is
`ContextsMatch`. `IInv` is `TypeOK /\ OnePlace /\ ContextsMatch`, and the proof
has one lemma per action or group of like actions. It rests on lemmas about
lists without repetition (what Append and Tail do to their range) and, for `NoLostWakeup`, on the change of cardinality of the set
of woken threads when one enters or leaves it.

`ThreadsRefinement` proves `Spec => Promise`, that the kernel implements
`Semaphores`. The mapping forgets the ready list, the stacks and the ticks and
keeps the values and who is inside which P. A P that finds 0 is a `Block`, the
`PRetest` that finds a unit is a `Take`, V is a `Release`, all else stutters. `IInv`
is needed for two facts: the thread that retests is inside the P of a semaphore
that still exists, and a thread that calls P is inside none.

`SynchDiskProofs` proves, for any threads, any geometry of the disk and any ticks,
from `InterruptAssumption`, `DiskAssumption` and `SynchDiskAssumption` (positive
times and sizes, the two semaphores are among `Sem`):

* `DiskInvariant`: `SSpec => []DInv`, with `RequestsApart` and `AnswersOwed`, its parts;
* `DiskKeepsPromise`: `SSpec => SectorsPromise`.

`OneRequest` (mutual exclusion, and an idle disk with no unused unit when a
request is made) is not inductive without `AnswerOwed`: that the disk is idle when
the next thread enters follows from the answer having been taken, and that it
was taken once from the pending interrupt and the value of the semaphore being
the same debt. One lemma per step; `LatencyPositive` (the disk is never due in the
tick of its request) rests on two facts of division, stated first.

Only model-checked: all liveness (fairness is outside the prover's reach),
`Processes`, the consoles, `Mail`, `WaterSystem`, `FileSystem`, and what uses recursion
or bits (`Machine` and above, `Parts` and what it composes).

## 5. What is left out, and the plan

Abstracted: the contents of memory outside `UserMode`, names, messages to the
terminal, and the clock outside `Interrupts`.

Not modelled, and why:

* The TLB variant of the machine is not compiled. The AIX variant of the PowerPC in
  `switch.S` is left out; the PA-RISC is taken to be built with HPUX.
* Memory, files and time of the host in `lib/sysdep.cc`, debugging, statistics, the
  debugger of the machine: calls of the host and output.
* `ConsoleTest`, an endless echo, and the self tests of `lib/`: single calls, whose results
  `PartsPromise` gives for all calls. The other programs of `test/` make single
  calls or only print.
* `Condition::Broadcast` and `SynchList::Apply` have no caller.
* `usr/local/nachos/include` and the headers of the cross compiler (`bfd.h`,
  `va-*.h` and others, some 7 thousand lines): declarations that the kernel
  does not use.

The map covers three tenths of all lines; most of the rest is these headers, class
declarations, comments and the parts above.

Next: proofs of `OnTime`, of `OneSemaphorePerName` and of the monitor of `SynchList` for
any number of threads; `AnswersOwed` and `AbortOnlyMixed` of the display; `FramesExact`;
two open files at once and two crashes in `filesystem`.
