------------------------------ MODULE Threads ------------------------------
(***************************************************************************)
(* The Nachos thread kernel on its single simulated CPU: threads           *)
(* (threads/thread.cc), the scheduler (threads/scheduler.cc), semaphores   *)
(* (threads/synch.cc) and the part of the interrupt simulation they rely   *)
(* on (machine/interrupt.cc, threads/alarm.cc).                            *)
(*                                                                         *)
(* Kernel code runs with no preemption except where interrupts are turned  *)
(* back on: SetLevel(IntOn) calls OneTick, which runs the handlers that    *)
(* are due and then, if the timer asked for it, yields.  A step of this    *)
(* module is therefore the code between two such points.  `cpu' says where *)
(* in that code the machine is, pc[t] where the stack of thread t will     *)
(* continue.                                                               *)
(*                                                                         *)
(* The module is the most general client of the kernel: a running thread   *)
(* may call any operation on any semaphore.  Components that use the       *)
(* kernel extend it, take its operations and KernelStep, and put their own *)
(* code in place of Client.                                                *)
(***************************************************************************)
EXTENDS Integers, Sequences, FiniteSets, Functions

CONSTANTS
  Thread,         (* thread objects; a deleted one may be allocated again  *)
  Main,           (* the thread the kernel starts with                     *)
  Sem,            (* semaphore objects                                     *)
  NoThread,       (* NULL, as a Thread pointer                             *)
  NoSem,          (* "not inside P()"                                      *)
  InitialValues,  (* what new Semaphore is called with                     *)
  MaxValue        (* bound: V is not called at this value                  *)

ASSUME ThreadAssumption ==
  /\ Main \in Thread
  /\ IsFiniteSet(Thread)
  /\ NoThread \notin Thread
  /\ NoSem \notin Sem
  /\ InitialValues \subseteq Int
  /\ MaxValue \in Int

VARIABLES
  current,        (* kernel->currentThread                                 *)
  status,         (* Thread::status; "none": no such object                *)
  readyList,      (* Scheduler::readyList                                  *)
  toBeDestroyed,  (* Scheduler::toBeDestroyed                              *)
  cpu,            (* where the machine is, see below                       *)
  yieldOnReturn,  (* Interrupt::yieldOnReturn                              *)
  pc,             (* where the kernel stack of each thread continues       *)
  waits,          (* the semaphore whose P() the thread is inside          *)
  sems,           (* the semaphores that exist                             *)
  value,          (* Semaphore::value                                      *)
  queue           (* Semaphore::queue                                      *)

schedVars == <<current, status, readyList, toBeDestroyed, cpu, yieldOnReturn,
               pc, waits>>
semVars   == <<sems, value, queue>>
vars      == <<schedVars, semVars>>

(***************************************************************************)
(* cpu:  "run"    the current thread runs with interrupts on               *)
(*       "tick"   inside OneTick, handlers may run                         *)
(*       "sleep"  in the loop of Sleep, about to call FindNextToRun        *)
(*       "idle"   in Idle, handlers may run                                *)
(*       "switch" SWITCH just returned into the current thread             *)
(*       "retest" back in the loop of P, interrupts off                    *)
(*       "halted" after Interrupt::Halt                                    *)
(* pc:   "begin"  ThreadRoot has not run yet      "run"     not in the     *)
(*       "yield"  in Yield    "P" in P            "finish"  kernel         *)
(***************************************************************************)
Phase  == {"run", "tick", "sleep", "idle", "switch", "retest", "halted"}
Status == {"none", "READY", "RUNNING", "BLOCKED"}
Label  == {"none", "begin", "run", "yield", "P", "finish"}

TypeOK ==
  /\ current \in Thread
  /\ status \in [Thread -> Status]
  /\ readyList \in Seq(Thread)
  /\ toBeDestroyed \in Thread \cup {NoThread}
  /\ cpu \in Phase
  /\ yieldOnReturn \in BOOLEAN
  /\ pc \in [Thread -> Label]
  /\ waits \in [Thread -> Sem \cup {NoSem}]
  /\ sems \subseteq Sem
  /\ value \in [Sem -> Int]
  /\ queue \in [Sem -> Seq(Thread)]

(* Kernel::Initialize: the running main thread, interrupts enabled, no     *)
(* semaphore yet.                                                          *)
Init ==
  /\ current = Main
  /\ status = [t \in Thread |-> IF t = Main THEN "RUNNING" ELSE "none"]
  /\ readyList = <<>>
  /\ toBeDestroyed = NoThread
  /\ cpu = "tick"
  /\ yieldOnReturn = FALSE
  /\ pc = [t \in Thread |-> IF t = Main THEN "run" ELSE "none"]
  /\ waits = [t \in Thread |-> NoSem]
  /\ sems = {}
  /\ value = [s \in Sem |-> 0]
  /\ queue = [s \in Sem |-> <<>>]

(* For the components: the semaphores exist with values v, and the main    *)
(* thread has forked the other ones.                                       *)
Started(v) ==
  /\ current = Main
  /\ status = [t \in Thread |-> IF t = Main THEN "RUNNING" ELSE "READY"]
  /\ readyList \in [1 .. Cardinality(Thread) - 1 -> Thread \ {Main}]
  /\ IsInjective(readyList)
  /\ toBeDestroyed = NoThread
  /\ cpu = "run"
  /\ yieldOnReturn = FALSE
  /\ pc = [t \in Thread |-> IF t = Main THEN "run" ELSE "begin"]
  /\ waits = [t \in Thread |-> NoSem]
  /\ sems = Sem
  /\ value = v
  /\ queue = [s \in Sem |-> <<>>]

-----------------------------------------------------------------------------
(* Scheduler                                                               *)

(* Scheduler::ReadyToRun                                                   *)
ReadyToRun(t) ==
  /\ status' = [status EXCEPT ![t] = "READY"]
  /\ readyList' = Append(readyList, t)

(* Scheduler::Run, up to SWITCH; st is the status of the threads when it   *)
(* is called.                                                              *)
Run(next, finishing, st) ==
  /\ toBeDestroyed' = IF finishing THEN current ELSE toBeDestroyed
  /\ current' = next
  /\ status' = [st EXCEPT ![next] = "RUNNING"]
  /\ cpu' = "switch"

(* Thread::Sleep once a thread is ready: FindNextToRun, then Run           *)
Dispatch ==
  /\ cpu = "sleep"
  /\ readyList # <<>>
  /\ readyList' = Tail(readyList)
  /\ Run(Head(readyList), pc[current] = "finish", status)
  /\ UNCHANGED <<yieldOnReturn, pc, waits, semVars>>

(* Thread::Sleep with no thread ready: Interrupt::Idle                     *)
Idle ==
  /\ cpu = "sleep"
  /\ readyList = <<>>
  /\ cpu' = "idle"
  /\ UNCHANGED <<current, status, readyList, toBeDestroyed, yieldOnReturn,
                 pc, waits, semVars>>

(* Idle returns to the loop of Sleep once the handlers that were due ran.  *)
(* The timer is always pending, so at least one was.                       *)
IdleReturn ==
  /\ cpu = "idle"
  /\ cpu' = "sleep"
  /\ UNCHANGED <<current, status, readyList, toBeDestroyed, yieldOnReturn,
                 pc, waits, semVars>>

(* SWITCH returns in the new thread: CheckToBeDestroyed, then the rest of  *)
(* Begin or Yield, which turn interrupts on, or of Sleep, inside P.        *)
SwitchIn ==
  /\ cpu = "switch"
  /\ toBeDestroyed' = NoThread
  /\ status' = [t \in Thread |-> IF t = toBeDestroyed THEN "none" ELSE status[t]]
  /\ pc' = [t \in Thread |-> IF t = toBeDestroyed THEN "none"
                             ELSE IF t = current /\ pc[t] # "P" THEN "run"
                             ELSE pc[t]]
  /\ cpu' = IF pc[current] = "P" THEN "retest" ELSE "tick"
  /\ UNCHANGED <<current, readyList, yieldOnReturn, waits, semVars>>

-----------------------------------------------------------------------------
(* Interrupts                                                              *)

(* Alarm::CallBack, the timer handler, in a tick.  In Idle it does         *)
(* nothing.                                                                *)
TimerInterrupt ==
  /\ cpu = "tick"
  /\ yieldOnReturn' = TRUE
  /\ UNCHANGED <<current, status, readyList, toBeDestroyed, cpu, pc, waits,
                 semVars>>

(* Mutant: the thread that yields is put at the front of the ready list    *)
YieldBodyPrepends ==
  IF readyList = <<>>
  THEN /\ cpu' = "tick"
       /\ UNCHANGED <<current, status, readyList, toBeDestroyed, pc>>
  ELSE /\ readyList' = <<current>> \o Tail(readyList)
       /\ pc' = [pc EXCEPT ![current] = "yield"]
       /\ Run(Head(readyList), FALSE, [status EXCEPT ![current] = "READY"])

(* Thread::Yield by the current thread.  Interrupts come back on at its    *)
(* end, here if no other thread is ready, after SWITCH otherwise.          *)
YieldBody ==
  IF readyList = <<>>
  THEN /\ cpu' = "tick"
       /\ UNCHANGED <<current, status, readyList, toBeDestroyed, pc>>
  ELSE /\ readyList' = Append(Tail(readyList), current)
       /\ pc' = [pc EXCEPT ![current] = "yield"]
       /\ Run(Head(readyList), FALSE, [status EXCEPT ![current] = "READY"])

(* The end of Interrupt::OneTick: yield if the timer asked for it          *)
EndTick ==
  /\ cpu = "tick"
  /\ yieldOnReturn' = FALSE
  /\ IF yieldOnReturn
     THEN YieldBody
     ELSE /\ cpu' = "run"
          /\ UNCHANGED <<current, status, readyList, toBeDestroyed, pc>>
  /\ UNCHANGED <<waits, semVars>>

-----------------------------------------------------------------------------
(* Semaphores                                                              *)

(* One turn of the loop of Semaphore::P by the current thread.  When the   *)
(* value is 0 the thread sleeps and the turn is repeated on its return.    *)
PLoop(s) ==
  \/ /\ value[s] = 0
     /\ queue' = [queue EXCEPT ![s] = Append(@, current)]
     /\ status' = [status EXCEPT ![current] = "BLOCKED"]
     /\ pc' = [pc EXCEPT ![current] = "P"]
     /\ waits' = [waits EXCEPT ![current] = s]
     /\ cpu' = "sleep"
     /\ UNCHANGED value
  \/ /\ value[s] # 0
     /\ value' = [value EXCEPT ![s] = @ - 1]
     /\ pc' = [pc EXCEPT ![current] = "run"]
     /\ waits' = [waits EXCEPT ![current] = NoSem]
     /\ cpu' = "tick"
     /\ UNCHANGED <<queue, status>>

(* Semaphore::P called                                                     *)
P(s) ==
  /\ cpu = "run"
  /\ s \in sems
  /\ PLoop(s)
  /\ UNCHANGED <<current, readyList, toBeDestroyed, yieldOnReturn, sems>>

(* Semaphore::P resumed after Sleep                                        *)
PRetest ==
  /\ cpu = "retest"
  /\ PLoop(waits[current])
  /\ UNCHANGED <<current, readyList, toBeDestroyed, yieldOnReturn, sems>>

(* Mutant: V wakes a thread only if the value was 0                        *)
VBodyOnlyFromZero(s) ==
  /\ value' = [value EXCEPT ![s] = @ + 1]
  /\ IF queue[s] = <<>> \/ value[s] # 0
     THEN UNCHANGED <<queue, status, readyList>>
     ELSE /\ ReadyToRun(Head(queue[s]))
          /\ queue' = [queue EXCEPT ![s] = Tail(@)]

(* Mutant: V reads the front of the queue and leaves it there              *)
VBodyKeepsFront(s) ==
  /\ value' = [value EXCEPT ![s] = @ + 1]
  /\ UNCHANGED queue
  /\ IF queue[s] = <<>>
     THEN UNCHANGED <<status, readyList>>
     ELSE ReadyToRun(Head(queue[s]))

(* What Semaphore::V does to the semaphore and the scheduler               *)
VBody(s) ==
  /\ value' = [value EXCEPT ![s] = @ + 1]
  /\ IF queue[s] = <<>>
     THEN UNCHANGED <<queue, status, readyList>>
     ELSE /\ ReadyToRun(Head(queue[s]))
          /\ queue' = [queue EXCEPT ![s] = Tail(@)]

(* Semaphore::V called by a thread, interrupts on before and after         *)
V(s) ==
  /\ cpu = "run"
  /\ s \in sems
  /\ value[s] < MaxValue
  /\ VBody(s)
  /\ cpu' = "tick"
  /\ UNCHANGED <<current, toBeDestroyed, yieldOnReturn, pc, waits, sems>>

(* Semaphore::V called by the handler of a device, interrupts off          *)
HandlerV(s) ==
  /\ cpu \in {"tick", "idle"}
  /\ s \in sems
  /\ value[s] < MaxValue
  /\ VBody(s)
  /\ UNCHANGED <<current, toBeDestroyed, cpu, yieldOnReturn, pc, waits, sems>>

(* new Semaphore                                                           *)
NewSemaphore(s, v) ==
  /\ cpu = "run"
  /\ s \notin sems
  /\ sems' = sems \cup {s}
  /\ value' = [value EXCEPT ![s] = v]
  /\ queue' = [queue EXCEPT ![s] = <<>>]
  /\ UNCHANGED schedVars

(* Mutant: delete looks at the queue only, not at woken threads inside P   *)
DeleteSemaphoreEmptyQueue(s) ==
  /\ cpu = "run"
  /\ s \in sems
  /\ queue[s] = <<>>
  /\ sems' = sems \ {s}
  /\ value' = [value EXCEPT ![s] = 0]
  /\ UNCHANGED <<queue, schedVars>>

(* delete of a semaphore; "assume no one is still waiting" (synch.cc:56)   *)
DeleteSemaphore(s) ==
  /\ cpu = "run"
  /\ s \in sems
  /\ \A t \in Thread : waits[t] # s
  /\ sems' = sems \ {s}
  /\ value' = [value EXCEPT ![s] = 0]
  /\ UNCHANGED <<queue, schedVars>>

-----------------------------------------------------------------------------
(* Threads                                                                 *)

(* new Thread and Thread::Fork                                             *)
Fork(t) ==
  /\ cpu = "run"
  /\ status[t] = "none"
  /\ ReadyToRun(t)
  /\ pc' = [pc EXCEPT ![t] = "begin"]
  /\ cpu' = "tick"
  /\ UNCHANGED <<current, toBeDestroyed, yieldOnReturn, waits, semVars>>

(* Thread::Yield called by the current thread                              *)
Yield ==
  /\ cpu = "run"
  /\ YieldBody
  /\ UNCHANGED <<yieldOnReturn, waits, semVars>>

(* Thread::Finish, and the first half of Sleep(TRUE)                       *)
FinishBody ==
  /\ status' = [status EXCEPT ![current] = "BLOCKED"]
  /\ pc' = [pc EXCEPT ![current] = "finish"]
  /\ cpu' = "sleep"
  /\ UNCHANGED <<current, readyList, toBeDestroyed, yieldOnReturn, waits>>

Finish ==
  /\ cpu = "run"
  /\ FinishBody
  /\ UNCHANGED semVars

(* Machine::Run: one user instruction, then OneTick                        *)
UserInstruction ==
  /\ cpu = "run"
  /\ cpu' = "tick"
  /\ UNCHANGED <<current, status, readyList, toBeDestroyed, yieldOnReturn,
                 pc, waits, semVars>>

(* Interrupt::Halt: the machine stops, whatever the other threads do       *)
Halt ==
  /\ cpu = "run"
  /\ cpu' = "halted"
  /\ UNCHANGED <<current, status, readyList, toBeDestroyed, yieldOnReturn,
                 pc, waits, semVars>>

Halted ==
  /\ cpu = "halted"
  /\ UNCHANGED vars

-----------------------------------------------------------------------------
(* The steps no client chooses, and those it does                          *)

KernelStep == Dispatch \/ Idle \/ IdleReturn \/ SwitchIn \/ EndTick \/ PRetest

(* The calls that end with interrupts being turned on, or in Sleep, and so *)
(* let time pass                                                           *)
Call ==
  \/ \E s \in Sem : P(s) \/ V(s)
  \/ \E t \in Thread : Fork(t)
  \/ Yield
  \/ Finish
  \/ UserInstruction
  \/ Halt

Client ==
  \/ Call
  \/ \E s \in Sem : DeleteSemaphore(s)
  \/ \E s \in Sem, v \in InitialValues : NewSemaphore(s, v)

Next ==
  \/ KernelStep
  \/ Client
  \/ TimerInterrupt
  \/ \E s \in Sem : HandlerV(s)
  \/ Halted

Spec == Init /\ [][Next]_vars

(* The CPU always takes its next step; user instructions and calls both    *)
(* pass the time (Machine::Run, SetLevel), so a thread that runs keeps     *)
(* reaching OneTick or sleeps; and Timer::CallBack always schedules the    *)
(* next timer interrupt, so the timer keeps firing while ticks happen.     *)
Fairness ==
  /\ WF_vars(KernelStep)
  /\ WF_vars(Call)
  /\ SF_vars(TimerInterrupt /\ ~yieldOnReturn)

FairSpec == Spec /\ Fairness

-----------------------------------------------------------------------------
(* Properties                                                              *)

Sleeping == cpu \in {"sleep", "idle"}

(* The ready list holds the READY threads, each once: nothing that is      *)
(* READY is forgotten and nothing is scheduled twice (scheduler.cc).       *)
ReadyListExact ==
  /\ IsInjective(readyList)
  /\ Range(readyList) = {t \in Thread : status[t] = "READY"}

(* The queue of each semaphore holds the threads that sleep in its P(),    *)
(* each once (synch.cc:84-87, 110-112).                                    *)
QueuesExact ==
  \A s \in Sem :
    /\ IsInjective(queue[s])
    /\ Range(queue[s]) = {t \in Thread : status[t] = "BLOCKED" /\ waits[t] = s}

(* One thread is RUNNING, the current one, unless it is in Sleep; a thread *)
(* that is in Sleep for good is the one that is about to be destroyed.     *)
OneRunning ==
  /\ \A t \in Thread : status[t] = "RUNNING" <=> t = current /\ ~Sleeping
  /\ \A t \in Thread : status[t] = "BLOCKED" /\ waits[t] = NoSem
                       => \/ t = toBeDestroyed
                          \/ t = current /\ Sleeping

(* Every thread is in one place: running, on the ready list, on one        *)
(* semaphore's queue, or finishing.                                        *)
OnePlace == ReadyListExact /\ QueuesExact /\ OneRunning

(* The stack of a thread agrees with its status, and with the phase of the *)
(* machine if it is the current one: a woken thread resumes inside the P() *)
(* it slept in, a finished one is never resumed, and the memory of a       *)
(* semaphore outlives the P() calls on it.  toBeDestroyed is set only      *)
(* between the two sides of a SWITCH.                                      *)
ContextsMatch ==
  /\ \A t \in Thread :
       /\ waits[t] # NoSem <=> pc[t] = "P"
       /\ waits[t] \in sems \cup {NoSem}
       /\ status[t] = "none" <=> pc[t] = "none"
       /\ status[t] = "READY" => pc[t] \in {"begin", "yield", "P"}
       /\ status[t] = "BLOCKED" => pc[t] \in {"P", "finish"}
       /\ pc[t] = "finish" => status[t] = "BLOCKED"
  /\ cpu \in {"run", "tick"} => pc[current] = "run"
  /\ cpu = "retest" => pc[current] = "P"
  /\ cpu = "switch" => pc[current] \in {"begin", "yield", "P"}
  /\ Sleeping => status[current] \in {"BLOCKED", "READY"}
  /\ toBeDestroyed # NoThread => cpu = "switch" /\ pc[toBeDestroyed] = "finish"

(* The ASSERTs of the kernel, each at the state in which it is evaluated:  *)
(* toBeDestroyed == NULL in Run (scheduler.cc:111), this != currentThread  *)
(* in ~Thread (thread.cc:69), !IsInList(item) in List::Append              *)
(* (list.cc:78) as called by Yield, V and P.                               *)
AssertionsHold ==
  /\ cpu = "sleep" /\ pc[current] = "finish" => toBeDestroyed = NoThread
  /\ cpu = "switch" => toBeDestroyed # current
  /\ cpu \in {"run", "tick"} => current \notin Range(readyList)
  /\ \A s \in Sem : queue[s] # <<>> => Head(queue[s]) \notin Range(readyList)
  /\ \A s \in Sem : ~Sleeping => current \notin Range(queue[s])

(* The threads V has taken off the queue of s that did not test the value  *)
(* again yet                                                               *)
Woken(s) == {t \in Thread : waits[t] = s /\ status[t] # "BLOCKED"}

(* No wakeup is lost: while threads sleep on a semaphore, each unit of its *)
(* value has a thread on its way to take it.  A third thread that takes    *)
(* the unit first (P lets it) cannot break this (synch.cc:75-117).         *)
NoLostWakeup ==
  \A s \in sems : queue[s] # <<>> => value[s] <= Cardinality(Woken(s))

(* The inductive invariant of the thread kernel                            *)
IInv == TypeOK /\ OnePlace /\ ContextsMatch

(* "semaphore value, always >= 0" (synch.h:52), as far as the operations   *)
(* on a semaphore go: whatever number new Semaphore was given              *)
(* (synch.cc:47-52), no step takes a value that is 0 or more below 0.      *)
StaysNonNegative == \A s \in sems \cap sems' : value[s] >= 0 => value'[s] >= 0

(* A thread that is ready runs in the end: the ready list is first in      *)
(* first out and the timer takes the CPU from whoever holds it.            *)
ReadyRuns ==
  \A t \in Thread : status[t] = "READY"
                    ~> status[t] # "READY" \/ cpu = "halted"

(* A unit of a semaphore's value does not lie unused while a thread sleeps *)
(* in P.                                                                   *)
UnitTaken ==
  \A s \in Sem : queue[s] # <<>> /\ value[s] > 0
                 ~> queue[s] = <<>> \/ value[s] = 0 \/ cpu = "halted"

(* The kernel implements the semaphores its clients are written against:   *)
(* whatever the scheduler, the timer and the queues do between two steps   *)
(* of a P(), the thread inside it leaves only with a unit, a unit is taken *)
(* only where one is, and no semaphore goes away under a sleeper           *)
(* (synch.cc:75-117).                                                      *)
Abstract == INSTANCE Semaphores
Promise == Abstract!Spec
=============================================================================
