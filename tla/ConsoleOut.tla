----------------------------- MODULE ConsoleOut -----------------------------
(***************************************************************************)
(* The display: the device (machine/console.cc, ConsoleOutput) and the     *)
(* synchronized access to it (userprog/synchconsole.cc,                    *)
(* SynchConsoleOutput), used by threads of the kernel of Threads.          *)
(*                                                                         *)
(* The system calls PrintNum and Write put single characters with PutChar, *)
(* under `lock'; PrintString and PrintChar put lines with Write, under     *)
(* `WLineBlock'.  Both use the same device and the same `waitFor'.  A      *)
(* character is not modelled, only that it was put.  Nothing in the build  *)
(* reads Lock::lockHolder: the lock is its semaphore.                      *)
(***************************************************************************)
EXTENDS Threads

CONSTANTS
  CharWriters,   (* threads that call PutChar                              *)
  LineWriters,   (* threads that call Write                                *)
  MaxLine        (* bound: the longest line                                *)

lock       == "lock"
waitFor    == "waitFor"
WLineBlock == "WLineBlock"

ASSUME ConsoleOutAssumption ==
  /\ CharWriters \cup LineWriters = Thread
  /\ MaxLine \in Nat
  /\ Sem = {lock, waitFor, WLineBlock}
  /\ MaxValue > 2

VARIABLES
  putBusy,   (* ConsoleOutput::putBusy; a ConsoleWriteInt is pending       *)
  at,        (* where each thread continues                                *)
  loop,      (* characters of its line that a thread has put               *)
  left,      (* and those it has yet to put                                *)
  aborted    (* an ASSERT failed                                           *)

outVars == <<putBusy, at, loop, left, aborted>>
allVars == <<vars, outVars>>

Place == {"idle", "put", "putDone", "line"}

(* The kernel is up and has started the threads.                           *)
OInit ==
  /\ Started([s \in Sem |-> IF s = waitFor THEN 0 ELSE 1])
  /\ putBusy = FALSE
  /\ at = [t \in Thread |-> "idle"]
  /\ loop = [t \in Thread |-> 0]
  /\ left = [t \in Thread |-> 0]
  /\ aborted = FALSE

At(l) == cpu = "run" /\ at[current] = l

Goto(l) == at' = [at EXCEPT ![current] = l]

-----------------------------------------------------------------------------
(* The device                                                              *)

(* ASSERT(putBusy == FALSE) fails in ConsoleOutput::PutChar                *)
Abort ==
  /\ putBusy
  /\ Halt
  /\ aborted' = TRUE
  /\ UNCHANGED <<putBusy, at, loop, left>>

(* Mutant: the handler leaves the device busy                              *)
WriteInterruptStaysBusy ==
  /\ putBusy
  /\ HandlerV(waitFor)
  /\ UNCHANGED <<putBusy, at, loop, left, aborted>>

(* Mutant: the handler does not call back                                  *)
WriteInterruptNoCallBack ==
  /\ putBusy
  /\ cpu \in {"tick", "idle"}
  /\ putBusy' = FALSE
  /\ UNCHANGED <<vars, at, loop, left, aborted>>

(* ConsoleOutput::CallBack, the ConsoleWriteInt handler, and               *)
(* SynchConsoleOutput::CallBack                                            *)
WriteInterrupt ==
  /\ putBusy
  /\ HandlerV(waitFor)
  /\ putBusy' = FALSE
  /\ UNCHANGED <<at, loop, left, aborted>>

-----------------------------------------------------------------------------
(* SynchConsoleOutput::PutChar                                             *)

(* Mutant: PutChar does not take the lock                                  *)
PutCharNoLock ==
  /\ At("idle")
  /\ current \in CharWriters
  /\ UserInstruction
  /\ Goto("put")
  /\ UNCHANGED <<putBusy, loop, left, aborted>>

(* lock->Acquire                                                           *)
PutChar ==
  /\ At("idle")
  /\ current \in CharWriters
  /\ P(lock)
  /\ Goto("put")
  /\ UNCHANGED <<putBusy, loop, left, aborted>>

(* consoleOutput->PutChar and waitFor->P                                   *)
PutCharPut ==
  /\ At("put")
  /\ \/ Abort
     \/ /\ ~putBusy
        /\ putBusy' = TRUE
        /\ P(waitFor)
        /\ Goto("putDone")
        /\ UNCHANGED <<loop, left, aborted>>

(* lock->Release                                                           *)
PutCharDone ==
  /\ At("putDone")
  /\ V(lock)
  /\ Goto("idle")
  /\ UNCHANGED <<putBusy, loop, left, aborted>>

-----------------------------------------------------------------------------
(* SynchConsoleOutput::Write                                               *)

(* Mutant: Write does not take WLineBlock                                  *)
WriteNoLock(n) ==
  /\ At("idle")
  /\ current \in LineWriters
  /\ UserInstruction
  /\ Goto("line")
  /\ left' = [left EXCEPT ![current] = n]
  /\ UNCHANGED <<putBusy, loop, aborted>>

(* WLineBlock->P                                                           *)
Write(n) ==
  /\ At("idle")
  /\ current \in LineWriters
  /\ P(WLineBlock)
  /\ Goto("line")
  /\ left' = [left EXCEPT ![current] = n]
  /\ UNCHANGED <<putBusy, loop, aborted>>

(* A turn of the loop: consoleOutput->PutChar and waitFor->P               *)
WritePut ==
  /\ At("line")
  /\ left[current] > 0
  /\ \/ Abort
     \/ /\ ~putBusy
        /\ putBusy' = TRUE
        /\ P(waitFor)
        /\ left' = [left EXCEPT ![current] = @ - 1]
        /\ loop' = [loop EXCEPT ![current] = @ + 1]
        /\ UNCHANGED <<at, aborted>>

(* WLineBlock->V                                                           *)
WriteDone ==
  /\ At("line")
  /\ left[current] = 0
  /\ V(WLineBlock)
  /\ Goto("idle")
  /\ loop' = [loop EXCEPT ![current] = 0]
  /\ UNCHANGED <<putBusy, left, aborted>>

-----------------------------------------------------------------------------
Elsewhere == At("idle") /\ UserInstruction /\ UNCHANGED outVars

Kernel == KernelStep /\ UNCHANGED outVars

Timer == TimerInterrupt /\ UNCHANGED outVars

Stopped == Halted /\ UNCHANGED outVars

InCall == PutCharPut \/ PutCharDone \/ WritePut \/ WriteDone

OutputCall == PutChar \/ \E n \in 0 .. MaxLine : Write(n)

ONext ==
  \/ Kernel \/ Timer \/ Stopped \/ WriteInterrupt
  \/ InCall \/ OutputCall \/ Elsewhere

OSpec == OInit /\ [][ONext]_allVars

(* The CPU takes its next step; the device interrupts once its time has    *)
(* come; the timer keeps firing, but not each time the same thread is back *)
(* from a switch (it is set to TimerTicks = 100, a system tick is 10).     *)
OFairness ==
  /\ WF_allVars(Kernel)
  /\ WF_allVars(InCall)
  /\ WF_allVars(OutputCall \/ Elsewhere)
  /\ SF_allVars(WriteInterrupt)
  /\ SF_allVars(Timer /\ ~yieldOnReturn)
  /\ \A t \in Thread :
       SF_allVars(Kernel /\ cpu = "tick" /\ current = t /\ ~yieldOnReturn)

OFairSpec == OSpec /\ OFairness

-----------------------------------------------------------------------------
(* Properties                                                              *)

(* Every variable keeps its type.                                          *)
OTypeOK ==
  /\ TypeOK
  /\ putBusy \in BOOLEAN
  /\ at \in [Thread -> Place]
  /\ loop \in [Thread -> 0 .. MaxLine]
  /\ left \in [Thread -> 0 .. MaxLine]
  /\ aborted \in BOOLEAN

InPutChar(t) == at[t] \in {"put", "putDone"} /\ waits[t] # lock
InWrite(t)   == at[t] = "line" /\ waits[t] # WLineBlock

(* Calls of both kinds use the device at a time                            *)
Mixed == \E t, u \in Thread : InPutChar(t) /\ InWrite(u)

(* "Is a PutChar operation in progress?  If so, you can't do another one!" *)
(* (console.h:87-88).  The ASSERT of console.cc:169 fails at most where a  *)
(* PutChar and a Write use the device together: either lock alone keeps    *)
(* calls of its kind apart, and a PutChar or a Write that overlaps with    *)
(* another and is over leaves the device in order.                         *)
AbortOnlyMixed == aborted => Mixed

(* For every thread that waits for the device there is a character in it   *)
(* or an answer not yet taken, whoever takes it: no answer is lost or      *)
(* given twice, even where the two locks let calls mix.                    *)
AnswersOwed ==
  Cardinality({t \in Thread : waits[t] = waitFor})
    = value[waitFor] + IF putBusy THEN 1 ELSE 0

(* The thread has put a character and is behind the waitFor->P after it    *)
Answered(t) == waits[t] = NoSem /\ (at[t] = "putDone" \/ loop[t] > 0)

(* waitFor->P returns to the thread whose character the device has put,    *)
(* not to another, and not early (synchconsole.cc:153-154, 179-180).       *)
WaitMatchesPut ==
  ~Mixed => /\ putBusy => value[waitFor] = 0
            /\ putBusy \/ value[waitFor] > 0 => \A t \in Thread : ~Answered(t)

(* Between the first and the last character of a Write no other Write puts *)
(* one: lines are not mixed ("Block for the line", synchconsole.cc:173).   *)
LinesWhole ==
  [][~putBusy /\ putBusy' /\ at[current] = "line"
     => \A t \in Thread \ {current} : ~(loop[t] > 0 /\ left[t] > 0)]_allVars

(* A call that is past lock->Acquire or WLineBlock->P returns, unless one  *)
(* of the other kind gets between it and the device.  A call that waits    *)
(* for its lock need not return: P lets a thread that calls later pass a   *)
(* woken one (synch.cc:84-87).                                             *)
HoldersReturn ==
  \A t \in Thread : InPutChar(t) \/ InWrite(t)
                    ~> at[t] = "idle" \/ Mixed \/ cpu = "halted"

(* The answers of the device go where they belong: none is lost, given     *)
(* twice or, unless calls mix, taken by another thread than the one whose  *)
(* character it is for.                                                    *)
AnswersRight == OTypeOK /\ AnswersOwed /\ WaitMatchesPut
=============================================================================
