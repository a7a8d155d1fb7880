------------------------------ MODULE ConsoleIn ------------------------------
(***************************************************************************)
(* The keyboard: the device (machine/console.cc, ConsoleInput) and the     *)
(* synchronized access to it (userprog/synchconsole.cc,                    *)
(* SynchConsoleInput), used by threads of the kernel of Threads.           *)
(*                                                                         *)
(* The system calls ReadNum, ReadChar and ReadString take characters with  *)
(* GetChar, under `lock'; Read takes a line with Read, under `RLineBlock'. *)
(* Nothing in the build reads Lock::lockHolder: the lock is its semaphore. *)
(***************************************************************************)
EXTENDS Threads

CONSTANTS
  CharReaders,   (* threads that call GetChar                              *)
  LineReaders,   (* threads that call Read                                 *)
  MaxLine,       (* bound: the longest buffer of Read                      *)
  Char,          (* bytes other than 0xFF that may be typed                *)
  Endl,          (* those that end a line: '\n' and ctrl-A                 *)
  EOF            (* no character; the byte 0xFF, as a char, is this too    *)

lock       == "lock"
waitFor    == "waitFor"
RLineBlock == "RLineBlock"

ASSUME ConsoleInAssumption ==
  /\ CharReaders \cup LineReaders = Thread
  /\ MaxLine \in Nat
  /\ Endl \subseteq Char
  /\ EOF \notin Char
  /\ Sem = {lock, waitFor, RLineBlock}
  /\ MaxValue > 2

VARIABLES
  incoming,   (* ConsoleInput::incoming                                    *)
  polling,    (* a ConsoleReadInt is pending                               *)
  ended,      (* the last byte delivered was EOF                           *)
  at,         (* where each thread continues                               *)
  loop,       (* characters Read has put in its buffer                     *)
  numBytes    (* the size of that buffer                                   *)

inVars  == <<incoming, polling, ended, at, loop, numBytes>>
allVars == <<vars, inVars>>

Place == {"idle", "get", "take", "line", "lineTake"}

(* SynchConsoleInput::SynchConsoleInput, ConsoleInput::ConsoleInput        *)
IInit ==
  /\ Started([s \in Sem |-> IF s = waitFor THEN 0 ELSE 1])
  /\ incoming = EOF
  /\ polling = TRUE
  /\ ended = FALSE
  /\ at = [t \in Thread |-> "idle"]
  /\ loop = [t \in Thread |-> 0]
  /\ numBytes = [t \in Thread |-> 0]

At(l) == cpu = "run" /\ at[current] = l

Goto(l) == at' = [at EXCEPT ![current] = l]

-----------------------------------------------------------------------------
(* The device                                                              *)

(* Mutant: the handler does not call back                                  *)
ReadInterruptNoCallBack(c) ==
  /\ polling
  /\ cpu \in {"tick", "idle"}
  /\ incoming' = c
  /\ polling' = FALSE
  /\ ended' = (c = EOF)
  /\ UNCHANGED <<vars, at, loop, numBytes>>

(* ConsoleInput::CallBack, the ConsoleReadInt handler, with something to   *)
(* read, and SynchConsoleInput::CallBack.  At the end of the file, or on   *)
(* the byte 0xFF, c is EOF.  With nothing to read it only polls again.     *)
ReadInterrupt(c) ==
  /\ polling
  /\ HandlerV(waitFor)
  /\ incoming' = c
  /\ polling' = FALSE
  /\ ended' = (c = EOF)
  /\ UNCHANGED <<at, loop, numBytes>>

(* Mutant: the poll is not scheduled again                                 *)
DeviceGetCharNoPoll ==
  /\ incoming' = EOF
  /\ UNCHANGED <<polling, ended>>

(* ConsoleInput::GetChar                                                   *)
DeviceGetChar ==
  /\ polling' = (polling \/ incoming # EOF)
  /\ incoming' = EOF
  /\ UNCHANGED ended

-----------------------------------------------------------------------------
(* SynchConsoleInput::GetChar                                              *)

(* lock->Acquire                                                           *)
GetChar ==
  /\ At("idle")
  /\ current \in CharReaders
  /\ P(lock)
  /\ Goto("get")
  /\ UNCHANGED <<incoming, polling, ended, loop, numBytes>>

(* waitFor->P                                                              *)
GetCharWait ==
  /\ At("get")
  /\ P(waitFor)
  /\ Goto("take")
  /\ UNCHANGED <<incoming, polling, ended, loop, numBytes>>

(* consoleInput->GetChar, lock->Release                                    *)
GetCharDone ==
  /\ At("take")
  /\ DeviceGetChar
  /\ V(lock)
  /\ Goto("idle")
  /\ UNCHANGED <<loop, numBytes>>

-----------------------------------------------------------------------------
(* SynchConsoleInput::Read                                                 *)

(* Mutant: Read does not take RLineBlock                                   *)
ReadNoLock(n) ==
  /\ At("idle")
  /\ current \in LineReaders
  /\ UserInstruction
  /\ Goto("line")
  /\ numBytes' = [numBytes EXCEPT ![current] = n]
  /\ UNCHANGED <<incoming, polling, ended, loop>>

(* RLineBlock->P                                                           *)
Read(n) ==
  /\ At("idle")
  /\ current \in LineReaders
  /\ P(RLineBlock)
  /\ Goto("line")
  /\ numBytes' = [numBytes EXCEPT ![current] = n]
  /\ UNCHANGED <<incoming, polling, ended, loop>>

(* RLineBlock->V                                                           *)
ReadReturn ==
  /\ V(RLineBlock)
  /\ Goto("idle")
  /\ loop' = [loop EXCEPT ![current] = 0]
  /\ numBytes' = [numBytes EXCEPT ![current] = 0]

(* The loop is entered: waitFor->P, if the buffer has room                 *)
ReadFirst ==
  /\ At("line")
  /\ \/ /\ numBytes[current] = 0
        /\ ReadReturn
     \/ /\ numBytes[current] > 0
        /\ P(waitFor)
        /\ Goto("lineTake")
        /\ UNCHANGED <<loop, numBytes>>
  /\ UNCHANGED <<incoming, polling, ended>>

(* The rest of a turn: consoleInput->GetChar, then waitFor->P again or     *)
(* RLineBlock->V                                                           *)
ReadTake ==
  /\ At("lineTake")
  /\ DeviceGetChar
  /\ LET got  == IF incoming \in Char \ Endl THEN 1 ELSE 0
         more == incoming \notin Endl /\ loop[current] + got < numBytes[current]
     IN  \/ /\ more
            /\ P(waitFor)
            /\ loop' = [loop EXCEPT ![current] = @ + got]
            /\ UNCHANGED <<at, numBytes>>
         \/ /\ ~more
            /\ ReadReturn

-----------------------------------------------------------------------------
Elsewhere == At("idle") /\ UserInstruction /\ UNCHANGED inVars

Kernel == KernelStep /\ UNCHANGED inVars

Timer == TimerInterrupt /\ UNCHANGED inVars

Typed == \E c \in Char \cup {EOF} : ReadInterrupt(c)

InCall == GetCharWait \/ GetCharDone \/ ReadFirst \/ ReadTake

InputCall == GetChar \/ \E n \in 0 .. MaxLine : Read(n)

INext == Kernel \/ Timer \/ Typed \/ InCall \/ InputCall \/ Elsewhere

ISpec == IInit /\ [][INext]_allVars

(* The CPU takes its next step, and the timer keeps firing, but not each   *)
(* time the same thread is back from a switch (it is set to TimerTicks =   *)
(* 100, a system tick is 10).  Nobody has to type: nothing is assumed of   *)
(* Typed.                                                                  *)
IFairness ==
  /\ WF_allVars(Kernel)
  /\ WF_allVars(InCall)
  /\ WF_allVars(InputCall \/ Elsewhere)
  /\ SF_allVars(Timer /\ ~yieldOnReturn)
  /\ \A t \in Thread :
       SF_allVars(Kernel /\ cpu = "tick" /\ current = t /\ ~yieldOnReturn)

IFairSpec == ISpec /\ IFairness

-----------------------------------------------------------------------------
(* Properties                                                              *)

(* Every variable keeps its type.                                          *)
ITypeOK ==
  /\ TypeOK
  /\ incoming \in Char \cup {EOF}
  /\ polling \in BOOLEAN
  /\ ended \in BOOLEAN
  /\ at \in [Thread -> Place]
  /\ loop \in [Thread -> 0 .. MaxLine]
  /\ numBytes \in [Thread -> 0 .. MaxLine]
  /\ \A t \in Thread : loop[t] <= numBytes[t]

(* The threads that are behind waitFor->P and about to read the device     *)
Taking == {t \in Thread : at[t] \in {"take", "lineTake"} /\ waits[t] = NoSem}

(* The device is in one state: it polls, or it has told the kernel of a    *)
(* character that no thread has taken, or one thread is about to take it;  *)
(* after EOF it stays silent (console.cc:64-111, synchconsole.cc:54-55,    *)
(* 91-92).                                                                 *)
OneCharAtATime ==
  LET n == value[waitFor] + Cardinality(Taking) + (IF polling THEN 1 ELSE 0)
  IN  n <= 1 /\ (n = 0 => ended)

(* ASSERT(incoming == EOF) in ConsoleInput::CallBack (console.cc:70): no   *)
(* character arrives on top of one that was not taken.  And a thread that  *)
(* is through waitFor->P finds one, unless it is the EOF.                  *)
NoCharLost ==
  /\ polling => incoming = EOF
  /\ Taking # {} => incoming # EOF \/ ended

(* The characters of a line go to one Read: no other Read takes one in     *)
(* between ("Block for a read line", synchconsole.cc:83).                  *)
ReadsWhole ==
  [][incoming # EOF /\ incoming' = EOF /\ at[current] = "lineTake"
     => \A t \in Thread \ {current} : loop[t] = 0]_allVars

(* A character that has arrived is taken if a thread is there to take it.  *)
CharTaken ==
  (\E t \in Thread : at[t] \in {"take", "lineTake"}) /\ incoming # EOF
    ~> incoming = EOF

(* Characters are kept from the device to the thread that reads: one at a  *)
(* time, none overwritten, and none announced twice.                       *)
CharsKept == ITypeOK /\ OneCharAtATime /\ NoCharLost
=============================================================================
