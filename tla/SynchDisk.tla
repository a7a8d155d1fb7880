----------------------------- MODULE SynchDisk -----------------------------
(***************************************************************************)
(* The synchronous disk of filesys/synchdisk.cc: threads that read and     *)
(* write sectors of the disk of module Disk with a lock, so that one       *)
(* request is made at a time, and a semaphore its interrupt handler ups.   *)
(* Code between two calls of P or V is one step; time passes between any   *)
(* two steps, at the end of each P and V.                                  *)
(***************************************************************************)
EXTENDS Semaphores, Disk

CONSTANTS
  NoThread,       (* NULL, as a Thread pointer                             *)
  MaxTime         (* bound: after this time no call is made, and time only *)
                  (* passes while the disk is active                       *)

ASSUME SynchDiskAssumption ==
  /\ {"lock", "semaphore"} \subseteq Sem
  /\ NoSem \notin Sem

VARIABLES
  at,             (* where each thread is in ReadSector or WriteSector     *)
  req,            (* what it asked for, and its data buffer                *)
  lockHolder      (* Lock::lockHolder                                      *)

callVars == <<at, req, lockHolder>>
allVars  == <<semaphoreVars, diskVars, callVars>>

SectorRequest == [write : BOOLEAN, sector : Sector, data : Data]

(* A call of ReadSector with a fresh buffer, or of WriteSector             *)
Calls == {r \in SectorRequest : r.write \/ r.data = Blank}

(*   "out" not in a call   "lock" in lock->Acquire()   "request" has it    *)
(*   "wait" asleep in semaphore->P()     "release" about to Release()      *)
Place == {"out", "lock", "request", "wait", "release"}

STypeOK ==
  /\ sems = {"lock", "semaphore"}
  /\ value \in [Sem -> Nat]
  /\ waits \in [Thread -> Sem \cup {NoSem}]
  /\ now \in Nat
  /\ when \in [Device -> Nat]
  /\ active \in BOOLEAN
  /\ lastSector \in Sector
  /\ bufferInit \in Nat
  /\ contents \in [Sector -> Data]
  /\ at \in [Thread -> Place]
  /\ req \in [Thread -> SectorRequest]
  /\ lockHolder \in Thread \cup {NoThread}

(* SynchDisk::SynchDisk, with a disk file that is new                      *)
SInit ==
  /\ sems = {"lock", "semaphore"}
  /\ value = [s \in Sem |-> IF s = "lock" THEN 1 ELSE 0]
  /\ waits = [t \in Thread |-> NoSem]
  /\ DiskStart([s \in Sector |-> Blank])
  /\ at = [t \in Thread |-> "out"]
  /\ req = [t \in Thread |-> [write |-> FALSE, sector |-> 0, data |-> Blank]]
  /\ lockHolder = NoThread

Goto(t, place) == at' = [at EXCEPT ![t] = place]

(* A thread calls ReadSector or WriteSector.                               *)
Call(t, r) ==
  /\ at[t] = "out"
  /\ now <= MaxTime
  /\ Goto(t, "lock")
  /\ req' = [req EXCEPT ![t] = r]
  /\ UNCHANGED <<semaphoreVars, diskVars, lockHolder>>

(* Mutant: the calls do not take the lock                                  *)
AcquireNot(t) ==
  /\ at[t] = "lock"
  /\ Goto(t, "request")
  /\ UNCHANGED <<semaphoreVars, diskVars, req, lockHolder>>

(* Lock::Acquire                                                           *)
Acquire(t) ==
  /\ at[t] = "lock"
  /\ \/ Block(t, "lock") /\ UNCHANGED at
     \/ Take(t, "lock") /\ Goto(t, "request")
  /\ UNCHANGED <<diskVars, req, lockHolder>>

(* Mutant: the call does not wait for the interrupt                        *)
AskNoWait(t) ==
  /\ at[t] = "request"
  /\ lockHolder' = t
  /\ Request(req[t])
  /\ req' = IF req[t].write THEN req
            ELSE [req EXCEPT ![t].data = contents[req[t].sector]]
  /\ Goto(t, "release")
  /\ UNCHANGED semaphoreVars

(* The rest of Acquire, the request, and the first test of P               *)
Ask(t) ==
  /\ at[t] = "request"
  /\ lockHolder' = t
  /\ Request(req[t])
  /\ req' = IF req[t].write THEN req
            ELSE [req EXCEPT ![t].data = contents[req[t].sector]]
  /\ \/ Block(t, "semaphore") /\ Goto(t, "wait")
     \/ Take(t, "semaphore") /\ Goto(t, "release")

(* P returns to a thread that slept.                                       *)
Wake(t) ==
  /\ at[t] = "wait"
  /\ Take(t, "semaphore")
  /\ Goto(t, "release")
  /\ UNCHANGED <<diskVars, req, lockHolder>>

(* Lock::Release, and the return                                           *)
LockRelease(t) ==
  /\ at[t] = "release"
  /\ lockHolder' = NoThread
  /\ Release("lock")
  /\ Goto(t, "out")
  /\ UNCHANGED <<diskVars, req>>

ThreadStep(t) == Acquire(t) \/ Ask(t) \/ Wake(t) \/ LockRelease(t)

(* Mutant: the handler of the disk does not call back                      *)
HandlersNoCallBack(fired) ==
  /\ DiskCallBack(fired)
  /\ UNCHANGED semaphoreVars

(* The handlers that run: Disk::CallBack calls SynchDisk::CallBack; that   *)
(* of the timer only asks for a yield.                                     *)
Handlers(fired) ==
  /\ DiskCallBack(fired)
  /\ IF "disk" \in fired THEN Release("semaphore") ELSE UNCHANGED semaphoreVars

(* Interrupt::OneTick, while some thread can run                           *)
OneTick ==
  /\ \E t \in Thread : waits[t] = NoSem
  /\ now < MaxTime \/ active
  /\ \E ticks \in Ticks, fired \in SUBSET Device :
       /\ CheckIfDue(now + ticks, fired)
       /\ Handlers(fired)
  /\ UNCHANGED callVars

(* Interrupt::Idle, while all sleep                                        *)
Idle ==
  /\ \A t \in Thread : waits[t] # NoSem /\ value[waits[t]] = 0
  /\ \E d \in Device, fired \in SUBSET Device :
       /\ IdleUntil(when[d])
       /\ CheckIfDue(when[d], fired)
       /\ Handlers(fired)
  /\ UNCHANGED callVars

SNext ==
  \/ \E t \in Thread, r \in Calls : Call(t, r)
  \/ \E t \in Thread : ThreadStep(t)
  \/ OneTick
  \/ Idle

SSpec == SInit /\ [][SNext]_allVars

(* A thread that can run is run, and time passes meanwhile.  A thread that *)
(* sleeps is woken if its semaphore stays up, not if others take the unit  *)
(* each time (Threads!UnitTaken).                                          *)
SFairSpec ==
  /\ SSpec
  /\ \A t \in Thread : WF_allVars(ThreadStep(t))
  /\ WF_allVars(OneTick)
  /\ WF_allVars(Idle)

-----------------------------------------------------------------------------
(* Properties                                                              *)

Inside(t) == at[t] \in {"request", "wait", "release"}

(* The lock lets in one thread, "only one disk I/O at a time"              *)
(* (synchdisk.cc:60), and the disk is idle when it makes its request: the  *)
(* ASSERT(!active) of disk.cc:118, 138 holds.                              *)
OneRequest ==
  /\ \A t, u \in Thread : Inside(t) /\ Inside(u) => t = u
  /\ value["lock"] = IF \E t \in Thread : Inside(t) THEN 0 ELSE 1
  /\ \A t \in Thread : at[t] = "request" => ~active /\ value["semaphore"] = 0

(* The answer a thread waits for is owed to it once: the disk is active    *)
(* with an interrupt pending, or the handler has run and its V is unused   *)
(* (synchdisk.cc:61, 91; disk.cc:160).                                     *)
AnswerOwed ==
  /\ active <=> when["disk"] # 0
  /\ active => \E t \in Thread : at[t] = "wait"
  /\ \A t \in Thread : at[t] = "wait" => value["semaphore"] = IF active THEN 0 ELSE 1
  /\ (\A t \in Thread : at[t] # "wait") => value["semaphore"] = 0

(* Where a thread stands in a call, for a caller who does not know how     *)
(* SynchDisk works                                                         *)
Phase(t) ==
  CASE at[t] = "out"                 -> "none"
    [] at[t] \in {"lock", "request"} -> "called"
    [] at[t] = "wait" /\ active      -> "started"
    [] OTHER                         -> "complete"

(* SynchDisk implements the sectors its callers are promised: a call       *)
(* returns after the interrupt for its own request, and requests do not    *)
(* overlap.                                                                *)
Promised == INSTANCE Sectors
              WITH Requests <- SectorRequest, Contents <- [Sector -> Data],
                   phase <- [t \in Thread |-> Phase(t)]
SectorsPromise == Promised!Spec

(* A thread that has the lock returns from its call: the interrupt it      *)
(* sleeps for comes, also when every thread sleeps (synchdisk.cc:57-82).   *)
HolderReturns ==
  \A t \in Thread : Inside(t) ~> at[t] = "out"

(* The inductive invariant: lock, request and answer agree, in every state *)
(* between Acquire and Release (synchdisk.cc:57-93).                       *)
DInv == STypeOK /\ OneRequest /\ AnswerOwed

(* Interrupts come on time, and the disk takes the time that its geometry  *)
(* and the position of the head ask for.                                   *)
OnTime == NothingOverdue /\ LatencyIsPhysical
=============================================================================
