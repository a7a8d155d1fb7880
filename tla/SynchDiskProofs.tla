-------------------------- MODULE SynchDiskProofs --------------------------
(***************************************************************************)
(* SynchDisk implements Sectors, for any number of threads and sectors and *)
(* any geometry and speed of the disk.                                     *)
(***************************************************************************)
EXTENDS SynchDisk, TLAPS

-----------------------------------------------------------------------------
(* Latency                                                                 *)

(* Integer division as the disk uses it                                    *)
LEMMA DivMod ==
  ASSUME NEW a \in Nat, NEW b \in Nat, b > 0
  PROVE  /\ a \div b \in Nat
         /\ a % b \in Nat
         /\ a % b < b
  OBVIOUS

LEMMA TimesNat ==
  ASSUME NEW a \in Nat, NEW b \in Nat
  PROVE  a * b \in Nat
  OBVIOUS

(* The latency of a request is at least the time of one transfer, so that  *)
(* the ASSERT(fromNow > 0) of Schedule holds (interrupt.cc:262).           *)
LEMMA LatencyPositive ==
  ASSUME STypeOK, NEW sector \in Sector, NEW writing \in BOOLEAN
  PROVE  /\ ComputeLatency(sector, writing) \in Nat \ {0}
         /\ TimeToSeek(sector) \in Nat
         /\ Rotation(sector) \in Nat
<1> USE DiskAssumption
<1>1. /\ sector \in Nat /\ now \in Nat /\ lastSector \in Nat
      /\ SectorsPerTrack \in Nat /\ SectorsPerTrack > 0
      /\ RotationTime \in Nat /\ RotationTime > 0
      /\ SeekTime \in Nat
  BY DEF STypeOK, Sector
<1>2. TimeToSeek(sector) \in Nat
  <2>1. /\ sector \div SectorsPerTrack \in Nat
        /\ lastSector \div SectorsPerTrack \in Nat
    BY <1>1, DivMod
  <2>2. Distance(sector \div SectorsPerTrack, lastSector \div SectorsPerTrack) \in Nat
    BY <2>1 DEF Distance
  <2>3. QED
    BY <1>1, <2>2, TimesNat DEF TimeToSeek
<1>3. Rotation(sector) \in Nat
  <2> DEFINE over == (now + TimeToSeek(sector)) % RotationTime
  <2>1. over \in Nat /\ over < RotationTime
    BY <1>1, <1>2, DivMod
  <2>2. QED
    BY <1>1, <2>1 DEF Rotation
<1>4. ASSUME NEW to \in Nat, NEW from \in Nat
      PROVE  ModuloDiff(to, from) \in Nat
  <2>1. /\ to % SectorsPerTrack \in Nat
        /\ from % SectorsPerTrack \in Nat /\ from % SectorsPerTrack < SectorsPerTrack
    BY <1>1, DivMod
  <2>2. (to % SectorsPerTrack) - (from % SectorsPerTrack) + SectorsPerTrack \in Nat
    BY <1>1, <2>1
  <2>3. QED
    BY <1>1, <2>2, DivMod DEF ModuloDiff
<1>5. ComputeLatency(sector, writing) \in Nat \ {0}
  <2> DEFINE timeAfter == now + TimeToSeek(sector) + Rotation(sector)
             diff == ModuloDiff(sector, timeAfter \div RotationTime)
  <2>1. timeAfter \div RotationTime \in Nat
    BY <1>1, <1>2, <1>3, DivMod
  <2>2. diff * RotationTime \in Nat
    BY <1>1, <1>4, <2>1, TimesNat
  <2>3. TimeToSeek(sector) + Rotation(sector) + RotationTime + diff * RotationTime
          \in Nat \ {0}
    <3> HIDE DEF diff
    <3>1. QED
      BY <1>1, <1>2, <1>3, <2>2
  <2>4. \/ ComputeLatency(sector, writing) = RotationTime
        \/ ComputeLatency(sector, writing)
             = TimeToSeek(sector) + Rotation(sector) + RotationTime + diff * RotationTime
    BY DEF ComputeLatency
  <2>5. QED
    BY <1>1, <2>3, <2>4
<1>6. QED
  BY <1>2, <1>3, <1>5

-----------------------------------------------------------------------------
(* One request at a time                                                   *)

(* The state after SynchDisk::SynchDisk satisfies the invariant.           *)
LEMMA InitDInv == SInit => DInv
<1> SUFFICES ASSUME SInit PROVE DInv
  OBVIOUS
<1> USE SynchDiskAssumption, DiskAssumption, InterruptAssumption
        DEF SInit, DiskStart, ClockInit
<1>1. \A delay \in TimerDelay : delay \in Nat
  BY DEF TimerDelay
<1>2. active \in BOOLEAN /\ ~active
  BY Zenon
<1>3. STypeOK
  BY <1>1, <1>2 DEF STypeOK, Sector, Place, SectorRequest
<1>4. OneRequest /\ AnswerOwed
  BY <1>2 DEF OneRequest, AnswerOwed, Inside
<1>5. QED
  BY <1>3, <1>4 DEF DInv

(* A call keeps the invariant.                                             *)
LEMMA CallDInv ==
  ASSUME DInv, NEW t \in Thread, NEW r \in Calls, Call(t, r)
  PROVE  DInv'
<1> USE DEF DInv, Call, Goto, semaphoreVars, diskVars, clockVars, Calls
<1>1. STypeOK'
  BY DEF STypeOK, Place
<1>2. OneRequest' /\ AnswerOwed'
  BY DEF OneRequest, AnswerOwed, Inside, STypeOK
<1>3. QED
  BY <1>1, <1>2

(* Lock::Acquire keeps the invariant.                                      *)
LEMMA AcquireDInv ==
  ASSUME DInv, NEW t \in Thread, Acquire(t)
  PROVE  DInv'
<1> USE SynchDiskAssumption DEF DInv, Acquire, Goto, diskVars, clockVars
<1>1. CASE Block(t, "lock") /\ UNCHANGED at
  <2>1. STypeOK'
    BY <1>1 DEF STypeOK, Block
  <2>2. OneRequest' /\ AnswerOwed'
    BY <1>1 DEF OneRequest, AnswerOwed, Inside, Block
  <2>3. QED
    BY <2>1, <2>2
<1>2. CASE Take(t, "lock") /\ at' = [at EXCEPT ![t] = "request"]
  <2>1. /\ value["lock"] = 1
        /\ \A u \in Thread : ~Inside(u)
        /\ ~active
        /\ value["semaphore"] = 0
    BY <1>2 DEF Take, OneRequest, AnswerOwed, Inside
  <2>2. value' = [value EXCEPT !["lock"] = 0] /\ UNCHANGED sems
    BY <1>2, <2>1 DEF Take, STypeOK
  <2>3. STypeOK'
    BY <1>2, <2>2 DEF STypeOK, Take, Place
  <2>4. OneRequest' /\ AnswerOwed'
    BY <1>2, <2>1, <2>2 DEF OneRequest, AnswerOwed, Inside, STypeOK
  <2>5. QED
    BY <2>3, <2>4
<1>3. QED
  BY <1>1, <1>2

(* A request finds the disk idle and the semaphore down, and keeps the     *)
(* invariant.                                                              *)
LEMMA AskDInv ==
  ASSUME DInv, NEW t \in Thread, Ask(t)
  PROVE  DInv'
<1> USE SynchDiskAssumption, DiskAssumption
<1>1. /\ at[t] = "request"
      /\ ~active
      /\ value["semaphore"] = 0
      /\ req[t] \in SectorRequest
      /\ \A u \in Thread : u # t => ~Inside(u)
  BY DEF DInv, STypeOK, Ask, OneRequest, Inside
<1>2. /\ Block(t, "semaphore")
      /\ at' = [at EXCEPT ![t] = "wait"]
  BY <1>1 DEF Ask, Take, Goto
<1>3. /\ UNCHANGED <<value, sems, now>>
      /\ waits' \in [Thread -> Sem \cup {NoSem}]
  BY <1>2 DEF Block, DInv, STypeOK, Ask, Request, Schedule
<1>4. /\ when' = [when EXCEPT !["disk"] = when'["disk"]]
      /\ when'["disk"] \in Nat \ {0}
  <2>1. ComputeLatency(req[t].sector, req[t].write) \in Nat \ {0}
    BY <1>1, LatencyPositive DEF DInv, SectorRequest
  <2>2. when' = [when EXCEPT !["disk"] = now + ComputeLatency(req[t].sector, req[t].write)]
    BY DEF Ask, Request, Schedule
  <2>3. QED
    BY <2>1, <2>2 DEF DInv, STypeOK
<1>5. active' \in BOOLEAN /\ active'
  BY Zenon DEF Ask, Request
<1>6. /\ lastSector' \in Sector
      /\ bufferInit' \in Nat
      /\ contents' \in [Sector -> Data]
  <2>1. req[t].sector \in Sector /\ req[t].data \in Data
    BY <1>1 DEF SectorRequest
  <2>2. TimeToSeek(req[t].sector) \in Nat /\ Rotation(req[t].sector) \in Nat
    BY <2>1, LatencyPositive DEF DInv
  <2>3. QED
    BY <2>1, <2>2 DEF Ask, Request, UpdateLast, DInv, STypeOK
<1>7. req' \in [Thread -> SectorRequest] /\ lockHolder' \in Thread \cup {NoThread}
  <2>1. contents[req[t].sector] \in Data
    BY <1>1 DEF DInv, STypeOK, SectorRequest
  <2>2. QED
    BY <1>1, <2>1 DEF Ask, DInv, STypeOK, SectorRequest
<1>8. at' \in [Thread -> Place]
  BY <1>2 DEF DInv, STypeOK, Place
<1>9. STypeOK'
  BY <1>3, <1>4, <1>5, <1>6, <1>7, <1>8 DEF DInv, STypeOK
<1>10. OneRequest'
  BY <1>1, <1>2, <1>3 DEF DInv, STypeOK, OneRequest, Inside
<1>11. AnswerOwed'
  BY <1>1, <1>2, <1>3, <1>4, <1>5 DEF DInv, STypeOK, AnswerOwed, Inside
<1>12. QED
  BY <1>9, <1>10, <1>11 DEF DInv

(* To wake from P with the answer keeps the invariant.                     *)
LEMMA WakeDInv ==
  ASSUME DInv, NEW t \in Thread, Wake(t)
  PROVE  DInv'
<1> USE SynchDiskAssumption DEF DInv, Wake, Goto, diskVars, clockVars
<1>1. /\ value["semaphore"] = 1
      /\ ~active
      /\ \A u \in Thread : u # t => ~Inside(u)
  BY DEF Take, AnswerOwed, OneRequest, Inside
<1>2. value' = [value EXCEPT !["semaphore"] = 0] /\ UNCHANGED sems
  BY <1>1 DEF Take, STypeOK
<1>3. STypeOK'
  BY <1>2 DEF STypeOK, Take, Place
<1>4. OneRequest' /\ AnswerOwed'
  BY <1>1, <1>2 DEF OneRequest, AnswerOwed, Inside, STypeOK
<1>5. QED
  BY <1>3, <1>4

(* Lock::Release and the return keep the invariant.                        *)
LEMMA ReleaseDInv ==
  ASSUME DInv, NEW t \in Thread, LockRelease(t)
  PROVE  DInv'
<1> USE SynchDiskAssumption DEF DInv, LockRelease, Goto, diskVars, clockVars
<1>1. /\ value["lock"] = 0
      /\ \A u \in Thread : u # t => ~Inside(u)
  BY DEF OneRequest, Inside
<1>2. value' = [value EXCEPT !["lock"] = 1] /\ UNCHANGED <<sems, waits>>
  BY <1>1 DEF Release, STypeOK
<1>3. STypeOK'
  BY <1>2 DEF STypeOK, Place
<1>4. OneRequest' /\ AnswerOwed'
  BY <1>1, <1>2 DEF OneRequest, AnswerOwed, Inside, STypeOK
<1>5. QED
  BY <1>3, <1>4

(* The handlers of a tick, or of Idle, keep the invariant.                 *)
LEMMA TimeDInv ==
  ASSUME DInv, NEW n \in Nat, NEW fired \in SUBSET Device,
         CheckIfDue(n, fired), Handlers(fired), UNCHANGED callVars
  PROVE  DInv'
<1> USE SynchDiskAssumption, DiskAssumption, InterruptAssumption
        DEF DInv, CheckIfDue, Handlers, DiskCallBack, callVars
<1>1. /\ now' \in Nat
      /\ when' \in [Device -> Nat]
      /\ when'["disk"] = IF "disk" \in fired THEN 0 ELSE when["disk"]
  <2>1. \A delay \in TimerDelay : delay \in Nat
    BY DEF TimerDelay
  <2>2. QED
    BY <2>1 DEF STypeOK
<1>2. CASE "disk" \in fired
  <2>1. when["disk"] # 0
    BY <1>2 DEF Due
  <2>2. active
    BY <2>1 DEF AnswerOwed
  <2>3. PICK t \in Thread : at[t] = "wait"
    BY <2>2 DEF AnswerOwed
  <2>4. value["semaphore"] = 0
    BY <2>2, <2>3 DEF AnswerOwed
  <2>5. /\ value' = [value EXCEPT !["semaphore"] = 1]
        /\ UNCHANGED <<sems, waits>>
    BY <1>2, <2>4 DEF Release, STypeOK
  <2>6. active' \in BOOLEAN /\ ~active'
    BY <1>2, Zenon
  <2>7. STypeOK'
    BY <1>1, <2>5, <2>6 DEF STypeOK
  <2>8. \A u \in Thread : at[u] # "request"
    BY <2>3 DEF OneRequest, Inside
  <2>9. OneRequest'
    BY <2>5, <2>8 DEF OneRequest, Inside, STypeOK
  <2>10. AnswerOwed'
    BY <1>1, <1>2, <2>3, <2>5, <2>6 DEF AnswerOwed, STypeOK
  <2>11. QED
    BY <2>7, <2>9, <2>10
<1>3. CASE "disk" \notin fired
  <2>1. UNCHANGED semaphoreVars /\ UNCHANGED active
    BY <1>3
  <2>2. STypeOK'
    BY <1>1, <2>1 DEF STypeOK, semaphoreVars
  <2>3. OneRequest' /\ AnswerOwed'
    BY <1>1, <1>3, <2>1 DEF OneRequest, AnswerOwed, Inside, semaphoreVars
  <2>4. QED
    BY <2>2, <2>3
<1>4. QED
  BY <1>2, <1>3

(* Every step keeps the invariant.                                         *)
LEMMA NextDInv == DInv /\ [SNext]_allVars => DInv'
<1> SUFFICES ASSUME DInv, [SNext]_allVars PROVE DInv'
  OBVIOUS
<1>1. CASE OneTick
  <2>1. PICK ticks \in Ticks, fired \in SUBSET Device :
          CheckIfDue(now + ticks, fired) /\ Handlers(fired)
    BY <1>1 DEF OneTick
  <2>2. now + ticks \in Nat
    BY InterruptAssumption DEF DInv, STypeOK
  <2>3. QED
    BY <1>1, <2>1, <2>2, TimeDInv DEF OneTick
<1>2. CASE Idle
  <2>1. PICK d \in Device, fired \in SUBSET Device :
          CheckIfDue(when[d], fired) /\ Handlers(fired)
    BY <1>2 DEF Idle
  <2>2. when[d] \in Nat
    BY DEF DInv, STypeOK
  <2>3. QED
    BY <1>2, <2>1, <2>2, TimeDInv DEF Idle
<1>3. CASE UNCHANGED allVars
  BY <1>3 DEF allVars, semaphoreVars, diskVars, clockVars, callVars, DInv,
              STypeOK, OneRequest, AnswerOwed, Inside
<1>4. QED
  BY <1>1, <1>2, <1>3, CallDInv, AcquireDInv, AskDInv, WakeDInv, ReleaseDInv
     DEF SNext, ThreadStep

(* One request is made at a time, by the thread that has the lock, and     *)
(* each is answered once, whatever the number of threads (synchdisk.cc).   *)
THEOREM DiskInvariant == SSpec => []DInv
  BY InitDInv, NextDInv, PTL DEF SSpec

(* The lock keeps requests apart, so the ASSERTs of disk.cc:118 and 138    *)
(* hold.                                                                   *)
THEOREM RequestsApart == SSpec => []OneRequest
<1>1. DInv => OneRequest
  BY DEF DInv
<1>2. QED
  BY <1>1, DiskInvariant, PTL

(* The V of the handler goes to the thread whose request it answers.       *)
THEOREM AnswersOwed == SSpec => []AnswerOwed
<1>1. DInv => AnswerOwed
  BY DEF DInv
<1>2. QED
  BY <1>1, DiskInvariant, PTL

-----------------------------------------------------------------------------
(* SynchDisk implements Sectors                                            *)

(* A new SynchDisk is an initial state of Sectors.                         *)
LEMMA InitSimulates == SInit => Promised!Init
<1> SUFFICES ASSUME SInit PROVE Promised!Init
  OBVIOUS
<1>1. contents \in [Sector -> Data] /\ req \in [Thread -> SectorRequest]
  BY InitDInv DEF DInv, STypeOK
<1>2. [t \in Thread |-> Phase(t)] = [t \in Thread |-> "none"]
  BY DEF SInit, Phase
<1>3. QED
  BY <1>1, <1>2 DEF Promised!Init

(* The handlers complete the request that is under way, if it is due.      *)
LEMMA TimeSimulates ==
  ASSUME DInv, NEW n, NEW fired \in SUBSET Device,
         CheckIfDue(n, fired), Handlers(fired), UNCHANGED callVars
  PROVE  Promised!Next \/ UNCHANGED Promised!sectorVars
<1>1. UNCHANGED <<contents, req, at>>
  BY DEF Handlers, DiskCallBack, callVars
<1>2. CASE "disk" \in fired
  <2>1. active /\ ~active'
    BY <1>2, DiskAssumption
       DEF CheckIfDue, Due, DInv, AnswerOwed, Handlers, DiskCallBack
  <2>2. PICK t \in Thread : at[t] = "wait"
    BY <2>1 DEF DInv, AnswerOwed
  <2>3. \A u \in Thread : u # t => at[u] # "wait"
    BY <2>2 DEF DInv, OneRequest, Inside
  <2>4. Phase(t) = "started" /\ Phase(t)' = "complete"
    BY <1>1, <2>1, <2>2 DEF Phase
  <2>5. \A u \in Thread : u # t => Phase(u)' = Phase(u)
    BY <1>1, <2>1, <2>3 DEF Phase
  <2>6. [u \in Thread |-> Phase(u)]' = [[u \in Thread |-> Phase(u)] EXCEPT ![t] = "complete"]
    BY <2>4, <2>5
  <2>7. Promised!Complete(t)
    BY <1>1, <2>4, <2>6 DEF Promised!Complete
  <2>8. QED
    BY <2>7 DEF Promised!Next
<1>3. CASE "disk" \notin fired
  <2>1. UNCHANGED active
    BY <1>3 DEF Handlers, DiskCallBack
  <2>2. [u \in Thread |-> Phase(u)]' = [u \in Thread |-> Phase(u)]
    BY <1>1, <2>1 DEF Phase
  <2>3. QED
    BY <1>1, <2>2 DEF Promised!sectorVars
<1>4. QED
  BY <1>2, <1>3

(* A step of a thread is its call, the start of its request or its return, *)
(* or nothing a caller can see.                                            *)
LEMMA ThreadSimulates ==
  ASSUME DInv, NEW t \in Thread, ThreadStep(t)
  PROVE  Promised!Next \/ UNCHANGED Promised!sectorVars
<1> USE DEF DInv, STypeOK
<1>1. CASE Acquire(t) \/ Wake(t)
  <2>1. UNCHANGED <<contents, req, active>>
    BY <1>1 DEF Acquire, Wake, diskVars
  <2>2. at' \in [Thread -> Place] /\ \A u \in Thread : u # t => at'[u] = at[u]
    BY <1>1 DEF Acquire, Wake, Goto, Place
  <2>3. Phase(t)' = Phase(t)
    <3>1. CASE Acquire(t)
      BY <3>1 DEF Acquire, Goto, Phase
    <3>2. CASE Wake(t)
      <4>1. ~active
        BY <3>2 DEF Wake, Take, AnswerOwed
      <4>2. QED
        BY <2>1, <3>2, <4>1 DEF Wake, Goto, Phase
    <3>3. QED
      BY <1>1, <3>1, <3>2
  <2>4. [u \in Thread |-> Phase(u)]' = [u \in Thread |-> Phase(u)]
    BY <2>1, <2>2, <2>3 DEF Phase
  <2>5. QED
    BY <2>1, <2>4 DEF Promised!sectorVars
<1>2. CASE Ask(t)
  <2>1. /\ at[t] = "request" /\ ~active /\ active'
        /\ value["semaphore"] = 0
        /\ \A u \in Thread : u # t => ~Inside(u)
    BY <1>2 DEF Ask, Request, OneRequest, Inside
  <2>2. at' = [at EXCEPT ![t] = "wait"]
    BY <1>2, <2>1 DEF Ask, Take, Goto
  <2>3. Phase(t) = "called" /\ Phase(t)' = "started"
    BY <2>1, <2>2 DEF Phase
  <2>4. \A u \in Thread : u # t => Phase(u)' = Phase(u) /\ Phase(u) # "started"
    BY <2>1, <2>2 DEF Phase, Inside, Place
  <2>5. [u \in Thread |-> Phase(u)]' = [[u \in Thread |-> Phase(u)] EXCEPT ![t] = "started"]
    BY <2>3, <2>4
  <2>6. IF req[t].write
        THEN contents' = [contents EXCEPT ![req[t].sector] = req[t].data] /\ UNCHANGED req
        ELSE req' = [req EXCEPT ![t].data = contents[req[t].sector]] /\ UNCHANGED contents
    BY <1>2 DEF Ask, Request
  <2>7. Promised!Start(t)
    BY <2>3, <2>4, <2>5, <2>6 DEF Promised!Start
  <2>8. QED
    BY <2>7 DEF Promised!Next
<1>3. CASE LockRelease(t)
  <2>1. UNCHANGED <<contents, req, active>> /\ at[t] = "release"
    BY <1>3 DEF LockRelease, diskVars
  <2>2. at' = [at EXCEPT ![t] = "out"]
    BY <1>3 DEF LockRelease, Goto
  <2>3. Phase(t) = "complete" /\ Phase(t)' = "none"
    BY <2>1, <2>2 DEF Phase
  <2>4. [u \in Thread |-> Phase(u)]' = [[u \in Thread |-> Phase(u)] EXCEPT ![t] = "none"]
    BY <2>1, <2>2, <2>3 DEF Phase
  <2>5. Promised!Return(t)
    BY <2>1, <2>3, <2>4 DEF Promised!Return
  <2>6. QED
    BY <2>5 DEF Promised!Next
<1>4. QED
  BY <1>1, <1>2, <1>3 DEF ThreadStep

(* Every step of SynchDisk is a step of Sectors or is not seen there.      *)
LEMMA NextSimulates ==
  DInv /\ [SNext]_allVars => [Promised!Next]_(Promised!sectorVars)
<1> SUFFICES ASSUME DInv, [SNext]_allVars
             PROVE  Promised!Next \/ UNCHANGED Promised!sectorVars
  OBVIOUS
<1>1. ASSUME NEW t \in Thread, NEW r \in Calls, Call(t, r)
      PROVE  Promised!Next
  <2>1. UNCHANGED <<contents, active>> /\ at[t] = "out"
    BY <1>1 DEF Call, diskVars
  <2>2. at' = [at EXCEPT ![t] = "lock"] /\ at \in [Thread -> Place]
    BY <1>1 DEF Call, Goto, DInv, STypeOK
  <2>3. Phase(t) = "none" /\ Phase(t)' = "called"
    BY <2>1, <2>2 DEF Phase
  <2>4. [u \in Thread |-> Phase(u)]' = [[u \in Thread |-> Phase(u)] EXCEPT ![t] = "called"]
    BY <2>1, <2>2, <2>3 DEF Phase
  <2>5. Promised!Call(t, r)
    BY <1>1, <2>1, <2>3, <2>4 DEF Call, Promised!Call
  <2>6. r \in SectorRequest
    BY DEF Calls
  <2>7. QED
    BY <2>5, <2>6 DEF Promised!Next
<1>2. CASE OneTick \/ Idle
  BY <1>2, TimeSimulates DEF OneTick, Idle
<1>3. CASE UNCHANGED allVars
  <2>1. UNCHANGED <<contents, req, active, at>>
    BY <1>3 DEF allVars, diskVars, callVars
  <2>2. [u \in Thread |-> Phase(u)]' = [u \in Thread |-> Phase(u)]
    BY <2>1 DEF Phase
  <2>3. QED
    BY <2>1, <2>2 DEF Promised!sectorVars
<1>4. QED
  BY <1>1, <1>2, <1>3, ThreadSimulates DEF SNext

(* The lock, the semaphore and the interrupt handler of SynchDisk give its *)
(* callers sectors that are read and written whole, each call returning    *)
(* after the interrupt for its own request (synchdisk.cc:57-94).           *)
THEOREM DiskKeepsPromise == SSpec => SectorsPromise
  BY InitSimulates, NextSimulates, DiskInvariant, PTL
     DEF SSpec, SectorsPromise, Promised!Spec
=============================================================================
