-------------------------------- MODULE Disk --------------------------------
(***************************************************************************)
(* The simulated disk of machine/disk.cc: one request at a time, an        *)
(* interrupt when it is done, and a latency that follows the head over the *)
(* tracks, the rotation of the platter and the track buffer.  The data of  *)
(* a request moves at once, to or from the host file.                      *)
(***************************************************************************)
EXTENDS Interrupts

CONSTANTS
  NumSectors, SectorsPerTrack,
  SeekTime,         (* ticks to seek past one track                        *)
  RotationTime,     (* ticks to rotate past one sector                     *)
  Data,             (* contents of a sector                                *)
  Blank             (* those of a sector of a new disk                     *)

ASSUME DiskAssumption ==
  /\ "disk" \in Device
  /\ Blank \in Data
  /\ {NumSectors, SectorsPerTrack, SeekTime, RotationTime} \subseteq Nat \ {0}

VARIABLES
  active,           (* Disk::active, a request is in progress              *)
  lastSector,       (* Disk::lastSector, of the previous request           *)
  bufferInit,       (* Disk::bufferInit, when the track buffer started     *)
  contents          (* the host file                                       *)

diskVars == <<clockVars, active, lastSector, bufferInit, contents>>

Sector == 0 .. NumSectors - 1

(* Disk::Disk; the disk file holds c                                       *)
DiskStart(c) ==
  /\ ClockInit
  /\ active = FALSE
  /\ lastSector = 0
  /\ bufferInit = 0
  /\ contents = c

Distance(a, b) == IF a < b THEN b - a ELSE a - b

(* Disk::TimeToSeek, its result                                            *)
TimeToSeek(newSector) ==
  Distance(newSector \div SectorsPerTrack, lastSector \div SectorsPerTrack)
    * SeekTime

(* Mutant: no rounding up to the next full sector                          *)
RotationNone(newSector) == 0

(* Disk::TimeToSeek, *rotation: the rest of the sector the head comes down *)
(* in the middle of                                                        *)
Rotation(newSector) ==
  LET over == (now + TimeToSeek(newSector)) % RotationTime
  IN  IF over > 0 THEN RotationTime - over ELSE 0

(* Disk::ModuloDiff: sectors to rotate past from `from' to `to'            *)
ModuloDiff(to, from) ==
  ((to % SectorsPerTrack) - (from % SectorsPerTrack) + SectorsPerTrack)
    % SectorsPerTrack

(* Disk::ComputeLatency                                                    *)
ComputeLatency(newSector, writing) ==
  LET seek      == TimeToSeek(newSector)
      timeAfter == now + seek + Rotation(newSector)
      buffered  == /\ ~writing
                   /\ seek = 0
                   /\ (timeAfter - bufferInit) \div RotationTime
                        > ModuloDiff(newSector, bufferInit \div RotationTime)
  IN  IF buffered THEN RotationTime
      ELSE seek + Rotation(newSector) + RotationTime
             + ModuloDiff(newSector, timeAfter \div RotationTime) * RotationTime

(* Disk::UpdateLast                                                        *)
UpdateLast(newSector) ==
  /\ bufferInit' = IF TimeToSeek(newSector) = 0 THEN bufferInit
                   ELSE now + TimeToSeek(newSector) + Rotation(newSector)
  /\ lastSector' = newSector

(* Disk::ReadRequest and WriteRequest; the ASSERT is the guard.  A request *)
(* is what is asked for, the data it carries what the buffer holds after.  *)
Request(req) ==
  /\ ~active
  /\ contents' = IF req.write THEN [contents EXCEPT ![req.sector] = req.data]
                 ELSE contents
  /\ active' = TRUE
  /\ UpdateLast(req.sector)
  /\ Schedule("disk", ComputeLatency(req.sector, req.write))

(* Disk::CallBack, if the disk's interrupt is among those that fired       *)
DiskCallBack(fired) ==
  /\ active' = IF "disk" \in fired THEN FALSE ELSE active
  /\ UNCHANGED <<lastSector, bufferInit, contents>>

-----------------------------------------------------------------------------
(* Reference: the platter turns past one sector in RotationTime ticks and  *)
(* all tracks are aligned, so the head is at the start of a sector at the  *)
(* times that are a multiple of it.                                        *)
StartsAt(sector, time) ==
  /\ time % RotationTime = 0
  /\ (time \div RotationTime) % SectorsPerTrack = sector % SectorsPerTrack

(* The first time the head is at the start of the sector, once there       *)
FirstPass(sector) ==
  LET arrival == now + TimeToSeek(sector)
      turn    == RotationTime * SectorsPerTrack
  IN  CHOOSE time \in arrival .. arrival + turn :
        /\ StartsAt(sector, time)
        /\ \A earlier \in arrival .. time - 1 : ~StartsAt(sector, earlier)

(* The start of the sector passed the head since it came to this track     *)
InTrackBuffer(sector) ==
  /\ TimeToSeek(sector) = 0
  /\ \E time \in bufferInit .. now - 1 : StartsAt(sector, time)

(* The latency a request would have now is the time until its sector has   *)
(* passed the head, or one transfer if the track buffer holds the sector   *)
(* (disk.cc:229-250), whatever requests and seeks came before.             *)
LatencyIsPhysical ==
  ~active => \A sector \in Sector, writing \in BOOLEAN :
    ComputeLatency(sector, writing) =
      IF ~writing /\ InTrackBuffer(sector) THEN RotationTime
      ELSE FirstPass(sector) + RotationTime - now
=============================================================================
