----------------------------- MODULE DiskTiming -----------------------------
(***************************************************************************)
(* When the disk's interrupt comes (machine/disk.cc): the seek to the      *)
(* track, the rotation to the sector, the transfer, and the track buffer,  *)
(* which has what has passed under the head since bufferInit.  The head is *)
(* over sector (ticks / RotationTime) % SectorsPerTrack of its track.      *)
(***************************************************************************)
EXTENDS Integers

CONSTANTS SectorsPerTrack, NumTracks, RotationTime, SeekTime,
          MaxTicks    \* bound of the model: no request after this time

DiskTimingAssumption ==
  /\ SectorsPerTrack \in Nat \ {0} /\ NumTracks \in Nat \ {0}
  /\ RotationTime \in Nat \ {0} /\ SeekTime \in Nat \ {0}

VARIABLES totalTicks,
          lastSector, \* Disk::lastSector
          bufferInit, \* Disk::bufferInit
          request,    \* the request under way: its sector, whether it
                      \* writes, when it was made and its latency
          active      \* Disk::active

vars == <<totalTicks, lastSector, bufferInit, request, active>>

NumSectors == SectorsPerTrack * NumTracks
SectorNumber == 0..(NumSectors - 1)

Distance(a, b) == IF a < b THEN b - a ELSE a - b

(* Disk::TimeToSeek: the seek, and how long it then takes to the beginning *)
(* of the next sector.                                                     *)
Seek(newSector) ==
  Distance(newSector \div SectorsPerTrack, lastSector \div SectorsPerTrack)
    * SeekTime
RotationAfter(seek) ==
  LET over == (totalTicks + seek) % RotationTime
  IN  IF over > 0 THEN RotationTime - over ELSE 0

(* Disk::ModuloDiff *)
ModuloDiff(to, from) ==
  ((to % SectorsPerTrack) - (from % SectorsPerTrack) + SectorsPerTrack)
    % SectorsPerTrack

(* Mistake: a sector that is just being read counts as read. *)
BufferedEarly(newSector, seek, timeAfter) ==
  /\ seek = 0
  /\ (timeAfter - bufferInit) \div RotationTime >=
       ModuloDiff(newSector, bufferInit \div RotationTime)

(* The track buffer has the sector. *)
Buffered(newSector, seek, timeAfter) ==
  /\ seek = 0
  /\ (timeAfter - bufferInit) \div RotationTime >
       ModuloDiff(newSector, bufferInit \div RotationTime)

(* Disk::ComputeLatency *)
TimeAfter(seek) == totalTicks + seek + RotationAfter(seek)
Latency(newSector, writing, seek) ==
  IF ~writing /\ Buffered(newSector, seek, TimeAfter(seek)) THEN RotationTime
  ELSE seek + RotationAfter(seek) + RotationTime
       + ModuloDiff(newSector, TimeAfter(seek) \div RotationTime) * RotationTime

NoRequest == [sector |-> 0, writing |-> FALSE, at |-> 0, latency |-> 0,
              track |-> 0, buffer |-> 0]

Init == /\ totalTicks = 0 /\ lastSector = 0 /\ bufferInit = 0
        /\ request = NoRequest /\ active = FALSE

(* Disk::UpdateLast *)
UpdateLast(newSector) ==
  /\ bufferInit' = IF Seek(newSector) = 0 THEN bufferInit
                   ELSE TimeAfter(Seek(newSector))
  /\ lastSector' = newSector

(* For the property, a request keeps the track and the buffer it found. *)
Requested(newSector, writing) ==
  [sector |-> newSector, writing |-> writing, at |-> totalTicks,
   latency |-> Latency(newSector, writing, Seek(newSector)),
   track |-> lastSector \div SectorsPerTrack, buffer |-> bufferInit]

(* Disk::ReadRequest *)
ReadRequest(newSector) ==
  /\ ~active /\ totalTicks <= MaxTicks
  /\ request' = Requested(newSector, FALSE)
  /\ active' = TRUE
  /\ UpdateLast(newSector)
  /\ UNCHANGED totalTicks

(* Disk::WriteRequest *)
WriteRequest(newSector) ==
  /\ ~active /\ totalTicks <= MaxTicks
  /\ request' = Requested(newSector, TRUE)
  /\ active' = TRUE
  /\ UpdateLast(newSector)
  /\ UNCHANGED totalTicks

(* Disk::CallBack, at the time the interrupt was scheduled for *)
CallBack ==
  /\ active
  /\ totalTicks' = request.at + request.latency
  /\ active' = FALSE /\ request' = NoRequest
  /\ UNCHANGED <<lastSector, bufferInit>>

(* Simulated time passes while the disk is idle. *)
Tick ==
  /\ ~active /\ totalTicks < MaxTicks
  /\ totalTicks' = totalTicks + 1
  /\ UNCHANGED <<lastSector, bufferInit, request, active>>

Next == \/ \E s \in SectorNumber : ReadRequest(s) \/ WriteRequest(s)
        \/ CallBack \/ Tick

Spec == Init /\ [][Next]_vars

-----------------------------------------------------------------------------
(* The head passes over a sector of its track from slot * RotationTime on, *)
(* for RotationTime.                                                       *)
Passes(slot, sector) == slot % SectorsPerTrack = sector % SectorsPerTrack

(* The interrupt comes when the hardware described in disk.h is done: at   *)
(* the end of the first pass of the sector that begins after the head is   *)
(* on the track; or, for a read, after one transfer, if the sector has     *)
(* passed since the track buffer began to be loaded (and has not been      *)
(* overwritten by a seek since).                                           *)
LatencyIsPhysical ==
  active =>
    LET arrival == request.at + SeekTime *
                     Distance(request.sector \div SectorsPerTrack, request.track)
        done == request.at + request.latency
        last == done \div RotationTime - 1
    IN  \/ /\ done % RotationTime = 0
           /\ Passes(last, request.sector) /\ last * RotationTime >= arrival
           /\ last * RotationTime < arrival + SectorsPerTrack * RotationTime
        \/ /\ ~request.writing /\ arrival = request.at
           /\ request.latency = RotationTime
           /\ \E slot \in 0..(arrival \div RotationTime) :
                /\ Passes(slot, request.sector)
                /\ request.buffer <= slot * RotationTime
                /\ slot * RotationTime < arrival
=============================================================================
