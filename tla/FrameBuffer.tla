---------------------------- MODULE FrameBuffer ----------------------------
(***************************************************************************)
(* The frame buffer of the watcher (struct frame_buffer of watcher.h): a   *)
(* ring of Size slots that takes packets in any order (the receiver thread,*)
(* fb_enqueue_packet) and gives frames back in order (the renderer thread, *)
(* fb_dequeue_frame).  The two threads share it without a lock, so every   *)
(* read or write of a shared field is a step of its own, in program order. *)
(*                                                                         *)
(* Slot p is given by fid[p], total_length[p], total_packet[p], stamped[p] *)
(* (timestamp # 0), bitmap[p] and queue[p].  A bit of the bitmap carries   *)
(* the frame its packet belonged to, and a payload is the number of that   *)
(* frame: the code stores neither, they are what the properties compare.   *)
(* A payload is one unit long, so offset = pid and lengths count packets.  *)
(* Frames are numbered from 1 and do not reach 2^32 (9 years at 15 fps).   *)
(***************************************************************************)
EXTENDS Integers, FiniteSets

CONSTANTS
  Size,       \* slots of the ring (256)
  Chunk,      \* packets a slot has room for
  PidLimit,   \* packets the bitmap records: sizeof(uint8_t) * sizeof(bitmap)
  WaitLimit,  \* polls after which the renderer gives up (period * 10 / 1000)
  Packets,    \* the packets the network may deliver, any number of times
  MaxFid      \* bound: the renderer stops at the frame with this number

ASSUME SizeAssumption == Size \in Nat \ {0}
ASSUME ChunkAssumption == Chunk \in Nat
ASSUME LimitAssumption == WaitLimit \in Nat /\ PidLimit \in Nat /\ MaxFid \in Nat
\* Of struct frame_packet, what places a packet; see TotalPackets for the rest.
frame_packet == [fid : Nat \ {0}, pid : Nat, total_length : Nat]
ASSUME PacketsAssumption == Packets \subseteq frame_packet

VARIABLES
  init, out,                                           \* volatile ints
  fid, total_length, total_packet, stamped, bitmap, queue,   \* the slots
  receiver, packet, rout, pos, byte,                   \* receiver thread
  renderer, size, fmeta, buffer, wait, reported        \* renderer thread

slots == <<fid, total_length, total_packet, stamped, bitmap, queue>>
receiverVars == <<receiver, packet, rout, pos, byte>>
rendererVars == <<renderer, size, fmeta, buffer, wait, reported>>
vars == <<init, out, slots, receiverVars, rendererVars>>

Slots == 0 .. Size - 1
Pids == 0 .. Chunk - 1
Bits == [fid : Nat, pid : Nat]
Meta == [fid : Nat, total_length : Nat, total_packet : Nat, bitmap : SUBSET Bits]

\* An empty frame is announced by a single packet with nothing in it.
TotalPackets(p) == IF p.total_length = 0 THEN 1 ELSE p.total_length

\* Bits of one byte are read and written together.
Byte(pid) == pid \div 8

\* bitmap_check_nr_ones(): the packets among the first n that have a bit.
NrOnes(bits, n) == Cardinality({b.pid : b \in {c \in bits : c.pid < n}})

\* malloc() leaves garbage: a slot that would pass for a complete frame 0.
Garbage == [fid |-> 0, pid |-> 0]

fb_create ==
  /\ init = 1
  /\ out = 0
  /\ fid = [p \in Slots |-> 0]
  /\ total_length = [p \in Slots |-> 1]
  /\ total_packet = [p \in Slots |-> 1]
  /\ stamped = [p \in Slots |-> TRUE]
  /\ bitmap = [p \in Slots |-> {Garbage}]
  /\ queue = [p \in Slots |-> [c \in Pids |-> 0]]

Init ==
  /\ fb_create
  /\ receiver = "recvfrom"
  /\ packet \in Packets
  /\ rout = 0 /\ pos = 0 /\ byte = {}
  /\ renderer = "check"
  /\ size = 0
  /\ fmeta = [fid |-> 0, total_length |-> 0, total_packet |-> 0, bitmap |-> {}]
  /\ buffer = [c \in Pids |-> 0]
  /\ wait = 0
  /\ reported = 0

-----------------------------------------------------------------------------
(* The receiver thread: recvfrom(), then fb_enqueue_packet().              *)

\* Any packet of the stream, whether new, late, reordered or duplicated.  A
\* packet whose payload would overflow its slot is dropped at once.
Receive ==
  /\ receiver = "recvfrom"
  /\ \E p \in Packets :
       /\ packet' = p
       /\ receiver' =
            IF p.pid + (IF p.total_length = 0 THEN 0 ELSE 1) > Chunk
            THEN "recvfrom" ELSE "readOut"
  /\ UNCHANGED <<init, out, slots, rout, pos, byte, rendererVars>>

ReadOut ==
  /\ receiver = "readOut"
  /\ rout' = out
  /\ pos' = 0
  /\ receiver' = IF init = 1 THEN "initSlots" ELSE "locate"
  /\ UNCHANGED <<init, out, slots, packet, byte, rendererVars>>

\* One iteration of the loop that gives each slot its frame number; `pos'
\* is the loop counter (here rout = 0, nothing was dequeued yet).
InitSlot ==
  /\ receiver = "initSlots"
  /\ pos < Size
  /\ LET p == (rout + pos) % Size IN
       /\ fid' = [fid EXCEPT ![p] = packet.fid + pos]
       /\ total_length' = [total_length EXCEPT ![p] = 0]
       /\ total_packet' = [total_packet EXCEPT ![p] = 0]
       /\ stamped' = [stamped EXCEPT ![p] = FALSE]
       /\ bitmap' = [bitmap EXCEPT ![p] = {}]
  /\ pos' = pos + 1
  /\ UNCHANGED <<init, out, queue, receiver, packet, rout, byte, rendererVars>>

\* The barrier, then init = 0: from here on the renderer looks at the slots.
PublishInit ==
  /\ receiver = "initSlots"
  /\ pos = Size
  /\ init' = 0
  /\ pos' = 0
  /\ receiver' = "locate"
  /\ UNCHANGED <<out, slots, packet, rout, byte, rendererVars>>

\* The slot chosen by frame number alone, forgetting where the ring starts.
LocateByFid ==
  /\ receiver = "locate"
  /\ LET fid_diff == packet.fid - fid[rout] IN
       IF fid_diff > Size \/ fid_diff < 0
       THEN receiver' = "recvfrom" /\ UNCHANGED pos
       ELSE receiver' = "setLength" /\ pos' = packet.fid % Size
  /\ UNCHANGED <<init, out, slots, packet, rout, byte, rendererVars>>

\* The lower bound of the window left out.
LocateUpperOnly ==
  /\ receiver = "locate"
  /\ LET fid_diff == packet.fid - fid[rout] IN
       IF fid_diff > Size
       THEN receiver' = "recvfrom" /\ UNCHANGED pos
       ELSE receiver' = "setLength" /\ pos' = (rout + fid_diff) % Size
  /\ UNCHANGED <<init, out, slots, packet, rout, byte, rendererVars>>

\* meta[rout].fid is read now; the renderer may have moved on since ReadOut.
Locate ==
  /\ receiver = "locate"
  /\ LET fid_diff == packet.fid - fid[rout] IN
       IF fid_diff > Size \/ fid_diff < 0
       THEN receiver' = "recvfrom" /\ UNCHANGED pos
       ELSE receiver' = "setLength" /\ pos' = (rout + fid_diff) % Size
  /\ UNCHANGED <<init, out, slots, packet, rout, byte, rendererVars>>

SetLength ==
  /\ receiver = "setLength"
  /\ total_length' = [total_length EXCEPT ![pos] = packet.total_length]
  /\ receiver' = "setTotal"
  /\ UNCHANGED <<init, out, fid, total_packet, stamped, bitmap, queue,
                 packet, rout, pos, byte, rendererVars>>

SetTotal ==
  /\ receiver = "setTotal"
  /\ total_packet' = [total_packet EXCEPT ![pos] = TotalPackets(packet)]
  /\ stamped' = [stamped EXCEPT ![pos] = TRUE]
  /\ receiver' = IF packet.pid < PidLimit THEN "readByte" ELSE "copy"
  /\ UNCHANGED <<init, out, fid, total_length, bitmap, queue,
                 packet, rout, pos, byte, rendererVars>>

\* bitmap_set(): `bitmap[ii] |= 1 << jj' is a load, an or and a store.
ReadByte ==
  /\ receiver = "readByte"
  /\ byte' = {b \in bitmap[pos] : Byte(b.pid) = Byte(packet.pid)}
  /\ receiver' = "writeByte"
  /\ UNCHANGED <<init, out, slots, packet, rout, pos, rendererVars>>

WriteByte ==
  /\ receiver = "writeByte"
  /\ bitmap' = [bitmap EXCEPT ![pos] =
                  {b \in bitmap[pos] : Byte(b.pid) # Byte(packet.pid)}
                    \cup byte \cup {[fid |-> packet.fid, pid |-> packet.pid]}]
  /\ byte' = {}
  /\ receiver' = "copy"
  /\ UNCHANGED <<init, out, fid, total_length, total_packet, stamped, queue,
                 packet, rout, pos, rendererVars>>

CopyPayload ==
  /\ receiver = "copy"
  /\ queue' = [queue EXCEPT ![pos] =
                 IF packet.total_length = 0 THEN queue[pos]
                 ELSE [queue[pos] EXCEPT ![packet.pid] = packet.fid]]
  /\ receiver' = "recvfrom"
  /\ UNCHANGED <<init, out, fid, total_length, total_packet, stamped, bitmap,
                 packet, rout, pos, byte, rendererVars>>

-----------------------------------------------------------------------------
(* The renderer thread: poll every millisecond, dequeue, decode, report.   *)

\* Waiting for the next frame without ever giving it up.
NotReadyForever ==
  /\ wait' = IF wait > WaitLimit THEN wait ELSE wait + 1
  /\ renderer' = "check"

\* The frame is not ready: after more than WaitLimit polls it is popped as it is.
NotReady ==
  IF wait > WaitLimit
  THEN renderer' = "testInit" /\ UNCHANGED wait
  ELSE renderer' = "check" /\ wait' = wait + 1

\* fb_is_next_frame_ready_on_time(): the clock decides whether a stamped
\* frame is due.
Check ==
  /\ renderer = "check"
  /\ init = 0 => fid[out] <= MaxFid
  /\ \/ init = 0 /\ stamped[out] /\ renderer' = "count" /\ UNCHANGED wait
     \/ NotReady
  /\ UNCHANGED <<init, out, slots, receiverVars, size, fmeta, buffer, reported>>

\* n > (int)(total_packet * 0.8) && total_packet != 0
CountPackets ==
  /\ renderer = "count"
  /\ IF /\ NrOnes(bitmap[out], total_packet[out]) > (8 * total_packet[out]) \div 10
        /\ total_packet[out] # 0
     THEN renderer' = "testInit" /\ UNCHANGED wait
     ELSE NotReady
  /\ UNCHANGED <<init, out, slots, receiverVars, size, fmeta, buffer, reported>>

\* An empty slot taken for a ring that has not been set up.
TestInitOrEmpty ==
  /\ renderer = "testInit"
  /\ renderer' = IF init = 1 \/ total_packet[out] = 0 THEN "report" ELSE "readLength"
  /\ UNCHANGED <<init, out, slots, receiverVars, size, fmeta, buffer, wait, reported>>

\* fb_dequeue_frame() does nothing before the first packet, and the caller
\* does not look at its result.
TestInit ==
  /\ renderer = "testInit"
  /\ renderer' = IF init = 1 THEN "report" ELSE "readLength"
  /\ UNCHANGED <<init, out, slots, receiverVars, size, fmeta, buffer, wait, reported>>

ReadLength ==
  /\ renderer = "readLength"
  /\ size' = total_length[out]
  /\ renderer' = "copyOut"
  /\ UNCHANGED <<init, out, slots, receiverVars, fmeta, buffer, wait, reported>>

CopyOut ==
  /\ renderer = "copyOut"
  /\ buffer' = [c \in Pids |-> IF c < size THEN queue[out][c] ELSE buffer[c]]
  /\ renderer' = "copyMeta"
  /\ UNCHANGED <<init, out, slots, receiverVars, size, fmeta, wait, reported>>

\* *meta = *fbm, first the scalar fields, then the bitmap.
CopyMeta ==
  /\ renderer = "copyMeta"
  /\ fmeta' = [fid |-> fid[out], total_length |-> total_length[out],
               total_packet |-> total_packet[out], bitmap |-> fmeta.bitmap]
  /\ renderer' = "copyBitmap"
  /\ UNCHANGED <<init, out, slots, receiverVars, size, buffer, wait, reported>>

CopyBitmap ==
  /\ renderer = "copyBitmap"
  /\ fmeta' = [fid |-> fmeta.fid, total_length |-> fmeta.total_length,
               total_packet |-> fmeta.total_packet, bitmap |-> bitmap[out]]
  /\ renderer' = "clearBitmap"
  /\ UNCHANGED <<init, out, slots, receiverVars, size, buffer, wait, reported>>

ClearBitmap ==
  /\ renderer = "clearBitmap"
  /\ bitmap' = [bitmap EXCEPT ![out] = {}]
  /\ renderer' = "bumpFid"
  /\ UNCHANGED <<init, out, fid, total_length, total_packet, stamped, queue,
                 receiverVars, size, fmeta, buffer, wait, reported>>

\* The slot handed to the frame that follows the last one of the ring by one.
BumpFidPastSize ==
  /\ renderer = "bumpFid"
  /\ fid' = [fid EXCEPT ![out] = fid[out] + Size + 1]
  /\ renderer' = "clearLength"
  /\ UNCHANGED <<init, out, total_length, total_packet, stamped, bitmap, queue,
                 receiverVars, size, fmeta, buffer, wait, reported>>

\* The slot now stands for the frame Size places later.
BumpFid ==
  /\ renderer = "bumpFid"
  /\ fid' = [fid EXCEPT ![out] = fid[out] + Size]
  /\ renderer' = "clearLength"
  /\ UNCHANGED <<init, out, total_length, total_packet, stamped, bitmap, queue,
                 receiverVars, size, fmeta, buffer, wait, reported>>

ClearLength ==
  /\ renderer = "clearLength"
  /\ total_length' = [total_length EXCEPT ![out] = 0]
  /\ renderer' = "clearTotal"
  /\ UNCHANGED <<init, out, fid, total_packet, stamped, bitmap, queue,
                 receiverVars, size, fmeta, buffer, wait, reported>>

ClearTotal ==
  /\ renderer = "clearTotal"
  /\ total_packet' = [total_packet EXCEPT ![out] = 0]
  /\ stamped' = [stamped EXCEPT ![out] = FALSE]
  /\ renderer' = "advanceOut"
  /\ UNCHANGED <<init, out, fid, total_length, bitmap, queue,
                 receiverVars, size, fmeta, buffer, wait, reported>>

\* The read position not wrapped at the end of the ring.
AdvanceOutUnwrapped ==
  /\ renderer = "advanceOut"
  /\ out' = out + 1
  /\ renderer' = "report"
  /\ UNCHANGED <<init, slots, receiverVars, size, fmeta, buffer, wait, reported>>

\* The barrier, then the only write of `out'.
AdvanceOut ==
  /\ renderer = "advanceOut"
  /\ out' = (out + 1) % Size
  /\ renderer' = "report"
  /\ UNCHANGED <<init, slots, receiverVars, size, fmeta, buffer, wait, reported>>

\* The frame is decoded and shown, and its feedback built (FeedbackFifo).
Report ==
  /\ renderer = "report"
  /\ reported' = fmeta.fid
  /\ size' = 0
  /\ wait' = 0
  /\ renderer' = "check"
  /\ UNCHANGED <<init, out, slots, receiverVars, fmeta, buffer>>

-----------------------------------------------------------------------------
InitSlots == InitSlot \/ PublishInit

Enqueue ==
  \/ ReadOut \/ InitSlots \/ Locate \/ SetLength \/ SetTotal
  \/ ReadByte \/ WriteByte \/ CopyPayload

Dequeue ==
  \/ TestInit \/ ReadLength \/ CopyOut \/ CopyMeta \/ CopyBitmap
  \/ ClearBitmap \/ BumpFid \/ ClearLength \/ ClearTotal \/ AdvanceOut

RendererStep == Check \/ CountPackets \/ Dequeue \/ Report

Next == Receive \/ Enqueue \/ RendererStep

Spec == Init /\ [][Next]_vars

\* Both threads are scheduled; no packet is promised.
FairSpec == Spec /\ WF_vars(RendererStep) /\ WF_vars(Enqueue)
-----------------------------------------------------------------------------
(* Properties.                                                             *)

\* Type invariant.
TypeOK ==
  /\ init \in {0, 1}
  /\ out \in Slots
  /\ fid \in [Slots -> Nat]
  /\ total_length \in [Slots -> Nat]
  /\ total_packet \in [Slots -> Nat]
  /\ stamped \in [Slots -> BOOLEAN]
  /\ bitmap \in [Slots -> SUBSET Bits]
  /\ queue \in [Slots -> [Pids -> Nat]]
  /\ receiver \in {"recvfrom", "readOut", "initSlots", "locate", "setLength",
                   "setTotal", "readByte", "writeByte", "copy"}
  /\ packet \in Packets
  /\ rout \in Slots
  /\ pos \in (IF receiver = "initSlots" THEN 0 .. Size ELSE Slots)
  /\ byte \in SUBSET Bits
  /\ renderer \in {"check", "count", "testInit", "readLength", "copyOut",
                   "copyMeta", "copyBitmap", "clearBitmap", "bumpFid",
                   "clearLength", "clearTotal", "advanceOut", "report"}
  /\ size \in Nat
  /\ fmeta \in Meta
  /\ buffer \in [Pids -> Nat]
  /\ wait \in 0 .. WaitLimit + 1
  /\ reported \in Nat

\* The renderer has renumbered the slot at `out' but not moved `out' yet.
Bumped == renderer \in {"clearLength", "clearTotal", "advanceOut"}

\* The frame the renderer is at, and the first one it has yet to take.
HeadFid == IF Bumped THEN fid[out] - Size ELSE fid[out]
FirstWanted == IF Bumped THEN HeadFid + 1 ELSE HeadFid

\* How far slot p lies behind `out', walking round the ring.
Distance(p) == IF p >= out THEN p - out ELSE p - out + Size

\* Once published, the slots always stand for Size consecutive frames, in
\* ring order from `out', whatever packets did to them: nothing but the
\* renderer's fid += size moves the window, even while it is half done.
SlotsAreTheWindow ==
  init = 0 =>
    \A p \in Slots :
      fid[p] = IF p = out /\ Bumped THEN HeadFid + Size ELSE HeadFid + Distance(p)

\* a = b (mod Size), with the bound on k spelt out so that it can be searched.
Congruent(a, b) == \E k \in -(a + b) .. a + b : a = b + k * Size

\* A packet is only ever stored in the one slot of the ring its frame maps
\* to, although the slot is chosen from an `out' and a frame number that the
\* renderer may have moved past in the meantime, and nothing malloc() left
\* there survives: a slot mixes frames only a multiple of Size apart.
NoMisplacement ==
  init = 0 =>
    \A p \in Slots :
      /\ \A b \in bitmap[p] : b.fid # 0 /\ Congruent(b.fid, fid[p])
      /\ \A c \in Pids : queue[p][c] # 0 => Congruent(queue[p][c], fid[p])

\* What makes the two invariants above inductive.  Phases: who may be where
\* before the first packet has set up the ring.
Phases ==
  /\ receiver \notin {"recvfrom", "readOut", "initSlots"} => init = 0
  /\ init = 1 => /\ out = 0
                 /\ rout = 0
                 /\ renderer \in {"check", "testInit", "report"}
                 /\ fmeta.fid = 0
                 /\ \A p \in Slots : \A c \in Pids : queue[p][c] = 0
  /\ receiver = "initSlots" =>
       /\ init = 1
       /\ \A p \in 0 .. pos - 1 : fid[p] = packet.fid + p /\ bitmap[p] = {}
  /\ init = 0 => HeadFid \in Nat \ {0}

\* Held: the packet and the byte the receiver is about to store belong to the
\* slot it has chosen, whatever the renderer does to that slot meanwhile.
Held ==
  /\ receiver \in {"setLength", "setTotal", "readByte", "writeByte", "copy"} =>
       Congruent(packet.fid, fid[pos])
  /\ receiver = "writeByte" =>
       \A b \in byte : b.fid # 0 /\ Congruent(b.fid, fid[pos])

\* Played: which frame the feedback under construction is about.
Played ==
  /\ renderer \in {"copyBitmap", "clearBitmap", "bumpFid"} \/ Bumped =>
       fmeta.fid = HeadFid
  /\ renderer = "report" =>
       \/ fmeta.fid = 0 /\ reported = 0
       \/ /\ init = 0
          /\ HeadFid = fmeta.fid + 1
          /\ reported = 0 \/ fmeta.fid = reported + 1
  /\ renderer # "report" =>
       reported = 0 \/ (init = 0 /\ HeadFid = reported + 1)

IInv == TypeOK /\ SlotsAreTheWindow /\ NoMisplacement /\ Phases /\ Held /\ Played

\* Every report, once there has been one of a frame, is of the frame after the
\* one reported before: none is reported twice, none skipped, none out of order,
\* however packets arrive and frames time out.  (reported = 0 before the first
\* frame; ReportsAFrame below is about the reports made until then.)
Reports == renderer = "report" /\ renderer' # "report"
InOrder == [][Reports => reported = 0 \/ reported' = reported + 1]_vars

\* Reading `out' before meta[out].fid is the right order: a packet of a frame
\* the renderer has already finished with is never accepted.
Accepts == receiver = "locate" /\ receiver' = "setLength"
AcceptedNotStale == [][Accepts => packet.fid >= FirstWanted]_vars

\* A lost, late or partial frame never stalls the playout: the renderer gets
\* past every frame, because it counts its polls and gives up.
PlayoutAdvances ==
  \A f \in 1 .. MaxFid : (init = 0 /\ fid[out] = f) ~> (reported >= f)

-----------------------------------------------------------------------------
(* What comments of the code say and the code does not do.                 *)

\* "There are potential data race, but it will not cause data corruption":
\* the bitmap copied out for a frame counts packets of that frame only.
CopiedBitmapIsOwn ==
  renderer = "clearBitmap" => \A b \in fmeta.bitmap : b.fid = fmeta.fid

\* The renderer will "send the feedback of a whole frame": it reports only
\* what it has dequeued, never an fmeta it has not filled.
ReportsAFrame == renderer = "report" => fmeta.fid # 0
=============================================================================
