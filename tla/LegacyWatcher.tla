---------------------------- MODULE LegacyWatcher ----------------------------
(***************************************************************************)
(* The first watcher (src/watcher): the same ring of frame slots as        *)
(* FrameBuffer, but a renderer that polls once per frame period, asks      *)
(* fb_dequeue_ready() whether all packets of the next frame are there, and *)
(* after renderer_wait_limit refusals skips the frame with fb_skip_frame().*)
(* There are no timestamps.  Receiver and renderer share the slots without *)
(* a lock: a read or write of a shared field is a step of its own.         *)
(*                                                                         *)
(* A bit of a bitmap carries the frame of its packet and a payload is the  *)
(* number of its frame, as in FrameBuffer; one unit of length per packet.  *)
(***************************************************************************)
EXTENDS Integers, FiniteSets

CONSTANTS
  Size,       \* slots of the ring (16)
  Chunk,      \* packets a slot has room for
  BitmapSize, \* sizeof(bitmap) (128)
  WaitLimit,  \* renderer_wait_limit (4)
  Packets,    \* the packets the network may deliver, any number of times
  MaxFid      \* bound: the renderer stops at the frame with this number

\* Of struct frame_packet, what places a packet; see TotalPackets for the rest.
frame_packet == [fid : Nat \ {0}, pid : Nat, total_length : Nat]

ASSUME ConstantsAssumption ==
  /\ Size \in Nat \ {0} /\ Chunk \in Nat /\ BitmapSize \in Nat
  /\ WaitLimit \in Nat \ {0} /\ MaxFid \in Nat
  /\ Packets \subseteq frame_packet

VARIABLES
  init, out, slot,                     \* shared: struct frame_buffer
  receiver, packet, pos, byte,         \* receiver thread; pos is first `out'
  renderer, n, size, fmeta, buffer, wait,   \* renderer thread
  polls, first                         \* history: refusals since this frame is
                                       \* next; no frame has been left yet

receiverVars == <<receiver, packet, pos, byte>>
historyVars == <<polls, first>>
rendererVars == <<renderer, n, size, fmeta, buffer, wait, historyVars>>
vars == <<init, out, slot, receiverVars, rendererVars>>

Slots == 0 .. Size - 1
Pids == 0 .. Chunk - 1
Bits == [fid : Nat, pid : Nat]
Meta == [fid : Nat, total_length : Nat, total_packet : Nat, bitmap : SUBSET Bits]
Slot == [fid : Nat, total_length : Nat, total_packet : Nat, bitmap : SUBSET Bits,
         data : [Pids -> Nat]]

TotalPackets(p) == IF p.total_length = 0 THEN 1 ELSE p.total_length
Least(a, b) == IF a < b THEN a ELSE b

\* Bits are kept for all packets the bitmap has bits for ...
BitmapBits == 8 * BitmapSize

\* ... but bitmap_check_nr_ones() looks at no more of them than the bitmap has
\* bytes: all its callers pass sizeof(bitmap).
NrOnes(bits, k) ==
  Cardinality({b.pid : b \in {c \in bits : c.pid < Least(k, BitmapSize)}})

Empty(f, d) == [fid |-> f, total_length |-> 0, total_packet |-> 0,
                bitmap |-> {}, data |-> d]

Init ==
  /\ init = 1 /\ out = 0
  /\ slot = [p \in Slots |-> Empty(0, [c \in Pids |-> 0])]
  /\ receiver = "recvfrom" /\ packet \in Packets /\ pos = 0 /\ byte = {}
  /\ renderer = "poll" /\ n = 0 /\ size = 0 /\ wait = 0
  /\ polls = 0 /\ first = TRUE
  /\ fmeta = [fid |-> 0, total_length |-> 0, total_packet |-> 0, bitmap |-> {}]
  /\ buffer = [c \in Pids |-> 0]

-----------------------------------------------------------------------------
(* The receiver thread: recvfrom(), then fb_enqueue_packet().              *)

Receive ==
  /\ receiver = "recvfrom"
  /\ \E p \in Packets :
       /\ packet' = p
       /\ receiver' =
            IF p.pid + (IF p.total_length = 0 THEN 0 ELSE 1) > Chunk
            THEN "recvfrom" ELSE "readOut"
  /\ UNCHANGED <<init, out, slot, pos, byte, rendererVars>>

\* Upon the first packet every slot gets its frame number; nobody else looks
\* at the slots until init = 0, which a barrier keeps behind them.
ReadOut ==
  /\ receiver = "readOut"
  /\ pos' = out
  /\ IF init = 1
     THEN /\ slot' = [p \in Slots |-> Empty(packet.fid + ((p - out) % Size), slot[p].data)]
          /\ init' = 0
     ELSE UNCHANGED <<slot, init>>
  /\ receiver' = "locate"
  /\ UNCHANGED <<out, packet, byte, rendererVars>>

Locate ==
  /\ receiver = "locate"
  /\ LET fid_diff == packet.fid - slot[pos].fid IN
       IF fid_diff > Size \/ fid_diff < 0
       THEN receiver' = "recvfrom" /\ UNCHANGED pos
       ELSE receiver' = "setLength" /\ pos' = (pos + fid_diff) % Size
  /\ UNCHANGED <<init, out, slot, packet, byte, rendererVars>>

\* A store to a field of the slot found, followed by step `next'.
Store(at, field, value, next) ==
  /\ receiver = at
  /\ slot' = [slot EXCEPT ![pos] = [@ EXCEPT ![field] = value]]
  /\ receiver' = next
  /\ UNCHANGED <<init, out, packet, pos, rendererVars>>

StoreMeta ==
  /\ \/ Store("setLength", "total_length", packet.total_length, "setTotal")
     \/ Store("setTotal", "total_packet", TotalPackets(packet),
              IF packet.pid < BitmapBits THEN "readByte" ELSE "copy")
  /\ UNCHANGED byte

\* bitmap_set() is a load, an or and a store of one byte.
ReadByte ==
  /\ receiver = "readByte"
  /\ byte' = {b \in slot[pos].bitmap : b.pid \div 8 = packet.pid \div 8}
  /\ receiver' = "writeByte"
  /\ UNCHANGED <<init, out, slot, packet, pos, rendererVars>>

WriteByte ==
  /\ Store("writeByte", "bitmap",
           {b \in slot[pos].bitmap : b.pid \div 8 # packet.pid \div 8}
             \cup byte \cup {[fid |-> packet.fid, pid |-> packet.pid]}, "copy")
  /\ byte' = {}

\* A last look whether the slot is still that of the packet.
CopyPayloadInTime ==
  /\ Store("copy", "data",
           IF packet.total_length = 0 \/ slot[pos].fid # packet.fid THEN slot[pos].data
           ELSE [slot[pos].data EXCEPT ![packet.pid] = packet.fid], "recvfrom")
  /\ UNCHANGED byte

\* The payload comes last, after the bit that announces it.
CopyPayload ==
  /\ Store("copy", "data",
           IF packet.total_length = 0 THEN slot[pos].data
           ELSE [slot[pos].data EXCEPT ![packet.pid] = packet.fid], "recvfrom")
  /\ UNCHANGED byte

-----------------------------------------------------------------------------
(* The renderer thread: once per period.                                   *)

\* A renderer that waits as long as it takes.
RefuseForever == renderer' = "poll" /\ UNCHANGED wait /\ polls' = Least(polls + 1, WaitLimit)

\* Not ready: the frame that was refused renderer_wait_limit times is skipped.
Refuse ==
  /\ wait' = wait + 1
  /\ polls' = Least(polls + 1, WaitLimit)
  /\ renderer' = IF wait + 1 >= WaitLimit THEN "skip" ELSE "poll"

\* fb_dequeue_ready() reads init ...
Poll ==
  /\ renderer = "poll"
  /\ IF init = 1 THEN Refuse
     ELSE slot[out].fid <= MaxFid /\ renderer' = "count" /\ UNCHANGED <<wait, polls>>
  /\ UNCHANGED <<init, out, slot, receiverVars, n, size, fmeta, buffer, first>>

\* ... counts the packets among the first total_packet ...
Count ==
  /\ renderer = "count"
  /\ n' = NrOnes(slot[out].bitmap, slot[out].total_packet)
  /\ renderer' = "compare"
  /\ UNCHANGED <<init, out, slot, receiverVars, size, fmeta, buffer, wait, historyVars>>

\* ... and compares their number with total_packet, read again.
Compare ==
  /\ renderer = "compare"
  /\ IF n = slot[out].total_packet
     THEN renderer' = "readLength" /\ UNCHANGED <<wait, polls>>
     ELSE Refuse
  /\ n' = 0
  /\ UNCHANGED <<init, out, slot, receiverVars, size, fmeta, buffer, first>>

\* fb_skip_frame() does nothing before the first packet; then wait = 0.
Skip ==
  /\ renderer = "skip"
  /\ IF init = 1 THEN renderer' = "poll" /\ wait' = 0
     ELSE renderer' = "clearBitmap" /\ UNCHANGED wait
  /\ UNCHANGED <<init, out, slot, receiverVars, n, size, fmeta, buffer, historyVars>>

ReadLength ==
  /\ renderer = "readLength"
  /\ size' = slot[out].total_length
  /\ renderer' = "copyOut"
  /\ UNCHANGED <<init, out, slot, receiverVars, n, fmeta, buffer, wait, historyVars>>

CopyOut ==
  /\ renderer = "copyOut"
  /\ buffer' = [c \in Pids |-> IF c < size THEN slot[out].data[c] ELSE buffer[c]]
  /\ renderer' = "copyMeta"
  /\ UNCHANGED <<init, out, slot, receiverVars, n, size, fmeta, wait, historyVars>>

CopyMeta ==
  /\ renderer = "copyMeta"
  /\ fmeta' = [fid |-> slot[out].fid, total_length |-> slot[out].total_length,
               total_packet |-> slot[out].total_packet, bitmap |-> slot[out].bitmap]
  /\ size' = 0
  /\ renderer' = "clearBitmap"
  /\ UNCHANGED <<init, out, slot, receiverVars, n, buffer, wait, historyVars>>

\* A store to a field of the head slot, followed by step `next'.
Clear(at, field, value, next) ==
  /\ renderer = at
  /\ slot' = [slot EXCEPT ![out] = [@ EXCEPT ![field] = value]]
  /\ renderer' = next

\* The slot handed to the frame that is next, not to the one Size later.
ClearSlotKeepingFid ==
  /\ \/ Clear("clearBitmap", "bitmap", {}, "bumpFid")
     \/ Clear("bumpFid", "fid", slot[out].fid, "clearLength")
     \/ Clear("clearLength", "total_length", 0, "clearTotal")
     \/ Clear("clearTotal", "total_packet", 0, "advance")
  /\ UNCHANGED <<init, out, receiverVars, n, size, fmeta, buffer, wait, historyVars>>

\* The end of both fb_dequeue_frame() and fb_skip_frame().
ClearSlot ==
  /\ \/ Clear("clearBitmap", "bitmap", {}, "bumpFid")
     \/ Clear("bumpFid", "fid", slot[out].fid + Size, "clearLength")
     \/ Clear("clearLength", "total_length", 0, "clearTotal")
     \/ Clear("clearTotal", "total_packet", 0, "advance")
  /\ UNCHANGED <<init, out, receiverVars, n, size, fmeta, buffer, wait, historyVars>>

\* The wait of one frame carried over to the next.
AdvanceKeepingWait ==
  /\ renderer = "advance"
  /\ out' = (out + 1) % Size
  /\ renderer' = "poll"
  /\ polls' = 0 /\ first' = FALSE
  /\ UNCHANGED <<init, slot, receiverVars, n, size, fmeta, buffer, wait>>

\* The read position not wrapped at the end of the ring.
AdvanceUnwrapped ==
  /\ renderer = "advance"
  /\ out' = out + 1
  /\ renderer' = "poll"
  /\ wait' = 0 /\ polls' = 0 /\ first' = FALSE
  /\ UNCHANGED <<init, slot, receiverVars, n, size, fmeta, buffer>>

\* The only write of `out', after a barrier; then wait = 0.
Advance ==
  /\ renderer = "advance"
  /\ out' = (out + 1) % Size
  /\ renderer' = "poll"
  /\ wait' = 0 /\ polls' = 0 /\ first' = FALSE
  /\ UNCHANGED <<init, slot, receiverVars, n, size, fmeta, buffer>>

-----------------------------------------------------------------------------
Enqueue == ReadOut \/ Locate \/ StoreMeta \/ ReadByte \/ WriteByte \/ CopyPayload

RendererStep ==
  \/ Poll \/ Count \/ Compare \/ Skip \/ ReadLength \/ CopyOut \/ CopyMeta
  \/ ClearSlot \/ Advance

Next == Receive \/ Enqueue \/ RendererStep

Spec == Init /\ [][Next]_vars

\* Both threads are scheduled; no packet is promised.
FairSpec == Spec /\ WF_vars(RendererStep) /\ WF_vars(Enqueue)

-----------------------------------------------------------------------------
(* Properties.                                                             *)

\* Type invariant.
TypeOK ==
  /\ init \in {0, 1} /\ out \in Slots /\ slot \in [Slots -> Slot]
  /\ receiver \in {"recvfrom", "readOut", "locate", "setLength", "setTotal",
                   "readByte", "writeByte", "copy"}
  /\ packet \in Packets /\ pos \in Slots /\ byte \in SUBSET Bits
  /\ renderer \in {"poll", "count", "compare", "skip", "readLength", "copyOut",
                   "copyMeta", "clearBitmap", "bumpFid", "clearLength",
                   "clearTotal", "advance"}
  /\ n \in Nat /\ size \in Nat /\ fmeta \in Meta /\ buffer \in [Pids -> Nat]
  /\ wait \in 0 .. WaitLimit /\ polls \in 0 .. WaitLimit
  /\ first \in BOOLEAN

\* The next frame to play follows the one just dequeued or skipped, by one,
\* whatever the receiver does to the slots in the meantime.
WindowSlides ==
  [][out' # out => slot[out'].fid = slot[out].fid - Size + 1]_vars

\* Every frame but the first gets its renderer_wait_limit polls: it is given up
\* only after that many refusals since it became the next one, none inherited
\* from the frame before, whether that was played or skipped.  The first frame
\* has no such claim: refusals before the first packet count against it, and a
\* skip decided before that packet may fall on it (watcher.cpp:262-266).
SkipsOnlyTheOverdue == renderer = "skip" /\ ~first => polls >= WaitLimit

\* The packet of a bit has no payload.
IsEmpty(b) ==
  \E q \in Packets : q.fid = b.fid /\ q.pid = b.pid /\ q.total_length = 0

\* Bits that are set for packet c, if any, include that of payload d.
Announce(bits, c, d) ==
  (\E b \in bits : b.pid = c) =>
    \E b \in bits : b.pid = c /\ (b.fid = d \/ IsEmpty(b))

\* A bit is visible before its payload (fb_enqueue_packet()), and bits come and
\* go while the payload is copied: renderer clears them, bitmap_set() stores the
\* byte it read before.  Even so at most one bit in the whole ring is without
\* its payload, that of the packet now being copied: a frame counted complete
\* lacks its last payload at worst.
OnePayloadBehind ==
  \A p \in Slots, c \in Pids :
    \/ Announce(slot[p].bitmap, c, slot[p].data[c])
    \/ receiver = "copy" /\ pos = p /\ packet.pid = c

\* A lost or partial frame never stalls the playout: the renderer comes to ask
\* for a later frame, with the head of the ring moved on.
PlayoutAdvances ==
  \A f \in 1 .. MaxFid :
    (init = 0 /\ slot[out].fid = f) ~> (renderer = "poll" /\ slot[out].fid > f)

-----------------------------------------------------------------------------
(* What comments of the code say and the code does not do.                 *)

\* watcher.h: "check whether the next frame is delivered and ready to dequeue";
\* watcher.cpp: "if the buffer is empty, just wait for another iteration".
\* What is dequeued has been delivered, at least in part: a slot that no packet
\* has reached has total_packet = 0, which fb_dequeue_ready() takes for complete.
DequeuesDelivered ==
  renderer = "readLength" => slot[out].total_packet # 0
=============================================================================
