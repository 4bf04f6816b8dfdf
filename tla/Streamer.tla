------------------------------ MODULE Streamer ------------------------------
(***************************************************************************)
(* The streamer process (streamer.cpp): the streamer thread encodes a frame*)
(* per iteration, splits it into packets and records when each was sent;   *)
(* the feedback thread stores what the watcher answers in the same tables; *)
(* the main thread dumps the tables to files while both are still running, *)
(* then stops and joins them.  fmeta[f] is given by fstate, ftotal         *)
(* (total_packets) and ftable (pmeta # NULL); pmeta[f][p] by pstate, psent *)
(* (sender_ts # 0) and prtt (how rtt_air was computed).  A thread that has *)
(* stored past the end of a frame's packet table is "wild", and what the   *)
(* process does then is undefined.  Sizes are counted in bytes of a small  *)
(* packet size; an encoded frame is a sequence of segments, one for JPEG,  *)
(* one per NAL unit for H.264 (EncodeFrameCV).                             *)
(***************************************************************************)
EXTENDS Integers, Sequences, FiniteSets

CONSTANTS
  FmetaSize,    \* frames the tables have room for (1024)
  PacketSize,   \* payload bytes of a full packet (1024)
  JpegSizes,    \* codec 0: bytes imencode() may return
  Bitstreams,   \* codec 1: sequences of layers, sequences of unit lengths
  MaxSegs,      \* segments a frame may have (128)
  PacketPerFrameMax,   \* rows of a frame's packet table (256)
  PidModulus,   \* 2^32 in the code: packet IDs are uint32_t
  SendErrors,   \* whether sendto() may fail
  MaxFrames     \* bound: frames the camera delivers

ASSUME SizesAssumption ==
  /\ FmetaSize \in Nat \ {0} /\ PacketSize \in Nat \ {0}
  /\ PacketPerFrameMax \in Nat \ {0}
  /\ PidModulus \in Nat /\ PidModulus > PacketPerFrameMax
  /\ MaxFrames \in Nat \ {0} /\ SendErrors \in BOOLEAN
\* The length EncodeFrameCV reads for a layer of several units is one of them.
ASSUME BitstreamsAssumption ==
  /\ JpegSizes \subseteq Nat /\ MaxSegs \in Nat
  /\ Bitstreams \subseteq Seq(Seq(Nat \ {0}))
  /\ \A b \in Bitstreams : \A i \in DOMAIN b : Len(b[i]) > 1 => i <= Len(b[i])

VARIABLES
  codec,                                    \* 0 JPEG, 1 H.264
  streamer, fid, layers, segs, seg,         \* streamer thread
  pid, remain, frame_offset, pid_offset, byte_offset,
  failed,                                   \* a sendto() of this frame failed
  sent,                                     \* the packets sendto() accepted
  fstate, ftotal, ftable, pstate, psent, prtt, last_fid,   \* the tables
  feedback, answer,                         \* feedback thread
  main, row,                                \* main thread
  stop_streamer, stop_feedback

loopVars == <<codec, fid, layers, segs, seg, pid, remain, frame_offset, pid_offset,
              byte_offset, failed>>
frameTable == <<fstate, ftotal, ftable>>
packetTable == <<pstate, psent, prtt>>
feedbackVars == <<feedback, answer>>
mainVars == <<main, row, stop_streamer, stop_feedback>>
vars == <<streamer, loopVars, sent, frameTable, packetTable, last_fid,
          feedbackVars, mainVars>>

Frames == 0 .. MaxFrames - 1
Rows == 0 .. FmetaSize - 1
Least(a, b) == IF a < b THEN a ELSE b

\* The packets of one segment, of one frame.
NrPackets(size) == size \div PacketSize + (IF size % PacketSize > 0 THEN 1 ELSE 0)

Sum[s \in Seq(Nat)] == IF s = <<>> THEN 0 ELSE Head(s) + Sum[Tail(s)]

Bytes(s) == Sum[[i \in DOMAIN s |-> s[i].size]]

TotalPackets(s) ==
  LET n == Sum[[i \in DOMAIN s |-> NrPackets(s[i].size)]] IN IF n = 0 THEN 1 ELSE n

\* The units of a layer, each found where the one before it begins.
LayerSegmentsUnmoved(b, i) ==
  [j \in DOMAIN b[i] |-> [layer |-> i, offset |-> 0, size |-> b[i][j]]]

\* The units of layer i: the offset is advanced by the length of unit number i
\* of the layer, whichever unit was just passed.
LayerSegments(b, i) ==
  [j \in DOMAIN b[i] |->
     [layer |-> i, offset |-> IF j = 1 THEN 0 ELSE (j - 1) * b[i][i], size |-> b[i][j]]]

Concat[ss \in Seq(Seq([layer : Nat, offset : Nat, size : Nat]))] ==
  IF ss = <<>> THEN <<>> ELSE Head(ss) \o Concat[Tail(ss)]

\* The first MaxSegs units of all layers.
EncodeFrameCV(b) ==
  LET units == Concat[[i \in DOMAIN b |-> LayerSegments(b, i)]] IN
    SubSeq(units, 1, Least(Len(units), MaxSegs))

\* imencode() returns one buffer.
Jpeg(k) == <<[layer |-> 1, offset |-> 0, size |-> k]>>
Encodings == {Jpeg(k) : k \in JpegSizes} \cup {EncodeFrameCV(b) : b \in Bitstreams}

\* frame_size_encoded: all units count, also those beyond MaxSegs.
FrameSize(b) == Sum[[i \in DOMAIN b |-> Sum[b[i]]]]

\* "assume the maximum frame size is 256 KB": frames fit their tables.
ASSUME FramesFit == \A s \in Encodings : TotalPackets(s) <= PacketPerFrameMax
Pids == 0 .. PacketPerFrameMax - 1

\* What goes over the wire: of struct frame_packet the fields the watcher
\* places a packet by, of struct packet_feedback the packet it answers.
PacketIds == 0 .. PidModulus - 1
frame_packet == [fid : Frames, pid : PacketIds, total_packets : Nat,
                 total_length : Nat, offset : Nat, length : 0 .. PacketSize]
packet_feedback == Frames \X PacketIds

\* A segment without a byte sends no packet.
SegmentStart(size) == IF size > 0 THEN "send" ELSE "endSegment"

\* No thread has stored outside the tables: from then on no step is predicted.
Defined == streamer # "wild" /\ feedback # "wild"

\* The streamer thread up to its loop: without a camera it is done at once.
OpenCamera == streamer \in {"loop", "done"}

Init ==
  /\ OpenCamera
  /\ codec \in {0, 1}
  /\ fid = 0 /\ layers = <<>> /\ segs = <<>> /\ seg = 1
  /\ pid = 0 /\ remain = 0 /\ frame_offset = 0
  /\ pid_offset = 0 /\ byte_offset = 0 /\ failed = FALSE
  /\ sent = {}
  /\ fstate = [f \in Rows |-> 0]
  /\ ftotal = [f \in Rows |-> 0]
  /\ ftable = [f \in Rows |-> FALSE]
  /\ pstate = [f \in Rows |-> [p \in Pids |-> 0]]
  /\ psent = [f \in Rows |-> [p \in Pids |-> FALSE]]
  /\ prtt = [f \in Rows |-> [p \in Pids |-> "none"]]
  /\ last_fid = 0
  /\ feedback = "test" /\ answer = <<0, 0>>
  /\ main = "show" /\ row = 0
  /\ stop_streamer = FALSE /\ stop_feedback = FALSE

-----------------------------------------------------------------------------
(* The streamer thread.                                                    *)

StreamerStops ==
  /\ streamer = "loop" /\ stop_streamer
  /\ streamer' = "done"
  /\ UNCHANGED <<loopVars, sent, frameTable, packetTable, last_fid,
                 feedbackVars, mainVars>>

\* Grab a frame and encode it.
Encode ==
  /\ streamer = "loop" /\ ~stop_streamer
  /\ \/ /\ codec = 0
        /\ \E k \in JpegSizes : layers' = <<<<k>>>> /\ segs' = Jpeg(k)
     \/ /\ codec = 1
        /\ layers' \in Bitstreams /\ segs' = EncodeFrameCV(layers')
  /\ failed' = FALSE
  /\ streamer' = "record"
  /\ UNCHANGED <<codec, fid, seg, pid, remain, frame_offset, pid_offset, byte_offset,
                 sent, frameTable, packetTable, last_fid, feedbackVars, mainVars>>

\* The frame's row filled in without its packet table.
RecordWithoutTable ==
  /\ streamer = "record"
  /\ fstate' = IF fid < FmetaSize THEN [fstate EXCEPT ![fid] = 1] ELSE fstate
  /\ streamer' = "setLast"
  /\ UNCHANGED <<loopVars, sent, ftotal, ftable, packetTable, last_fid,
                 feedbackVars, mainVars>>

\* The frame's row, pointer to its packet table included.
Record ==
  /\ streamer = "record"
  /\ fstate' = IF fid < FmetaSize THEN [fstate EXCEPT ![fid] = 1] ELSE fstate
  /\ ftable' = IF fid < FmetaSize THEN [ftable EXCEPT ![fid] = TRUE] ELSE ftable
  /\ streamer' = "setLast"
  /\ UNCHANGED <<loopVars, sent, ftotal, packetTable, last_fid,
                 feedbackVars, mainVars>>

\* last_fid = fid, then send_frame() starts with its first segment, if any.
SetLast ==
  /\ streamer = "setLast"
  /\ last_fid' = fid
  /\ seg' = 1
  /\ pid' = 0 /\ pid_offset' = 0
  /\ frame_offset' = 0 /\ byte_offset' = 0
  /\ IF segs = <<>> THEN remain' = 0 /\ streamer' = "send"
     ELSE remain' = segs[1].size /\ streamer' = SegmentStart(segs[1].size)
  /\ UNCHANGED <<codec, fid, layers, segs, failed, sent, frameTable, packetTable,
                 feedbackVars, mainVars>>

\* send_empty_frame(): a frame without segments is announced by one packet.
EmptyPacket ==
  [fid |-> fid, pid |-> 0, total_packets |-> 1,
   total_length |-> 0, offset |-> 0, length |-> 0]

\* The next packet of the segment.
SegmentPacket ==
  [fid |-> fid, pid |-> pid, total_packets |-> TotalPackets(segs),
   total_length |-> FrameSize(layers), offset |-> frame_offset,
   length |-> Least(remain, PacketSize)]

\* One iteration of send_frame_seg(), or send_empty_frame(), up to sendto().
SendPacket ==
  /\ streamer = "send"
  /\ sent' = sent \cup {IF segs = <<>> THEN EmptyPacket ELSE SegmentPacket}
  /\ streamer' = "stampState"
  /\ UNCHANGED <<loopVars, frameTable, packetTable, last_fid, feedbackVars, mainVars>>

\* The next segment with its first packet ID and byte offset, or none.
NextSegment(pids, bytes) ==
  /\ pid_offset' = pids % PidModulus /\ byte_offset' = bytes
  /\ IF seg < Len(segs)
     THEN /\ seg' = seg + 1 /\ remain' = segs[seg + 1].size
          /\ pid' = pids % PidModulus /\ frame_offset' = bytes
          /\ streamer' = SegmentStart(segs[seg + 1].size)
     ELSE /\ streamer' = "finish"
          /\ UNCHANGED <<seg, remain, pid, frame_offset>>

\* sendto() failed: the segment is given up and its result, -1, is added to
\* pid_offset like a count of packets.
SendFails ==
  /\ streamer = "send" /\ SendErrors
  /\ failed' = TRUE
  /\ IF segs = <<>>
     THEN streamer' = "finish" /\ UNCHANGED <<seg, remain, pid, frame_offset,
                                              pid_offset, byte_offset>>
     ELSE NextSegment(pid_offset - 1, byte_offset + segs[seg].size)
  /\ UNCHANGED <<codec, fid, layers, segs, sent, frameTable, packetTable, last_fid,
                 feedbackVars, mainVars>>

\* Only after sendto() returned is the packet marked as sent, in entry pid of
\* the frame's table, whether the table has such an entry or not ...
StampState ==
  /\ streamer = "stampState"
  /\ \/ /\ fid < FmetaSize => pid \in Pids
        /\ pstate' = IF fid < FmetaSize
                     THEN [pstate EXCEPT ![fid] = [@ EXCEPT ![pid] = 1]] ELSE pstate
        /\ streamer' = "stampTime"
     \/ /\ fid < FmetaSize /\ pid \notin Pids
        /\ streamer' = "wild"
        /\ UNCHANGED pstate
  /\ UNCHANGED <<loopVars, sent, frameTable, psent, prtt, last_fid,
                 feedbackVars, mainVars>>

\* ... and its sender_ts stored; then the next packet of the segment, if any.
StampTime ==
  /\ streamer = "stampTime"
  /\ psent' = IF fid < FmetaSize
              THEN [psent EXCEPT ![fid] = [@ EXCEPT ![pid] = TRUE]] ELSE psent
  /\ pid' = (pid + 1) % PidModulus
  /\ remain' = remain - Least(remain, PacketSize)
  /\ frame_offset' = frame_offset + Least(remain, PacketSize)
  /\ streamer' = IF remain' > 0 THEN "send" ELSE "endSegment"
  /\ UNCHANGED <<codec, fid, layers, segs, seg, pid_offset, byte_offset, failed, sent,
                 frameTable, pstate, prtt, last_fid, feedbackVars, mainVars>>

\* The bytes of a segment counted for its packets.
EndSegmentByBytes ==
  /\ streamer = "endSegment"
  /\ IF segs = <<>> THEN NextSegment(1, 0)
     ELSE NextSegment(pid_offset + segs[seg].size, byte_offset + segs[seg].size)
  /\ UNCHANGED <<codec, fid, layers, segs, failed, sent, frameTable, packetTable, last_fid,
                 feedbackVars, mainVars>>

\* The packets of a segment counted without the one that is not full.
EndSegmentRoundedDown ==
  /\ streamer = "endSegment"
  /\ IF segs = <<>> THEN NextSegment(1, 0)
     ELSE NextSegment(pid_offset + segs[seg].size \div PacketSize, byte_offset + segs[seg].size)
  /\ UNCHANGED <<codec, fid, layers, segs, failed, sent, frameTable, packetTable, last_fid,
                 feedbackVars, mainVars>>

EndSegment ==
  /\ streamer = "endSegment"
  /\ IF segs = <<>> THEN NextSegment(1, 0)
     ELSE NextSegment(pid_offset + NrPackets(segs[seg].size), byte_offset + segs[seg].size)
  /\ UNCHANGED <<codec, fid, layers, segs, failed, sent, frameTable, packetTable, last_fid,
                 feedbackVars, mainVars>>

\* total_packets and sender_ts of the frame.
Finish ==
  /\ streamer = "finish"
  /\ ftotal' = IF fid < FmetaSize
               THEN [ftotal EXCEPT ![fid] = TotalPackets(segs)] ELSE ftotal
  /\ streamer' = "pace"
  /\ UNCHANGED <<loopVars, sent, fstate, ftable, packetTable, last_fid,
                 feedbackVars, mainVars>>

\* Sleep until the next frame is due.
Pace ==
  /\ streamer = "pace"
  /\ fid < MaxFrames - 1 \/ stop_streamer
  /\ fid' = fid + 1
  /\ streamer' = "loop"
  /\ UNCHANGED <<codec, layers, segs, seg, pid, remain, frame_offset, pid_offset, byte_offset,
                 failed, sent, frameTable, packetTable, last_fid,
                 feedbackVars, mainVars>>

StreamerStep ==
  /\ Defined
  /\ \/ StreamerStops \/ Encode \/ Record \/ SetLast \/ SendPacket \/ SendFails
     \/ StampState \/ StampTime \/ EndSegment \/ Finish \/ Pace

-----------------------------------------------------------------------------
(* The feedback thread.                                                    *)

TestStop ==
  /\ feedback = "test"
  /\ feedback' = IF stop_feedback THEN "done" ELSE "recvfrom"
  /\ UNCHANGED <<streamer, loopVars, sent, frameTable, packetTable, last_fid,
                 answer, mainVars>>

\* A socket without SO_RCVTIMEO: recvfrom() waits for a feedback.
BlockForever ==
  /\ feedback = "recvfrom" /\ FALSE
  /\ feedback' = "test"
  /\ UNCHANGED <<streamer, loopVars, sent, frameTable, packetTable, last_fid,
                 answer, mainVars>>

\* SO_RCVTIMEO: recvfrom() gives up after 1 ms.
ReceiveTimesOut ==
  /\ feedback = "recvfrom"
  /\ feedback' = "test"
  /\ UNCHANGED <<streamer, loopVars, sent, frameTable, packetTable, last_fid,
                 answer, mainVars>>

\* The watcher answers every packet it receives, perhaps more than once.
PacketFeedback ==
  /\ feedback = "recvfrom"
  /\ \E p \in sent :
       /\ answer' = <<p.fid, p.pid>>
       /\ feedback' = IF p.fid < FmetaSize THEN "rtt" ELSE "test"
  /\ UNCHANGED <<streamer, loopVars, sent, frameTable, packetTable, last_fid, mainVars>>

\* receiver_ts, feedback_ts and rtt_air = feedback_ts - sender_ts, in the entry
\* of the packet the feedback names; only its fid was compared with a bound.
SetRtt ==
  /\ feedback = "rtt"
  /\ LET f == answer[1]  p == answer[2] IN
       \/ /\ p \in Pids
          /\ prtt' = [prtt EXCEPT ![f] =
                        [@ EXCEPT ![p] = IF psent[f][p] THEN "air" ELSE "bogus"]]
          /\ feedback' = "state"
       \/ p \notin Pids /\ feedback' = "wild" /\ UNCHANGED prtt
  /\ UNCHANGED <<streamer, loopVars, sent, frameTable, pstate, psent, last_fid,
                 answer, mainVars>>

SetState ==
  /\ feedback = "state"
  /\ pstate' = [pstate EXCEPT ![answer[1]] = [@ EXCEPT ![answer[2]] = 2]]
  /\ answer' = <<0, 0>>
  /\ feedback' = "test"
  /\ UNCHANGED <<streamer, loopVars, sent, frameTable, psent, prtt, last_fid, mainVars>>

\* Frame feedback; the watcher also reports frames it gave up waiting for.
FrameFeedback ==
  /\ feedback = "recvfrom"
  /\ \E f \in Frames :
       fstate' = IF f < FmetaSize THEN [fstate EXCEPT ![f] = 2] ELSE fstate
  /\ feedback' = "test"
  /\ UNCHANGED <<streamer, loopVars, sent, ftotal, ftable, packetTable, last_fid,
                 answer, mainVars>>

FeedbackStep ==
  /\ Defined
  /\ \/ TestStop \/ ReceiveTimesOut \/ PacketFeedback \/ SetRtt \/ SetState
     \/ FrameFeedback

-----------------------------------------------------------------------------
(* The main thread.                                                        *)

\* The user pressed escape, or 5000 images were shown (at 40 ms each).
EndShow ==
  /\ main = "show"
  /\ main' = "dump"
  /\ UNCHANGED <<streamer, loopVars, sent, frameTable, packetTable, last_fid,
                 feedbackVars, row, stop_streamer, stop_feedback>>

\* A loop without the limit of the table.
MoreRowsUnbounded == row < last_fid

\* A loop that includes the frame being sent.
MoreRowsInclusive == row <= last_fid /\ row < FmetaSize

\* The condition of the loop of dump_meta(), read again for each row.
MoreRows == row < last_fid /\ row < FmetaSize

\* dump_frame_meta() and the rows of the frame's packets.
DumpRow ==
  /\ main = "dump" /\ MoreRows
  /\ row' = row + 1
  /\ UNCHANGED <<streamer, loopVars, sent, frameTable, packetTable, last_fid,
                 feedbackVars, main, stop_streamer, stop_feedback>>

StopThreads ==
  /\ \/ /\ main = "dump" /\ ~MoreRows
        /\ main' = "stop" /\ stop_streamer' = TRUE /\ UNCHANGED stop_feedback
     \/ /\ main = "stop"
        /\ main' = "joinStreamer" /\ stop_feedback' = TRUE /\ UNCHANGED stop_streamer
  /\ UNCHANGED <<streamer, loopVars, sent, frameTable, packetTable, last_fid,
                 feedbackVars, row>>

Join ==
  /\ \/ main = "joinStreamer" /\ streamer = "done" /\ main' = "joinFeedback"
     \/ main = "joinFeedback" /\ feedback = "done" /\ main' = "exit"
  /\ UNCHANGED <<streamer, loopVars, sent, frameTable, packetTable, last_fid,
                 feedbackVars, row, stop_streamer, stop_feedback>>

MainStep == Defined /\ (EndShow \/ DumpRow \/ StopThreads \/ Join)

Next == StreamerStep \/ FeedbackStep \/ MainStep

Spec == Init /\ [][Next]_vars

\* All three threads are scheduled, the 1 ms timeout of a silent network
\* expires, and main's loop over 5000 images ends.
FairSpec ==
  /\ Spec
  /\ WF_vars(StreamerStep)
  /\ WF_vars(Defined /\ (TestStop \/ ReceiveTimesOut \/ SetRtt \/ SetState))
  /\ WF_vars(MainStep)

-----------------------------------------------------------------------------
(* Properties.                                                             *)

\* The variables keep their ranges up to the first store outside the tables; in
\* particular the dump never runs past the end of fmeta.
TypeOK ==
  /\ streamer \in {"loop", "record", "setLast", "send", "stampState",
                   "stampTime", "endSegment", "finish", "pace", "done", "wild"}
  /\ codec \in {0, 1} /\ fid \in 0 .. MaxFrames
  /\ layers \in Bitstreams \cup {<<<<k>>>> : k \in JpegSizes} \cup {<<>>}
  /\ segs \in Encodings \cup {<<>>}
  /\ seg \in Nat /\ remain \in Nat /\ frame_offset \in Nat /\ byte_offset \in Nat
  /\ pid \in 0 .. PidModulus - 1 /\ pid_offset \in 0 .. PidModulus - 1
  /\ failed \in BOOLEAN /\ sent \subseteq frame_packet
  /\ fstate \in [Rows -> 0 .. 2] /\ ftotal \in [Rows -> 0 .. PacketPerFrameMax]
  /\ ftable \in [Rows -> BOOLEAN]
  /\ pstate \in [Rows -> [Pids -> 0 .. 2]] /\ psent \in [Rows -> [Pids -> BOOLEAN]]
  /\ prtt \in [Rows -> [Pids -> {"none", "air", "bogus"}]]
  /\ last_fid \in Frames
  /\ feedback \in {"test", "recvfrom", "rtt", "state", "done", "wild"}
  /\ answer \in packet_feedback
  /\ main \in {"show", "dump", "stop", "joinStreamer", "joinFeedback", "exit"}
  /\ row \in 0 .. FmetaSize
  /\ stop_streamer \in BOOLEAN /\ stop_feedback \in BOOLEAN

OfFrame(f) == {p \in sent : p.fid = f}

\* A frame whose packets were all accepted by sendto() went out whole: the IDs
\* 0 .. total_packets - 1 once each, the packet of every ID beginning where the
\* one before it ends, and the last one ending the frame, whatever the number
\* and the sizes of the encoder's segments (send_frame, send_frame_seg).
\* A JPEG of no bytes is the exception: nothing is sent of it.
FrameTiled ==
  streamer = "finish" /\ ~failed /\ (segs = <<>> \/ Bytes(segs) > 0) =>
    LET ps == OfFrame(fid)
        total == TotalPackets(segs)
        at(i) == CHOOSE p \in ps : p.pid = i
    IN /\ {p.pid : p \in ps} = 0 .. total - 1 /\ Cardinality(ps) = total
       /\ at(0).offset = 0
       /\ \A i \in 1 .. total - 1 : at(i).offset = at(i - 1).offset + at(i - 1).length
       /\ at(total - 1).offset + at(total - 1).length = Bytes(segs)

\* What is sent is what was encoded: the segments are the frame's NAL units, in
\* order, each found where it lies in its layer, and they are all of the frame
\* unless it has more than MaxSegs.  EncodeFrameCV advances by a wrong length;
\* this is the shape of frames that hides it: parameter sets (at most two units)
\* in the first layer, one slice in every other.
EncodedIntact ==
  streamer = "record" /\ (\A i \in DOMAIN layers : Len(layers[i]) <= (IF i = 1 THEN 2 ELSE 1)) =>
    LET before(s) == Sum[[i \in 1 .. s.layer - 1 |-> Sum[layers[i]]]] + s.offset
    IN /\ \A k \in DOMAIN segs :
            before(segs[k]) = Sum[[i \in 1 .. k - 1 |-> segs[i].size]]
       /\ Len(segs) < MaxSegs => Bytes(segs) = FrameSize(layers)

\* The dump runs while the streamer still writes the tables; every row it
\* dumps is of a frame the streamer has finished: its packet table is set, so
\* is its packet count, and every packet of it that was sent has an entry with
\* its sender_ts (StampState, StampTime).
DumpsFinishedFrames ==
  main = "dump" /\ MoreRows =>
    /\ ftable[row] /\ ftotal[row] # 0
    /\ \A p \in OfFrame(row) : p.pid \in Pids /\ psent[row][p.pid]

\* The feedback thread finds the packet table of the frame a packet feedback
\* names: it never follows the NULL calloc() left in fm->pmeta.
FeedbackFindsTable == feedback = "rtt" => ftable[answer[1]]

\* Packet IDs are an index nobody checks: send_frame_seg() and the feedback
\* thread store in entry pid of the frame's table.  They leave the table only
\* after a sendto() of the frame at hand has failed: then -1 was added to
\* pid_offset and the next segment begins with packet 2^32 - 1.
StoresInTable == ~Defined => failed

\* main() returns: the dump ends although the streamer goes on making frames,
\* and both threads see their stop flag and can be joined; unless the process
\* has met the undefined store that StoresInTable is about.
ShutdownCompletes == <>(main = "exit" \/ ~Defined)

-----------------------------------------------------------------------------
(* What a comment of streamer.h says, and the code does not do.            *)

\* streamer.h: "packet state: 0 - init; 1 - packet is sent; 2 - packet feedback
\* is received" and "round trip time in the air, i.e., feedback_ts - sender_ts".
\* A packet whose feedback has been handled (SetRtt and SetState are done) is in
\* state 2 and its rtt_air was computed from the sender_ts of that packet.
AnsweredIsRecorded ==
  \A f \in Rows, p \in Pids :
    prtt[f][p] # "none" /\ ~(feedback = "state" /\ answer = <<f, p>>)
      => pstate[f][p] = 2 /\ prtt[f][p] = "air"
=============================================================================
