---------------------------- MODULE FeedbackFifo ----------------------------
(***************************************************************************)
(* The watcher's frame_feedback_fifo (struct fifo of watcher.h) and the    *)
(* two threads that share it without a lock.  The renderer thread builds   *)
(* one frame_feedback per frame it renders, in place in the next slot of   *)
(* the ring, and publishes it by advancing `in'; the receiver thread,      *)
(* after each packet it receives, sends every published record to the      *)
(* streamer and releases its slot by advancing `out'.                      *)
(*                                                                         *)
(* A record is built by a series of plain stores, so it is modelled by two *)
(* halves (head: the fields of lines 315-321; times: the timestamps of     *)
(* lines 322-325), each tagged with the number of the record it belongs    *)
(* to.  Every access to a variable both threads use is a step of its own.  *)
(***************************************************************************)
EXTENDS Integers, Sequences

CONSTANTS
  Size,        \* slots of the ring (64 in main())
  MaxRecords   \* bound: feedback records the renderer builds in a behaviour

ASSUME SizeAssumption == Size \in Nat \ {0}
ASSUME MaxRecordsAssumption == MaxRecords \in Nat

VARIABLES
  in, out,     \* fifo->in, written by the renderer; fifo->out, by the receiver
  queue,       \* fifo->queue: the slots
  built,       \* how many records the renderer has started or dropped
  renderer,    \* where the renderer thread is
  receiver,    \* where the receiver thread is
  sent         \* the records handed to sendto(), oldest first (the network)

vars == <<in, out, queue, built, renderer, receiver, sent>>

Slots == 0 .. Size - 1

\* The record number n, once both halves have been stored.
Record(n) == [head |-> n, times |-> n]
Records == [head : Nat, times : Nat]

\* malloc() leaves the slots uninitialised: 0 stands for what they hold then.
fifo_create ==
  /\ in = 0
  /\ out = 0
  /\ queue = [s \in Slots |-> Record(0)]

\* An emptiness test that forgets that the ring wraps.
fifo_empty_unwrapped == in <= out

fifo_empty == in = out

\* A fullness test that forgets that the ring wraps.
fifo_full_unwrapped == in + 1 = out

fifo_full == (in + 1) % Size = out

Init ==
  /\ fifo_create
  /\ built = 0
  /\ renderer = "rendering"
  /\ receiver = "recvfrom"
  /\ sent = <<>>

-----------------------------------------------------------------------------
(* The renderer thread.                                                    *)

\* A frame was rendered and the ring has room: start its feedback.
BeginFeedback ==
  /\ renderer = "rendering"
  /\ built < MaxRecords
  /\ ~fifo_full
  /\ built' = built + 1
  /\ renderer' = "fillHead"
  /\ UNCHANGED <<in, out, queue, receiver, sent>>

\* A frame was rendered and the ring is full: its feedback is never built.
DropFeedback ==
  /\ renderer = "rendering"
  /\ built < MaxRecords
  /\ fifo_full
  /\ built' = built + 1
  /\ UNCHANGED <<in, out, queue, renderer, receiver, sent>>

\* What a publication before the last store would do.
FillHeadAndPublish ==
  /\ renderer = "fillHead"
  /\ queue' = [queue EXCEPT ![in] = [head |-> built, times |-> @.times]]
  /\ in' = (in + 1) % Size
  /\ renderer' = "rendering"
  /\ UNCHANGED <<out, built, receiver, sent>>

FillHead ==
  /\ renderer = "fillHead"
  /\ queue' = [queue EXCEPT ![in] = [head |-> built, times |-> @.times]]
  /\ renderer' = "fillTimes"
  /\ UNCHANGED <<in, out, built, receiver, sent>>

FillTimes ==
  /\ renderer = "fillTimes"
  /\ queue' = [queue EXCEPT ![in] = [head |-> @.head, times |-> built]]
  /\ renderer' = "publish"
  /\ UNCHANGED <<in, out, built, receiver, sent>>

\* A publication whose cursor is not wrapped.
PublishUnwrapped ==
  /\ renderer = "publish"
  /\ in' = in + 1
  /\ renderer' = "rendering"
  /\ UNCHANGED <<out, queue, built, receiver, sent>>

\* fifo_enqueue_fast(): the memory barrier, then the advance of `in'.
Publish ==
  /\ renderer = "publish"
  /\ in' = (in + 1) % Size
  /\ renderer' = "rendering"
  /\ UNCHANGED <<out, queue, built, receiver, sent>>

-----------------------------------------------------------------------------
(* The receiver thread.                                                    *)

\* recvfrom() returned: the packet is enqueued to the frame buffer and its
\* packet feedback sent (module FrameBuffer); the drain loop starts.
PacketArrives ==
  /\ receiver = "recvfrom"
  /\ receiver' = "drain"
  /\ UNCHANGED <<in, out, queue, built, renderer, sent>>

\* The loop condition of the drain loop.
CheckEmpty ==
  /\ receiver = "drain"
  /\ receiver' = IF fifo_empty THEN "recvfrom" ELSE "send"
  /\ UNCHANGED <<in, out, queue, built, renderer, sent>>

SendHead ==
  /\ receiver = "send"
  /\ sent' = Append(sent, queue[out])
  /\ receiver' = "release"
  /\ UNCHANGED <<in, out, queue, built, renderer>>

\* fifo_dequeue_fast(): the memory barrier, then the advance of `out'.
Release ==
  /\ receiver = "release"
  /\ out' = (out + 1) % Size
  /\ receiver' = "drain"
  /\ UNCHANGED <<in, queue, built, renderer, sent>>

-----------------------------------------------------------------------------
RendererStep ==
  BeginFeedback \/ DropFeedback \/ FillHead \/ FillTimes \/ Publish

Drain == CheckEmpty \/ SendHead \/ Release

Next == RendererStep \/ PacketArrives \/ Drain

Spec == Init /\ [][Next]_vars

\* The receiver thread keeps running, and the streamer keeps sending packets.
FairSpec == Spec /\ WF_vars(Drain) /\ WF_vars(PacketArrives)
-----------------------------------------------------------------------------
(* Properties.                                                             *)

RingOK ==
  /\ in \in Slots
  /\ out \in Slots
  /\ queue \in [Slots -> Records]
  /\ built \in 0 .. MaxRecords
  /\ renderer \in {"rendering", "fillHead", "fillTimes", "publish"}
  /\ receiver \in {"recvfrom", "drain", "send", "release"}

HistoryOK == sent \in Seq(Records)

\* Type invariant: both cursors stay inside the ring.
TypeOK == RingOK /\ HistoryOK

\* How far slot p lies behind the read cursor, walking round the ring.
Distance(p) == IF p >= out THEN p - out ELSE p - out + Size

Occupancy == Distance(in)

\* The slots from the read cursor up to the write cursor, as a queue.
Waiting == [i \in 1 .. Occupancy |-> queue[(out + (i - 1)) % Size]]

\* A record in transit leaves the queue when its slot is released.
Taken == IF receiver = "release" THEN SubSeq(sent, 1, Len(sent) - 1) ELSE sent

Abstract == INSTANCE BoundedQueue
              WITH Values   <- {Record(n) : n \in 1 .. MaxRecords},
                   Capacity <- Size - 1,
                   waiting  <- Waiting,
                   taken    <- Taken

\* The ring implements the abstract queue: whatever the interleaving of the
\* two threads, only complete records are published, at most Size - 1 wait,
\* and each is sent to the streamer exactly once, in order.
ImplementsQueue == Abstract!Spec

PublishedComplete ==
  \A p \in Slots : Distance(p) < Occupancy =>
    queue[p].head = queue[p].times /\ queue[p].head \in 1 .. MaxRecords

RendererOwnsTail ==
  /\ renderer # "rendering" => built > 0 /\ Occupancy < Size - 1
  /\ renderer \in {"fillTimes", "publish"} => queue[in].head = built
  /\ renderer = "publish" => queue[in].times = built

SentHead == sent # <<>> /\ sent[Len(sent)] = queue[out]

ReceiverOwnsHead ==
  /\ receiver \in {"send", "release"} => Occupancy > 0
  /\ receiver = "release" => SentHead

\* Between the two cursors every slot holds a finished record, the renderer
\* writes only outside that region and the receiver reads only inside it:
\* the single-producer single-consumer discipline that lets the FIFO do
\* without a lock.
Discipline == PublishedComplete /\ RendererOwnsTail /\ ReceiverOwnsHead

\* Frame feedback that was published does not stay in the ring: as long as
\* packets keep arriving (the drain loop only runs after a recvfrom), the
\* record is sent.
PublishedIsSent ==
  \A n \in 1 .. MaxRecords :
    (\E p \in Slots : Distance(p) < Occupancy /\ queue[p] = Record(n))
      ~> (\E i \in 1 .. Len(sent) : sent[i] = Record(n))
=============================================================================
