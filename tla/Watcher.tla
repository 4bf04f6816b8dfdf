------------------------------- MODULE Watcher -------------------------------
(***************************************************************************)
(* The watcher process as a whole (watcher_v1_jpeg, the same text as       *)
(* watcher_v1_audio), at the granularity of its operations: a packet is    *)
(* enqueued, a poll of the renderer is made, the user ends the program.    *)
(* The steps the threads make inside these operations are the subject of   *)
(* FrameBuffer and FeedbackFifo; here time passes instead.  What comes of  *)
(* an enqueue and a dequeue that are under way at once, and of no order of *)
(* the two, is an action of its own.  The clock counts polls of the        *)
(* renderer (1 ms each).                                                   *)
(*                                                                         *)
(* A frame is one packet, so a slot with its packet is ready (1 > 80 % of  *)
(* 1); `picture' is the frame a slot's payload belongs to, which the code  *)
(* does not keep.                                                          *)
(***************************************************************************)
EXTENDS Integers

CONSTANTS
  Size,       \* slots of the frame buffer (256)
  Delay,      \* renderer_delay, in polls (200)
  WaitLimit   \* period * 10 / 1000, in polls (333)

ASSUME WatcherAssumption ==
  Size \in Nat \ {0} /\ Delay \in Nat /\ WaitLimit \in Nat

VARIABLES
  now,                                            \* get_us()
  init, out, slot,                                \* the frame buffer
  init_stream_ts, init_receiver_ts,
  receiver,                                       \* the receiver thread
  wait, screen,                                   \* the renderer thread
  main, stop_receiver                             \* the main thread

bufferVars == <<init, out, slot, init_stream_ts, init_receiver_ts>>
rendererVars == <<wait, screen>>
watcherVars == <<now, bufferVars, receiver, rendererVars, main, stop_receiver>>

Slots == 0 .. Size - 1
NoFrame == -1
Cleared(f) == [fid |-> f, timestamp |-> 0, picture |-> NoFrame]

WatcherInit ==
  /\ now = 0
  /\ init = 1 /\ out = 0
  /\ slot = [p \in Slots |-> Cleared(0)]
  /\ init_stream_ts = 0 /\ init_receiver_ts = 0
  /\ receiver = "recvfrom"
  /\ wait = 0 /\ screen = NoFrame
  /\ main = "show" /\ stop_receiver = FALSE

\* Upon the first packet: its frame in the slot at `out', the next ones behind.
Numbered(p) ==
  IF init = 1 THEN [q \in Slots |-> Cleared(p.fid + ((q - out) % Size))] ELSE slot

\* A window without a lower end: late packets are taken too.
InWindowAndLate(diff) == diff <= Size

\* fid_diff > fb->size || fid_diff < 0 is refused.
InWindow(diff) == 0 <= diff /\ diff <= Size

\* fb_enqueue_packet().
Enqueue(p) ==
  LET slots == Numbered(p)
      fid_diff == p.fid - slots[out].fid
      pos == (out + fid_diff) % Size
  IN /\ slot' = IF InWindow(fid_diff)
                THEN [slots EXCEPT ![pos] = [@ EXCEPT !.timestamp = p.timestamp,
                                                      !.picture = p.fid]]
                ELSE slots
     /\ init' = 0
     /\ init_stream_ts' = IF init = 1 THEN p.timestamp ELSE init_stream_ts
     /\ init_receiver_ts' = IF init = 1 THEN now ELSE init_receiver_ts

\* An iteration of receiver_thread() with a packet; the packet feedback it
\* sends is the business of the network.
Receive(p) ==
  /\ main # "dead" /\ receiver = "recvfrom"
  /\ Enqueue(p)
  /\ receiver' = IF stop_receiver THEN "done" ELSE "recvfrom"
  /\ UNCHANGED <<now, out, rendererVars, main, stop_receiver>>

\* fb_is_next_frame_ready_on_time().
Ready ==
  /\ init = 0
  /\ slot[out].timestamp # 0
  /\ now - init_receiver_ts > slot[out].timestamp - init_stream_ts + Delay
  /\ slot[out].picture # NoFrame

\* The position advanced without the modulus.
DequeueUnwrapped ==
  IF init = 1 THEN UNCHANGED <<out, slot, screen>>
  ELSE /\ screen' = IF slot[out].picture # NoFrame THEN slot[out].picture ELSE screen
       /\ slot' = [slot EXCEPT ![out] = Cleared(slot[out].fid + Size)]
       /\ out' = out + 1

\* fb_dequeue_frame(), and what there is of the frame goes to the screen.
Dequeue ==
  IF init = 1 THEN UNCHANGED <<out, slot, screen>>
  ELSE /\ screen' = IF slot[out].picture # NoFrame THEN slot[out].picture ELSE screen
       /\ slot' = [slot EXCEPT ![out] = Cleared(slot[out].fid + Size)]
       /\ out' = (out + 1) % Size

\* fb_enqueue_packet() and fb_dequeue_frame() at once, and not as if one came
\* after the other.  The packet may be compared with the number of the head when
\* that is raised already and out is not advanced yet: it is refused, or taken
\* although it is up to two rings ahead.  Or its place is the very slot that is
\* dequeued: what of its timestamp and its payload is stored after they were
\* cleared stays behind, under the number of the frame Size later, and the
\* picture copied out may be any the slot has had, as total_length comes before
\* the payload.  One dequeue at most falls into an enqueue.
EnqueueAcrossDequeue(p) ==
  LET slots == Numbered(p)
      head == slots[out].fid
      left == [slots EXCEPT ![out] = Cleared(head + Size)]
      fid_diff == p.fid - head
      pos == (out + fid_diff) % Size
      shared == fid_diff \in {0, Size, 2 * Size}
      had == {f \in 0 .. p.fid : (p.fid - f) % Size = 0}
  IN /\ main # "dead" /\ receiver = "recvfrom"
     /\ \/ Ready \/ wait > WaitLimit
        \/ /\ shared /\ init = 0
           /\ now - init_receiver_ts > p.timestamp - init_stream_ts + Delay
     /\ \/ /\ \/ slot' = left
              \/ /\ fid_diff \in Size + 1 .. 2 * Size - 1
                 /\ slot' = [left EXCEPT ![pos] = [@ EXCEPT !.timestamp = p.timestamp,
                                                           !.picture = p.fid]]
           /\ screen' = IF slots[out].picture # NoFrame THEN slots[out].picture ELSE screen
        \/ /\ shared
           /\ \E t \in {0, p.timestamp}, f \in {NoFrame, p.fid} :
                slot' = [left EXCEPT ![out] =
                  [fid |-> head + Size, timestamp |-> t, picture |-> f]]
           /\ screen' \in {screen} \cup had
     /\ out' = (out + 1) % Size /\ wait' = 0
     /\ init' = 0
     /\ init_stream_ts' = IF init = 1 THEN p.timestamp ELSE init_stream_ts
     /\ init_receiver_ts' = IF init = 1 THEN now ELSE init_receiver_ts
     /\ receiver' = IF stop_receiver THEN "done" ELSE "recvfrom"
     /\ UNCHANGED <<now, main, stop_receiver>>

\* The polls waited are not counted from 0 for the next frame.
PollKeepingWait ==
  /\ main # "dead"
  /\ IF Ready \/ wait > WaitLimit
     THEN Dequeue /\ UNCHANGED wait
     ELSE wait' = wait + 1 /\ UNCHANGED <<out, slot, screen>>
  /\ UNCHANGED <<now, init, init_stream_ts, init_receiver_ts, receiver, main,
                 stop_receiver>>

\* A frame is waited for, however long it takes.
PollUntilReady ==
  /\ main # "dead"
  /\ IF Ready
     THEN Dequeue /\ wait' = 0
     ELSE /\ wait' = IF wait > WaitLimit THEN wait ELSE wait + 1
          /\ UNCHANGED <<out, slot, screen>>
  /\ UNCHANGED <<now, init, init_stream_ts, init_receiver_ts, receiver, main,
                 stop_receiver>>

\* An iteration of renderer_thread().
Poll ==
  /\ main # "dead"
  /\ IF Ready \/ wait > WaitLimit
     THEN Dequeue /\ wait' = 0
     ELSE wait' = wait + 1 /\ UNCHANGED <<out, slot, screen>>
  /\ UNCHANGED <<now, init, init_stream_ts, init_receiver_ts, receiver, main,
                 stop_receiver>>

\* The user pressed escape.
Escape ==
  /\ main = "show"
  /\ main' = "kill" /\ stop_receiver' = TRUE
  /\ UNCHANGED <<now, bufferVars, receiver, rendererVars>>

\* The joins alone: the receiver looks at its flag only after a packet.
JoinReceiver ==
  /\ main = "kill" /\ receiver = "done"
  /\ main' = "dead"
  /\ UNCHANGED <<now, bufferVars, receiver, rendererVars, stop_receiver>>

\* pthread_kill(SIGUSR1) where no handler is installed: the default action
\* ends the whole process, the joins and the release of the buffers after it.
Kill ==
  /\ main = "kill"
  /\ main' = "dead"
  /\ UNCHANGED <<now, bufferVars, receiver, rendererVars, stop_receiver>>

\* The next frame to play, once the first packet has come.
HeadFid == slot[out].fid
=============================================================================
