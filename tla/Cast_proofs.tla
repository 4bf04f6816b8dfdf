----------------------------- MODULE Cast_proofs -----------------------------
(***************************************************************************)
(* Cast for every size of the ring, delay, loss and period: its types, what*)
(* the screen shows while the streamer is not restarted, when feedback     *)
(* finds no table, and how playout and stream come together again.         *)
(***************************************************************************)
EXTENDS Cast, FiniteSetTheorems, TLAPS

-----------------------------------------------------------------------------
(* Positions of the ring.                                                  *)

\* How far a slot is from the head.
LEMMA Distance ==
  ASSUME NEW q \in Slots, NEW o \in Slots
  PROVE  (q - o) % Size = IF q >= o THEN q - o ELSE q - o + Size
<1>1. CASE q >= o
  BY <1>1, WatcherAssumption DEF Slots
<1>2. CASE ~(q >= o)
  BY <1>2, WatcherAssumption DEF Slots
<1>3. QED
  BY <1>1, <1>2

\* The slot at a distance less than the ring.
LEMMA Position ==
  ASSUME NEW o \in Slots, NEW d \in Slots
  PROVE  /\ (o + d) % Size = IF o + d < Size THEN o + d ELSE o + d - Size
         /\ (o + d) % Size \in Slots
<1>1. CASE o + d < Size
  BY <1>1, WatcherAssumption DEF Slots
<1>2. CASE ~(o + d < Size)
  BY <1>2, WatcherAssumption DEF Slots
<1>3. QED
  BY <1>1, <1>2

LEMMA PositionDistance ==
  ASSUME NEW o \in Slots, NEW d \in Slots
  PROVE  (((o + d) % Size) - o) % Size = d
<1> DEFINE q == (o + d) % Size
<1>1. q \in Slots /\ q = IF o + d < Size THEN o + d ELSE o + d - Size
  BY Position
<1> HIDE DEF q
<1>2. (q - o) % Size = IF q >= o THEN q - o ELSE q - o + Size
  BY <1>1, Distance
<1>3. (q - o) % Size = d
  BY <1>1, <1>2, WatcherAssumption DEF Slots
<1>4. QED
  BY <1>3 DEF q

LEMMA NoDistance ==
  ASSUME NEW o \in Slots
  PROVE  (o - o) % Size = 0
BY Distance, WatcherAssumption DEF Slots

LEMMA InRing ==
  ASSUME NEW a \in Int
  PROVE  a % Size \in Slots
BY WatcherAssumption DEF Slots

\* When the head advances, the slot it leaves becomes the last one of the ring
\* and every other one is one nearer.
LEMMA HeadAdvances ==
  ASSUME NEW o \in Slots, NEW n, n = (o + 1) % Size
  PROVE  /\ n \in Slots
         /\ \A q \in Slots :
              (q - n) % Size = IF q = o THEN Size - 1 ELSE ((q - o) % Size) - 1
<1>1. n = IF o + 1 = Size THEN 0 ELSE o + 1
  <2>1. CASE o + 1 = Size
    BY <2>1, WatcherAssumption DEF Slots
  <2>2. CASE o + 1 # Size
    BY <2>2, WatcherAssumption DEF Slots
  <2>3. QED
    BY <2>1, <2>2
<1>2. n \in Slots
  BY <1>1, WatcherAssumption DEF Slots
<1>3. QED
  BY <1>1, <1>2, Distance, WatcherAssumption DEF Slots

-----------------------------------------------------------------------------
(* The types.                                                              *)

Slot == [fid : Nat, timestamp : Nat, picture : Nat \cup {NoFrame}]

\* The packets under way, and the start of the streamer, are of the past.
Timely == start <= now /\ \A p \in net : p.sent <= now

Typed == TypeOK /\ Timely

LEMMA PacketType ==
  ASSUME TypeOK, NEW p \in net
  PROVE  p.fid \in Nat /\ p.sent \in Nat /\ p.timestamp \in Nat
BY DEF TypeOK

LEMMA InitTyped == Init => Typed
<1> SUFFICES ASSUME Init PROVE Typed
  OBVIOUS
<1>1. Cleared(0) \in Slot
  BY DEF Cleared, Slot
<1>2. slot \in [Slots -> Slot] /\ out \in Slots
  BY <1>1, WatcherAssumption DEF Init, WatcherInit, Slots
<1>3. now \in 0 .. Horizon /\ wait \in 0 .. WaitLimit + 1 /\ run \in 1 .. MaxRuns
  BY WatcherAssumption, CastAssumption DEF Init, WatcherInit
<1>4. lost \in 0 .. MaxLost /\ disturbed \in 0 .. Horizon /\ races \in 0 .. MaxRaces
  BY CastAssumption DEF Init
<1>5. Timely /\ net \subseteq [fid : Nat, sent : Nat, timestamp : Nat]
  BY DEF Init, WatcherInit, Timely
<1>6. QED
  BY <1>2, <1>3, <1>4, <1>5 DEF Init, WatcherInit, Typed, TypeOK, Slot

LEMMA NumberedType ==
  ASSUME TypeOK, NEW p \in net
  PROVE  Numbered(p) \in [Slots -> Slot]
<1>1. ASSUME NEW q \in Slots PROVE Cleared(p.fid + ((q - out) % Size)) \in Slot
  <2>1. q - out \in Int
    BY WatcherAssumption DEF TypeOK, Slots
  <2>2. (q - out) % Size \in Slots
    BY <2>1, InRing
  <2>3. p.fid + ((q - out) % Size) \in Nat
    BY <2>2, PacketType, WatcherAssumption DEF Slots
  <2>4. QED
    BY <2>3 DEF Cleared, Slot
<1>2. QED
  BY <1>1 DEF Numbered, TypeOK, Slot

LEMMA EnqueueTyped ==
  ASSUME TypeOK, NEW p \in net, Enqueue(p)
  PROVE  /\ slot' \in [Slots -> Slot] /\ init' = 0
         /\ init_stream_ts' \in Nat /\ init_receiver_ts' \in Nat
<1> DEFINE slots == Numbered(p)
           diff == p.fid - slots[out].fid
           pos == (out + diff) % Size
<1>1. slots \in [Slots -> Slot] /\ p.fid \in Nat /\ p.timestamp \in Nat /\ out \in Slots
  BY NumberedType, PacketType DEF TypeOK
<1>2. out + diff \in Int
  BY <1>1, WatcherAssumption DEF Slot, Slots
<1>3. pos \in Slots
  BY <1>2, InRing
<1>4. slot' = IF InWindow(diff)
              THEN [slots EXCEPT ![pos] = [@ EXCEPT !.timestamp = p.timestamp,
                                                    !.picture = p.fid]]
              ELSE slots
  BY DEF Enqueue
<1>5. [slots[pos] EXCEPT !.timestamp = p.timestamp, !.picture = p.fid] \in Slot
  BY <1>1, <1>3 DEF Slot
<1> HIDE DEF slots, diff, pos
<1>6. slot' \in [Slots -> Slot]
  BY <1>1, <1>3, <1>4, <1>5
<1>7. QED
  BY <1>1, <1>6 DEF Enqueue, TypeOK

LEMMA DequeueTyped ==
  ASSUME TypeOK, Dequeue
  PROVE  slot' \in [Slots -> Slot] /\ out' \in Slots /\ screen' \in Nat \cup {NoFrame}
<1>1. slot \in [Slots -> Slot] /\ out \in Slots
  BY DEF TypeOK, Slot
<1>2. slot[out].fid + Size \in Nat /\ slot[out].picture \in Nat \cup {NoFrame}
  BY <1>1, WatcherAssumption DEF Slot
<1>3. Cleared(slot[out].fid + Size) \in Slot
  BY <1>2 DEF Cleared, Slot
<1>4. (out + 1) % Size \in Slots
  BY <1>1, HeadAdvances
<1>5. QED
  BY <1>1, <1>2, <1>3, <1>4 DEF Dequeue, TypeOK

LEMMA OverlapTyped ==
  ASSUME TypeOK, NEW p \in net, EnqueueAcrossDequeue(p)
  PROVE  /\ slot' \in [Slots -> Slot] /\ out' \in Slots /\ init' = 0 /\ wait' = 0
         /\ init_stream_ts' \in Nat /\ init_receiver_ts' \in Nat
         /\ screen' \in Nat \cup {NoFrame} /\ receiver' \in {"recvfrom", "done"}
         /\ UNCHANGED <<now, main, stop_receiver>>
<1> DEFINE slots == Numbered(p)
           head == slots[out].fid
           left == [slots EXCEPT ![out] = Cleared(head + Size)]
           fid_diff == p.fid - head
           pos == (out + fid_diff) % Size
           had == {f \in 0 .. p.fid : (p.fid - f) % Size = 0}
<1>1. slots \in [Slots -> Slot] /\ p.fid \in Nat /\ p.timestamp \in Nat /\ out \in Slots
  BY NumberedType, PacketType DEF TypeOK
<1>2. head \in Nat /\ slots[out].picture \in Nat \cup {NoFrame} /\ head + Size \in Nat
  BY <1>1, WatcherAssumption DEF Slot
<1>3. out + fid_diff \in Int
  BY <1>1, <1>2, WatcherAssumption DEF Slots
<1>4. pos \in Slots /\ (out + 1) % Size \in Slots
  BY <1>1, <1>3, InRing, HeadAdvances
<1>5. Cleared(head + Size) \in Slot
  BY <1>2 DEF Cleared, Slot
<1>6. left \in [Slots -> Slot]
  BY <1>1, <1>5
<1>7. ASSUME NEW s \in Slot
      PROVE  [s EXCEPT !.timestamp = p.timestamp, !.picture = p.fid] \in Slot
  BY <1>1 DEF Slot
<1>8. ASSUME NEW t \in {0, p.timestamp}, NEW f \in {NoFrame, p.fid}
      PROVE  [fid |-> head + Size, timestamp |-> t, picture |-> f] \in Slot
  BY <1>1, <1>2 DEF Slot
<1>9. had \subseteq Nat
  BY <1>1
<1>10. /\ \/ slot' = left
          \/ slot' = [left EXCEPT ![pos] = [@ EXCEPT !.timestamp = p.timestamp,
                                                    !.picture = p.fid]]
          \/ \E t \in {0, p.timestamp}, f \in {NoFrame, p.fid} :
               slot' = [left EXCEPT ![out] = [fid |-> head + Size, timestamp |-> t, picture |-> f]]
       /\ screen' \in {screen, slots[out].picture} \cup had
       /\ out' = (out + 1) % Size
  BY DEF EnqueueAcrossDequeue
<1> HIDE DEF slots, head, left, fid_diff, pos, had
<1>11. slot' \in [Slots -> Slot]
  BY <1>1, <1>4, <1>6, <1>7, <1>8, <1>10
<1>12. screen' \in Nat \cup {NoFrame}
  BY <1>2, <1>9, <1>10 DEF TypeOK
<1>13. QED
  BY <1>1, <1>4, <1>10, <1>11, <1>12 DEF EnqueueAcrossDequeue, TypeOK

LEMMA TypedStep == Typed /\ [Next]_vars => Typed'
<1> SUFFICES ASSUME Typed, [Next]_vars PROVE Typed'
  OBVIOUS
<1> USE DEF Typed, TypeOK, Timely, Slot, watcherVars, bufferVars, rendererVars, castVars,
            streamerVars
<1>1. CASE Send
  <2>1. now - start + 1 \in Nat
    OBVIOUS
  <2>2. [fid |-> sfid, sent |-> now, timestamp |-> now - start + 1]
          \in [fid : Nat, sent : Nat, timestamp : Nat]
    BY <2>1
  <2>3. net' \subseteq [fid : Nat, sent : Nat, timestamp : Nat] /\ \A p \in net' : p.sent <= now
    BY <1>1, <2>2 DEF Send
  <2>4. QED
    BY <1>1, <2>3, CastAssumption DEF Send
<1>2. CASE Deliver
  <2>1. PICK p \in net :
          /\ Receive(p) /\ PacketFeedback(p)
          /\ net' \in {net, net \ {p}}
          /\ lapped' = (lapped \/ Ahead(p.fid))
    BY <1>2 DEF Deliver
  <2>2. /\ slot' \in [Slots -> Slot] /\ init' = 0
        /\ init_stream_ts' \in Nat /\ init_receiver_ts' \in Nat
    BY <2>1, EnqueueTyped DEF Receive
  <2>3. streamer' \in {"running", "crashed"} /\ receiver' \in {"recvfrom", "done"}
    BY <2>1 DEF PacketFeedback, Receive
  <2>4. lapped' \in BOOLEAN
    BY <2>1 DEF Ahead
  <2>5. net' \subseteq net
    BY <2>1
  <2>6. QED
    BY <1>2, <2>1, <2>2, <2>3, <2>4, <2>5 DEF Deliver, Receive
<1>3. CASE Restart
  BY <1>3, CastAssumption DEF Restart
<1>4. CASE WatcherPolls
  <2>1. /\ Poll /\ polled' = TRUE
        /\ UNCHANGED <<streamerVars, net, lost, disturbed, races, lapped>>
    BY <1>4 DEF WatcherPolls
  <2>2. CASE Ready \/ wait > WaitLimit
    <3>1. Dequeue /\ wait' = 0
      BY <2>1, <2>2 DEF Poll
    <3>2. slot' \in [Slots -> Slot] /\ out' \in Slots /\ screen' \in Nat \cup {NoFrame}
      BY <3>1, DequeueTyped
    <3>3. QED
      BY <2>1, <3>1, <3>2, WatcherAssumption DEF Poll
  <2>3. CASE ~(Ready \/ wait > WaitLimit)
    BY <2>1, <2>3, WatcherAssumption DEF Poll
  <2>4. QED
    BY <2>2, <2>3
<1>5. CASE WatcherEnds
  BY <1>5 DEF WatcherEnds, Escape, Kill
<1>6. CASE Tick
  <2>1. \A p \in net : p.sent <= now + 1
    BY PacketType
  <2>2. now' \in 0 .. Horizon /\ start <= now'
    BY <1>6, CastAssumption DEF Tick
  <2>3. Timely'
    BY <1>6, <2>1, <2>2 DEF Tick
  <2>4. QED
    BY <1>6, <2>2, <2>3 DEF Tick
<1>7. CASE UNCHANGED vars
  BY <1>7 DEF vars
<1>8. CASE Overlap
  <2>1. PICK p \in net :
          /\ EnqueueAcrossDequeue(p) /\ PacketFeedback(p)
          /\ net' \in {net, net \ {p}}
          /\ lapped' = (lapped \/ Ahead(p.fid))
    BY <1>8 DEF Overlap
  <2>2. /\ slot' \in [Slots -> Slot] /\ out' \in Slots /\ init' = 0 /\ wait' = 0
        /\ init_stream_ts' \in Nat /\ init_receiver_ts' \in Nat
        /\ screen' \in Nat \cup {NoFrame} /\ receiver' \in {"recvfrom", "done"}
        /\ UNCHANGED <<now, main, stop_receiver>>
    BY <2>1, OverlapTyped
  <2>3. streamer' \in {"running", "crashed"} /\ lapped' \in BOOLEAN /\ net' \subseteq net
    BY <2>1 DEF PacketFeedback, Ahead
  <2>4. /\ polled' = TRUE /\ races' \in 0 .. MaxRaces
        /\ UNCHANGED <<run, start, sfid, lost, disturbed>>
    BY <1>8, CastAssumption DEF Overlap
  <2>5. QED
    BY <2>2, <2>3, <2>4, WatcherAssumption
<1>9. QED
  BY <1>1, <1>2, <1>3, <1>4, <1>5, <1>6, <1>7, <1>8 DEF Next

LEMMA TypedHolds == Spec => []Typed
<1>1. Init => Typed
  BY InitTyped
<1>2. Typed /\ [Next]_vars => Typed'
  BY TypedStep
<1>3. QED
  BY <1>1, <1>2, PTL DEF Spec

\* The variables keep their ranges.
THEOREM TypeCorrect == Spec => []TypeOK
<1>1. Typed => TypeOK
  BY DEF Typed
<1>2. QED
  BY <1>1, TypedHolds, PTL

-----------------------------------------------------------------------------
(* Feedback without a table.                                               *)

\* No packet is under way for longer than MaxDelay.
InTime == \A p \in net : now - p.sent <= MaxDelay

\* A packet under way is of a frame this run of the streamer has come to, or
\* was sent before this run started.
KnownOrOld == \A p \in net : p.fid < sfid \/ (run > 1 /\ p.sent <= start)

LEMMA NetStep ==
  ASSUME Typed, InTime, KnownOrOld, [Next]_vars
  PROVE  InTime' /\ KnownOrOld'
<1> USE DEF InTime, KnownOrOld
<1>0. /\ \A p \in net : p.fid \in Nat /\ p.sent \in Nat /\ p.sent <= now
      /\ now \in Nat /\ sfid \in Nat /\ run \in Nat /\ run >= 1 /\ start \in Nat
  BY PacketType, CastAssumption DEF Typed, Timely, TypeOK
<1>1. CASE Send
  <2>1. /\ \A p \in net' : p \in net \/ (p.fid = sfid /\ p.sent = now)
        /\ sfid' = sfid + 1 /\ UNCHANGED <<now, run, start>>
    BY <1>1 DEF Send, watcherVars
  <2>2. QED
    BY <1>0, <2>1, CastAssumption
<1>2. CASE Deliver \/ Overlap
  <2>1. net' \subseteq net /\ UNCHANGED <<now, run, start, sfid>>
    BY <1>2 DEF Deliver, Receive, Overlap, EnqueueAcrossDequeue
  <2>2. QED
    BY <2>1
<1>3. CASE Restart
  <2>1. /\ net' = net /\ now' = now /\ run' = run + 1 /\ start' = now /\ sfid' = 0
    BY <1>3 DEF Restart, watcherVars
  <2>2. QED
    BY <1>0, <2>1
<1>4. CASE WatcherPolls \/ WatcherEnds \/ UNCHANGED vars
  <2>1. UNCHANGED <<net, now, run, start, sfid>>
    BY <1>4 DEF WatcherPolls, Poll, WatcherEnds, Escape, Kill, vars, watcherVars, castVars,
                streamerVars
  <2>2. QED
    BY <2>1
<1>5. CASE Tick
  <2>1. /\ UNCHANGED <<net, run, start, sfid>> /\ now' = now + 1
        /\ \A p \in net : ~(now - p.sent >= MaxDelay)
    BY <1>5 DEF Tick, Overdue, streamerVars
  <2>2. QED
    BY <1>0, <2>1, CastAssumption
<1>6. QED
  BY <1>1, <1>2, <1>3, <1>4, <1>5 DEF Next

LEMMA NetHolds == Spec => [](Typed /\ InTime /\ KnownOrOld)
<1>1. Init => Typed /\ InTime /\ KnownOrOld
  BY InitTyped DEF Init, InTime, KnownOrOld
<1>2. Typed /\ InTime /\ KnownOrOld /\ [Next]_vars => (Typed /\ InTime /\ KnownOrOld)'
  BY TypedStep, NetStep
<1>3. QED
  BY <1>1, <1>2, PTL DEF Spec

\* A feedback finds no packet table only after a restart, and then at most
\* MaxDelay after it: in the first run every packet under way is of a frame
\* whose table the streamer made before it sent the packet.
THEOREM CrashesOnlyAfterRestartHolds == Spec => CrashesOnlyAfterRestart
<1>1. Typed /\ InTime /\ KnownOrOld /\ [Next]_vars =>
        [streamer' = "crashed" /\ streamer = "running" =>
           run > 1 /\ now - start <= MaxDelay]_vars
  <2> SUFFICES ASSUME Typed, InTime, KnownOrOld, [Next]_vars,
                      streamer' = "crashed", streamer = "running"
               PROVE  run > 1 /\ now - start <= MaxDelay
    OBVIOUS
  <2>1. Deliver \/ Overlap
    BY DEF Next, Send, Restart, WatcherPolls, WatcherEnds, Tick, vars, castVars, streamerVars
  <2>2. PICK p \in net : ~(p.fid < sfid)
    BY <2>1 DEF Deliver, Overlap, PacketFeedback
  <2>3. run > 1 /\ p.sent <= start /\ now - p.sent <= MaxDelay
    BY <2>2 DEF KnownOrOld, InTime
  <2>4. now \in Nat /\ start \in Nat /\ p.sent \in Nat
    BY PacketType, CastAssumption DEF Typed, TypeOK
  <2>5. QED
    BY <2>3, <2>4, CastAssumption
<1>2. QED
  BY <1>1, NetHolds, PTL DEF Spec, CrashesOnlyAfterRestart

-----------------------------------------------------------------------------
(* What the screen shows.                                                  *)

\* The slots stand for consecutive frames from the head on, each with its own
\* picture or none, and the screen is behind the head.
Playing ==
  IF init = 1
  THEN screen = NoFrame /\ \A q \in Slots : slot[q].picture = NoFrame
  ELSE /\ screen < HeadFid
       /\ \A q \in Slots : /\ slot[q].fid = HeadFid + ((q - out) % Size)
                           /\ slot[q].picture \in {NoFrame, slot[q].fid}

\* It is so in the first run, until the stream is Size frames ahead or a dequeue
\* falls into an enqueue.
PlayingUndisturbed == run = 1 /\ ~lapped /\ races = 0 => Playing

LEMMA NumberedPlaying ==
  ASSUME TypeOK, Playing, NEW p \in net
  PROVE  LET slots == Numbered(p) IN
           /\ screen < slots[out].fid
           /\ init = 1 => slots[out].fid = p.fid
           /\ init # 1 => slots[out].fid = HeadFid
           /\ \A q \in Slots : /\ slots[q].fid = slots[out].fid + ((q - out) % Size)
                               /\ slots[q].picture \in {NoFrame, slots[q].fid}
<1>1. out \in Slots /\ p.fid \in Nat
  BY PacketType DEF TypeOK
<1>2. (out - out) % Size = 0
  BY <1>1, NoDistance
<1>3. CASE init = 1
  <2>1. Numbered(p) = [q \in Slots |-> Cleared(p.fid + ((q - out) % Size))]
    BY <1>3 DEF Numbered
  <2>2. \A q \in Slots : /\ Numbered(p)[q].fid = p.fid + ((q - out) % Size)
                         /\ Numbered(p)[q].picture = NoFrame
    BY <2>1 DEF Cleared
  <2>3. Numbered(p)[out].fid = p.fid
    BY <1>1, <1>2, <2>2
  <2>4. screen < p.fid
    BY <1>1, <1>3 DEF Playing, NoFrame
  <2>5. QED
    BY <1>3, <2>2, <2>3, <2>4
<1>4. CASE init # 1
  BY <1>4 DEF Numbered, Playing, HeadFid
<1>5. QED
  BY <1>3, <1>4

LEMMA EnqueuePlaying ==
  ASSUME TypeOK, Playing, NEW p \in net, Enqueue(p), ~Ahead(p.fid),
         out' = out, screen' = screen
  PROVE  Playing'
<1> DEFINE slots == Numbered(p)
           diff == p.fid - slots[out].fid
           pos == (out + diff) % Size
<1>1. slots \in [Slots -> Slot] /\ p.fid \in Nat /\ out \in Slots
  BY NumberedType, PacketType DEF TypeOK
<1>2. /\ screen < slots[out].fid
      /\ init = 1 => slots[out].fid = p.fid
      /\ init # 1 => slots[out].fid = HeadFid
      /\ \A q \in Slots : /\ slots[q].fid = slots[out].fid + ((q - out) % Size)
                          /\ slots[q].picture \in {NoFrame, slots[q].fid}
  BY NumberedPlaying
<1>3. /\ slot' = IF InWindow(diff)
                 THEN [slots EXCEPT ![pos] = [@ EXCEPT !.timestamp = p.timestamp,
                                                       !.picture = p.fid]]
                 ELSE slots
      /\ init' = 0
  BY DEF Enqueue
<1>4. InWindow(diff) => diff \in Slots
  <2>1. CASE init = 1
    BY <1>1, <1>2, <2>1, WatcherAssumption DEF Slots
  <2>2. CASE init # 1
    <3>1. init = 0 /\ HeadFid \in Nat /\ slots[out].fid = HeadFid
      BY <1>1, <1>2, <2>2 DEF TypeOK, Slot, HeadFid
    <3>2. p.fid - HeadFid < Size
      BY <1>1, <3>1, WatcherAssumption DEF Ahead
    <3>3. QED
      BY <1>1, <3>1, <3>2, WatcherAssumption DEF InWindow, Slots
  <2>3. QED
    BY <2>1, <2>2
<1>5. InWindow(diff) => pos \in Slots /\ slots[pos].fid = p.fid
  <2>1. ASSUME InWindow(diff) PROVE pos \in Slots /\ (pos - out) % Size = diff
    BY <1>1, <1>4, <2>1, Position, PositionDistance
  <2>2. ASSUME InWindow(diff) PROVE slots[pos].fid = slots[out].fid + diff
    BY <1>2, <2>1, <2>2
  <2>3. slots[out].fid \in Nat
    BY <1>1 DEF Slot
  <2>4. QED
    BY <1>1, <2>1, <2>2, <2>3
<1> HIDE DEF slots, diff, pos
<1>6. ASSUME NEW q \in Slots
      PROVE  slot'[q].fid = slots[q].fid /\ slot'[q].picture \in {NoFrame, slots[q].fid}
  <2>1. CASE InWindow(diff) /\ q = pos
    BY <1>1, <1>3, <1>5, <2>1 DEF Slot
  <2>2. CASE ~(InWindow(diff) /\ q = pos)
    BY <1>1, <1>2, <1>3, <1>5, <2>2
  <2>3. QED
    BY <2>1, <2>2
<1>7. QED
  BY <1>1, <1>2, <1>3, <1>6 DEF Playing, HeadFid

LEMMA DequeuePlaying ==
  ASSUME TypeOK, Playing, Dequeue, init' = init
  PROVE  Playing' /\ screen' >= screen
<1>1. CASE init = 1
  BY <1>1 DEF Dequeue, Playing, TypeOK, NoFrame
<1>2. CASE init # 1
  <2>1. /\ slot \in [Slots -> Slot] /\ out \in Slots /\ HeadFid \in Nat
        /\ screen \in Int
    BY DEF TypeOK, Slot, HeadFid, NoFrame
  <2>2. /\ screen < HeadFid
        /\ \A q \in Slots : /\ slot[q].fid = HeadFid + ((q - out) % Size)
                            /\ slot[q].picture \in {NoFrame, slot[q].fid}
    BY <1>2 DEF Playing
  <2>3. /\ screen' = IF slot[out].picture # NoFrame THEN slot[out].picture ELSE screen
        /\ slot' = [slot EXCEPT ![out] = Cleared(HeadFid + Size)]
        /\ out' = (out + 1) % Size
    BY <1>2 DEF Dequeue, HeadFid
  <2>4. screen' \in {screen, HeadFid}
    BY <2>1, <2>2, <2>3 DEF HeadFid
  <2>5. out' \in Slots /\ \A q \in Slots :
          (q - out') % Size = IF q = out THEN Size - 1 ELSE ((q - out) % Size) - 1
    BY <2>1, <2>3, HeadAdvances
  <2>6. ASSUME NEW q \in Slots
        PROVE  /\ slot'[q].fid = HeadFid + 1 + ((q - out') % Size)
               /\ slot'[q].picture \in {NoFrame, slot'[q].fid}
    <3>1. CASE q = out
      <4>1. slot'[q] = Cleared(HeadFid + Size)
        BY <2>1, <2>3, <3>1
      <4>2. (q - out') % Size = Size - 1
        BY <2>5, <3>1
      <4>3. QED
        BY <2>1, <4>1, <4>2, WatcherAssumption DEF Cleared
    <3>2. CASE q # out
      <4>1. slot'[q] = slot[q]
        BY <2>1, <2>3, <3>2
      <4>2. (q - out') % Size = ((q - out) % Size) - 1
        BY <2>5, <3>2
      <4>3. (q - out) % Size \in Int
        BY <2>1, Distance, WatcherAssumption DEF Slots
      <4>4. QED
        BY <2>1, <2>2, <4>1, <4>2, <4>3
    <3>3. QED
      BY <3>1, <3>2
  <2>7. (out' - out') % Size = 0
    BY <2>5, NoDistance
  <2>8. HeadFid' = HeadFid + 1
    BY <2>1, <2>5, <2>6, <2>7 DEF HeadFid
  <2>9. Playing'
    BY <1>2, <2>1, <2>2, <2>4, <2>6, <2>8 DEF Playing
  <2>10. QED
    BY <2>1, <2>2, <2>4, <2>9
<1>3. QED
  BY <1>1, <1>2

LEMMA PlayingStep ==
  ASSUME Typed, PlayingUndisturbed, [Next]_vars
  PROVE  PlayingUndisturbed' /\ (run' = 1 /\ ~lapped' /\ races' = 0 => screen' >= screen)
<1> SUFFICES ASSUME run' = 1, ~lapped', races' = 0 PROVE Playing' /\ screen' >= screen
  BY DEF PlayingUndisturbed
<1>0. screen \in Int /\ TypeOK /\ run \in Nat /\ run >= 1 /\ races \in Nat
  BY CastAssumption DEF Typed, TypeOK, NoFrame
<1>1. CASE Deliver
  <2>1. PICK p \in net : Receive(p) /\ lapped' = (lapped \/ Ahead(p.fid))
    BY <1>1 DEF Deliver
  <2>2. run = 1 /\ ~lapped /\ ~Ahead(p.fid) /\ races = 0
    BY <1>1, <2>1 DEF Deliver
  <2>3. Playing'
    BY <1>0, <2>1, <2>2, EnqueuePlaying DEF PlayingUndisturbed, Receive, rendererVars
  <2>4. QED
    BY <1>0, <2>1, <2>3 DEF Receive, rendererVars
<1>2. CASE WatcherPolls
  <2>1. Poll /\ run = 1 /\ ~lapped /\ races = 0
    BY <1>2 DEF WatcherPolls, streamerVars
  <2>2. Playing
    BY <2>1 DEF PlayingUndisturbed
  <2>3. CASE Dequeue
    BY <1>0, <2>1, <2>2, <2>3, DequeuePlaying DEF Poll
  <2>4. CASE UNCHANGED <<out, slot, screen>>
    BY <1>0, <2>1, <2>2, <2>4 DEF Poll, Playing, HeadFid
  <2>5. QED
    BY <2>1, <2>3, <2>4 DEF Poll
<1>3. CASE Restart
  BY <1>0, <1>3 DEF Restart
<1>4. CASE Send \/ WatcherEnds \/ Tick \/ UNCHANGED vars
  <2>1. UNCHANGED <<init, out, slot, screen>>
    BY <1>4 DEF Send, WatcherEnds, Escape, Kill, Tick, vars, watcherVars, bufferVars,
                rendererVars
  <2>2. run = 1 /\ ~lapped /\ races = 0
    <3>1. CASE Send
      BY <3>1 DEF Send
    <3>2. CASE WatcherEnds \/ Tick \/ UNCHANGED vars
      BY <3>2 DEF WatcherEnds, Tick, vars, castVars, streamerVars
    <3>3. QED
      BY <1>4, <3>1, <3>2
  <2>3. QED
    BY <1>0, <2>1, <2>2 DEF PlayingUndisturbed, Playing, HeadFid
<1>5. CASE Overlap
  BY <1>0, <1>5 DEF Overlap
<1>6. QED
  BY <1>1, <1>2, <1>3, <1>4, <1>5 DEF Next

LEMMA PlayingHolds == Spec => [](Typed /\ PlayingUndisturbed)
<1>1. Init => PlayingUndisturbed
  BY DEF Init, WatcherInit, PlayingUndisturbed, Playing, Cleared
<1>2. Typed /\ PlayingUndisturbed /\ [Next]_vars => (Typed /\ PlayingUndisturbed)'
  BY TypedStep, PlayingStep
<1>3. QED
  BY <1>1, <1>2, InitTyped, PTL DEF Spec

\* The pictures on the screen never go back in time, whatever the network does
\* to the packets, for every ring, delay, loss and pace, unless the streamer is
\* restarted or gets a whole ring ahead, or a dequeue has fallen into an enqueue.
THEOREM NeverBackHolds == Spec => NeverBack
<1>1. Typed /\ PlayingUndisturbed /\ [Next]_vars =>
        [run' = 1 /\ ~lapped' /\ races' = 0 => screen' >= screen]_vars
  BY PlayingStep
<1>2. QED
  BY <1>1, PlayingHolds, PTL DEF Spec, NeverBack

-----------------------------------------------------------------------------
(* Recovery: the quantities.                                               *)

P == PollsPerFrame

\* The time of the last poll that dequeued, or gave up, a frame.
Since == (IF polled THEN now ELSE now - 1) - wait

\* The frames from the head on that were sent and are neither under way nor in
\* the ring, and the losses that playout has already made good.
Kept(g) == (\E p \in net : p.fid = g) \/ (\E q \in Slots : slot[q].picture = g)
Missing == {g \in HeadFid .. sfid - 1 : ~Kept(g)}
Spare == lost - Cardinality(Missing)

\* A frame of the run before this one.
OfRunBefore(f) == run = 2 /\ P * f <= start

LEMMA Constants ==
  /\ P \in Nat /\ P >= 1 /\ GiveUp \in Nat /\ Slip \in Nat /\ Slip > 0 /\ GiveUp = P + Slip
  /\ GiveUp = WaitLimit + 2
  /\ MaxDelay \in Nat /\ Delay \in Nat /\ Latency \in Nat /\ Latency = MaxDelay + Delay + 1
  /\ MaxLost * Slip \in Nat /\ Outage \in Nat /\ Outage = P - 1 + Latency + MaxLost * Slip
  /\ P * (Size - 1) > Latency + MaxLost * Slip
<1>1. /\ PollsPerFrame \in Nat \ {0} /\ MaxDelay \in Nat /\ MaxLost \in Nat /\ WaitLimit \in Nat
      /\ Delay \in Nat /\ Slip > 0
  BY CastAssumption, WatcherAssumption, RecoveryAssumption
<1>2. GiveUp \in Nat /\ Slip \in Nat /\ Latency \in Nat
  BY <1>1 DEF GiveUp, Slip, Latency
<1>3. MaxLost * Slip \in Nat
  BY <1>1, <1>2
<1>4. Outage \in Nat
  BY <1>1, <1>2, <1>3 DEF Outage
<1>5. GiveUp = P + Slip /\ P >= 1 /\ P \in Nat
  BY <1>1, <1>2 DEF Slip, P
<1>6. QED
  BY <1>1, <1>2, <1>3, <1>4, <1>5, RecoveryAssumption DEF Outage, P, Latency, GiveUp

LEMMA Times ==
  ASSUME NEW a \in Int, NEW b \in Int
  PROVE  /\ a * b \in Int /\ a * (b + 1) = (a * b) + a /\ a * (b - 1) = (a * b) - a
OBVIOUS

LEMMA Product ==
  ASSUME NEW a \in Nat, NEW b \in Nat
  PROVE  a * b \in Nat
OBVIOUS

LEMMA TimesMonotone ==
  ASSUME NEW a \in Nat, NEW b \in Int, NEW c \in Int, b <= c
  PROVE  a * b <= a * c
<1>1. a * (c - b) >= 0
  OBVIOUS
<1>2. QED
  BY <1>1

LEMMA TimesCancel ==
  ASSUME NEW a \in Nat, a >= 1, NEW b \in Int, NEW c \in Int, a * b < a * c
  PROVE  b < c
<1>1. b >= c => a * b >= a * c
  BY TimesMonotone
<1>2. a * b \in Int /\ a * c \in Int
  OBVIOUS
<1>3. QED
  BY <1>1, <1>2

LEMMA TimesNegative ==
  ASSUME NEW a \in Nat, NEW b \in Nat, a <= b, NEW z \in Int, z <= 0
  PROVE  b * z <= a * z
<1>1. (b - a) * z <= 0
  OBVIOUS
<1>2. (b - a) * z = (b * z) - (a * z)
  OBVIOUS
<1>3. QED
  BY <1>1, <1>2

LEMMA Numbers ==
  ASSUME TypeOK
  PROVE  /\ now \in Nat /\ start \in Nat /\ sfid \in Nat /\ wait \in Nat /\ wait <= GiveUp - 1
         /\ lost \in Nat /\ lost <= MaxLost /\ disturbed \in Nat
         /\ HeadFid \in Nat /\ Since \in Int /\ run \in {1, 2} /\ init \in {0, 1}
         /\ init_stream_ts \in Nat /\ init_receiver_ts \in Nat
         /\ polled => Since + wait = now
         /\ ~polled => Since + wait = now - 1
<1>1. /\ now \in Nat /\ start \in Nat /\ sfid \in Nat /\ wait \in Nat /\ wait <= GiveUp - 1
      /\ lost \in Nat /\ lost <= MaxLost /\ disturbed \in Nat /\ run \in {1, 2}
      /\ init \in {0, 1} /\ init_stream_ts \in Nat /\ init_receiver_ts \in Nat /\ polled \in BOOLEAN
  BY CastAssumption, WatcherAssumption DEF TypeOK, GiveUp
<1>2. HeadFid \in Nat
  BY DEF HeadFid, TypeOK
<1>3. QED
  BY <1>1, <1>2 DEF Since

LEMMA MissingFinite ==
  ASSUME TypeOK
  PROVE  /\ IsFiniteSet(Missing) /\ Cardinality(Missing) \in Nat /\ Spare \in Int
         /\ Spare = lost - Cardinality(Missing)
<1>1. HeadFid \in Nat /\ sfid \in Nat /\ lost \in Nat
  BY Numbers
<1>2. IsFiniteSet(HeadFid .. sfid - 1)
  BY <1>1, FS_Interval
<1>3. IsFiniteSet(Missing)
  BY <1>2, FS_Subset DEF Missing
<1>4. QED
  BY <1>1, <1>3, FS_CardinalityType DEF Spare

-----------------------------------------------------------------------------
(* Recovery: the inductive invariant, while the streamer runs.             *)

\* Only the first run loses packets, and it starts at 0.
Runs ==
  /\ run = 1 => start = 0
  /\ run = 2 => lost = 0 /\ disturbed = start
  /\ start <= disturbed /\ disturbed <= now

\* The stream keeps its schedule.
OnSchedule == start + P * (sfid - 1) <= now /\ now <= start + P * sfid

\* A packet has the time of its frame in its run, and is of this run or of a
\* frame the run before came to.
Stamped ==
  \A p \in net : /\ p.timestamp = P * p.fid + 1
                 /\ p.sent \in {P * p.fid, start + P * p.fid}
                 /\ p.fid < sfid \/ OfRunBefore(p.fid)

\* The ring is empty, or its slots are numbered from the head on and what they
\* hold was sent.
Filled ==
  IF init = 1 THEN slot = [q \in Slots |-> Cleared(0)]
  ELSE \A q \in Slots :
         /\ slot[q].fid = HeadFid + ((q - out) % Size)
         /\ slot[q].picture \in {NoFrame, slot[q].fid}
         /\ slot[q].picture # NoFrame =>
              /\ slot[q].timestamp = P * slot[q].fid + 1
              /\ slot[q].fid < sfid \/ OfRunBefore(slot[q].fid)

\* The watcher's clock is behind the streamer's by what the first packet took.
Anchored ==
  init = 0 => /\ init_receiver_ts + 1 <= init_stream_ts + start + MaxDelay
              /\ run = 1 => init_receiver_ts + 1 >= init_stream_ts

\* Every missing frame is a packet lost.
Accounted ==
  /\ Cardinality(Missing) <= lost
  /\ \A g \in Missing : run = 1 /\ P * g <= disturbed

\* Every frame given up so far puts the playout behind by Slip at most.
Behind == init = 0 => Since <= start + (P * HeadFid) + Latency + (Spare * Slip)

\* It does not wait long for a frame that is not missing.
Waits ==
  init = 0 /\ wait > 0 /\ HeadFid \notin Missing =>
    Since + wait < start + (P * HeadFid) + Latency

\* Once the frames up to the disturbance are played or given up, it plays one a
\* poll until it is with the stream.
CatchesUp ==
  init = 0 => \/ Since <= start + (P * HeadFid) + Latency
              \/ P * (Since - disturbed - Outage) <= (P * HeadFid) - disturbed

\* In the first run the playout is not ahead of the stream.
NotAhead ==
  init = 0 /\ run = 1 =>
    /\ HeadFid <= sfid
    /\ Since >= P * (HeadFid - 1) \/ (Since >= (P * HeadFid) - GiveUp /\ HeadFid < sfid)

\* After a restart it is, by what it had played before, and then gives up one
\* frame in GiveUp polls, where the stream comes nearer by one in P.
LeadBound == GiveUp * ((P * (HeadFid - 1)) - start) <= P * (Since - start)
Overtaken ==
  init = 0 /\ run = 2 =>
    /\ HeadFid > sfid => LeadBound
    /\ HeadFid = sfid => LeadBound \/ Since >= start + (P * (HeadFid - 1))

Steady ==
  /\ Runs /\ OnSchedule /\ Stamped /\ Filled /\ Anchored /\ Accounted
  /\ Behind /\ Waits /\ CatchesUp /\ NotAhead /\ Overtaken

Recovering ==
  /\ Typed /\ InTime /\ KnownOrOld
  /\ run = 1 => streamer = "running"
  /\ streamer = "running" /\ races = 0 => Steady

-----------------------------------------------------------------------------
(* Recovery: what the steps do to the head and to the missing frames.      *)

\* The head is a slot with distance 0.
LEMMA FilledHead ==
  ASSUME TypeOK, Filled, init = 0
  PROVE  \A q \in Slots : slot[q].picture = HeadFid => q = out
<1>1. ASSUME NEW q \in Slots, slot[q].picture = HeadFid PROVE q = out
  <2>1. out \in Slots /\ HeadFid \in Nat
    BY Numbers DEF TypeOK
  <2>2. slot[q].fid = HeadFid /\ slot[q].fid = HeadFid + ((q - out) % Size)
    BY <1>1, <2>1 DEF Filled, NoFrame
  <2>3. (q - out) % Size = IF q >= out THEN q - out ELSE q - out + Size
    BY <2>1, Distance
  <2>4. QED
    BY <2>1, <2>2, <2>3, WatcherAssumption DEF Slots
<1>2. QED
  BY <1>1

LEMMA DequeueMoves ==
  ASSUME TypeOK, Filled, init = 0, init' = 0, Dequeue, UNCHANGED <<net, sfid, run, start>>
  PROVE  /\ HeadFid' = HeadFid + 1
         /\ Filled'
         /\ Missing' = Missing \ {HeadFid}
<1>1. slot \in [Slots -> Slot] /\ out \in Slots /\ HeadFid \in Nat /\ sfid \in Nat
  BY Numbers DEF TypeOK, Slot
<1>2. \A q \in Slots : /\ slot[q].fid = HeadFid + ((q - out) % Size)
                       /\ slot[q].picture \in {NoFrame, slot[q].fid}
                       /\ slot[q].picture # NoFrame =>
                            /\ slot[q].timestamp = P * slot[q].fid + 1
                            /\ slot[q].fid < sfid \/ OfRunBefore(slot[q].fid)
  BY DEF Filled
<1>3. /\ slot' = [slot EXCEPT ![out] = Cleared(HeadFid + Size)]
      /\ out' = (out + 1) % Size
  BY DEF Dequeue, HeadFid
<1>4. out' \in Slots /\ \A q \in Slots :
        (q - out') % Size = IF q = out THEN Size - 1 ELSE ((q - out) % Size) - 1
  BY <1>1, <1>3, HeadAdvances
<1>5. slot'[out] = Cleared(HeadFid + Size) /\ \A q \in Slots : q # out => slot'[q] = slot[q]
  BY <1>1, <1>3
<1>6. ASSUME NEW q \in Slots PROVE slot'[q].fid = HeadFid + 1 + ((q - out') % Size)
  <2>1. CASE q = out
    BY <1>1, <1>4, <1>5, <2>1, WatcherAssumption DEF Cleared
  <2>2. CASE q # out
    <3>1. (q - out) % Size \in Int
      BY <1>1, Distance, WatcherAssumption DEF Slots
    <3>2. QED
      BY <1>1, <1>2, <1>4, <1>5, <2>2, <3>1
  <2>3. QED
    BY <2>1, <2>2
<1>7. HeadFid' = HeadFid + 1
  <2>1. (out' - out') % Size = 0
    BY <1>4, NoDistance
  <2>2. QED
    BY <1>1, <1>4, <1>6, <2>1 DEF HeadFid
<1>8. ASSUME NEW q \in Slots
      PROVE  /\ slot'[q].picture \in {NoFrame, slot'[q].fid}
             /\ slot'[q].picture # NoFrame =>
                  /\ slot'[q].timestamp = P * slot'[q].fid + 1
                  /\ slot'[q].fid < sfid \/ OfRunBefore(slot'[q].fid)
  <2>1. CASE q = out
    BY <1>5, <2>1 DEF Cleared
  <2>2. CASE q # out
    BY <1>2, <1>5, <2>2
  <2>3. QED
    BY <2>1, <2>2
<1>9. Filled'
  <2>1. \A f : OfRunBefore(f) => OfRunBefore(f)'
    BY DEF OfRunBefore
  <2>2. QED
    BY <1>6, <1>7, <1>8, <2>1 DEF Filled, OfRunBefore
<1>10. ASSUME NEW g \in Nat, g > HeadFid PROVE Kept(g)' <=> Kept(g)
  <2>1. \A q \in Slots : slot'[q].picture = g <=> slot[q].picture = g
    <3>1. slot[out].picture # g /\ slot'[out].picture # g
      <4>1. slot[out].picture \in {NoFrame, HeadFid}
        BY <1>1, <1>2 DEF HeadFid
      <4>2. QED
        BY <1>1, <1>5, <1>10, <4>1 DEF Cleared, NoFrame
    <3>2. QED
      BY <1>1, <1>5, <3>1
  <2>2. QED
    BY <2>1 DEF Kept
<1>11. Missing' = Missing \ {HeadFid}
  BY <1>1, <1>7, <1>10 DEF Missing
<1>12. QED
  BY <1>7, <1>9, <1>11

LEMMA NumberedFilled ==
  ASSUME TypeOK, Filled, NEW p \in net
  PROVE  LET slots == Numbered(p)
             head == IF init = 1 THEN p.fid ELSE HeadFid
         IN  /\ slots[out].fid = head
             /\ \A q \in Slots :
                  /\ slots[q].fid = head + ((q - out) % Size)
                  /\ slots[q].picture \in {NoFrame, slots[q].fid}
                  /\ slots[q].picture # NoFrame =>
                       /\ slots[q].timestamp = P * slots[q].fid + 1
                       /\ slots[q].fid < sfid \/ OfRunBefore(slots[q].fid)
             /\ \A q \in Slots : slots[q].picture = slot[q].picture
<1>1. out \in Slots /\ p.fid \in Nat
  BY PacketType DEF TypeOK
<1>2. (out - out) % Size = 0
  BY <1>1, NoDistance
<1>3. CASE init = 1
  <2>1. Numbered(p) = [q \in Slots |-> Cleared(p.fid + ((q - out) % Size))]
    BY <1>3 DEF Numbered
  <2>2. \A q \in Slots : /\ Numbered(p)[q].fid = p.fid + ((q - out) % Size)
                         /\ Numbered(p)[q].picture = NoFrame
    BY <2>1 DEF Cleared
  <2>3. Numbered(p)[out].fid = p.fid
    BY <1>1, <1>2, <2>2
  <2>4. \A q \in Slots : slot[q].picture = NoFrame
    BY <1>3 DEF Filled, Cleared
  <2>5. QED
    BY <1>3, <2>2, <2>3, <2>4
<1>4. CASE init # 1
  BY <1>4, <1>1 DEF Numbered, Filled, HeadFid
<1>5. QED
  BY <1>3, <1>4

LEMMA DeliverMoves ==
  ASSUME TypeOK, Filled, Stamped, NEW p \in net, Enqueue(p), p.fid < sfid,
         init = 0 => sfid <= HeadFid + Size,
         net' \in {net, net \ {p}}, UNCHANGED <<out, sfid, run, start>>
  PROVE  /\ HeadFid' = IF init = 1 THEN p.fid ELSE HeadFid
         /\ Filled'
         /\ Missing' \subseteq Missing
         /\ init = 0 => Missing' = Missing
<1> DEFINE slots == Numbered(p)
           head == IF init = 1 THEN p.fid ELSE HeadFid
           diff == p.fid - slots[out].fid
           pos == (out + diff) % Size
<1>1. /\ slots \in [Slots -> Slot] /\ p.fid \in Nat /\ p.timestamp \in Nat /\ out \in Slots
      /\ HeadFid \in Nat /\ sfid \in Nat /\ init \in {0, 1}
  BY NumberedType, PacketType, Numbers DEF TypeOK
<1>2. /\ slots[out].fid = head
      /\ \A q \in Slots :
           /\ slots[q].fid = head + ((q - out) % Size)
           /\ slots[q].picture \in {NoFrame, slots[q].fid}
           /\ slots[q].picture # NoFrame =>
                /\ slots[q].timestamp = P * slots[q].fid + 1
                /\ slots[q].fid < sfid \/ OfRunBefore(slots[q].fid)
      /\ \A q \in Slots : slots[q].picture = slot[q].picture
  BY NumberedFilled
<1>3. /\ slot' = IF InWindow(diff)
                 THEN [slots EXCEPT ![pos] = [@ EXCEPT !.timestamp = p.timestamp,
                                                       !.picture = p.fid]]
                 ELSE slots
      /\ init' = 0
  BY DEF Enqueue
<1>4. /\ head \in Nat /\ diff = p.fid - head /\ diff < Size
  BY <1>1, <1>2, WatcherAssumption
<1>5. InWindow(diff) => pos \in Slots /\ slots[pos].fid = p.fid
  <2>1. ASSUME InWindow(diff) PROVE pos \in Slots /\ (pos - out) % Size = diff
    <3>1. diff \in Slots
      BY <1>1, <1>4, <2>1, WatcherAssumption DEF InWindow, Slots
    <3>2. QED
      BY <1>1, <3>1, Position, PositionDistance
  <2>2. ASSUME InWindow(diff) PROVE slots[pos].fid = head + diff
    BY <1>2, <2>1, <2>2
  <2>3. QED
    BY <1>1, <1>4, <2>1, <2>2
<1>6. p.timestamp = P * p.fid + 1
  BY DEF Stamped
<1>7. \A g : g >= head /\ g = p.fid => InWindow(diff)
  BY <1>1, <1>4, WatcherAssumption DEF InWindow
<1> HIDE DEF slots, diff, pos, head
<1>8. ASSUME NEW q \in Slots
      PROVE  /\ slot'[q].fid = slots[q].fid
             /\ slot'[q].picture \in {NoFrame, slots[q].fid}
             /\ slot'[q].picture # NoFrame =>
                  /\ slot'[q].timestamp = P * slots[q].fid + 1
                  /\ slots[q].fid < sfid \/ OfRunBefore(slots[q].fid)
             /\ slot'[q].picture \in {slot[q].picture, p.fid}
             /\ ~(InWindow(diff) /\ q = pos) => slot'[q].picture = slot[q].picture
             /\ InWindow(diff) /\ q = pos => slot'[q].picture = p.fid
  <2>1. CASE InWindow(diff) /\ q = pos
    <3>1. slot'[q] = [slots[q] EXCEPT !.timestamp = p.timestamp, !.picture = p.fid]
      BY <1>1, <1>3, <2>1
    <3>2. /\ slot'[q].fid = slots[q].fid /\ slot'[q].timestamp = p.timestamp
          /\ slot'[q].picture = p.fid
      BY <1>1, <3>1 DEF Slot
    <3>3. QED
      BY <1>5, <1>6, <2>1, <3>2
  <2>2. CASE ~(InWindow(diff) /\ q = pos)
    <3>1. slot'[q] = slots[q]
      BY <1>1, <1>3, <1>5, <2>2
    <3>2. QED
      BY <1>2, <2>2, <3>1
  <2>3. QED
    BY <2>1, <2>2
<1>9. HeadFid' = head
  BY <1>1, <1>2, <1>8 DEF HeadFid
<1>10. Filled'
  <2>1. \A q \in Slots : slot'[q].fid = HeadFid' + ((q - out') % Size)
    BY <1>2, <1>8, <1>9
  <2>2. \A f : OfRunBefore(f)' <=> OfRunBefore(f)
    BY DEF OfRunBefore
  <2>3. \A q \in Slots :
          /\ slot'[q].picture \in {NoFrame, slot'[q].fid}
          /\ slot'[q].picture # NoFrame =>
               /\ slot'[q].timestamp = P * slot'[q].fid + 1
               /\ slot'[q].fid < sfid' \/ OfRunBefore(slot'[q].fid)
    BY <1>8
  <2>4. init' # 1
    BY <1>3
  <2>5. QED
    BY <2>1, <2>2, <2>3, <2>4 DEF Filled, OfRunBefore
<1>11. ASSUME NEW g \in Nat, g >= head, Kept(g) PROVE Kept(g)'
  <2>1. CASE \E r \in net : r.fid = g
    <3>1. PICK r \in net : r.fid = g
      BY <2>1
    <3>2. CASE r = p
      BY <1>5, <1>7, <1>8, <1>11, <3>1, <3>2 DEF Kept
    <3>3. CASE r # p
      BY <3>1, <3>3 DEF Kept
    <3>4. QED
      BY <3>2, <3>3
  <2>2. CASE \E q \in Slots : slot[q].picture = g
    <3>1. PICK q \in Slots : slot[q].picture = g
      BY <2>2
    <3>2. slot'[q].picture = g
      BY <1>2, <1>5, <1>8, <1>11, <3>1 DEF NoFrame
    <3>3. QED
      BY <3>2 DEF Kept
  <2>3. QED
    BY <1>11, <2>1, <2>2 DEF Kept
<1>12. ASSUME NEW g \in Nat, Kept(g)' PROVE Kept(g)
  <2>1. CASE \E r \in net' : r.fid = g
    BY <2>1 DEF Kept
  <2>2. CASE \E q \in Slots : slot'[q].picture = g
    BY <1>8, <2>2 DEF Kept
  <2>3. QED
    BY <1>12, <2>1, <2>2 DEF Kept
<1>13. Missing' \subseteq Missing
  <2>1. init = 1 => HeadFid = 0
    BY <1>1 DEF Filled, HeadFid, Cleared
  <2>2. head >= HeadFid
    BY <1>1, <2>1 DEF head
  <2>3. QED
    BY <1>1, <1>4, <1>9, <1>11, <2>2 DEF Missing
<1>14. init = 0 => Missing' = Missing
  BY <1>1, <1>4, <1>9, <1>12, <1>13 DEF Missing, head
<1>15. QED
  BY <1>9, <1>10, <1>13, <1>14 DEF head

-----------------------------------------------------------------------------
(* Recovery: how late the head can be.                                     *)

LEMMA Spares ==
  ASSUME TypeOK, Accounted
  PROVE  /\ Spare \in Nat /\ Spare <= lost /\ Spare * Slip <= lost * Slip
         /\ HeadFid \in Missing => (Spare * Slip) + Slip <= lost * Slip
         /\ Spare * Slip \in Nat /\ lost * Slip \in Nat /\ lost * Slip <= MaxLost * Slip
<1>1. /\ IsFiniteSet(Missing) /\ Cardinality(Missing) \in Nat /\ lost \in Nat /\ lost <= MaxLost
      /\ Spare = lost - Cardinality(Missing) /\ Slip \in Nat
  BY MissingFinite, Numbers, Constants
<1>2. MaxLost \in Nat
  BY CastAssumption
<1>3. Spare \in Nat /\ Spare <= lost
  BY <1>1 DEF Accounted
<1>4. ASSUME NEW a \in Nat, NEW b \in Nat, a <= b
      PROVE  a * Slip \in Nat /\ b * Slip \in Nat /\ a * Slip <= b * Slip
  <2>1. Slip * a <= Slip * b
    BY <1>1, <1>4, TimesMonotone
  <2>2. a * Slip = Slip * a /\ b * Slip = Slip * b
    BY <1>1, <1>4
  <2>3. QED
    BY <1>1, <1>4, <2>1, <2>2
<1>5. ASSUME HeadFid \in Missing PROVE (Spare * Slip) + Slip <= lost * Slip
  <2>1. Cardinality(Missing) # 0
    BY <1>1, <1>5, FS_EmptySet
  <2>2. Spare + 1 \in Nat /\ Spare + 1 <= lost
    BY <1>1, <1>3, <2>1
  <2>3. (Spare + 1) * Slip <= lost * Slip
    BY <1>1, <1>4, <2>2
  <2>4. (Spare + 1) * Slip = (Spare * Slip) + Slip
    BY <1>1, <1>3
  <2>5. QED
    BY <2>3, <2>4
<1>6. QED
  BY <1>1, <1>2, <1>3, <1>4, <1>5

\* The head is played, or given up, in time for the ring to hold the stream.
LEMMA HeadInTime ==
  ASSUME TypeOK, Accounted, Behind, Waits, init = 0
  PROVE  now <= start + (P * HeadFid) + P + Latency + (lost * Slip)
<1> DEFINE h == P * HeadFid
           spare == Spare * Slip
           all == lost * Slip
<1>1. /\ now \in Nat /\ start \in Nat /\ wait \in Nat /\ wait <= GiveUp - 1 /\ Since \in Int
      /\ HeadFid \in Nat /\ now <= Since + wait + 1
  BY Numbers
<1>2. P \in Nat /\ P >= 1 /\ GiveUp = P + Slip /\ Slip \in Nat /\ Latency \in Nat
  BY Constants
<1>3. /\ spare \in Nat /\ all \in Nat /\ spare <= all
      /\ HeadFid \in Missing => spare + Slip <= all
  BY Spares
<1>4. h \in Nat
  BY <1>1, <1>2
<1>5. /\ Since <= start + h + Latency + spare
      /\ wait > 0 /\ HeadFid \notin Missing => Since + wait < start + h + Latency
  BY DEF Behind, Waits
<1> HIDE DEF h, spare, all
<1>6. now <= start + h + P + Latency + all
  <2>1. CASE HeadFid \in Missing
    BY <1>1, <1>2, <1>3, <1>4, <1>5, <2>1
  <2>2. CASE HeadFid \notin Missing /\ wait > 0
    BY <1>1, <1>2, <1>3, <1>4, <1>5, <2>2
  <2>3. CASE wait = 0
    BY <1>1, <1>2, <1>3, <1>4, <1>5, <2>3
  <2>4. QED
    BY <1>1, <2>1, <2>2, <2>3
<1>7. QED
  BY <1>6 DEF h, all

LEMMA RingHolds ==
  ASSUME TypeOK, OnSchedule, Accounted, Behind, Waits, init = 0
  PROVE  sfid <= HeadFid + Size
<1>1. now <= start + (P * HeadFid) + P + Latency + (lost * Slip)
  BY HeadInTime
<1>2. start + (P * (sfid - 1)) <= now
  BY DEF OnSchedule
<1>3. lost * Slip <= MaxLost * Slip /\ lost * Slip \in Nat
  BY Spares
<1>4. /\ P \in Nat /\ P >= 1 /\ Latency \in Nat /\ MaxLost * Slip \in Nat
      /\ P * (Size - 1) > Latency + (MaxLost * Slip) /\ Size \in Nat
  BY Constants, WatcherAssumption
<1>5. now \in Nat /\ start \in Nat /\ sfid \in Nat /\ HeadFid \in Nat
  BY Numbers
<1>6. (P * (HeadFid + Size)) = (P * HeadFid) + P + (P * (Size - 1)) /\ P * HeadFid \in Nat
  BY <1>4, <1>5
<1>7. P * (sfid - 1) < P * (HeadFid + Size)
  <2> DEFINE a == P * (sfid - 1)
             b == P * HeadFid
             c == P * (Size - 1)
             d == lost * Slip
             e == MaxLost * Slip
             f == P * (HeadFid + Size)
  <2>1. /\ start + a <= now /\ now <= start + b + P + Latency + d /\ d <= e /\ c > Latency + e
        /\ f = b + P + c
    BY <1>1, <1>2, <1>3, <1>4, <1>6
  <2>2. a \in Int /\ b \in Int /\ c \in Int /\ d \in Int /\ e \in Int /\ f \in Int
    BY <1>3, <1>4, <1>5
  <2> HIDE DEF a, b, c, d, e, f
  <2>3. a < f
    BY <1>4, <1>5, <2>1, <2>2
  <2>4. QED
    BY <2>3 DEF a, f
<1>8. sfid - 1 < HeadFid + Size
  BY <1>4, <1>5, <1>7, TimesCancel
<1>9. QED
  BY <1>4, <1>5, <1>8

-----------------------------------------------------------------------------
(* Recovery: the steps.                                                    *)

LEMMA DeliverSteady ==
  ASSUME Typed, InTime, Steady, Deliver, streamer' = "running"
  PROVE  Steady'
<1>0. /\ Runs /\ OnSchedule /\ Stamped /\ Filled /\ Anchored /\ Accounted
      /\ Behind /\ Waits /\ CatchesUp /\ NotAhead /\ Overtaken
  BY DEF Steady
<1>1. PICK p \in net :
        /\ Receive(p) /\ PacketFeedback(p) /\ net' \in {net, net \ {p}}
  BY DEF Deliver
<1>2. /\ Enqueue(p) /\ init' = 0
      /\ init_stream_ts' = IF init = 1 THEN p.timestamp ELSE init_stream_ts
      /\ init_receiver_ts' = IF init = 1 THEN now ELSE init_receiver_ts
      /\ net' \in {net, net \ {p}} /\ p.fid < sfid
      /\ UNCHANGED <<now, out, wait, polled, run, start, sfid, lost, disturbed>>
  BY <1>1 DEF Deliver, Receive, Enqueue, PacketFeedback, rendererVars
<1>3. TypeOK /\ Timely
  BY DEF Typed
<1>4. /\ HeadFid' = IF init = 1 THEN p.fid ELSE HeadFid
      /\ Filled' /\ Missing' \subseteq Missing
      /\ init = 0 => Missing' = Missing
  BY <1>0, <1>2, <1>3, DeliverMoves, RingHolds
<1>5. Since' = Since
  BY <1>2 DEF Since
<1>6. Runs' /\ OnSchedule' /\ Stamped'
  BY <1>0, <1>2 DEF Runs, OnSchedule, Stamped, OfRunBefore
<1>7. Cardinality(Missing') \in Nat /\ Cardinality(Missing') <= Cardinality(Missing)
  <2>1. IsFiniteSet(Missing) /\ Missing' \in SUBSET Missing
    BY <1>3, <1>4, MissingFinite
  <2>2. IsFiniteSet(Missing') /\ Cardinality(Missing') <= Cardinality(Missing)
    BY <2>1, FS_Subset
  <2>3. QED
    BY <2>2, FS_CardinalityType
<1>8. Accounted'
  <2>1. Cardinality(Missing') <= lost
    BY <1>0, <1>3, <1>7, MissingFinite, Numbers DEF Accounted
  <2>2. \A g \in Missing' : run' = 1 /\ P * g <= disturbed'
    BY <1>0, <1>2, <1>4 DEF Accounted
  <2>3. QED
    BY <1>2, <2>1, <2>2 DEF Accounted
<1>9. CASE init = 0
  <2>1. UNCHANGED <<init, HeadFid, Missing, init_stream_ts, init_receiver_ts>>
    BY <1>2, <1>4, <1>9
  <2>2. Spare' = Spare
    BY <1>2, <2>1 DEF Spare
  <2>3. Anchored' /\ Behind' /\ Waits' /\ CatchesUp'
    BY <1>0, <1>2, <1>5, <2>1, <2>2 DEF Anchored, Behind, Waits, CatchesUp
  <2>4. NotAhead' /\ Overtaken'
    BY <1>0, <1>2, <1>5, <2>1 DEF NotAhead, Overtaken, LeadBound
  <2>5. QED
    BY <1>4, <1>6, <1>8, <2>3, <2>4 DEF Steady
<1>10. CASE init = 1
  <2> DEFINE h == P * p.fid
             spare == Spare' * Slip
  <2>1. /\ HeadFid' = p.fid /\ init_stream_ts' = p.timestamp /\ init_receiver_ts' = now
    BY <1>2, <1>4, <1>10
  <2>2. /\ p.fid \in Nat /\ p.sent \in Nat /\ p.sent <= now /\ now - p.sent <= MaxDelay
        /\ p.timestamp = h + 1 /\ p.sent \in {h, start + h}
    BY <1>0, <1>3, PacketType DEF Stamped, InTime, Timely
  <2>3. /\ now \in Nat /\ start \in Nat /\ wait \in Nat /\ wait <= GiveUp - 1 /\ Since \in Int
        /\ sfid \in Nat /\ now <= Since + wait + 1 /\ Since + wait <= now
        /\ run \in {1, 2} /\ (run = 1 => start = 0)
    BY <1>0, <1>3, Numbers DEF Runs
  <2>4. h \in Nat /\ Latency \in Nat /\ Latency = MaxDelay + Delay + 1 /\ Delay \in Nat
        /\ MaxDelay \in Nat /\ Slip \in Nat /\ GiveUp \in Nat
    BY <2>2, Constants
  <2>5. spare \in Nat
    <3>1. Spare' \in Nat
      BY <1>2, <1>3, <1>7, <1>8, MissingFinite, Numbers DEF Spare, Accounted
    <3>2. QED
      BY <2>4, <3>1, Product
  <2> HIDE DEF h, spare
  <2>6. now <= start + h + MaxDelay /\ Since + wait < start + h + Latency
    BY <2>2, <2>3, <2>4
  <2>7. Anchored'
    <3>1. now + 1 <= h + 1 + start + MaxDelay /\ (run = 1 => now + 1 >= h + 1)
      BY <2>2, <2>3, <2>4, <2>6
    <3>2. QED
      BY <1>2, <2>1, <2>2, <3>1 DEF Anchored
  <2>8. Behind' /\ Waits' /\ CatchesUp'
    <3>1. Since <= start + h + Latency + spare /\ Since <= start + h + Latency
      BY <2>3, <2>4, <2>5, <2>6
    <3>2. QED
      BY <1>2, <1>5, <2>1, <2>6, <3>1 DEF Behind, Waits, CatchesUp, h, spare
  <2>9. NotAhead'
    <3>1. run = 1 => Since >= h - GiveUp
      BY <2>2, <2>3, <2>4
    <3>2. QED
      BY <1>2, <1>5, <2>1, <2>2, <2>3, <3>1 DEF NotAhead, h
  <2>10. Overtaken'
    BY <1>2, <2>1, <2>2, <2>3 DEF Overtaken
  <2>11. QED
    BY <1>4, <1>6, <1>8, <2>7, <2>8, <2>9, <2>10 DEF Steady
<1>11. QED
  BY <1>3, <1>9, <1>10, Numbers

LEMMA QuietSteady ==
  ASSUME Typed, Steady, streamer = "running", Tick \/ WatcherEnds \/ UNCHANGED vars
  PROVE  Steady'
<1>0. /\ Runs /\ OnSchedule /\ Stamped /\ Filled /\ Anchored /\ Accounted
      /\ Behind /\ Waits /\ CatchesUp /\ NotAhead /\ Overtaken
  BY DEF Steady
<1>1. /\ UNCHANGED <<init, out, slot, init_stream_ts, init_receiver_ts, wait, run, start, sfid,
                     net, lost, disturbed>>
      /\ UNCHANGED <<now, polled>> \/ Tick
  <2>1. CASE Tick
    BY <2>1 DEF Tick, bufferVars, rendererVars, streamerVars
  <2>2. CASE WatcherEnds \/ UNCHANGED vars
    BY <2>2 DEF WatcherEnds, Escape, Kill, vars, watcherVars, bufferVars, rendererVars,
                castVars, streamerVars
  <2>3. QED
    BY <2>1, <2>2
<1>2. HeadFid' = HeadFid /\ Missing' = Missing
  BY <1>1 DEF HeadFid, Missing, Kept
<1>3. Spare' = Spare
  BY <1>1, <1>2 DEF Spare
<1>4. /\ now \in Nat /\ start \in Nat /\ sfid \in Nat /\ disturbed \in Nat /\ P \in Nat
      /\ wait \in Nat
  BY Numbers, Constants DEF Typed
<1>5. Since' = Since
  <2>1. CASE Tick
    BY <1>1, <1>4, <2>1 DEF Tick, Since
  <2>2. CASE UNCHANGED <<now, polled>>
    BY <1>1, <2>2 DEF Since
  <2>3. QED
    BY <1>1, <2>1, <2>2
<1>6. Runs' /\ OnSchedule'
  <2>1. CASE Tick
    <3>1. now' = now + 1 /\ now # start + (P * sfid)
      BY <2>1 DEF Tick, Due, P
    <3>2. P * sfid \in Int /\ P * (sfid - 1) \in Int
      BY <1>4
    <3>3. OnSchedule'
      <4> DEFINE a == P * sfid
                 b == P * (sfid - 1)
      <4>1. now <= start + a /\ start + b <= now /\ now # start + a /\ a \in Int /\ b \in Int
        BY <1>0, <3>1, <3>2 DEF OnSchedule
      <4> HIDE DEF a, b
      <4>2. now + 1 <= start + a /\ start + b <= now + 1
        BY <1>4, <4>1
      <4>3. QED
        BY <1>1, <3>1, <4>2 DEF OnSchedule, a, b
    <3>4. QED
      BY <1>0, <1>1, <1>4, <3>1, <3>3 DEF Runs
  <2>2. CASE UNCHANGED <<now, polled>>
    BY <1>0, <1>1, <2>2 DEF Runs, OnSchedule
  <2>3. QED
    BY <1>1, <2>1, <2>2
<1>7. Stamped' /\ Filled'
  BY <1>0, <1>1, <1>2 DEF Stamped, Filled, OfRunBefore
<1>8. Anchored' /\ Accounted' /\ Behind' /\ Waits' /\ CatchesUp'
  BY <1>0, <1>1, <1>2, <1>3, <1>5 DEF Anchored, Accounted, Behind, Waits, CatchesUp
<1>9. NotAhead' /\ Overtaken'
  BY <1>0, <1>1, <1>2, <1>5 DEF NotAhead, Overtaken, LeadBound
<1>10. QED
  BY <1>6, <1>7, <1>8, <1>9 DEF Steady

LEMMA SendMoves ==
  ASSUME Typed, Send
  PROVE  /\ HeadFid' = HeadFid /\ sfid' = sfid + 1
         /\ \/ lost' = lost /\ Missing' = Missing
            \/ /\ lost' = lost + 1 /\ Missing \subseteq Missing'
               /\ Missing' \subseteq Missing \cup {sfid}
<1>1. /\ UNCHANGED <<slot, out>> /\ sfid' = sfid + 1
      /\ \/ /\ net' = net \cup {[fid |-> sfid, sent |-> now, timestamp |-> now - start + 1]}
            /\ lost' = lost
         \/ lost' = lost + 1 /\ net' = net
  BY DEF Send, watcherVars, bufferVars
<1>2. HeadFid' = HeadFid /\ HeadFid \in Nat /\ sfid \in Nat
  BY <1>1, Numbers DEF HeadFid, Typed
<1>3. CASE lost' = lost + 1 /\ net' = net
  <2>1. \A g : Kept(g)' <=> Kept(g)
    BY <1>1, <1>3 DEF Kept
  <2>2. Missing \subseteq Missing' /\ Missing' \subseteq Missing \cup {sfid}
    BY <1>1, <1>2, <2>1 DEF Missing
  <2>3. QED
    BY <1>1, <1>2, <1>3, <2>2
<1>4. CASE /\ net' = net \cup {[fid |-> sfid, sent |-> now, timestamp |-> now - start + 1]}
           /\ lost' = lost
  <2>1. ASSUME NEW g PROVE (\E p \in net' : p.fid = g) <=> (\E p \in net : p.fid = g) \/ g = sfid
    <3>1. [fid |-> sfid, sent |-> now, timestamp |-> now - start + 1].fid = sfid
      OBVIOUS
    <3>2. QED
      BY <1>4, <3>1
  <2>2. ASSUME NEW g PROVE Kept(g)' <=> Kept(g) \/ g = sfid
    BY <1>1, <2>1 DEF Kept
  <2>3. Missing' = Missing
    BY <1>1, <1>2, <2>2 DEF Missing
  <2>4. QED
    BY <1>1, <1>2, <1>4, <2>3
<1>5. QED
  BY <1>1, <1>3, <1>4

LEMMA SendSteady ==
  ASSUME Typed, Steady, Send
  PROVE  Steady'
<1> DEFINE new == [fid |-> sfid, sent |-> now, timestamp |-> now - start + 1]
           h == P * HeadFid
           s == P * sfid
<1>0. /\ Runs /\ OnSchedule /\ Stamped /\ Filled /\ Anchored /\ Accounted
      /\ Behind /\ Waits /\ CatchesUp /\ NotAhead /\ Overtaken /\ TypeOK
  BY DEF Steady, Typed
<1>1. /\ UNCHANGED <<now, init, out, slot, init_stream_ts, init_receiver_ts, wait, polled, run,
                     start>>
      /\ sfid' = sfid + 1 /\ now = start + s /\ net' \subseteq net \cup {new}
      /\ \/ lost' = lost /\ disturbed' = disturbed
         \/ lost' = lost + 1 /\ disturbed' = now /\ run = 1
  BY DEF Send, watcherVars, bufferVars, rendererVars, Due, P
<1>2. HeadFid' = HeadFid /\ Since' = Since
  BY <1>1, SendMoves DEF Since
<1>3. /\ now \in Nat /\ start \in Nat /\ sfid \in Nat /\ disturbed \in Nat /\ HeadFid \in Nat
      /\ P \in Nat /\ P >= 1 /\ Since \in Int /\ lost \in Nat /\ run \in {1, 2}
      /\ wait \in Nat /\ Since + wait <= now /\ Slip \in Nat /\ Latency \in Nat
      /\ MaxLost * Slip \in Nat /\ Outage = P - 1 + Latency + (MaxLost * Slip)
  BY <1>0, Numbers, Constants
<1>4. h \in Nat /\ s \in Nat /\ P * (sfid + 1) = s + P /\ P * ((sfid + 1) - 1) = s
  BY <1>3
<1>5. /\ IsFiniteSet(Missing) /\ Cardinality(Missing) \in Nat
      /\ Spare = lost - Cardinality(Missing) /\ Cardinality(Missing) <= lost
  BY <1>0, MissingFinite DEF Accounted
<1>6. /\ Cardinality(Missing') \in Nat /\ Cardinality(Missing') <= lost'
      /\ Spare' \in Nat /\ Spare <= Spare' /\ Spare \in Nat
  <2>1. CASE lost' = lost /\ Missing' = Missing
    BY <1>3, <1>5, <2>1 DEF Spare
  <2>2. CASE lost' = lost + 1 /\ Missing' \subseteq Missing \cup {sfid}
    <3>1. /\ IsFiniteSet(Missing \cup {sfid})
          /\ Cardinality(Missing \cup {sfid}) <= Cardinality(Missing) + 1
          /\ Cardinality(Missing \cup {sfid}) \in Nat
      BY <1>5, FS_AddElement, FS_CardinalityType
    <3>2. IsFiniteSet(Missing') /\ Cardinality(Missing') <= Cardinality(Missing \cup {sfid})
      BY <2>2, <3>1, FS_Subset
    <3>3. Cardinality(Missing') \in Nat /\ Cardinality(Missing') <= Cardinality(Missing) + 1
      BY <1>5, <3>1, <3>2, FS_CardinalityType
    <3>4. QED
      BY <1>3, <1>5, <2>2, <3>3 DEF Spare
  <2>3. QED
    BY <2>1, <2>2, SendMoves
<1>7. Missing \subseteq Missing' /\ Missing' \subseteq Missing \cup {sfid}
      /\ (lost' = lost => Missing' = Missing)
  <2>1. lost + 1 # lost
    BY <1>3
  <2>2. QED
    BY <2>1, SendMoves
<1>8. Runs'
  BY <1>0, <1>1, <1>3 DEF Runs
<1>9. OnSchedule'
  BY <1>1, <1>3, <1>4 DEF OnSchedule
<1>10. Stamped'
  <2>1. ASSUME NEW f \in Nat, f < sfid PROVE f < sfid + 1
    BY <1>3, <2>1
  <2>2. \A p \in net : p.fid \in Nat
    BY <1>0, PacketType
  <2>3. new.fid = sfid /\ new.sent = start + s /\ new.timestamp = s + 1
    BY <1>1, <1>3, <1>4
  <2>4. sfid < sfid + 1
    BY <1>3
  <2> HIDE DEF new
  <2>5. QED
    BY <1>0, <1>1, <2>1, <2>2, <2>3, <2>4 DEF Stamped, OfRunBefore
<1>11. Filled'
  <2>1. ASSUME NEW q \in Slots, slot[q].fid < sfid PROVE slot[q].fid < sfid + 1
    BY <1>0, <1>3, <2>1 DEF TypeOK
  <2>2. QED
    BY <1>0, <1>1, <1>2, <2>1 DEF Filled, OfRunBefore
<1>12. Anchored'
  BY <1>0, <1>1 DEF Anchored
<1>13. Accounted'
  <2>1. ASSUME NEW g \in Missing' PROVE run = 1 /\ P * g <= disturbed'
    <3>1. CASE lost' = lost + 1 /\ disturbed' = now /\ run = 1
      <4>1. CASE g = sfid
        BY <1>0, <1>1, <1>3, <1>4, <3>1, <4>1 DEF Runs
      <4>2. CASE g # sfid
        <5>1. g \in Missing /\ g \in Nat
          BY <1>3, <1>7, <4>2 DEF Missing
        <5>2. P * g <= disturbed /\ disturbed <= now /\ P * g \in Int
          BY <1>0, <1>3, <5>1 DEF Accounted, Runs
        <5>3. QED
          BY <1>3, <3>1, <5>2
      <4>3. QED
        BY <4>1, <4>2
    <3>2. CASE lost' = lost /\ disturbed' = disturbed
      BY <1>0, <1>7, <3>2 DEF Accounted
    <3>3. QED
      BY <1>1, <3>1, <3>2
  <2>2. QED
    BY <1>1, <1>6, <2>1 DEF Accounted
<1>14. Behind'
  <2> DEFINE spare == Spare * Slip
             spare1 == Spare' * Slip
  <2>1. spare <= spare1 /\ spare \in Nat /\ spare1 \in Nat
    <3>1. Slip * Spare <= Slip * Spare'
      <4>1. Slip \in Nat /\ Spare \in Int /\ Spare' \in Int /\ Spare <= Spare'
        BY <1>3, <1>6
      <4>2. QED
        BY ONLY <4>1, TimesMonotone
    <3>2. Slip * Spare = spare /\ Slip * Spare' = spare1
      BY <1>3, <1>6
    <3>3. QED
      BY <1>3, <1>6, <3>1, <3>2, Product
  <2>2. init = 0 => Since <= start + h + Latency + spare
    BY <1>0 DEF Behind
  <2> HIDE DEF h, spare, spare1
  <2>3. init = 0 => Since <= start + h + Latency + spare1
    BY <1>3, <1>4, <2>1, <2>2
  <2>4. QED
    BY <1>1, <1>2, <2>3 DEF Behind, h, spare1
<1>15. Waits'
  BY <1>0, <1>1, <1>2, <1>7 DEF Waits
<1>16. CatchesUp'
  <2>1. CASE lost' = lost /\ disturbed' = disturbed
    BY <1>0, <1>1, <1>2, <2>1 DEF CatchesUp
  <2>2. CASE disturbed' = now /\ run = 1 /\ init = 0
    <3> DEFINE spare == Spare * Slip
               all == MaxLost * Slip
               w == Since - now - Outage
               z == h - now
    <3>1. start = 0 /\ HeadFid <= sfid
      BY <1>0, <2>2 DEF Runs, NotAhead
    <3>2. h <= s
      BY <1>3, <3>1, TimesMonotone
    <3>3. spare <= all /\ spare \in Nat /\ all \in Nat
      BY <1>0, <1>3, Spares, Numbers
    <3>4. Since <= h + Latency + spare
      BY <1>0, <1>3, <1>4, <2>2, <3>1 DEF Behind
    <3>5. w \in Int /\ z \in Int /\ w <= z /\ z <= 0
      <4> HIDE DEF h, s, spare, all
      <4>1. now = s /\ Outage = P - 1 + Latency + all
        BY <1>1, <1>3, <1>4, <3>1 DEF all
      <4>2. QED
        BY <1>3, <1>4, <3>2, <3>3, <3>4, <4>1
    <3> HIDE DEF w, z
    <3>6. P * w <= P * z
      BY <1>3, <3>5, TimesMonotone
    <3>7. P * z <= 1 * z
      BY <1>3, <3>5, TimesNegative
    <3>8. P * w <= z
      BY <1>3, <3>5, <3>6, <3>7
    <3>9. QED
      BY <1>1, <1>2, <2>2, <3>8 DEF CatchesUp, w, z, h
  <2>3. QED
    BY <1>1, <2>1, <2>2 DEF CatchesUp
<1>17. NotAhead'
  BY <1>0, <1>1, <1>2, <1>3 DEF NotAhead
<1>18. Overtaken'
  <2>1. HeadFid > sfid + 1 => HeadFid > sfid
    BY <1>3
  <2>2. HeadFid = sfid + 1 => HeadFid > sfid
    BY <1>3
  <2>3. LeadBound' <=> LeadBound
    BY <1>1, <1>2 DEF LeadBound
  <2>4. QED
    BY <1>0, <1>1, <1>2, <2>1, <2>2, <2>3 DEF Overtaken
<1>19. QED
  BY <1>8, <1>9, <1>10, <1>11, <1>12, <1>13, <1>14, <1>15, <1>16, <1>17, <1>18 DEF Steady

LEMMA RestartSteady ==
  ASSUME Typed, Steady, run = 1, Restart
  PROVE  Steady'
<1>0. /\ Runs /\ OnSchedule /\ Stamped /\ Filled /\ Anchored /\ Accounted
      /\ Behind /\ Waits /\ CatchesUp /\ NotAhead /\ Overtaken /\ TypeOK
  BY DEF Steady, Typed
<1>1. /\ UNCHANGED <<now, init, out, slot, init_stream_ts, init_receiver_ts, wait, polled, net,
                     lost>>
      /\ lost = 0 /\ run' = 2 /\ start' = now /\ sfid' = 0 /\ disturbed' = now /\ start = 0
  BY <1>0 DEF Restart, watcherVars, bufferVars, rendererVars, Runs
<1>2. HeadFid' = HeadFid /\ Since' = Since
  BY <1>1 DEF Since, HeadFid
<1>3. /\ now \in Nat /\ sfid \in Nat /\ HeadFid \in Nat /\ P \in Nat /\ P >= 1 /\ Since \in Int
      /\ wait \in Nat /\ Since + wait <= now /\ Since <= now /\ Slip \in Nat /\ Latency \in Nat
      /\ GiveUp = P + Slip /\ GiveUp \in Nat /\ P <= GiveUp /\ MaxDelay \in Nat
      /\ init_stream_ts \in Nat /\ init_receiver_ts \in Nat
  BY <1>0, Numbers, Constants
<1>4. Missing = {} /\ Missing' = {}
  <2>1. Cardinality(Missing) = 0
    BY <1>0, <1>1, MissingFinite DEF Accounted
  <2>2. Missing' = {}
    BY <1>1, <1>2, <1>3 DEF Missing
  <2>3. QED
    BY <1>0, <2>1, <2>2, MissingFinite, FS_EmptySet
<1>5. Cardinality(Missing') = 0 /\ Spare = 0 /\ Spare' = 0
  BY <1>1, <1>4, FS_EmptySet DEF Spare
<1>6. ASSUME NEW f \in Nat, f < sfid PROVE P * f <= now
  <2>1. P * f <= P * (sfid - 1) /\ P * f \in Int /\ P * (sfid - 1) \in Int
    BY <1>3, <1>6, TimesMonotone
  <2>2. P * (sfid - 1) <= now
    BY <1>0, <1>1, <1>3, <2>1 DEF OnSchedule
  <2>3. QED
    BY <1>3, <2>1, <2>2
<1>7. \A f \in Nat : f < sfid \/ OfRunBefore(f) => OfRunBefore(f)'
  BY <1>1, <1>6 DEF OfRunBefore
<1>8. Runs' /\ OnSchedule'
  <2>1. P * (0 - 1) <= 0 /\ P * (0 - 1) \in Int /\ P * 0 = 0
    BY <1>3
  <2>2. now + (P * (0 - 1)) <= now /\ now <= now + (P * 0)
    BY <1>3, <2>1
  <2>3. QED
    BY <1>1, <1>3, <2>2 DEF Runs, OnSchedule
<1>9. Stamped'
  <2>1. ASSUME NEW p \in net
        PROVE  /\ p.timestamp = P * p.fid + 1 /\ p.sent = P * p.fid /\ OfRunBefore(p.fid)'
    <3>1. p.fid \in Nat /\ P * p.fid \in Int
      BY <1>0, <1>3, PacketType
    <3>2. QED
      BY <1>0, <1>1, <1>7, <3>1 DEF Stamped
  <2>2. QED
    BY <1>1, <2>1 DEF Stamped, OfRunBefore
<1>10. Filled'
  <2>1. CASE init = 1
    BY <1>0, <1>1, <2>1 DEF Filled
  <2>2. CASE init # 1
    <3>1. \A q \in Slots : slot[q].fid \in Nat
      BY <1>0 DEF TypeOK
    <3>2. \A q \in Slots : slot[q].fid < sfid \/ OfRunBefore(slot[q].fid) =>
                             run' = 2 /\ P * slot[q].fid <= start'
      BY <1>1, <1>7, <3>1 DEF OfRunBefore
    <3>3. QED
      BY <1>0, <1>1, <1>2, <2>2, <3>2 DEF Filled, OfRunBefore
  <2>3. QED
    BY <2>1, <2>2
<1>11. Anchored'
  <2>1. init = 0 => init_receiver_ts + 1 <= init_stream_ts + now + MaxDelay
    BY <1>0, <1>1, <1>3 DEF Anchored
  <2>2. QED
    BY <1>1, <2>1 DEF Anchored
<1>12. Accounted'
  BY <1>1, <1>4, <1>5 DEF Accounted
<1>13. /\ init = 0 => Since <= (P * HeadFid) + Latency
       /\ init = 0 /\ wait > 0 => Since + wait < (P * HeadFid) + Latency
  <2> DEFINE h == P * HeadFid
  <2>1. h \in Nat /\ 0 * Slip = 0
    BY <1>3
  <2>2. init = 0 => Since <= 0 + h + Latency + (0 * Slip)
    BY <1>0, <1>1, <1>5 DEF Behind
  <2>3. init = 0 /\ wait > 0 => Since + wait < 0 + h + Latency
    BY <1>0, <1>1, <1>4 DEF Waits
  <2> HIDE DEF h
  <2>4. QED
    BY <1>3, <2>1, <2>2, <2>3 DEF h
<1>14. Behind' /\ Waits' /\ CatchesUp'
  <2> DEFINE h == P * HeadFid
  <2>1. h \in Nat /\ 0 * Slip = 0
    BY <1>3
  <2>2. /\ init = 0 => Since <= h + Latency
        /\ init = 0 /\ wait > 0 => Since + wait < h + Latency
    BY <1>13
  <2> HIDE DEF h
  <2>3. /\ init = 0 => Since <= now + h + Latency + (0 * Slip)
        /\ init = 0 => Since <= now + h + Latency
        /\ init = 0 /\ wait > 0 => Since + wait < now + h + Latency
    BY <1>3, <2>1, <2>2
  <2>4. QED
    BY <1>1, <1>2, <1>5, <2>3 DEF Behind, Waits, CatchesUp, h
<1>15. NotAhead'
  BY <1>1 DEF NotAhead
<1>16. Overtaken'
  <2> SUFFICES ASSUME init = 0 PROVE GiveUp * ((P * (HeadFid - 1)) - now) <= P * (Since - now)
    BY <1>1, <1>2 DEF Overtaken, LeadBound
  <2> DEFINE x == (P * (HeadFid - 1)) - now
             y == Since - now
  <2>1. x \in Int /\ y \in Int /\ y <= 0
    BY <1>3
  <2>2. CASE Since >= P * (HeadFid - 1)
    <3>1. x <= y
      <4> DEFINE a == P * (HeadFid - 1)
      <4>1. a \in Int /\ a <= Since
        BY <1>3, <2>2
      <4> HIDE DEF a
      <4>2. a - now <= Since - now
        BY <1>3, <4>1
      <4>3. QED
        BY <4>2 DEF a
    <3> HIDE DEF x, y
    <3>2. GiveUp * x <= GiveUp * y
      BY <1>3, <2>1, <3>1, TimesMonotone
    <3>3. GiveUp * y <= P * y
      BY <1>3, <2>1, TimesNegative
    <3>4. GiveUp * x <= P * y
      BY <1>3, <2>1, <3>2, <3>3
    <3>5. QED
      BY <3>4 DEF x, y
  <2>3. CASE Since >= (P * HeadFid) - GiveUp /\ HeadFid < sfid
    <3> DEFINE z == (P * HeadFid) - now
    <3>1. z \in Int /\ z <= 0
      BY <1>3, <1>6, <2>3
    <3>2. x = z - P
      BY <1>3, Times
    <3>3. y >= z - GiveUp
      BY <1>3, <2>3
    <3> HIDE DEF x, y, z
    <3>4. GiveUp * x = (GiveUp * z) - (GiveUp * P)
      BY <1>3, <3>1, <3>2
    <3>5. P * (z - GiveUp) = (P * z) - (GiveUp * P)
      BY <1>3, <3>1
    <3>6. P * (z - GiveUp) <= P * y
      <4>1. z - GiveUp \in Int
        BY <1>3, <3>1
      <4>2. QED
        BY <1>3, <2>1, <3>3, <4>1, TimesMonotone
    <3>7. GiveUp * z <= P * z
      BY <1>3, <3>1, TimesNegative
    <3>8. GiveUp * x <= P * y
      BY <1>3, <2>1, <3>1, <3>4, <3>5, <3>6, <3>7
    <3>9. QED
      BY <3>8 DEF x, y
  <2>4. Since >= P * (HeadFid - 1) \/ (Since >= (P * HeadFid) - GiveUp /\ HeadFid < sfid)
    BY <1>0 DEF NotAhead
  <2>5. QED
    BY <2>2, <2>3, <2>4
<1>17. QED
  BY <1>8, <1>9, <1>10, <1>11, <1>12, <1>14, <1>15, <1>16 DEF Steady

\* What the head, if it is there, is ready for.
LEMMA ReadyTime ==
  ASSUME Typed, Steady, init = 0, slot[out].picture # NoFrame
  PROVE  /\ HeadFid < sfid \/ OfRunBefore(HeadFid)
         /\ HeadFid \notin Missing
         /\ ~Ready => now < start + (P * HeadFid) + Latency
         /\ Ready /\ run = 1 => now >= P * HeadFid
<1> DEFINE h == P * HeadFid
<1>0. Filled /\ Anchored /\ Runs /\ TypeOK
  BY DEF Steady, Typed
<1>1. out \in Slots /\ HeadFid = slot[out].fid
  BY <1>0 DEF TypeOK, HeadFid
<1>2. /\ slot[out].picture = HeadFid /\ slot[out].timestamp = h + 1
      /\ HeadFid < sfid \/ OfRunBefore(HeadFid)
  BY <1>0, <1>1 DEF Filled
<1>3. /\ now \in Nat /\ start \in Nat /\ init_stream_ts \in Nat /\ init_receiver_ts \in Nat
      /\ HeadFid \in Nat /\ P \in Nat /\ Delay \in Nat /\ MaxDelay \in Nat
      /\ Latency = MaxDelay + Delay + 1
  BY <1>0, Numbers, Constants
<1>4. /\ init_receiver_ts + 1 <= init_stream_ts + start + MaxDelay
      /\ run = 1 => init_receiver_ts + 1 >= init_stream_ts
  BY <1>0 DEF Anchored
<1>5. h \in Nat
  BY <1>3
<1>6. Ready <=> now - init_receiver_ts > (h + 1) - init_stream_ts + Delay
  <2>1. slot[out].timestamp # 0
    BY <1>2, <1>5
  <2>2. QED
    BY <1>2, <2>1 DEF Ready
<1> HIDE DEF h
<1>7. ~Ready => now < start + h + Latency
  BY <1>3, <1>4, <1>5, <1>6
<1>8. Ready /\ run = 1 => now >= h
  BY <1>3, <1>4, <1>5, <1>6
<1>9. Kept(HeadFid)
  BY <1>1, <1>2 DEF Kept
<1>10. QED
  BY <1>2, <1>7, <1>8, <1>9 DEF Missing, h

LEMMA PollWaitsSteady ==
  ASSUME Typed, InTime, Steady, streamer = "running", WatcherPolls, ~(Ready \/ wait > WaitLimit)
  PROVE  Steady'
<1>0. /\ Runs /\ OnSchedule /\ Stamped /\ Filled /\ Anchored /\ Accounted
      /\ Behind /\ Waits /\ CatchesUp /\ NotAhead /\ Overtaken /\ TypeOK /\ Timely
  BY DEF Steady, Typed
<1>1. /\ UNCHANGED <<now, init, out, slot, init_stream_ts, init_receiver_ts, net, run, start,
                     sfid, lost, disturbed>>
      /\ ~polled /\ polled' = TRUE /\ wait' = wait + 1
  BY DEF WatcherPolls, Poll, streamerVars
<1>2. /\ HeadFid' = HeadFid /\ Missing' = Missing
  BY <1>1 DEF HeadFid, Missing, Kept
<1>3. Spare' = Spare
  BY <1>1, <1>2 DEF Spare
<1>4. /\ now \in Nat /\ start \in Nat /\ sfid \in Nat /\ HeadFid \in Nat /\ P \in Nat /\ P >= 1
      /\ wait \in Nat /\ Since \in Int /\ Since + wait = now - 1 /\ Latency \in Nat
      /\ Latency = MaxDelay + Delay + 1 /\ MaxDelay \in Nat /\ Delay \in Nat
  BY <1>0, <1>1, Numbers, Constants
<1>5. Since' = Since /\ Since' + wait' = now
  BY <1>1, <1>4 DEF Since
<1>6. Runs' /\ OnSchedule' /\ Stamped' /\ Filled'
  BY <1>0, <1>1, <1>2 DEF Runs, OnSchedule, Stamped, Filled, OfRunBefore
<1>7. Anchored' /\ Accounted' /\ Behind' /\ CatchesUp'
  BY <1>0, <1>1, <1>2, <1>3, <1>5 DEF Anchored, Accounted, Behind, CatchesUp
<1>8. NotAhead' /\ Overtaken'
  BY <1>0, <1>1, <1>2, <1>5 DEF NotAhead, Overtaken, LeadBound
<1>9. ASSUME init = 0, HeadFid \notin Missing PROVE now < start + (P * HeadFid) + Latency
  <2> DEFINE h == P * HeadFid
  <2>1. h \in Nat
    BY <1>4
  <2>2. CASE slot[out].picture # NoFrame
    BY <1>9, <2>2, ReadyTime
  <2>3. CASE HeadFid >= sfid
    <3>1. P * sfid <= h /\ P * sfid \in Nat
      BY <1>4, <2>3, TimesMonotone
    <3>2. now <= start + (P * sfid)
      BY <1>0 DEF OnSchedule
    <3> HIDE DEF h
    <3>3. now < start + h + Latency
      BY <1>4, <2>1, <3>1, <3>2
    <3>4. QED
      BY <3>3 DEF h
  <2>4. CASE \E p \in net : p.fid = HeadFid
    <3>1. PICK p \in net : p.fid = HeadFid
      BY <2>4
    <3>2. p.sent \in Nat /\ now - p.sent <= MaxDelay /\ p.sent \in {h, start + h}
      BY <1>0, <3>1, PacketType DEF InTime, Stamped
    <3> HIDE DEF h
    <3>3. now < start + h + Latency
      BY <1>4, <2>1, <3>2
    <3>4. QED
      BY <3>3 DEF h
  <2>5. CASE \E q \in Slots : slot[q].picture = HeadFid
    <3>1. slot[out].picture = HeadFid
      BY <1>0, <1>9, <2>5, FilledHead
    <3>2. slot[out].picture # NoFrame
      BY <1>4, <3>1 DEF NoFrame
    <3>3. QED
      BY <2>2, <3>2
  <2>6. QED
    BY <1>4, <1>9, <2>3, <2>4, <2>5 DEF Missing, Kept
<1>10. Waits'
  BY <1>1, <1>2, <1>5, <1>9 DEF Waits
<1>11. QED
  BY <1>6, <1>7, <1>8, <1>10 DEF Steady

LEMMA DequeueSteady ==
  ASSUME Typed, Steady, streamer = "running", WatcherPolls, Ready \/ wait > WaitLimit, init = 0
  PROVE  Steady'
<1> DEFINE h == P * HeadFid
           spare == Spare * Slip
           spare1 == Spare' * Slip
           all == MaxLost * Slip
<1>0. /\ Runs /\ OnSchedule /\ Stamped /\ Filled /\ Anchored /\ Accounted
      /\ Behind /\ Waits /\ CatchesUp /\ NotAhead /\ Overtaken /\ TypeOK /\ Timely
  BY DEF Steady, Typed
<1>1. /\ UNCHANGED <<now, init, init_stream_ts, init_receiver_ts, net, run, start, sfid, lost,
                     disturbed>>
      /\ ~polled /\ polled' = TRUE /\ wait' = 0 /\ Dequeue
  BY DEF WatcherPolls, Poll, streamerVars
<1>2. /\ HeadFid' = HeadFid + 1 /\ Filled' /\ Missing' = Missing \ {HeadFid}
  BY <1>0, <1>1, DequeueMoves
<1>3. /\ now \in Nat /\ start \in Nat /\ sfid \in Nat /\ HeadFid \in Nat /\ disturbed \in Nat
      /\ wait \in Nat /\ wait <= GiveUp - 1 /\ Since \in Int /\ Since + wait = now - 1
      /\ lost \in Nat /\ run \in {1, 2}
  BY <1>0, <1>1, Numbers
<1>4. /\ P \in Nat /\ P >= 1 /\ GiveUp \in Nat /\ GiveUp = P + Slip /\ Slip \in Nat /\ Slip > 0
      /\ Latency \in Nat /\ all \in Nat /\ Outage \in Nat /\ Outage = P - 1 + Latency + all
      /\ WaitLimit + 2 = GiveUp /\ WaitLimit \in Nat
  BY Constants, WatcherAssumption
<1>5. h \in Nat /\ P * (HeadFid + 1) = h + P /\ P * ((HeadFid + 1) - 1) = h
      /\ P * (HeadFid - 1) = h - P
  BY <1>3, <1>4
<1>6. Since' = now
  BY <1>1, <1>3 DEF Since
\* What is given up, after GiveUp polls, is missing or has just become so.
<1>7. /\ ~Ready => now = Since + GiveUp
      /\ HeadFid \in Missing => ~Ready /\ run = 1 /\ h <= disturbed
  <2>1. ~Ready => wait > WaitLimit
    OBVIOUS
  <2>2. ~Ready => now = Since + GiveUp
    BY <1>3, <1>4, <2>1
  <2>3. Ready => slot[out].picture # NoFrame
    BY DEF Ready
  <2>4. HeadFid \in Missing => ~Ready
    BY <2>3, ReadyTime
  <2>5. QED
    BY <1>0, <2>2, <2>4 DEF Accounted
<1>8. Accounted' /\ (HeadFid \in Missing => Spare' = Spare + 1)
      /\ (HeadFid \notin Missing => Spare' = Spare)
  <2>1. IsFiniteSet(Missing) /\ Cardinality(Missing) \in Nat /\ Spare = lost - Cardinality(Missing)
        /\ Cardinality(Missing) <= lost
    BY <1>0, MissingFinite DEF Accounted
  <2>2. Cardinality(Missing') = IF HeadFid \in Missing THEN Cardinality(Missing) - 1
                                                       ELSE Cardinality(Missing)
    BY <1>2, <2>1, FS_RemoveElement
  <2>3. Cardinality(Missing') <= lost
    BY <1>3, <2>1, <2>2
  <2>4. Accounted'
    BY <1>0, <1>1, <1>2, <2>3 DEF Accounted
  <2>5. Spare' = lost - Cardinality(Missing')
    BY <1>1 DEF Spare
  <2>6. QED
    BY <1>3, <2>1, <2>2, <2>4, <2>5
<1>9. spare \in Nat /\ spare1 \in Nat /\ (HeadFid \in Missing => spare1 = spare + Slip)
      /\ (HeadFid \notin Missing => spare1 = spare) /\ spare1 <= all
  <2>1. Spare \in Nat /\ spare <= lost * Slip /\ lost * Slip <= all
        /\ (HeadFid \in Missing => spare + Slip <= lost * Slip) /\ spare \in Nat
        /\ lost * Slip \in Nat
    BY <1>0, Spares
  <2>2. HeadFid \in Missing => spare1 = spare + Slip
    BY <1>4, <1>8, <2>1
  <2>3. HeadFid \notin Missing => spare1 = spare
    BY <1>8
  <2> HIDE DEF spare, spare1
  <2>4. QED
    BY <1>4, <2>1, <2>2, <2>3
<1>10. Runs' /\ OnSchedule' /\ Stamped' /\ Anchored'
  BY <1>0, <1>1 DEF Runs, OnSchedule, Stamped, Anchored, OfRunBefore
<1>11. /\ Since <= start + h + Latency + spare
       /\ wait > 0 /\ HeadFid \notin Missing => now <= start + h + Latency
  <2>1. /\ Since <= start + h + Latency + spare
        /\ wait > 0 /\ HeadFid \notin Missing => Since + wait < start + h + Latency
    BY <1>0 DEF Behind, Waits
  <2> HIDE DEF h, spare
  <2>2. QED
    BY <1>3, <1>4, <1>5, <2>1
<1>12. now <= start + h + P + Latency + spare1
  <2> HIDE DEF h, spare, spare1
  <2>1. CASE HeadFid \in Missing
    BY <1>3, <1>4, <1>5, <1>7, <1>9, <1>11, <2>1
  <2>2. CASE HeadFid \notin Missing /\ wait > 0
    BY <1>3, <1>4, <1>5, <1>9, <1>11, <2>2
  <2>3. CASE HeadFid \notin Missing /\ wait = 0
    BY <1>3, <1>4, <1>5, <1>9, <1>11, <2>3
  <2>4. QED
    BY <1>3, <2>1, <2>2, <2>3
<1>13. Behind' /\ Waits'
  <2>1. Behind' <=> now <= start + (P * (HeadFid + 1)) + Latency + spare1
    BY <1>1, <1>2, <1>6 DEF Behind
  <2> HIDE DEF h, spare1
  <2>2. now <= start + (h + P) + Latency + spare1
    BY <1>3, <1>4, <1>5, <1>9, <1>12
  <2>3. QED
    BY <1>1, <1>5, <2>1, <2>2 DEF Waits
<1>14. CatchesUp'
  <2> SUFFICES \/ now <= start + (h + P) + Latency
               \/ P * (now - disturbed - Outage) <= (h + P) - disturbed
    BY <1>1, <1>2, <1>5, <1>6 DEF CatchesUp
  <2>1. CASE HeadFid \in Missing
    <3> DEFINE w == now - disturbed - Outage
               z == h - disturbed
    <3>1. start = 0 /\ h <= disturbed
      BY <1>0, <1>7, <2>1 DEF Runs
    <3>2. w \in Int /\ z \in Int /\ z <= 0 /\ w <= z + 1
      <4> HIDE DEF h, spare1, all
      <4>1. QED
        BY <1>3, <1>4, <1>5, <1>9, <1>12, <3>1
    <3> HIDE DEF w, z
    <3>3. P * w <= P * (z + 1) /\ P * (z + 1) = (P * z) + P
      BY <1>4, <3>2, TimesMonotone
    <3>4. P * z <= 1 * z
      BY <1>4, <3>2, TimesNegative
    <3>5. P * w <= z + P
      BY <1>4, <3>2, <3>3, <3>4
    <3> HIDE DEF h
    <3>6. P * w <= (h + P) - disturbed
      BY <1>3, <1>4, <1>5, <3>5 DEF z
    <3>7. QED
      BY <3>6 DEF w
  <2>2. CASE HeadFid \notin Missing /\ wait > 0
    <3> HIDE DEF h
    <3>1. QED
      BY <1>3, <1>4, <1>5, <1>11, <2>2
  <2>3. CASE wait = 0
    <3> DEFINE w == Since - disturbed - Outage
    <3>1. now = Since + 1 /\ w \in Int /\ now - disturbed - Outage = w + 1
      BY <1>3, <1>4, <2>3
    <3>2. Since <= start + h + Latency \/ P * w <= h - disturbed
      BY <1>0 DEF CatchesUp
    <3>3. P * (w + 1) = (P * w) + P /\ P * w \in Int
      BY <1>4, <3>1
    <3> HIDE DEF h, w
    <3>4. now <= start + (h + P) + Latency \/ P * (w + 1) <= (h + P) - disturbed
      BY <1>3, <1>4, <1>5, <3>1, <3>2, <3>3
    <3>5. QED
      BY <3>1, <3>4
  <2>4. QED
    BY <1>3, <2>1, <2>2, <2>3
<1>15. ASSUME HeadFid >= sfid PROVE now <= start + h
  <2>1. P * sfid <= h /\ P * sfid \in Int /\ now <= start + (P * sfid)
    BY <1>0, <1>3, <1>4, <1>15, TimesMonotone DEF OnSchedule
  <2> HIDE DEF h
  <2>2. QED
    BY <1>3, <1>5, <2>1
<1>16. NotAhead'
  <2> SUFFICES ASSUME run = 1 PROVE HeadFid + 1 <= sfid /\ now >= h
    BY <1>1, <1>2, <1>5, <1>6 DEF NotAhead
  <2>1. start = 0 /\ HeadFid <= sfid
        /\ (Since >= h - P \/ (Since >= h - GiveUp /\ HeadFid < sfid))
    BY <1>0, <1>5 DEF Runs, NotAhead
  <2>2. CASE Ready
    <3>1. slot[out].picture # NoFrame
      BY <2>2 DEF Ready
    <3>2. HeadFid < sfid /\ now >= h
      BY <2>2, <3>1, ReadyTime DEF OfRunBefore
    <3>3. QED
      BY <1>3, <3>2
  <2>3. CASE ~Ready
    <3> HIDE DEF h
    <3>1. now >= h /\ (Since >= h - P => now > h)
      BY <1>3, <1>4, <1>5, <1>7, <2>1, <2>3
    <3>2. HeadFid < sfid
      BY <1>3, <1>5, <1>15, <2>1, <3>1
    <3>3. QED
      BY <1>3, <3>1, <3>2
  <2>4. QED
    BY <2>2, <2>3
<1>17. Overtaken'
  <2> DEFINE ahead1 == GiveUp * (h - start) <= P * (now - start)
  <2> SUFFICES ASSUME run = 2, HeadFid + 1 >= sfid
               PROVE  ahead1 \/ (HeadFid + 1 = sfid /\ now >= start + h)
    <3>1. LeadBound' <=> ahead1
      BY <1>1, <1>2, <1>5, <1>6 DEF LeadBound
    <3>2. HeadFid + 1 > sfid \/ HeadFid + 1 = sfid => HeadFid + 1 >= sfid
      BY <1>3
    <3>3. HeadFid + 1 > sfid => HeadFid + 1 # sfid
      BY <1>3
    <3> HIDE DEF ahead1, h
    <3>4. QED
      BY <1>1, <1>2, <1>5, <1>6, <3>1, <3>2, <3>3 DEF Overtaken, h
  <2>1. CASE HeadFid + 1 = sfid
    <3>1. sfid - 1 = HeadFid
      BY <1>3, <2>1
    <3>2. start + h <= now
      BY <1>0, <3>1 DEF OnSchedule
    <3> HIDE DEF h
    <3>3. QED
      BY <1>3, <1>5, <2>1, <3>2
  <2>2. CASE HeadFid >= sfid /\ Ready
    <3>1. slot[out].picture # NoFrame
      BY <2>2 DEF Ready
    <3>2. h <= start
      BY <1>3, <2>2, <3>1, ReadyTime DEF OfRunBefore
    <3> HIDE DEF h
    <3>3. start <= now /\ h - start \in Int /\ h - start <= 0 /\ now - start \in Nat
      BY <1>0, <1>3, <1>5, <3>2 DEF Timely
    <3>4. GiveUp * (h - start) <= 0 * (h - start)
      BY <1>4, <3>3, TimesNegative
    <3>5. P * (now - start) \in Nat
      BY <1>4, <3>3, Product
    <3>6. ahead1
      <4>1. 0 * (h - start) = 0 /\ GiveUp * (h - start) \in Int
        BY <1>4, <3>3
      <4>2. QED
        BY <3>4, <3>5, <4>1
    <3>7. QED
      BY <3>6
  <2>3. CASE HeadFid >= sfid /\ ~Ready
    <3> DEFINE x == (h - P) - start
               y == Since - start
    <3>1. now = Since + GiveUp
      BY <1>7, <2>3
    <3>2. LeadBound \/ Since >= start + (h - P)
      BY <1>0, <1>3, <1>5, <2>3 DEF Overtaken
    <3>3. ~(Since >= start + (h - P))
      <4>1. now <= start + h
        BY <1>15, <2>3
      <4> HIDE DEF h
      <4>2. QED
        BY <1>3, <1>4, <1>5, <3>1, <4>1
    <3>4. GiveUp * x <= P * y
      BY <1>5, <3>2, <3>3 DEF LeadBound
    <3> HIDE DEF h
    <3>5. x \in Int /\ y \in Int /\ h - start = x + P /\ now - start = y + GiveUp
      BY <1>3, <1>4, <1>5, <3>1
    <3> HIDE DEF x, y
    <3>6. GiveUp * (x + P) = (GiveUp * x) + (GiveUp * P)
          /\ P * (y + GiveUp) = (P * y) + (GiveUp * P)
          /\ GiveUp * x \in Int /\ P * y \in Int /\ GiveUp * P \in Int
      BY <1>4, <3>5
    <3>7. GiveUp * (x + P) <= P * (y + GiveUp)
      BY <3>4, <3>6
    <3>8. QED
      BY <3>5, <3>7
  <2>4. QED
    BY <1>3, <2>1, <2>2, <2>3
<1>18. QED
  BY <1>2, <1>8, <1>10, <1>13, <1>14, <1>16, <1>17 DEF Steady

LEMMA EmptyPollSteady ==
  ASSUME Typed, Steady, WatcherPolls, Ready \/ wait > WaitLimit, init = 1
  PROVE  Steady'
<1>0. /\ Runs /\ OnSchedule /\ Stamped /\ Filled /\ Anchored /\ Accounted
  BY DEF Steady
<1>1. /\ UNCHANGED <<now, init, out, slot, init_stream_ts, init_receiver_ts, net, run, start,
                     sfid, lost, disturbed>>
      /\ init' = 1
  BY DEF WatcherPolls, Poll, Dequeue, streamerVars
<1>2. HeadFid' = HeadFid /\ Missing' = Missing
  BY <1>1 DEF HeadFid, Missing, Kept
<1>3. Runs' /\ OnSchedule' /\ Stamped' /\ Filled' /\ Anchored' /\ Accounted'
  BY <1>0, <1>1, <1>2
     DEF Runs, OnSchedule, Stamped, Filled, Anchored, Accounted, OfRunBefore
<1>4. Behind' /\ Waits' /\ CatchesUp' /\ NotAhead' /\ Overtaken'
  BY <1>1 DEF Behind, Waits, CatchesUp, NotAhead, Overtaken
<1>5. QED
  BY <1>3, <1>4 DEF Steady

LEMMA RecoveringInit == Init => Recovering
<1> SUFFICES ASSUME Init PROVE Recovering
  OBVIOUS
<1>1. /\ now = 0 /\ init = 1 /\ out = 0 /\ slot = [q \in Slots |-> Cleared(0)]
      /\ run = 1 /\ start = 0 /\ sfid = 0 /\ streamer = "running"
      /\ net = {} /\ lost = 0 /\ disturbed = 0
  BY DEF Init, WatcherInit
<1>2. Typed /\ InTime /\ KnownOrOld
  BY InitTyped DEF Init, InTime, KnownOrOld
<1>3. P \in Nat /\ P * (0 - 1) \in Int /\ P * (0 - 1) <= 0 /\ P * 0 = 0
  BY Constants
<1>4. Runs /\ OnSchedule /\ Stamped /\ Filled /\ Anchored
  BY <1>1, <1>3 DEF Runs, OnSchedule, Stamped, Filled, Anchored
<1>5. Accounted
  <2>1. HeadFid = 0
    BY <1>1, WatcherAssumption DEF HeadFid, Slots, Cleared
  <2>2. Missing = {}
    BY <1>1, <2>1 DEF Missing
  <2>3. QED
    BY <1>1, <2>2, FS_EmptySet DEF Accounted
<1>6. Behind /\ Waits /\ CatchesUp /\ NotAhead /\ Overtaken
  BY <1>1 DEF Behind, Waits, CatchesUp, NotAhead, Overtaken
<1>7. QED
  BY <1>1, <1>2, <1>4, <1>5, <1>6 DEF Recovering, Steady

LEMMA RecoveringStep == Recovering /\ [Next]_vars => Recovering'
<1> SUFFICES ASSUME Recovering, [Next]_vars PROVE Recovering'
  OBVIOUS
<1>1. Typed /\ InTime /\ KnownOrOld /\ run \in {1, 2}
  BY Numbers DEF Recovering, Typed
<1>2. Typed' /\ InTime' /\ KnownOrOld'
  BY <1>1, TypedStep, NetStep
\* In the first run no feedback ends the streamer.
<1>3. run' = 1 => streamer' = "running"
  <2> SUFFICES ASSUME run' = 1 PROVE streamer' = "running"
    OBVIOUS
  <2>1. CASE Deliver \/ Overlap
    <3>1. PICK p \in net : PacketFeedback(p)
      BY <2>1 DEF Deliver, Overlap
    <3>2. run = 1 /\ p.fid < sfid /\ streamer = "running"
      BY <1>1, <2>1 DEF Deliver, Overlap, KnownOrOld, Recovering
    <3>3. QED
      BY <3>1, <3>2 DEF PacketFeedback
  <2>2. CASE Restart
    BY <2>2 DEF Restart
  <2>3. CASE Send \/ WatcherPolls \/ WatcherEnds \/ Tick \/ UNCHANGED vars
    <3>1. run' = run /\ streamer' = streamer
      BY <2>3 DEF Send, WatcherPolls, WatcherEnds, Tick, vars, castVars, streamerVars
    <3>2. QED
      BY <3>1 DEF Recovering
  <2>4. QED
    BY <2>1, <2>2, <2>3 DEF Next
<1>4. ASSUME streamer' = "running", races' = 0 PROVE Steady'
  <2>1. CASE Restart
    <3>1. run = 1 /\ races = 0
      BY <1>1, <1>4, <2>1, CastAssumption DEF Restart
    <3>2. Steady
      BY <3>1 DEF Recovering
    <3>3. QED
      BY <1>1, <2>1, <3>1, <3>2, RestartSteady
  <2>2. CASE Deliver
    <3>1. streamer = "running" => Steady
      BY <1>4, <2>2 DEF Recovering, Deliver
    <3>2. CASE streamer = "running"
      BY <1>1, <1>4, <2>2, <3>1, <3>2, DeliverSteady
    <3>3. CASE streamer # "running"
      <4>1. PICK p \in net : PacketFeedback(p)
        BY <2>2 DEF Deliver
      <4>2. QED
        BY <1>4, <3>3, <4>1 DEF PacketFeedback
    <3>4. QED
      BY <3>2, <3>3
  <2>3. CASE Send \/ WatcherPolls \/ WatcherEnds \/ Tick \/ UNCHANGED vars
    <3>1. streamer' = streamer /\ races' = races
      BY <2>3 DEF Send, WatcherPolls, WatcherEnds, Tick, vars, castVars, streamerVars
    <3>2. streamer = "running" /\ Steady
      BY <1>4, <3>1 DEF Recovering
    <3>3. CASE Send
      BY <1>1, <3>2, <3>3, SendSteady
    <3>4. CASE WatcherPolls
      <4>1. CASE ~(Ready \/ wait > WaitLimit)
        BY <1>1, <3>2, <3>4, <4>1, PollWaitsSteady
      <4>2. CASE Ready \/ wait > WaitLimit
        <5>1. init = 0 \/ init = 1
          BY <1>1, Numbers DEF Typed
        <5>2. QED
          BY <1>1, <3>2, <3>4, <4>2, <5>1, DequeueSteady, EmptyPollSteady
      <4>3. QED
        BY <4>1, <4>2
    <3>5. CASE WatcherEnds \/ Tick \/ UNCHANGED vars
      BY <1>1, <3>2, <3>5, QuietSteady
    <3>6. QED
      BY <2>3, <3>3, <3>4, <3>5
  <2>4. CASE Overlap
    BY <1>1, <1>4, <2>4 DEF Overlap, Typed, TypeOK
  <2>5. QED
    BY <2>1, <2>2, <2>3, <2>4 DEF Next
<1>5. QED
  BY <1>2, <1>3, <1>4 DEF Recovering

-----------------------------------------------------------------------------
(* Recovery: what the invariant says RecoverTicks after a disturbance.     *)

LEMMA NextMultiple ==
  ASSUME NEW a \in Nat, a >= 1, NEW d \in Nat
  PROVE  \E g \in Nat : d < a * g /\ a * g <= d + a
<1>1. /\ d \div a \in Nat /\ d % a \in Nat /\ d % a < a
      /\ d = (a * (d \div a)) + (d % a)
  OBVIOUS
<1> DEFINE g == (d \div a) + 1
<1>2. g \in Nat /\ a * g = (a * (d \div a)) + a
  BY <1>1
<1>3. d < a * g /\ a * g <= d + a
  BY <1>1, <1>2
<1>4. QED
  BY <1>2, <1>3

LEMMA RecoveryConstants ==
  /\ MaxLag \in Nat /\ P * (MaxLag - 1) > Latency
  /\ RecoverTicks \in Nat /\ RecoverTicks > Outage + 1
  /\ (P - 1) * RecoverTicks >= P * (Outage + 2 - MaxLag)
  /\ MaxRuns = 2 => (GiveUp + Slip) * RecoverTicks > GiveUp * Horizon
  /\ MaxRuns \in {1, 2} /\ Horizon \in Nat
BY CastAssumption, RecoveryAssumption DEF P

\* The ring has had its first packet.
LEMMA RingFilled ==
  ASSUME Recovering, streamer = "running", races = 0, now >= disturbed + RecoverTicks
  PROVE  init = 0
<1> SUFFICES ASSUME init = 1 PROVE FALSE
  BY Numbers DEF Recovering, Typed
<1>0. Runs /\ OnSchedule /\ Stamped /\ Filled /\ Accounted /\ TypeOK /\ InTime
  BY DEF Recovering, Steady, Typed
<1>1. /\ now \in Nat /\ start \in Nat /\ sfid \in Nat /\ disturbed \in Nat /\ start <= disturbed
      /\ P \in Nat /\ P >= 1 /\ Latency \in Nat /\ Latency = MaxDelay + Delay + 1
      /\ MaxDelay \in Nat /\ Delay \in Nat /\ MaxLost * Slip \in Nat
      /\ Outage = P - 1 + Latency + (MaxLost * Slip)
      /\ RecoverTicks \in Nat /\ RecoverTicks > Outage + 1
  BY <1>0, Numbers, Constants, RecoveryConstants DEF Runs
<1>2. now > disturbed + P + MaxDelay
  <2> DEFINE all == MaxLost * Slip
  <2> HIDE DEF all
  <2>1. all \in Nat /\ Outage = P - 1 + Latency + all
    BY <1>1 DEF all
  <2>2. QED
    BY <1>1, <2>1
<1>3. PICK g \in Nat : disturbed - start < P * g /\ P * g <= (disturbed - start) + P
  <2>1. disturbed - start \in Nat
    BY <1>1
  <2>2. QED
    BY <1>1, <2>1, NextMultiple
<1>4. P * g \in Nat /\ start + (P * g) <= disturbed + P /\ disturbed < start + (P * g)
  <2>1. P * g \in Nat
    BY <1>1
  <2>2. QED
    BY <1>1, <1>3, <2>1
<1>5. g < sfid
  <2>1. now <= start + (P * sfid) /\ P * sfid \in Nat
    BY <1>0, <1>1 DEF OnSchedule
  <2>2. P * g < P * sfid
    BY <1>1, <1>2, <1>4, <2>1
  <2>3. QED
    BY <1>1, <2>2, TimesCancel
<1>6. g \notin Missing
  <2>1. g \in Missing => start = 0 /\ P * g <= disturbed
    BY <1>0 DEF Accounted, Runs
  <2>2. QED
    BY <1>1, <1>4, <2>1
<1>7. HeadFid = 0 /\ \A q \in Slots : slot[q].picture = NoFrame
  BY <1>0 DEF Filled, HeadFid, Cleared, TypeOK
<1>8. Kept(g)
  BY <1>1, <1>5, <1>6, <1>7 DEF Missing
<1>9. PICK p \in net : p.fid = g
  BY <1>7, <1>8 DEF Kept, NoFrame
<1>10. p.sent \in Nat /\ now - p.sent <= MaxDelay /\ p.sent \in {P * g, start + (P * g)}
  BY <1>0, <1>9, PacketType DEF InTime, Stamped
<1>11. now <= start + (P * g) + MaxDelay
  BY <1>1, <1>4, <1>10
<1>12. QED
  BY <1>1, <1>2, <1>4, <1>11

LEMMA NotFarBehind ==
  ASSUME Recovering, streamer = "running", races = 0, now >= disturbed + RecoverTicks, init = 0
  PROVE  sfid - MaxLag <= HeadFid
<1> DEFINE h == P * HeadFid
           s == P * (sfid - 1)
           l == P * (MaxLag - 1)
           all == MaxLost * Slip
           spare == Spare * Slip
<1>0. /\ Runs /\ OnSchedule /\ Accounted /\ Behind /\ Waits /\ CatchesUp /\ TypeOK
  BY DEF Recovering, Steady, Typed
<1>1. /\ now \in Nat /\ start \in Nat /\ sfid \in Nat /\ disturbed \in Nat /\ start <= disturbed
      /\ HeadFid \in Nat /\ lost \in Nat /\ Since \in Int /\ now <= Since + wait + 1
      /\ wait \in Nat /\ wait <= GiveUp - 1
  BY <1>0, Numbers DEF Runs
<1>2. /\ P \in Nat /\ P >= 1 /\ Latency \in Nat /\ all \in Nat /\ Slip \in Nat
      /\ Outage = P - 1 + Latency + all /\ Outage \in Nat /\ GiveUp = P + Slip
      /\ MaxLag \in Nat /\ l > Latency /\ RecoverTicks \in Nat /\ RecoverTicks > Outage + 1
  BY Constants, RecoveryConstants
<1>3. /\ h \in Nat /\ s \in Int /\ l \in Int /\ start + s <= now
  BY <1>0, <1>1, <1>2 DEF OnSchedule
\* With the stream.
<1>4. ASSUME now <= start + h + Latency + 1 PROVE sfid - MaxLag <= HeadFid
  <2>1. P * (HeadFid + MaxLag) = h + l + P
    BY <1>1, <1>2
  <2>2. P * (sfid - 1) < P * (HeadFid + MaxLag)
    <3> HIDE DEF h, l, s
    <3>1. s < h + l + P
      BY <1>1, <1>2, <1>3, <1>4
    <3>2. QED
      BY <2>1, <3>1 DEF s
  <2>3. sfid - 1 < HeadFid + MaxLag
    BY <1>1, <1>2, <2>2, TimesCancel
  <2>4. QED
    BY <1>1, <1>2, <2>3
<1>5. CASE HeadFid \in Missing
  <2>1. start = 0 /\ h <= disturbed
    BY <1>0, <1>5 DEF Accounted, Runs
  <2>2. spare + Slip <= all /\ spare \in Nat
    <3> DEFINE l2 == lost * Slip
    <3>1. spare + Slip <= l2 /\ l2 <= all /\ spare \in Nat /\ l2 \in Nat
      BY <1>0, <1>5, Spares
    <3> HIDE DEF l2, spare, all
    <3>2. QED
      BY <1>2, <3>1
  <2>3. Since <= start + h + Latency + spare
    BY <1>0 DEF Behind
  <2> HIDE DEF h, spare, all
  <2>4. FALSE
    BY <1>1, <1>2, <1>3, <2>1, <2>2, <2>3
  <2>5. QED
    BY <2>4
<1>6. CASE HeadFid \notin Missing /\ wait > 0
  <2>1. Since + wait < start + h + Latency
    BY <1>0, <1>6 DEF Waits
  <2> HIDE DEF h
  <2>2. now <= start + h + Latency + 1
    BY <1>1, <1>2, <1>3, <2>1
  <2>3. QED
    BY <1>4, <2>2 DEF h
<1>7. CASE wait = 0
  <2> DEFINE r == now - disturbed
             w == Since - disturbed - Outage
  <2>1. Since <= start + h + Latency \/ P * w <= h - disturbed
    BY <1>0 DEF CatchesUp
  <2>2. CASE Since <= start + h + Latency
    <3> HIDE DEF h
    <3>1. now <= start + h + Latency + 1
      BY <1>1, <1>2, <1>3, <1>7, <2>2
    <3>2. QED
      BY <1>4, <3>1 DEF h
  <2>3. CASE P * w <= h - disturbed
    <3>1. r \in Int /\ r >= RecoverTicks /\ w \in Int /\ r - 1 - Outage <= w /\ r \in Nat
      BY <1>1, <1>2, <1>7
    <3> HIDE DEF r, w
    <3>2. P * (r - 1 - Outage) <= P * w
      BY <1>2, <3>1, TimesMonotone
    <3>3. P * (r - 1 - Outage) = (P * r) - P - (P * Outage) /\ P * r \in Int
          /\ P * Outage \in Int /\ P * w \in Int
      BY <1>2, <3>1
    <3>4. (P - 1) * RecoverTicks <= (P - 1) * r /\ (P - 1) * r = (P * r) - r
          /\ (P - 1) * RecoverTicks \in Int
      BY <1>2, <3>1, TimesMonotone
    <3>5. (P - 1) * RecoverTicks >= P * (Outage + 2 - MaxLag)
      BY RecoveryConstants
    <3>6. P * (Outage + 2 - MaxLag) = (P * Outage) + P + P - (P * MaxLag) /\ P * MaxLag \in Int
      BY <1>2
    <3>7. s <= disturbed + r
      <4> HIDE DEF s
      <4>1. QED
        BY <1>1, <1>3 DEF r
    <3>8. P * (sfid - 1) <= (h + (P * MaxLag)) - P
      <4> DEFINE pr == P * r
                 po == P * Outage
                 pm == P * MaxLag
                 pw == P * w
                 pt == (P - 1) * RecoverTicks
      <4>1. /\ s <= disturbed + r /\ pw <= h - disturbed /\ pr - P - po <= pw
            /\ pt <= pr - r /\ pt >= po + P + P - pm
            /\ pr \in Int /\ po \in Int /\ pm \in Int /\ pw \in Int /\ pt \in Int
        BY <2>3, <3>2, <3>3, <3>4, <3>5, <3>6, <3>7
      <4> HIDE DEF pr, po, pm, pw, pt, s, h
      <4>2. s <= (h + pm) - P
        BY <1>1, <1>2, <1>3, <3>1, <4>1
      <4>3. QED
        BY <4>2 DEF s, pm
    <3>9. P * (HeadFid + MaxLag) = h + (P * MaxLag)
      BY <1>1, <1>2
    <3>10. P * (sfid - 1) < P * (HeadFid + MaxLag)
      BY <1>2, <1>3, <3>6, <3>8, <3>9
    <3>11. sfid - 1 < HeadFid + MaxLag
      BY <1>1, <1>2, <3>10, TimesCancel
    <3>12. QED
      BY <1>1, <1>2, <3>11
  <2>4. QED
    BY <2>1, <2>2, <2>3
<1>8. QED
  BY <1>1, <1>5, <1>6, <1>7

LEMMA NotFarAhead ==
  ASSUME Recovering, streamer = "running", races = 0, now >= disturbed + RecoverTicks, init = 0
  PROVE  HeadFid <= sfid
<1>0. Runs /\ OnSchedule /\ NotAhead /\ Overtaken /\ TypeOK
  BY DEF Recovering, Steady, Typed
<1>1. /\ now \in Nat /\ start \in Nat /\ sfid \in Nat /\ HeadFid \in Nat /\ Since \in Int
      /\ wait \in Nat /\ Since + wait <= now /\ run \in {1, 2} /\ now <= Horizon /\ Horizon \in Nat
      /\ run = 2 => MaxRuns = 2
  BY <1>0, Numbers, CastAssumption DEF TypeOK
<1>2. CASE run = 1
  BY <1>0, <1>2 DEF NotAhead
<1>3. CASE run = 2
  <2> SUFFICES ASSUME HeadFid > sfid PROVE FALSE
    BY <1>1
  <2> DEFINE x == (P * (HeadFid - 1)) - start
             u == now - start
  <2>1. /\ P \in Nat /\ P >= 1 /\ GiveUp \in Nat /\ Slip \in Nat /\ GiveUp = P + Slip
        /\ RecoverTicks \in Nat /\ (GiveUp + Slip) * RecoverTicks > GiveUp * Horizon
        /\ u >= RecoverTicks /\ u \in Nat
    BY <1>0, <1>1, <1>3, Constants, RecoveryConstants DEF Runs
  <2>2. GiveUp * x <= P * (Since - start)
    BY <1>0, <1>3 DEF Overtaken, LeadBound
  <2>3. P * (Since - start) <= P * u
    <3>1. Since - start <= u /\ Since - start \in Int
      BY <1>1
    <3>2. QED
      BY <2>1, <3>1, TimesMonotone
  <2>4. x >= u - start /\ x \in Int
    <3>1. P * sfid <= P * (HeadFid - 1) /\ P * sfid \in Int /\ P * (HeadFid - 1) \in Int
      BY <1>1, <2>1, TimesMonotone
    <3>2. now <= start + (P * sfid)
      BY <1>0 DEF OnSchedule
    <3>3. QED
      BY <1>1, <3>1, <3>2
  <2> HIDE DEF x
  <2>5. GiveUp * (u - start) <= P * u
    <3>1. GiveUp * (u - start) <= GiveUp * x
      BY <1>1, <2>1, <2>4, TimesMonotone
    <3>2. GiveUp * (u - start) \in Int /\ GiveUp * x \in Int /\ P * (Since - start) \in Int
          /\ P * u \in Int
      BY <1>1, <2>1, <2>4
    <3>3. QED
      BY <2>2, <2>3, <3>1, <3>2
  <2>6. (GiveUp + Slip) * u <= GiveUp * now
    <3>1. u - start = u + u - now
      BY <1>1
    <3> HIDE DEF u
    <3>2. GiveUp * (u + u - now) = (GiveUp * u) + (GiveUp * u) - (GiveUp * now)
      BY <1>1, <2>1
    <3>3. (GiveUp + Slip) * u = (GiveUp * u) + (GiveUp * u) - (P * u)
      BY <2>1
    <3>4. GiveUp * u \in Int /\ GiveUp * now \in Int /\ P * u \in Int
      BY <1>1, <2>1
    <3>5. QED
      BY <2>5, <3>1, <3>2, <3>3, <3>4
  <2>7. GiveUp * now <= GiveUp * Horizon
    BY <1>1, <2>1, TimesMonotone
  <2>8. (GiveUp + Slip) * RecoverTicks <= (GiveUp + Slip) * u
    BY <2>1, TimesMonotone
  <2>9. QED
    <3> DEFINE a == (GiveUp + Slip) * RecoverTicks
               b == GiveUp * Horizon
               c == (GiveUp + Slip) * u
               d == GiveUp * now
    <3>1. a \in Int /\ b \in Int /\ c \in Int /\ d \in Int
      BY <1>1, <2>1
    <3>2. a > b /\ a <= c /\ c <= d /\ d <= b
      BY <2>1, <2>6, <2>7, <2>8
    <3> HIDE DEF a, b, c, d
    <3>3. QED
      BY <3>1, <3>2
<1>4. QED
  BY <1>1, <1>2, <1>3

\* After an outage the playout comes back to the stream, and after a restart
\* the stream catches up with the playout, for every ring, delay, loss and pace
\* that RecoveryAssumption allows, until a dequeue falls into an enqueue: every frame given up costs Slip polls, and
\* every poll after that plays a frame until the head is with the stream.
THEOREM RecoversHolds == Spec => []Recovers
<1>1. Init => Recovering
  BY RecoveringInit
<1>2. Recovering /\ [Next]_vars => Recovering'
  BY RecoveringStep
<1>3. Recovering => Recovers
  BY RingFilled, NotFarBehind, NotFarAhead DEF Recovers
<1>4. QED
  BY <1>1, <1>2, <1>3, PTL DEF Spec

\* A frame is sent at its time, and then the ring has room for it.
LEMMA SendInRing ==
  ASSUME TypeOK, Accounted, Behind, Waits, Due
  PROVE  ~Ahead(sfid)
<1> SUFFICES ASSUME init = 0 PROVE sfid < HeadFid + Size
  BY Numbers, WatcherAssumption DEF Ahead
<1> DEFINE h == P * HeadFid
           s == P * sfid
           c == P * (Size - 1)
           l == lost * Slip
           all == MaxLost * Slip
<1>1. now <= start + h + P + Latency + l /\ now = start + s
  BY HeadInTime DEF Due, P
<1>2. l <= all /\ l \in Nat
  BY Spares
<1>3. /\ P \in Nat /\ P >= 1 /\ Latency \in Nat /\ all \in Nat /\ c > Latency + all
      /\ Size \in Nat /\ now \in Nat /\ start \in Nat /\ sfid \in Nat /\ HeadFid \in Nat
  BY Constants, WatcherAssumption, Numbers
<1>4. P * (HeadFid + Size) = h + P + c /\ h \in Nat /\ s \in Nat /\ c \in Int
  BY <1>3
<1>5. s < P * (HeadFid + Size)
  <2> HIDE DEF h, s, c, l, all
  <2>1. s < h + P + c
    BY <1>1, <1>2, <1>3, <1>4
  <2>2. QED
    BY <1>4, <2>1
<1>6. QED
  BY <1>3, <1>5, TimesCancel

LEMMA LappedStep ==
  ASSUME Recovering, NeverLapped, [Next]_vars
  PROVE  NeverLapped'
<1> SUFFICES ASSUME streamer' = "running", races' = 0 PROVE ~lapped'
  BY DEF NeverLapped
<1>1. TypeOK /\ run \in {1, 2}
  BY Numbers DEF Recovering, Typed
<1>2. CASE Restart
  <2>1. run = 1
    BY <1>1, <1>2, CastAssumption DEF Restart
  <2>2. QED
    BY <1>2, <2>1 DEF Restart, Recovering, NeverLapped
<1>3. CASE Send
  <2>1. streamer = "running" /\ races = 0 /\ Due /\ lapped' = (lapped \/ Ahead(sfid))
    BY <1>3 DEF Send, Due
  <2>2. ~Ahead(sfid)
    BY <1>1, <2>1, SendInRing DEF Recovering, Steady
  <2>3. QED
    BY <2>1, <2>2 DEF NeverLapped
<1>4. CASE Deliver
  <2>1. PICK p \in net : PacketFeedback(p) /\ lapped' = (lapped \/ Ahead(p.fid))
    BY <1>4 DEF Deliver
  <2>2. streamer = "running" /\ p.fid < sfid /\ races = 0
    BY <1>4, <2>1 DEF PacketFeedback, Deliver
  <2>3. init = 0 => sfid <= HeadFid + Size
    BY <1>1, <2>2, RingHolds DEF Recovering, Steady
  <2>4. ~Ahead(p.fid)
    <3>1. p.fid \in Nat /\ sfid \in Nat /\ HeadFid \in Nat /\ Size \in Nat
      BY <1>1, PacketType, Numbers, WatcherAssumption
    <3>2. QED
      BY <2>2, <2>3, <3>1 DEF Ahead
  <2>5. QED
    BY <2>1, <2>2, <2>4 DEF NeverLapped
<1>5. CASE WatcherPolls \/ WatcherEnds \/ Tick \/ UNCHANGED vars
  BY <1>5 DEF WatcherPolls, WatcherEnds, Tick, vars, castVars, streamerVars, NeverLapped
<1>6. CASE Overlap
  BY <1>1, <1>6 DEF Overlap, TypeOK
<1>7. QED
  BY <1>2, <1>3, <1>4, <1>5, <1>6 DEF Next

\* The stream never gets a whole ring ahead of the playout, for every ring that
\* RecoveryAssumption allows: an outage costs Slip polls for every frame lost,
\* and these, with the delays, are less than the ring holds.  A packet that is
\* lost to a race of the two threads is not counted, so it is until the first.
THEOREM NeverLappedHolds == Spec => []NeverLapped
<1>1. Init => Recovering /\ NeverLapped
  BY RecoveringInit DEF Init, NeverLapped
<1>2. Recovering /\ NeverLapped /\ [Next]_vars => (Recovering /\ NeverLapped)'
  BY RecoveringStep, LappedStep
<1>3. QED
  BY <1>1, <1>2, PTL DEF Spec

\* So, within RecoveryAssumption, nothing but a race of the two threads takes the
\* pictures of the first run back in time.
THEOREM FirstRunNeverBack == Spec => [][run' = 1 /\ races' = 0 => screen' >= screen]_vars
<1>1. /\ Recovering /\ NeverLapped /\ Recovering' /\ NeverLapped'
      /\ [run' = 1 /\ ~lapped' /\ races' = 0 => screen' >= screen]_vars
      => [run' = 1 /\ races' = 0 => screen' >= screen]_vars
  BY DEF Recovering, NeverLapped
<1>2. Init => Recovering /\ NeverLapped
  BY RecoveringInit DEF Init, NeverLapped
<1>3. Recovering /\ NeverLapped /\ [Next]_vars => (Recovering /\ NeverLapped)'
  BY RecoveringStep, LappedStep
<1>4. Spec => [][run' = 1 /\ ~lapped' /\ races' = 0 => screen' >= screen]_vars
  BY NeverBackHolds DEF NeverBack
<1>5. QED
  BY <1>1, <1>2, <1>3, <1>4, PTL DEF Spec
=============================================================================
