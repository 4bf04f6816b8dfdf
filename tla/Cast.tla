-------------------------------- MODULE Cast --------------------------------
(***************************************************************************)
(* Streamer, network and watcher together, with a clock.  The streamer     *)
(* sends a frame every PollsPerFrame polls of the watcher's renderer; the  *)
(* network delays a packet by up to MaxDelay polls, and so reorders it,    *)
(* may deliver it more than once, and loses up to MaxLost of them, in a    *)
(* row or not; the streamer may be started again once, and then counts its *)
(* frames from 0.  The feedback of a packet is on its way for no time, so  *)
(* that MaxDelay is that of the round trip where feedback is concerned.    *)
(***************************************************************************)
EXTENDS Watcher, FiniteSets

CONSTANTS
  PollsPerFrame,   \* the streamer's period (66)
  MaxDelay,        \* polls a packet may be under way
  MaxLost,         \* bound: packets lost in a behaviour
  MaxRaces,        \* bound: enqueues that a dequeue falls into
  RaceBy,          \* bound: polls until the last of these
  Horizon,         \* bound: polls in a behaviour
  QuitBy,          \* bound: polls until the user ends the watcher, if ever
  MaxRuns,         \* bound: 2 when the streamer may be started again
  RecoverTicks,    \* polls the playout may take to recover
  MaxLag           \* frames the playout is behind the stream then

ASSUME CastAssumption ==
  /\ PollsPerFrame \in Nat \ {0} /\ MaxDelay \in Nat /\ MaxLost \in Nat
  /\ MaxRaces \in Nat /\ RaceBy \in Nat
  /\ Horizon \in Nat /\ MaxRuns \in {1, 2}
  /\ QuitBy \in Nat /\ RecoverTicks \in Nat /\ MaxLag \in Nat

\* The polls between one frame given up and the next, and how much more that is
\* than a frame of the stream takes.
GiveUp == WaitLimit + 2
Slip == GiveUp - PollsPerFrame

\* A frame that is not lost is played before this many polls after it was sent.
Latency == MaxDelay + Delay + 1

\* How far playout and stream can be apart when all that is lost is given up.
Outage == PollsPerFrame - 1 + Latency + MaxLost * Slip

\* What Recovers takes: giving up is slower than the stream, the ring holds an
\* outage, and RecoverTicks and MaxLag leave the time to come back from it.  A
\* stream that starts from 0 again comes up with the playout only if it is
\* given time in proportion to what it ran before.
ASSUME RecoveryAssumption ==
  /\ Slip > 0
  /\ PollsPerFrame * (Size - 1) > Latency + MaxLost * Slip
  /\ PollsPerFrame * (MaxLag - 1) > Latency
  /\ RecoverTicks > Outage + 1
  /\ (PollsPerFrame - 1) * RecoverTicks >= PollsPerFrame * (Outage + 2 - MaxLag)
  /\ MaxRuns = 2 => (GiveUp + Slip) * RecoverTicks > GiveUp * Horizon

VARIABLES
  polled,            \* the renderer had its poll at this time
  run, start, sfid,  \* streamer: which run, when started, next frame
  streamer,          \* "running", or "crashed" by a feedback
  net,               \* packets under way
  lost, disturbed,   \* packets lost; when the last one was, or the restart
  races,             \* enqueues that a dequeue fell into
  lapped             \* the stream was Size frames ahead of the playout

streamerVars == <<run, start, sfid, streamer>>
castVars == <<polled, streamerVars, net, lost, disturbed, races, lapped>>
vars == <<watcherVars, castVars>>

Init ==
  /\ WatcherInit
  /\ polled = FALSE
  /\ run = 1 /\ start = 0 /\ sfid = 0 /\ streamer = "running"
  /\ net = {} /\ lost = 0 /\ disturbed = 0 /\ races = 0 /\ lapped = FALSE

\* The next frame is due; a packet that has been under way for MaxDelay is, too.
Due == streamer = "running" /\ now = start + PollsPerFrame * sfid
Overdue == {p \in net : now - p.sent >= MaxDelay}

Ahead(f) == init = 0 /\ f - HeadFid >= Size

\* streamer_thread(): the frame's row and packet table, then its packet, which
\* the network takes or loses.
Send ==
  /\ Due
  /\ \/ /\ net' = net \cup {[fid |-> sfid, sent |-> now, timestamp |-> now - start + 1]}
        /\ UNCHANGED <<lost, disturbed>>
     \/ /\ lost < MaxLost /\ run = 1
        /\ lost' = lost + 1 /\ disturbed' = now
        /\ UNCHANGED net
  /\ sfid' = sfid + 1
  /\ lapped' = (lapped \/ Ahead(sfid))
  /\ UNCHANGED <<watcherVars, polled, run, start, streamer, races>>

\* The packet table looked up is that of the frame after.
PacketFeedbackNext(p) ==
  streamer' = IF p.fid + 1 < sfid THEN streamer ELSE "crashed"

\* The packet feedback of p at the streamer: it follows the packet table of
\* p's frame, which is NULL when this run has not come to that frame yet.
PacketFeedback(p) ==
  streamer' = IF p.fid < sfid THEN streamer ELSE "crashed"

\* The packet arrives, and perhaps not for the last time.
Deliver ==
  /\ \E p \in net :
       /\ Receive(p)
       /\ PacketFeedback(p)
       /\ net' \in {net, net \ {p}}
       /\ lapped' = (lapped \/ Ahead(p.fid))
  /\ UNCHANGED <<polled, run, start, sfid, lost, disturbed, races>>

\* It arrives just as the renderer takes a frame.
Overlap ==
  /\ ~polled /\ races < MaxRaces /\ now <= RaceBy
  /\ \E p \in net :
       /\ EnqueueAcrossDequeue(p)
       /\ PacketFeedback(p)
       /\ net' \in {net, net \ {p}}
       /\ lapped' = (lapped \/ Ahead(p.fid))
  /\ polled' = TRUE
  /\ races' = races + 1
  /\ UNCHANGED <<run, start, sfid, lost, disturbed>>

\* The streamer was ended, or has crashed, and is started again.
Restart ==
  /\ run < MaxRuns /\ lost = 0
  /\ run' = run + 1 /\ start' = now /\ sfid' = 0 /\ streamer' = "running"
  /\ disturbed' = now
  /\ UNCHANGED <<watcherVars, polled, net, lost, races, lapped>>

WatcherPolls ==
  /\ ~polled
  /\ Poll
  /\ polled' = TRUE
  /\ UNCHANGED <<streamerVars, net, lost, disturbed, races, lapped>>

WatcherEnds ==
  /\ (Escape /\ now <= QuitBy) \/ Kill
  /\ UNCHANGED castVars

Tick ==
  /\ polled /\ ~Due /\ Overdue = {} /\ now < Horizon
  /\ now' = now + 1
  /\ polled' = FALSE
  /\ UNCHANGED <<bufferVars, receiver, rendererVars, main, stop_receiver,
                 streamerVars, net, lost, disturbed, races, lapped>>

Next ==
  \/ Send \/ Deliver \/ Overlap \/ Restart \/ WatcherPolls \/ WatcherEnds \/ Tick

Spec == Init /\ [][Next]_vars

\* Once the user has ended the program, the main thread goes on.
FairSpec == Spec /\ WF_vars(WatcherEnds /\ main = "kill")

-----------------------------------------------------------------------------
(* Properties.                                                             *)

\* The variables keep their ranges; the position is always one of a slot.
TypeOK ==
  /\ now \in 0 .. Horizon
  /\ init \in {0, 1} /\ out \in Slots
  /\ slot \in [Slots -> [fid : Nat, timestamp : Nat, picture : Nat \cup {NoFrame}]]
  /\ init_stream_ts \in Nat /\ init_receiver_ts \in Nat
  /\ receiver \in {"recvfrom", "done"}
  /\ wait \in 0 .. WaitLimit + 1 /\ screen \in Nat \cup {NoFrame}
  /\ main \in {"show", "kill", "dead"} /\ stop_receiver \in BOOLEAN
  /\ polled \in BOOLEAN /\ run \in 1 .. MaxRuns /\ start \in Nat /\ sfid \in Nat
  /\ streamer \in {"running", "crashed"}
  /\ net \subseteq [fid : Nat, sent : Nat, timestamp : Nat]
  /\ lost \in 0 .. MaxLost /\ disturbed \in 0 .. Horizon
  /\ races \in 0 .. MaxRaces /\ lapped \in BOOLEAN

\* After an outage the playout comes back to the stream, and after a restart
\* the stream catches up with the playout: RecoverTicks after the last packet
\* was lost, or after the restart, the frame to play is again one the streamer
\* sent at most MaxLag frames ago, or the next.  It is so for as many packets
\* lost in a row as the giving up (wait > period * 10 / 1000) can make good, and
\* as long as no enqueue was overlapped by a dequeue: that may cost packets that
\* the network has delivered.
Recovers ==
  streamer = "running" /\ races = 0 /\ main = "show" /\ now >= disturbed + RecoverTicks =>
    init = 0 /\ sfid - MaxLag <= HeadFid /\ HeadFid <= sfid

\* The stream never gets a whole ring ahead of the playout, where InWindow would
\* still take a packet, and store it in the slot being played; but for what
\* races of the two threads may cost, as above.
NeverLapped == streamer = "running" /\ races = 0 => ~lapped

\* In a run of the streamer that does not get a whole buffer ahead of the
\* playout, however the network reorders, repeats and loses the packets, only a
\* race of the two threads can take the pictures on the screen back in time: a
\* packet stored while its slot is dequeued (EnqueueAcrossDequeue), at once or,
\* where the frame Size later is lost, a ring later.
NeverBack == [][run' = 1 /\ ~lapped' /\ races' = 0 => screen' >= screen]_vars

\* A feedback finds no packet table only after a restart, and only while
\* packets of the run before it may still be under way.
CrashesOnlyAfterRestart ==
  [][streamer' = "crashed" /\ streamer = "running" =>
       run > 1 /\ now - start <= MaxDelay]_vars

\* When the user ends the program it ends, whether or not packets still come.
ShutdownEnds == main = "kill" ~> main = "dead"
=============================================================================
