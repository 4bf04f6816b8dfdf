# Verification of the UDP caster

TLA+ models, TLC runs and TLAPS proofs for the video caster of this repository:
a *streamer* that grabs, encodes and sends camera frames over UDP, and a
*watcher* that reassembles, plays and acknowledges them; and for the audio
library, RtAudio, that its audio prototypes are built on. The modules are
translated from the sources; `PROJECT.json` maps every definition to its lines.

## Inventory

| Component | State | Operations | Talks to |
|---|---|---|---|
| Streamer thread (`streamer_v1/streamer.cpp`) | `fid`, `send_frame()` locals, rows of `fmeta`/`pmeta`, `last_fid` | per frame: grab, encode, record, `send_frame` → `send_frame_seg` / `send_empty_frame` → `sendto`, record, pace | packets to the watcher; tables shared with the two threads below |
| Feedback thread | the same tables | `recvfrom` with a 1 ms timeout; packet feedback, frame feedback | feedback from the watcher |
| Streamer main thread | `stop_streamer`, `stop_feedback` | show, `dump_meta`, stop, join | reads the tables while the others write them |
| H.264 encoder wrapper | none between frames | `EncodeFrameCV`: layers of NAL units to segments | streamer thread |
| Frame buffer (`watcher_v1_audio/watcher.h`) | ring of slots: `fid`, `total_length`, `total_packet`, `timestamp`, `bitmap`, payload; `init`, `out` | `fb_create`, `fb_enqueue_packet`, `fb_dequeue_frame`, `fb_is_next_frame_ready_on_time` | shared by receiver and renderer, no lock |
| Packet bitmap | 128 bytes per slot | `bitmap_set`, `bitmap_check_nr_ones` | part of a slot |
| Feedback FIFO | `in`, `out`, slots | `fifo_empty`, `fifo_full`, `fifo_next_enqueue`, `fifo_enqueue_fast`, `fifo_next_dequeue`, `fifo_dequeue_fast` | renderer produces, receiver consumes, no lock |
| Receiver thread (`watcher.cpp`) | packet buffer | `recvfrom`, enqueue, packet feedback, drain the FIFO | network, frame buffer, FIFO |
| Renderer thread | `wait`, `fmeta`, `frame_to_render` | poll each ms, dequeue or give up, decode, build frame feedback | frame buffer, FIFO, main thread |
| Watcher main thread | stop flags | show `frame_to_render`, stop, signal, join | renderer |
| Legacy watcher (`watcher/`) | as the frame buffer, without timestamps | `fb_dequeue_ready`, `fb_skip_frame`; polls once per frame period | the same FIFO |
| `watcher_v1_jpeg/` | a byte-for-byte copy of `watcher_v1_audio/watcher.h` and `.cpp` | | |
| RtAudio (`test1/audio/inc/rtaudio/RtAudio.cpp`) | `stream_` (state, mode, buffers, `apiHandle`, mutex), a handle per backend | `openStream`/`probeDeviceOpen`, `startStream`, `stopStream`, `abortStream`, `closeStream`, `callbackEvent`, `getDeviceInfo`, in eight backends | the application, its callback, a callback thread or the driver's, threads started for one `stopStream` |
| Decoder wrapper, audio prototypes (`test1/`) | | not called by the programs | |

Interaction in RtAudio: the application's calls, the callbacks of the device and
the threads a callback starts all change `stream_.state` and the handle, some
under a mutex, some not.

What is hard here: two pairs of threads that share plain memory; a network that
loses, delays, duplicates and reorders; time-outs that race late packets;
counters at the ends of rings, bitmaps and 32-bit products; bookkeeping done
after the message it describes was sent. `PROJECT.json` lists these as hazards,
each at its line, with the properties that cover it or the reason none does.

What makes each component correct: the FIFO loses, duplicates and reorders
nothing it has accepted; the slots of a frame buffer always stand for
consecutive frames and hold only packets of frames that map to them; playout
visits every frame once, in order, and never stalls; a bitmap counts exactly
what arrived; a frame's packets tile it; the dump shows finished frames only;
feedback finds the row it is about; the playout recovers from outages and
restarts; the program ends. A stream of RtAudio gives back all it took, its
handle outlives its callbacks, its callback is not called after the end it asked
for, and stopping, aborting and closing mean what they say.

## Modules

| Module | Models |
|---|---|
| `BoundedQueue` | abstract specification of the feedback FIFO |
| `FeedbackFifo` | the FIFO and the two threads that use it |
| `FeedbackFifo_proofs` | its theorems, among them that it implements `BoundedQueue` |
| `FrameBuffer` | the current frame buffer, `fb_enqueue_packet` against the renderer's loop |
| `FrameBuffer_proofs` | its theorems |
| `MCFrameBuffer` | packet sets for TLC |
| `PacketBitmap` | the bitmap byte by byte, the 80 % decision |
| `PacketBitmap_proofs` | its theorems, and those about bits and powers of 2 they rest on |
| `LegacyWatcher`, `MCLegacyWatcher` | frame buffer and renderer of `src/watcher` |
| `LegacyWatcher_proofs` | its theorems |
| `Streamer`, `MCStreamer` | the three threads of the streamer and their tables |
| `Streamer_proofs` | its theorems: types, tables, what is encoded, how it is cut into packets |
| `Pacing` | the schedule of the streamer's loop in 32-bit arithmetic |
| `Pacing_proofs` | the schedule holds until the product wraps |
| `Watcher` | the watcher process, one operation a step, with time: receiver, renderer, main thread and shutdown |
| `Cast` | streamer, network and watcher composed: loss, delay, repetition, restart |
| `Cast_proofs` | its theorems |
| `RtApi` | what the backends of RtAudio share: the stream, its life cycle, `openStream`, the threads |
| `RtDriver` | what the backends with `drainCounter` share: `callbackEvent`, drain, abort |
| `RtAlsa`, `RtPulse`, `RtOss`, `RtDs`, `RtWasapi` | backends with a callback thread of their own |
| `RtCore`, `RtJack`, `RtAsio` | backends called by a driver or server |
| `RtAudio` | all of them under one next-state relation, with the properties of a stream |
| `RtAudio_proofs` | its theorems: the backends with a thread of their own, then the others and the whole |

### FeedbackFifo
A record is built in place by plain stores, modelled as two halves tagged with
the record's number. `BeginFeedback` to `Publish` are `renderer_thread`
(watcher.cpp:309-329); `PacketArrives`, `CheckEmpty`, `SendHead`, `Release` are
the drain loop of `receiver_thread` (157-167). `Publish` and `Release` sit
behind the code's memory barriers, so the stores of a record precede the
advance of `in`.

### FrameBuffer
Every read or write of a shared field is a step of its own, in program order,
`bitmap_set` being a load and a store of one byte. The receiver is an
environment of packets: any packet of `Packets`, any number of times, in any
order. A bit carries the frame its packet belonged to and a payload is the
number of its frame; the code keeps neither, they are what the properties
compare. The renderer counts its polls (`wait`) and pops the frame as it is
once `wait > WaitLimit`; the clock of `..._ready_on_time` is a free choice for a
frame that has a timestamp. The 32-bit frame number is taken not to wrap (nine
years at 15 fps).

### PacketBitmap
The arithmetic of bytes and masks that `FrameBuffer` abstracts to a set, one
frame after another, with `PidLimit = sizeof(uint8_t) * sizeof(bitmap)`.

### LegacyWatcher
The same granularity with `fb_dequeue_ready` as three steps (`Poll`, `Count`,
`Compare`: it reads `total_packet` twice) and one `ClearSlot` for the identical
ends of `fb_dequeue_frame` and `fb_skip_frame`. `polls` and `first` are history
variables: refusals since this frame is the next one, and whether no frame has been
left yet. The claim that a frame is given up only after refusals of its own is for
every frame but the first: what was refused before the first packet counts against
that one (`watcher.cpp:262-266`). `NrOnes` looks at no more bits than the bitmap has
*bytes*, as `bitmap_check_nr_ones()` does with the sizes its callers pass: a frame of
129 or more packets is never ready here and is always skipped.

### Streamer
`fmeta[f]` is `fstate`, `ftotal`, `ftable` (whether `pmeta` is set), `pmeta[f][p]`
is `pstate`, `psent` (whether `sender_ts` is set), `prtt` (unset; computed from
the packet's `sender_ts`; computed without it). An encoded frame is a sequence of
segment sizes in bytes of a packet of two: none, one without a byte (`imencode`
failed), one, or several. `SendFails` adds the -1 of `send_frame_seg` to
`pid_offset` as the code does. Packet IDs index a frame's packet table and nobody
checks them: when a thread is about to store in an entry `pid` the table of the frame
does not have, it becomes `wild`, `Defined` is false from then on and the model takes
no further step, because nothing can be said of the process any more
(after a failed segment the code stores in entry 2^32 - 1). What the run and the
theorems say of the streamer is said up to such a store; `StoresInTable` says that it
takes a failed `sendto()`. A streamer without a camera is the initial state
in which the thread is already done. Feedback may concern any packet sent, any
number of times; frame feedback any frame, because the watcher also reports
frames it gave up. `frame_packet` and `packet_feedback` are the structures of
protocol.h with the fields the properties look at. `EncodeFrameCV` cuts a frame
into segments: `LayerSegments` walks the NAL units of a layer with the code's
index (`pNalLengthInByte[i]`, `i` the layer's), `MaxSegs` drops what is too much,
and the frame is announced with its full length.

### Pacing
`period * fid` is computed modulo `Modulus` (2^32 us in the code) and added to a
64-bit time; one time unit is the shortest sleep.

### Watcher and Cast
Here an operation is a step and time passes: the clock counts the renderer's
polls, a frame is one packet, and a slot that has it is ready. The steps inside an
operation are left to `FrameBuffer` and `FeedbackFifo`: `Enqueue` and `Dequeue` are
atomic, and the code's are not. What can come of an enqueue into which a dequeue
falls, and of no order of the two, is `EnqueueAcrossDequeue` (action `Overlap` of
`Cast`): a good packet refused because it was compared with the head's new number, a
packet up to two rings ahead accepted, timestamp or picture left behind in a slot that
now stands for the frame `Size` later, an old picture copied out. Only one dequeue
falls into an enqueue; a receiver held up for several polls in the middle of one is
not modelled. `races` counts these, and what is claimed of recovery, of the ring and
of the screen is claimed until the first. `Cast` adds a streamer that sends a frame every `PollsPerFrame`
polls, a network that keeps a packet for up to `MaxDelay` polls, delivers it any
number of times meanwhile, in any order, and loses up to `MaxLost`; a restart of
the streamer, after which frames count from 0 while packets of the old run are
still under way; and the packet feedback, which crashes a streamer that has no
table for the frame. The feedback itself takes no time, so for a feedback's age
`MaxDelay` is to be read as that of the round trip. The user may end the watcher: `Kill` is
`pthread_kill(SIGUSR1)`, fatal because no handler is installed.

### RtApi, RtDriver and the backends
`stream_` is `struct RtApiStream` reduced to state, mode, `isRunning` and the set
of resources it owns (devices, buffers, handle, thread, client, driver, ...);
`leaked` collects what nothing points to any more. Opening a device is an
operator from a stream to the set of its possible results: one step per group of
calls in `probeDeviceOpen()` that shares a way to fail, composed by `Then`, with
the backend's label `error` as `...Error`. Formats, rates and channels are
accepted or refused freely. The threads are `user`, `audio` and `helper`, `pc`
says where each is; a section under `stream_.mutex` is one step, and an
assignment outside of it is a step of its own. `process` becomes `"aborted"` when
an exception leaves a thread and `"undefined"` when memory is used that was
freed. `hist` holds history for the properties only.

Nobody joins a helper thread, so it may find the stream closed, or another one
opened, in the middle of `stopStream()`. The driver's stop and the assignment of
the state that follows it without the mutex are therefore two steps in RtApiCore
(one per device) and RtApiJack (`...Halt`, `...Stopped`), and RtApiAsio's
assignment before the stop, which needs no handle, is one (`AsioMark`). When
`closeStream()` deletes the handle a helper that has read it goes to the label
`"dangling"` (or `"staleInput"`, in RtApiCore, where it matters only if there is
an input to stop) and its next use of it makes the process undefined. So does
the second of two threads that close the client of a JACK stream
(`JackClosedClient`).

Simplifications: one helper thread at a time; a stream is not opened again
while the callback thread of a failed opening is still there (a late helper may
be); RtApiWasapi is not started while its last thread is still there; the stop
call of a driver (external) returns when no callback is running, and ASIO's
starts only with buffers; DirectSound has two buffers; there is no
`errorCallback`, so `error()` throws and ends the call.

## Runs

| Run | Bounds | Shows |
|---|---|---|
| `FeedbackFifo` | 3 slots, 7 records: the ring wraps twice, fills and empties | the ring refines the bounded queue; SPSC discipline; published feedback is sent |
| `FrameBuffer` | 2 slots, 3 packets of frames 1 and 3, 2 frames played | window, placement, order, stale packets, progress. Frame 3 shares a slot with frame 1, so it is at once too early, a lap ahead and late for it; frame 2 is lost; the packet bits share a byte |
| `FrameBufferRace` | packets that fit the ring | **violated**: a bit of one frame counted for the frame a lap later |
| `FrameBufferEarlyTimeout` | same | **violated**: a time-out before the first packet reports an unwritten `fmeta` |
| `PacketBitmap` | 6 bytes of 2 bits, frames of 1, 5, 7 packets | exact count for every prefix up to the limit, nothing counted past it; frames of less than 5/4 of it are ready when whole |
| `LegacyWatcher` | 2 slots, frames 1, 2 (of two packets) and 3, limit of 2 polls | order of playout, a full wait for each frame but the first, one payload behind its bit at most, progress. Frames 1 and 2 may each be whole, partial or lost after a refusal; frame 3 is a lap after frame 1 |
| `LegacyWatcherEmpty` | same | **violated**: an empty slot counts as a delivered frame |
| `Streamer` | 3 frames, a table of 1 row and 2 packets, packets of 2 bytes, encodings of one and two layers and of a failed `imencode`, `sendto` errors | what is sent is what was encoded, tiling, dump of finished frames only, no NULL table, no store outside the packet tables unless a `sendto()` failed, termination up to such a store. Two frames lie beyond the table |
| `StreamerAnswered` | 2 frames | **violated**: state and round trip time of a packet answered before they were initialised |
| `PacingWraps` | period 3, 16 units before the wrap, 6 frames | **violated**: frames before their time once the product has wrapped |
| `Cast` | 8 slots, a frame every 2 polls, given up after 5, delay of 3, up to 2 packets lost, one restart, one enqueue with a dequeue in it in the first 5 polls, 36 polls | until such a race: recovery after losses and after a restart, the stream never a ring ahead of the playout, playout never back in time; and with it, a streamer crashed by feedback only after a restart, shutdown. The ratio of the polls is smaller than the code's 66 to 334, but as there a frame is given up more slowly than frames are made, so an outage costs more time than it lasted |
| `RtAudio` | 8 backends, 2 openings, 2 starts | resources, life cycle and ends of a stream, see below. Two openings are a failure and its aftermath or a stream reopened; two starts let a late stop meet the next start |

Violated properties quote the comment they come from; `PROJECT.json` lists them
as findings. Two more disagreements have no run of their own: a packet exactly
`size` frames ahead passes the window test (watcher.h:294) and is stored in the
slot being played (`NeverLapped` says when the stream gets that far, or rather that
it does not within the losses `RecoveryAssumption` of `Cast` allows), and the limit on packet IDs (watcher.h:307) counts bytes where
it means bits, so that a frame of 160 packets is never ready.

The smallest ring in which all cases occur has two slots: head and another, wrap
at every second dequeue, a frame a lap ahead. What a run leaves to chance (ring
size, packets, number of frames) the theorems cover.
Deadlock is checked except where the program ends (`Streamer`), the bounded run
does (`Pacing`; `Cast`, whose clock stops at its horizon) or nothing more is
asked of it (`RtAudio`, whose application may stop calling).

Every passing property has a mutant of the code (`PROJECT.json`, `mutants`) that
violates it: an unwrapped cursor, a dropped bound, a loop one short, a forgotten
reset, a dump that includes the frame being sent, a socket without a timeout.

### What RtAudio's run shows

* `ThreadOwnsHandle`: the thread or driver that calls back finds its handle, but
  for the thread left behind when opening a second device fails (`hist.orphan`).
* `ClosedOwnsNothing`: after any path through `openStream()` and `closeStream()`
  the stream holds nothing and has lost nothing, but `KnownLeaks`, listed by
  backend in the module.
* `RunningHasDevice`: a running stream keeps its device until it is closed,
  whatever the application asks about other devices meanwhile.
* `AtMostOneLate`, `EndedIsEnded`, `SelfStopPlaysOut`: after `stopStream()` at most
  the callback under way still returns; a callback that asked for the end is not
  called again; one that returned 1 has its last buffer played, with the
  exceptions the property names.
* `OnlyOpenStreamOpens`: in ALSA, PulseAudio, OSS and DirectSound, where
  `closeStream()` waits for the thread that may be in `stopStream()`, that thread
  does not give a closed stream a state. In the other four a helper may (below).
* `CloseReturns`: `closeStream()` is not left waiting for its thread, where it
  waits on a flag that it sets under the thread's mutex (ALSA, PulseAudio).

Read from the code while modelling, and the reason for the exceptions:

* a stop by the application while a callback is about to return 1 waits for a
  signal that is not sent when `internalDrain` is set (CoreAudio, JACK, ASIO,
  DirectSound), and `pthread_cond_wait()` without a predicate or the mutex misses
  one that came before it (CoreAudio, JACK);
* a helper thread may be in `stopStream()` when `closeStream()` deletes the handle,
  and sets STOPPED after it in WASAPI (4307), CoreAudio (1556), JACK (2528) and
  ASIO (3361): `isStreamOpen()` is then true of a stream that was closed;
* when a JACK server shuts down, its thread and the application may both be in
  `closeStream()`, each with the handle in a local: client and handle are then
  closed and deleted twice (2408, 2415);
* `startStream()` tests for RUNNING only, so it goes ahead while a helper is still
  stopping the stream;
* RtApiWasapi sets RUNNING before its thread exists, and STOPPING whatever the
  state was;
* ASIO's `sampleRateChanged()` stops the stream, and waits, in the driver's thread;
* ALSA closes the control handle of a card that could not be opened.

### Fairness
`FeedbackFifo`: the receiver's loop, and packets that keep arriving, because the
code drains only after a `recvfrom`; nothing else is promised. `FrameBuffer` and
`LegacyWatcher`: both threads run; no packet is promised. `Streamer`: the three
threads run, the socket's 1 ms timeout expires, and the display loop of 5000
images ends; neither packets nor feedback are promised. `Cast`: only that the
main thread goes on once the user has ended it; what recovers does so within a
number of polls, a safety property of the clock. `RtAudio`: the application's
call and the callback thread of ALSA and PulseAudio go on, the callback returns,
and a thread in `stopStream()` goes past its test; nothing makes the application
call.

## Proofs

TLAPS, for every value of the constants under the named `ASSUME`s (positive ring
size, natural limits, typed packets, and for what the playout recovers from,
`RecoveryAssumption`):

* `FeedbackFifo_proofs`: `TypeCorrect`; `DisciplineHolds`, an invariant that is
  inductive with the type invariant: published slots are complete, the renderer
  owns the slot at `in`, the receiver the one at `out`; and
  `RingImplementsQueue`: `Publish` is `Put`, `Release` is `Take`, all else
  stutters, with the record in transit counted as waiting until its slot is
  released. The arithmetic is in lemmas about `Distance` round the ring.
* `FrameBuffer_proofs`: `TypeCorrect`, `WindowHolds`, `NoMisplacementHolds`,
  `InOrderHolds`, `AcceptedNotStaleHolds`. Neither property is inductive alone.
  `IInv` adds `Phases` (before the first packet nobody is past `init`; in the
  initialising loop a prefix of the slots is numbered), `Held` (the packet and the
  byte the receiver is about to store are congruent to the slot it chose,
  whatever the renderer did to the slot meanwhile) and `Played` (which frame the
  feedback under construction is about). Renumbering a slot adds `Size`, so
  congruence survives it; that is why placement holds although `out` and
  `meta[out].fid` are read at different times.
* `PacketBitmap_proofs`: `CountIsExactHolds`, for every size of byte and bitmap and
  every byte past the end: exact up to `PidLimit`, no further; `CompleteIsReadyHolds`, if 80 % of a frame's packets are
  less than `PidLimit`, that is below 160 packets in the code. `IInv` says that bit
  `j` of byte `i` is set exactly if packet `ByteBits * i + j` was recorded. Below it
  is arithmetic the prover does not know: that powers of 2 double is derived from
  the library's number of subsets of a set; from it follow what setting a bit does
  to the bits below and above it (`LowerBits`, `HigherBits`, `OwnBit`) and what a
  mask leaves (`MaskedBits`). The count of the whole bytes is by induction.
* `Streamer_proofs`: `FeedbackTableFound`, `DumpOfFinishedFrames`, for every size of
  the tables, encoding and failure of `sendto()`, until a store leaves the tables.
  `IInv` says which rows are
  complete: the frame at hand has its packet table before its first packet
  (`RowRecorded`), so has every frame of which a packet was sent (`SentHasTable`),
  the rows before it have their counts (`RowsFinished`), every packet sent has its
  entry with `sender_ts` but the one between `sendto()` and the store (`SentStamped`).
  `last_fid` never being ahead of the frame at hand, the dump is behind.
* `Streamer_proofs`, the data: `TypeCorrect`, `EncodedIntactHolds`, `FrameTiledHolds`,
  for every list of layers, length of units, packet size and failure. `Sum` and
  `Concat` are recursive functions; `TailRecursion` proves that such a function
  exists, so that they satisfy their equations, and `Induction` proves induction
  itself from the well-foundedness of the subsets of a finite interval.
  `EncodedIntact` follows from `Encoded`, which says where segments come from, and
  `UnitsPlaced`, by induction on the layers: every unit of a frame of the shape
  `EncodedIntact` names lies where the sum of the units before it says. `TypeInv`
  adds `Cursors` to the types: the segment at hand exists, and a frame beyond the
  last is never recorded. `TilingInv` is what `FrameTiled` says while the frame is
  on its way: packets and bytes sent, with those left of the segment, are the sums
  of the segments up to it (`Position`; a frame without segments has
  `EmptyPosition`), and the packets sent tile the frame so far (`Tiled`). A packet
  recorded in `sent` but not yet stamped is counted already. IDs do not wrap,
  because a frame fits its table (`FramesFit`), which is smaller than
  `PidModulus`. `StoresStayInTable` joins the two: the packet being stamped is numbered
  below the frame's count unless a `sendto()` of it failed (`StampedHasEntry`), and a
  feedback can be about no other packet that has no entry.
* `LegacyWatcher_proofs`: `TypeCorrect`, `SkipsOverdue`, `WindowSlidesHolds`. `Waits`
  relates the code's counter of refusals to the history; `Window` numbers the slots
  behind the head from `Base`, the frame that is next, whether or not the head's own
  number was already advanced.
* `LegacyWatcher_proofs`, the payloads: `OnePayloadBehindHolds`. `Payloads` adds to
  the property that the byte `bitmap_set()` has loaded says of every packet what the
  bitmap said (`ByteAnnounces`), though the renderer may clear the bitmap before it
  is stored back; that a packet being copied has its bit set, or its ID has none
  (`OwnBitOrNone`); and that no bit is past the bitmap (`InBitmap`), so that a packet
  that skips `bitmap_set()` cannot change the payload under a bit. All the renderer
  does to a slot is one thing (`Fades`): it leaves bits alone or clears them all.
* `Cast_proofs`: `TypeCorrect`; `CrashesOnlyAfterRestartHolds`, from `InTime` (no
  packet is under way for longer than `MaxDelay`) and `KnownOrOld` (it is of a frame
  this run has come to, or older than the run); `NeverBackHolds`, from
  `PlayingUndisturbed`: in a first run that is not a ring ahead, the slots number
  consecutive frames, hold their own pictures, and the screen is behind the head. It
  is lost with the first `Overlap`, which leaves the picture of a frame in the slot of
  the frame `Size` later; the type invariant and `KnownOrOld` are not.
* `Cast_proofs`, recovery: `RecoversHolds`, `NeverLappedHolds`, `FirstRunNeverBack`. The
  argument counts polls. Call a frame *missing* when it was lost and the playout has
  not given it up yet: every frame given up was one lost (`Accounted`), so at most
  `MaxLost` are, and each costs the playout `Slip` polls more than the stream takes for
  a frame (`GiveUp`, the wait limit and the polls around it, less `PollsPerFrame`).
  `Recovering` is inductive. It says where the time goes: how far the playout is behind
  is bounded by the frames given up so far (`Behind`); a long wait is only ever for a
  missing frame (`Waits`), because one that is not missing is in its slot when it is due
  (`HeadInTime`), the ring having held it until then (`RingHolds`); once behind, the
  playout gains on the stream by a frame a poll (`CatchesUp`); in a first run it is
  never ahead of the stream (`NotAhead`); after a restart it is, gives up a frame after
  the other, and the stream, which is faster, overtakes it (`Overtaken`). From it follow
  that the stream is never `Size` frames ahead while the streamer runs, with which
  `NeverBackHolds` needs no condition but `races' = 0` in a first run, and `Recovers`.
  All of this is until the first `Overlap`, which may cost packets that nobody counts.

  `RecoveryAssumption` is what this takes of the constants: giving up is slower than the
  stream; the ring holds what an outage of `MaxLost` frames costs; `RecoverTicks` and
  `MaxLag` leave the time to come back. TLC evaluates it on the run, whose constants
  satisfy it with nothing to spare in `RecoverTicks`. In the code a frame is 66 polls,
  `GiveUp` 335, `Slip` 269, the playout 200 polls behind, and the ring of 256 slots is
  16830 polls long: it bears about 61 losses not made up for yet. After a restart the
  playout gives up the frames the old run had come to while the new one catches up: that
  takes 335 / 604, a little more than half, of what the run before lasted, hence the
  clause that relates `RecoverTicks` to `Horizon`. A behaviour has losses or a restart,
  not both (guards of `Send` and `Restart`).
* `RtAudio_proofs`: the eight safety properties of
  `RtAudio`, for every number of openings and starts and any of the eight
  backends. `IInv` is the type invariant, `TypeInv`, with the invariant of the
  backend in use, `AlsaInv` to `AsioInv`. These say what no property says: which
  resources a stream owns in each of its states, where its thread may be, and what
  that thread still knows. `ThreadInv` is what ALSA, PulseAudio and OSS share,
  `CountInv` what the backends that count silent buffers before the end share: a
  stream that drains has its count at hand, and a count of three leaves nothing
  unplayed. Without them no property is inductive: `AtMostOneLate` needs a stopped
  stream to be stopped for its thread too, `ClosedOwnsNothing` a bound on what is
  owned halfway through every `probeDeviceOpen()`. Each backend has a lemma that
  its `probeDeviceOpen()` ends in one of a few kinds of streams, whatever failed
  (`...ProbeOutcomes`), and one lemma per call. `Lasting` holds the facts about a
  step, that the backend stays, an ended callback is not called again and only
  `openStream()` opens, but on the backends of `Late`, whose helpers may revive a
  stream; `EndedIsEnded` and `OnlyOpenStreamOpens` follow from it. Because a
  helper may outlive its stream, RtApiCore's part also says which devices a stream
  of each mode may own (`CoreModes`), and that no callback that may call the
  application runs or will once the driver has stopped (`Quiet`).
* `Pacing_proofs`: `OnSchedule`, if the time of the last frame is below 2^32 us: the
  hypothesis the run `PacingWraps` shows to be needed.

Proofs are laid out one step per action, through a list of which actions write
which variables; leaves that reason about sequences are kept apart from leaves
about slots.

Only model-checked: liveness and termination (`PublishedIsSent`, `PlayoutAdvances`,
`ShutdownCompletes`, `ShutdownEnds`, `CloseReturns`), which the prover cannot reason
about. Every safety property of a passing run is a theorem.

## Not modelled

* Camera, codecs, picture data, GUI; the content of timestamps; the decoder
  wrapper, which nothing calls.
* Reads past the bitmap (`total_packet` above 1024), the unchecked result of
  `recvfrom`, the race on `frame_to_render`: memory the models have no state for.
* The audio prototypes, single-threaded I/O loops that no program links. The calls
  of `RAW_Stream` on RtAudio are among those `RtAudio` makes.
* Of RtAudio: an `errorCallback`. With one, `error()` (9463-9485) does not throw: it
  clears `isRunning` and may abort the stream, calls back and returns, so that the
  caller goes on, past `verifyStream()` (9493-9498) even when the stream is closed.
* Of RtAudio, too: byte swapping, format and channel conversion, the resampler, stream
  time and latency, the contents of the ring buffer of RtApiWasapi, and device
  queries that change nothing. DirectSound's and ASIO's headers, the bindings for
  C and Python and the build files.

## Plan

Done: `FeedbackFifo` with its refinement, `FrameBuffer`, `PacketBitmap`,
`Streamer` with the encoder's units, `LegacyWatcher`, `Pacing`, `Watcher` and
`Cast`, RtAudio's backends; theorems of all of them.

Left, in this order:

1. The ring buffer of RtApiWasapi, where full and empty are told apart by a
   comparison of positions.
2. The legacy watcher's main thread.
3. Losses and a restart in one behaviour of `Cast`, and losses after a restart.
