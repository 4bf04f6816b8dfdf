------------------------------- MODULE RtDriver ------------------------------
(***************************************************************************)
(* What RtApiCore, RtApiJack and RtApiAsio have in common: the driver      *)
(* calls callbackEvent() for every buffer, and drainCounter counts the     *)
(* buffers of silence that are written before the device is stopped.       *)
(* The driver's stop (external) returns when no callback is running, but   *)
(* to the callback itself; of the threads started to call stopStream(),    *)
(* one is there at a time (a bound).  Nobody waits for that thread: it may *)
(* go on when the stream was closed, and when another one was opened.      *)
(***************************************************************************)
EXTENDS RtApi

NoCallback(t) == t = "audio" \/ pc["audio"] = "none"

HasHandle == "handle" \in stream_.owned

\* The handle is deleted: a thread that read it before, and is at one of these
\* points, goes on with what is none.
Deleted(holding) == [u \in Threads |-> IF pc[u] \in holding THEN "dangling" ELSE pc[u]]

\* What it does with it is undefined, and so is a use of the handle, here or in
\* stopStream()'s test of drainCounter, when there is none.
Dangling(t, uses) ==
  /\ process = "running"
  /\ \/ pc[t] = "dangling"
     \/ ~HasHandle /\ (pc[t] \in uses \/ (pc[t] = "stopping" /\ Plays(stream_)))
  /\ process' = "undefined"
  /\ UNCHANGED <<api, stream_, handle, device, pc, doStopStream, opens, starts, hist>>

\* pthread_cond_signal(): one of the threads that wait, if any does.
CondSignal ==
  LET waiting == {t \in Threads : pc[t] = "waiting"}
  IN /\ IF waiting = {} THEN UNCHANGED pc ELSE \E t \in waiting : Goto(t, "halt")
     /\ UNCHANGED handle
SetEvent == handle' = [handle EXCEPT !.condition = TRUE] /\ UNCHANGED pc

\* The drained output recognised by the one value of the counter, which the
\* callbacks of two devices may step over.
EnterExactly(d, Wake) ==
  /\ At("audio", "none") /\ d \in device.running /\ stream_.state = "RUNNING"
  /\ IF handle.drainCounter = 4
     THEN /\ stream_' = [stream_ EXCEPT !.state = "STOPPING"]
          /\ IF handle.internalDrain
             THEN pc["helper"] = "none" /\ Goto("helper", "stop") /\ UNCHANGED handle
             ELSE Wake
     ELSE /\ Goto("audio", IF handle.drainCounter = 0 THEN "callback" ELSE "io")
          /\ UNCHANGED <<stream_, handle>>
  /\ UNCHANGED <<api, device, doStopStream, process, opens, starts, hist>>

\* callbackEvent() up to the application's callback: nothing unless the stream
\* runs; when it is drained the thread in stopStream() is woken, or one started
\* if it was the application's callback that asked for the end.
Enter(d, Wake) ==
  /\ At("audio", "none") /\ d \in device.running /\ stream_.state = "RUNNING"
  /\ IF handle.drainCounter > 3
     THEN /\ stream_' = [stream_ EXCEPT !.state = "STOPPING"]
          /\ IF handle.internalDrain
             THEN pc["helper"] = "none" /\ Goto("helper", "stop") /\ UNCHANGED handle
             ELSE Wake
     ELSE /\ Goto("audio", IF handle.drainCounter = 0 THEN "callback" ELSE "io")
          /\ UNCHANGED <<stream_, handle>>
  /\ UNCHANGED <<api, device, doStopStream, process, opens, starts, hist>>

Callback == UserCallback([r \in 0 .. 2 |-> "returned"])

\* A result of 1 that only tells who is to stop the stream.
ReturnedUndrained(abort) ==
  /\ At("audio", "returned")
  /\ IF doStopStream = 2
     THEN /\ stream_' = [stream_ EXCEPT !.state = "STOPPING"]
          /\ handle' = [handle EXCEPT !.drainCounter = 2]
          /\ abort
     ELSE /\ handle' = [handle EXCEPT !.internalDrain = doStopStream = 1]
          /\ Goto("audio", "io") /\ UNCHANGED stream_
  /\ UNCHANGED <<api, device, doStopStream, process, opens, starts, hist>>

\* What follows for its result: 2 aborts, by `abort', a change of pc; 1 drains.
Returned(abort) ==
  /\ At("audio", "returned")
  /\ CASE doStopStream = 2 ->
            /\ stream_' = [stream_ EXCEPT !.state = "STOPPING"]
            /\ handle' = [handle EXCEPT !.drainCounter = 2]
            /\ abort
       [] doStopStream = 1 ->
            /\ handle' = [handle EXCEPT !.drainCounter = 1, !.internalDrain = TRUE]
            /\ Goto("audio", "io") /\ UNCHANGED stream_
       [] OTHER -> Goto("audio", "io") /\ UNCHANGED <<stream_, handle>>
  /\ UNCHANGED <<api, device, doStopStream, process, opens, starts, hist>>

AbortHere == Goto("audio", "abort")
AbortInThread ==
  pc["helper"] = "none" /\ pc' = [pc EXCEPT !["audio"] = "none", !["helper"] = "stop"]

\* The rest of callbackEvent(): the output, or silence while draining.
Transfer ==
  /\ At("audio", "io")
  /\ handle' = [handle EXCEPT !.drainCounter = IF @ = 0 THEN 0 ELSE @ + 1]
  /\ hist' = [hist EXCEPT !.unplayed = Plays(stream_) /\ handle.drainCounter <= 1]
  /\ Goto("audio", "none")
  /\ UNCHANGED <<api, stream_, device, doStopStream, process, opens, starts>>

\* stopStream(): an output that is not draining is told to, ...
Drain(t, silent) ==
  /\ At(t, "stopping")
  /\ IF Plays(stream_)
     THEN /\ HasHandle
          /\ IF handle.drainCounter = 0
             THEN handle' = [handle EXCEPT !.drainCounter = 2] /\ Goto(t, "wait")
             ELSE UNCHANGED handle /\ Goto(t, "halt")
     ELSE UNCHANGED handle /\ Goto(t, silent)
  /\ UNCHANGED <<api, stream_, device, doStopStream, process, opens, starts, hist>>

\* ... and waited for: a signal sent before is not seen, ...
CondWait(t) ==
  /\ At(t, "wait")
  /\ Goto(t, "waiting")
  /\ UNCHANGED <<api, stream_, handle, device, doStopStream, process, opens, starts, hist>>
\* ... an event set before is.
EventWait(t) ==
  /\ At(t, "wait") /\ handle.condition
  /\ Goto(t, "halt")
  /\ UNCHANGED <<api, stream_, handle, device, doStopStream, process, opens, starts, hist>>

\* The end of stopStream() once the devices are stopped: the state, whatever the
\* stream has become meanwhile.
Stopped(t) ==
  /\ At(t, "halted")
  /\ stream_' = [stream_ EXCEPT !.state = "STOPPED"]
  /\ hist' = StopReturned(t, hist)
  /\ Return(t)
  /\ UNCHANGED <<api, handle, device, doStopStream, process, opens, starts>>

\* abortStream(): stopStream() that finds the output drained, or does not.
Abort(t, counter) ==
  /\ At(t, "aborting") /\ HasHandle
  /\ handle' = [handle EXCEPT !.drainCounter = counter]
  /\ Goto(t, "stop")
  /\ UNCHANGED <<api, stream_, device, doStopStream, process, opens, starts, hist>>

\* The driver runs the devices of the stream; then startStream() goes on here.
DriverStarted(running) ==
  /\ device' = [device EXCEPT !.running = running]
  /\ Goto("user", "started")
  /\ UNCHANGED <<stream_, handle, hist>>
DriverRefused(running) ==
  /\ device' = [device EXCEPT !.running = running]
  /\ Return("user")
  /\ UNCHANGED <<stream_, handle, hist>>
Run ==
  /\ At("user", "started") /\ HasHandle
  /\ handle' = [handle EXCEPT !.drainCounter = 0, !.internalDrain = FALSE, !.condition = FALSE]
  /\ stream_' = [stream_ EXCEPT !.state = "RUNNING"]
  /\ hist' = Started(hist)
  /\ Return("user")
  /\ UNCHANGED <<api, device, doStopStream, process, opens, starts>>
=============================================================================
