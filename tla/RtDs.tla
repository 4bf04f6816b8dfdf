--------------------------------- MODULE RtDs --------------------------------
(***************************************************************************)
(* RtApiDs.  One thread per stream makes the callbacks, counts the silence *)
(* like the drivers' callbacks do, and stops the stream itself when its    *)
(* application asked for it.                                               *)
(***************************************************************************)
EXTENDS RtDriver

nBuffers == 2     \* bound: the smallest number of buffers there can be

-----------------------------------------------------------------------------
(* probeDeviceOpen().                                                      *)

\* Channels and device.
DsCheck(s) == {Failure(s), Success(s)}

\* The device and a buffer in it.  A device without stereo, or with too few
\* channels to record, is not released.
DsOutput(s) == {Failure(s), Failure(Lost(Got(s, {"device0"}), {"device0"})), Success(Got(s, {"device0"}))}
DsInput(s) == {Failure(s), Failure(Lost(Got(s, {"device1"}), {"device1"})), Success(Got(s, {"device1"}))}

\* The label `error'.  Its variable `handle' is set once the handle is, here, so
\* that a buffer that cannot be had leaves the handle, and what was opened now
\* is in no handle.
DsError(s, m, set) ==
  LET t == Freed(s, UserBuffers \cup {"deviceBuffer"})
      u == IF set THEN Freed(t, Devices \cup {"handle"}) ELSE Lost(t, {Device(m)})
  IN Failure([u EXCEPT !.state = "CLOSED"])

\* Buffers, handle, state, mode, and the thread, unless there is one.
DsSetUp(s, m) ==
  LET made == {Opened(Got(b, {"handle"}), m) : b \in WithBuffers(s, m)}
  IN {DsError(s, m, FALSE)}
     \cup UNION {IF t.isRunning THEN {Success(t)}
                 ELSE LET u == [t EXCEPT !.isRunning = TRUE]
                      IN {DsError(u, m, TRUE), Success(Got(u, {"thread"}))} : t \in made}

DsProbe(s, m) ==
  Then(Then(DsCheck(s), LAMBDA t : IF m = "OUTPUT" THEN DsOutput(t) ELSE DsInput(t)),
       LAMBDA t : DsSetUp(t, m))

-----------------------------------------------------------------------------
(* The application's calls.                                                *)

\* startStream(): the devices, or not, ...
DsStart ==
  /\ At("user", "start")
  /\ Goto("user", "started") \/ Return("user")
  /\ UNCHANGED <<api, stream_, handle, device, doStopStream, process, opens, starts, hist>>

\* ... then the state.
DsRun == Run

DsDrain(t) == Drain(t, "halt")
DsWait(t) == EventWait(t)

\* The state, before the mutex is taken, ...
DsMark(t) ==
  /\ At(t, "halt")
  /\ stream_' = [stream_ EXCEPT !.state = "STOPPED"]
  /\ Goto(t, "halting")
  /\ UNCHANGED <<api, handle, device, doStopStream, process, opens, starts, hist>>

\* ... and, under it, the devices, or not.
DsHalt(t) ==
  /\ At(t, "halting")
  /\ hist' = StopReturned(t, Silenced(hist, FALSE))
  /\ (Return(t) /\ UNCHANGED process) \/ Throw(t)
  /\ UNCHANGED <<api, stream_, handle, device, doStopStream, opens, starts>>

DsAbort(t) == Abort(t, 2)

\* closeStream(): the thread is told to end, ...
DsCloseWake ==
  /\ At("user", "close")
  /\ IF stream_.state = "CLOSED" THEN Goto("user", "idle") /\ UNCHANGED stream_
     ELSE Goto("user", "join") /\ stream_' = [stream_ EXCEPT !.isRunning = FALSE]
  /\ UNCHANGED <<api, handle, device, doStopStream, process, opens, starts, hist>>

\* ... joined, and everything released.
DsCloseFree ==
  /\ At("user", "join") /\ pc["audio"] = "ended"
  /\ stream_' = [Freed(stream_, Resources) EXCEPT !.state = "CLOSED", !.mode = "UNINITIALIZED"]
  /\ pc' = [pc EXCEPT !["user"] = "idle", !["audio"] = "none"]
  /\ UNCHANGED <<api, handle, device, doStopStream, process, opens, starts, hist>>

-----------------------------------------------------------------------------
(* The callback thread.                                                    *)

\* callbackHandler() and callbackEvent() up to the application's callback: it
\* sleeps unless the stream runs; drained, it wakes the thread in stopStream()
\* or calls that itself.
DsLoop ==
  /\ At("audio", "loop")
  /\ IF ~stream_.isRunning THEN Goto("audio", "ended") /\ UNCHANGED <<stream_, handle>>
     ELSE /\ stream_.state = "RUNNING"
          /\ IF handle.drainCounter > nBuffers + 2
             THEN /\ stream_' = [stream_ EXCEPT !.state = "STOPPING"]
                  /\ IF handle.internalDrain THEN Goto("audio", "stop") /\ UNCHANGED handle
                     ELSE SetEvent
             ELSE /\ Goto("audio", IF handle.drainCounter = 0 THEN "callback" ELSE "io")
                  /\ UNCHANGED <<stream_, handle>>
  /\ UNCHANGED <<api, device, doStopStream, process, opens, starts, hist>>

DsCallback == Callback
DsReturned == Returned(AbortHere)

\* Under the mutex: the output, or silence, written, the input read, unless the
\* stream was stopped meanwhile; an error leaves the thread as an exception.
DsTransfer ==
  /\ At("audio", "io")
  /\ Goto("audio", "loop")
  /\ IF stream_.state = "STOPPED" THEN UNCHANGED <<handle, hist, process>>
     ELSE \/ /\ handle' = [handle EXCEPT !.drainCounter = IF @ = 0 THEN 0 ELSE @ + 1]
             /\ hist' = [hist EXCEPT !.unplayed = Plays(stream_) /\ handle.drainCounter <= 1]
             /\ UNCHANGED process
          \/ process' = "aborted" /\ UNCHANGED <<handle, hist>>
  /\ UNCHANGED <<api, stream_, device, doStopStream, opens, starts>>

DsNext ==
  /\ api = "DS"
  /\ \/ OpenStream(Single(DsProbe), Second(DsProbe))
     \/ DsStart \/ DsRun
     \/ \E t \in {"user", "audio"} :
          DsDrain(t) \/ DsWait(t) \/ DsMark(t) \/ DsHalt(t) \/ DsAbort(t)
     \/ DsCloseWake \/ DsCloseFree
     \/ DsLoop \/ DsCallback \/ DsReturned \/ DsTransfer
=============================================================================
