-------------------------------- MODULE RtAsio -------------------------------
(***************************************************************************)
(* RtApiAsio.  One driver at a time ("driver": it, once loaded; "device0": *)
(* the buffers it made, for both directions); an event, not a condition    *)
(* variable, tells stopStream() that the output is drained.                *)
(***************************************************************************)
EXTENDS RtDriver

-----------------------------------------------------------------------------
(* probeDeviceOpen().                                                      *)

\* Load and initialise the driver, unless the output's is to serve the input
\* too; one that was loaded and not initialised stays.
AsioLoad(s, m) ==
  IF m = "INPUT" /\ s.mode = "OUTPUT" THEN {Failure(s), Success(s)}
  ELSE {Failure(s), Failure(Got(s, {"driver"})), Success(Got(s, {"driver"}))}

\* The label `error': nothing is released when the input of two fails, but the
\* buffers closeStream(), called next, would release too.
AsioError(s, m, duplex) ==
  LET t == Freed(s, {UserBuffer(m), "deviceBuffer"})
  IN Failure(IF duplex THEN t ELSE Freed(t, {"handle", "device0", "driver"}))

\* Channels, rate, format, sizes.
AsioParameters(s, m) == {AsioError(s, m, s.mode = "OUTPUT"), Success(s)}

\* Handle, the driver's buffers (those of the output alone given up first),
\* mode, state, buffers.
AsioSetUp(s, m) ==
  LET duplex == m = "INPUT" /\ s.mode = "OUTPUT"
      t == [Freed(Got(s, {"handle"}), {"device0"}) EXCEPT !.mode = NewMode(s, m)]
  IN {AsioError(s, m, duplex), AsioError(t, m, duplex), AsioError(Opened(t, m), m, duplex)}
     \cup {Success([Got(b, {"device0"}) EXCEPT !.state = "STOPPED"]) : b \in WithBuffers(t, m)}

AsioProbe(s, m) ==
  Then(Then(AsioLoad(s, m), LAMBDA t : AsioParameters(t, m)), LAMBDA t : AsioSetUp(t, m))

-----------------------------------------------------------------------------
(* The application's calls.                                                *)

\* getDeviceInfo() that loads the driver asked for whether or not a stream uses
\* the one that is loaded.
AsioInfoLoading(s) ==
  {Answer(s), Answer(Got(s, {"driver"})), Answer(Freed(s, {"driver"}))}

\* getDeviceInfo(): while a stream is open, what was saved before; else the
\* driver is loaded, and removed but where it cannot be initialised.
AsioInfo(s) ==
  IF s.state # "CLOSED" THEN {Answer(s)}
  ELSE {Answer(s), Answer(Got(s, {"driver"})), Answer(Freed(s, {"driver"}))}

\* startStream(): the driver (external) starts only with buffers, ...
AsioStart ==
  /\ At("user", "start")
  /\ \/ {"driver", "device0"} \subseteq stream_.owned /\ DriverStarted({"device0"})
     \/ DriverRefused(device.running)
  /\ UNCHANGED <<api, doStopStream, process, opens, starts>>
\* ... then the state.
AsioRun == Run

AsioDrain(t) == Drain(t, "halt")
AsioWait(t) == EventWait(t)

\* The state, whatever the stream has become meanwhile, ...
AsioMark(t) ==
  /\ At(t, "halt")
  /\ stream_' = [stream_ EXCEPT !.state = "STOPPED"]
  /\ Goto(t, "halting")
  /\ UNCHANGED <<api, handle, device, doStopStream, process, opens, starts, hist>>

\* ... then the driver is stopped, or fails to: sampleRateChanged() catches the
\* exception.
AsioHalt(t) ==
  /\ At(t, "halting") /\ NoCallback(t)
  /\ hist' = StopReturned(t, Silenced(hist, FALSE))
  /\ \/ device' = [device EXCEPT !.running = {}] /\ Return(t) /\ UNCHANGED process
     \/ /\ UNCHANGED device
        /\ IF t = "audio" THEN Return(t) /\ UNCHANGED process ELSE Throw(t)
  /\ UNCHANGED <<api, stream_, handle, doStopStream, opens, starts>>

\* abortStream() drains, too: the lines that would not are commented out.
AsioAbort(t) ==
  /\ At(t, "aborting") /\ Goto(t, "stop")
  /\ UNCHANGED <<api, stream_, handle, device, doStopStream, process, opens, starts, hist>>

\* closeStream(): the driver is stopped if the stream runs, and removed, ...
AsioCloseDriver ==
  /\ At("user", "close") /\ NoCallback("user")
  /\ Goto("user", "free")
  /\ stream_' = [Freed(stream_, {"device0", "driver"}) EXCEPT
       !.state = IF @ = "RUNNING" THEN "STOPPED" ELSE @]
  /\ device' = InitDevice
  /\ UNCHANGED <<api, handle, doStopStream, process, opens, starts, hist>>

\* ... then the memory.
AsioCloseFree ==
  /\ At("user", "free")
  /\ stream_' = [Freed(stream_, UserBuffers \cup {"handle", "deviceBuffer"})
                   EXCEPT !.state = "CLOSED", !.mode = "UNINITIALIZED"]
  /\ pc' = [Deleted({"wait"}) EXCEPT !["user"] = "idle"]
  /\ UNCHANGED <<api, handle, device, doStopStream, process, opens, starts, hist>>

-----------------------------------------------------------------------------
(* The driver's callbacks.                                                 *)

\* sampleRateChanged(): stopStream(), in the driver's thread.
AsioSampleRateChanged ==
  /\ At("audio", "none") /\ "device0" \in device.running
  /\ Goto("audio", "stop") /\ Meddled
  /\ UNCHANGED <<api, stream_, handle, device, doStopStream, process, opens, starts>>

AsioEnter == Enter("device0", SetEvent)
AsioCallback == Callback
AsioReturned == Returned(AbortInThread)
AsioTransfer == Transfer

AsioNext ==
  /\ api = "ASIO"
  /\ \/ OpenStream(Single(AsioProbe), Second(AsioProbe)) \/ GetDeviceInfo(AsioInfo(stream_))
     \/ AsioStart \/ AsioRun
     \/ \E t \in Threads : AsioDrain(t) \/ AsioWait(t) \/ AsioMark(t) \/ AsioHalt(t)
     \/ AsioAbort("user") \/ Dangling("helper", {})
     \/ AsioCloseDriver \/ AsioCloseFree \/ AsioSampleRateChanged
     \/ AsioEnter \/ AsioCallback \/ AsioReturned \/ AsioTransfer
=============================================================================
