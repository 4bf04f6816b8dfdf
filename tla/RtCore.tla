-------------------------------- MODULE RtCore -------------------------------
(***************************************************************************)
(* RtApiCore.  Each device of a stream has a callback of its own           *)
(* ("device0", "device1": the IOProc); both directions of one device share *)
(* the output's.                                                           *)
(***************************************************************************)
EXTENDS RtDriver

-----------------------------------------------------------------------------
(* probeDeviceOpen().                                                      *)

\* The device, and streams of it with the channels asked for.
CoreFind(s) == {Failure(s), Success(s)}

\* Buffer size, exclusive use ("hog") if asked for, and rate; a failure after
\* the use was granted keeps it.
CoreRate(s) == {Failure(s), Success(s), Failure(Got(s, {"hog"})), Success(Got(s, {"hog"}))}

\* Virtual and physical format.
CoreFormats(s) == {Failure(s), Success(s)}

\* The label `error': the memory is released, the callback of a device opened
\* before stays with the driver.
CoreError(s) ==
  Failure([Freed(s, UserBuffers \cup {"handle", "deviceBuffer"}) EXCEPT !.state = "CLOSED"])

\* Handle, buffers, state; the callback, unless the output's is for both.
CoreSetUp(s, m) ==
  LET made == {Opened(Got(b, {"handle"}), m) : b \in WithBuffers(s, m)}
  IN {CoreError(s)}
     \cup {Success(Got(t, {Device(m)})) : t \in made}
     \cup {Success(t) : t \in {u \in made : u.mode = "DUPLEX"}}

CoreProbe(s, m) ==
  Then(Then(Then(CoreFind(s), CoreRate), CoreFormats), LAMBDA t : CoreSetUp(t, m))

-----------------------------------------------------------------------------
(* The application's calls.                                                *)

Procs == stream_.owned \cap Devices

\* startStream(): the devices, output first, ...
CoreStart ==
  /\ At("user", "start") /\ HasHandle
  /\ \/ DriverStarted(Procs)
     \/ \E running \in {device.running, device.running \cup (Procs \cap {"device0"})} :
          DriverRefused(running)
  /\ UNCHANGED <<api, doStopStream, process, opens, starts>>

\* ... then the state.
CoreRun == Run

TwoDevices == stream_.mode = "DUPLEX" /\ "device1" \in stream_.owned
OwnInput == stream_.mode = "INPUT" \/ TwoDevices

\* Without an output the handle is read, and first used for the input.
CoreDrain(t) == Drain(t, IF HasHandle THEN "haltInput" ELSE "staleInput")
CoreWait(t) == CondWait(t)

\* The device of the output is stopped, ...
CoreHalt(t) ==
  /\ At(t, "halt") /\ NoCallback(t)
  /\ \/ /\ device' = [device EXCEPT !.running = @ \ {"device0"}]
        /\ hist' = Silenced(hist, FALSE)
        /\ Goto(t, "haltInput") /\ UNCHANGED process
     \/ Throw(t) /\ UNCHANGED <<device, hist>>
  /\ UNCHANGED <<api, stream_, handle, doStopStream, opens, starts>>

\* ... then that of the input, if it has one; a failure leaves the state as it is.
CoreHaltInput(t) ==
  /\ At(t, "haltInput")
  /\ \/ ~OwnInput /\ Goto(t, "halted") /\ UNCHANGED <<device, process>>
     \/ /\ OwnInput /\ (TwoDevices \/ NoCallback(t))
        /\ \/ /\ device' = [device EXCEPT !.running = @ \ {"device1"}]
              /\ Goto(t, "halted") /\ UNCHANGED process
           \/ Throw(t) /\ UNCHANGED device
  /\ UNCHANGED <<api, stream_, handle, doStopStream, opens, starts, hist>>

\* The same in a stream closed before: no input to stop, or one of a stream
\* opened since, by a handle that was deleted.
CoreStaleInput(t) ==
  /\ At(t, "staleInput")
  /\ IF OwnInput THEN process' = "undefined" /\ UNCHANGED pc
     ELSE Goto(t, "halted") /\ UNCHANGED process
  /\ UNCHANGED <<api, stream_, handle, device, doStopStream, opens, starts, hist>>

CoreStopped(t) == Stopped(t)

CoreAbort(t) == Abort(t, 2)

\* closeStream(): the callbacks are taken from the driver, ...
CoreCloseDevice ==
  /\ At("user", "close") /\ NoCallback("user")
  /\ IF stream_.state = "CLOSED" THEN Goto("user", "idle") /\ UNCHANGED <<stream_, device>>
     ELSE /\ Goto("user", "free")
          /\ device' = InitDevice
          /\ stream_' = Freed(stream_, Devices)
  /\ UNCHANGED <<api, handle, doStopStream, process, opens, starts, hist>>

\* ... and the memory released.
CoreCloseFree ==
  /\ At("user", "free") /\ HasHandle
  /\ stream_' = [Freed(stream_, UserBuffers \cup {"handle", "deviceBuffer"})
                   EXCEPT !.state = "CLOSED", !.mode = "UNINITIALIZED"]
  /\ pc' = [u \in Threads |->
       CASE u = "user" -> "idle"
         [] pc[u] = "haltInput" -> "staleInput"
         [] OTHER -> Deleted({"wait", "waiting", "halt"})[u]]
  /\ UNCHANGED <<api, handle, device, doStopStream, process, opens, starts, hist>>

-----------------------------------------------------------------------------
(* The driver's callbacks.                                                 *)

CoreEnter ==
  \E d \in Procs : ~(TwoDevices /\ d = "device1") /\ Enter(d, CondSignal)

\* The input device of two has a thread of its own, which never calls the
\* application but counts, and sees the end, like the output's.
CoreEnterInput ==
  /\ process = "running" /\ TwoDevices /\ "device1" \in device.running
  /\ stream_.state = "RUNNING"
  /\ IF handle.drainCounter > 3
     THEN /\ stream_' = [stream_ EXCEPT !.state = "STOPPING"]
          /\ IF handle.internalDrain
             THEN pc["helper"] = "none" /\ Goto("helper", "stop") /\ UNCHANGED handle
             ELSE CondSignal
     ELSE /\ handle.drainCounter > 0
          /\ handle' = [handle EXCEPT !.drainCounter = @ + 1]
          /\ UNCHANGED <<stream_, pc>>
  /\ UNCHANGED <<api, device, doStopStream, process, opens, starts, hist>>

CoreCallback == Callback
CoreReturned == Returned(AbortHere)
CoreTransfer == Transfer

CoreNext ==
  /\ api = "CORE"
  /\ \/ OpenStream(Single(CoreProbe), Second(CoreProbe))
     \/ CoreStart \/ CoreRun
     \/ \E t \in Threads :
          CoreDrain(t) \/ CoreWait(t) \/ CoreHalt(t) \/ CoreHaltInput(t) \/ CoreStopped(t) \/ CoreAbort(t)
     \/ CoreStaleInput("helper") \/ Dangling("helper", {}) \/ Dangling("user", {"start", "free"})
     \/ CoreCloseDevice \/ CoreCloseFree
     \/ CoreEnter \/ CoreEnterInput \/ CoreCallback \/ CoreReturned \/ CoreTransfer
=============================================================================
