------------------------------- MODULE RtWasapi ------------------------------
(***************************************************************************)
(* RtApiWasapi.  A thread for every start of a stream; stopStream() asks   *)
(* it to end by the state STOPPING and waits for STOPPED.  The application *)
(* that asks for the end in its callback has stopStream() called by a      *)
(* thread of its own.  A start while the last one's thread is still there  *)
(* is left out.                                                            *)
(***************************************************************************)
EXTENDS RtApi

WasapiMemory == Devices \cup UserBuffers \cup {"handle", "deviceBuffer"}
WasapiFreed(s) == [Freed(s, WasapiMemory) EXCEPT !.state = "CLOSED"]

-----------------------------------------------------------------------------
(* probeDeviceOpen().  Its failures close the stream and are thrown.       *)

WasapiFailure(s) == Thrown(WasapiFreed(s))

\* State and handle; devices and rate.  An exception in getDeviceInfo() leaves
\* the stream stopped, and open.
WasapiFind(s) ==
  LET t == [Got(s, {"handle"}) EXCEPT !.state = "STOPPED"]
  IN {WasapiFailure(t), Thrown(t), Success(t)}

\* The device, of the direction asked for.
WasapiDevice(s, m) ==
  LET t == Got(s, {Device(m)}) IN {WasapiFailure(s), WasapiFailure(t), Success(t)}

\* Mode and the application's buffer.
WasapiSetUp(s, m) ==
  LET t == [s EXCEPT !.mode = NewMode(s, m)]
  IN {WasapiFailure(t), Success(Got(t, {UserBuffer(m)}))}

WasapiProbe(s, m) ==
  Then(Then(WasapiFind(s), LAMBDA t : WasapiDevice(t, m)), LAMBDA t : WasapiSetUp(t, m))

-----------------------------------------------------------------------------
(* The application's calls.                                                *)

\* getDeviceInfo() releases all it took, on every path; but an error before the
\* two names were asked for clears variants that were never initialised.
WasapiInfo(s) == {Answer(s), Undefined(s)}

\* startStream(): the state is set, whether or not there is a thread then.
WasapiStart ==
  /\ At("user", "start") /\ pc["audio"] = "none"
  /\ \/ /\ stream_' = [Got(stream_, {"thread"}) EXCEPT !.state = "RUNNING"]
        /\ pc' = [pc EXCEPT !["user"] = "idle", !["audio"] = "setup"]
        /\ handle' = [handle EXCEPT !.internalDrain = FALSE]
        /\ hist' = Started(hist)
     \/ /\ stream_' = [stream_ EXCEPT !.state = "RUNNING"]
        /\ Return("user") /\ UNCHANGED <<handle, hist>>
  /\ UNCHANGED <<api, device, doStopStream, process, opens, starts>>

StopAt == [stopping |-> "waitStop", aborting |-> "waitAbort", closing |-> "waitClose"]
HaltAt == [waitStop |-> "haltStop", waitAbort |-> "haltAbort", waitClose |-> "haltClose"]

\* stopStream() and abortStream(), the first in closeStream() too: the state, ...
WasapiMark(t) ==
  /\ process = "running" /\ pc[t] \in DOMAIN StopAt
  /\ stream_' = [stream_ EXCEPT !.state = "STOPPING"]
  /\ Goto(t, StopAt[pc[t]])
  /\ UNCHANGED <<api, handle, device, doStopStream, process, opens, starts, hist>>

\* ... the thread's answer, ...
WasapiWait(t) ==
  /\ process = "running" /\ pc[t] \in DOMAIN HaltAt
  /\ stream_.state = "STOPPED"
  /\ Goto(t, HaltAt[pc[t]])
  /\ UNCHANGED <<api, stream_, handle, device, doStopStream, process, opens, starts, hist>>

\* ... and, a buffer's time later, the devices, or not, in a handle that may
\* have been deleted meanwhile.
WasapiHalt(t) ==
  /\ process = "running" /\ pc[t] \in {"haltStop", "haltAbort", "haltClose"}
  /\ \/ /\ "handle" \in stream_.owned
        /\ stream_' = Freed(stream_, {"thread"})
        /\ hist' = StopReturned(t, Silenced(hist, FALSE))
        /\ IF pc[t] = "haltClose" THEN Goto(t, "free") ELSE Return(t)
        /\ UNCHANGED process
     \/ "handle" \in stream_.owned /\ Throw(t) /\ UNCHANGED <<stream_, hist>>
     \/ /\ "handle" \notin stream_.owned /\ process' = "undefined"
        /\ UNCHANGED <<stream_, hist, pc>>
  /\ UNCHANGED <<api, handle, device, doStopStream, opens, starts>>

\* closeStream(): stopped first, if it is not, ...
WasapiClose ==
  /\ At("user", "close")
  /\ Goto("user", CASE stream_.state = "CLOSED" -> "idle"
                    [] stream_.state = "STOPPED" -> "free"
                    [] OTHER -> "closing")
  /\ UNCHANGED <<api, stream_, handle, device, doStopStream, process, opens, starts, hist>>

\* ... and released.
WasapiCloseFree ==
  /\ At("user", "free")
  /\ stream_' = WasapiFreed(stream_)
  /\ Return("user")
  /\ UNCHANGED <<api, handle, device, doStopStream, process, opens, starts, hist>>

-----------------------------------------------------------------------------
(* The thread, wasapiThread().                                             *)

\* An error anywhere in it ends the thread, and the process, by an exception.
WasapiThreadFails ==
  /\ process = "running" /\ pc["audio"] \in {"setup", "returned", "io"}
  /\ stream_' = [stream_ EXCEPT !.state = "STOPPED"]
  /\ process' = "aborted"
  /\ Goto("audio", "none")
  /\ UNCHANGED <<api, handle, device, doStopStream, opens, starts, hist>>

\* The devices start; the buffer of an earlier start is forgotten.  A stream
\* that was closed just before another thread's stopStream() set its state can
\* be started, without a handle.
WasapiThreadStart ==
  /\ At("audio", "setup")
  /\ IF "handle" \in stream_.owned
     THEN /\ stream_' = Got(Lost(stream_, {"deviceBuffer"}), {"deviceBuffer"})
          /\ Goto("audio", "loop") /\ UNCHANGED process
     ELSE process' = "undefined" /\ UNCHANGED <<stream_, pc>>
  /\ UNCHANGED <<api, handle, device, doStopStream, opens, starts, hist>>

\* Until STOPPING: the application is called when there is input for it, and
\* no more once it asked for the end.
WasapiLoop ==
  /\ At("audio", "loop")
  /\ IF stream_.state = "STOPPING"
     THEN stream_' = [stream_ EXCEPT !.state = "STOPPED"] /\ Goto("audio", "none")
     ELSE /\ UNCHANGED stream_
          /\ \/ Goto("audio", "io") /\ (handle.internalDrain \/ Records(stream_))
             \/ Goto("audio", "callback") /\ ~handle.internalDrain
  /\ UNCHANGED <<api, handle, device, doStopStream, process, opens, starts, hist>>

WasapiCallback == UserCallback([r \in 0 .. 2 |-> "returned"])

WasapiReturned ==
  /\ At("audio", "returned")
  /\ IF doStopStream = 0 THEN Goto("audio", "io") /\ UNCHANGED handle
     ELSE /\ pc["helper"] = "none"
          /\ pc' = [pc EXCEPT !["audio"] = "io",
                              !["helper"] = IF doStopStream = 1 THEN "stop" ELSE "abort"]
          /\ handle' = [handle EXCEPT !.internalDrain = TRUE]
  /\ UNCHANGED <<api, stream_, device, doStopStream, process, opens, starts, hist>>

\* Input to the ring buffer, output from one: not all of it goes to the device.
WasapiTransfer ==
  /\ At("audio", "io")
  /\ \E ringed \in BOOLEAN : hist' = [hist EXCEPT !.unplayed = Plays(stream_) /\ ringed]
  /\ Goto("audio", "loop")
  /\ UNCHANGED <<api, stream_, handle, device, doStopStream, process, opens, starts>>

WasapiNext ==
  /\ api = "WASAPI"
  /\ \/ OpenStream(Single(WasapiProbe), Second(WasapiProbe)) \/ GetDeviceInfo(WasapiInfo(stream_))
     \/ WasapiStart
     \/ \E t \in {"user", "helper"} : WasapiMark(t) \/ WasapiWait(t) \/ WasapiHalt(t)
     \/ WasapiClose \/ WasapiCloseFree
     \/ WasapiThreadFails \/ WasapiThreadStart
     \/ WasapiLoop \/ WasapiCallback \/ WasapiReturned \/ WasapiTransfer
=============================================================================
