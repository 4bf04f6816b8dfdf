-------------------------------- MODULE RtPulse ------------------------------
(***************************************************************************)
(* RtApiPulse.  Like RtApiAlsa one thread per stream; but `runnable' stays *)
(* set once the stream was started, so that the thread of a stopped stream *)
(* goes round without waiting.                                             *)
(***************************************************************************)
EXTENDS RtApi

-----------------------------------------------------------------------------
(* probeDeviceOpen().                                                      *)

\* Device, channels, rate, format.
PulseParameters(s) == {Failure(s), Success(s)}

\* The label `error'.  The variable pah it looks at is set only after the
\* handle was made; the connections of a handle it deletes stay open.
PulseError(s, pah) ==
  LET t == Freed(s, UserBuffers \cup {"deviceBuffer"})
  IN Failure(IF pah /\ s.isRunning THEN Lost(Freed(t, {"handle"}), Devices) ELSE t)

PulseBuffers(s, m) ==
  {PulseError(s, FALSE)} \cup {Success(b) : b \in WithBuffers(s, m)}

\* The handle, if there is none yet, and the connection to the server.
PulseConnect(s, m) ==
  LET t == Got(s, {"handle"})
  IN {PulseError(t, TRUE), Success(Got(t, {Device(m)}))}
     \cup (IF "handle" \in s.owned THEN {} ELSE {PulseError(t, FALSE)})

\* Mode, state and thread: isRunning is set before the thread exists.
PulseThread(s, m) ==
  IF s.isRunning THEN {Success(Opened(s, m))}
  ELSE LET t == [s EXCEPT !.mode = NewMode(s, m), !.isRunning = TRUE]
       IN {PulseError(t, TRUE), Success(Got(Opened(t, m), {"thread"}))}

PulseProbe(s, m) ==
  Then(Then(Then(PulseParameters(s),
                 LAMBDA t : PulseBuffers(t, m)),
            LAMBDA t : PulseConnect(t, m)),
       LAMBDA t : PulseThread(t, m))

-----------------------------------------------------------------------------
(* The application's calls.                                                *)

PulseStart ==
  /\ At("user", "start")
  /\ stream_' = [stream_ EXCEPT !.state = "RUNNING"]
  /\ handle' = [handle EXCEPT !.runnable = TRUE]
  /\ hist' = Started(hist)
  /\ Return("user")
  /\ UNCHANGED <<api, device, doStopStream, process, opens, starts>>

\* stopStream() and abortStream(), in any thread: the state, before the mutex
\* is taken; ...
PulseMark(t) ==
  /\ At(t, "stopping") \/ At(t, "aborting")
  /\ stream_' = [stream_ EXCEPT !.state = "STOPPED"]
  /\ Goto(t, IF pc[t] = "stopping" THEN "drain" ELSE "drop")
  /\ UNCHANGED <<api, handle, device, doStopStream, process, opens, starts, hist>>

\* ... then, under it, the output played out or flushed and the state once
\* more; or that fails.
PulseHalt(t) ==
  /\ At(t, "drain") \/ At(t, "drop")
  /\ \/ /\ Return(t)
        /\ stream_' = [stream_ EXCEPT !.state = "STOPPED"]
        /\ hist' = StopReturned(t, Silenced(hist, pc[t] = "drain"))
        /\ UNCHANGED process
     \/ /\ "device0" \in stream_.owned
        /\ Throw(t)
        /\ hist' = StopReturned(t, hist)
        /\ UNCHANGED stream_
  /\ UNCHANGED <<api, handle, device, doStopStream, opens, starts>>

\* closeStream(): without a handle, which a failure to open the second device
\* has deleted, the thread is not joined; else it is told to end and woken if
\* it waits, ...
PulseCloseWake ==
  /\ At("user", "close")
  /\ Goto("user", IF "handle" \in stream_.owned THEN "join" ELSE "free")
  /\ stream_' = [stream_ EXCEPT !.isRunning = FALSE]
  /\ handle' = [handle EXCEPT
       !.runnable = @ \/ ("handle" \in stream_.owned /\ stream_.state = "STOPPED")]
  /\ UNCHANGED <<api, device, doStopStream, process, opens, starts, hist>>

\* ... joined, and its handle deleted.
PulseJoin ==
  /\ At("user", "join") /\ pc["audio"] = "ended"
  /\ stream_' = Freed(stream_, Devices \cup {"handle", "thread"})
  /\ pc' = [pc EXCEPT !["user"] = "free", !["audio"] = "none"]
  /\ UNCHANGED <<api, handle, device, doStopStream, process, opens, starts, hist>>

\* The application's buffers are released, the device's is not.
PulseCloseFree ==
  /\ At("user", "free")
  /\ stream_' = [Freed(stream_, UserBuffers) EXCEPT !.state = "CLOSED", !.mode = "UNINITIALIZED"]
  /\ Return("user")
  /\ UNCHANGED <<api, handle, device, doStopStream, process, opens, starts, hist>>

-----------------------------------------------------------------------------
(* The callback thread.                                                    *)

\* pulseaudio_callback() that does not look at the state.
PulseLoopUnchecked ==
  /\ At("audio", "loop")
  /\ Goto("audio", IF stream_.isRunning THEN "callback" ELSE "ended")
  /\ UNCHANGED <<api, stream_, handle, device, doStopStream, process, opens, starts, hist>>

\* pulseaudio_callback() and the first look at the state in callbackEvent().
PulseLoop ==
  /\ At("audio", "loop")
  /\ Goto("audio", CASE ~stream_.isRunning -> "ended"
                     [] stream_.state = "CLOSED" -> "loop"
                     [] stream_.state = "STOPPED" -> "lock"
                     [] OTHER -> "callback")
  /\ UNCHANGED <<api, stream_, handle, device, doStopStream, process, opens, starts, hist>>

\* Under the mutex: wait until runnable, then see whether the stream runs.
PulseWait ==
  /\ At("audio", "lock") /\ handle.runnable
  /\ Goto("audio", IF stream_.state = "RUNNING" THEN "callback" ELSE "loop")
  /\ UNCHANGED <<api, stream_, handle, device, doStopStream, process, opens, starts, hist>>

PulseCallback == UserCallback([r \in 0 .. 2 |-> IF r = 2 THEN "abort" ELSE "io"])

\* Under the mutex: the output is written, the input read, if the stream still
\* runs; an error is a warning.
PulseTransfer ==
  /\ At("audio", "io")
  /\ hist' \in IF stream_.state # "RUNNING" \/ ~Plays(stream_) THEN {hist}
               ELSE {hist, [hist EXCEPT !.unplayed = TRUE]}
  /\ Goto("audio", IF doStopStream = 1 THEN "stop" ELSE "loop")
  /\ UNCHANGED <<api, stream_, handle, device, doStopStream, process, opens, starts>>

\* The application's thread within a call, and the callback thread.
PulseUser ==
  /\ api = "PULSE"
  /\ \/ PulseStart \/ PulseMark("user") \/ PulseHalt("user")
     \/ PulseCloseWake \/ PulseJoin \/ PulseCloseFree
PulseAudio ==
  /\ api = "PULSE"
  /\ \/ PulseMark("audio") \/ PulseHalt("audio")
     \/ PulseLoop \/ PulseWait \/ PulseCallback \/ PulseTransfer
PulseNext ==
  \/ api = "PULSE" /\ OpenStream(Single(PulseProbe), Second(PulseProbe))
  \/ PulseUser \/ PulseAudio
=============================================================================
