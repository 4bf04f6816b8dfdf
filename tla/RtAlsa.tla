-------------------------------- MODULE RtAlsa -------------------------------
(***************************************************************************)
(* RtApiAlsa.  One thread per stream makes the callbacks; while the stream *)
(* is stopped it waits on a condition variable until `runnable'.           *)
(***************************************************************************)
EXTENDS RtApi

-----------------------------------------------------------------------------
(* probeDeviceOpen().                                                      *)

\* Find the device among the cards; the control handle of "default", when that
\* is asked, is never closed.
AlsaFind(s) ==
  UNION {{Success(t), Failure(t)} : t \in {s, [s EXCEPT !.leaked = @ \cup {"ctl"}]}}

\* Open it, agree on access, format and byte order; every failure closes it.
AlsaOpenPcm(s, m) == {Failure(s), Success(Got(s, {Device(m)}))}

\* Rate, channels, period, number of periods, the same buffer size as the
\* output's; every failure closes it.
AlsaParameters(s, m) == {Failure(Freed(s, {Device(m)})), Success(s)}

\* The label `error': everything is released, of the output's device too, whose
\* thread waits on the handle that is deleted.
AlsaError(s) ==
  Failure([Freed(s, Resources \ {"ctl", "thread"}) EXCEPT !.state = "CLOSED"])

\* Handle, buffers, state and mode, and the thread, one for both devices; the
\* failures go to `error'.
AlsaSetUp(s, m) ==
  {AlsaError(s)} \cup
  {Success(IF t.mode = "DUPLEX" THEN t
           ELSE [Got(t, {"thread"}) EXCEPT !.isRunning = TRUE]) :
     t \in {Opened(Got(b, {"handle"}), m) : b \in WithBuffers(s, m)}}

AlsaProbe(s, m) ==
  Then(Then(Then(AlsaFind(s),
                 LAMBDA t : AlsaOpenPcm(t, m)),
            LAMBDA t : AlsaParameters(t, m)),
       LAMBDA t : AlsaSetUp(t, m))

-----------------------------------------------------------------------------
(* The application's calls.                                                *)

\* getDeviceCount(): the control handle of a card that could not be opened is
\* closed nevertheless.
AlsaCount(s) == {Answer(s), Undefined(s)}

\* getDeviceInfo() looks for the device the same way.  One of the stream's own is
\* answered for from what was saved before it was opened, any other is opened
\* and closed; the control handle of "default" stays open when a device beyond
\* the last is asked for.
AlsaInfo(s) == AlsaCount(s) \cup {Answer([s EXCEPT !.leaked = @ \cup {"ctl"}])}

\* Under the mutex: the devices are prepared, or that fails; the thread is
\* woken in either case.
AlsaStart ==
  /\ At("user", "start")
  /\ \/ /\ stream_' = [stream_ EXCEPT !.state = "RUNNING"]
        /\ hist' = Started(hist)
     \/ UNCHANGED <<stream_, hist>>
  /\ handle' = [handle EXCEPT !.runnable = TRUE]
  /\ Return("user")
  /\ UNCHANGED <<api, device, doStopStream, process, opens, starts>>

\* stopStream() and abortStream(), in any thread: the state, before the mutex
\* is taken; ...
AlsaMark(t) ==
  /\ At(t, "stopping") \/ At(t, "aborting")
  /\ stream_' = [stream_ EXCEPT !.state = "STOPPED"]
  /\ Goto(t, IF pc[t] = "stopping" THEN "drain" ELSE "drop")
  /\ UNCHANGED <<api, handle, device, doStopStream, process, opens, starts, hist>>

\* stopStream() that drops what abortStream() would.
AlsaHaltDropping(t) ==
  /\ At(t, "drain") \/ At(t, "drop")
  /\ handle' = [handle EXCEPT !.runnable = FALSE]
  /\ \/ /\ Return(t) /\ UNCHANGED process
        /\ hist' = StopReturned(t, Silenced(hist, FALSE))
     \/ Throw(t) /\ hist' = StopReturned(t, hist)
  /\ UNCHANGED <<api, stream_, device, doStopStream, opens, starts>>

\* ... then, under it, the output is played out or dropped, dropped always if
\* it is linked with the input; or that fails.
AlsaHalt(t) ==
  /\ At(t, "drain") \/ At(t, "drop")
  /\ handle' = [handle EXCEPT !.runnable = FALSE]
  /\ \/ /\ Return(t) /\ UNCHANGED process
        /\ hist' = StopReturned(t, Silenced(hist,
                     pc[t] = "drain" /\ ~(stream_.mode = "DUPLEX" /\ handle.synchronized)))
     \/ Throw(t) /\ hist' = StopReturned(t, hist)
  /\ UNCHANGED <<api, stream_, device, doStopStream, opens, starts>>

\* closeStream() that does not wake a thread that waits.
AlsaCloseAsleep ==
  /\ At("user", "close")
  /\ IF stream_.state = "CLOSED" THEN Goto("user", "idle") /\ UNCHANGED stream_
     ELSE Goto("user", "join") /\ stream_' = [stream_ EXCEPT !.isRunning = FALSE]
  /\ UNCHANGED <<api, handle, device, doStopStream, process, opens, starts, hist>>

\* closeStream(): the thread is told to end, and woken if it waits, ...
AlsaCloseWake ==
  /\ At("user", "close")
  /\ IF stream_.state = "CLOSED"
     THEN Goto("user", "idle") /\ UNCHANGED <<stream_, handle>>
     ELSE /\ Goto("user", "join")
          /\ stream_' = [stream_ EXCEPT !.isRunning = FALSE]
          /\ handle' = [handle EXCEPT !.runnable = @ \/ stream_.state = "STOPPED"]
  /\ UNCHANGED <<api, device, doStopStream, process, opens, starts, hist>>

\* closeStream() without pthread_join().
AlsaCloseFreeAtOnce ==
  /\ At("user", "join")
  /\ stream_' = [Freed(stream_, Resources) EXCEPT !.state = "CLOSED", !.mode = "UNINITIALIZED"]
  /\ Goto("user", "idle")
  /\ UNCHANGED <<api, handle, device, doStopStream, process, opens, starts, hist>>

\* ... joined, and everything released.
AlsaCloseFree ==
  /\ At("user", "join") /\ pc["audio"] = "ended"
  /\ stream_' = [Freed(stream_, Resources) EXCEPT !.state = "CLOSED", !.mode = "UNINITIALIZED"]
  /\ pc' = [pc EXCEPT !["user"] = "idle", !["audio"] = "none"]
  /\ UNCHANGED <<api, handle, device, doStopStream, process, opens, starts, hist>>

-----------------------------------------------------------------------------
(* The callback thread.                                                    *)

\* alsaCallbackHandler() and the first look at the state in callbackEvent().
AlsaLoop ==
  /\ At("audio", "loop")
  /\ Goto("audio", CASE ~stream_.isRunning -> "ended"
                     [] stream_.state = "CLOSED" -> "loop"
                     [] stream_.state = "STOPPED" -> "lock"
                     [] OTHER -> "callback")
  /\ UNCHANGED <<api, stream_, handle, device, doStopStream, process, opens, starts, hist>>

\* Under the mutex: wait until runnable, then see whether the stream runs.
AlsaWait ==
  /\ At("audio", "lock") /\ handle.runnable
  /\ Goto("audio", IF stream_.state = "RUNNING" THEN "callback" ELSE "loop")
  /\ UNCHANGED <<api, stream_, handle, device, doStopStream, process, opens, starts, hist>>

AlsaCallback == UserCallback([r \in 0 .. 2 |-> IF r = 2 THEN "abort" ELSE "io"])

\* Under the mutex: the input is read and the output written, unless the
\* stream was stopped meanwhile; an error is a warning.
AlsaTransfer ==
  /\ At("audio", "io")
  /\ hist' \in IF stream_.state = "STOPPED" \/ ~Plays(stream_) THEN {hist}
               ELSE {hist, [hist EXCEPT !.unplayed = TRUE]}
  /\ Goto("audio", IF doStopStream = 1 THEN "stop" ELSE "loop")
  /\ UNCHANGED <<api, stream_, handle, device, doStopStream, process, opens, starts>>

\* The application's thread within a call, and the callback thread.
AlsaUser ==
  /\ api = "ALSA"
  /\ AlsaStart \/ AlsaMark("user") \/ AlsaHalt("user") \/ AlsaCloseWake \/ AlsaCloseFree
AlsaAudio ==
  /\ api = "ALSA"
  /\ \/ AlsaMark("audio") \/ AlsaHalt("audio")
     \/ AlsaLoop \/ AlsaWait \/ AlsaCallback \/ AlsaTransfer
AlsaNext ==
  \/ /\ api = "ALSA"
     /\ \/ OpenStream(Single(AlsaProbe), Second(AlsaProbe))
        \/ GetDeviceInfo(AlsaInfo(stream_))
  \/ AlsaUser \/ AlsaAudio
=============================================================================
