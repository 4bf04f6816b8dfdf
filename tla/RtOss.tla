--------------------------------- MODULE RtOss -------------------------------
(***************************************************************************)
(* RtApiOss.  One thread per stream; while the stream is stopped it waits  *)
(* on a condition variable, without looking at what it waits for.          *)
(***************************************************************************)
EXTENDS RtApi

-----------------------------------------------------------------------------
(* probeDeviceOpen().                                                      *)

\* The mixer is asked for the device and what it can do, and closed.
OssFind(s) == {Failure(s), Success(s)}

\* Open it.  For both directions of one device the output's descriptor is
\* closed first, and what is opened then serves both.
OssOpen(s, m) ==
  LET closed == IF m = "INPUT" /\ s.mode = "OUTPUT" THEN {s, Freed(s, {"device0"})} ELSE {s}
  IN UNION {{Failure(t), Success(Got(t, {Device(m)}))} : t \in closed}

\* Channels, format, fragments, rate; every failure closes the descriptor.
OssParameters(s, m) == {Failure(Freed(s, {Device(m)})), Success(s)}

\* The label `error': everything is released if there is a handle, and the
\* state left alone, the thread too.
OssError(s) == Failure(Freed(s, Resources \ {"thread"}))

\* Without a handle, or with one the descriptor is not yet in, it stays open.
OssHandle(s, m) ==
  {Success(Got(s, {"handle"}))}
  \cup (IF "handle" \in s.owned THEN {} ELSE {OssError(Lost(s, {Device(m)}))})

\* Buffers, state, mode, and the thread, one for both directions.
OssSetUp(s, m) ==
  {OssError(s)} \cup
  UNION {IF t.mode = "DUPLEX" THEN {Success(t)}
         ELSE {OssError(t), Success([Got(t, {"thread"}) EXCEPT !.isRunning = TRUE])} :
           t \in {Opened(b, m) : b \in WithBuffers(s, m)}}

OssProbe(s, m) ==
  Then(Then(Then(Then(OssFind(s),
                      LAMBDA t : OssOpen(t, m)),
                 LAMBDA t : OssParameters(t, m)),
            LAMBDA t : OssHandle(t, m)),
       LAMBDA t : OssSetUp(t, m))

-----------------------------------------------------------------------------
(* The application's calls.                                                *)

\* pthread_cond_signal(), to a thread that waits or to nobody; the handle that
\* `error' deleted is a NULL pointer.
OssSignal(user) ==
  IF "handle" \in stream_.owned
  THEN /\ pc' = [pc EXCEPT !["user"] = user,
                           !["audio"] = IF @ = "waiting" THEN "woken" ELSE @]
       /\ UNCHANGED process
  ELSE process' = "aborted" /\ UNCHANGED pc

\* startStream(): the state under the mutex, ...
OssStart ==
  /\ At("user", "start")
  /\ stream_' = [stream_ EXCEPT !.state = "RUNNING"]
  /\ hist' = Started(hist)
  /\ Goto("user", "signal")
  /\ UNCHANGED <<api, handle, device, doStopStream, process, opens, starts>>

\* ... the signal after it.
OssStartSignal ==
  /\ At("user", "signal")
  /\ OssSignal("idle")
  /\ UNCHANGED <<api, stream_, handle, device, doStopStream, opens, starts, hist>>

\* stopStream() and abortStream(), in any thread, under the mutex: buffers of
\* silence are played after the application's, or none, and the devices halted.
OssHalt(t) ==
  /\ At(t, "stopping") \/ At(t, "aborting")
  /\ IF stream_.state = "STOPPED"
     THEN Return(t) /\ hist' = StopReturned(t, hist) /\ UNCHANGED <<stream_, process>>
     ELSE /\ stream_' = [stream_ EXCEPT !.state = "STOPPED"]
          /\ \/ /\ Return(t) /\ UNCHANGED process
                /\ hist' = StopReturned(t, Silenced(hist, pc[t] = "stopping"))
             \/ Throw(t) /\ hist' = StopReturned(t, hist)
  /\ UNCHANGED <<api, handle, device, doStopStream, opens, starts>>

\* closeStream(): the thread is told to end, and a signal sent if the stream is
\* stopped, ...
OssCloseWake ==
  /\ At("user", "close")
  /\ IF stream_.state = "CLOSED"
     THEN Goto("user", "idle") /\ UNCHANGED <<stream_, process>>
     ELSE /\ stream_' = [stream_ EXCEPT !.isRunning = FALSE]
          /\ IF stream_.state = "STOPPED" THEN OssSignal("join")
             ELSE Goto("user", "join") /\ UNCHANGED process
  /\ UNCHANGED <<api, handle, device, doStopStream, opens, starts, hist>>

\* closeStream() that forgets the buffer in the device's format.
OssCloseForgetting ==
  /\ At("user", "join") /\ pc["audio"] = "ended"
  /\ stream_' = [Freed(stream_, Resources \ {"deviceBuffer"})
                   EXCEPT !.state = "CLOSED", !.mode = "UNINITIALIZED"]
  /\ pc' = [pc EXCEPT !["user"] = "idle", !["audio"] = "none"]
  /\ UNCHANGED <<api, handle, device, doStopStream, process, opens, starts, hist>>

\* ... the thread joined, and everything released.
OssCloseFree ==
  /\ At("user", "join") /\ pc["audio"] = "ended"
  /\ stream_' = [Freed(stream_, Resources) EXCEPT !.state = "CLOSED", !.mode = "UNINITIALIZED"]
  /\ pc' = [pc EXCEPT !["user"] = "idle", !["audio"] = "none"]
  /\ UNCHANGED <<api, handle, device, doStopStream, process, opens, starts, hist>>

-----------------------------------------------------------------------------
(* The callback thread.                                                    *)

\* ossCallbackHandler() and the first look at the state in callbackEvent().
OssLoop ==
  /\ At("audio", "loop")
  /\ Goto("audio", CASE ~stream_.isRunning -> "ended"
                     [] stream_.state = "CLOSED" -> "loop"
                     [] stream_.state = "STOPPED" -> "lock"
                     [] OTHER -> "callback")
  /\ UNCHANGED <<api, stream_, handle, device, doStopStream, process, opens, starts, hist>>

\* pthread_cond_wait(), once: a signal sent before is not seen.
OssWait ==
  /\ At("audio", "lock")
  /\ Goto("audio", "waiting")
  /\ UNCHANGED <<api, stream_, handle, device, doStopStream, process, opens, starts, hist>>

OssWoken ==
  /\ At("audio", "woken")
  /\ Goto("audio", IF stream_.state = "RUNNING" THEN "callback" ELSE "loop")
  /\ UNCHANGED <<api, stream_, handle, device, doStopStream, process, opens, starts, hist>>

OssCallback == UserCallback([r \in 0 .. 2 |-> IF r = 2 THEN "abort" ELSE "io"])

\* Under the mutex: the output is written, the input read, unless the stream
\* was stopped meanwhile; an error is a warning.
OssTransfer ==
  /\ At("audio", "io")
  /\ hist' \in IF stream_.state = "STOPPED" \/ ~Plays(stream_) THEN {hist}
               ELSE {hist, [hist EXCEPT !.unplayed = TRUE]}
  /\ Goto("audio", IF doStopStream = 1 THEN "stop" ELSE "loop")
  /\ UNCHANGED <<api, stream_, handle, device, doStopStream, process, opens, starts>>

OssNext ==
  /\ api = "OSS"
  /\ \/ OpenStream(Single(OssProbe), Second(OssProbe))
     \/ OssStart \/ OssStartSignal
     \/ \E t \in {"user", "audio"} : OssHalt(t)
     \/ OssCloseWake \/ OssCloseFree
     \/ OssLoop \/ OssWait \/ OssWoken \/ OssCallback \/ OssTransfer
=============================================================================
