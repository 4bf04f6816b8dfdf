-------------------------------- MODULE RtJack -------------------------------
(***************************************************************************)
(* RtApiJack.  One client of the server ("client") per stream, for both    *)
(* directions; the server may shut it down, and the stream is then closed  *)
(* by a thread of its own.                                                 *)
(***************************************************************************)
EXTENDS RtDriver

-----------------------------------------------------------------------------
(* probeDeviceOpen().                                                      *)

\* The client, or that of the output's handle.
JackClient(s, m) ==
  IF m = "INPUT" /\ s.mode = "OUTPUT" THEN {Success(s)}
  ELSE {Failure(s), Success(Got(s, {"client"}))}

\* Nobody keeps a client that is not yet in a handle.
JackForgotten(s) == IF "handle" \in s.owned THEN s ELSE Lost(s, {"client"})

\* Device and channels: a failure leaves the client open; the rate: one closes
\* it, be it the output's, which closeStream() then closes again.
JackParameters(s) ==
  {Failure(JackForgotten(s)), Failure(Freed(s, {"client"})), Success(s)}

\* The label `error': everything is released but the state, and with it the
\* client, if it is in the handle.
JackError(s) ==
  Failure(Freed(JackForgotten(s), UserBuffers \cup {"handle", "client", "deviceBuffer"}))

\* Handle, buffers, ports, state and mode.
JackSetUp(s, m) ==
  LET t == Got(s, {"handle"})
  IN {JackError(s), JackError(t)} \cup {Success(Opened(b, m)) : b \in WithBuffers(t, m)}

JackProbe(s, m) ==
  Then(Then(JackClient(s, m), JackParameters), LAMBDA t : JackSetUp(t, m))

-----------------------------------------------------------------------------
(* The application's calls.                                                *)

\* startStream(): the client is activated and its ports connected; a
\* connection that fails leaves it active, ...
JackStart ==
  /\ At("user", "start") /\ {"handle", "client"} \subseteq stream_.owned
  /\ \/ device.alive /\ DriverStarted({"device0"})
     \/ \E running \in {device.running} \cup (IF device.alive THEN {{"device0"}} ELSE {}) :
          DriverRefused(running)
  /\ UNCHANGED <<api, doStopStream, process, opens, starts>>

\* ... then the state.
JackRun == Run

JackDrain(t) == Drain(t, IF HasHandle THEN "halt" ELSE "dangling")
JackWait(t) == CondWait(t)

\* jack_deactivate(), ...
JackHalt(t) ==
  /\ At(t, "halt") /\ "client" \in stream_.owned /\ NoCallback(t)
  /\ device' = [device EXCEPT !.running = {}]
  /\ hist' = Silenced(hist, FALSE)
  /\ Goto(t, "halted")
  /\ UNCHANGED <<api, stream_, handle, doStopStream, process, opens, starts>>

\* ... and the state.
JackStopped(t) == Stopped(t)

JackAbort(t) == Abort(t, 2)

\* The server is called with the client of a handle that is there still, when
\* the client was closed before.
JackClosedClient(t) ==
  /\ At(t, "start") \/ At(t, "halt") \/ (At(t, "close") /\ StreamOpen)
  /\ HasHandle /\ "client" \notin stream_.owned
  /\ process' = "undefined"
  /\ UNCHANGED <<api, stream_, handle, device, pc, doStopStream, opens, starts, hist>>

\* closeStream(), of the application or of the thread jackShutdown() started:
\* the client, ...
JackCloseClient(t) ==
  /\ At(t, "close") /\ NoCallback(t)
  /\ \/ ~StreamOpen /\ Return(t) /\ UNCHANGED <<stream_, device>>
     \/ /\ StreamOpen /\ {"handle", "client"} \subseteq stream_.owned
        /\ Goto(t, "free")
        /\ device' = [device EXCEPT !.running = {}]
        /\ stream_' = Freed(stream_, {"client"})
  /\ UNCHANGED <<api, handle, doStopStream, process, opens, starts, hist>>

\* ... then the memory; without a handle there is no more to release.
JackCloseFree(t) ==
  /\ At(t, "free") \/ (At(t, "close") /\ StreamOpen /\ ~HasHandle)
  /\ stream_' = [Freed(stream_, UserBuffers \cup {"handle", "deviceBuffer"})
                   EXCEPT !.state = "CLOSED", !.mode = "UNINITIALIZED"]
  /\ pc' = [Deleted({"started", "wait", "waiting", "halt"}) EXCEPT ![t] = Resume(t)]
  /\ UNCHANGED <<api, handle, device, doStopStream, process, opens, starts, hist>>

-----------------------------------------------------------------------------
(* The server's callbacks.                                                 *)

\* jackShutdown(): the server is gone.
JackShutdown ==
  /\ At("audio", "none") /\ At("helper", "none")
  /\ device.alive /\ "client" \in stream_.owned
  /\ device' = [running |-> {}, alive |-> FALSE]
  /\ IF stream_.state = "RUNNING" THEN Goto("helper", "close") ELSE UNCHANGED pc
  /\ UNCHANGED <<api, stream_, handle, doStopStream, process, opens, starts, hist>>

JackEnter == Enter("device0", CondSignal)
JackCallback == Callback
JackReturned == Returned(AbortInThread)
JackTransfer == Transfer

JackNext ==
  /\ api = "JACK"
  /\ \/ OpenStream(Single(JackProbe), Second(JackProbe))
     \/ JackStart \/ JackRun
     \/ \E t \in {"user", "helper"} :
          \/ JackDrain(t) \/ JackWait(t) \/ JackHalt(t) \/ JackStopped(t)
          \/ JackCloseClient(t) \/ JackCloseFree(t)
          \/ JackClosedClient(t) \/ Dangling(t, {"start", "aborting"})
     \/ JackAbort("user") \/ JackShutdown
     \/ JackEnter \/ JackCallback \/ JackReturned \/ JackTransfer
=============================================================================
