------------------------------- MODULE RtAudio -------------------------------
(***************************************************************************)
(* A stream of RtAudio on any of its backends: the application calls, the  *)
(* backend's steps, and what has to hold of every one of them.             *)
(***************************************************************************)
EXTENDS RtAlsa, RtPulse, RtOss, RtCore, RtJack, RtAsio, RtDs, RtWasapi

\* The backends the code has (class RtApi's subclasses).
ASSUME RtAudioAssumption ==
  Apis \subseteq {"ALSA", "PULSE", "OSS", "DS", "WASAPI", "CORE", "JACK", "ASIO"}

Calls == StartCall \/ StopCall \/ CloseCall \/ \E t \in Threads : StopCheck(t)

Next ==
  \/ Calls
  \/ AlsaNext \/ PulseNext \/ OssNext \/ DsNext \/ WasapiNext
  \/ CoreNext \/ JackNext \/ AsioNext

Spec == RtApiInit /\ [][Next]_vars

\* Threads run, and the application's callback returns; nothing makes the
\* application call.
Fairness ==
  /\ WF_vars(AlsaUser) /\ WF_vars(AlsaAudio)
  /\ WF_vars(PulseUser) /\ WF_vars(PulseAudio)
  /\ WF_vars(StopCheck("audio"))
FairSpec == Spec /\ Fairness

-----------------------------------------------------------------------------

\* The states have their types; draining never counts further than the buffer
\* that is written while another callback ends it.
TypeOK ==
  /\ api \in Apis
  /\ stream_ \in [state : StreamStates, mode : Modes, owned : SUBSET Resources,
                  leaked : SUBSET Resources, isRunning : BOOLEAN]
  /\ handle \in [runnable : BOOLEAN, synchronized : BOOLEAN, drainCounter : 0 .. 5,
                 internalDrain : BOOLEAN, condition : BOOLEAN]
  /\ device \in [running : SUBSET Devices, alive : BOOLEAN]
  /\ DOMAIN pc = Threads
  /\ doStopStream \in 0 .. 2 /\ process \in {"running", "aborted", "undefined"}
  /\ opens \in 0 .. MaxOpens /\ starts \in 0 .. MaxStarts

\* The thread or driver that makes the callbacks never uses a handle that was
\* deleted: closeStream() waits for it.  (When opening the second device
\* fails, the thread of the first is left without a handle in three of the
\* backends: hist.orphan.)
ThreadOwnsHandle ==
  pc["audio"] \in {"lock", "callback", "returned", "io", "drain", "drop", "stopping",
                   "aborting", "wait", "waiting", "halt", "haltInput", "halting"}
    => "handle" \in stream_.owned \/ hist.orphan

\* What a backend loses for good on one path or another of its code.
KnownLeaks ==
  [ALSA |-> {"ctl", "thread"},
   PULSE |-> {"handle", "deviceBuffer", "thread"} \cup Devices,
   OSS |-> Devices,
   DS |-> {"handle", "thread"} \cup Devices,
   WASAPI |-> {"thread", "deviceBuffer"},
   CORE |-> {"hog", "device0"},
   JACK |-> {"client"},
   ASIO |-> {"driver"}]

\* A closed stream holds nothing, and nothing was lost on the way, but what is
\* known: every path through openStream(), with one device or two and a
\* failure anywhere, ends in closeStream() or an `error' label that releases
\* what the path had taken.
ClosedOwnsNothing ==
  stream_.state = "CLOSED" /\ pc["user"] = "idle"
    => stream_.owned \cup stream_.leaked \subseteq KnownLeaks[api]

\* A running stream has a device (or its server's client, and its driver) until
\* closeStream() releases them: no question about another one takes it away.
\* (Where openStream() failed some backends leave a stream that can be started,
\* and RtApiWasapi's can be when closed.)
RunningHasDevice ==
  stream_.state = "RUNNING" /\ hist.opened /\ api # "WASAPI" /\ "free" \notin {pc[t] : t \in Threads}
    => /\ (Devices \cup {"client"}) \cap stream_.owned # {}
       /\ api = "ASIO" => "driver" \in stream_.owned

\* Once stopStream() or abortStream() returned, the application's callback
\* ends at most once more: the one that was running.
AtMostOneLate == hist.late <= 1

\* A callback that asked for the stream's end, by returning 1 or 2, is not
\* called again before the stream is started again.
EndedIsEnded == [][pc["audio"] # "callback" /\ pc'["audio"] = "callback" => ~hist.ended]_vars

\* A callback that returned 1 has its last buffer played, if nobody else meddles
\* with the stream: not where the output is linked with the input or runs on
\* another device than it, nor in RtApiWasapi, whose thread ends with output
\* still in its ring buffer.
SelfStopPlaysOut ==
  hist.unheard \subseteq CASE api \in {"ALSA", "CORE"} -> {"DUPLEX"}
                           [] api = "WASAPI" -> {"OUTPUT", "DUPLEX"}
                           [] OTHER -> {}

\* Only openStream() opens a stream, where closeStream() waits for the thread that
\* may be in stopStream() or abortStream(): it does not come late to set a state
\* there.  (The other backends have that done by a thread nobody waits for, and
\* it may leave a closed stream STOPPED.)
OnlyOpenStreamOpens ==
  [][stream_.state = "CLOSED" /\ stream_.state' # "CLOSED"
       => opens' = opens + 1 \/ api \in {"WASAPI", "CORE", "JACK", "ASIO"}]_vars

\* closeStream() returns where it waits for the thread of the callbacks on a
\* condition that it sets: the thread is woken wherever it waits.
CloseReturns ==
  (api \in {"ALSA", "PULSE"} /\ pc["user"] = "join")
    ~> (pc["user"] = "idle" \/ process # "running")
=============================================================================
