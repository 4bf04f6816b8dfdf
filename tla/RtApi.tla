-------------------------------- MODULE RtApi --------------------------------
(***************************************************************************)
(* What the backends of RtAudio have in common (class RtApi): the stream,  *)
(* its life cycle, the threads that meet in it, and the calls of the       *)
(* application.  A backend's module adds how it opens a device (an         *)
(* operator from a stream to the set of its possible results) and the      *)
(* steps of startStream, stopStream, abortStream, closeStream and          *)
(* callbackEvent.                                                          *)
(*                                                                         *)
(* Three threads call into a stream: the application ("user"), the one     *)
(* that makes the callbacks ("audio": a thread of the backend's own or     *)
(* the driver's), and one started for a single stopStream() ("helper").    *)
(* A section under stream_.mutex is one step.  Formats, rates and channel  *)
(* numbers are not kept: the device accepts them or does not.  The stream  *)
(* is opened without an errorCallback, as openStream() does by default:    *)
(* error() then throws what is not a warning.                              *)
(***************************************************************************)
EXTENDS Integers, FiniteSets

CONSTANTS
  Apis,        \* the backends compiled in
  MaxOpens,    \* bound: calls of openStream()
  MaxStarts    \* bound: calls of startStream()

ASSUME RtApiAssumption == MaxOpens \in Nat /\ MaxStarts \in Nat

VARIABLES
  api,           \* the backend
  stream_,       \* struct RtApiStream, with what the stream owns
  handle,        \* what control depends on in the backend's handle
  device,        \* what the device and its driver do
  pc,            \* where each thread is
  doStopStream,  \* what the application's callback last returned
  process,       \* "running", "aborted", or "undefined" when freed memory was used
  opens, starts,
  hist           \* for the properties only

vars == <<api, stream_, handle, device, pc, doStopStream, process, opens, starts, hist>>

Threads == {"user", "audio", "helper"}
StreamStates == {"CLOSED", "STOPPED", "STOPPING", "RUNNING"}
Modes == {"UNINITIALIZED", "OUTPUT", "INPUT", "DUPLEX"}
Device(m) == IF m = "OUTPUT" THEN "device0" ELSE "device1"
UserBuffer(m) == IF m = "OUTPUT" THEN "userBuffer0" ELSE "userBuffer1"
UserBuffers == {"userBuffer0", "userBuffer1"}
Devices == {"device0", "device1"}
Resources == Devices \cup UserBuffers
             \cup {"handle", "deviceBuffer", "ctl", "hog", "client", "driver", "thread"}

\* clearStreamInfo(): what the structure still pointed to is lost.
Cleared(s) ==
  [state |-> "CLOSED", mode |-> "UNINITIALIZED", owned |-> {},
   leaked |-> s.leaked \cup s.owned, isRunning |-> FALSE]

Plays(s) == s.mode \in {"OUTPUT", "DUPLEX"}
Records(s) == s.mode \in {"INPUT", "DUPLEX"}

-----------------------------------------------------------------------------
(* Opening a device: results of the steps of probeDeviceOpen().            *)

Success(s) == [ok |-> TRUE, s |-> s, thrown |-> FALSE]
Failure(s) == [ok |-> FALSE, s |-> s, thrown |-> FALSE]
Thrown(s) == [ok |-> FALSE, s |-> s, thrown |-> TRUE]
Got(s, rs) == [s EXCEPT !.owned = @ \cup rs]
Freed(s, rs) == [s EXCEPT !.owned = @ \ rs]
Lost(s, rs) == [s EXCEPT !.owned = @ \ rs, !.leaked = @ \cup (rs \cap s.owned)]

\* The results of a step taken after those of an earlier one.
Then(results, Step(_)) ==
  {r \in results : ~r.ok} \cup UNION {Step(r.s) : r \in {q \in results : q.ok}}

\* stream_.mode, once device m is open too.
NewMode(s, m) == IF s.mode = "OUTPUT" /\ m = "INPUT" THEN "DUPLEX" ELSE m

\* The application's buffer, and one in the device's format when they differ
\* (a larger one than the output's, if need be).
WithBuffers(s, m) ==
  {Got(s, {UserBuffer(m)}), Got(s, {UserBuffer(m), "deviceBuffer"})}

Opened(s, m) == [s EXCEPT !.mode = NewMode(s, m), !.state = "STOPPED"]

-----------------------------------------------------------------------------
(* The threads.                                                            *)

InitHandle == [runnable |-> FALSE, synchronized |-> FALSE, drainCounter |-> 0,
               internalDrain |-> FALSE, condition |-> FALSE]
InitDevice == [running |-> {}, alive |-> TRUE]

RtApiInit ==
  /\ api \in Apis
  /\ stream_ = [state |-> "CLOSED", mode |-> "UNINITIALIZED", owned |-> {},
                leaked |-> {}, isRunning |-> FALSE]
  /\ handle = InitHandle
  /\ device = InitDevice
  /\ pc = [t \in Threads |-> IF t = "user" THEN "idle" ELSE "none"]
  /\ doStopStream = 0 /\ process = "running"
  /\ opens = 0 /\ starts = 0
  /\ hist = [ended |-> FALSE, late |-> -1, unplayed |-> FALSE, self |-> FALSE,
             unheard |-> {}, orphan |-> FALSE, opened |-> FALSE]

At(t, l) == process = "running" /\ pc[t] = l
Goto(t, l) == pc' = [pc EXCEPT ![t] = l]

\* Where a thread goes on after stopStream() or abortStream().
Resume(t) ==
  CASE t = "user" -> "idle"
    [] t = "audio" /\ "thread" \in stream_.owned -> "loop"
    [] OTHER -> "none"

\* stopStream() or abortStream() returns in t; if it failed, by the exception of
\* error(), there being no errorCallback.  The application catches it; one that
\* leaves another thread's function ends the process.
Return(t) == Goto(t, Resume(t))
Throw(t) ==
  /\ Return(t)
  /\ process' = IF t = "user" THEN process ELSE "aborted"

\* What the properties remember: the application's stop has returned; ...
StopReturned(t, h) == IF t = "user" THEN [h EXCEPT !.late = 0] ELSE h
\* ... the stream was started; ...
Started(h) == [h EXCEPT !.ended = FALSE, !.late = -1, !.unplayed = FALSE]
\* ... the device stopped playing, its buffers played out or dropped.
Silenced(h, drained) ==
  [h EXCEPT !.unplayed = FALSE,
            !.unheard = IF h.self /\ h.unplayed /\ ~drained THEN @ \cup {stream_.mode} ELSE @]

\* The application's callback returns r; the thread goes on at next[r].
UserCallback(next) ==
  /\ At("audio", "callback")
  /\ \E r \in 0 .. 2 :
       /\ doStopStream' = r
       /\ hist' = [hist EXCEPT
            !.ended = r # 0, !.self = (r = 1 /\ pc["user"] = "idle" /\ pc["helper"] = "none"),
            !.late = IF @ >= 0 THEN @ + 1 ELSE @]
       /\ Goto("audio", next[r])
  /\ UNCHANGED <<api, stream_, handle, device, process, opens, starts>>

-----------------------------------------------------------------------------
(* The application's calls, up to the check of stream_.state they begin    *)
(* with: verifyStream(), and a warning when there is nothing to do.        *)

StreamOpen == stream_.state # "CLOSED"
Meddled == hist' = [hist EXCEPT !.self = FALSE]

StartCall ==
  /\ At("user", "idle") /\ StreamOpen /\ starts < MaxStarts
  /\ stream_.state # "RUNNING"
  /\ Goto("user", "start") /\ starts' = starts + 1 /\ Meddled
  /\ UNCHANGED <<api, stream_, handle, device, doStopStream, process, opens>>

StopCall ==
  /\ At("user", "idle") /\ StreamOpen
  /\ stream_.state # "STOPPED"
  /\ \E op \in {"stopping", "aborting"} : Goto("user", op)
  /\ Meddled
  /\ UNCHANGED <<api, stream_, handle, device, doStopStream, process, opens, starts>>

\* The same check in stopStream() or abortStream() called by another thread; that
\* a closed stream ends the call is verifyStream()'s exception.
StopCheck(t) ==
  /\ At(t, "stop") \/ At(t, "abort")
  /\ CASE stream_.state = "CLOSED" -> Throw(t)
       [] stream_.state = "STOPPED" -> Return(t) /\ UNCHANGED process
       [] OTHER -> /\ Goto(t, IF pc[t] = "stop" THEN "stopping" ELSE "aborting")
                   /\ UNCHANGED process
  /\ UNCHANGED <<api, stream_, handle, device, doStopStream, opens, starts, hist>>

CloseCall ==
  /\ At("user", "idle") /\ StreamOpen
  /\ Goto("user", "close") /\ Meddled
  /\ UNCHANGED <<api, stream_, handle, device, doStopStream, process, opens, starts>>

\* getDeviceInfo(): what it may leave of the stream, and whether all it did was
\* defined.
Answer(s) == [s |-> s, defined |-> TRUE]
Undefined(s) == [s |-> s, defined |-> FALSE]
GetDeviceInfo(answers) ==
  /\ At("user", "idle")
  /\ \E a \in answers :
       /\ stream_' = a.s
       /\ process' = IF a.defined THEN process ELSE "undefined"
  /\ UNCHANGED <<api, handle, device, pc, doStopStream, opens, starts, hist>>

\* The results of probeDeviceOpen() for one direction, and for the input once the
\* output is open.
Single(Probe(_, _)) == Probe(Cleared(stream_), "OUTPUT") \cup Probe(Cleared(stream_), "INPUT")
Second(Probe(_, _)) ==
  UNION {Probe(o.s, "INPUT") : o \in {q \in Probe(Cleared(stream_), "OUTPUT") : q.ok}}

Ends(r, user) ==
  /\ stream_' = IF r.ok THEN [r.s EXCEPT !.state = "STOPPED"] ELSE r.s
  /\ hist' = [hist EXCEPT !.ended = FALSE, !.late = -1, !.self = FALSE, !.opened = r.ok,
                !.orphan = "thread" \in r.s.owned /\ "handle" \notin r.s.owned]
  /\ pc' = [pc EXCEPT !["user"] = user,
                      !["audio"] = IF "thread" \in r.s.owned THEN "loop" ELSE "none"]

\* openStream(), once the thread that made the callbacks is gone; one that was
\* started to stop an earlier stream may be there still.  The output first; when
\* the input then fails, and the failure is not thrown, closeStream() is called
\* from here.
OpenStream(single, second) ==
  /\ At("user", "idle") /\ opens < MaxOpens
  /\ stream_.state = "CLOSED" /\ pc["audio"] \in {"none", "ended"}
  /\ opens' = opens + 1
  /\ \/ \E r \in single : Ends(r, "idle")
     \/ \E r \in second : Ends(r, IF r.ok \/ r.thrown THEN "idle" ELSE "close")
  /\ \E b \in BOOLEAN : handle' = [InitHandle EXCEPT !.synchronized = b]
  /\ device' = InitDevice
  /\ UNCHANGED <<api, doStopStream, process, starts>>
=============================================================================
