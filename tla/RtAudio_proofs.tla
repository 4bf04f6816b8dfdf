---------------------------- MODULE RtAudio_proofs ---------------------------
(***************************************************************************)
(* Proofs about RtAudio, for any number of openings and starts: types, the *)
(* operators the backends share, the backends with a callback thread of    *)
(* their own, those called by a driver or a server, and the theorems about *)
(* all of them.  Each backend has an inductive invariant; that every path  *)
(* through its probeDeviceOpen() ends in one of a few kinds of streams is  *)
(* a lemma, and so is that its steps keep the invariant.                   *)
(***************************************************************************)
EXTENDS RtAudio, TLAPS

-----------------------------------------------------------------------------
(* Types, and what no step of any backend does.                            *)

\* Every place of a thread in the code, of any backend.
PcLabels ==
  {"idle", "none", "start", "started", "signal", "stop", "abort", "stopping", "aborting",
   "close", "closing", "join", "free", "lock", "loop", "callback", "returned", "io", "drain",
   "drop", "ended", "waiting", "woken", "wait", "halt", "haltInput", "staleInput", "halted",
   "halting", "dangling", "setup", "waitStop", "waitAbort", "waitClose", "haltStop",
   "haltAbort", "haltClose"}
\* The types of the variables; ResultType is that of a probe's result.
StreamType == [state : StreamStates, mode : Modes, owned : SUBSET Resources,
               leaked : SUBSET Resources, isRunning : BOOLEAN]
HandleType == [runnable : BOOLEAN, synchronized : BOOLEAN, drainCounter : 0 .. 5,
               internalDrain : BOOLEAN, condition : BOOLEAN]
DeviceType == [running : SUBSET Devices, alive : BOOLEAN]
HistType == [ended : BOOLEAN, late : Int, unplayed : BOOLEAN, self : BOOLEAN,
             unheard : SUBSET Modes, orphan : BOOLEAN, opened : BOOLEAN]
ResultType == [ok : BOOLEAN, s : StreamType, thrown : BOOLEAN]

\* The type invariant of every backend: as TypeOK, with the places of the threads.
TypeInv ==
  /\ api \in Apis
  /\ stream_ \in StreamType
  /\ handle \in HandleType
  /\ device \in DeviceType
  /\ pc \in [Threads -> PcLabels]
  /\ doStopStream \in 0 .. 2 /\ process \in {"running", "aborted", "undefined"}
  /\ opens \in 0 .. MaxOpens /\ starts \in 0 .. MaxStarts
  /\ hist \in HistType

\* The backends whose stopStream() may come late, and set the state of a closed stream.
Late == {"WASAPI", "CORE", "JACK", "ASIO"}

\* What a step of any backend keeps: the backend; that a callback which asked for the
\* end is not called again; that only openStream() opens, but where a stop comes late.
Lasting ==
  /\ api' = api
  /\ pc["audio"] # "callback" /\ pc'["audio"] = "callback" => ~hist.ended
  /\ stream_.state = "CLOSED" /\ stream_'.state # "CLOSED"
       => opens' = opens + 1 \/ api \in Late

-----------------------------------------------------------------------------
(* The history.                                                            *)

\* The history k has what h has but the time since the stop and what was not heard.
Keeps(k, h) ==
  /\ k.ended <=> h.ended
  /\ k.self <=> h.self
  /\ k.orphan <=> h.orphan
  /\ k.opened <=> h.opened

\* startStream(): nothing has ended, nothing waits to be played.
LEMMA StartedHist ==
  ASSUME NEW h \in HistType
  PROVE /\ Started(h) \in HistType
        /\ ~Started(h).ended /\ Started(h).late = -1 /\ ~Started(h).unplayed
        /\ Started(h).unheard = h.unheard
        /\ Started(h).self <=> h.self
        /\ Started(h).orphan <=> h.orphan
        /\ Started(h).opened <=> h.opened
<1> DEFINE S(l) == [h EXCEPT !.ended = FALSE, !.late = l, !.unplayed = FALSE]
<1>1. ASSUME NEW l \in Int
      PROVE /\ S(l) \in HistType
            /\ ~S(l).ended /\ S(l).late = l /\ ~S(l).unplayed
            /\ S(l).unheard = h.unheard
            /\ S(l).self <=> h.self
            /\ S(l).orphan <=> h.orphan
            /\ S(l).opened <=> h.opened
  BY DEF HistType
<1>2. -1 \in Int
  OBVIOUS
<1>3. Started(h) = S(-1)
  BY Zenon DEF Started
<1> HIDE DEF S
<1> QED
  BY <1>1, <1>2, <1>3

\* The device stops: what a callback that ended the stream by itself had still to be
\* played, and was not drained, is what is added to `unheard'.
LEMMA SilencedHist ==
  ASSUME NEW h \in HistType, NEW d \in BOOLEAN, stream_ \in StreamType
  PROVE /\ Silenced(h, d) \in HistType
        /\ Keeps(Silenced(h, d), h)
        /\ Silenced(h, d).late = h.late
        /\ ~Silenced(h, d).unplayed
        /\ Silenced(h, d).unheard \subseteq h.unheard \cup {stream_.mode}
        /\ (h.self /\ h.unplayed /\ ~d) \/ Silenced(h, d).unheard = h.unheard
<1> DEFINE U == IF h.self /\ h.unplayed /\ ~d THEN h.unheard \cup {stream_.mode} ELSE h.unheard
<1> DEFINE S(u) == [h EXCEPT !.unplayed = FALSE, !.unheard = u]
<1>1. U \in SUBSET Modes
  BY DEF HistType, StreamType
<1>2. U \subseteq h.unheard \cup {stream_.mode} /\ ((h.self /\ h.unplayed /\ ~d) \/ U = h.unheard)
  OBVIOUS
<1>3. Silenced(h, d) = S(U)
  BY Zenon DEF Silenced
<1>4. ASSUME NEW u \in SUBSET Modes
      PROVE /\ S(u) \in HistType
            /\ Keeps(S(u), h)
            /\ S(u).late = h.late
            /\ ~S(u).unplayed
            /\ S(u).unheard = u
  BY DEF HistType, Keeps
<1> HIDE DEF S, U
<1> QED
  BY <1>1, <1>2, <1>3, <1>4

\* stopStream() returns: in the application it starts the count of late callbacks.
LEMMA StoppedHist ==
  ASSUME NEW h \in HistType, NEW t \in Threads
  PROVE /\ StopReturned(t, h) \in HistType
        /\ Keeps(StopReturned(t, h), h)
        /\ StopReturned(t, h).late = IF t = "user" THEN 0 ELSE h.late
        /\ StopReturned(t, h).unplayed <=> h.unplayed
        /\ StopReturned(t, h).unheard = h.unheard
  BY DEF HistType, StopReturned, Keeps

\* Both at once, as in the stopStream() of every backend.
LEMMA HaltedHist ==
  ASSUME TypeInv, NEW t \in Threads, NEW d \in BOOLEAN,
         hist' = StopReturned(t, Silenced(hist, d))
  PROVE /\ hist' \in HistType
        /\ Keeps(hist', hist)
        /\ hist'.late = IF t = "user" THEN 0 ELSE hist.late
        /\ ~hist'.unplayed
        /\ hist'.unheard \subseteq hist.unheard \cup {stream_.mode}
        /\ (hist.self /\ hist.unplayed /\ ~d) \/ hist'.unheard = hist.unheard
  BY SilencedHist, StoppedHist DEF TypeInv, Keeps

\* The application's callback returns r.
LEMMA CalledHist ==
  ASSUME TypeInv, NEW r \in 0 .. 2,
         hist' = [hist EXCEPT
            !.ended = r # 0, !.self = (r = 1 /\ pc["user"] = "idle" /\ pc["helper"] = "none"),
            !.late = IF @ >= 0 THEN @ + 1 ELSE @]
  PROVE /\ hist' \in HistType
        /\ hist'.ended <=> r # 0
        /\ hist'.self <=> (r = 1 /\ pc["user"] = "idle" /\ pc["helper"] = "none")
        /\ hist'.late = IF hist.late >= 0 THEN hist.late + 1 ELSE hist.late
        /\ hist'.unplayed <=> hist.unplayed
        /\ hist'.unheard = hist.unheard
        /\ hist'.orphan <=> hist.orphan
        /\ hist'.opened <=> hist.opened
<1> DEFINE S(e, f, l) == [hist EXCEPT !.ended = e, !.self = f, !.late = l]
<1>1. ASSUME NEW e \in BOOLEAN, NEW f \in BOOLEAN, NEW l \in Int
      PROVE /\ S(e, f, l) \in HistType
            /\ S(e, f, l).ended <=> e
            /\ S(e, f, l).self <=> f
            /\ S(e, f, l).late = l
            /\ S(e, f, l).unplayed <=> hist.unplayed
            /\ S(e, f, l).unheard = hist.unheard
            /\ S(e, f, l).orphan <=> hist.orphan
            /\ S(e, f, l).opened <=> hist.opened
  BY DEF TypeInv, HistType
<1> DEFINE E == r # 0
           F == r = 1 /\ pc["user"] = "idle" /\ pc["helper"] = "none"
           L == IF hist.late >= 0 THEN hist.late + 1 ELSE hist.late
<1>2. E \in BOOLEAN /\ F \in BOOLEAN
  OBVIOUS
<1>3. L \in Int
  BY DEF TypeInv, HistType
<1>4. hist' = S(E, F, L)
  BY Zenon
<1>5. (E <=> r # 0) /\ (F <=> (r = 1 /\ pc["user"] = "idle" /\ pc["helper"] = "none"))
  OBVIOUS
<1> HIDE DEF S, E, F
<1> QED
  BY <1>1, <1>2, <1>3, <1>4, <1>5

\* A call of the application: the end is no longer the callback's own doing.
LEMMA MeddledHist ==
  ASSUME TypeInv, Meddled
  PROVE /\ hist' \in HistType
        /\ hist'.ended <=> hist.ended
        /\ ~hist'.self
        /\ hist'.late = hist.late
        /\ hist'.unplayed <=> hist.unplayed
        /\ hist'.unheard = hist.unheard
        /\ hist'.orphan <=> hist.orphan
        /\ hist'.opened <=> hist.opened
  BY DEF TypeInv, HistType, Meddled

\* A buffer is handed to the device, or was played.
LEMMA PlayedHist ==
  ASSUME TypeInv, NEW b \in BOOLEAN, hist' = [hist EXCEPT !.unplayed = b]
  PROVE /\ hist' \in HistType
        /\ Keeps(hist', hist)
        /\ hist'.late = hist.late
        /\ hist'.unplayed <=> b
        /\ hist'.unheard = hist.unheard
  BY DEF TypeInv, HistType, Keeps

\* What UserCallback does to the history.
Called ==
  \E r \in 0 .. 2 :
     /\ doStopStream' = r
     /\ hist'.ended <=> r # 0
     /\ hist'.self <=> (r = 1 /\ pc["user"] = "idle" /\ pc["helper"] = "none")
     /\ hist'.late = IF hist.late >= 0 THEN hist.late + 1 ELSE hist.late
     /\ hist'.unplayed <=> hist.unplayed
     /\ hist'.unheard = hist.unheard
     /\ hist'.orphan <=> hist.orphan
     /\ hist'.opened <=> hist.opened

\* Results of a probe that are not thrown and leave a stream in good, or fail in bad.
Outcomes(good, bad) ==
  {r \in ResultType : ~r.thrown /\ r.s \in IF r.ok THEN good ELSE bad}

\* What the end of openStream() with result r leaves.
EndsWith(r, user) ==
  /\ stream_' = IF r.ok THEN [r.s EXCEPT !.state = "STOPPED"] ELSE r.s
  /\ stream_' \in StreamType
  /\ ~hist'.ended /\ hist'.late = -1 /\ ~hist'.self
  /\ hist'.opened <=> r.ok
  /\ hist'.orphan <=> "thread" \in r.s.owned /\ "handle" \notin r.s.owned
  /\ hist'.unheard = hist.unheard
  /\ hist' \in HistType
  /\ pc'["user"] = user
  /\ pc'["audio"] = IF "thread" \in r.s.owned THEN "loop" ELSE "none"
  /\ pc'["helper"] = pc["helper"]
  /\ pc' \in [Threads -> PcLabels]

\* openStream() ends: the stream is the probe's, and the history begins again.
LEMMA EndsHist ==
  ASSUME TypeInv, NEW r \in ResultType, NEW user \in {"idle", "close"}, Ends(r, user)
  PROVE EndsWith(r, user)
<1> DEFINE S(l, p, o) == [hist EXCEPT !.ended = FALSE, !.late = l, !.self = FALSE,
                             !.opened = p, !.orphan = o]
<1>1. ASSUME NEW l \in Int, NEW p \in BOOLEAN, NEW o \in BOOLEAN
      PROVE /\ S(l, p, o) \in HistType
            /\ ~S(l, p, o).ended /\ S(l, p, o).late = l /\ ~S(l, p, o).self
            /\ S(l, p, o).opened <=> p
            /\ S(l, p, o).orphan <=> o
            /\ S(l, p, o).unheard = hist.unheard
  BY DEF TypeInv, HistType
<1> DEFINE O == "thread" \in r.s.owned /\ "handle" \notin r.s.owned
<1>2. r.ok \in BOOLEAN /\ O \in BOOLEAN /\ (O <=> "thread" \in r.s.owned /\ "handle" \notin r.s.owned)
  BY DEF ResultType
<1>3. -1 \in Int
  OBVIOUS
<1>4. hist' = S(-1, r.ok, O)
  BY Zenon DEF Ends
<1>5. /\ stream_' = IF r.ok THEN [r.s EXCEPT !.state = "STOPPED"] ELSE r.s
      /\ stream_' \in StreamType
  BY DEF Ends, ResultType, StreamType, StreamStates
<1>6. /\ pc'["user"] = user
      /\ pc'["audio"] = IF "thread" \in r.s.owned THEN "loop" ELSE "none"
      /\ pc'["helper"] = pc["helper"]
      /\ pc' \in [Threads -> PcLabels]
  BY DEF Ends, TypeInv, Threads, PcLabels
<1>7. /\ ~hist'.ended /\ hist'.late = -1 /\ ~hist'.self
      /\ hist'.opened <=> r.ok
      /\ hist'.orphan <=> O
      /\ hist'.unheard = hist.unheard
      /\ hist' \in HistType
  <2> HIDE DEF S, O
  <2> QED BY <1>1, <1>2, <1>3, <1>4
<1> HIDE DEF S, O
<1> QED
  BY <1>2, <1>5, <1>6, <1>7 DEF EndsWith

\* A new handle drains nothing.
LEMMA InitialHandle ==
  ASSUME NEW b \in BOOLEAN
  PROVE /\ [InitHandle EXCEPT !.synchronized = b] \in HandleType
        /\ [InitHandle EXCEPT !.synchronized = b].drainCounter = 0
        /\ ~[InitHandle EXCEPT !.synchronized = b].runnable
        /\ ~[InitHandle EXCEPT !.synchronized = b].internalDrain
<1> DEFINE H(c) == [runnable |-> FALSE, synchronized |-> FALSE, drainCounter |-> c,
                    internalDrain |-> FALSE, condition |-> FALSE]
<1>1. ASSUME NEW c \in 0 .. 5
      PROVE /\ [H(c) EXCEPT !.synchronized = b] \in HandleType
            /\ [H(c) EXCEPT !.synchronized = b].drainCounter = c
            /\ ~[H(c) EXCEPT !.synchronized = b].runnable
            /\ ~[H(c) EXCEPT !.synchronized = b].internalDrain
  BY DEF HandleType
<1>2. InitHandle = H(0)
  BY Zenon DEF InitHandle
<1>3. 0 \in 0 .. 5
  OBVIOUS
<1> HIDE DEF H
<1> QED
  BY <1>1, <1>2, <1>3

\* A device that was not started is alive and runs nothing.
LEMMA InitialDevice == InitDevice \in DeviceType /\ InitDevice.running = {} /\ InitDevice.alive
  BY DEF InitDevice, DeviceType

\* openStream(), for any probes: it is called on a closed stream, and ends with a result of
\* the probe for one direction, or of that for the second.
LEMMA Opens ==
  ASSUME TypeInv, NEW single \in SUBSET ResultType, NEW second \in SUBSET ResultType,
         OpenStream(single, second)
  PROVE /\ stream_.state = "CLOSED" /\ pc["audio"] \in {"none", "ended"}
        /\ \/ \E r \in single : EndsWith(r, "idle")
           \/ \E r \in second : EndsWith(r, IF r.ok \/ r.thrown THEN "idle" ELSE "close")
        /\ handle' \in HandleType /\ handle'.drainCounter = 0
        /\ ~handle'.runnable /\ ~handle'.internalDrain
        /\ device' = InitDevice
        /\ UNCHANGED <<api, doStopStream, process, starts>>
        /\ opens' = opens + 1 /\ opens' \in 0 .. MaxOpens
<1>1. \/ \E r \in single : EndsWith(r, "idle")
      \/ \E r \in second : EndsWith(r, IF r.ok \/ r.thrown THEN "idle" ELSE "close")
  BY EndsHist DEF OpenStream
<1>2. /\ handle' \in HandleType /\ handle'.drainCounter = 0
      /\ ~handle'.runnable /\ ~handle'.internalDrain
  BY InitialHandle DEF OpenStream
<1>3. opens' = opens + 1 /\ opens' \in 0 .. MaxOpens
  BY RtApiAssumption DEF OpenStream, TypeInv
<1> QED
  BY <1>1, <1>2, <1>3 DEF OpenStream

\* openStream() keeps the types, whatever the probes do.
LEMMA OpensTyped ==
  ASSUME TypeInv, NEW single \in SUBSET ResultType, NEW second \in SUBSET ResultType,
         OpenStream(single, second)
  PROVE TypeInv' /\ Lasting
<1>1. device' \in DeviceType
  BY Opens, InitialDevice
<1>2. /\ stream_' \in StreamType /\ pc' \in [Threads -> PcLabels] /\ hist' \in HistType
      /\ pc'["audio"] # "callback"
  BY Opens DEF EndsWith
<1> QED
  BY <1>1, <1>2, Opens DEF TypeInv, Lasting

\* clearStreamInfo(): a closed stream that owns nothing; what it owned is lost.
LEMMA ClearedStream ==
  ASSUME stream_ \in StreamType
  PROVE /\ Cleared(stream_) \in StreamType
        /\ Cleared(stream_).state = "CLOSED"
        /\ Cleared(stream_).mode = "UNINITIALIZED"
        /\ Cleared(stream_).owned = {}
        /\ Cleared(stream_).leaked = stream_.leaked \cup stream_.owned
        /\ ~Cleared(stream_).isRunning
  BY DEF Cleared, StreamType, StreamStates, Modes

\* The tests the application's calls begin with keep the types.
LEMMA CallsTyped ==
  ASSUME TypeInv, Calls
  PROVE TypeInv' /\ Lasting
<1> USE DEF At, Goto
<1>1. CASE StartCall
  <2>1. starts' \in 0 .. MaxStarts
    BY <1>1, RtApiAssumption DEF StartCall, TypeInv
  <2>2. pc' \in [Threads -> PcLabels] /\ pc'["audio"] = pc["audio"]
    BY <1>1 DEF StartCall, TypeInv, Threads, PcLabels
  <2> QED
    BY <1>1, <2>1, <2>2, MeddledHist DEF StartCall, TypeInv, Lasting
<1>2. CASE StopCall
  <2>1. pc' \in [Threads -> PcLabels] /\ pc'["audio"] = pc["audio"]
    BY <1>2 DEF StopCall, TypeInv, Threads, PcLabels
  <2> QED
    BY <1>2, <2>1, MeddledHist DEF StopCall, TypeInv, Lasting
<1>3. CASE CloseCall
  <2>1. pc' \in [Threads -> PcLabels] /\ pc'["audio"] = pc["audio"]
    BY <1>3 DEF CloseCall, TypeInv, Threads, PcLabels
  <2> QED
    BY <1>3, <2>1, MeddledHist DEF CloseCall, TypeInv, Lasting
<1>4. ASSUME NEW t \in Threads, StopCheck(t)
      PROVE TypeInv' /\ Lasting
  <2>1. /\ pc' \in [Threads -> PcLabels]
        /\ pc'["audio"] # "callback" \/ pc'["audio"] = pc["audio"]
    BY <1>4 DEF StopCheck, Return, Throw, Resume, TypeInv, Threads, PcLabels
  <2>2. process' \in {"running", "aborted", "undefined"}
    BY <1>4 DEF StopCheck, Throw, TypeInv
  <2>3. UNCHANGED <<api, stream_, handle, device, doStopStream, opens, starts, hist>>
    BY <1>4 DEF StopCheck
  <2>4. TypeInv'
    BY <2>1, <2>2, <2>3 DEF TypeInv
  <2> QED
    BY <2>1, <2>3, <2>4 DEF Lasting
<1> QED
  BY <1>1, <1>2, <1>3, <1>4 DEF Calls

-----------------------------------------------------------------------------
(* Streams, and the results of probes.                                     *)

\* k differs from s in what it owns, and lost, only.
Same(k, s) ==
  /\ k \in StreamType
  /\ k.state = s.state /\ k.mode = s.mode
  /\ k.isRunning <=> s.isRunning

\* Taking a resource adds it to what the stream owns.
LEMMA GotStream ==
  \A s \in StreamType : \A rs \in SUBSET Resources :
    Same(Got(s, rs), s) /\ Got(s, rs).owned = s.owned \cup rs /\ Got(s, rs).leaked = s.leaked
  BY DEF Got, StreamType, Same

\* Releasing a resource takes it from what the stream owns.
LEMMA FreedStream ==
  \A s \in StreamType : \A rs :
    Same(Freed(s, rs), s) /\ Freed(s, rs).owned = s.owned \ rs /\ Freed(s, rs).leaked = s.leaked
  BY DEF Freed, StreamType, Same

\* Forgetting a resource moves it from what the stream owns to what it lost.
LEMMA LostStream ==
  \A s \in StreamType : \A rs :
    /\ Same(Lost(s, rs), s)
    /\ Lost(s, rs).owned = s.owned \ rs
    /\ Lost(s, rs).leaked = s.leaked \cup (rs \cap s.owned)
  BY DEF Lost, StreamType, Same

\* A direction opened: the stream is stopped, in the new mode.
LEMMA OpenedStream ==
  \A s \in StreamType : \A m \in {"OUTPUT", "INPUT"} :
    /\ Opened(s, m) \in StreamType
    /\ Opened(s, m).state = "STOPPED"
    /\ Opened(s, m).mode = NewMode(s, m)
    /\ Opened(s, m).owned = s.owned /\ Opened(s, m).leaked = s.leaked
    /\ Opened(s, m).isRunning <=> s.isRunning
  BY DEF Opened, NewMode, StreamType, StreamStates, Modes

\* The buffers of a direction: the user's, and perhaps the device's.
LEMMA BufferedStream ==
  ASSUME NEW s \in StreamType, NEW m \in {"OUTPUT", "INPUT"}, NEW b \in WithBuffers(s, m)
  PROVE /\ Same(b, s) /\ b.leaked = s.leaked
        /\ s.owned \subseteq b.owned
        /\ b.owned \subseteq s.owned \cup {UserBuffer(m), "deviceBuffer"}
<1>1. UserBuffer(m) \in Resources /\ "deviceBuffer" \in Resources
  BY DEF UserBuffer, UserBuffers, Resources
<1>2. PICK rs \in SUBSET Resources : b = Got(s, rs) /\ rs \subseteq {UserBuffer(m), "deviceBuffer"}
  BY <1>1 DEF WithBuffers
<1> QED
  BY <1>2, GotStream

\* The devices, the buffers and the rest are resources.
LEMMA Names ==
  /\ \A m \in {"OUTPUT", "INPUT"} : Device(m) \in Devices /\ UserBuffer(m) \in UserBuffers
  /\ Devices \subseteq Resources /\ UserBuffers \subseteq Resources
  /\ {"handle", "deviceBuffer", "ctl", "hog", "client", "driver", "thread"} \subseteq Resources
  BY DEF Device, UserBuffer, Devices, UserBuffers, Resources

\* Setting the state, or isRunning, changes nothing else.
LEMMA SetStream ==
  ASSUME NEW s \in StreamType
  PROVE /\ \A v \in StreamStates :
             /\ [s EXCEPT !.state = v] \in StreamType
             /\ [s EXCEPT !.state = v].state = v
             /\ [s EXCEPT !.state = v].mode = s.mode
             /\ [s EXCEPT !.state = v].owned = s.owned
             /\ [s EXCEPT !.state = v].leaked = s.leaked
             /\ [s EXCEPT !.state = v].isRunning <=> s.isRunning
        /\ \A v \in BOOLEAN :
             /\ [s EXCEPT !.isRunning = v] \in StreamType
             /\ [s EXCEPT !.isRunning = v].state = s.state
             /\ [s EXCEPT !.isRunning = v].mode = s.mode
             /\ [s EXCEPT !.isRunning = v].owned = s.owned
             /\ [s EXCEPT !.isRunning = v].leaked = s.leaked
             /\ [s EXCEPT !.isRunning = v].isRunning <=> v
  BY DEF StreamType

\* The same for the end of a probe that succeeds, ...
LEMMA StoppedStream ==
  \A s \in StreamType :
    /\ [s EXCEPT !.state = "STOPPED"] \in StreamType
    /\ [s EXCEPT !.state = "STOPPED"].state = "STOPPED"
    /\ [s EXCEPT !.state = "STOPPED"].mode = s.mode
    /\ [s EXCEPT !.state = "STOPPED"].owned = s.owned
    /\ [s EXCEPT !.state = "STOPPED"].leaked = s.leaked
    /\ [s EXCEPT !.state = "STOPPED"].isRunning <=> s.isRunning
  BY DEF StreamType, StreamStates

\* ... and for that of one that fails.
LEMMA ClosedStream ==
  \A s \in StreamType :
    /\ [s EXCEPT !.state = "CLOSED"] \in StreamType
    /\ [s EXCEPT !.state = "CLOSED"].state = "CLOSED"
    /\ [s EXCEPT !.state = "CLOSED"].mode = s.mode
    /\ [s EXCEPT !.state = "CLOSED"].owned = s.owned
    /\ [s EXCEPT !.state = "CLOSED"].leaked = s.leaked
    /\ [s EXCEPT !.state = "CLOSED"].isRunning <=> s.isRunning
  BY DEF StreamType, StreamStates

\* Streams a probe has to do with: closed or stopped, with losses in K.
Probed(K) == {s \in StreamType : s.leaked \subseteq K /\ s.state \in {"CLOSED", "STOPPED"}}

\* Results made of good streams and bad ones.
LEMMA OutcomeOf ==
  ASSUME NEW good \in SUBSET StreamType, NEW bad \in SUBSET StreamType
  PROVE /\ \A s \in good : Success(s) \in Outcomes(good, bad)
        /\ \A s \in bad : Failure(s) \in Outcomes(good, bad)
        /\ \A r \in Outcomes(good, bad) :
             /\ r \in ResultType /\ ~r.thrown
             /\ r.s \in IF r.ok THEN good ELSE bad
  BY DEF Outcomes, ResultType, Success, Failure

\* openStream() with probes that end in good, or fail in bad: alone, or after the
\* output's.
OpenedInto(good, bad, badSecond) ==
  /\ pc'["user"] \in {"idle", "close"}
  /\ pc'["audio"] = IF "thread" \in stream_'.owned THEN "loop" ELSE "none"
  /\ pc'["helper"] = pc["helper"]
  /\ hist'.opened => stream_' \in good /\ pc'["user"] = "idle"
  /\ ~hist'.opened => stream_' \in IF pc'["user"] = "idle" THEN bad ELSE badSecond
  /\ ~hist'.ended /\ hist'.late = -1 /\ ~hist'.self /\ hist'.unheard = hist.unheard
  /\ hist'.orphan <=> "thread" \in stream_'.owned /\ "handle" \notin stream_'.owned
  /\ handle'.drainCounter = 0 /\ ~handle'.runnable /\ ~handle'.internalDrain
  /\ device'.running = {} /\ device'.alive
  /\ UNCHANGED <<api, doStopStream>>

\* openStream(), when the probes are known to end in good, or to fail in bad or badSecond.
LEMMA OpensInto ==
  ASSUME TypeInv, NEW good \in SUBSET StreamType, NEW bad \in SUBSET StreamType,
         NEW badSecond \in SUBSET StreamType,
         \A s \in good : s.state = "STOPPED",
         NEW single, NEW second,
         \A r \in single : r \in Outcomes(good, bad),
         \A r \in second : r \in Outcomes(good, badSecond),
         OpenStream(single, second)
  PROVE TypeInv' /\ Lasting /\ OpenedInto(good, bad, badSecond)
<1>1. single \in SUBSET ResultType /\ second \in SUBSET ResultType
  BY OutcomeOf
<1>2. TypeInv' /\ Lasting
  BY <1>1, OpensTyped
<1> SUFFICES OpenedInto(good, bad, badSecond)
  BY <1>2
<1>3. \A s \in StreamType : s.state = "STOPPED" => [s EXCEPT !.state = "STOPPED"] = s
  BY DEF StreamType
<1>4. ASSUME NEW r \in ResultType, NEW user \in {"idle", "close"}, NEW b \in SUBSET StreamType,
             EndsWith(r, user), r \in Outcomes(good, b), user = "idle" \/ ~r.ok,
             b = (IF user = "idle" THEN bad ELSE badSecond)
      PROVE OpenedInto(good, bad, badSecond)
  <2>1. r.s \in IF r.ok THEN good ELSE b
    BY <1>4, OutcomeOf
  <2>2. stream_' = r.s
    BY <2>1, <1>3, <1>4 DEF EndsWith
  <2>3. /\ handle'.drainCounter = 0 /\ ~handle'.runnable /\ ~handle'.internalDrain
        /\ device'.running = {} /\ device'.alive
        /\ UNCHANGED <<api, doStopStream>>
    BY <1>1, Opens, InitialDevice
  <2> QED
    BY <1>4, <2>1, <2>2, <2>3 DEF EndsWith, OpenedInto
<1>5. CASE \E r \in single : EndsWith(r, "idle")
  BY <1>1, <1>4, <1>5
<1>6. CASE \E r \in second : EndsWith(r, IF r.ok \/ r.thrown THEN "idle" ELSE "close")
  <2>1. PICK r \in second : EndsWith(r, IF r.ok \/ r.thrown THEN "idle" ELSE "close")
    BY <1>6
  <2>2. r \in ResultType /\ r \in Outcomes(good, badSecond) /\ ~r.thrown
    BY <1>1, OutcomeOf
  <2>3. CASE r.ok
    <3>1. EndsWith(r, "idle") /\ r \in Outcomes(good, bad)
      BY <2>1, <2>2, <2>3 DEF Outcomes
    <3> QED
      BY <1>4, <2>2, <3>1
  <2>4. CASE ~r.ok
    <3>1. EndsWith(r, "close")
      BY <2>1, <2>2, <2>4
    <3> QED
      BY <1>4, <2>2, <2>4, <3>1
  <2> QED
    BY <2>3, <2>4
<1> QED
  BY <1>1, <1>5, <1>6, Opens

\* The application's callback returns, and the thread goes on.
LEMMA UserCalled ==
  ASSUME TypeInv, NEW next \in [0 .. 2 -> PcLabels \ {"callback"}], UserCallback(next)
  PROVE /\ Called /\ doStopStream' \in 0 .. 2 /\ hist' \in HistType
        /\ pc["audio"] = "callback" /\ pc' = [pc EXCEPT !["audio"] = next[doStopStream']]
        /\ UNCHANGED <<api, stream_, handle, device, process, opens, starts>>
        /\ TypeInv' /\ Lasting
<1>1. PICK r \in 0 .. 2 :
         /\ doStopStream' = r
         /\ hist' = [hist EXCEPT
              !.ended = r # 0, !.self = (r = 1 /\ pc["user"] = "idle" /\ pc["helper"] = "none"),
              !.late = IF @ >= 0 THEN @ + 1 ELSE @]
         /\ pc' = [pc EXCEPT !["audio"] = next[r]]
  BY DEF UserCallback, Goto
<1>2. Called /\ hist' \in HistType
  BY <1>1, CalledHist DEF Called
<1>3. pc' \in [Threads -> PcLabels] /\ pc'["audio"] # "callback"
  BY <1>1 DEF TypeInv, Threads
<1> QED
  BY <1>1, <1>2, <1>3 DEF UserCallback, At, TypeInv, Lasting

-----------------------------------------------------------------------------
(* The backends with a thread that waits under the mutex.                  *)

\* What holds of ALSA, PulseAudio and OSS: once a stop has returned the stream does not run
\* before it is started again; a callback that ended is followed by a stop; the thread has
\* its handle, or is the orphan of a failed opening; the devices stay until they are freed.
ThreadInv ==
  /\ pc["helper"] = "none"
  /\ stream_.state \in {"CLOSED", "STOPPED", "RUNNING"}
  /\ hist.late >= 0 => stream_.state # "RUNNING"
  /\ hist.late <= 1 /\ (hist.late = 1 => pc["audio"] # "callback")
  /\ hist.ended => /\ pc["audio"] # "callback"
                   /\ pc["audio"] = "io" => doStopStream = 1
                   /\ \/ pc["audio"] \in {"abort", "aborting", "stop", "stopping", "io"}
                      \/ stream_.state # "RUNNING"
  /\ hist.self => pc["user"] = "idle" /\ pc["audio"] \notin {"abort", "aborting", "drop"}
  /\ pc["audio"] \notin {"none", "ended"} => "handle" \in stream_.owned \/ hist.orphan
  /\ hist.opened /\ stream_.state # "CLOSED" /\ pc["user"] # "free"
       => Devices \cap stream_.owned # {}

\* Their thread after the application's callback.
LEMMA ThreadCalled ==
  ASSUME TypeInv, UserCallback([r \in 0 .. 2 |-> IF r = 2 THEN "abort" ELSE "io"])
  PROVE /\ Called /\ doStopStream' \in 0 .. 2
        /\ pc["audio"] = "callback"
        /\ pc' = [pc EXCEPT !["audio"] = IF doStopStream' = 2 THEN "abort" ELSE "io"]
        /\ UNCHANGED <<stream_, handle>>
        /\ TypeInv' /\ Lasting
<1> DEFINE next == [r \in 0 .. 2 |-> IF r = 2 THEN "abort" ELSE "io"]
<1>1. next \in [0 .. 2 -> PcLabels \ {"callback"}]
  BY DEF PcLabels
<1>2. UserCallback(next)
  OBVIOUS
<1>3. \A r \in 0 .. 2 : next[r] = IF r = 2 THEN "abort" ELSE "io"
  OBVIOUS
<1> HIDE DEF next
<1> QED
  BY <1>1, <1>2, <1>3, UserCalled

-----------------------------------------------------------------------------
(* RtApiAlsa.                                                              *)

\* What RtApiAlsa loses (KnownLeaks); streams before a probe, with the device open, after the
\* probe, and after its failure.
AlsaLost == {"ctl", "thread"}
AlsaBefore == {s \in Probed(AlsaLost) : s.state = "CLOSED" => s.owned = {}}
AlsaWith(m) ==
  {s \in Probed(AlsaLost) : Device(m) \in s.owned /\ (s.state = "CLOSED" => s.owned = {Device(m)})}
AlsaAfter == {s \in Probed(AlsaLost) : s.state = "STOPPED" /\ Devices \cap s.owned # {}}
AlsaFailed == {s \in Probed(AlsaLost) : s.state = "CLOSED" => s.owned \subseteq AlsaLost}

\* Every path through RtApiAlsa::probeDeviceOpen() ends opened, with a device, or failed,
\* owning no more than what is known to be lost.
LEMMA AlsaProbeOutcomes ==
  ASSUME NEW s \in AlsaBefore, NEW m \in {"OUTPUT", "INPUT"}
  PROVE \A r \in AlsaProbe(s, m) : r \in Outcomes(AlsaAfter, AlsaFailed)
<1> DEFINE Find == AlsaFind(s)
           Open == Then(Find, LAMBDA t : AlsaOpenPcm(t, m))
           Parameters == Then(Open, LAMBDA t : AlsaParameters(t, m))
<1>0. /\ AlsaBefore \in SUBSET StreamType /\ AlsaWith(m) \in SUBSET StreamType
      /\ AlsaAfter \in SUBSET StreamType /\ AlsaFailed \in SUBSET StreamType
  BY DEF AlsaBefore, AlsaWith, AlsaAfter, AlsaFailed, Probed
<1>1. \A r \in Find : r \in Outcomes(AlsaBefore, AlsaFailed)
  <2> DEFINE u == [s EXCEPT !.leaked = @ \cup {"ctl"}]
  <2>1. s \in AlsaFailed /\ u \in AlsaBefore /\ u \in AlsaFailed
    BY Names DEF AlsaBefore, AlsaFailed, StreamType, Probed, AlsaLost
  <2>2. \A r \in Find : r \in {Success(s), Failure(s), Success(u), Failure(u)}
    BY DEF AlsaFind
  <2> HIDE DEF u, Find
  <2> QED
    BY <1>0, <2>1, <2>2, OutcomeOf
<1>2. \A t \in AlsaBefore : \A r \in AlsaOpenPcm(t, m) : r \in Outcomes(AlsaWith(m), AlsaFailed)
  <2>1. \A t \in AlsaBefore : t \in AlsaFailed /\ Got(t, {Device(m)}) \in AlsaWith(m)
    BY Names, GotStream DEF AlsaBefore, AlsaWith, AlsaFailed, Probed, AlsaLost, Same
  <2> QED
    BY <1>0, <2>1, OutcomeOf DEF AlsaOpenPcm
<1>3. \A t \in AlsaWith(m) : \A r \in AlsaParameters(t, m) : r \in Outcomes(AlsaWith(m), AlsaFailed)
  <2>1. \A t \in AlsaWith(m) : Freed(t, {Device(m)}) \in AlsaFailed
    BY FreedStream DEF AlsaWith, AlsaFailed, Probed, AlsaLost, Same
  <2> QED
    BY <1>0, <2>1, OutcomeOf DEF AlsaParameters
<1>4. \A t \in AlsaWith(m) : \A r \in AlsaSetUp(t, m) : r \in Outcomes(AlsaAfter, AlsaFailed)
  <2> SUFFICES ASSUME NEW t \in AlsaWith(m), NEW r \in AlsaSetUp(t, m)
               PROVE r \in Outcomes(AlsaAfter, AlsaFailed)
    OBVIOUS
  <2>1. [Freed(t, Resources \ {"ctl", "thread"}) EXCEPT !.state = "CLOSED"] \in AlsaFailed
    <3>1. /\ Freed(t, Resources \ {"ctl", "thread"}) \in StreamType
          /\ Freed(t, Resources \ {"ctl", "thread"}).owned \subseteq AlsaLost
          /\ Freed(t, Resources \ {"ctl", "thread"}).leaked \subseteq AlsaLost
      BY FreedStream DEF AlsaWith, StreamType, Probed, AlsaLost, Same
    <3> QED
      BY <3>1, ClosedStream DEF AlsaFailed, Probed
  <2>2. \A b \in WithBuffers(t, m) : Opened(Got(b, {"handle"}), m) \in AlsaAfter
    BY Names, BufferedStream, GotStream, OpenedStream DEF AlsaWith, AlsaAfter, Probed, Same
  <2>3. ASSUME NEW u \in AlsaAfter
        PROVE [Got(u, {"thread"}) EXCEPT !.isRunning = TRUE] \in AlsaAfter
    <3>1. Got(u, {"thread"}) \in AlsaAfter
      BY Names, GotStream DEF AlsaAfter, Probed, Same
    <3> QED
      BY <3>1, SetStream DEF AlsaAfter, Probed
  <2> QED
    BY <1>0, <2>1, <2>2, <2>3, OutcomeOf DEF AlsaSetUp, AlsaError
<1>5. \A r \in Open : r \in Outcomes(AlsaWith(m), AlsaFailed)
  BY <1>1, <1>2 DEF Then, Outcomes
<1> HIDE DEF Open
<1>6. \A r \in Parameters : r \in Outcomes(AlsaWith(m), AlsaFailed)
  BY <1>5, <1>3 DEF Then, Outcomes
<1> HIDE DEF Parameters
<1>7. AlsaProbe(s, m) = Then(Parameters, LAMBDA t : AlsaSetUp(t, m))
  BY DEF AlsaProbe, Open, Parameters
<1> QED
  BY <1>6, <1>7, <1>4 DEF Then, Outcomes

\* The invariant of RtApiAlsa: a closed stream has its callback thread before the first lock,
\* if at all; the buffers are drained or dropped under the mutex after the state is STOPPED;
\* only linked devices lose the last buffer.
AlsaInv ==
  /\ ThreadInv
  /\ stream_.state = "CLOSED"
       => pc["user"] \in {"idle", "close"} /\ pc["audio"] \in {"none", "loop", "ended"}
  /\ pc["user"] \in {"drain", "drop"} => stream_.state = "STOPPED"
  /\ hist.unheard \subseteq {"DUPLEX"}
  /\ stream_.leaked \subseteq AlsaLost
  /\ stream_.state = "CLOSED" => stream_.owned \subseteq AlsaLost

\* openStream() of RtApiAlsa keeps its invariant.
LEMMA AlsaOpens ==
  ASSUME TypeInv, AlsaInv, OpenStream(Single(AlsaProbe), Second(AlsaProbe))
  PROVE TypeInv' /\ AlsaInv' /\ Lasting
<1>1. /\ AlsaBefore \in SUBSET StreamType
      /\ AlsaAfter \in SUBSET StreamType /\ AlsaFailed \in SUBSET StreamType
      /\ \A s \in AlsaAfter : s.state = "STOPPED" /\ s \in AlsaBefore
  BY DEF AlsaBefore, AlsaAfter, AlsaFailed, Probed
<1>2. Cleared(stream_) \in AlsaBefore
  <2>1. stream_.state = "CLOSED"
    BY DEF OpenStream
  <2> QED
    BY <2>1, ClearedStream DEF AlsaBefore, Probed, TypeInv, AlsaInv
<1>3. \A r \in Single(AlsaProbe) : r \in Outcomes(AlsaAfter, AlsaFailed)
  BY <1>2, AlsaProbeOutcomes DEF Single
<1>4. \A r \in Second(AlsaProbe) : r \in Outcomes(AlsaAfter, AlsaFailed)
  <2>1. \A q \in AlsaProbe(Cleared(stream_), "OUTPUT") : q.ok => q.s \in AlsaBefore
    BY <1>1, <1>2, AlsaProbeOutcomes, OutcomeOf
  <2> QED
    BY <2>1, AlsaProbeOutcomes DEF Second
<1>5. TypeInv' /\ Lasting /\ OpenedInto(AlsaAfter, AlsaFailed, AlsaFailed)
  BY <1>1, <1>3, <1>4, OpensInto
<1> QED
  BY <1>5 DEF OpenedInto, AlsaAfter, AlsaFailed, Probed, AlsaLost, AlsaInv, ThreadInv

\* The application's calls keep it.
LEMMA AlsaCalls ==
  ASSUME TypeInv, AlsaInv, Calls
  PROVE TypeInv' /\ AlsaInv' /\ Lasting
<1>1. TypeInv' /\ Lasting
  BY CallsTyped
<1> USE DEF AlsaInv, ThreadInv, At, Goto
<1>2. CASE StartCall
  BY <1>1, <1>2, MeddledHist DEF StartCall, StreamOpen, TypeInv, Threads
<1>3. CASE StopCall
  BY <1>1, <1>3, MeddledHist DEF StopCall, StreamOpen, TypeInv, Threads
<1>4. CASE CloseCall
  BY <1>1, <1>4, MeddledHist DEF CloseCall, StreamOpen, TypeInv, Threads
<1>5. ASSUME NEW t \in Threads, StopCheck(t)
      PROVE AlsaInv'
  BY <1>5 DEF StopCheck, Throw, Return, Resume, TypeInv, Threads
<1> QED
  BY <1>1, <1>2, <1>3, <1>4, <1>5 DEF Calls

\* So does every step of startStream(), stopStream(), abortStream(), closeStream() and
\* callbackEvent().
LEMMA AlsaSteps ==
  ASSUME TypeInv, AlsaInv, AlsaUser \/ AlsaAudio
  PROVE TypeInv' /\ AlsaInv' /\ Lasting
<1> USE DEF ThreadInv, At, Goto, Threads, PcLabels
<1>1. CASE AlsaStart
  <2>1. stream_' \in StreamType /\ handle' \in HandleType
    BY <1>1 DEF AlsaStart, TypeInv, StreamType, StreamStates, HandleType
  <2>2. CASE UNCHANGED <<stream_, hist>>
    BY <1>1, <2>1, <2>2 DEF AlsaStart, Return, Resume, TypeInv, Lasting, AlsaInv
  <2>3. CASE stream_' = [stream_ EXCEPT !.state = "RUNNING"] /\ hist' = Started(hist)
    BY <1>1, <2>1, <2>3, StartedHist DEF AlsaStart, Return, Resume, TypeInv, Lasting, AlsaInv, StreamType
  <2> QED
    BY <1>1, <2>2, <2>3 DEF AlsaStart
<1>2. ASSUME NEW t \in {"user", "audio"}, AlsaMark(t)
      PROVE TypeInv' /\ AlsaInv' /\ Lasting
  <2>1. stream_' \in StreamType
    BY <1>2 DEF AlsaMark, TypeInv, StreamType, StreamStates
  <2> QED
    BY <1>2, <2>1 DEF AlsaMark, TypeInv, Lasting, AlsaInv, StreamType
<1>3. ASSUME NEW t \in {"user", "audio"}, AlsaHalt(t)
      PROVE TypeInv' /\ AlsaInv' /\ Lasting
  <2> DEFINE d == pc[t] = "drain" /\ ~(stream_.mode = "DUPLEX" /\ handle.synchronized)
  <2>1. d \in BOOLEAN
    OBVIOUS
  <2>2. handle' \in HandleType
    BY <1>3 DEF AlsaHalt, TypeInv, HandleType
  <2>3. /\ pc' \in [Threads -> PcLabels] /\ process' \in {"running", "aborted", "undefined"}
        /\ pc' = [pc EXCEPT ![t] = IF t = "user" THEN "idle"
                                   ELSE IF "thread" \in stream_.owned THEN "loop" ELSE "none"]
    BY <1>3 DEF AlsaHalt, Return, Throw, Resume, TypeInv
  <2>4. CASE hist' = StopReturned(t, Silenced(hist, d))
    <3>1. d <=> pc[t] = "drain" /\ ~(stream_.mode = "DUPLEX" /\ handle.synchronized)
      OBVIOUS
    <3> HIDE DEF d
    <3> QED
      BY <1>3, <2>1, <2>2, <2>3, <2>4, <3>1, HaltedHist DEF AlsaHalt, TypeInv, Lasting, AlsaInv, Keeps
  <2>5. CASE hist' = StopReturned(t, hist)
    BY <1>3, <2>2, <2>3, <2>5, StoppedHist DEF AlsaHalt, TypeInv, Lasting, AlsaInv, Keeps
  <2> QED
    BY <1>3, <2>4, <2>5 DEF AlsaHalt
<1>4. CASE AlsaCloseWake
  <2>1. stream_' \in StreamType /\ handle' \in HandleType
    BY <1>4 DEF AlsaCloseWake, TypeInv, StreamType, HandleType
  <2> QED
    BY <1>4, <2>1 DEF AlsaCloseWake, TypeInv, Lasting, AlsaInv, StreamType
<1>5. CASE AlsaCloseFree
  <2>1. stream_' \in StreamType
    BY <1>5 DEF AlsaCloseFree, Freed, TypeInv, StreamType, StreamStates, Modes
  <2> QED
    BY <1>5, <2>1 DEF AlsaCloseFree, Freed, TypeInv, Lasting, AlsaInv, StreamType
<1>6. CASE AlsaLoop
  BY <1>6 DEF AlsaLoop, TypeInv, Lasting, AlsaInv
<1>7. CASE AlsaWait
  BY <1>7 DEF AlsaWait, TypeInv, Lasting, AlsaInv
<1>8. CASE AlsaCallback
  BY <1>8, ThreadCalled DEF AlsaCallback, Called, TypeInv, HistType, AlsaInv
<1>9. CASE AlsaTransfer
  <2>1. CASE hist' = hist
    BY <1>9, <2>1 DEF AlsaTransfer, TypeInv, Lasting, AlsaInv
  <2>2. CASE hist' = [hist EXCEPT !.unplayed = TRUE]
    BY <1>9, <2>2, PlayedHist DEF AlsaTransfer, TypeInv, Lasting, AlsaInv, Keeps
  <2> QED
    BY <1>9, <2>1, <2>2 DEF AlsaTransfer
<1> QED
  BY <1>1, <1>2, <1>3, <1>4, <1>5, <1>6, <1>7, <1>8, <1>9 DEF AlsaUser, AlsaAudio

\* Every step of a stream on RtApiAlsa keeps its invariant.
LEMMA AlsaPreserved ==
  ASSUME TypeInv, AlsaInv, api = "ALSA", AlsaNext \/ Calls
  PROVE TypeInv' /\ AlsaInv' /\ Lasting
<1>1. CASE GetDeviceInfo(AlsaInfo(stream_))
  <2>1. PICK a \in AlsaInfo(stream_) : stream_' = a.s
    BY <1>1 DEF GetDeviceInfo
  <2>2. stream_' \in {stream_, [stream_ EXCEPT !.leaked = @ \cup {"ctl"}]}
    BY <2>1 DEF AlsaInfo, AlsaCount, Answer, Undefined
  <2>3. stream_' \in StreamType
    BY <2>2, Names DEF TypeInv, StreamType
  <2> QED
    BY <1>1, <2>2, <2>3 DEF GetDeviceInfo, TypeInv, StreamType, Lasting, AlsaInv, ThreadInv, AlsaLost
<1> QED
  BY <1>1, AlsaOpens, AlsaCalls, AlsaSteps DEF AlsaNext

-----------------------------------------------------------------------------
(* RtApiPulse.                                                             *)

\* What RtApiPulse loses; streams during a probe, once connected, and after a failure.
PulseLost == {"handle", "deviceBuffer", "thread"} \cup Devices
PulseOpening(v) ==
  {s \in Probed(PulseLost) : s.state = v /\ s.owned \subseteq PulseLost \cup UserBuffers}
PulseConnected(v) ==
  {s \in PulseOpening(v) : "handle" \in s.owned /\ Devices \cap s.owned # {}}
PulseFailed(v) == {s \in PulseOpening(v) : v = "CLOSED" => s.owned \subseteq PulseLost}

\* The label `error' of RtApiPulse::probeDeviceOpen(), with and without a handle.
LEMMA PulseErrorFails ==
  ASSUME NEW v \in {"CLOSED", "STOPPED"}, NEW s \in PulseOpening(v), NEW good \in SUBSET StreamType
  PROVE /\ PulseError(s, TRUE) \in Outcomes(good, PulseFailed(v))
        /\ PulseError(s, FALSE) \in Outcomes(good, PulseFailed(v))
<1> DEFINE t == Freed(s, UserBuffers \cup {"deviceBuffer"})
<1>1. t \in PulseFailed(v)
  BY FreedStream DEF PulseOpening, PulseFailed, Probed, Same, PulseLost
<1> HIDE DEF t
<1>2. Lost(Freed(t, {"handle"}), Devices) \in PulseFailed(v)
  <2>1. Freed(t, {"handle"}) \in PulseFailed(v)
    BY <1>1, FreedStream DEF PulseFailed, PulseOpening, Probed, Same
  <2> QED
    BY <2>1, LostStream DEF PulseFailed, PulseOpening, Probed, Same, PulseLost
<1>3. PulseFailed(v) \in SUBSET StreamType
  BY DEF PulseFailed, PulseOpening, Probed
<1>4. \A pah \in BOOLEAN :
        PulseError(s, pah) \in {Failure(t), Failure(Lost(Freed(t, {"handle"}), Devices))}
  BY DEF PulseError, t
<1> QED
  BY <1>1, <1>2, <1>3, <1>4, OutcomeOf

\* Every path through RtApiPulse::probeDeviceOpen() ends connected or failed.
LEMMA PulseProbeOutcomes ==
  ASSUME NEW v \in {"CLOSED", "STOPPED"}, NEW s \in PulseFailed(v), NEW m \in {"OUTPUT", "INPUT"}
  PROVE \A r \in PulseProbe(s, m) : r \in Outcomes(PulseConnected("STOPPED"), PulseFailed(v))
<1> DEFINE Parameters == PulseParameters(s)
           Buffers == Then(Parameters, LAMBDA t : PulseBuffers(t, m))
           Connect == Then(Buffers, LAMBDA t : PulseConnect(t, m))
<1>0. /\ PulseOpening(v) \in SUBSET StreamType /\ PulseConnected(v) \in SUBSET StreamType
      /\ PulseConnected("STOPPED") \in SUBSET StreamType /\ PulseFailed(v) \in SUBSET StreamType
  BY DEF PulseOpening, PulseConnected, PulseFailed, Probed
<1>1. \A r \in Parameters : r \in {Success(s), Failure(s)}
  BY DEF PulseParameters
<1>2. \A t \in PulseOpening(v) : \A r \in PulseBuffers(t, m) : r \in Outcomes(PulseOpening(v), PulseFailed(v))
  <2>1. \A t \in PulseOpening(v) : \A b \in WithBuffers(t, m) : b \in PulseOpening(v)
    BY Names, BufferedStream DEF PulseOpening, Probed, Same, PulseLost
  <2> QED
    BY <1>0, <2>1, PulseErrorFails, OutcomeOf DEF PulseBuffers
<1>3. \A t \in PulseOpening(v) : \A r \in PulseConnect(t, m) : r \in Outcomes(PulseConnected(v), PulseFailed(v))
  <2>1. \A t \in PulseOpening(v) :
          /\ Got(t, {"handle"}) \in PulseOpening(v)
          /\ Got(Got(t, {"handle"}), {Device(m)}) \in PulseConnected(v)
    BY Names, GotStream DEF PulseOpening, PulseConnected, Probed, Same, PulseLost
  <2>2. ASSUME NEW t \in PulseOpening(v)
        PROVE \A r \in PulseConnect(t, m) : r \in Outcomes(PulseConnected(v), PulseFailed(v))
    <3> DEFINE u == Got(t, {"handle"})
    <3>1. /\ PulseError(u, TRUE) \in Outcomes(PulseConnected(v), PulseFailed(v))
          /\ PulseError(u, FALSE) \in Outcomes(PulseConnected(v), PulseFailed(v))
      BY <1>0, <2>1, PulseErrorFails
    <3>2. Success(Got(u, {Device(m)})) \in Outcomes(PulseConnected(v), PulseFailed(v))
      BY <1>0, <2>1, OutcomeOf
    <3>3. PulseConnect(t, m) \subseteq
            {PulseError(u, TRUE), PulseError(u, FALSE), Success(Got(u, {Device(m)}))}
      BY DEF PulseConnect
    <3> HIDE DEF u
    <3> QED
      BY <3>1, <3>2, <3>3
  <2> QED
    BY <2>2
<1>4. \A t \in PulseConnected(v) : \A r \in PulseThread(t, m) :
        r \in Outcomes(PulseConnected("STOPPED"), PulseFailed(v))
  <2> SUFFICES ASSUME NEW t \in PulseConnected(v), NEW r \in PulseThread(t, m)
               PROVE r \in Outcomes(PulseConnected("STOPPED"), PulseFailed(v))
    OBVIOUS
  <2> DEFINE u == [t EXCEPT !.mode = NewMode(t, m), !.isRunning = TRUE]
  <2>1. Opened(t, m) \in PulseConnected("STOPPED")
    BY OpenedStream DEF PulseConnected, PulseOpening, Probed
  <2>2. u \in PulseConnected(v) /\ u \in PulseOpening(v)
    BY DEF PulseConnected, PulseOpening, Probed, StreamType, NewMode, Modes
  <2>3. r \in {Success(Opened(t, m)), PulseError(u, TRUE), Success(Got(Opened(u, m), {"thread"}))}
    BY DEF PulseThread
  <2> HIDE DEF u
  <2>4. Opened(u, m) \in PulseConnected("STOPPED")
    BY <2>2, OpenedStream DEF PulseConnected, PulseOpening, Probed
  <2>5. Got(Opened(u, m), {"thread"}) \in PulseConnected("STOPPED")
    BY <2>4, Names, GotStream DEF PulseConnected, PulseOpening, Probed, Same, PulseLost
  <2>6. PulseError(u, TRUE) \in Outcomes(PulseConnected("STOPPED"), PulseFailed(v))
    BY <1>0, <2>2, PulseErrorFails
  <2>7. /\ Success(Opened(t, m)) \in Outcomes(PulseConnected("STOPPED"), PulseFailed(v))
        /\ Success(Got(Opened(u, m), {"thread"})) \in Outcomes(PulseConnected("STOPPED"), PulseFailed(v))
    BY <1>0, <2>1, <2>5, OutcomeOf
  <2> QED
    BY <2>3, <2>6, <2>7
<1>5. \A r \in Buffers : r \in Outcomes(PulseOpening(v), PulseFailed(v))
  <2>1. \A r \in Parameters : r.ok => r.s \in PulseOpening(v)
    BY <1>1 DEF Success, Failure, PulseFailed
  <2>2. \A r \in Parameters : ~r.ok => r \in Outcomes(PulseOpening(v), PulseFailed(v))
    BY <1>0, <1>1, OutcomeOf DEF Success, Failure
  <2> QED
    BY <1>2, <2>1, <2>2 DEF Then
<1> HIDE DEF Buffers
<1>6. \A r \in Connect : r \in Outcomes(PulseConnected(v), PulseFailed(v))
  BY <1>5, <1>3 DEF Then, Outcomes
<1> HIDE DEF Connect
<1>7. PulseProbe(s, m) = Then(Connect, LAMBDA t : PulseThread(t, m))
  BY DEF PulseProbe, Connect, Buffers, Parameters
<1> QED
  BY <1>6, <1>7, <1>4 DEF Then, Outcomes

\* The invariant of RtApiPulse: the handle is deleted in closeStream() only after the thread
\* was joined, and while there is none nobody but closeStream() and an orphan is on the way.
PulseInv ==
  /\ ThreadInv
  /\ stream_.state = "CLOSED"
       => pc["user"] = "idle" /\ pc["audio"] \in {"none", "loop", "lock", "ended"}
  /\ pc["user"] \in {"drain", "drop"} => stream_.state = "STOPPED"
  /\ pc["user"] = "free" => "handle" \notin stream_.owned
  /\ "handle" \notin stream_.owned =>
       /\ pc["user"] \in {"idle", "close", "free"}
       /\ pc["user"] = "idle" => stream_.state = "CLOSED"
       /\ pc["audio"] \in {"none", "loop", "lock", "ended"}
       /\ pc["audio"] \in {"loop", "lock"} => stream_.state # "RUNNING"
  /\ hist.unheard = {}
  /\ stream_.leaked \subseteq PulseLost /\ stream_.owned \subseteq PulseLost \cup UserBuffers
  /\ stream_.state = "CLOSED" => stream_.owned \subseteq PulseLost

\* openStream() of RtApiPulse keeps its invariant.
LEMMA PulseOpens ==
  ASSUME TypeInv, PulseInv, OpenStream(Single(PulseProbe), Second(PulseProbe))
  PROVE TypeInv' /\ PulseInv' /\ Lasting
<1>1. /\ PulseConnected("STOPPED") \in SUBSET StreamType
      /\ PulseFailed("CLOSED") \in SUBSET StreamType /\ PulseFailed("STOPPED") \in SUBSET StreamType
      /\ \A s \in PulseConnected("STOPPED") : s.state = "STOPPED" /\ s \in PulseFailed("STOPPED")
  BY DEF PulseConnected, PulseOpening, PulseFailed, Probed
<1>2. Cleared(stream_) \in PulseFailed("CLOSED")
  <2>1. stream_.state = "CLOSED"
    BY DEF OpenStream
  <2> QED
    BY <2>1, ClearedStream DEF PulseFailed, PulseOpening, Probed, TypeInv, PulseInv
<1>3. \A r \in Single(PulseProbe) : r \in Outcomes(PulseConnected("STOPPED"), PulseFailed("CLOSED"))
  BY <1>2, PulseProbeOutcomes DEF Single
<1>4. \A r \in Second(PulseProbe) : r \in Outcomes(PulseConnected("STOPPED"), PulseFailed("STOPPED"))
  <2>1. \A q \in PulseProbe(Cleared(stream_), "OUTPUT") : q.ok => q.s \in PulseFailed("STOPPED")
    BY <1>1, <1>2, PulseProbeOutcomes, OutcomeOf
  <2> QED
    BY <2>1, PulseProbeOutcomes DEF Second
<1>5. /\ TypeInv' /\ Lasting
      /\ OpenedInto(PulseConnected("STOPPED"), PulseFailed("CLOSED"), PulseFailed("STOPPED"))
  BY <1>1, <1>3, <1>4, OpensInto
<1> QED
  BY <1>5 DEF OpenedInto, PulseConnected, PulseOpening, PulseFailed, Probed, PulseInv, ThreadInv

\* The application's calls keep it.
LEMMA PulseCalls ==
  ASSUME TypeInv, PulseInv, Calls
  PROVE TypeInv' /\ PulseInv' /\ Lasting
<1>1. TypeInv' /\ Lasting
  BY CallsTyped
<1> USE DEF PulseInv, ThreadInv, At, Goto
<1>2. CASE StartCall
  BY <1>1, <1>2, MeddledHist DEF StartCall, StreamOpen, TypeInv, Threads
<1>3. CASE StopCall
  BY <1>1, <1>3, MeddledHist DEF StopCall, StreamOpen, TypeInv, Threads
<1>4. CASE CloseCall
  BY <1>1, <1>4, MeddledHist DEF CloseCall, StreamOpen, TypeInv, Threads
<1>5. ASSUME NEW t \in Threads, StopCheck(t)
      PROVE PulseInv'
  BY <1>5 DEF StopCheck, Throw, Return, Resume, TypeInv, Threads
<1> QED
  BY <1>1, <1>2, <1>3, <1>4, <1>5 DEF Calls

\* So does every step of its threads.
LEMMA PulseSteps ==
  ASSUME TypeInv, PulseInv, PulseUser \/ PulseAudio
  PROVE TypeInv' /\ PulseInv' /\ Lasting
<1> USE DEF ThreadInv, At, Goto, Threads, PcLabels
<1>1. CASE PulseStart
  <2>1. stream_' \in StreamType /\ handle' \in HandleType
    BY <1>1 DEF PulseStart, TypeInv, StreamType, StreamStates, HandleType
  <2> QED
    BY <1>1, <2>1, StartedHist DEF PulseStart, Return, Resume, TypeInv, Lasting, PulseInv, StreamType
<1>2. ASSUME NEW t \in {"user", "audio"}, PulseMark(t)
      PROVE TypeInv' /\ PulseInv' /\ Lasting
  <2>1. stream_' \in StreamType
    BY <1>2 DEF PulseMark, TypeInv, StreamType, StreamStates
  <2> QED
    BY <1>2, <2>1 DEF PulseMark, TypeInv, Lasting, PulseInv, StreamType
<1>3. ASSUME NEW t \in {"user", "audio"}, PulseHalt(t)
      PROVE TypeInv' /\ PulseInv' /\ Lasting
  <2> DEFINE d == pc[t] = "drain"
  <2>1. d \in BOOLEAN
    OBVIOUS
  <2>2. stream_' \in StreamType
    BY <1>3 DEF PulseHalt, TypeInv, StreamType, StreamStates
  <2>3. /\ pc' \in [Threads -> PcLabels] /\ process' \in {"running", "aborted", "undefined"}
        /\ pc' = [pc EXCEPT ![t] = IF t = "user" THEN "idle"
                                   ELSE IF "thread" \in stream_.owned THEN "loop" ELSE "none"]
    BY <1>3 DEF PulseHalt, Return, Throw, Resume, TypeInv
  <2>4. CASE stream_' = [stream_ EXCEPT !.state = "STOPPED"] /\ hist' = StopReturned(t, Silenced(hist, d))
    <3>1. d <=> pc[t] = "drain"
      OBVIOUS
    <3> HIDE DEF d
    <3> QED
      BY <1>3, <2>1, <2>2, <2>3, <2>4, <3>1, HaltedHist
         DEF PulseHalt, TypeInv, Lasting, PulseInv, Keeps, StreamType
  <2>5. CASE UNCHANGED stream_ /\ hist' = StopReturned(t, hist)
    BY <1>3, <2>3, <2>5, StoppedHist DEF PulseHalt, TypeInv, Lasting, PulseInv, Keeps
  <2> QED
    BY <1>3, <2>4, <2>5 DEF PulseHalt
<1>4. CASE PulseCloseWake
  <2>1. stream_' \in StreamType /\ handle' \in HandleType
    BY <1>4 DEF PulseCloseWake, TypeInv, StreamType, HandleType
  <2> QED
    BY <1>4, <2>1 DEF PulseCloseWake, TypeInv, Lasting, PulseInv, StreamType
<1>5. CASE PulseJoin
  <2>1. stream_' \in StreamType
    BY <1>5 DEF PulseJoin, Freed, TypeInv, StreamType, StreamStates, Modes
  <2> QED
    BY <1>5, <2>1 DEF PulseJoin, Freed, TypeInv, Lasting, PulseInv, StreamType
<1>6. CASE PulseCloseFree
  <2>1. stream_' \in StreamType
    BY <1>6 DEF PulseCloseFree, Freed, TypeInv, StreamType, StreamStates, Modes
  <2> QED
    BY <1>6, <2>1 DEF PulseCloseFree, Return, Resume, Freed, TypeInv, Lasting, PulseInv, StreamType
<1>7. CASE PulseLoop
  BY <1>7 DEF PulseLoop, TypeInv, Lasting, PulseInv
<1>8. CASE PulseWait
  BY <1>8 DEF PulseWait, TypeInv, Lasting, PulseInv
<1>9. CASE PulseCallback
  BY <1>9, ThreadCalled DEF PulseCallback, Called, TypeInv, HistType, PulseInv
<1>10. CASE PulseTransfer
  <2>1. CASE hist' = hist
    BY <1>10, <2>1 DEF PulseTransfer, TypeInv, Lasting, PulseInv
  <2>2. CASE hist' = [hist EXCEPT !.unplayed = TRUE]
    BY <1>10, <2>2, PlayedHist DEF PulseTransfer, TypeInv, Lasting, PulseInv, Keeps
  <2> QED
    BY <1>10, <2>1, <2>2 DEF PulseTransfer
<1> QED
  BY <1>1, <1>2, <1>3, <1>4, <1>5, <1>6, <1>7, <1>8, <1>9, <1>10 DEF PulseUser, PulseAudio

\* Every step of a stream on RtApiPulse keeps its invariant.
LEMMA PulsePreserved ==
  ASSUME TypeInv, PulseInv, api = "PULSE", PulseNext \/ Calls
  PROVE TypeInv' /\ PulseInv' /\ Lasting
BY PulseOpens, PulseCalls, PulseSteps DEF PulseNext

-----------------------------------------------------------------------------
(* RtApiOss.                                                               *)

\* Streams during a probe of RtApiOss (which loses devices only): before it, with the device
\* open, with the handle, after it, and after its failure.
OssOpening(v) ==
  {s \in Probed(Devices) : s.state = v /\ (v = "CLOSED" => s.owned \subseteq Devices)}
OssWith(v, m) == {s \in OssOpening(v) : Device(m) \in s.owned}
OssHandled(v, m) ==
  {s \in Probed(Devices) : /\ s.state = v /\ (v = "CLOSED" => "thread" \notin s.owned)
                           /\ Device(m) \in s.owned}
OssAfter == {s \in Probed(Devices) : s.state = "STOPPED" /\ Devices \cap s.owned # {}}
OssFailed(v) ==
  {s \in Probed(Devices) : /\ v = "STOPPED" => s.state = "STOPPED"
                           /\ s.state = "CLOSED" => s.owned \subseteq Devices}

\* The label `error' of RtApiOss::probeDeviceOpen().
LEMMA OssErrorFails ==
  ASSUME NEW v \in {"CLOSED", "STOPPED"}, NEW s \in Probed(Devices), NEW good \in SUBSET StreamType,
         s.state = "STOPPED" \/ (v = "CLOSED" /\ "thread" \notin s.owned)
  PROVE OssError(s) \in Outcomes(good, OssFailed(v))
<1> DEFINE t == Freed(s, Resources \ {"thread"})
<1>1. t \in OssFailed(v)
  BY FreedStream DEF OssFailed, Probed, Same, StreamType
<1>2. OssFailed(v) \in SUBSET StreamType
  BY DEF OssFailed, Probed
<1> HIDE DEF t
<1> QED
  BY <1>1, <1>2, OutcomeOf DEF OssError, t

\* Every path through RtApiOss::probeDeviceOpen() ends opened or failed.
LEMMA OssProbeOutcomes ==
  ASSUME NEW v \in {"CLOSED", "STOPPED"}, NEW s \in OssOpening(v), NEW m \in {"OUTPUT", "INPUT"}
  PROVE \A r \in OssProbe(s, m) : r \in Outcomes(OssAfter, OssFailed(v))
<1> DEFINE Find == OssFind(s)
           Open == Then(Find, LAMBDA t : OssOpen(t, m))
           Parameters == Then(Open, LAMBDA t : OssParameters(t, m))
           Handle == Then(Parameters, LAMBDA t : OssHandle(t, m))
<1>0. /\ OssOpening(v) \in SUBSET StreamType /\ OssWith(v, m) \in SUBSET StreamType
      /\ OssHandled(v, m) \in SUBSET StreamType
      /\ OssAfter \in SUBSET StreamType /\ OssFailed(v) \in SUBSET StreamType
  BY DEF OssOpening, OssWith, OssHandled, OssAfter, OssFailed, Probed
<1>1. \A t \in OssOpening(v) : t \in OssFailed(v)
  BY DEF OssOpening, OssFailed
<1>2. \A r \in Find : r \in Outcomes(OssOpening(v), OssFailed(v))
  BY <1>0, <1>1, OutcomeOf DEF OssFind
<1>3. \A t \in OssOpening(v) : \A r \in OssOpen(t, m) : r \in Outcomes(OssWith(v, m), OssFailed(v))
  <2>1. \A t \in OssOpening(v) : Freed(t, {"device0"}) \in OssOpening(v)
    BY FreedStream DEF OssOpening, Probed, Same
  <2>2. \A t \in OssOpening(v) : Got(t, {Device(m)}) \in OssWith(v, m)
    BY Names, GotStream DEF OssOpening, OssWith, Probed, Same
  <2>3. ASSUME NEW t \in OssOpening(v), NEW r \in OssOpen(t, m)
        PROVE \E u \in OssOpening(v) : r \in {Failure(u), Success(Got(u, {Device(m)}))}
    BY <2>1 DEF OssOpen
  <2>4. \A u \in OssOpening(v) :
          /\ Failure(u) \in Outcomes(OssWith(v, m), OssFailed(v))
          /\ Success(Got(u, {Device(m)})) \in Outcomes(OssWith(v, m), OssFailed(v))
    BY <1>0, <1>1, <2>2, OutcomeOf
  <2> QED
    BY <2>3, <2>4
<1>4. \A t \in OssWith(v, m) : \A r \in OssParameters(t, m) : r \in Outcomes(OssWith(v, m), OssFailed(v))
  <2>1. \A t \in OssWith(v, m) : Freed(t, {Device(m)}) \in OssFailed(v)
    BY FreedStream DEF OssWith, OssOpening, OssFailed, Probed, Same
  <2> QED
    BY <1>0, <2>1, OutcomeOf DEF OssParameters
<1>5. \A t \in OssWith(v, m) : \A r \in OssHandle(t, m) : r \in Outcomes(OssHandled(v, m), OssFailed(v))
  <2> SUFFICES ASSUME NEW t \in OssWith(v, m)
               PROVE \A r \in OssHandle(t, m) : r \in Outcomes(OssHandled(v, m), OssFailed(v))
    OBVIOUS
  <2> DEFINE u == Lost(t, {Device(m)})
  <2>1. Got(t, {"handle"}) \in OssHandled(v, m)
    BY Names, GotStream DEF OssWith, OssOpening, OssHandled, Probed, Same, Devices
  <2>2. /\ u \in Probed(Devices)
        /\ u.state = "STOPPED" \/ (v = "CLOSED" /\ "thread" \notin u.owned)
    BY Names, LostStream DEF OssWith, OssOpening, Probed, Same, Devices
  <2>3. OssError(u) \in Outcomes(OssHandled(v, m), OssFailed(v))
    BY <1>0, <2>2, OssErrorFails
  <2>4. Success(Got(t, {"handle"})) \in Outcomes(OssHandled(v, m), OssFailed(v))
    BY <1>0, <2>1, OutcomeOf
  <2>5. \A r \in OssHandle(t, m) : r \in {Success(Got(t, {"handle"})), OssError(u)}
    BY DEF OssHandle
  <2> HIDE DEF u
  <2> QED
    BY <2>3, <2>4, <2>5
<1>6. \A t \in OssHandled(v, m) : \A r \in OssSetUp(t, m) : r \in Outcomes(OssAfter, OssFailed(v))
  <2> SUFFICES ASSUME NEW t \in OssHandled(v, m)
               PROVE \A r \in OssSetUp(t, m) : r \in Outcomes(OssAfter, OssFailed(v))
    OBVIOUS
  <2>1. OssError(t) \in Outcomes(OssAfter, OssFailed(v))
    <3>1. /\ t \in Probed(Devices)
          /\ t.state = "STOPPED" \/ (v = "CLOSED" /\ "thread" \notin t.owned)
      BY DEF OssHandled
    <3> QED
      BY <1>0, <3>1, OssErrorFails
  <2>2. \A b \in WithBuffers(t, m) : Opened(b, m) \in OssAfter
    BY Names, BufferedStream, OpenedStream DEF OssHandled, OssAfter, Probed, Same
  <2>3. ASSUME NEW u \in OssAfter
        PROVE /\ OssError(u) \in Outcomes(OssAfter, OssFailed(v))
              /\ Success(u) \in Outcomes(OssAfter, OssFailed(v))
              /\ Success([Got(u, {"thread"}) EXCEPT !.isRunning = TRUE]) \in Outcomes(OssAfter, OssFailed(v))
    <3>1. u \in Probed(Devices) /\ u.state = "STOPPED"
      BY DEF OssAfter
    <3>2. OssError(u) \in Outcomes(OssAfter, OssFailed(v))
      BY <1>0, <3>1, OssErrorFails
    <3>3. Got(u, {"thread"}) \in OssAfter
      BY Names, GotStream DEF OssAfter, Probed, Same
    <3>4. [Got(u, {"thread"}) EXCEPT !.isRunning = TRUE] \in OssAfter
      BY <3>3, SetStream DEF OssAfter, Probed
    <3> QED
      BY <1>0, <3>2, <3>4, OutcomeOf
  <2>4. ASSUME NEW r \in OssSetUp(t, m)
        PROVE \/ r = OssError(t)
              \/ \E u \in OssAfter :
                   r \in {OssError(u), Success(u), Success([Got(u, {"thread"}) EXCEPT !.isRunning = TRUE])}
    BY <2>2 DEF OssSetUp
  <2> QED
    BY <2>1, <2>3, <2>4
<1>7. \A r \in Open : r \in Outcomes(OssWith(v, m), OssFailed(v))
  BY <1>2, <1>3 DEF Then, Outcomes
<1> HIDE DEF Open
<1>8. \A r \in Parameters : r \in Outcomes(OssWith(v, m), OssFailed(v))
  BY <1>7, <1>4 DEF Then, Outcomes
<1> HIDE DEF Parameters
<1>9. \A r \in Handle : r \in Outcomes(OssHandled(v, m), OssFailed(v))
  BY <1>8, <1>5 DEF Then, Outcomes
<1> HIDE DEF Handle
<1>10. OssProbe(s, m) = Then(Handle, LAMBDA t : OssSetUp(t, m))
  BY DEF OssProbe, Handle, Parameters, Open, Find
<1> QED
  BY <1>9, <1>10, <1>6 DEF Then, Outcomes

\* The invariant of RtApiOss: closeStream() joins the thread before the stream is closed.
OssInv ==
  /\ ThreadInv
  /\ stream_.state = "CLOSED" => pc["user"] = "idle" /\ pc["audio"] = "none"
  /\ hist.unheard = {}
  /\ stream_.leaked \subseteq Devices
  /\ stream_.state = "CLOSED" => stream_.owned \subseteq Devices

\* openStream() of RtApiOss keeps its invariant.
LEMMA OssOpens ==
  ASSUME TypeInv, OssInv, OpenStream(Single(OssProbe), Second(OssProbe))
  PROVE TypeInv' /\ OssInv' /\ Lasting
<1>1. /\ OssAfter \in SUBSET StreamType
      /\ OssFailed("CLOSED") \in SUBSET StreamType /\ OssFailed("STOPPED") \in SUBSET StreamType
      /\ \A s \in OssAfter : s.state = "STOPPED" /\ s \in OssOpening("STOPPED")
  BY DEF OssAfter, OssOpening, OssFailed, Probed
<1>2. Cleared(stream_) \in OssOpening("CLOSED")
  <2>1. stream_.state = "CLOSED"
    BY DEF OpenStream
  <2> QED
    BY <2>1, ClearedStream DEF OssOpening, Probed, TypeInv, OssInv
<1>3. \A r \in Single(OssProbe) : r \in Outcomes(OssAfter, OssFailed("CLOSED"))
  BY <1>2, OssProbeOutcomes DEF Single
<1>4. \A r \in Second(OssProbe) : r \in Outcomes(OssAfter, OssFailed("STOPPED"))
  <2>1. \A q \in OssProbe(Cleared(stream_), "OUTPUT") : q.ok => q.s \in OssOpening("STOPPED")
    BY <1>1, <1>2, OssProbeOutcomes, OutcomeOf
  <2> QED
    BY <2>1, OssProbeOutcomes DEF Second
<1>5. TypeInv' /\ Lasting /\ OpenedInto(OssAfter, OssFailed("CLOSED"), OssFailed("STOPPED"))
  BY <1>1, <1>3, <1>4, OpensInto
<1> QED
  BY <1>5 DEF OpenedInto, OssAfter, OssFailed, Probed, Devices, OssInv, ThreadInv

\* The application's calls keep it.
LEMMA OssCalls ==
  ASSUME TypeInv, OssInv, Calls
  PROVE TypeInv' /\ OssInv' /\ Lasting
<1>1. TypeInv' /\ Lasting
  BY CallsTyped
<1> USE DEF OssInv, ThreadInv, At, Goto
<1>2. CASE StartCall
  BY <1>1, <1>2, MeddledHist DEF StartCall, StreamOpen, TypeInv, Threads
<1>3. CASE StopCall
  BY <1>1, <1>3, MeddledHist DEF StopCall, StreamOpen, TypeInv, Threads
<1>4. CASE CloseCall
  BY <1>1, <1>4, MeddledHist DEF CloseCall, StreamOpen, TypeInv, Threads
<1>5. ASSUME NEW t \in Threads, StopCheck(t)
      PROVE OssInv'
  BY <1>5 DEF StopCheck, Throw, Return, Resume, TypeInv, Threads
<1> QED
  BY <1>1, <1>2, <1>3, <1>4, <1>5 DEF Calls

\* Every step of a stream on RtApiOss keeps its invariant.
LEMMA OssPreserved ==
  ASSUME TypeInv, OssInv, api = "OSS", OssNext \/ Calls
  PROVE TypeInv' /\ OssInv' /\ Lasting
<1> USE DEF ThreadInv, At, Goto, Threads, PcLabels
<1>1. CASE OssStart
  <2>1. stream_' \in StreamType
    BY <1>1 DEF OssStart, TypeInv, StreamType, StreamStates
  <2> QED
    BY <1>1, <2>1, StartedHist DEF OssStart, TypeInv, Lasting, OssInv, StreamType
<1>2. CASE OssStartSignal
  BY <1>2 DEF OssStartSignal, OssSignal, TypeInv, Lasting, OssInv
<1>3. ASSUME NEW t \in {"user", "audio"}, OssHalt(t)
      PROVE TypeInv' /\ OssInv' /\ Lasting
  <2> DEFINE d == pc[t] = "stopping"
  <2>1. d \in BOOLEAN
    OBVIOUS
  <2>2. /\ stream_' \in StreamType /\ stream_'.state = "STOPPED"
        /\ stream_'.owned = stream_.owned /\ stream_'.leaked = stream_.leaked
    BY <1>3 DEF OssHalt, TypeInv, StreamType, StreamStates
  <2>3. /\ pc' \in [Threads -> PcLabels] /\ process' \in {"running", "aborted", "undefined"}
        /\ pc' = [pc EXCEPT ![t] = IF t = "user" THEN "idle"
                                   ELSE IF "thread" \in stream_.owned THEN "loop" ELSE "none"]
    BY <1>3 DEF OssHalt, Return, Throw, Resume, TypeInv
  <2>4. CASE hist' = StopReturned(t, Silenced(hist, d))
    <3>1. d <=> pc[t] = "stopping"
      OBVIOUS
    <3> HIDE DEF d
    <3> QED
      BY <1>3, <2>1, <2>2, <2>3, <2>4, <3>1, HaltedHist DEF OssHalt, TypeInv, Lasting, OssInv, Keeps
  <2>5. CASE hist' = StopReturned(t, hist)
    BY <1>3, <2>2, <2>3, <2>5, StoppedHist DEF OssHalt, TypeInv, Lasting, OssInv, Keeps
  <2> QED
    BY <1>3, <2>4, <2>5 DEF OssHalt
<1>4. CASE OssCloseWake
  <2>1. stream_' \in StreamType
    BY <1>4 DEF OssCloseWake, TypeInv, StreamType
  <2> QED
    BY <1>4, <2>1 DEF OssCloseWake, OssSignal, TypeInv, Lasting, OssInv, StreamType
<1>5. CASE OssCloseFree
  <2>1. stream_' \in StreamType
    BY <1>5 DEF OssCloseFree, Freed, TypeInv, StreamType, StreamStates, Modes
  <2> QED
    BY <1>5, <2>1 DEF OssCloseFree, Freed, TypeInv, Lasting, OssInv, StreamType
<1>6. CASE OssLoop
  BY <1>6 DEF OssLoop, TypeInv, Lasting, OssInv
<1>7. CASE OssWait
  BY <1>7 DEF OssWait, TypeInv, Lasting, OssInv
<1>8. CASE OssWoken
  BY <1>8 DEF OssWoken, TypeInv, Lasting, OssInv
<1>9. CASE OssCallback
  BY <1>9, ThreadCalled DEF OssCallback, Called, TypeInv, HistType, OssInv
<1>10. CASE OssTransfer
  <2>1. CASE hist' = hist
    BY <1>10, <2>1 DEF OssTransfer, TypeInv, Lasting, OssInv
  <2>2. CASE hist' = [hist EXCEPT !.unplayed = TRUE]
    BY <1>10, <2>2, PlayedHist DEF OssTransfer, TypeInv, Lasting, OssInv, Keeps
  <2> QED
    BY <1>10, <2>1, <2>2 DEF OssTransfer
<1> QED
  BY <1>1, <1>2, <1>3, <1>4, <1>5, <1>6, <1>7, <1>8, <1>9, <1>10, OssOpens, OssCalls DEF OssNext

-----------------------------------------------------------------------------
(* The backends that count the buffers of silence.                         *)

\* What holds where buffers of silence are counted: a callback that ended is behind, or its
\* result is about to be looked at, or the counter is no longer 0; and one that ended by
\* itself did so while the application was idle.
CountInv ==
  /\ pc["audio"] \in {"callback", "returned", "io"} => handle.drainCounter <= 4
  /\ hist.ended => /\ pc["audio"] # "callback"
                   /\ pc["audio"] = "returned" => doStopStream # 0
                   /\ pc["audio"] # "returned" => handle.drainCounter > 0
  /\ hist.self => /\ hist.ended /\ pc["user"] = "idle"
                  /\ pc["audio"] = "returned" => doStopStream = 1

\* The application's callback returns to callbackEvent().
LEMMA CountCalled ==
  ASSUME TypeInv, Callback
  PROVE /\ Called /\ doStopStream' \in 0 .. 2
        /\ pc["audio"] = "callback" /\ pc' = [pc EXCEPT !["audio"] = "returned"]
        /\ UNCHANGED <<api, stream_, handle, device, process, opens, starts>>
        /\ TypeInv' /\ Lasting
<1> DEFINE next == [r \in 0 .. 2 |-> "returned"]
<1>1. next \in [0 .. 2 -> PcLabels \ {"callback"}]
  BY DEF PcLabels
<1>2. UserCallback(next)
  BY DEF Callback
<1>3. \A r \in 0 .. 2 : next[r] = "returned"
  OBVIOUS
<1> HIDE DEF next
<1> QED
  BY <1>1, <1>2, <1>3, UserCalled

\* The three ways the code writes the counter.
Counting(h, c) == [h EXCEPT !.drainCounter = c]
CountingInside(h, c) == [h EXCEPT !.drainCounter = c, !.internalDrain = TRUE]
CountingAnew(h, c) == [h EXCEPT !.drainCounter = c, !.internalDrain = FALSE, !.condition = FALSE]

\* Writing the counter changes nothing else that is told apart.
LEMMA HandleFields ==
  \A h \in HandleType : \A c \in 0 .. 5 :
    /\ Counting(h, c) \in HandleType /\ Counting(h, c).drainCounter = c
    /\ CountingInside(h, c) \in HandleType /\ CountingInside(h, c).drainCounter = c
    /\ CountingAnew(h, c) \in HandleType /\ CountingAnew(h, c).drainCounter = c
  BY DEF HandleType, Counting, CountingInside, CountingAnew

\* startStream() sets the state: nothing ended, nothing late, nothing unplayed.
LEMMA RunStep ==
  ASSUME TypeInv, CountInv, Run
  PROVE /\ TypeInv' /\ CountInv'
        /\ stream_.state # "CLOSED" => Lasting
        /\ pc["user"] = "started" /\ pc' = [pc EXCEPT !["user"] = "idle"]
        /\ stream_'.state = "RUNNING" /\ stream_'.mode = stream_.mode
        /\ stream_'.owned = stream_.owned /\ stream_'.leaked = stream_.leaked
        /\ handle'.drainCounter = 0 /\ device' = device
        /\ ~hist'.ended /\ hist'.late = -1 /\ ~hist'.unplayed /\ hist'.unheard = hist.unheard
        /\ ~hist'.self
        /\ hist'.orphan <=> hist.orphan
        /\ hist'.opened <=> hist.opened
  <1>1. handle' \in HandleType /\ handle'.drainCounter = 0
    <2>1. handle \in HandleType
      BY DEF TypeInv
    <2>2. handle' = CountingAnew(handle, 0)
      BY Zenon DEF Run, CountingAnew
    <2> QED
      BY <2>1, <2>2, HandleFields
  <1>2. /\ stream_' \in StreamType
        /\ stream_'.state = "RUNNING" /\ stream_'.mode = stream_.mode
        /\ stream_'.owned = stream_.owned /\ stream_'.leaked = stream_.leaked
    BY DEF Run, TypeInv, StreamType, StreamStates
  <1>3. /\ pc["user"] = "started" /\ pc' = [pc EXCEPT !["user"] = "idle"]
        /\ UNCHANGED <<api, device, doStopStream, process, opens, starts>> /\ hist' = Started(hist)
    BY DEF Run, Return, Resume, Goto, At, Threads
  <1>4. ~hist.self
    BY <1>3 DEF CountInv
  <1> QED
    BY <1>1, <1>2, <1>3, <1>4, StartedHist DEF TypeInv, CountInv, Lasting, Threads, PcLabels

\* stopStream() tells an output that is not draining to: the counter never goes back.
LEMMA DrainStep ==
  ASSUME TypeInv, CountInv, NEW t \in Threads,
         NEW silent \in PcLabels \ {"callback", "returned", "io"}, Drain(t, silent)
  PROVE /\ TypeInv' /\ CountInv' /\ Lasting
        /\ pc[t] = "stopping"
        /\ \/ pc' \in {[pc EXCEPT ![t] = "wait"], [pc EXCEPT ![t] = "halt"]}
           \/ pc' = [pc EXCEPT ![t] = silent] /\ ~Plays(stream_)
        /\ handle'.drainCounter \in {2, handle.drainCounter}
        /\ handle'.drainCounter >= handle.drainCounter
        /\ UNCHANGED <<stream_, device, hist>>
<1>0. handle' = handle \/ (handle.drainCounter = 0 /\ handle' = Counting(handle, 2))
  BY DEF Drain, Counting
<1>1. handle' \in HandleType
  BY <1>0, HandleFields DEF TypeInv
<1>2. handle'.drainCounter = handle.drainCounter \/ (handle.drainCounter = 0 /\ handle'.drainCounter = 2)
  BY <1>0, HandleFields DEF TypeInv
<1>3. handle.drainCounter \in 0 .. 5
  BY DEF TypeInv, HandleType
<1> QED
  BY <1>1, <1>2, <1>3 DEF Drain, HasHandle, At, Goto, TypeInv, CountInv, Lasting, Threads, PcLabels

\* abortStream() goes on as stopStream().
LEMMA AbortStep ==
  ASSUME TypeInv, CountInv, NEW t \in Threads, Abort(t, 2)
  PROVE /\ TypeInv' /\ CountInv' /\ Lasting
        /\ pc[t] = "aborting" /\ "handle" \in stream_.owned
        /\ pc' = [pc EXCEPT ![t] = "stop"]
        /\ handle'.drainCounter = 2
        /\ UNCHANGED <<stream_, device, hist>>
<1>1. handle' \in HandleType /\ handle'.drainCounter = 2
  BY HandleFields DEF Abort, TypeInv, HandleType, Counting
<1> QED
  BY <1>1 DEF Abort, HasHandle, At, Goto, TypeInv, HandleType, CountInv, Lasting, Threads, PcLabels

\* stopStream() waits for the drained output.
LEMMA WaitStep ==
  ASSUME TypeInv, CountInv, NEW t \in Threads, CondWait(t) \/ EventWait(t)
  PROVE /\ TypeInv' /\ CountInv' /\ Lasting
        /\ pc[t] = "wait"
        /\ pc' \in {[pc EXCEPT ![t] = "waiting"], [pc EXCEPT ![t] = "halt"]}
        /\ UNCHANGED <<stream_, handle, device, hist>>
  BY DEF CondWait, EventWait, At, Goto, TypeInv, CountInv, Lasting, Threads, PcLabels

\* stopStream() sets the state, late or not, and returns.
LEMMA StoppedStep ==
  ASSUME TypeInv, CountInv, NEW t \in Threads, Stopped(t), "thread" \notin stream_.owned
  PROVE /\ TypeInv' /\ CountInv'
        /\ api \in Late => Lasting
        /\ pc[t] = "halted"
        /\ pc' = [pc EXCEPT ![t] = IF t = "user" THEN "idle" ELSE "none"]
        /\ stream_'.state = "STOPPED" /\ stream_'.mode = stream_.mode
        /\ stream_'.owned = stream_.owned /\ stream_'.leaked = stream_.leaked
        /\ Keeps(hist', hist) /\ hist'.late = (IF t = "user" THEN 0 ELSE hist.late)
        /\ hist'.unplayed <=> hist.unplayed
        /\ hist'.unheard = hist.unheard
        /\ UNCHANGED <<handle, device>>
<1>1. /\ pc[t] = "halted"
      /\ pc' = [pc EXCEPT ![t] = IF t = "user" THEN "idle" ELSE "none"]
      /\ hist' = StopReturned(t, hist)
      /\ UNCHANGED <<api, handle, device, doStopStream, process, opens, starts>>
  BY DEF Stopped, Return, Resume, Goto, At
<1>2. /\ stream_' \in StreamType
      /\ stream_'.state = "STOPPED" /\ stream_'.mode = stream_.mode
      /\ stream_'.owned = stream_.owned /\ stream_'.leaked = stream_.leaked
  BY DEF Stopped, TypeInv, StreamType, StreamStates
<1>3. /\ hist' \in HistType /\ Keeps(hist', hist)
      /\ hist'.late = (IF t = "user" THEN 0 ELSE hist.late)
      /\ hist'.unplayed <=> hist.unplayed
      /\ hist'.unheard = hist.unheard
  BY <1>1, StoppedHist DEF TypeInv
<1>4. TypeInv'
  BY <1>1, <1>2, <1>3 DEF TypeInv, Threads, PcLabels
<1>5. CountInv' /\ (api \in Late => Lasting)
  BY <1>1, <1>3 DEF TypeInv, CountInv, Lasting, Keeps, Threads
<1> QED
  BY <1>1, <1>2, <1>3, <1>4, <1>5

\* A thread that finds its handle freed changes nothing that is modelled.
LEMMA DanglingStep ==
  ASSUME TypeInv, CountInv, NEW t \in Threads, NEW uses, Dangling(t, uses)
  PROVE /\ TypeInv' /\ CountInv' /\ Lasting
        /\ UNCHANGED <<stream_, handle, device, hist, pc>>
  BY DEF Dangling, TypeInv, CountInv, Lasting

\* callbackEvent() looks at the result: 2 stops the stream with the counter at 2, 1 sets it
\* to 1.
LEMMA ReturnedStep ==
  ASSUME TypeInv, CountInv, Returned(AbortHere) \/ Returned(AbortInThread)
  PROVE /\ TypeInv' /\ CountInv'
        /\ stream_.state # "CLOSED" => Lasting
        /\ pc["audio"] = "returned"
        /\ CASE doStopStream = 2 ->
                  /\ stream_'.state = "STOPPING" /\ stream_'.mode = stream_.mode
                  /\ stream_'.owned = stream_.owned /\ stream_'.leaked = stream_.leaked
                  /\ handle'.drainCounter = 2
                  /\ \/ pc' = [pc EXCEPT !["audio"] = "abort"]
                     \/ /\ pc["helper"] = "none"
                        /\ pc' = [pc EXCEPT !["audio"] = "none", !["helper"] = "stop"]
             [] doStopStream = 1 ->
                  /\ stream_' = stream_ /\ handle'.drainCounter = 1
                  /\ pc' = [pc EXCEPT !["audio"] = "io"]
             [] OTHER -> UNCHANGED <<stream_, handle>> /\ pc' = [pc EXCEPT !["audio"] = "io"]
        /\ UNCHANGED <<device, hist>>
<1>1. handle \in HandleType /\ stream_ \in StreamType
  BY DEF TypeInv
<1>2. CASE doStopStream = 2
  <2>1. /\ stream_' \in StreamType
        /\ stream_'.state = "STOPPING" /\ stream_'.mode = stream_.mode
        /\ stream_'.owned = stream_.owned /\ stream_'.leaked = stream_.leaked
    BY <1>1, <1>2 DEF Returned, StreamType, StreamStates
  <2>2. handle' \in HandleType /\ handle'.drainCounter = 2
    <3>1. handle' = Counting(handle, 2)
      BY <1>2 DEF Returned, Counting
    <3> QED
      BY <1>1, <3>1, HandleFields
  <2>3. /\ pc["audio"] = "returned"
        /\ \/ pc' = [pc EXCEPT !["audio"] = "abort"]
           \/ /\ pc["helper"] = "none"
              /\ pc' = [pc EXCEPT !["audio"] = "none", !["helper"] = "stop"]
        /\ UNCHANGED <<api, device, doStopStream, process, opens, starts, hist>>
    BY <1>2 DEF Returned, AbortHere, AbortInThread, Goto, At
  <2> QED
    BY <1>2, <2>1, <2>2, <2>3 DEF TypeInv, CountInv, Lasting, Threads, PcLabels
<1>3. CASE doStopStream = 1
  <2>1. /\ pc["audio"] = "returned" /\ pc' = [pc EXCEPT !["audio"] = "io"] /\ stream_' = stream_
        /\ handle' = CountingInside(handle, 1)
        /\ UNCHANGED <<api, device, doStopStream, process, opens, starts, hist>>
    BY <1>3 DEF Returned, Goto, At, CountingInside
  <2>2. handle' \in HandleType /\ handle'.drainCounter = 1
    BY <1>1, <2>1, HandleFields
  <2> QED
    BY <1>3, <2>1, <2>2 DEF TypeInv, CountInv, Lasting, Threads, PcLabels
<1>4. CASE doStopStream # 2 /\ doStopStream # 1
  <2>1. /\ pc["audio"] = "returned" /\ pc' = [pc EXCEPT !["audio"] = "io"]
        /\ UNCHANGED <<api, stream_, handle, device, doStopStream, process, opens, starts, hist>>
    BY <1>4 DEF Returned, Goto, At
  <2> QED
    BY <1>4, <2>1 DEF TypeInv, CountInv, Lasting, Threads, PcLabels
<1> QED
  BY <1>2, <1>3, <1>4

-----------------------------------------------------------------------------
(* RtApiDs.                                                                *)

\* What RtApiDs loses; streams before a probe, with the device open, after it, and after its
\* failure.
DsLost == {"handle", "thread"} \cup Devices
DsBuffers == UserBuffers \cup {"deviceBuffer"}
DsOpening(v) ==
  {s \in Probed(DsLost) : /\ s.state = v /\ s.owned \subseteq DsLost \cup DsBuffers
                          /\ v = "CLOSED" => s.owned \subseteq DsLost}
DsWith(v) == {s \in DsOpening(v) : Devices \cap s.owned # {}}
DsAfter ==
  {s \in Probed(DsLost) : /\ s.state = "STOPPED" /\ s.owned \subseteq DsLost \cup DsBuffers
                          /\ Devices \cap s.owned # {}}
DsFailed == {s \in Probed(DsLost) : s.state = "CLOSED" => s.owned \subseteq DsLost}

\* The label `error' of RtApiDs::probeDeviceOpen(), with and without a handle.
LEMMA DsErrorFails ==
  ASSUME NEW s \in Probed(DsLost), s.owned \subseteq DsLost \cup DsBuffers,
         NEW m \in {"OUTPUT", "INPUT"}, NEW good \in SUBSET StreamType
  PROVE /\ DsError(s, m, TRUE) \in Outcomes(good, DsFailed)
        /\ DsError(s, m, FALSE) \in Outcomes(good, DsFailed)
<1> DEFINE t == Freed(s, UserBuffers \cup {"deviceBuffer"})
           u == Freed(t, Devices \cup {"handle"})
           w == Lost(t, {Device(m)})
           C(x) == [x EXCEPT !.state = "CLOSED"]
<1>1. t \in Probed(DsLost) /\ t.owned \subseteq DsLost
  BY FreedStream DEF Probed, Same, DsBuffers
<1> HIDE DEF t
<1>2. u \in Probed(DsLost) /\ u.owned \subseteq DsLost
  BY <1>1, FreedStream DEF Probed, Same
<1>3. w \in Probed(DsLost) /\ w.owned \subseteq DsLost
  BY <1>1, Names, LostStream DEF Probed, Same, DsLost
<1>4. DsError(s, m, TRUE) = Failure(C(u)) /\ DsError(s, m, FALSE) = Failure(C(w))
  BY DEF DsError, t
<1> HIDE DEF u, w
<1>5. C(u) \in DsFailed /\ C(w) \in DsFailed
  BY <1>2, <1>3, ClosedStream DEF DsFailed, Probed
<1>6. DsFailed \in SUBSET StreamType
  BY DEF DsFailed, Probed
<1> HIDE DEF C
<1> QED
  BY <1>4, <1>5, <1>6, OutcomeOf

\* Every path through RtApiDs::probeDeviceOpen() ends opened or failed.
LEMMA DsProbeOutcomes ==
  ASSUME NEW v \in {"CLOSED", "STOPPED"}, NEW s \in DsOpening(v), NEW m \in {"OUTPUT", "INPUT"}
  PROVE \A r \in DsProbe(s, m) : r \in Outcomes(DsAfter, DsFailed)
<1> DEFINE Check == DsCheck(s)
           DeviceStep(t) == IF m = "OUTPUT" THEN DsOutput(t) ELSE DsInput(t)
           Opening == Then(Check, LAMBDA t : IF m = "OUTPUT" THEN DsOutput(t) ELSE DsInput(t))
<1>0. /\ DsOpening(v) \in SUBSET StreamType /\ DsWith(v) \in SUBSET StreamType
      /\ DsAfter \in SUBSET StreamType /\ DsFailed \in SUBSET StreamType
      /\ \A t \in DsOpening(v) : t \in DsFailed
  BY DEF DsOpening, DsWith, DsAfter, DsFailed, Probed
<1>1. \A r \in Check : r \in Outcomes(DsOpening(v), DsFailed)
  BY <1>0, OutcomeOf DEF DsCheck
<1>2. \A t \in DsOpening(v) : \A r \in DeviceStep(t) : r \in Outcomes(DsWith(v), DsFailed)
  <2>1. \A t \in DsOpening(v) : \A d \in Devices :
          /\ Got(t, {d}) \in DsWith(v)
          /\ Lost(Got(t, {d}), {d}) \in DsFailed
    <3> SUFFICES ASSUME NEW t \in DsOpening(v), NEW d \in Devices
                 PROVE Got(t, {d}) \in DsWith(v) /\ Lost(Got(t, {d}), {d}) \in DsFailed
      OBVIOUS
    <3> DEFINE u == Got(t, {d})
    <3>1. u \in DsWith(v)
      BY Names, GotStream DEF DsOpening, DsWith, Probed, Same, DsLost
    <3> HIDE DEF u
    <3>2. Lost(u, {d}) \in DsFailed
      BY <3>1, LostStream DEF DsOpening, DsWith, DsFailed, Probed, Same, DsLost
    <3> QED
      BY <3>1, <3>2 DEF u
  <2>2. \A t \in DsOpening(v) : \A d \in Devices :
          /\ Failure(t) \in Outcomes(DsWith(v), DsFailed)
          /\ Failure(Lost(Got(t, {d}), {d})) \in Outcomes(DsWith(v), DsFailed)
          /\ Success(Got(t, {d})) \in Outcomes(DsWith(v), DsFailed)
    BY <1>0, <2>1, OutcomeOf
  <2> QED
    BY <2>2 DEF DsOutput, DsInput, Devices
<1>3. \A t \in DsWith(v) : \A r \in DsSetUp(t, m) : r \in Outcomes(DsAfter, DsFailed)
  <2> SUFFICES ASSUME NEW t \in DsWith(v)
               PROVE \A r \in DsSetUp(t, m) : r \in Outcomes(DsAfter, DsFailed)
    OBVIOUS
  <2>1. DsError(t, m, FALSE) \in Outcomes(DsAfter, DsFailed)
    BY <1>0, DsErrorFails DEF DsWith, DsOpening
  <2>2. \A b \in WithBuffers(t, m) : Opened(Got(b, {"handle"}), m) \in DsAfter
    BY Names, BufferedStream, GotStream, OpenedStream
       DEF DsWith, DsOpening, DsAfter, Probed, Same, DsLost, DsBuffers
  <2>3. ASSUME NEW u \in DsAfter
        PROVE /\ Success(u) \in Outcomes(DsAfter, DsFailed)
              /\ DsError([u EXCEPT !.isRunning = TRUE], m, TRUE) \in Outcomes(DsAfter, DsFailed)
              /\ Success(Got([u EXCEPT !.isRunning = TRUE], {"thread"})) \in Outcomes(DsAfter, DsFailed)
    <3> DEFINE w == [u EXCEPT !.isRunning = TRUE]
    <3>1. w \in DsAfter
      BY SetStream DEF DsAfter, Probed
    <3> HIDE DEF w
    <3>2. Got(w, {"thread"}) \in DsAfter
      BY <3>1, Names, GotStream DEF DsAfter, Probed, Same, DsLost
    <3>3. DsError(w, m, TRUE) \in Outcomes(DsAfter, DsFailed)
      BY <3>1, <1>0, DsErrorFails DEF DsAfter
    <3> QED
      BY <1>0, <3>2, <3>3, OutcomeOf DEF w
  <2>4. ASSUME NEW r \in DsSetUp(t, m)
        PROVE \/ r = DsError(t, m, FALSE)
              \/ \E u \in DsAfter :
                   r \in {Success(u), DsError([u EXCEPT !.isRunning = TRUE], m, TRUE),
                          Success(Got([u EXCEPT !.isRunning = TRUE], {"thread"}))}
    BY <2>2 DEF DsSetUp
  <2> QED
    BY <2>1, <2>3, <2>4
<1>4. \A r \in Opening : r \in Outcomes(DsWith(v), DsFailed)
  BY <1>1, <1>2 DEF Then, Outcomes
<1> HIDE DEF Opening
<1>5. DsProbe(s, m) = Then(Opening, LAMBDA t : DsSetUp(t, m))
  BY DEF DsProbe, Opening, Check
<1> QED
  BY <1>4, <1>5, <1>3 DEF Then, Outcomes

\* The invariant of RtApiDs: as ThreadInv, and a callback that ended the stream by itself has
\* its last buffer played before the counter is at 3, or the thread stops the stream.
DsInv ==
  /\ CountInv
  /\ pc["helper"] = "none"
  /\ stream_.state = "CLOSED"
       => pc["user"] \in {"idle", "close"} /\ pc["audio"] \in {"none", "loop", "ended"}
  /\ pc["user"] = "halting" => stream_.state # "RUNNING"
  /\ hist.late >= 0 => stream_.state # "RUNNING"
  /\ hist.late <= 1 /\ (hist.late = 1 => pc["audio"] # "callback")
  /\ hist.self /\ pc["audio"] \in {"io", "loop"} /\ handle.drainCounter >= 3 => ~hist.unplayed
  /\ hist.self /\ pc["audio"] \in {"stop", "stopping", "abort", "aborting", "wait", "halt", "halting"}
       => ~hist.unplayed
  /\ pc["audio"] \notin {"none", "ended"} => "handle" \in stream_.owned \/ hist.orphan
  /\ hist.unheard = {}
  /\ stream_.leaked \subseteq DsLost
  /\ stream_.state = "CLOSED" => stream_.owned \subseteq DsLost
  /\ hist.opened /\ stream_.state # "CLOSED" => Devices \cap stream_.owned # {}

\* openStream() of RtApiDs keeps its invariant.
LEMMA DsOpens ==
  ASSUME TypeInv, DsInv, OpenStream(Single(DsProbe), Second(DsProbe))
  PROVE TypeInv' /\ DsInv' /\ Lasting
<1>1. /\ DsAfter \in SUBSET StreamType /\ DsFailed \in SUBSET StreamType
      /\ \A s \in DsAfter : s.state = "STOPPED" /\ s \in DsOpening("STOPPED")
  BY DEF DsAfter, DsOpening, DsFailed, Probed
<1>2. Cleared(stream_) \in DsOpening("CLOSED")
  <2>1. stream_.state = "CLOSED"
    BY DEF OpenStream
  <2> QED
    BY <2>1, ClearedStream DEF DsOpening, Probed, TypeInv, DsInv
<1>3. \A r \in Single(DsProbe) : r \in Outcomes(DsAfter, DsFailed)
  BY <1>2, DsProbeOutcomes DEF Single
<1>4. \A r \in Second(DsProbe) : r \in Outcomes(DsAfter, DsFailed)
  <2>1. \A q \in DsProbe(Cleared(stream_), "OUTPUT") : q.ok => q.s \in DsOpening("STOPPED")
    BY <1>1, <1>2, DsProbeOutcomes, OutcomeOf
  <2> QED
    BY <2>1, DsProbeOutcomes DEF Second
<1>5. TypeInv' /\ Lasting /\ OpenedInto(DsAfter, DsFailed, DsFailed)
  BY <1>1, <1>3, <1>4, OpensInto
<1> QED
  BY <1>5 DEF OpenedInto, DsAfter, DsFailed, Probed, DsInv, CountInv

\* The application's calls keep it.
LEMMA DsCalls ==
  ASSUME TypeInv, DsInv, Calls
  PROVE TypeInv' /\ DsInv' /\ Lasting
<1>1. TypeInv' /\ Lasting
  BY CallsTyped
<1> USE DEF DsInv, CountInv, At, Goto
<1>2. CASE StartCall
  BY <1>1, <1>2, MeddledHist DEF StartCall, StreamOpen, TypeInv, Threads
<1>3. CASE StopCall
  BY <1>1, <1>3, MeddledHist DEF StopCall, StreamOpen, TypeInv, Threads
<1>4. CASE CloseCall
  BY <1>1, <1>4, MeddledHist DEF CloseCall, StreamOpen, TypeInv, Threads
<1>5. ASSUME NEW t \in Threads, StopCheck(t)
      PROVE DsInv'
  BY <1>5 DEF StopCheck, Throw, Return, Resume, TypeInv, Threads
<1> QED
  BY <1>1, <1>2, <1>3, <1>4, <1>5 DEF Calls

\* Every step of a stream on RtApiDs keeps its invariant.
LEMMA DsPreserved ==
  ASSUME TypeInv, DsInv, api = "DS", DsNext \/ Calls
  PROVE TypeInv' /\ DsInv' /\ Lasting
<1> USE DEF At, Goto, Threads, PcLabels
<1>1. CASE DsStart
  BY <1>1 DEF DsStart, Return, Resume, TypeInv, Lasting, DsInv, CountInv
<1>2. CASE DsRun
  BY <1>2, RunStep DEF DsRun, TypeInv, DsInv
<1>3. ASSUME NEW t \in {"user", "audio"}, DsDrain(t)
      PROVE TypeInv' /\ DsInv' /\ Lasting
  BY <1>3, DrainStep DEF DsDrain, TypeInv, DsInv
<1>4. ASSUME NEW t \in {"user", "audio"}, DsWait(t)
      PROVE TypeInv' /\ DsInv' /\ Lasting
  BY <1>4 DEF DsWait, EventWait, TypeInv, DsInv, CountInv, Lasting
<1>5. ASSUME NEW t \in {"user", "audio"}, DsMark(t)
      PROVE TypeInv' /\ DsInv' /\ Lasting
  <2>1. stream_' \in StreamType
    BY <1>5 DEF DsMark, TypeInv, StreamType, StreamStates
  <2> QED
    BY <1>5, <2>1 DEF DsMark, TypeInv, Lasting, DsInv, CountInv, StreamType
<1>6. ASSUME NEW t \in {"user", "audio"}, DsHalt(t)
      PROVE TypeInv' /\ DsInv' /\ Lasting
  <2>1. /\ pc' \in [Threads -> PcLabels] /\ process' \in {"running", "aborted", "undefined"}
        /\ pc[t] = "halting"
        /\ pc' = [pc EXCEPT ![t] = IF t = "user" THEN "idle"
                                   ELSE IF "thread" \in stream_.owned THEN "loop" ELSE "none"]
        /\ UNCHANGED <<api, stream_, handle, device, doStopStream, opens, starts>>
    BY <1>6 DEF DsHalt, Return, Throw, Resume, TypeInv
  <2>2. /\ hist' \in HistType /\ Keeps(hist', hist) /\ ~hist'.unplayed
        /\ hist'.late = IF t = "user" THEN 0 ELSE hist.late
        /\ (hist.self /\ hist.unplayed) \/ hist'.unheard = hist.unheard
    <3> DEFINE d == FALSE
    <3>1. d \in BOOLEAN /\ ~d
      OBVIOUS
    <3>2. hist' = StopReturned(t, Silenced(hist, d))
      BY <1>6 DEF DsHalt
    <3> HIDE DEF d
    <3> QED
      BY <3>1, <3>2, HaltedHist
  <2> QED
    BY <2>1, <2>2 DEF TypeInv, Lasting, DsInv, CountInv, Keeps
<1>7. ASSUME NEW t \in {"user", "audio"}, DsAbort(t)
      PROVE TypeInv' /\ DsInv' /\ Lasting
  BY <1>7, AbortStep DEF DsAbort, TypeInv, DsInv
<1>8. CASE DsCloseWake
  <2>1. stream_' \in StreamType
    BY <1>8 DEF DsCloseWake, TypeInv, StreamType
  <2> QED
    BY <1>8, <2>1 DEF DsCloseWake, TypeInv, Lasting, DsInv, CountInv, StreamType
<1>9. CASE DsCloseFree
  <2>1. stream_' \in StreamType
    BY <1>9 DEF DsCloseFree, Freed, TypeInv, StreamType, StreamStates, Modes
  <2> QED
    BY <1>9, <2>1 DEF DsCloseFree, Freed, TypeInv, Lasting, DsInv, CountInv, StreamType
<1>10. CASE DsLoop
  <2>1. /\ stream_' \in StreamType /\ stream_'.owned = stream_.owned /\ stream_'.leaked = stream_.leaked
        /\ \/ stream_'.state = stream_.state
           \/ stream_.state = "RUNNING" /\ stream_'.state = "STOPPING"
    BY <1>10 DEF DsLoop, TypeInv, StreamType, StreamStates
  <2>2. handle' \in HandleType /\ handle'.drainCounter = handle.drainCounter
    BY <1>10 DEF DsLoop, SetEvent, TypeInv, HandleType
  <2>3. /\ UNCHANGED <<api, device, doStopStream, process, opens, starts, hist>>
        /\ pc["audio"] = "loop"
        /\ \/ pc' = pc
           \/ pc' = [pc EXCEPT !["audio"] = "ended"]
           \/ pc' = [pc EXCEPT !["audio"] = "stop"] /\ handle.drainCounter > 4
           \/ /\ pc' = [pc EXCEPT !["audio"] = "callback"] /\ handle.drainCounter = 0
              /\ stream_.state = "RUNNING"
           \/ pc' = [pc EXCEPT !["audio"] = "io"] /\ handle.drainCounter <= 4
    BY <1>10 DEF DsLoop, SetEvent, nBuffers, TypeInv, HandleType
  <2>4. TypeInv' /\ Lasting
    BY <2>1, <2>2, <2>3 DEF TypeInv, HandleType, Lasting, DsInv, CountInv
  <2>5. CountInv'
    BY <2>1, <2>2, <2>3 DEF TypeInv, HandleType, DsInv, CountInv
  <2>6. /\ stream_'.state = "CLOSED" <=> stream_.state = "CLOSED"
        /\ stream_'.state = "RUNNING" => stream_.state = "RUNNING"
        /\ pc'["user"] = pc["user"] /\ pc'["helper"] = pc["helper"]
    BY <2>1, <2>3 DEF TypeInv
  <2>7. /\ pc'["audio"] = "callback" => stream_.state = "RUNNING"
        /\ pc'["audio"] \in {"loop", "ended", "stop", "callback", "io"}
        /\ pc'["audio"] = "stop" => handle.drainCounter > 4
        /\ pc'["audio"] = "ended" \/ "handle" \in stream_.owned \/ hist.orphan
        /\ stream_.state = "CLOSED" => pc'["audio"] \in {"none", "loop", "ended"}
    BY <2>3, <1>10 DEF TypeInv, DsInv, DsLoop
  <2> QED
    BY <2>1, <2>2, <2>3, <2>4, <2>5, <2>6, <2>7 DEF DsInv, TypeInv, HandleType
<1>11. CASE DsCallback
  BY <1>11, CountCalled DEF DsCallback, Called, TypeInv, HistType, DsInv, CountInv
<1>12. CASE DsReturned
  <2>1. doStopStream = 2 => pc' = [pc EXCEPT !["audio"] = "abort"]
    BY <1>12 DEF DsReturned, Returned, AbortHere
  <2> QED
    BY <1>12, <2>1, ReturnedStep DEF DsReturned, TypeInv, DsInv, CountInv
<1>13. CASE DsTransfer
  <2>1. /\ pc["audio"] = "io" /\ pc' = [pc EXCEPT !["audio"] = "loop"]
        /\ UNCHANGED <<api, stream_, device, doStopStream, opens, starts>>
        /\ process' \in {"running", "aborted", "undefined"}
    BY <1>13 DEF DsTransfer, TypeInv
  <2>2. CASE UNCHANGED <<handle, hist>>
    BY <2>1, <2>2 DEF TypeInv, Lasting, DsInv, CountInv
  <2>3. CASE /\ handle' = [handle EXCEPT !.drainCounter = IF @ = 0 THEN 0 ELSE @ + 1]
             /\ hist' = [hist EXCEPT !.unplayed = Plays(stream_) /\ handle.drainCounter <= 1]
    <3> DEFINE b == Plays(stream_) /\ handle.drainCounter <= 1
    <3>1. b \in BOOLEAN /\ (b => handle.drainCounter <= 1)
      BY DEF Plays
    <3>2. /\ handle' \in HandleType
          /\ handle'.drainCounter = IF handle.drainCounter = 0 THEN 0 ELSE handle.drainCounter + 1
      BY <2>1, <2>3 DEF TypeInv, HandleType, DsInv, CountInv
    <3>3. hist' = [hist EXCEPT !.unplayed = b]
      BY <2>3
    <3> HIDE DEF b
    <3> QED
      BY <2>1, <3>1, <3>2, <3>3, PlayedHist DEF TypeInv, HandleType, Lasting, DsInv, CountInv, Keeps
  <2> QED
    BY <1>13, <2>2, <2>3 DEF DsTransfer
<1> QED
  BY <1>1, <1>2, <1>3, <1>4, <1>5, <1>6, <1>7, <1>8, <1>9, <1>10, <1>11, <1>12, <1>13,
     DsOpens, DsCalls DEF DsNext

-----------------------------------------------------------------------------
(* RtApiWasapi.                                                            *)

\* What RtApiWasapi loses; streams after a probe, and those that opened.
WasapiLost == {"thread", "deviceBuffer"}
WasapiEnded ==
  {s \in StreamType : /\ s.state \in {"CLOSED", "STOPPED"} /\ s.leaked \subseteq WasapiLost
                      /\ s.owned \subseteq WasapiMemory
                      /\ s.state = "CLOSED" => s.owned = {}}
WasapiOpening == {s \in WasapiEnded : s.state = "STOPPED"}
WasapiResults == {r \in ResultType : r.s \in IF r.ok THEN WasapiOpening ELSE WasapiEnded}

\* The ways a step of RtApiWasapi::probeDeviceOpen() ends: it fails, throws or goes on.
LEMMA WasapiFails ==
  ASSUME NEW s \in WasapiOpening
  PROVE /\ WasapiFailure(s) \in WasapiResults
        /\ Thrown(s) \in WasapiResults
        /\ Success(s) \in WasapiResults
<1>1. WasapiFreed(s) \in WasapiEnded
  <2> DEFINE t == Freed(s, WasapiMemory)
  <2>1. /\ t \in StreamType /\ t.owned = {} /\ t.leaked \subseteq WasapiLost
    BY FreedStream DEF WasapiOpening, WasapiEnded, Same
  <2> HIDE DEF t
  <2>2. [t EXCEPT !.state = "CLOSED"] \in WasapiEnded
    BY <2>1, ClosedStream DEF WasapiEnded
  <2> QED
    BY <2>2 DEF WasapiFreed, t
<1>2. \A t \in WasapiEnded : Thrown(t) \in WasapiResults
  BY DEF Thrown, WasapiResults, ResultType, WasapiEnded
<1>3. Success(s) \in WasapiResults
  BY DEF Success, WasapiResults, ResultType, WasapiOpening, WasapiEnded
<1> QED
  BY <1>1, <1>2, <1>3 DEF WasapiFailure, WasapiOpening

\* Every path through RtApiWasapi::probeDeviceOpen() ends opened, failed or thrown.
LEMMA WasapiProbeResults ==
  ASSUME NEW s \in WasapiEnded, NEW m \in {"OUTPUT", "INPUT"}
  PROVE \A r \in WasapiProbe(s, m) : r \in WasapiResults
<1> DEFINE Find == WasapiFind(s)
           Devices_ == Then(Find, LAMBDA t : WasapiDevice(t, m))
<1>1. \A r \in Find : r \in WasapiResults
  <2> DEFINE t == [Got(s, {"handle"}) EXCEPT !.state = "STOPPED"]
             u == Got(s, {"handle"})
  <2>1. /\ u \in StreamType /\ u.leaked \subseteq WasapiLost /\ u.owned \subseteq WasapiMemory
    BY Names, GotStream DEF WasapiEnded, WasapiMemory, Same
  <2> HIDE DEF u
  <2>2. [u EXCEPT !.state = "STOPPED"] \in WasapiOpening
    BY <2>1, StoppedStream DEF WasapiEnded, WasapiOpening
  <2>3. t \in WasapiOpening
    BY <2>2 DEF u
  <2>4. \A r \in Find : r \in {WasapiFailure(t), Thrown(t), Success(t)}
    BY DEF WasapiFind
  <2> HIDE DEF t, Find
  <2> QED
    BY <2>3, <2>4, WasapiFails
<1>2. \A t \in WasapiOpening : \A r \in WasapiDevice(t, m) : r \in WasapiResults
  <2>1. \A t \in WasapiOpening : Got(t, {Device(m)}) \in WasapiOpening
    BY Names, GotStream DEF WasapiOpening, WasapiEnded, WasapiMemory, Same
  <2> QED
    BY <2>1, WasapiFails DEF WasapiDevice
<1>3. \A t \in WasapiOpening : \A r \in WasapiSetUp(t, m) : r \in WasapiResults
  <2> SUFFICES ASSUME NEW t \in WasapiOpening
               PROVE \A r \in WasapiSetUp(t, m) : r \in WasapiResults
    OBVIOUS
  <2> DEFINE u == [t EXCEPT !.mode = NewMode(t, m)]
  <2>1. u \in WasapiOpening
    BY DEF WasapiOpening, WasapiEnded, StreamType, NewMode, Modes
  <2>2. \A r \in WasapiSetUp(t, m) : r \in {WasapiFailure(u), Success(Got(u, {UserBuffer(m)}))}
    BY DEF WasapiSetUp
  <2> HIDE DEF u
  <2>3. Got(u, {UserBuffer(m)}) \in WasapiOpening
    BY <2>1, Names, GotStream DEF WasapiOpening, WasapiEnded, WasapiMemory, Same
  <2> QED
    BY <2>1, <2>2, <2>3, WasapiFails
<1> HIDE DEF Find
<1>4. \A r \in Devices_ : r \in WasapiResults
  BY <1>1, <1>2 DEF Then, WasapiResults
<1> HIDE DEF Devices_
<1>5. WasapiProbe(s, m) = Then(Devices_, LAMBDA t : WasapiSetUp(t, m))
  BY DEF WasapiProbe, Devices_, Find
<1> QED
  BY <1>4, <1>5, <1>3 DEF Then, WasapiResults

\* The invariant of RtApiWasapi: its thread lives while the state is RUNNING or STOPPING, the
\* halves of stop, abort and close after the wait find it gone, and a callback that ended is
\* followed by internalDrain.
WasapiInv ==
  /\ pc["audio"] \in {"none", "setup", "loop", "callback", "returned", "io"}
  /\ pc["audio"] # "none" => stream_.state \in {"RUNNING", "STOPPING"}
  /\ pc["user"] \in {"haltStop", "haltAbort", "haltClose", "free"} => pc["audio"] = "none"
  /\ pc["audio"] \in {"loop", "callback", "returned", "io"} => "handle" \in stream_.owned
  /\ hist.late >= 0 => pc["audio"] = "none" /\ hist.late = 0
  /\ hist.ended => /\ pc["audio"] \notin {"callback", "setup"}
                   /\ pc["audio"] = "returned" => doStopStream # 0
                   /\ pc["audio"] \in {"loop", "io"} => handle.internalDrain
  /\ hist.unplayed /\ (pc["audio"] # "none" \/ hist.self) => Plays(stream_)
  /\ hist.unheard \subseteq {"OUTPUT", "DUPLEX"}
  /\ stream_.leaked \subseteq WasapiLost /\ stream_.owned \subseteq WasapiMemory \cup {"thread"}
  /\ stream_.state = "CLOSED" => stream_.owned \subseteq {"thread"}

\* openStream() of RtApiWasapi keeps its invariant.
LEMMA WasapiOpens ==
  ASSUME TypeInv, WasapiInv, OpenStream(Single(WasapiProbe), Second(WasapiProbe))
  PROVE TypeInv' /\ WasapiInv' /\ Lasting
<1>1. Cleared(stream_) \in WasapiEnded
  <2>1. stream_.state = "CLOSED"
    BY DEF OpenStream
  <2> QED
    BY <2>1, ClearedStream DEF WasapiEnded, WasapiLost, TypeInv, WasapiInv
<1>2. \A r \in Single(WasapiProbe) : r \in WasapiResults
  BY <1>1, WasapiProbeResults DEF Single
<1>3. \A r \in Second(WasapiProbe) : r \in WasapiResults
  <2>1. \A q \in WasapiProbe(Cleared(stream_), "OUTPUT") : q.ok => q.s \in WasapiEnded
    BY <1>1, WasapiProbeResults DEF WasapiResults, WasapiOpening
  <2> QED
    BY <2>1, WasapiProbeResults DEF Second
<1>4. Single(WasapiProbe) \in SUBSET ResultType /\ Second(WasapiProbe) \in SUBSET ResultType
  BY <1>2, <1>3 DEF WasapiResults
<1>5. TypeInv' /\ Lasting
  BY <1>4, OpensTyped
<1>6. PICK r \in WasapiResults, user \in {"idle", "close"} : EndsWith(r, user)
  BY <1>2, <1>3, <1>4, Opens
<1>7. /\ stream_'.state \in {"CLOSED", "STOPPED"}
      /\ stream_'.owned = r.s.owned /\ stream_'.leaked = r.s.leaked
      /\ stream_'.state = "CLOSED" => r.s.state = "CLOSED"
      /\ r.s \in WasapiEnded
  BY <1>6, StoppedStream DEF EndsWith, WasapiResults, WasapiOpening, WasapiEnded
<1> QED
  BY <1>5, <1>6, <1>7 DEF EndsWith, WasapiInv, WasapiEnded, WasapiMemory, Devices, UserBuffers

\* The application's calls keep it.
LEMMA WasapiCalls ==
  ASSUME TypeInv, WasapiInv, Calls
  PROVE TypeInv' /\ WasapiInv' /\ Lasting
<1>1. TypeInv' /\ Lasting
  BY CallsTyped
<1> USE DEF WasapiInv, At, Goto
<1>2. CASE StartCall
  BY <1>1, <1>2, MeddledHist DEF StartCall, StreamOpen, TypeInv, Threads
<1>3. CASE StopCall
  BY <1>1, <1>3, MeddledHist DEF StopCall, StreamOpen, TypeInv, Threads
<1>4. CASE CloseCall
  BY <1>1, <1>4, MeddledHist DEF CloseCall, StreamOpen, TypeInv, Threads
<1>5. ASSUME NEW t \in Threads, StopCheck(t)
      PROVE WasapiInv'
  BY <1>5 DEF StopCheck, Throw, Return, Resume, TypeInv, Threads
<1> QED
  BY <1>1, <1>2, <1>3, <1>4, <1>5 DEF Calls

\* Where the three calls that stop the thread wait, and go on.
LEMMA WasapiPlaces ==
  /\ DOMAIN StopAt = {"stopping", "aborting", "closing"}
  /\ DOMAIN HaltAt = {"waitStop", "waitAbort", "waitClose"}
  /\ StopAt["stopping"] = "waitStop" /\ StopAt["aborting"] = "waitAbort"
  /\ StopAt["closing"] = "waitClose"
  /\ HaltAt["waitStop"] = "haltStop" /\ HaltAt["waitAbort"] = "haltAbort"
  /\ HaltAt["waitClose"] = "haltClose"
  BY DEF StopAt, HaltAt

\* Every step of a stream on RtApiWasapi keeps its invariant.
LEMMA WasapiPreserved ==
  ASSUME TypeInv, WasapiInv, api = "WASAPI", WasapiNext \/ Calls
  PROVE TypeInv' /\ WasapiInv' /\ Lasting
<1> USE DEF At, Goto, Threads, PcLabels, Late
<1>1. CASE WasapiStart
  <2>1. CASE Return("user") /\ UNCHANGED <<handle, hist>> /\ stream_' = [stream_ EXCEPT !.state = "RUNNING"]
    <3>1. stream_' \in StreamType
      BY <2>1 DEF TypeInv, StreamType, StreamStates
    <3> QED
      BY <1>1, <2>1, <3>1 DEF WasapiStart, Return, Resume, TypeInv, Lasting, WasapiInv, StreamType, Plays
  <2>2. CASE /\ stream_' = [Got(stream_, {"thread"}) EXCEPT !.state = "RUNNING"]
             /\ pc' = [pc EXCEPT !["user"] = "idle", !["audio"] = "setup"]
             /\ handle' = [handle EXCEPT !.internalDrain = FALSE]
             /\ hist' = Started(hist)
    <3>1. handle' \in HandleType
      BY <2>2 DEF TypeInv, HandleType
    <3>2. /\ stream_' \in StreamType
          /\ stream_'.state = "RUNNING" /\ stream_'.mode = stream_.mode
          /\ stream_'.owned = stream_.owned \cup {"thread"} /\ stream_'.leaked = stream_.leaked
      BY <2>2 DEF Got, TypeInv, StreamType, StreamStates, Resources
    <3> QED
      BY <1>1, <2>2, <3>1, <3>2, StartedHist DEF WasapiStart, TypeInv, Lasting, WasapiInv
  <2> QED
    BY <1>1, <2>1, <2>2 DEF WasapiStart
<1>2. ASSUME NEW t \in {"user", "helper"}, WasapiMark(t)
      PROVE TypeInv' /\ WasapiInv' /\ Lasting
  <2>1. stream_' \in StreamType
    BY <1>2 DEF WasapiMark, TypeInv, StreamType, StreamStates
  <2>2. pc' \in {[pc EXCEPT ![t] = "waitStop"], [pc EXCEPT ![t] = "waitAbort"], [pc EXCEPT ![t] = "waitClose"]}
    BY <1>2, WasapiPlaces DEF WasapiMark
  <2> QED
    BY <1>2, <2>1, <2>2 DEF WasapiMark, TypeInv, Lasting, WasapiInv, StreamType, Plays
<1>3. ASSUME NEW t \in {"user", "helper"}, WasapiWait(t)
      PROVE TypeInv' /\ WasapiInv' /\ Lasting
  <2>1. pc' \in {[pc EXCEPT ![t] = "haltStop"], [pc EXCEPT ![t] = "haltAbort"], [pc EXCEPT ![t] = "haltClose"]}
    BY <1>3, WasapiPlaces DEF WasapiWait
  <2> QED
    BY <1>3, <2>1 DEF WasapiWait, TypeInv, Lasting, WasapiInv, StreamType
<1>4. ASSUME NEW t \in {"user", "helper"}, WasapiHalt(t)
      PROVE TypeInv' /\ WasapiInv' /\ Lasting
  <2>1. CASE /\ stream_' = Freed(stream_, {"thread"})
             /\ hist' = StopReturned(t, Silenced(hist, FALSE))
             /\ IF pc[t] = "haltClose" THEN Goto(t, "free") ELSE Return(t)
             /\ UNCHANGED process
    <3>1. /\ hist' \in HistType /\ Keeps(hist', hist) /\ ~hist'.unplayed
          /\ hist'.late = IF t = "user" THEN 0 ELSE hist.late
          /\ hist'.unheard \subseteq hist.unheard \cup {stream_.mode}
          /\ (hist.self /\ hist.unplayed) \/ hist'.unheard = hist.unheard
      <4> DEFINE d == FALSE
      <4>1. d \in BOOLEAN /\ ~d
        OBVIOUS
      <4>2. hist' = StopReturned(t, Silenced(hist, d))
        BY <2>1
      <4> HIDE DEF d
      <4> QED
        BY <4>1, <4>2, HaltedHist
    <3>2. /\ stream_' \in StreamType
          /\ stream_'.state = stream_.state /\ stream_'.mode = stream_.mode
          /\ stream_'.owned = stream_.owned \ {"thread"} /\ stream_'.leaked = stream_.leaked
      BY <2>1 DEF Freed, TypeInv, StreamType
    <3>3. pc' \in {[pc EXCEPT ![t] = "free"], [pc EXCEPT ![t] = "idle"], [pc EXCEPT ![t] = "none"]}
      BY <2>1, <1>4 DEF Return, Resume
    <3>4. /\ pc' \in [Threads -> PcLabels] /\ pc'["audio"] = pc["audio"]
          /\ pc[t] \in {"haltStop", "haltAbort", "haltClose"}
          /\ UNCHANGED <<api, handle, device, doStopStream, process, opens, starts>>
      BY <1>4, <2>1, <3>3 DEF WasapiHalt, TypeInv
    <3>5. t = "user" => pc["audio"] = "none"
      BY <3>4 DEF WasapiInv
    <3>6. t # "user" => pc'["user"] = pc["user"]
      BY <3>3 DEF TypeInv
    <3>7. TypeInv' /\ Lasting
      BY <3>1, <3>2, <3>4 DEF TypeInv, Lasting
    <3> QED
      BY <3>1, <3>2, <3>4, <3>5, <3>6, <3>7 DEF TypeInv, WasapiInv, Keeps, Plays
  <2>2. CASE Throw(t) /\ UNCHANGED <<stream_, hist>>
    BY <1>4, <2>2 DEF WasapiHalt, Throw, Return, Resume, TypeInv, Lasting, WasapiInv
  <2>3. CASE process' = "undefined" /\ UNCHANGED <<stream_, hist, pc>>
    BY <1>4, <2>3 DEF WasapiHalt, TypeInv, Lasting, WasapiInv
  <2> QED
    BY <1>4, <2>1, <2>2, <2>3 DEF WasapiHalt
<1>5. CASE WasapiClose
  BY <1>5 DEF WasapiClose, TypeInv, Lasting, WasapiInv
<1>6. CASE WasapiCloseFree
  <2>1. /\ stream_' \in StreamType
        /\ stream_'.state = "CLOSED" /\ stream_'.mode = stream_.mode
        /\ stream_'.owned = stream_.owned \ WasapiMemory /\ stream_'.leaked = stream_.leaked
    BY <1>6 DEF WasapiCloseFree, WasapiFreed, Freed, TypeInv, StreamType, StreamStates
  <2> QED
    BY <1>6, <2>1 DEF WasapiCloseFree, Return, Resume, TypeInv, Lasting, WasapiInv, Plays
<1>7. CASE WasapiThreadFails
  <2>1. stream_' \in StreamType
    BY <1>7 DEF WasapiThreadFails, TypeInv, StreamType, StreamStates
  <2> QED
    BY <1>7, <2>1 DEF WasapiThreadFails, TypeInv, Lasting, WasapiInv, StreamType, Plays
<1>8. CASE WasapiThreadStart
  <2>1. CASE "handle" \in stream_.owned
    <3>1. /\ stream_' \in StreamType
          /\ stream_'.state = stream_.state /\ stream_'.mode = stream_.mode
          /\ stream_'.owned = stream_.owned \cup {"deviceBuffer"}
          /\ stream_'.leaked \subseteq stream_.leaked \cup {"deviceBuffer"}
      <4>1. stream_' = Got(Lost(stream_, {"deviceBuffer"}), {"deviceBuffer"})
        BY <1>8, <2>1 DEF WasapiThreadStart
      <4> QED
        BY <4>1, Names, LostStream, GotStream DEF TypeInv, Same
    <3> QED
      BY <1>8, <2>1, <3>1 DEF WasapiThreadStart, TypeInv, Lasting, WasapiInv, WasapiMemory, WasapiLost, Plays
  <2>2. CASE "handle" \notin stream_.owned
    BY <1>8, <2>2 DEF WasapiThreadStart, TypeInv, Lasting, WasapiInv
  <2> QED
    BY <2>1, <2>2
<1>9. CASE WasapiLoop
  <2>1. CASE stream_.state = "STOPPING"
    <3>1. stream_' \in StreamType
      BY <1>9, <2>1 DEF WasapiLoop, TypeInv, StreamType, StreamStates
    <3> QED
      BY <1>9, <2>1, <3>1 DEF WasapiLoop, TypeInv, Lasting, WasapiInv, StreamType, Plays
  <2>2. CASE stream_.state # "STOPPING"
    BY <1>9, <2>2 DEF WasapiLoop, TypeInv, Lasting, WasapiInv
  <2> QED
    BY <2>1, <2>2
<1>10. CASE WasapiCallback
  <2> DEFINE next == [r \in 0 .. 2 |-> "returned"]
  <2>1. next \in [0 .. 2 -> PcLabels \ {"callback"}]
    OBVIOUS
  <2>2. UserCallback(next)
    BY <1>10 DEF WasapiCallback
  <2>3. \A r \in 0 .. 2 : next[r] = "returned"
    OBVIOUS
  <2> HIDE DEF next
  <2> QED
    BY <2>1, <2>2, <2>3, UserCalled DEF Called, TypeInv, HistType, WasapiInv
<1>11. CASE WasapiReturned
  <2>1. handle' \in HandleType /\ (doStopStream # 0 => handle'.internalDrain)
    BY <1>11 DEF WasapiReturned, TypeInv, HandleType
  <2> QED
    BY <1>11, <2>1 DEF WasapiReturned, TypeInv, Lasting, WasapiInv
<1>12. CASE WasapiTransfer
  <2>1. PICK ringed \in BOOLEAN : hist' = [hist EXCEPT !.unplayed = Plays(stream_) /\ ringed]
    BY <1>12 DEF WasapiTransfer
  <2> DEFINE b == Plays(stream_) /\ ringed
  <2>2. b \in BOOLEAN /\ (b => Plays(stream_)) /\ hist' = [hist EXCEPT !.unplayed = b]
    BY <2>1 DEF Plays
  <2> HIDE DEF b
  <2> QED
    BY <1>12, <2>2, PlayedHist DEF WasapiTransfer, TypeInv, Lasting, WasapiInv, Keeps, Plays
<1>13. CASE GetDeviceInfo(WasapiInfo(stream_))
  <2>1. stream_' = stream_ /\ process' \in {"running", "aborted", "undefined"}
    BY <1>13 DEF GetDeviceInfo, WasapiInfo, Answer, Undefined, TypeInv
  <2> QED
    BY <1>13, <2>1 DEF GetDeviceInfo, TypeInv, Lasting, WasapiInv
<1> QED
  BY <1>1, <1>2, <1>3, <1>4, <1>5, <1>6, <1>7, <1>8, <1>9, <1>10, <1>11, <1>12, <1>13,
     WasapiOpens, WasapiCalls DEF WasapiNext

-----------------------------------------------------------------------------
(* The driver's callbacks.                                                 *)

\* callbackEvent() begins: only while the stream runs, and the application is called only
\* with the counter at 0; when it is past 3 the thread that waits is woken, or one started.
LEMMA EnterStep ==
  ASSUME TypeInv, CountInv, NEW d, Enter(d, CondSignal) \/ Enter(d, SetEvent)
  PROVE /\ TypeInv' /\ CountInv' /\ Lasting
        /\ pc["audio"] = "none" /\ d \in device.running /\ stream_.state = "RUNNING"
        /\ \/ /\ handle.drainCounter > 3 /\ stream_'.state = "STOPPING"
              /\ \/ pc' = pc
                 \/ pc["helper"] = "none" /\ pc' = [pc EXCEPT !["helper"] = "stop"]
                 \/ \E t \in Threads : pc[t] = "waiting" /\ pc' = [pc EXCEPT ![t] = "halt"]
           \/ /\ handle.drainCounter = 0 /\ stream_' = stream_
              /\ pc' = [pc EXCEPT !["audio"] = "callback"]
           \/ /\ handle.drainCounter \in 1 .. 3 /\ stream_' = stream_
              /\ pc' = [pc EXCEPT !["audio"] = "io"]
        /\ stream_'.mode = stream_.mode
        /\ stream_'.owned = stream_.owned /\ stream_'.leaked = stream_.leaked
        /\ handle'.drainCounter = handle.drainCounter
        /\ UNCHANGED <<device, hist>>
<1>1. handle.drainCounter \in 0 .. 5
  BY DEF TypeInv, HandleType
<1>2. /\ stream_' \in StreamType
      /\ stream_'.mode = stream_.mode
      /\ stream_'.owned = stream_.owned /\ stream_'.leaked = stream_.leaked
  BY DEF Enter, TypeInv, StreamType, StreamStates
<1>3. handle' \in HandleType /\ handle'.drainCounter = handle.drainCounter
  <2>1. handle' = handle \/ handle' = [handle EXCEPT !.condition = TRUE]
    BY DEF Enter, CondSignal, SetEvent
  <2> QED
    BY <2>1 DEF TypeInv, HandleType
<1>4. \/ /\ handle.drainCounter > 3 /\ stream_'.state = "STOPPING"
         /\ \/ pc' = pc
            \/ pc["helper"] = "none" /\ pc' = [pc EXCEPT !["helper"] = "stop"]
            \/ \E t \in Threads : pc[t] = "waiting" /\ pc' = [pc EXCEPT ![t] = "halt"]
      \/ /\ handle.drainCounter = 0 /\ stream_' = stream_
         /\ pc' = [pc EXCEPT !["audio"] = "callback"]
      \/ /\ handle.drainCounter \in 1 .. 3 /\ stream_' = stream_
         /\ pc' = [pc EXCEPT !["audio"] = "io"]
  <2>1. CASE handle.drainCounter > 3
    <3>1. stream_'.state = "STOPPING"
      BY <2>1 DEF Enter, TypeInv, StreamType
    <3>2. \/ pc' = pc
          \/ pc["helper"] = "none" /\ pc' = [pc EXCEPT !["helper"] = "stop"]
          \/ \E t \in Threads : pc[t] = "waiting" /\ pc' = [pc EXCEPT ![t] = "halt"]
      BY <2>1 DEF Enter, CondSignal, SetEvent, Goto
    <3> QED
      BY <2>1, <3>1, <3>2
  <2>2. CASE ~(handle.drainCounter > 3)
    BY <1>1, <2>2 DEF Enter, Goto
  <2> QED
    BY <2>1, <2>2
<1>5. /\ pc["audio"] = "none" /\ d \in device.running /\ stream_.state = "RUNNING"
      /\ UNCHANGED <<api, device, doStopStream, process, opens, starts, hist>>
  BY DEF Enter, At
<1>6. pc' \in [Threads -> PcLabels] /\ (pc'["user"] = pc["user"] \/ pc["user"] = "waiting")
  BY <1>4 DEF TypeInv, Threads, PcLabels
<1>7. TypeInv'
  BY <1>2, <1>3, <1>5, <1>6 DEF TypeInv
<1>8. CountInv' /\ Lasting
  <2>1. pc'["audio"] = "callback" => handle.drainCounter = 0
    BY <1>4, <1>5 DEF TypeInv, Threads
  <2>2. pc'["audio"] # "returned" /\ (pc'["audio"] \in {"callback", "io"} => handle.drainCounter <= 4)
    BY <1>1, <1>4, <1>5 DEF TypeInv, Threads
  <2> QED
    BY <1>1, <1>3, <1>5, <1>6, <2>1, <2>2 DEF CountInv, Lasting
<1> QED
  BY <1>2, <1>3, <1>4, <1>5, <1>7, <1>8

\* callbackEvent() ends: the counter goes on, and output is left to be played only where the
\* counter was at most 1.
LEMMA TransferStep ==
  ASSUME TypeInv, CountInv, Transfer
  PROVE /\ TypeInv' /\ CountInv' /\ Lasting
        /\ pc["audio"] = "io" /\ pc' = [pc EXCEPT !["audio"] = "none"]
        /\ handle'.drainCounter = IF handle.drainCounter = 0 THEN 0 ELSE handle.drainCounter + 1
        /\ hist'.unplayed => handle.drainCounter <= 1
        /\ Keeps(hist', hist) /\ hist'.late = hist.late /\ hist'.unheard = hist.unheard
        /\ UNCHANGED <<stream_, device>>
<1>1. /\ pc["audio"] = "io" /\ pc' = [pc EXCEPT !["audio"] = "none"]
      /\ UNCHANGED <<api, stream_, device, doStopStream, process, opens, starts>>
  BY DEF Transfer, At, Goto
<1> DEFINE b == Plays(stream_) /\ handle.drainCounter <= 1
<1>2. b \in BOOLEAN /\ (b => handle.drainCounter <= 1)
  BY DEF Plays
<1>3. /\ handle' \in HandleType
      /\ handle'.drainCounter = IF handle.drainCounter = 0 THEN 0 ELSE handle.drainCounter + 1
  BY <1>1 DEF Transfer, TypeInv, HandleType, CountInv
<1>4. hist' = [hist EXCEPT !.unplayed = b]
  BY DEF Transfer
<1> HIDE DEF b
<1> QED
  BY <1>1, <1>2, <1>3, <1>4, PlayedHist
     DEF TypeInv, HandleType, Lasting, CountInv, Keeps, Threads, PcLabels

-----------------------------------------------------------------------------
(* RtApiCore.                                                              *)

\* What RtApiCore loses, what closeStream() releases as memory, and what a stream may own;
\* streams before a probe, after it, and after its failure.
CoreLost == {"hog", "device0"}
CoreMemory == UserBuffers \cup {"handle", "deviceBuffer"}
CoreHeld == CoreLost \cup CoreMemory \cup Devices
\* The devices a stream of one direction does not own; one of none owns no handle either.
CoreModes(s) ==
  /\ s.mode = "UNINITIALIZED" => "handle" \notin s.owned /\ Devices \cap s.owned = {}
  /\ s.mode = "OUTPUT" => "device1" \notin s.owned
  /\ s.mode = "INPUT" => "device0" \notin s.owned
CoreOpening(v) ==
  {s \in StreamType : /\ s.state = v /\ s.leaked \subseteq CoreLost
                      /\ s.owned \subseteq CoreLost \cup CoreMemory
                      /\ v = "CLOSED" => s.owned \subseteq {"hog"} /\ s.mode = "UNINITIALIZED"
                      /\ v = "STOPPED" => /\ "handle" \in s.owned /\ Devices \cap s.owned # {}
                                          /\ s.mode = "OUTPUT"}
CoreAfter(m) ==
  {s \in StreamType : /\ s.state = "STOPPED" /\ s.leaked \subseteq CoreLost
                      /\ "handle" \in s.owned /\ Devices \cap s.owned # {}
                      /\ s.owned \subseteq CoreHeld /\ CoreModes(s)
                      /\ m = "OUTPUT" => /\ s.owned \subseteq CoreLost \cup CoreMemory
                                         /\ s.mode = "OUTPUT"}
CoreFailed ==
  {s \in StreamType : /\ s.state \in {"CLOSED", "STOPPED"} /\ s.leaked \subseteq CoreLost
                      /\ s.owned \subseteq CoreHeld /\ CoreModes(s)
                      /\ s.state = "CLOSED" => s.owned \subseteq CoreLost}

\* Every path through RtApiCore::probeDeviceOpen() ends opened, with a callback registered, or
\* failed; only for the second direction may the callback be the output's.
LEMMA CoreProbeOutcomes ==
  ASSUME NEW v \in {"CLOSED", "STOPPED"}, NEW s \in CoreOpening(v), NEW m \in {"OUTPUT", "INPUT"},
         v = "STOPPED" => m = "INPUT"
  PROVE \A r \in CoreProbe(s, m) : r \in Outcomes(CoreAfter(m), CoreFailed)
<1> DEFINE Find == CoreFind(s)
           Rate == Then(Find, CoreRate)
           Formats == Then(Rate, CoreFormats)
<1>0. /\ CoreOpening(v) \in SUBSET StreamType
      /\ CoreAfter(m) \in SUBSET StreamType /\ CoreFailed \in SUBSET StreamType
      /\ \A t \in CoreOpening(v) : t \in CoreFailed
  BY DEF CoreOpening, CoreAfter, CoreFailed, CoreHeld, CoreLost, CoreMemory, CoreModes, UserBuffers,
         Devices
<1>1. \A t \in CoreOpening(v) :
        \A r \in {Success(t), Failure(t)} : r \in Outcomes(CoreOpening(v), CoreFailed)
  BY <1>0, OutcomeOf
<1>2. \A t \in CoreOpening(v) : \A r \in CoreRate(t) : r \in Outcomes(CoreOpening(v), CoreFailed)
  <2>1. \A t \in CoreOpening(v) : Got(t, {"hog"}) \in CoreOpening(v)
    BY Names, GotStream DEF CoreOpening, CoreLost, Same
  <2> QED
    BY <1>1, <2>1 DEF CoreRate
<1>3. \A t \in CoreOpening(v) : \A r \in CoreSetUp(t, m) : r \in Outcomes(CoreAfter(m), CoreFailed)
  <2> SUFFICES ASSUME NEW t \in CoreOpening(v)
               PROVE \A r \in CoreSetUp(t, m) : r \in Outcomes(CoreAfter(m), CoreFailed)
    OBVIOUS
  <2> DEFINE made == {Opened(Got(b, {"handle"}), m) : b \in WithBuffers(t, m)}
  <2>1. CoreError(t) \in Outcomes(CoreAfter(m), CoreFailed)
    <3> DEFINE u == Freed(t, UserBuffers \cup {"handle", "deviceBuffer"})
    <3>1. /\ u \in StreamType /\ u.owned \subseteq CoreLost /\ u.leaked \subseteq CoreLost
          /\ CoreModes(u)
      BY FreedStream DEF CoreOpening, CoreMemory, CoreLost, CoreModes, Devices, Same
    <3> HIDE DEF u
    <3> DEFINE w == [u EXCEPT !.state = "CLOSED"]
    <3>2. /\ w \in StreamType /\ w.state = "CLOSED" /\ CoreModes(w)
          /\ w.owned \subseteq CoreLost /\ w.leaked \subseteq CoreLost
      BY <3>1, ClosedStream DEF CoreModes
    <3>3. CoreError(t) = Failure(w)
      BY DEF CoreError, u
    <3> HIDE DEF w
    <3>4. w \in CoreFailed
      BY <3>2 DEF CoreFailed, CoreHeld
    <3> QED
      BY <1>0, <3>3, <3>4, OutcomeOf
  <2>2. ASSUME NEW u \in made
        PROVE /\ u \in StreamType /\ u.state = "STOPPED" /\ u.leaked \subseteq CoreLost
              /\ u.owned \subseteq CoreLost \cup CoreMemory /\ "handle" \in u.owned
              /\ u.mode = "DUPLEX" => Devices \cap u.owned # {}
              /\ u.mode # "UNINITIALIZED" /\ (m = "OUTPUT" <=> u.mode = "OUTPUT")
              /\ u.mode = "INPUT" => "device0" \notin u.owned
    <3>1. PICK b \in WithBuffers(t, m) : u = Opened(Got(b, {"handle"}), m)
      OBVIOUS
    <3>2. /\ Same(b, t) /\ b.leaked = t.leaked
          /\ t.owned \subseteq b.owned /\ b.owned \subseteq t.owned \cup {UserBuffer(m), "deviceBuffer"}
      BY <3>1, BufferedStream DEF CoreOpening
    <3>3. /\ Same(Got(b, {"handle"}), t) /\ Got(b, {"handle"}).leaked = t.leaked
          /\ Got(b, {"handle"}).owned = b.owned \cup {"handle"}
      BY <3>2, Names, GotStream DEF Same
    <3>4. /\ u \in StreamType /\ u.state = "STOPPED" /\ u.leaked = t.leaked
          /\ u.owned = b.owned \cup {"handle"}
          /\ u.mode = NewMode(Got(b, {"handle"}), m)
      BY <3>1, <3>3, OpenedStream DEF Same
    <3>5. /\ u.mode = "DUPLEX" => t.mode = "OUTPUT"
          /\ u.mode = "INPUT" => t.mode # "OUTPUT"
          /\ u.mode # "UNINITIALIZED" /\ (m = "OUTPUT" <=> u.mode = "OUTPUT")
      BY <3>3, <3>4 DEF NewMode, Same
    <3> QED
      BY <3>2, <3>4, <3>5, Names DEF CoreOpening, CoreMemory, UserBuffers
  <2>3. ASSUME NEW u \in made
        PROVE Got(u, {Device(m)}) \in CoreAfter(m)
    BY <2>2, Names, GotStream
       DEF CoreAfter, CoreHeld, CoreLost, CoreMemory, CoreModes, Same, Devices, UserBuffers, Device
  <2>4. ASSUME NEW u \in made, u.mode = "DUPLEX"
        PROVE u \in CoreAfter(m)
    BY <2>2, <2>4 DEF CoreAfter, CoreHeld, CoreLost, CoreMemory, CoreModes, UserBuffers
  <2>5. ASSUME NEW r \in CoreSetUp(t, m)
        PROVE \/ r = CoreError(t)
              \/ \E u \in made : r = Success(Got(u, {Device(m)}))
              \/ \E u \in made : u.mode = "DUPLEX" /\ r = Success(u)
    BY DEF CoreSetUp
  <2> HIDE DEF made
  <2> QED
    BY <1>0, <2>1, <2>3, <2>4, <2>5, OutcomeOf
<1>4. \A r \in Rate : r \in Outcomes(CoreOpening(v), CoreFailed)
  BY <1>1, <1>2 DEF CoreFind, Then, Outcomes
<1> HIDE DEF Rate
<1>5. \A r \in Formats : r \in Outcomes(CoreOpening(v), CoreFailed)
  BY <1>1, <1>4 DEF CoreFormats, Then, Outcomes
<1> HIDE DEF Formats
<1>6. CoreProbe(s, m) = Then(Formats, LAMBDA t : CoreSetUp(t, m))
  BY DEF CoreProbe, Formats, Rate, Find
<1> QED
  BY <1>5, <1>6, <1>3 DEF Then, Outcomes

\* No callback of RtApiCore that may call the application runs or will.
Quiet ==
  pc["audio"] = "none" /\ \A d \in device.running \cap stream_.owned : TwoDevices /\ d = "device1"

\* The invariant of RtApiCore: the stream runs, and is called back, with a handle only; once
\* closeStream() took the callbacks none runs; after the devices were stopped none runs either;
\* and a helper is started by a callback that ended only with the counter at 3 or more, and
\* nothing unplayed.
CoreInv ==
  /\ CountInv
  /\ pc["helper"] \notin {"abort", "aborting"}
  /\ "handle" \in stream_.owned => stream_.state # "CLOSED"
  /\ stream_.state = "RUNNING" \/ pc["audio"] # "none" => "handle" \in stream_.owned
  /\ CoreModes(stream_)
  /\ pc["user"] = "haltInput" /\ Plays(stream_) => Quiet
  /\ pc["user"] = "halted" => Quiet
  /\ stream_.state = "CLOSED" => pc["user"] \in {"idle", "close"} /\ pc["audio"] = "none"
  /\ pc["user"] = "free" => device.running = {} /\ pc["audio"] = "none"
  /\ hist.late >= 0 => hist.late = 0 /\ pc["audio"] = "none" /\ stream_.state # "RUNNING"
  /\ hist.self /\ stream_.mode # "DUPLEX" =>
       /\ pc["audio"] \in {"none", "io", "returned"}
       /\ pc["audio"] # "returned" /\ handle.drainCounter >= 3 => ~hist.unplayed
       /\ pc["helper"] # "none" => handle.drainCounter >= 3 /\ pc["audio"] # "returned"
  /\ hist.unheard \subseteq {"DUPLEX"}
  /\ stream_.owned \subseteq CoreHeld
  /\ pc["user"] = "free" => stream_.owned \cap Devices = {}
  /\ stream_.leaked \subseteq CoreLost
  /\ stream_.state = "CLOSED" => stream_.owned \subseteq CoreLost
  /\ hist.opened /\ "handle" \in stream_.owned /\ pc["user"] # "free"
       => Devices \cap stream_.owned # {}

\* openStream() of RtApiCore keeps its invariant.
LEMMA CoreOpens ==
  ASSUME TypeInv, CoreInv, OpenStream(Single(CoreProbe), Second(CoreProbe))
  PROVE TypeInv' /\ CoreInv' /\ Lasting
<1> DEFINE good == CoreAfter("OUTPUT") \cup CoreAfter("INPUT")
<1>1. /\ good \in SUBSET StreamType /\ CoreFailed \in SUBSET StreamType
      /\ \A s \in good : s.state = "STOPPED"
      /\ \A s \in CoreAfter("OUTPUT") : s \in CoreOpening("STOPPED")
  BY DEF CoreAfter, CoreOpening, CoreFailed
<1>2. Cleared(stream_) \in CoreOpening("CLOSED")
  <2>1. stream_.state = "CLOSED"
    BY DEF OpenStream
  <2> QED
    BY <2>1, ClearedStream DEF CoreOpening, TypeInv, CoreInv
<1>3. \A m \in {"OUTPUT", "INPUT"} : \A r :
        r \in Outcomes(CoreAfter(m), CoreFailed) => r \in Outcomes(good, CoreFailed)
  BY DEF Outcomes
<1>4. \A r \in Single(CoreProbe) : r \in Outcomes(good, CoreFailed)
  BY <1>2, <1>3, CoreProbeOutcomes DEF Single
<1>5. \A r \in Second(CoreProbe) : r \in Outcomes(good, CoreFailed)
  <2>1. \A q \in CoreProbe(Cleared(stream_), "OUTPUT") : q.ok => q.s \in CoreOpening("STOPPED")
    <3>1. CoreAfter("OUTPUT") \in SUBSET StreamType
      BY DEF CoreAfter
    <3> QED
      BY <1>1, <1>2, <3>1, CoreProbeOutcomes, OutcomeOf
  <2>2. \A s \in CoreOpening("STOPPED") : \A r \in CoreProbe(s, "INPUT") :
          r \in Outcomes(CoreAfter("INPUT"), CoreFailed)
    BY CoreProbeOutcomes
  <2> QED
    BY <1>3, <2>1, <2>2 DEF Second
<1>6. \A s \in good : "handle" \in s.owned /\ Devices \cap s.owned # {} /\ s.owned \subseteq CoreHeld
                      /\ s.leaked \subseteq CoreLost /\ CoreModes(s)
  BY DEF CoreAfter
<1> HIDE DEF good
<1>7. TypeInv' /\ Lasting /\ OpenedInto(good, CoreFailed, CoreFailed)
  BY <1>1, <1>4, <1>5, OpensInto
<1> QED
  BY <1>1, <1>6, <1>7 DEF OpenedInto, CoreFailed, CoreLost, CoreHeld, CoreMemory, UserBuffers, Devices,
       CoreModes, CoreInv, CountInv

\* The application's calls keep it.
LEMMA CoreCalls ==
  ASSUME TypeInv, CoreInv, Calls
  PROVE TypeInv' /\ CoreInv' /\ Lasting
<1>1. TypeInv' /\ Lasting
  BY CallsTyped
<1> USE DEF CoreInv, CountInv, CoreModes, Quiet, Plays, TwoDevices, At, Goto
<1>2. CASE StartCall
  BY <1>1, <1>2, MeddledHist DEF StartCall, StreamOpen, TypeInv, Threads
<1>3. CASE StopCall
  BY <1>1, <1>3, MeddledHist DEF StopCall, StreamOpen, TypeInv, Threads
<1>4. CASE CloseCall
  BY <1>1, <1>4, MeddledHist DEF CloseCall, StreamOpen, TypeInv, Threads
<1>5. ASSUME NEW t \in Threads, StopCheck(t)
      PROVE CoreInv'
  BY <1>5 DEF StopCheck, Throw, Return, Resume, TypeInv, Threads
<1> QED
  BY <1>1, <1>2, <1>3, <1>4, <1>5 DEF Calls

\* Every step of a stream on RtApiCore keeps its invariant.
LEMMA CorePreserved ==
  ASSUME TypeInv, CoreInv, api = "CORE", CoreNext \/ Calls
  PROVE TypeInv' /\ CoreInv' /\ Lasting
<1> USE DEF At, Goto, Threads, PcLabels
<1>0. CountInv
  BY DEF CoreInv
<1>15. "thread" \notin stream_.owned
  BY DEF CoreInv, CoreHeld, CoreLost, CoreMemory, UserBuffers, Devices
<1>1. CASE CoreStart
  <2>1. device' \in DeviceType
    BY <1>1 DEF CoreStart, DriverStarted, DriverRefused, Procs, TypeInv, DeviceType
  <2>2. /\ pc["user"] = "start"
        /\ pc' \in {[pc EXCEPT !["user"] = "started"], [pc EXCEPT !["user"] = "idle"]}
        /\ UNCHANGED <<api, stream_, handle, doStopStream, process, opens, starts, hist>>
    BY <1>1 DEF CoreStart, DriverStarted, DriverRefused, Return, Resume
  <2> QED
    BY <2>1, <2>2 DEF TypeInv, Lasting, CoreInv, CountInv, CoreModes, Quiet, Plays, TwoDevices
<1>2. CASE CoreRun
  <2>1. "handle" \in stream_.owned
    BY <1>2 DEF CoreRun, Run, HasHandle
  <2> QED
    BY <1>0, <1>2, <2>1, RunStep DEF CoreRun, TypeInv, CoreInv, CoreModes, Quiet, Plays, TwoDevices
<1>3. ASSUME NEW t \in Threads, CoreDrain(t)
      PROVE TypeInv' /\ CoreInv' /\ Lasting
  <2> DEFINE silent == IF HasHandle THEN "haltInput" ELSE "staleInput"
  <2>1. silent \in {"haltInput", "staleInput"} /\ Drain(t, silent)
    BY <1>3 DEF CoreDrain
  <2> HIDE DEF silent
  <2>2. handle.drainCounter \in 0 .. 5
    BY DEF TypeInv, HandleType
  <2> QED
    BY <1>0, <2>1, <2>2, DrainStep DEF TypeInv, CoreInv, CountInv, CoreModes, Quiet, Plays, TwoDevices
<1>4. ASSUME NEW t \in Threads, CoreWait(t)
      PROVE TypeInv' /\ CoreInv' /\ Lasting
  BY <1>0, <1>4, WaitStep DEF CoreWait, TypeInv, CoreInv, CoreModes, Quiet, Plays, TwoDevices
<1>5. ASSUME NEW t \in Threads, CoreHalt(t)
      PROVE TypeInv' /\ CoreInv' /\ Lasting
  <2>1. /\ pc[t] = "halt" /\ (t = "audio" \/ pc["audio"] = "none")
        /\ UNCHANGED <<api, stream_, handle, doStopStream, opens, starts>>
    BY <1>5 DEF CoreHalt, NoCallback
  <2>2. CASE /\ device' = [device EXCEPT !.running = @ \ {"device0"}]
             /\ hist' = Silenced(hist, FALSE)
             /\ pc' = [pc EXCEPT ![t] = "haltInput"] /\ UNCHANGED process
    <3>1. /\ hist' \in HistType /\ Keeps(hist', hist) /\ ~hist'.unplayed
          /\ hist'.late = hist.late
          /\ hist'.unheard \subseteq hist.unheard \cup {stream_.mode}
          /\ (hist.self /\ hist.unplayed) \/ hist'.unheard = hist.unheard
      <4> DEFINE d == FALSE
      <4>1. d \in BOOLEAN /\ ~d
        OBVIOUS
      <4>2. hist' = Silenced(hist, d)
        BY <2>2
      <4> HIDE DEF d
      <4> QED
        BY <4>1, <4>2, SilencedHist DEF TypeInv
    <3>2. device' \in DeviceType /\ device'.running = device.running \ {"device0"}
      BY <2>2 DEF TypeInv, DeviceType
    <3>3. hist.self /\ hist.unplayed => stream_.mode = "DUPLEX"
      BY <2>1 DEF CoreInv, CountInv
    <3>4. TypeInv' /\ Lasting
      BY <2>1, <2>2, <3>1, <3>2 DEF TypeInv, Lasting
    <3>5. CountInv'
      BY <1>0, <2>1, <2>2, <3>1 DEF TypeInv, CountInv, Keeps
    <3>6. /\ pc'["user"] = "haltInput" /\ Plays(stream_) => Quiet'
          /\ pc'["user"] = "halted" => Quiet'
      BY <2>1, <2>2, <3>2 DEF TypeInv, DeviceType, CoreInv, CoreModes, Plays, TwoDevices, Quiet, Devices
    <3>7. pc'["audio"] = pc["audio"] \/ ~hist.self \/ stream_.mode = "DUPLEX"
      BY <2>1, <2>2 DEF TypeInv, CoreInv
    <3>8. /\ pc' \in [Threads -> PcLabels]
          /\ \A u \in Threads : pc'[u] = pc[u] \/ (pc[u] = "halt" /\ pc'[u] = "haltInput")
      BY <2>1, <2>2 DEF TypeInv
    <3>9. hist'.unheard \subseteq {"DUPLEX"}
      BY <3>1, <3>3 DEF CoreInv
    <3>10. hist'.self /\ stream_.mode # "DUPLEX" =>
             /\ pc'["audio"] \in {"none", "io", "returned"}
             /\ pc'["audio"] # "returned" /\ handle.drainCounter >= 3 => ~hist'.unplayed
             /\ pc'["helper"] # "none" => handle.drainCounter >= 3 /\ pc'["audio"] # "returned"
      BY <3>1, <3>7, <3>8 DEF CoreInv, Keeps
    <3>11. pc'["user"] = "free" => pc["user"] = "free" /\ pc'["audio"] = "none" /\ device'.running = {}
      BY <3>2, <3>8 DEF CoreInv
    <3>12. hist'.late >= 0 => hist'.late = 0 /\ pc'["audio"] = "none" /\ stream_.state # "RUNNING"
      BY <3>1, <3>8 DEF CoreInv
    <3> QED
      BY <2>1, <3>1, <3>4, <3>5, <3>6, <3>8, <3>9, <3>10, <3>11, <3>12
         DEF CoreInv, CoreModes, Keeps, Plays
  <2>3. CASE Throw(t) /\ UNCHANGED <<device, hist>>
    <3>1. /\ pc' = [pc EXCEPT ![t] = IF t = "user" THEN "idle" ELSE "none"]
          /\ process' \in {"running", "aborted", "undefined"}
      BY <1>15, <2>3 DEF Throw, Return, Resume, TypeInv
    <3> QED
      BY <2>1, <2>3, <3>1
         DEF TypeInv, Lasting, CoreInv, CountInv, CoreModes, Quiet, Plays, TwoDevices
  <2> QED
    BY <1>5, <2>2, <2>3 DEF CoreHalt
<1>16. ASSUME NEW t \in Threads, CoreHaltInput(t)
       PROVE TypeInv' /\ CoreInv' /\ Lasting
  <2>1. /\ pc[t] = "haltInput"
        /\ pc' \in {[pc EXCEPT ![t] = "halted"],
                    [pc EXCEPT ![t] = IF t = "user" THEN "idle" ELSE "none"]}
        /\ process' \in {"running", "aborted", "undefined"}
        /\ UNCHANGED <<api, stream_, handle, doStopStream, opens, starts, hist>>
    BY <1>15, <1>16 DEF CoreHaltInput, Throw, Return, Resume, TypeInv
  <2>2. device' \in DeviceType /\ device'.running \subseteq device.running
    BY <1>16 DEF CoreHaltInput, TypeInv, DeviceType
  <2>3. ASSUME pc'["user"] = "halted", t = "user"
        PROVE Quiet'
    <3>1. CASE Plays(stream_)
      BY <2>1, <2>2, <2>3, <3>1 DEF TypeInv, CoreInv, Quiet, TwoDevices
    <3>2. CASE stream_.mode = "UNINITIALIZED"
      BY <2>1, <2>2, <2>3, <3>2 DEF TypeInv, DeviceType, CoreInv, CoreModes, Quiet
    <3>3. CASE stream_.mode = "INPUT"
      <4>1. pc["audio"] = "none" /\ device'.running = device.running \ {"device1"}
        BY <1>16, <2>3, <3>3 DEF CoreHaltInput, OwnInput, TwoDevices, NoCallback, Throw, Return,
           Resume, TypeInv, DeviceType
      <4> QED
        BY <2>1, <2>2, <2>3, <3>3, <4>1 DEF TypeInv, DeviceType, CoreInv, CoreModes, Quiet, Devices
    <3> QED
      BY <3>1, <3>2, <3>3 DEF TypeInv, StreamType, Modes, Plays
  <2>4. TypeInv' /\ Lasting /\ CountInv'
    BY <1>0, <2>1, <2>2 DEF TypeInv, Lasting, CountInv
  <2>5. t # "user" => (pc'["user"] = pc["user"] /\ (Quiet => Quiet'))
    BY <2>1, <2>2 DEF TypeInv, Quiet, TwoDevices
  <2>6. t = "user" => pc'["user"] \in {"idle", "halted"} /\ pc'["audio"] = pc["audio"]
                      /\ pc'["helper"] = pc["helper"]
    BY <2>1 DEF TypeInv
  <2> QED
    BY <2>1, <2>2, <2>3, <2>4, <2>5, <2>6 DEF TypeInv, DeviceType, CoreInv, CoreModes, Plays
<1>17. CASE CoreStaleInput("helper")
  BY <1>17 DEF CoreStaleInput, TypeInv, Lasting, CoreInv, CountInv, CoreModes, Quiet, Plays, TwoDevices
<1>18. ASSUME NEW t \in Threads, CoreStopped(t)
       PROVE TypeInv' /\ CoreInv' /\ Lasting
  BY <1>0, <1>15, <1>18, StoppedStep
     DEF CoreStopped, Keeps, Late, TypeInv, CoreInv, CountInv, CoreModes, Quiet, Plays, TwoDevices
<1>6. ASSUME NEW t \in Threads, CoreAbort(t)
      PROVE TypeInv' /\ CoreInv' /\ Lasting
  BY <1>0, <1>6, AbortStep
     DEF CoreAbort, TypeInv, CoreInv, CountInv, CoreModes, Quiet, Plays, TwoDevices
<1>7. CASE CoreCloseDevice
  <2>1. CASE stream_.state = "CLOSED"
    BY <1>7, <2>1
       DEF CoreCloseDevice, TypeInv, Lasting, CoreInv, CountInv, CoreModes, Quiet, Plays, TwoDevices
  <2>2. CASE stream_.state # "CLOSED"
    <3>1. /\ Same(stream_', stream_) /\ stream_'.owned = stream_.owned \ Devices
          /\ stream_'.leaked = stream_.leaked
      BY <1>7, <2>2, FreedStream DEF CoreCloseDevice, TypeInv
    <3> QED
      BY <1>7, <2>2, <3>1, InitialDevice
         DEF CoreCloseDevice, NoCallback, TypeInv, Lasting, CoreInv, CountInv, CoreModes, Same, Devices
  <2> QED
    BY <2>1, <2>2
<1>8. CASE CoreCloseFree
  <2>1. /\ stream_' \in StreamType
        /\ stream_'.state = "CLOSED" /\ stream_'.mode = "UNINITIALIZED"
        /\ stream_'.owned = stream_.owned \ CoreMemory /\ stream_'.leaked = stream_.leaked
    BY <1>8 DEF CoreCloseFree, CoreMemory, Freed, TypeInv, StreamType, StreamStates, Modes
  <2>2. /\ pc["user"] = "free"
        /\ UNCHANGED <<api, handle, device, doStopStream, process, opens, starts, hist>>
    BY <1>8 DEF CoreCloseFree
  <2>3. pc' = [u \in Threads |->
          CASE u = "user" -> "idle"
            [] pc[u] = "haltInput" -> "staleInput"
            [] OTHER -> IF pc[u] \in {"wait", "waiting", "halt"} THEN "dangling" ELSE pc[u]]
    BY <1>8 DEF CoreCloseFree, Deleted
  <2>4. /\ pc' \in [Threads -> PcLabels] /\ pc'["user"] = "idle"
        /\ pc'["audio"] = "none"
        /\ pc'["helper"] \in {pc["helper"], "staleInput", "dangling"}
        /\ pc["helper"] = "none" => pc'["helper"] = "none"
    BY <2>2, <2>3 DEF TypeInv, CoreInv
  <2>5. TypeInv' /\ Lasting /\ CountInv'
    BY <1>0, <2>1, <2>2, <2>4 DEF TypeInv, Lasting, CountInv, CoreInv
  <2>6. stream_'.owned \subseteq CoreLost /\ "handle" \notin stream_'.owned
        /\ Devices \cap stream_'.owned = {}
    BY <2>1, <2>2 DEF CoreInv, CoreHeld, CoreMemory
  <2>7. ~hist.self
    BY <1>0, <2>2 DEF CountInv
  <2> QED
    BY <2>1, <2>2, <2>4, <2>5, <2>6, <2>7 DEF TypeInv, CoreInv, CoreHeld, CoreMemory, CoreModes
<1>9. CASE Dangling("helper", {}) \/ Dangling("user", {"start", "free"})
  BY <1>0, <1>9, DanglingStep DEF TypeInv, CoreInv, CoreModes, Quiet, Plays, TwoDevices
<1>10. CASE CoreEnter
  <2>1. PICK d : /\ d \in Procs /\ ~(TwoDevices /\ d = "device1")
                 /\ Enter(d, CondSignal)
    BY <1>10 DEF CoreEnter
  <2>2. handle.drainCounter \in 0 .. 5
    BY DEF TypeInv, HandleType
  <2> QED
    BY <1>0, <2>1, <2>2, EnterStep
       DEF Procs, TypeInv, CoreInv, CountInv, CoreModes, Quiet, Plays, TwoDevices
<1>11. CASE CoreEnterInput
  <2>1. /\ stream_.mode = "DUPLEX" /\ stream_.state = "RUNNING"
        /\ UNCHANGED <<api, device, doStopStream, process, opens, starts, hist>>
    BY <1>11 DEF CoreEnterInput, TwoDevices
  <2>2. /\ stream_' \in StreamType /\ stream_'.state \in {"RUNNING", "STOPPING"}
        /\ stream_'.mode = stream_.mode
        /\ stream_'.owned = stream_.owned /\ stream_'.leaked = stream_.leaked
    BY <1>11, <2>1 DEF CoreEnterInput, TypeInv, StreamType, StreamStates
  <2>3. /\ handle' \in HandleType /\ handle'.drainCounter >= handle.drainCounter
        /\ handle'.drainCounter = handle.drainCounter \/ handle'.drainCounter <= 4
    BY <1>11 DEF CoreEnterInput, CondSignal, TypeInv, HandleType
  <2>4. \/ pc' = pc
        \/ pc["helper"] = "none" /\ pc' = [pc EXCEPT !["helper"] = "stop"]
        \/ \E t \in Threads : pc[t] = "waiting" /\ pc' = [pc EXCEPT ![t] = "halt"]
    BY <1>11 DEF CoreEnterInput, CondSignal
  <2>5. handle.drainCounter \in 0 .. 5 /\ handle'.drainCounter \in 0 .. 5
    BY <2>3 DEF TypeInv, HandleType
  <2>6. /\ pc' \in [Threads -> PcLabels]
        /\ pc'["audio"] = pc["audio"] \/ (pc["audio"] = "waiting" /\ pc'["audio"] = "halt")
        /\ pc'["user"] = pc["user"] \/ (pc["user"] = "waiting" /\ pc'["user"] = "halt")
        /\ pc'["helper"] = pc["helper"] \/ pc'["helper"] \in {"stop", "halt"}
    BY <2>4 DEF TypeInv
  <2>7. TypeInv' /\ Lasting /\ CountInv'
    BY <1>0, <2>1, <2>2, <2>3, <2>5, <2>6 DEF TypeInv, Lasting, CountInv
  <2> QED
    BY <2>1, <2>2, <2>6, <2>7 DEF CoreInv, CoreModes, Quiet, Plays, TwoDevices
<1>12. CASE CoreCallback
  BY <1>0, <1>12, CountCalled DEF CoreCallback, Called, TypeInv, HistType, CoreInv, CountInv,
     CoreModes, Quiet, Plays, TwoDevices
<1>13. CASE CoreReturned
  <2>1. doStopStream = 2 => pc' = [pc EXCEPT !["audio"] = "abort"]
    BY <1>13 DEF CoreReturned, Returned, AbortHere
  <2>2. doStopStream \in 0 .. 2
    BY DEF TypeInv
  <2> QED
    BY <1>0, <1>13, <2>1, <2>2, ReturnedStep DEF CoreReturned, TypeInv, CoreInv, CountInv,
       CoreModes, Quiet, Plays, TwoDevices
<1>14. CASE CoreTransfer
  <2>1. handle.drainCounter \in 0 .. 5
    BY DEF TypeInv, HandleType
  <2> QED
    BY <1>0, <1>14, <2>1, TransferStep DEF CoreTransfer, TypeInv, CoreInv, CountInv, Keeps,
       CoreModes, Quiet, Plays, TwoDevices
<1> QED
  BY <1>1, <1>2, <1>3, <1>4, <1>5, <1>6, <1>7, <1>8, <1>9, <1>10, <1>11, <1>12, <1>13, <1>14,
     <1>16, <1>17, <1>18, CoreOpens, CoreCalls DEF CoreNext

-----------------------------------------------------------------------------
(* RtApiJack.                                                              *)

\* What RtApiJack releases as memory, and what a stream may own; streams before a probe, with
\* a client, after it, and after its failure.
JackMemory == UserBuffers \cup {"handle", "deviceBuffer"}
JackHeld == JackMemory \cup {"client"}
JackOpening(v) ==
  {s \in StreamType : /\ s.state = v /\ s.leaked \subseteq {"client"} /\ s.owned \subseteq JackHeld
                      /\ v = "CLOSED" => s.owned = {} /\ s.mode = "UNINITIALIZED"
                      /\ v = "STOPPED" => {"client", "handle"} \subseteq s.owned /\ s.mode = "OUTPUT"}
JackConnected(v) ==
  {s \in StreamType : /\ s.state = v /\ s.leaked \subseteq {"client"} /\ s.owned \subseteq JackHeld
                      /\ "client" \in s.owned
                      /\ v = "CLOSED" => s.owned = {"client"} /\ s.mode = "UNINITIALIZED"
                      /\ v = "STOPPED" => "handle" \in s.owned /\ s.mode = "OUTPUT"}
JackAfter(m) ==
  {s \in StreamType : /\ s.state = "STOPPED" /\ s.leaked \subseteq {"client"}
                      /\ {"client", "handle"} \subseteq s.owned /\ s.owned \subseteq JackHeld
                      /\ m = "OUTPUT" => s.mode = "OUTPUT"}
JackFailed ==
  {s \in StreamType : /\ s.state \in {"CLOSED", "STOPPED"} /\ s.leaked \subseteq {"client"}
                      /\ s.owned \subseteq JackHeld
                      /\ s.state = "CLOSED" => s.owned = {}}

\* Every path through RtApiJack::probeDeviceOpen() ends with client and handle, or failed
\* without either or, the output being open, without the client.
LEMMA JackProbeOutcomes ==
  ASSUME NEW v \in {"CLOSED", "STOPPED"}, NEW s \in JackOpening(v), NEW m \in {"OUTPUT", "INPUT"},
         v = "STOPPED" => m = "INPUT"
  PROVE \A r \in JackProbe(s, m) : r \in Outcomes(JackAfter(m), JackFailed)
<1> DEFINE Client == JackClient(s, m)
           Parameters == Then(Client, JackParameters)
<1>0. /\ JackOpening(v) \in SUBSET StreamType /\ JackConnected(v) \in SUBSET StreamType
      /\ JackAfter(m) \in SUBSET StreamType /\ JackFailed \in SUBSET StreamType
  BY DEF JackOpening, JackConnected, JackAfter, JackFailed
<1>1. \A r \in Client : r \in Outcomes(JackConnected(v), JackFailed)
  <2>1. s \in JackFailed
    BY DEF JackOpening, JackFailed
  <2>2. s.mode = "OUTPUT" => s \in JackConnected(v)
    BY DEF JackOpening, JackConnected
  <2>3. ~(m = "INPUT" /\ s.mode = "OUTPUT") => Got(s, {"client"}) \in JackConnected(v)
    <3>1. /\ Same(Got(s, {"client"}), s) /\ Got(s, {"client"}).owned = s.owned \cup {"client"}
          /\ Got(s, {"client"}).leaked = s.leaked
      BY Names, GotStream DEF JackOpening
    <3> QED
      BY <3>1 DEF JackOpening, JackConnected, JackHeld, Same
  <2> QED
    BY <1>0, <2>1, <2>2, <2>3, OutcomeOf DEF JackClient
<1>2. ASSUME NEW t \in JackConnected(v)
      PROVE /\ JackForgotten(t) \in JackFailed
            /\ Same(JackForgotten(t), t)
            /\ JackForgotten(t).owned \subseteq JackHeld /\ JackForgotten(t).leaked \subseteq {"client"}
  <2>1. CASE "handle" \in t.owned
    BY <2>1 DEF JackForgotten, JackConnected, JackFailed, Same
  <2>2. CASE "handle" \notin t.owned
    <3>1. /\ Same(Lost(t, {"client"}), t) /\ Lost(t, {"client"}).owned = t.owned \ {"client"}
          /\ Lost(t, {"client"}).leaked = t.leaked \cup ({"client"} \cap t.owned)
      BY LostStream DEF JackConnected
    <3> QED
      BY <2>2, <3>1 DEF JackForgotten, JackConnected, JackFailed, Same
  <2> QED
    BY <2>1, <2>2
<1>3. \A t \in JackConnected(v) : \A r \in JackParameters(t) : r \in Outcomes(JackConnected(v), JackFailed)
  <2> SUFFICES ASSUME NEW t \in JackConnected(v)
               PROVE \A r \in JackParameters(t) : r \in Outcomes(JackConnected(v), JackFailed)
    OBVIOUS
  <2>1. Freed(t, {"client"}) \in JackFailed
    <3>1. /\ Same(Freed(t, {"client"}), t) /\ Freed(t, {"client"}).owned = t.owned \ {"client"}
          /\ Freed(t, {"client"}).leaked = t.leaked
      BY FreedStream DEF JackConnected
    <3> QED
      BY <3>1 DEF JackConnected, JackFailed, Same
  <2>2. /\ Failure(JackForgotten(t)) \in Outcomes(JackConnected(v), JackFailed)
        /\ Failure(Freed(t, {"client"})) \in Outcomes(JackConnected(v), JackFailed)
        /\ Success(t) \in Outcomes(JackConnected(v), JackFailed)
    BY <1>0, <1>2, <2>1, OutcomeOf
  <2> QED
    BY <2>2 DEF JackParameters
<1>4. \A r \in Parameters : r \in Outcomes(JackConnected(v), JackFailed)
  BY <1>1, <1>3 DEF Then, Outcomes
<1>5. \A t \in JackConnected(v) : \A r \in JackSetUp(t, m) : r \in Outcomes(JackAfter(m), JackFailed)
  <2> SUFFICES ASSUME NEW t \in JackConnected(v)
               PROVE \A r \in JackSetUp(t, m) : r \in Outcomes(JackAfter(m), JackFailed)
    OBVIOUS
  <2> DEFINE h == Got(t, {"handle"})
  <2>1. /\ Same(h, t) /\ h.owned = t.owned \cup {"handle"} /\ h.leaked = t.leaked
    BY Names, GotStream DEF JackConnected
  <2> HIDE DEF h
  <2>2. ASSUME NEW u \in StreamType, Same(u, t), u.owned \subseteq JackHeld, u.leaked \subseteq {"client"}
        PROVE Freed(u, UserBuffers \cup {"handle", "client", "deviceBuffer"}) \in JackFailed
    <3> DEFINE all == UserBuffers \cup {"handle", "client", "deviceBuffer"}
    <3>1. all = JackHeld
      BY DEF JackHeld, JackMemory
    <3>2. /\ Same(Freed(u, all), u) /\ Freed(u, all).owned = u.owned \ all
          /\ Freed(u, all).leaked = u.leaked
      BY <2>2, FreedStream
    <3> HIDE DEF all
    <3>3. Freed(u, all) \in JackFailed
      BY <2>2, <3>1, <3>2 DEF JackFailed, JackConnected, Same
    <3> QED
      BY <3>3 DEF all
  <2>3. JackError(t) \in Outcomes(JackAfter(m), JackFailed)
    <3>1. Freed(JackForgotten(t), UserBuffers \cup {"handle", "client", "deviceBuffer"}) \in JackFailed
      BY <1>2, <2>2 DEF Same
    <3> QED
      BY <1>0, <3>1, OutcomeOf DEF JackError
  <2>4. JackError(h) \in Outcomes(JackAfter(m), JackFailed)
    <3>1. JackForgotten(h) = h
      BY <2>1 DEF JackForgotten
    <3>2. Same(h, t) /\ h.owned \subseteq JackHeld /\ h.leaked \subseteq {"client"} /\ h \in StreamType
      BY <2>1 DEF Same, JackConnected, JackHeld, JackMemory
    <3>3. Freed(h, UserBuffers \cup {"handle", "client", "deviceBuffer"}) \in JackFailed
      BY <2>2, <3>2
    <3> QED
      BY <1>0, <3>1, <3>3, OutcomeOf DEF JackError
  <2>5. ASSUME NEW b \in WithBuffers(h, m)
        PROVE Success(Opened(b, m)) \in Outcomes(JackAfter(m), JackFailed)
    <3>1. /\ Same(b, h) /\ b.leaked = h.leaked
          /\ h.owned \subseteq b.owned /\ b.owned \subseteq h.owned \cup {UserBuffer(m), "deviceBuffer"}
      BY <2>1, BufferedStream DEF Same
    <3>2. /\ Opened(b, m) \in StreamType /\ Opened(b, m).state = "STOPPED"
          /\ Opened(b, m).mode = NewMode(b, m)
          /\ Opened(b, m).owned = b.owned /\ Opened(b, m).leaked = b.leaked
      BY <3>1, OpenedStream DEF Same
    <3>3. m = "OUTPUT" => NewMode(b, m) = "OUTPUT"
      BY DEF NewMode
    <3>4. Opened(b, m) \in JackAfter(m)
      BY <2>1, <3>1, <3>2, <3>3, Names DEF JackAfter, JackConnected, JackHeld, JackMemory
    <3> QED
      BY <1>0, <3>4, OutcomeOf
  <2>6. ASSUME NEW r \in JackSetUp(t, m)
        PROVE \/ r = JackError(t) \/ r = JackError(h)
              \/ \E b \in WithBuffers(h, m) : r = Success(Opened(b, m))
    BY DEF JackSetUp, h
  <2> QED
    BY <2>3, <2>4, <2>5, <2>6
<1> HIDE DEF Parameters
<1>6. JackProbe(s, m) = Then(Parameters, LAMBDA t : JackSetUp(t, m))
  BY DEF JackProbe, Parameters, Client
<1> QED
  BY <1>4, <1>5, <1>6 DEF Then, Outcomes

\* The invariant of RtApiJack: one thread frees the memory, be it the application's or the one
\* started by jackShutdown(), and the client is closed then; no callback runs, then and
\* after jack_deactivate() in stopStream().
JackInv ==
  /\ CountInv
  /\ pc["audio"] \in {"none", "callback", "returned", "io"}
  /\ pc["helper"] \notin {"abort", "aborting"}
  /\ stream_.state = "RUNNING" \/ pc["audio"] # "none" => "handle" \in stream_.owned
  /\ "handle" \in stream_.owned => stream_.state # "CLOSED"
  /\ \A t \in {"user", "helper"} :
       pc[t] = "free" => /\ pc["audio"] = "none" /\ device.running = {}
                         /\ "handle" \in stream_.owned /\ "client" \notin stream_.owned
  /\ ~(pc["user"] = "free" /\ pc["helper"] = "free")
  /\ pc["user"] = "halted" => pc["audio"] = "none" /\ device.running = {}
  /\ hist.late >= 0 => hist.late = 0 /\ pc["audio"] = "none" /\ stream_.state # "RUNNING"
  /\ hist.self =>
       /\ pc["audio"] # "callback"
       /\ pc["audio"] # "returned" /\ handle.drainCounter >= 3 => ~hist.unplayed
       /\ pc["helper"] \notin {"none", "close", "free"}
            => handle.drainCounter >= 3 /\ pc["audio"] # "returned"
  /\ hist.unheard = {}
  /\ stream_.leaked \subseteq {"client"}
  /\ stream_.owned \subseteq JackHeld
  /\ stream_.state = "CLOSED" => stream_.owned \subseteq {"client"}
  /\ hist.opened /\ "handle" \in stream_.owned /\ pc["user"] # "free" /\ pc["helper"] # "free"
       => "client" \in stream_.owned

\* openStream() of RtApiJack keeps its invariant.
LEMMA JackOpens ==
  ASSUME TypeInv, JackInv, OpenStream(Single(JackProbe), Second(JackProbe))
  PROVE TypeInv' /\ JackInv' /\ Lasting
<1> DEFINE good == JackAfter("OUTPUT") \cup JackAfter("INPUT")
<1>1. /\ good \in SUBSET StreamType /\ JackFailed \in SUBSET StreamType
      /\ \A s \in good : s.state = "STOPPED"
      /\ \A s \in JackAfter("OUTPUT") : s \in JackOpening("STOPPED")
  BY DEF JackAfter, JackOpening, JackFailed
<1>2. Cleared(stream_) \in JackOpening("CLOSED")
  <2>1. stream_.state = "CLOSED"
    BY DEF OpenStream
  <2> QED
    BY <2>1, ClearedStream DEF JackOpening, TypeInv, JackInv
<1>3. \A m \in {"OUTPUT", "INPUT"} : \A r :
        r \in Outcomes(JackAfter(m), JackFailed) => r \in Outcomes(good, JackFailed)
  BY DEF Outcomes
<1>4. \A m \in {"OUTPUT", "INPUT"} : \A r \in JackProbe(Cleared(stream_), m) :
        r \in Outcomes(JackAfter(m), JackFailed)
  BY <1>2, JackProbeOutcomes
<1>5. \A r \in Single(JackProbe) : r \in Outcomes(good, JackFailed)
  BY <1>3, <1>4 DEF Single
<1>6. \A r \in Second(JackProbe) : r \in Outcomes(good, JackFailed)
  <2>1. \A q \in JackProbe(Cleared(stream_), "OUTPUT") : q.ok => q.s \in JackOpening("STOPPED")
    <3>1. JackAfter("OUTPUT") \in SUBSET StreamType
      BY DEF JackAfter
    <3> QED
      BY <1>1, <1>4, <3>1, OutcomeOf
  <2>2. \A s \in JackOpening("STOPPED") : \A r \in JackProbe(s, "INPUT") :
          r \in Outcomes(JackAfter("INPUT"), JackFailed)
    BY JackProbeOutcomes
  <2> QED
    BY <1>3, <2>1, <2>2 DEF Second
<1>7. \A s \in good : /\ {"client", "handle"} \subseteq s.owned /\ s.owned \subseteq JackHeld
                      /\ s.leaked \subseteq {"client"} /\ "thread" \notin s.owned
  BY DEF JackAfter, JackHeld, JackMemory, UserBuffers
<1>8. \A s \in JackFailed : "thread" \notin s.owned
  BY DEF JackFailed, JackHeld, JackMemory, UserBuffers
<1> HIDE DEF good
<1>9. TypeInv' /\ Lasting /\ OpenedInto(good, JackFailed, JackFailed)
  BY <1>1, <1>5, <1>6, OpensInto
<1>10. pc["helper"] # "free"
  BY DEF OpenStream, JackInv
<1> QED
  BY <1>1, <1>7, <1>8, <1>9, <1>10 DEF OpenedInto, JackFailed, JackInv, CountInv

\* The application's calls keep it.
LEMMA JackCalls ==
  ASSUME TypeInv, JackInv, Calls
  PROVE TypeInv' /\ JackInv' /\ Lasting
<1>1. TypeInv' /\ Lasting
  BY CallsTyped
<1> USE DEF JackInv, CountInv, At, Goto
<1>2. CASE StartCall
  BY <1>1, <1>2, MeddledHist DEF StartCall, StreamOpen, TypeInv, Threads
<1>3. CASE StopCall
  BY <1>1, <1>3, MeddledHist DEF StopCall, StreamOpen, TypeInv, Threads
<1>4. CASE CloseCall
  BY <1>1, <1>4, MeddledHist DEF CloseCall, StreamOpen, TypeInv, Threads
<1>5. ASSUME NEW t \in Threads, StopCheck(t)
      PROVE JackInv'
  BY <1>5 DEF StopCheck, Throw, Return, Resume, TypeInv, Threads
<1> QED
  BY <1>1, <1>2, <1>3, <1>4, <1>5 DEF Calls

\* Every step of a stream on RtApiJack keeps its invariant.
LEMMA JackPreserved ==
  ASSUME TypeInv, JackInv, api = "JACK", JackNext \/ Calls
  PROVE TypeInv' /\ JackInv' /\ Lasting
<1> USE DEF At, Goto, Threads, PcLabels
<1>0. CountInv
  BY DEF JackInv
<1>16. "thread" \notin stream_.owned
  BY DEF JackInv, JackHeld, JackMemory, UserBuffers
<1>1. CASE JackStart
  <2>1. /\ device' \in DeviceType
        /\ {"handle", "client"} \subseteq stream_.owned
    BY <1>1 DEF JackStart, DriverStarted, DriverRefused, TypeInv, DeviceType, Devices
  <2>2. /\ pc["user"] = "start"
        /\ pc' \in {[pc EXCEPT !["user"] = "started"], [pc EXCEPT !["user"] = "idle"]}
        /\ UNCHANGED <<api, stream_, handle, doStopStream, process, opens, starts, hist>>
    BY <1>1 DEF JackStart, DriverStarted, DriverRefused, Return, Resume
  <2>3. pc["helper"] # "free"
    BY <2>1 DEF JackInv
  <2> QED
    BY <2>1, <2>2, <2>3 DEF TypeInv, Lasting, JackInv, CountInv
<1>2. CASE JackRun
  <2>1. "handle" \in stream_.owned
    BY <1>2 DEF JackRun, Run, HasHandle
  <2>2. stream_.state # "CLOSED"
    BY <2>1 DEF JackInv
  <2> QED
    BY <1>0, <1>2, <2>1, <2>2, RunStep DEF JackRun, TypeInv, JackInv
<1>3. ASSUME NEW t \in {"user", "helper"}, JackDrain(t)
      PROVE TypeInv' /\ JackInv' /\ Lasting
  <2> DEFINE silent == IF HasHandle THEN "halt" ELSE "dangling"
  <2>1. silent \in {"halt", "dangling"} /\ Drain(t, silent)
    BY <1>3 DEF JackDrain
  <2> HIDE DEF silent
  <2>2. handle.drainCounter \in 0 .. 5
    BY DEF TypeInv, HandleType
  <2> QED
    BY <1>0, <2>1, <2>2, DrainStep DEF TypeInv, JackInv, CountInv
<1>4. ASSUME NEW t \in {"user", "helper"}, JackWait(t)
      PROVE TypeInv' /\ JackInv' /\ Lasting
  BY <1>0, <1>4, WaitStep DEF JackWait, TypeInv, JackInv
<1>5. ASSUME NEW t \in {"user", "helper"}, JackHalt(t)
      PROVE TypeInv' /\ JackInv' /\ Lasting
  <2>1. /\ device' \in DeviceType /\ device'.running = {} /\ device'.alive = device.alive
    BY <1>5 DEF JackHalt, TypeInv, DeviceType
  <2>2. /\ pc[t] = "halt" /\ pc["audio"] = "none" /\ pc' = [pc EXCEPT ![t] = "halted"]
        /\ UNCHANGED <<api, stream_, handle, doStopStream, process, opens, starts>>
    BY <1>5 DEF JackHalt, NoCallback
  <2>3. /\ hist' \in HistType /\ Keeps(hist', hist) /\ ~hist'.unplayed
        /\ hist'.late = hist.late
        /\ (hist.self /\ hist.unplayed) \/ hist'.unheard = hist.unheard
    <3> DEFINE d == FALSE
    <3>1. d \in BOOLEAN /\ ~d
      OBVIOUS
    <3>2. hist' = Silenced(hist, d)
      BY <1>5 DEF JackHalt
    <3> HIDE DEF d
    <3> QED
      BY <3>1, <3>2, SilencedHist DEF TypeInv
  <2>4. ~(hist.self /\ hist.unplayed)
    BY <2>2 DEF JackInv, CountInv
  <2>5. TypeInv' /\ Lasting
    BY <2>1, <2>2, <2>3 DEF TypeInv, Lasting
  <2>6. CountInv'
    BY <1>0, <2>2, <2>3 DEF TypeInv, CountInv, Keeps
  <2> QED
    BY <2>1, <2>2, <2>3, <2>4, <2>5, <2>6 DEF TypeInv, JackInv, Keeps
<1>15. ASSUME NEW t \in {"user", "helper"}, JackStopped(t)
       PROVE TypeInv' /\ JackInv' /\ Lasting
  BY <1>0, <1>16, <1>15, StoppedStep DEF JackStopped, Keeps, Late, TypeInv, JackInv, CountInv
<1>17. ASSUME NEW t \in {"user", "helper"}, JackClosedClient(t)
       PROVE TypeInv' /\ JackInv' /\ Lasting
  BY <1>17 DEF JackClosedClient, TypeInv, Lasting, JackInv, CountInv
<1>6. CASE JackAbort("user")
  BY <1>0, <1>6, AbortStep DEF JackAbort, TypeInv, JackInv, CountInv
<1>7. ASSUME NEW t \in {"user", "helper"}, JackCloseClient(t)
      PROVE TypeInv' /\ JackInv' /\ Lasting
  <2>1. CASE stream_.state = "CLOSED"
    <3>1. /\ pc[t] = "close" /\ pc["audio"] = "none"
          /\ pc' = [pc EXCEPT ![t] = IF t = "user" THEN "idle" ELSE "none"]
          /\ UNCHANGED <<api, stream_, device, handle, doStopStream, process, opens, starts, hist>>
      BY <1>7, <1>16, <2>1 DEF JackCloseClient, StreamOpen, NoCallback, Return, Resume
    <3> QED
      BY <2>1, <3>1 DEF TypeInv, Lasting, JackInv, CountInv
  <2>2. CASE stream_.state # "CLOSED"
    <3>1. /\ Same(stream_', stream_) /\ stream_'.owned = stream_.owned \ {"client"}
          /\ stream_'.leaked = stream_.leaked
          /\ {"handle", "client"} \subseteq stream_.owned
      BY <1>7, <2>2, FreedStream DEF JackCloseClient, StreamOpen, TypeInv
    <3>2. /\ pc[t] = "close" /\ pc["audio"] = "none" /\ pc' = [pc EXCEPT ![t] = "free"]
          /\ device' \in DeviceType /\ device'.running = {} /\ device'.alive = device.alive
          /\ UNCHANGED <<api, handle, doStopStream, process, opens, starts, hist>>
      BY <1>7, <2>2 DEF JackCloseClient, StreamOpen, NoCallback, TypeInv, DeviceType
    <3>3. TypeInv' /\ Lasting /\ CountInv'
      BY <1>0, <2>2, <3>1, <3>2 DEF TypeInv, Lasting, CountInv, Same
    <3> QED
      BY <2>2, <3>1, <3>2, <3>3 DEF TypeInv, JackInv, Same
  <2> QED
    BY <2>1, <2>2
<1>8. ASSUME NEW t \in {"user", "helper"}, JackCloseFree(t)
      PROVE TypeInv' /\ JackInv' /\ Lasting
  <2>1. /\ stream_' \in StreamType
        /\ stream_'.state = "CLOSED" /\ stream_'.mode = "UNINITIALIZED"
        /\ stream_'.owned = stream_.owned \ JackMemory /\ stream_'.leaked = stream_.leaked
    BY <1>8 DEF JackCloseFree, JackMemory, Freed, TypeInv, StreamType, StreamStates, Modes
  <2>2. /\ pc[t] = "free" \/ (pc[t] = "close" /\ "handle" \notin stream_.owned)
        /\ UNCHANGED <<api, handle, device, doStopStream, process, opens, starts, hist>>
    BY <1>8 DEF JackCloseFree, HasHandle
  <2>3. pc' = [[u \in Threads |-> IF pc[u] \in {"started", "wait", "waiting", "halt"}
                                  THEN "dangling" ELSE pc[u]]
                 EXCEPT ![t] = IF t = "user" THEN "idle" ELSE "none"]
    BY <1>8, <1>16 DEF JackCloseFree, Deleted, Resume
  <2>4. /\ pc["audio"] = "none" /\ pc'["audio"] = "none"
        /\ pc' \in [Threads -> PcLabels]
        /\ pc'[t] = IF t = "user" THEN "idle" ELSE "none"
        /\ \A u \in {"user", "helper"} \ {t} : pc'[u] \in {pc[u], "dangling"} /\ pc[u] # "free"
        /\ \A u \in {"user", "helper"} \ {t} : pc[u] \in {"none", "idle", "close"} => pc'[u] = pc[u]
    BY <2>2, <2>3 DEF TypeInv, JackInv
  <2>5. TypeInv' /\ Lasting /\ CountInv'
    BY <1>0, <2>1, <2>2, <2>4 DEF TypeInv, Lasting, CountInv
  <2>6. /\ stream_'.owned \subseteq {"client"} /\ stream_'.owned \subseteq JackHeld
        /\ "handle" \notin stream_'.owned
    BY <2>1 DEF JackInv, JackHeld, JackMemory
  <2>7. pc'["helper"] \notin {"none", "close", "free"} => pc["helper"] \notin {"none", "close", "free"}
    BY <2>2, <2>4 DEF TypeInv
  <2> QED
    BY <2>1, <2>2, <2>4, <2>5, <2>6, <2>7 DEF TypeInv, JackInv
<1>9. ASSUME NEW t \in {"user", "helper"}, Dangling(t, {"start", "aborting"})
      PROVE TypeInv' /\ JackInv' /\ Lasting
  BY <1>0, <1>9, DanglingStep DEF TypeInv, JackInv
<1>10. CASE JackEnter
  <2>1. handle.drainCounter \in 0 .. 5
    BY DEF TypeInv, HandleType
  <2> QED
    BY <1>0, <1>10, <2>1, EnterStep DEF JackEnter, TypeInv, JackInv, CountInv
<1>11. CASE JackShutdown
  <2>1. /\ device' \in DeviceType /\ device'.running = {} /\ ~device'.alive
    BY <1>11 DEF JackShutdown, DeviceType
  <2>2. /\ pc["audio"] = "none" /\ pc["helper"] = "none"
        /\ pc' = pc \/ pc' = [pc EXCEPT !["helper"] = "close"]
        /\ UNCHANGED <<api, stream_, handle, doStopStream, process, opens, starts, hist>>
    BY <1>11 DEF JackShutdown
  <2> QED
    BY <2>1, <2>2 DEF TypeInv, Lasting, JackInv, CountInv
<1>12. CASE JackCallback
  BY <1>0, <1>12, CountCalled DEF JackCallback, Called, TypeInv, HistType, JackInv, CountInv
<1>13. CASE JackReturned
  <2>1. doStopStream = 2 =>
          pc["helper"] = "none" /\ pc' = [pc EXCEPT !["audio"] = "none", !["helper"] = "stop"]
    BY <1>13 DEF JackReturned, Returned, AbortInThread
  <2>2. doStopStream \in 0 .. 2
    BY DEF TypeInv
  <2>3. stream_.state # "CLOSED"
    BY <1>13 DEF JackReturned, Returned, JackInv
  <2> QED
    BY <1>0, <1>13, <2>1, <2>2, <2>3, ReturnedStep DEF JackReturned, TypeInv, JackInv, CountInv
<1>14. CASE JackTransfer
  <2>1. handle.drainCounter \in 0 .. 5
    BY DEF TypeInv, HandleType
  <2> QED
    BY <1>0, <1>14, <2>1, TransferStep DEF JackTransfer, TypeInv, JackInv, CountInv, Keeps
<1> QED
  BY <1>1, <1>2, <1>3, <1>4, <1>5, <1>6, <1>7, <1>8, <1>9, <1>10, <1>11, <1>12, <1>13, <1>14,
     <1>15, <1>17, JackOpens, JackCalls DEF JackNext

-----------------------------------------------------------------------------
(* RtApiAsio.                                                              *)

\* What RtApiAsio releases as memory, and what a stream may own; streams before a probe, with
\* the driver loaded, after it, and after its failure.
AsioMemory == UserBuffers \cup {"handle", "deviceBuffer"}
AsioHeld == AsioMemory \cup {"device0", "driver"}
AsioOpening(v) ==
  {s \in StreamType : /\ s.state = v /\ s.leaked \subseteq {"driver"} /\ s.owned \subseteq AsioHeld
                      /\ v = "CLOSED" => s.owned = {} /\ s.mode = "UNINITIALIZED"
                      /\ v = "STOPPED" => /\ {"handle", "driver", "device0"} \subseteq s.owned
                                          /\ s.mode = "OUTPUT"}
AsioLoaded(v) ==
  {s \in StreamType : /\ s.state = v /\ s.leaked \subseteq {"driver"} /\ s.owned \subseteq AsioHeld
                      /\ v = "CLOSED" => s.owned = {"driver"} /\ s.mode = "UNINITIALIZED"
                      /\ v = "STOPPED" => /\ {"handle", "driver", "device0"} \subseteq s.owned
                                          /\ s.mode = "OUTPUT"}
AsioAfter(m) ==
  {s \in StreamType : /\ s.state = "STOPPED" /\ s.leaked \subseteq {"driver"}
                      /\ {"handle", "driver", "device0"} \subseteq s.owned
                      /\ s.owned \subseteq AsioHeld
                      /\ m = "OUTPUT" => s.mode = "OUTPUT"}
AsioFailed(v) ==
  {s \in StreamType : /\ s.state \in {v, "STOPPED"} /\ s.leaked \subseteq {"driver"}
                      /\ s.owned \subseteq AsioHeld
                      /\ s.state = "CLOSED" => s.owned \subseteq {"driver"}
                      /\ "device0" \in s.owned => "handle" \in s.owned}

\* The label `error' of RtApiAsio::probeDeviceOpen(): nothing of a second direction's failure
\* is released here but its buffers, everything of a first one's.
LEMMA AsioErrorOutcome ==
  ASSUME NEW v \in {"CLOSED", "STOPPED"}, NEW m \in {"OUTPUT", "INPUT"}, NEW d,
         d <=> v = "STOPPED",
         NEW u \in StreamType, u.state \in {v, "STOPPED"},
         u.leaked \subseteq {"driver"}, u.owned \subseteq AsioHeld,
         IF d THEN "handle" \in u.owned ELSE u.owned \subseteq {"driver", "handle"}
  PROVE AsioError(u, m, d) \in Outcomes(AsioAfter(m), AsioFailed(v))
<1> DEFINE t == Freed(u, {UserBuffer(m), "deviceBuffer"})
           f == Freed(t, {"handle", "device0", "driver"})
<1>1. /\ Same(t, u) /\ t.owned = u.owned \ {UserBuffer(m), "deviceBuffer"} /\ t.leaked = u.leaked
  BY FreedStream
<1>2. t \in StreamType
  BY <1>1 DEF Same
<1>3. AsioError(u, m, d) = Failure(IF d THEN t ELSE f)
  BY DEF AsioError
<1>4. Same(f, t) /\ f.owned = t.owned \ {"handle", "device0", "driver"} /\ f.leaked = t.leaked
  BY <1>2, FreedStream
<1> HIDE DEF t, f
<1>5. d => t \in AsioFailed(v)
  BY <1>1, Names DEF AsioFailed, Same, UserBuffers
<1>6. ~d => f \in AsioFailed(v)
  BY <1>1, <1>4 DEF AsioFailed, Same
<1>7. AsioAfter(m) \in SUBSET StreamType /\ AsioFailed(v) \in SUBSET StreamType
  BY DEF AsioAfter, AsioFailed
<1> QED
  BY <1>3, <1>5, <1>6, <1>7, OutcomeOf

\* Every path through RtApiAsio::probeDeviceOpen() ends with handle, driver and its buffers,
\* or failed.
LEMMA AsioProbeOutcomes ==
  ASSUME NEW v \in {"CLOSED", "STOPPED"}, NEW s \in AsioOpening(v), NEW m \in {"OUTPUT", "INPUT"},
         v = "STOPPED" => m = "INPUT"
  PROVE \A r \in AsioProbe(s, m) : r \in Outcomes(AsioAfter(m), AsioFailed(v))
<1> DEFINE Load == AsioLoad(s, m)
           Parameters == Then(Load, LAMBDA t : AsioParameters(t, m))
<1>0. /\ AsioOpening(v) \in SUBSET StreamType /\ AsioLoaded(v) \in SUBSET StreamType
      /\ AsioAfter(m) \in SUBSET StreamType /\ AsioFailed(v) \in SUBSET StreamType
  BY DEF AsioOpening, AsioLoaded, AsioAfter, AsioFailed
<1>1. \A r \in Load : r \in Outcomes(AsioLoaded(v), AsioFailed(v))
  <2>1. s \in AsioFailed(v)
    BY DEF AsioOpening, AsioFailed
  <2>2. s.mode = "OUTPUT" => s \in AsioLoaded(v)
    BY DEF AsioOpening, AsioLoaded
  <2>3. ~(m = "INPUT" /\ s.mode = "OUTPUT") =>
          Got(s, {"driver"}) \in AsioLoaded(v) /\ Got(s, {"driver"}) \in AsioFailed(v)
    <3>1. /\ Same(Got(s, {"driver"}), s) /\ Got(s, {"driver"}).owned = s.owned \cup {"driver"}
          /\ Got(s, {"driver"}).leaked = s.leaked
      BY Names, GotStream DEF AsioOpening
    <3> QED
      BY <3>1 DEF AsioOpening, AsioLoaded, AsioFailed, AsioHeld, Same
  <2> QED
    BY <1>0, <2>1, <2>2, <2>3, OutcomeOf DEF AsioLoad
<1>2. \A t \in AsioLoaded(v) : \A r \in AsioParameters(t, m) : r \in Outcomes(AsioLoaded(v), AsioFailed(v))
  <2> SUFFICES ASSUME NEW t \in AsioLoaded(v)
               PROVE \A r \in AsioParameters(t, m) : r \in Outcomes(AsioLoaded(v), AsioFailed(v))
    OBVIOUS
  <2> DEFINE d == t.mode = "OUTPUT"
  <2>1. AsioError(t, m, d) \in Outcomes(AsioAfter(m), AsioFailed(v))
    <3>1. /\ d <=> v = "STOPPED"
          /\ t \in StreamType /\ t.state \in {v, "STOPPED"}
          /\ t.leaked \subseteq {"driver"} /\ t.owned \subseteq AsioHeld
          /\ IF d THEN "handle" \in t.owned ELSE t.owned \subseteq {"driver", "handle"}
      BY DEF AsioLoaded
    <3> HIDE DEF d
    <3> QED
      BY <3>1, AsioErrorOutcome
  <2>2. ~AsioError(t, m, d).ok
    BY DEF AsioError, Failure
  <2>3. AsioError(t, m, d) \in Outcomes(AsioLoaded(v), AsioFailed(v))
    <3> HIDE DEF d
    <3> QED
      BY <2>1, <2>2 DEF Outcomes
  <2>4. Success(t) \in Outcomes(AsioLoaded(v), AsioFailed(v))
    BY <1>0, OutcomeOf
  <2> QED
    BY <2>3, <2>4 DEF AsioParameters
<1>3. \A r \in Parameters : r \in Outcomes(AsioLoaded(v), AsioFailed(v))
  BY <1>1, <1>2 DEF Then, Outcomes
<1>4. \A t \in AsioLoaded(v) : \A r \in AsioSetUp(t, m) : r \in Outcomes(AsioAfter(m), AsioFailed(v))
  <2> SUFFICES ASSUME NEW t \in AsioLoaded(v)
               PROVE \A r \in AsioSetUp(t, m) : r \in Outcomes(AsioAfter(m), AsioFailed(v))
    OBVIOUS
  <2> DEFINE d == m = "INPUT" /\ t.mode = "OUTPUT"
             h == Freed(Got(t, {"handle"}), {"device0"})
             u == [h EXCEPT !.mode = NewMode(t, m)]
  <2>1. /\ d <=> v = "STOPPED"
        /\ t \in StreamType /\ t.state \in {v, "STOPPED"}
        /\ t.leaked \subseteq {"driver"} /\ t.owned \subseteq AsioHeld
        /\ IF d THEN "handle" \in t.owned ELSE t.owned \subseteq {"driver", "handle"}
        /\ "driver" \in t.owned
    BY DEF AsioLoaded
  <2>2. Same(Got(t, {"handle"}), t) /\ Got(t, {"handle"}).owned = t.owned \cup {"handle"}
        /\ Got(t, {"handle"}).leaked = t.leaked
    BY <2>1, Names, GotStream
  <2>3. /\ Same(h, t) /\ h.owned = (t.owned \cup {"handle"}) \ {"device0"} /\ h.leaked = t.leaked
    BY <2>2, FreedStream DEF Same
  <2>4. NewMode(t, m) \in Modes /\ (m = "OUTPUT" => NewMode(t, m) = "OUTPUT")
    BY DEF NewMode, Modes
  <2> HIDE DEF h
  <2>5. /\ u \in StreamType /\ u.state = t.state /\ u.mode = NewMode(t, m)
        /\ u.owned = (t.owned \cup {"handle"}) \ {"device0"} /\ u.leaked = t.leaked
    BY <2>3, <2>4 DEF Same, StreamType
  <2> HIDE DEF u
  <2>6. /\ u.state \in {v, "STOPPED"} /\ u.leaked \subseteq {"driver"} /\ u.owned \subseteq AsioHeld
        /\ IF d THEN "handle" \in u.owned ELSE u.owned \subseteq {"driver", "handle"}
        /\ {"handle", "driver"} \subseteq u.owned
    BY <2>1, <2>5 DEF AsioHeld, AsioMemory
  <2>7. /\ Opened(u, m) \in StreamType /\ Opened(u, m).state = "STOPPED"
        /\ Opened(u, m).owned = u.owned /\ Opened(u, m).leaked = u.leaked
    BY <2>5, OpenedStream
  <2>8. AsioSetUp(t, m) =
          {AsioError(t, m, d), AsioError(u, m, d), AsioError(Opened(u, m), m, d)}
          \cup {Success([Got(b, {"device0"}) EXCEPT !.state = "STOPPED"]) : b \in WithBuffers(u, m)}
    BY DEF AsioSetUp, u, h
  <2> HIDE DEF d
  <2>9. /\ AsioError(t, m, d) \in Outcomes(AsioAfter(m), AsioFailed(v))
        /\ AsioError(u, m, d) \in Outcomes(AsioAfter(m), AsioFailed(v))
        /\ AsioError(Opened(u, m), m, d) \in Outcomes(AsioAfter(m), AsioFailed(v))
    BY <2>1, <2>5, <2>6, <2>7, AsioErrorOutcome
  <2>10. ASSUME NEW b \in WithBuffers(u, m)
         PROVE Success([Got(b, {"device0"}) EXCEPT !.state = "STOPPED"])
                 \in Outcomes(AsioAfter(m), AsioFailed(v))
    <3>1. /\ Same(b, u) /\ b.leaked = u.leaked
          /\ u.owned \subseteq b.owned /\ b.owned \subseteq u.owned \cup {UserBuffer(m), "deviceBuffer"}
      BY <2>5, BufferedStream
    <3> DEFINE g == Got(b, {"device0"})
               w == [g EXCEPT !.state = "STOPPED"]
    <3>2. /\ Same(g, b) /\ g.leaked = b.leaked /\ g.owned = b.owned \cup {"device0"}
      BY <3>1, Names, GotStream DEF Same, Devices
    <3> HIDE DEF g
    <3>3. /\ w \in StreamType /\ w.state = "STOPPED" /\ w.mode = NewMode(t, m)
          /\ w.leaked = u.leaked /\ w.owned = b.owned \cup {"device0"}
      BY <2>5, <3>1, <3>2, StoppedStream DEF Same
    <3> HIDE DEF w
    <3>4. w \in AsioAfter(m)
      BY <2>4, <2>6, <3>1, <3>3, Names DEF AsioAfter, AsioHeld, AsioMemory
    <3>5. Success(w) \in Outcomes(AsioAfter(m), AsioFailed(v))
      BY <1>0, <3>4, OutcomeOf
    <3> QED
      BY <3>5 DEF w, g
  <2> QED
    BY <2>8, <2>9, <2>10
<1> HIDE DEF Parameters
<1>5. AsioProbe(s, m) = Then(Parameters, LAMBDA t : AsioSetUp(t, m))
  BY DEF AsioProbe, Parameters, Load
<1> QED
  BY <1>3, <1>4, <1>5 DEF Then, Outcomes

\* The invariant of RtApiAsio: the driver has buffers, and calls back, only while there is a
\* handle; once closeStream() removed it nobody is called; stopStream() has set the state
\* before it waits for the driver; and getDeviceInfo() takes or leaves the driver of a closed
\* stream only.
AsioInv ==
  /\ CountInv
  /\ pc["audio"] \in {"none", "callback", "returned", "io", "stop", "stopping", "wait", "halt",
                      "halting"}
  /\ pc["helper"] \notin {"abort", "aborting"}
  /\ stream_.state = "CLOSED" => pc["user"] = "idle"
  /\ stream_.state = "RUNNING" \/ pc["audio"] # "none" => "handle" \in stream_.owned
  /\ device.running # {} => "handle" \in stream_.owned
  /\ "device0" \in stream_.owned => "handle" \in stream_.owned
  /\ pc["user"] = "free" => /\ device.running = {} /\ pc["audio"] = "none"
                            /\ "device0" \notin stream_.owned /\ "driver" \notin stream_.owned
  /\ pc["user"] = "halting" => stream_.state # "RUNNING"
  /\ hist.late >= 0 => /\ hist.late = 0 /\ stream_.state # "RUNNING"
                       /\ pc["audio"] \notin {"callback", "returned", "io"}
  /\ hist.self =>
       /\ pc["audio"] \in {"none", "io", "returned"}
       /\ pc["audio"] # "returned" /\ handle.drainCounter >= 3 => ~hist.unplayed
       /\ pc["helper"] # "none" => handle.drainCounter >= 3 /\ pc["audio"] # "returned"
  /\ hist.unheard = {}
  /\ stream_.leaked \subseteq {"driver"}
  /\ stream_.owned \subseteq AsioHeld
  /\ stream_.state = "CLOSED" => stream_.owned \subseteq {"driver"}
  /\ hist.opened /\ "handle" \in stream_.owned /\ pc["user"] # "free"
       => {"device0", "driver"} \subseteq stream_.owned

\* openStream() of RtApiAsio keeps its invariant.
LEMMA AsioOpens ==
  ASSUME TypeInv, AsioInv, OpenStream(Single(AsioProbe), Second(AsioProbe))
  PROVE TypeInv' /\ AsioInv' /\ Lasting
<1> DEFINE good == AsioAfter("OUTPUT") \cup AsioAfter("INPUT")
<1>1. /\ good \in SUBSET StreamType
      /\ AsioFailed("CLOSED") \in SUBSET StreamType /\ AsioFailed("STOPPED") \in SUBSET StreamType
      /\ \A s \in good : s.state = "STOPPED"
      /\ \A s \in AsioAfter("OUTPUT") : s \in AsioOpening("STOPPED")
  BY DEF AsioAfter, AsioOpening, AsioFailed
<1>2. Cleared(stream_) \in AsioOpening("CLOSED")
  <2>1. stream_.state = "CLOSED"
    BY DEF OpenStream
  <2> QED
    BY <2>1, ClearedStream DEF AsioOpening, TypeInv, AsioInv
<1>3. \A m \in {"OUTPUT", "INPUT"} : \A v : \A r :
        r \in Outcomes(AsioAfter(m), AsioFailed(v)) => r \in Outcomes(good, AsioFailed(v))
  BY DEF Outcomes
<1>4. \A m \in {"OUTPUT", "INPUT"} : \A r \in AsioProbe(Cleared(stream_), m) :
        r \in Outcomes(AsioAfter(m), AsioFailed("CLOSED"))
  BY <1>2, AsioProbeOutcomes
<1>5. \A r \in Single(AsioProbe) : r \in Outcomes(good, AsioFailed("CLOSED"))
  BY <1>3, <1>4 DEF Single
<1>6. \A r \in Second(AsioProbe) : r \in Outcomes(good, AsioFailed("STOPPED"))
  <2>1. \A q \in AsioProbe(Cleared(stream_), "OUTPUT") : q.ok => q.s \in AsioOpening("STOPPED")
    <3>1. AsioAfter("OUTPUT") \in SUBSET StreamType
      BY DEF AsioAfter
    <3> QED
      BY <1>1, <1>4, <3>1, OutcomeOf
  <2>2. \A s \in AsioOpening("STOPPED") : \A r \in AsioProbe(s, "INPUT") :
          r \in Outcomes(AsioAfter("INPUT"), AsioFailed("STOPPED"))
    BY AsioProbeOutcomes
  <2> QED
    BY <1>3, <2>1, <2>2 DEF Second
<1>7. \A s \in good : /\ {"handle", "driver", "device0"} \subseteq s.owned
                      /\ s.owned \subseteq AsioHeld
                      /\ s.leaked \subseteq {"driver"} /\ "thread" \notin s.owned
  BY DEF AsioAfter, AsioHeld, AsioMemory, UserBuffers
<1>8. \A v : \A s \in AsioFailed(v) : "thread" \notin s.owned
  BY DEF AsioFailed, AsioHeld, AsioMemory, UserBuffers
<1> HIDE DEF good
<1>9. TypeInv' /\ Lasting /\ OpenedInto(good, AsioFailed("CLOSED"), AsioFailed("STOPPED"))
  BY <1>1, <1>5, <1>6, OpensInto
<1> QED
  BY <1>1, <1>7, <1>8, <1>9 DEF OpenedInto, AsioFailed, AsioInv, CountInv

\* The application's calls keep it.
LEMMA AsioCalls ==
  ASSUME TypeInv, AsioInv, Calls
  PROVE TypeInv' /\ AsioInv' /\ Lasting
<1>1. TypeInv' /\ Lasting
  BY CallsTyped
<1> USE DEF AsioInv, CountInv, At, Goto
<1>2. CASE StartCall
  BY <1>1, <1>2, MeddledHist DEF StartCall, StreamOpen, TypeInv, Threads
<1>3. CASE StopCall
  BY <1>1, <1>3, MeddledHist DEF StopCall, StreamOpen, TypeInv, Threads
<1>4. CASE CloseCall
  BY <1>1, <1>4, MeddledHist DEF CloseCall, StreamOpen, TypeInv, Threads
<1>5. ASSUME NEW t \in Threads, StopCheck(t)
      PROVE AsioInv'
  <2>1. "thread" \notin stream_.owned
    BY DEF AsioHeld, AsioMemory, UserBuffers
  <2>2. pc \in [Threads -> PcLabels]
    BY DEF TypeInv
  <2>3. /\ pc[t] = "stop" \/ pc[t] = "abort"
        /\ \/ pc' = [pc EXCEPT ![t] = IF t = "user" THEN "idle" ELSE "none"]
           \/ /\ stream_.state # "CLOSED"
              /\ pc' = [pc EXCEPT ![t] = IF pc[t] = "stop" THEN "stopping" ELSE "aborting"]
        /\ UNCHANGED <<stream_, handle, device, doStopStream, hist>>
    BY <1>5, <2>1 DEF StopCheck, Throw, Return, Resume
  <2>4. CountInv'
    BY <2>2, <2>3 DEF Threads
  <2> QED
    BY <2>2, <2>3, <2>4 DEF Threads
<1> QED
  BY <1>1, <1>2, <1>3, <1>4, <1>5 DEF Calls

\* Every step of a stream on RtApiAsio keeps its invariant.
LEMMA AsioPreserved ==
  ASSUME TypeInv, AsioInv, api = "ASIO", AsioNext \/ Calls
  PROVE TypeInv' /\ AsioInv' /\ Lasting
<1> USE DEF At, Goto, Threads, PcLabels
<1>0. CountInv
  BY DEF AsioInv
<1>1. "thread" \notin stream_.owned
  BY DEF AsioInv, AsioHeld, AsioMemory, UserBuffers
<1>2. CASE GetDeviceInfo(AsioInfo(stream_))
  <2>1. PICK a \in AsioInfo(stream_) :
           stream_' = a.s /\ process' = IF a.defined THEN process ELSE "undefined"
    BY <1>2 DEF GetDeviceInfo
  <2>2. /\ pc["user"] = "idle"
        /\ UNCHANGED <<api, handle, device, pc, doStopStream, opens, starts, hist>>
    BY <1>2 DEF GetDeviceInfo
  <2>3. /\ Same(stream_', stream_) /\ stream_'.leaked = stream_.leaked
        /\ \/ stream_'.owned = stream_.owned
           \/ /\ stream_.state = "CLOSED"
              /\ stream_'.owned \in {stream_.owned \cup {"driver"}, stream_.owned \ {"driver"}}
    BY <2>1, Names, GotStream, FreedStream DEF AsioInfo, Answer, Same, TypeInv
  <2>4. process' \in {"running", "aborted", "undefined"}
    BY <2>1 DEF TypeInv
  <2>5. TypeInv' /\ Lasting /\ CountInv'
    BY <1>0, <2>2, <2>3, <2>4 DEF TypeInv, Lasting, CountInv, Same
  <2>6. stream_'.owned \subseteq AsioHeld
    BY <2>3 DEF AsioInv, AsioHeld
  <2> QED
    BY <2>2, <2>3, <2>5, <2>6 DEF AsioInv, Same
<1>3. CASE AsioStart
  <2>1. /\ device' \in DeviceType
        /\ device'.running = device.running \/ "device0" \in stream_.owned
    BY <1>3 DEF AsioStart, DriverStarted, DriverRefused, TypeInv, DeviceType, Devices
  <2>2. /\ pc["user"] = "start"
        /\ pc' \in {[pc EXCEPT !["user"] = "started"], [pc EXCEPT !["user"] = "idle"]}
        /\ UNCHANGED <<api, stream_, handle, doStopStream, process, opens, starts, hist>>
    BY <1>3 DEF AsioStart, DriverStarted, DriverRefused, Return, Resume
  <2>3. stream_.state # "CLOSED"
    BY <2>2 DEF AsioInv
  <2> QED
    BY <2>1, <2>2, <2>3 DEF TypeInv, Lasting, AsioInv, CountInv
<1>4. CASE AsioRun
  <2>1. "handle" \in stream_.owned
    BY <1>4 DEF AsioRun, Run, HasHandle
  <2>2. stream_.state # "CLOSED"
    BY <1>4 DEF AsioRun, Run, AsioInv
  <2> QED
    BY <1>0, <1>4, <2>1, <2>2, RunStep DEF AsioRun, TypeInv, AsioInv
<1>5. ASSUME NEW t \in Threads, AsioDrain(t)
      PROVE TypeInv' /\ AsioInv' /\ Lasting
  <2>1. handle.drainCounter \in 0 .. 5
    BY DEF TypeInv, HandleType
  <2> QED
    BY <1>0, <1>5, <2>1, DrainStep DEF AsioDrain, TypeInv, AsioInv, CountInv
<1>6. ASSUME NEW t \in Threads, AsioWait(t)
      PROVE TypeInv' /\ AsioInv' /\ Lasting
  <2>1. pc' = [pc EXCEPT ![t] = "halt"]
    BY <1>6 DEF AsioWait, EventWait
  <2> QED
    BY <1>0, <1>6, <2>1, WaitStep DEF AsioWait, TypeInv, AsioInv
<1>7. ASSUME NEW t \in Threads, AsioMark(t)
      PROVE TypeInv' /\ AsioInv' /\ Lasting
  <2>1. /\ pc[t] = "halt" /\ pc' = [pc EXCEPT ![t] = "halting"]
        /\ UNCHANGED <<api, handle, device, doStopStream, process, opens, starts, hist>>
    BY <1>7 DEF AsioMark
  <2>2. /\ stream_' \in StreamType
        /\ stream_'.state = "STOPPED" /\ stream_'.mode = stream_.mode
        /\ stream_'.owned = stream_.owned /\ stream_'.leaked = stream_.leaked
    BY <1>7 DEF AsioMark, TypeInv, StreamType, StreamStates
  <2>3. TypeInv' /\ Lasting /\ CountInv'
    BY <1>0, <2>1, <2>2 DEF Late, TypeInv, Lasting, CountInv
  <2> QED
    BY <2>1, <2>2, <2>3 DEF TypeInv, AsioInv
<1>8. ASSUME NEW t \in Threads, AsioHalt(t)
      PROVE TypeInv' /\ AsioInv' /\ Lasting
  <2>1. device' \in DeviceType /\ device'.running \subseteq device.running
    BY <1>8 DEF AsioHalt, TypeInv, DeviceType
  <2>2. /\ pc[t] = "halting" /\ (t = "audio" \/ pc["audio"] = "none")
        /\ pc' = [pc EXCEPT ![t] = IF t = "user" THEN "idle" ELSE "none"]
        /\ process' \in {"running", "aborted", "undefined"}
        /\ UNCHANGED <<api, stream_, handle, doStopStream, opens, starts>>
    BY <1>1, <1>8 DEF AsioHalt, NoCallback, Return, Throw, Resume, TypeInv
  <2>3. /\ hist' \in HistType /\ Keeps(hist', hist) /\ ~hist'.unplayed
        /\ hist'.late = IF t = "user" THEN 0 ELSE hist.late
        /\ (hist.self /\ hist.unplayed) \/ hist'.unheard = hist.unheard
    <3> DEFINE d == FALSE
    <3>1. d \in BOOLEAN /\ ~d
      OBVIOUS
    <3>2. hist' = StopReturned(t, Silenced(hist, d))
      BY <1>8 DEF AsioHalt
    <3> HIDE DEF d
    <3> QED
      BY <3>1, <3>2, HaltedHist
  <2>4. ~(hist.self /\ hist.unplayed)
    BY <2>2 DEF AsioInv, CountInv
  <2>5. TypeInv' /\ Lasting
    BY <2>1, <2>2, <2>3 DEF TypeInv, Lasting
  <2>6. CountInv'
    BY <1>0, <2>2, <2>3 DEF TypeInv, CountInv, Keeps
  <2> QED
    BY <2>1, <2>2, <2>3, <2>4, <2>5, <2>6 DEF TypeInv, DeviceType, AsioInv, Keeps
<1>9. CASE AsioAbort("user")
  BY <1>9 DEF AsioAbort, TypeInv, Lasting, AsioInv, CountInv
<1>10. CASE Dangling("helper", {})
  BY <1>0, <1>10, DanglingStep DEF TypeInv, AsioInv
<1>11. CASE AsioCloseDriver
  <2>1. /\ stream_' \in StreamType
        /\ stream_'.state = IF stream_.state = "RUNNING" THEN "STOPPED" ELSE stream_.state
        /\ stream_'.mode = stream_.mode /\ stream_'.leaked = stream_.leaked
        /\ stream_'.owned = stream_.owned \ {"device0", "driver"}
    BY <1>11 DEF AsioCloseDriver, Freed, TypeInv, StreamType, StreamStates
  <2>2. /\ pc["user"] = "close" /\ pc["audio"] = "none" /\ pc' = [pc EXCEPT !["user"] = "free"]
        /\ device' = InitDevice
        /\ UNCHANGED <<api, handle, doStopStream, process, opens, starts, hist>>
    BY <1>11 DEF AsioCloseDriver, NoCallback
  <2>3. device' \in DeviceType /\ device'.running = {}
    BY <2>2, InitialDevice
  <2>4. stream_.state # "CLOSED"
    BY <2>2 DEF AsioInv
  <2>5. TypeInv' /\ Lasting /\ CountInv'
    BY <1>0, <2>1, <2>2, <2>3, <2>4 DEF TypeInv, Lasting, CountInv
  <2> QED
    BY <2>1, <2>2, <2>3, <2>4, <2>5 DEF TypeInv, AsioInv
<1>12. CASE AsioCloseFree
  <2>1. /\ stream_' \in StreamType
        /\ stream_'.state = "CLOSED" /\ stream_'.mode = "UNINITIALIZED"
        /\ stream_'.owned = stream_.owned \ AsioMemory /\ stream_'.leaked = stream_.leaked
    BY <1>12 DEF AsioCloseFree, AsioMemory, Freed, TypeInv, StreamType, StreamStates, Modes
  <2>2. /\ pc["user"] = "free"
        /\ UNCHANGED <<api, handle, device, doStopStream, process, opens, starts, hist>>
    BY <1>12 DEF AsioCloseFree
  <2>3. pc' = [[u \in Threads |-> IF pc[u] \in {"wait"} THEN "dangling" ELSE pc[u]]
                 EXCEPT !["user"] = "idle"]
    BY <1>12 DEF AsioCloseFree, Deleted
  <2>4. /\ pc' \in [Threads -> PcLabels] /\ pc'["user"] = "idle" /\ pc'["audio"] = "none"
        /\ pc'["helper"] = pc["helper"] \/ (pc["helper"] = "wait" /\ pc'["helper"] = "dangling")
    BY <2>2, <2>3 DEF TypeInv, AsioInv
  <2>5. TypeInv' /\ Lasting /\ CountInv'
    BY <1>0, <2>1, <2>2, <2>4 DEF TypeInv, Lasting, CountInv, AsioInv
  <2>6. /\ stream_'.owned \subseteq {"driver"} /\ stream_'.owned \subseteq AsioHeld
        /\ "handle" \notin stream_'.owned
    BY <2>1, <2>2 DEF AsioInv, AsioHeld, AsioMemory
  <2> QED
    BY <2>1, <2>2, <2>4, <2>5, <2>6 DEF TypeInv, AsioInv
<1>13. CASE AsioSampleRateChanged
  <2>1. /\ hist' \in HistType /\ ~hist'.self /\ hist'.late = hist.late
        /\ hist'.unheard = hist.unheard
        /\ hist'.ended <=> hist.ended
        /\ hist'.opened <=> hist.opened
    BY <1>13, MeddledHist DEF AsioSampleRateChanged
  <2>2. /\ pc["audio"] = "none" /\ "device0" \in device.running
        /\ pc' = [pc EXCEPT !["audio"] = "stop"]
        /\ UNCHANGED <<api, stream_, handle, device, doStopStream, process, opens, starts>>
    BY <1>13 DEF AsioSampleRateChanged
  <2> QED
    BY <2>1, <2>2 DEF TypeInv, Lasting, AsioInv, CountInv
<1>14. CASE AsioEnter
  <2>1. handle.drainCounter \in 0 .. 5
    BY DEF TypeInv, HandleType
  <2> QED
    BY <1>0, <1>14, <2>1, EnterStep DEF AsioEnter, TypeInv, AsioInv, CountInv
<1>15. CASE AsioCallback
  BY <1>0, <1>15, CountCalled DEF AsioCallback, Called, TypeInv, HistType, AsioInv, CountInv
<1>16. CASE AsioReturned
  <2>1. doStopStream = 2 =>
          pc["helper"] = "none" /\ pc' = [pc EXCEPT !["audio"] = "none", !["helper"] = "stop"]
    BY <1>16 DEF AsioReturned, Returned, AbortInThread
  <2>2. doStopStream \in 0 .. 2
    BY DEF TypeInv
  <2>3. stream_.state # "CLOSED"
    BY <1>16 DEF AsioReturned, Returned, AsioInv
  <2> QED
    BY <1>0, <1>16, <2>1, <2>2, <2>3, ReturnedStep DEF AsioReturned, TypeInv, AsioInv, CountInv
<1>17. CASE AsioTransfer
  <2>1. handle.drainCounter \in 0 .. 5
    BY DEF TypeInv, HandleType
  <2> QED
    BY <1>0, <1>17, <2>1, TransferStep DEF AsioTransfer, TypeInv, AsioInv, CountInv, Keeps
<1> QED
  BY <1>2, <1>3, <1>4, <1>5, <1>6, <1>7, <1>8, <1>9, <1>10, <1>11, <1>12, <1>13, <1>14, <1>15,
     <1>16, <1>17, AsioOpens, AsioCalls DEF AsioNext

-----------------------------------------------------------------------------
(* Every backend.                                                          *)

\* The inductive invariant: that of the backend in use.
IInv ==
  /\ TypeInv
  /\ api = "ALSA" => AlsaInv
  /\ api = "PULSE" => PulseInv
  /\ api = "OSS" => OssInv
  /\ api = "DS" => DsInv
  /\ api = "WASAPI" => WasapiInv
  /\ api = "CORE" => CoreInv
  /\ api = "JACK" => JackInv
  /\ api = "ASIO" => AsioInv

\* The backend in use is one the code has.
LEMMA BackendNames ==
  TypeInv => api \in {"ALSA", "PULSE", "OSS", "DS", "WASAPI", "CORE", "JACK", "ASIO"}
BY RtAudioAssumption DEF TypeInv

\* It holds of a new RtApi: no stream, no thread, no handle.
LEMMA InitiallyInv == RtApiInit => IInv
<1> SUFFICES ASSUME RtApiInit PROVE IInv
  OBVIOUS
<1>1. /\ stream_ \in StreamType /\ stream_.state = "CLOSED" /\ stream_.mode = "UNINITIALIZED"
      /\ stream_.owned = {} /\ stream_.leaked = {}
  BY DEF RtApiInit, StreamType, StreamStates, Modes
<1>2. handle \in HandleType /\ handle.drainCounter = 0
  <2> DEFINE H(c) == [runnable |-> FALSE, synchronized |-> FALSE, drainCounter |-> c,
                      internalDrain |-> FALSE, condition |-> FALSE]
  <2>1. \A c \in 0 .. 5 : H(c) \in HandleType /\ H(c).drainCounter = c
    BY DEF HandleType
  <2>2. handle = H(0)
    BY Zenon DEF RtApiInit, InitHandle
  <2> HIDE DEF H
  <2> QED
    BY <2>1, <2>2
<1>3. device \in DeviceType /\ device.running = {} /\ device.alive
  BY InitialDevice DEF RtApiInit
<1>4. pc \in [Threads -> PcLabels] /\ pc["user"] = "idle" /\ pc["audio"] = "none" /\ pc["helper"] = "none"
  BY DEF RtApiInit, Threads, PcLabels
<1>5. /\ hist \in HistType /\ ~hist.ended /\ ~hist.unplayed /\ ~hist.self /\ ~hist.orphan
      /\ ~hist.opened /\ hist.late = -1 /\ hist.unheard = {}
  <2> DEFINE S(l) == [ended |-> FALSE, late |-> l, unplayed |-> FALSE, self |-> FALSE,
                      unheard |-> {}, orphan |-> FALSE, opened |-> FALSE]
  <2>1. ASSUME NEW l \in Int
        PROVE /\ S(l) \in HistType /\ ~S(l).ended /\ ~S(l).unplayed /\ ~S(l).self /\ ~S(l).orphan
              /\ ~S(l).opened /\ S(l).late = l /\ S(l).unheard = {}
    BY DEF HistType
  <2>2. -1 \in Int
    OBVIOUS
  <2>3. hist = S(-1)
    BY Zenon DEF RtApiInit
  <2> HIDE DEF S
  <2> QED
    BY <2>1, <2>2, <2>3
<1>6. TypeInv
  BY <1>1, <1>2, <1>3, <1>4, <1>5, RtApiAssumption DEF RtApiInit, TypeInv
<1>7. CountInv /\ ThreadInv
  BY <1>1, <1>2, <1>4, <1>5 DEF CountInv, ThreadInv
<1>8. AlsaInv /\ PulseInv /\ OssInv
  BY <1>1, <1>4, <1>5, <1>7 DEF AlsaInv, PulseInv, OssInv
<1>9. DsInv /\ WasapiInv
  BY <1>1, <1>4, <1>5, <1>7 DEF DsInv, WasapiInv
<1>10. CoreInv /\ JackInv /\ AsioInv
  BY <1>1, <1>3, <1>4, <1>5, <1>7 DEF CoreInv, CoreModes, JackInv, AsioInv
<1> QED
  BY <1>6, <1>8, <1>9, <1>10 DEF IInv

\* A step is the backend's, or the beginning of a call of the application.
LEMMA BackendSteps ==
  ASSUME Next
  PROVE /\ api = "ALSA" => AlsaNext \/ Calls
        /\ api = "PULSE" => PulseNext \/ Calls
        /\ api = "OSS" => OssNext \/ Calls
        /\ api = "DS" => DsNext \/ Calls
        /\ api = "WASAPI" => WasapiNext \/ Calls
        /\ api = "CORE" => CoreNext \/ Calls
        /\ api = "JACK" => JackNext \/ Calls
        /\ api = "ASIO" => AsioNext \/ Calls
BY DEF Next, AlsaNext, AlsaUser, AlsaAudio, PulseNext, PulseUser, PulseAudio, OssNext, DsNext,
       WasapiNext, CoreNext, JackNext, AsioNext

\* Every step keeps it, and does nothing that Lasting forbids.
LEMMA NextStep ==
  ASSUME IInv, Next
  PROVE IInv' /\ Lasting
<1>1. TypeInv
  BY DEF IInv
<1>2. api \in {"ALSA", "PULSE", "OSS", "DS", "WASAPI", "CORE", "JACK", "ASIO"}
  BY <1>1, BackendNames
<1>3. CASE api = "ALSA"
  <2>1. TypeInv' /\ AlsaInv' /\ Lasting
    BY <1>1, <1>3, BackendSteps, AlsaPreserved DEF IInv
  <2> QED
    BY <1>3, <2>1 DEF IInv, Lasting
<1>4. CASE api = "PULSE"
  <2>1. TypeInv' /\ PulseInv' /\ Lasting
    BY <1>1, <1>4, BackendSteps, PulsePreserved DEF IInv
  <2> QED
    BY <1>4, <2>1 DEF IInv, Lasting
<1>5. CASE api = "OSS"
  <2>1. TypeInv' /\ OssInv' /\ Lasting
    BY <1>1, <1>5, BackendSteps, OssPreserved DEF IInv
  <2> QED
    BY <1>5, <2>1 DEF IInv, Lasting
<1>6. CASE api = "DS"
  <2>1. TypeInv' /\ DsInv' /\ Lasting
    BY <1>1, <1>6, BackendSteps, DsPreserved DEF IInv
  <2> QED
    BY <1>6, <2>1 DEF IInv, Lasting
<1>7. CASE api = "WASAPI"
  <2>1. TypeInv' /\ WasapiInv' /\ Lasting
    BY <1>1, <1>7, BackendSteps, WasapiPreserved DEF IInv
  <2> QED
    BY <1>7, <2>1 DEF IInv, Lasting
<1>8. CASE api = "CORE"
  <2>1. TypeInv' /\ CoreInv' /\ Lasting
    BY <1>1, <1>8, BackendSteps, CorePreserved DEF IInv
  <2> QED
    BY <1>8, <2>1 DEF IInv, Lasting
<1>9. CASE api = "JACK"
  <2>1. TypeInv' /\ JackInv' /\ Lasting
    BY <1>1, <1>9, BackendSteps, JackPreserved DEF IInv
  <2> QED
    BY <1>9, <2>1 DEF IInv, Lasting
<1>10. CASE api = "ASIO"
  <2>1. TypeInv' /\ AsioInv' /\ Lasting
    BY <1>1, <1>10, BackendSteps, AsioPreserved DEF IInv
  <2> QED
    BY <1>10, <2>1 DEF IInv, Lasting
<1> QED
  BY <1>2, <1>3, <1>4, <1>5, <1>6, <1>7, <1>8, <1>9, <1>10

\* A step that changes nothing keeps it.
LEMMA StutteringStep ==
  ASSUME IInv, UNCHANGED vars
  PROVE IInv'
<1> USE DEF vars
<1>1. TypeInv' <=> TypeInv
  BY DEF TypeInv
<1>2. (CountInv' <=> CountInv) /\ (ThreadInv' <=> ThreadInv)
  BY DEF CountInv, ThreadInv
<1>3. (AlsaInv' <=> AlsaInv) /\ (PulseInv' <=> PulseInv) /\ (OssInv' <=> OssInv)
  BY <1>2 DEF AlsaInv, PulseInv, OssInv
<1>4. (DsInv' <=> DsInv) /\ (WasapiInv' <=> WasapiInv)
  BY <1>2 DEF DsInv, WasapiInv
<1>5. (CoreInv' <=> CoreInv) /\ (JackInv' <=> JackInv) /\ (AsioInv' <=> AsioInv)
  BY <1>2 DEF CoreInv, CoreModes, Quiet, Plays, TwoDevices, JackInv, AsioInv
<1> QED
  BY <1>1, <1>3, <1>4, <1>5 DEF IInv

\* IInv holds throughout, for any number of openings and starts.
THEOREM Invariant == Spec => []IInv
<1>1. RtApiInit => IInv
  BY InitiallyInv
<1>2. IInv /\ [Next]_vars => IInv'
  BY NextStep, StutteringStep
<1> QED
  BY <1>1, <1>2, PTL DEF Spec

\* It implies the type invariant of the runs.
LEMMA TypedStates == IInv => TypeOK
BY DEF IInv, TypeInv, TypeOK, StreamType, HandleType, DeviceType

\* The states have their types; the counter of silent buffers never passes 5, for any number
\* of openings and starts.
THEOREM TypeOKHolds == Spec => []TypeOK
<1>1. IInv => TypeOK
  BY TypedStates
<1> QED
  BY <1>1, Invariant, PTL

\* It implies that the threads have the handle they use.
LEMMA HandleOwned == IInv => ThreadOwnsHandle
<1> SUFFICES ASSUME IInv PROVE ThreadOwnsHandle
  OBVIOUS
<1>1. TypeInv /\ api \in {"ALSA", "PULSE", "OSS", "DS", "WASAPI", "CORE", "JACK", "ASIO"}
  BY BackendNames DEF IInv
<1>2. CASE api = "ALSA" \/ api = "PULSE" \/ api = "OSS"
  BY <1>1, <1>2 DEF IInv, AlsaInv, PulseInv, OssInv, ThreadInv, ThreadOwnsHandle
<1>3. CASE api = "DS" \/ api = "WASAPI"
  BY <1>1, <1>3 DEF IInv, DsInv, WasapiInv, ThreadOwnsHandle
<1>4. CASE api = "CORE" \/ api = "JACK" \/ api = "ASIO"
  BY <1>1, <1>4 DEF IInv, CoreInv, JackInv, AsioInv, CoreHeld, ThreadOwnsHandle
<1> QED
  BY <1>1, <1>2, <1>3, <1>4

\* No callback thread and no driver's callback uses a handle that closeStream() deleted, on
\* any backend.
THEOREM ThreadOwnsHandleHolds == Spec => []ThreadOwnsHandle
<1>1. IInv => ThreadOwnsHandle
  BY HandleOwned
<1> QED
  BY <1>1, Invariant, PTL

\* It implies that a closed stream lost no more than what is known.
LEMMA ClosedLost == IInv => ClosedOwnsNothing
<1> SUFFICES ASSUME IInv PROVE ClosedOwnsNothing
  OBVIOUS
<1>1. TypeInv /\ api \in {"ALSA", "PULSE", "OSS", "DS", "WASAPI", "CORE", "JACK", "ASIO"}
  BY BackendNames DEF IInv
<1>2. CASE api = "ALSA" \/ api = "PULSE"
  BY <1>1, <1>2 DEF IInv, AlsaInv, PulseInv, AlsaLost, PulseLost, ClosedOwnsNothing, KnownLeaks
<1>3. CASE api = "OSS"
  BY <1>1, <1>3 DEF IInv, OssInv, ClosedOwnsNothing, KnownLeaks
<1>4. CASE api = "DS" \/ api = "WASAPI"
  BY <1>1, <1>4 DEF IInv, DsInv, WasapiInv, DsLost, WasapiLost, ClosedOwnsNothing, KnownLeaks
<1>5. CASE api = "CORE"
  BY <1>1, <1>5 DEF IInv, CoreInv, CoreLost, ClosedOwnsNothing, KnownLeaks
<1>6. CASE api = "JACK" \/ api = "ASIO"
  BY <1>1, <1>6 DEF IInv, JackInv, AsioInv, ClosedOwnsNothing, KnownLeaks
<1> QED
  BY <1>1, <1>2, <1>3, <1>4, <1>5, <1>6

\* A closed stream holds nothing and lost nothing but what is known of its backend, after any
\* number of openings, however they failed.
THEOREM ClosedOwnsNothingHolds == Spec => []ClosedOwnsNothing
<1>1. IInv => ClosedOwnsNothing
  BY ClosedLost
<1> QED
  BY <1>1, Invariant, PTL

\* It implies that a running stream has its device.
LEMMA DeviceOwned == IInv => RunningHasDevice
<1> SUFFICES ASSUME IInv PROVE RunningHasDevice
  OBVIOUS
<1>1. TypeInv /\ api \in {"ALSA", "PULSE", "OSS", "DS", "WASAPI", "CORE", "JACK", "ASIO"}
  BY BackendNames DEF IInv
<1>2. CASE api = "ALSA" \/ api = "PULSE" \/ api = "OSS"
  BY <1>1, <1>2 DEF IInv, AlsaInv, PulseInv, OssInv, ThreadInv, RunningHasDevice, Threads
<1>3. CASE api = "DS" \/ api = "WASAPI"
  BY <1>1, <1>3 DEF IInv, DsInv, RunningHasDevice, Threads
<1>4. CASE api = "CORE" \/ api = "JACK" \/ api = "ASIO"
  BY <1>1, <1>4 DEF IInv, CoreInv, JackInv, AsioInv, Devices, RunningHasDevice, Threads
<1> QED
  BY <1>1, <1>2, <1>3, <1>4

\* A running stream keeps its device, client or driver until closeStream() releases it.
THEOREM RunningHasDeviceHolds == Spec => []RunningHasDevice
<1>1. IInv => RunningHasDevice
  BY DeviceOwned
<1> QED
  BY <1>1, Invariant, PTL

\* It implies that one callback at most is late.
LEMMA LateOnce == IInv => AtMostOneLate
<1> SUFFICES ASSUME IInv PROVE AtMostOneLate
  OBVIOUS
<1>1. TypeInv /\ api \in {"ALSA", "PULSE", "OSS", "DS", "WASAPI", "CORE", "JACK", "ASIO"}
  BY BackendNames DEF IInv
<1>2. CASE api = "ALSA" \/ api = "PULSE" \/ api = "OSS"
  BY <1>1, <1>2 DEF IInv, AlsaInv, PulseInv, OssInv, ThreadInv, AtMostOneLate
<1>3. CASE api = "DS" \/ api = "WASAPI"
  BY <1>1, <1>3 DEF IInv, DsInv, WasapiInv, TypeInv, HistType, AtMostOneLate
<1>4. CASE api = "CORE" \/ api = "JACK" \/ api = "ASIO"
  BY <1>1, <1>4 DEF IInv, CoreInv, JackInv, AsioInv, TypeInv, HistType, AtMostOneLate
<1> QED
  BY <1>1, <1>2, <1>3, <1>4

\* After stopStream() or abortStream() returned, one callback at most ends before the stream is
\* started again.
THEOREM AtMostOneLateHolds == Spec => []AtMostOneLate
<1>1. IInv => AtMostOneLate
  BY LateOnce
<1> QED
  BY <1>1, Invariant, PTL

\* It implies that what was not heard is a mode that is excepted.
LEMMA PlayedOut == IInv => SelfStopPlaysOut
<1> SUFFICES ASSUME IInv PROVE SelfStopPlaysOut
  OBVIOUS
<1>1. TypeInv /\ api \in {"ALSA", "PULSE", "OSS", "DS", "WASAPI", "CORE", "JACK", "ASIO"}
  BY BackendNames DEF IInv
<1>2. CASE api = "ALSA" \/ api = "PULSE" \/ api = "OSS"
  BY <1>1, <1>2 DEF IInv, AlsaInv, PulseInv, OssInv, SelfStopPlaysOut
<1>3. CASE api = "DS" \/ api = "WASAPI"
  BY <1>1, <1>3 DEF IInv, DsInv, WasapiInv, SelfStopPlaysOut
<1>4. CASE api = "CORE" \/ api = "JACK" \/ api = "ASIO"
  BY <1>1, <1>4 DEF IInv, CoreInv, JackInv, AsioInv, SelfStopPlaysOut
<1> QED
  BY <1>1, <1>2, <1>3, <1>4

\* The last buffer of a callback that ended the stream by itself is played, but in the modes
\* and backends SelfStopPlaysOut excepts.
THEOREM SelfStopPlaysOutHolds == Spec => []SelfStopPlaysOut
<1>1. IInv => SelfStopPlaysOut
  BY PlayedOut
<1> QED
  BY <1>1, Invariant, PTL

\* A callback that asked for the end is not called again before the stream is started, on any
\* backend and whatever the other threads do.
THEOREM EndedIsEndedHolds == Spec => EndedIsEnded
<1>1. IInv /\ [Next]_vars => [pc["audio"] # "callback" /\ pc'["audio"] = "callback" => ~hist.ended]_vars
  BY NextStep DEF Lasting
<1> QED
  BY <1>1, Invariant, PTL DEF Spec, EndedIsEnded

\* Only openStream() takes a stream out of CLOSED, but in the four backends that may be left by
\* a thread in stopStream() after closeStream().
THEOREM OnlyOpenStreamOpensHolds == Spec => OnlyOpenStreamOpens
<1>1. IInv /\ [Next]_vars => [stream_.state = "CLOSED" /\ stream_.state' # "CLOSED"
                                   => opens' = opens + 1 \/ api \in {"WASAPI", "CORE", "JACK", "ASIO"}]_vars
  BY NextStep DEF Lasting, Late
<1> QED
  BY <1>1, Invariant, PTL DEF Spec, OnlyOpenStreamOpens
=============================================================================
