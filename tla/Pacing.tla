------------------------------- MODULE Pacing -------------------------------
(***************************************************************************)
(* How the streamer keeps its frame rate (streamer_thread): an iteration   *)
(* grabs, encodes and sends frame fid, however long that takes, then       *)
(* sleeps in steps of about a millisecond until init_ts + period*(fid + 1).*)
(* The product of an int and a uint32_t is a uint32_t, so it wraps before  *)
(* it is added to the 64-bit timestamp.  The renderer of src/watcher paces *)
(* itself with the same expression.  Time is in units of the sleep.        *)
(***************************************************************************)
EXTENDS Integers

CONSTANTS
  Period,    \* period (66666 us)
  Modulus,   \* 2^32 us
  WorkMax,   \* bound: the longest iteration, in units of time
  SleepMax,  \* the longest that nanosleep(&idle) takes
  MaxFid     \* bound: frames sent

VARIABLES
  ts,        \* get_us() - init_ts
  fid,
  start,     \* streamer_ts - init_ts, read at the start of the iteration
  streamer   \* "work" or "pace"

vars == <<ts, fid, start, streamer>>

\* period * fid as the code computes it.
Expected(f) == (Period * f) % Modulus

Init == ts = 0 /\ fid = 0 /\ start = 0 /\ streamer = "work"

\* Grab, encode and send: a slow camera, encoder or network may overrun.
Work ==
  /\ streamer = "work" /\ fid <= MaxFid
  /\ \E cost \in 0 .. WorkMax : ts' = ts + cost
  /\ streamer' = "pace"
  /\ UNCHANGED <<fid, start>>

\* while (ts < next_streamer_ts) nanosleep(&idle, NULL)
Sleep ==
  /\ streamer = "pace" /\ ts < Expected(fid + 1)
  /\ \E d \in 1 .. SleepMax : ts' = ts + d
  /\ UNCHANGED <<fid, start, streamer>>

NextIteration ==
  /\ streamer = "pace" /\ ts >= Expected(fid + 1)
  /\ fid' = fid + 1 /\ start' = ts /\ streamer' = "work"
  /\ UNCHANGED ts

Next == Work \/ Sleep \/ NextIteration

Spec == Init /\ [][Next]_vars

-----------------------------------------------------------------------------
\* streamer.h: expected_streamer_ts is the "expected timestamp of the start of
\* the iteration", the fid-th period after the first: no frame is sent before.
\* Once the product has wrapped (fid 64426, after 72 minutes at 15 fps) nothing
\* holds the streamer back.
NotAheadOfSchedule == start >= Period * fid
=============================================================================
