--------------------------- MODULE MCLegacyWatcher ---------------------------
(* Packet sets for model checking LegacyWatcher. *)
EXTENDS LegacyWatcher

Packet(f, p, k) == [fid |-> f, pid |-> p, total_length |-> k]

\* Three frames in two slots, the second of two packets: frames that are whole,
\* partial and lost, one after the other, and one a lap after the first.
ThreeFrames ==
  {Packet(1, 0, 1), Packet(2, 0, 2), Packet(2, 1, 2), Packet(3, 0, 1)}
=============================================================================
