---------------------------- MODULE MCFrameBuffer ----------------------------
(* Packet sets for model checking FrameBuffer. *)
EXTENDS FrameBuffer

Packet(f, p, n) == [fid |-> f, pid |-> p, total_length |-> n]

\* A frame of two packets, and an empty one a whole lap later; with Size = 2
\* the last is late for the first frame's slot and also the frame just past
\* the end of the window.  Frame 2 is lost.
LapPackets == {Packet(1, 0, 2), Packet(1, 1, 2), Packet(3, 0, 0)}

\* Only frames that fit the ring of two slots: no packet is ever too early.
WindowPackets == {Packet(1, 0, 1), Packet(2, 0, 1)}
=============================================================================
