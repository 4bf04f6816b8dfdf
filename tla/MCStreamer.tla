----------------------------- MODULE MCStreamer ------------------------------
(* What the encoders return in the runs of Streamer; a packet holds 2 bytes.  *)
EXTENDS Streamer

\* imencode() fails, or needs two packets.
Jpegs == {0, 3}

\* A frame the codec skipped; a slice in a second layer; parameter sets, and a
\* slice that MaxSegs = 2 leaves no room for.
Units == {<<>>, <<<<1>>, <<2>>>>, <<<<2, 1>>, <<1>>>>}
=============================================================================
