---------------------------- MODULE PacketBitmap ----------------------------
(***************************************************************************)
(* The bitmap that records which packets of a frame have arrived, byte by  *)
(* byte as watcher.h keeps it: bitmap_set() of every packet enqueued,      *)
(* bitmap_check_nr_ones() of the first n bits, and the decision taken from *)
(* it, whether the frame at the head of the ring is complete enough to be  *)
(* played.  FrameBuffer takes the bitmap as a set of packet IDs; this      *)
(* module shows what that set stands for.  One frame after another uses    *)
(* the slot; the two threads never meet here, they do in FrameBuffer.      *)
(***************************************************************************)
EXTENDS Integers, FiniteSets

CONSTANTS
  ByteBits,   \* bits of a byte (8)
  NBytes,     \* sizeof(bitmap) (128)
  PidLimit,   \* packet IDs recorded: sizeof(uint8_t) * sizeof(bitmap) (128)
  PastEnd,    \* the byte that happens to follow the bitmap
  Totals      \* packets in a frame

ASSUME BitmapAssumption ==
  /\ ByteBits \in Nat \ {0} /\ NBytes \in Nat \ {0} /\ PidLimit \in Nat
  /\ PastEnd \in 0 .. 2^ByteBits - 1
  /\ Totals \subseteq 1 .. ByteBits * NBytes

VARIABLES
  bitmap,         \* fbm->bitmap
  total_packet,   \* fbm->total_packet
  total,          \* packets of the frame the slot stands for
  received        \* IDs of its packets that were enqueued

vars == <<bitmap, total_packet, total, received>>

Bytes == 0 .. 2^ByteBits - 1
BitmapBits == ByteBits * NBytes

Bit(byte, j) == (byte \div 2^j) % 2

bitmap_set(b, i) ==
  [b EXCEPT ![i \div ByteBits] =
     IF Bit(@, i % ByteBits) = 1 THEN @ ELSE @ + 2^(i % ByteBits)]

bitmap_check_nr_ones_in_one_byte(byte) ==
  Cardinality({j \in 0 .. ByteBits - 1 : Bit(byte, j) = 1})

\* The whole bytes before the one that holds bit n.
WholeBytes(b, n) ==
  LET ones[i \in 0 .. n] ==
        IF i = 0 THEN 0 ELSE ones[i - 1] + bitmap_check_nr_ones_in_one_byte(b[i - 1])
  IN ones[n]

\* The last byte counted whole, without the mask.
bitmap_check_nr_ones_unmasked(b, n) ==
  LET ii == n \div ByteBits
      last == IF ii < NBytes THEN b[ii] ELSE PastEnd
  IN WholeBytes(b, ii) + bitmap_check_nr_ones_in_one_byte(last)

\* For n = BitmapBits the byte after the bitmap is read, and masked out.
bitmap_check_nr_ones(b, n) ==
  LET ii == n \div ByteBits
      mask == 2^(n % ByteBits)
      last == IF ii < NBytes THEN b[ii] ELSE PastEnd
  IN WholeBytes(b, ii) + bitmap_check_nr_ones_in_one_byte(last % mask)

\* The decision of fb_is_next_frame_ready_on_time() for a frame that is due.
Ready ==
  /\ bitmap_check_nr_ones(bitmap, total_packet) > (8 * total_packet) \div 10
  /\ total_packet # 0

Init ==
  /\ bitmap = [i \in 0 .. NBytes - 1 |-> 0]
  /\ total_packet = 0
  /\ total \in Totals
  /\ received = {}

\* The limit off by one.
EnqueueAllButLast(pid) ==
  /\ total_packet' = total
  /\ bitmap' = IF pid < PidLimit - 1 THEN bitmap_set(bitmap, pid) ELSE bitmap
  /\ received' = received \cup {pid}
  /\ UNCHANGED total

\* What fb_enqueue_packet() does to the slot's bitmap.
Enqueue(pid) ==
  /\ total_packet' = total
  /\ bitmap' = IF pid < PidLimit THEN bitmap_set(bitmap, pid) ELSE bitmap
  /\ received' = received \cup {pid}
  /\ UNCHANGED total

\* What fb_dequeue_frame() does to it, the frame being ready or overdue.
Dequeue ==
  /\ bitmap' = [i \in 0 .. NBytes - 1 |-> 0]
  /\ total_packet' = 0
  /\ total' \in Totals
  /\ received' = {}

Next == (\E pid \in 0 .. total - 1 : Enqueue(pid)) \/ Dequeue

Spec == Init /\ [][Next]_vars

-----------------------------------------------------------------------------
\* Counting the ones of the first n bits gives the number of different packets
\* received among the first n as long as n is at most PidLimit, the limit of
\* fb_enqueue_packet() (128 packets in the code, an eighth of what the comment on
\* the bitmap promises); a longer prefix counts no more than one of PidLimit,
\* however many packets have arrived.  Duplicates are counted once, the last
\* byte is cut at bit n, and the byte after the bitmap never counts.
CountIsExact ==
  \A n \in 0 .. BitmapBits :
    /\ n <= PidLimit =>
         bitmap_check_nr_ones(bitmap, n) = Cardinality({p \in received : p < n})
    /\ n > PidLimit =>
         bitmap_check_nr_ones(bitmap, n) = Cardinality({p \in received : p < PidLimit})

\* watcher.h: "packet bitmap, assume at most 128 * 8 = 1024 packets in a
\* frame": a frame of that many packets or less that has arrived whole is
\* ready.  It holds of frames of less than 5/4 of PidLimit packets (159 in the
\* code); of a larger one the packets recorded are never more than 80 %.
CompleteIsReady == received = 0 .. total - 1 => Ready
=============================================================================
